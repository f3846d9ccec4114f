\* Scroll mode keeps the page size of its first request, whatever size the feeder asks for.
SPECIFICATION SearchSpec
CONSTANTS
    Total = 4
    Hints = {1, 2, 3}
    Limits <- NoLimitOrTwo
INVARIANT ShortPageIsTheEnd
CHECK_DEADLOCK FALSE
