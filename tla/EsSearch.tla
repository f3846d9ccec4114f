------------------------------ MODULE EsSearch ------------------------------
(***************************************************************************)
(* A search of the Elasticsearch driver, page by page (open_scan of        *)
(* elasticsearch/connection.rs and SearchCursor of cursor.rs): a           *)
(* point-in-time with search_after or a scroll, begun as an async search   *)
(* or not, against what the server does for it.                            *)
(*                                                                         *)
(* Documents are numbered in the order of the sort.  The hint of the       *)
(* feeder and the cursor's own cap by bytes together ask for any of Hints. *)
(* The user of the cursor gives up at any await, the one of a release      *)
(* among them, and then closes it or drops it.                             *)
(***************************************************************************)
EXTENDS Integers, Sequences

CONSTANTS
    Total,     \* the matches there are
    Hints,     \* the page sizes the feeder asks for
    Limits     \* the row limits; NoLimit is one of them

NoLimit == -1

ASSUME SearchAssumption ==
    /\ Total \in Nat /\ Hints \subseteq Nat \ {0}
    /\ Limits \subseteq Nat \cup {NoLimit}

VARIABLES
    mode,       \* PageMode and whether searches are async
    cursor,     \* where the cursor is
    size,       \* the page size of this request
    remaining,  \* SearchCursor.remaining
    lastSort,   \* SearchCursor.last_sort
    ended,      \* SearchCursor.exhausted: how the result ended
    known,      \* SearchCursor.context is an id
    rows,       \* the documents handed out
    page,       \* the answer under way to the cursor, or read and not handed out yet
    context,    \* the point-in-time or scroll on the server
    position,   \* how far a scroll has come on the server
    scrolled,   \* the page size the scroll was opened with
    search,     \* the async search on the server
    freeing,    \* a request that releases the context is under way
    limit,      \* history: the limit at the start
    leaked,       \* history: such a request was refused, given up or never sent
    cut,        \* history: the server has left documents out of a page
    grew        \* history: more was asked of a scroll than it was opened for

esVars == <<mode, cursor, size, remaining, lastSort, ended, known, rows, page,
            context, position, scrolled, search, freeing, leaked, limit, cut, grew>>

NoPage == [there |-> FALSE, docs |-> <<>>]
Modes == {"pit", "async", "scroll", "async scroll"}

SearchInit ==
    /\ mode \in Modes
    /\ limit \in Limits /\ remaining = limit
    /\ cursor = "opening" /\ size = 0 /\ lastSort = 0
    /\ ended = "no" /\ known = FALSE /\ rows = <<>> /\ page = NoPage
    /\ context = "none" /\ position = 0 /\ scrolled = 0 /\ search = "none"
    /\ freeing = FALSE /\ leaked = FALSE /\ cut = FALSE /\ grew = FALSE

Server == <<context, position, scrolled, search>>
Reader == <<remaining, lastSort, ended, known, rows>>

Least(a, b) == IF a < b THEN a ELSE b
CursorAt(at) == cursor' = at

\* Only the first page of a scroll can be an async search.
Scrolls == mode \in {"scroll", "async scroll"}
InBackground == mode = "async" \/ (mode = "async scroll" /\ ~known)

InRequest == cursor \in {"asking", "polling", "finishing"}

\* release_context: the id is taken, and then a request awaited if there was one.
Release(await, at) ==
    /\ known' = FALSE
    /\ freeing' = (freeing \/ known)
    /\ cursor' = IF known THEN await ELSE at

----------------------------------------------------------------------------
\* execute: a point-in-time is opened; the answer may be lost.
OpenScan ==
    /\ cursor = "opening"
    /\ \/ ~Scrolls /\ context' = "open" /\ known' = TRUE /\ CursorAt("idle")
       \/ Scrolls /\ CursorAt("idle") /\ UNCHANGED <<context, known>>
       \/ ~Scrolls /\ context' \in {"none", "forgotten"} /\ CursorAt("gone") /\ UNCHANGED known
    /\ UNCHANGED <<mode, size, remaining, lastSort, ended, rows, page, position, scrolled, search, freeing, leaked, limit, cut, grew>>

\* next_batch, up to the request.
NextBatch(h) ==
    /\ cursor = "idle" /\ ended = "no"
    /\ \/ /\ remaining # 0
          /\ size' = IF remaining = NoLimit THEN h ELSE Least(h, remaining)
          /\ grew' = (grew \/ (0 < scrolled /\ scrolled < size'))
          /\ CursorAt("asking")
          /\ UNCHANGED <<ended, known, freeing>>
       \/ /\ remaining = 0
          /\ ended' = "clean" /\ Release("ending", "idle") /\ UNCHANGED <<size, grew>>
    /\ UNCHANGED <<mode, remaining, lastSort, rows, page, leaked, limit, cut>> /\ UNCHANGED Server

----------------------------------------------------------------------------
(* The server *)

\* The documents that come next, where this search takes up.
From == IF Scrolls THEN position ELSE lastSort
Asked == IF Scrolls /\ context = "open" THEN scrolled ELSE size
Left == Total - From

\* A page, whole or not: after the search timeout, or when a shard fails, documents are
\* left out of it.  A scroll keeps the size of its first request and goes on behind what
\* it has handed out.
Answer ==
    \E skip \in 0 .. 1, n \in 0 .. Least(Asked, Left) :
        /\ skip + n <= Left
        /\ page' = [there |-> TRUE, docs |-> [i \in 1 .. n |-> From + skip + i]]
        /\ cut' = (cut \/ skip > 0 \/ n < Least(Asked, Left))
        /\ IF Scrolls
           THEN context' = "open" /\ position' = From + skip + n /\ scrolled' = Asked
           ELSE UNCHANGED <<context, position, scrolled>>

AnswerPage ==
    /\ cursor = "asking" /\ ~InBackground /\ ~page.there
    /\ Answer
    /\ UNCHANGED <<mode, cursor, size, search, freeing, leaked, limit, grew>> /\ UNCHANGED Reader

\* Submitted with keep_on_completion: the search stays until it is deleted.
SubmitAsync ==
    /\ cursor = "asking" /\ InBackground /\ ~page.there
    /\ search' = "kept"
    /\ CursorAt("polling")
    /\ UNCHANGED <<mode, size, page, context, position, scrolled, freeing, leaked, limit, cut, grew>> /\ UNCHANGED Reader

PollAsync ==
    /\ cursor = "polling" /\ search = "kept"
    /\ Answer
    /\ CursorAt("finishing")
    /\ UNCHANGED <<mode, size, search, freeing, leaked, limit, grew>> /\ UNCHANGED Reader

FinishAsync ==
    /\ cursor = "finishing"
    /\ search' = "none" /\ CursorAt("asking")
    /\ UNCHANGED <<mode, size, page, context, position, scrolled, freeing, leaked, limit, cut, grew>> /\ UNCHANGED Reader

----------------------------------------------------------------------------
\* Fault: the position is where the first hit was.
SortOf(docs) == docs[1]

\* The sort of the last hit of a page.
LastHit(docs) == docs[Len(docs)]

\* A page shorter than this request asked for is taken for the last.
LastPage(n) == n < size \/ remaining \in 0 .. n

\* The answer is read; behind the last page the context is released before it is returned.
Receive ==
    LET docs == page.docs   n == Len(docs)
    IN  /\ cursor = "asking" /\ page.there
        /\ lastSort' = IF n = 0 THEN lastSort ELSE LastHit(docs)
        /\ remaining' = IF remaining = NoLimit THEN NoLimit ELSE remaining - Least(n, remaining)
        /\ \/ /\ LastPage(n)
              /\ ended' = "clean" /\ known' = FALSE /\ freeing' = TRUE /\ CursorAt("ending")
              /\ UNCHANGED <<rows, page>>
           \/ /\ ~LastPage(n)
              /\ known' = TRUE /\ rows' = rows \o docs /\ page' = NoPage /\ CursorAt("idle")
              /\ UNCHANGED <<ended, freeing>>
        /\ UNCHANGED <<mode, size, leaked, limit, cut, grew>> /\ UNCHANGED Server

\* What the server keeps and the cursor has no name for.
Unheard(thing) == IF thing = "none" THEN "none" ELSE "forgotten"

\* The request fails, the server answers with an error, or the async search has gone.
RequestFails ==
    /\ cursor \in {"asking", "polling"}
    /\ ended' = "error"
    /\ Release("ending", "idle") /\ page' = NoPage
    /\ search' \in {"none", Unheard(search)}
    /\ context' = IF known THEN context ELSE Unheard(context)
    /\ UNCHANGED <<mode, size, remaining, lastSort, rows, position, scrolled, leaked, limit, cut, grew>>

\* The answer has nothing but the failure of a shard, and perhaps the name of a scroll.
ShardsFail ==
    /\ cursor = "asking" /\ page.there /\ page.docs = <<>>
    /\ ended' = "error" /\ known' = FALSE /\ freeing' = TRUE /\ page' = NoPage /\ CursorAt("ending")
    /\ UNCHANGED <<mode, size, remaining, lastSort, rows, leaked, limit, cut, grew>> /\ UNCHANGED Server

\* The future of next_batch is dropped.
GiveUp ==
    /\ InRequest
    /\ CursorAt("idle") /\ ended' = "given_up" /\ page' = NoPage
    /\ search' = Unheard(search)
    /\ context' = IF known THEN context ELSE Unheard(context)
    /\ UNCHANGED <<mode, size, remaining, lastSort, known, rows, position, scrolled, freeing, leaked, limit, cut, grew>>

----------------------------------------------------------------------------
(* Releasing the context *)

Freed ==
    /\ freeing /\ freeing' = FALSE
    /\ context' = "none"
    /\ UNCHANGED <<mode, cursor, size, page, position, scrolled, search, leaked, limit, cut, grew>> /\ UNCHANGED Reader

\* The request is lost or refused, which is only logged: the context lives until its
\* keep_alive has passed.
FreeFails ==
    /\ freeing /\ freeing' = FALSE /\ leaked' = TRUE
    /\ UNCHANGED <<mode, cursor, size, page, limit, cut, grew>> /\ UNCHANGED Reader /\ UNCHANGED Server

\* next_batch or close goes on behind the request.
Released ==
    /\ cursor \in {"ending", "closing"} /\ ~freeing
    /\ CursorAt(IF cursor = "ending" THEN "idle" ELSE "gone")
    /\ rows' = rows \o page.docs /\ page' = NoPage
    /\ UNCHANGED <<mode, size, remaining, lastSort, ended, known, freeing, leaked, limit, cut, grew>> /\ UNCHANGED Server

\* Their future is dropped there: the id is gone already, and the request was sent or not.
\* A page that was read is not handed out.
GiveUpRelease ==
    /\ cursor \in {"ending", "closing"}
    /\ CursorAt(IF cursor = "ending" THEN "idle" ELSE "gone")
    /\ ended' = IF cursor = "ending" THEN "given_up" ELSE ended
    /\ page' = NoPage
    /\ \/ UNCHANGED <<freeing, leaked>>
       \/ freeing /\ freeing' = FALSE /\ leaked' = TRUE
    /\ UNCHANGED <<mode, size, remaining, lastSort, known, rows, limit, cut, grew>> /\ UNCHANGED Server

CloseCursor ==
    /\ cursor = "idle"
    /\ Release("closing", "gone")
    /\ UNCHANGED <<mode, size, remaining, lastSort, ended, rows, page, leaked, limit, cut, grew>> /\ UNCHANGED Server

\* Fault: only close lets go of the context.
DropForgets ==
    /\ cursor = "idle" /\ CursorAt("gone")
    /\ UNCHANGED <<mode, size, page, freeing, leaked, limit, cut, grew>> /\ UNCHANGED Reader /\ UNCHANGED Server

\* A task of its own sends the request; outside a runtime there is none.
DropCursor ==
    /\ cursor = "idle" /\ CursorAt("gone") /\ known' = FALSE
    /\ \/ freeing' = (freeing \/ known) /\ UNCHANGED leaked
       \/ known /\ leaked' = TRUE /\ UNCHANGED freeing
    /\ UNCHANGED <<mode, size, remaining, lastSort, ended, rows, page, limit, cut, grew>> /\ UNCHANGED Server

SearchNext ==
    \/ OpenScan \/ \E h \in Hints : NextBatch(h)
    \/ AnswerPage \/ SubmitAsync \/ PollAsync \/ FinishAsync
    \/ Receive \/ RequestFails \/ ShardsFail \/ GiveUp
    \/ Freed \/ FreeFails \/ Released \/ GiveUpRelease \/ CloseCursor \/ DropCursor

SearchSpec == SearchInit /\ [][SearchNext]_esVars

----------------------------------------------------------------------------
SearchTypeOK ==
    /\ mode \in Modes /\ limit \in Limits /\ remaining \in -1 .. limit
    /\ cursor \in {"opening", "idle", "asking", "polling", "finishing", "ending", "closing", "gone"}
    /\ size \in {0} \cup Hints \cup 1 .. limit /\ lastSort \in 0 .. Total
    /\ ended \in {"no", "clean", "error", "given_up"}
    /\ rows \in Seq(1 .. Total) /\ page.docs \in Seq(1 .. Total)
    /\ context \in {"none", "open", "forgotten"} /\ search \in {"none", "kept", "forgotten"}
    /\ position \in 0 .. Total /\ scrolled \in {0} \cup Hints \cup 0 .. limit
    /\ {known, freeing, leaked, cut, grew} \subseteq BOOLEAN

Wanted == IF limit = NoLimit THEN Total ELSE Least(limit, Total)

\* A result is the matches in order, none twice and none missing, whatever sizes the
\* pages are asked for; one that ends without an error is all there is up to its limit,
\* and never more (a scroll alone may hand out more).  Exempt are pages the server cut
\* short, and scrolls of which more was asked than they were opened for.
PagesAreWhole ==
    ~cut =>
        /\ rows = [i \in 1 .. Len(rows) |-> i]
        /\ ~Scrolls => Len(rows) <= Wanted
        /\ ended = "clean" /\ cursor # "ending" /\ ~grew => Len(rows) >= Wanted

\* However a result ends (read to its end, failed, given up, closed or dropped), its context
\* is never forgotten: the cursor has its id, or is being told it, or a request to release
\* it is under way, or that one request was lost and keep_alive has to do.  And it is
\* never released twice, nor before the last request that needs it (cursor.rs:413,
\* cursor.rs:588, cursor.rs:721).
ContextsGoBack ==
    /\ context = "open" =>
        \/ known /\ cursor # "gone"
        \/ InRequest /\ page.there
        \/ freeing \/ leaked
    /\ freeing \/ leaked => ~known /\ ~InRequest

\* cursor.rs:654: "A short page is the end of the stream for both mechanisms."
ShortPageIsTheEnd == ~cut /\ ended = "clean" /\ cursor # "ending" => Len(rows) >= Wanted
=============================================================================
