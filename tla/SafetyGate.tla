----------------------------- MODULE SafetyGate -----------------------------
(***************************************************************************)
(* Safe mode of one connection (safety.rs): what has to be confirmed, by   *)
(* which rung of the ladder, and what has been.                            *)
(*                                                                         *)
(* A request the rung gates is admitted only against a grant for exactly   *)
(* its text; without one it is refused and a challenge is minted.  A       *)
(* challenge that is satisfied becomes grants, each good for one           *)
(* admission.  A script can be planned ahead: one challenge covers its     *)
(* statements and the script as a whole.                                   *)
(*                                                                         *)
(* Every method takes the gate's mutex for each of its reads and writes    *)
(* and not over all of them, so a change of the rung can come between.     *)
(* A text is a sequence of statements; a statement is a read or is not.    *)
(* Entries past their TTL are invisible, since every method that looks at  *)
(* them prunes first: EntryExpires drops them as time passes.              *)
(***************************************************************************)
EXTENDS Naturals, SequencesExt

CONSTANTS
    Tasks,          \* tasks that plan, execute and answer on this connection
    Statements,     \* statements that occur
    Reads,          \* those datagrep-lang classifies as reads
    MaxScript,      \* bound: statements in one text
    Levels,         \* rungs the user switches between: subset of SafetyLevels
    MaxPending,     \* MAX_PENDING
    MaxGrants,      \* MAX_GRANTS
    MaxTickets,     \* bound: challenges minted in all
    MaxChanges      \* bound: changes of the rung

SafetyLevels == {"Silent", "WarnAll", "WarnWrites", "AuthAll", "AuthWrites"}

ASSUME GateAssumption ==
    /\ Reads \subseteq Statements /\ Levels \subseteq SafetyLevels /\ Levels # {}
    /\ MaxScript \in Nat \ {0} /\ MaxPending \in Nat \ {0} /\ MaxGrants \in Nat \ {0}
    /\ MaxTickets \in Nat /\ MaxChanges \in Nat

VARIABLES
    level,      \* GateState.level
    pending,    \* GateState.pending, oldest first
    grants,     \* GateState.grants, oldest first
    next,       \* challenges minted so far
    call,       \* the method each caller is in, with what it has worked out
    changes,    \* history: how often the rung has changed
    spent       \* history: grants that have admitted a request

gateVars == <<level, pending, grants, next, call, changes, spent>>
-----------------------------------------------------------------------------
Requirements == 0 .. 2          \* None < Warn < Authenticate
NoText == <<>>
Texts == BoundedSeq(Statements, MaxScript) \ {NoText}

\* SafetyLevel::requirement
Requirement(l, read) ==
    CASE l = "Silent" -> 0
      [] l \in {"WarnAll", "WarnWrites"} -> IF read /\ l = "WarnWrites" THEN 0 ELSE 1
      [] l \in {"AuthAll", "AuthWrites"} -> IF read /\ l = "AuthWrites" THEN 0 ELSE 2

\* is_read: every statement is.
IsRead(t) == ToSet(t) \subseteq Reads

Higher(a, b) == IF a >= b THEN a ELSE b

\* The texts a planned script is cleared for: each statement and, if there
\* are several, the whole.
Bindings(t) == [i \in DOMAIN t |-> <<t[i]>>] \o (IF Len(t) > 1 THEN <<t>> ELSE <<>>)

\* The newest max entries: the oldest make room.
Newest(max, s) == IF Len(s) > max THEN SubSeq(s, Len(s) - max + 1, Len(s)) ELSE s

\* A caller in no method.
Out == [pc |-> "out", text |-> NoText, need |-> 0, seen |-> 0]
Return(c) == call' = [call EXCEPT ![c] = Out]

GateInit ==
    /\ level \in Levels
    /\ pending = <<>> /\ grants = <<>> /\ next = 0
    /\ call = [c \in Tasks |-> Out]
    /\ changes = 0
    /\ spent = {}
-----------------------------------------------------------------------------
(* admit *)

\* The first look at the rung.  What it does not gate goes through at once and
\* leaves no trace.
Admit(c, t) ==
    LET required == Requirement(level, IsRead(t))
    IN  /\ call[c] = Out /\ required > 0
        /\ call' = [call EXCEPT ![c] = [pc |-> "check", text |-> t, need |-> required, seen |-> 0]]
        /\ UNCHANGED <<level, pending, grants, next, changes, spent>>

Clears(g, c) == g.binding = call[c].text /\ g.need >= call[c].need

\* The first grant that clears the request is used up; without one a
\* challenge will be minted.
Check(c) ==
    /\ call[c].pc = "check"
    /\ \/ \E i \in DOMAIN grants :
            /\ Clears(grants[i], c) /\ \A k \in 1 .. i - 1 : ~Clears(grants[k], c)
            /\ grants' = RemoveAt(grants, i)
            /\ spent' = spent \cup {[id |-> grants[i].id, nth |-> grants[i].nth]}
            /\ Return(c)
       \/ /\ \A i \in DOMAIN grants : ~Clears(grants[i], c)
          /\ call' = [call EXCEPT ![c].pc = "refuse"]
          /\ UNCHANGED <<grants, spent>>
    /\ UNCHANGED <<level, pending, next, changes>>

\* mint
Mint(c, bindings) ==
    /\ next < MaxTickets
    /\ next' = next + 1
    /\ pending' = Newest(MaxPending,
                         Append(pending, [id |-> next + 1, need |-> call[c].need,
                                          bindings |-> bindings]))

Refuse(c) ==
    /\ call[c].pc = "refuse"
    /\ Mint(c, <<call[c].text>>)
    /\ Return(c)
    /\ UNCHANGED <<level, grants, changes, spent>>
-----------------------------------------------------------------------------
(* plan *)

Plan(c, t) ==
    /\ call[c] = Out
    /\ call' = [call EXCEPT ![c] = [pc |-> "plan", text |-> t, need |-> 0, seen |-> 0]]
    /\ UNCHANGED <<level, pending, grants, next, changes, spent>>

\* The rung is looked up for each statement anew.
PlanStatement(c) ==
    /\ call[c].pc = "plan" /\ call[c].seen < Len(call[c].text)
    /\ LET read == call[c].text[call[c].seen + 1] \in Reads
       IN  call' = [call EXCEPT ![c] = [pc |-> "plan", text |-> @.text, seen |-> @.seen + 1,
                                         need |-> Higher(@.need, Requirement(level, read))]]
    /\ UNCHANGED <<level, pending, grants, next, changes, spent>>

Planned(c) ==
    /\ call[c].pc = "plan" /\ call[c].seen = Len(call[c].text)
    /\ \/ call[c].need > 0 /\ Mint(c, Bindings(call[c].text))
       \/ call[c].need = 0 /\ UNCHANGED <<pending, next>>
    /\ Return(c)
    /\ UNCHANGED <<level, grants, changes, spent>>
-----------------------------------------------------------------------------
\* Fault: the challenge stays open.
SatisfyKeepsOpen(id, strength) ==
    \E i \in DOMAIN pending :
        /\ pending[i].id = id /\ strength >= pending[i].need
        /\ LET ticketed == [n \in DOMAIN pending[i].bindings |->
                              [id |-> id, nth |-> n, binding |-> pending[i].bindings[n],
                               need |-> pending[i].need]]
           IN  grants' = Newest(MaxGrants, grants \o ticketed)
        /\ UNCHANGED <<level, pending, next, call, changes, spent>>

\* satisfy, with evidence of some strength: the challenge goes, its grants come.
Satisfy(id, strength) ==
    \E i \in DOMAIN pending :
        /\ pending[i].id = id /\ strength >= pending[i].need
        /\ pending' = RemoveAt(pending, i)
        /\ LET ticketed == [n \in DOMAIN pending[i].bindings |->
                              [id |-> id, nth |-> n, binding |-> pending[i].bindings[n],
                               need |-> pending[i].need]]
           IN  grants' = Newest(MaxGrants, grants \o ticketed)
        /\ UNCHANGED <<level, next, call, changes, spent>>

\* set_level: another rung clears both lists.
SetLevel(l) ==
    /\ l # level /\ changes < MaxChanges
    /\ level' = l
    /\ pending' = <<>> /\ grants' = <<>>
    /\ changes' = changes + 1
    /\ UNCHANGED <<next, call, spent>>

\* Time passes: the oldest challenge or grant reaches its TTL.
EntryExpires ==
    /\ \/ pending # <<>> /\ pending' = Tail(pending) /\ UNCHANGED grants
       \/ grants # <<>> /\ grants' = Tail(grants) /\ UNCHANGED pending
    /\ UNCHANGED <<level, next, call, changes, spent>>

GateNext ==
    \/ \E c \in Tasks :
        \/ \E t \in Texts : Admit(c, t) \/ Plan(c, t)
        \/ Check(c) \/ Refuse(c) \/ PlanStatement(c) \/ Planned(c)
    \/ \E id \in 1 .. next, strength \in Requirements \ {0} : Satisfy(id, strength)
    \/ \E l \in Levels : SetLevel(l)
    \/ EntryExpires

GateSpec == GateInit /\ [][GateNext]_gateVars
-----------------------------------------------------------------------------
Ids == 1 .. MaxTickets
Challenges == [id : Ids, need : Requirements, bindings : Seq(Texts)]
Grants == [id : Ids, nth : Nat, binding : Texts, need : Requirements]

\* Types, and the two lists within their limits.
GateTypeOK ==
    /\ level \in Levels
    /\ pending \in Seq(Challenges) /\ Len(pending) <= MaxPending
    /\ grants \in Seq(Grants) /\ Len(grants) <= MaxGrants
    /\ next \in 0 .. MaxTickets
    /\ call \in [Tasks -> [pc : {"out", "check", "refuse", "plan"},
                             text : Texts \cup {NoText}, need : Requirements,
                             seen : 0 .. MaxScript]]
    /\ changes \in 0 .. MaxChanges
    /\ spent \subseteq [id : Ids, nth : Nat]

\* One confirmation clears one request: a grant admits once, whoever races
\* for it, and a challenge that was satisfied cannot be satisfied again.
ClearsOnce ==
    LET name(g) == [id |-> g.id, nth |-> g.nth]
    IN  /\ \A i \in DOMAIN grants : name(grants[i]) \notin spent
        /\ \A i, j \in DOMAIN grants : name(grants[i]) = name(grants[j]) => i = j
        /\ \A i \in DOMAIN pending :
              /\ \A j \in DOMAIN grants : grants[j].id # pending[i].id
              /\ \A s \in spent : s.id # pending[i].id

=============================================================================
