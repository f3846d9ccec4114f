---------------------------- MODULE PgPool_proofs ----------------------------
(***************************************************************************)
(* What is proved of PgPool for any number of catalog tasks, any cap on    *)
(* the sessions, batches of any size and any bounds: the cap is kept, a    *)
(* batch is whole and its caller told the truth, and a promise of          *)
(* read-only reaches every session a statement can get.                    *)
(*                                                                         *)
(* First what the list of slots does, then the invariant PgInv, one part   *)
(* per question, then one section per group of actions.                    *)
(***************************************************************************)
EXTENDS PgPool, TLAPS, SequenceTheorems, FiniteSetTheorems, WellFoundedInduction

USE PgBounds

-----------------------------------------------------------------------------
(* The slots *)

LEMMA LessIsARelation == OpToRel(<, Nat) = {p \in Nat \X Nat : p[1] < p[2]}
BY DEF OpToRel

LEMMA LeastElement == ASSUME NEW S, S \subseteq Nat, S # {} PROVE \E m \in S : \A k \in S : m <= k
<1>1. PICK m \in S : \A k \in S : ~(<<k, m>> \in OpToRel(<, Nat))
  BY WFMin, NatLessThanWellFounded
<1>2. PICK R : R = OpToRel(<, Nat)
  OBVIOUS
<1>3. \A j, k \in Nat : j < k => <<j, k>> \in R
  BY <1>2, LessIsARelation
<1>4. \A k \in S : ~(k < m)
  BY <1>1, <1>2, <1>3
<1> QED BY <1>4

\* Induction over the positions up to n, for a set of them instead of a property.
LEMMA UpToInduction ==
    ASSUME NEW G, 0 \in G, \A n \in Nat : n \in G => n + 1 \in G
    PROVE  \A n \in Nat : n \in G
<1> SUFFICES ASSUME NEW m \in Nat, m \notin G PROVE FALSE
  OBVIOUS
<1> DEFINE bad == Nat \ G
<1>1. PICK k \in bad : \A j \in bad : k <= j
  BY LeastElement
<1>2. k # 0 /\ k - 1 \in Nat
  BY <1>1
<1>3. k - 1 \in G
  BY <1>1, <1>2
<1>4. (k - 1) + 1 \in G
  BY <1>2, <1>3
<1> QED BY <1>1, <1>2, <1>4

LEMMA LastPosition == ASSUME NEW n \in Nat PROVE n # 0 => Max(1 .. n) = n /\ (1 .. n) \ {n} = 1 .. n - 1
BY DEF Max

LEMMA ToSetAppend ==
    ASSUME NEW S, NEW q \in Seq(S), NEW e \in S
    PROVE  ToSet(Append(q, e)) = ToSet(q) \cup {e}
<1> DEFINE r == Append(q, e)
<1>1. /\ DOMAIN q = 1 .. Len(q) /\ DOMAIN r = 1 .. Len(q) + 1 /\ Len(q) \in Nat
      /\ \A j \in 1 .. Len(q) : r[j] = q[j]
      /\ r[Len(q) + 1] = e
  OBVIOUS
<1> HIDE DEF r
<1>2. \A x : x \in ToSet(r) <=> (x \in ToSet(q) \/ x = e)
  BY <1>1 DEF ToSet
<1> QED BY <1>2 DEF r

\* Without takes the sessions that are gone out of the list and leaves the others in it.
LEMMA WithoutKeeps ==
    ASSUME slots \in Seq(Sids), NEW gone
    PROVE  /\ Without(gone) \in Seq(Sids) /\ Len(Without(gone)) <= Len(slots)
           /\ ToSet(Without(gone)) = ToSet(slots) \ gone
<1> DEFINE D == DOMAIN slots
           F(g) == [s \in SUBSET D |->
                      IF s = {} THEN <<>>
                      ELSE IF slots[Max(s)] \in gone THEN g[s \ {Max(s)}]
                      ELSE Append(g[s \ {Max(s)}], slots[Max(s)])]
           Upto(g, n) == \A s \in SUBSET D : s \subseteq 1 .. n => g[s] = F(g)[s]
           good == {n \in Nat : \E g : Upto(g, n)}
<1>1. Without(gone) = (CHOOSE g : g = F(g))[D]
  BY DEF Without, FoldLeft, MapThenFoldSet
<1>2. 0 \in good
  <2>1. Upto([s \in SUBSET D |-> <<>>], 0)
    OBVIOUS
  <2> QED BY <2>1
<1>3. ASSUME NEW n \in Nat, n \in good PROVE n + 1 \in good
  <2>1. PICK g : Upto(g, n)
    BY <1>3
  <2> DEFINE h == [s \in SUBSET D |-> IF s \subseteq 1 .. n THEN g[s] ELSE F(g)[s]]
  <2>2. ASSUME NEW s \in SUBSET D, s \subseteq 1 .. n + 1 PROVE h[s] = F(h)[s]
    <3>1. h[s] = F(g)[s]
      BY <2>1
    <3>2. CASE s = {}
      BY <3>1, <3>2
    <3>3. CASE s # {}
      <4>1. s \ {Max(s)} \subseteq 1 .. n
        <5>1. CASE s \subseteq 1 .. n
          BY <5>1
        <5>2. CASE ~(s \subseteq 1 .. n)
          <6>1. n + 1 \in s /\ \A y \in s : n + 1 >= y /\ (y >= n + 1 => y = n + 1)
            BY <2>2, <5>2
          <6>2. Max(s) = n + 1
            BY <6>1 DEF Max
          <6> QED BY <2>2, <6>2
        <5> QED BY <5>1, <5>2
      <4>2. h[s \ {Max(s)}] = g[s \ {Max(s)}]
        BY <4>1
      <4>3. F(h)[s] = F(g)[s]
        BY <4>2
      <4> QED BY <3>1, <4>3
    <3> QED BY <3>2, <3>3
  <2> HIDE DEF h
  <2>3. \E k : Upto(k, n + 1)
    BY <2>2
  <2> HIDE DEF Upto
  <2> QED BY <2>3
<1>4. Len(slots) \in good
  <2> HIDE DEF good
  <2> QED BY <1>2, <1>3, UpToInduction, LenProperties
<1>5. PICK g : g = F(g) /\ Without(gone) = g[D]
  <2>1. PICK g : Upto(g, Len(slots))
    BY <1>4
  <2> DEFINE h == [s \in SUBSET D |-> g[s]]
  <2>0. D = 1 .. Len(slots)
    OBVIOUS
  <2>2. \A s \in SUBSET D : h[s] = F(g)[s]
    <3> HIDE DEF F
    <3>1. \A s \in SUBSET D : g[s] = F(g)[s]
      BY <2>0, <2>1
    <3> QED BY <3>1
  <2>3. \A s \in SUBSET D : F(g)[s] = F(h)[s]
    OBVIOUS
  <2>4. h = F(h)
    BY <2>2, <2>3
  <2> HIDE DEF h
  <2>5. \E k : k = F(k)
    BY <2>4
  <2> HIDE DEF F
  <2> QED BY <1>1, <2>5
<1> HIDE DEF F
<1> DEFINE Right(n) == n <= Len(slots) => /\ g[1 .. n] \in Seq(Sids) /\ Len(g[1 .. n]) <= n
                                          /\ ToSet(g[1 .. n]) = {slots[j] : j \in 1 .. n} \ gone
           right == {n \in Nat : Right(n)}
<1>6. 0 \in right
  <2>1. g[1 .. 0] = <<>>
    BY <1>5 DEF F
  <2>2. ToSet(<<>>) = {} /\ {slots[j] : j \in 1 .. 0} = {}
    BY DEF ToSet
  <2>3. <<>> \in Seq(Sids) /\ Len(<<>>) = 0
    OBVIOUS
  <2>4. ToSet(g[1 .. 0]) = {} /\ g[1 .. 0] \in Seq(Sids) /\ Len(g[1 .. 0]) <= 0
    BY <2>1, <2>2, <2>3
  <2> QED BY <2>2, <2>4
<1>7. ASSUME NEW n \in Nat, n \in right PROVE n + 1 \in right
  <2> SUFFICES ASSUME n + 1 <= Len(slots) PROVE Right(n + 1)
    OBVIOUS
  <2>1. /\ g[1 .. n] \in Seq(Sids) /\ Len(g[1 .. n]) <= n
        /\ ToSet(g[1 .. n]) = {slots[j] : j \in 1 .. n} \ gone
    BY <1>7
  <2>2. Max(1 .. n + 1) = n + 1 /\ (1 .. n + 1) \ {n + 1} = 1 .. n /\ 1 .. n + 1 # {} /\ 1 .. n + 1 \in SUBSET D
    BY LastPosition
  <2>3. g[1 .. n + 1] = IF slots[n + 1] \in gone THEN g[1 .. n] ELSE Append(g[1 .. n], slots[n + 1])
    BY <1>5, <2>2 DEF F
  <2>4. slots[n + 1] \in Sids
    OBVIOUS
  <2>5. {slots[j] : j \in 1 .. n + 1} = {slots[j] : j \in 1 .. n} \cup {slots[n + 1]}
    OBVIOUS
  <2>6. CASE slots[n + 1] \in gone
    BY <2>1, <2>3, <2>5, <2>6
  <2>7. CASE slots[n + 1] \notin gone
    <3>1. PICK q \in Seq(Sids) : q = g[1 .. n]
      BY <2>1
    <3>2. g[1 .. n + 1] = Append(q, slots[n + 1])
      BY <2>3, <2>7, <3>1
    <3>3. ToSet(Append(q, slots[n + 1])) = ToSet(q) \cup {slots[n + 1]}
      BY <2>4, ToSetAppend
    <3>4. Append(q, slots[n + 1]) \in Seq(Sids) /\ Len(Append(q, slots[n + 1])) = Len(q) + 1 /\ Len(q) \in Nat
      BY <2>4
    <3>5. ToSet(g[1 .. n + 1]) = {slots[j] : j \in 1 .. n + 1} \ gone
      BY <2>1, <2>5, <2>7, <3>1, <3>2, <3>3
    <3>6. Len(g[1 .. n + 1]) <= n + 1
      BY <2>1, <3>1, <3>2, <3>4
    <3> QED BY <3>2, <3>4, <3>5, <3>6
  <2> QED BY <2>6, <2>7
<1>8. Len(slots) \in right
  <2> HIDE DEF right
  <2> QED BY <1>6, <1>7, UpToInduction, LenProperties
<1>9. D = 1 .. Len(slots) /\ ToSet(slots) = {slots[j] : j \in 1 .. Len(slots)} /\ Len(slots) <= Len(slots)
  BY DEF ToSet
<1> QED BY <1>5, <1>8, <1>9

-----------------------------------------------------------------------------
(* What take_idle finds, and how many sessions there can be *)

LEMMA FindsUsable ==
    ASSUME slots \in Seq(Sids), Usable # {}
    PROVE  First \in Usable /\ Passed \subseteq Idles /\ First \notin Passed
<1>1. UsableSlots \subseteq Nat /\ UsableSlots # {}
  <2>1. PICK s \in Usable : s \in ToSet(slots)
    BY DEF Usable, Idles
  <2>2. PICK i \in DOMAIN slots : slots[i] = s
    BY <2>1 DEF ToSet
  <2> QED BY <2>1, <2>2 DEF UsableSlots
<1>2. \E i \in UsableSlots : \A j \in UsableSlots : i <= j
  BY <1>1, LeastElement
<1>3. Found \in UsableSlots /\ \A j \in UsableSlots : Found <= j
  BY <1>2 DEF Found
<1>4. First \in Usable
  BY <1>3 DEF First, UsableSlots
<1>5. First \notin Passed
  <2> SUFFICES ASSUME NEW i \in 1 .. Found - 1, slots[i] = First PROVE FALSE
    BY DEF Passed
  <2>1. Found \in DOMAIN slots /\ Found \in Nat
    BY <1>1, <1>3 DEF UsableSlots
  <2>2. i \in UsableSlots /\ i \in Nat
    BY <1>4, <2>1 DEF UsableSlots
  <2> QED BY <1>3, <2>1, <2>2
<1> QED BY <1>4, <1>5 DEF Passed

LEMMA SlotsAreSessions == ASSUME slots \in Seq(Sids) PROVE ToSet(slots) \subseteq Sids
BY DEF ToSet

LEMMA SlotsBound ==
    ASSUME slots \in Seq(Sids), NEW S \in SUBSET ToSet(slots)
    PROVE  IsFiniteSet(S) /\ Cardinality(S) <= Len(slots)
<1>1. slots \in Surjection(1 .. Len(slots), ToSet(slots))
  BY DEF Surjection, ToSet
<1>2. ExistsSurjection(1 .. Len(slots), ToSet(slots)) /\ Len(slots) \in Nat
  BY <1>1 DEF ExistsSurjection
<1>3. IsFiniteSet(ToSet(slots)) /\ Cardinality(ToSet(slots)) <= Len(slots)
  BY <1>2, FS_SurjCardinalityBound, FS_NatSurjection
<1>4. IsFiniteSet(S) /\ Cardinality(S) <= Cardinality(ToSet(slots))
  BY <1>3, FS_Subset
<1> QED BY <1>2, <1>3, <1>4, FS_CardinalityType

-----------------------------------------------------------------------------
(* The invariant *)

With == {"dialling", "found", "has"}
Driving == {"executing", "committing", "undoing"}
Pcs == {"idle", "asked", "again", "dial", "full", "waiting"} \cup With \cup Driving
OpNames == {"none", "statement", "scan", "mutate", "readonly", "readwrite", "browse"}
Words == {"none", "portal", "rows", "last", "one", "other", "ok", "error"}
TaskRecords == [pc : Pcs, op : OpNames, sid : {0} \cup Sids, snap : SUBSET Sids, asked : 0 .. BatchSize,
                answer : Words, sure : BOOLEAN, ops : Nat]
ActorRecords == [pc : {"none", "begin", "run", "broken", "leave"}, kind : {"none", "scan", "mutate"},
                 queue : Seq({"execute", "fetch", "rollback", "commit"}), wrote : 0 .. BatchSize,
                 good : BOOLEAN]

PgTypes ==
    /\ PgTypeOK
    /\ task \in [Tasks -> TaskRecords] /\ actor \in [Sids -> ActorRecords]
    /\ closed \in BOOLEAN /\ promised \in BOOLEAN

\* A task that has a session holds its lock, and whoever holds a lock has the session.
TaskPlace(t) ==
    /\ task[t].pc # "idle" => task[t].op \in Ops(t)
    /\ task[t].pc \in With => task[t].sid \in Sids /\ lock[task[t].sid] = t
    /\ task[t].pc \in Driving => task[t].sid \in Sids /\ task[t].op \in {"scan", "mutate"}
    /\ task[t].pc \notin With \cup Driving => task[t].sid = 0
    /\ task[t].pc = "dialling" => sess[task[t].sid].client = "none"

\* An answer is only there for a request that drives an actor.
NothingAsked(t) == task[t].pc \notin Driving => task[t].answer = "none" /\ task[t].asked = 0

LockPlace(s) == lock[s] \in Tasks => task[lock[s]].pc \in With /\ task[lock[s]].sid = s

\* As long as the pool is open, what is not in a slot is nobody's and has no client.
SlotPlace ==
    /\ Len(slots) <= MaxSessions
    /\ ~closed => \A s \in Sids : s \notin ToSet(slots) => lock[s] = "free" /\ sess[s].client = "none"

\* A mode that was recorded is the server's; a promise is kept by what is wanted, and what is
\* wanted is what the connection's request finds on its session.
ModePlace ==
    LET c == task[Conn] IN
    /\ \A s \in Sids : sess[s].set # "unset" => sess[s].mode = sess[s].set
    /\ promised => want = "ro"
    /\ c.pc # "idle" /\ (c.op = "readonly" \/ (c.op = "statement" /\ c.sure)) => want = "ro"
    /\ c.pc = "has" /\ want # "unset" => sess[c.sid].set = want
    /\ "statement" \notin breaches

\* The request of the connection's task that has handed its session to an actor.
Drives(s) == task[Conn].pc \in Driving /\ task[Conn].sid = s
Asking(pc) == CASE pc = "executing" -> "execute" [] pc = "committing" -> "commit" [] OTHER -> "rollback"

\* The actor of a session and who drives it: a request, a cursor, or nobody any more.
ActorPlace(s) ==
    LET a == actor[s]
        c == task[Conn]
    IN
    /\ a.pc = "none" => a = NoActor
    /\ a.pc = "leave" => a.kind = "none" /\ a.queue = <<>>
    /\ a.pc \in {"begin", "run", "broken"} => a.kind \in {"scan", "mutate"}
    /\ a.pc = "begin" => Drives(s) /\ c.answer = "none" /\ c.pc = "executing"
    /\ Drives(s) => /\ cursor[s] = "none"
                    /\ c.pc # "executing" => c.op = "mutate" /\ a.kind # "scan"
                    /\ c.answer = "none" => a.kind = c.op /\ a.queue = <<Asking(c.pc)>>
                    /\ c.answer # "none" => a.queue = <<>> /\ (c.pc = "executing" => a.kind = c.op)
    /\ a.kind = "mutate" /\ ~Drives(s) => a.queue = <<>>
    /\ a.kind # "scan" => cursor[s] = "none"
    /\ a.kind = "scan" => /\ \A i \in DOMAIN a.queue : a.queue[i] # "commit"
                          /\ (\E i \in DOMAIN a.queue : a.queue[i] = "rollback") => cursor[s] \in {"closing", "none"}

\* What an actor has written is what its request has had answered, and all of it hit.
Written(s) ==
    LET a == actor[s]
        c == task[Conn]
    IN Drives(s) /\ c.op = "mutate" =>
         /\ c.pc = "executing" => c.asked < BatchSize
         /\ c.pc = "executing" /\ c.answer = "none" => a.wrote = c.asked /\ a.good
         /\ c.pc = "executing" /\ c.answer = "one" => a.wrote = c.asked + 1 /\ a.good
         /\ c.pc = "committing" /\ c.answer = "none" => a.wrote = BatchSize /\ a.good

LedgerPlace ==
    LET c == task[Conn] IN
    /\ MutationIsWhole
    /\ c.pc # "idle" /\ c.op = "mutate" =>
         told = "none" /\ (ledger = "none" \/ (c.pc = "committing" /\ c.answer # "none"))
    /\ c.pc = "committing" /\ c.answer = "ok" => ledger = "whole"

PgInv ==
    /\ PgTypes
    /\ \A t \in Tasks : TaskPlace(t)
    /\ \A s \in Sids : LockPlace(s)
    /\ SlotPlace /\ ModePlace
    /\ \A s \in Sids : ActorPlace(s) /\ Written(s)
    /\ LedgerPlace

-----------------------------------------------------------------------------
(* What a step leaves alone *)

\* The tasks that a step of t does not move keep their sessions, and the sessions that
\* are theirs.
LEMMA OthersKeep ==
    ASSUME PgInv, NEW t \in Tasks,
           \A u \in Tasks \ {t} : task'[u] = task[u],
           \A s \in Sids : lock'[s] = lock[s] \/ {lock[s], lock'[s]} \subseteq {"free", "actor", t},
           \A s \in Sids : lock[s] \in Tasks \ {t} => sess'[s] = sess[s]
    PROVE  /\ \A u \in Tasks \ {t} : TaskPlace(u)'
           /\ \A s \in Sids : lock'[s] \in Tasks \ {t} => LockPlace(s)'
           /\ t # Conn /\ task[Conn].pc = "has" => sess'[task[Conn].sid] = sess[task[Conn].sid]
<1>1. ASSUME NEW s \in Sids, lock[s] \in Tasks \ {t} PROVE lock'[s] = lock[s]
  BY <1>1, PgBounds DEF Tasks
<1>2. ASSUME NEW u \in Tasks \ {t} PROVE TaskPlace(u)'
  <2>1. TaskPlace(u) /\ task'[u] = task[u]
    BY DEF PgInv
  <2>2. task[u].pc \in With => /\ lock'[task[u].sid] = u
                               /\ sess'[task[u].sid] = sess[task[u].sid]
    BY <1>1, <2>1 DEF TaskPlace
  <2> QED BY <2>1, <2>2 DEF TaskPlace, Ops, With
<1>3. ASSUME NEW s \in Sids, lock'[s] \in Tasks \ {t} PROVE LockPlace(s)'
  <2>1. lock'[s] = lock[s]
    BY <1>3, PgBounds DEF Tasks
  <2>2. LockPlace(s)
    BY DEF PgInv
  <2>3. task'[lock[s]] = task[lock[s]]
    BY <1>3, <2>1
  <2> QED BY <1>3, <2>1, <2>2, <2>3 DEF LockPlace
<1>4. t # Conn /\ task[Conn].pc = "has" => sess'[task[Conn].sid] = sess[task[Conn].sid]
  <2>1. Conn \in Tasks /\ TaskPlace(Conn)
    BY DEF PgInv, Tasks
  <2> QED BY <2>1 DEF TaskPlace, With
<1> QED BY <1>2, <1>3, <1>4

LEMMA PlacesKeep ==
    ASSUME PgInv, NEW t \in Tasks,
           \A u \in Tasks \ {t} : task'[u] = task[u],
           \A s \in Sids : lock'[s] = lock[s] \/ {lock[s], lock'[s]} \subseteq {"free", "actor", t},
           \A s \in Sids : lock[s] \in Tasks \ {t} => sess'[s] = sess[s],
           TaskPlace(t)',
           \A s \in Sids : lock'[s] = t => LockPlace(s)'
    PROVE  /\ \A u \in Tasks : TaskPlace(u)'
           /\ \A s \in Sids : LockPlace(s)'
<1>1. ASSUME NEW s \in Sids PROVE LockPlace(s)'
  <2>1. CASE lock'[s] \in Tasks \ {t}
    BY <2>1, OthersKeep
  <2>2. CASE lock'[s] = t
    BY <2>2
  <2>3. CASE lock'[s] \notin Tasks
    BY <2>3 DEF LockPlace
  <2> QED BY <2>1, <2>2, <2>3
<1>2. ASSUME NEW u \in Tasks PROVE TaskPlace(u)'
  BY OthersKeep
<1> QED BY <1>1, <1>2

\* A session that is taken, or has a client, is in a slot.
LEMMA SlotsKeep ==
    ASSUME SlotPlace, UNCHANGED <<slots, closed>>,
           \A s \in Sids : lock'[s] # "free" \/ sess'[s].client # "none" =>
                             lock[s] # "free" \/ sess[s].client # "none"
    PROVE  SlotPlace'
BY DEF SlotPlace

\* The request of the connection's task goes on, or ends.
GoesOn ==
    LET c == task[Conn] IN
    \/ c'.pc = "idle"
    \/ c.pc # "idle" /\ c'.pc # "idle" /\ c'.op = c.op /\ c'.sure = c.sure

LEMMA ModesKeep ==
    ASSUME ModePlace, want' = want, promised' => want = "ro", "statement" \notin breaches',
           \A s \in Sids : sess'[s].set # "unset" => sess'[s].mode = sess'[s].set,
           GoesOn,
           task'[Conn].pc = "has" /\ want # "unset" => sess'[task'[Conn].sid].set = want
    PROVE  ModePlace'
BY DEF ModePlace, GoesOn

\* An actor and whoever drives it stay as they are.
LEMMA ActorStays ==
    ASSUME NEW s \in Sids, ActorPlace(s), Written(s), actor'[s] = actor[s], cursor'[s] = cursor[s],
           task'[Conn] = task[Conn] \/ ~(Drives(s) \/ Drives(s)')
    PROVE  ActorPlace(s)' /\ Written(s)'
<1>1. CASE task'[Conn] = task[Conn]
  BY <1>1 DEF ActorPlace, Written, Drives
<1>2. CASE ~(Drives(s) \/ Drives(s)')
  <2>1. Written(s)'
    BY <1>2 DEF Written
  <2>2. ActorPlace(s)'
    BY <1>2 DEF ActorPlace
  <2> QED BY <2>1, <2>2
<1> QED BY <1>1, <1>2

\* No batch is under way, neither before nor after.
Quiet == task[Conn].pc \notin Driving

LEMMA BatchesKeep ==
    ASSUME PgInv, UNCHANGED <<actor, cursor, ledger, told>>,
           task'[Conn] = task[Conn] \/ (GoesOn /\ Quiet /\ Quiet')
    PROVE  (\A s \in Sids : ActorPlace(s)' /\ Written(s)') /\ LedgerPlace'
<1>1. ASSUME NEW s \in Sids PROVE ActorPlace(s)' /\ Written(s)'
  <2>1. task'[Conn] = task[Conn] \/ ~(Drives(s) \/ Drives(s)')
    BY DEF Quiet, Drives
  <2> QED BY <2>1, ActorStays DEF PgInv
<1>2. LedgerPlace'
  <2>1. LedgerPlace /\ UNCHANGED MutationIsWhole
    BY DEF PgInv, MutationIsWhole, AnswerIsTrue
  <2>2. CASE task'[Conn] = task[Conn]
    BY <2>1, <2>2 DEF LedgerPlace
  <2>3. CASE GoesOn /\ Quiet /\ Quiet'
    BY <2>1, <2>3 DEF LedgerPlace, GoesOn, Quiet, Driving
  <2> QED BY <2>2, <2>3
<1> QED BY <1>1, <1>2

-----------------------------------------------------------------------------
(* acquire *)

SessRecords == [client : {"none", "live", "dead"}, set : Modes, mode : {"ro", "rw"}]

\* The types of a step that leaves the actors and the cursors alone.
LEMMA TypesKeep ==
    ASSUME PgTypes, UNCHANGED <<actor, cursor>>,
           slots' \in Seq(Sids), sess' \in [Sids -> SessRecords],
           lock' \in [Sids -> Tasks \cup {"free", "actor"}],
           \A s \in Sids : lock'[s] = "actor" <=> lock[s] = "actor",
           task' \in [Tasks -> TaskRecords], want' \in Modes, closed' \in BOOLEAN, promised' \in BOOLEAN,
           ledger' \in {"none", "whole", "partial"}, told' \in {"none", "refused", "done", "unknown"}
    PROVE  PgTypes'
BY DEF PgTypes, PgTypeOK, SessRecords

\* What the types say, in the form the steps need.
LEMMA Typed ==
    ASSUME PgInv
    PROVE  /\ slots \in Seq(Sids) /\ ToSet(slots) \subseteq Sids /\ sess \in [Sids -> SessRecords]
           /\ lock \in [Sids -> Tasks \cup {"free", "actor"}]
           /\ task \in [Tasks -> TaskRecords] /\ want \in Modes /\ closed \in BOOLEAN /\ promised \in BOOLEAN
           /\ ledger \in {"none", "whole", "partial"} /\ told \in {"none", "refused", "done", "unknown"}
           /\ \A s \in Sids : sess[s].set # "unset" => sess[s].mode = sess[s].set
           /\ "statement" \notin breaches /\ Conn \in Tasks
           /\ \A t \in Tasks : t \notin {"free", "actor"}
BY SlotsAreSessions, PgBounds DEF PgInv, PgTypes, PgTypeOK, SessRecords, ModePlace, Tasks

\* A step of t that touches no actor, batch or promise, by its parts.
LEMMA Kept ==
    ASSUME PgInv, NEW t \in Tasks, UNCHANGED <<actor, cursor, ledger, told, want, closed>>,
           promised' = promised \/ (promised' => want = "ro"), PgTypes', SlotPlace', TaskPlace(t)',
           \A s \in Sids : lock'[s] = t => LockPlace(s)',
           \A u \in Tasks \ {t} : task'[u] = task[u],
           \A s \in Sids : lock'[s] = lock[s] \/ {lock[s], lock'[s]} \subseteq {"free", "actor", t},
           \A s \in Sids : lock[s] \in Tasks \ {t} => sess'[s] = sess[s],
           t = Conn => GoesOn /\ Quiet /\ Quiet'
                       /\ (task'[Conn].pc = "has" /\ want # "unset" => sess'[task'[Conn].sid].set = want),
           "statement" \notin breaches',
           \A s \in Sids : sess'[s].set # "unset" => sess'[s].mode = sess'[s].set
    PROVE  PgInv'
<1>1. (\A u \in Tasks : TaskPlace(u)') /\ (\A s \in Sids : LockPlace(s)')
  BY PlacesKeep
<1>2. Conn \in Tasks
  BY DEF Tasks
<1>3. t # Conn => task'[Conn] = task[Conn]
  BY <1>2
<1>4. (\A s \in Sids : ActorPlace(s)' /\ Written(s)') /\ LedgerPlace'
  BY <1>3, BatchesKeep
<1>5. GoesOn
  BY <1>3 DEF GoesOn
<1>6. task'[Conn].pc = "has" /\ want # "unset" => sess'[task'[Conn].sid].set = want
  <2>1. CASE t = Conn
    BY <2>1
  <2>2. CASE t # Conn
    <3>1. task[Conn].pc = "has" => sess'[task[Conn].sid] = sess[task[Conn].sid]
      BY <2>2, OthersKeep
    <3> QED BY <1>3, <2>2, <3>1 DEF PgInv, ModePlace
  <2> QED BY <2>1, <2>2
<1>7. ModePlace'
  <2>1. promised => want = "ro"
    BY DEF PgInv, ModePlace
  <2> QED BY <1>5, <1>6, <2>1, ModesKeep DEF PgInv
<1> QED BY <1>1, <1>4, <1>7 DEF PgInv

LEMMA RecordMoves ==
    ASSUME NEW r \in TaskRecords
    PROVE  /\ \A p \in Pcs : [r EXCEPT !.pc = p] \in TaskRecords
           /\ \A p \in Pcs, s \in Sids : [r EXCEPT !.pc = p, !.sid = s] \in TaskRecords
           /\ [Idle EXCEPT !.ops = r.ops] \in TaskRecords
<1>1. ASSUME NEW p \in Pcs PROVE [r EXCEPT !.pc = p] \in TaskRecords
  BY DEF TaskRecords
<1>2. ASSUME NEW p \in Pcs, NEW s \in Sids PROVE [r EXCEPT !.pc = p, !.sid = s] \in TaskRecords
  <2>1. [r EXCEPT !.sid = s] \in TaskRecords
    BY DEF TaskRecords
  <2>2. [[r EXCEPT !.sid = s] EXCEPT !.pc = p] \in TaskRecords
    BY <2>1 DEF TaskRecords
  <2> QED BY <2>2
<1>3. [Idle EXCEPT !.ops = r.ops] \in TaskRecords
  <2>1. Idle \in [pc : Pcs, op : OpNames, sid : {0} \cup Sids, snap : SUBSET Sids, asked : 0 .. BatchSize,
                  answer : Words, sure : BOOLEAN, ops : {0}]
    BY PgBounds DEF Idle, Pcs, OpNames, Words
  <2>2. r.ops \in Nat
    BY DEF TaskRecords
  <2> QED BY <2>1, <2>2 DEF TaskRecords
<1> QED BY <1>1, <1>2, <1>3

LEMMA StepsTyped ==
    ASSUME task \in [Tasks -> TaskRecords], NEW t \in Tasks
    PROVE  /\ \A p \in Pcs : task' = [task EXCEPT ![t].pc = p] => task' \in [Tasks -> TaskRecords]
           /\ Ends(t) => task' \in [Tasks -> TaskRecords]
<1>1. \A p \in Pcs : [task[t] EXCEPT !.pc = p] \in TaskRecords
  BY RecordMoves
<1>2. [Idle EXCEPT !.ops = task[t].ops] \in TaskRecords
  BY RecordMoves
<1> QED BY <1>1, <1>2 DEF Ends

LEMMA LookKeeps == ASSUME PgInv, NEW t \in Tasks, Look(t) PROVE PgInv'
<1> USE Typed
<1>1. task[t].pc \in {"asked", "again"} /\ task[t].op \in Ops(t) /\ task[t].sid = 0
  BY DEF Look, PgInv, TaskPlace, With, Driving
<1>2. PICK next \in {"again", "dial"} : TakeIdle(t, next)
  BY DEF Look
<1>3. UNCHANGED <<actor, cursor, want, closed, promised, ledger, told, breaches>>
  BY DEF Look
<1>4. PICK gone : /\ gone \subseteq Idles /\ (Usable # {} => First \notin gone)
                  /\ slots' = Without(gone) /\ Discard(gone)
                  /\ Usable = {} => gone = Idles
  BY <1>2, FindsUsable DEF TakeIdle
<1>5. /\ slots' \in Seq(Sids) /\ Len(slots') <= Len(slots) /\ ToSet(slots') = ToSet(slots) \ gone
  BY <1>4, WithoutKeeps
<1>6. \A s \in Sids : sess'[s] = IF s \in gone THEN NoSession ELSE sess[s]
  BY <1>4 DEF Discard
<1>7. sess' \in [Sids -> SessRecords] /\ \A s \in gone : s \in ToSet(slots) /\ lock[s] = "free"
  BY <1>4 DEF Discard, SessRecords, NoSession, Modes, Idles
<1>8. \A s \in Sids : sess'[s].set # "unset" => sess'[s].mode = sess'[s].set
  BY <1>6 DEF NoSession
<1>9. \A u \in Tasks \ {t} : task'[u] = task[u]
  BY <1>2 DEF TakeIdle, Steps
<1>10. CASE Usable # {}
  <2>1. First \in Sids /\ lock[First] = "free" /\ First \notin gone /\ First \in ToSet(slots)
    BY <1>4, <1>10, FindsUsable DEF Usable, Idles
  <2>2. lock' = [lock EXCEPT ![First] = t] /\ task' = [task EXCEPT ![t].pc = "found", ![t].sid = First]
    BY <1>2, <1>10 DEF TakeIdle
  <2>3. task' \in [Tasks -> TaskRecords]
    <3>1. "found" \in Pcs /\ task[t] \in TaskRecords
      BY DEF Pcs, With
    <3>2. [task[t] EXCEPT !.pc = "found", !.sid = First] \in TaskRecords
      BY <2>1, <3>1, RecordMoves
    <3> QED BY <2>2, <3>2
  <2>4. lock' \in [Sids -> Tasks \cup {"free", "actor"}] /\ \A s \in Sids : lock'[s] = "actor" <=> lock[s] = "actor"
    BY <2>1, <2>2
  <2>5. PgTypes'
    BY <1>3, <1>5, <1>7, <2>3, <2>4, TypesKeep DEF PgInv
  <2>6. TaskPlace(t)' /\ task'[t].pc = "found" /\ task'[t].op = task[t].op /\ task'[t].sid = First
    BY <1>1, <2>1, <2>2 DEF TaskPlace, With, Driving, Ops, TaskRecords
  <2>7. \A s \in Sids : lock[s] # t
    BY <1>1 DEF PgInv, LockPlace, With
  <2>8. \A s \in Sids : lock'[s] = t => LockPlace(s)'
    BY <2>2, <2>6, <2>7 DEF LockPlace, With
  <2>9. \A s \in Sids : lock'[s] = lock[s] \/ {lock[s], lock'[s]} \subseteq {"free", "actor", t}
    BY <2>1, <2>2
  <2>10. \A s \in Sids : lock[s] \in Tasks \ {t} => sess'[s] = sess[s]
    BY <1>6, <1>7
  <2>11. SlotPlace'
    BY <1>3, <1>5, <1>6, <1>7, <2>1, <2>2 DEF PgInv, SlotPlace, NoSession
  <2>12. t = Conn => GoesOn /\ Quiet /\ Quiet' /\ task'[Conn].pc # "has"
    BY <1>1, <2>2 DEF GoesOn, Quiet, Driving
  <2> QED BY <1>3, <1>8, <1>9, <2>5, <2>6, <2>8, <2>9, <2>10, <2>11, <2>12, Kept
<1>11. CASE Usable = {}
  <2>1. lock' = lock /\ task' = [task EXCEPT ![t].pc = next]
    BY <1>2, <1>11 DEF TakeIdle, Steps
  <2>3. task' \in [Tasks -> TaskRecords]
    BY <2>1, StepsTyped DEF Pcs
  <2>5. PgTypes'
    BY <1>3, <1>5, <1>7, <2>1, <2>3, TypesKeep DEF PgInv
  <2>6. TaskPlace(t)'
    BY <1>1, <1>2, <2>1 DEF TaskPlace, With, Driving, Ops, TaskRecords
  <2>7. \A s \in Sids : lock[s] # t
    BY <1>1 DEF PgInv, LockPlace, With
  <2>10. \A s \in Sids : lock[s] \in Tasks \ {t} => sess'[s] = sess[s]
    BY <1>6, <1>7
  <2>11. SlotPlace'
    BY <1>3, <1>5, <1>6, <1>7, <2>1 DEF PgInv, SlotPlace, NoSession
  <2>12. t = Conn => GoesOn /\ Quiet /\ Quiet' /\ task'[Conn].pc # "has"
    BY <1>1, <1>2, <2>1 DEF GoesOn, Quiet, Driving
  <2> QED BY <1>3, <1>8, <1>9, <2>1, <2>5, <2>6, <2>7, <2>10, <2>11, <2>12, Kept
<1> QED BY <1>10, <1>11

\* A task without a session goes on without one.
LEMMA WaitsOn ==
    ASSUME PgInv, NEW t \in Tasks, NEW r \in TaskRecords, task' = [task EXCEPT ![t] = r],
           UNCHANGED <<slots, sess, lock, actor, cursor, want, closed, promised, ledger, told, breaches>>,
           task[t].pc \notin {"idle"} \cup With \cup Driving, r.pc \notin With \cup Driving, r.sid = 0,
           r.pc # "idle" => r.op = task[t].op /\ r.sure = task[t].sure
    PROVE  PgInv'
<1> USE Typed
<1>1. task' \in [Tasks -> TaskRecords] /\ task'[t] = r /\ \A u \in Tasks \ {t} : task'[u] = task[u]
  OBVIOUS
<1>2. PgTypes'
  BY <1>1, TypesKeep DEF PgInv
<1>3. TaskPlace(t)'
  BY <1>1 DEF PgInv, TaskPlace, With, Driving, Ops
<1>4. \A s \in Sids : lock[s] # t
  BY DEF PgInv, LockPlace
<1>5. SlotPlace'
  BY SlotsKeep DEF PgInv
<1>6. t = Conn => GoesOn /\ Quiet /\ Quiet' /\ task'[Conn].pc # "has"
  BY <1>1 DEF GoesOn, Quiet, With
<1> QED BY <1>1, <1>2, <1>3, <1>4, <1>5, <1>6, Kept

LEMMA WaitKeeps == ASSUME PgInv, NEW t \in Tasks, Wait(t) \/ WaitTimesOut(t) PROVE PgInv'
<1> USE Typed
<1>1. /\ task[t].pc \in {"full", "waiting"} /\ task[t].sid = 0 /\ task[t] \in TaskRecords
      /\ UNCHANGED <<slots, sess, lock, actor, cursor, want, closed, promised, ledger, told, breaches>>
  BY DEF Wait, WaitTimesOut, PgInv, TaskPlace, With, Driving
<1>2. [Idle EXCEPT !.ops = task[t].ops] \in TaskRecords
  BY <1>1, RecordMoves
<1>3. [task[t] EXCEPT !.pc = "waiting", !.snap = ToSet(slots)] \in TaskRecords
  BY <1>1 DEF TaskRecords, Pcs
<1>4. CASE Ends(t)
  <2> DEFINE r == [Idle EXCEPT !.ops = task[t].ops]
  <2>1. task' = [task EXCEPT ![t] = r] /\ r.pc = "idle" /\ r.sid = 0
    BY <1>4 DEF Ends, Idle
  <2> HIDE DEF r
  <2> QED BY <1>1, <1>2, <2>1, WaitsOn DEF With, Driving, r
<1>5. CASE task' = [task EXCEPT ![t].pc = "waiting", ![t].snap = ToSet(slots)]
  <2> DEFINE r == [task[t] EXCEPT !.pc = "waiting", !.snap = ToSet(slots)]
  <2>1. task' = [task EXCEPT ![t] = r] /\ r.pc = "waiting" /\ r.sid = 0 /\ r.op = task[t].op /\ r.sure = task[t].sure
    BY <1>1, <1>5 DEF TaskRecords
  <2> HIDE DEF r
  <2> QED BY <1>1, <1>3, <2>1, WaitsOn DEF With, Driving, r
<1> QED BY <1>4, <1>5 DEF Wait, WaitTimesOut

LEMMA DialKeeps == ASSUME PgInv, NEW t \in Tasks, Dial(t) PROVE PgInv'
<1> USE Typed
<1>1. task[t].pc = "dial" /\ task[t].op \in Ops(t) /\ task[t].sid = 0 /\ task[t] \in TaskRecords
  BY DEF Dial, PgInv, TaskPlace, With, Driving
<1>2. UNCHANGED <<actor, cursor, want, closed, promised, ledger, told, breaches>>
  BY DEF Dial
<1>3. CASE Len(slots) >= MaxSessions
  <2> DEFINE r == [task[t] EXCEPT !.pc = "full"]
  <2>1. r \in TaskRecords
    BY <1>1 DEF TaskRecords, Pcs
  <2>2. task' = [task EXCEPT ![t] = r] /\ r.pc = "full" /\ r.sid = 0 /\ r.op = task[t].op /\ r.sure = task[t].sure
    BY <1>1, <1>3 DEF TaskRecords, Dial, Steps
  <2>3. UNCHANGED <<slots, sess, lock>>
    BY <1>3 DEF Dial
  <2> HIDE DEF r
  <2> QED BY <1>1, <1>2, <2>1, <2>2, <2>3, WaitsOn DEF With, Driving
<1>4. CASE ~(Len(slots) >= MaxSessions)
  <2>1. PICK s \in Sids : /\ ~Referenced(s)
                          /\ slots' = Append(slots, s)
                          /\ sess' = [sess EXCEPT ![s] = NoSession]
                          /\ lock' = [lock EXCEPT ![s] = t]
                          /\ task' = [task EXCEPT ![t].pc = "dialling", ![t].sid = s]
    BY <1>4 DEF Dial
  <2>2. lock[s] = "free" /\ s \notin ToSet(slots)
    BY <2>1 DEF Referenced, InPool
  <2>3. slots' \in Seq(Sids) /\ Len(slots') = Len(slots) + 1 /\ Len(slots) \in Nat /\ ToSet(slots') = ToSet(slots) \cup {s}
    BY <2>1, ToSetAppend
  <2>4. sess' \in [Sids -> SessRecords] /\ \A r \in Sids : r # s => sess'[r] = sess[r]
    BY <2>1 DEF SessRecords, NoSession, Modes
  <2>5. sess'[s] = NoSession
    BY <2>1
  <2>6. task' \in [Tasks -> TaskRecords]
    <3>1. "dialling" \in Pcs
      BY DEF Pcs, With
    <3>2. [task[t] EXCEPT !.pc = "dialling", !.sid = s] \in TaskRecords
      BY <1>1, <3>1, RecordMoves
    <3> QED BY <2>1, <3>2
  <2>7. lock' \in [Sids -> Tasks \cup {"free", "actor"}] /\ \A r \in Sids : lock'[r] = "actor" <=> lock[r] = "actor"
    BY <2>1, <2>2
  <2>8. PgTypes'
    BY <1>2, <2>3, <2>4, <2>6, <2>7, TypesKeep DEF PgInv
  <2>9. task'[t].pc = "dialling" /\ task'[t].op = task[t].op /\ task'[t].sid = s /\ task'[t].sure = task[t].sure
    BY <1>1, <2>1 DEF TaskRecords
  <2>10. TaskPlace(t)'
    BY <1>1, <2>1, <2>5, <2>9 DEF TaskPlace, With, Driving, Ops, NoSession
  <2>11. \A r \in Sids : lock[r] # t
    BY <1>1 DEF PgInv, LockPlace, With
  <2>12. \A r \in Sids : lock'[r] = t => LockPlace(r)'
    BY <2>1, <2>9, <2>11 DEF LockPlace, With
  <2>13. \A r \in Sids : lock'[r] = lock[r] \/ {lock[r], lock'[r]} \subseteq {"free", "actor", t}
    BY <2>1, <2>2
  <2>14. \A r \in Sids : lock[r] \in Tasks \ {t} => sess'[r] = sess[r]
    BY <2>2, <2>4
  <2>15. SlotPlace'
    BY <1>2, <1>4, <2>1, <2>3, <2>4, PgBounds DEF PgInv, SlotPlace
  <2>16. t = Conn => GoesOn /\ Quiet /\ Quiet' /\ task'[Conn].pc # "has"
    BY <1>1, <2>9 DEF GoesOn, Quiet, Driving
  <2>17. \A r \in Sids : sess'[r].set # "unset" => sess'[r].mode = sess'[r].set
    BY <2>4, <2>5 DEF NoSession
  <2>18. \A u \in Tasks \ {t} : task'[u] = task[u]
    BY <2>1
  <2> QED BY <1>2, <2>8, <2>10, <2>12, <2>13, <2>14, <2>15, <2>16, <2>17, <2>18, Kept
<1> QED BY <1>3, <1>4

\* A task that holds a session and keeps it, the session changed or not.
LEMMA Holds ==
    ASSUME PgInv, NEW t \in Tasks, NEW pc \in With, task[t].pc \in With, Steps(t, pc), pc # "dialling",
           UNCHANGED <<slots, lock, actor, cursor, want, closed, promised, ledger, told, breaches>>,
           NEW r \in SessRecords, sess' = [sess EXCEPT ![task[t].sid] = r],
           r.set # "unset" => r.mode = r.set,
           pc = "has" /\ want # "unset" => r.set = want
    PROVE  PgInv'
<1> USE Typed
<1>1. PICK s \in Sids : s = task[t].sid /\ lock[s] = t
  BY DEF PgInv, TaskPlace
<1>2. /\ sess' \in [Sids -> SessRecords] /\ sess'[s] = r
      /\ \A q \in Sids : q # s => sess'[q] = sess[q]
  BY <1>1
<1>3. /\ task' \in [Tasks -> TaskRecords] /\ task'[t].pc = pc /\ task'[t].op = task[t].op
      /\ task'[t].sid = s /\ task'[t].sure = task[t].sure /\ \A u \in Tasks \ {t} : task'[u] = task[u]
  <2>1. task' \in [Tasks -> TaskRecords]
    BY StepsTyped DEF Steps, Pcs
  <2>2. task[t] \in TaskRecords
    OBVIOUS
  <2> QED BY <1>1, <2>1, <2>2 DEF Steps, TaskRecords
<1>4. PgTypes'
  BY <1>2, <1>3, TypesKeep DEF PgInv
<1>5. TaskPlace(t)'
  <2>1. TaskPlace(t)
    BY DEF PgInv
  <2> QED BY <1>1, <1>3, <2>1 DEF TaskPlace, With, Driving, Ops
<1>6. \A q \in Sids : lock'[q] = t => LockPlace(q)'
  <2>1. \A q \in Sids : lock[q] = t => q = s
    BY <1>1 DEF PgInv, LockPlace
  <2> QED BY <1>3, <2>1 DEF LockPlace
<1>7. \A q \in Sids : lock[q] \in Tasks \ {t} => sess'[q] = sess[q]
  BY <1>1, <1>2
<1>8. SlotPlace'
  BY <1>1, <1>2, SlotsKeep DEF PgInv
<1>9. t = Conn => /\ GoesOn /\ Quiet /\ Quiet'
                  /\ task'[Conn].pc = "has" /\ want # "unset" => sess'[task'[Conn].sid].set = want
  BY <1>2, <1>3 DEF GoesOn, Quiet, With, Driving
<1>10. \A q \in Sids : sess'[q].set # "unset" => sess'[q].mode = sess'[q].set
  BY <1>2
<1> QED BY <1>3, <1>4, <1>5, <1>6, <1>7, <1>8, <1>9, <1>10, Kept

\* A task that gives its session back, and ends.
LEMMA GivesBack ==
    ASSUME PgInv, NEW t \in Tasks, task[t].pc \in With, GiveBack(task[t].sid), Ends(t),
           UNCHANGED <<slots, actor, cursor, want, closed, ledger, told>>, promised' \in BOOLEAN,
           promised' = promised \/ (promised' => want = "ro"), "statement" \notin breaches'
    PROVE  PgInv'
<1> USE Typed
<1>1. PICK s \in Sids : s = task[t].sid /\ lock[s] = t
  BY DEF PgInv, TaskPlace
<1>2. lock' = [lock EXCEPT ![s] = "free"]
  BY <1>1 DEF GiveBack
<1>3. sess' \in [Sids -> SessRecords] /\ sess'[s] \in {sess[s], NoSession} /\ \A q \in Sids : q # s => sess'[q] = sess[q]
  <2>1. sess' = sess \/ sess' = [sess EXCEPT ![s] = NoSession]
    BY <1>1 DEF GiveBack
  <2>2. NoSession \in SessRecords
    BY DEF SessRecords, NoSession, Modes
  <2> QED BY <2>1, <2>2
<1>4. lock' \in [Sids -> Tasks \cup {"free", "actor"}] /\ \A q \in Sids : lock'[q] = "actor" <=> lock[q] = "actor"
  BY <1>1, <1>2
<1>5. task' \in [Tasks -> TaskRecords] /\ task'[t].pc = "idle" /\ task'[t].sid = 0 /\ \A u \in Tasks \ {t} : task'[u] = task[u]
  BY StepsTyped DEF Ends, Idle
<1>6. PgTypes'
  BY <1>3, <1>4, <1>5, TypesKeep DEF PgInv
<1>7. TaskPlace(t)'
  BY <1>5 DEF TaskPlace, With, Driving
<1>8. \A q \in Sids : lock'[q] # t
  BY <1>1, <1>2 DEF PgInv, LockPlace
<1>9. \A q \in Sids : lock'[q] = lock[q] \/ {lock[q], lock'[q]} \subseteq {"free", "actor", t}
  BY <1>1, <1>2
<1>10. \A q \in Sids : lock[q] \in Tasks \ {t} => sess'[q] = sess[q]
  BY <1>1, <1>3
<1>11. SlotPlace'
  BY <1>1, <1>2, <1>3, SlotsKeep DEF PgInv
<1>12. t = Conn => GoesOn /\ Quiet /\ Quiet' /\ task'[Conn].pc # "has"
  BY <1>5 DEF GoesOn, Quiet, With, Driving
<1>13. \A q \in Sids : sess'[q].set # "unset" => sess'[q].mode = sess'[q].set
  BY <1>3 DEF NoSession
<1> QED BY <1>5, <1>6, <1>7, <1>8, <1>9, <1>10, <1>11, <1>12, <1>13, Kept

LEMMA DialledKeeps == ASSUME PgInv, NEW t \in Tasks, Dialled(t) PROVE PgInv'
<1> USE Typed
<1>1. /\ task[t].pc = "dialling" /\ task[t].sid \in Sids
      /\ UNCHANGED <<slots, lock, actor, cursor, want, closed, promised, ledger, told, breaches>>
      /\ Steps(t, "found")
  BY DEF Dialled, PgInv, TaskPlace, With
<1>2. PICK r : r = [sess[task[t].sid] EXCEPT !.client = "live"]
  OBVIOUS
<1>3. sess' = [sess EXCEPT ![task[t].sid] = r]
  BY <1>2 DEF Dialled
<1>4. r \in SessRecords /\ r.set = sess[task[t].sid].set /\ r.mode = sess[task[t].sid].mode
  BY <1>1, <1>2 DEF SessRecords
<1> QED BY <1>1, <1>3, <1>4, Holds DEF With

LEMMA DialFailsKeeps == ASSUME PgInv, NEW t \in Tasks, DialFails(t) PROVE PgInv'
<1> USE Typed
<1>1. task[t].pc = "dialling" /\ sess[task[t].sid].client = "none"
  BY DEF DialFails, PgInv, TaskPlace
<1>2. PICK s \in Sids : s = task[t].sid /\ lock[s] = t
  BY <1>1 DEF PgInv, TaskPlace, With
<1>3. /\ slots' \in Seq(Sids) /\ Len(slots') <= Len(slots) /\ ToSet(slots') = ToSet(slots) \ {s}
      /\ Len(slots') \in Nat /\ Len(slots) \in Nat
  <2>1. slots' = Without({s})
    BY <1>2 DEF DialFails
  <2> QED BY <2>1, WithoutKeeps
<1>4. lock' = [lock EXCEPT ![s] = "free"] /\ Ends(t) /\ UNCHANGED <<sess, actor, cursor, want, closed, promised, ledger, told, breaches>>
  BY <1>2 DEF DialFails
<1>5. lock' \in [Sids -> Tasks \cup {"free", "actor"}] /\ \A q \in Sids : lock'[q] = "actor" <=> lock[q] = "actor"
  BY <1>2, <1>4
<1>6. task' \in [Tasks -> TaskRecords] /\ task'[t].pc = "idle" /\ task'[t].sid = 0 /\ \A u \in Tasks \ {t} : task'[u] = task[u]
  BY <1>4, StepsTyped DEF Ends, Idle
<1>7. PgTypes'
  BY <1>3, <1>4, <1>5, <1>6, TypesKeep DEF PgInv
<1>8. TaskPlace(t)'
  BY <1>6 DEF TaskPlace, With, Driving
<1>9. \A q \in Sids : lock'[q] # t
  BY <1>1, <1>2, <1>4 DEF PgInv, LockPlace
<1>10. \A q \in Sids : lock'[q] = lock[q] \/ {lock[q], lock'[q]} \subseteq {"free", "actor", t}
  BY <1>2, <1>4
<1>11. SlotPlace'
  BY <1>1, <1>2, <1>3, <1>4, PgBounds DEF PgInv, SlotPlace
<1>12. t = Conn => GoesOn /\ Quiet /\ Quiet' /\ task'[Conn].pc # "has"
  BY <1>1, <1>6 DEF GoesOn, Quiet, Driving
<1> QED BY <1>4, <1>6, <1>7, <1>8, <1>9, <1>10, <1>11, <1>12, Kept

LEMMA ServedKeeps == ASSUME PgInv, NEW t \in Tasks, Served(t) PROVE PgInv'
<1> USE Typed
<1>1. /\ task[t].pc = "waiting" /\ task[t].sid = 0 /\ task[t].op \in Ops(t) /\ task[t] \in TaskRecords
      /\ UNCHANGED <<slots, sess, actor, cursor, want, closed, promised, ledger, told, breaches>>
  BY DEF Served, PgInv, TaskPlace, With, Driving
<1>2. PICK s \in task[t].snap :
        /\ lock[s] = "free"
        /\ IF sess[s].client = "none"
           THEN Ends(t) /\ UNCHANGED lock
           ELSE /\ lock' = [lock EXCEPT ![s] = t]
                /\ task' = [task EXCEPT ![t].pc = "found", ![t].sid = s, ![t].snap = {}]
  BY DEF Served
<1>3. s \in Sids
  BY <1>1 DEF TaskRecords
<1>4. CASE sess[s].client = "none"
  <2> DEFINE r == [Idle EXCEPT !.ops = task[t].ops]
  <2>1. task' = [task EXCEPT ![t] = r] /\ r.pc = "idle" /\ r.sid = 0 /\ r \in TaskRecords
    BY <1>1, <1>2, <1>4, RecordMoves DEF Ends, Idle
  <2>2. UNCHANGED lock
    BY <1>2, <1>4
  <2> HIDE DEF r
  <2> QED BY <1>1, <2>1, <2>2, WaitsOn DEF With, Driving
<1>5. CASE sess[s].client # "none"
  <2>1. lock' = [lock EXCEPT ![s] = t] /\ task' = [task EXCEPT ![t].pc = "found", ![t].sid = s, ![t].snap = {}]
    BY <1>2, <1>5
  <2>2. PICK r : r = [task[t] EXCEPT !.pc = "found", !.sid = s, !.snap = {}]
    OBVIOUS
  <2>3. r \in TaskRecords /\ r.pc = "found" /\ r.sid = s /\ r.op = task[t].op /\ r.sure = task[t].sure
    <3>1. [task[t] EXCEPT !.snap = {}] \in TaskRecords
      BY <1>1 DEF TaskRecords
    <3>2. PICK q \in TaskRecords : q = [task[t] EXCEPT !.snap = {}]
      BY <3>1
    <3>3. [q EXCEPT !.pc = "found", !.sid = s] \in TaskRecords
      BY <1>3, RecordMoves DEF Pcs, With
    <3>4. r = [q EXCEPT !.pc = "found", !.sid = s]
      BY <1>1, <2>2, <3>2 DEF TaskRecords
    <3> QED BY <1>1, <2>2, <3>3, <3>4 DEF TaskRecords
  <2>4. task' = [task EXCEPT ![t] = r]
    BY <2>1, <2>2
  <2>5. task' \in [Tasks -> TaskRecords] /\ task'[t] = r /\ \A u \in Tasks \ {t} : task'[u] = task[u]
    BY <2>3, <2>4
  <2>6. lock' \in [Sids -> Tasks \cup {"free", "actor"}] /\ \A q \in Sids : lock'[q] = "actor" <=> lock[q] = "actor"
    BY <1>2, <1>3, <2>1
  <2>7. PgTypes'
    BY <1>1, <2>5, <2>6, TypesKeep DEF PgInv
  <2>8. TaskPlace(t)'
    BY <1>1, <1>3, <2>1, <2>3, <2>5 DEF TaskPlace, With, Driving, Ops
  <2>9. \A q \in Sids : lock'[q] = t => LockPlace(q)'
    <3>1. \A q \in Sids : lock[q] # t
      BY <1>1 DEF PgInv, LockPlace, With
    <3> QED BY <1>3, <2>1, <2>3, <2>5, <3>1 DEF LockPlace, With
  <2>10. \A q \in Sids : lock'[q] = lock[q] \/ {lock[q], lock'[q]} \subseteq {"free", "actor", t}
    BY <1>2, <2>1
  <2>11. SlotPlace'
    BY <1>1, <1>3, <1>5, <2>1, SlotsKeep DEF PgInv
  <2>12. t = Conn => GoesOn /\ Quiet /\ Quiet' /\ task'[Conn].pc # "has"
    BY <1>1, <2>3, <2>5 DEF GoesOn, Quiet, Driving
  <2> QED BY <1>1, <2>5, <2>7, <2>8, <2>9, <2>10, <2>11, <2>12, Kept
<1> QED BY <1>4, <1>5

LEMMA ReconcileKeeps == ASSUME PgInv, NEW t \in Tasks, Reconcile(t) PROVE PgInv'
<1> USE Typed
<1>1. task[t].pc = "found" /\ UNCHANGED <<slots, actor, cursor, want, closed, promised, ledger, told, breaches>>
  BY DEF Reconcile
<1>2. PICK s \in Sids : s = task[t].sid
  BY <1>1 DEF PgInv, TaskPlace, With
<1>3. CASE Steps(t, "has") /\ UNCHANGED <<sess, lock>> /\ (want = "unset" \/ sess[s].set = want)
  <2>1. PICK r \in SessRecords : r = sess[s]
    OBVIOUS
  <2>2. sess' = [sess EXCEPT ![task[t].sid] = r]
    BY <1>2, <1>3, <2>1
  <2>3. (r.set # "unset" => r.mode = r.set) /\ (want # "unset" => r.set = want)
    BY <1>3, <2>1
  <2> QED BY <1>1, <1>3, <2>2, <2>3, Holds DEF With
<1>4. CASE Steps(t, "has") /\ UNCHANGED lock /\ sess' = [sess EXCEPT ![s].set = want, ![s].mode = want] /\ want # "unset"
  <2>0. sess[s] \in SessRecords /\ want \in {"ro", "rw"}
    BY <1>4 DEF Modes
  <2>1. PICK r \in SessRecords : r = [sess[s] EXCEPT !.set = want, !.mode = want] /\ r.mode = want /\ r.set = want
    <3>1. [sess[s] EXCEPT !.set = want] \in SessRecords
      BY <1>4 DEF SessRecords
    <3>2. PICK q \in SessRecords : q = [sess[s] EXCEPT !.set = want]
      BY <3>1
    <3>3. [q EXCEPT !.mode = want] \in SessRecords
      BY <2>0 DEF SessRecords
    <3>4. [q EXCEPT !.mode = want].mode = want /\ [q EXCEPT !.mode = want].set = want
      BY <2>0, <3>2 DEF SessRecords
    <3>5. [q EXCEPT !.mode = want] = [sess[s] EXCEPT !.set = want, !.mode = want]
      BY <3>2
    <3> QED BY <3>3, <3>4, <3>5
  <2>2. sess' = [sess EXCEPT ![task[t].sid] = r]
    BY <1>2, <1>4, <2>1
  <2>3. (r.set # "unset" => r.mode = r.set) /\ (want # "unset" => r.set = want)
    BY <2>1
  <2> QED BY <1>1, <1>4, <2>2, <2>3, Holds DEF With
<1>5. CASE GiveBack(s) /\ Ends(t)
  BY <1>1, <1>2, <1>5, GivesBack DEF With
<1>6. \/ Steps(t, "has") /\ UNCHANGED <<sess, lock>> /\ (want = "unset" \/ sess[s].set = want)
      \/ Steps(t, "has") /\ UNCHANGED lock /\ sess' = [sess EXCEPT ![s].set = want, ![s].mode = want] /\ want # "unset"
      \/ GiveBack(s) /\ Ends(t)
  BY <1>2 DEF Reconcile
<1> QED BY <1>3, <1>4, <1>5, <1>6

-----------------------------------------------------------------------------
(* Answers *)

LEMMA OnlyConnWaits ==
    ASSUME PgInv, NEW s \in Sids
    PROVE  Waits(s) = IF Drives(s) THEN {Conn} ELSE {}
<1>1. \A t \in Tasks : task[t].pc \in Driving => t = Conn
  <2> SUFFICES ASSUME NEW t \in Tasks, task[t].pc \in Driving PROVE t = Conn
    OBVIOUS
  <2>1. TaskPlace(t)
    BY DEF PgInv
  <2>2. task[t].op \in Ops(t) /\ task[t].op \in {"scan", "mutate"}
    BY <2>1 DEF TaskPlace, Driving
  <2> QED BY <2>2 DEF Ops
<1>2. Conn \in Tasks
  BY DEF Tasks
<1> QED BY <1>1, <1>2 DEF Waits, Drives, Driving

LEMMA NothingAskedKeeps ==
    ASSUME task \in [Tasks -> TaskRecords], \A t \in Tasks : NothingAsked(t), PgNext
    PROVE  \A t \in Tasks : NothingAsked(t)'
<1> SUFFICES ASSUME NEW u \in Tasks PROVE NothingAsked(u)'
  OBVIOUS
<1>a. NothingAsked(u) /\ task[u] \in TaskRecords
  OBVIOUS
<1>1. CASE UNCHANGED task
  BY <1>a, <1>1 DEF NothingAsked
<1>2. ASSUME NEW s \in Sids, NEW w \in Words, Answers(s, w) PROVE NothingAsked(u)'
  BY <1>a, <1>2 DEF NothingAsked, Answers, Waits, Driving, TaskRecords
<1>3. ASSUME NEW t \in Tasks, Ends(t) PROVE NothingAsked(u)'
  BY <1>a, <1>3 DEF NothingAsked, Ends, Idle
<1>4. ASSUME NEW t \in Tasks, NEW r \in TaskRecords, task' = [task EXCEPT ![t] = r],
             r.pc \notin Driving => r.answer = "none" /\ r.asked = 0
      PROVE  NothingAsked(u)'
  BY <1>a, <1>4 DEF NothingAsked
<1>5. ASSUME NEW t \in Tasks, task[t].pc \notin Driving, task'[t].answer = task[t].answer, task'[t].asked = task[t].asked,
             \A v \in Tasks \ {t} : task'[v] = task[v]
      PROVE  NothingAsked(u)'
  BY <1>a, <1>5 DEF NothingAsked
<1>6. ASSUME NEW t \in Tasks, task'[t].pc \in Driving, \A v \in Tasks \ {t} : task'[v] = task[v] PROVE NothingAsked(u)'
  BY <1>a, <1>6 DEF NothingAsked
<1>7. ASSUME NEW t \in Tasks, Acquire(t) \/ Served(t) PROVE NothingAsked(u)'
  <2>1. task[t] \in TaskRecords
    OBVIOUS
  <2>2. CASE Ends(t)
    BY <1>3, <2>2
  <2>3. CASE ~Ends(t)
    <3>1. task[t].pc \notin Driving
      BY <1>7 DEF Acquire, Look, Dial, Dialled, DialFails, Wait, WaitTimesOut, Reconcile, Served, Driving
    <3>2. \E p, s, q : \/ task' = [task EXCEPT ![t].pc = p]
                       \/ task' = [task EXCEPT ![t].pc = p, ![t].sid = s]
                       \/ task' = [task EXCEPT ![t].pc = p, ![t].snap = q]
                       \/ task' = [task EXCEPT ![t].pc = p, ![t].sid = s, ![t].snap = q]
      <4>1. CASE Look(t)
        BY <4>1 DEF Look, TakeIdle, Steps
      <4>2. CASE Dial(t) \/ Dialled(t) \/ DialFails(t)
        BY <2>3, <4>2 DEF Dial, Dialled, DialFails, Steps
      <4>3. CASE Wait(t) \/ WaitTimesOut(t) \/ Reconcile(t)
        BY <2>3, <4>3 DEF Wait, WaitTimesOut, Reconcile, Steps
      <4>4. CASE Served(t)
        <5>1. PICK s : task' = [task EXCEPT ![t].pc = "found", ![t].sid = s, ![t].snap = {}]
          BY <2>3, <4>4 DEF Served
        <5> QED BY <5>1
      <4> QED BY <1>7, <4>1, <4>2, <4>3, <4>4 DEF Acquire
    <3>3. task'[t].answer = task[t].answer /\ task'[t].asked = task[t].asked /\ \A v \in Tasks \ {t} : task'[v] = task[v]
      BY <2>1, <3>2 DEF TaskRecords
    <3> QED BY <1>5, <3>1, <3>3
  <2> QED BY <2>2, <2>3
<1>8. ASSUME NEW t \in Tasks, Request(t) PROVE NothingAsked(u)'
  <2>1. task[t] \in TaskRecords
    OBVIOUS
  <2>2. CASE Ends(t)
    BY <1>3, <2>2
  <2>3. CASE ~Ends(t)
    <3>1. task'[t].pc \in Driving /\ \A v \in Tasks \ {t} : task'[v] = task[v]
      BY <1>8, <2>1, <2>3 DEF Request, ModeSet, Statement, Browse, Spawn, Steps, CursorOpens, MutateNext, MutateStops,
                              MutateGivesUp, MutateEnds, Driving, TaskRecords
    <3> QED BY <1>6, <3>1
  <2> QED BY <2>2, <2>3
<1>9. ASSUME NEW t \in Tasks, NEW op \in Ops(t), Ask(t, op) PROVE NothingAsked(u)'
  <2>1. task[t] \in TaskRecords /\ task[t].pc \notin Driving
    BY <1>9 DEF Ask, Driving
  <2>2. task'[t].answer = task[t].answer /\ task'[t].asked = task[t].asked /\ \A v \in Tasks \ {t} : task'[v] = task[v]
    BY <1>9, <2>1 DEF Ask, TaskRecords
  <2> QED BY <1>5, <2>1, <2>2
<1>10. ASSUME NEW s \in Sids, Actor(s) PROVE NothingAsked(u)'
  <2>1. UNCHANGED task \/ \E w \in Words : Answers(s, w)
    BY <1>10 DEF Actor, Begin, Execute, ActorWrites, ActorReads, ActorFails, Broken, Commit, Rollback, HangUp, Leave, Words
  <2> QED BY <1>1, <1>2, <2>1
<1>11. ASSUME NEW s \in Sids, Reader(s) \/ Exhausted(s) \/ Die(s) PROVE UNCHANGED task
  BY <1>11 DEF Reader, NextBatch, Abandon, CloseCursor, DropCursor, Exhausted, CursorSends, Die
<1>12. ASSUME Close PROVE UNCHANGED task
  BY <1>12 DEF Close
<1> QED BY <1>1, <1>7, <1>8, <1>9, <1>10, <1>11, <1>12 DEF PgNext

-----------------------------------------------------------------------------
(* Requests *)

LEMMA ModeSetKeeps == ASSUME PgInv, NEW t \in Tasks, ModeSet(t) PROVE PgInv'
<1> USE Typed
<1>1. /\ task[t].pc = "has" /\ task[t].op \in {"readonly", "readwrite"} /\ promised' = (task[t].op = "readonly")
      /\ UNCHANGED <<slots, actor, cursor, want, closed, ledger, told, breaches>>
      /\ GiveBack(task[t].sid) /\ Ends(t)
  BY DEF ModeSet
<1>2. t = Conn
  BY <1>1 DEF PgInv, TaskPlace, Ops
<1>3. promised' => want = "ro"
  BY <1>1, <1>2 DEF PgInv, ModePlace
<1> QED BY <1>1, <1>3, GivesBack DEF With

LEMMA StatementKeeps == ASSUME PgInv, NEW t \in Tasks, Statement(t) PROVE PgInv'
<1> USE Typed
<1>1. /\ task[t].pc = "has" /\ task[t].op = "statement" /\ GiveBack(task[t].sid) /\ Ends(t)
      /\ UNCHANGED <<slots, actor, cursor, want, closed, promised, ledger, told>>
  BY DEF Statement
<1>2. t = Conn
  BY <1>1 DEF PgInv, TaskPlace, Ops
<1>3. task[t].sid \in Sids
  BY <1>1 DEF PgInv, TaskPlace, With
<1>4. ASSUME sess[task[t].sid].mode = "rw" PROVE ~task[t].sure
  BY <1>1, <1>2, <1>3, <1>4 DEF PgInv, ModePlace
<1>5. breaches' = breaches
  BY <1>4 DEF Statement
<1> QED BY <1>1, <1>5, GivesBack DEF With

LEMMA BrowseKeeps == ASSUME PgInv, NEW t \in Tasks, Browse(t) PROVE PgInv'
<1> USE Typed
<1> QED BY GivesBack DEF Browse, With

LEMMA AskKeeps == ASSUME PgInv, NEW t \in Tasks, NEW op \in Ops(t), Ask(t, op) PROVE PgInv'
<1> USE Typed
<1>1. task[t].pc = "idle" /\ task[t].sid = 0 /\ task[t] \in TaskRecords
  BY DEF Ask, PgInv, TaskPlace, With, Driving
<1>2. UNCHANGED <<slots, sess, lock, actor, cursor, closed, breaches>>
  BY DEF Ask
<1>3. PICK r : r = [task[t] EXCEPT !.pc = "asked", !.op = op, !.sure = promised, !.ops = @ + 1]
  OBVIOUS
<1>4. r \in TaskRecords /\ r.pc = "asked" /\ r.op = op /\ r.sid = 0 /\ r.sure = promised
  <2>1. op \in OpNames
    BY DEF Ops, OpNames
  <2>2. "asked" \in Pcs
    BY DEF Pcs
  <2>3. task[t].ops + 1 \in Nat
    BY <1>1 DEF TaskRecords
  <2>4. PICK n \in Nat : n = task[t].ops + 1
    BY <2>3
  <2>5. r = [pc |-> "asked", op |-> op, sid |-> 0, snap |-> task[t].snap, asked |-> task[t].asked,
             answer |-> task[t].answer, sure |-> promised, ops |-> n]
    BY <1>1, <1>3, <2>4 DEF TaskRecords
  <2> QED BY <1>1, <2>1, <2>2, <2>4, <2>5 DEF TaskRecords
<1>5. task' = [task EXCEPT ![t] = r]
  BY <1>3 DEF Ask
<1>6. task' \in [Tasks -> TaskRecords] /\ task'[t] = r /\ \A u \in Tasks \ {t} : task'[u] = task[u]
  BY <1>4, <1>5
<1>7. /\ want' \in Modes /\ promised' \in BOOLEAN
      /\ promised' => want' = "ro"
      /\ op = "readonly" => want' = "ro"
      /\ op = "statement" => want' = want /\ promised' = promised
      /\ t # Conn => want' = want /\ promised' = promised
  <2>1. promised => want = "ro"
    BY DEF PgInv, ModePlace
  <2>2. CASE op = "readonly"
    BY <2>2 DEF Ask, Modes, Ops
  <2>3. CASE op = "readwrite"
    BY <2>3 DEF Ask, Modes, Ops
  <2>4. CASE op \notin {"readonly", "readwrite"}
    BY <2>1, <2>4 DEF Ask
  <2> QED BY <2>2, <2>3, <2>4
<1>8. /\ ledger' \in {"none", "whole", "partial"} /\ told' \in {"none", "refused", "done", "unknown"}
      /\ op = "mutate" => ledger' = "none" /\ told' = "none"
      /\ op # "mutate" => ledger' = ledger /\ told' = told
      /\ t # Conn => op # "mutate"
  BY DEF Ask, Ops
<1>9. PgTypes'
  <2>1. want' \in Modes /\ promised' \in BOOLEAN
    BY <1>7
  <2>2. closed' \in BOOLEAN /\ slots' \in Seq(Sids) /\ sess' \in [Sids -> SessRecords]
        /\ lock' \in [Sids -> Tasks \cup {"free", "actor"}] /\ \A s \in Sids : lock'[s] = "actor" <=> lock[s] = "actor"
    BY <1>2
  <2>3. UNCHANGED <<actor, cursor>>
    BY <1>2
  <2> QED BY <1>6, <1>8, <2>1, <2>2, <2>3, TypesKeep DEF PgInv
<1>10. TaskPlace(t)'
  BY <1>4, <1>6 DEF TaskPlace, With, Driving, Ops
<1>11. \A s \in Sids : lock[s] # t
  BY <1>1 DEF PgInv, LockPlace, With
<1>12. (\A u \in Tasks : TaskPlace(u)') /\ (\A s \in Sids : LockPlace(s)')
  BY <1>2, <1>6, <1>10, <1>11, PlacesKeep
<1>13. SlotPlace'
  BY <1>2, SlotsKeep DEF PgInv
<1>14. ModePlace'
  <2>0. (\A s \in Sids : sess'[s].set # "unset" => sess'[s].mode = sess'[s].set) /\ "statement" \notin breaches'
    BY <1>2
  <2>1. CASE t = Conn
    <3>1. task'[Conn] = r
      BY <1>6, <2>1
    <3>2. op = "statement" /\ r.sure => want' = "ro"
      BY <1>4, <1>7
    <3> QED BY <1>4, <1>7, <2>0, <3>1, <3>2 DEF ModePlace
  <2>2. CASE t # Conn
    BY <1>2, <1>6, <1>7, <2>2 DEF PgInv, ModePlace
  <2> QED BY <2>1, <2>2
<1>15. ASSUME NEW s \in Sids PROVE ActorPlace(s)' /\ Written(s)'
  <2>1. task'[Conn] = task[Conn] \/ ~(Drives(s) \/ Drives(s)')
    BY <1>1, <1>4, <1>6 DEF Drives, Driving
  <2> QED BY <1>2, <2>1, ActorStays DEF PgInv
<1>16. LedgerPlace'
  <2>1. LedgerPlace
    BY DEF PgInv
  <2>2. CASE t = Conn
    BY <1>4, <1>6, <1>8, <2>1, <2>2 DEF LedgerPlace, MutationIsWhole, AnswerIsTrue
  <2>3. CASE t # Conn
    BY <1>6, <1>8, <2>1, <2>3 DEF LedgerPlace, MutationIsWhole, AnswerIsTrue
  <2> QED BY <2>2, <2>3
<1> QED BY <1>9, <1>12, <1>13, <1>14, <1>15, <1>16 DEF PgInv

LEMMA DieKeeps == ASSUME PgInv, NEW s \in Sids, Die(s) PROVE PgInv'
<1> USE Typed
<1>1. UNCHANGED <<slots, lock, actor, cursor, task, want, closed, promised, ledger, told, breaches>>
      /\ sess[s].client = "live"
  BY DEF Die
<1>2. /\ sess' \in [Sids -> SessRecords]
      /\ \A q \in Sids : /\ sess'[q].set = sess[q].set /\ sess'[q].mode = sess[q].mode
                         /\ sess'[q].client = "none" <=> sess[q].client = "none"
  <2>1. PICK r : r = [sess[s] EXCEPT !.client = "dead"]
    OBVIOUS
  <2>2. r \in SessRecords /\ r.client = "dead" /\ r.set = sess[s].set /\ r.mode = sess[s].mode
    BY <2>1 DEF SessRecords
  <2>3. sess' = [sess EXCEPT ![s] = r]
    BY <2>1 DEF Die
  <2> QED BY <1>1, <2>2, <2>3
<1>3. PgTypes'
  BY <1>1, <1>2, TypesKeep DEF PgInv
<1>4. ASSUME NEW t \in Tasks PROVE TaskPlace(t)'
  BY <1>1, <1>2 DEF PgInv, TaskPlace, With
<1>5. ASSUME NEW q \in Sids PROVE LockPlace(q)'
  BY <1>1 DEF PgInv, LockPlace
<1>6. SlotPlace'
  BY <1>1, <1>2, SlotsKeep DEF PgInv
<1>7. ModePlace'
  <2>1. ModePlace /\ TaskPlace(Conn)
    BY DEF PgInv
  <2>2. task[Conn].pc = "has" => task[Conn].sid \in Sids
    BY <2>1 DEF TaskPlace, With
  <2> QED BY <1>1, <1>2, <2>1, <2>2 DEF ModePlace
<1>8. (\A q \in Sids : ActorPlace(q)' /\ Written(q)') /\ LedgerPlace'
  BY <1>1, BatchesKeep
<1> QED BY <1>3, <1>4, <1>5, <1>6, <1>7, <1>8 DEF PgInv

LEMMA CloseKeeps == ASSUME PgInv, Close PROVE PgInv'
<1> USE Typed
<1>1. UNCHANGED <<lock, actor, cursor, task, want, promised, ledger, told, breaches>> /\ closed' = TRUE /\ slots' = <<>>
      /\ task[Conn].pc = "idle"
  BY DEF Close
<1>2. \A q \in Sids : sess'[q] = IF q \in Idles THEN NoSession ELSE sess[q]
  BY DEF Close, Discard
<1>3. sess' \in [Sids -> SessRecords]
  BY DEF Close, Discard, SessRecords, NoSession, Modes
<1>4. \A q \in Sids : lock[q] # "free" => sess'[q] = sess[q]
  BY <1>2 DEF Idles
<1>5. PgTypes'
  BY <1>1, <1>3, TypesKeep DEF PgInv
<1>6. TaskPlace(Conn)' /\ \A q \in Sids : lock[q] # Conn
  BY <1>1 DEF PgInv, TaskPlace, LockPlace, With, Driving
<1>7. (\A t \in Tasks : TaskPlace(t)') /\ (\A q \in Sids : LockPlace(q)')
  BY <1>1, <1>4, <1>6, PlacesKeep
<1>8. SlotPlace'
  BY <1>1, PgBounds DEF SlotPlace
<1>9. ModePlace'
  <2>1. \A q \in Sids : sess'[q].set # "unset" => sess'[q].mode = sess'[q].set
    BY <1>2 DEF NoSession
  <2>2. promised => want = "ro"
    BY DEF PgInv, ModePlace
  <2> QED BY <1>1, <2>1, <2>2, ModesKeep DEF PgInv, GoesOn
<1>10. (\A q \in Sids : ActorPlace(q)' /\ Written(q)') /\ LedgerPlace'
  BY <1>1, BatchesKeep
<1> QED BY <1>5, <1>7, <1>8, <1>9, <1>10 DEF PgInv

-----------------------------------------------------------------------------
(* Requests that drive an actor *)

CursorStates == {"none", "open", "fetching", "last", "over", "closing"}

\* The types of a step that moves one actor.
LEMMA ActorTypes ==
    ASSUME PgTypes, NEW s \in Sids, NEW a \in ActorRecords, actor' = [actor EXCEPT ![s] = a],
           UNCHANGED <<slots, want, closed, promised>>, sess' \in [Sids -> SessRecords],
           cursor' \in [Sids -> CursorStates], lock' \in [Sids -> Tasks \cup {"free", "actor"}],
           lock'[s] = "actor" <=> a.pc # "none",
           \A q \in Sids \ {s} : lock'[q] = lock[q],
           task' \in [Tasks -> TaskRecords],
           ledger' \in {"none", "whole", "partial"}, told' \in {"none", "refused", "done", "unknown"}
    PROVE  PgTypes'
<1>1. actor' \in [Sids -> ActorRecords]
  BY DEF PgTypes
<1>2. \A q \in Sids : /\ actor'[q].pc \in {"none", "begin", "run", "broken", "leave"}
                      /\ actor'[q].queue \in Seq({"execute", "fetch", "rollback", "commit"})
                      /\ actor'[q].wrote \in 0 .. BatchSize
  BY <1>1 DEF ActorRecords
<1>3. \A q \in Sids : lock'[q] = "actor" <=> actor'[q].pc # "none"
  BY DEF PgTypes, PgTypeOK
<1> QED BY <1>1, <1>2, <1>3 DEF PgTypes, PgTypeOK, SessRecords, CursorStates

\* What is known of the actor of a session, and of its cursor.
LEMMA ActorTyped ==
    ASSUME PgInv, NEW s \in Sids
    PROVE  /\ actor \in [Sids -> ActorRecords] /\ actor[s] \in ActorRecords
           /\ cursor \in [Sids -> CursorStates] /\ cursor[s] \in CursorStates
           /\ lock[s] = "actor" <=> actor[s].pc # "none"
           /\ ActorPlace(s) /\ Written(s) /\ LedgerPlace
           /\ TaskPlace(Conn) /\ task[Conn] \in TaskRecords
BY Typed DEF PgInv, PgTypes, PgTypeOK, CursorStates

\* A step of the actor of s, of its cursor or of the request that drives it, by its parts.
LEMMA Driven ==
    ASSUME PgInv, NEW s \in Sids, UNCHANGED <<slots, want, closed, promised>>,
           \A q \in Sids \ {s} : /\ actor'[q] = actor[q] /\ cursor'[q] = cursor[q]
                                 /\ lock'[q] = lock[q] /\ sess'[q] = sess[q],
           \A u \in Tasks \ {Conn} : task'[u] = task[u],
           task'[Conn] = task[Conn] \/ (task[Conn].sid = s /\ (~Quiet' => task'[Conn].sid = s)),
           GoesOn, task'[Conn].pc = "has" => task'[Conn] = task[Conn],
           lock'[s] = lock[s] \/ {lock[s], lock'[s]} \subseteq {"free", "actor", Conn},
           sess'[s] = sess[s] \/ (sess'[s] = NoSession /\ lock[s] = "actor"),
           lock'[s] # "free" => lock[s] # "free",
           TaskPlace(Conn)', \A q \in Sids : lock'[q] = Conn => LockPlace(q)',
           "statement" \notin breaches', PgTypes', ActorPlace(s)', Written(s)', LedgerPlace'
    PROVE  PgInv'
<1> USE Typed
<1>1. \A q \in Sids : sess'[q] = sess[q] \/ (q = s /\ sess'[q] = NoSession /\ lock[q] = "actor")
  OBVIOUS
<1>2. (\A u \in Tasks : TaskPlace(u)') /\ (\A q \in Sids : LockPlace(q)')
  <2>1. \A q \in Sids : lock'[q] = lock[q] \/ {lock[q], lock'[q]} \subseteq {"free", "actor", Conn}
    OBVIOUS
  <2>2. \A q \in Sids : lock[q] \in Tasks \ {Conn} => sess'[q] = sess[q]
    BY <1>1
  <2> QED BY <2>1, <2>2, PlacesKeep
<1>3. SlotPlace'
  BY <1>1, SlotsKeep DEF PgInv, NoSession
<1>4. ModePlace'
  <2>1. \A q \in Sids : sess'[q].set # "unset" => sess'[q].mode = sess'[q].set
    BY <1>1 DEF NoSession
  <2>2. promised => want = "ro"
    BY DEF PgInv, ModePlace
  <2>3. ASSUME task'[Conn].pc = "has" PROVE want # "unset" => sess'[task'[Conn].sid].set = want
    <3>1. task'[Conn] = task[Conn]
      BY <2>3
    <3>2. task[Conn].sid \in Sids /\ lock[task[Conn].sid] = Conn
      BY <2>3, <3>1 DEF PgInv, TaskPlace, With
    <3>3. sess'[task[Conn].sid] = sess[task[Conn].sid]
      BY <1>1, <3>2
    <3> QED BY <2>3, <3>1, <3>3 DEF PgInv, ModePlace
  <2> QED BY <2>1, <2>2, <2>3, ModesKeep DEF PgInv
<1>5. ASSUME NEW q \in Sids PROVE ActorPlace(q)' /\ Written(q)'
  <2>1. CASE q = s
    BY <2>1
  <2>2. CASE q # s
    <3>1. task'[Conn] = task[Conn] \/ ~(Drives(q) \/ Drives(q)')
      <4>1. CASE task[Conn].sid = s /\ (~Quiet' => task'[Conn].sid = s)
        <5>1. ~Drives(q)
          BY <2>2, <4>1 DEF Drives
        <5>2. Drives(q)' => task'[Conn].sid = q /\ ~Quiet'
          BY DEF Drives, Quiet
        <5> QED BY <2>2, <4>1, <5>1, <5>2
      <4> QED BY <4>1
    <3> QED BY <2>2, <3>1, ActorStays DEF PgInv
  <2> QED BY <2>1, <2>2
<1> QED BY <1>2, <1>3, <1>4, <1>5 DEF PgInv

\* A mutation or a scan is a request of the connection's task.
LEMMA Requested ==
    ASSUME PgInv, NEW t \in Tasks, task[t].pc \in Driving
    PROVE  t = Conn /\ task[t].sid \in Sids /\ Drives(task[t].sid) /\ task[t].op \in {"scan", "mutate"}
<1>1. task[t].op \in Ops(t) /\ task[t].op \in {"scan", "mutate"} /\ task[t].sid \in Sids
  BY DEF PgInv, TaskPlace, Driving
<1>2. t = Conn
  BY <1>1 DEF Ops
<1> QED BY <1>1, <1>2 DEF Drives

LEMMA SpawnKeeps == ASSUME PgInv, NEW t \in Tasks, Spawn(t), NothingAsked(t) PROVE PgInv'
<1> USE Typed
<1>1. /\ task[t].pc = "has" /\ task[t].op \in {"scan", "mutate"} /\ Steps(t, "executing")
      /\ UNCHANGED <<slots, sess, cursor, want, closed, promised, ledger, told, breaches>>
  BY DEF Spawn
<1>2. t = Conn
  BY <1>1 DEF PgInv, TaskPlace, Ops
<1>3. PICK s \in Sids : s = task[Conn].sid /\ lock[s] = Conn
  BY <1>1, <1>2 DEF PgInv, TaskPlace, With
<1>4. lock' = [lock EXCEPT ![s] = "actor"]
  BY <1>2, <1>3 DEF Spawn
<1>5. PICK a : a = [NoActor EXCEPT !.pc = "begin", !.kind = task[Conn].op, !.queue = <<"execute">>]
  OBVIOUS
<1>6. /\ a \in ActorRecords /\ a.pc = "begin" /\ a.kind = task[Conn].op /\ a.queue = <<"execute">> /\ a.wrote = 0 /\ a.good
  <2>1. a = [pc |-> "begin", kind |-> task[Conn].op, queue |-> <<"execute">>, wrote |-> 0, good |-> TRUE]
    BY <1>5 DEF NoActor
  <2>2. <<"execute">> \in Seq({"execute", "fetch", "rollback", "commit"})
    OBVIOUS
  <2>3. 0 \in 0 .. BatchSize
    BY PgBounds
  <2> QED BY <1>1, <1>2, <2>1, <2>2, <2>3 DEF ActorRecords
<1>7. actor' = [actor EXCEPT ![s] = a]
  BY <1>2, <1>3, <1>5 DEF Spawn
<1>8. task' \in [Tasks -> TaskRecords] /\ \A u \in Tasks \ {Conn} : task'[u] = task[u]
  BY <1>1, <1>2, StepsTyped DEF Steps, Pcs, Driving
<1>9. /\ task'[Conn].pc = "executing" /\ task'[Conn].op = task[Conn].op /\ task'[Conn].sure = task[Conn].sure
      /\ task'[Conn].sid = s /\ task'[Conn].answer = "none" /\ task'[Conn].asked = 0
  <2>1. task[Conn] \in TaskRecords /\ task[Conn].answer = "none" /\ task[Conn].asked = 0
    BY <1>1, <1>2 DEF NothingAsked, Driving
  <2> QED BY <1>1, <1>2, <1>3, <2>1 DEF Steps, TaskRecords
<1>10. cursor[s] = "none"
  <2>1. actor[s].pc = "none" /\ ActorPlace(s)
    BY <1>3, ActorTyped
  <2> QED BY <2>1 DEF ActorPlace, NoActor
<1>11. PgTypes'
  <2>1. lock' \in [Sids -> Tasks \cup {"free", "actor"}] /\ lock'[s] = "actor" /\ \A q \in Sids \ {s} : lock'[q] = lock[q]
    BY <1>4
  <2>2. cursor \in [Sids -> CursorStates]
    BY <1>3, ActorTyped
  <2> QED BY <1>1, <1>6, <1>7, <1>8, <2>1, <2>2, ActorTypes DEF PgInv
<1>12. actor'[s] = a /\ cursor'[s] = "none" /\ Drives(s)'
  <2>1. actor'[s] = a
    BY <1>3, <1>7, ActorTyped
  <2> QED BY <1>1, <1>9, <1>10, <2>1 DEF Drives, Driving
<1>13. ActorPlace(s)'
  BY <1>1, <1>2, <1>6, <1>9, <1>12 DEF ActorPlace, Asking
<1>14. Written(s)'
  BY <1>6, <1>9, <1>12, PgBounds DEF Written
<1>15. LedgerPlace'
  <2>1. LedgerPlace
    BY DEF PgInv
  <2> QED BY <1>1, <1>2, <1>9, <2>1 DEF LedgerPlace, MutationIsWhole, AnswerIsTrue
<1>16. TaskPlace(Conn)'
  BY <1>1, <1>2, <1>9 DEF TaskPlace, With, Driving, Ops
<1>17. \A q \in Sids : lock'[q] # Conn
  BY <1>3, <1>4, PgBounds DEF PgInv, LockPlace, Tasks
<1>18. \A q \in Sids \ {s} : actor'[q] = actor[q] /\ lock'[q] = lock[q]
  BY <1>4, <1>7
<1>19. GoesOn
  BY <1>1, <1>2, <1>9 DEF GoesOn
<1>20. lock'[s] = "actor"
  BY <1>4
<1> QED BY <1>1, <1>3, <1>8, <1>9, <1>11, <1>13, <1>14, <1>15, <1>16, <1>17, <1>18, <1>19, <1>20, Driven

\* A step of the request that drives the actor of s: the actor is sent a command, or nothing.
LEMMA DriverKeeps ==
    ASSUME PgInv, NEW s \in Sids, Drives(s),
           NEW a \in ActorRecords, actor' = [actor EXCEPT ![s] = a], a.pc = actor[s].pc,
           UNCHANGED <<slots, sess, lock, want, closed, promised, breaches>>,
           \A q \in Sids \ {s} : cursor'[q] = cursor[q], cursor' \in [Sids -> CursorStates],
           task' \in [Tasks -> TaskRecords], \A u \in Tasks \ {Conn} : task'[u] = task[u],
           task'[Conn].pc \in {"idle"} \cup Driving, GoesOn,
           task'[Conn].sid = IF task'[Conn].pc = "idle" THEN 0 ELSE s,
           ledger' \in {"none", "whole", "partial"}, told' \in {"none", "refused", "done", "unknown"},
           ActorPlace(s)', Written(s)', LedgerPlace'
    PROVE  PgInv'
<1> USE Typed
<1>1. actor[s] \in ActorRecords /\ (lock[s] = "actor" <=> actor[s].pc # "none") /\ task[Conn].sid = s
  BY ActorTyped DEF Drives
<1>2. PgTypes'
  BY <1>1, ActorTypes DEF PgInv
<1>3. TaskPlace(Conn)'
  BY DEF PgInv, TaskPlace, GoesOn, With, Driving, Ops, Drives
<1>4. \A q \in Sids : lock'[q] # Conn
  BY DEF PgInv, LockPlace, With, Drives, Driving
<1>5. task'[Conn].pc # "has" /\ "statement" \notin breaches'
  BY DEF Driving
<1>6. \A q \in Sids \ {s} : actor'[q] = actor[q]
  BY ActorTyped
<1>7. ~Quiet' => task'[Conn].sid = s
  BY DEF Quiet, Driving
<1> QED BY <1>1, <1>2, <1>3, <1>4, <1>5, <1>6, <1>7, Driven

LEMMA CursorOpensKeeps == ASSUME PgInv, NEW t \in Tasks, CursorOpens(t) PROVE PgInv'
<1> USE Typed
<1>1. /\ task[t].pc = "executing" /\ task[t].op = "scan" /\ task[t].answer # "none" /\ Ends(t)
      /\ UNCHANGED <<slots, sess, lock, actor, want, closed, promised, ledger, told, breaches>>
  BY DEF CursorOpens
<1>2. PICK s \in Sids : s = task[Conn].sid /\ t = Conn /\ Drives(s)
  BY <1>1, Requested DEF Driving
<1>3. cursor' = cursor \/ cursor' = [cursor EXCEPT ![s] = "open"]
  BY <1>2 DEF CursorOpens
<1>4. /\ ActorPlace(s) /\ actor[s] \in ActorRecords /\ cursor[s] \in CursorStates /\ cursor \in [Sids -> CursorStates]
      /\ actor \in [Sids -> ActorRecords]
  BY ActorTyped
<1>5. cursor' \in [Sids -> CursorStates] /\ (\A q \in Sids \ {s} : cursor'[q] = cursor[q]) /\ cursor'[s] \in {"none", "open"}
  BY <1>2, <1>3, <1>4 DEF CursorStates, ActorPlace
<1>6. task' \in [Tasks -> TaskRecords] /\ (\A u \in Tasks \ {Conn} : task'[u] = task[u])
      /\ task'[Conn].pc = "idle" /\ task'[Conn].sid = 0
  BY <1>1, <1>2, StepsTyped DEF Ends, Idle
<1>7. actor[s].queue = <<>> /\ actor[s].kind = "scan" /\ actor[s].pc # "begin"
  BY <1>1, <1>2, <1>4 DEF ActorPlace
<1>8. ~Drives(s)'
  BY <1>6 DEF Drives, Driving
<1>9. ActorPlace(s)'
  BY <1>1, <1>4, <1>5, <1>7, <1>8 DEF ActorPlace
<1>10. Written(s)'
  BY <1>8 DEF Written
<1>11. LedgerPlace'
  <2>1. LedgerPlace
    BY DEF PgInv
  <2> QED BY <1>1, <1>6, <2>1 DEF LedgerPlace, MutationIsWhole, AnswerIsTrue
<1>12. PICK a \in ActorRecords : a = actor[s]
  BY <1>4
<1>13. actor' = [actor EXCEPT ![s] = a] /\ a.pc = actor[s].pc
  BY <1>1, <1>4, <1>12
<1>14. GoesOn
  BY <1>6 DEF GoesOn
<1> QED BY <1>1, <1>2, <1>5, <1>6, <1>9, <1>10, <1>11, <1>12, <1>13, <1>14, DriverKeeps

\* A request of a batch, as its actor has answered it.
LEMMA Batched ==
    ASSUME PgInv, NEW t \in Tasks, task[t].pc \in Driving, task[t].op = "mutate", task[t].answer # "none"
    PROVE  \E s \in Sids : /\ s = task[Conn].sid /\ t = Conn /\ Drives(s)
                           /\ actor[s] \in ActorRecords /\ actor[s].queue = <<>> /\ actor[s].pc # "begin"
                           /\ actor[s].kind # "scan" /\ cursor[s] = "none" /\ cursor \in [Sids -> CursorStates]
                           /\ actor \in [Sids -> ActorRecords]
                           /\ ActorPlace(s) /\ Written(s)
                           /\ task[t].pc = "executing" => actor[s].kind = "mutate" /\ task[t].asked < BatchSize
                           /\ task[t].pc = "executing" /\ task[t].answer = "one" =>
                                actor[s].wrote = task[t].asked + 1 /\ actor[s].good
<1>1. PICK s \in Sids : s = task[Conn].sid /\ t = Conn /\ Drives(s)
  BY Requested
<1>2. ActorPlace(s) /\ Written(s) /\ actor[s] \in ActorRecords /\ cursor \in [Sids -> CursorStates]
      /\ actor \in [Sids -> ActorRecords]
  BY ActorTyped
<1>3. actor[s].queue = <<>> /\ actor[s].pc # "begin" /\ actor[s].kind # "scan" /\ cursor[s] = "none"
  BY <1>1, <1>2 DEF ActorPlace
<1>4. task[t].pc = "executing" => actor[s].kind = "mutate"
  BY <1>1, <1>2 DEF ActorPlace
<1>5. /\ task[t].pc = "executing" => task[t].asked < BatchSize
      /\ task[t].pc = "executing" /\ task[t].answer = "one" => actor[s].wrote = task[t].asked + 1 /\ actor[s].good
  BY <1>1, <1>2 DEF Written
<1> QED BY <1>1, <1>2, <1>3, <1>4, <1>5

\* The next command of a batch.
LEMMA SendsKeeps ==
    ASSUME PgInv, NEW t \in Tasks, task[t].pc = "executing", task[t].op = "mutate",
           task[t].answer # "none", NEW cmd, Sends(t, cmd), UNCHANGED told,
           NEW r \in TaskRecords, task' = [task EXCEPT ![t] = r],
           r.pc \in Driving, cmd = Asking(r.pc), r.op = "mutate", r.sid = task[t].sid, r.sure = task[t].sure,
           r.answer = "none",
           r.pc # "undoing" => task[t].answer = "one" /\ r.asked = task[t].asked + 1,
           r.pc = "executing" => r.asked < BatchSize,
           r.pc = "committing" => r.asked = BatchSize
    PROVE  PgInv'
<1> USE Typed
<1>1. PICK s \in Sids : /\ s = task[Conn].sid /\ t = Conn /\ Drives(s)
                        /\ actor[s] \in ActorRecords /\ actor[s].queue = <<>> /\ actor[s].pc # "begin"
                        /\ cursor[s] = "none" /\ cursor \in [Sids -> CursorStates]
                        /\ actor \in [Sids -> ActorRecords]
                        /\ ActorPlace(s) /\ Written(s) /\ actor[s].kind = "mutate" /\ task[t].asked < BatchSize
                        /\ task[t].answer = "one" => actor[s].wrote = task[t].asked + 1 /\ actor[s].good
  BY Batched DEF Driving
<1>2. PICK a : a = [actor[s] EXCEPT !.queue = <<cmd>>]
  OBVIOUS
<1>3. /\ a \in ActorRecords /\ a.pc = actor[s].pc /\ a.kind = "mutate" /\ a.queue = <<cmd>>
      /\ a.wrote = actor[s].wrote /\ a.good = actor[s].good
  <2>1. cmd \in {"execute", "fetch", "rollback", "commit"}
    BY DEF Asking, Driving
  <2>2. <<cmd>> \in Seq({"execute", "fetch", "rollback", "commit"})
    BY <2>1
  <2> QED BY <1>1, <1>2, <2>2 DEF ActorRecords
<1>4. actor' = [actor EXCEPT ![s] = a] /\ UNCHANGED <<slots, sess, lock, cursor, want, closed, promised, ledger, breaches>>
  BY <1>1, <1>2 DEF Sends
<1>5. actor'[s] = a
  BY <1>1, <1>4
<1>6. task' \in [Tasks -> TaskRecords] /\ task'[Conn] = r /\ \A u \in Tasks \ {Conn} : task'[u] = task[u]
  BY <1>1
<1>7. Drives(s)'
  BY <1>1, <1>6 DEF Drives
<1>8. ActorPlace(s)'
  <2>1. a.pc # "none" /\ a.pc # "leave"
    BY <1>1, <1>3 DEF ActorPlace, NoActor
  <2> QED BY <1>1, <1>3, <1>4, <1>5, <1>6, <1>7, <2>1 DEF ActorPlace
<1>9. Written(s)'
  BY <1>1, <1>3, <1>5, <1>6, <1>7 DEF Written
<1>10. LedgerPlace'
  <2>1. LedgerPlace
    BY DEF PgInv
  <2>2. told = "none" /\ ledger = "none"
    BY <1>1, <2>1 DEF LedgerPlace
  <2> QED BY <1>4, <1>6, <2>2 DEF LedgerPlace, MutationIsWhole, AnswerIsTrue
<1>11. GoesOn
  BY <1>1, <1>6 DEF GoesOn, Driving
<1>12. task'[Conn].pc \in {"idle"} \cup Driving /\ task'[Conn].sid = IF task'[Conn].pc = "idle" THEN 0 ELSE s
  BY <1>1, <1>6 DEF Driving
<1> QED BY <1>1, <1>3, <1>4, <1>6, <1>8, <1>9, <1>10, <1>11, <1>12, DriverKeeps

LEMMA MutateNextKeeps == ASSUME PgInv, NEW t \in Tasks, MutateNext(t) PROVE PgInv'
<1> USE Typed
<1>1. task[t].pc = "executing" /\ task[t].op = "mutate" /\ task[t].answer = "one" /\ UNCHANGED told /\ task[t] \in TaskRecords
  BY DEF MutateNext
<1>2. task[t].asked \in Nat /\ task[t].asked < BatchSize
  <2>1. task[t].asked < BatchSize
    BY <1>1, Batched DEF Driving
  <2> QED BY <1>1, <2>1 DEF TaskRecords
<1>3. PICK n \in 0 .. BatchSize : n = task[t].asked + 1
  BY <1>2, PgBounds
<1>4. CASE n < BatchSize
  <2>1. PICK r : r = [task[t] EXCEPT !.asked = n, !.answer = "none"]
    OBVIOUS
  <2>2. /\ r \in TaskRecords /\ r.pc = "executing" /\ r.op = "mutate" /\ r.sid = task[t].sid /\ r.sure = task[t].sure
        /\ r.answer = "none" /\ r.asked = n
    BY <1>1, <2>1 DEF TaskRecords, Words
  <2>3. task' = [task EXCEPT ![t] = r] /\ Sends(t, "execute")
    BY <1>3, <1>4, <2>1 DEF MutateNext
  <2>4. Asking("executing") = "execute"
    BY DEF Asking
  <2> QED BY <1>1, <1>3, <1>4, <2>2, <2>3, <2>4, SendsKeeps DEF Driving
<1>5. CASE ~(n < BatchSize)
  <2>1. PICK r : r = [task[t] EXCEPT !.asked = n, !.answer = "none", !.pc = "committing"]
    OBVIOUS
  <2>2. /\ r \in TaskRecords /\ r.pc = "committing" /\ r.op = "mutate" /\ r.sid = task[t].sid /\ r.sure = task[t].sure
        /\ r.answer = "none" /\ r.asked = n
    <3>1. [task[t] EXCEPT !.asked = n, !.answer = "none"] \in TaskRecords
      BY <1>1 DEF TaskRecords, Words
    <3>2. PICK q \in TaskRecords : q = [task[t] EXCEPT !.asked = n, !.answer = "none"]
      BY <3>1
    <3>3. [q EXCEPT !.pc = "committing"] \in TaskRecords
      BY RecordMoves DEF Pcs, Driving
    <3>4. r = [q EXCEPT !.pc = "committing"]
      BY <2>1, <3>2
    <3> QED BY <1>1, <2>1, <3>3, <3>4 DEF TaskRecords
  <2>3. task' = [task EXCEPT ![t] = r] /\ Sends(t, "commit")
    BY <1>3, <1>5, <2>1 DEF MutateNext
  <2>4. Asking("committing") = "commit"
    BY DEF Asking
  <2>5. n = BatchSize
    BY <1>3, <1>5, PgBounds
  <2> QED BY <1>1, <1>3, <2>2, <2>3, <2>4, <2>5, SendsKeeps DEF Driving
<1> QED BY <1>4, <1>5

LEMMA MutateStopsKeeps == ASSUME PgInv, NEW t \in Tasks, MutateStops(t) PROVE PgInv'
<1> USE Typed
<1>1. /\ task[t].pc = "executing" /\ task[t].op = "mutate" /\ task[t].answer # "none" /\ UNCHANGED told
      /\ task[t] \in TaskRecords /\ Sends(t, "rollback")
  BY DEF MutateStops
<1>2. PICK r : r = [task[t] EXCEPT !.answer = "none", !.pc = "undoing"]
  OBVIOUS
<1>3. /\ r \in TaskRecords /\ r.pc = "undoing" /\ r.op = "mutate" /\ r.sid = task[t].sid /\ r.sure = task[t].sure
      /\ r.answer = "none"
  <2>1. [task[t] EXCEPT !.answer = "none"] \in TaskRecords
    BY <1>1 DEF TaskRecords, Words
  <2>2. PICK q \in TaskRecords : q = [task[t] EXCEPT !.answer = "none"]
    BY <2>1
  <2>3. [q EXCEPT !.pc = "undoing"] \in TaskRecords
    BY RecordMoves DEF Pcs, Driving
  <2>4. r = [q EXCEPT !.pc = "undoing"]
    BY <1>2, <2>2
  <2> QED BY <1>1, <1>2, <2>3, <2>4 DEF TaskRecords
<1>4. task' = [task EXCEPT ![t] = r]
  BY <1>2 DEF MutateStops
<1>5. Asking("undoing") = "rollback"
  BY DEF Asking
<1> QED BY <1>1, <1>3, <1>4, <1>5, SendsKeeps DEF Driving

\* A batch ends; its caller is told.
LEMMA BatchEnds ==
    ASSUME PgInv, NEW t \in Tasks, task[t].pc \in Driving, task[t].op = "mutate", task[t].answer # "none", Ends(t),
           UNCHANGED <<slots, sess, lock, actor, cursor, want, closed, promised, ledger, breaches>>,
           told' \in {"refused", "done", "unknown"}, AnswerIsTrue'
    PROVE  PgInv'
<1> USE Typed
<1>1. PICK s \in Sids : /\ s = task[Conn].sid /\ t = Conn /\ Drives(s)
                        /\ actor[s] \in ActorRecords /\ actor[s].queue = <<>> /\ actor[s].pc # "begin"
                        /\ actor[s].kind # "scan" /\ cursor[s] = "none" /\ cursor \in [Sids -> CursorStates]
                        /\ actor \in [Sids -> ActorRecords] /\ ActorPlace(s)
  BY Batched
<1>2. task' \in [Tasks -> TaskRecords] /\ (\A u \in Tasks \ {Conn} : task'[u] = task[u])
      /\ task'[Conn].pc = "idle" /\ task'[Conn].sid = 0
  BY <1>1, StepsTyped DEF Ends, Idle
<1>3. ~Drives(s)'
  BY <1>2 DEF Drives, Driving
<1>4. ActorPlace(s)'
  BY <1>1, <1>3 DEF ActorPlace
<1>5. Written(s)'
  BY <1>3 DEF Written
<1>6. LedgerPlace'
  <2>1. ledger # "partial"
    BY DEF PgInv, LedgerPlace, MutationIsWhole
  <2> QED BY <1>2, <2>1 DEF LedgerPlace, MutationIsWhole
<1>7. PICK a \in ActorRecords : a = actor[s]
  BY <1>1
<1>8. actor' = [actor EXCEPT ![s] = a] /\ a.pc = actor[s].pc
  BY <1>1, <1>7
<1>9. GoesOn
  BY <1>2 DEF GoesOn
<1> QED BY <1>1, <1>2, <1>4, <1>5, <1>6, <1>7, <1>8, <1>9, DriverKeeps

LEMMA MutateGivesUpKeeps == ASSUME PgInv, NEW t \in Tasks, MutateGivesUp(t) PROVE PgInv'
<1> USE Typed
<1>1. /\ task[t].pc = "executing" /\ task[t].op = "mutate" /\ task[t].answer = "one" /\ told' = "refused" /\ Ends(t)
      /\ UNCHANGED <<slots, sess, lock, actor, cursor, want, closed, promised, ledger, breaches>>
  BY DEF MutateGivesUp
<1>2. t = Conn
  BY <1>1, Requested DEF Driving
<1>3. ledger = "none"
  BY <1>1, <1>2 DEF PgInv, LedgerPlace
<1> QED BY <1>1, <1>3, BatchEnds DEF Driving, AnswerIsTrue

LEMMA MutateEndsKeeps == ASSUME PgInv, NEW t \in Tasks, MutateEnds(t) PROVE PgInv'
<1> USE Typed
<1>1. /\ task[t].pc \in {"committing", "undoing"} /\ task[t].answer # "none" /\ Ends(t)
      /\ UNCHANGED <<slots, sess, lock, actor, cursor, want, closed, promised, ledger, breaches>>
  BY DEF MutateEnds
<1>2. t = Conn /\ Drives(task[t].sid) /\ task[t].sid \in Sids
  BY <1>1, Requested DEF Driving
<1>3. task[t].op = "mutate"
  BY <1>1, <1>2, ActorTyped DEF ActorPlace
<1>4. LedgerPlace
  BY DEF PgInv
<1>5. CASE task[t].pc = "undoing"
  <2>1. told' = "refused"
    BY <1>5 DEF MutateEnds
  <2>2. ledger = "none"
    BY <1>1, <1>2, <1>3, <1>4, <1>5 DEF LedgerPlace
  <2> QED BY <1>1, <1>3, <2>1, <2>2, BatchEnds DEF Driving, AnswerIsTrue
<1>6. CASE task[t].pc = "committing" /\ task[t].answer = "ok"
  <2>1. told' = "done"
    BY <1>6 DEF MutateEnds
  <2>2. ledger = "whole"
    BY <1>2, <1>4, <1>6 DEF LedgerPlace
  <2> QED BY <1>1, <1>3, <2>1, <2>2, BatchEnds DEF Driving, AnswerIsTrue
<1>7. CASE task[t].pc = "committing" /\ task[t].answer # "ok"
  <2>1. told' = "unknown"
    BY <1>7 DEF MutateEnds
  <2> QED BY <1>1, <1>3, <2>1, BatchEnds DEF Driving, AnswerIsTrue
<1> QED BY <1>1, <1>5, <1>6, <1>7

-----------------------------------------------------------------------------
(* Cursors *)

\* A cursor that is open has a scan's actor, and no request drives it.
LEMMA Reads ==
    ASSUME PgInv, NEW s \in Sids, cursor[s] # "none",
           NEW a \in ActorRecords, actor' = [actor EXCEPT ![s] = a],
           a.pc = actor[s].pc, a.kind = actor[s].kind,
           NEW c \in CursorStates, cursor' = [cursor EXCEPT ![s] = c],
           \A i \in DOMAIN a.queue : a.queue[i] # "commit",
           (\E i \in DOMAIN a.queue : a.queue[i] = "rollback") => c \in {"closing", "none"},
           UNCHANGED <<slots, sess, lock, task, want, closed, promised, ledger, told, breaches>>
    PROVE  PgInv'
<1> USE Typed
<1>1. /\ ActorPlace(s) /\ Written(s) /\ LedgerPlace /\ actor[s] \in ActorRecords /\ cursor \in [Sids -> CursorStates]
      /\ (lock[s] = "actor" <=> actor[s].pc # "none") /\ actor \in [Sids -> ActorRecords] /\ TaskPlace(Conn)
  BY ActorTyped
<1>2. actor[s].kind = "scan" /\ ~Drives(s) /\ actor[s].pc \notin {"none", "leave", "begin"}
  BY <1>1 DEF ActorPlace, NoActor
<1>3. actor'[s] = a /\ cursor'[s] = c /\ cursor' \in [Sids -> CursorStates]
  BY <1>1
<1>4. ~Drives(s)'
  BY <1>2 DEF Drives
<1>5. ActorPlace(s)'
  BY <1>1, <1>2, <1>3, <1>4 DEF ActorPlace
<1>6. Written(s)'
  BY <1>4 DEF Written
<1>7. LedgerPlace' /\ TaskPlace(Conn)'
  BY <1>1 DEF LedgerPlace, MutationIsWhole, AnswerIsTrue, TaskPlace, Ops
<1>8. PgTypes'
  BY <1>1, <1>3, ActorTypes DEF PgInv
<1>9. \A q \in Sids : lock'[q] = Conn => LockPlace(q)'
  BY DEF PgInv, LockPlace
<1>10. GoesOn
  BY DEF GoesOn
<1>11. \A q \in Sids \ {s} : actor'[q] = actor[q] /\ cursor'[q] = cursor[q]
  BY <1>1
<1> QED BY <1>5, <1>6, <1>7, <1>8, <1>9, <1>10, <1>11, Driven

LEMMA ReaderKeeps == ASSUME PgInv, NEW s \in Sids, Reader(s) \/ Exhausted(s) PROVE PgInv'
<1> USE Typed
<1>1. /\ UNCHANGED <<slots, sess, lock, task, want, closed, promised, ledger, told, breaches>> /\ cursor[s] # "none"
  BY DEF Reader, NextBatch, Abandon, CloseCursor, DropCursor, Exhausted, CursorSends
<1>2. /\ ActorPlace(s) /\ actor[s] \in ActorRecords /\ actor \in [Sids -> ActorRecords]
  BY ActorTyped
<1>3. actor[s].kind = "scan"
  BY <1>1, <1>2 DEF ActorPlace
<1>4. PICK q \in Seq({"execute", "fetch", "rollback", "commit"}) : q = actor[s].queue
  BY <1>2 DEF ActorRecords
<1>5. /\ \A i \in DOMAIN q : q[i] # "commit"
      /\ (\E i \in DOMAIN q : q[i] = "rollback") => cursor[s] \in {"closing", "none"}
  BY <1>2, <1>3, <1>4 DEF ActorPlace
<1>6. ASSUME NEW c \in CursorStates, cursor' = [cursor EXCEPT ![s] = c], NEW cmd \in {"fetch", "rollback"},
             actor' = [actor EXCEPT ![s].queue = Append(@, cmd)],
             cmd = "rollback" => c = "closing", cursor[s] # "closing"
      PROVE  PgInv'
  <2>1. PICK a : a = [actor[s] EXCEPT !.queue = Append(q, cmd)]
    OBVIOUS
  <2>2. Append(q, cmd) \in Seq({"execute", "fetch", "rollback", "commit"})
    OBVIOUS
  <2>3. a \in ActorRecords /\ a.pc = actor[s].pc /\ a.kind = actor[s].kind /\ a.queue = Append(q, cmd)
    BY <1>2, <2>1, <2>2 DEF ActorRecords
  <2>4. actor' = [actor EXCEPT ![s] = a]
    BY <1>4, <1>6, <2>1
  <2>5. \A i \in DOMAIN a.queue : a.queue[i] # "commit"
    BY <1>5, <2>3
  <2>6. (\E i \in DOMAIN a.queue : a.queue[i] = "rollback") => c \in {"closing", "none"}
    BY <1>1, <1>5, <1>6, <2>3
  <2> QED BY <1>1, <1>6, <2>3, <2>4, <2>5, <2>6, Reads
<1>7. ASSUME NEW c \in CursorStates, cursor' = [cursor EXCEPT ![s] = c], UNCHANGED actor,
             cursor[s] = "closing" => c = "none"
      PROVE  PgInv'
  <2>1. PICK a \in ActorRecords : a = actor[s]
    BY <1>2
  <2>2. actor' = [actor EXCEPT ![s] = a]
    BY <1>2, <1>7, <2>1
  <2>3. /\ \A i \in DOMAIN a.queue : a.queue[i] # "commit"
        /\ (\E i \in DOMAIN a.queue : a.queue[i] = "rollback") => c \in {"closing", "none"}
    BY <1>1, <1>4, <1>5, <1>7, <2>1
  <2> QED BY <1>1, <1>7, <2>1, <2>2, <2>3, Reads
<1>8. CASE NextBatch(s)
  <2>1. cursor' = [cursor EXCEPT ![s] = "fetching"] /\ actor' = [actor EXCEPT ![s].queue = Append(@, "fetch")] /\ cursor[s] = "open"
    BY <1>8 DEF NextBatch, CursorSends
  <2> QED BY <1>6, <2>1 DEF CursorStates
<1>9. CASE CloseCursor(s) \/ Exhausted(s)
  <2>1. /\ cursor' = [cursor EXCEPT ![s] = "closing"] /\ actor' = [actor EXCEPT ![s].queue = Append(@, "rollback")]
        /\ cursor[s] # "closing"
    BY <1>9 DEF CloseCursor, Exhausted, CursorSends
  <2> QED BY <1>6, <2>1 DEF CursorStates
<1>10. CASE Abandon(s) \/ DropCursor(s)
  <2>1. CASE Abandon(s)
    BY <1>7, <2>1 DEF Abandon, CursorStates
  <2>2. CASE DropCursor(s)
    BY <1>7, <2>2 DEF DropCursor, CursorStates
  <2> QED BY <1>10, <2>1, <2>2
<1> QED BY <1>8, <1>9, <1>10 DEF Reader

-----------------------------------------------------------------------------
(* The actor *)

\* An answer, as the request or the cursor of the session gets it.
LEMMA Answered ==
    ASSUME PgInv, NEW s \in Sids, NEW word \in Words, Answers(s, word)
    PROVE  /\ task' \in [Tasks -> TaskRecords] /\ cursor' \in [Sids -> CursorStates]
           /\ \A u \in Tasks \ {Conn} : task'[u] = task[u]
           /\ task'[Conn] = IF Drives(s) THEN [task[Conn] EXCEPT !.answer = word] ELSE task[Conn]
           /\ \A q \in Sids \ {s} : cursor'[q] = cursor[q]
           /\ cursor'[s] = "none" \/ (cursor'[s] \in {"open", "last"} /\ cursor[s] = "fetching") \/ cursor'[s] = cursor[s]
           /\ cursor[s] = "none" => cursor'[s] = "none"
           /\ cursor[s] = "closing" /\ Head(actor[s].queue) = "rollback" => cursor'[s] = "none"
           /\ cursor[s] = "closing" => cursor'[s] \in {"none", "closing"}
<1> USE Typed
<1>1. \A t \in Tasks : task'[t] = IF t \in Waits(s) THEN [task[t] EXCEPT !.answer = word] ELSE task[t]
  BY DEF Answers
<1>2. Waits(s) = IF Drives(s) THEN {Conn} ELSE {}
  BY OnlyConnWaits
<1>3. cursor \in [Sids -> CursorStates]
  BY ActorTyped
<1>4. task' \in [Tasks -> TaskRecords]
  <2>1. \A r \in TaskRecords : [r EXCEPT !.answer = word] \in TaskRecords
    BY DEF TaskRecords
  <2>2. ASSUME NEW t \in Tasks PROVE (IF t \in Waits(s) THEN [task[t] EXCEPT !.answer = word] ELSE task[t]) \in TaskRecords
    BY <2>1
  <2> QED BY <2>2 DEF Answers
<1>5. PICK c : /\ cursor' = [cursor EXCEPT ![s] = c]
               /\ c = CASE cursor[s] = "fetching" /\ word \in {"rows", "error"} -> "open"
                        [] cursor[s] = "fetching" /\ word = "last" -> "last"
                        [] cursor[s] = "closing" /\ Head(actor[s].queue) = "rollback" -> "none"
                        [] OTHER -> cursor[s]
  BY DEF Answers
<1>6. /\ c = "none" \/ (c \in {"open", "last"} /\ cursor[s] = "fetching") \/ c = cursor[s]
      /\ cursor[s] = "none" => c = "none"
      /\ cursor[s] = "closing" /\ Head(actor[s].queue) = "rollback" => c = "none"
      /\ cursor[s] = "closing" => c \in {"none", "closing"}
  BY <1>5
<1>7. cursor'[s] = c /\ cursor' \in [Sids -> CursorStates] /\ \A q \in Sids \ {s} : cursor'[q] = cursor[q]
  <2>1. c \in CursorStates
    BY <1>3, <1>6 DEF CursorStates
  <2> QED BY <1>3, <1>5, <2>1
<1> QED BY <1>1, <1>2, <1>4, <1>6, <1>7

\* A step of an actor by what it answers, or that answers nothing.
LEMMA ActorMoves ==
    ASSUME PgInv, NEW s \in Sids, actor[s].pc # "none", NEW a \in ActorRecords, actor' = [actor EXCEPT ![s] = a],
           a.pc # "none", UNCHANGED <<slots, sess, lock, want, closed, promised, told>>,
           \/ UNCHANGED <<cursor, task>>
           \/ \E word \in Words : Answers(s, word),
           ledger' \in {"none", "whole", "partial"}, "statement" \notin breaches',
           ActorPlace(s)', Written(s)', LedgerPlace'
    PROVE  PgInv'
<1> USE Typed
<1>1. /\ actor \in [Sids -> ActorRecords] /\ cursor \in [Sids -> CursorStates]
      /\ lock[s] = "actor" /\ TaskPlace(Conn) /\ task[Conn] \in TaskRecords
  BY ActorTyped
<1>2. /\ task' \in [Tasks -> TaskRecords] /\ cursor' \in [Sids -> CursorStates]
      /\ \A u \in Tasks \ {Conn} : task'[u] = task[u]
      /\ \A q \in Sids \ {s} : cursor'[q] = cursor[q]
      /\ task'[Conn] = task[Conn]
           \/ (Drives(s) /\ \E word \in Words : task'[Conn] = [task[Conn] EXCEPT !.answer = word])
  <2>1. CASE UNCHANGED <<cursor, task>>
    BY <1>1, <2>1
  <2>2. CASE \E word \in Words : Answers(s, word)
    BY <2>2, Answered
  <2> QED BY <2>1, <2>2
<1>3. /\ task'[Conn].pc = task[Conn].pc /\ task'[Conn].op = task[Conn].op /\ task'[Conn].sid = task[Conn].sid
      /\ task'[Conn].sure = task[Conn].sure
      /\ task'[Conn] = task[Conn] \/ (Drives(s) /\ task[Conn].sid = s)
  BY <1>1, <1>2 DEF TaskRecords, Drives
<1>4. PgTypes'
  BY <1>1, <1>2, ActorTypes DEF PgInv
<1>5. TaskPlace(Conn)'
  BY <1>1, <1>3 DEF TaskPlace, Ops
<1>6. \A q \in Sids : lock'[q] = Conn => LockPlace(q)'
  BY <1>3 DEF PgInv, LockPlace
<1>7. GoesOn
  BY <1>3 DEF GoesOn
<1>8. \A q \in Sids \ {s} : actor'[q] = actor[q]
  BY <1>1
<1>9. task'[Conn].pc = "has" => task'[Conn] = task[Conn]
  BY <1>3 DEF Drives, Driving
<1> QED BY <1>2, <1>3, <1>4, <1>5, <1>6, <1>7, <1>8, <1>9, Driven

Commands == {"execute", "fetch", "rollback", "commit"}

\* What an actor that has commands knows: a batch's actor has one, from the request that waits.
HasCommands(s, q) ==
    /\ q = actor[s].queue /\ Tail(q) \in Seq(Commands) /\ Head(q) \in Commands /\ q # <<>>
    /\ Pop(s) = [actor[s] EXCEPT !.queue = Tail(q)] /\ Pop(s) \in ActorRecords
    /\ Pop(s).queue = Tail(q) /\ Pop(s).kind = actor[s].kind /\ Pop(s).pc = actor[s].pc
    /\ Pop(s).wrote = actor[s].wrote /\ Pop(s).good = actor[s].good
    /\ \A i \in DOMAIN Tail(q) : i + 1 \in DOMAIN q /\ Tail(q)[i] = q[i + 1]
    /\ Head(q) = q[1] /\ 1 \in DOMAIN q
    /\ actor[s].kind \in {"scan", "mutate"}
    /\ actor[s].kind = "mutate" => Drives(s) /\ cursor[s] = "none"
    /\ Drives(s) => /\ task[Conn].answer = "none" /\ q = <<Asking(task[Conn].pc)>> /\ Tail(q) = <<>>
                    /\ actor[s].kind = task[Conn].op /\ cursor[s] = "none"
                    /\ task[Conn].pc \in Driving /\ (task[Conn].pc # "executing" => actor[s].kind = "mutate")

LEMMA Commanded ==
    ASSUME PgInv, NEW s \in Sids, actor[s].pc \in {"run", "broken"}, actor[s].queue # <<>>
    PROVE  \E q \in Seq(Commands) : HasCommands(s, q)
<1>1. actor[s] \in ActorRecords /\ ActorPlace(s)
  BY ActorTyped
<1>2. PICK q \in Seq(Commands) : q = actor[s].queue
  BY <1>1 DEF ActorRecords, Commands
<1>3. Tail(q) \in Seq(Commands) /\ Head(q) \in Commands /\ q # <<>> /\ Head(q) = q[1] /\ 1 \in DOMAIN q
  BY <1>2
<1>4. \A i \in DOMAIN Tail(q) : i + 1 \in DOMAIN q /\ Tail(q)[i] = q[i + 1]
  BY <1>3
<1>5. Pop(s) = [actor[s] EXCEPT !.queue = Tail(q)]
  BY <1>2 DEF Pop
<1>6. /\ Pop(s) \in ActorRecords
      /\ Pop(s).queue = Tail(q) /\ Pop(s).kind = actor[s].kind /\ Pop(s).pc = actor[s].pc
      /\ Pop(s).wrote = actor[s].wrote /\ Pop(s).good = actor[s].good
  BY <1>1, <1>3, <1>5 DEF ActorRecords, Commands
<1>7. /\ actor[s].kind \in {"scan", "mutate"}
      /\ actor[s].kind = "mutate" => Drives(s) /\ cursor[s] = "none"
  BY <1>1 DEF ActorPlace
<1>8. Drives(s) => /\ task[Conn].answer = "none" /\ q = <<Asking(task[Conn].pc)>>
                   /\ actor[s].kind = task[Conn].op /\ cursor[s] = "none"
  BY <1>1, <1>2 DEF ActorPlace
<1>9. ASSUME Drives(s) PROVE Tail(q) = <<>>
  <2>1. PICK x \in Commands : q = <<x>>
    BY <1>3, <1>8, <1>9
  <2> QED BY <2>1
<1>10. Drives(s) => task[Conn].pc \in Driving /\ (task[Conn].pc # "executing" => actor[s].kind = "mutate")
  BY <1>1, <1>7 DEF ActorPlace, Drives
<1> QED BY <1>2, <1>3, <1>4, <1>5, <1>6, <1>7, <1>8, <1>9, <1>10 DEF HasCommands

LEMMA BeginKeeps == ASSUME PgInv, NEW s \in Sids, Begin(s) PROVE PgInv'
<1> USE Typed
<1>1. /\ actor[s].pc = "begin"
      /\ UNCHANGED <<slots, sess, lock, cursor, task, want, closed, promised, ledger, told, breaches>>
  BY DEF Begin
<1>2. PICK p \in {"run", "broken"} : actor' = [actor EXCEPT ![s].pc = p]
  BY DEF Begin
<1>3. /\ actor \in [Sids -> ActorRecords] /\ actor[s] \in ActorRecords /\ ActorPlace(s) /\ Written(s) /\ LedgerPlace
  BY ActorTyped
<1>4. PICK a : a = [actor[s] EXCEPT !.pc = p]
  OBVIOUS
<1>5. /\ a \in ActorRecords /\ a.pc = p /\ a.kind = actor[s].kind /\ a.queue = actor[s].queue
      /\ a.wrote = actor[s].wrote /\ a.good = actor[s].good
  BY <1>3, <1>4 DEF ActorRecords
<1>6. actor' = [actor EXCEPT ![s] = a] /\ actor'[s] = a
  BY <1>2, <1>3, <1>4
<1>7. Drives(s) <=> Drives(s)'
  BY <1>1 DEF Drives
<1>8. ActorPlace(s)'
  BY <1>1, <1>3, <1>5, <1>6, <1>7 DEF ActorPlace
<1>9. Written(s)'
  BY <1>1, <1>3, <1>5, <1>6, <1>7 DEF Written
<1>10. LedgerPlace'
  BY <1>1, <1>3 DEF LedgerPlace, MutationIsWhole, AnswerIsTrue
<1> QED BY <1>1, <1>5, <1>6, <1>8, <1>9, <1>10, ActorMoves

\* A command that has been answered with what is not a commit's answer.
LEMMA AnswersOn ==
    ASSUME PgInv, NEW s \in Sids, actor[s].pc \in {"run", "broken"}, actor[s].queue # <<>>,
           NEW word \in Words, Answers(s, word), word \notin {"none", "ok"},
           NEW a \in ActorRecords, actor' = [actor EXCEPT ![s] = a],
           a.pc = actor[s].pc, a.kind = actor[s].kind, a.queue = Tail(actor[s].queue),
           word = "one" => /\ task[Conn].pc = "executing"
                           /\ task[Conn].op = "mutate" => a.wrote = actor[s].wrote + 1 /\ (actor[s].good => a.good),
           UNCHANGED <<slots, sess, lock, want, closed, promised, ledger, told, breaches>>
    PROVE  PgInv'
<1> USE Typed
<1>a. PICK q \in Seq(Commands) : HasCommands(s, q)
  BY Commanded
<1>1. /\ q = actor[s].queue /\ Tail(q) \in Seq(Commands)
      /\ \A i \in DOMAIN Tail(q) : i + 1 \in DOMAIN q /\ Tail(q)[i] = q[i + 1]
      /\ actor[s].kind \in {"scan", "mutate"}
      /\ actor[s].kind = "mutate" => Drives(s) /\ cursor[s] = "none"
      /\ Drives(s) => /\ task[Conn].answer = "none" /\ Tail(q) = <<>>
                      /\ actor[s].kind = task[Conn].op /\ cursor[s] = "none"
  BY <1>a DEF HasCommands
<1>2. /\ actor \in [Sids -> ActorRecords] /\ ActorPlace(s) /\ Written(s) /\ LedgerPlace /\ task[Conn] \in TaskRecords
  BY ActorTyped
<1>3. /\ task'[Conn] = IF Drives(s) THEN [task[Conn] EXCEPT !.answer = word] ELSE task[Conn]
      /\ cursor'[s] = "none" \/ (cursor'[s] \in {"open", "last"} /\ cursor[s] = "fetching") \/ cursor'[s] = cursor[s]
      /\ cursor[s] = "none" => cursor'[s] = "none"
      /\ cursor[s] = "closing" => cursor'[s] \in {"none", "closing"}
  BY Answered
<1>4. /\ task'[Conn].pc = task[Conn].pc /\ task'[Conn].op = task[Conn].op /\ task'[Conn].sid = task[Conn].sid
      /\ task'[Conn].asked = task[Conn].asked
      /\ task'[Conn].answer = IF Drives(s) THEN word ELSE task[Conn].answer
  BY <1>2, <1>3 DEF TaskRecords
<1>5. actor'[s] = a /\ a.queue = Tail(q)
  BY <1>1, <1>2
<1>6. Drives(s)' <=> Drives(s)
  BY <1>4 DEF Drives
<1>7. ActorPlace(s)'
  <2>1. CASE Drives(s)
    <3>1. a.pc \notin {"none", "leave", "begin"} /\ a.kind = task[Conn].op /\ a.queue = <<>> /\ cursor'[s] = "none"
      BY <1>1, <1>3, <1>5, <2>1
    <3>2. task[Conn].pc # "executing" => task[Conn].op = "mutate" /\ a.kind # "scan"
      BY <1>2, <2>1 DEF ActorPlace
    <3>3. a.kind \in {"scan", "mutate"}
      BY <1>1
    <3> QED BY <1>4, <1>5, <1>6, <2>1, <3>1, <3>2, <3>3 DEF ActorPlace
  <2>2. CASE ~Drives(s)
    <3>1. a.pc \notin {"none", "leave", "begin"} /\ a.kind = "scan"
      BY <1>1, <2>2
    <3>2. \A i \in DOMAIN a.queue : a.queue[i] # "commit"
      BY <1>1, <1>2, <1>5, <3>1 DEF ActorPlace
    <3>3. (\E i \in DOMAIN a.queue : a.queue[i] = "rollback") => cursor'[s] \in {"closing", "none"}
      BY <1>1, <1>2, <1>3, <1>5, <3>1 DEF ActorPlace
    <3>4. /\ actor'[s].pc \notin {"none", "leave", "begin"} /\ actor'[s].kind = "scan"
          /\ \A i \in DOMAIN actor'[s].queue : actor'[s].queue[i] # "commit"
          /\ (\E i \in DOMAIN actor'[s].queue : actor'[s].queue[i] = "rollback") => cursor'[s] \in {"closing", "none"}
      BY ONLY <1>5, <3>1, <3>2, <3>3
    <3>5. ~Drives(s)'
      BY <1>6, <2>2
    <3> QED BY ONLY <3>4, <3>5 DEF ActorPlace
  <2> QED BY <2>1, <2>2
<1>8. Written(s)'
  <2> SUFFICES ASSUME Drives(s), task[Conn].op = "mutate" PROVE Written(s)'
    BY <1>4, <1>6 DEF Written
  <2>1. task'[Conn].answer = word /\ task[Conn].answer = "none"
    BY <1>1, <1>4
  <2>2. task[Conn].pc = "executing" => task[Conn].asked < BatchSize /\ actor[s].wrote = task[Conn].asked /\ actor[s].good
    BY <1>2, <2>1 DEF Written
  <2>3. word = "one" => a.wrote = task[Conn].asked + 1 /\ a.good
    BY <2>2
  <2> QED BY <1>4, <1>5, <2>1, <2>2, <2>3 DEF Written
<1>9. LedgerPlace'
  BY <1>1, <1>2, <1>4 DEF LedgerPlace, MutationIsWhole, AnswerIsTrue
<1> QED BY <1>1, <1>7, <1>8, <1>9, ActorMoves

LEMMA FailsKeeps ==
    ASSUME PgInv, NEW s \in Sids, actor[s].pc \in {"run", "broken"}, actor[s].queue # <<>>, ActorFails(s),
           UNCHANGED <<slots, sess, lock, want, closed, promised, ledger, told, breaches>>
    PROVE  PgInv'
<1>1. PICK q \in Seq(Commands) : HasCommands(s, q)
  BY Commanded
<1>2. PICK a : a = Pop(s)
  OBVIOUS
<1>3. a \in ActorRecords /\ a.pc = actor[s].pc /\ a.kind = actor[s].kind /\ a.queue = Tail(actor[s].queue)
  BY <1>1, <1>2 DEF HasCommands
<1>4. Answers(s, "error") /\ actor' = [actor EXCEPT ![s] = a] /\ "error" \in Words
  BY <1>2 DEF ActorFails, Words
<1> QED BY <1>3, <1>4, AnswersOn

LEMMA ReadsKeeps ==
    ASSUME PgInv, NEW s \in Sids, actor[s].pc = "run", actor[s].queue # <<>>, ActorReads(s),
           UNCHANGED <<slots, sess, lock, want, closed, promised, ledger, told, breaches>>
    PROVE  PgInv'
<1>1. PICK q \in Seq(Commands) : HasCommands(s, q)
  BY Commanded
<1>2. PICK a : a = Pop(s)
  OBVIOUS
<1>3. a \in ActorRecords /\ a.pc = actor[s].pc /\ a.kind = actor[s].kind /\ a.queue = Tail(actor[s].queue)
  BY <1>1, <1>2 DEF HasCommands
<1>4. PICK word \in {"portal", "rows", "last"} : Answers(s, word) /\ actor' = [actor EXCEPT ![s] = a]
  BY <1>2 DEF ActorReads
<1>5. word \in Words
  BY DEF Words
<1> QED BY <1>3, <1>4, <1>5, AnswersOn

LEMMA WritesKeeps ==
    ASSUME PgInv, NEW s \in Sids, actor[s].pc = "run", actor[s].queue # <<>>, Head(actor[s].queue) = "execute",
           ActorWrites(s), UNCHANGED <<slots, sess, lock, want, closed, promised, ledger, told, breaches>>
    PROVE  PgInv'
<1>1. PICK q \in Seq(Commands) : HasCommands(s, q)
  BY Commanded
<1>2. PICK hit \in {"one", "other"} :
        /\ Answers(s, hit)
        /\ actor' = [actor EXCEPT ![s] = [Pop(s) EXCEPT !.wrote = @ + 1, !.good = @ /\ hit = "one"]]
  BY DEF ActorWrites
<1>3. Drives(s) /\ actor[s].kind = "mutate" /\ task[Conn].op = "mutate"
  BY <1>1 DEF HasCommands, ActorWrites
<1>4. task[Conn].pc = "executing" /\ task[Conn].answer = "none"
  <2>1. Head(<<Asking(task[Conn].pc)>>) = Asking(task[Conn].pc)
    OBVIOUS
  <2>2. Asking(task[Conn].pc) = "execute" /\ task[Conn].answer = "none"
    BY <1>1, <1>3, <2>1 DEF HasCommands
  <2> QED BY <1>3, <2>2 DEF Asking, Drives, Driving
<1>5. actor[s].wrote = task[Conn].asked /\ task[Conn].asked < BatchSize
  BY <1>3, <1>4, ActorTyped DEF Written
<1>6. task[Conn].asked \in 0 .. BatchSize
  BY ActorTyped DEF TaskRecords
<1>7. PICK n \in 0 .. BatchSize : n = actor[s].wrote + 1
  BY <1>5, <1>6, PgBounds
<1>8. PICK b \in BOOLEAN : b = (Pop(s).good /\ hit = "one")
  OBVIOUS
<1>9. PICK a : a = [Pop(s) EXCEPT !.wrote = n, !.good = b]
  OBVIOUS
<1>10. /\ a \in ActorRecords /\ a.pc = actor[s].pc /\ a.kind = actor[s].kind /\ a.queue = Tail(actor[s].queue)
       /\ a.wrote = n /\ a.good = b
  BY <1>1, <1>9 DEF HasCommands, ActorRecords
<1>11. actor' = [actor EXCEPT ![s] = a]
  <2>1. Pop(s).wrote + 1 = n
    BY <1>1, <1>7 DEF HasCommands
  <2> QED BY <1>2, <1>8, <1>9, <2>1
<1>12. hit = "one" => a.wrote = actor[s].wrote + 1 /\ (actor[s].good => a.good)
  BY <1>1, <1>7, <1>8, <1>10 DEF HasCommands
<1>13. hit \in Words /\ hit \notin {"none", "ok"}
  BY DEF Words
<1> QED BY <1>2, <1>4, <1>10, <1>11, <1>12, <1>13, AnswersOn

LEMMA ExecuteKeeps == ASSUME PgInv, NEW s \in Sids, Execute(s) \/ Broken(s) PROVE PgInv'
<1>1. /\ actor[s].pc \in {"run", "broken"} /\ actor[s].queue # <<>>
      /\ UNCHANGED <<slots, sess, lock, want, closed, promised, ledger, told, breaches>>
  BY DEF Execute, Broken
<1>2. CASE actor[s].pc = "run" /\ Head(actor[s].queue) = "execute" /\ ActorWrites(s)
  BY <1>1, <1>2, WritesKeeps
<1>3. CASE actor[s].pc = "run" /\ ActorReads(s)
  BY <1>1, <1>3, ReadsKeeps
<1>4. CASE ActorFails(s)
  BY <1>1, <1>4, FailsKeeps
<1> QED BY <1>2, <1>3, <1>4 DEF Execute, Broken

\* An actor that leaves has nothing left to do, and nobody who waits for it.
LEMMA LeavesKeeps ==
    ASSUME PgInv, NEW s \in Sids, actor[s].pc \in {"run", "broken"},
           actor' = [actor EXCEPT ![s] = [NoActor EXCEPT !.pc = "leave"]],
           UNCHANGED <<slots, sess, lock, want, closed, promised, told>>,
           \/ UNCHANGED <<cursor, task>> /\ cursor[s] = "none" /\ ~Drives(s)
           \/ \E word \in {"ok", "error"} : Answers(s, word) /\ cursor'[s] = "none",
           Drives(s) => task[Conn].pc # "executing",
           ledger' \in {"none", "whole", "partial"}, "statement" \notin breaches', LedgerPlace'
    PROVE  PgInv'
<1>1. PICK a : a = [NoActor EXCEPT !.pc = "leave"]
  OBVIOUS
<1>2. a \in ActorRecords /\ a.pc = "leave" /\ a.kind = "none" /\ a.queue = <<>>
  <2>1. a = [pc |-> "leave", kind |-> "none", queue |-> <<>>, wrote |-> 0, good |-> TRUE]
    BY <1>1 DEF NoActor
  <2>2. <<>> \in Seq({"execute", "fetch", "rollback", "commit"}) /\ 0 \in 0 .. BatchSize
    BY PgBounds
  <2> QED BY <2>1, <2>2 DEF ActorRecords
<1>3. actor \in [Sids -> ActorRecords] /\ ActorPlace(s) /\ task[Conn] \in TaskRecords
  BY ActorTyped
<1>4. actor' = [actor EXCEPT ![s] = a] /\ actor'[s] = a
  BY <1>1, <1>3
<1>5. /\ cursor'[s] = "none" /\ task'[Conn].pc = task[Conn].pc /\ task'[Conn].op = task[Conn].op
      /\ task'[Conn].sid = task[Conn].sid
      /\ Drives(s) => task'[Conn].answer \in {"ok", "error"}
  <2>1. CASE UNCHANGED <<cursor, task>> /\ cursor[s] = "none" /\ ~Drives(s)
    BY <2>1
  <2>2. ASSUME NEW word \in {"ok", "error"}, Answers(s, word), cursor'[s] = "none" PROVE <1>5
    <3>1. task'[Conn] = IF Drives(s) THEN [task[Conn] EXCEPT !.answer = word] ELSE task[Conn]
      BY <2>2, Answered DEF Words
    <3> QED BY <1>3, <2>2, <3>1 DEF TaskRecords
  <2> QED BY <2>1, <2>2
<1>6. Drives(s)' <=> Drives(s)
  BY <1>5 DEF Drives
<1>7. ActorPlace(s)'
  <2>1. Drives(s) => task[Conn].op = "mutate"
    BY <1>3 DEF ActorPlace
  <2> QED BY <1>2, <1>4, <1>5, <1>6, <2>1 DEF ActorPlace
<1>8. Written(s)'
  <2>1. Drives(s) => task'[Conn].pc # "executing" /\ task'[Conn].answer # "none"
    BY <1>5
  <2> QED BY <1>6, <2>1 DEF Written
<1>9. UNCHANGED <<cursor, task>> \/ \E word \in Words : Answers(s, word)
  BY DEF Words
<1> QED BY <1>2, <1>4, <1>7, <1>8, <1>9, ActorMoves

\* Whoever commits is driven by a request that has no answer, has written all of its batch
\* and has not saved it yet.
LEMMA CommitIsDue ==
    ASSUME PgInv, NEW s \in Sids, Commit(s)
    PROVE  /\ Drives(s) /\ cursor[s] = "none" /\ task[Conn].op = "mutate"
           /\ task[Conn].pc = "committing" /\ task[Conn].answer = "none"
           /\ Saved(s) = "whole" /\ ledger = "none" /\ told = "none"
<1> USE Typed
<1>1. actor[s].pc = "run" /\ actor[s].queue # <<>> /\ Head(actor[s].queue) = "commit"
  BY DEF Commit
<1>2. PICK q \in Seq(Commands) : HasCommands(s, q)
  BY <1>1, Commanded
<1>3. actor[s].kind = "mutate"
  <2>1. q[1] = "commit" /\ 1 \in DOMAIN q /\ actor[s].kind \in {"scan", "mutate"} /\ q = actor[s].queue
    BY <1>1, <1>2 DEF HasCommands
  <2> QED BY <2>1, ActorTyped DEF ActorPlace
<1>4. Drives(s) /\ cursor[s] = "none" /\ task[Conn].op = "mutate" /\ task[Conn].answer = "none"
  BY <1>2, <1>3 DEF HasCommands
<1>5. task[Conn].pc = "committing"
  <2>1. Head(<<Asking(task[Conn].pc)>>) = Asking(task[Conn].pc)
    OBVIOUS
  <2>2. Asking(task[Conn].pc) = "commit"
    BY <1>1, <1>2, <1>4, <2>1 DEF HasCommands
  <2> QED BY <1>4, <2>2 DEF Asking, Drives, Driving
<1>6. actor[s].wrote = BatchSize /\ actor[s].good
  BY <1>4, <1>5, ActorTyped DEF Written
<1>7. ledger = "none" /\ told = "none"
  BY <1>4, <1>5 DEF PgInv, LedgerPlace
<1> QED BY <1>4, <1>5, <1>6, <1>7 DEF Saved

LEMMA CommitKeeps == ASSUME PgInv, NEW s \in Sids, Commit(s) PROVE PgInv'
<1> USE Typed
<1>1. /\ actor[s].pc = "run" /\ actor[s].queue # <<>> /\ Head(actor[s].queue) = "commit"
      /\ actor' = [actor EXCEPT ![s] = [NoActor EXCEPT !.pc = "leave"]]
      /\ UNCHANGED <<slots, sess, lock, want, closed, promised, told>>
  BY DEF Commit
<1>2. /\ Drives(s) /\ cursor[s] = "none" /\ task[Conn].op = "mutate" /\ task[Conn].answer = "none"
      /\ task[Conn].pc = "committing" /\ Saved(s) = "whole" /\ told = "none"
  BY CommitIsDue
<1>3. PICK word \in {"ok", "error"} : /\ Answers(s, word) /\ ledger' \in {ledger, "whole"}
                                      /\ word = "ok" => ledger' = "whole"
                                      /\ breaches' \in {breaches, breaches \cup {"mutate"}}
  BY <1>2 DEF Commit
<1>4. /\ task'[Conn] = [task[Conn] EXCEPT !.answer = word] /\ cursor'[s] = "none"
  <2>1. word \in Words
    BY DEF Words
  <2>2. /\ task'[Conn] = IF Drives(s) THEN [task[Conn] EXCEPT !.answer = word] ELSE task[Conn]
        /\ cursor[s] = "none" => cursor'[s] = "none"
    BY <1>3, <2>1, Answered
  <2> QED BY <1>2, <2>2
<1>5. task'[Conn].pc = "committing" /\ task'[Conn].op = "mutate" /\ task'[Conn].answer = word
  <2>1. task[Conn] \in TaskRecords
    BY ActorTyped
  <2> QED BY <1>2, <1>4, <2>1 DEF TaskRecords
<1>6. LedgerPlace'
  <2>1. told = "none" /\ ledger # "partial"
    BY <1>2 DEF PgInv, LedgerPlace, MutationIsWhole
  <2> QED BY <1>1, <1>3, <1>5, <2>1 DEF LedgerPlace, MutationIsWhole, AnswerIsTrue
<1>7. "statement" \notin breaches' /\ ledger' \in {"none", "whole", "partial"}
  BY <1>3
<1> QED BY <1>1, <1>2, <1>3, <1>4, <1>6, <1>7, LeavesKeeps

LEMMA RollbackKeeps == ASSUME PgInv, NEW s \in Sids, Rollback(s) PROVE PgInv'
<1> USE Typed
<1>1. /\ actor[s].pc = "run" /\ actor[s].queue # <<>> /\ Head(actor[s].queue) = "rollback" /\ Answers(s, "ok")
      /\ actor' = [actor EXCEPT ![s] = [NoActor EXCEPT !.pc = "leave"]]
      /\ UNCHANGED <<slots, sess, lock, want, closed, promised, ledger, told, breaches>>
  BY DEF Rollback
<1>2. PICK q \in Seq(Commands) : HasCommands(s, q)
  BY <1>1, Commanded
<1>3. Drives(s) => task[Conn].pc = "undoing" /\ task[Conn].op = "mutate"
  <2> SUFFICES ASSUME Drives(s) PROVE task[Conn].pc = "undoing" /\ task[Conn].op = "mutate"
    OBVIOUS
  <2>1. Head(<<Asking(task[Conn].pc)>>) = Asking(task[Conn].pc)
    OBVIOUS
  <2>2. Asking(task[Conn].pc) = "rollback" /\ actor[s].kind = task[Conn].op
    BY <1>1, <1>2, <2>1 DEF HasCommands
  <2>3. task[Conn].pc = "undoing"
    BY <2>2 DEF Asking, Drives, Driving
  <2> QED BY <2>3, ActorTyped DEF ActorPlace
<1>4. cursor'[s] = "none"
  <2>1. /\ cursor[s] = "none" => cursor'[s] = "none"
        /\ cursor[s] = "closing" => cursor'[s] = "none"
    BY <1>1, Answered DEF Words
  <2>2. cursor[s] \in {"none", "closing"}
    <3>1. q[1] = "rollback" /\ 1 \in DOMAIN q /\ q = actor[s].queue
      BY <1>1, <1>2 DEF HasCommands
    <3> QED BY <3>1, ActorTyped DEF ActorPlace
  <2> QED BY <2>1, <2>2
<1>5. LedgerPlace'
  <2>1. task'[Conn] = IF Drives(s) THEN [task[Conn] EXCEPT !.answer = "ok"] ELSE task[Conn]
    BY <1>1, Answered DEF Words
  <2>2. LedgerPlace /\ task[Conn] \in TaskRecords
    BY ActorTyped
  <2>3. CASE Drives(s)
    <3>1. task'[Conn].pc = "undoing" /\ task'[Conn].op = "mutate"
      BY <1>3, <2>1, <2>2, <2>3 DEF TaskRecords
    <3>2. told = "none" /\ ledger = "none"
      BY <1>3, <2>2, <2>3 DEF LedgerPlace
    <3> QED BY <1>1, <3>1, <3>2 DEF LedgerPlace, MutationIsWhole, AnswerIsTrue
  <2>4. CASE ~Drives(s)
    BY <1>1, <2>1, <2>2, <2>4 DEF LedgerPlace, MutationIsWhole, AnswerIsTrue
  <2> QED BY <2>3, <2>4
<1> QED BY <1>1, <1>3, <1>4, <1>5, LeavesKeeps

LEMMA HangUpKeeps == ASSUME PgInv, NEW s \in Sids, HangUp(s) PROVE PgInv'
<1> USE Typed
<1>1. /\ actor[s].pc \in {"run", "broken"} /\ ~Held(s)
      /\ actor' = [actor EXCEPT ![s] = [NoActor EXCEPT !.pc = "leave"]]
      /\ UNCHANGED <<slots, sess, lock, cursor, task, want, closed, promised, ledger, told, breaches>>
  BY DEF HangUp
<1>2. lock[s] = "actor"
  BY <1>1, ActorTyped
<1>3. cursor[s] = "none" /\ ~Drives(s)
  BY <1>1, <1>2 DEF Held, Drives
<1>4. LedgerPlace'
  BY <1>1 DEF PgInv, LedgerPlace, MutationIsWhole, AnswerIsTrue
<1> QED BY <1>1, <1>3, <1>4, LeavesKeeps

LEMMA LeaveKeeps == ASSUME PgInv, NEW s \in Sids, Leave(s) PROVE PgInv'
<1> USE Typed
<1>1. /\ actor[s].pc = "leave" /\ GiveBack(s) /\ actor' = [actor EXCEPT ![s] = NoActor]
      /\ UNCHANGED <<slots, cursor, task, want, closed, promised, ledger, told, breaches>>
  BY DEF Leave
<1>2. /\ ActorPlace(s) /\ Written(s) /\ lock[s] = "actor" /\ actor \in [Sids -> ActorRecords]
      /\ cursor \in [Sids -> CursorStates] /\ TaskPlace(Conn)
  BY <1>1, ActorTyped
<1>3. lock' = [lock EXCEPT ![s] = "free"]
  BY <1>1 DEF GiveBack
<1>4. sess' \in [Sids -> SessRecords] /\ sess'[s] \in {sess[s], NoSession} /\ \A q \in Sids : q # s => sess'[q] = sess[q]
  <2>1. sess' = sess \/ sess' = [sess EXCEPT ![s] = NoSession]
    BY <1>1 DEF GiveBack
  <2>2. NoSession \in SessRecords
    BY DEF SessRecords, NoSession, Modes
  <2> QED BY <2>1, <2>2
<1>5. PICK a : a = NoActor
  OBVIOUS
<1>6. a \in ActorRecords /\ a.pc = "none" /\ a.kind = "none" /\ a.queue = <<>>
  <2>1. <<>> \in Seq({"execute", "fetch", "rollback", "commit"}) /\ 0 \in 0 .. BatchSize
    BY PgBounds
  <2> QED BY <1>5, <2>1 DEF NoActor, ActorRecords
<1>7. actor' = [actor EXCEPT ![s] = a] /\ actor'[s] = a /\ \A q \in Sids \ {s} : actor'[q] = actor[q]
  BY <1>1, <1>2, <1>5
<1>8. actor[s].kind = "none" /\ actor[s].queue = <<>> /\ cursor[s] = "none"
  BY <1>1, <1>2 DEF ActorPlace
<1>9. Drives(s) => task[Conn].answer # "none" /\ task[Conn].pc # "executing"
  BY <1>1, <1>2, <1>8 DEF ActorPlace, Drives, TaskPlace, Driving
<1>10. Drives(s)' <=> Drives(s)
  BY <1>1 DEF Drives
<1>11. ActorPlace(s)'
  BY <1>1, <1>2, <1>5, <1>6, <1>7, <1>8, <1>9, <1>10 DEF ActorPlace
<1>12. Written(s)'
  BY <1>1, <1>9, <1>10 DEF Written
<1>13. lock' \in [Sids -> Tasks \cup {"free", "actor"}] /\ lock'[s] = "free" /\ \A q \in Sids \ {s} : lock'[q] = lock[q]
  BY <1>3
<1>14. PgTypes'
  <2>1. PgTypes /\ cursor' \in [Sids -> CursorStates] /\ task' \in [Tasks -> TaskRecords]
    BY <1>1, <1>2 DEF PgInv
  <2>2. ledger' \in {"none", "whole", "partial"} /\ told' \in {"none", "refused", "done", "unknown"}
    BY <1>1
  <2>3. lock'[s] = "actor" <=> a.pc # "none"
    BY <1>6, <1>13
  <2> QED BY <1>1, <1>4, <1>6, <1>7, <1>13, <2>1, <2>2, <2>3, ActorTypes
<1>15. TaskPlace(Conn)'
  BY <1>1, <1>2, <1>4, <1>13, PgBounds DEF TaskPlace, With, Ops, Tasks
<1>16. \A q \in Sids : lock'[q] = Conn => LockPlace(q)'
  <2> SUFFICES ASSUME NEW q \in Sids, lock'[q] = Conn PROVE LockPlace(q)'
    OBVIOUS
  <2>1. q # s
    BY <1>13, PgBounds DEF Tasks
  <2> QED BY <1>1, <1>13, <2>1 DEF PgInv, LockPlace
<1>17. LedgerPlace'
  BY <1>1 DEF PgInv, LedgerPlace, MutationIsWhole, AnswerIsTrue
<1>18. GoesOn
  BY <1>1 DEF GoesOn
<1> QED BY <1>1, <1>2, <1>4, <1>7, <1>11, <1>12, <1>13, <1>14, <1>15, <1>16, <1>17, <1>18, Driven

-----------------------------------------------------------------------------
(* The theorems *)

LEMMA PgStarts == PgInit => PgInv /\ \A t \in Tasks : NothingAsked(t)
<1> SUFFICES ASSUME PgInit PROVE PgInv /\ \A t \in Tasks : NothingAsked(t)
  OBVIOUS
<1>1. 1 \in Sids /\ MaxSessions >= 1
  BY PgBounds DEF Sids
<1>2. \A s \in Sids : sess[s] \in SessRecords /\ sess[s].set = "unset" /\ (sess[s].client # "none" => s = 1)
  BY DEF PgInit, NoSession, SessRecords, Modes
<1>3. sess \in [Sids -> SessRecords] /\ slots \in Seq(Sids) /\ ToSet(slots) = {1} /\ Len(slots) = 1
  BY <1>1, <1>2 DEF PgInit, ToSet
<1>4. NoActor \in ActorRecords /\ Idle \in TaskRecords
  <2>1. <<>> \in Seq({"execute", "fetch", "rollback", "commit"}) /\ 0 \in 0 .. BatchSize
    BY PgBounds
  <2>2. NoActor \in ActorRecords
    BY <2>1 DEF NoActor, ActorRecords
  <2>3. Idle \in TaskRecords
    BY <2>1 DEF Idle, TaskRecords, Pcs, OpNames, Words
  <2> QED BY <2>2, <2>3
<1>5. PgTypes
  <2>1. \A s \in Sids : /\ actor[s] = NoActor /\ lock[s] = "free"
                        /\ actor[s].pc \in {"none", "begin", "run", "broken", "leave"}
                        /\ actor[s].queue \in Seq({"execute", "fetch", "rollback", "commit"})
                        /\ actor[s].wrote \in 0 .. BatchSize
                        /\ lock[s] = "actor" <=> actor[s].pc # "none"
    <3>1. \A s \in Sids : actor[s] = NoActor /\ lock[s] = "free"
      BY DEF PgInit
    <3>2. NoActor.pc = "none"
      BY DEF NoActor
    <3> QED BY <1>4, <3>1, <3>2 DEF ActorRecords
  <2>2. PgTypeOK
    BY <1>3, <2>1 DEF PgInit, PgTypeOK, SessRecords, Modes
  <2> QED BY <1>4, <2>2 DEF PgInit, PgTypes
<1>6. \A t \in Tasks : task[t] = Idle /\ task[t].pc = "idle" /\ task[t].sid = 0 /\ task[t].answer = "none" /\ task[t].asked = 0
  BY DEF PgInit, Idle
<1>7. \A t \in Tasks : TaskPlace(t) /\ NothingAsked(t)
  BY <1>6 DEF TaskPlace, NothingAsked, With, Driving
<1>8. \A s \in Sids : LockPlace(s)
  BY PgBounds DEF PgInit, LockPlace
<1>9. SlotPlace
  BY <1>1, <1>2, <1>3 DEF PgInit, SlotPlace
<1>10. Conn \in Tasks
  BY DEF Tasks
<1>11. ModePlace
  BY <1>2, <1>6, <1>10 DEF PgInit, ModePlace
<1>12. ASSUME NEW s \in Sids PROVE ActorPlace(s) /\ Written(s)
  <2>1. ~Drives(s) /\ actor[s] = NoActor /\ cursor[s] = "none"
    BY <1>6, <1>10 DEF PgInit, Drives, Driving
  <2> QED BY <2>1 DEF ActorPlace, Written, NoActor
<1>13. LedgerPlace
  BY <1>6, <1>10 DEF PgInit, LedgerPlace, MutationIsWhole, AnswerIsTrue
<1> QED BY <1>5, <1>7, <1>8, <1>9, <1>11, <1>12, <1>13 DEF PgInv

LEMMA PgSteps == PgInv /\ (\A t \in Tasks : NothingAsked(t)) /\ [PgNext]_pgVars => PgInv'
<1> SUFFICES ASSUME PgInv, \A t \in Tasks : NothingAsked(t), [PgNext]_pgVars PROVE PgInv'
  OBVIOUS
<1>1. ASSUME NEW t \in Tasks, Acquire(t) \/ Served(t) PROVE PgInv'
  BY <1>1, LookKeeps, DialKeeps, DialledKeeps, DialFailsKeeps, WaitKeeps, ServedKeeps, ReconcileKeeps DEF Acquire
<1>2. ASSUME NEW t \in Tasks, Request(t) PROVE PgInv'
  BY <1>2, ModeSetKeeps, StatementKeeps, BrowseKeeps, SpawnKeeps, CursorOpensKeeps, MutateNextKeeps, MutateStopsKeeps,
     MutateGivesUpKeeps, MutateEndsKeeps DEF Request
<1>3. ASSUME NEW s \in Sids, Actor(s) PROVE PgInv'
  BY <1>3, BeginKeeps, ExecuteKeeps, CommitKeeps, RollbackKeeps, HangUpKeeps, LeaveKeeps DEF Actor
<1>4. CASE UNCHANGED pgVars
  BY <1>4 DEF pgVars, PgInv, PgTypes, PgTypeOK, TaskPlace, LockPlace, SlotPlace, ModePlace, ActorPlace, Written, Drives,
              LedgerPlace, MutationIsWhole, AnswerIsTrue, Ops
<1> QED BY <1>1, <1>2, <1>3, <1>4, AskKeeps, ReaderKeeps, DieKeeps, CloseKeeps DEF PgNext

LEMMA PgAlways == PgSpec => []PgInv
<1> DEFINE Both == PgInv /\ \A t \in Tasks : NothingAsked(t)
<1>1. PgInit => Both
  BY PgStarts
<1>2. Both /\ [PgNext]_pgVars => Both'
  <2> SUFFICES ASSUME PgInv, \A t \in Tasks : NothingAsked(t), [PgNext]_pgVars PROVE Both'
    OBVIOUS
  <2>1. PgInv'
    BY PgSteps
  <2>2. (\A t \in Tasks : NothingAsked(t))'
    <3>1. CASE PgNext
      BY <3>1, Typed, NothingAskedKeeps
    <3>2. CASE UNCHANGED pgVars
      BY <3>2 DEF pgVars, NothingAsked
    <3> QED BY <3>1, <3>2
  <2> QED BY <2>1, <2>2
<1>3. Both => PgInv
  OBVIOUS
<1> HIDE DEF Both
<1> QED BY <1>1, <1>2, <1>3, PTL DEF PgSpec

\* The types, and never more sessions than the cap while the pool is open, those that
\* are being dialled included (pool.rs:160): whoever holds a lock or has a client is in a
\* slot, and the slots are counted before one is added.
THEOREM CapStays == PgSpec => []CapIsKept
<1>1. PgInv => CapIsKept
  <2> SUFFICES ASSUME PgInv PROVE CapIsKept
    OBVIOUS
  <2>1. PgTypeOK /\ slots \in Seq(Sids) /\ Len(slots) <= MaxSessions /\ Len(slots) \in Nat
    BY Typed DEF PgInv, PgTypes, SlotPlace
  <2>2. ~closed => LiveSessions \subseteq ToSet(slots)
    BY DEF PgInv, SlotPlace, LiveSessions
  <2>3. \A S \in SUBSET ToSet(slots) : IsFiniteSet(S) /\ Cardinality(S) <= Len(slots)
    BY <2>1, SlotsBound
  <2>4. ~closed => Cardinality(LiveSessions) \in Nat /\ Cardinality(LiveSessions) <= Len(slots)
    BY <2>2, <2>3, FS_CardinalityType
  <2>5. ~closed => Cardinality(LiveSessions) <= MaxSessions
    BY <2>1, <2>4, PgBounds
  <2> QED BY <2>1, <2>5 DEF CapIsKept
<1> QED BY <1>1, PgAlways, PTL

\* A batch of mutations is in the database as a whole or not at all, and its caller is
\* told which (connection.rs:117): what the actor has written is what its request has had
\* answered, so that a commit is only asked for after all of them hit their row.
THEOREM BatchStaysWhole == PgSpec => []MutationIsWhole
<1>1. PgInv => MutationIsWhole
  BY DEF PgInv, LedgerPlace
<1> QED BY <1>1, PgAlways, PTL

\* Once set_read_only(true) has been answered, no statement that is asked for after it
\* writes, whatever session it gets (reconcile, pool.rs:201): as long as the promise
\* stands read-only is what is wanted, and a request finds its session in the mode that
\* is wanted, by the session's record and so by the server.
THEOREM PromiseReachesEverySession == PgSpec => []ReadOnlyReachesEverySession
<1>1. PgInv => ReadOnlyReachesEverySession
  BY DEF PgInv, ModePlace, ReadOnlyReachesEverySession
<1> QED BY <1>1, PgAlways, PTL

-----------------------------------------------------------------------------
(***************************************************************************)
(* PgPool implements MutationBatch.                                        *)
(*                                                                         *)
(* A batch is saved only by the COMMIT of the request that is under way,   *)
(* while nothing of it is saved and its caller has no answer; an actor     *)
(* that is left over from an earlier batch has no COMMIT to work on        *)
(* (CommitIsDue).  Answers only say what the ledger holds (LedgerPlace).   *)
(***************************************************************************)

\* Only these steps save a batch, answer it or begin the next one.
LEMMA LedgerMoves ==
    ASSUME [PgNext]_pgVars
    PROVE  \/ UNCHANGED <<ledger, told>>
           \/ Ask(Conn, "mutate")
           \/ \E t \in Tasks : MutateGivesUp(t) \/ MutateEnds(t)
           \/ \E s \in Sids : Commit(s)
<1>1. ASSUME NEW t \in Tasks, Acquire(t) \/ Served(t) PROVE UNCHANGED <<ledger, told>>
  <2>1. Look(t) \/ Dial(t) \/ Dialled(t) \/ DialFails(t) \/ Wait(t) \/ WaitTimesOut(t) \/ Served(t)
          => UNCHANGED <<ledger, told>>
    BY Zenon DEF Look, Dial, Dialled, DialFails, Wait, WaitTimesOut, Served
  <2>2. Reconcile(t) => UNCHANGED <<ledger, told>>
    BY Zenon DEF Reconcile
  <2> QED BY <1>1, <2>1, <2>2 DEF Acquire
<1>2. ASSUME NEW t \in Tasks, Request(t), ~(MutateGivesUp(t) \/ MutateEnds(t)) PROVE UNCHANGED <<ledger, told>>
  BY <1>2 DEF Request, ModeSet, Statement, Browse, Spawn, CursorOpens, MutateNext, MutateStops, Sends
<1>3. ASSUME NEW t \in Tasks, NEW op \in Ops(t), Ask(t, op) PROVE UNCHANGED <<ledger, told>> \/ Ask(Conn, "mutate")
  <2>1. op = "mutate" => t = Conn
    BY DEF Ops
  <2>2. op # "mutate" => UNCHANGED <<ledger, told>>
    BY <1>3 DEF Ask
  <2> QED BY <1>3, <2>1, <2>2
<1>4. ASSUME NEW s \in Sids, Actor(s), ~Commit(s) PROVE UNCHANGED <<ledger, told>>
  BY <1>4 DEF Actor, Begin, Execute, Broken, Rollback, HangUp, Leave
<1>5. ASSUME NEW s \in Sids, Reader(s) \/ Exhausted(s) \/ Die(s) PROVE UNCHANGED <<ledger, told>>
  BY <1>5 DEF Reader, NextBatch, Abandon, CloseCursor, DropCursor, CursorSends, Exhausted, Die
<1>6. Close => UNCHANGED <<ledger, told>>
  BY DEF Close
<1>7. UNCHANGED pgVars => UNCHANGED <<ledger, told>>
  BY DEF pgVars
<1> QED BY <1>1, <1>2, <1>3, <1>4, <1>5, <1>6, <1>7 DEF PgNext

\* What a request says that ends without success or failure of its COMMIT being in doubt.
LEMMA AnswersAreDue ==
    ASSUME PgInv, NEW t \in Tasks, MutateGivesUp(t) \/ MutateEnds(t)
    PROVE  /\ told = "none" /\ UNCHANGED ledger
           /\ told' \in {"refused", "done", "unknown"}
           /\ told' = "refused" => ledger = "none"
           /\ told' = "done" => ledger = "whole"
<1> USE Typed
<1>1. /\ task[t].pc \in Driving /\ task[t].answer # "none" /\ UNCHANGED ledger
      /\ told' \in {"refused", "done", "unknown"}
  BY DEF MutateGivesUp, MutateEnds, Driving
<1>2. t = Conn /\ Drives(task[t].sid) /\ task[t].sid \in Sids
  BY <1>1, Requested
<1>3. task[t].op = "mutate"
  <2>1. CASE MutateGivesUp(t)
    BY <2>1 DEF MutateGivesUp
  <2>2. CASE MutateEnds(t)
    BY <1>2, <2>2, ActorTyped DEF ActorPlace, MutateEnds
  <2> QED BY <2>1, <2>2
<1>4. told = "none" /\ (ledger = "none" \/ task[t].pc = "committing")
  BY <1>1, <1>2, <1>3 DEF PgInv, LedgerPlace, Driving
<1>5. told' = "refused" => ledger = "none"
  BY <1>4 DEF MutateGivesUp, MutateEnds
<1>6. told' = "done" => ledger = "whole"
  BY <1>2 DEF PgInv, LedgerPlace, MutateGivesUp, MutateEnds
<1> QED BY <1>1, <1>4, <1>5, <1>6

LEMMA PgBatchStarts == PgInit => PgBatches!BatchInit
BY DEF PgInit, PgBatches!BatchInit

LEMMA PgBatchStands == ASSUME UNCHANGED <<ledger, told>> PROVE UNCHANGED PgBatches!batchVars
BY DEF PgBatches!batchVars

LEMMA PgBatchMoves ==
    ASSUME PgInv, [PgNext]_pgVars
    PROVE  [PgBatches!BatchNext \/ Ask(Conn, "mutate")]_(PgBatches!batchVars)
<1>1. ASSUME NEW s \in Sids, Commit(s) PROVE PgBatches!Save(Conn) \/ UNCHANGED <<ledger, told>>
  <2>1. Saved(s) = "whole" /\ ledger = "none" /\ told = "none" /\ UNCHANGED told
    BY <1>1, CommitIsDue DEF Commit
  <2>2. ledger' = "whole" \/ UNCHANGED ledger
    BY <1>1, <2>1 DEF Commit
  <2> QED BY <2>1, <2>2 DEF PgBatches!Save
<1>2. ASSUME NEW t \in Tasks, MutateGivesUp(t) \/ MutateEnds(t) PROVE PgBatches!Answer(Conn)
  BY <1>2, AnswersAreDue DEF PgBatches!Answer
<1>3. CASE UNCHANGED <<ledger, told>>
  BY <1>3, PgBatchStands
<1> QED BY <1>1, <1>2, <1>3, LedgerMoves DEF PgBatches!BatchNext

\* The connection keeps the promise of ATOMIC_BATCH (driver.rs:32) for the latest batch: it
\* is saved in one step and for good, and only while its caller has no answer.
THEOREM PgBatchesAreAtomic == PgSpec => PgImplementsBatch
<1>1. PgInv /\ [PgNext]_pgVars => [PgBatches!BatchNext \/ Ask(Conn, "mutate")]_(PgBatches!batchVars)
  BY PgBatchMoves
<1> QED BY <1>1, PgBatchStarts, PgAlways, PTL DEF PgSpec, PgImplementsBatch

=============================================================================
