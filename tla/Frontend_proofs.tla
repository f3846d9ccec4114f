-------------------------- MODULE Frontend_proofs --------------------------
(***************************************************************************)
(* What is proved of what stands between a request and a connection (the   *)
(* pool of a session, and the gate that asks before a statement runs), and *)
(* of the window the request comes from.                                   *)
(***************************************************************************)
EXTENDS SessionPool, SafetyGate, ResultTabs, SequenceTheorems, FiniteSetTheorems, TLAPS

-----------------------------------------------------------------------------
(***************************************************************************)
(* SessionPool                                                             *)
(*                                                                         *)
(* The pool of a session is exclusive and bounded, and hands out only      *)
(* usable connections, for any number of callers, connections and places.  *)
(*                                                                         *)
(* The argument: every connection that was dialled and not let go is with  *)
(* one caller or on the idle stack once; numbers are never used again.     *)
(* The bound needs both counts: a caller dials only when it has seen       *)
(* nothing idle, so that all connections are then with holders of a        *)
(* permit, of which there are at most MaxSize.                             *)
(***************************************************************************)

\* A caller that has a connection, or the number of one to come.
Attached(c) == pc[c] \in {"dial", "lease", "push"}
Working == {c \in Callers : Attached(c)}

\* Only connections that were dialled are anywhere.
IdsDialled ==
    /\ \A c \in Callers : Attached(c) => mine[c] \in 1 .. dialled
    /\ \A k \in 1 .. Len(idle) : idle[k].id \in 1 .. dialled
    /\ poisoned \cup closed \cup busy \subseteq 1 .. dialled

\* Each of them is in one place.
OnePlace ==
    /\ \A c, d \in Callers : Attached(c) /\ Attached(d) /\ mine[c] = mine[d] => c = d
    /\ \A k, l \in 1 .. Len(idle) : idle[k].id = idle[l].id => k = l
    /\ \A c \in Callers, k \in 1 .. Len(idle) : Attached(c) => mine[c] # idle[k].id

\* What has happened to them.
Marks ==
    /\ \A c \in Callers : pc[c] = "dial" => mine[c] \notin poisoned \cup closed \cup busy
    /\ \A c \in Callers : Owns(c) /\ mine[c] \in closed => mine[c] \in poisoned \/ cancelled
    /\ \A k \in 1 .. Len(idle) : idle[k].id \in closed => idle[k].id \in poisoned \/ cancelled

KeyInHand == \A c \in Callers : pc[c] = "push" => key[c] \in Slots

Counts ==
    /\ free = MaxSize - Cardinality(Holders)
    /\ Len(idle) + Cardinality(Working) <= MaxSize

PoolInv ==
    /\ PoolTypeOK /\ IdsDialled /\ OnePlace /\ Marks /\ KeyInHand /\ Counts
    /\ NoneOutlivesSession

USE PoolAssumption DEF ConnIds

----------------------------------------------------------------------------
(* The idle stack *)

\* The entry on top is taken off.
LEMMA Popped ==
    ASSUME NEW s \in Seq(IdleConn), s # <<>>
    PROVE  /\ SubSeq(s, 1, Len(s) - 1) \in Seq(IdleConn)
           /\ Len(SubSeq(s, 1, Len(s) - 1)) = Len(s) - 1
           /\ Len(s) \in Nat \ {0}
           /\ \A k \in 1 .. Len(s) - 1 : SubSeq(s, 1, Len(s) - 1)[k] = s[k]
<1>1. Len(s) \in 1 .. Len(s) /\ Len(s) \in Nat \ {0}
  OBVIOUS
<1>2. ASSUME NEW k \in 1 .. Len(s)
      PROVE  /\ SubSeq(s, 1, k - 1) \in Seq(IdleConn) /\ Len(SubSeq(s, 1, k - 1)) = k - 1
             /\ \A j \in 1 .. k - 1 : SubSeq(s, 1, k - 1)[j] = s[j]
  OBVIOUS
<1> QED BY <1>1, <1>2

\* An entry is taken out of the middle.
LEMMA Cut ==
    ASSUME NEW s \in Seq(IdleConn), NEW k \in 1 .. Len(s)
    PROVE  /\ RemoveAt(s, k) \in Seq(IdleConn)
           /\ Len(RemoveAt(s, k)) = Len(s) - 1
           /\ \A j \in 1 .. Len(s) - 1 : RemoveAt(s, k)[j] = s[IF j < k THEN j ELSE j + 1]
<1> DEFINE l == SubSeq(s, 1, k - 1)
           r == SubSeq(s, k + 1, Len(s))
<1>1. Len(s) \in Nat /\ k \in Nat \ {0} /\ \A j \in 1 .. Len(s) : s[j] \in IdleConn
  OBVIOUS
<1>2. /\ l \in Seq(IdleConn) /\ Len(l) = k - 1
      /\ \A j \in 1 .. k - 1 : l[j] = s[j]
  <2>1. \A j \in 1 .. k - 1 : s[j] \in IdleConn
    BY <1>1
  <2>2. /\ l \in Seq(IdleConn)
        /\ Len(l) = IF 1 <= k - 1 THEN k - 1 - 1 + 1 ELSE 0
        /\ \A j \in 1 .. k - 1 - 1 + 1 : l[j] = s[1 + j - 1]
    BY <1>1, <2>1, SubSeqProperties
  <2> HIDE DEF l
  <2>3. Len(l) = k - 1
    BY <1>1, <2>2
  <2>4. \A j \in 1 .. k - 1 : j \in 1 .. k - 1 - 1 + 1 /\ 1 + j - 1 = j
    BY <1>1
  <2> QED BY <2>2, <2>3, <2>4
<1>3. /\ r \in Seq(IdleConn) /\ Len(r) = Len(s) - k
      /\ \A j \in 1 .. Len(s) - k : r[j] = s[k + j]
  <2>1. \A j \in k + 1 .. Len(s) : s[j] \in IdleConn
    BY <1>1
  <2>2. /\ r \in Seq(IdleConn)
        /\ Len(r) = IF k + 1 <= Len(s) THEN Len(s) - (k + 1) + 1 ELSE 0
        /\ \A j \in 1 .. Len(s) - (k + 1) + 1 : r[j] = s[k + 1 + j - 1]
    BY <1>1, <2>1, SubSeqProperties
  <2> HIDE DEF r
  <2> QED BY <1>1, <2>2
<1>4. RemoveAt(s, k) = l \o r
  BY DEF RemoveAt
<1> HIDE DEF l, r
<1>5. /\ l \o r \in Seq(IdleConn)
      /\ Len(l \o r) = Len(l) + Len(r)
      /\ \A j \in 1 .. Len(l) + Len(r) :
            (l \o r)[j] = IF j <= Len(l) THEN l[j] ELSE r[j - Len(l)]
  <2>1. PICK a, b \in Seq(IdleConn) : a = l /\ b = r
    BY <1>2, <1>3
  <2>2. /\ a \o b \in Seq(IdleConn)
        /\ Len(a \o b) = Len(a) + Len(b)
        /\ \A j \in 1 .. Len(a) + Len(b) :
              (a \o b)[j] = IF j <= Len(a) THEN a[j] ELSE b[j - Len(a)]
    BY ConcatProperties
  <2> QED BY <2>1, <2>2
<1>6. \A j \in 1 .. Len(s) - 1 : (l \o r)[j] = s[IF j < k THEN j ELSE j + 1]
  <2>1. SUFFICES ASSUME NEW j \in 1 .. Len(s) - 1 PROVE (l \o r)[j] = s[IF j < k THEN j ELSE j + 1]
    OBVIOUS
  <2>2. (l \o r)[j] = IF j <= k - 1 THEN l[j] ELSE r[j - (k - 1)]
    BY <1>1, <1>2, <1>3, <1>5
  <2>3. CASE j < k
    <3>1. j <= k - 1 /\ j \in 1 .. k - 1
      BY <1>1, <2>3
    <3> QED BY <1>2, <2>2, <2>3, <3>1
  <2>4. CASE ~(j < k)
    <3>1. ~(j <= k - 1) /\ j - (k - 1) \in 1 .. Len(s) - k /\ k + (j - (k - 1)) = j + 1
      BY <1>1, <2>4
    <3> QED BY <1>3, <2>2, <2>4, <3>1
  <2> QED BY <2>3, <2>4
<1> QED BY <1>1, <1>2, <1>3, <1>4, <1>5, <1>6

\* What the stack holds.
LEMMA Stacked ==
    ASSUME PoolTypeOK
    PROVE  /\ idle \in Seq(IdleConn) /\ Len(idle) \in Nat /\ DOMAIN idle = 1 .. Len(idle)
           /\ \A k \in 1 .. Len(idle) : idle[k] \in IdleConn /\ idle[k].id \in ConnIds /\ idle[k].reap \in Slots
<1>1. idle \in Seq(IdleConn)
  BY DEF PoolTypeOK
<1>2. \A e \in IdleConn : e.id \in ConnIds /\ e.reap \in Slots
  BY DEF IdleConn
<1>3. Len(idle) \in Nat /\ DOMAIN idle = 1 .. Len(idle) /\ \A k \in 1 .. Len(idle) : idle[k] \in IdleConn
  BY <1>1
<1> QED BY <1>1, <1>2, <1>3

----------------------------------------------------------------------------
(* Steps of one caller *)

\* The callers are finite in number, and so are those at some place.
LEMMA Finite ==
    /\ IsFiniteSet(Working) /\ Cardinality(Working) \in Nat
    /\ IsFiniteSet(Holders) /\ Cardinality(Holders) \in Nat
    /\ Cardinality(Working) <= Cardinality(Holders)
<1>1. Holders \in SUBSET Callers /\ Working \in SUBSET Holders
  BY DEF Holders, Working, Attached
<1>2. IsFiniteSet(Holders)
  BY <1>1, FS_Subset
<1> QED BY <1>1, <1>2, FS_Subset, FS_CardinalityType

\* What a step that moves one caller does to the counts.
LEMMA CallerMoves ==
    ASSUME PoolTypeOK, NEW c \in Callers, NEW l \in CallerPcs, Goto(c, l)
    PROVE  /\ pc' \in [Callers -> CallerPcs] /\ pc'[c] = l
           /\ \A d \in Callers : d # c => pc'[d] = pc[d]
           /\ pc[c] \notin {"out", "wait"} /\ l \notin {"out", "wait"} => Holders' = Holders
           /\ pc[c] \in {"out", "wait"} /\ l \in {"out", "wait"} => Holders' = Holders
           /\ pc[c] \in {"out", "wait"} /\ l \notin {"out", "wait"} =>
                 Cardinality(Holders') = Cardinality(Holders) + 1
           /\ pc[c] \notin {"out", "wait"} /\ l \in {"out", "wait"} =>
                 Cardinality(Holders') = Cardinality(Holders) - 1
           /\ Attached(c) /\ l \in {"dial", "lease", "push"} => Working' = Working
           /\ ~Attached(c) /\ l \notin {"dial", "lease", "push"} => Working' = Working
           /\ ~Attached(c) /\ l \in {"dial", "lease", "push"} =>
                 Cardinality(Working') = Cardinality(Working) + 1
           /\ Attached(c) /\ l \notin {"dial", "lease", "push"} =>
                 Cardinality(Working') = Cardinality(Working) - 1
<1>1. pc' \in [Callers -> CallerPcs] /\ pc'[c] = l /\ \A d \in Callers : d # c => pc'[d] = pc[d]
  BY DEF PoolTypeOK, Goto
<1>2. /\ pc[c] \notin {"out", "wait"} /\ l \notin {"out", "wait"} => Holders' = Holders
      /\ pc[c] \in {"out", "wait"} /\ l \in {"out", "wait"} => Holders' = Holders
      /\ pc[c] \in {"out", "wait"} /\ l \notin {"out", "wait"} =>
            c \notin Holders /\ Holders' = Holders \cup {c}
      /\ pc[c] \notin {"out", "wait"} /\ l \in {"out", "wait"} =>
            c \in Holders /\ Holders' = Holders \ {c}
  BY <1>1 DEF Holders
<1>3. /\ Attached(c) /\ l \in {"dial", "lease", "push"} => Working' = Working
      /\ ~Attached(c) /\ l \notin {"dial", "lease", "push"} => Working' = Working
      /\ ~Attached(c) /\ l \in {"dial", "lease", "push"} =>
            c \notin Working /\ Working' = Working \cup {c}
      /\ Attached(c) /\ l \notin {"dial", "lease", "push"} =>
            c \in Working /\ Working' = Working \ {c}
  BY <1>1 DEF Working, Attached
<1>4. /\ c \notin Holders => Cardinality(Holders \cup {c}) = Cardinality(Holders) + 1
      /\ c \in Holders => Cardinality(Holders \ {c}) = Cardinality(Holders) - 1
  BY Finite, FS_AddElement, FS_RemoveElement
<1>5. /\ c \notin Working => Cardinality(Working \cup {c}) = Cardinality(Working) + 1
      /\ c \in Working => Cardinality(Working \ {c}) = Cardinality(Working) - 1
  BY Finite, FS_AddElement, FS_RemoveElement
<1>6. /\ pc[c] \in {"out", "wait"} /\ l \notin {"out", "wait"} =>
            Cardinality(Holders') = Cardinality(Holders) + 1
      /\ pc[c] \notin {"out", "wait"} /\ l \in {"out", "wait"} =>
            Cardinality(Holders') = Cardinality(Holders) - 1
  BY <1>2, <1>4
<1>7. /\ ~Attached(c) /\ l \in {"dial", "lease", "push"} =>
            Cardinality(Working') = Cardinality(Working) + 1
      /\ Attached(c) /\ l \notin {"dial", "lease", "push"} =>
            Cardinality(Working') = Cardinality(Working) - 1
  BY <1>3, <1>5
<1> QED BY <1>1, <1>2, <1>3, <1>6, <1>7

----------------------------------------------------------------------------
(* Types *)

LEMMA TypesHold == ASSUME PoolInv, PoolNext PROVE PoolTypeOK'
<1> USE DEF PoolInv, PoolTypeOK, CallerPcs, connVars, Goto, CancelTimer
<1>1. ASSUME NEW c \in Callers,
             Acquire(c) \/ Permit(c) \/ Dial(c) \/ Dialled(c) \/ UseFails(c) \/ Abandon(c)
      PROVE  PoolTypeOK'
  <2>1. CASE Acquire(c) \/ Permit(c)
    <3>1. UNCHANGED <<mine, key, idle, dialled, timers, fired, poisoned, closed, busy, cancelled>>
      BY <2>1 DEF Acquire, Permit
    <3>2. pc' \in [Callers -> CallerPcs]
      BY <2>1 DEF Acquire, Permit
    <3>3. free' \in 0 .. MaxSize
      BY <2>1 DEF Acquire, Permit
    <3> QED BY <3>1, <3>2, <3>3
  <2>4. CASE Dialled(c)
    <3>1. closed' \subseteq ConnIds
      <4>1. mine[c] \in 1 .. dialled /\ closed' \subseteq closed \cup {mine[c]}
        BY <2>4 DEF Dialled, IdsDialled, Attached
      <4> QED BY <4>1
    <3>2. pc' \in [Callers -> CallerPcs]
      BY <2>4 DEF Dialled
    <3>3. UNCHANGED <<mine, key, free, idle, dialled, timers, fired, poisoned, busy, cancelled>>
      BY <2>4 DEF Dialled
    <3> QED BY <3>1, <3>2, <3>3
  <2>2. CASE Dial(c)
    BY <2>2 DEF Dial
  <2>3. CASE UseFails(c) \/ Abandon(c)
    <3>1. mine[c] \in 1 .. dialled
      BY <2>3 DEF UseFails, Abandon, IdsDialled, Attached
    <3>2. UNCHANGED <<pc, mine, key, free, idle, dialled, timers, fired, cancelled>>
      BY <2>3 DEF UseFails, Abandon
    <3>3. poisoned' \cup closed' \cup busy' \subseteq poisoned \cup closed \cup busy \cup {mine[c]}
      BY <2>3 DEF UseFails, Abandon, Fatal
    <3>4. poisoned' \subseteq ConnIds /\ closed' \subseteq ConnIds /\ busy' \subseteq ConnIds
      <4>1. mine[c] \in ConnIds /\ poisoned \cup closed \cup busy \subseteq ConnIds
        BY <3>1
      <4> HIDE DEF PoolInv, PoolTypeOK, ConnIds
      <4> QED BY <3>3, <4>1
    <3> QED BY <3>2, <3>4
  <2> QED BY <1>1, <2>1, <2>2, <2>3, <2>4
<1>2. ASSUME NEW c \in Callers, TakeIdle(c) PROVE PoolTypeOK'
  <2>1. idle' \in Seq(IdleConn) /\ idle[Len(idle)] \in IdleConn
    BY <1>2, Popped DEF TakeIdle
  <2> QED BY <1>2, <2>1 DEF TakeIdle, IdleConn
<1>3. ASSUME NEW c \in Callers, DialFails(c) \/ Evict(c) \/ Schedule(c) PROVE PoolTypeOK'
  <2>1. mine[c] \in 1 .. MaxConns
    BY <1>3 DEF DialFails, Evict, Schedule, IdsDialled, Attached
  <2>2. CASE DialFails(c)
    BY <2>1, <2>2 DEF DialFails
  <2>3. CASE Evict(c)
    BY <2>1, <2>3 DEF Evict
  <2>4. CASE Schedule(c)
    BY <2>1, <2>4 DEF Schedule
  <2> QED BY <1>3, <2>2, <2>3, <2>4
<1>4. ASSUME NEW c \in Callers, Push(c) PROVE PoolTypeOK'
  <2>1. [id |-> mine[c], reap |-> key[c]] \in IdleConn
    BY <1>4 DEF Push, IdleConn, IdsDialled, Attached, KeyInHand
  <2> QED BY <1>4, <2>1 DEF Push
<1>5. ASSUME NEW c \in Callers, Unpermit(c) PROVE PoolTypeOK'
  <2>1. c \in Holders
    BY <1>5 DEF Unpermit, Holders
  <2>2. Cardinality(Holders) \in Nat \ {0}
    BY <2>1, Finite, FS_EmptySet
  <2> QED BY <1>5, <2>2 DEF Unpermit, Counts
<1>6. ASSUME NEW i \in ConnIds, ActorDone(i) PROVE PoolTypeOK'
  BY <1>6 DEF ActorDone, Fatal
<1>7. ASSUME NEW i \in ConnIds, Reap(i) PROVE PoolTypeOK'
  <2>1. idle' \in Seq(IdleConn)
    BY <1>7, Cut, Stacked DEF Reap
  <2>2. fired' \subseteq ConnIds /\ closed' \subseteq ConnIds
    BY <1>7 DEF Reap
  <2> QED BY <1>7, <2>1, <2>2 DEF Reap
<1>8. ASSUME NEW s \in Slots, Expire(s) PROVE PoolTypeOK'
  BY <1>8 DEF Expire
<1>9. CASE Shutdown
  <2>1. Spawned \subseteq ConnIds
    BY DEF Spawned
  <2>2. closed' \subseteq ConnIds /\ cancelled' \in BOOLEAN
    BY <1>9, <2>1 DEF Shutdown
  <2>3. UNCHANGED <<pc, mine, key, free, idle, dialled, timers, fired, poisoned, busy>>
    BY <1>9 DEF Shutdown
  <2> QED BY <2>2, <2>3
<1>10. CASE Drain
  <2>1. {idle[k].id : k \in DOMAIN idle} \subseteq 1 .. MaxConns
    BY Stacked
  <2>2. timers' \in [Slots -> ConnIds \cup {NoConn}]
    BY <1>10 DEF Drain
  <2>3. idle' \in Seq(IdleConn)
    BY <1>10 DEF Drain
  <2> QED BY <1>10, <2>1, <2>2, <2>3 DEF Drain
<1> QED BY <1>1, <1>2, <1>3, <1>4, <1>5, <1>6, <1>7, <1>8, <1>9, <1>10 DEF PoolNext

----------------------------------------------------------------------------
(* The counts *)

LEMMA CountsHold == ASSUME PoolInv, PoolNext PROVE Counts'
<1> USE Finite DEF PoolInv, Counts, CallerPcs, connVars
<1>1. PoolTypeOK /\ idle \in Seq(IdleConn) /\ Len(idle) \in Nat /\ free \in Nat
  BY DEF PoolTypeOK
<1>2. ASSUME NEW c \in Callers, Acquire(c) \/ Permit(c) \/ Dialled(c) \/ DialFails(c) \/ Evict(c)
                                    \/ Schedule(c) \/ Unpermit(c)
      PROVE  Counts'
  BY <1>1, <1>2, CallerMoves DEF Acquire, Permit, Dialled, DialFails, Evict, Schedule, Unpermit, Attached
<1>3. ASSUME NEW c \in Callers, TakeIdle(c) PROVE Counts'
  <2>1. Len(idle') = Len(idle) - 1
    BY <1>1, <1>3, Popped DEF TakeIdle
  <2>2. CASE idle[Len(idle)].id \in poisoned
    BY <1>1, <1>3, <2>1, <2>2 DEF TakeIdle, Holders, Working, Attached
  <2>3. CASE idle[Len(idle)].id \notin poisoned
    <3>1. pc[c] = "pick" /\ Goto(c, "lease") /\ free' = free
      BY <1>3, <2>3 DEF TakeIdle
    <3> QED BY <1>1, <2>1, <3>1, CallerMoves DEF Attached
  <2> QED BY <2>2, <2>3
<1>4. ASSUME NEW c \in Callers, Dial(c) PROVE Counts'
  <2>1. pc[c] = "pick" /\ idle = <<>> /\ idle' = idle /\ free' = free /\ Goto(c, "dial")
    BY <1>4 DEF Dial
  <2>2. Holders' = Holders /\ Cardinality(Working') = Cardinality(Working) + 1
    BY <1>1, <2>1, CallerMoves DEF Attached
  <2>3. (Cardinality(Working) <= Cardinality(Holders))'
    BY Finite, PTL
  <2>4. free >= 0 /\ Len(idle) = 0
    BY <1>1, <2>1
  <2> QED BY <1>1, <2>1, <2>2, <2>3, <2>4
<1>5. ASSUME NEW c \in Callers, Push(c) PROVE Counts'
  <2>1. Len(idle') = Len(idle) + 1
    BY <1>1, <1>5 DEF Push
  <2>2. pc[c] = "push" /\ Goto(c, "unpermit") /\ free' = free
    BY <1>5 DEF Push
  <2>3. Holders' = Holders /\ Cardinality(Working') = Cardinality(Working) - 1
    BY <1>1, <2>2, CallerMoves DEF Attached
  <2> QED BY <1>1, <2>1, <2>2, <2>3
<1>6. ASSUME NEW i \in ConnIds, Reap(i) PROVE Counts'
  BY <1>1, <1>6, Cut, Stacked DEF Reap, Holders, Working, Attached
<1>7. CASE Drain
  BY <1>1, <1>7 DEF Drain, Holders, Working, Attached
<1>8. ASSUME UNCHANGED <<pc, free, idle>> PROVE Counts'
  BY <1>8 DEF Holders, Working, Attached
<1>9. ASSUME NEW c \in Callers, UseFails(c) \/ Abandon(c) PROVE UNCHANGED <<pc, free, idle>>
  BY <1>9 DEF UseFails, Abandon
<1>10. ASSUME NEW i \in ConnIds, ActorDone(i) PROVE UNCHANGED <<pc, free, idle>>
  BY <1>10 DEF ActorDone
<1>11. ASSUME NEW s \in Slots, Expire(s) PROVE UNCHANGED <<pc, free, idle>>
  BY <1>11 DEF Expire
<1>12. CASE Shutdown
  BY <1>8, <1>12 DEF Shutdown
<1> QED BY <1>2, <1>3, <1>4, <1>5, <1>6, <1>7, <1>8, <1>9, <1>10, <1>11, <1>12 DEF PoolNext

\* The entry of connection i has left the stack, and the others are there as before.
LeftIdle(i) ==
    /\ \E k \in 1 .. Len(idle) : idle[k].id = i
    /\ \A j \in 1 .. Len(idle') : \E m \in 1 .. Len(idle) : idle'[j] = idle[m]
    /\ \A j \in 1 .. Len(idle') : idle'[j].id # i
    /\ \A j, l \in 1 .. Len(idle') : idle'[j].id = idle'[l].id => j = l

LEMMA OneFewer ==
    ASSUME OnePlace, NEW i, LeftIdle(i), UNCHANGED <<pc, mine>>
    PROVE  OnePlace'
<1>1. \A c, d \in Callers : Attached(c)' /\ Attached(d)' /\ mine'[c] = mine'[d] => c = d
  BY DEF OnePlace, Attached
<1>2. \A c \in Callers, k \in 1 .. Len(idle') : Attached(c)' => mine'[c] # idle'[k].id
  <2>1. ASSUME NEW c \in Callers, NEW k \in 1 .. Len(idle'), Attached(c)' PROVE mine'[c] # idle'[k].id
    <3>1. PICK m \in 1 .. Len(idle) : idle'[k] = idle[m]
      BY DEF LeftIdle
    <3> QED BY <2>1, <3>1 DEF OnePlace, Attached
  <2> QED BY <2>1
<1> QED BY <1>1, <1>2 DEF OnePlace, LeftIdle

LEMMA OneLess ==
    ASSUME PoolTypeOK, OnePlace, NEW k \in 1 .. Len(idle), Len(idle') = Len(idle) - 1,
           \A j \in 1 .. Len(idle) - 1 : idle'[j] = idle[IF j < k THEN j ELSE j + 1]
    PROVE  LeftIdle(idle[k].id)
<1>1. Len(idle) \in Nat
  BY Stacked
<1>2. \A j, l \in 1 .. Len(idle) : idle[j].id = idle[l].id => j = l
  BY DEF OnePlace
<1> DEFINE from(j) == IF j < k THEN j ELSE j + 1
<1>3. \A j \in 1 .. Len(idle') : from(j) \in 1 .. Len(idle) /\ from(j) # k /\ idle'[j] = idle[from(j)]
  BY <1>1
<1>4. \A j, l \in 1 .. Len(idle') : from(j) = from(l) => j = l
  BY <1>1
<1> HIDE DEF from
<1> QED BY <1>2, <1>3, <1>4 DEF LeftIdle

LEMMA TakeLeaves ==
    ASSUME PoolTypeOK, OnePlace, NEW c \in Callers, TakeIdle(c)
    PROVE  LeftIdle(idle[Len(idle)].id)
<1>1. /\ Len(idle) \in 1 .. Len(idle) /\ Len(idle') = Len(idle) - 1
      /\ \A j \in 1 .. Len(idle) - 1 : idle'[j] = idle[IF j < Len(idle) THEN j ELSE j + 1]
  BY Stacked, Popped DEF TakeIdle
<1> QED BY <1>1, OneLess

\* Whoever has a connection after the step had it before, or is c and has i.
Given(c, i) ==
    \A d \in Callers :
        Attached(d)' => (d = c /\ mine'[d] = i) \/ (Attached(d) /\ mine'[d] = mine[d])

\* The caller gets the connection on top, unless it is poisoned.
LEMMA Taken ==
    ASSUME PoolTypeOK, NEW c \in Callers, TakeIdle(c)
    PROVE  /\ pc[c] = "pick" /\ dialled' = dialled /\ poisoned' = poisoned /\ busy' = busy
           /\ closed' \subseteq closed \cup {idle[Len(idle)].id}
           /\ Given(c, idle[Len(idle)].id)
<1> USE DEF PoolTypeOK, TakeIdle, Attached, Goto, Given
<1>1. CASE idle[Len(idle)].id \in poisoned
  BY <1>1
<1>2. CASE idle[Len(idle)].id \notin poisoned
  BY <1>2
<1> QED BY <1>1, <1>2

\* A caller's step that gives nobody a connection, and leaves the stack alone.
Steady ==
    /\ idle' = idle /\ dialled' = dialled
    /\ \A d \in Callers : Attached(d)' => Attached(d) /\ mine'[d] = mine[d]

LEMMA Steadily ==
    ASSUME PoolTypeOK, NEW c \in Callers,
           \/ Acquire(c) \/ Permit(c) \/ Dialled(c) \/ DialFails(c)
           \/ UseFails(c) \/ Abandon(c) \/ Evict(c) \/ Schedule(c) \/ Unpermit(c)
    PROVE  Steady
<1> USE DEF PoolTypeOK, CallerPcs, Attached, Goto, Steady
<1>1. CASE Acquire(c) \/ Permit(c) \/ Unpermit(c)
  BY <1>1 DEF Acquire, Permit, Unpermit
<1>2. CASE Dialled(c) \/ Schedule(c)
  BY <1>2 DEF Dialled, Schedule
<1>3. CASE DialFails(c) \/ Evict(c)
  BY <1>3 DEF DialFails, Evict
<1>4. CASE UseFails(c) \/ Abandon(c)
  BY <1>4 DEF UseFails, Abandon
<1> QED BY <1>1, <1>2, <1>3, <1>4

LEMMA ReapLeaves ==
    ASSUME PoolTypeOK, OnePlace, NEW i \in ConnIds, Reap(i)
    PROVE  \/ UNCHANGED <<idle, closed>>
           \/ closed' = closed \cup {i} /\ LeftIdle(i)
<1> SUFFICES ASSUME ~UNCHANGED <<idle, closed>>
             PROVE  closed' = closed \cup {i} /\ LeftIdle(i)
  OBVIOUS
<1>1. PICK k \in DOMAIN idle : idle[k].id = i /\ idle' = RemoveAt(idle, k) /\ closed' = closed \cup {i}
  BY DEF Reap
<1>2. k \in 1 .. Len(idle)
  BY Stacked
<1>3. /\ Len(idle') = Len(idle) - 1
      /\ \A j \in 1 .. Len(idle) - 1 : idle'[j] = idle[IF j < k THEN j ELSE j + 1]
  BY <1>1, <1>2, Stacked, Cut
<1> QED BY <1>1, <1>2, <1>3, OneLess

----------------------------------------------------------------------------
(* Numbers *)

LEMMA IdsHold == ASSUME PoolInv, PoolNext PROVE IdsDialled'
<1> USE Stacked DEF PoolInv, PoolTypeOK, CallerPcs, connVars, Goto, IdsDialled, Attached
<1>1. ASSUME NEW c \in Callers,
             \/ Acquire(c) \/ Permit(c) \/ Dialled(c) \/ DialFails(c)
             \/ UseFails(c) \/ Abandon(c) \/ Evict(c) \/ Schedule(c) \/ Unpermit(c)
      PROVE  IdsDialled'
  <2>1. Steady
    BY <1>1, Steadily
  <2>2. poisoned' \cup closed' \cup busy' \subseteq poisoned \cup closed \cup busy \cup {mine[c]}
    BY <1>1 DEF Acquire, Permit, Dialled, DialFails, UseFails, Abandon, Fatal, Evict, Schedule, Unpermit
  <2>3. Attached(c) \/ UNCHANGED <<poisoned, closed, busy>>
    BY <1>1 DEF Acquire, Permit, Dialled, DialFails, UseFails, Abandon, Evict, Schedule, Unpermit
  <2> HIDE DEF Attached, PoolTypeOK
  <2> QED BY <2>1, <2>2, <2>3 DEF Steady
<1>2. ASSUME NEW c \in Callers, TakeIdle(c) PROVE IdsDialled'
  <2>1. LeftIdle(idle[Len(idle)].id)
    BY <1>2, TakeLeaves
  <2>2. /\ pc[c] = "pick" /\ dialled' = dialled /\ poisoned' = poisoned /\ busy' = busy
        /\ closed' \subseteq closed \cup {idle[Len(idle)].id}
        /\ Given(c, idle[Len(idle)].id)
    BY <1>2, Taken
  <2> HIDE DEF Attached, PoolTypeOK, IdsDialled
  <2>3. idle[Len(idle)].id \in 1 .. dialled
    BY <2>1 DEF LeftIdle, IdsDialled
  <2>4. \A k \in 1 .. Len(idle') : idle'[k].id \in 1 .. dialled'
    BY <2>1, <2>2 DEF LeftIdle, IdsDialled
  <2>5. \A d \in Callers : Attached(d)' => mine'[d] \in 1 .. dialled'
    BY <2>2, <2>3 DEF Given, IdsDialled
  <2>6. poisoned' \cup closed' \cup busy' \subseteq 1 .. dialled'
    BY <2>2, <2>3 DEF IdsDialled
  <2> QED BY <2>4, <2>5, <2>6 DEF IdsDialled
<1>3. ASSUME NEW c \in Callers, Dial(c) PROVE IdsDialled'
  BY <1>3 DEF Dial
<1>4. ASSUME NEW c \in Callers, Push(c) PROVE IdsDialled'
  BY <1>4 DEF Push
<1>5. ASSUME NEW i \in ConnIds, ActorDone(i) PROVE IdsDialled'
  BY <1>5 DEF ActorDone, Fatal
<1>6. ASSUME NEW i \in ConnIds, Reap(i) PROVE IdsDialled'
  <2>1. UNCHANGED <<pc, mine, dialled, poisoned, busy>>
    BY <1>6 DEF Reap
  <2>2. CASE UNCHANGED <<idle, closed>>
    BY <2>1, <2>2
  <2>3. CASE closed' = closed \cup {i} /\ LeftIdle(i)
    <3>1. i \in 1 .. dialled /\ \A c \in Callers : Attached(c) => mine[c] # i
      BY <2>3 DEF LeftIdle, IdsDialled, OnePlace
    <3> QED BY <2>1, <2>3, <3>1 DEF LeftIdle
  <2> QED BY <1>6, <2>2, <2>3, ReapLeaves
<1>7. CASE (\E s \in Slots : Expire(s)) \/ Shutdown
  BY <1>7 DEF Expire, Shutdown, Spawned
<1>8. CASE Drain
  <2>1. /\ {idle[k].id : k \in DOMAIN idle} \subseteq 1 .. dialled
        /\ idle' = <<>> /\ closed' = closed \cup {idle[k].id : k \in DOMAIN idle}
        /\ UNCHANGED <<pc, mine, dialled, poisoned, busy>>
    BY <1>8 DEF Drain
  <2> HIDE DEF PoolTypeOK
  <2> QED BY <2>1
<1> QED BY <1>1, <1>2, <1>3, <1>4, <1>5, <1>6, <1>7, <1>8 DEF PoolNext

----------------------------------------------------------------------------
(* One place for each connection *)

LEMMA PlacesHold == ASSUME PoolInv, PoolNext PROVE OnePlace'
<1> USE Stacked DEF PoolInv, PoolTypeOK, CallerPcs, connVars, Goto, IdsDialled, OnePlace, Attached
<1>1. ASSUME NEW c \in Callers,
             \/ Acquire(c) \/ Permit(c) \/ Dialled(c) \/ DialFails(c)
             \/ UseFails(c) \/ Abandon(c) \/ Evict(c) \/ Schedule(c) \/ Unpermit(c)
      PROVE  OnePlace'
  <2>1. Steady
    BY <1>1, Steadily
  <2> HIDE DEF Attached, PoolTypeOK
  <2> QED BY <2>1 DEF Steady
<1>2. ASSUME NEW c \in Callers, TakeIdle(c) PROVE OnePlace'
  <2>1. LeftIdle(idle[Len(idle)].id)
    BY <1>2, TakeLeaves
  <2>2. /\ pc[c] = "pick" /\ dialled' = dialled /\ poisoned' = poisoned /\ busy' = busy
        /\ closed' \subseteq closed \cup {idle[Len(idle)].id}
        /\ Given(c, idle[Len(idle)].id)
    BY <1>2, Taken
  <2> HIDE DEF Attached
  <2>3. Len(idle) \in 1 .. Len(idle) /\ ~Attached(c)
    BY <1>2, <2>2 DEF TakeIdle, Attached
  <2>4. \A d \in Callers : Attached(d) => mine[d] # idle[Len(idle)].id /\ d # c
    BY <2>3
  <2>5. \A d, e \in Callers : Attached(d)' /\ Attached(e)' /\ mine'[d] = mine'[e] => d = e
    BY <2>2, <2>4 DEF Given
  <2>6. \A d \in Callers, k \in 1 .. Len(idle') : Attached(d)' => mine'[d] # idle'[k].id
    <3>1. ASSUME NEW d \in Callers, NEW k \in 1 .. Len(idle'), Attached(d)' PROVE mine'[d] # idle'[k].id
      <4>1. PICK m \in 1 .. Len(idle) : idle'[k] = idle[m]
        BY <2>1 DEF LeftIdle
      <4>2. idle'[k].id # idle[Len(idle)].id
        BY <2>1 DEF LeftIdle
      <4>3. mine'[d] = idle[Len(idle)].id \/ (Attached(d) /\ mine'[d] = mine[d])
        BY <2>2, <3>1 DEF Given
      <4> QED BY <4>1, <4>2, <4>3
    <3> QED BY <3>1
  <2> QED BY <2>1, <2>5, <2>6 DEF LeftIdle
<1>3. ASSUME NEW c \in Callers, Dial(c) PROVE OnePlace'
  BY <1>3 DEF Dial
<1>4. ASSUME NEW c \in Callers, Push(c) PROVE OnePlace'
  BY <1>4 DEF Push
<1>5. ASSUME NEW i \in ConnIds, ActorDone(i) PROVE OnePlace'
  BY <1>5 DEF ActorDone, Fatal
<1>6. ASSUME NEW i \in ConnIds, Reap(i) PROVE OnePlace'
  <2>1. UNCHANGED <<pc, mine, dialled, poisoned, busy>>
    BY <1>6 DEF Reap
  <2>2. CASE UNCHANGED <<idle, closed>>
    BY <2>1, <2>2
  <2>3. CASE closed' = closed \cup {i} /\ LeftIdle(i)
    <3>1. OnePlace
      BY DEF PoolInv
    <3> HIDE DEF OnePlace, Attached, PoolTypeOK, IdsDialled, PoolInv
    <3> QED BY <2>1, <2>3, <3>1, OneFewer
  <2> QED BY <1>6, <2>2, <2>3, ReapLeaves
<1>7. CASE (\E s \in Slots : Expire(s)) \/ Shutdown
  BY <1>7 DEF Expire, Shutdown
<1>8. CASE Drain
  BY <1>8 DEF Drain
<1> QED BY <1>1, <1>2, <1>3, <1>4, <1>5, <1>6, <1>7, <1>8 DEF PoolNext

----------------------------------------------------------------------------
(* What has failed or was closed *)

LEMMA MarksHold == ASSUME PoolInv, PoolNext PROVE Marks'
<1> USE Stacked DEF PoolInv, PoolTypeOK, CallerPcs, connVars, Goto, IdsDialled, OnePlace, Marks, Attached, Owns
<1>1. ASSUME NEW c \in Callers,
             \/ Acquire(c) \/ Permit(c) \/ Dialled(c) \/ DialFails(c)
             \/ UseFails(c) \/ Abandon(c) \/ Evict(c) \/ Schedule(c) \/ Unpermit(c)
      PROVE  Marks'
  <2>1. CASE Acquire(c) \/ Permit(c) \/ Unpermit(c)
    BY <2>1 DEF Acquire, Permit, Unpermit
  <2>2. CASE Dialled(c) \/ Schedule(c)
    BY <2>2 DEF Dialled, Schedule
  <2>3. CASE DialFails(c)
    BY <2>3 DEF DialFails
  <2>4. CASE Evict(c)
    BY <2>4 DEF Evict
  <2>5. CASE UseFails(c)
    BY <2>5 DEF UseFails, Fatal
  <2>6. CASE Abandon(c)
    BY <2>6 DEF Abandon
  <2> QED BY <1>1, <2>1, <2>2, <2>3, <2>4, <2>5, <2>6
<1>2. ASSUME NEW c \in Callers, TakeIdle(c) PROVE Marks'
  <2>1. LeftIdle(idle[Len(idle)].id)
    BY <1>2, TakeLeaves
  <2>2. poisoned' = poisoned /\ busy' = busy
    BY <1>2 DEF TakeIdle
  <2>3. CASE idle[Len(idle)].id \in poisoned
    BY <1>2, <2>1, <2>2, <2>3 DEF TakeIdle, LeftIdle
  <2>4. CASE idle[Len(idle)].id \notin poisoned
    BY <1>2, <2>1, <2>2, <2>4 DEF TakeIdle, LeftIdle
  <2> QED BY <2>3, <2>4
<1>3. ASSUME NEW c \in Callers, Dial(c) PROVE Marks'
  BY <1>3 DEF Dial
<1>4. ASSUME NEW c \in Callers, Push(c) PROVE Marks'
  BY <1>4 DEF Push
<1>5. ASSUME NEW i \in ConnIds, ActorDone(i) PROVE Marks'
  BY <1>5 DEF ActorDone, Fatal
<1>6. ASSUME NEW i \in ConnIds, Reap(i) PROVE Marks'
  <2>1. UNCHANGED <<pc, mine, dialled, poisoned, busy, cancelled>>
    BY <1>6 DEF Reap
  <2>2. CASE UNCHANGED <<idle, closed>>
    BY <2>1, <2>2
  <2>3. CASE closed' = closed \cup {i} /\ LeftIdle(i)
    <3>1. i \in 1 .. dialled /\ \A c \in Callers : Attached(c) => mine[c] # i
      BY <2>3 DEF LeftIdle, IdsDialled, OnePlace
    <3> QED BY <2>1, <2>3, <3>1 DEF LeftIdle
  <2> QED BY <1>6, <2>2, <2>3, ReapLeaves
<1>7. CASE (\E s \in Slots : Expire(s)) \/ Shutdown
  BY <1>7 DEF Expire, Shutdown, Spawned
<1>8. CASE Drain
  BY <1>8 DEF Drain
<1> QED BY <1>1, <1>2, <1>3, <1>4, <1>5, <1>6, <1>7, <1>8 DEF PoolNext

\* What is dialled is closed with its session, or still being dialled.
LEMMA EndsHold == ASSUME PoolInv, PoolNext PROVE NoneOutlivesSession'
<1> USE DEF NoneOutlivesSession, Spawned
<1> HIDE DEF ConnIds
<1>0. /\ PoolTypeOK /\ IdsDialled /\ NoneOutlivesSession
      /\ pc \in [Callers -> CallerPcs] /\ mine \in [Callers -> ConnIds \cup {NoConn}]
      /\ dialled \in Nat
  BY DEF PoolInv, PoolTypeOK
<1>1. ASSUME NEW c \in Callers, Dialled(c) \/ DialFails(c) PROVE NoneOutlivesSession'
  <2>1. /\ dialled' = dialled /\ cancelled' = cancelled
        /\ closed \subseteq closed' /\ (cancelled => mine[c] \in closed')
        /\ \A d \in Callers : pc[d] = "dial" => d = c \/ (pc'[d] = "dial" /\ mine'[d] = mine[d])
    BY <1>0, <1>1 DEF Dialled, DialFails, Goto
  <2> QED BY <1>0, <2>1
<1>2. ASSUME NEW c \in Callers, Dial(c) PROVE NoneOutlivesSession'
  <2>1. /\ dialled' = dialled + 1 /\ cancelled' = cancelled /\ closed' = closed
        /\ pc'[c] = "dial" /\ mine'[c] = dialled + 1
        /\ \A d \in Callers : pc[d] = "dial" => pc'[d] = "dial" /\ mine'[d] = mine[d]
    BY <1>0, <1>2 DEF Dial, Goto, connVars
  <2>2. 1 .. dialled' \subseteq 1 .. dialled \cup {mine'[c]}
    BY <1>0, <2>1
  <2> QED BY <1>0, <2>1, <2>2
<1>3. ASSUME /\ dialled' = dialled /\ cancelled' = cancelled /\ closed \subseteq closed'
             /\ \A d \in Callers : pc[d] = "dial" => pc'[d] = "dial" /\ mine'[d] = mine[d]
      PROVE  NoneOutlivesSession'
  BY <1>0, <1>3
<1>4. ASSUME NEW c \in Callers,
             \/ Acquire(c) \/ Permit(c) \/ TakeIdle(c) \/ UseFails(c) \/ Abandon(c)
             \/ Evict(c) \/ Schedule(c) \/ Push(c) \/ Unpermit(c)
      PROVE  NoneOutlivesSession'
  <2>1. dialled' = dialled /\ cancelled' = cancelled /\ closed \subseteq closed'
    BY <1>4 DEF Acquire, Permit, TakeIdle, UseFails, Abandon, Fatal, Evict, Schedule, Push,
                Unpermit, connVars
  <2>2. pc[c] # "dial" /\ \A d \in Callers : d # c => pc'[d] = pc[d] /\ mine'[d] = mine[d]
    BY <1>0, <1>4 DEF Acquire, Permit, TakeIdle, UseFails, Abandon, Evict, Schedule, Push, Unpermit,
                      Goto, connVars
  <2> QED BY <1>3, <2>1, <2>2
<1>5. ASSUME NEW i \in ConnIds, ActorDone(i) \/ Reap(i) PROVE NoneOutlivesSession'
  <2>1. UNCHANGED <<pc, mine, dialled, cancelled>> /\ closed \subseteq closed'
    BY <1>5 DEF ActorDone, Fatal, Reap
  <2> QED BY <1>3, <2>1
<1>6. CASE (\E s \in Slots : Expire(s)) \/ Drain
  <2>1. UNCHANGED <<pc, mine, dialled, cancelled>> /\ closed \subseteq closed'
    BY <1>6 DEF Expire, Drain, connVars
  <2> QED BY <1>3, <2>1
<1>7. CASE Shutdown
  BY <1>7 DEF Shutdown
<1> QED BY <1>1, <1>2, <1>4, <1>5, <1>6, <1>7 DEF PoolNext

----------------------------------------------------------------------------
(* Keys, and all of it *)

LEMMA KeysHold == ASSUME PoolInv, PoolNext PROVE KeyInHand'
<1> USE DEF PoolInv, PoolTypeOK, KeyInHand, CallerPcs, Goto, connVars
<1>1. ASSUME NEW c \in Callers,
             \/ Acquire(c) \/ Permit(c) \/ TakeIdle(c) \/ Dial(c) \/ Dialled(c) \/ DialFails(c)
             \/ UseFails(c) \/ Abandon(c) \/ Evict(c) \/ Unpermit(c)
      PROVE  KeyInHand'
  BY <1>1 DEF Acquire, Permit, TakeIdle, Dial, Dialled, DialFails, UseFails, Abandon, Evict, Unpermit
<1>2. ASSUME NEW c \in Callers, Schedule(c) \/ Push(c) PROVE KeyInHand'
  BY <1>2 DEF Schedule, Push
<1>3. ASSUME NEW i \in ConnIds, ActorDone(i) \/ Reap(i) PROVE KeyInHand'
  BY <1>3 DEF ActorDone, Reap
<1>4. CASE (\E s \in Slots : Expire(s)) \/ Shutdown \/ Drain
  BY <1>4 DEF Expire, Shutdown, Drain
<1> QED BY <1>1, <1>2, <1>3, <1>4 DEF PoolNext

LEMMA PoolInitHolds == PoolInit => PoolInv
<1> SUFFICES ASSUME PoolInit PROVE PoolInv
  OBVIOUS
<1>1. Holders = {} /\ Working = {}
  BY DEF PoolInit, Holders, Working, Attached
<1>2. Cardinality(Holders) = 0 /\ Cardinality(Working) = 0
  BY <1>1, FS_EmptySet
<1>3. PoolTypeOK
  <2>1. idle \in Seq(IdleConn)
    BY DEF PoolInit
  <2>2. 0 \in 0 .. MaxConns /\ MaxSize \in 0 .. MaxSize
    OBVIOUS
  <2> QED BY <2>1, <2>2 DEF PoolInit, PoolTypeOK, CallerPcs
<1>4. Len(idle) = 0
  BY DEF PoolInit
<1> QED BY <1>2, <1>3, <1>4 DEF PoolInit, PoolInv, IdsDialled, OnePlace, Marks, KeyInHand, Counts, Attached, Owns,
           NoneOutlivesSession

LEMMA PoolStepHolds == PoolInv /\ [PoolNext]_poolVars => PoolInv'
<1>1. ASSUME PoolInv, PoolNext PROVE PoolInv'
  BY <1>1, TypesHold, IdsHold, PlacesHold, MarksHold, KeysHold, CountsHold, EndsHold DEF PoolInv
<1>2. ASSUME PoolInv, UNCHANGED poolVars PROVE PoolInv'
  BY <1>2 DEF poolVars, connVars, PoolInv, PoolTypeOK, IdsDialled, OnePlace, Marks, KeyInHand, Counts,
              Attached, Owns, Holders, Working, NoneOutlivesSession, Spawned
<1> QED BY <1>1, <1>2

\* Types of the pool, permits between none and all of them included.
THEOREM PoolTypes == PoolSpec => []PoolTypeOK
<1>1. PoolInv => PoolTypeOK
  BY DEF PoolInv
<1> QED BY <1>1, PoolInitHolds, PoolStepHolds, PTL DEF PoolSpec

\* The pool has at most MaxSize connections, each in one place and none closed under its
\* user but by its own failure or with the whole session, and none is open behind a
\* shutdown, for any number of callers (session.rs:455, session.rs:481, session.rs:521).
THEOREM PoolStaysExclusive == PoolSpec => []PoolIsExclusive
<1>1. ASSUME PoolInv PROVE PoolIsExclusive
  <2>1. PoolBounded
    <3>1. Working = {c \in Callers : pc[c] \in {"dial", "lease", "push"}}
      BY DEF Working, Attached
    <3> QED BY <1>1, <3>1, Finite DEF PoolInv, Counts, PoolBounded
  <2>2. OneOwner
    BY <1>1, Stacked DEF PoolInv, OneOwner, OnePlace, Attached, Owns
  <2>3. ReapSparesLeased
    BY <1>1 DEF PoolInv, ReapSparesLeased, Marks, Owns
  <2> QED BY <1>1, <2>1, <2>2, <2>3 DEF PoolIsExclusive, PoolInv
<1> QED BY <1>1, PoolInitHolds, PoolStepHolds, PTL DEF PoolSpec

\* Nobody is ever given a connection that is known to have failed, nor one that is closed
\* unless the session was shut down meanwhile (session.rs:456).
THEOREM UsableOnly == PoolSpec => HandsOutUsable
<1>1. ASSUME PoolInv, [PoolNext]_poolVars, NEW c \in Callers,
             pc[c] \in {"pick", "dial"}, pc'[c] = "lease"
      PROVE  mine'[c] \notin poisoned /\ (mine'[c] \in closed' => cancelled)
  <2>1. PoolTypeOK /\ pc'[c] # pc[c]
    BY <1>1 DEF PoolInv
  <2>2. CASE TakeIdle(c)
    BY <1>1, <2>1, <2>2, Stacked DEF TakeIdle, PoolInv, Marks, PoolTypeOK
  <2>3. CASE Dialled(c)
    BY <1>1, <2>3 DEF Dialled, PoolInv, Marks
  <2>4. TakeIdle(c) \/ Dialled(c)
    <3>1. PoolNext
      BY <1>1, <2>1 DEF poolVars
    <3>2. ASSUME NEW d \in Callers,
                 \/ Acquire(d) \/ Permit(d) \/ TakeIdle(d) \/ Dial(d) \/ Dialled(d) \/ DialFails(d)
                 \/ UseFails(d) \/ Abandon(d) \/ Evict(d) \/ Schedule(d) \/ Push(d) \/ Unpermit(d)
          PROVE  TakeIdle(c) \/ Dialled(c)
      <4>1. \A l \in CallerPcs : Goto(d, l) => l = "lease" /\ d = c
        BY <1>1, <2>1 DEF Goto, PoolTypeOK
      <4> QED BY <1>1, <2>1, <3>2, <4>1 DEF Acquire, Permit, TakeIdle, Dial, Dialled, DialFails, UseFails,
                          Abandon, Evict, Schedule, Push, Unpermit, CallerPcs
    <3>3. UNCHANGED pc => FALSE
      BY <2>1
    <3>4. ASSUME NEW i \in ConnIds, ActorDone(i) \/ Reap(i) PROVE FALSE
      BY <3>3, <3>4 DEF ActorDone, Reap
    <3>5. ASSUME (\E s \in Slots : Expire(s)) \/ Shutdown \/ Drain PROVE FALSE
      BY <3>3, <3>5 DEF Expire, Shutdown, Drain
    <3> QED BY <3>1, <3>2, <3>4, <3>5 DEF PoolNext
  <2> QED BY <2>2, <2>3, <2>4
<1>2. PoolInv /\ [PoolNext]_poolVars =>
        [\A c \in Callers : pc[c] \in {"pick", "dial"} /\ pc'[c] = "lease" =>
            /\ mine'[c] \notin poisoned
            /\ mine'[c] \in closed' => cancelled]_poolVars
  BY <1>1
<1> QED BY <1>2, PoolInitHolds, PoolStepHolds, PTL DEF PoolSpec, HandsOutUsable

----------------------------------------------------------------------------
(***************************************************************************)
(* SessionPool implements Leases.                                          *)
(*                                                                         *)
(* A connection is a user's from its dial until it is on the stack again.  *)
(* That there is room when one is dialled is the bound of the pool: the    *)
(* stack is empty, and the caller is a holder of a permit that has no      *)
(* connection yet.                                                         *)
(***************************************************************************)

Leased == [c \in Callers |-> IF pc[c] \in {"dial", "lease", "push"} THEN mine[c] ELSE NoConn]
Stock == {idle[k].id : k \in DOMAIN idle}

\* Leases counts as its users do.
LEMMA LeasesCount == \A S : PoolLeases!Cardinality(S) = Cardinality(S)
BY DEF PoolLeases!Cardinality, Cardinality

LEMMA NoneInStock == (idle = <<>> => Stock = {}) /\ (idle' = <<>> => Stock' = {})
<1>1. DOMAIN <<>> = {}
  OBVIOUS
<1>2. idle = <<>> => DOMAIN idle = {}
  BY <1>1
<1>3. idle' = <<>> => DOMAIN idle' = {}
  BY <1>1
<1> QED BY <1>2, <1>3 DEF Stock

LEMMA LeaseValues ==
    ASSUME PoolInv
    PROVE  /\ \A c \in Callers : Leased[c] = IF Attached(c) THEN mine[c] ELSE NoConn
           /\ \A c \in Callers : Attached(c) => mine[c] \in 1 .. dialled
           /\ Stock \subseteq 1 .. dialled /\ 1 .. dialled \subseteq ConnIds /\ dialled \in Nat
           /\ Stock = {idle[k].id : k \in 1 .. Len(idle)} /\ NoConn \notin 1 .. dialled
<1>1. dialled \in 0 .. MaxConns
  BY DEF PoolInv, PoolTypeOK
<1>2. Stock = {idle[k].id : k \in 1 .. Len(idle)}
  BY Stacked DEF PoolInv, Stock
<1>3. \A c \in Callers : Leased[c] = IF Attached(c) THEN mine[c] ELSE NoConn
  BY DEF Leased, Attached
<1> QED BY <1>1, <1>2, <1>3 DEF PoolInv, IdsDialled

\* A step of one caller changes what that caller has, if anything.
LEMMA OneLease ==
    ASSUME PoolTypeOK, NEW c \in Callers, NEW l \in CallerPcs, Goto(c, l),
           \A d \in Callers \ {c} : mine'[d] = mine[d]
    PROVE  /\ Leased' = [Leased EXCEPT ![c] = IF l \in {"dial", "lease", "push"} THEN mine'[c] ELSE NoConn]
<1>1. pc' = [pc EXCEPT ![c] = l] /\ pc \in [Callers -> CallerPcs]
  BY DEF Goto, PoolTypeOK
<1> QED BY <1>1 DEF Leased

\* There is room for another while a caller with a permit has none.
LEMMA RoomForOne ==
    ASSUME PoolInv, NEW c \in Callers, pc[c] = "pick", idle = <<>>
    PROVE  Cardinality(({Leased[d] : d \in Callers} \ {NoConn}) \cup Stock) < MaxSize
<1> DEFINE held == {Leased[d] : d \in Callers} \ {NoConn}
           f == [d \in Working |-> mine[d]]
<1>1. Stock = {}
  BY NoneInStock
<1>2. held = {mine[d] : d \in Working}
  BY LeaseValues DEF Working
<1>3. f \in Surjection(Working, held)
  BY <1>2 DEF Surjection
<1>4. Cardinality(held) <= Cardinality(Working) /\ IsFiniteSet(held)
  BY <1>3, Finite, FS_Surjection
<1>5. Cardinality(Working) < Cardinality(Holders)
  <2>1. Working \in SUBSET Holders /\ c \in Holders \ Working
    BY DEF Holders, Working, Attached
  <2>2. Cardinality(Working) # Cardinality(Holders)
    BY <2>1, Finite, FS_Subset
  <2> QED BY <2>2, Finite
<1>6. Cardinality(Holders) <= MaxSize
  BY Finite DEF PoolInv, PoolTypeOK, Counts
<1>7. Cardinality(held) \in Nat
  BY <1>4, FS_CardinalityType
<1>8. Cardinality(held) < MaxSize
  <2> HIDE DEF held
  <2> QED BY <1>4, <1>5, <1>6, <1>7, Finite
<1>9. held \cup Stock = held
  BY <1>1
<1> QED BY <1>8, <1>9

LEMMA LeasesStart == PoolInit => PoolLeases!LeaseInit
<1> SUFFICES ASSUME PoolInit PROVE PoolLeases!LeaseInit
  OBVIOUS
<1>1. Leased = [c \in Callers |-> NoConn]
  BY DEF PoolInit, Leased
<1>2. Stock = {} /\ 1 .. dialled = {}
  BY NoneInStock DEF PoolInit
<1>3. Stock \in SUBSET ConnIds /\ Cardinality(Stock) <= MaxSize
  BY <1>2, FS_EmptySet
<1> QED BY <1>1, <1>2, <1>3, LeasesCount DEF PoolLeases!LeaseInit, Leased, Stock

LEMMA LeaseMoves == ASSUME PoolInv, [PoolNext]_poolVars PROVE [PoolLeases!LeaseNext]_(PoolLeases!leaseVars)
<1> USE DEF PoolInv
<1>1. ASSUME UNCHANGED <<Leased, Stock, dialled>> PROVE UNCHANGED PoolLeases!leaseVars
  BY <1>1 DEF PoolLeases!leaseVars, Leased, Stock
<1>2. ASSUME Stock' \subseteq Stock, UNCHANGED <<Leased, dialled>> PROVE PoolLeases!Reap
  <2>1. Stock' = Stock \ (Stock \ Stock')
    BY <1>2
  <2> QED BY <1>2, <2>1 DEF PoolLeases!Reap, Leased, Stock
<1>3. ASSUME NEW c \in Callers,
             Acquire(c) \/ Permit(c) \/ Dialled(c) \/ UseFails(c) \/ Abandon(c) \/ Schedule(c) \/ Unpermit(c)
      PROVE  UNCHANGED <<Leased, Stock, dialled>>
  <2>1. UNCHANGED <<mine, idle, dialled>> /\ pc \in [Callers -> CallerPcs]
    BY <1>3 DEF Acquire, Permit, Dialled, UseFails, Abandon, Schedule, Unpermit, PoolTypeOK
  <2>2. \A d \in Callers : pc'[d] \in {"dial", "lease", "push"} <=> pc[d] \in {"dial", "lease", "push"}
    BY <1>3, <2>1 DEF Acquire, Permit, Dialled, UseFails, Abandon, Schedule, Unpermit, Goto
  <2> QED BY <2>1, <2>2 DEF Leased, Stock
<1>4. ASSUME NEW c \in Callers, TakeIdle(c) PROVE PoolLeases!Reap \/ PoolLeases!Take(c)
  <2> DEFINE top == idle[Len(idle)]
  <2>1. /\ Len(idle) \in 1 .. Len(idle) /\ dialled' = dialled /\ Len(idle') = Len(idle) - 1 /\ idle' \in Seq(IdleConn)
        /\ \A k \in 1 .. Len(idle) - 1 : idle'[k] = idle[k]
    BY <1>4, Popped, Stacked DEF TakeIdle
  <2>2. Stock' = Stock \ {top.id} /\ top.id \in Stock
    <3>1. Stock = {idle[k].id : k \in 1 .. Len(idle)} /\ Stock' = {idle'[k].id : k \in 1 .. Len(idle) - 1}
      BY <2>1, LeaseValues DEF Stock
    <3>2. 1 .. Len(idle) - 1 = (1 .. Len(idle)) \ {Len(idle)}
      BY <2>1
    <3>3. \A k \in 1 .. Len(idle) - 1 : idle[k].id # top.id
      BY <2>1, <3>2 DEF OnePlace
    <3> QED BY <2>1, <3>1, <3>2, <3>3
  <2>3. CASE top.id \in poisoned
    <3>1. UNCHANGED <<Leased, dialled>>
      BY <1>4, <2>3 DEF TakeIdle, Leased
    <3> QED BY <1>2, <2>2, <3>1
  <2>4. CASE top.id \notin poisoned
    <3>1. pc[c] = "pick" /\ Goto(c, "lease") /\ mine' = [mine EXCEPT ![c] = top.id]
      BY <1>4, <2>4 DEF TakeIdle
    <3>2. mine'[c] = top.id /\ \A d \in Callers \ {c} : mine'[d] = mine[d]
      BY <3>1 DEF PoolTypeOK
    <3>3. Leased' = [Leased EXCEPT ![c] = top.id] /\ Leased[c] = NoConn
      BY <3>1, <3>2, OneLease DEF CallerPcs, Leased
    <3> HIDE DEF top
    <3> QED BY <2>1, <2>2, <3>3 DEF PoolLeases!Take, Leased, Stock
  <2> QED BY <2>3, <2>4
<1>5. ASSUME NEW c \in Callers, Dial(c) PROVE PoolLeases!Open(c)
  <2>1. /\ pc[c] = "pick" /\ idle = <<>> /\ idle' = idle /\ Goto(c, "dial")
        /\ mine' = [mine EXCEPT ![c] = dialled + 1] /\ dialled < MaxConns /\ dialled' = dialled + 1
    BY <1>5 DEF Dial
  <2>2. mine'[c] = dialled + 1 /\ \A d \in Callers \ {c} : mine'[d] = mine[d]
    BY <2>1 DEF PoolTypeOK
  <2>3. Leased' = [Leased EXCEPT ![c] = dialled + 1] /\ Leased[c] = NoConn
    BY <2>1, <2>2, OneLease DEF CallerPcs, Leased
  <2>4. dialled + 1 \in ConnIds \ 1 .. dialled /\ 1 .. dialled' = 1 .. dialled \cup {dialled + 1}
    BY <2>1 DEF PoolTypeOK
  <2>5. Cardinality(({Leased[d] : d \in Callers} \ {NoConn}) \cup Stock) < MaxSize /\ Stock' = Stock
    BY <2>1, RoomForOne DEF Stock
  <2> QED BY <2>3, <2>4, <2>5, LeasesCount DEF PoolLeases!Open, PoolLeases!Held, Leased, Stock
<1>6. ASSUME NEW c \in Callers, DialFails(c) \/ Evict(c) PROVE PoolLeases!GiveUp(c)
  <2>1. /\ Attached(c) /\ UNCHANGED <<idle, dialled>> /\ Goto(c, "unpermit") /\ mine' = [mine EXCEPT ![c] = NoConn]
    BY <1>6 DEF DialFails, Evict, Attached
  <2>2. \A d \in Callers \ {c} : mine'[d] = mine[d]
    BY <2>1 DEF PoolTypeOK
  <2>3. Leased' = [Leased EXCEPT ![c] = NoConn] /\ Leased[c] # NoConn /\ Stock' = Stock
    BY <2>1, <2>2, OneLease, LeaseValues DEF CallerPcs, Stock
  <2> QED BY <2>1, <2>3 DEF PoolLeases!GiveUp, Leased, Stock
<1>7. ASSUME NEW c \in Callers, Push(c) PROVE PoolLeases!GiveBack(c)
  <2>1. /\ pc[c] = "push" /\ dialled' = dialled /\ Goto(c, "unpermit") /\ mine' = [mine EXCEPT ![c] = NoConn]
        /\ idle' = Append(idle, [id |-> mine[c], reap |-> key[c]])
    BY <1>7 DEF Push
  <2>2. \A d \in Callers \ {c} : mine'[d] = mine[d]
    BY <2>1 DEF PoolTypeOK
  <2>3. Leased' = [Leased EXCEPT ![c] = NoConn] /\ Leased[c] = mine[c] /\ mine[c] # NoConn
    BY <2>1, <2>2, OneLease, LeaseValues DEF CallerPcs, Attached
  <2>4. Stock' = Stock \cup {mine[c]}
    <3>1. /\ Len(idle) \in Nat /\ DOMAIN idle' = 1 .. Len(idle) + 1 /\ idle'[Len(idle) + 1].id = mine[c]
          /\ \A k \in 1 .. Len(idle) : idle'[k] = idle[k]
      BY <2>1, Stacked
    <3>2. 1 .. Len(idle) + 1 = 1 .. Len(idle) \cup {Len(idle) + 1}
      BY <3>1
    <3>3. Stock = {idle[k].id : k \in 1 .. Len(idle)} /\ Stock' = {idle'[k].id : k \in 1 .. Len(idle) + 1}
      BY <3>1, LeaseValues DEF Stock
    <3> QED BY <3>1, <3>2, <3>3
  <2> QED BY <2>1, <2>3, <2>4 DEF PoolLeases!GiveBack, Leased, Stock
<1>8. ASSUME NEW i \in ConnIds, ActorDone(i) PROVE UNCHANGED <<Leased, Stock, dialled>>
  BY <1>8 DEF ActorDone, Leased, Stock
<1>9. ASSUME NEW i \in ConnIds, Reap(i) PROVE PoolLeases!Reap
  <2>1. UNCHANGED <<pc, mine, dialled>>
    BY <1>9 DEF Reap
  <2>2. idle' = idle \/ LeftIdle(i)
    BY <1>9, ReapLeaves
  <2>3. CASE idle' = idle
    BY <1>2, <2>1, <2>3 DEF Leased, Stock
  <2>4. CASE LeftIdle(i)
    <3>1. DOMAIN idle' = 1 .. Len(idle')
      <4>1. idle' \in Seq(IdleConn)
        BY <1>9, TypesHold DEF PoolNext, PoolTypeOK
      <4> QED BY <4>1
    <3>2. Stock' \subseteq Stock
      BY <2>4, <3>1, LeaseValues DEF LeftIdle, Stock
    <3>3. UNCHANGED <<Leased, dialled>>
      BY <2>1 DEF Leased
    <3> QED BY <1>2, <3>2, <3>3
  <2> QED BY <2>2, <2>3, <2>4
<1>10. ASSUME NEW s \in Slots, Expire(s) PROVE UNCHANGED <<Leased, Stock, dialled>>
  BY <1>10 DEF Expire, Leased, Stock
<1>11. ASSUME Shutdown \/ UNCHANGED poolVars PROVE UNCHANGED <<Leased, Stock, dialled>>
  BY <1>11 DEF Shutdown, Leased, Stock, poolVars
<1>12. ASSUME Drain PROVE PoolLeases!Reap
  <2>1. Stock' = {} /\ UNCHANGED <<Leased, dialled>>
    BY <1>12, NoneInStock DEF Drain, Leased
  <2> QED BY <1>2, <2>1
<1> HIDE DEF PoolInv
<1> QED BY <1>1, <1>3, <1>4, <1>5, <1>6, <1>7, <1>8, <1>9, <1>10, <1>11, <1>12 DEF PoolNext, PoolLeases!LeaseNext

\* To its callers the pool of a session is one where a connection is idle or one user's,
\* of at most MaxSize, and taken and given back in one step: permits, timer keys that are
\* used again and reap events that come late do not show (session.rs, acquire and release).
THEOREM PoolIsLeases == PoolSpec => PoolImplementsLeases
BY LeasesStart, LeaseMoves, PoolInitHolds, PoolStepHolds, PTL
   DEF PoolSpec, PoolImplementsLeases, PoolLeases!LeaseSpec

HIDE PoolAssumption DEF ConnIds

-----------------------------------------------------------------------------
(***************************************************************************)
(* SafetyGate                                                              *)
(*                                                                         *)
(* One confirmation clears one request, for any number of tasks, texts and *)
(* changes of the rung, and for lists of any length.                       *)
(*                                                                         *)
(* The argument: challenges are numbered and a number is never used again. *)
(* A number is that of an open challenge, or of grants, or of spent        *)
(* grants, and what satisfies a challenge takes its number from the first  *)
(* to the second.  Lists only lose entries otherwise, whether they         *)
(* overflow, expire or are cleared.                                        *)
(***************************************************************************)

Name(g) == [id |-> g.id, nth |-> g.nth]

\* Numbers come from the challenges minted so far, one each.
Numbered ==
    /\ \A i \in 1 .. Len(pending) : pending[i].id \in 1 .. next
    /\ \A i, j \in 1 .. Len(pending) : pending[i].id = pending[j].id => i = j
    /\ \A i \in 1 .. Len(grants) : grants[i].id \in 1 .. next
    /\ \A s \in spent : s.id \in 1 .. next

\* A grant is one of a kind, and spent once.
GrantsOnce ==
    /\ \A i \in 1 .. Len(grants) : Name(grants[i]) \notin spent
    /\ \A i, j \in 1 .. Len(grants) : Name(grants[i]) = Name(grants[j]) => i = j

\* A challenge that is open has granted nothing.
OpenIsUngranted ==
    \A i \in 1 .. Len(pending) :
        /\ \A j \in 1 .. Len(grants) : grants[j].id # pending[i].id
        /\ \A s \in spent : s.id # pending[i].id

\* A caller in a method has a text.
HasText == \A c \in Tasks : call[c] # Out => call[c].text \in Texts /\ call[c].seen <= Len(call[c].text)

GateInv == GateTypeOK /\ HasText /\ Numbered /\ GrantsOnce /\ OpenIsUngranted

USE GateAssumption

----------------------------------------------------------------------------
(* Lists that lose entries *)

\* t has some of the entries of s, each at most once, in any order.
Thinned(t, s) ==
    \E f \in [1 .. Len(t) -> 1 .. Len(s)] :
        /\ \A i, j \in 1 .. Len(t) : f[i] = f[j] => i = j
        /\ \A i \in 1 .. Len(t) : t[i] = s[f[i]]

LEMMA NewestThins ==
    ASSUME NEW S, NEW s \in Seq(S), NEW max \in Nat
    PROVE  /\ Newest(max, s) \in Seq(S) /\ Len(Newest(max, s)) <= max
           /\ Thinned(Newest(max, s), s)
<1>1. Len(s) \in Nat
  OBVIOUS
<1>2. CASE Len(s) <= max
  <2>1. Newest(max, s) = s
    BY <1>1, <1>2 DEF Newest
  <2> DEFINE f == [i \in 1 .. Len(s) |-> i]
  <2>2. f \in [1 .. Len(s) -> 1 .. Len(s)]
    OBVIOUS
  <2>3. /\ \A i, j \in 1 .. Len(s) : f[i] = f[j] => i = j
        /\ \A i \in 1 .. Len(s) : s[i] = s[f[i]]
    OBVIOUS
  <2> HIDE DEF f
  <2> QED BY <1>2, <2>1, <2>2, <2>3 DEF Thinned
<1>3. CASE Len(s) > max
  <2> DEFINE d == Len(s) - max
             t == SubSeq(s, d + 1, Len(s))
  <2>1. Newest(max, s) = t
    BY <1>1, <1>3 DEF Newest
  <2>2. t \in Seq(S) /\ Len(t) = max /\ \A i \in 1 .. max : t[i] = s[i + d]
    BY <1>1, <1>3
  <2> DEFINE f == [i \in 1 .. max |-> i + d]
  <2>3. f \in [1 .. max -> 1 .. Len(s)]
    BY <1>1, <1>3
  <2>4. \A i, j \in 1 .. max : f[i] = f[j] => i = j
    BY <1>1, <1>3
  <2>5. \A i \in 1 .. max : t[i] = s[f[i]]
    BY <2>2
  <2> HIDE DEF t, f
  <2>6. 1 .. Len(t) = 1 .. max /\ Len(t) <= max
    BY <2>2
  <2>7. Thinned(t, s)
    BY <2>3, <2>4, <2>5, <2>6 DEF Thinned
  <2> QED BY <2>1, <2>2, <2>6, <2>7
<1> QED BY <1>1, <1>2, <1>3

LEMMA TailThins ==
    ASSUME NEW S, NEW s \in Seq(S), s # <<>>
    PROVE  Tail(s) \in Seq(S) /\ Len(Tail(s)) <= Len(s) /\ Thinned(Tail(s), s)
<1>1. /\ Len(s) \in Nat \ {0} /\ Tail(s) \in Seq(S) /\ Len(Tail(s)) = Len(s) - 1
      /\ \A i \in 1 .. Len(s) - 1 : Tail(s)[i] = s[i + 1]
  OBVIOUS
<1> DEFINE f == [i \in 1 .. Len(s) - 1 |-> i + 1]
<1>2. /\ f \in [1 .. Len(s) - 1 -> 1 .. Len(s)]
      /\ \A i, j \in 1 .. Len(s) - 1 : f[i] = f[j] => i = j
      /\ \A i \in 1 .. Len(s) - 1 : Tail(s)[i] = s[f[i]]
  BY <1>1
<1> HIDE DEF f
<1> QED BY <1>1, <1>2 DEF Thinned

LEMMA RemoveThins ==
    ASSUME NEW S, NEW s \in Seq(S), NEW k \in 1 .. Len(s)
    PROVE  /\ RemoveAt(s, k) \in Seq(S) /\ Len(RemoveAt(s, k)) <= Len(s)
           /\ Thinned(RemoveAt(s, k), s)
           /\ \A i \in 1 .. Len(RemoveAt(s, k)) : \E m \in 1 .. Len(s) : m # k /\ RemoveAt(s, k)[i] = s[m]
<1> DEFINE l == SubSeq(s, 1, k - 1)
           r == SubSeq(s, k + 1, Len(s))
<1>1. Len(s) \in Nat /\ k \in Nat \ {0} /\ k <= Len(s)
  OBVIOUS
<1>2. l \in Seq(S) /\ Len(l) = k - 1 /\ \A j \in 1 .. k - 1 : l[j] = s[j]
  OBVIOUS
<1>3. r \in Seq(S) /\ Len(r) = Len(s) - k /\ \A j \in 1 .. Len(s) - k : r[j] = s[k + j]
  OBVIOUS
<1>4. RemoveAt(s, k) = l \o r
  BY DEF RemoveAt
<1> HIDE DEF l, r
<1>5. /\ l \o r \in Seq(S) /\ Len(l \o r) = Len(s) - 1
      /\ \A j \in 1 .. Len(s) - 1 : (l \o r)[j] = IF j <= k - 1 THEN l[j] ELSE r[j - (k - 1)]
  <2>1. /\ l \o r \in Seq(S) /\ Len(l \o r) = Len(l) + Len(r)
        /\ \A j \in 1 .. Len(l) + Len(r) : (l \o r)[j] = IF j <= Len(l) THEN l[j] ELSE r[j - Len(l)]
    BY <1>2, <1>3, ConcatProperties
  <2>2. Len(l) = k - 1 /\ Len(l) + Len(r) = Len(s) - 1
    BY <1>1, <1>2, <1>3
  <2> QED BY <2>1, <2>2
<1> DEFINE f == [j \in 1 .. Len(s) - 1 |-> IF j < k THEN j ELSE j + 1]
<1>6. /\ f \in [1 .. Len(s) - 1 -> 1 .. Len(s)]
      /\ \A i, j \in 1 .. Len(s) - 1 : f[i] = f[j] => i = j
      /\ \A i \in 1 .. Len(s) - 1 : f[i] # k
  BY <1>1
<1>7. \A i \in 1 .. Len(s) - 1 : (l \o r)[i] = s[f[i]]
  BY <1>1, <1>2, <1>3, <1>5
<1> HIDE DEF f
<1>8. /\ f \in [1 .. Len(l \o r) -> 1 .. Len(s)]
      /\ \A i, j \in 1 .. Len(l \o r) : f[i] = f[j] => i = j
      /\ \A i \in 1 .. Len(l \o r) : f[i] # k
      /\ \A i \in 1 .. Len(l \o r) : (l \o r)[i] = s[f[i]]
  BY <1>5, <1>6, <1>7
<1>9. Thinned(l \o r, s)
  BY <1>8 DEF Thinned
<1>10. \A i \in 1 .. Len(l \o r) : \E m \in 1 .. Len(s) : m # k /\ (l \o r)[i] = s[m]
  BY <1>8
<1>11. l \o r \in Seq(S) /\ Len(l \o r) <= Len(s)
  BY <1>1, <1>5
<1> QED BY <1>4, <1>9, <1>10, <1>11

\* What holds of the entries of a list one by one, or two by two, goes on to hold.
LEMMA ThinnedKeeps ==
    ASSUME NEW s, NEW t, Len(s) \in Nat, Len(t) \in Nat, Thinned(t, s)
    PROVE  /\ \A i \in 1 .. Len(t) : \E m \in 1 .. Len(s) : t[i] = s[m]
           /\ (\A i, j \in 1 .. Len(s) : s[i].id = s[j].id => i = j) =>
                 \A i, j \in 1 .. Len(t) : t[i].id = t[j].id => i = j
           /\ (\A i, j \in 1 .. Len(s) : Name(s[i]) = Name(s[j]) => i = j) =>
                 \A i, j \in 1 .. Len(t) : Name(t[i]) = Name(t[j]) => i = j
<1>1. PICK f \in [1 .. Len(t) -> 1 .. Len(s)] :
        /\ \A i, j \in 1 .. Len(t) : f[i] = f[j] => i = j
        /\ \A i \in 1 .. Len(t) : t[i] = s[f[i]]
  BY DEF Thinned
<1>2. \A i \in 1 .. Len(t) : f[i] \in 1 .. Len(s) /\ t[i] = s[f[i]]
  BY <1>1
<1>3. ASSUME \A i, j \in 1 .. Len(s) : s[i].id = s[j].id => i = j,
             NEW i \in 1 .. Len(t), NEW j \in 1 .. Len(t), t[i].id = t[j].id
      PROVE  i = j
  <2>1. f[i] = f[j]
    BY <1>2, <1>3
  <2> QED BY <1>1, <2>1
<1>4. ASSUME \A i, j \in 1 .. Len(s) : Name(s[i]) = Name(s[j]) => i = j,
             NEW i \in 1 .. Len(t), NEW j \in 1 .. Len(t), Name(t[i]) = Name(t[j])
      PROVE  i = j
  <2>1. f[i] = f[j]
    BY <1>2, <1>4
  <2> QED BY <1>1, <2>1
<1> QED BY <1>2, <1>3, <1>4

----------------------------------------------------------------------------
(* Types *)

LEMMA ListTypes ==
    ASSUME GateTypeOK
    PROVE  /\ pending \in Seq(Challenges) /\ Len(pending) \in Nat /\ DOMAIN pending = 1 .. Len(pending)
           /\ grants \in Seq(Grants) /\ Len(grants) \in Nat /\ DOMAIN grants = 1 .. Len(grants)
           /\ \A i \in 1 .. Len(pending) :
                 /\ pending[i] \in Challenges
                 /\ pending[i].id \in Ids /\ pending[i].need \in Requirements
                 /\ pending[i].bindings \in Seq(Texts)
           /\ \A i \in 1 .. Len(grants) : grants[i].id \in Ids /\ grants[i].nth \in Nat
<1>1. /\ pending \in Seq(Challenges) /\ Len(pending) \in Nat /\ DOMAIN pending = 1 .. Len(pending)
      /\ grants \in Seq(Grants) /\ Len(grants) \in Nat /\ DOMAIN grants = 1 .. Len(grants)
      /\ \A i \in 1 .. Len(pending) : pending[i] \in Challenges
      /\ \A i \in 1 .. Len(grants) : grants[i] \in Grants
  BY DEF GateTypeOK
<1>2. \A p \in Challenges : p.id \in Ids /\ p.need \in Requirements /\ p.bindings \in Seq(Texts)
  BY DEF Challenges
<1>3. \A g \in Grants : g.id \in Ids /\ g.nth \in Nat
  BY DEF Grants
<1> QED BY <1>1, <1>2, <1>3

\* A text of one statement is a text.
LEMMA Singles == \A s \in Statements : <<s>> \in Texts
<1> TAKE s \in Statements
<1>1. <<s>> \in [1 .. 1 -> Statements] /\ 1 \in 0 .. MaxScript /\ <<s>> # NoText
  BY DEF NoText
<1> QED BY <1>1 DEF Texts, BoundedSeq, SeqOf

LEMMA TextsAreSequences ==
    ASSUME NEW t \in Texts
    PROVE  t \in Seq(Statements) /\ Len(t) \in 1 .. MaxScript /\ DOMAIN t = 1 .. Len(t)
<1>1. PICK n \in 0 .. MaxScript : t \in [1 .. n -> Statements]
  BY DEF Texts, BoundedSeq, SeqOf
<1>2. n \in Nat /\ t \in Seq(Statements) /\ Len(t) = n /\ DOMAIN t = 1 .. n
  BY <1>1
<1>3. n # 0
  BY <1>1 DEF Texts, NoText
<1> QED BY <1>1, <1>2, <1>3

LEMMA BindingsAreTexts == ASSUME NEW t \in Texts PROVE Bindings(t) \in Seq(Texts)
<1> DEFINE b == [i \in DOMAIN t |-> <<t[i]>>]
           w == IF Len(t) > 1 THEN <<t>> ELSE <<>>
<1>1. t \in Seq(Statements) /\ Len(t) \in Nat /\ DOMAIN t = 1 .. Len(t)
  BY TextsAreSequences
<1>2. \A i \in 1 .. Len(t) : <<t[i]>> \in Texts
  BY <1>1, Singles
<1>3. b \in [1 .. Len(t) -> Texts]
  BY <1>1, <1>2
<1>4. b \in Seq(Texts)
  BY <1>1, <1>3
<1>5. w \in Seq(Texts)
  OBVIOUS
<1> HIDE DEF b, w
<1>6. b \o w \in Seq(Texts)
  BY <1>4, <1>5, ConcatProperties
<1> QED BY <1>6 DEF Bindings, b, w

LEMMA RequirementTypes == \A l \in Levels : \A read : Requirement(l, read) \in Requirements
BY DEF Requirement, Requirements, SafetyLevels

CallRecord == [pc : {"out", "check", "refuse", "plan"}, text : Texts \cup {NoText}, need : Requirements,
               seen : 0 .. MaxScript]

LEMMA OutIsACall == Out \in CallRecord
BY DEF Out, CallRecord, Requirements

\* The methods' own variable.
CallOK == call \in [Tasks -> CallRecord] /\ HasText

LEMMA CallHolds == ASSUME GateInv, GateNext PROVE CallOK'
<1>1. call \in [Tasks -> CallRecord] /\ HasText /\ level \in Levels
  BY DEF GateInv, GateTypeOK, CallRecord
<1>2. ASSUME NEW c \in Tasks, NEW t \in Texts, Admit(c, t) \/ Plan(c, t) PROVE CallOK'
  <2>1. \A need \in Requirements, step \in {"check", "plan"} :
          [pc |-> step, text |-> t, need |-> need, seen |-> 0] \in CallRecord
    BY DEF CallRecord
  <2>2. \E r \in CallRecord : call' = [call EXCEPT ![c] = r] /\ r.text = t /\ r.seen = 0
    BY <1>1, <1>2, <2>1, RequirementTypes DEF Admit, Plan, Requirements
  <2> QED BY <1>1, <2>2, TextsAreSequences DEF CallOK, HasText
<1>3. ASSUME NEW c \in Tasks, Return(c) PROVE CallOK'
  BY <1>1, <1>3, OutIsACall DEF Return, CallOK, HasText
<1>4. ASSUME NEW c \in Tasks, Check(c) PROVE CallOK'
  <2>1. CASE call' = [call EXCEPT ![c].pc = "refuse"]
    <3>1. call[c] \in CallRecord /\ call[c] # Out
      BY <1>1, <1>4 DEF Check, Out
    <3>2. [call[c] EXCEPT !.pc = "refuse"] \in CallRecord
      BY <3>1 DEF CallRecord
    <3> QED BY <1>1, <2>1, <3>1, <3>2 DEF CallOK, HasText, CallRecord
  <2> QED BY <1>3, <1>4, <2>1 DEF Check
<1>5. ASSUME NEW c \in Tasks, PlanStatement(c) PROVE CallOK'
  <2>1. call[c] \in CallRecord /\ call[c] # Out /\ call[c].text \in Texts
    BY <1>1, <1>5 DEF PlanStatement, Out, HasText
  <2>2. /\ call[c].seen \in Nat /\ call[c].seen < Len(call[c].text) /\ Len(call[c].text) <= MaxScript
        /\ Len(call[c].text) \in Nat /\ call[c].need \in Requirements
    BY <1>5, <2>1, TextsAreSequences DEF PlanStatement, CallRecord
  <2>3. \A a, b \in Requirements : Higher(a, b) \in Requirements
    BY DEF Higher
  <2> DEFINE r(need) == [pc |-> "plan", text |-> call[c].text, seen |-> call[c].seen + 1, need |-> need]
  <2>4. PICK need \in Requirements : call' = [call EXCEPT ![c] = r(need)]
    BY <1>1, <1>5, <2>2, <2>3, RequirementTypes DEF PlanStatement
  <2>5. r(need) \in CallRecord /\ r(need).text = call[c].text /\ r(need).seen = call[c].seen + 1
    BY <2>1, <2>2 DEF CallRecord
  <2> HIDE DEF r
  <2> QED BY <1>1, <2>1, <2>2, <2>4, <2>5 DEF CallOK, HasText
<1>6. ASSUME UNCHANGED call PROVE CallOK'
  BY <1>1, <1>6 DEF CallOK, HasText
<1>7. ASSUME NEW c \in Tasks, Refuse(c) \/ Planned(c) PROVE CallOK'
  BY <1>3, <1>7 DEF Refuse, Planned
<1>8. ASSUME NEW id, NEW strength, Satisfy(id, strength) PROVE CallOK'
  BY <1>6, <1>8 DEF Satisfy
<1>9. ASSUME NEW l, SetLevel(l) PROVE CallOK'
  BY <1>6, <1>9 DEF SetLevel
<1>10. CASE EntryExpires
  BY <1>6, <1>10 DEF EntryExpires
<1> QED BY <1>2, <1>4, <1>5, <1>7, <1>8, <1>9, <1>10 DEF GateNext

----------------------------------------------------------------------------
(* The lists *)

\* Everything but the callers.
ListsOK ==
    /\ level \in Levels /\ next \in 0 .. MaxTickets /\ changes \in 0 .. MaxChanges
    /\ pending \in Seq(Challenges) /\ Len(pending) <= MaxPending
    /\ grants \in Seq(Grants) /\ Len(grants) <= MaxGrants
    /\ spent \subseteq [id : Ids, nth : Nat]
    /\ Numbered /\ GrantsOnce /\ OpenIsUngranted

LEMMA InvParts == GateInv <=> CallOK /\ ListsOK
BY DEF GateInv, GateTypeOK, CallOK, CallRecord, ListsOK

\* Lists with some entries missing are as good as before.
LEMMA ThinnerIsFine ==
    ASSUME ListsOK, NEW p \in Seq(Challenges), NEW g \in Seq(Grants), Thinned(p, pending), Thinned(g, grants)
    PROVE  /\ \A i \in 1 .. Len(p) : p[i].id \in 1 .. next
           /\ \A i, j \in 1 .. Len(p) : p[i].id = p[j].id => i = j
           /\ \A i \in 1 .. Len(g) : g[i].id \in 1 .. next
           /\ \A i \in 1 .. Len(g) : Name(g[i]) \notin spent
           /\ \A i, j \in 1 .. Len(g) : Name(g[i]) = Name(g[j]) => i = j
           /\ \A i \in 1 .. Len(p) :
                 /\ \A j \in 1 .. Len(g) : g[j].id # p[i].id
                 /\ \A s \in spent : s.id # p[i].id
<1>1. Len(pending) \in Nat /\ Len(grants) \in Nat /\ Len(p) \in Nat /\ Len(g) \in Nat
  BY DEF ListsOK
<1>2. /\ \A i \in 1 .. Len(p) : \E m \in 1 .. Len(pending) : p[i] = pending[m]
      /\ \A i, j \in 1 .. Len(p) : p[i].id = p[j].id => i = j
  BY <1>1, ThinnedKeeps DEF ListsOK, Numbered
<1>3. /\ \A i \in 1 .. Len(g) : \E m \in 1 .. Len(grants) : g[i] = grants[m]
      /\ \A i, j \in 1 .. Len(g) : Name(g[i]) = Name(g[j]) => i = j
  BY <1>1, ThinnedKeeps DEF ListsOK, GrantsOnce
<1>4. \A i \in 1 .. Len(p) : p[i].id \in 1 .. next
  BY <1>2 DEF ListsOK, Numbered
<1>5. \A i \in 1 .. Len(g) : g[i].id \in 1 .. next /\ Name(g[i]) \notin spent
  BY <1>3 DEF ListsOK, Numbered, GrantsOnce
<1>6. \A i \in 1 .. Len(p) :
        /\ \A j \in 1 .. Len(g) : g[j].id # p[i].id
        /\ \A s \in spent : s.id # p[i].id
  <2> SUFFICES ASSUME NEW i \in 1 .. Len(p)
               PROVE  /\ \A j \in 1 .. Len(g) : g[j].id # p[i].id
                      /\ \A s \in spent : s.id # p[i].id
    OBVIOUS
  <2>1. PICK m \in 1 .. Len(pending) : p[i] = pending[m]
    BY <1>2
  <2>2. /\ \A j \in 1 .. Len(grants) : grants[j].id # pending[m].id
        /\ \A s \in spent : s.id # pending[m].id
    BY DEF ListsOK, OpenIsUngranted
  <2> QED BY <1>3, <2>1, <2>2
<1> QED BY <1>2, <1>3, <1>4, <1>5, <1>6

LEMMA SelfThins == ASSUME NEW S, NEW s \in Seq(S) PROVE Thinned(s, s)
<1> DEFINE f == [i \in 1 .. Len(s) |-> i]
<1>1. /\ f \in [1 .. Len(s) -> 1 .. Len(s)]
      /\ \A i, j \in 1 .. Len(s) : f[i] = f[j] => i = j
      /\ \A i \in 1 .. Len(s) : s[i] = s[f[i]]
  OBVIOUS
<1> HIDE DEF f
<1> QED BY <1>1 DEF Thinned

LEMMA NothingThins == ASSUME NEW s PROVE Thinned(<<>>, s)
<1> DEFINE f == [i \in 1 .. 0 |-> 0]
<1>1. f \in [1 .. 0 -> 1 .. Len(s)] /\ Len(<<>>) = 0 /\ \A i \in 1 .. 0 : FALSE
  OBVIOUS
<1> HIDE DEF f
<1> QED BY <1>1 DEF Thinned

\* A change of the rung, and an entry that expires.
LEMMA ListsShrink ==
    ASSUME ListsOK, EntryExpires \/ \E l \in Levels : SetLevel(l) PROVE ListsOK'
<1>1. /\ pending \in Seq(Challenges) /\ Len(pending) \in Nat /\ Len(pending) <= MaxPending
      /\ grants \in Seq(Grants) /\ Len(grants) \in Nat /\ Len(grants) <= MaxGrants
  BY DEF ListsOK
<1>2. /\ pending' \in Seq(Challenges) /\ Len(pending') <= MaxPending /\ Thinned(pending', pending)
      /\ grants' \in Seq(Grants) /\ Len(grants') <= MaxGrants /\ Thinned(grants', grants)
  <2>1. CASE EntryExpires
    <3>1. CASE pending # <<>> /\ pending' = Tail(pending) /\ UNCHANGED grants
      BY <1>1, <3>1, TailThins, SelfThins
    <3>2. CASE grants # <<>> /\ grants' = Tail(grants) /\ UNCHANGED pending
      BY <1>1, <3>2, TailThins, SelfThins
    <3> QED BY <2>1, <3>1, <3>2 DEF EntryExpires
  <2>2. CASE \E l \in Levels : SetLevel(l)
    BY <1>1, <2>2, NothingThins DEF SetLevel
  <2> QED BY <2>1, <2>2
<1>3. level' \in Levels /\ changes' \in 0 .. MaxChanges /\ next' = next /\ spent' = spent
  BY DEF EntryExpires, SetLevel, ListsOK
<1> QED BY <1>2, <1>3, ThinnerIsFine DEF ListsOK, Numbered, GrantsOnce, OpenIsUngranted

\* A challenge that is minted has a number of its own.
LEMMA ListsMint ==
    ASSUME ListsOK, NEW c \in Tasks, NEW b \in Seq(Texts), call[c].need \in Requirements, Mint(c, b),
           UNCHANGED <<level, grants, changes, spent>>
    PROVE  ListsOK'
<1> DEFINE new == [id |-> next + 1, need |-> call[c].need, bindings |-> b]
           p == Append(pending, new)
<1>1. /\ pending \in Seq(Challenges) /\ Len(pending) \in Nat
      /\ grants \in Seq(Grants) /\ Len(grants) \in Nat /\ next \in Nat /\ next + 1 \in Ids
  BY DEF ListsOK, Mint, Ids
<1>2. new \in Challenges
  BY <1>1 DEF Challenges
<1>3. new.id = next + 1
  OBVIOUS
<1> HIDE DEF new
<1>4. /\ p \in Seq(Challenges) /\ Len(p) = Len(pending) + 1
      /\ \A i \in 1 .. Len(pending) : p[i] = pending[i]
      /\ p[Len(pending) + 1] = new
  BY <1>1, <1>2, AppendProperties
<1>5. pending' = Newest(MaxPending, p) /\ next' = next + 1
  BY DEF Mint, new
<1> HIDE DEF p
<1>6. pending' \in Seq(Challenges) /\ Len(pending') <= MaxPending /\ Thinned(pending', p)
  BY <1>4, <1>5, NewestThins
<1>7. \A i, j \in 1 .. Len(p) : p[i].id = p[j].id => i = j
  <2>1. \A i, j \in 1 .. Len(pending) : pending[i].id = pending[j].id => i = j
    BY DEF ListsOK, Numbered
  <2>2. \A i \in 1 .. Len(pending) : pending[i].id # next + 1
    BY <1>1 DEF ListsOK, Numbered
  <2>3. \A i \in 1 .. Len(p) : i \in 1 .. Len(pending) \/ i = Len(pending) + 1
    BY <1>1, <1>4
  <2> QED BY <1>3, <1>4, <2>1, <2>2, <2>3
<1>8. \A i \in 1 .. Len(p) :
        /\ p[i].id \in 1 .. next + 1
        /\ \A j \in 1 .. Len(grants) : grants[j].id # p[i].id
        /\ \A s \in spent : s.id # p[i].id
  <2>1. ASSUME NEW i \in 1 .. Len(pending)
        PROVE  /\ p[i].id \in 1 .. next + 1
               /\ \A j \in 1 .. Len(grants) : grants[j].id # p[i].id
               /\ \A s \in spent : s.id # p[i].id
    <3>1. pending[i].id \in 1 .. next
      BY DEF ListsOK, Numbered
    <3>2. /\ \A j \in 1 .. Len(grants) : grants[j].id # pending[i].id
          /\ \A s \in spent : s.id # pending[i].id
      BY DEF ListsOK, OpenIsUngranted
    <3> QED BY <1>1, <1>4, <3>1, <3>2
  <2>2. /\ new.id \in 1 .. next + 1
        /\ \A j \in 1 .. Len(grants) : grants[j].id # new.id
        /\ \A s \in spent : s.id # new.id
    BY <1>1, <1>3 DEF ListsOK, Numbered
  <2>3. \A i \in 1 .. Len(p) : i \in 1 .. Len(pending) \/ p[i] = new
    BY <1>1, <1>4
  <2> QED BY <2>1, <2>2, <2>3
<1>9. /\ \A i \in 1 .. Len(pending') : \E m \in 1 .. Len(p) : pending'[i] = p[m]
      /\ \A i, j \in 1 .. Len(pending') : pending'[i].id = pending'[j].id => i = j
  <2>1. Len(p) \in Nat /\ Len(pending') \in Nat
    BY <1>4, <1>6
  <2> QED BY <1>6, <1>7, <2>1, ThinnedKeeps
<1>10. Numbered'
  <2>1. \A i \in 1 .. Len(pending') : pending'[i].id \in 1 .. next'
    BY <1>5, <1>8, <1>9
  <2>2. /\ \A i \in 1 .. Len(grants') : grants'[i].id \in 1 .. next'
        /\ \A s \in spent' : s.id \in 1 .. next'
    BY <1>1, <1>5 DEF ListsOK, Numbered
  <2> QED BY <1>9, <2>1, <2>2 DEF Numbered
<1>11. OpenIsUngranted'
  BY <1>8, <1>9 DEF OpenIsUngranted
<1>12. GrantsOnce'
  BY DEF ListsOK, GrantsOnce
<1>13. next' \in 0 .. MaxTickets
  BY <1>1, <1>5 DEF Mint, ListsOK
<1> QED BY <1>6, <1>10, <1>11, <1>12, <1>13 DEF ListsOK

\* A grant that admits a request is spent.
LEMMA ListsCheck == ASSUME ListsOK, NEW c \in Tasks, Check(c) PROVE ListsOK'
<1>1. /\ grants \in Seq(Grants) /\ Len(grants) \in Nat /\ DOMAIN grants = 1 .. Len(grants)
      /\ pending \in Seq(Challenges)
  BY DEF ListsOK
<1>2. CASE UNCHANGED <<grants, spent>>
  BY <1>2 DEF Check, ListsOK, Numbered, GrantsOnce, OpenIsUngranted
<1>3. ASSUME NEW i \in 1 .. Len(grants), grants' = RemoveAt(grants, i),
             spent' = spent \cup {Name(grants[i])}
      PROVE  ListsOK'
  <2>1. /\ grants' \in Seq(Grants) /\ Len(grants') <= Len(grants) /\ Thinned(grants', grants)
        /\ \A j \in 1 .. Len(grants') : \E m \in 1 .. Len(grants) : m # i /\ grants'[j] = grants[m]
    BY <1>1, <1>3, RemoveThins
  <2>2. UNCHANGED <<level, pending, next, changes>>
    BY DEF Check
  <2>3. /\ \A j \in 1 .. Len(grants') : grants'[j].id \in 1 .. next
        /\ \A j, l \in 1 .. Len(grants') : Name(grants'[j]) = Name(grants'[l]) => j = l
        /\ \A j \in 1 .. Len(grants') : Name(grants'[j]) \notin spent
        /\ \A k \in 1 .. Len(pending) : \A j \in 1 .. Len(grants') : grants'[j].id # pending[k].id
    BY <1>1, <2>1, SelfThins, ThinnerIsFine
  <2>4. \A j \in 1 .. Len(grants') : Name(grants'[j]) # Name(grants[i])
    BY <2>1 DEF ListsOK, GrantsOnce
  <2>5. /\ grants[i] \in Grants /\ grants[i].id \in 1 .. next
        /\ \A k \in 1 .. Len(pending) : grants[i].id # pending[k].id
    <3>1. grants[i] \in Grants
      BY <1>1
    <3>2. grants[i].id \in 1 .. next
      BY DEF ListsOK, Numbered
    <3>3. \A k \in 1 .. Len(pending) : grants[i].id # pending[k].id
      BY DEF ListsOK, OpenIsUngranted
    <3> QED BY <3>1, <3>2, <3>3
  <2>6. Name(grants[i]) \in [id : Ids, nth : Nat] /\ Name(grants[i]).id = grants[i].id
    BY <2>5 DEF Grants, Name
  <2>7. Numbered'
    BY <1>3, <2>2, <2>3, <2>5, <2>6 DEF ListsOK, Numbered
  <2>8. GrantsOnce'
    BY <1>3, <2>3, <2>4 DEF GrantsOnce
  <2>9. OpenIsUngranted'
    BY <1>3, <2>2, <2>3, <2>5, <2>6 DEF ListsOK, OpenIsUngranted
  <2>10. Len(grants') <= MaxGrants
    BY <1>1, <2>1 DEF ListsOK
  <2> QED BY <1>3, <2>1, <2>2, <2>6, <2>7, <2>8, <2>9, <2>10 DEF ListsOK
<1> QED BY <1>1, <1>2, <1>3 DEF Check, Name

LEMMA Joined ==
    ASSUME NEW S, NEW a \in Seq(S), NEW b \in Seq(S)
    PROVE  /\ a \o b \in Seq(S) /\ Len(a \o b) = Len(a) + Len(b)
           /\ \A j \in 1 .. Len(a) + Len(b) : (a \o b)[j] = IF j <= Len(a) THEN a[j] ELSE b[j - Len(a)]
BY ConcatProperties

\* A challenge that is satisfied goes, and its grants come, under its number.
LEMMA ListsSatisfy ==
    ASSUME ListsOK, NEW id, NEW strength, Satisfy(id, strength) PROVE ListsOK'
<1>1. /\ pending \in Seq(Challenges) /\ Len(pending) \in Nat /\ DOMAIN pending = 1 .. Len(pending)
      /\ grants \in Seq(Grants) /\ Len(grants) \in Nat
  BY DEF ListsOK
<1> DEFINE ticketed(i) == [n \in DOMAIN pending[i].bindings |->
                             [id |-> id, nth |-> n, binding |-> pending[i].bindings[n],
                              need |-> pending[i].need]]
<1>2. PICK i \in 1 .. Len(pending) :
        /\ pending[i].id = id /\ pending' = RemoveAt(pending, i)
        /\ grants' = Newest(MaxGrants, grants \o ticketed(i))
        /\ UNCHANGED <<level, next, changes, spent>>
  BY <1>1 DEF Satisfy
<1> DEFINE t == ticketed(i)
<1>3. pending[i] \in Challenges
  BY <1>1
<1>4. id \in Ids /\ pending[i].need \in Requirements /\ pending[i].bindings \in Seq(Texts)
  BY <1>2, <1>3 DEF Challenges
<1>5. /\ Len(pending[i].bindings) \in Nat
      /\ DOMAIN pending[i].bindings = 1 .. Len(pending[i].bindings)
      /\ \A n \in 1 .. Len(pending[i].bindings) : pending[i].bindings[n] \in Texts
  BY <1>4
<1> DEFINE m == Len(pending[i].bindings)
<1>6. \A n \in 1 .. m : t[n] \in Grants /\ t[n].id = id /\ t[n].nth = n
  BY <1>4, <1>5 DEF Grants
<1>7. t \in Seq(Grants) /\ Len(t) = m
  <2>1. t \in [1 .. m -> Grants]
    BY <1>5, <1>6
  <2> HIDE DEF t
  <2> QED BY <1>5, <2>1
<1> HIDE DEF t, ticketed
<1> DEFINE g == grants \o t
<1>8. /\ g \in Seq(Grants) /\ Len(g) = Len(grants) + m
      /\ \A j \in 1 .. Len(grants) + m : g[j] = IF j <= Len(grants) THEN grants[j] ELSE t[j - Len(grants)]
  <2>1. /\ g \in Seq(Grants) /\ Len(g) = Len(grants) + Len(t)
        /\ \A j \in 1 .. Len(grants) + Len(t) : g[j] = IF j <= Len(grants) THEN grants[j] ELSE t[j - Len(grants)]
    BY <1>1, <1>7, Joined
  <2> HIDE DEF g, m
  <2> QED BY <1>7, <2>1
<1> HIDE DEF g
<1>9. grants' = Newest(MaxGrants, g)
  BY <1>2 DEF g, t
<1>10. grants' \in Seq(Grants) /\ Len(grants') <= MaxGrants /\ Thinned(grants', g)
  BY <1>8, <1>9, NewestThins
<1>11. /\ pending' \in Seq(Challenges) /\ Len(pending') <= Len(pending) /\ Thinned(pending', pending)
       /\ \A j \in 1 .. Len(pending') : \E k \in 1 .. Len(pending) : k # i /\ pending'[j] = pending[k]
  <2>1. /\ RemoveAt(pending, i) \in Seq(Challenges) /\ Len(RemoveAt(pending, i)) <= Len(pending)
        /\ Thinned(RemoveAt(pending, i), pending)
        /\ \A j \in 1 .. Len(RemoveAt(pending, i)) :
              \E k \in 1 .. Len(pending) : k # i /\ RemoveAt(pending, i)[j] = pending[k]
    <3>1. pending \in Seq(Challenges) /\ i \in 1 .. Len(pending)
      BY <1>1
    <3> HIDE DEF m
    <3> QED BY <3>1, RemoveThins
  <2>2. pending' = RemoveAt(pending, i)
    BY <1>2
  <2> QED BY <2>1, <2>2
<1>12. /\ id \in 1 .. next
       /\ \A j \in 1 .. Len(grants) : grants[j].id # id
       /\ \A s \in spent : s.id # id
  <2>1. id \in 1 .. next
    BY <1>2 DEF ListsOK, Numbered
  <2>2. /\ \A j \in 1 .. Len(grants) : grants[j].id # pending[i].id
        /\ \A s \in spent : s.id # pending[i].id
    BY DEF ListsOK, OpenIsUngranted
  <2> QED BY <1>2, <2>1, <2>2
<1>13. \A j \in 1 .. Len(g) :
         \/ j \in 1 .. Len(grants) /\ g[j] = grants[j]
         \/ j - Len(grants) \in 1 .. m /\ g[j].id = id /\ g[j].nth = j - Len(grants)
  <2>1. \A j \in 1 .. Len(g) : j <= Len(grants) \/ j - Len(grants) \in 1 .. m
    <3>1. Len(g) = Len(grants) + m /\ Len(grants) \in Nat /\ m \in Nat
      BY <1>1, <1>5, <1>8
    <3> HIDE DEF m
    <3> QED BY <3>1
  <2>2. ASSUME NEW j \in 1 .. Len(g), j <= Len(grants) PROVE j \in 1 .. Len(grants) /\ g[j] = grants[j]
    BY <1>1, <1>5, <1>8, <2>2
  <2>3. ASSUME NEW j \in 1 .. Len(g), ~(j <= Len(grants)) PROVE g[j] = t[j - Len(grants)]
    BY <1>1, <1>5, <1>8, <2>3
  <2> HIDE DEF m
  <2> QED BY <1>6, <2>1, <2>2, <2>3
<1>14. \A j \in 1 .. Len(g) : g[j].id \in 1 .. next /\ Name(g[j]) \notin spent
  <2>1. \A j \in 1 .. Len(grants) : grants[j].id \in 1 .. next /\ Name(grants[j]) \notin spent
    BY DEF ListsOK, Numbered, GrantsOnce
  <2>2. \A j \in 1 .. Len(g) : g[j].id = id => Name(g[j]) \notin spent
    BY <1>12 DEF Name
  <2> QED BY <1>12, <1>13, <2>1, <2>2
<1>15. \A j, k \in 1 .. Len(g) : Name(g[j]) = Name(g[k]) => j = k
  <2>1. \A j, k \in 1 .. Len(grants) : Name(grants[j]) = Name(grants[k]) => j = k
    BY DEF ListsOK, GrantsOnce
  <2>2. \A j, k \in 1 .. Len(g) : Name(g[j]) = Name(g[k]) => g[j].id = g[k].id /\ g[j].nth = g[k].nth
    BY DEF Name
  <2>3. ASSUME NEW j \in 1 .. Len(g), NEW k \in 1 .. Len(g), Name(g[j]) = Name(g[k]) PROVE j = k
    <3>1. CASE j \in 1 .. Len(grants) /\ g[j] = grants[j] /\ k \in 1 .. Len(grants) /\ g[k] = grants[k]
      BY <2>1, <2>3, <3>1
    <3>2. CASE g[j].id = id /\ g[k].id = id /\ g[j].nth = j - Len(grants) /\ g[k].nth = k - Len(grants)
      <4>1. j \in Nat /\ k \in Nat /\ Len(grants) \in Nat
        BY <1>1, <1>8
      <4>2. j - Len(grants) = k - Len(grants)
        BY <2>2, <2>3, <3>2
      <4> HIDE DEF m
      <4> QED BY <4>1, <4>2
    <3> DEFINE Old(n) == n \in 1 .. Len(grants) /\ g[n] = grants[n]
               New(n) == g[n].id = id /\ g[n].nth = n - Len(grants)
    <3>3. (Old(j) \/ New(j)) /\ (Old(k) \/ New(k))
      BY <1>13
    <3>4. g[j].id = g[k].id
      BY <2>2, <2>3
    <3>5. ~(Old(j) /\ New(k)) /\ ~(Old(k) /\ New(j))
      BY <1>12, <3>4
    <3> QED BY <3>1, <3>2, <3>3, <3>5
  <2> QED BY <2>3
<1>16. Len(g) \in Nat /\ Len(grants') \in Nat
  BY <1>1, <1>5, <1>8, <1>10
<1>17. /\ \A j \in 1 .. Len(grants') : \E k \in 1 .. Len(g) : grants'[j] = g[k]
       /\ \A j, k \in 1 .. Len(grants') : Name(grants'[j]) = Name(grants'[k]) => j = k
  BY <1>10, <1>15, <1>16, ThinnedKeeps
<1>18. /\ \A j \in 1 .. Len(pending') : pending'[j].id \in 1 .. next
       /\ \A j, k \in 1 .. Len(pending') : pending'[j].id = pending'[k].id => j = k
       /\ \A j \in 1 .. Len(pending') : \A s \in spent : s.id # pending'[j].id
       /\ \A j \in 1 .. Len(pending') : \A k \in 1 .. Len(grants) : grants[k].id # pending'[j].id
  BY <1>1, <1>11, SelfThins, ThinnerIsFine
<1>19. \A j \in 1 .. Len(pending') : pending'[j].id # id
  BY <1>2, <1>11 DEF ListsOK, Numbered
<1>20. \A j \in 1 .. Len(pending') : \A k \in 1 .. Len(g) : g[k].id # pending'[j].id
  BY <1>13, <1>18, <1>19
<1>21. Numbered'
  <2>1. \A j \in 1 .. Len(grants') : grants'[j].id \in 1 .. next
    BY <1>14, <1>17
  <2>2. \A s \in spent : s.id \in 1 .. next
    BY DEF ListsOK, Numbered
  <2> QED BY <1>2, <1>18, <2>1, <2>2 DEF Numbered
<1>22. GrantsOnce'
  <2>1. \A j \in 1 .. Len(grants') : Name(grants'[j]) \notin spent
    <3>1. SUFFICES ASSUME NEW j \in 1 .. Len(grants') PROVE Name(grants'[j]) \notin spent
      OBVIOUS
    <3>2. PICK k \in 1 .. Len(g) : grants'[j] = g[k]
      BY <1>17
    <3> QED BY <1>14, <3>2
  <2> QED BY <1>2, <1>17, <2>1 DEF GrantsOnce
<1>23. OpenIsUngranted'
  <2>1. ASSUME NEW j \in 1 .. Len(pending'), NEW k \in 1 .. Len(grants')
        PROVE  grants'[k].id # pending'[j].id
    <3>1. PICK n \in 1 .. Len(g) : grants'[k] = g[n]
      BY <1>17
    <3> QED BY <1>20, <3>1
  <2>2. spent' = spent
    BY <1>2
  <2> QED BY <1>18, <2>1, <2>2 DEF OpenIsUngranted
<1>24. Len(pending') <= MaxPending
  BY <1>1, <1>11 DEF ListsOK
<1> QED BY <1>2, <1>10, <1>11, <1>21, <1>22, <1>23, <1>24 DEF ListsOK

----------------------------------------------------------------------------
LEMMA GateInitHolds == GateInit => GateInv
<1> SUFFICES ASSUME GateInit PROVE GateInv
  OBVIOUS
<1>1. CallOK
  BY OutIsACall DEF GateInit, CallOK, HasText
<1>2. pending = <<>> /\ grants = <<>> /\ next = 0 /\ changes = 0 /\ spent = {} /\ level \in Levels
  BY DEF GateInit
<1>3. ListsOK
  BY <1>2 DEF ListsOK, Numbered, GrantsOnce, OpenIsUngranted
<1> QED BY <1>1, <1>3, InvParts

LEMMA GateStepHolds == GateInv /\ [GateNext]_gateVars => GateInv'
<1>1. ASSUME GateInv, UNCHANGED gateVars PROVE GateInv'
  BY <1>1 DEF gateVars, GateInv, GateTypeOK, HasText, Numbered, GrantsOnce, OpenIsUngranted
<1>2. ASSUME GateInv, GateNext PROVE ListsOK'
  <2>1. ListsOK /\ CallOK
    BY <1>2, InvParts
  <2>2. ASSUME UNCHANGED <<level, pending, grants, next, changes, spent>> PROVE ListsOK'
    BY <2>1, <2>2 DEF ListsOK, Numbered, GrantsOnce, OpenIsUngranted
  <2>3. ASSUME NEW c \in Tasks, NEW t \in Texts, Admit(c, t) \/ Plan(c, t) PROVE ListsOK'
    BY <2>2, <2>3 DEF Admit, Plan
  <2>4. ASSUME NEW c \in Tasks, PlanStatement(c) PROVE ListsOK'
    BY <2>2, <2>4 DEF PlanStatement
  <2>5. ASSUME NEW c \in Tasks, Refuse(c) PROVE ListsOK'
    <3>1. call[c].text \in Texts /\ call[c].need \in Requirements
      BY <2>1, <2>5 DEF CallOK, CallRecord, HasText, Refuse, Out
    <3>2. <<call[c].text>> \in Seq(Texts)
      BY <3>1
    <3> QED BY <2>1, <2>5, <3>1, <3>2, ListsMint DEF Refuse
  <2>6. ASSUME NEW c \in Tasks, Planned(c) PROVE ListsOK'
    <3>1. call[c].text \in Texts /\ call[c].need \in Requirements
      BY <2>1, <2>6 DEF CallOK, CallRecord, HasText, Planned, Out
    <3>2. Bindings(call[c].text) \in Seq(Texts)
      BY <3>1, BindingsAreTexts
    <3>3. CASE Mint(c, Bindings(call[c].text))
      BY <2>1, <2>6, <3>1, <3>2, <3>3, ListsMint DEF Planned
    <3> QED BY <2>2, <2>6, <3>3 DEF Planned
  <2> QED BY <1>2, <2>1, <2>3, <2>4, <2>5, <2>6, ListsCheck, ListsSatisfy, ListsShrink DEF GateNext
<1>3. ASSUME GateInv, GateNext PROVE GateInv'
  <2>1. CallOK' /\ ListsOK'
    BY <1>2, <1>3, CallHolds
  <2> QED BY <2>1 DEF GateInv, GateTypeOK, CallOK, CallRecord, ListsOK
<1> QED BY <1>1, <1>3

\* Types of the gate, and its lists within their limits, however long scripts are.
THEOREM GateTypes == GateSpec => []GateTypeOK
<1>1. GateInv => GateTypeOK
  BY DEF GateInv
<1> QED BY <1>1, GateInitHolds, GateStepHolds, PTL DEF GateSpec

\* One confirmation clears one request, for any number of tasks that race for it and
\* any changes of the rung in between (safety.rs:228).
THEOREM OneConfirmationOneRequest == GateSpec => []ClearsOnce
<1>1. ASSUME GateInv PROVE ClearsOnce
  <2>1. DOMAIN grants = 1 .. Len(grants) /\ DOMAIN pending = 1 .. Len(pending)
    BY <1>1, ListTypes DEF GateInv
  <2> QED BY <1>1, <2>1 DEF GateInv, GrantsOnce, OpenIsUngranted, ClearsOnce, Name
<1> QED BY <1>1, GateInitHolds, GateStepHolds, PTL DEF GateSpec

-----------------------------------------------------------------------------
(***************************************************************************)
(* ResultTabs                                                              *)
(*                                                                         *)
(* For any tabs, connections and documents and any number of runs, results *)
(* and edits stay where they belong.                                       *)
(*                                                                         *)
(* A result says where it ran, on the screen as well as under its tab, and *)
(* every edit says which result it was staged on; the history of runs only *)
(* grows, so that what they say stays true.                                *)
(***************************************************************************)
HIDE GateAssumption
USE TabsAssumption

RunRecords == [tab : Names, to : Connections, base : 0 .. MaxAsked]
EditSets == [Documents -> Staged \cup {Unstaged}]

\* Nothing is staged on no result.
LEMMA NoResultType == NoResult \in Results /\ NoEdits \in EditSets
BY DEF NoResult, NoEdits, Results, EditSets, Queries, Profiled

\* Nothing is open when the window comes up.
LEMMA TabsInitType == TabsInit => TabsTypeOK
<1> SUFFICES ASSUME TabsInit PROVE TabsTypeOK
  OBVIOUS
<1>1. screen \in Results /\ results \in [Tabs -> Results]
  BY NoResultType DEF TabsInit
<1>2. resolved \in Seq(Profiled) /\ ran \in Seq(RunRecords)
  BY DEF TabsInit
<1>3. reread \in [docs : SUBSET Documents, from : Profiled] /\ review \in [Documents -> Profiled]
  BY DEF TabsInit, Profiled
<1>4. activeTab \in Names /\ activeConnection \in Profiled /\ resultTab \in Names
      /\ runProfile \in Profiled /\ ceremonies \in 0 .. MaxOpen
  BY DEF TabsInit, Names, Profiled
<1>5. gating \in BOOLEAN /\ committing \in BOOLEAN /\ commits = {}
  BY DEF TabsInit
<1> QED
  BY <1>1, <1>2, <1>3, <1>4, <1>5 DEF TabsTypeOK, RunRecords

\* A launch puts a result of its own in the grid, or none.
LEMMA LaunchType ==
    ASSUME TabsTypeOK, NEW base \in 0 .. MaxAsked, NEW to \in Profiled, Launch(base, to)
    PROVE  /\ screen' \in Results /\ resultTab' \in Names
           /\ activeConnection' \in Profiled /\ ran' \in Seq(RunRecords)
<1> USE DEF TabsTypeOK, RunRecords
<1>1. CASE to \in Connections /\ screen' = [query |-> Len(ran) + 1, profile |-> to, base |-> base,
                        editing |-> to \in Writable, edits |-> NoEdits]
              /\ resultTab' = activeTab /\ activeConnection' = to
              /\ ran' = Append(ran, [tab |-> activeTab, to |-> to, base |-> base])
  <2>1. Len(ran) + 1 \in Queries /\ (to \in Writable) \in BOOLEAN
    BY DEF Launch, Queries
  <2>2. screen' \in Results
    BY <1>1, <2>1, NoResultType DEF Results, EditSets
  <2>3. ran' \in Seq(RunRecords)
    BY <1>1, AppendProperties
  <2> QED
    BY <1>1, <2>2, <2>3
<1>2. CASE screen' = [NoResult EXCEPT !.base = base] /\ resultTab' = Nobody
              /\ UNCHANGED <<activeConnection, ran>>
  <2>1. screen' \in Results
    BY <1>2, NoResultType DEF Results, NoResult
  <2> QED
    BY <1>2, <2>1 DEF Names
<1> QED
  BY <1>1, <1>2 DEF Launch

\* What is parked or restored is a result.
LEMMA ParkType ==
    ASSUME TabsTypeOK
    PROVE  Park(results) \in [Tabs -> Results]
BY DEF TabsTypeOK, Park, Names

LEMMA SyncType ==
    ASSUME TabsTypeOK, NEW t \in Names, NEW connection, NEW open, Sync(t, connection, open)
    PROVE  screen' \in Results /\ results' \in [Tabs -> Results] /\ resultTab' \in Names
<1>1. CASE UNCHANGED <<resultTab, screen>>
            /\ results' = [u \in Tabs |-> IF u \in open THEN results[u] ELSE NoResult]
  BY <1>1, NoResultType DEF TabsTypeOK
<1>2. CASE /\ ~(resultTab = t /\ screen.profile = connection)
           /\ LET saved == [u \in Tabs |-> IF u \in open THEN Park(results)[u] ELSE NoResult]
              IN  IF Restorable(t, connection, saved)
                    THEN /\ screen' = saved[t] /\ resultTab' = t
                         /\ results' = [saved EXCEPT ![t] = NoResult]
                    ELSE /\ screen' = NoResult /\ resultTab' = Nobody
                         /\ results' = saved
  <2> DEFINE saved == [u \in Tabs |-> IF u \in open THEN Park(results)[u] ELSE NoResult]
  <2>1. saved \in [Tabs -> Results]
    BY ParkType, NoResultType
  <2> HIDE DEF saved
  <2>2. CASE Restorable(t, connection, saved)
    <3>1. t \in Tabs
      BY <2>2 DEF Restorable, Names
    <3> QED
      BY <1>2, <2>1, <2>2, <3>1, NoResultType DEF saved, Names
  <2>3. CASE ~Restorable(t, connection, saved)
    BY <1>2, <2>1, <2>3, NoResultType DEF saved, Names
  <2> QED
    BY <2>2, <2>3
<1> QED
  BY <1>1, <1>2 DEF Sync

\* So does what execute does, at once or after the gate has been asked.
LEMMA ExecuteType ==
    ASSUME TabsTypeOK, NEW base \in 0 .. MaxAsked, NEW to \in Profiled, ExecuteOn(base, to)
    PROVE  /\ screen' \in Results /\ resultTab' \in Names /\ activeConnection' \in Profiled
           /\ ran' \in Seq(RunRecords) /\ gating' \in BOOLEAN
<1>1. CASE Launch(base, to) /\ UNCHANGED gating
  BY <1>1, LaunchType DEF TabsTypeOK
<1>2. CASE /\ gating' = (gating \/ to \in Gated)
           /\ screen' = [screen EXCEPT !.base = base]
           /\ UNCHANGED <<resultTab, activeConnection, ran>>
  <2>1. gating' \in BOOLEAN
    BY <1>2
  <2>2. screen' \in Results
    BY <1>2 DEF TabsTypeOK, Results
  <2> QED
    BY <1>2, <2>1, <2>2 DEF TabsTypeOK, RunRecords
<1> QED
  BY <1>1, <1>2 DEF ExecuteOn

LEMMA RunType == TabsTypeOK /\ RunNext => TabsTypeOK'
<1> SUFFICES ASSUME TabsTypeOK, RunNext PROVE TabsTypeOK'
  OBVIOUS
<1>0. screen.base \in 0 .. MaxAsked /\ runProfile \in Profiled
  BY DEF TabsTypeOK, Results
<1>1. ASSUME NEW to \in Profiled, RunOn(to) PROVE TabsTypeOK'
  <2>1. Len(resolved) + 1 \in 0 .. MaxAsked
    BY <1>1 DEF RunOn, TabsTypeOK
  <2>2. resolved' \in Seq(Profiled)
    BY <1>1, AppendProperties DEF RunOn, TabsTypeOK
  <2>3. /\ screen' \in Results /\ resultTab' \in Names /\ activeConnection' \in Profiled
        /\ ran' \in Seq(RunRecords) /\ gating' \in BOOLEAN
    BY <1>1, <2>1, ExecuteType DEF RunOn
  <2> QED
    BY <1>1, <2>2, <2>3 DEF RunOn, TabsTypeOK, editVars, RunRecords
<1>2. CASE Rerun
  <2>1. /\ screen' \in Results /\ resultTab' \in Names /\ activeConnection' \in Profiled
        /\ ran' \in Seq(RunRecords) /\ gating' \in BOOLEAN
    BY <1>2, <1>0, ExecuteType DEF Rerun
  <2> QED
    BY <1>2, <2>1 DEF Rerun, TabsTypeOK, editVars, RunRecords
<1>3. CASE Evaluated
  <2>1. /\ screen' \in Results /\ resultTab' \in Names /\ activeConnection' \in Profiled
        /\ ran' \in Seq(RunRecords) /\ ceremonies' \in 0 .. MaxOpen
    <3>1. CASE Launch(screen.base, runProfile) /\ UNCHANGED ceremonies
      BY <1>0, <3>1, LaunchType DEF TabsTypeOK
    <3>2. CASE /\ ceremonies < MaxOpen /\ ceremonies' = ceremonies + 1
               /\ UNCHANGED <<screen, resultTab, activeConnection, ran>>
      BY <3>2 DEF TabsTypeOK, RunRecords
    <3> QED
      BY <1>3, <3>1, <3>2 DEF Evaluated
  <2> QED
    BY <1>3, <2>1 DEF Evaluated, TabsTypeOK, editVars, RunRecords
<1>4. CASE Ceremony
  <2>1. /\ screen' \in Results /\ resultTab' \in Names /\ activeConnection' \in Profiled
        /\ ran' \in Seq(RunRecords) /\ ceremonies' \in 0 .. MaxOpen
    <3>1. ceremonies' \in 0 .. MaxOpen
      BY <1>4 DEF Ceremony, TabsTypeOK
    <3>2. CASE Launch(screen.base, runProfile)
      BY <1>0, <3>1, <3>2, LaunchType
    <3>3. CASE UNCHANGED <<screen, resultTab, activeConnection, ran>>
      BY <3>1, <3>3 DEF TabsTypeOK, RunRecords
    <3> QED
      BY <1>4, <3>2, <3>3 DEF Ceremony
  <2> QED
    BY <1>4, <2>1 DEF Ceremony, TabsTypeOK, editVars, RunRecords
<1> QED
  BY <1>1, <1>2, <1>3, <1>4 DEF RunNext

LEMMA FrontType == TabsTypeOK /\ FrontNext => TabsTypeOK'
<1> SUFFICES ASSUME TabsTypeOK, NEW t \in Names, NEW c \in Profiled, NEW open,
                    activeTab' = t, activeConnection' = c, Sync(t, c, open),
                    UNCHANGED <<runVars, editVars>>
             PROVE  TabsTypeOK'
  BY DEF FrontNext, SetActiveTab, CloseTab
<1>1. screen' \in Results /\ results' \in [Tabs -> Results] /\ resultTab' \in Names
  BY SyncType
<1> QED
  BY <1>1 DEF TabsTypeOK, runVars, editVars

\* Edits are all that staging changes of the screen.
LEMMA EditsType ==
    ASSUME TabsTypeOK, NEW f \in EditSets, Edits(f)
    PROVE  screen' \in Results
BY DEF TabsTypeOK, Edits, Results, EditSets

LEMMA ScreenTypes ==
    ASSUME TabsTypeOK
    PROVE  /\ screen.query \in Queries \cup {0} /\ screen.profile \in Profiled
           /\ screen.edits \in EditSets /\ screen.editing \in BOOLEAN
BY DEF TabsTypeOK, Results, EditSets

BatchSets == [docs : EditSets, to : Connections, at : {"confirm", "sent", "refused"}]

LEMMA PendingType ==
    ASSUME NEW f \in EditSets
    PROVE  Pending(f) \in EditSets
BY DEF Pending, EditSets

\* What is in the grid has run on some connection.
RanSomewhere == screen.query # 0 => screen.profile \in Connections

\* Staging and what comes of it, one action after the other.
LEMMA EditType == TabsTypeOK /\ RanSomewhere /\ EditNext => TabsTypeOK'
<1> SUFFICES ASSUME TabsTypeOK, RanSomewhere, EditNext PROVE TabsTypeOK'
  OBVIOUS
<1> USE ScreenTypes DEF frontVars, runVars, editVars, BatchSets
<1>0. ASSUME screen' \in Results, UNCHANGED <<frontVars, runVars>>,
             commits' \subseteq BatchSets, committing' \in BOOLEAN,
             reread' \in [docs : SUBSET Documents, from : Profiled],
             review' \in [Documents -> Profiled]
      PROVE  TabsTypeOK'
  BY <1>0 DEF TabsTypeOK, EditSets
<1>a. /\ screen \in Results /\ commits \subseteq BatchSets /\ committing \in BOOLEAN
      /\ reread \in [docs : SUBSET Documents, from : Profiled]
      /\ review \in [Documents -> Profiled]
  BY DEF TabsTypeOK, EditSets
<1>1. ASSUME NEW d \in Documents, Stage(d) PROVE TabsTypeOK'
  <2>1. screen.query \in Queries
    BY <1>1 DEF Stage, Editable
  <2>2. screen.profile \in Connections
    BY <1>1 DEF Stage, Editable, RanSomewhere
  <2> DEFINE staged == IF screen.edits[d] = Unstaged
                         THEN [from |-> screen.query, state |-> "pending", expect |-> screen.profile]
                         ELSE [screen.edits[d] EXCEPT !.state = "pending"]
  <2>3. staged \in Staged
    BY <2>1, <2>2 DEF EditSets, Staged
  <2>4. [screen.edits EXCEPT ![d] = staged] \in EditSets
    BY <2>3 DEF EditSets
  <2>5. Edits([screen.edits EXCEPT ![d] = staged])
    BY <1>1 DEF Stage
  <2>6. screen' \in Results
    BY <2>4, <2>5, EditsType
  <2> QED
    BY <1>0, <1>a, <1>1, <2>6 DEF Stage
<1>2. ASSUME NEW d \in Documents, Unstage(d) PROVE TabsTypeOK'
  <2>1. [screen.edits EXCEPT ![d] = Unstaged] \in EditSets
    BY DEF EditSets
  <2>2. screen' \in Results
    BY <1>2, <2>1, EditsType DEF Unstage
  <2> QED
    BY <1>0, <1>a, <1>2, <2>2 DEF Unstage
<1>3. ASSUME NEW d \in Documents, Rebase(d) PROVE TabsTypeOK'
  <2>1. review' \in [Documents -> Profiled]
    BY <1>a, <1>3 DEF Rebase, Profiled
  <2>2. screen' \in Results
    <3>1. CASE screen.edits[d] = Unstaged /\ UNCHANGED screen
      BY <1>a, <3>1
    <3>2. CASE /\ screen.edits[d] # Unstaged
               /\ Edits([screen.edits EXCEPT ![d].expect = review[d], ![d].state = "pending"])
      <4>1. screen.edits[d] \in Staged /\ review[d] \in Connections
        BY <1>a, <1>3, <3>2 DEF Rebase, Profiled, EditSets
      <4>2. [screen.edits EXCEPT ![d].expect = review[d], ![d].state = "pending"] \in EditSets
        BY <4>1 DEF EditSets, Staged
      <4> QED
        BY <3>2, <4>2, EditsType
    <3> QED
      BY <1>3, <3>1, <3>2 DEF Rebase
  <2> QED
    BY <1>0, <1>a, <1>3, <2>1, <2>2 DEF Rebase
<1>4. CASE DiscardAll
  BY <1>0, <1>a, <1>4, NoResultType, EditsType DEF DiscardAll
<1>5. CASE CommitStagedEdits
  <2>1. commits' \subseteq BatchSets
    BY <1>a, <1>5, PendingType DEF CommitStagedEdits, Editable, RanSomewhere
  <2> QED
    BY <1>0, <1>a, <1>5, <2>1 DEF CommitStagedEdits
<1>6. ASSUME NEW b \in commits, DeclineCommit(b) PROVE TabsTypeOK'
  BY <1>0, <1>a, <1>6 DEF DeclineCommit
<1>7. ASSUME NEW b \in commits, SendMutations(b) PROVE TabsTypeOK'
  <2>1. commits' \subseteq BatchSets /\ committing' \in BOOLEAN
    BY <1>a, <1>7 DEF SendMutations
  <2> QED
    BY <1>0, <1>a, <1>7, <2>1 DEF SendMutations
<1>8. ASSUME NEW b \in commits, FinishCommit(b) PROVE TabsTypeOK'
  <2>1. commits' \subseteq BatchSets /\ committing' \in BOOLEAN
    BY <1>a, <1>8 DEF FinishCommit
  <2>2. screen' \in Results
    <3>1. ASSUME NEW s \in [StagedDocs(b.docs) \cap StagedDocs(screen.edits) ->
                                {"applied", "conflicted", "failed"}],
                 Edits([d \in Documents |-> IF d \in DOMAIN s
                                              THEN [screen.edits[d] EXCEPT !.state = s[d]]
                                              ELSE screen.edits[d]])
          PROVE  screen' \in Results
      <4>1. ASSUME NEW d \in DOMAIN s
            PROVE  d \in Documents /\ [screen.edits[d] EXCEPT !.state = s[d]] \in Staged
        BY DEF StagedDocs, EditSets, Staged
      <4>2. [d \in Documents |-> IF d \in DOMAIN s THEN [screen.edits[d] EXCEPT !.state = s[d]]
                                                     ELSE screen.edits[d]] \in EditSets
        BY <4>1 DEF EditSets
      <4> QED
        BY <3>1, <4>2, EditsType
    <3> QED
      BY <1>a, <1>8, <3>1 DEF FinishCommit
  <2> QED
    BY <1>0, <1>a, <1>8, <2>1, <2>2 DEF FinishCommit
<1>9. CASE ReviewConflicts
  <2>1. reread' \in [docs : SUBSET Documents, from : Profiled]
    BY <1>9 DEF ReviewConflicts, Conflicted
  <2> QED
    BY <1>0, <1>a, <1>9, <2>1 DEF ReviewConflicts
<1>10. CASE FinishReread
  <2>1. reread' \in [docs : SUBSET Documents, from : Profiled]
    BY <1>10 DEF FinishReread, Profiled
  <2>2. review' \in [Documents -> Profiled]
    BY <1>a, <1>10 DEF FinishReread, Profiled
  <2> QED
    BY <1>0, <1>a, <1>10, <2>1, <2>2 DEF FinishReread
<1> QED
  BY <1>1, <1>2, <1>3, <1>4, <1>5, <1>6, <1>7, <1>8, <1>9, <1>10 DEF EditNext
-----------------------------------------------------------------------------
(* Results and edits stay where they belong. *)

\* A result tells where it ran, and what is staged on it is staged on its own rows.
Sound(r) ==
    /\ r.query # 0 =>
          /\ r.query \in DOMAIN ran /\ ran[r.query].to = r.profile
          /\ r.editing => r.profile \in Writable
    /\ \A d \in StagedDocs(r.edits) : r.edits[d].from = r.query

RanIn(r, t) == r.query # 0 => ran[r.query].tab = t

ScreenInv ==
    /\ Sound(screen) /\ RanIn(screen, resultTab)
    /\ screen.query # 0 /\ resultTab # Nobody =>
          resultTab = activeTab /\ screen.profile = activeConnection

ParkedInv ==
    \A t \in Tabs :
        /\ Sound(results[t]) /\ RanIn(results[t], t)
        /\ results[t].query # 0 => results[t].query # screen.query

BatchInv ==
    \A b \in commits : \A d \in StagedDocs(b.docs) :
        b.docs[d].from \in DOMAIN ran /\ ran[b.docs[d].from].to = b.to

TabsInv == TabsTypeOK /\ ScreenInv /\ ParkedInv /\ BatchInv

LEMMA NothingIsSound == Sound(NoResult) /\ NoResult.query = 0
BY DEF Sound, NoResult, NoEdits, StagedDocs

LEMMA InitHolds == TabsInit => TabsInv
<1> SUFFICES ASSUME TabsInit PROVE TabsInv
  OBVIOUS
<1>1. screen = NoResult /\ commits = {} /\ \A t \in Tabs : results[t] = NoResult
  BY DEF TabsInit
<1> QED
  BY <1>1, TabsInitType, NothingIsSound DEF TabsInv, ScreenInv, ParkedInv, BatchInv, RanIn

LEMMA Somewhere == TabsTypeOK /\ ScreenInv => RanSomewhere
<1> SUFFICES ASSUME TabsTypeOK, ScreenInv, screen.query # 0 PROVE screen.profile \in Connections
  BY DEF RanSomewhere
<1>1. screen.query \in DOMAIN ran /\ ran[screen.query].to = screen.profile
  BY DEF ScreenInv, Sound
<1>2. ran[screen.query] \in RunRecords
  <2>1. ran \in Seq(RunRecords)
    BY DEF TabsTypeOK, RunRecords
  <2> QED
    BY <1>1, <2>1
<1> QED
  BY <1>1, <1>2 DEF RunRecords

LEMMA TypeStep == TabsInv /\ [TabsNext]_tabsVars => TabsTypeOK'
<1> SUFFICES ASSUME TabsInv, [TabsNext]_tabsVars PROVE TabsTypeOK'
  OBVIOUS
<1>1. CASE RunNext
  BY <1>1, RunType DEF TabsInv
<1>2. CASE FrontNext
  BY <1>2, FrontType DEF TabsInv
<1>3. CASE EditNext
  BY <1>3, EditType, Somewhere DEF TabsInv
<1>4. CASE UNCHANGED tabsVars
  BY <1>4 DEF TabsInv, TabsTypeOK, tabsVars, frontVars, runVars, editVars
<1> QED
  BY <1>1, <1>2, <1>3, <1>4 DEF TabsNext

\* What has run is remembered as it was.
Remembered == \A q \in DOMAIN ran : q \in DOMAIN ran' /\ ran'[q] = ran[q]

\* Whatever remembers what has run leaves what stands still as sound as it was.
LEMMA StillSound ==
    ASSUME TabsInv, Remembered, UNCHANGED <<results, commits>>,
           screen'.query = screen.query \/ screen'.query \notin DOMAIN ran
    PROVE  ParkedInv' /\ BatchInv'
<1>1. ParkedInv'
  <2> SUFFICES ASSUME NEW t \in Tabs
               PROVE  /\ Sound(results[t])' /\ RanIn(results[t], t)'
                      /\ results[t].query # 0 => results[t].query # screen'.query
    BY DEF ParkedInv
  <2>1. Sound(results[t]) /\ RanIn(results[t], t)
    BY DEF TabsInv, ParkedInv
  <2>2. Sound(results[t])' /\ RanIn(results[t], t)'
    BY <2>1 DEF Sound, RanIn, Remembered, StagedDocs
  <2>3. results[t].query # 0 => results[t].query # screen'.query
    BY <2>1 DEF TabsInv, ParkedInv, Sound
  <2> QED
    BY <2>2, <2>3
<1>2. BatchInv'
  BY DEF TabsInv, BatchInv, Remembered, StagedDocs
<1> QED
  BY <1>1, <1>2

LEMMA LaunchHome ==
    ASSUME TabsInv, NEW base \in 0 .. MaxAsked, NEW to \in Profiled, Launch(base, to),
           UNCHANGED <<activeTab, results, commits>>
    PROVE  ScreenInv' /\ ParkedInv' /\ BatchInv'
<1>0. ran \in Seq(RunRecords)
  BY DEF TabsInv, TabsTypeOK, RunRecords
<1>1. CASE to \in Connections /\ screen' = [query |-> Len(ran) + 1, profile |-> to, base |-> base,
                        editing |-> to \in Writable, edits |-> NoEdits]
              /\ resultTab' = activeTab /\ activeConnection' = to
              /\ ran' = Append(ran, [tab |-> activeTab, to |-> to, base |-> base])
  <2> DEFINE run == [tab |-> activeTab, to |-> to, base |-> base]
  <2>1. run \in RunRecords
    BY <1>1 DEF TabsInv, TabsTypeOK, RunRecords
  <2>2. /\ Len(ran') = Len(ran) + 1 /\ ran'[Len(ran) + 1] = run
        /\ \A q \in 1 .. Len(ran) : ran'[q] = ran[q]
    BY <1>0, <1>1, <2>1, AppendProperties
  <2>3. ran' \in Seq(RunRecords)
    BY <1>0, <1>1, <2>1, AppendProperties
  <2>4. DOMAIN ran = 1 .. Len(ran) /\ DOMAIN ran' = 1 .. Len(ran') /\ Len(ran) \in Nat
    BY <1>0, <2>3
  <2>5. Remembered /\ Len(ran) + 1 \in DOMAIN ran' /\ Len(ran) + 1 \notin DOMAIN ran
    BY <2>2, <2>4 DEF Remembered
  <2>6. StagedDocs(NoEdits) = {}
    BY DEF StagedDocs, NoEdits
  <2>a. /\ screen'.query = Len(ran) + 1 /\ screen'.profile = to
        /\ screen'.editing = (to \in Writable) /\ screen'.edits = NoEdits
    BY <1>1
  <2>b. ran'[screen'.query].to = to /\ ran'[screen'.query].tab = activeTab
    BY <2>2, <2>a
  <2>7. ScreenInv'
    <3>1. Sound(screen)'
      BY <2>5, <2>6, <2>a, <2>b DEF Sound, StagedDocs
    <3>2. RanIn(screen, resultTab)'
      BY <1>1, <2>b DEF RanIn
    <3>3. resultTab' = activeTab' /\ screen'.profile = activeConnection'
      BY <1>1, <2>a
    <3> QED
      BY <3>1, <3>2, <3>3 DEF ScreenInv
  <2> QED
    BY <1>1, <2>5, <2>7, StillSound
<1>2. CASE screen' = [NoResult EXCEPT !.base = base] /\ resultTab' = Nobody
              /\ UNCHANGED <<activeConnection, ran>>
  <2>1. screen'.query = 0 /\ screen'.edits = NoEdits
    BY <1>2 DEF NoResult
  <2>2. ScreenInv'
    BY <1>2, <2>1 DEF ScreenInv, Sound, RanIn, StagedDocs, NoEdits
  <2>3. 0 \notin DOMAIN ran
    BY <1>0
  <2> QED
    BY <1>2, <2>1, <2>2, <2>3, StillSound DEF Remembered
<1> QED
  BY <1>1, <1>2 DEF Launch

\* The grid keeps its result, whatever else changes about it.
LEMMA SameResult ==
    ASSUME TabsInv, UNCHANGED <<activeTab, activeConnection, resultTab, ran>>,
           screen'.query = screen.query, screen'.profile = screen.profile,
           screen'.editing = screen.editing,
           \A d \in StagedDocs(screen'.edits) : screen'.edits[d].from = screen.query
    PROVE  ScreenInv'
BY DEF TabsInv, ScreenInv, Sound, RanIn, StagedDocs

LEMMA RunHome == TabsInv /\ RunNext => ScreenInv' /\ ParkedInv' /\ BatchInv'
<1> SUFFICES ASSUME TabsInv, RunNext PROVE ScreenInv' /\ ParkedInv' /\ BatchInv'
  OBVIOUS
<1>0. screen.base \in 0 .. MaxAsked /\ runProfile \in Profiled /\ ran \in Seq(RunRecords)
  BY DEF TabsInv, TabsTypeOK, Results, RunRecords
\* Waiting for the gate, whether the statement was asked for just now or is sent again.
<1>a. ASSUME NEW base \in 0 .. MaxAsked, NEW to \in Profiled, ExecuteOn(base, to),
             UNCHANGED <<activeTab, results, commits>>
      PROVE  ScreenInv' /\ ParkedInv' /\ BatchInv'
  <2>1. CASE Launch(base, to)
    BY <1>a, <2>1, LaunchHome
  <2>2. CASE screen' = [screen EXCEPT !.base = base]
             /\ UNCHANGED <<resultTab, activeConnection, ran>>
    <3>1. screen \in Results
      BY DEF TabsInv, TabsTypeOK
    <3>2. /\ screen'.query = screen.query /\ screen'.profile = screen.profile
          /\ screen'.editing = screen.editing /\ screen'.edits = screen.edits
      BY <2>2, <3>1 DEF Results
    <3>3. \A d \in StagedDocs(screen.edits) : screen.edits[d].from = screen.query
      BY DEF TabsInv, ScreenInv, Sound
    <3>4. Remembered
      BY <2>2 DEF Remembered
    <3> QED
      BY <1>a, <2>2, <3>2, <3>3, <3>4, SameResult, StillSound
  <2> QED
    BY <1>a, <2>1, <2>2 DEF ExecuteOn
\* The gate has answered, or the ceremony is over.
<1>b. ASSUME Launch(screen.base, runProfile) \/ UNCHANGED <<screen, resultTab, activeConnection, ran>>,
             UNCHANGED <<activeTab, results, commits>>
      PROVE  ScreenInv' /\ ParkedInv' /\ BatchInv'
  <2>1. CASE Launch(screen.base, runProfile)
    BY <1>0, <1>b, <2>1, LaunchHome
  <2>2. CASE UNCHANGED <<screen, resultTab, activeConnection, ran>>
    <3>1. Remembered /\ \A d \in StagedDocs(screen.edits) : screen.edits[d].from = screen.query
      BY <2>2 DEF Remembered, TabsInv, ScreenInv, Sound
    <3> QED
      BY <1>b, <2>2, <3>1, SameResult, StillSound
  <2> QED
    BY <1>b, <2>1, <2>2
<1>1. ASSUME NEW to \in Profiled, RunOn(to) PROVE ScreenInv' /\ ParkedInv' /\ BatchInv'
  <2>1. Len(resolved) + 1 \in 0 .. MaxAsked
    BY <1>1 DEF RunOn, TabsInv, TabsTypeOK
  <2> QED
    BY <1>1, <1>a, <2>1 DEF RunOn, editVars
<1>2. CASE Rerun
  BY <1>0, <1>2, <1>a DEF Rerun, editVars
<1>3. CASE Evaluated
  BY <1>3, <1>b DEF Evaluated, editVars
<1>4. CASE Ceremony
  BY <1>4, <1>b DEF Ceremony, editVars
<1> QED
  BY <1>1, <1>2, <1>3, <1>4 DEF RunNext

\* What is parked is as sound as it was on the screen, under the tab it ran in.
LEMMA ParkHome ==
    ASSUME TabsInv, NEW u \in Tabs
    PROVE  Sound(Park(results)[u]) /\ RanIn(Park(results)[u], u)
<1>1. results \in [Tabs -> Results]
  BY DEF TabsInv, TabsTypeOK
<1>2. Park(results)[u] = results[u] \/ (u = resultTab /\ Park(results)[u] = screen)
  BY <1>1 DEF Park
<1> QED
  BY <1>2 DEF TabsInv, ScreenInv, ParkedInv

LEMMA FrontHome == TabsInv /\ FrontNext => ScreenInv' /\ ParkedInv' /\ BatchInv'
<1> SUFFICES ASSUME TabsInv, NEW t \in Names, NEW c \in Profiled, NEW open,
                    activeTab' = t, activeConnection' = c, Sync(t, c, open),
                    UNCHANGED <<runVars, editVars>>
             PROVE  ScreenInv' /\ ParkedInv' /\ BatchInv'
  BY DEF FrontNext, SetActiveTab, CloseTab
<1>0. UNCHANGED <<ran, commits>>
  BY DEF runVars, editVars
<1>1. BatchInv'
  BY <1>0 DEF TabsInv, BatchInv, StagedDocs
<1>2. CASE /\ resultTab = t /\ screen.profile = c
           /\ results' = [u \in Tabs |-> IF u \in open THEN results[u] ELSE NoResult]
           /\ UNCHANGED <<resultTab, screen>>
  <2>1. ScreenInv'
    BY <1>0, <1>2 DEF TabsInv, ScreenInv, Sound, RanIn, StagedDocs
  <2>2. ASSUME NEW u \in Tabs
        PROVE  /\ Sound(results[u])' /\ RanIn(results[u], u)'
               /\ results'[u].query # 0 => results'[u].query # screen'.query
    <3>1. CASE results'[u] = results[u]
      BY <1>0, <1>2, <3>1 DEF TabsInv, ParkedInv, Sound, RanIn, StagedDocs
    <3>2. CASE results'[u] = NoResult
      BY <1>0, <3>2, NothingIsSound DEF Sound, RanIn, StagedDocs
    <3> QED
      BY <1>2, <3>1, <3>2
  <2> QED
    BY <1>1, <2>1, <2>2 DEF ParkedInv
<1>3. CASE /\ ~(resultTab = t /\ screen.profile = c)
           /\ LET saved == [u \in Tabs |-> IF u \in open THEN Park(results)[u] ELSE NoResult]
              IN  IF Restorable(t, c, saved)
                    THEN /\ screen' = saved[t] /\ resultTab' = t
                         /\ results' = [saved EXCEPT ![t] = NoResult]
                    ELSE /\ screen' = NoResult /\ resultTab' = Nobody
                         /\ results' = saved
  <2> DEFINE saved == [u \in Tabs |-> IF u \in open THEN Park(results)[u] ELSE NoResult]
  <2>1. \A u \in Tabs : Sound(saved[u]) /\ RanIn(saved[u], u)
    BY ParkHome, NothingIsSound DEF RanIn
  <2>2. CASE Restorable(t, c, saved)
    <3>1. t \in Tabs /\ saved[t].profile = c
      BY <2>2 DEF Restorable, Names
    <3>2. screen' = saved[t] /\ resultTab' = t /\ results' = [saved EXCEPT ![t] = NoResult]
      BY <1>3, <2>2
    <3> HIDE DEF saved
    <3>3. ScreenInv'
      BY <1>0, <2>1, <3>1, <3>2 DEF ScreenInv, Sound, RanIn, StagedDocs
    <3>4. ASSUME NEW u \in Tabs
          PROVE  /\ Sound(results[u])' /\ RanIn(results[u], u)'
                 /\ results'[u].query # 0 => results'[u].query # screen'.query
      <4>1. CASE u = t
        <5>1. results'[u] = NoResult
          BY <3>2, <4>1 DEF saved
        <5> QED
          BY <1>0, <5>1, NothingIsSound DEF Sound, RanIn, StagedDocs
      <4>2. CASE u # t
        <5>1. results'[u] = saved[u]
          BY <3>2, <4>2 DEF saved
        <5>2. saved[u].query # 0 => saved[u].query # saved[t].query
          BY <2>1, <3>1, <4>2 DEF RanIn
        <5> QED
          BY <1>0, <2>1, <3>2, <5>1, <5>2 DEF Sound, RanIn, StagedDocs
      <4> QED
        BY <4>1, <4>2
    <3> QED
      BY <1>1, <3>3, <3>4 DEF ParkedInv
  <2>3. CASE ~Restorable(t, c, saved)
    <3>1. screen' = NoResult /\ resultTab' = Nobody /\ results' = saved
      BY <1>3, <2>3
    <3> HIDE DEF saved
    <3>2. ScreenInv'
      BY <1>0, <3>1, NothingIsSound DEF ScreenInv, Sound, RanIn, StagedDocs
    <3>3. ParkedInv'
      BY <1>0, <2>1, <3>1, NothingIsSound DEF ParkedInv, Sound, RanIn, StagedDocs
    <3> QED
      BY <1>1, <3>2, <3>3
  <2> QED
    BY <2>2, <2>3
<1> QED
  BY <1>2, <1>3 DEF Sync

LEMMA EditHome == TabsInv /\ EditNext => ScreenInv' /\ ParkedInv' /\ BatchInv'
<1> SUFFICES ASSUME TabsInv, EditNext PROVE ScreenInv' /\ ParkedInv' /\ BatchInv'
  OBVIOUS
<1> USE DEF frontVars, runVars
<1>0. /\ screen \in Results /\ screen.edits \in EditSets
      /\ \A d \in StagedDocs(screen.edits) : screen.edits[d].from = screen.query
  BY DEF TabsInv, TabsTypeOK, ScreenInv, Sound, Results, EditSets
\* What is staged changes, and stays the grid's own.
<1>a. ASSUME NEW f \in EditSets, Edits(f), UNCHANGED <<frontVars, runVars>>,
             \A d \in StagedDocs(f) : f[d].from = screen.query
      PROVE  ScreenInv'
  <2>1. /\ screen'.query = screen.query /\ screen'.profile = screen.profile
        /\ screen'.editing = screen.editing /\ screen'.edits = f
    BY <1>0, <1>a DEF Edits, Results
  <2> QED
    BY <1>a, <2>1, SameResult
<1>b. ASSUME UNCHANGED <<frontVars, runVars, screen>> PROVE ScreenInv'
  BY <1>0, <1>b, SameResult
<1>c. ASSUME UNCHANGED <<frontVars, runVars>>, screen'.query = screen.query PROVE ParkedInv'
  BY <1>c DEF TabsInv, ParkedInv, Sound, RanIn, StagedDocs
\* A batch is sent, or not; what it writes stays the same.
<1>d. ASSUME UNCHANGED ran,
             \A b \in commits' : b \in commits \/ \E old \in commits : b.docs = old.docs /\ b.to = old.to
      PROVE  BatchInv'
  BY <1>d DEF TabsInv, BatchInv, StagedDocs
<1>1. ASSUME NEW d \in Documents, Stage(d) PROVE ScreenInv' /\ ParkedInv' /\ BatchInv'
  <2> DEFINE staged == IF screen.edits[d] = Unstaged
                         THEN [from |-> screen.query, state |-> "pending", expect |-> screen.profile]
                         ELSE [screen.edits[d] EXCEPT !.state = "pending"]
             f == [screen.edits EXCEPT ![d] = staged]
  <2>1. screen.query \in Queries /\ screen.profile \in Connections
    BY <1>1, Somewhere DEF Stage, Editable, RanSomewhere, TabsInv, TabsTypeOK, Results
  <2>2. staged \in Staged /\ staged.from = screen.query
    BY <1>0, <2>1 DEF EditSets, Staged, StagedDocs
  <2>3. f \in EditSets /\ \A e \in StagedDocs(f) : f[e].from = screen.query
    BY <1>0, <2>2 DEF EditSets, StagedDocs
  <2>4. Edits(f) /\ UNCHANGED <<frontVars, runVars, commits>>
    BY <1>1 DEF Stage, editVars
  <2>5. screen'.query = screen.query
    BY <1>0, <2>4 DEF Edits, Results
  <2> QED
    BY <1>a, <1>c, <1>d, <2>3, <2>4, <2>5
<1>2. ASSUME NEW d \in Documents, Unstage(d) PROVE ScreenInv' /\ ParkedInv' /\ BatchInv'
  <2> DEFINE f == [screen.edits EXCEPT ![d] = Unstaged]
  <2>1. f \in EditSets /\ \A e \in StagedDocs(f) : f[e].from = screen.query
    BY <1>0 DEF EditSets, StagedDocs
  <2>2. Edits(f) /\ UNCHANGED <<frontVars, runVars, commits>>
    BY <1>2 DEF Unstage, editVars
  <2>3. screen'.query = screen.query
    BY <1>0, <2>2 DEF Edits, Results
  <2> QED
    BY <1>a, <1>c, <1>d, <2>1, <2>2, <2>3
<1>3. ASSUME NEW d \in Documents, Rebase(d) PROVE ScreenInv' /\ ParkedInv' /\ BatchInv'
  <2>1. UNCHANGED <<frontVars, runVars, commits>>
    BY <1>3 DEF Rebase
  <2>2. CASE screen.edits[d] = Unstaged /\ UNCHANGED screen
    BY <1>b, <1>c, <1>d, <2>1, <2>2
  <2>3. CASE /\ screen.edits[d] # Unstaged
             /\ Edits([screen.edits EXCEPT ![d].expect = review[d], ![d].state = "pending"])
    <3> DEFINE f == [screen.edits EXCEPT ![d].expect = review[d], ![d].state = "pending"]
    <3>1. screen.edits[d] \in Staged /\ review[d] \in Connections
      BY <1>0, <1>3, <2>3 DEF Rebase, TabsInv, TabsTypeOK, Profiled, EditSets
    <3>2. f \in EditSets /\ \A e \in StagedDocs(f) : f[e].from = screen.query
      BY <1>0, <2>3, <3>1 DEF EditSets, Staged, StagedDocs
    <3>3. screen'.query = screen.query
      BY <1>0, <2>3 DEF Edits, Results
    <3> QED
      BY <1>a, <1>c, <1>d, <2>1, <2>3, <3>2, <3>3
  <2> QED
    BY <1>3, <2>2, <2>3 DEF Rebase
<1>4. CASE DiscardAll
  <2>1. StagedDocs(NoEdits) = {} /\ Edits(NoEdits) /\ UNCHANGED <<frontVars, runVars, commits>>
    BY <1>4 DEF DiscardAll, StagedDocs, NoEdits, editVars
  <2>2. screen'.query = screen.query
    BY <1>0, <2>1 DEF Edits, Results
  <2> QED
    BY <1>a, <1>c, <1>d, <2>1, <2>2, NoResultType
<1>5. CASE CommitStagedEdits
  <2> DEFINE batch == [docs |-> Pending(screen.edits), to |-> screen.profile, at |-> "confirm"]
  <2>1. commits' = commits \cup {batch} /\ UNCHANGED <<frontVars, runVars, screen>>
    BY <1>5 DEF CommitStagedEdits
  <2>2. screen.query \in DOMAIN ran /\ ran[screen.query].to = screen.profile
    BY <1>5 DEF CommitStagedEdits, Editable, TabsInv, ScreenInv, Sound
  <2>3. ASSUME NEW d \in StagedDocs(batch.docs)
        PROVE  batch.docs[d].from = screen.query
    BY <1>0 DEF StagedDocs, Pending
  <2>4. BatchInv'
    BY <2>1, <2>2, <2>3 DEF TabsInv, BatchInv, StagedDocs
  <2> QED
    BY <1>b, <1>c, <2>1, <2>4
<1>6. ASSUME NEW b \in commits, DeclineCommit(b) PROVE ScreenInv' /\ ParkedInv' /\ BatchInv'
  BY <1>6, <1>b, <1>c, <1>d DEF DeclineCommit
<1>7. ASSUME NEW b \in commits, SendMutations(b) PROVE ScreenInv' /\ ParkedInv' /\ BatchInv'
  <2>1. UNCHANGED <<frontVars, runVars, screen>>
    BY <1>7 DEF SendMutations
  <2>2. b \in BatchSets
    BY DEF TabsInv, TabsTypeOK, BatchSets, EditSets
  <2>3. \A n \in commits' : n \in commits \/ \E old \in commits : n.docs = old.docs /\ n.to = old.to
    BY <1>7, <2>2 DEF SendMutations, BatchSets
  <2> QED
    BY <1>b, <1>c, <1>d, <2>1, <2>3
<1>8. ASSUME NEW b \in commits, FinishCommit(b) PROVE ScreenInv' /\ ParkedInv' /\ BatchInv'
  <2>1. UNCHANGED <<frontVars, runVars>>
    BY <1>8 DEF FinishCommit
  <2>2. b \in BatchSets
    BY DEF TabsInv, TabsTypeOK, BatchSets, EditSets
  <2>3. \A n \in commits' : n \in commits \/ \E old \in commits : n.docs = old.docs /\ n.to = old.to
    BY <1>8, <2>2 DEF FinishCommit, BatchSets
  <2>4. ASSUME NEW s \in [StagedDocs(b.docs) \cap StagedDocs(screen.edits) ->
                              {"applied", "conflicted", "failed"}],
               Edits([d \in Documents |-> IF d \in DOMAIN s
                                            THEN [screen.edits[d] EXCEPT !.state = s[d]]
                                            ELSE screen.edits[d]])
        PROVE  ScreenInv' /\ screen'.query = screen.query
    <3> DEFINE f == [d \in Documents |-> IF d \in DOMAIN s
                                           THEN [screen.edits[d] EXCEPT !.state = s[d]]
                                           ELSE screen.edits[d]]
    <3>1. ASSUME NEW d \in DOMAIN s
          PROVE  /\ d \in Documents /\ f[d] \in Staged
                 /\ f[d].from = screen.query
      BY <1>0 DEF StagedDocs, EditSets, Staged
    <3>2. f \in EditSets
      BY <1>0, <3>1 DEF EditSets
    <3>3. \A e \in StagedDocs(f) : f[e].from = screen.query
      BY <1>0, <3>1 DEF StagedDocs
    <3>4. screen'.query = screen.query
      BY <1>0, <2>4 DEF Edits, Results
    <3> QED
      BY <1>a, <2>1, <2>4, <3>2, <3>3, <3>4
  <2> QED
    BY <1>8, <1>b, <1>c, <1>d, <2>1, <2>3, <2>4 DEF FinishCommit
<1>9. CASE ReviewConflicts \/ FinishReread
  BY <1>9, <1>b, <1>c, <1>d DEF ReviewConflicts, FinishReread
<1> QED
  BY <1>1, <1>2, <1>3, <1>4, <1>5, <1>6, <1>7, <1>8, <1>9 DEF EditNext

LEMMA HomeStep == TabsInv /\ [TabsNext]_tabsVars => TabsInv'
<1> SUFFICES ASSUME TabsInv, [TabsNext]_tabsVars PROVE ScreenInv' /\ ParkedInv' /\ BatchInv'
  BY TypeStep DEF TabsInv
<1>1. CASE RunNext
  BY <1>1, RunHome
<1>2. CASE FrontNext
  BY <1>2, FrontHome
<1>3. CASE EditNext
  BY <1>3, EditHome
<1>4. CASE UNCHANGED tabsVars
  BY <1>4 DEF tabsVars, frontVars, runVars, editVars, TabsInv, ScreenInv, ParkedInv, BatchInv,
              Sound, RanIn, StagedDocs
<1> QED
  BY <1>1, <1>2, <1>3, <1>4 DEF TabsNext

\* The variables of the window have their types.
THEOREM TabTypes == TabsSpec => []TabsTypeOK
<1>1. TabsInv => TabsTypeOK
  BY DEF TabsInv
<1> QED
  BY InitHolds, HomeStep, <1>1, PTL DEF TabsSpec

\* The grid shows only what the tab in front ran on its connection, results stay under
\* their tabs, edits with their results, and batches go where their rows came from.
THEOREM TabsStayHonest == TabsSpec => []TabsAreHonest
<1>1. TabsInv => TabsAreHonest
  <2> SUFFICES ASSUME TabsInv PROVE TabsAreHonest
    OBVIOUS
  <2>1. TabKeepsItsOwn
    BY DEF TabsInv, ScreenInv, ParkedInv, Sound, RanIn, TabKeepsItsOwn
  <2>2. EditsGoHome
    BY DEF TabsInv, ScreenInv, ParkedInv, BatchInv, Sound, EditsGoHome
  <2> QED
    BY <2>1, <2>2 DEF TabsAreHonest
<1> QED
  BY InitHolds, HomeStep, <1>1, PTL DEF TabsSpec
=====================================================================================================================================================
