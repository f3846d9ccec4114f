--------------------------- MODULE Sidecar_proofs ---------------------------
(***************************************************************************)
(* What is proved of an engine that runs as a child process: the table of  *)
(* requests is right on both sides of the pipes (TableIsTrue), for any     *)
(* number of connections, requests and cancels.                            *)
(*                                                                         *)
(* The argument: a request that has been made is to be written, or on the  *)
(* way down, or with its goroutine, or on the way up, and never in two of  *)
(* these places; and as long as the process is not dead, it is in the      *)
(* table wherever it is (OnePlace).  So a reply that is read is in the     *)
(* table.  Dead is only what is down, and its table is empty (TheDead).    *)
(***************************************************************************)
EXTENDS Sidecar, SequenceTheorems, TLAPS

Frames == {Torn} \cup {Request(i) : i \in Ids} \cup {Cancel(c) : c \in Conns}
Replies == [id : Ids, cursor : {0} \cup Ids]
Stages == {"none", "read", "engine", "opened", "locking", "fetching"}

InDown(i) == \E k \in 1 .. Len(down) : down[k] = Request(i)
InUp(i) == \E k \in 1 .. Len(up) : up[k].id = i

\* What is only the host's, or only of this process, and of its type.
AsideTypes ==
    /\ stdin \in BOOLEAN /\ killing \in BOOLEAN /\ supervisor \in {"reading", "ending", "over"}
    /\ holds \in [Conns -> {0} \cup Ids] /\ held \subseteq Conns
    /\ canceller \in [Conns -> {"idle", "settling"}] /\ cancels \in 0 .. MaxCancels
    /\ child \in {"up", "stopping", "down"} /\ known \subseteq Conns

TableTypes ==
    /\ asked \in Seq([conn : Conns, kind : Kinds, cursor : {0} \cup Ids]) /\ Made \subseteq Ids
    /\ call \in [Ids -> {"none", "send", "wait", "gone", "ok", "err"}]
    /\ pending \subseteq Made /\ dead \in BOOLEAN
    /\ stage \in [Ids -> Stages]
    /\ live \subseteq Made /\ cancelled \subseteq Made /\ open \subseteq Made
    /\ down \in Seq(Frames) /\ up \in Seq(Replies)

\* What is on its way down or in a goroutine was asked for; a fetch has a cursor.
AskedFor ==
    /\ \A i \in Ids : InDown(i) \/ stage[i] # "none" => i \in Made
    /\ \A i \in Made : stage[i] = "fetching" => Cursor(i) \in Made

OneFrame == \A j, k \in 1 .. Len(down) : \A i \in Ids : down[j] = Request(i) /\ down[k] = Request(i) => j = k
OneReply == \A j, k \in 1 .. Len(up) : up[j].id = up[k].id => j = k

\* A request of the table is in one place at most; one that is still to be written in none.
OnePlace ==
    ~dead =>
        /\ OneFrame /\ OneReply
        /\ \A i \in Ids :
            /\ InDown(i) \/ InUp(i) \/ stage[i] # "none" => i \in pending /\ call[i] # "send"
            /\ ~(InDown(i) /\ InUp(i)) /\ (stage[i] # "none" => ~InDown(i) /\ ~InUp(i))
        /\ \A i \in Made : call[i] = "send" => i \in pending

\* The dead are buried, and nobody waits for them.
TheDead ==
    /\ dead => child = "down" /\ pending = {}
    /\ \A i \in Made : call[i] = "wait" => i \in pending

SidecarInv == AsideTypes /\ TableTypes /\ AskedFor /\ OnePlace /\ TheDead

CallStates == {"none", "send", "wait", "gone", "ok", "err"}

----------------------------------------------------------------------------
(* The pipes *)

LEMMA Numbers ==
    /\ MaxRequests \in Nat /\ MaxCancels \in Nat /\ 0 \notin Ids
    /\ \A i \in Ids : Request(i) \in Frames /\ Request(i) # Torn /\ Request(i).type = "request" /\ Request(i).id = i
    /\ \A c \in Conns : Cancel(c) \in Frames /\ Cancel(c).type = "cancel" /\ \A i \in Ids : Request(i) # Cancel(c)
    /\ Torn \in Frames /\ Torn.type = "torn"
    /\ \A i, j \in Ids : Request(i) = Request(j) => i = j
<1>1. \A i : Request(i).type = "request" /\ Request(i).id = i
  BY DEF Request
<1>2. \A c : Cancel(c).type = "cancel"
  BY DEF Cancel
<1>3. Torn.type = "torn"
  BY DEF Torn
<1>4. MaxRequests \in Nat /\ MaxCancels \in Nat /\ 0 \notin Ids
  BY SidecarBounds DEF Ids
<1>5. \A i \in Ids : Request(i) \in Frames
  BY DEF Frames
<1>6. (\A c \in Conns : Cancel(c) \in Frames) /\ Torn \in Frames
  BY DEF Frames
<1> HIDE DEF Request, Cancel, Torn
<1>7. \A i \in Ids : Request(i) # Torn /\ \A c \in Conns : Request(i) # Cancel(c)
  BY <1>1, <1>2, <1>3
<1>8. \A i, j \in Ids : Request(i) = Request(j) => i = j
  BY <1>1
<1> QED BY <1>1, <1>2, <1>3, <1>4, <1>5, <1>6, <1>7, <1>8

\* What is written goes behind what is there.
LEMMA DownGrows ==
    ASSUME down \in Seq(Frames), NEW f \in Frames, down' = Append(down, f)
    PROVE  /\ down' \in Seq(Frames)
           /\ \A i \in Ids : InDown(i)' <=> InDown(i) \/ f = Request(i)
           /\ OneFrame /\ (\A i \in Ids : f = Request(i) => ~InDown(i)) => OneFrame'
<1>1. /\ down' \in Seq(Frames) /\ Len(down) \in Nat /\ Len(down') = Len(down) + 1
      /\ \A k \in 1 .. Len(down) : down'[k] = down[k]
      /\ down'[Len(down) + 1] = f
  BY AppendProperties, LenProperties
<1>2. \A k \in 1 .. Len(down') : k \in 1 .. Len(down) \/ k = Len(down) + 1
  BY <1>1
<1>3. Len(down) + 1 \in 1 .. Len(down') /\ \A k \in 1 .. Len(down) : k \in 1 .. Len(down')
  BY <1>1
<1>4. \A i \in Ids : InDown(i)' <=> InDown(i) \/ f = Request(i)
  BY <1>1, <1>2, <1>3 DEF InDown
<1>5. ASSUME OneFrame, \A i \in Ids : f = Request(i) => ~InDown(i) PROVE OneFrame'
  <2> SUFFICES ASSUME NEW j \in 1 .. Len(down'), NEW k \in 1 .. Len(down'), NEW i \in Ids,
                      down'[j] = Request(i), down'[k] = Request(i)
               PROVE  j = k
    BY DEF OneFrame
  <2>1. CASE j \in 1 .. Len(down) /\ k \in 1 .. Len(down)
    BY <1>1, <1>5, <2>1 DEF OneFrame
  <2>2. CASE j = Len(down) + 1 /\ k \in 1 .. Len(down)
    BY <1>1, <1>5, <2>2 DEF InDown
  <2>3. CASE j \in 1 .. Len(down) /\ k = Len(down) + 1
    BY <1>1, <1>5, <2>3 DEF InDown
  <2> QED BY <1>2, <2>1, <2>2, <2>3
<1> QED BY <1>1, <1>4, <1>5

\* What is read was there, and is there no more.
LEMMA DownShrinks ==
    ASSUME down \in Seq(Frames), down # <<>>, down' = Tail(down)
    PROVE  /\ down' \in Seq(Frames) /\ Head(down) \in Frames
           /\ \A i \in Ids : InDown(i)' => InDown(i)
           /\ \A i \in Ids : Head(down) = Request(i) => InDown(i)
           /\ OneFrame => OneFrame' /\ \A i \in Ids : Head(down) = Request(i) => ~InDown(i)'
<1>1. /\ down' \in Seq(Frames) /\ Head(down) \in Frames /\ Len(down) \in Nat \ {0} /\ Len(down') = Len(down) - 1
      /\ \A k \in 1 .. Len(down') : down'[k] = down[k + 1]
      /\ Head(down) = down[1]
  BY HeadTailProperties, EmptySeq
<1>2. 1 \in 1 .. Len(down) /\ \A k \in 1 .. Len(down') : k + 1 \in 1 .. Len(down) /\ k + 1 # 1
  BY <1>1
<1>3. \A i \in Ids : (InDown(i)' => InDown(i)) /\ (Head(down) = Request(i) => InDown(i))
  BY <1>1, <1>2 DEF InDown
<1>4. ASSUME OneFrame PROVE OneFrame' /\ \A i \in Ids : Head(down) = Request(i) => ~InDown(i)'
  <2>1. OneFrame'
    <3> SUFFICES ASSUME NEW j \in 1 .. Len(down'), NEW k \in 1 .. Len(down'), NEW i \in Ids,
                        down'[j] = Request(i), down'[k] = Request(i)
                 PROVE  j = k
      BY DEF OneFrame
    <3>1. down[j + 1] = Request(i) /\ down[k + 1] = Request(i)
      BY <1>1
    <3>2. j + 1 = k + 1
      BY <1>2, <1>4, <3>1 DEF OneFrame
    <3> QED BY <3>2
  <2>2. ASSUME NEW i \in Ids, Head(down) = Request(i), NEW k \in 1 .. Len(down'), down'[k] = Request(i) PROVE FALSE
    BY <1>1, <1>2, <1>4, <2>2 DEF OneFrame
  <2> QED BY <2>1, <2>2 DEF InDown
<1> QED BY <1>1, <1>3, <1>4

LEMMA UpGrows ==
    ASSUME up \in Seq(Replies), NEW i \in Ids, NEW k \in {0} \cup Ids, up' = Append(up, [id |-> i, cursor |-> k])
    PROVE  /\ up' \in Seq(Replies)
           /\ \A j \in Ids : InUp(j)' <=> InUp(j) \/ j = i
           /\ OneReply /\ ~InUp(i) => OneReply'
<1> DEFINE r == [id |-> i, cursor |-> k]
<1>1. r \in Replies /\ r.id = i /\ up' = Append(up, r)
  BY DEF Replies
<1> HIDE DEF r
<1>2. /\ up' \in Seq(Replies) /\ Len(up) \in Nat /\ Len(up') = Len(up) + 1
      /\ \A m \in 1 .. Len(up) : up'[m] = up[m]
      /\ up'[Len(up) + 1] = r
  BY <1>1, AppendProperties, LenProperties
<1>3. \A m \in 1 .. Len(up') : m \in 1 .. Len(up) \/ m = Len(up) + 1
  BY <1>2
<1>4. Len(up) + 1 \in 1 .. Len(up') /\ \A m \in 1 .. Len(up) : m \in 1 .. Len(up')
  BY <1>2
<1>5. \A j \in Ids : InUp(j)' <=> InUp(j) \/ j = i
  BY <1>1, <1>2, <1>3, <1>4 DEF InUp
<1>6. ASSUME OneReply, ~InUp(i) PROVE OneReply'
  <2> SUFFICES ASSUME NEW m \in 1 .. Len(up'), NEW n \in 1 .. Len(up'), up'[m].id = up'[n].id PROVE m = n
    BY DEF OneReply
  <2>1. CASE m \in 1 .. Len(up) /\ n \in 1 .. Len(up)
    BY <1>2, <1>6, <2>1 DEF OneReply
  <2>2. CASE m = Len(up) + 1 /\ n \in 1 .. Len(up)
    BY <1>1, <1>2, <1>6, <2>2 DEF InUp
  <2>3. CASE m \in 1 .. Len(up) /\ n = Len(up) + 1
    BY <1>1, <1>2, <1>6, <2>3 DEF InUp
  <2> QED BY <1>3, <2>1, <2>2, <2>3
<1> QED BY <1>2, <1>5, <1>6

LEMMA UpShrinks ==
    ASSUME up \in Seq(Replies), up # <<>>, up' = Tail(up)
    PROVE  /\ up' \in Seq(Replies) /\ Head(up) \in Replies /\ InUp(Head(up).id)
           /\ \A i \in Ids : InUp(i)' => InUp(i)
           /\ OneReply => OneReply' /\ \A i \in Ids : Head(up).id = i => ~InUp(i)'
<1>1. /\ up' \in Seq(Replies) /\ Head(up) \in Replies /\ Len(up) \in Nat \ {0} /\ Len(up') = Len(up) - 1
      /\ \A k \in 1 .. Len(up') : up'[k] = up[k + 1]
      /\ Head(up) = up[1]
  BY HeadTailProperties, EmptySeq
<1>2. 1 \in 1 .. Len(up) /\ \A k \in 1 .. Len(up') : k + 1 \in 1 .. Len(up) /\ k + 1 # 1
  BY <1>1
<1>3. InUp(Head(up).id) /\ \A i \in Ids : InUp(i)' => InUp(i)
  BY <1>1, <1>2 DEF InUp
<1>4. ASSUME OneReply PROVE OneReply' /\ \A i \in Ids : Head(up).id = i => ~InUp(i)'
  <2>1. OneReply'
    <3> SUFFICES ASSUME NEW j \in 1 .. Len(up'), NEW k \in 1 .. Len(up'), up'[j].id = up'[k].id PROVE j = k
      BY DEF OneReply
    <3>1. j + 1 = k + 1
      BY <1>1, <1>2, <1>4 DEF OneReply
    <3> QED BY <3>1
  <2>2. ASSUME NEW k \in 1 .. Len(up'), up'[k].id = Head(up).id PROVE FALSE
    BY <1>1, <1>2, <1>4, <2>2 DEF OneReply
  <2> QED BY <2>2, <2>1 DEF InUp
<1> QED BY <1>1, <1>3, <1>4

LEMMA PipesStand ==
    /\ UNCHANGED down => (OneFrame' <=> OneFrame) /\ \A i \in Ids : InDown(i)' <=> InDown(i)
    /\ UNCHANGED up => (OneReply' <=> OneReply) /\ \A i \in Ids : InUp(i)' <=> InUp(i)
    /\ down' = <<>> => down' \in Seq(Frames) /\ OneFrame' /\ \A i \in Ids : ~InDown(i)'
    /\ up' = <<>> => up' \in Seq(Replies) /\ OneReply' /\ \A i \in Ids : ~InUp(i)'
<1>1. Len(<<>>) = 0 /\ <<>> \in Seq(Frames) /\ <<>> \in Seq(Replies)
  BY EmptySeq
<1>2. UNCHANGED down => (OneFrame' <=> OneFrame) /\ \A i \in Ids : InDown(i)' <=> InDown(i)
  BY DEF OneFrame, InDown
<1>3. UNCHANGED up => (OneReply' <=> OneReply) /\ \A i \in Ids : InUp(i)' <=> InUp(i)
  BY DEF OneReply, InUp
<1>4. down' = <<>> => down' \in Seq(Frames) /\ OneFrame' /\ \A i \in Ids : ~InDown(i)'
  BY <1>1 DEF OneFrame, InDown
<1>5. up' = <<>> => up' \in Seq(Replies) /\ OneReply' /\ \A i \in Ids : ~InUp(i)'
  BY <1>1 DEF OneReply, InUp
<1> QED BY <1>2, <1>3, <1>4, <1>5

----------------------------------------------------------------------------
LEMMA InitHolds == Init => SidecarInv
<1> SUFFICES ASSUME Init PROVE SidecarInv
  OBVIOUS
<1>1. Len(<<>>) = 0 /\ DOMAIN <<>> = {} /\ \A S : <<>> \in Seq(S)
  BY EmptySeq
<1>2. AsideTypes
  <2>1. cancels \in 0 .. MaxCancels
    BY Numbers DEF Init
  <2>2. holds \in [Conns -> {0} \cup Ids] /\ canceller \in [Conns -> {"idle", "settling"}]
    BY DEF Init
  <2> QED BY <2>1, <2>2 DEF Init, AsideTypes
<1>3. Made = {}
  BY <1>1 DEF Init, Made
<1>4. TableTypes
  BY <1>1, <1>3 DEF Init, TableTypes, Stages
<1>5. AskedFor
  BY <1>1, <1>3 DEF Init, AskedFor, InDown
<1>6. OnePlace
  BY <1>1, <1>3 DEF Init, OnePlace, OneFrame, OneReply, InDown, InUp
<1>7. TheDead
  BY <1>3 DEF Init, TheDead
<1> QED BY <1>2, <1>4, <1>5, <1>6, <1>7 DEF SidecarInv

\* A step that brings no request anywhere and takes none out of the table, unless it is the
\* end for all of them.
LEMMA NothingNew ==
    ASSUME SidecarInv, AsideTypes', UNCHANGED asked,
           call' \in [Ids -> CallStates], dead' \in BOOLEAN, dead => dead',
           stage' \in [Ids -> Stages], live' \subseteq Made, cancelled' \subseteq Made, open' \subseteq Made,
           down' \in Seq(Frames), up' \in Seq(Replies), OneFrame => OneFrame', OneReply => OneReply',
           \A i \in Ids : InDown(i)' => InDown(i), \A i \in Ids : InUp(i)' => InUp(i),
           \A i \in Ids : stage'[i] # "none" => stage[i] # "none",
           \A i \in Made : stage'[i] = "fetching" => stage[i] = "fetching" \/ Cursor(i) \in Made,
           \A i \in Ids : call'[i] = call[i] \/ call'[i] \in {"gone", "err"},
           dead' => child' = "down" /\ pending' = {},
           \/ pending' = pending
           \/ dead' /\ pending' = {} /\ \A i \in Made : call'[i] # "wait"
    PROVE  SidecarInv'
<1>1. Made' = Made /\ Made \subseteq Ids /\ \A i \in Made : Cursor(i)' = Cursor(i)
  BY DEF Made, Cursor, SidecarInv, TableTypes
<1>2. TableTypes'
  BY <1>1 DEF SidecarInv, TableTypes, CallStates
<1>3. AskedFor'
  BY <1>1 DEF SidecarInv, AskedFor
<1>4. OnePlace'
  BY <1>1 DEF SidecarInv, OnePlace
<1>5. TheDead'
  BY <1>1 DEF SidecarInv, TheDead
<1> QED BY <1>2, <1>3, <1>4, <1>5 DEF SidecarInv

----------------------------------------------------------------------------
(* The host *)

LEMMA IssueKeeps ==
    ASSUME SidecarInv, NEW c \in Conns, NEW kind \in Kinds, Issue(c, kind), holds' \in [Conns -> {0} \cup Ids]
    PROVE  SidecarInv'
<1> DEFINE r == [conn |-> c, kind |-> kind, cursor |-> holds[c]]
           n == Len(asked) + 1
<1>1. /\ asked \in Seq([conn : Conns, kind : Kinds, cursor : {0} \cup Ids]) /\ Made \subseteq Ids
      /\ r \in [conn : Conns, kind : Kinds, cursor : {0} \cup Ids]
      /\ Len(asked) < MaxRequests /\ ~dead
  BY DEF Issue, SidecarInv, AsideTypes, TableTypes
<1>2. /\ asked' = Append(asked, r)
      /\ call' = [call EXCEPT ![Len(asked)'] = "send"] /\ pending' = pending \cup {Len(asked)'}
      /\ UNCHANGED <<dead, stdin, supervisor, killing, held, canceller, cancels, down, up, child, known, stage, live,
                     cancelled, open>>
  BY DEF Issue, serverVars
<1> HIDE DEF r
<1>3. /\ asked' \in Seq([conn : Conns, kind : Kinds, cursor : {0} \cup Ids]) /\ Len(asked') = n
      /\ Made = 1 .. Len(asked) /\ Made' = 1 .. n /\ Len(asked) \in Nat
      /\ \A i \in 1 .. Len(asked) : asked'[i] = asked[i]
  BY <1>1, <1>2, AppendProperties, LenProperties DEF Made
<1>4. /\ n \in Ids /\ n \notin Made /\ Made' = Made \cup {n} /\ Made' \subseteq Ids
      /\ \A i \in Made : Cursor(i)' = Cursor(i)
  BY <1>1, <1>3, Numbers DEF Ids, Cursor
<1>5. call' = [call EXCEPT ![n] = "send"] /\ pending' = pending \cup {n}
  BY <1>2, <1>3
<1> HIDE DEF n
<1>6. call \in [Ids -> CallStates] /\ pending \subseteq Made
  BY DEF SidecarInv, TableTypes, CallStates
<1>7. /\ call' \in [Ids -> CallStates] /\ call'[n] = "send"
      /\ \A i \in Ids \ {n} : call'[i] = call[i]
  BY <1>4, <1>5, <1>6 DEF CallStates
<1>8. AsideTypes'
  BY <1>2 DEF SidecarInv, AsideTypes
<1>9. TableTypes'
  BY <1>2, <1>3, <1>4, <1>5, <1>7 DEF SidecarInv, TableTypes, CallStates
<1>10. /\ (OneFrame' <=> OneFrame) /\ (OneReply' <=> OneReply)
       /\ \A i \in Ids : (InDown(i)' <=> InDown(i)) /\ (InUp(i)' <=> InUp(i))
  BY <1>2, PipesStand
<1>11. stage[n] = "none"
  BY <1>4 DEF SidecarInv, AskedFor
<1>12. AskedFor'
  BY <1>2, <1>4, <1>10, <1>11 DEF SidecarInv, AskedFor
<1>13. OnePlace'
  <2>1. OneFrame /\ OneReply
    BY <1>1 DEF SidecarInv, OnePlace
  <2>2. \A i \in Ids : /\ InDown(i) \/ InUp(i) \/ stage[i] # "none" => i \in pending /\ call[i] # "send"
                       /\ ~(InDown(i) /\ InUp(i)) /\ (stage[i] # "none" => ~InDown(i) /\ ~InUp(i))
    BY <1>1 DEF SidecarInv, OnePlace
  <2>3. \A i \in Made : call[i] = "send" => i \in pending
    BY <1>1 DEF SidecarInv, OnePlace
  <2>4. n \notin pending
    BY <1>4, <1>6
  <2>5. \A i \in Ids : InDown(i) \/ InUp(i) \/ stage[i] # "none" => i \in pending' /\ call'[i] # "send"
    BY <1>5, <1>7, <2>2, <2>4
  <2>6. \A i \in Made' : call'[i] = "send" => i \in pending'
    BY <1>1, <1>4, <1>5, <1>7, <2>3
  <2> QED BY <1>2, <1>10, <2>1, <2>2, <2>5, <2>6 DEF OnePlace
<1>14. TheDead'
  BY <1>1, <1>2, <1>4, <1>5, <1>7 DEF SidecarInv, TheDead
<1> QED BY <1>8, <1>9, <1>12, <1>13, <1>14 DEF SidecarInv

\* fail_all is the end for all of them.
LEMMA FailAllKeeps ==
    ASSUME SidecarInv, FailAll, AsideTypes', child' = "down",
           UNCHANGED <<asked, stage, live, cancelled, open, down>>, up' = up \/ up' = <<>>
    PROVE  SidecarInv'
<1>1. /\ call \in [Ids -> CallStates] /\ Made \subseteq Ids /\ stage \in [Ids -> Stages]
      /\ live \subseteq Made /\ cancelled \subseteq Made /\ open \subseteq Made
      /\ down \in Seq(Frames) /\ up \in Seq(Replies)
  BY DEF SidecarInv, TableTypes, CallStates
<1>2. call' = [i \in Ids |-> IF i \in pending /\ call[i] = "wait" THEN "err" ELSE call[i]]
  BY DEF FailAll
<1>3. /\ call' \in [Ids -> CallStates]
      /\ \A i \in Ids : call'[i] = call[i] \/ call'[i] \in {"gone", "err"}
  BY <1>1, <1>2 DEF CallStates
<1>4. \A i \in Made : call'[i] # "wait"
  BY <1>1, <1>2 DEF SidecarInv, TheDead
<1>5. dead' = TRUE /\ pending' = {}
  BY DEF FailAll
<1>6. up' \in Seq(Replies) /\ (OneReply => OneReply') /\ \A i \in Ids : InUp(i)' => InUp(i)
  BY <1>1, PipesStand
<1> QED BY <1>1, <1>3, <1>4, <1>5, <1>6, PipesStand, NothingNew

LEMMA SendKeeps == ASSUME SidecarInv, NEW i \in Made, Send(i) PROVE SidecarInv'
<1>1. /\ call[i] = "send" /\ stdin
      /\ UNCHANGED <<asked, supervisor, holds, held, canceller, cancels, up, child, known, stage, live, cancelled, open>>
      /\ \/ /\ child # "down" /\ down' = Append(down, Request(i)) /\ call' = [call EXCEPT ![i] = "wait"]
            /\ UNCHANGED <<dead, pending, stdin, killing>>
         \/ child = "down" /\ FailAll /\ stdin' = FALSE /\ Stop /\ UNCHANGED down
  BY DEF Send, serverVars
<1>2. CASE child = "down" /\ FailAll /\ stdin' = FALSE /\ Stop /\ UNCHANGED down
  <2>1. AsideTypes'
    BY <1>1, <1>2 DEF SidecarInv, AsideTypes, Stop
  <2> QED BY <1>1, <1>2, <2>1, FailAllKeeps
<1>3. CASE child # "down" /\ down' = Append(down, Request(i)) /\ call' = [call EXCEPT ![i] = "wait"]
           /\ UNCHANGED <<dead, pending, stdin, killing>>
  <2>1. /\ call \in [Ids -> CallStates] /\ Made \subseteq Ids /\ i \in Ids /\ down \in Seq(Frames) /\ ~dead
    BY <1>3 DEF SidecarInv, TableTypes, CallStates, TheDead
  <2>2. /\ call' \in [Ids -> CallStates] /\ call'[i] = "wait"
        /\ \A j \in Ids \ {i} : call'[j] = call[j]
    BY <1>3, <2>1 DEF CallStates
  <2>3. /\ OneFrame /\ OneReply /\ i \in pending /\ ~InDown(i) /\ ~InUp(i) /\ stage[i] = "none"
        /\ \A j \in Ids : /\ InDown(j) \/ InUp(j) \/ stage[j] # "none" => j \in pending /\ call[j] # "send"
                          /\ ~(InDown(j) /\ InUp(j)) /\ (stage[j] # "none" => ~InDown(j) /\ ~InUp(j))
        /\ \A j \in Made : call[j] = "send" => j \in pending
    BY <1>1, <2>1 DEF SidecarInv, OnePlace
  <2>4. Request(i) \in Frames /\ \A j \in Ids : Request(i) = Request(j) => i = j
    BY <2>1, Numbers
  <2>5. /\ down' \in Seq(Frames) /\ OneFrame'
        /\ \A j \in Ids : InDown(j)' <=> InDown(j) \/ j = i
    BY <1>3, <2>1, <2>3, <2>4, DownGrows
  <2>6. (OneReply' <=> OneReply) /\ \A j \in Ids : InUp(j)' <=> InUp(j)
    BY <1>1, PipesStand
  <2>7. Made' = Made /\ \A j \in Made : Cursor(j)' = Cursor(j)
    BY <1>1 DEF Made, Cursor
  <2>8. AsideTypes'
    BY <1>1, <1>3 DEF SidecarInv, AsideTypes
  <2>9. TableTypes'
    BY <1>1, <1>3, <2>2, <2>5, <2>7 DEF SidecarInv, TableTypes, CallStates
  <2>10. AskedFor'
    BY <1>1, <2>5, <2>7 DEF SidecarInv, AskedFor
  <2>11. OnePlace'
    BY <1>1, <1>3, <2>1, <2>2, <2>3, <2>5, <2>6, <2>7 DEF OnePlace
  <2>12. TheDead'
    BY <1>1, <1>3, <2>1, <2>2, <2>3, <2>7 DEF SidecarInv, TheDead
  <2> QED BY <2>8, <2>9, <2>10, <2>11, <2>12 DEF SidecarInv
<1> QED BY <1>1, <1>2, <1>3

\* A caller goes, a task waits or stops: what is on its way stays as it is.
LEMMA HostKeeps ==
    ASSUME SidecarInv, AsideTypes', child' = child,
           UNCHANGED <<asked, pending, dead, up, stage, live, cancelled, open>>,
           call' \in [Ids -> CallStates],
           \A i \in Ids : call'[i] = call[i] \/ call'[i] \in {"gone", "err"},
           down' = down \/ \E f \in Frames : down' = Append(down, f) /\ \A i \in Ids : f # Request(i)
    PROVE  SidecarInv'
<1>1. /\ down \in Seq(Frames) /\ up \in Seq(Replies) /\ dead \in BOOLEAN /\ stage \in [Ids -> Stages]
      /\ live \subseteq Made /\ cancelled \subseteq Made /\ open \subseteq Made
  BY DEF SidecarInv, TableTypes
<1>2. down' \in Seq(Frames) /\ (OneFrame => OneFrame') /\ \A i \in Ids : InDown(i)' => InDown(i)
  BY <1>1, DownGrows, PipesStand
<1>3. dead => child = "down" /\ pending = {}
  BY DEF SidecarInv, TheDead
<1> QED BY <1>1, <1>2, <1>3, PipesStand, NothingNew

LEMMA CallGoes ==
    ASSUME SidecarInv, NEW i \in Made, NEW s \in {"gone", "err"}, call' = [call EXCEPT ![i] = s]
    PROVE  call' \in [Ids -> CallStates] /\ \A j \in Ids : call'[j] = call[j] \/ call'[j] \in {"gone", "err"}
<1>1. call \in [Ids -> CallStates]
  BY DEF SidecarInv, TableTypes, CallStates
<1> QED BY <1>1 DEF CallStates

LEMMA CallersKeep ==
    ASSUME SidecarInv, NEW i \in Made, SendNowhere(i) \/ Abandon(i) \/ CloseGraceOver(i)
    PROVE  SidecarInv'
<1>1. /\ UNCHANGED <<asked, pending, dead, up, stage, live, cancelled, open, child, known, stdin, supervisor, holds, held,
                     canceller, cancels>>
      /\ killing' = killing \/ Stop
      /\ call' = [call EXCEPT ![i] = "gone"] \/ call' = [call EXCEPT ![i] = "err"]
      /\ down' = down \/ down' = Append(down, Torn)
  BY DEF SendNowhere, Abandon, CloseGraceOver, serverVars
<1>2. AsideTypes'
  BY <1>1 DEF SidecarInv, AsideTypes, Stop
<1>3. call' \in [Ids -> CallStates] /\ \A j \in Ids : call'[j] = call[j] \/ call'[j] \in {"gone", "err"}
  BY <1>1, CallGoes
<1>4. Torn \in Frames /\ \A j \in Ids : Torn # Request(j)
  BY Numbers
<1> QED BY <1>1, <1>2, <1>3, <1>4, HostKeeps

LEMMA CancelConnKeeps == ASSUME SidecarInv, NEW c \in Conns, CancelConn(c) PROVE SidecarInv'
<1>1. /\ cancels < MaxCancels /\ cancels' = cancels + 1
      /\ UNCHANGED <<asked, supervisor, holds, held, up, child, known, stage, live, cancelled, open>>
      /\ \/ /\ child # "down" /\ down' = Append(down, Cancel(c))
            /\ canceller' = [canceller EXCEPT ![c] = "settling"]
            /\ UNCHANGED <<call, dead, pending, stdin, killing>>
         \/ child = "down" /\ FailAll /\ stdin' = FALSE /\ Stop /\ UNCHANGED <<canceller, down>>
  BY DEF CancelConn, serverVars
<1>2. cancels' \in 0 .. MaxCancels
  BY <1>1, Numbers DEF SidecarInv, AsideTypes
<1>3. CASE child = "down" /\ FailAll /\ stdin' = FALSE /\ Stop /\ UNCHANGED <<canceller, down>>
  <2>1. AsideTypes'
    BY <1>1, <1>2, <1>3 DEF SidecarInv, AsideTypes, Stop
  <2> QED BY <1>1, <1>3, <2>1, FailAllKeeps
<1>4. CASE /\ child # "down" /\ down' = Append(down, Cancel(c))
           /\ canceller' = [canceller EXCEPT ![c] = "settling"]
           /\ UNCHANGED <<call, dead, pending, stdin, killing>>
  <2>1. canceller' \in [Conns -> {"idle", "settling"}]
    BY <1>4 DEF SidecarInv, AsideTypes
  <2>2. AsideTypes'
    BY <1>1, <1>2, <1>4, <2>1 DEF SidecarInv, AsideTypes
  <2>3. call' \in [Ids -> CallStates]
    BY <1>4 DEF SidecarInv, TableTypes, CallStates
  <2>4. Cancel(c) \in Frames /\ \A j \in Ids : Cancel(c) # Request(j)
    BY Numbers
  <2> QED BY <1>1, <1>4, <2>2, <2>3, <2>4, HostKeeps
<1> QED BY <1>1, <1>3, <1>4

LEMMA HostTasksKeep ==
    ASSUME SidecarInv, DropProcess \/ DropGraceOver \/ ReadEnd \/ \E c \in Conns : Settle(c) \/ GraceOver(c) \/ DropConn(c)
    PROVE  SidecarInv'
<1>1. /\ UNCHANGED <<asked, call, pending, dead, holds, cancels, down, up, child, known, stage, live, cancelled, open>>
      /\ stdin' \in {stdin, FALSE} /\ (killing' = killing \/ Stop) /\ supervisor' \in {supervisor, "ending"}
      /\ canceller' = canceller \/ \E c \in Conns : canceller' = [canceller EXCEPT ![c] = "idle"]
      /\ held' \subseteq held
  BY DEF DropProcess, DropGraceOver, ReadEnd, Settle, GraceOver, DropConn, serverVars
<1>2. canceller' \in [Conns -> {"idle", "settling"}]
  BY <1>1 DEF SidecarInv, AsideTypes
<1>3. AsideTypes'
  BY <1>1, <1>2 DEF SidecarInv, AsideTypes, Stop
<1>4. call' \in [Ids -> CallStates]
  BY <1>1 DEF SidecarInv, TableTypes, CallStates
<1> QED BY <1>1, <1>3, <1>4, HostKeeps

\* read_replies: as long as the process is not dead, the reply is to a request of the table.
LEMMA ReadKeeps == ASSUME SidecarInv, Read PROVE SidecarInv'
<1>read. up # <<>> /\ up' = Tail(up) /\ up \in Seq(Replies)
  BY DEF Read, SidecarInv, TableTypes
<1>head. /\ up' \in Seq(Replies) /\ Head(up) \in Replies /\ InUp(Head(up).id)
         /\ \A j \in Ids : InUp(j)' => InUp(j)
         /\ OneReply => OneReply' /\ \A j \in Ids : Head(up).id = j => ~InUp(j)'
  BY <1>read, UpShrinks
<1>id. PICK i \in Ids : i = Head(up).id
  BY <1>head DEF Replies
<1>cursor. PICK k \in {0} \cup Ids : k = Head(up).cursor
  BY <1>head DEF Replies
<1>1. /\ UNCHANGED <<asked, dead, stdin, killing, held, canceller, cancels, down, child, known, stage, live, cancelled, open>>
      /\ \/ /\ i \in pending /\ pending' = pending \ {i}
            /\ call' = [call EXCEPT ![i] = IF @ = "wait" THEN "ok" ELSE @]
            /\ holds' = IF call[i] = "wait" /\ Kind(i) = "execute" THEN [holds EXCEPT ![Conn(i)] = k] ELSE holds
            /\ UNCHANGED supervisor
         \/ i \notin pending /\ supervisor' = "ending" /\ UNCHANGED <<pending, call, holds>>
  BY <1>id, <1>cursor DEF Read, serverVars
<1>2. /\ up' \in Seq(Replies) /\ InUp(i)
      /\ \A j \in Ids : InUp(j)' => InUp(j)
      /\ OneReply => OneReply' /\ ~InUp(i)'
  <2>1. OneReply => ~InUp(i)'
    BY <1>head, <1>id
  <2>2. InUp(i)
    BY <1>head, <1>id DEF InUp
  <2> QED BY <1>head, <2>1, <2>2
<1>3. (OneFrame' <=> OneFrame) /\ \A j \in Ids : InDown(j)' <=> InDown(j)
  BY <1>1, PipesStand
<1>4. /\ call \in [Ids -> CallStates] /\ Made \subseteq Ids /\ pending \subseteq Made /\ Made' = Made
      /\ \A j \in Made : Cursor(j)' = Cursor(j)
  BY <1>1 DEF SidecarInv, TableTypes, CallStates, Made, Cursor
<1>5. CASE i \notin pending /\ supervisor' = "ending" /\ UNCHANGED <<pending, call, holds>>
  <2>1. AsideTypes'
    BY <1>1, <1>5 DEF SidecarInv, AsideTypes
  <2>2. TableTypes'
    BY <1>1, <1>2, <1>4, <1>5 DEF SidecarInv, TableTypes
  <2>3. AskedFor'
    BY <1>1, <1>3, <1>4 DEF SidecarInv, AskedFor
  <2>4. OnePlace'
    BY <1>1, <1>2, <1>3, <1>4, <1>5 DEF SidecarInv, OnePlace
  <2>5. TheDead'
    BY <1>1, <1>4, <1>5 DEF SidecarInv, TheDead
  <2> QED BY <2>1, <2>2, <2>3, <2>4, <2>5 DEF SidecarInv
<1>6. CASE /\ i \in pending /\ pending' = pending \ {i}
           /\ call' = [call EXCEPT ![i] = IF @ = "wait" THEN "ok" ELSE @]
           /\ holds' = IF call[i] = "wait" /\ Kind(i) = "execute" THEN [holds EXCEPT ![Conn(i)] = k] ELSE holds
           /\ UNCHANGED supervisor
  <2>1. /\ call' \in [Ids -> CallStates] /\ call'[i] # "wait" /\ (call'[i] = "send" => call[i] = "send")
        /\ \A j \in Ids \ {i} : call'[j] = call[j]
    BY <1>2, <1>4, <1>6 DEF CallStates
  <2>2. holds' \in [Conns -> {0} \cup Ids]
    BY <1>2, <1>6 DEF SidecarInv, AsideTypes
  <2>3. AsideTypes'
    BY <1>1, <1>6, <2>2 DEF SidecarInv, AsideTypes
  <2>4. TableTypes'
    BY <1>1, <1>2, <1>4, <1>6, <2>1 DEF SidecarInv, TableTypes, CallStates
  <2>5. AskedFor'
    BY <1>1, <1>3, <1>4 DEF SidecarInv, AskedFor
  <2>6. ASSUME ~dead PROVE /\ OneFrame' /\ OneReply'
                           /\ \A j \in Ids :
                                /\ InDown(j)' \/ InUp(j)' \/ stage[j] # "none" => j \in pending' /\ call'[j] # "send"
                                /\ ~(InDown(j)' /\ InUp(j)') /\ (stage[j] # "none" => ~InDown(j)' /\ ~InUp(j)')
                           /\ \A j \in Made : call'[j] = "send" => j \in pending'
    <3>1. /\ OneFrame /\ OneReply
          /\ \A j \in Ids : /\ InDown(j) \/ InUp(j) \/ stage[j] # "none" => j \in pending /\ call[j] # "send"
                            /\ ~(InDown(j) /\ InUp(j)) /\ (stage[j] # "none" => ~InDown(j) /\ ~InUp(j))
          /\ \A j \in Made : call[j] = "send" => j \in pending
      BY <2>6 DEF SidecarInv, OnePlace
    <3>2. /\ ~InDown(i) /\ stage[i] = "none" /\ call[i] # "send"
          /\ ~InUp(i)'
      BY <1>2, <3>1
    <3>3. \A j \in Ids : /\ InDown(j)' \/ InUp(j)' \/ stage[j] # "none" => j \in pending' /\ call'[j] # "send"
                         /\ ~(InDown(j)' /\ InUp(j)') /\ (stage[j] # "none" => ~InDown(j)' /\ ~InUp(j)')
      <4> TAKE j \in Ids
      <4>1. CASE j = i
        BY <1>3, <3>2, <4>1
      <4>2. CASE j # i
        BY <1>2, <1>3, <1>6, <2>1, <3>1, <4>2
      <4> QED BY <4>1, <4>2
    <3>4. \A j \in Made : call'[j] = "send" => j \in pending'
      BY <1>4, <1>6, <2>1, <3>1, <3>2
    <3> QED BY <1>2, <1>3, <3>1, <3>3, <3>4
  <2>7. OnePlace'
    BY <1>1, <1>4, <2>6 DEF OnePlace
  <2>8. TheDead'
    BY <1>1, <1>4, <1>6, <2>1 DEF SidecarInv, TheDead
  <2> QED BY <2>3, <2>4, <2>5, <2>7, <2>8 DEF SidecarInv
<1> QED BY <1>1, <1>5, <1>6

LEMMA BuryKeeps == ASSUME SidecarInv, Bury PROVE SidecarInv'
<1>1. /\ child = "down" /\ supervisor' = "over" /\ FailAll /\ up' = <<>>
      /\ UNCHANGED <<asked, stdin, killing, holds, held, canceller, cancels, down, child, known, stage, live, cancelled, open>>
  BY DEF Bury, serverVars
<1>2. AsideTypes'
  BY <1>1 DEF SidecarInv, AsideTypes
<1> QED BY <1>1, <1>2, FailAllKeeps

----------------------------------------------------------------------------
(* The child *)

\* A process that is gone takes with it what it had not answered.
LEMMA GoneKeeps == ASSUME SidecarInv, Kill \/ Exit \/ Crash PROVE SidecarInv'
<1>1. /\ child' = "down" /\ down' = <<>> /\ known' = {} /\ open' = {} /\ live' = {} /\ cancelled' = {}
      /\ stage' = [i \in Ids |-> "none"]
      /\ UNCHANGED <<asked, call, pending, dead, stdin, supervisor, killing, holds, held, canceller, cancels, up>>
  BY DEF Kill, Exit, Crash, Gone, hostVars
<1>2. AsideTypes'
  BY <1>1 DEF SidecarInv, AsideTypes
<1>3. /\ stage' \in [Ids -> Stages] /\ \A i \in Ids : stage'[i] = "none"
  BY <1>1 DEF Stages
<1>4. call' \in [Ids -> CallStates] /\ dead' \in BOOLEAN /\ up \in Seq(Replies) /\ Made \subseteq Ids
  BY <1>1 DEF SidecarInv, TableTypes, CallStates
<1>5. dead' => child' = "down" /\ pending' = {}
  BY <1>1 DEF SidecarInv, TheDead
<1> QED BY <1>1, <1>2, <1>3, <1>4, <1>5, PipesStand, NothingNew

\* The child cancels, loses or takes up something, and starts and answers nothing.
LEMMA ChildKeeps ==
    ASSUME SidecarInv, child # "down", UNCHANGED <<hostVars, up>>, child' \in {"up", "stopping"}, known' \subseteq Conns,
           live' \subseteq Made, cancelled' \subseteq Made, open' \subseteq Made, stage' \in [Ids -> Stages],
           \A i \in Ids : stage'[i] # "none" => stage[i] # "none",
           \A i \in Made : stage'[i] = "fetching" => stage[i] = "fetching" \/ Cursor(i) \in Made,
           down' = down \/ (down # <<>> /\ down' = Tail(down))
    PROVE  SidecarInv'
<1>1. UNCHANGED <<asked, call, pending, dead, stdin, supervisor, killing, holds, held, canceller, cancels>>
  BY DEF hostVars
<1>2. /\ call' \in [Ids -> CallStates] /\ dead = FALSE /\ up \in Seq(Replies) /\ down \in Seq(Frames)
  BY <1>1 DEF SidecarInv, TableTypes, CallStates, TheDead
<1>3. AsideTypes'
  BY <1>1 DEF SidecarInv, AsideTypes
<1>4. down' \in Seq(Frames) /\ (OneFrame => OneFrame') /\ \A i \in Ids : InDown(i)' => InDown(i)
  BY <1>2, PipesStand, DownShrinks
<1>5. up' \in Seq(Replies) /\ (OneReply => OneReply') /\ \A i \in Ids : InUp(i)' => InUp(i)
  BY <1>2, PipesStand
<1>6. dead' = FALSE /\ dead' \in BOOLEAN
  BY <1>1, <1>2
<1>7. \A i \in Ids : call'[i] = call[i]
  BY <1>1
<1> QED BY <1>1, <1>2, <1>3, <1>4, <1>5, <1>6, <1>7, NothingNew

LEMMA ServeKeeps == ASSUME SidecarInv, Serve PROVE SidecarInv'
<1>2. /\ child = "up" /\ down # <<>> /\ down' = Tail(down) /\ Head(down).type = "request" /\ UNCHANGED hostVars
      /\ down \in Seq(Frames) /\ up \in Seq(Replies) /\ stage \in [Ids -> Stages] /\ ~dead
      /\ Made' = Made /\ Made \subseteq Ids /\ \A j \in Made : Cursor(j)' = Cursor(j)
  BY DEF Serve, hostVars, SidecarInv, TableTypes, TheDead, Made, Cursor
<1>3. /\ down' \in Seq(Frames) /\ Head(down) \in Frames
      /\ \A j \in Ids : InDown(j)' => InDown(j)
      /\ \A j \in Ids : Head(down) = Request(j) => InDown(j)
      /\ OneFrame => OneFrame' /\ \A j \in Ids : Head(down) = Request(j) => ~InDown(j)'
  BY <1>2, DownShrinks
<1>4. PICK i \in Ids : Head(down) = Request(i)
  BY <1>2, <1>3, Numbers DEF Frames
<1>1. /\ stage' = [stage EXCEPT ![i] = "read"]
      /\ UNCHANGED <<asked, call, pending, dead, stdin, supervisor, killing, holds, held, canceller, cancels, up, child,
                     known, live, cancelled, open>>
  BY <1>4, Numbers DEF Serve, hostVars
<1>6. /\ stage' \in [Ids -> Stages] /\ stage'[i] = "read"
      /\ \A m \in Ids \ {i} : stage'[m] = stage[m]
  BY <1>1, <1>2 DEF Stages
<1>7. /\ OneFrame /\ OneReply
      /\ \A m \in Ids : /\ InDown(m) \/ InUp(m) \/ stage[m] # "none" => m \in pending /\ call[m] # "send"
                        /\ ~(InDown(m) /\ InUp(m)) /\ (stage[m] # "none" => ~InDown(m) /\ ~InUp(m))
      /\ \A m \in Made : call[m] = "send" => m \in pending
  BY <1>2 DEF SidecarInv, OnePlace
<1>8. (OneReply' <=> OneReply) /\ \A m \in Ids : InUp(m)' <=> InUp(m)
  BY <1>1, PipesStand
<1>9. ~InDown(i)' /\ ~InUp(i) /\ i \in pending /\ call[i] # "send" /\ i \in Made
  BY <1>3, <1>4, <1>7 DEF SidecarInv, AskedFor
<1>10. AsideTypes'
  BY <1>1 DEF SidecarInv, AsideTypes
<1>11. TableTypes'
  BY <1>1, <1>2, <1>3, <1>6 DEF SidecarInv, TableTypes
<1>12. AskedFor'
  <2>1. \A m \in Ids : InDown(m)' \/ stage'[m] # "none" => m \in Made
    BY <1>3, <1>6, <1>9 DEF SidecarInv, AskedFor
  <2>2. \A m \in Made : stage'[m] = "fetching" => Cursor(m) \in Made
    BY <1>2, <1>6 DEF SidecarInv, AskedFor
  <2> QED BY <1>2, <2>1, <2>2 DEF AskedFor
<1>13. OnePlace'
  <2>1. \A m \in Ids : /\ InDown(m)' \/ InUp(m)' \/ stage'[m] # "none" => m \in pending /\ call[m] # "send"
                       /\ ~(InDown(m)' /\ InUp(m)') /\ (stage'[m] # "none" => ~InDown(m)' /\ ~InUp(m)')
    <3> TAKE m \in Ids
    <3>1. CASE m = i
      BY <1>7, <1>8, <1>9, <3>1
    <3>2. CASE m # i
      BY <1>3, <1>6, <1>7, <1>8, <3>2
    <3> QED BY <3>1, <3>2
  <2> QED BY <1>1, <1>2, <1>3, <1>7, <1>8, <2>1 DEF OnePlace
<1>14. TheDead'
  BY <1>1, <1>2 DEF SidecarInv, TheDead
<1> QED BY <1>10, <1>11, <1>12, <1>13, <1>14 DEF SidecarInv

\* A goroutine's last step.
LEMMA ReplyKeeps ==
    ASSUME SidecarInv, NEW i \in Made, NEW k \in {0} \cup Ids, child # "down", stage[i] # "none", Reply(i, k),
           UNCHANGED <<hostVars, down, child>>, known' \subseteq Conns,
           live' \subseteq Made, cancelled' \subseteq Made, open' \subseteq Made
    PROVE  SidecarInv'
<1>1. /\ UNCHANGED <<asked, call, pending, dead, stdin, supervisor, killing, holds, held, canceller, cancels, down, child>>
      /\ stage' = [stage EXCEPT ![i] = "none"] /\ up' = Append(up, [id |-> i, cursor |-> k])
  BY DEF hostVars, Reply
<1>2. /\ down \in Seq(Frames) /\ up \in Seq(Replies) /\ stage \in [Ids -> Stages] /\ ~dead
      /\ Made' = Made /\ Made \subseteq Ids /\ i \in Ids /\ \A j \in Made : Cursor(j)' = Cursor(j)
  BY <1>1 DEF SidecarInv, TableTypes, TheDead, Made, Cursor
<1>3. /\ stage' \in [Ids -> Stages] /\ stage'[i] = "none"
      /\ \A m \in Ids \ {i} : stage'[m] = stage[m]
  BY <1>1, <1>2 DEF Stages
<1>4. /\ OneFrame /\ OneReply
      /\ \A m \in Ids : /\ InDown(m) \/ InUp(m) \/ stage[m] # "none" => m \in pending /\ call[m] # "send"
                        /\ ~(InDown(m) /\ InUp(m)) /\ (stage[m] # "none" => ~InDown(m) /\ ~InUp(m))
      /\ \A m \in Made : call[m] = "send" => m \in pending
  BY <1>2 DEF SidecarInv, OnePlace
<1>5. /\ up' \in Seq(Replies) /\ OneReply'
      /\ \A m \in Ids : InUp(m)' <=> InUp(m) \/ m = i
  BY <1>1, <1>2, <1>4, UpGrows
<1>6. (OneFrame' <=> OneFrame) /\ \A m \in Ids : InDown(m)' <=> InDown(m)
  BY <1>1, PipesStand
<1>7. AsideTypes'
  BY <1>1 DEF SidecarInv, AsideTypes
<1>8. TableTypes'
  BY <1>1, <1>2, <1>3, <1>5 DEF SidecarInv, TableTypes
<1>9. AskedFor'
  BY <1>2, <1>3, <1>6 DEF SidecarInv, AskedFor
<1>10. OnePlace'
  <2>1. \A m \in Ids : /\ InDown(m)' \/ InUp(m)' \/ stage'[m] # "none" => m \in pending /\ call[m] # "send"
                       /\ ~(InDown(m)' /\ InUp(m)') /\ (stage'[m] # "none" => ~InDown(m)' /\ ~InUp(m)')
    <3> TAKE m \in Ids
    <3>1. CASE m = i
      BY <1>3, <1>4, <1>6, <3>1
    <3>2. CASE m # i
      BY <1>3, <1>4, <1>5, <1>6, <3>2
    <3> QED BY <3>1, <3>2
  <2> QED BY <1>1, <1>2, <1>4, <1>5, <1>6, <2>1 DEF OnePlace
<1>11. TheDead'
  BY <1>1, <1>2 DEF SidecarInv, TheDead
<1> QED BY <1>7, <1>8, <1>9, <1>10, <1>11 DEF SidecarInv

\* What every step of the child needs to be known.
LEMMA ChildFacts ==
    ASSUME SidecarInv
    PROVE  /\ stage \in [Ids -> Stages] /\ Made \subseteq Ids /\ down \in Seq(Frames)
           /\ live \subseteq Made /\ cancelled \subseteq Made /\ open \subseteq Made /\ known \subseteq Conns
           /\ child \in {"up", "stopping", "down"}
           /\ \A i \in Made : stage[i] = "fetching" => Cursor(i) \in Made
BY DEF SidecarInv, AsideTypes, TableTypes, AskedFor

LEMMA ReaderKeeps == ASSUME SidecarInv, ServeCancel \/ ServeEnd PROVE SidecarInv'
<1>1. /\ child = "up" /\ UNCHANGED <<hostVars, up, stage, live>>
      /\ child' \in {"up", "stopping"} /\ known' \in {known, {}} /\ open' \in {open, {}}
      /\ down' = down \/ (down # <<>> /\ down' = Tail(down))
      /\ cancelled' \subseteq cancelled \cup live \cup open
  BY DEF ServeCancel, ServeEnd, Reached
<1>2. known' \subseteq Conns /\ open' \subseteq Made /\ cancelled' \subseteq Made
  BY <1>1, ChildFacts
<1> QED BY <1>1, <1>2, ChildFacts, ChildKeeps

\* A goroutine goes on to where it is not in the engine with a fetch.
LEMMA GotoKeeps ==
    ASSUME SidecarInv, NEW i \in Made, NEW s \in Stages, child # "down", stage[i] # "none", Goto(i, s),
           s = "fetching" => Cursor(i) \in Made,
           UNCHANGED <<hostVars, down, child>>, known' \subseteq Conns,
           live' \subseteq Made, cancelled' \subseteq Made, open' \subseteq Made
    PROVE  SidecarInv'
<1>1. stage' = [stage EXCEPT ![i] = s] /\ UNCHANGED up /\ child' \in {"up", "stopping"}
  BY ChildFacts DEF Goto
<1>2. /\ stage' \in [Ids -> Stages] /\ stage'[i] = s
      /\ \A j \in Ids \ {i} : stage'[j] = stage[j]
  BY <1>1, ChildFacts
<1>3. /\ \A j \in Ids : stage'[j] # "none" => stage[j] # "none"
      /\ \A j \in Made : stage'[j] = "fetching" => stage[j] = "fetching" \/ Cursor(j) \in Made
  BY <1>2, ChildFacts
<1> QED BY <1>1, <1>2, <1>3, ChildKeeps

LEMMA TrackKeeps == ASSUME SidecarInv, NEW i \in Made, Track(i) PROVE SidecarInv'
<1>1. /\ child # "down" /\ stage[i] # "none" /\ UNCHANGED <<hostVars, down, child, known, cancelled, open>>
      /\ \/ live' = live \cup {i} /\ Goto(i, "engine")
         \/ UNCHANGED live /\ Reply(i, 0)
  BY DEF Track, Serving
<1>2. live' \subseteq Made /\ cancelled' \subseteq Made /\ open' \subseteq Made /\ known' \subseteq Conns /\ "engine" \in Stages
  BY <1>1, ChildFacts DEF Stages
<1> QED BY <1>1, <1>2, GotoKeeps, ReplyKeeps

LEMMA StatementTimeoutKeeps == ASSUME SidecarInv, NEW i \in Made, StatementTimeout(i) PROVE SidecarInv'
<1>1. /\ child # "down" /\ UNCHANGED <<hostVars, down, up, child, known, stage, open>>
      /\ live' \subseteq live /\ cancelled' = cancelled \cup {i}
  BY DEF StatementTimeout, Serving
<1>2. child' \in {"up", "stopping"}
  BY <1>1, ChildFacts
<1> QED BY <1>1, <1>2, ChildFacts, ChildKeeps

LEMMA EngineKeeps ==
    ASSUME SidecarInv, NEW i \in Made, Executed(i) \/ Register(i) \/ StartFetch(i)
    PROVE  SidecarInv'
<1>1. /\ child # "down" /\ stage[i] # "none" /\ UNCHANGED <<hostVars, down, child, known>>
      /\ live' \subseteq live /\ cancelled' \subseteq cancelled \cup {i} /\ open' \subseteq open \cup {i}
      /\ \/ Goto(i, "opened") \/ Reply(i, 0) \/ Reply(i, i)
         \/ Cursor(i) \in open /\ Goto(i, "fetching")
  BY DEF Executed, Register, StartFetch, Serving
<1>2. /\ live' \subseteq Made /\ cancelled' \subseteq Made /\ open' \subseteq Made /\ known' \subseteq Conns
      /\ {"opened", "fetching"} \subseteq Stages /\ i \in {0} \cup Ids /\ (Cursor(i) \in open => Cursor(i) \in Made)
  BY <1>1, ChildFacts DEF Stages
<1> QED BY <1>1, <1>2, GotoKeeps, ReplyKeeps

LEMMA FetchedKeeps == ASSUME SidecarInv, NEW i \in Made, Fetched(i) PROVE SidecarInv'
<1>1. /\ child # "down" /\ stage[i] = "fetching" /\ Reply(i, 0) /\ UNCHANGED <<hostVars, down, child, known>>
      /\ live' \subseteq live /\ cancelled' \subseteq cancelled \cup {Cursor(i)} /\ open' \subseteq open
  BY DEF Fetched, Serving
<1>2. live' \subseteq Made /\ cancelled' \subseteq Made /\ open' \subseteq Made /\ known' \subseteq Conns
  BY <1>1, ChildFacts
<1> QED BY <1>1, <1>2, ReplyKeeps

LEMMA ClosesKeep == ASSUME SidecarInv, NEW i \in Made, StartClose(i) \/ Closed(i) PROVE SidecarInv'
<1>1. /\ child # "down" /\ stage[i] # "none" /\ UNCHANGED <<hostVars, down, child>>
      /\ live' \subseteq live /\ open' \subseteq open /\ known' \subseteq known
      /\ Goto(i, "locking") \/ Reply(i, 0)
  BY DEF StartClose, Closed, Serving
<1>2. cancelled' \subseteq cancelled \cup open \cup live
  BY DEF StartClose, Closed, Closing
<1>3. /\ live' \subseteq Made /\ cancelled' \subseteq Made /\ open' \subseteq Made /\ known' \subseteq Conns
      /\ "locking" \in Stages
  BY <1>1, <1>2, ChildFacts DEF Stages
<1> QED BY <1>1, <1>3, GotoKeeps, ReplyKeeps

----------------------------------------------------------------------------
LEMMA CallerKeeps ==
    ASSUME SidecarInv, NEW c \in Conns, Execute(c) \/ Fetch(c) \/ CloseCursor(c) \/ Disconnect(c)
    PROVE  SidecarInv'
<1>1. PICK kind \in Kinds : Issue(c, kind)
  BY DEF Execute, Fetch, CloseCursor, Disconnect, Kinds
<1>2. holds' = holds \/ holds' = [holds EXCEPT ![c] = 0]
  BY DEF Execute, Fetch, CloseCursor, Disconnect
<1>3. holds' \in [Conns -> {0} \cup Ids]
  BY <1>2 DEF SidecarInv, AsideTypes
<1> QED BY <1>1, <1>3, IssueKeeps

LEMMA SidecarKeeps == SidecarInv /\ [Next]_vars => SidecarInv'
<1> SUFFICES ASSUME SidecarInv, [Next]_vars PROVE SidecarInv'
  OBVIOUS
<1>1. CASE Caller
  BY <1>1, CallerKeeps, CancelConnKeeps, HostTasksKeep DEF Caller
<1>2. CASE Host
  BY <1>2, SendKeeps, CallersKeep, HostTasksKeep, ReadKeeps, BuryKeeps, GoneKeeps DEF Host
<1>3. CASE Child
  BY <1>3, ServeKeeps, ReaderKeeps, GoneKeeps, TrackKeeps, EngineKeeps, ClosesKeep DEF Child
<1>4. CASE Engine
  BY <1>4, EngineKeeps, FetchedKeeps DEF Engine
<1>5. CASE Crash \/ \E i \in Made : Abandon(i) \/ StatementTimeout(i)
  BY <1>5, GoneKeeps, CallersKeep, StatementTimeoutKeeps
<1>6. CASE UNCHANGED vars
  <2>1. UNCHANGED <<asked, call, pending, dead, stdin, supervisor, killing, holds, held, canceller, cancels, down, up,
                    child, known, stage, live, cancelled, open>>
    BY <1>6 DEF vars, hostVars, serverVars
  <2>2. AsideTypes' /\ call' \in [Ids -> CallStates]
    BY <2>1 DEF SidecarInv, AsideTypes, TableTypes, CallStates
  <2> QED BY <2>1, <2>2, HostKeeps
<1> QED BY <1>1, <1>2, <1>3, <1>4, <1>5, <1>6 DEF Next

LEMMA SidecarInvHolds == Spec => []SidecarInv
BY InitHolds, SidecarKeeps, PTL DEF Spec

\* The table of requests is right on both sides of the pipes: a reply that is read is in the
\* table, no request is answered twice or is in two places, and nobody waits for a reply
\* that is not going to be sent (State::pending, read_replies, fail_all).
THEOREM TableStaysTrue == Spec => []TableIsTrue
<1>1. ASSUME SidecarInv PROVE TableIsTrue
  <2>1. /\ down \in Seq(Frames) /\ up \in Seq(Replies) /\ Made \subseteq Ids /\ pending \subseteq Made
        /\ DOMAIN up = 1 .. Len(up) /\ DOMAIN down = 1 .. Len(down)
        /\ \A k \in 1 .. Len(down) : down[k] \in Frames
        /\ \A k \in 1 .. Len(up) : up[k].id \in Ids
    <3>1. down \in Seq(Frames) /\ up \in Seq(Replies) /\ Made \subseteq Ids /\ pending \subseteq Made
      BY <1>1 DEF SidecarInv, TableTypes
    <3>2. DOMAIN down = 1 .. Len(down) /\ \A k \in 1 .. Len(down) : down[k] \in Frames
      BY <3>1, LenProperties
    <3>3. DOMAIN up = 1 .. Len(up) /\ \A k \in 1 .. Len(up) : up[k] \in Replies
      BY <3>1, LenProperties
    <3>4. \A r \in Replies : r.id \in Ids
      BY DEF Replies
    <3> QED BY <3>1, <3>2, <3>3, <3>4
  <2>2. SidecarTypeOK
    <3>1. ASSUME NEW k \in 1 .. Len(down), down[k] # Torn, down[k] \notin {Cancel(c) : c \in Conns}
          PROVE  down[k] \in {Request(i) : i \in Made}
      <4>1. PICK i \in Ids : down[k] = Request(i)
        BY <2>1, <3>1 DEF Frames
      <4>2. i \in Made
        BY <1>1, <4>1 DEF SidecarInv, AskedFor, InDown
      <4> QED BY <4>1, <4>2
    <3> QED BY <1>1, <2>1, <3>1 DEF SidecarInv, AsideTypes, TableTypes, SidecarTypeOK, Stages, Replies
  <2>3. RepliesSettle
    <3> SUFFICES ASSUME ~dead
                 PROVE  /\ {up[k].id : k \in DOMAIN up} \cup Handled \cup Queued \subseteq pending
                        /\ IsInjective([k \in DOMAIN up |-> up[k].id])
                        /\ Answered \cap (Handled \cup Queued) = {} /\ Handled \cap Queued = {}
      BY DEF RepliesSettle
    <3>1. /\ OneReply
          /\ \A i \in Ids : /\ InDown(i) \/ InUp(i) \/ stage[i] # "none" => i \in pending
                            /\ ~(InDown(i) /\ InUp(i)) /\ (stage[i] # "none" => ~InDown(i) /\ ~InUp(i))
      BY <1>1 DEF SidecarInv, OnePlace
    <3>2. \A i \in Queued : i \in Ids /\ InDown(i)
      BY <2>1 DEF Queued, ToSet, InDown
    <3>3. \A i \in Answered : i \in Ids /\ InUp(i)
      BY <2>1 DEF Answered, ToSet, InUp
    <3>4. \A i \in Handled : i \in Ids /\ stage[i] # "none"
      BY <2>1 DEF Handled
    <3>5. \A k \in DOMAIN up : up[k].id \in Ids /\ InUp(up[k].id)
      BY <2>1 DEF InUp
    <3>6. IsInjective([k \in DOMAIN up |-> up[k].id])
      BY <2>1, <3>1 DEF IsInjective, OneReply
    <3> QED BY <3>1, <3>2, <3>3, <3>4, <3>5, <3>6
  <2>4. NobodyWaitsForTheDead
    BY <1>1 DEF SidecarInv, TheDead, NobodyWaitsForTheDead
  <2> QED BY <2>2, <2>3, <2>4 DEF TableIsTrue
<1> QED BY <1>1, SidecarInvHolds, PTL
=============================================================================
