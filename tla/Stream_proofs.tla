---------------------------- MODULE Stream_proofs ----------------------------
(***************************************************************************)
(* Theorems about Stream, for every finite set of messages and any buffer. *)
(***************************************************************************)
EXTENDS Stream, FiniteSetTheorems, TLAPS

USE DEF Ends

----------------------------------------------------------------------------
\* The inductive invariant.

\* What the ID of a message on its way, or in hand, may be.
IdsOf(stage) ==
    IF stage = "open" THEN {Open}
    ELSE IF stage = "ack" THEN Messages \cup {Open}
    ELSE IF stage = "close" THEN Causes
    ELSE Messages

IdsMatch ==
    /\ \A n \in net : n.id \in IdsOf(n.body)
    /\ \A e \in Ends : hand[e] # Nothing => hand[e].id \in IdsOf(hand[e].stage)

Waiting(e) == {m \in Messages : From[m] = e /\ spc[m] = "waiting"}
InHand(e) == IF hand[e].stage \in {"recv", "received"} THEN 1 ELSE 0

\* The WaitGroup counts the Sends that wait and the message on its way in.
PendingCounts == \A e \in Ends : pending[e] = Cardinality(Waiting(e)) + InHand(e)

\* closed goes first, recvChan last, with no message on its way in.
CloseInOrder ==
    \A e \in Ends :
        /\ cpc[e] = "closing" => closed[e] /\ ~recvClosed[e]
        /\ cpc[e] = "returned" => closed[e] /\ pending[e] = 0
        /\ recvClosed[e] => closed[e] /\ InHand(e) = 0

Safe == IdsMatch /\ PendingCounts /\ CloseInOrder /\ ~panicked

----------------------------------------------------------------------------
\* Lemmas.

\* The Sends that wait can be counted, and are no more than the messages.
LEMMA SubsetFinite ==
    ASSUME NEW S \in SUBSET Messages
    PROVE  /\ IsFiniteSet(S)
           /\ Cardinality(S) \in Nat
           /\ Cardinality(S) <= Cardinality(Messages)
           /\ Cardinality(Messages) \in Nat
  BY StreamAssumption, FS_Subset, FS_CardinalityType

\* The Sends of an end that wait are finitely many.
LEMMA WaitingFinite ==
    ASSUME NEW e \in Ends
    PROVE  IsFiniteSet(Waiting(e)) /\ Cardinality(Waiting(e)) \in Nat
<1>1. Waiting(e) \subseteq Messages
  BY DEF Waiting
<1> QED
  BY <1>1, SubsetFinite

\* So does the type of the WaitGroup follow from what it counts.
LEMMA PendingType ==
    ASSUME PendingCounts', pending' \in [Ends -> Int]
    PROVE  pending' \in [Ends -> 0..(Cardinality(Messages) + 1)]
<1>1. ASSUME NEW e \in Ends
      PROVE  pending'[e] \in 0..(Cardinality(Messages) + 1)
  <2>1. Waiting(e)' \subseteq Messages
    BY DEF Waiting
  <2>2. pending'[e] = Cardinality(Waiting(e)') + InHand(e)' /\ InHand(e)' \in {0, 1}
    BY DEF PendingCounts, InHand
  <2> QED
    BY <2>1, <2>2, SubsetFinite
<1> QED
  BY <1>1

\* The WaitGroup's counter is a number.
LEMMA PendingIsInt ==
    ASSUME TypeOK
    PROVE  pending \in [Ends -> Int]
  BY DEF TypeOK

\* What is in hand is idle, or a record with one of the other stages.
LEMMA HandIs ==
    ASSUME TypeOK, NEW e \in Ends, hand[e].stage # "idle"
    PROVE  /\ hand[e] # Nothing
           /\ hand[e] \in [stage : {"message", "recv", "received", "ack", "close"}, id : Ids]
  BY DEF TypeOK, Nothing

\* Nothing in hand counts nothing.
LEMMA Idle == Nothing.stage = "idle"
  BY DEF Nothing

\* The counter changes with one Send ...
LEMMA WaitingGrows ==
    ASSUME NEW m \in Messages, spc \in [Messages -> {"idle", "waiting", "done"}],
           spc[m] # "waiting", spc' = [spc EXCEPT ![m] = "waiting"]
    PROVE  \A e \in Ends : Cardinality(Waiting(e)') =
               Cardinality(Waiting(e)) + (IF e = From[m] THEN 1 ELSE 0)
<1> SUFFICES ASSUME NEW e \in Ends
             PROVE  Cardinality(Waiting(e)') =
                        Cardinality(Waiting(e)) + (IF e = From[m] THEN 1 ELSE 0)
  OBVIOUS
<1>1. CASE e = From[m]
  <2>1. Waiting(e)' = Waiting(e) \cup {m} /\ m \notin Waiting(e)
    BY <1>1 DEF Waiting
  <2> QED
    BY <1>1, <2>1, WaitingFinite, FS_AddElement
<1>2. CASE e # From[m]
  <2>1. Waiting(e)' = Waiting(e)
    BY <1>2 DEF Waiting
  <2> QED
    BY <1>2, <2>1, WaitingFinite
<1> QED
  BY <1>1, <1>2

\* ... and back.
LEMMA WaitingShrinks ==
    ASSUME NEW m \in Messages, spc \in [Messages -> {"idle", "waiting", "done"}],
           spc[m] = "waiting", spc' = [spc EXCEPT ![m] = "done"]
    PROVE  \A e \in Ends : Cardinality(Waiting(e)') =
               Cardinality(Waiting(e)) - (IF e = From[m] THEN 1 ELSE 0)
<1> SUFFICES ASSUME NEW e \in Ends
             PROVE  Cardinality(Waiting(e)') =
                        Cardinality(Waiting(e)) - (IF e = From[m] THEN 1 ELSE 0)
  OBVIOUS
<1>1. CASE e = From[m]
  <2>1. Waiting(e)' = Waiting(e) \ {m} /\ m \in Waiting(e)
    BY <1>1 DEF Waiting
  <2> QED
    BY <1>1, <2>1, WaitingFinite, FS_RemoveElement
<1>2. CASE e # From[m]
  <2>1. Waiting(e)' = Waiting(e)
    BY <1>2 DEF Waiting
  <2> QED
    BY <1>2, <2>1, WaitingFinite
<1> QED
  BY <1>1, <1>2

----------------------------------------------------------------------------
\* Closing.

CloseTypes ==
    /\ \A f \in {closed, canceled, recvClosed} : f \in [Ends -> BOOLEAN]
    /\ err \in [Ends -> Causes \cup {"none"}]
    /\ cpc \in [Ends -> {"none", "closing", "returned"}]

NetTypes ==
    /\ net \subseteq [to : Ends, body : {"open", "message", "ack", "close"}, id : Ids]
    /\ \A n \in net : n.id \in IdsOf(n.body)

\* What is published has the ID that belongs to it.
LEMMA PublishType ==
    ASSUME NetTypes, NEW e \in Ends, NEW body \in {"message", "ack", "close"},
           NEW id \in IdsOf(body), Publish(e, body, id)
    PROVE  NetTypes'
<1>1. id \in Ids
  BY DEF IdsOf, Ids
<1>2. Peer(e) \in Ends
  BY DEF Peer
<1> QED
  BY <1>1, <1>2 DEF Publish, NetTypes, IdsOf

\* A Close that is the first sets closed, and tells the peer.
LEMMA StartCloseStep ==
    ASSUME TypeOK, Safe, NEW e \in Ends, NEW cause \in Causes, StartClose(e, cause),
           UNCHANGED <<hand, pending, spc>>
    PROVE  /\ CloseTypes' /\ NetTypes' /\ observed' \in [Ends -> 0..2]
           /\ PendingCounts' /\ CloseInOrder'
<1>1. observed' \in [Ends -> 0..2]
  BY DEF StartClose, Observe, TypeOK
<1>2. PendingCounts'
  BY DEF Safe, PendingCounts, Waiting, InHand
<1>3. InHand(e)' = InHand(e) /\ \A x \in Ends : InHand(x)' = InHand(x)
  BY DEF InHand
<1>4. NetTypes
  BY DEF TypeOK, Safe, IdsMatch, NetTypes
<1>5. CASE closed[e]
  <2>1. UNCHANGED <<closeVars, net>>
    BY <1>5 DEF StartClose
  <2> QED
    BY <1>1, <1>2, <1>3, <1>4, <2>1
    DEF TypeOK, Safe, closeVars, CloseTypes, NetTypes, CloseInOrder
<1>6. CASE ~closed[e]
  <2>1. /\ closed' = [closed EXCEPT ![e] = TRUE] /\ err' = [err EXCEPT ![e] = cause]
        /\ cpc' = [cpc EXCEPT ![e] = "closing"] /\ UNCHANGED <<canceled, recvClosed>>
        /\ Publish(e, "close", cause)
    BY <1>6 DEF StartClose, SetClosed
  <2>2. NetTypes'
    BY <1>4, <2>1, PublishType DEF IdsOf
  <2>3. CloseTypes'
    BY <2>1 DEF TypeOK, CloseTypes
  <2>4. CloseInOrder'
    BY <1>3, <1>6, <2>1 DEF TypeOK, Safe, CloseInOrder
  <2> QED
    BY <1>1, <1>2, <2>2, <2>3, <2>4
<1> QED
  BY <1>5, <1>6

\* The goroutines and the users that close.
LEMMA ClosersStep ==
    ASSUME TypeOK, Safe,
           Accept \/ OpenFails \/ CloseInLoop \/ \E e \in Ends : Close(e) \/ CloseMalformed(e)
    PROVE  TypeOK' /\ Safe'
<1> USE DEF TypeOK, Safe, sendVars, chanVars
<1>1. ASSUME NEW e \in Ends, NEW cause \in Causes, StartClose(e, cause),
             UNCHANGED <<reliable, hand, pending, acks, acked, sendVars, chanVars, abandoned,
                         panicked>>,
             \A f \in {opened', registered', looping', malformed'} : f \in [Ends -> BOOLEAN]
      PROVE  TypeOK' /\ Safe'
  <2>1. /\ CloseTypes' /\ NetTypes' /\ observed' \in [Ends -> 0..2]
        /\ PendingCounts' /\ CloseInOrder'
    BY <1>1, StartCloseStep
  <2>2. IdsMatch'
    BY <1>1, <2>1 DEF NetTypes, IdsMatch
  <2>3. TypeOK'
    BY <1>1, <2>1 DEF CloseTypes, NetTypes
  <2> QED
    BY <1>1, <2>1, <2>2, <2>3
<1>2. CASE \E e \in Ends : Close(e)
  <2>1. PICK e \in Ends : Close(e)
    BY <1>2
  <2>2. e \in Causes
    BY DEF Causes
  <2> QED
    BY <1>1, <2>1, <2>2 DEF Close, endVars
<1>3. CASE \E e \in Ends : CloseMalformed(e)
  <2>1. PICK e \in Ends : CloseMalformed(e)
    BY <1>3
  <2>2. "malformed" \in Causes /\ malformed' \in [Ends -> BOOLEAN]
    BY <2>1 DEF Causes, CloseMalformed
  <2> QED
    BY <1>1, <2>1, <2>2 DEF CloseMalformed, endVars
<1>4. CASE CloseInLoop
  <2>1. looping' \in [Ends -> BOOLEAN] /\ "canceled" \in Causes /\ "client" \in Causes
    BY <1>4 DEF CloseInLoop, Causes
  <2> QED
    BY <1>1, <1>4, <2>1 DEF CloseInLoop
<1>5. CASE OpenFails
  <2>1. "timeout" \in Causes
    BY DEF Causes
  <2> QED
    BY <1>1, <1>5, <2>1 DEF OpenFails, endVars
<1>6. CASE Accept
  <2>1. "internal" \in Causes /\ opened' \in [Ends -> BOOLEAN] /\ registered' \in [Ends -> BOOLEAN]
    BY <1>6 DEF Accept, Causes
  <2>2. CASE StartClose("server", "internal")
    BY <1>1, <1>6, <2>1, <2>2 DEF Accept
  <2>3. CASE /\ \E n \in net : net' = (net \ {n}) \cup {[to |-> "client", body |-> "ack", id |-> Open]}
             /\ UNCHANGED <<closeVars, observed>>
    <3>1. IdsMatch'
      BY <1>6, <2>3 DEF Accept, IdsMatch, IdsOf
    <3>2. PendingCounts' /\ CloseInOrder'
      BY <1>6, <2>3 DEF Accept, PendingCounts, CloseInOrder, Waiting, InHand, closeVars
    <3>3. net' \subseteq [to : Ends, body : {"open", "message", "ack", "close"}, id : Ids]
      BY <2>3 DEF Ids
    <3> QED
      BY <1>6, <2>1, <2>3, <3>1, <3>2, <3>3 DEF Accept, closeVars
  <2> QED
    BY <1>6, <2>2, <2>3 DEF Accept
<1> QED
  BY <1>2, <1>3, <1>4, <1>5, <1>6

\* The steps that end a Close or come from outside.
LEMMA EndsStep ==
    ASSUME TypeOK, Safe, Cancel \/ Opened \/ \E e \in Ends : EndClose(e) \/ Consume(e)
    PROVE  TypeOK' /\ Safe'
<1> USE DEF TypeOK, Safe, IdsMatch, PendingCounts, CloseInOrder, Waiting, InHand, busVars,
            endVars, closeVars, sendVars, chanVars
<1>1. CASE Cancel
  BY <1>1 DEF Cancel
<1>2. CASE Opened
  BY <1>2 DEF Opened
<1>3. CASE \E e \in Ends : Consume(e)
  <2>1. PICK e \in Ends : Consume(e)
    BY <1>3
  <2>2. recvChan' \in [Ends -> Seq(Messages)] /\ \A x \in Ends : Len(recvChan'[x]) <= Size
    <3>1. recvChan[e] \in Seq(Messages) /\ recvChan[e] # << >>
      BY <2>1 DEF Consume
    <3>2. /\ Tail(recvChan[e]) \in Seq(Messages)
          /\ Len(Tail(recvChan[e])) = Len(recvChan[e]) - 1 /\ Len(recvChan[e]) \in Nat
      BY <3>1
    <3>3. recvChan' = [recvChan EXCEPT ![e] = Tail(recvChan[e])]
      BY <2>1 DEF Consume
    <3> QED
      BY <3>2, <3>3, StreamAssumption
  <2> QED
    BY <2>1, <2>2 DEF Consume
<1>4. CASE \E e \in Ends : EndClose(e)
  <2>1. PICK e \in Ends : EndClose(e)
    BY <1>4
  <2>2. ~recvClosed[e] /\ closed[e] /\ InHand(e) = 0
    BY <2>1, WaitingFinite DEF EndClose
  <2>3. ~panicked'
    BY <2>1, <2>2 DEF EndClose, Shut
  <2>4. CloseInOrder'
    BY <2>1, <2>2 DEF EndClose, Shut
  <2> QED
    BY <2>1, <2>3, <2>4 DEF EndClose, Shut
<1> QED
  BY <1>1, <1>2, <1>3, <1>4

----------------------------------------------------------------------------
\* Sending.

\* A Send counts itself in, and out when it returns.
LEMMA SendStep ==
    ASSUME TypeOK, Safe, NEW m \in Messages, SendNext(m)
    PROVE  TypeOK' /\ Safe'
<1> USE DEF TypeOK, Safe, busVars, endVars, closeVars, chanVars
<1>0. From[m] \in Ends
  BY StreamAssumption
<1>1. CASE SendClosed(m)
  <2>1. \A e \in Ends : Waiting(e)' = Waiting(e)
    BY <1>1 DEF SendClosed, Waiting
  <2>2. PendingCounts' /\ CloseInOrder'
    BY <1>1, <2>1 DEF SendClosed, PendingCounts, CloseInOrder, InHand
  <2>3. IdsMatch'
    BY <1>1 DEF SendClosed, IdsMatch
  <2> QED
    BY <1>1, <2>2, <2>3 DEF SendClosed
<1>2. CASE Send(m)
  <2> USE DEF Send
  <2>1. PendingCounts'
    <3> SUFFICES ASSUME NEW e \in Ends
                 PROVE  pending'[e] = Cardinality(Waiting(e)') + InHand(e)'
      BY DEF PendingCounts
    <3>1. InHand(e)' = InHand(e)
      BY <1>2 DEF InHand
    <3>2. pending'[e] = pending[e] + (IF e = From[m] THEN 1 ELSE 0)
      BY <1>0, <1>2
    <3>3. Cardinality(Waiting(e)') = Cardinality(Waiting(e)) + (IF e = From[m] THEN 1 ELSE 0)
      BY <1>2, WaitingGrows
    <3> QED
      BY <3>1, <3>2, <3>3, WaitingFinite DEF PendingCounts, InHand
  <2>2. NetTypes'
    BY <1>0, <1>2, PublishType DEF NetTypes, IdsMatch, IdsOf
  <2>3. CloseInOrder' /\ IdsMatch'
    BY <1>0, <1>2, <2>2 DEF CloseInOrder, IdsMatch, NetTypes, InHand
  <2>4. pending' \in [Ends -> 0..(Cardinality(Messages) + 1)]
    <3>1. pending' \in [Ends -> Int]
      BY <1>0, <1>2, PendingIsInt
    <3> QED
      BY <2>1, <3>1, PendingType
  <2> QED
    BY <1>2, <2>1, <2>2, <2>3, <2>4 DEF NetTypes
<1>3. ASSUME NEW o \in {"nil", "closed", "timeout"}, SendReturns(m, o), spc[m] = "waiting"
      PROVE  TypeOK' /\ Safe'
  <2> USE DEF SendReturns
  <2>1. PendingCounts'
    <3> SUFFICES ASSUME NEW e \in Ends
                 PROVE  pending'[e] = Cardinality(Waiting(e)') + InHand(e)'
      BY DEF PendingCounts
    <3>1. InHand(e)' = InHand(e)
      BY <1>3 DEF InHand
    <3>2. pending'[e] = pending[e] - (IF e = From[m] THEN 1 ELSE 0)
      BY <1>0, <1>3
    <3>3. Cardinality(Waiting(e)') = Cardinality(Waiting(e)) - (IF e = From[m] THEN 1 ELSE 0)
      BY <1>3, WaitingShrinks
    <3> QED
      BY <3>1, <3>2, <3>3, WaitingFinite DEF PendingCounts, InHand
  <2>2. m \in Waiting(From[m])
    BY <1>3 DEF Waiting
  <2>3. Cardinality(Waiting(From[m])) # 0
    <3>1. IsFiniteSet(Waiting(From[m])) /\ Waiting(From[m]) # {}
      BY <1>0, <2>2, WaitingFinite
    <3> QED
      BY <3>1, FS_EmptySet
  <2>4. pending[From[m]] # 0
    BY <1>0, <2>3, WaitingFinite DEF PendingCounts, InHand
  <2>5. CloseInOrder' /\ IdsMatch'
    BY <1>0, <1>3, <2>4 DEF CloseInOrder, IdsMatch, InHand
  <2>6. pending' \in [Ends -> 0..(Cardinality(Messages) + 1)]
    <3>1. pending' \in [Ends -> Int]
      BY <1>0, <1>3, PendingIsInt
    <3> QED
      BY <2>1, <3>1, PendingType
  <2> QED
    BY <1>3, <2>1, <2>5, <2>6
<1>4. CASE SendAcked(m)
  BY <1>3, <1>4 DEF SendAcked
<1>5. CASE SendEnds(m)
  BY <1>3, <1>5 DEF SendEnds
<1> QED
  BY <1>1, <1>2, <1>4, <1>5 DEF SendNext

----------------------------------------------------------------------------
\* Handling messages.

\* A message is counted in after the closed flag was seen down, and counted out when
\* it is acknowledged or dropped; the peer's close has the one goroutine to itself.
LEMMA HandleStep ==
    ASSUME TypeOK, Safe, NEW e \in Ends, HandleNext(e)
    PROVE  TypeOK' /\ Safe'
<1> USE Idle DEF TypeOK, Safe, busVars, endVars, closeVars, sendVars, chanVars
<1>1. CASE Take(e)
  <2> USE DEF Take
  <2>1. PICK n \in net : /\ n.to = e /\ n.body # "open" /\ hand[e] = Nothing
                         /\ net' = net \ {n}
                         /\ hand' = [hand EXCEPT ![e] =
                               IF registered[e] \/ e = "client"
                               THEN [stage |-> n.body, id |-> n.id] ELSE Nothing]
    BY <1>1
  <2>2. /\ n.body \in {"message", "ack", "close"} /\ n.id \in Ids
        /\ n.id \in IdsOf(n.body)
    BY <2>1 DEF IdsMatch
  <2>3. IdsMatch' /\ hand' \in [Ends -> {Nothing} \cup
                    [stage : {"message", "recv", "received", "ack", "close"}, id : Ids]]
    BY <2>1, <2>2 DEF IdsMatch, Nothing
  <2>4. \A x \in Ends : InHand(x)' = InHand(x) /\ Waiting(x)' = Waiting(x)
    BY <1>1, <2>1, <2>2 DEF InHand, Waiting
  <2> QED
    BY <1>1, <2>3, <2>4 DEF PendingCounts, CloseInOrder
<1>2. CASE HandleAck(e)
  <2> USE DEF HandleAck
  <2>1. IdsMatch'
    BY <1>2 DEF IdsMatch
  <2>2. \A x \in Ends : InHand(x)' = InHand(x) /\ Waiting(x)' = Waiting(x)
    BY <1>2 DEF InHand, Waiting
  <2> QED
    BY <1>2, <2>1, <2>2 DEF PendingCounts, CloseInOrder
<1>3. CASE AddPending(e)
  <2> USE DEF AddPending
  <2>1. CASE closed[e]
    <3>1. IdsMatch'
      BY <1>3, <2>1 DEF IdsMatch
    <3>2. \A x \in Ends : InHand(x)' = InHand(x) /\ Waiting(x)' = Waiting(x)
      BY <1>3, <2>1 DEF InHand, Waiting
    <3>3. PendingCounts'
      BY <1>3, <2>1, <3>2 DEF PendingCounts
    <3>4. CloseInOrder'
      BY <1>3, <2>1, <3>2 DEF CloseInOrder
    <3> QED
      BY <1>3, <2>1, <3>1, <3>3, <3>4
  <2>2. CASE ~closed[e]
    <3>1. /\ hand' = [hand EXCEPT ![e].stage = "recv"] /\ pending' = [pending EXCEPT ![e] = @ + 1]
          /\ hand[e].id \in Messages
          /\ hand[e] \in [stage : {"message", "recv", "received", "ack", "close"}, id : Ids]
      BY <1>3, <2>2, HandIs DEF IdsMatch, IdsOf
    <3>2. hand'[e] = [stage |-> "recv", id |-> hand[e].id]
          /\ \A x \in Ends : x # e => hand'[x] = hand[x]
      BY <3>1
    <3>3. IdsMatch' /\ hand' \in [Ends -> {Nothing} \cup
                    [stage : {"message", "recv", "received", "ack", "close"}, id : Ids]]
      BY <1>3, <3>1, <3>2 DEF IdsMatch, IdsOf
    <3>4. PendingCounts'
      <4>1. \A x \in Ends : Waiting(x)' = Waiting(x)
        BY <1>3 DEF Waiting
      <4>2. \A x \in Ends : /\ InHand(x)' = InHand(x) + (IF x = e THEN 1 ELSE 0)
                            /\ pending'[x] = pending[x] + (IF x = e THEN 1 ELSE 0)
        BY <1>3, <3>1, <3>2, PendingIsInt DEF InHand
      <4> QED
        BY <4>1, <4>2, WaitingFinite DEF PendingCounts, InHand
    <3>5. CloseInOrder'
      BY <1>3, <2>2, <3>1, <3>2 DEF CloseInOrder, InHand
    <3>6. pending' \in [Ends -> 0..(Cardinality(Messages) + 1)]
      <4>1. pending' \in [Ends -> Int]
        BY <3>1, PendingIsInt
      <4> QED
        BY <3>4, <4>1, PendingType
    <3> QED
      BY <1>3, <3>3, <3>4, <3>5, <3>6
  <2> QED
    BY <2>1, <2>2
<1>4. ASSUME hand' = [hand EXCEPT ![e] = Nothing], pending' = [pending EXCEPT ![e] = @ - 1],
             InHand(e) = 1, UNCHANGED <<spc, closed, recvClosed, cpc>>
      PROVE  /\ PendingCounts' /\ CloseInOrder'
             /\ pending' \in [Ends -> 0..(Cardinality(Messages) + 1)]
             /\ hand' \in [Ends -> {Nothing} \cup
                    [stage : {"message", "recv", "received", "ack", "close"}, id : Ids]]
             /\ \A x \in Ends : hand'[x] = Nothing \/ hand'[x] = hand[x]
  <2>1. \A x \in Ends : Waiting(x)' = Waiting(x)
    BY <1>4 DEF Waiting
  <2>2. \A x \in Ends : /\ InHand(x)' = InHand(x) - (IF x = e THEN 1 ELSE 0)
                        /\ pending'[x] = pending[x] - (IF x = e THEN 1 ELSE 0)
    BY <1>4, PendingIsInt DEF InHand
  <2>3. PendingCounts'
    BY <2>1, <2>2, WaitingFinite DEF PendingCounts, InHand
  <2>4. pending' \in [Ends -> Int]
    BY <1>4, PendingIsInt
  <2>5. pending[e] # 0
    BY <1>4, WaitingFinite DEF PendingCounts
  <2>6. CloseInOrder'
    BY <1>4, <2>2, <2>5 DEF CloseInOrder
  <2> QED
    BY <1>4, <2>3, <2>4, <2>6, PendingType
<1>5. CASE Recv(e)
  <2> DEFINE m == hand[e].id
  <2> USE DEF Recv
  <2>1. /\ m \in Messages /\ InHand(e) = 1 /\ ~recvClosed[e]
        /\ hand[e] \in [stage : {"message", "recv", "received", "ack", "close"}, id : Ids]
    BY <1>5, HandIs DEF IdsMatch, IdsOf, InHand, CloseInOrder
  <2>2. CASE m \notin Malformed /\ Len(recvChan[e]) < Size
    <3>1. hand' = [hand EXCEPT ![e].stage = "received"]
      BY <1>5, <2>2
    <3>2. hand'[e] = [stage |-> "received", id |-> m]
          /\ \A x \in Ends : x # e => hand'[x] = hand[x]
      BY <2>1, <3>1
    <3>3. IdsMatch' /\ hand' \in [Ends -> {Nothing} \cup
                    [stage : {"message", "recv", "received", "ack", "close"}, id : Ids]]
      BY <1>5, <2>1, <3>1, <3>2 DEF IdsMatch, IdsOf
    <3>4. \A x \in Ends : InHand(x)' = InHand(x) /\ Waiting(x)' = Waiting(x)
      BY <1>5, <2>1, <3>2 DEF InHand, Waiting
    <3>5. PendingCounts' /\ CloseInOrder'
      BY <1>5, <2>2, <3>4 DEF PendingCounts, CloseInOrder
    <3>6. recvChan' \in [Ends -> Seq(Messages)] /\ \A x \in Ends : Len(recvChan'[x]) <= Size
      <4>1. recvChan' = [recvChan EXCEPT ![e] = Append(recvChan[e], m)]
        BY <1>5, <2>2
      <4>2. /\ recvChan[e] \in Seq(Messages) /\ Len(recvChan[e]) \in Nat
            /\ Append(recvChan[e], m) \in Seq(Messages)
            /\ Len(Append(recvChan[e], m)) = Len(recvChan[e]) + 1
        BY <2>1
      <4> QED
        BY <2>2, <4>1, <4>2, StreamAssumption
    <3>7. received' \in [Ends -> SUBSET Messages] /\ panicked' \in BOOLEAN /\ ~panicked'
      <4>1. /\ received' = [received EXCEPT ![e] = @ \cup {m}]
            /\ panicked' = (panicked \/ recvClosed[e])
        BY <1>5, <2>2
      <4>2. received' \in [Ends -> SUBSET Messages]
        BY <2>1, <4>1
      <4>3. panicked' \in BOOLEAN /\ ~panicked'
        BY <2>1, <4>1
      <4> QED
        BY <4>2, <4>3
    <3> QED
      BY <1>5, <2>2, <3>3, <3>5, <3>6, <3>7
  <2>3. CASE ~(m \notin Malformed /\ Len(recvChan[e]) < Size)
    <3>1. /\ hand' = [hand EXCEPT ![e] = Nothing] /\ pending' = [pending EXCEPT ![e] = @ - 1]
          /\ malformed' = [malformed EXCEPT ![e] = @ \/ m \in Malformed]
          /\ UNCHANGED <<chanVars, panicked>>
      BY <1>5, <2>3
    <3>2. malformed' \in [Ends -> BOOLEAN]
      BY <3>1
    <3> QED
      BY <1>4, <1>5, <2>1, <3>1, <3>2 DEF IdsMatch
  <2> QED
    BY <2>2, <2>3
<1>6. CASE Ack(e)
  <2> USE DEF Ack
  <2>1. /\ hand[e].id \in Messages /\ InHand(e) = 1
    BY <1>6, HandIs DEF IdsMatch, IdsOf, InHand
  <2>2. NetTypes'
    BY <1>6, <2>1, PublishType DEF NetTypes, IdsMatch, IdsOf
  <2> QED
    BY <1>4, <1>6, <2>1, <2>2 DEF NetTypes, IdsMatch
<1>7. CASE HandleClose(e)
  <2> USE DEF HandleClose
  <2>1. hand[e].id \in Causes /\ InHand(e) = 0
    BY <1>7, HandIs DEF IdsMatch, IdsOf, InHand
  <2>2. IdsMatch'
    BY <1>7 DEF IdsMatch
  <2>3. \A x \in Ends : InHand(x)' = InHand(x) /\ Waiting(x)' = Waiting(x)
    BY <1>7, <2>1 DEF InHand, Waiting
  <2>4. PendingCounts'
    BY <1>7, <2>3 DEF PendingCounts
  <2>5. CASE closed[e]
    BY <1>7, <2>2, <2>3, <2>4, <2>5 DEF CloseInOrder
  <2>6. CASE ~closed[e]
    <3>1. /\ closed' = [closed EXCEPT ![e] = TRUE] /\ err' = [err EXCEPT ![e] = hand[e].id]
          /\ registered' = [registered EXCEPT ![e] = FALSE]
          /\ canceled' = [canceled EXCEPT ![e] = TRUE]
          /\ recvClosed' = [recvClosed EXCEPT ![e] = TRUE]
          /\ panicked' = (panicked \/ recvClosed[e]) /\ UNCHANGED cpc
      BY <1>7, <2>6 DEF SetClosed, Shut
    <3>2. ~panicked' /\ CloseInOrder'
      BY <1>7, <2>1, <2>3, <2>6, <3>1 DEF CloseInOrder
    <3> QED
      BY <1>7, <2>1, <2>2, <2>4, <3>1, <3>2
  <2> QED
    BY <2>5, <2>6
<1> QED
  BY <1>1, <1>2, <1>3, <1>5, <1>6, <1>7 DEF HandleNext

----------------------------------------------------------------------------
\* Theorems.

\* Nobody waits at first.
LEMMA InitSafe ==
    ASSUME Init
    PROVE  TypeOK /\ Safe
<1> USE DEF Init
<1>1. \A e \in Ends : Waiting(e) = {} /\ InHand(e) = 0
  BY Idle DEF Waiting, InHand
<1>2. IdsMatch /\ CloseInOrder /\ ~panicked
  BY DEF IdsMatch, IdsOf, CloseInOrder
<1>3. PendingCounts
  <2>1. Cardinality({}) = 0
    BY FS_EmptySet
  <2>2. \A e \in Ends : pending[e] = 0
    OBVIOUS
  <2>3. ASSUME NEW e \in Ends PROVE pending[e] = Cardinality(Waiting(e)) + InHand(e)
    <3>1. Cardinality(Waiting(e)) = 0
      BY <1>1, <2>1
    <3> QED
      BY <1>1, <2>2, <3>1
  <2> QED
    BY <2>3 DEF PendingCounts
<1>4. TypeOK
  <2>1. 0 \in 0..(Cardinality(Messages) + 1)
    BY SubsetFinite
  <2>2. /\ recvChan \in [Ends -> Seq(Messages)] /\ \A e \in Ends : Len(recvChan[e]) = 0
        /\ 0 <= Size
    BY StreamAssumption
  <2>3. net \subseteq [to : Ends, body : {"open", "message", "ack", "close"}, id : Ids]
    BY DEF Ids
  <2>4. \A f \in {opened, registered, looping, closed, canceled, recvClosed, malformed} :
            f \in [Ends -> BOOLEAN]
    OBVIOUS
  <2>5. /\ pending \in [Ends -> 0..(Cardinality(Messages) + 1)] /\ observed \in [Ends -> 0..2]
        /\ hand \in [Ends -> {Nothing} \cup
                [stage : {"message", "recv", "received", "ack", "close"}, id : Ids]]
    BY <2>1
  <2>6. /\ \A f \in {acks, acked} : f \in [Ends -> SUBSET (Messages \cup {Open})]
        /\ err \in [Ends -> Causes \cup {"none"}] /\ received \in [Ends -> SUBSET Messages]
    OBVIOUS
  <2>7. /\ spc \in [Messages -> {"idle", "waiting", "done"}]
        /\ outcome \in [Messages -> {"none", "nil", "closed", "timeout"}]
        /\ cpc \in [Ends -> {"none", "closing", "returned"}]
    OBVIOUS
  <2>8. reliable \in BOOLEAN /\ abandoned \in BOOLEAN /\ panicked \in BOOLEAN
    OBVIOUS
  <2>9. \A e \in Ends : Len(recvChan[e]) <= Size
    BY <2>2
  <2> QED
    BY <2>2, <2>3, <2>4, <2>5, <2>6, <2>7, <2>8, <2>9 DEF TypeOK
<1> QED
  BY <1>2, <1>3, <1>4 DEF Safe

\* The inductive invariant holds throughout.
THEOREM Inductive == Spec => [](TypeOK /\ Safe)
<1>1. TypeOK /\ Safe /\ [Next]_vars => (TypeOK /\ Safe)'
  <2> SUFFICES ASSUME TypeOK, Safe, [Next]_vars PROVE TypeOK' /\ Safe'
    OBVIOUS
  <2>1. CASE UNCHANGED vars
    BY <2>1 DEF vars, busVars, endVars, closeVars, sendVars, chanVars, TypeOK, Safe, IdsMatch,
                PendingCounts, CloseInOrder, Waiting, InHand
  <2>2. CASE Next
    BY <2>2, ClosersStep, EndsStep, SendStep, HandleStep DEF Next
  <2> QED
    BY <2>1, <2>2
<1> QED
  BY <1>1, InitSafe, PTL DEF Spec

\* No Close, by either end or by both, meets another or a message on its way at
\* recvChan: neither a send on the closed channel nor a second close of it.
THEOREM NeverPanics == Spec => []RecvChanClosedOnce
<1>1. TypeOK /\ Safe => RecvChanClosedOnce
  BY DEF Safe, RecvChanClosedOnce
<1> QED
  BY <1>1, Inductive, PTL

\* A Close that returns leaves no Send waiting and no message on its way in.
THEOREM NothingPending == Spec => []NothingPendingAfterClose
<1>1. ASSUME TypeOK, Safe, NEW e \in Ends, cpc[e] = "returned"
      PROVE  /\ \A m \in Messages : From[m] = e => spc[m] # "waiting"
             /\ hand[e].stage \notin {"recv", "received"}
  <2>1. Cardinality(Waiting(e)) = 0 /\ InHand(e) = 0
    BY <1>1, WaitingFinite DEF Safe, PendingCounts, CloseInOrder, InHand
  <2>2. IsFiniteSet(Waiting(e)) /\ Waiting(e) = {}
    <3>1. IsFiniteSet(Waiting(e))
      BY WaitingFinite
    <3> QED
      BY <2>1, <3>1, FS_EmptySet
  <2> QED
    BY <2>1, <2>2 DEF Waiting, InHand
<1>2. TypeOK /\ Safe => NothingPendingAfterClose
  BY <1>1 DEF NothingPendingAfterClose
<1> QED
  BY <1>2, Inductive, PTL

----------------------------------------------------------------------------
\* What is on its way is true.

\* A close carries the cause of the end that sent it; an acknowledgement is of a
\* message that entered recvChan.
True(to, stage, id) ==
    /\ stage = "close" => closed[Peer(to)] /\ err[Peer(to)] = id
    /\ stage = "ack" /\ id # Open => id \in received[Peer(to)]

OnItsWayTrue ==
    /\ \A n \in net : True(n.to, n.body, n.id)
    /\ \A e \in Ends :
          /\ hand[e] # Nothing => True(e, hand[e].stage, hand[e].id)
          /\ hand[e].stage = "received" => hand[e].id \in received[e]
          /\ \A m \in acked[e] \ {Open} : m \in received[Peer(e)]

\* An end closed by its peer has the peer's cause; only its owner cancels the
\* context of a stream that is not closed.
CauseKept ==
    \A e \in Ends :
        /\ closed[e] /\ cpc[e] = "none" =>
              closed[Peer(e)] /\ err[e] = err[Peer(e)] /\ err[e] # "none"
        /\ canceled[e] => closed[e] \/ (abandoned /\ e = "client")

Told == OnItsWayTrue /\ CauseKept /\ SentWasReceivedOrAbandoned

\* Each end is the other's peer.
LEMMA PeerIs == \A e \in Ends : Peer(e) \in Ends /\ Peer(Peer(e)) = e /\ Peer(e) # e
  BY DEF Peer

\* What was true of a message stays true.
LEMMA TrueStays ==
    ASSUME NEW to \in Ends, NEW stage, NEW id, True(to, stage, id),
           \A e \in Ends : /\ received[e] \subseteq received'[e]
                           /\ closed[e] => closed'[e] /\ err'[e] = err[e]
    PROVE  True(to, stage, id)'
  BY PeerIs DEF True

\* A Close that is the first tells its own cause.
LEMMA StartCloseTold ==
    ASSUME TypeOK, Safe, Told, NEW e \in Ends, NEW cause \in Causes, StartClose(e, cause),
           UNCHANGED <<hand, acked, received, outcome, abandoned>>
    PROVE  Told'
<1> USE DEF TypeOK, Safe
<1>1. /\ \A x \in Ends : /\ received[x] \subseteq received'[x]
                         /\ closed[x] => closed'[x] /\ err'[x] = err[x]
      /\ UNCHANGED canceled
  BY DEF StartClose, SetClosed, closeVars
<1>2. \A n \in net' : True(n.to, n.body, n.id)'
  <2>1. CASE closed[e]
    BY <1>1, <2>1, TrueStays DEF StartClose, Told, OnItsWayTrue
  <2>2. CASE ~closed[e]
    <3>1. /\ net' = net \cup {[to |-> Peer(e), body |-> "close", id |-> cause]}
          /\ closed'[e] /\ err'[e] = cause
      BY <2>2 DEF StartClose, SetClosed, Publish
    <3>2. True(Peer(e), "close", cause)'
      BY <3>1, PeerIs DEF True
    <3> QED
      BY <1>1, <3>1, <3>2, TrueStays DEF Told, OnItsWayTrue
  <2> QED
    BY <2>1, <2>2
<1>3. \A x \in Ends : hand'[x] # Nothing => True(x, hand[x].stage, hand[x].id)'
  BY <1>1, TrueStays DEF Told, OnItsWayTrue
<1>4. OnItsWayTrue'
  BY <1>2, <1>3 DEF Told, OnItsWayTrue
<1>5. CauseKept'
  <2>1. CASE closed[e]
    BY <1>1, <2>1 DEF StartClose, closeVars, Told, CauseKept
  <2>2. CASE ~closed[e]
    <3>1. closed' = [closed EXCEPT ![e] = TRUE] /\ cpc' = [cpc EXCEPT ![e] = "closing"]
      BY <2>2 DEF StartClose, SetClosed
    <3> QED
      BY <1>1, <2>2, <3>1, PeerIs DEF Told, CauseKept
  <2> QED
    BY <2>1, <2>2
<1>6. SentWasReceivedOrAbandoned'
  BY DEF Told, SentWasReceivedOrAbandoned
<1> QED
  BY <1>4, <1>5, <1>6 DEF Told

\* Whoever closes an end that is open tells its peer why.
LEMMA ClosersTold ==
    ASSUME TypeOK, Safe, Told,
           Accept \/ OpenFails \/ CloseInLoop \/ \E e \in Ends : Close(e) \/ CloseMalformed(e)
    PROVE  Told'
<1> USE DEF sendVars, chanVars
<1>1. \A e \in Ends : Close(e) => Told'
  BY StartCloseTold DEF Close, Causes
<1>2. \A e \in Ends : CloseMalformed(e) => Told'
  BY StartCloseTold DEF CloseMalformed, Causes
<1>3. CloseInLoop => Told'
  BY StartCloseTold DEF CloseInLoop, Causes
<1>4. OpenFails => Told'
  BY StartCloseTold DEF OpenFails, Causes
<1>5. CASE Accept
  <2>1. CASE StartClose("server", "internal")
    BY <1>5, <2>1, StartCloseTold DEF Accept, Causes
  <2>2. CASE /\ \E n \in net : net' = (net \ {n}) \cup {[to |-> "client", body |-> "ack", id |-> Open]}
             /\ UNCHANGED closeVars
    <3>1. \A n \in net' : True(n.to, n.body, n.id)'
      BY <1>5, <2>2 DEF Accept, closeVars, Told, OnItsWayTrue, True
    <3> QED
      BY <1>5, <2>2, <3>1
      DEF Accept, closeVars, Told, OnItsWayTrue, True, CauseKept, SentWasReceivedOrAbandoned
  <2> QED
    BY <1>5, <2>1, <2>2 DEF Accept
<1> QED
  BY <1>1, <1>2, <1>3, <1>4, <1>5

\* The end of a Close and what comes from outside leave the causes alone.
LEMMA EndsTold ==
    ASSUME TypeOK, Safe, Told, Cancel \/ Opened \/ \E e \in Ends : EndClose(e) \/ Consume(e)
    PROVE  Told'
<1> USE DEF Told, busVars, endVars, closeVars, sendVars, chanVars
<1>1. UNCHANGED <<net, hand, acked, received, closed, err, outcome>>
  BY DEF Cancel, Opened, EndClose, Consume, Shut
<1>2. OnItsWayTrue'
  BY <1>1 DEF OnItsWayTrue, True
<1>3. CASE Cancel
  <2>1. CauseKept'
    BY <1>3 DEF Cancel, CauseKept, TypeOK
  <2>2. SentWasReceivedOrAbandoned'
    BY <1>3 DEF Cancel, SentWasReceivedOrAbandoned
  <2> QED
    BY <1>2, <2>1, <2>2
<1>4. CASE Opened \/ \E e \in Ends : Consume(e)
  <2>1. UNCHANGED <<canceled, cpc, abandoned>>
    BY <1>4 DEF Opened, Consume
  <2> QED
    BY <1>1, <1>2, <2>1 DEF CauseKept, SentWasReceivedOrAbandoned
<1>5. CASE \E e \in Ends : EndClose(e)
  <2>1. PICK e \in Ends : EndClose(e)
    BY <1>5
  <2>2. /\ closed[e] /\ cpc' = [cpc EXCEPT ![e] = "returned"]
        /\ canceled' = [canceled EXCEPT ![e] = TRUE] /\ UNCHANGED abandoned
    BY <2>1 DEF EndClose, Shut, Safe, CloseInOrder
  <2>3. CauseKept'
    BY <1>1, <2>2 DEF CauseKept, TypeOK
  <2>4. SentWasReceivedOrAbandoned'
    BY <1>1, <2>2 DEF SentWasReceivedOrAbandoned
  <2> QED
    BY <1>2, <2>3, <2>4
<1> QED
  BY <1>3, <1>4, <1>5

\* Send takes a message for received only when its acknowledgement came, or the
\* context was cancelled by its owner.
LEMMA SendTold ==
    ASSUME TypeOK, Safe, Told, NEW m \in Messages, SendNext(m)
    PROVE  Told'
<1> USE DEF Told, busVars, endVars, closeVars, chanVars
<1>0. From[m] \in Ends /\ m # Open
  BY StreamAssumption
<1>1. UNCHANGED <<hand, acked, received, closed, err, canceled, cpc, abandoned>>
  BY DEF SendNext, SendClosed, Send, SendAcked, SendEnds, SendReturns
<1>2. CauseKept'
  BY <1>1 DEF CauseKept
<1>3. OnItsWayTrue'
  <2>1. UNCHANGED net \/ Publish(From[m], "message", m)
    BY DEF SendNext, SendClosed, Send, SendAcked, SendEnds, SendReturns
  <2> QED
    BY <1>0, <1>1, <2>1, PeerIs DEF OnItsWayTrue, True, Publish
<1>4. SentWasReceivedOrAbandoned'
  <2>1. /\ outcome' = outcome \/ \E o \in {"nil", "closed", "timeout"} : outcome' = [outcome EXCEPT ![m] = o]
        /\ outcome'[m] # "nil" \/ outcome'[m] = outcome[m] \/ m \in acked[From[m]]
           \/ (canceled[From[m]] /\ ~closed[From[m]])
    BY DEF SendNext, SendClosed, Send, SendAcked, SendEnds, SendReturns, TypeOK
  <2>2. outcome'[m] = "nil" /\ outcome'[m] # outcome[m] =>
            m \in received[Peer(From[m])] \/ (abandoned /\ From[m] = "client")
    BY <1>0, <2>1 DEF OnItsWayTrue, CauseKept
  <2>3. \A x \in Messages : x # m => outcome'[x] = outcome[x]
    BY <2>1 DEF TypeOK
  <2> QED
    BY <1>1, <2>2, <2>3 DEF SentWasReceivedOrAbandoned
<1> QED
  BY <1>2, <1>3, <1>4

\* What is taken in hand stays true: an acknowledgement is sent of what was received,
\* and the peer's close sets the cause it carries.
LEMMA HandleTold ==
    ASSUME TypeOK, Safe, Told, NEW e \in Ends, HandleNext(e)
    PROVE  Told'
<1> USE Idle DEF Told, busVars, endVars, closeVars, sendVars, chanVars
<1>1. CASE Take(e)
  <2>1. PICK n \in net : /\ n.to = e /\ n.body # "open" /\ net' = net \ {n}
                         /\ hand' = [hand EXCEPT ![e] =
                               IF registered[e] \/ e = "client"
                               THEN [stage |-> n.body, id |-> n.id] ELSE Nothing]
    BY <1>1 DEF Take
  <2>2. n.body \in {"message", "ack", "close"} /\ True(e, n.body, n.id)
    BY <2>1 DEF TypeOK, OnItsWayTrue
  <2>3. UNCHANGED <<acked, received, closed, err, canceled, cpc, outcome, abandoned>>
    BY <1>1 DEF Take
  <2>4. \A x \in Ends : \/ hand'[x] = hand[x] \/ hand'[x] = Nothing
                        \/ x = e /\ hand'[x] = [stage |-> n.body, id |-> n.id]
    BY <2>1 DEF TypeOK
  <2>5. OnItsWayTrue'
    BY <2>1, <2>2, <2>3, <2>4 DEF OnItsWayTrue, True
  <2> QED
    BY <2>3, <2>5 DEF CauseKept, SentWasReceivedOrAbandoned
<1>2. CASE HandleAck(e)
  <2>1. UNCHANGED <<net, received, closed, err, canceled, cpc, outcome, abandoned>>
    BY <1>2 DEF HandleAck
  <2>2. True(e, "ack", hand[e].id)
    BY <1>2, HandIs DEF HandleAck, OnItsWayTrue
  <2>3. \A x \in Ends : hand'[x] = hand[x] \/ hand'[x] = Nothing
    BY <1>2 DEF HandleAck, TypeOK
  <2>4. \A x \in Ends : acked'[x] \subseteq acked[x] \cup (IF x = e THEN {hand[e].id} ELSE {})
    BY <1>2 DEF HandleAck, TypeOK
  <2>5. OnItsWayTrue'
    BY <2>1, <2>2, <2>3, <2>4 DEF OnItsWayTrue, True
  <2> QED
    BY <2>1, <2>5 DEF CauseKept, SentWasReceivedOrAbandoned
<1>3. CASE AddPending(e)
  <2>1. UNCHANGED <<net, acked, received, closed, err, canceled, cpc, outcome, abandoned>>
    BY <1>3 DEF AddPending
  <2>2. \A x \in Ends : hand'[x] = hand[x] \/ hand'[x] = Nothing \/ hand'[x].stage = "recv"
    BY <1>3, HandIs DEF AddPending, TypeOK
  <2>3. OnItsWayTrue'
    BY <2>1, <2>2 DEF OnItsWayTrue, True
  <2> QED
    BY <2>1, <2>3 DEF CauseKept, SentWasReceivedOrAbandoned
<1>4. CASE Recv(e)
  <2>1. UNCHANGED <<net, acked, closed, err, canceled, cpc, outcome, abandoned>>
    BY <1>4 DEF Recv
  <2>2. \A x \in Ends : received[x] \subseteq received'[x]
    BY <1>4 DEF Recv, TypeOK
  <2>3. \A x \in Ends : \/ hand'[x] = hand[x] \/ hand'[x] = Nothing
                        \/ /\ hand'[x].stage = "received" /\ hand'[x].id \in received'[x]
    BY <1>4, HandIs DEF Recv, TypeOK
  <2>4. OnItsWayTrue'
    <3>1. \A n \in net' : True(n.to, n.body, n.id)'
      <4>1. \A n \in net : Peer(n.to) \in Ends /\ True(n.to, n.body, n.id)
        BY PeerIs DEF TypeOK, OnItsWayTrue
      <4> QED
        BY <2>1, <2>2, <4>1 DEF True
    <3>2. ASSUME NEW x \in Ends, hand'[x] # Nothing
          PROVE  True(x, hand[x].stage, hand[x].id)'
      <4>1. CASE hand'[x] = hand[x]
        <5>1. True(x, hand[x].stage, hand[x].id) /\ Peer(x) \in Ends
          BY <3>2, <4>1, PeerIs DEF OnItsWayTrue
        <5> QED
          BY <2>1, <2>2, <4>1, <5>1 DEF True
      <4>2. CASE hand'[x].stage = "received"
        BY <4>2 DEF True
      <4> QED
        BY <2>3, <3>2, <4>1, <4>2
    <3>3. ASSUME NEW x \in Ends
          PROVE  /\ hand'[x].stage = "received" => hand'[x].id \in received'[x]
                 /\ \A m \in acked'[x] \ {Open} : m \in received'[Peer(x)]
      <4>1. \A m \in acked[x] \ {Open} : m \in received[Peer(x)]
        BY DEF OnItsWayTrue
      <4>2. hand[x].stage = "received" => hand[x].id \in received[x]
        BY DEF OnItsWayTrue
      <4> QED
        BY <2>1, <2>2, <2>3, <4>1, <4>2, PeerIs
    <3> QED
      BY <3>1, <3>2, <3>3 DEF OnItsWayTrue
  <2>5. SentWasReceivedOrAbandoned'
    BY <2>1, <2>2, PeerIs, StreamAssumption DEF SentWasReceivedOrAbandoned
  <2> QED
    BY <2>1, <2>4, <2>5 DEF CauseKept
<1>5. CASE Ack(e)
  <2>1. UNCHANGED <<acked, received, closed, err, canceled, cpc, outcome, abandoned>>
    BY <1>5 DEF Ack
  <2>2. \A x \in Ends : hand'[x] = hand[x] \/ hand'[x] = Nothing
    BY <1>5 DEF Ack, TypeOK
  <2>3. /\ net' = net \cup {[to |-> Peer(e), body |-> "ack", id |-> hand[e].id]}
        /\ hand[e].id \in received[Peer(Peer(e))]
    BY <1>5, PeerIs DEF Ack, Publish, OnItsWayTrue
  <2>4. OnItsWayTrue'
    BY <2>1, <2>2, <2>3 DEF OnItsWayTrue, True
  <2> QED
    BY <2>1, <2>4 DEF CauseKept, SentWasReceivedOrAbandoned
<1>6. CASE HandleClose(e)
  <2>1. UNCHANGED <<net, acked, received, cpc, outcome, abandoned>>
    BY <1>6 DEF HandleClose, Shut
  <2>2. \A x \in Ends : hand'[x] = hand[x] \/ hand'[x] = Nothing
    BY <1>6 DEF HandleClose, TypeOK
  <2>3. CASE closed[e]
    <3>1. UNCHANGED <<closed, err, canceled>>
      BY <1>6, <2>3 DEF HandleClose
    <3> QED
      BY <2>1, <2>2, <3>1 DEF OnItsWayTrue, True, CauseKept, SentWasReceivedOrAbandoned
  <2>4. CASE ~closed[e]
    <3>1. /\ closed' = [closed EXCEPT ![e] = TRUE] /\ err' = [err EXCEPT ![e] = hand[e].id]
          /\ canceled' = [canceled EXCEPT ![e] = TRUE]
      BY <1>6, <2>4 DEF HandleClose, SetClosed, Shut
    <3>2. closed[Peer(e)] /\ err[Peer(e)] = hand[e].id /\ hand[e].id # "none"
      BY <1>6, HandIs DEF HandleClose, OnItsWayTrue, True, Safe, IdsMatch, IdsOf, Causes
    <3>3. \A x \in Ends : closed[x] => closed'[x] /\ err'[x] = err[x]
      BY <2>4, <3>1 DEF TypeOK
    <3>4. OnItsWayTrue'
      <4>1. \A n \in net' : True(n.to, n.body, n.id)'
        <5>1. \A n \in net : Peer(n.to) \in Ends /\ True(n.to, n.body, n.id)
          BY PeerIs DEF TypeOK, OnItsWayTrue
        <5> QED
          BY <2>1, <3>3, <5>1 DEF True
      <4>2. ASSUME NEW x \in Ends, hand'[x] # Nothing
            PROVE  True(x, hand[x].stage, hand[x].id)'
        <5>1. hand'[x] = hand[x] /\ True(x, hand[x].stage, hand[x].id) /\ Peer(x) \in Ends
          BY <2>2, <4>2, PeerIs DEF OnItsWayTrue
        <5> QED
          BY <2>1, <3>3, <5>1 DEF True
      <4>3. ASSUME NEW x \in Ends
            PROVE  /\ hand'[x].stage = "received" => hand'[x].id \in received'[x]
                   /\ \A m \in acked'[x] \ {Open} : m \in received'[Peer(x)]
        <5>1. /\ \A m \in acked[x] \ {Open} : m \in received[Peer(x)]
              /\ hand[x].stage = "received" => hand[x].id \in received[x]
          BY DEF OnItsWayTrue
        <5> QED
          BY <2>1, <2>2, <5>1
      <4> QED
        BY <4>1, <4>2, <4>3 DEF OnItsWayTrue
    <3>5. CauseKept'
      BY <2>1, <2>4, <3>1, <3>2, <3>3, PeerIs DEF CauseKept, TypeOK
    <3> QED
      BY <2>1, <3>4, <3>5 DEF SentWasReceivedOrAbandoned
  <2> QED
    BY <2>3, <2>4
<1> QED
  BY <1>1, <1>2, <1>3, <1>4, <1>5, <1>6 DEF HandleNext

\* Closes carry the cause of their sender, acknowledgements are of what was received,
\* and a Send that returned nil was acknowledged, throughout.
THEOREM ToldThroughout == Spec => []Told
<1>1. Init => Told
  BY Idle DEF Init, Told, OnItsWayTrue, True, CauseKept, SentWasReceivedOrAbandoned
<1>2. TypeOK /\ Safe /\ Told /\ [Next]_vars => Told'
  <2> SUFFICES ASSUME TypeOK, Safe, Told, [Next]_vars PROVE Told'
    OBVIOUS
  <2>1. CASE UNCHANGED vars
    BY <2>1 DEF vars, busVars, endVars, closeVars, sendVars, chanVars, Told, OnItsWayTrue,
                True, CauseKept, SentWasReceivedOrAbandoned
  <2>2. CASE Next
    BY <2>2, ClosersTold, EndsTold, SendTold, HandleTold DEF Next
  <2> QED
    BY <2>1, <2>2
<1> QED
  BY <1>1, <1>2, Inductive, PTL DEF Spec

\* A Send that returns nil was received, unless the owner of the context given to
\* OpenStream had cancelled it.
THEOREM SentIsReceived == Spec => []SentWasReceivedOrAbandoned
<1>1. Told => SentWasReceivedOrAbandoned
  BY DEF Told
<1> QED
  BY <1>1, ToldThroughout, PTL

\* An end that was closed by its peer reports the peer's cause.
THEOREM CauseShared == Spec => []CauseIsShared
<1>1. Told => CauseIsShared
  BY DEF Told, CauseKept, CauseIsShared
<1> QED
  BY <1>1, ToldThroughout, PTL

----------------------------------------------------------------------------
\* Coming to rest.

\* Before the server has let the stream in it has said nothing, and the client can have
\* given up only; afterwards messages find it until it is closed.
Opening ==
    /\ ~opened["server"] =>
          /\ ~registered["server"] /\ ~closed["server"]
          /\ \A e \in Ends : hand[e] = Nothing /\ ~malformed[e]
          /\ \A n \in net : n.to = "server"
          /\ Open \notin acked["client"]
          /\ closed["client"] => err["client"] = "timeout" \/ ~looping["client"]
    /\ opened["server"] /\ ~closed["server"] => registered["server"]
    /\ opened["client"] => Open \in acked["client"]

\* The client's goroutine leaves its loop to close the stream, which its observer sees, and
\* the server's does not; a stream that its peer has closed has its context cancelled.
Leaving ==
    /\ looping["server"]
    /\ ~looping["client"] =>
          closed["client"] /\ hand["client"] = Nothing /\ observed["client"] = 1
    /\ closed["client"] => observed["client"] = 1 \/ canceled["client"]

\* The close of its peer is on its way to e.
Coming(e) == (\E n \in net : n.to = e /\ n.body = "close") \/ hand[e].stage = "close"

\* The client gave up before it had the acknowledgement of the server: OpenStream fails.
GaveUp ==
    /\ ~opened["client"]
    /\ err["client"] = "timeout" \/ (~looping["client"] /\ Open \notin acked["client"])

\* An end that is open when its peer is closed has its close coming, unless the peer is a
\* client that gave up: its close may have come before the stream was there.
Learns ==
    reliable =>
        /\ closed["client"] /\ ~closed["server"] => Coming("server") \/ GaveUp
        /\ closed["server"] /\ ~closed["client"] => Coming("client")

Ways == Opening /\ Leaving /\ Learns

\* A Close that is the first tells the peer, if it is there or will be; the client's
\* goroutine may leave its loop with it, and the server's may have let the stream in.
LEMMA StartCloseWays ==
    ASSUME TypeOK, Ways, NEW e \in Ends, NEW cause, StartClose(e, cause),
           UNCHANGED <<reliable, hand, acked>>,
           \A x \in Ends : malformed'[x] => malformed[x],
           \/ /\ UNCHANGED <<opened, registered>>
              /\ opened["server"] \/ (e = "client" /\ (cause = "timeout" \/ ~looping'["client"]))
           \/ /\ opened'["server"] /\ opened'["client"] = opened["client"]
              /\ registered'["server"],
           \/ looping' = looping
           \/ /\ looping' = [looping EXCEPT !["client"] = FALSE]
              /\ e = "client" /\ hand["client"] = Nothing
    PROVE  Ways'
<1>1. /\ \A x \in Ends : closed[x] => closed'[x] /\ err'[x] = err[x]
      /\ closed'[e] /\ \A x \in Ends : x # e => closed'[x] = closed[x]
      /\ ~closed[e] => err'[e] = cause
      /\ observed'[e] = 1 /\ \A x \in Ends : x # e => observed'[x] = observed[x]
      /\ canceled' = canceled
  <2>1. CASE closed[e]
    <3>1. /\ observed' = [observed EXCEPT ![e] = 1] /\ DOMAIN observed = Ends
          /\ UNCHANGED <<closed, err, canceled>>
      BY <2>1, Zenon DEF StartClose, Observe, closeVars, TypeOK
    <3> QED
      BY <2>1, <3>1
  <2>2. CASE ~closed[e]
    <3>1. /\ observed' = [observed EXCEPT ![e] = 1] /\ closed' = [closed EXCEPT ![e] = TRUE]
          /\ err' = [err EXCEPT ![e] = cause] /\ canceled' = canceled
      BY <2>2, Zenon DEF StartClose, Observe, SetClosed
    <3>2. DOMAIN observed = Ends /\ DOMAIN closed = Ends /\ DOMAIN err = Ends
      BY Zenon DEF TypeOK
    <3> QED
      BY <2>2, <3>1, <3>2
  <2> QED
    BY <2>1, <2>2
<1>2. /\ net \subseteq net' /\ \A n \in net' \ net : n.to = Peer(e)
      /\ ~closed[e] => \E n \in net' : n.to = Peer(e) /\ n.body = "close"
  <2>1. CASE closed[e]
    BY <2>1 DEF StartClose
  <2>2. CASE ~closed[e]
    <3>1. PICK n : n = [to |-> Peer(e), body |-> "close", id |-> cause]
      OBVIOUS
    <3>2. net' = net \cup {n}
      BY <2>2, <3>1 DEF StartClose, Publish
    <3>3. n.to = Peer(e) /\ n.body = "close"
      BY <3>1
    <3> QED
      BY <3>2, <3>3
  <2> QED
    BY <2>1, <2>2
<1>3. Peer("client") = "server" /\ Peer("server") = "client"
  BY DEF Peer
<1>4. /\ looping'["server"] /\ (~looping["client"] => ~looping'["client"])
      /\ ~looping'["client"] => ~looping["client"] \/ (e = "client" /\ hand["client"] = Nothing)
  BY DEF TypeOK, Ways, Leaving
<1> HIDE DEF TypeOK
<1>5. Opening'
  <2>1. ASSUME ~opened'["server"]
        PROVE  /\ e = "client" /\ UNCHANGED <<opened, registered>>
               /\ closed'["client"] => err'["client"] = "timeout" \/ ~looping'["client"]
    BY <1>1, <1>4, <2>1 DEF Ways, Opening
  <2>2. ~opened'["server"] => \A n \in net' : n.to = "server"
    BY <1>2, <1>3, <2>1 DEF Ways, Opening
  <2> QED
    BY <1>1, <2>1, <2>2 DEF Ways, Opening
<1>6. Leaving'
  BY <1>1, <1>4 DEF Ways, Leaving
<1>7. Learns'
  <2>1. ASSUME GaveUp, closed["client"] PROVE GaveUp'
    BY <1>1, <1>4, <2>1 DEF GaveUp
  <2> QED
    BY <1>1, <1>2, <1>3, <2>1 DEF Ways, Learns, Coming
<1> QED
  BY <1>5, <1>6, <1>7 DEF Ways

\* Whoever closes an end that is open sends its peer a close.
LEMMA ClosersWays ==
    ASSUME TypeOK, Ways, OpenFails \/ CloseInLoop \/ \E e \in Ends : Close(e) \/ CloseMalformed(e)
    PROVE  Ways'
<1> USE DEF sendVars, chanVars, endVars
<1>1. ASSUME NEW e \in Ends, Close(e) PROVE Ways'
  <2>1. opened["server"]
    BY <1>1 DEF Close, Ways, Opening
  <2>2. /\ StartClose(e, e) /\ UNCHANGED <<reliable, hand, acked, opened, registered, looping>>
        /\ malformed' = malformed
    BY <1>1, Zenon DEF Close
  <2> QED
    BY <2>1, <2>2, StartCloseWays
<1>2. ASSUME NEW e \in Ends, CloseMalformed(e) PROVE Ways'
  <2>1. opened["server"]
    BY <1>2 DEF CloseMalformed, Ways, Opening
  <2>2. /\ StartClose(e, "malformed")
        /\ UNCHANGED <<reliable, hand, acked, opened, registered, looping>>
    BY <1>2, Zenon DEF CloseMalformed
  <2>3. \A x \in Ends : malformed'[x] => malformed[x]
    BY <1>2 DEF CloseMalformed, TypeOK
  <2> QED
    BY <2>1, <2>2, <2>3, StartCloseWays
<1>3. ASSUME CloseInLoop PROVE Ways'
  <2>1. /\ \E cause : StartClose("client", cause)
        /\ UNCHANGED <<reliable, hand, acked, opened, registered, malformed>>
        /\ looping' = [looping EXCEPT !["client"] = FALSE] /\ hand["client"] = Nothing
    BY <1>3, Zenon DEF CloseInLoop
  <2>2. ~looping'["client"]
    BY <2>1 DEF TypeOK
  <2> QED
    BY <2>1, <2>2, StartCloseWays
<1>4. ASSUME OpenFails PROVE Ways'
  <2>1. /\ StartClose("client", "timeout")
        /\ UNCHANGED <<reliable, hand, acked, opened, registered, looping, malformed>>
    BY <1>4, Zenon DEF OpenFails
  <2> QED
    BY <2>1, StartCloseWays
<1> QED
  BY <1>1, <1>2, <1>3, <1>4

\* The server lets the stream in, and acknowledges it or closes it.
LEMMA AcceptWays ==
    ASSUME TypeOK, Ways, Accept
    PROVE  Ways'
<1>1. /\ opened'["server"] /\ opened'["client"] = opened["client"] /\ registered'["server"]
      /\ UNCHANGED <<reliable, looping, hand, acked, malformed>>
  BY DEF Accept, TypeOK
<1>2. CASE StartClose("server", "internal")
  BY <1>1, <1>2, StartCloseWays
<1>3. CASE /\ UNCHANGED <<closeVars, observed>>
           /\ \E n \in net : n.body = "open" /\ net \ {n} \subseteq net'
  <2>1. UNCHANGED <<closed, err, canceled, observed>>
    BY <1>3 DEF closeVars
  <2>2. \A n \in net : n.body = "close" => n \in net'
    BY <1>3
  <2>3. Opening' /\ Leaving'
    BY <1>1, <2>1, Zenon DEF Ways, Opening, Leaving
  <2>4. GaveUp => GaveUp'
    BY <1>1, <2>1, Zenon DEF GaveUp
  <2> QED
    BY <1>1, <2>1, <2>2, <2>3, <2>4 DEF Ways, Learns, Coming
<1> QED
  BY <1>2, <1>3, Zenon DEF Accept

\* What opens, ends or cancels the client's stream, a Send and a read leave the closes that
\* are coming alone.
LEMMA OthersWays ==
    ASSUME TypeOK, Safe, Ways,
           \/ Cancel \/ Opened \/ \E e \in Ends : EndClose(e) \/ Consume(e)
           \/ \E m \in Messages : SendNext(m)
    PROVE  Ways'
<1> USE DEF busVars, endVars, closeVars, sendVars, chanVars
<1>1. UNCHANGED <<reliable, hand, acked, looping, closed, err, malformed, observed>>
  BY Zenon DEF Cancel, Opened, EndClose, Shut, Consume, SendNext, SendClosed, Send, SendAcked,
               SendEnds, SendReturns
<1>2. ASSUME net \subseteq net', net' # net => opened["server"], opened' = opened,
             canceled["client"] => canceled'["client"],
             \A x \in Ends : registered'[x] = registered[x] \/ (~registered'[x] /\ closed[x])
      PROVE  Ways'
  <2>1. Opening'
    BY <1>1, <1>2 DEF Ways, Opening
  <2>2. Leaving' /\ (GaveUp => GaveUp')
    BY <1>1, <1>2, Zenon DEF Ways, Leaving, GaveUp
  <2> QED
    BY <1>1, <1>2, <2>1, <2>2 DEF Ways, Learns, Coming
<1>3. ASSUME Cancel PROVE Ways'
  <2>1. UNCHANGED <<net, opened, registered>> /\ canceled' = [canceled EXCEPT !["client"] = TRUE]
    BY <1>3, Zenon DEF Cancel
  <2>2. canceled'["client"]
    BY <2>1 DEF TypeOK
  <2> QED
    BY <1>2, <2>1, <2>2
<1>4. ASSUME NEW e \in Ends, EndClose(e) PROVE Ways'
  <2>1. /\ UNCHANGED <<net, opened>> /\ closed[e]
        /\ canceled' = [canceled EXCEPT ![e] = TRUE]
        /\ registered' = [registered EXCEPT ![e] = FALSE]
    BY <1>4, Zenon DEF EndClose, Shut, Safe, CloseInOrder
  <2>2. /\ canceled["client"] => canceled'["client"]
        /\ \A x \in Ends : registered'[x] = registered[x] \/ (~registered'[x] /\ closed[x])
    BY <2>1 DEF TypeOK
  <2> QED
    BY <1>2, <2>1, <2>2
<1>5. ASSUME NEW e \in Ends, Consume(e) PROVE Ways'
  BY <1>2, <1>5 DEF Consume
<1>6. ASSUME NEW m \in Messages, SendNext(m) PROVE Ways'
  <2>1. /\ UNCHANGED <<opened, registered, canceled>>
        /\ net' = net \/ (opened[From[m]] /\ Publish(From[m], "message", m))
    BY <1>6, Zenon DEF SendNext, SendClosed, Send, SendAcked, SendEnds, SendReturns
  <2>2. opened[From[m]] => opened["server"]
    <3>1. From[m] \in Ends
      BY StreamAssumption
    <3> QED
      BY <3>1 DEF Ways, Opening
  <2> QED
    BY <1>2, <2>1, <2>2 DEF Publish
<1>7. ASSUME Opened PROVE Ways'
  <2>1. /\ UNCHANGED <<net, registered, canceled>> /\ ~GaveUp
        /\ opened' = [opened EXCEPT !["client"] = TRUE] /\ Open \in acked["client"]
    BY <1>7, Zenon DEF Opened, GaveUp, Ways, Leaving
  <2>2. opened'["server"] = opened["server"] /\ (opened'["client"] => Open \in acked'["client"])
    BY <1>1, <2>1 DEF TypeOK
  <2>3. Opening'
    BY <1>1, <2>1, <2>2 DEF Ways, Opening
  <2>4. Leaving'
    BY <1>1, <2>1, Zenon DEF Ways, Leaving
  <2> QED
    BY <1>1, <2>1, <2>3, <2>4 DEF Ways, Learns, Coming
<1> QED
  BY <1>3, <1>4, <1>5, <1>6, <1>7

\* What an end handles, but for a close, leaves the closes that are coming alone.
LEMMA MessageWays ==
    ASSUME TypeOK, Safe, Ways, NEW e \in Ends, HandleAck(e) \/ AddPending(e) \/ Recv(e) \/ Ack(e)
    PROVE  Ways'
<1> USE DEF busVars, endVars, closeVars, sendVars, chanVars
<1>1. /\ UNCHANGED <<reliable, opened, registered, looping, closed, err, canceled, observed>>
      /\ hand[e].stage \in {"ack", "message", "recv", "received"}
      /\ net' = net \/ Publish(e, "ack", hand[e].id)
  BY Zenon DEF HandleAck, AddPending, Recv, Ack
<1>2. \A x \in Ends : x # e => hand'[x] = hand[x] /\ acked'[x] = acked[x]
  BY DEF HandleAck, AddPending, Recv, Ack, TypeOK
<1>3. net \subseteq net'
  BY <1>1 DEF Publish
<1>4. hand[e] # Nothing
  BY <1>1, Idle
<1>5. opened["server"]
  BY <1>4 DEF Ways, Opening
<1>6. e = "client" => looping["client"]
  BY <1>4 DEF Ways, Leaving
<1>7. acked[e] \subseteq acked'[e]
  BY DEF HandleAck, AddPending, Recv, Ack, TypeOK
<1>8. \A x \in Ends : Coming(x) => Coming(x)'
  BY <1>1, <1>2, <1>3 DEF Coming
<1>9. GaveUp => GaveUp'
  BY <1>1, <1>2, <1>6 DEF GaveUp
<1>10. Opening'
  BY <1>1, <1>2, <1>5, <1>7 DEF Ways, Opening
<1>11. Leaving'
  BY <1>1, <1>2, <1>6 DEF Ways, Leaving
<1>12. Learns'
  BY <1>1, <1>8, <1>9 DEF Ways, Learns
<1> QED
  BY <1>10, <1>11, <1>12 DEF Ways

\* The close of its peer closes an end that is open.
LEMMA HandleCloseWays ==
    ASSUME TypeOK, Safe, Told, Ways, NEW e \in Ends, HandleClose(e)
    PROVE  Ways'
<1> USE DEF busVars, endVars, closeVars, sendVars, chanVars
<1>1. UNCHANGED <<reliable, net, opened, looping, acked, malformed, observed>>
  BY Zenon DEF HandleClose
<1>2. hand' = [hand EXCEPT ![e] = Nothing] /\ hand[e] # Nothing
  BY Idle, Zenon DEF HandleClose
<1>3. closed[Peer(e)]
  BY <1>2, Zenon DEF HandleClose, Told, OnItsWayTrue, True
<1>4. /\ closed'[e] /\ \A x \in Ends : closed[x] => closed'[x] /\ err'[x] = err[x]
      /\ \A x \in Ends : x # e => closed'[x] = closed[x] /\ registered'[x] = registered[x]
      /\ e = "client" /\ ~closed["client"] => canceled'["client"]
      /\ canceled["client"] => canceled'["client"]
  <2>1. CASE closed[e]
    BY <2>1, Zenon DEF HandleClose
  <2>2. CASE ~closed[e]
    <3>1. /\ closed' = [closed EXCEPT ![e] = TRUE] /\ err' = [err EXCEPT ![e] = hand[e].id]
          /\ canceled' = [canceled EXCEPT ![e] = TRUE]
          /\ registered' = [registered EXCEPT ![e] = FALSE]
      BY <2>2, Zenon DEF HandleClose, SetClosed, Shut
    <3>2. /\ DOMAIN closed = Ends /\ DOMAIN err = Ends /\ DOMAIN canceled = Ends
          /\ DOMAIN registered = Ends
      BY Zenon DEF TypeOK
    <3> QED
      BY <2>2, <3>1, <3>2
  <2> QED
    BY <2>1, <2>2
<1>5. hand'[e] = Nothing /\ \A x \in Ends : x # e => hand'[x] = hand[x]
  BY <1>2 DEF TypeOK
<1>6. opened["server"] /\ (e = "client" => looping["client"])
  BY <1>2 DEF Ways, Opening, Leaving
<1>7. Opening'
  BY <1>1, <1>4, <1>6 DEF Ways, Opening
<1>8. Leaving'
  BY <1>1, <1>4, <1>5, <1>6 DEF Ways, Leaving
<1>9. Learns'
  <2>1. closed'["client"] /\ closed'["server"]
    BY <1>3, <1>4, PeerIs
  <2> QED
    BY <2>1 DEF Learns
<1> QED
  BY <1>7, <1>8, <1>9 DEF Ways

\* What an end takes in hand it handles; what the server drops is for a stream that it has
\* closed, or not let in yet, whose client then gave up if it has closed.
LEMMA TakeWays ==
    ASSUME TypeOK, Ways, NEW e \in Ends, Take(e)
    PROVE  Ways'
<1> USE DEF busVars, endVars, closeVars, sendVars, chanVars
<1>1. PICK n \in net : /\ n.to = e /\ n.body # "open" /\ looping[e] /\ hand[e] = Nothing
                       /\ net' = net \ {n}
                       /\ hand' = [hand EXCEPT ![e] =
                             IF registered[e] \/ e = "client"
                             THEN [stage |-> n.body, id |-> n.id] ELSE Nothing]
  BY Zenon DEF Take
<1>2. UNCHANGED <<reliable, opened, registered, looping, acked, closed, err, canceled, malformed,
                  observed>>
  BY Zenon DEF Take
<1>3. \A x \in Ends : x # e => hand'[x] = hand[x]
  BY <1>1 DEF TypeOK
<1>4. CASE registered[e] \/ e = "client"
  <2>1. PICK h : h = [stage |-> n.body, id |-> n.id]
    OBVIOUS
  <2>2. hand'[e] = h /\ h.stage = n.body
    BY <1>1, <1>4, <2>1 DEF TypeOK
  <2>3. opened["server"]
    BY <1>1, <1>4 DEF Ways, Opening
  <2>4. \A x \in Ends : Coming(x) => Coming(x)'
    <3>1. Coming(e) => Coming(e)'
      BY <1>1, <2>2, Idle DEF Coming
    <3>2. \A x \in Ends : x # e => (Coming(x) => Coming(x)')
      BY <1>1, <1>3 DEF Coming
    <3> QED
      BY <3>1, <3>2
  <2>5. Opening' /\ Leaving'
    BY <1>1, <1>2, <1>3, <2>3 DEF Ways, Opening, Leaving
  <2>6. GaveUp => GaveUp'
    BY <1>2, Zenon DEF GaveUp
  <2> QED
    BY <1>2, <2>4, <2>5, <2>6 DEF Ways, Learns
<1>5. CASE ~registered[e] /\ e = "server"
  <2>1. hand'["server"] = Nothing /\ hand'["client"] = hand["client"] /\ hand["server"] = Nothing
    BY <1>1, <1>3, <1>5 DEF TypeOK
  <2>2. Opening' /\ Leaving'
    BY <1>1, <1>2, <2>1 DEF Ways, Opening, Leaving
  <2>3. closed["client"] /\ ~closed["server"] => GaveUp
    BY <1>5 DEF Ways, Opening, GaveUp
  <2>4. Coming("client") => Coming("client")'
    BY <1>1, <1>5, <2>1 DEF Coming
  <2>5. GaveUp => GaveUp'
    BY <1>2, Zenon DEF GaveUp
  <2> QED
    BY <1>2, <2>2, <2>3, <2>4, <2>5 DEF Ways, Learns
<1> QED
  BY <1>4, <1>5

\* On a bus that loses nothing the close of an open end whose peer closed is on its way, if
\* OpenStream returned the stream (Learns), throughout.
THEOREM ClosesAreComing == Spec => []Ways
<1>1. Init => Ways
  <2> SUFFICES ASSUME Init PROVE Ways
    OBVIOUS
  <2>1. \A e \in Ends : /\ ~opened[e] /\ looping[e] /\ hand[e] = Nothing /\ acked[e] = {}
                        /\ ~closed[e] /\ ~malformed[e]
    BY DEF Init
  <2>2. ~registered["server"]
    BY DEF Init
  <2>3. \A n \in net : n.to = "server"
    BY DEF Init
  <2> QED
    BY <2>1, <2>2, <2>3 DEF Ways, Opening, Leaving, Learns
<1>2. TypeOK /\ Safe /\ Told /\ Ways /\ [Next]_vars => Ways'
  <2> SUFFICES ASSUME TypeOK, Safe, Told, Ways, [Next]_vars PROVE Ways'
    OBVIOUS
  <2>1. CASE UNCHANGED vars
    BY <2>1 DEF vars, busVars, endVars, closeVars, sendVars, chanVars, Ways, Opening, Leaving,
                Learns, Coming, GaveUp
  <2>2. CASE Next
    BY <2>2, ClosersWays, AcceptWays, OthersWays, MessageWays, HandleCloseWays, TakeWays
    DEF Next, HandleNext
  <2> QED
    BY <2>1, <2>2
<1> QED
  BY <1>1, <1>2, Inductive, ToldThroughout, PTL DEF Spec

\* Where no guard holds nothing is in anyone's hand and no Send waits, so pending is zero and
\* no Close waits for it; and no close is coming that would be taken.
LEMMA RestsThen ==
    ASSUME TypeOK, Safe, Ways, ~CanGoOn
    PROVE  AtRest
<1>1. /\ \A e \in Ends : hand[e] = Nothing /\ ~(cpc[e] = "closing" /\ pending[e] = 0)
      /\ reliable => \A e \in Ends : looping[e] => \A n \in net : ~(n.to = e /\ n.body = "close")
      /\ looping["client"] => ~canceled["client"]
      /\ \A m \in Messages : spc[m] # "waiting"
  BY DEF CanGoOn
<1>2. ASSUME NEW e \in Ends PROVE cpc[e] # "closing"
  <2>1. Waiting(e) = {} /\ InHand(e) = 0
    BY <1>1, Idle DEF Waiting, InHand
  <2>2. pending[e] = 0
    BY <2>1, FS_EmptySet DEF Safe, PendingCounts
  <2> QED
    BY <1>1, <2>2
<1>3. ASSUME reliable, opened["client"] PROVE closed["client"] <=> closed["server"]
  <2>1. \A e \in Ends : looping[e] => ~Coming(e)
    BY <1>1, <1>3, Idle DEF Coming
  <2>2. looping["server"] /\ (~looping["client"] => closed["client"]) /\ ~GaveUp
    BY <1>3 DEF Ways, Leaving, GaveUp
  <2> QED
    BY <1>3, <2>1, <2>2 DEF Ways, Learns, TypeOK
<1>4. closed["client"] => observed["client"] = 1
  BY <1>1 DEF Ways, Leaving
<1> QED
  BY <1>2, <1>3, <1>4 DEF AtRest

\* Left alone, every Close has returned, a stream is closed at both ends or at none, unless
\* the bus lost its close, and the client's observer was told of the end.
THEOREM ComesToRest == Spec => []AtRest
<1>1. TypeOK /\ Safe /\ Ways => AtRest
  BY RestsThen DEF AtRest
<1> QED
  BY <1>1, Inductive, ClosesAreComing, PTL
=============================================================================
