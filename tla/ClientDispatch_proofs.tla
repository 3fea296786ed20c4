------------------------ MODULE ClientDispatch_proofs ------------------------
(***************************************************************************)
(* Theorems about ClientDispatch, for any calls, streams and channel size. *)
(***************************************************************************)
EXTENDS ClientDispatch, SequenceTheorems, FiniteSetTheorems, TLAPS

----------------------------------------------------------------------------
\* The inductive invariant.

\* What the dispatcher has in its hands for t.
Handed(t) == IF disp # None /\ disp.to = t THEN <<disp.kind>> ELSE << >>

\* What was accepted for t is what t has got and what is on its way, in order.
OnTheWay(t) == accepted[t] = got[t] \o resChan[t] \o hand[t] \o channel[t] \o Handed(t)

\* Where the goroutines are in the code.
PcStates == {"idle", "refused", "sending", "open", "closing", "failed"}
HpcStates == {"none", "select", "recv", "acking", "closing", "closed"}

\* While subscriptions are closed there is one to close.  handleResponses has a response in
\* its hand only between the interceptors and the caller's channel; a stream uses neither.
Placed ==
    /\ client = "building" => Len(subs) < Len(Channels)
    /\ client \in {"closing", "failing"} => subs # << >>
    /\ \A t \in Targets :
          /\ Len(hand[t]) <= 1
          /\ hpc[t] # "recv" => hand[t] = << >>
          /\ pc[t] = "idle" => hpc[t] = "none"
    /\ \A t \in Streams : resChan[t] = << >> /\ hpc[t] # "recv"

Inv == TypeOK /\ Placed /\ \A t \in Targets : OnTheWay(t)

----------------------------------------------------------------------------
\* Lemmas about sequences.

\* The first element can be split off.
LEMMA HeadFirst ==
    ASSUME NEW S, NEW a \in Seq(S), NEW b \in Seq(S), b # << >>
    PROVE  /\ a \o b = (a \o <<Head(b)>>) \o Tail(b)
           /\ Append(a, Head(b)) = a \o <<Head(b)>>
<1>1. Head(b) \in S /\ Tail(b) \in Seq(S) /\ Len(Tail(b)) = Len(b) - 1 /\ Len(b) \in Nat \ {0}
  BY HeadTailProperties, EmptySeq
<1>2. <<Head(b)>> \in Seq(S)
  BY <1>1
<1>3. b = <<Head(b)>> \o Tail(b)
  <2> DEFINE c == <<Head(b)>> \o Tail(b)
  <2>1. c \in Seq(S) /\ Len(c) = Len(b)
    BY <1>1, <1>2, ConcatProperties
  <2>2. \A i \in 1..Len(b) : b[i] = c[i]
    BY <1>1, <1>2, ConcatProperties, HeadTailProperties
  <2> QED
    BY <2>1, <2>2, SeqEqual
<1>4. a \o (<<Head(b)>> \o Tail(b)) = (a \o <<Head(b)>>) \o Tail(b)
  BY <1>1, <1>2, ConcatAssociative
<1>5. Append(a, Head(b)) = a \o <<Head(b)>>
  BY <1>1, AppendIsConcat
<1> QED
  BY <1>3, <1>4, <1>5

\* A sequence in pieces, and how each step moves an element or a piece on. The
\* dispatcher looks up ...
LEMMA PieceAccepted ==
    ASSUME NEW S, NEW a \in Seq(S), NEW k \in S
    PROVE  Append(a \o << >>, k) = a \o <<k>>
  BY ConcatEmptySeq, AppendIsConcat

\* ... and hands over ...
LEMMA PieceHandedOver ==
    ASSUME NEW S, NEW a \in Seq(S), NEW d \in Seq(S), NEW k \in S
    PROVE  (a \o d) \o <<k>> = (a \o Append(d, k)) \o << >>
<1>1. Append(d, k) \in Seq(S) /\ Append(d, k) = d \o <<k>> /\ <<k>> \in Seq(S)
  BY AppendProperties, AppendIsConcat
<1>2. a \o Append(d, k) \in Seq(S)
  BY <1>1, ConcatProperties
<1>3. (a \o Append(d, k)) \o << >> = a \o Append(d, k)
  BY <1>2, ConcatEmptySeq
<1>4. a \o (d \o <<k>>) = (a \o d) \o <<k>>
  BY <1>1, ConcatAssociative
<1> QED
  BY <1>1, <1>3, <1>4

\* ... handleResponses takes ...
LEMMA PieceReceived ==
    ASSUME NEW S, NEW a \in Seq(S), NEW d \in Seq(S), d # << >>
    PROVE  (a \o << >>) \o d = (a \o <<Head(d)>>) \o Tail(d)
  BY HeadFirst, ConcatEmptySeq

\* ... and puts into the caller's channel ...
LEMMA PiecePassedOn ==
    ASSUME NEW S, NEW a \in Seq(S), NEW b \in Seq(S), NEW c \in Seq(S)
    PROVE  (a \o b) \o c = (a \o (b \o c)) \o << >>
<1>0. b \o c \in Seq(S)
  BY ConcatProperties
<1>1. a \o (b \o c) = (a \o b) \o c
  OBVIOUS
<1>2. a \o (b \o c) \in Seq(S)
  BY <1>0, ConcatProperties
<1> QED
  BY <1>1, <1>2, ConcatEmptySeq

\* ... and the caller, or a stream, reads.
LEMMA PieceRead ==
    ASSUME NEW S, NEW a \in Seq(S), NEW b \in Seq(S), b # << >>
    PROVE  a \o b = Append(a, Head(b)) \o Tail(b)
  BY HeadFirst

----------------------------------------------------------------------------
\* The steps.

\* The sequences and counts are what TypeOK says; so is what the dispatcher has.
LEMMA Types ==
    ASSUME TypeOK
    PROVE  /\ channel \in [Targets -> Seq(Kinds)] /\ hand \in [Targets -> Seq(Kinds)]
           /\ resChan \in [Targets -> Seq(Kinds)] /\ accepted \in [Targets -> Seq(Kinds)]
           /\ got \in [Targets -> Seq(Kinds)]
           /\ count \in [Calls -> [Kinds -> Nat]] /\ observed \in [Calls -> [Kinds -> Nat]]
           /\ \A t \in Targets : Handed(t) \in Seq(Kinds)
<1>1. \A t \in Targets : Handed(t) \in Seq(Kinds)
  BY DEF TypeOK, Handed
<1> QED
  BY <1>1 DEF TypeOK

\* What makes the next state of its type, when the rest is as it was.
LEMMA TypesStay ==
    ASSUME TypeOK, UNCHANGED <<client, subs, closed, abandoned, observed>>,
           writing' \in {"none"} \cup Locking, entries' \subseteq Targets,
           pc' \in [Targets -> PcStates], hpc' \in [Targets -> HpcStates],
           /\ channel' \in [Targets -> Seq(Kinds)] /\ hand' \in [Targets -> Seq(Kinds)]
           /\ resChan' \in [Targets -> Seq(Kinds)] /\ got' \in [Targets -> Seq(Kinds)],
           accepted' \in [Targets -> Seq(Kinds)],
           \A t \in Targets : Len(channel'[t]) <= Size /\ Len(resChan'[t]) <= Size,
           disp' \in [to : Targets, kind : Kinds] \cup {None},
           arrived' \in [Targets -> Nat], count' \in [Calls -> [Kinds -> Nat]]
    PROVE  TypeOK'
  BY DEF TypeOK, PcStates, HpcStates

\* What the steps that leave the client's subscriptions, the dispatcher and the
\* responses alone preserve.
LEMMA Elsewhere ==
    ASSUME Inv, UNCHANGED <<disp, accepted, got, resChan, hand, channel>>
    PROVE  \A t \in Targets : OnTheWay(t)'
  BY DEF Inv, OnTheWay, Handed

\* The client is built and closed.
LEMMA ClientStep ==
    ASSUME Inv, Build \/ Close \/ Stop \/ CloseNext \/ Read \/ \E sub \in Locking : Overflow(sub)
    PROVE  Inv'
<1> USE DEF Inv
<1> DEFINE ThreeLeft == /\ subs' \in Seq(ToSet(Channels))
                        /\ client' = "building" => Len(subs') < Len(Channels)
                        /\ client' \in {"closing", "failing"} => subs' # << >>
<1>1. UNCHANGED <<dispVars, callVars, metricVars>>
  BY Zenon DEF Build, Close, Stop, CloseNext, Read, Overflow
<1>2. \A t \in Targets : OnTheWay(t)'
  BY <1>1, Elsewhere DEF dispVars, callVars
<1>3. /\ Channels = <<"RES", "CLAIM", "STR">> /\ Len(Channels) = 3
      /\ Closed \in Seq(ToSet(Channels)) /\ Closed # << >>
  BY DEF Channels, Closed, ToSet
<1>4. /\ subs \in Seq(ToSet(Channels)) /\ Len(subs) \in Nat
      /\ client = "building" => Len(subs) < Len(Channels)
      /\ client \in {"closing", "failing"} => subs # << >>
      /\ client \in {"building", "failing", "failed", "open", "closing", "stopped"}
      /\ closed \in BOOLEAN /\ writing \in {"none"} \cup Locking
  <2>1. subs \in Seq(ToSet(Channels))
    BY DEF TypeOK
  <2> QED
    BY <2>1, LenProperties DEF TypeOK, Placed
<1>5. /\ ThreeLeft
      /\ client' \in {"building", "failing", "failed", "open", "closing", "stopped"}
      /\ closed' \in BOOLEAN /\ writing' \in {"none"} \cup Locking
  <2> HIDE DEF Inv
  <2>1. CASE Build
    <3>1. client = "building" /\ UNCHANGED <<closed, writing>>
      BY <2>1, Zenon DEF Build
    <3>2. CASE Fails /\ UNCHANGED subs
      BY <1>4, <3>1, <3>2 DEF Fails
    <3>3. CASE /\ subs' = Append(subs, Channels[Len(subs) + 1])
               /\ client' = IF Len(subs') = Len(Channels) THEN "open" ELSE client
      <4>1. Channels[Len(subs) + 1] \in ToSet(Channels)
        BY <1>3, <1>4, <3>1 DEF ToSet
      <4>2. subs' \in Seq(ToSet(Channels)) /\ Len(subs') = Len(subs) + 1
        BY <1>4, <3>3, <4>1, AppendProperties
      <4> QED
        BY <1>3, <1>4, <3>1, <3>3, <4>2
    <3> QED
      BY <2>1, <3>2, <3>3 DEF Build
  <2>2. CASE Close
    BY <1>4, <2>2 DEF Close
  <2>3. CASE Stop
    BY <1>3, <1>4, <2>3 DEF Stop, Frees
  <2>4. CASE CloseNext
    <3>1. /\ subs' = Tail(subs) /\ UNCHANGED <<closed, writing>>
          /\ client' = IF Len(subs) > 1 THEN client
                       ELSE IF client = "closing" THEN "stopped" ELSE "failed"
          /\ client \in {"closing", "failing"}
      BY <2>4, Zenon DEF CloseNext
    <3>2. Tail(subs) \in Seq(ToSet(Channels)) /\ Len(Tail(subs)) = Len(subs) - 1
      BY <1>4, <3>1, HeadTailProperties
    <3>3. Len(subs) > 1 => Tail(subs) # << >>
      <4>1. PICK rest : rest = Tail(subs)
        OBVIOUS
      <4>2. Len(rest) = Len(subs) - 1 /\ Len(<< >>) = 0
        BY <3>2, <4>1, EmptySeq
      <4> QED
        BY <1>4, <4>1, <4>2
    <3> QED
      BY <1>4, <3>1, <3>2, <3>3
  <2>5. CASE Read \/ \E sub \in Locking : Overflow(sub)
    BY <1>4, <2>5 DEF Read, Overflow
  <2> QED
    BY <2>1, <2>2, <2>3, <2>4, <2>5
<1>6. TypeOK'
  BY <1>1, <1>5 DEF TypeOK, dispVars, callVars, metricVars
<1>7. Placed'
  BY <1>1, <1>5 DEF Placed, callVars
<1> QED
  BY <1>2, <1>6, <1>7

\* The dispatcher looks a channel up, and hands over.
LEMMA DispatcherStep ==
    ASSUME Inv, HandOver \/ \E t \in Targets : Dispatch(t)
    PROVE  Inv'
<1> USE DEF Inv, clientVars, dispVars, callVars, metricVars
<1>1. CASE HandOver
  <2>1. disp.to \in Targets /\ disp.kind \in Kinds /\ disp # None
    BY <1>1 DEF HandOver, TypeOK
  <2>2. /\ channel' = [channel EXCEPT ![disp.to] = Append(@, disp.kind)] /\ disp' = None
        /\ UNCHANGED <<accepted, got, resChan, hand, entries, arrived, pc, hpc, abandoned,
                       clientVars, metricVars>>
    BY <1>1 DEF HandOver
  <2>3. TypeOK'
    <3>1. Len(channel[disp.to]) < Size /\ Len(channel[disp.to]) \in Nat
      BY <1>1, <2>1, Types, LenProperties DEF HandOver
    <3>2. /\ Append(channel[disp.to], disp.kind) \in Seq(Kinds)
          /\ Len(Append(channel[disp.to], disp.kind)) <= Size
      BY <2>1, <3>1, Types, AppendProperties, ClientDispatchAssumption
    <3> QED
      <4>1. channel' \in [Targets -> Seq(Kinds)]
        BY <2>1, <2>2, <3>2, Types
      <4>2. \A t \in Targets : Len(channel'[t]) <= Size /\ Len(resChan'[t]) <= Size
        BY <2>1, <2>2, <3>2, Types DEF TypeOK
      <4> QED
        BY <2>2, <4>1, <4>2, Types, TypesStay DEF TypeOK, PcStates, HpcStates
  <2>4. Placed'
    BY <2>2 DEF Placed
  <2>5. ASSUME NEW t \in Targets
        PROVE  OnTheWay(t)'
    <3>1. CASE t = disp.to
      <4>1. got[t] \o resChan[t] \o hand[t] \o channel[t] \o <<disp.kind>>
              = got[t] \o resChan[t] \o hand[t] \o Append(channel[t], disp.kind) \o << >>
        <5> DEFINE before == got[t] \o resChan[t] \o hand[t]
                   buffered == channel[t]
                   message == disp.kind
        <5>1. before \in Seq(Kinds) /\ buffered \in Seq(Kinds) /\ message \in Kinds
          BY <2>1, Types, ConcatProperties
        <5> HIDE DEF before, buffered, message, Inv
        <5>2. (before \o buffered) \o <<message>> = (before \o Append(buffered, message)) \o << >>
          BY <5>1, PieceHandedOver
        <5> QED
          BY <5>2 DEF before, buffered, message
      <4>2. channel'[t] = Append(channel[t], disp.kind)
        BY <2>2, <3>1, Types
      <4> QED
        BY <2>1, <2>2, <3>1, <4>1, <4>2 DEF OnTheWay, Handed
    <3>2. CASE t # disp.to
      BY <2>1, <2>2, <3>2, Types DEF OnTheWay, Handed
    <3> QED
      BY <3>1, <3>2
  <2> QED
    BY <2>3, <2>4, <2>5
<1>2. ASSUME NEW u \in Targets, Dispatch(u)
      PROVE  Inv'
  <2>1. /\ disp = None /\ UNCHANGED <<client, subs, closed, entries, callVars, metricVars>>
        /\ writing' \in {"none"} \cup Locking /\ arrived' \in [Targets -> Nat]
    <3>1. disp = None /\ UNCHANGED <<client, subs, closed, entries, callVars, metricVars>>
      BY <1>2, Zenon DEF Dispatch
    <3>2. writing' \in {"none", writing} /\ arrived' = [arrived EXCEPT ![u] = @ + 1]
      BY <1>2 DEF Dispatch, Frees
    <3> QED
      BY <3>1, <3>2 DEF TypeOK
  <2>2. CASE u \in entries
    <3>1. PICK k \in Kinds : /\ disp' = [to |-> u, kind |-> k]
                             /\ accepted' = [accepted EXCEPT ![u] = Append(@, k)]
      BY <1>2, <2>2 DEF Dispatch
    <3>2. disp' # None
      BY <3>1, ClientDispatchAssumption
    <3>3. TypeOK'
      <4>1. accepted' \in [Targets -> Seq(Kinds)]
        BY <3>1, Types, AppendProperties
      <4>2. disp' \in [to : Targets, kind : Kinds]
        BY <3>1
      <4> QED
        BY <2>1, <4>1, <4>2 DEF TypeOK
    <3>4. ASSUME NEW t \in Targets
          PROVE  OnTheWay(t)'
      <4>1. CASE t = u
        <5>1. Append(got[t] \o resChan[t] \o hand[t] \o channel[t] \o << >>, k)
                = got[t] \o resChan[t] \o hand[t] \o channel[t] \o <<k>>
          <6>1. got[t] \o resChan[t] \o hand[t] \o channel[t] \in Seq(Kinds)
            BY Types, ConcatProperties
          <6> QED
            BY <6>1, PieceAccepted
        <5>2. accepted'[t] = Append(accepted[t], k)
          BY <3>1, <4>1, Types
        <5> QED
          BY <2>1, <3>1, <3>2, <4>1, <5>1, <5>2 DEF OnTheWay, Handed
      <4>2. CASE t # u
        BY <2>1, <3>1, <4>2, Types DEF OnTheWay, Handed
      <4> QED
        BY <4>1, <4>2
    <3> QED
      BY <2>1, <3>3, <3>4 DEF Placed
  <2>3. CASE u \notin entries
    <3>1. UNCHANGED <<disp, accepted>>
      BY <1>2, <2>3 DEF Dispatch
    <3>2. TypeOK'
      BY <2>1, <3>1 DEF TypeOK
    <3> QED
      BY <2>1, <3>1, <3>2, Elsewhere DEF Placed
  <2> QED
    BY <2>2, <2>3
<1> QED
  BY <1>1, <1>2

\* handleResponses and the caller move a response on.
LEMMA ResponseStep ==
    ASSUME Inv, NEW c \in Targets, Receive(c) \/ Recv(c) \/ Consume(c)
    PROVE  Inv'
<1> USE DEF Inv, clientVars, dispVars, callVars, metricVars
<1>0. c \in Calls /\ c \notin Streams
  BY ClientDispatchAssumption DEF Receive, Recv, Consume
<1>1. CASE Receive(c)
  <2>1. /\ hand[c] = << >> /\ channel[c] # << >>
        /\ Head(channel[c]) \in Kinds /\ Tail(channel[c]) \in Seq(Kinds)
        /\ Len(Tail(channel[c])) <= Size
    <3>1. hpc[c] = "select" /\ channel[c] # << >>
      BY <1>1 DEF Receive
    <3>2. hand[c] = << >>
      BY <3>1 DEF Placed
    <3>3. PICK q : q = channel[c] /\ q \in Seq(Kinds) /\ Len(q) <= Size
      BY Types DEF TypeOK
    <3>4. Head(q) \in Kinds /\ Tail(q) \in Seq(Kinds) /\ Len(Tail(q)) <= Size
      <4>1. Len(q) \in Nat \ {0} /\ Len(Tail(q)) = Len(q) - 1
        BY <3>1, <3>3, HeadTailProperties, EmptySeq, LenProperties
      <4> QED
        BY <3>1, <3>3, <4>1, HeadTailProperties, ClientDispatchAssumption
    <3> QED
      BY <3>1, <3>2, <3>3, <3>4
  <2>2. /\ hand' = [hand EXCEPT ![c] = <<Head(channel[c])>>]
        /\ channel' = [channel EXCEPT ![c] = Tail(@)]
        /\ count' = [count EXCEPT ![c] = Counted(c, Head(channel[c]))]
        /\ hpc' = [hpc EXCEPT ![c] = "recv"] /\ hpc[c] = "select"
        /\ UNCHANGED <<clientVars, dispVars, pc, resChan, got, abandoned, observed>>
    BY <1>1 DEF Receive
  <2>3. Counted(c, Head(channel[c])) \in [Kinds -> Nat]
    <3>1. count[c] \in [Kinds -> Nat]
      BY <1>0, Types
    <3> QED
      BY <2>1, <3>1 DEF Counted
  <2>4. <<Head(channel[c])>> \in Seq(Kinds) /\ Len(<<Head(channel[c])>>) = 1
    BY <2>1
  <2>5. TypeOK'
    <3>1. channel' \in [Targets -> Seq(Kinds)] /\ hand' \in [Targets -> Seq(Kinds)]
      BY <2>1, <2>2, <2>4, Types
    <3>2. \A t \in Targets : Len(channel'[t]) <= Size /\ Len(resChan'[t]) <= Size
      BY <2>1, <2>2, Types DEF TypeOK
    <3>3. count' \in [Calls -> [Kinds -> Nat]]
      BY <1>0, <2>2, <2>3, Types
    <3>4. pc' \in [Targets -> PcStates] /\ hpc' \in [Targets -> HpcStates]
      BY <2>2 DEF TypeOK, PcStates, HpcStates
    <3> QED
      BY <2>2, <3>1, <3>2, <3>3, <3>4, Types, TypesStay DEF TypeOK
  <2>6. Placed'
    <3>1. \A t \in Targets : hand'[t] = IF t = c THEN <<Head(channel[c])>> ELSE hand[t]
      BY <2>2, Types
    <3>2. \A t \in Targets : hpc'[t] = IF t = c THEN "recv" ELSE hpc[t]
      BY <2>2 DEF TypeOK
    <3>3. \A t \in Streams : t # c /\ t \in Targets
      BY <1>0 DEF Targets
    <3> QED
      BY <2>2, <2>4, <3>1, <3>2, <3>3 DEF Placed
  <2>7. ASSUME NEW t \in Targets
        PROVE  OnTheWay(t)'
    <3>1. CASE t = c
      <4>1. got[t] \o resChan[t] \o << >> \o channel[t] \o Handed(t)
              = got[t] \o resChan[t] \o <<Head(channel[t])>> \o Tail(channel[t]) \o Handed(t)
        <5> DEFINE before == got[t] \o resChan[t]
                   buffered == channel[t]
        <5>1. before \in Seq(Kinds) /\ buffered \in Seq(Kinds) /\ buffered # << >>
          BY <2>1, <3>1, Types, ConcatProperties
        <5> HIDE DEF before, buffered, Inv
        <5>2. (before \o << >>) \o buffered = (before \o <<Head(buffered)>>) \o Tail(buffered)
          BY <5>1, PieceReceived
        <5> QED
          BY <5>2 DEF before, buffered
      <4>2. /\ hand'[t] = <<Head(channel[t])>> /\ channel'[t] = Tail(channel[t])
            /\ Handed(t)' = Handed(t)
        BY <2>2, <3>1, Types DEF Handed
      <4> QED
        BY <2>1, <2>2, <3>1, <4>1, <4>2 DEF OnTheWay
    <3>2. CASE t # c
      BY <2>2, <3>2, Types DEF OnTheWay, Handed
    <3> QED
      BY <3>1, <3>2
  <2> QED
    BY <2>5, <2>6, <2>7
<1>2. CASE Recv(c)
  <2>1. /\ resChan' = [resChan EXCEPT ![c] = @ \o hand[c]]
        /\ hand' = [hand EXCEPT ![c] = << >>]
        /\ hpc' = [hpc EXCEPT ![c] = "select"] /\ hpc[c] = "recv"
        /\ Len(resChan[c]) < Size
        /\ UNCHANGED <<clientVars, dispVars, pc, channel, got, abandoned, metricVars>>
    BY <1>2 DEF Recv
  <2>2. resChan[c] \o hand[c] \in Seq(Kinds) /\ Len(resChan[c] \o hand[c]) <= Size
    BY <2>1, Types, ConcatProperties, LenProperties, ClientDispatchAssumption DEF Placed
  <2>3. TypeOK'
    <3>1. hand' \in [Targets -> Seq(Kinds)] /\ resChan' \in [Targets -> Seq(Kinds)]
      BY <2>1, <2>2, Types, EmptySeq
    <3>2. \A t \in Targets : Len(channel'[t]) <= Size /\ Len(resChan'[t]) <= Size
      BY <2>1, <2>2, Types DEF TypeOK
    <3>3. /\ UNCHANGED <<channel, got, accepted, disp, arrived, count>>
          /\ UNCHANGED <<client, subs, closed, writing, entries, abandoned, observed>>
      BY <2>1
    <3>4. /\ pc' \in [Targets -> PcStates] /\ hpc' \in [Targets -> HpcStates]
          /\ disp \in [to : Targets, kind : Kinds] \cup {None}
          /\ arrived \in [Targets -> Nat]
          /\ writing \in {"none"} \cup Locking /\ entries \subseteq Targets
      BY <2>1 DEF TypeOK, PcStates, HpcStates
    <3> QED
      BY <3>1, <3>2, <3>3, <3>4, Types, TypesStay
  <2>4. Placed'
    <3>1. \A t \in Targets : /\ hand'[t] = IF t = c THEN << >> ELSE hand[t]
                            /\ resChan'[t] = IF t = c THEN resChan[c] \o hand[c] ELSE resChan[t]
      BY <2>1, Types
    <3>2. \A t \in Targets : hpc'[t] = IF t = c THEN "select" ELSE hpc[t]
      BY <2>1 DEF TypeOK
    <3>3. \A t \in Streams : t # c /\ t \in Targets
      BY <1>0 DEF Targets
    <3>4. Len(<< >>) = 0 /\ UNCHANGED <<client, subs, pc>> /\ pc[c] # "idle"
      BY <2>1, EmptySeq DEF Placed
    <3> QED
      BY <3>1, <3>2, <3>3, <3>4 DEF Placed
  <2>5. ASSUME NEW t \in Targets
        PROVE  OnTheWay(t)'
    <3>1. CASE t = c
      <4>1. got[t] \o resChan[t] \o hand[t] \o channel[t] \o Handed(t)
              = got[t] \o (resChan[t] \o hand[t]) \o << >> \o channel[t] \o Handed(t)
        <5> DEFINE read == got[t]
                   unread == resChan[t]
                   handed == hand[t]
        <5>1. read \in Seq(Kinds) /\ unread \in Seq(Kinds) /\ handed \in Seq(Kinds)
          BY Types
        <5> HIDE DEF read, unread, handed, Inv
        <5>2. (read \o unread) \o handed = (read \o (unread \o handed)) \o << >>
          BY <5>1, PiecePassedOn
        <5> QED
          BY <5>2 DEF read, unread, handed
      <4>2. /\ resChan'[t] = resChan[t] \o hand[t] /\ hand'[t] = << >>
            /\ Handed(t)' = Handed(t)
        BY <2>1, <3>1, Types DEF Handed
      <4> QED
        BY <2>1, <4>1, <4>2 DEF OnTheWay
    <3>2. CASE t # c
      BY <2>1, <3>2, Types DEF OnTheWay, Handed
    <3> QED
      BY <3>1, <3>2
  <2> QED
    BY <2>3, <2>4, <2>5
<1>3. CASE Consume(c)
  <2>1. /\ got' = [got EXCEPT ![c] = Append(@, Head(resChan[c]))]
        /\ resChan' = [resChan EXCEPT ![c] = Tail(@)] /\ resChan[c] # << >>
        /\ UNCHANGED <<clientVars, dispVars, pc, hpc, channel, hand, abandoned, metricVars>>
    BY <1>3 DEF Consume
  <2>2. /\ Head(resChan[c]) \in Kinds /\ Tail(resChan[c]) \in Seq(Kinds)
        /\ Len(Tail(resChan[c])) <= Size
        /\ Append(got[c], Head(resChan[c])) \in Seq(Kinds)
    BY <2>1, Types, HeadTailProperties, AppendProperties, ClientDispatchAssumption DEF TypeOK
  <2>3. TypeOK'
    <3>1. got' \in [Targets -> Seq(Kinds)] /\ resChan' \in [Targets -> Seq(Kinds)]
      BY <2>1, <2>2, Types
    <3>2. \A t \in Targets : Len(channel'[t]) <= Size /\ Len(resChan'[t]) <= Size
      BY <2>1, <2>2, Types DEF TypeOK
    <3>3. /\ UNCHANGED <<channel, hand, accepted, hpc, disp, arrived, count>>
          /\ UNCHANGED <<client, subs, closed, writing, entries, abandoned, observed>>
      BY <2>1
    <3>4. /\ pc' \in [Targets -> PcStates] /\ hpc' \in [Targets -> HpcStates]
          /\ disp \in [to : Targets, kind : Kinds] \cup {None}
          /\ arrived \in [Targets -> Nat]
          /\ writing \in {"none"} \cup Locking /\ entries \subseteq Targets
      BY <2>1 DEF TypeOK, PcStates, HpcStates
    <3> QED
      BY <3>1, <3>2, <3>3, <3>4, Types, TypesStay
  <2>4. Placed'
    <3>1. \A t \in Targets : t # c => resChan'[t] = resChan[t]
      BY <2>1, Types
    <3>2. \A t \in Streams : t # c /\ t \in Targets
      BY <1>0 DEF Targets
    <3> QED
      BY <2>1, <3>1, <3>2 DEF Placed
  <2>5. ASSUME NEW t \in Targets
        PROVE  OnTheWay(t)'
    <3>1. CASE t = c
      <4>1. got[t] \o resChan[t] \o hand[t] \o channel[t] \o Handed(t)
              = Append(got[t], Head(resChan[t])) \o Tail(resChan[t]) \o hand[t]
                  \o channel[t] \o Handed(t)
        <5> DEFINE read == got[t]
                   unread == resChan[t]
        <5>1. read \in Seq(Kinds) /\ unread \in Seq(Kinds) /\ unread # << >>
          BY <2>1, <3>1, Types
        <5> HIDE DEF read, unread, Inv
        <5>2. read \o unread = Append(read, Head(unread)) \o Tail(unread)
          BY <5>1, PieceRead
        <5> QED
          BY <5>2 DEF read, unread
      <4>2. /\ got'[t] = Append(got[t], Head(resChan[t])) /\ resChan'[t] = Tail(resChan[t])
            /\ Handed(t)' = Handed(t)
        BY <2>1, <3>1, Types DEF Handed
      <4> QED
        BY <2>1, <4>1, <4>2 DEF OnTheWay
    <3>2. CASE t # c
      BY <2>1, <3>2, Types DEF OnTheWay, Handed
    <3> QED
      BY <3>1, <3>2
  <2> QED
    BY <2>3, <2>4, <2>5
<1> QED
  BY <1>1, <1>2, <1>3

\* runClientStream handles a message.
LEMMA StreamStep ==
    ASSUME Inv, NEW c \in Targets, HandleStream(c)
    PROVE  Inv'
<1> USE DEF Inv, clientVars, dispVars, callVars, metricVars
<1>1. /\ got' = [got EXCEPT ![c] = Append(@, Head(channel[c]))]
      /\ channel' = [channel EXCEPT ![c] = Tail(@)] /\ channel[c] # << >>
      /\ UNCHANGED <<clientVars, disp, arrived, accepted, hand, resChan, abandoned, metricVars>>
      /\ \/ pc[c] = "open" /\ pc' = [pc EXCEPT ![c] = "failed"]
         \/ pc' = pc
      /\ c \in Streams /\ hpc[c] = "select"
      /\ hpc' = [hpc EXCEPT ![c] = "acking"] \/ hpc' = hpc
      /\ entries' \in {entries, entries \ {c}}
  BY Zenon DEF HandleStream
<1>2. hand[c] = << >> /\ resChan[c] = << >>
  BY DEF HandleStream, Placed
<1>3. /\ Head(channel[c]) \in Kinds /\ Tail(channel[c]) \in Seq(Kinds)
      /\ Len(Tail(channel[c])) <= Size
      /\ Append(got[c], Head(channel[c])) \in Seq(Kinds)
  BY <1>1, Types, HeadTailProperties, AppendProperties, ClientDispatchAssumption DEF TypeOK
<1>4. TypeOK'
  <2>1. channel' \in [Targets -> Seq(Kinds)] /\ got' \in [Targets -> Seq(Kinds)]
    BY <1>1, <1>3, Types
  <2>2. \A t \in Targets : Len(channel'[t]) <= Size /\ Len(resChan'[t]) <= Size
    BY <1>1, <1>3, Types DEF TypeOK
  <2>3. pc' \in [Targets -> PcStates] /\ hpc' \in [Targets -> HpcStates]
    BY <1>1 DEF TypeOK, PcStates, HpcStates
  <2>4. entries' \subseteq Targets
    BY <1>1 DEF TypeOK
  <2> QED
    BY <1>1, <2>1, <2>2, <2>3, <2>4, Types, TypesStay DEF TypeOK
<1>5. Placed'
  <2>1. /\ DOMAIN pc = Targets /\ DOMAIN hpc = Targets
        /\ UNCHANGED <<client, subs, hand, resChan>>
    BY <1>1 DEF TypeOK
  <2>2. \A t \in Targets : /\ t # c => hpc'[t] = hpc[t] /\ pc'[t] = pc[t]
                           /\ hpc'[t] = "recv" <=> hpc[t] = "recv"
                           /\ pc'[t] = "idle" => pc[t] = "idle"
    BY <1>1, <2>1
  <2>3. pc[c] # "idle"
    BY <1>1 DEF Placed
  <2> QED
    BY <2>1, <2>2, <2>3 DEF Placed, Targets
<1>6. ASSUME NEW t \in Targets
      PROVE  OnTheWay(t)'
  <2>1. CASE t = c
    <3>1. got[t] \o << >> \o << >> \o channel[t] \o Handed(t)
            = Append(got[t], Head(channel[t])) \o << >> \o << >> \o Tail(channel[t])
                \o Handed(t)
      <4>1. Append(got[t], Head(channel[t])) \in Seq(Kinds)
        BY <1>3, <2>1
      <4>2. /\ got[t] \o << >> \o << >> = got[t]
            /\ Append(got[t], Head(channel[t])) \o << >> \o << >>
                 = Append(got[t], Head(channel[t]))
        <5>1. \A q \in Seq(Kinds) : q \o << >> \o << >> = q
          BY ConcatEmptySeq
        <5>2. got[t] \in Seq(Kinds)
          BY Types
        <5> QED
          BY <4>1, <5>1, <5>2
      <4>3. got[t] \o channel[t] = Append(got[t], Head(channel[t])) \o Tail(channel[t])
        <5>1. got[t] \in Seq(Kinds) /\ channel[t] \in Seq(Kinds) /\ channel[t] # << >>
          BY <1>1, <2>1, Types
        <5> HIDE DEF Inv
        <5> QED
          BY <5>1, PieceRead, Zenon
      <4> QED
        BY <4>2, <4>3
    <3>2. /\ got'[t] = Append(got[t], Head(channel[t])) /\ channel'[t] = Tail(channel[t])
          /\ Handed(t)' = Handed(t)
      BY <1>1, <2>1, Types DEF Handed
    <3> QED
      BY <1>1, <1>2, <2>1, <3>1, <3>2 DEF OnTheWay
  <2>2. CASE t # c
    BY <1>1, <2>2, Types DEF OnTheWay, Handed
  <2> QED
    BY <2>1, <2>2
<1> QED
  BY <1>4, <1>5, <1>6

\* The other steps move no response.
LEMMA CallStep ==
    ASSUME Inv, NEW c \in Targets,
           \/ RequestMulti(c) \/ Publish(c) \/ Expire(c) \/ Abandon(c)
           \/ OpenStream(c) \/ Acknowledge(c) \/ CloseStream(c) \/ CloseEnds(c)
           \/ CancelStream(c) \/ LeaveLoop(c) \/ EndStream(c)
    PROVE  Inv'
<1> USE DEF Inv, clientVars, dispVars, callVars, metricVars
<1>1. UNCHANGED <<clientVars, disp, accepted, arrived, got, resChan, hand, channel, count>>
  BY Zenon DEF RequestMulti, Publish, Expire, Abandon, OpenStream, Acknowledge, CloseStream,
         CloseEnds, CancelStream, LeaveLoop, EndStream
<1>2. /\ pc' \in [Targets -> PcStates]
      /\ hpc' \in [Targets -> HpcStates]
      /\ entries' \subseteq Targets /\ abandoned' \subseteq Targets
      /\ observed' \in [Calls -> [Kinds -> Nat]]
  <2>1. pc' = pc \/ \E to \in PcStates : pc' = [pc EXCEPT ![c] = to]
    BY DEF PcStates, RequestMulti, Publish, Expire, Abandon, OpenStream, Acknowledge, CloseStream,
         CloseEnds, CancelStream, LeaveLoop, EndStream
  <2>2. hpc' = hpc \/ \E to \in HpcStates : hpc' = [hpc EXCEPT ![c] = to]
    BY DEF HpcStates, RequestMulti, Publish, Expire, Abandon, OpenStream, Acknowledge, CloseStream,
         CloseEnds, CancelStream, LeaveLoop, EndStream
  <2>3. entries' \subseteq Targets /\ abandoned' \subseteq Targets
    BY DEF TypeOK, RequestMulti, Publish, Expire, Abandon, OpenStream, Acknowledge, CloseStream,
         CloseEnds, CancelStream, LeaveLoop, EndStream
  <2>4. observed' = observed \/ (c \in Calls /\ observed' = [observed EXCEPT ![c] = count[c]])
    BY Zenon DEF RequestMulti, Publish, Expire, Abandon, OpenStream, Acknowledge, CloseStream,
         CloseEnds, CancelStream, LeaveLoop, EndStream
  <2>5. pc \in [Targets -> PcStates] /\ hpc \in [Targets -> HpcStates]
    BY DEF TypeOK, PcStates, HpcStates
  <2>6. pc' \in [Targets -> PcStates] /\ hpc' \in [Targets -> HpcStates]
    BY <2>1, <2>2, <2>5
  <2>7. observed' \in [Calls -> [Kinds -> Nat]]
    BY <2>4, Types
  <2> QED
    BY <2>3, <2>6, <2>7
<1>3. TypeOK'
  BY <1>1, <1>2, Types DEF TypeOK, PcStates, HpcStates
<1>4. \A t \in Targets : hpc'[t] = "recv" <=> hpc[t] = "recv"
  BY DEF TypeOK, Placed, RequestMulti, Publish, Expire, Abandon, OpenStream, Acknowledge, CloseStream,
         CloseEnds, CancelStream, LeaveLoop, EndStream
<1>5. \A t \in Targets : pc'[t] = "idle" => hpc'[t] = "none"
  BY DEF TypeOK, Placed, RequestMulti, Publish, Expire, Abandon, OpenStream, Acknowledge, CloseStream,
         CloseEnds, CancelStream, LeaveLoop, EndStream
<1>6. Placed'
  BY <1>1, <1>4, <1>5 DEF Placed, Targets
<1> QED
  BY <1>1, <1>3, <1>6, Elsewhere

----------------------------------------------------------------------------
\* Theorems.

\* The inductive invariant holds throughout.
THEOREM Inductive == Spec => []Inv
<1>1. Init => Inv
  <2> SUFFICES ASSUME Init PROVE Inv
    OBVIOUS
  <2>1. << >> \in Seq(Kinds) /\ << >> \in Seq(ToSet(Channels)) /\ Len(<< >>) = 0
    BY EmptySeq
  <2>2. Nothing \in [Kinds -> Nat] /\ Len(Channels) = 3
    BY DEF Nothing, Channels
  <2>3. TypeOK
    <3>1. /\ \A f \in {channel, hand, resChan, accepted, got} : f \in [Targets -> Seq(Kinds)]
          /\ \A t \in Targets : Len(channel[t]) <= Size /\ Len(resChan[t]) <= Size
      BY <2>1, ClientDispatchAssumption DEF Init
    <3>2. /\ \A f \in {count, observed} : f \in [Calls -> [Kinds -> Nat]]
          /\ arrived \in [Targets -> Nat] /\ abandoned \subseteq Targets
      BY <2>2, ClientDispatchAssumption DEF Init
    <3> QED
      BY <2>1, <3>1, <3>2 DEF Init, TypeOK
  <2>4. Placed
    BY <2>1, <2>2 DEF Init, Placed, Targets
  <2>5. \A t \in Targets : OnTheWay(t)
    BY <2>1, ConcatEmptySeq DEF Init, OnTheWay, Handed
  <2> QED
    BY <2>3, <2>4, <2>5 DEF Inv
<1>2. Inv /\ [Next]_vars => Inv'
  <2> SUFFICES ASSUME Inv, [Next]_vars PROVE Inv'
    OBVIOUS
  <2>1. CASE UNCHANGED vars
    <3>1. \A t \in Targets : OnTheWay(t)'
      BY <2>1, Elsewhere DEF vars, clientVars, dispVars, callVars, metricVars
    <3> QED
      BY <2>1, <3>1 DEF vars, clientVars, dispVars, callVars, metricVars, Inv, TypeOK, Placed
  <2>2. CASE Next
    BY <2>2, ClientStep, DispatcherStep, ResponseStep, StreamStep, CallStep DEF Next, Progress
  <2> QED
    BY <2>1, <2>2
<1> QED
  BY <1>1, <1>2, PTL DEF Spec

\* Every message for which the dispatcher found an entry reaches the caller, or the
\* stream, in the order of the bus, none dropped or doubled.
THEOREM OrderKept == Spec => []InOrder
<1>1. Inv => InOrder
  BY DEF Inv, OnTheWay, Handed, InOrder
<1> QED
  BY <1>1, Inductive, PTL

----------------------------------------------------------------------------
\* What the metrics interceptor counts.

\* The responses to c that went through the interceptors.
Counting(c) == (got[c] \o resChan[c]) \o hand[c]

\* It has counted those, by kind, and the observer is told once the last one is in the
\* caller's channel.
Tallied ==
    \A c \in Calls :
       /\ \A kind \in Kinds : count[c][kind] = Occurrences(Counting(c), kind)
       /\ hpc[c] = "closed" => observed[c] = count[c]

\* An element that is appended occurs once more.
LEMMA OccursOnceMore ==
    ASSUME NEW q \in Seq(Kinds), NEW e \in Kinds, NEW kind \in Kinds
    PROVE  /\ Occurrences(q, kind) \in Nat
           /\ Occurrences(Append(q, e), kind)
                = Occurrences(q, kind) + (IF e = kind THEN 1 ELSE 0)
<1> DEFINE At(s) == {i \in DOMAIN s : s[i] = kind}
           n == Len(q)
           r == Append(q, e)
<1>1. /\ n \in Nat /\ DOMAIN q = 1..n /\ DOMAIN r = 1..(n + 1)
      /\ \A i \in 1..n : r[i] = q[i]
      /\ r[n + 1] = e
  BY AppendProperties, LenProperties
<1>2. IsFiniteSet(At(q))
  <2>1. IsFiniteSet(1..n) /\ At(q) \in SUBSET (1..n)
    BY <1>1, FS_Interval
  <2> QED
    BY <2>1, FS_Subset
<1>3. Cardinality(At(q)) \in Nat
  BY <1>2, FS_CardinalityType
<1>4. At(r) = IF e = kind THEN At(q) \cup {n + 1} ELSE At(q)
  <2> HIDE DEF n, r
  <2>1. \A i : i \in 1..(n + 1) <=> i \in 1..n \/ i = n + 1
    BY <1>1
  <2> QED
    BY <1>1, <2>1
<1>5. n + 1 \notin At(q)
  <2> HIDE DEF n
  <2> QED
    BY <1>1
<1>6. CASE e = kind
  <2>1. Cardinality(At(q) \cup {n + 1}) = Cardinality(At(q)) + 1
    BY <1>2, <1>5, FS_AddElement
  <2> QED
    BY <1>3, <1>4, <1>6, <2>1 DEF Occurrences
<1>7. CASE e # kind
  <2>1. At(r) = At(q)
    BY <1>4, <1>7
  <2>2. /\ Occurrences(q, kind) = Cardinality(At(q))
        /\ Occurrences(r, kind) = Cardinality(At(r))
    BY DEF Occurrences
  <2> HIDE DEF At
  <2> QED
    BY <1>3, <1>7, <2>1, <2>2
<1> QED
  BY <1>6, <1>7

\* Of nothing there is no occurrence.
LEMMA OccursNowhere ==
    ASSUME NEW kind
    PROVE  Occurrences(<< >>, kind) = 0
<1>1. {i \in DOMAIN << >> : << >>[i] = kind} = {}
  BY EmptySeq
<1> QED
  BY <1>1, FS_EmptySet DEF Occurrences

\* A response that is taken is counted; what passes it on moves it along; what tells the
\* observer tells what was counted; nothing else touches the counts.
LEMMA TalliedStep ==
    ASSUME Inv, Tallied, [Next]_vars, NEW c \in Calls
    PROVE  /\ \A kind \in Kinds : count'[c][kind] = Occurrences(Counting(c)', kind)
           /\ hpc'[c] = "closed" => observed'[c] = count'[c]
<1> USE DEF clientVars, dispVars, callVars, metricVars
<1> DEFINE Goal == /\ \A kind \in Kinds : count'[c][kind] = Occurrences(Counting(c)', kind)
                   /\ hpc'[c] = "closed" => observed'[c] = count'[c]
<1>0. /\ TypeOK /\ Placed /\ c \in Targets
      /\ got[c] \in Seq(Kinds) /\ resChan[c] \in Seq(Kinds) /\ hand[c] \in Seq(Kinds)
      /\ channel[c] \in Seq(Kinds) /\ got[c] \o resChan[c] \in Seq(Kinds)
      /\ c \notin Streams
  BY Types, ConcatProperties, ClientDispatchAssumption DEF Inv, Targets
<1>1. ASSUME UNCHANGED <<got[c], resChan[c], hand[c], count[c], observed[c]>>,
             hpc'[c] = "closed" => hpc[c] = "closed"
      PROVE  Goal
  BY <1>1 DEF Tallied, Counting
<1>2. ASSUME Counting(c)' = Counting(c), UNCHANGED <<count, observed>>,
             hpc'[c] = "closed" => hpc[c] = "closed"
      PROVE  Goal
  BY <1>2 DEF Tallied
<1>3. CASE Receive(c)
  <2>1. /\ hand' = [hand EXCEPT ![c] = <<Head(channel[c])>>] /\ hand[c] = << >>
        /\ count' = [count EXCEPT ![c] = Counted(c, Head(channel[c]))]
        /\ hpc' = [hpc EXCEPT ![c] = "recv"] /\ Head(channel[c]) \in Kinds
        /\ UNCHANGED <<got, resChan>>
    BY <1>0, <1>3, HeadTailProperties DEF Receive, Placed
  <2>2. PICK before, e : before = got[c] \o resChan[c] /\ e = Head(channel[c])
    OBVIOUS
  <2>3. before \in Seq(Kinds) /\ e \in Kinds
    BY <1>0, <2>1, <2>2
  <2>4. Counting(c) = before /\ Counting(c)' = Append(before, e)
    <3>1. hand'[c] = <<e>>
      BY <1>0, <2>1, <2>2, Types
    <3>2. before \o << >> = before /\ before \o <<e>> = Append(before, e)
      BY <2>3, ConcatEmptySeq, AppendIsConcat
    <3> QED
      BY <2>1, <2>2, <3>1, <3>2 DEF Counting
  <2>5. ASSUME NEW kind \in Kinds
        PROVE  count'[c][kind] = Occurrences(Counting(c)', kind)
    <3>1. count'[c][kind] = count[c][kind] + (IF e = kind THEN 1 ELSE 0)
      <4>1. count[c] \in [Kinds -> Nat] /\ count \in [Calls -> [Kinds -> Nat]]
        BY <1>0, Types
      <4>2. count'[c] = [count[c] EXCEPT ![e] = @ + 1]
        BY <2>1, <2>2, <4>1 DEF Counted
      <4> QED
        BY <2>3, <4>1, <4>2
    <3>2. Occurrences(Append(before, e), kind)
            = Occurrences(before, kind) + (IF e = kind THEN 1 ELSE 0)
      BY <2>3, OccursOnceMore
    <3>3. count[c][kind] = Occurrences(before, kind)
      BY <2>4 DEF Tallied
    <3> QED
      BY <2>4, <3>1, <3>2, <3>3
  <2>6. hpc'[c] # "closed"
    BY <1>0, <2>1 DEF TypeOK
  <2> QED
    BY <2>5, <2>6
<1>4. CASE Recv(c)
  <2>1. /\ resChan'[c] = resChan[c] \o hand[c] /\ hand'[c] = << >> /\ hpc'[c] = "select"
        /\ UNCHANGED <<got, count, observed>>
    BY <1>0, <1>4, Types DEF Recv, TypeOK
  <2>2. (got[c] \o resChan[c]) \o hand[c] = (got[c] \o (resChan[c] \o hand[c])) \o << >>
    <3>1. PICK a, b, d : a = got[c] /\ b = resChan[c] /\ d = hand[c]
      OBVIOUS
    <3>2. a \in Seq(Kinds) /\ b \in Seq(Kinds) /\ d \in Seq(Kinds)
      BY <1>0, <3>1
    <3> HIDE DEF Inv
    <3>3. (a \o b) \o d = (a \o (b \o d)) \o << >>
      BY <3>2, PiecePassedOn
    <3> QED
      BY <3>1, <3>3
  <2>3. Counting(c)' = Counting(c)
    BY <1>0, <2>1, <2>2 DEF Counting
  <2> QED
    BY <1>2, <2>1, <2>3
<1>5. CASE Consume(c)
  <2>1. /\ got'[c] = Append(got[c], Head(resChan[c])) /\ resChan'[c] = Tail(resChan[c])
        /\ resChan[c] # << >> /\ UNCHANGED <<hand, hpc, count, observed>>
    BY <1>0, <1>5, Types DEF Consume
  <2>2. got[c] \o resChan[c] = Append(got[c], Head(resChan[c])) \o Tail(resChan[c])
    BY <1>0, <2>1, PieceRead
  <2>3. Counting(c)' = Counting(c)
    BY <2>1, <2>2 DEF Counting
  <2> QED
    BY <1>2, <2>1, <2>3
<1>6. CASE Expire(c)
  <2>1. observed'[c] = count[c] /\ UNCHANGED <<got, resChan, hand, count>>
    BY <1>0, <1>6, Types DEF Expire
  <2> QED
    BY <2>1 DEF Tallied, Counting
<1>7. CASE \/ Build \/ Close \/ Stop \/ CloseNext \/ Read \/ HandOver \/ UNCHANGED vars
           \/ \E sub \in Locking : Overflow(sub)
  <2>1. UNCHANGED <<got, resChan, hand, count, observed, hpc>>
    BY <1>7, Zenon DEF Build, Close, Stop, CloseNext, Read, Overflow, HandOver, vars
  <2> QED
    BY <1>1, <2>1
\* What another call or stream does is not about c ...
<1>8. ASSUME NEW t \in Targets, t # c,
             Receive(t) \/ Recv(t) \/ Expire(t) \/ Consume(t) \/ HandleStream(t)
      PROVE  Goal
  <2>1. /\ UNCHANGED <<got[c], resChan[c], hand[c], hpc[c]>>
        /\ UNCHANGED <<count[c], observed[c]>>
    <3>1. UNCHANGED <<got[c], resChan[c], hand[c]>>
      BY <1>0, <1>8, Types DEF Receive, Recv, Expire, Consume, HandleStream
    <3>2. UNCHANGED hpc[c]
      BY <1>0, <1>8 DEF Receive, Recv, Expire, Consume, HandleStream, TypeOK
    <3>3. UNCHANGED <<count[c], observed[c]>>
      BY <1>0, <1>8, Types DEF Receive, Recv, Expire, Consume, HandleStream
    <3> QED
      BY <3>1, <3>2, <3>3
  <2> QED
    BY <1>1, <2>1
\* ... and the rest moves no response and closes no multi-call.
<1>9. ASSUME NEW t \in Targets,
             \/ Publish(t) \/ RequestMulti(t) \/ Abandon(t) \/ Dispatch(t) \/ OpenStream(t)
             \/ Acknowledge(t) \/ CloseStream(t) \/ CloseEnds(t) \/ CancelStream(t)
             \/ LeaveLoop(t) \/ EndStream(t)
      PROVE  Goal
  <2>1. UNCHANGED <<got, resChan, hand, count, observed>>
    BY <1>9, Zenon DEF Publish, RequestMulti, Abandon, Dispatch, OpenStream, Acknowledge,
           CloseStream, CloseEnds, CancelStream, LeaveLoop, EndStream
  <2>2. hpc'[c] = "closed" => hpc[c] = "closed"
    BY <1>0, <1>9 DEF Publish, RequestMulti, Abandon, Dispatch, OpenStream, Acknowledge,
           CloseStream, CloseEnds, CancelStream, LeaveLoop, EndStream, TypeOK
  <2> QED
    BY <1>1, <2>1, <2>2
<1>10. ~ HandleStream(c)
  BY <1>0 DEF HandleStream
<1> QED
  BY <1>3, <1>4, <1>5, <1>6, <1>7, <1>8, <1>9, <1>10 DEF Next, Progress

\* When the channel of a multi-call is closed the observer has been told, of answers and
\* of errors each, as many as the caller has read and still finds in it.
THEOREM CountsTrue == Spec => []MetricsTrue
<1>1. Init => Tallied
  <2> SUFFICES ASSUME Init PROVE Tallied
    OBVIOUS
  <2>1. \A c \in Calls : Counting(c) = << >> /\ hpc[c] = "none"
    BY EmptySeq, ConcatEmptySeq DEF Init, Counting, Targets
  <2>2. \A c \in Calls, kind \in Kinds : count[c][kind] = 0
    BY DEF Init, Nothing
  <2> QED
    BY <2>1, <2>2, OccursNowhere DEF Tallied
<1>2. Inv /\ Tallied /\ [Next]_vars => Tallied'
  BY TalliedStep DEF Tallied
<1>3. Inv /\ Tallied => MetricsTrue
  <2> SUFFICES ASSUME Inv, Tallied, NEW c \in Calls, hpc[c] = "closed", NEW kind \in Kinds
               PROVE  observed[c][kind] = Occurrences(got[c] \o resChan[c], kind)
    BY DEF MetricsTrue
  <2>1. hand[c] = << >>
    BY DEF Inv, Placed, Targets
  <2>2. Counting(c) = got[c] \o resChan[c]
    BY <2>1, Types, ConcatProperties, ConcatEmptySeq DEF Inv, Counting, Targets
  <2> QED
    BY <2>2 DEF Tallied
<1> QED
  BY <1>1, <1>2, <1>3, Inductive, PTL DEF Spec

----------------------------------------------------------------------------
\* Coming to rest.

\* A call has an entry while handleResponses runs for it, and a stream while its
\* goroutine does, or a Close of it elsewhere; who has a goroutine was once published, or is
\* about to be.
StageOf(t) ==
    /\ t \in Calls => /\ hpc[t] \notin {"acking", "closing"}
                      /\ hpc[t] # "none" => pc[t] \in {"sending", "open", "failed"}
                      /\ t \in entries => hpc[t] \in {"select", "recv"}
    /\ t \in Streams => /\ t \in entries => hpc[t] # "none"
                        /\ t \in entries => \/ hpc[t] \in {"select", "acking", "closing"}
                                           \/ pc[t] = "closing"
                        /\ pc[t] = "failed" => t \notin entries \/ hpc[t] = "closing"

\* Nothing comes for t before it was published.
NotBefore(t) ==
    pc[t] \in {"idle", "sending"} =>
        /\ channel[t] = << >> /\ hpc[t] # "recv"
        /\ disp # None => disp.to # t

\* A client that failed to be built, or stopped, has no subscription that the bus could
\* write to; and the dispatcher has messages only for those that have, or had, a goroutine.
Stages ==
    /\ client \in {"failed", "stopped"} => subs = << >> /\ writing = "none"
    /\ disp # None => hpc[disp.to] # "none"
    /\ \A t \in Targets : StageOf(t) /\ NotBefore(t)

\* A step of the call, or the stream, t.
TargetNext(t) ==
    \/ Publish(t) \/ Receive(t) \/ Recv(t) \/ Expire(t) \/ Consume(t) \/ HandleStream(t)
    \/ Acknowledge(t) \/ CloseEnds(t) \/ LeaveLoop(t) \/ EndStream(t)
    \/ RequestMulti(t) \/ Abandon(t) \/ OpenStream(t) \/ CloseStream(t) \/ CancelStream(t)

\* A step of t moves pc[t], hpc[t], its channel and its entry as follows, and nobody else's.
LEMMA TargetMoves ==
    ASSUME NEW t, TargetNext(t)
    PROVE  /\ UNCHANGED <<client, subs, writing, disp>>
           /\ pc' = pc \/ \E to : pc' = [pc EXCEPT ![t] = to]
           /\ hpc' = hpc \/ \E to : hpc' = [hpc EXCEPT ![t] = to]
           /\ channel' = channel \/ channel' = [channel EXCEPT ![t] = Tail(@)]
           /\ entries' \subseteq entries \cup {t}
<1>1. CASE \/ Receive(t) \/ Recv(t) \/ Consume(t) \/ Abandon(t) \/ CancelStream(t)
           \/ Publish(t) \/ LeaveLoop(t) \/ Acknowledge(t) \/ CloseStream(t)
  <2>1. /\ UNCHANGED <<client, subs, writing, disp, entries>>
        /\ channel' = channel \/ channel' = [channel EXCEPT ![t] = Tail(@)]
    BY <1>1, Zenon DEF Receive, Recv, Consume, Abandon, CancelStream, Publish, LeaveLoop,
                       Acknowledge, CloseStream, clientVars, dispVars
  <2>2. pc' = pc \/ \E to : pc' = [pc EXCEPT ![t] = to]
    BY <1>1, Zenon DEF Receive, Recv, Consume, Abandon, CancelStream, Publish, LeaveLoop,
                       Acknowledge, CloseStream
  <2>3. hpc' = hpc \/ \E to : hpc' = [hpc EXCEPT ![t] = to]
    BY <1>1, Zenon DEF Receive, Recv, Consume, Abandon, CancelStream, Publish, LeaveLoop,
                       Acknowledge, CloseStream
  <2> QED
    BY <2>1, <2>2, <2>3
<1>2. CASE \/ HandleStream(t) \/ Expire(t) \/ EndStream(t) \/ CloseEnds(t)
           \/ RequestMulti(t) \/ OpenStream(t)
  <2>1. /\ UNCHANGED <<client, subs, writing, disp>>
        /\ channel' = channel \/ channel' = [channel EXCEPT ![t] = Tail(@)]
        /\ entries' \in {entries, entries \ {t}, entries \cup {t}}
    BY <1>2, Zenon DEF HandleStream, Expire, EndStream, CloseEnds, RequestMulti, OpenStream,
                       clientVars
  <2>2. pc' = pc \/ \E to : pc' = [pc EXCEPT ![t] = to]
    BY <1>2, Zenon DEF HandleStream, Expire, EndStream, CloseEnds, RequestMulti, OpenStream
  <2>3. hpc' = hpc \/ \E to : hpc' = [hpc EXCEPT ![t] = to]
    BY <1>2, Zenon DEF HandleStream, Expire, EndStream, CloseEnds, RequestMulti, OpenStream
  <2> QED
    BY <2>1, <2>2, <2>3
<1> QED
  BY <1>1, <1>2 DEF TargetNext

\* Where a step of a call takes it.
LEMMA CallMoves ==
    ASSUME TypeOK, Placed, NEW t \in Calls, TargetNext(t), StageOf(t), NotBefore(t)
    PROVE  StageOf(t)' /\ NotBefore(t)' /\ (hpc[t] # "none" => hpc'[t] # "none")
<1>0. t \in DOMAIN pc /\ t \in DOMAIN hpc /\ t \notin Streams
  BY ClientDispatchAssumption DEF TypeOK, Targets
<1>1. pc[t] = "idle" => hpc[t] = "none"
  BY DEF Placed, Targets
<1>2. UNCHANGED disp
  BY TargetMoves
<1> HIDE DEF TypeOK, Placed
<1>3. CASE Receive(t)
  <2>1. /\ pc' = pc /\ entries' = entries /\ channel[t] # << >>
        /\ hpc[t] = "select" /\ hpc' = [hpc EXCEPT ![t] = "recv"]
    BY <1>3, Zenon DEF Receive, dispVars
  <2> QED
    BY <1>0, <2>1 DEF StageOf, NotBefore
<1>4. CASE Recv(t) \/ Consume(t) \/ Abandon(t)
  <2>1. /\ pc' = pc /\ entries' = entries /\ channel' = channel
        /\ \/ hpc' = hpc
           \/ hpc[t] = "recv" /\ hpc' = [hpc EXCEPT ![t] = "select"]
    BY <1>4, Zenon DEF Recv, Consume, Abandon, dispVars
  <2> QED
    BY <1>0, <1>2, <2>1 DEF StageOf, NotBefore
<1>5. CASE Publish(t)
  <2>1. /\ hpc' = hpc /\ entries' = entries
        /\ \E end \in {"open", "failed"} : pc' = [pc EXCEPT ![t] = end]
    BY <1>5 DEF Publish, dispVars
  <2> QED
    BY <1>0, <2>1 DEF StageOf, NotBefore
<1>6. CASE Expire(t)
  <2>1. /\ pc' = pc /\ entries' = entries \ {t} /\ hpc[t] = "select" /\ channel' = channel
        /\ hpc' = [hpc EXCEPT ![t] = "closed"]
    BY <1>6, Zenon DEF Expire
  <2> QED
    BY <1>0, <1>2, <2>1 DEF StageOf, NotBefore
<1>7. CASE RequestMulti(t)
  <2>1. /\ pc[t] = "idle" /\ channel' = channel
        /\ \/ /\ pc' = [pc EXCEPT ![t] = "refused"] /\ UNCHANGED <<entries, hpc>>
           \/ /\ pc' = [pc EXCEPT ![t] = "sending"] /\ entries' = entries \cup {t}
              /\ hpc' = [hpc EXCEPT ![t] = "select"]
    BY <1>7, Zenon DEF RequestMulti
  <2> QED
    BY <1>0, <1>1, <1>2, <2>1 DEF StageOf, NotBefore
<1> QED
  BY <1>0, <1>3, <1>4, <1>5, <1>6, <1>7
     DEF TargetNext, HandleStream, Acknowledge, CloseEnds, LeaveLoop, EndStream, OpenStream,
         CloseStream, CancelStream

\* Where a step of a stream takes it.
LEMMA StreamMoves ==
    ASSUME TypeOK, Placed, NEW t \in Streams, TargetNext(t), StageOf(t), NotBefore(t)
    PROVE  StageOf(t)' /\ NotBefore(t)' /\ (hpc[t] # "none" => hpc'[t] # "none")
<1>0. t \in DOMAIN pc /\ t \in DOMAIN hpc /\ t \in DOMAIN channel /\ t \notin Calls
  BY ClientDispatchAssumption DEF TypeOK, Targets
<1>1. UNCHANGED disp /\ hpc[t] # "recv"
  BY TargetMoves DEF Placed
<1> HIDE DEF TypeOK, Placed
<1>2. CASE HandleStream(t)
  <2>1. /\ hpc[t] = "select" /\ channel[t] # << >>
        /\ \/ UNCHANGED <<pc, hpc, entries>>
           \/ hpc' = [hpc EXCEPT ![t] = "acking"] /\ UNCHANGED <<pc, entries>>
           \/ pc' = [pc EXCEPT ![t] = "failed"] /\ entries' = entries \ {t} /\ UNCHANGED hpc
    BY <1>2, Zenon DEF HandleStream
  <2> QED
    BY <1>0, <2>1 DEF StageOf, NotBefore
<1>3. CASE OpenStream(t)
  <2>1. /\ hpc' = [hpc EXCEPT ![t] = "select"] /\ channel' = channel /\ pc[t] = "idle"
        /\ pc' = [pc EXCEPT ![t] = "sending"]
    BY <1>3, Zenon DEF OpenStream
  <2> QED
    BY <1>0, <1>1, <2>1 DEF StageOf, NotBefore
<1>4. CASE Publish(t)
  <2>1. /\ UNCHANGED <<hpc, entries, channel>> /\ pc[t] = "sending"
        /\ \/ \E end \in {"open", "closing"} : pc' = [pc EXCEPT ![t] = end]
           \/ pc' = [pc EXCEPT ![t] = "failed"] /\ hpc[t] \in {"closing", "closed"}
    BY <1>0, <1>4 DEF Publish, dispVars
  <2> QED
    BY <1>0, <1>1, <2>1 DEF StageOf, NotBefore
<1>5. CASE LeaveLoop(t)
  <2>1. /\ UNCHANGED <<pc, entries, channel>> /\ hpc[t] = "select"
        /\ \/ hpc' = [hpc EXCEPT ![t] = "closing"]
           \/ hpc' = [hpc EXCEPT ![t] = "closed"] /\ pc[t] \in {"closing", "failed"}
    BY <1>5 DEF LeaveLoop, dispVars
  <2> QED
    BY <1>0, <1>1, <2>1 DEF StageOf, NotBefore
<1>6. CASE EndStream(t)
  <2>1. /\ UNCHANGED <<pc, channel>> /\ entries' = entries \ {t}
        /\ hpc' = [hpc EXCEPT ![t] = "closed"]
    BY <1>6, Zenon DEF EndStream
  <2> QED
    BY <1>0, <1>1, <2>1 DEF StageOf, NotBefore
<1>7. CASE CloseStream(t) \/ Acknowledge(t) \/ CancelStream(t)
  <2>1. /\ UNCHANGED <<entries, channel>>
        /\ \/ UNCHANGED <<pc, hpc>>
           \/ UNCHANGED hpc /\ pc' = [pc EXCEPT ![t] = "closing"]
           \/ UNCHANGED pc /\ hpc[t] = "acking" /\ hpc' = [hpc EXCEPT ![t] = "select"]
    BY <1>7, Zenon DEF CloseStream, Acknowledge, CancelStream, dispVars
  <2> QED
    BY <1>0, <1>1, <2>1 DEF StageOf, NotBefore
<1>8. CASE CloseEnds(t)
  <2>1. /\ UNCHANGED <<hpc, channel>> /\ entries' = entries \ {t}
        /\ pc' = [pc EXCEPT ![t] = "failed"]
    BY <1>8, Zenon DEF CloseEnds
  <2> QED
    BY <1>0, <1>1, <2>1 DEF StageOf, NotBefore
<1> QED
  BY <1>0, <1>2, <1>3, <1>4, <1>5, <1>6, <1>7, <1>8
     DEF TargetNext, Receive, Recv, Expire, Consume, RequestMulti, Abandon

\* The bus has nothing to write to where there is no subscription.
LEMMA ClientMoves ==
    ASSUME TypeOK, Placed, Stages,
           Build \/ Close \/ Stop \/ CloseNext \/ Read \/ \E sub \in Locking : Overflow(sub)
    PROVE  client' \in {"failed", "stopped"} => subs' = << >> /\ writing' = "none"
<1>1. CASE Build
  <2>1. client = "building" /\ writing' = "none"
    BY <1>1 DEF Build
  <2>2. CASE Fails /\ UNCHANGED subs
    BY <2>1, <2>2 DEF Fails
  <2> QED
    BY <1>1, <2>1, <2>2 DEF Build
<1>2. CASE CloseNext
  <2>1. PICK q : q = subs
    OBVIOUS
  <2>2. q \in Seq(ToSet(Channels)) /\ q # << >>
    BY <1>2, <2>1 DEF CloseNext, TypeOK, Placed
  <2>3. Len(q) \in Nat /\ Tail(q) \in Seq(ToSet(Channels)) /\ Len(Tail(q)) = Len(q) - 1
        /\ Len(q) > 0
    BY <2>2, HeadTailProperties, EmptySeq, LenProperties
  <2>4. ~ (Len(q) > 1) => Tail(q) = << >>
    <3>1. PICK rest : rest = Tail(q)
      OBVIOUS
    <3> QED
      BY <2>3, <3>1, EmptySeq
  <2>5. /\ client' = IF Len(subs) > 1 THEN client
                     ELSE IF client = "closing" THEN "stopped" ELSE "failed"
        /\ subs' = Tail(subs) /\ writing' = "none" /\ client \in {"closing", "failing"}
    BY <1>2 DEF CloseNext
  <2> QED
    BY <2>1, <2>4, <2>5
<1>3. CASE Stop \/ Close \/ Read
  BY <1>3 DEF Stop, Close, Read, Stages
<1>4. CASE \E sub \in Locking : Overflow(sub)
  <2>1. PICK sub \in Locking : Overflow(sub)
    BY <1>4
  <2>2. sub \in Open /\ client' = client
    BY <2>1 DEF Overflow
  <2>3. ToSet(<< >>) = {}
    BY EmptySeq DEF ToSet
  <2> QED
    BY <2>2, <2>3 DEF Open, Stages
<1> QED
  BY <1>1, <1>2, <1>3, <1>4

\* Each step keeps Stages.
LEMMA StagesStep ==
    ASSUME TypeOK, Placed, Stages, [Next]_vars
    PROVE  Stages'
<1> USE DEF clientVars, dispVars, callVars
<1>1. CASE \E t \in Targets : TargetNext(t)
  <2>1. PICK t \in Targets : TargetNext(t)
    BY <1>1
  <2>2. StageOf(t)' /\ NotBefore(t)' /\ (hpc[t] # "none" => hpc'[t] # "none")
    BY <2>1, CallMoves, StreamMoves DEF Stages, Targets
  <2>3. /\ UNCHANGED <<client, subs, writing, disp>> /\ entries' \subseteq entries \cup {t}
        /\ \A u \in Targets \ {t} : UNCHANGED <<pc[u], hpc[u], channel[u]>>
    <3>1. DOMAIN pc = Targets /\ DOMAIN hpc = Targets /\ DOMAIN channel = Targets
      BY DEF TypeOK
    <3>2. pc' = pc \/ \E to : pc' = [pc EXCEPT ![t] = to]
      BY <2>1, TargetMoves
    <3>3. hpc' = hpc \/ \E to : hpc' = [hpc EXCEPT ![t] = to]
      BY <2>1, TargetMoves
    <3>4. channel' = channel \/ channel' = [channel EXCEPT ![t] = Tail(@)]
      BY <2>1, TargetMoves
    <3>5. UNCHANGED <<client, subs, writing, disp>> /\ entries' \subseteq entries \cup {t}
      BY <2>1, TargetMoves
    <3> QED
      BY <3>1, <3>2, <3>3, <3>4, <3>5
  <2>4. \A u \in Targets \ {t} : StageOf(u)' /\ NotBefore(u)'
    BY <2>3 DEF Stages, StageOf, NotBefore
  <2>5. disp # None => disp.to \in Targets
    BY DEF TypeOK
  <2> QED
    BY <2>2, <2>3, <2>4, <2>5 DEF Stages
<1>2. CASE \E t \in Targets : Dispatch(t)
  <2>1. PICK t \in Targets : Dispatch(t)
    BY <1>2
  <2>2. /\ UNCHANGED <<client, subs, pc, hpc, entries, channel>> /\ client = "open"
        /\ disp' = disp \/ (t \in entries /\ \E kind : disp' = [to |-> t, kind |-> kind])
        /\ pc[t] \in {"open", "closing", "failed"}
    BY <2>1, Zenon DEF Dispatch, Published
  <2>3. t \in entries => hpc[t] # "none"
    BY <2>2 DEF Stages, StageOf, Targets
  <2>4. disp' # None => disp' = disp \/ (disp'.to = t /\ t \in entries)
    BY <2>2
  <2>5. \A u \in Targets : NotBefore(u)'
    BY <2>2, <2>4 DEF Stages, NotBefore
  <2>6. \A u \in Targets : StageOf(u)'
    BY <2>2 DEF Stages, StageOf
  <2> QED
    BY <2>2, <2>3, <2>4, <2>5, <2>6 DEF Stages
<1>3. CASE \/ Build \/ Close \/ Stop \/ CloseNext \/ Read
           \/ \E sub \in Locking : Overflow(sub)
  <2>1. UNCHANGED <<disp, pc, hpc, entries, channel>>
    BY <1>3, Zenon DEF Build, Close, Stop, CloseNext, Read, Overflow
  <2>2. client' \in {"failed", "stopped"} => subs' = << >> /\ writing' = "none"
    BY <1>3, ClientMoves
  <2> QED
    BY <2>1, <2>2 DEF Stages, StageOf, NotBefore
<1>4. CASE HandOver
  <2>1. /\ UNCHANGED <<client, subs, writing, pc, hpc, entries>> /\ disp' = None /\ disp # None
        /\ channel' = [channel EXCEPT ![disp.to] = Append(@, disp.kind)]
    BY <1>4, Zenon DEF HandOver
  <2>2. \A t \in Targets : t # disp.to => channel'[t] = channel[t]
    BY <2>1 DEF TypeOK
  <2>3. \A t \in Targets : NotBefore(t)'
    BY <2>1, <2>2 DEF Stages, NotBefore
  <2>4. \A t \in Targets : StageOf(t)'
    BY <2>1 DEF Stages, StageOf
  <2> QED
    BY <2>1, <2>3, <2>4 DEF Stages
<1>5. CASE UNCHANGED vars
  BY <1>5 DEF vars, Stages, StageOf, NotBefore
<1> QED
  BY <1>1, <1>2, <1>3, <1>4, <1>5 DEF Next, Progress, TargetNext

\* When no guard holds, what has not returned is kept from it by a channel that nobody
\* reads, or by the bus that waits for the client.
LEMMA RestsThen ==
    ASSUME TypeOK, Placed, Stages, ~ CanGoOn
    PROVE  AtRest
<1>1. \A c \in Calls : /\ hpc[c] # "select"
                       /\ pc[c] = "sending" => writing # "none"
                       /\ hpc[c] = "recv" => ~ (Len(resChan[c]) < Size)
                       /\ pc[c] = "open" /\ c \notin abandoned => resChan[c] = << >>
  BY DEF CanGoOn
<1>2. \A t \in Streams : /\ hpc[t] = "select" => ~ Ended(t) /\ channel[t] = << >>
                         /\ pc[t] \in {"sending", "closing"} => writing # "none"
                         /\ hpc[t] \in {"acking", "closing"} => writing # "none"
  BY DEF CanGoOn
<1>3. /\ client \in {"building", "failing", "closing"} => writing # "none"
      /\ client = "open" /\ (closed \/ writing # "none") => disp # None
      /\ disp # None => ~ (Len(channel[disp.to]) < Size)
  BY DEF CanGoOn
<1>4. Size \in Nat \ {0} /\ Len(<< >>) = 0
  BY ClientDispatchAssumption, EmptySeq
<1>5. ASSUME NEW c \in Calls, hpc[c] = "recv" PROVE Unread(c) /\ Len(resChan[c]) = Size
  <2>1. PICK q : q = resChan[c]
    OBVIOUS
  <2>2. q \in Seq(Kinds) /\ Len(q) <= Size
    BY <2>1, Types DEF TypeOK, Targets
  <2>3. Len(q) = Size
    BY <1>1, <1>4, <1>5, <2>1, <2>2, LenProperties
  <2>4. q # << >>
    BY <1>4, <2>3
  <2>5. pc[c] \in {"open", "failed"}
    BY <1>5 DEF Stages, StageOf, NotBefore, Targets
  <2> QED
    BY <1>1, <2>1, <2>3, <2>4, <2>5 DEF Unread
<1>6. ASSUME NEW c \in Calls PROVE \/ hpc[c] \in {"none", "closed"} /\ c \notin entries
                                   \/ hpc[c] = "recv" /\ Unread(c) /\ Len(resChan[c]) = Size
  <2>1. hpc[c] \in {"none", "select", "recv", "acking", "closing", "closed"}
    BY DEF TypeOK, Targets
  <2> QED
    BY <1>1, <1>5, <2>1 DEF Stages, StageOf, Targets
<1>7. ASSUME disp # None
      PROVE  disp.to \in Targets /\ Len(channel[disp.to]) = Size
  <2>1. PICK t, q : t = disp.to /\ q = channel[t]
    OBVIOUS
  <2>2. t \in Targets /\ q \in Seq(Kinds) /\ Len(q) <= Size /\ ~ (Len(q) < Size)
    BY <1>3, <1>7, <2>1, Types DEF TypeOK
  <2> QED
    BY <1>4, <2>1, <2>2, LenProperties
<1>8. writing # "none" => Wedged
  <2>1. client \in {"building", "failing", "failed", "open", "closing", "stopped"}
    BY DEF TypeOK
  <2> QED
    BY <1>3, <1>7, <2>1 DEF Wedged, Stages
<1>9. ASSUME disp # None, writing = "none" PROVE Stuck(disp.to)
  <2>1. PICK t : t = disp.to
    OBVIOUS
  <2>2. t \in Targets /\ Len(channel[t]) = Size /\ channel[t] # << >>
    BY <1>4, <1>7, <1>9, <2>1
  <2>3. hpc[t] # "none" /\ hpc[t] \in {"none", "select", "recv", "acking", "closing", "closed"}
    BY <1>9, <2>1, <2>2 DEF Stages, TypeOK
  <2>4. CASE t \in Calls
    BY <1>1, <1>5, <1>9, <2>1, <2>2, <2>3, <2>4 DEF Stuck, Stages, StageOf, Targets
  <2>5. CASE t \in Streams
    BY <1>2, <1>9, <2>1, <2>2, <2>3, <2>5 DEF Stuck, Placed
  <2> QED
    BY <2>2, <2>4, <2>5 DEF Targets
<1>10. ASSUME writing = "none", NEW t \in Streams, Ended(t) \/ hpc[t] = "closed"
       PROVE  t \notin entries
  BY <1>2, <1>10 DEF Stages, StageOf, Targets
<1>11. ASSUME writing = "none", closed \/ client = "failed", subs # << >>
       PROVE  \E t \in Targets : Stuck(t)
  <2>1. client \in {"building", "failing", "failed", "open", "closing", "stopped"}
    BY DEF TypeOK
  <2>2. disp # None
    BY <1>3, <1>11, <2>1 DEF Stages
  <2> QED
    BY <1>7, <1>9, <1>11, <2>2
<1>12. ASSUME writing = "none", NEW t \in Targets PROVE pc[t] # "sending"
  BY <1>1, <1>2, <1>12 DEF Targets
<1> QED
  BY <1>6, <1>8, <1>9, <1>10, <1>11, <1>12 DEF AtRest

\* Left alone, the client keeps no call, stream or subscription that was closed or timed
\* out, but for those that a channel nobody reads holds up; unless the bus, with its lock
\* held, waits for the client to read, and the client for the bus.
THEOREM ComesToRest == Spec => []AtRest
<1>1. Init => Stages
  BY DEF Init, Stages, StageOf, NotBefore, Targets
<1>2. Inv /\ Stages /\ [Next]_vars => Stages'
  BY StagesStep DEF Inv
<1>3. Inv /\ Stages => AtRest
  BY RestsThen DEF Inv, AtRest
<1> QED
  BY <1>1, <1>2, <1>3, Inductive, PTL DEF Spec
=============================================================================
