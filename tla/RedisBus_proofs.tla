--------------------------- MODULE RedisBus_proofs ---------------------------
(***************************************************************************)
(* Theorems about RedisBus, for every set of channels, messages and        *)
(* subscribers, and any number of commands that fail.                      *)
(***************************************************************************)
EXTENDS RedisBus, TLAPS

ExecState == {"none", "checking", "draining", "ended"}
PublishState == {"idle", "calling", "enqueueing", "signalling", "returned"}
SubState == {"new", "open", "cancelled", "closed"}
Stage == {"waiting", "draining", "comparing", "subscribing", "unsubscribing", "merging"}
Work == [stage : Stage, subscribe : SUBSET Channels, unsubscribe : SUBSET Channels,
         failed : SUBSET Channels]
Op == {Reconcile} \cup {Exec(q) : q \in Messages}
Reading == [msg : Messages, targets : Seq(Subscribers) \ {<< >>}]

USE DEF ExecState, PublishState, SubState, Stage

\* An operation of the write worker is a reconciliation or the exec of one queue.
LEMMA OpIs ==
    /\ \A q \in Messages : Exec(q) # Reconcile /\ Exec(q).queue = q
    /\ \A o \in Op : o = Reconcile \/ (o.queue \in Messages /\ o = Exec(o.queue))
  BY DEF Op, Exec, Reconcile

\* The elements of a sequence that grew, and of one that lost its head.
LEMMA ElementsAppend ==
    ASSUME NEW T, NEW L \in Seq(T), NEW e
    PROVE  Elements(Append(L, e)) = Elements(L) \cup {e}
<1>1. /\ DOMAIN Append(L, e) = 1..Len(L) + 1 /\ DOMAIN L = 1..Len(L) /\ Len(L) \in Nat
      /\ \A i \in 1..Len(L) : Append(L, e)[i] = L[i]
      /\ Append(L, e)[Len(L) + 1] = e
  OBVIOUS
<1> QED
  BY <1>1 DEF Elements

\* A sequence has its head and what its tail has.
LEMMA ElementsTail ==
    ASSUME NEW T, NEW L \in Seq(T), L # << >>
    PROVE  Elements(L) = {Head(L)} \cup Elements(Tail(L))
<1>1. /\ DOMAIN Tail(L) = 1..Len(L) - 1 /\ DOMAIN L = 1..Len(L) /\ Len(L) \in Nat \ {0}
      /\ \A i \in 1..Len(L) - 1 : Tail(L)[i] = L[i + 1]
      /\ Head(L) = L[1]
  OBVIOUS
<1>2. \A i \in 1..Len(L) : i = 1 \/ (i - 1 \in 1..Len(L) - 1 /\ (i - 1) + 1 = i)
  BY <1>1
<1>3. \A i \in 1..Len(L) - 1 : i + 1 \in 1..Len(L)
  BY <1>1
<1>4. 1 \in 1..Len(L)
  BY <1>1
<1>5. Elements(L) \subseteq {Head(L)} \cup Elements(Tail(L))
  <2> SUFFICES ASSUME NEW i \in 1..Len(L) PROVE L[i] \in {Head(L)} \cup Elements(Tail(L))
    BY <1>1 DEF Elements
  <2>1. CASE i # 1
    <3>1. i - 1 \in DOMAIN Tail(L) /\ Tail(L)[i - 1] = L[i]
      BY <1>1, <1>2, <2>1
    <3> QED
      BY <3>1 DEF Elements
  <2> QED
    BY <1>1, <2>1
<1>6. {Head(L)} \cup Elements(Tail(L)) \subseteq Elements(L)
  BY <1>1, <1>3, <1>4 DEF Elements
<1> QED
  BY <1>5, <1>6

----------------------------------------------------------------------------
\* The lists of subscribers.

\* L lists the members of S, each once.
Lists(L, S) ==
    /\ Elements(L) = S
    /\ \A i, j \in DOMAIN L : L[i] = L[j] => i = j

\* A list with a new member lists it too.
LEMMA ListsAppend ==
    ASSUME NEW L \in Seq(Subscribers), NEW S, Lists(L, S), NEW s \in Subscribers \ S
    PROVE  Lists(Append(L, s), S \cup {s})
<1>1. /\ DOMAIN Append(L, s) = 1..Len(L) + 1 /\ DOMAIN L = 1..Len(L) /\ Len(L) \in Nat
      /\ \A i \in 1..Len(L) : Append(L, s)[i] = L[i]
      /\ Append(L, s)[Len(L) + 1] = s
  OBVIOUS
<1>2. Elements(Append(L, s)) = S \cup {s}
  BY ElementsAppend DEF Lists
<1>3. \A i \in 1..Len(L) : L[i] # s
  BY <1>1 DEF Lists, Elements
<1>4. \A i, j \in 1..Len(L) + 1 : Append(L, s)[i] = Append(L, s)[j] => i = j
  <2>1. \A i \in 1..Len(L) + 1 : i \in 1..Len(L) \/ i = Len(L) + 1
    BY <1>1
  <2> QED
    BY <1>1, <1>3, <2>1 DEF Lists
<1> QED
  BY <1>1, <1>2, <1>4 DEF Lists

\* A list without a member lists the others.
LEMMA ListsWithout ==
    ASSUME NEW L \in Seq(Subscribers), NEW S, Lists(L, S), NEW s \in S
    PROVE  /\ Without(L, s) \in Seq(Subscribers)
           /\ Lists(Without(L, s), S \ {s})
<1> DEFINE k == CHOOSE i \in DOMAIN L : L[i] = s
           n == Len(L) - 1
           from(j) == IF j < k THEN j ELSE j + 1
<1>1. k \in DOMAIN L /\ L[k] = s
  BY DEF Lists, Elements
<1>2. DOMAIN L = 1..Len(L) /\ Len(L) \in Nat
  OBVIOUS
<1>3. n \in Nat /\ Len(L) = n + 1 /\ k \in 1..n + 1
  BY <1>1, <1>2
<1> HIDE DEF k, n
<1>4. \A j \in 1..n : from(j) \in 1..n + 1 /\ from(j) # k
  BY <1>3
<1>5. \A i, j \in 1..n : from(i) = from(j) => i = j
  BY <1>3
<1>6. \A i \in 1..n + 1 : i # k => \E j \in 1..n : from(j) = i
  <2> SUFFICES ASSUME NEW i \in 1..n + 1, i # k PROVE \E j \in 1..n : from(j) = i
    OBVIOUS
  <2>1. CASE i < k
    <3>1. i \in 1..n /\ from(i) = i
      BY <1>3, <2>1
    <3> QED
      BY <3>1
  <2>2. CASE i > k
    <3>1. i - 1 \in 1..n /\ from(i - 1) = i
      BY <1>3, <2>2
    <3> QED
      BY <3>1
  <2> QED
    BY <1>3, <2>1, <2>2
<1> HIDE DEF from
<1>7. Without(L, s) = [j \in 1..n |-> L[from(j)]]
  BY DEF Without, k, n, from
<1>8. \A j \in 1..n : L[from(j)] \in Subscribers
  BY <1>2, <1>3, <1>4
<1>9. Without(L, s) \in Seq(Subscribers)
  BY <1>3, <1>7, <1>8
<1>10. Elements(Without(L, s)) = {L[from(j)] : j \in 1..n}
  BY <1>7 DEF Elements
<1>11. {L[from(j)] : j \in 1..n} = S \ {s}
  <2>1. S = {L[i] : i \in 1..n + 1}
    BY <1>2, <1>3 DEF Lists, Elements
  <2>2. \A i \in 1..n + 1 : L[i] = s <=> i = k
    BY <1>1, <1>2, <1>3 DEF Lists
  <2> QED
    BY <1>4, <1>6, <2>1, <2>2
<1>12. \A i, j \in 1..n : L[from(i)] = L[from(j)] => i = j
  BY <1>2, <1>3, <1>4, <1>5 DEF Lists
<1> QED
  BY <1>7, <1>9, <1>10, <1>11, <1>12 DEF Lists

----------------------------------------------------------------------------
\* Types.  In all the proofs below the steps that leave alone what they are about are
\* dealt with together.

\* The types hold at the start.
LEMMA TypeInit == Init => TypeOK
<1> SUFFICES ASSUME Init PROVE TypeOK
  OBVIOUS
<1> USE RedisBusAssumption DEF Init
<1>1. /\ subs \in [Channels -> Seq(Subscribers)] /\ queues \in [Channels -> Seq(Subscribers)]
      /\ next \in [Channels -> Nat]
      /\ publishOps \in [Channels -> Messages \cup {None}]
      /\ accepted \in [Channels -> Seq(Messages)] /\ sent \in [Channels -> Seq(Messages)]
  OBVIOUS
<1>2. /\ queued \in [Messages -> Seq(Messages)] /\ exec \in [Messages -> ExecState]
      /\ ppc \in [Messages -> PublishState]
      /\ spc \in [Subscribers -> SubState] /\ msgChan \in [Subscribers -> Seq(Messages)]
  OBVIOUS
<1>3. worker \in Work
  BY DEF Work, Working
<1>4. ops \in Seq(Op) /\ inbound \in Seq(Messages) /\ failures \in 0..Failures
  OBVIOUS
<1> QED
  BY <1>1, <1>2, <1>3, <1>4 DEF TypeOK, Work, Op

\* A list that somebody left is a list.
LEMMA WithoutType ==
    ASSUME NEW L \in Seq(Subscribers), NEW s
    PROVE  Without(L, s) \in Seq(Subscribers)
<1> DEFINE k == CHOOSE i \in DOMAIN L : L[i] = s
           n == Len(L) - 1
           from(j) == IF j < k THEN j ELSE j + 1
<1>1. Len(L) \in Nat /\ DOMAIN L = 1..Len(L)
  OBVIOUS
<1> HIDE DEF k
<1>2. \A j \in 1..n : L[from(j)] \in Subscribers
  BY <1>1
<1>3. [j \in 1..n |-> L[from(j)]] \in Seq(Subscribers)
  <2>1. CASE n \in Nat
    BY <1>2, <2>1
  <2>2. CASE n \notin Nat
    <3>1. n = 0 - 1 /\ 1..n = 1..0
      BY <1>1, <2>2
    <3> HIDE DEF n, from
    <3>2. \A j \in 1..0 : L[from(j)] \in Subscribers
      BY <1>2, <3>1
    <3>3. [j \in 1..0 |-> L[from(j)]] \in Seq(Subscribers)
      BY <3>2
    <3> QED
      BY <3>1, <3>3
  <2> QED
    BY <2>1, <2>2
<1> QED
  BY <1>3 DEF Without, k

\* What readWorker delivers has a type, and somebody to write to.
LEMMA DeliveryType ==
    ASSUME TypeOK, NEW m \in Messages
    PROVE  /\ Delivery(m) \in {None} \cup Reading
           /\ Turn(Channel[m]) \in Nat
           /\ Elements(Targets(Channel[m])) \subseteq
                 Elements(subs[Channel[m]]) \cup Elements(queues[Channel[m]])
<1> DEFINE c == Channel[m]
           L == subs[c]
           Q == queues[c]
           t == Turn(c)
<1>1. c \in Channels /\ L \in Seq(Subscribers) /\ Q \in Seq(Subscribers) /\ next[c] \in Nat
  BY RedisBusAssumption DEF TypeOK
<1>2. t \in Nat /\ (Q # << >> => t + 1 \in 1..Len(Q))
  <2>1. Len(Q) \in Nat /\ (Q # << >> => Len(Q) > 0)
    BY <1>1
  <2> QED
    BY <1>1, <2>1 DEF Turn
<1> HIDE DEF c, L, Q, t
<1>3. CASE Q = << >>
  <2>1. Targets(Channel[m]) = L \o << >>
    BY <1>3 DEF Targets, c, L, Q
  <2>2. L \o << >> = L
    BY <1>1
  <2> QED
    BY <1>1, <1>2, <2>1, <2>2 DEF Delivery, Reading, c, L, t
<1>4. CASE Q # << >>
  <2> DEFINE s == Q[t + 1]
  <2>1. Targets(Channel[m]) = L \o <<s>>
    BY <1>4 DEF Targets, c, L, Q, t
  <2>2. s \in Subscribers /\ s \in Elements(Q)
    BY <1>1, <1>2, <1>4 DEF Elements
  <2> HIDE DEF s
  <2>3. L \o <<s>> = Append(L, s) /\ Append(L, s) \in Seq(Subscribers) /\ Append(L, s) # << >>
    BY <1>1, <2>2
  <2>4. Elements(Append(L, s)) = Elements(L) \cup {s}
    BY <1>1, ElementsAppend
  <2> QED
    BY <1>1, <1>2, <2>1, <2>2, <2>3, <2>4 DEF Delivery, Reading, c, L, Q, t
<1> QED
  BY <1>3, <1>4

\* The types of what the subscribers change.
LEMMA SubscriberType ==
    ASSUME TypeOK, NEW s \in Subscribers,
           Subscribe(s) \/ Cancel(s) \/ Unsubscribe(s) \/ Consume(s)
    PROVE  TypeOK'
<1> USE RedisBusAssumption
    DEF TypeOK, listVars, publishVars, workerVars, redisVars, subVars
<1>1. On[s] \in Channels
  OBVIOUS
<1>2. ASSUME NEW c \in Channels, ReconcileSubscriptions(c)
      PROVE  /\ dirtyChannels' \subseteq Channels /\ wakeup' \in BOOLEAN
             /\ ops' \in Seq({Reconcile} \cup {Exec(q) : q \in Messages})
  BY <1>2 DEF ReconcileSubscriptions
<1>3. CASE Subscribe(s)
  <2>1. /\ dirtyChannels' \subseteq Channels /\ wakeup' \in BOOLEAN
        /\ ops' \in Seq({Reconcile} \cup {Exec(q) : q \in Messages})
    <3>1. CASE ReconcileSubscriptions(On[s])
      BY <1>1, <1>2, <3>1
    <3>2. CASE UNCHANGED <<dirtyChannels, ops, wakeup>>
      BY <3>2
    <3> QED
      BY <1>3, <3>1, <3>2 DEF Subscribe
  <2>2. \A L \in Seq(Subscribers) : Append(L, s) \in Seq(Subscribers)
    OBVIOUS
  <2>3. subs' \in [Channels -> Seq(Subscribers)] /\ queues' \in [Channels -> Seq(Subscribers)]
    <3>1. /\ Append(subs[On[s]], s) \in Seq(Subscribers)
          /\ Append(queues[On[s]], s) \in Seq(Subscribers)
      BY <1>1, <2>2
    <3>2. /\ [subs EXCEPT ![On[s]] = Append(@, s)] \in [Channels -> Seq(Subscribers)]
          /\ [queues EXCEPT ![On[s]] = Append(@, s)] \in [Channels -> Seq(Subscribers)]
      BY <1>1, <3>1
    <3> QED
      BY <1>3, <3>2 DEF Subscribe
  <2>4. spc' \in [Subscribers -> SubState]
    BY <1>3 DEF Subscribe
  <2>5. UNCHANGED <<reading, next, publishVars, exec, workerVars, redisVars, msgChan, ppc>>
    BY <1>3 DEF Subscribe
  <2> QED
    BY <2>1, <2>3, <2>4, <2>5
<1>4. CASE Cancel(s)
  BY <1>4 DEF Cancel
<1>5. CASE Unsubscribe(s)
  <2>1. /\ dirtyChannels' \subseteq Channels /\ wakeup' \in BOOLEAN
        /\ ops' \in Seq({Reconcile} \cup {Exec(q) : q \in Messages})
        /\ next' \in [Channels -> Nat]
    <3>1. CASE /\ ReconcileSubscriptions(On[s])
               /\ next' = [next EXCEPT ![On[s]] = IF Queue[s] THEN 0 ELSE @]
      <4>1. next' \in [Channels -> Nat]
        BY <1>1, <3>1
      <4> QED
        BY <1>1, <1>2, <3>1, <4>1
    <3>2. CASE UNCHANGED <<dirtyChannels, ops, wakeup, next>>
      BY <3>2
    <3> QED
      BY <1>5, <3>1, <3>2 DEF Unsubscribe, Leave
  <2>2. \A L \in Seq(Subscribers) : Without(L, s) \in Seq(Subscribers)
    BY WithoutType
  <2>3. subs' \in [Channels -> Seq(Subscribers)] /\ queues' \in [Channels -> Seq(Subscribers)]
    <3>1. /\ Without(subs[On[s]], s) \in Seq(Subscribers)
          /\ Without(queues[On[s]], s) \in Seq(Subscribers)
      BY <1>1, <2>2
    <3>2. /\ [subs EXCEPT ![On[s]] = Without(@, s)] \in [Channels -> Seq(Subscribers)]
          /\ [queues EXCEPT ![On[s]] = Without(@, s)] \in [Channels -> Seq(Subscribers)]
      BY <1>1, <3>1
    <3> QED
      BY <1>5, <3>2 DEF Unsubscribe, Leave
  <2>4. msgChan' \in [Subscribers -> Seq(Messages)] /\ spc' \in [Subscribers -> SubState]
    <3>1. << >> \in Seq(Messages)
      OBVIOUS
    <3>2. /\ msgChan' = [msgChan EXCEPT ![s] = << >>]
          /\ spc' = [spc EXCEPT ![s] = "closed"]
      BY <1>5 DEF Unsubscribe, Leave
    <3>3. [msgChan EXCEPT ![s] = << >>] \in [Subscribers -> Seq(Messages)]
      BY <3>1
    <3> QED
      BY <3>2, <3>3
  <2>5. UNCHANGED <<reading, publishVars, exec, workerVars, redisVars, ppc>>
    BY <1>5 DEF Unsubscribe, Leave
  <2> QED
    BY <2>1, <2>3, <2>4, <2>5
<1>6. CASE Consume(s)
  <2>1. msgChan' \in [Subscribers -> Seq(Messages)]
    BY <1>6 DEF Consume
  <2>2. ppc' \in [Messages -> PublishState]
    <3>1. ppc \in [Messages -> PublishState]
      OBVIOUS
    <3>2. UNCHANGED ppc \/ \E m \in Messages : ppc' = [ppc EXCEPT ![m] = "calling"]
      BY <1>6 DEF Consume
    <3> HIDE DEF TypeOK
    <3>3. ASSUME NEW m \in Messages, ppc' = [ppc EXCEPT ![m] = "calling"]
          PROVE  ppc' \in [Messages -> PublishState]
      BY <3>1, <3>3
    <3> QED
      BY <3>1, <3>2, <3>3
  <2>3. UNCHANGED <<reading, listVars, publishVars, exec, workerVars, redisVars, spc,
                    wakeup, ops>>
    BY <1>6 DEF Consume
  <2> QED
    BY <2>1, <2>2, <2>3
<1> QED
  BY <1>3, <1>4, <1>5, <1>6

\* The types of what Publish, its exec and the other processes change.
LEMMA PublisherType ==
    ASSUME TypeOK, NEW m \in Messages,
           Publish(m) \/ EnqueueExec(m) \/ ExecStep(m) \/ Deliver(m)
    PROVE  TypeOK'
<1> USE RedisBusAssumption
    DEF TypeOK, listVars, publishVars, workerVars, redisVars, subVars
<1>0. Channel[m] \in Channels
  OBVIOUS
<1>1. CASE Publish(m)
  <2> DEFINE c == Channel[m]
             q == IF publishOps[c] = None THEN m ELSE publishOps[c]
  <2>1. q \in Messages
    BY <1>0
  <2>2. /\ queued' = [queued EXCEPT ![q] = Append(@, m)]
        /\ publishOps' = [publishOps EXCEPT ![c] = q]
        /\ accepted' = [accepted EXCEPT ![c] = Append(@, m)]
        /\ ppc' = [ppc EXCEPT ![m] = IF q = m THEN "enqueueing" ELSE "returned"]
    BY <1>1 DEF Publish
  <2> HIDE DEF q
  <2>3. Append(queued[q], m) \in Seq(Messages) /\ Append(accepted[c], m) \in Seq(Messages)
    BY <1>0, <2>1
  <2>4. queued' \in [Messages -> Seq(Messages)] /\ accepted' \in [Channels -> Seq(Messages)]
    BY <2>2, <2>3
  <2>5. publishOps' \in [Channels -> Messages \cup {None}] /\ ppc' \in [Messages -> PublishState]
    BY <2>1, <2>2
  <2> QED
    BY <1>1, <2>4, <2>5 DEF Publish
<1>2. CASE EnqueueExec(m)
  <2>1. ops' \in Seq({Reconcile} \cup {Exec(q) : q \in Messages})
    <3>1. Append(ops, Exec(m)) \in Seq({Reconcile} \cup {Exec(q) : q \in Messages})
      OBVIOUS
    <3> QED
      BY <1>2, <3>1 DEF EnqueueExec
  <2>2. ppc' \in [Messages -> PublishState] /\ wakeup' \in BOOLEAN
    BY <1>2 DEF EnqueueExec
  <2>3. UNCHANGED <<reading, listVars, publishVars, exec, workerVars, redisVars, subVars>>
    BY <1>2 DEF EnqueueExec
  <2> QED
    BY <2>1, <2>2, <2>3
<1>3. CASE Check(m)
  BY <1>0, <1>3 DEF Check
<1>4. CASE Send(m)
  <2>1. Head(queued[m]) \in Messages /\ Tail(queued[m]) \in Seq(Messages)
    BY <1>4 DEF Send
  <2>2. queued' \in [Messages -> Seq(Messages)]
    BY <1>4, <2>1 DEF Send
  <2>3. sent' \in [Channels -> Seq(Messages)]
    <3>1. Append(sent[Channel[m]], Head(queued[m])) \in Seq(Messages)
      BY <1>0, <2>1
    <3>2. sent' = [sent EXCEPT ![Channel[m]] = Append(@, Head(queued[m]))]
      BY <1>4 DEF Send
    <3> QED
      BY <1>0, <3>1, <3>2
  <2>4. inbound' \in Seq(Messages) /\ failures' \in 0..Failures
    <3>1. Append(inbound, Head(queued[m])) \in Seq(Messages)
      BY <2>1
    <3>2. inbound' = Append(inbound, Head(queued[m])) \/ inbound' = inbound
      BY <1>4 DEF Send
    <3>3. inbound' \in Seq(Messages)
      BY <3>1, <3>2
    <3>4. failures' = failures \/ (failures > 0 /\ failures' = failures - 1)
      BY <1>4 DEF Send
    <3>5. failures' \in 0..Failures
      BY <3>4
    <3> QED
      BY <3>3, <3>5
  <2>5. UNCHANGED <<reading, listVars, publishOps, accepted, exec, workerVars, remote, doubted,
                    subVars, wakeup, ops, ppc>>
    BY <1>4 DEF Send
  <2> QED
    BY <2>2, <2>3, <2>4, <2>5
<1>5. CASE Drained(m)
  BY <1>5 DEF Drained
<1>6. CASE Deliver(m)
  BY <1>6 DEF Deliver
<1> QED
  BY <1>1, <1>2, <1>3, <1>4, <1>5, <1>6 DEF ExecStep

\* The types of what the two workers change.
LEMMA WorkerType ==
    ASSUME TypeOK, WorkerStep \/ Receive \/ Write
    PROVE  TypeOK'
<1> USE RedisBusAssumption
    DEF TypeOK, listVars, publishVars, workerVars, redisVars, subVars
<1>0. \A stage \in Stage : Working(stage) \in Work
  BY DEF Working, Work
<1>1. CASE Wake
  <2>1. worker' \in Work
    BY <1>0, <1>1 DEF Wake
  <2> QED
    BY <1>1, <2>1 DEF Wake, Work
<1>2. CASE Drain
  <2>1. worker' \in Work
    BY <1>0, <1>2 DEF Drain, Work
  <2>2. ops' \in Seq({Reconcile} \cup {Exec(q) : q \in Messages})
    <3>1. ops # << >> => Tail(ops) \in Seq({Reconcile} \cup {Exec(q) : q \in Messages})
      OBVIOUS
    <3> QED
      BY <1>2, <3>1 DEF Drain
  <2>3. exec' \in [Messages -> ExecState]
    BY <1>2 DEF Drain
  <2> QED
    BY <1>2, <2>1, <2>2, <2>3 DEF Drain, Work
<1>3. ASSUME NEW D \in SUBSET Channels, NEW C \in SUBSET Channels, Compare(D, C)
      PROVE  TypeOK'
  <2>1. worker' \in Work
    BY <1>0, <1>3 DEF Compare, Work
  <2> QED
    BY <1>3, <2>1 DEF Compare, Work
<1>4. CASE Reconciliation
  <2>1. dirtyChannels \in SUBSET Channels /\ currentChannels \in SUBSET Channels
    OBVIOUS
  <2> QED
    BY <1>3, <1>4, <2>1 DEF Reconciliation
<1>5. CASE Merge
  <2>1. /\ worker.subscribe \in SUBSET Channels /\ worker.unsubscribe \in SUBSET Channels
        /\ worker.failed \in SUBSET Channels
    OBVIOUS
  <2>2. /\ dirtyChannels \cup worker.failed \in SUBSET Channels
        /\ (currentChannels \cup (worker.subscribe \ worker.failed))
              \ (worker.unsubscribe \ worker.failed) \in SUBSET Channels
    BY <2>1
  <2>3. Compare(dirtyChannels \cup worker.failed,
                (currentChannels \cup (worker.subscribe \ worker.failed))
                   \ (worker.unsubscribe \ worker.failed))
    BY <1>5 DEF Merge
  <2> QED
    BY <1>3, <2>2, <2>3
<1>6. ASSUME NEW from, NEW to \in Stage, NEW C \in SUBSET Channels, NEW R \in SUBSET Channels,
             Command(from, to, C, R)
      PROVE  TypeOK'
  <2>1. worker' \in Work
    <3>1. /\ worker.subscribe \in SUBSET Channels /\ worker.unsubscribe \in SUBSET Channels
          /\ worker.failed \in SUBSET Channels
          /\ worker = [stage |-> worker.stage, subscribe |-> worker.subscribe,
                       unsubscribe |-> worker.unsubscribe, failed |-> worker.failed]
      OBVIOUS
    <3>2. /\ [worker EXCEPT !.stage = to] \in Work
          /\ [worker EXCEPT !.stage = to, !.failed = @ \cup C] \in Work
      BY <3>1 DEF Work
    <3> QED
      BY <1>6, <3>2 DEF Command
  <2>2. failures' \in 0..Failures
    BY <1>6 DEF Command
  <2> QED
    BY <1>6, <2>1, <2>2 DEF Command, Work
<1>7. CASE SubscribeInRedis
  <2>1. worker.subscribe \in SUBSET Channels /\ remote \cup worker.subscribe \in SUBSET Channels
    OBVIOUS
  <2> QED
    BY <1>6, <1>7, <2>1 DEF SubscribeInRedis
<1>8. CASE UnsubscribeInRedis
  <2>1. worker.unsubscribe \in SUBSET Channels /\ remote \ worker.unsubscribe \in SUBSET Channels
    OBVIOUS
  <2> QED
    BY <1>6, <1>8, <2>1 DEF UnsubscribeInRedis
<1>9. CASE Receive
  <2>1. Head(inbound) \in Messages /\ Tail(inbound) \in Seq(Messages)
    BY <1>9 DEF Receive
  <2>2. reading' \in {None} \cup Reading /\ Turn(Channel[Head(inbound)]) \in Nat
    BY <1>9, <2>1, DeliveryType DEF Receive
  <2>3. next' \in [Channels -> Nat]
    <3>1. Turn(Channel[Head(inbound)]) + 1 \in Nat
      BY <2>2
    <3> QED
      BY <1>9, <2>1, <3>1 DEF Receive
  <2> QED
    BY <1>9, <2>1, <2>2, <2>3 DEF Receive, Reading
<1>10. CASE Write
  <2>1. reading \in Reading
    BY <1>10 DEF Write, Reading
  <2>2. /\ Head(reading.targets) \in Subscribers /\ Tail(reading.targets) \in Seq(Subscribers)
        /\ reading.msg \in Messages
    BY <2>1 DEF Reading
  <2>3. reading' \in {None} \cup Reading
    BY <1>10, <2>1, <2>2 DEF Write, Reading
  <2>4. msgChan' \in [Subscribers -> Seq(Messages)]
    <3>1. Append(msgChan[Head(reading.targets)], reading.msg) \in Seq(Messages)
      BY <2>2
    <3> QED
      BY <1>10, <2>2, <3>1 DEF Write
  <2> QED
    BY <1>10, <2>3, <2>4 DEF Write, Reading
<1> QED
  BY <1>1, <1>2, <1>4, <1>5, <1>7, <1>8, <1>9, <1>10 DEF WorkerStep

\* Every variable keeps its type, and readWorker always has somebody to write to.
THEOREM TypeCorrect == Spec => []TypeOK
<1>1. TypeOK /\ [Next]_vars => TypeOK'
  <2> SUFFICES ASSUME TypeOK, [Next]_vars PROVE TypeOK'
    OBVIOUS
  <2>1. CASE UNCHANGED vars
    BY <2>1 DEF TypeOK, vars, listVars, publishVars, workerVars, redisVars, subVars
  <2>2. CASE Next
    BY <2>2, SubscriberType, PublisherType, WorkerType DEF Next
  <2> QED
    BY <2>1, <2>2
<1> QED
  BY <1>1, TypeInit, PTL DEF Spec

----------------------------------------------------------------------------
\* The queues of Publish.

\* x is in L at most once.
Once(L, x) == \A i, j \in DOMAIN L : L[i] = x /\ L[j] = x => i = j

\* What is appended stays unique when it was not there.
LEMMA OnceAppend ==
    ASSUME NEW T, NEW L \in Seq(T), NEW e, NEW x, Once(L, x), e = x => x \notin Elements(L)
    PROVE  Once(Append(L, e), x)
<1>1. /\ DOMAIN Append(L, e) = 1..Len(L) + 1 /\ DOMAIN L = 1..Len(L) /\ Len(L) \in Nat
      /\ \A i \in 1..Len(L) : Append(L, e)[i] = L[i]
      /\ Append(L, e)[Len(L) + 1] = e
  OBVIOUS
<1>2. \A i \in 1..Len(L) + 1 : i \in 1..Len(L) \/ i = Len(L) + 1
  BY <1>1
<1>3. e = x => \A i \in 1..Len(L) : L[i] # x
  BY <1>1 DEF Elements
<1> QED
  BY <1>1, <1>2, <1>3 DEF Once

\* The head is not in the tail when it is unique.
LEMMA OnceTail ==
    ASSUME NEW T, NEW L \in Seq(T), L # << >>, NEW x, Once(L, x)
    PROVE  /\ Once(Tail(L), x)
           /\ Head(L) = x => x \notin Elements(Tail(L))
<1>1. /\ DOMAIN Tail(L) = 1..Len(L) - 1 /\ DOMAIN L = 1..Len(L) /\ Len(L) \in Nat \ {0}
      /\ \A i \in 1..Len(L) - 1 : Tail(L)[i] = L[i + 1]
      /\ Head(L) = L[1]
  OBVIOUS
<1>2. \A i \in 1..Len(L) - 1 : i + 1 \in 1..Len(L) /\ i + 1 # 1
  BY <1>1
<1>3. 1 \in 1..Len(L)
  BY <1>1
<1>4. \A i, j \in 1..Len(L) - 1 : i + 1 = j + 1 => i = j
  BY <1>1
<1>5. Once(Tail(L), x)
  BY <1>1, <1>2, <1>4 DEF Once
<1>6. ASSUME Head(L) = x, x \in Elements(Tail(L)) PROVE FALSE
  <2>1. PICK i \in 1..Len(L) - 1 : Tail(L)[i] = x
    BY <1>1, <1>6 DEF Elements
  <2> QED
    BY <1>1, <1>2, <1>3, <1>6, <2>1 DEF Once
<1> QED
  BY <1>5, <1>6

\* To move the head of what waits to the end of what is done leaves their order alone.
LEMMA MoveHead ==
    ASSUME NEW T, NEW L \in Seq(T), NEW Q \in Seq(T), Q # << >>
    PROVE  Append(L, Head(Q)) \o Tail(Q) = L \o Q
  OBVIOUS

\* What joins the end of what waits joins the end of all.
LEMMA AppendAfter ==
    ASSUME NEW T, NEW L \in Seq(T), NEW Q \in Seq(T), NEW e \in T
    PROVE  L \o Append(Q, e) = Append(L \o Q, e)
  OBVIOUS

\* What something joined is not empty.
LEMMA AppendNonEmpty ==
    ASSUME NEW T, NEW L \in Seq(T), NEW e \in T
    PROVE  Append(L, e) # << >>
<1>1. Len(Append(L, e)) = Len(L) + 1 /\ Len(L) \in Nat /\ Len(<< >>) = 0
  OBVIOUS
<1> QED
  BY <1>1

\* The exec of q runs or is on its way.
Serving(q) ==
    ppc[q] = "enqueueing" \/ Exec(q) \in Elements(ops) \/ exec[q] \in {"checking", "draining"}

\* The map has a queue of c only under c.
Named == \A c \in Channels : publishOps[c] # None => Channel[publishOps[c]] = c

\* The map has a queue exactly while its exec runs or is on its way.
Served == \A q \in Messages : publishOps[Channel[q]] = q <=> Serving(q)

\* A message that has not been published has no queue, and its exec is enqueued once.
EnqueuedOnce ==
    \A q \in Messages :
       /\ ppc[q] \in {"idle", "calling"} => queued[q] = << >>
       /\ ppc[q] \in {"idle", "calling", "enqueueing"} =>
             Exec(q) \notin Elements(ops) /\ exec[q] = "none"
       /\ Exec(q) \in Elements(ops) => exec[q] = "none"
       /\ Once(ops, Exec(q))

Ordered == \A c \in Channels : sent[c] \o Pending(c) = accepted[c]

\* A channel's queue is found while its exec is to empty it, and no longer: the exec is
\* enqueued once, and what it has not sent is what Publish took and redis was not sent.
Queues == Named /\ Served /\ EnqueuedOnce /\ Ordered

\* The queues' invariants hold at the start, when there is no queue.
LEMMA QueuesInit == Init => Queues
<1> SUFFICES ASSUME Init PROVE Queues
  OBVIOUS
<1> USE RedisBusAssumption DEF Init
<1>1. Elements(ops) = {}
  BY DEF Elements
<1>2. Named /\ Served
  BY <1>1 DEF Named, Served, Serving
<1>3. EnqueuedOnce
  BY <1>1 DEF EnqueuedOnce, Once
<1>4. Ordered
  BY DEF Ordered, Pending
<1> QED
  BY <1>2, <1>3, <1>4 DEF Queues

\* The worker's queue when something that is not an exec joins it, or nothing does.
LEMMA OpsGrow ==
    ASSUME TypeOK, ops' = Append(ops, Reconcile) \/ UNCHANGED ops, NEW q \in Messages
    PROVE  /\ Exec(q) \in Elements(ops') <=> Exec(q) \in Elements(ops)
           /\ Once(ops, Exec(q)) => Once(ops', Exec(q))
<1>1. ops \in Seq(Op) /\ Exec(q) # Reconcile
  BY OpIs DEF TypeOK, Op
<1>2. CASE ops' = Append(ops, Reconcile)
  <2>1. Elements(ops') = Elements(ops) \cup {Reconcile}
    BY <1>1, <1>2, ElementsAppend
  <2>2. Once(ops, Exec(q)) => Once(ops', Exec(q))
    BY <1>1, <1>2, OnceAppend
  <2> QED
    BY <1>1, <2>1, <2>2
<1>3. CASE UNCHANGED ops
  BY <1>3
<1> QED
  BY <1>2, <1>3

\* Steps that leave the queues alone, though they may ask for a reconciliation.
LEMMA QueuesKept ==
    ASSUME TypeOK, Queues, UNCHANGED <<publishVars, exec, sent>>,
           ops' = Append(ops, Reconcile) \/ UNCHANGED ops,
           \A m \in Messages :
              \/ ppc'[m] = ppc[m]
              \/ ppc[m] = "idle" /\ ppc'[m] \in {"calling", "returned"}
              \/ ppc[m] = "signalling" /\ ppc'[m] = "returned"
    PROVE  Queues'
<1> USE DEF Queues, publishVars
<1>1. Named'
  BY DEF Named
<1>2. \A q \in Messages : Exec(q) \in Elements(ops') <=> Exec(q) \in Elements(ops)
  BY OpsGrow
<1>3. Served'
  BY <1>2 DEF Served, Serving, Exec
<1>4. EnqueuedOnce'
  <2> SUFFICES ASSUME NEW q \in Messages
               PROVE  (/\ ppc[q] \in {"idle", "calling"} => queued[q] = << >>
                       /\ ppc[q] \in {"idle", "calling", "enqueueing"} =>
                             Exec(q) \notin Elements(ops) /\ exec[q] = "none"
                       /\ Exec(q) \in Elements(ops) => exec[q] = "none"
                       /\ Once(ops, Exec(q)))'
    BY DEF EnqueuedOnce
  <2>1. Once(ops', Exec(q))
    BY OpsGrow DEF EnqueuedOnce
  <2> QED
    BY <1>2, <2>1 DEF EnqueuedOnce, Exec
<1>5. Ordered'
  BY DEF Ordered, Pending
<1> QED
  BY <1>1, <1>3, <1>4, <1>5

\* Publish appends to the queue it finds, or makes one that nobody has used.
LEMMA QueuesPublish ==
    ASSUME TypeOK, Queues, NEW m \in Messages, Publish(m)
    PROVE  Queues'
<1> DEFINE c == Channel[m]
           q == IF publishOps[c] = None THEN m ELSE publishOps[c]
<1>1. c \in Channels /\ q \in Messages /\ Channel[q] = c /\ q # None
  BY RedisBusAssumption DEF TypeOK, Queues, Named
<1>2. ppc[m] \in {"idle", "calling"} /\ ~ Serving(m) /\ publishOps[c] # m /\ queued[m] = << >>
  <2>1. ppc[m] \in {"idle", "calling"}
    BY DEF Publish, MayPublish
  <2>2. Exec(m) \notin Elements(ops) /\ exec[m] = "none" /\ queued[m] = << >>
    BY <2>1 DEF Queues, EnqueuedOnce
  <2>3. ~ Serving(m)
    BY <2>1, <2>2 DEF Serving
  <2> QED
    BY <2>1, <2>2, <2>3 DEF Queues, Served
<1>3. publishOps[c] = None <=> q = m
  BY <1>2
<1>4. /\ publishOps' = [publishOps EXCEPT ![c] = q]
      /\ queued' = [queued EXCEPT ![q] = Append(@, m)]
      /\ accepted' = [accepted EXCEPT ![c] = Append(@, m)]
      /\ ppc' = [ppc EXCEPT ![m] = IF q = m THEN "enqueueing" ELSE "returned"]
      /\ UNCHANGED <<exec, ops, sent>>
  BY DEF Publish, redisVars
<1>5. publishOps[c] = None \/ publishOps[c] = q
  OBVIOUS
<1> HIDE DEF q
<1>6. /\ \A d \in Channels : publishOps'[d] = IF d = c THEN q ELSE publishOps[d]
      /\ \A n \in Messages : queued'[n] = IF n = q THEN Append(queued[q], m) ELSE queued[n]
      /\ \A d \in Channels : accepted'[d] = IF d = c THEN Append(accepted[c], m) ELSE accepted[d]
      /\ \A n \in Messages : ppc'[n] = IF n # m THEN ppc[n]
                                       ELSE IF q = m THEN "enqueueing" ELSE "returned"
  BY <1>1, <1>4 DEF TypeOK
<1> HIDE DEF c
<1>7. Named'
  BY <1>1, <1>6 DEF Queues, Named
<1>8. Served'
  <2> SUFFICES ASSUME NEW n \in Messages
               PROVE  publishOps'[Channel[n]] = n <=> Serving(n)'
    BY DEF Served
  <2>1. Channel[n] \in Channels /\ n # None
    BY RedisBusAssumption
  <2>2. publishOps[Channel[n]] = n <=> Serving(n)
    BY DEF Queues, Served
  <2>3. CASE n = m
    <3>1. Serving(n)' <=> q = m
      BY <1>2, <1>4, <1>6, <2>3 DEF Serving, Exec
    <3> QED
      BY <1>1, <1>6, <2>1, <2>3, <3>1 DEF c
  <2>4. CASE n # m
    <3>1. Serving(n)' <=> Serving(n)
      BY <1>4, <1>6, <2>4 DEF Serving, Exec
    <3>2. publishOps'[Channel[n]] = n <=> publishOps[Channel[n]] = n
      BY <1>1, <1>3, <1>5, <1>6, <2>1, <2>4
    <3> QED
      BY <2>2, <3>1, <3>2
  <2> QED
    BY <2>3, <2>4
<1>9. EnqueuedOnce'
  <2> SUFFICES ASSUME NEW n \in Messages
               PROVE  (/\ ppc[n] \in {"idle", "calling"} => queued[n] = << >>
                       /\ ppc[n] \in {"idle", "calling", "enqueueing"} =>
                             Exec(n) \notin Elements(ops) /\ exec[n] = "none"
                       /\ Exec(n) \in Elements(ops) => exec[n] = "none"
                       /\ Once(ops, Exec(n)))'
    BY DEF EnqueuedOnce
  <2>1. /\ ppc[n] \in {"idle", "calling"} => queued[n] = << >>
        /\ ppc[n] \in {"idle", "calling", "enqueueing"} =>
              Exec(n) \notin Elements(ops) /\ exec[n] = "none"
        /\ Exec(n) \in Elements(ops) => exec[n] = "none"
        /\ Once(ops, Exec(n))
    BY DEF Queues, EnqueuedOnce
  <2>2. ppc'[n] \in {"idle", "calling"} => ppc[n] = ppc'[n] /\ n # m /\ n # q
    <3>1. q # m => Serving(q)
      BY <1>1, <1>3, <1>5 DEF Queues, Served
    <3>2. q # m => ppc[q] \notin {"idle", "calling"}
      BY <1>1, <3>1 DEF Serving, Queues, EnqueuedOnce
    <3> QED
      BY <1>6, <3>2
  <2>3. ppc'[n] \in {"idle", "calling", "enqueueing"} =>
           ppc[n] \in {"idle", "calling", "enqueueing"}
    BY <1>2, <1>6
  <2> QED
    BY <1>4, <1>6, <2>1, <2>2, <2>3 DEF Exec
<1>10. Ordered'
  <2> SUFFICES ASSUME NEW d \in Channels PROVE sent'[d] \o Pending(d)' = accepted'[d]
    BY DEF Ordered
  <2>1. sent'[d] = sent[d] /\ sent[d] \o Pending(d) = accepted[d]
    BY <1>4 DEF Queues, Ordered
  <2>2. CASE d = c
    <3>1. sent[c] \in Seq(Messages) /\ Pending(c) \in Seq(Messages)
      <4>1. << >> \in Seq(Messages)
        OBVIOUS
      <4> QED
        BY <1>1, <1>5, <4>1 DEF TypeOK, Pending
    <3>2. Pending(c)' = Append(Pending(c), m)
      <4>1. Pending(c)' = Append(queued[q], m)
        BY <1>1, <1>6 DEF Pending
      <4>2. queued[q] = Pending(c)
        BY <1>1, <1>2, <1>3, <1>5 DEF Pending
      <4> QED
        BY <4>1, <4>2
    <3> HIDE DEF Pending
    <3>3. sent[c] \o Append(Pending(c), m) = Append(sent[c] \o Pending(c), m)
      <4> DEFINE S == sent[c]
                 P == Pending(c)
      <4> HIDE DEF S, P
      <4>1. S \in Seq(Messages) /\ P \in Seq(Messages)
        BY <3>1 DEF S, P
      <4>2. S \o Append(P, m) = Append(S \o P, m)
        BY <4>1, AppendAfter
      <4> QED
        BY <4>2 DEF S, P
    <3> QED
      BY <1>1, <1>6, <2>1, <2>2, <3>2, <3>3
  <2>3. CASE d # c
    <3>1. publishOps'[d] = publishOps[d] /\ publishOps[d] # q /\ accepted'[d] = accepted[d]
      BY <1>1, <1>6, <2>3 DEF Queues, Named
    <3>2. Pending(d)' = Pending(d)
      BY <1>6, <3>1 DEF Pending, TypeOK
    <3> QED
      BY <2>1, <3>1, <3>2
  <2> QED
    BY <2>2, <2>3
<1> QED
  BY <1>7, <1>8, <1>9, <1>10 DEF Queues

\* enqueueWriteOp: the exec of a queue is enqueued by the one who made it.
LEMMA QueuesEnqueue ==
    ASSUME TypeOK, Queues, NEW m \in Messages, EnqueueExec(m)
    PROVE  Queues'
<1>1. CASE ppc[m] = "signalling"
  <2>1. /\ UNCHANGED <<publishVars, exec, sent, ops>>
        /\ ppc' = [ppc EXCEPT ![m] = "returned"]
    BY <1>1 DEF EnqueueExec, redisVars
  <2>2. \A n \in Messages :
           ppc'[n] = ppc[n] \/ (ppc[n] = "signalling" /\ ppc'[n] = "returned")
    BY <1>1, <2>1 DEF TypeOK
  <2> QED
    BY <2>1, <2>2, QueuesKept
<1>2. CASE ppc[m] = "enqueueing"
  <2>1. /\ UNCHANGED <<publishVars, exec, sent>>
        /\ ops' = Append(ops, Exec(m))
        /\ ppc' = [ppc EXCEPT ![m] = "signalling"]
    BY <1>2 DEF EnqueueExec, redisVars
  <2>2. ops \in Seq(Op) /\ \A n \in Messages : Exec(n) = Exec(m) <=> n = m
    BY OpIs DEF TypeOK, Op
  <2>3. Elements(ops') = Elements(ops) \cup {Exec(m)}
    BY <2>1, <2>2, ElementsAppend
  <2>4. Named' /\ Ordered'
    BY <2>1 DEF Queues, Named, Ordered, Pending, publishVars
  <2>5. \A n \in Messages : Exec(n) \in Elements(ops') <=> Exec(n) \in Elements(ops) \/ n = m
    BY <2>2, <2>3
  <2>6. \A n \in Messages : ppc'[n] = IF n = m THEN "signalling" ELSE ppc[n]
    BY <2>1 DEF TypeOK
  <2>7. Served'
    <3>1. \A n \in Messages : Serving(n)' <=> Serving(n)
      BY <1>2, <2>1, <2>5, <2>6 DEF Serving, Exec
    <3> QED
      BY <2>1, <3>1 DEF Queues, Served, publishVars
  <2>8. EnqueuedOnce'
    <3> SUFFICES ASSUME NEW n \in Messages
                 PROVE  (/\ ppc[n] \in {"idle", "calling"} => queued[n] = << >>
                         /\ ppc[n] \in {"idle", "calling", "enqueueing"} =>
                               Exec(n) \notin Elements(ops) /\ exec[n] = "none"
                         /\ Exec(n) \in Elements(ops) => exec[n] = "none"
                         /\ Once(ops, Exec(n)))'
      BY DEF EnqueuedOnce
    <3>1. /\ ppc[n] \in {"idle", "calling"} => queued[n] = << >>
          /\ ppc[n] \in {"idle", "calling", "enqueueing"} =>
                Exec(n) \notin Elements(ops) /\ exec[n] = "none"
          /\ Exec(n) \in Elements(ops) => exec[n] = "none"
          /\ Once(ops, Exec(n))
      BY DEF Queues, EnqueuedOnce
    <3>2. Once(Append(ops, Exec(m)), Exec(n))
      <4>1. Exec(m) = Exec(n) => Exec(n) \notin Elements(ops)
        BY <1>2, <2>2, <3>1
      <4> QED
        BY <2>2, <3>1, <4>1, OnceAppend
    <3> QED
      BY <1>2, <2>1, <2>5, <2>6, <3>1, <3>2 DEF publishVars, Exec
  <2> QED
    BY <2>4, <2>7, <2>8 DEF Queues
<1> QED
  BY <1>1, <1>2 DEF EnqueueExec

\* exec: what it sends is the head of its channel's queue, and it gives the queue up empty.
LEMMA QueuesExec ==
    ASSUME TypeOK, Queues, NEW m \in Messages, ExecStep(m)
    PROVE  Queues'
<1> DEFINE c == Channel[m]
<1>1. c \in Channels /\ m # None /\ exec[m] \in {"checking", "draining"}
  BY RedisBusAssumption DEF ExecStep, Check, Send, Drained
<1>2. publishOps[c] = m
  BY <1>1 DEF Queues, Served, Serving
<1>3. ppc[m] \in {"signalling", "returned"} /\ Exec(m) \notin Elements(ops)
  BY <1>1 DEF Queues, EnqueuedOnce, TypeOK
<1>4. UNCHANGED <<ppc, ops, accepted>>
  BY DEF ExecStep, Check, Send, Drained, publishVars
<1>5. ASSUME exec'[m] \in {"checking", "draining"}, UNCHANGED publishOps,
             \A n \in Messages : n # m => exec'[n] = exec[n] /\ queued'[n] = queued[n]
      PROVE  (Named /\ Served /\ EnqueuedOnce)'
  <2>1. Named'
    BY <1>5 DEF Queues, Named
  <2>2. Served'
    <3>1. \A n \in Messages : Serving(n)' <=> Serving(n)
      BY <1>1, <1>4, <1>5 DEF Serving, Exec
    <3> QED
      BY <1>5, <3>1 DEF Queues, Served
  <2>3. EnqueuedOnce'
    BY <1>3, <1>4, <1>5 DEF Queues, EnqueuedOnce, Exec
  <2> QED
    BY <2>1, <2>2, <2>3
<1>6. CASE Check(m)
  <2>1. CASE queued[m] = << >>
    <3>1. /\ exec' = [exec EXCEPT ![m] = "ended"]
          /\ publishOps' = [publishOps EXCEPT ![c] = None]
          /\ UNCHANGED <<queued, sent>>
      BY <1>6, <2>1 DEF Check, redisVars
    <3>2. /\ \A d \in Channels : publishOps'[d] = IF d = c THEN None ELSE publishOps[d]
          /\ \A n \in Messages : exec'[n] = IF n = m THEN "ended" ELSE exec[n]
      BY <1>1, <3>1 DEF TypeOK
    <3>3. Named'
      BY <3>2 DEF Queues, Named
    <3>4. Served'
      <4> SUFFICES ASSUME NEW n \in Messages
                   PROVE  publishOps'[Channel[n]] = n <=> Serving(n)'
        BY DEF Served
      <4>1. Channel[n] \in Channels /\ n # None /\ (publishOps[Channel[n]] = n <=> Serving(n))
        BY RedisBusAssumption DEF Queues, Served
      <4>2. Serving(n)' <=> Serving(n) /\ n # m
        BY <1>3, <1>4, <3>2 DEF Serving, Exec
      <4>3. publishOps'[Channel[n]] = n <=> publishOps[Channel[n]] = n /\ n # m
        BY <1>2, <3>2, <4>1
      <4> QED
        BY <4>1, <4>2, <4>3
    <3>5. EnqueuedOnce'
      BY <1>3, <1>4, <3>1, <3>2 DEF Queues, EnqueuedOnce, Exec
    <3>6. Ordered'
      <4>1. \A d \in Channels : Pending(d)' = Pending(d)
        BY <1>2, <2>1, <3>1, <3>2 DEF Pending
      <4> QED
        BY <1>4, <3>1, <4>1 DEF Queues, Ordered
    <3> QED
      BY <3>3, <3>4, <3>5, <3>6 DEF Queues
  <2>2. CASE queued[m] # << >>
    <3>1. exec' = [exec EXCEPT ![m] = "draining"] /\ UNCHANGED <<publishOps, queued, sent>>
      BY <1>6, <2>2 DEF Check, redisVars
    <3>2. exec'[m] = "draining" /\ \A n \in Messages : n # m => exec'[n] = exec[n]
      BY <3>1 DEF TypeOK
    <3>3. Ordered'
      BY <1>4, <3>1 DEF Queues, Ordered, Pending
    <3> QED
      BY <1>5, <3>1, <3>2, <3>3 DEF Queues
  <2> QED
    BY <2>1, <2>2
<1>7. CASE Drained(m)
  <2>1. exec' = [exec EXCEPT ![m] = "checking"] /\ UNCHANGED <<publishOps, queued, sent>>
    BY <1>7 DEF Drained, redisVars, publishVars
  <2>2. exec'[m] = "checking" /\ \A n \in Messages : n # m => exec'[n] = exec[n]
    BY <2>1 DEF TypeOK
  <2>3. Ordered'
    BY <1>4, <2>1 DEF Queues, Ordered, Pending
  <2> QED
    BY <1>5, <2>1, <2>2, <2>3 DEF Queues
<1>8. CASE Send(m)
  <2>1. /\ queued[m] # << >> /\ queued' = [queued EXCEPT ![m] = Tail(@)]
        /\ sent' = [sent EXCEPT ![c] = Append(@, Head(queued[m]))]
        /\ UNCHANGED <<publishOps, exec>>
    BY <1>8 DEF Send
  <2>2. /\ \A n \in Messages : queued'[n] = IF n = m THEN Tail(queued[m]) ELSE queued[n]
        /\ \A d \in Channels : sent'[d] = IF d = c THEN Append(sent[c], Head(queued[m]))
                                                  ELSE sent[d]
    BY <1>1, <2>1 DEF TypeOK
  <2>3. (Named /\ Served /\ EnqueuedOnce)'
    BY <1>1, <1>5, <2>1, <2>2
  <2>4. Ordered'
    <3> SUFFICES ASSUME NEW d \in Channels PROVE sent'[d] \o Pending(d)' = accepted'[d]
      BY DEF Ordered
    <3>1. sent[d] \o Pending(d) = accepted[d] /\ accepted'[d] = accepted[d]
      BY <1>4 DEF Queues, Ordered
    <3>2. CASE d = c
      <4>1. Pending(c) = queued[m] /\ Pending(c)' = Tail(queued[m])
        BY <1>1, <1>2, <2>1, <2>2 DEF Pending
      <4>2. sent[c] \in Seq(Messages) /\ queued[m] \in Seq(Messages)
        BY <1>1 DEF TypeOK
      <4>3. Append(sent[c], Head(queued[m])) \o Tail(queued[m]) = sent[c] \o queued[m]
        BY <2>1, <4>2, MoveHead
      <4> QED
        BY <2>2, <3>1, <3>2, <4>1, <4>3
    <3>3. CASE d # c
      <4>1. publishOps[d] # m
        BY <1>1, <3>3 DEF Queues, Named
      <4>2. Pending(d)' = Pending(d)
        BY <2>1, <2>2, <4>1 DEF Pending, TypeOK
      <4> QED
        BY <2>2, <3>1, <3>3, <4>2
    <3> QED
      BY <3>2, <3>3
  <2> QED
    BY <2>3, <2>4 DEF Queues
<1> QED
  BY <1>6, <1>7, <1>8 DEF ExecStep

\* writeWorker takes an exec, which is then nowhere else in its queue.
LEMMA QueuesDrain ==
    ASSUME TypeOK, Queues, Drain
    PROVE  Queues'
<1>1. UNCHANGED <<publishVars, sent, ppc>>
  BY DEF Drain, redisVars
<1>2. CASE ops = << >>
  <2>1. UNCHANGED <<ops, exec>>
    BY <1>2 DEF Drain
  <2> QED
    BY <1>1, <2>1, QueuesKept
<1>3. CASE ops # << >>
  <2>1. ops \in Seq(Op) /\ Head(ops) \in Op /\ ops' = Tail(ops)
    BY <1>3 DEF TypeOK, Op, Drain
  <2>2. Elements(ops) = {Head(ops)} \cup Elements(ops')
    BY <1>3, <2>1, ElementsTail
  <2>3. \A n \in Messages : /\ Once(ops', Exec(n))
                            /\ Head(ops) = Exec(n) => Exec(n) \notin Elements(ops')
    BY <1>3, <2>1, OnceTail DEF Queues, EnqueuedOnce
  <2>4. Named' /\ Ordered'
    BY <1>1 DEF Queues, Named, Ordered, Pending, publishVars
  <2>5. CASE Head(ops) = Reconcile
    <3>1. UNCHANGED exec
      BY <1>3, <2>5 DEF Drain
    <3>2. \A n \in Messages : Exec(n) \in Elements(ops') <=> Exec(n) \in Elements(ops)
      BY <2>2, <2>5, OpIs
    <3>3. Served'
      BY <1>1, <3>1, <3>2 DEF Queues, Served, Serving, Exec, publishVars
    <3>4. EnqueuedOnce'
      BY <1>1, <2>3, <3>1, <3>2 DEF Queues, EnqueuedOnce, Exec, publishVars
    <3> QED
      BY <2>4, <3>3, <3>4 DEF Queues
  <2>6. CASE Head(ops) # Reconcile
    <3> DEFINE q == Head(ops).queue
    <3>1. q \in Messages /\ Head(ops) = Exec(q)
      BY <2>1, <2>6, OpIs
    <3>2. exec' = [exec EXCEPT ![q] = "checking"]
      BY <1>3, <2>6 DEF Drain
    <3> HIDE DEF q
    <3>3. \A n \in Messages : exec'[n] = IF n = q THEN "checking" ELSE exec[n]
      BY <3>1, <3>2 DEF TypeOK
    <3>4. \A n \in Messages : Exec(n) = Exec(q) <=> n = q
      BY <3>1, OpIs
    <3>5. \A n \in Messages : Exec(n) \in Elements(ops') <=> Exec(n) \in Elements(ops) /\ n # q
      BY <2>2, <2>3, <3>1, <3>4
    <3>6. Exec(q) \in Elements(ops)
      BY <2>2, <3>1
    <3>7. ppc[q] \notin {"idle", "calling", "enqueueing"}
      BY <3>1, <3>6 DEF Queues, EnqueuedOnce
    <3>8. Served'
      <4>1. \A n \in Messages : Serving(n)' <=> Serving(n)
        BY <1>1, <3>3, <3>5, <3>6 DEF Serving, Exec
      <4> QED
        BY <1>1, <4>1 DEF Queues, Served, publishVars
    <3>9. EnqueuedOnce'
      BY <1>1, <2>3, <3>3, <3>5, <3>7 DEF Queues, EnqueuedOnce, Exec, publishVars
    <3> QED
      BY <2>4, <3>8, <3>9 DEF Queues
  <2> QED
    BY <2>5, <2>6
<1> QED
  BY <1>2, <1>3

\* Each step keeps the queues' invariants.
LEMMA QueuesStep == TypeOK /\ Queues /\ [Next]_vars => Queues'
<1> SUFFICES ASSUME TypeOK, Queues, [Next]_vars PROVE Queues'
  OBVIOUS
<1> USE DEF listVars, publishVars, workerVars, redisVars, subVars
<1>1. ASSUME NEW m \in Messages, Publish(m) \/ EnqueueExec(m) \/ ExecStep(m) PROVE Queues'
  BY <1>1, QueuesPublish, QueuesEnqueue, QueuesExec
<1>2. ASSUME NEW m \in Messages, Deliver(m) PROVE Queues'
  <2>1. /\ UNCHANGED <<publishVars, exec, sent, ops>>
        /\ ppc[m] = "idle" /\ ppc' = [ppc EXCEPT ![m] = "returned"]
    BY <1>2 DEF Deliver
  <2>2. \A n \in Messages : ppc'[n] = ppc[n] \/ (ppc[n] = "idle" /\ ppc'[n] = "returned")
    BY <2>1 DEF TypeOK
  <2> QED
    BY <2>1, <2>2, QueuesKept
<1>3. ASSUME NEW s \in Subscribers, Consume(s) PROVE Queues'
  <2>1. UNCHANGED <<publishVars, exec, sent, ops>>
    BY <1>3 DEF Consume
  <2>2. \A n \in Messages : ppc'[n] = ppc[n] \/ (ppc[n] = "idle" /\ ppc'[n] = "calling")
    BY <1>3 DEF Consume, TypeOK
  <2> QED
    BY <2>1, <2>2, QueuesKept
<1>4. ASSUME NEW s \in Subscribers, Subscribe(s) \/ Cancel(s) \/ Unsubscribe(s) PROVE Queues'
  <2>1. UNCHANGED <<publishVars, exec, sent, ppc>>
    BY <1>4 DEF Subscribe, Cancel, Unsubscribe, Leave
  <2>2. ops' = Append(ops, Reconcile) \/ UNCHANGED ops
    BY <1>4 DEF Subscribe, Cancel, Unsubscribe, Leave, ReconcileSubscriptions
  <2> QED
    BY <2>1, <2>2, QueuesKept
<1>5. ASSUME \/ Wake \/ Reconciliation \/ SubscribeInRedis \/ UnsubscribeInRedis \/ Merge
             \/ Receive \/ Write \/ UNCHANGED vars
      PROVE  Queues'
  <2>1. UNCHANGED <<publishVars, exec, sent, ops, ppc>>
    BY <1>5 DEF Wake, Reconciliation, SubscribeInRedis, UnsubscribeInRedis, Merge, Command,
                Compare, Receive, Write, vars
  <2> QED
    BY <2>1, QueuesKept
<1> QED
  BY <1>1, <1>2, <1>3, <1>4, <1>5, QueuesDrain DEF Next, WorkerStep

\* Redis is sent the messages of every channel in the order Publish took them: none twice,
\* none left out, none before one that waits.
THEOREM OrderKept == Spec => []InOrder
<1>1. TypeOK /\ Queues => InOrder
  BY DEF Queues, Ordered, InOrder
<1> QED
  BY <1>1, TypeCorrect, QueuesInit, QueuesStep, PTL DEF Spec

----------------------------------------------------------------------------
\* The wakeups of the worker.

\* The first two parts of WorkIsNeverForgotten: no operation waits for a worker that
\* nobody is to wake, and no dirty channel for a reconciliation nobody asked for.
Woken ==
    /\ ops # << >> => \/ wakeup \/ worker.stage # "waiting"
                      \/ \E m \in Messages : ppc[m] = "signalling"
    /\ dirtyChannels # {} => \/ Reconcile \in Elements(ops)
                             \/ worker.stage \notin {"waiting", "draining"}

\* Each step keeps Woken: while there is an operation in the queue the worker is at work,
\* or has a token to be woken by, or somebody is about to give it one.
LEMMA WokenStep == TypeOK /\ Woken /\ [Next]_vars => Woken'
<1> SUFFICES ASSUME TypeOK, Woken, [Next]_vars PROVE Woken'
  OBVIOUS
<1> USE DEF listVars, publishVars, workerVars, redisVars, subVars
<1>0. /\ ops \in Seq(Op)
      /\ \A m, n \in Messages : ppc'[n] = "signalling" => n \in Messages
  BY DEF TypeOK, Op
<1>1. ASSUME UNCHANGED <<ops, wakeup, worker, dirtyChannels>>,
             \A n \in Messages : ppc[n] = "signalling" => ppc'[n] = "signalling"
      PROVE  Woken'
  BY <1>1 DEF Woken, Reconcile
<1>2. ASSUME NEW m \in Messages, Publish(m) \/ Deliver(m) PROVE Woken'
  <2>1. UNCHANGED <<ops, wakeup, worker, dirtyChannels>>
    BY <1>2 DEF Publish, Deliver
  <2>2. \A n \in Messages : ppc[n] = "signalling" => ppc'[n] = "signalling"
    BY <1>2 DEF Publish, Deliver, MayPublish, TypeOK
  <2> QED
    BY <1>1, <2>1, <2>2
<1>3. ASSUME NEW m \in Messages, EnqueueExec(m) PROVE Woken'
  <2>1. UNCHANGED <<worker, dirtyChannels>>
    BY <1>3 DEF EnqueueExec
  <2>2. CASE ppc[m] = "enqueueing"
    <3>1. ops' = Append(ops, Exec(m)) /\ ppc' = [ppc EXCEPT ![m] = "signalling"]
      BY <1>3, <2>2 DEF EnqueueExec
    <3>2. Elements(ops') = Elements(ops) \cup {Exec(m)}
      BY <1>0, <3>1, ElementsAppend
    <3>3. ppc'[m] = "signalling"
      BY <3>1 DEF TypeOK
    <3> QED
      BY <2>1, <3>2, <3>3 DEF Woken, Reconcile
  <2>3. CASE ppc[m] = "signalling"
    BY <1>3, <2>1, <2>3 DEF EnqueueExec, Woken, Reconcile
  <2> QED
    BY <1>3, <2>2, <2>3 DEF EnqueueExec
<1>4. ASSUME NEW m \in Messages, ExecStep(m) PROVE Woken'
  <2>1. UNCHANGED <<ops, wakeup, worker, dirtyChannels, ppc>>
    BY <1>4 DEF ExecStep, Check, Send, Drained
  <2> QED
    BY <1>1, <2>1
<1>5. ASSUME NEW s \in Subscribers, Subscribe(s) \/ Cancel(s) \/ Unsubscribe(s) PROVE Woken'
  <2>1. UNCHANGED <<worker, ppc>>
    BY <1>5 DEF Subscribe, Cancel, Unsubscribe, Leave
  <2>2. \/ UNCHANGED <<ops, wakeup, dirtyChannels>>
        \/ wakeup' = TRUE /\ ops' = Append(ops, Reconcile)
    BY <1>5 DEF Subscribe, Cancel, Unsubscribe, Leave, ReconcileSubscriptions
  <2>3. CASE wakeup' = TRUE /\ ops' = Append(ops, Reconcile)
    <3>1. Elements(ops') = Elements(ops) \cup {Reconcile}
      BY <1>0, <2>3, ElementsAppend
    <3> QED
      BY <2>3, <3>1 DEF Woken, Reconcile
  <2> QED
    BY <1>1, <2>1, <2>2, <2>3
<1>6. ASSUME NEW s \in Subscribers, Consume(s) PROVE Woken'
  <2>1. UNCHANGED <<ops, wakeup, worker, dirtyChannels>>
    BY <1>6 DEF Consume
  <2>2. \A n \in Messages : ppc[n] = "signalling" => ppc'[n] = "signalling"
    BY <1>6 DEF Consume, TypeOK
  <2> QED
    BY <1>1, <2>1, <2>2
<1>7. CASE Wake
  BY <1>7 DEF Wake, Working, Woken, Reconcile
<1>8. CASE Drain
  <2>1. UNCHANGED <<wakeup, dirtyChannels, ppc>> /\ worker.stage = "draining"
    BY <1>8 DEF Drain
  <2>2. CASE ops = << >>
    <3>1. ops' = ops /\ Elements(ops) = {}
      BY <1>8, <2>2 DEF Drain, Elements
    <3> QED
      BY <2>1, <2>2, <3>1 DEF Woken
  <2>3. CASE ops # << >>
    <3>1. ops' = Tail(ops) /\ Elements(ops) = {Head(ops)} \cup Elements(ops')
      BY <1>0, <1>8, <2>3, ElementsTail DEF Drain
    <3>2. IF Head(ops) = Reconcile THEN worker' = Working("comparing") ELSE UNCHANGED worker
      BY <1>8, <2>3 DEF Drain
    <3> QED
      BY <2>1, <3>1, <3>2 DEF Woken, Working, Reconcile
  <2> QED
    BY <2>2, <2>3
<1>9. CASE Reconciliation \/ Merge
  BY <1>9 DEF Reconciliation, Merge, Compare, Working, Woken, Reconcile
<1>10. CASE SubscribeInRedis \/ UnsubscribeInRedis
  <2>1. UNCHANGED <<ops, wakeup, dirtyChannels, ppc>>
    BY <1>10 DEF SubscribeInRedis, UnsubscribeInRedis, Command
  <2>2. worker'.stage \in {"unsubscribing", "merging"}
    BY <1>10 DEF SubscribeInRedis, UnsubscribeInRedis, Command, TypeOK
  <2> QED
    BY <2>1, <2>2 DEF Woken
<1>11. CASE Receive \/ Write \/ UNCHANGED vars
  <2>1. UNCHANGED <<ops, wakeup, worker, dirtyChannels, ppc>>
    BY <1>11 DEF Receive, Write, vars
  <2> QED
    BY <1>1, <2>1
<1> QED
  BY <1>2, <1>3, <1>4, <1>5, <1>6, <1>7, <1>8, <1>9, <1>10, <1>11 DEF Next, WorkerStep

\* A signal that finds the wakeup channel full is dropped, and yet no operation waits for
\* a worker that sleeps, no dirty channel for a reconciliation, no queue for an exec.
THEOREM WorkRemembered == Spec => []WorkIsNeverForgotten
<1>1. Init => Woken
  BY DEF Init, Woken
<1>2. TypeOK /\ Queues /\ Woken => WorkIsNeverForgotten
  <2> SUFFICES ASSUME TypeOK, Queues, Woken, NEW c \in Channels, publishOps[c] # None
               PROVE  Serving(publishOps[c])
    BY DEF WorkIsNeverForgotten, Woken, Serving
  <2>1. publishOps[c] \in Messages /\ Channel[publishOps[c]] = c
    BY DEF TypeOK, Queues, Named
  <2> QED
    BY <2>1 DEF Queues, Served
<1> QED
  BY <1>1, <1>2, TypeCorrect, QueuesInit, QueuesStep, WokenStep, PTL DEF Spec

----------------------------------------------------------------------------
\* The lists of subscribers, step by step.

\* The subscribers of c, those of its queue or the others, that have not unsubscribed.
Members(c, queue) ==
    {s \in Subscribers : /\ On[s] = c /\ Queue[s] = queue
                         /\ spc[s] \in {"open", "cancelled"}}

\* The lists are the subscribers that have not unsubscribed, each once.
Listed ==
    \A c \in Channels : Lists(subs[c], Members(c, FALSE)) /\ Lists(queues[c], Members(c, TRUE))

\* No list has anybody at the start.
LEMMA ListedInit == Init => Listed
<1> SUFFICES ASSUME Init, NEW c \in Channels
             PROVE  Lists(subs[c], Members(c, FALSE)) /\ Lists(queues[c], Members(c, TRUE))
  BY DEF Listed
<1>1. subs[c] = << >> /\ queues[c] = << >>
  BY DEF Init
<1>2. Elements(<< >>) = {}
  BY DEF Elements
<1>3. Members(c, FALSE) = {} /\ Members(c, TRUE) = {}
  BY DEF Members, Init
<1>4. Lists(<< >>, {})
  BY <1>2 DEF Lists
<1> QED
  BY <1>1, <1>3, <1>4

\* Who subscribes or unsubscribes is the one that joins or leaves its list.
LEMMA ListedStep == TypeOK /\ Listed /\ [Next]_vars => Listed'
<1> SUFFICES ASSUME TypeOK, Listed, [Next]_vars PROVE Listed'
  OBVIOUS
<1> USE DEF listVars, publishVars, workerVars, redisVars, subVars
<1>1. ASSUME UNCHANGED <<subs, queues>>,
             \A s \in Subscribers : spc'[s] \in {"open", "cancelled"} <=>
                                       spc[s] \in {"open", "cancelled"}
      PROVE  Listed'
  <2>1. \A c \in Channels : /\ Members(c, FALSE)' = Members(c, FALSE)
                            /\ Members(c, TRUE)' = Members(c, TRUE)
    BY <1>1 DEF Members
  <2>2. \A c \in Channels : /\ Lists(subs'[c], Members(c, FALSE)')
                            /\ Lists(queues'[c], Members(c, TRUE)')
    BY <1>1, <2>1 DEF Listed
  <2> QED
    BY <2>2 DEF Listed, Lists, Elements
<1>2. ASSUME NEW s \in Subscribers, Subscribe(s) PROVE Listed'
  <2> DEFINE d == On[s]
  <2>1. d \in Channels /\ Queue[s] \in BOOLEAN /\ spc[s] = "new"
    BY <1>2, RedisBusAssumption DEF Subscribe
  <2>2. \A n \in Subscribers : spc'[n] = IF n = s THEN "open" ELSE spc[n]
    BY <1>2 DEF Subscribe, TypeOK
  <2>3. \A c \in Channels, k \in BOOLEAN :
           Members(c, k)' = IF c = d /\ k = Queue[s] THEN Members(c, k) \cup {s}
                                                     ELSE Members(c, k)
    BY <2>1, <2>2 DEF Members
  <2>4. \A c \in Channels :
           /\ subs'[c] = IF c = d /\ Queue[s] = FALSE THEN Append(subs[c], s) ELSE subs[c]
           /\ queues'[c] = IF c = d /\ Queue[s] = TRUE THEN Append(queues[c], s) ELSE queues[c]
    <3>1. CASE Queue[s] = TRUE
      <4>1. queues' = [queues EXCEPT ![d] = Append(@, s)] /\ subs' = subs
        BY <1>2, <3>1 DEF Subscribe
      <4> QED
        BY <2>1, <3>1, <4>1 DEF TypeOK
    <3>2. CASE Queue[s] = FALSE
      <4>1. subs' = [subs EXCEPT ![d] = Append(@, s)] /\ queues' = queues
        BY <1>2, <3>2 DEF Subscribe
      <4> QED
        BY <2>1, <3>2, <4>1 DEF TypeOK
    <3> QED
      BY <2>1, <3>1, <3>2
  <2>5. \A k \in BOOLEAN : s \notin Members(d, k)
    BY <2>1 DEF Members
  <2> SUFFICES ASSUME NEW c \in Channels
               PROVE  /\ Lists(subs'[c], Members(c, FALSE)')
                      /\ Lists(queues'[c], Members(c, TRUE)')
    BY DEF Listed, Lists, Elements
  <2>6. Lists(subs[c], Members(c, FALSE)) /\ Lists(queues[c], Members(c, TRUE))
    BY DEF Listed
  <2>7. subs[c] \in Seq(Subscribers) /\ queues[c] \in Seq(Subscribers)
    BY DEF TypeOK
  <2>8. CASE c = d /\ Queue[s] = FALSE
    <3>1. Lists(Append(subs[c], s), Members(c, FALSE) \cup {s})
      BY <2>5, <2>6, <2>7, <2>8, ListsAppend
    <3> QED
      BY <2>3, <2>4, <2>6, <2>8, <3>1
  <2>9. CASE c = d /\ Queue[s] = TRUE
    <3>1. Lists(Append(queues[c], s), Members(c, TRUE) \cup {s})
      BY <2>5, <2>6, <2>7, <2>9, ListsAppend
    <3> QED
      BY <2>3, <2>4, <2>6, <2>9, <3>1
  <2>10. CASE c # d
    BY <2>3, <2>4, <2>6, <2>10
  <2> QED
    BY <2>1, <2>8, <2>9, <2>10
<1>3. ASSUME NEW s \in Subscribers, Unsubscribe(s) PROVE Listed'
  <2> DEFINE d == On[s]
  <2>1. d \in Channels /\ Queue[s] \in BOOLEAN /\ spc[s] = "cancelled"
    BY <1>3, RedisBusAssumption DEF Unsubscribe, Leave
  <2>2. \A n \in Subscribers : spc'[n] = IF n = s THEN "closed" ELSE spc[n]
    BY <1>3 DEF Unsubscribe, Leave, TypeOK
  <2>3. \A c \in Channels, k \in BOOLEAN :
           Members(c, k)' = IF c = d /\ k = Queue[s] THEN Members(c, k) \ {s} ELSE Members(c, k)
    BY <2>1, <2>2 DEF Members
  <2>4. \A c \in Channels :
           /\ subs'[c] = IF c = d /\ Queue[s] = FALSE THEN Without(subs[c], s) ELSE subs[c]
           /\ queues'[c] = IF c = d /\ Queue[s] = TRUE THEN Without(queues[c], s) ELSE queues[c]
    <3>1. IF Queue[s]
          THEN queues' = [queues EXCEPT ![d] = Without(@, s)] /\ UNCHANGED subs
          ELSE subs' = [subs EXCEPT ![d] = Without(@, s)] /\ UNCHANGED queues
      BY <1>3 DEF Unsubscribe, Leave
    <3>2. DOMAIN subs = Channels /\ DOMAIN queues = Channels
      BY DEF TypeOK
    <3> QED
      BY <2>1, <3>1, <3>2
  <2>5. s \in Members(d, Queue[s])
    BY <2>1 DEF Members
  <2> SUFFICES ASSUME NEW c \in Channels
               PROVE  /\ Lists(subs'[c], Members(c, FALSE)')
                      /\ Lists(queues'[c], Members(c, TRUE)')
    BY DEF Listed, Lists, Elements
  <2>6. Lists(subs[c], Members(c, FALSE)) /\ Lists(queues[c], Members(c, TRUE))
    BY DEF Listed
  <2>7. subs[c] \in Seq(Subscribers) /\ queues[c] \in Seq(Subscribers)
    BY DEF TypeOK
  <2>8. CASE c = d /\ Queue[s] = FALSE
    <3>1. Lists(Without(subs[c], s), Members(c, FALSE) \ {s})
      BY <2>5, <2>6, <2>7, <2>8, ListsWithout
    <3> QED
      BY <2>3, <2>4, <2>6, <2>8, <3>1
  <2>9. CASE c = d /\ Queue[s] = TRUE
    <3>1. Lists(Without(queues[c], s), Members(c, TRUE) \ {s})
      BY <2>5, <2>6, <2>7, <2>9, ListsWithout
    <3> QED
      BY <2>3, <2>4, <2>6, <2>9, <3>1
  <2>10. CASE c # d
    BY <2>3, <2>4, <2>6, <2>10
  <2> QED
    BY <2>1, <2>8, <2>9, <2>10
<1>4. ASSUME NEW s \in Subscribers, Cancel(s) PROVE Listed'
  <2>1. UNCHANGED <<subs, queues>> /\ spc[s] = "open" /\ spc' = [spc EXCEPT ![s] = "cancelled"]
    BY <1>4 DEF Cancel
  <2> QED
    BY <1>1, <2>1 DEF TypeOK
<1>5. ASSUME \/ \E m \in Messages : Publish(m) \/ EnqueueExec(m) \/ ExecStep(m) \/ Deliver(m)
             \/ \E s \in Subscribers : Consume(s)
             \/ WorkerStep \/ Receive \/ Write \/ UNCHANGED vars
      PROVE  Listed'
  <2>1. UNCHANGED <<subs, queues, spc>>
    BY <1>5 DEF Publish, EnqueueExec, ExecStep, Check, Send, Drained, Deliver, Consume, WorkerStep,
                Wake, Drain, Reconciliation, SubscribeInRedis, UnsubscribeInRedis, Merge, Command,
                Compare, Receive, Write, vars
  <2> QED
    BY <1>1, <2>1
<1> QED
  BY <1>2, <1>3, <1>4, <1>5 DEF Next

\* Whom readWorker is to write to has not unsubscribed: r.mu keeps it from doing so.
TargetsOpen ==
    reading # None =>
       \A i \in DOMAIN reading.targets : spc[reading.targets[i]] \in {"open", "cancelled"}

\* Each step keeps TargetsOpen: those readWorker has still to write to are not closed, as
\* it holds the mutex that a Close needs.
LEMMA TargetsOpenStep == TypeOK /\ Listed /\ TargetsOpen /\ [Next]_vars => TargetsOpen'
<1> SUFFICES ASSUME TypeOK, Listed, TargetsOpen, [Next]_vars PROVE TargetsOpen'
  OBVIOUS
<1> USE DEF listVars, publishVars, workerVars, redisVars, subVars
<1>0. reading # None =>
         /\ reading \in Reading
         /\ \A i \in DOMAIN reading.targets : reading.targets[i] \in Subscribers
  BY DEF TypeOK, Reading
<1>1. ASSUME UNCHANGED reading,
             \A s \in Subscribers : spc[s] \in {"open", "cancelled"} =>
                                       spc'[s] \in {"open", "cancelled"}
      PROVE  TargetsOpen'
  BY <1>0, <1>1 DEF TargetsOpen
<1>2. ASSUME NEW s \in Subscribers, Subscribe(s) \/ Cancel(s) PROVE TargetsOpen'
  BY <1>1, <1>2 DEF Subscribe, Cancel, TypeOK
<1>3. ASSUME NEW s \in Subscribers, Unsubscribe(s) PROVE TargetsOpen'
  BY <1>3 DEF Unsubscribe, Unlocked, Leave, TargetsOpen
<1>4. ASSUME \/ \E m \in Messages : Publish(m) \/ EnqueueExec(m) \/ ExecStep(m) \/ Deliver(m)
             \/ \E s \in Subscribers : Consume(s)
             \/ WorkerStep \/ UNCHANGED vars
      PROVE  TargetsOpen'
  <2>1. UNCHANGED <<reading, spc>>
    BY <1>4 DEF Publish, EnqueueExec, ExecStep, Check, Send, Drained, Deliver, Consume, WorkerStep,
                Wake, Drain, Reconciliation, SubscribeInRedis, UnsubscribeInRedis, Merge, Command,
                Compare, vars
  <2> QED
    BY <1>1, <2>1
<1>5. CASE Receive
  <2> DEFINE m == Head(inbound)
             c == Channel[m]
  <2>1. m \in Messages /\ c \in Channels /\ reading' = Delivery(m) /\ spc' = spc
    BY <1>5, RedisBusAssumption DEF Receive, TypeOK
  <2>2. \A n \in Elements(Targets(c)) : spc[n] \in {"open", "cancelled"}
    <3>1. Elements(subs[c]) \cup Elements(queues[c]) = Members(c, FALSE) \cup Members(c, TRUE)
      BY <2>1 DEF Listed, Lists
    <3>2. Elements(Targets(c)) \subseteq Elements(subs[c]) \cup Elements(queues[c])
      BY <2>1, DeliveryType
    <3> QED
      BY <3>1, <3>2 DEF Members
  <2>3. Delivery(m) # None => Delivery(m).targets = Targets(c)
    BY DEF Delivery
  <2> QED
    BY <2>1, <2>2, <2>3 DEF TargetsOpen, Elements
<1>6. CASE Write
  <2>1. reading # None /\ spc' = spc
    BY <1>6 DEF Write
  <2>2. reading' # None => reading'.targets = Tail(reading.targets)
    BY <1>0, <1>6, <2>1 DEF Write, Reading
  <2>3. Elements(Tail(reading.targets)) \subseteq Elements(reading.targets)
    BY <1>0, <2>1, ElementsTail DEF Reading
  <2> QED
    BY <2>1, <2>2, <2>3 DEF TargetsOpen, Elements
<1> QED
  BY <1>2, <1>3, <1>4, <1>5, <1>6 DEF Next

\* readWorker never sends on the channel of a subscription that closed it.
THEOREM NoSendOnClosed == Spec => []WritesToOpen
<1>1. Init => TargetsOpen
  BY DEF Init, TargetsOpen
<1>2. TargetsOpen => WritesToOpen
  BY DEF TargetsOpen, WritesToOpen
<1> QED
  BY <1>1, <1>2, TypeCorrect, ListedInit, ListedStep, TargetsOpenStep, PTL DEF Spec

----------------------------------------------------------------------------
\* The reconciliation with redis.

\* What redis was last asked for: the SUBSCRIBE and the UNSUBSCRIBE of a reconciliation
\* precede the merge that makes them current.
Asked ==
    (currentChannels
        \cup (IF worker.stage \in {"unsubscribing", "merging"} THEN worker.subscribe ELSE {}))
        \ (IF worker.stage = "merging" THEN worker.unsubscribe ELSE {})

\* A comparison's result is the worker's until the merge, as is what failed of it.
Compared ==
    /\ worker.stage \notin {"subscribing", "unsubscribing", "merging"} =>
          worker.subscribe = {} /\ worker.unsubscribe = {}
    /\ worker.stage \notin {"unsubscribing", "merging"} => worker.failed = {}
    /\ worker.stage = "unsubscribing" => worker.failed \subseteq worker.subscribe
    /\ worker.failed \subseteq doubted \cap (worker.subscribe \cup worker.unsubscribe)

\* The comparison stays right about the channels that did not become dirty since.
CurrentTrue ==
    /\ \A c \in worker.subscribe :
          c \notin currentChannels /\ (c \notin dirtyChannels => c \in Desired)
    /\ \A c \in worker.unsubscribe :
          c \in currentChannels /\ (c \notin dirtyChannels => c \notin Desired)
    /\ \A c \in Channels \ (dirtyChannels \cup worker.subscribe \cup worker.unsubscribe) :
          c \in currentChannels <=> c \in Desired

\* Redis does what it was last asked for, unless the command failed.
RemoteTrue == \A c \in Channels \ doubted : c \in remote <=> c \in Asked

Comparison == Compared /\ CurrentTrue /\ RemoteTrue

\* At the start nothing is desired, current or subscribed.
LEMMA ComparisonInit == Init => Comparison
  BY DEF Init, Comparison, Compared, CurrentTrue, RemoteTrue, Asked, Desired, Working

\* Subscribers that come and go make dirty a channel that they start or stop the use of.
LEMMA DesiredStep ==
    ASSUME TypeOK, Listed, NEW s \in Subscribers, Subscribe(s) \/ Unsubscribe(s)
    PROVE  /\ dirtyChannels \subseteq dirtyChannels'
           /\ \A c \in Channels \ dirtyChannels' : c \in Desired' <=> c \in Desired
<1> USE DEF listVars, publishVars, workerVars, redisVars, subVars
<1> DEFINE d == On[s]
<1>1. d \in Channels /\ Queue[s] \in BOOLEAN
  BY RedisBusAssumption
<1>2. ASSUME NEW c \in Channels \ {d} PROVE c \in Desired' <=> c \in Desired
  <2>1. subs'[c] = subs[c] /\ queues'[c] = queues[c]
    BY <1>1, <1>2 DEF Subscribe, Unsubscribe, Leave, TypeOK
  <2> QED
    BY <2>1 DEF Desired
<1>3. CASE dirtyChannels' = dirtyChannels \cup {d}
  BY <1>2, <1>3
<1>4. CASE dirtyChannels' # dirtyChannels \cup {d}
  <2>1. dirtyChannels' = dirtyChannels
    BY <1>4 DEF Subscribe, Unsubscribe, Leave, ReconcileSubscriptions
  <2>2. d \in Desired /\ d \in Desired'
    <3>1. CASE Subscribe(s)
      <4> DEFINE list == IF Queue[s] THEN queues[d] ELSE subs[d]
      <4>1. list # << >>
        BY <1>4, <3>1 DEF Subscribe, ReconcileSubscriptions
      <4>2. list \in Seq(Subscribers)
        BY <1>1 DEF TypeOK
      <4>3. (IF Queue[s] THEN queues'[d] ELSE subs'[d]) = Append(list, s)
        BY <1>1, <3>1 DEF Subscribe, TypeOK
      <4> HIDE DEF list
      <4>4. Append(list, s) # << >>
        BY <4>2, AppendNonEmpty
      <4> QED
        BY <1>1, <4>1, <4>3, <4>4 DEF Desired, list
    <3>2. CASE Unsubscribe(s)
      <4>1. (IF Queue[s] THEN queues'[d] ELSE subs'[d]) # << >>
        BY <1>4, <3>2 DEF Unsubscribe, Leave, ReconcileSubscriptions
      <4>2. s \in Members(d, Queue[s])
        BY <3>2 DEF Unsubscribe, Leave, Members
      <4>3. s \in Elements(IF Queue[s] THEN queues[d] ELSE subs[d])
        BY <1>1, <4>2 DEF Listed, Lists
      <4>4. Elements(<< >>) = {}
        BY DEF Elements
      <4>5. (IF Queue[s] THEN queues[d] ELSE subs[d]) # << >>
        BY <4>3, <4>4
      <4> QED
        BY <1>1, <4>1, <4>5 DEF Desired
    <3> QED
      BY <3>1, <3>2
  <2> QED
    BY <1>2, <2>1, <2>2
<1> QED
  BY <1>3, <1>4

\* A comparison of all that is dirty.
LEMMA CompareTrue ==
    ASSUME TypeOK, NEW dirty, NEW current, Compare(dirty, current),
           \A c \in Channels \ dirty : c \in current <=> c \in Desired,
           \A c \in Channels \ doubted : c \in remote <=> c \in current
    PROVE  Comparison'
<1> USE DEF redisVars
<1>1. /\ UNCHANGED <<subs, queues, remote, doubted>>
      /\ dirtyChannels' = {} /\ currentChannels' = current
  BY DEF Compare
<1>2. Desired' = Desired
  BY <1>1 DEF Desired
<1>3. CASE dirty = {}
  <2>1. worker' = Working("draining")
    BY <1>3 DEF Compare
  <2> QED
    BY <1>1, <1>2, <1>3, <2>1 DEF Comparison, Compared, CurrentTrue, RemoteTrue, Asked, Working
<1>4. CASE dirty # {}
  <2>1. worker' = [stage |-> "subscribing",
                   subscribe |-> (dirty \cap Desired) \ current,
                   unsubscribe |-> (dirty \cap current) \ Desired,
                   failed |-> {}]
    BY <1>4 DEF Compare
  <2> QED
    BY <1>1, <1>2, <2>1 DEF Comparison, Compared, CurrentTrue, RemoteTrue, Asked
<1> QED
  BY <1>3, <1>4

\* A command to redis is asked for and, when it does not fail, carried out.
LEMMA CommandTrue ==
    ASSUME TypeOK, Comparison, SubscribeInRedis \/ UnsubscribeInRedis
    PROVE  Comparison'
<1> USE DEF listVars, redisVars
<1>1. /\ UNCHANGED <<subs, queues, dirtyChannels, currentChannels>>
      /\ worker'.subscribe = worker.subscribe /\ worker'.unsubscribe = worker.unsubscribe
  BY DEF SubscribeInRedis, UnsubscribeInRedis, Command, TypeOK
<1>2. CurrentTrue'
  BY <1>1 DEF Comparison, CurrentTrue, Desired
<1>3. CASE SubscribeInRedis
  <2>1. worker.stage = "subscribing" /\ worker'.stage = "unsubscribing"
    BY <1>3 DEF SubscribeInRedis, Command, TypeOK
  <2>2. \/ /\ remote' = remote \cup worker.subscribe /\ doubted' = doubted \ worker.subscribe
           /\ worker'.failed = worker.failed
        \/ /\ remote' \in {remote \cup worker.subscribe, remote}
           /\ doubted' = doubted \cup worker.subscribe
           /\ worker'.failed = worker.failed \cup worker.subscribe
    BY <1>3 DEF SubscribeInRedis, Command, TypeOK
  <2>3. Asked' = Asked \cup worker.subscribe
    BY <1>1, <2>1 DEF Asked
  <2>4. RemoteTrue'
    BY <2>2, <2>3 DEF Comparison, RemoteTrue
  <2>5. worker.failed = {}
    BY <2>1 DEF Comparison, Compared
  <2>6. Compared'
    BY <1>1, <2>1, <2>2, <2>5 DEF Comparison, Compared
  <2> QED
    BY <1>2, <2>4, <2>6 DEF Comparison
<1>4. CASE UnsubscribeInRedis
  <2>1. worker.stage = "unsubscribing" /\ worker'.stage = "merging"
    BY <1>4 DEF UnsubscribeInRedis, Command, TypeOK
  <2>2. \/ /\ remote' = remote \ worker.unsubscribe /\ doubted' = doubted \ worker.unsubscribe
           /\ worker'.failed = worker.failed
        \/ /\ remote' \in {remote \ worker.unsubscribe, remote}
           /\ doubted' = doubted \cup worker.unsubscribe
           /\ worker'.failed = worker.failed \cup worker.unsubscribe
    BY <1>4 DEF UnsubscribeInRedis, Command, TypeOK
  <2>3. Asked' = Asked \ worker.unsubscribe
    BY <1>1, <2>1 DEF Asked
  <2>4. RemoteTrue'
    BY <2>2, <2>3 DEF Comparison, RemoteTrue
  <2>5. worker.failed \subseteq worker.subscribe /\ worker.subscribe \cap worker.unsubscribe = {}
    BY <2>1 DEF Comparison, Compared, CurrentTrue
  <2>6. Compared'
    BY <1>1, <2>1, <2>2, <2>5 DEF Comparison, Compared
  <2> QED
    BY <1>2, <2>4, <2>6 DEF Comparison
<1> QED
  BY <1>3, <1>4

\* Each step keeps Comparison: the worker's command lists, currentChannels and redis differ
\* only in channels that are dirty or being dealt with.
LEMMA ComparisonStep == TypeOK /\ Listed /\ Comparison /\ [Next]_vars => Comparison'
<1> SUFFICES ASSUME TypeOK, Listed, Comparison, [Next]_vars PROVE Comparison'
  OBVIOUS
<1> USE DEF listVars, publishVars, workerVars, redisVars, subVars
<1>1. ASSUME \/ worker'.stage = worker.stage
             \/ {worker.stage, worker'.stage} \subseteq {"waiting", "draining", "comparing"},
             worker'.subscribe = worker.subscribe, worker'.unsubscribe = worker.unsubscribe,
             worker'.failed = worker.failed,
             UNCHANGED <<currentChannels, remote, doubted>>,
             dirtyChannels \subseteq dirtyChannels',
             \A c \in Channels \ dirtyChannels' : c \in Desired' <=> c \in Desired
      PROVE  Comparison'
  <2>1. worker.subscribe \subseteq Channels /\ worker.unsubscribe \subseteq Channels
    BY DEF TypeOK
  <2>2. Compared'
    BY <1>1 DEF Comparison, Compared
  <2>3. CurrentTrue'
    BY <1>1, <2>1 DEF Comparison, CurrentTrue
  <2>4. RemoteTrue'
    BY <1>1 DEF Comparison, RemoteTrue, Asked
  <2> QED
    BY <2>2, <2>3, <2>4 DEF Comparison
<1>2. ASSUME NEW s \in Subscribers, Subscribe(s) \/ Unsubscribe(s) PROVE Comparison'
  <2>1. UNCHANGED <<worker, currentChannels, remote, doubted>>
    BY <1>2 DEF Subscribe, Unsubscribe, Leave
  <2> QED
    BY <1>1, <1>2, <2>1, DesiredStep
<1>3. ASSUME \/ \E m \in Messages : Publish(m) \/ EnqueueExec(m) \/ ExecStep(m) \/ Deliver(m)
             \/ \E s \in Subscribers : Cancel(s) \/ Consume(s)
             \/ Receive \/ Write \/ UNCHANGED vars
      PROVE  Comparison'
  <2>1. UNCHANGED <<worker, currentChannels, remote, doubted, dirtyChannels, subs, queues>>
    BY <1>3 DEF Publish, EnqueueExec, ExecStep, Check, Send, Drained, Deliver, Cancel, Consume,
                Receive, Write, vars
  <2> QED
    BY <1>1, <2>1 DEF Desired
<1>4. CASE Wake \/ Drain
  <2>1. UNCHANGED <<currentChannels, remote, doubted, dirtyChannels, subs, queues>>
    BY <1>4 DEF Wake, Drain
  <2>2. worker.stage \in {"waiting", "draining"}
    BY <1>4 DEF Wake, Drain
  <2>3. \/ worker' = worker
        \/ \E stage \in {"waiting", "draining", "comparing"} : worker' = Working(stage)
    BY <1>4 DEF Wake, Drain
  <2>4. worker.subscribe = {} /\ worker.unsubscribe = {} /\ worker.failed = {}
    BY <2>2 DEF Comparison, Compared
  <2>5. /\ worker'.stage = worker.stage \/ worker'.stage \in {"waiting", "draining", "comparing"}
        /\ worker'.subscribe = worker.subscribe /\ worker'.unsubscribe = worker.unsubscribe
        /\ worker'.failed = worker.failed
    BY <2>3, <2>4 DEF Working
  <2>6. Desired' = Desired
    BY <2>1 DEF Desired
  <2> QED
    BY <1>1, <2>1, <2>2, <2>5, <2>6
<1>5. CASE Reconciliation
  <2>1. Compare(dirtyChannels, currentChannels) /\ worker.stage = "comparing"
    BY <1>5 DEF Reconciliation
  <2>2. worker.subscribe = {} /\ worker.unsubscribe = {} /\ Asked = currentChannels
    BY <2>1 DEF Comparison, Compared, Asked
  <2>3. \A c \in Channels \ dirtyChannels : c \in currentChannels <=> c \in Desired
    BY <2>2 DEF Comparison, CurrentTrue
  <2>4. \A c \in Channels \ doubted : c \in remote <=> c \in currentChannels
    BY <2>2 DEF Comparison, RemoteTrue
  <2> QED
    BY <2>1, <2>3, <2>4, CompareTrue
<1>6. CASE Merge
  <2> DEFINE dirty == dirtyChannels \cup worker.failed
             current == (currentChannels \cup (worker.subscribe \ worker.failed))
                            \ (worker.unsubscribe \ worker.failed)
  <2>1. Compare(dirty, current) /\ worker.stage = "merging"
    BY <1>6 DEF Merge
  <2>2. \A c \in Channels \ dirty : c \in current <=> c \in Desired
    BY DEF Comparison, CurrentTrue
  <2>3. \A c \in Channels \ doubted : c \in remote <=> c \in current
    BY <2>1 DEF Comparison, Compared, RemoteTrue, Asked
  <2> HIDE DEF dirty, current
  <2> QED
    BY <2>1, <2>2, <2>3, CompareTrue
<1> QED
  BY <1>2, <1>3, <1>4, <1>5, <1>6, CommandTrue DEF Next, WorkerStep

\* A channel neither dirty nor in the worker's hands is current iff it has subscribers, and
\* redis agrees unless the last command about it failed.
THEOREM ReconciledAlways == Spec => []Reconciled
<1>1. TypeOK /\ Comparison => Reconciled
  BY DEF Comparison, CurrentTrue, RemoteTrue, Asked, Reconciled
<1> QED
  BY <1>1, TypeCorrect, ListedInit, ListedStep, ComparisonInit, ComparisonStep, PTL DEF Spec

----------------------------------------------------------------------------
\* Coming to rest.

\* No subscription's buffer holds more than its size.
Bounded == \A s \in Subscribers : Len(msgChan[s]) <= Size

\* Each step keeps Bounded: readWorker writes only where there is room.
LEMMA BoundedStep ==
    ASSUME TypeOK, Bounded, [Next]_vars
    PROVE  Bounded'
<1> USE DEF subVars
<1>0. /\ Size \in Nat /\ msgChan \in [Subscribers -> Seq(Messages)]
      /\ \A s \in Subscribers : Len(msgChan[s]) \in Nat
  BY RedisBusAssumption DEF TypeOK
<1> HIDE DEF TypeOK
<1>1. ASSUME msgChan' = msgChan PROVE Bounded'
  BY <1>1 DEF Bounded
<1>2. ASSUME NEW s \in Subscribers, NEW q, msgChan' = [msgChan EXCEPT ![s] = q], Len(q) <= Size
      PROVE  Bounded'
  <2>1. \A n \in Subscribers : msgChan'[n] = IF n = s THEN q ELSE msgChan[n]
    BY <1>0, <1>2
  <2> QED
    BY <1>2, <2>1 DEF Bounded
<1>3. ASSUME NEW s \in Subscribers, Unsubscribe(s) PROVE Bounded'
  <2>1. msgChan' = [msgChan EXCEPT ![s] = << >>]
    BY <1>3, Zenon DEF Unsubscribe, Leave
  <2>2. Len(<< >>) <= Size
    BY <1>0
  <2> QED
    BY <1>2, <2>1, <2>2
<1>4. ASSUME NEW s \in Subscribers, Consume(s) PROVE Bounded'
  <2>1. msgChan' = [msgChan EXCEPT ![s] = Tail(msgChan[s])] /\ msgChan[s] # << >>
    BY <1>4, Zenon DEF Consume
  <2>2. PICK q : q = msgChan[s]
    OBVIOUS
  <2>3. q \in Seq(Messages) /\ q # << >> /\ Len(q) <= Size
    BY <1>0, <2>1, <2>2 DEF Bounded
  <2>4. Len(Tail(q)) <= Size
    BY <1>0, <2>3
  <2> QED
    BY <1>2, <2>1, <2>2, <2>4
<1>5. CASE Write
  <2>1. PICK s : s = Head(reading.targets)
    OBVIOUS
  <2>2. \/ msgChan' = msgChan
        \/ /\ msgChan' = [msgChan EXCEPT ![s] = Append(msgChan[s], reading.msg)]
           /\ Len(msgChan[s]) < Size
    BY <1>5, <2>1, Zenon DEF Write
  <2>3. s \in Subscribers
    <3>1. reading \in Reading
      BY <1>5 DEF TypeOK, Write, Reading
    <3> QED
      BY <2>1, <3>1 DEF Reading
  <2>4. ASSUME NEW q \in Seq(Messages), NEW e, Len(q) < Size PROVE Len(Append(q, e)) <= Size
    BY <1>0, <2>4
  <2>5. msgChan[s] \in Seq(Messages)
    BY <1>0, <2>3
  <2> QED
    BY <1>1, <1>2, <2>2, <2>3, <2>4, <2>5
<1>6. CASE \/ UNCHANGED vars \/ WorkerStep \/ Receive
           \/ \E m \in Messages : Publish(m) \/ EnqueueExec(m) \/ ExecStep(m) \/ Deliver(m)
           \/ \E s \in Subscribers : Subscribe(s) \/ Cancel(s)
  <2>1. msgChan' = msgChan
    BY <1>6, Zenon DEF vars, WorkerStep, Wake, Drain, Reconciliation, Compare, SubscribeInRedis,
       UnsubscribeInRedis, Command, Merge, Receive, Publish, EnqueueExec, ExecStep, Check, Send,
       Drained, Deliver, Subscribe, Cancel
  <2> QED
    BY <1>1, <2>1
<1> QED
  BY <1>3, <1>4, <1>5, <1>6 DEF Next

\* Only who has subscribed and not unsubscribed has messages.
Filled == \A s \in Subscribers : msgChan[s] # << >> => spc[s] \in {"open", "cancelled"}

\* Each step keeps Filled: readWorker writes to those who are open or cancelled, and who
\* unsubscribes loses what it has.
LEMMA FilledStep ==
    ASSUME TypeOK, TargetsOpen, Filled, [Next]_vars
    PROVE  Filled'
<1> USE DEF subVars
<1>0. /\ msgChan \in [Subscribers -> Seq(Messages)] /\ DOMAIN spc = Subscribers
      /\ \A s \in Subscribers : spc[s] \in {"new", "open", "cancelled", "closed"}
  BY DEF TypeOK
<1> HIDE DEF TypeOK
<1>1. ASSUME msgChan' = msgChan,
             \A s \in Subscribers : spc[s] \in {"open", "cancelled"} =>
                                       spc'[s] \in {"open", "cancelled"}
      PROVE  Filled'
  BY <1>1 DEF Filled
<1>2. ASSUME NEW s \in Subscribers, NEW q, msgChan' = [msgChan EXCEPT ![s] = q], spc' = spc,
             spc[s] \in {"open", "cancelled"}
      PROVE  Filled'
  <2>1. \A n \in Subscribers : msgChan'[n] = IF n = s THEN q ELSE msgChan[n]
    BY <1>0, <1>2
  <2> QED
    BY <1>2, <2>1 DEF Filled
<1>3. ASSUME NEW s \in Subscribers, Unsubscribe(s) PROVE Filled'
  <2>1. msgChan' = [msgChan EXCEPT ![s] = << >>] /\ spc' = [spc EXCEPT ![s] = "closed"]
    BY <1>3, Zenon DEF Unsubscribe, Leave
  <2>2. \A n \in Subscribers : /\ msgChan'[n] = IF n = s THEN << >> ELSE msgChan[n]
                               /\ n # s => spc'[n] = spc[n]
    BY <1>0, <2>1
  <2> QED
    BY <2>2 DEF Filled
<1>4. ASSUME NEW s \in Subscribers, Consume(s) PROVE Filled'
  <2>1. msgChan' = [msgChan EXCEPT ![s] = Tail(msgChan[s])] /\ msgChan[s] # << >> /\ spc' = spc
    BY <1>4, Zenon DEF Consume
  <2> QED
    BY <1>2, <2>1 DEF Filled
<1>5. CASE Write
  <2>1. PICK s : s = Head(reading.targets)
    OBVIOUS
  <2>2. /\ spc' = spc
        /\ \/ msgChan' = msgChan
           \/ msgChan' = [msgChan EXCEPT ![s] = Append(msgChan[s], reading.msg)]
    BY <1>5, <2>1, Zenon DEF Write
  <2>3. s \in Subscribers /\ spc[s] \in {"open", "cancelled"}
    <3>1. reading \in Reading /\ reading # None
      BY <1>5 DEF TypeOK, Write, Reading
    <3>2. 1 \in DOMAIN reading.targets /\ s = reading.targets[1] /\ s \in Subscribers
      BY <2>1, <3>1 DEF Reading
    <3> QED
      BY <3>1, <3>2 DEF TargetsOpen
  <2> QED
    BY <1>1, <1>2, <2>2, <2>3
<1>6. ASSUME NEW s \in Subscribers, Subscribe(s) \/ Cancel(s) PROVE Filled'
  <2>1. msgChan' = msgChan /\ \E to \in {"open", "cancelled"} : spc' = [spc EXCEPT ![s] = to]
    BY <1>6, Zenon DEF Subscribe, Cancel
  <2> QED
    BY <1>0, <1>1, <2>1
<1>7. CASE \/ UNCHANGED vars \/ WorkerStep \/ Receive
           \/ \E m \in Messages : Publish(m) \/ EnqueueExec(m) \/ ExecStep(m) \/ Deliver(m)
  <2>1. msgChan' = msgChan /\ spc' = spc
    BY <1>7, Zenon DEF vars, WorkerStep, Wake, Drain, Reconciliation, Compare, SubscribeInRedis,
       UnsubscribeInRedis, Command, Merge, Receive, Publish, EnqueueExec, ExecStep, Check, Send,
       Drained, Deliver
  <2> QED
    BY <1>1, <2>1
<1> QED
  BY <1>3, <1>4, <1>5, <1>6, <1>7 DEF Next

\* When no guard holds readWorker is stuck, or all the work is done.
LEMMA RestsThen ==
    ASSUME TypeOK, WorkIsNeverForgotten, Bounded, Filled, ~ CanGoOn
    PROVE  AtRest
<1>1. \A m \in Messages : /\ ppc[m] \notin {"enqueueing", "signalling"} /\ exec[m] # "draining"
                          /\ Unlocked => ppc[m] # "calling" /\ exec[m] # "checking"
  BY DEF CanGoOn
<1>2. \A s \in Subscribers : /\ msgChan[s] # << >> => ~ Reads(s)
                             /\ ToClose(s) => Busy(Reader[s])
                             /\ Unlocked => spc[s] # "cancelled" /\ ~ ToSubscribe(s)
  BY DEF CanGoOn
<1>3. /\ worker.stage \notin {"draining", "subscribing", "unsubscribing"}
      /\ worker.stage = "waiting" => ~ wakeup
      /\ Unlocked => worker.stage \notin {"comparing", "merging"} /\ inbound = << >>
  BY DEF CanGoOn
<1>4. ~ Unlocked => \A s : s = Head(reading.targets) =>
                              ~ (Len(msgChan[s]) < Size) /\ spc[s] = "open"
  BY DEF CanGoOn
<1>5. \A g : Busy(g) => \E m \in Messages : Author[m] = g /\ ppc[m] = "calling"
  BY <1>1 DEF Busy, TypeOK
<1>6. CASE ~ Unlocked
  <2>1. PICK s : s = Head(reading.targets)
    OBVIOUS
  <2>2. reading # None /\ s \in Subscribers
    <3>1. reading # None /\ reading \in Reading
      BY <1>6 DEF TypeOK, Unlocked, Reading
    <3> QED
      BY <2>1, <3>1 DEF Reading
  <2>3. PICK q : q = msgChan[s]
    OBVIOUS
  <2>4. q \in Seq(Messages) /\ Size \in Nat \ {0} /\ Len(q) <= Size /\ ~ (Len(q) < Size)
    BY <1>4, <1>6, <2>1, <2>2, <2>3, RedisBusAssumption DEF TypeOK, Bounded
  <2>5. Len(q) = Size /\ q # << >>
    BY <2>4
  <2>6. spc[s] = "open" /\ Waits(s)
    <3>1. spc[s] = "open" /\ ~ Reads(s) /\ (ToClose(s) => Busy(Reader[s]))
      BY <1>2, <1>4, <1>6, <2>1, <2>2, <2>3, <2>5
    <3>2. CASE Busy(Reader[s])
      BY <1>5, <3>1, <3>2 DEF Waits
    <3>3. CASE ~ AllMade(s)
      BY <3>1, <3>3 DEF Waits
    <3>4. CASE AllMade(s) /\ ~ Busy(Reader[s])
      <4>1. Reader[s] \in Leavers /\ \E t \in Together(s) : spc[t] # "open"
        BY <3>1, <3>4 DEF Reads
      <4>2. \A t \in Together(s) : spc[t] \in {"open", "cancelled", "closed"}
        BY <3>4 DEF AllMade, Together, TypeOK
      <4>3. \E t \in Together(s) : spc[t] = "cancelled"
        BY <3>1, <3>4, <4>1, <4>2 DEF ToClose
      <4> QED
        BY <3>1, <4>1, <4>3 DEF Waits
    <3> QED
      BY <3>2, <3>3, <3>4
  <2> QED
    BY <2>1, <2>2, <2>3, <2>5, <2>6 DEF AtRest, Stuck
<1>7. CASE Unlocked
  <2>1. worker.stage = "waiting" /\ ~ wakeup
    BY <1>3, <1>7 DEF TypeOK
  <2>2. \A m \in Messages : /\ ppc[m] \in {"idle", "returned"}
                            /\ exec[m] \in {"none", "ended"}
    BY <1>1, <1>7 DEF TypeOK
  <2>3. ops = << >>
    BY <2>1, <2>2 DEF WorkIsNeverForgotten
  <2>4. \A o : o \notin Elements(ops)
    BY <2>3 DEF Elements
  <2>5. dirtyChannels = {}
    BY <2>1, <2>4 DEF WorkIsNeverForgotten
  <2>6. ASSUME NEW c \in Channels PROVE publishOps[c] = None
    <3>1. PICK q : q = publishOps[c]
      OBVIOUS
    <3>2. q # None => \/ ppc[q] = "enqueueing" \/ Exec(q) \in Elements(ops)
                      \/ exec[q] \in {"checking", "draining"}
      BY <3>1 DEF WorkIsNeverForgotten
    <3>3. q \in Messages \cup {None}
      BY <3>1 DEF TypeOK
    <3> QED
      BY <2>2, <2>4, <3>1, <3>2, <3>3
  <2>7. /\ \A g : ~ Busy(g)
        /\ \A s \in Subscribers : ~ ToClose(s) /\ ~ ToSubscribe(s) /\ spc[s] # "cancelled"
    BY <1>2, <1>5, <1>7, <2>2
  <2>8. ASSUME NEW s \in Subscribers PROVE msgChan[s] = << >>
    <3> SUFFICES ASSUME msgChan[s] # << >> PROVE Reads(s)
      BY <1>2
    <3>1. spc[s] = "open"
      BY <2>7 DEF Filled
    <3>2. ASSUME NEW t \in Together(s)
          PROVE  spc[t] # "new" /\ (Reader[s] \in Leavers => spc[t] # "closed")
      <4>1. t \in Subscribers /\ s \in Together(t) /\ ~ ToSubscribe(t) /\ ~ ToClose(s)
        BY <2>7 DEF Together
      <4>2. \A r \in Together(s) : spc[r] # "cancelled"
        BY <2>7 DEF Together
      <4> QED
        BY <3>1, <4>1, <4>2 DEF ToSubscribe, ToClose
    <3>3. \A t \in Together(s) : spc[t] \in {"new", "open", "cancelled", "closed"}
                                 /\ spc[t] # "cancelled"
      BY <2>7 DEF Together, TypeOK
    <3> QED
      BY <2>7, <3>2, <3>3 DEF Reads, AllMade
  <2> QED
    BY <1>3, <1>7, <2>1, <2>3, <2>5, <2>6, <2>7, <2>8 DEF AtRest, Unlocked
<1> QED
  BY <1>6, <1>7

\* Left alone the bus comes to rest with everything published, reconciled and read, and no
\* Subscribe or Close waiting, but for one kind of deadlock: readWorker, holding r.mu, waits
\* for a reader that waits for r.mu, in a Publish, a Subscribe or a Close (bus_redis.go:192).
THEOREM ComesToRest == Spec => []AtRest
<1>1. Init => Bounded /\ Filled /\ TargetsOpen
  BY RedisBusAssumption DEF Init, Bounded, Filled, TargetsOpen
<1>2. TypeOK /\ Bounded /\ [Next]_vars => Bounded'
  BY BoundedStep
<1>3. TypeOK /\ TargetsOpen /\ Filled /\ [Next]_vars => Filled'
  BY FilledStep
<1>4. TypeOK /\ WorkIsNeverForgotten /\ Bounded /\ Filled => AtRest
  BY RestsThen DEF AtRest
<1> QED
  BY <1>1, <1>2, <1>3, <1>4, TypeCorrect, WorkRemembered, ListedInit, ListedStep,
     TargetsOpenStep, PTL DEF Spec
=============================================================================
