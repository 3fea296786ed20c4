--------------------------- MODULE NatsBus_proofs ---------------------------
(***************************************************************************)
(* Theorems about NatsBus, for every set of subscribers and messages, any  *)
(* channels and any size of the buffers.                                   *)
(***************************************************************************)
EXTENDS NatsBus, TLAPS

SubState == {"new", "opening", "subscribing", "open", "failing", "failed", "cancelled",
             "removing", "removed", "closed"}

USE DEF Routers

----------------------------------------------------------------------------
\* Sequences.

\* The elements of a sequence that grew, and of one that lost its head.
LEMMA ElementsAppend ==
    ASSUME NEW T, NEW L \in Seq(T), NEW e
    PROVE  Elements(Append(L, e)) = Elements(L) \cup {e}
<1>1. /\ DOMAIN Append(L, e) = 1..Len(L) + 1 /\ DOMAIN L = 1..Len(L) /\ Len(L) \in Nat
      /\ \A i \in 1..Len(L) : Append(L, e)[i] = L[i]
      /\ Append(L, e)[Len(L) + 1] = e
  OBVIOUS
<1> QED
  BY <1>1 DEF Elements

\* A sequence has its head and what its tail has.
LEMMA ElementsTail ==
    ASSUME NEW T, NEW L \in Seq(T), L # << >>
    PROVE  Elements(L) = {Head(L)} \cup Elements(Tail(L))
<1>1. /\ DOMAIN Tail(L) = 1..Len(L) - 1 /\ DOMAIN L = 1..Len(L) /\ Len(L) \in Nat \ {0}
      /\ \A i \in 1..Len(L) - 1 : Tail(L)[i] = L[i + 1]
      /\ Head(L) = L[1]
  OBVIOUS
<1>2. \A i \in 1..Len(L) : i = 1 \/ (i - 1 \in 1..Len(L) - 1 /\ (i - 1) + 1 = i)
  BY <1>1
<1>3. \A i \in 1..Len(L) - 1 : i + 1 \in 1..Len(L)
  BY <1>1
<1>4. 1 \in 1..Len(L)
  BY <1>1
<1>5. Elements(L) \subseteq {Head(L)} \cup Elements(Tail(L))
  <2> SUFFICES ASSUME NEW i \in 1..Len(L) PROVE L[i] \in {Head(L)} \cup Elements(Tail(L))
    BY <1>1 DEF Elements
  <2>1. CASE i # 1
    <3>1. i - 1 \in DOMAIN Tail(L) /\ Tail(L)[i - 1] = L[i]
      BY <1>1, <1>2, <2>1
    <3> QED
      BY <3>1 DEF Elements
  <2> QED
    BY <1>1, <2>1
<1>6. {Head(L)} \cup Elements(Tail(L)) \subseteq Elements(L)
  BY <1>1, <1>3, <1>4 DEF Elements
<1> QED
  BY <1>5, <1>6

\* The elements of a sequence over T are in T.
LEMMA ElementsType ==
    ASSUME NEW T, NEW L \in Seq(T)
    PROVE  Elements(L) \subseteq T
  BY DEF Elements

\* No element occurs twice.
Distinct(L) == \A i, j \in DOMAIN L : L[i] = L[j] => i = j

\* An element that was not there can be appended.
LEMMA DistinctAppend ==
    ASSUME NEW T, NEW L \in Seq(T), Distinct(L), NEW e, e \notin Elements(L)
    PROVE  Distinct(Append(L, e))
<1>1. /\ DOMAIN Append(L, e) = 1..Len(L) + 1 /\ DOMAIN L = 1..Len(L) /\ Len(L) \in Nat
      /\ \A i \in 1..Len(L) : Append(L, e)[i] = L[i]
      /\ Append(L, e)[Len(L) + 1] = e
  OBVIOUS
<1>2. \A i \in 1..Len(L) + 1 : i \in 1..Len(L) \/ i = Len(L) + 1
  BY <1>1
<1>3. \A i \in 1..Len(L) : L[i] # e
  BY <1>1 DEF Elements
<1> QED
  BY <1>1, <1>2, <1>3 DEF Distinct

\* The head of a sequence without repetition is not in its tail.
LEMMA DistinctTail ==
    ASSUME NEW T, NEW L \in Seq(T), L # << >>, Distinct(L)
    PROVE  Distinct(Tail(L)) /\ Head(L) \notin Elements(Tail(L))
<1>1. /\ DOMAIN Tail(L) = 1..Len(L) - 1 /\ DOMAIN L = 1..Len(L) /\ Len(L) \in Nat \ {0}
      /\ \A i \in 1..Len(L) - 1 : Tail(L)[i] = L[i + 1]
      /\ Head(L) = L[1]
  OBVIOUS
<1>2. \A i \in 1..Len(L) - 1 : i + 1 \in 1..Len(L) /\ i + 1 # 1
  BY <1>1
<1>3. 1 \in 1..Len(L)
  BY <1>1
<1>4. \A i, j \in 1..Len(L) - 1 : i + 1 = j + 1 => i = j
  BY <1>1
<1>5. Distinct(Tail(L))
  BY <1>1, <1>2, <1>4 DEF Distinct
<1>6. ASSUME Head(L) \in Elements(Tail(L)) PROVE FALSE
  <2>1. PICK i \in 1..Len(L) - 1 : Tail(L)[i] = Head(L)
    BY <1>1, <1>6 DEF Elements
  <2> QED
    BY <1>1, <1>2, <1>3, <2>1 DEF Distinct
<1> QED
  BY <1>5, <1>6

\* L lists the members of S, each once.
Lists(L, S) == Elements(L) = S /\ Distinct(L)

\* The empty list lists nobody.
LEMMA ListsEmpty == Lists(<< >>, {})
  BY DEF Lists, Elements, Distinct

\* A list with a new member lists it too.
LEMMA ListsAppend ==
    ASSUME NEW T, NEW L \in Seq(T), NEW S, Lists(L, S), NEW s, s \notin S
    PROVE  Lists(Append(L, s), S \cup {s})
  BY ElementsAppend, DistinctAppend DEF Lists

\* A list without a member lists the others.
LEMMA ListsWithout ==
    ASSUME NEW L \in Seq(Subscribers), NEW S, Lists(L, S), NEW s \in S
    PROVE  /\ Without(L, s) \in Seq(Subscribers)
           /\ Lists(Without(L, s), S \ {s})
<1> DEFINE k == CHOOSE i \in DOMAIN L : L[i] = s
           n == Len(L) - 1
           from(j) == IF j < k THEN j ELSE j + 1
<1>1. k \in DOMAIN L /\ L[k] = s
  BY DEF Lists, Elements
<1>2. DOMAIN L = 1..Len(L) /\ Len(L) \in Nat
  OBVIOUS
<1>3. n \in Nat /\ Len(L) = n + 1 /\ k \in 1..n + 1
  BY <1>1, <1>2
<1> HIDE DEF k, n
<1>4. \A j \in 1..n : from(j) \in 1..n + 1 /\ from(j) # k
  BY <1>3
<1>5. \A i, j \in 1..n : from(i) = from(j) => i = j
  BY <1>3
<1>6. \A i \in 1..n + 1 : i # k => \E j \in 1..n : from(j) = i
  <2> SUFFICES ASSUME NEW i \in 1..n + 1, i # k PROVE \E j \in 1..n : from(j) = i
    OBVIOUS
  <2>1. CASE i < k
    <3>1. i \in 1..n /\ from(i) = i
      BY <1>3, <2>1
    <3> QED
      BY <3>1
  <2>2. CASE i > k
    <3>1. i - 1 \in 1..n /\ from(i - 1) = i
      BY <1>3, <2>2
    <3> QED
      BY <3>1
  <2> QED
    BY <1>3, <2>1, <2>2
<1> HIDE DEF from
<1>7. Without(L, s) = [j \in 1..n |-> L[from(j)]]
  BY DEF Without, k, n, from
<1>8. \A j \in 1..n : L[from(j)] \in Subscribers
  BY <1>2, <1>3, <1>4
<1>9. Without(L, s) \in Seq(Subscribers)
  BY <1>3, <1>7, <1>8
<1>10. Elements(Without(L, s)) = {L[from(j)] : j \in 1..n}
  BY <1>7 DEF Elements
<1>11. {L[from(j)] : j \in 1..n} = S \ {s}
  <2>1. S = {L[i] : i \in 1..n + 1}
    BY <1>2, <1>3 DEF Lists, Elements
  <2>2. \A i \in 1..n + 1 : L[i] = s <=> i = k
    BY <1>1, <1>2, <1>3 DEF Lists, Distinct
  <2> QED
    BY <1>4, <1>6, <2>1, <2>2
<1>12. \A i, j \in 1..n : L[from(i)] = L[from(j)] => i = j
  BY <1>2, <1>3, <1>4, <1>5 DEF Lists, Distinct
<1> QED
  BY <1>7, <1>9, <1>10, <1>11, <1>12 DEF Lists, Distinct

\* Without gives a sequence whatever it is given.
LEMMA WithoutType ==
    ASSUME NEW L \in Seq(Subscribers), NEW s
    PROVE  Without(L, s) \in Seq(Subscribers)
<1> DEFINE k == CHOOSE i \in DOMAIN L : L[i] = s
           n == Len(L) - 1
           from(j) == IF j < k THEN j ELSE j + 1
<1>1. Len(L) \in Nat /\ DOMAIN L = 1..Len(L)
  OBVIOUS
<1> HIDE DEF k
<1>2. \A j \in 1..n : L[from(j)] \in Subscribers
  BY <1>1
<1>3. [j \in 1..n |-> L[from(j)]] \in Seq(Subscribers)
  <2>1. CASE n \in Nat
    BY <1>2, <2>1
  <2>2. CASE n \notin Nat
    <3>1. n = 0 - 1 /\ 1..n = 1..0
      BY <1>1, <2>2
    <3> HIDE DEF n, from
    <3>2. \A j \in 1..0 : L[from(j)] \in Subscribers
      BY <1>2, <3>1
    <3>3. [j \in 1..0 |-> L[from(j)]] \in Seq(Subscribers)
      BY <3>2
    <3> QED
      BY <3>1, <3>3
  <2> QED
    BY <2>1, <2>2
<1> QED
  BY <1>3 DEF Without, k

----------------------------------------------------------------------------
\* Types.

\* The steps there are, by who takes them.
LEMMA Steps ==
    ASSUME [panicked = None /\ Next]_vars
    PROVE  \/ UNCHANGED vars
           \/ \E s \in Subscribers : \/ SubscribeNext(s) \/ Cancel(s) \/ CloseNext(s)
                                     \/ CallbackNext(s) \/ Read(s)
           \/ \E m \in Messages : Publish(m)
  BY DEF Next, Progress

\* The types hold at the start.
LEMMA TypeInit == Init => TypeOK
<1> SUFFICES ASSUME Init PROVE TypeOK
  OBVIOUS
<1> USE NatsBusAssumption DEF Init
<1>1. /\ routers \in [ServerParts -> Routers \cup {None}]
      /\ routes \in [Routers -> [LocalParts -> Seq(Subscribers)]]
      /\ spc \in [Subscribers -> SubState] /\ home \in [Subscribers -> Routers \cup {None}]
      /\ todo \in [Subscribers -> Seq(Subscribers)]
  BY DEF SubState
<1>2. /\ msgChan \in [Subscribers -> Seq(Messages)] /\ got \in [Subscribers -> Seq(Messages)]
      /\ inbox \in [Subscribers -> Seq(Messages)]
      /\ \A s \in Subscribers : Len(msgChan[s]) <= Size
  OBVIOUS
<1>3. /\ msgClosed \in [Subscribers -> BOOLEAN] /\ locked \in [Subscribers -> BOOLEAN]
      /\ calling \in [Subscribers -> Messages \cup {None}]
      /\ owed \in [Messages -> SUBSET Subscribers]
      /\ published \subseteq Messages /\ active \subseteq Subscribers
  OBVIOUS
<1> QED
  BY <1>1, <1>2, <1>3 DEF TypeOK, SubState

\* The parts of a channel's name are among those there are.
LEMMA ChannelType ==
    /\ \A s \in Subscribers : Server[s] \in ServerParts
    /\ \A x \in Subscribers \cup Messages : Local[x] \in LocalParts
  BY DEF ServerParts, LocalParts

\* A function that one value of its range is assigned keeps its type.
LEMMA ExceptType ==
    ASSUME NEW S, NEW T, NEW f \in [S -> T], NEW a, NEW t \in T
    PROVE  [f EXCEPT ![a] = t] \in [S -> T]
  OBVIOUS

\* The types of what subscribing and closing change.
LEMMA SubscriberType ==
    ASSUME TypeOK, NEW s \in Subscribers, SubscribeNext(s) \/ Cancel(s) \/ CloseNext(s)
    PROVE  TypeOK'
<1> USE DEF TypeOK, busVars, subVars, chanVars, natsVars, callVars
<1>1. spc' \in [Subscribers -> SubState]
  <2>1. \A from, to \in SubState : Goes(s, from, to) => spc' \in [Subscribers -> SubState]
    BY DEF Goes, SubState
  <2>2. \E from, to \in SubState : Goes(s, from, to)
    BY DEF SubscribeNext, Subscribe, FindRouter, Open, SubscribeRouter, Forget, Cancel, CloseNext,
           Unsubscribe, UnsubscribeRouter, LeaveRouter, CloseChan, SubState
  <2> QED
    BY <2>1, <2>2
<1>2. Server[s] \in ServerParts /\ Local[s] \in LocalParts
  BY ChannelType
<1>3. ASSUME NEW r \in Routers \cup {None}, NEW L \in Seq(Subscribers)
      PROVE  [routes EXCEPT ![r][Local[s]] = L] \in [Routers -> [LocalParts -> Seq(Subscribers)]]
  <2>1. r \in Routers => [routes[r] EXCEPT ![Local[s]] = L] \in [LocalParts -> Seq(Subscribers)]
    BY <1>2, <1>3
  <2>2. [routes EXCEPT ![r][Local[s]] = L] =
           [routes EXCEPT ![r] = [routes[r] EXCEPT ![Local[s]] = L]]
    OBVIOUS
  <2> QED
    BY <2>1, <2>2
<1>4. CASE Subscribe(s)
  BY <1>1, <1>4 DEF Subscribe, SubState
<1>5. CASE FindRouter(s)
  <2>0. /\ UNCHANGED routers \/ routers' = [routers EXCEPT ![Server[s]] = s]
        /\ UNCHANGED home \/ home' = [home EXCEPT ![s] = s]
                          \/ home' = [home EXCEPT ![s] = routers[Server[s]]]
        /\ busHolder' \in Subscribers \cup {None}
    BY <1>5, SMT DEF FindRouter
  <2>01. s \in Routers /\ routers[Server[s]] \in Routers \cup {None}
    BY <1>2, SMT DEF Routers
  <2>02. routers \in [ServerParts -> Routers \cup {None}]
         /\ home \in [Subscribers -> Routers \cup {None}]
    OBVIOUS
  <2>1. routers' \in [ServerParts -> Routers \cup {None}] /\ busHolder' \in Subscribers \cup {None}
    <3> HIDE DEF TypeOK
    <3>1. [routers EXCEPT ![Server[s]] = s] \in [ServerParts -> Routers \cup {None}]
      BY <2>01, <2>02, ExceptType, Zenon
    <3> QED
      BY <2>0, <2>02, <3>1
  <2>2. home' \in [Subscribers -> Routers \cup {None}]
    <3> HIDE DEF TypeOK
    <3>1. ASSUME NEW r \in Routers \cup {None}, home' = [home EXCEPT ![s] = r]
          PROVE  home' \in [Subscribers -> Routers \cup {None}]
      BY <2>02, <3>1, ExceptType, Zenon
    <3> QED
      BY <2>0, <2>01, <2>02, <3>1
  <2>3. UNCHANGED <<routes, chanVars, natsVars, callVars>>
    BY <1>5 DEF FindRouter
  <2> QED
    BY <1>1, <2>1, <2>2, <2>3 DEF SubState
<1>6. CASE Open(s)
  <2>1. routes' = [routes EXCEPT ![home[s]][Local[s]] = Append(routes[home[s]][Local[s]], s)]
    BY <1>6 DEF Open
  <2>2. routes' \in [Routers -> [LocalParts -> Seq(Subscribers)]]
    <3>1. CASE home[s] \in Routers
      <4>1. Append(routes[home[s]][Local[s]], s) \in Seq(Subscribers)
        BY <1>2, <3>1
      <4> QED
        BY <1>3, <2>1, <3>1, <4>1
    <3>2. CASE home[s] \notin Routers
      BY <2>1, <3>2
    <3> QED
      BY <3>1, <3>2
  <2>3. busHolder' = None /\ UNCHANGED <<routers, home, chanVars, natsVars, callVars>>
    BY <1>6 DEF Open
  <2> QED
    BY <1>1, <2>2, <2>3 DEF SubState
<1>7. CASE SubscribeRouter(s)
  BY <1>1, <1>7 DEF SubscribeRouter, SubState
<1>8. CASE Forget(s)
  <2>1. routers' \in [ServerParts -> Routers \cup {None}]
    BY <1>2, <1>8 DEF Forget
  <2> QED
    BY <1>1, <1>8, <2>1 DEF Forget, SubState
<1>9. CASE Cancel(s)
  BY <1>1, <1>9 DEF Cancel, SubState
<1>10. CASE Unsubscribe(s)
  BY <1>1, <1>10 DEF Unsubscribe, SubState
<1>11. CASE UnsubscribeRouter(s)
  BY <1>1, <1>11 DEF UnsubscribeRouter, SubState
<1>12. CASE LeaveRouter(s)
  <2>1. routes' = [routes EXCEPT ![home[s]][Local[s]] = Without(routes[home[s]][Local[s]], s)]
    BY <1>12 DEF LeaveRouter
  <2>2. routes' \in [Routers -> [LocalParts -> Seq(Subscribers)]]
    <3>1. CASE home[s] \in Routers
      <4>1. Without(routes[home[s]][Local[s]], s) \in Seq(Subscribers)
        BY <1>2, <3>1, WithoutType
      <4> QED
        BY <1>3, <2>1, <3>1, <4>1
    <3>2. CASE home[s] \notin Routers
      BY <2>1, <3>2
    <3> QED
      BY <3>1, <3>2
  <2>3. routers' \in [ServerParts -> Routers \cup {None}] /\ active' \subseteq Subscribers
    BY <1>12 DEF LeaveRouter
  <2>4. busHolder' = None /\ UNCHANGED <<home, chanVars, published, inbox, owed, callVars>>
    BY <1>12 DEF LeaveRouter
  <2> QED
    BY <1>1, <2>2, <2>3, <2>4 DEF SubState
<1>13. CASE CloseChan(s)
  BY <1>1, <1>13 DEF CloseChan, SubState
<1> QED
  BY <1>4, <1>5, <1>6, <1>7, <1>8, <1>9, <1>10, <1>11, <1>12, <1>13 DEF SubscribeNext, CloseNext

\* The types of what messages change on their way.
LEMMA MessageType ==
    ASSUME TypeOK, \/ \E x \in Subscribers : CallbackNext(x) \/ Read(x)
                   \/ \E m \in Messages : Publish(m)
    PROVE  TypeOK'
<1> USE DEF TypeOK, busVars, subVars, chanVars, natsVars, callVars
<1>0. msgChan \in [Subscribers -> Seq(Messages)] /\ got \in [Subscribers -> Seq(Messages)]
      /\ inbox \in [Subscribers -> Seq(Messages)]
  OBVIOUS
<1>1. ASSUME NEW m \in Messages, Publish(m) PROVE TypeOK'
  <2>1. inbox' \in [Subscribers -> Seq(Messages)]
    <3>1. \A x \in Subscribers : Append(inbox[x], m) \in Seq(Messages)
      BY <1>0
    <3>2. PICK to : inbox' = [x \in Subscribers |-> IF x \in to THEN Append(inbox[x], m)
                                                     ELSE inbox[x]]
      BY <1>1 DEF Publish
    <3> QED
      BY <1>0, <3>1, <3>2
  <2>2. owed' \in [Messages -> SUBSET Subscribers]
    BY <1>1 DEF Publish, Audience
  <2> QED
    BY <1>1, <2>1, <2>2 DEF Publish
<1>2. ASSUME NEW x \in Subscribers, Deliver(x) PROVE TypeOK'
  <2>1. Head(inbox[x]) \in Messages /\ Tail(inbox[x]) \in Seq(Messages)
    BY <1>0, <1>2 DEF Deliver
  <2>2. inbox' \in [Subscribers -> Seq(Messages)]
    BY <1>0, <1>2, <2>1 DEF Deliver
  <2>3. calling' \in [Subscribers -> Messages \cup {None}]
    BY <1>2, <2>1 DEF Deliver
  <2>4. todo' \in [Subscribers -> Seq(Subscribers)]
    <3>1. <<x>> \in Seq(Subscribers) /\ << >> \in Seq(Subscribers)
      OBVIOUS
    <3> QED
      BY <1>2, <3>1 DEF Deliver
  <2>5. UNCHANGED <<busVars, subVars, chanVars, published, active, owed, locked>>
    BY <1>2 DEF Deliver
  <2> QED
    BY <2>2, <2>3, <2>4, <2>5
<1>3. ASSUME NEW x \in Subscribers, Route(x) PROVE TypeOK'
  <2>1. routes[x][Local[calling[x]]] \in Seq(Subscribers)
    BY <1>3, ChannelType DEF Route
  <2>2. todo' \in [Subscribers -> Seq(Subscribers)] /\ locked' \in [Subscribers -> BOOLEAN]
    BY <1>3, <2>1 DEF Route
  <2> QED
    BY <1>3, <2>2 DEF Route
<1>4. ASSUME NEW x \in Subscribers, Write(x) PROVE TypeOK'
  <2> DEFINE s == Head(todo[x])
  <2>1. s \in Subscribers /\ Tail(todo[x]) \in Seq(Subscribers) /\ calling[x] \in Messages
    BY <1>4 DEF Write
  <2> HIDE DEF s
  <2>2. todo' \in [Subscribers -> Seq(Subscribers)]
    BY <1>4, <2>1 DEF Write
  <2>3. /\ msgChan' \in [Subscribers -> Seq(Messages)]
        /\ \A n \in Subscribers : Len(msgChan'[n]) <= Size
    <3>1. CASE UNCHANGED msgChan
      BY <1>0, <3>1
    <3>2. CASE Len(msgChan[s]) < Size /\ msgChan' = [msgChan EXCEPT ![s] = Append(@, calling[x])]
      <4>1. /\ Append(msgChan[s], calling[x]) \in Seq(Messages)
            /\ Len(Append(msgChan[s], calling[x])) = Len(msgChan[s]) + 1
            /\ Len(msgChan[s]) \in Nat
        BY <1>0, <2>1
      <4>2. Len(Append(msgChan[s], calling[x])) <= Size
        BY <3>2, <4>1, NatsBusAssumption
      <4>3. \A n \in Subscribers : msgChan'[n] = IF n = s THEN Append(msgChan[s], calling[x])
                                                          ELSE msgChan[n]
        BY <1>0, <2>1, <3>2
      <4> HIDE DEF TypeOK
      <4>4. msgChan' \in [Subscribers -> Seq(Messages)]
        BY <1>0, <2>1, <3>2, <4>1
      <4> QED
        BY <4>2, <4>3, <4>4 DEF TypeOK
    <3> QED
      BY <1>4, <3>1, <3>2 DEF Write, s
  <2>4. panicked' \in Subscribers \cup {None}
    BY <1>4, <2>1 DEF Write, s
  <2>5. UNCHANGED <<busVars, subVars, msgClosed, got, natsVars, calling, locked>>
    BY <1>4 DEF Write
  <2> QED
    BY <2>2, <2>3, <2>4, <2>5
<1>5. ASSUME NEW x \in Subscribers, Return(x) PROVE TypeOK'
  BY <1>5 DEF Return
<1>6. ASSUME NEW x \in Subscribers, Read(x) PROVE TypeOK'
  <2>1. /\ Head(msgChan[x]) \in Messages /\ Tail(msgChan[x]) \in Seq(Messages)
        /\ Len(Tail(msgChan[x])) = Len(msgChan[x]) - 1 /\ Len(msgChan[x]) \in Nat
    BY <1>0, <1>6 DEF Read
  <2>2. Append(got[x], Head(msgChan[x])) \in Seq(Messages)
    BY <1>0, <2>1
  <2>3. got' \in [Subscribers -> Seq(Messages)] /\ msgChan' \in [Subscribers -> Seq(Messages)]
    BY <1>0, <1>6, <2>1, <2>2 DEF Read
  <2>4. Len(Tail(msgChan[x])) <= Size
    BY <2>1, NatsBusAssumption
  <2>5. \A n \in Subscribers : Len(msgChan'[n]) <= Size
    BY <1>0, <1>6, <2>4 DEF Read
  <2>6. UNCHANGED <<busVars, subVars, msgClosed, panicked, natsVars, callVars>>
    BY <1>6 DEF Read
  <2> QED
    BY <2>3, <2>5, <2>6
<1> QED
  BY <1>1, <1>2, <1>3, <1>4, <1>5, <1>6 DEF CallbackNext

\* Every variable keeps its type, and no buffer outgrows its size.
THEOREM TypeCorrect == Spec => []TypeOK
<1>1. TypeOK /\ [panicked = None /\ Next]_vars => TypeOK'
  <2> SUFFICES ASSUME TypeOK, [panicked = None /\ Next]_vars PROVE TypeOK'
    OBVIOUS
  <2>1. CASE UNCHANGED vars
    BY <2>1 DEF TypeOK, vars, busVars, subVars, chanVars, natsVars, callVars
  <2> QED
    BY <2>1, Steps, SubscriberType, MessageType
<1> QED
  BY <1>1, TypeInit, PTL DEF Spec

----------------------------------------------------------------------------
\* Routers and their subscribers.

\* What a callback, a consumer or a publisher does leaves the subscribers alone.
LEMMA MessageStep ==
    ASSUME \/ UNCHANGED vars \/ \E m \in Messages : Publish(m)
           \/ \E x \in Subscribers : CallbackNext(x) \/ Read(x)
    PROVE  UNCHANGED <<busVars, subVars, active, msgClosed>>
  BY DEF vars, Publish, CallbackNext, Deliver, Route, Write, Return, Read,
         busVars, subVars, chanVars, natsVars, callVars

\* What a subscriber does leaves the messages alone.
LEMMA SubscriberStep ==
    ASSUME NEW s \in Subscribers, SubscribeNext(s) \/ Cancel(s) \/ CloseNext(s)
    PROVE  UNCHANGED <<published, inbox, owed, callVars, msgChan, got, panicked>>
  BY DEF SubscribeNext, Subscribe, FindRouter, Open, SubscribeRouter, Forget, Cancel, CloseNext,
         Unsubscribe, UnsubscribeRouter, LeaveRouter, CloseChan,
         busVars, subVars, chanVars, natsVars, callVars

\* A subscriber that goes from one place to another, and nobody else, moves.
LEMMA GoesTo ==
    ASSUME TypeOK, NEW s \in Subscribers, NEW from, NEW to, Goes(s, from, to)
    PROVE  spc[s] = from /\ \A n \in Subscribers : spc'[n] = IF n = s THEN to ELSE spc[n]
  BY DEF TypeOK, Goes

\* Who has a router has that of its channel and kind; and whoever joined one did so when
\* its maker had opened it.
Homes ==
    \A s \in Subscribers :
       /\ home[s] # None =>
             LET r == home[s] IN
             /\ s \notin Direct /\ r \notin Direct /\ Server[r] = Server[s]
             /\ home[r] = r /\ (r \in Queue <=> s \in Queue)
             /\ r # s => spc[r] # "opening"
       /\ spc[s] = "new" => home[s] = None
       /\ s \notin Direct /\ spc[s] \notin {"new", "failed"} => home[s] # None
       /\ spc[s] \in {"opening", "subscribing", "failing", "removing"} => s \notin Direct
       /\ spc[s] \in {"subscribing", "failing"} => home[s] = s

\* n.mu is held by whoever waits for a router's mutex.
Held == \A s \in Subscribers : spc[s] \in {"opening", "removing"} <=> busHolder = s

\* A router in the map is subscribed, or its maker is at it.
MapTrue ==
    \A c \in ServerParts :
       routers[c] # None =>
          LET r == routers[c] IN
          /\ home[r] = r /\ Server[r] = c
          /\ r \in active \/ spc[r] \in {"opening", "subscribing", "failing"}

\* A router that is subscribed is in the map.
ActiveMapped ==
    \A r \in active \ Direct :
       /\ home[r] = r /\ routers[Server[r]] = r
       /\ spc[r] \notin {"new", "opening", "subscribing", "failing", "failed"}

\* A subscriber's router is in the map, unless it failed.
HomeMapped ==
    \A t \in Subscribers \ Direct :
       spc[t] \in {"opening", "subscribing", "open", "failing", "cancelled", "removing"} =>
          routers[Server[t]] = home[t] \/ spc[home[t]] = "failed"

\* Each step keeps Homes: who has a router has that of its channel, which its maker had
\* opened.
LEMMA HomesStep ==
    ASSUME TypeOK, Homes, Held, MapTrue, [panicked = None /\ Next]_vars
    PROVE  Homes'
<1> USE NatsBusAssumption
<1>0. \A n \in Subscribers : home[n] \in Subscribers \cup {None}
  BY DEF TypeOK
<1>1. CASE UNCHANGED subVars
  BY <1>1 DEF Homes, subVars
<1>2. ASSUME NEW s \in Subscribers, NEW from, NEW to, Goes(s, from, to), UNCHANGED home,
             to \notin {"new", "opening", "subscribing", "failing"}, from # "new" \/ s \in Direct,
             to = "removing" => s \notin Direct, from # "failed",
             to = "failed" \/ to \in SubState
      PROVE  Homes'
  <2>1. spc[s] = from /\ \A n \in Subscribers : spc'[n] = IF n = s THEN to ELSE spc[n]
    BY <1>2, GoesTo
  <2> SUFFICES ASSUME NEW n \in Subscribers
               PROVE (/\ home[n] # None =>
                            LET r == home[n] IN
                            /\ n \notin Direct /\ r \notin Direct /\ Server[r] = Server[n]
                            /\ home[r] = r /\ (r \in Queue <=> n \in Queue)
                            /\ r # n => spc[r] # "opening"
                      /\ spc[n] = "new" => home[n] = None
                      /\ n \notin Direct /\ spc[n] \notin {"new", "failed"} => home[n] # None
                      /\ spc[n] \in {"opening", "subscribing", "failing", "removing"} =>
                            n \notin Direct
                      /\ spc[n] \in {"subscribing", "failing"} => home[n] = n)'
    BY DEF Homes
  <2> QED
    BY <1>0, <1>2, <2>1 DEF Homes, Direct
<1>3. ASSUME NEW s \in Subscribers, Open(s) PROVE Homes'
  <2> DEFINE to == IF home[s] = s THEN "subscribing" ELSE "open"
  <2>1. /\ spc[s] = "opening" /\ UNCHANGED home
        /\ \A n \in Subscribers : spc'[n] = IF n = s THEN to ELSE spc[n]
    BY <1>3, GoesTo DEF Open
  <2>2. s \notin Direct
    BY <2>1 DEF Homes
  <2> QED
    BY <1>0, <2>1, <2>2 DEF Homes, Direct
<1>4. ASSUME NEW s \in Subscribers, FindRouter(s) PROVE Homes'
  <2>1. s \notin Direct /\ busHolder = None /\ Server[s] \in ServerParts
    BY <1>4, ChannelType DEF FindRouter
  <2>2. \A n \in Subscribers : spc[n] # "opening"
    BY <2>1 DEF Held
  <2>3. CASE Goes(s, "new", "failed") /\ UNCHANGED home
    <3>1. /\ spc[s] = "new"
          /\ \A n \in Subscribers : spc'[n] = IF n = s THEN "failed" ELSE spc[n]
      BY <2>3, GoesTo
    <3> QED
      BY <1>0, <2>1, <2>3, <3>1 DEF Homes, Direct
  <2>4. ASSUME NEW r \in Subscribers, Goes(s, "new", "opening"), home' = [home EXCEPT ![s] = r],
               r = s \/ (r = routers[Server[s]] /\ (r \in Queue) = (s \in Queue))
        PROVE  Homes'
    <3>1. /\ spc[s] = "new"
          /\ \A n \in Subscribers : spc'[n] = IF n = s THEN "opening" ELSE spc[n]
      BY <2>4, GoesTo
    <3>2. \A n \in Subscribers : home'[n] = IF n = s THEN r ELSE home[n]
      BY <2>4 DEF TypeOK
    <3>3. home[s] = None
      BY <3>1 DEF Homes
    <3>4. \A n \in Subscribers : home[n] # s
      BY <3>3 DEF Homes
    <3>5. r # s => home[r] = r /\ Server[r] = Server[s] /\ r \notin Direct
      BY <2>1, <2>4 DEF MapTrue, Homes
    <3>6. Direct' = Direct
      BY DEF Direct
    <3> QED
      BY <1>0, <2>1, <2>2, <2>4, <3>1, <3>2, <3>3, <3>4, <3>5, <3>6 DEF Homes
  <2>5. routers[Server[s]] # None => routers[Server[s]] \in Subscribers
    BY <2>1 DEF TypeOK
  <2> QED
    BY <1>4, <2>3, <2>4, <2>5 DEF FindRouter
<1>5. ASSUME NEW s \in Subscribers, SubscribeRouter(s) PROVE Homes'
  <2>1. s \notin Direct /\ home[s] = s /\ UNCHANGED home /\ spc[s] = "subscribing"
    BY <1>5 DEF SubscribeRouter, Homes, Goes
  <2>2. CASE Goes(s, "subscribing", "open")
    BY <1>2, <2>1, <2>2 DEF SubState
  <2>3. CASE Goes(s, "subscribing", "failing")
    <3>1. \A n \in Subscribers : spc'[n] = IF n = s THEN "failing" ELSE spc[n]
      BY <2>3, GoesTo
    <3> QED
      BY <1>0, <2>1, <3>1 DEF Homes, Direct
  <2> QED
    BY <1>5, <2>2, <2>3 DEF SubscribeRouter
<1>6. ASSUME NEW s \in Subscribers, Subscribe(s) \/ Forget(s) \/ Cancel(s) \/ CloseNext(s)
      PROVE  Homes'
  <2>1. UNCHANGED home
    BY <1>6 DEF Subscribe, Forget, Cancel, CloseNext, Unsubscribe, UnsubscribeRouter, LeaveRouter,
                CloseChan, busVars, subVars
  <2>2. \E from, to \in SubState :
           /\ Goes(s, from, to) /\ to \notin {"new", "opening", "subscribing", "failing"}
           /\ (from # "new" \/ s \in Direct) /\ (to = "removing" => s \notin Direct)
           /\ from # "failed"
    BY <1>6 DEF Subscribe, Forget, Cancel, CloseNext, Unsubscribe, UnsubscribeRouter, LeaveRouter,
                CloseChan, SubState
  <2> QED
    BY <1>2, <2>1, <2>2
<1> QED
  BY <1>1, <1>3, <1>4, <1>5, <1>6, Steps, MessageStep DEF SubscribeNext

\* Each step keeps Held: the bus's mutex is held by one who waits for a router's.
LEMMA HeldStep ==
    ASSUME TypeOK, Held, [panicked = None /\ Next]_vars
    PROVE  Held'
<1> USE NatsBusAssumption
<1>1. CASE UNCHANGED <<busVars, subVars>>
  BY <1>1 DEF Held, busVars, subVars
<1>2. ASSUME NEW s \in Subscribers, NEW from, NEW to, Goes(s, from, to),
             \/ /\ from \notin {"opening", "removing"} /\ to \notin {"opening", "removing"}
                /\ UNCHANGED busHolder
             \/ from \in {"opening", "removing"} /\ to \notin {"opening", "removing"}
                /\ busHolder' = None
             \/ busHolder = None /\ to \in {"opening", "removing"} /\ busHolder' = s
      PROVE  Held'
  <2>1. spc[s] = from /\ \A n \in Subscribers : spc'[n] = IF n = s THEN to ELSE spc[n]
    BY <1>2, GoesTo
  <2> QED
    BY <1>2, <2>1 DEF Held
<1>3. ASSUME NEW s \in Subscribers, SubscribeNext(s) \/ Cancel(s) \/ CloseNext(s) PROVE Held'
  <2>1. CASE \/ Subscribe(s) \/ SubscribeRouter(s) \/ Forget(s)
             \/ Cancel(s) \/ Unsubscribe(s) \/ CloseChan(s)
    <3>1. UNCHANGED busHolder
      BY <2>1 DEF Subscribe, SubscribeRouter, Forget, Cancel, Unsubscribe, CloseChan, busVars
    <3>2. \E from, to : /\ Goes(s, from, to) /\ from \notin {"opening", "removing"}
                        /\ to \notin {"opening", "removing"}
      BY <2>1 DEF Subscribe, SubscribeRouter, Forget, Cancel, Unsubscribe, CloseChan
    <3> QED
      BY <1>2, <3>1, <3>2
  <2>2. CASE FindRouter(s)
    BY <1>2, <2>2 DEF FindRouter
  <2>3. CASE Open(s)
    BY <1>2, <2>3 DEF Open
  <2>4. CASE UnsubscribeRouter(s)
    BY <1>2, <2>4 DEF UnsubscribeRouter
  <2>5. CASE LeaveRouter(s)
    BY <1>2, <2>5 DEF LeaveRouter
  <2> QED
    BY <1>3, <2>1, <2>2, <2>3, <2>4, <2>5 DEF SubscribeNext, CloseNext
<1> QED
  BY <1>1, <1>3, Steps, MessageStep

----------------------------------------------------------------------------
\* The routes.

\* t has joined its router's list, and not left it.
Joined(t) == spc[t] \in {"subscribing", "open", "failing", "failed", "cancelled", "removing"}

\* Those on the list of router r for Local part l.
On(r, l) == {t \in Subscribers \ Direct : home[t] = r /\ Local[t] = l /\ Joined(t)}

\* The routes of a router are those that joined it, each once; one that failed stays.
Listed == \A r \in Routers, l \in LocalParts : Lists(routes[r][l], On(r, l))

\* No list has anybody at the start.
LEMMA ListedInit == Init => Listed
<1> SUFFICES ASSUME Init, NEW r \in Routers, NEW l \in LocalParts
             PROVE  Lists(routes[r][l], On(r, l))
  BY DEF Listed
<1>1. routes[r][l] = << >>
  BY DEF Init
<1>2. On(r, l) = {}
  BY DEF On, Joined, Init
<1> QED
  BY <1>1, <1>2, ListsEmpty

\* Who joins and who leaves a router is the one that is added to its list and taken off it.
LEMMA ListedStep ==
    ASSUME TypeOK, Homes, Listed, [panicked = None /\ Next]_vars
    PROVE  Listed'
<1> USE NatsBusAssumption
<1>1. ASSUME UNCHANGED routes,
             \A n \in Subscribers \ Direct :
                Joined(n)' /\ home'[n] # None <=> Joined(n) /\ home[n] # None,
             \A n \in Subscribers \ Direct : home'[n] = home[n] \/ ~ Joined(n)
      PROVE  Listed'
  <2>1. \A r \in Routers, l \in LocalParts : On(r, l)' = On(r, l)
    BY <1>1 DEF On, Direct
  <2>2. \A r \in Routers, l \in LocalParts : Lists(routes'[r][l], On(r, l)')
    BY <1>1, <2>1 DEF Listed
  <2> QED
    BY <2>2 DEF Listed, Lists, Elements, Distinct
<1>2. ASSUME NEW s \in Subscribers, Open(s) PROVE Listed'
  <2> DEFINE h == home[s]
             k == Local[s]
  <2>1. /\ spc[s] = "opening" /\ UNCHANGED home
        /\ \A n \in Subscribers : spc'[n] = IF n = s THEN IF h = s THEN "subscribing" ELSE "open"
                                                     ELSE spc[n]
    BY <1>2, GoesTo DEF Open
  <2>2. s \notin Direct /\ h \in Routers /\ k \in LocalParts
    <3>1. s \notin Direct /\ h # None
      BY <2>1 DEF Homes
    <3>2. h \in Routers \cup {None} /\ k \in LocalParts
      BY ChannelType DEF TypeOK
    <3> QED
      BY <3>1, <3>2
  <2>3. \A r \in Routers, l \in LocalParts :
           On(r, l)' = IF r = h /\ l = k THEN On(r, l) \cup {s} ELSE On(r, l)
    <3>1. \A n \in Subscribers : Joined(n)' <=> Joined(n) \/ n = s
      BY <2>1 DEF Joined
    <3> QED
      BY <2>1, <2>2, <3>1 DEF On, Direct
  <2>4. \A r \in Routers, l \in LocalParts :
           routes'[r][l] = IF r = h /\ l = k THEN Append(routes[r][l], s) ELSE routes[r][l]
    <3>1. routes' = [routes EXCEPT ![h][k] = Append(@, s)]
      BY <1>2 DEF Open
    <3> QED
      BY <2>2, <3>1 DEF TypeOK
  <2>5. s \notin On(h, k)
    BY <2>1 DEF On, Joined
  <2> SUFFICES ASSUME NEW r \in Routers, NEW l \in LocalParts
               PROVE  Lists(routes'[r][l], On(r, l)')
    BY DEF Listed, Lists, Elements, Distinct
  <2>6. Lists(routes[r][l], On(r, l)) /\ routes[r][l] \in Seq(Subscribers)
    BY DEF Listed, TypeOK
  <2> HIDE DEF h, k
  <2>7. CASE r = h /\ l = k
    <3>1. Lists(Append(routes[r][l], s), On(r, l) \cup {s})
      BY <2>5, <2>6, <2>7, ListsAppend
    <3> QED
      BY <2>3, <2>4, <2>7, <3>1
  <2>8. CASE ~ (r = h /\ l = k)
    BY <2>3, <2>4, <2>6, <2>8
  <2> QED
    BY <2>7, <2>8
<1>3. ASSUME NEW s \in Subscribers, LeaveRouter(s) PROVE Listed'
  <2> DEFINE h == home[s]
             k == Local[s]
  <2>1. /\ spc[s] = "removing" /\ UNCHANGED home
        /\ \A n \in Subscribers : spc'[n] = IF n = s THEN "removed" ELSE spc[n]
    BY <1>3, GoesTo DEF LeaveRouter
  <2>2. s \notin Direct /\ h \in Routers /\ k \in LocalParts
    <3>1. s \notin Direct /\ h # None
      BY <2>1 DEF Homes
    <3>2. h \in Routers \cup {None} /\ k \in LocalParts
      BY ChannelType DEF TypeOK
    <3> QED
      BY <3>1, <3>2
  <2>3. \A r \in Routers, l \in LocalParts :
           On(r, l)' = IF r = h /\ l = k THEN On(r, l) \ {s} ELSE On(r, l)
    <3>1. \A n \in Subscribers : Joined(n)' <=> Joined(n) /\ n # s
      BY <2>1 DEF Joined
    <3> QED
      BY <2>1, <2>2, <3>1 DEF On, Direct
  <2>4. \A r \in Routers, l \in LocalParts :
           routes'[r][l] = IF r = h /\ l = k THEN Without(routes[r][l], s) ELSE routes[r][l]
    <3>1. routes' = [routes EXCEPT ![h][k] = Without(@, s)]
      BY <1>3 DEF LeaveRouter
    <3> QED
      BY <2>2, <3>1 DEF TypeOK
  <2>5. s \in On(h, k)
    BY <2>1, <2>2 DEF On, Joined
  <2> SUFFICES ASSUME NEW r \in Routers, NEW l \in LocalParts
               PROVE  Lists(routes'[r][l], On(r, l)')
    BY DEF Listed, Lists, Elements, Distinct
  <2>6. Lists(routes[r][l], On(r, l)) /\ routes[r][l] \in Seq(Subscribers)
    BY DEF Listed, TypeOK
  <2> HIDE DEF h, k
  <2>7. CASE r = h /\ l = k
    <3>1. Lists(Without(routes[r][l], s), On(r, l) \ {s})
      BY <2>5, <2>6, <2>7, ListsWithout
    <3> QED
      BY <2>3, <2>4, <2>7, <3>1
  <2>8. CASE ~ (r = h /\ l = k)
    BY <2>3, <2>4, <2>6, <2>8
  <2> QED
    BY <2>7, <2>8
<1>4. ASSUME NEW s \in Subscribers, NEW from, NEW to, Goes(s, from, to),
             UNCHANGED <<routes, home>>,
             \/ s \in Direct \/ home[s] = None
             \/ /\ from \in {"subscribing", "open", "failing", "cancelled"}
                /\ to \in {"open", "failing", "failed", "cancelled", "removing"}
             \/ from = "removed" /\ to = "closed"
      PROVE  Listed'
  <2>1. spc[s] = from /\ \A n \in Subscribers : spc'[n] = IF n = s THEN to ELSE spc[n]
    BY <1>4, GoesTo
  <2> QED
    BY <1>1, <1>4, <2>1 DEF Joined
<1>5. ASSUME NEW s \in Subscribers, FindRouter(s) PROVE Listed'
  <2>1. UNCHANGED routes /\ (UNCHANGED home \/ \E r : home' = [home EXCEPT ![s] = r])
    BY <1>5 DEF FindRouter
  <2>2. /\ spc[s] = "new" /\ s \notin Direct
        /\ \A n \in Subscribers : n # s => spc'[n] = spc[n]
        /\ spc'[s] = "opening" \/ (spc'[s] = "failed" /\ UNCHANGED home)
    BY <1>5, GoesTo DEF FindRouter
  <2>3. home[s] = None
    BY <2>2 DEF Homes
  <2>4. \A n \in Subscribers : n # s => home'[n] = home[n]
    BY <2>1 DEF TypeOK
  <2> QED
    BY <1>1, <2>1, <2>2, <2>3, <2>4 DEF Joined
<1>6. ASSUME NEW s \in Subscribers,
             \/ Subscribe(s) \/ SubscribeRouter(s) \/ Forget(s) \/ Cancel(s)
             \/ Unsubscribe(s) \/ UnsubscribeRouter(s) \/ CloseChan(s)
      PROVE  Listed'
  <2>1. UNCHANGED <<routes, home>>
    BY <1>6 DEF Subscribe, SubscribeRouter, Forget, Cancel, Unsubscribe, UnsubscribeRouter,
                CloseChan, busVars, subVars
  <2>2. \E from, to :
           /\ Goes(s, from, to)
           /\ \/ s \in Direct
              \/ /\ from \in {"subscribing", "open", "failing", "cancelled"}
                 /\ to \in {"open", "failing", "failed", "cancelled", "removing"}
              \/ from = "removed" /\ to = "closed"
    BY <1>6 DEF Subscribe, SubscribeRouter, Forget, Cancel, Unsubscribe, UnsubscribeRouter,
         CloseChan
  <2> QED
    BY <1>4, <2>1, <2>2
<1>7. CASE UNCHANGED <<busVars, subVars>>
  BY <1>1, <1>7 DEF busVars, subVars, Joined
<1> QED
  BY <1>2, <1>3, <1>5, <1>6, <1>7, Steps, MessageStep DEF SubscribeNext, CloseNext

----------------------------------------------------------------------------
\* The map of routers.

\* Each step keeps what is known of the map: its router is alive and has its members, and
\* who joined a router that did not fail finds it there.
LEMMA MapStep ==
    ASSUME TypeOK, Homes, Held, Listed, Listed', MapTrue, ActiveMapped, HomeMapped,
           [panicked = None /\ Next]_vars
    PROVE  MapTrue' /\ ActiveMapped' /\ HomeMapped'
<1> USE NatsBusAssumption
<1>0. /\ \A n \in Subscribers : home[n] \in Subscribers \cup {None}
      /\ \A n \in Subscribers : Server[n] \in ServerParts
      /\ active \subseteq Subscribers /\ Direct' = Direct
  BY ChannelType DEF TypeOK, Direct
<1>01. ASSUME UNCHANGED home,
              \A d \in ServerParts : routers'[d] = routers[d] \/ routers'[d] = None,
              \A n \in Subscribers :
                 \/ \A d \in ServerParts : routers'[d] # n
                 \/ (n \in active \/ spc[n] \in {"opening", "subscribing", "failing"})
                       => (n \in active' \/ spc'[n] \in {"opening", "subscribing", "failing"})
       PROVE  MapTrue'
  <2> SUFFICES ASSUME NEW d \in ServerParts, routers'[d] # None
               PROVE  LET q == routers'[d] IN
                      /\ home'[q] = q /\ Server[q] = d
                      /\ q \in active' \/ spc'[q] \in {"opening", "subscribing", "failing"}
    BY DEF MapTrue
  <2>1. routers'[d] = routers[d] /\ routers[d] \in Subscribers
    BY <1>01 DEF TypeOK
  <2> QED
    BY <1>01, <2>1 DEF MapTrue
<1>1. CASE UNCHANGED <<busVars, subVars, active>>
  BY <1>0, <1>1 DEF MapTrue, ActiveMapped, HomeMapped, busVars, subVars
<1>2. ASSUME NEW s \in Subscribers, NEW from, NEW to, Goes(s, from, to),
             UNCHANGED <<routers, home>>,
             active' = active \/ (s \in Direct /\ active' \in {active \cup {s}, active \ {s}}),
             s \in Direct \/ <<from, to>> \in
                {<<"open", "cancelled">>, <<"cancelled", "removing">>, <<"removed", "closed">>,
                 <<"subscribing", "failing">>}
      PROVE  MapTrue' /\ ActiveMapped' /\ HomeMapped'
  <2>1. spc[s] = from /\ \A n \in Subscribers : spc'[n] = IF n = s THEN to ELSE spc[n]
    BY <1>2, GoesTo
  <2>2. \A n \in Subscribers : home[n] # s \/ s \notin Direct
    BY DEF Homes
  <2>3. MapTrue'
    <3>1. s \in Direct => \A d \in ServerParts : routers'[d] # s
      BY <1>2, <2>2 DEF MapTrue
    <3>2. \A n \in Subscribers \ {s} : spc'[n] = spc[n] /\ (n \in active => n \in active')
      BY <1>2, <2>1
    <3>3. s \notin Direct =>
             /\ active' = active
             /\ from \in {"opening", "subscribing", "failing"} =>
                   to \in {"opening", "subscribing", "failing"}
      BY <1>2
    <3> QED
      BY <1>01, <1>2, <2>1, <3>1, <3>2, <3>3
  <2>4. ActiveMapped'
    BY <1>0, <1>2, <2>1 DEF ActiveMapped
  <2>5. HomeMapped'
    BY <1>0, <1>2, <2>1, <2>2 DEF HomeMapped, Homes
  <2> QED
    BY <2>3, <2>4, <2>5
<1>3. ASSUME NEW s \in Subscribers, FindRouter(s)
      PROVE  MapTrue' /\ ActiveMapped' /\ HomeMapped'
  <2> DEFINE c == Server[s]
  <2>1. /\ s \notin Direct /\ spc[s] = "new" /\ UNCHANGED active /\ home[s] = None
        /\ c \in ServerParts /\ busHolder = None
    BY <1>0, <1>3, GoesTo DEF FindRouter, natsVars, Homes
  <2>2. \A n \in Subscribers : home[n] # s
    BY <2>1 DEF Homes
  <2>3. s \notin active
    BY <2>1 DEF ActiveMapped
  <2>4. ASSUME Goes(s, "new", "failed"), UNCHANGED <<routers, home>>
        PROVE  MapTrue' /\ ActiveMapped' /\ HomeMapped'
    <3>1. \A n \in Subscribers : spc'[n] = IF n = s THEN "failed" ELSE spc[n]
      BY <2>4, GoesTo
    <3>2. MapTrue'
      BY <1>01, <2>1, <2>4, <3>1
    <3>3. ActiveMapped'
      BY <1>0, <2>1, <2>4, <3>1 DEF ActiveMapped
    <3>4. HomeMapped'
      BY <1>0, <2>2, <2>4, <3>1 DEF HomeMapped, Homes
    <3> QED
      BY <3>2, <3>3, <3>4
  <2>5. ASSUME NEW r \in Subscribers, Goes(s, "new", "opening"), home' = [home EXCEPT ![s] = r],
               \/ r = s /\ routers[c] = None /\ routers' = [routers EXCEPT ![c] = s]
               \/ r = routers[c] /\ UNCHANGED routers
        PROVE  MapTrue' /\ ActiveMapped' /\ HomeMapped'
    <3>1. \A n \in Subscribers : spc'[n] = IF n = s THEN "opening" ELSE spc[n]
      BY <2>5, GoesTo
    <3>2. /\ \A n \in Subscribers : home'[n] = IF n = s THEN r ELSE home[n]
          /\ \A d \in ServerParts : routers'[d] = IF d = c THEN r ELSE routers[d]
      BY <2>1, <2>5 DEF TypeOK
    <3>3. r # s => home[r] = r /\ Server[r] = c
      BY <2>1, <2>5 DEF MapTrue
    <3>4. \A d \in ServerParts : routers[d] # None => routers[d] \in Subscribers /\ routers[d] # s
      BY <2>1 DEF TypeOK, MapTrue
    <3>5. MapTrue'
      BY <2>1, <2>5, <3>1, <3>2, <3>3, <3>4 DEF MapTrue
    <3>6. ActiveMapped'
      <4>1. \A n \in active \ Direct : n # s /\ (Server[n] = c => r = n)
        BY <1>0, <2>3, <2>5 DEF ActiveMapped
      <4> QED
        BY <1>0, <2>1, <3>1, <3>2, <4>1 DEF ActiveMapped
    <3>7. HomeMapped'
      <4> SUFFICES ASSUME NEW n \in Subscribers \ Direct,
                          spc'[n] \in {"opening", "subscribing", "open", "failing", "cancelled",
                                       "removing"}
                   PROVE  routers'[Server[n]] = home'[n] \/ spc'[home'[n]] = "failed"
        BY <1>0 DEF HomeMapped
      <4>1. CASE n = s
        BY <2>1, <3>2, <4>1
      <4>2. CASE n # s
        <5>1. home[n] \in Subscribers /\ home[n] # s /\ Server[n] \in ServerParts
          BY <1>0, <2>2, <3>1, <4>2 DEF Homes
        <5>2. routers[Server[n]] = home[n] \/ spc[home[n]] = "failed"
          BY <3>1, <4>2 DEF HomeMapped
        <5>3. Server[n] = c /\ routers[c] = home[n] => r = home[n]
          BY <2>5, <5>1
        <5> QED
          BY <3>1, <3>2, <4>2, <5>1, <5>2, <5>3
      <4> QED
        BY <4>1, <4>2
    <3> QED
      BY <3>5, <3>6, <3>7
  <2>6. routers[c] # None => routers[c] \in Subscribers
    BY <2>1 DEF TypeOK
  <2> QED
    BY <1>3, <2>4, <2>5, <2>6 DEF FindRouter
<1>4. ASSUME NEW s \in Subscribers, Open(s)
      PROVE  MapTrue' /\ ActiveMapped' /\ HomeMapped'
  <2>1. /\ spc[s] = "opening" /\ UNCHANGED <<home, routers, active>>
        /\ \A n \in Subscribers : spc'[n] =
              IF n # s THEN spc[n] ELSE IF home[s] = s THEN "subscribing" ELSE "open"
    BY <1>4, GoesTo DEF Open, natsVars
  <2>2. MapTrue'
    <3>1. home[s] # s => \A d \in ServerParts : routers[d] # s
      BY DEF MapTrue
    <3> QED
      BY <1>01, <2>1, <3>1
  <2>3. ActiveMapped'
    BY <1>0, <2>1 DEF ActiveMapped
  <2>4. HomeMapped'
    BY <1>0, <2>1 DEF HomeMapped, Homes
  <2> QED
    BY <2>2, <2>3, <2>4
<1>5. ASSUME NEW s \in Subscribers, Goes(s, "subscribing", "open"), active' = active \cup {s},
             UNCHANGED <<routers, home>>
      PROVE  MapTrue' /\ ActiveMapped' /\ HomeMapped'
  <2>1. spc[s] = "subscribing" /\ \A n \in Subscribers : spc'[n] = IF n = s THEN "open" ELSE spc[n]
    BY <1>5, GoesTo
  <2>2. s \notin Direct /\ home[s] = s /\ routers[Server[s]] = s
    BY <1>0, <2>1 DEF Homes, HomeMapped
  <2>3. MapTrue'
    BY <1>01, <1>5, <2>1
  <2>4. ActiveMapped'
    BY <1>0, <1>5, <2>1, <2>2 DEF ActiveMapped
  <2>5. HomeMapped'
    BY <1>0, <1>5, <2>1 DEF HomeMapped, Homes
  <2> QED
    BY <2>3, <2>4, <2>5
<1>6. ASSUME NEW s \in Subscribers, Forget(s)
      PROVE  MapTrue' /\ ActiveMapped' /\ HomeMapped'
  <2> DEFINE c == Server[s]
  <2>1. /\ spc[s] = "failing" /\ UNCHANGED <<home, active>>
        /\ \A n \in Subscribers : spc'[n] = IF n = s THEN "failed" ELSE spc[n]
        /\ \A d \in ServerParts : routers'[d] = IF d = c THEN None ELSE routers[d]
    BY <1>0, <1>6, GoesTo DEF Forget, natsVars, TypeOK
  <2>2. s \notin Direct /\ home[s] = s /\ routers[c] = s /\ c \in ServerParts
    BY <1>0, <2>1 DEF Homes, HomeMapped
  <2>3. s \notin active
    BY <2>1, <2>2 DEF ActiveMapped
  <2>4. MapTrue'
    <3>1. \A d \in ServerParts : routers'[d] # s
      <4> SUFFICES ASSUME NEW d \in ServerParts, routers'[d] = s PROVE FALSE
        OBVIOUS
      <4>1. d # c /\ routers[d] = s /\ s # None
        BY <2>1
      <4>2. Server[s] = d
        BY <4>1 DEF MapTrue
      <4> QED
        BY <4>1, <4>2
    <3> QED
      BY <1>01, <2>1, <3>1
  <2>5. ActiveMapped'
    BY <1>0, <2>1, <2>2, <2>3 DEF ActiveMapped
  <2>6. HomeMapped'
    <3> SUFFICES ASSUME NEW n \in Subscribers \ Direct,
                        spc'[n] \in {"opening", "subscribing", "open", "failing", "cancelled",
                                     "removing"}
                 PROVE  routers'[Server[n]] = home'[n] \/ spc'[home'[n]] = "failed"
      BY <1>0 DEF HomeMapped
    <3>1. n # s /\ home[n] \in Subscribers
      BY <1>0, <2>1 DEF Homes
    <3>2. routers[Server[n]] = home[n] \/ spc[home[n]] = "failed"
      BY <2>1, <3>1 DEF HomeMapped
    <3> QED
      BY <1>0, <2>1, <2>2, <3>1, <3>2
  <2> QED
    BY <2>4, <2>5, <2>6
<1>7. ASSUME NEW s \in Subscribers, LeaveRouter(s)
      PROVE  MapTrue' /\ ActiveMapped' /\ HomeMapped'
  <2> DEFINE r == home[s]
             c == Server[r]
  <2>1. /\ spc[s] = "removing" /\ UNCHANGED home
        /\ \A n \in Subscribers : spc'[n] = IF n = s THEN "removed" ELSE spc[n]
    BY <1>7, GoesTo DEF LeaveRouter
  <2>2. /\ s \notin Direct /\ r \in Subscribers \ Direct /\ Server[s] = c /\ c \in ServerParts
        /\ home[r] = r /\ busHolder = s
    BY <1>0, <2>1 DEF Homes, Held
  <2>3. ASSUME ~ NoRoutes(routes'[r]) PROVE MapTrue' /\ ActiveMapped' /\ HomeMapped'
    <3>1. UNCHANGED <<active, routers>>
      BY <1>7, <2>3 DEF LeaveRouter
    <3>2. MapTrue'
      BY <1>01, <2>1, <3>1
    <3>3. ActiveMapped'
      BY <1>0, <2>1, <3>1 DEF ActiveMapped
    <3>4. HomeMapped'
      BY <1>0, <2>1, <3>1 DEF HomeMapped, Homes
    <3> QED
      BY <3>2, <3>3, <3>4
  <2>4. ASSUME NoRoutes(routes'[r]) PROVE MapTrue' /\ ActiveMapped' /\ HomeMapped'
    <3>1. /\ active' = active \ {r}
          /\ \A d \in ServerParts : routers'[d] = IF d = c THEN None ELSE routers[d]
      BY <1>7, <2>2, <2>4 DEF LeaveRouter, TypeOK
    <3>2. \A t \in Subscribers \ Direct : home[t] = r => t = s \/ ~ Joined(t)
      <4> SUFFICES ASSUME NEW t \in Subscribers \ Direct, home[t] = r, t # s, Joined(t),
                          NEW q \in Routers, q = r
                   PROVE  FALSE
        BY <2>2
      <4>1. t \in On(q, Local[t])'
        BY <1>0, <2>1 DEF On, Joined
      <4>2. routes'[q][Local[t]] = << >> /\ Local[t] \in LocalParts
        BY <2>4, ChannelType DEF NoRoutes
      <4>3. Elements(routes'[q][Local[t]]) = On(q, Local[t])'
        BY <4>2 DEF Listed, Lists, Elements
      <4>4. t \in Elements(<< >>)
        BY <4>1, <4>2, <4>3
      <4> QED
        BY <4>4 DEF Elements
    <3>3. spc[r] # "failed" /\ routers[c] = r
      <4>1. spc[r] # "failed"
        BY <2>1, <2>2, <3>2 DEF Joined
      <4> QED
        BY <2>1, <2>2, <4>1 DEF HomeMapped
    <3>4. MapTrue'
      <4> SUFFICES ASSUME NEW d \in ServerParts, routers'[d] # None
                   PROVE  LET q == routers'[d] IN
                          /\ home'[q] = q /\ Server[q] = d
                          /\ q \in active' \/ spc'[q] \in {"opening", "subscribing", "failing"}
        BY DEF MapTrue
      <4>1. d # c /\ routers'[d] = routers[d]
        BY <3>1
      <4>2. /\ home[routers[d]] = routers[d] /\ Server[routers[d]] = d
            /\ \/ routers[d] \in active
               \/ spc[routers[d]] \in {"opening", "subscribing", "failing"}
        BY <4>1 DEF MapTrue
      <4>3. routers[d] # r /\ routers[d] \in Subscribers
        BY <4>1, <4>2 DEF TypeOK
      <4> QED
        BY <2>1, <3>1, <4>1, <4>2, <4>3
    <3>5. ActiveMapped'
      BY <1>0, <2>1, <3>1, <3>3 DEF ActiveMapped
    <3>6. HomeMapped'
      <4> SUFFICES ASSUME NEW n \in Subscribers \ Direct,
                          spc'[n] \in {"opening", "subscribing", "open", "failing", "cancelled",
                                       "removing"}
                   PROVE  routers'[Server[n]] = home'[n] \/ spc'[home'[n]] = "failed"
        BY <1>0 DEF HomeMapped
      <4>1. n # s /\ spc'[n] = spc[n] /\ home[n] \in Subscribers
        BY <1>0, <2>1 DEF Homes
      <4>2. home[n] # r
        <5>1. spc[n] # "opening"
          BY <2>2, <4>1 DEF Held
        <5> QED
          BY <3>2, <4>1, <5>1 DEF Joined
      <4>3. routers[Server[n]] = home[n] \/ spc[home[n]] = "failed"
        BY <4>1 DEF HomeMapped
      <4> QED
        BY <1>0, <2>1, <3>1, <3>3, <4>1, <4>2, <4>3
    <3> QED
      BY <3>4, <3>5, <3>6
  <2> QED
    BY <2>3, <2>4
<1>8. ASSUME NEW s \in Subscribers,
             \/ Subscribe(s) \/ SubscribeRouter(s) \/ Cancel(s)
             \/ Unsubscribe(s) \/ UnsubscribeRouter(s) \/ CloseChan(s)
      PROVE  MapTrue' /\ ActiveMapped' /\ HomeMapped'
  <2>1. CASE SubscribeRouter(s)
    BY <1>2, <1>5, <2>1 DEF SubscribeRouter, busVars
  <2>2. UNCHANGED <<routers, home>>
    BY <1>8 DEF Subscribe, SubscribeRouter, Cancel, Unsubscribe, UnsubscribeRouter, CloseChan,
                busVars, subVars
  <2>3. CASE Subscribe(s) \/ Unsubscribe(s)
    BY <1>2, <2>2, <2>3 DEF Subscribe, Unsubscribe
  <2>4. CASE Cancel(s) \/ UnsubscribeRouter(s) \/ CloseChan(s)
    BY <1>2, <2>2, <2>4 DEF Cancel, UnsubscribeRouter, CloseChan, natsVars
  <2> QED
    BY <1>8, <2>1, <2>3, <2>4
<1> QED
  BY <1>1, <1>3, <1>4, <1>6, <1>7, <1>8, Steps, MessageStep DEF SubscribeNext, CloseNext

Routed == Homes /\ Held /\ Listed /\ MapTrue /\ ActiveMapped /\ HomeMapped

\* The subscribers, the routers' lists, the map and the NATS subscriptions agree.
LEMMA RoutedAlways == Spec => [](TypeOK /\ Routed)
<1>1. Init => Routed
  BY ListedInit, NatsBusAssumption, ChannelType
     DEF Init, Routed, Homes, Held, MapTrue, ActiveMapped, HomeMapped
<1>2. TypeOK /\ Routed /\ [panicked = None /\ Next]_vars => Routed'
  BY HomesStep, HeldStep, ListedStep, MapStep DEF Routed
<1> QED
  BY <1>1, <1>2, TypeCorrect, PTL DEF Spec

\* One NATS subscription per Server part: what is subscribed is in the map, who is open is
\* on its router's list, once, and only who joined a router whose subscription failed, or
\* is still being made, has one that is not subscribed.
THEOREM OneRouter == Spec => []RoutersAgree
<1>1. TypeOK /\ Routed => RoutersAgree
  <2> SUFFICES ASSUME TypeOK, Routed PROVE RoutersAgree
    OBVIOUS
  <2> USE DEF Routed
  <2>1. \A n \in Subscribers : home[n] \in Subscribers \cup {None} /\ Server[n] \in ServerParts
    BY ChannelType DEF TypeOK
  <2>2. ASSUME NEW s \in Subscribers \ Direct, spc[s] \in {"open", "cancelled"}
        PROVE  LET list == routes[home[s]][Local[s]] IN
               /\ s \in Elements(list)
               /\ \A i, j \in DOMAIN list : list[i] = s /\ list[j] = s => i = j
    <3>1. home[s] \in Routers /\ Local[s] \in LocalParts
      BY <2>1, <2>2, ChannelType DEF Homes
    <3>2. s \in On(home[s], Local[s])
      BY <2>2 DEF On, Joined
    <3>3. Lists(routes[home[s]][Local[s]], On(home[s], Local[s]))
      BY <3>1 DEF Listed
    <3> QED
      BY <3>2, <3>3 DEF Lists, Distinct
  <2>3. ASSUME NEW s \in Subscribers, Deaf(s)
        PROVE  spc[home[s]] \in {"subscribing", "failing", "failed"}
    <3>1. /\ s \notin Direct /\ spc[s] = "open" /\ home[s] \notin active
          /\ home[s] \in Subscribers
      BY <2>1, <2>3 DEF Deaf, Homes
    <3>2. routers[Server[s]] = home[s] \/ spc[home[s]] = "failed"
      BY <3>1 DEF HomeMapped
    <3>3. spc[home[s]] # "opening"
      BY <3>1 DEF Homes
    <3>4. routers[Server[s]] = home[s] => spc[home[s]] \in {"opening", "subscribing", "failing"}
      BY <2>1, <3>1, NatsBusAssumption DEF MapTrue
    <3> QED
      BY <3>2, <3>3, <3>4
  <2> QED
    BY <2>2, <2>3 DEF RoutersAgree, ActiveMapped
<1> QED
  BY <1>1, RoutedAlways, PTL

----------------------------------------------------------------------------
\* Callbacks.

\* Whom a callback is still to write to is on its router's list while it holds the
\* router's mutex; and a direct subscription's writes to nobody else.
TodoAt(x) ==
    /\ x \in Direct => Elements(todo[x]) \subseteq {x} /\ ~ locked[x]
    /\ x \notin Direct =>
          /\ \A t \in Elements(todo[x]) : t \notin Direct /\ home[t] = x /\ Joined(t)
          /\ ~ locked[x] => todo[x] = << >>
    /\ calling[x] = None => todo[x] = << >> /\ ~ locked[x]
    /\ Distinct(todo[x])

TodoTrue == \A x \in Subscribers : TodoAt(x)

\* A channel is closed once and for all, and only a direct subscription's callback can
\* come to a closed one.
Closed ==
    /\ \A s \in Subscribers : msgClosed[s] => spc[s] = "closed"
    /\ panicked # None => panicked \in Direct

\* At the start no callback runs and no channel is closed.
LEMMA TodoInit == Init => TodoTrue /\ Closed
<1> SUFFICES ASSUME Init PROVE TodoTrue /\ Closed
  OBVIOUS
<1>1. Elements(<< >>) = {} /\ Distinct(<< >>)
  BY DEF Elements, Distinct
<1> QED
  BY <1>1 DEF Init, TodoTrue, TodoAt, Closed

\* Who is on a list leaves it only by LeaveRouter, and who is not has no router to leave.
LEMMA JoinedStays ==
    ASSUME TypeOK, Homes, NEW s \in Subscribers, SubscribeNext(s) \/ Cancel(s) \/ CloseNext(s),
           NEW t \in Subscribers \ Direct, home[t] # None, Joined(t)
    PROVE  home'[t] = home[t] /\ (Joined(t)' \/ LeaveRouter(t))
<1> USE NatsBusAssumption
<1>1. home'[t] = home[t]
  <2>1. CASE FindRouter(s)
    <3>1. spc[s] = "new"
      BY <2>1 DEF FindRouter, Goes
    <3>2. t # s
      BY <3>1 DEF Joined
    <3> QED
      BY <2>1, <3>2 DEF FindRouter, TypeOK
  <2>2. CASE ~ FindRouter(s)
    BY <2>2 DEF SubscribeNext, Subscribe, Open, SubscribeRouter, Forget, Cancel, CloseNext,
           Unsubscribe, UnsubscribeRouter, LeaveRouter, CloseChan, subVars
  <2> QED
    BY <2>1, <2>2
<1>2. Joined(t)' \/ LeaveRouter(t)
  <2>1. CASE t # s
    <3>1. \E from, to : Goes(s, from, to)
      BY DEF SubscribeNext, Subscribe, FindRouter, Open, SubscribeRouter, Forget, Cancel,
             CloseNext, Unsubscribe, UnsubscribeRouter, LeaveRouter, CloseChan
    <3>2. spc'[t] = spc[t]
      BY <2>1, <3>1, GoesTo
    <3> QED
      BY <3>2 DEF Joined
  <2>2. CASE t = s
    <3>1. LeaveRouter(s) \/ \E from, to \in SubState :
             /\ Goes(s, from, to)
             /\ \/ from \notin {"subscribing", "open", "failing", "failed", "cancelled", "removing"}
                \/ to \in {"subscribing", "open", "failing", "failed", "cancelled", "removing"}
      BY <2>2 DEF SubscribeNext, Subscribe, FindRouter, Open, SubscribeRouter, Forget, Cancel,
             CloseNext, Unsubscribe, UnsubscribeRouter, CloseChan, SubState
    <3> QED
      BY <2>2, <3>1, GoesTo DEF Joined
  <2> QED
    BY <2>1, <2>2
<1> QED
  BY <1>1, <1>2

\* Each step keeps TodoTrue: what a callback has still to write to is on its router's list,
\* each once, as long as it holds the router's mutex.
LEMMA TodoStep ==
    ASSUME TypeOK, Homes, Listed, TodoTrue, [panicked = None /\ Next]_vars
    PROVE  TodoTrue'
<1> USE NatsBusAssumption DEF busVars, subVars, chanVars, natsVars, callVars
<1>0. /\ Direct' = Direct
      /\ \A x \in Subscribers : todo[x] \in Seq(Subscribers)
      /\ \A x \in Subscribers : Elements(todo[x]) \subseteq Subscribers
      /\ Elements(<< >>) = {} /\ Distinct(<< >>)
  BY ElementsType DEF Direct, TypeOK, Elements, Distinct
<1>1. ASSUME NEW s \in Subscribers, SubscribeNext(s) \/ Cancel(s) \/ CloseNext(s) PROVE TodoTrue'
  <2>1. UNCHANGED callVars
    BY <1>1, SubscriberStep
  <2>2. ASSUME NEW x \in Subscribers \ Direct, NEW t \in Elements(todo[x])
        PROVE  home'[t] = x /\ Joined(t)'
    <3>1. t \in Subscribers \ Direct /\ home[t] = x /\ Joined(t)
      BY <1>0, <2>2 DEF TodoTrue, TodoAt
    <3>2. locked[x]
      BY <1>0, <2>2 DEF TodoTrue, TodoAt
    <3>3. ~ LeaveRouter(t)
      BY <3>1, <3>2 DEF LeaveRouter
    <3> QED
      BY <1>1, <3>1, <3>3, JoinedStays
  <2>3. \A x \in Subscribers : Elements(todo'[x]) = Elements(todo[x])
    BY <2>1
  <2> QED
    BY <1>0, <2>1, <2>2, <2>3 DEF TodoTrue, TodoAt
<1>2. ASSUME NEW y \in Subscribers, UNCHANGED <<subVars, todo[y], locked[y], calling[y]>>
      PROVE  TodoAt(y)'
  <2>1. TodoAt(y)
    BY DEF TodoTrue
  <2> QED
    BY <1>0, <1>2, <2>1 DEF TodoAt, Joined
<1>3. ASSUME NEW x \in Subscribers, UNCHANGED subVars,
             \A y \in Subscribers \ {x} : UNCHANGED <<todo[y], locked[y], calling[y]>>,
             TodoAt(x)'
      PROVE  TodoTrue'
  <2> SUFFICES ASSUME NEW y \in Subscribers PROVE TodoAt(y)'
    BY DEF TodoTrue
  <2> QED
    BY <1>2, <1>3
<1>4. ASSUME NEW x \in Subscribers, Deliver(x) PROVE TodoTrue'
  <2>1. Head(inbox[x]) # None
    BY <1>4 DEF Deliver, TypeOK
  <2>2. /\ calling'[x] = Head(inbox[x]) /\ todo'[x] = (IF x \in Direct THEN <<x>> ELSE << >>)
        /\ UNCHANGED <<subVars, locked>>
        /\ \A y \in Subscribers \ {x} : UNCHANGED <<todo[y], locked[y], calling[y]>>
    BY <1>4 DEF Deliver, TypeOK
  <2>3. ~ locked[x]
    BY <1>4 DEF Deliver, TodoTrue, TodoAt
  <2>4. Elements(<<x>>) = {x} /\ Distinct(<<x>>)
    BY DEF Elements, Distinct
  <2>5. Elements(todo'[x]) \subseteq {x} /\ Distinct(todo'[x])
    BY <1>0, <2>2, <2>4
  <2> QED
    BY <1>0, <1>3, <2>1, <2>2, <2>3, <2>5 DEF TodoAt, Elements
<1>5. ASSUME NEW x \in Subscribers, Route(x) PROVE TodoTrue'
  <2> DEFINE l == Local[calling[x]]
  <2>1. l \in LocalParts /\ x \notin Direct /\ calling[x] # None
    BY <1>5, ChannelType DEF Route, TypeOK
  <2>2. Lists(routes[x][l], On(x, l))
    BY <2>1 DEF Listed
  <2>3. /\ todo'[x] = routes[x][l] /\ locked'[x] = TRUE /\ UNCHANGED <<subVars, calling>>
        /\ \A y \in Subscribers \ {x} : UNCHANGED <<todo[y], locked[y], calling[y]>>
    BY <1>5 DEF Route, TypeOK
  <2>4. Elements(todo'[x]) = On(x, l) /\ Distinct(todo'[x])
    BY <2>2, <2>3 DEF Lists
  <2>5. \A t \in On(x, l) : t \notin Direct /\ home[t] = x /\ Joined(t)
    BY DEF On
  <2> QED
    BY <1>0, <1>3, <2>1, <2>3, <2>4, <2>5 DEF TodoAt, Joined, Elements, Distinct
<1>6. ASSUME NEW x \in Subscribers, Write(x) PROVE TodoTrue'
  <2>1. /\ todo[x] # << >> /\ todo'[x] = Tail(todo[x]) /\ calling[x] # None
        /\ UNCHANGED <<subVars, calling, locked>>
        /\ \A y \in Subscribers \ {x} : UNCHANGED <<todo[y], locked[y], calling[y]>>
    BY <1>6 DEF Write, TypeOK
  <2>2. Elements(todo'[x]) \subseteq Elements(todo[x]) /\ Distinct(todo'[x])
    BY <1>0, <2>1, ElementsTail, DistinctTail DEF TodoTrue, TodoAt
  <2>3. x \notin Direct => locked[x]
    BY <2>1 DEF TodoTrue, TodoAt
  <2> QED
    <3>1. TodoAt(x)
      BY DEF TodoTrue
    <3>2. TodoAt(x)'
      BY <1>0, <2>1, <2>2, <2>3, <3>1 DEF TodoAt, Joined
    <3> QED
      BY <1>3, <2>1, <3>2
<1>7. ASSUME NEW x \in Subscribers, Return(x) PROVE TodoTrue'
  <2>1. /\ todo[x] = << >> /\ todo'[x] = << >> /\ locked'[x] = FALSE
        /\ UNCHANGED <<subVars, todo>>
        /\ \A y \in Subscribers \ {x} : UNCHANGED <<todo[y], locked[y], calling[y]>>
    BY <1>7 DEF Return, TypeOK
  <2> QED
    BY <1>0, <1>3, <2>1 DEF TodoAt, Elements, Distinct
<1>8. ASSUME UNCHANGED vars \/ (\E m \in Messages : Publish(m)) \/ \E x \in Subscribers : Read(x)
      PROVE  TodoTrue'
  <2>1. UNCHANGED <<subVars, callVars>>
    BY <1>8 DEF vars, Publish, Read
  <2> QED
    BY <1>2, <2>1 DEF TodoTrue
<1> QED
  BY <1>1, <1>4, <1>5, <1>6, <1>7, <1>8, Steps DEF CallbackNext

\* Each step keeps Closed: a routed channel is closed when no callback can write to it.
LEMMA ClosedStep ==
    ASSUME TypeOK, TodoTrue, Closed, [panicked = None /\ Next]_vars
    PROVE  Closed'
<1> USE DEF busVars, subVars, chanVars, natsVars, callVars
<1>0. Direct' = Direct
  BY DEF Direct
<1>1. ASSUME NEW s \in Subscribers, SubscribeNext(s) \/ Cancel(s) \/ CloseNext(s) PROVE Closed'
  <2>1. panicked' = panicked
    BY <1>1, SubscriberStep
  <2>2. /\ \E from, to : Goes(s, from, to) /\ from # "closed"
        /\ UNCHANGED msgClosed \/ CloseChan(s)
    BY <1>1 DEF SubscribeNext, Subscribe, FindRouter, Open, SubscribeRouter, Forget, Cancel,
           CloseNext, Unsubscribe, UnsubscribeRouter, LeaveRouter, CloseChan
  <2>3. \A n \in Subscribers : spc[n] = "closed" => spc'[n] = "closed"
    BY <2>2, GoesTo
  <2>4. CASE CloseChan(s)
    <3>1. spc'[s] = "closed" /\ \A n \in Subscribers \ {s} : msgClosed'[n] = msgClosed[n]
      BY <2>4, GoesTo DEF CloseChan, TypeOK
    <3> QED
      BY <1>0, <2>1, <2>3, <3>1 DEF Closed
  <2> QED
    BY <1>0, <2>1, <2>2, <2>3, <2>4 DEF Closed
<1>2. ASSUME UNCHANGED <<spc, msgClosed, panicked>> PROVE Closed'
  BY <1>0, <1>2 DEF Closed
<1>3. ASSUME NEW x \in Subscribers, Write(x) PROVE Closed'
  <2> DEFINE t == Head(todo[x])
  <2>1. UNCHANGED <<spc, msgClosed>> /\ (panicked' = panicked \/ (msgClosed[t] /\ panicked' = t))
    BY <1>3 DEF Write
  <2>2. t \in Elements(todo[x]) /\ t \in Subscribers
    BY <1>3, ElementsTail DEF Write, TypeOK
  <2>3. TodoAt(x)
    BY DEF TodoTrue
  <2>4. msgClosed[t] => t \in Direct
    <3>1. msgClosed[t] => ~ Joined(t)
      BY <2>2 DEF Closed, Joined
    <3> QED
      BY <2>2, <2>3, <3>1 DEF TodoAt
  <2> HIDE DEF t
  <2> QED
    BY <1>0, <2>1, <2>4 DEF Closed
<1>4. ASSUME NEW x \in Subscribers, Deliver(x) \/ Route(x) \/ Return(x) \/ Read(x)
      PROVE  UNCHANGED <<spc, msgClosed, panicked>>
  BY <1>4 DEF Deliver, Route, Return, Read
<1>5. ASSUME UNCHANGED vars \/ \E m \in Messages : Publish(m)
      PROVE  UNCHANGED <<spc, msgClosed, panicked>>
  BY <1>5 DEF vars, Publish
<1> QED
  BY <1>1, <1>2, <1>3, <1>4, <1>5, Steps DEF CallbackNext

\* These invariants hold throughout.
LEMMA CallbacksAlways == Spec => [](TypeOK /\ Routed /\ TodoTrue /\ Closed)
<1>1. TypeOK /\ Routed /\ TodoTrue /\ Closed /\ [panicked = None /\ Next]_vars
      => (TodoTrue /\ Closed)'
  BY TodoStep, ClosedStep DEF Routed
<1> QED
  BY <1>1, TodoInit, RoutedAlways, PTL DEF Spec

\* The channel of a routed subscription is closed only when the router's mutex took it
\* off the list, which no callback under way can still hold: its callback never sends on
\* a closed channel, and only a direct subscription's can panic.
THEOREM NoRoutedPanic == Spec => []RoutedNeverPanics
<1>1. Closed => RoutedNeverPanics
  BY DEF Closed, RoutedNeverPanics
<1> QED
  BY <1>1, CallbacksAlways, PTL

----------------------------------------------------------------------------
\* The way of a message.

\* Where subscriber s's messages come from.
Source(s) == IF s \in Direct THEN s ELSE home[s]

\* A message is owed to a plain subscriber of its channel that was open.
OwedTrue ==
    \A m \in Messages : \A s \in owed[m] :
       /\ m \in published /\ s \notin Queue /\ Local[s] \in {None, Local[m]}
       /\ spc[s] \in {"open", "cancelled", "removing", "removed", "closed"}

\* And is on its way to it, or has arrived, while it is open.
Kept == \A m \in Messages : \A s \in owed[m] : spc[s] = "open" => OnItsWay(m, s)

\* Nobody is owed a message at the start.
LEMMA KeptInit == Init => OwedTrue /\ Kept
  BY DEF Init, OwedTrue, Kept

\* No step of its own opens a subscriber twice, or moves it to another router.
LEMMA OpenedStays ==
    ASSUME TypeOK, Homes, NEW s \in Subscribers, SubscribeNext(s) \/ Cancel(s) \/ CloseNext(s),
           NEW t \in Subscribers,
           spc[t] \in {"open", "cancelled", "removing", "removed", "closed"}
    PROVE  /\ home'[t] = home[t]
           /\ spc'[t] \in {"open", "cancelled", "removing", "removed", "closed"}
           /\ spc'[t] = "open" => spc[t] = "open"
<1> DEFINE Opened == {"open", "cancelled", "removing", "removed", "closed"}
<1>1. \E from, to : /\ Goes(s, from, to)
                    /\ from \in Opened => to \in Opened /\ to # "open"
  BY DEF SubscribeNext, Subscribe, FindRouter, Open, SubscribeRouter, Forget, Cancel,
         CloseNext, Unsubscribe, UnsubscribeRouter, LeaveRouter, CloseChan
<1>2. /\ spc'[t] \in Opened
      /\ spc'[t] = "open" => spc[t] = "open"
  BY <1>1, GoesTo
<1>3. home'[t] = home[t]
  <2>1. CASE FindRouter(s)
    <3>1. spc[s] = "new"
      BY <2>1 DEF FindRouter, Goes
    <3>2. t # s
      BY <3>1
    <3> QED
      BY <2>1, <3>2 DEF FindRouter, TypeOK
  <2>2. CASE ~ FindRouter(s)
    BY <2>2 DEF SubscribeNext, Subscribe, Open, SubscribeRouter, Forget, Cancel, CloseNext,
           Unsubscribe, UnsubscribeRouter, LeaveRouter, CloseChan, subVars
  <2> QED
    BY <2>1, <2>2
<1> QED
  BY <1>2, <1>3

\* Each step keeps OwedTrue: a message is owed by those who could hear it when it was
\* published.
LEMMA OwedStep ==
    ASSUME TypeOK, Homes, OwedTrue, [panicked = None /\ Next]_vars
    PROVE  OwedTrue'
<1> USE DEF busVars, subVars, chanVars, natsVars, callVars
<1>1. ASSUME NEW s \in Subscribers, SubscribeNext(s) \/ Cancel(s) \/ CloseNext(s) PROVE OwedTrue'
  <2>1. UNCHANGED <<published, owed>>
    BY <1>1, SubscriberStep
  <2>2. \A m \in Messages : owed[m] \subseteq Subscribers
    BY DEF TypeOK
  <2> QED
    BY <1>1, <2>1, <2>2, OpenedStays DEF OwedTrue
<1>2. ASSUME NEW m \in Messages, Publish(m) PROVE OwedTrue'
  <2>1. /\ published' = published \cup {m} /\ spc' = spc
        /\ \A n \in Messages : owed'[n] = IF n = m THEN Audience(m) ELSE owed[n]
    BY <1>2 DEF Publish, TypeOK
  <2>2. \A s \in Audience(m) : s \notin Queue /\ Local[s] \in {None, Local[m]} /\ spc[s] = "open"
    BY DEF Audience
  <2> QED
    BY <2>1, <2>2 DEF OwedTrue
<1>3. ASSUME UNCHANGED vars \/ \E x \in Subscribers : CallbackNext(x) \/ Read(x)
      PROVE  UNCHANGED <<published, owed, spc>>
  BY <1>3 DEF vars, CallbackNext, Deliver, Route, Write, Return, Read
<1>4. ASSUME UNCHANGED <<published, owed, spc>> PROVE OwedTrue'
  BY <1>4 DEF OwedTrue
<1> QED
  BY <1>1, <1>2, <1>3, <1>4, Steps

\* An open subscriber has a NATS subscription, its own or its router's.
LEMMA SourceType ==
    ASSUME TypeOK, Homes, NEW s \in Subscribers, spc[s] = "open"
    PROVE  Source(s) \in Subscribers
<1>1. s \notin Direct => home[s] # None
  BY DEF Homes
<1> QED
  BY <1>1 DEF Source, TypeOK

\* Each step keeps Kept: who is owed a message, and is open, has it on its way.
LEMMA KeptStep ==
    ASSUME TypeOK, Homes, Listed, TodoTrue, Closed, OwedTrue, Kept,
           [panicked = None /\ Next]_vars
    PROVE  Kept'
<1> USE NatsBusAssumption DEF busVars, subVars, chanVars, natsVars, callVars
<1>0. /\ Direct' = Direct
      /\ \A m \in Messages : owed[m] \subseteq Subscribers /\ m # None
      /\ \A x \in Subscribers : /\ inbox[x] \in Seq(Messages) /\ todo[x] \in Seq(Subscribers)
                                /\ msgChan[x] \in Seq(Messages) /\ got[x] \in Seq(Messages)
  BY DEF Direct, TypeOK
\* Its own step leaves what is owed to a subscriber on its way.
<1>1. ASSUME NEW s \in Subscribers, SubscribeNext(s) \/ Cancel(s) \/ CloseNext(s) PROVE Kept'
  <2>1. UNCHANGED <<inbox, owed, calling, todo, locked, msgChan, got>>
    BY <1>1, SubscriberStep
  <2>2. ASSUME NEW m \in Messages, NEW t \in owed[m], spc'[t] = "open" PROVE OnItsWay(m, t)'
    <3>1. spc[t] = "open" /\ home'[t] = home[t]
      BY <1>0, <1>1, <2>2, OpenedStays DEF OwedTrue
    <3>2. OnItsWay(m, t)
      BY <3>1 DEF Kept
    <3> QED
      BY <1>0, <2>1, <3>1, <3>2 DEF OnItsWay
  <2> QED
    BY <2>1, <2>2 DEF Kept
\* Any other step may be looked at one message, and one subscriber it is owed to, at a time.
<1>2. ASSUME UNCHANGED <<subVars, owed>>,
             \A m \in Messages, s \in Subscribers :
                s \in owed[m] /\ spc[s] = "open" /\ OnItsWay(m, s) => OnItsWay(m, s)'
      PROVE  Kept'
  BY <1>0, <1>2 DEF Kept
<1>3. ASSUME NEW m \in Messages, Publish(m) PROVE Kept'
  <2>1. PICK to \in Reached(m) :
           inbox' = [x \in Subscribers |-> IF x \in to THEN Append(inbox[x], m) ELSE inbox[x]]
    BY <1>3 DEF Publish
  <2>2. \A x \in Subscribers :
           /\ Elements(inbox[x]) \subseteq Elements(inbox'[x])
           /\ x \in to => m \in Elements(inbox'[x])
    BY <1>0, <2>1, ElementsAppend
  <2>3. /\ UNCHANGED <<spc, home, msgChan, got, calling, todo, locked>>
        /\ \A n \in Messages : owed'[n] = IF n = m THEN Audience(m) ELSE owed[n]
    BY <1>3 DEF Publish, TypeOK
  <2>4. ASSUME NEW n \in Messages, NEW s \in owed'[n], spc'[s] = "open" PROVE OnItsWay(n, s)'
    <3>1. CASE n = m
      <4>1. s \in Audience(m)
        BY <2>3, <2>4, <3>1
      <4>2. /\ Source(s) \in active /\ s \in Subscribers \ Queue /\ Server[s] = Server[m]
        BY <4>1 DEF Audience, Source
      <4>02. active \subseteq Subscribers
        BY DEF TypeOK
      <4>3. Source(s) \in Subscribers /\ Server[Source(s)] = Server[m] /\ Source(s) \notin Queue
        BY <4>02, <4>2 DEF Source, Homes
      <4>4. Source(s) \in to
        BY <4>2, <4>3 DEF Reached, IsQueue
      <4>5. Source(s)' = Source(s) /\ m \in Elements(inbox'[Source(s)])
        BY <2>2, <2>3, <4>3, <4>4 DEF Source, Direct
      <4> HIDE DEF Source
      <4>6. m \in Elements(inbox'[Source(s)'])
        BY <4>5
      <4>7. OnItsWay(m, s)'
        BY <4>6 DEF OnItsWay, Source
      <4> QED
        BY <3>1, <4>7
    <3>2. CASE n # m
      <4>1. s \in owed[n] /\ s \in Subscribers /\ spc[s] = "open"
        BY <1>0, <2>3, <2>4, <3>2
      <4>2. OnItsWay(n, s) /\ Source(s) \in Subscribers
        BY <4>1, SourceType DEF Kept
      <4> QED
        BY <1>0, <2>2, <2>3, <4>2 DEF OnItsWay, Source
    <3> QED
      BY <3>1, <3>2
  <2> QED
    BY <2>4 DEF Kept
<1>4. ASSUME NEW x \in Subscribers, Deliver(x) PROVE Kept'
  <2>1. /\ UNCHANGED <<subVars, owed, msgChan, got, locked>>
        /\ \A y \in Subscribers \ {x} : UNCHANGED <<inbox[y], todo[y], calling[y]>>
        /\ calling[x] = None /\ calling'[x] = Head(inbox[x]) /\ inbox'[x] = Tail(inbox[x])
        /\ todo'[x] = IF x \in Direct THEN <<x>> ELSE << >>
        /\ inbox[x] # << >>
    BY <1>4 DEF Deliver, TypeOK
  <2>2. ~ locked[x]
    BY <2>1 DEF TodoTrue, TodoAt
  <2>3. Elements(inbox[x]) = {calling'[x]} \cup Elements(inbox'[x])
    BY <1>0, <2>1, ElementsTail
  <2>4. x \in Direct => x \in Elements(todo'[x])
    BY <2>1 DEF Elements
  <2>5. ASSUME NEW m \in Messages, NEW s \in Subscribers, spc[s] = "open", OnItsWay(m, s)
        PROVE  OnItsWay(m, s)'
    <3>1. Source(s) \in Subscribers /\ Source(s) = Source(s)'
      BY <1>0, <2>1, <2>5, SourceType DEF Source
    <3>2. CASE Source(s) # x
      BY <1>0, <2>1, <2>5, <3>1, <3>2 DEF OnItsWay, Source
    <3>3. CASE Source(s) = x
      <4>1. m \in Elements(inbox[x]) \cup Elements(msgChan[s]) \cup Elements(got[s])
        BY <1>0, <2>1, <2>5, <3>3 DEF OnItsWay, Source
      <4>2. CASE m = calling'[x]
        <5>1. s \notin Direct => x \notin Direct
          BY <2>5, <3>3, SourceType DEF Source, Homes
        <5> QED
          BY <1>0, <2>1, <2>2, <2>4, <3>1, <3>3, <4>2, <5>1 DEF OnItsWay, Source
      <4>3. CASE m # calling'[x]
        BY <1>0, <2>1, <2>3, <3>1, <3>3, <4>1, <4>3 DEF OnItsWay, Source
      <4> QED
        BY <4>2, <4>3
    <3> QED
      BY <3>2, <3>3
  <2> QED
    BY <1>2, <2>1, <2>5
<1>5. ASSUME NEW x \in Subscribers, Route(x) PROVE Kept'
  <2> DEFINE l == Local[calling[x]]
  <2>1. /\ UNCHANGED <<subVars, owed, msgChan, got, inbox, calling>>
        /\ \A y \in Subscribers \ {x} : UNCHANGED <<todo[y], locked[y]>>
        /\ todo'[x] = routes[x][l] /\ x \notin Direct /\ ~ locked[x] /\ calling[x] # None
    BY <1>5 DEF Route, TypeOK
  <2>2. l \in LocalParts
    BY <2>1, ChannelType DEF TypeOK
  <2>3. Elements(todo'[x]) = On(x, l)
    BY <2>1, <2>2 DEF Listed, Lists
  <2>4. ASSUME NEW m \in Messages, NEW s \in Subscribers, s \in owed[m], spc[s] = "open",
               OnItsWay(m, s)
        PROVE  OnItsWay(m, s)'
    <3>1. Source(s) = Source(s)'
      BY <1>0, <2>1 DEF Source
    <3>2. CASE Source(s) # x
      <4>1. Source(s) \in Subscribers
        BY <2>4, SourceType
      <4> QED
        BY <1>0, <2>1, <2>4, <3>1, <3>2, <4>1 DEF OnItsWay, Source
    <3>3. CASE Source(s) = x /\ calling[x] = m
      <4>1. s \notin Direct /\ home[s] = x /\ Local[s] = l
        BY <2>1, <2>4, <3>3 DEF Source, OwedTrue, Direct
      <4>2. s \in On(x, l)
        BY <2>4, <4>1 DEF On, Joined
      <4> QED
        BY <1>0, <2>1, <2>3, <3>3, <4>1, <4>2 DEF OnItsWay
    <3>4. CASE Source(s) = x /\ calling[x] # m
      BY <1>0, <2>1, <2>4, <3>4 DEF OnItsWay, Source
    <3> QED
      BY <3>2, <3>3, <3>4
  <2> QED
    BY <1>2, <2>1, <2>4
<1>6. ASSUME NEW x \in Subscribers, Write(x) PROVE Kept'
  <2> DEFINE t == Head(todo[x])
  <2>1. /\ UNCHANGED <<subVars, owed, got, inbox, calling, locked>>
        /\ \A y \in Subscribers \ {x} : todo'[y] = todo[y]
        /\ todo'[x] = Tail(todo[x]) /\ todo[x] # << >> /\ calling[x] # None
    BY <1>6 DEF Write, TypeOK
  <2>2. Elements(todo[x]) = {t} \cup Elements(todo'[x]) /\ t \in Subscribers
    BY <1>0, <2>1, ElementsTail, ElementsType
  <2>3. /\ \A s \in Subscribers : Elements(msgChan[s]) \subseteq Elements(msgChan'[s])
        /\ spc[t] = "open" => calling[x] \in Elements(msgChan'[t])
    <3>1. CASE msgChan' = [msgChan EXCEPT ![t] = Append(@, calling[x])]
      <4>1. \A s \in Subscribers :
               msgChan'[s] = IF s = t THEN Append(msgChan[s], calling[x]) ELSE msgChan[s]
        BY <3>1 DEF TypeOK
      <4> HIDE DEF t
      <4>2. Elements(Append(msgChan[t], calling[x])) = Elements(msgChan[t]) \cup {calling[x]}
        BY <1>0, <2>2, ElementsAppend
      <4> QED
        BY <2>2, <4>1, <4>2
    <3>2. CASE UNCHANGED msgChan /\ (Skips(t) \/ msgClosed[t])
      BY <2>2, <3>2 DEF Skips, Closed
    <3> QED
      BY <1>6, <3>1, <3>2 DEF Write
  <2> HIDE DEF t
  <2>4. ASSUME NEW m \in Messages, NEW s \in Subscribers, spc[s] = "open", OnItsWay(m, s)
        PROVE  OnItsWay(m, s)'
    <3>1. Source(s) = Source(s)'
      BY <1>0, <2>1 DEF Source
    <3>2. CASE Source(s) # x
      <4>1. Source(s) \in Subscribers
        BY <2>4, SourceType
      <4> QED
        BY <1>0, <2>1, <2>3, <2>4, <3>1, <3>2, <4>1 DEF OnItsWay, Source
    <3>3. CASE Source(s) = x
      BY <1>0, <2>1, <2>2, <2>3, <2>4, <3>3 DEF OnItsWay, Source
    <3> QED
      BY <3>2, <3>3
  <2> QED
    BY <1>2, <2>1, <2>4
<1>7. ASSUME NEW x \in Subscribers, Return(x) PROVE Kept'
  <2>1. /\ UNCHANGED <<subVars, owed, msgChan, got, inbox, todo>>
        /\ \A y \in Subscribers \ {x} : UNCHANGED <<calling[y], locked[y]>>
        /\ todo[x] = << >> /\ (x \in Direct \/ locked[x])
    BY <1>7 DEF Return, TypeOK
  <2>2. Elements(todo[x]) = {}
    BY <2>1 DEF Elements
  <2>3. ASSUME NEW m \in Messages, NEW s \in Subscribers, spc[s] = "open", OnItsWay(m, s)
        PROVE  OnItsWay(m, s)'
    <3>1. Source(s) \in Subscribers /\ Source(s) = Source(s)'
      BY <1>0, <2>1, <2>3, SourceType DEF Source
    <3> QED
      BY <1>0, <2>1, <2>2, <2>3, <3>1 DEF OnItsWay, Source
  <2> QED
    BY <1>2, <2>1, <2>3
<1>8. ASSUME NEW x \in Subscribers, Read(x) PROVE Kept'
  <2>1. /\ UNCHANGED <<subVars, owed, inbox, todo, calling, locked>>
        /\ \A s \in Subscribers \ {x} : UNCHANGED <<msgChan[s], got[s]>>
        /\ msgChan[x] # << >> /\ msgChan'[x] = Tail(msgChan[x])
        /\ got'[x] = Append(got[x], Head(msgChan[x]))
    BY <1>8 DEF Read, TypeOK
  <2>2. Elements(msgChan'[x]) \cup Elements(got'[x]) = Elements(msgChan[x]) \cup Elements(got[x])
    BY <1>0, <2>1, ElementsTail, ElementsAppend
  <2>3. \A s \in Subscribers : Elements(msgChan'[s]) \cup Elements(got'[s])
                                 = Elements(msgChan[s]) \cup Elements(got[s])
    BY <2>1, <2>2
  <2>4. ASSUME NEW m \in Messages, NEW s \in Subscribers, OnItsWay(m, s) PROVE OnItsWay(m, s)'
    BY <1>0, <2>1, <2>3, <2>4 DEF OnItsWay
  <2> QED
    BY <1>2, <2>1, <2>4
<1>9. ASSUME UNCHANGED vars PROVE Kept'
  BY <1>0, <1>9 DEF vars, Kept, OnItsWay
<1> QED
  BY <1>1, <1>3, <1>4, <1>5, <1>6, <1>7, <1>8, <1>9, Steps DEF CallbackNext

\* What x has queued and what it has called back with are different messages.
InboxTrue(x) ==
    /\ Distinct(inbox[x]) /\ Elements(inbox[x]) \subseteq published
    /\ calling[x] # None => calling[x] \in published \ Elements(inbox[x])

\* What has arrived at subscriber s.
Seen(s) == Elements(msgChan[s]) \cup Elements(got[s])

\* What arrived at s, arrived once, and does not arrive again: its source does not have it
\* any more, or has passed s with it.
ArrivedOnce(s) ==
    /\ Distinct(got[s] \o msgChan[s]) /\ Seen(s) \subseteq published
    /\ Source(s) = None => Seen(s) = {}
    /\ Source(s) # None =>
          /\ Seen(s) \cap Elements(inbox[Source(s)]) = {}
          /\ calling[Source(s)] \in Seen(s) =>
                /\ s \notin Elements(todo[Source(s)])
                /\ Source(s) \in Direct \/ locked[Source(s)]

Flow == \A s \in Subscribers : InboxTrue(s) /\ ArrivedOnce(s)

\* Nothing is on its way at the start.
LEMMA FlowInit == Init => Flow
<1> SUFFICES ASSUME Init PROVE Flow
  OBVIOUS
<1>1. Elements(<< >>) = {} /\ Distinct(<< >>) /\ Distinct(<< >> \o << >>)
  BY DEF Elements, Distinct
<1> QED
  BY <1>1 DEF Init, Flow, InboxTrue, ArrivedOnce, Seen

\* Moving the head of what waits to the end of what was read leaves their sequence.
LEMMA MoveHead ==
    ASSUME NEW T, NEW L \in Seq(T), NEW Q \in Seq(T), Q # << >>
    PROVE  Append(L, Head(Q)) \o Tail(Q) = L \o Q
  OBVIOUS

\* What joins the end of what waits joins the end of all.
LEMMA AppendAfter ==
    ASSUME NEW T, NEW L \in Seq(T), NEW Q \in Seq(T), NEW e \in T
    PROVE  L \o Append(Q, e) = Append(L \o Q, e)
  OBVIOUS

\* Two sequences joined have what either has; if the whole repeats nothing, nor does the
\* first.
LEMMA ElementsConcat ==
    ASSUME NEW T, NEW L \in Seq(T), NEW Q \in Seq(T)
    PROVE  /\ Elements(L \o Q) = Elements(L) \cup Elements(Q)
           /\ Distinct(L \o Q) => Distinct(L)
<1>1. /\ L \o Q \in Seq(T) /\ Len(L) \in Nat /\ Len(Q) \in Nat
      /\ Len(L \o Q) = Len(L) + Len(Q)
      /\ DOMAIN L = 1..Len(L) /\ DOMAIN Q = 1..Len(Q) /\ DOMAIN (L \o Q) = 1..Len(L) + Len(Q)
  OBVIOUS
<1>2. \A i \in 1..Len(L) : i \in 1..Len(L) + Len(Q) /\ (L \o Q)[i] = L[i]
  BY <1>1
<1>3. \A i \in 1..Len(Q) : Len(L) + i \in 1..Len(L) + Len(Q) /\ (L \o Q)[Len(L) + i] = Q[i]
  BY <1>1
<1>4. \A i \in 1..Len(L) + Len(Q) :
         i \in 1..Len(L) \/ (i - Len(L) \in 1..Len(Q) /\ Len(L) + (i - Len(L)) = i)
  BY <1>1
<1>5. Elements(L) \cup Elements(Q) \subseteq Elements(L \o Q)
  BY <1>1, <1>2, <1>3 DEF Elements
<1>6. Elements(L \o Q) \subseteq Elements(L) \cup Elements(Q)
  <2> SUFFICES ASSUME NEW i \in 1..Len(L) + Len(Q)
               PROVE (L \o Q)[i] \in Elements(L) \cup Elements(Q)
    BY <1>1 DEF Elements
  <2>1. CASE i \in 1..Len(L)
    BY <1>1, <1>2, <2>1 DEF Elements
  <2>2. CASE i - Len(L) \in 1..Len(Q) /\ Len(L) + (i - Len(L)) = i
    <3>1. (L \o Q)[i] = Q[i - Len(L)]
      BY <1>3, <2>2
    <3> QED
      BY <1>1, <2>2, <3>1 DEF Elements
  <2> QED
    BY <1>4, <2>1, <2>2
<1>7. Distinct(L \o Q) => Distinct(L)
  BY <1>1, <1>2 DEF Distinct
<1> QED
  BY <1>5, <1>6, <1>7

\* Each step keeps Flow: a message comes to a subscriber once.
LEMMA FlowStep ==
    ASSUME TypeOK, Homes, TodoTrue, Flow, [panicked = None /\ Next]_vars
    PROVE  Flow'
<1> USE NatsBusAssumption DEF busVars, subVars, chanVars, natsVars, callVars
<1>0. /\ Direct' = Direct
      /\ \A m \in Messages : m # None
      /\ \A x \in Subscribers : /\ inbox[x] \in Seq(Messages) /\ todo[x] \in Seq(Subscribers)
                                /\ msgChan[x] \in Seq(Messages) /\ got[x] \in Seq(Messages)
                                /\ Source(x) \in Subscribers \cup {None}
      /\ \A x \in Subscribers : InboxTrue(x) /\ ArrivedOnce(x) /\ TodoAt(x)
  BY DEF Direct, TypeOK, Source, Flow, TodoTrue
<1>a. \A L, Q \in Seq(Messages), e \in Messages : L \o Append(Q, e) = Append(L \o Q, e)
  BY AppendAfter
<1>1. ASSUME NEW s \in Subscribers, SubscribeNext(s) \/ Cancel(s) \/ CloseNext(s) PROVE Flow'
  <2>1. UNCHANGED <<published, inbox, calling, todo, locked, msgChan, got>>
    BY <1>1, SubscriberStep
  <2>2. ASSUME NEW t \in Subscribers PROVE home[t] # None => home'[t] = home[t]
    <3>1. CASE FindRouter(s)
      <4>1. spc[s] = "new" /\ home[s] = None
        BY <3>1 DEF FindRouter, Goes, Homes
      <4>2. t # s => home'[t] = home[t]
        BY <3>1 DEF FindRouter, TypeOK
      <4> QED
        BY <4>1, <4>2
    <3>2. CASE ~ FindRouter(s)
      BY <1>1, <3>2 DEF SubscribeNext, Subscribe, Open, SubscribeRouter, Forget, Cancel,
             CloseNext, Unsubscribe, UnsubscribeRouter, LeaveRouter, CloseChan
    <3> QED
      BY <3>1, <3>2
  <2>3. ASSUME NEW t \in Subscribers PROVE InboxTrue(t)'
    BY <1>0, <2>1 DEF InboxTrue
  <2>4. ASSUME NEW t \in Subscribers PROVE ArrivedOnce(t)'
    <3>1. ArrivedOnce(t)
      BY <1>0
    <3>2. CASE Source(t) # None
      <4>1. Source(t)' = Source(t)
        BY <1>0, <2>2, <3>2 DEF Source
      <4> QED
        BY <1>0, <2>1, <3>1, <3>2, <4>1 DEF ArrivedOnce, Seen
    <3>3. CASE Source(t) = None
      <4>1. Seen(t) = {} /\ Seen(t)' = {} /\ Distinct(got'[t] \o msgChan'[t])
        BY <2>1, <3>1, <3>3 DEF ArrivedOnce, Seen
      <4> QED
        BY <4>1 DEF ArrivedOnce
    <3> QED
      BY <3>2, <3>3
  <2> QED
    BY <2>3, <2>4 DEF Flow
<1>2. ASSUME NEW m \in Messages, Publish(m) PROVE Flow'
  <2>1. PICK to \in Reached(m) :
           inbox' = [x \in Subscribers |-> IF x \in to THEN Append(inbox[x], m) ELSE inbox[x]]
    BY <1>2 DEF Publish
  <2>2. /\ UNCHANGED <<home, msgChan, got, calling, todo, locked>>
        /\ published' = published \cup {m} /\ m \notin published
    BY <1>2 DEF Publish
  <2>3. ASSUME NEW x \in Subscribers
        PROVE  /\ Distinct(inbox'[x])
               /\ Elements(inbox'[x]) \subseteq Elements(inbox[x]) \cup {m}
    <3>1. InboxTrue(x)
      BY <1>0
    <3>2. CASE inbox'[x] = inbox[x]
      BY <3>1, <3>2 DEF InboxTrue
    <3>3. CASE inbox'[x] = Append(inbox[x], m)
      <4>1. m \notin Elements(inbox[x])
        BY <2>2, <3>1 DEF InboxTrue
      <4> QED
        BY <1>0, <3>1, <3>3, <4>1, ElementsAppend, DistinctAppend DEF InboxTrue
    <3> QED
      BY <2>1, <3>2, <3>3
  <2>4. ASSUME NEW x \in Subscribers PROVE InboxTrue(x)'
    BY <1>0, <2>2, <2>3 DEF InboxTrue
  <2>5. ASSUME NEW s \in Subscribers PROVE ArrivedOnce(s)'
    <3>1. ArrivedOnce(s) /\ Source(s)' = Source(s) /\ Seen(s)' = Seen(s)
      BY <1>0, <2>2 DEF Source, Seen
    <3>2. Distinct((got[s] \o msgChan[s])')
      BY <2>2, <3>1 DEF ArrivedOnce
    <3>3. Seen(s) \subseteq published' /\ m \notin Seen(s)
      BY <2>2, <3>1 DEF ArrivedOnce
    <3>4. Source(s) # None => Seen(s) \cap Elements(inbox'[Source(s)]) = {}
      <4>1. ASSUME Source(s) # None PROVE Seen(s) \cap Elements(inbox[Source(s)]) = {}
        BY <3>1, <4>1 DEF ArrivedOnce
      <4> QED
        BY <1>0, <2>3, <3>3, <4>1
    <3> QED
      BY <1>0, <2>2, <3>1, <3>2, <3>3, <3>4 DEF ArrivedOnce
  <2> QED
    BY <2>4, <2>5 DEF Flow
\* A callback's step may be looked at by the subscribers of its subscription.
<1>3. ASSUME NEW x \in Subscribers, UNCHANGED <<home, published>>,
             \A y \in Subscribers \ {x} :
                UNCHANGED <<inbox[y], calling[y], todo[y], locked[y]>>,
             InboxTrue(x)',
             \A s \in Subscribers : Source(s) # x => UNCHANGED <<msgChan[s], got[s]>>,
             \A s \in Subscribers : Source(s) = x => ArrivedOnce(s)'
      PROVE  Flow'
  <2>1. ASSUME NEW y \in Subscribers PROVE InboxTrue(y)'
    BY <1>0, <1>3 DEF InboxTrue
  <2>2. ASSUME NEW s \in Subscribers PROVE ArrivedOnce(s)'
    <3>1. CASE Source(s) # x
      <4>1. Source(s)' = Source(s)
        BY <1>0, <1>3 DEF Source
      <4>2. Source(s) # None => Source(s) \in Subscribers \ {x}
        BY <1>0, <3>1
      <4>3. ArrivedOnce(s) /\ UNCHANGED <<msgChan[s], got[s]>>
        BY <1>0, <1>3, <3>1
      <4>4. Seen(s)' = Seen(s) /\ (got[s] \o msgChan[s])' = got[s] \o msgChan[s]
        BY <4>3 DEF Seen
      <4> QED
        BY <1>0, <1>3, <4>1, <4>2, <4>3, <4>4 DEF ArrivedOnce
    <3> QED
      BY <1>3, <3>1
  <2> QED
    BY <2>1, <2>2 DEF Flow
<1>4. ASSUME NEW x \in Subscribers, Deliver(x) PROVE Flow'
  <2> DEFINE m == Head(inbox[x])
  <2>1. /\ UNCHANGED <<home, published, msgChan, got, locked>>
        /\ \A y \in Subscribers \ {x} : UNCHANGED <<inbox[y], todo[y], calling[y]>>
        /\ calling'[x] = m /\ inbox'[x] = Tail(inbox[x]) /\ inbox[x] # << >>
    BY <1>4 DEF Deliver, TypeOK
  <2>2. /\ Elements(inbox[x]) = {m} \cup Elements(inbox'[x])
        /\ Distinct(inbox'[x]) /\ m \notin Elements(inbox'[x])
    BY <1>0, <2>1, ElementsTail, DistinctTail DEF InboxTrue
  <2> HIDE DEF m
  <2>3. InboxTrue(x)'
    BY <1>0, <2>1, <2>2 DEF InboxTrue
  <2>4. ASSUME NEW s \in Subscribers, Source(s) = x PROVE ArrivedOnce(s)'
    <3>1. ArrivedOnce(s) /\ Source(s)' = Source(s) /\ Seen(s)' = Seen(s)
      BY <1>0, <2>1 DEF Source, Seen
    <3>2. Seen(s) \cap Elements(inbox[x]) = {}
      BY <2>4, <3>1 DEF ArrivedOnce
    <3>3. m \notin Seen(s) /\ Seen(s) \cap Elements(inbox'[x]) = {}
      BY <2>2, <3>2
    <3> QED
      BY <1>0, <2>1, <2>4, <3>1, <3>3 DEF ArrivedOnce
  <2> QED
    BY <1>3, <2>1, <2>3, <2>4
<1>5. ASSUME NEW x \in Subscribers, Route(x) PROVE Flow'
  <2>1. /\ UNCHANGED <<home, published, msgChan, got, inbox, calling>>
        /\ \A y \in Subscribers \ {x} : UNCHANGED <<todo[y], locked[y]>>
        /\ x \notin Direct /\ ~ locked[x]
    BY <1>5 DEF Route, TypeOK
  <2>2. InboxTrue(x)'
    BY <1>0, <2>1 DEF InboxTrue
  <2>3. ASSUME NEW s \in Subscribers, Source(s) = x PROVE ArrivedOnce(s)'
    <3>1. ArrivedOnce(s) /\ Source(s)' = Source(s) /\ Seen(s)' = Seen(s)
      BY <1>0, <2>1 DEF Source, Seen
    <3>2. calling[x] \notin Seen(s)
      BY <2>1, <2>3, <3>1 DEF ArrivedOnce
    <3> QED
      BY <1>0, <2>1, <2>3, <3>1, <3>2 DEF ArrivedOnce
  <2> QED
    BY <1>3, <2>1, <2>2, <2>3
<1>6. ASSUME NEW x \in Subscribers, Write(x) PROVE Flow'
  <2> DEFINE t == Head(todo[x])
             m == calling[x]
  <2>1. /\ UNCHANGED <<home, published, got, inbox, calling, locked>>
        /\ \A y \in Subscribers \ {x} : todo'[y] = todo[y]
        /\ todo'[x] = Tail(todo[x]) /\ todo[x] # << >> /\ m # None
        /\ UNCHANGED msgChan \/ msgChan' = [msgChan EXCEPT ![t] = Append(@, m)]
    BY <1>6 DEF Write, TypeOK
  <2>2. /\ Elements(todo[x]) = {t} \cup Elements(todo'[x]) /\ t \in Subscribers
        /\ t \notin Elements(todo'[x])
    BY <1>0, <2>1, ElementsTail, ElementsType, DistinctTail DEF TodoAt
  <2>3. Source(t) = x /\ (x \in Direct \/ locked[x])
    BY <1>0, <2>1, <2>2 DEF TodoAt, Source
  <2>4. m \in Messages /\ m \in published \ Elements(inbox[x])
    BY <1>0, <2>1 DEF TypeOK, InboxTrue
  <2> HIDE DEF t, m
  <2>5. \A s \in Subscribers \ {t} : msgChan'[s] = msgChan[s]
    BY <2>1 DEF TypeOK
  <2>6. InboxTrue(x)'
    BY <1>0, <2>1 DEF InboxTrue
  <2>7. ASSUME NEW s \in Subscribers, Source(s) = x PROVE ArrivedOnce(s)'
    <3>1. ArrivedOnce(s) /\ Source(s)' = Source(s)
      BY <1>0, <2>1 DEF Source
    <3>2. CASE msgChan'[s] = msgChan[s]
      <4>1. Seen(s)' = Seen(s) /\ (got[s] \o msgChan[s])' = got[s] \o msgChan[s]
        BY <2>1, <3>2 DEF Seen
      <4> QED
        BY <1>0, <2>1, <2>2, <2>7, <3>1, <4>1 DEF ArrivedOnce
    <3>3. CASE s = t /\ msgChan' = [msgChan EXCEPT ![t] = Append(@, m)]
      <4>1. msgChan'[s] = Append(msgChan[s], m) /\ got'[s] = got[s]
        BY <2>1, <2>2, <3>3 DEF TypeOK
      <4>2. m \notin Seen(s)
        BY <2>2, <2>7, <3>1, <3>3 DEF ArrivedOnce, m
      <4>3. msgChan[s] \in Seq(Messages) /\ got[s] \in Seq(Messages)
        BY <1>0, <2>2
      <4>4. Elements(Append(msgChan[s], m)) = Elements(msgChan[s]) \cup {m}
        BY <4>3, ElementsAppend
      <4>5. Seen(s)' = Seen(s) \cup {m}
        BY <4>1, <4>4 DEF Seen
      <4>6. got[s] \o Append(msgChan[s], m) = Append(got[s] \o msgChan[s], m)
        BY <1>a, <2>4, <4>3, Zenon
      <4>7. m \notin Elements(got[s] \o msgChan[s])
        BY <4>2, <4>3, ElementsConcat DEF Seen
      <4>8. got[s] \o msgChan[s] \in Seq(Messages)
        BY <4>3
      <4>9. Distinct(got[s] \o msgChan[s])
        BY <3>1, <3>3 DEF ArrivedOnce
      <4>10. Distinct(Append(got[s] \o msgChan[s], m))
        BY <4>7, <4>8, <4>9, DistinctAppend
      <4>11. Distinct((got[s] \o msgChan[s])')
        BY <4>1, <4>6, <4>10
      <4>12. Seen(s) \cap Elements(inbox[x]) = {} /\ Seen(s) \subseteq published
        BY <2>7, <3>1, <3>3 DEF ArrivedOnce
      <4>13. x # None
        OBVIOUS
      <4>14. Seen(s)' \subseteq published' /\ Seen(s)' \cap Elements(inbox'[x]) = {}
        BY <2>1, <2>4, <4>5, <4>12
      <4>15. Source(s)' = x
        BY <2>7, <3>1, <3>3
      <4> QED
        BY <1>0, <2>1, <2>2, <2>3, <3>3, <4>11, <4>13, <4>14, <4>15 DEF ArrivedOnce
    <3> QED
      BY <2>1, <2>5, <3>2, <3>3
  <2>8. \A s \in Subscribers : Source(s) # x => UNCHANGED <<msgChan[s], got[s]>>
    BY <2>1, <2>3, <2>5
  <2> QED
    BY <1>3, <2>1, <2>6, <2>7, <2>8
<1>7. ASSUME NEW x \in Subscribers, Return(x) PROVE Flow'
  <2>1. /\ UNCHANGED <<home, published, msgChan, got, inbox, todo>>
        /\ \A y \in Subscribers \ {x} : UNCHANGED <<calling[y], locked[y]>>
        /\ calling'[x] = None
    BY <1>7 DEF Return, TypeOK
  <2>2. InboxTrue(x)'
    BY <1>0, <2>1 DEF InboxTrue
  <2>3. ASSUME NEW s \in Subscribers, Source(s) = x PROVE ArrivedOnce(s)'
    <3>1. ArrivedOnce(s) /\ Source(s)' = Source(s) /\ Seen(s)' = Seen(s)
      BY <1>0, <2>1 DEF Source, Seen
    <3>2. None \notin Seen(s)
      BY <3>1, <1>0 DEF ArrivedOnce, TypeOK
    <3> QED
      BY <1>0, <2>1, <2>3, <3>1, <3>2 DEF ArrivedOnce
  <2> QED
    BY <1>3, <2>1, <2>2, <2>3
<1>8. ASSUME NEW x \in Subscribers, Read(x) PROVE Flow'
  <2>1. /\ UNCHANGED <<home, published, inbox, calling, todo, locked>>
        /\ \A s \in Subscribers \ {x} : UNCHANGED <<msgChan[s], got[s]>>
        /\ msgChan[x] # << >> /\ msgChan'[x] = Tail(msgChan[x])
        /\ got'[x] = Append(got[x], Head(msgChan[x]))
    BY <1>8 DEF Read, TypeOK
  <2>2. Seen(x)' = Seen(x)
    BY <1>0, <2>1, ElementsTail, ElementsAppend DEF Seen
  <2>3. (got[x] \o msgChan[x])' = got[x] \o msgChan[x]
    <3>1. got[x] \in Seq(Messages) /\ msgChan[x] \in Seq(Messages)
      BY <1>0
    <3>2. Append(got[x], Head(msgChan[x])) \o Tail(msgChan[x]) = got[x] \o msgChan[x]
      BY <2>1, <3>1, MoveHead
    <3> QED
      BY <2>1, <3>2, Zenon
  <2>4. ASSUME NEW s \in Subscribers PROVE InboxTrue(s)'
    BY <1>0, <2>1 DEF InboxTrue
  <2>5. ASSUME NEW s \in Subscribers PROVE ArrivedOnce(s)'
    <3>1. ArrivedOnce(s) /\ Source(s)' = Source(s)
      BY <1>0, <2>1 DEF Source
    <3>2. Seen(s)' = Seen(s) /\ (got[s] \o msgChan[s])' = got[s] \o msgChan[s]
      BY <2>1, <2>2, <2>3 DEF Seen
    <3>3. Direct' = Direct
      BY <1>0
    <3>4. /\ inbox'[Source(s)'] = inbox[Source(s)] /\ calling'[Source(s)'] = calling[Source(s)]
          /\ todo'[Source(s)'] = todo[Source(s)] /\ locked'[Source(s)'] = locked[Source(s)]
          /\ published' = published
      BY <2>1, <3>1
    <3> QED
      BY <3>1, <3>2, <3>3, <3>4 DEF ArrivedOnce
  <2> QED
    BY <2>4, <2>5 DEF Flow
<1>9. ASSUME UNCHANGED vars PROVE Flow'
  BY <1>0, <1>9 DEF vars, Flow, InboxTrue, ArrivedOnce, Source, Seen
<1> QED
  BY <1>1, <1>2, <1>4, <1>5, <1>6, <1>7, <1>8, <1>9, Steps DEF CallbackNext

\* A message reaches every subscriber that was open when it was published and still is,
\* whatever joins or leaves its router meanwhile, and it reaches nobody twice.
THEOREM MessagesReach == Spec => []Delivered
<1>1. Init => OwedTrue /\ Kept /\ Flow
  BY KeptInit, FlowInit
<1>2. TypeOK /\ Routed /\ TodoTrue /\ Closed /\ OwedTrue /\ Kept /\ Flow
         /\ [panicked = None /\ Next]_vars
      => (OwedTrue /\ Kept /\ Flow)'
  BY OwedStep, KeptStep, FlowStep DEF Routed
<1>3. TypeOK /\ Kept /\ Flow => Delivered
  <2> SUFFICES ASSUME TypeOK, Kept, Flow PROVE Delivered
    OBVIOUS
  <2>1. \A s \in Subscribers : got[s] \in Seq(Messages) /\ msgChan[s] \in Seq(Messages)
    BY DEF TypeOK
  <2>2. \A s \in Subscribers : Distinct(got[s])
    BY <2>1, ElementsConcat DEF Flow, ArrivedOnce
  <2>3. published \subseteq Messages
    BY DEF TypeOK
  <2> QED
    BY <2>2, <2>3 DEF Delivered, Kept, Distinct
<1> QED
  BY <1>1, <1>2, <1>3, CallbacksAlways, PTL DEF Spec

----------------------------------------------------------------------------
\* Coming to rest.

\* Where a subscriber is that has been open.
Up == {"open", "cancelled", "removing", "removed", "closed"}

\* NATS calls only subscriptions whose subscriber has been open; and who failed has no
\* router, but for the one that it made itself.
Live ==
    /\ \A x \in Subscribers : x \in active \/ calling[x] # None => spc[x] \in Up
    /\ \A s \in Subscribers : spc[s] = "failed" => home[s] \in {None, s}

\* Each step keeps Live: nobody who has been open is subscribing or failing again.
LEMMA LiveStep ==
    ASSUME TypeOK, Homes, Live, [panicked = None /\ Next]_vars
    PROVE  Live'
<1> USE DEF busVars, subVars, chanVars, natsVars, callVars
<1>1. ASSUME NEW s \in Subscribers, NEW from, NEW to, Goes(s, from, to), calling' = calling,
             active' \subseteq active \cup {s}, s \in active' \/ from \in Up => to \in Up,
             \A n \in Subscribers \ {s} : home'[n] = home[n],
             to = "failed" => home'[s] \in {None, s}
      PROVE  Live'
  <2>1. spc[s] = from /\ \A n \in Subscribers : spc'[n] = IF n = s THEN to ELSE spc[n]
    BY <1>1, GoesTo
  <2>2. ASSUME NEW x \in Subscribers, x \in active' \/ calling'[x] # None PROVE spc'[x] \in Up
    BY <1>1, <2>1, <2>2 DEF Live
  <2>3. ASSUME NEW n \in Subscribers, spc'[n] = "failed" PROVE home'[n] \in {None, n}
    BY <1>1, <2>1, <2>3 DEF Live
  <2> QED
    BY <2>2, <2>3 DEF Live
<1>2. \A s \in Subscribers :
         /\ spc[s] = "new" => home[s] = None
         /\ spc[s] = "failing" => home[s] = s
         /\ spc[s] \notin Up => s \notin active
  BY DEF Homes, Live
<1>3. DOMAIN home = Subscribers /\ DOMAIN calling = Subscribers
  BY DEF TypeOK
<1> HIDE DEF TypeOK, Homes
<1>4. ASSUME NEW s \in Subscribers, Subscribe(s) PROVE Live'
  <2>1. /\ UNCHANGED <<home, calling>>
        /\ \/ Goes(s, "new", "open") /\ active' = active \cup {s}
           \/ Goes(s, "new", "failed") /\ active' = active
    BY <1>4, Zenon DEF Subscribe
  <2>2. home[s] = None /\ s \notin active
    BY <1>2, <2>1 DEF Goes, Up
  <2> QED
    BY <1>1, <2>1, <2>2 DEF Up
<1>5. ASSUME NEW s \in Subscribers, FindRouter(s) PROVE Live'
  <2>1. /\ UNCHANGED <<active, calling>>
        /\ \/ Goes(s, "new", "opening") /\ \E r : home' = [home EXCEPT ![s] = r]
           \/ Goes(s, "new", "failed") /\ home' = home
    BY <1>5, Zenon DEF FindRouter
  <2>2. home[s] = None /\ s \notin active
    BY <1>2, <2>1 DEF Goes, Up
  <2>3. \A n \in Subscribers \ {s} : home'[n] = home[n]
    BY <1>3, <2>1
  <2>4. CASE Goes(s, "new", "opening")
    BY <1>1, <2>1, <2>2, <2>3, <2>4 DEF Up
  <2>5. CASE Goes(s, "new", "failed") /\ home' = home
    BY <1>1, <2>1, <2>2, <2>5 DEF Up
  <2> QED
    BY <2>1, <2>4, <2>5
<1>6. ASSUME NEW s \in Subscribers, Open(s) PROVE Live'
  <2>1. /\ UNCHANGED <<home, active, calling>>
        /\ Goes(s, "opening", "subscribing") \/ Goes(s, "opening", "open")
    BY <1>6 DEF Open
  <2>2. s \notin active
    BY <1>2, <2>1 DEF Goes, Up
  <2> QED
    BY <1>1, <2>1, <2>2 DEF Up
<1>7. ASSUME NEW s \in Subscribers, SubscribeRouter(s) PROVE Live'
  <2>1. /\ UNCHANGED <<home, calling>>
        /\ \/ Goes(s, "subscribing", "open") /\ active' = active \cup {s}
           \/ Goes(s, "subscribing", "failing") /\ active' = active
    BY <1>7, Zenon DEF SubscribeRouter
  <2>2. s \notin active
    BY <1>2, <2>1 DEF Goes, Up
  <2> QED
    BY <1>1, <2>1, <2>2 DEF Up
<1>8. ASSUME NEW s \in Subscribers, Forget(s) PROVE Live'
  <2>1. UNCHANGED <<home, active, calling>> /\ Goes(s, "failing", "failed")
    BY <1>8, Zenon DEF Forget
  <2>2. home[s] = s /\ s \notin active
    BY <1>2, <2>1 DEF Goes, Up
  <2> QED
    BY <1>1, <2>1, <2>2 DEF Up
<1>9. ASSUME NEW s \in Subscribers, Cancel(s) \/ CloseNext(s) PROVE Live'
  <2>1. UNCHANGED <<home, calling>> /\ active' \subseteq active
    <3>1. UNCHANGED <<home, calling>> /\ \E r : active' \in {active, active \ {r}}
      BY <1>9 DEF Cancel, CloseNext, Unsubscribe, UnsubscribeRouter, LeaveRouter, CloseChan
    <3> QED
      BY <3>1
  <2>2. \E from \in Up \ {"failed"}, to \in Up \ {"failed"} : Goes(s, from, to)
    BY <1>9 DEF Cancel, CloseNext, Unsubscribe, UnsubscribeRouter, LeaveRouter, CloseChan, Up
  <2> QED
    BY <1>1, <2>1, <2>2 DEF Up
<1>10. ASSUME \/ UNCHANGED vars \/ \E m \in Messages : Publish(m)
              \/ \E x \in Subscribers : CallbackNext(x) \/ Read(x)
       PROVE  Live'
  <2>1. UNCHANGED <<spc, home, active>>
    BY <1>10, MessageStep
  <2>2. \A x \in Subscribers : calling'[x] # None => calling[x] # None \/ x \in active
    <3>1. \/ calling' = calling
          \/ \E x \in Subscribers : Deliver(x) \/ Return(x)
      BY <1>10, Zenon DEF vars, Publish, CallbackNext, Route, Write, Read
    <3>2. ASSUME NEW x \in Subscribers, Deliver(x) \/ Return(x)
          PROVE  \/ x \in active /\ \E m : calling' = [calling EXCEPT ![x] = m]
                 \/ calling' = [calling EXCEPT ![x] = None]
      BY <3>2, Zenon DEF Deliver, Return
    <3> QED
      BY <1>3, <3>1, <3>2
  <2> QED
    BY <2>1, <2>2 DEF Live
<1> QED
  BY <1>4, <1>5, <1>6, <1>7, <1>8, <1>9, <1>10, Steps DEF SubscribeNext

\* When no guard holds no callback runs, so that no router is locked; then nobody who
\* subscribes or closes waits for a router, or for who waits for one.
LEMMA RestsThen ==
    ASSUME TypeOK, Routed, TodoTrue, Live, ~ CanGoOn
    PROVE  AtRest
<1>1. \A s \in Subscribers :
         /\ spc[s] \in {"opening", "removing"} => locked[home[s]]
         /\ spc[s] \notin {"subscribing", "removed"}
         /\ spc[s] \in {"failing", "cancelled"} => busHolder # None
         /\ spc[s] = "open" => msgChan[s] = << >>
  BY DEF CanGoOn
<1>2. \A x \in Subscribers :
         /\ x \in active /\ inbox[x] # << >> => calling[x] # None
         /\ calling[x] # None => (x \in Direct \/ locked[x]) /\ todo[x] # << >>
  BY DEF CanGoOn
<1>3. \A x \in Subscribers : calling[x] # None /\ todo[x] # << >> =>
         \A n : n = Head(todo[x]) => ~ Skips(n) /\ ~ (Len(msgChan[n]) < Size)
  BY DEF CanGoOn
<1>4. \A q \in Seq(Messages) : ~ (Len(q) < Size) => q # << >>
  BY NatsBusAssumption
<1>5. ASSUME NEW x \in Subscribers, calling[x] # None PROVE FALSE
  <2>1. PICK n, q : n = Head(todo[x]) /\ q = todo[x]
    OBVIOUS
  <2>2. q \in Seq(Subscribers) /\ q # << >>
    BY <1>2, <1>5, <2>1 DEF TypeOK
  <2>3. n \in Subscribers /\ n \in Elements(q)
    BY <2>1, <2>2, ElementsTail
  <2>4. msgChan[n] \in Seq(Messages) /\ ~ Skips(n) /\ ~ (Len(msgChan[n]) < Size)
    BY <1>2, <1>3, <1>5, <2>1, <2>3 DEF TypeOK
  <2>5. spc[n] \notin Up
    BY <1>1, <1>4, <2>3, <2>4 DEF Up, Skips
  <2>6. spc[x] \in Up
    BY <1>5 DEF Live
  <2>7. CASE x \in Direct
    BY <2>1, <2>3, <2>5, <2>6, <2>7 DEF TodoTrue, TodoAt
  <2>8. CASE x \notin Direct
    <3>1. home[n] = x /\ Joined(n)
      BY <2>1, <2>3, <2>8 DEF TodoTrue, TodoAt
    <3>2. spc[n] \in {"failing", "failed"}
      BY <1>1, <2>3, <2>5, <3>1 DEF Joined, Up
    <3>3. n = x
      BY <2>3, <3>1, <3>2, NatsBusAssumption DEF Live, Routed, Homes
    <3> QED
      BY <2>5, <2>6, <3>3
  <2> QED
    BY <2>7, <2>8
<1>6. \A x \in Subscribers : calling[x] = None /\ ~ locked[x]
  BY <1>5 DEF TodoTrue, TodoAt
<1>7. \A s \in Subscribers : spc[s] \notin {"opening", "removing"}
  <2>1. \A s \in Subscribers : spc[s] \in {"opening", "removing"} => home[s] \in Subscribers
    BY DEF Routed, Homes, TypeOK
  <2> QED
    BY <1>1, <1>6, <2>1
<1>8. busHolder = None
  BY <1>7 DEF Routed, Held, TypeOK
<1>9. ASSUME NEW s \in Subscribers PROVE spc[s] \in {"new", "open", "failed", "closed"}
  <2>1. spc[s] \in SubState
    BY DEF TypeOK, SubState
  <2> QED
    BY <1>1, <1>7, <1>8, <2>1 DEF SubState
<1>10. ASSUME NEW x \in active PROVE inbox[x] = << >>
  <2>1. x \in Subscribers
    BY DEF TypeOK
  <2> QED
    BY <1>2, <1>6, <2>1
<1> QED
  BY <1>6, <1>8, <1>9, <1>10 DEF AtRest

\* Unless a direct subscription's callback has panicked, no callback, Subscribe and Close
\* hold each other up: left alone, they all return and what NATS queued is delivered.
THEOREM ComesToRest == Spec => []AtRest
<1>1. Init => Live
  BY DEF Init, Live
<1>2. TypeOK /\ Routed /\ Live /\ [panicked = None /\ Next]_vars => Live'
  BY LiveStep DEF Routed
<1>3. TypeOK /\ Routed /\ TodoTrue /\ Live => AtRest
  BY RestsThen DEF AtRest
<1> QED
  BY <1>1, <1>2, <1>3, CallbacksAlways, PTL DEF Spec
=============================================================================
