--------------------------- MODULE LocalBus_proofs --------------------------
(***************************************************************************)
(* Theorems about LocalBus, for every set of publishers and subscribers,   *)
(* any size of the buffers and any number of messages.                     *)
(***************************************************************************)
EXTENDS LocalBus, FiniteSetTheorems, NaturalsInduction, WellFoundedInduction, TLAPS

SubState == {"new", "adding", "open", "cancelled", "removing", "removed", "closed"}
PubState == {"idle", "locking", "scanning", "writing", "returning"}

----------------------------------------------------------------------------
\* Slots.

\* The places taken in a list's slots.
Filled(q) == {i \in DOMAIN q : q[i] # None}

\* The members of S have one slot each in q, and nobody else has one.
Places(q, S) ==
    /\ Elements(q) \ {None} = S
    /\ \A i, j \in DOMAIN q : q[i] = q[j] /\ q[i] # None => i = j

\* A set of numbers that is not empty has a least.
LEMMA Least ==
    ASSUME NEW S \in SUBSET Nat, S # {}
    PROVE  \E i \in S : \A j \in S : i <= j
<1>1. \E i \in S : \A j \in S : <<j, i>> \notin OpToRel(<, Nat)
  BY WFMin, NatLessThanWellFounded
<1>2. \A i, j \in Nat : <<j, i>> \notin OpToRel(<, Nat) => i <= j
  BY DEF OpToRel
<1> QED
  BY <1>1, <1>2

\* The slots in use of a list are a finite set, so that they can be counted.
LEMMA FilledFinite ==
    ASSUME NEW q \in Seq(Slot)
    PROVE  /\ IsFiniteSet(Filled(q)) /\ Cardinality(Filled(q)) \in Nat
           /\ Filled(q) = {} <=> Cardinality(Filled(q)) = 0
<1>1. DOMAIN q = 1..Len(q) /\ 1 \in Int /\ Len(q) \in Int
  OBVIOUS
<1>2. IsFiniteSet(1..Len(q))
  BY <1>1, FS_Interval
<1>3. Filled(q) \in SUBSET (1..Len(q))
  BY <1>1 DEF Filled
<1>4. IsFiniteSet(Filled(q))
  BY <1>2, <1>3, FS_Subset
<1> QED
  BY <1>4, FS_CardinalityType, FS_EmptySet

\* A subscriber of the list is in a slot of it.
LEMMA PlacesFilled ==
    ASSUME NEW q, NEW S, Places(q, S), NEW s \in S
    PROVE  \E i \in Filled(q) : q[i] = s
  BY DEF Places, Elements, Filled

\* Add puts s into the slots.
LEMMA PlacesAppend ==
    ASSUME NEW q \in Seq(Slot), NEW S, Places(q, S), NEW s \in Slot \ {None}, s \notin S
    PROVE  /\ Append(q, s) \in Seq(Slot) /\ Append(q, s) # << >>
           /\ Len(Append(q, s)) = Len(q) + 1
           /\ \A i \in DOMAIN q : i \in DOMAIN Append(q, s) /\ Append(q, s)[i] = q[i]
           /\ Places(Append(q, s), S \cup {s})
           /\ Cardinality(Filled(Append(q, s))) = Cardinality(Filled(q)) + 1
<1> DEFINE r == Append(q, s)
           n == Len(q)
<1>1. /\ r \in Seq(Slot) /\ Len(r) = n + 1 /\ n \in Nat
      /\ DOMAIN q = 1..n /\ DOMAIN r = 1..n + 1
      /\ \A i \in 1..n : r[i] = q[i]
      /\ r[n + 1] = s
  OBVIOUS
<1> HIDE DEF r, n
<1>2. \A i \in 1..n + 1 : i \in 1..n \/ i = n + 1
  BY <1>1
<1>3. 1..n \subseteq 1..n + 1 /\ n + 1 \in 1..n + 1 /\ n + 1 \notin 1..n
  BY <1>1
<1>4. s # None /\ \A i \in 1..n : q[i] # s
  BY <1>1 DEF Places, Elements
<1>5. Elements(r) \ {None} = S \cup {s}
  <2>1. Elements(r) = Elements(q) \cup {s}
    BY <1>1, <1>2, <1>3 DEF Elements
  <2> QED
    BY <1>4, <2>1 DEF Places
<1>6. \A i, j \in DOMAIN r : r[i] = r[j] /\ r[i] # None => i = j
  BY <1>1, <1>2, <1>4 DEF Places
<1>7. Filled(r) = Filled(q) \cup {n + 1} /\ n + 1 \notin Filled(q)
  BY <1>1, <1>2, <1>3, <1>4 DEF Filled
<1>8. Cardinality(Filled(r)) = Cardinality(Filled(q)) + 1
  BY <1>7, FilledFinite, FS_AddElement
<1>9. r # << >>
  BY <1>1
<1> QED
  BY <1>1, <1>3, <1>5, <1>6, <1>8, <1>9 DEF Places, r, n

\* A subscriber put into an empty slot leaves the others where they are, and the slots in
\* use are one more.
LEMMA PlacesFill ==
    ASSUME NEW q \in Seq(Slot), NEW S, Places(q, S), NEW s \in Slot \ {None}, s \notin S,
           NEW k \in DOMAIN q, q[k] = None, NEW r, DOMAIN r = DOMAIN q,
           \A i \in DOMAIN q : r[i] = IF i = k THEN s ELSE q[i]
    PROVE  /\ Places(r, S \cup {s})
           /\ Cardinality(Filled(r)) = Cardinality(Filled(q)) + 1
<1>1. r[k] = s /\ \A i \in DOMAIN q \ {k} : r[i] = q[i]
  OBVIOUS
<1>2. s # None /\ \A i \in DOMAIN q : q[i] # s
  BY DEF Places, Elements
<1>3. Elements(r) \ {None} = S \cup {s}
  BY <1>1, <1>2 DEF Places, Elements
<1>4. \A i, j \in DOMAIN r : r[i] = r[j] /\ r[i] # None => i = j
  BY <1>1, <1>2 DEF Places
<1>5. Filled(r) = Filled(q) \cup {k} /\ k \notin Filled(q)
  BY <1>1, <1>2 DEF Filled
<1>6. Cardinality(Filled(r)) = Cardinality(Filled(q)) + 1
  BY <1>5, FilledFinite, FS_AddElement
<1> QED
  BY <1>1, <1>3, <1>4, <1>6 DEF Places

\* Remove takes s out of them.
LEMMA PlacesClear ==
    ASSUME NEW q \in Seq(Slot), NEW S, Places(q, S), NEW s \in S, NEW r, DOMAIN r = DOMAIN q,
           \A i \in DOMAIN q : r[i] = IF q[i] = s THEN None ELSE q[i]
    PROVE  /\ Places(r, S \ {s})
           /\ Cardinality(Filled(r)) = Cardinality(Filled(q)) - 1
<1>1. DOMAIN r = DOMAIN q /\ \A i \in DOMAIN q : r[i] = IF q[i] = s THEN None ELSE q[i]
  OBVIOUS
<1>3. PICK k \in Filled(q) : q[k] = s
  BY PlacesFilled
<1>4. k \in DOMAIN q /\ s # None /\ \A i \in DOMAIN q : q[i] = s <=> i = k
  BY <1>3 DEF Filled, Places
<1>5. Elements(r) \ {None} = S \ {s}
  BY <1>1, <1>4 DEF Places, Elements
<1>6. \A i, j \in DOMAIN r : r[i] = r[j] /\ r[i] # None => i = j
  BY <1>1 DEF Places
<1>7. Filled(r) = Filled(q) \ {k}
  BY <1>1, <1>4 DEF Filled
<1>8. Cardinality(Filled(r)) = Cardinality(Filled(q)) - 1
  BY <1>3, <1>7, FilledFinite, FS_RemoveElement
<1> QED
  BY <1>1, <1>5, <1>6, <1>8 DEF Places

----------------------------------------------------------------------------
\* The invariant.

\* Is on a list.
Member(s) == spc[s] \in {"open", "cancelled", "removing"}
On(l) == {s \in Subscribers : home[s] = l /\ Member(s)}

\* Who is on a list, or about to be, is on the current one; and the bus's lock is held
\* by whoever is changing a list.
Homed ==
    /\ \A s \in Subscribers :
          /\ spc[s] = "adding" \/ Member(s) => home[s] = current
          /\ spc[s] \in {"adding", "removing"} <=> busHolder = s
    /\ current # None <=> \E s \in Subscribers : spc[s] = "adding" \/ Member(s)

Placed == \A l \in Lists : Places(slots[l], On(l))

Counted == \A l \in Lists : subCount[l] = Cardinality(Filled(slots[l]))

\* A Publish under way has a list that had a subscriber, and is at one of its slots.
Busy ==
    \A p \in Publishers :
       /\ sent[p] <= Messages
       /\ ppc[p] # "idle" =>
             /\ list[p] \in Lists /\ slots[list[p]] # << >> /\ sent[p] >= 1
             /\ ppc[p] = "writing" => cursor[p] < Len(slots[list[p]])
       /\ ppc[p] = "scanning" => queue

Closed ==
    /\ ~ panicked
    /\ \A s \in Subscribers : msgClosed[s] => spc[s] = "closed"

\* What is owed to s by p: s is open and on p's list, and has what p has passed it with.
ReachesOne(p, s) ==
    /\ spc[s] = "open"
    /\ ppc[p] # "idle" => home[s] = list[p]
    /\ ~ queue /\ ppc[p] = "writing" =>
          \A i \in DOMAIN slots[list[p]] :
             slots[list[p]][i] = s /\ i <= cursor[p] => <<p, sent[p]>> \in Received(s)
    /\ ~ queue /\ ppc[p] = "returning" => <<p, sent[p]>> \in Received(s)

Reaches == \A p \in Publishers : \A s \in owed[p] : ReachesOne(p, s)

\* A message is received when it was published, and one that is still being
\* dispatched to a queue has not been.
Fresh ==
    \A s \in Subscribers : \A m \in Received(s) :
       /\ m[2] <= sent[m[1]]
       /\ queue /\ m[2] = sent[m[1]] => ppc[m[1]] \in {"returning", "idle"}

NoneClosed == \A s \in Subscribers : spc[s] \in {"new", "adding", "open"}

\* A queue's message goes to one, and to one if nobody ever closed.
QueueTrue ==
    queue =>
       /\ \A s, t \in Subscribers : \A m \in Received(s) \cap Received(t) : s = t
       /\ NoneClosed =>
             /\ \A l \in Lists : \A i \in DOMAIN slots[l] : slots[l][i] # None
             /\ \A p \in Publishers :
                   ppc[p] = "returning" => \E s \in Subscribers : <<p, sent[p]>> \in Received(s)

----------------------------------------------------------------------------
\* What the steps change.

\* A step is one of a subscriber, of a publisher, or a stutter.
LEMMA Steps ==
    ASSUME [Next]_vars
    PROVE  \/ UNCHANGED vars
           \/ \E s \in Subscribers : SubscriberNext(s)
           \/ \E p \in Publishers : PublisherNext(p)
  BY DEF Next

\* No name is None, and a list is named by a subscriber.
LEMMA NamesDiffer == None \notin Subscribers /\ None \notin Publishers /\ Lists = Subscribers
  BY LocalBusAssumption DEF Lists

\* Who is about to join a list is not on it; whoever was keeps the slot; the list has one
\* slot more taken.
LEMMA AddDoes ==
    ASSUME TypeOK, Homed, Placed, NEW s \in Subscribers, Add(s)
    PROVE  /\ home[s] \in Lists /\ s \notin On(home[s])
           /\ slots'[home[s]] \in Seq(Slot) /\ slots'[home[s]] # << >>
           /\ Len(slots[home[s]]) <= Len(slots'[home[s]])
           /\ \A i \in DOMAIN slots'[home[s]] :
                 \/ slots'[home[s]][i] = s
                 \/ /\ i \in DOMAIN slots[home[s]]
                    /\ slots'[home[s]][i] = slots[home[s]][i]
           /\ Places(slots'[home[s]], On(home[s]) \cup {s})
           /\ Cardinality(Filled(slots'[home[s]])) = Cardinality(Filled(slots[home[s]])) + 1
           /\ \A k \in Lists \ {home[s]} : slots'[k] = slots[k]
<1>0. PICK l : l = home[s]
  OBVIOUS
<1> DEFINE q == slots[l]
<1>1. l \in Lists /\ spc[s] = "adding"
  BY <1>0, NamesDiffer DEF Add, Homed, TypeOK
<1>2. q \in Seq(Slot) /\ s \in Slot \ {None} /\ s \notin On(l) /\ Places(q, On(l))
  BY <1>1, NamesDiffer DEF TypeOK, Slot, On, Member, Placed
<1>3. /\ slots'[l] = IF FreeSlots(l) = {} THEN Append(q, s)
                     ELSE [q EXCEPT ![CHOOSE i \in FreeSlots(l) :
                                         \A j \in FreeSlots(l) : i <= j] = s]
      /\ \A k \in Lists \ {l} : slots'[k] = slots[k]
  BY <1>0, <1>1 DEF Add, TypeOK
<1>4. CASE FreeSlots(l) = {}
  <2>1. slots'[l] = Append(q, s)
    BY <1>3, <1>4
  <2>2. Len(q) \in Nat /\ DOMAIN q = 1..Len(q) /\ DOMAIN Append(q, s) = 1..Len(q) + 1
        /\ Append(q, s)[Len(q) + 1] = s
    BY <1>2
  <2>3. \A i \in DOMAIN Append(q, s) : i \in DOMAIN q \/ i = Len(q) + 1
    BY <2>2
  <2> HIDE DEF q
  <2>4. /\ slots'[l] \in Seq(Slot) /\ slots'[l] # << >> /\ Len(slots'[l]) = Len(q) + 1
        /\ \A i \in DOMAIN q : i \in DOMAIN slots'[l] /\ slots'[l][i] = q[i]
        /\ Places(slots'[l], On(l) \cup {s})
        /\ Cardinality(Filled(slots'[l])) = Cardinality(Filled(q)) + 1
    <3>1. PICK S : S = On(l)
      OBVIOUS
    <3>2. /\ Append(q, s) \in Seq(Slot) /\ Append(q, s) # << >>
          /\ Len(Append(q, s)) = Len(q) + 1
          /\ \A i \in DOMAIN q : i \in DOMAIN Append(q, s) /\ Append(q, s)[i] = q[i]
          /\ Places(Append(q, s), S \cup {s})
          /\ Cardinality(Filled(Append(q, s))) = Cardinality(Filled(q)) + 1
      <4>1. q \in Seq(Slot) /\ s \in Slot \ {None} /\ s \notin S /\ Places(q, S)
        BY <1>2, <3>1
      <4> QED
        BY <4>1, PlacesAppend
    <3> QED
      BY <2>1, <3>1, <3>2
  <2> QED
    BY <1>0, <1>1, <1>2, <1>3, <2>1, <2>2, <2>3, <2>4 DEF q
<1>5. CASE FreeSlots(l) # {}
  <2> DEFINE k == CHOOSE i \in FreeSlots(l) : \A j \in FreeSlots(l) : i <= j
  <2>1. DOMAIN q = 1..Len(q) /\ Len(q) \in Nat
    BY <1>2
  <2>2. FreeSlots(l) \in SUBSET Nat
    BY <2>1 DEF FreeSlots
  <2>3. k \in FreeSlots(l)
    BY <1>5, <2>2, Least
  <2>4. k \in DOMAIN q /\ q[k] = None
    BY <2>3 DEF FreeSlots
  <2>5. slots'[l] = [q EXCEPT ![k] = s]
    BY <1>3, <1>5
  <2> HIDE DEF q, k
  <2>6. /\ slots'[l] \in Seq(Slot) /\ Len(slots'[l]) = Len(q) /\ DOMAIN slots'[l] = DOMAIN q
        /\ \A i \in DOMAIN q : slots'[l][i] = IF i = k THEN s ELSE q[i]
    BY <1>2, <2>4, <2>5
  <2>7. /\ Places(slots'[l], On(l) \cup {s})
        /\ Cardinality(Filled(slots'[l])) = Cardinality(Filled(q)) + 1
    <3>1. PICK r, S : r = slots'[l] /\ S = On(l)
      OBVIOUS
    <3>2. /\ DOMAIN r = DOMAIN q /\ \A i \in DOMAIN q : r[i] = IF i = k THEN s ELSE q[i]
          /\ Places(q, S) /\ s \notin S
      BY <1>2, <2>6, <3>1
    <3>3. Places(r, S \cup {s}) /\ Cardinality(Filled(r)) = Cardinality(Filled(q)) + 1
      BY <1>2, <2>4, <3>2, PlacesFill
    <3> QED
      BY <3>1, <3>3
  <2>8. slots'[l] # << >>
    BY <2>1, <2>4, <2>6
  <2> QED
    BY <1>0, <1>1, <1>2, <1>3, <2>1, <2>4, <2>6, <2>7, <2>8 DEF q
<1> QED
  BY <1>4, <1>5

\* Who leaves a list empties the slot it had.
LEMMA RemoveDoes ==
    ASSUME TypeOK, Homed, Placed, NEW s \in Subscribers, Remove(s)
    PROVE  /\ home[s] \in Lists /\ s \in On(home[s])
           /\ slots'[home[s]] \in Seq(Slot) /\ Len(slots'[home[s]]) = Len(slots[home[s]])
           /\ DOMAIN slots'[home[s]] = DOMAIN slots[home[s]]
           /\ \A i \in DOMAIN slots[home[s]] :
                 slots'[home[s]][i] =
                    IF slots[home[s]][i] = s THEN None ELSE slots[home[s]][i]
           /\ Places(slots'[home[s]], On(home[s]) \ {s})
           /\ Cardinality(Filled(slots'[home[s]])) = Cardinality(Filled(slots[home[s]])) - 1
           /\ \A k \in Lists \ {home[s]} : slots'[k] = slots[k]
<1>0. PICK l : l = home[s]
  OBVIOUS
<1>1. l \in Lists /\ s \in On(l)
  BY <1>0, NamesDiffer DEF Remove, Homed, Member, On, TypeOK
<1>2. slots[l] \in Seq(Slot) /\ Places(slots[l], On(l))
  BY <1>1 DEF TypeOK, Placed
<1>3. /\ slots'[l] = [i \in DOMAIN slots[l] |-> IF slots[l][i] = s THEN None ELSE slots[l][i]]
      /\ \A k \in Lists \ {l} : slots'[k] = slots[k]
  BY <1>0, <1>1 DEF Remove, TypeOK
<1>4. /\ DOMAIN slots'[l] = DOMAIN slots[l]
      /\ \A i \in DOMAIN slots[l] :
            slots'[l][i] = IF slots[l][i] = s THEN None ELSE slots[l][i]
  BY <1>3
<1>5. slots'[l] \in Seq(Slot) /\ Len(slots'[l]) = Len(slots[l])
  <2>1. DOMAIN slots[l] = 1..Len(slots[l]) /\ Len(slots[l]) \in Nat
    BY <1>2
  <2>2. \A i \in 1..Len(slots[l]) :
           (IF slots[l][i] = s THEN None ELSE slots[l][i]) \in Slot
    BY <1>2 DEF Slot
  <2>3. slots'[l] \in [1..Len(slots[l]) -> Slot]
    BY <1>3, <2>1, <2>2
  <2> QED
    BY <2>1, <2>3
<1>6. /\ Places(slots'[l], On(l) \ {s})
      /\ Cardinality(Filled(slots'[l])) = Cardinality(Filled(slots[l])) - 1
  <2>1. PICK q, r, S : q = slots[l] /\ r = slots'[l] /\ S = On(l)
    OBVIOUS
  <2>2. /\ DOMAIN r = DOMAIN q
        /\ \A i \in DOMAIN q : r[i] = IF q[i] = s THEN None ELSE q[i]
        /\ q \in Seq(Slot) /\ Places(q, S) /\ s \in S
    BY <1>1, <1>2, <1>4, <2>1
  <2>3. Places(r, S \ {s}) /\ Cardinality(Filled(r)) = Cardinality(Filled(q)) - 1
    BY <2>2, PlacesClear
  <2> QED
    BY <2>1, <2>3
<1> QED
  BY <1>0, <1>1, <1>3, <1>4, <1>5, <1>6

\* Nothing else changes a list's slots or its count.
LEMMA SlotsStay ==
    ASSUME \/ UNCHANGED vars \/ \E p \in Publishers : PublisherNext(p)
           \/ \E s \in Subscribers : Subscribe(s) \/ Cancel(s) \/ Unsubscribe(s) \/ CloseChan(s)
                                        \/ Forward(s) \/ Consume(s)
    PROVE  UNCHANGED <<slots, subCount, queue>>
  BY Zenon DEF vars, listVars, busVars, PublisherNext, Publish, Dispatch, Scan, Write, Returned,
         Subscribe, Cancel, Unsubscribe, CloseChan, Forward, Consume

\* A subscriber is on no list before, and no other, whatever it does.
LEMMA OnStep ==
    ASSUME TypeOK, Homed, NEW s \in Subscribers, NEW l \in Lists
    PROVE  /\ Subscribe(s) \/ Cancel(s) \/ Unsubscribe(s) \/ CloseChan(s) => On(l)' = On(l)
           /\ Add(s) => On(l)' = IF l = home[s] THEN On(l) \cup {s} ELSE On(l)
           /\ Remove(s) => On(l)' = IF l = home[s] THEN On(l) \ {s} ELSE On(l)
<1>1. ASSUME NEW from, NEW to, spc[s] = from, spc' = [spc EXCEPT ![s] = to]
      PROVE  \A n \in Subscribers : spc'[n] = IF n = s THEN to ELSE spc[n]
  BY <1>1 DEF TypeOK
<1>2. ASSUME Subscribe(s) PROVE On(l)' = On(l)
  <2>1. spc[s] = "new" /\ spc' = [spc EXCEPT ![s] = "adding"]
    BY <1>2 DEF Subscribe
  <2>2. \A n \in Subscribers \ {s} : home'[n] = home[n]
    BY <1>2 DEF Subscribe, TypeOK
  <2> QED
    BY <1>1, <2>1, <2>2 DEF On, Member
<1>3. ASSUME Cancel(s) \/ Unsubscribe(s) \/ CloseChan(s) PROVE On(l)' = On(l)
  <2>1. home' = home
    BY <1>3 DEF Cancel, Unsubscribe, CloseChan
  <2>2. \/ spc[s] = "open" /\ spc' = [spc EXCEPT ![s] = "cancelled"]
        \/ spc[s] = "cancelled" /\ spc' = [spc EXCEPT ![s] = "removing"]
        \/ spc[s] = "removed" /\ spc' = [spc EXCEPT ![s] = "closed"]
    BY <1>3 DEF Cancel, Unsubscribe, CloseChan
  <2>3. \A n \in Subscribers : Member(n)' <=> Member(n)
    BY <1>1, <2>2 DEF Member
  <2> QED
    BY <2>1, <2>3 DEF On
<1>4. ASSUME Add(s) PROVE On(l)' = IF l = home[s] THEN On(l) \cup {s} ELSE On(l)
  <2>1. home' = home /\ spc[s] = "adding" /\ spc' = [spc EXCEPT ![s] = "open"]
    BY <1>4 DEF Add
  <2>2. \A n \in Subscribers : spc'[n] = IF n = s THEN "open" ELSE spc[n]
    BY <1>1, <2>1
  <2>3. \A n \in Subscribers : Member(n)' <=> (n = s \/ Member(n))
    BY <2>1, <2>2 DEF Member
  <2>4. On(l)' = {n \in Subscribers : home[n] = l /\ Member(n)'}
    BY <2>1 DEF On
  <2> QED
    BY <2>1, <2>3, <2>4 DEF On, Member
<1>5. ASSUME Remove(s) PROVE On(l)' = IF l = home[s] THEN On(l) \ {s} ELSE On(l)
  <2>1. home' = home /\ spc[s] = "removing" /\ spc' = [spc EXCEPT ![s] = "removed"]
    BY <1>5 DEF Remove
  <2>2. \A n \in Subscribers : spc'[n] = IF n = s THEN "removed" ELSE spc[n]
    BY <1>1, <2>1, Zenon
  <2>3. \A n \in Subscribers : Member(n)' <=> (n # s /\ Member(n))
    BY <2>1, <2>2 DEF Member
  <2>4. On(l)' = {n \in Subscribers : home[n] = l /\ Member(n)'}
    BY <2>1 DEF On
  <2> QED
    BY <2>1, <2>3, <2>4 DEF On, Member
<1> QED
  BY <1>2, <1>3, <1>4, <1>5

\* Publishers, the forwarding goroutines and the consumers change nobody's list.
LEMMA OnStays ==
    ASSUME \/ UNCHANGED vars \/ \E p \in Publishers : PublisherNext(p)
           \/ \E s \in Subscribers : Forward(s) \/ Consume(s)
    PROVE  UNCHANGED <<spc, home, busHolder, current, msgClosed>>
  BY Zenon DEF vars, subVars, busVars, chanVars, PublisherNext, Publish, Dispatch, Scan, Write,
         Returned, Forward, Consume

\* Each step keeps Placed and Counted: the slots hold the members of the list, each once,
\* and subCount is their number.
LEMMA PlacedStep ==
    ASSUME TypeOK, Homed, Placed, Counted, [Next]_vars
    PROVE  Placed' /\ Counted'
<1>1. ASSUME NEW s \in Subscribers, Add(s) PROVE Placed' /\ Counted'
  <2>1. \A l \in Lists : subCount'[l] = IF l = home[s] THEN subCount[l] + 1 ELSE subCount[l]
    BY <1>1 DEF Add, TypeOK
  <2>2. /\ home[s] \in Lists /\ Places(slots'[home[s]], On(home[s]) \cup {s})
        /\ Cardinality(Filled(slots'[home[s]])) = Cardinality(Filled(slots[home[s]])) + 1
        /\ \A k \in Lists \ {home[s]} : slots'[k] = slots[k]
    BY <1>1, AddDoes
  <2>3. \A l \in Lists : Places(slots[l], On(l)) /\ subCount[l] = Cardinality(Filled(slots[l]))
    BY DEF Placed, Counted
  <2>4. ASSUME NEW l \in Lists
        PROVE  Places(slots'[l], On(l)') /\ subCount'[l] = Cardinality(Filled(slots'[l]))
    <3>1. CASE l = home[s]
      BY <1>1, <2>1, <2>2, <2>3, <3>1, OnStep
    <3>2. CASE l # home[s]
      <4>1. slots'[l] = slots[l]
        BY <2>2, <3>2
      <4>2. On(l)' = On(l)
        BY <1>1, <3>2, OnStep
      <4> QED
        BY <2>1, <2>3, <3>2, <4>1, <4>2
    <3> QED
      BY <3>1, <3>2
  <2> QED
    BY <2>4 DEF Placed, Counted
<1>2. ASSUME NEW s \in Subscribers, Remove(s) PROVE Placed' /\ Counted'
  <2>1. \A l \in Lists : subCount'[l] = IF l = home[s] THEN subCount[l] - 1 ELSE subCount[l]
    BY <1>2 DEF Remove, TypeOK
  <2>2. /\ home[s] \in Lists /\ Places(slots'[home[s]], On(home[s]) \ {s})
        /\ Cardinality(Filled(slots'[home[s]])) = Cardinality(Filled(slots[home[s]])) - 1
        /\ \A k \in Lists \ {home[s]} : slots'[k] = slots[k]
    BY <1>2, RemoveDoes
  <2>3. \A l \in Lists : Places(slots[l], On(l)) /\ subCount[l] = Cardinality(Filled(slots[l]))
    BY DEF Placed, Counted
  <2>4. ASSUME NEW l \in Lists
        PROVE  Places(slots'[l], On(l)') /\ subCount'[l] = Cardinality(Filled(slots'[l]))
    <3>1. CASE l = home[s]
      BY <1>2, <2>1, <2>2, <2>3, <3>1, OnStep
    <3>2. CASE l # home[s]
      <4>1. slots'[l] = slots[l]
        BY <2>2, <3>2
      <4>2. On(l)' = On(l)
        BY <1>2, <3>2, OnStep
      <4> QED
        BY <2>1, <2>3, <3>2, <4>1, <4>2
    <3> QED
      BY <3>1, <3>2
  <2> QED
    BY <2>4 DEF Placed, Counted
<1>3. ASSUME UNCHANGED <<slots, subCount>>, \A l \in Lists : On(l)' = On(l)
      PROVE  Placed' /\ Counted'
  BY <1>3 DEF Placed, Counted
<1>4. ASSUME NEW s \in Subscribers, Subscribe(s) \/ Cancel(s) \/ Unsubscribe(s) \/ CloseChan(s)
      PROVE  Placed' /\ Counted'
  BY <1>3, <1>4, OnStep, SlotsStay
<1>5. ASSUME \/ UNCHANGED vars \/ \E p \in Publishers : PublisherNext(p)
             \/ \E s \in Subscribers : Forward(s) \/ Consume(s)
      PROVE  Placed' /\ Counted'
  <2>1. UNCHANGED <<slots, subCount, spc, home>>
    BY <1>5, SlotsStay, OnStays
  <2>2. \A l \in Lists : On(l)' = On(l)
    BY <2>1 DEF On, Member
  <2> QED
    BY <1>3, <2>1, <2>2
<1> QED
  BY <1>1, <1>2, <1>4, <1>5, Steps DEF SubscriberNext

\* A list counts one exactly when its last subscriber is left.
LEMMA LastLeaves ==
    ASSUME TypeOK, Placed, Counted, NEW l \in Lists, NEW s \in On(l)
    PROVE  Emptied(l) <=> On(l) = {s}
<1> DEFINE q == slots[l]
<1>1. q \in Seq(Slot) /\ Places(q, On(l)) /\ subCount[l] = Cardinality(Filled(q))
  BY DEF TypeOK, Placed, Counted
<1> HIDE DEF q
<1>2. IsFiniteSet(Filled(q))
  BY <1>1, FilledFinite
<1>3. PICK k \in Filled(q) : q[k] = s
  BY <1>1, PlacesFilled
<1>4. ASSUME Cardinality(Filled(q)) = 1, NEW t \in On(l) PROVE t = s
  <2>1. PICK i \in Filled(q) : q[i] = t
    BY <1>1, PlacesFilled
  <2>2. PICK x : Filled(q) = {x}
    BY <1>2, <1>4, FS_Singleton
  <2> QED
    BY <1>3, <2>1, <2>2
<1>5. ASSUME On(l) = {s} PROVE Cardinality(Filled(q)) = 1
  <2>1. \A i \in Filled(q) : q[i] = s
    BY <1>1, <1>5 DEF Places, Filled, Elements
  <2>2. \A i \in Filled(q) : i = k
    BY <1>1, <1>3, <2>1 DEF Places, Filled
  <2>3. Filled(q) = {k}
    BY <1>3, <2>2
  <2> QED
    BY <2>3, FS_Singleton
<1> QED
  BY <1>1, <1>4, <1>5 DEF Emptied

\* Each step keeps Homed: the list of a member is the one the bus's map has.
LEMMA HomedStep ==
    ASSUME TypeOK, Homed, Placed, Counted, [Next]_vars
    PROVE  Homed'
<1> USE NamesDiffer
<1>0. \A s \in Subscribers : home[s] \in Lists \cup {None} /\ current \in Lists \cup {None}
  BY DEF TypeOK
<1>a. ASSUME NEW s \in Subscribers, NEW to, spc' = [spc EXCEPT ![s] = to]
      PROVE  \A n \in Subscribers : spc'[n] = IF n = s THEN to ELSE spc[n]
  BY <1>a DEF TypeOK
<1>1. ASSUME NEW s \in Subscribers, Subscribe(s) PROVE Homed'
  <2>1. /\ \A n \in Subscribers : spc'[n] = IF n = s THEN "adding" ELSE spc[n]
        /\ spc[s] = "new"
    BY <1>1, <1>a DEF Subscribe
  <2>2. /\ \A n \in Subscribers : home'[n] = IF n = s THEN current' ELSE home[n]
        /\ busHolder = None /\ busHolder' = s
        /\ current' = IF current = None THEN s ELSE current
    BY <1>1 DEF Subscribe, TypeOK
  <2> QED
    BY <2>1, <2>2 DEF Homed, Member
<1>2. ASSUME NEW s \in Subscribers, Add(s) PROVE Homed'
  <2>1. /\ \A n \in Subscribers : spc'[n] = IF n = s THEN "open" ELSE spc[n]
        /\ spc[s] = "adding" /\ busHolder' = None /\ UNCHANGED <<home, current>>
    BY <1>2, <1>a DEF Add
  <2> QED
    BY <2>1 DEF Homed, Member
<1>3. ASSUME NEW s \in Subscribers, Cancel(s) PROVE Homed'
  <2>1. /\ \A n \in Subscribers : spc'[n] = IF n = s THEN "cancelled" ELSE spc[n]
        /\ spc[s] = "open" /\ UNCHANGED <<home, current, busHolder>>
    BY <1>3, <1>a DEF Cancel, busVars
  <2> QED
    BY <2>1 DEF Homed, Member
<1>4. ASSUME NEW s \in Subscribers, Unsubscribe(s) PROVE Homed'
  <2>1. /\ \A n \in Subscribers : spc'[n] = IF n = s THEN "removing" ELSE spc[n]
        /\ spc[s] = "cancelled" /\ busHolder = None /\ busHolder' = s
        /\ UNCHANGED <<home, current>>
    BY <1>4, <1>a DEF Unsubscribe
  <2> QED
    BY <2>1 DEF Homed, Member
<1>5. ASSUME NEW s \in Subscribers, Remove(s) PROVE Homed'
  <2>1. /\ \A n \in Subscribers : spc'[n] = IF n = s THEN "removed" ELSE spc[n]
        /\ spc[s] = "removing" /\ busHolder = s /\ busHolder' = None /\ home' = home
        /\ current' = IF Emptied(home[s]) THEN None ELSE current
    <3>1. /\ spc' = [spc EXCEPT ![s] = "removed"] /\ spc[s] = "removing" /\ busHolder' = None
          /\ home' = home /\ current' = IF Emptied(home[s]) THEN None ELSE current
      BY <1>5, Zenon DEF Remove
    <3>2. busHolder = s
      BY <3>1, Zenon DEF Homed
    <3> QED
      BY <1>a, <3>1, <3>2
  <2>2. home[s] = current /\ current # None /\ home[s] \in Lists /\ s \in On(home[s])
    BY <1>0, <2>1 DEF Homed, Member, On
  <2>3. \A t \in Subscribers : spc[t] = "adding" \/ Member(t) => t \in On(home[s])
    BY <2>1, <2>2 DEF Homed, Member, On
  <2>4. CASE Emptied(home[s])
    <3>1. On(home[s]) = {s}
      BY <2>2, <2>4, LastLeaves
    <3>2. \A t \in Subscribers : ~ (spc'[t] = "adding" \/ Member(t)')
      BY <2>1, <2>3, <3>1 DEF Member
    <3> QED
      BY <2>1, <2>4, <3>2 DEF Homed, Member
  <2>5. CASE ~ Emptied(home[s])
    <3>1. On(home[s]) # {s}
      BY <2>2, <2>5, LastLeaves
    <3>2. PICK t \in On(home[s]) : t # s
      BY <2>2, <3>1
    <3>3. t \in Subscribers /\ Member(t)'
      BY <2>1, <3>2 DEF On, Member
    <3> QED
      BY <2>1, <2>2, <2>5, <3>3 DEF Homed, Member
  <2> QED
    BY <2>4, <2>5
<1>6. ASSUME NEW s \in Subscribers, CloseChan(s) PROVE Homed'
  <2>1. /\ \A n \in Subscribers : spc'[n] = IF n = s THEN "closed" ELSE spc[n]
        /\ spc[s] = "removed" /\ UNCHANGED <<home, current, busHolder>>
    BY <1>6, <1>a DEF CloseChan, busVars
  <2> QED
    BY <2>1 DEF Homed, Member
<1>7. ASSUME \/ UNCHANGED vars \/ \E p \in Publishers : PublisherNext(p)
             \/ \E s \in Subscribers : Forward(s) \/ Consume(s)
      PROVE  Homed'
  <2>1. UNCHANGED <<spc, home, busHolder, current>>
    BY <1>7, OnStays
  <2> QED
    BY <2>1 DEF Homed, Member
<1> QED
  BY <1>1, <1>2, <1>3, <1>4, <1>5, <1>6, <1>7, Steps DEF SubscriberNext

\* A list's slots are never fewer; and who joined it long ago has the slot it had.
LEMMA SlotsGrow ==
    ASSUME TypeOK, Homed, Placed, [Next]_vars, NEW l \in Lists
    PROVE  /\ slots'[l] \in Seq(Slot) /\ Len(slots[l]) <= Len(slots'[l])
           /\ slots[l] # << >> => slots'[l] # << >>
           /\ \A t \in Subscribers, i \in DOMAIN slots'[l] :
                 spc[t] # "adding" /\ slots'[l][i] = t =>
                    i \in DOMAIN slots[l] /\ slots[l][i] = t
<1> USE NamesDiffer
<1>1. /\ slots[l] \in Seq(Slot) /\ Len(slots[l]) \in Nat
      /\ \A q \in Seq(Slot) : q # << >> <=> Len(q) > 0
  BY DEF TypeOK
<1>2. ASSUME slots'[l] = slots[l]
      PROVE  /\ slots'[l] \in Seq(Slot) /\ Len(slots[l]) <= Len(slots'[l])
             /\ slots[l] # << >> => slots'[l] # << >>
             /\ \A t \in Subscribers, i \in DOMAIN slots'[l] :
                   spc[t] # "adding" /\ slots'[l][i] = t =>
                      i \in DOMAIN slots[l] /\ slots[l][i] = t
  BY <1>1, <1>2
<1>3. CASE \E s \in Subscribers : Add(s)
  <2>1. PICK s \in Subscribers : Add(s)
    BY <1>3
  <2>2. spc[s] = "adding"
    BY <2>1 DEF Add
  <2>3. CASE l = home[s]
    <3> DEFINE k == home[s]
    <3>1. /\ slots'[k] \in Seq(Slot) /\ slots'[k] # << >> /\ Len(slots[k]) <= Len(slots'[k])
          /\ \A i \in DOMAIN slots'[k] :
                \/ slots'[k][i] = s
                \/ /\ i \in DOMAIN slots[k]
                   /\ slots'[k][i] = slots[k][i]
      BY <2>1, AddDoes
    <3> HIDE DEF k
    <3>2. l = k
      BY <2>3 DEF k
    <3> QED
      BY <2>2, <3>1, <3>2
  <2>4. CASE l # home[s]
    <3>1. \A k \in Lists \ {home[s]} : slots'[k] = slots[k]
      BY <2>1, AddDoes
    <3> QED
      BY <1>2, <2>4, <3>1
  <2> QED
    BY <2>3, <2>4
<1>4. CASE \E s \in Subscribers : Remove(s)
  <2>1. PICK s \in Subscribers : Remove(s)
    BY <1>4
  <2>2. CASE l = home[s]
    <3> DEFINE k == home[s]
    <3>1. /\ slots'[k] \in Seq(Slot) /\ Len(slots'[k]) = Len(slots[k])
          /\ DOMAIN slots'[k] = DOMAIN slots[k]
          /\ \A i \in DOMAIN slots[k] :
                slots'[k][i] = IF slots[k][i] = s THEN None ELSE slots[k][i]
      BY <2>1, RemoveDoes
    <3> HIDE DEF k
    <3>2. l = k
      BY <2>2 DEF k
    <3> QED
      BY <1>1, <3>1, <3>2
  <2>3. CASE l # home[s]
    <3>1. \A k \in Lists \ {home[s]} : slots'[k] = slots[k]
      BY <2>1, RemoveDoes
    <3> QED
      BY <1>2, <2>3, <3>1
  <2> QED
    BY <2>2, <2>3
<1>5. CASE ~ \E s \in Subscribers : Add(s) \/ Remove(s)
  <2>1. slots' = slots
    BY <1>5, Steps, SlotsStay DEF SubscriberNext
  <2> QED
    BY <1>2, <2>1
<1> QED
  BY <1>3, <1>4, <1>5

\* Each step keeps Busy: who dispatches has a list and stays within its slots.
LEMMA BusyStep ==
    ASSUME TypeOK, Homed, Placed, Busy, [Next]_vars
    PROVE  Busy'
<1> USE NamesDiffer, LocalBusAssumption DEF listVars, subVars, busVars, chanVars, pubVars
<1>0. /\ \A l \in Lists : /\ slots[l] \in Seq(Slot) /\ Len(slots[l]) \in Nat
                          /\ slots'[l] \in Seq(Slot) /\ Len(slots'[l]) \in Nat
                          /\ Len(slots[l]) <= Len(slots'[l])
                          /\ slots[l] # << >> => slots'[l] # << >>
      /\ \A q \in Seq(Slot) : q # << >> => Len(q) > 0
      /\ \A p \in Publishers : cursor[p] \in Nat /\ sent[p] \in Nat
  <2>1. \A p \in Publishers : cursor[p] \in Nat /\ sent[p] \in Nat
    BY DEF TypeOK
  <2>2. \A q \in Seq(Slot) : Len(q) \in Nat /\ (q # << >> => Len(q) > 0)
    OBVIOUS
  <2>3. \A l \in Lists : slots[l] \in Seq(Slot)
    BY DEF TypeOK
  <2>4. \A l \in Lists : /\ slots'[l] \in Seq(Slot) /\ Len(slots[l]) <= Len(slots'[l])
                         /\ slots[l] # << >> => slots'[l] # << >>
    BY SlotsGrow
  <2> QED
    BY <2>1, <2>2, <2>3, <2>4
<1>1. ASSUME UNCHANGED <<pubVars, queue>> PROVE Busy'
  BY <1>0, <1>1 DEF Busy
\* A publisher's step may be looked at alone.
<1>2. ASSUME NEW p \in Publishers, UNCHANGED <<slots, queue>>,
             \A r \in Publishers \ {p} : UNCHANGED <<ppc[r], list[r], cursor[r], sent[r]>>,
             (/\ sent[p] <= Messages
              /\ ppc[p] # "idle" =>
                    /\ list[p] \in Lists /\ slots[list[p]] # << >> /\ sent[p] >= 1
                    /\ ppc[p] = "writing" => cursor[p] < Len(slots[list[p]])
              /\ ppc[p] = "scanning" => queue)'
      PROVE  Busy'
  BY <1>2 DEF Busy
<1>3. ASSUME NEW p \in Publishers, Publish(p) PROVE Busy'
  <2>1. /\ ppc[p] = "idle" /\ sent[p] < Messages /\ busHolder = None
        /\ sent'[p] = sent[p] + 1 /\ list'[p] = current
        /\ ppc'[p] = IF current = None THEN "idle" ELSE "locking"
        /\ \A r \in Publishers \ {p} : UNCHANGED <<ppc[r], list[r], cursor[r], sent[r]>>
        /\ UNCHANGED <<slots, queue>>
    BY <1>3 DEF Publish, TypeOK
  <2>2. ASSUME current # None PROVE current \in Lists /\ slots[current] # << >>
    <3>1. current \in Lists
      BY <2>2 DEF TypeOK
    <3>2. PICK t \in Subscribers : spc[t] = "adding" \/ Member(t)
      BY <2>2 DEF Homed
    <3>3. spc[t] # "adding"
      BY <2>1 DEF Homed
    <3>4. t \in On(current)
      BY <3>2, <3>3 DEF Homed, On
    <3>5. PICK i \in Filled(slots[current]) : slots[current][i] = t
      BY <3>1, <3>4, PlacesFilled DEF Placed
    <3>6. i \in DOMAIN slots[current]
      BY DEF Filled
    <3>7. slots[current] # << >>
      BY <3>6
    <3> QED
      BY <3>1, <3>7
  <2> QED
    BY <1>0, <1>2, <2>1, <2>2
<1>4. ASSUME NEW p \in Publishers, Dispatch(p) PROVE Busy'
  <2>1. /\ ppc[p] = "locking" /\ UNCHANGED <<slots, queue, list, sent>>
        /\ (queue /\ ppc'[p] = "scanning") \/ (ppc'[p] = "writing" /\ cursor'[p] = 0)
        /\ \A r \in Publishers \ {p} : UNCHANGED <<ppc[r], list[r], cursor[r], sent[r]>>
    BY <1>4 DEF Dispatch, TypeOK
  <2> QED
    BY <1>0, <1>2, <2>1 DEF Busy
<1>5. ASSUME NEW p \in Publishers, Scan(p) PROVE Busy'
  <2> DEFINE l == list[p]
             i == IF next[l] >= Len(slots[l]) THEN 0 ELSE next[l]
  <2>1. l \in Lists /\ slots[l] # << >> /\ ppc[p] = "scanning" /\ sent[p] >= 1
    BY <1>5 DEF Scan, Busy
  <2>2. /\ UNCHANGED <<slots, queue, list, sent>> /\ cursor'[p] = i
        /\ ppc'[p] \in {"scanning", "writing", "returning"}
        /\ \A r \in Publishers \ {p} : UNCHANGED <<ppc[r], list[r], cursor[r], sent[r]>>
    BY <1>5, <2>1 DEF Scan, Release, TypeOK
  <2>3. i < Len(slots[l])
    BY <1>0, <2>1 DEF TypeOK
  <2> HIDE DEF i
  <2> QED
    BY <1>0, <1>2, <2>1, <2>2, <2>3 DEF Busy
<1>6. ASSUME NEW p \in Publishers, Write(p) PROVE Busy'
  <2>1. /\ UNCHANGED <<slots, queue, list, sent>> /\ ppc[p] = "writing"
        /\ \/ ppc'[p] = "returning"
           \/ /\ ppc'[p] = "writing" /\ cursor'[p] = cursor[p] + 1
              /\ cursor[p] + 1 < Len(slots[list[p]])
        /\ \A r \in Publishers \ {p} : UNCHANGED <<ppc[r], list[r], cursor[r], sent[r]>>
    <3>1. UNCHANGED <<slots, queue, list, sent>> /\ ppc[p] = "writing" /\ Written(p)
      BY <1>6, Zenon DEF Write
    <3>2. CASE ~queue /\ cursor[p] + 1 < Len(slots[list[p]])
      BY <3>1, <3>2 DEF Written, TypeOK
    <3>3. CASE ~(~queue /\ cursor[p] + 1 < Len(slots[list[p]]))
      BY <3>1, <3>3 DEF Written, Release, TypeOK
    <3> QED
      BY <3>2, <3>3
  <2> QED
    BY <1>0, <1>2, <2>1 DEF Busy
<1>7. ASSUME NEW p \in Publishers, Returned(p) PROVE Busy'
  <2>1. /\ UNCHANGED <<slots, queue, list, sent>> /\ ppc'[p] = "idle"
        /\ \A r \in Publishers \ {p} : UNCHANGED <<ppc[r], list[r], cursor[r], sent[r]>>
    BY <1>7 DEF Returned, TypeOK
  <2> QED
    BY <1>0, <1>2, <2>1 DEF Busy
<1>8. ASSUME UNCHANGED vars \/ \E s \in Subscribers : SubscriberNext(s)
      PROVE  UNCHANGED <<pubVars, queue>>
  BY <1>8 DEF vars, SubscriberNext, Subscribe, Add, Cancel, Unsubscribe, Remove, CloseChan,
         Forward, Consume
<1> QED
  BY <1>1, <1>3, <1>4, <1>5, <1>6, <1>7, <1>8, Steps DEF PublisherNext

\* Whom a publisher is at is on the list, and so neither closed nor about to be.
LEMMA WritesToMember ==
    ASSUME TypeOK, Placed, Busy, NEW p \in Publishers, ppc[p] = "writing",
           NEW s, s = slots[list[p]][cursor[p] + 1]
    PROVE  /\ list[p] \in Lists /\ cursor[p] + 1 \in DOMAIN slots[list[p]] /\ s \in Slot
           /\ s # None => s \in On(list[p])
<1>1. /\ list[p] \in Lists /\ cursor[p] \in Nat /\ cursor[p] < Len(slots[list[p]])
      /\ slots[list[p]] \in Seq(Slot)
  BY DEF Busy, TypeOK
<1>2. cursor[p] + 1 \in DOMAIN slots[list[p]] /\ s \in Slot
  BY <1>1
<1>3. s # None => s \in On(list[p])
  BY <1>1, <1>2 DEF Placed, Places, Elements
<1> QED
  BY <1>1, <1>2, <1>3

\* Each step keeps Closed: a subscriber whose channel is closed is in no slot, so that no
\* writer has it.
LEMMA ClosedStep ==
    ASSUME TypeOK, Placed, Busy, Closed, [Next]_vars
    PROVE  Closed'
<1> USE DEF listVars, subVars, busVars, chanVars, pubVars
<1>1. ASSUME UNCHANGED <<msgClosed, panicked>>,
             \A s \in Subscribers : spc[s] = "closed" => spc'[s] = "closed"
      PROVE  Closed'
  BY <1>1 DEF Closed
<1>2. ASSUME NEW s \in Subscribers, CloseChan(s) PROVE Closed'
  <2>1. /\ panicked' = panicked
        /\ \A n \in Subscribers : spc'[n] = IF n = s THEN "closed" ELSE spc[n]
        /\ \A n \in Subscribers \ {s} : msgClosed'[n] = msgClosed[n]
    BY <1>2 DEF CloseChan, TypeOK
  <2> QED
    BY <2>1 DEF Closed
<1>3. ASSUME NEW s \in Subscribers, Subscribe(s) \/ Add(s) \/ Cancel(s) \/ Unsubscribe(s)
                                      \/ Remove(s)
      PROVE  Closed'
  <2>1. /\ UNCHANGED <<msgClosed, panicked>>
        /\ spc[s] # "closed" /\ \E to : spc' = [spc EXCEPT ![s] = to]
    BY <1>3 DEF Subscribe, Add, Cancel, Unsubscribe, Remove
  <2>2. \A n \in Subscribers \ {s} : spc'[n] = spc[n]
    BY <2>1 DEF TypeOK
  <2> QED
    BY <1>1, <2>1, <2>2
<1>4. ASSUME NEW p \in Publishers, Write(p) PROVE Closed'
  <2>1. slots[list[p]][cursor[p] + 1] # None => ~ msgClosed[slots[list[p]][cursor[p] + 1]]
    BY <1>4, WritesToMember, Zenon DEF Write, Closed, On, Member
  <2>2. UNCHANGED <<panicked, msgClosed, spc>>
    BY <1>4, <2>1, Zenon DEF Write
  <2> QED
    BY <1>1, <2>2
<1>5. ASSUME \/ UNCHANGED vars
             \/ \E s \in Subscribers : Forward(s) \/ Consume(s)
             \/ \E p \in Publishers : Publish(p) \/ Dispatch(p) \/ Scan(p) \/ Returned(p)
      PROVE  Closed'
  <2>1. UNCHANGED <<panicked, msgClosed, spc>>
    BY <1>5 DEF vars, Forward, Consume, Publish, Dispatch, Scan, Returned
  <2> QED
    BY <1>1, <2>1
<1> QED
  BY <1>2, <1>3, <1>4, <1>5, Steps DEF SubscriberNext, PublisherNext

----------------------------------------------------------------------------
\* Types and lists.

ListsInv == Homed /\ Placed /\ Counted /\ Busy /\ Closed

\* The invariants of the lists hold at the start, when there is no list.
LEMMA ListsInit == Init => TypeOK /\ ListsInv
<1> SUFFICES ASSUME Init PROVE TypeOK /\ ListsInv
  OBVIOUS
<1> USE NamesDiffer, LocalBusAssumption DEF Init
<1>1. /\ slots \in [Lists -> Seq(Slot)] /\ subCount \in [Lists -> Nat] /\ next \in [Lists -> Nat]
      /\ listHolder \in [Lists -> Publishers \cup {None}]
      /\ readers \in [Lists -> SUBSET Publishers]
  OBVIOUS
<1>2. /\ msgChan \in [Subscribers -> Seq(Message)] /\ held \in [Subscribers -> Seq(Message)]
      /\ outChan \in [Subscribers -> Seq(Message)] /\ got \in [Subscribers -> Seq(Message)]
  OBVIOUS
<1>3. /\ cursor \in [Publishers -> Nat] /\ start \in [Publishers -> Nat]
      /\ sent \in [Publishers -> Nat] /\ owed \in [Publishers -> SUBSET Subscribers]
      /\ ppc \in [Publishers -> PubState] /\ list \in [Publishers -> Lists \cup {None}]
  BY DEF PubState
<1>4. TypeOK
  BY <1>1, <1>2, <1>3 DEF TypeOK, Slot, PubState
<1>5. Homed /\ Busy /\ Closed
  BY DEF Homed, Member, Busy, Closed
<1>6. \A l \in Lists : Elements(slots[l]) = {} /\ Filled(slots[l]) = {} /\ On(l) = {}
  BY DEF Elements, Filled, On, Member
<1>7. Placed
  BY <1>6 DEF Placed, Places
<1>8. Counted
  BY <1>6, FS_EmptySet DEF Counted
<1> QED
  BY <1>4, <1>5, <1>7, <1>8 DEF ListsInv

\* Each step keeps the types. Those of slots, subCount and next need the lists' invariants.
LEMMA TypeStep ==
    ASSUME TypeOK, ListsInv, [Next]_vars
    PROVE  TypeOK'
<1> USE NamesDiffer, LocalBusAssumption DEF listVars, subVars, busVars, chanVars, pubVars
<1>1. slots' \in [Lists -> Seq(Slot)]
  <2>1. \A l \in Lists : slots'[l] \in Seq(Slot)
    BY SlotsGrow DEF ListsInv
  <2>2. DOMAIN slots' = Lists /\ slots' = [l \in DOMAIN slots' |-> slots'[l]]
    <3>1. CASE UNCHANGED slots
      BY <3>1 DEF TypeOK
    <3>2. CASE \E s \in Subscribers : Add(s) \/ Remove(s)
      BY <3>2 DEF Add, Remove, TypeOK
    <3> QED
      BY <3>1, <3>2, Steps, SlotsStay DEF SubscriberNext
  <2> QED
    BY <2>1, <2>2
<1>2. ASSUME NEW s \in Subscribers, Subscribe(s) PROVE TypeOK'
  <2>1. current' \in Lists /\ home' \in [Subscribers -> Lists \cup {None}]
    BY <1>2 DEF Subscribe, TypeOK
  <2>2. spc' \in [Subscribers -> SubState] /\ busHolder' \in Slot
    BY <1>2 DEF Subscribe, TypeOK, SubState, Slot
  <2> QED
    BY <1>2, <2>1, <2>2 DEF Subscribe, TypeOK, SubState
<1>3. ASSUME NEW s \in Subscribers, Add(s) PROVE TypeOK'
  <2>1. subCount' \in [Lists -> Nat] /\ busHolder' \in Slot
    <3>1. subCount \in [Lists -> Nat] /\ home[s] \in Lists
      BY <1>3, AddDoes DEF TypeOK, ListsInv
    <3>2. subCount' = [subCount EXCEPT ![home[s]] = subCount[home[s]] + 1] /\ busHolder' = None
      BY <1>3 DEF Add
    <3> QED
      BY <3>1, <3>2 DEF Slot
  <2>2. spc' \in [Subscribers -> SubState]
    BY <1>3 DEF Add, TypeOK, SubState
  <2> QED
    BY <1>1, <1>3, <2>1, <2>2 DEF Add, TypeOK, SubState
<1>4. ASSUME NEW s \in Subscribers, Cancel(s) PROVE TypeOK'
  <2>1. owed' \in [Publishers -> SUBSET Subscribers]
    BY <1>4 DEF Cancel, TypeOK
  <2>2. spc' \in [Subscribers -> SubState]
    BY <1>4 DEF Cancel, TypeOK, SubState
  <2> QED
    BY <1>4, <2>1, <2>2 DEF Cancel, TypeOK, SubState
<1>5. ASSUME NEW s \in Subscribers, Unsubscribe(s) PROVE TypeOK'
  <2>1. spc' \in [Subscribers -> SubState] /\ busHolder' \in Slot
    BY <1>5 DEF Unsubscribe, TypeOK, SubState, Slot
  <2> QED
    BY <1>5, <2>1 DEF Unsubscribe, TypeOK, SubState
<1>6. ASSUME NEW s \in Subscribers, Remove(s) PROVE TypeOK'
  <2>1. subCount'[home[s]] \in Nat /\ home[s] \in Lists
    <3>1. home[s] \in Lists /\ s \in On(home[s])
      BY <1>6, RemoveDoes DEF ListsInv
    <3>2. PICK i \in Filled(slots[home[s]]) : slots[home[s]][i] = s
      BY <3>1, PlacesFilled DEF ListsInv, Placed
    <3>3. slots[home[s]] \in Seq(Slot) /\ subCount[home[s]] = Cardinality(Filled(slots[home[s]]))
      BY <3>1 DEF TypeOK, ListsInv, Counted
    <3>4. subCount[home[s]] \in Nat /\ subCount[home[s]] # 0
      BY <3>2, <3>3, FilledFinite
    <3>5. subCount'[home[s]] = subCount[home[s]] - 1
      BY <1>6, <3>1 DEF Remove, TypeOK
    <3> QED
      BY <3>1, <3>4, <3>5
  <2>2. subCount' \in [Lists -> Nat]
    BY <1>6, <2>1 DEF Remove, TypeOK
  <2>3. spc' \in [Subscribers -> SubState] /\ busHolder' \in Slot
        /\ current' \in Lists \cup {None}
    BY <1>6 DEF Remove, TypeOK, SubState, Slot
  <2> QED
    BY <1>1, <1>6, <2>2, <2>3 DEF Remove, TypeOK, SubState
<1>7. ASSUME NEW s \in Subscribers, CloseChan(s) PROVE TypeOK'
  <2>1. spc' \in [Subscribers -> SubState] /\ msgClosed' \in [Subscribers -> BOOLEAN]
    BY <1>7 DEF CloseChan, TypeOK, SubState
  <2> QED
    BY <1>7, <2>1 DEF CloseChan, TypeOK, SubState
<1>8. ASSUME NEW s \in Subscribers, Forward(s) PROVE TypeOK'
  <2>1. msgChan[s] \in Seq(Message) /\ held[s] \in Seq(Message) /\ outChan[s] \in Seq(Message)
    BY DEF TypeOK
  <2>2. msgChan[s] # << >> => Tail(msgChan[s]) \in Seq(Message)
                                /\ <<Head(msgChan[s])>> \in Seq(Message)
    BY <2>1
  <2>3. outChan[s] \o held[s] \in Seq(Message) /\ << >> \in Seq(Message)
    BY <2>1
  <2>4. /\ msgChan' \in [Subscribers -> Seq(Message)] /\ held' \in [Subscribers -> Seq(Message)]
        /\ outChan' \in [Subscribers -> Seq(Message)] /\ outClosed' \in [Subscribers -> BOOLEAN]
    <3>1. /\ msgChan \in [Subscribers -> Seq(Message)] /\ held \in [Subscribers -> Seq(Message)]
          /\ outChan \in [Subscribers -> Seq(Message)]
          /\ outClosed \in [Subscribers -> BOOLEAN]
      BY DEF TypeOK
    <3>2. \/ /\ msgChan[s] # << >> /\ held' = [held EXCEPT ![s] = <<Head(msgChan[s])>>]
             /\ msgChan' = [msgChan EXCEPT ![s] = Tail(msgChan[s])]
             /\ UNCHANGED <<outChan, outClosed>>
          \/ /\ outChan' = [outChan EXCEPT ![s] = outChan[s] \o held[s]]
             /\ held' = [held EXCEPT ![s] = << >>] /\ UNCHANGED <<msgChan, outClosed>>
          \/ outClosed' = [outClosed EXCEPT ![s] = TRUE] /\ UNCHANGED <<msgChan, held, outChan>>
      BY <1>8 DEF Forward
    <3>3. CASE /\ msgChan[s] # << >> /\ held' = [held EXCEPT ![s] = <<Head(msgChan[s])>>]
               /\ msgChan' = [msgChan EXCEPT ![s] = Tail(msgChan[s])]
               /\ UNCHANGED <<outChan, outClosed>>
      BY <2>2, <3>1, <3>3
    <3>4. CASE /\ outChan' = [outChan EXCEPT ![s] = outChan[s] \o held[s]]
               /\ held' = [held EXCEPT ![s] = << >>] /\ UNCHANGED <<msgChan, outClosed>>
      BY <2>3, <3>1, <3>4
    <3>5. CASE outClosed' = [outClosed EXCEPT ![s] = TRUE] /\ UNCHANGED <<msgChan, held, outChan>>
      BY <3>1, <3>5
    <3> QED
      BY <3>2, <3>3, <3>4, <3>5
  <2>5. UNCHANGED <<busVars, listVars, subVars, msgClosed, got, pubVars, owed, panicked>>
    BY <1>8, Zenon DEF Forward
  <2> QED
    BY <2>4, <2>5 DEF TypeOK, busVars, listVars, subVars, pubVars
<1>9. ASSUME NEW s \in Subscribers, Consume(s) PROVE TypeOK'
  <2>1. outChan[s] \in Seq(Message) /\ got[s] \in Seq(Message) /\ outChan[s] # << >>
    BY <1>9 DEF TypeOK, Consume
  <2>2. Tail(outChan[s]) \in Seq(Message) /\ Append(got[s], Head(outChan[s])) \in Seq(Message)
    BY <2>1
  <2>3. outChan' \in [Subscribers -> Seq(Message)] /\ got' \in [Subscribers -> Seq(Message)]
    BY <1>9, <2>2 DEF Consume, TypeOK
  <2>4. UNCHANGED <<busVars, listVars, subVars, msgChan, msgClosed, held, outClosed, pubVars,
                    owed, panicked>>
    BY <1>9, Zenon DEF Consume
  <2> QED
    BY <2>3, <2>4 DEF TypeOK, busVars, listVars, subVars, pubVars
<1>10. ASSUME NEW p \in Publishers, Publish(p) PROVE TypeOK'
  <2>1. /\ sent' \in [Publishers -> Nat] /\ list' \in [Publishers -> Lists \cup {None}]
        /\ owed' \in [Publishers -> SUBSET Subscribers]
    BY <1>10 DEF Publish, TypeOK
  <2>2. ppc' \in [Publishers -> PubState]
    BY <1>10 DEF Publish, TypeOK, PubState
  <2> QED
    BY <1>10, <2>1, <2>2 DEF Publish, TypeOK, PubState
<1>11. ASSUME NEW p \in Publishers, Dispatch(p) PROVE TypeOK'
  <2>1. list[p] \in Lists
    BY <1>11 DEF Dispatch, ListsInv, Busy
  <2>2. /\ listHolder \in [Lists -> Publishers \cup {None}]
        /\ readers \in [Lists -> SUBSET Publishers] /\ next[list[p]] \in Nat
        /\ cursor \in [Publishers -> Nat] /\ start \in [Publishers -> Nat]
        /\ ppc \in [Publishers -> PubState]
    BY <2>1 DEF TypeOK, PubState
  <2>3. /\ listHolder' \in [Lists -> Publishers \cup {None}]
        /\ readers' \in [Lists -> SUBSET Publishers]
    <3>1. \/ listHolder' = [listHolder EXCEPT ![list[p]] = p] /\ UNCHANGED readers
          \/ /\ UNCHANGED listHolder
             /\ readers' = [readers EXCEPT ![list[p]] = readers[list[p]] \cup {p}]
      BY <1>11 DEF Dispatch
    <3> QED
      BY <2>2, <3>1
  <2>4. cursor' \in [Publishers -> Nat] /\ start' \in [Publishers -> Nat]
    <3>1. \/ UNCHANGED cursor /\ start' = [start EXCEPT ![p] = next[list[p]]]
          \/ UNCHANGED start /\ cursor' = [cursor EXCEPT ![p] = 0]
      BY <1>11 DEF Dispatch
    <3> QED
      BY <2>2, <3>1
  <2>5. ppc' \in [Publishers -> PubState]
    <3>1. ppc' = [ppc EXCEPT ![p] = "scanning"] \/ ppc' = [ppc EXCEPT ![p] = "writing"]
      BY <1>11 DEF Dispatch
    <3> QED
      BY <2>2, <3>1 DEF PubState
  <2>6. UNCHANGED <<busVars, slots, subCount, next, subVars, chanVars, list, sent, owed, panicked>>
    BY <1>11, Zenon DEF Dispatch
  <2> QED
    BY <2>3, <2>4, <2>5, <2>6 DEF TypeOK, PubState, busVars, subVars, chanVars
<1>12. ASSUME NEW p \in Publishers, Release(p)
       PROVE  /\ listHolder' \in [Lists -> Publishers \cup {None}]
              /\ readers' \in [Lists -> SUBSET Publishers]
              /\ ppc' \in [Publishers -> PubState]
  BY <1>12 DEF Release, TypeOK, PubState
<1>13. ASSUME NEW p \in Publishers, Scan(p) PROVE TypeOK'
  <2> DEFINE l == list[p]
             i == IF next[l] >= Len(slots[l]) THEN 0 ELSE next[l]
  <2>1. l \in Lists
    BY <1>13 DEF Scan, ListsInv, Busy
  <2>2. i \in Nat
    BY <2>1 DEF TypeOK
  <2>3. /\ UNCHANGED <<next, cursor>> \/ (/\ next' = [next EXCEPT ![l] = i + 1]
                                          /\ cursor' = [cursor EXCEPT ![p] = i])
        /\ \/ Release(p) \/ UNCHANGED <<ppc, listHolder, readers>>
           \/ ppc' = [ppc EXCEPT ![p] = "writing"] /\ UNCHANGED <<listHolder, readers>>
    BY <1>13 DEF Scan
  <2> HIDE DEF i
  <2>4. next' \in [Lists -> Nat] /\ cursor' \in [Publishers -> Nat]
    <3>1. next \in [Lists -> Nat] /\ cursor \in [Publishers -> Nat] /\ i + 1 \in Nat
      BY <2>2 DEF TypeOK
    <3> QED
      BY <2>2, <2>3, <3>1
  <2>5. /\ listHolder' \in [Lists -> Publishers \cup {None}]
        /\ readers' \in [Lists -> SUBSET Publishers]
        /\ ppc' \in [Publishers -> PubState]
    <3>1. CASE Release(p)
      BY <1>12, <3>1
    <3>2. CASE UNCHANGED <<listHolder, readers>> /\ (UNCHANGED ppc
                                                     \/ ppc' = [ppc EXCEPT ![p] = "writing"])
      BY <3>2 DEF TypeOK, PubState
    <3> QED
      BY <2>3, <3>1, <3>2
  <2>6. UNCHANGED <<busVars, slots, subCount, subVars, chanVars, list, start, sent, owed, panicked>>
    BY <1>13, Zenon DEF Scan
  <2> QED
    BY <2>4, <2>5, <2>6 DEF TypeOK, PubState, busVars, subVars, chanVars
<1>14. ASSUME NEW p \in Publishers, Write(p) PROVE TypeOK'
  <2> DEFINE s == slots[list[p]][cursor[p] + 1]
  <2>1. s \in Slot
    BY <1>14, WritesToMember, Zenon DEF Write, ListsInv
  <2>2. <<p, sent[p]>> \in Message
    <3>1. ppc[p] # "idle"
      BY <1>14, Zenon DEF Write
    <3>2. sent[p] \in Nat /\ sent[p] >= 1 /\ sent[p] <= Messages
      BY <3>1 DEF ListsInv, Busy, TypeOK
    <3>3. sent[p] \in 1..Messages
      BY <3>2, LocalBusAssumption
    <3> QED
      BY <3>3 DEF Message
  <2>3. UNCHANGED msgChan \/ (/\ s # None
                              /\ msgChan' = [msgChan EXCEPT ![s] = Append(@, <<p, sent[p]>>)])
    BY <1>14, Zenon DEF Write
  <2> HIDE DEF s
  <2>4. msgChan' \in [Subscribers -> Seq(Message)]
    <3>1. msgChan \in [Subscribers -> Seq(Message)]
      BY DEF TypeOK
    <3>2. s # None => msgChan[s] \in Seq(Message) /\ s \in Subscribers
      BY <2>1, <3>1 DEF Slot
    <3>3. s # None => Append(msgChan[s], <<p, sent[p]>>) \in Seq(Message)
      BY <2>2, <3>2
    <3> QED
      BY <2>3, <3>1, <3>3, Zenon
  <2>5. cursor' \in [Publishers -> Nat]
    <3>1. UNCHANGED cursor \/ cursor' = [cursor EXCEPT ![p] = cursor[p] + 1]
      BY <1>14, Zenon DEF Write, Written
    <3>2. cursor \in [Publishers -> Nat]
      BY DEF TypeOK
    <3> QED
      BY <3>1, <3>2
  <2>6. /\ listHolder' \in [Lists -> Publishers \cup {None}]
        /\ readers' \in [Lists -> SUBSET Publishers]
        /\ ppc' \in [Publishers -> PubState]
    BY <1>12, <1>14, Zenon DEF Write, Written, TypeOK, PubState
  <2>7. panicked' \in BOOLEAN
    BY <1>14, Zenon DEF Write, TypeOK
  <2> QED
    <3>1. UNCHANGED <<busVars, slots, subCount, next, subVars, msgClosed, held, outChan,
                      outClosed, got, list, start, sent, owed>>
      BY <1>14, Zenon DEF Write
    <3> QED
      BY <2>4, <2>5, <2>6, <2>7, <3>1 DEF TypeOK, PubState
<1>15. ASSUME NEW p \in Publishers, Returned(p) PROVE TypeOK'
  <2>1. ppc' \in [Publishers -> PubState]
    BY <1>15 DEF Returned, TypeOK, PubState
  <2> QED
    BY <1>15, <2>1 DEF Returned, TypeOK, PubState
<1>16. ASSUME UNCHANGED vars PROVE TypeOK'
  BY <1>16 DEF vars, TypeOK
<1> QED
  BY <1>2, <1>3, <1>4, <1>5, <1>6, <1>7, <1>8, <1>9, <1>10, <1>11, <1>13, <1>14, <1>15, <1>16,
     Steps DEF SubscriberNext, PublisherNext

\* The invariants of the lists hold throughout.
LEMMA ListsAlways == Spec => [](TypeOK /\ ListsInv)
<1>1. TypeOK /\ ListsInv /\ [Next]_vars => (TypeOK /\ ListsInv)'
  <2> SUFFICES ASSUME TypeOK, ListsInv, [Next]_vars PROVE TypeOK' /\ ListsInv'
    OBVIOUS
  <2>1. TypeOK'
    BY TypeStep
  <2>2. ListsInv'
    BY HomedStep, PlacedStep, BusyStep, ClosedStep DEF ListsInv
  <2> QED
    BY <2>1, <2>2
<1> QED
  BY <1>1, ListsInit, PTL DEF Spec

\* Every variable has its type.
THEOREM TypeCorrect == Spec => []TypeOK
  BY ListsAlways, PTL

\* Nobody is stranded on a list that was given up, every list counts its subscribers, and
\* no Publish panics.
THEOREM NobodyStranded == Spec => []ListsConsistent
<1>1. TypeOK /\ ListsInv => ListsConsistent
  <2> SUFFICES ASSUME TypeOK, ListsInv PROVE ListsConsistent
    OBVIOUS
  <2> USE NamesDiffer DEF ListsInv
  <2>1. ASSUME NEW s \in Subscribers, Member(s)
        PROVE  /\ home[s] = current
               /\ Cardinality({i \in DOMAIN slots[current] : slots[current][i] = s}) = 1
    <3>1. home[s] = current /\ current # None /\ current \in Lists /\ s \in On(current)
      BY <2>1 DEF Homed, On, TypeOK
    <3>2. Places(slots[current], On(current))
      BY <3>1 DEF Placed
    <3>3. PICK k \in Filled(slots[current]) : slots[current][k] = s
      BY <3>1, <3>2, PlacesFilled
    <3>4. {i \in DOMAIN slots[current] : slots[current][i] = s} = {k}
      BY <3>2, <3>3 DEF Places, Filled
    <3> QED
      BY <3>1, <3>4, FS_Singleton
  <2>2. ASSUME busHolder = None
        PROVE  (current # None) = (\E s \in Subscribers : spc[s] \in {"open", "cancelled"})
    BY <2>2 DEF Homed, Member
  <2>3. ASSUME current # None
        PROVE  subCount[current] = Cardinality({i \in DOMAIN slots[current] :
                                                  slots[current][i] # None})
    <3>1. current \in Lists
      BY <2>3 DEF TypeOK
    <3> QED
      BY <3>1 DEF Counted, Filled
  <2> QED
    BY <2>1, <2>2, <2>3 DEF ListsConsistent, Member, Closed
<1> QED
  BY <1>1, ListsAlways, PTL

----------------------------------------------------------------------------
\* Messages.

\* The elements of a sequence that grew, of one that lost its head, and of two.
LEMMA ElementsAppend ==
    ASSUME NEW T, NEW L \in Seq(T), NEW e
    PROVE  Elements(Append(L, e)) = Elements(L) \cup {e}
<1>1. /\ DOMAIN Append(L, e) = 1..Len(L) + 1 /\ DOMAIN L = 1..Len(L) /\ Len(L) \in Nat
      /\ \A i \in 1..Len(L) : Append(L, e)[i] = L[i]
      /\ Append(L, e)[Len(L) + 1] = e
  OBVIOUS
<1> QED
  BY <1>1 DEF Elements

\* A sequence has its head and what its tail has.
LEMMA ElementsTail ==
    ASSUME NEW T, NEW L \in Seq(T), L # << >>
    PROVE  Elements(L) = {Head(L)} \cup Elements(Tail(L))
<1>1. /\ DOMAIN Tail(L) = 1..Len(L) - 1 /\ DOMAIN L = 1..Len(L) /\ Len(L) \in Nat \ {0}
      /\ \A i \in 1..Len(L) - 1 : Tail(L)[i] = L[i + 1]
      /\ Head(L) = L[1]
  OBVIOUS
<1>2. \A i \in 1..Len(L) : i = 1 \/ (i - 1 \in 1..Len(L) - 1 /\ (i - 1) + 1 = i)
  BY <1>1
<1>3. \A i \in 1..Len(L) - 1 : i + 1 \in 1..Len(L)
  BY <1>1
<1>4. 1 \in 1..Len(L)
  BY <1>1
<1>5. Elements(L) \subseteq {Head(L)} \cup Elements(Tail(L))
  <2> SUFFICES ASSUME NEW i \in 1..Len(L) PROVE L[i] \in {Head(L)} \cup Elements(Tail(L))
    BY <1>1 DEF Elements
  <2>1. CASE i # 1
    <3>1. i - 1 \in DOMAIN Tail(L) /\ Tail(L)[i - 1] = L[i]
      BY <1>1, <1>2, <2>1
    <3> QED
      BY <3>1 DEF Elements
  <2> QED
    BY <1>1, <2>1
<1>6. {Head(L)} \cup Elements(Tail(L)) \subseteq Elements(L)
  BY <1>1, <1>3, <1>4 DEF Elements
<1> QED
  BY <1>5, <1>6

\* Two sequences joined have what either has.
LEMMA ElementsConcat ==
    ASSUME NEW T, NEW L \in Seq(T), NEW Q \in Seq(T)
    PROVE  Elements(L \o Q) = Elements(L) \cup Elements(Q)
<1>1. /\ L \o Q \in Seq(T) /\ Len(L) \in Nat /\ Len(Q) \in Nat
      /\ Len(L \o Q) = Len(L) + Len(Q)
      /\ DOMAIN L = 1..Len(L) /\ DOMAIN Q = 1..Len(Q) /\ DOMAIN (L \o Q) = 1..Len(L) + Len(Q)
  OBVIOUS
<1>2. \A i \in 1..Len(L) : i \in 1..Len(L) + Len(Q) /\ (L \o Q)[i] = L[i]
  BY <1>1
<1>3. \A i \in 1..Len(Q) : Len(L) + i \in 1..Len(L) + Len(Q) /\ (L \o Q)[Len(L) + i] = Q[i]
  BY <1>1
<1>4. \A i \in 1..Len(L) + Len(Q) :
         i \in 1..Len(L) \/ (i - Len(L) \in 1..Len(Q) /\ Len(L) + (i - Len(L)) = i)
  BY <1>1
<1>5. Elements(L) \cup Elements(Q) \subseteq Elements(L \o Q)
  BY <1>1, <1>2, <1>3 DEF Elements
<1>6. Elements(L \o Q) \subseteq Elements(L) \cup Elements(Q)
  <2> SUFFICES ASSUME NEW i \in 1..Len(L) + Len(Q)
               PROVE (L \o Q)[i] \in Elements(L) \cup Elements(Q)
    BY <1>1 DEF Elements
  <2>1. CASE i \in 1..Len(L)
    BY <1>1, <1>2, <2>1 DEF Elements
  <2>2. CASE i - Len(L) \in 1..Len(Q) /\ Len(L) + (i - Len(L)) = i
    <3>1. (L \o Q)[i] = Q[i - Len(L)]
      BY <1>3, <2>2
    <3> QED
      BY <1>1, <2>2, <3>1 DEF Elements
  <2> QED
    BY <1>4, <2>1, <2>2
<1> QED
  BY <1>5, <1>6

\* The same for the four places that a message passes on its way to the consumer.
LEMMA ElementsOfFour ==
    ASSUME NEW a \in Seq(Message), NEW b \in Seq(Message), NEW c \in Seq(Message),
           NEW d \in Seq(Message)
    PROVE  /\ Elements(a \o b \o c \o d)
                 = Elements(a) \cup Elements(b) \cup Elements(c) \cup Elements(d)
           /\ Elements(a \o b \o c \o d) \subseteq Message
<1>1. \A L, Q \in Seq(Message) : L \o Q \in Seq(Message)
                                    /\ Elements(L \o Q) = Elements(L) \cup Elements(Q)
  BY ElementsConcat
<1>2. \A L \in Seq(Message) : Elements(L) \subseteq Message
  BY DEF Elements
<1>3. a \o b \in Seq(Message) /\ Elements(a \o b) = Elements(a) \cup Elements(b)
  BY <1>1
<1>4. /\ a \o b \o c \in Seq(Message)
      /\ Elements(a \o b \o c) = Elements(a) \cup Elements(b) \cup Elements(c)
  BY <1>1, <1>3
<1> QED
  BY <1>1, <1>2, <1>4

\* What was received is what the consumer has, and what is on its way to it.
LEMMA ReceivedIs ==
    ASSUME NEW s \in Subscribers
    PROVE  /\ TypeOK => Received(s) = Elements(got[s]) \cup Elements(outChan[s])
                                         \cup Elements(held[s]) \cup Elements(msgChan[s])
           /\ TypeOK => Received(s) \subseteq Message
           /\ TypeOK' => Received(s)' = Elements(got'[s]) \cup Elements(outChan'[s])
                                           \cup Elements(held'[s]) \cup Elements(msgChan'[s])
<1>1. TypeOK => /\ got[s] \in Seq(Message) /\ outChan[s] \in Seq(Message)
                /\ held[s] \in Seq(Message) /\ msgChan[s] \in Seq(Message)
  BY DEF TypeOK
<1>2. TypeOK' => /\ got'[s] \in Seq(Message) /\ outChan'[s] \in Seq(Message)
                 /\ held'[s] \in Seq(Message) /\ msgChan'[s] \in Seq(Message)
  BY DEF TypeOK, Message
<1> QED
  BY <1>1, <1>2, ElementsOfFour DEF Received

\* The goroutine and the consumer move what was received, and lose none of it.
LEMMA ForwardKeeps ==
    ASSUME TypeOK, TypeOK', NEW s \in Subscribers, Forward(s) \/ Consume(s),
           NEW t \in Subscribers
    PROVE  Received(t)' = Received(t)
<1>1. /\ got[s] \in Seq(Message) /\ outChan[s] \in Seq(Message) /\ held[s] \in Seq(Message)
      /\ msgChan[s] \in Seq(Message)
  BY DEF TypeOK
<1>2. Received(t)' = Elements(got'[t]) \cup Elements(outChan'[t]) \cup Elements(held'[t])
                        \cup Elements(msgChan'[t])
  BY ReceivedIs
<1>3. CASE t # s
  <2>1. /\ got'[t] = got[t] /\ outChan'[t] = outChan[t] /\ held'[t] = held[t]
        /\ msgChan'[t] = msgChan[t]
    <3>1. /\ got' = got \/ \E q : got' = [got EXCEPT ![s] = q]
          /\ outChan' = outChan \/ \E q : outChan' = [outChan EXCEPT ![s] = q]
          /\ held' = held \/ \E q : held' = [held EXCEPT ![s] = q]
          /\ msgChan' = msgChan \/ \E q : msgChan' = [msgChan EXCEPT ![s] = q]
      BY DEF Forward, Consume
    <3>2. \A f \in {got, outChan, held, msgChan} : DOMAIN f = Subscribers
      BY DEF TypeOK
    <3> QED
      BY <1>3, <3>1, <3>2
  <2> QED
    BY <1>2, <2>1, ReceivedIs
<1> DEFINE L == Elements(got[s])
           O == Elements(outChan[s])
<1>4. CASE t = s /\ Consume(s)
  <2>1. /\ got'[s] = Append(got[s], Head(outChan[s])) /\ outChan'[s] = Tail(outChan[s])
        /\ outChan[s] # << >> /\ held'[s] = held[s] /\ msgChan'[s] = msgChan[s]
    BY <1>4 DEF Consume, TypeOK
  <2>2. /\ Elements(got'[s]) = Elements(got[s]) \cup {Head(outChan[s])}
        /\ Elements(outChan[s]) = {Head(outChan[s])} \cup Elements(outChan'[s])
    BY <1>1, <2>1, ElementsAppend, ElementsTail
  <2> QED
    BY <1>2, <1>4, <2>1, <2>2, ReceivedIs
<1>5. CASE t = s /\ Forward(s)
  <2>1. got' = got
    BY <1>5 DEF Forward, chanVars
  <2>2. CASE /\ held[s] = << >> /\ msgChan[s] # << >> /\ held'[s] = <<Head(msgChan[s])>>
             /\ msgChan'[s] = Tail(msgChan[s]) /\ outChan' = outChan
    <3>1. /\ Elements(held[s]) = {} /\ Elements(held'[s]) = {Head(msgChan[s])}
          /\ Elements(msgChan[s]) = {Head(msgChan[s])} \cup Elements(msgChan'[s])
      <4>1. Elements(<< >>) = {} /\ \A e : Elements(<<e>>) = {e}
        BY DEF Elements
      <4> QED
        BY <1>1, <2>2, <4>1, ElementsTail
    <3> QED
      BY <1>2, <1>5, <2>1, <2>2, <3>1, ReceivedIs
  <2>3. CASE /\ outChan'[s] = outChan[s] \o held[s] /\ held'[s] = << >> /\ msgChan' = msgChan
    <3>1. /\ Elements(held'[s]) = {}
          /\ Elements(outChan'[s]) = Elements(outChan[s]) \cup Elements(held[s])
      <4>1. Elements(<< >>) = {}
        BY DEF Elements
      <4> QED
        BY <1>1, <2>3, <4>1, ElementsConcat
    <3> QED
      BY <1>2, <1>5, <2>1, <2>3, <3>1, ReceivedIs
  <2>4. CASE UNCHANGED <<msgChan, held, outChan>>
    BY <1>2, <2>1, <2>4, ReceivedIs
  <2>5. \/ /\ held[s] = << >> /\ msgChan[s] # << >>
           /\ held' = [held EXCEPT ![s] = <<Head(msgChan[s])>>]
           /\ msgChan' = [msgChan EXCEPT ![s] = Tail(msgChan[s])] /\ outChan' = outChan
        \/ /\ outChan' = [outChan EXCEPT ![s] = outChan[s] \o held[s]]
           /\ held' = [held EXCEPT ![s] = << >>] /\ msgChan' = msgChan
        \/ UNCHANGED <<msgChan, held, outChan>>
    BY <1>5, Zenon DEF Forward
  <2>6. \A f \in {msgChan, held, outChan} : DOMAIN f = Subscribers
    BY DEF TypeOK
  <2> QED
    BY <2>2, <2>3, <2>4, <2>5, <2>6
<1> QED
  BY <1>3, <1>4, <1>5

\* Only Write gives anybody a message: that of the publisher, to the one at its slot.
LEMMA WriteGives ==
    ASSUME TypeOK, TypeOK', ListsInv, NEW p \in Publishers, Write(p),
           NEW t \in Subscribers
    PROVE  /\ Received(t) \subseteq Received(t)'
           /\ Received(t)' \subseteq Received(t) \cup {<<p, sent[p]>>}
           /\ t # slots[list[p]][cursor[p] + 1] => Received(t)' = Received(t)
           /\ t = slots[list[p]][cursor[p] + 1] /\ spc[t] = "open"
                 => <<p, sent[p]>> \in Received(t)'
<1> USE NamesDiffer
<1>1. PICK s : s = slots[list[p]][cursor[p] + 1]
  OBVIOUS
<1>2. UNCHANGED <<got, outChan, held>>
  BY Zenon DEF Write
<1>3. /\ Received(t)' = Elements(got'[t]) \cup Elements(outChan'[t]) \cup Elements(held'[t])
                           \cup Elements(msgChan'[t])
      /\ Received(t) = Elements(got[t]) \cup Elements(outChan[t]) \cup Elements(held[t])
                           \cup Elements(msgChan[t])
  BY ReceivedIs
<1>4. CASE UNCHANGED msgChan /\ ~ (s = t /\ spc[t] = "open")
  BY <1>1, <1>2, <1>3, <1>4
<1>5. CASE s # None /\ msgChan' = [msgChan EXCEPT ![s] = Append(@, <<p, sent[p]>>)]
  <2>1. \A n \in Subscribers :
           msgChan'[n] = IF n = s THEN Append(msgChan[n], <<p, sent[p]>>) ELSE msgChan[n]
    BY <1>5 DEF TypeOK
  <2>2. msgChan[t] \in Seq(Message)
    BY DEF TypeOK
  <2>3. Elements(Append(msgChan[t], <<p, sent[p]>>)) = Elements(msgChan[t]) \cup {<<p, sent[p]>>}
    BY <2>2, ElementsAppend
  <2> QED
    BY <1>1, <1>2, <1>3, <2>1, <2>3
<1> QED
  BY <1>1, <1>4, <1>5, Zenon DEF Write, ListsInv, Closed

\* A publisher's other steps give nobody anything, nor does a subscriber's.
LEMMA ReceivedStays ==
    ASSUME TypeOK, TypeOK', NEW t \in Subscribers,
           \/ UNCHANGED vars \/ \E s \in Subscribers : SubscriberNext(s)
           \/ \E p \in Publishers : Publish(p) \/ Dispatch(p) \/ Scan(p) \/ Returned(p)
    PROVE  Received(t)' = Received(t)
<1>1. CASE \E s \in Subscribers : Forward(s) \/ Consume(s)
  BY <1>1, ForwardKeeps
<1>2. CASE ~ \E s \in Subscribers : Forward(s) \/ Consume(s)
  <2>1. UNCHANGED <<got, outChan, held, msgChan>>
    BY <1>2 DEF vars, chanVars, SubscriberNext, Subscribe, Add, Cancel, Unsubscribe, Remove,
           CloseChan, Publish, Dispatch, Scan, Returned
  <2> QED
    BY <2>1 DEF Received
<1> QED
  BY <1>1, <1>2

\* What a subscriber does leaves the publishers alone, and whoever a message is owed to
\* stays open where it is.
LEMMA SubscriberKeeps ==
    ASSUME TypeOK, NEW s \in Subscribers, SubscriberNext(s)
    PROVE  /\ UNCHANGED <<pubVars, queue>>
           /\ \A p \in Publishers : owed'[p] \subseteq owed[p]
           /\ \A t \in Subscribers : spc[t] = "open" =>
                 /\ home'[t] = home[t]
                 /\ spc'[t] = "open" \/ \A p \in Publishers : t \notin owed'[p]
<1> USE DEF busVars, listVars, subVars, chanVars, pubVars
<1>1. CASE Cancel(s)
  <2>1. /\ \A p \in Publishers : owed'[p] = owed[p] \ {s}
        /\ \A n \in Subscribers \ {s} : spc'[n] = spc[n]
        /\ UNCHANGED <<pubVars, queue, home>>
    BY <1>1 DEF Cancel, TypeOK
  <2> QED
    BY <2>1
<1>2. CASE ~ Cancel(s)
  <2>1. UNCHANGED <<pubVars, queue, owed>>
    BY <1>2 DEF SubscriberNext, Subscribe, Add, Unsubscribe, Remove, CloseChan, Forward, Consume
  <2>2. UNCHANGED spc \/ (spc[s] # "open" /\ \E to : spc' = [spc EXCEPT ![s] = to])
    BY <1>2 DEF SubscriberNext, Subscribe, Add, Unsubscribe, Remove, CloseChan, Forward, Consume
  <2>3. \A n \in Subscribers : spc[n] = "open" => spc'[n] = "open"
    BY <2>2 DEF TypeOK
  <2>4. \A n \in Subscribers : spc[n] = "open" => home'[n] = home[n]
    <3>1. CASE Subscribe(s)
      <4>1. spc[s] = "new" /\ \A n \in Subscribers \ {s} : home'[n] = home[n]
        BY <3>1 DEF Subscribe, TypeOK
      <4> QED
        BY <4>1
    <3>2. CASE ~ Subscribe(s)
      BY <1>2, <3>2 DEF SubscriberNext, Add, Unsubscribe, Remove, CloseChan, Forward, Consume
    <3> QED
      BY <3>1, <3>2
  <2> QED
    BY <2>1, <2>3, <2>4
<1> QED
  BY <1>1, <1>2

\* Each step keeps Reaches: who is owed a message has it, or is in a slot still to come.
LEMMA ReachesStep ==
    ASSUME TypeOK, TypeOK', ListsInv, Reaches, [Next]_vars
    PROVE  Reaches'
<1> USE NamesDiffer DEF listVars, subVars, busVars, chanVars, pubVars
<1>0. /\ \A p \in Publishers : owed[p] \subseteq Subscribers /\ owed'[p] \subseteq Subscribers
      /\ \A p \in Publishers : \A s \in owed[p] : ReachesOne(p, s)
  BY DEF TypeOK, Reaches
<1>b. /\ \A p \in Publishers : ppc[p] # "idle" => list[p] \in Lists
      /\ ListsInv => Homed /\ Placed /\ Counted /\ Busy /\ Closed
      /\ \A p \in Publishers : ppc[p] = "scanning" => queue
  BY DEF ListsInv, Busy
<1>1. ASSUME NEW s \in Subscribers, SubscriberNext(s) PROVE Reaches'
  <2>1. /\ UNCHANGED <<pubVars, queue>>
        /\ \A p \in Publishers : owed'[p] \subseteq owed[p]
        /\ \A t \in Subscribers : spc[t] = "open" =>
              /\ home'[t] = home[t]
              /\ spc'[t] = "open" \/ \A p \in Publishers : t \notin owed'[p]
    BY <1>1, SubscriberKeeps
  <2>2. ASSUME NEW p \in Publishers, NEW t \in owed'[p] PROVE ReachesOne(p, t)'
    <3>1. ReachesOne(p, t) /\ t \in Subscribers
      BY <1>0, <2>1, <2>2
    <3>2. spc[t] = "open" /\ spc'[t] = "open" /\ home'[t] = home[t]
      BY <2>1, <2>2, <3>1 DEF ReachesOne
    <3>3. Received(t)' = Received(t)
      BY <1>1, <3>1, ReceivedStays
    <3>4. ppc[p] # "idle" => \A i \in DOMAIN slots'[list[p]] :
             slots'[list[p]][i] = t => i \in DOMAIN slots[list[p]] /\ slots[list[p]][i] = t
      BY <1>b, <3>1, <3>2, SlotsGrow
    <3> QED
      BY <2>1, <3>1, <3>2, <3>3, <3>4 DEF ReachesOne
  <2> QED
    BY <2>2 DEF Reaches
\* A publisher's step may be looked at alone.
<1>2. ASSUME NEW p \in Publishers, UNCHANGED <<subVars, slots, queue>>,
             \A r \in Publishers \ {p} :
                UNCHANGED <<ppc[r], list[r], cursor[r], sent[r], owed[r]>>,
             \A t \in Subscribers : Received(t) \subseteq Received(t)',
             \A t \in owed'[p] : ReachesOne(p, t)'
      PROVE  Reaches'
  <2>1. ASSUME NEW r \in Publishers \ {p}, NEW t \in owed'[r] PROVE ReachesOne(r, t)'
    <3>1. ReachesOne(r, t) /\ t \in Subscribers
      BY <1>0, <1>2, <2>1
    <3> QED
      BY <1>2, <3>1 DEF ReachesOne
  <2> QED
    BY <1>2, <2>1 DEF Reaches
<1>3. ASSUME NEW p \in Publishers, Publish(p) PROVE Reaches'
  <2>1. /\ UNCHANGED <<subVars, slots, queue>>
        /\ \A r \in Publishers \ {p} :
              UNCHANGED <<ppc[r], list[r], cursor[r], sent[r], owed[r]>>
        /\ list'[p] = current /\ ppc'[p] \in {"idle", "locking"}
        /\ owed'[p] = {s \in Subscribers : spc[s] = "open"}
    BY <1>3 DEF Publish, TypeOK
  <2>2. \A t \in Subscribers : Received(t)' = Received(t)
    BY <1>3, ReceivedStays
  <2>3. \A t \in owed'[p] : ReachesOne(p, t)'
    BY <1>b, <2>1 DEF ReachesOne, Homed, Member
  <2> QED
    BY <1>2, <2>1, <2>2, <2>3
<1>4. ASSUME NEW p \in Publishers, Dispatch(p) PROVE Reaches'
  <2>1. /\ UNCHANGED <<subVars, slots, queue, list, sent, owed>> /\ ppc[p] = "locking"
        /\ \A r \in Publishers \ {p} :
              UNCHANGED <<ppc[r], list[r], cursor[r], sent[r], owed[r]>>
        /\ \/ queue
           \/ ppc'[p] = "writing" /\ cursor'[p] = 0
        /\ ppc'[p] \in {"scanning", "writing"}
    BY <1>4 DEF Dispatch, TypeOK
  <2>2. \A t \in Subscribers : Received(t)' = Received(t)
    BY <1>4, ReceivedStays
  <2>3. \A i \in DOMAIN slots[list[p]] : ~ (i <= 0)
    <3>1. PICK q : q = slots[list[p]]
      OBVIOUS
    <3>2. q \in Seq(Slot)
      BY <1>b, <2>1, <3>1 DEF TypeOK
    <3> QED
      BY <3>1, <3>2
  <2>4. \A t \in owed'[p] : ReachesOne(p, t)'
    BY <1>0, <2>1, <2>3 DEF ReachesOne
  <2> QED
    BY <1>2, <2>1, <2>2, <2>4
<1>5. ASSUME NEW p \in Publishers, Scan(p) PROVE Reaches'
  <2>1. /\ UNCHANGED <<subVars, slots, queue, list, sent, owed>> /\ ppc[p] = "scanning"
        /\ \A r \in Publishers \ {p} :
              UNCHANGED <<ppc[r], list[r], cursor[r], sent[r], owed[r]>>
    BY <1>5 DEF Scan, Release, TypeOK
  <2>2. \A t \in Subscribers : Received(t)' = Received(t)
    BY <1>5, ReceivedStays
  <2>3. \A t \in owed'[p] : ReachesOne(p, t)'
    BY <1>0, <1>b, <2>1 DEF ReachesOne
  <2> QED
    BY <1>2, <2>1, <2>2, <2>3
<1>6. ASSUME NEW p \in Publishers, Write(p) PROVE Reaches'
  <2> DEFINE l == list[p]
             k == cursor[p] + 1
  <2>1. /\ UNCHANGED <<subVars, slots, queue, list, sent, owed>> /\ ppc[p] = "writing"
        /\ \A r \in Publishers \ {p} :
              UNCHANGED <<ppc[r], list[r], cursor[r], sent[r], owed[r]>>
        /\ \/ ppc'[p] = "returning" /\ (queue \/ ~ (cursor[p] + 1 < Len(slots[list[p]])))
           \/ ppc'[p] = "writing" /\ cursor'[p] = cursor[p] + 1
    <3>1. /\ UNCHANGED <<subVars, slots, queue, list, sent, owed>> /\ ppc[p] = "writing"
          /\ Written(p)
      BY <1>6, Zenon DEF Write
    <3>2. CASE ~queue /\ cursor[p] + 1 < Len(slots[list[p]])
      BY <3>1, <3>2 DEF Written, TypeOK
    <3>3. CASE ~(~queue /\ cursor[p] + 1 < Len(slots[list[p]]))
      BY <3>1, <3>3 DEF Written, Release, TypeOK
    <3> QED
      BY <3>2, <3>3
  <2>2. \A t \in Subscribers : Received(t) \subseteq Received(t)'
    BY <1>6, WriteGives
  <2>3. ASSUME NEW t \in owed'[p] PROVE ReachesOne(p, t)'
    <3>1. ReachesOne(p, t) /\ t \in Subscribers /\ spc[t] = "open"
      BY <1>0, <2>1, <2>3 DEF ReachesOne
    <3>2. t = slots[l][k] => <<p, sent[p]>> \in Received(t)'
      BY <1>6, <3>1, WriteGives
    <3>3. /\ l \in Lists /\ DOMAIN slots[l] = 1..Len(slots[l]) /\ Len(slots[l]) \in Nat
          /\ cursor[p] \in Nat
      <4>1. l \in Lists
        BY <1>b, <2>1
      <4>2. slots[l] \in Seq(Slot) /\ cursor[p] \in Nat
        BY <4>1 DEF TypeOK
      <4> QED
        BY <4>1, <4>2
    <3>4. ASSUME ~ queue, NEW i \in DOMAIN slots[l], slots[l][i] = t, i <= k
          PROVE  <<p, sent[p]>> \in Received(t)'
      <4>1. CASE i = k
        BY <3>2, <3>4, <4>1
      <4>2. CASE i # k
        <5>1. i <= cursor[p]
          BY <3>3, <3>4, <4>2
        <5>2. <<p, sent[p]>> \in Received(t)
          BY <2>1, <3>1, <3>4, <5>1 DEF ReachesOne
        <5> QED
          BY <2>2, <3>1, <5>2
      <4> QED
        BY <4>1, <4>2
    <3>5. ASSUME ~ queue, ppc'[p] = "returning" PROVE <<p, sent[p]>> \in Received(t)'
      <4>1. home[t] = l
        BY <2>1, <3>1 DEF ReachesOne
      <4>2. t \in On(l)
        BY <3>1, <4>1 DEF On, Member
      <4>3. PICK i \in Filled(slots[l]) : slots[l][i] = t
        BY <1>b, <3>3, <4>2, PlacesFilled DEF Placed
      <4>4. i \in DOMAIN slots[l] /\ i <= k
        BY <2>1, <3>3, <3>5 DEF Filled
      <4> QED
        BY <3>4, <3>5, <4>3, <4>4
    <3> QED
      BY <2>1, <3>1, <3>4, <3>5 DEF ReachesOne
  <2> QED
    BY <1>2, <2>1, <2>2, <2>3
<1>7. ASSUME NEW p \in Publishers, Returned(p) PROVE Reaches'
  <2>1. /\ UNCHANGED <<subVars, slots, queue, list, sent, owed>> /\ ppc'[p] = "idle"
        /\ \A r \in Publishers \ {p} :
              UNCHANGED <<ppc[r], list[r], cursor[r], sent[r], owed[r]>>
    BY <1>7 DEF Returned, TypeOK
  <2>2. \A t \in Subscribers : Received(t)' = Received(t)
    BY <1>7, ReceivedStays
  <2>3. \A t \in owed'[p] : ReachesOne(p, t)'
    BY <1>0, <2>1 DEF ReachesOne
  <2> QED
    BY <1>2, <2>1, <2>2, <2>3
<1>8. ASSUME UNCHANGED vars PROVE Reaches'
  <2>1. \A t \in Subscribers : Received(t)' = Received(t)
    BY <1>8, ReceivedStays
  <2> QED
    BY <1>0, <1>8, <2>1 DEF vars, Reaches, ReachesOne
<1> QED
  BY <1>1, <1>3, <1>4, <1>5, <1>6, <1>7, <1>8, Steps DEF PublisherNext

\* Each step keeps Fresh: nobody has a message that was not published, nor one that is still
\* being dispatched to a queue.
LEMMA FreshStep ==
    ASSUME TypeOK, TypeOK', ListsInv, Fresh, [Next]_vars
    PROVE  Fresh'
<1> USE NamesDiffer DEF listVars, subVars, busVars, chanVars, pubVars
<1>0. /\ \A p \in Publishers : sent[p] \in Nat
      /\ \A s \in Subscribers : \A m \in Received(s) :
            /\ m[1] \in Publishers /\ m[2] \in Nat /\ m = <<m[1], m[2]>>
            /\ m[2] <= sent[m[1]]
            /\ queue /\ m[2] = sent[m[1]] => ppc[m[1]] \in {"returning", "idle"}
  <2>1. \A s \in Subscribers : Received(s) \subseteq Message
    BY ReceivedIs
  <2>2. \A m \in Message : m[1] \in Publishers /\ m[2] \in Nat /\ m = <<m[1], m[2]>>
    BY DEF Message
  <2> QED
    BY <2>1, <2>2 DEF Fresh, TypeOK
<1>1. ASSUME NEW s \in Subscribers, SubscriberNext(s) PROVE Fresh'
  <2>1. \A t \in Subscribers : Received(t)' = Received(t)
    BY <1>1, ReceivedStays
  <2>2. UNCHANGED <<sent, ppc, queue>>
    BY <1>1, SubscriberKeeps
  <2> QED
    BY <2>1, <2>2 DEF Fresh
<1>2. ASSUME NEW p \in Publishers, Publish(p) PROVE Fresh'
  <2>1. \A t \in Subscribers : Received(t)' = Received(t)
    BY <1>2, ReceivedStays
  <2>2. /\ queue' = queue /\ sent'[p] = sent[p] + 1
        /\ \A r \in Publishers \ {p} : UNCHANGED <<sent[r], ppc[r]>>
    BY <1>2 DEF Publish, TypeOK
  <2>3. ASSUME NEW s \in Subscribers, NEW m \in Received(s)
        PROVE  /\ m[2] <= sent'[m[1]]
               /\ queue' /\ m[2] = sent'[m[1]] => ppc'[m[1]] \in {"returning", "idle"}
    <3>1. CASE m[1] = p
      BY <1>0, <2>2, <2>3, <3>1
    <3>2. CASE m[1] # p
      BY <1>0, <2>2, <2>3, <3>2
    <3> QED
      BY <3>1, <3>2
  <2> QED
    BY <2>1, <2>3 DEF Fresh
<1>3. ASSUME NEW p \in Publishers, Dispatch(p) \/ Scan(p) \/ Returned(p) PROVE Fresh'
  <2>1. \A t \in Subscribers : Received(t)' = Received(t)
    BY <1>3, ReceivedStays
  <2>2. /\ UNCHANGED <<sent, queue>>
        /\ \A r \in Publishers \ {p} : ppc'[r] = ppc[r]
        /\ ppc[p] \in {"locking", "scanning"} \/ ppc'[p] = "idle"
    BY <1>3 DEF Dispatch, Scan, Returned, Release, TypeOK
  <2>3. ASSUME NEW s \in Subscribers, NEW m \in Received(s)
        PROVE  /\ m[2] <= sent'[m[1]]
               /\ queue' /\ m[2] = sent'[m[1]] => ppc'[m[1]] \in {"returning", "idle"}
    <3>1. CASE m[1] = p
      BY <1>0, <2>2, <2>3, <3>1
    <3>2. CASE m[1] # p
      BY <1>0, <2>2, <2>3, <3>2
    <3> QED
      BY <3>1, <3>2
  <2> QED
    BY <2>1, <2>3 DEF Fresh
<1>4. ASSUME NEW p \in Publishers, Write(p) PROVE Fresh'
  <2>1. \A t \in Subscribers : Received(t)' \subseteq Received(t) \cup {<<p, sent[p]>>}
    BY <1>4, WriteGives
  <2>2. UNCHANGED <<sent, queue>> /\ Written(p)
    BY <1>4, Zenon DEF Write
  <2>3. /\ queue => ppc'[p] = "returning"
        /\ \A r \in Publishers \ {p} : ppc'[r] = ppc[r]
    BY <2>2 DEF Written, Release, TypeOK
  <2>4. ASSUME NEW s \in Subscribers, NEW m \in Received(s)'
        PROVE  /\ m[2] <= sent'[m[1]]
               /\ queue' /\ m[2] = sent'[m[1]] => ppc'[m[1]] \in {"returning", "idle"}
    <3>1. CASE m \in Received(s)
      <4>1. CASE m[1] = p
        BY <1>0, <2>2, <2>3, <3>1, <4>1
      <4>2. CASE m[1] # p
        BY <1>0, <2>2, <2>3, <3>1, <4>2
      <4> QED
        BY <4>1, <4>2
    <3>2. CASE m = <<p, sent[p]>>
      BY <1>0, <2>2, <2>3, <3>2
    <3> QED
      BY <2>1, <2>4, <3>1, <3>2
  <2> QED
    BY <2>4 DEF Fresh
<1>5. ASSUME UNCHANGED vars PROVE Fresh'
  <2>1. \A t \in Subscribers : Received(t)' = Received(t)
    BY <1>5, ReceivedStays
  <2> QED
    BY <1>5, <2>1 DEF vars, Fresh
<1> QED
  BY <1>1, <1>2, <1>3, <1>4, <1>5, Steps DEF PublisherNext

\* Once somebody began to close, somebody always will have.
LEMMA ClosedForGood ==
    ASSUME TypeOK, [Next]_vars, NoneClosed'
    PROVE  NoneClosed /\ ~ \E s \in Subscribers : Remove(s) \/ Cancel(s)
<1> USE DEF listVars, subVars, busVars, chanVars, pubVars
<1>1. CASE UNCHANGED spc
  <2>1. NoneClosed
    BY <1>1 DEF NoneClosed
  <2>2. ASSUME NEW s \in Subscribers, Remove(s) \/ Cancel(s) PROVE FALSE
    BY <1>1, <2>2 DEF Remove, Cancel, TypeOK
  <2> QED
    BY <2>1, <2>2
<1>2. ASSUME NEW s \in Subscribers, NEW from, NEW to, spc[s] = from,
             spc' = [spc EXCEPT ![s] = to],
             \/ from \in {"new", "adding"} /\ to \in {"adding", "open"}
             \/ from \notin {"new", "adding"} /\ to \notin {"new", "adding", "open"}
      PROVE  NoneClosed /\ ~ \E n \in Subscribers : Remove(n) \/ Cancel(n)
  <2>1. \A n \in Subscribers : spc'[n] = IF n = s THEN to ELSE spc[n]
    BY <1>2 DEF TypeOK
  <2>2. spc'[s] \in {"new", "adding", "open"} /\ spc'[s] = to
    BY <2>1 DEF NoneClosed
  <2>3. from \in {"new", "adding"} /\ to \in {"adding", "open"}
    BY <1>2, <2>2
  <2>4. NoneClosed
    BY <1>2, <2>1, <2>3 DEF NoneClosed
  <2>5. ASSUME NEW n \in Subscribers, Remove(n) \/ Cancel(n) PROVE FALSE
    <3>1. spc'[n] \in {"removed", "cancelled"}
      BY <2>5 DEF Remove, Cancel, TypeOK
    <3> QED
      BY <3>1 DEF NoneClosed
  <2> QED
    BY <2>4, <2>5
<1>3. CASE \E s \in Subscribers : Subscribe(s) \/ Add(s) \/ Cancel(s) \/ Unsubscribe(s)
                                     \/ Remove(s) \/ CloseChan(s)
  <2>1. PICK s \in Subscribers : Subscribe(s) \/ Add(s) \/ Cancel(s) \/ Unsubscribe(s)
                                    \/ Remove(s) \/ CloseChan(s)
    BY <1>3
  <2>2. PICK from, to :
           /\ spc[s] = from /\ spc' = [spc EXCEPT ![s] = to]
           /\ \/ from \in {"new", "adding"} /\ to \in {"adding", "open"}
              \/ from \notin {"new", "adding"} /\ to \notin {"new", "adding", "open"}
    <3>1. \/ spc[s] = "new" /\ spc' = [spc EXCEPT ![s] = "adding"]
          \/ spc[s] = "adding" /\ spc' = [spc EXCEPT ![s] = "open"]
          \/ spc[s] = "open" /\ spc' = [spc EXCEPT ![s] = "cancelled"]
          \/ spc[s] = "cancelled" /\ spc' = [spc EXCEPT ![s] = "removing"]
          \/ spc[s] = "removing" /\ spc' = [spc EXCEPT ![s] = "removed"]
          \/ spc[s] = "removed" /\ spc' = [spc EXCEPT ![s] = "closed"]
      BY <2>1, Zenon DEF Subscribe, Add, Cancel, Unsubscribe, Remove, CloseChan
    <3> QED
      BY <3>1
  <2> QED
    BY <1>2, <2>2
<1>4. CASE UNCHANGED vars \/ (\E p \in Publishers : PublisherNext(p))
              \/ \E s \in Subscribers : Forward(s) \/ Consume(s)
  BY <1>1, <1>4, OnStays
<1> QED
  BY <1>3, <1>4, Steps DEF SubscriberNext

\* Each step keeps QueueTrue: a queue's message is nobody's, or one subscriber's.
LEMMA QueueStep ==
    ASSUME TypeOK, TypeOK', ListsInv, Fresh, QueueTrue, [Next]_vars, queue'
    PROVE  QueueTrue'
<1> USE NamesDiffer DEF listVars, subVars, busVars, chanVars, pubVars
<1>0. queue
  BY Steps DEF PublisherNext, Publish, Dispatch, Scan, Write, Returned, SubscriberNext,
     Subscribe, Add, Cancel, Unsubscribe, Remove, CloseChan, Forward, Consume, vars
\* Nobody has yet what is being dispatched.
<1>1. \A s, t \in Subscribers : \A m \in Received(s)' \cap Received(t)' : s = t
  <2>1. CASE \E p \in Publishers : Write(p)
    <3>1. PICK p \in Publishers : Write(p)
      BY <2>1
    <3>2. PICK w : w = slots[list[p]][cursor[p] + 1]
      OBVIOUS
    <3>3. \A s \in Subscribers :
             /\ Received(s)' \subseteq Received(s) \cup {<<p, sent[p]>>}
             /\ s # w => Received(s)' = Received(s)
      BY <3>1, <3>2, WriteGives
    <3>4. \A s \in Subscribers : <<p, sent[p]>> \notin Received(s)
      BY <1>0, <3>1, Zenon DEF Write, Fresh
    <3> QED
      BY <1>0, <3>3, <3>4 DEF QueueTrue
  <2>2. CASE ~ \E p \in Publishers : Write(p)
    <3>1. \A s \in Subscribers : Received(s)' = Received(s)
      BY <2>2, ReceivedStays, Steps DEF PublisherNext
    <3> QED
      BY <1>0, <3>1 DEF QueueTrue
  <2> QED
    BY <2>1, <2>2
<1>2. ASSUME NoneClosed'
      PROVE  \A l \in Lists : \A i \in DOMAIN slots'[l] : slots'[l][i] # None
  <2>1. /\ NoneClosed /\ ~ \E s \in Subscribers : Remove(s)
        /\ \A l \in Lists : \A i \in DOMAIN slots[l] : slots[l][i] # None
    BY <1>0, <1>2, ClosedForGood DEF QueueTrue
  <2>2. CASE \E s \in Subscribers : Add(s)
    <3>1. PICK s \in Subscribers : Add(s)
      BY <2>2
    <3>2. /\ home[s] \in Lists
          /\ \A i \in DOMAIN slots'[home[s]] :
                \/ slots'[home[s]][i] = s
                \/ /\ i \in DOMAIN slots[home[s]]
                   /\ slots'[home[s]][i] = slots[home[s]][i]
          /\ \A k \in Lists \ {home[s]} : slots'[k] = slots[k]
      BY <3>1, AddDoes DEF ListsInv
    <3>3. ASSUME NEW l \in Lists, NEW i \in DOMAIN slots'[l] PROVE slots'[l][i] # None
      <4>1. CASE l = home[s]
        BY <2>1, <3>2, <3>3, <4>1
      <4>2. CASE l # home[s]
        BY <2>1, <3>2, <3>3, <4>2
      <4> QED
        BY <4>1, <4>2
    <3> QED
      BY <3>3
  <2>3. CASE ~ \E s \in Subscribers : Add(s)
    <3>1. slots' = slots
      BY <2>1, <2>3, Steps, SlotsStay, Zenon DEF SubscriberNext
    <3> QED
      BY <2>1, <3>1
  <2> QED
    BY <2>2, <2>3
<1>3. ASSUME NoneClosed', NEW p \in Publishers, ppc'[p] = "returning"
      PROVE  \E s \in Subscribers : <<p, sent'[p]>> \in Received(s)'
  <2>1. /\ NoneClosed /\ \A l \in Lists : \A i \in DOMAIN slots[l] : slots[l][i] # None
        /\ ppc[p] = "returning" => \E s \in Subscribers : <<p, sent[p]>> \in Received(s)
    BY <1>0, <1>3, ClosedForGood DEF QueueTrue
  <2>2. CASE Write(p)
    <3>1. PICK w : w = slots[list[p]][cursor[p] + 1]
      OBVIOUS
    <3>2. /\ list[p] \in Lists /\ cursor[p] + 1 \in DOMAIN slots[list[p]]
          /\ w # None => w \in On(list[p])
      BY <2>2, <3>1, WritesToMember, Zenon DEF Write, ListsInv
    <3>3. w \in Subscribers /\ spc[w] = "open"
      BY <2>1, <3>1, <3>2 DEF On, Member, NoneClosed
    <3>4. <<p, sent[p]>> \in Received(w)' /\ sent' = sent
      <4>1. w = slots[list[p]][cursor[p] + 1] /\ spc[w] = "open"
               => <<p, sent[p]>> \in Received(w)'
        BY <2>2, <3>3, WriteGives
      <4> QED
        BY <2>2, <3>1, <3>3, <4>1, Zenon DEF Write
    <3> QED
      BY <3>3, <3>4
  <2>3. CASE ~ Write(p)
    <3>1. ppc[p] = "returning" /\ sent'[p] = sent[p]
      <4>1. CASE Scan(p)
        <5> DEFINE l == list[p]
                   i == IF next[l] >= Len(slots[l]) THEN 0 ELSE next[l]
        <5>1. l \in Lists /\ slots[l] # << >> /\ slots[l] \in Seq(Slot) /\ next[l] \in Nat
          BY <4>1 DEF Scan, ListsInv, Busy, TypeOK
        <5>2. i + 1 \in DOMAIN slots[l]
          BY <5>1
        <5>3. slots[l][i + 1] # None
          BY <2>1, <5>1, <5>2
        <5>4. ppc' = [ppc EXCEPT ![p] = "writing"]
          BY <4>1, <5>1, <5>3 DEF Scan
        <5>5. ppc'[p] = "writing"
          BY <5>4 DEF TypeOK
        <5> QED
          BY <1>3, <5>5
      <4>2. CASE Publish(p) \/ Dispatch(p) \/ Returned(p)
        BY <1>3, <4>2 DEF Publish, Dispatch, Returned, TypeOK
      <4>3. CASE \E r \in Publishers \ {p} : PublisherNext(r)
        <5>1. PICK r \in Publishers \ {p} : PublisherNext(r)
          BY <4>3
        <5>2. UNCHANGED sent \/ sent' = [sent EXCEPT ![r] = @ + 1]
          BY <5>1, Zenon DEF PublisherNext, Publish, Dispatch, Scan, Write, Returned
        <5>3. UNCHANGED ppc \/ \E to : ppc' = [ppc EXCEPT ![r] = to]
          BY <5>1, Zenon DEF PublisherNext, Publish, Dispatch, Scan, Write, Written,
             Returned, Release
        <5> QED
          BY <1>3, <5>2, <5>3 DEF TypeOK
      <4>4. CASE UNCHANGED vars \/ \E s \in Subscribers : SubscriberNext(s)
        <5>1. UNCHANGED <<ppc, sent>>
          BY <4>4, SubscriberKeeps DEF vars
        <5> QED
          BY <1>3, <5>1
      <4> QED
        BY <2>3, <4>1, <4>2, <4>3, <4>4, Steps DEF PublisherNext
    <3>2. PICK s \in Subscribers : <<p, sent[p]>> \in Received(s)
      BY <2>1, <3>1
    <3>3. Received(s) \subseteq Received(s)'
      <4>1. CASE \E r \in Publishers : Write(r)
        BY <4>1, WriteGives
      <4>2. CASE ~ \E r \in Publishers : Write(r)
        BY <4>2, ReceivedStays, Steps DEF PublisherNext
      <4> QED
        BY <4>1, <4>2
    <3> QED
      BY <3>1, <3>2, <3>3
  <2> QED
    BY <2>2, <2>3
<1> QED
  BY <1>1, <1>2, <1>3 DEF QueueTrue

\* The invariants of the messages hold at the start, when nothing was sent.
LEMMA MessagesInit == Init => Reaches /\ Fresh /\ QueueTrue
<1> SUFFICES ASSUME Init PROVE Reaches /\ Fresh /\ QueueTrue
  OBVIOUS
<1>1. TypeOK
  BY ListsInit
<1>2. \A s \in Subscribers : Received(s) = {}
  <2>1. Elements(<< >>) = {}
    BY DEF Elements
  <2> QED
    BY <1>1, <2>1, ReceivedIs DEF Init
<1>3. Reaches
  BY DEF Init, Reaches
<1>4. Fresh
  BY <1>2 DEF Fresh
<1>5. QueueTrue
  BY <1>2 DEF Init, QueueTrue
<1> QED
  BY <1>3, <1>4, <1>5

\* A broadcast message has reached everyone who was open when its Publish began and still
\* is, and a queued one reaches one at most, and one if nobody ever closed.
THEOREM PublishDelivers == Spec => []Delivered
<1>1. TypeOK /\ ListsInv /\ Reaches /\ Fresh /\ QueueTrue /\ TypeOK' /\ [Next]_vars
      => (Reaches /\ Fresh /\ QueueTrue)'
  <2>1. TypeOK /\ ListsInv /\ Fresh /\ QueueTrue /\ TypeOK' /\ [Next]_vars => QueueTrue'
    <3>1. ~ queue' => QueueTrue'
      BY DEF QueueTrue
    <3> QED
      BY <3>1, QueueStep
  <2> QED
    BY <2>1, ReachesStep, FreshStep
<1>2. TypeOK /\ Reaches /\ QueueTrue => Delivered
  <2> SUFFICES ASSUME TypeOK, Reaches, QueueTrue PROVE Delivered
    OBVIOUS
  <2>1. ASSUME NEW p \in Publishers, ppc[p] = "returning", ~ queue, NEW s \in owed[p]
        PROVE  <<p, sent[p]>> \in Received(s)
    BY <2>1 DEF Reaches, ReachesOne
  <2>2. ASSUME queue, NEW m \in Message
        PROVE  Cardinality({s \in Subscribers : m \in Received(s)}) <= 1
    <3> DEFINE R == {s \in Subscribers : m \in Received(s)}
    <3>1. \A s, t \in R : s = t
      BY <2>2 DEF QueueTrue
    <3>2. R = {} \/ \E s : R = {s}
      BY <3>1
    <3> HIDE DEF R
    <3>3. Cardinality(R) = 0 \/ Cardinality(R) = 1
      BY <3>2, FS_EmptySet, FS_Singleton
    <3> QED
      BY <3>3 DEF R
  <2>3. ASSUME queue, NEW p \in Publishers, ppc[p] = "returning", NoneClosed
        PROVE  \E s \in Subscribers : <<p, sent[p]>> \in Received(s)
    BY <2>3 DEF QueueTrue
  <2> QED
    BY <2>1, <2>2, <2>3 DEF Delivered, NoneClosed
<1> QED
  BY <1>1, <1>2, MessagesInit, ListsAlways, PTL DEF Spec

----------------------------------------------------------------------------
\* The list's lock.

\* A publisher that dispatches holds its list's lock, a queue's alone.
Locked ==
    \A p \in Publishers :
       /\ ppc[p] = "scanning" \/ (queue /\ ppc[p] = "writing") => listHolder[list[p]] = p
       /\ ~ queue /\ ppc[p] = "writing" => p \in readers[list[p]]

\* Each step keeps Locked: who dispatches holds the list's lock, to write or to read.
LEMMA LockedStep ==
    ASSUME TypeOK, ListsInv, Locked, [Next]_vars
    PROVE  Locked'
<1> USE NamesDiffer DEF listVars, subVars, busVars, chanVars, pubVars
<1>0. \A p \in Publishers :
         /\ ppc[p] # "idle" => list[p] \in Lists
         /\ ppc[p] = "scanning" => queue
         /\ list[p] \in Lists \cup {None}
  BY DEF ListsInv, Busy, TypeOK
<1>1. ASSUME UNCHANGED <<pubVars, queue, listHolder, readers>> PROVE Locked'
  BY <1>1 DEF Locked
\* Whoever steps disturbs nobody else's lock.
<1>2. ASSUME NEW p \in Publishers, queue' = queue,
             \A r \in Publishers \ {p} : UNCHANGED <<ppc[r], list[r]>>,
             \A r \in Publishers \ {p}, l \in Lists :
                /\ listHolder[l] = r => listHolder'[l] = r
                /\ r \in readers[l] => r \in readers'[l],
             (/\ ppc[p] = "scanning" \/ (queue /\ ppc[p] = "writing") => listHolder[list[p]] = p
              /\ ~ queue /\ ppc[p] = "writing" => p \in readers[list[p]])'
      PROVE  Locked'
  BY <1>0, <1>2 DEF Locked
<1>3. ASSUME NEW p \in Publishers, Publish(p) PROVE Locked'
  <2>1. /\ UNCHANGED <<queue, listHolder, readers>> /\ ppc'[p] \in {"idle", "locking"}
        /\ \A r \in Publishers \ {p} : UNCHANGED <<ppc[r], list[r]>>
    BY <1>3 DEF Publish, TypeOK
  <2> QED
    BY <1>2, <2>1
<1>4. ASSUME NEW p \in Publishers, Dispatch(p) PROVE Locked'
  <2>1. /\ UNCHANGED <<queue, list>> /\ ppc[p] = "locking" /\ list[p] \in Lists
        /\ \A r \in Publishers \ {p} : UNCHANGED <<ppc[r], list[r]>>
    BY <1>0, <1>4 DEF Dispatch, TypeOK
  <2>2. CASE queue
    <3>1. /\ \A l \in Lists : listHolder'[l] = IF l = list[p] THEN p ELSE listHolder[l]
          /\ listHolder[list[p]] = None /\ readers' = readers
      BY <1>4, <2>1, <2>2 DEF Dispatch, Free, TypeOK
    <3> QED
      BY <1>2, <2>1, <2>2, <3>1
  <2>3. CASE ~ queue
    <3>1. /\ readers' = [readers EXCEPT ![list[p]] = @ \cup {p}]
          /\ ppc' = [ppc EXCEPT ![p] = "writing"] /\ listHolder' = listHolder
      BY <1>4, <2>3 DEF Dispatch
    <3>2. /\ ppc'[p] = "writing"
          /\ \A l \in Lists : readers'[l] = IF l = list[p] THEN readers[l] \cup {p} ELSE readers[l]
      BY <3>1 DEF TypeOK
    <3> QED
      BY <1>2, <2>1, <2>3, <3>1, <3>2
  <2> QED
    BY <2>2, <2>3
<1>5. ASSUME NEW p \in Publishers, Release(p), UNCHANGED <<queue, list>> PROVE Locked'
  <2>1. /\ ppc'[p] = "returning" /\ \A r \in Publishers \ {p} : UNCHANGED <<ppc[r], list[r]>>
        /\ \A l \in Lists : /\ listHolder'[l] = IF l = list[p] /\ listHolder[l] = p
                                                THEN None ELSE listHolder[l]
                            /\ readers'[l] = IF l = list[p] THEN readers[l] \ {p} ELSE readers[l]
    BY <1>5 DEF Release, TypeOK
  <2>2. \A r \in Publishers \ {p}, l \in Lists :
           /\ listHolder[l] = r => listHolder'[l] = r
           /\ r \in readers[l] => r \in readers'[l]
    BY <2>1
  <2>3. (/\ ppc[p] = "scanning" \/ (queue /\ ppc[p] = "writing") => listHolder[list[p]] = p
         /\ ~ queue /\ ppc[p] = "writing" => p \in readers[list[p]])'
    BY <2>1
  <2> QED
    BY <1>2, <1>5, <2>1, <2>2, <2>3
<1>6. ASSUME NEW p \in Publishers, UNCHANGED <<queue, list, listHolder, readers>>,
             \/ UNCHANGED ppc
             \/ queue /\ ppc[p] = "scanning" /\ ppc' = [ppc EXCEPT ![p] = "writing"]
             \/ ppc' = [ppc EXCEPT ![p] = "idle"]
      PROVE  Locked'
  <2>1. /\ \A r \in Publishers \ {p} : ppc'[r] = ppc[r]
        /\ \/ ppc'[p] = ppc[p]
           \/ queue /\ ppc[p] = "scanning" /\ ppc'[p] = "writing"
           \/ ppc'[p] = "idle"
    BY <1>6 DEF TypeOK
  <2> QED
    BY <1>2, <1>6, <2>1 DEF Locked
<1>7. ASSUME NEW p \in Publishers, Scan(p) PROVE Locked'
  <2>1. UNCHANGED <<queue, list>> /\ queue /\ ppc[p] = "scanning"
    BY <1>0, <1>7 DEF Scan
  <2>2. \/ Release(p)
        \/ /\ UNCHANGED <<listHolder, readers>>
           /\ ppc' = [ppc EXCEPT ![p] = "writing"] \/ UNCHANGED ppc
    BY <1>7 DEF Scan
  <2> QED
    BY <1>5, <1>6, <2>1, <2>2
<1>8. ASSUME NEW p \in Publishers, Write(p) PROVE Locked'
  <2>1. UNCHANGED <<queue, list>> /\ (Release(p) \/ UNCHANGED <<ppc, listHolder, readers>>)
    BY <1>8, Zenon DEF Write, Written
  <2> QED
    BY <1>5, <1>6, <2>1
<1>9. ASSUME NEW p \in Publishers, Returned(p) PROVE Locked'
  BY <1>6, <1>9 DEF Returned
<1>10. ASSUME UNCHANGED vars \/ \E s \in Subscribers : SubscriberNext(s)
       PROVE  UNCHANGED <<pubVars, queue, listHolder, readers>>
  BY <1>10 DEF vars, SubscriberNext, Subscribe, Add, Cancel, Unsubscribe, Remove, CloseChan,
         Forward, Consume
<1> QED
  BY <1>1, <1>3, <1>4, <1>7, <1>8, <1>9, <1>10, Steps DEF PublisherNext

\* While a publisher writes to a list, which may take as long as a subscriber's buffer is
\* full, nobody joins or leaves it: whom it waits for is still in the slot it found.
THEOREM ListHeld ==
    Spec => [][\A p \in Publishers : ppc[p] = "writing" => slots'[list[p]] = slots[list[p]]]_vars
<1>1. Init => Locked
  BY DEF Init, Locked
<1>2. TypeOK /\ ListsInv /\ Locked /\ [Next]_vars => Locked'
  BY LockedStep
<1>3. TypeOK /\ ListsInv /\ Locked /\ [Next]_vars
      => [\A p \in Publishers : ppc[p] = "writing" => slots'[list[p]] = slots[list[p]]]_vars
  <2> SUFFICES ASSUME TypeOK, ListsInv, Locked, [Next]_vars,
                      NEW p \in Publishers, ppc[p] = "writing"
               PROVE  slots'[list[p]] = slots[list[p]]
    OBVIOUS
  <2>1. list[p] \in Lists /\ ~ Free(list[p])
    BY NamesDiffer DEF ListsInv, Busy, Locked, Free
  <2>2. CASE \E s \in Subscribers : Add(s)
    <3>1. PICK s \in Subscribers : Add(s)
      BY <2>2
    <3>2. home[s] # list[p] /\ \A k \in Lists \ {home[s]} : slots'[k] = slots[k]
      BY <2>1, <3>1, AddDoes DEF Add, ListsInv
    <3> QED
      BY <2>1, <3>2
  <2>3. CASE \E s \in Subscribers : Remove(s)
    <3>1. PICK s \in Subscribers : Remove(s)
      BY <2>3
    <3>2. home[s] # list[p] /\ \A k \in Lists \ {home[s]} : slots'[k] = slots[k]
      BY <2>1, <3>1, RemoveDoes DEF Remove, ListsInv
    <3> QED
      BY <2>1, <3>2
  <2>4. CASE ~ \E s \in Subscribers : Add(s) \/ Remove(s)
    <3>1. slots' = slots
      BY <2>4, Steps, SlotsStay DEF SubscriberNext
    <3> QED
      BY <3>1
  <2> QED
    BY <2>2, <2>3, <2>4
<1> QED
  BY <1>1, <1>2, <1>3, ListsAlways, PTL DEF Spec

----------------------------------------------------------------------------
\* Coming to rest.

\* A list's lock is held by publishers that dispatch to that list, and by nobody else.
Holders ==
    \A l \in Lists :
       /\ listHolder[l] # None =>
             list[listHolder[l]] = l /\ ppc[listHolder[l]] \in {"scanning", "writing"}
       /\ \A p \in readers[l] : list[p] = l /\ ppc[p] = "writing"

\* A subscription that was closed has its msgChan closed, and only then its outChan is.
Ends ==
    \A s \in Subscribers :
       (spc[s] = "closed" => msgClosed[s]) /\ (outClosed[s] => msgClosed[s])

\* Each step keeps Holders: a publisher lets go of the lock when it stops dispatching.
LEMMA HoldersStep ==
    ASSUME TypeOK, ListsInv, Holders, [Next]_vars
    PROVE  Holders'
<1> USE NamesDiffer DEF listVars, subVars, busVars, chanVars, pubVars
<1>0. /\ \A p \in Publishers : ppc[p] # "idle" => list[p] \in Lists
      /\ \A l \in Lists :
            listHolder[l] \in Publishers \cup {None} /\ readers[l] \subseteq Publishers
      /\ DOMAIN ppc = Publishers /\ DOMAIN list = Publishers
      /\ DOMAIN listHolder = Lists /\ DOMAIN readers = Lists
  BY DEF ListsInv, Busy, TypeOK
<1> HIDE DEF TypeOK, ListsInv
<1>1. ASSUME UNCHANGED <<ppc, list, listHolder, readers>> PROVE Holders'
  BY <1>1 DEF Holders
\* Whoever steps takes, keeps or lets go of its own lock.
<1>2. ASSUME NEW p \in Publishers,
             \A r \in Publishers \ {p} : UNCHANGED <<ppc[r], list[r]>>,
             \A l \in Lists :
                /\ listHolder'[l] = p =>
                      list'[p] = l /\ ppc'[p] \in {"scanning", "writing"}
                /\ listHolder'[l] \notin {p, None} => listHolder'[l] = listHolder[l]
                /\ p \in readers'[l] => list'[p] = l /\ ppc'[p] = "writing"
                /\ readers'[l] \ {p} \subseteq readers[l]
      PROVE  Holders'
  <2>1. ASSUME NEW l \in Lists, listHolder'[l] # None
        PROVE  list'[listHolder'[l]] = l /\ ppc'[listHolder'[l]] \in {"scanning", "writing"}
    <3>1. PICK r : r = listHolder'[l]
      OBVIOUS
    <3>2. CASE r = p
      BY <1>2, <3>1, <3>2
    <3>3. CASE r # p
      <4>1. r = listHolder[l] /\ r \in Publishers \ {p}
        BY <1>0, <1>2, <2>1, <3>1, <3>3
      <4>2. list[r] = l /\ ppc[r] \in {"scanning", "writing"}
        BY <2>1, <3>1, <4>1 DEF Holders
      <4> QED
        BY <1>2, <3>1, <4>1, <4>2
    <3> QED
      BY <3>2, <3>3
  <2>2. ASSUME NEW l \in Lists, NEW r \in readers'[l] PROVE list'[r] = l /\ ppc'[r] = "writing"
    <3>1. CASE r = p
      BY <1>2, <3>1
    <3>2. CASE r # p
      <4>1. r \in readers[l] /\ r \in Publishers \ {p}
        BY <1>0, <1>2, <3>2
      <4> QED
        BY <1>2, <4>1 DEF Holders
    <3> QED
      BY <3>1, <3>2
  <2> QED
    BY <2>1, <2>2 DEF Holders
\* What p holds is the lock of its own list, while it dispatches.
<1>3. \A p \in Publishers, l \in Lists :
         /\ listHolder[l] = p => list[p] = l /\ ppc[p] \in {"scanning", "writing"}
         /\ p \in readers[l] => list[p] = l /\ ppc[p] = "writing"
  BY DEF Holders
<1>4. ASSUME NEW p \in Publishers, Publish(p) PROVE Holders'
  <2>1. /\ UNCHANGED <<listHolder, readers>> /\ ppc[p] = "idle"
        /\ \E l, to : list' = [list EXCEPT ![p] = l] /\ ppc' = [ppc EXCEPT ![p] = to]
    BY <1>4, Zenon DEF Publish
  <2>2. \A r \in Publishers \ {p} : UNCHANGED <<ppc[r], list[r]>>
    BY <1>0, <2>1
  <2>3. \A l \in Lists : listHolder[l] # p /\ p \notin readers[l]
    BY <1>3, <2>1
  <2> QED
    BY <1>2, <2>1, <2>2, <2>3
<1>5. ASSUME NEW p \in Publishers, Dispatch(p) PROVE Holders'
  <2>1. /\ list' = list /\ ppc[p] = "locking"
        /\ \/ /\ listHolder' = [listHolder EXCEPT ![list[p]] = p] /\ readers' = readers
              /\ ppc' = [ppc EXCEPT ![p] = "scanning"]
           \/ /\ readers' = [readers EXCEPT ![list[p]] = readers[list[p]] \cup {p}]
              /\ listHolder' = listHolder /\ ppc' = [ppc EXCEPT ![p] = "writing"]
    BY <1>5, Zenon DEF Dispatch
  <2>2. \A r \in Publishers \ {p} : UNCHANGED <<ppc[r], list[r]>>
    BY <1>0, <2>1
  <2>3. list[p] \in Lists /\ \A l \in Lists : listHolder[l] # p /\ p \notin readers[l]
    BY <1>0, <1>3, <2>1
  <2>4. CASE /\ listHolder' = [listHolder EXCEPT ![list[p]] = p] /\ readers' = readers
             /\ ppc' = [ppc EXCEPT ![p] = "scanning"]
    <3>1. /\ \A l \in Lists : listHolder'[l] = IF l = list[p] THEN p ELSE listHolder[l]
          /\ ppc'[p] = "scanning"
      BY <1>0, <2>4
    <3> QED
      BY <1>2, <2>1, <2>2, <2>3, <2>4, <3>1
  <2>5. CASE /\ readers' = [readers EXCEPT ![list[p]] = readers[list[p]] \cup {p}]
             /\ listHolder' = listHolder /\ ppc' = [ppc EXCEPT ![p] = "writing"]
    <3>1. /\ \A l \in Lists : readers'[l] = IF l = list[p] THEN readers[l] \cup {p} ELSE readers[l]
          /\ ppc'[p] = "writing"
      BY <1>0, <2>5
    <3> QED
      BY <1>2, <2>1, <2>2, <2>3, <2>5, <3>1
  <2> QED
    BY <2>1, <2>4, <2>5
<1>6. ASSUME NEW p \in Publishers, Release(p), list' = list PROVE Holders'
  <2>1. /\ \A r \in Publishers \ {p} : UNCHANGED <<ppc[r], list[r]>>
        /\ \A l \in Lists : /\ listHolder'[l] = IF l = list[p] /\ listHolder[l] = p
                                                THEN None ELSE listHolder[l]
                            /\ readers'[l] = IF l = list[p] THEN readers[l] \ {p} ELSE readers[l]
    <3>1. PICK k : k = list[p]
      OBVIOUS
    <3>2. /\ listHolder' = [listHolder EXCEPT ![k] = IF listHolder[k] = p THEN None
                                                                        ELSE listHolder[k]]
          /\ readers' = [readers EXCEPT ![k] = readers[k] \ {p}]
          /\ ppc' = [ppc EXCEPT ![p] = "returning"]
      BY <1>6, <3>1, Zenon DEF Release
    <3>3. \A l \in Lists : listHolder'[l] = IF l = k /\ listHolder[l] = p
                                            THEN None ELSE listHolder[l]
      BY <1>0, <3>2
    <3>4. \A l \in Lists : readers'[l] = IF l = k THEN readers[l] \ {p} ELSE readers[l]
      BY <1>0, <3>2
    <3>5. \A r \in Publishers \ {p} : ppc'[r] = ppc[r]
      BY <1>0, <3>2
    <3> QED
      BY <1>6, <3>1, <3>3, <3>4, <3>5
  <2>2. ASSUME NEW l \in Lists PROVE listHolder'[l] # p /\ p \notin readers'[l]
    <3>1. CASE l = list[p]
      <4>1. /\ listHolder'[l] = IF listHolder[l] = p THEN None ELSE listHolder[l]
            /\ readers'[l] = readers[l] \ {p} /\ p # None
        BY <2>1, <3>1
      <4> QED
        BY <4>1
    <3>2. CASE l # list[p]
      <4>1. listHolder'[l] = listHolder[l] /\ readers'[l] = readers[l]
        BY <2>1, <3>2
      <4> QED
        BY <1>3, <3>2, <4>1
    <3> QED
      BY <3>1, <3>2
  <2>3. \A l \in Lists : /\ listHolder'[l] \notin {p, None} => listHolder'[l] = listHolder[l]
                         /\ readers'[l] \ {p} \subseteq readers[l]
    BY <2>1
  <2>4. \A r \in Publishers \ {p} : UNCHANGED <<ppc[r], list[r]>>
    BY <2>1
  <2> QED
    BY <1>2, <2>2, <2>3, <2>4
<1>7. ASSUME NEW p \in Publishers, UNCHANGED <<list, listHolder, readers>>,
             \/ UNCHANGED ppc
             \/ ppc[p] = "scanning" /\ ppc' = [ppc EXCEPT ![p] = "writing"]
             \/ ppc[p] = "returning" /\ ppc' = [ppc EXCEPT ![p] = "idle"]
      PROVE  Holders'
  <2>1. /\ \A r \in Publishers \ {p} : UNCHANGED <<ppc[r], list[r]>>
        /\ \/ ppc'[p] = ppc[p]
           \/ ppc[p] = "scanning" /\ ppc'[p] = "writing"
           \/ ppc[p] = "returning"
    BY <1>0, <1>7
  <2> QED
    BY <1>2, <1>3, <1>7, <2>1
<1>8. ASSUME NEW p \in Publishers, Scan(p) \/ Write(p) \/ Returned(p) PROVE Holders'
  <2>1. /\ list' = list
        /\ \/ Release(p)
           \/ /\ UNCHANGED <<listHolder, readers>>
              /\ \/ UNCHANGED ppc
                 \/ ppc[p] = "scanning" /\ ppc' = [ppc EXCEPT ![p] = "writing"]
                 \/ ppc[p] = "returning" /\ ppc' = [ppc EXCEPT ![p] = "idle"]
    <3>1. CASE Scan(p)
      BY <3>1, Zenon DEF Scan
    <3>2. CASE Write(p)
      BY <3>2, Zenon DEF Write, Written
    <3>3. CASE Returned(p)
      BY <3>3, Zenon DEF Returned
    <3> QED
      BY <1>8, <3>1, <3>2, <3>3
  <2> QED
    BY <1>6, <1>7, <2>1
<1>9. ASSUME NEW s \in Subscribers, SubscriberNext(s)
      PROVE  UNCHANGED <<ppc, list, listHolder, readers>>
  BY <1>9, Zenon DEF SubscriberNext, Subscribe, Add, Cancel, Unsubscribe, Remove, CloseChan,
     Forward, Consume
<1>10. CASE UNCHANGED vars
  BY <1>1, <1>10 DEF vars
<1> QED
  BY <1>1, <1>4, <1>5, <1>8, <1>9, <1>10, Steps DEF PublisherNext

\* Each step keeps Ends: Close closes msgChan as its last step, and the goroutine sees it.
LEMMA EndsStep ==
    ASSUME TypeOK, Ends, [Next]_vars
    PROVE  Ends'
<1> USE DEF listVars, subVars, busVars, chanVars, pubVars
<1>0. DOMAIN spc = Subscribers /\ DOMAIN msgClosed = Subscribers /\ DOMAIN outClosed = Subscribers
  BY DEF TypeOK
<1> HIDE DEF TypeOK
<1>1. ASSUME \A n \in Subscribers :
                /\ spc'[n] = "closed" => spc[n] = "closed" \/ msgClosed'[n]
                /\ msgClosed[n] => msgClosed'[n]
                /\ outClosed'[n] => outClosed[n] \/ msgClosed[n]
      PROVE  Ends'
  BY <1>1 DEF Ends
<1>2. ASSUME UNCHANGED <<spc, msgClosed, outClosed>> PROVE Ends'
  BY <1>1, <1>2
<1>3. ASSUME NEW s \in Subscribers, NEW to, to # "closed", spc' = [spc EXCEPT ![s] = to],
             UNCHANGED <<msgClosed, outClosed>>
      PROVE  Ends'
  <2>1. \A n \in Subscribers : spc'[n] = IF n = s THEN to ELSE spc[n]
    BY <1>0, <1>3
  <2> QED
    BY <1>1, <1>3, <2>1
<1>4. ASSUME NEW s \in Subscribers, CloseChan(s) PROVE Ends'
  <2>1. /\ spc' = [spc EXCEPT ![s] = "closed"] /\ outClosed' = outClosed
        /\ msgClosed' = [msgClosed EXCEPT ![s] = TRUE]
    BY <1>4, Zenon DEF CloseChan
  <2>2. \A n \in Subscribers : /\ spc'[n] = IF n = s THEN "closed" ELSE spc[n]
                               /\ msgClosed'[n] = IF n = s THEN TRUE ELSE msgClosed[n]
    BY <1>0, <2>1
  <2> QED
    BY <1>1, <2>1, <2>2
<1>5. ASSUME NEW s \in Subscribers, Forward(s) PROVE Ends'
  <2>1. /\ UNCHANGED <<spc, msgClosed>>
        /\ \/ outClosed' = outClosed
           \/ msgClosed[s] /\ outClosed' = [outClosed EXCEPT ![s] = TRUE]
    BY <1>5, Zenon DEF Forward
  <2>2. \A n \in Subscribers : outClosed'[n] => outClosed[n] \/ msgClosed[n]
    BY <1>0, <2>1
  <2> QED
    BY <1>1, <2>1, <2>2
<1>6. ASSUME NEW s \in Subscribers, Subscribe(s) \/ Add(s) \/ Cancel(s) \/ Unsubscribe(s)
                                       \/ Remove(s)
      PROVE  Ends'
  <2>1. PICK to \in {"adding", "open", "cancelled", "removing", "removed"} :
           spc' = [spc EXCEPT ![s] = to] /\ UNCHANGED <<msgClosed, outClosed>>
    BY <1>6, Zenon DEF Subscribe, Add, Cancel, Unsubscribe, Remove
  <2> QED
    BY <1>3, <2>1
<1>7. ASSUME UNCHANGED vars \/ (\E p \in Publishers : PublisherNext(p))
                            \/ \E s \in Subscribers : Consume(s)
      PROVE  Ends'
  <2>1. UNCHANGED <<spc, msgClosed, outClosed>>
    BY <1>7, Zenon DEF vars, PublisherNext, Publish, Dispatch, Scan, Write, Returned, Consume
  <2> QED
    BY <1>2, <2>1
<1> QED
  BY <1>4, <1>5, <1>6, <1>7, Steps DEF SubscriberNext

\* When no guard holds nobody waits for a lock or for room: every Publish and every Close
\* has returned, and a read of a closed subscription does not block.
LEMMA RestsThen ==
    ASSUME TypeOK, ListsInv, Holders, Ends, ~ CanGoOn
    PROVE  AtRest
<1> USE NamesDiffer
<1>1. \A s \in Subscribers :
         /\ spc[s] \in {"adding", "removing"} => ~ Free(home[s])
         /\ spc[s] = "cancelled" => busHolder # None
         /\ spc[s] # "removed"
         /\ spc[s] = "open" => outChan[s] = << >>
  BY DEF CanGoOn
<1>2. \A s \in Subscribers : spc[s] # "new" /\ ~ outClosed[s] =>
         IF held[s] = << >> THEN msgChan[s] = << >> /\ ~ msgClosed[s]
                            ELSE ~ (Len(outChan[s]) < Size)
  BY DEF CanGoOn
<1>3. \A p \in Publishers :
         /\ ppc[p] \notin {"scanning", "returning"}
         /\ ppc[p] = "locking" => IF queue THEN ~ Free(list[p])
                                  ELSE listHolder[list[p]] # None \/ WriterWaits(list[p])
  BY DEF CanGoOn
<1>4. \A p \in Publishers : ppc[p] = "writing" =>
         \A s : s = slots[list[p]][cursor[p] + 1] =>
            s # None /\ spc[s] = "open" /\ ~ msgClosed[s] /\ ~ (Len(msgChan[s]) < Size)
  BY DEF CanGoOn
<1>5. \A s \in Subscribers : Size > 0 /\ outChan[s] \in Seq(Message) /\ msgChan[s] \in Seq(Message)
  BY LocalBusAssumption DEF TypeOK
<1>6. \A q \in Seq(Message) : ~ (Len(q) < Size) => q # << >>
  BY LocalBusAssumption
\* Whom a writer waits for is open, and its goroutine, or its consumer, has work.
<1>7. ASSUME NEW p \in Publishers, ppc[p] = "writing" PROVE FALSE
  <2>1. PICK s : s = slots[list[p]][cursor[p] + 1]
    OBVIOUS
  <2>2. s # None /\ spc[s] = "open" /\ ~ msgClosed[s] /\ ~ (Len(msgChan[s]) < Size)
    BY <1>4, <1>7, <2>1
  <2>3. s \in Subscribers
    <3>1. PICK q, c : q = slots[list[p]] /\ c = cursor[p]
      OBVIOUS
    <3>2. q \in Seq(Slot) /\ c \in Nat /\ c < Len(q)
      BY <1>7, <3>1 DEF ListsInv, Busy, TypeOK
    <3>3. q[c + 1] \in Slot
      BY <3>2
    <3> QED
      BY <2>1, <2>2, <3>1, <3>3 DEF Slot
  <2>4. msgChan[s] # << >> /\ ~ outClosed[s] /\ outChan[s] = << >>
    BY <1>1, <1>5, <1>6, <2>2, <2>3 DEF Ends
  <2>5. outChan[s] # << >>
    BY <1>2, <1>5, <1>6, <2>2, <2>3, <2>4
  <2> QED
    BY <2>4, <2>5
<1>8. \A l \in Lists : Free(l)
  <2>1. \A p \in Publishers : ppc[p] \notin {"scanning", "writing"}
    BY <1>3, <1>7
  <2>2. \A l \in Lists : listHolder[l] \in Publishers \cup {None} /\ readers[l] \subseteq Publishers
    BY DEF TypeOK
  <2> QED
    BY <2>1, <2>2 DEF Holders, Free
<1>9. \A s \in Subscribers : spc[s] \notin {"adding", "removing"}
  <2>1. ASSUME NEW s \in Subscribers, spc[s] \in {"adding", "removing"} PROVE home[s] \in Lists
    BY <2>1 DEF ListsInv, Homed, Member, TypeOK
  <2> QED
    BY <1>1, <1>8, <2>1
<1>10. busHolder = None
  BY <1>9 DEF ListsInv, Homed, TypeOK, Slot
<1>11. ASSUME NEW p \in Publishers PROVE ppc[p] = "idle"
  <2>1. ppc[p] # "locking"
    <3>1. ASSUME ppc[p] = "locking" PROVE list[p] \in Lists
      BY <3>1 DEF ListsInv, Busy
    <3>2. \A l \in Lists : ~ WriterWaits(l)
      BY <1>9 DEF WriterWaits
    <3> QED
      BY <1>3, <1>8, <3>1, <3>2 DEF Free
  <2>2. ppc[p] \in PubState
    BY DEF TypeOK, PubState
  <2> QED
    BY <1>3, <1>7, <2>1, <2>2 DEF PubState
<1>12. ASSUME NEW s \in Subscribers PROVE spc[s] \in {"new", "open", "closed"}
  <2>1. spc[s] \in SubState
    BY DEF TypeOK, SubState
  <2> QED
    BY <1>1, <1>9, <1>10, <2>1 DEF SubState
<1>13. ASSUME NEW s \in Subscribers, spc[s] = "closed" PROVE outClosed[s] \/ outChan[s] # << >>
  <2>1. msgClosed[s]
    BY <1>13 DEF Ends
  <2>2. ~ outClosed[s] => ~ (Len(outChan[s]) < Size)
    BY <1>2, <1>13, <2>1
  <2> QED
    BY <1>5, <1>6, <2>2
<1> QED
  BY <1>10, <1>11, <1>12, <1>13 DEF AtRest

\* The locks and the full buffers never hold each other up for good, whoever publishes,
\* subscribes and closes: left alone, every Publish and every Close returns.
THEOREM ComesToRest == Spec => []AtRest
<1>1. Init => Holders /\ Ends
  BY DEF Init, Holders, Ends
<1>2. TypeOK /\ ListsInv /\ Holders /\ Ends /\ [Next]_vars => (Holders /\ Ends)'
  BY HoldersStep, EndsStep
<1>3. TypeOK /\ ListsInv /\ Holders /\ Ends => AtRest
  BY RestsThen DEF AtRest
<1> QED
  BY <1>1, <1>2, <1>3, ListsAlways, PTL DEF Spec
=============================================================================
