------------------------------- MODULE NatsBus -------------------------------
(***************************************************************************)
(* The NATS message bus of one process.  A subscription to a channel with  *)
(* a Local part shares one NATS subscription, its router, with all others  *)
(* of the process on the same Server part; one without has its own.        *)
(*                                                                         *)
(*   internal/bus/bus_nats.go       all of it                              *)
(*   internal/bus/serialization.go  the channel a message carries          *)
(*   internal/bus/bus.go            the generic Subscribe, SubscribeQueue  *)
(*                                                                         *)
(* The bus's mutex n.mu is held across steps where r.open or r.close wait  *)
(* for the router's mutex under it (busHolder); the router's is held by a  *)
(* callback for as long as its writes take (todo).                         *)
(*                                                                         *)
(* Outside the repository: nats.go, which queues the messages of each      *)
(* subscription and calls back with them one at a time, and not again once *)
(* Unsubscribe was called; and the NATS server, which gives a message to   *)
(* every plain subscription and to one of those of a queue group.          *)
(***************************************************************************)
EXTENDS Integers, Sequences, FiniteSets

CONSTANTS
    Subscribers,  \* the calls of Subscribe and SubscribeQueue; each closes at most once
    Server,       \* Server[s], for subscribers and messages: the Server part of the channel
    Local,        \* Local[s]: its Local part, None for ""
    Queue,        \* the calls of SubscribeQueue
    Messages,     \* the messages published
    Size,         \* the buffer of a subscription
    None

ASSUME NatsBusAssumption ==
    /\ None \notin Subscribers \cup Messages
    /\ Queue \subseteq Subscribers
    /\ Size \in Nat \ {0}

\* A router is named by the subscriber that makes it; so is a NATS subscription.
Routers == Subscribers
Direct == {s \in Subscribers : Local[s] = None}

VARIABLES
    busHolder,  \* the subscriber that holds n.mu and waits for a router's mutex
    routers,    \* routers[c]: the router of Server part c, or None
    routes,     \* routes[r][l]: the subscriptions of router r to Local part l, in
                \* order; empty when l is not in the map
    spc,        \* spc[s]: where subscriber s is
    home,       \* home[s]: sub.router
    msgChan,    \* msgChan[s]
    msgClosed,  \* msgClosed[s]
    published,  \* the messages published
    active,     \* the NATS subscriptions there are
    inbox,      \* inbox[x]: what nats.go has queued for subscription x
    calling,    \* calling[x]: the message x's callback has, or None
    todo,       \* todo[x]: the subscriptions it has still to write it to, in order
    locked,     \* locked[x]: x is a router and its callback holds r.mu
    \* history
    got,        \* got[s]: the messages read
    owed,       \* owed[m]: the subscribers that were open when m was published
    panicked    \* the subscription on whose closed channel a callback sent, or None

busVars == <<busHolder, routers, routes>>
subVars == <<spc, home>>
chanVars == <<msgChan, msgClosed, got, panicked>>
natsVars == <<published, active, inbox, owed>>
callVars == <<calling, todo, locked>>
vars == <<busVars, subVars, chanVars, natsVars, callVars>>

ServerParts == {Server[s] : s \in Subscribers}
LocalParts == {Local[x] : x \in Subscribers \cup Messages}

Init ==
    /\ busHolder = None
    /\ routers = [c \in ServerParts |-> None]
    /\ routes = [r \in Routers |-> [l \in LocalParts |-> << >>]]
    /\ spc = [s \in Subscribers |-> "new"]
    /\ home = [s \in Subscribers |-> None]
    /\ msgChan = [s \in Subscribers |-> << >>]
    /\ msgClosed = [s \in Subscribers |-> FALSE]
    /\ published = {}
    /\ active = {}
    /\ inbox = [x \in Subscribers |-> << >>]
    /\ calling = [x \in Subscribers |-> None]
    /\ todo = [x \in Subscribers |-> << >>]
    /\ locked = [x \in Subscribers |-> FALSE]
    /\ got = [s \in Subscribers |-> << >>]
    /\ owed = [m \in Messages |-> {}]
    /\ panicked = None

Goes(s, from, to) == spc[s] = from /\ spc' = [spc EXCEPT ![s] = to]

----------------------------------------------------------------------------
\* Subscribing.

\* subscribe, on a channel without a Local part: nc.Subscribe succeeds or fails.
Subscribe(s) ==
    /\ s \in Direct
    /\ \/ Goes(s, "new", "open") /\ active' = active \cup {s}
       \/ Goes(s, "new", "failed") /\ UNCHANGED active
    /\ UNCHANGED <<busVars, home, chanVars, published, inbox, owed, callVars>>

\* subscribeRouter, as far as r.open: the router there is, or a new one, which
\* is in the map before it is subscribed; or the types do not match.
FindRouter(s) ==
    LET r == routers[Server[s]] IN
    /\ s \notin Direct /\ busHolder = None
    /\ \/ /\ r = None /\ Goes(s, "new", "opening")
          /\ home' = [home EXCEPT ![s] = s]
          /\ routers' = [routers EXCEPT ![Server[s]] = s]
          /\ busHolder' = s
       \/ /\ r # None /\ (r \in Queue) = (s \in Queue) /\ Goes(s, "new", "opening")
          /\ home' = [home EXCEPT ![s] = r]
          /\ busHolder' = s
          /\ UNCHANGED routers
       \/ /\ r # None /\ (r \in Queue) # (s \in Queue) /\ Goes(s, "new", "failed")
          /\ UNCHANGED <<busHolder, routers, home>>
    /\ UNCHANGED <<routes, chanVars, natsVars, callVars>>

\* r.open and the end of the critical section.  Whoever did not make the router
\* returns, whether the router is subscribed by now or not.
Open(s) ==
    /\ Goes(s, "opening", IF home[s] = s THEN "subscribing" ELSE "open")
    /\ ~locked[home[s]]
    /\ routes' = [routes EXCEPT ![home[s]][Local[s]] = Append(@, s)]
    /\ busHolder' = None
    /\ UNCHANGED <<routers, home, chanVars, natsVars, callVars>>

SubscribeRouter(s) ==
    /\ \/ Goes(s, "subscribing", "open") /\ active' = active \cup {s}
       \/ Goes(s, "subscribing", "failing") /\ UNCHANGED active
    /\ UNCHANGED <<busVars, home, chanVars, published, inbox, owed, callVars>>

\* The router that failed leaves the map; its routes stay.
Forget(s) ==
    /\ busHolder = None /\ Goes(s, "failing", "failed")
    /\ routers' = [routers EXCEPT ![Server[s]] = None]
    /\ UNCHANGED <<busHolder, routes, home, chanVars, natsVars, callVars>>

----------------------------------------------------------------------------
\* Closing.

\* Mutant of Cancel: the channel is closed before the subscription leaves its router.
CancelAndClose(s) ==
    /\ Goes(s, "open", "cancelled")
    /\ msgClosed' = [msgClosed EXCEPT ![s] = TRUE]
    /\ UNCHANGED <<busVars, home, msgChan, got, panicked, natsVars, callVars>>

Cancel(s) ==
    /\ Goes(s, "open", "cancelled")
    /\ UNCHANGED <<busVars, home, chanVars, natsVars, callVars>>

\* Close of a direct subscription: Unsubscribe; a callback may be under way.
Unsubscribe(s) ==
    /\ s \in Direct /\ Goes(s, "cancelled", "removed")
    /\ active' = active \ {s}
    /\ UNCHANGED <<busVars, home, chanVars, published, inbox, owed, callVars>>

\* unsubscribeRouter takes n.mu, and then waits for r.mu in r.close.
UnsubscribeRouter(s) ==
    /\ s \notin Direct /\ busHolder = None /\ Goes(s, "cancelled", "removing")
    /\ busHolder' = s
    /\ UNCHANGED <<routers, routes, home, chanVars, natsVars, callVars>>

\* Mutant of Without: all routes of its channel go with a subscription.
WithoutChannel(q, s) == << >>

\* slices.Delete of the one place where s is.
Without(q, s) ==
    LET i == CHOOSE i \in DOMAIN q : q[i] = s IN
    [j \in 1..Len(q) - 1 |-> q[IF j < i THEN j ELSE j + 1]]

NoRoutes(lists) == \A l \in LocalParts : lists[l] = << >>

\* Mutant of LeaveRouter: the router leaves the map with every subscription.
LeaveRouterEmptied(s) ==
    LET r == home[s] IN
    /\ Goes(s, "removing", "removed") /\ ~locked[r]
    /\ routes' = [routes EXCEPT ![r][Local[s]] = Without(@, s)]
    /\ active' = IF NoRoutes(routes'[r]) THEN active \ {r} ELSE active
    /\ routers' = [routers EXCEPT ![Server[s]] = None]
    /\ busHolder' = None
    /\ UNCHANGED <<home, chanVars, published, inbox, owed, callVars>>

\* r.close: the last route takes the NATS subscription and the router with it.
LeaveRouter(s) ==
    LET r == home[s] IN
    /\ Goes(s, "removing", "removed") /\ ~locked[r]
    /\ routes' = [routes EXCEPT ![r][Local[s]] = Without(@, s)]
    /\ IF NoRoutes(routes'[r])
       THEN active' = active \ {r} /\ routers' = [routers EXCEPT ![Server[r]] = None]
       ELSE UNCHANGED <<active, routers>>
    /\ busHolder' = None
    /\ UNCHANGED <<home, chanVars, published, inbox, owed, callVars>>

CloseChan(s) ==
    /\ Goes(s, "removed", "closed")
    /\ msgClosed' = [msgClosed EXCEPT ![s] = TRUE]
    /\ UNCHANGED <<busVars, home, msgChan, got, panicked, natsVars, callVars>>

\* read, by the goroutine of newSubscription.
Read(s) ==
    /\ msgChan[s] # << >>
    /\ got' = [got EXCEPT ![s] = Append(@, Head(msgChan[s]))]
    /\ msgChan' = [msgChan EXCEPT ![s] = Tail(@)]
    /\ UNCHANGED <<busVars, subVars, msgClosed, panicked, natsVars, callVars>>

----------------------------------------------------------------------------
\* Messages.

IsQueue(x) == x \in Queue

\* Those that a message reaches: the plain ones, and one of the queue group,
\* which may be another process's.
Reached(m) ==
    LET on == {x \in active : Server[x] = Server[m]}
        plain == {x \in on : ~IsQueue(x)} IN
    {plain} \cup {plain \cup {x} : x \in {x \in on : IsQueue(x)}}

\* What m is for, now: open, with a subscription that is active.
Audience(m) ==
    {s \in Subscribers \ Queue :
        /\ spc[s] = "open" /\ Server[s] = Server[m] /\ Local[s] \in {None, Local[m]}
        /\ (IF s \in Direct THEN s ELSE home[s]) \in active}

Publish(m) ==
    /\ m \notin published
    /\ published' = published \cup {m}
    /\ owed' = [owed EXCEPT ![m] = Audience(m)]
    /\ \E to \in Reached(m) :
          inbox' = [x \in Subscribers |-> IF x \in to THEN Append(inbox[x], m) ELSE inbox[x]]
    /\ UNCHANGED <<busVars, subVars, chanVars, active, callVars>>

\* nats.go takes the next message of x and calls write.
Deliver(x) ==
    /\ x \in active /\ inbox[x] # << >> /\ calling[x] = None
    /\ calling' = [calling EXCEPT ![x] = Head(inbox[x])]
    /\ inbox' = [inbox EXCEPT ![x] = Tail(@)]
    /\ todo' = [todo EXCEPT ![x] = IF x \in Direct THEN <<x>> ELSE << >>]
    /\ UNCHANGED <<busVars, subVars, chanVars, published, active, owed, locked>>

\* The router's write: under its mutex, the routes of the message's channel.
Route(r) ==
    /\ calling[r] # None /\ r \notin Direct /\ ~locked[r]
    /\ locked' = [locked EXCEPT ![r] = TRUE]
    /\ todo' = [todo EXCEPT ![r] = routes[r][Local[calling[r]]]]
    /\ UNCHANGED <<busVars, subVars, chanVars, natsVars, calling>>

\* Mutant of Skips: write does not watch the context.
NeverSkips(s) == FALSE

\* ctx.Done
Skips(s) == spc[s] \in {"cancelled", "removing", "removed", "closed"}

\* A subscription's write: there is room, or it was cancelled; when both hold,
\* either may happen.
Write(x) ==
    LET s == Head(todo[x]) IN
    /\ calling[x] # None /\ todo[x] # << >>
    /\ \/ Skips(s) /\ UNCHANGED <<msgChan, panicked>>
       \/ /\ msgClosed[s]
          /\ panicked' = s
          /\ UNCHANGED msgChan
       \/ /\ ~msgClosed[s] /\ Len(msgChan[s]) < Size
          /\ msgChan' = [msgChan EXCEPT ![s] = Append(@, calling[x])]
          /\ UNCHANGED panicked
    /\ todo' = [todo EXCEPT ![x] = Tail(@)]
    /\ UNCHANGED <<busVars, subVars, msgClosed, got, natsVars, calling, locked>>

Return(x) ==
    /\ calling[x] # None /\ todo[x] = << >> /\ (x \in Direct \/ locked[x])
    /\ calling' = [calling EXCEPT ![x] = None]
    /\ locked' = [locked EXCEPT ![x] = FALSE]
    /\ UNCHANGED <<busVars, subVars, chanVars, natsVars, todo>>

----------------------------------------------------------------------------
SubscribeNext(s) ==
    Subscribe(s) \/ FindRouter(s) \/ Open(s) \/ SubscribeRouter(s) \/ Forget(s)

CloseNext(s) ==
    \/ Unsubscribe(s) \/ UnsubscribeRouter(s) \/ LeaveRouter(s) \/ CloseChan(s)

CallbackNext(x) == Deliver(x) \/ Route(x) \/ Write(x) \/ Return(x)

\* What goroutines do of themselves, if consumers read as long as they are subscribed.
Progress ==
    \E s \in Subscribers :
        \/ spc[s] # "new" /\ SubscribeNext(s)
        \/ CloseNext(s)
        \/ CallbackNext(s)
        \/ spc[s] = "open" /\ Read(s)

Next ==
    \/ Progress
    \/ \E s \in Subscribers : SubscribeNext(s) \/ Cancel(s) \/ Read(s)
    \/ \E m \in Messages : Publish(m)

Spec == Init /\ [][panicked = None /\ Next]_vars

----------------------------------------------------------------------------
\* Properties.

TypeOK ==
    /\ busHolder \in Subscribers \cup {None}
    /\ routers \in [ServerParts -> Routers \cup {None}]
    /\ routes \in [Routers -> [LocalParts -> Seq(Subscribers)]]
    /\ spc \in [Subscribers -> {"new", "opening", "subscribing", "open", "failing", "failed",
                                "cancelled", "removing", "removed", "closed"}]
    /\ home \in [Subscribers -> Routers \cup {None}]
    /\ \A f \in {msgChan, got, inbox} : f \in [Subscribers -> Seq(Messages)]
    /\ \A s \in Subscribers : Len(msgChan[s]) <= Size
    /\ msgClosed \in [Subscribers -> BOOLEAN] /\ locked \in [Subscribers -> BOOLEAN]
    /\ published \subseteq Messages /\ active \subseteq Subscribers
    /\ calling \in [Subscribers -> Messages \cup {None}]
    /\ todo \in [Subscribers -> Seq(Subscribers)]
    /\ owed \in [Messages -> SUBSET Subscribers]
    /\ panicked \in Subscribers \cup {None}

Elements(q) == {q[i] : i \in DOMAIN q}

\* Its router is not subscribed.
Deaf(s) == s \notin Direct /\ spc[s] = "open" /\ home[s] \notin active

\* One NATS subscription per Server part serves all routed subscribers, or each
\* message would reach them more than once: a router that is subscribed is the
\* one in the map, an open subscriber is on its router's list, once, and only the
\* subscribers that joined a router whose subscription failed, or is still being
\* made, have one that is not subscribed.
RoutersAgree ==
    /\ TypeOK
    /\ \A r \in active \ Direct : routers[Server[r]] = r
    /\ \A s \in Subscribers \ Direct :
          spc[s] \in {"open", "cancelled"} =>
              LET list == routes[home[s]][Local[s]] IN
              /\ s \in Elements(list)
              /\ \A i, j \in DOMAIN list : list[i] = s /\ list[j] = s => i = j
    /\ \A s \in Subscribers : Deaf(s) => spc[home[s]] \in {"subscribing", "failing", "failed"}

\* The channel of a routed subscription is closed only after the router's mutex
\* took it off the list: a callback never sends on it.  A direct one has no such
\* lock: its callback can panic if it comes to its select after the Close.
RoutedNeverPanics == panicked # None => panicked \in Direct

OnItsWay(m, s) ==
    LET x == IF s \in Direct THEN s ELSE home[s] IN
    \/ m \in Elements(inbox[x]) \cup Elements(msgChan[s]) \cup Elements(got[s])
    \/ calling[x] = m /\ (s \in Elements(todo[x]) \/ (x \notin Direct /\ ~locked[x]))

\* A message reaches, once, every subscriber that was open and subscribed when it
\* was published and still is, whatever joins or leaves its router meanwhile.
Delivered ==
    /\ \A m \in published, s \in Subscribers :
          s \in owed[m] /\ spc[s] = "open" => OnItsWay(m, s)
    /\ \A s \in Subscribers :
          \A i, j \in DOMAIN got[s] : got[s][i] = got[s][j] => i = j

\* A goroutine can go on: the guards of the steps of Progress.
CanGoOn ==
    \E s \in Subscribers :
        \/ spc[s] \in {"opening", "removing"} /\ ~locked[home[s]]
        \/ spc[s] \in {"subscribing", "removed"}
        \/ spc[s] = "failing" /\ busHolder = None
        \/ spc[s] = "cancelled" /\ (s \in Direct \/ busHolder = None)
        \/ s \in active /\ inbox[s] # << >> /\ calling[s] = None
        \/ calling[s] # None /\ s \notin Direct /\ ~locked[s]
        \/ calling[s] # None /\ todo[s] = << >> /\ (s \in Direct \/ locked[s])
        \/ /\ calling[s] # None /\ todo[s] # << >>
           /\ LET n == Head(todo[s]) IN
              Skips(n) \/ msgClosed[n] \/ Len(msgChan[n]) < Size
        \/ spc[s] = "open" /\ msgChan[s] # << >>

\* Close waits for the router's mutex holding the bus's, while a callback holds
\* the router's and waits for room or for a cancellation: still, when no goroutine
\* can go on, and no consumer has anything left to read, no lock is held, each
\* Close and each Subscribe has returned and every queued message was delivered.
AtRest ==
    panicked = None /\ ~CanGoOn =>
        /\ busHolder = None
        /\ \A s \in Subscribers : spc[s] \in {"new", "open", "failed", "closed"}
        /\ \A x \in Subscribers : calling[x] = None /\ ~locked[x]
        /\ \A x \in active : inbox[x] = << >>

\* The goroutines of the code come to rest with all done (AtRest), and the guards it is
\* stated with are those of the steps: where one holds, a goroutine can take a step.
RestsWhenDone == AtRest /\ (CanGoOn => ENABLED Progress)
=============================================================================
