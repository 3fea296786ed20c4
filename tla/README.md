# A verification project for psrpc

psrpc is an RPC library over a publish/subscribe bus. Clients and servers know
only channel names; a request reaches every server subscribed to the method, the
servers that can take it claim it, the client picks one, and the one picked runs
it. This directory holds TLA+ models of that protocol and of the concurrent
objects under it, the TLC configurations that check them, and proofs of the main
results.

Run TLC on an `MC*.tla` module with one of its `.cfg` files, and `tlapm` on the modules
`*_proofs.tla`.

## 1. Inventory of the system

| Component | Code | State it keeps | Operations | What is hard |
|---|---|---|---|---|
| Single calls, client | `pkg/client/rpc.go`, `client.go` | claim and response channels per request ID, the closed fuse | RequestSingle, newRPC, selectServer, the dispatcher goroutine, Close | one dispatcher for all calls, channels used after the lock is released, timers against late messages, a Publish and a Close that wait for the bus |
| Single calls, server | `pkg/server/rpc.go` | claims awaiting an answer, the `handling` WaitGroup, `closeOnce`, `complete` | newRPCHandler, run, handleRequest, claimRequest, sendResponse, close | expiry against claim response; a close against requests in flight |
| Server | `pkg/server/server.go`, `registration.go` | handlers by key, the `active` WaitGroup, the shutdown fuse | RegisterHandler, RegisterStreamHandler, DeregisterHandler, Close | check-then-act on the map, WaitGroup order |
| Streams | `internal/stream/stream.go`, `pkg/client/stream.go`, `pkg/server/stream.go` | acks, pending, closed and err, recvChan, per end | OpenStream, HandleStream, Send, Recv, Ack, Close, handleOpenRequest | two ends closing at once, acknowledgements handled by the goroutine that closes |
| Local bus | `internal/bus/bus_local.go`, `subscription.go` | lists of subscriptions by channel, round-robin position, two buffers per subscription | Publish, subscribe, dispatch, Close, the forwarding goroutine | two locks in order, blocking writes under a lock, stale lists |
| Redis bus | `internal/bus/bus_redis.go` | lists, publish queues per channel, dirty and current channels | Publish, subscribe, unsubscribe, read and write workers, reconciliation, payload lock | hand-off of the publish queue, retries, writes under the bus's mutex to readers that may need it |
| NATS bus | `internal/bus/bus_nats.go` | routers per server channel, routes per local channel | subscribe, subscribeRouter, unsubscribeRouter, write, Close | a shared router whose subscription may fail; callbacks against Close; two mutexes |
| Multi calls | `pkg/client/multi.go`, `client.go` | one response channel per call, the caller's channel | NewRPCClient, RequestMulti, handleResponses, Recv, Close | a consumer that stops reading, behind a dispatcher that everybody shares |
| Client subscriptions | `pkg/client/subscription.go` | none of its own | Join, JoinQueue | - |
| Middleware, interceptors | `pkg/middleware`, `internal/interceptors` | attempts and timeouts; the chain's position; counters | retry, chaining, metrics, recovery | repetition of what was already done; an interceptor that repeats, refuses or panics |
| Names | `pkg/info` | none | GetRPCChannel and its siblings, GetHandlerKey | two registrations whose names collide on one bus and not on another |
| Errors | `errors.go` | none | the translations of codes, NewError | an error that changes on its way |
| Serialization, options, metadata, generator, test buses | `internal/bus/serialization.go`, `pkg/metadata`, `protoc-gen-psrpc`, `testutils` | none that changes over time | - | - |

Interaction. A call publishes on the method's channel and reads what the client's
dispatcher puts into its own channels. The dispatcher reads the client's three
subscriptions. A server's handler has one run loop, which reads requests and claim
responses; every request gets a goroutine, which waits for its claim on a channel
the loop writes. All four kinds of message travel over one of the three buses,
none of which promises an order between channels.

Correctness, per component:

- single calls: one server at most runs an exclusive call; a refused call never
  runs; the best claim wins; nobody is blocked for good by one call; a call returns,
  but for one that waits in Publish for a bus that waits for the client;
- server: what a graceful close promises to the requests that had begun, no handler
  is lost, Close returns;
- streams: recvChan is never misused, Send's nil means received, both ends end up
  closed with one cause;
- buses: a message reaches whom it should, nothing panics, nobody blocks for ever, but
  where a reader of the bus needs the lock that is held to write to it;
- the client's dispatcher: what it looked up is handed on in order, and what is left
  behind by a call or a stream blocks no other;
- the way of one call: it reaches the handler it names and no other, the interceptors
  are around it, the caller is told what the service returned.

## 2. The modules

| Module | Models | Checked by | Proved by |
|---|---|---|---|
| `AtMostOnce` | what an exclusive call promises: abstract specification | as a property of `UnaryRpc` | |
| `UnaryRpc` | single calls: client, dispatcher, servers | `MCUnaryRpc` | `UnaryRpc_proofs` |
| `ClientDispatch` | one client from NewRPCClient to Close: its dispatcher among multi-calls and streams | `MCClientDispatch` | `ClientDispatch_proofs` |
| `ServerLifecycle` | registration, requests or streams in flight, deregistration, shutdown | `MCServerLifecycle` | `ServerLifecycle_proofs` |
| `Stream` | one stream and its two ends | `MCStream` | `Stream_proofs` |
| `LocalBus` | the in-process bus, one channel name | `MCLocalBus` | `LocalBus_proofs` |
| `RedisBus` | the redis bus of one process | `MCRedisBus` | `RedisBus_proofs` |
| `NatsBus` | the NATS bus of one process | `MCNatsBus` | `NatsBus_proofs` |
| `Names`, `Errors` | channel names and handler keys; error codes and their translations | in `CallPath` | |
| `CallPath` | one call through both chains of interceptors and over the bus | `MCCallPath` | `CallPath_proofs` |

How they fit. `LocalBus`, `RedisBus` and `NatsBus` are the three buses in detail. The other
modules take the bus as what all three grant: a set of undelivered messages, in any
order. `UnaryRpc` has the protocol of one call with its claims; `ClientDispatch` what the
dispatcher of the same client does for the other two kinds of call; `ServerLifecycle` the
server around it; `CallPath` the sequential layers above it, EXTENDing `Names` and
`Errors`. An operator whose comment begins with "Mutant of" is a wrong variant of the
operator named, with a bug one could make in that code. No next-state relation uses it;
the properties are tested by putting it in the place of the right one.

### UnaryRpc

A call is named by its request ID. `pc` follows newRPC: `idle`, `calling` (in the Publish
of the request), `select` (in selectServer), `choosing` (in the Publish of the claim
response), `wait` (the last select of newRPC), `cleanup` (the deferred delete is
still to come), `done`. `spc[s][r]` follows handleRequest for request r in server s:
`running`, `awaiting` (published its claim, waits), `handling` (the handler was
called), and the ways it ends. `disp` is the message that the dispatcher has looked up
and is about to send on the call's channel, so that the lookup under the lock and the
send after it are two steps, and a full channel blocks it. Once it has left its loop it is `Closing(i)`: the i-th of its
subscriptions is cancelled and waits to be unsubscribed.

The client needs the bus to publish and to close, and the bus may need the client: on redis
a write to a subscription waits for room in it with the bus's mutex held. For the
subscriptions of `Locking` the bus may find one full that is not cancelled (`Overflow`);
from then on it is `writing`, and lets nobody publish or close, until the dispatcher reads
that subscription (`DispatchClaim`, `DispatchResponse`, or `Read` for a message of nobody's)
or cancels it (`Cancel`). On NATS a client's subscriptions are direct and no lock is held,
and on the local bus it is the lock of that one subscription's list, which a client's other
steps do not need: there `Locking` is empty.

| Action | Code |
|---|---|
| Call, CallClosed | RequestSingle, newRPC up to the Publish of the request |
| Publish, PublishChoice | the two Publishes of newRPC, which no deadline and no cancellation ends |
| SelectClaim, SelectResponse, SelectEnds | the three cases of selectServer's select; with Choose, what it returns |
| AwaitResponse, AwaitEnds, Unregister | the last select of newRPC and its deferred delete |
| DispatchClaim, DispatchResponse, HandOver, Read | the loop of the dispatcher goroutine |
| Close, Stop, CloseNext | RPCClient.Close; the dispatcher leaves its loop and closes its three subscriptions one after another |
| Overflow | readWorker comes to write to a full subscription of the client (external to this module) |
| ReceiveRequest, ReceiveGrant | the run loop of the server |
| Reject, Claim, TakeGrant, ClaimExpires, Handle, Respond | handleRequest, claimRequest, sendResponse |

Abstractions. Time: a timer or a deadline may fire whenever the code waits for it, which
covers clock skew and slow machines. Payloads: a reply that cannot be deserialized is one
of the errors; a request that cannot be serialized does nothing before it returns and is
left out. Publish may fail, having reached the bus or not. What keeps the bus is a
subscription of this client: how long other clients and the servers of the process keep it
is not modelled, and it is taken to let the client through in the end. It does not
always: `redis` has the other readers of the process (`Stuck`), `local_bus_spin` a Publish
that spins, and on the local bus a Publish also waits for room at the servers' loops. A
SelectionFunc picks one of the claims it is given or fails. The bus of this module never duplicates a message:
publishing is a union with a set, each server gets a request once and each bus
of the repository delivers what it read once.

### LocalBus

`slots`, `subCount`, `next` are the fields of localSubList, `current` is the map's entry
for the channel. The bus's lock is held between the two halves of subscribe and of
onUnsubscribe (`busHolder`), the list's by a publisher for the whole of its dispatch
(`listHolder`, `readers`); a waiting writer keeps new readers out, as in Go's RWMutex. The
forwarding goroutine of newSubscription is `Forward`, `held` is what it has read
and not yet sent on. One list is modelled at a time, broadcast or queue by the
choice of `queue`: Publish dispatches to the one and then to the other and
the two share only the bus's lock.

### ServerLifecycle

Each RegisterHandler call names the handler it creates; `reg` follows it through the
shutdown check, the look-up, newRPCHandler, `active.Add`, the insertion and run.
`hpc` follows the handler's closeOnce. `spawned` are the requests whose goroutine has
not reached `handling.Add`. `streaming`, chosen at the start, says that the handlers are
those of streams: they are registered by the same steps (RegisterStreamHandler), a request
is an Open, `spawned` are those let in whose stream is not yet in the map, `handling` the
streams of the map and `ending` those whose Close has begun. A stream handler's close sets
the draining flag, reads the map, closes and awaits what it found (`DrainStreams`), and
only then leaves the bus. Two external objects are modelled from how they are used:
sync.WaitGroup, which is woken at zero and panics if it then finds the counter
raised again, and core.Fuse, whose Once breaks the fuse before or after it runs its
function: the module allows either (`broken' \in BOOLEAN` in `Close`).

### Stream

Two ends, each with the fields of streamBase and its one goroutine that calls
HandleStream (`hand` is the message it is handling and how far it is). Close is split at
pending.Wait (`StartClose`, `EndClose`); the peer's close (`HandleClose`) has no wait. The
bus is `reliable` or not, chosen at the start: a reliable one delivers everything in any
order, the other may lose anything and fail to publish. The choice of the server by claims
is that of UnaryRpc. `observed` is the metrics interceptor's closed flag, as seen by its observer:
a Close goes through the interceptors before the stream looks whether it is the first, the
peer's close goes around them.

### RedisBus

One process. Its mutex `r.mu` is held across steps by readWorker only, while it writes a
message to its subscribers (`reading`); every other critical section is one action,
guarded by `Unlocked`. `ops`, `wakeup` and `worker` are the write worker and its queue;
`worker` also has the locals of a reconciliation, whose comparison is under the
mutex (`Reconciliation`, `Merge`) and whose commands are not (`SubscribeInRedis`,
`UnsubscribeInRedis`). A channel's publish queue is named by the message that made it:
`publishOps[c]` is the map's entry, `queued[q]` what the queue holds, `exec[q]` the
goroutine that empties it. An entry is given up only when its queue is empty with
the mutex held (`Check`), which is what `InOrder` and `RestsWhenDone` are about. Two
histories say what went in and out: `accepted[c]` is what Publish took for channel c and
`sent[c]` what redis was given.

Who reads matters, as a full buffer keeps the mutex. `Reader[s]` is the goroutine that
reads s, often with other subscriptions: a client's dispatcher, a handler's loop. One
goroutine subscribes them one after another and only then does the reader begin
(`AllMade`). Between two reads it may publish an answer (`Author`, `Busy`), as the goroutine
of a stream does with its acks. A handler's subscriptions are closed by another
goroutine, while its loop reads on. A reader of `Leavers` is like a client's dispatcher:
it closes its subscriptions itself, in any order but each Close after the one before has
returned, and reads none of them any more (`Reads`, `Cancel`).

| Action | Code |
|---|---|
| Publish, EnqueueExec | Publish, enqueueWriteOp |
| Subscribe, Cancel, Unsubscribe, Consume | subscribe, the two halves of Close, read and the reader behind it |
| Wake, Drain | writeWorker, drain |
| Reconciliation, SubscribeInRedis, UnsubscribeInRedis, Merge | redisReconcileSubscriptionsOp.run |
| Check, Send, Drained | redisExecPublishOp.exec, drain, redisPublishOp.run |
| Receive, Write | readWorker, dispatch, dispatchQueue, write |
| Deliver | another process publishes (external) |

Redis is external: it takes commands one at a time and sends the process, in one order,
what is published on the channels it is subscribed to. A command that reports an error may
have taken effect. The lock that keeps a queued message to one process is left out: a
consumer of a queue may drop any message.

### NatsBus

A router, and a NATS subscription, is named by the subscriber that made it. `routers` is
the bus's map, `routes[r][l]` the list of router r for the Local part l, `home` is
sub.router. The bus's mutex is held across steps only while its holder waits for a
router's (`busHolder`), a router's only by its callback (`locked`), which writes to the
subscriptions in `todo` one at a time.

| Action | Code |
|---|---|
| Subscribe | subscribe, without a Local part |
| FindRouter, Open, SubscribeRouter, Forget | subscribeRouter: the map, r.open, the subscription to NATS, and the removal of a router whose subscription failed |
| Cancel, UnsubscribeRouter, LeaveRouter, CloseChan | natsRouterSubscription.Close, unsubscribeRouter, natsRouter.close |
| Unsubscribe | natsSubscription.Close, of a direct one |
| Deliver, Route, Write, Return | nats.go's callback (external), natsRouter.write, the select of write |
| Read | read |

### ClientDispatch

`disp` is the message the dispatcher looked up and is about to send, as in `UnaryRpc`.
`channel[c]` is the channel in responseChannels or streamChannels, `resChan[c]` the one
RequestMulti returns, `hand[c]` what handleResponses has between the two. `accepted`
and `got` are histories at either end of that path. The caller may stop reading
(`Abandon`). Of a stream only its place behind the dispatcher is here: the entry,
runClientStream reading, acknowledging, leaving its loop when the stream's context or the
client ended, and the Close, of that goroutine (`EndStream`) or of another (`CloseEnds`),
whose end removes the entry.

`client` has the stages of NewRPCClient and of the dispatcher: a subscription that fails
leaves it `failing`, Close brings it to `closing`, and in both the subscriptions go one by
one (`CloseNext`). The bus may hold its lock for a full one of them (`writing`, `Overflow`),
as in `UnaryRpc`: then no subscription is made or removed and nothing is published, be it a
request, a stream's Open, its acknowledgement or its close.

### Names, Errors and CallPath

`Names` and `Errors` are the pure functions of `pkg/info` and `errors.go`: a name is the
sequence of its parts and delimiters, as the sanitizing of parts is one to one and leaves
no delimiter in them; a code is its string. `CallPath` follows one call: `level` is the
client interceptor in control, `frames` are the active ones of the server with `next` the
position that the chain's closures share, `answer` and `result` what comes up either
chain. An interceptor of the server is one of metrics, recover, refuse, and again, which
calls its next a second time after an error. Every attempt draws its own ending: a
response, lost or unreadable or in time; a timeout; a Publish that fails. Only the last
attempt's server is followed, as the response of an earlier one finds no entry.

## 3. The runs

| Run | Instance | What it shows |
|---|---|---|
| `unary` | 6 calls that differ in method and SelectionOpts, 2 servers, buffers of 1, affinities -1..2; each call alone, and the queued and the unclaimed call together | safety of the claim protocol, and the refinement of `AtMostOnce` |
| `unary_live` | three of these calls, each alone, affinities 1 and 2; the bus may lock for the claims and the responses | every call returns and a closed dispatcher ends, or the exception named holds |
| `client` | one multi-call with 4 responses and one stream with 2 messages, buffers of 1; the bus may lock for any of the three subscriptions | order through the dispatcher, the observer's counts, what is left behind |
| `server` | 2 registrations of one key, of calls or of streams, a graceful and a forced Close, one DeregisterHandler, one request or Open | safety of shutdown, and Close returns |
| `shutdown_waits` | 2 registrations, 1 graceful Close, 1 request | violation: a request handled after the Close |
| `stream` | one message from each end, one of them malformed, recvChan of 1 | the close protocol, Send, both ends closed, each close observed once |
| `local_bus` | 3 subscribers and one publisher of 2 messages; 2 subscribers and two publishers of 1; 1 subscriber and two publishers of 2; buffers of 1 | the lists, delivery, rest when all is done |
| `local_bus_spin` | 1 publisher, 2 subscribers | violation: a dispatch that never ends |
| `redis` | 2 channels, 2 goroutines that publish, an answer, a message of another process, 3 subscribers (a queue that a handler's loop reads and answers; two that one dispatcher makes, reads and closes, on a channel each), 1 failing command, buffers of 1 | order per channel, no work forgotten, subscriptions reconciled, rest when all is done |
| `redis_resubscribe` | 1 channel, 2 subscribers, 1 message, 1 failing command | violation: a subscriber that redis is never told of |
| `nats` | one Server part, 5 subscribers (two on one Local part, one on another, one of the queue, one direct) of which 3 take part, or 2 with the direct one; 2 messages, buffers of 1, subscriptions to NATS that fail | routers and lists agree, delivery, no panic, rest when all is done |
| `call_path` | every pair of 2 methods with 8 topics that could be confused, on the buses with one name and with two; 3 chains of the client with 6 of the server; errors of every code | the right handler, the chain, what the caller is told, retries end |

Bounds. In `unary`, two servers are enough for a claim to be lost to a rival and for two
answers to one call; with a buffer of 1 two claims overrun it, which is what
BlocksOnlyIfOverrun is about. `OneMix` keeps a behaviour to one call, or to the two
cheapest, which share the dispatcher: calls share nothing else. Affinities -1..2 have a
refusal, the unavailable 0, one below and one at the maximum of the `range` call. The
servers are symmetric, as nothing orders them. In `unary_live` only claims and
responses lock: a third subscription adds no other way to wait. In `client`, four responses are one in each
of the caller's channel, handleResponses' hand, the call's channel and the dispatcher's
hands, so that the dispatcher does get stuck; two messages of a stream fill its channel
and the dispatcher's hands. In `server`, two handlers of one key are the
case that races; one request shows both sides of every drain, because requests only meet
in the counter. In `stream`, both messages and both closes already meet in one
goroutine per end; a second message of one end adds no new pair of steps. In `local_bus`
the third subscriber makes a slot be reused while another is held; `Crowd` bounds how many
of both kinds take part. In `redis`, `Crowd` keeps a behaviour to four of messages,
subscribers and failures together, or five without a second subscriber or a failure:
two messages make a hand-off of the publish queue, four are needed to fill a buffer behind
a reader that publishes, two are enough to fill one of two behind a reader that subscribes or
closes the other, and two subscribers with a failure are needed for every race of
the reconciliation. In `nats`, three subscribers make a router that loses one of two routes
of a channel, or one of two channels, while its maker still waits for NATS. In
`call_path`, the topics have empty parts, a part that reads like a queue's or a request's
name, and each other's prefixes; `Bound` is above the product of the retries.
Publishers, subscribers and messages are symmetric where nothing orders them.

Deadlock checking is off in every run: a behaviour ends when the calls have returned, the
messages are published, or everything is closed.

Liveness, in two forms. Where a protocol has cycles or a fair scheduler is needed it is a
temporal property: `CallReturns`, `CloseCompletes`, `CloseReturns`, `ClosesAndSendsReturn`,
`PeerLearns`, `CloseIsObserved`, `RetriesEnd`. Their fairness is what the Go runtime, the
timers and the locks give: goroutines that can step do, timers fire, a handler returns
since its context ends. In `unary_live` the bus may lock and be freed again and again, so
a Publish and the dispatcher's leaving and closing have strong fairness: a Go mutex that
has been waited for a millisecond is handed over to who waits, and a select chooses at
random among the cases it finds ready. Nobody is made to call, to subscribe or to close, and
no fairness is asked of what the bus delivers or of the servers there; `stream` asks delivery only of the
reliable bus. In `LocalBus`, `RedisBus`, `NatsBus` and `ClientDispatch` every step uses
something up (a message, a subscriber's life, a failure), but for the scan of an empty
list that `local_bus_spin` shows. Such a system left alone comes to rest, so `RestsWhenDone`
says of each state in which no goroutine can go on that all is done: this is an invariant,
and it needs no fairness. `Progress` (`Moving` in `RedisBus`) are the steps nobody has to ask for; it has a consumer
read as long as its subscription is open, the contract of Channel(), and no longer. On
`redis` the readers are those of this repository, which stop reading while they subscribe,
publish or close, and these are steps like any other. The invariant is in two parts. `AtRest` says it with `~CanGoOn`, where `CanGoOn` lists the guards
of `Progress`, and is proved; `CanGoOn => ENABLED Progress` says that the list has nothing
more than the guards, so that `AtRest` is about every state without a step, and is checked.

The exceptions are named, and the runs reach each:

- `Stuck` of `RedisBus`: readWorker holds the mutex until there is room in a buffer whose
  reader waits for the mutex, in the Publish of an answer, the Subscribe of another of its
  subscriptions, or the Close of another.
- `Wedged` of `UnaryRpc` and of `ClientDispatch`: the same from the client's side. The bus
  is locked for a subscription that is not read, since the client is making or closing
  another, or since the dispatcher waits for room in a channel whose goroutine does not read
  (for a call: it is itself waiting for the bus, or has ended).
- `Stuck` of `UnaryRpc` and `Stuck(t)` of `ClientDispatch`: the dispatcher before a
  channel that nobody reads any more.

`Stream` and `ServerLifecycle` have temporal properties, and beside them an `AtRest` with a
`CanGoOn` that lists the guards of the steps that are fair (and of DeregisterHandler's
return, which waits for a close like the server's Close). It is the part of them that a safety
theorem can say: that no state without a step has a Close, a Send or an end still waiting
(section 4). That the steps are finitely many where it matters, and that fairness gets
through the cycles, is what the temporal properties add, and only the runs show.

## 4. What is proved

Each module's theorems are about every value of its constants that its assumption allows,
and but for those named at the end of this section, one states each safety invariant that
a run checks. Of the four invariants `RestsWhenDone` it is `AtRest` that is proved, as
`ComesToRest`: that no lock, buffer or token ever holds everybody up. `Stream` and
`ServerLifecycle` have an `AtRest` too, which is proved and checked by no run. None of these
invariants is inductive as it stands; each follows from a strengthening. The proofs need few facts about data: what appending to a sequence,
taking its head and deleting one element do to the set of its elements, which each module
states as lemmas. Recursion does not occur in them.

### Single calls

For any set of calls, any finite set of servers, any affinities and buffer size, from
`UnaryRpcAssumption` alone:

- `TypeCorrect`: `Spec => []TypeOK`;
- `Inductive`: `Spec => [](TypeOK /\ Invariants)`;
- `ExecutedOnce`: `Spec => []OneExecutor`;
- `RefusedNeverRuns`: `Spec => []UnselectedNeverRuns`;
- `MessagesTrue`: `Spec => []Messages`;
- `BestClaimChosen`: `Spec => []BestClaimWins`;
- `MalformedWhileSelecting`: `Spec => []OnlyMalformedWhileSelecting`;
- `BlockedByOverrun`: `Spec => []BlocksOnlyIfOverrun`;
- `Refinement`: `Spec => ImplementsAtMostOnce`.

The argument. OneExecutor is not inductive: nothing in it says why a second server cannot
take a grant. `Invariants` says it. `Progress`: newRPC has a result exactly when it has
returned. `ChosenOnce`: the server is chosen as the selection ends and never again, and a
refused call has chosen none. `GrantsAgree`: every claim response, on the bus or handed
over, names the server chosen. So (`ChosenRuns`) only that server runs a claimed
call, and a refused call, which chose none, has no server that could. `OneReached`: a
queued request reaches one server, and none before it is published. Each part is
preserved by the client's, the dispatcher's and the servers' steps in one lemma each.

`Messages` is about what is on its way: on the bus, in the dispatcher's hands, or in the
call's channel. A server sees a request once (`DeliveredOnce`), so its claim of a call
exists once (`ClaimsTrue`), and so does its answer, which it gave after a rejection or
after the handler returned (`ResponsesTrue`). Then the claims that fill a claimChan are of
different servers, and a dispatcher that finds no room counts more claims than ChannelSize
(`BlockedByOverrun`, the only place that needs Servers to be finite); a response that is
read before anybody was chosen can only be a rejection; and the answer that `GrantOnce`
promises to be the first never finds the server's channel full. `SelectionTrue` says that
selectServer's candidate has the highest score of the claims read.

The refinement uses `Messages` too: a reply was sent by a handler that returned, and a
server does not take up again a request it has answered, so that answered requests stay
answered. Under the mapping (the status of a call from `result`, the executor from `spc`),
returning is Reply, Fail or Refuse, calling the handler is Start, its return is Finish, and
all else stutters.

### Streams

For any finite set of messages on either end, any buffer, a bus that is reliable or not
(`StreamAssumption`):

- `NeverPanics`: `Spec => []RecvChanClosedOnce`;
- `NothingPending`: `Spec => []NothingPendingAfterClose`;
- `SentIsReceived`: `Spec => []SentWasReceivedOrAbandoned`;
- `CauseShared`: `Spec => []CauseIsShared`;
- `ClosesAreComing`: `Spec => []Ways`;
- `ComesToRest`: `Spec => []AtRest`.

The argument. The order in which the code closes things is what keeps a write off a closed
channel, so `PendingCounts` says what pending is: the number of Sends that wait, and one
for the message that the end's goroutine has on its way into recvChan. Then a Wait that
saw zero leaves nobody to write (`CloseInOrder`: closed is set first, recvChan is closed
last and with nothing in hand, once). `IdsMatch` ties an acknowledgement to its Send by
the ID of the message. `Told` is about what is on its way: a close message has the cause
of the end that sent it, an acknowledgement is of a message its sender did receive, and
the context of a stream that is open is cancelled by nobody but its owner. Losing and
reordering only take messages out of a set, which none of this minds.

`Ways` follows a close on a bus that loses nothing. `Opening`: before the server has let the
stream in it has sent nothing, and the client can have closed its end only by giving up; from
then on a message to the server finds the stream until it is closed. `Leaving`: the client's
goroutine leaves its loop only to close the stream itself. So no end stops reading while it is
open, and `Learns` holds: an end that is open when its peer has closed has the close coming, on
the bus or in its goroutine's hands. The exception is the client that gave up before OpenStream
returned (`GaveUp`), whose close may reach the server before the Open does. For rest, nothing is
then coming, so both ends of a stream that was opened are closed or neither; no Send
waits and no hand is full, so `PendingCounts` makes pending zero, and a Close that still
waited for it could go on.

### The client's dispatcher

For any number of calls, streams and responses, and any channel size, when no message is
`None` (`ClientDispatchAssumption`):

- `OrderKept`: `Spec => []InOrder`;
- `CountsTrue`: `Spec => []MetricsTrue`;
- `ComesToRest`: `Spec => []AtRest`.

`Inv` says that of each call what was got, followed by what resChan holds, what
handleResponses has in hand, what the channel holds and what the dispatcher has in hand,
is what was accepted: each step moves a message from the head of one to the end of the one
before it. The hand is empty unless handleResponses is about to write it, and a stream
has neither a hand nor a resChan.

The metrics interceptor of a multi-call counts a response when handleResponses takes it in
hand, before the caller can read it, and its observer is told the counts at the end.
`Tallied` says that these are the numbers of answers and of errors in what was got, what
resChan holds and what the hand holds, one after the other. When handleResponses closes
resChan its hand is empty, so what is left is what the caller has read and still finds,
which is `MetricsTrue`.

For rest, `Stages` says who has an entry: a call while handleResponses runs for it, a
stream until a Close, its goroutine's or another, has ended or its peer's has come. So an
entry that is left belongs to a goroutine that waits, and there are few things it can wait
for: a caller that does not read, its peer's next message, on a stream that was not closed,
or the bus. A dispatcher that waits has a full channel before it, whose goroutine either has
left or is such a one. If the bus is not locked, nobody waits for it. If it is, it waits for
a subscription that is still open, so the client is not yet stopped; it is building, failing
or closing, or its dispatcher has a message it cannot hand over, for if it had none it
would read: that is `Wedged`. What a multi-call leaves behind needs no bus, and is claimed
in any case.

### The server

For any finite set of registrations, any keys, requests and calls of Close and of
DeregisterHandler, forced or not, of calls or of streams (`ServerLifecycleAssumption`):

- `BegunFinish`: `Spec => []BegunRequestsFinish`;
- `ReturnedIsDone`: `Spec => []ReturnedCloseIsDone`;
- `MapIsLive`: `Spec => []MapHoldsLiveHandlers`;
- `OnlyRacesLose`: `Spec => []LostOnlyByRace`;
- `OnlyOpensOutlive`: `Spec => []OnlyRacingOpensOutlive`;
- `ComesToRest`: `Spec => []AtRest`.

The argument. `InPlace`: only what was put in the map is ever closed, the map's entries
have their own key, and none is complete, although a removal deletes whatever its key
holds. `ActiveCounts`: active is the cardinality of the handlers counted and not yet
released, so that a Close that finds it zero owes nobody (`OwedAreDone`), also if handlers
came meanwhile. `RequestsPass`: a request is buffered, spawned or counted, in one of
these at a time, so one that a close waits for cannot come again once it has ended
(`Awaits`). `RacesKnown`: two handlers past the look-up of one key, and one that is out of
the map before it is complete, are of a key that has raced. So a `Remove` deletes the entry
of another handler only if their registrations overlapped.

For rest, `DrainWaits`: a close of a handler that waits has a request in progress left to wait
for, and of the streams among these, it has itself closed each. So at rest no close of a
handler waits: a request ends by itself, and a stream that is being closed does. `CloseWaits`:
a Close of the server that waits for the counter found it raised, after the close of all it took
from the map was over. What is then still counted is open and being closed by nobody;
`RacesKnown` says that its key has raced, or that it is in the map and came there after the
Close had read it: that is `Overlooked`. The assumption keeps the names of closers apart from
the two values that `once` has besides.

### The local bus

For any publishers and subscribers, any number of messages and any size of the buffers but
zero, of a broadcast channel or of a queue (`LocalBusAssumption`):

- `TypeCorrect`: `Spec => []TypeOK`;
- `NobodyStranded`: `Spec => []ListsConsistent`;
- `PublishDelivers`: `Spec => []Delivered`;
- `ListHeld`: no step changes the slots of a list that a publisher writes to;
- `ComesToRest`: `Spec => []AtRest`.

The argument. `Placed`: the slots of a list hold its members, each in one slot, and
nobody else. `Counted`: subCount is the number of slots in use, so that a list is given up
exactly when the last one leaves; this needs the slots in use to be counted again after
each Add and Remove. `Homed`: whoever is a member has the list that the map has, which is
what the bus's lock is for: only its holder is between its two halves. `Closed`: a
subscriber whose msgChan is closed has left its slot before, and left it with the
list's lock; so no writer, which holds that lock, has it (`Locked`).

For delivery, `Reaches` says of each subscriber owed a message that its list is the
publisher's, and that it has the message if its slot was passed: as a member keeps its
slot until it leaves, no publisher passes by it. `Fresh` and `QueueTrue` say that a
message of a queue is nobody's until it is written once.

For rest, follow who waits for whom. `Holders`: a list's lock is held by publishers that
dispatch to it. Such a one waits only for room with an open subscriber (`Closed`, and the
cancellation that frees a write), and an open subscriber's forwarding goroutine or
consumer can then go on. So when nobody can, no list is locked; then no Subscribe and no
Close waits for one, the bus's lock is free, and no Publish waits either. `Ends`: a
subscription that is closed has its msgChan closed, which the forwarding goroutine sees.

### The redis bus

For any messages, channels and subscribers, any number of failures, and buffers of any
size but zero (`RedisBusAssumption`):

- `TypeCorrect`: `Spec => []TypeOK`;
- `OrderKept`: `Spec => []InOrder`;
- `WorkRemembered`: `Spec => []WorkIsNeverForgotten`;
- `NoSendOnClosed`: `Spec => []WritesToOpen`;
- `ReconciledAlways`: `Spec => []Reconciled`;
- `ComesToRest`: `Spec => []AtRest`.

The argument. InOrder holds since a channel's queue is in the map exactly while its exec is
on its way or runs (`Served`), and each exec is enqueued once (`EnqueuedOnce`): then no two
goroutines ever drain a channel, and what Publish takes is appended to what that one has
still to send. `Woken` has the three places where a signal can be when there is work:
the token, the publisher about to leave it, and the worker that is not asleep. A signal
that finds the token there may be dropped, as the worker that takes the token drains all.
For the subscriptions, `Comparison` says what a reconciliation knows while it talks to
redis without the mutex: its lists are right about every channel that did not become dirty
since it made them (`CurrentTrue`); redis does what it was asked for last, the commands
already issued and those of the reconciliations before, unless one of these failed
(`RemoteTrue`). `Listed` and `TargetsOpen` are about the mutex that readWorker holds: whom
it has to write to is still on the list, so not closed.

For rest, if readWorker holds the mutex and cannot go on, the buffer before it is full
(`Bounded`) and its subscriber open, with a reader that does not read. Then it is
publishing an answer and waits for the mutex; or not all it reads is made yet; or it is one
that closes, with another of its subscriptions cancelled. Each is `Stuck`. (If it is between
two Closes, the next one can begin.) If the mutex is free, every stage of every goroutine but `waiting` has a
step, and `WorkIsNeverForgotten` says that a worker that waits without a token has nothing
to do, and a queue without an exec nothing in it.

### The NATS bus

For any subscribers, channels and messages and buffers of any size but zero
(`NatsBusAssumption`):

- `TypeCorrect`: `Spec => []TypeOK`;
- `OneRouter`: `Spec => []RoutersAgree`;
- `NoRoutedPanic`: `Spec => []RoutedNeverPanics`;
- `MessagesReach`: `Spec => []Delivered`;
- `ComesToRest`: `Spec => []AtRest`.

The argument. `Homes` and `Listed`: each list of a router has the subscribers that opened
it and have not left, each once. `MapTrue` and `ActiveMapped`: a router in the map is
subscribed or is still its maker's, and one that is subscribed is the map's, so that there
are never two. A router leaves the map with its last subscriber, under both mutexes; and
the two steps of the subscriber that joins are under the bus's (`Held`), so none joins a
router that has left. `HomeMapped` has the exception, whose router failed. `TodoTrue` says
of a callback under way that those it has still to write to are on the list, as it
holds the router's mutex; who has closed its channel has left the list (`Closed`). For
delivery, `Kept` follows a message to each subscriber that is owed it through the four
places it can be in (`OnItsWay`), and `Flow` says that it is in one of them at a time.

For rest, a callback that waits for a router's mutex waits for no other callback, as a
subscription has one at a time, and one that has it waits for room with an open subscriber,
whose consumer reads. `Live` adds that NATS calls only who has been open, so that no call is
that of a Subscribe under way, and that who failed keeps no router but its own. Without a
callback no router is locked, so nobody waits for one holding the bus's mutex, so nobody
waits for that either.

### The way of a call

For any interceptors in any order, any number of retries, any names and errors
(`CallPathAssumption`, which says of errors only what gRPC grants: it makes no error of
the code OK. Any error may have an empty text, a gRPC status too):

- `ChainKept`: `Spec => []ChainInv`;
- `LastIsAround`: `Spec => []ChainHolds`;
- `CallerIsTold`: `Spec => []ToldTrue`.

The argument. The position `next` is shared by the closures of the server's chain, while an
interceptor that is active has one of its own, in its frame. `Framed`: the frames stand at
positions of the chain, and the handler is called with the last position on top; this is
all that holds with interceptors that call next twice. `Entered`: without these, the
frame at depth d is that of position d. `Recovered`: no panic goes past a recovery that is
last. `Observed`: the frame of a metrics interceptor that is first is below all
others, and it observes when it is the last to leave, so what is answered. What the caller
is told follows the answer over the bus: what reads like a success was one, or an error,
of the service's own or a gRPC status, without a text (`Successes`); through interceptors that only observe, an error keeps its
code as far as the conversions do, which is a finite check of each conversion
(`Carried`); and the client's first interceptor, if it is the metrics one, sees the result
once, however often one inside repeats the call (`ToldOnce`).

### What stays with TLC

- The liveness properties: `CallReturns`, `CloseCompletes`, `CloseReturns`,
  `ClosesAndSendsReturn`, `PeerLearns`, `CloseIsObserved`, `RetriesEnd`. Of those of `Stream`
  and `ServerLifecycle`, `ComesToRest` has what can be said of single states; that its
  `CanGoOn` are the guards of the fair steps is read off beside them.
- The conjunct of the four invariants `RestsWhenDone` that says what is ENABLED: where a guard
  in `CanGoOn` holds, a step of `Progress` can be taken. The rest of them is proved.
- `RightHandler` of `CallPath`. The names of channels are folds over the parts of a topic,
  of any length; what they compute for every topic is an induction over sequences.

All three kinds are out of the prover's reach. The findings are runs, and need no proof.

## 5. Where the code and what is said of it differ

Shown by runs:

1. `local_bus_spin`. A comment says the endless loop over an all-nil list was fixed; the
   test that leaves the loop cannot hold when `next` was 0
   (`internal/bus/bus_local.go:172-188`).
2. `shutdown_waits`. Shutdown is said to wait for pending RPCs; it does not see those
   whose goroutine has not reached `handling.Add` (`pkg/server/rpc.go:138,165`).
3. `redis_resubscribe`. Comments say that the reconciliation carries the list of
   subscribers out in redis. After an UNSUBSCRIBE that reported an error and took effect,
   the channel is still in `currentChannels`: a subscriber that comes before the retry is
   never subscribed (`internal/bus/bus_redis.go:323-330,356-357`).

Met while modelling. The models do what the code does, and the passing properties say how
far the claim holds:

- A score of 0 is said to mean not available (`README.md:272`); with AcceptFirstAvailable,
  or a SelectionFunc, such a claim is chosen (`pkg/client/rpc.go:217-224`; `Eligible`,
  `BestClaimWins`).
- Send is said to block until the message has been received (`README.md:191`); it returns
  nil when the context given to OpenStream was cancelled and the stream has not been closed
  yet (`internal/stream/stream.go:282-284`; `SentWasReceivedOrAbandoned` has it as
  `abandoned`).
- Of a queue subscription only one client is said to get an update (`README.md:85`); two
  queue subscriptions of one process share a NATS router, which writes a message to every
  route of its channel (`internal/bus/bus_nats.go:210-221`). `Delivered` of NatsBus
  asks nothing of queued subscriptions for that reason.
- An error is said to reach the client with its original code (`README.md:328`). One whose
  message is empty, as is that of `status.Error(code, "")`, whose text
  `pkg/server/rpc.go:276-277` copies, is taken for a success (`pkg/client/rpc.go:152`), one with the code OK
  becomes unknown, and NotAcceptable has no gRPC code, so that it comes back as unknown
  where gRPC was in between (`errors.go:138-178`; `ToldTrue`).
- The handler behind a server interceptor gets the request's own context and message, not
  those the interceptor passes on (`pkg/server/rpc.go:109-110`).
- A metrics observer is told of a success when the handler panics, unless the recovery is
  inside it (`pkg/middleware/metrics.go:85-103`); the comment of WithServerRecovery asks
  for it to be last, and `ChainHolds` shows that this is enough.
- A stream's observer is told of every message received that there was no error, before the
  message may be discarded (`pkg/middleware/metrics.go:126-129`).
- Topics that differ only in empty parts share a channel on NATS, though their handler
  keys differ, so that both can be registered; a client whose ID is the name of a method shares that method's channel of
  streams on the buses with one name (`RightHandler`). On NATS, a topic that ends in "Q"
  and a queue have one subject, and the second of them to come gets an error.
- On redis, closing a client can deadlock the process's bus: claims.Close waits for `r.mu`
  while readWorker holds it to write to a full subscription of responses or of streams, which
  its only reader will close next and reads no more (`pkg/client/client.go:107-109`,
  `internal/bus/bus_redis.go:136,192-199`). NewRPCClient and newRPCHandler can, too, when the
  first subscription fills before the last is made (`Stuck` of RedisBus, `Wedged`).
- A call is given a timeout, which ends neither of its Publishes: the first comes before
  the deadline is set and both ignore the context (`pkg/client/rpc.go:124,129,141`). A bus
  whose lock is kept keeps the call (`CallReturns`).
- The dispatcher blocks for good when more servers claim a call than ChannelSize, or two
  answer it (`BlocksOnlyIfOverrun` excludes any other way), when the caller of a multi-call
  stops reading, and when a stream closes with its channel full (`Stuck` of
  ClientDispatch).
- A Close hangs when two registrations of one key overlapped, or one came after the Close
  had read the map (`LostOnlyByRace`, `CloseReturns`). A stream handler is closed around an
  Open that it had let in but not yet put in the map (`OnlyRacingOpensOutlive`).
- A stream's close that overtakes the registration of the stream at the server is dropped,
  and the handler runs on (`PeerLearns` is about the streams that OpenStream returned).
- A subscriber that joins a NATS router whose subscription then fails keeps it and hears
  nothing (`Deaf` in `RoutersAgree`); the callback of a direct NATS subscription may send
  on the channel its Close has closed (`RoutedNeverPanics` excludes the routed ones).
- With MaxAttempts 0 the retries never end (`RetriesEnd`).

## 6. Not modelled, and the plan

Not modelled at all, and why: the code generator (a batch program that prints Go; what it
prints calls the functions modelled) and the generated `*.pb.go` files, whose messages are
the records of the models; the test buses, doubles that delay and drop messages as the
models' buses may; metadata, options, aliases, the drawing of IDs, the twirp translation
(no state, and no property is about them); the bytes of a serialized message.

Left out of the modelled parts: the hooks around a call, Hijack, unbuffered channels
(`WithClientChannelSize(0)`), the cancellation of the context given to a bus subscription
(the repository passes Background, or the caller's in Join, where Close is still
expected), Join and JoinQueue themselves (one bus subscription each), RegistererSlice and
its rollback (calls of RegisterHandler and DeregisterHandler in a row; the rollback goes by
key, `registration.go:48`, as DeregisterHandler does), the retries of a stream's Send (the
same function as a call's; a late acknowledgement makes its peer receive the message
again), user-given retry parameters, read errors of the redis connection.

In order:

1. An abstract specification of what all three buses promise, to justify the one that the
   other modules take for granted. Today each bus has its own (`Delivered`, `InOrder`), as
   they differ: on NATS the queue subscribers of one process all get a message, and the
   redis bus would need a history of what each consumer was given.
2. `RedisBus`: the payload lock between processes (two equal payloads, an error of the lock,
   a message read late), which needs payloads and time.
3. The composition of `LocalBus` with consumers that publish before they read on, the
   deadlock that `RedisBus` already has (`bus_local.go:197`).
4. The stream's Send with retries, and RegistererSlice with several keys.
