------------------------------ MODULE UnaryRpc ------------------------------
(***************************************************************************)
(* One psrpc client, its dispatcher goroutine, the calls it has under way, *)
(* and the servers that answer them over the message bus.                  *)
(*                                                                         *)
(*   pkg/client/client.go   the dispatcher of NewRPCClient                 *)
(*   pkg/client/rpc.go      RequestSingle, newRPC, selectServer            *)
(*   pkg/server/rpc.go      run, handleRequest, claimRequest, sendResponse *)
(*                                                                         *)
(* A call is named by its request ID.  A claimed call goes request, claims,*)
(* claim response (the choice of one server), response; an unclaimed call  *)
(* goes request, response.                                                 *)
(*                                                                         *)
(* Abstractions.  Payloads are dropped.  Time is dropped: every timer and  *)
(* deadline may fire whenever the code waits for it, which covers clock    *)
(* skew between machines.  The bus keeps, per psrpc channel, the set of    *)
(* messages not yet delivered; it delivers them in any order, and a lost   *)
(* message is one that is never delivered.  A crashed server is one that   *)
(* takes no further step.                                                  *)
(*                                                                         *)
(* A Publish and a Close need the bus, which may be writing to a full      *)
(* subscription of this client with its lock held, as on redis             *)
(* (bus_redis.go:192): they wait until the dispatcher reads it.  How long  *)
(* other clients and the servers of the process keep the bus from them is  *)
(* not modelled: it lets them through in the end.                          *)
(***************************************************************************)
EXTENDS Integers, Sequences, FiniteSets

CONSTANTS
    Requests,     \* the request IDs of the calls
    Servers,      \* the servers subscribed to the methods called
    NoServer,     \* the empty serverID
    ChannelSize,  \* ClientOpts.ChannelSize, the capacity of every claimChan
                  \* (buffered: WithClientChannelSize(0) is left out)
    Method,       \* Method[r]: the RequireClaim and Queue flags of r's method
    Selection,    \* Selection[r]: the SelectionOpts of the call
    Affinities,   \* Affinities[r]: the scores r's affinity function may return,
                  \* {1} when the method has none
    Locking       \* the subscriptions the bus writes to with its lock held: all the
                  \* client has on redis, none on NATS

Flags == [claim : BOOLEAN, queue : BOOLEAN]

\* custom: a SelectionFunc is given.  AffinityTimeout and ShortCircuitTimeout
\* only end the selection early, as the call's own deadline may.
SelectionOpts ==
    [first : BOOLEAN, minimum : Int, maximum : Int, custom : BOOLEAN]

\* The client's subscriptions, in the order the dispatcher closes them.
Subscriptions == <<"claims", "responses", "streams">>

ASSUME UnaryRpcAssumption ==
    /\ Locking \subseteq {"claims", "responses", "streams"}
    /\ NoServer \notin Servers
    /\ IsFiniteSet(Servers)
    /\ ChannelSize \in Nat \ {0}
    /\ Method \in [Requests -> Flags]
    /\ Selection \in [Requests -> SelectionOpts]
    /\ Affinities \in [Requests -> SUBSET Int]

VARIABLES
    \* the bus: what was published on each channel and is not delivered yet
    rpcChannel, claimRequestChannel, claimResponseChannel, responseChannel,
    \* the client
    pc,          \* pc[r]: where newRPC is
    registered,  \* the keys of claimRequests and responseChannels
    claimChan,   \* claimChan[r]: the claims buffered for selectServer
    resChan,     \* resChan[r]: the responses buffered for the call, capacity 1
    sel,         \* sel[r]: the locals of selectServer
    chosen,      \* chosen[r]: serverID in newRPC
    result,      \* result[r]: what the call returned
    disp,        \* the message the dispatcher is handing over, Idle, Closing or Stopped
    closed,      \* the client's closed fuse
    writing,     \* the full subscription the bus waits to write to, locked, or "none"
    \* the servers
    spc,         \* spc[s][r]: how far s is with request r
    grantChan,   \* grantChan[s][r]: claimResponseChan of claimRequest
    \* history
    seen         \* seen[r]: the claims selectServer has read

bus == <<rpcChannel, claimRequestChannel, claimResponseChannel, responseChannel>>
locals == <<sel, chosen, seen>>
serverVars == <<spc, grantChan>>
vars == <<bus, pc, registered, claimChan, resChan, locals, result, disp, closed,
          writing, serverVars>>

----------------------------------------------------------------------------
\* Messages.  Only what the dispatcher handles carries a type.

ClaimRequest ==
    [type : {"claim"}, req : Requests, server : Servers, affinity : Int]

Response ==
    [type : {"response"}, req : Requests, server : Servers,
     kind : {"reply", "error"}]

ClaimResponse == [to : Servers, req : Requests, server : Servers]

Idle == [type |-> "idle"]
Stopped == [type |-> "stopped"]

\* The dispatcher has left its loop: it has cancelled the i-th subscription and waits to
\* unsubscribe it.
Closing(i) == [type |-> "closing", sub |-> i]

\* The outcomes of a call.  An "error" comes from a response; "unselected",
\* "malformed" and "custom" are the errors selectServer returns.
Outcome == {"none", "reply", "error", "unselected", "malformed", "custom",
            "internal", "timeout", "closed"}

Result == [kind : Outcome, server : Servers \cup {NoServer}]

Ended(kind) == [kind |-> kind, server |-> NoServer]

ClientState == {"idle", "calling", "select", "choosing", "wait", "cleanup", "done"}

ServerState == {"none", "expired", "running", "rejected", "refused", "awaiting",
                "released", "handling", "answered"}

\* selectServer's serverID, affinity and resErr (what it fails with), and the
\* servers of the claims kept for a SelectionFunc.
Candidate(server, affinity, claims, failure) ==
    [server |-> server, affinity |-> affinity, claims |-> claims, failure |-> failure]

Candidates == [server : Servers \cup {NoServer}, affinity : Int,
               claims : SUBSET Servers, failure : {"unselected", "malformed"}]

NoCandidate == Candidate(NoServer, 0, {}, "unselected")

----------------------------------------------------------------------------
Init ==
    /\ rpcChannel = {}
    /\ claimRequestChannel = {}
    /\ claimResponseChannel = {}
    /\ responseChannel = {}
    /\ pc = [r \in Requests |-> "idle"]
    /\ registered = {}
    /\ claimChan = [r \in Requests |-> << >>]
    /\ resChan = [r \in Requests |-> << >>]
    /\ sel = [r \in Requests |-> NoCandidate]
    /\ chosen = [r \in Requests |-> NoServer]
    /\ result = [r \in Requests |-> Ended("none")]
    /\ disp = Idle
    /\ closed = FALSE
    /\ writing = "none"
    /\ spc = [s \in Servers |-> [r \in Requests |-> "none"]]
    /\ grantChan = [s \in Servers |-> [r \in Requests |-> << >>]]
    /\ seen = [r \in Requests |-> {}]

----------------------------------------------------------------------------
\* The call: RequestSingle, newRPC and selectServer.

\* newRPC returns: its deferred delete from the maps is still to come.
Return(r, res) ==
    /\ pc' = [pc EXCEPT ![r] = "cleanup"]
    /\ result' = [result EXCEPT ![r] = res]

\* RequestSingle on a closed client.
CallClosed(r) ==
    /\ pc[r] = "idle" /\ closed
    /\ pc' = [pc EXCEPT ![r] = "done"]
    /\ result' = [result EXCEPT ![r] = Ended("closed")]
    /\ UNCHANGED <<bus, registered, claimChan, resChan, locals, disp, closed, writing,
                   serverVars>>

\* The servers the request is delivered to: one of the queue's group, or all.
Audience(r) == IF Method[r].queue THEN {{s} : s \in Servers} ELSE {Servers}

\* newRPC enters the call in the maps, and publishes the request: the deadline is not set
\* yet, and the caller's context is not asked.
Call(r) ==
    /\ pc[r] = "idle" /\ ~closed
    /\ pc' = [pc EXCEPT ![r] = "calling"]
    /\ registered' = registered \cup {r}
    /\ UNCHANGED <<bus, claimChan, resChan, locals, result, disp, closed, writing,
                   serverVars>>

\* The bus is not locked.  A Publish that reports an error may or may not have reached it.
Publish(r) ==
    /\ pc[r] = "calling" /\ writing = "none"
    /\ \E to \in Audience(r) : rpcChannel' = rpcChannel \cup (to \X {r})
    /\ \/ /\ pc' = [pc EXCEPT ![r] = IF Method[r].claim THEN "select" ELSE "wait"]
          /\ UNCHANGED result
       \/ Return(r, Ended("internal"))
    /\ UNCHANGED <<claimRequestChannel, claimResponseChannel, responseChannel, registered,
                   claimChan, resChan, locals, disp, closed, writing, serverVars>>

\* selectServer returned s ...
Choose(r, s) ==
    /\ chosen' = [chosen EXCEPT ![r] = s]
    /\ pc' = [pc EXCEPT ![r] = "choosing"]

\* ... and newRPC announces the choice to every server.
PublishChoice(r) ==
    /\ pc[r] = "choosing" /\ writing = "none"
    /\ claimResponseChannel' = claimResponseChannel \cup
          {[to |-> t, req |-> r, server |-> chosen[r]] : t \in Servers}
    /\ \/ pc' = [pc EXCEPT ![r] = "wait"] /\ UNCHANGED result
       \/ Return(r, Ended("internal"))
    /\ UNCHANGED <<rpcChannel, claimRequestChannel, responseChannel, registered, claimChan,
                   resChan, locals, disp, closed, writing, serverVars>>

Eligible(r, affinity) ==
    Selection[r].minimum > 0 => affinity >= Selection[r].minimum

Immediate(r, affinity) ==
    \/ Selection[r].first
    \/ Selection[r].maximum > 0 /\ affinity >= Selection[r].maximum

\* Mutant of Considered: the claim itself is kept for the SelectionFunc.
ConsideredWhole(r, c) ==
    IF Eligible(r, c.affinity) /\ Selection[r].custom
    THEN Candidate(NoServer, 0, sel[r].claims \cup {c}, sel[r].failure) ELSE sel[r]

\* Mutant of Considered: the last acceptable claim wins.
ConsideredLast(r, c) ==
    IF Eligible(r, c.affinity)
    THEN Candidate(c.server, c.affinity, sel[r].claims, sel[r].failure) ELSE sel[r]

\* What selectServer keeps of a claim it does not take at once.
Considered(r, c) ==
    LET s == sel[r] IN
    CASE Eligible(r, c.affinity) /\ Selection[r].custom ->
            Candidate(s.server, s.affinity, s.claims \cup {c.server}, s.failure)
      [] Eligible(r, c.affinity) /\ ~Selection[r].custom /\ c.affinity > s.affinity ->
            Candidate(c.server, c.affinity, s.claims, s.failure)
      [] OTHER -> s

SelectClaim(r) ==
    /\ pc[r] = "select" /\ claimChan[r] # << >>
    /\ claimChan' = [claimChan EXCEPT ![r] = Tail(@)]
    /\ seen' = [seen EXCEPT ![r] = @ \cup {Head(claimChan[r])}]
    /\ LET c == Head(claimChan[r]) IN
       IF Eligible(r, c.affinity) /\ Immediate(r, c.affinity)
       THEN Choose(r, c.server) /\ UNCHANGED sel
       ELSE /\ sel' = [sel EXCEPT ![r] = Considered(r, c)]
            /\ UNCHANGED <<pc, chosen>>
    /\ UNCHANGED <<bus, registered, resChan, result, disp, closed, writing, serverVars>>

\* A response read during the selection: only its error is kept.
SelectResponse(r) ==
    /\ pc[r] = "select" /\ resChan[r] # << >>
    /\ resChan' = [resChan EXCEPT ![r] = Tail(@)]
    /\ LET s == sel[r] IN
       sel' = [sel EXCEPT ![r] =
                 IF Head(resChan[r]).kind = "error"
                 THEN Candidate(s.server, s.affinity, s.claims, "malformed") ELSE s]
    /\ UNCHANGED <<bus, pc, registered, claimChan, chosen, seen, result, disp,
                   closed, writing, serverVars>>

\* The selection context ends: an affinity or short-circuit timer, the call's
\* deadline, or the caller's cancellation.
SelectEnds(r) ==
    /\ pc[r] = "select"
    /\ \/ /\ Selection[r].custom
          /\ \/ \E s \in sel[r].claims : Choose(r, s) /\ UNCHANGED result
             \/ Return(r, Ended("custom")) /\ UNCHANGED chosen
       \/ /\ ~Selection[r].custom /\ sel[r].server # NoServer
          /\ Choose(r, sel[r].server) /\ UNCHANGED result
       \/ /\ ~Selection[r].custom /\ sel[r].server = NoServer
          /\ Return(r, Ended(sel[r].failure)) /\ UNCHANGED chosen
    /\ UNCHANGED <<bus, registered, claimChan, resChan, sel, seen, disp, closed, writing,
                   serverVars>>

AwaitResponse(r) ==
    /\ pc[r] = "wait" /\ resChan[r] # << >>
    /\ resChan' = [resChan EXCEPT ![r] = Tail(@)]
    /\ LET res == Head(resChan[r]) IN
       Return(r, [kind |-> res.kind, server |-> res.server])
    /\ UNCHANGED <<bus, registered, claimChan, locals, disp, closed, writing, serverVars>>

\* Mutant of AwaitEnds: no deadline while waiting.
AwaitEndsNever(r) ==
    /\ pc[r] = "wait" /\ closed
    /\ Return(r, Ended("closed"))
    /\ UNCHANGED <<bus, registered, claimChan, resChan, locals, disp, closed, writing,
                   serverVars>>

\* The deadline, or the caller's cancellation, while waiting for the response.
AwaitEnds(r) ==
    /\ pc[r] = "wait"
    /\ Return(r, Ended("timeout"))
    /\ UNCHANGED <<bus, registered, claimChan, resChan, locals, disp, closed, writing,
                   serverVars>>

Unregister(r) ==
    /\ pc[r] = "cleanup"
    /\ pc' = [pc EXCEPT ![r] = "done"]
    /\ registered' = registered \ {r}
    /\ UNCHANGED <<bus, claimChan, resChan, locals, result, disp, closed, writing,
                   serverVars>>

----------------------------------------------------------------------------
\* The client's dispatcher goroutine.

\* A message of sub is read: the bus, if it waits for room there, goes on.
Makes(sub) == writing' = IF writing = sub THEN "none" ELSE writing

\* The dispatcher takes a claim or a response from its subscription and looks the request
\* up; the channel found is used after the lock is released.
Lookup(m) == disp' = IF m.req \in registered THEN m ELSE Idle

DispatchClaim(m) ==
    /\ disp = Idle
    /\ claimRequestChannel' = claimRequestChannel \ {m}
    /\ Lookup(m) /\ Makes("claims")
    /\ UNCHANGED <<rpcChannel, claimResponseChannel, responseChannel, pc, registered,
                   claimChan, resChan, locals, result, closed, serverVars>>

DispatchResponse(m) ==
    /\ disp = Idle
    /\ responseChannel' = responseChannel \ {m}
    /\ Lookup(m) /\ Makes("responses")
    /\ UNCHANGED <<rpcChannel, claimRequestChannel, claimResponseChannel, pc,
                   registered, claimChan, resChan, locals, result, closed, serverVars>>

\* The subscriptions whose context is not cancelled yet.
Open ==
    CASE disp = Stopped -> {}
      [] disp.type = "closing" -> {Subscriptions[i] : i \in disp.sub + 1..3}
      [] OTHER -> {"claims", "responses", "streams"}

\* The bus comes to write to a subscription that is full, of messages of calls and streams
\* that are not those of the model as well.
Overflow(sub) ==
    /\ writing = "none" /\ sub \in Locking \cap Open
    /\ writing' = sub
    /\ UNCHANGED <<bus, pc, registered, claimChan, resChan, locals, result, disp, closed,
                   serverVars>>

\* The dispatcher reads one of those and has nobody to hand it to.
Read ==
    /\ disp = Idle /\ writing # "none"
    /\ writing' = "none"
    /\ UNCHANGED <<bus, pc, registered, claimChan, resChan, locals, result, disp, closed,
                   serverVars>>

\* Mutant of HasRoom: resChan is unbuffered, a send needs the call to be reading.
HasRoomIfRead(m) ==
    IF m.type = "claim" THEN Len(claimChan[m.req]) < ChannelSize
    ELSE Len(resChan[m.req]) < 1 /\ pc[m.req] \in {"select", "wait"}

\* Whether a send on a call's buffered channel would return.
HasRoom(m) ==
    IF m.type = "claim" THEN Len(claimChan[m.req]) < ChannelSize
                        ELSE Len(resChan[m.req]) < 1

HandingOver == disp.type \in {"claim", "response"}

HandOver ==
    /\ HandingOver
    /\ HasRoom(disp)
    /\ disp' = Idle
    /\ IF disp.type = "claim"
       THEN /\ claimChan' = [claimChan EXCEPT ![disp.req] = Append(@, disp)]
            /\ UNCHANGED resChan
       ELSE /\ resChan' = [resChan EXCEPT ![disp.req] = Append(@, disp)]
            /\ UNCHANGED claimChan
    /\ UNCHANGED <<bus, pc, registered, locals, result, closed, writing, serverVars>>

\* The i-th Close cancels the subscription: the bus does not wait for it any more.
Cancel(i) ==
    /\ disp' = Closing(i)
    /\ Makes(Subscriptions[i])

\* Mutant of Stop: the subscriptions are drained before they are closed.
StopDrained ==
    /\ closed /\ disp = Idle
    /\ claimRequestChannel = {} /\ responseChannel = {}
    /\ Cancel(1)
    /\ UNCHANGED <<bus, pc, registered, claimChan, resChan, locals, result, closed,
                   serverVars>>

\* It leaves its loop, and closes the three one after another.
Stop ==
    /\ closed /\ disp = Idle
    /\ Cancel(1)
    /\ UNCHANGED <<bus, pc, registered, claimChan, resChan, locals, result, closed,
                   serverVars>>

\* The bus is not locked: the subscription is removed, and the next is closed.
CloseNext ==
    /\ disp.type = "closing" /\ writing = "none"
    /\ IF disp.sub < 3 THEN Cancel(disp.sub + 1) ELSE disp' = Stopped /\ UNCHANGED writing
    /\ UNCHANGED <<bus, pc, registered, claimChan, resChan, locals, result, closed,
                   serverVars>>

\* RPCClient.Close, or a subscription that ended.
Close ==
    /\ ~closed
    /\ closed' = TRUE
    /\ UNCHANGED <<bus, pc, registered, claimChan, resChan, locals, result, disp, writing,
                   serverVars>>

----------------------------------------------------------------------------
\* The servers.

\* The run loop takes the request; if it has not expired a goroutine of its
\* own handles it.
ReceiveRequest(s, r) ==
    /\ <<s, r>> \in rpcChannel
    /\ rpcChannel' = rpcChannel \ {<<s, r>>}
    /\ \E st \in {"running", "expired"} : spc' = [spc EXCEPT ![s][r] = st]
    /\ UNCHANGED <<claimRequestChannel, claimResponseChannel, responseChannel, pc,
                   registered, claimChan, resChan, locals, result, disp, closed, writing,
                   grantChan>>

SendResponse(s, r, kind) ==
    responseChannel' = responseChannel \cup
        {[type |-> "response", req |-> r, server |-> s, kind |-> kind]}

\* Mutant of Reject: the response carries no error.
RejectSilently(s, r) ==
    /\ spc[s][r] = "running"
    /\ spc' = [spc EXCEPT ![s][r] = "rejected"]
    /\ SendResponse(s, r, "reply")
    /\ UNCHANGED <<rpcChannel, claimRequestChannel, claimResponseChannel, pc,
                   registered, claimChan, resChan, locals, result, disp, closed, writing,
                   grantChan>>

\* The request does not deserialize on this server: it answers with an error,
\* claimed or not.
Reject(s, r) ==
    /\ spc[s][r] = "running"
    /\ spc' = [spc EXCEPT ![s][r] = "rejected"]
    /\ SendResponse(s, r, "error")
    /\ UNCHANGED <<rpcChannel, claimRequestChannel, claimResponseChannel, pc,
                   registered, claimChan, resChan, locals, result, disp, closed, writing,
                   grantChan>>

\* claimRequest: no claim for a negative affinity.  A Publish that fails ends
\* the handling, whether or not the claim reached the bus.
Claim(s, r) ==
    /\ spc[s][r] = "running" /\ Method[r].claim
    /\ \E a \in Affinities[r] :
          IF a < 0
          THEN /\ spc' = [spc EXCEPT ![s][r] = "refused"]
               /\ UNCHANGED claimRequestChannel
          ELSE /\ claimRequestChannel' = claimRequestChannel \cup
                    {[type |-> "claim", req |-> r, server |-> s, affinity |-> a]}
               /\ \E st \in {"awaiting", "released"} : spc' = [spc EXCEPT ![s][r] = st]
    /\ UNCHANGED <<rpcChannel, claimResponseChannel, responseChannel, pc, registered,
                   claimChan, resChan, locals, result, disp, closed, writing, grantChan>>

\* The run loop passes a claim response on to the request awaiting it.  The
\* channel holds one: BlocksOnlyIfOverrun says the send always returns, so the
\* lookup and the send are one step.
ReceiveGrant(g) ==
    /\ g \in claimResponseChannel
    /\ claimResponseChannel' = claimResponseChannel \ {g}
    /\ IF spc[g.to][g.req] = "awaiting"
       THEN /\ grantChan[g.to][g.req] = << >>
            /\ grantChan' = [grantChan EXCEPT ![g.to][g.req] = Append(@, g.server)]
       ELSE UNCHANGED grantChan
    /\ UNCHANGED <<rpcChannel, claimRequestChannel, responseChannel, pc, registered,
                   claimChan, resChan, locals, result, disp, closed, writing, spc>>

\* Mutant of TakeGrant: the ServerId of the claim response is not compared.
TakeAnyGrant(s, r) ==
    /\ spc[s][r] = "awaiting" /\ grantChan[s][r] # << >>
    /\ grantChan' = [grantChan EXCEPT ![s][r] = << >>]
    /\ spc' = [spc EXCEPT ![s][r] = "handling"]
    /\ UNCHANGED <<bus, pc, registered, claimChan, resChan, locals, result, disp,
                   closed, writing>>

TakeGrant(s, r) ==
    /\ spc[s][r] = "awaiting" /\ grantChan[s][r] # << >>
    /\ grantChan' = [grantChan EXCEPT ![s][r] = << >>]
    /\ spc' = [spc EXCEPT ![s][r] =
                 IF Head(grantChan[s][r]) = s THEN "handling" ELSE "released"]
    /\ UNCHANGED <<bus, pc, registered, claimChan, resChan, locals, result, disp,
                   closed, writing>>

\* Mutant of ClaimExpires: an unanswered claim is taken as granted.
ClaimExpiresGranted(s, r) ==
    /\ spc[s][r] = "awaiting"
    /\ spc' = [spc EXCEPT ![s][r] = "handling"]
    /\ grantChan' = [grantChan EXCEPT ![s][r] = << >>]
    /\ UNCHANGED <<bus, pc, registered, claimChan, resChan, locals, result, disp,
                   closed, writing>>

\* The request's expiry, while the claim is not answered.
ClaimExpires(s, r) ==
    /\ spc[s][r] = "awaiting"
    /\ spc' = [spc EXCEPT ![s][r] = "released"]
    /\ grantChan' = [grantChan EXCEPT ![s][r] = << >>]
    /\ UNCHANGED <<bus, pc, registered, claimChan, resChan, locals, result, disp,
                   closed, writing>>

\* Mutant of Handle: the handler does not wait for the claim.
HandleAtOnce(s, r) ==
    /\ spc[s][r] = "running"
    /\ spc' = [spc EXCEPT ![s][r] = "handling"]
    /\ UNCHANGED <<bus, pc, registered, claimChan, resChan, locals, result, disp,
                   closed, writing, grantChan>>

\* Without a claim the handler runs at once.
Handle(s, r) ==
    /\ spc[s][r] = "running" /\ ~Method[r].claim
    /\ spc' = [spc EXCEPT ![s][r] = "handling"]
    /\ UNCHANGED <<bus, pc, registered, claimChan, resChan, locals, result, disp,
                   closed, writing, grantChan>>

\* The handler returned, with an error or not.
Respond(s, r) ==
    /\ spc[s][r] = "handling"
    /\ spc' = [spc EXCEPT ![s][r] = "answered"]
    /\ \E kind \in {"reply", "error"} : SendResponse(s, r, kind)
    /\ UNCHANGED <<rpcChannel, claimRequestChannel, claimResponseChannel, pc,
                   registered, claimChan, resChan, locals, result, disp, closed, writing,
                   grantChan>>

----------------------------------------------------------------------------
ClientNext(r) ==
    \/ CallClosed(r) \/ Call(r) \/ Publish(r) \/ SelectClaim(r) \/ SelectResponse(r)
    \/ SelectEnds(r) \/ PublishChoice(r) \/ AwaitResponse(r) \/ AwaitEnds(r)
    \/ Unregister(r)

DispatcherNext ==
    \/ \E m \in claimRequestChannel : DispatchClaim(m)
    \/ \E m \in responseChannel : DispatchResponse(m)
    \/ HandOver \/ Read \/ Stop \/ CloseNext

ServerNext(s, r) ==
    \/ ReceiveRequest(s, r) \/ Reject(s, r) \/ Claim(s, r) \/ TakeGrant(s, r)
    \/ ClaimExpires(s, r) \/ Handle(s, r) \/ Respond(s, r)

Next ==
    \/ \E r \in Requests : ClientNext(r)
    \/ DispatcherNext
    \/ Close
    \/ \E sub \in Locking : Overflow(sub)
    \/ \E s \in Servers, r \in Requests : ServerNext(s, r)
    \/ \E g \in claimResponseChannel : ReceiveGrant(g)

Spec == Init /\ [][Next]_vars

\* The client process runs: its timers fire, and its goroutines are scheduled.  A mutex
\* goes in the end to who waits for it, and a select takes in the end each of its cases
\* that it finds ready again and again.  Nothing is asked of the bus or of the servers.
Fairness ==
    /\ \A r \in Requests :
          /\ WF_vars(SelectEnds(r)) /\ WF_vars(AwaitEnds(r)) /\ WF_vars(Unregister(r))
          /\ SF_vars(Publish(r) \/ PublishChoice(r))
    /\ WF_vars(HandOver) /\ WF_vars(Read) /\ SF_vars(Stop \/ CloseNext)

FairSpec == Spec /\ Fairness

----------------------------------------------------------------------------
\* Properties.

TypeOK ==
    /\ rpcChannel \subseteq Servers \X Requests
    /\ claimRequestChannel \subseteq ClaimRequest
    /\ claimResponseChannel \subseteq ClaimResponse
    /\ responseChannel \subseteq Response
    /\ pc \in [Requests -> ClientState]
    /\ registered \subseteq Requests
    /\ claimChan \in [Requests -> Seq(ClaimRequest)]
    /\ resChan \in [Requests -> Seq(Response)]
    /\ sel \in [Requests -> Candidates]
    /\ chosen \in [Requests -> Servers \cup {NoServer}]
    /\ \A r \in Requests : pc[r] = "choosing" => chosen[r] \in Servers
    /\ result \in [Requests -> Result]
    /\ \/ disp \in ClaimRequest \cup Response \cup {Idle, Stopped}
       \/ \E i \in 1..3 : disp = Closing(i)
    /\ closed \in BOOLEAN
    /\ writing \in {"none"} \cup Locking
    /\ spc \in [Servers -> [Requests -> ServerState]]
    /\ grantChan \in [Servers -> [Requests -> Seq(Servers)]]
    /\ seen \in [Requests -> SUBSET ClaimRequest]

\* The handler of s was called for r.
Ran(s, r) == spc[s][r] \in {"handling", "answered"}

\* The calls one server only may execute.
Exclusive == {r \in Requests : Method[r].claim \/ Method[r].queue}

\* However the claims, the choice, the expiry timers and the deadline race, the
\* handler of a claimed or queued call runs on one server at most.
OneExecutor ==
    \A r \in Exclusive, s, t \in Servers : Ran(s, r) /\ Ran(t, r) => s = t

\* A claimed call that fails in selectServer has not run and never will, so
\* that the retry interceptor may safely repeat it: the claims that come late
\* are never answered.
UnselectedNeverRuns ==
    \A r \in Requests, s \in Servers :
        result[r].kind \in {"unselected", "malformed", "custom"} => ~Ran(s, r)

\* The comment of selectServer on a response read during the selection: it
\* "will only happen with malformed requests".
OnlyMalformedWhileSelecting ==
    \A r \in Requests :
        pc[r] = "select" =>
            \A i \in 1..Len(resChan[r]) : spc[resChan[r][i].server][r] = "rejected"

\* The server chosen made an acceptable claim.  Unless it was taken at once, or
\* by a SelectionFunc, no acceptable claim read before it scored higher.
BestClaimWins ==
    \A r \in Requests :
        chosen[r] # NoServer =>
            \E c \in seen[r] :
                /\ c.server = chosen[r]
                /\ Eligible(r, c.affinity)
                /\ \/ Immediate(r, c.affinity)
                   \/ Selection[r].custom
                   \/ \A d \in seen[r] :
                        Eligible(r, d.affinity) => d.affinity <= c.affinity

\* The dispatcher is blocked on a channel that nobody will ever read again.
Stuck ==
    /\ HandingOver /\ ~HasRoom(disp)
    /\ pc[disp.req] \notin (IF disp.type = "claim" THEN {"calling", "select"}
                           ELSE {"calling", "select", "choosing", "wait"})

\* The dispatcher, which every other call of the client needs, is never blocked for
\* good by one call, unless more servers claimed it than a channel holds, or two
\* servers answered it; nor is a server's run loop by the claim response it passes on.
BlocksOnlyIfOverrun ==
    /\ Stuck =>
          IF disp.type = "claim"
          THEN Cardinality({s \in Servers : spc[s][disp.req] \in
                  {"awaiting", "released", "handling", "answered"}}) > ChannelSize
          ELSE \E s, t \in Servers :
                  /\ s # t
                  /\ {spc[s][disp.req], spc[t][disp.req]} \subseteq {"rejected", "answered"}
    /\ \A g \in claimResponseChannel :
          spc[g.to][g.req] = "awaiting" => grantChan[g.to][g.req] = << >>

\* The bus keeps its lock for a subscription that is not read: the dispatcher is closing
\* another, or blocked on the channel of a call that reads no more, or that waits for the bus.
Wedged ==
    /\ writing # "none"
    /\ \/ disp.type = "closing"
       \/ HandingOver /\ ~HasRoom(disp)
             /\ pc[disp.req] \notin (IF disp.type = "claim" THEN {"select"}
                                    ELSE {"select", "wait"})

\* Every call returns, whatever the servers do, whatever is lost, and even when the
\* dispatcher is stuck, but for one in Publish, which no deadline ends, when the bus and
\* the client's dispatcher wait for each other.
CallReturns ==
    \A r \in Requests :
        pc[r] # "idle" ~> \/ pc[r] = "done"
                          \/ pc[r] \in {"calling", "choosing"} /\ Wedged

\* A closed client's dispatcher ends and with it the subscriptions, unless it is stuck, or
\* waits in one Close while the bus waits to write to a subscription it closes later.
CloseCompletes == closed ~> (disp = Stopped \/ Stuck \/ Wedged)

----------------------------------------------------------------------------
\* What the exclusive calls promise.

Executor(r) ==
    IF \E s \in Servers : Ran(s, r) THEN CHOOSE s \in Servers : Ran(s, r)
                                     ELSE NoServer

CallStatus(r) ==
    CASE pc[r] = "idle" -> "idle"
      [] pc[r] # "idle" /\ result[r].kind = "none" -> "pending"
      [] result[r].kind = "reply" -> "replied"
      [] result[r].kind \in {"unselected", "malformed", "custom", "closed"} -> "refused"
      [] OTHER -> "failed"

Abstract == INSTANCE AtMostOnce WITH
    Requests <- Exclusive,
    call <- [r \in Exclusive |-> CallStatus(r)],
    executor <- [r \in Exclusive |-> Executor(r)],
    finished <- [r \in Exclusive |-> \E s \in Servers : spc[s][r] = "answered"]

\* The protocol implements at-most-once execution.
ImplementsAtMostOnce == Abstract!Spec
=============================================================================
