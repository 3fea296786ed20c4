------------------------------- MODULE CallPath -------------------------------
(***************************************************************************)
(* The way of one call: through the interceptors of the client, over the   *)
(* bus to the handler whose channel it is published on, through the        *)
(* interceptors of the server, and back as a response or an error.         *)
(*                                                                         *)
(*   pkg/client/rpc.go, options.go    RequestSingle, newRPC                *)
(*   pkg/middleware/retry.go          retry                                *)
(*   pkg/middleware/metrics.go        what the observers are told          *)
(*   pkg/middleware/recovery.go       WithServerRecovery                   *)
(*   internal/interceptors            the two chains                       *)
(*   pkg/server/rpc.go                handleRequest, sendResponse          *)
(*   errors.go, pkg/info              modules Errors and Names             *)
(*                                                                         *)
(* Claims, and what becomes of concurrent calls, are in UnaryRpc.  When an *)
(* attempt has ended nothing that a server still does for it can matter:   *)
(* its response finds no entry; so only the last attempt's is followed.    *)
(***************************************************************************)
EXTENDS Errors, Names, Integers

CONSTANTS
    Setups,   \* the ways a call is set up, see Init
    Failures, \* the errors that service implementations return
    Clients,  \* the IDs that clients may have been given
    Bound     \* attempts are counted up to here

\* The interceptors of a client, and of a server: a server's may also refuse every request,
\* or call its next again after an error.
ClientInterceptors == {"metrics", "retry"}
ServerInterceptors == {"metrics", "recover", "refuse", "again"}

\* Any error may be without a text; gRPC makes no error of a status that says OK.
ASSUME CallPathAssumption ==
    /\ Bound \in Nat
    /\ \A s \in Setups : /\ s.max \in 0..(Bound - 1)
                         /\ {s.base, s.own} \subseteq Seq(ClientInterceptors)
                         /\ s.chain \in Seq(ServerInterceptors)
    /\ Failures \subseteq [type : {"psrpc", "grpc", "plain"}, code : Codes, text : BOOLEAN]
    /\ \A err \in Failures : err.type = "grpc" => err.code \in GrpcCodes \ {OK}

VARIABLES
    setup,      \* bus, the RequestInfos called and registered, interceptors, MaxAttempts
    ctx,        \* the caller's context: "live", "canceled" or "expired"
    level,      \* the client interceptor in control; they are numbered from outside
    cpc,        \* "down", "waiting" for a response, "up" or "done"
    attempt,    \* attempt[l]: the count of the retry interceptor l
    result,     \* what comes up the client's chain
    spc,        \* where handleRequest is
    next,       \* the chain's position: how many interceptors have been entered by it
    frames,     \* the interceptors that are active, and whether they have called next twice
    answer,     \* what comes up the server's chain
    response,   \* the response to the last attempt, on its way
    \* history
    published,  \* how many requests were, up to Bound
    told,       \* told[l]: the first two observations of the metrics interceptor l
    observed,   \* observed[i]: those of the server, whether an error, for this attempt
    served      \* what the service returned, or its panic, for the last attempt

callVars == <<setup, ctx>>
clientVars == <<level, cpc, attempt, result, told>>
serverVars == <<spc, next, frames, answer, response, observed, served>>
vars == <<callVars, clientVars, serverVars, published>>

Outer == setup.outer
Chain == setup.chain

\* getRequestInterceptors: those of the client come before those of the call.
ClientChain(base, own) == base \o own

Init ==
    /\ \E s \in Setups :
          setup = [bus |-> s.bus, call |-> s.call, registered |-> s.registered,
                   kind |-> s.kind, outer |-> ClientChain(s.base, s.own),
                   max |-> s.max, chain |-> s.chain]
    /\ ctx = "live"
    /\ level = 1 /\ cpc = "down"
    /\ attempt = [l \in DOMAIN Outer |-> 0]
    /\ result = Nil
    /\ told = [l \in DOMAIN Outer |-> << >>]
    /\ spc = "idle" /\ next = 0 /\ frames = << >>
    /\ answer = Nil /\ response = << >>
    /\ observed = [i \in DOMAIN Chain |-> << >>]
    /\ served = << >>
    /\ published = 0

----------------------------------------------------------------------------
\* The client.

\* The caller's context ends.
EndContext ==
    /\ ctx = "live" /\ cpc # "done"
    /\ ctx' \in {"canceled", "expired"}
    /\ UNCHANGED <<setup, clientVars, serverVars, published>>

\* The request, published on the channel of its method, reaches the subscription.
Reaches ==
    SameChannel(setup.bus, Channel(setup.call, "REQ"), Channel(setup.registered, setup.kind))

\* From the interceptor in control down to newRPC, each retry begins to count.
\* The request is published, or not.  A request is malformed for the handler or not.
Publish ==
    /\ cpc = "down"
    /\ attempt' = [l \in DOMAIN Outer |-> IF l >= level THEN 1 ELSE attempt[l]]
    /\ level' = Len(Outer)
    /\ response' = << >> /\ served' = << >> /\ frames' = << >> /\ next' = 0
    /\ answer' = Nil
    /\ observed' = [i \in DOMAIN Chain |-> << >>]
    /\ \/ /\ cpc' = "up" /\ result' = PsrpcError("internal")
          /\ spc' = "idle" /\ UNCHANGED published
       \/ /\ cpc' = "waiting" /\ UNCHANGED result
          /\ spc' = IF Reaches THEN "received" ELSE "idle"
          /\ published' = IF published < Bound THEN published + 1 ELSE Bound
    /\ UNCHANGED <<callVars, told>>

GoUp(err) ==
    /\ cpc' = "up"
    /\ result' = err
    /\ UNCHANGED <<callVars, level, attempt, told, spc, next, frames, answer, observed, served,
                   published>>

\* A response that cannot be deserialized is an error of its own.
TakeResponse ==
    /\ cpc = "waiting" /\ response # << >>
    /\ GoUp(IF response[1].unreadable
            THEN PsrpcError("malformed_result") ELSE FromWire(response[1].wire))
    /\ response' = << >>

\* The context of the attempt, or the selection of a server, ends.
GiveUp ==
    /\ cpc = "waiting" /\ UNCHANGED response
    /\ \/ ctx = "canceled" /\ GoUp(PsrpcError("canceled"))
       \/ \E code \in TimeoutCodes : GoUp(PsrpcError(code))

\* Mutant of AnotherAttempt: one too many.
OneMoreAttempt(l) == IsTimeout(result) /\ attempt[l] <= setup.max

AnotherAttempt(l) == IsTimeout(result) /\ attempt[l] # setup.max

\* A retry interceptor that gives up, or any other, hands the result on.
Metrics ==
    /\ cpc = "up" /\ level > 0 /\ Outer[level] = "metrics"
    /\ told' = [told EXCEPT ![level] = IF Len(@) < 2 THEN Append(@, result) ELSE @]
    /\ level' = level - 1
    /\ UNCHANGED <<callVars, cpc, attempt, result, serverVars, published>>

RetryReturns ==
    /\ cpc = "up" /\ level > 0 /\ Outer[level] = "retry"
    /\ result = Nil \/ ~AnotherAttempt(level)
    /\ level' = level - 1
    /\ UNCHANGED <<callVars, cpc, attempt, result, told, serverVars, published>>

\* It has an attempt left.  The wait is for no time, and the select takes either
\* branch when the caller's context has ended.
RetryAgain ==
    /\ cpc = "up" /\ level > 0 /\ Outer[level] = "retry"
    /\ result # Nil /\ AnotherAttempt(level)
    /\ attempt' = [attempt EXCEPT ![level] = IF @ < Bound THEN @ + 1 ELSE Bound]
    /\ \/ cpc' = "down" /\ level' = level + 1 /\ UNCHANGED result
       \/ /\ ctx # "live"
          /\ result' = PsrpcError("canceled") /\ level' = level - 1 /\ UNCHANGED cpc
    /\ UNCHANGED <<callVars, told, serverVars, published>>

Done ==
    /\ cpc = "up" /\ level = 0
    /\ cpc' = "done"
    /\ UNCHANGED <<callVars, level, attempt, result, told, serverVars, published>>

----------------------------------------------------------------------------
\* The server, while the attempt lasts.

Attempted == cpc = "waiting"

Top == frames[Len(frames)]
Pop == SubSeq(frames, 1, Len(frames) - 1)

\* handleRequest: the chain is entered unless the request is malformed.
Receive ==
    /\ Attempted /\ spc = "received"
    /\ \/ spc' = "returning" /\ answer' = PsrpcError("malformed_request")
       \/ spc' = (IF Chain = << >> THEN "handler" ELSE "next") /\ UNCHANGED answer
    /\ UNCHANGED <<callVars, clientVars, next, frames, response, observed, served, published>>

\* state.next: the last interceptor, again and again, once the position is there.
Enter ==
    /\ Attempted /\ spc = "next"
    /\ next' = IF next < Len(Chain) - 1 THEN next + 1 ELSE next
    /\ frames' = Append(frames, [at |-> IF next < Len(Chain) - 1 THEN next' ELSE Len(Chain),
                                 twice |-> FALSE])
    /\ spc' = "body"
    /\ UNCHANGED <<callVars, clientVars, answer, response, observed, served, published>>

\* The last interceptor was given the handler as its next, the others state.next.
NextOf(frame) == IF frame.at = Len(Chain) THEN "handler" ELSE "next"

\* The interceptor refuses the request, or calls its next.
Body ==
    /\ Attempted /\ spc = "body"
    /\ IF Chain[Top.at] = "refuse"
       THEN spc' = "returning" /\ answer' = PsrpcError("permission_denied") /\ frames' = Pop
       ELSE spc' = NextOf(Top) /\ UNCHANGED <<answer, frames>>
    /\ UNCHANGED <<callVars, clientVars, next, response, observed, served, published>>

Panic == [Nil EXCEPT !.type = "panic"]

\* The service returns, or panics.
Handler ==
    /\ Attempted /\ spc = "handler"
    /\ \/ spc' = "panicking" /\ served' = <<Panic>> /\ UNCHANGED answer
       \/ \E err \in Failures \cup {Nil} :
             spc' = "returning" /\ answer' = err /\ served' = <<err>>
    /\ UNCHANGED <<callVars, clientVars, next, frames, response, observed, published>>

Observe(isError) ==
    observed' = IF Chain[Top.at] = "metrics"
                THEN [observed EXCEPT ![Top.at] = Append(@, isError)] ELSE observed

\* An interceptor has what its next returned: "again" calls it once more.
Return ==
    /\ Attempted /\ spc = "returning" /\ frames # << >>
    /\ IF Chain[Top.at] = "again" /\ answer # Nil /\ ~Top.twice
       THEN /\ frames' = Append(Pop, [Top EXCEPT !.twice = TRUE])
            /\ spc' = NextOf(Top) /\ UNCHANGED observed
       ELSE /\ frames' = Pop /\ UNCHANGED spc
            /\ Observe(answer # Nil)
    /\ UNCHANGED <<callVars, clientVars, next, answer, response, served, published>>

\* Mutant of Unwind: the recovery lets a panic pass.
UnwindAll ==
    /\ Attempted /\ spc = "panicking" /\ frames # << >>
    /\ frames' = Pop /\ Observe(FALSE)
    /\ UNCHANGED <<callVars, clientVars, spc, next, answer, response, served, published>>

\* A panic unwinds the frames up to a recovery.  The error that a metrics
\* interceptor passes to its observer has not been assigned then.
Unwind ==
    /\ Attempted /\ spc = "panicking" /\ frames # << >>
    /\ frames' = Pop
    /\ IF Chain[Top.at] = "recover"
       THEN spc' = "returning" /\ answer' = PsrpcError("internal")
       ELSE UNCHANGED <<spc, answer>>
    /\ Observe(FALSE)
    /\ UNCHANGED <<callVars, clientVars, next, response, served, published>>

\* Nobody recovers: the process ends.
Crash ==
    /\ Attempted /\ spc = "panicking" /\ frames = << >>
    /\ spc' = "crashed"
    /\ UNCHANGED <<callVars, clientVars, next, frames, answer, response, observed, served,
                   published>>

\* sendResponse: a response that cannot be serialized is an error; one that can may
\* be unreadable for the client, and any may be lost.
SendResponse ==
    /\ Attempted /\ spc = "returning" /\ frames = << >>
    /\ spc' = "responded"
    /\ \E err \in {answer} \cup (IF answer = Nil THEN {PsrpcError("malformed_result")} ELSE {}),
          unreadable \in BOOLEAN :
          /\ unreadable => err = Nil
          /\ response' = <<[wire |-> Wire(err), unreadable |-> unreadable]>>
    /\ UNCHANGED <<callVars, clientVars, next, frames, answer, observed, served, published>>

----------------------------------------------------------------------------
ClientNext ==
    Publish \/ TakeResponse \/ GiveUp \/ Metrics \/ RetryReturns \/ RetryAgain \/ Done

ServerNext ==
    Receive \/ Enter \/ Body \/ Handler \/ Return \/ Unwind \/ Crash \/ SendResponse

Next == EndContext \/ ClientNext \/ ServerNext

\* Every attempt has a deadline, and interceptors return.
Spec == Init /\ [][Next]_vars /\ WF_vars(ClientNext)

----------------------------------------------------------------------------
\* Properties.

\* A request is received by the requests' subscription of a handler for its method
\* and topic, empty parts aside, and by no other: a claim's or a stream's would not
\* survive its type.  Where one name is used, that is the handler of its key.
\* What is for a client reaches no handler; unless the client was given the name of
\* a method as its ID and that has streams without a topic: with one name for both,
\* the handler then receives its own streams' messages.
RightHandler ==
    /\ Reaches =>
          /\ setup.kind = "REQ" /\ setup.registered.method = setup.call.method
          /\ NonEmpty(setup.registered.topic) = NonEmpty(setup.call.topic)
    /\ setup.registered = setup.call /\ setup.kind = "REQ" => Reaches
    /\ setup.kind = "REQ" /\ setup.bus # "nats" =>
          (Reaches <=> HandlerKey(setup.call) = HandlerKey(setup.registered))
    /\ \A c \in Clients, kind \in ClientKinds :
          SameChannel(setup.bus, ClientChannel(c, kind), Channel(setup.registered, setup.kind))
          => /\ setup.bus # "nats" /\ kind = "STR" /\ setup.kind = kind
             /\ setup.registered.method = c /\ NonEmpty(setup.registered.topic) = << >>

Count(kind, q) == Len(SelectSeq(q, LAMBDA x : x = kind))

\* An interceptor that calls next twice skips some of those inside it, but never
\* the last: it is around every run of the handler.  Without one, each is entered
\* once, in order.  With the recovery last the process survives, and the observer
\* of the metrics before it is told what is answered.
ChainHolds ==
    /\ spc = "handler" => Chain = << >> \/ Top.at = Len(Chain)
    /\ "again" \notin ToSet(Chain) =>
          \A d \in DOMAIN frames : frames[d].at = d
    /\ Chain # << >> /\ Last(Chain) = "recover" =>
          /\ spc # "crashed"
          /\ Chain[1] = "metrics" /\ frames = << >> /\ observed[1] # << >> =>
                observed[1] = <<answer # Nil>>

\* The last attempt had its response.
Heard == spc = "responded" /\ response = << >>

\* The caller has been told what the service returned.  An error without a text, which a
\* status of gRPC can be as well, is told as a success.
Told(err) ==
    IF ~err.text
    THEN result = Nil \/ result = PsrpcError("malformed_result")
    ELSE CASE err.type = "psrpc" -> result.code = IF err.code = OK THEN "unknown" ELSE err.code
           [] err.type = "grpc"  -> ToGRPC(result.code) = err.code
           [] OTHER              -> result.code = "unknown"

\* Unless an interceptor answers or the caller's context has ended, the caller is told of
\* an error of the service by its code, if the error has a text; and of a success just
\* when the service had one that can be read, or an error without a text, of psrpc, of
\* gRPC or any other: that the code keeps them apart from successes is not so.  A code that
\* came to the service by way of gRPC keeps its HTTP status: only NotAcceptable, which
\* gRPC does not know, does not.  A metrics interceptor outside the retries observes
\* once, what the caller is told.
ToldTrue ==
    cpc = "done" =>
        /\ result = Nil => served # << >> /\ served # <<Panic>> /\ ~served[1].text
        /\ Heard /\ ctx = "live" /\ ToSet(Chain) \subseteq {"metrics"}
              /\ served # << >> =>
              /\ Told(served[1])
              /\ served[1].text => result # Nil
              /\ \A code \in Codes \ {OK, "not_acceptable"} :
                    served[1].type = "grpc" /\ served[1].text /\ served[1].code = ToGRPC(code) =>
                        ToHTTP(result.code) = ToHTTP(code)
        /\ Outer # << >> /\ Outer[1] = "metrics" => told[1] = <<result>>

\* With MaxAttempts at least one the call ends, and nested retries have made no more
\* attempts than their product.
RetriesEnd ==
    setup.max # 0 ~>
        cpc = "done" /\ published <= setup.max ^ Count("retry", Outer)
=============================================================================
