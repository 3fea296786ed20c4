------------------------------ MODULE MCCallPath ------------------------------
EXTENDS CallPath

\* A method and one that has a queue, with the topics that could be confused.
Topics == {<< >>, <<"">>, <<"a">>, <<"a", "">>, <<"", "a">>, <<"Q">>, <<"a", "Q">>, <<"REQ">>}
Infos == [method : {"Get"}, topic : Topics, queue : {FALSE}]
         \cup [method : {"Put"}, topic : Topics, queue : {TRUE}]

Plain == [base |-> << >>, own |-> << >>, max |-> 1, chain |-> << >>]

Routes ==
    {[bus |-> b, call |-> c, registered |-> r, kind |-> k] @@ Plain :
        b \in {"legacy", "nats"}, c \in Infos, r \in Infos, k \in Kinds}

Get == [method |-> "Get", topic |-> << >>, queue |-> FALSE]

\* The interceptors of the client and of the call, and those of the server.
Outers == {<< <<"metrics">>, <<"retry">> >>, << <<"retry">>, <<"metrics">> >>,
           << <<"retry">>, <<"retry">> >>}
Servers == {<< >>, <<"recover">>, <<"metrics", "recover">>, <<"recover", "metrics">>,
            <<"metrics", "refuse", "recover">>, <<"again", "metrics", "recover">>}

Through(c, n, s) ==
    [bus |-> "nats", call |-> Get, registered |-> Get, kind |-> "REQ",
     base |-> c[1], own |-> c[2], max |-> n, chain |-> s]

Chains ==
    {Through(c, 2, s) : c \in Outers, s \in Servers} \cup {Through(c, 0, << >>) : c \in Outers}

MCSetups == Routes \cup Chains

\* Errors of every code, one that is neither psrpc's nor gRPC's, and one of each type
\* without a text.
MCFailures ==
    {PsrpcError(c) : c \in Codes}
    \cup {[PsrpcError(c) EXCEPT !.type = "grpc"] : c \in GrpcCodes \ {OK}}
    \cup {[type |-> "plain", code |-> OK, text |-> TRUE],
          [type |-> "plain", code |-> OK, text |-> FALSE],
          [type |-> "grpc", code |-> "not_found", text |-> FALSE],
          [type |-> "psrpc", code |-> "not_found", text |-> FALSE]}
=============================================================================
