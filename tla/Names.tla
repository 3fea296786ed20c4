-------------------------------- MODULE Names --------------------------------
(***************************************************************************)
(* The names of the channels of a service, its clients and its handlers    *)
(* (pkg/info/channels.go).                                                 *)
(*                                                                         *)
(* A name is the sequence of its parts and delimiters.  Sanitizing a part  *)
(* replaces every character but letters, digits and underscores, the       *)
(* delimiters among them, by its code in a form no such part contains: it  *)
(* is one to one and leaves nothing to confuse with a delimiter, so a part *)
(* is a string of its own here, and the empty part is nothing at all.      *)
(* Service and method come from the proto file, and are identifiers.       *)
(***************************************************************************)
EXTENDS Sequences, SequencesExt

CONSTANT Service

\* What is published, and subscribed to, for a method.
Kinds == {"REQ", "RCLAIM", "STR"}

Part(s) == IF s = "" THEN << >> ELSE <<s>>

Parts(q) == [i \in DOMAIN q |-> Part(q[i])]

\* appendChannelParts: a delimiter follows a part that was not empty, whatever
\* comes next.
Join(delim, parts) ==
    FoldLeft(LAMBDA b, part : [out |-> b.out \o (IF b.prefix THEN <<delim>> ELSE << >>) \o part,
                               prefix |-> part # << >>],
             [out |-> << >>, prefix |-> FALSE], parts).out

HandlerKey(i) == Join(".", <<Part(i.method), Join(".", Parts(i.topic))>>)

Legacy(i, kind) ==
    Join("|", <<Part(Service), Part(i.method), Join("|", Parts(i.topic)), <<kind>>>>)

NonEmpty(topic) == SelectSeq(topic, LAMBDA s : s # "")

\* formatServerChannel: a delimiter comes before a part that is not empty.
Server(topic, queue) ==
    <<"SRV", Service>> \o NonEmpty(topic) \o (IF queue THEN <<"Q">> ELSE << >>)

\* Mutant of Local: the method is taken from the server channel.
LocalKind(method, kind) == <<kind>>

Local(method, kind) == <<method, kind>>

\* Only requests of a queue method go to the queue.
Channel(i, kind) ==
    [legacy |-> Legacy(i, kind),
     server |-> Server(i.topic, i.queue /\ kind = "REQ"),
     local  |-> Local(i.method, kind)]

\* What is for a client: responses, claims and the messages of its streams.
ClientKinds == {"RES", "CLAIM", "STR"}

ClientChannel(client, kind) ==
    [legacy |-> Join("|", <<Part(Service), Part(client), <<kind>>>>),
     server |-> <<"CLI", Service, client, kind>>,
     local  |-> << >>]

\* Local bus and Redis use one name, NATS two: those of the subject and of the
\* router's entry.
SameChannel(bus, a, b) ==
    IF bus = "nats" THEN a.server = b.server /\ a.local = b.local ELSE a.legacy = b.legacy
=============================================================================
