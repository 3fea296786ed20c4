------------------------- MODULE MCServerLifecycle -------------------------
EXTENDS ServerLifecycle

CONSTANTS h1, h2, c1, c2, d1, q1, k

TwoHandlers == {h1, h2}
OneKey == [h \in TwoHandlers |-> k]

\* One Close that waits and one that does not.
OneCloser == {c1}
TwoClosers == {c1, c2}
Forces == [c \in TwoClosers |-> c = c2]
FirstForce == [c \in OneCloser |-> FALSE]

NoRemover == {}
OneRemover == {d1}
RemovedKeys == [d \in OneRemover |-> k]

OneRequest == {q1}
Targets == [q \in OneRequest |-> k]
=============================================================================
