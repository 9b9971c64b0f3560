--------------------------- MODULE MCPresentation ---------------------------
EXTENDS Presentation

\* Two devices on their own ports, each with its own profile.
TwoPorts == [s \in Sources |-> s]
OwnHash == [s \in Sources |-> s]
\* Three devices; the second and the third share a port.
SharedPort == [s \in Sources |-> IF s = 1 THEN 1 ELSE 2]
=============================================================================
