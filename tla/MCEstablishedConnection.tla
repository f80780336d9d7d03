------------------------ MODULE MCEstablishedConnection ------------------------
(* A connection on its runtime, with small sets of threads and operations    *)
(* for TLC.                                                                  *)
EXTENDS EstablishedConnection

TwoUsers == {"u1", "u2"}

\* The first user makes two calls, one of which may be Start; the second
\* one, and the handlers of each thread, make one.
FewCalls == [t \in TwoUsers \cup {"callback", "worker"} |-> IF t = "u1" THEN 2 ELSE 1]

\* The second user may open the connection.
SecondUser == {"u2"}

OneRead == {"r1"}
TwoWrites == {"w1", "w2"}
OneByte == [o \in TwoWrites |-> 1]

==============================================================================
