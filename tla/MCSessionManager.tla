--------------------------- MODULE MCSessionManager ---------------------------
(* Small owners for TLC: three sessions, of which s1 and s2 work in          *)
(* overlapping trees, and p1 runs s1 and s2 while p2 runs s3.                *)
EXTENDS SessionManager, TLC

CONSTANTS s1, s2, s3, p1, p2

MCSessions == {s1, s2, s3}
MCProviders == {p1, p2}
OneProvider == [s \in MCSessions |-> p1]
TwoProviders == [s \in MCSessions |-> IF s = s3 THEN p2 ELSE p1]
Apart == {<<s, s>> : s \in MCSessions}
Nested == Apart \cup {<<s1, s2>>, <<s2, s1>>}
Everywhere == MCSessions \X MCSessions
\* A view for the runs whose properties do not read the history of work taken.
WithoutHistory == <<live, opening, inFlight, updating, nextReservation, nextLease,
                    task, mail>>

SameTasks == Permutations(Tasks)
SameTasksAndSessions == Permutations(Tasks) \cup Permutations(MCSessions)
=============================================================================
