--------------------------- MODULE MCEventualSync ---------------------------
(***************************************************************************)
(* Small instances of EventualSync for TLC.                                *)
(***************************************************************************)
EXTENDS EventualSync, TLC

CONSTANTS r1, r2, c1, c2

\* No validator refuses anything.
AcceptAll == [r \in Replicas |-> {}]
\* One replica runs a build whose validator refuses one of the payloads.
OneRejects == [r \in Replicas |-> IF r = r2 THEN {c2} ELSE {}]

NoFaults == {}
AllFaults == {"crash", "lose", "call", "session", "evict", "hook", "delete", "reading"}
\* The session that took the lock keeps it until it releases it.
HonestLock == AllFaults \ {"session"}
\* The last-modified time of the source never goes back either.
HonestTime == HonestLock \ {"delete", "reading"}
Deletes == {"delete"}
SessionLoss == {"session"}
Recoverable == {"crash", "lose", "call"}

\* One initial state stands for those that differ in the name of a payload or
\* in the first version: temporal properties are checked without symmetry.
LiveInit == Init /\ source = [version |-> 1, content |-> c1]
LiveSpec == LiveInit /\ [][Next]_vars /\ Fairness

Interchangeable == Permutations(Replicas) \cup Permutations(Contents)
=============================================================================
