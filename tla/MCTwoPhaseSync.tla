-------------------------- MODULE MCTwoPhaseSync --------------------------
(***************************************************************************)
(* Small instances of TwoPhaseSync for TLC.                                *)
(***************************************************************************)
EXTENDS TwoPhaseSync, TLC

CONSTANTS r1, r2, c1, c2

AcceptAll == [r \in Replicas |-> {}]
\* One replica runs a build whose validator refuses one of the payloads.
OneRejects == [r \in Replicas |-> IF r = r2 THEN {c2} ELSE {}]

NoFaults == {}
Faults == {"crash", "lose", "call", "hook", "stall"}

\* Both replicas are up, registered and idle, and serve nothing: the source did
\* not answer when they started.
UpInit ==
    /\ source = [version |-> 1, content |-> c1]
    /\ now = 1
    /\ rows = EmptyTable
    /\ applyLog = [r \in Replicas |-> [v \in Version |-> "none"]]
    /\ lock = Free
    /\ cache = NoEntry
    /\ inbox = [r \in Replicas |-> <<>>]
    /\ pc = [r \in Replicas |-> "idle"]
    /\ mem = [r \in Replicas |-> Nothing]
    /\ job = [r \in Replicas |-> NoJob]
    /\ op = [phase |-> "none", target |-> NoVersion, late |-> {}, count |-> 0]
    /\ decided = {}
    /\ faults = 0
    /\ alive = Replicas
    /\ staged = [r \in Replicas |-> {}]
    /\ ballot = [r \in Replicas |-> NoBallot]

UpSpec == UpInit /\ [][Next]_allVars
LiveSpec == UpSpec /\ Fairness
=============================================================================
