-------------------------- MODULE ConfigPropagation --------------------------
(***************************************************************************)
(* What the manager promises about one config, whatever the sync mode and  *)
(* whatever fails: versions are decided one at a time in the snapshot      *)
(* store, and a replica serves nothing or a decided version.  It moves     *)
(* forward among them, except when it starts or is told of a rollback: it  *)
(* then takes an active one.  In the two-phase mode it also obeys a commit *)
(* that arrives late, whatever it serves by then.                          *)
(***************************************************************************)
EXTENDS SnapshotStore

CONSTANTS
    Replicas,
    LateCommits  \* whether a decided version may be taken out of order

VARIABLES
    history,  \* the versions decided so far
    active,   \* the versions now active
    served    \* the version each replica serves, NoVersion if none

vars == <<history, active, served>>

\* A decision may supersede any of the versions active before it.
Decide(v) ==
    /\ history' = history \cup {v}
    /\ \E kept \in SUBSET active : active' = kept \cup {v}
    /\ UNCHANGED served

Serve(r, v) ==
    /\ served' = [served EXCEPT ![r] = v]
    /\ UNCHANGED <<history, active>>

Advance(r) == \E v \in history : Forward(v, served[r]) /\ Serve(r, v)
Reload(r) == \E v \in active : Serve(r, v)
Obey(r) == LateCommits /\ \E v \in history : Serve(r, v)
Stop(r) == Serve(r, NoVersion)

Init ==
    /\ history = {}
    /\ active = {}
    /\ served = [r \in Replicas |-> NoVersion]

Next ==
    \/ \E v \in Version : Decide(v)
    \/ \E r \in Replicas : Advance(r) \/ Reload(r) \/ Obey(r) \/ Stop(r)

Spec == Init /\ [][Next]_vars

\* What follows for a reader of a config: it never sees a version that was not
\* decided, and a version that is active was decided.
ServesDecided ==
    /\ active \subseteq history
    /\ \A r \in Replicas : served[r] \in history \cup {NoVersion}
=============================================================================
