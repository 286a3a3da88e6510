--------------------------- MODULE SnapshotStore ---------------------------
(***************************************************************************)
(* The table director.config_snapshots of storage/postgres, for the one    *)
(* collection the model follows: a function from versions to rows.  Each   *)
(* operator is one statement or one transaction of storage/postgres, as a  *)
(* function from the table before it to the table after it.                *)
(*                                                                         *)
(* A version is the source's last-modified time.  NoVersion is the zero    *)
(* config.Version of a replica that holds nothing; version 0 is            *)
(* 0001-01-01T00:00:00Z, what a source without a LastModified signal       *)
(* reports: a real version whose time equals that of NoVersion.            *)
(***************************************************************************)
EXTENDS Integers

CONSTANTS
    MaxVersion,  \* the last tick of the clock that versions are minted from
    Contents,    \* payloads of the collection
    NoContent    \* the payload of a row that does not exist

ASSUME SnapshotStoreAssumption ==
    /\ MaxVersion \in Nat \ {0}
    /\ NoContent \notin Contents

Version == 0 .. MaxVersion
NoVersion == -1
AnyVersion == Version \cup {NoVersion}

\* config.Version.Time and After: times are compared, not the raw strings.
Time(v) == IF v = NoVersion THEN 0 ELSE v
After(v, w) == Time(v) > Time(w)

\* The forward-only rule of every automatic path: a replica that holds nothing
\* takes any version, another one only a newer version.
Forward(v, local) == local = NoVersion \/ After(v, local)

RowStatus == {"absent", "pending", "active", "inactive", "failed"}
Row == [status : RowStatus, content : Contents \cup {NoContent}]
Table == [Version -> Row]
NoRow == [status |-> "absent", content |-> NoContent]
EmptyTable == [v \in Version |-> NoRow]

Exists(table, v) == table[v].status # "absent"
ActiveVersions(table) == {v \in Version : table[v].status = "active"}

\* Seeded bug: the status filter of the query is missing.
ActiveSnapshotUnfiltered(table) == {NoVersion} \cup {v \in Version : Exists(table, v)}

\* GetActiveSnapshot: an active row, or NoVersion for ErrSnapshotNotFound.
ActiveSnapshot(table) ==
    IF ActiveVersions(table) = {} THEN {NoVersion} ELSE ActiveVersions(table)

\* INSERT ... ON CONFLICT DO NOTHING: a row that is already there is kept.
SaveSnapshot(table, v, c) ==
    IF Exists(table, v)
    THEN table
    ELSE [table EXCEPT ![v] = [status |-> "pending", content |-> c]]

\* Seeded bug: the demotion of the previous active row is missing.
ActivateSnapshotAlone(table, seen, v) == [table EXCEPT ![v].status = "active"]

\* The transaction of ActivateSnapshot, at its commit: the rows its first
\* statement saw active are demoted, then the row is promoted whatever its
\* status was.  Under READ COMMITTED a row that became active after that
\* statement started is not among them.
ActivateSnapshot(table, seen, v) ==
    [w \in Version |->
        [status  |-> IF w = v THEN "active"
                     ELSE IF w \in seen /\ table[w].status = "active" THEN "inactive"
                     ELSE table[w].status,
         content |-> table[w].content]]

\* FailSnapshot asks for no status: an active row fails like any other.
FailSnapshot(table, v) ==
    IF Exists(table, v) THEN [table EXCEPT ![v].status = "failed"] ELSE table

\* Retention: of the rows older than the cutoff, all but the active go.
Prunable(table, old) ==
    {v \in old : Exists(table, v) /\ table[v].status # "active"}

DeleteOldSnapshots(table, old) ==
    [v \in Version |-> IF v \in Prunable(table, old) THEN NoRow ELSE table[v]]
=============================================================================
