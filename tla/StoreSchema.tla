---------------------------- MODULE StoreSchema ----------------------------
(***************************************************************************)
(* Store::open on one database file, by any number of processes at once.   *)
(* Each SQL statement commits by itself (the code opens no transaction,    *)
(* and execute_batch adds none), so an opener may die, or find the         *)
(* database locked and give up, between any two statements of a            *)
(* migration, and the statements of two openers interleave.                *)
(***************************************************************************)
EXTENDS Naturals, Sequences

CONSTANTS
    Processes,
    Releases    \* the schema versions the database may have been left with

ASSUME ReleasesAssumption == Releases \subseteq Nat

VARIABLES
    schema,     \* the tables, columns and triggers of the database
    version,    \* schema_version of store_meta; 0 when it is not there
    opener      \* where in Store::init a process is, or Closed or Opened

schema_vars == <<schema, version, opener>>

CurrentVersion == 5

Table(t) == [kind |-> "table", of |-> t, name |-> ""]
Column(t, c) == [kind |-> "column", of |-> t, name |-> c]
Trigger(t) == [kind |-> "trigger", of |-> t, name |-> ""]

\* The columns that releases before CurrentVersion did not have.
LateColumns(t) ==
    CASE t = "execution_tickets" -> {Column(t, "payload_json")}
      [] t \in {"sandbox_results", "proofs"} ->
            {Column(t, c) : c \in {"artifact_hash", "signature_ref", "signing_key_ref"}}
      [] OTHER -> {}

\* What each migration makes sure of, in order; the last entry stands for
\* install_append_only_triggers, which every open runs.  The two triggers of a
\* table, against UPDATE and against DELETE, are taken as one statement.
Statements == <<
    << Table("run_states"), Table("run_usage"), Table("execution_tickets"),
       Table("sandbox_results"), Table("proofs"), Table("approval_grants"),
       Table("ledger_events"), Trigger("ledger_events"), Trigger("approval_grants"),
       Trigger("sandbox_results"), Trigger("proofs") >>,
    << Column("execution_tickets", "payload_json") >>,
    << Table("sandbox_results"), Table("proofs"),
       Column("sandbox_results", "artifact_hash"), Column("sandbox_results", "signature_ref"),
       Column("sandbox_results", "signing_key_ref"), Column("proofs", "artifact_hash"),
       Column("proofs", "signature_ref"), Column("proofs", "signing_key_ref") >>,
    << Table("policy_decisions") >>,
    << Table("capability_contracts"), Table("executor_manifests") >>,
    << Trigger("capability_contracts"), Trigger("executor_manifests"),
       Trigger("policy_decisions"), Trigger("ledger_events"), Trigger("approval_grants"),
       Trigger("sandbox_results"), Trigger("proofs") >> >>

Stages == 1..CurrentVersion + 1

\* All that the stages up to v make sure of is there.
Complete(v) ==
    \A w \in Stages : w <= v =>
        \A i \in DOMAIN Statements[w] : Statements[w][i] \in schema

Reached(v, i) == [at |-> v, next |-> i, missing |-> FALSE]
Closed == Reached(0, 1)
Opened == Reached(CurrentVersion + 2, 1)

Opening(p) == opener[p].at \in Stages
AtEnd(p) == opener[p].next > Len(Statements[opener[p].at])
Statement(p) == Statements[opener[p].at][opener[p].next]

\* A database that does not exist yet, or that an older, this or a newer release left.
Left(v) == UNION {{Statements[w][i] : i \in DOMAIN Statements[w]} : w \in {u \in Stages : u <= v}}

OpenInit ==
    /\ version \in Releases
    /\ schema = Left(version)
    /\ opener = [p \in Processes |-> Closed]

-----------------------------------------------------------------------------
BeginOpen_SetsVersion(p) ==
    /\ opener[p] = Closed
    /\ version <= CurrentVersion
    /\ opener' = [opener EXCEPT ![p] = Reached(version + 1, 1)]
    /\ version' = IF version < CurrentVersion THEN version + 1 ELSE version
    /\ UNCHANGED schema

\* Store::init refuses a newer version, and starts with the first migration
\* above the version it reads.
BeginOpen(p) ==
    /\ opener[p] = Closed
    /\ version <= CurrentVersion
    /\ opener' = [opener EXCEPT ![p] = Reached(version + 1, 1)]
    /\ UNCHANGED <<schema, version>>

Advance(p) == opener' = [opener EXCEPT ![p] = Reached(@.at, @.next + 1)]

\* CREATE TABLE or TRIGGER IF NOT EXISTS; a new table has all its columns.
Create(p) ==
    /\ Opening(p) /\ ~AtEnd(p)
    /\ LET s == Statement(p)
       IN /\ s.kind # "column"
          /\ schema' = schema \union {s} \union
                (IF s.kind = "table" /\ s \notin schema THEN LateColumns(s.of) ELSE {})
    /\ Advance(p)
    /\ UNCHANGED version

\* ensure_column reads the columns of the table ...
LookForColumn(p) ==
    /\ Opening(p) /\ ~AtEnd(p)
    /\ Statement(p).kind = "column" /\ ~opener[p].missing
    /\ IF Statement(p) \in schema
       THEN Advance(p)
       ELSE opener' = [opener EXCEPT ![p].missing = TRUE]
    /\ UNCHANGED <<schema, version>>

\* ... and adds the one that was missing, which fails, and the open with it,
\* when another process has added it since.
AddColumn(p) ==
    /\ Opening(p) /\ ~AtEnd(p)
    /\ opener[p].missing
    /\ IF Statement(p) \in schema
       THEN opener' = [opener EXCEPT ![p] = Closed] /\ UNCHANGED schema
       ELSE schema' = schema \union {Statement(p)} /\ Advance(p)
    /\ UNCHANGED version

\* A migration ends with set_schema_version, whatever the version is by now.
SetVersion(p) ==
    /\ Opening(p) /\ AtEnd(p)
    /\ opener[p].at <= CurrentVersion
    /\ version' = opener[p].at
    /\ opener' = [opener EXCEPT ![p] = Reached(opener[p].at + 1, 1)]
    /\ UNCHANGED schema

FinishOpen(p) ==
    /\ Opening(p) /\ AtEnd(p)
    /\ opener[p].at > CurrentVersion
    /\ opener' = [opener EXCEPT ![p] = Opened]
    /\ UNCHANGED <<schema, version>>

\* A statement fails, or the process dies.
GiveUp(p) ==
    /\ Opening(p)
    /\ opener' = [opener EXCEPT ![p] = Closed]
    /\ UNCHANGED <<schema, version>>

Open(p) ==
    \/ BeginOpen(p) \/ Create(p) \/ LookForColumn(p) \/ AddColumn(p)
    \/ SetVersion(p) \/ FinishOpen(p) \/ GiveUp(p)

-----------------------------------------------------------------------------
\* A store that opened has every table, column and append-only trigger, whatever
\* release made the file, wherever earlier openers died, and whichever other
\* process migrates it at the same time, turning the version back as it goes.
OpenIsComplete == \A p \in Processes : opener[p] = Opened => Complete(CurrentVersion + 1)
=============================================================================
