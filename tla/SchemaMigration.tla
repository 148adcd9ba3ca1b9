---------------------------- MODULE SchemaMigration ----------------------------
(***************************************************************************)
(* Opening the database: SQLiteStore creates missing tables and columns    *)
(* and, below version 2, rewrites the legacy records.  The code enters a   *)
(* transaction first, but executescript commits it, so that every later    *)
(* statement is a transaction of its own: a process may end, and another   *)
(* one open the same file or serve requests from it, between any two.      *)
(***************************************************************************)
EXTENDS Naturals

CONSTANTS
  Processes,  \* processes that open the database file
  Runs,       \* run_id values, each with at most one proposal
  Crashes     \* TRUE: a start may end at any statement

VARIABLES
  version,  \* PRAGMA user_version
  columns,  \* the columns of proposals that older tables lack
  row,      \* per run, its row, its proposal, its event and its audit rows
  starter   \* what each process is doing, with its local variables

vars == <<version, columns, row, starter>>

Columns == {"scenario", "scenario_kind"}

Active == {"proposed", "approved", "executing"}
Statuses == Active \cup {"succeeded", "expired"}

(***************************************************************************)
(* origin says who wrote the run; it is no column.  notes counts the       *)
(* proposal_expired rows of its audit trail.                               *)
(***************************************************************************)
Rows == [origin   : {"absent", "legacy", "current"},
         run      : Statuses,
         proposal : Statuses,
         event    : {"arbitrary", "removed", "sanitized"},
         trail    : {"raw", "safe"},
         notes    : Nat]

StarterStates ==
  [pc   : {"down", "create", "inspect", "alter", "select", "events", "audit",
           "actives", "closing", "noting", "serving"},
   todo : SUBSET Runs,
   add  : SUBSET Columns,
   at   : SUBSET Runs]

Down == [pc |-> "down", todo |-> {}, add |-> {}, at |-> {}]

TypeOK ==
  /\ version \in {0, 2}
  /\ columns \in SUBSET Columns
  /\ row \in [Runs -> Rows]
  /\ starter \in [Processes -> StarterStates]

NewRow ==
  [origin |-> "current", run |-> "proposed", proposal |-> "proposed",
   event |-> "sanitized", trail |-> "safe", notes |-> 0]

LegacyRow(status) ==
  [origin |-> "legacy", run |-> status, proposal |-> status,
   event |-> "arbitrary", trail |-> "raw",
   notes |-> IF status = "expired" THEN 1 ELSE 0]

Absent == [LegacyRow("succeeded") EXCEPT !.origin = "absent"]

Exists(k) == row[k].origin # "absent"
IsActive(k) == Exists(k) /\ row[k].proposal \in Active

(* A database of the time before the scenario columns, or an empty one.    *)
Init ==
  /\ version = 0
  /\ columns = {}
  /\ row \in [Runs -> {Absent} \cup {LegacyRow(s) : s \in Statuses}]
  /\ starter = [p \in Processes |-> Down]

At(p, pc) == starter[p].pc = pc
Goto(p, pc) == starter' = [starter EXCEPT ![p].pc = pc]
GotoWith(p, pc, todo) == starter' = [starter EXCEPT ![p].pc = pc, ![p].todo = todo]
Done(p, k) == starter' = [starter EXCEPT ![p].todo = @ \ {k}]

-------------------------------------------------------------------------------

Open(p) ==
  /\ At(p, "down")
  /\ Goto(p, "create")
  /\ UNCHANGED <<version, columns, row>>

(* CREATE TABLE IF NOT EXISTS: tables that exist are left as they are.     *)
CreateTables(p) ==
  /\ At(p, "create")
  /\ columns' \in IF \E k \in Runs : Exists(k) THEN {columns} ELSE {columns, Columns}
  /\ Goto(p, "inspect")
  /\ UNCHANGED <<version, row>>

\* Faulty: the columns are added whether they exist or not.
InspectColumns_unread(p) ==
  /\ At(p, "inspect")
  /\ starter' = [starter EXCEPT ![p].pc = "alter", ![p].add = Columns]
  /\ UNCHANGED <<version, columns, row>>

InspectColumns(p) ==
  /\ At(p, "inspect")
  /\ starter' = [starter EXCEPT ![p].pc = "alter", ![p].add = Columns \ columns]
  /\ UNCHANGED <<version, columns, row>>

AddColumn(p, c) ==
  /\ At(p, "alter")
  /\ c \in starter[p].add \ columns
  /\ c = "scenario_kind" => "scenario" \notin starter[p].add
  /\ columns' = columns \cup {c}
  /\ starter' = [starter EXCEPT ![p].add = @ \ {c}]
  /\ UNCHANGED <<version, row>>

(* Another process added the column first: the ALTER and the start fail.   *)
ColumnExists(p) ==
  /\ At(p, "alter")
  /\ starter[p].add \cap columns # {}
  /\ starter' = [starter EXCEPT ![p] = Down]
  /\ UNCHANGED <<version, columns, row>>

CheckVersion(p) ==
  /\ At(p, "alter")
  /\ starter[p].add = {}
  /\ Goto(p, IF version < 2 THEN "select" ELSE "serving")
  /\ UNCHANGED <<version, columns, row>>

SelectRuns(p) ==
  /\ At(p, "select")
  /\ GotoWith(p, "events", {k \in Runs : Exists(k)})
  /\ UNCHANGED <<version, columns, row>>

RedactEvent(p, k) ==
  /\ At(p, "events")
  /\ k \in starter[p].todo
  /\ row' = [row EXCEPT ![k].event = "removed"]
  /\ Done(p, k)
  /\ UNCHANGED <<version, columns>>

SelectAudit(p) ==
  /\ At(p, "events")
  /\ starter[p].todo = {}
  /\ GotoWith(p, "audit", {k \in Runs : Exists(k)})
  /\ UNCHANGED <<version, columns, row>>

SanitizeAudit(p, k) ==
  /\ At(p, "audit")
  /\ k \in starter[p].todo
  /\ row' = [row EXCEPT ![k].trail = "safe"]
  /\ Done(p, k)
  /\ UNCHANGED <<version, columns>>

\* Faulty: only proposals nobody has answered yet are selected.
SelectActive_unanswered(p) ==
  /\ At(p, "audit")
  /\ starter[p].todo = {}
  /\ GotoWith(p, "actives", {k \in Runs : Exists(k) /\ row[k].proposal = "proposed"})
  /\ UNCHANGED <<version, columns, row>>

SelectActive(p) ==
  /\ At(p, "audit")
  /\ starter[p].todo = {}
  /\ GotoWith(p, "actives", {k \in Runs : IsActive(k)})
  /\ UNCHANGED <<version, columns, row>>

\* Faulty: the version is stamped with the first proposal.
ExpireProposal_stamped(p, k) ==
  /\ At(p, "actives")
  /\ k \in starter[p].todo
  /\ row' = [row EXCEPT ![k].proposal = "expired"]
  /\ starter' = [starter EXCEPT ![p].pc = "closing", ![p].at = {k}]
  /\ version' = 2
  /\ UNCHANGED columns

(* Expiring a proposal: two UPDATEs and an INSERT, none of them conditional. *)
ExpireProposal(p, k) ==
  /\ At(p, "actives")
  /\ k \in starter[p].todo
  /\ row' = [row EXCEPT ![k].proposal = "expired"]
  /\ starter' = [starter EXCEPT ![p].pc = "closing", ![p].at = {k}]
  /\ UNCHANGED <<version, columns>>

CloseRun(p) ==
  /\ At(p, "closing")
  /\ row' = [k \in Runs |-> IF k \in starter[p].at
                            THEN [row[k] EXCEPT !.run = "expired"] ELSE row[k]]
  /\ Goto(p, "noting")
  /\ UNCHANGED <<version, columns>>

NoteExpiry(p) ==
  /\ At(p, "noting")
  /\ row' = [k \in Runs |-> IF k \in starter[p].at
                            THEN [row[k] EXCEPT !.notes = @ + 1] ELSE row[k]]
  /\ starter' = [starter EXCEPT ![p].pc = "actives", ![p].todo = @ \ starter[p].at,
                                ![p].at = {}]
  /\ UNCHANGED <<version, columns>>

StampVersion(p) ==
  /\ At(p, "actives")
  /\ starter[p].todo = {}
  /\ version' = 2
  /\ Goto(p, "serving")
  /\ UNCHANGED <<columns, row>>

(* The process is killed, or a statement meets a locked database.          *)
StartEnds(p) ==
  /\ Crashes
  /\ starter[p].pc # "down"
  /\ starter' = [starter EXCEPT ![p] = Down]
  /\ UNCHANGED <<version, columns, row>>

(***************************************************************************)
(* What a process does once it is open: a new run is recorded with its     *)
(* proposal, and a proposal moves on together with its run.  IncidentStore *)
(* has these transactions in full.                                         *)
(***************************************************************************)
Record(p, k) ==
  /\ At(p, "serving")
  /\ ~Exists(k)
  /\ row' = [row EXCEPT ![k] = NewRow]
  /\ UNCHANGED <<version, columns, starter>>

Advance(p, k, from, to) ==
  /\ At(p, "serving")
  /\ Exists(k)
  /\ row[k].proposal = from /\ row[k].run = from
  /\ row' = [row EXCEPT ![k].proposal = to, ![k].run = to]
  /\ UNCHANGED <<version, columns, starter>>

Serve(p) ==
  \E k \in Runs :
    \/ Record(p, k)
    \/ Advance(p, k, "proposed", "approved")
    \/ Advance(p, k, "approved", "executing")
    \/ Advance(p, k, "executing", "succeeded")

Start(p) ==
  \/ Open(p) \/ CreateTables(p) \/ InspectColumns(p)
  \/ \E c \in Columns : AddColumn(p, c)
  \/ ColumnExists(p) \/ CheckVersion(p)
  \/ SelectRuns(p) \/ SelectAudit(p) \/ SelectActive(p)
  \/ \E k \in Runs : \/ RedactEvent(p, k) \/ SanitizeAudit(p, k)
                     \/ ExpireProposal(p, k)
  \/ CloseRun(p) \/ NoteExpiry(p) \/ StampVersion(p)

Next == \E p \in Processes : Start(p) \/ StartEnds(p) \/ Serve(p)

Spec == Init /\ [][Next]_vars

(* An operator starts a process again; a process that starts runs on.      *)
FairSpec == Spec /\ \A p \in Processes : WF_vars(Start(p))

-------------------------------------------------------------------------------
(* PROPERTIES                                                              *)

(***************************************************************************)
(* However many starts ended half-way or ran side by side: once the        *)
(* version says 2, and in every process that serves, no legacy event, no   *)
(* raw audit row and no open legacy proposal is left.                      *)
(***************************************************************************)
Migrated(k) ==
  row[k].origin = "legacy" => /\ row[k].event = "removed"
                              /\ row[k].trail = "safe"
                              /\ row[k].proposal \notin Active

ServedIsMigrated ==
  /\ version = 2 => \A k \in Runs : Migrated(k)
  /\ \A p \in Processes : At(p, "serving") => version = 2

(***************************************************************************)
(* The invariant that the proofs use: what a process that migrates has     *)
(* still to rewrite is among the rows it selected, although others migrate *)
(* and serve at the same time; and what it has rewritten stays rewritten.  *)
(***************************************************************************)
IsLegacy(k) == row[k].origin = "legacy"

EventsFollow(p) ==
  /\ At(p, "events") =>
       \A k \in Runs : IsLegacy(k) /\ row[k].event # "removed" => k \in starter[p].todo
  /\ starter[p].pc \in {"audit", "actives", "closing", "noting"} =>
       \A k \in Runs : IsLegacy(k) => row[k].event = "removed"

TrailsFollow(p) ==
  /\ At(p, "audit") =>
       \A k \in Runs : IsLegacy(k) /\ row[k].trail # "safe" => k \in starter[p].todo
  /\ starter[p].pc \in {"actives", "closing", "noting"} =>
       \A k \in Runs : IsLegacy(k) => row[k].trail = "safe"

ProposalsFollow(p) ==
  starter[p].pc \in {"actives", "closing", "noting"} =>
    \A k \in Runs : IsLegacy(k) /\ row[k].proposal \in Active =>
      /\ k \in starter[p].todo
      /\ ~At(p, "actives") => k \notin starter[p].at

IInv ==
  /\ TypeOK
  /\ ServedIsMigrated
  /\ \A p \in Processes : EventsFollow(p) /\ TrailsFollow(p) /\ ProposalsFollow(p)

(***************************************************************************)
(* No legacy proposal is ever approved or executed by this code, whose     *)
(* digest it does not carry: it stays what it was, or expires.             *)
(***************************************************************************)
LegacyIsNeverServed ==
  [][\A k \in Runs : row[k].origin = "legacy" =>
       row'[k].proposal \in {row[k].proposal, "expired"}]_vars

(***************************************************************************)
(* However many starts were killed half-way or failed on a locked database:*)
(* once that ends, the starts that race for the same columns and rows      *)
(* complete the migration, and it stays complete.  (A start that fails on  *)
(* a column that another one added counts as no such end.)                 *)
(***************************************************************************)
Settled == <>[][\A p \in Processes : StartEnds(p) => ColumnExists(p)]_vars

MigrationCompletes ==
  Settled => <>[](version = 2 /\ \A k \in Runs : Migrated(k))

-------------------------------------------------------------------------------
(* EXPECTATIONS of the documents that the code does not meet: README.md    *)
(* says how each one fails; no run checks them.                            *)

(***************************************************************************)
(* An expired proposal is inspectable in the audit history, and its run    *)
(* expired with it, whenever a process serves and none is migrating.       *)
(***************************************************************************)
AtRest == \A p \in Processes : starter[p].pc \in {"down", "serving"}

ExpiryIsWhole ==
  version = 2 /\ AtRest =>
    \A k \in Runs : Exists(k) /\ row[k].proposal = "expired" =>
      row[k].run = "expired" /\ row[k].notes > 0

(***************************************************************************)
(* Only legacy rows are migrated: what a serving process recorded keeps    *)
(* its event, and its proposal does not expire for being old.              *)
(***************************************************************************)
OnlyLegacyIsMigrated ==
  \A k \in Runs : row[k].origin = "current" =>
    row[k].event = "sanitized" /\ row[k].proposal # "expired"

===============================================================================
