------------------------- MODULE SchemaMigrationProofs -------------------------
(***************************************************************************)
(* Proofs about SchemaMigration, for every number of processes and runs,   *)
(* with and without starts that end half-way.                              *)
(***************************************************************************)
EXTENDS SchemaMigration, TLAPS

(***************************************************************************)
(* What every step leaves of a row: a legacy row was one before, and what  *)
(* was rewritten of it stays rewritten.                                    *)
(***************************************************************************)
Kept(k) ==
  IsLegacy(k)' =>
    /\ IsLegacy(k)
    /\ row[k].event = "removed" => row'[k].event = "removed"
    /\ row[k].trail = "safe" => row'[k].trail = "safe"
    /\ row[k].proposal \notin Active => row'[k].proposal \notin Active

Follows(p) == EventsFollow(p) /\ TrailsFollow(p) /\ ProposalsFollow(p)

USE DEF At, Goto, GotoWith, Done

(***************************************************************************)
(* Changing one field of a row.                                            *)
(***************************************************************************)
LEMMA FieldChange ==
  ASSUME NEW r \in Rows
  PROVE  /\ [r EXCEPT !.event = "removed"] \in Rows
         /\ [r EXCEPT !.trail = "safe"] \in Rows
         /\ [r EXCEPT !.notes = @ + 1] \in Rows
         /\ \A s \in Statuses : /\ [r EXCEPT !.proposal = s] \in Rows
                                /\ [r EXCEPT !.run = s] \in Rows
                                /\ [r EXCEPT !.proposal = s, !.run = s] \in Rows
<1>1. [r EXCEPT !.event = "removed"] \in Rows
  BY DEF Rows
<1>2. [r EXCEPT !.trail = "safe"] \in Rows
  BY DEF Rows
<1>3. [r EXCEPT !.notes = @ + 1] \in Rows
  BY DEF Rows
<1>4. ASSUME NEW s \in Statuses
      PROVE  /\ [r EXCEPT !.proposal = s] \in Rows
             /\ [r EXCEPT !.run = s] \in Rows
             /\ [r EXCEPT !.proposal = s, !.run = s] \in Rows
  BY DEF Rows
<1>5. QED
  BY <1>1, <1>2, <1>3, <1>4

LEMMA NewRowTyped == NewRow \in Rows
BY DEF NewRow, Rows, Statuses, Active

(***************************************************************************)
(* The local variables of one process change.                              *)
(***************************************************************************)
LEMMA StarterTyped ==
  ASSUME TypeOK, NEW p \in Processes, NEW s \in StarterStates
  PROVE  [starter EXCEPT ![p] = s] \in [Processes -> StarterStates]
BY DEF TypeOK

LEMMA DownTyped == Down \in StarterStates
BY DEF Down, StarterStates

(***************************************************************************)
(* A process that does nothing is not misled by what the others do.        *)
(***************************************************************************)
LEMMA OthersFollow ==
  ASSUME IInv, \A k \in Runs : Kept(k),
         NEW p \in Processes, starter'[p] = starter[p]
  PROVE  Follows(p)'
<1>1. EventsFollow(p) /\ TrailsFollow(p) /\ ProposalsFollow(p)
  BY DEF IInv
<1>2. EventsFollow(p)'
  BY <1>1 DEF EventsFollow, Kept, IsLegacy
<1>3. TrailsFollow(p)'
  BY <1>1 DEF TrailsFollow, Kept, IsLegacy
<1>4. ProposalsFollow(p)'
  BY <1>1 DEF ProposalsFollow, Kept, IsLegacy
<1>5. QED
  BY <1>2, <1>3, <1>4 DEF Follows

LEMMA ServedKept ==
  ASSUME IInv, \A k \in Runs : Kept(k), version' = version,
         \A p \in Processes : starter'[p].pc = "serving" => version = 2
  PROVE  ServedIsMigrated'
<1>1. ASSUME NEW k \in Runs, version = 2
      PROVE  Migrated(k)'
  BY <1>1 DEF IInv, ServedIsMigrated, Migrated, Kept, IsLegacy
<1>2. QED
  BY <1>1 DEF ServedIsMigrated

(***************************************************************************)
(* A step of process p: what is left to show of it.                        *)
(***************************************************************************)
LEMMA StepOf ==
  ASSUME IInv, NEW p \in Processes, NEW s \in StarterStates,
         starter' = [starter EXCEPT ![p] = s],
         version' = version, columns' \in SUBSET Columns,
         row' \in [Runs -> Rows], \A k \in Runs : Kept(k),
         s.pc = "serving" => version = 2,
         Follows(p)'
  PROVE  IInv'
<1>1. TypeOK'
  BY StarterTyped DEF IInv, TypeOK
<1>2. starter'[p] = s /\ \A q \in Processes \ {p} : starter'[q] = starter[q]
  BY DEF IInv, TypeOK
<1>3. ServedIsMigrated'
  <2>1. \A q \in Processes : starter'[q].pc = "serving" => version = 2
    BY <1>2 DEF IInv, ServedIsMigrated
  <2>2. QED
    BY <2>1, ServedKept
<1>4. \A q \in Processes : Follows(q)'
  BY <1>2, OthersFollow
<1>5. QED
  BY <1>1, <1>3, <1>4 DEF IInv, Follows

LEMMA RowsUnchanged ==
  ASSUME UNCHANGED row
  PROVE  \A k \in Runs : Kept(k)
BY DEF Kept, IsLegacy

LEMMA Follows_Idle ==
  ASSUME NEW p \in Processes,
         starter'[p].pc \in {"down", "create", "inspect", "alter", "select", "serving"}
  PROVE  Follows(p)'
BY DEF Follows, EventsFollow, TrailsFollow, ProposalsFollow

LEMMA InitIInv == Init => IInv
<1> SUFFICES ASSUME Init PROVE IInv
  OBVIOUS
<1>1. \A s \in Statuses : LegacyRow(s) \in Rows
  BY DEF LegacyRow, Rows
<1>2. Absent \in Rows
  BY <1>1 DEF Absent, Rows, Statuses, LegacyRow
<1>3. TypeOK
  BY <1>1, <1>2, DownTyped DEF Init, TypeOK
<1>4. \A p \in Processes : starter[p].pc = "down"
  BY DEF Init, Down
<1>5. ServedIsMigrated
  BY <1>4 DEF ServedIsMigrated, Init
<1>6. QED
  BY <1>3, <1>4, <1>5 DEF IInv, EventsFollow, TrailsFollow, ProposalsFollow

(***************************************************************************)
(* Steps that write no row.                                                *)
(***************************************************************************)
LEMMA QuietStep ==
  ASSUME IInv, NEW p \in Processes, NEW s \in StarterStates,
         starter' = [starter EXCEPT ![p] = s],
         version' = version, columns' \in SUBSET Columns, row' = row,
         s.pc \in {"down", "create", "inspect", "alter", "select", "serving"},
         s.pc = "serving" => version = 2
  PROVE  IInv'
<1>1. row' \in [Runs -> Rows]
  BY DEF IInv, TypeOK
<1>2. starter'[p] = s
  BY DEF IInv, TypeOK
<1>3. QED
  BY <1>1, <1>2, RowsUnchanged, Follows_Idle, StepOf

LEMMA OpeningSteps ==
  ASSUME IInv, NEW p \in Processes,
         \/ Open(p) \/ CreateTables(p) \/ InspectColumns(p)
         \/ \E c \in Columns : AddColumn(p, c)
         \/ ColumnExists(p) \/ CheckVersion(p) \/ StartEnds(p)
  PROVE  IInv'
<1> DEFINE me == starter[p]
<1>1. me \in StarterStates /\ columns \in SUBSET Columns /\ version \in {0, 2}
  BY DEF IInv, TypeOK
<1>2. CASE Open(p)
  <2>1. [me EXCEPT !.pc = "create"] \in StarterStates /\ [me EXCEPT !.pc = "create"].pc = "create"
    BY <1>1 DEF StarterStates
  <2>2. QED
    BY <1>1, <1>2, <2>1, QuietStep DEF Open
<1>3. CASE CreateTables(p)
  <2>1. [me EXCEPT !.pc = "inspect"] \in StarterStates /\ [me EXCEPT !.pc = "inspect"].pc = "inspect"
    BY <1>1 DEF StarterStates
  <2>2. QED
    BY <1>1, <1>3, <2>1, QuietStep DEF CreateTables
<1>4. CASE InspectColumns(p)
  <2> DEFINE s == [me EXCEPT !.pc = "alter", !.add = Columns \ columns]
  <2>1. s \in StarterStates /\ s.pc = "alter"
    BY <1>1 DEF StarterStates
  <2>2. QED
    BY <1>1, <1>4, <2>1, QuietStep DEF InspectColumns
<1>5. ASSUME NEW c \in Columns, AddColumn(p, c)
      PROVE  IInv'
  <2> DEFINE s == [me EXCEPT !.add = @ \ {c}]
  <2>1. s \in StarterStates /\ s.pc = "alter"
    BY <1>1, <1>5 DEF AddColumn, StarterStates
  <2>2. columns' \in SUBSET Columns
    BY <1>1, <1>5 DEF AddColumn
  <2>3. QED
    BY <1>5, <2>1, <2>2, QuietStep DEF AddColumn
<1>6. CASE ColumnExists(p) \/ StartEnds(p)
  <2>1. Down \in StarterStates /\ Down.pc = "down"
    BY DownTyped DEF Down
  <2>2. QED
    BY <1>1, <1>6, <2>1, QuietStep DEF ColumnExists, StartEnds
<1>7. CASE CheckVersion(p)
  <2> DEFINE pc == IF version < 2 THEN "select" ELSE "serving"
             s == [me EXCEPT !.pc = pc]
  <2>1. pc \in {"select", "serving"} /\ (pc = "serving" => version = 2)
    BY <1>1
  <2>2. s \in StarterStates /\ s.pc = pc
    BY <1>1, <2>1 DEF StarterStates
  <2>3. starter' = [starter EXCEPT ![p] = s] /\ UNCHANGED <<version, columns, row>>
    BY <1>7 DEF CheckVersion
  <2>4. QED
    BY <1>1, <2>1, <2>2, <2>3, QuietStep
<1>8. QED
  BY <1>2, <1>3, <1>4, <1>5, <1>6, <1>7

(***************************************************************************)
(* Selecting the rows to work on.                                          *)
(***************************************************************************)
LEMMA SelectingSteps ==
  ASSUME IInv, NEW p \in Processes,
         SelectRuns(p) \/ SelectAudit(p) \/ SelectActive(p)
  PROVE  IInv'
<1> DEFINE me == starter[p]
<1>1. me \in StarterStates /\ columns \in SUBSET Columns /\ row \in [Runs -> Rows]
  BY DEF IInv, TypeOK
<1>2. EventsFollow(p) /\ TrailsFollow(p)
  BY DEF IInv
<1>3. CASE SelectRuns(p)
  <2> DEFINE s == [me EXCEPT !.pc = "events", !.todo = {k \in Runs : Exists(k)}]
  <2>1. s \in StarterStates /\ s.pc = "events" /\ s.todo = {k \in Runs : Exists(k)}
    BY <1>1 DEF StarterStates
  <2>2. starter' = [starter EXCEPT ![p] = s] /\ UNCHANGED <<version, columns, row>>
    BY <1>3 DEF SelectRuns
  <2>3. starter'[p] = s
    BY <2>2 DEF IInv, TypeOK
  <2>4. Follows(p)'
    BY <2>1, <2>2, <2>3
    DEF Follows, EventsFollow, TrailsFollow, ProposalsFollow, IsLegacy, Exists
  <2>5. QED
    BY <1>1, <2>1, <2>2, <2>4, RowsUnchanged, StepOf
<1>4. CASE SelectAudit(p)
  <2> DEFINE s == [me EXCEPT !.pc = "audit", !.todo = {k \in Runs : Exists(k)}]
  <2>1. s \in StarterStates /\ s.pc = "audit" /\ s.todo = {k \in Runs : Exists(k)}
    BY <1>1 DEF StarterStates
  <2>2. starter' = [starter EXCEPT ![p] = s] /\ UNCHANGED <<version, columns, row>>
    BY <1>4 DEF SelectAudit
  <2>3. starter'[p] = s
    BY <2>2 DEF IInv, TypeOK
  <2>4. \A k \in Runs : IsLegacy(k) => row[k].event = "removed"
    BY <1>2, <1>4 DEF SelectAudit, EventsFollow
  <2>5. Follows(p)'
    BY <2>1, <2>2, <2>3, <2>4
    DEF Follows, EventsFollow, TrailsFollow, ProposalsFollow, IsLegacy, Exists
  <2>6. QED
    BY <1>1, <2>1, <2>2, <2>5, RowsUnchanged, StepOf
<1>5. CASE SelectActive(p)
  <2> DEFINE s == [me EXCEPT !.pc = "actives", !.todo = {k \in Runs : IsActive(k)}]
  <2>1. s \in StarterStates /\ s.pc = "actives" /\ s.todo = {k \in Runs : IsActive(k)}
    BY <1>1 DEF StarterStates
  <2>2. starter' = [starter EXCEPT ![p] = s] /\ UNCHANGED <<version, columns, row>>
    BY <1>5 DEF SelectActive
  <2>3. starter'[p] = s
    BY <2>2 DEF IInv, TypeOK
  <2>4. \A k \in Runs : IsLegacy(k) => row[k].event = "removed" /\ row[k].trail = "safe"
    BY <1>2, <1>5 DEF SelectActive, EventsFollow, TrailsFollow
  <2>5. EventsFollow(p)' /\ TrailsFollow(p)'
    BY <2>1, <2>2, <2>3, <2>4 DEF EventsFollow, TrailsFollow, IsLegacy
  <2>6. ProposalsFollow(p)'
    BY <1>5, <2>1, <2>2, <2>3 DEF ProposalsFollow, IsLegacy, Exists, IsActive
  <2>7. QED
    BY <1>1, <2>1, <2>2, <2>5, <2>6, RowsUnchanged, StepOf DEF Follows
<1>6. QED
  BY <1>3, <1>4, <1>5

(***************************************************************************)
(* Rewriting events and audit rows.                                        *)
(***************************************************************************)
LEMMA RewritingSteps ==
  ASSUME IInv, NEW p \in Processes, NEW k \in Runs,
         RedactEvent(p, k) \/ SanitizeAudit(p, k)
  PROVE  IInv'
<1> DEFINE me == starter[p]
           s == [me EXCEPT !.todo = @ \ {k}]
<1>1. me \in StarterStates /\ columns \in SUBSET Columns /\ row \in [Runs -> Rows]
  BY DEF IInv, TypeOK
<1>2. EventsFollow(p) /\ TrailsFollow(p)
  BY DEF IInv
<1>3. s \in StarterStates /\ s.pc = me.pc /\ s.todo = me.todo \ {k}
  BY <1>1 DEF StarterStates
<1>4. starter' = [starter EXCEPT ![p] = s] /\ UNCHANGED <<version, columns>>
  BY DEF RedactEvent, SanitizeAudit
<1>5. starter'[p] = s
  BY <1>4 DEF IInv, TypeOK
<1>6. row[k] \in Rows
  BY <1>1
<1>7. CASE RedactEvent(p, k)
  <2>1. row' \in [Runs -> Rows]
    BY <1>1, <1>6, <1>7, FieldChange DEF RedactEvent
  <2>2. \A j \in Runs : /\ row'[j].origin = row[j].origin
                        /\ row'[j].trail = row[j].trail
                        /\ row'[j].proposal = row[j].proposal
                        /\ row'[j].event = IF j = k THEN "removed" ELSE row[j].event
    BY <1>1, <1>7 DEF RedactEvent, Rows
  <2>3. \A j \in Runs : Kept(j)
    BY <2>2 DEF Kept, IsLegacy
  <2>4. Follows(p)'
    BY <1>2, <1>3, <1>5, <1>7, <2>2
    DEF RedactEvent, Follows, EventsFollow, TrailsFollow, ProposalsFollow, IsLegacy
  <2>5. s.pc # "serving"
    BY <1>3, <1>7 DEF RedactEvent
  <2>6. QED
    BY <1>1, <1>3, <1>4, <2>1, <2>3, <2>4, <2>5, StepOf
<1>8. CASE SanitizeAudit(p, k)
  <2>1. row' \in [Runs -> Rows]
    BY <1>1, <1>6, <1>8, FieldChange DEF SanitizeAudit
  <2>2. \A j \in Runs : /\ row'[j].origin = row[j].origin
                        /\ row'[j].event = row[j].event
                        /\ row'[j].proposal = row[j].proposal
                        /\ row'[j].trail = IF j = k THEN "safe" ELSE row[j].trail
    BY <1>1, <1>8 DEF SanitizeAudit, Rows
  <2>3. \A j \in Runs : Kept(j)
    BY <2>2 DEF Kept, IsLegacy
  <2>4. Follows(p)'
    BY <1>2, <1>3, <1>5, <1>8, <2>2
    DEF SanitizeAudit, Follows, EventsFollow, TrailsFollow, ProposalsFollow, IsLegacy
  <2>5. s.pc # "serving"
    BY <1>3, <1>8 DEF SanitizeAudit
  <2>6. QED
    BY <1>1, <1>3, <1>4, <2>1, <2>3, <2>4, <2>5, StepOf
<1>9. QED
  BY <1>7, <1>8

(***************************************************************************)
(* Expiring a proposal in its three statements.                            *)
(***************************************************************************)
LEMMA ExpireStep ==
  ASSUME IInv, NEW p \in Processes, NEW k \in Runs, ExpireProposal(p, k)
  PROVE  IInv'
<1> DEFINE me == starter[p]
           s == [me EXCEPT !.pc = "closing", !.at = {k}]
<1>1. me \in StarterStates /\ columns \in SUBSET Columns /\ row \in [Runs -> Rows]
  BY DEF IInv, TypeOK
<1>2. EventsFollow(p) /\ TrailsFollow(p) /\ ProposalsFollow(p)
  BY DEF IInv
<1>3. s \in StarterStates /\ s.pc = "closing" /\ s.at = {k} /\ s.todo = me.todo
  BY <1>1 DEF StarterStates
<1>4. starter' = [starter EXCEPT ![p] = s] /\ UNCHANGED <<version, columns>>
  BY DEF ExpireProposal
<1>5. starter'[p] = s
  BY <1>4 DEF IInv, TypeOK
<1>6. row' \in [Runs -> Rows]
  <2>1. "expired" \in Statuses /\ row[k] \in Rows
    BY <1>1 DEF Statuses
  <2>2. QED
    BY <1>1, <2>1, FieldChange DEF ExpireProposal
<1>7. \A j \in Runs : /\ row'[j].origin = row[j].origin
                      /\ row'[j].event = row[j].event
                      /\ row'[j].trail = row[j].trail
                      /\ row'[j].proposal = IF j = k THEN "expired" ELSE row[j].proposal
  BY <1>1 DEF ExpireProposal, Rows
<1>8. "expired" \notin Active
  BY DEF Active
<1>9. \A j \in Runs : Kept(j)
  BY <1>7, <1>8 DEF Kept, IsLegacy
<1>10. EventsFollow(p)' /\ TrailsFollow(p)'
  BY <1>2, <1>3, <1>5, <1>7 DEF ExpireProposal, EventsFollow, TrailsFollow, IsLegacy
<1>11. ProposalsFollow(p)'
  <2>1. me.pc = "actives"
    BY DEF ExpireProposal
  <2>2. ASSUME NEW j \in Runs, IsLegacy(j)', row'[j].proposal \in Active
        PROVE  j # k /\ j \in me.todo
    BY <1>2, <1>7, <1>8, <2>1, <2>2 DEF ProposalsFollow, IsLegacy
  <2>3. QED
    BY <1>3, <1>5, <2>2 DEF ProposalsFollow
<1>12. QED
  BY <1>1, <1>3, <1>4, <1>6, <1>9, <1>10, <1>11, StepOf DEF Follows

LEMMA ClosingSteps ==
  ASSUME IInv, NEW p \in Processes, CloseRun(p) \/ NoteExpiry(p)
  PROVE  IInv'
<1> DEFINE me == starter[p]
<1>1. me \in StarterStates /\ columns \in SUBSET Columns /\ row \in [Runs -> Rows]
  BY DEF IInv, TypeOK
<1>2. EventsFollow(p) /\ TrailsFollow(p) /\ ProposalsFollow(p)
  BY DEF IInv
<1>3. row' \in [Runs -> Rows]
  <2>1. "expired" \in Statuses
    BY DEF Statuses
  <2>2. \A j \in Runs : /\ row[j] \in Rows
                        /\ [row[j] EXCEPT !.run = "expired"] \in Rows
                        /\ [row[j] EXCEPT !.notes = @ + 1] \in Rows
    BY <1>1, <2>1, FieldChange
  <2>3. CASE CloseRun(p)
    BY <2>2, <2>3 DEF CloseRun
  <2>4. CASE NoteExpiry(p)
    BY <2>2, <2>4 DEF NoteExpiry
  <2>5. QED
    BY <2>3, <2>4
<1>4. \A j \in Runs : /\ row'[j].origin = row[j].origin
                      /\ row'[j].event = row[j].event
                      /\ row'[j].trail = row[j].trail
                      /\ row'[j].proposal = row[j].proposal
  <2>1. CASE CloseRun(p)
    BY <1>1, <2>1 DEF CloseRun, Rows
  <2>2. CASE NoteExpiry(p)
    BY <1>1, <2>2 DEF NoteExpiry, Rows
  <2>3. QED
    BY <2>1, <2>2
<1>5. \A j \in Runs : Kept(j)
  BY <1>4 DEF Kept, IsLegacy
<1>6. CASE CloseRun(p)
  <2> DEFINE s == [me EXCEPT !.pc = "noting"]
  <2>1. s \in StarterStates /\ s.pc = "noting" /\ s.todo = me.todo /\ s.at = me.at
    BY <1>1 DEF StarterStates
  <2>2. starter' = [starter EXCEPT ![p] = s] /\ UNCHANGED <<version, columns>>
    BY <1>6 DEF CloseRun
  <2>3. starter'[p] = s
    BY <2>2 DEF IInv, TypeOK
  <2>4. Follows(p)'
    BY <1>2, <1>4, <1>6, <2>1, <2>3
    DEF CloseRun, Follows, EventsFollow, TrailsFollow, ProposalsFollow, IsLegacy
  <2>5. QED
    BY <1>1, <1>3, <1>5, <2>1, <2>2, <2>4, StepOf
<1>7. CASE NoteExpiry(p)
  <2> DEFINE s == [me EXCEPT !.pc = "actives", !.todo = @ \ me.at, !.at = {}]
  <2>1. s \in StarterStates /\ s.pc = "actives" /\ s.todo = me.todo \ me.at
    BY <1>1 DEF StarterStates
  <2>2. starter' = [starter EXCEPT ![p] = s] /\ UNCHANGED <<version, columns>>
    BY <1>7 DEF NoteExpiry
  <2>3. starter'[p] = s
    BY <2>2 DEF IInv, TypeOK
  <2>4. EventsFollow(p)' /\ TrailsFollow(p)'
    BY <1>2, <1>4, <1>7, <2>1, <2>3 DEF NoteExpiry, EventsFollow, TrailsFollow, IsLegacy
  <2>5. ProposalsFollow(p)'
    BY <1>2, <1>4, <1>7, <2>1, <2>3 DEF NoteExpiry, ProposalsFollow, IsLegacy
  <2>6. QED
    BY <1>1, <1>3, <1>5, <2>1, <2>2, <2>4, <2>5, StepOf DEF Follows
<1>8. QED
  BY <1>6, <1>7

(***************************************************************************)
(* The version is stamped when nothing is left to rewrite.                 *)
(***************************************************************************)
LEMMA StampStep ==
  ASSUME IInv, NEW p \in Processes, StampVersion(p)
  PROVE  IInv'
<1> DEFINE s == [starter[p] EXCEPT !.pc = "serving"]
<1>1. EventsFollow(p) /\ TrailsFollow(p) /\ ProposalsFollow(p)
  BY DEF IInv
<1>2. \A k \in Runs : Migrated(k)
  BY <1>1 DEF StampVersion, EventsFollow, TrailsFollow, ProposalsFollow, Migrated, IsLegacy
<1>3. s \in StarterStates
  BY DEF IInv, TypeOK, StarterStates
<1>4. starter' = [starter EXCEPT ![p] = s]
  BY DEF StampVersion
<1>5. TypeOK'
  BY <1>3, <1>4, StarterTyped DEF IInv, TypeOK, StampVersion
<1>6. starter'[p].pc = "serving" /\ \A q \in Processes \ {p} : starter'[q] = starter[q]
  BY <1>4 DEF IInv, TypeOK, StarterStates
<1>7. ServedIsMigrated'
  BY <1>2 DEF ServedIsMigrated, Migrated, StampVersion
<1>8. \A q \in Processes : Follows(q)'
  <2>1. Follows(p)'
    BY <1>6, Follows_Idle
  <2>2. \A k \in Runs : Kept(k)
    BY RowsUnchanged DEF StampVersion
  <2>3. QED
    BY <1>6, <2>1, <2>2, OthersFollow
<1>9. QED
  BY <1>5, <1>7, <1>8 DEF IInv, Follows

(***************************************************************************)
(* What serving processes do never touches an open legacy proposal: there  *)
(* is none any more.                                                       *)
(***************************************************************************)
LEMMA ServingRows ==
  ASSUME IInv, NEW p \in Processes, NEW k \in Runs, NEW from \in Active,
         NEW to \in Statuses, Advance(p, k, from, to)
  PROVE  ~IsLegacy(k)
<1>1. version = 2
  BY DEF Advance, IInv, ServedIsMigrated
<1>2. Migrated(k)
  BY <1>1 DEF IInv, ServedIsMigrated
<1>3. QED
  BY <1>2 DEF Advance, Migrated, IsLegacy

LEMMA ServingStep ==
  ASSUME IInv, NEW p \in Processes, Serve(p)
  PROVE  IInv'
<1>1. row \in [Runs -> Rows] /\ columns \in SUBSET Columns
      /\ starter \in [Processes -> StarterStates]
  BY DEF IInv, TypeOK
<1>2. PICK k \in Runs :
        \/ Record(p, k)
        \/ Advance(p, k, "proposed", "approved")
        \/ Advance(p, k, "approved", "executing")
        \/ Advance(p, k, "executing", "succeeded")
  BY DEF Serve
<1>3. UNCHANGED <<version, columns, starter>>
  BY <1>2 DEF Record, Advance
<1>4. row' \in [Runs -> Rows] /\ \A j \in Runs : Kept(j)
  <2>1. CASE Record(p, k)
    <3>1. \A j \in Runs : row'[j] = IF j = k THEN NewRow ELSE row[j]
      BY <1>1, <2>1 DEF Record
    <3>2. row' \in [Runs -> Rows]
      BY <1>1, <2>1, NewRowTyped DEF Record
    <3>3. NewRow.origin = "current"
      BY DEF NewRow
    <3>4. QED
      BY <3>1, <3>2, <3>3 DEF Kept, IsLegacy
  <2>2. ASSUME NEW from \in Active, NEW to \in Statuses, Advance(p, k, from, to)
        PROVE  row' \in [Runs -> Rows] /\ \A j \in Runs : Kept(j)
    <3> DEFINE new == [row[k] EXCEPT !.proposal = to, !.run = to]
    <3>1. row' = [row EXCEPT ![k] = new]
      BY <2>2 DEF Advance
    <3>2. new \in Rows /\ new.origin = row[k].origin
      <4>1. row[k] \in Rows
        BY <1>1
      <4>2. to \in Statuses
        BY <2>2
      <4>3. QED
        BY <4>1, <4>2 DEF Rows
    <3>3. row' \in [Runs -> Rows]
      BY <1>1, <3>1, <3>2
    <3>4. \A j \in Runs : row'[j] = IF j = k THEN new ELSE row[j]
      BY <1>1, <3>1
    <3>5. ~IsLegacy(k)
      BY <2>2, ServingRows
    <3>6. QED
      BY <3>2, <3>3, <3>4, <3>5 DEF Kept, IsLegacy
  <2>3. /\ {"proposed", "approved", "executing"} \subseteq Active
        /\ {"approved", "executing", "succeeded"} \subseteq Statuses
    BY DEF Active, Statuses
  <2>4. QED
    BY <1>2, <2>1, <2>2, <2>3
<1>5. \A q \in Processes : Follows(q)'
  BY <1>3, <1>4, OthersFollow
<1>6. TypeOK'
  BY <1>3, <1>4 DEF IInv, TypeOK
<1>7. ServedIsMigrated'
  <2>1. \A q \in Processes : starter'[q].pc = "serving" => version = 2
    BY <1>3 DEF IInv, ServedIsMigrated
  <2>2. QED
    BY <1>3, <1>4, <2>1, ServedKept
<1>8. QED
  BY <1>5, <1>6, <1>7 DEF IInv, Follows

LEMMA NextIInv == IInv /\ [Next]_vars => IInv'
<1> SUFFICES ASSUME IInv, [Next]_vars PROVE IInv'
  OBVIOUS
<1>1. CASE UNCHANGED vars
  <2>1. \A k \in Runs : Kept(k)
    BY <1>1, RowsUnchanged DEF vars
  <2>2. \A q \in Processes : Follows(q)'
    BY <1>1, <2>1, OthersFollow DEF vars
  <2>3. TypeOK' /\ ServedIsMigrated'
    BY <1>1 DEF vars, IInv, TypeOK, ServedIsMigrated, Migrated
  <2>4. QED
    BY <2>2, <2>3 DEF IInv, Follows
<1>2. ASSUME NEW p \in Processes, Start(p) \/ StartEnds(p) \/ Serve(p)
      PROVE  IInv'
  BY <1>2, OpeningSteps, SelectingSteps, RewritingSteps, ExpireStep,
     ClosingSteps, StampStep, ServingStep
  DEF Start
<1>3. QED
  BY <1>1, <1>2 DEF Next

(***************************************************************************)
(* The inductive invariant: what a migrating process has still to rewrite  *)
(* is among the rows it selected, whatever the others do meanwhile.        *)
(***************************************************************************)
THEOREM InductiveInvariant == Spec => []IInv
<1>1. Init => IInv
  BY InitIInv
<1>2. IInv /\ [Next]_vars => IInv'
  BY NextIInv
<1>3. QED
  BY <1>1, <1>2, PTL DEF Spec

(***************************************************************************)
(* No process serves a database that holds legacy content, however many    *)
(* starts were killed half-way or ran side by side.                        *)
(***************************************************************************)
THEOREM MigratedWhenServed == Spec => []ServedIsMigrated
<1>1. IInv => ServedIsMigrated
  BY DEF IInv
<1>2. QED
  BY <1>1, InductiveInvariant, PTL

(***************************************************************************)
(* No step of any process moves a legacy proposal but to expire it: the    *)
(* rewriting steps set nothing else, and the serving steps find no legacy  *)
(* proposal open.                                                          *)
(***************************************************************************)
THEOREM LegacyStaysClosed == Spec => LegacyIsNeverServed
<1>1. ASSUME IInv, [Next]_vars, NEW k \in Runs, row[k].origin = "legacy"
      PROVE  row'[k].proposal \in {row[k].proposal, "expired"}
  <2>1. row \in [Runs -> Rows]
    BY <1>1 DEF IInv, TypeOK
  <2>2. CASE row' = row
    BY <2>2
  <2>3. ASSUME NEW p \in Processes, NEW j \in Runs, RedactEvent(p, j) \/ SanitizeAudit(p, j)
        PROVE  row'[k].proposal = row[k].proposal
    BY <2>1, <2>3 DEF RedactEvent, SanitizeAudit, Rows
  <2>4. ASSUME NEW p \in Processes, NEW j \in Runs, ExpireProposal(p, j)
        PROVE  row'[k].proposal \in {row[k].proposal, "expired"}
    BY <2>1, <2>4 DEF ExpireProposal, Rows
  <2>5. ASSUME NEW p \in Processes, CloseRun(p) \/ NoteExpiry(p)
        PROVE  row'[k].proposal = row[k].proposal
    BY <2>1, <2>5 DEF CloseRun, NoteExpiry, Rows
  <2>6. ASSUME NEW p \in Processes, NEW j \in Runs, Record(p, j)
        PROVE  row'[k].proposal = row[k].proposal
    <3>1. j # k
      BY <1>1, <2>6 DEF Record, Exists
    <3>2. QED
      BY <2>1, <2>6, <3>1 DEF Record
  <2>7. ASSUME NEW p \in Processes, NEW j \in Runs, NEW from \in Active,
               NEW to \in Statuses, Advance(p, j, from, to)
        PROVE  row'[k].proposal = row[k].proposal
    <3>1. j # k
      BY <1>1, <2>7, ServingRows DEF IsLegacy
    <3>2. QED
      BY <2>1, <2>7, <3>1 DEF Advance
  <2>8. /\ {"proposed", "approved", "executing"} \subseteq Active
        /\ {"approved", "executing", "succeeded"} \subseteq Statuses
    BY DEF Active, Statuses
  <2>9. ASSUME NEW p \in Processes, Serve(p)
        PROVE  row'[k].proposal = row[k].proposal
    BY <2>6, <2>7, <2>8, <2>9 DEF Serve
  <2>10. ASSUME NEW p \in Processes, Start(p)
         PROVE  row'[k].proposal \in {row[k].proposal, "expired"}
    <3>1. CASE UNCHANGED row
      BY <3>1
    <3>2. CASE \E j \in Runs : RedactEvent(p, j) \/ SanitizeAudit(p, j)
      BY <2>3, <3>2
    <3>3. CASE \E j \in Runs : ExpireProposal(p, j)
      BY <2>4, <3>3
    <3>4. CASE CloseRun(p) \/ NoteExpiry(p)
      BY <2>5, <3>4
    <3>5. QED
      BY <2>10, <3>1, <3>2, <3>3, <3>4
      DEF Start, Open, CreateTables, InspectColumns, AddColumn, ColumnExists,
          CheckVersion, SelectRuns, SelectAudit, SelectActive, StampVersion
  <2>11. ASSUME NEW p \in Processes, StartEnds(p)
         PROVE  row' = row
    BY <2>11 DEF StartEnds
  <2>12. QED
    BY <1>1, <2>2, <2>9, <2>10, <2>11 DEF Next, vars
<1>2. IInv /\ [Next]_vars =>
        [\A k \in Runs : row[k].origin = "legacy" =>
           row'[k].proposal \in {row[k].proposal, "expired"}]_vars
  BY <1>1
<1>3. QED
  BY <1>2, InductiveInvariant, PTL DEF Spec, LegacyIsNeverServed

===============================================================================
