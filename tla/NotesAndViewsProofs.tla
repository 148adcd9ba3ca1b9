--------------------------- MODULE NotesAndViewsProofs ---------------------------
(***************************************************************************)
(* Proofs about what is read of a run: the summaries of its proposals, for *)
(* every length limit and every length of notes, and the views of clients, *)
(* on top of the invariant of the service and of the steps that            *)
(* IncidentServiceTheorems distinguishes.                                  *)
(***************************************************************************)
EXTENDS RevisionNotes, RunViews, IncidentServiceTheorems, FiniteSetTheorems

-------------------------------------------------------------------------------
(* THE SUMMARIES                                                           *)

(***************************************************************************)
(* Summaries are recorded beside the service: its steps are its own.       *)
(***************************************************************************)
LEMMA StepIsOfService == [NotesNext]_noteVars => [Next]_vars
<1> SUFFICES ASSUME NotesNext PROVE Next
  BY DEF noteVars
<1>1. CASE OtherStep
  BY <1>1 DEF OtherStep
<1>2. ASSUME NEW w \in Workers, StoreSummary(w) \/ StoreRevision(w)
      PROVE  Next
  BY <1>2 DEF StoreSummary, StoreRevision, Next, Handle, Intake, Decide
<1>3. ASSUME NEW w \in Workers, NEW k \in Runs, NEW r \in Revisions,
             NEW digest \in Digests, NEW o \in Options,
             RequestRevision(w, k, r, digest, o)
      PROVE  Next
  <2>1. "revise" \in Decisions
    BY DEF Decisions
  <2>2. Request(w)
    BY <1>3, <2>1 DEF RequestRevision, Request
  <2>3. QED
    BY <2>2 DEF Next
<1>4. QED
  BY <1>1, <1>2, <1>3 DEF NotesNext

(***************************************************************************)
(* A thread enters a decision from rest; everything else that a thread     *)
(* does leaves it outside of one.                                          *)
(***************************************************************************)
LEMMA DecisionsStartAtRest ==
  ASSUME TypeOK, Next, NEW v \in Workers, worker'[v].pc = "deciding"
  PROVE  worker'[v] = worker[v] \/ worker[v].pc = "idle"
<1> USE DEF TypeOK, Become, Goto, Return, Idle
<1>1. ASSUME NEW w \in Workers, Request(w)
      PROVE  worker'[v] = worker[v] \/ worker[v].pc = "idle"
  BY <1>1 DEF Request, StartEvent, RequestDecision, RequestExecution, RequestExpiry
<1>2. ASSUME NEW w \in Workers, NEW state \in WorkerStates,
             state.pc # "deciding", Become(w, state)
      PROVE  worker'[v] = worker[v]
  BY <1>2 DEF WorkerStates
<1>3. ASSUME NEW w \in Workers, NEW pc \in PCs, pc # "deciding", Goto(w, pc)
      PROVE  worker'[v] = worker[v]
  BY <1>3 DEF WorkerStates
<1>4. ASSUME NEW w \in Workers, Return(w)
      PROVE  worker'[v] = worker[v]
  BY <1>4 DEF WorkerStates
<1>5. ASSUME NEW w \in Workers, Intake(w)
      PROVE  worker'[v] = worker[v]
  <2>1. CASE \E o \in Options : BuildProposal(w, o)
    BY <2>1 DEF BuildProposal, WorkerStates
  <2>2. CASE CreateProposal(w) \/ FailRun(w)
    BY <2>2, <1>4 DEF CreateProposal, FailRun
  <2>3. CASE \E pc \in IntakePCs : Goto(w, pc)
    BY <2>3, <1>3 DEF IntakePCs, PCs
  <2>4. QED
    BY <1>5, <2>1, <2>2, <2>3
    DEF Intake, AcceptEvent, CollectTelemetry, Analyze, AssessRun, IntakeRaises,
        IntakePCs
<1>6. ASSUME NEW w \in Workers, Decide(w) \/ ExpireDue(w) \/ Fault(w)
      PROVE  worker'[v] = worker[v]
  <2>1. Return(w) \/ Goto(w, "recovering")
    BY <1>6 DEF Decide, DecisionConflicts, DecisionExpires, DecisionRevises,
       DecisionSettles, ExpireDue, Fault, FinalizeRaises, HandlerRaises, Crash
  <2>2. QED
    BY <2>1, <1>3, <1>4 DEF PCs, HoldingPCs
<1>7. ASSUME NEW w \in Workers, Execute(w)
      PROVE  worker'[v] = worker[v]
  <2>1. CASE \E result \in Results : RunExecutor(w, result)
    BY <2>1 DEF RunExecutor, WorkerStates
  <2>2. CASE Return(w) \/ Goto(w, "claimed") \/ Goto(w, "calling")
    BY <2>2, <1>3, <1>4 DEF PCs, HoldingPCs
  <2>3. QED
    BY <1>7, <2>1, <2>2
    DEF Execute, ClaimConflicts, ClaimExpires, ClaimExecution, AuditToolCall,
        Finalize, FinalizeAsFailed
<1>8. CASE Tick
  BY <1>8 DEF Tick
<1>9. QED
  BY <1>1, <1>5, <1>6, <1>7, <1>8 DEF Next, Handle

(***************************************************************************)
(* The first proposal of a run: there was none, so that neither a reader   *)
(* nor a successor of a summary is concerned.                              *)
(***************************************************************************)
LEMMA StoreSummaryKeeps ==
  ASSUME IInv, IInv', NotesInv, NEW w \in Workers, StoreSummary(w)
  PROVE  NotesInv'
<1> DEFINE k == worker[w].run
<1> USE NotesAssumption, StoreAssumption DEF Revisions
<1>1. PICK n \in 1 .. Limit : summary' = [summary EXCEPT ![k][1] = n]
  BY DEF StoreSummary
<1>2. k \in Runs /\ runState[k] = "assessed"
  BY DEF StoreSummary, CreateProposal, create_proposal_and_transition, IInv, JobIsValid
<1>3. \A r \in Revisions : proposal[k][r].status = "absent"
  BY <1>2 DEF IInv, EarlyRunsHaveNoProposal
<1>4. \A j \in Runs, r \in Revisions :
        j # k \/ r # 1 => /\ proposal'[j][r] = proposal[j][r]
                          /\ summary'[j][r] = summary[j][r]
  BY <1>1, <1>2 DEF StoreSummary, CreateProposal, create_proposal_and_transition,
     NotesInv, NotesTypeOK, TypeOK, StoreTypeOK
<1>5. summary'[k][1] = n /\ 1 \in Revisions
  BY <1>1, <1>2 DEF NotesInv, NotesTypeOK
<1>6. NotesTypeOK'
  <2>1. summary' \in [Runs -> [Revisions -> Nat]]
    BY <1>1, <1>2 DEF NotesInv, NotesTypeOK
  <2>2. note' \in [Workers -> 0 .. MaxNote]
    BY DEF StoreSummary, NotesInv, NotesTypeOK
  <2>3. QED
    BY <2>1, <2>2 DEF NotesTypeOK, IInv
<1>7. GrowthIsBounded'
  BY <1>3, <1>4, <1>5 DEF NotesInv, GrowthIsBounded, Readable
<1>8. RevisionsReadFirst'
  <2> SUFFICES ASSUME NEW v \in Workers, worker'[v].pc = "deciding",
                      worker'[v].decision = "revise"
               PROVE  Readable(worker[v].run, worker[v].revision)' /\ worker'[v] = worker[v]
    BY DEF RevisionsReadFirst, Readable
  <2>1. worker'[v] = worker[v]
    BY DEF StoreSummary, CreateProposal, Return, Become, Idle, IInv, TypeOK
  <2>2. /\ worker[v].run \in Runs /\ worker[v].revision \in Revisions
        /\ proposal[worker[v].run][worker[v].revision].status # "absent"
    BY <2>1 DEF IInv, JobIsValid, TypeOK, WorkerStates
  <2>3. summary'[worker[v].run][worker[v].revision]
          = summary[worker[v].run][worker[v].revision]
    BY <1>3, <1>4, <2>2
  <2>4. QED
    BY <2>1, <2>3 DEF NotesInv, RevisionsReadFirst, Readable
<1>9. QED
  BY <1>6, <1>7, <1>8 DEF NotesInv

(***************************************************************************)
(* A revision: the one it revises was readable, is the newest, and has no  *)
(* successor yet.                                                          *)
(***************************************************************************)
LEMMA StoreRevisionKeeps ==
  ASSUME IInv, IInv', NotesInv, NEW w \in Workers, StoreRevision(w)
  PROVE  NotesInv'
<1> DEFINE k == worker[w].run
           r == worker[w].revision
<1> USE NotesAssumption, StoreAssumption DEF Revisions
<1>1. /\ k \in Runs /\ r \in Revisions /\ r + 1 \in Revisions
      /\ Readable(k, r)
      /\ proposal[k][r].status = "proposed"
      /\ proposal[k][r + 1].status = "absent"
  <2>1. worker[w].pc = "deciding" /\ worker[w].decision = "revise"
    BY DEF StoreRevision, DecisionRevises
  <2>2. k \in Runs /\ r \in Revisions /\ r < MaxRevision
    BY <2>1 DEF IInv, JobIsValid, TypeOK, WorkerStates
  <2>3. Readable(k, r)
    BY <2>1 DEF NotesInv, RevisionsReadFirst
  <2>4. proposal[k][r].status = "proposed" /\ proposal[k][r + 1].status = "absent"
    BY DEF StoreRevision, DecisionRevises, Decidable, AwaitsDecision, revise_proposal
  <2>5. QED
    BY <2>2, <2>3, <2>4
<1>2. \A q \in Revisions : q > r => proposal[k][q].status = "absent"
  BY <1>1 DEF IInv, RunFollowsProposal, NewestOf
<1>3. \A j \in Runs, q \in Revisions :
        j # k \/ q # r + 1 => /\ proposal'[j][q].status = "absent" <=>
                                   proposal[j][q].status = "absent"
                              /\ summary'[j][q] = summary[j][q]
  <2> SUFFICES ASSUME NEW j \in Runs, NEW q \in Revisions, j # k \/ q # r + 1
               PROVE  /\ proposal'[j][q].status = "absent" <=>
                           proposal[j][q].status = "absent"
                      /\ summary'[j][q] = summary[j][q]
    OBVIOUS
  <2>1. proposal \in [Runs -> [Revisions -> ProposalRows]]
    BY DEF IInv, TypeOK, StoreTypeOK
  <2>2. /\ j = k /\ q = r => proposal'[j][q] = WithStatus(proposal[j][q], "superseded")
        /\ j # k \/ q # r => proposal'[j][q] = proposal[j][q]
    BY <1>1, <2>1 DEF StoreRevision, DecisionRevises, revise_proposal
  <2>3. proposal[k][r] \in ProposalRows
    BY <1>1, <2>1
  <2>4. WithStatus(proposal[k][r], "superseded").status = "superseded"
    BY <2>3 DEF WithStatus, ProposalRows
  <2>5. proposal'[j][q].status = "absent" <=> proposal[j][q].status = "absent"
    BY <1>1, <2>2, <2>4
  <2>6. summary'[j][q] = summary[j][q]
    BY <1>1 DEF StoreRevision, NotesInv, NotesTypeOK
  <2>7. QED
    BY <2>5, <2>6
<1>4. /\ summary'[k][r + 1] = summary[k][r] + note[w]
      /\ summary[k][r] \in Nat /\ note[w] \in 0 .. MaxNote
  BY <1>1 DEF StoreRevision, NotesInv, NotesTypeOK
<1>5. NotesTypeOK'
  <2>1. summary[k][r] + note[w] \in Nat
    BY <1>1, <1>4 DEF NotesInv, NotesTypeOK
  <2>2. summary' \in [Runs -> [Revisions -> Nat]]
    BY <1>1, <2>1 DEF StoreRevision, NotesInv, NotesTypeOK
  <2>3. note' \in [Workers -> 0 .. MaxNote]
    BY DEF StoreRevision, NotesInv, NotesTypeOK
  <2>4. QED
    BY <2>2, <2>3 DEF NotesTypeOK, IInv
<1>6. GrowthIsBounded'
  <2> SUFFICES ASSUME NEW j \in Runs, NEW q \in Revisions
               PROVE  /\ summary'[j][q] <= Limit + MaxNote
                      /\ q + 1 \in Revisions /\ proposal'[j][q + 1].status # "absent"
                           => summary'[j][q] <= Limit
    BY DEF GrowthIsBounded, Readable
  <2>1. CASE j = k /\ q = r + 1
    <3>1. summary'[j][q] <= Limit + MaxNote
      BY <1>1, <1>4, <2>1 DEF Readable
    <3>2. q + 1 \in Revisions => proposal'[j][q + 1].status = "absent"
      BY <1>1, <1>2, <1>3, <2>1
    <3>3. QED
      BY <3>1, <3>2
  <2>2. CASE j = k /\ q = r
    BY <1>1, <1>3, <1>4, <2>2 DEF Readable
  <2>3. CASE j # k \/ q \notin {r, r + 1}
    BY <1>1, <1>3, <2>3 DEF NotesInv, GrowthIsBounded, Readable
  <2>4. QED
    BY <2>1, <2>2, <2>3
<1>7. RevisionsReadFirst'
  <2> SUFFICES ASSUME NEW v \in Workers, worker'[v].pc = "deciding",
                      worker'[v].decision = "revise"
               PROVE  Readable(worker[v].run, worker[v].revision)' /\ worker'[v] = worker[v]
    BY DEF RevisionsReadFirst, Readable
  <2>1. worker'[v] = worker[v]
    BY DEF StoreRevision, DecisionRevises, Return, Become, Idle, IInv, TypeOK
  <2>2. /\ worker[v].run \in Runs /\ worker[v].revision \in Revisions
        /\ proposal[worker[v].run][worker[v].revision].status # "absent"
    BY <2>1 DEF IInv, JobIsValid, TypeOK, WorkerStates
  <2>3. summary'[worker[v].run][worker[v].revision]
          = summary[worker[v].run][worker[v].revision]
    BY <1>1, <1>3, <2>2
  <2>4. QED
    BY <2>1, <2>3 DEF NotesInv, RevisionsReadFirst, Readable
<1>8. QED
  BY <1>5, <1>6, <1>7 DEF NotesInv

LEMMA RequestRevisionKeeps ==
  ASSUME IInv', NotesInv, NEW w \in Workers, NEW k \in Runs, NEW r \in Revisions,
         NEW digest \in Digests, NEW o \in Options,
         RequestRevision(w, k, r, digest, o)
  PROVE  NotesInv'
<1>1. NotesTypeOK'
  <2>1. note' \in [Workers -> 0 .. MaxNote]
    BY DEF RequestRevision, NotesInv, NotesTypeOK
  <2>2. QED
    BY <2>1 DEF RequestRevision, NotesInv, NotesTypeOK, IInv
<1>2. GrowthIsBounded'
  BY DEF RequestRevision, RequestDecision, storeVars, NotesInv, GrowthIsBounded, Readable
<1>3. RevisionsReadFirst'
  <2>1. \A v \in Workers \ {w} : worker'[v] = worker[v]
    BY DEF RequestRevision, RequestDecision, Become, NotesInv, NotesTypeOK, TypeOK
  <2>2. worker'[w].run = k /\ worker'[w].revision = r
    BY DEF RequestRevision, RequestDecision, Become, Idle, NotesInv, NotesTypeOK, TypeOK
  <2>3. Readable(k, r) /\ UNCHANGED summary
    BY DEF RequestRevision
  <2>4. QED
    BY <2>1, <2>2, <2>3 DEF RevisionsReadFirst, Readable, NotesInv
<1>4. QED
  BY <1>1, <1>2, <1>3 DEF NotesInv

LEMMA OtherStepKeeps ==
  ASSUME IInv, IInv', NotesInv, OtherStep
  PROVE  NotesInv'
<1>1. NotesTypeOK'
  BY DEF OtherStep, NotesInv, NotesTypeOK, IInv
<1>2. GrowthIsBounded'
  BY DEF OtherStep, StoresProposal, NotesInv, GrowthIsBounded, Readable
<1>3. RevisionsReadFirst'
  <2> SUFFICES ASSUME NEW v \in Workers, worker'[v].pc = "deciding",
                      worker'[v].decision = "revise"
               PROVE  Readable(worker[v].run, worker[v].revision) /\ worker'[v] = worker[v]
    BY DEF OtherStep, RevisionsReadFirst, Readable
  <2>1. worker'[v] = worker[v]
    BY DecisionsStartAtRest DEF OtherStep, AsksForRevision, IInv
  <2>2. QED
    BY <2>1 DEF NotesInv, RevisionsReadFirst
<1>4. QED
  BY <1>1, <1>2, <1>3 DEF NotesInv

LEMMA InitNotes == NotesInit => IInv /\ NotesInv
<1> SUFFICES ASSUME NotesInit PROVE IInv /\ NotesInv
  OBVIOUS
<1> USE NotesAssumption, StoreAssumption
<1>1. IInv
  BY InitIInv DEF NotesInit
<1>2. NotesTypeOK
  BY <1>1 DEF NotesInit, NotesTypeOK, IInv
<1>3. GrowthIsBounded
  BY DEF NotesInit, Init, StoreInit, GrowthIsBounded, Readable, NoRow, Revisions
<1>4. RevisionsReadFirst
  BY DEF NotesInit, Init, RevisionsReadFirst, Idle
<1>5. QED
  BY <1>1, <1>2, <1>3, <1>4 DEF NotesInv

LEMMA NextNotes == IInv /\ NotesInv /\ [NotesNext]_noteVars => IInv' /\ NotesInv'
<1> SUFFICES ASSUME IInv, NotesInv, [NotesNext]_noteVars PROVE IInv' /\ NotesInv'
  OBVIOUS
<1>1. IInv'
  BY StepIsOfService, NextIInv
<1>2. CASE UNCHANGED noteVars
  BY <1>1, <1>2 DEF noteVars, vars, storeVars, NotesInv, NotesTypeOK, IInv,
     GrowthIsBounded, RevisionsReadFirst, Readable
<1>3. CASE NotesNext
  BY <1>1, <1>3, StoreSummaryKeeps, StoreRevisionKeeps, RequestRevisionKeeps,
     OtherStepKeeps
  DEF NotesNext
<1>4. QED
  BY <1>1, <1>2, <1>3

(***************************************************************************)
(* The lengths and the threads that revise stay consistent, next to the    *)
(* invariant of the service.                                               *)
(***************************************************************************)
THEOREM NotesInductive == NotesSpec => [](IInv /\ NotesInv)
BY InitNotes, NextNotes, PTL DEF NotesSpec

(***************************************************************************)
(* Only the newest revision of a run can be too long for its schema, and   *)
(* by no more than one note, for any limit and any notes.                  *)
(***************************************************************************)
THEOREM BoundedGrowth == NotesSpec => []GrowthIsBounded
<1>1. NotesInv => GrowthIsBounded
  BY DEF NotesInv
<1>2. QED
  BY <1>1, NotesInductive, PTL

-------------------------------------------------------------------------------
(* WHAT A CLIENT SEES                                                      *)

(***************************************************************************)
(* Trails only grow: rows that were written stay where they are.           *)
(***************************************************************************)
TrailGrows(k) ==
  /\ DOMAIN audit[k] \subseteq DOMAIN audit'[k]
  /\ \A j \in DOMAIN audit[k] : audit'[k][j] = audit[k][j]

LEMMA RunStepGrows ==
  ASSUME StoreTypeOK, NEW k \in Runs, RunStep(k)
  PROVE  TrailGrows(k)
<1>1. audit[k] \in Seq(AuditEntries)
  BY DEF StoreTypeOK
<1>2. CASE RunUntouched(k)
  BY <1>2 DEF RunUntouched, TrailGrows
<1>3. CASE \E e \in AuditEntries : audit'[k] = audit[k] \o <<e>>
  BY <1>1, <1>3, Appended DEF TrailGrows
<1>4. ASSUME NEW e \in AuditEntries, NEW f \in AuditEntries,
             audit'[k] = audit[k] \o <<e, f>>
      PROVE  TrailGrows(k)
  <2> DEFINE log == audit[k] \o <<e>>
  <2>1. audit'[k] = log \o <<f>>
    BY <1>1, <1>4, TwoAppended
  <2>2. log \in Seq(AuditEntries) /\ DOMAIN audit[k] \subseteq DOMAIN log
        /\ \A j \in DOMAIN audit[k] : log[j] = audit[k][j]
    BY <1>1, Appended
  <2> HIDE DEF log
  <2>3. DOMAIN log \subseteq DOMAIN (log \o <<f>>)
        /\ \A j \in DOMAIN log : (log \o <<f>>)[j] = log[j]
    BY <2>2, Appended
  <2>4. QED
    BY <2>1, <2>2, <2>3 DEF TrailGrows
<1>5. \A t \in RunStates : runState[k] \in RunStates => Moved(runState[k], t) \in AuditEntries
  BY EntriesAreTyped DEF Moved, Entry
<1>6. RunMoved(k) => runState'[k] \in RunStates /\ runState[k] \in RunStates
  BY DEF RunMoved, Following, RunStates, StoreTypeOK
<1>7. OtherEntries \subseteq AuditEntries
  BY DEF OtherEntries
<1>8. CASE RunNoted(k)
  BY <1>3, <1>7, <1>8 DEF RunNoted
<1>9. CASE RunRevised(k)
  BY <1>3, <1>9 DEF RunRevised
<1>10. CASE RunMoved(k)
  BY <1>3, <1>4, <1>5, <1>6, <1>7, <1>10 DEF RunMoved
<1>11. QED
  BY <1>2, <1>8, <1>9, <1>10 DEF RunStep

(***************************************************************************)
(* The rows of a trail up to one that is there.                            *)
(***************************************************************************)
RevisedUpTo(k, n) == {j \in 1..n : audit[k][j].event = "proposal_revised"}

LEMMA UpToIsFinite ==
  ASSUME NEW n \in Nat PROVE IsFiniteSet(1..n)
BY FS_Interval

LEMMA RevisedIsFinite ==
  ASSUME NEW k, NEW n \in Nat
  PROVE  IsFiniteSet(RevisedUpTo(k, n)) /\ Cardinality(RevisedUpTo(k, n)) \in Nat
<1>1. IsFiniteSet(1..n)
  BY UpToIsFinite
<1>2. RevisedUpTo(k, n) \subseteq 1..n
  BY DEF RevisedUpTo
<1>3. QED
  BY <1>1, <1>2, FS_Subset, FS_CardinalityType

LEMMA MoreIsRevised ==
  ASSUME StoreTypeOK, StoreTypeOK', NEW k \in Runs, TrailGrows(k)
  PROVE  /\ Len(audit[k]) \in Nat /\ Len(audit'[k]) \in Nat
         /\ Len(audit[k]) <= Len(audit'[k])
         /\ Cardinality(RevisedUpTo(k, Len(audit[k])))
              <= Cardinality(RevisedUpTo(k, Len(audit[k])))'
<1>1. /\ audit[k] \in Seq(AuditEntries) /\ audit'[k] \in Seq(AuditEntries)
  BY DEF StoreTypeOK
<1>2. /\ Len(audit[k]) \in Nat /\ Len(audit'[k]) \in Nat
      /\ DOMAIN audit[k] = 1..Len(audit[k]) /\ DOMAIN audit'[k] = 1..Len(audit'[k])
  BY <1>1, LenProperties
<1>3. Len(audit[k]) <= Len(audit'[k])
  BY <1>2 DEF TrailGrows
<1> DEFINE old == RevisedUpTo(k, Len(audit[k]))
           new == {j \in 1..Len(audit'[k]) : audit'[k][j].event = "proposal_revised"}
<1>4. old \subseteq new
  BY <1>2 DEF TrailGrows, RevisedUpTo
<1>5. IsFiniteSet(new)
  <2>1. IsFiniteSet(1..Len(audit'[k])) /\ new \subseteq 1..Len(audit'[k])
    BY <1>2, UpToIsFinite
  <2>2. QED
    BY <2>1, FS_Subset
<1> HIDE DEF old, new
<1>6. Cardinality(old) <= Cardinality(new)
  BY <1>4, <1>5, FS_Subset
<1>7. QED
  BY <1>2, <1>3, <1>6 DEF old, new, RevisedUpTo

(***************************************************************************)
(* What the tables and the trail of a run say of each other: a failed run  *)
(* had no proposal or has a failed one, the last transition is on record,  *)
(* and every revision but the first.                                       *)
(***************************************************************************)
FailureIsRecorded(k) ==
  runState[k] = "failed" =>
    \/ \A r \in Revisions : proposal[k][r].status = "absent"
    \/ \E r \in Revisions : proposal[k][r].status = "failed"

StateIsLogged(k) ==
  runState[k] \notin {"absent", "received"} =>
    Explained(k, runState[k], Len(audit[k]))

RevisionsAreLogged(k) ==
  \A r \in Revisions : proposal[k][r].status # "absent" =>
    r <= 1 + Cardinality(RevisedUpTo(k, Len(audit[k])))

HistoryInv ==
  \A k \in Runs : FailureIsRecorded(k) /\ StateIsLogged(k) /\ RevisionsAreLogged(k)

LEMMA InitHistory == Init => HistoryInv
<1> SUFFICES ASSUME Init, NEW k \in Runs
             PROVE  FailureIsRecorded(k) /\ StateIsLogged(k) /\ RevisionsAreLogged(k)
  BY DEF HistoryInv
<1>1. runState[k] = "absent" /\ \A r \in Revisions : proposal[k][r].status = "absent"
  BY DEF Init, StoreInit, NoRow
<1>2. QED
  BY <1>1 DEF FailureIsRecorded, StateIsLogged, RevisionsAreLogged

LEMMA FailureStep ==
  ASSUME IInv, NEW k \in Runs, FailureIsRecorded(k), RunStep(k)
  PROVE  FailureIsRecorded(k)'
<1>1. CASE RunUntouched(k) \/ RunNoted(k)
  BY <1>1 DEF RunUntouched, RunNoted, FailureIsRecorded
<1>2. CASE RunRevised(k)
  BY <1>2 DEF RunRevised, FailureIsRecorded
<1>3. CASE RunMoved(k)
  <2> SUFFICES ASSUME runState'[k] = "failed" PROVE FailureIsRecorded(k)'
    BY DEF FailureIsRecorded
  <2>1. runState[k] \in {"received", "investigating", "assessed", "executing"}
    BY <1>3 DEF RunMoved, Following
  <2>2. CASE runState[k] = "executing"
    BY <1>3, <2>2 DEF RunMoved, FailureIsRecorded
  <2>3. CASE runState[k] # "executing"
    <3>1. \A r \in Revisions : proposal[k][r].status = "absent"
      BY <2>1, <2>3 DEF IInv, EarlyRunsHaveNoProposal
    <3>2. \A r \in Revisions : proposal'[k][r].status = "absent"
      BY <1>3, <3>1 DEF RunMoved
    <3>3. QED
      BY <3>2 DEF FailureIsRecorded
  <2>4. QED
    BY <2>2, <2>3
<1>4. QED
  BY <1>1, <1>2, <1>3 DEF RunStep

(***************************************************************************)
(* What a trail explains, it explains for good.                            *)
(***************************************************************************)
LEMMA StaysExplained ==
  ASSUME StoreTypeOK, StoreTypeOK', NEW k \in Runs, TrailGrows(k),
         NEW state, NEW n \in Nat, n <= Len(audit[k]), Explained(k, state, n)
  PROVE  /\ Explained(k, state, n)'
         /\ Explained(k, state, Len(audit[k]))'
<1>1. /\ Len(audit[k]) \in Nat /\ Len(audit'[k]) \in Nat
      /\ Len(audit[k]) <= Len(audit'[k])
  BY MoreIsRevised
<1>2. audit[k] \in Seq(AuditEntries) /\ DOMAIN audit[k] = 1..Len(audit[k])
  BY LenProperties DEF StoreTypeOK
<1>3. PICK j \in 1..n : audit[k][j].event = "state_transition" /\ audit[k][j].to = state
  BY DEF Explained
<1>4. /\ j \in 1..Len(audit[k]) /\ j \in 1..Len(audit'[k])
      /\ audit'[k][j] = audit[k][j]
  BY <1>1, <1>2 DEF TrailGrows
<1>5. QED
  BY <1>3, <1>4 DEF Explained

LEMMA StateLoggedStep ==
  ASSUME StoreTypeOK, StoreTypeOK', NEW k \in Runs, StateIsLogged(k), RunStep(k)
  PROVE  StateIsLogged(k)'
<1>1. TrailGrows(k)
  BY RunStepGrows
<1>2. Len(audit[k]) \in Nat /\ Len(audit'[k]) \in Nat
  BY <1>1, MoreIsRevised
<1>3. CASE runState'[k] = runState[k]
  BY <1>1, <1>2, <1>3, StaysExplained DEF StateIsLogged
<1>4. CASE RunNoted(k) /\ runState'[k] = "received"
  BY <1>4 DEF StateIsLogged
<1>5. CASE RunMoved(k)
  <2> DEFINE move == Moved(runState[k], runState'[k])
             log == audit[k] \o <<move>>
             n == Len(audit[k]) + 1
  <2>1. /\ runState'[k] \in RunStates /\ runState[k] \in RunStates
        /\ audit[k] \in Seq(AuditEntries) /\ audit'[k] \in Seq(AuditEntries)
    BY DEF StoreTypeOK
  <2>2. /\ move \in AuditEntries /\ move.event = "state_transition"
        /\ move.to = runState'[k]
    BY <2>1, EntriesAreTyped DEF Moved, Entry
  <2>3. log \in Seq(AuditEntries) /\ log[n] = move /\ Len(log) = n
    BY <2>1, <2>2, Appended
  <2>4. n \in DOMAIN audit'[k] /\ audit'[k][n] = move
    <3>1. CASE audit'[k] = log
      BY <2>1, <2>2, <3>1, Appended
    <3>2. ASSUME NEW e \in OtherEntries, audit'[k] = audit[k] \o <<move, e>>
          PROVE  n \in DOMAIN audit'[k] /\ audit'[k][n] = move
      <4>1. e \in AuditEntries
        BY DEF OtherEntries
      <4>2. audit'[k] = log \o <<e>>
        BY <2>1, <2>2, <3>2, <4>1, TwoAppended
      <4>3. n \in DOMAIN log
        BY <2>1, <2>2, Appended
      <4>4. n \in DOMAIN (log \o <<e>>) /\ (log \o <<e>>)[n] = log[n]
        BY <2>3, <4>1, <4>3, Appended
      <4>5. QED
        BY <2>3, <4>2, <4>4
    <3>3. QED
      BY <1>5, <3>1, <3>2 DEF RunMoved
  <2>5. n \in 1..Len(audit'[k])
    BY <2>1, <2>4, LenProperties
  <2>6. QED
    BY <2>2, <2>4, <2>5 DEF StateIsLogged, Explained
<1>6. QED
  BY <1>3, <1>4, <1>5 DEF RunStep, RunUntouched, RunNoted, RunRevised

LEMMA RevisionsLoggedStep ==
  ASSUME StoreTypeOK, StoreTypeOK', NEW k \in Runs, RevisionsAreLogged(k), RunStep(k)
  PROVE  RevisionsAreLogged(k)'
<1> USE StoreAssumption DEF Revisions
<1> DEFINE old == RevisedUpTo(k, Len(audit[k]))
           new == {j \in 1..Len(audit'[k]) : audit'[k][j].event = "proposal_revised"}
<1>1. TrailGrows(k)
  BY RunStepGrows
<1>2. /\ Len(audit[k]) \in Nat /\ Len(audit'[k]) \in Nat
      /\ Cardinality(old) <= Cardinality(new)
  BY <1>1, MoreIsRevised DEF RevisedUpTo
<1>3. IsFiniteSet(old) /\ Cardinality(old) \in Nat
  BY <1>2, RevisedIsFinite
<1>4. IsFiniteSet(new) /\ Cardinality(new) \in Nat
  <2>1. IsFiniteSet(1..Len(audit'[k]))
    BY <1>2, UpToIsFinite
  <2>2. new \subseteq 1..Len(audit'[k])
    OBVIOUS
  <2>3. QED
    BY <2>1, <2>2, FS_Subset, FS_CardinalityType
<1>5. SUFFICES ASSUME NEW q \in Revisions, proposal'[k][q].status # "absent"
               PROVE  q <= 1 + Cardinality(new)
  BY DEF RevisionsAreLogged, RevisedUpTo
<1>6. proposal[k][q].status # "absent" => q <= 1 + Cardinality(old)
  BY DEF RevisionsAreLogged
<1>7. CASE RunUntouched(k) \/ RunNoted(k)
  <2>1. proposal[k][q].status # "absent"
    BY <1>5, <1>7 DEF RunUntouched, RunNoted
  <2>2. QED
    BY <1>2, <1>3, <1>4, <1>6, <2>1
<1>8. CASE RunMoved(k)
  <2>1. proposal[k][q].status # "absent" \/ q = 1
    BY <1>5, <1>8 DEF RunMoved
  <2>2. QED
    BY <1>2, <1>3, <1>4, <1>6, <2>1
<1>9. CASE RunRevised(k)
  <2>1. PICK e \in AuditEntries : /\ e.event = "proposal_revised"
                                  /\ audit'[k] = audit[k] \o <<e>>
    BY <1>9 DEF RunRevised
  <2>2. PICK r \in Revisions :
          /\ proposal[k][r].status = "proposed"
          /\ \A p \in Revisions \ {r + 1} :
               proposal[k][p].status = "absent" => proposal'[k][p].status = "absent"
    BY <1>9 DEF RunRevised
  <2> DEFINE n == Len(audit[k]) + 1
  <2>3. /\ audit[k] \in Seq(AuditEntries) /\ audit'[k][n] = e
        /\ Len(audit'[k]) = n
        /\ DOMAIN audit[k] = 1..Len(audit[k])
    BY <2>1, Appended DEF StoreTypeOK
  <2>4. old \cup {n} \subseteq new /\ n \notin old
    BY <1>1, <1>2, <2>1, <2>3 DEF TrailGrows, RevisedUpTo
  <2> HIDE DEF old, new, n
  <2>5. Cardinality(old \cup {n}) = Cardinality(old) + 1
    BY <1>3, <2>4, FS_AddElement
  <2>6. Cardinality(old) + 1 <= Cardinality(new)
    BY <1>4, <2>4, <2>5, FS_Subset
  <2>7. r <= 1 + Cardinality(old)
    BY <2>2 DEF RevisionsAreLogged, old
  <2>8. proposal[k][q].status # "absent" \/ q = r + 1
    BY <1>5, <2>2
  <2>9. QED
    BY <1>3, <1>4, <1>6, <2>6, <2>7, <2>8
<1>10. QED
  BY <1>7, <1>8, <1>9 DEF RunStep

LEMMA NextHistory ==
  ASSUME IInv, IInv', HistoryInv, [Next]_vars
  PROVE  HistoryInv'
<1>1. StoreTypeOK /\ StoreTypeOK'
  BY DEF IInv, TypeOK
<1>2. ASSUME NEW k \in Runs
      PROVE  FailureIsRecorded(k)' /\ StateIsLogged(k)' /\ RevisionsAreLogged(k)'
  <2>1. RunStep(k)
    BY NextRunStep
  <2>2. FailureIsRecorded(k) /\ StateIsLogged(k) /\ RevisionsAreLogged(k)
    BY DEF HistoryInv
  <2>3. QED
    BY <1>1, <2>1, <2>2, FailureStep, StateLoggedStep, RevisionsLoggedStep
<1>3. QED
  BY <1>2 DEF HistoryInv

(***************************************************************************)
(* The newest proposal has the state of its run.                           *)
(***************************************************************************)
LEMMA LatestRevisionIs ==
  ASSUME IInv, HistoryInv, NEW k \in Runs
  PROVE  LET r == LatestRevision(k)
         IN  /\ r \in Revisions \cup {0}
             /\ r # 0 => r \in Revisions /\ proposal[k][r].status = runState[k]
                         /\ runState[k] # "absent"
             /\ r = 0 => \A q \in Revisions : proposal[k][q].status = "absent"
<1> USE StoreAssumption DEF Revisions
<1> DEFINE IsLatest(r) ==
             /\ r # 0 => proposal[k][r].status # "absent"
             /\ \A q \in Revisions : q > r => proposal[k][q].status = "absent"
<1>1. runState[k] \in RunStates
  BY DEF IInv, TypeOK, StoreTypeOK
<1>2. \E r \in Revisions \cup {0} :
        IsLatest(r) /\ (r # 0 => proposal[k][r].status = runState[k])
  <2>1. CASE \A q \in Revisions : proposal[k][q].status = "absent"
    <3>1. IsLatest(0) /\ 0 \in Revisions \cup {0}
      BY <2>1
    <3>2. QED
      BY <3>1
  <2>2. ASSUME NEW r \in Revisions, proposal[k][r].status = runState[k],
               runState[k] # "absent"
        PROVE  IsLatest(r)
    <3>1. runState[k] # "superseded"
      BY <1>1 DEF RunStates
    <3>2. NewestOf(k, r)
      BY <2>2, <3>1 DEF IInv, RunFollowsProposal
    <3>3. QED
      BY <2>2, <3>2 DEF NewestOf
  <2>3. CASE runState[k] \in {"proposed", "approved", "rejected", "expired",
                              "executing", "succeeded"}
    <3>1. PICK r \in Revisions : proposal[k][r].status = runState[k]
      BY <2>3 DEF IInv, RunFollowsProposal
    <3>2. IsLatest(r)
      BY <2>2, <2>3, <3>1
    <3>3. QED
      BY <3>1, <3>2
  <2>4. CASE runState[k] = "failed" /\ \E r \in Revisions : proposal[k][r].status = "failed"
    <3>1. PICK r \in Revisions : proposal[k][r].status = runState[k]
      BY <2>4
    <3>2. IsLatest(r)
      BY <2>2, <2>4, <3>1
    <3>3. QED
      BY <3>1, <3>2
  <2>5. CASE runState[k] \in {"absent", "received", "investigating", "assessed"}
    BY <2>1, <2>5 DEF IInv, EarlyRunsHaveNoProposal
  <2>6. QED
    BY <1>1, <2>1, <2>3, <2>4, <2>5 DEF RunStates, HistoryInv, FailureIsRecorded
<1> DEFINE latest == LatestRevision(k)
<1>3. latest \in Revisions \cup {0} /\ IsLatest(latest)
  BY <1>2 DEF LatestRevision
<1>4. PICK r \in Revisions \cup {0} :
        IsLatest(r) /\ (r # 0 => proposal[k][r].status = runState[k])
  BY <1>2
<1> HIDE DEF latest
<1>5. latest = r
  <2>1. ~ (latest > r)
    BY <1>3, <1>4
  <2>2. ~ (r > latest)
    BY <1>3, <1>4
  <2>3. QED
    BY <1>3, <1>4, <2>1, <2>2
<1>6. latest = 0 => \A q \in Revisions : q > 0 /\ proposal[k][q].status = "absent"
  BY <1>3
<1>7. latest # 0 => latest \in Revisions /\ proposal[k][latest].status = runState[k]
                    /\ runState[k] # "absent"
  BY <1>3, <1>4, <1>5
<1>8. QED
  BY <1>3, <1>6, <1>7 DEF latest

(***************************************************************************)
(* What may have become of a run that was read in some state.              *)
(***************************************************************************)
Early == {"received", "investigating", "assessed"}

Later(state) ==
  CASE state \in Early       -> RunStates \ {"absent"}
    [] state = "proposed"    -> {"proposed", "approved", "rejected", "expired",
                                 "executing", "succeeded", "failed"}
    [] state = "approved"    -> {"approved", "expired", "executing", "succeeded",
                                 "failed"}
    [] state = "executing"   -> {"executing", "succeeded", "failed"}
    [] OTHER                 -> {state}

RunIsAhead(k, state) ==
  /\ runState[k] \in Later(state)
  /\ state \notin Early \cup {"failed"} /\ runState[k] = "failed" =>
       \E r \in Revisions : proposal[k][r].status = "failed"

LEMMA RunStaysAhead ==
  ASSUME IInv, NEW k \in Runs, RunStep(k), NEW state \in RunStates \ {"absent"},
         RunIsAhead(k, state)
  PROVE  RunIsAhead(k, state)'
<1>1. runState[k] # "absent"
  BY DEF RunIsAhead, Later, Early, RunStates
<1>2. CASE RunUntouched(k) \/ RunNoted(k)
  BY <1>1, <1>2 DEF RunUntouched, RunNoted, RunIsAhead
<1>3. CASE RunRevised(k)
  BY <1>3 DEF RunRevised, RunIsAhead
<1>4. CASE RunMoved(k)
  <2>1. runState'[k] \in Following(runState[k])
    BY <1>4 DEF RunMoved
  <2>2. runState'[k] \in Later(state)
    BY <1>1, <2>1 DEF RunIsAhead, Later, Early, Following, RunStates
  <2>3. state \notin Early \cup {"failed"} /\ runState'[k] = "failed" =>
          runState[k] = "executing"
    BY <2>1 DEF RunIsAhead, Later, Early, Following, RunStates
  <2>4. QED
    BY <1>4, <2>2, <2>3 DEF RunMoved, RunIsAhead
<1>5. QED
  BY <1>2, <1>3, <1>4 DEF RunStep

(***************************************************************************)
(* A view under way: what it shows so far is explained by the trail as it  *)
(* is now, and once the trail was read, by what was read of it.            *)
(***************************************************************************)
ExplainedUpTo(n) ==
  /\ view.state # "received" => Explained(view.run, view.state, n)
  /\ view.status # "absent" => Explained(view.run, view.status, n)
  /\ view.revision <= 1 + Cardinality(RevisedUpTo(view.run, n))

ViewInv ==
  /\ view \in Views
  /\ view.pc # "idle" => view.run \in Runs /\ view.state # "absent"
  /\ view.pc = "run" => RunIsAhead(view.run, view.state)
  /\ ViewNeverRunsBackwards
  /\ view.pc \in {"run", "proposal"} => ExplainedUpTo(Len(audit[view.run]))
  /\ view.pc = "done" =>
       view.trail <= Len(audit[view.run]) /\ ExplainedUpTo(view.trail)

LEMMA InitView == ViewInit => ViewInv
BY DEF ViewInit, NoView, Views, ViewInv, ViewNeverRunsBackwards, RunStates,
   ProposalStates

(***************************************************************************)
(* The steps of the service, from which a view is isolated by nothing.     *)
(***************************************************************************)
LEMMA ExplanationStays ==
  ASSUME StoreTypeOK, StoreTypeOK', view \in Views, view.run \in Runs,
         RunStep(view.run), UNCHANGED view,
         NEW n \in Nat, n <= Len(audit[view.run]), ExplainedUpTo(n)
  PROVE  ExplainedUpTo(n)' /\ ExplainedUpTo(Len(audit[view.run]))'
<1> DEFINE k == view.run
<1>1. TrailGrows(k)
  BY RunStepGrows
<1>2. /\ Len(audit[k]) \in Nat /\ Len(audit'[k]) \in Nat
      /\ Len(audit[k]) <= Len(audit'[k])
  BY <1>1, MoreIsRevised
<1>3. /\ view.state # "received" =>
           Explained(k, view.state, n)' /\ Explained(k, view.state, Len(audit[k]))'
      /\ view.status # "absent" =>
           Explained(k, view.status, n)' /\ Explained(k, view.status, Len(audit[k]))'
  BY <1>1, StaysExplained DEF ExplainedUpTo
<1> DEFINE old == RevisedUpTo(k, n)
           same == {j \in 1..n : audit'[k][j].event = "proposal_revised"}
           new == {j \in 1..Len(audit'[k]) : audit'[k][j].event = "proposal_revised"}
<1>4. old \subseteq same /\ same \subseteq new
  <2>1. DOMAIN audit[k] = 1..Len(audit[k])
    BY LenProperties DEF StoreTypeOK
  <2>2. QED
    BY <1>1, <1>2, <2>1 DEF TrailGrows, RevisedUpTo
<1>5. IsFiniteSet(new)
  <2>1. IsFiniteSet(1..Len(audit'[k]))
    BY <1>2, UpToIsFinite
  <2>2. new \subseteq 1..Len(audit'[k])
    OBVIOUS
  <2>3. QED
    BY <2>1, <2>2, FS_Subset
<1>6. view.revision \in Nat /\ view.revision <= 1 + Cardinality(old)
  BY StoreAssumption DEF ExplainedUpTo, Views, Revisions
<1> HIDE DEF old, same, new
<1>7. IsFiniteSet(same) /\ IsFiniteSet(old)
  BY <1>4, <1>5, FS_Subset
<1>8. /\ Cardinality(old) \in Nat /\ Cardinality(same) \in Nat /\ Cardinality(new) \in Nat
      /\ Cardinality(old) <= Cardinality(same)
      /\ Cardinality(same) <= Cardinality(new)
  BY <1>4, <1>5, <1>7, FS_Subset, FS_CardinalityType
<1>9. /\ view.revision <= 1 + Cardinality(same)
      /\ view.revision <= 1 + Cardinality(new)
  BY <1>6, <1>8
<1>10. /\ view.revision <= 1 + Cardinality(RevisedUpTo(k, n))'
       /\ view.revision <= 1 + Cardinality(RevisedUpTo(k, Len(audit[k])))'
  BY <1>9 DEF same, new, RevisedUpTo
<1>11. QED
  BY <1>3, <1>10 DEF ExplainedUpTo

LEMMA ServiceKeepsView ==
  ASSUME IInv, IInv', ViewInv, [Next]_vars, UNCHANGED view
  PROVE  ViewInv'
<1>1. StoreTypeOK /\ StoreTypeOK' /\ view \in Views
  BY DEF IInv, TypeOK, ViewInv
<1>2. CASE view.pc = "idle"
  BY <1>2 DEF ViewInv, ViewNeverRunsBackwards
<1>3. CASE view.pc # "idle"
  <2>1. view.run \in Runs /\ RunStep(view.run) /\ view.state \in RunStates \ {"absent"}
    BY <1>3, NextRunStep DEF ViewInv, Views
  <2>2. view.pc = "run" => RunIsAhead(view.run, view.state)'
    BY <2>1, RunStaysAhead DEF ViewInv
  <2>3. Len(audit[view.run]) \in Nat /\ Len(audit'[view.run]) \in Nat
        /\ Len(audit[view.run]) <= Len(audit'[view.run])
    BY <1>1, <2>1, RunStepGrows, MoreIsRevised
  <2>4. view.pc \in {"run", "proposal"} => ExplainedUpTo(Len(audit[view.run]))'
    BY <1>1, <2>1, <2>3, ExplanationStays DEF ViewInv
  <2>5. view.pc = "done" =>
          view.trail <= Len(audit'[view.run]) /\ ExplainedUpTo(view.trail)'
    BY <1>1, <2>1, <2>3, ExplanationStays DEF ViewInv, Views
  <2>6. QED
    BY <2>2, <2>4, <2>5 DEF ViewInv, ViewNeverRunsBackwards, Reachable
<1>4. QED
  BY <1>2, <1>3

(***************************************************************************)
(* The steps of the reader: the service does not move.                     *)
(***************************************************************************)
LEMMA ReadRunKeeps ==
  ASSUME IInv, HistoryInv, NEW k \in Runs, ReadRun(k)
  PROVE  ViewInv'
<1> DEFINE new == [NoView EXCEPT !.pc = "run", !.run = k, !.state = runState[k]]
<1>1. view' = new /\ UNCHANGED vars
  BY DEF ReadRun
<1>2. /\ new.pc = "run" /\ new.run = k /\ new.state = runState[k]
      /\ new.status = "absent" /\ new.revision = 0
  BY DEF NoView
<1>3. runState[k] \in RunStates \ {"absent"} /\ audit[k] \in Seq(AuditEntries)
  BY DEF ReadRun, IInv, TypeOK, StoreTypeOK
<1>4. new \in Views
  BY <1>3 DEF NoView, Views, ProposalStates
<1> HIDE DEF new
<1>5. runState' = runState /\ proposal' = proposal /\ audit' = audit
  BY <1>1 DEF vars, storeVars
<1>6. RunIsAhead(k, runState[k])
  <2>1. runState[k] \in Later(runState[k])
    BY <1>3 DEF Later, Early, RunStates
  <2>2. QED
    BY <2>1 DEF RunIsAhead
<1>7. RunIsAhead(view.run, view.state)'
  BY <1>1, <1>2, <1>5, <1>6 DEF RunIsAhead
<1>8. runState[k] # "received" => Explained(k, runState[k], Len(audit[k]))
  BY <1>3 DEF HistoryInv, StateIsLogged
<1>9. 0 <= 1 + Cardinality(RevisedUpTo(k, Len(audit[k])))
  <2>1. Len(audit[k]) \in Nat
    BY <1>3, LenProperties
  <2>2. QED
    BY <2>1, RevisedIsFinite
<1>10. ExplainedUpTo(Len(audit[view.run]))'
  BY <1>1, <1>2, <1>5, <1>8, <1>9 DEF ExplainedUpTo, Explained, RevisedUpTo
<1>11. QED
  BY <1>1, <1>2, <1>3, <1>4, <1>7, <1>10 DEF ViewInv, ViewNeverRunsBackwards

LEMMA ReadProposalKeeps ==
  ASSUME IInv, HistoryInv, ViewInv, ReadLatestProposal
  PROVE  ViewInv'
<1> USE StoreAssumption DEF Revisions
<1> DEFINE k == view.run
           r == LatestRevision(k)
           status == IF r = 0 THEN "absent" ELSE proposal[k][r].status
           new == [view EXCEPT !.pc = "proposal", !.revision = r, !.status = status]
<1>1. view.pc = "run" /\ view' = new /\ UNCHANGED vars
  BY DEF ReadLatestProposal
<1>2. /\ view \in Views /\ k \in Runs /\ view.state \in RunStates \ {"absent"}
      /\ RunIsAhead(k, view.state)
      /\ ExplainedUpTo(Len(audit[k]))
  BY <1>1 DEF ViewInv, Views
<1>3. /\ r \in Revisions \cup {0}
      /\ r # 0 => r \in Revisions /\ status = runState[k] /\ runState[k] # "absent"
                  /\ proposal[k][r].status # "absent"
      /\ r = 0 => \A q \in Revisions : proposal[k][q].status = "absent"
  BY <1>2, LatestRevisionIs
<1>4. status \in ProposalStates
  <2>1. r # 0 => proposal[k][r] \in ProposalRows
    BY <1>2, <1>3 DEF IInv, TypeOK, StoreTypeOK
  <2>2. QED
    BY <2>1 DEF ProposalRows, ProposalStates
<1>5. status # "absent" => status = runState[k]
  BY <1>3
<1>6. status = "absent" => \A q \in Revisions : proposal[k][q].status = "absent"
  BY <1>3
<1> HIDE DEF status, r
<1>7. /\ new.pc = "proposal" /\ new.run = k /\ new.state = view.state
      /\ new.status = status /\ new.revision = r /\ new.trail = view.trail
  BY <1>2 DEF Views
<1>8. new \in Views
  BY <1>2, <1>3, <1>4 DEF Views
<1>9. runState[k] \in RunStates
  BY <1>2 DEF IInv, TypeOK, StoreTypeOK
<1> HIDE DEF new
<1>10. status \in Reachable(view.state)
  <2>1. CASE status = "absent"
    <3>1. runState[k] \notin {"proposed", "approved", "rejected", "expired",
                              "executing", "succeeded"}
      BY <1>2, <1>6, <2>1 DEF IInv, RunFollowsProposal
    <3>2. \A q \in Revisions : proposal[k][q].status # "failed"
      BY <1>6, <2>1
    <3>3. view.state \in Early \cup {"failed"}
      BY <1>2, <1>9, <3>1, <3>2 DEF RunIsAhead, Later, Early, RunStates
    <3>4. QED
      BY <2>1, <3>3 DEF Reachable, Early, ProposalStates
  <2>2. CASE status # "absent"
    <3>1. status \in Later(view.state) /\ status # "superseded"
      BY <1>2, <1>5, <1>9, <2>2 DEF RunIsAhead, RunStates
    <3>2. QED
      BY <1>2, <1>4, <2>2, <3>1 DEF Later, Early, Reachable, RunStates
  <2>3. QED
    BY <2>1, <2>2
<1>11. status # "absent" => Explained(k, status, Len(audit[k]))
  <2> SUFFICES ASSUME status # "absent" PROVE Explained(k, status, Len(audit[k]))
    OBVIOUS
  <2>1. status = runState[k] /\ status # "received"
    BY <1>4, <1>5 DEF ProposalStates
  <2>2. QED
    BY <1>2, <2>1 DEF HistoryInv, StateIsLogged
<1>12. r <= 1 + Cardinality(RevisedUpTo(k, Len(audit[k])))
  <2>1. CASE r = 0
    <3>1. Len(audit[k]) \in Nat
      BY <1>2, LenProperties DEF IInv, TypeOK, StoreTypeOK
    <3>2. QED
      BY <2>1, <3>1, RevisedIsFinite
  <2>2. CASE r # 0
    BY <1>2, <1>3, <2>2 DEF HistoryInv, RevisionsAreLogged
  <2>3. QED
    BY <2>1, <2>2
<1>13. audit' = audit
  BY <1>1 DEF vars, storeVars
<1>14. ExplainedUpTo(Len(audit[view.run]))'
  BY <1>1, <1>2, <1>7, <1>11, <1>12, <1>13 DEF ExplainedUpTo, Explained, RevisedUpTo
<1>15. ViewNeverRunsBackwards'
  BY <1>1, <1>7, <1>10 DEF ViewNeverRunsBackwards, Reachable
<1>16. QED
  BY <1>1, <1>2, <1>7, <1>8, <1>14, <1>15 DEF ViewInv

LEMMA ReadAuditKeeps ==
  ASSUME IInv, ViewInv, ReadAudit
  PROVE  ViewInv'
<1> DEFINE new == [view EXCEPT !.pc = "done", !.trail = Len(audit[view.run])]
<1>1. view.pc = "proposal" /\ view' = new /\ UNCHANGED vars
  BY DEF ReadAudit
<1>2. /\ view \in Views /\ view.run \in Runs /\ view.state # "absent"
      /\ ExplainedUpTo(Len(audit[view.run]))
  BY <1>1 DEF ViewInv
<1>3. Len(audit[view.run]) \in Nat
  BY <1>2, LenProperties DEF IInv, TypeOK, StoreTypeOK
<1>4. /\ new.pc = "done" /\ new.run = view.run /\ new.state = view.state
      /\ new.status = view.status /\ new.revision = view.revision
      /\ new.trail = Len(audit[view.run])
  BY <1>2 DEF Views
<1>5. new \in Views
  BY <1>2, <1>3 DEF Views
<1> HIDE DEF new
<1>6. audit' = audit
  BY <1>1 DEF vars, storeVars
<1>7. ExplainedUpTo(view.trail)'
  BY <1>1, <1>2, <1>4, <1>6 DEF ExplainedUpTo, Explained, RevisedUpTo
<1>8. view'.trail <= Len(audit'[view'.run])
  BY <1>1, <1>3, <1>4, <1>6
<1>9. ViewNeverRunsBackwards'
  BY <1>1, <1>4 DEF ViewInv, ViewNeverRunsBackwards, Reachable
<1>10. QED
  BY <1>1, <1>2, <1>4, <1>5, <1>7, <1>8, <1>9 DEF ViewInv

LEMMA RespondKeeps == Respond => ViewInv'
BY DEF Respond, NoView, Views, ViewInv, ViewNeverRunsBackwards, RunStates,
   ProposalStates

(***************************************************************************)
(* The invariant of the service, its histories and a view under way.       *)
(***************************************************************************)
THEOREM ViewsInvariant == ViewSpec => [](IInv /\ HistoryInv /\ ViewInv)
<1>1. ViewInit => IInv /\ HistoryInv /\ ViewInv
  BY InitIInv, InitHistory, InitView DEF ViewInit
<1>2. IInv /\ HistoryInv /\ ViewInv /\ [ViewNext]_viewVars
        => (IInv /\ HistoryInv /\ ViewInv)'
  <2> SUFFICES ASSUME IInv, HistoryInv, ViewInv, [ViewNext]_viewVars
               PROVE  IInv' /\ HistoryInv' /\ ViewInv'
    OBVIOUS
  <2>1. [Next]_vars
    BY DEF ViewNext, viewVars, ReadRun, ReadLatestProposal, ReadAudit, Respond
  <2>2. IInv'
    BY <2>1, NextIInv
  <2>3. HistoryInv'
    BY <2>1, <2>2, NextHistory
  <2>4. ASSUME UNCHANGED view PROVE ViewInv'
    BY <2>1, <2>2, <2>4, ServiceKeepsView
  <2>5. ASSUME \E k \in Runs : ReadRun(k) PROVE ViewInv'
    BY <2>5, ReadRunKeeps
  <2>6. ASSUME ReadLatestProposal \/ ReadAudit \/ Respond PROVE ViewInv'
    BY <2>6, ReadProposalKeeps, ReadAuditKeeps, RespondKeeps
  <2>7. QED
    BY <2>2, <2>3, <2>4, <2>5, <2>6 DEF ViewNext, viewVars
<1>3. QED
  BY <1>1, <1>2, PTL DEF ViewSpec

(***************************************************************************)
(* A view is type-correct and never runs backwards: the proposal it shows  *)
(* has come at least as far as the run it shows (service.py, get_run).     *)
(***************************************************************************)
THEOREM ViewsRunForwards == ViewSpec => [](ViewTypeOK /\ ViewNeverRunsBackwards)
<1>1. IInv /\ ViewInv => ViewTypeOK /\ ViewNeverRunsBackwards
  BY DEF IInv, ViewInv, ViewTypeOK
<1>2. QED
  BY <1>1, ViewsInvariant, PTL

(***************************************************************************)
(* The trail of a view, which is read last, explains the rest of it.       *)
(***************************************************************************)
THEOREM ViewsAreExplained == ViewSpec => []ViewIsExplained
<1>1. ViewInv => ViewIsExplained
  BY DEF ViewInv, ExplainedUpTo, RevisedUpTo, ViewIsExplained
<1>2. QED
  BY <1>1, ViewsInvariant, PTL

===============================================================================
