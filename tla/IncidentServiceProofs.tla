-------------------------- MODULE IncidentServiceProofs --------------------------
(***************************************************************************)
(* Proofs about IncidentService, for every number of threads, runs,        *)
(* payloads, options and revisions, every TTL and clock bound, and every   *)
(* set of faults.                                                          *)
(***************************************************************************)
EXTENDS IncidentService, SequenceTheorems, TLAPS

(***************************************************************************)
(* Audit entries that the service writes are well formed, and so is a log  *)
(* they are appended to.                                                   *)
(***************************************************************************)
LEMMA EntriesAreTyped ==
  /\ \A from, to \in RunStates : Moved(from, to) \in AuditEntries
  /\ \A event \in AuditEvents : Noted(event) \in AuditEntries
  /\ \A decision \in {"approve", "reject"}, digest \in Digests :
       Decided(decision, digest) \in AuditEntries
BY DEF Moved, Noted, Decided, Entry, AuditEntries, RunStates, AuditEvents

LEMMA LogOneTyped ==
  ASSUME StoreTypeOK, NEW k \in Runs, NEW e \in AuditEntries, Log(k, <<e>>)
  PROVE  audit' \in [Runs -> Seq(AuditEntries)]
<1>1. <<e>> \in Seq(AuditEntries)
  OBVIOUS
<1>2. audit[k] \o <<e>> \in Seq(AuditEntries)
  BY <1>1, ConcatProperties DEF StoreTypeOK
<1>3. QED
  BY <1>2 DEF StoreTypeOK, Log

LEMMA LogTwoTyped ==
  ASSUME StoreTypeOK, NEW k \in Runs,
         NEW e \in AuditEntries, NEW f \in AuditEntries, Log(k, <<e, f>>)
  PROVE  audit' \in [Runs -> Seq(AuditEntries)]
<1>1. <<e, f>> \in Seq(AuditEntries)
  OBVIOUS
<1>2. audit[k] \o <<e, f>> \in Seq(AuditEntries)
  BY <1>1, ConcatProperties DEF StoreTypeOK
<1>3. QED
  BY <1>2 DEF StoreTypeOK, Log

(***************************************************************************)
(* Changing the status of a row touches nothing else of it.                *)
(***************************************************************************)
LEMMA WithStatusTyped ==
  ASSUME NEW row \in ProposalRows, NEW s \in ProposalStates
  PROVE  /\ WithStatus(row, s) \in ProposalRows
         /\ WithStatus(row, s).status = s
         /\ WithStatus(row, s).option = row.option
         /\ WithStatus(row, s).expires_at = row.expires_at
         /\ WithStatus(row, s).approved_hash = row.approved_hash
BY DEF WithStatus, ProposalRows

(***************************************************************************)
(* Each transaction keeps the tables well typed.                           *)
(***************************************************************************)
LEMMA CreateRunTyped ==
  ASSUME StoreTypeOK, NEW k \in Runs, NEW p \in Payloads, create_run(k, p)
  PROVE  StoreTypeOK'
<1>1. audit' \in [Runs -> Seq(AuditEntries)]
  BY EntriesAreTyped, LogOneTyped DEF create_run, AuditEvents
<1>2. QED
  BY <1>1 DEF StoreTypeOK, create_run, RunStates

LEMMA TransitionRunTyped ==
  ASSUME StoreTypeOK, NEW k \in Runs, NEW s \in RunStates, NEW t \in RunStates,
         transition_run(k, s, t)
  PROVE  StoreTypeOK'
<1>1. audit' \in [Runs -> Seq(AuditEntries)]
  BY EntriesAreTyped, LogOneTyped DEF transition_run
<1>2. QED
  BY <1>1 DEF StoreTypeOK, transition_run

LEMMA CreateAuditTyped ==
  ASSUME StoreTypeOK, NEW k \in Runs, NEW e \in AuditEvents, create_audit(k, e)
  PROVE  StoreTypeOK'
<1>1. audit' \in [Runs -> Seq(AuditEntries)]
  BY EntriesAreTyped, LogOneTyped DEF create_audit
<1>2. QED
  BY <1>1 DEF StoreTypeOK, create_audit

LEMMA FailRunTyped ==
  ASSUME StoreTypeOK, NEW k \in Runs, fail_run(k)
  PROVE  StoreTypeOK'
<1>1. CASE runState[k] \in Terminal
  BY <1>1 DEF fail_run, StoreTypeOK, storeVars
<1>2. CASE runState[k] \notin Terminal
  <2>1. Moved(runState[k], "failed") \in AuditEntries
    BY EntriesAreTyped DEF StoreTypeOK, RunStates
  <2>2. Noted("run_failed") \in AuditEntries
    BY EntriesAreTyped DEF AuditEvents
  <2>3. audit' \in [Runs -> Seq(AuditEntries)]
    BY <1>2, <2>1, <2>2, LogTwoTyped DEF fail_run
  <2>4. QED
    BY <1>2, <2>3 DEF fail_run, StoreTypeOK, RunStates
<1>3. QED
  BY <1>1, <1>2

LEMMA CreateProposalTyped ==
  ASSUME StoreTypeOK, NEW k \in Runs, NEW row \in ProposalRows,
         create_proposal_and_transition(k, row)
  PROVE  StoreTypeOK'
<1>1. audit' \in [Runs -> Seq(AuditEntries)]
  BY EntriesAreTyped, LogTwoTyped
  DEF create_proposal_and_transition, RunStates, AuditEvents
<1>2. 1 \in Revisions
  BY StoreAssumption DEF Revisions
<1>3. QED
  BY <1>1, <1>2 DEF StoreTypeOK, create_proposal_and_transition, RunStates

LEMMA ExpireLockedTyped ==
  ASSUME StoreTypeOK, NEW k \in Runs, NEW r \in Revisions, expire_locked(k, r)
  PROVE  StoreTypeOK'
<1>1. Moved(runState[k], "expired") \in AuditEntries
  BY EntriesAreTyped DEF StoreTypeOK, RunStates
<1>2. Noted("proposal_expired") \in AuditEntries
  BY EntriesAreTyped DEF AuditEvents
<1>3. audit' \in [Runs -> Seq(AuditEntries)]
  BY <1>1, <1>2, LogTwoTyped DEF expire_locked
<1>4. QED
  BY <1>3, WithStatusTyped DEF StoreTypeOK, expire_locked, RunStates, ProposalStates

LEMMA ReviseProposalTyped ==
  ASSUME StoreTypeOK, NEW k \in Runs, NEW r \in Revisions, r < MaxRevision,
         NEW row \in ProposalRows, revise_proposal(k, r, row)
  PROVE  StoreTypeOK'
<1>1. audit' \in [Runs -> Seq(AuditEntries)]
  BY EntriesAreTyped, LogOneTyped DEF revise_proposal, AuditEvents
<1>2. r + 1 \in Revisions
  BY StoreAssumption DEF Revisions
<1> DEFINE marked == [proposal EXCEPT ![k][r] = WithStatus(@, "superseded")]
<1>3. WithStatus(proposal[k][r], "superseded") \in ProposalRows
  BY WithStatusTyped DEF StoreTypeOK, ProposalStates
<1>4. marked \in [Runs -> [Revisions -> ProposalRows]]
  BY <1>3 DEF StoreTypeOK
<1>5. proposal' = [marked EXCEPT ![k][r + 1] = row]
  BY DEF revise_proposal
<1>6. proposal' \in [Runs -> [Revisions -> ProposalRows]]
  BY <1>2, <1>4, <1>5
<1>7. QED
  BY <1>1, <1>6 DEF StoreTypeOK, revise_proposal

LEMMA SettleProposalTyped ==
  ASSUME StoreTypeOK, NEW k \in Runs, NEW r \in Revisions,
         NEW decision \in {"approve", "reject"}, NEW digest \in Digests,
         settle_proposal(k, r, decision, digest)
  PROVE  StoreTypeOK'
<1> DEFINE state == IF decision = "approve" THEN "approved" ELSE "rejected"
           hash  == IF decision = "approve" THEN digest ELSE None
<1>1. state \in RunStates /\ state \in ProposalStates /\ hash \in Digests \cup {None}
  BY DEF RunStates, ProposalStates
<1>2. Moved("proposed", state) \in AuditEntries
  BY <1>1, EntriesAreTyped DEF RunStates
<1>3. Decided(decision, digest) \in AuditEntries
  BY EntriesAreTyped
<1>4. audit' \in [Runs -> Seq(AuditEntries)]
  BY <1>2, <1>3, LogTwoTyped DEF settle_proposal
<1> DEFINE row == [WithStatus(proposal[k][r], state) EXCEPT !.approved_hash = hash]
<1>5. WithStatus(proposal[k][r], state) \in ProposalRows
  BY <1>1, WithStatusTyped DEF StoreTypeOK
<1>6. row \in ProposalRows
  BY <1>1, <1>5 DEF ProposalRows
<1>7. proposal' = [proposal EXCEPT ![k][r] = row]
  BY DEF settle_proposal
<1>8. runState' = [runState EXCEPT ![k] = state] /\ payload' = payload
  BY DEF settle_proposal
<1> HIDE DEF row, state, hash
<1>9. QED
  BY <1>1, <1>4, <1>6, <1>7, <1>8 DEF StoreTypeOK

LEMMA ClaimExecutionTyped ==
  ASSUME StoreTypeOK, NEW k \in Runs, NEW r \in Revisions, claim_execution(k, r)
  PROVE  StoreTypeOK'
<1>1. audit' \in [Runs -> Seq(AuditEntries)]
  BY EntriesAreTyped, LogOneTyped DEF claim_execution, RunStates
<1>2. QED
  BY <1>1, WithStatusTyped DEF StoreTypeOK, claim_execution, RunStates, ProposalStates

LEMMA FinalizeExecutionTyped ==
  ASSUME StoreTypeOK, NEW k \in Runs, NEW r \in Revisions,
         NEW final \in {"succeeded", "failed"}, finalize_execution(k, r, final)
  PROVE  StoreTypeOK'
<1>1. Moved("executing", final) \in AuditEntries
  BY EntriesAreTyped DEF RunStates
<1>2. Noted("execution_result") \in AuditEntries
  BY EntriesAreTyped DEF AuditEvents
<1>3. audit' \in [Runs -> Seq(AuditEntries)]
  BY <1>1, <1>2, LogTwoTyped DEF finalize_execution
<1>4. QED
  BY <1>3, WithStatusTyped DEF StoreTypeOK, finalize_execution, RunStates, ProposalStates

LEMMA ExpireDueTyped ==
  ASSUME StoreTypeOK, NEW now \in Nat, expire_due(now)
  PROVE  StoreTypeOK'
<1>1. ASSUME NEW k \in Runs
      PROVE  audit[k] \o <<Moved(runState[k], "expired"), Noted("proposal_expired")>>
               \in Seq(AuditEntries)
  <2>1. Moved(runState[k], "expired") \in AuditEntries
    BY EntriesAreTyped DEF StoreTypeOK, RunStates
  <2>2. Noted("proposal_expired") \in AuditEntries
    BY EntriesAreTyped DEF AuditEvents
  <2>3. <<Moved(runState[k], "expired"), Noted("proposal_expired")>>
          \in Seq(AuditEntries)
    BY <2>1, <2>2
  <2>4. QED
    BY <2>3, ConcatProperties DEF StoreTypeOK
<1>2. audit' \in [Runs -> Seq(AuditEntries)]
  BY <1>1 DEF expire_due, StoreTypeOK
<1>3. proposal' \in [Runs -> [Revisions -> ProposalRows]]
  BY WithStatusTyped DEF expire_due, StoreTypeOK, ProposalStates
<1>4. runState' \in [Runs -> RunStates]
  BY DEF expire_due, StoreTypeOK, RunStates
<1>5. QED
  BY <1>2, <1>3, <1>4 DEF expire_due, StoreTypeOK


-------------------------------------------------------------------------------

(***************************************************************************)
(* Where a thread goes next is well typed.                                 *)
(***************************************************************************)
LEMMA IdleTyped == Idle \in WorkerStates
BY StoreAssumption DEF Idle, WorkerStates, PCs, Revisions

LEMMA GotoTyped ==
  ASSUME TypeOK, NEW w \in Workers, NEW pc \in PCs
  PROVE  LET s == [worker[w] EXCEPT !.pc = pc]
         IN  /\ s \in WorkerStates
             /\ s.pc = pc
             /\ s.run = worker[w].run
             /\ s.revision = worker[w].revision
             /\ s.decision = worker[w].decision
             /\ s.digest = worker[w].digest
             /\ s.option = worker[w].option
             /\ s.now = worker[w].now
             /\ s.result = worker[w].result
BY DEF TypeOK, WorkerStates

LEMMA BecomeTyped ==
  ASSUME TypeOK, NEW w \in Workers, NEW s \in WorkerStates, Become(w, s)
  PROVE  /\ worker' \in [Workers -> WorkerStates]
         /\ worker'[w] = s
         /\ \A v \in Workers \ {w} : worker'[v] = worker[v]
BY DEF TypeOK, Become

-------------------------------------------------------------------------------

(***************************************************************************)
(* What a step of one thread has to respect so that the others keep their  *)
(* part of the invariant: no row disappears or changes its option, and     *)
(* what another thread owns is left alone.                                 *)
(***************************************************************************)
StoreInv ==
  RowsAreComplete /\ EarlyRunsHaveNoProposal /\ RunFollowsProposal

KeepsRows ==
  \A k \in Runs, r \in Revisions :
    proposal[k][r].status # "absent" =>
      /\ proposal'[k][r].status # "absent"
      /\ proposal'[k][r].option = proposal[k][r].option

KeepsOwned(w) ==
  \A v \in Workers \ {w}, k \in Runs :
    Owns(v, k) => runState'[k] = runState[k] /\ proposal'[k] = proposal[k]

KeepsClaims ==
  \A k \in Runs, r \in Revisions :
    proposal[k][r].status \in {"executing", "succeeded", "failed"} =>
      proposal'[k][r].status \in {"executing", "succeeded", "failed"}

KeepsLog ==
  \A k \in Runs, digest \in Digests :
    ApprovalIsLogged(k, digest) => ApprovalIsLogged(k, digest)'

OwnsAlone(w, s) ==
  s.pc \in IntakePCs \cup HoldingPCs =>
    /\ runState'[s.run] \in ExpectedState(s.pc)
    /\ s.pc \in HoldingPCs =>
         proposal'[s.run][s.revision].status = "executing"
    /\ \A v \in Workers \ {w} : ~Owns(v, s.run)

(***************************************************************************)
(* The jobs of the other threads stay valid, and so does the ownership.    *)
(***************************************************************************)
LEMMA JobsKept ==
  ASSUME IInv, TypeOK', NEW w \in Workers, NEW s \in WorkerStates, Become(w, s),
         KeepsRows, JobIsValid(w)'
  PROVE  \A v \in Workers : JobIsValid(v)'
<1>1. SUFFICES ASSUME NEW v \in Workers \ {w}
               PROVE  JobIsValid(v)'
  OBVIOUS
<1>2. worker'[v] = worker[v] /\ worker[v] \in WorkerStates /\ JobIsValid(v)
  BY BecomeTyped DEF IInv, TypeOK
<1>3. worker[v].revision \in Revisions
  BY <1>2 DEF WorkerStates
<1>4. CASE worker[v].run \in Runs
  BY <1>2, <1>3, <1>4 DEF JobIsValid, KeepsRows, HoldingPCs
<1>5. CASE worker[v].run \notin Runs
  <2>1. worker[v].pc \in {"idle", "expiring"}
    BY <1>2, <1>5 DEF JobIsValid
  <2>2. QED
    BY <1>2, <2>1 DEF JobIsValid, HoldingPCs
<1>6. QED
  BY <1>4, <1>5

LEMMA OwnershipKept ==
  ASSUME IInv, TypeOK', NEW w \in Workers, NEW s \in WorkerStates, Become(w, s),
         KeepsOwned(w), OwnsAlone(w, s)
  PROVE  OwnershipIsExclusive'
<1>1. /\ worker'[w] = s
      /\ \A v \in Workers \ {w} : worker'[v] = worker[v]
  BY BecomeTyped DEF IInv
<1>2. SUFFICES ASSUME NEW v \in Workers, NEW k \in Runs, Owns(v, k)'
               PROVE  /\ runState'[k] \in ExpectedState(worker'[v].pc)
                      /\ worker'[v].pc \in HoldingPCs =>
                           proposal'[k][worker'[v].revision].status = "executing"
                      /\ \A u \in Workers \ {v} : ~Owns(u, k)'
  BY DEF OwnershipIsExclusive
<1>3. CASE v = w
  <2>1. \A u \in Workers \ {w} : Owns(u, k)' => Owns(u, k)
    BY <1>1 DEF Owns
  <2>2. QED
    BY <1>1, <1>2, <1>3, <2>1 DEF Owns, OwnsAlone
<1>4. CASE v # w
  <2>1. Owns(v, k) /\ worker'[v] = worker[v]
    BY <1>1, <1>2, <1>4 DEF Owns
  <2>2. runState'[k] = runState[k] /\ proposal'[k] = proposal[k]
    BY <1>4, <2>1 DEF KeepsOwned
  <2>3. \A u \in Workers \ {v, w} : ~Owns(u, k)'
    BY <1>1, <2>1 DEF Owns, IInv, OwnershipIsExclusive
  <2>4. ~Owns(w, k)'
    BY <1>1, <1>4, <2>1 DEF Owns, OwnsAlone
  <2>5. QED
    BY <2>1, <2>2, <2>3, <2>4 DEF IInv, OwnershipIsExclusive
<1>5. QED
  BY <1>3, <1>4

(***************************************************************************)
(* A step that calls no executor keeps what is known of the effects.       *)
(***************************************************************************)
LEMMA EffectsKept ==
  ASSUME IInv, TypeOK', NEW w \in Workers, NEW s \in WorkerStates, Become(w, s),
         effects' = effects, KeepsRows, KeepsClaims,
         \A k \in Runs : runState'[k] = "succeeded" =>
           \/ runState[k] = "succeeded"
           \/ effects[k] # <<>> /\ effects[k][1].result = "succeeded",
         s.pc \in {"claimed", "calling"} => effects[s.run] = <<>>,
         s.pc # "finalizing"
  PROVE  EffectsFollowClaims'
<1>1. /\ worker'[w] = s
      /\ \A v \in Workers \ {w} : worker'[v] = worker[v]
  BY BecomeTyped DEF IInv
<1>2. SUFFICES ASSUME NEW k \in Runs
               PROVE  /\ effects[k] # <<>> => \E r \in Revisions :
                           /\ proposal'[k][r].status \in {"executing", "succeeded", "failed"}
                           /\ effects[k][1].digest = action_hash(r, proposal'[k][r].option)
                      /\ \A v \in Workers : worker'[v].run = k =>
                           /\ worker'[v].pc \in {"claimed", "calling"} => effects[k] = <<>>
                           /\ worker'[v].pc = "finalizing" =>
                                effects[k] # <<>> /\ effects[k][1].result = worker'[v].result
  BY DEF EffectsFollowClaims, IInv
<1>3. ASSUME effects[k] # <<>>
      PROVE  \E r \in Revisions :
               /\ proposal'[k][r].status \in {"executing", "succeeded", "failed"}
               /\ effects[k][1].digest = action_hash(r, proposal'[k][r].option)
  <2>1. PICK r \in Revisions :
               /\ proposal[k][r].status \in {"executing", "succeeded", "failed"}
               /\ effects[k][1].digest = action_hash(r, proposal[k][r].option)
    BY <1>3 DEF IInv, EffectsFollowClaims
  <2>2. proposal'[k][r].option = proposal[k][r].option
    BY <2>1 DEF KeepsRows
  <2>3. QED
    BY <2>1, <2>2 DEF KeepsClaims
<1>4. ASSUME NEW v \in Workers, worker'[v].run = k
      PROVE  /\ worker'[v].pc \in {"claimed", "calling"} => effects[k] = <<>>
             /\ worker'[v].pc = "finalizing" =>
                  effects[k] # <<>> /\ effects[k][1].result = worker'[v].result
  BY <1>1, <1>4 DEF IInv, EffectsFollowClaims
<1>5. QED
  BY <1>3, <1>4


LEMMA ApprovalsKept ==
  ASSUME IInv, TypeOK', KeepsLog,
         \A k \in Runs, r \in Revisions :
           proposal'[k][r].status \in ApprovedStates =>
             /\ proposal[k][r].status \in ApprovedStates
             /\ proposal'[k][r].option = proposal[k][r].option
             /\ proposal'[k][r].approved_hash = proposal[k][r].approved_hash
  PROVE  ApprovalsAreBound'
<1>1. SUFFICES ASSUME NEW k \in Runs, NEW r \in Revisions,
                      proposal'[k][r].status \in ApprovedStates
               PROVE  (/\ proposal[k][r].approved_hash
                            = action_hash(r, proposal[k][r].option)
                       /\ ApprovalIsLogged(k, proposal[k][r].approved_hash))'
  BY DEF ApprovalsAreBound
<1>2. /\ proposal[k][r].approved_hash = action_hash(r, proposal[k][r].option)
      /\ ApprovalIsLogged(k, proposal[k][r].approved_hash)
  BY <1>1 DEF IInv, ApprovalsAreBound
<1>3. proposal[k][r].option \in Options
  BY <1>1 DEF IInv, RowsAreComplete, ApprovedStates
<1>4. PICK d \in Digests : d = proposal[k][r].approved_hash
  BY <1>2, <1>3 DEF action_hash, Digests
<1>5. ApprovalIsLogged(k, d)'
  BY <1>2, <1>4 DEF KeepsLog
<1>6. proposal'[k][r].approved_hash = d
  BY <1>1, <1>4
<1>7. QED
  BY <1>1, <1>2, <1>5, <1>6 DEF ApprovalIsLogged

(***************************************************************************)
(* Appending to a log loses nothing of it.                                 *)
(***************************************************************************)
LEMMA LogKeeps ==
  ASSUME StoreTypeOK, NEW k \in Runs, NEW es \in Seq(AuditEntries), Log(k, es)
  PROVE  KeepsLog
<1>1. SUFFICES ASSUME NEW j \in Runs, NEW digest \in Digests,
                      NEW i \in DOMAIN audit[j],
                      audit[j][i].event = "approve", audit[j][i].digest = digest
               PROVE  /\ i \in DOMAIN audit'[j]
                      /\ audit'[j][i] = audit[j][i]
  BY DEF KeepsLog, ApprovalIsLogged
<1>2. CASE j = k
  <2>1. audit'[j] = audit[j] \o es /\ audit[j] \in Seq(AuditEntries)
    BY <1>2 DEF Log, StoreTypeOK
  <2>2. QED
    BY <2>1, <1>1, ConcatProperties
<1>3. CASE j # k
  BY <1>1, <1>3 DEF Log, StoreTypeOK
<1>4. QED
  BY <1>2, <1>3

-------------------------------------------------------------------------------

(***************************************************************************)
(* The shape of the tables is kept by a step that leaves the proposals     *)
(* alone and moves a run within intake or out of it as failed, ...         *)
(***************************************************************************)
LEMMA EarlyMoveKeepsStore ==
  ASSUME TypeOK, StoreInv, NEW k \in Runs, proposal' = proposal,
         runState[k] \in {"absent", "received", "investigating", "assessed"},
         NEW t \in {"received", "investigating", "assessed", "failed"},
         runState' = [runState EXCEPT ![k] = t]
  PROVE  StoreInv'
<1>1. \A r \in Revisions : proposal[k][r].status = "absent"
  BY DEF StoreInv, EarlyRunsHaveNoProposal
<1>2. /\ runState'[k] = t
      /\ \A j \in Runs \ {k} : runState'[j] = runState[j]
  BY DEF TypeOK, StoreTypeOK
<1>3. RowsAreComplete' /\ EarlyRunsHaveNoProposal'
  BY <1>1, <1>2 DEF StoreInv, RowsAreComplete, EarlyRunsHaveNoProposal
<1>4. RunFollowsProposal'
  BY <1>1, <1>2 DEF StoreInv, RunFollowsProposal, NewestOf
<1>5. QED
  BY <1>3, <1>4 DEF StoreInv

(***************************************************************************)
(* ... and by one that moves a run and its newest proposal together.       *)
(***************************************************************************)
LateStates == {"approved", "rejected", "expired", "executing", "succeeded", "failed"}

MovesTogether(k, r, t) ==
  /\ proposal[k][r].status = runState[k]
  /\ runState[k] \in {"proposed", "approved", "executing"}
  /\ \E row \in ProposalRows :
       /\ row.status = t
       /\ row.option = proposal[k][r].option
       /\ proposal' = [proposal EXCEPT ![k][r] = row]
  /\ runState' = [runState EXCEPT ![k] = t]

LEMMA MovedRows ==
  ASSUME TypeOK, NEW k \in Runs, NEW r \in Revisions, NEW t \in LateStates,
         MovesTogether(k, r, t)
  PROVE  /\ proposal'[k][r].status = t
         /\ proposal'[k][r].option = proposal[k][r].option
         /\ \A q \in Revisions \ {r} : proposal'[k][q] = proposal[k][q]
         /\ \A j \in Runs \ {k} : proposal'[j] = proposal[j]
         /\ runState'[k] = t
         /\ \A j \in Runs \ {k} : runState'[j] = runState[j]
BY DEF TypeOK, StoreTypeOK, MovesTogether

LEMMA MoveKeepsStore ==
  ASSUME TypeOK, StoreInv, NEW k \in Runs, NEW r \in Revisions,
         NEW t \in LateStates, MovesTogether(k, r, t)
  PROVE  StoreInv'
<1>1. /\ proposal'[k][r].status = t
      /\ proposal'[k][r].option = proposal[k][r].option
      /\ \A q \in Revisions \ {r} : proposal'[k][q] = proposal[k][q]
      /\ \A j \in Runs \ {k} : proposal'[j] = proposal[j]
      /\ runState'[k] = t
      /\ \A j \in Runs \ {k} : runState'[j] = runState[j]
  BY MovedRows
<1>2. proposal[k][r].status \in {"proposed", "approved", "executing"}
  BY DEF MovesTogether
<1>3. RowsAreComplete'
  BY <1>1, <1>2 DEF StoreInv, RowsAreComplete
<1>4. EarlyRunsHaveNoProposal'
  BY <1>1 DEF StoreInv, EarlyRunsHaveNoProposal, LateStates
<1>5. NewestOf(k, r)
  BY <1>2 DEF StoreInv, RunFollowsProposal
<1>6. NewestOf(k, r)'
  BY <1>1, <1>5 DEF NewestOf, Revisions
<1>7. ASSUME NEW q \in Revisions, q # r
      PROVE  proposal'[k][q].status \in {"absent", "superseded"}
  BY <1>1, <1>5, <1>7 DEF NewestOf, Revisions
<1>8. RunFollowsProposal'
  BY <1>1, <1>6, <1>7 DEF StoreInv, RunFollowsProposal, NewestOf, LateStates
<1>9. QED
  BY <1>3, <1>4, <1>8 DEF StoreInv


-------------------------------------------------------------------------------

(***************************************************************************)
(* A step that changes nothing but what its own thread is doing.           *)
(***************************************************************************)
LEMMA QuietStep ==
  ASSUME IInv, NEW w \in Workers, NEW s \in WorkerStates, Become(w, s),
         UNCHANGED <<storeVars, clock, effects>>, JobIsValid(w)',
         s.pc \notin {"claimed", "calling", "finalizing"},
         s.pc \in IntakePCs \cup HoldingPCs =>
           /\ Owns(w, s.run)
           /\ runState[s.run] \in ExpectedState(s.pc)
           /\ s.pc \in HoldingPCs => /\ worker[w].pc \in HoldingPCs
                                     /\ s.revision = worker[w].revision
  PROVE  IInv'
<1>1. /\ worker' \in [Workers -> WorkerStates]
      /\ worker'[w] = s
      /\ \A v \in Workers \ {w} : worker'[v] = worker[v]
  BY BecomeTyped DEF IInv
<1>2. TypeOK'
  BY <1>1 DEF IInv, TypeOK, StoreTypeOK, storeVars
<1>3. StoreInv'
  BY DEF IInv, StoreInv, RowsAreComplete, EarlyRunsHaveNoProposal,
         RunFollowsProposal, NewestOf, storeVars
<1>4. KeepsRows /\ KeepsOwned(w) /\ KeepsClaims /\ KeepsLog
  BY DEF KeepsRows, KeepsOwned, KeepsClaims, KeepsLog, ApprovalIsLogged, storeVars
<1>5. OwnsAlone(w, s)
  <2>1. SUFFICES ASSUME s.pc \in IntakePCs \cup HoldingPCs
                 PROVE  OwnsAlone(w, s)
    BY DEF OwnsAlone
  <2>2. s.run \in Runs /\ s.run = worker[w].run
    BY <2>1 DEF IInv, Owns, JobIsValid, IntakePCs, HoldingPCs
  <2>3. QED
    BY <2>1, <2>2 DEF OwnsAlone, IInv, OwnershipIsExclusive, storeVars
<1>6. \A v \in Workers : JobIsValid(v)'
  BY <1>2, <1>4, JobsKept
<1>7. OwnershipIsExclusive'
  BY <1>2, <1>4, <1>5, OwnershipKept
<1>8. ApprovalsAreBound'
  BY <1>2, <1>4, ApprovalsKept DEF storeVars
<1>9. EffectsFollowClaims'
  BY <1>2, <1>4, EffectsKept DEF storeVars
<1>10. QED
  BY <1>2, <1>3, <1>6, <1>7, <1>8, <1>9 DEF IInv, StoreInv

LEMMA IdleIsValid ==
  ASSUME NEW w \in Workers, worker'[w] = Idle
  PROVE  JobIsValid(w)'
BY DEF JobIsValid, Idle, HoldingPCs

LEMMA QuietReturn ==
  ASSUME IInv, NEW w \in Workers, Return(w),
         UNCHANGED <<storeVars, clock, effects>>
  PROVE  IInv'
<1>1. Become(w, Idle) /\ worker'[w] = Idle
  BY IdleTyped, BecomeTyped DEF Return, IInv
<1>2. Idle.pc \notin IntakePCs \cup HoldingPCs \cup {"claimed", "calling", "finalizing"}
  BY DEF Idle, IntakePCs, HoldingPCs
<1>3. JobIsValid(w)'
  BY <1>1, IdleIsValid
<1>4. QED
  BY <1>1, <1>2, <1>3, IdleTyped, QuietStep

LEMMA QuietActions ==
  ASSUME IInv, NEW w \in Workers,
         \/ DecisionConflicts(w) \/ ClaimConflicts(w)
         \/ HandlerRaises(w) \/ Crash(w)
  PROVE  IInv'
BY QuietReturn DEF DecisionConflicts, ClaimConflicts, HandlerRaises, Crash

LEMMA RequestDecisionStep ==
  ASSUME IInv, NEW w \in Workers, NEW k \in Runs, NEW r \in Revisions,
         NEW decision \in Decisions, NEW digest \in Digests, NEW o \in Options,
         RequestDecision(w, k, r, decision, digest, o)
  PROVE  IInv'
<1> DEFINE s == [Idle EXCEPT !.pc = "deciding", !.run = k, !.revision = r,
                   !.decision = decision, !.digest = digest,
                   !.option = IF decision = "revise" THEN o ELSE None,
                   !.now = clock]
<1>1. /\ s \in WorkerStates
      /\ s.pc = "deciding" /\ s.run = k /\ s.revision = r
      /\ s.decision = decision /\ s.digest = digest
      /\ decision = "revise" => s.option = o
  BY DEF Idle, WorkerStates, PCs, IInv, TypeOK
<1>2. Become(w, s) /\ UNCHANGED <<storeVars, clock, effects>>
  BY DEF RequestDecision
<1> HIDE DEF s
<1>3. worker'[w] = s
  BY <1>1, <1>2, BecomeTyped DEF IInv
<1>4. JobIsValid(w)'
  BY <1>1, <1>2, <1>3 DEF JobIsValid, RequestDecision, HoldingPCs, storeVars, Revisions
<1>5. QED
  BY <1>1, <1>2, <1>4, QuietStep DEF IntakePCs, HoldingPCs

LEMMA RequestExecutionStep ==
  ASSUME IInv, NEW w \in Workers, NEW k \in Runs, NEW r \in Revisions,
         RequestExecution(w, k, r)
  PROVE  IInv'
<1> DEFINE digest == action_hash(r, proposal[k][r].option)
           s == [Idle EXCEPT !.pc = "claiming", !.run = k, !.revision = r,
                             !.digest = digest, !.now = clock]
<1>1. digest \in Digests
  BY DEF IInv, RowsAreComplete, RequestExecution, action_hash, Digests
<1>2. /\ s \in WorkerStates
      /\ s.pc = "claiming" /\ s.run = k /\ s.revision = r /\ s.digest = digest
  BY <1>1 DEF Idle, WorkerStates, PCs, IInv, TypeOK
<1>3. Become(w, s) /\ UNCHANGED <<storeVars, clock, effects>>
  BY DEF RequestExecution
<1> HIDE DEF s
<1>4. worker'[w] = s
  BY <1>2, <1>3, BecomeTyped DEF IInv
<1>5. JobIsValid(w)'
  BY <1>2, <1>3, <1>4 DEF JobIsValid, RequestExecution, HoldingPCs, storeVars
<1>6. QED
  BY <1>2, <1>3, <1>5, QuietStep DEF IntakePCs, HoldingPCs

LEMMA RequestExpiryStep ==
  ASSUME IInv, NEW w \in Workers, RequestExpiry(w)
  PROVE  IInv'
<1> DEFINE s == [Idle EXCEPT !.pc = "expiring", !.now = clock]
<1>1. s \in WorkerStates /\ s.pc = "expiring"
  <2>1. "expiring" \in PCs /\ clock \in Nat
    BY DEF PCs, IInv, TypeOK
  <2>2. QED
    BY <2>1, IdleTyped DEF WorkerStates
<1>2. Become(w, s) /\ UNCHANGED <<storeVars, clock, effects>>
  BY DEF RequestExpiry
<1> HIDE DEF s
<1>3. worker'[w] = s
  BY <1>1, <1>2, BecomeTyped DEF IInv
<1>4. JobIsValid(w)'
  BY <1>1, <1>3 DEF JobIsValid, HoldingPCs
<1>5. QED
  BY <1>1, <1>2, <1>4, QuietStep DEF IntakePCs, HoldingPCs

LEMMA BuildProposalStep ==
  ASSUME IInv, NEW w \in Workers, NEW o \in Options, BuildProposal(w, o)
  PROVE  IInv'
<1> DEFINE s == [worker[w] EXCEPT !.pc = "proposing", !.option = o, !.now = clock]
<1>1. /\ s \in WorkerStates
      /\ s.pc = "proposing" /\ s.run = worker[w].run /\ s.option = o
  BY DEF WorkerStates, PCs, IntakePCs, IInv, TypeOK
<1>2. Become(w, s) /\ UNCHANGED <<storeVars, clock, effects>>
  BY DEF BuildProposal
<1> HIDE DEF s
<1>3. worker'[w] = s
  BY <1>1, <1>2, BecomeTyped DEF IInv
<1>4. worker[w].run \in Runs /\ Owns(w, worker[w].run)
  BY DEF BuildProposal, Owns, IntakePCs, IInv, JobIsValid
<1>5. runState[worker[w].run] \in ExpectedState(worker[w].pc)
  BY <1>4 DEF IInv, OwnershipIsExclusive
<1>6. runState[s.run] \in ExpectedState(s.pc)
  BY <1>1, <1>5 DEF BuildProposal, ExpectedState
<1>7. JobIsValid(w)'
  BY <1>1, <1>3, <1>4 DEF JobIsValid, HoldingPCs
<1>8. QED
  BY <1>1, <1>2, <1>4, <1>6, <1>7, QuietStep DEF HoldingPCs

LEMMA IntakeRaisesStep ==
  ASSUME IInv, NEW w \in Workers, IntakeRaises(w)
  PROVE  IInv'
<1> DEFINE s == [worker[w] EXCEPT !.pc = "failing"]
<1>1. s \in WorkerStates /\ s.pc = "failing" /\ s.run = worker[w].run
  BY GotoTyped DEF IInv, PCs, IntakePCs
<1>2. Become(w, s) /\ UNCHANGED <<storeVars, clock, effects>>
  BY DEF IntakeRaises, Goto
<1> HIDE DEF s
<1>3. worker'[w] = s
  BY <1>1, <1>2, BecomeTyped DEF IInv
<1>4. worker[w].run \in Runs /\ Owns(w, worker[w].run)
  BY DEF IntakeRaises, Owns, IntakePCs, IInv, JobIsValid
<1>5. runState[worker[w].run] \in ExpectedState(worker[w].pc)
  BY <1>4 DEF IInv, OwnershipIsExclusive
<1>6. runState[s.run] \in ExpectedState(s.pc)
  BY <1>1, <1>5 DEF IntakeRaises, IntakePCs, ExpectedState
<1>7. JobIsValid(w)'
  BY <1>1, <1>3, <1>4 DEF JobIsValid, HoldingPCs
<1>8. QED
  BY <1>1, <1>2, <1>4, <1>6, <1>7, QuietStep DEF HoldingPCs

LEMMA FinalizeRaisesStep ==
  ASSUME IInv, NEW w \in Workers, FinalizeRaises(w)
  PROVE  IInv'
<1> DEFINE s == [worker[w] EXCEPT !.pc = "recovering"]
<1>1. /\ s \in WorkerStates
      /\ s.pc = "recovering" /\ s.run = worker[w].run
      /\ s.revision = worker[w].revision /\ s.digest = worker[w].digest
  BY GotoTyped DEF IInv, PCs, HoldingPCs
<1>2. Become(w, s) /\ UNCHANGED <<storeVars, clock, effects>>
  BY DEF FinalizeRaises, Goto
<1> HIDE DEF s
<1>3. worker'[w] = s
  BY <1>1, <1>2, BecomeTyped DEF IInv
<1>4. worker[w].run \in Runs /\ Owns(w, worker[w].run)
  BY DEF FinalizeRaises, Owns, HoldingPCs, IInv, JobIsValid
<1>5. runState[worker[w].run] \in ExpectedState(worker[w].pc)
  BY <1>4 DEF IInv, OwnershipIsExclusive
<1>6. runState[s.run] \in ExpectedState(s.pc)
  BY <1>1, <1>5 DEF FinalizeRaises, ExpectedState
<1>7. JobIsValid(w)'
  BY <1>1, <1>2, <1>3, <1>4 DEF JobIsValid, FinalizeRaises, HoldingPCs, IInv, storeVars
<1>8. QED
  BY <1>1, <1>2, <1>4, <1>6, <1>7, QuietStep DEF FinalizeRaises, HoldingPCs

LEMMA TickStep ==
  ASSUME IInv, Tick
  PROVE  IInv'
<1>1. TypeOK'
  <2>1. clock' \in Nat
    BY DEF IInv, TypeOK, Tick
  <2>2. StoreTypeOK'
    BY DEF IInv, TypeOK, StoreTypeOK, Tick, storeVars
  <2>3. QED
    BY <2>1, <2>2 DEF IInv, TypeOK, Tick
<1>2. RowsAreComplete' /\ EarlyRunsHaveNoProposal' /\ RunFollowsProposal'
  BY DEF IInv, Tick, storeVars, RowsAreComplete, EarlyRunsHaveNoProposal,
         RunFollowsProposal, NewestOf
<1>3. \A w \in Workers : JobIsValid(w)'
  BY DEF IInv, Tick, storeVars, JobIsValid
<1>4. OwnershipIsExclusive'
  BY DEF IInv, Tick, storeVars, OwnershipIsExclusive, Owns
<1>5. ApprovalsAreBound' /\ EffectsFollowClaims'
  BY DEF IInv, Tick, storeVars, ApprovalsAreBound, ApprovalIsLogged, EffectsFollowClaims
<1>6. QED
  BY <1>1, <1>2, <1>3, <1>4, <1>5 DEF IInv

-------------------------------------------------------------------------------

(***************************************************************************)
(* A step of one thread that writes the store but calls no executor.       *)
(***************************************************************************)
LEMMA StoreStep ==
  ASSUME IInv, NEW w \in Workers, NEW s \in WorkerStates, Become(w, s),
         StoreTypeOK', StoreInv', clock' = clock, effects' = effects,
         KeepsRows, KeepsOwned(w), KeepsClaims, ApprovalsAreBound',
         JobIsValid(w)', OwnsAlone(w, s),
         \A k \in Runs : runState'[k] = "succeeded" =>
           \/ runState[k] = "succeeded"
           \/ effects[k] # <<>> /\ effects[k][1].result = "succeeded",
         s.pc \in {"claimed", "calling"} => effects[s.run] = <<>>,
         s.pc # "finalizing"
  PROVE  IInv'
<1>1. worker' \in [Workers -> WorkerStates]
  BY BecomeTyped DEF IInv
<1>2. TypeOK'
  BY <1>1 DEF IInv, TypeOK
<1>3. \A v \in Workers : JobIsValid(v)'
  BY <1>2, JobsKept
<1>4. OwnershipIsExclusive'
  BY <1>2, OwnershipKept
<1>5. EffectsFollowClaims'
  BY <1>2, EffectsKept
<1>6. QED
  BY <1>2, <1>3, <1>4, <1>5 DEF IInv, StoreInv

(***************************************************************************)
(* Nobody owns a run that is absent or open for a decision or a claim.     *)
(***************************************************************************)
LEMMA NobodyOwns ==
  ASSUME IInv, NEW k \in Runs, runState[k] \in {"absent", "proposed", "approved"}
  PROVE  \A v \in Workers : ~Owns(v, k)
BY DEF IInv, OwnershipIsExclusive, Owns, ExpectedState

(***************************************************************************)
(* A step that moves a run within intake, or out of it as failed.          *)
(***************************************************************************)
LEMMA EarlyStep ==
  ASSUME IInv, NEW w \in Workers, NEW s \in WorkerStates, Become(w, s),
         StoreTypeOK', clock' = clock, effects' = effects, KeepsLog,
         NEW k \in Runs, proposal' = proposal,
         runState[k] \in {"absent", "received", "investigating", "assessed"},
         NEW t \in {"received", "investigating", "assessed", "failed"},
         runState' = [runState EXCEPT ![k] = t],
         \A v \in Workers \ {w} : ~Owns(v, k),
         JobIsValid(w)', s.pc \notin HoldingPCs,
         s.pc \in IntakePCs => s.run = k /\ t \in ExpectedState(s.pc)
  PROVE  IInv'
<1>1. /\ runState'[k] = t
      /\ \A j \in Runs \ {k} : runState'[j] = runState[j]
  BY DEF IInv, TypeOK, StoreTypeOK
<1>2. StoreInv'
  <2>1. TypeOK /\ StoreInv
    BY DEF IInv, StoreInv
  <2>2. QED
    BY <2>1, EarlyMoveKeepsStore
<1>3. KeepsRows /\ KeepsClaims
  BY DEF KeepsRows, KeepsClaims
<1>4. KeepsOwned(w)
  BY <1>1 DEF KeepsOwned
<1>5. OwnsAlone(w, s)
  BY <1>1 DEF OwnsAlone
<1>6. TypeOK'
  BY BecomeTyped DEF IInv, TypeOK
<1>7. ApprovalsAreBound'
  BY <1>6, ApprovalsKept
<1>8. QED
  BY <1>1, <1>2, <1>3, <1>4, <1>5, <1>7, StoreStep DEF HoldingPCs

(***************************************************************************)
(* A step that only writes the audit trail of the run the thread owns.     *)
(***************************************************************************)
LEMMA AuditStep ==
  ASSUME IInv, NEW w \in Workers, NEW pc \in PCs, NEW e \in AuditEvents,
         Goto(w, pc), create_audit(worker[w].run, e),
         UNCHANGED <<clock, effects>>,
         worker[w].pc \in IntakePCs \cup HoldingPCs,
         ExpectedState(pc) = ExpectedState(worker[w].pc),
         pc \in {"collected", "analyzed", "calling"},
         pc \in HoldingPCs => worker[w].pc = "claimed"
  PROVE  IInv'
<1> DEFINE s == [worker[w] EXCEPT !.pc = pc]
           k == worker[w].run
<1>1. /\ s \in WorkerStates
      /\ s.pc = pc /\ s.run = k
      /\ s.revision = worker[w].revision /\ s.digest = worker[w].digest
  BY GotoTyped DEF IInv
<1>2. Become(w, s)
  BY DEF Goto
<1> HIDE DEF s
<1>3. worker'[w] = s
  BY <1>1, <1>2, BecomeTyped DEF IInv
<1>4. k \in Runs /\ Owns(w, k)
  BY DEF Owns, IntakePCs, HoldingPCs, IInv, JobIsValid
<1>5. UNCHANGED <<runState, payload, proposal>> /\ Log(k, <<Noted(e)>>)
  BY DEF create_audit
<1>6. StoreTypeOK'
  BY <1>4, CreateAuditTyped DEF IInv, TypeOK
<1>7. KeepsLog
  <2>1. <<Noted(e)>> \in Seq(AuditEntries)
    BY EntriesAreTyped
  <2>2. QED
    BY <1>4, <1>5, <2>1, LogKeeps DEF IInv, TypeOK
<1>8. StoreInv'
  BY <1>5 DEF IInv, StoreInv, RowsAreComplete, EarlyRunsHaveNoProposal,
              RunFollowsProposal, NewestOf
<1>9. KeepsRows /\ KeepsOwned(w) /\ KeepsClaims
  BY <1>5 DEF KeepsRows, KeepsOwned, KeepsClaims
<1>10. TypeOK'
  BY <1>1, <1>2, <1>6, BecomeTyped DEF IInv, TypeOK
<1>11. ApprovalsAreBound'
  BY <1>5, <1>7, <1>10, ApprovalsKept
<1>12. JobIsValid(w)'
  BY <1>1, <1>3, <1>4, <1>5 DEF JobIsValid, IInv, HoldingPCs
<1>13. OwnsAlone(w, s)
  BY <1>1, <1>4, <1>5 DEF OwnsAlone, IInv, OwnershipIsExclusive, Owns, HoldingPCs
<1>14. s.pc \in {"claimed", "calling"} => effects[s.run] = <<>>
  BY <1>1, <1>4 DEF IInv, EffectsFollowClaims, HoldingPCs
<1>15. QED
  BY <1>1, <1>2, <1>5, <1>6, <1>8, <1>9, <1>11, <1>12, <1>13, <1>14, StoreStep

(***************************************************************************)
(* A step that moves a run and its newest proposal together.               *)
(***************************************************************************)
LEMMA MoveStep ==
  ASSUME IInv, NEW w \in Workers, NEW s \in WorkerStates, Become(w, s),
         StoreTypeOK', clock' = clock, effects' = effects,
         NEW k \in Runs, NEW r \in Revisions, NEW t \in LateStates,
         MovesTogether(k, r, t), ApprovalsAreBound',
         \A v \in Workers \ {w} : ~Owns(v, k),
         runState[k] = "executing" => t \in {"succeeded", "failed"},
         t = "succeeded" => effects[k] # <<>> /\ effects[k][1].result = "succeeded",
         JobIsValid(w)', s.pc \notin IntakePCs, s.pc # "finalizing",
         s.pc \in HoldingPCs => s.run = k /\ s.revision = r /\ t = "executing",
         s.pc \in HoldingPCs => effects[k] = <<>>
  PROVE  IInv'
<1>1. /\ proposal'[k][r].status = t
      /\ proposal'[k][r].option = proposal[k][r].option
      /\ \A q \in Revisions \ {r} : proposal'[k][q] = proposal[k][q]
      /\ \A j \in Runs \ {k} : proposal'[j] = proposal[j]
      /\ runState'[k] = t
      /\ \A j \in Runs \ {k} : runState'[j] = runState[j]
  BY MovedRows DEF IInv
<1>2. proposal[k][r].status = runState[k]
  BY DEF MovesTogether
<1>3. StoreInv'
  <2>1. TypeOK /\ StoreInv
    BY DEF IInv, StoreInv
  <2>2. QED
    BY <2>1, MoveKeepsStore
<1>4. KeepsRows /\ KeepsClaims
  BY <1>1, <1>2 DEF KeepsRows, KeepsClaims, LateStates, MovesTogether
<1>5. KeepsOwned(w)
  BY <1>1 DEF KeepsOwned
<1>6. OwnsAlone(w, s)
  BY <1>1 DEF OwnsAlone, ExpectedState, HoldingPCs
<1>7. \A j \in Runs : runState'[j] = "succeeded" =>
           \/ runState[j] = "succeeded"
           \/ effects[j] # <<>> /\ effects[j][1].result = "succeeded"
  BY <1>1
<1>8. s.pc \in {"claimed", "calling"} => effects[s.run] = <<>>
  BY DEF HoldingPCs
<1>9. QED
  BY <1>3, <1>4, <1>5, <1>6, <1>7, <1>8, StoreStep

-------------------------------------------------------------------------------
(* Intake, action by action.                                               *)

LEMMA StartEventStep ==
  ASSUME IInv, NEW w \in Workers, NEW k \in Runs, NEW p \in Payloads,
         StartEvent(w, k, p)
  PROVE  IInv'
<1> DEFINE s == [Idle EXCEPT !.pc = "received", !.run = k]
<1>1. s \in WorkerStates /\ s.pc = "received" /\ s.run = k
  <2>1. "received" \in PCs
    BY DEF PCs, IntakePCs
  <2>2. QED
    BY <2>1, IdleTyped DEF WorkerStates
<1>2. Become(w, s) /\ create_run(k, p) /\ UNCHANGED <<clock, effects>>
  BY DEF StartEvent
<1> HIDE DEF s
<1>3. worker'[w] = s
  BY <1>1, <1>2, BecomeTyped DEF IInv
<1>4. StoreTypeOK'
  BY <1>2, CreateRunTyped DEF IInv, TypeOK
<1>5. KeepsLog
  <2>1. <<Noted("event_received")>> \in Seq(AuditEntries)
    BY EntriesAreTyped DEF AuditEvents
  <2>2. QED
    BY <1>2, <2>1, LogKeeps DEF IInv, TypeOK, create_run
<1>6. /\ runState[k] = "absent" /\ proposal' = proposal
      /\ runState' = [runState EXCEPT ![k] = "received"]
  BY <1>2 DEF create_run
<1>7. JobIsValid(w)'
  BY <1>1, <1>3 DEF JobIsValid, HoldingPCs
<1>8. \A v \in Workers : ~Owns(v, k)
  BY <1>6, NobodyOwns
<1>9. "received" \in ExpectedState(s.pc)
  BY <1>1 DEF ExpectedState
<1>10. QED
  BY <1>1, <1>2, <1>4, <1>5, <1>6, <1>7, <1>8, <1>9, EarlyStep DEF HoldingPCs

(***************************************************************************)
(* A thread in intake owns its run, alone, in the state it expects.        *)
(***************************************************************************)
LEMMA Owner ==
  ASSUME IInv, NEW w \in Workers, worker[w].pc \in IntakePCs \cup HoldingPCs
  PROVE  /\ worker[w].run \in Runs
         /\ Owns(w, worker[w].run)
         /\ runState[worker[w].run] \in ExpectedState(worker[w].pc)
         /\ \A v \in Workers \ {w} : ~Owns(v, worker[w].run)
<1>1. worker[w].run \in Runs /\ Owns(w, worker[w].run)
  BY DEF Owns, IntakePCs, HoldingPCs, IInv, JobIsValid
<1>2. QED
  BY <1>1 DEF IInv, OwnershipIsExclusive

LEMMA IntakeMoveStep ==
  ASSUME IInv, NEW w \in Workers, NEW pc \in {"investigating", "assessed"},
         NEW t \in {"investigating", "assessed"}, pc = t,
         NEW e \in {"received", "investigating"},
         worker[w].pc \in {"received", "analyzed"},
         transition_run(worker[w].run, e, t), Goto(w, pc),
         UNCHANGED <<clock, effects>>
  PROVE  IInv'
<1> DEFINE s == [worker[w] EXCEPT !.pc = pc]
           k == worker[w].run
<1>1. s \in WorkerStates /\ s.pc = pc /\ s.run = k
  BY GotoTyped DEF IInv, PCs, IntakePCs
<1>2. Become(w, s)
  BY DEF Goto
<1> HIDE DEF s
<1>3. worker'[w] = s
  BY <1>1, <1>2, BecomeTyped DEF IInv
<1>4. k \in Runs /\ \A v \in Workers \ {w} : ~Owns(v, k)
  BY Owner DEF IntakePCs
<1>5. StoreTypeOK'
  BY <1>4, TransitionRunTyped DEF IInv, TypeOK, RunStates
<1>6. KeepsLog
  <2>1. <<Moved(e, t)>> \in Seq(AuditEntries)
    BY EntriesAreTyped DEF RunStates
  <2>2. QED
    BY <1>4, <2>1, LogKeeps DEF IInv, TypeOK, transition_run
<1>7. /\ runState[k] = e /\ proposal' = proposal
      /\ runState' = [runState EXCEPT ![k] = t]
  BY DEF transition_run
<1>8. JobIsValid(w)'
  BY <1>1, <1>3, <1>4 DEF JobIsValid, HoldingPCs
<1>9. t \in ExpectedState(s.pc)
  BY <1>1 DEF ExpectedState
<1>10. QED
  BY <1>1, <1>2, <1>4, <1>5, <1>6, <1>7, <1>8, <1>9, EarlyStep DEF HoldingPCs

LEMMA AcceptEventStep ==
  ASSUME IInv, NEW w \in Workers, AcceptEvent(w) \/ AssessRun(w)
  PROVE  IInv'
BY IntakeMoveStep DEF AcceptEvent, AssessRun

LEMMA AuditActionsStep ==
  ASSUME IInv, NEW w \in Workers,
         CollectTelemetry(w) \/ Analyze(w) \/ AuditToolCall(w)
  PROVE  IInv'
<1>1. CASE CollectTelemetry(w)
  BY <1>1, AuditStep
  DEF CollectTelemetry, PCs, IntakePCs, HoldingPCs, AuditEvents, ExpectedState
<1>2. CASE Analyze(w)
  BY <1>2, AuditStep
  DEF Analyze, PCs, IntakePCs, HoldingPCs, AuditEvents, ExpectedState
<1>3. CASE AuditToolCall(w)
  BY <1>3, AuditStep
  DEF AuditToolCall, PCs, IntakePCs, HoldingPCs, AuditEvents, ExpectedState
<1>4. QED
  BY <1>1, <1>2, <1>3

LEMMA FailRunStep ==
  ASSUME IInv, NEW w \in Workers, FailRun(w)
  PROVE  IInv'
<1> DEFINE k == worker[w].run
<1>1. /\ k \in Runs /\ \A v \in Workers \ {w} : ~Owns(v, k)
      /\ runState[k] \in {"received", "investigating", "assessed"}
  BY Owner DEF FailRun, IntakePCs, ExpectedState
<1>2. Become(w, Idle) /\ worker'[w] = Idle
  BY IdleTyped, BecomeTyped DEF FailRun, Return, IInv
<1>3. /\ proposal' = proposal
      /\ runState' = [runState EXCEPT ![k] = "failed"]
      /\ Log(k, <<Moved(runState[k], "failed"), Noted("run_failed")>>)
      /\ UNCHANGED <<clock, effects>>
  BY <1>1 DEF FailRun, fail_run, Terminal
<1>4. StoreTypeOK'
  BY <1>1, FailRunTyped DEF FailRun, IInv, TypeOK
<1>5. KeepsLog
  <2>1. <<Moved(runState[k], "failed"), Noted("run_failed")>> \in Seq(AuditEntries)
    BY <1>1, EntriesAreTyped DEF RunStates, AuditEvents
  <2>2. QED
    BY <1>1, <1>3, <2>1, LogKeeps DEF IInv, TypeOK
<1>6. JobIsValid(w)'
  BY <1>2, IdleIsValid
<1>7. Idle.pc \notin IntakePCs \cup HoldingPCs
  BY DEF Idle, IntakePCs, HoldingPCs
<1>8. QED
  BY <1>1, <1>2, <1>3, <1>4, <1>5, <1>6, <1>7, IdleTyped, EarlyStep

-------------------------------------------------------------------------------
(* New proposals.                                                          *)

LEMMA NewRowTyped ==
  ASSUME NEW o \in Options, NEW t \in Nat
  PROVE  /\ NewRow(o, t) \in ProposalRows
         /\ NewRow(o, t).status = "proposed"
         /\ NewRow(o, t).option = o
BY DEF NewRow, ProposalRows, ProposalStates

(***************************************************************************)
(* A new newest proposal, every older one superseded, keeps the tables'    *)
(* shape.                                                                  *)
(***************************************************************************)
LEMMA NewProposalKeepsStore ==
  ASSUME StoreInv, NEW k \in Runs, NEW n \in Revisions,
         proposal'[k][n].status = "proposed", proposal'[k][n].option \in Options,
         runState'[k] = "proposed",
         \A q \in Revisions : q < n =>
           /\ proposal'[k][q].status = "superseded"
           /\ proposal'[k][q].option \in Options,
         \A q \in Revisions : q > n => proposal'[k][q].status = "absent",
         \A j \in Runs \ {k} :
           runState'[j] = runState[j] /\ proposal'[j] = proposal[j]
  PROVE  StoreInv'
<1>1. \A q \in Revisions : q = n \/ q < n \/ q > n
  BY DEF Revisions
<1>2. RowsAreComplete'
  BY <1>1 DEF StoreInv, RowsAreComplete
<1>3. EarlyRunsHaveNoProposal'
  BY DEF StoreInv, EarlyRunsHaveNoProposal
<1>4. NewestOf(k, n)'
  BY DEF NewestOf
<1>5. \A j \in Runs \ {k}, r \in Revisions : NewestOf(j, r) => NewestOf(j, r)'
  BY DEF NewestOf
<1>6. RunFollowsProposal'
  BY <1>1, <1>4, <1>5 DEF StoreInv, RunFollowsProposal
<1>7. QED
  BY <1>2, <1>3, <1>6 DEF StoreInv

LEMMA CreateProposalStep ==
  ASSUME IInv, NEW w \in Workers, CreateProposal(w)
  PROVE  IInv'
<1> DEFINE k == worker[w].run
           row == NewRow(worker[w].option, worker[w].now + TTL)
<1>1. /\ k \in Runs /\ \A v \in Workers \ {w} : ~Owns(v, k)
  BY Owner DEF CreateProposal, IntakePCs
<1>2. Become(w, Idle) /\ worker'[w] = Idle
  BY IdleTyped, BecomeTyped DEF CreateProposal, Return, IInv
<1>3. worker[w].option \in Options /\ worker[w].now + TTL \in Nat
  BY ServiceAssumption DEF CreateProposal, IInv, JobIsValid, TypeOK, WorkerStates
<1>4. row \in ProposalRows /\ row.status = "proposed" /\ row.option \in Options
  BY <1>3, NewRowTyped
<1>5. create_proposal_and_transition(k, row) /\ UNCHANGED <<clock, effects>>
  BY DEF CreateProposal
<1> HIDE DEF row
<1>6. StoreTypeOK'
  BY <1>1, <1>4, <1>5, CreateProposalTyped DEF IInv, TypeOK
<1>7. 1 \in Revisions
  BY StoreAssumption DEF Revisions
<1>8. /\ runState[k] = "assessed"
      /\ \A r \in Revisions : proposal[k][r].status = "absent"
  BY <1>1, <1>5 DEF create_proposal_and_transition, IInv, EarlyRunsHaveNoProposal
<1>9. /\ runState'[k] = "proposed"
      /\ \A j \in Runs \ {k} : runState'[j] = runState[j]
      /\ \A j \in Runs \ {k} : proposal'[j] = proposal[j]
      /\ proposal'[k][1] = row
      /\ \A r \in Revisions \ {1} : proposal'[k][r] = proposal[k][r]
  BY <1>1, <1>5, <1>7 DEF create_proposal_and_transition, IInv, TypeOK, StoreTypeOK
<1>10. StoreInv'
  BY <1>1, <1>4, <1>7, <1>8, <1>9, NewProposalKeepsStore DEF IInv, StoreInv, Revisions
<1>11. KeepsRows /\ KeepsClaims
  BY <1>8, <1>9 DEF KeepsRows, KeepsClaims
<1>12. KeepsOwned(w)
  BY <1>1, <1>9 DEF KeepsOwned
<1>13. KeepsLog
  <2>1. <<Moved("assessed", "proposed"), Noted("proposal_created")>>
          \in Seq(AuditEntries)
    BY EntriesAreTyped DEF RunStates, AuditEvents
  <2>2. QED
    BY <1>1, <1>5, <2>1, LogKeeps DEF create_proposal_and_transition, IInv, TypeOK
<1>14. ApprovalsAreBound'
  <2>1. TypeOK'
    BY <1>2, <1>5, <1>6, IdleTyped, BecomeTyped DEF IInv, TypeOK
  <2>2. QED
    BY <1>4, <1>9, <1>13, <2>1, ApprovalsKept DEF ApprovedStates
<1>15. JobIsValid(w)'
  BY <1>2, IdleIsValid
<1>16. OwnsAlone(w, Idle) /\ Idle.pc \notin {"claimed", "calling", "finalizing"}
  BY DEF OwnsAlone, Idle, IntakePCs, HoldingPCs
<1>17. QED
  BY <1>2, <1>5, <1>6, <1>9, <1>10, <1>11, <1>12, <1>14, <1>15, <1>16,
     IdleTyped, StoreStep

(***************************************************************************)
(* What a thread that decides or claims works with.                        *)
(***************************************************************************)
LEMMA Open ==
  ASSUME IInv, NEW w \in Workers, worker[w].pc \in {"deciding", "claiming"}
  PROVE  /\ worker[w].run \in Runs
         /\ worker[w].revision \in Revisions
         /\ runState[worker[w].run] \in {"proposed", "approved"} =>
              \A v \in Workers : ~Owns(v, worker[w].run)
<1>1. worker[w].run \in Runs
  BY DEF IInv, JobIsValid
<1>2. QED
  BY <1>1, NobodyOwns DEF IInv, TypeOK, WorkerStates

LEMMA DecisionRevisesStep ==
  ASSUME IInv, NEW w \in Workers, DecisionRevises(w)
  PROVE  IInv'
<1> DEFINE k == worker[w].run
           r == worker[w].revision
           row == NewRow(worker[w].option, worker[w].now + TTL)
<1>1. /\ k \in Runs /\ r \in Revisions
      /\ proposal[k][r].status = "proposed" /\ runState[k] = "proposed"
      /\ \A v \in Workers : ~Owns(v, k)
  BY Open DEF DecisionRevises, Decidable, AwaitsDecision
<1>2. Become(w, Idle) /\ worker'[w] = Idle
  BY IdleTyped, BecomeTyped DEF DecisionRevises, Return, IInv
<1>3. /\ worker[w].option \in Options /\ worker[w].now + TTL \in Nat
      /\ r < MaxRevision
  BY ServiceAssumption DEF DecisionRevises, IInv, JobIsValid, TypeOK, WorkerStates
<1>4. row \in ProposalRows /\ row.status = "proposed" /\ row.option \in Options
  BY <1>3, NewRowTyped
<1>5. revise_proposal(k, r, row) /\ UNCHANGED <<clock, effects>>
  BY DEF DecisionRevises
<1> HIDE DEF row
<1>6. StoreTypeOK'
  BY <1>1, <1>3, <1>4, <1>5, ReviseProposalTyped DEF IInv, TypeOK
<1>7. r + 1 \in Revisions /\ r \in Nat /\ proposal[k][r + 1].status = "absent"
  BY <1>1, <1>3, <1>5, StoreAssumption DEF Revisions, revise_proposal
<1>8. /\ runState' = runState
      /\ \A j \in Runs \ {k} : proposal'[j] = proposal[j]
      /\ proposal'[k][r + 1] = row
      /\ proposal'[k][r] = WithStatus(proposal[k][r], "superseded")
      /\ \A q \in Revisions \ {r, r + 1} : proposal'[k][q] = proposal[k][q]
  <2> DEFINE marked == [proposal EXCEPT ![k][r] = WithStatus(@, "superseded")]
  <2>1. proposal' = [marked EXCEPT ![k][r + 1] = row] /\ runState' = runState
    BY <1>5 DEF revise_proposal
  <2>2. /\ marked \in [Runs -> [Revisions -> ProposalRows]]
        /\ \A j \in Runs \ {k} : marked[j] = proposal[j]
        /\ marked[k][r] = WithStatus(proposal[k][r], "superseded")
        /\ \A q \in Revisions \ {r} : marked[k][q] = proposal[k][q]
    BY <1>1, WithStatusTyped DEF IInv, TypeOK, StoreTypeOK, ProposalStates
  <2> HIDE DEF marked
  <2>3. QED
    BY <1>1, <1>7, <2>1, <2>2
<1>9. /\ proposal'[k][r].status = "superseded"
      /\ proposal'[k][r].option = proposal[k][r].option
  BY <1>1, <1>8, WithStatusTyped DEF IInv, TypeOK, StoreTypeOK, ProposalStates
<1>10. StoreInv'
  <2>1. NewestOf(k, r)
    BY <1>1 DEF IInv, RunFollowsProposal
  <2>2. ASSUME NEW q \in Revisions, q < r + 1
        PROVE  /\ proposal'[k][q].status = "superseded"
               /\ proposal'[k][q].option \in Options
    <3>1. q = r \/ (q < r /\ q \notin {r, r + 1})
      BY <1>7, <2>2 DEF Revisions
    <3>2. proposal[k][q].status # "absent" /\ proposal[k][q].option \in Options
      BY <1>1, <2>1, <3>1 DEF NewestOf, IInv, RowsAreComplete
    <3>3. QED
      BY <1>8, <1>9, <2>1, <3>1, <3>2 DEF NewestOf
  <2>3. ASSUME NEW q \in Revisions, q > r + 1
        PROVE  proposal'[k][q].status = "absent"
    <3>1. q > r /\ q \notin {r, r + 1}
      BY <1>7, <2>3 DEF Revisions
    <3>2. QED
      BY <1>8, <2>1, <3>1 DEF NewestOf
  <2>4. /\ proposal'[k][r + 1].status = "proposed"
        /\ proposal'[k][r + 1].option \in Options
        /\ runState'[k] = "proposed"
        /\ \A j \in Runs \ {k} :
             runState'[j] = runState[j] /\ proposal'[j] = proposal[j]
    BY <1>1, <1>4, <1>8
  <2>5. StoreInv
    BY DEF IInv, StoreInv
  <2>6. QED
    BY <1>1, <1>7, <2>2, <2>3, <2>4, <2>5, NewProposalKeepsStore
<1>11. KeepsRows /\ KeepsClaims
  BY <1>1, <1>7, <1>8, <1>9 DEF KeepsRows, KeepsClaims
<1>12. KeepsOwned(w)
  BY <1>1, <1>8 DEF KeepsOwned
<1>13. KeepsLog
  <2>1. <<Noted("proposal_revised")>> \in Seq(AuditEntries)
    BY EntriesAreTyped DEF AuditEvents
  <2>2. QED
    BY <1>1, <1>5, <2>1, LogKeeps DEF revise_proposal, IInv, TypeOK
<1>14. ApprovalsAreBound'
  <2>1. TypeOK'
    BY <1>2, <1>5, <1>6, IdleTyped, BecomeTyped DEF IInv, TypeOK
  <2>2. QED
    BY <1>4, <1>8, <1>9, <1>13, <2>1, ApprovalsKept DEF ApprovedStates
<1>15. JobIsValid(w)'
  BY <1>2, IdleIsValid
<1>16. OwnsAlone(w, Idle) /\ Idle.pc \notin {"claimed", "calling", "finalizing"}
  BY DEF OwnsAlone, Idle, IntakePCs, HoldingPCs
<1>17. QED
  BY <1>2, <1>5, <1>6, <1>8, <1>10, <1>11, <1>12, <1>14, <1>15, <1>16,
     IdleTyped, StoreStep

-------------------------------------------------------------------------------
(* Decisions, claims and outcomes.                                         *)

LEMMA ExpireLockedStep ==
  ASSUME IInv, NEW w \in Workers, NEW k \in Runs, NEW r \in Revisions,
         runState[k] \in {"proposed", "approved"},
         proposal[k][r].status = runState[k],
         expire_locked(k, r), Return(w), UNCHANGED <<clock, effects>>
  PROVE  IInv'
<1>1. Become(w, Idle) /\ worker'[w] = Idle
  BY IdleTyped, BecomeTyped DEF Return, IInv
<1>2. StoreTypeOK'
  BY ExpireLockedTyped DEF IInv, TypeOK
<1>3. /\ WithStatus(proposal[k][r], "expired") \in ProposalRows
      /\ WithStatus(proposal[k][r], "expired").status = "expired"
      /\ WithStatus(proposal[k][r], "expired").option = proposal[k][r].option
  BY WithStatusTyped DEF IInv, TypeOK, StoreTypeOK, ProposalStates
<1>4. MovesTogether(k, r, "expired") /\ "expired" \in LateStates
  BY <1>3 DEF expire_locked, MovesTogether, LateStates
<1>5. KeepsLog
  <2>1. <<Moved(runState[k], "expired"), Noted("proposal_expired")>>
          \in Seq(AuditEntries)
    BY EntriesAreTyped DEF RunStates, AuditEvents
  <2>2. QED
    BY <2>1, LogKeeps DEF expire_locked, IInv, TypeOK
<1>6. ApprovalsAreBound'
  <2>1. TypeOK'
    BY <1>1, <1>2, IdleTyped, BecomeTyped DEF IInv, TypeOK
  <2>2. /\ proposal'[k][r].status = "expired"
        /\ \A q \in Revisions \ {r} : proposal'[k][q] = proposal[k][q]
        /\ \A j \in Runs \ {k} : proposal'[j] = proposal[j]
    BY <1>4, MovedRows DEF IInv
  <2>3. QED
    BY <1>5, <2>1, <2>2, ApprovalsKept DEF ApprovedStates
<1>7. JobIsValid(w)'
  BY <1>1, IdleIsValid
<1>8. Idle.pc \notin IntakePCs \cup HoldingPCs /\ Idle.pc # "finalizing"
  BY DEF Idle, IntakePCs, HoldingPCs
<1>9. \A v \in Workers : ~Owns(v, k)
  BY NobodyOwns
<1>10. QED
  BY <1>1, <1>2, <1>4, <1>6, <1>7, <1>8, <1>9, IdleTyped, MoveStep

LEMMA ExpiringActionsStep ==
  ASSUME IInv, NEW w \in Workers, DecisionExpires(w) \/ ClaimExpires(w)
  PROVE  IInv'
<1>1. CASE DecisionExpires(w)
  BY <1>1, Open, ExpireLockedStep DEF DecisionExpires, Decidable, AwaitsDecision
<1>2. CASE ClaimExpires(w)
  BY <1>2, Open, ExpireLockedStep DEF ClaimExpires, Claimable
<1>3. QED
  BY <1>1, <1>2

LEMMA LastOfConcat ==
  ASSUME NEW S, NEW s \in Seq(S), NEW t \in Seq(S), Len(t) = 2
  PROVE  \E i \in DOMAIN (s \o t) : (s \o t)[i] = t[2]
<1>1. Len(s) \in Nat /\ Len(s \o t) = Len(s) + 2
  <2>1. Len(s) \in Nat
    BY LenProperties
  <2>2. Len(s \o t) = Len(s) + Len(t)
    BY ConcatProperties, Zenon
  <2>3. QED
    BY <2>1, <2>2
<1>2. Len(s) + 2 \in DOMAIN (s \o t)
  <2>1. s \o t \in Seq(S)
    BY ConcatProperties
  <2>2. DOMAIN (s \o t) = 1..Len(s \o t)
    BY <2>1, LenProperties
  <2>3. QED
    BY <1>1, <2>2
<1>3. (s \o t)[Len(s) + 2] = t[2]
  <2>1. Len(s) + 2 \in 1..(Len(s) + Len(t)) /\ ~(Len(s) + 2 <= Len(s))
    BY <1>1
  <2>2. (s \o t)[Len(s) + 2] = t[(Len(s) + 2) - Len(s)]
    BY <2>1, ConcatProperties
  <2>3. (Len(s) + 2) - Len(s) = 2
    BY <1>1
  <2>4. QED
    BY <2>2, <2>3
<1>4. QED
  BY <1>2, <1>3

(***************************************************************************)
(* An approval stores the digest it was given, which is that of the row,   *)
(* and logs it in the same transaction.                                    *)
(***************************************************************************)
LEMMA SettleStep ==
  ASSUME IInv, NEW w \in Workers, NEW k \in Runs, NEW r \in Revisions,
         NEW decision \in {"approve", "reject"}, NEW digest \in Digests,
         AwaitsDecision(k, r), Binds(k, r, digest),
         settle_proposal(k, r, decision, digest),
         Return(w), UNCHANGED <<clock, effects>>
  PROVE  IInv'
<1> DEFINE state == IF decision = "approve" THEN "approved" ELSE "rejected"
           hash  == IF decision = "approve" THEN digest ELSE None
           old   == WithStatus(proposal[k][r], state)
           row   == [old EXCEPT !.approved_hash = hash]
           es    == <<Moved("proposed", state), Decided(decision, digest)>>
<1>1. Become(w, Idle) /\ worker'[w] = Idle
  BY IdleTyped, BecomeTyped DEF Return, IInv
<1>2. StoreTypeOK'
  BY SettleProposalTyped DEF IInv, TypeOK
<1>3. state \in {"approved", "rejected"} /\ hash \in Digests \cup {None}
  OBVIOUS
<1>4. /\ proposal' = [proposal EXCEPT ![k][r] = row]
      /\ runState' = [runState EXCEPT ![k] = state]
      /\ Log(k, es)
  BY DEF settle_proposal
<1>5. es \in Seq(AuditEntries)
  BY EntriesAreTyped DEF RunStates
<1>6. old \in ProposalRows /\ old.status = state /\ old.option = proposal[k][r].option
  BY <1>3, WithStatusTyped DEF IInv, TypeOK, StoreTypeOK, ProposalStates
<1>7. state = "approved" => decision = "approve" /\ hash = digest
  OBVIOUS
<1>8. Len(es) = 2 /\ es[2] = Decided(decision, digest)
  OBVIOUS
<1> HIDE DEF state, hash, old, es
<1>9. /\ row \in ProposalRows /\ row.status = state
      /\ row.option = proposal[k][r].option /\ row.approved_hash = hash
  BY <1>3, <1>6 DEF ProposalRows
<1> HIDE DEF row
<1>10. MovesTogether(k, r, state) /\ state \in LateStates
  BY <1>3, <1>4, <1>9 DEF MovesTogether, LateStates, AwaitsDecision
<1>11. KeepsLog
  BY <1>4, <1>5, LogKeeps DEF IInv, TypeOK
<1>12. ApprovalsAreBound'
  <2>1. /\ proposal'[k][r] = row
        /\ \A q \in Revisions \ {r} : proposal'[k][q] = proposal[k][q]
        /\ \A j \in Runs \ {k} : proposal'[j] = proposal[j]
    BY <1>4 DEF IInv, TypeOK, StoreTypeOK
  <2>2. SUFFICES ASSUME NEW j \in Runs, NEW q \in Revisions,
                        proposal'[j][q].status \in ApprovedStates
                 PROVE  /\ proposal'[j][q].approved_hash
                              = action_hash(q, proposal'[j][q].option)
                        /\ \E i \in DOMAIN audit'[j] :
                             /\ audit'[j][i].event = "approve"
                             /\ audit'[j][i].digest = proposal'[j][q].approved_hash
    BY DEF ApprovalsAreBound, ApprovalIsLogged
  <2>3. CASE j = k /\ q = r
    <3>1. state = "approved"
      BY <1>3, <1>9, <2>1, <2>2, <2>3 DEF ApprovedStates
    <3>2. decision = "approve" /\ hash = digest
      BY <1>7, <3>1
    <3>3. proposal'[k][r].approved_hash = action_hash(r, proposal'[k][r].option)
      BY <1>9, <2>1, <3>2 DEF Binds
    <3>4. audit'[k] = audit[k] \o es /\ audit[k] \in Seq(AuditEntries)
      BY <1>4 DEF Log, IInv, TypeOK, StoreTypeOK
    <3>5. \E i \in DOMAIN audit'[k] : audit'[k][i] = es[2]
      BY <1>5, <1>8, <3>4, LastOfConcat
    <3>6. es[2].event = "approve" /\ es[2].digest = digest
      BY <1>8, <3>2 DEF Decided, Entry
    <3>7. QED
      BY <1>9, <2>1, <2>3, <3>2, <3>3, <3>5, <3>6
  <2>4. CASE j # k \/ q # r
    <3>1. proposal'[j][q] = proposal[j][q]
      BY <2>1, <2>4
    <3>2. /\ proposal[j][q].approved_hash = action_hash(q, proposal[j][q].option)
          /\ ApprovalIsLogged(j, proposal[j][q].approved_hash)
      BY <2>2, <3>1 DEF IInv, ApprovalsAreBound
    <3>3. proposal[j][q].approved_hash \in Digests
      <4>1. proposal[j][q].option \in Options
        BY <2>2, <3>1 DEF IInv, RowsAreComplete, ApprovedStates
      <4>2. QED
        BY <3>2, <4>1 DEF action_hash, Digests
    <3>4. PICK d \in Digests : d = proposal[j][q].approved_hash
      BY <3>3
    <3>5. ApprovalIsLogged(j, d)'
      BY <1>11, <3>2, <3>4 DEF KeepsLog
    <3>6. QED
      BY <3>1, <3>2, <3>4, <3>5 DEF ApprovalIsLogged
  <2>5. QED
    BY <2>3, <2>4
<1>13. JobIsValid(w)'
  BY <1>1, IdleIsValid
<1>14. Idle.pc \notin IntakePCs \cup HoldingPCs /\ Idle.pc # "finalizing"
  BY DEF Idle, IntakePCs, HoldingPCs
<1>15. runState[k] = "proposed" /\ \A v \in Workers : ~Owns(v, k)
  BY NobodyOwns DEF AwaitsDecision
<1>16. QED
  BY <1>1, <1>2, <1>3, <1>10, <1>12, <1>13, <1>14, <1>15, IdleTyped, MoveStep

LEMMA DecisionSettlesStep ==
  ASSUME IInv, NEW w \in Workers, DecisionSettles(w)
  PROVE  IInv'
<1>1. worker[w].run \in Runs /\ worker[w].revision \in Revisions
  BY Open DEF DecisionSettles
<1>2. worker[w].digest \in Digests
  BY DEF DecisionSettles, IInv, JobIsValid
<1>3. QED
  BY <1>1, <1>2, SettleStep DEF DecisionSettles, Decidable

(***************************************************************************)
(* A run that is not yet claimed has had no effect.                        *)
(***************************************************************************)
LEMMA NoEffectBeforeClaim ==
  ASSUME IInv, NEW k \in Runs, runState[k] \notin {"executing", "succeeded", "failed"}
  PROVE  effects[k] = <<>>
<1>1. \A r \in Revisions :
        proposal[k][r].status \in {"executing", "succeeded", "failed"} =>
          runState[k] = proposal[k][r].status
  BY DEF IInv, RunFollowsProposal
<1>2. QED
  BY <1>1 DEF IInv, EffectsFollowClaims

(***************************************************************************)
(* The rows a claim or a finalization leaves.                              *)
(***************************************************************************)
LEMMA StatusMoves ==
  ASSUME IInv, NEW k \in Runs, NEW r \in Revisions,
         NEW t \in {"executing", "succeeded", "failed"},
         NEW from \in {"approved", "executing"},
         proposal[k][r].status = from, runState[k] = from,
         proposal' = [proposal EXCEPT ![k][r] = WithStatus(@, t)],
         runState' = [runState EXCEPT ![k] = t],
         NEW es \in Seq(AuditEntries), Log(k, es), TypeOK'
  PROVE  MovesTogether(k, r, t) /\ t \in LateStates /\ ApprovalsAreBound'
<1>1. /\ WithStatus(proposal[k][r], t) \in ProposalRows
      /\ WithStatus(proposal[k][r], t).status = t
      /\ WithStatus(proposal[k][r], t).option = proposal[k][r].option
      /\ WithStatus(proposal[k][r], t).approved_hash = proposal[k][r].approved_hash
  BY WithStatusTyped DEF IInv, TypeOK, StoreTypeOK, ProposalStates
<1>2. MovesTogether(k, r, t) /\ t \in LateStates
  BY <1>1 DEF MovesTogether, LateStates
<1>3. KeepsLog
  BY LogKeeps DEF IInv, TypeOK
<1>4. /\ proposal'[k][r] = WithStatus(proposal[k][r], t)
      /\ \A q \in Revisions \ {r} : proposal'[k][q] = proposal[k][q]
      /\ \A j \in Runs \ {k} : proposal'[j] = proposal[j]
  BY DEF IInv, TypeOK, StoreTypeOK
<1>5. ApprovalsAreBound'
  BY <1>1, <1>3, <1>4, ApprovalsKept DEF ApprovedStates
<1>6. QED
  BY <1>2, <1>5

LEMMA ClaimExecutionStep ==
  ASSUME IInv, NEW w \in Workers, ClaimExecution(w)
  PROVE  IInv'
<1>1. PICK k \in Runs, r \in Revisions :
        k = worker[w].run /\ r = worker[w].revision
  BY Open DEF ClaimExecution
<1> DEFINE s == [worker[w] EXCEPT !.pc = "claimed"]
<1>2. /\ s \in WorkerStates
      /\ s.pc = "claimed" /\ s.run = k /\ s.revision = r
      /\ s.digest = worker[w].digest
  BY <1>1, GotoTyped DEF IInv, PCs, HoldingPCs
<1>3. Become(w, s) /\ claim_execution(k, r) /\ UNCHANGED <<clock, effects>>
  BY <1>1 DEF ClaimExecution, Goto
<1> HIDE DEF s
<1>4. worker'[w] = s
  BY <1>2, <1>3, BecomeTyped DEF IInv
<1>5. proposal[k][r].status = "approved" /\ runState[k] = "approved"
  BY <1>1 DEF ClaimExecution, Claimable
<1>6. StoreTypeOK'
  BY <1>3, ClaimExecutionTyped DEF IInv, TypeOK
<1>7. TypeOK'
  BY <1>2, <1>3, <1>6, BecomeTyped DEF IInv, TypeOK
<1>8. <<Moved("approved", "executing")>> \in Seq(AuditEntries)
  BY EntriesAreTyped DEF RunStates
<1>9. MovesTogether(k, r, "executing") /\ "executing" \in LateStates /\ ApprovalsAreBound'
  BY <1>3, <1>5, <1>7, <1>8, StatusMoves DEF claim_execution
<1>10. \A v \in Workers : ~Owns(v, k)
  BY <1>5, NobodyOwns
<1>11. effects[k] = <<>>
  BY <1>5, NoEffectBeforeClaim
<1>12. /\ proposal'[k][r].status = "executing"
       /\ proposal'[k][r].option = proposal[k][r].option
  BY <1>9, MovedRows DEF IInv
<1>13. worker[w].digest = action_hash(r, proposal[k][r].option)
  BY <1>1 DEF ClaimExecution, Claimable, Binds
<1>14. JobIsValid(w)'
  BY <1>2, <1>4, <1>12, <1>13 DEF JobIsValid, HoldingPCs
<1>15. QED
  BY <1>2, <1>3, <1>5, <1>6, <1>9, <1>10, <1>11, <1>14, MoveStep
  DEF IntakePCs, HoldingPCs

(***************************************************************************)
(* A finalization with the outcome the thread holds, or as a failure.      *)
(***************************************************************************)
LEMMA FinalizeStep ==
  ASSUME IInv, NEW w \in Workers, NEW k \in Runs, NEW r \in Revisions,
         NEW final \in {"succeeded", "failed"},
         worker[w].run = k, worker[w].pc \in HoldingPCs,
         final = "succeeded" =>
           effects[k] # <<>> /\ effects[k][1].result = "succeeded",
         finalize_execution(k, r, final), Return(w), UNCHANGED <<clock, effects>>
  PROVE  IInv'
<1>1. Become(w, Idle) /\ worker'[w] = Idle
  BY IdleTyped, BecomeTyped DEF Return, IInv
<1>2. StoreTypeOK'
  BY FinalizeExecutionTyped DEF IInv, TypeOK
<1>3. TypeOK'
  BY <1>1, <1>2, IdleTyped, BecomeTyped DEF IInv, TypeOK
<1>4. <<Moved("executing", final), Noted("execution_result")>> \in Seq(AuditEntries)
  BY EntriesAreTyped DEF RunStates, AuditEvents
<1>5. MovesTogether(k, r, final) /\ final \in LateStates /\ ApprovalsAreBound'
  BY <1>3, <1>4, StatusMoves DEF finalize_execution
<1>6. JobIsValid(w)'
  BY <1>1, IdleIsValid
<1>7. Idle.pc \notin IntakePCs \cup HoldingPCs /\ Idle.pc # "finalizing"
  BY DEF Idle, IntakePCs, HoldingPCs
<1>8. \A v \in Workers \ {w} : ~Owns(v, k)
  BY Owner
<1>9. QED
  BY <1>1, <1>2, <1>5, <1>6, <1>7, <1>8, IdleTyped, MoveStep

LEMMA FinalizeActionsStep ==
  ASSUME IInv, NEW w \in Workers, Finalize(w) \/ FinalizeAsFailed(w)
  PROVE  IInv'
<1>1. /\ worker[w].pc \in HoldingPCs
      /\ worker[w].run \in Runs /\ worker[w].revision \in Revisions
  BY Owner DEF Finalize, FinalizeAsFailed, HoldingPCs, IInv, TypeOK, WorkerStates
<1>2. CASE Finalize(w)
  <2>1. worker[w].result \in {"succeeded", "failed"}
    BY <1>2 DEF Finalize, IInv, JobIsValid
  <2>2. worker[w].result = "succeeded" =>
          /\ effects[worker[w].run] # <<>>
          /\ effects[worker[w].run][1].result = "succeeded"
    BY <1>1, <1>2 DEF Finalize, IInv, EffectsFollowClaims
  <2>3. QED
    BY <1>1, <1>2, <2>1, <2>2, FinalizeStep DEF Finalize
<1>3. CASE FinalizeAsFailed(w)
  BY <1>1, <1>3, FinalizeStep DEF FinalizeAsFailed
<1>4. QED
  BY <1>2, <1>3

(***************************************************************************)
(* The executor is called by the thread that holds the claim, once.        *)
(***************************************************************************)
LEMMA RunExecutorStep ==
  ASSUME IInv, NEW w \in Workers, NEW result \in Results, RunExecutor(w, result)
  PROVE  IInv'
<1> DEFINE next == IF result = "raised" THEN "recovering" ELSE "finalizing"
           s == [worker[w] EXCEPT !.result = result, !.pc = next]
<1>1. next \in {"recovering", "finalizing"}
      /\ (next = "finalizing" => result \in {"succeeded", "failed"})
  BY DEF Results
<1>2. PICK k \in Runs, r \in Revisions :
        k = worker[w].run /\ r = worker[w].revision
  BY Owner DEF RunExecutor, HoldingPCs, IInv, TypeOK, WorkerStates
<1>3. /\ Become(w, s) /\ UNCHANGED <<storeVars, clock>>
      /\ effects' = [effects EXCEPT ![k] =
                       Append(@, [digest |-> worker[w].digest, result |-> result])]
  BY <1>2 DEF RunExecutor
<1> HIDE DEF next
<1>4. /\ s \in WorkerStates
      /\ s.pc = next /\ s.run = k /\ s.revision = r
      /\ s.digest = worker[w].digest /\ s.result = result
  BY <1>1, <1>2 DEF WorkerStates, PCs, HoldingPCs, IInv, TypeOK
<1> HIDE DEF s
<1>5. /\ worker' \in [Workers -> WorkerStates]
      /\ worker'[w] = s
      /\ \A v \in Workers \ {w} : worker'[v] = worker[v]
  BY <1>3, <1>4, BecomeTyped DEF IInv
<1>6. /\ worker[w].digest = action_hash(r, proposal[k][r].option)
      /\ proposal[k][r].status = "executing" /\ runState[k] = "executing"
      /\ effects[k] = <<>>
      /\ \A v \in Workers \ {w} : ~Owns(v, k)
  BY <1>2, Owner
  DEF RunExecutor, HoldingPCs, IInv, JobIsValid, OwnershipIsExclusive, Owns,
      EffectsFollowClaims, ExpectedState, IntakePCs
<1>7. worker[w].digest \in Digests
  BY <1>6 DEF IInv, RowsAreComplete, action_hash, Digests
<1> DEFINE e == [digest |-> worker[w].digest, result |-> result]
<1>8. e \in [digest : Digests, result : Results]
  BY <1>7
<1>9. effects'[k] = <<e>> /\ \A j \in Runs \ {k} : effects'[j] = effects[j]
  BY <1>3, <1>6 DEF IInv, TypeOK
<1>10. effects' \in [Runs -> Seq([digest : Digests, result : Results])]
  <2>1. <<e>> \in Seq([digest : Digests, result : Results])
    BY <1>8
  <2>2. effects' = [effects EXCEPT ![k] = <<e>>]
    BY <1>3, <1>6 DEF IInv, TypeOK
  <2> HIDE DEF e
  <2>3. QED
    BY <2>1, <2>2 DEF IInv, TypeOK
<1>11. TypeOK'
  BY <1>3, <1>5, <1>10 DEF IInv, TypeOK, StoreTypeOK, storeVars
<1>12. RowsAreComplete' /\ EarlyRunsHaveNoProposal' /\ RunFollowsProposal'
  BY <1>3 DEF IInv, RowsAreComplete, EarlyRunsHaveNoProposal,
              RunFollowsProposal, NewestOf, storeVars
<1>13. KeepsRows /\ KeepsOwned(w) /\ KeepsLog
  BY <1>3 DEF KeepsRows, KeepsOwned, KeepsLog, ApprovalIsLogged, storeVars
<1>14. JobIsValid(w)'
  BY <1>1, <1>3, <1>4, <1>5, <1>6 DEF JobIsValid, HoldingPCs, storeVars
<1>15. \A v \in Workers : JobIsValid(v)'
  BY <1>3, <1>4, <1>11, <1>13, <1>14, JobsKept
<1>16. OwnsAlone(w, s)
  BY <1>1, <1>3, <1>4, <1>6
  DEF OwnsAlone, ExpectedState, HoldingPCs, IntakePCs, storeVars
<1>17. OwnershipIsExclusive'
  BY <1>3, <1>4, <1>11, <1>13, <1>16, OwnershipKept
<1>18. ApprovalsAreBound'
  BY <1>3, <1>11, <1>13, ApprovalsKept DEF storeVars
<1>19. EffectsFollowClaims'
  <2>1. SUFFICES ASSUME NEW j \in Runs
                 PROVE  /\ Len(effects'[j]) <= 1
                        /\ effects'[j] # <<>> => \E q \in Revisions :
                             /\ proposal'[j][q].status \in {"executing", "succeeded", "failed"}
                             /\ effects'[j][1].digest = action_hash(q, proposal'[j][q].option)
                        /\ runState'[j] = "succeeded" =>
                             effects'[j] # <<>> /\ effects'[j][1].result = "succeeded"
                        /\ \A v \in Workers : worker'[v].run = j =>
                             /\ worker'[v].pc \in {"claimed", "calling"} => effects'[j] = <<>>
                             /\ worker'[v].pc = "finalizing" =>
                                  effects'[j] # <<>> /\ effects'[j][1].result = worker'[v].result
    BY DEF EffectsFollowClaims
  <2>2. CASE j # k
    BY <1>3, <1>4, <1>5, <1>9, <2>2 DEF IInv, EffectsFollowClaims, storeVars
  <2>3. CASE j = k
    <3>1. /\ Len(effects'[k]) = 1 /\ effects'[k] # <<>>
          /\ effects'[k][1].digest = worker[w].digest
          /\ effects'[k][1].result = result
      BY <1>9
    <3>2. proposal' = proposal /\ runState' = runState
      BY <1>3 DEF storeVars
    <3>3. \A v \in Workers \ {w} : worker'[v].run = k =>
             worker'[v].pc \notin IntakePCs \cup HoldingPCs
      BY <1>5, <1>6 DEF Owns
    <3>4. QED
      BY <1>1, <1>4, <1>5, <1>6, <2>3, <3>1, <3>2, <3>3 DEF HoldingPCs
  <2>4. QED
    BY <2>2, <2>3
<1>20. QED
  BY <1>11, <1>12, <1>15, <1>17, <1>18, <1>19 DEF IInv

-------------------------------------------------------------------------------
(* The sweep, which may touch many runs.                                   *)

(***************************************************************************)
(* A due proposal is the newest of its run, so the sweep takes exactly it. *)
(***************************************************************************)
LEMMA DueIsNewest ==
  ASSUME IInv, NEW now \in Nat, NEW k \in Runs, NEW r \in Revisions, Due(k, r, now)
  PROVE  /\ runState[k] = proposal[k][r].status
         /\ FirstDue(k, r, now)
         /\ \A q \in Revisions \ {r} :
              proposal[k][q].status \in {"absent", "superseded"} /\ ~Due(k, q, now)
<1>1. runState[k] = proposal[k][r].status /\ NewestOf(k, r)
  BY DEF Due, IInv, RunFollowsProposal
<1>2. \A q \in Revisions \ {r} : proposal[k][q].status \in {"absent", "superseded"}
  BY <1>1 DEF NewestOf, Revisions
<1>3. \A q \in Revisions \ {r} : ~Due(k, q, now)
  BY <1>2 DEF Due
<1>4. \A q \in 1..(r - 1) : q \in Revisions \ {r}
  BY StoreAssumption DEF Revisions
<1>5. QED
  BY <1>1, <1>2, <1>3, <1>4 DEF FirstDue

Swept(k, r) ==
  /\ runState[k] \in {"proposed", "approved"}
  /\ runState[k] = proposal[k][r].status
  /\ runState'[k] = "expired"
  /\ proposal'[k][r] = WithStatus(proposal[k][r], "expired")
  /\ \A q \in Revisions \ {r} : /\ proposal'[k][q] = proposal[k][q]
                                /\ proposal[k][q].status \in {"absent", "superseded"}

LEMMA SweepOfRun ==
  ASSUME IInv, NEW now \in Nat, expire_due(now), NEW k \in Runs
  PROVE  \/ runState'[k] = runState[k] /\ proposal'[k] = proposal[k]
         \/ \E r \in Revisions : Swept(k, r)
<1>1. CASE \E r \in Revisions : Due(k, r, now)
  <2>1. PICK r \in Revisions : Due(k, r, now)
    BY <1>1
  <2>2. /\ runState[k] = proposal[k][r].status
        /\ FirstDue(k, r, now)
        /\ \A q \in Revisions \ {r} :
             proposal[k][q].status \in {"absent", "superseded"} /\ ~FirstDue(k, q, now)
    BY <2>1, DueIsNewest DEF FirstDue
  <2>3. runState'[k] = "expired" /\ runState[k] \in {"proposed", "approved"}
    BY <2>1 DEF expire_due, Due
  <2>4. /\ proposal'[k][r] = WithStatus(proposal[k][r], "expired")
        /\ \A q \in Revisions \ {r} : proposal'[k][q] = proposal[k][q]
    BY <2>2 DEF expire_due
  <2>5. QED
    BY <2>2, <2>3, <2>4 DEF Swept
<1>2. CASE ~ \E r \in Revisions : Due(k, r, now)
  <2>1. runState'[k] = runState[k]
    BY <1>2 DEF expire_due
  <2>2. proposal'[k] = [r \in Revisions |-> proposal[k][r]]
    BY <1>2 DEF expire_due, FirstDue
  <2>3. QED
    BY <2>1, <2>2 DEF IInv, TypeOK, StoreTypeOK
<1>3. QED
  BY <1>1, <1>2

(***************************************************************************)
(* What a sweep leaves as it was: the rows but for the status of those due,*)
(* the claims, the approvals on record and the runs that a thread owns.    *)
(***************************************************************************)
SweepKeeps ==
  /\ StoreTypeOK' /\ StoreInv'
  /\ KeepsRows /\ KeepsClaims /\ KeepsLog
  /\ \A v \in Workers, k \in Runs :
       Owns(v, k) => runState'[k] = runState[k] /\ proposal'[k] = proposal[k]
  /\ \A k \in Runs : runState'[k] = "succeeded" => runState[k] = "succeeded"
  /\ \A k \in Runs, q \in Revisions :
       proposal'[k][q].status \in ApprovedStates => proposal'[k][q] = proposal[k][q]

LEMMA SweepKeepsStore ==
  ASSUME IInv, NEW now \in Nat, expire_due(now)
  PROVE  SweepKeeps
<1>1. StoreTypeOK'
  BY ExpireDueTyped DEF IInv, TypeOK
<1>2. \A k \in Runs :
        \/ runState'[k] = runState[k] /\ proposal'[k] = proposal[k]
        \/ \E r \in Revisions : Swept(k, r)
  BY SweepOfRun
<1>3. \A k \in Runs, r \in Revisions :
        /\ WithStatus(proposal[k][r], "expired").status = "expired"
        /\ WithStatus(proposal[k][r], "expired").option = proposal[k][r].option
  BY WithStatusTyped DEF IInv, TypeOK, StoreTypeOK, ProposalStates
<1>4. ASSUME NEW k \in Runs, NEW q \in Revisions
      PROVE  \/ proposal'[k][q] = proposal[k][q]
             \/ /\ proposal[k][q].status \in {"proposed", "approved"}
                /\ proposal'[k][q].status = "expired"
                /\ proposal'[k][q].option = proposal[k][q].option
  BY <1>2, <1>3 DEF Swept
<1>5. StoreInv'
  <2>1. RowsAreComplete'
    BY <1>4 DEF IInv, RowsAreComplete
  <2>2. EarlyRunsHaveNoProposal'
    <3>1. SUFFICES ASSUME NEW k \in Runs,
                          runState'[k] \in {"absent", "received", "investigating", "assessed"},
                          NEW r \in Revisions
                   PROVE  proposal'[k][r].status = "absent"
      BY DEF EarlyRunsHaveNoProposal
    <3>2. runState'[k] = runState[k] /\ proposal'[k] = proposal[k]
      BY <1>2, <3>1 DEF Swept
    <3>3. QED
      BY <3>1, <3>2 DEF IInv, EarlyRunsHaveNoProposal
  <2>3. RunFollowsProposal'
    <3>1. SUFFICES ASSUME NEW k \in Runs
                   PROVE  /\ \A r \in Revisions :
                               proposal'[k][r].status \notin {"absent", "superseded"} =>
                                 /\ runState'[k] = proposal'[k][r].status
                                 /\ \A q \in Revisions :
                                      /\ q < r => proposal'[k][q].status = "superseded"
                                      /\ q > r => proposal'[k][q].status = "absent"
                          /\ runState'[k] \in {"proposed", "approved", "rejected",
                                               "expired", "executing", "succeeded"} =>
                               \E r \in Revisions : proposal'[k][r].status = runState'[k]
      BY DEF RunFollowsProposal, NewestOf
    <3>2. CASE runState'[k] = runState[k] /\ proposal'[k] = proposal[k]
      BY <3>2 DEF IInv, RunFollowsProposal, NewestOf
    <3>3. CASE \E r \in Revisions : Swept(k, r)
      <4>1. PICK r \in Revisions : Swept(k, r)
        BY <3>3
      <4>2. \A q \in Revisions : /\ q < r => proposal[k][q].status = "superseded"
                                 /\ q > r => proposal[k][q].status = "absent"
        BY <4>1 DEF Swept, IInv, RunFollowsProposal, NewestOf
      <4>3. \A q \in Revisions : /\ q < r => proposal'[k][q].status = "superseded"
                                 /\ q > r => proposal'[k][q].status = "absent"
        BY <4>1, <4>2 DEF Swept, Revisions
      <4>4. \A q \in Revisions \ {r} :
              proposal'[k][q].status \in {"absent", "superseded"}
        BY <4>1 DEF Swept
      <4>5. proposal'[k][r].status = "expired" /\ runState'[k] = "expired"
        BY <1>3, <4>1 DEF Swept
      <4>6. QED
        BY <4>3, <4>4, <4>5
    <3>4. QED
      BY <1>2, <3>2, <3>3
  <2>4. QED
    BY <2>1, <2>2, <2>3 DEF StoreInv
<1>6. KeepsRows /\ KeepsClaims
  BY <1>4 DEF KeepsRows, KeepsClaims
<1>7. ASSUME NEW v \in Workers, NEW k \in Runs, Owns(v, k)
       PROVE  runState'[k] = runState[k] /\ proposal'[k] = proposal[k]
  BY <1>2, <1>7, NobodyOwns DEF Swept
<1>8. KeepsLog
  <2>1. SUFFICES ASSUME NEW k \in Runs, NEW digest \in Digests,
                        NEW i \in DOMAIN audit[k]
                 PROVE  i \in DOMAIN audit'[k] /\ audit'[k][i] = audit[k][i]
    BY DEF KeepsLog, ApprovalIsLogged
  <2>2. PICK es \in Seq(AuditEntries) : audit'[k] = audit[k] \/ audit'[k] = audit[k] \o es
    <3>1. <<Moved(runState[k], "expired"), Noted("proposal_expired")>> \in Seq(AuditEntries)
      <4>1. runState[k] \in RunStates
        BY DEF IInv, TypeOK, StoreTypeOK
      <4>2. "expired" \in RunStates /\ "proposal_expired" \in AuditEvents
        BY DEF RunStates, AuditEvents
      <4>3. QED
        BY <4>1, <4>2, EntriesAreTyped
    <3>2. \/ audit'[k] = audit[k]
          \/ audit'[k] = audit[k] \o <<Moved(runState[k], "expired"),
                                       Noted("proposal_expired")>>
      BY DEF expire_due
    <3>3. QED
      BY <3>1, <3>2
  <2>3. audit[k] \in Seq(AuditEntries)
    BY DEF IInv, TypeOK, StoreTypeOK
  <2>4. CASE audit'[k] = audit[k] \o es
    BY <2>3, <2>4, ConcatProperties
  <2>5. QED
    BY <2>2, <2>4
<1>9. \A k \in Runs : runState'[k] = "succeeded" => runState[k] = "succeeded"
  BY <1>2 DEF Swept
<1>10. \A k \in Runs, q \in Revisions :
        proposal'[k][q].status \in ApprovedStates => proposal'[k][q] = proposal[k][q]
  BY <1>4 DEF ApprovedStates
<1>11. QED
  BY <1>1, <1>5, <1>6, <1>7, <1>8, <1>9, <1>10 DEF SweepKeeps

LEMMA SweepBindsApprovals ==
  ASSUME IInv, TypeOK', SweepKeeps
  PROVE  ApprovalsAreBound'
BY ApprovalsKept DEF SweepKeeps

LEMMA ExpireDueStep ==
  ASSUME IInv, NEW w \in Workers, ExpireDue(w)
  PROVE  IInv'
<1>1. worker[w].now \in Nat /\ expire_due(worker[w].now) /\ UNCHANGED <<clock, effects>>
  BY DEF ExpireDue, IInv, TypeOK, WorkerStates
<1>2. Become(w, Idle) /\ worker'[w] = Idle
  BY IdleTyped, BecomeTyped DEF ExpireDue, Return, IInv
<1>3. SweepKeeps
  BY <1>1, SweepKeepsStore
<1>4. TypeOK'
  BY <1>1, <1>2, <1>3, IdleTyped, BecomeTyped DEF IInv, TypeOK, SweepKeeps
<1>5. KeepsOwned(w)
  BY <1>3 DEF SweepKeeps, KeepsOwned
<1>6. JobIsValid(w)'
  BY <1>2, IdleIsValid
<1>7. OwnsAlone(w, Idle) /\ Idle.pc \notin {"claimed", "calling", "finalizing"}
  BY DEF OwnsAlone, Idle, IntakePCs, HoldingPCs
<1>8. ApprovalsAreBound'
  BY <1>3, <1>4, SweepBindsApprovals
<1>9. QED
  BY <1>1, <1>2, <1>3, <1>5, <1>6, <1>7, <1>8, IdleTyped, StoreStep DEF SweepKeeps

(***************************************************************************)
(* The sweep of the background task, which no thread takes part in.        *)
(***************************************************************************)
LEMMA SweepAloneStep ==
  ASSUME IInv, NEW now \in Nat, expire_due(now), UNCHANGED <<clock, worker, effects>>
  PROVE  IInv'
<1>1. SweepKeeps
  BY SweepKeepsStore
<1>2. TypeOK'
  BY <1>1 DEF IInv, TypeOK, SweepKeeps
<1>3. ASSUME NEW v \in Workers
      PROVE  JobIsValid(v)'
  <2>1. worker'[v] = worker[v] /\ worker[v] \in WorkerStates /\ JobIsValid(v) /\ KeepsRows
    BY <1>1 DEF IInv, TypeOK, SweepKeeps
  <2>2. worker[v].revision \in Revisions
    BY <2>1 DEF WorkerStates
  <2>3. CASE worker[v].run \in Runs
    BY <2>1, <2>2, <2>3 DEF JobIsValid, KeepsRows, HoldingPCs
  <2>4. CASE worker[v].run \notin Runs
    <3>1. worker[v].pc \in {"idle", "expiring"}
      BY <2>1, <2>4 DEF JobIsValid
    <3>2. QED
      BY <2>1, <3>1 DEF JobIsValid, HoldingPCs
  <2>5. QED
    BY <2>3, <2>4
<1>4. OwnershipIsExclusive'
  BY <1>1 DEF IInv, OwnershipIsExclusive, Owns, SweepKeeps
<1>5. EffectsFollowClaims'
  <2>1. KeepsRows /\ KeepsClaims /\ effects' = effects /\ worker' = worker
    BY <1>1 DEF SweepKeeps
  <2>2. \A k \in Runs : runState'[k] = "succeeded" => runState[k] = "succeeded"
    BY <1>1 DEF SweepKeeps
  <2>3. ASSUME NEW k \in Runs, effects[k] # <<>>
        PROVE  \E r \in Revisions :
                 /\ proposal'[k][r].status \in {"executing", "succeeded", "failed"}
                 /\ effects[k][1].digest = action_hash(r, proposal'[k][r].option)
    <3>1. PICK r \in Revisions :
                 /\ proposal[k][r].status \in {"executing", "succeeded", "failed"}
                 /\ effects[k][1].digest = action_hash(r, proposal[k][r].option)
      BY <2>3 DEF IInv, EffectsFollowClaims
    <3>2. proposal'[k][r].option = proposal[k][r].option
      BY <2>1, <3>1 DEF KeepsRows
    <3>3. QED
      BY <2>1, <3>1, <3>2 DEF KeepsClaims
  <2>4. QED
    BY <2>1, <2>2, <2>3 DEF IInv, EffectsFollowClaims
<1>6. ApprovalsAreBound'
  BY <1>1, <1>2, SweepBindsApprovals
<1>7. QED
  BY <1>1, <1>2, <1>3, <1>4, <1>5, <1>6 DEF IInv, StoreInv, SweepKeeps

-------------------------------------------------------------------------------
(* The theorems.                                                           *)

LEMMA InitIInv == Init => IInv
<1> SUFFICES ASSUME Init PROVE IInv
  OBVIOUS
<1> USE DEF Init, StoreInit
<1>1. StoreTypeOK
  <2>1. NoRow \in ProposalRows
    BY DEF NoRow, ProposalRows, ProposalStates
  <2>2. <<>> \in Seq(AuditEntries)
    OBVIOUS
  <2>3. QED
    BY <2>1, <2>2 DEF StoreTypeOK, RunStates
<1>2. TypeOK
  BY <1>1, IdleTyped DEF TypeOK
<1>3. \A k \in Runs, r \in Revisions : proposal[k][r].status = "absent"
  BY DEF NoRow
<1>4. RowsAreComplete /\ EarlyRunsHaveNoProposal /\ RunFollowsProposal /\ ApprovalsAreBound
  BY <1>3 DEF RowsAreComplete, EarlyRunsHaveNoProposal, RunFollowsProposal,
              ApprovalsAreBound, ApprovedStates
<1>5. \A w \in Workers : worker[w].pc = "idle"
  BY DEF Idle
<1>6. \A w \in Workers : JobIsValid(w)
  BY <1>5 DEF JobIsValid, HoldingPCs
<1>7. OwnershipIsExclusive
  BY <1>5 DEF OwnershipIsExclusive, Owns, IntakePCs, HoldingPCs
<1>8. EffectsFollowClaims
  <2>1. \A k \in Runs : effects[k] = <<>>
    OBVIOUS
  <2>2. \A k \in Runs : runState[k] # "succeeded"
    OBVIOUS
  <2> HIDE DEF Init, StoreInit
  <2>3. Len(<<>>) <= 1
    OBVIOUS
  <2>4. \A k \in Runs : Len(effects[k]) <= 1
    BY <2>1, <2>3, Zenon
  <2>5. \A w \in Workers : worker[w].pc \notin {"claimed", "calling", "finalizing"}
    BY <1>5
  <2>6. QED
    BY <2>1, <2>2, <2>4, <2>5 DEF EffectsFollowClaims
<1>9. QED
  BY <1>2, <1>4, <1>6, <1>7, <1>8 DEF IInv

LEMMA StutterStep ==
  ASSUME IInv, UNCHANGED vars
  PROVE  IInv'
<1> USE DEF vars, storeVars, IInv
<1>1. TypeOK'
  BY DEF TypeOK, StoreTypeOK
<1>2. RowsAreComplete' /\ EarlyRunsHaveNoProposal' /\ RunFollowsProposal'
  BY DEF RowsAreComplete, EarlyRunsHaveNoProposal, RunFollowsProposal, NewestOf
<1>3. \A w \in Workers : JobIsValid(w)'
  BY DEF JobIsValid
<1>4. OwnershipIsExclusive'
  BY DEF OwnershipIsExclusive, Owns
<1>5. ApprovalsAreBound' /\ EffectsFollowClaims'
  BY DEF ApprovalsAreBound, ApprovalIsLogged, EffectsFollowClaims
<1>6. QED
  BY <1>1, <1>2, <1>3, <1>4, <1>5

LEMMA NextIInv == IInv /\ [Next]_vars => IInv'
<1> SUFFICES ASSUME IInv, Next PROVE IInv'
  BY StutterStep
<1>1. CASE Tick
  BY <1>1, TickStep
<1>2. ASSUME NEW w \in Workers, Request(w) PROVE IInv'
  BY <1>2, StartEventStep, RequestDecisionStep, RequestExecutionStep, RequestExpiryStep
  DEF Request
<1>3. ASSUME NEW w \in Workers, Handle(w) PROVE IInv'
  <2>1. CASE Intake(w)
    BY <2>1, AcceptEventStep, AuditActionsStep, BuildProposalStep,
       CreateProposalStep, IntakeRaisesStep, FailRunStep
    DEF Intake
  <2>2. CASE Decide(w)
    BY <2>2, QuietActions, ExpiringActionsStep, DecisionRevisesStep, DecisionSettlesStep
    DEF Decide
  <2>3. CASE Execute(w)
    BY <2>3, QuietActions, ExpiringActionsStep, ClaimExecutionStep,
       AuditActionsStep, RunExecutorStep, FinalizeActionsStep
    DEF Execute
  <2>4. CASE ExpireDue(w)
    BY <2>4, ExpireDueStep
  <2>5. QED
    BY <1>3, <2>1, <2>2, <2>3, <2>4 DEF Handle
<1>4. ASSUME NEW w \in Workers, Fault(w) PROVE IInv'
  BY <1>4, FinalizeRaisesStep, QuietActions DEF Fault
<1>5. QED
  BY <1>1, <1>2, <1>3, <1>4 DEF Next

(***************************************************************************)
(* The inductive invariant holds in every reachable state.                 *)
(***************************************************************************)
THEOREM InductiveInvariant == Spec => []IInv
BY InitIInv, NextIInv, PTL DEF Spec

(***************************************************************************)
(* Every table row and every thread's local variables stay well formed.    *)
(***************************************************************************)
THEOREM TypeCorrect == Spec => []TypeOK
<1>1. IInv => TypeOK
  BY DEF IInv
<1>2. QED
  BY <1>1, InductiveInvariant, PTL

===============================================================================
