---------------------------- MODULE IncidentService ----------------------------
(***************************************************************************)
(* IncidentService on top of the store: request threads, of one or several *)
(* processes that share the database, take an event to a proposal, decide  *)
(* proposals, execute approved ones and sweep overdue ones.  A handler     *)
(* reads, captures the clock, and only then enters a transaction; the      *)
(* steps of different threads interleave between any two of these.         *)
(*                                                                         *)
(* Requests that end before their first write (unknown proposal, execution *)
(* disabled, duplicate event, payload conflict, an option that policy      *)
(* refuses on revise) change nothing and are the stuttering steps.         *)
(***************************************************************************)
EXTENDS IncidentStore

CONSTANTS
  Workers,           \* request threads
  TTL,               \* proposal_ttl_seconds
  MaxTime,           \* bound on the clock
  ExecutionEnabled,  \* execution_enabled
  Faults             \* what the environment may do: "busy", "crash"

ASSUME ServiceAssumption ==
  /\ TTL \in Nat \ {0}
  /\ MaxTime \in Nat
  /\ ExecutionEnabled \in BOOLEAN
  /\ Faults \subseteq {"busy", "crash"}

VARIABLES
  clock,    \* Clock.now(), taken to be monotone
  worker,   \* what each thread is doing, with its local variables
  effects   \* history: what the executor was asked to do, by run

vars == <<storeVars, clock, worker, effects>>

Decisions == {"approve", "reject", "revise"}

Results == {"succeeded", "failed", "raised"}

IntakePCs == {"received", "investigating", "collected", "analyzed",
              "assessed", "proposing", "failing"}

HoldingPCs == {"claimed", "calling", "finalizing", "recovering"}

PCs == IntakePCs \cup HoldingPCs
         \cup {"idle", "deciding", "claiming", "expiring"}

WorkerStates == [pc       : PCs,
                 run      : Runs \cup {None},
                 revision : Revisions,
                 decision : Decisions \cup {"none"},
                 digest   : Digests \cup {None},
                 option   : Options \cup {None},
                 now      : Nat,
                 result   : Results \cup {"none"}]

Idle == [pc |-> "idle", run |-> None, revision |-> 1, decision |-> "none",
         digest |-> None, option |-> None, now |-> 0, result |-> "none"]

TypeOK ==
  /\ StoreTypeOK
  /\ clock \in Nat
  /\ worker \in [Workers -> WorkerStates]
  /\ effects \in [Runs -> Seq([digest : Digests, result : Results])]

Init ==
  /\ StoreInit
  /\ clock = 0
  /\ worker = [w \in Workers |-> Idle]
  /\ effects = [k \in Runs |-> <<>>]

Become(w, state) == worker' = [worker EXCEPT ![w] = state]

Goto(w, pc) == Become(w, [worker[w] EXCEPT !.pc = pc])

Return(w) == Become(w, Idle)

-------------------------------------------------------------------------------

(***************************************************************************)
(* _start_event.  Only the thread whose INSERT succeeded goes on; it owns  *)
(* the run until the proposal is stored or the run has failed.             *)
(***************************************************************************)
StartEvent(w, k, p) ==
  /\ worker[w].pc = "idle"
  /\ create_run(k, p)
  /\ Become(w, [Idle EXCEPT !.pc = "received", !.run = k])
  /\ UNCHANGED <<clock, effects>>

AcceptEvent(w) ==
  /\ worker[w].pc = "received"
  /\ transition_run(worker[w].run, "received", "investigating")
  /\ Goto(w, "investigating")
  /\ UNCHANGED <<clock, effects>>

CollectTelemetry(w) ==
  /\ worker[w].pc = "investigating"
  /\ create_audit(worker[w].run, "telemetry_collected")
  /\ Goto(w, "collected")
  /\ UNCHANGED <<clock, effects>>

Analyze(w) ==
  /\ worker[w].pc = "collected"
  /\ create_audit(worker[w].run, "model_completed")
  /\ Goto(w, "analyzed")
  /\ UNCHANGED <<clock, effects>>

AssessRun(w) ==
  /\ worker[w].pc = "analyzed"
  /\ transition_run(worker[w].run, "investigating", "assessed")
  /\ Goto(w, "assessed")
  /\ UNCHANGED <<clock, effects>>

(***************************************************************************)
(* build_option and the clock reading that starts the TTL.                 *)
(***************************************************************************)
BuildProposal(w, o) ==
  /\ worker[w].pc = "assessed"
  /\ Become(w, [worker[w] EXCEPT !.pc = "proposing", !.option = o,
                                 !.now = clock])
  /\ UNCHANGED <<storeVars, clock, effects>>

CreateProposal(w) ==
  LET me == worker[w]
  IN  /\ me.pc = "proposing"
      /\ create_proposal_and_transition(me.run, NewRow(me.option, me.now + TTL))
      /\ Return(w)
      /\ UNCHANGED <<clock, effects>>

\* Faulty: the error leaves the handler without failing the run.
IntakeRaises_uncaught(w) ==
  /\ worker[w].pc \in {"investigating", "collected", "assessed"}
  /\ Return(w)
  /\ UNCHANGED <<storeVars, clock, effects>>

(***************************************************************************)
(* The except clause around the intake: the collector, the analyser and    *)
(* the policy raise for reasons of their own, a transaction raises when    *)
(* the database stays locked past busy_timeout.                            *)
(***************************************************************************)
IntakeRaises(w) ==
  /\ worker[w].pc \in IntakePCs \ {"failing"}
  /\ \/ worker[w].pc \in {"investigating", "collected", "assessed"}
     \/ "busy" \in Faults
  /\ Goto(w, "failing")
  /\ UNCHANGED <<storeVars, clock, effects>>

FailRun(w) ==
  /\ worker[w].pc = "failing"
  /\ fail_run(worker[w].run)
  /\ Return(w)
  /\ UNCHANGED <<clock, effects>>

-------------------------------------------------------------------------------

(***************************************************************************)
(* _decide up to its transaction: the proposal is read, the clock is read, *)
(* and a revision builds its replacement.  The digest is the one of some   *)
(* view the caller holds, current or not.                                  *)
(***************************************************************************)
RequestDecision(w, k, r, decision, digest, o) ==
  /\ worker[w].pc = "idle"
  /\ proposal[k][r].status # "absent"
  /\ decision = "revise" => r < MaxRevision
  /\ Become(w, [Idle EXCEPT !.pc = "deciding", !.run = k, !.revision = r,
                            !.decision = decision, !.digest = digest,
                            !.option = IF decision = "revise" THEN o ELSE None,
                            !.now = clock])
  /\ UNCHANGED <<storeVars, clock, effects>>

(***************************************************************************)
(* decide_proposal: the four ways the transaction ends.                    *)
(***************************************************************************)
DecisionConflicts(w) ==
  LET me == worker[w]
  IN  /\ me.pc = "deciding"
      /\ \/ ~Decidable(me.run, me.revision, me.digest)
         \/ /\ ~Overdue(me.run, me.revision, me.now)
            /\ me.decision = "revise"
            /\ proposal[me.run][me.revision + 1].status # "absent"
      /\ Return(w)
      /\ UNCHANGED <<storeVars, clock, effects>>

DecisionExpires(w) ==
  LET me == worker[w]
  IN  /\ me.pc = "deciding"
      /\ Decidable(me.run, me.revision, me.digest)
      /\ Overdue(me.run, me.revision, me.now)
      /\ expire_locked(me.run, me.revision)
      /\ Return(w)
      /\ UNCHANGED <<clock, effects>>

DecisionRevises(w) ==
  LET me == worker[w]
  IN  /\ me.pc = "deciding"
      /\ me.decision = "revise"
      /\ Decidable(me.run, me.revision, me.digest)
      /\ ~Overdue(me.run, me.revision, me.now)
      /\ revise_proposal(me.run, me.revision, NewRow(me.option, me.now + TTL))
      /\ Return(w)
      /\ UNCHANGED <<clock, effects>>

DecisionSettles(w) ==
  LET me == worker[w]
  IN  /\ me.pc = "deciding"
      /\ me.decision \in {"approve", "reject"}
      /\ Decidable(me.run, me.revision, me.digest)
      /\ ~Overdue(me.run, me.revision, me.now)
      /\ settle_proposal(me.run, me.revision, me.decision, me.digest)
      /\ Return(w)
      /\ UNCHANGED <<clock, effects>>

-------------------------------------------------------------------------------

(***************************************************************************)
(* _execute up to the claim: the digest is recomputed from the row read.   *)
(***************************************************************************)
RequestExecution(w, k, r) ==
  /\ worker[w].pc = "idle"
  /\ ExecutionEnabled
  /\ proposal[k][r].status # "absent"
  /\ Become(w, [Idle EXCEPT !.pc = "claiming", !.run = k, !.revision = r,
                            !.digest = action_hash(r, proposal[k][r].option),
                            !.now = clock])
  /\ UNCHANGED <<storeVars, clock, effects>>

ClaimConflicts(w) ==
  LET me == worker[w]
  IN  /\ me.pc = "claiming"
      /\ ~Claimable(me.run, me.revision, me.digest)
      /\ Return(w)
      /\ UNCHANGED <<storeVars, clock, effects>>

ClaimExpires(w) ==
  LET me == worker[w]
  IN  /\ me.pc = "claiming"
      /\ Claimable(me.run, me.revision, me.digest)
      /\ Overdue(me.run, me.revision, me.now)
      /\ expire_locked(me.run, me.revision)
      /\ Return(w)
      /\ UNCHANGED <<clock, effects>>

ClaimExecution(w) ==
  LET me == worker[w]
  IN  /\ me.pc = "claiming"
      /\ Claimable(me.run, me.revision, me.digest)
      /\ ~Overdue(me.run, me.revision, me.now)
      /\ claim_execution(me.run, me.revision)
      /\ Goto(w, "claimed")
      /\ UNCHANGED <<clock, effects>>

(***************************************************************************)
(* The audit row of the tool call is written before the try block.         *)
(***************************************************************************)
AuditToolCall(w) ==
  /\ worker[w].pc = "claimed"
  /\ create_audit(worker[w].run, "tool_call")
  /\ Goto(w, "calling")
  /\ UNCHANGED <<clock, effects>>

\* Faulty: an executor that raised is finalized like one that returned.
RunExecutor_unguarded(w, result) ==
  LET me == worker[w]
  IN  /\ me.pc = "calling"
      /\ effects' = [effects EXCEPT ![me.run] =
                       Append(@, [digest |-> me.digest, result |-> result])]
      /\ Become(w, [me EXCEPT !.result = result, !.pc = "finalizing"])
      /\ UNCHANGED <<storeVars, clock>>

\* Faulty: an executor that raised leaves the handler at once.
RunExecutor_uncaught(w, result) ==
  LET me == worker[w]
  IN  /\ me.pc = "calling"
      /\ effects' = [effects EXCEPT ![me.run] =
                       Append(@, [digest |-> me.digest, result |-> result])]
      /\ IF result = "raised"
           THEN Return(w)
           ELSE Become(w, [me EXCEPT !.result = result, !.pc = "finalizing"])
      /\ UNCHANGED <<storeVars, clock>>

RunExecutor(w, result) ==
  LET me == worker[w]
  IN  /\ me.pc = "calling"
      /\ effects' = [effects EXCEPT ![me.run] =
                       Append(@, [digest |-> me.digest, result |-> result])]
      /\ Become(w, [me EXCEPT !.result = result,
                      !.pc = IF result = "raised" THEN "recovering"
                                                  ELSE "finalizing"])
      /\ UNCHANGED <<storeVars, clock>>

Finalize(w) ==
  LET me == worker[w]
  IN  /\ me.pc = "finalizing"
      /\ finalize_execution(me.run, me.revision, me.result)
      /\ Return(w)
      /\ UNCHANGED <<clock, effects>>

(***************************************************************************)
(* The except clause finalizes once more, as a failure.                    *)
(***************************************************************************)
FinalizeAsFailed(w) ==
  LET me == worker[w]
  IN  /\ me.pc = "recovering"
      /\ finalize_execution(me.run, me.revision, "failed")
      /\ Return(w)
      /\ UNCHANGED <<clock, effects>>

-------------------------------------------------------------------------------

RequestExpiry(w) ==
  /\ worker[w].pc = "idle"
  /\ Become(w, [Idle EXCEPT !.pc = "expiring", !.now = clock])
  /\ UNCHANGED <<storeVars, clock, effects>>

ExpireDue(w) ==
  /\ worker[w].pc = "expiring"
  /\ expire_due(worker[w].now)
  /\ Return(w)
  /\ UNCHANGED <<clock, effects>>

(***************************************************************************)
(* The database stays locked past busy_timeout and BEGIN IMMEDIATE raises. *)
(* Inside the try block of _execute the error leads to the second          *)
(* finalization; everywhere else it leaves the handler.                    *)
(***************************************************************************)
FinalizeRaises(w) ==
  /\ "busy" \in Faults
  /\ worker[w].pc = "finalizing"
  /\ Goto(w, "recovering")
  /\ UNCHANGED <<storeVars, clock, effects>>

HandlerRaises(w) ==
  /\ "busy" \in Faults
  /\ worker[w].pc \in {"failing", "deciding", "claiming", "claimed",
                       "recovering", "expiring"}
  /\ Return(w)
  /\ UNCHANGED <<storeVars, clock, effects>>

(***************************************************************************)
(* The process of the thread dies and is restarted; the database keeps     *)
(* what was committed.                                                     *)
(***************************************************************************)
Crash(w) ==
  /\ "crash" \in Faults
  /\ worker[w].pc # "idle"
  /\ Return(w)
  /\ UNCHANGED <<storeVars, clock, effects>>

Tick ==
  /\ clock < MaxTime
  /\ clock' = clock + 1
  /\ UNCHANGED <<storeVars, worker, effects>>

-------------------------------------------------------------------------------

Request(w) ==
  \/ \E k \in Runs, p \in Payloads : StartEvent(w, k, p)
  \/ \E k \in Runs, r \in Revisions, decision \in Decisions,
        digest \in Digests, o \in Options :
       RequestDecision(w, k, r, decision, digest, o)
  \/ \E k \in Runs, r \in Revisions : RequestExecution(w, k, r)
  \/ RequestExpiry(w)

Intake(w) ==
  \/ AcceptEvent(w) \/ CollectTelemetry(w) \/ Analyze(w) \/ AssessRun(w)
  \/ \E o \in Options : BuildProposal(w, o)
  \/ CreateProposal(w) \/ IntakeRaises(w) \/ FailRun(w)

Decide(w) ==
  \/ DecisionConflicts(w) \/ DecisionExpires(w)
  \/ DecisionRevises(w) \/ DecisionSettles(w)

Execute(w) ==
  \/ ClaimConflicts(w) \/ ClaimExpires(w) \/ ClaimExecution(w)
  \/ AuditToolCall(w)
  \/ \E result \in Results : RunExecutor(w, result)
  \/ Finalize(w) \/ FinalizeAsFailed(w)

Fault(w) == FinalizeRaises(w) \/ HandlerRaises(w) \/ Crash(w)

Handle(w) == Intake(w) \/ Decide(w) \/ Execute(w) \/ ExpireDue(w)

Next ==
  \/ \E w \in Workers : Request(w) \/ Handle(w) \/ Fault(w)
  \/ Tick

Spec == Init /\ [][Next]_vars

(***************************************************************************)
(* A thread that has begun a request goes on with it.  No request has to   *)
(* be made, and the clock may stop.                                        *)
(***************************************************************************)
FairSpec == Spec /\ \A w \in Workers : WF_vars(Handle(w))

-------------------------------------------------------------------------------
(* PROPERTIES                                                              *)

(***************************************************************************)
(* The row of a run and the rows of its proposals are written by the same  *)
(* transactions: whatever interleaving of intake, decisions, claims and    *)
(* sweeps, a run carries the status of its newest proposal, every older    *)
(* revision is superseded, and no revision number is skipped.              *)
(***************************************************************************)
NewestOf(k, r) ==
  \A q \in Revisions :
    /\ q < r => proposal[k][q].status = "superseded"
    /\ q > r => proposal[k][q].status = "absent"

RunFollowsProposal ==
  \A k \in Runs :
    /\ \A r \in Revisions :
         proposal[k][r].status \notin {"absent", "superseded"} =>
           runState[k] = proposal[k][r].status /\ NewestOf(k, r)
    /\ runState[k] \in {"proposed", "approved", "rejected", "expired",
                        "executing", "succeeded"} =>
         \E r \in Revisions : proposal[k][r].status = runState[k]

(***************************************************************************)
(* A run is driven by one thread at a time: intake belongs to the thread   *)
(* whose INSERT won, execution to the thread whose claim won, and the run  *)
(* and the proposal stay in the state that thread last wrote, so that none *)
(* of its own conditional updates can lose.                                *)
(***************************************************************************)
ExpectedState(pc) ==
  CASE pc = "received" -> {"received"}
    [] pc \in {"investigating", "collected", "analyzed"} -> {"investigating"}
    [] pc \in {"assessed", "proposing"} -> {"assessed"}
    [] pc = "failing" -> {"received", "investigating", "assessed"}
    [] OTHER -> {"executing"}

Owns(w, k) ==
  worker[w].pc \in IntakePCs \cup HoldingPCs /\ worker[w].run = k

OwnershipIsExclusive ==
  \A w \in Workers, k \in Runs : Owns(w, k) =>
    /\ runState[k] \in ExpectedState(worker[w].pc)
    /\ worker[w].pc \in HoldingPCs =>
         proposal[k][worker[w].revision].status = "executing"
    /\ \A v \in Workers \ {w} : ~Owns(v, k)

(***************************************************************************)
(* However often execution is requested, retried after a crash or raced,   *)
(* the executor is called at most once for a run.                          *)
(***************************************************************************)
EffectAtMostOnce == \A k \in Runs : Len(effects[k]) <= 1

(***************************************************************************)
(* What the executor was asked to do is what a human approved: the digest  *)
(* of the option matches a recorded approval of that very revision, which  *)
(* is stored with a claimed or finished proposal of the run.               *)
(***************************************************************************)
EffectWasApproved ==
  \A k \in Runs : \A i \in DOMAIN effects[k] :
    LET digest == effects[k][i].digest
    IN  /\ \E j \in DOMAIN audit[k] :
             audit[k][j].event = "approve" /\ audit[k][j].digest = digest
        /\ \E r \in Revisions :
             /\ proposal[k][r].status \in {"executing", "succeeded", "failed"}
             /\ proposal[k][r].approved_hash = digest
             /\ digest = action_hash(r, proposal[k][r].option)

(***************************************************************************)
(* The recorded outcome can be trusted in one direction: a run is recorded *)
(* as succeeded only when its executor call returned success, and a run    *)
(* that was rejected or expired was never acted upon.  (A run recorded as  *)
(* failed may have had a successful call: the second finalization.)        *)
(***************************************************************************)
OutcomeMatchesEffect ==
  \A k \in Runs :
    /\ runState[k] = "succeeded" =>
         \E i \in DOMAIN effects[k] : effects[k][i].result = "succeeded"
    /\ effects[k] # <<>> => runState[k] \in {"executing", "succeeded", "failed"}

(***************************************************************************)
(* The audit trail replays: the state transitions logged for a run start   *)
(* at received, each continues where the one before ended, and the last    *)
(* one ends in the state the run has.                                      *)
(***************************************************************************)
MovesOf(log) == {j \in DOMAIN log : log[j].event = "state_transition"}

Replays(log, state) ==
  LET moves == MovesOf(log)
      IsFirst(j) == \A i \in moves : i >= j
      IsLast(j) == \A i \in moves : i <= j
      Adjacent(i, j) == i < j /\ \A m \in moves : m <= i \/ m >= j
  IN  /\ moves = {} => state \in {"absent", "received"}
      /\ \A j \in moves : /\ IsFirst(j) => log[j].from = "received"
                          /\ IsLast(j) => log[j].to = state
      /\ \A i, j \in moves : Adjacent(i, j) => log[i].to = log[j].from

AuditReplays == \A k \in Runs : Replays(audit[k], runState[k])

(***************************************************************************)
(* A run that has ended stays as it ended, with all of its proposals; late *)
(* decisions, claims, sweeps and failures of other threads do not reopen   *)
(* it.  Expired proposals are retained.                                    *)
(***************************************************************************)
TerminalIsForever ==
  [][\A k \in Runs : runState[k] \in Terminal =>
       runState'[k] = runState[k] /\ proposal'[k] = proposal[k]]_vars

(***************************************************************************)
(* Without faults of the database or of the process, an accepted event     *)
(* leaves intake, as a proposal or as a failed run, and a claimed run gets *)
(* an outcome.                                                             *)
(***************************************************************************)
IntakeSettles ==
  \A k \in Runs : runState[k] \in {"received", "investigating", "assessed"}
                    ~> runState[k] \in {"proposed", "approved", "rejected",
                         "expired", "executing", "succeeded", "failed"}

ExecutionSettles ==
  \A k \in Runs : runState[k] = "executing"
                    ~> runState[k] \in {"succeeded", "failed"}

(***************************************************************************)
(* docs/adr/003: the TTL is the execution-claim deadline.  Read against    *)
(* the clock at the moment of the claim, it is not met: the code compares  *)
(* the time it read before it waited for the transaction.                  *)
(***************************************************************************)
ClaimMeetsDeadline ==
  [][\A k \in Runs, r \in Revisions :
       /\ proposal[k][r].status = "approved"
       /\ proposal'[k][r].status = "executing"
       => clock < proposal[k][r].expires_at]_vars

(***************************************************************************)
(* The service implements the approval gate: an open or executing proposal *)
(* is the offer, the run's state gives the phase, and the executor's calls *)
(* are the acts.                                                           *)
(***************************************************************************)
PhaseOf(state) ==
  CASE state \in {"absent", "received", "investigating", "assessed"} -> "preparing"
    [] state = "proposed"  -> "offered"
    [] state = "approved"  -> "approved"
    [] state = "executing" -> "acting"
    [] OTHER               -> "closed"

OfferOf(k) ==
  {action_hash(r, proposal[k][r].option) : r \in
     {q \in Revisions : proposal[k][q].status
                          \in {"proposed", "approved", "executing"}}}

ActsOf(k) == [i \in DOMAIN effects[k] |-> effects[k][i].digest]

Gate == INSTANCE ApprovalGate WITH
          Offers <- Digests,
          phase  <- [k \in Runs |-> PhaseOf(runState[k])],
          offer  <- [k \in Runs |-> OfferOf(k)],
          acted  <- [k \in Runs |-> ActsOf(k)]

GateSpec == Gate!Spec

(***************************************************************************)
(* The inductive invariant: the properties above, with what they rest on.  *)
(***************************************************************************)
ApprovedStates == {"approved", "executing", "succeeded", "failed"}

RowsAreComplete ==
  \A k \in Runs, r \in Revisions :
    proposal[k][r].status # "absent" => proposal[k][r].option \in Options

EarlyRunsHaveNoProposal ==
  \A k \in Runs :
    runState[k] \in {"absent", "received", "investigating", "assessed"} =>
      \A r \in Revisions : proposal[k][r].status = "absent"

JobIsValid(w) ==
  LET me  == worker[w]
      row == proposal[me.run][me.revision]
  IN  /\ me.pc \notin {"idle", "expiring"} => me.run \in Runs
      /\ me.pc = "proposing" => me.option \in Options
      /\ me.pc \in {"deciding", "claiming"} \cup HoldingPCs =>
           row.status # "absent"
      /\ me.pc = "deciding" => me.decision \in Decisions /\ me.digest \in Digests
      /\ me.pc = "deciding" /\ me.decision = "revise" =>
           me.option \in Options /\ me.revision < MaxRevision
      /\ me.pc \in {"claiming"} \cup HoldingPCs =>
           me.digest = action_hash(me.revision, row.option)
      /\ me.pc = "finalizing" => me.result \in {"succeeded", "failed"}

ApprovalIsLogged(k, digest) ==
  \E j \in DOMAIN audit[k] :
    audit[k][j].event = "approve" /\ audit[k][j].digest = digest

ApprovalsAreBound ==
  \A k \in Runs, r \in Revisions :
    proposal[k][r].status \in ApprovedStates =>
      /\ proposal[k][r].approved_hash = action_hash(r, proposal[k][r].option)
      /\ ApprovalIsLogged(k, proposal[k][r].approved_hash)

EffectsFollowClaims ==
  \A k \in Runs :
    /\ Len(effects[k]) <= 1
    /\ effects[k] # <<>> => \E r \in Revisions :
         /\ proposal[k][r].status \in {"executing", "succeeded", "failed"}
         /\ effects[k][1].digest = action_hash(r, proposal[k][r].option)
    /\ runState[k] = "succeeded" =>
         effects[k] # <<>> /\ effects[k][1].result = "succeeded"
    /\ \A w \in Workers : worker[w].run = k =>
         /\ worker[w].pc \in {"claimed", "calling"} => effects[k] = <<>>
         /\ worker[w].pc = "finalizing" =>
              effects[k] # <<>> /\ effects[k][1].result = worker[w].result

IInv ==
  /\ TypeOK
  /\ RowsAreComplete
  /\ EarlyRunsHaveNoProposal
  /\ RunFollowsProposal
  /\ \A w \in Workers : JobIsValid(w)
  /\ OwnershipIsExclusive
  /\ ApprovalsAreBound
  /\ EffectsFollowClaims

===============================================================================
