------------------------ MODULE IncidentServiceTheorems ------------------------
(***************************************************************************)
(* What follows from the inductive invariant of IncidentServiceProofs: the *)
(* safety properties of the service, its action property, that its audit   *)
(* trails replay, and that it implements the approval gate, by itself and  *)
(* with the background task of the application.                            *)
(***************************************************************************)
EXTENDS IncidentServiceProofs, ExpirationLoop

LEMMA CallsAreSingle == IInv => EffectAtMostOnce
BY DEF IInv, EffectsFollowClaims, EffectAtMostOnce

(***************************************************************************)
(* However often execution is requested, raced or repeated after a crash   *)
(* or a locked database, the executor is called at most once for a run     *)
(* (service.py, _execute, and storage.py, claim_execution).                *)
(***************************************************************************)
THEOREM AtMostOneEffect == Spec => []EffectAtMostOnce
BY CallsAreSingle, InductiveInvariant, PTL

LEMMA ApprovalsPrecede == IInv => EffectWasApproved
<1>1. SUFFICES ASSUME IInv, NEW k \in Runs, NEW i \in DOMAIN effects[k]
               PROVE  LET digest == effects[k][i].digest
                      IN  /\ \E j \in DOMAIN audit[k] :
                               /\ audit[k][j].event = "approve"
                               /\ audit[k][j].digest = digest
                          /\ \E r \in Revisions :
                               /\ proposal[k][r].status
                                    \in {"executing", "succeeded", "failed"}
                               /\ proposal[k][r].approved_hash = digest
                               /\ digest = action_hash(r, proposal[k][r].option)
  BY DEF EffectWasApproved
<1>2. effects[k] \in Seq([digest : Digests, result : Results]) /\ Len(effects[k]) <= 1
  BY <1>1 DEF IInv, TypeOK, EffectsFollowClaims
<1>3. i = 1 /\ effects[k] # <<>>
  <2>1. DOMAIN effects[k] = 1..Len(effects[k]) /\ Len(effects[k]) \in Nat
    BY <1>2, LenProperties
  <2>2. i = 1
    BY <1>2, <2>1
  <2>3. DOMAIN effects[k] # {} /\ DOMAIN <<>> = {}
    BY EmptySeq
  <2>4. QED
    BY <2>2, <2>3
<1>4. PICK r \in Revisions :
        /\ proposal[k][r].status \in {"executing", "succeeded", "failed"}
        /\ effects[k][1].digest = action_hash(r, proposal[k][r].option)
  BY <1>1, <1>3 DEF IInv, EffectsFollowClaims
<1>5. /\ proposal[k][r].approved_hash = action_hash(r, proposal[k][r].option)
      /\ ApprovalIsLogged(k, proposal[k][r].approved_hash)
  BY <1>1, <1>4 DEF IInv, ApprovalsAreBound, ApprovedStates
<1>6. QED
  BY <1>3, <1>4, <1>5 DEF ApprovalIsLogged

(***************************************************************************)
(* What the executor was asked to do carries the digest of an approval on  *)
(* record, stored with the claimed proposal of that very revision.         *)
(***************************************************************************)
THEOREM OnlyApprovedEffects == Spec => []EffectWasApproved
BY ApprovalsPrecede, InductiveInvariant, PTL

(***************************************************************************)
(* A run carries the status of its newest proposal in every interleaving   *)
(* of the transactions of storage.py.                                      *)
(***************************************************************************)
THEOREM RunsFollowProposals == Spec => []RunFollowsProposal
<1>1. IInv => RunFollowsProposal
  BY DEF IInv
<1>2. QED
  BY <1>1, InductiveInvariant, PTL

(***************************************************************************)
(* A run in intake or in execution has one thread, and nobody else moves   *)
(* it.                                                                     *)
(***************************************************************************)
THEOREM ExclusiveOwnership == Spec => []OwnershipIsExclusive
<1>1. IInv => OwnershipIsExclusive
  BY DEF IInv
<1>2. QED
  BY <1>1, InductiveInvariant, PTL

LEMMA OutcomesMatch == IInv => OutcomeMatchesEffect
<1>1. SUFFICES ASSUME IInv, NEW k \in Runs
               PROVE  /\ runState[k] = "succeeded" =>
                           \E i \in DOMAIN effects[k] : effects[k][i].result = "succeeded"
                      /\ effects[k] # <<>> =>
                           runState[k] \in {"executing", "succeeded", "failed"}
  BY DEF OutcomeMatchesEffect
<1>2. effects[k] # <<>> => 1 \in DOMAIN effects[k]
  <2>1. effects[k] \in Seq([digest : Digests, result : Results])
    BY <1>1 DEF IInv, TypeOK
  <2>2. QED
    BY <2>1, EmptySeq, LenProperties
<1>3. runState[k] = "succeeded" =>
        effects[k] # <<>> /\ effects[k][1].result = "succeeded"
  BY <1>1 DEF IInv, EffectsFollowClaims
<1>4. effects[k] # <<>> => runState[k] \in {"executing", "succeeded", "failed"}
  BY <1>1, NoEffectBeforeClaim
<1>5. QED
  BY <1>2, <1>3, <1>4

(***************************************************************************)
(* A run recorded as succeeded had a successful call, and a run that was   *)
(* rejected or expired had none.                                           *)
(***************************************************************************)
THEOREM TrustedOutcome == Spec => []OutcomeMatchesEffect
BY OutcomesMatch, InductiveInvariant, PTL

-------------------------------------------------------------------------------
(* A run that has ended.                                                   *)

KeepsEnded ==
  \A k \in Runs : runState[k] \in Terminal =>
    runState'[k] = runState[k] /\ proposal'[k] = proposal[k]

(***************************************************************************)
(* A step that writes the rows of one run that has not ended.              *)
(***************************************************************************)
LEMMA OneRunKeepsEnded ==
  ASSUME NEW k \in Runs, runState[k] \notin Terminal,
         \A j \in Runs \ {k} :
           runState'[j] = runState[j] /\ proposal'[j] = proposal[j]
  PROVE  KeepsEnded
BY DEF KeepsEnded

LEMMA IntakeKeepsEnded ==
  ASSUME IInv, NEW w \in Workers, Intake(w)
  PROVE  KeepsEnded
<1>1. ASSUME NEW k \in Runs, NEW s \in RunStates \ Terminal, NEW t,
             transition_run(k, s, t)
      PROVE  KeepsEnded
  BY <1>1, OneRunKeepsEnded DEF transition_run, IInv, TypeOK, StoreTypeOK
<1>2. CASE AcceptEvent(w)
  <2>1. worker[w].run \in Runs
    BY <1>2, Owner DEF AcceptEvent, IntakePCs
  <2>2. "received" \in RunStates \ Terminal
    BY DEF RunStates, Terminal
  <2>3. QED
    BY <1>1, <1>2, <2>1, <2>2 DEF AcceptEvent
<1>3. CASE AssessRun(w)
  <2>1. worker[w].run \in Runs
    BY <1>3, Owner DEF AssessRun, IntakePCs
  <2>2. "investigating" \in RunStates \ Terminal
    BY DEF RunStates, Terminal
  <2>3. QED
    BY <1>1, <1>3, <2>1, <2>2 DEF AssessRun
<1>4. CASE CollectTelemetry(w) \/ Analyze(w)
  BY <1>4 DEF CollectTelemetry, Analyze, create_audit, KeepsEnded
<1>5. CASE (\E o \in Options : BuildProposal(w, o)) \/ IntakeRaises(w)
  BY <1>5 DEF BuildProposal, IntakeRaises, storeVars, KeepsEnded
<1>6. CASE CreateProposal(w)
  <2>1. worker[w].run \in Runs
    BY <1>6, Owner DEF CreateProposal, IntakePCs
  <2>2. QED
    BY <1>6, <2>1, OneRunKeepsEnded
    DEF CreateProposal, create_proposal_and_transition, Terminal, IInv, TypeOK, StoreTypeOK
<1>7. CASE FailRun(w)
  <2>1. worker[w].run \in Runs
    BY <1>7, Owner DEF FailRun, IntakePCs
  <2>2. CASE runState[worker[w].run] \in Terminal
    BY <1>7, <2>2 DEF FailRun, fail_run, storeVars, KeepsEnded
  <2>3. CASE runState[worker[w].run] \notin Terminal
    BY <1>7, <2>1, <2>3, OneRunKeepsEnded
    DEF FailRun, fail_run, IInv, TypeOK, StoreTypeOK
  <2>4. QED
    BY <2>2, <2>3
<1>8. QED
  BY <1>2, <1>3, <1>4, <1>5, <1>6, <1>7 DEF Intake

LEMMA ExpireLockedKeepsEnded ==
  ASSUME IInv, NEW k \in Runs, NEW r \in Revisions, expire_locked(k, r),
         runState[k] \in {"proposed", "approved"}
  PROVE  KeepsEnded
BY OneRunKeepsEnded DEF expire_locked, Terminal, IInv, TypeOK, StoreTypeOK

LEMMA DecideKeepsEnded ==
  ASSUME IInv, NEW w \in Workers, Decide(w)
  PROVE  KeepsEnded
<1>1. CASE DecisionConflicts(w)
  BY <1>1 DEF DecisionConflicts, storeVars, KeepsEnded
<1>2. CASE DecisionExpires(w)
  BY <1>2, Open, ExpireLockedKeepsEnded DEF DecisionExpires, Decidable, AwaitsDecision
<1>3. CASE DecisionRevises(w)
  <2>1. /\ worker[w].run \in Runs /\ runState[worker[w].run] = "proposed"
        /\ runState' = runState
    BY <1>3, Open DEF DecisionRevises, Decidable, AwaitsDecision, revise_proposal
  <2>2. \A j \in Runs \ {worker[w].run} : proposal'[j] = proposal[j]
    BY <1>3 DEF DecisionRevises, revise_proposal, IInv, TypeOK, StoreTypeOK
  <2>3. QED
    BY <2>1, <2>2, OneRunKeepsEnded DEF Terminal
<1>4. CASE DecisionSettles(w)
  <2>1. worker[w].run \in Runs /\ runState[worker[w].run] = "proposed"
    BY <1>4, Open DEF DecisionSettles, Decidable, AwaitsDecision
  <2>2. \A j \in Runs \ {worker[w].run} :
          runState'[j] = runState[j] /\ proposal'[j] = proposal[j]
    BY <1>4 DEF DecisionSettles, settle_proposal, IInv, TypeOK, StoreTypeOK
  <2>3. QED
    BY <2>1, <2>2, OneRunKeepsEnded DEF Terminal
<1>5. QED
  BY <1>1, <1>2, <1>3, <1>4 DEF Decide

LEMMA ExecuteKeepsEnded ==
  ASSUME IInv, NEW w \in Workers, Execute(w)
  PROVE  KeepsEnded
<1>1. CASE ClaimConflicts(w) \/ AuditToolCall(w)
           \/ \E result \in Results : RunExecutor(w, result)
  BY <1>1 DEF ClaimConflicts, AuditToolCall, create_audit, RunExecutor, storeVars, KeepsEnded
<1>2. CASE ClaimExpires(w)
  BY <1>2, Open, ExpireLockedKeepsEnded DEF ClaimExpires, Claimable
<1>3. CASE ClaimExecution(w)
  BY <1>3, Open, OneRunKeepsEnded
  DEF ClaimExecution, claim_execution, Claimable, Terminal, IInv, TypeOK, StoreTypeOK
<1>4. CASE Finalize(w) \/ FinalizeAsFailed(w)
  <2>1. worker[w].run \in Runs
    BY <1>4, Owner DEF Finalize, FinalizeAsFailed, HoldingPCs
  <2>2. QED
    BY <1>4, <2>1, OneRunKeepsEnded
    DEF Finalize, FinalizeAsFailed, finalize_execution, Terminal, IInv, TypeOK, StoreTypeOK
<1>5. QED
  BY <1>1, <1>2, <1>3, <1>4 DEF Execute

LEMMA SweepKeepsEnded ==
  ASSUME IInv, NEW now \in Nat, expire_due(now)
  PROVE  KeepsEnded
BY SweepOfRun DEF KeepsEnded, Swept, Terminal

(***************************************************************************)
(* A sweep that a thread was asked for is a sweep.                         *)
(***************************************************************************)
LEMMA ExpireDueSweeps ==
  ASSUME IInv, NEW w \in Workers, ExpireDue(w)
  PROVE  /\ worker[w].now \in Nat /\ expire_due(worker[w].now)
         /\ effects' = effects
BY DEF ExpireDue, IInv, TypeOK, WorkerStates

LEMMA OthersKeepEnded ==
  ASSUME IInv, NEW w \in Workers, Request(w) \/ Fault(w)
  PROVE  KeepsEnded
<1>1. CASE \E k \in Runs, p \in Payloads : StartEvent(w, k, p)
  BY <1>1, OneRunKeepsEnded
  DEF StartEvent, create_run, Terminal, IInv, TypeOK, StoreTypeOK
<1>2. CASE UNCHANGED storeVars
  BY <1>2 DEF storeVars, KeepsEnded
<1>3. QED
  BY <1>1, <1>2
  DEF Request, Fault, RequestDecision, RequestExecution, RequestExpiry,
      FinalizeRaises, HandlerRaises, Crash

LEMMA NextKeepsEnded ==
  ASSUME IInv, [Next]_vars
  PROVE  KeepsEnded
<1>1. CASE UNCHANGED vars \/ Tick
  BY <1>1 DEF vars, storeVars, Tick, KeepsEnded
<1>2. ASSUME NEW w \in Workers, Request(w) \/ Handle(w) \/ Fault(w)
      PROVE  KeepsEnded
  BY <1>2, OthersKeepEnded, IntakeKeepsEnded, DecideKeepsEnded,
     ExecuteKeepsEnded, ExpireDueSweeps, SweepKeepsEnded
  DEF Handle
<1>3. QED
  BY <1>1, <1>2 DEF Next

(***************************************************************************)
(* A run that has ended, and each of its proposals, stays as it ended.     *)
(***************************************************************************)
THEOREM EndedStaysEnded == Spec => TerminalIsForever
<1>1. IInv /\ [Next]_vars =>
        [\A k \in Runs : runState[k] \in Terminal =>
           runState'[k] = runState[k] /\ proposal'[k] = proposal[k]]_vars
  BY NextKeepsEnded DEF KeepsEnded
<1>2. QED
  BY <1>1, InductiveInvariant, PTL DEF Spec, TerminalIsForever

-------------------------------------------------------------------------------
(***************************************************************************)
(* A row appended to a trail: one that is no transition leaves the replay  *)
(* as it was, a transition that starts at the state of the run moves it.   *)
(***************************************************************************)
LEMMA Appended ==
  ASSUME NEW log \in Seq(AuditEntries), NEW e \in AuditEntries
  PROVE  LET longer == log \o <<e>>
             n      == Len(log) + 1
         IN  /\ longer \in Seq(AuditEntries)
             /\ DOMAIN longer = DOMAIN log \cup {n}
             /\ DOMAIN log = 1..Len(log) /\ Len(log) \in Nat
             /\ Len(longer) = n
             /\ longer[n] = e
             /\ \A i \in DOMAIN log : longer[i] = log[i]
<1>1. <<e>> \in Seq(AuditEntries) /\ Len(<<e>>) = 1 /\ <<e>>[1] = e
  OBVIOUS
<1>2. /\ log \o <<e>> \in Seq(AuditEntries)
      /\ Len(log \o <<e>>) = Len(log) + 1
      /\ \A i \in 1 .. Len(log) + 1 :
           (log \o <<e>>)[i] = IF i <= Len(log) THEN log[i] ELSE <<e>>[i - Len(log)]
  BY <1>1, ConcatProperties
<1>3. DOMAIN log = 1..Len(log) /\ Len(log) \in Nat
  BY LenProperties
<1>4. DOMAIN (log \o <<e>>) = 1 .. Len(log) + 1
  BY <1>2, LenProperties
<1>5. 1 .. Len(log) + 1 = (1 .. Len(log)) \cup {Len(log) + 1}
  BY <1>3
<1>6. (log \o <<e>>)[Len(log) + 1] = e
  BY <1>1, <1>2, <1>3
<1>7. \A i \in DOMAIN log : (log \o <<e>>)[i] = log[i]
  BY <1>2, <1>3
<1>8. QED
  BY <1>2, <1>3, <1>4, <1>5, <1>6, <1>7

LEMMA TwoAppended ==
  ASSUME NEW log \in Seq(AuditEntries), NEW e \in AuditEntries, NEW f \in AuditEntries
  PROVE  log \o <<e, f>> = (log \o <<e>>) \o <<f>>
<1> DEFINE first == <<e>>
           second == <<f>>
           both == <<e, f>>
<1>1. /\ first \in Seq(AuditEntries) /\ Len(first) = 1 /\ first[1] = e
      /\ second \in Seq(AuditEntries) /\ Len(second) = 1 /\ second[1] = f
      /\ both \in Seq(AuditEntries) /\ Len(both) = 2 /\ both[1] = e /\ both[2] = f
  OBVIOUS
<1> HIDE DEF first, second, both
<1>2. /\ first \o second \in Seq(AuditEntries)
      /\ Len(first \o second) = 2
      /\ \A i \in 1..2 : (first \o second)[i] = IF i <= 1 THEN first[i] ELSE second[i - 1]
  BY <1>1, ConcatProperties
<1>3. \A i \in 1..2 : (first \o second)[i] = both[i]
  BY <1>1, <1>2
<1>4. first \o second = both
  BY <1>1, <1>2, <1>3, SeqEqual
<1>5. (log \o first) \o second = log \o (first \o second)
  BY <1>1, ConcatAssociative
<1>6. QED
  BY <1>4, <1>5 DEF first, second, both

LEMMA NoteReplays ==
  ASSUME NEW log \in Seq(AuditEntries), NEW e \in AuditEntries,
         e.event # "state_transition"
  PROVE  /\ MovesOf(log \o <<e>>) = MovesOf(log)
         /\ \A s : Replays(log, s) => Replays(log \o <<e>>, s)
<1> DEFINE longer == log \o <<e>>
<1>1. /\ DOMAIN longer = DOMAIN log \cup {Len(log) + 1}
      /\ longer[Len(log) + 1] = e
      /\ \A i \in DOMAIN log : longer[i] = log[i]
      /\ Len(log) + 1 \notin DOMAIN log
  BY Appended
<1> HIDE DEF longer
<1>2. MovesOf(longer) = MovesOf(log)
  BY <1>1 DEF MovesOf
<1>3. \A i \in MovesOf(log) : longer[i] = log[i]
  BY <1>1 DEF MovesOf
<1>4. \A s : Replays(log, s) => Replays(longer, s)
  BY <1>2, <1>3 DEF Replays
<1>5. QED
  BY <1>2, <1>4 DEF longer

LEMMA MoveReplays ==
  ASSUME NEW log \in Seq(AuditEntries), NEW e \in AuditEntries,
         e.event = "state_transition", e.from # "absent", Replays(log, e.from)
  PROVE  Replays(log \o <<e>>, e.to)
<1> DEFINE longer == log \o <<e>>
           n == Len(log) + 1
<1>1. /\ DOMAIN longer = DOMAIN log \cup {n}
      /\ longer[n] = e
      /\ \A i \in DOMAIN log : longer[i] = log[i]
      /\ \A i \in DOMAIN log : i \in Nat /\ i < n
      /\ n \in Nat
  BY Appended
<1> HIDE DEF longer, n
<1>2. MovesOf(longer) = MovesOf(log) \cup {n}
  BY <1>1 DEF MovesOf
<1>3. \A i \in MovesOf(log) : longer[i] = log[i] /\ i \in Nat /\ i < n /\ ~(i >= n)
  BY <1>1 DEF MovesOf
<1>4. ASSUME NEW j \in MovesOf(longer)
      PROVE  /\ (\A i \in MovesOf(longer) : i >= j) => longer[j].from = "received"
             /\ (\A i \in MovesOf(longer) : i <= j) => longer[j].to = e.to
  <2>1. CASE j = n
    <3>1. (\A i \in MovesOf(longer) : i >= j) => MovesOf(log) = {}
      BY <1>2, <1>3, <2>1
    <3>2. MovesOf(log) = {} => e.from = "received"
      BY DEF Replays
    <3>3. QED
      BY <1>1, <2>1, <3>1, <3>2
  <2>2. CASE j # n
    <3>1. j \in MovesOf(log) /\ ~(n <= j) /\ longer[j] = log[j]
      BY <1>1, <1>2, <1>3, <2>2
    <3>2. (\A i \in MovesOf(log) : i >= j) => log[j].from = "received"
      BY <3>1 DEF Replays
    <3>3. QED
      BY <1>2, <3>1, <3>2
  <2>3. QED
    BY <2>1, <2>2
<1>5. ASSUME NEW i \in MovesOf(longer), NEW j \in MovesOf(longer), i < j,
             \A m \in MovesOf(longer) : m <= i \/ m >= j
      PROVE  longer[i].to = longer[j].from
  <2>1. i \in MovesOf(log) /\ longer[i] = log[i]
    BY <1>1, <1>2, <1>3, <1>5
  <2>2. CASE j = n
    <3>1. \A m \in MovesOf(log) : m <= i
      BY <1>2, <1>3, <1>5, <2>2
    <3>2. log[i].to = e.from
      BY <2>1, <3>1 DEF Replays
    <3>3. QED
      BY <1>1, <2>1, <2>2, <3>2
  <2>3. CASE j # n
    <3>1. j \in MovesOf(log) /\ longer[j] = log[j]
      BY <1>2, <1>3, <2>3
    <3>2. \A m \in MovesOf(log) : m <= i \/ m >= j
      BY <1>2, <1>5
    <3>3. QED
      BY <1>5, <2>1, <3>1, <3>2 DEF Replays
  <2>4. QED
    BY <2>2, <2>3
<1>6. MovesOf(longer) # {}
  BY <1>2
<1>7. Replays(longer, e.to)
  BY <1>4, <1>5, <1>6 DEF Replays
<1>8. QED
  BY <1>7 DEF longer

(***************************************************************************)
(* What one step of the service does to one run, as it is visible in the   *)
(* tables: nothing, a note in its trail, a revision, or a transition that  *)
(* is logged.  Every state of a run has the states that may follow it.     *)
(***************************************************************************)
Following(state) ==
  CASE state = "received"      -> {"investigating", "failed"}
    [] state = "investigating" -> {"assessed", "failed"}
    [] state = "assessed"      -> {"proposed", "failed"}
    [] state = "proposed"      -> {"approved", "rejected", "expired"}
    [] state = "approved"      -> {"executing", "expired"}
    [] state = "executing"     -> {"succeeded", "failed"}
    [] OTHER                   -> {}

OtherEvents == AuditEvents \ {"state_transition", "proposal_revised"}

OtherEntries == {e \in AuditEntries : e.event \in OtherEvents}

RunUntouched(k) ==
  /\ runState'[k] = runState[k]
  /\ proposal'[k] = proposal[k]
  /\ audit'[k] = audit[k]

RunNoted(k) ==
  /\ proposal'[k] = proposal[k]
  /\ \E e \in OtherEntries : audit'[k] = audit[k] \o <<e>>
  /\ \/ runState[k] = "absent" /\ runState'[k] = "received"
     \/ runState[k] # "absent" /\ runState'[k] = runState[k]

RunRevised(k) ==
  /\ runState[k] = "proposed" /\ runState'[k] = "proposed"
  /\ \E e \in AuditEntries :
       e.event = "proposal_revised" /\ audit'[k] = audit[k] \o <<e>>
  /\ \E r \in Revisions :
       /\ proposal[k][r].status = "proposed"
       /\ \A q \in Revisions \ {r + 1} :
            proposal[k][q].status = "absent" => proposal'[k][q].status = "absent"

RunMoved(k) ==
  /\ runState'[k] \in Following(runState[k])
  /\ LET move == Moved(runState[k], runState'[k])
     IN  \/ audit'[k] = audit[k] \o <<move>>
         \/ \E e \in OtherEntries : audit'[k] = audit[k] \o <<move, e>>
  /\ \A q \in Revisions :
       proposal[k][q].status = "absent" =>
         proposal'[k][q].status = "absent" \/ (q = 1 /\ runState'[k] = "proposed")
  /\ runState[k] = "executing" /\ runState'[k] = "failed" =>
       \E r \in Revisions : proposal'[k][r].status = "failed"

RunStep(k) == RunUntouched(k) \/ RunNoted(k) \/ RunRevised(k) \/ RunMoved(k)

LEMMA OtherEntriesAre ==
  /\ \A event \in OtherEvents : Noted(event) \in OtherEntries
  /\ \A decision \in {"approve", "reject"}, digest \in Digests :
       Decided(decision, digest) \in OtherEntries
<1>1. \A event \in OtherEvents :
        Noted(event) \in AuditEntries /\ Noted(event).event = event
  BY EntriesAreTyped DEF OtherEvents, Noted, Entry
<1>2. \A decision \in {"approve", "reject"}, digest \in Digests :
        /\ Decided(decision, digest) \in AuditEntries
        /\ Decided(decision, digest).event = decision
  BY EntriesAreTyped DEF Decided, Entry
<1>3. {"approve", "reject"} \subseteq OtherEvents
  BY DEF OtherEvents, AuditEvents
<1>4. QED
  BY <1>1, <1>2, <1>3 DEF OtherEntries

(***************************************************************************)
(* A step that writes the rows of one run leaves the others as they are.   *)
(***************************************************************************)
LEMMA OtherRunsUntouched ==
  ASSUME StoreTypeOK, NEW k \in Runs, NEW es, Log(k, es),
         \A j \in Runs \ {k} :
           runState'[j] = runState[j] /\ proposal'[j] = proposal[j]
  PROVE  \A j \in Runs \ {k} : RunUntouched(j)
BY DEF StoreTypeOK, Log, RunUntouched

LEMMA TablesUntouched ==
  ASSUME UNCHANGED storeVars
  PROVE  \A k \in Runs : RunStep(k)
BY DEF storeVars, RunStep, RunUntouched

LEMMA OneRunSteps ==
  ASSUME StoreTypeOK, NEW k \in Runs, NEW es, Log(k, es), RunStep(k),
         \A j \in Runs \ {k} :
           runState'[j] = runState[j] /\ proposal'[j] = proposal[j]
  PROVE  \A j \in Runs : RunStep(j)
BY OtherRunsUntouched DEF RunStep

LEMMA CreateAuditRunStep ==
  ASSUME StoreTypeOK, NEW k \in Runs, NEW event \in OtherEvents,
         create_audit(k, event), runState[k] # "absent"
  PROVE  \A j \in Runs : RunStep(j)
<1>1. RunNoted(k)
  BY OtherEntriesAre DEF create_audit, Log, RunNoted, StoreTypeOK
<1>2. QED
  BY <1>1, OneRunSteps DEF create_audit, RunStep

LEMMA TransitionRunStep ==
  ASSUME StoreTypeOK, NEW k \in Runs, NEW s \in RunStates \ {"executing"},
         NEW t \in Following(s), transition_run(k, s, t)
  PROVE  \A j \in Runs : RunStep(j)
<1>1. RunMoved(k)
  BY DEF transition_run, Log, RunMoved, StoreTypeOK
<1>2. QED
  BY <1>1, OneRunSteps DEF transition_run, RunStep, StoreTypeOK

LEMMA ExpireLockedRunStep ==
  ASSUME StoreTypeOK, NEW k \in Runs, NEW r \in Revisions, expire_locked(k, r),
         runState[k] \in {"proposed", "approved"},
         proposal[k][r].status # "absent"
  PROVE  \A j \in Runs : RunStep(j)
<1>1. Noted("proposal_expired") \in OtherEntries
  BY OtherEntriesAre DEF OtherEvents, AuditEvents
<1>2. runState'[k] = "expired" /\ "expired" \in Following(runState[k])
  BY DEF expire_locked, StoreTypeOK, Following
<1>3. audit'[k] = audit[k] \o <<Moved(runState[k], "expired"), Noted("proposal_expired")>>
  BY DEF expire_locked, Log, StoreTypeOK
<1>4. \A q \in Revisions :
        proposal[k][q].status = "absent" => proposal'[k][q].status = "absent"
  BY DEF expire_locked, StoreTypeOK
<1>5. RunMoved(k)
  BY <1>1, <1>2, <1>3, <1>4 DEF RunMoved
<1>6. QED
  BY <1>5, OneRunSteps DEF expire_locked, RunStep, StoreTypeOK

LEMMA StartEventRunStep ==
  ASSUME IInv, NEW w \in Workers, NEW k \in Runs, NEW p \in Payloads,
         StartEvent(w, k, p)
  PROVE  \A j \in Runs : RunStep(j)
<1>1. StoreTypeOK
  BY DEF IInv, TypeOK
<1>2. Noted("event_received") \in OtherEntries
  BY OtherEntriesAre DEF OtherEvents, AuditEvents
<1>3. RunNoted(k)
  BY <1>1, <1>2 DEF StartEvent, create_run, Log, RunNoted, StoreTypeOK
<1>4. QED
  BY <1>1, <1>3, OneRunSteps DEF StartEvent, create_run, RunStep, StoreTypeOK

LEMMA FailRunRunStep ==
  ASSUME IInv, NEW w \in Workers, FailRun(w)
  PROVE  \A j \in Runs : RunStep(j)
<1> DEFINE k == worker[w].run
<1>1. StoreTypeOK
  BY DEF IInv, TypeOK
<1>2. k \in Runs /\ runState[k] \in {"received", "investigating", "assessed"}
  BY Owner DEF FailRun, IntakePCs, ExpectedState
<1>3. Noted("run_failed") \in OtherEntries
  BY OtherEntriesAre DEF OtherEvents, AuditEvents
<1>4. /\ runState' = [runState EXCEPT ![k] = "failed"]
      /\ Log(k, <<Moved(runState[k], "failed"), Noted("run_failed")>>)
      /\ proposal' = proposal
  BY <1>2 DEF FailRun, fail_run, Terminal
<1>5. "failed" \in Following(runState[k])
  BY <1>2 DEF Following
<1>6. RunMoved(k)
  BY <1>1, <1>2, <1>3, <1>4, <1>5 DEF RunMoved, Log, StoreTypeOK
<1>7. QED
  BY <1>1, <1>2, <1>4, <1>6, OneRunSteps DEF RunStep, StoreTypeOK

LEMMA CreateProposalRunStep ==
  ASSUME IInv, NEW w \in Workers, CreateProposal(w)
  PROVE  \A j \in Runs : RunStep(j)
<1> DEFINE k == worker[w].run
           row == NewRow(worker[w].option, worker[w].now + TTL)
<1>1. StoreTypeOK /\ k \in Runs
  BY Owner DEF IInv, TypeOK, CreateProposal, IntakePCs
<1>2. Noted("proposal_created") \in OtherEntries
  BY OtherEntriesAre DEF OtherEvents, AuditEvents
<1>3. create_proposal_and_transition(k, row)
  BY DEF CreateProposal
<1>4. "proposed" \in Following("assessed")
  BY DEF Following
<1>5. \A q \in Revisions \ {1} : proposal'[k][q] = proposal[k][q]
  BY <1>1, <1>3 DEF create_proposal_and_transition, StoreTypeOK
<1>6. RunMoved(k)
  BY <1>1, <1>2, <1>3, <1>4, <1>5
  DEF create_proposal_and_transition, RunMoved, Log, StoreTypeOK
<1>7. QED
  BY <1>1, <1>3, <1>6, OneRunSteps
  DEF create_proposal_and_transition, RunStep, StoreTypeOK

LEMMA IntakeRunStep ==
  ASSUME IInv, NEW w \in Workers, Intake(w)
  PROVE  \A j \in Runs : RunStep(j)
<1>1. StoreTypeOK
  BY DEF IInv, TypeOK
<1>2. CASE AcceptEvent(w)
  <2>1. worker[w].run \in Runs
    BY <1>2, Owner DEF AcceptEvent, IntakePCs
  <2>2. "received" \in RunStates \ {"executing"}
        /\ "investigating" \in Following("received")
    BY DEF RunStates, Following
  <2>3. QED
    BY <1>1, <1>2, <2>1, <2>2, TransitionRunStep DEF AcceptEvent
<1>3. CASE AssessRun(w)
  <2>1. worker[w].run \in Runs
    BY <1>3, Owner DEF AssessRun, IntakePCs
  <2>2. "investigating" \in RunStates \ {"executing"}
        /\ "assessed" \in Following("investigating")
    BY DEF RunStates, Following
  <2>3. QED
    BY <1>1, <1>3, <2>1, <2>2, TransitionRunStep DEF AssessRun
<1>4. CASE CollectTelemetry(w) \/ Analyze(w)
  <2>1. worker[w].run \in Runs /\ runState[worker[w].run] # "absent"
    BY <1>4, Owner DEF CollectTelemetry, Analyze, IntakePCs, ExpectedState
  <2>2. {"telemetry_collected", "model_completed"} \subseteq OtherEvents
    BY DEF OtherEvents, AuditEvents
  <2>3. QED
    BY <1>1, <1>4, <2>1, <2>2, CreateAuditRunStep DEF CollectTelemetry, Analyze
<1>5. CASE (\E o \in Options : BuildProposal(w, o)) \/ IntakeRaises(w)
  BY <1>5, TablesUntouched DEF BuildProposal, IntakeRaises
<1>6. QED
  BY <1>2, <1>3, <1>4, <1>5, CreateProposalRunStep, FailRunRunStep DEF Intake

LEMMA DecisionRevisesRunStep ==
  ASSUME IInv, NEW w \in Workers, DecisionRevises(w)
  PROVE  \A j \in Runs : RunStep(j)
<1> DEFINE k == worker[w].run
           r == worker[w].revision
           row == NewRow(worker[w].option, worker[w].now + TTL)
<1>1. StoreTypeOK
  BY DEF IInv, TypeOK
<1>2. /\ k \in Runs /\ r \in Revisions
      /\ runState[k] = "proposed" /\ proposal[k][r].status = "proposed"
  BY Open DEF DecisionRevises, Decidable, AwaitsDecision
<1>3. revise_proposal(k, r, row)
  BY DEF DecisionRevises
<1>4. Noted("proposal_revised") \in AuditEntries
  BY EntriesAreTyped DEF AuditEvents
<1>5. Noted("proposal_revised").event = "proposal_revised"
  BY DEF Noted, Entry
<1>6. \A q \in Revisions \ {r + 1} :
        proposal[k][q].status = "absent" => proposal'[k][q].status = "absent"
  BY <1>1, <1>2, <1>3 DEF revise_proposal, StoreTypeOK
<1>7. /\ runState'[k] = "proposed"
      /\ audit'[k] = audit[k] \o <<Noted("proposal_revised")>>
      /\ \A j \in Runs \ {k} :
           runState'[j] = runState[j] /\ proposal'[j] = proposal[j]
  BY <1>1, <1>2, <1>3 DEF revise_proposal, Log, StoreTypeOK
<1>8. RunRevised(k)
  BY <1>2, <1>4, <1>5, <1>6, <1>7 DEF RunRevised
<1>9. Log(k, <<Noted("proposal_revised")>>)
  BY <1>3 DEF revise_proposal
<1>10. QED
  BY <1>1, <1>2, <1>7, <1>8, <1>9, OneRunSteps DEF RunStep

LEMMA DecisionSettlesRunStep ==
  ASSUME IInv, NEW w \in Workers, DecisionSettles(w)
  PROVE  \A j \in Runs : RunStep(j)
<1> DEFINE k == worker[w].run
           r == worker[w].revision
           decision == worker[w].decision
           digest == worker[w].digest
           state == IF decision = "approve" THEN "approved" ELSE "rejected"
           es == <<Moved("proposed", state), Decided(decision, digest)>>
<1>1. StoreTypeOK
  BY DEF IInv, TypeOK
<1>2. /\ k \in Runs /\ r \in Revisions
      /\ runState[k] = "proposed" /\ proposal[k][r].status = "proposed"
  BY Open DEF DecisionSettles, Decidable, AwaitsDecision
<1>3. settle_proposal(k, r, decision, digest)
  BY DEF DecisionSettles
<1>4. Decided(decision, digest) \in OtherEntries
  <2>1. decision \in {"approve", "reject"} /\ digest \in Digests
    BY DEF DecisionSettles, IInv, JobIsValid
  <2>2. QED
    BY <2>1, OtherEntriesAre
<1>5. /\ runState' = [runState EXCEPT ![k] = state]
      /\ Log(k, es)
      /\ \A j \in Runs \ {k} : proposal'[j] = proposal[j]
      /\ \A q \in Revisions \ {r} : proposal'[k][q] = proposal[k][q]
  BY <1>1, <1>2, <1>3 DEF settle_proposal, StoreTypeOK
<1>6. runState'[k] = state /\ state \in Following("proposed")
  BY <1>1, <1>2, <1>5 DEF Following, StoreTypeOK
<1>7. audit'[k] = audit[k] \o <<Moved("proposed", state), Decided(decision, digest)>>
  BY <1>1, <1>2, <1>5 DEF Log, StoreTypeOK
<1>8. \A q \in Revisions :
        proposal[k][q].status = "absent" => proposal'[k][q].status = "absent"
  BY <1>2, <1>5
<1>9. RunMoved(k)
  BY <1>2, <1>4, <1>6, <1>7, <1>8 DEF RunMoved
<1>10. \A j \in Runs \ {k} : runState'[j] = runState[j]
  BY <1>1, <1>5 DEF StoreTypeOK
<1>11. QED
  BY <1>1, <1>2, <1>5, <1>9, <1>10, OneRunSteps DEF RunStep

LEMMA DecideRunStep ==
  ASSUME IInv, NEW w \in Workers, Decide(w)
  PROVE  \A j \in Runs : RunStep(j)
<1>1. StoreTypeOK
  BY DEF IInv, TypeOK
<1>2. CASE DecisionConflicts(w)
  BY <1>2, TablesUntouched DEF DecisionConflicts
<1>3. CASE DecisionExpires(w)
  BY <1>1, <1>3, Open, ExpireLockedRunStep
  DEF DecisionExpires, Decidable, AwaitsDecision
<1>4. QED
  BY <1>2, <1>3, DecisionRevisesRunStep, DecisionSettlesRunStep DEF Decide

LEMMA ClaimExecutionRunStep ==
  ASSUME IInv, NEW w \in Workers, ClaimExecution(w)
  PROVE  \A j \in Runs : RunStep(j)
<1> DEFINE k == worker[w].run
           r == worker[w].revision
<1>1. StoreTypeOK
  BY DEF IInv, TypeOK
<1>2. /\ k \in Runs /\ r \in Revisions
      /\ runState[k] = "approved" /\ proposal[k][r].status = "approved"
      /\ claim_execution(k, r)
  BY Open DEF ClaimExecution, Claimable
<1>3. RunMoved(k)
  <2>1. /\ runState'[k] = "executing" /\ "executing" \in Following("approved")
        /\ audit'[k] = audit[k] \o <<Moved("approved", "executing")>>
    BY <1>1, <1>2 DEF claim_execution, Log, StoreTypeOK, Following
  <2>2. \A q \in Revisions :
          proposal[k][q].status = "absent" => proposal'[k][q].status = "absent"
    BY <1>1, <1>2 DEF claim_execution, StoreTypeOK
  <2>3. QED
    BY <1>2, <2>1, <2>2 DEF RunMoved
<1>4. QED
  BY <1>1, <1>2, <1>3, OneRunSteps DEF claim_execution, RunStep, StoreTypeOK

LEMMA FinalizeRunStep ==
  ASSUME IInv, NEW w \in Workers, Finalize(w) \/ FinalizeAsFailed(w)
  PROVE  \A j \in Runs : RunStep(j)
<1> DEFINE k == worker[w].run
           r == worker[w].revision
<1>1. StoreTypeOK
  BY DEF IInv, TypeOK
<1>2. k \in Runs /\ r \in Revisions
  BY Owner DEF Finalize, FinalizeAsFailed, HoldingPCs, IInv, TypeOK, WorkerStates
<1>3. PICK final \in {"succeeded", "failed"} : finalize_execution(k, r, final)
  BY DEF Finalize, FinalizeAsFailed, IInv, JobIsValid
<1>4. Noted("execution_result") \in OtherEntries
  BY OtherEntriesAre DEF OtherEvents, AuditEvents
<1>5. RunMoved(k)
  <2>1. /\ runState[k] = "executing" /\ runState'[k] = final
        /\ final \in Following("executing")
        /\ audit'[k] = audit[k] \o <<Moved("executing", final), Noted("execution_result")>>
    BY <1>1, <1>2, <1>3 DEF finalize_execution, Log, StoreTypeOK, Following
  <2>2. \A q \in Revisions :
          proposal[k][q].status = "absent" => proposal'[k][q].status = "absent"
    BY <1>1, <1>2, <1>3 DEF finalize_execution, StoreTypeOK
  <2>3. proposal'[k][r].status = final
    <3>1. proposal[k][r] \in ProposalRows
      BY <1>1, <1>2 DEF StoreTypeOK
    <3>2. proposal'[k][r] = WithStatus(proposal[k][r], final)
      BY <1>1, <1>2, <1>3 DEF finalize_execution, StoreTypeOK
    <3>3. QED
      BY <3>1, <3>2 DEF WithStatus, ProposalRows
  <2>4. QED
    BY <1>2, <1>4, <2>1, <2>2, <2>3 DEF RunMoved
<1>6. QED
  BY <1>1, <1>2, <1>3, <1>5, OneRunSteps DEF finalize_execution, RunStep, StoreTypeOK

LEMMA ExecuteRunStep ==
  ASSUME IInv, NEW w \in Workers, Execute(w)
  PROVE  \A j \in Runs : RunStep(j)
<1>1. StoreTypeOK
  BY DEF IInv, TypeOK
<1>2. CASE ClaimConflicts(w) \/ \E result \in Results : RunExecutor(w, result)
  BY <1>2, TablesUntouched DEF ClaimConflicts, RunExecutor
<1>3. CASE ClaimExpires(w)
  BY <1>1, <1>3, Open, ExpireLockedRunStep DEF ClaimExpires, Claimable
<1>4. CASE AuditToolCall(w)
  <2>1. worker[w].run \in Runs /\ runState[worker[w].run] # "absent"
    BY <1>4, Owner DEF AuditToolCall, HoldingPCs, ExpectedState
  <2>2. "tool_call" \in OtherEvents
    BY DEF OtherEvents, AuditEvents
  <2>3. QED
    BY <1>1, <1>4, <2>1, <2>2, CreateAuditRunStep DEF AuditToolCall
<1>5. QED
  BY <1>2, <1>3, <1>4, ClaimExecutionRunStep, FinalizeRunStep DEF Execute

LEMMA SweepRunStep ==
  ASSUME IInv, NEW now \in Nat, expire_due(now)
  PROVE  \A j \in Runs : RunStep(j)
<1>1. now \in Nat /\ expire_due(now)
  OBVIOUS
<1>2. SUFFICES ASSUME NEW k \in Runs
               PROVE  RunStep(k)
  OBVIOUS
<1>3. CASE \E r \in Revisions : Due(k, r, now)
  <2>1. /\ runState[k] \in {"proposed", "approved"}
        /\ runState'[k] = "expired"
        /\ audit'[k] = audit[k] \o <<Moved(runState[k], "expired"),
                                     Noted("proposal_expired")>>
    BY <1>1, <1>3 DEF expire_due, Due
  <2>2. Noted("proposal_expired") \in OtherEntries
    BY OtherEntriesAre DEF OtherEvents, AuditEvents
  <2>3. "expired" \in Following(runState[k])
    BY <2>1 DEF Following
  <2>4. \A q \in Revisions :
          proposal[k][q].status = "absent" => proposal'[k][q].status = "absent"
    BY <1>1 DEF expire_due, FirstDue, Due
  <2>5. QED
    BY <2>1, <2>2, <2>3, <2>4 DEF RunMoved, RunStep
<1>4. CASE ~ \E r \in Revisions : Due(k, r, now)
  <2>1. runState'[k] = runState[k] /\ audit'[k] = audit[k]
    BY <1>1, <1>4 DEF expire_due
  <2>2. proposal'[k] = proposal[k]
    <3>1. SUFFICES runState[k] # "expired" \/ proposal'[k] = proposal[k]
      BY <1>1, <2>1, SweepOfRun DEF Swept
    <3>2. QED
      BY <1>1, <1>4, <2>1, SweepOfRun DEF Swept
  <2>3. QED
    BY <2>1, <2>2 DEF RunUntouched, RunStep
<1>5. QED
  BY <1>3, <1>4

(***************************************************************************)
(* Every step of the service, whatever it is of a run, is one of these.    *)
(***************************************************************************)
LEMMA NextRunStep ==
  ASSUME IInv, [Next]_vars
  PROVE  \A k \in Runs : RunStep(k)
<1>1. CASE UNCHANGED vars \/ Tick
  BY <1>1, TablesUntouched DEF vars, Tick
<1>2. ASSUME NEW w \in Workers, Request(w) \/ Fault(w)
      PROVE  \A k \in Runs : RunStep(k)
  BY <1>2, TablesUntouched, StartEventRunStep
  DEF Request, Fault, RequestDecision, RequestExecution, RequestExpiry,
      FinalizeRaises, HandlerRaises, Crash
<1>3. ASSUME NEW w \in Workers, Handle(w)
      PROVE  \A k \in Runs : RunStep(k)
  BY <1>3, IntakeRunStep, DecideRunStep, ExecuteRunStep, ExpireDueSweeps, SweepRunStep
  DEF Handle
<1>4. QED
  BY <1>1, <1>2, <1>3 DEF Next

(***************************************************************************)
(* A run that was never accepted has no transition on record, which makes  *)
(* the replay of every trail an invariant of the steps.                    *)
(***************************************************************************)
TrailInv ==
  \A k \in Runs :
    /\ Replays(audit[k], runState[k])
    /\ runState[k] = "absent" => MovesOf(audit[k]) = {}

LEMMA TrailStep ==
  ASSUME IInv, TypeOK', TrailInv, NEW k \in Runs, RunStep(k)
  PROVE  /\ Replays(audit'[k], runState'[k])
         /\ runState'[k] = "absent" => MovesOf(audit'[k]) = {}
<1>1. /\ audit[k] \in Seq(AuditEntries)
      /\ runState[k] \in RunStates /\ runState'[k] \in RunStates
      /\ Replays(audit[k], runState[k])
      /\ runState[k] = "absent" => MovesOf(audit[k]) = {}
  BY DEF IInv, TypeOK, StoreTypeOK, TrailInv
<1>2. CASE RunUntouched(k)
  BY <1>1, <1>2 DEF RunUntouched
<1>3. CASE RunNoted(k)
  <2>1. PICK e \in AuditEntries : /\ e.event # "state_transition"
                                  /\ audit'[k] = audit[k] \o <<e>>
    BY <1>3 DEF RunNoted, OtherEntries, OtherEvents
  <2>2. MovesOf(audit'[k]) = MovesOf(audit[k])
    BY <1>1, <2>1, NoteReplays
  <2>3. Replays(audit'[k], runState[k])
    BY <1>1, <2>1, NoteReplays
  <2>4. CASE runState[k] = "absent" /\ runState'[k] = "received"
    BY <1>1, <2>2, <2>4 DEF Replays
  <2>5. QED
    BY <1>1, <1>3, <2>2, <2>3, <2>4 DEF RunNoted
<1>4. CASE RunRevised(k)
  <2>1. PICK e \in AuditEntries : /\ e.event # "state_transition"
                                  /\ audit'[k] = audit[k] \o <<e>>
    BY <1>4 DEF RunRevised
  <2>2. QED
    BY <1>1, <1>4, <2>1, NoteReplays DEF RunRevised
<1>5. CASE RunMoved(k)
  <2> DEFINE move == Moved(runState[k], runState'[k])
             log == audit[k] \o <<move>>
  <2>1. /\ move \in AuditEntries /\ move.event = "state_transition"
        /\ move.from = runState[k] /\ move.to = runState'[k]
    BY <1>1, EntriesAreTyped DEF Moved, Entry
  <2>2. runState[k] # "absent" /\ runState'[k] # "absent"
    BY <1>5 DEF RunMoved, Following
  <2>3. log \in Seq(AuditEntries) /\ Replays(log, runState'[k])
    BY <1>1, <2>1, <2>2, MoveReplays, Appended
  <2>4. CASE audit'[k] = log
    BY <2>2, <2>3, <2>4
  <2>5. ASSUME NEW e \in OtherEntries, audit'[k] = audit[k] \o <<move, e>>
        PROVE  Replays(audit'[k], runState'[k])
    <3>1. e \in AuditEntries /\ e.event # "state_transition"
      BY DEF OtherEntries, OtherEvents
    <3>2. audit[k] \o <<move, e>> = log \o <<e>>
      BY <1>1, <2>1, <3>1, TwoAppended
    <3>3. QED
      BY <2>3, <2>5, <3>1, <3>2, NoteReplays
  <2>6. QED
    BY <1>5, <2>2, <2>4, <2>5 DEF RunMoved
<1>6. QED
  BY <1>2, <1>3, <1>4, <1>5 DEF RunStep

LEMMA InitTrailInv == Init => TrailInv
<1>1. MovesOf(<<>>) = {}
  BY EmptySeq DEF MovesOf
<1>2. \A state \in {"absent", "received"} : Replays(<<>>, state)
  BY <1>1 DEF Replays
<1>3. QED
  BY <1>1, <1>2 DEF Init, StoreInit, TrailInv

(***************************************************************************)
(* The audit trail of every run replays to the state the run has, whichever*)
(* threads wrote it (storage.py, the audit inserts of each transaction).   *)
(***************************************************************************)
THEOREM TrailsReplay == Spec => []AuditReplays
<1>1. Init => TrailInv
  BY InitTrailInv
<1>2. IInv /\ IInv' /\ TrailInv /\ [Next]_vars => TrailInv'
  BY NextRunStep, TrailStep DEF IInv, TrailInv
<1>3. TrailInv => AuditReplays
  BY DEF TrailInv, AuditReplays
<1>4. QED
  BY <1>1, <1>2, <1>3, InductiveInvariant, PTL DEF Spec

-------------------------------------------------------------------------------
(* The approval gate.                                                      *)

Open3 == {"proposed", "approved", "executing"}

(***************************************************************************)
(* The offer of a run is the digest of its open proposal, if it has one.   *)
(***************************************************************************)
OfferView ==
  \A k \in Runs :
    /\ \A r \in Revisions : proposal[k][r].status \in Open3 =>
         OfferOf(k) = {action_hash(r, proposal[k][r].option)}
    /\ runState[k] \notin Open3 => OfferOf(k) = {}

LEMMA OfferViewHolds == IInv => OfferView
<1>1. SUFFICES ASSUME IInv, NEW k \in Runs
               PROVE  /\ \A r \in Revisions : proposal[k][r].status \in Open3 =>
                           OfferOf(k) = {action_hash(r, proposal[k][r].option)}
                      /\ runState[k] \notin Open3 => OfferOf(k) = {}
  BY DEF OfferView
<1>2. ASSUME NEW r \in Revisions, proposal[k][r].status \in Open3
      PROVE  OfferOf(k) = {action_hash(r, proposal[k][r].option)}
  <2>1. \A q \in Revisions \ {r} : proposal[k][q].status \in {"absent", "superseded"}
    BY <1>1, <1>2, StoreAssumption
    DEF Open3, IInv, RunFollowsProposal, NewestOf, Revisions
  <2>2. {q \in Revisions : proposal[k][q].status
                             \in {"proposed", "approved", "executing"}} = {r}
    BY <1>2, <2>1 DEF Open3
  <2>3. QED
    BY <2>2 DEF OfferOf
<1>3. runState[k] \notin Open3 => OfferOf(k) = {}
  <2>1. ASSUME runState[k] \notin Open3, NEW r \in Revisions
        PROVE  proposal[k][r].status \notin {"proposed", "approved", "executing"}
    BY <1>1, <2>1 DEF Open3, IInv, RunFollowsProposal
  <2>2. QED
    BY <2>1 DEF OfferOf
<1>4. QED
  BY <1>2, <1>3

(***************************************************************************)
(* What a step leaves of the offers and the acts of a run.                 *)
(***************************************************************************)
LEMMA OfferKept ==
  ASSUME NEW k \in Runs, proposal'[k] = proposal[k]
  PROVE  OfferOf(k)' = OfferOf(k)
BY DEF OfferOf

LEMMA ActsKept ==
  ASSUME effects' = effects
  PROVE  \A k \in Runs : ActsOf(k)' = ActsOf(k)
BY DEF ActsOf

(***************************************************************************)
(* The steps of the gate, run by run.                                      *)
(***************************************************************************)
GateStep == Gate!Next \/ UNCHANGED Gate!gateVars

LEMMA GateStutters ==
  ASSUME \A k \in Runs : PhaseOf(runState'[k]) = PhaseOf(runState[k]),
         \A k \in Runs : OfferOf(k)' = OfferOf(k),
         \A k \in Runs : ActsOf(k)' = ActsOf(k)
  PROVE  GateStep
BY DEF GateStep, Gate!gateVars, PhaseOf

LEMMA GateOffers ==
  ASSUME NEW k \in Runs, NEW d \in Digests,
         PhaseOf(runState[k]) \in {"preparing", "offered"},
         PhaseOf(runState'[k]) = "offered", OfferOf(k)' = {d},
         \A j \in Runs \ {k} : PhaseOf(runState'[j]) = PhaseOf(runState[j]),
         \A j \in Runs \ {k} : OfferOf(j)' = OfferOf(j),
         \A j \in Runs : ActsOf(j)' = ActsOf(j)
  PROVE  GateStep
<1>1. Gate!Offer(k, d)
  BY DEF Gate!Offer, PhaseOf
<1>2. QED
  BY <1>1 DEF GateStep, Gate!Next

LEMMA GateApproves ==
  ASSUME NEW k \in Runs,
         PhaseOf(runState[k]) = "offered", PhaseOf(runState'[k]) = "approved",
         \A j \in Runs \ {k} : PhaseOf(runState'[j]) = PhaseOf(runState[j]),
         \A j \in Runs : OfferOf(j)' = OfferOf(j),
         \A j \in Runs : ActsOf(j)' = ActsOf(j)
  PROVE  GateStep
<1>1. Gate!Approve(k)
  BY DEF Gate!Approve, PhaseOf
<1>2. QED
  BY <1>1 DEF GateStep, Gate!Next

LEMMA GateBegins ==
  ASSUME NEW k \in Runs,
         PhaseOf(runState[k]) = "approved", PhaseOf(runState'[k]) = "acting",
         \A j \in Runs \ {k} : PhaseOf(runState'[j]) = PhaseOf(runState[j]),
         \A j \in Runs : OfferOf(j)' = OfferOf(j),
         \A j \in Runs : ActsOf(j)' = ActsOf(j)
  PROVE  GateStep
<1>1. Gate!Begin(k)
  BY DEF Gate!Begin, PhaseOf
<1>2. QED
  BY <1>1 DEF GateStep, Gate!Next

LEMMA GateActs ==
  ASSUME NEW k \in Runs, NEW d \in OfferOf(k),
         PhaseOf(runState[k]) = "acting", ActsOf(k) = <<>>, ActsOf(k)' = <<d>>,
         \A j \in Runs : PhaseOf(runState'[j]) = PhaseOf(runState[j]),
         \A j \in Runs : OfferOf(j)' = OfferOf(j),
         \A j \in Runs \ {k} : ActsOf(j)' = ActsOf(j)
  PROVE  GateStep
<1>1. Gate!Act(k)
  BY DEF Gate!Act, PhaseOf
<1>2. QED
  BY <1>1 DEF GateStep, Gate!Next

LEMMA GateCloses ==
  ASSUME NEW K \in SUBSET Runs,
         \A k \in K : PhaseOf(runState[k]) # "closed",
         \A k \in K : PhaseOf(runState'[k]) = "closed" /\ OfferOf(k)' = {},
         \A k \in Runs \ K : PhaseOf(runState'[k]) = PhaseOf(runState[k]),
         \A k \in Runs \ K : OfferOf(k)' = OfferOf(k),
         \A k \in Runs : ActsOf(k)' = ActsOf(k)
  PROVE  GateStep
<1>1. Gate!Close(K)
  BY DEF Gate!Close, PhaseOf
<1>2. QED
  BY <1>1 DEF GateStep, Gate!Next

-------------------------------------------------------------------------------
(* Which step of the gate each action is.                                  *)

LEMMA QuietStutters ==
  ASSUME UNCHANGED <<runState, proposal, effects>>
  PROVE  GateStep
<1>1. \A k \in Runs : OfferOf(k)' = OfferOf(k) /\ ActsOf(k)' = ActsOf(k)
  BY OfferKept, ActsKept
<1>2. QED
  BY <1>1, GateStutters

(***************************************************************************)
(* A run that moves within intake stays in preparation.                    *)
(***************************************************************************)
LEMMA EarlyStutters ==
  ASSUME IInv, NEW k \in Runs, UNCHANGED <<proposal, effects>>,
         NEW t \in {"received", "investigating", "assessed"},
         runState[k] \in {"absent", "received", "investigating"},
         runState' = [runState EXCEPT ![k] = t]
  PROVE  GateStep
<1>1. /\ runState'[k] = t
      /\ \A j \in Runs \ {k} : runState'[j] = runState[j]
  BY DEF IInv, TypeOK, StoreTypeOK
<1>2. \A j \in Runs : PhaseOf(runState'[j]) = PhaseOf(runState[j])
  BY <1>1 DEF PhaseOf
<1>3. \A j \in Runs : OfferOf(j)' = OfferOf(j) /\ ActsOf(j)' = ActsOf(j)
  BY OfferKept, ActsKept
<1>4. QED
  BY <1>2, <1>3, GateStutters

(***************************************************************************)
(* A run that ends closes.                                                 *)
(***************************************************************************)
LEMMA EndCloses ==
  ASSUME OfferView', NEW k \in Runs, effects' = effects,
         runState[k] \in RunStates \ Terminal, runState'[k] \in Terminal,
         \A j \in Runs \ {k} :
           runState'[j] = runState[j] /\ proposal'[j] = proposal[j]
  PROVE  GateStep
<1>1. OfferOf(k)' = {}
  BY DEF OfferView, Open3, Terminal
<1>2. PhaseOf(runState[k]) # "closed" /\ PhaseOf(runState'[k]) = "closed"
  BY DEF PhaseOf, RunStates, Terminal
<1>3. \A j \in Runs \ {k} : /\ PhaseOf(runState'[j]) = PhaseOf(runState[j])
                            /\ OfferOf(j)' = OfferOf(j)
  BY OfferKept
<1>4. \A j \in Runs : ActsOf(j)' = ActsOf(j)
  BY ActsKept
<1> DEFINE K == {k}
<1>5. /\ K \in SUBSET Runs
      /\ \A j \in K : j = k
      /\ \A j \in Runs \ K : j \in Runs \ {k}
  OBVIOUS
<1> HIDE DEF K
<1>6. QED
  BY <1>1, <1>2, <1>3, <1>4, <1>5, GateCloses

LEMMA IntakeRefines ==
  ASSUME IInv, OfferView', NEW w \in Workers, Intake(w)
  PROVE  GateStep
<1>1. CASE AcceptEvent(w)
  BY <1>1, Owner, EarlyStutters DEF AcceptEvent, IntakePCs, transition_run
<1>2. CASE AssessRun(w)
  BY <1>2, Owner, EarlyStutters DEF AssessRun, IntakePCs, transition_run
<1>3. CASE CollectTelemetry(w) \/ Analyze(w) \/ IntakeRaises(w)
           \/ \E o \in Options : BuildProposal(w, o)
  BY <1>3, QuietStutters
  DEF CollectTelemetry, Analyze, IntakeRaises, BuildProposal, create_audit, storeVars
<1>4. CASE CreateProposal(w)
  <2>1. PICK k \in Runs : k = worker[w].run
    BY <1>4, Owner DEF CreateProposal, IntakePCs
  <2> DEFINE row == NewRow(worker[w].option, worker[w].now + TTL)
             d   == action_hash(1, worker[w].option)
  <2>2. 1 \in Revisions /\ worker[w].option \in Options
    BY <1>4, StoreAssumption DEF Revisions, CreateProposal, IInv, JobIsValid
  <2>3. d \in Digests /\ row.status = "proposed" /\ row.option = worker[w].option
    BY <2>2 DEF action_hash, Digests, NewRow
  <2>4. create_proposal_and_transition(k, row) /\ effects' = effects
    BY <1>4, <2>1 DEF CreateProposal
  <2> HIDE DEF row
  <2>5. /\ runState[k] = "assessed" /\ runState'[k] = "proposed"
        /\ proposal'[k][1] = row
        /\ \A j \in Runs \ {k} :
             runState'[j] = runState[j] /\ proposal'[j] = proposal[j]
    BY <2>2, <2>4 DEF create_proposal_and_transition, IInv, TypeOK, StoreTypeOK
  <2>6. OfferOf(k)' = {d}
    BY <2>2, <2>3, <2>5 DEF OfferView, Open3
  <2>7. /\ PhaseOf(runState[k]) = "preparing"
        /\ PhaseOf(runState'[k]) = "offered"
    BY <2>5 DEF PhaseOf
  <2>8. \A j \in Runs \ {k} : /\ PhaseOf(runState'[j]) = PhaseOf(runState[j])
                              /\ OfferOf(j)' = OfferOf(j)
    BY <2>5, OfferKept
  <2>9. \A j \in Runs : ActsOf(j)' = ActsOf(j)
    BY <2>4, ActsKept
  <2> HIDE DEF d
  <2>10. QED
    BY <2>3, <2>6, <2>7, <2>8, <2>9, GateOffers
<1>5. CASE FailRun(w)
  <2>1. PICK k \in Runs : k = worker[w].run
    BY <1>5, Owner DEF FailRun, IntakePCs
  <2>2. runState[k] \in {"received", "investigating", "assessed"}
    BY <1>5, <2>1, Owner DEF FailRun, IntakePCs, ExpectedState
  <2>3. /\ runState' = [runState EXCEPT ![k] = "failed"]
        /\ proposal' = proposal /\ effects' = effects
    BY <1>5, <2>1, <2>2 DEF FailRun, fail_run, Terminal
  <2>4. QED
    BY <2>2, <2>3, EndCloses DEF IInv, TypeOK, StoreTypeOK, RunStates, Terminal
<1>6. QED
  BY <1>1, <1>2, <1>3, <1>4, <1>5 DEF Intake

LEMMA ExpireLockedCloses ==
  ASSUME IInv, OfferView', NEW k \in Runs, NEW r \in Revisions,
         expire_locked(k, r), effects' = effects,
         runState[k] \in {"proposed", "approved"}
  PROVE  GateStep
<1>1. /\ runState'[k] = "expired"
      /\ \A j \in Runs \ {k} :
           runState'[j] = runState[j] /\ proposal'[j] = proposal[j]
  BY DEF expire_locked, IInv, TypeOK, StoreTypeOK
<1>2. QED
  BY <1>1, EndCloses DEF RunStates, Terminal

LEMMA DecideRefines ==
  ASSUME IInv, OfferView, OfferView', NEW w \in Workers, Decide(w)
  PROVE  GateStep
<1>1. CASE DecisionConflicts(w)
  BY <1>1, QuietStutters DEF DecisionConflicts, storeVars
<1>2. CASE DecisionExpires(w)
  BY <1>2, Open, ExpireLockedCloses DEF DecisionExpires, Decidable, AwaitsDecision
<1>3. ASSUME worker[w].pc = "deciding"
      PROVE  \E k \in Runs, r \in Revisions :
               k = worker[w].run /\ r = worker[w].revision
  BY <1>3, Open
<1>4. CASE DecisionRevises(w)
  <2>1. PICK k \in Runs, r \in Revisions :
          k = worker[w].run /\ r = worker[w].revision
    BY <1>3, <1>4 DEF DecisionRevises
  <2> DEFINE row == NewRow(worker[w].option, worker[w].now + TTL)
             d   == action_hash(r + 1, worker[w].option)
  <2>2. worker[w].option \in Options /\ r + 1 \in Revisions /\ r # r + 1
    BY <1>4, <2>1, StoreAssumption DEF Revisions, DecisionRevises, IInv, JobIsValid
  <2>3. d \in Digests /\ row.status = "proposed" /\ row.option = worker[w].option
    BY <2>2 DEF action_hash, Digests, NewRow
  <2>4. /\ revise_proposal(k, r, row) /\ effects' = effects
        /\ runState[k] = "proposed"
    BY <1>4, <2>1 DEF DecisionRevises, Decidable, AwaitsDecision
  <2> HIDE DEF row
  <2>5. runState' = runState /\ \A j \in Runs \ {k} : proposal'[j] = proposal[j]
    BY <2>4 DEF revise_proposal, IInv, TypeOK, StoreTypeOK
  <2>6. proposal'[k][r + 1] = row
    BY <2>2, <2>4 DEF revise_proposal, IInv, TypeOK, StoreTypeOK
  <2>7. OfferOf(k)' = {d}
    BY <2>2, <2>3, <2>6 DEF OfferView, Open3
  <2>8. /\ PhaseOf(runState[k]) = "offered"
        /\ PhaseOf(runState'[k]) = "offered"
    BY <2>4, <2>5 DEF PhaseOf
  <2>9. \A j \in Runs \ {k} : /\ PhaseOf(runState'[j]) = PhaseOf(runState[j])
                              /\ OfferOf(j)' = OfferOf(j)
    BY <2>5, OfferKept
  <2>10. \A j \in Runs : ActsOf(j)' = ActsOf(j)
    BY <2>4, ActsKept
  <2> HIDE DEF d
  <2>11. QED
    BY <2>3, <2>7, <2>8, <2>9, <2>10, GateOffers
<1>5. CASE DecisionSettles(w)
  <2>1. PICK k \in Runs, r \in Revisions :
          k = worker[w].run /\ r = worker[w].revision
    BY <1>3, <1>5 DEF DecisionSettles
  <2>2. /\ settle_proposal(k, r, worker[w].decision, worker[w].digest)
        /\ effects' = effects
        /\ proposal[k][r].status = "proposed" /\ runState[k] = "proposed"
        /\ worker[w].decision \in {"approve", "reject"}
    BY <1>5, <2>1 DEF DecisionSettles, Decidable, AwaitsDecision
  <2>3. \A j \in Runs \ {k} :
          runState'[j] = runState[j] /\ proposal'[j] = proposal[j]
    BY <2>2 DEF settle_proposal, IInv, TypeOK, StoreTypeOK
  <2>4. CASE worker[w].decision = "reject"
    <3>1. runState'[k] = "rejected"
      BY <2>2, <2>4 DEF settle_proposal, IInv, TypeOK, StoreTypeOK
    <3>2. QED
      BY <2>2, <2>3, <3>1, EndCloses DEF RunStates, Terminal
  <2>5. CASE worker[w].decision = "approve"
    <3> DEFINE row == [WithStatus(proposal[k][r], "approved")
                         EXCEPT !.approved_hash = worker[w].digest]
    <3>1. /\ runState' = [runState EXCEPT ![k] = "approved"]
          /\ proposal' = [proposal EXCEPT ![k][r] = row]
      BY <2>2, <2>5 DEF settle_proposal
    <3>2. row.status = "approved" /\ row.option = proposal[k][r].option
      <4>1. /\ WithStatus(proposal[k][r], "approved") \in ProposalRows
            /\ WithStatus(proposal[k][r], "approved").status = "approved"
            /\ WithStatus(proposal[k][r], "approved").option = proposal[k][r].option
        BY WithStatusTyped DEF IInv, TypeOK, StoreTypeOK, ProposalStates
      <4>2. QED
        BY <4>1 DEF ProposalRows
    <3> HIDE DEF row
    <3>3. proposal'[k][r] = row /\ runState'[k] = "approved"
      BY <3>1 DEF IInv, TypeOK, StoreTypeOK
    <3>4. OfferOf(k)' = OfferOf(k)
      BY <2>2, <3>2, <3>3 DEF OfferView, Open3
    <3>5. \A j \in Runs : OfferOf(j)' = OfferOf(j) /\ ActsOf(j)' = ActsOf(j)
      BY <2>2, <2>3, <3>4, OfferKept, ActsKept
    <3>6. /\ PhaseOf(runState[k]) = "offered"
          /\ PhaseOf(runState'[k]) = "approved"
          /\ \A j \in Runs \ {k} : PhaseOf(runState'[j]) = PhaseOf(runState[j])
      BY <2>2, <2>3, <3>3 DEF PhaseOf
    <3>7. QED
      BY <3>5, <3>6, GateApproves
  <2>6. QED
    BY <2>2, <2>4, <2>5
<1>6. QED
  BY <1>1, <1>2, <1>4, <1>5 DEF Decide

LEMMA FinalizeCloses ==
  ASSUME IInv, OfferView', NEW k \in Runs, NEW r \in Revisions,
         NEW final \in {"succeeded", "failed"},
         finalize_execution(k, r, final), effects' = effects
  PROVE  GateStep
<1>1. /\ runState[k] = "executing" /\ runState'[k] = final
      /\ \A j \in Runs \ {k} :
           runState'[j] = runState[j] /\ proposal'[j] = proposal[j]
  BY DEF finalize_execution, IInv, TypeOK, StoreTypeOK
<1>2. QED
  BY <1>1, EndCloses DEF RunStates, Terminal

LEMMA ExecuteRefines ==
  ASSUME IInv, OfferView, OfferView', NEW w \in Workers, Execute(w)
  PROVE  GateStep
<1>1. CASE ClaimConflicts(w) \/ AuditToolCall(w)
  BY <1>1, QuietStutters DEF ClaimConflicts, AuditToolCall, create_audit, storeVars
<1>2. CASE ClaimExpires(w)
  BY <1>2, Open, ExpireLockedCloses DEF ClaimExpires, Claimable
<1>3. CASE ClaimExecution(w)
  <2>1. PICK k \in Runs, r \in Revisions :
          k = worker[w].run /\ r = worker[w].revision
    BY <1>3, Open DEF ClaimExecution
  <2>2. /\ claim_execution(k, r) /\ effects' = effects
        /\ proposal[k][r].status = "approved" /\ runState[k] = "approved"
    BY <1>3, <2>1 DEF ClaimExecution, Claimable
  <2>3. /\ runState'[k] = "executing"
        /\ proposal'[k][r] = WithStatus(proposal[k][r], "executing")
        /\ \A j \in Runs \ {k} :
             runState'[j] = runState[j] /\ proposal'[j] = proposal[j]
    BY <2>2 DEF claim_execution, IInv, TypeOK, StoreTypeOK
  <2>4. /\ WithStatus(proposal[k][r], "executing").status = "executing"
        /\ WithStatus(proposal[k][r], "executing").option = proposal[k][r].option
    BY WithStatusTyped DEF IInv, TypeOK, StoreTypeOK, ProposalStates
  <2>5. OfferOf(k)' = OfferOf(k)
    BY <2>2, <2>3, <2>4 DEF OfferView, Open3
  <2>6. \A j \in Runs : OfferOf(j)' = OfferOf(j) /\ ActsOf(j)' = ActsOf(j)
    BY <2>2, <2>3, <2>5, OfferKept, ActsKept
  <2>7. /\ PhaseOf(runState[k]) = "approved"
        /\ PhaseOf(runState'[k]) = "acting"
        /\ \A j \in Runs \ {k} : PhaseOf(runState'[j]) = PhaseOf(runState[j])
    BY <2>2, <2>3 DEF PhaseOf
  <2>8. QED
    BY <2>6, <2>7, GateBegins
<1>4. CASE \E result \in Results : RunExecutor(w, result)
  <2>1. PICK result \in Results : RunExecutor(w, result)
    BY <1>4
  <2>2. PICK k \in Runs, r \in Revisions :
          k = worker[w].run /\ r = worker[w].revision
    BY <2>1, Owner DEF RunExecutor, HoldingPCs, IInv, TypeOK, WorkerStates
  <2>3. /\ UNCHANGED <<runState, proposal>>
        /\ effects' = [effects EXCEPT ![k] =
                         Append(@, [digest |-> worker[w].digest, result |-> result])]
    BY <2>1, <2>2 DEF RunExecutor, storeVars
  <2>4. /\ effects[k] = <<>>
        /\ proposal[k][r].status = "executing" /\ runState[k] = "executing"
        /\ worker[w].digest = action_hash(r, proposal[k][r].option)
    BY <2>1, <2>2, Owner
    DEF RunExecutor, HoldingPCs, IInv, JobIsValid, OwnershipIsExclusive,
        EffectsFollowClaims, ExpectedState, IntakePCs
  <2>5. worker[w].digest \in OfferOf(k)
    BY <2>4 DEF OfferView, Open3
  <2> DEFINE e == [digest |-> worker[w].digest, result |-> result]
  <2>6. effects'[k] = <<e>> /\ \A j \in Runs \ {k} : effects'[j] = effects[j]
    BY <2>3, <2>4 DEF IInv, TypeOK
  <2>7. ActsOf(k) = <<>>
    BY <2>4 DEF ActsOf
  <2>8. ActsOf(k)' = <<worker[w].digest>>
    BY <2>6 DEF ActsOf
  <2>9. \A j \in Runs \ {k} : ActsOf(j)' = ActsOf(j)
    BY <2>6 DEF ActsOf
  <2>10. \A j \in Runs : /\ OfferOf(j)' = OfferOf(j)
                         /\ PhaseOf(runState'[j]) = PhaseOf(runState[j])
    BY <2>3, OfferKept
  <2>11. PhaseOf(runState[k]) = "acting"
    BY <2>4 DEF PhaseOf
  <2>12. QED
    BY <2>5, <2>7, <2>8, <2>9, <2>10, <2>11, GateActs
<1>5. CASE Finalize(w) \/ FinalizeAsFailed(w)
  <2>1. /\ worker[w].run \in Runs /\ worker[w].revision \in Revisions
        /\ Finalize(w) => worker[w].result \in {"succeeded", "failed"}
    BY <1>5, Owner
    DEF Finalize, FinalizeAsFailed, HoldingPCs, IInv, TypeOK, WorkerStates, JobIsValid
  <2>2. QED
    BY <1>5, <2>1, FinalizeCloses DEF Finalize, FinalizeAsFailed
<1>6. QED
  BY <1>1, <1>2, <1>3, <1>4, <1>5 DEF Execute

LEMMA SweepRefines ==
  ASSUME IInv, OfferView', NEW now \in Nat, expire_due(now), effects' = effects
  PROVE  GateStep
<1> DEFINE K == {k \in Runs : \E r \in Revisions : Swept(k, r)}
<1>1. \A k \in K : /\ k \in Runs
                   /\ PhaseOf(runState[k]) # "closed"
                   /\ PhaseOf(runState'[k]) = "closed"
                   /\ OfferOf(k)' = {}
  BY DEF Swept, PhaseOf, OfferView, Open3
<1>2. \A k \in Runs \ K : runState'[k] = runState[k] /\ proposal'[k] = proposal[k]
  BY SweepOfRun
<1>3. \A k \in Runs \ K : /\ PhaseOf(runState'[k]) = PhaseOf(runState[k])
                          /\ OfferOf(k)' = OfferOf(k)
  BY <1>2, OfferKept
<1>4. \A k \in Runs : ActsOf(k)' = ActsOf(k)
  BY ActsKept
<1>5. K \in SUBSET Runs
  OBVIOUS
<1> HIDE DEF K
<1>6. QED
  BY <1>1, <1>3, <1>4, <1>5, GateCloses

LEMMA OthersRefine ==
  ASSUME IInv, NEW w \in Workers, Request(w) \/ Fault(w)
  PROVE  GateStep
<1>1. CASE \E k \in Runs, p \in Payloads : StartEvent(w, k, p)
  BY <1>1, EarlyStutters DEF StartEvent, create_run
<1>2. CASE UNCHANGED <<storeVars, effects>>
  BY <1>2, QuietStutters DEF storeVars
<1>3. QED
  BY <1>1, <1>2
  DEF Request, Fault, RequestDecision, RequestExecution, RequestExpiry,
      FinalizeRaises, HandlerRaises, Crash

LEMMA NextRefines ==
  ASSUME IInv, OfferView, OfferView', [Next]_vars
  PROVE  GateStep
<1>1. CASE UNCHANGED vars \/ Tick
  BY <1>1, QuietStutters DEF vars, storeVars, Tick
<1>2. ASSUME NEW w \in Workers, Request(w) \/ Handle(w) \/ Fault(w)
      PROVE  GateStep
  BY <1>2, OthersRefine, IntakeRefines, DecideRefines, ExecuteRefines,
     ExpireDueSweeps, SweepRefines
  DEF Handle
<1>3. QED
  BY <1>1, <1>2 DEF Next

LEMMA InitRefines == Init => Gate!Init
<1>1. SUFFICES ASSUME Init, NEW k \in Runs
               PROVE  /\ PhaseOf(runState[k]) = "preparing"
                      /\ OfferOf(k) = {} /\ ActsOf(k) = <<>>
  BY DEF Gate!Init
<1>2. PhaseOf(runState[k]) = "preparing"
  BY <1>1 DEF Init, StoreInit, PhaseOf
<1>3. OfferOf(k) = {}
  BY <1>1 DEF Init, StoreInit, NoRow, OfferOf
<1>4. effects[k] = <<>>
  BY <1>1 DEF Init
<1>5. ActsOf(k) = <<>>
  BY <1>4 DEF ActsOf
<1>6. QED
  BY <1>2, <1>3, <1>5

(***************************************************************************)
(* For all threads, runs, options, revisions and faults the service is an  *)
(* approval gate: nothing is done without an approval, what is done is     *)
(* what was on offer when it was approved, and it is done once.            *)
(***************************************************************************)
THEOREM ServiceIsGate == Spec => GateSpec
<1>1. IInv' => OfferView'
  BY OfferViewHolds, PTL
<1>2. IInv /\ IInv' /\ [Next]_vars => [Gate!Next]_(Gate!gateVars)
  BY <1>1, OfferViewHolds, NextRefines DEF GateStep
<1>3. QED
  BY <1>2, InitRefines, InductiveInvariant, PTL DEF Spec, GateSpec, Gate!Spec

-------------------------------------------------------------------------------
(* WITH THE BACKGROUND TASK                                                *)

(***************************************************************************)
(* The only step of the task that touches the service is a sweep, with the *)
(* time it captured before other threads went on.                          *)
(***************************************************************************)
BackgroundSweep ==
  \E now \in Nat : expire_due(now) /\ UNCHANGED <<clock, worker, effects>>

LEMMA LoopSteps ==
  ASSUME LoopTypeOK, [LoopNext]_loopVars
  PROVE  [Next]_vars \/ BackgroundSweep
<1>1. loop.now \in Nat
  BY DEF LoopTypeOK, LoopStates
<1>2. CASE LoopSweeps
  BY <1>1, <1>2 DEF LoopSweeps, BackgroundSweep
<1>3. CASE ~LoopSweeps
  BY <1>3 DEF LoopNext, LoopRuns, LoopWakes, LoopRaises, loopVars
<1>4. QED
  BY <1>2, <1>3

LEMMA LoopTyped ==
  ASSUME LoopTypeOK, [LoopNext]_loopVars
  PROVE  loop' \in LoopStates
<1>1. Asleep \in LoopStates /\ [Asleep EXCEPT !.pc = "ended"] \in LoopStates
  BY DEF Asleep, LoopStates
<1>2. CASE LoopWakes
  BY <1>2 DEF LoopWakes, LoopTypeOK, LoopStates, TypeOK
<1>3. CASE ~LoopWakes
  BY <1>1, <1>3
  DEF LoopNext, LoopRuns, LoopSweeps, LoopRaises, loopVars, LoopTypeOK
<1>4. QED
  BY <1>2, <1>3

LEMMA LoopKeepsIInv ==
  ASSUME LoopTypeOK, IInv, [LoopNext]_loopVars
  PROVE  LoopTypeOK' /\ IInv'
<1>1. SUFFICES IInv'
  BY LoopTyped DEF LoopTypeOK, IInv
<1>2. CASE [Next]_vars
  BY <1>2, NextIInv
<1>3. CASE BackgroundSweep
  BY <1>3, SweepAloneStep DEF BackgroundSweep
<1>4. QED
  BY <1>2, <1>3, LoopSteps

(***************************************************************************)
(* The background task, whenever it wakes, however old the time it sweeps  *)
(* with and whether or not it has ended, keeps the service's invariant, and*)
(* with it what follows from it: a claim that was won is not swept, and no *)
(* second call to the executor becomes possible (app.py, expire_loop).     *)
(***************************************************************************)
THEOREM SweptInvariant == LoopSpec => [](LoopTypeOK /\ IInv)
<1>1. LoopInit => LoopTypeOK /\ IInv
  BY InitIInv DEF LoopInit, LoopTypeOK, LoopStates, Asleep, IInv
<1>2. QED
  BY <1>1, LoopKeepsIInv, PTL DEF LoopSpec

(***************************************************************************)
(* What the executor did and was asked to do is guarded as before.         *)
(***************************************************************************)
THEOREM SweptEffectsAreSafe ==
  LoopSpec => [](EffectAtMostOnce /\ EffectWasApproved /\ OutcomeMatchesEffect)
BY SweptInvariant, CallsAreSingle, ApprovalsPrecede, OutcomesMatch, PTL

(***************************************************************************)
(* Nor does it touch a run that has ended, or one of its proposals.        *)
(***************************************************************************)
THEOREM SweptRunsStayEnded == LoopSpec => TerminalIsForever
<1>1. LoopTypeOK /\ IInv /\ [LoopNext]_loopVars =>
        [\A k \in Runs : runState[k] \in Terminal =>
           runState'[k] = runState[k] /\ proposal'[k] = proposal[k]]_vars
  BY LoopSteps, NextKeepsEnded, SweepKeepsEnded DEF BackgroundSweep, KeepsEnded
<1>2. QED
  BY <1>1, SweptInvariant, PTL DEF LoopSpec, TerminalIsForever

(***************************************************************************)
(* The audit trails replay with the rows of the background sweep, too.     *)
(***************************************************************************)
THEOREM SweptTrailsReplay == LoopSpec => []AuditReplays
<1>1. LoopInit => TrailInv
  BY InitTrailInv DEF LoopInit
<1>2. LoopTypeOK /\ IInv /\ IInv' /\ TrailInv /\ [LoopNext]_loopVars => TrailInv'
  <2>1. SUFFICES ASSUME LoopTypeOK, IInv, IInv', TrailInv, [LoopNext]_loopVars
                 PROVE  TrailInv'
    OBVIOUS
  <2>2. \A k \in Runs : RunStep(k)
    BY <2>1, LoopSteps, NextRunStep, SweepRunStep DEF BackgroundSweep
  <2>3. QED
    BY <2>1, <2>2, TrailStep DEF IInv, TrailInv
<1>3. TrailInv => AuditReplays
  BY DEF TrailInv, AuditReplays
<1>4. QED
  BY <1>1, <1>2, <1>3, SweptInvariant, PTL DEF LoopSpec

(***************************************************************************)
(* The application as a whole, handlers and background task, is still the  *)
(* approval gate: for the gate, a sweep closes the runs that were due.     *)
(***************************************************************************)
THEOREM SweptServiceIsGate == LoopSpec => GateSpec
<1>1. IInv' => OfferView'
  BY OfferViewHolds, PTL
<1>2. LoopTypeOK /\ IInv /\ IInv' /\ [LoopNext]_loopVars =>
        [Gate!Next]_(Gate!gateVars)
  <2>1. SUFFICES ASSUME LoopTypeOK, IInv, IInv', [LoopNext]_loopVars
                 PROVE  GateStep
    BY DEF GateStep
  <2>2. OfferView /\ OfferView'
    BY <1>1, <2>1, OfferViewHolds
  <2>3. QED
    BY <2>1, <2>2, LoopSteps, NextRefines, SweepRefines DEF BackgroundSweep
<1>3. LoopInit => Gate!Init
  BY InitRefines DEF LoopInit
<1>4. QED
  BY <1>2, <1>3, SweptInvariant, PTL DEF LoopSpec, GateSpec, Gate!Spec

===============================================================================
