----------------------------- MODULE CausalWorkflow -----------------------------
(***************************************************************************)
(* One Studio thread: a graph of five nodes that investigates, proposes,   *)
(* waits for a human, executes and verifies.  The graph saves a checkpoint *)
(* after each node.  A node that is interrupted after some of its effects  *)
(* is run again from its beginning when the thread is resumed, so that it  *)
(* has to recognise what it has done in the thread's database and sandbox. *)
(* IncidentService has the service's operations in full.                   *)
(***************************************************************************)
EXTENDS Naturals

CONSTANTS
  Tools,          \* number of diagnostic tool calls of the investigation
  Interrupted,    \* the steps after which a node may be interrupted
  MaxInterrupts,  \* bound: how often a node is interrupted
  MaxMessages,    \* bound: how many messages the thread is sent
  Faults          \* subset of {"intake", "late", "restart"}

VARIABLES
  checkpoint,  \* the node to run next
  step,        \* how far that node is
  run,         \* the run of the thread's idempotency key in the database
  trail,       \* counts of audit rows by kind
  answer,      \* what the human resumed the thread with, of which run
  effects,     \* executor calls on this sandbox
  usage        \* interruptions and messages so far

vars == <<checkpoint, step, run, trail, answer, effects, usage>>

Nodes == {"investigate", "build", "approval", "execute", "verify", "end"}

RunStates == {"absent", "intake", "failed", "proposed", "approved", "rejected",
              "executing", "succeeded", "expired"}

TypeOK ==
  /\ checkpoint \in Nodes
  /\ step \in {"start", "tools", "decided", "claimed", "acted", "finalized", "noted"}
  /\ run \in RunStates
  /\ trail \in [tools : Nat, verified : Nat]
  /\ answer \in {"none", "approve", "reject"}
  /\ effects \in Nat
  /\ usage \in [interrupts : Nat, messages : Nat]

NoTrail == [tools |-> 0, verified |-> 0]

Init ==
  /\ checkpoint = "investigate"
  /\ step = "start"
  /\ run = "absent"
  /\ trail = NoTrail
  /\ answer = "none"
  /\ effects = 0
  /\ usage = [interrupts |-> 0, messages |-> 1]

At(node, s) == checkpoint = node /\ step = s

Save(node) ==
  /\ checkpoint' = node
  /\ step' = "start"

Goto(s) ==
  /\ step' = s
  /\ UNCHANGED checkpoint

-------------------------------------------------------------------------------
(* Nodes.                                                                  *)

Investigate ==
  /\ At("investigate", "start")
  /\ Save("build")
  /\ UNCHANGED <<run, trail, answer, effects, usage>>

\* Faulty: the retry is the same event and is answered as a duplicate.
SubmitEvent_repeatable ==
  /\ At("build", "start")
  /\ run' = IF run = "absent" THEN "proposed" ELSE run
  /\ IF run = "absent" THEN Goto("tools") ELSE Save("approval")
  /\ UNCHANGED <<trail, answer, effects, usage>>

(***************************************************************************)
(* The key is the thread's, the payload has the present time: an event     *)
(* submitted before is an IdempotencyConflict, and the node fails.         *)
(***************************************************************************)
SubmitEvent ==
  /\ At("build", "start")
  /\ run = "absent"
  /\ run' = "proposed"
  /\ Goto("tools")
  /\ UNCHANGED <<trail, answer, effects, usage>>

(* Intake raises; the service has marked the run as failed.                *)
IntakeFails ==
  /\ "intake" \in Faults
  /\ At("build", "start")
  /\ run = "absent"
  /\ run' = "failed"
  /\ UNCHANGED <<checkpoint, step, trail, answer, effects, usage>>

RecordTool ==
  /\ At("build", "tools")
  /\ trail.tools < Tools
  /\ trail' = [trail EXCEPT !.tools = @ + 1]
  /\ UNCHANGED <<checkpoint, step, run, answer, effects, usage>>

SaveProposal ==
  /\ At("build", "tools")
  /\ trail.tools = Tools
  /\ Save("approval")
  /\ UNCHANGED <<run, trail, answer, effects, usage>>

Expected(decision) == IF decision = "approve" THEN "approved" ELSE "rejected"

\* Faulty: the second answer of an interrupted node is taken for the first.
Resume_unread(decision) ==
  /\ At("approval", "start")
  /\ run \in {"proposed", "approved", "rejected"}
  /\ run' = IF run = "proposed" THEN Expected(decision) ELSE run
  /\ answer' = decision
  /\ Goto("decided")
  /\ UNCHANGED <<trail, effects, usage>>

(* The human resumes with the proposal's identifiers and a decision.       *)
Resume(decision) ==
  /\ At("approval", "start")
  /\ run \in {"proposed", Expected(decision)}
  /\ run' = Expected(decision)
  /\ answer' = decision
  /\ Goto("decided")
  /\ UNCHANGED <<trail, effects, usage>>

SaveDecision ==
  /\ At("approval", "decided")
  /\ Save(IF answer = "approve" THEN "execute" ELSE "end")
  /\ UNCHANGED <<run, trail, answer, effects, usage>>

(* The deadline has passed: deciding and claiming expire the run and raise. *)
Expire ==
  /\ "late" \in Faults
  /\ At("approval", "start") \/ At("execute", "start")
  /\ run \in {"proposed", "approved"}
  /\ run' = "expired"
  /\ UNCHANGED <<checkpoint, step, trail, answer, effects, usage>>

\* Faulty: a run left executing is taken up again.
Claim_again ==
  /\ At("execute", "start")
  /\ run \in {"approved", "executing"}
  /\ run' = "executing"
  /\ Goto("claimed")
  /\ UNCHANGED <<trail, answer, effects, usage>>

Claim ==
  /\ At("execute", "start")
  /\ run = "approved"
  /\ run' = "executing"
  /\ Goto("claimed")
  /\ UNCHANGED <<trail, answer, effects, usage>>

Act ==
  /\ At("execute", "claimed")
  /\ effects' = effects + 1
  /\ Goto("acted")
  /\ UNCHANGED <<run, trail, answer, usage>>

\* Faulty: a failed execution ends the graph.
Finalize_raising ==
  /\ At("execute", "acted")
  /\ \/ run' = "succeeded" /\ Goto("finalized")
     \/ run' = "failed" /\ Goto("start")
  /\ UNCHANGED <<trail, answer, effects, usage>>

Finalize ==
  /\ At("execute", "acted")
  /\ run' \in {"succeeded", "failed"}
  /\ Goto("finalized")
  /\ UNCHANGED <<trail, answer, effects, usage>>

(* Also when the node finds the run succeeded as it starts.                *)
SaveExecution ==
  /\ \/ At("execute", "finalized")
     \/ At("execute", "start") /\ run = "succeeded"
  /\ Save("verify")
  /\ UNCHANGED <<run, trail, answer, effects, usage>>

\* Faulty: the trail is not looked at.
RecordVerification_again ==
  /\ At("verify", "start")
  /\ run # "absent"
  /\ trail' = [trail EXCEPT !.verified = @ + 1]
  /\ Goto("noted")
  /\ UNCHANGED <<run, answer, effects, usage>>

RecordVerification ==
  /\ At("verify", "start")
  /\ run # "absent"
  /\ trail' = IF trail.verified > 0 THEN trail
              ELSE [trail EXCEPT !.verified = @ + 1]
  /\ Goto("noted")
  /\ UNCHANGED <<run, answer, effects, usage>>

SaveVerification ==
  /\ At("verify", "noted")
  /\ Save("end")
  /\ UNCHANGED <<run, trail, answer, effects, usage>>

-------------------------------------------------------------------------------
(* The graph's surroundings.                                               *)

(* An exception or a failed checkpoint: the node is to be run again.       *)
Interrupt ==
  /\ usage.interrupts < MaxInterrupts
  /\ step \in Interrupted
  /\ Goto("start")
  /\ usage' = [usage EXCEPT !.interrupts = @ + 1]
  /\ UNCHANGED <<run, trail, answer, effects>>

(* Another message starts the graph of a finished thread again.            *)
SendMessage ==
  /\ usage.messages < MaxMessages
  /\ checkpoint = "end"
  /\ Save("investigate")
  /\ usage' = [usage EXCEPT !.messages = @ + 1]
  /\ UNCHANGED <<run, trail, answer, effects>>

(* The server process restarts: sandbox and database are new, the thread's *)
(* checkpoint may have been kept by the server.                            *)
Restart ==
  /\ "restart" \in Faults
  /\ run # "absent"
  /\ run' = "absent" /\ trail' = NoTrail /\ effects' = 0 /\ answer' = "none"
  /\ Goto("start")
  /\ UNCHANGED usage

Node ==
  \/ Investigate \/ SubmitEvent \/ RecordTool \/ SaveProposal
  \/ SaveDecision
  \/ Claim \/ Act \/ Finalize \/ SaveExecution
  \/ RecordVerification \/ SaveVerification

Next ==
  \/ Node \/ IntakeFails \/ Expire
  \/ \E decision \in {"approve", "reject"} : Resume(decision)
  \/ Interrupt \/ SendMessage \/ Restart

Spec == Init /\ [][Next]_vars

(* A thread that is not waiting for the human is resumed until it goes on. *)
FairSpec == Spec /\ WF_vars(Node)

-------------------------------------------------------------------------------
(* PROPERTIES                                                              *)

(***************************************************************************)
(* However often nodes are interrupted and run again, the action is taken  *)
(* at most once, and only when the human's answer was to approve; and its  *)
(* recovery is verified at most once, after the execution it is about.     *)
(***************************************************************************)
ActsAndVerifiesOnce ==
  /\ effects <= 1
  /\ effects = 1 => answer = "approve"
  /\ trail.verified <= 1
  /\ trail.verified = 1 => run \in {"succeeded", "failed"} /\ effects = 1

(***************************************************************************)
(* Where the graph stands is what the database says: the proposal a human  *)
(* is asked about has its complete evidence in the audit trail, no row of  *)
(* a tool call skipped or repeated by a node that ran again, and a thread  *)
(* never executes, or ends, against the decision that was recorded.        *)
(***************************************************************************)
GraphFollowsRecord ==
  run # "absent" =>
    /\ checkpoint \in {"approval", "execute", "verify"} => trail.tools = Tools
    /\ checkpoint \in {"execute", "verify"} => run \notin {"proposed", "rejected"}
    /\ At("approval", "decided") => run = Expected(answer)

(***************************************************************************)
(* A thread whose proposal was approved ends with a verification, unless   *)
(* the proposal expires before it is claimed or the server forgets the     *)
(* run: also when the nodes that record the decision and the verification  *)
(* are interrupted and run again.  Only an interruption of the execution   *)
(* itself leaves it behind, at a run that is not claimed again.            *)
(***************************************************************************)
LeftBehind ==
  /\ At("execute", "start")
  /\ run \in {"executing", "failed"}
  /\ usage.interrupts > 0

ApprovedThreadsEnd ==
  checkpoint = "execute" ~>
    \/ run \in {"expired", "absent"}
    \/ checkpoint = "end" /\ trail.verified = 1
    \/ LeftBehind

-------------------------------------------------------------------------------
(* EXPECTATIONS of the documents that the code does not meet: README.md    *)
(* says how each one fails; no run checks them.                            *)

(* An interrupted thread can be resumed: a proposal is made in the end.    *)
ThreadsAreResumable ==
  checkpoint = "build" ~> checkpoint = "approval"

===============================================================================
