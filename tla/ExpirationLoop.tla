----------------------------- MODULE ExpirationLoop -----------------------------
(***************************************************************************)
(* The HTTP application around the service: while it is up, one background *)
(* task sleeps, reads the clock and sweeps overdue proposals.  The requests*)
(* it serves are the threads of IncidentService.                           *)
(***************************************************************************)
EXTENDS IncidentService

VARIABLE loop  \* the background task and the time its sweep captured

loopVars == <<vars, loop>>

LoopStates == [pc : {"sleeping", "sweeping", "ended"}, now : Nat]

Asleep == [pc |-> "sleeping", now |-> 0]

LoopTypeOK == TypeOK /\ loop \in LoopStates

LoopInit == Init /\ loop = Asleep

\* Faulty: the clock is read when the task is created.
LoopWakes_created ==
  /\ loop.pc = "sleeping"
  /\ loop' = [pc |-> "sweeping", now |-> 0]
  /\ UNCHANGED vars

LoopWakes ==
  /\ loop.pc = "sleeping"
  /\ loop' = [pc |-> "sweeping", now |-> clock]
  /\ UNCHANGED vars

LoopSweeps ==
  /\ loop.pc = "sweeping"
  /\ expire_due(loop.now)
  /\ loop' = Asleep
  /\ UNCHANGED <<clock, worker, effects>>

(***************************************************************************)
(* The sweep raises when the database stays locked.  Nothing in the task   *)
(* catches it, and nobody looks at the task before the shutdown.           *)
(***************************************************************************)
LoopRaises ==
  /\ "busy" \in Faults
  /\ loop.pc = "sweeping"
  /\ loop' = [Asleep EXCEPT !.pc = "ended"]
  /\ UNCHANGED vars

LoopRuns == LoopWakes \/ LoopSweeps

LoopNext ==
  \/ Next /\ UNCHANGED loop
  \/ LoopRuns
  \/ LoopRaises

(***************************************************************************)
(* The event loop goes on with the task, the threads with their handlers.  *)
(***************************************************************************)
LoopSpec ==
  /\ LoopInit /\ [][LoopNext]_loopVars
  /\ WF_loopVars(LoopRuns)
  /\ \A w \in Workers : WF_loopVars(Handle(w) /\ UNCHANGED loop)

-------------------------------------------------------------------------------

(***************************************************************************)
(* A proposal does not stay open when its TTL has passed, although         *)
(* decisions, claims and revisions keep moving the run under the sweep:    *)
(* one that is neither answered nor claimed is expired by the background   *)
(* task, also when a sweep reached it just before its deadline.  Only the  *)
(* end of the task can leave it open.                                      *)
(***************************************************************************)
IsOpenAt(k, r, states) ==
  proposal[k][r].status \in states /\ Overdue(k, r, clock)

OverdueProposalsClose ==
  \A k \in Runs, r \in Revisions :
    IsOpenAt(k, r, {"proposed", "approved"})
      ~> \/ ~IsOpenAt(k, r, {"proposed", "approved"})
         \/ loop.pc = "ended"

(***************************************************************************)
(* foundation.prompt: expire unanswered proposals after a configured TTL.  *)
(* One sweep that meets a locked database ends the background task for the *)
(* lifetime of the application, and unanswered proposals stay open.        *)
(***************************************************************************)
UnansweredProposalsExpire ==
  \A k \in Runs, r \in Revisions :
    IsOpenAt(k, r, {"proposed"}) ~> ~IsOpenAt(k, r, {"proposed"})

===============================================================================
