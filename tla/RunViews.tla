-------------------------------- MODULE RunViews --------------------------------
(***************************************************************************)
(* What a client sees: get_run reads the run, its latest proposal and its  *)
(* audit trail one after the other, each under the lock, none of them in   *)
(* one transaction.  Every endpoint answers with such a view.              *)
(***************************************************************************)
EXTENDS IncidentService, FiniteSets

VARIABLE view  \* the view one reader is putting together

viewVars == <<vars, view>>

Views == [pc       : {"idle", "run", "proposal", "done"},
          run      : Runs \cup {None},
          state    : RunStates,
          revision : Revisions \cup {0},
          status   : ProposalStates,
          trail    : Nat]

NoView == [pc |-> "idle", run |-> None, state |-> "absent", revision |-> 0,
           status |-> "absent", trail |-> 0]

ViewTypeOK == TypeOK /\ view \in Views

ViewInit == Init /\ view = NoView

\* The revision of the newest proposal, 0 when there is none.
LatestRevision(k) ==
  CHOOSE r \in Revisions \cup {0} :
    /\ r # 0 => proposal[k][r].status # "absent"
    /\ \A q \in Revisions : q > r => proposal[k][q].status = "absent"

ReadRun(k) ==
  /\ view.pc = "idle"
  /\ runState[k] # "absent"
  /\ view' = [NoView EXCEPT !.pc = "run", !.run = k, !.state = runState[k]]
  /\ UNCHANGED vars

\* Faulty: the proposal read is the first one.
ReadLatestProposal_first ==
  /\ view.pc = "run"
  /\ LET r == IF LatestRevision(view.run) = 0 THEN 0 ELSE 1
     IN  view' = [view EXCEPT !.pc = "proposal", !.revision = r,
                    !.status = IF r = 0 THEN "absent"
                                        ELSE proposal[view.run][r].status]
  /\ UNCHANGED vars

ReadLatestProposal ==
  /\ view.pc = "run"
  /\ LET r == LatestRevision(view.run)
     IN  view' = [view EXCEPT !.pc = "proposal", !.revision = r,
                    !.status = IF r = 0 THEN "absent"
                                        ELSE proposal[view.run][r].status]
  /\ UNCHANGED vars

(***************************************************************************)
(* Audit rows are only ever appended: the trail read is named by its       *)
(* length.                                                                 *)
(***************************************************************************)
ReadAudit ==
  /\ view.pc = "proposal"
  /\ view' = [view EXCEPT !.pc = "done", !.trail = Len(audit[view.run])]
  /\ UNCHANGED vars

Respond ==
  /\ view.pc = "done"
  /\ view' = NoView
  /\ UNCHANGED vars

ViewNext ==
  \/ Next /\ UNCHANGED view
  \/ \E k \in Runs : ReadRun(k)
  \/ ReadLatestProposal \/ ReadAudit \/ Respond

ViewSpec == ViewInit /\ [][ViewNext]_viewVars

-------------------------------------------------------------------------------

(***************************************************************************)
(* A view is torn but never runs backwards: the proposal it shows, read    *)
(* after the run, is the newest one and has come at least as far as the    *)
(* run had, whatever was decided, revised, claimed or swept in between.    *)
(***************************************************************************)
Reachable(state) ==
  CASE state \in {"received", "investigating", "assessed"} ->
         ProposalStates \ {"superseded"}
    [] state = "proposed"  -> ProposalStates \ {"absent", "superseded"}
    [] state = "approved"  -> {"approved", "executing", "succeeded", "failed",
                               "expired"}
    [] state = "executing" -> {"executing", "succeeded", "failed"}
    [] state = "failed"    -> {"failed", "absent"}
    [] OTHER               -> {state}

ViewNeverRunsBackwards ==
  view.pc \in {"proposal", "done"} => view.status \in Reachable(view.state)

(***************************************************************************)
(* The audit trail is read last, so it explains everything else the view   *)
(* shows: the transition to the run's state, the one to the proposal's     *)
(* status and each revision up to the one shown are among its rows.        *)
(***************************************************************************)
Explained(k, state, n) ==
  \E j \in 1..n : audit[k][j].event = "state_transition" /\ audit[k][j].to = state

ViewIsExplained ==
  view.pc = "done" =>
    /\ view.state # "received" => Explained(view.run, view.state, view.trail)
    /\ view.status # "absent" => Explained(view.run, view.status, view.trail)
    /\ view.revision <= 1 + Cardinality({j \in 1..view.trail :
                              audit[view.run][j].event = "proposal_revised"})

===============================================================================
