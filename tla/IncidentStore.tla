----------------------------- MODULE IncidentStore -----------------------------
(***************************************************************************)
(* The SQLite store of the incident service: the tables runs, proposals    *)
(* and audit, and one action per transaction of class SQLiteStore.  A      *)
(* transaction runs under BEGIN IMMEDIATE, so each one is a single step;   *)
(* what a caller does between two transactions belongs to the modules that *)
(* extend this one.                                                        *)
(*                                                                         *)
(* The table runs has a UNIQUE idempotency key, so a run is named by its   *)
(* key; proposals has UNIQUE(run_id, revision), so a proposal is named by  *)
(* its run and its revision.  A missing row has the state "absent".        *)
(***************************************************************************)
EXTENDS Naturals, Sequences

CONSTANTS
  Runs,         \* idempotency keys, each owning at most one row of runs
  Payloads,     \* the payload_hash values of normalised events
  Options,      \* scenario, kind and remediation option of a proposal
  MaxRevision,  \* bound on the revisions of one run
  None          \* NULL

ASSUME StoreAssumption ==
  /\ MaxRevision \in Nat \ {0}
  /\ None \notin Runs \cup Payloads \cup Options

VARIABLES
  runState,     \* runs.state, by run
  payload,      \* runs.payload_hash, by run
  proposal,     \* the rows of proposals, by run and revision
  audit         \* the rows of audit in audit_id order, by run

storeVars == <<runState, payload, proposal, audit>>

Revisions == 1..MaxRevision

RunStates == {"absent", "received", "investigating", "assessed", "proposed",
              "approved", "rejected", "expired", "executing", "succeeded",
              "failed"}

ProposalStates == {"absent", "proposed", "approved", "rejected", "expired",
                   "superseded", "executing", "succeeded", "failed"}

(***************************************************************************)
(* action_hash covers the revision and the option; two proposals with the  *)
(* same digest have the same revision and the same option.                 *)
(***************************************************************************)
Digests == [revision : Revisions, option : Options]

action_hash(r, o) == [revision |-> r, option |-> o]

ProposalRows == [status        : ProposalStates,
                 option        : Options \cup {None},
                 expires_at    : Nat,
                 approved_hash : Digests \cup {None}]

NoRow == [status |-> "absent", option |-> None, expires_at |-> 0,
          approved_hash |-> None]

NewRow(option, expires_at) ==
  [status |-> "proposed", option |-> option, expires_at |-> expires_at,
   approved_hash |-> None]

WithStatus(row, status) == [row EXCEPT !.status = status]

(***************************************************************************)
(* Rows of the audit table.  A digest accompanies the decisions only.      *)
(***************************************************************************)
Entry(event, from, to, digest) ==
  [event |-> event, from |-> from, to |-> to, digest |-> digest]

Moved(from, to) == Entry("state_transition", from, to, None)

Noted(event) == Entry(event, "absent", "absent", None)

Decided(decision, digest) == Entry(decision, "absent", "absent", digest)

AuditEvents == {"event_received", "state_transition", "telemetry_collected",
                "model_completed", "proposal_created", "proposal_revised",
                "proposal_expired", "approve", "reject", "run_failed",
                "tool_call", "execution_result"}

AuditEntries == [event : AuditEvents, from : RunStates, to : RunStates,
                 digest : Digests \cup {None}]

StoreTypeOK ==
  /\ runState \in [Runs -> RunStates]
  /\ payload \in [Runs -> Payloads \cup {None}]
  /\ proposal \in [Runs -> [Revisions -> ProposalRows]]
  /\ audit \in [Runs -> Seq(AuditEntries)]

StoreInit ==
  /\ runState = [k \in Runs |-> "absent"]
  /\ payload = [k \in Runs |-> None]
  /\ proposal = [k \in Runs |-> [r \in Revisions |-> NoRow]]
  /\ audit = [k \in Runs |-> <<>>]

Terminal == {"succeeded", "failed", "rejected", "expired"}

Log(k, entries) == audit' = [audit EXCEPT ![k] = @ \o entries]

-------------------------------------------------------------------------------

(***************************************************************************)
(* Faulty: the caller of a duplicate event goes on as if it had inserted.  *)
(***************************************************************************)
create_run_duplicate(k, p) ==
  /\ runState[k] \in {"absent", "received"}
  /\ runState' = [runState EXCEPT ![k] = "received"]
  /\ payload' = [payload EXCEPT ![k] = p]
  /\ Log(k, <<Noted("event_received")>>)
  /\ UNCHANGED proposal

(***************************************************************************)
(* The branch of create_or_get_run that inserts.  The two others, a        *)
(* duplicate and a payload conflict, leave the tables as they are.         *)
(***************************************************************************)
create_run(k, p) ==
  /\ runState[k] = "absent"
  /\ runState' = [runState EXCEPT ![k] = "received"]
  /\ payload' = [payload EXCEPT ![k] = p]
  /\ Log(k, <<Noted("event_received")>>)
  /\ UNCHANGED proposal

transition_run(k, expected, new) ==
  /\ runState[k] = expected
  /\ runState' = [runState EXCEPT ![k] = new]
  /\ Log(k, <<Moved(expected, new)>>)
  /\ UNCHANGED <<payload, proposal>>

create_audit(k, event) ==
  /\ Log(k, <<Noted(event)>>)
  /\ UNCHANGED <<runState, payload, proposal>>

(***************************************************************************)
(* fail_run leaves a run that is terminal alone; it never looks at the     *)
(* proposals.                                                              *)
(***************************************************************************)
fail_run(k) ==
  IF runState[k] \in Terminal
    THEN UNCHANGED storeVars
    ELSE /\ runState' = [runState EXCEPT ![k] = "failed"]
         /\ Log(k, <<Moved(runState[k], "failed"), Noted("run_failed")>>)
         /\ UNCHANGED <<payload, proposal>>

create_proposal_and_transition(k, row) ==
  /\ proposal[k][1].status = "absent"
  /\ runState[k] = "assessed"
  /\ proposal' = [proposal EXCEPT ![k][1] = row]
  /\ runState' = [runState EXCEPT ![k] = "proposed"]
  /\ Log(k, <<Moved("assessed", "proposed"), Noted("proposal_created")>>)
  /\ UNCHANGED payload

-------------------------------------------------------------------------------

(***************************************************************************)
(* The guards of decide_proposal, in the order of the code.                *)
(***************************************************************************)
Binds(k, r, digest) == digest = action_hash(r, proposal[k][r].option)

AwaitsDecision(k, r) ==
  /\ proposal[k][r].status = "proposed"
  /\ runState[k] = "proposed"

Overdue(k, r, now) == now >= proposal[k][r].expires_at

\* Faulty: a decision is bound to the option but not to the open state.
Decidable_in_any_state(k, r, digest) == Binds(k, r, digest)

Decidable(k, r, digest) == Binds(k, r, digest) /\ AwaitsDecision(k, r)

\* Faulty: the run is left as it is.
expire_locked_proposal_only(k, r) ==
  /\ proposal' = [proposal EXCEPT ![k][r] = WithStatus(@, "expired")]
  /\ Log(k, <<Noted("proposal_expired")>>)
  /\ UNCHANGED <<runState, payload>>

\* Faulty: the audit row names the state a decision expects, not the state read.
expire_locked_from_proposed(k, r) ==
  /\ proposal' = [proposal EXCEPT ![k][r] = WithStatus(@, "expired")]
  /\ runState' = [runState EXCEPT ![k] = "expired"]
  /\ Log(k, <<Moved("proposed", "expired"), Noted("proposal_expired")>>)
  /\ UNCHANGED payload

\* Faulty: the audit names the proposal but not the transition of the run.
expire_locked_without_transition(k, r) ==
  /\ proposal' = [proposal EXCEPT ![k][r] = WithStatus(@, "expired")]
  /\ runState' = [runState EXCEPT ![k] = "expired"]
  /\ Log(k, <<Noted("proposal_expired")>>)
  /\ UNCHANGED payload

(***************************************************************************)
(* _expire_locked: the proposal and its run expire together.               *)
(***************************************************************************)
expire_locked(k, r) ==
  /\ proposal' = [proposal EXCEPT ![k][r] = WithStatus(@, "expired")]
  /\ runState' = [runState EXCEPT ![k] = "expired"]
  /\ Log(k, <<Moved(runState[k], "expired"), Noted("proposal_expired")>>)
  /\ UNCHANGED payload

\* Faulty: the old revision stays open.
revise_proposal_keeping_old(k, r, row) ==
  /\ proposal[k][r + 1].status = "absent"
  /\ proposal' = [proposal EXCEPT ![k][r + 1] = row]
  /\ Log(k, <<Noted("proposal_revised")>>)
  /\ UNCHANGED <<runState, payload>>

(***************************************************************************)
(* A revision supersedes the proposal and inserts its replacement; the     *)
(* INSERT raises when UNIQUE(run_id, revision) is already taken.           *)
(***************************************************************************)
revise_proposal(k, r, row) ==
  /\ proposal[k][r + 1].status = "absent"
  /\ proposal' = [proposal EXCEPT ![k][r] = WithStatus(@, "superseded"),
                                  ![k][r + 1] = row]
  /\ Log(k, <<Noted("proposal_revised")>>)
  /\ UNCHANGED <<runState, payload>>

settle_proposal(k, r, decision, digest) ==
  LET state == IF decision = "approve" THEN "approved" ELSE "rejected"
      hash  == IF decision = "approve" THEN digest ELSE None
      row   == [WithStatus(proposal[k][r], state) EXCEPT !.approved_hash = hash]
  IN  /\ proposal' = [proposal EXCEPT ![k][r] = row]
      /\ runState' = [runState EXCEPT ![k] = state]
      /\ Log(k, <<Moved("proposed", state), Decided(decision, digest)>>)
      /\ UNCHANGED payload

-------------------------------------------------------------------------------

\* Faulty: only the run has to be approved.
Claimable_by_run(k, r, digest) == runState[k] = "approved" /\ Binds(k, r, digest)

\* Faulty: the stored approval is enough, whatever happened since.
Claimable_by_hash(k, r, digest) ==
  Binds(k, r, digest) /\ proposal[k][r].approved_hash = digest

\* Faulty: an open proposal needs no approval.
Claimable_unapproved(k, r, digest) ==
  /\ proposal[k][r].status \in {"proposed", "approved"}
  /\ Binds(k, r, digest)

(***************************************************************************)
(* The guards of claim_execution.                                          *)
(***************************************************************************)
Claimable(k, r, digest) ==
  /\ proposal[k][r].status = "approved"
  /\ runState[k] = "approved"
  /\ Binds(k, r, digest)
  /\ proposal[k][r].approved_hash = digest

claim_execution(k, r) ==
  /\ proposal' = [proposal EXCEPT ![k][r] = WithStatus(@, "executing")]
  /\ runState' = [runState EXCEPT ![k] = "executing"]
  /\ Log(k, <<Moved("approved", "executing")>>)
  /\ UNCHANGED payload

finalize_execution(k, r, final) ==
  /\ proposal[k][r].status = "executing"
  /\ runState[k] = "executing"
  /\ proposal' = [proposal EXCEPT ![k][r] = WithStatus(@, final)]
  /\ runState' = [runState EXCEPT ![k] = final]
  /\ Log(k, <<Moved("executing", final), Noted("execution_result")>>)
  /\ UNCHANGED payload

(***************************************************************************)
(* expire_due takes every due proposal whose run is still open, in the     *)
(* order they were created: once one of them has expired the run, a later  *)
(* one is skipped.                                                         *)
(***************************************************************************)
\* Faulty: the sweep takes a claimed proposal as well.
Due_while_executing(k, r, now) ==
  /\ proposal[k][r].status \in {"proposed", "approved", "executing"}
  /\ runState[k] \in {"proposed", "approved", "executing"}
  /\ Overdue(k, r, now)

Due(k, r, now) ==
  /\ proposal[k][r].status \in {"proposed", "approved"}
  /\ runState[k] \in {"proposed", "approved"}
  /\ Overdue(k, r, now)

FirstDue(k, r, now) ==
  Due(k, r, now) /\ \A q \in 1..(r - 1) : ~Due(k, q, now)

expire_due(now) ==
  LET due == {k \in Runs : \E r \in Revisions : Due(k, r, now)}
  IN  /\ proposal' = [k \in Runs |-> [r \in Revisions |->
                        IF FirstDue(k, r, now)
                          THEN WithStatus(proposal[k][r], "expired")
                          ELSE proposal[k][r]]]
      /\ runState' = [k \in Runs |->
                        IF k \in due THEN "expired" ELSE runState[k]]
      /\ audit' = [k \in Runs |->
                     IF k \in due
                       THEN audit[k] \o <<Moved(runState[k], "expired"),
                                          Noted("proposal_expired")>>
                       ELSE audit[k]]
      /\ UNCHANGED payload

===============================================================================
