---------------------------- MODULE RunbookRegistry ----------------------------
(***************************************************************************)
(* The governed registry of runbooks: candidates are submitted, revised or *)
(* reviewed, and one that a reviewer approved and the deterministic gate   *)
(* passed becomes the next version of its runbook.  Reviewers of several   *)
(* processes share the database; each reads a candidate, works on what it  *)
(* read, and enters a transaction later.  The capability registry runs the *)
(* same protocol on tables of its own.                                     *)
(***************************************************************************)
EXTENDS Naturals, Sequences

CONSTANTS
  Candidates,  \* candidate_id values (uuid4), never used twice
  Runbooks,    \* problem_signature, which is also the runbook_id
  Texts,       \* the rest of a proposal
  Reviewers,   \* threads that review
  None         \* NULL

ASSUME RegistryAssumption == None \notin Candidates

(***************************************************************************)
(* passes: the verdict of the evaluator, a function of the proposal alone. *)
(***************************************************************************)
Proposals == [runbook : Runbooks, passes : BOOLEAN, text : Texts]

VARIABLES
  candidate,  \* the rows of runbook_candidates
  promoted,   \* the rows of promoted_runbooks, by runbook, in version order
  reviewer    \* what each reviewer is doing, with its local variables

vars == <<candidate, promoted, reviewer>>

CandidateStates == {"absent", "pending_review", "superseded", "rejected",
                    "evaluation_failed", "promoted"}

Decided == {"superseded", "rejected", "evaluation_failed", "promoted"}

Rows == [state      : CandidateStates,
         proposal   : Proposals \cup {None},
         supersedes : Candidates \cup {None}]

Versions == [source : Candidates, proposal : Proposals]

ReviewerStates == [pc        : {"idle", "revising", "rejecting", "failing",
                                "promoting"},
                   candidate : Candidates \cup {None},
                   proposal  : Proposals \cup {None}]

Idle == [pc |-> "idle", candidate |-> None, proposal |-> None]

TypeOK ==
  /\ candidate \in [Candidates -> Rows]
  /\ promoted \in [Runbooks -> Seq(Versions)]
  /\ reviewer \in [Reviewers -> ReviewerStates]

Init ==
  /\ candidate = [c \in Candidates |->
                    [state |-> "absent", proposal |-> None, supersedes |-> None]]
  /\ promoted = [b \in Runbooks |-> <<>>]
  /\ reviewer = [v \in Reviewers |-> Idle]

IsPending(c) == candidate[c].state = "pending_review"

Pending(proposal, supersedes) ==
  [state |-> "pending_review", proposal |-> proposal, supersedes |-> supersedes]

Return(v) == reviewer' = [reviewer EXCEPT ![v] = Idle]

-------------------------------------------------------------------------------

submit(c, proposal) ==
  /\ candidate[c].state = "absent"
  /\ candidate' = [candidate EXCEPT ![c] = Pending(proposal, None)]
  /\ UNCHANGED <<promoted, reviewer>>

(***************************************************************************)
(* revise up to its transaction: the candidate is read and the revision    *)
(* built.  reviewer.proposal is the revised one.                           *)
(***************************************************************************)
BeginRevision(v, c, proposal) ==
  /\ reviewer[v].pc = "idle"
  /\ IsPending(c)
  /\ reviewer' = [reviewer EXCEPT ![v] =
                    [pc |-> "revising", candidate |-> c, proposal |-> proposal]]
  /\ UNCHANGED <<candidate, promoted>>

\* Faulty: approval alone promotes.
BeginReview_ungated(v, c, decision) ==
  LET pc == IF decision = "reject" THEN "rejecting" ELSE "promoting"
  IN  /\ reviewer[v].pc = "idle"
      /\ IsPending(c)
      /\ reviewer' = [reviewer EXCEPT ![v] =
                        [pc |-> pc, candidate |-> c,
                         proposal |-> candidate[c].proposal]]
      /\ UNCHANGED <<candidate, promoted>>

(***************************************************************************)
(* review up to its transaction: the candidate is read and, for an         *)
(* approval, evaluated.                                                    *)
(***************************************************************************)
BeginReview(v, c, decision) ==
  LET proposal == candidate[c].proposal
      pc == IF decision = "reject" THEN "rejecting"
            ELSE IF proposal.passes THEN "promoting" ELSE "failing"
  IN  /\ reviewer[v].pc = "idle"
      /\ IsPending(c)
      /\ reviewer' = [reviewer EXCEPT ![v] =
                        [pc |-> pc, candidate |-> c, proposal |-> proposal]]
      /\ UNCHANGED <<candidate, promoted>>

\* Faulty: the UPDATE is not conditional.
Revise_unconditional(v, d) ==
  LET me == reviewer[v]
  IN  /\ me.pc = "revising"
      /\ candidate[d].state = "absent"
      /\ candidate' = [candidate EXCEPT
                         ![me.candidate].state = "superseded",
                         ![d] = Pending(me.proposal, me.candidate)]
      /\ Return(v)
      /\ UNCHANGED promoted

Revise(v, d) ==
  LET me == reviewer[v]
  IN  /\ me.pc = "revising"
      /\ IsPending(me.candidate)
      /\ candidate[d].state = "absent"
      /\ candidate' = [candidate EXCEPT
                         ![me.candidate].state = "superseded",
                         ![d] = Pending(me.proposal, me.candidate)]
      /\ Return(v)
      /\ UNCHANGED promoted

Verdict(pc) == IF pc = "rejecting" THEN "rejected" ELSE "evaluation_failed"

\* Faulty: the UPDATE is not conditional.
TurnDown_unconditional(v) ==
  LET me == reviewer[v]
  IN  /\ me.pc \in {"rejecting", "failing"}
      /\ candidate' = [candidate EXCEPT ![me.candidate].state = Verdict(me.pc)]
      /\ Return(v)
      /\ UNCHANGED promoted

(***************************************************************************)
(* A rejection, or an approval that the gate did not pass: one UPDATE.     *)
(***************************************************************************)
TurnDown(v) ==
  LET me == reviewer[v]
  IN  /\ me.pc \in {"rejecting", "failing"}
      /\ IsPending(me.candidate)
      /\ candidate' = [candidate EXCEPT ![me.candidate].state = Verdict(me.pc)]
      /\ Return(v)
      /\ UNCHANGED promoted

\* Faulty: the candidate may have been decided since it was read.
Promote_unconditional(v) ==
  LET me == reviewer[v]
  IN  /\ me.pc = "promoting"
      /\ candidate' = [candidate EXCEPT ![me.candidate].state = "promoted"]
      /\ promoted' = [promoted EXCEPT ![me.proposal.runbook] =
                        Append(@, [source   |-> me.candidate,
                                   proposal |-> me.proposal])]
      /\ Return(v)

(***************************************************************************)
(* The new version is MAX(version) + 1: rows are never deleted, so the     *)
(* versions of a runbook are the positions of a sequence.                  *)
(***************************************************************************)
Promote(v) ==
  LET me == reviewer[v]
  IN  /\ me.pc = "promoting"
      /\ IsPending(me.candidate)
      /\ candidate' = [candidate EXCEPT ![me.candidate].state = "promoted"]
      /\ promoted' = [promoted EXCEPT ![me.proposal.runbook] =
                        Append(@, [source   |-> me.candidate,
                                   proposal |-> me.proposal])]
      /\ Return(v)

(***************************************************************************)
(* Another reviewer decided first, the database stays locked, or the       *)
(* process dies: whatever was begun is rolled back.                        *)
(***************************************************************************)
LoseReview(v) ==
  /\ reviewer[v].pc # "idle"
  /\ Return(v)
  /\ UNCHANGED <<candidate, promoted>>

Next ==
  \/ \E c \in Candidates, p \in Proposals : submit(c, p)
  \/ \E v \in Reviewers :
       \/ \E c \in Candidates, p \in Proposals : BeginRevision(v, c, p)
       \/ \E c \in Candidates : \E decision \in {"approve", "reject"} :
            BeginReview(v, c, decision)
       \/ \E d \in Candidates : Revise(v, d)
       \/ TurnDown(v) \/ Promote(v) \/ LoseReview(v)

Spec == Init /\ [][Next]_vars

-------------------------------------------------------------------------------
(* PROPERTIES                                                              *)

(***************************************************************************)
(* Approval alone promotes nothing: every version comes from a candidate   *)
(* that passed the gate and was promoted, with the very text that was      *)
(* evaluated, and a promoted candidate is the source of one version.       *)
(***************************************************************************)
IsSource(c, b, n) == n \in DOMAIN promoted[b] /\ promoted[b][n].source = c

VersionsAreReviewed ==
  \A b \in Runbooks : \A n \in DOMAIN promoted[b] :
    LET version == promoted[b][n]
    IN  /\ candidate[version.source].state = "promoted"
        /\ candidate[version.source].proposal = version.proposal
        /\ version.proposal.runbook = b
        /\ version.proposal.passes

PromotedOnce ==
  \A c \in Candidates : candidate[c].state = "promoted" =>
    /\ \E b \in Runbooks : \E n \in DOMAIN promoted[b] : IsSource(c, b, n)
    /\ \A b1, b2 \in Runbooks :
         \A n1 \in DOMAIN promoted[b1], n2 \in DOMAIN promoted[b2] :
           IsSource(c, b1, n1) /\ IsSource(c, b2, n2) => b1 = b2 /\ n1 = n2

(***************************************************************************)
(* However revisions, rejections and approvals race, the revisions of a    *)
(* submission form one line: a candidate is superseded exactly when one    *)
(* other candidate replaced it, so that at most one of a line is open or   *)
(* promoted.                                                               *)
(***************************************************************************)
LineageIsLinear ==
  \A c \in Candidates :
    /\ \A d \in Candidates : candidate[d].supersedes = c =>
         candidate[c].state = "superseded"
    /\ candidate[c].state = "superseded" =>
         \E d \in Candidates : candidate[d].supersedes = c
    /\ \A d, e \in Candidates :
         candidate[d].supersedes = c /\ candidate[e].supersedes = c => d = e

(***************************************************************************)
(* A decision is final and a version immutable: no step of a late reviewer *)
(* changes a decided candidate, the proposal of any candidate, or a        *)
(* version that a retrieval may already have returned.                     *)
(***************************************************************************)
DecisionsAreFinal ==
  [][/\ \A c \in Candidates : candidate[c].state \in Decided =>
          candidate'[c] = candidate[c]
     /\ \A c \in Candidates : candidate[c].state # "absent" =>
          candidate'[c].proposal = candidate[c].proposal
     /\ \A b \in Runbooks : \A n \in DOMAIN promoted[b] :
          n \in DOMAIN promoted'[b] /\ promoted'[b][n] = promoted[b][n]]_vars

(***************************************************************************)
(* The inductive invariant.  A reviewer on its way to a promotion holds    *)
(* the proposal of its candidate, and that proposal passed.                *)
(***************************************************************************)
RowsAreComplete ==
  \A c \in Candidates :
    /\ candidate[c].state # "absent" => candidate[c].proposal \in Proposals
    /\ candidate[c].state = "absent" => candidate[c].supersedes = None
    /\ candidate[c].supersedes # c

ReviewsAreBound ==
  \A v \in Reviewers :
    LET me == reviewer[v]
    IN  /\ me.pc # "idle" =>
             /\ me.candidate \in Candidates
             /\ me.proposal \in Proposals
             /\ candidate[me.candidate].state # "absent"
        /\ me.pc = "promoting" =>
             /\ me.proposal = candidate[me.candidate].proposal
             /\ me.proposal.passes

IInv ==
  /\ TypeOK
  /\ RowsAreComplete
  /\ ReviewsAreBound
  /\ VersionsAreReviewed
  /\ PromotedOnce
  /\ LineageIsLinear

===============================================================================
