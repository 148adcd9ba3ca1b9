--------------------------- MODULE CapabilityRegistry ---------------------------
(***************************************************************************)
(* The registry of capabilities, statement by statement: tables of its own *)
(* in a database that several processes share, with the transactions of    *)
(* revise and of a promotion open between their statements, and the        *)
(* history of activations.  It implements the protocol of RunbookRegistry, *)
(* where each of those transactions is one step.                           *)
(***************************************************************************)
EXTENDS Naturals, Sequences

CONSTANTS
  Candidates,    \* candidate_id values (uuid4), never used twice
  Capabilities,  \* capability_id
  Texts,         \* the rest of a proposal
  Reviewers,     \* callers of the registry, each in a thread of some process
  Numbers,       \* the versions a caller may name
  None           \* NULL

(***************************************************************************)
(* passes: the verdict of the evaluator, a function of the proposal alone  *)
(* (PromotionGate).                                                        *)
(***************************************************************************)
Proposals == [capability : Capabilities, passes : BOOLEAN, text : Texts]

ASSUME CapabilityRegistryAssumption ==
  /\ None \notin Candidates
  /\ None \notin Reviewers
  /\ None \notin Proposals
  /\ Numbers \subseteq Nat \ {0}

VARIABLES
  candidate,    \* the rows of capability_candidates, as committed
  promoted,     \* the rows of promoted_capabilities, in version order
  activations,  \* the rows of capability_activations
  reviewer,     \* what each caller is doing, with its local variables
  transaction   \* the open BEGIN IMMEDIATE, with the rows as it sees them

vars == <<candidate, promoted, activations, reviewer, transaction>>

CandidateStates == {"absent", "pending_review", "superseded", "rejected",
                    "evaluation_failed", "promoted"}

Rows == [state      : CandidateStates,
         proposal   : Proposals \cup {None},
         supersedes : Candidates \cup {None}]

Versions == [source : Candidates, proposal : Proposals]

Activation == [capability : Capabilities, version : Numbers]

ReviewerStates == [pc         : {"idle", "revising", "rejecting", "failing",
                                 "promoting", "recording"},
                   candidate  : Candidates \cup {None},
                   proposal   : Proposals \cup {None},
                   revision   : Candidates \cup {None},
                   activation : Activation \cup {None}]

Transactions == [by        : Reviewers \cup {None},
                 step      : {"none", "begun", "updated", "inserted"},
                 candidate : [Candidates -> Rows],
                 promoted  : [Capabilities -> Seq(Versions)]]

Idle == [pc |-> "idle", candidate |-> None, proposal |-> None,
         revision |-> None, activation |-> None]

TypeOK ==
  /\ candidate \in [Candidates -> Rows]
  /\ promoted \in [Capabilities -> Seq(Versions)]
  /\ activations \subseteq Activation
  /\ reviewer \in [Reviewers -> ReviewerStates]
  /\ transaction \in Transactions

NoRows == [c \in Candidates |->
             [state |-> "absent", proposal |-> None, supersedes |-> None]]

NoVersions == [k \in Capabilities |-> <<>>]

NoTransaction == [by |-> None, step |-> "none",
                  candidate |-> NoRows, promoted |-> NoVersions]

Init ==
  /\ candidate = NoRows
  /\ promoted = NoVersions
  /\ activations = {}
  /\ reviewer = [v \in Reviewers |-> Idle]
  /\ transaction = NoTransaction

IsPending(c) == candidate[c].state = "pending_review"

Pending(proposal, supersedes) ==
  [state |-> "pending_review", proposal |-> proposal, supersedes |-> supersedes]

\* The UUID of a revision is drawn before its row is inserted.
IsFresh(c) == /\ candidate[c].state = "absent"
              /\ \A v \in Reviewers : reviewer[v].revision # c

Return(v) == reviewer' = [reviewer EXCEPT ![v] = Idle]

\* No other connection writes while a transaction is open.
IsUnlocked == transaction.by = None

-------------------------------------------------------------------------------

submit(c, proposal) ==
  /\ IsUnlocked
  /\ IsFresh(c)
  /\ candidate' = [candidate EXCEPT ![c] = Pending(proposal, None)]
  /\ UNCHANGED <<promoted, activations, reviewer, transaction>>

(***************************************************************************)
(* revise up to its transaction.                                           *)
(***************************************************************************)
BeginRevision(v, c, d, proposal) ==
  /\ reviewer[v].pc = "idle"
  /\ IsPending(c)
  /\ IsFresh(d)
  /\ reviewer' = [reviewer EXCEPT ![v] =
                    [pc |-> "revising", candidate |-> c, proposal |-> proposal,
                     revision |-> d, activation |-> None]]
  /\ UNCHANGED <<candidate, promoted, activations, transaction>>

(***************************************************************************)
(* review up to its first write: the candidate is read and, for an         *)
(* approval, evaluated.                                                    *)
(***************************************************************************)
BeginReview(v, c, decision) ==
  LET proposal == candidate[c].proposal
      pc == IF decision = "reject" THEN "rejecting"
            ELSE IF proposal.passes THEN "promoting" ELSE "failing"
  IN  /\ reviewer[v].pc = "idle"
      /\ IsPending(c)
      /\ reviewer' = [reviewer EXCEPT ![v] =
                        [pc |-> pc, candidate |-> c, proposal |-> proposal,
                         revision |-> None, activation |-> None]]
      /\ UNCHANGED <<candidate, promoted, activations, transaction>>

Verdict(pc) == IF pc = "rejecting" THEN "rejected" ELSE "evaluation_failed"

TurnDown(v) ==
  LET me == reviewer[v]
  IN  /\ me.pc \in {"rejecting", "failing"}
      /\ IsUnlocked
      /\ IsPending(me.candidate)
      /\ candidate' = [candidate EXCEPT ![me.candidate].state = Verdict(me.pc)]
      /\ Return(v)
      /\ UNCHANGED <<promoted, activations, transaction>>

(***************************************************************************)
(* BEGIN IMMEDIATE: the write lock is taken before anything is read, so    *)
(* the rows the statements see are those that were committed last.         *)
(***************************************************************************)
Begin(v) ==
  /\ reviewer[v].pc \in {"revising", "promoting"}
  /\ IsUnlocked
  /\ transaction' = [by |-> v, step |-> "begun",
                     candidate |-> candidate, promoted |-> promoted]
  /\ UNCHANGED <<candidate, promoted, activations, reviewer>>

\* Faulty: the candidate may have been decided since it was read.
Update_unconditional(v) ==
  LET c == reviewer[v].candidate
      state == IF reviewer[v].pc = "revising" THEN "superseded" ELSE "promoted"
  IN  /\ transaction.by = v
      /\ transaction.step = "begun"
      /\ transaction' = [transaction EXCEPT !.step = "updated",
                                            !.candidate[c].state = state]
      /\ UNCHANGED <<candidate, promoted, activations, reviewer>>

(***************************************************************************)
(* The conditional UPDATE; unless it changes one row the caller raises.    *)
(***************************************************************************)
Update(v) ==
  LET c == reviewer[v].candidate
      state == IF reviewer[v].pc = "revising" THEN "superseded" ELSE "promoted"
  IN  /\ transaction.by = v
      /\ transaction.step = "begun"
      /\ transaction.candidate[c].state = "pending_review"
      /\ transaction' = [transaction EXCEPT !.step = "updated",
                                            !.candidate[c].state = state]
      /\ UNCHANGED <<candidate, promoted, activations, reviewer>>

(***************************************************************************)
(* The INSERT: of the revision, or of version MAX(version) + 1.            *)
(***************************************************************************)
Insert(v) ==
  LET me == reviewer[v]
  IN  /\ transaction.by = v
      /\ transaction.step = "updated"
      /\ \/ /\ me.pc = "revising"
            /\ transaction' =
                 [transaction EXCEPT
                    !.step = "inserted",
                    !.candidate[me.revision] = Pending(me.proposal, me.candidate)]
         \/ /\ me.pc = "promoting"
            /\ transaction' =
                 [transaction EXCEPT
                    !.step = "inserted",
                    !.promoted[me.proposal.capability] =
                      Append(@, [source   |-> me.candidate,
                                 proposal |-> me.proposal])]
      /\ UNCHANGED <<candidate, promoted, activations, reviewer>>

Release == transaction' = NoTransaction

Commit(v) ==
  /\ transaction.by = v
  /\ transaction.step = "inserted"
  /\ candidate' = transaction.candidate
  /\ promoted' = transaction.promoted
  /\ Release
  /\ Return(v)
  /\ UNCHANGED activations

\* Faulty: a caller that raises leaves what it wrote so far.
Lose_keeping(v) ==
  /\ reviewer[v].pc # "idle"
  /\ IF transaction.by = v
     THEN /\ candidate' = transaction.candidate
          /\ promoted' = transaction.promoted
          /\ Release
     ELSE UNCHANGED <<candidate, promoted, transaction>>
  /\ Return(v)
  /\ UNCHANGED activations

(***************************************************************************)
(* Another caller decided first, the database stays locked, a statement    *)
(* raises, or the process dies: the open transaction is rolled back.       *)
(***************************************************************************)
Lose(v) ==
  /\ reviewer[v].pc # "idle"
  /\ IF transaction.by = v THEN Release ELSE UNCHANGED transaction
  /\ Return(v)
  /\ UNCHANGED <<candidate, promoted, activations>>

\* get_promoted finds the row, whose text still has its digest.
IsPromoted(capability, version) == version \in DOMAIN promoted[capability]

\* Faulty: whatever the caller names is recorded.
BeginRecord_unchecked(v, capability, version) ==
  /\ reviewer[v].pc = "idle"
  /\ reviewer' = [reviewer EXCEPT ![v] =
                    [pc |-> "recording", candidate |-> None, proposal |-> None,
                     revision |-> None,
                     activation |-> [capability |-> capability,
                                     version    |-> version]]]
  /\ UNCHANGED <<candidate, promoted, activations, transaction>>

(***************************************************************************)
(* record_activation: the version is looked up, then the row inserted.     *)
(***************************************************************************)
BeginRecord(v, capability, version) ==
  /\ reviewer[v].pc = "idle"
  /\ IsPromoted(capability, version)
  /\ reviewer' = [reviewer EXCEPT ![v] =
                    [pc |-> "recording", candidate |-> None, proposal |-> None,
                     revision |-> None,
                     activation |-> [capability |-> capability,
                                     version    |-> version]]]
  /\ UNCHANGED <<candidate, promoted, activations, transaction>>

record_activation(v) ==
  /\ reviewer[v].pc = "recording"
  /\ IsUnlocked
  /\ activations' = activations \cup {reviewer[v].activation}
  /\ Return(v)
  /\ UNCHANGED <<candidate, promoted, transaction>>

Next ==
  \/ \E c \in Candidates, p \in Proposals : submit(c, p)
  \/ \E v \in Reviewers :
       \/ \E c, d \in Candidates : \E p \in Proposals : BeginRevision(v, c, d, p)
       \/ \E c \in Candidates : \E decision \in {"approve", "reject"} :
            BeginReview(v, c, decision)
       \/ \E k \in Capabilities : \E n \in Numbers : BeginRecord(v, k, n)
       \/ TurnDown(v)
       \/ Begin(v) \/ Update(v) \/ Insert(v) \/ Commit(v)
       \/ record_activation(v)
       \/ Lose(v)

Spec == Init /\ [][Next]_vars

-------------------------------------------------------------------------------
(* PROPERTIES                                                              *)

(***************************************************************************)
(* The history of activations cites only versions of the registry, and     *)
(* only ones whose candidate passed the gate under the same text, whoever  *)
(* reviews or promotes between the lookup and the INSERT.                  *)
(***************************************************************************)
ActivationsCitePromoted ==
  \A a \in activations :
    /\ IsPromoted(a.capability, a.version)
    /\ LET version == promoted[a.capability][a.version]
       IN  /\ version.proposal.passes
           /\ candidate[version.source].state = "promoted"
           /\ candidate[version.source].proposal = version.proposal

(***************************************************************************)
(* The statements of the registry implement the governed protocol: read as *)
(* rows of runbooks, the committed rows of capabilities change only as a   *)
(* review, a revision or a promotion of RunbookRegistry changes them in    *)
(* one step.  A transaction that is lost half-way changed nothing.         *)
(***************************************************************************)
AsRunbook(p) ==
  IF p = None THEN None
  ELSE [runbook |-> p.capability, passes |-> p.passes, text |-> p.text]

CandidateAsRunbook ==
  [c \in Candidates |-> [candidate[c] EXCEPT !.proposal = AsRunbook(@)]]

PromotedAsRunbook ==
  [k \in Capabilities |->
     [n \in DOMAIN promoted[k] |->
        [promoted[k][n] EXCEPT !.proposal = AsRunbook(@)]]]

ReviewerAsRunbook ==
  [v \in Reviewers |->
     LET me == reviewer[v]
     IN  [pc        |-> IF me.pc = "recording" THEN "idle" ELSE me.pc,
          candidate |-> me.candidate,
          proposal  |-> AsRunbook(me.proposal)]]

Governed == INSTANCE RunbookRegistry
              WITH Runbooks  <- Capabilities,
                   candidate <- CandidateAsRunbook,
                   promoted  <- PromotedAsRunbook,
                   reviewer  <- ReviewerAsRunbook

IsGoverned == Governed!Spec

(***************************************************************************)
(* The inductive invariant.  What a caller holds still means what it read; *)
(* what an open transaction sees is what was committed, with the           *)
(* statements that were executed, of a candidate that is still pending.    *)
(***************************************************************************)
RowsAreComplete ==
  \A c \in Candidates :
    candidate[c].state # "absent" => candidate[c].proposal \in Proposals

VersionsAreReviewed ==
  \A k \in Capabilities : \A n \in DOMAIN promoted[k] :
    LET version == promoted[k][n]
    IN  /\ version.proposal.passes
        /\ candidate[version.source].state = "promoted"
        /\ candidate[version.source].proposal = version.proposal

Reviewing == {"revising", "rejecting", "failing", "promoting"}

HoldsCandidate(me) ==
  IF me.pc \in Reviewing
    THEN /\ me.candidate \in Candidates
         /\ me.proposal \in Proposals
         /\ candidate[me.candidate].state # "absent"
    ELSE me.candidate = None /\ me.proposal = None

HoldsPromotion(me) ==
  me.pc = "promoting" => /\ me.proposal.passes
                         /\ me.proposal = candidate[me.candidate].proposal

HoldsRevision(me) ==
  IF me.pc = "revising"
    THEN me.revision \in Candidates /\ candidate[me.revision].state = "absent"
    ELSE me.revision = None

HoldsVersion(me) ==
  me.pc = "recording" =>
    /\ me.activation \in Activation
    /\ IsPromoted(me.activation.capability, me.activation.version)

CallersAreBound ==
  \A v \in Reviewers :
    /\ HoldsCandidate(reviewer[v]) /\ HoldsPromotion(reviewer[v])
    /\ HoldsRevision(reviewer[v])  /\ HoldsVersion(reviewer[v])

RevisionsAreDistinct ==
  \A v, u \in Reviewers :
    v # u /\ reviewer[v].pc = "revising" => reviewer[u].revision # reviewer[v].revision

Updated(me) ==
  [candidate EXCEPT ![me.candidate].state =
     IF me.pc = "revising" THEN "superseded" ELSE "promoted"]

Inserted(me) ==
  IF me.pc = "revising"
    THEN [Updated(me) EXCEPT ![me.revision] = Pending(me.proposal, me.candidate)]
    ELSE Updated(me)

Appended(me) ==
  IF me.pc = "revising"
    THEN promoted
    ELSE [promoted EXCEPT ![me.proposal.capability] =
            Append(@, [source |-> me.candidate, proposal |-> me.proposal])]

TransactionIsBound ==
  transaction.by # None =>
    LET me == reviewer[transaction.by]
    IN  /\ me.pc \in {"revising", "promoting"}
        /\ \/ /\ transaction.step = "begun"
              /\ transaction.candidate = candidate
              /\ transaction.promoted = promoted
           \/ /\ transaction.step = "updated"
              /\ IsPending(me.candidate)
              /\ transaction.candidate = Updated(me)
              /\ transaction.promoted = promoted
           \/ /\ transaction.step = "inserted"
              /\ IsPending(me.candidate)
              /\ transaction.candidate = Inserted(me)
              /\ transaction.promoted = Appended(me)

IInv ==
  /\ TypeOK
  /\ RowsAreComplete
  /\ VersionsAreReviewed
  /\ CallersAreBound
  /\ RevisionsAreDistinct
  /\ TransactionIsBound
  /\ ActivationsCitePromoted

===============================================================================
