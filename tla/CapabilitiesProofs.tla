--------------------------- MODULE CapabilitiesProofs ---------------------------
(***************************************************************************)
(* Proofs about capabilities.  The registry, for every number of           *)
(* candidates, capabilities, texts and callers: its invariant, and that it *)
(* implements the protocol of RunbookRegistry.  The sessions, for every    *)
(* number of them and every set of contracts: what a worker is lowered     *)
(* under, and what the histories say of it.                                *)
(***************************************************************************)
EXTENDS MCCapabilities, SequenceTheorems, TLAPS

LEMMA RowChanges ==
  ASSUME NEW row \in Rows, NEW s \in CandidateStates
  PROVE  /\ [row EXCEPT !.state = s] \in Rows
         /\ [row EXCEPT !.state = s].state = s
         /\ [row EXCEPT !.state = s].proposal = row.proposal
BY DEF Rows

LEMMA PendingTyped ==
  ASSUME NEW p \in Proposals, NEW s \in Candidates \cup {None}
  PROVE  /\ Pending(p, s) \in Rows
         /\ Pending(p, s).state = "pending_review"
         /\ Pending(p, s).proposal = p
BY DEF Pending, Rows, CandidateStates

(***************************************************************************)
(* What a new version does to the sequence of a capability.                *)
(***************************************************************************)
LEMMA NewVersion ==
  ASSUME NEW s \in Seq(Versions), NEW e \in Versions
  PROVE  /\ Append(s, e) \in Seq(Versions)
         /\ DOMAIN Append(s, e) = DOMAIN s \cup {Len(s) + 1}
         /\ Append(s, e)[Len(s) + 1] = e
         /\ \A n \in DOMAIN s : Append(s, e)[n] = s[n] /\ n # Len(s) + 1
<1>1. DOMAIN s = 1 .. Len(s) /\ Len(s) \in Nat
  OBVIOUS
<1>2. Append(s, e) \in Seq(Versions) /\ Len(Append(s, e)) = Len(s) + 1
  BY AppendProperties
<1>3. DOMAIN Append(s, e) = 1 .. (Len(s) + 1)
  BY <1>2
<1>4. QED
  BY <1>1, <1>2, <1>3, AppendProperties

(***************************************************************************)
(* What a caller holds survives every change of the rows that keeps what   *)
(* is not absent, with its proposal, and every version.                    *)
(***************************************************************************)
RowsKept ==
  /\ \A c \in Candidates : candidate[c].state # "absent" =>
       /\ candidate'[c].state # "absent"
       /\ candidate'[c].proposal = candidate[c].proposal
  /\ \A k \in Capabilities : \A n \in DOMAIN promoted[k] :
       n \in DOMAIN promoted'[k] /\ promoted'[k][n] = promoted[k][n]

LEMMA CallerKept ==
  ASSUME IInv, RowsKept, NEW v \in Reviewers, reviewer'[v] = reviewer[v],
         reviewer[v].pc = "revising" =>
           candidate'[reviewer[v].revision].state = "absent"
  PROVE  /\ HoldsCandidate(reviewer[v])' /\ HoldsPromotion(reviewer[v])'
         /\ HoldsRevision(reviewer[v])' /\ HoldsVersion(reviewer[v])'
<1> DEFINE me == reviewer[v]
<1>1. /\ HoldsCandidate(me) /\ HoldsPromotion(me)
      /\ HoldsRevision(me) /\ HoldsVersion(me)
  BY DEF IInv, CallersAreBound
<1>2. HoldsCandidate(me)'
  BY <1>1 DEF HoldsCandidate, RowsKept
<1>3. HoldsPromotion(me)'
  BY <1>1 DEF HoldsPromotion, HoldsCandidate, Reviewing, RowsKept
<1>4. HoldsRevision(me)'
  BY <1>1 DEF HoldsRevision
<1>5. HoldsVersion(me)'
  BY <1>1 DEF HoldsVersion, IsPromoted, RowsKept, Activation
<1>6. QED
  BY <1>2, <1>3, <1>4, <1>5

LEMMA IdleHolds ==
  ASSUME NEW v \in Reviewers, reviewer'[v] = Idle
  PROVE  /\ HoldsCandidate(reviewer[v])' /\ HoldsPromotion(reviewer[v])'
         /\ HoldsRevision(reviewer[v])' /\ HoldsVersion(reviewer[v])'
BY DEF Idle, HoldsCandidate, HoldsPromotion, HoldsRevision, HoldsVersion, Reviewing

(***************************************************************************)
(* A caller that returns takes nothing with it.                            *)
(***************************************************************************)
LEMMA ReturnTyped ==
  ASSUME IInv, NEW v \in Reviewers, Return(v)
  PROVE  /\ reviewer' \in [Reviewers -> ReviewerStates]
         /\ reviewer'[v] = Idle
         /\ \A u \in Reviewers \ {v} : reviewer'[u] = reviewer[u]
BY DEF Return, Idle, IInv, TypeOK, ReviewerStates

LEMMA ReturnKeepsDistinct ==
  ASSUME IInv, NEW v \in Reviewers, Return(v)
  PROVE  RevisionsAreDistinct'
<1>1. SUFFICES ASSUME NEW u \in Reviewers, NEW x \in Reviewers, u # x,
                      reviewer'[u].pc = "revising"
               PROVE  reviewer'[x].revision # reviewer'[u].revision
  BY DEF RevisionsAreDistinct
<1>2. u # v /\ reviewer'[u] = reviewer[u]
  BY <1>1, ReturnTyped DEF Idle
<1>3. reviewer[u].revision \in Candidates
  BY <1>1, <1>2 DEF IInv, CallersAreBound, HoldsRevision
<1>4. CASE x = v
  BY <1>2, <1>3, <1>4, ReturnTyped, CapabilityRegistryAssumption DEF Idle
<1>5. CASE x # v
  BY <1>1, <1>2, <1>5, ReturnTyped DEF IInv, RevisionsAreDistinct
<1>6. QED
  BY <1>4, <1>5

(***************************************************************************)
(* The reviewed versions, and the history that cites them, survive changes *)
(* that keep what was promoted.                                            *)
(***************************************************************************)
LEMMA HistoryKept ==
  ASSUME IInv, TypeOK', RowsKept, VersionsAreReviewed', UNCHANGED activations
  PROVE  ActivationsCitePromoted'
<1>1. ASSUME NEW a \in activations
      PROVE  /\ a.capability \in Capabilities
             /\ IsPromoted(a.capability, a.version)'
  BY <1>1 DEF IInv, ActivationsCitePromoted, TypeOK, Activation, IsPromoted, RowsKept
<1>2. QED
  BY <1>1 DEF ActivationsCitePromoted, VersionsAreReviewed, IsPromoted

LEMMA VersionsKept ==
  ASSUME IInv, promoted' = promoted,
         \A c \in Candidates : candidate[c].state = "promoted" =>
           candidate'[c] = candidate[c]
  PROVE  VersionsAreReviewed'
<1>1. SUFFICES ASSUME NEW k \in Capabilities, NEW n \in DOMAIN promoted[k]
               PROVE  LET version == promoted[k][n]
                      IN  /\ version.proposal.passes
                          /\ candidate'[version.source].state = "promoted"
                          /\ candidate'[version.source].proposal = version.proposal
  BY DEF VersionsAreReviewed
<1>2. promoted[k][n].source \in Candidates
  <2>1. promoted[k] \in Seq(Versions)
    BY DEF IInv, TypeOK
  <2>2. promoted[k][n] \in Versions
    BY <2>1
  <2>3. QED
    BY <2>2 DEF Versions
<1>3. QED
  BY <1>1, <1>2 DEF IInv, VersionsAreReviewed

-------------------------------------------------------------------------------
(* STEPS OF A CALLER ON ITS OWN VARIABLES                                  *)

LEMMA LocalStep ==
  ASSUME IInv, NEW v \in Reviewers, reviewer[v].pc = "idle",
         UNCHANGED <<candidate, promoted, activations, transaction>>,
         NEW me \in ReviewerStates,
         reviewer' = [reviewer EXCEPT ![v] = me],
         HoldsCandidate(me), HoldsPromotion(me), HoldsRevision(me), HoldsVersion(me),
         RevisionsAreDistinct'
  PROVE  IInv'
<1>1. /\ reviewer' \in [Reviewers -> ReviewerStates]
      /\ reviewer'[v] = me
      /\ \A u \in Reviewers \ {v} : reviewer'[u] = reviewer[u]
  BY DEF IInv, TypeOK
<1>2. TypeOK'
  BY <1>1 DEF IInv, TypeOK
<1>3. RowsAreComplete' /\ VersionsAreReviewed'
  BY DEF IInv, RowsAreComplete, VersionsAreReviewed
<1>4. CallersAreBound'
  <2>1. ASSUME NEW u \in Reviewers
        PROVE  /\ HoldsCandidate(reviewer'[u]) /\ HoldsPromotion(reviewer'[u])
               /\ HoldsRevision(reviewer'[u])  /\ HoldsVersion(reviewer'[u])
    BY <1>1 DEF IInv, CallersAreBound
  <2>2. QED
    BY <2>1 DEF CallersAreBound, HoldsCandidate, HoldsPromotion, HoldsRevision,
                HoldsVersion, IsPromoted
<1>5. TransactionIsBound'
  <2>1. CASE transaction.by = None
    BY <2>1 DEF TransactionIsBound
  <2>2. CASE transaction.by # None
    <3>1. transaction.by \in Reviewers \ {v}
      BY <2>2 DEF IInv, TypeOK, Transactions, TransactionIsBound
    <3>2. reviewer'[transaction.by] = reviewer[transaction.by]
      BY <1>1, <3>1
    <3>3. QED
      BY <2>2, <3>2 DEF IInv, TransactionIsBound, IsPending, Updated, Inserted, Appended
  <2>3. QED
    BY <2>1, <2>2
<1>6. ActivationsCitePromoted'
  BY DEF IInv, ActivationsCitePromoted, IsPromoted
<1>7. QED
  BY <1>2, <1>3, <1>4, <1>5, <1>6 DEF IInv

(***************************************************************************)
(* A caller that holds no revision cannot hold that of another one.        *)
(***************************************************************************)
LEMMA DistinctWithout ==
  ASSUME IInv, NEW v \in Reviewers, NEW me \in ReviewerStates,
         me.pc # "revising", me.revision = None,
         reviewer' = [reviewer EXCEPT ![v] = me]
  PROVE  RevisionsAreDistinct'
<1>1. SUFFICES ASSUME NEW u \in Reviewers, NEW x \in Reviewers, u # x,
                      reviewer'[u].pc = "revising"
               PROVE  reviewer'[x].revision # reviewer'[u].revision
  BY DEF RevisionsAreDistinct
<1>2. u # v /\ reviewer'[u] = reviewer[u]
  BY <1>1 DEF IInv, TypeOK
<1>3. reviewer[u].revision \in Candidates
  BY <1>1, <1>2 DEF IInv, CallersAreBound, HoldsRevision
<1>4. CASE x = v
  BY <1>2, <1>3, <1>4, CapabilityRegistryAssumption DEF IInv, TypeOK
<1>5. CASE x # v
  BY <1>1, <1>2, <1>5 DEF IInv, TypeOK, RevisionsAreDistinct
<1>6. QED
  BY <1>4, <1>5

LEMMA BeginRevisionStep ==
  ASSUME IInv, NEW v \in Reviewers, NEW c \in Candidates, NEW d \in Candidates,
         NEW p \in Proposals, BeginRevision(v, c, d, p)
  PROVE  IInv'
<1> DEFINE me == [pc |-> "revising", candidate |-> c, proposal |-> p,
                  revision |-> d, activation |-> None]
<1>1. /\ reviewer[v].pc = "idle" /\ IsPending(c) /\ IsFresh(d)
      /\ reviewer' = [reviewer EXCEPT ![v] = me]
      /\ UNCHANGED <<candidate, promoted, activations, transaction>>
  BY DEF BeginRevision
<1>2. me \in ReviewerStates
  BY DEF ReviewerStates
<1>3. HoldsCandidate(me) /\ HoldsPromotion(me) /\ HoldsRevision(me) /\ HoldsVersion(me)
  BY <1>1 DEF HoldsCandidate, HoldsPromotion, HoldsRevision, HoldsVersion,
              Reviewing, IsPending, IsFresh
<1>4. RevisionsAreDistinct'
  <2>1. SUFFICES ASSUME NEW u \in Reviewers, NEW x \in Reviewers, u # x,
                        reviewer'[u].pc = "revising"
                 PROVE  reviewer'[x].revision # reviewer'[u].revision
    BY DEF RevisionsAreDistinct
  <2>2. reviewer'[v].revision = d /\ \A y \in Reviewers \ {v} : reviewer'[y] = reviewer[y]
    BY <1>1 DEF IInv, TypeOK
  <2>3. \A y \in Reviewers : reviewer[y].revision # d
    BY <1>1 DEF IsFresh
  <2>4. QED
    BY <2>1, <2>2, <2>3 DEF IInv, RevisionsAreDistinct
<1> HIDE DEF me
<1>5. QED
  BY <1>1, <1>2, <1>3, <1>4, LocalStep

LEMMA BeginReviewStep ==
  ASSUME IInv, NEW v \in Reviewers, NEW c \in Candidates, NEW decision,
         BeginReview(v, c, decision)
  PROVE  IInv'
<1> DEFINE proposal == candidate[c].proposal
           pc == IF decision = "reject" THEN "rejecting"
                 ELSE IF proposal.passes THEN "promoting" ELSE "failing"
           me == [pc |-> pc, candidate |-> c, proposal |-> proposal,
                  revision |-> None, activation |-> None]
<1>1. /\ reviewer[v].pc = "idle" /\ IsPending(c)
      /\ reviewer' = [reviewer EXCEPT ![v] = me]
      /\ UNCHANGED <<candidate, promoted, activations, transaction>>
  BY DEF BeginReview
<1>2. candidate[c].state # "absent" /\ proposal \in Proposals
  BY <1>1 DEF IsPending, IInv, RowsAreComplete
<1>3. /\ pc \in {"rejecting", "failing", "promoting"}
      /\ pc = "promoting" => proposal.passes
  OBVIOUS
<1>4. me \in ReviewerStates /\ me.pc # "revising" /\ me.revision = None
  BY <1>2, <1>3 DEF ReviewerStates
<1>5. HoldsCandidate(me) /\ HoldsPromotion(me) /\ HoldsRevision(me) /\ HoldsVersion(me)
  BY <1>2, <1>3 DEF HoldsCandidate, HoldsPromotion, HoldsRevision, HoldsVersion, Reviewing
<1> HIDE DEF me
<1>6. RevisionsAreDistinct'
  BY <1>1, <1>4, DistinctWithout
<1>7. QED
  BY <1>1, <1>4, <1>5, <1>6, LocalStep

LEMMA BeginRecordStep ==
  ASSUME IInv, NEW v \in Reviewers, NEW k \in Capabilities, NEW n \in Numbers,
         BeginRecord(v, k, n)
  PROVE  IInv'
<1> DEFINE a == [capability |-> k, version |-> n]
           me == [pc |-> "recording", candidate |-> None, proposal |-> None,
                  revision |-> None, activation |-> a]
<1>1. /\ reviewer[v].pc = "idle" /\ IsPromoted(k, n)
      /\ reviewer' = [reviewer EXCEPT ![v] = me]
      /\ UNCHANGED <<candidate, promoted, activations, transaction>>
  BY DEF BeginRecord
<1>2. me \in ReviewerStates /\ me.pc # "revising" /\ me.revision = None
  BY DEF ReviewerStates, Activation
<1>3. HoldsCandidate(me) /\ HoldsPromotion(me) /\ HoldsRevision(me) /\ HoldsVersion(me)
  BY <1>1 DEF HoldsCandidate, HoldsPromotion, HoldsRevision, HoldsVersion,
              Reviewing, Activation
<1> HIDE DEF me
<1>4. RevisionsAreDistinct'
  BY <1>1, <1>2, DistinctWithout
<1>5. QED
  BY <1>1, <1>2, <1>3, <1>4, LocalStep

-------------------------------------------------------------------------------
(* STEPS OF AN OPEN TRANSACTION                                            *)

LEMMA TransactionStep ==
  ASSUME IInv, UNCHANGED <<candidate, promoted, activations, reviewer>>,
         transaction' \in Transactions, TransactionIsBound'
  PROVE  IInv'
<1>1. TypeOK'
  BY DEF IInv, TypeOK
<1>2. RowsAreComplete' /\ VersionsAreReviewed'
  BY DEF IInv, RowsAreComplete, VersionsAreReviewed
<1>3. CallersAreBound' /\ RevisionsAreDistinct'
  BY DEF IInv, CallersAreBound, RevisionsAreDistinct, HoldsCandidate,
         HoldsPromotion, HoldsRevision, HoldsVersion, IsPromoted
<1>4. ActivationsCitePromoted'
  BY DEF IInv, ActivationsCitePromoted, IsPromoted
<1>5. QED
  BY <1>1, <1>2, <1>3, <1>4 DEF IInv

LEMMA BeginStep ==
  ASSUME IInv, NEW v \in Reviewers, Begin(v)
  PROVE  IInv'
<1>1. transaction' = [by |-> v, step |-> "begun",
                      candidate |-> candidate, promoted |-> promoted]
      /\ reviewer[v].pc \in {"revising", "promoting"}
      /\ UNCHANGED <<candidate, promoted, activations, reviewer>>
  BY DEF Begin
<1>2. transaction' \in Transactions
  BY <1>1 DEF IInv, TypeOK, Transactions
<1>3. TransactionIsBound'
  BY <1>1 DEF TransactionIsBound
<1>4. QED
  BY <1>1, <1>2, <1>3, TransactionStep

(***************************************************************************)
(* What the caller in a transaction holds.                                 *)
(***************************************************************************)
LEMMA InTransaction ==
  ASSUME IInv, NEW v \in Reviewers, transaction.by = v
  PROVE  /\ reviewer[v].pc \in {"revising", "promoting"}
         /\ reviewer[v].candidate \in Candidates
         /\ reviewer[v].proposal \in Proposals
         /\ candidate[reviewer[v].candidate].state # "absent"
         /\ reviewer[v].pc = "promoting" =>
              /\ reviewer[v].proposal.passes
              /\ reviewer[v].proposal = candidate[reviewer[v].candidate].proposal
         /\ reviewer[v].pc = "revising" =>
              /\ reviewer[v].revision \in Candidates
              /\ candidate[reviewer[v].revision].state = "absent"
         /\ transaction.step = "begun" =>
              /\ transaction.candidate = candidate
              /\ transaction.promoted = promoted
         /\ transaction.step = "updated" =>
              /\ IsPending(reviewer[v].candidate)
              /\ transaction.candidate = Updated(reviewer[v])
              /\ transaction.promoted = promoted
         /\ transaction.step = "inserted" =>
              /\ IsPending(reviewer[v].candidate)
              /\ transaction.candidate = Inserted(reviewer[v])
              /\ transaction.promoted = Appended(reviewer[v])
<1>1. transaction.by # None
  BY CapabilityRegistryAssumption
<1>2. TransactionIsBound
  BY DEF IInv
<1>3. reviewer[v].pc \in {"revising", "promoting"}
  BY <1>1, <1>2 DEF TransactionIsBound
<1>4. /\ HoldsCandidate(reviewer[v]) /\ HoldsPromotion(reviewer[v])
      /\ HoldsRevision(reviewer[v])
  BY DEF IInv, CallersAreBound
<1>5. QED
  BY <1>1, <1>2, <1>3, <1>4
     DEF TransactionIsBound, HoldsCandidate, HoldsPromotion, HoldsRevision, Reviewing

LEMMA UpdateStep ==
  ASSUME IInv, NEW v \in Reviewers, Update(v)
  PROVE  IInv'
<1> DEFINE me == reviewer[v]
           s == IF me.pc = "revising" THEN "superseded" ELSE "promoted"
<1>1. /\ transaction.by = v /\ transaction.step = "begun"
      /\ transaction.candidate[me.candidate].state = "pending_review"
      /\ transaction' = [transaction EXCEPT !.step = "updated",
                                            !.candidate[me.candidate].state = s]
      /\ UNCHANGED <<candidate, promoted, activations, reviewer>>
  BY DEF Update
<1>2. /\ me.pc \in {"revising", "promoting"} /\ me.candidate \in Candidates
      /\ transaction.candidate = candidate /\ transaction.promoted = promoted
  BY <1>1, InTransaction
<1>3. transaction \in Transactions /\ candidate \in [Candidates -> Rows]
  BY DEF IInv, TypeOK
<1>4. /\ transaction'.by = v /\ transaction'.step = "updated"
      /\ transaction'.candidate = Updated(me) /\ transaction'.promoted = promoted
  BY <1>1, <1>2, <1>3 DEF Transactions, Updated
<1>5. Updated(me) \in [Candidates -> Rows]
  BY <1>2, <1>3 DEF Updated, Rows, CandidateStates
<1>6. transaction' \in Transactions
  <2>1. transaction' = [by |-> v, step |-> "updated",
                        candidate |-> Updated(me), promoted |-> promoted]
    BY <1>1, <1>3, <1>4 DEF Transactions
  <2>2. QED
    BY <1>5, <2>1 DEF Transactions, IInv, TypeOK
<1>7. TransactionIsBound'
  BY <1>1, <1>2, <1>4 DEF TransactionIsBound, IsPending, Updated
<1>8. QED
  BY <1>1, <1>6, <1>7, TransactionStep

LEMMA InsertStep ==
  ASSUME IInv, NEW v \in Reviewers, Insert(v)
  PROVE  IInv'
<1> DEFINE me == reviewer[v]
           e == [source |-> me.candidate, proposal |-> me.proposal]
<1>1. /\ transaction.by = v /\ transaction.step = "updated"
      /\ UNCHANGED <<candidate, promoted, activations, reviewer>>
  BY DEF Insert
<1>2. /\ me.pc \in {"revising", "promoting"}
      /\ me.candidate \in Candidates /\ me.proposal \in Proposals
      /\ me.pc = "revising" => me.revision \in Candidates
      /\ IsPending(me.candidate)
      /\ transaction.candidate = Updated(me) /\ transaction.promoted = promoted
  BY <1>1, InTransaction
<1>3. /\ transaction \in Transactions
      /\ promoted \in [Capabilities -> Seq(Versions)]
  BY DEF IInv, TypeOK
<1>4. /\ transaction'.by = v /\ transaction'.step = "inserted"
      /\ transaction'.candidate = Inserted(me) /\ transaction'.promoted = Appended(me)
      /\ transaction' = [by |-> v, step |-> "inserted",
                         candidate |-> Inserted(me), promoted |-> Appended(me)]
  <2>1. CASE me.pc = "revising"
    <3>1. transaction' = [transaction EXCEPT
                            !.step = "inserted",
                            !.candidate[me.revision] = Pending(me.proposal, me.candidate)]
      BY <2>1 DEF Insert
    <3>2. Inserted(me) = [Updated(me) EXCEPT
                            ![me.revision] = Pending(me.proposal, me.candidate)]
          /\ Appended(me) = promoted
      BY <2>1 DEF Inserted, Appended
    <3>3. QED
      BY <1>1, <1>2, <1>3, <3>1, <3>2 DEF Transactions
  <2>2. CASE me.pc = "promoting"
    <3>1. transaction' = [transaction EXCEPT
                            !.step = "inserted",
                            !.promoted[me.proposal.capability] = Append(@, e)]
      BY <2>2 DEF Insert
    <3>2. /\ Inserted(me) = Updated(me)
          /\ Appended(me) = [promoted EXCEPT ![me.proposal.capability] = Append(@, e)]
      BY <2>2 DEF Inserted, Appended
    <3>3. QED
      BY <1>1, <1>2, <1>3, <3>1, <3>2 DEF Transactions
  <2>3. QED
    BY <1>2, <2>1, <2>2
<1>5. Inserted(me) \in [Candidates -> Rows]
  <2>1. Updated(me) \in [Candidates -> Rows]
    BY <1>2, <1>3 DEF Transactions
  <2>2. Pending(me.proposal, me.candidate) \in Rows
    BY <1>2, PendingTyped
  <2>3. QED
    BY <1>2, <2>1, <2>2 DEF Inserted
<1>6. Appended(me) \in [Capabilities -> Seq(Versions)]
  <2>1. e \in Versions /\ me.proposal.capability \in Capabilities
    BY <1>2 DEF Versions, Proposals
  <2>2. Append(promoted[me.proposal.capability], e) \in Seq(Versions)
    BY <1>3, <2>1, NewVersion
  <2>3. QED
    BY <1>3, <2>1, <2>2 DEF Appended
<1>7. transaction' \in Transactions
  BY <1>4, <1>5, <1>6 DEF Transactions
<1>8. TransactionIsBound'
  BY <1>1, <1>2, <1>4 DEF TransactionIsBound, IsPending, Updated, Inserted, Appended
<1>9. QED
  BY <1>1, <1>7, <1>8, TransactionStep

-------------------------------------------------------------------------------
(* STEPS THAT WRITE THE COMMITTED ROWS                                     *)

(***************************************************************************)
(* Where the caller of an open transaction stays and the rows do not       *)
(* change, the transaction stays bound.                                    *)
(***************************************************************************)
LEMMA NoTransactionBound ==
  ASSUME transaction'.by = None
  PROVE  TransactionIsBound'
BY DEF TransactionIsBound

LEMMA NoTransactionTyped ==
  /\ NoTransaction \in Transactions /\ NoTransaction.by = None
  /\ NoRows \in [Candidates -> Rows]
  /\ NoVersions \in [Capabilities -> Seq(Versions)]
<1>1. NoRows \in [Candidates -> Rows]
  BY DEF NoRows, Rows, CandidateStates
<1>2. NoVersions \in [Capabilities -> Seq(Versions)]
  BY DEF NoVersions
<1>3. QED
  BY <1>1, <1>2 DEF NoTransaction, Transactions

LEMMA SubmitStep ==
  ASSUME IInv, NEW c \in Candidates, NEW p \in Proposals, submit(c, p)
  PROVE  IInv'
<1>1. /\ transaction.by = None
      /\ candidate[c].state = "absent"
      /\ \A v \in Reviewers : reviewer[v].revision # c
      /\ candidate' = [candidate EXCEPT ![c] = Pending(p, None)]
      /\ UNCHANGED <<promoted, activations, reviewer, transaction>>
  BY DEF submit, IsUnlocked, IsFresh
<1>2. Pending(p, None) \in Rows /\ Pending(p, None).proposal = p
  BY PendingTyped
<1>3. TypeOK'
  BY <1>1, <1>2 DEF IInv, TypeOK
<1>4. candidate'[c] = Pending(p, None) /\ \A d \in Candidates \ {c} : candidate'[d] = candidate[d]
  BY <1>1 DEF IInv, TypeOK
<1>5. RowsKept
  BY <1>1, <1>4 DEF RowsKept
<1>6. RowsAreComplete'
  BY <1>2, <1>4 DEF IInv, RowsAreComplete
<1>7. VersionsAreReviewed'
  BY <1>1, <1>4, VersionsKept
<1>8. CallersAreBound'
  <2>1. ASSUME NEW v \in Reviewers, reviewer[v].pc = "revising"
        PROVE  candidate'[reviewer[v].revision].state = "absent"
    BY <1>1, <1>4, <2>1 DEF IInv, CallersAreBound, HoldsRevision
  <2>2. QED
    BY <1>1, <1>5, <2>1, CallerKept DEF CallersAreBound
<1>9. RevisionsAreDistinct' /\ TransactionIsBound'
  BY <1>1 DEF IInv, RevisionsAreDistinct, TransactionIsBound
<1>10. ActivationsCitePromoted'
  BY <1>1, <1>3, <1>5, <1>7, HistoryKept
<1>11. QED
  BY <1>3, <1>6, <1>7, <1>8, <1>9, <1>10 DEF IInv

(***************************************************************************)
(* A caller that returns: what the other callers hold is kept.             *)
(***************************************************************************)
LEMMA ReturnKeepsCallers ==
  ASSUME IInv, NEW v \in Reviewers, Return(v), RowsKept,
         \A u \in Reviewers \ {v} : reviewer[u].pc = "revising" =>
           candidate'[reviewer[u].revision].state = "absent"
  PROVE  CallersAreBound' /\ RevisionsAreDistinct'
<1>1. ASSUME NEW u \in Reviewers
      PROVE  /\ HoldsCandidate(reviewer[u])' /\ HoldsPromotion(reviewer[u])'
             /\ HoldsRevision(reviewer[u])'  /\ HoldsVersion(reviewer[u])'
  <2>1. CASE u = v
    BY <2>1, ReturnTyped, IdleHolds
  <2>2. CASE u # v
    BY <2>2, ReturnTyped, CallerKept
  <2>3. QED
    BY <2>1, <2>2
<1>2. QED
  BY <1>1, ReturnKeepsDistinct DEF CallersAreBound

LEMMA TurnDownStep ==
  ASSUME IInv, NEW v \in Reviewers, TurnDown(v)
  PROVE  IInv'
<1> DEFINE c == reviewer[v].candidate
           s == Verdict(reviewer[v].pc)
<1>1. /\ reviewer[v].pc \in {"rejecting", "failing"}
      /\ transaction.by = None
      /\ candidate[c].state = "pending_review"
      /\ candidate' = [candidate EXCEPT ![c].state = s]
      /\ Return(v)
      /\ UNCHANGED <<promoted, activations, transaction>>
  BY DEF TurnDown, IsUnlocked, IsPending
<1>2. c \in Candidates /\ s \in CandidateStates \ {"absent", "promoted"}
  BY <1>1 DEF IInv, CallersAreBound, HoldsCandidate, Reviewing, Verdict, CandidateStates
<1>3. candidate[c] \in Rows
  BY <1>2 DEF IInv, TypeOK
<1>4. /\ candidate'[c] = [candidate[c] EXCEPT !.state = s]
      /\ \A d \in Candidates \ {c} : candidate'[d] = candidate[d]
  BY <1>1, <1>2 DEF IInv, TypeOK
<1>5. /\ candidate'[c] \in Rows
      /\ candidate'[c].state = s
      /\ candidate'[c].proposal = candidate[c].proposal
  BY <1>2, <1>3, <1>4, RowChanges
<1> HIDE DEF c, s
<1>6. TypeOK'
  <2>1. candidate' \in [Candidates -> Rows]
    BY <1>1, <1>2, <1>4, <1>5 DEF IInv, TypeOK
  <2>2. QED
    BY <1>1, <2>1, ReturnTyped DEF IInv, TypeOK
<1>7. RowsKept
  BY <1>1, <1>2, <1>4, <1>5 DEF RowsKept
<1>8. RowsAreComplete'
  BY <1>1, <1>4, <1>5 DEF IInv, RowsAreComplete
<1>9. VersionsAreReviewed'
  BY <1>1, <1>4, VersionsKept
<1>10. CallersAreBound' /\ RevisionsAreDistinct'
  <2>1. ASSUME NEW u \in Reviewers, reviewer[u].pc = "revising"
        PROVE  candidate'[reviewer[u].revision].state = "absent"
    <3>1. /\ reviewer[u].revision \in Candidates
          /\ candidate[reviewer[u].revision].state = "absent"
      BY <2>1 DEF IInv, CallersAreBound, HoldsRevision
    <3>2. reviewer[u].revision # c
      BY <1>1, <3>1
    <3>3. QED
      BY <1>4, <3>1, <3>2
  <2>2. QED
    BY <1>1, <1>7, <2>1, ReturnKeepsCallers
<1>11. TransactionIsBound' /\ ActivationsCitePromoted'
  BY <1>1, <1>6, <1>7, <1>9, NoTransactionBound, HistoryKept
<1>12. QED
  BY <1>6, <1>8, <1>9, <1>10, <1>11 DEF IInv

LEMMA LoseStep ==
  ASSUME IInv, NEW v \in Reviewers, Lose(v)
  PROVE  IInv'
<1>1. /\ Return(v)
      /\ IF transaction.by = v THEN transaction' = NoTransaction
                               ELSE transaction' = transaction
      /\ UNCHANGED <<candidate, promoted, activations>>
  BY DEF Lose, Release
<1>2. TypeOK'
  BY <1>1, ReturnTyped, NoTransactionTyped DEF IInv, TypeOK
<1>3. RowsKept
  BY <1>1 DEF RowsKept
<1>4. RowsAreComplete' /\ VersionsAreReviewed'
  BY <1>1 DEF IInv, RowsAreComplete, VersionsAreReviewed
<1>5. CallersAreBound' /\ RevisionsAreDistinct'
  <2>1. ASSUME NEW u \in Reviewers, reviewer[u].pc = "revising"
        PROVE  candidate'[reviewer[u].revision].state = "absent"
    BY <1>1, <2>1 DEF IInv, CallersAreBound, HoldsRevision
  <2>2. QED
    BY <1>1, <1>3, <2>1, ReturnKeepsCallers
<1>6. TransactionIsBound'
  <2>1. CASE transaction.by \in {v, None}
    BY <1>1, <2>1, NoTransactionTyped, NoTransactionBound
  <2>2. CASE transaction.by \notin {v, None}
    <3>1. transaction.by \in Reviewers \ {v}
      BY <2>2 DEF IInv, TypeOK, Transactions
    <3>2. reviewer'[transaction.by] = reviewer[transaction.by]
      BY <1>1, <3>1, ReturnTyped
    <3>3. transaction' = transaction
      BY <1>1, <2>2
    <3>4. QED
      BY <1>1, <2>2, <3>2, <3>3
         DEF IInv, TransactionIsBound, IsPending, Updated, Inserted, Appended
  <2>3. QED
    BY <2>1, <2>2
<1>7. ActivationsCitePromoted'
  BY <1>1, <1>2, <1>3, <1>4, HistoryKept
<1>8. QED
  BY <1>2, <1>4, <1>5, <1>6, <1>7 DEF IInv

LEMMA RecordStep ==
  ASSUME IInv, NEW v \in Reviewers, record_activation(v)
  PROVE  IInv'
<1> DEFINE a == reviewer[v].activation
<1>1. /\ reviewer[v].pc = "recording" /\ transaction.by = None
      /\ activations' = activations \cup {a}
      /\ Return(v)
      /\ UNCHANGED <<candidate, promoted, transaction>>
  BY DEF record_activation, IsUnlocked
<1>2. a \in Activation /\ IsPromoted(a.capability, a.version)
  BY <1>1 DEF IInv, CallersAreBound, HoldsVersion
<1>3. TypeOK'
  BY <1>1, <1>2, ReturnTyped DEF IInv, TypeOK
<1>4. RowsKept
  BY <1>1 DEF RowsKept
<1>5. RowsAreComplete' /\ VersionsAreReviewed'
  BY <1>1 DEF IInv, RowsAreComplete, VersionsAreReviewed
<1>6. CallersAreBound' /\ RevisionsAreDistinct'
  <2>1. ASSUME NEW u \in Reviewers, reviewer[u].pc = "revising"
        PROVE  candidate'[reviewer[u].revision].state = "absent"
    BY <1>1, <2>1 DEF IInv, CallersAreBound, HoldsRevision
  <2>2. QED
    BY <1>1, <1>4, <2>1, ReturnKeepsCallers
<1>7. TransactionIsBound'
  BY <1>1, NoTransactionBound
<1> HIDE DEF a
<1>8. ActivationsCitePromoted'
  <2>1. ASSUME NEW b \in activations'
        PROVE  /\ IsPromoted(b.capability, b.version)
               /\ b.capability \in Capabilities
    <3>1. b \in Activation
      BY <1>3 DEF TypeOK
    <3>2. CASE b = a
      BY <1>2, <3>1, <3>2 DEF Activation
    <3>3. CASE b \in activations
      BY <3>1, <3>3 DEF IInv, ActivationsCitePromoted, Activation
    <3>4. QED
      BY <1>1, <3>2, <3>3
  <2>2. QED
    BY <1>1, <2>1 DEF ActivationsCitePromoted, IsPromoted, IInv, VersionsAreReviewed
<1>9. QED
  BY <1>3, <1>5, <1>6, <1>7, <1>8 DEF IInv

LEMMA CommitFacts ==
  ASSUME IInv, NEW v \in Reviewers, Commit(v)
  PROVE  /\ candidate' = Inserted(reviewer[v])
         /\ promoted' = Appended(reviewer[v])
         /\ IsPending(reviewer[v].candidate)
         /\ transaction' = NoTransaction
         /\ Return(v)
         /\ UNCHANGED activations
         /\ candidate' \in [Candidates -> Rows]
         /\ promoted' \in [Capabilities -> Seq(Versions)]
         /\ TypeOK'
<1>1. /\ transaction.by = v /\ transaction.step = "inserted"
      /\ candidate' = transaction.candidate /\ promoted' = transaction.promoted
      /\ transaction' = NoTransaction /\ Return(v) /\ UNCHANGED activations
  BY DEF Commit, Release
<1>2. /\ transaction.candidate \in [Candidates -> Rows]
      /\ transaction.promoted \in [Capabilities -> Seq(Versions)]
      /\ activations \subseteq Activation
  BY DEF IInv, TypeOK, Transactions
<1>3. TypeOK'
  BY <1>1, <1>2, ReturnTyped, NoTransactionTyped DEF TypeOK
<1>4. QED
  BY <1>1, <1>2, <1>3, InTransaction

LEMMA CommitRevision ==
  ASSUME IInv, NEW v \in Reviewers, Commit(v), reviewer[v].pc = "revising"
  PROVE  IInv'
<1> DEFINE me == reviewer[v]
           c == me.candidate
           d == me.revision
<1>1. /\ transaction' = NoTransaction /\ Return(v) /\ UNCHANGED <<promoted, activations>>
      /\ candidate[c].state = "pending_review" /\ TypeOK'
      /\ candidate' = [Updated(me) EXCEPT ![d] = Pending(me.proposal, c)]
  BY CommitFacts DEF Inserted, Appended, IsPending
<1>2. /\ c \in Candidates /\ d \in Candidates /\ me.proposal \in Proposals
      /\ candidate[d].state = "absent"
  BY InTransaction DEF Commit
<1>3. candidate \in [Candidates -> Rows]
  BY DEF IInv, TypeOK
<1>4. Updated(me) = [candidate EXCEPT ![c] = [candidate[c] EXCEPT !.state = "superseded"]]
  BY <1>2, <1>3 DEF Updated
<1>5. /\ [candidate[c] EXCEPT !.state = "superseded"] \in Rows
      /\ [candidate[c] EXCEPT !.state = "superseded"].state = "superseded"
      /\ [candidate[c] EXCEPT !.state = "superseded"].proposal = candidate[c].proposal
  BY <1>2, <1>3, RowChanges DEF CandidateStates
<1>6. /\ Pending(me.proposal, c).state = "pending_review"
      /\ Pending(me.proposal, c).proposal = me.proposal
  BY <1>2, PendingTyped
<1> HIDE DEF me, c, d
<1>7. /\ candidate'[c].state = "superseded" /\ candidate'[c].proposal = candidate[c].proposal
      /\ candidate'[d].state = "pending_review" /\ candidate'[d].proposal = me.proposal
      /\ \A x \in Candidates \ {c, d} : candidate'[x] = candidate[x]
  BY <1>1, <1>2, <1>3, <1>4, <1>5, <1>6
<1>8. RowsKept
  BY <1>1, <1>2, <1>7 DEF RowsKept
<1>9. RowsAreComplete'
  BY <1>1, <1>2, <1>7 DEF IInv, RowsAreComplete
<1>10. VersionsAreReviewed'
  BY <1>1, <1>2, <1>7, VersionsKept
<1>11. CallersAreBound' /\ RevisionsAreDistinct'
  <2>1. ASSUME NEW u \in Reviewers \ {v}, reviewer[u].pc = "revising"
        PROVE  candidate'[reviewer[u].revision].state = "absent"
    <3>1. /\ reviewer[u].revision \in Candidates
          /\ candidate[reviewer[u].revision].state = "absent"
      BY <2>1 DEF IInv, CallersAreBound, HoldsRevision
    <3>2. reviewer[u].revision # c
      BY <1>1, <3>1
    <3>3. reviewer[u].revision # d
      BY <2>1 DEF IInv, RevisionsAreDistinct, d, me
    <3>4. QED
      BY <1>7, <3>1, <3>2, <3>3
  <2>2. QED
    BY <1>1, <1>8, <2>1, ReturnKeepsCallers
<1>12. TransactionIsBound' /\ ActivationsCitePromoted'
  BY <1>1, <1>8, <1>10, NoTransactionTyped, NoTransactionBound, HistoryKept
<1>13. QED
  BY <1>1, <1>9, <1>10, <1>11, <1>12 DEF IInv

LEMMA CommitPromotion ==
  ASSUME IInv, NEW v \in Reviewers, Commit(v), reviewer[v].pc = "promoting"
  PROVE  IInv'
<1> DEFINE me == reviewer[v]
           c == me.candidate
           k == me.proposal.capability
           e == [source |-> c, proposal |-> me.proposal]
<1>1. /\ transaction' = NoTransaction /\ Return(v) /\ UNCHANGED activations
      /\ candidate[c].state = "pending_review" /\ TypeOK'
      /\ candidate' = Updated(me)
      /\ promoted' = [promoted EXCEPT ![k] = Append(@, e)]
  BY CommitFacts DEF Inserted, Appended, IsPending
<1>2. /\ c \in Candidates /\ me.proposal \in Proposals
      /\ me.proposal.passes /\ me.proposal = candidate[c].proposal
  BY InTransaction DEF Commit
<1>3. /\ candidate \in [Candidates -> Rows]
      /\ promoted \in [Capabilities -> Seq(Versions)]
  BY DEF IInv, TypeOK
<1>4. Updated(me) = [candidate EXCEPT ![c] = [candidate[c] EXCEPT !.state = "promoted"]]
  BY <1>2, <1>3 DEF Updated
<1>5. /\ [candidate[c] EXCEPT !.state = "promoted"].state = "promoted"
      /\ [candidate[c] EXCEPT !.state = "promoted"].proposal = candidate[c].proposal
  BY <1>2, <1>3, RowChanges DEF CandidateStates
<1>6. e \in Versions /\ k \in Capabilities /\ e.source = c /\ e.proposal = me.proposal
  BY <1>2 DEF Versions, Proposals
<1> HIDE DEF me, c, k, e
<1>7. /\ candidate'[c].state = "promoted" /\ candidate'[c].proposal = candidate[c].proposal
      /\ \A x \in Candidates \ {c} : candidate'[x] = candidate[x]
  BY <1>1, <1>2, <1>3, <1>4, <1>5
<1>8. /\ promoted'[k] = Append(promoted[k], e)
      /\ \A b \in Capabilities \ {k} : promoted'[b] = promoted[b]
      /\ promoted[k] \in Seq(Versions)
  BY <1>1, <1>3, <1>6
<1>9. /\ DOMAIN promoted'[k] = DOMAIN promoted[k] \cup {Len(promoted[k]) + 1}
      /\ promoted'[k][Len(promoted[k]) + 1] = e
      /\ \A n \in DOMAIN promoted[k] : promoted'[k][n] = promoted[k][n]
  BY <1>6, <1>8, NewVersion
<1>10. RowsKept
  BY <1>1, <1>7, <1>8, <1>9 DEF RowsKept
<1>11. RowsAreComplete'
  BY <1>1, <1>7 DEF IInv, RowsAreComplete
<1>12. VersionsAreReviewed'
  <2>1. SUFFICES ASSUME NEW b \in Capabilities, NEW n \in DOMAIN promoted'[b]
                 PROVE  LET version == promoted'[b][n]
                        IN  /\ version.proposal.passes
                            /\ candidate'[version.source].state = "promoted"
                            /\ candidate'[version.source].proposal = version.proposal
    BY DEF VersionsAreReviewed
  <2>2. CASE n \in DOMAIN promoted[b]
    <3>1. promoted'[b][n] = promoted[b][n]
      BY <1>8, <1>9, <2>2
    <3>2. promoted[b][n] \in Versions
      BY <1>3, <2>2
    <3>3. /\ promoted[b][n].proposal.passes
          /\ candidate[promoted[b][n].source].state = "promoted"
          /\ candidate[promoted[b][n].source].proposal = promoted[b][n].proposal
      BY <2>2 DEF IInv, VersionsAreReviewed
    <3>4. promoted[b][n].source \in Candidates \ {c}
      BY <1>1, <3>2, <3>3 DEF Versions
    <3>5. QED
      BY <1>7, <3>1, <3>3, <3>4
  <2>3. CASE n \notin DOMAIN promoted[b]
    <3>1. b = k /\ promoted'[b][n] = e
      BY <1>8, <1>9, <2>1, <2>3
    <3>2. QED
      BY <1>2, <1>6, <1>7, <3>1
  <2>4. QED
    BY <2>2, <2>3
<1>13. CallersAreBound' /\ RevisionsAreDistinct'
  <2>1. ASSUME NEW u \in Reviewers \ {v}, reviewer[u].pc = "revising"
        PROVE  candidate'[reviewer[u].revision].state = "absent"
    <3>1. /\ reviewer[u].revision \in Candidates
          /\ candidate[reviewer[u].revision].state = "absent"
      BY <2>1 DEF IInv, CallersAreBound, HoldsRevision
    <3>2. reviewer[u].revision # c
      BY <1>1, <3>1
    <3>3. QED
      BY <1>7, <3>1, <3>2
  <2>2. QED
    BY <1>1, <1>10, <2>1, ReturnKeepsCallers
<1>14. TransactionIsBound' /\ ActivationsCitePromoted'
  BY <1>1, <1>10, <1>12, NoTransactionTyped, NoTransactionBound, HistoryKept
<1>15. QED
  BY <1>1, <1>11, <1>12, <1>13, <1>14 DEF IInv

-------------------------------------------------------------------------------
(* THE INVARIANT                                                           *)

LEMMA InitIInv == Init => IInv
<1> SUFFICES ASSUME Init PROVE IInv
  OBVIOUS
<1>1. /\ candidate = NoRows /\ promoted = NoVersions /\ activations = {}
      /\ transaction = NoTransaction
      /\ reviewer = [v \in Reviewers |-> Idle]
  BY DEF Init
<1>2. Idle \in ReviewerStates
  BY DEF Idle, ReviewerStates
<1>3. TypeOK
  BY <1>1, <1>2, NoTransactionTyped DEF TypeOK
<1>4. RowsAreComplete
  BY <1>1 DEF RowsAreComplete, NoRows
<1>5. VersionsAreReviewed
  BY <1>1 DEF VersionsAreReviewed, NoVersions
<1>6. CallersAreBound
  BY <1>1 DEF CallersAreBound, Idle, HoldsCandidate, HoldsPromotion,
              HoldsRevision, HoldsVersion, Reviewing
<1>7. RevisionsAreDistinct
  BY <1>1 DEF RevisionsAreDistinct, Idle
<1>8. TransactionIsBound
  BY <1>1, NoTransactionTyped DEF TransactionIsBound
<1>9. ActivationsCitePromoted
  BY <1>1 DEF ActivationsCitePromoted
<1>10. QED
  BY <1>3, <1>4, <1>5, <1>6, <1>7, <1>8, <1>9 DEF IInv

LEMMA StutterIInv ==
  ASSUME IInv, UNCHANGED vars
  PROVE  IInv'
<1>1. TypeOK' /\ RowsAreComplete' /\ VersionsAreReviewed' /\ RevisionsAreDistinct'
  BY DEF vars, IInv, TypeOK, RowsAreComplete, VersionsAreReviewed, RevisionsAreDistinct
<1>2. CallersAreBound'
  BY DEF vars, IInv, CallersAreBound, HoldsCandidate, HoldsPromotion,
         HoldsRevision, HoldsVersion, IsPromoted
<1>3. TransactionIsBound'
  BY DEF vars, IInv, TransactionIsBound, IsPending, Updated, Inserted, Appended
<1>4. ActivationsCitePromoted'
  BY DEF vars, IInv, ActivationsCitePromoted, IsPromoted
<1>5. QED
  BY <1>1, <1>2, <1>3, <1>4 DEF IInv

LEMMA NextIInv ==
  ASSUME IInv, [Next]_vars
  PROVE  IInv'
<1>1. ASSUME NEW c \in Candidates, NEW p \in Proposals, submit(c, p) PROVE IInv'
  BY <1>1, SubmitStep
<1>2. ASSUME NEW v \in Reviewers, NEW c \in Candidates, NEW d \in Candidates,
             NEW p \in Proposals, BeginRevision(v, c, d, p)
      PROVE  IInv'
  BY <1>2, BeginRevisionStep
<1>3. ASSUME NEW v \in Reviewers, NEW c \in Candidates,
             NEW decision \in {"approve", "reject"}, BeginReview(v, c, decision)
      PROVE  IInv'
  BY <1>3, BeginReviewStep
<1>4. ASSUME NEW v \in Reviewers, NEW k \in Capabilities, NEW n \in Numbers,
             BeginRecord(v, k, n)
      PROVE  IInv'
  BY <1>4, BeginRecordStep
<1>5. ASSUME NEW v \in Reviewers, Commit(v) PROVE IInv'
  <2>1. reviewer[v].pc \in {"revising", "promoting"}
    BY <1>5, InTransaction DEF Commit
  <2>2. QED
    BY <1>5, <2>1, CommitRevision, CommitPromotion
<1>6. ASSUME NEW v \in Reviewers, TurnDown(v) \/ Begin(v) \/ Update(v) \/ Insert(v)
      PROVE  IInv'
  BY <1>6, TurnDownStep, BeginStep, UpdateStep, InsertStep
<1>7. ASSUME NEW v \in Reviewers, record_activation(v) \/ Lose(v) PROVE IInv'
  BY <1>7, RecordStep, LoseStep
<1>8. CASE UNCHANGED vars
  BY <1>8, StutterIInv
<1>9. QED
  BY <1>1, <1>2, <1>3, <1>4, <1>5, <1>6, <1>7, <1>8 DEF Next

(***************************************************************************)
(* Whatever callers race, die or lose the database half-way, what each     *)
(* holds means what it read, and the rows an open transaction sees are the *)
(* committed ones with its own statements.                                 *)
(***************************************************************************)
THEOREM InductiveInvariant == Spec => []IInv
<1>1. IInv /\ [Next]_vars => IInv'
  BY NextIInv
<1>2. QED
  BY InitIInv, <1>1, PTL DEF Spec

(***************************************************************************)
(* The history of activations cites only versions whose candidate passed   *)
(* the gate with the same text.                                            *)
(***************************************************************************)
THEOREM CitedActivations == Spec => []ActivationsCitePromoted
<1>1. IInv => ActivationsCitePromoted
  BY DEF IInv
<1>2. QED
  BY InductiveInvariant, <1>1, PTL

-------------------------------------------------------------------------------
(* THE REFINEMENT                                                          *)

AsRow(row) == [row EXCEPT !.proposal = AsRunbook(@)]

AsVersions(s) == [n \in DOMAIN s |-> [s[n] EXCEPT !.proposal = AsRunbook(@)]]

AsReviewer(me) == [pc        |-> IF me.pc = "recording" THEN "idle" ELSE me.pc,
                   candidate |-> me.candidate,
                   proposal  |-> AsRunbook(me.proposal)]

LEMMA Views ==
  /\ CandidateAsRunbook = [c \in Candidates |-> AsRow(candidate[c])]
  /\ CandidateAsRunbook' = [c \in Candidates |-> AsRow(candidate'[c])]
  /\ PromotedAsRunbook = [k \in Capabilities |-> AsVersions(promoted[k])]
  /\ PromotedAsRunbook' = [k \in Capabilities |-> AsVersions(promoted'[k])]
  /\ ReviewerAsRunbook = [v \in Reviewers |-> AsReviewer(reviewer[v])]
  /\ ReviewerAsRunbook' = [v \in Reviewers |-> AsReviewer(reviewer'[v])]
BY DEF CandidateAsRunbook, PromotedAsRunbook, ReviewerAsRunbook,
       AsRow, AsVersions, AsReviewer

LEMMA ProposalMapped ==
  ASSUME NEW p \in Proposals
  PROVE  /\ AsRunbook(p) \in Governed!Proposals
         /\ AsRunbook(p).passes = p.passes
         /\ AsRunbook(p).runbook = p.capability
<1>1. p # None
  BY CapabilityRegistryAssumption
<1>2. AsRunbook(p) = [runbook |-> p.capability, passes |-> p.passes, text |-> p.text]
  BY <1>1 DEF AsRunbook
<1>3. QED
  BY <1>2 DEF Proposals, Governed!Proposals

LEMMA NoneMapped == AsRunbook(None) = None
BY DEF AsRunbook

LEMMA RowMapped ==
  ASSUME NEW row \in Rows
  PROVE  /\ AsRow(row).state = row.state
         /\ AsRow(row).proposal = AsRunbook(row.proposal)
         /\ \A s \in CandidateStates :
              AsRow([row EXCEPT !.state = s]) = [AsRow(row) EXCEPT !.state = s]
<1> DEFINE q == AsRunbook(row.proposal)
<1>1. row = [state |-> row.state, proposal |-> row.proposal, supersedes |-> row.supersedes]
  BY DEF Rows
<1>2. AsRow(row) = [state |-> row.state, proposal |-> q, supersedes |-> row.supersedes]
  BY <1>1 DEF AsRow
<1>3. ASSUME NEW s \in CandidateStates
      PROVE  AsRow([row EXCEPT !.state = s]) = [AsRow(row) EXCEPT !.state = s]
  <2> DEFINE changed == [state |-> s, proposal |-> row.proposal,
                         supersedes |-> row.supersedes]
  <2>1. [row EXCEPT !.state = s] = changed
    BY <1>1
  <2>2. AsRow(changed) = [state |-> s, proposal |-> q, supersedes |-> row.supersedes]
    BY DEF AsRow
  <2>3. [AsRow(row) EXCEPT !.state = s]
          = [state |-> s, proposal |-> q, supersedes |-> row.supersedes]
    BY <1>2
  <2> HIDE DEF changed, q
  <2>4. QED
    BY <2>1, <2>2, <2>3
<1>4. QED
  BY <1>2, <1>3

LEMMA PendingMapped ==
  ASSUME NEW p, NEW s
  PROVE  AsRow(Pending(p, s)) = Governed!Pending(AsRunbook(p), s)
BY DEF AsRow, Pending, Governed!Pending

(***************************************************************************)
(* Reading a sequence of versions as runbooks commutes with appending one. *)
(***************************************************************************)
LEMMA AppendMapped ==
  ASSUME NEW s \in Seq(Versions), NEW e \in Versions
  PROVE  AsVersions(Append(s, e))
           = Append(AsVersions(s), [e EXCEPT !.proposal = AsRunbook(@)])
<1> DEFINE S == [source : Candidates, proposal : Governed!Proposals]
           Map(w) == [w EXCEPT !.proposal = AsRunbook(@)]
           new == Append(s, e)
           t == AsVersions(s)
<1>1. ASSUME NEW w \in Versions
      PROVE  Map(w) \in S
  <2>1. w.source \in Candidates /\ w.proposal \in Proposals
    BY DEF Versions
  <2>2. Map(w) = [source |-> w.source, proposal |-> AsRunbook(w.proposal)]
    <3> HIDE DEF S, new, t
    <3>1. w = [source |-> w.source, proposal |-> w.proposal]
      BY DEF Versions
    <3>2. QED
      BY <3>1
  <2>3. QED
    BY <2>1, <2>2, ProposalMapped
<1>2. /\ new \in Seq(Versions) /\ Len(new) = Len(s) + 1 /\ new[Len(s) + 1] = e
      /\ \A n \in 1 .. Len(s) : new[n] = s[n]
      /\ Len(s) \in Nat
  BY AppendProperties
<1>3. t = [n \in 1 .. Len(s) |-> Map(s[n])]
  BY DEF AsVersions
<1>4. AsVersions(new) = [n \in 1 .. Len(new) |-> Map(new[n])]
  BY <1>2 DEF AsVersions
<1>5. \A n \in 1 .. Len(s) : Map(s[n]) \in S
  BY <1>1
<1>6. \A n \in 1 .. Len(new) : Map(new[n]) \in S
  <2>1. \A n \in 1 .. Len(new) : new[n] \in Versions
    BY <1>2
  <2>2. QED
    BY <1>1, <2>1
<1> HIDE DEF Map, S, new, t
<1>7. t \in Seq(S) /\ Len(t) = Len(s) /\ \A n \in 1 .. Len(s) : t[n] = Map(s[n])
  BY <1>2, <1>3, <1>5
<1>8. /\ AsVersions(new) \in Seq(S) /\ Len(AsVersions(new)) = Len(s) + 1
      /\ \A n \in 1 .. (Len(s) + 1) : AsVersions(new)[n] = Map(new[n])
  BY <1>2, <1>4, <1>6
<1>9. Map(e) \in S
  BY <1>1
<1>10. /\ Append(t, Map(e)) \in Seq(S) /\ Len(Append(t, Map(e))) = Len(s) + 1
       /\ Append(t, Map(e))[Len(s) + 1] = Map(e)
       /\ \A n \in 1 .. Len(s) : Append(t, Map(e))[n] = t[n]
  BY <1>7, <1>9, AppendProperties
<1>11. ASSUME NEW n \in 1 .. Len(AsVersions(new))
       PROVE  AsVersions(new)[n] = Append(t, Map(e))[n]
  <2>1. CASE n = Len(s) + 1
    BY <1>2, <1>8, <1>10, <2>1
  <2>2. CASE n # Len(s) + 1
    <3>1. n \in 1 .. Len(s)
      BY <1>2, <1>8, <2>2
    <3>2. QED
      BY <1>2, <1>7, <1>8, <1>10, <3>1
  <2>3. QED
    BY <2>1, <2>2
<1>12. AsVersions(new) = Append(t, Map(e))
  BY <1>8, <1>10, <1>11, SeqEqual
<1>13. QED
  BY <1>12 DEF Map, new, t

(***************************************************************************)
(* Writing one row, one version or one caller writes the one it is read    *)
(* as.                                                                     *)
(***************************************************************************)
LEMMA RowWritten ==
  ASSUME TypeOK, NEW c \in Candidates, NEW row,
         candidate' = [candidate EXCEPT ![c] = row]
  PROVE  CandidateAsRunbook' = [CandidateAsRunbook EXCEPT ![c] = AsRow(row)]
<1>1. \A d \in Candidates : AsRow(candidate'[d]) = IF d = c THEN AsRow(row)
                                                          ELSE AsRow(candidate[d])
  BY DEF TypeOK
<1>2. QED
  BY <1>1, Views

LEMMA StateWritten ==
  ASSUME TypeOK, NEW c \in Candidates, NEW s \in CandidateStates,
         candidate' = [candidate EXCEPT ![c].state = s]
  PROVE  CandidateAsRunbook' = [CandidateAsRunbook EXCEPT ![c].state = s]
<1>1. candidate[c] \in Rows
  BY DEF TypeOK
<1>2. candidate' = [candidate EXCEPT ![c] = [candidate[c] EXCEPT !.state = s]]
  OBVIOUS
<1>3. CandidateAsRunbook' = [CandidateAsRunbook EXCEPT
                               ![c] = AsRow([candidate[c] EXCEPT !.state = s])]
  BY <1>2, RowWritten
<1>4. AsRow([candidate[c] EXCEPT !.state = s]) = [AsRow(candidate[c]) EXCEPT !.state = s]
  BY <1>1, RowMapped
<1>5. AsRow(candidate[c]) = CandidateAsRunbook[c]
  BY Views
<1>6. QED
  BY <1>3, <1>4, <1>5

LEMMA CallerWritten ==
  ASSUME TypeOK, NEW v \in Reviewers, NEW me,
         reviewer' = [reviewer EXCEPT ![v] = me]
  PROVE  ReviewerAsRunbook' = [ReviewerAsRunbook EXCEPT ![v] = AsReviewer(me)]
<1>1. \A u \in Reviewers : AsReviewer(reviewer'[u]) = IF u = v THEN AsReviewer(me)
                                                         ELSE AsReviewer(reviewer[u])
  BY DEF TypeOK
<1>2. QED
  BY <1>1, Views

LEMMA IdleMapped == AsReviewer(Idle) = Governed!Idle
BY NoneMapped DEF AsReviewer, Idle, Governed!Idle

LEMMA ReturnMapped ==
  ASSUME TypeOK, NEW v \in Reviewers, Return(v)
  PROVE  Governed!Return(v)
BY CallerWritten, IdleMapped DEF Return, Governed!Return

(***************************************************************************)
(* What a row and a caller are read as.                                    *)
(***************************************************************************)
LEMMA RowRead ==
  ASSUME TypeOK, NEW c \in Candidates
  PROVE  /\ CandidateAsRunbook[c].state = candidate[c].state
         /\ CandidateAsRunbook[c].proposal = AsRunbook(candidate[c].proposal)
         /\ IsPending(c) <=> Governed!IsPending(c)
<1>1. candidate[c] \in Rows /\ CandidateAsRunbook[c] = AsRow(candidate[c])
  BY Views DEF TypeOK
<1>2. QED
  BY <1>1, RowMapped DEF IsPending, Governed!IsPending

LEMMA CallerRead ==
  ASSUME NEW v \in Reviewers
  PROVE  /\ ReviewerAsRunbook[v].pc
              = IF reviewer[v].pc = "recording" THEN "idle" ELSE reviewer[v].pc
         /\ ReviewerAsRunbook[v].candidate = reviewer[v].candidate
         /\ ReviewerAsRunbook[v].proposal = AsRunbook(reviewer[v].proposal)
<1>1. ReviewerAsRunbook[v] = AsReviewer(reviewer[v])
  BY Views
<1>2. QED
  BY <1>1 DEF AsReviewer

LEMMA RowsUnread ==
  ASSUME UNCHANGED <<candidate, promoted>>
  PROVE  UNCHANGED <<CandidateAsRunbook, PromotedAsRunbook>>
BY DEF CandidateAsRunbook, PromotedAsRunbook

LEMMA VersionsUnread ==
  ASSUME UNCHANGED promoted
  PROVE  UNCHANGED PromotedAsRunbook
BY DEF PromotedAsRunbook

GovernedStep == Governed!Next \/ UNCHANGED Governed!vars

(***************************************************************************)
(* A caller outside of a review is read as idle.                           *)
(***************************************************************************)
LEMMA RecordingIsIdle ==
  ASSUME IInv, NEW v \in Reviewers, reviewer[v].pc = "recording"
  PROVE  AsReviewer(reviewer[v]) = Governed!Idle
<1>1. reviewer[v].candidate = None /\ reviewer[v].proposal = None
  BY DEF IInv, CallersAreBound, HoldsCandidate, Reviewing
<1>2. QED
  BY <1>1, NoneMapped DEF AsReviewer, Governed!Idle

LEMMA SubmitMapped ==
  ASSUME IInv, NEW c \in Candidates, NEW p \in Proposals, submit(c, p)
  PROVE  GovernedStep
<1>1. /\ candidate[c].state = "absent"
      /\ candidate' = [candidate EXCEPT ![c] = Pending(p, None)]
      /\ UNCHANGED <<promoted, reviewer>>
  BY DEF submit, IsFresh
<1>2. CandidateAsRunbook[c].state = "absent"
  BY <1>1, RowRead DEF IInv
<1>3. CandidateAsRunbook' = [CandidateAsRunbook EXCEPT
                               ![c] = Governed!Pending(AsRunbook(p), None)]
  BY <1>1, RowWritten, PendingMapped DEF IInv
<1>4. UNCHANGED <<PromotedAsRunbook, ReviewerAsRunbook>>
  BY <1>1 DEF PromotedAsRunbook, ReviewerAsRunbook
<1>5. Governed!submit(c, AsRunbook(p))
  BY <1>2, <1>3, <1>4 DEF Governed!submit
<1>6. QED
  BY <1>5, ProposalMapped DEF GovernedStep, Governed!Next

LEMMA BeginRevisionMapped ==
  ASSUME IInv, NEW v \in Reviewers, NEW c \in Candidates, NEW d \in Candidates,
         NEW p \in Proposals, BeginRevision(v, c, d, p)
  PROVE  GovernedStep
<1> DEFINE me == [pc |-> "revising", candidate |-> c, proposal |-> p,
                  revision |-> d, activation |-> None]
<1>1. /\ reviewer[v].pc = "idle" /\ IsPending(c)
      /\ reviewer' = [reviewer EXCEPT ![v] = me]
      /\ UNCHANGED <<candidate, promoted>>
  BY DEF BeginRevision
<1>2. AsReviewer(me) = [pc |-> "revising", candidate |-> c, proposal |-> AsRunbook(p)]
  BY DEF AsReviewer
<1> HIDE DEF me
<1>3. ReviewerAsRunbook' = [ReviewerAsRunbook EXCEPT ![v] = AsReviewer(me)]
  BY <1>1, CallerWritten DEF IInv
<1>4. Governed!BeginRevision(v, c, AsRunbook(p))
  BY <1>1, <1>2, <1>3, CallerRead, RowRead, RowsUnread DEF IInv, Governed!BeginRevision
<1>5. QED
  BY <1>4, ProposalMapped DEF GovernedStep, Governed!Next

LEMMA BeginReviewMapped ==
  ASSUME IInv, NEW v \in Reviewers, NEW c \in Candidates,
         NEW decision \in {"approve", "reject"}, BeginReview(v, c, decision)
  PROVE  GovernedStep
<1> DEFINE p == candidate[c].proposal
           q == CandidateAsRunbook[c].proposal
           pc == IF decision = "reject" THEN "rejecting"
                 ELSE IF p.passes THEN "promoting" ELSE "failing"
           me == [pc |-> pc, candidate |-> c, proposal |-> p,
                  revision |-> None, activation |-> None]
<1>1. /\ reviewer[v].pc = "idle" /\ IsPending(c)
      /\ reviewer' = [reviewer EXCEPT ![v] = me]
      /\ UNCHANGED <<candidate, promoted>>
  BY DEF BeginReview
<1>2. p \in Proposals
  BY <1>1 DEF IInv, RowsAreComplete, IsPending
<1>3. q = AsRunbook(p) /\ q.passes = p.passes
  BY <1>2, RowRead, ProposalMapped DEF IInv
<1>4. AsReviewer(me) = [pc |-> pc, candidate |-> c, proposal |-> q]
  <2>1. pc # "recording"
    OBVIOUS
  <2>2. /\ me.pc = pc /\ me.candidate = c /\ me.proposal = p
    OBVIOUS
  <2> HIDE DEF me, pc, p, q
  <2>3. QED
    BY <1>3, <2>1, <2>2 DEF AsReviewer
<1>5. pc = IF decision = "reject" THEN "rejecting"
           ELSE IF q.passes THEN "promoting" ELSE "failing"
  BY <1>3
<1>6. ReviewerAsRunbook' = [ReviewerAsRunbook EXCEPT ![v] = AsReviewer(me)]
  <2> HIDE DEF me
  <2>1. QED
    BY <1>1, CallerWritten DEF IInv
<1>7. /\ ReviewerAsRunbook[v].pc = "idle" /\ Governed!IsPending(c)
      /\ UNCHANGED <<CandidateAsRunbook, PromotedAsRunbook>>
  BY <1>1, CallerRead, RowRead, RowsUnread DEF IInv
<1> HIDE DEF me, pc, p
<1>8. Governed!BeginReview(v, c, decision)
  BY <1>4, <1>5, <1>6, <1>7 DEF Governed!BeginReview
<1>9. QED
  BY <1>8 DEF GovernedStep, Governed!Next

LEMMA TurnDownMapped ==
  ASSUME IInv, NEW v \in Reviewers, TurnDown(v)
  PROVE  GovernedStep
<1> DEFINE c == reviewer[v].candidate
           s == Verdict(reviewer[v].pc)
<1>1. /\ reviewer[v].pc \in {"rejecting", "failing"}
      /\ IsPending(c)
      /\ candidate' = [candidate EXCEPT ![c].state = s]
      /\ Return(v)
      /\ UNCHANGED promoted
  BY DEF TurnDown
<1>2. c \in Candidates /\ s \in CandidateStates
  BY <1>1 DEF IInv, CallersAreBound, HoldsCandidate, Reviewing, Verdict, CandidateStates
<1>3. /\ ReviewerAsRunbook[v].pc = reviewer[v].pc
      /\ ReviewerAsRunbook[v].candidate = c
      /\ s = Governed!Verdict(reviewer[v].pc)
  BY <1>1, CallerRead DEF Verdict, Governed!Verdict
<1> HIDE DEF c, s
<1>4. /\ CandidateAsRunbook' = [CandidateAsRunbook EXCEPT ![c].state = s]
      /\ UNCHANGED PromotedAsRunbook
      /\ Governed!Return(v) /\ Governed!IsPending(c)
  BY <1>1, <1>2, StateWritten, VersionsUnread, ReturnMapped, RowRead DEF IInv
<1>5. Governed!TurnDown(v)
  BY <1>1, <1>3, <1>4 DEF Governed!TurnDown
<1>6. QED
  BY <1>5 DEF GovernedStep, Governed!Next

LEMMA LocalMapped ==
  ASSUME UNCHANGED <<candidate, promoted, reviewer>>
  PROVE  GovernedStep
BY DEF GovernedStep, Governed!vars, CandidateAsRunbook, PromotedAsRunbook,
       ReviewerAsRunbook

LEMMA BeginRecordMapped ==
  ASSUME IInv, NEW v \in Reviewers, NEW k \in Capabilities, NEW n \in Numbers,
         BeginRecord(v, k, n)
  PROVE  GovernedStep
<1> DEFINE me == [pc |-> "recording", candidate |-> None, proposal |-> None,
                  revision |-> None, activation |-> [capability |-> k, version |-> n]]
<1>1. /\ reviewer[v].pc = "idle"
      /\ reviewer' = [reviewer EXCEPT ![v] = me]
      /\ UNCHANGED <<candidate, promoted>>
  BY DEF BeginRecord
<1>2. AsReviewer(me) = Governed!Idle
  BY NoneMapped DEF AsReviewer, Governed!Idle
<1>3. AsReviewer(reviewer[v]) = Governed!Idle
  <2>1. reviewer[v].candidate = None /\ reviewer[v].proposal = None
    BY <1>1 DEF IInv, CallersAreBound, HoldsCandidate, Reviewing
  <2>2. QED
    BY <1>1, <2>1, NoneMapped DEF AsReviewer, Governed!Idle
<1> HIDE DEF me
<1>4. ReviewerAsRunbook' = [ReviewerAsRunbook EXCEPT ![v] = AsReviewer(reviewer[v])]
  BY <1>1, <1>2, <1>3, CallerWritten DEF IInv
<1>5. UNCHANGED ReviewerAsRunbook
  BY <1>4, Views
<1>6. QED
  BY <1>1, <1>5, RowsUnread DEF GovernedStep, Governed!vars

(***************************************************************************)
(* A caller that returns with the rows unchanged lost a review, or was not *)
(* reviewing.                                                              *)
(***************************************************************************)
LEMMA ReturnsMapped ==
  ASSUME IInv, NEW v \in Reviewers, reviewer[v].pc # "idle", Return(v),
         UNCHANGED <<candidate, promoted>>
  PROVE  GovernedStep
<1>1. Governed!Return(v) /\ UNCHANGED <<CandidateAsRunbook, PromotedAsRunbook>>
  BY ReturnMapped, RowsUnread DEF IInv
<1>2. CASE reviewer[v].pc = "recording"
  <2>1. ReviewerAsRunbook[v] = Governed!Idle
    BY <1>2, RecordingIsIdle, Views
  <2>2. UNCHANGED ReviewerAsRunbook
    BY <1>1, <2>1, Views DEF Governed!Return
  <2>3. QED
    BY <1>1, <2>2 DEF GovernedStep, Governed!vars
<1>3. CASE reviewer[v].pc # "recording"
  <2>1. Governed!LoseReview(v)
    BY <1>1, <1>3, CallerRead DEF Governed!LoseReview
  <2>2. QED
    BY <2>1 DEF GovernedStep, Governed!Next
<1>4. QED
  BY <1>2, <1>3

LEMMA CommitRevisionMapped ==
  ASSUME IInv, NEW v \in Reviewers, Commit(v), reviewer[v].pc = "revising"
  PROVE  GovernedStep
<1> DEFINE me == reviewer[v]
           c == me.candidate
           d == me.revision
           p == me.proposal
           lost == [candidate[c] EXCEPT !.state = "superseded"]
           C == CandidateAsRunbook
<1>1. /\ Return(v) /\ IsPending(c) /\ UNCHANGED promoted
      /\ candidate' = [Updated(me) EXCEPT ![d] = Pending(p, c)]
  BY CommitFacts DEF Inserted, Appended
<1>2. c \in Candidates /\ d \in Candidates /\ candidate[d].state = "absent"
  BY InTransaction DEF Commit
<1>3. Updated(me) = [candidate EXCEPT ![c] = lost]
  BY DEF Updated
<1>4. candidate \in [Candidates -> Rows] /\ TypeOK
  BY DEF IInv, TypeOK
<1>5. /\ C[d].state = "absent" /\ Governed!IsPending(c) /\ Governed!Return(v)
      /\ UNCHANGED PromotedAsRunbook
      /\ ReviewerAsRunbook[v].pc = "revising"
      /\ ReviewerAsRunbook[v].candidate = c
      /\ ReviewerAsRunbook[v].proposal = AsRunbook(p)
  BY <1>1, <1>2, <1>4, RowRead, CallerRead, ReturnMapped, VersionsUnread
<1>6. AsRow(lost) = [AsRow(candidate[c]) EXCEPT !.state = "superseded"]
  BY <1>2, <1>4, RowMapped DEF CandidateStates
<1>7. AsRow(candidate[c]) = C[c]
  BY <1>2, Views
<1>8. AsRow(Pending(p, c)) = Governed!Pending(AsRunbook(p), c)
  BY PendingMapped
<1> HIDE DEF me, c, d, p, lost
<1>9. C' = [C EXCEPT ![c].state = "superseded",
                     ![d] = Governed!Pending(AsRunbook(p), c)]
  <2>1. c # d
    BY <1>1, <1>2 DEF IsPending
  <2>2. \A x \in Candidates : AsRow(candidate'[x]) =
          IF x = d THEN Governed!Pending(AsRunbook(p), c)
          ELSE IF x = c THEN [C[c] EXCEPT !.state = "superseded"]
          ELSE AsRow(candidate[x])
    BY <1>1, <1>2, <1>3, <1>4, <1>6, <1>7, <1>8
  <2>3. QED
    BY <1>2, <2>1, <2>2, Views
<1> HIDE DEF C
<1>10. Governed!Revise(v, d)
  BY <1>5, <1>9 DEF Governed!Revise, C
<1>11. QED
  BY <1>2, <1>10 DEF GovernedStep, Governed!Next

LEMMA CommitPromotionMapped ==
  ASSUME IInv, NEW v \in Reviewers, Commit(v), reviewer[v].pc = "promoting"
  PROVE  GovernedStep
<1> DEFINE me == reviewer[v]
           c == me.candidate
           p == me.proposal
           k == p.capability
           e == [source |-> c, proposal |-> p]
           r == [source |-> c, proposal |-> AsRunbook(p)]
           V == PromotedAsRunbook
<1>1. /\ Return(v) /\ IsPending(c)
      /\ candidate' = Updated(me)
      /\ promoted' = [promoted EXCEPT ![k] = Append(@, e)]
  BY CommitFacts DEF Inserted, Appended
<1>2. c \in Candidates /\ p \in Proposals
  BY InTransaction DEF Commit
<1>3. Updated(me) = [candidate EXCEPT ![c].state = "promoted"]
  BY DEF Updated
<1>4. promoted \in [Capabilities -> Seq(Versions)] /\ TypeOK
  BY DEF IInv, TypeOK
<1>5. /\ Governed!IsPending(c) /\ Governed!Return(v)
      /\ ReviewerAsRunbook[v].pc = "promoting"
      /\ ReviewerAsRunbook[v].candidate = c
      /\ ReviewerAsRunbook[v].proposal = AsRunbook(p)
      /\ AsRunbook(p).runbook = k
  BY <1>1, <1>2, <1>4, RowRead, CallerRead, ReturnMapped, ProposalMapped
<1>6. CandidateAsRunbook' = [CandidateAsRunbook EXCEPT ![c].state = "promoted"]
  BY <1>1, <1>2, <1>3, <1>4, StateWritten DEF CandidateStates
<1>7. /\ e \in Versions /\ k \in Capabilities
      /\ [e EXCEPT !.proposal = AsRunbook(@)] = r
  BY <1>2 DEF Versions, Proposals
<1> HIDE DEF me, c, p, k, e, r
<1>8. V' = [V EXCEPT ![k] = Append(V[k], r)]
  <2>1. AsVersions(Append(promoted[k], e)) = Append(AsVersions(promoted[k]), r)
    BY <1>4, <1>7, AppendMapped
  <2>2. V[k] = AsVersions(promoted[k])
    BY <1>7, Views
  <2>3. \A b \in Capabilities : AsVersions(promoted'[b]) =
          IF b = k THEN Append(V[k], r) ELSE AsVersions(promoted[b])
    BY <1>1, <1>4, <1>7, <2>1, <2>2
  <2>4. QED
    BY <1>7, <2>3, Views
<1> HIDE DEF V
<1>9. Governed!Promote(v)
  BY <1>5, <1>6, <1>8 DEF Governed!Promote, V, r
<1>10. QED
  BY <1>9 DEF GovernedStep, Governed!Next

LEMMA InitMapped == Init => Governed!Init
<1> SUFFICES ASSUME Init PROVE Governed!Init
  OBVIOUS
<1>1. CandidateAsRunbook = [c \in Candidates |->
          [state |-> "absent", proposal |-> None, supersedes |-> None]]
  <2>1. AsRow([state |-> "absent", proposal |-> None, supersedes |-> None])
          = [state |-> "absent", proposal |-> None, supersedes |-> None]
    BY NoneMapped DEF AsRow
  <2>2. QED
    BY <2>1, Views DEF Init, NoRows
<1>2. PromotedAsRunbook = [k \in Capabilities |-> <<>>]
  <2>1. AsVersions(<<>>) = <<>>
    BY DEF AsVersions
  <2>2. QED
    BY <2>1, Views DEF Init, NoVersions
<1>3. ReviewerAsRunbook = [v \in Reviewers |-> Governed!Idle]
  BY IdleMapped, Views DEF Init
<1>4. QED
  BY <1>1, <1>2, <1>3 DEF Governed!Init

LEMMA NextMapped ==
  ASSUME IInv, [Next]_vars
  PROVE  [Governed!Next]_(Governed!vars)
<1>1. ASSUME NEW c \in Candidates, NEW p \in Proposals, submit(c, p) PROVE GovernedStep
  BY <1>1, SubmitMapped
<1>2. ASSUME NEW v \in Reviewers, NEW c \in Candidates, NEW d \in Candidates,
             NEW p \in Proposals, BeginRevision(v, c, d, p)
      PROVE  GovernedStep
  BY <1>2, BeginRevisionMapped
<1>3. ASSUME NEW v \in Reviewers, NEW c \in Candidates,
             NEW decision \in {"approve", "reject"}, BeginReview(v, c, decision)
      PROVE  GovernedStep
  BY <1>3, BeginReviewMapped
<1>4. ASSUME NEW v \in Reviewers, NEW k \in Capabilities, NEW n \in Numbers,
             BeginRecord(v, k, n)
      PROVE  GovernedStep
  BY <1>4, BeginRecordMapped
<1>5. ASSUME NEW v \in Reviewers, Commit(v) PROVE GovernedStep
  <2>1. reviewer[v].pc \in {"revising", "promoting"}
    BY <1>5, InTransaction DEF Commit
  <2>2. QED
    BY <1>5, <2>1, CommitRevisionMapped, CommitPromotionMapped
<1>6. ASSUME NEW v \in Reviewers, TurnDown(v) PROVE GovernedStep
  BY <1>6, TurnDownMapped
<1>7. ASSUME NEW v \in Reviewers, Begin(v) \/ Update(v) \/ Insert(v) PROVE GovernedStep
  BY <1>7, LocalMapped DEF Begin, Update, Insert
<1>8. ASSUME NEW v \in Reviewers, record_activation(v) \/ Lose(v) PROVE GovernedStep
  BY <1>8, ReturnsMapped DEF record_activation, Lose
<1>9. ASSUME UNCHANGED vars PROVE GovernedStep
  BY <1>9, LocalMapped DEF vars
<1>10. GovernedStep
  BY <1>1, <1>2, <1>3, <1>4, <1>5, <1>6, <1>7, <1>8, <1>9 DEF Next
<1>11. QED
  BY <1>10 DEF GovernedStep

(***************************************************************************)
(* The statements of the capability registry, with transactions that are   *)
(* lost half-way and a history of activations, implement the governed      *)
(* registry of RunbookRegistry.                                            *)
(***************************************************************************)
THEOREM ImplementsGovernedRegistry == Spec => IsGoverned
<1>1. IInv /\ [Next]_vars => [Governed!Next]_(Governed!vars)
  BY NextMapped
<1>2. QED
  BY InductiveInvariant, InitMapped, <1>1, PTL DEF Spec, IsGoverned, Governed!Spec

-------------------------------------------------------------------------------
(* THE SESSIONS                                                            *)

SessionPCs == {"new", "promoted", "proposed", "approved", "executed", "audited",
               "recorded", "ended"}

SessionTypes ==
  /\ contracts \in [Kinds -> Seq(Contracts)]
  /\ session \in [Sessions -> [pc : SessionPCs, capability : Kinds \cup {None},
                               version : Nat \cup {None}, digest : Contracts \cup {None},
                               result : {None, "refused", "already", "verified", "rolled_back"}]]
  /\ worker \in [Sessions -> [concurrency : {4, 12}, forced : BOOLEAN, fails : BOOLEAN]]
  /\ DOMAIN audit = Sessions /\ DOMAIN record = Sessions

(***************************************************************************)
(* A session's binding is the text of its version, which the gate passed:  *)
(* versions are only appended.                                             *)
(***************************************************************************)
BoundTo(me) ==
  /\ me.capability \in Kinds
  /\ me.version \in DOMAIN contracts[me.capability]
  /\ contracts[me.capability][me.version] = me.digest
  /\ me.digest \in Contracts /\ Session!Passes(me.digest)

BindingsHold ==
  \A s \in Sessions : session[s].pc \notin {"new", "ended"} => BoundTo(session[s])

(* Only the capability of this action is proposed.                         *)
ProposedIsReduce ==
  \A s \in Sessions :
    session[s].pc \notin {"new", "promoted", "ended"} => session[s].capability = Reduce

(* The worker is as a new lab leaves it until the action is executed.      *)
WorkerIsUntouched ==
  \A s \in Sessions : session[s].pc \in {"new", "promoted", "proposed", "approved"} =>
    worker[s].concurrency = 12 /\ ~worker[s].forced

WorkerIsLowered ==
  \A s \in Sessions : worker[s].concurrency # 12 =>
    /\ BoundTo(session[s]) /\ session[s].capability = Reduce
    /\ Session!Conforms(session[s].digest)

(* What the result of the execution says of the worker.                    *)
ResultIsTrue ==
  \A s \in Sessions : Session!Executed(s) =>
    /\ session[s].result \in {"refused", "verified", "rolled_back"}
    /\ ~worker[s].forced
    /\ worker[s].concurrency = IF session[s].result = "verified" THEN 4 ELSE 12

RowsAreOfResult ==
  \A s \in Sessions :
    /\ session[s].pc \in {"audited", "recorded"} =>
         audit[s].outcome = IF session[s].result = "verified" THEN "succeeded"
                            ELSE "rollback_applied"
    /\ session[s].pc \notin {"recorded"} => record[s] = None
    /\ session[s].pc = "recorded" =>
         /\ record[s].capability = session[s].capability
         /\ record[s].version = session[s].version
         /\ record[s].outcome = IF session[s].result = "verified" THEN "succeeded" ELSE "failed"

SessionsInv ==
  /\ SessionTypes /\ BindingsHold /\ ProposedIsReduce /\ WorkerIsUntouched
  /\ WorkerIsLowered /\ ResultIsTrue /\ RowsAreOfResult

LEMMA SessionsInit == Session!Init => SessionsInv
<1> SUFFICES ASSUME Session!Init PROVE SessionsInv
  OBVIOUS
<1>1. SessionTypes
  <2>1. contracts \in [Kinds -> Seq(Contracts)]
    BY EmptySeq DEF Session!Init
  <2>2. session \in [Sessions -> [pc : SessionPCs, capability : Kinds \cup {None},
                                  version : Nat \cup {None}, digest : Contracts \cup {None},
                                  result : {None, "refused", "already", "verified", "rolled_back"}]]
    BY DEF Session!Init, SessionPCs
  <2>3. worker \in [Sessions -> [concurrency : {4, 12}, forced : BOOLEAN, fails : BOOLEAN]]
    BY DEF Session!Init, Session!Elevated
  <2>4. DOMAIN audit = Sessions /\ DOMAIN record = Sessions
    BY DEF Session!Init
  <2>5. QED
    BY <2>1, <2>2, <2>3, <2>4 DEF SessionTypes
<1>2. \A s \in Sessions : /\ session[s].pc = "new" /\ record[s] = None
                          /\ worker[s].concurrency = 12 /\ worker[s].forced = FALSE
  BY DEF Session!Init, Session!Elevated
<1>3. BindingsHold /\ ProposedIsReduce /\ RowsAreOfResult
  BY <1>2 DEF BindingsHold, ProposedIsReduce, RowsAreOfResult
<1>4. WorkerIsUntouched /\ WorkerIsLowered /\ ResultIsTrue
  BY <1>2 DEF WorkerIsUntouched, WorkerIsLowered, ResultIsTrue, Session!Executed
<1> QED
  BY <1>1, <1>3, <1>4 DEF SessionsInv

(***************************************************************************)
(* What the invariant says of one session, and that it says the same of    *)
(* one that a step leaves alone while the registry only grows.             *)
(***************************************************************************)
SessionInv(s) ==
  /\ session[s].pc \notin {"new", "ended"} => BoundTo(session[s])
  /\ session[s].pc \notin {"new", "promoted", "ended"} => session[s].capability = Reduce
  /\ session[s].pc \in {"new", "promoted", "proposed", "approved"} =>
       worker[s].concurrency = 12 /\ ~worker[s].forced
  /\ worker[s].concurrency # 12 =>
       /\ BoundTo(session[s]) /\ session[s].capability = Reduce
       /\ Session!Conforms(session[s].digest)
  /\ Session!Executed(s) =>
       /\ session[s].result \in {"refused", "verified", "rolled_back"}
       /\ ~worker[s].forced
       /\ worker[s].concurrency = IF session[s].result = "verified" THEN 4 ELSE 12
  /\ session[s].pc \in {"audited", "recorded"} =>
       audit[s].outcome = IF session[s].result = "verified" THEN "succeeded"
                          ELSE "rollback_applied"
  /\ session[s].pc # "recorded" => record[s] = None
  /\ session[s].pc = "recorded" =>
       /\ record[s].capability = session[s].capability
       /\ record[s].version = session[s].version
       /\ record[s].outcome = IF session[s].result = "verified" THEN "succeeded" ELSE "failed"

LEMMA PerSession ==
  /\ SessionsInv <=> SessionTypes /\ \A s \in Sessions : SessionInv(s)
  /\ SessionsInv' <=> SessionTypes' /\ \A s \in Sessions : SessionInv(s)'
<1> USE DEF SessionsInv, BindingsHold, ProposedIsReduce, WorkerIsUntouched, WorkerIsLowered,
            ResultIsTrue, RowsAreOfResult, SessionInv
<1>1. SessionsInv <=> SessionTypes /\ \A s \in Sessions : SessionInv(s)
  OBVIOUS
<1>2. SessionsInv' <=> SessionTypes' /\ \A s \in Sessions : SessionInv(s)'
  OBVIOUS
<1>3. QED
  BY <1>1, <1>2

RegistryGrows ==
  \A k \in Kinds : \A n \in DOMAIN contracts[k] :
    n \in DOMAIN contracts'[k] /\ contracts'[k][n] = contracts[k][n]

LEMMA UntouchedSession ==
  ASSUME RegistryGrows, NEW s \in Sessions, SessionInv(s),
         session'[s] = session[s], worker'[s] = worker[s], audit'[s] = audit[s],
         record'[s] = record[s]
  PROVE  SessionInv(s)'
<1>1. BoundTo(session[s]) => BoundTo(session[s])'
  BY DEF RegistryGrows, BoundTo, Session!Passes, Session!MaxParameter
<1>2. Session!Conforms(session[s].digest) => Session!Conforms(session[s].digest)'
  BY DEF Session!Conforms, Session!SafeConcurrency
<1>3. Session!Executed(s)' <=> Session!Executed(s)
  BY DEF Session!Executed
<1>4. QED
  BY <1>1, <1>2, <1>3 DEF SessionInv

(* A step of session s moves nothing else.                                 *)
LEMMA OtherSessions ==
  ASSUME SessionsInv, RegistryGrows, SessionTypes', NEW s \in Sessions,
         \A u \in Sessions \ {s} : /\ session'[u] = session[u] /\ worker'[u] = worker[u]
                                   /\ audit'[u] = audit[u] /\ record'[u] = record[u],
         SessionInv(s)'
  PROVE  SessionsInv'
<1>1. \A u \in Sessions : SessionInv(u)'
  BY PerSession, UntouchedSession
<1>2. QED
  BY <1>1, PerSession

LEMMA PromoteStep ==
  ASSUME SessionsInv, NEW s \in Sessions, NEW t \in Contracts, Session!PromoteContract(s, t)
  PROVE  SessionsInv'
<1> USE DEF SessionsInv, SessionTypes
<1> DEFINE k == t.capability
<1>1. /\ session[s].pc = "new" /\ Session!Passes(t) /\ UNCHANGED <<worker, audit, record>>
      /\ contracts' = [contracts EXCEPT ![k] = Append(@, t)]
      /\ session' = [session EXCEPT ![s] =
                       [pc |-> "promoted", capability |-> k, version |-> Len(contracts[k]) + 1,
                        digest |-> t, result |-> None]]
  BY DEF Session!PromoteContract
<1>2. k \in Kinds
  BY SessionsAssumption DEF Session!ActivationAssumption, Session!IsContract
<1>3. contracts[k] \in Seq(Contracts)
  BY <1>2
<1> DEFINE n == Len(contracts[k]) + 1
           new == Append(contracts[k], t)
<1>4. /\ new \in Seq(Contracts) /\ n \in Nat /\ n \in DOMAIN new /\ new[n] = t
      /\ \A i \in DOMAIN contracts[k] : i \in DOMAIN new /\ new[i] = contracts[k][i]
  BY <1>3
<1>5. \A j \in Kinds : contracts'[j] = IF j = k THEN new ELSE contracts[j]
  BY <1>1, <1>2
<1>6. contracts' \in [Kinds -> Seq(Contracts)] /\ RegistryGrows
  BY <1>1, <1>2, <1>4, <1>5 DEF RegistryGrows
<1> DEFINE me == [pc |-> "promoted", capability |-> k, version |-> n, digest |-> t,
                  result |-> None]
<1>7. session' \in [Sessions -> [pc : SessionPCs, capability : Kinds \cup {None},
                                 version : Nat \cup {None}, digest : Contracts \cup {None},
                                 result : {None, "refused", "already", "verified", "rolled_back"}]]
  <2>1. me \in [pc : SessionPCs, capability : Kinds \cup {None}, version : Nat \cup {None},
                digest : Contracts \cup {None},
                result : {None, "refused", "already", "verified", "rolled_back"}]
    BY <1>2, <1>4 DEF SessionPCs
  <2>2. QED
    BY <1>1, <2>1
<1>8. SessionTypes'
  BY <1>1, <1>6, <1>7
<1>9. session'[s] = me /\ \A u \in Sessions \ {s} : session'[u] = session[u]
  BY <1>1
<1>10. BoundTo(session[s])'
  <2>1. contracts'[k][n] = t /\ n \in DOMAIN contracts'[k]
    BY <1>2, <1>4, <1>5
  <2>2. Session!Passes(t)'
    BY <1>1 DEF Session!Passes, Session!MaxParameter
  <2>3. QED
    BY <1>2, <1>9, <2>1, <2>2 DEF BoundTo
<1>11. SessionInv(s)'
  <2>1. worker[s].concurrency = 12 /\ ~worker[s].forced /\ record[s] = None
    BY <1>1 DEF WorkerIsUntouched, RowsAreOfResult
  <2>2. session'[s].pc = "promoted" /\ worker' = worker /\ record' = record
    BY <1>1, <1>9
  <2>3. QED
    BY <1>10, <2>1, <2>2 DEF SessionInv, Session!Executed
<1>12. QED
  BY <1>1, <1>6, <1>8, <1>9, <1>11, OtherSessions

(***************************************************************************)
(* The steps that move the session and none of its tables.                 *)
(***************************************************************************)
LEMMA GotoStep ==
  ASSUME SessionsInv, NEW s \in Sessions, NEW pc \in SessionPCs, Session!Goto(s, pc)
  PROVE  /\ session' = [session EXCEPT ![s] = [session[s] EXCEPT !.pc = pc]]
         /\ session'[s] = [session[s] EXCEPT !.pc = pc]
         /\ session'[s].pc = pc /\ session'[s].capability = session[s].capability
         /\ session'[s].version = session[s].version /\ session'[s].digest = session[s].digest
         /\ session'[s].result = session[s].result
         /\ \A u \in Sessions \ {s} : session'[u] = session[u]
         /\ session' \in [Sessions -> [pc : SessionPCs, capability : Kinds \cup {None},
                            version : Nat \cup {None}, digest : Contracts \cup {None},
                            result : {None, "refused", "already", "verified", "rolled_back"}]]
<1>1. session' = [session EXCEPT ![s] = [session[s] EXCEPT !.pc = pc]]
  BY DEF Session!Goto
<1>2. QED
  BY <1>1 DEF SessionsInv, SessionTypes

LEMMA MoveStep ==
  ASSUME SessionsInv, NEW s \in Sessions,
         Session!build_option(s) \/ Session!approve(s) \/ Session!End(s)
  PROVE  SessionsInv'
<1>1. UNCHANGED <<contracts, worker, audit, record>>
  BY DEF Session!build_option, Session!approve, Session!End
<1>2. PICK pc \in {"proposed", "approved", "ended"} :
        /\ Session!Goto(s, pc)
        /\ pc = "proposed" => session[s].pc = "promoted" /\ session[s].capability = Reduce
        /\ pc = "approved" => session[s].pc = "proposed"
        /\ pc = "ended" => session[s].pc # "recorded"
  BY DEF Session!build_option, Session!approve, Session!End
<1>3. /\ session'[s].pc = pc /\ session'[s].capability = session[s].capability
      /\ session'[s].version = session[s].version /\ session'[s].digest = session[s].digest
      /\ session'[s].result = session[s].result
      /\ \A u \in Sessions \ {s} : session'[u] = session[u]
  BY <1>2, GotoStep DEF SessionPCs
<1>4. SessionTypes'
  BY <1>1, <1>2, GotoStep DEF SessionPCs, SessionsInv, SessionTypes
<1>5. RegistryGrows
  BY <1>1 DEF RegistryGrows
<1>6. BoundTo(session[s]) => BoundTo(session[s])'
  BY <1>1, <1>3 DEF BoundTo, Session!Passes, Session!MaxParameter
<1>7. Session!Conforms(session[s].digest) => Session!Conforms(session[s].digest)'
  BY <1>1, <1>3 DEF Session!Conforms, Session!SafeConcurrency
<1>8. SessionInv(s)
  BY PerSession
<1>9. SessionInv(s)'
  BY <1>1, <1>2, <1>3, <1>6, <1>7, <1>8 DEF SessionInv, Session!Executed
<1>10. QED
  BY <1>1, <1>3, <1>4, <1>5, <1>9, OtherSessions

(***************************************************************************)
(* The execution: what lowers the worker has just been compared with the   *)
(* registry, and a worker that does not verify is put back.                *)
(***************************************************************************)
LEMMA ExecuteStep ==
  ASSUME SessionsInv, NEW s \in Sessions, Session!execute(s)
  PROVE  SessionsInv'
<1> DEFINE Moved(result) == [session[s] EXCEPT !.pc = "executed", !.result = result]
<1>0. /\ session[s].pc = "approved" /\ UNCHANGED <<contracts, audit, record>>
      /\ worker[s] \in [concurrency : {4, 12}, forced : BOOLEAN, fails : BOOLEAN]
      /\ worker[s].concurrency = 12 /\ ~worker[s].forced
      /\ BoundTo(session[s]) /\ session[s].capability = Reduce /\ record[s] = None
  BY DEF Session!execute, SessionsInv, SessionTypes, BindingsHold, ProposedIsReduce,
         WorkerIsUntouched, RowsAreOfResult
<1>1. ASSUME NEW result \in {"refused", "verified", "rolled_back"}, NEW w,
             w \in [concurrency : {4, 12}, forced : BOOLEAN, fails : BOOLEAN],
             ~w.forced, w.concurrency = IF result = "verified" THEN 4 ELSE 12,
             result = "verified" => Session!Conforms(session[s].digest),
             session' = [session EXCEPT ![s] = Moved(result)],
             worker' = [worker EXCEPT ![s] = w]
      PROVE  SessionsInv'
  <2>1. /\ session'[s].pc = "executed" /\ session'[s].capability = session[s].capability
        /\ session'[s].version = session[s].version /\ session'[s].digest = session[s].digest
        /\ session'[s].result = result
        /\ \A u \in Sessions \ {s} : session'[u] = session[u]
        /\ session' \in [Sessions -> [pc : SessionPCs, capability : Kinds \cup {None},
                            version : Nat \cup {None}, digest : Contracts \cup {None},
                            result : {None, "refused", "already", "verified", "rolled_back"}]]
    <3>1. /\ session[s] \in [pc : SessionPCs, capability : Kinds \cup {None},
                             version : Nat \cup {None}, digest : Contracts \cup {None},
                             result : {None, "refused", "already", "verified", "rolled_back"}]
          /\ session \in [Sessions -> [pc : SessionPCs, capability : Kinds \cup {None},
                             version : Nat \cup {None}, digest : Contracts \cup {None},
                             result : {None, "refused", "already", "verified", "rolled_back"}]]
      BY DEF SessionsInv, SessionTypes
    <3>2. Moved(result) \in [pc : SessionPCs, capability : Kinds \cup {None},
                             version : Nat \cup {None}, digest : Contracts \cup {None},
                             result : {None, "refused", "already", "verified", "rolled_back"}]
      BY <3>1 DEF SessionPCs
    <3>3. /\ Moved(result).pc = "executed" /\ Moved(result).capability = session[s].capability
          /\ Moved(result).version = session[s].version /\ Moved(result).digest = session[s].digest
          /\ Moved(result).result = result
      BY <3>1
    <3> HIDE DEF Moved
    <3>4. QED
      BY <1>1, <3>1, <3>2, <3>3
  <2>2. /\ worker'[s] = w /\ \A u \in Sessions \ {s} : worker'[u] = worker[u]
        /\ worker' \in [Sessions -> [concurrency : {4, 12}, forced : BOOLEAN, fails : BOOLEAN]]
    BY <1>1 DEF SessionsInv, SessionTypes
  <2>3. SessionTypes'
    BY <1>0, <2>1, <2>2 DEF SessionsInv, SessionTypes
  <2>4. RegistryGrows
    BY <1>0 DEF RegistryGrows
  <2>5. BoundTo(session[s])'
    BY <1>0, <2>1 DEF BoundTo, Session!Passes, Session!MaxParameter
  <2>6. result = "verified" => Session!Conforms(session[s].digest)'
    BY <1>1, <2>1 DEF Session!Conforms, Session!SafeConcurrency
  <2>7. SessionInv(s)'
    BY <1>0, <1>1, <2>1, <2>2, <2>5, <2>6 DEF SessionInv, Session!Executed
  <2>8. QED
    BY <1>0, <2>1, <2>2, <2>3, <2>4, <2>7, OtherSessions
<1>2. CASE ~Session!IsAuthorized(session[s])
  <2>1. session' = [session EXCEPT ![s] = Moved("refused")] /\ UNCHANGED worker
    BY <1>2 DEF Session!execute
  <2>2. worker' = [worker EXCEPT ![s] = worker[s]]
    BY <2>1 DEF SessionsInv, SessionTypes
  <2>3. QED
    BY <1>0, <1>1, <2>1, <2>2
<1>3. CASE Session!IsAuthorized(session[s])
  <2> DEFINE after == Session!apply(worker[s])
  <2>1. /\ after.concurrency = 4 /\ after.forced = worker[s].fails
        /\ after \in [concurrency : {4, 12}, forced : BOOLEAN, fails : BOOLEAN]
    BY <1>0 DEF Session!apply, Session!SafeConcurrency
  <2>2. Session!Conforms(session[s].digest)
    BY <1>0, <1>3 DEF Session!IsAuthorized, BoundTo
  <2>3. Session!Activate(s)
    BY <1>3 DEF Session!execute
  <2>4. CASE ~worker[s].fails
    <3>1. Session!IsHealthy(after) /\ ~(worker[s].concurrency <= 4)
      BY <1>0, <2>1, <2>4 DEF Session!IsHealthy, Session!SafeConcurrency
    <3>2. session' = [session EXCEPT ![s] = Moved("verified")] /\ worker' = [worker EXCEPT ![s] = after]
      BY <2>3, <3>1 DEF Session!Activate, Session!SafeConcurrency
    <3>3. QED
      BY <1>1, <2>1, <2>2, <2>4, <3>2
  <2>5. CASE worker[s].fails
    <3> DEFINE back == Session!restore(after, worker[s].concurrency)
    <3>1. ~Session!IsHealthy(after) /\ ~(worker[s].concurrency <= 4)
      BY <1>0, <2>1, <2>5 DEF Session!IsHealthy, Session!SafeConcurrency
    <3>2. session' = [session EXCEPT ![s] = Moved("rolled_back")] /\ worker' = [worker EXCEPT ![s] = back]
      BY <2>3, <3>1 DEF Session!Activate, Session!SafeConcurrency
    <3>3. /\ back \in [concurrency : {4, 12}, forced : BOOLEAN, fails : BOOLEAN]
          /\ back.concurrency = 12 /\ back.forced = FALSE
      BY <1>0, <2>1 DEF Session!restore
    <3>4. QED
      BY <1>1, <3>2, <3>3
  <2>6. QED
    BY <1>0, <2>4, <2>5
<1>4. QED
  BY <1>2, <1>3

(* The two histories.                                                      *)
LEMMA RecordsStep ==
  ASSUME SessionsInv, NEW s \in Sessions,
         Session!record_capability_activation(s) \/ Session!record_activation(s)
  PROVE  SessionsInv'
<1>0. /\ session[s].pc \in {"executed", "audited"} /\ UNCHANGED <<contracts, worker>>
      /\ SessionInv(s) /\ DOMAIN audit = Sessions /\ DOMAIN record = Sessions
      /\ worker[s] \in [concurrency : {4, 12}, forced : BOOLEAN, fails : BOOLEAN]
  BY PerSession
  DEF Session!record_capability_activation, Session!record_activation, SessionsInv, SessionTypes
<1>1. Session!IsHealthy(worker[s]) <=> session[s].result = "verified"
  BY <1>0 DEF SessionInv, Session!Executed, Session!IsHealthy, Session!SafeConcurrency
<1>2. RegistryGrows
  BY <1>0 DEF RegistryGrows
<1>3. CASE Session!record_capability_activation(s)
  <2>1. Session!Goto(s, "audited") /\ UNCHANGED record /\ session[s].pc = "executed"
    BY <1>3 DEF Session!record_capability_activation
  <2>2. /\ session'[s].pc = "audited" /\ session'[s].capability = session[s].capability
        /\ session'[s].version = session[s].version /\ session'[s].digest = session[s].digest
        /\ session'[s].result = session[s].result
        /\ \A u \in Sessions \ {s} : session'[u] = session[u]
    BY <2>1, GotoStep DEF SessionPCs
  <2>3. /\ audit'[s].outcome = IF session[s].result = "verified" THEN "succeeded" ELSE "rollback_applied"
        /\ DOMAIN audit' = Sessions /\ \A u \in Sessions \ {s} : audit'[u] = audit[u]
    BY <1>0, <1>1, <1>3 DEF Session!record_capability_activation
  <2>4. SessionTypes'
    BY <1>0, <2>1, <2>3, GotoStep DEF SessionPCs, SessionsInv, SessionTypes
  <2>5. BoundTo(session[s]) => BoundTo(session[s])'
    BY <1>0, <2>2 DEF BoundTo, Session!Passes, Session!MaxParameter
  <2>6. Session!Conforms(session[s].digest) => Session!Conforms(session[s].digest)'
    BY <2>2 DEF Session!Conforms, Session!SafeConcurrency
  <2>7. SessionInv(s)'
    BY <1>0, <2>1, <2>2, <2>3, <2>5, <2>6 DEF SessionInv, Session!Executed
  <2>8. QED
    BY <1>0, <1>2, <2>1, <2>2, <2>3, <2>4, <2>7, OtherSessions
<1>4. CASE Session!record_activation(s)
  <2>1. Session!Goto(s, "recorded") /\ UNCHANGED audit /\ session[s].pc = "audited"
    BY <1>4 DEF Session!record_activation
  <2>2. /\ session'[s].pc = "recorded" /\ session'[s].capability = session[s].capability
        /\ session'[s].version = session[s].version /\ session'[s].digest = session[s].digest
        /\ session'[s].result = session[s].result
        /\ \A u \in Sessions \ {s} : session'[u] = session[u]
    BY <2>1, GotoStep DEF SessionPCs
  <2>3. /\ record'[s].capability = session[s].capability
        /\ record'[s].version = session[s].version
        /\ record'[s].outcome = IF session[s].result = "verified" THEN "succeeded" ELSE "failed"
        /\ DOMAIN record' = Sessions /\ \A u \in Sessions \ {s} : record'[u] = record[u]
    BY <1>0, <1>1, <1>4 DEF Session!record_activation
  <2>4. SessionTypes'
    BY <1>0, <2>1, <2>3, GotoStep DEF SessionPCs, SessionsInv, SessionTypes
  <2>5. BoundTo(session[s]) => BoundTo(session[s])'
    BY <1>0, <2>2 DEF BoundTo, Session!Passes, Session!MaxParameter
  <2>6. Session!Conforms(session[s].digest) => Session!Conforms(session[s].digest)'
    BY <2>2 DEF Session!Conforms, Session!SafeConcurrency
  <2>7. SessionInv(s)'
    BY <1>0, <2>1, <2>2, <2>3, <2>5, <2>6 DEF SessionInv, Session!Executed
  <2>8. QED
    BY <1>0, <1>2, <2>1, <2>2, <2>3, <2>4, <2>7, OtherSessions
<1>5. QED
  BY <1>3, <1>4

LEMMA SessionsStep == SessionsInv /\ [Session!Next]_sessionVars => SessionsInv'
<1> SUFFICES ASSUME SessionsInv, [Session!Next]_sessionVars PROVE SessionsInv'
  OBVIOUS
<1>1. CASE UNCHANGED sessionVars
  <2>1. SessionTypes' /\ RegistryGrows
    BY <1>1 DEF sessionVars, SessionsInv, SessionTypes, RegistryGrows
  <2>2. \A s \in Sessions : SessionInv(s)'
    BY <1>1, <2>1, PerSession, UntouchedSession DEF sessionVars
  <2>3. QED
    BY <2>1, <2>2, PerSession
<1>2. CASE Session!Next
  BY <1>2, PromoteStep, MoveStep, ExecuteStep, RecordsStep DEF Session!Next
<1>3. QED
  BY <1>1, <1>2

-------------------------------------------------------------------------------
(* THE THEOREMS OF BOTH                                                    *)

(***************************************************************************)
(* A behaviour of the two together is one of each, so that what is proved  *)
(* of the registry alone holds for it.                                     *)
(***************************************************************************)
THEOREM CapabilitiesAreBoth == CapabilitiesSpec => Spec /\ Session!Spec
<1>1. CapabilitiesInit => Init /\ Session!Init
  BY DEF CapabilitiesInit
<1>2. [CapabilitiesNext]_capabilitiesVars => [Next]_vars /\ [Session!Next]_(Session!vars)
  BY DEF CapabilitiesNext, capabilitiesVars, sessionVars, Session!vars
<1>3. QED
  BY <1>1, <1>2, PTL DEF CapabilitiesSpec, Spec, Session!Spec

(***************************************************************************)
(* The invariants of both, which the theorems below follow from.           *)
(***************************************************************************)
THEOREM CapabilitiesInvariant == CapabilitiesSpec => [](IInv /\ SessionsInv)
<1>1. CapabilitiesInit => IInv /\ SessionsInv
  BY InitIInv, SessionsInit DEF CapabilitiesInit
<1>2. IInv /\ SessionsInv /\ [CapabilitiesNext]_capabilitiesVars => IInv' /\ SessionsInv'
  <2>1. [CapabilitiesNext]_capabilitiesVars => [Next]_vars /\ [Session!Next]_sessionVars
    BY DEF CapabilitiesNext, capabilitiesVars
  <2>2. QED
    BY <2>1, NextIInv, StutterIInv, SessionsStep
<1>3. QED
  BY <1>1, <1>2, PTL DEF CapabilitiesSpec

(***************************************************************************)
(* A worker runs lowered only under a contract that the gate passed, that  *)
(* is still what the registry holds for the bound version, and that allows *)
(* the value (executor.py, ConcurrencyReductionExecutor).                  *)
(***************************************************************************)
THEOREM LoweredByContract == CapabilitiesSpec => []LoweredUnderContract
<1>1. ASSUME SessionsInv, NEW s \in Sessions, worker[s].concurrency # Session!Elevated
      PROVE  LET me == session[s]
                 t == contracts[me.capability][me.version]
             IN  /\ me.capability = Reduce
                 /\ Session!Passes(t)
                 /\ worker[s].concurrency <= Session!MaxParameter
                 /\ t.parameters[Target].minimum <= worker[s].concurrency
                 /\ worker[s].concurrency <= t.parameters[Target].maximum
  <2>1. /\ BoundTo(session[s]) /\ session[s].capability = Reduce
        /\ Session!Conforms(session[s].digest) /\ worker[s].concurrency = 4
    BY <1>1 DEF SessionsInv, WorkerIsLowered, SessionTypes, Session!Elevated
  <2>2. QED
    BY <2>1 DEF BoundTo, Session!Conforms, Session!SafeConcurrency, Session!MaxParameter
<1>2. SessionsInv => LoweredUnderContract
  BY <1>1 DEF LoweredUnderContract, Session!LoweredUnderContract
<1>3. QED
  BY <1>2, CapabilitiesInvariant, PTL

(***************************************************************************)
(* A verified activation leaves a healthy worker, any other one the worker *)
(* as it was (executor.py, ConcurrencyReductionExecutor, and its restore). *)
(***************************************************************************)
THEOREM AllOrNothing == CapabilitiesSpec => []ActivationIsAllOrNothing
<1>1. SessionsInv => ActivationIsAllOrNothing
  BY DEF SessionsInv, ResultIsTrue, ActivationIsAllOrNothing, Session!ActivationIsAllOrNothing,
         Session!IsHealthy, Session!SafeConcurrency, Session!Elevated
<1>2. QED
  BY <1>1, CapabilitiesInvariant, PTL

(***************************************************************************)
(* The registry's row of an activation says of it what its execution did,  *)
(* for the version that was bound (cli.py, the demonstration, and          *)
(* capability_learning.py, record_activation).                             *)
(***************************************************************************)
THEOREM TruthfulHistory == CapabilitiesSpec => []HistoryIsTruthful
<1>1. ASSUME SessionsInv, NEW s \in Sessions, record[s] # None
      PROVE  /\ record[s].outcome = "succeeded" <=> session[s].result \in {"verified", "already"}
             /\ record[s].outcome = "succeeded" <=> audit[s].outcome = "succeeded"
             /\ contracts[record[s].capability][record[s].version] = session[s].digest
  <2>1. session[s].pc = "recorded" /\ SessionInv(s)
    BY <1>1, PerSession DEF SessionInv
  <2>2. session[s].result \in {"refused", "verified", "rolled_back"} /\ BoundTo(session[s])
    BY <2>1 DEF SessionInv, Session!Executed
  <2>3. QED
    BY <2>1, <2>2 DEF SessionInv, BoundTo
<1>2. SessionsInv => HistoryIsTruthful
  BY <1>1 DEF HistoryIsTruthful, Session!HistoryIsTruthful
<1>3. QED
  BY <1>2, CapabilitiesInvariant, PTL

=================================================================================
