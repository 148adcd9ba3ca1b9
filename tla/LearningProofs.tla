----------------------------- MODULE LearningProofs -----------------------------
(***************************************************************************)
(* Proofs about learning.  The registry of runbooks, for every number of   *)
(* candidates, runbooks, texts and reviewers; research and the gate, for   *)
(* every set of signals that a proposal may name.                          *)
(***************************************************************************)
EXTENDS MCRunbookLearning, SequenceTheorems, TLAPS

LEMMA PendingTyped ==
  ASSUME NEW p \in Proposals, NEW s \in Candidates \cup {None}
  PROVE  /\ Pending(p, s) \in Rows
         /\ Pending(p, s).state = "pending_review"
         /\ Pending(p, s).proposal = p
         /\ Pending(p, s).supersedes = s
BY DEF Pending, Rows, CandidateStates

(***************************************************************************)
(* Changing the state of a row touches nothing else of it.                 *)
(***************************************************************************)
LEMMA StateChange ==
  ASSUME NEW row \in Rows, NEW s \in CandidateStates
  PROVE  /\ [row EXCEPT !.state = s] \in Rows
         /\ [row EXCEPT !.state = s].state = s
         /\ [row EXCEPT !.state = s].proposal = row.proposal
         /\ [row EXCEPT !.state = s].supersedes = row.supersedes
BY DEF Rows

(***************************************************************************)
(* What a new version does to the sequence of a runbook.                   *)
(***************************************************************************)
LEMMA NewVersion ==
  ASSUME NEW s \in Seq(Versions), NEW e \in Versions
  PROVE  /\ Append(s, e) \in Seq(Versions)
         /\ DOMAIN Append(s, e) = DOMAIN s \cup {Len(s) + 1}
         /\ Append(s, e)[Len(s) + 1] = e
         /\ \A n \in DOMAIN s : Append(s, e)[n] = s[n] /\ n # Len(s) + 1
<1>1. DOMAIN s = 1..Len(s) /\ Len(s) \in Nat
  OBVIOUS
<1>2. Append(s, e) \in Seq(Versions) /\ Len(Append(s, e)) = Len(s) + 1
  BY AppendProperties
<1>3. DOMAIN Append(s, e) = 1..(Len(s) + 1)
  BY <1>2
<1>4. QED
  BY <1>1, <1>2, <1>3, AppendProperties

(***************************************************************************)
(* Only the local variables of a reviewer change: what remains to be shown *)
(* is that they are well formed and bound to their candidate.              *)
(***************************************************************************)
LEMMA LocalStep ==
  ASSUME IInv, UNCHANGED <<candidate, promoted>>,
         reviewer' \in [Reviewers -> ReviewerStates], ReviewsAreBound'
  PROVE  IInv'
<1>1. TypeOK' /\ RowsAreComplete'
  BY DEF IInv, TypeOK, RowsAreComplete
<1>2. VersionsAreReviewed'
  BY DEF IInv, VersionsAreReviewed
<1>3. PromotedOnce'
  BY DEF IInv, PromotedOnce, IsSource
<1>4. LineageIsLinear'
  BY DEF IInv, LineageIsLinear
<1>5. QED
  BY <1>1, <1>2, <1>3, <1>4 DEF IInv

(***************************************************************************)
(* Where no version is added and no candidate enters or leaves the state   *)
(* promoted, sources stay as they are.                                     *)
(***************************************************************************)
LEMMA SameVersions ==
  ASSUME PromotedOnce, promoted' = promoted,
         \A c \in Candidates : candidate'[c].state = "promoted" =>
                                 candidate[c].state = "promoted"
  PROVE  PromotedOnce'
<1> SUFFICES ASSUME NEW c \in Candidates, candidate[c].state = "promoted"
             PROVE  /\ \E b \in Runbooks : \E n \in DOMAIN promoted[b] :
                         IsSource(c, b, n)
                    /\ \A b1, b2 \in Runbooks :
                         \A n1 \in DOMAIN promoted[b1], n2 \in DOMAIN promoted[b2] :
                           IsSource(c, b1, n1) /\ IsSource(c, b2, n2)
                             => b1 = b2 /\ n1 = n2
  BY DEF PromotedOnce, IsSource
<1>1. QED
  BY DEF PromotedOnce

(***************************************************************************)
(* A step that adds no version and leaves promoted candidates alone.       *)
(***************************************************************************)
LEMMA KeptVersions ==
  ASSUME TypeOK, VersionsAreReviewed, promoted' = promoted,
         \A c \in Candidates : candidate[c].state = "promoted" =>
                                 candidate'[c] = candidate[c]
  PROVE  VersionsAreReviewed'
<1> SUFFICES ASSUME NEW b \in Runbooks, NEW n \in DOMAIN promoted[b]
             PROVE  /\ candidate'[promoted[b][n].source].state = "promoted"
                    /\ candidate'[promoted[b][n].source].proposal
                         = promoted[b][n].proposal
                    /\ promoted[b][n].proposal.runbook = b
                    /\ promoted[b][n].proposal.passes
  BY DEF VersionsAreReviewed
<1>1. promoted[b][n] \in Versions
  BY DEF TypeOK
<1>2. promoted[b][n].source \in Candidates
  BY <1>1 DEF Versions
<1>3. QED
  BY <1>2 DEF VersionsAreReviewed

(***************************************************************************)
(* A step that replaces no candidate leaves the lines as they are.         *)
(***************************************************************************)
LEMMA SameLineage ==
  ASSUME LineageIsLinear,
         \A c \in Candidates :
           /\ candidate'[c].supersedes = candidate[c].supersedes
           /\ candidate'[c].state = "superseded" <=>
                candidate[c].state = "superseded"
  PROVE  LineageIsLinear'
BY DEF LineageIsLinear

LEMMA InitIInv == Init => IInv
<1> SUFFICES ASSUME Init PROVE IInv
  OBVIOUS
<1>1. TypeOK
  BY DEF Init, TypeOK, Rows, CandidateStates, ReviewerStates, Idle
<1>2. \A c \in Candidates : candidate[c].state = "absent"
                              /\ candidate[c].supersedes = None
  BY DEF Init
<1>3. \A b \in Runbooks : DOMAIN promoted[b] = {}
  BY DEF Init
<1>4. \A v \in Reviewers : reviewer[v].pc = "idle"
  BY DEF Init, Idle
<1>5. RowsAreComplete /\ LineageIsLinear
  BY <1>2, RegistryAssumption DEF RowsAreComplete, LineageIsLinear
<1>6. ReviewsAreBound
  BY <1>4 DEF ReviewsAreBound
<1>7. VersionsAreReviewed
  BY <1>3 DEF VersionsAreReviewed
<1>8. PromotedOnce
  BY <1>2 DEF PromotedOnce
<1>9. QED
  BY <1>1, <1>5, <1>6, <1>7, <1>8 DEF IInv

(***************************************************************************)
(* A candidate is inserted.                                                *)
(***************************************************************************)
LEMMA SubmitStep ==
  ASSUME IInv, NEW c \in Candidates, NEW p \in Proposals, submit(c, p)
  PROVE  IInv'
<1>1. candidate \in [Candidates -> Rows] /\ candidate[c].state = "absent"
  BY DEF IInv, TypeOK, submit
<1>2. /\ candidate' \in [Candidates -> Rows]
      /\ candidate'[c] = Pending(p, None)
      /\ \A d \in Candidates \ {c} : candidate'[d] = candidate[d]
  BY <1>1, PendingTyped DEF submit
<1>3. /\ candidate'[c].state = "pending_review"
      /\ candidate'[c].proposal = p
      /\ candidate'[c].supersedes = None
  BY <1>2, PendingTyped
<1>4. TypeOK'
  BY <1>2 DEF IInv, TypeOK, submit
<1>5. RowsAreComplete'
  BY <1>2, <1>3, RegistryAssumption DEF IInv, RowsAreComplete
<1>6. ReviewsAreBound'
  BY <1>1, <1>2, <1>3 DEF IInv, ReviewsAreBound, submit
<1>7. VersionsAreReviewed'
  BY <1>1, <1>2, KeptVersions DEF IInv, submit
<1>8. PromotedOnce'
  BY <1>2, <1>3, SameVersions DEF IInv, submit
<1>9. LineageIsLinear'
  <2>1. candidate[c].supersedes = None
    BY <1>1 DEF IInv, RowsAreComplete
  <2>2. \A d \in Candidates :
          /\ candidate'[d].supersedes = candidate[d].supersedes
          /\ candidate'[d].state = "superseded" <=>
               candidate[d].state = "superseded"
    BY <1>1, <1>2, <1>3, <2>1
  <2>3. QED
    BY <2>2, SameLineage DEF IInv
<1>10. QED
  BY <1>4, <1>5, <1>6, <1>7, <1>8, <1>9 DEF IInv

LEMMA BeginRevisionStep ==
  ASSUME IInv, NEW v \in Reviewers, NEW c \in Candidates, NEW p \in Proposals,
         BeginRevision(v, c, p)
  PROVE  IInv'
<1> DEFINE job == [pc |-> "revising", candidate |-> c, proposal |-> p]
<1>1. job \in ReviewerStates
  BY DEF ReviewerStates
<1>2. reviewer' \in [Reviewers -> ReviewerStates]
  BY <1>1 DEF IInv, TypeOK, BeginRevision
<1>3. /\ reviewer'[v] = job
      /\ \A u \in Reviewers \ {v} : reviewer'[u] = reviewer[u]
  BY DEF IInv, TypeOK, BeginRevision
<1>4. ReviewsAreBound'
  BY <1>3 DEF IInv, ReviewsAreBound, BeginRevision, IsPending
<1>5. QED
  BY <1>2, <1>4, LocalStep DEF BeginRevision

LEMMA BeginReviewStep ==
  ASSUME IInv, NEW v \in Reviewers, NEW c \in Candidates,
         NEW decision \in {"approve", "reject"}, BeginReview(v, c, decision)
  PROVE  IInv'
<1> DEFINE p   == candidate[c].proposal
           pc  == IF decision = "reject" THEN "rejecting"
                  ELSE IF p.passes THEN "promoting" ELSE "failing"
           job == [pc |-> pc, candidate |-> c, proposal |-> p]
<1>1. p \in Proposals /\ candidate[c].state # "absent"
  BY DEF IInv, RowsAreComplete, BeginReview, IsPending
<1>2. job \in ReviewerStates
  BY <1>1 DEF ReviewerStates
<1>3. reviewer' = [reviewer EXCEPT ![v] = job]
  BY DEF BeginReview
<1>4. reviewer' \in [Reviewers -> ReviewerStates]
  BY <1>2, <1>3 DEF IInv, TypeOK
<1>5. /\ reviewer'[v] = job
      /\ \A u \in Reviewers \ {v} : reviewer'[u] = reviewer[u]
  BY <1>3 DEF IInv, TypeOK
<1>6. job.pc = "promoting" => p.passes
  OBVIOUS
<1> HIDE DEF job, pc
<1>7. job.candidate = c /\ job.proposal = p
  BY DEF job
<1>8. ReviewsAreBound'
  BY <1>1, <1>5, <1>6, <1>7 DEF IInv, ReviewsAreBound, BeginReview
<1>9. QED
  BY <1>4, <1>8, LocalStep DEF BeginReview

LEMMA ReturnBound ==
  ASSUME IInv, NEW v \in Reviewers, Return(v)
  PROVE  /\ reviewer' \in [Reviewers -> ReviewerStates]
         /\ reviewer'[v].pc = "idle"
         /\ \A u \in Reviewers \ {v} : reviewer'[u] = reviewer[u]
BY DEF IInv, TypeOK, Return, Idle, ReviewerStates

LEMMA LoseReviewStep ==
  ASSUME IInv, NEW v \in Reviewers, LoseReview(v)
  PROVE  IInv'
<1>1. ReviewsAreBound'
  BY ReturnBound DEF IInv, ReviewsAreBound, LoseReview
<1>2. QED
  BY <1>1, ReturnBound, LocalStep DEF LoseReview

(***************************************************************************)
(* A pending candidate is turned down.                                     *)
(***************************************************************************)
LEMMA TurnDownStep ==
  ASSUME IInv, NEW v \in Reviewers, TurnDown(v)
  PROVE  IInv'
<1> DEFINE me == reviewer[v]
           c  == me.candidate
           s  == Verdict(me.pc)
<1>1. c \in Candidates /\ candidate[c].state = "pending_review"
  BY DEF IInv, ReviewsAreBound, TurnDown, IsPending
<1>2. s \in {"rejected", "evaluation_failed"} /\ s \in CandidateStates
  BY DEF Verdict, CandidateStates
<1>3. candidate \in [Candidates -> Rows]
  BY DEF IInv, TypeOK
<1> HIDE DEF s, c
<1>4. candidate' = [candidate EXCEPT ![c] = [@ EXCEPT !.state = s]]
  BY DEF TurnDown, s, c
<1>5. /\ candidate' \in [Candidates -> Rows]
      /\ candidate'[c].state = s
      /\ candidate'[c].proposal = candidate[c].proposal
      /\ candidate'[c].supersedes = candidate[c].supersedes
      /\ \A d \in Candidates \ {c} : candidate'[d] = candidate[d]
  BY <1>1, <1>2, <1>3, <1>4, StateChange
<1>6. /\ promoted' = promoted
      /\ reviewer' \in [Reviewers -> ReviewerStates]
      /\ reviewer'[v].pc = "idle"
      /\ \A u \in Reviewers \ {v} : reviewer'[u] = reviewer[u]
  BY ReturnBound DEF TurnDown
<1>7. TypeOK'
  BY <1>5, <1>6 DEF IInv, TypeOK
<1>8. RowsAreComplete'
  BY <1>1, <1>2, <1>5 DEF IInv, RowsAreComplete
<1>9. ReviewsAreBound'
  BY <1>1, <1>2, <1>5, <1>6 DEF IInv, ReviewsAreBound
<1>10. VersionsAreReviewed'
  BY <1>1, <1>5, <1>6, KeptVersions DEF IInv
<1>11. PromotedOnce'
  BY <1>1, <1>2, <1>5, <1>6, SameVersions DEF IInv
<1>12. LineageIsLinear'
  BY <1>1, <1>2, <1>5 DEF IInv, LineageIsLinear
<1>13. QED
  BY <1>7, <1>8, <1>9, <1>10, <1>11, <1>12 DEF IInv

(***************************************************************************)
(* A pending candidate is replaced by a new one.                           *)
(***************************************************************************)
LEMMA ReviseStep ==
  ASSUME IInv, NEW v \in Reviewers, NEW d \in Candidates, Revise(v, d)
  PROVE  IInv'
<1> DEFINE c == reviewer[v].candidate
           p == reviewer[v].proposal
<1>1. /\ c \in Candidates /\ p \in Proposals
      /\ candidate[c].state = "pending_review"
      /\ candidate[d].state = "absent"
      /\ candidate[d].supersedes = None
      /\ c # d
  BY DEF IInv, ReviewsAreBound, RowsAreComplete, Revise, IsPending
<1>2. candidate \in [Candidates -> Rows]
  BY DEF IInv, TypeOK
<1>3. candidate' = [candidate EXCEPT ![c] = [@ EXCEPT !.state = "superseded"],
                                     ![d] = Pending(p, c)]
  BY DEF Revise
<1> HIDE DEF c, p
<1>4. "superseded" \in CandidateStates
  BY DEF CandidateStates
<1>5. /\ candidate'[c] = [candidate[c] EXCEPT !.state = "superseded"]
      /\ candidate'[d] = Pending(p, c)
      /\ \A e \in Candidates \ {c, d} : candidate'[e] = candidate[e]
      /\ candidate' \in [Candidates -> Rows]
  BY <1>1, <1>2, <1>3, <1>4, PendingTyped, StateChange
<1>6. /\ candidate'[c].state = "superseded"
      /\ candidate'[c].proposal = candidate[c].proposal
      /\ candidate'[c].supersedes = candidate[c].supersedes
      /\ candidate'[d].state = "pending_review"
      /\ candidate'[d].proposal = p
      /\ candidate'[d].supersedes = c
  BY <1>1, <1>2, <1>4, <1>5, PendingTyped, StateChange
<1>7. /\ promoted' = promoted
      /\ reviewer' \in [Reviewers -> ReviewerStates]
      /\ reviewer'[v].pc = "idle"
      /\ \A u \in Reviewers \ {v} : reviewer'[u] = reviewer[u]
  BY ReturnBound DEF Revise
<1>8. TypeOK'
  BY <1>5, <1>7 DEF IInv, TypeOK
<1>9. RowsAreComplete'
  <2> SUFFICES ASSUME NEW e \in Candidates
               PROVE  /\ candidate'[e].state # "absent" =>
                           candidate'[e].proposal \in Proposals
                      /\ candidate'[e].state = "absent" =>
                           candidate'[e].supersedes = None
                      /\ candidate'[e].supersedes # e
    BY DEF RowsAreComplete
  <2>1. CASE e = c
    BY <1>1, <1>6, <2>1 DEF IInv, RowsAreComplete
  <2>2. CASE e = d
    BY <1>1, <1>6, <2>2
  <2>3. CASE e \notin {c, d}
    BY <1>5, <2>3 DEF IInv, RowsAreComplete
  <2>4. QED
    BY <2>1, <2>2, <2>3
<1>10. ReviewsAreBound'
  <2>1. \A e \in Candidates : candidate[e].state # "absent" =>
          candidate'[e].state # "absent"
            /\ candidate'[e].proposal = candidate[e].proposal
    <3> SUFFICES ASSUME NEW e \in Candidates, candidate[e].state # "absent"
                 PROVE  candidate'[e].state # "absent"
                          /\ candidate'[e].proposal = candidate[e].proposal
      OBVIOUS
    <3>1. CASE e = c
      BY <1>6, <3>1
    <3>2. CASE e # c
      BY <1>1, <1>5, <3>2
    <3>3. QED
      BY <3>1, <3>2
  <2>2. QED
    BY <1>7, <2>1 DEF IInv, ReviewsAreBound
<1>11. VersionsAreReviewed'
  BY <1>1, <1>5, <1>7, KeptVersions DEF IInv
<1>12. PromotedOnce'
  <2>1. \A e \in Candidates : candidate'[e].state = "promoted" =>
                                 candidate[e].state = "promoted"
    BY <1>5, <1>6
  <2>2. QED
    BY <1>7, <2>1, SameVersions DEF IInv
<1>13. LineageIsLinear'
  <2>1. \A e \in Candidates : candidate[e].supersedes # c
    BY <1>1 DEF IInv, LineageIsLinear
  <2>2. \A e \in Candidates : candidate[e].supersedes # d
    BY <1>1 DEF IInv, LineageIsLinear
  <2>3. \A e \in Candidates \ {d} :
          candidate'[e].supersedes = candidate[e].supersedes
    BY <1>5, <1>6
  <2>4. \A e \in Candidates \ {c, d} : candidate'[e].state = candidate[e].state
    BY <1>5
  <2> SUFFICES ASSUME NEW a \in Candidates
               PROVE  /\ \A e \in Candidates : candidate'[e].supersedes = a =>
                            candidate'[a].state = "superseded"
                      /\ candidate'[a].state = "superseded" =>
                           \E e \in Candidates : candidate'[e].supersedes = a
                      /\ \A e, f \in Candidates :
                           candidate'[e].supersedes = a
                             /\ candidate'[f].supersedes = a => e = f
    BY DEF LineageIsLinear
  <2>5. CASE a = c
    BY <1>1, <1>6, <2>1, <2>3, <2>5
  <2>6. CASE a = d
    BY <1>1, <1>6, <2>2, <2>3, <2>6
  <2>7. CASE a \notin {c, d}
    <3>1. \A e \in Candidates : candidate'[e].supersedes = a =>
            e # d /\ candidate[e].supersedes = a
      BY <1>6, <2>3, <2>7
    <3>2. \A e \in Candidates : candidate[e].supersedes = a =>
            e # d /\ candidate'[e].supersedes = a
      BY <1>1, <2>3, <2>7, RegistryAssumption
    <3>3. candidate'[a].state = candidate[a].state
      BY <2>4, <2>7
    <3>4. QED
      BY <3>1, <3>2, <3>3 DEF IInv, LineageIsLinear
  <2>8. QED
    BY <2>5, <2>6, <2>7
<1>14. QED
  BY <1>8, <1>9, <1>10, <1>11, <1>12, <1>13 DEF IInv

(***************************************************************************)
(* A pending candidate becomes the next version of its runbook.            *)
(***************************************************************************)
LEMMA PromoteStep ==
  ASSUME IInv, NEW v \in Reviewers, Promote(v)
  PROVE  IInv'
<1> DEFINE c == reviewer[v].candidate
           p == reviewer[v].proposal
           b == p.runbook
           e == [source |-> c, proposal |-> p]
           m == Len(promoted[b]) + 1
<1>1. /\ c \in Candidates /\ p \in Proposals /\ p.passes
      /\ candidate[c].state = "pending_review"
      /\ candidate[c].proposal = p
  BY DEF IInv, ReviewsAreBound, Promote, IsPending
<1>2. candidate \in [Candidates -> Rows] /\ promoted \in [Runbooks -> Seq(Versions)]
  BY DEF IInv, TypeOK
<1>3. b \in Runbooks /\ e \in Versions /\ e.source = c /\ e.proposal = p
  BY <1>1 DEF Proposals, Versions
<1>4. /\ candidate' = [candidate EXCEPT ![c] = [@ EXCEPT !.state = "promoted"]]
      /\ promoted' = [promoted EXCEPT ![b] = Append(@, e)]
  BY DEF Promote
<1>5. p.runbook = b
  OBVIOUS
<1> HIDE DEF c, p, b, e
<1>6. "promoted" \in CandidateStates
  BY DEF CandidateStates
<1>7. /\ candidate' \in [Candidates -> Rows]
      /\ candidate'[c].state = "promoted"
      /\ candidate'[c].proposal = p
      /\ candidate'[c].supersedes = candidate[c].supersedes
      /\ \A d \in Candidates \ {c} : candidate'[d] = candidate[d]
  BY <1>1, <1>2, <1>4, <1>6, StateChange
<1>8. /\ promoted' \in [Runbooks -> Seq(Versions)]
      /\ DOMAIN promoted'[b] = DOMAIN promoted[b] \cup {m}
      /\ promoted'[b][m] = e
      /\ \A n \in DOMAIN promoted[b] : promoted'[b][n] = promoted[b][n] /\ n # m
      /\ \A a \in Runbooks \ {b} : promoted'[a] = promoted[a]
  BY <1>2, <1>3, <1>4, NewVersion
<1> HIDE DEF m
<1>9. /\ reviewer' \in [Reviewers -> ReviewerStates]
      /\ reviewer'[v].pc = "idle"
      /\ \A u \in Reviewers \ {v} : reviewer'[u] = reviewer[u]
  BY ReturnBound DEF Promote
<1>10. TypeOK'
  BY <1>7, <1>8, <1>9 DEF TypeOK
<1>11. RowsAreComplete'
  BY <1>1, <1>7 DEF IInv, RowsAreComplete
<1>12. ReviewsAreBound'
  BY <1>1, <1>7, <1>9 DEF IInv, ReviewsAreBound
<1>13. \A a \in Runbooks : \A n \in DOMAIN promoted[a] :
         /\ promoted[a][n].source \in Candidates \ {c}
         /\ n \in DOMAIN promoted'[a] /\ promoted'[a][n] = promoted[a][n]
  <2> SUFFICES ASSUME NEW a \in Runbooks, NEW n \in DOMAIN promoted[a]
               PROVE  /\ promoted[a][n].source \in Candidates \ {c}
                      /\ n \in DOMAIN promoted'[a]
                      /\ promoted'[a][n] = promoted[a][n]
    OBVIOUS
  <2>1. promoted[a][n] \in Versions
    BY <1>2
  <2>2. promoted[a][n].source \in Candidates
    BY <2>1 DEF Versions
  <2>3. promoted[a][n].source # c
    BY <1>1 DEF IInv, VersionsAreReviewed
  <2>4. QED
    BY <1>8, <2>2, <2>3
<1>14. \A a \in Runbooks : \A n \in DOMAIN promoted'[a] :
         n \in DOMAIN promoted[a] \/ (a = b /\ n = m)
  BY <1>8
<1>15. VersionsAreReviewed'
  <2> SUFFICES ASSUME NEW a \in Runbooks, NEW n \in DOMAIN promoted'[a]
               PROVE  /\ candidate'[promoted'[a][n].source].state = "promoted"
                      /\ candidate'[promoted'[a][n].source].proposal
                           = promoted'[a][n].proposal
                      /\ promoted'[a][n].proposal.runbook = a
                      /\ promoted'[a][n].proposal.passes
    BY DEF VersionsAreReviewed
  <2>1. CASE n \in DOMAIN promoted[a]
    BY <1>7, <1>13, <2>1 DEF IInv, VersionsAreReviewed
  <2>2. CASE a = b /\ n = m
    BY <1>1, <1>3, <1>5, <1>7, <1>8, <2>2
  <2>3. QED
    BY <1>14, <2>1, <2>2
<1>16. PromotedOnce'
  <2> SUFFICES ASSUME NEW d \in Candidates, candidate'[d].state = "promoted"
               PROVE  /\ \E a \in Runbooks : \E n \in DOMAIN promoted'[a] :
                           promoted'[a][n].source = d
                      /\ \A b1, b2 \in Runbooks :
                           \A n1 \in DOMAIN promoted'[b1],
                              n2 \in DOMAIN promoted'[b2] :
                             promoted'[b1][n1].source = d
                               /\ promoted'[b2][n2].source = d
                               => b1 = b2 /\ n1 = n2
    BY DEF PromotedOnce, IsSource
  <2>1. CASE d = c
    <3>1. m \in DOMAIN promoted'[b] /\ promoted'[b][m].source = c
      BY <1>3, <1>8
    <3>2. \A a \in Runbooks : \A n \in DOMAIN promoted'[a] :
            promoted'[a][n].source = c => a = b /\ n = m
      BY <1>13, <1>14
    <3>3. QED
      BY <1>3, <2>1, <3>1, <3>2
  <2>2. CASE d # c
    <3>1. candidate[d].state = "promoted"
      BY <1>7, <2>2
    <3>2. \A a \in Runbooks : \A n \in DOMAIN promoted'[a] :
            promoted'[a][n].source = d =>
              n \in DOMAIN promoted[a] /\ promoted[a][n].source = d
      BY <1>3, <1>8, <1>13, <1>14, <2>2
    <3>3. \E a \in Runbooks : \E n \in DOMAIN promoted[a] :
            promoted[a][n].source = d
      BY <3>1 DEF IInv, PromotedOnce, IsSource
    <3>4. \A b1, b2 \in Runbooks :
            \A n1 \in DOMAIN promoted[b1], n2 \in DOMAIN promoted[b2] :
              promoted[b1][n1].source = d /\ promoted[b2][n2].source = d
                => b1 = b2 /\ n1 = n2
      BY <3>1 DEF IInv, PromotedOnce, IsSource
    <3>5. QED
      BY <1>13, <3>2, <3>3, <3>4
  <2>3. QED
    BY <2>1, <2>2
<1>17. LineageIsLinear'
  <2>1. \A d \in Candidates :
          /\ candidate'[d].supersedes = candidate[d].supersedes
          /\ candidate'[d].state = "superseded" <=>
               candidate[d].state = "superseded"
    BY <1>1, <1>7
  <2>2. QED
    BY <2>1, SameLineage DEF IInv
<1>18. QED
  BY <1>10, <1>11, <1>12, <1>15, <1>16, <1>17 DEF IInv

LEMMA NextIInv == IInv /\ [Next]_vars => IInv'
<1> SUFFICES ASSUME IInv, [Next]_vars PROVE IInv'
  OBVIOUS
<1>1. CASE UNCHANGED vars
  <2>1. ReviewsAreBound' /\ reviewer' \in [Reviewers -> ReviewerStates]
    BY <1>1 DEF vars, IInv, ReviewsAreBound, TypeOK
  <2>2. QED
    BY <1>1, <2>1, LocalStep DEF vars
<1>2. CASE Next
  BY <1>2, SubmitStep, BeginRevisionStep, BeginReviewStep, ReviseStep,
     TurnDownStep, PromoteStep, LoseReviewStep
  DEF Next
<1>3. QED
  BY <1>1, <1>2

(***************************************************************************)
(* The inductive invariant holds in every reachable state.                 *)
(***************************************************************************)
THEOREM InductiveInvariant == Spec => []IInv
BY InitIInv, NextIInv, PTL DEF Spec

(***************************************************************************)
(* Every version comes from a reviewed candidate that passed the gate.     *)
(***************************************************************************)
THEOREM ReviewedVersions == Spec => []VersionsAreReviewed
<1>1. IInv => VersionsAreReviewed
  BY DEF IInv
<1>2. QED
  BY <1>1, InductiveInvariant, PTL

(***************************************************************************)
(* A promoted candidate is the source of exactly one version.              *)
(***************************************************************************)
THEOREM OneVersionEach == Spec => []PromotedOnce
<1>1. IInv => PromotedOnce
  BY DEF IInv
<1>2. QED
  BY <1>1, InductiveInvariant, PTL

(***************************************************************************)
(* The revisions of a submission form one line.                            *)
(***************************************************************************)
THEOREM LinearLineage == Spec => []LineageIsLinear
<1>1. IInv => LineageIsLinear
  BY DEF IInv
<1>2. QED
  BY <1>1, InductiveInvariant, PTL

(***************************************************************************)
(* What a step may not touch: decided candidates, the proposals of all     *)
(* candidates, and versions.                                               *)
(***************************************************************************)
Kept ==
  /\ \A c \in Candidates : candidate[c].state \in Decided =>
       candidate'[c] = candidate[c]
  /\ \A c \in Candidates : candidate[c].state # "absent" =>
       candidate'[c].proposal = candidate[c].proposal
  /\ \A b \in Runbooks : \A n \in DOMAIN promoted[b] :
       n \in DOMAIN promoted'[b] /\ promoted'[b][n] = promoted[b][n]

(***************************************************************************)
(* Every write of a candidate is conditional on its being pending, or      *)
(* fills a row that was absent.                                            *)
(***************************************************************************)
LEMMA WritesAreConditional ==
  ASSUME IInv, Next
  PROVE  \A c \in Candidates :
           /\ candidate[c].state \notin {"absent", "pending_review"} =>
                candidate'[c] = candidate[c]
           /\ candidate[c].state # "absent" =>
                candidate'[c].proposal = candidate[c].proposal
<1>1. ASSUME NEW c \in Candidates, NEW p \in Proposals, submit(c, p)
      PROVE  \A d \in Candidates : candidate[d].state # "absent" =>
               candidate'[d] = candidate[d]
  BY <1>1 DEF submit, IInv, TypeOK
<1>2. ASSUME NEW v \in Reviewers, NEW d \in Candidates, Revise(v, d)
      PROVE  \A c \in Candidates :
               /\ candidate[c].state \notin {"absent", "pending_review"} =>
                    candidate'[c] = candidate[c]
               /\ candidate[c].state # "absent" =>
                    candidate'[c].proposal = candidate[c].proposal
  <2> DEFINE c == reviewer[v].candidate
  <2>1. c \in Candidates /\ candidate[c].state = "pending_review"
    BY <1>2 DEF IInv, ReviewsAreBound, Revise, IsPending
  <2>2. candidate \in [Candidates -> Rows] /\ candidate[d].state = "absent"
    BY <1>2 DEF IInv, TypeOK, Revise
  <2>3. \E row : candidate' = [candidate EXCEPT
                                 ![c] = [@ EXCEPT !.state = "superseded"],
                                 ![d] = row]
    BY <1>2 DEF Revise
  <2> HIDE DEF c
  <2>4. candidate'[c].proposal = candidate[c].proposal
    <3>1. candidate'[c] = [candidate[c] EXCEPT !.state = "superseded"]
      BY <2>1, <2>2, <2>3
    <3>2. "superseded" \in CandidateStates
      BY DEF CandidateStates
    <3>3. QED
      BY <2>1, <2>2, <3>1, <3>2, StateChange
  <2>5. \A a \in Candidates \ {c, d} : candidate'[a] = candidate[a]
    BY <2>1, <2>2, <2>3
  <2>6. QED
    BY <2>1, <2>2, <2>4, <2>5
<1>3. ASSUME NEW v \in Reviewers, TurnDown(v) \/ Promote(v)
      PROVE  \A c \in Candidates :
               /\ candidate[c].state # "pending_review" =>
                    candidate'[c] = candidate[c]
               /\ candidate'[c].proposal = candidate[c].proposal
  <2> DEFINE a == reviewer[v].candidate
             s == IF TurnDown(v) THEN Verdict(reviewer[v].pc) ELSE "promoted"
  <2>1. a \in Candidates /\ candidate[a].state = "pending_review"
    BY <1>3 DEF IInv, ReviewsAreBound, TurnDown, Promote, IsPending
  <2>2. candidate \in [Candidates -> Rows] /\ s \in CandidateStates
    BY DEF IInv, TypeOK, CandidateStates, Verdict
  <2>3. candidate' = [candidate EXCEPT ![a] = [@ EXCEPT !.state = s]]
    BY <1>3 DEF TurnDown, Promote
  <2> HIDE DEF a, s
  <2>4. candidate'[a].proposal = candidate[a].proposal
    BY <2>1, <2>2, <2>3, StateChange
  <2>5. \A c \in Candidates \ {a} : candidate'[c] = candidate[c]
    BY <2>1, <2>2, <2>3
  <2>6. QED
    BY <2>1, <2>4, <2>5
<1>4. ASSUME NEW v \in Reviewers, NEW c \in Candidates,
             \/ \E p \in Proposals : BeginRevision(v, c, p)
             \/ \E decision \in {"approve", "reject"} : BeginReview(v, c, decision)
             \/ LoseReview(v)
      PROVE  candidate' = candidate
  BY <1>4 DEF BeginRevision, BeginReview, LoseReview
<1>5. QED
  BY <1>1, <1>2, <1>3, <1>4 DEF Next

LEMMA VersionsAreKept ==
  ASSUME IInv, Next
  PROVE  \A b \in Runbooks : \A n \in DOMAIN promoted[b] :
           n \in DOMAIN promoted'[b] /\ promoted'[b][n] = promoted[b][n]
<1>1. CASE promoted' = promoted
  BY <1>1
<1>2. ASSUME NEW v \in Reviewers, Promote(v)
      PROVE  \A b \in Runbooks : \A n \in DOMAIN promoted[b] :
               n \in DOMAIN promoted'[b] /\ promoted'[b][n] = promoted[b][n]
  <2> DEFINE c == reviewer[v].candidate
             p == reviewer[v].proposal
             e == [source |-> c, proposal |-> p]
  <2>1. c \in Candidates /\ p \in Proposals
    BY <1>2 DEF IInv, ReviewsAreBound, Promote
  <2>2. e \in Versions
    BY <2>1 DEF Versions
  <2>3. promoted \in [Runbooks -> Seq(Versions)]
    BY DEF IInv, TypeOK
  <2>4. promoted' = [promoted EXCEPT ![p.runbook] = Append(@, e)]
    BY <1>2 DEF Promote
  <2> HIDE DEF e, p
  <2>5. QED
    BY <2>2, <2>3, <2>4, NewVersion
<1>3. QED
  BY <1>1, <1>2 DEF Next, submit, BeginRevision, BeginReview, Revise, TurnDown,
     LoseReview

(***************************************************************************)
(* Decisions are final and versions immutable.                             *)
(***************************************************************************)
THEOREM FinalDecisions == Spec => DecisionsAreFinal
<1>1. IInv /\ [Next]_vars => [Kept]_vars
  <2> SUFFICES ASSUME IInv, Next PROVE Kept
    OBVIOUS
  <2>1. QED
    BY WritesAreConditional, VersionsAreKept DEF Kept, Decided
<1>2. DecisionsAreFinal <=> [][Kept]_vars
  BY PTL DEF DecisionsAreFinal, Kept
<1>3. QED
  BY <1>1, <1>2, InductiveInvariant, PTL DEF Spec

-------------------------------------------------------------------------------
(* RESEARCH AND THE GATE                                                   *)

Reference == Gate!reviewer_corrected_capability_proposal

LEMMA ReferenceIsWellFormed == Gate!IsWellFormed(Reference)
<1>1. Gate!AtLeastTwo(Gate!Mechanism)
  <2>1. {"memory_pressure", "oom_kill"} \subseteq Gate!Mechanism /\ "memory_pressure" # "oom_kill"
    BY DEF Gate!Mechanism
  <2>2. QED
    BY <2>1 DEF Gate!AtLeastTwo
<1>2. Gate!AtLeastTwo({"resources", "changes", "logs"})
  <2>1. {"resources", "logs"} \subseteq {"resources", "changes", "logs"} /\ "resources" # "logs"
    OBVIOUS
  <2>2. QED
    BY <2>1 DEF Gate!AtLeastTwo
<1>3. Gate!AtLeastTwo({"resources-1", "changes-1", "logs-1"})
  <2>1. {"resources-1", "logs-1"} \subseteq {"resources-1", "changes-1", "logs-1"} /\ "resources-1" # "logs-1"
    OBVIOUS
  <2>2. QED
    BY <2>1 DEF Gate!AtLeastTwo
<1>4. QED
  BY <1>1, <1>2, <1>3 DEF Gate!IsWellFormed, Reference, Gate!reviewer_corrected_capability_proposal

(***************************************************************************)
(* What either gate asks, case by case.                                    *)
(***************************************************************************)
AllowedCategories == IF kind = "runbook" THEN Gate!Categories ELSE {"resources", "changes", "logs"}

NotFound(p) ==
  /\ ~Gate!Matches(p, {"memory_pressure", "oom_kill"},
                   IF kind = "runbook" THEN {"health", "resources", "logs"} ELSE {"resources", "logs"})
  /\ ~Gate!Matches(p, {"worker_concurrency_increased", "latency_high"}, {"health", "changes"})
  /\ ~Gate!Matches(p, {"http_503", "low_free_space", "rotation_error", "no_space_left"},
                   {"health", "resources", "logs"})

LEMMA WhatPasses ==
  ASSUME NEW p
  PROVE  Gate!Passes(p) <=>
           /\ p.signals \subseteq Gate!Mechanism /\ p.categories \subseteq AllowedCategories
           /\ NotFound(p)
           /\ IF kind = "runbook" THEN p.policy # "unsound" ELSE p.policy = "sound"
<1> DEFINE M(S, C) == Gate!Matches(p, S, C)
           both    == Gate!Mechanism \cup {"http_503", "filesystem_normal"}
           memory  == {"memory_pressure", "oom_kill"}
           scaling == {"worker_concurrency_increased", "latency_high"}
           disk    == {"http_503", "low_free_space", "rotation_error", "no_space_left"}
<1> DEFINE Agrees(c) == M(c.signals, c.categories) = c.expected
<1>1. ASSUME NEW S, NEW C, NEW e
      PROVE  Agrees(Gate!Case(S, C, e)) <=> (M(S, C) = e)
  BY DEF Gate!Case
<1> HIDE DEF both, memory, scaling, disk
<1>2. (\A c \in Gate!RunbookCases : Agrees(c)) <=>
        /\ M(Gate!Mechanism, Gate!Categories) = TRUE
        /\ M(both, Gate!Categories) = TRUE
        /\ M(memory, {"health", "resources", "logs"}) = FALSE
        /\ M(scaling, {"health", "changes"}) = FALSE
        /\ M(disk, {"health", "resources", "logs"}) = FALSE
  <2>1. Gate!RunbookCases =
          {Gate!Case(Gate!Mechanism, Gate!Categories, TRUE),
           Gate!Case(both, Gate!Categories, TRUE),
           Gate!Case(memory, {"health", "resources", "logs"}, FALSE),
           Gate!Case(scaling, {"health", "changes"}, FALSE),
           Gate!Case(disk, {"health", "resources", "logs"}, FALSE)}
    BY DEF Gate!RunbookCases, both, memory, scaling, disk
  <2> HIDE DEF M, Agrees
  <2>2. (\A c \in Gate!RunbookCases : Agrees(c)) <=>
             /\ Agrees(Gate!Case(Gate!Mechanism, Gate!Categories, TRUE))
             /\ Agrees(Gate!Case(both, Gate!Categories, TRUE))
             /\ Agrees(Gate!Case(memory, {"health", "resources", "logs"}, FALSE))
             /\ Agrees(Gate!Case(scaling, {"health", "changes"}, FALSE))
             /\ Agrees(Gate!Case(disk, {"health", "resources", "logs"}, FALSE))
    BY <2>1
  <2>3. /\ Agrees(Gate!Case(Gate!Mechanism, Gate!Categories, TRUE)) <=> (M(Gate!Mechanism, Gate!Categories) = TRUE)
        /\ Agrees(Gate!Case(both, Gate!Categories, TRUE)) <=> (M(both, Gate!Categories) = TRUE)
        /\ Agrees(Gate!Case(memory, {"health", "resources", "logs"}, FALSE)) <=> (M(memory, {"health", "resources", "logs"}) = FALSE)
        /\ Agrees(Gate!Case(scaling, {"health", "changes"}, FALSE)) <=> (M(scaling, {"health", "changes"}) = FALSE)
        /\ Agrees(Gate!Case(disk, {"health", "resources", "logs"}, FALSE)) <=> (M(disk, {"health", "resources", "logs"}) = FALSE)
    BY <1>1
  <2>4. QED
    BY <2>2, <2>3
<1>3. (\A c \in Gate!CapabilityCases : Agrees(c)) <=>
        /\ M(Gate!Mechanism, {"resources", "changes", "logs"}) = TRUE
        /\ M(both, Gate!Categories) = TRUE
        /\ M(memory, {"resources", "logs"}) = FALSE
        /\ M(scaling, {"health", "changes"}) = FALSE
        /\ M(disk, {"health", "resources", "logs"}) = FALSE
  <2>1. Gate!CapabilityCases =
          {Gate!Case(Gate!Mechanism, {"resources", "changes", "logs"}, TRUE),
           Gate!Case(both, Gate!Categories, TRUE),
           Gate!Case(memory, {"resources", "logs"}, FALSE),
           Gate!Case(scaling, {"health", "changes"}, FALSE),
           Gate!Case(disk, {"health", "resources", "logs"}, FALSE)}
    BY DEF Gate!CapabilityCases, both, memory, scaling, disk
  <2> HIDE DEF M, Agrees
  <2>2. (\A c \in Gate!CapabilityCases : Agrees(c)) <=>
             /\ Agrees(Gate!Case(Gate!Mechanism, {"resources", "changes", "logs"}, TRUE))
             /\ Agrees(Gate!Case(both, Gate!Categories, TRUE))
             /\ Agrees(Gate!Case(memory, {"resources", "logs"}, FALSE))
             /\ Agrees(Gate!Case(scaling, {"health", "changes"}, FALSE))
             /\ Agrees(Gate!Case(disk, {"health", "resources", "logs"}, FALSE))
    BY <2>1
  <2>3. /\ Agrees(Gate!Case(Gate!Mechanism, {"resources", "changes", "logs"}, TRUE)) <=> (M(Gate!Mechanism, {"resources", "changes", "logs"}) = TRUE)
        /\ Agrees(Gate!Case(both, Gate!Categories, TRUE)) <=> (M(both, Gate!Categories) = TRUE)
        /\ Agrees(Gate!Case(memory, {"resources", "logs"}, FALSE)) <=> (M(memory, {"resources", "logs"}) = FALSE)
        /\ Agrees(Gate!Case(scaling, {"health", "changes"}, FALSE)) <=> (M(scaling, {"health", "changes"}) = FALSE)
        /\ Agrees(Gate!Case(disk, {"health", "resources", "logs"}, FALSE)) <=> (M(disk, {"health", "resources", "logs"}) = FALSE)
    BY <1>1
  <2>4. QED
    BY <2>2, <2>3
<1>4. \A C : M(Gate!Mechanism, C) => M(both, C \cup Gate!Categories)
  BY DEF Gate!Matches, both
<1>5. {"resources", "changes", "logs"} \cup Gate!Categories = Gate!Categories
  BY DEF Gate!Categories
<1>6. \A C : M(Gate!Mechanism, C) <=> p.signals \subseteq Gate!Mechanism /\ p.categories \subseteq C
  BY DEF Gate!Matches
<1>7. \A S, C : M(S, C) \in BOOLEAN
  BY DEF Gate!Matches
<1>8. CASE kind = "runbook"
  <2>1. NotFound(p) <=> /\ ~M(memory, {"health", "resources", "logs"})
                        /\ ~M(scaling, {"health", "changes"})
                        /\ ~M(disk, {"health", "resources", "logs"})
    BY <1>8 DEF NotFound, memory, scaling, disk
  <2>2. Gate!Passes(p) <=> /\ \A c \in Gate!RunbookCases : Agrees(c)
                          /\ p.policy # "unsound"
    BY <1>8 DEF Gate!Passes, Gate!evaluate_runbook
  <2>3. AllowedCategories = Gate!Categories
    BY <1>8 DEF AllowedCategories
  <2> HIDE DEF M, Agrees
  <2>4. QED
    BY <1>2, <1>4, <1>6, <1>7, <1>8, <2>1, <2>2, <2>3
<1>9. CASE kind # "runbook"
  <2>1. NotFound(p) <=> /\ ~M(memory, {"resources", "logs"})
                        /\ ~M(scaling, {"health", "changes"})
                        /\ ~M(disk, {"health", "resources", "logs"})
    BY <1>9 DEF NotFound, memory, scaling, disk
  <2>2. Gate!Passes(p) <=> /\ \A c \in Gate!CapabilityCases : Agrees(c)
                          /\ p.policy = "sound"
    BY <1>9 DEF Gate!Passes, Gate!evaluate_capability
  <2>3. AllowedCategories = {"resources", "changes", "logs"}
    BY <1>9 DEF AllowedCategories
  <2> HIDE DEF M, Agrees
  <2>4. QED
    BY <1>3, <1>4, <1>5, <1>6, <1>7, <1>9, <2>1, <2>2, <2>3
<1>10. QED
  BY <1>8, <1>9

(***************************************************************************)
(* The invariant: what is under review is typed, well formed and observed, *)
(* or the reference; a revision is that of what was submitted.             *)
(***************************************************************************)
ProposalType == [signals : SUBSET Signals, categories : SUBSET Gate!Categories,
                 refs : SUBSET Gate!Ids, policy : Policies \cup {"sound"}]

UnderReview == {"submitted", "revised", "promoted", "evaluation_failed"}

IsReviewed ==
  stage \in UnderReview =>
    /\ proposal \in ProposalType /\ original \in ProposalType
    /\ Gate!IsWellFormed(proposal)
    /\ origin = "reference" => kind = "capability"
    /\ origin # "reference" => Gate!IsObserved(proposal)

IsRevision ==
  /\ stage = "submitted" => /\ proposal = original
                            /\ origin = "reference" => proposal = Reference
  /\ stage = "revised" => proposal = Gate!simulated_reviewer_revision(original)
  /\ stage = "raised" /\ kind = "capability" =>
       /\ original \in ProposalType /\ Gate!IsWellFormed(original)
       /\ ~Gate!IsWellFormed(Gate!simulated_reviewer_revision(original))
  /\ stage = "promoted" => Gate!Passes(proposal)

GateInv == kind \in Gate!Kinds /\ IsReviewed /\ IsRevision

LEMMA GateInit == Gate!Init => GateInv
  BY DEF Gate!Init, GateInv, IsReviewed, IsRevision, UnderReview

(* What is submitted satisfies the invariant.                              *)
LEMMA Submitted ==
  ASSUME NEW p \in ProposalType, NEW from, kind \in Gate!Kinds, Gate!Submit(p, from),
         Gate!IsWellFormed(p),
         from = "reference" => kind = "capability" /\ p = Reference,
         from # "reference" => Gate!IsObserved(p)
  PROVE  GateInv'
<1>1. /\ proposal' = p /\ original' = p /\ origin' = from /\ stage' = "submitted"
      /\ kind' = kind /\ observed' = observed
  BY DEF Gate!Submit
<1>2. Gate!IsWellFormed(proposal)' /\ (ProposalType = ProposalType')
  BY <1>1 DEF Gate!IsWellFormed, Gate!AtLeastTwo, ProposalType
<1>3. from # "reference" => Gate!IsObserved(proposal)'
  BY <1>1 DEF Gate!IsObserved, Gate!ObservedCategories, Gate!ObservedSignals
<1>4. Reference' = Reference
  BY DEF Reference
<1>5. QED
  BY <1>1, <1>2, <1>3, <1>4 DEF GateInv, IsReviewed, IsRevision

LEMMA ReferenceTyped == Reference \in ProposalType
<1>1. Gate!Mechanism \subseteq Signals
  BY ResearchAssumption DEF Gate!GateAssumption
<1>2. {"resources", "changes", "logs"} \subseteq Gate!Categories
  BY DEF Gate!Categories
<1>3. {"resources-1", "changes-1", "logs-1"} \subseteq Gate!Ids
  BY DEF Gate!Ids
<1>4. QED
  BY <1>1, <1>2, <1>3 DEF Reference, Gate!reviewer_corrected_capability_proposal, ProposalType

(* A salvaged proposal claims nothing that was not observed.               *)
LEMMA Salvaged ==
  ASSUME NEW p \in ProposalType
  PROVE  /\ Gate!contract_violation_revision(p) \in ProposalType
         /\ Gate!IsObserved(Gate!contract_violation_revision(p))
<1> DEFINE q == Gate!contract_violation_revision(p)
<1>1. /\ q.signals = p.signals \cap Gate!ObservedSignals
      /\ q.categories = p.categories \cap Gate!ObservedCategories
      /\ q.refs = p.refs \cap observed
      /\ q \in ProposalType
  BY DEF Gate!contract_violation_revision, ProposalType
<1>2. QED
  BY <1>1 DEF Gate!IsObserved

LEMMA ResearchStep ==
  ASSUME GateInv, Gate!research_runbook \/ Gate!research_capability \/ Gate!research_invalid
  PROVE  GateInv'
<1>0. \A p \in Gate!Proposals : p \in ProposalType /\ Gate!IsWellFormed(p)
  BY DEF Gate!Proposals, ProposalType
<1>1. CASE Gate!research_runbook
  BY <1>0, <1>1, Submitted DEF Gate!research_runbook, GateInv
<1>2. CASE Gate!research_capability
  <2>1. PICK p \in Gate!Proposals :
          IF Gate!IsObserved(p) THEN Gate!Submit(p, "model")
          ELSE IF Gate!IsWellFormed(Gate!contract_violation_revision(p))
               THEN Gate!Submit(Gate!contract_violation_revision(p), "salvaged")
          ELSE Gate!Submit(Reference, "reference")
    BY <1>2 DEF Gate!research_capability, Reference
  <2>2. kind = "capability" /\ kind \in Gate!Kinds
    BY <1>2 DEF Gate!research_capability, GateInv
  <2>3. CASE Gate!IsObserved(p)
    BY <1>0, <2>1, <2>2, <2>3, Submitted
  <2>4. CASE ~Gate!IsObserved(p) /\ Gate!IsWellFormed(Gate!contract_violation_revision(p))
    <3>1. p \in ProposalType /\ Gate!Submit(Gate!contract_violation_revision(p), "salvaged")
      BY <1>0, <2>1, <2>4
    <3>2. QED
      BY <2>2, <2>4, <3>1, Salvaged, Submitted
  <2>5. CASE ~Gate!IsObserved(p) /\ ~Gate!IsWellFormed(Gate!contract_violation_revision(p))
    BY <2>1, <2>2, <2>5, ReferenceTyped, ReferenceIsWellFormed, Submitted
  <2>6. QED
    BY <2>3, <2>4, <2>5
<1>3. CASE Gate!research_invalid
  <2>1. CASE kind = "capability"
    <3>1. Gate!Submit(Reference, "reference") /\ kind \in Gate!Kinds
      BY <1>3, <2>1 DEF Gate!research_invalid, Reference, GateInv
    <3>2. QED
      BY <2>1, <3>1, ReferenceTyped, ReferenceIsWellFormed, Submitted
  <2>2. CASE kind # "capability"
    BY <1>3, <2>2 DEF Gate!research_invalid, GateInv, IsReviewed, IsRevision, UnderReview
  <2>3. QED
    BY <2>1, <2>2
<1>4. QED
  BY <1>1, <1>2, <1>3

(* The revision only leaves out.                                           *)
LEMMA Revised ==
  ASSUME NEW p \in ProposalType
  PROVE  LET q == Gate!simulated_reviewer_revision(p)
         IN  /\ q \in ProposalType
             /\ q.signals = p.signals \ Gate!NonCausal
             /\ q.categories = p.categories \ {"health"}
             /\ q.refs = p.refs
             /\ q.policy = IF p.policy = "wide" THEN "sound" ELSE p.policy
  BY DEF Gate!simulated_reviewer_revision, ProposalType

LEMMA RevisedStep ==
  ASSUME GateInv, Gate!Revise
  PROVE  GateInv'
<1> DEFINE q == Gate!simulated_reviewer_revision(proposal)
<1>1. /\ stage = "submitted" /\ proposal \in ProposalType /\ proposal = original
      /\ UNCHANGED <<kind, observed, original, origin>>
      /\ Gate!IsWellFormed(proposal) /\ kind \in Gate!Kinds
      /\ origin = "reference" => kind = "capability"
      /\ origin # "reference" => Gate!IsObserved(proposal)
  BY DEF GateInv, IsReviewed, IsRevision, UnderReview, Gate!Revise
<1>2. ProposalType' = ProposalType
  BY DEF ProposalType
<1>3. CASE Gate!IsWellFormed(q)
  <2>1. proposal' = q /\ stage' = "revised"
    BY <1>3 DEF Gate!Revise
  <2>2. Gate!IsObserved(proposal) => Gate!IsObserved(q)
    BY <1>1, Revised DEF Gate!IsObserved
  <2>3. Gate!IsObserved(q) => Gate!IsObserved(proposal)'
    BY <1>1, <2>1 DEF Gate!IsObserved, Gate!ObservedCategories, Gate!ObservedSignals
  <2>4. Gate!IsWellFormed(proposal)'
    BY <1>3, <2>1 DEF Gate!IsWellFormed, Gate!AtLeastTwo
  <2>5. proposal' \in ProposalType
    BY <1>1, <2>1, Revised
  <2>6. Gate!simulated_reviewer_revision(original)' = proposal'
    BY <1>1, <2>1
  <2>7. QED
    BY <1>1, <1>2, <2>1, <2>2, <2>3, <2>4, <2>5, <2>6 DEF GateInv, IsReviewed, IsRevision
<1>4. CASE ~Gate!IsWellFormed(q)
  <2>1. proposal' = proposal /\ stage' = "raised"
    BY <1>4 DEF Gate!Revise
  <2>2. /\ Gate!IsWellFormed(original)' /\ original' \in ProposalType'
        /\ ~Gate!IsWellFormed(Gate!simulated_reviewer_revision(original))'
    BY <1>1, <1>2, <1>4 DEF Gate!IsWellFormed, Gate!AtLeastTwo
  <2>3. QED
    BY <1>1, <2>1, <2>2 DEF GateInv, IsReviewed, IsRevision, UnderReview
<1>5. QED
  BY <1>3, <1>4

LEMMA ApproveStep ==
  ASSUME GateInv, Gate!approve
  PROVE  GateInv'
<1>1. /\ UNCHANGED <<kind, observed, proposal, original, origin>>
      /\ stage \in UnderReview /\ stage' \in {"promoted", "evaluation_failed"}
      /\ stage' = "promoted" => Gate!Passes(proposal)
  BY DEF Gate!approve, UnderReview
<1>2. /\ Gate!Passes(proposal)' <=> Gate!Passes(proposal)
      /\ Gate!IsWellFormed(proposal)' <=> Gate!IsWellFormed(proposal)
      /\ Gate!IsObserved(proposal)' <=> Gate!IsObserved(proposal)
      /\ ProposalType' = ProposalType
  <2>1. Gate!Passes(proposal)' <=> Gate!Passes(proposal)
    BY <1>1 DEF Gate!Passes, Gate!evaluate_runbook, Gate!evaluate_capability, Gate!Matches,
                Gate!RunbookCases, Gate!CapabilityCases
  <2>2. QED
    BY <1>1, <2>1 DEF Gate!IsWellFormed, Gate!AtLeastTwo, Gate!IsObserved,
                      Gate!ObservedCategories, Gate!ObservedSignals, ProposalType
<1>3. QED
  BY <1>1, <1>2 DEF GateInv, IsReviewed, IsRevision, UnderReview

LEMMA ObserveStep ==
  ASSUME GateInv, NEW e \in Gate!Ids, Gate!observe(e)
  PROVE  GateInv'
  BY DEF GateInv, IsReviewed, IsRevision, UnderReview, Gate!observe

LEMMA GateStutter ==
  ASSUME GateInv, UNCHANGED gateVars
  PROVE  GateInv'
<1>1. /\ Gate!Passes(proposal)' <=> Gate!Passes(proposal)
      /\ Gate!IsWellFormed(proposal)' <=> Gate!IsWellFormed(proposal)
      /\ Gate!IsWellFormed(original)' <=> Gate!IsWellFormed(original)
      /\ Gate!IsObserved(proposal)' <=> Gate!IsObserved(proposal)
      /\ ProposalType' = ProposalType
  <2>1. Gate!Passes(proposal)' <=> Gate!Passes(proposal)
    BY DEF Gate!Passes, Gate!evaluate_runbook, Gate!evaluate_capability, Gate!Matches,
           Gate!RunbookCases, Gate!CapabilityCases, gateVars
  <2>2. QED
    BY <2>1 DEF gateVars, Gate!IsWellFormed, Gate!AtLeastTwo, Gate!IsObserved,
                Gate!ObservedCategories, Gate!ObservedSignals, ProposalType
<1>2. Gate!IsWellFormed(Gate!simulated_reviewer_revision(original))'
        <=> Gate!IsWellFormed(Gate!simulated_reviewer_revision(original))
  BY DEF gateVars, Gate!IsWellFormed, Gate!AtLeastTwo
<1>3. QED
  BY <1>1, <1>2 DEF gateVars, GateInv, IsReviewed, IsRevision, UnderReview, Reference

LEMMA GateStep == GateInv /\ [Gate!Next]_gateVars => GateInv'
  BY ObserveStep, ResearchStep, RevisedStep, ApproveStep, GateStutter DEF Gate!Next

-------------------------------------------------------------------------------
(* THE THEOREMS OF BOTH                                                    *)

(***************************************************************************)
(* A behaviour of the two together is one of each, so that what is proved  *)
(* of the registry alone holds for it.                                     *)
(***************************************************************************)
THEOREM LearningIsBoth == LearningSpec => Spec /\ Gate!Spec
<1>1. LearningInit => Init /\ Gate!Init
  BY DEF LearningInit
<1>2. [LearningNext]_learningVars => [Next]_vars /\ [Gate!Next]_(Gate!vars)
  BY DEF LearningNext, learningVars, gateVars, Gate!vars
<1>3. QED
  BY <1>1, <1>2, PTL DEF LearningSpec, Spec, Gate!Spec

LEMMA GateInvariant == LearningSpec => []GateInv
<1>1. LearningInit => GateInv
  BY GateInit DEF LearningInit
<1>2. [LearningNext]_learningVars => [Gate!Next]_gateVars
  BY DEF LearningNext, learningVars
<1>3. QED
  BY <1>1, <1>2, GateStep, PTL DEF LearningSpec

(***************************************************************************)
(* Whatever the model proposes, and whatever is salvaged or revised of it, *)
(* a reviewer sees only what the investigation observed, or the reference  *)
(* (capability_learning.py, research_capability_with_recovery, and         *)
(* runbook_learning.py, research_runbook).                                 *)
(***************************************************************************)
THEOREM OnlyObservedIsReviewed == LearningSpec => []ReviewedIsObserved
<1>1. ASSUME GateInv, stage \in UnderReview
      PROVE  /\ Gate!IsWellFormed(proposal)
             /\ \/ origin = "reference" /\ kind = "capability"
                \/ /\ proposal.refs \subseteq observed
                   /\ \A s \in proposal.signals : \E e \in observed : s \in Gate!SignalsOf[e]
                   /\ \A g \in proposal.categories : \E e \in observed : g = Gate!CategoryOf[e]
  BY <1>1 DEF GateInv, IsReviewed, Gate!IsObserved, Gate!ObservedSignals, Gate!ObservedCategories
<1>2. GateInv => ReviewedIsObserved
  BY <1>1 DEF ReviewedIsObserved, Gate!ReviewedIsObserved, UnderReview
<1>3. QED
  BY <1>2, GateInvariant, PTL

(***************************************************************************)
(* The revision of a text that passes passes, if it can be made at all,    *)
(* and of a capability it can.                                             *)
(***************************************************************************)
LEMMA RevisionPasses ==
  ASSUME NEW p \in ProposalType, Gate!Passes(p)
  PROVE  /\ Gate!Passes(Gate!simulated_reviewer_revision(p))
         /\ kind # "runbook" /\ Gate!IsWellFormed(p) =>
              Gate!IsWellFormed(Gate!simulated_reviewer_revision(p))
<1> DEFINE q == Gate!simulated_reviewer_revision(p)
<1>1. /\ q.signals = p.signals \ Gate!NonCausal
      /\ q.categories = p.categories \ {"health"}
      /\ q.refs = p.refs
      /\ q.policy = IF p.policy = "wide" THEN "sound" ELSE p.policy
  BY Revised
<1>2. /\ p.signals \subseteq Gate!Mechanism /\ p.categories \subseteq AllowedCategories
      /\ NotFound(p)
      /\ IF kind = "runbook" THEN p.policy # "unsound" ELSE p.policy = "sound"
  BY WhatPasses
<1>3. q.signals = p.signals
  BY <1>1, <1>2 DEF Gate!NonCausal, Gate!Mechanism
<1> HIDE DEF q
<1>4. Gate!Passes(q)
  <2>1. CASE kind = "runbook"
    <3>1. \A S, C : "health" \in C /\ ~Gate!Matches(p, S, C) => ~Gate!Matches(q, S, C)
      BY <1>1, <1>3 DEF Gate!Matches
    <3>2. ~Gate!Matches(q, {"memory_pressure", "oom_kill"}, {"health", "resources", "logs"})
      BY <1>2, <2>1, <3>1 DEF NotFound
    <3>3. NotFound(q)
      BY <1>2, <2>1, <3>1, <3>2 DEF NotFound
    <3>4. q.policy # "unsound"
      BY <1>1, <1>2, <2>1
    <3>5. QED
      BY <1>1, <1>2, <1>3, <2>1, <3>3, <3>4, WhatPasses
  <2>2. CASE kind # "runbook"
    <3>1. q.categories = p.categories /\ q.policy = p.policy
      BY <1>1, <1>2, <2>2 DEF AllowedCategories
    <3>2. NotFound(q)
      BY <1>2, <1>3, <3>1 DEF NotFound, Gate!Matches
    <3>3. QED
      BY <1>2, <1>3, <2>2, <3>1, <3>2, WhatPasses
  <2>3. QED
    BY <2>1, <2>2
<1>5. ASSUME kind # "runbook", Gate!IsWellFormed(p) PROVE Gate!IsWellFormed(q)
  <2>1. q.categories = p.categories
    BY <1>1, <1>2, <1>5 DEF AllowedCategories
  <2>2. QED
    BY <1>1, <1>3, <1>5, <2>1 DEF Gate!IsWellFormed
<1>6. QED
  BY <1>4, <1>5 DEF q

LEMMA ReferencePasses == kind = "capability" => Gate!Passes(Reference)
<1>1. SUFFICES ASSUME kind = "capability" PROVE Gate!Passes(Reference)
  OBVIOUS
<1>2. /\ Reference.signals = Gate!Mechanism /\ Reference.policy = "sound"
      /\ Reference.categories = {"resources", "changes", "logs"}
  BY DEF Reference, Gate!reviewer_corrected_capability_proposal
<1>3. NotFound(Reference)
  BY <1>1, <1>2 DEF NotFound, Gate!Matches, Gate!Mechanism
<1>4. AllowedCategories = {"resources", "changes", "logs"}
  BY <1>1 DEF AllowedCategories
<1>5. QED
  BY <1>1, <1>2, <1>3, <1>4, WhatPasses

(***************************************************************************)
(* A reviewer's edit costs no promotion (capability_learning.py and        *)
(* runbook_learning.py, simulated_reviewer_revision and the evaluators).   *)
(***************************************************************************)
THEOREM RevisionCostsNothing == LearningSpec => []RevisionKeepsPassing
<1>1. ASSUME GateInv PROVE RevisionKeepsPassing
  <2>1. ASSUME stage = "revised", Gate!Passes(original) PROVE Gate!Passes(proposal)
    BY <1>1, <2>1, RevisionPasses DEF GateInv, IsReviewed, IsRevision, UnderReview
  <2>2. ASSUME stage = "raised", kind = "capability" PROVE ~Gate!Passes(original)
    BY <1>1, <2>2, RevisionPasses DEF GateInv, IsRevision
  <2>3. ASSUME stage = "submitted", origin = "reference" PROVE Gate!Passes(proposal)
    BY <1>1, <2>3, ReferencePasses DEF GateInv, IsReviewed, IsRevision, UnderReview
  <2>4. QED
    BY <2>1, <2>2, <2>3 DEF RevisionKeepsPassing, Gate!RevisionKeepsPassing
<1>2. QED
  BY <1>1, GateInvariant, PTL

(***************************************************************************)
(* What is promoted matches its own incident and no other one of the cases *)
(* (capability_learning.py and runbook_learning.py, the evaluators).       *)
(***************************************************************************)
THEOREM PromotionIsSelective == LearningSpec => []PromotedIsSelective
<1>1. ASSUME GateInv, stage = "promoted"
      PROVE  /\ Gate!Matches(proposal, UNION {Gate!SignalsOf[e] : e \in Gate!Ids}, Gate!Categories)
             /\ proposal.signals \subseteq Gate!Mechanism
             /\ ~Gate!Matches(proposal, {"memory_pressure", "oom_kill"}, {"resources", "logs"})
             /\ ~Gate!Matches(proposal, {"worker_concurrency_increased"}, {"health", "changes"})
             /\ proposal.policy = "unsound" \/ proposal.policy = "wide" => kind = "runbook"
             /\ proposal.policy # "unsound"
  <2>1. Gate!Passes(proposal)
    BY <1>1 DEF GateInv, IsRevision
  <2>2. /\ proposal.signals \subseteq Gate!Mechanism /\ proposal.categories \subseteq AllowedCategories
        /\ NotFound(proposal)
        /\ IF kind = "runbook" THEN proposal.policy # "unsound" ELSE proposal.policy = "sound"
    BY <2>1, WhatPasses
  <2>3. Gate!Mechanism \subseteq UNION {Gate!SignalsOf[e] : e \in Gate!Ids}
    <3>1. /\ "resources-1" \in Gate!Ids /\ "memory_pressure" \in Gate!SignalsOf["resources-1"]
          /\ "changes-1" \in Gate!Ids /\ "worker_concurrency_increased" \in Gate!SignalsOf["changes-1"]
          /\ "logs-1" \in Gate!Ids /\ {"oom_kill", "concurrency_correlated_oom"} \subseteq Gate!SignalsOf["logs-1"]
      BY DEF Gate!Ids, Gate!SignalsOf
    <3>2. QED
      BY <3>1 DEF Gate!Mechanism
  <2>4. AllowedCategories \subseteq Gate!Categories
    BY DEF AllowedCategories, Gate!Categories
  <2>5. Gate!Matches(proposal, UNION {Gate!SignalsOf[e] : e \in Gate!Ids}, Gate!Categories)
    BY <2>2, <2>3, <2>4 DEF Gate!Matches
  <2>6. ~Gate!Matches(proposal, {"memory_pressure", "oom_kill"}, {"resources", "logs"})
    <3>1. CASE kind = "runbook"
      BY <2>2, <3>1 DEF NotFound, Gate!Matches
    <3>2. CASE kind # "runbook"
      BY <2>2, <3>2 DEF NotFound
    <3>3. QED
      BY <3>1, <3>2
  <2>7. ~Gate!Matches(proposal, {"worker_concurrency_increased"}, {"health", "changes"})
    BY <2>2 DEF NotFound, Gate!Matches
  <2>8. QED
    BY <2>2, <2>5, <2>6, <2>7
<1>2. GateInv => PromotedIsSelective
  BY <1>1 DEF PromotedIsSelective, Gate!PromotedIsSelective
<1>3. QED
  BY <1>2, GateInvariant, PTL

=================================================================================
