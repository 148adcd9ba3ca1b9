----------------------------- MODULE RevisionNotes -----------------------------
(***************************************************************************)
(* The summaries of proposals, by their length: a revision with a note     *)
(* stores the summary it revises with the note appended, and nothing looks *)
(* at the length of the result.  Whoever reads a stored assessment through *)
(* its schema refuses one that is too long: the next revision, and every   *)
(* view of the run.                                                        *)
(***************************************************************************)
EXTENDS IncidentService

CONSTANTS
  Limit,   \* max_length of ModelAssessment.summary, 2000
  MaxNote  \* the most a note adds: " Revision requested: " and 500 characters

ASSUME NotesAssumption ==
  /\ Limit \in Nat \ {0}
  /\ MaxNote \in Nat

VARIABLES
  summary,  \* the length of the summary of each stored proposal, 0 for none
  note      \* what the note of each thread's revision adds

noteVars == <<vars, summary, note>>

NotesTypeOK ==
  /\ TypeOK
  /\ summary \in [Runs -> [Revisions -> Nat]]
  /\ note \in [Workers -> 0 .. MaxNote]

NotesInit ==
  /\ Init
  /\ summary = [k \in Runs |-> [r \in Revisions |-> 0]]
  /\ note = [w \in Workers |-> 0]

Readable(k, r) == summary[k][r] <= Limit

(***************************************************************************)
(* The analyser's assessment has been validated when it is stored.         *)
(***************************************************************************)
StoreSummary(w) ==
  /\ CreateProposal(w)
  /\ \E n \in 1 .. Limit : summary' = [summary EXCEPT ![worker[w].run][1] = n]
  /\ UNCHANGED note

\* Faulty: the stored assessment is taken as it is.
RequestRevision_unvalidated(w, k, r, digest, o) ==
  /\ RequestDecision(w, k, r, "revise", digest, o)
  /\ \E n \in 0 .. MaxNote : note' = [note EXCEPT ![w] = n]
  /\ UNCHANGED summary

(***************************************************************************)
(* _decide validates the assessment that it revises and copies it with the *)
(* new summary, which model_copy does not validate.                        *)
(***************************************************************************)
RequestRevision(w, k, r, digest, o) ==
  /\ RequestDecision(w, k, r, "revise", digest, o)
  /\ Readable(k, r)
  /\ \E n \in 0 .. MaxNote : note' = [note EXCEPT ![w] = n]
  /\ UNCHANGED summary

StoreRevision(w) ==
  LET k == worker[w].run
      r == worker[w].revision
  IN  /\ DecisionRevises(w)
      /\ summary' = [summary EXCEPT ![k][r + 1] = summary[k][r] + note[w]]
      /\ UNCHANGED note

(***************************************************************************)
(* The other steps of the service store no proposal and read no summary.   *)
(***************************************************************************)
StoresProposal ==
  \E k \in Runs, r \in Revisions :
    proposal[k][r].status = "absent" /\ proposal'[k][r].status # "absent"

AsksForRevision ==
  \E w \in Workers : worker[w].pc = "idle" /\ worker'[w].decision = "revise"

OtherStep ==
  /\ Next
  /\ ~StoresProposal
  /\ ~AsksForRevision
  /\ UNCHANGED <<summary, note>>

NotesNext ==
  \/ \E w \in Workers :
       \/ StoreSummary(w)
       \/ StoreRevision(w)
       \/ \E k \in Runs, r \in Revisions, digest \in Digests, o \in Options :
            RequestRevision(w, k, r, digest, o)
  \/ OtherStep

NotesSpec == NotesInit /\ [][NotesNext]_noteVars

-------------------------------------------------------------------------------
(* PROPERTIES                                                              *)

(***************************************************************************)
(* However many reviewers append notes to one another's revisions, and     *)
(* whatever was stored between a revision's reading and its transaction,   *)
(* only the newest revision of a run can have outgrown the schema, and by  *)
(* no more than one note: the audit history of a run never ends in a       *)
(* series of proposals that nobody could read.                             *)
(***************************************************************************)
GrowthIsBounded ==
  \A k \in Runs, r \in Revisions :
    /\ summary[k][r] <= Limit + MaxNote
    /\ r + 1 \in Revisions /\ proposal[k][r + 1].status # "absent" => Readable(k, r)

(***************************************************************************)
(* A thread that is about to revise has read a summary within the limit,   *)
(* and nothing has replaced it since.                                      *)
(***************************************************************************)
RevisionsReadFirst ==
  \A w \in Workers :
    worker[w].pc = "deciding" /\ worker[w].decision = "revise" =>
      Readable(worker[w].run, worker[w].revision)

NotesInv ==
  /\ NotesTypeOK
  /\ GrowthIsBounded
  /\ RevisionsReadFirst

-------------------------------------------------------------------------------
(* EXPECTATIONS of the documents that the code does not meet: README.md    *)
(* says how each one fails; no run checks them.                            *)

(***************************************************************************)
(* A run can be viewed: the newest of its proposals, which get_run returns *)
(* through the schema, satisfies it.                                       *)
(***************************************************************************)
RunsStayViewable == \A k \in Runs, r \in Revisions : Readable(k, r)

===============================================================================
