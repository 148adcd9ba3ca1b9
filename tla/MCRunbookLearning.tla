--------------------------- MODULE MCRunbookLearning ---------------------------
(***************************************************************************)
(* Learning: the registry of runbooks (RunbookRegistry), and the programs  *)
(* that research a text and put it before the gate (PromotionGate).  The   *)
(* registry knows of the gate its verdict alone, passes, and the gate      *)
(* depends on the text alone, so that a behaviour is one of either.        *)
(***************************************************************************)
EXTENDS RunbookRegistry, TLC

CONSTANTS Signals, Policies

VARIABLES part, kind, observed, proposal, original, origin, stage

Gate == INSTANCE PromotionGate

ASSUME ResearchAssumption == Gate!GateAssumption

gateVars == <<kind, observed, proposal, original, origin, stage>>

learningVars == <<part, vars, gateVars>>

LearningInit ==
  /\ Init /\ Gate!Init
  /\ \/ part = "research"
     \/ part = "registry" /\ kind = "runbook"

LearningNext ==
  \/ part = "registry" /\ Next /\ UNCHANGED <<part, gateVars>>
  \/ part = "research" /\ Gate!Next /\ UNCHANGED <<part, vars>>

LearningSpec == LearningInit /\ [][LearningNext]_learningVars

(***************************************************************************)
(* The properties of research and gate, as PromotionGate states and        *)
(* explains them: nothing unobserved reaches review, the reviewer's edit   *)
(* costs no promotion, and what is promoted is selective.                  *)
(***************************************************************************)
ReviewedIsObserved == Gate!ReviewedIsObserved

RevisionKeepsPassing == Gate!RevisionKeepsPassing

PromotedIsSelective == Gate!PromotedIsSelective

\* Candidates, runbooks, texts and reviewers are interchangeable.
Symmetry == Permutations(Candidates) \cup Permutations(Runbooks)
              \cup Permutations(Texts) \cup Permutations(Reviewers)

===============================================================================
