------------------------------ MODULE PromotionGate ------------------------------
(***************************************************************************)
(* From an investigation of the worker lab to a promoted text: the model   *)
(* proposes, the application validates the proposal against the evidence   *)
(* (for a capability, salvages or replaces it), the simulated reviewer may *)
(* revise it, and the deterministic gate compares it with hidden cases and *)
(* the policy.  Signals, cases and policy are those of the source; signals *)
(* that play one part in it are represented by one of them.                *)
(***************************************************************************)
CONSTANTS
  Signals,   \* signals a proposal may name
  Policies,  \* what capability_policy_pass can find; see IsPolicy
  None

Categories == {"health", "resources", "changes", "logs"}

Ids == {"health-1", "resources-1", "changes-1", "logs-1"}

Mechanism == {"memory_pressure", "worker_concurrency_increased",
              "concurrency_correlated_oom", "oom_kill"}

(***************************************************************************)
(* The observations of a failing worker.                                   *)
(***************************************************************************)
CategoryOf == [e \in Ids |-> CASE e = "health-1"    -> "health"
                               [] e = "resources-1" -> "resources"
                               [] e = "changes-1"   -> "changes"
                               [] e = "logs-1"      -> "logs"]

SignalsOf == [e \in Ids |->
  CASE e = "health-1"    -> {"http_503", "worker_unavailable"}
    [] e = "resources-1" -> {"memory_pressure", "cpu_normal", "filesystem_normal"}
    [] e = "changes-1"   -> {"worker_concurrency_increased", "image_unchanged"}
    [] e = "logs-1"      -> {"oom_kill", "concurrency_correlated_oom"}]

Kinds == {"runbook", "capability"}

(***************************************************************************)
(* policy: "sound", "wide" for a blast radius the reviewer can narrow, or  *)
(* "unsound" for what no revision mends: timeout, parameters, confidence,  *)
(* the number of steps.                                                    *)
(***************************************************************************)
IsPolicy(p) == p \in {"sound", "wide", "unsound"}

GateAssumption ==
  /\ Mechanism \subseteq Signals
  /\ \A p \in Policies : IsPolicy(p)

\* The schema: two entries at least of each.
AtLeastTwo(S) == \E x, y \in S : x # y

IsWellFormed(p) ==
  AtLeastTwo(p.signals) /\ AtLeastTwo(p.categories) /\ AtLeastTwo(p.refs)

Proposals ==
  {p \in [signals : SUBSET Signals, categories : SUBSET Categories,
          refs : SUBSET Ids, policy : Policies] : IsWellFormed(p)}

VARIABLES
  kind,      \* which of the two programs runs
  observed,  \* evidence recorded in the investigation's trace
  proposal,  \* what is submitted for review, and later its revision
  original,  \* the proposal as it was submitted
  origin,    \* "model", "salvaged" or "reference"
  stage

vars == <<kind, observed, proposal, original, origin, stage>>

Init ==
  /\ kind \in Kinds
  /\ observed = {}
  /\ proposal = None /\ original = None /\ origin = None
  /\ stage = "investigating"

ObservedSignals == UNION {SignalsOf[e] : e \in observed}

ObservedCategories == {CategoryOf[e] : e \in observed}

-------------------------------------------------------------------------------

observe(e) ==
  /\ stage = "investigating"
  /\ observed' = observed \cup {e}
  /\ UNCHANGED <<kind, proposal, original, origin, stage>>

IsObserved(p) ==
  /\ p.refs \subseteq observed
  /\ p.categories \subseteq ObservedCategories
  /\ p.signals \subseteq ObservedSignals

\* Faulty: the categories are left as the model wrote them.
contract_violation_revision_partial(p) ==
  [p EXCEPT !.signals = @ \cap ObservedSignals, !.refs = @ \cap observed]

contract_violation_revision(p) ==
  [p EXCEPT !.signals    = @ \cap ObservedSignals,
            !.categories = @ \cap ObservedCategories,
            !.refs       = @ \cap observed]

reviewer_corrected_capability_proposal ==
  [signals    |-> Mechanism,
   categories |-> {"resources", "changes", "logs"},
   refs       |-> {"resources-1", "changes-1", "logs-1"},
   policy     |-> "sound"]

Submit(p, from) ==
  /\ proposal' = p /\ original' = p /\ origin' = from
  /\ stage' = "submitted"
  /\ UNCHANGED <<kind, observed>>

(***************************************************************************)
(* research_runbook submits what it validated, or raises.                  *)
(***************************************************************************)
research_runbook ==
  /\ kind = "runbook" /\ stage = "investigating"
  /\ \E p \in Proposals : IsObserved(p) /\ Submit(p, "model")

(***************************************************************************)
(* research_capability_with_recovery always submits something.             *)
(***************************************************************************)
research_capability ==
  /\ kind = "capability" /\ stage = "investigating"
  /\ \E p \in Proposals :
       LET salvaged == contract_violation_revision(p)
       IN  IF IsObserved(p) THEN Submit(p, "model")
           ELSE IF IsWellFormed(salvaged) THEN Submit(salvaged, "salvaged")
           ELSE Submit(reviewer_corrected_capability_proposal, "reference")

\* The model's output is no proposal at all.
research_invalid ==
  /\ stage = "investigating"
  /\ IF kind = "capability"
     THEN Submit(reviewer_corrected_capability_proposal, "reference")
     ELSE /\ stage' = "raised"
          /\ UNCHANGED <<kind, observed, proposal, original, origin>>

NonCausal == {"http_503", "worker_unavailable", "cpu_normal",
              "filesystem_normal", "image_unchanged"}

\* Faulty: a signal of the mechanism is taken for context.
simulated_reviewer_revision_eager(p) ==
  [p EXCEPT !.signals    = @ \ (NonCausal \cup {"memory_pressure"}),
            !.categories = @ \ {"health"},
            !.policy     = IF @ = "wide" THEN "sound" ELSE @]

simulated_reviewer_revision(p) ==
  [p EXCEPT !.signals    = @ \ NonCausal,
            !.categories = @ \ {"health"},
            !.policy     = IF @ = "wide" THEN "sound" ELSE @]

(***************************************************************************)
(* The revision is validated again: one that strips too much raises, and   *)
(* the candidate stays as it was.                                          *)
(***************************************************************************)
Revise ==
  /\ stage = "submitted"
  /\ LET revised == simulated_reviewer_revision(proposal)
     IN  IF IsWellFormed(revised)
         THEN /\ proposal' = revised
              /\ stage' = "revised"
         ELSE /\ stage' = "raised"
              /\ UNCHANGED proposal
  /\ UNCHANGED <<kind, observed, original, origin>>

Matches(p, signals, categories) ==
  p.signals \subseteq signals /\ p.categories \subseteq categories

Case(signals, categories, expected) ==
  [signals |-> signals, categories |-> categories, expected |-> expected]

(***************************************************************************)
(* DEFAULT_PROMOTION_CASES of either program.                              *)
(***************************************************************************)
RunbookCases ==
  {Case(Mechanism, Categories, TRUE),
   Case(Mechanism \cup {"http_503", "filesystem_normal"}, Categories, TRUE),
   Case({"memory_pressure", "oom_kill"}, {"health", "resources", "logs"}, FALSE),
   Case({"worker_concurrency_increased", "latency_high"}, {"health", "changes"},
        FALSE),
   Case({"http_503", "low_free_space", "rotation_error", "no_space_left"},
        {"health", "resources", "logs"}, FALSE)}

CapabilityCases ==
  {Case(Mechanism, {"resources", "changes", "logs"}, TRUE),
   Case(Mechanism \cup {"http_503", "filesystem_normal"}, Categories, TRUE),
   Case({"memory_pressure", "oom_kill"}, {"resources", "logs"}, FALSE),
   Case({"worker_concurrency_increased", "latency_high"}, {"health", "changes"},
        FALSE),
   Case({"http_503", "low_free_space", "rotation_error", "no_space_left"},
        {"health", "resources", "logs"}, FALSE)}

evaluate_runbook(p) ==
  /\ \A c \in RunbookCases : Matches(p, c.signals, c.categories) = c.expected
  /\ p.policy # "unsound"

\* Faulty: the policy is not asked.
evaluate_capability_cases(p) ==
  \A c \in CapabilityCases : Matches(p, c.signals, c.categories) = c.expected

evaluate_capability(p) ==
  /\ \A c \in CapabilityCases : Matches(p, c.signals, c.categories) = c.expected
  /\ p.policy = "sound"

Passes(p) ==
  IF kind = "runbook" THEN evaluate_runbook(p) ELSE evaluate_capability(p)

approve ==
  /\ stage \in {"submitted", "revised"}
  /\ stage' = IF Passes(proposal) THEN "promoted" ELSE "evaluation_failed"
  /\ UNCHANGED <<kind, observed, proposal, original, origin>>

Next ==
  \/ \E e \in Ids : observe(e)
  \/ research_runbook \/ research_capability \/ research_invalid
  \/ Revise
  \/ approve

Spec == Init /\ [][Next]_vars

-------------------------------------------------------------------------------
(* PROPERTIES                                                              *)

(***************************************************************************)
(* What reaches review, salvaged and revised or not, is well formed and    *)
(* claims nothing that its investigation did not observe, unless it is the *)
(* reference contract.                                                     *)
(***************************************************************************)
ReviewedIsObserved ==
  stage \in {"submitted", "revised", "promoted", "evaluation_failed"} =>
    /\ IsWellFormed(proposal)
    /\ \/ origin = "reference" /\ kind = "capability"
       \/ /\ proposal.refs \subseteq observed
          /\ \A s \in proposal.signals : \E e \in observed : s \in SignalsOf[e]
          /\ \A g \in proposal.categories : \E e \in observed : g = CategoryOf[e]

(***************************************************************************)
(* The reviewer's edit never costs a promotion: a proposal that the gate   *)
(* would pass is revised to one that it passes, and of a capability always *)
(* to a valid one; the reference contract passes.  (A runbook may pass     *)
(* that requires two categories, health among them: its revision raises.)  *)
(***************************************************************************)
RevisionKeepsPassing ==
  /\ stage = "revised" /\ Passes(original) => Passes(proposal)
  /\ stage = "raised" /\ kind = "capability" => ~Passes(original)
  /\ stage = "submitted" /\ origin = "reference" => Passes(proposal)

(***************************************************************************)
(* A promoted text is found again by a full investigation of the incident  *)
(* it was promoted for, and asks for no signal beyond the mechanism: its   *)
(* context can differ.  It is not found where memory ran out without the   *)
(* concurrency evidence, nor after a concurrency change without an OOM.    *)
(***************************************************************************)
PromotedIsSelective ==
  stage = "promoted" =>
    /\ Matches(proposal, UNION {SignalsOf[e] : e \in Ids}, Categories)
    /\ proposal.signals \subseteq Mechanism
    /\ ~Matches(proposal, {"memory_pressure", "oom_kill"}, {"resources", "logs"})
    /\ ~Matches(proposal, {"worker_concurrency_increased"}, {"health", "changes"})
    /\ proposal.policy = "unsound" \/ proposal.policy = "wide" => kind = "runbook"
    /\ proposal.policy # "unsound"

===============================================================================
