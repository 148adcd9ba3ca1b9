------------------------------- MODULE MCAgents -------------------------------
(***************************************************************************)
(* The two programs in which a model drives the work: investigations with  *)
(* knowledge tools (KnowledgeTools) and a Studio thread (CausalWorkflow).  *)
(* They are separate programs that share nothing, so that a behaviour is   *)
(* one of either: program says of which.                                   *)
(***************************************************************************)
EXTENDS KnowledgeTools, TLC

CONSTANTS Tools, Interrupted, MaxInterrupts, MaxMessages, Faults

VARIABLES program, checkpoint, step, run, trail, answer, effects, usage

Workflow == INSTANCE CausalWorkflow

threadVars == <<checkpoint, step, run, trail, answer, effects, usage>>

agentsVars == <<program, vars, threadVars>>

AgentsInit == program \in {"investigation", "studio"} /\ Init /\ Workflow!Init

AgentsNext ==
  \/ program = "investigation" /\ Next /\ UNCHANGED <<program, threadVars>>
  \/ program = "studio" /\ Workflow!Next /\ UNCHANGED <<program, vars>>

\* A Studio thread that is not waiting for the human goes on.
AgentsSpec ==
  /\ AgentsInit /\ [][AgentsNext]_agentsVars
  /\ WF_agentsVars(
       program = "studio" /\ Workflow!Node /\ UNCHANGED <<program, vars>>)

(***************************************************************************)
(* The properties of the thread, as CausalWorkflow states and explains     *)
(* them: effects and verifications once, a documented proposal, edges that *)
(* follow the recorded decision, and an end for every approved thread.     *)
(***************************************************************************)
ActsAndVerifiesOnce == Workflow!ActsAndVerifiesOnce

GraphFollowsRecord == Workflow!GraphFollowsRecord

ApprovedThreadsEnd == Workflow!ApprovedThreadsEnd

(***************************************************************************)
(* One observation of each category, and two texts that require two        *)
(* categories each: with fewer observations one text can be supported and  *)
(* the other only in part, with all of them an investigation can open both *)
(* and has observed health, which neither requires.  The investigation     *)
(* that has to use knowledge can observe all of it; the other sees an      *)
(* incident that resembles the first text by its signals, and no more.     *)
(***************************************************************************)
MCCategory == [e \in {"resources-1", "changes-1", "logs-1", "health-1"} |->
                 CASE e = "resources-1" -> "resources"
                   [] e = "changes-1"   -> "changes"
                   [] e = "logs-1"      -> "logs"
                   [] e = "health-1"    -> "health"]

MCSignals == [e \in {"resources-1", "changes-1", "logs-1", "health-1"} |->
                CASE e = "resources-1" -> {"memory_pressure"}
                  [] e = "changes-1"   -> {"worker_concurrency_increased"}
                  [] e = "logs-1"      -> {"oom_kill", "concurrency_correlated_oom"}
                  [] e = "health-1"    -> {"http_503"}]

MCKnowledge ==
  {[signals    |-> {"oom_kill", "concurrency_correlated_oom"},
    categories |-> {"resources", "logs"}],
   [signals    |-> {"memory_pressure", "worker_concurrency_increased"},
    categories |-> {"resources", "changes"}]}

MCObservable == [t \in Threads |-> IF t \in Required THEN Evidence ELSE {"logs-1"}]

(***************************************************************************)
(* Tool calls are interchangeable.  The liveness property is about Studio  *)
(* threads, in whose behaviours no call is ever made, so that the symmetry *)
(* leaves every state of them as it is.                                    *)
(***************************************************************************)
Symmetry == Permutations(Calls)

===============================================================================
