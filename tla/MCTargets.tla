------------------------------- MODULE MCTargets -------------------------------
(***************************************************************************)
(* The two targets of approved actions that live in containers.  A         *)
(* deployment is configured with one of them (factory.py), so that a       *)
(* behaviour is one of either: target says of which.                       *)
(***************************************************************************)
EXTENDS ContainerExecutor, TLC

CONSTANTS LabThreads, MaxBoots, LabFaults

VARIABLES target, phase, labBox, labOpen, kept, call

Lab == INSTANCE ContainerLab WITH
         Threads <- LabThreads, Faults <- LabFaults,
         box <- labBox, open <- labOpen

labVars == <<phase, labBox, labOpen, kept, call>>

targetsVars == <<target, vars, labVars>>

TargetsInit == target \in {"sandbox", "lab"} /\ Init /\ Lab!Init

TargetsNext ==
  \/ target = "sandbox" /\ Next /\ UNCHANGED <<target, labVars>>
  \/ target = "lab" /\ Lab!Next /\ UNCHANGED <<target, vars>>

TargetsSpec == TargetsInit /\ [][TargetsNext]_targetsVars

(***************************************************************************)
(* The properties of the lab, as ContainerLab states and explains them: a  *)
(* sandbox is given up with its container only, and a reported restart has *)
(* recovered the service.                                                  *)
(***************************************************************************)
SandboxOutlivesContainer == Lab!SandboxOutlivesContainer

RestartedMeansRecovered == Lab!RestartedMeansRecovered

\* Threads are interchangeable.
Symmetry == Permutations(Threads)

===============================================================================
