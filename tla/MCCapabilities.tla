----------------------------- MODULE MCCapabilities -----------------------------
(***************************************************************************)
(* Capabilities: their registry, statement by statement, as several        *)
(* processes share it (CapabilityRegistry), and the sessions that bind a   *)
(* promoted contract and activate it (CapabilityActivation).  Sessions see *)
(* of a promotion its result alone, so that a behaviour is one of either.  *)
(***************************************************************************)
EXTENDS CapabilityRegistry, TLC

CONSTANTS
  Sessions, Names, Reduce, Target,  \* of the sessions
  Kinds,                            \* the capabilities of the sessions
  Contracts,                        \* the contracts they promote
  Other, Limit                      \* another capability, another name

(***************************************************************************)
(* Contracts on both sides of every check: the reference contract, bounds  *)
(* that exclude the bound value, bounds beyond the policy, another name, a *)
(* second parameter, another capability, and one the gate fails.           *)
(***************************************************************************)
Between(lo, hi) == [minimum |-> lo, maximum |-> hi]

Contract(k, parameters, sound) ==
  [capability |-> k, parameters |-> parameters, sound |-> sound]

MCContracts ==
  {Contract(Reduce, Target :> Between(1, 8), TRUE),
   Contract(Reduce, Target :> Between(5, 8), TRUE),
   Contract(Reduce, Target :> Between(1, 12), TRUE),
   Contract(Reduce, Limit :> Between(1, 8), TRUE),
   Contract(Reduce, Target :> Between(1, 8) @@ Limit :> Between(1, 8), TRUE),
   Contract(Other, Target :> Between(1, 8), TRUE),
   Contract(Reduce, Target :> Between(1, 8), FALSE)}

VARIABLES part, contracts, session, worker, audit, record

Session == INSTANCE CapabilityActivation WITH
             Capabilities <- Kinds,
             promoted     <- contracts

ASSUME SessionsAssumption == Session!ActivationAssumption

sessionVars == <<contracts, session, worker, audit, record>>

capabilitiesVars == <<part, vars, sessionVars>>

CapabilitiesInit ==
  /\ Init /\ Session!Init
  /\ \/ part = "sessions"
     \/ part = "registry" /\ \A s \in Sessions : ~worker[s].fails

CapabilitiesNext ==
  \/ part = "registry" /\ Next /\ UNCHANGED <<part, sessionVars>>
  \/ part = "sessions" /\ Session!Next /\ UNCHANGED <<part, vars>>

CapabilitiesSpec == CapabilitiesInit /\ [][CapabilitiesNext]_capabilitiesVars

(***************************************************************************)
(* The properties of the sessions, as CapabilityActivation states and      *)
(* explains them: a worker is lowered under its contract alone, for good   *)
(* or not at all, and the registry records what became of it.              *)
(***************************************************************************)
LoweredUnderContract == Session!LoweredUnderContract

ActivationIsAllOrNothing == Session!ActivationIsAllOrNothing

HistoryIsTruthful == Session!HistoryIsTruthful

===============================================================================
