-------------------------- MODULE CapabilityActivation --------------------------
(***************************************************************************)
(* One capability from its promotion to the record of its activation, as   *)
(* the command-line demonstration drives it: the promoted contract is      *)
(* bound into a remediation option, a person approves the option, the      *)
(* executor revalidates the binding and lowers the concurrency of the      *)
(* session's own worker, and two histories record what happened.  The      *)
(* sessions share the registry's database; worker, incident store and      *)
(* everything else belong to one session and die with its process.         *)
(***************************************************************************)
EXTENDS Naturals, Sequences

CONSTANTS
  Sessions,      \* runs of the command
  Capabilities,  \* capability_id values
  Names,         \* parameter names
  Contracts,     \* the proposals that research and review arrive at
  Reduce,        \* "reduce_worker_concurrency", a member of Capabilities
  Target,        \* "target_concurrency", a member of Names
  None

Elevated == 12        \* current_concurrency of a new lab
SafeConcurrency == 4  \* safe_concurrency, and the value the command binds
MaxParameter == 8     \* max_parameter_maximum, and policy's parameter_maximum

Bounds == [minimum : 1 .. Elevated, maximum : 1 .. Elevated]

(***************************************************************************)
(* parameters: a function from its names to their bounds.  sound: what the *)
(* gate says of everything but the parameters (PromotionGate).             *)
(***************************************************************************)
IsContract(t) ==
  /\ t.capability \in Capabilities
  /\ DOMAIN t.parameters # {} /\ DOMAIN t.parameters \subseteq Names
  /\ \A n \in DOMAIN t.parameters :
       /\ t.parameters[n] \in Bounds
       /\ t.parameters[n].minimum <= t.parameters[n].maximum
  /\ t.sound \in BOOLEAN

ActivationAssumption ==
  /\ Reduce \in Capabilities
  /\ Target \in Names
  /\ \A t \in Contracts : IsContract(t)

VARIABLES
  promoted,  \* the promoted_capabilities of each capability, in version order
  session,   \* where each session is, with what it bound and what it got
  worker,    \* the worker lab of each session
  audit,     \* the capability_activated row of each session's incident store
  record     \* the capability_activations row each session wrote

vars == <<promoted, session, worker, audit, record>>

TypeOK ==
  /\ promoted \in [Capabilities -> Seq(Contracts)]
  /\ \A s \in Sessions :
       /\ session[s].pc \in {"new", "promoted", "proposed", "approved",
                             "executed", "audited", "recorded", "ended"}
       /\ session[s].result \in {None, "refused", "already", "verified",
                                 "rolled_back"}
       /\ worker[s].concurrency \in 1 .. Elevated

Init ==
  /\ promoted = [k \in Capabilities |-> <<>>]
  /\ session = [s \in Sessions |->
                  [pc |-> "new", capability |-> None, version |-> None,
                   digest |-> None, result |-> None]]
  /\ worker \in [Sessions -> [concurrency : {Elevated}, forced : {FALSE},
                              fails : BOOLEAN]]  \* --fail-verification
  /\ audit = [s \in Sessions |-> None]
  /\ record = [s \in Sessions |-> None]

Goto(s, pc) == session' = [session EXCEPT ![s].pc = pc]

IsHealthy(w) == ~w.forced /\ w.concurrency <= SafeConcurrency

-------------------------------------------------------------------------------

Passes(t) == t.sound /\ \A n \in DOMAIN t.parameters :
                          t.parameters[n].maximum <= MaxParameter

(***************************************************************************)
(* Research, submission, revision and review up to a promotion             *)
(* (CapabilityRegistry): the contract becomes the next version, and the    *)
(* command binds the version it got back.                                  *)
(***************************************************************************)
PromoteContract(s, t) ==
  /\ session[s].pc = "new"
  /\ Passes(t)
  /\ promoted' = [promoted EXCEPT ![t.capability] = Append(@, t)]
  /\ session' = [session EXCEPT ![s] =
                   [pc |-> "promoted", capability |-> t.capability,
                    version |-> Len(promoted[t.capability]) + 1,
                    digest |-> t, result |-> None]]
  /\ UNCHANGED <<worker, audit, record>>

(***************************************************************************)
(* start_event: build_option checks the bound value and that the binding   *)
(* names the one capability of this action.  It is not shown the contract. *)
(***************************************************************************)
build_option(s) ==
  /\ session[s].pc = "promoted"
  /\ session[s].capability = Reduce
  /\ SafeConcurrency \in 1 .. MaxParameter
  /\ Goto(s, "proposed")
  /\ UNCHANGED <<promoted, worker, audit, record>>

approve(s) ==
  /\ session[s].pc = "proposed"
  /\ Goto(s, "approved")
  /\ UNCHANGED <<promoted, worker, audit, record>>

(***************************************************************************)
(* The checks of the executor on its registry and on the bound option.     *)
(***************************************************************************)
IsBound(me) ==
  /\ me.version \in DOMAIN promoted[me.capability]
  /\ promoted[me.capability][me.version] = me.digest

\* Faulty: the value is not compared with the contract.
Conforms_unbounded(t) == DOMAIN t.parameters = {Target}

Conforms(t) ==
  /\ DOMAIN t.parameters = {Target}
  /\ t.parameters[Target].minimum <= SafeConcurrency
  /\ SafeConcurrency <= t.parameters[Target].maximum

IsAuthorized(me) == IsBound(me) /\ Conforms(promoted[me.capability][me.version])

apply(w) == [w EXCEPT !.concurrency = SafeConcurrency, !.forced = w.forced \/ w.fails]

\* Faulty: the worker is left where it was put.
restore_nothing(w, previous) == w

restore(w, previous) == [w EXCEPT !.concurrency = previous, !.forced = FALSE]

Activate(s) ==
  LET before == worker[s]
      after == apply(before)
      result == IF before.concurrency <= SafeConcurrency THEN "already"
                ELSE IF IsHealthy(after) THEN "verified" ELSE "rolled_back"
  IN  /\ session' = [session EXCEPT ![s].pc = "executed", ![s].result = result]
      /\ worker' = [worker EXCEPT ![s] =
                      CASE result = "already"  -> before
                        [] result = "verified" -> after
                        [] OTHER -> restore(after, before.concurrency)]

(***************************************************************************)
(* execute: the proposal ends succeeded or failed as the executor says.    *)
(***************************************************************************)
execute(s) ==
  /\ session[s].pc = "approved"
  /\ IF IsAuthorized(session[s])
     THEN Activate(s)
     ELSE /\ session' = [session EXCEPT ![s].pc = "executed",
                                        ![s].result = "refused"]
          /\ UNCHANGED worker
  /\ UNCHANGED <<promoted, audit, record>>

RollbackFlag(w) == ~IsHealthy(w) /\ w.concurrency = Elevated

(***************************************************************************)
(* The command looks at the worker itself: the outcome of the audit row is *)
(* that of the health check, whatever the executor answered.               *)
(***************************************************************************)
record_capability_activation(s) ==
  /\ session[s].pc = "executed"
  /\ audit' = [audit EXCEPT ![s] =
                 [outcome  |-> IF IsHealthy(worker[s]) THEN "succeeded"
                               ELSE "rollback_applied",
                  rollback |-> RollbackFlag(worker[s])]]
  /\ Goto(s, "audited")
  /\ UNCHANGED <<promoted, worker, record>>

\* Faulty: the row is written whatever became of the activation.
record_activation_succeeded(s) ==
  /\ session[s].pc = "audited"
  /\ record' = [record EXCEPT ![s] =
                  [capability |-> session[s].capability,
                   version    |-> session[s].version,
                   outcome    |-> "succeeded", rollback |-> FALSE]]
  /\ Goto(s, "recorded")
  /\ UNCHANGED <<promoted, worker, audit>>

record_activation(s) ==
  /\ session[s].pc = "audited"
  /\ session[s].version \in DOMAIN promoted[session[s].capability]
  /\ record' = [record EXCEPT ![s] =
                  [capability |-> session[s].capability,
                   version    |-> session[s].version,
                   outcome    |-> IF IsHealthy(worker[s]) THEN "succeeded"
                                  ELSE "failed",
                   rollback   |-> RollbackFlag(worker[s])]]
  /\ Goto(s, "recorded")
  /\ UNCHANGED <<promoted, worker, audit>>

(***************************************************************************)
(* The binding is refused at intake, the person rejects, the proposal      *)
(* expires, a call raises, or the process dies.  Worker and audit row are  *)
(* the session's own, so nothing reads them again.                         *)
(***************************************************************************)
End(s) ==
  /\ session[s].pc \notin {"recorded", "ended"}
  /\ Goto(s, "ended")
  /\ UNCHANGED <<promoted, worker, audit, record>>

Next ==
  \E s \in Sessions :
    \/ \E t \in Contracts : PromoteContract(s, t)
    \/ build_option(s) \/ approve(s) \/ execute(s)
    \/ record_capability_activation(s) \/ record_activation(s)
    \/ End(s)

Spec == Init /\ [][Next]_vars

-------------------------------------------------------------------------------
(* PROPERTIES                                                              *)

(***************************************************************************)
(* A session that reached "executed" and was not abandoned.                *)
(***************************************************************************)
Executed(s) == session[s].pc \in {"executed", "audited", "recorded"}

(***************************************************************************)
(* A worker runs at a lowered concurrency only under a contract that the   *)
(* gate passed, that is still the promoted text of the version the session *)
(* bound, that is the capability of this action, and whose bounds allow    *)
(* the value: four checks made at four moments by different code, the      *)
(* registry changing in between.                                           *)
(***************************************************************************)
LoweredUnderContract ==
  \A s \in Sessions : worker[s].concurrency # Elevated =>
    LET me == session[s]
        t == promoted[me.capability][me.version]
    IN  /\ me.capability = Reduce
        /\ Passes(t)
        /\ worker[s].concurrency <= MaxParameter
        /\ t.parameters[Target].minimum <= worker[s].concurrency
        /\ worker[s].concurrency <= t.parameters[Target].maximum

(***************************************************************************)
(* An activation changes a worker for good or not at all: the proposal     *)
(* succeeded and the worker is healthy, or it failed, for whatever reason, *)
(* and the worker is as it was before, free of the forced fault.           *)
(***************************************************************************)
ActivationIsAllOrNothing ==
  \A s \in Sessions : Executed(s) =>
    IF session[s].result \in {"verified", "already"}
    THEN IsHealthy(worker[s])
    ELSE worker[s].concurrency = Elevated /\ ~worker[s].forced

(***************************************************************************)
(* What the registry keeps of an activation is what the proposal ended as: *)
(* the row says succeeded exactly when the execution succeeded, for the    *)
(* version that was bound, and exactly when the incident's audit row does. *)
(***************************************************************************)
HistoryIsTruthful ==
  \A s \in Sessions : record[s] # None =>
    /\ record[s].outcome = "succeeded" <=>
         session[s].result \in {"verified", "already"}
    /\ record[s].outcome = "succeeded" <=> audit[s].outcome = "succeeded"
    /\ promoted[record[s].capability][record[s].version] = session[s].digest

-------------------------------------------------------------------------------
(* EXPECTATIONS of the documents that the code does not meet: README.md    *)
(* says how each one fails; no run checks them.                            *)

(***************************************************************************)
(* A refused binding leaves no trace of a rollback: what is audited as     *)
(* rollback_applied is an activation whose failed verification restored    *)
(* the previous concurrency.                                               *)
(***************************************************************************)
RollbackWasApplied ==
  \A s \in Sessions : audit[s] # None /\ audit[s].outcome = "rollback_applied" =>
    session[s].result = "rolled_back"

(***************************************************************************)
(* The incident's audit trail and the registry's activation record give    *)
(* one activation one outcome.                                             *)
(***************************************************************************)
HistoriesAgree ==
  \A s \in Sessions : record[s] # None => record[s].outcome = audit[s].outcome

===============================================================================
