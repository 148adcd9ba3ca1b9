------------------------------ MODULE ContainerLab ------------------------------
(***************************************************************************)
(* The disposable service of the container lab: the application starts one *)
(* container, approved actions restart it when it is unhealthy, and        *)
(* shutdown removes it.  Every command of the container engine may fail or *)
(* be given up, having taken effect, or not, or only later; threads may    *)
(* restart the service at the same time, and what the host reads of the    *)
(* service's boot count may be old, or nothing.                            *)
(***************************************************************************)
EXTENDS Naturals

CONSTANTS
  Threads,   \* threads that execute approved restarts
  MaxBoots,  \* bound: how often the service boots healthy
  Faults     \* subset of {"exit", "timeout"}: how engine commands fail

VARIABLES
  phase,  \* where the application stands with its target
  box,    \* the container, as the engine knows it, and its service
  open,   \* the services directory has more than owner access
  kept,   \* the sandbox exists
  call    \* the restart that each thread is in, with its local variables

vars == <<phase, box, open, kept, call>>

(***************************************************************************)
(* start is TRUE in the clean-up that a failed start does itself; failures *)
(* are the commands of the last clean-up that did not do their work.       *)
(***************************************************************************)
Phases == [pc       : {"new", "run", "await", "started", "failed", "remove",
                       "inspect", "closed", "close_failed"},
           start    : BOOLEAN,
           failures : SUBSET {"rm", "inspect"}]

Healths == {"starting", "unhealthy", "healthy"}

(***************************************************************************)
(* state "late": the engine is still at work on a run that was given up;   *)
(* due: the other commands that it is still at work on.  file is the boot  *)
(* count in the sandbox, 0 when there is none or it is empty, was the file *)
(* before; next is the count the script is writing, or 0.  heals counts    *)
(* the boots that answer 200: history, which nothing in the code reads.    *)
(***************************************************************************)
Boxes == [state : {"absent", "late", "created", "running"}, health : Healths,
          file : Nat, was : Nat, next : Nat, heals : Nat,
          due : SUBSET {"rm", "restart"}]

Fresh(state) == [state |-> state, health |-> "starting", file |-> 0, was |-> 0,
                 next |-> 0, heals |-> 0, due |-> {}]

NoBox == Fresh("absent")

(***************************************************************************)
(* before and after are the boot counts of the snapshots, health that of   *)
(* the last one; healed is history: heals when the restart was carried out.*)
(***************************************************************************)
Idle == [pc |-> "idle", before |-> 0, after |-> 0, health |-> "starting",
         healed |-> 0]

Calls == [pc : {"idle", "probe", "restart", "await", "confirm", "settle",
                "recheck", "done"},
          before : Nat, after : Nat, health : Healths, healed : Nat]

TypeOK ==
  /\ phase \in Phases
  /\ box \in Boxes
  /\ open \in BOOLEAN /\ kept \in BOOLEAN
  /\ call \in [Threads -> Calls]

Init ==
  /\ phase = [pc |-> "new", start |-> FALSE, failures |-> {}]
  /\ box = NoBox
  /\ open = FALSE
  /\ kept = TRUE
  /\ call = [t \in Threads |-> Idle]

Goto(pc) == phase' = [phase EXCEPT !.pc = pc]
Exists == box.state \in {"created", "running"}

-------------------------------------------------------------------------------
(* The engine and the service in the container.                            *)

Restarted == [box EXCEPT !.health = "starting", !.next = 0]

\* A command on the container is given up and carried out later.
Due(command) ==
  IF Exists /\ "timeout" \in Faults
  THEN [box EXCEPT !.due = @ \cup {command}] ELSE box

(* The script reads its count, where none is 0, and opens it for writing.  *)
BeginsBoot ==
  /\ box.state = "running" /\ box.health = "starting" /\ box.next = 0
  /\ kept
  /\ box' = [box EXCEPT !.next = box.file + 1, !.was = box.file, !.file = 0]
  /\ UNCHANGED <<phase, open, kept, call>>

(* The count is written, and the service answers: 503 after boot 1.        *)
Boots ==
  /\ box.next > 0
  /\ box.heals < MaxBoots
  /\ box' = IF box.next = 1
            THEN [box EXCEPT !.file = 1, !.next = 0, !.health = "unhealthy"]
            ELSE [box EXCEPT !.file = box.next, !.next = 0,
                             !.health = "healthy", !.heals = @ + 1]
  /\ UNCHANGED <<phase, open, kept, call>>

Appears ==
  /\ box.state = "late"
  /\ kept
  /\ box' = Fresh("running")
  /\ UNCHANGED <<phase, open, kept, call>>

(* The engine carries out a command that it was given up on.               *)
Belated ==
  /\ Exists
  /\ \/ "rm" \in box.due /\ box' = NoBox
     \/ "restart" \in box.due /\ box' = [Restarted EXCEPT !.due = @ \ {"restart"}]
  /\ UNCHANGED <<phase, open, kept, call>>

-------------------------------------------------------------------------------
(* start                                                                   *)

PrepareStart ==
  /\ phase.pc = "new"
  /\ open' = TRUE
  /\ Goto("run")
  /\ UNCHANGED <<box, kept, call>>

Run ==
  /\ phase.pc = "run"
  /\ box' = Fresh("running")
  /\ Goto("await")
  /\ UNCHANGED <<open, kept, call>>

(* A non-zero exit or no identity: the target cleans up and raises.        *)
CleanUp(start) == phase' = [pc |-> "remove", start |-> start, failures |-> {}]

RunExits ==
  /\ "exit" \in Faults
  /\ phase.pc = "run"
  /\ box' \in {NoBox, Fresh("created"), Fresh("running")}
  /\ CleanUp(TRUE)
  /\ UNCHANGED <<open, kept, call>>

(* The command is given up or cannot be run: _run raises out of start.     *)
RunRaises ==
  /\ "timeout" \in Faults
  /\ phase.pc = "run"
  /\ box' \in {NoBox, Fresh("late"), Fresh("running")}
  /\ Goto("failed")
  /\ UNCHANGED <<open, kept, call>>

StartSeesUnhealthy ==
  /\ phase.pc = "await"
  /\ box.health = "unhealthy"
  /\ Goto("started")
  /\ UNCHANGED <<box, open, kept, call>>

(* The deadline passes, or an inspection fails: close, then raise.         *)
StartGivesUp ==
  /\ Faults # {}
  /\ phase.pc = "await"
  /\ CleanUp(TRUE)
  /\ UNCHANGED <<box, open, kept, call>>

-------------------------------------------------------------------------------
(* close                                                                   *)

(* The application is shut down: no request is being served any more.      *)
Shutdown ==
  /\ phase.pc \in {"started", "close_failed"}
  /\ \A t \in Threads : call[t].pc = "idle"
  /\ CleanUp(FALSE)
  /\ UNCHANGED <<box, open, kept, call>>

(* A failure of rm is not looked at: its exit code is ignored, what it     *)
(* raises is remembered only as the cause of another error.                *)
Remove ==
  /\ phase.pc = "remove"
  /\ \/ box' = NoBox /\ Goto("inspect")
     \/ /\ Faults # {}
        /\ box' \in {NoBox, box, Due("rm")}
        /\ phase' = [phase EXCEPT !.pc = "inspect", !.failures = {"rm"}]
  /\ UNCHANGED <<open, kept, call>>

End(pc, failures) ==
  phase' = [phase EXCEPT !.pc = IF phase.start THEN "failed" ELSE pc,
                         !.failures = failures]

\* Faulty: the removal is trusted.
Inspected_unseen ==
  /\ phase.pc = "inspect"
  /\ kept' = FALSE
  /\ open' = FALSE
  /\ End("closed", phase.failures)
  /\ UNCHANGED <<box, call>>

(***************************************************************************)
(* inspect exits with an error: the container is taken to be gone, whether *)
(* the error said so or was one of the engine.  The sandbox is removed,    *)
(* and its modes with it.                                                  *)
(***************************************************************************)
Inspected ==
  /\ phase.pc = "inspect"
  /\ Exists => "exit" \in Faults
  /\ kept' = FALSE
  /\ open' = FALSE
  /\ End("closed", phase.failures \cup (IF Exists THEN {"inspect"} ELSE {}))
  /\ UNCHANGED <<box, call>>

(* Something remains, or inspect raises, which counts as remaining.        *)
RemoveUnproven ==
  /\ phase.pc = "inspect"
  /\ Exists \/ "timeout" \in Faults
  /\ open' = FALSE
  /\ End("close_failed", phase.failures)
  /\ UNCHANGED <<box, kept, call>>

-------------------------------------------------------------------------------
(* restart_and_wait; a snapshot inspects the container, reads the boot     *)
(* count, then asks for the health.                                        *)

(***************************************************************************)
(* What the host reads of the count: the file, its former content when the *)
(* read lags, or 0 when it is missing, empty or cannot be read.            *)
(***************************************************************************)
Counts == {box.file, box.was, 0}

(* A probe that fails or is given up says "starting".                      *)
ProbedHealths == {box.health} \cup (IF Faults = {} THEN {} ELSE {"starting"})

restart_and_wait(t) ==
  /\ phase.pc = "started"
  /\ call[t].pc = "idle"
  /\ Exists
  /\ \E n \in Counts :
       call' = [call EXCEPT ![t].pc = "probe", ![t].before = n]
  /\ UNCHANGED <<phase, box, open, kept>>

FindsUnhealthy(t) ==
  /\ call[t].pc = "probe"
  /\ box.health = "unhealthy"
  /\ call' = [call EXCEPT ![t].pc = "restart"]
  /\ UNCHANGED <<phase, box, open, kept>>

Refuses(t) ==
  /\ call[t].pc = "probe"
  /\ ProbedHealths # {"unhealthy"}
  /\ call' = [call EXCEPT ![t] = Idle]
  /\ UNCHANGED <<phase, box, open, kept>>

Restart(t) ==
  /\ call[t].pc = "restart"
  /\ box' = Restarted
  /\ call' = [call EXCEPT ![t].pc = "await", ![t].healed = box.heals]
  /\ UNCHANGED <<phase, open, kept>>

(***************************************************************************)
(* What may be re-read when the service was seen healthy: the snapshot     *)
(* whose boot count is not a later one than before.                        *)
(***************************************************************************)
IsStale(t) == call[t].pc = "settle" /\ call[t].after <= call[t].before

(* The command fails or is given up, an inspection fails, or the service   *)
(* is not healthy by its deadline: the call raises.                        *)
RestartRaises(t) ==
  /\ Faults # {}
  /\ call[t].pc \in {"restart", "await"} \/ IsStale(t)
  /\ box' \in IF call[t].pc = "restart" THEN {box, Restarted, Due("restart")}
              ELSE {box}
  /\ call' = [call EXCEPT ![t] = Idle]
  /\ UNCHANGED <<phase, open, kept>>

ReadsBoots(t) ==
  /\ call[t].pc = "await" \/ IsStale(t)
  /\ \E n \in Counts :
       call' = [call EXCEPT
                  ![t].pc = IF @ = "await" THEN "confirm" ELSE "recheck",
                  ![t].after = n]
  /\ UNCHANGED <<phase, box, open, kept>>

\* Faulty: the wait ends when the service is no longer unhealthy.
Probes_changed(t) ==
  /\ call[t].pc \in {"confirm", "recheck"}
  /\ \E h \in ProbedHealths :
       call' = [call EXCEPT
                  ![t].pc = IF @ = "recheck" \/ h # "unhealthy"
                            THEN "settle" ELSE "await",
                  ![t].health = h]
  /\ UNCHANGED <<phase, box, open, kept>>

(* The wait is for a healthy service; the snapshots after it are for the   *)
(* boot count only, and their health is not looked at.                     *)
Probes(t) ==
  /\ call[t].pc \in {"confirm", "recheck"}
  /\ \E h \in ProbedHealths :
       call' = [call EXCEPT
                  ![t].pc = IF @ = "recheck" \/ h = "healthy"
                            THEN "settle" ELSE "await",
                  ![t].health = h]
  /\ UNCHANGED <<phase, box, open, kept>>

(***************************************************************************)
(* The last snapshot is what is reported, when its boot count is a later   *)
(* one than before and also when the settling second is over: either may   *)
(* be the case at any time.                                                *)
(***************************************************************************)
Settles(t) ==
  /\ call[t].pc = "settle"
  /\ call' = [call EXCEPT ![t].pc = "done"]
  /\ UNCHANGED <<phase, box, open, kept>>

Returns(t) ==
  /\ call[t].pc = "done"
  /\ call' = [call EXCEPT ![t] = Idle]
  /\ UNCHANGED <<phase, box, open, kept>>

Next ==
  \/ BeginsBoot \/ Boots \/ Appears \/ Belated
  \/ PrepareStart \/ Run \/ RunExits \/ RunRaises
  \/ StartSeesUnhealthy \/ StartGivesUp
  \/ Shutdown \/ Remove \/ Inspected \/ RemoveUnproven
  \/ \E t \in Threads :
       \/ restart_and_wait(t) \/ FindsUnhealthy(t) \/ Refuses(t)
       \/ Restart(t) \/ RestartRaises(t)
       \/ ReadsBoots(t) \/ Probes(t) \/ Settles(t) \/ Returns(t)

Spec == Init /\ [][Next]_vars

-------------------------------------------------------------------------------
(* PROPERTIES                                                              *)

(***************************************************************************)
(* The sandbox is given up only with its container: where a clean-up       *)
(* removed it, access is closed, and no container is left unless both the  *)
(* removal and the inspection after it failed.  A close that raises has    *)
(* kept it for another attempt, and closed it, as has a failed start that  *)
(* cleaned up.                                                             *)
(***************************************************************************)
SandboxOutlivesContainer ==
  /\ kept \/ (~open /\ (box = NoBox \/ phase.failures = {"rm", "inspect"}))
  /\ phase.pc = "closed" => ~kept
  /\ phase.pc = "close_failed" => kept /\ ~open
  /\ phase.pc = "failed" /\ phase.start => ~open

(***************************************************************************)
(* A restart that reports success has recovered the service: since its own *)
(* command was carried out, the service booted and answered 200, however   *)
(* many restarts overlap, come late or interrupt a boot, and whatever boot *)
(* counts were read.                                                       *)
(***************************************************************************)
RestartedMeansRecovered ==
  \A t \in Threads : call[t].pc = "done" => call[t].healed < box.heals

-------------------------------------------------------------------------------
(* EXPECTATIONS of the documents that the code does not meet: README.md    *)
(* says how each one fails; no run checks them.                            *)

(* Clean-up verifies that the container is removed.                        *)
ClosedLeavesNothing == phase.pc = "closed" => box = NoBox

(* What a successful restart reports is a healthy service.                 *)
SuccessIsHealthy ==
  \A t \in Threads : call[t].pc = "done" => call[t].health = "healthy"

(* The boot count that it reports is a later one than before.              *)
SuccessIsLater ==
  \A t \in Threads : call[t].pc = "done" => call[t].before < call[t].after

(* A start that fails takes the access it gave to the container back.      *)
FailedStartClosesAccess == phase.pc = "failed" => ~open

(* Only an unhealthy service is restarted, at the time of the restart.     *)
OnlyUnhealthyIsRestarted ==
  [][\A t \in Threads : call[t].pc = "restart" /\ call'[t].pc = "await" =>
       box.health = "unhealthy"]_vars

===============================================================================
