--------------------------- MODULE ContainerExecutor ---------------------------
(***************************************************************************)
(* Approved actions run in containers that share one disposable sandbox.   *)
(* An execution opens the directories of its action to the container's     *)
(* user, runs the container, removes it and closes the directories again.  *)
(* Requests are served by several threads, so executions overlap; a        *)
(* container may outlive the command that started it.  The model is of a   *)
(* runtime that maps the container's user to another one, which is what    *)
(* the modes are for.                                                      *)
(***************************************************************************)
EXTENDS FiniteSets

CONSTANTS
  Threads,  \* threads that execute approved actions
  Actions,  \* the action identifiers that are used
  Faults    \* subset of {"engine"}: a command of the container engine fails

VARIABLES
  open,    \* the directories with more than owner access, "." is the root
  files,   \* the files in the sandbox that some action deletes or writes
  exec,    \* what each thread is doing, with its local variables
  box      \* the container of each thread

vars == <<open, files, exec, box>>

WritableDirectories ==
  [cleanup_rotated_logs         |-> {"logs"},
   stop_runaway_process         |-> {"processes"},
   restart_disposable_service   |-> {"services"},
   stop_memory_hog              |-> {"memory"},
   cleanup_log_storm_temp_files |-> {"logs", "logs/storm", "tmp"}]

ASSUME ExecutorAssumption == Actions \subseteq DOMAIN WritableDirectories

(***************************************************************************)
(* What an action deletes, each file with its directory: by the executor   *)
(* that works on the file system itself, and by the script in a container. *)
(***************************************************************************)
File(dir, name) == [dir |-> dir, name |-> name]

HostDeletes ==
  [cleanup_rotated_logs         |-> {File("logs", "1.rotated"), File("logs", "1.gz")},
   stop_runaway_process         |-> {File("processes", "runaway_cpu.marker")},
   restart_disposable_service   |-> {File("services", "restart_loop.marker")},
   stop_memory_hog              |-> {File("memory", "memory_hog.marker")},
   cleanup_log_storm_temp_files |-> {File("logs/storm", "1.storm"), File("tmp", "1.tmp")}]

ScriptDeletes ==
  [cleanup_rotated_logs         |-> {File("logs", "1.rotated"), File("logs", "1.gz")},
   stop_runaway_process         |-> {File("processes", "runaway_cpu.marker")},
   restart_disposable_service   |-> {File("services", "restart_loop.marker")},
   stop_memory_hog              |-> {File("memory", "memory_hog.marker")},
   cleanup_log_storm_temp_files |-> {File("logs/storm", "1.storm"), File("tmp", "1.tmp")}]

Writes(action) ==
  IF action = "restart_disposable_service"
  THEN {File("services", "healthy.marker")} ELSE {}

Result(action, before) == (before \ HostDeletes[action]) \cup Writes(action)

Directories == UNION {WritableDirectories[a] : a \in DOMAIN WritableDirectories}
Litter == UNION {HostDeletes[a] : a \in Actions}

Outcomes == {"none", "completed", "exit_nonzero", "timeout", "runtime_error"}

Idle == [pc |-> "idle", action |-> {}, todo |-> {}, outcome |-> "none"]
NoBox == [state |-> "none", todo |-> {}, made |-> {}]

TypeOK ==
  /\ open \in SUBSET (Directories \cup {"."})
  /\ \A f \in files : f.dir \in Directories
  /\ exec \in [Threads ->
       [pc : {"idle", "prepare", "launch", "wait", "remove", "restore", "return"},
        action : SUBSET Actions, todo : SUBSET Directories, outcome : Outcomes]]
  /\ \A t \in Threads : box[t].state \in {"none", "running", "ended", "failed"}

Init ==
  /\ open = {}
  /\ files = Litter
  /\ exec = [t \in Threads |-> Idle]
  /\ box = [t \in Threads |-> NoBox]

At(t, pc) == exec[t].pc = pc

(* Reaching a directory takes every directory on its path.                 *)
Path(dir) == {".", dir} \cup (IF dir = "logs/storm" THEN {"logs"} ELSE {})
Reachable(dir) == Path(dir) \subseteq open

-------------------------------------------------------------------------------

(* Bound: a thread whose container still runs starts no other execution.   *)
execute(t, a) ==
  /\ At(t, "idle")
  /\ box[t].state # "running"
  /\ exec' = [exec EXCEPT ![t] = [pc |-> "prepare", action |-> {a},
                 todo |-> WritableDirectories[a], outcome |-> "none"]]
  /\ open' = open \cup {"."}
  /\ UNCHANGED <<files, box>>

OpenDirectory(t, dir) ==
  /\ At(t, "prepare")
  /\ dir \in exec[t].todo
  /\ open' = open \cup {dir}
  /\ exec' = [exec EXCEPT ![t].todo = @ \ {dir},
                          ![t].pc = IF exec[t].todo = {dir} THEN "launch" ELSE @]
  /\ UNCHANGED <<files, box>>

Finish(t, outcome) ==
  exec' = [exec EXCEPT ![t].pc = "remove", ![t].outcome = outcome]

Launch(t) ==
  /\ At(t, "launch")
  /\ exec' = [exec EXCEPT ![t].pc = "wait"]
  /\ \E a \in exec[t].action :
       box' = [box EXCEPT ![t] = [state |-> "running", todo |-> ScriptDeletes[a],
                                  made |-> Writes(a)]]
  /\ UNCHANGED <<open, files>>

LaunchFails(t) ==
  /\ "engine" \in Faults
  /\ At(t, "launch")
  /\ Finish(t, "runtime_error")
  /\ UNCHANGED <<open, files, box>>

(* The script in the container, one file at a time, first the deletions.   *)
BoxDeletes(t, f) ==
  /\ box[t].state = "running"
  /\ f \in box[t].todo
  /\ Reachable(f.dir)
  /\ files' = files \ {f}
  /\ box' = [box EXCEPT ![t].todo = @ \ {f}]
  /\ UNCHANGED <<open, exec>>

BoxWrites(t) ==
  /\ box[t].state = "running"
  /\ box[t].todo = {}
  /\ \A f \in box[t].made : Reachable(f.dir)
  /\ files' = files \cup box[t].made
  /\ box' = [box EXCEPT ![t].state = "ended", ![t].made = {}]
  /\ UNCHANGED <<open, exec>>

(* PermissionError, which the path methods of Python 3.12 do not swallow.  *)
BoxIsDenied(t) ==
  /\ box[t].state = "running"
  /\ \E f \in box[t].todo \cup box[t].made : ~Reachable(f.dir)
  /\ box' = [box EXCEPT ![t].state = "failed"]
  /\ UNCHANGED <<open, files, exec>>

\* Faulty: the exit code is not looked at.
Exits_unread(t) ==
  /\ At(t, "wait")
  /\ box[t].state \in {"ended", "failed"}
  /\ Finish(t, "completed")
  /\ UNCHANGED <<open, files, box>>

Exits(t) ==
  /\ At(t, "wait")
  /\ box[t].state \in {"ended", "failed"}
  /\ Finish(t, IF box[t].state = "ended" THEN "completed" ELSE "exit_nonzero")
  /\ UNCHANGED <<open, files, box>>

\* Faulty: a timeout returns at once.
TimesOut_returning(t) ==
  /\ At(t, "wait")
  /\ box[t].state = "running"
  /\ exec' = [exec EXCEPT ![t].pc = "return", ![t].outcome = "timeout"]
  /\ UNCHANGED <<open, files, box>>

(* The command is given up; the container runs on.                         *)
TimesOut(t) ==
  /\ At(t, "wait")
  /\ box[t].state = "running"
  /\ Finish(t, "timeout")
  /\ UNCHANGED <<open, files, box>>

Restoring(t) ==
  \E a \in exec[t].action :
    exec' = [exec EXCEPT ![t].pc = "restore", ![t].todo = WritableDirectories[a]]

RemoveBox(t) ==
  /\ At(t, "remove")
  /\ box' = [box EXCEPT ![t] = NoBox]
  /\ Restoring(t)
  /\ UNCHANGED <<open, files>>

(* rm -f times out or cannot be run: the handler goes on.                  *)
RemoveFails(t) ==
  /\ "engine" \in Faults
  /\ At(t, "remove")
  /\ Restoring(t)
  /\ UNCHANGED <<open, files, box>>

CloseDirectory(t, dir) ==
  /\ At(t, "restore")
  /\ dir \in exec[t].todo
  /\ dir = "logs" => "logs/storm" \notin exec[t].todo
  /\ open' = open \ {dir}
  /\ exec' = [exec EXCEPT ![t].todo = @ \ {dir}]
  /\ UNCHANGED <<files, box>>

CloseRoot(t) ==
  /\ At(t, "restore")
  /\ exec[t].todo = {}
  /\ open' = open \ {"."}
  /\ exec' = [exec EXCEPT ![t].pc = "return"]
  /\ UNCHANGED <<files, box>>

Return(t) ==
  /\ At(t, "return")
  /\ exec' = [exec EXCEPT ![t] = Idle]
  /\ UNCHANGED <<open, files, box>>

Next ==
  \E t \in Threads :
    \/ \E a \in Actions : execute(t, a)
    \/ \E dir \in Directories : OpenDirectory(t, dir) \/ CloseDirectory(t, dir)
    \/ Launch(t) \/ LaunchFails(t)
    \/ \E f \in Litter : BoxDeletes(t, f)
    \/ BoxWrites(t) \/ BoxIsDenied(t)
    \/ Exits(t) \/ TimesOut(t)
    \/ RemoveBox(t) \/ RemoveFails(t) \/ CloseRoot(t) \/ Return(t)

Spec == Init /\ [][Next]_vars

-------------------------------------------------------------------------------
(* PROPERTIES                                                              *)

(***************************************************************************)
(* However executions overlap and whatever the engine does, a directory is *)
(* open only on behalf of an execution under way that writes to it: after  *)
(* every success, failure or timeout the sandbox is the owner's again,     *)
(* unless another execution needs it open.                                 *)
(***************************************************************************)
AccessFollowsExecutions ==
  LET active == {t \in Threads : exec[t].pc \notin {"idle", "return"}}
      needed == UNION {WritableDirectories[a] : a \in UNION {exec[t].action : t \in active}}
  IN  /\ open \ {"."} \subseteq needed
      /\ "." \in open => active # {}

(***************************************************************************)
(* A completed execution did what the executor on the host would have      *)
(* done, also when another one took its access away in between.            *)
(***************************************************************************)
CompletedMeansDone ==
  \A t \in Threads : exec[t].outcome = "completed" =>
    \A a \in exec[t].action : files = Result(a, files)

(***************************************************************************)
(* A container that could not be removed is locked out: the sandbox only   *)
(* changes while some execution has opened it.                             *)
(***************************************************************************)
WritesNeedAnExecution ==
  [][files' # files => \E t \in Threads : exec[t].pc \notin {"idle", "return"}]_vars

-------------------------------------------------------------------------------
(* EXPECTATIONS of the documents that the code does not meet: README.md    *)
(* says how each one fails; no run checks them.                            *)

(***************************************************************************)
(* A container has access to the directories of its own action and no      *)
(* others.                                                                 *)
(***************************************************************************)
OnlyActionDirectories ==
  \A t \in Threads : box[t].state = "running" =>
    \A a \in exec[t].action : At(t, "wait") =>
      {dir \in Directories : Reachable(dir)} \subseteq WritableDirectories[a]

===============================================================================
