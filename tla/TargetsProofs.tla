------------------------------ MODULE TargetsProofs ------------------------------
(***************************************************************************)
(* Proofs about the two targets of approved actions, for every set of      *)
(* threads and actions, every bound on the boots and every set of faults.  *)
(***************************************************************************)
EXTENDS MCTargets, Integers, TLAPS

-------------------------------------------------------------------------------
(* THE SANDBOX                                                             *)

Healthy == File("services", "healthy.marker")

Active(t) == exec[t].pc \notin {"idle", "return"}

ExecTypeOK ==
  exec \in [Threads ->
    [pc : {"idle", "prepare", "launch", "wait", "remove", "restore", "return"},
     action : SUBSET Actions, todo : SUBSET Directories, outcome : Outcomes]]

(* The marker of a healthy service is all that a script writes, and is on  *)
(* no list of deletions.                                                   *)
BoxTypeOK ==
  box \in [Threads -> [state : {"none", "running", "ended", "failed"},
                       todo : SUBSET Litter, made : SUBSET {Healthy}]]

FilesTypeOK == open \subseteq Directories \cup {"."} /\ files \subseteq Litter \cup {Healthy}

(* A thread that is not idle executes one action.                          *)
OneAction ==
  \A t \in Threads : exec[t].pc # "idle" => \E a \in Actions : exec[t].action = {a}

WorksOnOwnDirectories ==
  \A t \in Threads : \A a \in exec[t].action : exec[t].todo \subseteq WritableDirectories[a]

(* The execution that will close the directory again.                      *)
Holds(t, dir) ==
  /\ Active(t)
  /\ \E a \in exec[t].action : dir \in WritableDirectories[a]
  /\ exec[t].pc = "restore" => dir \in exec[t].todo

OpenIsHeld ==
  /\ \A dir \in open \ {"."} : \E t \in Threads : Holds(t, dir)
  /\ "." \in open => \E t \in Threads : Active(t)

(* What has become of the files of an action when it is done.              *)
Done(a) == files \cap HostDeletes[a] = {} /\ Writes(a) \subseteq files

(* How far the container of a thread that waits for it has come.           *)
BoxProgress ==
  \A t \in Threads : exec[t].pc = "wait" => \A a \in exec[t].action :
    /\ files \cap (HostDeletes[a] \ box[t].todo) = {}
    /\ box[t].state = "running" => box[t].made = Writes(a)
    /\ box[t].state = "ended" => box[t].todo = {} /\ Writes(a) \subseteq files

CompletedIsDone ==
  \A t \in Threads : exec[t].outcome = "completed" => \A a \in exec[t].action : Done(a)

SandboxInv ==
  /\ ExecTypeOK /\ BoxTypeOK /\ FilesTypeOK
  /\ OneAction /\ WorksOnOwnDirectories /\ OpenIsHeld
  /\ BoxProgress /\ CompletedIsDone

(***************************************************************************)
(* The tables: both ways to execute an action delete the same files, none  *)
(* of them the marker that a restart writes, and no action opens the root. *)
(***************************************************************************)
LEMMA Tables ==
  ASSUME NEW a \in Actions
  PROVE  /\ ScriptDeletes[a] = HostDeletes[a]
         /\ HostDeletes[a] \subseteq Litter
         /\ Healthy \notin HostDeletes[a]
         /\ Writes(a) \subseteq {Healthy}
         /\ WritableDirectories[a] \subseteq Directories
<1>1. a \in DOMAIN WritableDirectories
  BY ExecutorAssumption
<1>2. a \in {"cleanup_rotated_logs", "stop_runaway_process", "restart_disposable_service",
              "stop_memory_hog", "cleanup_log_storm_temp_files"}
  BY <1>1 DEF WritableDirectories
<1>3. ScriptDeletes[a] = HostDeletes[a]
  BY <1>2 DEF ScriptDeletes, HostDeletes
<1>4. Healthy \notin HostDeletes[a]
  BY <1>2 DEF HostDeletes, Healthy, File
<1>5. Writes(a) \subseteq {Healthy}
  BY DEF Writes, Healthy
<1>6. WritableDirectories[a] \subseteq Directories
  BY <1>1 DEF Directories
<1>7. HostDeletes[a] \subseteq Litter
  BY DEF Litter
<1>8. QED
  BY <1>3, <1>4, <1>5, <1>6, <1>7

(* The root is no directory of an action; what is deleted and written lies *)
(* in one that is.                                                         *)
LEMMA DirectoriesAre ==
  /\ "." \notin Directories
  /\ \A f \in Litter \cup {Healthy} : f.dir \in Directories
<1>1. Directories = {"logs", "processes", "services", "memory", "logs/storm", "tmp"}
  BY DEF Directories, WritableDirectories
<1>2. \A a \in Actions : \A f \in HostDeletes[a] : f.dir \in Directories
  <2>1. SUFFICES ASSUME NEW a \in Actions, NEW f \in HostDeletes[a]
                 PROVE  f.dir \in Directories
    OBVIOUS
  <2>2. a \in {"cleanup_rotated_logs", "stop_runaway_process", "restart_disposable_service",
                "stop_memory_hog", "cleanup_log_storm_temp_files"}
    BY ExecutorAssumption DEF WritableDirectories
  <2>3. QED
    BY <2>2, <1>1 DEF HostDeletes, File
<1>3. Healthy.dir \in Directories
  BY <1>1 DEF Healthy, File
<1>4. QED
  BY <1>1, <1>2, <1>3 DEF Litter

LEMMA SandboxInit == Init => SandboxInv
<1> SUFFICES ASSUME Init PROVE SandboxInv
  OBVIOUS
<1>1. ExecTypeOK /\ BoxTypeOK /\ FilesTypeOK
  BY DEF Init, ExecTypeOK, BoxTypeOK, FilesTypeOK, Idle, NoBox, Outcomes
<1>2. OneAction /\ WorksOnOwnDirectories /\ OpenIsHeld /\ BoxProgress /\ CompletedIsDone
  BY DEF Init, Idle, OneAction, WorksOnOwnDirectories, OpenIsHeld, BoxProgress, CompletedIsDone
<1> QED
  BY <1>1, <1>2 DEF SandboxInv

(* One thread, or its container, takes a step.                             *)
ThreadStep(t) ==
  \/ \E a \in Actions : execute(t, a)
  \/ \E dir \in Directories : OpenDirectory(t, dir) \/ CloseDirectory(t, dir)
  \/ Launch(t) \/ LaunchFails(t)
  \/ \E f \in Litter : BoxDeletes(t, f)
  \/ BoxWrites(t) \/ BoxIsDenied(t)
  \/ Exits(t) \/ TimesOut(t)
  \/ RemoveBox(t) \/ RemoveFails(t) \/ CloseRoot(t) \/ Return(t)

ExecRecords ==
  [pc : {"idle", "prepare", "launch", "wait", "remove", "restore", "return"},
   action : SUBSET Actions, todo : SUBSET Directories, outcome : Outcomes]

(* A thread executes one action, and works on its directories.             *)
Sound(r) ==
  /\ r \in ExecRecords
  /\ r.pc # "idle" => \E a \in Actions : r.action = {a}
  /\ \A a \in r.action : r.todo \subseteq WritableDirectories[a]

LEMMA ExecUpdate ==
  ASSUME SandboxInv, NEW t \in Threads, NEW r, Sound(r), exec' = [exec EXCEPT ![t] = r]
  PROVE  (ExecTypeOK /\ OneAction /\ WorksOnOwnDirectories)'
<1>1. exec \in [Threads -> ExecRecords] /\ \A u \in Threads : Sound(exec[u])
  BY DEF SandboxInv, ExecTypeOK, OneAction, WorksOnOwnDirectories, ExecRecords, Sound
<1>2. \A u \in Threads : exec'[u] = IF u = t THEN r ELSE exec[u]
  BY <1>1
<1>3. exec' \in [Threads -> ExecRecords]
  BY <1>1 DEF Sound
<1>4. \A u \in Threads : Sound(exec'[u])
  BY <1>1, <1>2
<1>5. QED
  BY <1>3, <1>4 DEF ExecTypeOK, OneAction, WorksOnOwnDirectories, ExecRecords, Sound

(* What the executor's own steps do to the record of their thread.         *)
LEMMA ExecStep ==
  ASSUME SandboxInv, NEW t \in Threads, ThreadStep(t)
  PROVE  \/ UNCHANGED exec
         \/ \E r : Sound(r) /\ exec' = [exec EXCEPT ![t] = r]
<1> DEFINE now == exec[t]
<1>0. /\ exec \in [Threads -> ExecRecords] /\ now \in ExecRecords /\ Sound(now)
      /\ now.pc # "idle" => \E a \in Actions : now.action = {a}
  BY DEF SandboxInv, ExecTypeOK, OneAction, WorksOnOwnDirectories, ExecRecords, Sound
<1>1. CASE \E a \in Actions : execute(t, a)
  <2>1. PICK a \in Actions : execute(t, a)
    BY <1>1
  <2> DEFINE r == [pc |-> "prepare", action |-> {a}, todo |-> WritableDirectories[a],
                   outcome |-> "none"]
  <2>2. Sound(r)
    BY Tables DEF Sound, ExecRecords, Outcomes
  <2>3. QED
    BY <2>1, <2>2 DEF execute
<1>2. CASE \E dir \in Directories : OpenDirectory(t, dir) \/ CloseDirectory(t, dir)
  <2>1. PICK dir \in Directories : OpenDirectory(t, dir) \/ CloseDirectory(t, dir)
    BY <1>2
  <2>2. PICK pc \in {"prepare", "launch", "restore"} :
          now.pc # "idle" /\ exec' = [exec EXCEPT ![t] = [now EXCEPT !.todo = @ \ {dir}, !.pc = pc]]
    <3>1. CASE OpenDirectory(t, dir)
      BY <3>1, <1>0 DEF OpenDirectory, At, ExecRecords
    <3>2. CASE CloseDirectory(t, dir)
      <4>1. [now EXCEPT !.todo = @ \ {dir}, !.pc = "restore"] = [now EXCEPT !.todo = @ \ {dir}]
        BY <3>2, <1>0 DEF CloseDirectory, At, ExecRecords
      <4>2. exec' = [exec EXCEPT ![t] = [now EXCEPT !.todo = @ \ {dir}]]
        BY <3>2 DEF CloseDirectory
      <4>3. now.pc = "restore"
        BY <3>2 DEF CloseDirectory, At
      <4>4. QED
        BY <4>1, <4>2, <4>3
    <3>3. QED
      BY <2>1, <3>1, <3>2
  <2>3. Sound([now EXCEPT !.todo = @ \ {dir}, !.pc = pc])
    BY <1>0, <2>2 DEF Sound, ExecRecords
  <2>4. QED
    BY <2>2, <2>3
<1>3. CASE Launch(t) \/ CloseRoot(t)
  <2>1. now.pc # "idle" /\ \E pc \in {"wait", "return"} : exec' = [exec EXCEPT ![t] = [now EXCEPT !.pc = pc]]
    BY <1>3 DEF Launch, CloseRoot, At
  <2>2. \A pc \in {"wait", "return"} : now.pc # "idle" => Sound([now EXCEPT !.pc = pc])
    BY <1>0 DEF Sound, ExecRecords
  <2>3. QED
    BY <2>1, <2>2
<1>4. CASE LaunchFails(t) \/ Exits(t) \/ TimesOut(t)
  <2>1. /\ now.pc # "idle"
        /\ \E out \in Outcomes :
             exec' = [exec EXCEPT ![t] = [now EXCEPT !.pc = "remove", !.outcome = out]]
    BY <1>4 DEF LaunchFails, Exits, TimesOut, Finish, At, Outcomes
  <2>2. \A out \in Outcomes :
          now.pc # "idle" => Sound([now EXCEPT !.pc = "remove", !.outcome = out])
    BY <1>0 DEF Sound, ExecRecords
  <2>3. QED
    BY <2>1, <2>2
<1>5. CASE RemoveBox(t) \/ RemoveFails(t)
  <2>1. PICK a \in Actions : now.action = {a}
    BY <1>0, <1>5 DEF RemoveBox, RemoveFails, At
  <2> DEFINE r == [now EXCEPT !.pc = "restore", !.todo = WritableDirectories[a]]
  <2>2. exec' = [exec EXCEPT ![t] = r]
    BY <1>5, <2>1 DEF RemoveBox, RemoveFails, Restoring
  <2>3. Sound(r)
    BY <1>0, <2>1, Tables DEF Sound, ExecRecords
  <2>4. QED
    BY <2>2, <2>3
<1>6. CASE Return(t)
  <2>1. Sound(Idle)
    BY DEF Sound, ExecRecords, Idle, Outcomes
  <2>2. QED
    BY <1>6, <2>1 DEF Return
<1>7. CASE UNCHANGED exec
  BY <1>7
<1> QED
  BY <1>1, <1>2, <1>3, <1>4, <1>5, <1>6, <1>7
  DEF ThreadStep, BoxDeletes, BoxWrites, BoxIsDenied

LEMMA ExecKept ==
  ASSUME SandboxInv, NEW t \in Threads, ThreadStep(t)
  PROVE  /\ (ExecTypeOK /\ OneAction /\ WorksOnOwnDirectories)'
         /\ \A u \in Threads \ {t} : exec'[u] = exec[u]
<1>1. CASE UNCHANGED exec
  BY <1>1 DEF SandboxInv, ExecTypeOK, OneAction, WorksOnOwnDirectories
<1>2. ASSUME NEW r, Sound(r), exec' = [exec EXCEPT ![t] = r]
      PROVE  (ExecTypeOK /\ OneAction /\ WorksOnOwnDirectories)'
  BY <1>2, ExecUpdate
<1>3. ASSUME NEW r, exec' = [exec EXCEPT ![t] = r]
      PROVE  \A u \in Threads \ {t} : exec'[u] = exec[u]
  BY <1>3 DEF SandboxInv, ExecTypeOK
<1> QED
  BY <1>1, <1>2, <1>3, ExecStep

LEMMA BoxKept ==
  ASSUME SandboxInv, NEW t \in Threads, ThreadStep(t)
  PROVE  (BoxTypeOK /\ FilesTypeOK)'
<1> USE DEF SandboxInv, BoxTypeOK, FilesTypeOK
<1>1. CASE \E a \in Actions : execute(t, a)
  BY <1>1 DEF execute
<1>2. CASE \E dir \in Directories : OpenDirectory(t, dir) \/ CloseDirectory(t, dir)
  BY <1>2 DEF OpenDirectory, CloseDirectory
<1>3. CASE Launch(t)
  <2>1. PICK a \in Actions :
          box' = [box EXCEPT ![t] = [state |-> "running", todo |-> ScriptDeletes[a],
                                     made |-> Writes(a)]]
    BY <1>3 DEF Launch, ExecTypeOK
  <2>2. QED
    BY <1>3, <2>1, Tables DEF Launch
<1>4. CASE \E f \in Litter : BoxDeletes(t, f)
  BY <1>4 DEF BoxDeletes
<1>5. CASE BoxWrites(t)
  BY <1>5 DEF BoxWrites
<1>6. CASE BoxIsDenied(t)
  BY <1>6 DEF BoxIsDenied
<1>7. CASE RemoveBox(t)
  BY <1>7 DEF RemoveBox, NoBox
<1>8. CASE CloseRoot(t)
  BY <1>8 DEF CloseRoot
<1>9. CASE UNCHANGED <<open, files, box>>
  BY <1>9
<1> QED
  BY <1>1, <1>2, <1>3, <1>4, <1>5, <1>6, <1>7, <1>8, <1>9
  DEF ThreadStep, LaunchFails, Exits, TimesOut, RemoveFails, Return

(***************************************************************************)
(* Whoever holds a directory holds it until it closes it, and nobody       *)
(* closes what was opened for another one without the other one having a   *)
(* step to close it left.                                                  *)
(***************************************************************************)
LEMMA OthersHold ==
  ASSUME SandboxInv, NEW t \in Threads, NEW u \in Threads \ {t}, NEW dir, Holds(u, dir),
         exec'[u] = exec[u]
  PROVE  Holds(u, dir)'
  BY DEF Holds, Active

(* The directories that thread t holds and does not close in this step.    *)
LEMMA OwnHold ==
  ASSUME SandboxInv, NEW t \in Threads, ThreadStep(t),
         NEW dir \in open \ {"."}, dir \in open', Holds(t, dir)
  PROVE  Holds(t, dir)'
<1> DEFINE now == exec[t]
<1>0. /\ exec \in [Threads -> ExecRecords] /\ now \in ExecRecords
      /\ now.pc \notin {"idle", "return"}
      /\ \E a \in now.action : dir \in WritableDirectories[a]
      /\ now.pc = "restore" => dir \in now.todo
  BY DEF SandboxInv, ExecTypeOK, ExecRecords, Holds, Active
<1>1. SUFFICES /\ exec'[t].pc \notin {"idle", "return"}
               /\ exec'[t].action = now.action
               /\ exec'[t].pc = "restore" => dir \in exec'[t].todo
  BY <1>0 DEF Holds, Active
<1>2. CASE \E d \in Directories : OpenDirectory(t, d)
  BY <1>0, <1>2 DEF OpenDirectory, At, ExecRecords
<1>3. CASE \E d \in Directories : CloseDirectory(t, d)
  <2>1. PICK d \in Directories : CloseDirectory(t, d)
    BY <1>3
  <2>2. exec' = [exec EXCEPT ![t] = [now EXCEPT !.todo = @ \ {d}]] /\ d # dir
    BY <2>1 DEF CloseDirectory
  <2>3. QED
    BY <1>0, <2>2 DEF ExecRecords
<1>4. CASE Launch(t) \/ LaunchFails(t) \/ Exits(t) \/ TimesOut(t)
  BY <1>0, <1>4 DEF Launch, LaunchFails, Exits, TimesOut, Finish, At, ExecRecords
<1>5. CASE RemoveBox(t) \/ RemoveFails(t)
  <2>1. PICK a \in Actions : now.action = {a}
    BY <1>0, <1>5 DEF RemoveBox, RemoveFails, At, SandboxInv, OneAction
  <2>2. exec' = [exec EXCEPT ![t] = [now EXCEPT !.pc = "restore", !.todo = WritableDirectories[a]]]
    BY <1>5, <2>1 DEF RemoveBox, RemoveFails, Restoring
  <2>3. dir \in WritableDirectories[a]
    BY <1>0, <2>1
  <2>4. QED
    BY <1>0, <2>2, <2>3 DEF ExecRecords
<1>6. CASE UNCHANGED exec
  BY <1>0, <1>6
<1>7. ~(\E a \in Actions : execute(t, a)) /\ ~CloseRoot(t) /\ ~Return(t)
  BY <1>0 DEF execute, CloseRoot, Return, At
<1> QED
  BY <1>2, <1>3, <1>4, <1>5, <1>6, <1>7
  DEF ThreadStep, BoxDeletes, BoxWrites, BoxIsDenied

LEMMA OpenKept ==
  ASSUME SandboxInv, NEW t \in Threads, ThreadStep(t)
  PROVE  OpenIsHeld'
<1>1. ASSUME NEW dir \in open' \ {"."}
      PROVE  \E u \in Threads : Holds(u, dir)'
  <2>1. CASE dir \in open
    <3>1. PICK u \in Threads : Holds(u, dir)
      BY <1>1, <2>1 DEF SandboxInv, OpenIsHeld
    <3>2. CASE u = t
      BY <1>1, <2>1, <3>1, <3>2, OwnHold
    <3>3. CASE u # t
      BY <3>1, <3>3, ExecKept, OthersHold
    <3>4. QED
      BY <3>2, <3>3
  <2>2. CASE dir \notin open
    <3>1. OpenDirectory(t, dir)
      BY <1>1, <2>2
      DEF ThreadStep, execute, OpenDirectory, CloseDirectory, Launch, LaunchFails, BoxDeletes,
          BoxWrites, BoxIsDenied, Exits, TimesOut, RemoveBox, RemoveFails, CloseRoot, Return
    <3>2. exec[t].pc = "prepare" /\ dir \in exec[t].todo
      BY <3>1 DEF OpenDirectory, At
    <3>3. \E a \in exec[t].action : dir \in WritableDirectories[a]
      BY <3>2 DEF SandboxInv, OneAction, WorksOnOwnDirectories
    <3>4. exec'[t].pc \in {"prepare", "launch"} /\ exec'[t].action = exec[t].action
      BY <3>1, <3>2 DEF OpenDirectory, SandboxInv, ExecTypeOK
    <3>5. Holds(t, dir)'
      BY <3>3, <3>4 DEF Holds, Active
    <3>6. QED
      BY <3>5
  <2>3. QED
    BY <2>1, <2>2
<1>2. ASSUME "." \in open'
      PROVE  \E u \in Threads : Active(u)'
  <2>1. CASE \E a \in Actions : execute(t, a)
    BY <2>1 DEF execute, Active, SandboxInv, ExecTypeOK
  <2>2. CASE ~ \E a \in Actions : execute(t, a)
    <3>1. "." \in open /\ ~CloseRoot(t)
      BY <1>2, <2>2, DirectoriesAre
      DEF ThreadStep, execute, OpenDirectory, CloseDirectory, Launch, LaunchFails, BoxDeletes,
          BoxWrites, BoxIsDenied, Exits, TimesOut, RemoveBox, RemoveFails, CloseRoot, Return
    <3>2. PICK u \in Threads : Active(u)
      BY <3>1 DEF SandboxInv, OpenIsHeld
    <3>3. CASE u # t
      BY <3>2, <3>3, ExecKept DEF Active
    <3>4. ASSUME u = t PROVE Active(t)'
      <4>1. exec[t].pc \notin {"idle", "return"} /\ exec \in [Threads -> ExecRecords]
        BY <3>2, <3>4 DEF Active, SandboxInv, ExecTypeOK, ExecRecords
      <4>2. CASE \E dir \in Directories : OpenDirectory(t, dir) \/ CloseDirectory(t, dir)
        BY <4>1, <4>2 DEF OpenDirectory, CloseDirectory, At, Active, ExecRecords
      <4>3. CASE Launch(t) \/ LaunchFails(t) \/ Exits(t) \/ TimesOut(t)
        BY <4>1, <4>3 DEF Launch, LaunchFails, Exits, TimesOut, Finish, Active, ExecRecords
      <4>4. CASE RemoveBox(t) \/ RemoveFails(t)
        BY <4>1, <4>4 DEF RemoveBox, RemoveFails, Restoring, Active, ExecRecords
      <4>5. CASE UNCHANGED exec
        BY <4>1, <4>5 DEF Active
      <4>6. QED
        BY <2>2, <3>1, <4>1, <4>2, <4>3, <4>4, <4>5
        DEF ThreadStep, BoxDeletes, BoxWrites, BoxIsDenied, Return, At
    <3>5. QED
      BY <3>3, <3>4
  <2>3. QED
    BY <2>1, <2>2
<1> QED
  BY <1>1, <1>2 DEF OpenIsHeld

(***************************************************************************)
(* What was deleted does not come back, and what a restart wrote stays.    *)
(***************************************************************************)
LEMMA FilesStay ==
  ASSUME SandboxInv, NEW t \in Threads, ThreadStep(t), NEW a \in Actions
  PROVE  /\ files' \cap HostDeletes[a] \subseteq files
         /\ files \cap Writes(a) \subseteq files'
<1>0. box[t].made \subseteq {Healthy} /\ Healthy \notin Litter
  BY Tables DEF SandboxInv, BoxTypeOK, Litter
<1>1. CASE \E f \in Litter : BoxDeletes(t, f)
  BY <1>0, <1>1, Tables DEF BoxDeletes
<1>2. CASE BoxWrites(t)
  BY <1>0, <1>2, Tables DEF BoxWrites
<1>3. CASE UNCHANGED files
  BY <1>3
<1>4. QED
  BY <1>1, <1>2, <1>3
  DEF ThreadStep, execute, OpenDirectory, CloseDirectory, Launch, LaunchFails, BoxIsDenied,
      Exits, TimesOut, RemoveBox, RemoveFails, CloseRoot, Return

LEMMA BoxesOfOthers ==
  ASSUME SandboxInv, NEW t \in Threads, ThreadStep(t)
  PROVE  \A u \in Threads \ {t} : box'[u] = box[u]
<1>1. CASE Launch(t)
  BY <1>1 DEF Launch, SandboxInv, BoxTypeOK
<1>2. QED
  BY <1>1
  DEF SandboxInv, BoxTypeOK, ThreadStep, execute, OpenDirectory, CloseDirectory, LaunchFails,
      BoxDeletes, BoxWrites, BoxIsDenied, Exits, TimesOut, RemoveBox, RemoveFails, CloseRoot, Return

(* A thread that waits after the step has just launched its container, or  *)
(* it was the container that took the step.                                *)
LEMMA WaitSteps ==
  ASSUME SandboxInv, NEW t \in Threads, ThreadStep(t), exec'[t].pc = "wait"
  PROVE  Launch(t) \/ (\E f \in Litter : BoxDeletes(t, f)) \/ BoxWrites(t) \/ BoxIsDenied(t)
<1>0. exec \in [Threads -> ExecRecords] /\ exec[t] \in ExecRecords
  BY DEF SandboxInv, ExecTypeOK, ExecRecords
<1>1. ~ \E a \in Actions : execute(t, a)
  BY <1>0 DEF execute
<1>2. ~ \E dir \in Directories : OpenDirectory(t, dir)
  BY <1>0 DEF OpenDirectory, At, ExecRecords
<1>3. ~ \E dir \in Directories : CloseDirectory(t, dir)
  BY <1>0 DEF CloseDirectory, At, ExecRecords
<1>4. ~LaunchFails(t) /\ ~Exits(t) /\ ~TimesOut(t)
  BY <1>0 DEF LaunchFails, Exits, TimesOut, Finish, ExecRecords
<1>5. ~RemoveBox(t) /\ ~RemoveFails(t)
  BY <1>0 DEF RemoveBox, RemoveFails, Restoring, ExecRecords
<1>6. ~CloseRoot(t) /\ ~Return(t)
  BY <1>0 DEF CloseRoot, Return, Idle, ExecRecords
<1>7. QED
  BY <1>1, <1>2, <1>3, <1>4, <1>5, <1>6 DEF ThreadStep

(* How far the container of t is, when t waits for it after the step.      *)
LEMMA OwnProgress ==
  ASSUME SandboxInv, NEW t \in Threads, ThreadStep(t), exec'[t].pc = "wait",
         NEW a \in exec'[t].action
  PROVE  /\ files' \cap (HostDeletes[a] \ box'[t].todo) = {}
         /\ box'[t].state = "running" => box'[t].made = Writes(a)
         /\ box'[t].state = "ended" => box'[t].todo = {} /\ Writes(a) \subseteq files'
<1>0. /\ exec \in [Threads -> ExecRecords] /\ exec[t] \in ExecRecords
      /\ box \in [Threads -> [state : {"none", "running", "ended", "failed"},
                              todo : SUBSET Litter, made : SUBSET {Healthy}]]
  BY DEF SandboxInv, ExecTypeOK, ExecRecords, BoxTypeOK
<1>1. CASE Launch(t)
  <2>1. PICK b \in exec[t].action :
          box' = [box EXCEPT ![t] = [state |-> "running", todo |-> ScriptDeletes[b],
                                     made |-> Writes(b)]]
    BY <1>1 DEF Launch
  <2>2. exec'[t].action = exec[t].action /\ exec[t].pc = "launch"
    BY <1>0, <1>1 DEF Launch, At
  <2>3. a = b /\ b \in Actions
    BY <1>0, <2>1, <2>2 DEF SandboxInv, OneAction, ExecRecords
  <2>4. box'[t] = [state |-> "running", todo |-> HostDeletes[a], made |-> Writes(a)]
    BY <1>0, <2>1, <2>3, Tables
  <2>5. QED
    BY <2>4
<1>2. CASE ~Launch(t)
  <2>0. UNCHANGED exec
    BY <1>2, WaitSteps DEF BoxDeletes, BoxWrites, BoxIsDenied
  <2>1. /\ files \cap (HostDeletes[a] \ box[t].todo) = {}
        /\ box[t].state = "running" => box[t].made = Writes(a)
        /\ box[t].state = "ended" => box[t].todo = {} /\ Writes(a) \subseteq files
        /\ a \in Actions
    BY <1>0, <2>0 DEF SandboxInv, BoxProgress, ExecRecords
  <2>2. CASE \E f \in Litter : BoxDeletes(t, f)
    BY <1>0, <2>1, <2>2 DEF BoxDeletes
  <2>3. CASE BoxWrites(t)
    <3>1. box[t].todo = {} /\ box' = [box EXCEPT ![t] = [@ EXCEPT !.state = "ended", !.made = {}]]
      BY <2>3 DEF BoxWrites
    <3>2. box'[t].state = "ended" /\ box'[t].todo = {}
      BY <1>0, <3>1
    <3>3. Writes(a) \subseteq files' /\ files' \cap HostDeletes[a] \subseteq files /\ box[t].todo = {}
      BY <2>1, <2>3, FilesStay DEF BoxWrites
    <3>4. QED
      BY <2>1, <3>2, <3>3
  <2>4. CASE BoxIsDenied(t)
    BY <1>0, <2>1, <2>4 DEF BoxIsDenied
  <2>5. QED
    BY <1>2, <2>2, <2>3, <2>4, WaitSteps
<1>3. QED
  BY <1>1, <1>2

LEMMA ProgressKept ==
  ASSUME SandboxInv, NEW t \in Threads, ThreadStep(t)
  PROVE  BoxProgress'
<1>1. SUFFICES ASSUME NEW u \in Threads, exec'[u].pc = "wait", NEW a \in exec'[u].action
               PROVE  /\ files' \cap (HostDeletes[a] \ box'[u].todo) = {}
                      /\ box'[u].state = "running" => box'[u].made = Writes(a)
                      /\ box'[u].state = "ended" => box'[u].todo = {} /\ Writes(a) \subseteq files'
  BY DEF BoxProgress
<1>2. CASE u = t
  BY <1>1, <1>2, OwnProgress
<1>3. CASE u # t
  <2>1. exec'[u] = exec[u] /\ box'[u] = box[u]
    BY <1>3, ExecKept, BoxesOfOthers
  <2>2. /\ files \cap (HostDeletes[a] \ box[u].todo) = {}
        /\ box[u].state = "running" => box[u].made = Writes(a)
        /\ box[u].state = "ended" => box[u].todo = {} /\ Writes(a) \subseteq files
    BY <1>1, <2>1 DEF SandboxInv, BoxProgress
  <2>3. a \in Actions
    BY <1>1, <2>1 DEF SandboxInv, ExecTypeOK
  <2>4. QED
    BY <2>1, <2>2, <2>3, FilesStay
<1> QED
  BY <1>2, <1>3

LEMMA DoneStays ==
  ASSUME SandboxInv, NEW t \in Threads, ThreadStep(t), NEW a \in Actions, Done(a)
  PROVE  Done(a)'
  BY FilesStay DEF Done

LEMMA CompletedKept ==
  ASSUME SandboxInv, NEW t \in Threads, ThreadStep(t)
  PROVE  CompletedIsDone'
<1>0. exec \in [Threads -> ExecRecords] /\ exec[t] \in ExecRecords
  BY DEF SandboxInv, ExecTypeOK, ExecRecords
<1>1. SUFFICES ASSUME NEW u \in Threads, exec'[u].outcome = "completed", NEW a \in exec'[u].action
               PROVE  Done(a)'
  BY DEF CompletedIsDone
<1>2. CASE exec'[u].action = exec[u].action /\ exec[u].outcome = "completed"
  BY <1>1, <1>2, DoneStays DEF SandboxInv, CompletedIsDone, ExecTypeOK
<1>3. CASE u # t
  BY <1>1, <1>2, <1>3, ExecKept
<1>4. CASE u = t
  <2>1. CASE (\E b \in Actions : execute(t, b)) \/ Return(t)
    BY <1>0, <1>1, <1>4, <2>1 DEF execute, Return, Idle
  <2>2. CASE \E dir \in Directories : OpenDirectory(t, dir) \/ CloseDirectory(t, dir)
    BY <1>0, <1>1, <1>2, <1>4, <2>2 DEF OpenDirectory, CloseDirectory, ExecRecords
  <2>3. CASE Launch(t) \/ CloseRoot(t)
    BY <1>0, <1>1, <1>2, <1>4, <2>3 DEF Launch, CloseRoot, ExecRecords
  <2>4. CASE LaunchFails(t) \/ TimesOut(t)
    BY <1>0, <1>1, <1>4, <2>4 DEF LaunchFails, TimesOut, Finish, ExecRecords
  <2>5. CASE Exits(t)
    <3>1. exec'[t].action = exec[t].action /\ exec[t].pc = "wait" /\ box[t].state = "ended"
      BY <1>0, <1>1, <1>4, <2>5 DEF Exits, Finish, At, ExecRecords
    <3>2. a \in Actions /\ a \in exec[t].action
      BY <1>0, <1>1, <1>4, <3>1 DEF ExecRecords
    <3>3. Done(a)
      BY <3>1, <3>2 DEF SandboxInv, BoxProgress, Done
    <3>4. QED
      BY <3>2, <3>3, DoneStays
  <2>6. CASE RemoveBox(t) \/ RemoveFails(t)
    BY <1>0, <1>1, <1>2, <1>4, <2>6 DEF RemoveBox, RemoveFails, Restoring, ExecRecords
  <2>7. CASE UNCHANGED exec
    BY <1>1, <1>2, <2>7
  <2>8. QED
    BY <2>1, <2>2, <2>3, <2>4, <2>5, <2>6, <2>7
    DEF ThreadStep, BoxDeletes, BoxWrites, BoxIsDenied
<1>5. QED
  BY <1>3, <1>4

LEMMA SandboxStep == SandboxInv /\ [Next]_vars => SandboxInv'
<1> SUFFICES ASSUME SandboxInv, [Next]_vars PROVE SandboxInv'
  OBVIOUS
<1>1. ASSUME NEW t \in Threads, ThreadStep(t) PROVE SandboxInv'
  BY <1>1, ExecKept, BoxKept, OpenKept, ProgressKept, CompletedKept DEF SandboxInv
<1>2. CASE UNCHANGED vars
  BY <1>2
  DEF vars, SandboxInv, ExecTypeOK, BoxTypeOK, FilesTypeOK, OneAction, WorksOnOwnDirectories,
      OpenIsHeld, Holds, Active, BoxProgress, CompletedIsDone, Done
<1>3. QED
  BY <1>1, <1>2 DEF Next, ThreadStep

-------------------------------------------------------------------------------
(* THE LAB                                                                 *)

(* Where the container and the calls stand in each phase.                  *)
PhaseOfBox ==
  /\ labBox.state = "absent" => labBox = Lab!NoBox
  /\ labBox.state = "late" => phase.pc = "failed"
  /\ phase.pc \in {"await", "started"} =>
       labBox.state = "running" /\ "rm" \notin labBox.due
  /\ phase.pc \in {"new", "run", "await"} => ~phase.start
  /\ \A t \in LabThreads : call[t].pc # "idle" => phase.pc = "started"

(* A clean-up that removed the sandbox is over; before it inspects, what   *)
(* it has left is due to its first command.                                *)
CleanUpAccounts ==
  /\ Lab!SandboxOutlivesContainer
  /\ ~kept => phase.pc \in {"closed", "failed"}
  /\ phase.pc = "inspect" => labBox = Lab!NoBox \/ "rm" \in phase.failures

(* A call that sees the service healthy, or has, knows of a later boot.    *)
Recovered(c, b) ==
  /\ c.pc \in {"await", "confirm"} =>
       c.healed <= b.heals /\ (b.health = "healthy" => c.healed < b.heals)
  /\ c.pc \in {"settle", "recheck", "done"} => c.healed < b.heals

CallsRecover == \A t \in LabThreads : Recovered(call[t], labBox)

LabInv == Lab!TypeOK /\ PhaseOfBox /\ CleanUpAccounts /\ CallsRecover

TargetsInv == SandboxInv /\ LabInv

LEMMA LabInit == Lab!Init => LabInv
<1> SUFFICES ASSUME Lab!Init PROVE LabInv
  OBVIOUS
<1>1. phase \in Lab!Phases
  BY DEF Lab!Init, Lab!Phases
<1>2. labBox \in Lab!Boxes
  BY DEF Lab!Init, Lab!Boxes, Lab!NoBox, Lab!Fresh, Lab!Healths
<1>3. call \in [LabThreads -> Lab!Calls]
  BY DEF Lab!Init, Lab!Calls, Lab!Idle, Lab!Healths
<1>4. Lab!TypeOK
  BY <1>1, <1>2, <1>3 DEF Lab!Init, Lab!TypeOK
<1>5. PhaseOfBox /\ CallsRecover
  BY DEF Lab!Init, Lab!NoBox, Lab!Fresh, Lab!Idle, PhaseOfBox, CallsRecover, Recovered
<1>6. CleanUpAccounts
  BY DEF Lab!Init, CleanUpAccounts, Lab!SandboxOutlivesContainer
<1> QED
  BY <1>4, <1>5, <1>6 DEF LabInv

(* The engine's own steps.                                                 *)
LEMMA EngineKeepsLab ==
  ASSUME LabInv, Lab!BeginsBoot \/ Lab!Boots \/ Lab!Appears \/ Lab!Belated
  PROVE  LabInv'
<1> USE DEF LabInv, Lab!TypeOK
<1>1. UNCHANGED <<phase, labOpen, kept, call>>
  BY DEF Lab!BeginsBoot, Lab!Boots, Lab!Appears, Lab!Belated
<1>2. labBox \in Lab!Boxes /\ phase \in Lab!Phases /\ call \in [LabThreads -> Lab!Calls]
  OBVIOUS
<1>3. CASE Lab!BeginsBoot
  <2>1. /\ labBox' \in Lab!Boxes /\ kept
        /\ labBox.state = "running" /\ labBox'.state = "running"
        /\ labBox'.health = "starting"
        /\ labBox'.heals = labBox.heals /\ labBox'.due = labBox.due
    <3>1. labBox.file \in Nat /\ labBox.file + 1 \in Nat
      BY <1>2 DEF Lab!Boxes
    <3>2. PICK n \in Nat, m \in Nat :
            labBox' = [labBox EXCEPT !.next = n, !.was = m, !.file = 0]
      BY <1>3, <3>1 DEF Lab!BeginsBoot
    <3>3. kept /\ labBox.state = "running" /\ labBox.health = "starting"
      BY <1>3 DEF Lab!BeginsBoot
    <3> QED
      BY <1>2, <3>2, <3>3 DEF Lab!Boxes, Lab!Healths
  <2>2. labBox # Lab!NoBox
    BY <2>1 DEF Lab!NoBox, Lab!Fresh
  <2>3. PhaseOfBox' /\ CleanUpAccounts'
    BY <1>1, <2>1, <2>2 DEF PhaseOfBox, CleanUpAccounts, Lab!SandboxOutlivesContainer
  <2>4. CallsRecover'
    BY <1>1, <2>1 DEF CallsRecover, Recovered
  <2> QED
    BY <1>1, <2>1, <2>3, <2>4
<1>4. CASE Lab!Boots
  <2>1. labBox.next \in Nat /\ labBox.heals \in Nat /\ labBox.next > 0
    BY <1>2, <1>4 DEF Lab!Boots, Lab!Boxes
  <2>2. labBox'.state = labBox.state /\ labBox'.due = labBox.due /\ labBox' \in Lab!Boxes
    <3>1. labBox.heals + 1 \in Nat
      BY <2>1
    <3>2. CASE labBox.next = 1
      <4>1. labBox' = [labBox EXCEPT !.file = 1, !.next = 0, !.health = "unhealthy"]
        BY <1>4, <3>2 DEF Lab!Boots
      <4> QED
        BY <1>2, <4>1 DEF Lab!Boxes, Lab!Healths
    <3>3. CASE labBox.next # 1
      <4>1. PICK n \in Nat, m \in Nat :
              labBox' = [labBox EXCEPT !.file = n, !.next = 0, !.health = "healthy", !.heals = m]
        BY <1>4, <2>1, <3>1, <3>3 DEF Lab!Boots
      <4> QED
        BY <1>2, <4>1 DEF Lab!Boxes, Lab!Healths
    <3> QED
      BY <3>2, <3>3
  <2>3. \/ labBox'.health = "unhealthy" /\ labBox'.heals = labBox.heals
        \/ labBox'.health = "healthy" /\ labBox'.heals = labBox.heals + 1
    BY <1>2, <1>4 DEF Lab!Boots, Lab!Boxes
  <2>4. labBox # Lab!NoBox /\ labBox.state # "absent"
    BY <2>1 DEF Lab!NoBox, Lab!Fresh, PhaseOfBox
  <2>5. PhaseOfBox' /\ CleanUpAccounts'
    BY <1>1, <2>2, <2>4 DEF PhaseOfBox, CleanUpAccounts, Lab!SandboxOutlivesContainer
  <2>6. CallsRecover'
    <3>1. ASSUME NEW t \in LabThreads PROVE Recovered(call[t], labBox')
      <4>1. call[t].healed \in Nat
        BY <1>2 DEF Lab!Calls
      <4>2. Recovered(call[t], labBox)
        BY DEF CallsRecover
      <4> QED
        BY <2>1, <2>3, <4>1, <4>2 DEF Recovered
    <3> QED
      BY <1>1, <3>1 DEF CallsRecover
  <2> QED
    BY <1>1, <2>2, <2>5, <2>6
<1>5. CASE Lab!Appears
  <2>1. /\ labBox.state = "late" /\ phase.pc = "failed" /\ kept
        /\ labBox' = Lab!Fresh("running")
    BY <1>5 DEF Lab!Appears, PhaseOfBox
  <2>2. labBox' \in Lab!Boxes /\ labBox'.state = "running"
    BY <2>1 DEF Lab!Fresh, Lab!Boxes, Lab!Healths
  <2>3. PhaseOfBox' /\ CleanUpAccounts'
    BY <1>1, <2>1, <2>2 DEF PhaseOfBox, CleanUpAccounts, Lab!SandboxOutlivesContainer
  <2>4. CallsRecover'
    BY <1>1, <2>1 DEF CallsRecover, Recovered, PhaseOfBox
  <2> QED
    BY <1>1, <2>2, <2>3, <2>4
<1>6. CASE Lab!Belated
  <2>0. labBox # Lab!NoBox
    BY <1>6 DEF Lab!Belated, Lab!Exists, Lab!NoBox, Lab!Fresh
  <2>1. CASE "rm" \in labBox.due /\ labBox' = Lab!NoBox
    <3>1. phase.pc # "started" /\ phase.pc # "await"
      BY <2>1 DEF PhaseOfBox
    <3>2. labBox' \in Lab!Boxes /\ labBox'.state = "absent"
      BY <2>1 DEF Lab!NoBox, Lab!Fresh, Lab!Boxes, Lab!Healths
    <3>3. PhaseOfBox' /\ CleanUpAccounts'
      BY <1>1, <2>1, <3>1, <3>2
      DEF PhaseOfBox, CleanUpAccounts, Lab!SandboxOutlivesContainer, Lab!NoBox, Lab!Fresh
    <3>4. CallsRecover'
      BY <1>1, <3>1 DEF CallsRecover, Recovered, PhaseOfBox
    <3> QED
      BY <1>1, <3>2, <3>3, <3>4
  <2>2. CASE labBox' = [Lab!Restarted EXCEPT !.due = @ \ {"restart"}]
    <3>1. /\ labBox' \in Lab!Boxes
          /\ labBox'.state = labBox.state /\ labBox'.health = "starting"
          /\ labBox'.heals = labBox.heals /\ labBox'.due \subseteq labBox.due
      BY <1>2, <2>2 DEF Lab!Restarted, Lab!Boxes, Lab!Healths
    <3>2. labBox.state \in {"created", "running"}
      BY <1>6 DEF Lab!Belated, Lab!Exists
    <3>3. PhaseOfBox' /\ CleanUpAccounts'
      BY <1>1, <2>0, <3>1, <3>2 DEF PhaseOfBox, CleanUpAccounts, Lab!SandboxOutlivesContainer
    <3>4. CallsRecover'
      BY <1>1, <3>1 DEF CallsRecover, Recovered
    <3> QED
      BY <1>1, <3>1, <3>3, <3>4
  <2> QED
    BY <1>6, <2>1, <2>2 DEF Lab!Belated
<1> QED
  BY <1>3, <1>4, <1>5, <1>6

(* Start and close: no restart is under way.                               *)
LEMMA TargetKeepsLab ==
  ASSUME LabInv,
         \/ Lab!PrepareStart \/ Lab!Run \/ Lab!RunExits \/ Lab!RunRaises
         \/ Lab!StartSeesUnhealthy \/ Lab!StartGivesUp
         \/ Lab!Shutdown \/ Lab!Remove \/ Lab!Inspected \/ Lab!RemoveUnproven
  PROVE  LabInv'
<1> USE DEF LabInv, Lab!TypeOK
<1>1. UNCHANGED call
  BY DEF Lab!PrepareStart, Lab!Run, Lab!RunExits, Lab!RunRaises, Lab!StartSeesUnhealthy,
         Lab!StartGivesUp, Lab!Shutdown, Lab!Remove, Lab!Inspected, Lab!RemoveUnproven
<1>2. \A t \in LabThreads : call[t].pc = "idle"
  BY DEF PhaseOfBox, Lab!PrepareStart, Lab!Run, Lab!RunExits, Lab!RunRaises,
         Lab!StartSeesUnhealthy, Lab!StartGivesUp, Lab!Shutdown, Lab!Remove, Lab!Inspected,
         Lab!RemoveUnproven
<1>3. CallsRecover' /\ \A t \in LabThreads : call'[t].pc # "idle" => phase'.pc = "started"
  BY <1>1, <1>2 DEF CallsRecover, Recovered
<1>4. labBox \in Lab!Boxes /\ phase \in Lab!Phases
  OBVIOUS
<1>5. /\ Lab!NoBox \in Lab!Boxes
      /\ \A s \in {"late", "created", "running"} : Lab!Fresh(s) \in Lab!Boxes
      /\ Lab!Due("rm") \in Lab!Boxes
  BY <1>4 DEF Lab!NoBox, Lab!Fresh, Lab!Due, Lab!Boxes, Lab!Healths
<1>6. labBox' \in Lab!Boxes
  BY <1>4, <1>5
  DEF Lab!PrepareStart, Lab!Run, Lab!RunExits, Lab!RunRaises, Lab!StartSeesUnhealthy,
      Lab!StartGivesUp, Lab!Shutdown, Lab!Remove, Lab!Inspected, Lab!RemoveUnproven
<1>7. labOpen' \in BOOLEAN /\ kept' \in BOOLEAN
  BY DEF Lab!PrepareStart, Lab!Run, Lab!RunExits, Lab!RunRaises, Lab!StartSeesUnhealthy,
         Lab!StartGivesUp, Lab!Shutdown, Lab!Remove, Lab!Inspected, Lab!RemoveUnproven
<1>8. /\ \A pc : Lab!Goto(pc) => /\ phase'.pc = pc /\ phase'.start = phase.start
                                 /\ phase'.failures = phase.failures
      /\ \A b \in BOOLEAN : Lab!CleanUp(b) => phase'.pc = "remove" /\ phase'.start = b
      /\ \A pc, f : Lab!End(pc, f) => /\ phase'.pc = IF phase.start THEN "failed" ELSE pc
                                      /\ phase'.start = phase.start /\ phase'.failures = f
  <2>1. phase.start \in BOOLEAN
    BY <1>4 DEF Lab!Phases
  <2>2. ASSUME NEW pc, Lab!Goto(pc)
        PROVE  /\ phase'.pc = pc /\ phase'.start = phase.start
               /\ phase'.failures = phase.failures
    BY <1>4, <2>2 DEF Lab!Phases, Lab!Goto
  <2>3. ASSUME NEW b \in BOOLEAN, Lab!CleanUp(b) PROVE phase'.pc = "remove" /\ phase'.start = b
    BY <2>3 DEF Lab!CleanUp
  <2>4. ASSUME NEW pc, NEW f, Lab!End(pc, f)
        PROVE  /\ phase'.pc = IF phase.start THEN "failed" ELSE pc
               /\ phase'.start = phase.start /\ phase'.failures = f
    <3> DEFINE to == IF phase.start THEN "failed" ELSE pc
    <3>1. phase' = [phase EXCEPT !.pc = to, !.failures = f]
      BY <2>4 DEF Lab!End
    <3> HIDE DEF to
    <3>2. phase'.pc = to /\ phase'.start = phase.start /\ phase'.failures = f
      BY <1>4, <3>1 DEF Lab!Phases
    <3> QED
      BY <3>2 DEF to
  <2> QED
    BY <2>2, <2>3, <2>4
<1>9. phase' \in Lab!Phases
  <2>1. CASE \/ Lab!PrepareStart \/ Lab!Run \/ Lab!RunRaises \/ Lab!StartSeesUnhealthy
    <3>1. \E pc \in {"run", "await", "failed", "started"} : Lab!Goto(pc)
      BY <2>1 DEF Lab!PrepareStart, Lab!Run, Lab!RunRaises, Lab!StartSeesUnhealthy
    <3> QED
      BY <1>4, <3>1 DEF Lab!Goto, Lab!Phases
  <2>2. CASE Lab!RunExits \/ Lab!StartGivesUp \/ Lab!Shutdown
    <3>1. \E b \in BOOLEAN : phase' = [pc |-> "remove", start |-> b, failures |-> {}]
      BY <2>2 DEF Lab!RunExits, Lab!StartGivesUp, Lab!Shutdown, Lab!CleanUp
    <3>2. \A b \in BOOLEAN : [pc |-> "remove", start |-> b, failures |-> {}] \in Lab!Phases
      BY DEF Lab!Phases
    <3> QED
      BY <3>1, <3>2
  <2>3. CASE Lab!Remove
    BY <1>4, <2>3 DEF Lab!Remove, Lab!Goto, Lab!Phases
  <2>4. CASE Lab!Inspected \/ Lab!RemoveUnproven
    <3>1. \E pc \in {"closed", "close_failed"}, f \in SUBSET {"rm", "inspect"} : Lab!End(pc, f)
      <4>1. phase.failures \subseteq {"rm", "inspect"}
        BY <1>4 DEF Lab!Phases
      <4>2. phase.failures \cup (IF Lab!Exists THEN {"inspect"} ELSE {}) \subseteq {"rm", "inspect"}
        BY <4>1
      <4> QED
        BY <2>4, <4>1, <4>2 DEF Lab!Inspected, Lab!RemoveUnproven
    <3> QED
      BY <1>4, <3>1 DEF Lab!End, Lab!Phases
  <2> QED
    BY <2>1, <2>2, <2>3, <2>4
<1>10. Lab!TypeOK'
  BY <1>1, <1>6, <1>7, <1>9
<1>11. PhaseOfBox' /\ CleanUpAccounts'
  <2> USE DEF PhaseOfBox, CleanUpAccounts, Lab!SandboxOutlivesContainer
  <2>1. CASE Lab!PrepareStart
    BY <1>3, <1>8, <2>1 DEF Lab!PrepareStart
  <2>2. CASE Lab!Run
    BY <1>3, <1>8, <2>2 DEF Lab!Run, Lab!Fresh
  <2>3. CASE Lab!RunExits
    <3>1. /\ labBox'.state \in {"absent", "created", "running"}
          /\ labBox'.state = "absent" => labBox' = Lab!NoBox
      BY <2>3 DEF Lab!RunExits, Lab!Fresh, Lab!NoBox
    <3>2. phase'.pc = "remove" /\ phase.pc = "run" /\ UNCHANGED <<labOpen, kept>>
      BY <1>8, <2>3 DEF Lab!RunExits
    <3> QED
      BY <1>3, <3>1, <3>2
  <2>4. CASE Lab!RunRaises
    BY <1>3, <1>8, <2>4 DEF Lab!RunRaises, Lab!Fresh, Lab!NoBox
  <2>5. CASE Lab!StartSeesUnhealthy
    BY <1>3, <1>8, <2>5 DEF Lab!StartSeesUnhealthy
  <2>6. CASE Lab!StartGivesUp
    BY <1>3, <1>8, <2>6 DEF Lab!StartGivesUp
  <2>7. CASE Lab!Shutdown
    BY <1>3, <1>8, <2>7 DEF Lab!Shutdown
  <2>8. CASE Lab!Remove
    <3>1. kept /\ labBox.state # "late" /\ phase'.pc = "inspect"
      BY <1>4, <1>8, <2>8 DEF Lab!Remove, Lab!Phases
    <3>2. labBox' = Lab!NoBox \/ (phase'.failures = {"rm"} /\ labBox' \in {labBox, Lab!Due("rm")})
      BY <1>4, <2>8 DEF Lab!Remove, Lab!Phases
    <3>3. labBox'.state # "late" /\ (labBox'.state = "absent" => labBox' = Lab!NoBox)
      BY <1>4, <3>1, <3>2 DEF Lab!NoBox, Lab!Fresh, Lab!Due, Lab!Exists, Lab!Boxes
    <3> QED
      BY <1>3, <2>8, <3>1, <3>2, <3>3 DEF Lab!Remove
  <2>9. CASE Lab!Inspected
    <3>1. labBox.state # "late" /\ UNCHANGED labBox /\ ~kept' /\ ~labOpen'
      BY <2>9 DEF Lab!Inspected
    <3>2. /\ phase'.pc \in {"closed", "failed"}
          /\ phase'.failures = phase.failures \cup (IF Lab!Exists THEN {"inspect"} ELSE {})
      BY <1>8, <2>9 DEF Lab!Inspected
    <3>3. labBox = Lab!NoBox \/ phase'.failures = {"rm", "inspect"}
      <4>1. CASE Lab!Exists
        <5>1. labBox # Lab!NoBox /\ phase.failures \subseteq {"rm", "inspect"}
          BY <1>4, <4>1 DEF Lab!Exists, Lab!NoBox, Lab!Fresh, Lab!Phases
        <5> QED
          BY <2>9, <3>2, <4>1, <5>1 DEF Lab!Inspected
      <4>2. CASE ~Lab!Exists
        BY <1>4, <3>1, <4>2 DEF Lab!Exists, Lab!Boxes
      <4> QED
        BY <4>1, <4>2
    <3> QED
      BY <1>3, <3>1, <3>2, <3>3
  <2>10. CASE Lab!RemoveUnproven
    BY <1>3, <1>8, <2>10 DEF Lab!RemoveUnproven
  <2> QED
    BY <2>1, <2>2, <2>3, <2>4, <2>5, <2>6, <2>7, <2>8, <2>9, <2>10
<1> QED
  BY <1>3, <1>10, <1>11

(* A call: the container is there, and its healthy boots only grow.        *)
LEMMA RestartKeepsLab ==
  ASSUME LabInv, NEW t \in LabThreads,
         \/ Lab!restart_and_wait(t) \/ Lab!FindsUnhealthy(t) \/ Lab!Refuses(t)
         \/ Lab!Restart(t) \/ Lab!RestartRaises(t)
         \/ Lab!ReadsBoots(t) \/ Lab!Probes(t) \/ Lab!Settles(t) \/ Lab!Returns(t)
  PROVE  LabInv'
<1> USE DEF LabInv, Lab!TypeOK
<1>1. UNCHANGED <<phase, labOpen, kept>> /\ phase.pc = "started"
  BY DEF PhaseOfBox, Lab!restart_and_wait, Lab!FindsUnhealthy, Lab!Refuses, Lab!Restart,
         Lab!RestartRaises, Lab!IsStale, Lab!ReadsBoots, Lab!Probes, Lab!Settles, Lab!Returns
<1>2. labBox \in Lab!Boxes /\ call \in [LabThreads -> Lab!Calls] /\ call[t] \in Lab!Calls
  OBVIOUS
<1> DEFINE now == call[t]
<1>3. /\ labBox.state = "running" /\ "rm" \notin labBox.due
      /\ labBox.heals \in Nat /\ labBox.health \in Lab!Healths
      /\ Lab!Counts \subseteq Nat /\ Lab!ProbedHealths \subseteq Lab!Healths
  BY <1>1, <1>2 DEF PhaseOfBox, Lab!Boxes, Lab!Counts, Lab!ProbedHealths, Lab!Healths
<1>4. /\ labBox' \in Lab!Boxes /\ labBox'.state = "running" /\ "rm" \notin labBox'.due
      /\ labBox'.heals = labBox.heals /\ labBox'.health \in {labBox.health, "starting"}
  <2>1. labBox' \in {labBox, Lab!Restarted, Lab!Due("restart")}
    BY DEF Lab!restart_and_wait, Lab!FindsUnhealthy, Lab!Refuses, Lab!Restart,
           Lab!RestartRaises, Lab!ReadsBoots, Lab!Probes, Lab!Settles, Lab!Returns
  <2>2. CASE labBox' = Lab!Restarted
    BY <1>2, <1>3, <2>2 DEF Lab!Restarted, Lab!Boxes, Lab!Healths
  <2>3. CASE labBox' = Lab!Due("restart")
    BY <1>2, <1>3, <2>3 DEF Lab!Due, Lab!Boxes, Lab!Healths
  <2>4. CASE UNCHANGED labBox
    BY <1>2, <1>3, <2>4
  <2> QED
    BY <2>1, <2>2, <2>3, <2>4
<1>5. \E c \in Lab!Calls : Recovered(c, labBox') /\ call' = [call EXCEPT ![t] = c]
  <2>1. Recovered(now, labBox) /\ now.healed \in Nat
    BY <1>2 DEF CallsRecover, Lab!Calls
  <2>2. Recovered(now, labBox')
    BY <1>3, <1>4, <2>1 DEF Recovered
  <2>3. CASE Lab!restart_and_wait(t)
    <3>1. PICK n \in Nat : call' = [call EXCEPT ![t] = [now EXCEPT !.pc = "probe", !.before = n]]
      BY <1>2, <1>3, <2>3 DEF Lab!restart_and_wait
    <3> DEFINE c == [now EXCEPT !.pc = "probe", !.before = n]
    <3>2. c \in Lab!Calls /\ c.pc = "probe"
      BY <1>2 DEF Lab!Calls
    <3> QED
      BY <3>1, <3>2 DEF Recovered
  <2>4. CASE Lab!FindsUnhealthy(t)
    <3> DEFINE c == [now EXCEPT !.pc = "restart"]
    <3>1. call' = [call EXCEPT ![t] = c] /\ c \in Lab!Calls /\ c.pc = "restart"
      BY <1>2, <2>4 DEF Lab!FindsUnhealthy, Lab!Calls
    <3> QED
      BY <3>1 DEF Recovered
  <2>5. CASE Lab!Refuses(t) \/ Lab!RestartRaises(t) \/ Lab!Returns(t)
    <3>1. call' = [call EXCEPT ![t] = Lab!Idle]
      BY <2>5 DEF Lab!Refuses, Lab!RestartRaises, Lab!Returns
    <3>2. Lab!Idle \in Lab!Calls /\ Recovered(Lab!Idle, labBox')
      BY DEF Lab!Calls, Lab!Healths, Lab!Idle, Recovered
    <3> QED
      BY <3>1, <3>2
  <2>6. CASE Lab!Restart(t)
    <3> DEFINE c == [now EXCEPT !.pc = "await", !.healed = labBox.heals]
    <3>1. call' = [call EXCEPT ![t] = c] /\ labBox'.health = "starting"
      BY <1>2, <2>6 DEF Lab!Restart, Lab!Restarted, Lab!Boxes
    <3>2. c \in Lab!Calls /\ c.pc = "await" /\ c.healed = labBox.heals
      BY <1>2, <1>3 DEF Lab!Calls
    <3> HIDE DEF c
    <3>3. Recovered(c, labBox')
      BY <1>3, <1>4, <3>1, <3>2 DEF Recovered
    <3> QED
      BY <3>1, <3>2, <3>3
  <2>7. CASE Lab!ReadsBoots(t)
    <3>1. PICK n \in Nat :
            call' = [call EXCEPT ![t] =
              [now EXCEPT !.pc = IF now.pc = "await" THEN "confirm" ELSE "recheck", !.after = n]]
      BY <1>2, <1>3, <2>7 DEF Lab!ReadsBoots
    <3> DEFINE c == [now EXCEPT !.pc = IF now.pc = "await" THEN "confirm" ELSE "recheck",
                                !.after = n]
    <3>2. /\ c \in Lab!Calls /\ c.healed = now.healed
          /\ c.pc = IF now.pc = "await" THEN "confirm" ELSE "recheck"
      BY <1>2 DEF Lab!Calls
    <3>3. now.pc \in {"await", "settle"}
      BY <2>7 DEF Lab!ReadsBoots, Lab!IsStale
    <3> HIDE DEF c
    <3>4. Recovered(c, labBox')
      BY <2>2, <3>2, <3>3 DEF Recovered
    <3> QED
      BY <3>1, <3>2, <3>4 DEF c
  <2>8. CASE Lab!Probes(t)
    <3>1. PICK h \in Lab!ProbedHealths :
            call' = [call EXCEPT ![t] =
              [now EXCEPT !.pc = IF now.pc = "recheck" \/ h = "healthy" THEN "settle" ELSE "await",
                          !.health = h]]
      BY <1>2, <2>8 DEF Lab!Probes
    <3> DEFINE c == [now EXCEPT !.pc = IF now.pc = "recheck" \/ h = "healthy"
                                       THEN "settle" ELSE "await",
                                !.health = h]
    <3>2. /\ c \in Lab!Calls /\ c.healed = now.healed
          /\ c.pc = IF now.pc = "recheck" \/ h = "healthy" THEN "settle" ELSE "await"
      BY <1>2, <1>3 DEF Lab!Calls
    <3>3. now.pc \in {"confirm", "recheck"} /\ UNCHANGED labBox
      BY <2>8 DEF Lab!Probes
    <3>4. h = "healthy" => labBox.health = "healthy"
      BY <3>1 DEF Lab!ProbedHealths
    <3>5. Recovered(c, labBox)
      BY <1>3, <2>1, <3>2, <3>3, <3>4 DEF Recovered
    <3> QED
      BY <3>1, <3>2, <3>3, <3>5
  <2>9. CASE Lab!Settles(t)
    <3> DEFINE c == [now EXCEPT !.pc = "done"]
    <3>1. /\ call' = [call EXCEPT ![t] = c] /\ c \in Lab!Calls
          /\ c.pc = "done" /\ c.healed = now.healed /\ now.pc = "settle"
      BY <1>2, <2>9 DEF Lab!Settles, Lab!Calls
    <3> QED
      BY <2>2, <3>1 DEF Recovered
  <2> QED
    BY <2>3, <2>4, <2>5, <2>6, <2>7, <2>8, <2>9
<1>6. PICK c \in Lab!Calls : Recovered(c, labBox') /\ call' = [call EXCEPT ![t] = c]
  BY <1>5
<1>7. Lab!TypeOK'
  BY <1>1, <1>2, <1>4, <1>6
<1>8. \A u \in LabThreads : call'[u] = IF u = t THEN c ELSE call[u]
  BY <1>2, <1>6
<1>9. CallsRecover'
  <2>1. ASSUME NEW u \in LabThreads PROVE Recovered(call[u], labBox')
    <3>1. Recovered(call[u], labBox)
      BY DEF CallsRecover
    <3> QED
      BY <1>4, <3>1 DEF Recovered
  <2> QED
    BY <1>6, <1>8, <2>1 DEF CallsRecover
<1>10. PhaseOfBox'
  BY <1>1, <1>4 DEF PhaseOfBox
<1>11. CleanUpAccounts'
  BY <1>1 DEF CleanUpAccounts, Lab!SandboxOutlivesContainer
<1> QED
  BY <1>7, <1>9, <1>10, <1>11

LEMMA LabStep == LabInv /\ [Lab!Next]_labVars => LabInv'
<1> SUFFICES ASSUME LabInv, [Lab!Next]_labVars PROVE LabInv'
  OBVIOUS
<1>1. CASE UNCHANGED labVars
  BY <1>1 DEF labVars, LabInv, Lab!TypeOK, PhaseOfBox, CleanUpAccounts,
              Lab!SandboxOutlivesContainer, CallsRecover
<1>2. CASE Lab!Next
  BY <1>2, EngineKeepsLab, TargetKeepsLab, RestartKeepsLab DEF Lab!Next
<1> QED
  BY <1>1, <1>2

-------------------------------------------------------------------------------
(* THE THEOREMS                                                            *)

(***************************************************************************)
(* A behaviour of a deployment is one of each target.                      *)
(***************************************************************************)
THEOREM TargetsAreBoth == TargetsSpec => Spec /\ Lab!Spec
<1>1. TargetsInit => Init /\ Lab!Init
  BY DEF TargetsInit
<1>2. [TargetsNext]_targetsVars => [Next]_vars /\ [Lab!Next]_(Lab!vars)
  BY DEF TargetsNext, targetsVars, labVars, Lab!vars
<1>3. QED
  BY <1>1, <1>2, PTL DEF TargetsSpec, Spec, Lab!Spec

(***************************************************************************)
(* The invariants of both targets, which everything below follows from.    *)
(***************************************************************************)
THEOREM TargetsInvariant == TargetsSpec => []TargetsInv
<1>1. TargetsInit => TargetsInv
  BY SandboxInit, LabInit DEF TargetsInit, TargetsInv
<1>2. TargetsInv /\ [TargetsNext]_targetsVars => TargetsInv'
  <2>1. [TargetsNext]_targetsVars => [Next]_vars /\ [Lab!Next]_labVars
    BY DEF TargetsNext, targetsVars
  <2>2. QED
    BY <2>1, SandboxStep, LabStep DEF TargetsInv
<1>3. QED
  BY <1>1, <1>2, PTL DEF TargetsSpec

(***************************************************************************)
(* Type correctness of both targets.                                       *)
(***************************************************************************)
THEOREM TargetsAreTyped == TargetsSpec => [](TypeOK /\ Lab!TypeOK)
<1>1. TargetsInv => TypeOK /\ Lab!TypeOK
  BY DirectoriesAre
  DEF TargetsInv, LabInv, SandboxInv, TypeOK, ExecTypeOK, BoxTypeOK, FilesTypeOK
<1>2. QED
  BY <1>1, TargetsInvariant, PTL

(***************************************************************************)
(* Whatever overlaps or fails, the sandbox is open only as far as an       *)
(* execution under way needs it, and closed when there is none             *)
(* (executor.py, execute: the modes are restored in every outcome).        *)
(***************************************************************************)
THEOREM AccessIsTakenBack == TargetsSpec => []AccessFollowsExecutions
<1>1. ASSUME TargetsInv PROVE AccessFollowsExecutions
  <2> DEFINE active == {t \in Threads : exec[t].pc \notin {"idle", "return"}}
  <2>1. \A dir \in open \ {"."} :
          \E t \in active : \E a \in exec[t].action : dir \in WritableDirectories[a]
    BY <1>1 DEF TargetsInv, SandboxInv, OpenIsHeld, Holds, Active
  <2>2. "." \in open => active # {}
    BY <1>1 DEF TargetsInv, SandboxInv, OpenIsHeld, Active
  <2>3. QED
    BY <2>1, <2>2 DEF AccessFollowsExecutions
<1>2. QED
  BY <1>1, TargetsInvariant, PTL

(***************************************************************************)
(* An execution that reports success has done what its action says, also   *)
(* when others opened and closed the directories, removed and wrote files  *)
(* meanwhile (executor.py, execute: the exit code of the container).       *)
(***************************************************************************)
THEOREM CompletedIsTrue == TargetsSpec => []CompletedMeansDone
<1>1. ASSUME TargetsInv, NEW t \in Threads, exec[t].outcome = "completed", NEW a \in exec[t].action
      PROVE  files = Result(a, files)
  <2>1. Done(a)
    BY <1>1 DEF TargetsInv, SandboxInv, CompletedIsDone
  <2>2. QED
    BY <2>1 DEF Done, Result
<1>2. TargetsInv => CompletedMeansDone
  BY <1>1 DEF CompletedMeansDone
<1>3. QED
  BY <1>2, TargetsInvariant, PTL

(***************************************************************************)
(* A container that outlives its execution changes nothing, unless another *)
(* execution has the sandbox open (executor.py, the removal of a container *)
(* whose command was given up).                                            *)
(***************************************************************************)
THEOREM StragglersAreLockedOut == TargetsSpec => WritesNeedAnExecution
<1>1. ASSUME TargetsInv, Next, files' # files
      PROVE  \E t \in Threads : exec[t].pc \notin {"idle", "return"}
  <2>1. PICK u \in Threads : (\E f \in Litter : BoxDeletes(u, f)) \/ BoxWrites(u)
    BY <1>1
    DEF Next, execute, OpenDirectory, CloseDirectory, Launch, LaunchFails, BoxIsDenied,
        Exits, TimesOut, RemoveBox, RemoveFails, CloseRoot, Return
  <2>2. "." \in open
    BY <1>1, <2>1 DEF BoxDeletes, BoxWrites, Reachable, Path
  <2>3. QED
    BY <1>1, <2>2 DEF TargetsInv, SandboxInv, OpenIsHeld, Active
<1>2. TargetsInv /\ [TargetsNext]_targetsVars =>
        [files' # files => \E t \in Threads : exec[t].pc \notin {"idle", "return"}]_vars
  BY <1>1 DEF TargetsNext, targetsVars, vars
<1>3. QED
  BY <1>2, TargetsInvariant, PTL DEF TargetsSpec, WritesNeedAnExecution

(***************************************************************************)
(* A clean-up removes the sandbox together with its container; it leaves a *)
(* container behind only if the removal and the inspection both failed, a  *)
(* close that raises has kept the sandbox, and access is closed by all of  *)
(* them (container_lab.py, close).                                         *)
(***************************************************************************)
THEOREM CleanUpIsAccounted == TargetsSpec => []SandboxOutlivesContainer
<1>1. TargetsInv => SandboxOutlivesContainer
  BY DEF TargetsInv, LabInv, CleanUpAccounts, SandboxOutlivesContainer
<1>2. QED
  BY <1>1, TargetsInvariant, PTL

(***************************************************************************)
(* A restart that reports success has recovered the service since its      *)
(* command was carried out, however many threads restart it, whatever the  *)
(* engine still carries out and whatever boot counts the host reads        *)
(* (container_lab.py, restart_and_wait).                                   *)
(***************************************************************************)
THEOREM RestartIsRecovery == TargetsSpec => []RestartedMeansRecovered
<1>1. TargetsInv => RestartedMeansRecovered
  BY DEF TargetsInv, LabInv, CallsRecover, Recovered, RestartedMeansRecovered,
         Lab!RestartedMeansRecovered
<1>2. QED
  BY <1>1, TargetsInvariant, PTL

================================================================================
