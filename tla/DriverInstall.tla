---------------------------- MODULE DriverInstall ----------------------------
(* Installing a driver with the safeguards around it: the backup made before   *)
(* the install, the backups made by hand, their pruning, restoring one of them *)
(* and the maintenance thread for System Restore.  Three worker threads share  *)
(* the backup folders; the GUI starts them from dialogs whose nested event     *)
(* loops go on delivering the workers' answers.                                *)
EXTENDS Integers, FiniteSets

CONSTANTS
  Device,     \* devices a backup can be made of
  NoDevice,   \* an install that names no device
  MaxSec,     \* bound of the clock: backup folders are named by the second
  Keep,       \* driver_backup_keep_count
  MaxClicks   \* bound on what the user does

ASSUME InstallConstants ==
  /\ NoDevice \notin Device
  /\ IsFiniteSet(Device)
  /\ MaxSec \in Nat
  /\ Keep \in 0..99
  /\ MaxClicks \in Nat

Stamp == 0..MaxSec
NoStamp == MaxSec + 1
Path == Device \X Stamp
Worker == {"install", "maint", "restore"}
MaintOp == {"restore_status", "create_restore", "enable_restore", "backup_driver"}

(* What a backup folder holds: a part of the package, all of it without a      *)
(* readable manifest, or all of it with its manifest.                          *)
FolderState == {"none", "part", "bare", "full"}

VARIABLES
  alive,    \* the program runs
  sec,      \* the clock
  folder,   \* the backup folders, by device and second
  job,      \* the worker threads
  orphan,   \* workers whose replaced thread still has its cleanup in the event queue
  dlg,      \* the modal dialog that is open
  box,      \* the maintenance box on top of everything
  ctx,      \* _last_install_context: the device, or none
  depth,    \* depth of the task progress
  busy,     \* the maintenance buttons are disabled
  clicks,   \* bounds the user
  clash,    \* history: a backup went into a folder that was there already
  removed   \* history: the user removed a backup

gui == <<dlg, box, ctx, depth, busy>>
history == <<clash, removed>>
vars == <<alive, sec, folder, job, orphan, gui, clicks, history>>

NoJob == [st |-> "none", op |-> "none", dev |-> NoDevice, ask |-> FALSE, stamp |-> NoStamp,
          todo |-> {}, ok |-> FALSE, retry |-> FALSE]
Stage == {"none", "point", "query", "export", "manifest", "prune", "package", "apply", "call",
          "answer", "quit", "ended"}
Job == [st : Stage, op : MaintOp \cup {"install", "restore", "none"}, dev : Device \cup {NoDevice},
        ask : BOOLEAN, stamp : Stamp \cup {NoStamp}, todo : SUBSET Device, ok : BOOLEAN,
        retry : BOOLEAN]
NoDialog == [kind |-> "none", dev |-> NoDevice, list |-> {}]
Dialog == [kind : {"none", "install", "backup", "point", "restore", "backups"},
           dev : Device \cup {NoDevice}, list : SUBSET Path]

(* QThread.isRunning: from start until its event loop has left.                *)
Running(k) == job[k].st \notin {"none", "ended"}
Unanswered(k) == job[k].st \notin {"none", "quit", "ended"}

(* The records of list_driver_backups; a folder without a readable manifest is *)
(* listed by its own name.                                                     *)
Listed == {p \in Path : folder[p] # "none"}
Holds(p) == folder[p] \in {"bare", "full"}
HasBackup(d) == \E s \in Stamp : Holds(<<d, s>>)

(* The sort puts the folders without a manifest first: "20250301_..." is       *)
(* greater than "2025-03-01T..." (all folders of one year).                    *)
LatestBackup(d) ==
  LET mine == {s \in Stamp : <<d, s>> \in Listed}
      nameless == {s \in mine : folder[<<d, s>>] # "full"}
      first == IF nameless # {} THEN nameless ELSE mine
  IN {<<d, s>> : s \in {t \in first : \A u \in first : u <= t}}

(* Mutant: one folder fewer is kept.                                           *)
PrunedOneMore(d, keep) ==
  {p \in Listed :
     p[1] = d /\ Cardinality({q \in Listed : q[1] = d /\ q[2] > p[2]}) >= keep - 1}

(* subs[keep_per_device:] of the folders sorted by name, newest first.         *)
Pruned(d, keep) ==
  {p \in Listed : p[1] = d /\ Cardinality({q \in Listed : q[1] = d /\ q[2] > p[2]}) >= keep}

Init ==
  /\ alive = TRUE /\ sec = 0
  /\ folder = [p \in Path |-> "none"]
  /\ job = [k \in Worker |-> NoJob] /\ orphan = {}
  /\ dlg = NoDialog /\ box = "none" /\ ctx = NoDevice /\ depth = 0 /\ busy = FALSE
  /\ clicks = 0 /\ clash = FALSE /\ removed = FALSE
------------------------------------------------------------------------------
(* What the user does.                                                         *)
Click == /\ alive /\ box = "none" /\ clicks < MaxClicks
         /\ clicks' = clicks + 1

Open(kind, d, list) ==
  /\ Click /\ dlg = NoDialog
  /\ dlg' = [kind |-> kind, dev |-> d, list |-> list]
  /\ UNCHANGED <<alive, sec, folder, job, orphan, box, ctx, depth, busy, history>>

OpenInstall(d) == Open("install", d, {})
OpenBackup(d) == Open("backup", d, {})
OpenPoint == Open("point", NoDevice, {})
OpenBackups == Open("backups", NoDevice, Listed)

(* The path is read when the question is asked.  A device without a backup     *)
(* raises in the handler, which changes nothing.                               *)
OpenRestore(d) ==
  /\ LatestBackup(d) # {}
  /\ ~Running("restore")
  /\ Open("restore", d, LatestBackup(d))

Cancel == /\ alive /\ box = "none" /\ dlg # NoDialog
          /\ dlg' = NoDialog
          /\ UNCHANGED <<alive, sec, folder, job, orphan, box, ctx, depth, busy, clicks, history>>

(* A new thread takes the place of one that has ended but whose cleanup is     *)
(* still in the event queue.                                                   *)
Launch(k, j) == /\ job' = [job EXCEPT ![k] = j]
                /\ orphan' = IF job[k].st = "ended" THEN orphan \cup {k} ELSE orphan

(* Where the worker of an install begins, or goes on once it has its restore   *)
(* point.                                                                      *)
AfterPoint(ask, d) == IF ask /\ d # NoDevice THEN "query" ELSE "package"

(* Mutants: the progress is begun, or the context set, before the running      *)
(* install is noticed; the progress is not begun.                              *)
BeginFirst(d, ask, point) ==
  IF Running("install")
  THEN depth' = depth + 1 /\ UNCHANGED <<job, orphan, ctx>>
  ELSE /\ Launch("install", [NoJob EXCEPT !.st = IF point THEN "point" ELSE AfterPoint(ask, d),
                              !.op = "install", !.dev = d, !.ask = ask /\ d # NoDevice])
       /\ ctx' = d /\ depth' = depth + 1
ContextFirst(d, ask, point) ==
  IF Running("install")
  THEN ctx' = d /\ UNCHANGED <<job, orphan, depth>>
  ELSE /\ Launch("install", [NoJob EXCEPT !.st = IF point THEN "point" ELSE AfterPoint(ask, d),
                              !.op = "install", !.dev = d, !.ask = ask /\ d # NoDevice])
       /\ ctx' = d /\ depth' = depth + 1
NeverBegun(d, ask, point) ==
  IF Running("install")
  THEN UNCHANGED <<job, orphan, ctx, depth>>
  ELSE /\ Launch("install", [NoJob EXCEPT !.st = IF point THEN "point" ELSE AfterPoint(ask, d),
                              !.op = "install", !.dev = d, !.ask = ask /\ d # NoDevice])
       /\ ctx' = d /\ UNCHANGED depth

StartInstall(d, ask, point) ==
  IF Running("install")
  THEN UNCHANGED <<job, orphan, ctx, depth>>
  ELSE /\ Launch("install",
            [NoJob EXCEPT !.st = IF point THEN "point" ELSE AfterPoint(ask, d),
                          !.op = "install", !.dev = d, !.ask = ask /\ d # NoDevice])
       /\ ctx' = d
       /\ depth' = depth + 1

ConfirmInstall(ask, point) ==
  /\ alive /\ box = "none" /\ dlg.kind = "install"
  /\ dlg' = NoDialog
  /\ StartInstall(dlg.dev, ask, point)
  /\ UNCHANGED <<alive, sec, folder, box, busy, clicks, history>>

(* Mutant: the buttons are disabled before the running operation is noticed.   *)
BusyFirst(op, d, retry) ==
  IF Running("maint")
  THEN busy' = (busy \/ op # "restore_status") /\ UNCHANGED <<job, orphan>>
  ELSE /\ Launch("maint", [NoJob EXCEPT !.st = IF op = "backup_driver" THEN "query" ELSE "call",
                            !.op = op, !.dev = d, !.retry = retry])
       /\ busy' = (busy \/ op # "restore_status")

StartMaintenance(op, d, retry) ==
  IF Running("maint")
  THEN UNCHANGED <<job, orphan, busy>>
  ELSE /\ Launch("maint",
            [NoJob EXCEPT !.st = IF op = "backup_driver" THEN "query" ELSE "call",
                          !.op = op, !.dev = d, !.retry = retry])
       /\ busy' = (busy \/ op # "restore_status")

ConfirmMaintenance ==
  /\ alive /\ box = "none"
  /\ \/ dlg.kind = "backup" /\ StartMaintenance("backup_driver", dlg.dev, FALSE)
     \/ dlg.kind = "point" /\ StartMaintenance("create_restore", NoDevice, FALSE)
  /\ dlg' = NoDialog
  /\ UNCHANGED <<alive, sec, folder, box, ctx, depth, clicks, history>>

(* The Enable button, which is disabled while maintenance goes on, and the     *)
(* status the report asks for after an analysis.                               *)
ClickEnable ==
  /\ Click /\ dlg = NoDialog /\ ~busy
  /\ StartMaintenance("enable_restore", NoDevice, FALSE)
  /\ UNCHANGED <<alive, sec, folder, dlg, box, ctx, depth, history>>
RefreshStatus ==
  /\ Click
  /\ StartMaintenance("restore_status", NoDevice, FALSE)
  /\ UNCHANGED <<alive, sec, folder, dlg, box, ctx, depth, history>>

(* _start_driver_restore tests nothing: dropping the reference to a thread     *)
(* that runs aborts the program.                                               *)
StartRestore(p) ==
  IF Running("restore")
  THEN /\ alive' = FALSE /\ UNCHANGED <<job, orphan, depth>>
  ELSE /\ Launch("restore", [NoJob EXCEPT !.st = "call", !.op = "restore", !.dev = p[1],
                                          !.stamp = p[2]])
       /\ depth' = depth + 1
       /\ UNCHANGED alive

ConfirmRestore ==
  /\ alive /\ box = "none" /\ dlg.kind = "restore"
  /\ \E p \in dlg.list : StartRestore(p)
  /\ dlg' = NoDialog
  /\ UNCHANGED <<sec, folder, box, ctx, busy, clicks, history>>
RestoreSelected(p) ==
  /\ alive /\ box = "none" /\ dlg.kind = "backups" /\ p \in dlg.list
  /\ StartRestore(p)
  /\ dlg' = NoDialog
  /\ UNCHANGED <<sec, folder, box, ctx, busy, clicks, history>>

(* Removing a folder of the list; one that has gone already is left in it.     *)
RemoveSelected(p) ==
  /\ Click /\ dlg.kind = "backups" /\ p \in dlg.list /\ folder[p] # "none"
  /\ folder' = [folder EXCEPT ![p] = "none"]
  /\ dlg' = [dlg EXCEPT !.list = Listed \ {p}]
  /\ removed' = TRUE
  /\ UNCHANGED <<alive, sec, job, orphan, box, ctx, depth, busy, clash>>
------------------------------------------------------------------------------
(* The workers.                                                                *)
Work(k, st) == alive /\ job[k].st = st
Fail(k) == job' = [job EXCEPT ![k].st = "answer", ![k].ok = FALSE]
Step(k, st) == job' = [job EXCEPT ![k].st = st]
WorkerLeaves == UNCHANGED <<alive, sec, orphan, gui, clicks, removed>>

(* Mutant: a refused restore point ends the worker without a signal.           *)
PointSilent ==
  /\ Work("install", "point")
  /\ \/ Step("install", AfterPoint(job["install"].ask, job["install"].dev))
     \/ Step("install", "quit")
  /\ UNCHANGED <<folder, clash>> /\ WorkerLeaves
RestorePoint ==
  /\ Work("install", "point")
  /\ \/ Step("install", AfterPoint(job["install"].ask, job["install"].dev))
     \/ Fail("install")
  /\ UNCHANGED <<folder, clash>> /\ WorkerLeaves

(* backup_device_driver: the INF of the installed driver, then the folder of   *)
(* this second.                                                                *)
QueryDriver(k) ==
  /\ Work(k, "query")
  /\ \/ Fail(k) /\ UNCHANGED <<folder, clash>>
     \/ LET p == <<job[k].dev, sec>>
        IN /\ folder' = [folder EXCEPT ![p] = IF @ = "none" THEN "part" ELSE @]
           /\ clash' = (clash \/ folder[p] # "none")
           /\ job' = [job EXCEPT ![k].st = "export", ![k].stamp = sec]
  /\ WorkerLeaves

OwnFolder(k) == <<job[k].dev, job[k].stamp>>

(* pnputil /export-driver; a failure removes the folder.                       *)
ExportDriver(k) ==
  /\ Work(k, "export")
  /\ \/ /\ folder' = [folder EXCEPT ![OwnFolder(k)] = IF @ = "part" THEN "bare" ELSE @]
        /\ Step(k, "manifest")
     \/ folder' = [folder EXCEPT ![OwnFolder(k)] = "none"] /\ Fail(k)
  /\ UNCHANGED clash /\ WorkerLeaves

(* A failed write leaves the package without a readable manifest, and raises;  *)
(* so does a folder another worker has removed.                                *)
KeepOf(k) == IF k = "maint" /\ Keep = 0 THEN 3 ELSE Keep
AfterBackup(k) == IF k = "install" THEN "package" ELSE "answer"
WriteManifest(k) ==
  /\ Work(k, "manifest")
  /\ \/ /\ folder[OwnFolder(k)] # "none"
        /\ folder' = [folder EXCEPT ![OwnFolder(k)] = IF @ = "part" THEN @ ELSE "full"]
        /\ job' = [job EXCEPT ![k].st = IF KeepOf(k) > 0 THEN "prune" ELSE AfterBackup(k),
                              ![k].todo = IF KeepOf(k) > 0 THEN Device ELSE {},
                              ![k].ok = TRUE]
     \/ /\ folder' = [folder EXCEPT ![OwnFolder(k)] = IF @ = "full" THEN "bare" ELSE @]
        /\ Fail(k)
  /\ UNCHANGED clash /\ WorkerLeaves

(* prune_driver_backups goes through the folders of every device.              *)
Prune(k) ==
  /\ Work(k, "prune")
  /\ \/ \E d \in job[k].todo :
          /\ folder' = [p \in Path |-> IF p \in Pruned(d, KeepOf(k)) THEN "none" ELSE folder[p]]
          /\ job' = [job EXCEPT ![k].todo = @ \ {d}]
     \/ job[k].todo = {} /\ Step(k, AfterBackup(k)) /\ UNCHANGED folder
  /\ UNCHANGED clash /\ WorkerLeaves

(* install_driver_offer: capability, download, 7-Zip, the gate on a component's *)
(* version, then pnputil, the vendor's installer or Windows Update.            *)
GetPackage ==
  /\ Work("install", "package")
  /\ Step("install", "apply") \/ Fail("install")
  /\ UNCHANGED <<folder, clash>> /\ WorkerLeaves
ApplyDriver ==
  /\ Work("install", "apply")
  /\ \E ok \in BOOLEAN : job' = [job EXCEPT !["install"].st = "answer", !["install"].ok = ok]
  /\ UNCHANGED <<folder, clash>> /\ WorkerLeaves

(* The other calls: System Restore, and pnputil of a backup, which fails when  *)
(* the folder is gone.                                                         *)
CallSystem(k) ==
  /\ Work(k, "call")
  /\ \E ok \in BOOLEAN :
       /\ (k = "restore" /\ folder[OwnFolder(k)] = "none") => ~ok
       /\ job' = [job EXCEPT ![k].st = "answer", ![k].ok = ok]
  /\ UNCHANGED <<folder, clash>> /\ WorkerLeaves

WorkerStep(k) ==
  \/ k = "install" /\ (RestorePoint \/ GetPackage \/ ApplyDriver)
  \/ k # "restore" /\ (QueryDriver(k) \/ ExportDriver(k) \/ WriteManifest(k) \/ Prune(k))
  \/ k # "install" /\ CallSystem(k)
------------------------------------------------------------------------------
(* The GUI's event loop: a worker's answer, its thread leaving, its cleanup.   *)
Answered(k) == /\ alive /\ job[k].st = "answer" /\ k \notin orphan
               /\ job' = [job EXCEPT ![k].st = "quit"]
               /\ UNCHANGED <<alive, sec, folder, orphan, dlg, clicks, history>>

AnswerInstall == /\ Answered("install")
                 /\ ctx' = NoDevice /\ depth' = depth - 1
                 /\ UNCHANGED <<box, busy>>
AnswerRestore == /\ Answered("restore")
                 /\ depth' = depth - 1
                 /\ UNCHANGED <<box, ctx, busy>>

(* Two answers open a box that leads on: a restore point refused because       *)
(* System Restore is off, and System Restore switched on.                      *)
AnswerMaintenance ==
  /\ Answered("maint") /\ box = "none"
  /\ LET j == job["maint"]
     IN \/ j.op = "restore_status" /\ UNCHANGED <<box, busy>>
        \/ /\ j.op # "restore_status"
           /\ busy' = FALSE
           /\ \/ j.op = "create_restore" /\ ~j.ok /\ box' = "prompt"
              \/ j.op = "enable_restore" /\ j.ok /\ box' = IF j.retry THEN "retry" ELSE "enabled"
              \/ ~(j.op = "enable_restore" /\ j.ok) /\ UNCHANGED box
  /\ UNCHANGED <<ctx, depth>>

(* The prompt's Enable asks for a retry; what the box of a success leads to is *)
(* the status again, whose thread then runs when the retry asks for one.       *)
CloseBox ==
  /\ alive /\ box # "none"
  /\ box' = "none"
  /\ \/ box = "prompt" /\ UNCHANGED <<job, orphan, busy>>
     \/ box = "prompt" /\ StartMaintenance("enable_restore", NoDevice, TRUE)
     \/ box \in {"enabled", "retry"} /\ StartMaintenance("restore_status", NoDevice, FALSE)
  /\ UNCHANGED <<alive, sec, folder, dlg, ctx, depth, clicks, history>>

LeaveThread(k) == /\ alive /\ job[k].st = "quit"
                  /\ Step(k, "ended")
                  /\ UNCHANGED <<alive, sec, folder, orphan, gui, clicks, history>>

(* The cleanup drops the reference, whichever thread it is to by now.          *)
Cleanup(k) ==
  /\ alive
  /\ \/ /\ k \in orphan
        /\ alive' = ~Running(k)
        /\ orphan' = orphan \ {k}
     \/ k \notin orphan /\ job[k].st = "ended" /\ UNCHANGED <<alive, orphan>>
  /\ job' = [job EXCEPT ![k] = NoJob]
  /\ UNCHANGED <<sec, folder, gui, clicks, history>>

(* Killed, or the power fails.  The pnputil a dead program had started may     *)
(* still finish its export.                                                    *)
Stop == /\ Click
        /\ alive' = FALSE
        /\ UNCHANGED <<sec, folder, job, orphan, gui, history>>
ExportOutlives(k) ==
  /\ ~alive /\ job[k].st = "export"
  /\ folder' = [folder EXCEPT ![OwnFolder(k)] = IF @ = "part" THEN "bare" ELSE @]
  /\ job' = [job EXCEPT ![k] = NoJob]
  /\ UNCHANGED <<alive, sec, orphan, gui, clicks, history>>
Restart == /\ ~alive
           /\ alive' = TRUE
           /\ job' = [k \in Worker |-> NoJob] /\ orphan' = {}
           /\ dlg' = NoDialog /\ box' = "none" /\ ctx' = NoDevice /\ depth' = 0 /\ busy' = FALSE
           /\ UNCHANGED <<sec, folder, clicks, history>>

Tick == /\ sec < MaxSec
        /\ sec' = sec + 1
        /\ UNCHANGED <<alive, folder, job, orphan, gui, clicks, history>>
------------------------------------------------------------------------------
UserStep ==
  \/ \E d \in Device \cup {NoDevice} : OpenInstall(d)
  \/ \E d \in Device : OpenBackup(d) \/ OpenRestore(d)
  \/ OpenPoint \/ OpenBackups \/ Cancel
  \/ \E ask, point \in BOOLEAN : ConfirmInstall(ask, point)
  \/ ConfirmMaintenance \/ ConfirmRestore \/ ClickEnable \/ RefreshStatus
  \/ \E p \in Path : RestoreSelected(p) \/ RemoveSelected(p)
  \/ CloseBox

EventStep == AnswerInstall \/ AnswerRestore \/ AnswerMaintenance
             \/ \E k \in Worker : LeaveThread(k) \/ Cleanup(k)

Fault == Stop \/ Restart \/ \E k \in Worker : ExportOutlives(k)

Next == UserStep \/ EventStep \/ Tick \/ Fault \/ \E k \in Worker : WorkerStep(k)

(* Threads run and the event loop delivers; the user, the clock and faults do  *)
(* as they please.                                                             *)
Fairness ==
  /\ \A k \in Worker : WF_vars(WorkerStep(k)) /\ WF_vars(LeaveThread(k)) /\ WF_vars(Cleanup(k))
  /\ WF_vars(AnswerInstall) /\ WF_vars(AnswerRestore) /\ WF_vars(AnswerMaintenance)

Spec == Init /\ [][Next]_vars
FairSpec == Spec /\ Fairness
------------------------------------------------------------------------------
TypeOK ==
  /\ alive \in BOOLEAN /\ sec \in Stamp
  /\ folder \in [Path -> FolderState]
  /\ job \in [Worker -> Job] /\ orphan \in SUBSET Worker
  /\ dlg \in Dialog /\ box \in {"none", "prompt", "enabled", "retry"}
  /\ ctx \in Device \cup {NoDevice} /\ depth \in Nat /\ busy \in BOOLEAN
  /\ clicks \in 0..MaxClicks /\ clash \in BOOLEAN /\ removed \in BOOLEAN

(* While a worker installs after making the backup it was asked for, a backup  *)
(* of the device that can be put back exists, although the pruning of both     *)
(* workers, running exports of both and leftovers of a stopped program meet in *)
(* the folders: two folders kept suffice for that, one would not.  Excluded    *)
(* are what the user removes and two backups within one second.                *)
SavedBackupStands ==
  (/\ Keep >= 2 /\ alive /\ ~clash /\ ~removed
   /\ job["install"].ask /\ job["install"].st \in {"package", "apply"})
  => HasBackup(job["install"].dev)

(* _last_install_context names the device of the install whose answer is to    *)
(* come, although further installs are asked for meanwhile.                    *)
ContextOfInstall ==
  alive => ctx = IF Unanswered("install") THEN job["install"].dev ELSE NoDevice

(* The task progress counts the installs and restores still to be answered.    *)
BarCounts ==
  alive => depth = Cardinality({k \in {"install", "restore"} : Unanswered(k)})

(* What has begun the progress ends it: no failing step of a worker leaves the *)
(* bar on.                                                                     *)
BarEnds == depth > 0 ~> (depth = 0 \/ ~alive)

(* The maintenance buttons come back, whatever order the status probe, the     *)
(* boxes and the operations are in.                                            *)
ButtonsComeBack == busy ~> (~busy \/ ~alive)
==============================================================================
