-------------------------- MODULE DriverInstallProofs --------------------------
(* The invariants of DriverInstall, for any devices, bounds and keep count.    *)
EXTENDS DriverInstall, FiniteSetTheorems, TLAPS

Backing == {"query", "export", "manifest", "prune"}

(* Who makes a backup makes it of a device, in a folder named by a second.     *)
Shape ==
  /\ job["install"].st \in Backing => job["install"].ask
  /\ job["install"].ask => job["install"].dev \in Device
  /\ job["maint"].st \in Backing => job["maint"].dev \in Device
  /\ dlg.kind = "backup" => dlg.dev \in Device
  /\ \A k \in {"install", "maint"} :
       job[k].st \in Backing \ {"query"} => job[k].stamp \in Stamp

Past == \A p \in Path : folder[p] # "none" => p[2] <= sec

Begun(k) == IF Unanswered(k) THEN 1 ELSE 0
Bar == alive => depth = Begun("install") + Begun("restore")

Basics == TypeOK /\ Shape /\ Past /\ ContextOfInstall /\ Bar

(* The steps, by what they touch.                                              *)
Opens == \/ \E d \in Device \cup {NoDevice} : OpenInstall(d)
         \/ \E d \in Device : OpenBackup(d) \/ OpenRestore(d)
         \/ OpenPoint \/ OpenBackups \/ Cancel

LEMMA NoJobIsJob == NoJob \in Job
BY DEF NoJob, Job, Stage, NoStamp

LEMMA InitBasics == Init => Basics
<1> SUFFICES ASSUME Init PROVE Basics
  OBVIOUS
<1> USE DEF Init
<1>1. TypeOK
  <2>1. dlg \in Dialog
    BY DEF Dialog, NoDialog
  <2>2. sec \in Stamp /\ clicks \in 0..MaxClicks
    BY InstallConstants DEF Stamp
  <2>3. job \in [Worker -> Job]
    BY NoJobIsJob
  <2>4. folder \in [Path -> FolderState]
    BY DEF FolderState
  <2>5. QED
    BY <2>1, <2>2, <2>3, <2>4 DEF TypeOK
<1>2. \A k \in Worker : job[k] = NoJob
  OBVIOUS
<1>3. Shape
  BY <1>2 DEF Shape, NoJob, NoDialog, Backing, Worker
<1>4. Past
  BY DEF Past
<1>5. ContextOfInstall /\ Bar
  BY <1>2 DEF ContextOfInstall, Bar, Begun, Unanswered, NoJob, Worker
<1>6. QED
  BY <1>1, <1>3, <1>4, <1>5 DEF Basics

LEMMA ListedPaths == Listed \in SUBSET Path /\ \A d \in Device : LatestBackup(d) \in SUBSET Path
BY DEF Listed, LatestBackup, Path

LEMMA OpensBasics == Basics /\ Opens => Basics'
<1> SUFFICES ASSUME Basics, Opens PROVE Basics'
  OBVIOUS
<1> USE DEF Basics
<1>1. /\ dlg' \in Dialog /\ (dlg'.kind = "backup" => dlg'.dev \in Device)
      /\ clicks' \in 0..MaxClicks
      /\ UNCHANGED <<alive, sec, folder, job, orphan, box, ctx, depth, busy, history>>
  BY ListedPaths, InstallConstants
  DEF Opens, OpenInstall, OpenBackup, OpenRestore, OpenPoint, OpenBackups, Cancel, Open, Click,
      TypeOK, Dialog, NoDialog
<1>2. QED
  BY <1>1 DEF TypeOK, Shape, Past, ContextOfInstall, Bar, Begun, Unanswered, history

(* Launching a job that is typed, of the right shape, keeps the types.         *)
LEMMA LaunchJob ==
  ASSUME Basics, NEW k \in Worker, NEW j \in Job, Launch(k, j)
  PROVE  job' \in [Worker -> Job] /\ orphan' \in SUBSET Worker
BY DEF Basics, TypeOK, Launch

LEMMA InstallFacts ==
  ASSUME Basics, NEW d \in Device \cup {NoDevice}, NEW ask \in BOOLEAN, NEW point \in BOOLEAN,
         StartInstall(d, ask, point), UNCHANGED <<alive, sec, folder, box, busy, clicks, history>>,
         dlg' = NoDialog
  PROVE  Basics'
<1> USE DEF Basics
<1>1. NoDialog \in Dialog /\ NoDialog.kind # "backup"
  BY DEF NoDialog, Dialog
<1>2. CASE Running("install")
  BY <1>1, <1>2
  DEF StartInstall, TypeOK, Shape, Past, ContextOfInstall, Bar, Begun, Unanswered, history
<1>3. CASE ~Running("install")
  <2> DEFINE j == [NoJob EXCEPT !.st = IF point THEN "point" ELSE AfterPoint(ask, d),
                               !.op = "install", !.dev = d, !.ask = ask /\ d # NoDevice]
  <2>1. /\ j \in Job /\ j.st \in {"point", "query", "package"} /\ j.dev = d
        /\ (j.st = "query" => j.ask) /\ (j.ask => j.dev \in Device)
    BY DEF NoJob, Job, Stage, NoStamp, AfterPoint
  <2>2. Launch("install", j) /\ ctx' = d /\ depth' = depth + 1
    BY <1>3 DEF StartInstall
  <2>3. /\ job' \in [Worker -> Job] /\ orphan' \in SUBSET Worker
        /\ job'["install"] = j /\ job'["maint"] = job["maint"] /\ job'["restore"] = job["restore"]
    BY <2>1, <2>2, LaunchJob DEF Launch, TypeOK, Worker
  <2>4. ~Unanswered("install") /\ Unanswered("install")'
    BY <1>3, <2>1, <2>3 DEF Running, Unanswered
  <2> HIDE DEF j
  <2>5. TypeOK'
    BY <1>1, <2>2, <2>3 DEF TypeOK, history
  <2>6. Shape'
    BY <1>1, <2>1, <2>3 DEF Shape, Backing
  <2>7. Past'
    BY DEF Past
  <2>8. ContextOfInstall' /\ Bar'
    BY <2>1, <2>2, <2>3, <2>4 DEF ContextOfInstall, Bar, Begun, Unanswered, TypeOK
  <2>9. QED
    BY <2>5, <2>6, <2>7, <2>8
<1>4. QED
  BY <1>2, <1>3

LEMMA MaintenanceFacts ==
  ASSUME Basics, NEW op \in MaintOp, NEW d \in Device \cup {NoDevice}, NEW retry \in BOOLEAN,
         op = "backup_driver" => d \in Device,
         StartMaintenance(op, d, retry)
  PROVE  /\ job' \in [Worker -> Job] /\ orphan' \in SUBSET Worker /\ busy' \in BOOLEAN
         /\ job'["install"] = job["install"] /\ job'["restore"] = job["restore"]
         /\ \/ job'["maint"] = job["maint"] /\ Running("maint")
            \/ /\ ~Running("maint")
               /\ job'["maint"].st \in {"query", "call"}
               /\ job'["maint"].st = "query" => job'["maint"].dev \in Device
<1>1. CASE Running("maint")
  BY <1>1 DEF StartMaintenance, Basics, TypeOK
<1>2. CASE ~Running("maint")
  <2> DEFINE j == [NoJob EXCEPT !.st = IF op = "backup_driver" THEN "query" ELSE "call",
                               !.op = op, !.dev = d, !.retry = retry]
  <2>1. /\ j \in Job /\ j.st \in {"query", "call"} /\ (j.st = "query" => j.dev \in Device)
    BY DEF NoJob, Job, Stage, NoStamp
  <2>2. Launch("maint", j) /\ busy' \in BOOLEAN
    BY <1>2 DEF StartMaintenance, Basics, TypeOK
  <2> HIDE DEF j
  <2>3. QED
    BY <1>2, <2>1, <2>2, LaunchJob DEF Launch, Basics, TypeOK, Worker
<1>3. QED
  BY <1>1, <1>2

(* A step that starts maintenance, or leaves it, and touches no other worker.  *)
LEMMA MaintenanceBasics ==
  ASSUME Basics, NEW op \in MaintOp, NEW d \in Device \cup {NoDevice}, NEW retry \in BOOLEAN,
         op = "backup_driver" => d \in Device,
         StartMaintenance(op, d, retry),
         dlg' \in {dlg, NoDialog}, box' \in {box, "none"}, clicks' \in 0..MaxClicks,
         UNCHANGED <<alive, sec, folder, ctx, depth, history>>
  PROVE  Basics'
<1> USE DEF Basics
<1>1. NoDialog \in Dialog /\ NoDialog.kind # "backup"
  BY DEF NoDialog, Dialog
<1>2. TypeOK'
  BY <1>1, MaintenanceFacts DEF TypeOK, history
<1>3. Shape'
  BY <1>1, MaintenanceFacts DEF Shape, Backing
<1>4. Past'
  BY DEF Past
<1>5. ContextOfInstall' /\ Bar'
  BY MaintenanceFacts DEF ContextOfInstall, Bar, Begun, Unanswered
<1>6. QED
  BY <1>2, <1>3, <1>4, <1>5

LEMMA RestoreBasics ==
  ASSUME Basics, NEW p \in Path, StartRestore(p), dlg' = NoDialog,
         UNCHANGED <<sec, folder, box, ctx, busy, clicks, history>>
  PROVE  Basics'
<1> USE DEF Basics
<1>1. NoDialog \in Dialog /\ NoDialog.kind # "backup"
  BY DEF NoDialog, Dialog
<1>2. CASE Running("restore")
  BY <1>1, <1>2
  DEF StartRestore, TypeOK, Shape, Past, ContextOfInstall, Bar, history
<1>3. CASE ~Running("restore")
  <2> DEFINE j == [NoJob EXCEPT !.st = "call", !.op = "restore", !.dev = p[1], !.stamp = p[2]]
  <2>1. j \in Job /\ j.st = "call"
    BY DEF NoJob, Job, Stage, Path
  <2>2. Launch("restore", j) /\ depth' = depth + 1 /\ alive' = alive
    BY <1>3 DEF StartRestore
  <2> HIDE DEF j
  <2>3. /\ job' \in [Worker -> Job] /\ orphan' \in SUBSET Worker
        /\ job'["restore"] = j /\ job'["maint"] = job["maint"] /\ job'["install"] = job["install"]
    BY <2>1, <2>2, LaunchJob DEF Launch, TypeOK, Worker
  <2>4. ~Unanswered("restore") /\ Unanswered("restore")'
    BY <1>3, <2>1, <2>3 DEF Running, Unanswered
  <2>5. TypeOK'
    BY <1>1, <2>2, <2>3 DEF TypeOK, history
  <2>6. Shape'
    BY <1>1, <2>3 DEF Shape
  <2>7. Past'
    BY DEF Past
  <2>8. ContextOfInstall' /\ Bar'
    BY <2>2, <2>3, <2>4 DEF ContextOfInstall, Bar, Begun, Unanswered, TypeOK
  <2>9. QED
    BY <2>5, <2>6, <2>7, <2>8
<1>4. QED
  BY <1>2, <1>3

LEMMA ClickCounts == TypeOK /\ Click => clicks' \in 0..MaxClicks
BY InstallConstants DEF Click, TypeOK

LEMMA UserBasics == Basics /\ UserStep => Basics'
<1> SUFFICES ASSUME Basics, UserStep PROVE Basics'
  OBVIOUS
<1>0. NoDevice \in Device \cup {NoDevice} /\ TypeOK /\ clicks + 1 \in Nat
  BY DEF Basics, TypeOK
<1>1. CASE Opens
  BY <1>1, OpensBasics
<1>2. ASSUME NEW ask \in BOOLEAN, NEW point \in BOOLEAN, ConfirmInstall(ask, point) PROVE Basics'
  <2>1. dlg.dev \in Device \cup {NoDevice}
    BY <1>0 DEF TypeOK, Dialog
  <2>2. QED
    BY <1>2, <2>1, InstallFacts DEF ConfirmInstall
<1>3. CASE ConfirmMaintenance
  <2>1. /\ dlg' = NoDialog /\ box' = box /\ clicks' \in 0..MaxClicks
        /\ UNCHANGED <<alive, sec, folder, ctx, depth, history>>
    BY <1>0, <1>3 DEF ConfirmMaintenance, TypeOK
  <2>2. CASE dlg.kind = "backup" /\ StartMaintenance("backup_driver", dlg.dev, FALSE)
    <3>1. dlg.dev \in Device
      BY <2>2 DEF Basics, Shape
    <3>2. QED
      BY <2>1, <2>2, <3>1, MaintenanceBasics DEF MaintOp
  <2>3. CASE StartMaintenance("create_restore", NoDevice, FALSE)
    BY <1>0, <2>1, <2>3, MaintenanceBasics DEF MaintOp
  <2>4. QED
    BY <1>3, <2>2, <2>3 DEF ConfirmMaintenance
<1>4. CASE ClickEnable
  <2>1. /\ Click /\ StartMaintenance("enable_restore", NoDevice, FALSE)
        /\ UNCHANGED <<alive, sec, folder, dlg, box, ctx, depth, history>>
    BY <1>4, Zenon DEF ClickEnable
  <2>2. clicks' \in 0..MaxClicks
    BY <1>0, <2>1, ClickCounts
  <2>3. QED
    BY <1>0, <2>1, <2>2, MaintenanceBasics DEF MaintOp
<1>5. CASE RefreshStatus
  <2>1. /\ Click /\ StartMaintenance("restore_status", NoDevice, FALSE)
        /\ UNCHANGED <<alive, sec, folder, dlg, box, ctx, depth, history>>
    BY <1>5, Zenon DEF RefreshStatus
  <2>2. clicks' \in 0..MaxClicks
    BY <1>0, <2>1, ClickCounts
  <2>3. QED
    BY <1>0, <2>1, <2>2, MaintenanceBasics DEF MaintOp
<1>6. CASE ConfirmRestore
  <2>1. dlg.list \in SUBSET Path
    BY <1>0 DEF TypeOK, Dialog
  <2>2. QED
    BY <1>6, <2>1, RestoreBasics DEF ConfirmRestore
<1>7. ASSUME NEW p \in Path, RestoreSelected(p) PROVE Basics'
  BY <1>7, RestoreBasics DEF RestoreSelected
<1>8. ASSUME NEW p \in Path, RemoveSelected(p) PROVE Basics'
  <2>1. folder' \in [Path -> FolderState] /\ (\A q \in Path : folder'[q] # "none" => folder[q] # "none")
    BY <1>0, <1>8 DEF RemoveSelected, TypeOK, FolderState
  <2>2. dlg' \in Dialog /\ dlg'.kind = dlg.kind /\ dlg'.dev = dlg.dev
    BY <1>0, <1>8, ListedPaths DEF RemoveSelected, TypeOK, Dialog
  <2>3. clicks' \in 0..MaxClicks /\ removed' = TRUE
        /\ UNCHANGED <<alive, sec, job, orphan, box, ctx, depth, busy, clash>>
    BY <1>0, <1>8, InstallConstants DEF RemoveSelected, Click, TypeOK
  <2>4. QED
    BY <2>1, <2>2, <2>3 DEF Basics, TypeOK, Shape, Past, ContextOfInstall, Bar, Begun, Unanswered
<1>9. CASE CloseBox
  <2>1. /\ dlg' = dlg /\ box' = "none" /\ clicks' \in 0..MaxClicks
        /\ UNCHANGED <<alive, sec, folder, ctx, depth, history>>
    BY <1>0, <1>9 DEF CloseBox, TypeOK
  <2>2. CASE UNCHANGED <<job, orphan, busy>>
    BY <2>1, <2>2
    DEF Basics, TypeOK, Shape, Past, ContextOfInstall, Bar, Begun, Unanswered, history
  <2>3. CASE StartMaintenance("enable_restore", NoDevice, TRUE)
    BY <1>0, <2>1, <2>3, MaintenanceBasics DEF MaintOp
  <2>4. CASE StartMaintenance("restore_status", NoDevice, FALSE)
    BY <1>0, <2>1, <2>4, MaintenanceBasics DEF MaintOp
  <2>5. QED
    BY <1>9, <2>2, <2>3, <2>4 DEF CloseBox
<1>10. QED
  BY <1>1, <1>2, <1>3, <1>4, <1>5, <1>6, <1>7, <1>8, <1>9 DEF UserStep, Opens

(***************************************************************************)
(* Workers, events and faults                                              *)
(***************************************************************************)
(* A step of a worker: its stage goes on or it answers; its device, the        *)
(* context, the progress and the other workers are left alone.                 *)
GoesOn(k) ==
  /\ job' \in [Worker -> Job]
  /\ \A o \in Worker \ {k} : job'[o] = job[o]
  /\ job'[k].dev = job[k].dev /\ job'[k].ask = job[k].ask
  /\ job[k].st \notin {"none", "quit", "ended"} /\ job'[k].st \notin {"none", "quit", "ended"}
  /\ job'[k].st \in Backing => \/ job[k].st \in Backing
                               \/ k = "install" /\ job[k].ask
  /\ job'[k].st \in Backing \ {"query"} => job'[k].stamp \in Stamp

LEMMA GoesOnTo ==
  ASSUME TypeOK, NEW k \in Worker, NEW j \in Job, job' = [job EXCEPT ![k] = j],
         j.dev = job[k].dev, j.ask = job[k].ask,
         job[k].st \notin {"none", "quit", "ended"}, j.st \notin {"none", "quit", "ended"},
         j.st \notin Backing \/ job[k].st \in Backing \/ (k = "install" /\ job[k].ask),
         j.st \notin Backing \/ j.st = "query" \/ j.stamp \in Stamp
  PROVE  GoesOn(k)
<1>1. job' \in [Worker -> Job] /\ job'[k] = j /\ \A o \in Worker \ {k} : job'[o] = job[o]
  BY DEF TypeOK
<1>2. QED
  BY <1>1 DEF GoesOn

LEMMA MovesOn ==
  ASSUME TypeOK, NEW k \in Worker, NEW st \in Stage, Step(k, st),
         job[k].st \notin {"none", "quit", "ended"}, st \notin {"none", "quit", "ended"},
         st \notin Backing \/ job[k].st \in Backing \/ (k = "install" /\ job[k].ask),
         st \notin Backing \/ st = "query" \/ job[k].stamp \in Stamp
  PROVE  GoesOn(k)
<1> DEFINE j == [job[k] EXCEPT !.st = st]
<1>1. job[k] \in Job /\ job' = [job EXCEPT ![k] = j]
  BY DEF TypeOK, Step
<1>2. j \in Job /\ j.st = st /\ j.dev = job[k].dev /\ j.ask = job[k].ask /\ j.stamp = job[k].stamp
  BY <1>1 DEF Job
<1> HIDE DEF j
<1>3. QED
  BY <1>1, <1>2, GoesOnTo

LEMMA Answers ==
  ASSUME TypeOK, NEW k \in Worker, NEW ok \in BOOLEAN,
         job[k].st \notin {"none", "quit", "ended"},
         job' = [job EXCEPT ![k].st = "answer", ![k].ok = ok]
  PROVE  GoesOn(k)
<1> DEFINE j == [job[k] EXCEPT !.st = "answer", !.ok = ok]
<1>1. job[k] \in Job /\ job' = [job EXCEPT ![k] = j]
  BY DEF TypeOK
<1>2. j \in Job /\ j.st = "answer" /\ j.dev = job[k].dev /\ j.ask = job[k].ask
  BY <1>1 DEF Job, Stage
<1> HIDE DEF j
<1>3. QED
  BY <1>1, <1>2, GoesOnTo DEF Backing

LEMMA Fails ==
  ASSUME TypeOK, NEW k \in Worker, job[k].st \notin {"none", "quit", "ended"}, Fail(k)
  PROVE  GoesOn(k)
BY Answers DEF Fail

LEMMA WorkerGoesOn ==
  ASSUME Basics, NEW k \in Worker, WorkerStep(k)
  PROVE  GoesOn(k)
<1>0. TypeOK /\ Shape /\ job[k] \in Job /\ sec \in Stamp
  BY DEF Basics, TypeOK
<1>1. CASE k = "install" /\ RestorePoint
  <2>1. CASE Step("install", AfterPoint(job["install"].ask, job["install"].dev))
    <3>1. AfterPoint(job["install"].ask, job["install"].dev) \in {"query", "package"}
      BY DEF AfterPoint
    <3>2. AfterPoint(job["install"].ask, job["install"].dev) = "query" => job["install"].ask
      BY DEF AfterPoint
    <3>3. QED
      BY <1>0, <1>1, <2>1, <3>1, <3>2, MovesOn DEF RestorePoint, Work, Stage, Backing
  <2>2. QED
    BY <1>0, <1>1, <2>1, Fails DEF RestorePoint, Work
<1>2. CASE k = "install" /\ GetPackage
  <2>1. CASE Step("install", "apply")
    BY <1>0, <1>2, <2>1, MovesOn DEF GetPackage, Work, Stage, Backing
  <2>2. QED
    BY <1>0, <1>2, <2>1, Fails DEF GetPackage, Work
<1>3. CASE k = "install" /\ ApplyDriver
  BY <1>0, <1>3, Answers DEF ApplyDriver, Work
<1>4. CASE k # "restore" /\ QueryDriver(k)
  <2>1. CASE Fail(k)
    BY <1>0, <1>4, <2>1, Fails DEF QueryDriver, Work
  <2>2. CASE job' = [job EXCEPT ![k].st = "export", ![k].stamp = sec]
    BY <1>0, <1>4, <2>2 DEF QueryDriver, Work, GoesOn, TypeOK, Job, Stage, Backing
  <2>3. QED
    BY <1>4, <2>1, <2>2 DEF QueryDriver
<1>5. CASE k # "restore" /\ ExportDriver(k)
  <2>1. CASE Step(k, "manifest")
    <3>1. job[k].stamp \in Stamp /\ job[k].st = "export"
      BY <1>0, <1>5 DEF Shape, ExportDriver, Work, Backing, Worker
    <3>2. QED
      BY <1>0, <2>1, <3>1, MovesOn DEF Stage, Backing
  <2>2. QED
    BY <1>0, <1>5, <2>1, Fails DEF ExportDriver, Work
<1>6. CASE k # "restore" /\ WriteManifest(k)
  <2>1. CASE Fail(k)
    BY <1>0, <1>6, <2>1, Fails DEF WriteManifest, Work
  <2>2. CASE job' = [job EXCEPT ![k].st = IF KeepOf(k) > 0 THEN "prune" ELSE AfterBackup(k),
                                ![k].todo = IF KeepOf(k) > 0 THEN Device ELSE {},
                                ![k].ok = TRUE]
    <3>1. job[k].stamp \in Stamp /\ job[k].st = "manifest"
      BY <1>0, <1>6 DEF Shape, WriteManifest, Work, Backing, Worker
    <3>2. AfterBackup(k) \in {"package", "answer"}
      BY DEF AfterBackup
    <3> DEFINE st == IF KeepOf(k) > 0 THEN "prune" ELSE AfterBackup(k)
               todo == IF KeepOf(k) > 0 THEN Device ELSE {}
    <3>3. st \in {"prune", "package", "answer"} /\ todo \in SUBSET Device
      BY <3>2
    <3>4. job' = [job EXCEPT ![k].st = st, ![k].todo = todo, ![k].ok = TRUE]
      BY <2>2
    <3> HIDE DEF st, todo
    <3>5. QED
      BY <1>0, <3>1, <3>3, <3>4 DEF GoesOn, TypeOK, Job, Stage, Backing
  <2>3. QED
    BY <1>6, <2>1, <2>2 DEF WriteManifest
<1>7. CASE k # "restore" /\ Prune(k)
  <2>1. job[k].stamp \in Stamp /\ job[k].st = "prune"
    BY <1>0, <1>7 DEF Shape, Prune, Work, Backing, Worker
  <2>2. CASE Step(k, AfterBackup(k))
    BY <1>0, <2>1, <2>2, MovesOn DEF AfterBackup, Stage, Backing
  <2>3. ASSUME NEW d \in Device, job' = [job EXCEPT ![k].todo = @ \ {d}] PROVE GoesOn(k)
    BY <1>0, <2>1, <2>3 DEF GoesOn, TypeOK, Job, Stage, Backing
  <2>4. job[k].todo \in SUBSET Device
    BY <1>0 DEF Job
  <2>5. QED
    BY <1>7, <2>2, <2>3, <2>4 DEF Prune
<1>8. CASE k # "install" /\ CallSystem(k)
  BY <1>0, <1>8, Answers DEF CallSystem, Work
<1>9. QED
  BY <1>1, <1>2, <1>3, <1>4, <1>5, <1>6, <1>7, <1>8 DEF WorkerStep

(* The folders a worker leaves are of this second or earlier.                  *)
LEMMA WorkerFolders ==
  ASSUME Basics, NEW k \in Worker, WorkerStep(k)
  PROVE  /\ folder' \in [Path -> FolderState] /\ Past' /\ clash' \in BOOLEAN
         /\ WorkerLeaves
<1>0. TypeOK /\ Past /\ sec \in Stamp /\ folder \in [Path -> FolderState] /\ clash \in BOOLEAN
  BY DEF Basics, TypeOK
<1>1. CASE RestorePoint \/ GetPackage \/ ApplyDriver \/ CallSystem(k)
  BY <1>0, <1>1 DEF RestorePoint, GetPackage, ApplyDriver, CallSystem, WorkerLeaves, Past
<1>2. CASE QueryDriver(k)
  <2> DEFINE p == <<job[k].dev, sec>>
  <2>1. WorkerLeaves /\ sec' = sec
    BY <1>2 DEF QueryDriver, WorkerLeaves
  <2>2. CASE UNCHANGED <<folder, clash>>
    BY <1>0, <2>1, <2>2 DEF Past
  <2>3. CASE /\ folder' = [folder EXCEPT ![p] = IF @ = "none" THEN "part" ELSE @]
             /\ clash' = (clash \/ folder[p] # "none")
    <3>1. folder' \in [Path -> FolderState]
      BY <1>0, <2>3 DEF FolderState
    <3>2. \A q \in Path : q = p \/ folder'[q] = folder[q]
      BY <1>0, <2>3
    <3>3. sec <= sec /\ p[2] = sec
      BY <1>0 DEF Stamp
    <3>4. clash' \in BOOLEAN
      BY <2>3
    <3>5. QED
      BY <1>0, <2>1, <3>1, <3>2, <3>3, <3>4 DEF Past
  <2>4. QED
    BY <1>2, <2>2, <2>3 DEF QueryDriver
<1>3. CASE ExportDriver(k) \/ WriteManifest(k)
  <2>1. WorkerLeaves /\ sec' = sec /\ clash' = clash
    BY <1>3 DEF ExportDriver, WriteManifest, WorkerLeaves
  <2>2. \/ folder' = [folder EXCEPT ![OwnFolder(k)] = IF @ = "part" THEN "bare" ELSE @]
        \/ folder' = [folder EXCEPT ![OwnFolder(k)] = "none"]
        \/ /\ folder[OwnFolder(k)] # "none"
           /\ folder' = [folder EXCEPT ![OwnFolder(k)] = IF @ = "part" THEN @ ELSE "full"]
        \/ folder' = [folder EXCEPT ![OwnFolder(k)] = IF @ = "full" THEN "bare" ELSE @]
    BY <1>3 DEF ExportDriver, WriteManifest
  <2>3. QED
    BY <1>0, <2>1, <2>2 DEF Past, FolderState
<1>4. CASE Prune(k)
  <2>1. WorkerLeaves /\ sec' = sec /\ clash' = clash
    BY <1>4 DEF Prune, WorkerLeaves
  <2>2. CASE UNCHANGED folder
    BY <1>0, <2>1, <2>2 DEF Past
  <2>3. ASSUME NEW d,
               folder' = [p \in Path |-> IF p \in Pruned(d, KeepOf(k)) THEN "none" ELSE folder[p]]
        PROVE  folder' \in [Path -> FolderState] /\ Past'
    <3>1. \A p \in Path : folder'[p] \in {"none", folder[p]}
      BY <2>3
    <3>2. QED
      BY <1>0, <2>1, <2>3, <3>1 DEF Past, FolderState
  <2>4. QED
    BY <1>0, <1>4, <2>1, <2>2, <2>3 DEF Prune
<1>5. QED
  BY <1>1, <1>2, <1>3, <1>4 DEF WorkerStep

LEMMA WorkerBasics ==
  ASSUME Basics, NEW k \in Worker, WorkerStep(k)
  PROVE  Basics'
<1> USE DEF Basics
<1>1. GoesOn(k)
  BY WorkerGoesOn
<1>2. /\ folder' \in [Path -> FolderState] /\ Past' /\ clash' \in BOOLEAN
      /\ UNCHANGED <<alive, sec, orphan, dlg, box, ctx, depth, busy, clicks, removed>>
  BY WorkerFolders DEF WorkerLeaves, gui
<1>3. TypeOK'
  BY <1>1, <1>2 DEF TypeOK, GoesOn
<1>4. Shape'
  <2>1. CASE k = "install"
    BY <1>1, <1>2, <2>1 DEF Shape, GoesOn, Worker
  <2>2. CASE k = "maint"
    BY <1>1, <1>2, <2>2 DEF Shape, GoesOn, Worker
  <2>3. CASE k = "restore"
    BY <1>1, <1>2, <2>3 DEF Shape, GoesOn, Worker
  <2>4. QED
    BY <2>1, <2>2, <2>3 DEF Worker
<1>5. \A o \in Worker : Unanswered(o)' = Unanswered(o) /\ job'[o].dev = job[o].dev
  BY <1>1 DEF GoesOn, Unanswered
<1>6. ContextOfInstall' /\ Bar'
  BY <1>2, <1>5 DEF ContextOfInstall, Bar, Begun, Worker
<1>7. QED
  BY <1>2, <1>3, <1>4, <1>6

LEMMA EventBasics == Basics /\ EventStep => Basics'
<1> SUFFICES ASSUME Basics, EventStep PROVE Basics'
  OBVIOUS
<1>0. TypeOK /\ \A k \in Worker : job[k] \in Job
  BY DEF Basics, TypeOK
<1>a. ASSUME NEW k \in Worker, NEW st \in {"quit", "ended"}, Step(k, st)
      PROVE  /\ job' \in [Worker -> Job] /\ job'[k].st = st
             /\ job'[k].dev = job[k].dev /\ job'[k].ask = job[k].ask
             /\ \A o \in Worker \ {k} : job'[o] = job[o]
  <2> DEFINE j == [job[k] EXCEPT !.st = st]
  <2>1. j \in Job /\ j.st = st /\ j.dev = job[k].dev /\ j.ask = job[k].ask
    BY <1>0 DEF Job, Stage
  <2>2. job' = [job EXCEPT ![k] = j]
    BY <1>a, <1>0 DEF Step, TypeOK
  <2> HIDE DEF j
  <2>3. QED
    BY <1>0, <2>1, <2>2 DEF TypeOK
<1>b. ASSUME NEW k \in Worker, Answered(k)
      PROVE  /\ Step(k, "quit") /\ Unanswered(k) /\ alive
             /\ UNCHANGED <<alive, sec, folder, orphan, dlg, clicks, clash, removed>>
  BY <1>b DEF Answered, Step, Unanswered, history
<1>1. CASE AnswerInstall
  <2>1. /\ Answered("install") /\ ctx' = NoDevice /\ depth' = depth - 1
        /\ UNCHANGED <<box, busy>> /\ "install" \in Worker
    BY <1>1 DEF AnswerInstall, Worker
  <2>2. /\ job' \in [Worker -> Job] /\ job'["install"].st = "quit"
        /\ job'["install"].ask = job["install"].ask /\ job'["install"].dev = job["install"].dev
        /\ job'["maint"] = job["maint"] /\ job'["restore"] = job["restore"]
    BY <1>a, <1>b, <2>1 DEF Worker
  <2>3. Begun("install") = 1 /\ Begun("install")' = 0 /\ Begun("restore")' = Begun("restore")
        /\ Begun("restore") \in Nat /\ ~Unanswered("install")'
    BY <1>b, <2>1, <2>2 DEF Begun, Unanswered
  <2>4. depth' \in Nat /\ Bar'
    BY <1>0, <1>b, <2>1, <2>3 DEF Basics, Bar, TypeOK
  <2>5. TypeOK'
    BY <1>0, <1>b, <2>1, <2>2, <2>4 DEF TypeOK
  <2>6. Shape' /\ Past' /\ ContextOfInstall'
    BY <1>b, <2>1, <2>2, <2>3 DEF Basics, Shape, Past, ContextOfInstall, Backing
  <2>7. QED
    BY <2>4, <2>5, <2>6 DEF Basics
<1>2. CASE AnswerRestore
  <2>1. /\ Answered("restore") /\ depth' = depth - 1
        /\ UNCHANGED <<box, ctx, busy>> /\ "restore" \in Worker
    BY <1>2 DEF AnswerRestore, Worker
  <2>2. /\ job' \in [Worker -> Job] /\ job'["restore"].st = "quit"
        /\ job'["maint"] = job["maint"] /\ job'["install"] = job["install"]
    BY <1>a, <1>b, <2>1 DEF Worker
  <2>3. Begun("restore") = 1 /\ Begun("restore")' = 0 /\ Begun("install")' = Begun("install")
        /\ Begun("install") \in Nat /\ Unanswered("install")' = Unanswered("install")
    BY <1>b, <2>1, <2>2 DEF Begun, Unanswered
  <2>4. depth' \in Nat /\ Bar'
    BY <1>0, <1>b, <2>1, <2>3 DEF Basics, Bar, TypeOK
  <2>5. TypeOK'
    BY <1>0, <1>b, <2>1, <2>2, <2>4 DEF TypeOK
  <2>6. Shape' /\ Past' /\ ContextOfInstall'
    BY <1>b, <2>1, <2>2, <2>3 DEF Basics, Shape, Past, ContextOfInstall
  <2>7. QED
    BY <2>4, <2>5, <2>6 DEF Basics
<1>3. CASE AnswerMaintenance
  <2>1. /\ Answered("maint") /\ UNCHANGED <<ctx, depth>> /\ "maint" \in Worker
        /\ busy' \in BOOLEAN /\ box' \in {"none", "prompt", "enabled", "retry"}
    BY <1>0, <1>3 DEF AnswerMaintenance, Worker, TypeOK
  <2>2. /\ job' \in [Worker -> Job] /\ job'["maint"].st = "quit"
        /\ job'["restore"] = job["restore"] /\ job'["install"] = job["install"]
    BY <1>a, <1>b, <2>1 DEF Worker
  <2>3. TypeOK'
    BY <1>0, <1>b, <2>1, <2>2 DEF TypeOK
  <2>4. Shape' /\ Past' /\ ContextOfInstall' /\ Bar'
    BY <1>b, <2>1, <2>2 DEF Basics, Shape, Past, ContextOfInstall, Bar, Begun, Unanswered, Backing
  <2>5. QED
    BY <2>3, <2>4 DEF Basics
<1>4. ASSUME NEW k \in Worker, LeaveThread(k) PROVE Basics'
  <2>1. /\ Step(k, "ended") /\ job[k].st = "quit"
        /\ UNCHANGED <<alive, sec, folder, orphan, dlg, box, ctx, depth, busy, clicks, clash, removed>>
    BY <1>4 DEF LeaveThread, gui, history
  <2>2. /\ job' \in [Worker -> Job] /\ job'[k].st = "ended"
        /\ job'[k].dev = job[k].dev /\ job'[k].ask = job[k].ask
        /\ \A o \in Worker \ {k} : job'[o] = job[o]
    BY <1>a, <2>1
  <2>3. TypeOK'
    BY <1>0, <2>1, <2>2 DEF TypeOK
  <2>4. \A o \in Worker : Unanswered(o)' = Unanswered(o) /\ job'[o].dev = job[o].dev
    BY <2>1, <2>2 DEF Unanswered
  <2>5. ContextOfInstall' /\ Bar' /\ Past'
    BY <2>1, <2>4 DEF Basics, ContextOfInstall, Bar, Begun, Past, Worker
  <2>6. Shape'
    BY <2>1, <2>2 DEF Basics, Shape, Backing, Worker
  <2>7. QED
    BY <2>3, <2>5, <2>6 DEF Basics
<1>5. ASSUME NEW k \in Worker, Cleanup(k) PROVE Basics'
  <2>1. /\ job' \in [Worker -> Job] /\ job'[k] = NoJob
        /\ \A o \in Worker \ {k} : job'[o] = job[o]
    BY <1>0, <1>5, NoJobIsJob DEF Cleanup, TypeOK
  <2>2. /\ UNCHANGED <<sec, folder, dlg, box, ctx, depth, busy, clicks, clash, removed>>
        /\ alive' \in BOOLEAN /\ orphan' \in SUBSET Worker /\ alive = TRUE
        /\ alive' => ~Running(k) \/ job[k].st = "ended"
    BY <1>0, <1>5 DEF Cleanup, gui, history, TypeOK
  <2>3. TypeOK'
    BY <1>0, <2>1, <2>2 DEF TypeOK
  <2>4. Shape' /\ Past'
    BY <2>1, <2>2 DEF Basics, Shape, Past, NoJob, Backing, Worker
  <2>5. CASE alive'
    <3>1. ~Unanswered(k) /\ ~Unanswered(k)'
      BY <2>1, <2>2, <2>5 DEF Running, Unanswered, NoJob
    <3>2. \A o \in Worker : Unanswered(o)' = Unanswered(o)
      BY <2>1, <3>1 DEF Unanswered
    <3>3. Unanswered("install") => job'["install"].dev = job["install"].dev
      BY <2>1, <3>1 DEF Worker
    <3>4. ContextOfInstall' /\ Bar'
      BY <2>2, <3>2, <3>3 DEF Basics, ContextOfInstall, Bar, Begun, Worker
    <3>5. QED
      BY <2>3, <2>4, <3>4 DEF Basics
  <2>6. CASE ~alive'
    BY <2>3, <2>4, <2>6 DEF Basics, ContextOfInstall, Bar
  <2>7. QED
    BY <2>5, <2>6
<1>6. QED
  BY <1>1, <1>2, <1>3, <1>4, <1>5 DEF EventStep

LEMMA FaultBasics == Basics /\ (Fault \/ Tick) => Basics'
<1> SUFFICES ASSUME Basics, Fault \/ Tick PROVE Basics'
  OBVIOUS
<1>0. TypeOK
  BY DEF Basics
<1>1. CASE Tick
  <2>1. sec' \in Stamp /\ sec < sec'
    BY <1>0, <1>1, InstallConstants DEF Tick, TypeOK, Stamp
  <2>2. \A p \in Path : p[2] \in Nat
    BY InstallConstants DEF Path, Stamp
  <2>3. UNCHANGED <<alive, folder, job, orphan, dlg, box, ctx, depth, busy, clicks, clash, removed>>
    BY <1>1 DEF Tick, gui, history
  <2>4. Past'
    BY <1>0, <2>1, <2>2, <2>3, InstallConstants DEF Basics, Past, TypeOK, Stamp
  <2>5. QED
    BY <2>1, <2>3, <2>4 DEF Basics, TypeOK, Shape, ContextOfInstall, Bar, Begun, Unanswered
<1>2. CASE Stop
  <2>1. clicks' \in 0..MaxClicks
    BY <1>0, <1>2, ClickCounts DEF Stop
  <2>2. alive' = FALSE
        /\ UNCHANGED <<sec, folder, job, orphan, dlg, box, ctx, depth, busy, clash, removed>>
    BY <1>2 DEF Stop, gui, history
  <2>3. QED
    BY <2>1, <2>2 DEF Basics, TypeOK, Shape, Past, ContextOfInstall, Bar
<1>3. CASE Restart
  <2>1. job' \in [Worker -> Job] /\ \A k \in Worker : job'[k] = NoJob
    BY <1>3, NoJobIsJob DEF Restart
  <2>2. /\ orphan' = {} /\ dlg' = NoDialog /\ box' = "none" /\ ctx' = NoDevice /\ depth' = 0
        /\ busy' = FALSE /\ alive' = TRUE /\ UNCHANGED <<sec, folder, clicks, clash, removed>>
    BY <1>3 DEF Restart, history
  <2>3. TypeOK'
    BY <1>0, <2>1, <2>2 DEF TypeOK, NoDialog, Dialog
  <2>4. Shape' /\ Past' /\ ContextOfInstall' /\ Bar'
    BY <2>1, <2>2 DEF Basics, Shape, Past, ContextOfInstall, Bar, Begun, Unanswered, NoJob,
                      NoDialog, Worker, Backing
  <2>5. QED
    BY <2>3, <2>4 DEF Basics
<1>4. ASSUME NEW k \in Worker, ExportOutlives(k) PROVE Basics'
  <2>1. job' \in [Worker -> Job] /\ job'[k] = NoJob /\ \A o \in Worker \ {k} : job'[o] = job[o]
    BY <1>0, <1>4, NoJobIsJob DEF ExportOutlives, TypeOK
  <2>2. /\ alive = FALSE
        /\ UNCHANGED <<alive, sec, orphan, dlg, box, ctx, depth, busy, clicks, clash, removed>>
    BY <1>0, <1>4 DEF ExportOutlives, gui, history, TypeOK
  <2>3. folder' \in [Path -> FolderState] /\ \A p \in Path : folder'[p] # "none" => folder[p] # "none"
    BY <1>0, <1>4 DEF ExportOutlives, TypeOK, FolderState
  <2>4. QED
    BY <2>1, <2>2, <2>3
    DEF Basics, TypeOK, Shape, Past, ContextOfInstall, Bar, NoJob, Backing, Worker
<1>5. QED
  BY <1>1, <1>2, <1>3, <1>4 DEF Fault

THEOREM BasicsHold == Spec => []Basics
<1>1. Basics /\ UNCHANGED vars => Basics'
  BY DEF Basics, TypeOK, Shape, Past, ContextOfInstall, Bar, Begun, Unanswered, vars, gui, history
<1>2. Basics /\ [Next]_vars => Basics'
  BY <1>1, UserBasics, EventBasics, FaultBasics, WorkerBasics DEF Next
<1>3. QED
  BY InitBasics, <1>2, PTL DEF Spec

(* Every variable keeps its type; the progress never goes below zero.          *)
THEOREM TypeCorrect == Spec => []TypeOK
BY BasicsHold, PTL DEF Basics

(* The context is that of the install that is still to be answered.            *)
THEOREM ContextCorrect == Spec => []ContextOfInstall
BY BasicsHold, PTL DEF Basics

LEMMA CountOfTwo == Basics => BarCounts
<1> SUFFICES ASSUME Basics, alive
             PROVE  depth = Cardinality({k \in {"install", "restore"} : Unanswered(k)})
  BY DEF BarCounts
<1> DEFINE S == {k \in {"install", "restore"} : Unanswered(k)}
<1>1. depth = Begun("install") + Begun("restore")
  BY DEF Basics, Bar
<1>2. CASE Unanswered("install") /\ Unanswered("restore")
  <2>1. S = {"install"} \cup {"restore"} /\ IsFiniteSet({"install"})
    BY <1>2, FS_Singleton
  <2>2. Cardinality({"install"} \cup {"restore"}) = Cardinality({"install"}) + 1
    BY <2>1, FS_AddElement
  <2>3. QED
    BY <1>1, <1>2, <2>1, <2>2, FS_Singleton DEF Begun
<1>3. CASE Unanswered("install") /\ ~Unanswered("restore")
  <2>1. S = {"install"}
    BY <1>3
  <2>2. QED
    BY <1>1, <1>3, <2>1, FS_Singleton DEF Begun
<1>4. CASE ~Unanswered("install") /\ Unanswered("restore")
  <2>1. S = {"restore"}
    BY <1>4
  <2>2. QED
    BY <1>1, <1>4, <2>1, FS_Singleton DEF Begun
<1>5. CASE ~Unanswered("install") /\ ~Unanswered("restore")
  <2>1. S = {}
    BY <1>5
  <2>2. QED
    BY <1>1, <1>5, <2>1, FS_EmptySet DEF Begun
<1>6. QED
  BY <1>2, <1>3, <1>4, <1>5

(* The progress counts the installs and restores that are still to be answered.*)
THEOREM BarCorrect == Spec => []BarCounts
BY BasicsHold, CountOfTwo, PTL

(***************************************************************************)
(* The backup made before an install stands                                *)
(***************************************************************************)
Calm == Keep >= 2 /\ alive /\ ~clash /\ ~removed
Guarded == {"export", "manifest", "prune", "package", "apply"}

(* The folder a backup made by hand is being exported to.                      *)
InFlight(p) == job["maint"].st = "export" /\ OwnFolder("maint") = p

(* It is there unless it was pruned, for which newer ones had to be there.     *)
Flight ==
  (Calm /\ job["maint"].st = "export") =>
    /\ job["maint"].stamp <= sec
    /\ folder[OwnFolder("maint")] # "none" \/ job["maint"].stamp < sec

(* The folder that lasts: as new as the install's own, restorable as soon as   *)
(* that is exported, and with nothing newer but the export by hand.            *)
Lasting(m) ==
  LET d == job["install"].dev
      p == <<d, m>>
  IN /\ job["install"].stamp <= m
     /\ folder[p] # "none"
     /\ Holds(p) \/ (job["install"].st = "export" /\ job["install"].stamp = m)
     /\ ~InFlight(p)
     /\ \A n \in Stamp : (n > m /\ folder[<<d, n>>] # "none") => InFlight(<<d, n>>)

Top ==
  (Calm /\ job["install"].ask /\ job["install"].st \in Guarded) =>
    /\ job["install"].stamp \in Stamp
    /\ \E m \in Stamp : Lasting(m)

Safe == Flight /\ Top

LEMMA InitSafe == Init => Safe
BY DEF Init, Safe, Flight, Top, NoJob, Worker

(* Steps that leave the folders alone and neither begin nor go on with what    *)
(* either invariant is about.                                                  *)
LEMMA QuietSafe ==
  ASSUME Basics, Safe, folder' = folder, clash' = clash, removed' = removed, alive' => alive,
         sec' \in Stamp, sec <= sec',
         \/ /\ job'["install"].st = job["install"].st /\ job'["install"].dev = job["install"].dev
            /\ job'["install"].ask = job["install"].ask
            /\ job'["install"].stamp = job["install"].stamp
         \/ ~(job'["install"].ask /\ job'["install"].st \in Guarded),
         \/ /\ job'["maint"].st = job["maint"].st /\ job'["maint"].dev = job["maint"].dev
            /\ job'["maint"].stamp = job["maint"].stamp
         \/ job["maint"].st # "export" /\ job'["maint"].st # "export"
  PROVE  Safe'
<1>1. Calm' => Calm
  BY DEF Calm
<1>2. \A p : InFlight(p)' <=> InFlight(p)
  BY DEF InFlight, OwnFolder
<1>3. Flight'
  <2>1. job["maint"].st = "export" => job["maint"].stamp \in Stamp
    BY DEF Basics, Shape, Backing
  <2>2. sec \in Stamp
    BY DEF Basics, TypeOK
  <2>3. QED
    BY <1>1, <2>1, <2>2, InstallConstants DEF Safe, Flight, OwnFolder, Stamp
<1>4. Top'
  BY <1>1, <1>2 DEF Safe, Top, Lasting, Holds
<1>5. QED
  BY <1>3, <1>4 DEF Safe

LEMMA UserSafe == Basics /\ Safe /\ UserStep => Safe'
<1> SUFFICES ASSUME Basics, Safe, UserStep PROVE Safe'
  OBVIOUS
<1>0. sec \in Stamp /\ sec <= sec /\ TypeOK
  BY InstallConstants DEF Basics, TypeOK, Stamp
<1>a. ASSUME NEW op \in MaintOp, NEW d \in Device \cup {NoDevice}, NEW retry \in BOOLEAN,
             op = "backup_driver" => d \in Device, StartMaintenance(op, d, retry),
             UNCHANGED <<alive, sec, folder, clash, removed>>
      PROVE  Safe'
  <2>1. \/ job'["maint"] = job["maint"]
        \/ job["maint"].st # "export" /\ job'["maint"].st # "export"
    BY <1>a, MaintenanceFacts DEF Running
  <2>2. job'["install"] = job["install"]
    BY <1>a, MaintenanceFacts
  <2>3. QED
    BY <1>0, <1>a, <2>1, <2>2, QuietSafe
<1>b. ASSUME NEW p \in Path, StartRestore(p), UNCHANGED <<sec, folder, clash, removed>>
      PROVE  Safe'
  <2>1. /\ alive' => alive
        /\ job'["install"] = job["install"] /\ job'["maint"] = job["maint"]
    BY <1>0, <1>b DEF StartRestore, Launch, TypeOK, Worker
  <2>2. QED
    BY <1>0, <1>b, <2>1, QuietSafe
<1>1. CASE Opens
  <2>1. UNCHANGED <<alive, sec, folder, job, clash, removed>>
    BY <1>1 DEF Opens, OpenInstall, OpenBackup, OpenRestore, OpenPoint, OpenBackups, Cancel, Open,
                history
  <2>2. QED
    BY <1>0, <2>1, QuietSafe
<1>2. ASSUME NEW ask \in BOOLEAN, NEW point \in BOOLEAN, ConfirmInstall(ask, point) PROVE Safe'
  <2>1. UNCHANGED <<alive, sec, folder, clash, removed>> /\ StartInstall(dlg.dev, ask, point)
    BY <1>2 DEF ConfirmInstall, history
  <2>2. CASE job' = job
    BY <1>0, <2>1, <2>2, QuietSafe
  <2>3. CASE job' # job
    <3> DEFINE j == [NoJob EXCEPT !.st = IF point THEN "point" ELSE AfterPoint(ask, dlg.dev),
                                 !.op = "install", !.dev = dlg.dev,
                                 !.ask = ask /\ dlg.dev # NoDevice]
    <3>1. Launch("install", j)
      BY <2>1, <2>3 DEF StartInstall
    <3>2. ~(j.ask /\ j.st \in Guarded)
      BY DEF NoJob, AfterPoint, Guarded
    <3> HIDE DEF j
    <3>3. job'["install"] = j /\ job'["maint"] = job["maint"]
      BY <1>0, <3>1 DEF Launch, TypeOK, Worker
    <3>4. QED
      BY <1>0, <2>1, <3>2, <3>3, QuietSafe
  <2>4. QED
    BY <2>2, <2>3
<1>3. CASE ConfirmMaintenance
  <2>1. UNCHANGED <<alive, sec, folder, clash, removed>>
    BY <1>3 DEF ConfirmMaintenance, history
  <2>2. CASE dlg.kind = "backup" /\ StartMaintenance("backup_driver", dlg.dev, FALSE)
    BY <1>a, <2>1, <2>2 DEF Basics, Shape, MaintOp
  <2>3. CASE StartMaintenance("create_restore", NoDevice, FALSE)
    BY <1>a, <2>1, <2>3 DEF MaintOp
  <2>4. QED
    BY <1>3, <2>2, <2>3 DEF ConfirmMaintenance
<1>4. CASE ClickEnable \/ RefreshStatus
  <2>1. /\ UNCHANGED <<alive, sec, folder, clash, removed>>
        /\ \/ StartMaintenance("enable_restore", NoDevice, FALSE)
           \/ StartMaintenance("restore_status", NoDevice, FALSE)
    BY <1>4, Zenon DEF ClickEnable, RefreshStatus, history
  <2>2. QED
    BY <1>a, <2>1 DEF MaintOp
<1>5. CASE ConfirmRestore
  <2>1. dlg.list \in SUBSET Path
    BY <1>0 DEF TypeOK, Dialog
  <2>2. QED
    BY <1>5, <1>b, <2>1 DEF ConfirmRestore, history
<1>6. ASSUME NEW p \in Path, RestoreSelected(p) PROVE Safe'
  BY <1>6, <1>b DEF RestoreSelected, history
<1>7. ASSUME NEW p \in Path, RemoveSelected(p) PROVE Safe'
  BY <1>7 DEF RemoveSelected, Safe, Flight, Top, Calm
<1>8. CASE CloseBox
  <2>1. /\ UNCHANGED <<alive, sec, folder, clash, removed>>
        /\ \/ UNCHANGED <<job, orphan, busy>>
           \/ StartMaintenance("enable_restore", NoDevice, TRUE)
           \/ StartMaintenance("restore_status", NoDevice, FALSE)
    BY <1>8, Zenon DEF CloseBox, history
  <2>2. CASE UNCHANGED job
    BY <1>0, <2>1, <2>2, QuietSafe
  <2>3. QED
    BY <1>a, <2>1, <2>2 DEF MaintOp
<1>9. QED
  BY <1>1, <1>2, <1>3, <1>4, <1>5, <1>6, <1>7, <1>8 DEF UserStep, Opens

LEMMA OtherSafe == Basics /\ Safe /\ (EventStep \/ Fault \/ Tick) => Safe'
<1> SUFFICES ASSUME Basics, Safe, EventStep \/ Fault \/ Tick PROVE Safe'
  OBVIOUS
<1>0. sec \in Stamp /\ sec <= sec /\ TypeOK
  BY InstallConstants DEF Basics, TypeOK, Stamp
<1>a. ASSUME NEW k \in Worker, NEW st \in {"quit", "ended"}, job[k].st \notin Guarded,
             job' = [job EXCEPT ![k].st = st], UNCHANGED <<alive, sec, folder, clash, removed>>
      PROVE  Safe'
  <2>1. job'[k].st = st /\ \A o \in Worker \ {k} : job'[o] = job[o]
    BY <1>0, <1>a DEF TypeOK, Job
  <2>2. QED
    BY <1>0, <1>a, <2>1, QuietSafe DEF Guarded, Worker
<1>1. ASSUME NEW k \in Worker, Answered(k) PROVE Safe'
  BY <1>a, <1>1 DEF Answered, Guarded, history
<1>2. ASSUME NEW k \in Worker, LeaveThread(k) PROVE Safe'
  BY <1>a, <1>2 DEF LeaveThread, Step, Guarded, history
<1>3. ASSUME NEW k \in Worker, Cleanup(k) PROVE Safe'
  <2>1. /\ UNCHANGED <<sec, folder, clash, removed>> /\ alive
        /\ job' = [job EXCEPT ![k] = NoJob]
        /\ alive' => ~Running(k) \/ job[k].st = "ended"
    BY <1>3 DEF Cleanup, history
  <2>2. CASE ~alive'
    BY <2>2 DEF Safe, Flight, Top, Calm
  <2>3. CASE alive'
    <3>1. job[k].st # "export" /\ NoJob.st \notin Guarded /\ NoJob.st # "export"
      BY <2>1, <2>3 DEF Running, NoJob, Guarded
    <3>2. job'[k] = NoJob /\ \A o \in Worker \ {k} : job'[o] = job[o]
      BY <1>0, <2>1 DEF TypeOK
    <3>3. QED
      BY <1>0, <2>1, <3>1, <3>2, QuietSafe DEF Worker
  <2>4. QED
    BY <2>2, <2>3
<1>4. CASE Tick
  <2>1. sec' \in Stamp /\ sec <= sec' /\ UNCHANGED <<alive, folder, job, clash, removed>>
    BY <1>0, <1>4, InstallConstants DEF Tick, Stamp, history
  <2>2. QED
    BY <2>1, QuietSafe
<1>5. CASE Stop \/ \E k \in Worker : ExportOutlives(k)
  <2>1. alive' = FALSE
    BY <1>0, <1>5 DEF Stop, ExportOutlives, TypeOK
  <2>2. QED
    BY <2>1 DEF Safe, Flight, Top, Calm
<1>6. CASE Restart
  <2>1. job'["install"] = NoJob /\ job'["maint"] = NoJob
    BY <1>6 DEF Restart, Worker
  <2>2. QED
    BY <2>1 DEF Safe, Flight, Top, NoJob, Guarded
<1>7. QED
  BY <1>1, <1>2, <1>3, <1>4, <1>5, <1>6
  DEF EventStep, Fault, AnswerInstall, AnswerRestore, AnswerMaintenance, Worker
(* Steps that neither make a folder, nor empty one, nor touch what can be      *)
(* restored.                                                                   *)
LEMMA KeptSafe ==
  ASSUME Basics, Safe, UNCHANGED <<alive, sec, clash, removed>>,
         \A p \in Path : (folder'[p] = "none" <=> folder[p] = "none") /\ (Holds(p) => Holds(p)'),
         job'["install"].dev = job["install"].dev, job'["install"].ask = job["install"].ask,
         job'["install"].stamp = job["install"].stamp \/ job'["install"].st \notin Guarded,
         job'["install"].st \in Guarded =>
           job["install"].st \in Guarded
           /\ (job["install"].st = "export" => job'["install"].st = "export"),
         job'["maint"] = job["maint"] \/ (job["maint"].st # "export" /\ job'["maint"].st # "export")
  PROVE  Safe'
<1>1. Calm' <=> Calm
  BY DEF Calm
<1>2. \A p : InFlight(p)' <=> InFlight(p)
  BY DEF InFlight, OwnFolder
<1>3. Flight'
  <2>1. job["maint"].st = "export" => OwnFolder("maint") \in Path
    BY DEF Basics, Shape, Backing, OwnFolder, Path
  <2>2. QED
    BY <1>1, <2>1 DEF Safe, Flight, OwnFolder
<1>4. Top'
  <2> SUFFICES ASSUME Calm', job'["install"].ask, job'["install"].st \in Guarded
               PROVE  /\ job'["install"].stamp \in Stamp
                      /\ \E m \in Stamp : Lasting(m)'
    BY DEF Top
  <2>1. PICK m \in Stamp : Lasting(m)
    BY <1>1 DEF Safe, Top
  <2>2. job["install"].dev \in Device
    BY DEF Basics, Shape
  <2>3. \A n \in Stamp : <<job["install"].dev, n>> \in Path
    BY <2>2 DEF Path
  <2>4. Lasting(m)'
    BY <1>2, <2>1, <2>3 DEF Lasting
  <2>5. QED
    BY <1>1, <2>4 DEF Safe, Top
<1>5. QED
  BY <1>3, <1>4 DEF Safe

LEMMA QueryInstallSafe == Basics /\ Safe /\ QueryDriver("install") => Safe'
<1> SUFFICES ASSUME Basics, Safe, QueryDriver("install") PROVE Safe'
  OBVIOUS
<1> DEFINE d == job["install"].dev
           p == <<d, sec>>
<1>0. /\ TypeOK /\ Past /\ sec \in Stamp /\ sec \in Nat /\ sec <= sec /\ Stamp \subseteq Nat
      /\ UNCHANGED <<alive, sec, removed>>
      /\ job["install"].ask /\ d \in Device /\ p \in Path
  BY InstallConstants DEF Basics, TypeOK, Shape, Stamp, Path, Backing, QueryDriver, Work, WorkerLeaves
<1>1. CASE Fail("install") /\ UNCHANGED <<folder, clash>>
  <2>1. job'["install"].st = "answer" /\ job'["maint"] = job["maint"]
    BY <1>0, <1>1 DEF Fail, TypeOK, Worker, Job
  <2>2. QED
    BY <1>0, <1>1, <2>1, QuietSafe DEF Guarded
<1>2. CASE /\ folder' = [folder EXCEPT ![p] = IF @ = "none" THEN "part" ELSE @]
           /\ clash' = (clash \/ folder[p] # "none")
           /\ job' = [job EXCEPT !["install"].st = "export", !["install"].stamp = sec]
  <2>1. /\ job'["install"].st = "export" /\ job'["install"].stamp = sec
        /\ job'["install"].dev = d /\ job'["maint"] = job["maint"]
    BY <1>0, <1>2 DEF TypeOK, Worker, Job
  <2>2. /\ \A q \in Path \ {p} : folder'[q] = folder[q]
        /\ folder'[p] # "none" /\ (folder[p] # "none" => folder'[p] = folder[p])
    BY <1>0, <1>2 DEF TypeOK
  <2>3. Calm' => Calm /\ folder[p] = "none"
    BY <1>0, <1>2 DEF Calm
  <2>4. Flight'
    <3>1. job["maint"].st = "export" => OwnFolder("maint") \in Path
      BY DEF Basics, Shape, Backing, OwnFolder, Path
    <3>2. job["maint"].st = "export" => OwnFolder("maint")' = OwnFolder("maint")
      BY <2>1 DEF OwnFolder
    <3>3. job["maint"].st = "export" /\ folder[OwnFolder("maint")] # "none"
          => folder'[OwnFolder("maint")] # "none"
      BY <2>2, <3>1
    <3>4. QED
      BY <1>0, <2>1, <2>3, <3>2, <3>3 DEF Safe, Flight
  <2>5. ASSUME Calm' PROVE Lasting(sec)'
    <3>1. folder'[p] # "none"
      BY <2>2
    <3>2. ~InFlight(p)'
      <4> SUFFICES ASSUME job["maint"].st = "export", OwnFolder("maint") = p PROVE FALSE
        BY <1>0, <2>1 DEF InFlight, OwnFolder
      <4>1. job["maint"].stamp < sec
        BY <2>3, <2>5 DEF Safe, Flight
      <4>2. job["maint"].stamp = sec
        BY DEF OwnFolder
      <4>3. QED
        BY <1>0, <4>1, <4>2
    <3>3. ASSUME NEW n \in Stamp, n > sec PROVE folder'[<<d, n>>] = "none"
      <4>1. <<d, n>> \in Path /\ <<d, n>> # p
        BY <1>0, <3>3 DEF Path
      <4>2. folder[<<d, n>>] = "none"
        BY <1>0, <3>3, <4>1 DEF Past
      <4>3. QED
        BY <2>2, <4>1, <4>2
    <3>4. QED
      BY <1>0, <2>1, <3>1, <3>2, <3>3 DEF Lasting
  <2>6. Top'
    BY <1>0, <2>1, <2>5 DEF Top
  <2>7. QED
    BY <2>4, <2>6 DEF Safe
<1>3. QED
  BY <1>1, <1>2 DEF QueryDriver

LEMMA QueryByHandSafe == Basics /\ Safe /\ QueryDriver("maint") => Safe'
<1> SUFFICES ASSUME Basics, Safe, QueryDriver("maint") PROVE Safe'
  OBVIOUS
<1> DEFINE p == <<job["maint"].dev, sec>>
           d == job["install"].dev
<1>0. /\ TypeOK /\ sec \in Stamp /\ sec \in Nat /\ sec <= sec
      /\ UNCHANGED <<alive, sec, removed>> /\ job["maint"].st = "query" /\ p \in Path
  BY InstallConstants DEF Basics, TypeOK, Shape, Stamp, Path, Backing, QueryDriver, Work, WorkerLeaves
<1>1. CASE Fail("maint") /\ UNCHANGED <<folder, clash>>
  <2>1. job'["maint"].st = "answer" /\ job'["install"] = job["install"]
    BY <1>0, <1>1 DEF Fail, TypeOK, Worker, Job
  <2>2. QED
    BY <1>0, <1>1, <2>1, QuietSafe DEF Guarded
<1>2. CASE /\ folder' = [folder EXCEPT ![p] = IF @ = "none" THEN "part" ELSE @]
           /\ clash' = (clash \/ folder[p] # "none")
           /\ job' = [job EXCEPT !["maint"].st = "export", !["maint"].stamp = sec]
  <2>1. /\ job'["maint"].st = "export" /\ job'["maint"].stamp = sec
        /\ job'["maint"].dev = job["maint"].dev /\ job'["install"] = job["install"]
    BY <1>0, <1>2 DEF TypeOK, Worker, Job
  <2>2. /\ \A q \in Path \ {p} : folder'[q] = folder[q]
        /\ folder'[p] # "none" /\ (folder[p] # "none" => folder'[p] = folder[p])
    BY <1>0, <1>2 DEF TypeOK
  <2>3. Calm' => Calm /\ folder[p] = "none"
    BY <1>0, <1>2 DEF Calm
  <2>4. OwnFolder("maint")' = p
    BY <2>1 DEF OwnFolder
  <2>5. Flight'
    BY <1>0, <2>1, <2>2, <2>4 DEF Flight
  <2>6. Top'
    <3> SUFFICES ASSUME Calm', job["install"].ask, job["install"].st \in Guarded
                 PROVE  /\ job["install"].stamp \in Stamp
                        /\ \E m \in Stamp : Lasting(m)'
      BY <2>1 DEF Top
    <3>1. PICK m \in Stamp : Lasting(m)
      BY <2>3 DEF Safe, Top
    <3>2. d \in Device
      BY DEF Basics, Shape
    <3>3. <<d, m>> \in Path /\ <<d, m>> # p
      BY <2>3, <3>1, <3>2 DEF Lasting, Path
    <3>4. ASSUME NEW n \in Stamp, n > m, folder'[<<d, n>>] # "none" PROVE InFlight(<<d, n>>)'
      <4>1. folder[<<d, n>>] = "none"
        BY <1>0, <3>1, <3>4 DEF Lasting, InFlight
      <4>a. <<d, n>> \in Path
        BY <3>2 DEF Path
      <4>2. <<d, n>> = p
        BY <2>2, <3>4, <4>1, <4>a
      <4>3. QED
        BY <2>1, <2>4, <4>2 DEF InFlight
    <3>5. ~InFlight(<<d, m>>)'
      BY <2>1, <2>4, <3>3 DEF InFlight
    <3>6. folder'[<<d, m>>] = folder[<<d, m>>]
      BY <2>2, <3>3
    <3>7. Lasting(m)'
      BY <2>1, <3>1, <3>4, <3>5, <3>6 DEF Lasting, Holds
    <3>8. QED
      BY <2>3, <3>7 DEF Safe, Top
  <2>7. QED
    BY <2>5, <2>6 DEF Safe
<1>3. QED
  BY <1>1, <1>2 DEF QueryDriver

LEMMA ExportInstallSafe == Basics /\ Safe /\ ExportDriver("install") => Safe'
<1> SUFFICES ASSUME Basics, Safe, ExportDriver("install") PROVE Safe'
  OBVIOUS
<1>a. /\ job["install"].st = "export" /\ job["install"].ask
      /\ job["install"].dev \in Device /\ job["install"].stamp \in Stamp
  BY DEF Basics, Shape, Backing, ExportDriver, Work
<1>b. PICK d \in Device : d = job["install"].dev
  BY <1>a
<1>c. PICK own \in Path : own = OwnFolder("install")
  BY <1>a DEF OwnFolder, Path
<1>0. /\ TypeOK /\ Past /\ sec \in Nat /\ Stamp \subseteq Nat
      /\ UNCHANGED <<alive, sec, clash, removed>> /\ (Calm' <=> Calm)
      /\ own = <<d, job["install"].stamp>>
  BY <1>b, <1>c, InstallConstants DEF Basics, TypeOK, Shape, Stamp, Path, Backing, ExportDriver, Work,
                          WorkerLeaves, Calm, OwnFolder
<1>1. CASE /\ folder' = [folder EXCEPT ![own] = IF @ = "part" THEN "bare" ELSE @]
           /\ Step("install", "manifest")
  <2>1. /\ job'["install"].st = "manifest" /\ job'["maint"] = job["maint"]
        /\ job'["install"].dev = d /\ job'["install"].stamp = job["install"].stamp
    BY <1>0, <1>a, <1>b, <1>c, <1>1 DEF Step, TypeOK, Worker, Job
  <2>2. /\ \A q \in Path : folder'[q] = "none" <=> folder[q] = "none"
        /\ \A q \in Path : Holds(q) => Holds(q)'
        /\ folder[own] # "none" => Holds(own)'
    BY <1>0, <1>1 DEF TypeOK, Holds, FolderState
  <2>3. Flight'
    <3>1. job["maint"].st = "export" => OwnFolder("maint") \in Path
      BY DEF Basics, Shape, Backing, OwnFolder, Path
    <3>2. QED
      BY <1>0, <1>a, <1>b, <1>c, <2>1, <2>2, <3>1 DEF Safe, Flight, OwnFolder
  <2>4. ASSUME Calm PROVE \E m \in Stamp : Lasting(m)'
    <3>1. PICK m \in Stamp : Lasting(m)
      BY <1>0, <1>a, <1>b, <1>c, <2>4 DEF Safe, Top, Guarded
    <3>2. \A n \in Stamp : <<d, n>> \in Path
      BY <1>0 DEF Path
    <3>3. \A n \in Stamp : InFlight(<<d, n>>)' <=> InFlight(<<d, n>>)
      BY <2>1 DEF InFlight, OwnFolder
    <3>4. Holds(<<d, m>>)'
      BY <1>0, <1>a, <1>b, <1>c, <2>2, <3>1, <3>2 DEF Lasting
    <3>5. Lasting(m)'
      BY <1>b, <2>1, <2>2, <3>1, <3>2, <3>3, <3>4 DEF Lasting
    <3>6. QED
      BY <3>5
  <2>5. Top'
    BY <1>0, <1>a, <1>b, <1>c, <2>1, <2>4 DEF Top
  <2>6. QED
    BY <2>3, <2>5 DEF Safe
<1>2. CASE folder' = [folder EXCEPT ![own] = "none"] /\ Fail("install")
  <2>1. job'["install"].st = "answer" /\ job'["maint"] = job["maint"]
    BY <1>0, <1>a, <1>b, <1>c, <1>2 DEF Fail, TypeOK, Worker, Job
  <2>2. ASSUME Calm, job["maint"].st = "export"
        PROVE  /\ job["maint"].stamp <= sec
               /\ folder'[OwnFolder("maint")] # "none" \/ job["maint"].stamp < sec
    <3>1. PICK m \in Stamp : Lasting(m)
      BY <1>0, <1>a, <1>b, <1>c, <2>2 DEF Safe, Top, Guarded
    <3>2. OwnFolder("maint") \in Path /\ <<d, m>> \in Path
      BY <1>0, <1>a, <1>b, <1>c, <2>2 DEF Basics, Shape, Backing, OwnFolder, Path
    <3>3. CASE OwnFolder("maint") # own
      BY <1>0, <1>a, <1>b, <1>c, <1>2, <2>2, <3>2, <3>3 DEF Safe, Flight, TypeOK
    <3>4. CASE OwnFolder("maint") = own
      <4>1. job["maint"].stamp = job["install"].stamp
        BY <1>0, <1>a, <1>b, <1>c, <3>4 DEF OwnFolder
      <4>2. m # job["install"].stamp
        BY <1>0, <1>a, <1>b, <1>c, <2>2, <3>1, <3>4 DEF Lasting, InFlight
      <4>3. job["install"].stamp < m
        <5>1. job["install"].stamp <= m
          BY <3>1 DEF Lasting
        <5>2. m \in Nat /\ job["install"].stamp \in Nat
          BY <1>0, <1>a
        <5>3. QED
          BY <4>2, <5>1, <5>2
      <4>4. m <= sec
        <5>1. folder[<<d, m>>] # "none"
          BY <1>b, <3>1 DEF Lasting
        <5>2. <<d, m>>[2] <= sec
          BY <1>0, <3>2, <5>1 DEF Past
        <5>3. QED
          BY <5>2
      <4>5. m \in Nat /\ job["install"].stamp \in Nat
        BY <1>0, <1>a
      <4>6. job["install"].stamp < sec /\ job["install"].stamp <= sec
        BY <1>0, <4>3, <4>4, <4>5
      <4>7. QED
        BY <4>1, <4>6
    <3>5. QED
      BY <3>3, <3>4
  <2>3. Flight'
    BY <1>0, <1>a, <1>b, <1>c, <2>1, <2>2 DEF Flight, OwnFolder
  <2>4. Top'
    BY <2>1 DEF Top, Guarded
  <2>5. QED
    BY <2>3, <2>4 DEF Safe
<1>3. QED
  BY <1>1, <1>2, <1>c DEF ExportDriver

LEMMA ExportByHandSafe == Basics /\ Safe /\ ExportDriver("maint") => Safe'
<1> SUFFICES ASSUME Basics, Safe, ExportDriver("maint") PROVE Safe'
  OBVIOUS
<1>a. job["maint"].st = "export" /\ job["maint"].dev \in Device /\ job["maint"].stamp \in Stamp
  BY DEF Basics, Shape, Backing, ExportDriver, Work
<1>b. PICK s \in Stamp : s = job["maint"].stamp
  BY <1>a
<1>c. PICK own \in Path : own = OwnFolder("maint")
  BY <1>a DEF OwnFolder, Path
<1>0. /\ TypeOK /\ Stamp \subseteq Nat
      /\ UNCHANGED <<alive, sec, clash, removed>> /\ (Calm' <=> Calm)
      /\ own = <<job["maint"].dev, s>>
  BY <1>b, <1>c, InstallConstants DEF Basics, TypeOK, Shape, Stamp, Path, Backing, ExportDriver, Work,
                          WorkerLeaves, Calm, OwnFolder
<1>1. /\ job'["maint"].st \in {"manifest", "answer"} /\ job'["install"] = job["install"]
      /\ \A q \in Path \ {own} : folder'[q] = folder[q]
      /\ folder'[own] # "none" => Holds(own)' /\ folder[own] # "none"
  <2>1. \/ /\ folder' = [folder EXCEPT ![own] = IF @ = "part" THEN "bare" ELSE @]
           /\ Step("maint", "manifest")
        \/ folder' = [folder EXCEPT ![own] = "none"] /\ Fail("maint")
    BY <1>c DEF ExportDriver
  <2>2. job'["maint"].st \in {"manifest", "answer"} /\ job'["install"] = job["install"]
    BY <1>0, <2>1 DEF Step, Fail, TypeOK, Worker, Job
  <2>3. QED
    BY <1>0, <2>1, <2>2 DEF TypeOK, Holds, FolderState
<1>2. Flight'
  BY <1>1 DEF Flight
<1>3. Top'
  <2> SUFFICES ASSUME Calm, job["install"].ask, job["install"].st \in Guarded
               PROVE  /\ job["install"].stamp \in Stamp
                      /\ \E m \in Stamp : Lasting(m)'
    BY <1>0, <1>1 DEF Top
  <2>1. job["install"].stamp \in Stamp /\ job["install"].dev \in Device
    BY DEF Safe, Top, Basics, Shape
  <2>d. PICK d \in Device : d = job["install"].dev
    BY <2>1
  <2>2. PICK m \in Stamp : Lasting(m)
    BY DEF Safe, Top
  <2>3. \A n \in Stamp : <<d, n>> \in Path /\ ~InFlight(<<d, n>>)'
    BY <1>1, <2>d, <2>1 DEF Path, InFlight
  <2>4. \A n \in Stamp : <<d, n>> = own <=> InFlight(<<d, n>>)
    BY <1>a, <1>c DEF InFlight
  <2>5. CASE job["maint"].dev = d /\ s > m /\ folder'[own] # "none"
    <3>1. own = <<d, s>> /\ Holds(<<d, s>>)' /\ folder'[<<d, s>>] # "none"
      BY <1>0, <1>a, <1>b, <1>c, <2>d, <1>1, <2>5
    <3>2. job["install"].stamp <= s
      BY <1>0, <1>a, <1>b, <1>c, <2>d, <2>1, <2>2, <2>5 DEF Lasting
    <3>3. ASSUME NEW n \in Stamp, n > s PROVE folder'[<<d, n>>] = "none"
      <4>1. <<d, n>> # own /\ n > m
        <5>1. n \in Nat /\ s \in Nat /\ m \in Nat
          BY <1>0
        <5>2. n # s /\ n > m
          BY <2>5, <3>3, <5>1
        <5>3. QED
          BY <1>0, <5>2
      <4>2. folder[<<d, n>>] = "none"
        BY <2>2, <2>d, <2>4, <4>1 DEF Lasting
      <4>3. QED
        BY <1>1, <2>d, <2>3, <4>1, <4>2
    <3>4. Lasting(s)'
      BY <1>0, <1>a, <1>b, <1>c, <2>d, <1>1, <2>3, <3>1, <3>2, <3>3 DEF Lasting
    <3>5. QED
      BY <1>0, <1>a, <1>b, <1>c, <2>d, <2>1, <3>4
  <2>6. CASE ~(job["maint"].dev = d /\ s > m /\ folder'[own] # "none")
    <3>1. <<d, m>> # own /\ folder'[<<d, m>>] = folder[<<d, m>>]
      BY <1>1, <2>d, <2>2, <2>3, <2>4 DEF Lasting
    <3>2. ASSUME NEW n \in Stamp, n > m PROVE folder'[<<d, n>>] = "none"
      <4>1. CASE <<d, n>> = own
        BY <1>0, <1>a, <1>b, <1>c, <2>d, <2>6, <3>2, <4>1
      <4>2. CASE <<d, n>> # own
        BY <1>1, <2>d, <2>2, <2>3, <2>4, <3>2, <4>2 DEF Lasting
      <4>3. QED
        BY <4>1, <4>2
    <3>3. Lasting(m)'
      BY <1>1, <2>d, <2>2, <2>3, <3>1, <3>2 DEF Lasting, Holds
    <3>4. QED
      BY <2>1, <3>3
  <2>7. QED
    BY <2>5, <2>6
<1>4. QED
  BY <1>2, <1>3 DEF Safe

LEMMA ManifestSafe ==
  ASSUME Basics, Safe, NEW k \in {"install", "maint"}, WriteManifest(k)
  PROVE  Safe'
<1>0. /\ TypeOK /\ UNCHANGED <<alive, sec, clash, removed>>
      /\ job[k].st = "manifest" /\ k \in Worker
  BY DEF Basics, WriteManifest, Work, WorkerLeaves, Worker
<1>1. OwnFolder(k) \in Path
  BY <1>0 DEF Basics, Shape, Backing, OwnFolder, Path
<1>2. \A p \in Path : (folder'[p] = "none" <=> folder[p] = "none") /\ (Holds(p) => Holds(p)')
  BY <1>0, <1>1 DEF WriteManifest, TypeOK, Holds, FolderState
<1>3. job'[k].dev = job[k].dev /\ job'[k].ask = job[k].ask /\ job'[k].stamp = job[k].stamp
      /\ job'[k].st # "export" /\ \A o \in Worker \ {k} : job'[o] = job[o]
  BY <1>0 DEF WriteManifest, Fail, AfterBackup, TypeOK, Job
<1>4. QED
  BY <1>0, <1>2, <1>3, KeptSafe DEF Worker, Guarded

LEMMA OneNewer ==
  ASSUME Basics, NEW d \in Device, NEW m \in Stamp, Keep >= 2, NEW k \in Worker,
         \A n \in Stamp : (n > m /\ folder[<<d, n>>] # "none") => InFlight(<<d, n>>)
  PROVE  <<d, m>> \notin Pruned(d, KeepOf(k))
<1> DEFINE newer == {q \in Listed : q[1] = d /\ q[2] > m}
<1>1. newer \subseteq {OwnFolder("maint")}
  BY DEF InFlight, Listed, Path
<1>2. Cardinality(newer) <= 1
  <2>1. IsFiniteSet({OwnFolder("maint")}) /\ Cardinality({OwnFolder("maint")}) = 1
    BY FS_Singleton
  <2>2. QED
    BY <1>1, <2>1, FS_Subset
<1>3. KeepOf(k) = Keep /\ Keep \in Nat
  BY InstallConstants DEF KeepOf
<1>4. Cardinality(newer) \in Nat
  BY <1>1, FS_Singleton, FS_Subset, FS_CardinalityType
<1>5. <<d, m>>[1] = d /\ <<d, m>>[2] = m
  OBVIOUS
<1>6. QED
  <2> HIDE DEF newer
  <2>1. ~(Cardinality(newer) >= KeepOf(k))
    BY <1>2, <1>3, <1>4
  <2>2. QED
    BY <1>5, <2>1 DEF Pruned, newer

LEMMA PruneNeedsNewer ==
  ASSUME Basics, NEW d \in Device, NEW k \in Worker, NEW p \in Pruned(d, KeepOf(k)), Keep >= 2
  PROVE  \E q \in Path : folder[q] # "none" /\ q[1] = d /\ q[2] > p[2]
<1> DEFINE newer == {q \in Listed : q[1] = d /\ q[2] > p[2]}
<1>1. Cardinality(newer) >= Keep /\ Keep \in Nat
  BY InstallConstants DEF Pruned, KeepOf
<1>2. newer # {}
  BY <1>1, FS_EmptySet
<1>3. QED
  BY <1>2 DEF Listed

LEMMA PruneSafe ==
  ASSUME Basics, Safe, NEW k \in {"install", "maint"}, Prune(k)
  PROVE  Safe'
<1>0. /\ TypeOK /\ Past /\ UNCHANGED <<alive, sec, clash, removed>> /\ (Calm' <=> Calm)
      /\ job[k].st = "prune" /\ k \in Worker /\ sec \in Stamp /\ sec <= sec
      /\ sec \in Nat /\ Stamp \subseteq Nat /\ job[k].todo \subseteq Device
  BY InstallConstants DEF Basics, Prune, Work, WorkerLeaves, Worker, Calm, TypeOK, Stamp, Job
<1>1. CASE Step(k, AfterBackup(k)) /\ UNCHANGED folder
  <2>1. job'[k].st = AfterBackup(k) /\ job'[k].dev = job[k].dev /\ job'[k].ask = job[k].ask
        /\ job'[k].stamp = job[k].stamp /\ \A o \in Worker \ {k} : job'[o] = job[o]
    BY <1>0, <1>1 DEF Step, TypeOK, Job
  <2>2. \A p \in Path : (folder'[p] = "none" <=> folder[p] = "none") /\ (Holds(p) => Holds(p)')
    BY <1>1 DEF Holds
  <2>3. QED
    BY <1>0, <2>1, <2>2, KeptSafe DEF Worker, Guarded, AfterBackup
<1>2. ASSUME NEW e \in job[k].todo,
             folder' = [p \in Path |-> IF p \in Pruned(e, KeepOf(k)) THEN "none" ELSE folder[p]],
             job' = [job EXCEPT ![k].todo = @ \ {e}]
      PROVE  Safe'
  <2>1. \A o \in Worker : /\ job'[o].st = job[o].st /\ job'[o].dev = job[o].dev
                          /\ job'[o].ask = job[o].ask /\ job'[o].stamp = job[o].stamp
    BY <1>0, <1>2 DEF TypeOK, Job
  <2>2. /\ \A p \in Path : folder'[p] # "none" => folder[p] # "none"
        /\ \A p \in Path : p \notin Pruned(e, KeepOf(k)) => folder'[p] = folder[p]
        /\ \A p \in Pruned(e, KeepOf(k)) : p[1] = e
    BY <1>2 DEF Pruned
  <2>3. OwnFolder("maint")' = OwnFolder("maint")
    BY <2>1 DEF OwnFolder, Worker
  <2>4. ASSUME Calm, job["maint"].st = "export"
        PROVE  /\ job["maint"].stamp <= sec
               /\ folder'[OwnFolder("maint")] # "none" \/ job["maint"].stamp < sec
    <3>1. OwnFolder("maint") \in Path /\ OwnFolder("maint")[2] = job["maint"].stamp
      BY <2>4 DEF Basics, Shape, Backing, OwnFolder, Path
    <3>2. CASE OwnFolder("maint") \in Pruned(e, KeepOf(k))
      <4>1. PICK q \in Path : folder[q] # "none" /\ q[2] > job["maint"].stamp
        BY <1>0, <1>2, <2>4, <3>1, <3>2, PruneNeedsNewer DEF Calm
      <4>2. q[2] <= sec /\ q[2] \in Nat /\ job["maint"].stamp \in Nat
        BY <1>0, <3>1, <4>1 DEF Past, Path
      <4>3. QED
        BY <1>0, <4>1, <4>2
    <3>3. QED
      BY <2>2, <2>4, <3>1, <3>2 DEF Safe, Flight
  <2>5. Flight'
    BY <1>0, <2>1, <2>3, <2>4 DEF Flight, Worker
  <2>6. Top'
    <3> DEFINE d == job["install"].dev
    <3> SUFFICES ASSUME Calm, job["install"].ask, job["install"].st \in Guarded
                 PROVE  /\ job["install"].stamp \in Stamp
                        /\ \E m \in Stamp : Lasting(m)'
      BY <1>0, <2>1 DEF Top, Worker
    <3>1. job["install"].stamp \in Stamp /\ d \in Device
      BY DEF Safe, Top, Basics, Shape
    <3>2. PICK m \in Stamp : Lasting(m)
      BY DEF Safe, Top
    <3>3. \A n \in Stamp : <<d, n>> \in Path
      BY <3>1 DEF Path
    <3>4. <<d, m>> \notin Pruned(e, KeepOf(k))
      <4>1. CASE e = d
        BY <1>0, <3>1, <3>2, <4>1, OneNewer DEF Lasting, Calm
      <4>2. QED
        BY <2>2, <4>1
    <3>5. folder'[<<d, m>>] = folder[<<d, m>>]
      BY <2>2, <3>3, <3>4
    <3>6. \A n \in Stamp : InFlight(<<d, n>>)' <=> InFlight(<<d, n>>)
      BY <2>1, <2>3 DEF InFlight, Worker
    <3>7. Lasting(m)'
      BY <2>1, <2>2, <3>2, <3>3, <3>5, <3>6 DEF Lasting, Holds, Worker
    <3>8. QED
      BY <3>1, <3>7
  <2>7. QED
    BY <2>5, <2>6 DEF Safe
<1>3. QED
  BY <1>1, <1>2 DEF Prune

LEMMA WorkerSafe ==
  ASSUME Basics, Safe, NEW k \in Worker, WorkerStep(k)
  PROVE  Safe'
<1>0. TypeOK /\ sec \in Stamp /\ sec <= sec
  BY InstallConstants DEF Basics, TypeOK, Stamp
<1>1. CASE k = "install" /\ RestorePoint
  <2>1. /\ UNCHANGED <<alive, sec, folder, clash, removed>> /\ job["install"].st = "point"
        /\ job'["install"].st \notin Guarded \/ ~job'["install"].ask
        /\ job'["maint"] = job["maint"]
    <3>1. AfterPoint(job["install"].ask, job["install"].dev) = "query" \/ ~job["install"].ask
      BY InstallConstants DEF AfterPoint, Basics, Shape
    <3>2. QED
      BY <1>0, <1>1, <3>1
      DEF RestorePoint, Work, Step, Fail, WorkerLeaves, Guarded, TypeOK, Job, Worker
  <2>2. QED
    BY <1>0, <2>1, QuietSafe
<1>2. CASE k = "install" /\ (GetPackage \/ ApplyDriver)
  <2>1. /\ UNCHANGED <<alive, sec, folder, clash, removed>>
        /\ job["install"].st \in {"package", "apply"}
        /\ job'["install"].st \in {"apply", "answer"}
        /\ job'["install"].ask = job["install"].ask /\ job'["install"].dev = job["install"].dev
        /\ job'["install"].stamp = job["install"].stamp /\ job'["maint"] = job["maint"]
    BY <1>0, <1>2
    DEF GetPackage, ApplyDriver, Work, Step, Fail, WorkerLeaves, TypeOK, Job, Worker
  <2>2. QED
    BY <2>1, KeptSafe DEF Guarded, Holds
<1>3. CASE k # "install" /\ CallSystem(k)
  <2>1. /\ UNCHANGED <<alive, sec, folder, clash, removed>>
        /\ job[k].st = "call" /\ job'[k].st = "answer"
        /\ \A o \in Worker \ {k} : job'[o] = job[o]
    BY <1>0, <1>3 DEF CallSystem, Work, WorkerLeaves, TypeOK, Job
  <2>2. job'["install"] = job["install"] /\ (k = "maint" \/ job'["maint"] = job["maint"])
    BY <1>3, <2>1 DEF Worker
  <2>3. QED
    BY <1>0, <2>1, <2>2, QuietSafe
<1>4. CASE k # "restore" /\ QueryDriver(k)
  BY <1>4, QueryInstallSafe, QueryByHandSafe DEF Worker
<1>5. CASE k # "restore" /\ ExportDriver(k)
  BY <1>5, ExportInstallSafe, ExportByHandSafe DEF Worker
<1>6. CASE k # "restore" /\ (WriteManifest(k) \/ Prune(k))
  BY <1>6, ManifestSafe, PruneSafe DEF Worker
<1>7. QED
  BY <1>1, <1>2, <1>3, <1>4, <1>5, <1>6 DEF WorkerStep

LEMMA SafeMeansSaved == Basics /\ Safe => SavedBackupStands
<1> SUFFICES ASSUME Basics, Safe, Calm, job["install"].ask,
                    job["install"].st \in {"package", "apply"}
             PROVE  HasBackup(job["install"].dev)
  BY DEF SavedBackupStands, Calm
<1>1. PICK m \in Stamp : Lasting(m)
  BY DEF Safe, Top, Guarded
<1>2. QED
  BY <1>1 DEF Lasting, HasBackup

(* A driver is installed only while a backup made for that install, or a newer *)
(* one of the device, can be put back.                                         *)
THEOREM SavedBackupCorrect == Spec => []SavedBackupStands
<1>1. Basics /\ Safe /\ UNCHANGED vars => Safe'
  <2>1. Basics => sec \in Stamp /\ sec <= sec
    BY InstallConstants DEF Basics, TypeOK, Stamp
  <2>2. QED
    BY <2>1, QuietSafe DEF vars, history
<1>2. Basics /\ Safe /\ [Next]_vars => Safe'
  BY <1>1, UserSafe, OtherSafe, WorkerSafe DEF Next
<1>3. QED
  BY BasicsHold, InitSafe, <1>2, SafeMeansSaved, PTL DEF Spec
================================================================================
