---------------------------- MODULE CatalogSearch ----------------------------
(***************************************************************************)
(* The GUI's scheduler of catalog work: who may start a driver search, a   *)
(* firmware search or a driver-database refresh, and when.                 *)
(*                                                                         *)
(* Everything here runs on the Qt GUI thread, one handler at a time, except *)
(* the three kinds of worker.  A handler is one action.  A modal dialog    *)
(* (QMessageBox.exec) splits its handler in two: while the dialog is open a *)
(* nested event loop keeps delivering timers and worker signals, clicks on  *)
(* the main window are not delivered, and the dialogs close innermost       *)
(* first.  A search is named by the request that asked for it.              *)
(*                                                                         *)
(* Left out: tables, wording, progress bars, dialogs that only inform (they *)
(* keep clicks away for a while, so the model allows more), and the crash-  *)
(* module check, whose only caller is itself (gui_mixin_catalog_scan.py:   *)
(* nothing outside _start_crash_module_catalog_check and the cleanup fills *)
(* its slot).                                                              *)
(***************************************************************************)
EXTENDS Naturals, Sequences

CONSTANTS
  ClickRequests,    \* driver searches begun with the Search button
  AutoRequests,     \* driver searches begun by a timer (crash-linked, recheck)
  SummaryRequests,  \* single-driver checks begun on the Summary tab
  None,             \* no request
  MaxGen,           \* bound: how many times Run Analysis is clicked
  WithFirmware,     \* BOOLEAN: the user may search for firmware
  WithRefresh,      \* BOOLEAN: the user may refresh the driver database
  WithPortable,     \* BOOLEAN: the user may switch to portable mode
  FinishRace        \* BOOLEAN: handlers may run between the end of a QThread
                    \* and the delivery of its queued finished() signal

Requests == ClickRequests \cup AutoRequests \cup SummaryRequests

ASSUME ConstantsAssumption ==
  /\ ClickRequests \cap AutoRequests = {}
  /\ (ClickRequests \cup AutoRequests) \cap SummaryRequests = {}
  /\ None \notin Requests
  /\ {"fw", "stale", "refresh"} \cap Requests = {}
  /\ MaxGen \in Nat
  /\ {WithFirmware, WithRefresh, WithPortable, FinishRace} \subseteq BOOLEAN

VARIABLES
  phase,      \* where each request is, see Phases
  queue,      \* _drv_manual_queue
  held,       \* the request whose thread is _drv_thread, or None
  starting,   \* _drv_thread_starting
  owner,      \* the request _compare_target and _drv_check_names belong to
  gen,        \* _drv_catalog_generation
  jobGen,     \* _drv_catalog_job_generation
  fw,         \* _fw_thread
  refresh,    \* the driver-database refresh worker
  refreshRef, \* _catalog_refresh_job still refers to that worker's thread
  modal,      \* open dialogs, innermost first
  stalePrompted, \* _catalog_stale_prompt_shown
  profile,    \* _hardware_profile is there
  closing,    \* _shutting_down
  launchGen,  \* history: the generation in force when a search was launched
  outcome     \* history: what the GUI did with a search's answer

drvVars  == <<held, starting, owner, jobGen, launchGen>>
jobVars  == <<fw, refresh, refreshRef, stalePrompted, profile>>
vars == <<phase, queue, held, starting, owner, gen, jobGen, fw, refresh,
          refreshRef, stalePrompted, profile, modal, closing, launchGen,
          outcome>>

(***************************************************************************)
(* A request is idle, then waits (a PowerShell 7 prompt is open for it, its *)
(* hardware scan or 100 ms timer runs, it is in the queue, or it was popped *)
(* and its 0 ms timer is pending), then its thread is alive, then ended     *)
(* with finished() not delivered yet, then over.                            *)
(***************************************************************************)
Waiting == {"prompt", "chained", "queued", "popped"}
Alive   == {"running", "answered", "failed", "quitting"}
Over    == {"done", "dropped", "cancelled"}
Phases  == {"idle", "ended"} \cup Waiting \cup Alive \cup Over

Frames == Requests \cup {"fw", "stale", "refresh"}

TypeOK ==
  /\ phase \in [Requests -> Phases]
  /\ queue \in Seq(Requests)
  /\ held \in Requests \cup {None}
  /\ starting \in BOOLEAN
  /\ owner \in Requests \cup {None}
  /\ gen \in 0..MaxGen
  /\ jobGen \in 0..MaxGen
  /\ fw \in {"idle", "running", "answered", "ended"}
  /\ refresh \in {"idle", "running", "answered"}
  /\ refreshRef \in BOOLEAN
  /\ stalePrompted \in BOOLEAN
  /\ profile \in BOOLEAN
  /\ modal \in Seq(Frames)
  /\ closing \in BOOLEAN
  /\ launchGen \in [Requests -> 0..MaxGen]
  /\ outcome \in [Requests -> {"none", "applied", "failed", "ignored"}]

Init ==
  /\ phase = [r \in Requests |-> "idle"]
  /\ queue = <<>>
  /\ held = None /\ starting = FALSE /\ owner = None
  /\ gen = 0 /\ jobGen = 0
  /\ fw = "idle" /\ refresh = "idle" /\ refreshRef = FALSE
  /\ stalePrompted = ~WithRefresh
  /\ profile \in IF WithPortable THEN BOOLEAN ELSE {TRUE}
  /\ modal = <<>>
  /\ closing = FALSE
  /\ launchGen = [r \in Requests |-> 0]
  /\ outcome = [r \in Requests |-> "none"]

-----------------------------------------------------------------------------
(* What the guards of the handlers read. *)

\* mutant: the busy test forgets the thread once it has started
DrvBusyStartingOnly == starting

\* _drv_catalog_thread_busy
DrvBusy == starting \/ (held # None /\ phase[held] \in Alive)

\* _fw_catalog_thread_busy
FwBusy == fw \in {"running", "answered"}

\* _catalog_db_refresh_busy: BackgroundJob.is_running
RefreshBusy == refreshRef /\ refresh # "idle"

\* _block_if_other_catalog_busy("driver") and ("firmware")
DrvBlocked == RefreshBusy \/ FwBusy
FwBlocked  == RefreshBusy \/ DrvBusy

\* mutant: stale only at shutdown, whatever Run Analysis did
JobStaleAtShutdown == closing

\* _drv_catalog_job_stale
JobStale == closing \/ jobGen # gen

\* Unless FinishRace, no handler runs while a finished() is in flight.
Settled == FinishRace \/ (fw # "ended" /\ \A r \in Requests : phase[r] # "ended")

\* A click reaches the main window.
Clickable == Settled /\ modal = <<>> /\ ~closing

Push(f) == modal' = <<f>> \o modal
Pop(f)  == modal # <<>> /\ Head(modal) = f /\ modal' = Tail(modal)
Move(r, p) == phase' = [phase EXCEPT ![r] = p]

-----------------------------------------------------------------------------
(* Driver search: starting it. *)

\* The fields a search needs, then _launch_drv_catalog_worker.
Launch(r) ==
  /\ owner' = r
  /\ jobGen' = gen
  /\ launchGen' = [launchGen EXCEPT ![r] = gen]
  /\ held' = r
  /\ starting' = TRUE
  /\ Move(r, "running")

\* mutant: the search is queued without asking whether anything is running
StartTabQueueAlways(r) ==
  IF DrvBlocked
  THEN Move(r, "dropped") /\ UNCHANGED <<queue, drvVars>>
  ELSE /\ Move(r, "queued")
       /\ queue' = Append(queue, r)
       /\ UNCHANGED drvVars

\* _start_drivers_tab_catalog_check: blocked, queued, given up for want of a
\* hardware profile, or launched.  The crash-linked search brings its own
\* devices; the recheck, the other automatic one, needs the profile.
StartTab(r) ==
  \/ /\ DrvBlocked
     /\ Move(r, "dropped")
     /\ UNCHANGED <<queue, drvVars>>
  \/ /\ ~DrvBlocked
     /\ DrvBusy
     /\ Move(r, "queued")
     /\ queue' = Append(queue, r)
     /\ UNCHANGED drvVars
  \/ /\ ~DrvBlocked
     /\ ~DrvBusy
     /\ ~profile
     /\ Move(r, "dropped")
     /\ UNCHANGED <<queue, drvVars>>
  \/ /\ ~DrvBlocked
     /\ ~DrvBusy
     /\ profile \/ r \in AutoRequests
     /\ Launch(r)
     /\ UNCHANGED queue

\* _on_begin_driver_update_workflow.  After the prompt it scans hardware or
\* fills the table when it must, and continues from their completion.
BeginClick(r) ==
  /\ Clickable
  /\ phase[r] = "idle"
  /\ ~DrvBusy /\ ~DrvBlocked
  /\ profile
  /\ \/ Push(r) /\ Move(r, "prompt")
     \/ UNCHANGED modal /\ Move(r, "chained")
  /\ UNCHANGED <<queue, drvVars, gen, jobVars, closing, outcome>>

\* _maybe_start_auto_crash_linked_catalog and _recheck_driver_devices.
AutoTimer(r) ==
  /\ Settled /\ ~closing
  /\ phase[r] = "idle"
  /\ ~DrvBusy
  /\ \/ Push(r) /\ Move(r, "prompt") /\ UNCHANGED <<queue, drvVars>>
     \/ UNCHANGED modal /\ StartTab(r)
  /\ UNCHANGED <<gen, jobVars, closing, outcome>>

\* The PowerShell 7 prompt of r closes: the search goes on, or is given up.
PromptAnswer(r) ==
  /\ Settled
  /\ phase[r] = "prompt"
  /\ Pop(r)
  /\ \/ Move(r, "dropped") /\ UNCHANGED <<queue, drvVars>>
     \/ /\ r \in ClickRequests
        /\ Move(r, "chained")
        /\ UNCHANGED <<queue, drvVars>>
     \/ r \in AutoRequests /\ StartTab(r)
  /\ UNCHANGED <<gen, jobVars, closing, outcome>>

\* _continue_driver_search_after_tab_ready; or the chain ends early, because
\* the scan failed, no device is included, or the window is closing.
ChainContinue(r) ==
  /\ Settled
  /\ phase[r] = "chained"
  /\ \/ Move(r, "dropped") /\ UNCHANGED <<queue, drvVars>>
     \/ ~closing /\ StartTab(r)
  /\ UNCHANGED <<gen, jobVars, modal, closing, outcome>>

\* The 0 ms timer posted by _flush_drv_manual_queue.
FireQueued(r) ==
  /\ Settled
  /\ phase[r] = "popped"
  /\ StartTab(r)
  /\ UNCHANGED <<gen, jobVars, modal, closing, outcome>>

\* _on_check_driver_catalog for the Summary tab: it asks neither for the
\* firmware search nor for a queue, and names its target before launching.
SummaryClick(r) ==
  /\ Clickable
  /\ phase[r] = "idle"
  /\ ~DrvBusy
  /\ \/ \* no faulting driver in the report
        /\ owner' = r
        /\ Move(r, "dropped")
        /\ UNCHANGED <<held, starting, jobGen, launchGen>>
     \/ /\ RefreshBusy
        /\ owner' = r /\ jobGen' = gen
        /\ Move(r, "dropped")
        /\ UNCHANGED <<held, starting, launchGen>>
     \/ /\ ~RefreshBusy
        /\ Launch(r)
  /\ UNCHANGED <<queue, gen, jobVars, modal, closing, outcome>>

-----------------------------------------------------------------------------
(* Driver search: its thread and its signals. *)

\* started -> _clear_drv_thread_starting
StartedSlot ==
  /\ starting
  /\ starting' = FALSE
  /\ UNCHANGED <<phase, queue, held, owner, gen, jobGen, jobVars, modal,
                 closing, launchGen, outcome>>

\* DriverCatalogWorker.run emits finished or failed, exactly one of them.
WorkerAnswer(r) ==
  /\ phase[r] = "running"
  /\ \E p \in {"answered", "failed"} : Move(r, p)
  /\ UNCHANGED <<queue, drvVars, gen, jobVars, modal, closing, outcome>>

\* _on_driver_catalog_ready / _on_driver_catalog_failed, then thread.quit.
\* Signals of one thread arrive in order, so started has been delivered.
HandleAnswer(r) ==
  /\ phase[r] \in {"answered", "failed"}
  /\ held = r => ~starting
  /\ Move(r, "quitting")
  /\ outcome' = [outcome EXCEPT ![r] =
                   IF JobStale THEN "ignored"
                   ELSE IF phase[r] = "answered" THEN "applied" ELSE "failed"]
  /\ UNCHANGED <<queue, drvVars, gen, jobVars, modal, closing>>

\* The thread's event loop returns; isRunning is false from here on.
ThreadEnd(r) ==
  /\ phase[r] = "quitting"
  /\ Move(r, "ended")
  /\ UNCHANGED <<queue, drvVars, gen, jobVars, modal, closing, outcome>>

\* mutant: the queue is not flushed
CleanupNoFlush(r) ==
  /\ phase[r] = "ended"
  /\ held' = None
  /\ starting' = FALSE
  /\ Move(r, "done")
  /\ UNCHANGED <<queue, owner, gen, jobGen, jobVars, modal, closing, launchGen,
                 outcome>>

\* mutant: the flush reads the first job and leaves it in the queue
CleanupPeek(r) ==
  /\ phase[r] = "ended"
  /\ held' = None
  /\ starting' = FALSE
  /\ phase' = IF closing \/ queue = <<>>
              THEN [phase EXCEPT ![r] = "done"]
              ELSE [phase EXCEPT ![r] = "done", ![Head(queue)] = "popped"]
  /\ UNCHANGED <<queue, owner, gen, jobGen, jobVars, modal, closing, launchGen,
                 outcome>>

\* _cleanup_driver_catalog_thread with _flush_drv_manual_queue: it drops the
\* thread whichever it is, and pops one queued job.
Cleanup(r) ==
  /\ phase[r] = "ended"
  /\ held' = None
  /\ starting' = FALSE
  /\ IF closing \/ queue = <<>>
     THEN Move(r, "done") /\ UNCHANGED queue
     ELSE /\ phase' = [phase EXCEPT ![r] = "done", ![Head(queue)] = "popped"]
          /\ queue' = Tail(queue)
  /\ UNCHANGED <<owner, gen, jobGen, jobVars, modal, closing, launchGen, outcome>>

-----------------------------------------------------------------------------
(* Firmware search and driver-database refresh. *)

drvSide == <<phase, queue, drvVars, gen, profile, closing, outcome>>
refreshVars == <<refresh, refreshRef, stalePrompted>>

\* _on_check_firmware_catalog: every check is made before the prompt.
FwClick ==
  /\ WithFirmware /\ Clickable
  /\ fw = "idle" /\ ~FwBlocked
  /\ \/ Push("fw") /\ UNCHANGED fw
     \/ fw' = "running" /\ UNCHANGED modal
  /\ UNCHANGED <<drvSide, refreshVars>>

\* The prompt closes; _start_firmware_catalog_check only asks for _shutting_down.
FwPromptAnswer ==
  /\ Settled /\ Pop("fw")
  /\ \/ ~closing /\ fw' = "running"
     \/ UNCHANGED fw
  /\ UNCHANGED <<drvSide, refreshVars>>

\* The worker answers; its slot runs and the thread ends; the cleanup runs.
FwStep ==
  /\ \/ fw = "running"  /\ fw' = "answered"
     \/ fw = "answered" /\ fw' = "ended"
     \/ fw = "ended"    /\ fw' = "idle"
  /\ UNCHANGED <<drvSide, refreshVars, modal>>

\* _refresh_driver_database up to its question.
RefreshClick ==
  /\ WithRefresh /\ Clickable
  /\ ~DrvBusy
  /\ Push("refresh")
  /\ UNCHANGED <<drvSide, fw, refreshVars>>

\* mutant: the driver search is not looked at again after the question
RefreshAnswerUnchecked ==
  /\ Settled /\ Pop("refresh")
  /\ \/ UNCHANGED refreshVars
     \/ /\ ~RefreshBusy
        /\ refresh' = "running" /\ refreshRef' = TRUE
        /\ UNCHANGED stalePrompted
  /\ UNCHANGED <<drvSide, fw>>

\* ... and after it: the driver search is looked at again, then the job.
RefreshAnswer ==
  /\ Settled /\ Pop("refresh")
  /\ \/ UNCHANGED refreshVars
     \/ /\ ~DrvBusy /\ ~RefreshBusy
        /\ refresh' = "running" /\ refreshRef' = TRUE
        /\ UNCHANGED stalePrompted
  /\ UNCHANGED <<drvSide, fw>>

\* _maybe_prompt_stale_catalog_refresh, posted by a 0 ms timer: it may come up
\* over any other dialog, the question of RefreshClick included.
StalePrompt ==
  /\ Settled /\ ~closing
  /\ ~stalePrompted /\ profile
  /\ ~DrvBusy /\ ~RefreshBusy
  /\ stalePrompted' = TRUE
  /\ Push("stale")
  /\ UNCHANGED <<drvSide, fw, refresh, refreshRef>>

\* Yes goes on with _refresh_driver_database and its own question.
StaleAnswer ==
  /\ Settled /\ modal # <<>> /\ Head(modal) = "stale"
  /\ \/ modal' = Tail(modal)
     \/ ~DrvBusy /\ modal' = <<"refresh">> \o Tail(modal)
  /\ UNCHANGED <<drvSide, fw, refreshVars>>

\* finished -> _done and thread.quit; then _clear_thread_refs.
RefreshStep ==
  /\ \/ /\ refresh = "running"
        /\ refresh' = "answered"
        /\ \/ UNCHANGED stalePrompted
           \/ ~closing /\ stalePrompted' = FALSE
        /\ UNCHANGED refreshRef
     \/ /\ refresh = "answered"
        /\ refresh' = "idle" /\ refreshRef' = FALSE
        /\ UNCHANGED stalePrompted
  /\ UNCHANGED <<drvSide, fw, modal>>

-----------------------------------------------------------------------------
(* Run Analysis and closing the window. *)

\* mutant: a cleared job is filed under a status no other handler knows
CancelledUnknown ==
  [r \in Requests |-> IF phase[r] = "queued" THEN "cleared" ELSE phase[r]]

Cancelled == [r \in Requests |-> IF phase[r] = "queued" THEN "cancelled" ELSE phase[r]]

\* on_run: _reset_post_analysis_pipeline.  Threads, chains and posted timers
\* are left alone.
RunAnalysis ==
  /\ Clickable
  /\ gen < MaxGen
  /\ gen' = gen + 1
  /\ phase' = Cancelled
  /\ queue' = <<>>
  /\ UNCHANGED <<drvVars, jobVars, modal, closing, outcome>>

\* closeEvent: stop_jobs drops the refresh thread, ended or not.
Close ==
  /\ Clickable
  /\ closing' = TRUE
  /\ phase' = Cancelled
  /\ queue' = <<>>
  /\ refreshRef' = FALSE
  /\ UNCHANGED <<drvVars, gen, fw, refresh, stalePrompted, profile, modal, outcome>>

\* _enable_portable_mode forgets the profile, whatever is running; a hardware
\* scan brings it back.
SwitchProfile ==
  /\ WithPortable
  /\ \/ Clickable /\ profile' = FALSE
     \/ Settled /\ ~closing /\ profile' = TRUE
  /\ UNCHANGED <<phase, queue, drvVars, gen, fw, refreshVars, modal, closing,
                 outcome>>

-----------------------------------------------------------------------------
Next ==
  \/ \E r \in ClickRequests : BeginClick(r) \/ ChainContinue(r)
  \/ \E r \in AutoRequests : AutoTimer(r)
  \/ \E r \in SummaryRequests : SummaryClick(r)
  \/ \E r \in Requests : \/ PromptAnswer(r) \/ FireQueued(r)
                         \/ WorkerAnswer(r) \/ HandleAnswer(r)
                         \/ ThreadEnd(r) \/ Cleanup(r)
  \/ StartedSlot
  \/ FwClick \/ FwPromptAnswer \/ FwStep
  \/ RefreshClick \/ RefreshAnswer \/ StalePrompt \/ StaleAnswer \/ RefreshStep
  \/ RunAnalysis \/ Close \/ SwitchProfile

Spec == Init /\ [][Next]_vars

\* Workers come to an end and Qt delivers signals and timers; the user owes
\* nothing, neither clicks nor answers to dialogs.
Fairness ==
  /\ \A r \in Requests : /\ WF_vars(WorkerAnswer(r)) /\ WF_vars(HandleAnswer(r))
                         /\ WF_vars(ThreadEnd(r)) /\ WF_vars(Cleanup(r))
                         /\ WF_vars(FireQueued(r))
  /\ \A r \in ClickRequests : WF_vars(ChainContinue(r))
  /\ WF_vars(StartedSlot) /\ WF_vars(FwStep) /\ WF_vars(RefreshStep)

FairSpec == Spec /\ Fairness

-----------------------------------------------------------------------------
(* Properties *)

\* The scheduler implements a counter with one clerk: searches wait, run alone
\* and run at most once.
Server == INSTANCE SearchServer WITH
            waiting <- {r \in Requests : phase[r] \in Waiting},
            serving <- {r \in Requests : phase[r] \in Alive},
            retired <- {r \in Requests : phase[r] \in {"ended"} \cup Over}

ServerSpec == Server!Spec

Searching == {r \in Requests : phase[r] \in Alive}

\* At most one driver search is alive, and the busy test every handler relies
\* on sees it (the _drv_catalog_thread_busy and _launch_drv_catalog_worker
\* docstrings).
OneSearchAndSeen ==
  /\ \A r, s \in Searching : r = s
  /\ Searching # {} => DrvBusy

\* The driver search and the Tools database refresh never overlap, although
\* the refresh asks its question in a dialog during which searches may start.
SearchRefreshExclusive == ~(Searching # {} /\ refresh # "idle" /\ ~closing)

\* The driver search and the firmware search never overlap
\* (gui_catalog_parallel.py says they are mutually exclusive).
SearchFirmwareExclusive == ~(Searching # {} /\ FwBusy)

\* An answer is written into the tables only for the request whose target and
\* names the window currently holds, and only if no Run Analysis and no
\* shutdown came after its launch.
AnswerBelongs ==
  [][\A r \in Requests : outcome[r] = "none" /\ outcome'[r] = "applied"
       => owner = r /\ launchGen[r] = gen /\ ~closing]_vars

\* Somebody will flush a non-empty queue: a search whose cleanup is to come,
\* or a popped job that is about to be launched.
QueueAttended ==
  queue # <<>> /\ ~closing => \E r \in Requests : phase[r] \in Alive \cup {"ended", "popped"}

\* Every queued search is launched or cancelled in the end, unless the window
\* closes.
QueuedSearchStarts ==
  \A r \in Requests :
    phase[r] = "queued" ~> phase[r] \in Alive \cup {"cancelled"} \/ closing
=============================================================================
