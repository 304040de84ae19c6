# Verification of BSOD Analyzer

BSOD Analyzer is a Windows desktop program (Python, PySide6): it reads crash
dumps and event logs, names a likely culprit, and looks up newer drivers and
firmware on Windows Update, the Microsoft Update Catalog and vendor sites. This
directory holds TLA+ models of the parts whose correctness depends on the order
in which things happen, the TLC runs that check them on small instances, and
TLAPS proofs for every value of the constants.

    tlc -workers 2 -config CatalogSearch_all.cfg MCCatalogSearch.tla
    tlc -workers 2 -config CatalogSearch_queue.cfg MCCatalogSearch.tla
    tlc -workers 2 -config CatalogSearch_firmware.cfg MCCatalogSearch.tla      (violation)
    tlc -workers 2 -config MSCatalogScan_scans.cfg MCMSCatalogScan.tla
    tlc -workers 2 -config MSCatalogScan_store.cfg MCMSCatalogScan.tla         (violation)
    tlc -workers 2 -config CatalogDiskCache_full.cfg MCCatalogDiskCache.tla
    tlc -workers 2 -config CatalogDiskCache_moved.cfg MCCatalogDiskCache.tla
    tlc -workers 2 -config DriverInventory_chain.cfg MCDriverInventory.tla
    tlc -workers 2 -config DriverInstall_backups.cfg MCDriverInstall.tla
    tlc -workers 2 -config DeviceCheck_offers.cfg MCDeviceCheck.tla
    tlc -workers 2 -config DeviceCheck_doubt.cfg MCDeviceCheck.tla             (violation)
    tlc -workers 2 -config CrashReport_blame.cfg MCCrashReport.tla
    for m in CatalogSearch MSCatalogScan CatalogDiskCache CatalogDiskCacheAge \
             DriverInventory DriverInstall DeviceCheck CrashReport; do
      tlapm ${m}Proofs.tla
    done

## 1. Inventory

| component | files | state | interaction |
|---|---|---|---|
| catalog-work scheduling | gui_mixin_catalog_scan.py, gui_mixin_firmware_scan.py, gui_mixin_catalog_shell.py, gui_mixin_drivers_workflow.py | the driver thread and its starting flag, the queue of searches, job and current generation, the firmware thread, the refresh job | clicks, timers and queued worker signals on the GUI thread; nested event loops inside dialogs |
| background workers | bsod_gui_workers.py, gui_signal_relay.py | one QThread and worker object per task | run on their thread, answer with one signal; BackgroundJob owns a thread |
| lifecycle and analysis | gui_mixin_lifecycle.py, gui_mixin_analysis.py | `_shutting_down`, generations | Run Analysis and close invalidate what is in flight |
| task progress | gui_mixin_task_progress.py | nesting depth | every long task begins and ends it |
| hardware profile, driver list | gui_mixin_drivers_inventory.py, gui_mixin_drivers.py, gui_mixin_drivers_table.py, hardware_cache.py | profile, list of devices, the build of the rows and its generation, the batched fill | chains a search after a scan, a load, a build and a fill |
| MSCatalog session | catalog_mscatalog_session.py, catalog_online_store.py, catalog_ps_batch.py, catalog_ps_context.py, catalog_ps_module.py, catalog_multi_device.py | per-scan query cache, Windows Update rows, online driver store, session depth, four locks | shared by all worker threads; one PowerShell process at a time |
| disk cache | catalog_cache.py, app_settings.py (catalog_cache_dir) | one file of Windows Update rows and one of PC-maker rows per identity, the bound identity | read and written by searches and the refresh on their threads, cleared from menus, bound by the window |
| in-memory caches | catalog_lru_cache.py, catalog_vendor_cache.py | bounded maps with time stamps | shared by worker threads |
| runtime probes | bsod_runtime.py | probe results, PowerShell lock | used by everything that runs PowerShell |
| install, backup, restore | driver_install.py, driver_backup.py, gui_mixin_catalog_install.py | backup folders and manifests, three worker threads, the context of the install | install backs up first, restore comes from a backup |
| bundles, settings, logs | bundle_selective_install.py, app_settings.py, session_log.py, maintenance_log.py, log_cleanup.py, fix_progress.py | small files | |
| crash analysis | bsod_minidump.py, bsod_events.py, bsod_crash_report.py, crash_report_*.py, driver_verification.py, gui_mixin_analysis.py | the shown model, the report and the arguments it is made from | made by the analysis worker; rewritten by a summary thread and by every driver search about the crash |
| scoring and status | catalog_device_comparison.py, catalog_offer_*.py, catalog_scoring.py, catalog_tier_policy.py | the rows of one device | called by each pool worker; asks two sources on threads |
| vendor lookups, firmware | catalog_*_fetch.py, catalog_oem_live.py, vendor_*.py, firmware_*.py | none or caches above | called by the search workers |
| widgets, theme, tabs | gui_theme.py, gui_widgets.py, gui_mixin_tabs.py, ... | presentation | |

What makes each component correct:

* **Scheduling.** At most one driver search at a time, and the busy test every
  handler relies on must see it; no search during a database refresh; none beside
  a firmware search; an answer is written only where it was asked for; a search
  that was queued runs. The hard part is that every dialog is a nested event loop:
  timers and worker signals arrive between the test a handler made and the action
  it takes after the user's answer.
* **Microsoft Update Catalog search.** Every query the warm-up is for is answered
  before the workers start, however its processes fail; a search uses its own
  answers; one catalog process at a time; every search ends. The hard part is the
  retry that splits chunks, the cache shared by the pool, and three locks.
* **Disk cache.** Rows are read only for the machine they were fetched for; a
  refresh leaves no row of before; what is saved says whether it was cut short.
* **Profile and driver list.** A search that waits for the device list is always
  carried by a worker or a timer; a fill of the table is not robbed of what it has to
  do at its end. The hard part is that scan, load, build and fill each have one
  callback that a second request overwrites.
* **Install, backup, restore.** The backup made before an install is there while
  the driver is replaced, whatever the pruning of the other worker does; the
  progress bar and the buttons come back on every path.
* **Scoring and status.** A device told to update can be updated; the order in
  which sources answer cannot be seen; a source is passed over only for a reason
  that still holds at the end; doubt is not shown as "no offer".
* **Crash analysis.** A module is blamed only on evidence of this crash; the copies
  of the outcome agree; what the report says of the blamed driver is current.
* **Task progress.** Every begin has one end on every path, errors included.
* **In-memory caches.** Bounds and expiry hold with several workers.

The hazards, each at its line, are in PROJECT.json under "hazards", with the
properties that would catch them.

## 2. Modules

| module | contents | runs | proofs |
|---|---|---|---|
| CatalogSearch | the GUI's scheduler; implements SearchServer, a counter with one clerk | catalog_all, catalog_queue, catalog_firmware | CatalogSearchProofs |
| MSCatalogScan | query cache, warm-up, pool, locks | mscatalog_scans, mscatalog_store | MSCatalogScanProofs |
| CatalogDiskCache | the scope global, folders, tags, the one-time move, searches, refresh, a crash in a write | cache_full, cache_moved | CatalogDiskCacheProofs, CatalogDiskCacheAgeProofs |
| DriverInventory | profile, device list, table, the chained search, the one progress bar | inventory_chain | DriverInventoryProofs |
| DriverInstall | backup, pruning, install, restore, System Restore, crash and restart | install_backups | DriverInstallProofs |
| DeviceCheck | one device: which source is asked, comparing, corroborating, status | device_offers, device_doubt | DeviceCheckProofs |
| CrashReport | suspects, the copies of the outcome and everybody who writes them | crash_blame | CrashReportProofs |

Each module takes its sets and limits as CONSTANTS with a named assumption,
has one action per handler or operation, states its invariants as named parts,
and uses no RECURSIVE operator, so that it can be proved about. MC modules give
the constants of one instance each.

The modules meet in these places. MSCatalogScan and CatalogDiskCache start a
search only when none runs, which is CatalogSearch's OneSearchAndSeen, and
CatalogDiskCache runs the refresh in no search, which is SearchRefreshExclusive.
DriverInventory's `StartSearch` is the entry to CatalogSearch's StartTab, whose
lock-outs it leaves there. DeviceCheck is what a pool worker of MSCatalogScan
does for one device. CrashReport's `job` is one of CatalogSearch's searches and
its rows are what DeviceCheck gives.

Every safety and action property a passing run checks is a theorem too. The
liveness properties (QueuedSearchStarts, GuiScanFinishes, ChainEnds, BarEnds,
ButtonsComeBack, SummaryCatchesUp) stay with TLC: they rest on fairness, hence on
ENABLED, which the provers do not handle.

What a next step would be: MSCatalogScan as a refinement of a memo table that
answers each query once, CatalogDiskCache as a refinement of a register per
identity, the searches of CatalogSearch composed with the steps of
MSCatalogScan, and the portable layout's RowsNeverGoBack for a PC whose identity
does not change.

## 3. CatalogSearch: who may start a search

### How state and actions correspond

Everything but the workers runs on Qt's GUI thread, so one handler is one
action. `modal` is the stack of open dialogs; a handler that asks a question is
two actions, the second enabled when its dialog is innermost. Clicks on the main
window need an empty stack (`Clickable`); timers and queued signals do not.

| model | code |
|---|---|
| `phase[r]` | life of one request: prompt, hardware scan, queue, popped with its 0 ms timer, thread alive, ended, over |
| `queue` | `_drv_manual_queue` |
| `held`, `starting` | `_drv_thread`, `_drv_thread_starting` |
| `owner` | whose target and names are in `_compare_target`, `_drv_check_names` |
| `gen`, `jobGen` | `_drv_catalog_generation`, `_drv_catalog_job_generation` |
| `fw`, `refresh`, `refreshRef` | firmware thread, refresh worker, and whether `_catalog_refresh_job` still refers to it |
| `BeginClick`, `AutoTimer`, `PromptAnswer`, `ChainContinue`, `StartTab` | the ways to a Drivers-tab search, the PowerShell 7 prompt and the chained hardware scan |
| `SummaryClick` | the Summary tab's single check |
| `Launch`, `StartedSlot` | `_launch_drv_catalog_worker` and the slot that clears the starting flag |
| `WorkerAnswer`, `HandleAnswer`, `ThreadEnd`, `Cleanup`, `FireQueued` | the worker's signal, its handler with the stale test, the end of the QThread, the cleanup with the flush, the flushed job |
| `FwClick` ... `FwStep` | the firmware search |
| `RefreshClick` ... `RefreshStep`, `StalePrompt` | the database refresh, from the menu and from the stale prompt |
| `RunAnalysis`, `Close`, `SwitchProfile` | new generation, shutdown, portable mode |

`FinishRace` tells whether a handler may run after a QThread has stopped and
before its queued `finished()` is delivered. Qt allows it; the window is the time
one posted event waits. The runs and all theorems but TypeCorrect assume that it
does not happen; what does if it happens is in section 11.

### What the runs show

| run | result |
|---|---|
| catalog_all | with two clicks, one timer and one Summary search and every other job: TypeOK, OneSearchAndSeen, SearchRefreshExclusive, AnswerBelongs, and ServerSpec (implements SearchServer) hold |
| catalog_queue | driver searches only, fair: QueueAttended and QueuedSearchStarts hold |
| catalog_firmware | SearchFirmwareExclusive fails: the Summary check does not ask for the firmware search, and the firmware search does not ask again after its prompt |

Bounds. Two click requests are the least with which one is queued behind the
other while a third (the timer's) comes in; the Summary request is the only one
that never queues. One Run Analysis (MaxGen = 1) gives two generations, enough for
an answer to be stale. The two clicks are interchangeable, hence the symmetry;
the run with liveness does not use it.

Fairness (catalog_queue only): a worker answers (its lookups have timeouts and
every path of `run` ends in a signal), the event loop delivers queued signals
and timers, a hardware scan ends. A user never has to click or to answer a
dialog: PromptAnswer, RunAnalysis, Close and the clicks have no fairness. The
property is about queued searches, which wait for no dialog of their own.

### What is proved

CatalogSearchProofs proves for every set of requests and every number of Run
Analysis clicks: TypeCorrect (without any assumption on FinishRace), and, assuming
~FinishRace, OneSearch, SearchAndRefreshExclusive, AnswersBelong and
ImplementsServer. OneSearchAndSeen is not inductive: the busy test reads one
handle and one flag. IInv adds

* HandleInv: every thread that is alive, or ended and not cleaned up, is the one
  in the handle, and a handle is never left over;
* StartingInv: the starting flag is up only for the thread in the handle;
* QueueInv: what is queued merely waits, and once (else the flush could launch a
  request that already runs);
* ClosingInv: no dialog is open after closing;
* RefreshInv: while a refresh is under way its job refers to it and no search is
  alive. The job refers to it because the test after the dialog reads the job.

Each step lemma has one case per action. ImplementsServer maps each action to a
step of SearchServer or a stutter, with the sets of waiting, alive and finished
requests as the mapping.

QueueIsAttended (the property QueueAttended) assumes DriverSearchesOnly, what
catalog_queue assumes: no finish race, no firmware search, no refresh and no switch
to portable mode. Beside any of the last three it is false: a popped job finds the
catalog busy or the profile gone and is dropped (section 11), and with it the
flush of those behind it. QueueIInv adds to
IInv what the hypothesis is good for (NothingElse: nothing else runs, the profile
stays, every dialog is a request's), so that a popped request meets nothing but
another driver search, which puts it back into the queue and flushes it when it
ends. Only model-checked: QueuedSearchStarts, which needs fairness.

## 4. MSCatalogScan: the catalog part of one search

### How state and actions correspond

A thread is the search's own (`Main`) or a pool worker; `pc` says where each is,
`job` which queries it still has to look up. What the code does under
_BATCH_MSCATALOG_LOCK is one action, so a lookup is several: the test, the
PowerShell process under _CATALOG_PS_LOCK, the write.

| model | code |
|---|---|
| `cache` | `_BATCH_MSCATALOG_QUERY_CACHE`: missing, rows, none or error |
| `wanted`, `pending`, `parts`, `group` | the warm-up's queries, those in no chunk yet, halves to retry, the running chunk |
| `left` | devices the pool has not taken; then the devices of the gap pass |
| `psLock`, `storeLock` | `_CATALOG_PS_LOCK`, `_ONLINE_DRIVER_STORE_LOCK` |
| `StartBatch`, `ScanEnds`, `ScanRaises` | build_multi_device_driver_comparison with its `finally` |
| `StartSingle`, `SingleEnds` | the Summary check, which has no begin and no clear |
| `WarmPick`, `BatchOk`, `BatchFails`, `BatchGivesUp` | chunks, seeding, split retry, fall back to one by one |
| `PoolStart`, `WorkerTake` | the thread pool |
| `GapStart`, `GapLookups` | the coverage-gap pass |
| `Lookup`, `OpenQuery`, `CloseQuery`, `Answer` | _search_mscatalog_updates_cached and the search below it |
| `StoreLock` ... `StoreRows` | the online driver store outside the GUI |
| `ClearClick` | "Clear Windows Update cache" |

`cleared` and `bornIn` are history. `gui` is fixed when the program starts. Chunks
and a device's queries are sets: their order decides nothing here.

### What the runs show

| run | result |
|---|---|
| mscatalog_scans | with a batch search, a Summary check, two workers and a firmware search beside them, in the GUI or not, fair: TypeOK, WarmCovers, BatchAnswersFresh, AnswersStand and GuiScanFinishes hold |
| mscatalog_store | ScanFinishes fails outside the GUI: saving the driver store takes a lock the thread already holds |

Bounds. Three queries to warm with ChunkSize 2 make a full chunk, a remainder, a
split into two halves and a give-up with queries left over; the two ordinary
devices share a query so that workers meet on it; the GPU device is left out of
the warm-up, so that a worker can miss q4, which only it and the gap pass ask; q2 has
no package. Two workers are the least that meet on a lock.

AnswersStand is about the GUI. Outside it there is no warm-up: two workers that
miss the same query ask for it one after the other, and the later answer, an error
perhaps, replaces the earlier, so that devices of one search can be judged by
different packages. The same can happen to a query that two GPU devices share and
no other device asks (ColdQueries), and after a click on "Clear Windows Update
cache".

Fairness: weak, on Main's steps together and on each worker's: threads are
scheduled, a PowerShell process is killed at its timeout, an idle worker takes what
is submitted. A lookup that has come to the PowerShell lock stays there until it
gets it. The firmware search may take the lock any number of times, but its process,
which has a timeout, gives it back (weak, FwClose), and if the lock is free again
and again some thread that waits for it gets it (strong, OpenQuery of any thread): a
thread that waits for a `threading.Lock` is woken when it is released, and the
firmware search does other work between its processes. Which waiter gets it is not
assumed. So GuiScanFinishes says that no retry, fallback, hand-over of a device,
wait or second lock keeps a search from its end. That a firmware search goes on,
exceptions and the user are never owed.

### What is proved

MSCatalogScanProofs proves, for every set of queries, devices, searches and
workers and every chunk size, with or without a firmware search: TypeCorrect, WarmUpCovers,
BatchIsFresh. The strengthening has two parts. ControlInv says
where Main can be in each stage, that workers are busy in the pool only, that a
chunk is in hand only while its process runs, and that the holder of the
PowerShell lock is inside a query. OwedInv is what WarmCovers needs during the
warm-up: a query without an answer is still in no chunk, in a half, in the running
process, or in the list to ask one by one. Nothing is assumed but ScanConstants.

AnswersOnce is the action property AnswersStand. The test of the cache and the
write are different steps, so it needs to know of everybody between the two that
nobody else wrote meanwhile: Main asks only what has no answer and is alone when it
does (MainAsksNew); a worker, to which WarmCovers leaves nothing else, asks only
cold queries (WorkersAskCold); and what the warm-up has in hand has no answer and is
in one hand only, through all the splits (InHandIsNew, InOneHand). HandInv ties
these hands to where Main is.
Only model-checked: GuiScanFinishes, which needs fairness.

## 5. CatalogDiskCache: rows on disk and in the session

### How state and actions correspond

An identity is what `machine_fingerprint` makes of what is known about the PC:
maker and model after a device scan (`Base`), the serial number too after a later
query (`Tag`). In the portable layout each identity has a folder, in a full
install all share one (`Home`). The code does not pass the folder along: a
`with` statement puts the identity into a global, the file functions read it from
there, and every thread does so. Entering, opening the file, writing it and
leaving are therefore steps of their own.

| model | code |
|---|---|
| `bound`, `saved` | `_bound_system_ctx`; what each open `catalog_system_ctx_scope` will put back |
| `disk` | the two files of each folder: missing, torn (between the emptying and the writing of `write_text`), or tag, date and rows |
| `marker` | folders with `.migrated_v620` |
| `wu`, `wuLive`, `oem` | `_WU_DRIVER_ROWS_CACHE`, its five minutes, `_OEM_ROWS_CACHE` |
| `profile` | the window's hardware profile, which `ProfileArrives` changes while jobs run |
| `stage`, `raw`, `ext` | the job on the worker thread, the identity it persists under and the one it loads under |
| `Enter`, `Load`, `OpenForWrite`, `Fill`, `Exit` | load_wu_rows, load_oem_offers, save_wu_rows, save_oem_offers |
| `Migrated`, `Marked`, `StampedHome` | migrate_legacy_catalog_cache, which any request for a folder runs |
| `WuHit` ... `WuSaved` | _get_cached_wu_driver_rows |
| `OemAsk`, `OemOnDisk`, `OemAskedLive` | fetch_oem_driver_offers |
| `StartBatch`, `StartPool`, `StartSingle`, `EndPool` | the two kinds of driver search |
| `Persist`, `PersistOem`, `Leave` | persist_session_catalog_cache |
| `StartRefresh` ... `RefreshFails` | refresh_driver_database |
| `ClearMenu` | the two clearing items of the Tools menu |
| `Restart` | the process ends anywhere; the next one may run on another PC |

A row list is reduced to the day it was asked for and the PC it was asked on
(`asOf`, `on`). `since` is history. The migration of one folder is one step.

### What the runs show

| run | result |
|---|---|
| cache_full | full install, folder used by two PCs, an older version's file tagged or not: TypeOK, RowsOfThisMachine, RefreshLeavesNothingOld and RowsNeverGoBack hold |
| cache_moved | portable, a folder for each identity, the older version's file still to be moved: RowsOfThisMachine holds, although files land in the wrong folder |

Bounds. Two days are the least with which rows are older than other rows and a file
is stale; one restart is the least after which memory is empty and the PC another
one; the first PC has two identities and the second has one, so that the identity
changes under a running job. Each has one worker beside the job's own thread: in a
full install the scope names no folder, so that workers differ in nothing but the
order of their saves. cache_moved keeps the two identities, and with them the wrong
folders: the job's thread, its worker and the window bind different ones. It has one
day and no restart; that the PC is another one than that of the older version's file
is in its initial states. No fairness is needed: every property is of safety.

### What is proved

CatalogDiskCacheProofs proves, for every set of identities, PCs and workers, both
layouts and every bound:

* TypeCorrect. TypeOK is not inductive, because leaving a scope takes the head of
  a stack: ScopeInv counts, for each thread, the with statements it is in (its
  call's, and the job's own in a refresh or while persisting), and ControlInv says
  where threads can be (a call in hand exactly while in one, workers busy in the
  pool only, loads in searches only, the job's thread free at its ends).
* RowsStayWithTheirPC: RowsOfThisMachine, assuming DistinctPCs: no two PCs share
  an identity, neither the one of maker and model nor the one with the serial
  number, and the tag of an older version's file, where it has one, is true. A file
  without a tag goes to whoever asks for it first (catalog_cache.py:258, 418-421);
  whose rows it holds nobody can know, so the property counts them as nobody's. That
  a PC has a known maker and model (`Base`, `Tag` are identities and not "unknown")
  is an assumption of the module. The invariant says nothing of folders: FilesOwn
  says that what a readable file holds was asked for on a PC that has the identity
  in its tag, CallsOwn and IdsOwn that calls carry identities and rows of this PC
  only. So isolation rests on the tag alone, and holds although the shared scope
  may name the wrong folder when a file is opened. The instance of cache_full
  satisfies DistinctPCs. Without it the property fails in the code too: two PCs of
  one model share their identity until the serial number is known, or for ever where
  none can be read.

CatalogDiskCacheAgeProofs proves, for a full install (FullInstall) and any PCs,
identities, workers and bounds:

* RowsNeverOlder: RowsNeverGoBack, assuming PastLegacy, that the rows of an older
  version's file were asked for before the first day of the model. An action
  property needs to know what is about to be written: a save takes several steps,
  and so does the way from rows fetched to rows in memory. OneWriter says that of
  all threads one at most is on its way to or from the Windows Update rows or
  saves; that is what keeps two saves from crossing, and what has to be read off
  every action. NewerInv, on top of it, says that what is in memory, what a thread
  brings and what it is about to save is not older than the file. The maker's
  rows in memory are of today (TodayInv), their time to live being minutes.
* RefreshIsComplete: RefreshLeavesNothingOld. From the moment a refresh has
  cleared files and memory, everything in memory, in a call and in the file was
  asked for since (FreshInv): the refresh's thread is the only one at work.

Neither is claimed for the portable layout, and with two identities RowsNeverGoBack
does not hold there: an identity that changes under a running job changes the
folder, so that rows in memory meet a file they were not compared with, and older
rows of the session are saved over newer ones (catalog_mscatalog_session.py:955-960
with bsod_gui_workers.py:700; section 11).

## 6. DriverInventory: from the scan to the chained search

### How state and actions correspond

`w` is what the window keeps, one record; the methods a handler calls are
operators from one window to the next, composed in the order of the calls. So a
handler with all it calls is one action, and what a nested call leaves behind is
seen by the one after it, as in the code.

| model | code |
|---|---|
| `profile`, `saved` | `_hardware_profile` by identity of the object; the one on disk |
| `cache`, `all`, `ready`, `rows`, `stale` | rows of the table, whether all devices were loaded, the session's inventory, whether the tab must be redrawn |
| `hw`, `load`, `build`, `search` | the four threads: none, at work, answered |
| `pend`, `onReady`, `sync`, `syncCall` | the pending build, the callback of the build, the batched fill and its callback |
| `chain`, `pendLoad`, `tabReady`, `queued` | what waits: `_after_hw_driver_search`, the load after the scan, the search after the tab is ready, the queue |
| `depth`, `owns`, `timers` | the progress bar, who owns it, single-shot timers by handler |
| `LoadDevices`, `BeginSearch`, `TabChange`, `FilterChange`, `SwitchToPortable`, `SavedAges`, `RunAnalysis`, `OtherBegins` | the user |
| `ScanAnswer`, `LoadAnswer`, `BuildAnswer`, `SearchAnswer`, `AnalysisAnswer`, `OtherEnds`, `ThreadEnds` | answers and ends of the workers |
| `TableStep`, `TimerFires` | one batch of the fill; one timer |

### What the run shows

inventory_chain: TypeOK, ChainAttended, ChainEnds and WaitingSearchKeepsItsFill
hold. The instance starts on a portable PC and on full installs
with an aged, a slim and a complete profile on disk. Three clicks are the least
for a search, a second request during its chain and something that takes the
profile away. A profile is a number, used again once neither the window nor a
callback holds the object (Held); three can be held, so a fourth number is always
free and MaxProfiles, which is 4, loses no behaviour. Deadlock is not checked: a
window nobody clicks in is idle. Fairness is weak on the program's steps together:
workers answer (all their paths end in a signal), timers fire, threads end. It
says nothing of which answer comes first, so ChainEnds holds in any order of those
steps.

### What is proved

TypeCorrect and WaitingChainIsAttended, for every bound, setting and start.
ChainAttended is not inductive: a load that waits for the scan, or a timer that
finds the profile gone, would leave the chain alone. FullInv says that in a
full install, where the profile can be taken away, a chain has a profile and no
load waits behind a scan; Carried names which worker or timer goes on with the
chain and under which condition. Good, the conjunction with the types, is shown
for every operator of the window once and composed per handler.

WaitingSearchKeepsTheFill is the action property WaitingSearchKeepsItsFill. A long
list is filled in batches, and what goes on after the fill is one callback: a second
fill overwrites it (gui_mixin_drivers_table.py:996), and a filter that waited for
the first fill starts one of its own at the end, with no callback
(:1223-1262). The property says that a search that waits for the table
(`_pending_driver_search_after_tab_ready`) does not lose it so. It is not inductive: a
build that answers fills the table anew, with the callback of the build. FillInv
says that while a fill is to finish the tab for the window's profile, a build at
work is for that profile too. Filling and Steady say that an operator keeps it and
the fill; a profile that comes from outside keeps it because no callback can hold an
object that is new (FreshProfile). What is left is the three handlers that fill the
table, where FinishTableFill says which fill they can leave behind: that of the
hidden rows, which will finish the tab for the same profile, or that of a filter, but
only after the callback has been called and the search waits no longer. The last
disjunct is the tab that was left during a fill, which drops the callback and marks
the tab stale.

Only model-checked: ChainEnds, which needs fairness.

That the progress bar belongs to whom it should is not a property of this code
(section 11), and that its depth does not fall below zero is only the clamp of
`_end_task_progress`; no property is about it.

## 7. DriverInstall: backup, install, restore

### How state and actions correspond

| model | code |
|---|---|
| `folder` | backup folders, by device and second: nothing, part of the package, the package without a manifest, or all |
| `job` | the install, maintenance and restore threads: the stage each is in, the folder it writes, what is left to prune |
| `dlg`, `box` | the dialog and the message box whose nested event loops deliver answers |
| `ctx`, `depth`, `busy` | `_last_install_context`, the task progress, the disabled buttons |
| `orphan` | a replaced thread whose cleanup is still in the event queue |
| `ConfirmInstall`, `ConfirmMaintenance`, `ClickEnable`, `ConfirmRestore`, `RestoreSelected`, `RemoveSelected` | what the user answers in the dialogs |
| `RestorePoint`, `QueryDriver`, `ExportDriver`, `WriteManifest`, `Prune`, `GetPackage`, `ApplyDriver`, `CallSystem` | one step of a worker each, with its failure |
| `AnswerInstall`, `AnswerRestore`, `AnswerMaintenance`, `CloseBox`, `LeaveThread`, `Cleanup` | the GUI's side of an answer |
| `Stop`, `ExportOutlives`, `Restart` | the program ends anywhere, a running export writes on, the next start finds the folders |
| `Tick` | the clock, which names the folders |

`clash` and `removed` are history.

### What the run shows

install_backups: TypeOK, SavedBackupStands, ContextOfInstall, BarCounts,
BarEnds and ButtonsComeBack hold. One device is enough, since pruning and
listing look at one device's folders only; three seconds with two folders kept
are the least with which pruning has to choose between an install's backup, one
made by hand and a leftover; three clicks start all three workers. Left out:
folders that cannot be deleted, boxes with an OK button only, a clock that goes
backward; a chipset row is an install without a backup. Deadlock is not checked:
a program that was closed may stay closed. Fairness is weak per worker, for
leaving its thread and its cleanup, and for each answer: processes have timeouts
and every path of `run` ends in a signal. The user owes nothing, the boxes
included; a box keeps no worker's answer away.

### What is proved

For any devices, any number of seconds and clicks and any keep count: TypeCorrect,
ContextCorrect, BarCorrect, and SavedBackupCorrect. The first three follow from
Basics, which adds to the properties where a worker that makes a backup has its
device and folder from (Shape) and that no folder is from the future (Past). For
SavedBackupStands this is not enough: the other worker may have decided to prune
before the install's backup was complete. Safe says what each stage of both
workers owes (Flight, Top): a complete folder of the device that is the install's
own or is newer than all that the other worker still deletes (Lasting). Only
model-checked: BarEnds and ButtonsComeBack.

## 8. DeviceCheck: one device of a search

### How state and actions correspond

| model | code |
|---|---|
| `dev` | the device: kind, installed version, installed package, whether the search is a quick one |
| `phase`, `pending`, `asked` | how far the check is, which of the two threads have not answered, which sources were asked |
| `found`, `shown`, `status` | rows as they came in, rows after comparing, the device's line |
| `AskManufacturer`, `OemAnswer`, `MicrosoftAnswer`, `AskCatalog` | the tiers, with the tests that skip one |
| `Compare` | finalizing: probe, compare, dual baseline, corroborate, try the suite, drop what is not newer, status |
| `GapFill` | the pass over devices without rows |

A version is a number with its numbering scheme. A row's link is what Install can
do with it: a package (or a Windows Update id), a page on which the probe finds a
package, a page, or the Windows settings. Rows of the online driver store have only
the last. A date is what it is beside the date of the installed driver: older, the
same, newer (by two weeks, the limit the code has), or none when one of the two is
missing or a placeholder; dates decide where versions are equal or cannot be
compared. A lookup that fails answers like one without rows, as it does in the code.

### What the runs show

| run | result |
|---|---|
| device_offers | TypeOK, ArrivalOrderIsInvisible, OemSkippedForAPackage and WindowsAgrees hold |
| device_doubt | DoubtIsTold fails: a vendor that could not be asked is shown as no offer |

Three versions with the middle one installed, or none known, give every verdict;
each source answers with one row at most but Intel, which adds its assistant and its
gap row. Two rows of one source could differ only in what two sources already differ
in here, except for the corroboration within a source. Rows with dates are those
whose verdict a date decides: packages of a vendor, a maker's or a catalog row that
is newer by date, and Microsoft rows without a version. Left out: the order and
wording of rows (`shown` is a set), the gate of `_recompare_offer_row`, the
version-identity map, bundles, Intel GPUs, informational rows, the rule for
Realtek's audio numbering, the coverage flag and `none_reason`. Deadlock is not
checked: a check ends.

### What is proved

For any version numbers: TypeCorrect and WindowsAgreesAlways. The invariant says
that rows are Sound when they come in (proof by hardware ID or Windows Update is
about Windows' numbering, and so is a row without a version). The lemmas follow a row
through comparing, through the help of the others and the suite (Weighed: it has a
verdict, and an update agrees with Windows). Where maker and Windows number drivers
differently an update is in Windows' numbering, and above the version Windows names,
or of that version with a newer date, or it names no version and has a newer date:
the suite alone never makes one.

Two theorems are about the whole list. SkippedForAPackage (OemSkippedForAPackage):
the row for which the PC maker was passed over is still shown, with its package.
The test that skips the maker reads rows as they came in, what is shown is
computed after comparing, corroborating, the suite and the dropping of what is
not newer; HelpNeverOlder and StaysShown follow the row through all of it, and
SkipInv keeps the row while the check goes on. OrderIsInvisible
(ArrivalOrderIsInvisible): FinalizeReordered shows, for any permutation of the
rows that keeps the order within each source, that the same set is shown, and
LateReorders that moving the maker's row to the end is one; that there is only one
such row is OemOnce.

## 9. CrashReport: who is blamed, and who rewrites the report

### How state and actions correspond

`Evidence` is what the logs, the dump and the inventory hold; `Suspects` is the
pure part of the analysis, from links and confidence to the gate for an online
search. The GUI keeps three copies of the outcome.

| model | code |
|---|---|
| `model`, `fmt`, `report` | `_last_model`, the arguments the report is made from, the report |
| `batch`, `job` | the rows checked so far; the search that runs |
| `deferred`, `auto`, `pending`, `timers`, `again` | what waits to be done on a timer or after a search |
| `refresh` | the summary thread with the arguments it took along |
| `StartAnalysis`, `FinishAnalysis`, `FailAnalysis` | Run Analysis |
| `Deferred`, `AutoTimer`, `Flush`, `ManualSearch`, `FinishSearch`, `FailSearch` | the automatic and the user's searches about the crash |
| `Merge` | the results written into the model, the arguments and the report |
| `LoadDevices`, `StartRefresh`, `Rebuilt`, `RebuildFails`, `CleanUp` | the summary rebuilt on its thread |

### What the run shows

crash_blame: TypeOK, ReportAgrees, MainSuspectCurrent, BlameIsGrounded,
ConfirmedFirst and SummaryCatchesUp hold. Two analyses are the least with which a
thread or a search belongs to an older one; the six findings are a shutdown without
a dump, a named driver (with and without a recurring one), a kernel-only stack, an
old dump, and an old dump whose verification raises (`raises`,
analyzer_gather.py:366-371: no suspects, no narrative, the analysis goes on); two
names in an automatic search are fewer than the devices that want to be in it; one
module has two devices. Fairness: the summary's steps, the deferred step and the end
of an analysis; nobody has to click. Deadlock is not checked, as in section 6. Left
out: the Action Plan's steps, the text of the story, a report that cannot be
formatted (gui_mixin_analysis.py:581, 842, which keep the old one), the checks on
the PC (reduced to which devices are `sick`), and how a module is mapped to devices
(the constant DevicesOf).

### What is proved

For any drivers, devices, mapping, answers and findings: TypeCorrect,
ReportsAgree, MainSuspectIsCurrent, BlameGrounded. The last says that a module is
confirmed only while the newest dump is of the crash, and is then the module that
dump names or one that several dumps name; and that, where there are suspects, the
driver that is named is a confirmed one of them. No answer of the catalog and no
rebuild changes that. Where the verification raised there are no suspects, and the
driver may be of an old dump (section 11). They are inductive together
with Origins: only a merge gives a suspect an answer, a merge needs a driver that
is named, and timers and threads come after an analysis that finished.

ConfirmedComeFirst is the action property ConfirmedFirst. The devices to search
for are places (rank of the link, the module's place among the names, the device's
place in the list), ordered as the code sorts and loops; a device counts where it
comes first, and the first MaxNames are taken. TakenInOrder shows that a place
that is not taken comes after MaxNames places of different devices that are, so
that all of them are at least as well linked. Only model-checked:
SummaryCatchesUp, which needs fairness.

## 10. What is not modelled, and why

* **In-memory caches.** Each operation holds its lock for all it does; no
  interleaving of operations is left to check.
* **Settings, bundles, logs.** Files with one writer, or selections over lists.
  The settings and bundles that matter elsewhere appear there.
* **Vendor lookups, firmware discovery, hardware queries, event and dump parsing.** The
  largest part of the code by lines: HTTP, HTML, WMI and text processing by one
  thread, with one answer or none. A parser's tests say more of it than a model.
  What they may answer is the input of DeviceCheck, MSCatalogScan and CrashReport.
* **Widgets, theme, tabs.** Presentation.
* **Scripts, tests, the Windows debugger, the MSCatalogLTS module.** Not the
  program's logic.

The models cover the lines that decide in which order things happen and who may
write what; that is a tenth of the code and most of its handlers.

Left out of a modelled component: in CatalogSearch the dialogs that only inform
(they only keep clicks away) and the crash-module check, which nothing starts. In
MSCatalogScan the Windows Update rows, OEM rows and the per-hardware-ID store
cache, which have caches of their own. In CatalogDiskCache the contents of rows,
the cap on their number with its mark, the announcement that the cache is stale,
several PC makers at once, and `_force_deep_catalog` (only searches read it, and
none runs in a refresh). In DriverInstall how a package is extracted and matched,
the zip export, the recheck after an install. In DriverInventory what rows say,
the SQLite file and a finished() delivered after a new thread was made.

## 11. Findings

Three runs end in a violation; PROJECT.json quotes the line each contradicts.

1. A driver search and a firmware search can run at once (catalog_firmware).
2. Outside the GUI, saving the online driver store blocks for ever
   (mscatalog_store). An RLock, or saving without the inner `with`, would do.
3. A vendor that could not be asked reads like one without an offer
   (device_doubt).

Reachable in the models too, where the code does not keep what it says of itself; no
property states it:

* A search popped from the queue is dropped when, at its 0 ms timer, a firmware
  search or a refresh runs or the profile is gone (gui_mixin_catalog_scan.py:427,
  :449), although the user was told that it "will run when the current catalog check
  finishes" (bsod_workflow.py:250). CatalogSearch's `FireQueued` has the step.
* The warm-up's process runs outside the PowerShell lock
  (catalog_mscatalog_session.py:461), so that a firmware search's runs beside it;
  bsod_runtime.py:456 says that they "must not run concurrently". In MSCatalogScan
  `FwOpen` is enabled while the warm-up's process runs.
* The search chained behind a scan may start while the list it is to search is being
  built or filled (gui_mixin_drivers_workflow.py:316): only the click asks
  `_drv_device_list_ready_for_search`, "True after device list is built and safe to
  run catalog search" (:60). It takes an analysis and a load that is not automatic
  (AutoLoad = FALSE).
* A row can be "newer" and verified with only a web page to go to:
  `_inherit_verification_trust` copies install_verified before it asks for a package
  (catalog_offer_compare.py:533-544), against "Never report confident *newer* without
  a verified install path" (:294). DeviceCheck's InheritTrust does the same.
* When the verification raises (analyzer_gather.py:366) there is no repair narrative
  to take back the driver of an old dump, which is then shown as the likely cause of
  the latest crash (crash_report_format.py:1520, gui_mixin_analysis.py:648), although
  "older dumps (e.g. Aug 4) do **not** drive the latest incident banner"
  (docs/PRODUCT_REFERENCE.md:105).
  CrashReport's MainDriver names it where `raises` is set.

Met while modelling, from reading, with no run:

*Searches.*
* With a handler between a thread's end and its queued `finished()`, the old
  thread's cleanup forgets the new thread, and a third search may start beside it.
* The refresh begins the task progress before it finds its job running
  (gui_mixin_catalog_shell.py:520), and an exception in `_DbWorker` leaves it on
  (bsod_gui_workers.py:747).

*Catalog and caches.*
* Answers of Summary checks never expire.
* A save can land in another identity's folder, because another thread or the
  window binds its identity between entering the scope and opening the file
  (catalog_cache.py:28). A search loads under one identity and persists under
  another, so that the next one may refuse what it saved (bsod_gui_workers.py:700).
* A search uses the rows of a stale file and saves them with today's date
  (catalog_mscatalog_session.py:956). Rows are capped twice, and the second call
  takes back the mark that they were cut (:913, :967).
* The key of the query cache leaves out limit and preview (:1122); a query that
  fails inside the batch process is cached as "no results"
  (catalog_ps_batch.py:128); a hit in the search cache races another worker's
  eviction (catalog_ps_module.py:523).
* A crash in the one-time move leaves a torn destination that counts as present
  (catalog_cache.py:459); which identity's folder gets the old file depends on the
  order of the first requests (:442).

*Inventory and the bar.*
* A task that finds the bar held shows its label and does not begin, but ends the
  bar like any other, so that it ends the other task's
  (gui_mixin_catalog_scan.py:483, gui_mixin_drivers_inventory.py:98, :578). A build
  without a callback that owns the bar is ended by nobody; a blocked or queued start
  leaks the caller's begin; a build made stale by Run Analysis drops its callback.
* A rebuild asked for during a build is lost on some paths
  (gui_mixin_drivers_inventory.py:383-403, :446-451); one asked for between a build's
  answer and the end of its thread is only noted, and served by the next build,
  whenever there is one; a filter change during a
  build drops the waiting search (gui_mixin_drivers_table.py:1043);
  `_force_refresh_device_cache` is cleared before it is read
  (gui_mixin_drivers_inventory.py:217); a waiting load is lost on the switch to
  portable mode.

*Install and backup.*
* Two backups of a device within a second share a folder, and a failing one
  removes both (driver_backup.py:141); pruning counts incomplete folders, so that
  with one folder kept an export by hand can cost the install its backup; folders
  without a manifest sort first within a year (:237), and names in local time go
  back when the clock does.
* A second restore from the Backups dialog replaces a running thread; "Restore
  previous driver" without a backup raises AttributeError; a request made during
  the status probe is dropped silently.
* The recheck after an install is dropped while a search runs, though the message
  promises it (gui_mixin_catalog_install.py:327). The retry after enabling System
  Restore never happens (gui_mixin_analysis.py:1038). A keep count of 0 becomes 3
  for backups by hand (bsod_gui_workers.py:174).

*One device.*
* Gap-fill rows are summarized without comparing them: a verified newer package
  leaves the device at "none" (catalog_microsoft_fetch.py:406).
* The coverage-gap flag compares raw numbers, so that it is raised on a GPU that is
  up to date, and `none_reason` is set on devices that have an offer
  (catalog_multi_device.py:280).
* The catalog is passed over for a row in another numbering whose number happens to
  be larger; Intel's gap row is removed with its duplicates.
* A row of the online driver store counts as installable and may be "newer"; its
  link leads to the settings, and the download answers "No Windows Update package ID
  — open Optional updates in Settings." (catalog_download.py:151-158). A dated
  Microsoft row without a version can be "newer" on its date alone.
* `best_catalog_offer_version` keeps the lowest version
  (catalog_offer_status.py:207-218).

*Crash analysis.*
* The verification pipeline is called without culprit device names
  (analyzer_gather.py:356): the platform focus never applies. The display model has
  no "events", so that the automatic search never asks for the platform row on
  their account (gui_mixin_drivers_workflow.py:471).
* After a crash without a named driver the automatic check's results do not reach
  the report.
* The orphan check compares device names with module names, so that a healthy
  confirmed suspect is "uncertain"; of a suspect's offers only the first counts.
* A rebuild drops the repair story from the report; one that began before a merge
  and ended after it overwrites the plan; one that began during an analysis may
  overwrite its story until the next rebuild. Searches flushed while the catalog is
  busy are lost.
