--------------------------- MODULE DriverInventory ---------------------------
(***************************************************************************)
(* From "Load devices" to a driver search: the hardware scan, the full     *)
(* device list, the off-thread build of the table's rows, the batched fill *)
(* of the table, the search chained behind them, and the one progress bar  *)
(* that all of them and every other long task of the window share.         *)
(*                                                                         *)
(* A handler of the Qt GUI thread is one action; `w` is what the window    *)
(* keeps, and the methods a handler calls are operators from one window to *)
(* the next, composed in the order of the calls.  A worker's answer and    *)
(* thread.quit are queued to the GUI thread in this order, so a handler    *)
(* always finds its own thread still running.                              *)
(*                                                                         *)
(* Left out: what the rows say, wording, informational dialogs, the        *)
(* PowerShell 7 prompt and the lock-out rules of the search itself         *)
(* (CatalogSearch has both), and a finished() that is delivered after a    *)
(* new thread was made.  The early return of a load that finds the saved   *)
(* list (gui_mixin_drivers_inventory.py:531) is left out because the       *)
(* profile in memory never holds `all_drivers` (see _apply_hardware_profile)*)
(***************************************************************************)
EXTENDS Naturals

CONSTANTS
  MaxClicks,      \* bound: clicks, tab changes and started tasks
  MaxProfiles,    \* numbers for profiles: one more than three that are held
  AutoLoad,       \* the setting auto_load_all_drivers_on_scan
  Starts,         \* what the program may find when it starts, see Init
  WithAnalysis,   \* BOOLEAN: Run Analysis may be clicked
  WithOthers      \* BOOLEAN: other long tasks may use the bar

ASSUME InventoryAssumption ==
  /\ MaxClicks \in Nat /\ MaxProfiles \in Nat /\ MaxProfiles > 3
  /\ {AutoLoad, WithAnalysis, WithOthers} \subseteq BOOLEAN
  /\ Starts \subseteq {"portable", "none", "old", "slim", "list"}

VARIABLE
  w   \* the window, see Window

Threads == {"none", "run", "quit"}   \* no thread, worker at work, answered
Loads   == {"none", "forced", "quiet"}
Timers  == {"loadForced", "loadQuiet", "apply", "finish", "continue",
            "populate", "ensure", "deferred", "save"}
Profiles == 0..MaxProfiles           \* 0: no profile; the number is identity
Callback == [ready : Profiles, again : BOOLEAN]
NoCall   == [ready |-> 0, again |-> FALSE]

Window ==
  [ profile   : Profiles,   \* _hardware_profile
    cache     : BOOLEAN,    \* _drv_unified_cache has rows
    all       : BOOLEAN,    \* _all_devices_loaded
    ready     : BOOLEAN,    \* _session_hw_inventory_ready
    rows      : BOOLEAN,    \* _session_all_drivers has rows
    stale     : BOOLEAN,    \* _drv_tab_ui_stale
    tab       : BOOLEAN,    \* the Drivers tab is the current one
    full      : BOOLEAN,    \* full install mode
    saved     : {"none", "old", "slim", "list"},  \* the profile on disk
    crash     : BOOLEAN,    \* an analysis result is shown
    hw        : Threads,    \* _hw_thread
    load      : Threads,    \* _drv_all_load_thread
    quiet     : BOOLEAN,    \* _drv_all_load_quiet
    applyQuiet : BOOLEAN,   \* _drv_load_apply_quiet
    build     : Threads,    \* _drv_list_build_thread
    current   : BOOLEAN,    \* its worker has the generation in force
    pend      : BOOLEAN,    \* _drv_list_build_pending
    onReady   : Profiles,   \* _drv_list_build_on_ready: finish for a profile
    sync      : BOOLEAN,    \* _drv_table_sync_active
    syncCall  : Callback,   \* _drv_table_sync_on_ready
    filter    : BOOLEAN,    \* _drv_filter_pending
    chain     : BOOLEAN,    \* _after_hw_driver_search = "checked"
    tabReady  : BOOLEAN,    \* _pending_driver_search_after_tab_ready
    pendLoad  : Loads,      \* _pending_load_all_drivers_after_hw
    search    : Threads,    \* the driver search's thread
    queued    : 0..2,       \* _drv_manual_queue
    analysis  : BOOLEAN,    \* the analysis thread runs
    other     : {"none", "plain", "catalog"},  \* another task with the bar
    depth     : Nat,        \* _task_progress_depth
    owns      : BOOLEAN,    \* _drv_list_build_owns_progress
    timers    : [Timers -> Nat], \* pending single shots
    clicks    : 0..MaxClicks ]

TypeOK == w \in Window

(***************************************************************************)
(* The progress bar and the single-shot timers                             *)
(***************************************************************************)
BeginBar(v) == [v EXCEPT !.depth = @ + 1]
\* Mutant: an end without its begin.
EndBarBelowZero(v) == [v EXCEPT !.depth = @ - 1]

EndBar(v)   == [v EXCEPT !.depth = IF @ > 0 THEN @ - 1 ELSE 0]

\* The form most starters use: show the label, begin only if nobody has.
HoldBar(v)  == IF v.depth > 0 THEN v ELSE BeginBar(v)

\* _end_drv_list_build_progress_if_owned
EndOwned(v) == IF v.owns THEN EndBar([v EXCEPT !.owns = FALSE]) ELSE v

\* The frame is visible on the Drivers tab while the depth is positive; on
\* another tab the last label decides.
Visible(v)  == IF v.depth = 0 THEN {FALSE}
               ELSE IF v.tab THEN {TRUE} ELSE BOOLEAN

After(v, t) == [v EXCEPT !.timers[t] = @ + 1]
\* Saves of the profile that wait together have the effect of one.
SaveLater(v) == [v EXCEPT !.timers["save"] = 1]
Fired(v, t) == [v EXCEPT !.timers[t] = @ - 1]

(***************************************************************************)
(* Building the rows and filling the table                                 *)
(***************************************************************************)
\* _refresh_unified_driver_table: one build at a time, the last one waits.
Refresh(v, call) ==
  IF v.build # "none"
    THEN [v EXCEPT !.pend = TRUE, !.onReady = call]
    ELSE LET s == [v EXCEPT !.build = "run", !.current = TRUE,
                            !.onReady = call]
         IN  IF v.depth > 0 THEN s ELSE [BeginBar(s) EXCEPT !.owns = TRUE]

Populate(v) ==
  CASE v.profile = 0 -> v
    [] v.profile # 0 /\ ~v.tab -> [v EXCEPT !.stale = TRUE]
    [] OTHER -> Refresh(v, v.profile)

\* _finish_drivers_tab_status_ui; with "hidden" rows the view filter falls
\* back to all devices and the table is filled once more, in batches.
FinishUi(v, p, size) ==
  CASE p # v.profile -> v
    [] p = v.profile /\ size = "hidden" ->
         [v EXCEPT !.sync = TRUE, !.syncCall = [ready |-> p, again |-> FALSE]]
    [] OTHER ->
         LET s == IF v.tabReady
                    THEN After([v EXCEPT !.tabReady = FALSE], "continue")
                    ELSE v
         IN  EndOwned([s EXCEPT !.stale = FALSE])

Call(v, c, size) ==
  LET s == IF c.ready # 0 THEN FinishUi(v, c.ready, size) ELSE v
  IN  IF c.again THEN Refresh(s, 0) ELSE s

\* Mutant: the filter does not wait for the fill under way.
ApplyFilterAnyway(v, thin, size) ==
  IF v.profile # 0 /\ (~v.cache \/ (thin /\ v.all)) THEN Refresh(v, 0)
  ELSE [v EXCEPT !.sync = (size = "big"), !.syncCall = NoCall]

\* _apply_drv_filter: `thin` says a full view is wanted of a short cache.
ApplyFilter(v, thin, size) ==
  CASE v.sync -> [v EXCEPT !.filter = TRUE]
    [] ~v.sync /\ v.profile # 0 /\ (~v.cache \/ (thin /\ v.all)) ->
         Refresh(v, 0)
    [] OTHER -> [v EXCEPT !.sync = (size = "big"), !.syncCall = NoCall]

\* `refill` is the size of the list that the filter leaves; a long one begins
\* a batched fill of its own, which goes on with nothing.
FlushFilter(v, thin, refill) ==
  IF v.filter THEN ApplyFilter([v EXCEPT !.filter = FALSE], thin, refill) ELSE v

FinishTable(v, c, size, thin, refill) ==
  FlushFilter(Call([v EXCEPT !.sync = FALSE, !.syncCall = NoCall], c, size),
              thin, refill)

\* _sync_drv_unified_table: a long list is filled by timer steps
SyncTable(v, c, size, thin, refill) ==
  IF size = "big" THEN [v EXCEPT !.sync = TRUE, !.syncCall = c]
                  ELSE FinishTable(v, c, size, thin, refill)

(***************************************************************************)
(* The search at the end of the chain, scans and loads                     *)
(***************************************************************************)
\* _start_drivers_tab_catalog_check, as far as the bar sees it: the two early
\* returns do not end the progress their caller began.
StartSearch(v) ==
  CASE v.other = "catalog" -> v
    [] v.other # "catalog" /\ v.search # "none" ->
         [v EXCEPT !.queued = IF @ < 2 THEN @ + 1 ELSE @]
    [] v.other # "catalog" /\ v.search = "none" /\ v.profile = 0 -> v
    [] OTHER -> [HoldBar(v) EXCEPT !.search = "run"]

\* _continue_driver_search_after_tab_ready; `some`: a device is included
ContinueSearch(v, some) == IF some THEN StartSearch(v) ELSE EndBar(v)

\* _finish_hw_then_continue_driver_search
FinishScan(v, some) ==
  LET s == [v EXCEPT !.ready = TRUE, !.chain = FALSE] IN
  CASE ~v.chain -> s
    [] v.chain /\ ~v.crash ->
         Populate([s EXCEPT !.tabReady = TRUE, !.stale = TRUE])
    [] v.chain /\ v.crash /\ v.profile # 0 /\ (~v.cache \/ v.stale) ->
         Populate([s EXCEPT !.tabReady = TRUE])
    [] OTHER -> ContinueSearch(s, some)

\* Mutant: the search that waits is forgotten.
CancelChainLoadOnly(v) == [v EXCEPT !.pendLoad = "none", !.tabReady = FALSE]

\* _cancel_chained_driver_search_workflow
CancelChain(v) ==
  [v EXCEPT !.chain = FALSE, !.pendLoad = "none", !.tabReady = FALSE]

\* _start_hardware_scan
StartScan(v, forced) ==
  IF v.hw # "none" THEN v
  ELSE [HoldBar(v) EXCEPT !.hw = "run", !.ready = @ /\ ~forced]

\* _start_load_all_driver_devices
StartLoad(v, kind) ==
  CASE v.load # "none" -> v
    [] v.load = "none" /\ v.profile = 0 ->
         StartScan([v EXCEPT !.pendLoad = IF kind = "quiet" THEN "quiet"
                                                             ELSE "forced"],
                   kind = "forced")
    [] OTHER -> [(IF kind = "quiet" THEN v ELSE HoldBar(v))
                   EXCEPT !.load = "run", !.quiet = (kind = "quiet")]

\* _ensure_full_driver_device_list, with the saved list where it is fresh
EnsureFull(v) ==
  CASE v.all \/ v.load # "none" -> v
    [] ~v.all /\ v.load = "none" /\ v.profile # 0
         /\ (v.rows \/ (v.full /\ v.saved = "list")) ->
         [v EXCEPT !.all = TRUE, !.rows = TRUE, !.stale = TRUE]
    [] OTHER -> StartLoad(v, "quiet")

\* A profile object that was not there before becomes the window's profile; a
\* number is used again when neither the window nor a callback has the object.
Held(v) == {v.profile, v.onReady, v.syncCall.ready}
NewProfile(v) ==
  [v EXCEPT !.profile = CHOOSE p \in Profiles \ {0} : p \notin Held(v)]

\* _drv_device_list_ready_for_search; the inventory of a profile is there.
ListReady(v) ==
  /\ v.build = "none" /\ ~v.sync /\ v.cache
  /\ v.all \/ (v.profile # 0 /\ v.ready)

\* _driver_search_workflow_busy
WorkflowBusy(v) ==
  \E t \in {v.hw, v.load, v.build, v.search} : t # "none"

\* _on_main_tab_changed to the Drivers tab
ShowTab(v) ==
  LET s == [v EXCEPT !.tab = TRUE] IN
  IF ~v.tab /\ (v.stale \/ ~v.cache) THEN Populate(s) ELSE s

\* _needs_hardware_profile_scan; `changed`: the live fingerprint differs
NeedScan(v, changed) ==
  \/ v.profile = 0
  \/ ~v.full /\ ~v.ready
  \/ v.full /\ v.saved \in {"none", "old"}
  \/ v.full /\ ~(v.ready /\ v.all) /\ changed

(***************************************************************************)
(* Handlers                                                                *)
(***************************************************************************)
Click(v) == [v EXCEPT !.clicks = @ + 1]
MayClick == w.clicks < MaxClicks

LoadDevices ==
  /\ MayClick
  /\ LET v == ShowTab(Click(w))
     IN  w' = IF WorkflowBusy(v) THEN v ELSE StartLoad(v, "forced")

BeginSearch ==
  /\ MayClick
  /\ \E some, changed \in BOOLEAN :
       LET v == ShowTab(Click(w))
           s == [BeginBar(v) EXCEPT !.chain = TRUE]
       IN  w' = IF WorkflowBusy(v) \/ v.other = "catalog" \/ ~ListReady(v) THEN v
                ELSE IF NeedScan(v, changed) THEN StartScan(s, FALSE)
                                             ELSE FinishScan(s, some)

TabChange ==
  /\ MayClick
  /\ w' = IF w.tab THEN [Click(w) EXCEPT !.tab = FALSE] ELSE ShowTab(Click(w))

\* A filter change; while the table is being filled it only leaves a mark.
FilterChange ==
  /\ MayClick /\ w.tab
  /\ \E thin \in BOOLEAN, size \in {"small", "big"} :
       w' = ApplyFilter(Click(w), thin, size)

SwitchToPortable ==
  /\ MayClick /\ w.full
  /\ w' = [Click(w) EXCEPT !.full = FALSE, !.saved = "none", !.profile = 0,
                           !.all = FALSE, !.ready = FALSE]

\* The saved profile passes its age limit.
SavedAges ==
  /\ MayClick /\ w.saved \in {"slim", "list"}
  /\ w' = [Click(w) EXCEPT !.saved = "old"]

\* _on_hardware_ready, and _on_hardware_scan_failed
ScanAnswer ==
  /\ w.hw = "run"
  /\ \/ \E some \in BOOLEAN :
          LET merged == w.full /\ w.saved = "list"
              a == IF w.chain THEN w ELSE EndBar(w)
              b == IF merged THEN [a EXCEPT !.rows = TRUE, !.all = TRUE] ELSE a
              c == Populate(NewProfile([b EXCEPT !.hw = "quit"]))
              d == CASE w.pendLoad = "none" -> c
                     [] w.pendLoad = "quiet" ->
                          After([c EXCEPT !.pendLoad = "none"], "loadQuiet")
                     [] OTHER ->
                          After([c EXCEPT !.pendLoad = "none"], "loadForced")
              e == IF w.full THEN SaveLater(d) ELSE d
          IN  w' = CASE w.pendLoad # "none" -> e
                     [] w.pendLoad = "none" /\ ~merged /\ AutoLoad ->
                          StartLoad(e, "plain")
                     [] OTHER -> IF w.chain THEN FinishScan(e, some) ELSE e
     \/ w' = CancelChain(EndBar([w EXCEPT !.hw = "quit"]))

\* _on_drv_all_devices_loaded, and _on_drv_all_devices_load_failed
LoadAnswer ==
  /\ w.load = "run"
  /\ LET v == [w EXCEPT !.load = "quit", !.quiet = FALSE]
         ok == [v EXCEPT !.applyQuiet = w.quiet]
     IN
     \/ \E seen \in Visible(w) :
          w' = After(IF w.chain \/ (w.quiet /\ ~seen) THEN ok ELSE EndBar(ok),
                     "apply")
     \/ \E seen \in Visible(w) :
          w' = CancelChain(IF w.quiet /\ ~seen THEN v ELSE EndBar(v))

\* _on_drv_list_build_finished and _on_drv_list_build_failed
BuildAnswer ==
  /\ w.build = "run"
  /\ LET v == [w EXCEPT !.build = "quit"]
         idle == [v EXCEPT !.onReady = 0, !.pend = FALSE]
         call == [ready |-> w.onReady, again |-> w.pend]
     IN
     IF ~w.current
       THEN w' = CASE ~w.pend -> v
                   [] w.pend /\ w.profile = 0 -> [v EXCEPT !.pend = FALSE]
                   [] OTHER -> Refresh(idle, w.onReady)
       ELSE \/ /\ w.profile = 0
               /\ w' = idle
            \/ /\ w.profile # 0
               /\ \E size \in {"small", "big", "hidden"}, thin \in BOOLEAN,
                     refill \in {"small", "big"} :
                    w' = SyncTable([idle EXCEPT !.cache = TRUE], call, size,
                                   thin, refill)
            \/ w' = LET s == IF w.onReady # 0
                               THEN FinishUi(idle, w.onReady, "small") ELSE idle
                    IN  EndOwned(IF w.pend /\ w.profile # 0
                                   THEN Refresh(s, w.onReady) ELSE s)

\* _drv_table_sync_step: the last batch, or the tab was left
TableStep ==
  /\ w.sync
  /\ \E thin \in BOOLEAN, refill \in {"small", "big"} :
       w' = IF w.tab
              THEN FinishTable(w, w.syncCall, "small", thin, refill)
              ELSE [FlushFilter([w EXCEPT !.sync = FALSE, !.syncCall = NoCall],
                                thin, refill) EXCEPT !.stale = TRUE]

\* _on_driver_catalog_ready and _on_driver_catalog_failed
SearchAnswer ==
  /\ w.search = "run"
  /\ w' = EndBar([w EXCEPT !.search = "quit"])

\* The quit that was queued behind an answer, the end of the thread and the
\* cleanup of its reference; the search's cleanup flushes its queue.
ThreadEnds ==
  \/ w.hw = "quit" /\ w' = [w EXCEPT !.hw = "none"]
  \/ w.load = "quit" /\ w' = [w EXCEPT !.load = "none"]
  \/ w.build = "quit" /\ w' = [w EXCEPT !.build = "none"]
  \/ /\ w.search = "quit"
     /\ LET v == [w EXCEPT !.search = "none"]
        IN  w' = IF w.queued = 0 THEN v
                 ELSE StartSearch([v EXCEPT !.queued = @ - 1])

\* Mutant: only a load with rows goes on with the search.
ApplyRowsNoFinish(v, got) ==
  LET a == [v EXCEPT !.stale = TRUE, !.ready = TRUE]
  IN  IF got /\ v.chain THEN After(a, "finish") ELSE a

\* _apply_loaded_driver_rows_deferred; a load may come back without rows
ApplyRows(v, got) ==
  LET a == IF got /\ v.profile # 0
             THEN [v EXCEPT !.rows = TRUE, !.all = TRUE] ELSE v
      b == [a EXCEPT !.stale = TRUE, !.ready = TRUE]
      c == IF v.tab THEN After(b, "populate") ELSE b
      d == IF got /\ v.profile # 0 /\ v.full /\ ~v.applyQuiet
             THEN SaveLater(c) ELSE c
  IN  IF v.chain THEN After(d, "finish") ELSE d

\* _populate_deferred: the profile of the analysis becomes the window's
Deferred(v, full) ==
  LET a == NewProfile(v)
      b == IF full THEN [a EXCEPT !.rows = TRUE, !.all = TRUE] ELSE a
      c == [b EXCEPT !.ready = TRUE, !.stale = TRUE]
      d == IF v.tab THEN After(c, "populate") ELSE c
      e == CASE c.all /\ v.tab -> After(d, "populate")
             [] ~c.all /\ AutoLoad -> After(d, "ensure")
             [] OTHER -> d
  IN  IF v.tab THEN [Populate(e) EXCEPT !.stale = FALSE] ELSE e

TimerFires ==
  \E t \in Timers :
    /\ w.timers[t] > 0
    /\ LET v == Fired(w, t) IN
       CASE t = "loadForced" -> w' = StartLoad(v, "forced")
         [] t = "loadQuiet"  -> w' = StartLoad(v, "quiet")
         [] t = "apply"      -> \E got \in BOOLEAN : w' = ApplyRows(v, got)
         [] t = "finish"     -> \E some \in BOOLEAN : w' = FinishScan(v, some)
         [] t = "continue"   -> \E some \in BOOLEAN : w' = ContinueSearch(v, some)
         [] t = "populate"   -> w' = Populate(v)
         [] t = "ensure"     -> w' = EnsureFull(v)
         [] t = "deferred"   -> \E full \in BOOLEAN : w' = Deferred(v, full)
         [] OTHER -> w' = [v EXCEPT !.saved = IF ~v.full THEN @
                             ELSE IF v.rows THEN "list" ELSE "slim"]

\* on_run, and the analysis worker's answer
RunAnalysis ==
  /\ WithAnalysis /\ MayClick
  /\ ~w.analysis /\ w.hw = "none"
  /\ w' = [BeginBar(Click(w)) EXCEPT !.analysis = TRUE, !.current = FALSE,
                                     !.queued = 0, !.timers["deferred"] = 0]

AnalysisAnswer ==
  /\ w.analysis
  /\ LET v == EndBar([w EXCEPT !.analysis = FALSE]) IN
     \/ w' = After([v EXCEPT !.crash = TRUE], "deferred")
     \/ w' = v

\* Any other task that begins the bar and ends it: a firmware search keeps
\* driver searches out, an install or a system check does not.
OtherBegins ==
  /\ WithOthers /\ MayClick
  /\ w.other = "none"
  /\ \E k \in {"plain", "catalog"} :
       /\ k = "catalog" => w.search = "none"
       /\ w' = [BeginBar(Click(w)) EXCEPT !.other = k]

OtherEnds ==
  /\ w.other # "none"
  /\ w' = EndBar([w EXCEPT !.other = "none"])

Fresh ==
  [ profile |-> 0, cache |-> FALSE, all |-> FALSE, ready |-> FALSE,
    rows |-> FALSE, stale |-> TRUE, tab |-> FALSE, full |-> FALSE,
    saved |-> "none", crash |-> FALSE, hw |-> "none", load |-> "none",
    quiet |-> FALSE, applyQuiet |-> FALSE, build |-> "none", current |-> FALSE,
    pend |-> FALSE, onReady |-> 0, sync |-> FALSE, syncCall |-> NoCall,
    filter |-> FALSE, chain |-> FALSE, tabReady |-> FALSE,
    pendLoad |-> "none", search |-> "none", queued |-> 0,
    analysis |-> FALSE, other |-> "none", depth |-> 0, owns |-> FALSE,
    timers |-> [t \in Timers |-> 0], clicks |-> 0 ]

\* _restore_cached_hardware_profile: a full install starts from what is saved
Init ==
  \E s \in Starts :
    w = CASE s = "portable" -> Fresh
          [] s = "none" -> [Fresh EXCEPT !.full = TRUE]
          [] s = "slim" -> [Fresh EXCEPT !.full = TRUE, !.saved = s, !.profile = 1]
          [] OTHER -> [Fresh EXCEPT !.full = TRUE, !.saved = s, !.profile = 1,
                                    !.all = TRUE, !.ready = TRUE, !.rows = TRUE]

UserStep ==
  \/ LoadDevices \/ BeginSearch \/ TabChange \/ FilterChange
  \/ SwitchToPortable \/ SavedAges \/ RunAnalysis \/ OtherBegins

ProgramStep ==
  \/ ScanAnswer \/ LoadAnswer \/ BuildAnswer \/ SearchAnswer
  \/ AnalysisAnswer \/ OtherEnds \/ ThreadEnds \/ TableStep \/ TimerFires

Next == UserStep \/ ProgramStep

Spec == Init /\ [][Next]_w

\* Workers answer, timers fire and threads end; nobody has to click.
FairSpec == Spec /\ WF_w(ProgramStep)

(***************************************************************************)
(* Properties                                                              *)
(***************************************************************************)
\* A driver search that waits for the scan or the device list
\* (_after_hw_driver_search) always has a worker or a timer that will go on
\* with it or cancel it: no answer, portable switch or analysis in between
\* leaves it behind (gui_mixin_drivers_inventory.py:196-295, :651-757).
ChainAttended ==
  w.chain => \/ w.hw = "run" \/ w.load = "run"
             \/ \E t \in {"loadForced", "loadQuiet", "apply", "finish"} :
                  w.timers[t] > 0

\* When workers answer and timers fire, such a search is started, handed to
\* the table build, or cancelled.
ChainEnds == w.chain ~> ~w.chain

\* A table fill that will go on with a search waiting for the table is not
\* replaced, for the same profile, by one that will not.  The only way to lose
\* the callback is to leave the tab, and then the tab is marked stale so that
\* the next visit builds the rows again: _sync_drv_unified_table overwrites the
\* callback of the fill before it (gui_mixin_drivers_table.py:996),
\* _cancel_drv_table_sync drops it and fills again (:1206-1215).
WaitingSearchKeepsItsFill ==
  [][ w.sync /\ w.profile # 0 /\ w'.profile = w.profile
      /\ w.syncCall.ready = w.profile /\ w.tabReady /\ w'.tabReady
        => \/ w'.sync /\ w'.syncCall.ready = w.profile
           \/ ~w.tab /\ w'.stale ]_w
=============================================================================
