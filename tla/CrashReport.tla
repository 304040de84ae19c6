----------------------------- MODULE CrashReport -----------------------------
(***************************************************************************)
(* What Run Analysis says of the latest crash, and who changes it later:   *)
(* the evidence becomes a list of suspect modules with a confidence, mapped*)
(* to devices and gated for an online search; the GUI then keeps three     *)
(* copies of the outcome (the model it shows, the arguments the report is  *)
(* made from, the report) that are written by the end of an analysis, by   *)
(* the summary rebuilt on a thread, and by every driver search that        *)
(* answers for a device of the crash.                                      *)
(*                                                                         *)
(* A handler of the Qt GUI thread is one action.  Left out: wording, the   *)
(* Action Plan's other steps, the synthetic row of a module no device      *)
(* matches, the queue of searches and its lock-outs (CatalogSearch), the   *)
(* bundle roll-up of rows other than the chipset suite, a thread's         *)
(* finished() that is delivered after a new thread was made, and the       *)
(* platform focus of the suspect list: it needs culprit device names,      *)
(* which gather_report_data never passes (analyzer_gather.py:356).         *)
(***************************************************************************)
EXTENDS Naturals, Sequences, SequencesExt

CONSTANTS
  Drivers,        \* modules that can be named as the faulting driver
  StorageHints, GraphicsHints, KernelHints,  \* modules that are guessed
  ModuleOrder,    \* all modules in the order of their names
  Devices,        \* devices of the driver list
  Suite,          \* the chipset platform row
  DevicesOf,      \* the devices a module is mapped to, in the order of names
  Primary,        \* rows every search takes along
  Picks,        \* sets of rows the user may search
  Answers,        \* the statuses a checked row may get, row by row
  Cases,          \* evidence an analysis may find
  None,           \* no module, nothing there
  MaxNames,       \* devices of the automatic search at most
  MaxRuns,        \* bound: analyses
  MaxLoads        \* bound: device lists loaded, and searches by hand

Kernel  == {"ndis", "ntoskrnl"}     \* never a faulting driver to act on
Labels  == {"boot_path", "driver_class", "platform_chipset"}
Modules == Drivers \cup Kernel \cup Labels
Names   == Devices \cup {Suite}

\* What the logs, the dump and the inventory hold of the latest crash.
Evidence ==
  [ crash     : BOOLEAN,                    \* events hold a crash
    dump      : {"none", "latest", "old"},  \* the dump's time, see Matches
    fault     : Drivers \cup Kernel \cup {None}, \* faulting_driver
    recurring : Drivers \cup {None},        \* recurring_faulting_driver
    stack     : {"top", "kernel", "driver"}, \* kernel on top, only kernel
    irql      : BOOLEAN,                    \* verified IRQL stop code
    boot      : {"none", "quiet", "storage", "graphics", "both"},
    chipset   : BOOLEAN,                    \* an AMD or Intel chipset
    wer       : SUBSET Drivers,             \* modules of error reports
    sick      : SUBSET Devices,             \* devices with a local problem
    raises    : BOOLEAN ]                   \* the verification fails on it

ASSUME CrashAssumption ==
  /\ StorageHints \cup GraphicsHints \subseteq Drivers
  /\ KernelHints \subseteq Drivers \cup Kernel
  /\ Drivers \cap (Kernel \cup Labels) = {} /\ None \notin Modules
  /\ ModuleOrder \in Seq(Modules) /\ Range(ModuleOrder) = Modules
  /\ IsFiniteSet(Devices)
  /\ DevicesOf \in [Modules -> Seq(Devices)]
  /\ \A m \in Labels \cup {"ntoskrnl"} : DevicesOf[m] = <<>>
  /\ Suite \notin Devices /\ Primary \subseteq Names
  /\ Picks \subseteq SUBSET Names
  /\ Cases \subseteq Evidence
  /\ DOMAIN Answers = Names /\ \A n \in Names : "none" \notin Answers[n]
  /\ {MaxNames, MaxRuns, MaxLoads} \subseteq Nat

-----------------------------------------------------------------------------
(* From the evidence to the suspects.                                      *)

Matches(e) == e.dump # "none" /\ (e.crash => e.dump = "latest")

BootModules(e) ==
  LET storage  == e.boot \in {"storage", "both"}
      graphics == e.boot \in {"graphics", "both"}
  IN (IF storage THEN StorageHints ELSE {})
     \cup (IF graphics THEN GraphicsHints ELSE {})
     \cup (IF e.boot # "none" /\ (e.chipset \/ ~(storage \/ graphics))
             THEN {"platform_chipset"} ELSE {})

\* Links: pairs of a module and the confidence one source gives it.
DumpLinks(e) ==
  {<<m, "Confirmed">> : m \in {e.fault, e.recurring} \cap Drivers}
  \cup (IF e.stack = "top" THEN {<<"ntoskrnl", "Likely">>} ELSE {})
  \cup (IF e.stack \in {"top", "kernel"}
          THEN {<<m, "Speculative">> : m \in KernelHints}
          ELSE {})

\* Mutant: any dump is evidence, however old it is.
LinksOfAnyDump(e) ==
  (IF e.dump # "none" THEN DumpLinks(e) ELSE {})
  \cup {<<m, "Likely">> : m \in e.wer \cup BootModules(e)}

Links(e) ==
  (IF Matches(e) THEN DumpLinks(e)
                 ELSE {<<m, "Likely">> : m \in e.wer})
  \cup (IF e.irql THEN {<<"driver_class", "Likely">>} ELSE {})
  \cup {<<m, "Likely">> : m \in BootModules(e)}

AllLinks(e) ==
  IF Links(e) = {} /\ e.crash THEN {<<"boot_path", "Speculative">>} ELSE Links(e)

Confidences == {"Confirmed", "Likely", "Speculative"}

\* _merge_suspect: a module keeps the best confidence any source gave it.
Confidence(links, m) ==
  IF <<m, "Confirmed">> \in links THEN "Confirmed"
  ELSE IF <<m, "Likely">> \in links THEN "Likely" ELSE "Speculative"

\* May the module be searched online: is it mapped, linked well, or ill?
Gate(m, link, sick) ==
  CASE DevicesOf[m] = <<>> -> "no"
    [] DevicesOf[m] # <<>> /\ link # "Speculative" -> "yes"
    [] OTHER -> IF Range(DevicesOf[m]) \cap sick # {} THEN "limited" ELSE "no"

Suspects(e) ==
  LET links == AllLinks(e)
  IN {[module  |-> m, link |-> Confidence(links, m),
       gate    |-> Gate(m, Confidence(links, m), e.sick),
       catalog |-> "not_run"] :
        m \in {n \in Modules : \E c \in Confidences : <<n, c>> \in links}}

Suspect == [ module  : Modules,
             link    : Confidences,
             gate    : {"yes", "limited", "no"},
             catalog : {"not_run", "update_available", "current", "checked"} ]

\* Only a dump of the latest crash names a driver; without a repair narrative,
\* any dump does.
MainDriver(e) ==
  IF Matches(e) \/ (e.raises /\ e.dump # "none") THEN e.fault ELSE None

Verification == [suspects : SUBSET Suspect,
                 story    : BOOLEAN,     \* the repair narrative is there
                 suite    : BOOLEAN]     \* a stale chipset component is told

\* A verification that raises leaves no suspects and no narrative.
Verify(e) == [suspects |-> IF e.raises THEN {} ELSE Suspects(e),
              story |-> ~e.raises, suite |-> FALSE]

-----------------------------------------------------------------------------
VARIABLES
  runs,      \* _analysis_generation, also of the summary and the searches
  running,   \* the analysis thread is at work
  model,     \* _last_model
  fmt,       \* _last_fmt_args
  report,    \* _full_report
  batch,     \* _driver_batch_comparison: the last answer for every row
  job,       \* the driver search that runs
  deferred,  \* _populate_deferred waits, for this analysis
  auto,      \* the 100 ms timer of the automatic search: its suspects
  pending,   \* _pending_auto_crash_linked_catalog is set
  timers,    \* of the summary: its 80 ms timer, its queued redo
  refresh,   \* the summary refresh thread
  again,     \* _summary_refresh_pending
  failed,    \* an analysis or a summary refresh has failed
  loads      \* device lists loaded and searches by hand so far

shown == <<model, fmt, report>>
tasks == <<deferred, auto, pending, timers>>
vars  == <<runs, running, shown, batch, job, tasks, refresh, again, failed, loads>>

Run    == [of : Nat, case : Evidence, ver : Verification]
RowStatus == {"none"} \cup UNION {Answers[n] : n \in Names}
Model  == [of : Nat, ver : Verification, driver : Modules \cup {None},
           shownOf : Nat,          \* the analysis the Summary tells of
           story : BOOLEAN]        \* crash_repair_narrative
Job    == [names : SUBSET Names, live : BOOLEAN]
Thread == [fmt : Run, live : BOOLEAN, done : BOOLEAN]

ASSUME NoneAssumption == None \notin Model \cup Run \cup Job \cup Thread

TypeOK ==
  /\ runs \in Nat /\ running \in BOOLEAN
  /\ model \in Model \cup {None}
  /\ fmt \in Run \cup {None} /\ report \in Run \cup {None}
  /\ batch \in [Names -> RowStatus]
  /\ job \in Job \cup {None}
  /\ deferred \in Nat /\ auto \in (SUBSET Suspect) \cup {None}
  /\ pending \in BOOLEAN /\ timers \subseteq {"timer", "redo"}
  /\ refresh \in Thread \cup {None}
  /\ again \in BOOLEAN /\ failed \in BOOLEAN /\ loads \in Nat

Init ==
  /\ runs = 0 /\ running = FALSE
  /\ model = None /\ fmt = None /\ report = None
  /\ batch = [n \in Names |-> "none"]
  /\ job = None
  /\ deferred = 0 /\ auto = None /\ pending = FALSE /\ timers = {}
  /\ refresh = None /\ again = FALSE /\ failed = FALSE /\ loads = 0

-----------------------------------------------------------------------------
(* Run Analysis.                                                           *)

\* on_run: what is under way for the last analysis will be ignored.
StartAnalysis ==
  /\ ~running /\ runs < MaxRuns
  /\ runs' = runs + 1 /\ running' = TRUE
  /\ job' = IF job = None THEN None ELSE [job EXCEPT !.live = FALSE]
  /\ refresh' = IF refresh = None THEN None ELSE [refresh EXCEPT !.live = FALSE]
  /\ UNCHANGED <<shown, batch, tasks, again, failed, loads>>

\* _on_finished and _populate
FinishAnalysis(e) ==
  /\ running /\ running' = FALSE
  /\ model' = [of |-> runs, ver |-> Verify(e), driver |-> MainDriver(e),
               shownOf |-> runs, story |-> ~e.raises]
  /\ fmt' = [of |-> runs, case |-> e, ver |-> Verify(e)]
  /\ report' = fmt'
  /\ deferred' = runs
  /\ UNCHANGED <<runs, batch, job, auto, pending, timers, refresh, again, failed, loads>>

FailAnalysis ==
  /\ running /\ running' = FALSE
  /\ failed' = TRUE
  /\ UNCHANGED <<runs, shown, batch, job, tasks, refresh, again, loads>>

-----------------------------------------------------------------------------
(* The automatic search for the devices of the crash.                      *)

\* The named driver counts only when it is no part of the kernel.
CrashNames(m) ==
  IF m # None /\ m.driver \in Drivers THEN Range(DevicesOf[m.driver]) ELSE {}

Rank == [Confirmed |-> 0, Likely |-> 1, Speculative |-> 2]
PlaceOf(m) == CHOOSE k \in DOMAIN ModuleOrder : ModuleOrder[k] = m

\* The places of a suspect's devices: the better link is first, then the
\* module's name, then the place the device has in its list.
PlacesOf(s) ==
  {<<Rank[s.link], PlaceOf(s.module), i>> : i \in DOMAIN DevicesOf[s.module]}

Places(suspects) == UNION {PlacesOf(s) : s \in {t \in suspects : t.gate # "no"}}

DeviceAt(p) == DevicesOf[ModuleOrder[p[2]]][p[3]]

Before(p, q) ==
  \/ p[1] < q[1]
  \/ p[1] = q[1] /\ p[2] < q[2]
  \/ p[1] = q[1] /\ p[2] = q[2] /\ p[3] < q[3]

\* Every device once, where it comes first, and MaxNames of them at most.
Firsts(places) ==
  {p \in places : \A q \in places : Before(q, p) => DeviceAt(q) # DeviceAt(p)}
Ahead(places, p) == {q \in Firsts(places) : Before(q, p)}
Taken(places)    == {p \in Firsts(places) : Cardinality(Ahead(places, p)) < MaxNames}

\* Mutant: suspects are taken by name.
AutoNamesByName(suspects) ==
  {DeviceAt(p) : p \in Taken({<<0, q[2], q[3]>> : q \in Places(suspects)})}

\* crash_linked_catalog_device_names.
\* No culprits come along: the model has no "events" (line 471 of
\* gui_mixin_drivers_workflow.py), so the chipset suite is never added.
AutoNames(suspects) == {DeviceAt(p) : p \in Taken(Places(suspects))}

\* _populate_deferred, unless the next analysis has begun
Deferred ==
  /\ deferred # 0 /\ deferred' = 0
  /\ IF deferred = runs
       THEN timers' = timers \cup {"timer"} /\ auto' = model.ver.suspects
       ELSE UNCHANGED <<timers, auto>>
  /\ UNCHANGED <<runs, running, shown, batch, job, pending, refresh, again, failed, loads>>

\* _start_drivers_tab_catalog_check
Search(names) == job' = [names |-> names \cup Primary, live |-> TRUE]

\* _maybe_start_auto_crash_linked_catalog.  The user may decline the prompt
\* for PowerShell 7; whether the list is ready is DriverInventory's matter.
SearchOrWait(names) ==
  /\ names # {} /\ job = None
  /\ \/ pending' = TRUE /\ UNCHANGED job
     \/ pending' = FALSE /\ Search(names)

AutoTimer ==
  /\ auto # None /\ auto' = None
  /\ \/ UNCHANGED <<job, pending>>
     \/ SearchOrWait(AutoNames(auto))
  /\ UNCHANGED <<runs, running, shown, batch, deferred, timers, refresh, again, failed, loads>>

\* _flush_pending_auto_crash_linked_catalog, after the table was filled
Flush ==
  /\ pending
  /\ \/ pending' = FALSE /\ UNCHANGED job
     \/ SearchOrWait(AutoNames(model.ver.suspects))
  /\ UNCHANGED <<runs, running, shown, batch, deferred, auto, timers, refresh, again, failed, loads>>

ManualSearch(names) ==
  /\ job = None /\ loads < MaxLoads /\ loads' = loads + 1
  /\ Search(names)
  /\ UNCHANGED <<runs, running, shown, batch, tasks, refresh, again, failed>>

-----------------------------------------------------------------------------
(* The answers of a search.                                                *)

Status(answer) ==
  CASE answer = "newer" -> "update_available"
    [] answer = "same"  -> "current"
    [] OTHER            -> "checked"

\* The places of a module's devices for which the batch has an answer.
Answered(m, rows) ==
  {i \in DOMAIN DevicesOf[m] : rows[DevicesOf[m][i]] # "none"}

\* Only the first of them counts.
Verdict(m, rows) ==
  Status(rows[DevicesOf[m][CHOOSE i \in Answered(m, rows) :
                             \A j \in Answered(m, rows) : i <= j]])

Told(s, rows) ==
  IF s.gate = "no" \/ Answered(s.module, rows) = {} THEN s
  ELSE [s EXCEPT !.catalog = Verdict(s.module, rows)]

\* apply_catalog_results_from_gui and rebuild_verification_report_lines: the
\* rebuilt verification has no repair narrative any more.
Merged(ver, rows) ==
  [suspects |-> {Told(s, rows) : s \in ver.suspects},
   story    |-> FALSE,
   suite    |-> ver.suite \/ rows[Suite] = "stale"]

\* _refresh_driver_verification_from_catalog
Merge(rows) ==
  /\ model' = [model EXCEPT !.ver = Merged(model.ver, rows)]
  /\ fmt' = [fmt EXCEPT !.ver = Merged(model.ver, rows)]
  /\ report' = fmt'

\* _merge_driver_batch_comparison: the rows of the search replace older ones.
NewRows(found) == [n \in Names |-> IF n \in job.names THEN found[n] ELSE batch[n]]

\* Mutant: the answers of earlier searches are forgotten.
FinishSearchAlone(found) ==
  /\ job # None /\ job' = None
  /\ IF ~job.live
       THEN UNCHANGED <<batch, shown>>
       ELSE /\ batch' = found
            /\ IF job.names \cap CrashNames(model) # {}
                 THEN Merge([n \in Names |-> IF n \in job.names THEN found[n] ELSE "none"])
                 ELSE UNCHANGED shown
  /\ UNCHANGED <<runs, running, tasks, refresh, again, failed, loads>>

\* Mutant: only this search's answers reach the report.
FinishSearchOwnRows(found) ==
  /\ job # None /\ job' = None
  /\ IF ~job.live
       THEN UNCHANGED <<batch, shown>>
       ELSE /\ batch' = NewRows(found)
            /\ IF job.names \cap CrashNames(model) # {}
                 THEN Merge([n \in Names |-> IF n \in job.names THEN found[n] ELSE "none"])
                 ELSE UNCHANGED shown
  /\ UNCHANGED <<runs, running, tasks, refresh, again, failed, loads>>

\* The answer of a search begun before the last Run Analysis is dropped;
\* one that is about the crash also changes what is said of it.
FinishSearch(found) ==
  /\ job # None /\ job' = None
  /\ IF ~job.live
       THEN UNCHANGED <<batch, shown>>
       ELSE /\ batch' = NewRows(found)
            /\ IF job.names \cap CrashNames(model) # {}
                 THEN Merge(NewRows(found)) ELSE UNCHANGED shown
  /\ UNCHANGED <<runs, running, tasks, refresh, again, failed, loads>>

Findings(names) ==
  {found \in [names -> UNION {Answers[n] : n \in names}] :
     \A n \in names : found[n] \in Answers[n]}

FailSearch ==
  /\ job # None /\ job' = None
  /\ UNCHANGED <<runs, running, shown, batch, tasks, refresh, again, failed, loads>>

-----------------------------------------------------------------------------
(* The summary rebuilt on a thread.                                        *)

\* _finish_hw_then_continue_driver_search: the device list was loaded.
LoadDevices ==
  /\ loads < MaxLoads /\ loads' = loads + 1
  /\ timers' = timers \cup {"timer"}
  /\ UNCHANGED <<runs, running, shown, batch, job, deferred, auto, pending, refresh, again, failed>>

\* _start_offthread_summary_refresh, called by either timer
StartRefresh(t) ==
  /\ t \in timers /\ timers' = timers \ {t}
  /\ again' = (again \/ (model # None /\ refresh # None))
  /\ refresh' = IF model # None /\ refresh = None
                  THEN [fmt |-> fmt, live |-> TRUE, done |-> FALSE] ELSE refresh
  /\ UNCHANGED <<runs, running, shown, batch, job, deferred, auto, pending, failed, loads>>

\* Mutant: the report is made from the arguments the thread took along.
RebuiltOld ==
  /\ refresh # None /\ ~refresh.done
  /\ refresh' = [refresh EXCEPT !.done = TRUE]
  /\ IF refresh.live
       THEN /\ model' = [model EXCEPT !.shownOf = refresh.fmt.of,
                                      !.story = refresh.fmt.ver.story]
            /\ report' = refresh.fmt
       ELSE UNCHANGED <<model, report>>
  /\ UNCHANGED <<runs, running, fmt, batch, job, tasks, again, failed, loads>>

\* _on_summary_refresh_finished: the Summary is of the arguments the thread
\* took along, the report is made anew from those there are now.
Rebuilt ==
  /\ refresh # None /\ ~refresh.done
  /\ refresh' = [refresh EXCEPT !.done = TRUE]
  /\ IF refresh.live
       THEN /\ model' = [model EXCEPT !.shownOf = refresh.fmt.of,
                                      !.story = refresh.fmt.ver.story]
            /\ report' = fmt
       ELSE UNCHANGED <<model, report>>
  /\ UNCHANGED <<runs, running, fmt, batch, job, tasks, again, failed, loads>>

\* _on_summary_refresh_failed
RebuildFails ==
  /\ refresh # None /\ ~refresh.done
  /\ refresh' = [refresh EXCEPT !.done = TRUE]
  /\ failed' = TRUE
  /\ UNCHANGED <<runs, running, shown, batch, job, tasks, again, loads>>

\* Mutant: a rebuild asked for in the meantime is not done.
CleanUpOnly ==
  /\ refresh # None /\ refresh.done /\ refresh' = None
  /\ again' = FALSE
  /\ UNCHANGED <<runs, running, shown, batch, job, tasks, failed, loads>>

\* _cleanup_summary_refresh_thread, when the thread has ended
CleanUp ==
  /\ refresh # None /\ refresh.done /\ refresh' = None
  /\ again' = FALSE
  /\ timers' = IF again THEN timers \cup {"redo"} ELSE timers
  /\ UNCHANGED <<runs, running, shown, batch, job, deferred, auto, pending, failed, loads>>

-----------------------------------------------------------------------------
\* What the program does by itself; it may also stop waiting for the user.
SummaryStep == \/ \E t \in {"timer", "redo"} : StartRefresh(t)
               \/ Rebuilt \/ RebuildFails \/ CleanUp

Next ==
  \/ StartAnalysis \/ FailAnalysis \/ Deferred
  \/ \E e \in Cases : FinishAnalysis(e)
  \/ AutoTimer \/ Flush \/ FailSearch \/ LoadDevices
  \/ \E names \in Picks : ManualSearch(names)
  \/ job # None /\ \E found \in Findings(job.names) : FinishSearch(found)
  \/ SummaryStep

Spec == Init /\ [][Next]_vars

\* Threads end and timers fire; nobody has to click.
FairSpec == Spec /\ WF_vars(SummaryStep) /\ WF_vars(Deferred)
                 /\ WF_vars(FailAnalysis \/ \E e \in Cases : FinishAnalysis(e))

-----------------------------------------------------------------------------
(* Properties.                                                             *)

\* The report, the arguments it is made from and the model tell of the same
\* suspects of the same analysis, whatever order the writers came in.
ReportAgrees ==
  /\ report = fmt
  /\ (model = None) = (fmt = None)
  /\ model # None => fmt.of = model.of /\ fmt.ver = model.ver

\* The report tells of an answer only for a suspect that may be searched and
\* has one, and for the driver it blames it tells the newest, also when that
\* came from a search for other devices.
MainSuspectCurrent ==
  model # None => \A s \in model.ver.suspects : s.catalog # "not_run" =>
    /\ s.gate # "no" /\ Answered(s.module, batch) # {}
    /\ s.module = model.driver => s.catalog = Verdict(s.module, batch)

\* A module is confirmed only when the newest dump is of this crash, as the
\* one that dump names or the one that recurs in the dumps there are; and
\* where suspects are listed, the driver that is named as the likely cause is
\* a confirmed one of them.  No answer of the catalog changes that.
BlameIsGrounded ==
  model # None =>
    /\ \A s \in model.ver.suspects : s.link = "Confirmed" =>
         Matches(fmt.case) /\ s.module \in {fmt.case.fault, fmt.case.recurring}
    /\ model.driver \in Drivers /\ model.ver.suspects # {} =>
         \E s \in model.ver.suspects : s.module = model.driver /\ s.link = "Confirmed"

\* A device of a weaker suspect never takes the place of one of a stronger
\* suspect in the automatic search.
ConfirmedFirst ==
  [][ auto # None /\ auto' = None /\ job' # job =>
        \A s \in auto : s.gate # "no" /\ s.link = "Confirmed" =>
          \/ Range(DevicesOf[s.module]) \subseteq job'.names
          \/ /\ Cardinality(job'.names) >= MaxNames
             /\ \A n \in job'.names \ Primary :
                  \E c \in auto : /\ c.link = "Confirmed"
                                  /\ n \in Range(DevicesOf[c.module]) ]_vars

\* A summary rebuilt from an older analysis does not stay: unless something
\* fails, the Summary comes back to the analysis that is shown.
SummaryCatchesUp == []<>(model = None \/ failed \/ model.shownOf = model.of)
=============================================================================
