--------------------------- MODULE MSCatalogScan ---------------------------
(***************************************************************************)
(* The Microsoft Update Catalog part of a driver search: the query cache    *)
(* that is meant to live for one search, the batched warm-up that fills it,  *)
(* the pool of device checks that reads it, the coverage-gap pass, and the   *)
(* locks around PowerShell.                                                *)
(*                                                                         *)
(* One search runs at a time (CatalogSearch!OneSearchAndSeen).  A thread is  *)
(* the search's own thread, Main, or a worker of its pool.  Whatever the     *)
(* code does under _BATCH_MSCATALOG_LOCK is one action.  The order in which  *)
(* a device's queries are asked does not matter here, so a thread's queries  *)
(* are a set.                                                              *)
(*                                                                         *)
(* Left out: Windows Update and OEM rows, scoring, the per-hardware-ID store *)
(* cache, the limit and preview parameters; the settings have their defaults *)
(* (parallel warm-up and gap pass on).                                     *)
(***************************************************************************)
EXTENDS Naturals, FiniteSets

CONSTANTS
  Queries,      \* normalised search strings
  Matching,     \* those the catalog has packages for
  Devices,      \* devices a search checks
  QueriesOf,    \* [Devices -> SUBSET Queries], _catalog_search_queries_for_ctx
  GapQueriesOf, \* the same for a device without offers, asked in the gap pass
  GpuOnly,      \* devices the warm-up leaves out (primary GPU)
  BatchScans,   \* searches over the Drivers tab's devices
  SingleScans,  \* checks of one device from the Summary tab
  Workers,      \* threads of the pool
  Main,         \* the search's thread
  Fw,           \* the firmware search's thread
  None,
  ChunkSize,    \* _gui_mscatalog_parallel_chunk
  WithFirmware  \* BOOLEAN: a firmware search runs PowerShell meanwhile

Scans   == BatchScans \cup SingleScans
Threads == Workers \cup {Main}

ASSUME ScanConstants ==
  /\ IsFiniteSet(Queries)
  /\ Matching \subseteq Queries
  /\ GpuOnly \subseteq Devices
  /\ QueriesOf \in [Devices -> SUBSET Queries]
  /\ GapQueriesOf \in [Devices -> SUBSET Queries]
  /\ BatchScans \cap SingleScans = {}
  /\ None \notin Scans \cup Threads \cup {Fw}
  /\ Main \notin Workers /\ Fw \notin Threads
  /\ ChunkSize \in Nat \ {0}
  /\ WithFirmware \in BOOLEAN

VARIABLES
  gui,       \* the program runs as the GUI (set_gui_application_mode)
  scan,      \* the search that is running, or None
  over,      \* searches that are over
  stage,     \* what Main is busy with
  cache,     \* _BATCH_MSCATALOG_QUERY_CACHE
  wanted,    \* the queries this warm-up was called to look up
  pending,   \* those of them in no chunk yet
  parts,     \* halves of the current chunk still to be retried
  group,     \* queries of the batch process that is running
  left,      \* devices no worker has taken yet; then those of the gap pass
  pc,        \* [Threads -> where the thread is]
  job,       \* [Threads -> queries the thread still has to look up]
  want,      \* [Threads -> the query the thread is searching, or None]
  psLock,    \* holder of _CATALOG_PS_LOCK
  storeLock, \* holder of _ONLINE_DRIVER_STORE_LOCK
  cleared,   \* history: the user cleared the caches since the last search began
  bornIn     \* history: the search that was running when a query was cached

warmVars == <<wanted, pending, parts, group>>
vars == <<gui, scan, over, stage, cache, warmVars, left, pc, job, want, psLock,
          storeLock, cleared, bornIn>>

Answers == {"rows", "none", "error"}
Stages  == {"idle", "store", "warm", "pool", "gapwarm", "gap", "single"}
Steps   == {"idle", "store", "storeAsk", "storeQuery", "storeSave", "warm",
            "batch", "check", "ask", "query", "answer"}

TypeOK ==
  /\ gui \in BOOLEAN
  /\ scan \in Scans \cup {None}
  /\ over \subseteq Scans
  /\ stage \in Stages
  /\ cache \in [Queries -> Answers \cup {"missing"}]
  /\ wanted \subseteq Queries /\ pending \subseteq Queries /\ group \subseteq Queries
  /\ parts \subseteq SUBSET Queries
  /\ left \subseteq Devices
  /\ pc \in [Threads -> Steps]
  /\ job \in [Threads -> SUBSET Queries]
  /\ want \in [Threads -> Queries \cup {None}]
  /\ psLock \in Threads \cup {Fw, None}
  /\ storeLock \in Threads \cup {None}
  /\ cleared \in BOOLEAN
  /\ bornIn \in [Queries -> Scans \cup {None}]

Init ==
  /\ gui \in BOOLEAN
  /\ scan = None /\ over = {} /\ stage = "idle"
  /\ cache = [q \in Queries |-> "missing"]
  /\ wanted = {} /\ pending = {} /\ parts = {} /\ group = {}
  /\ left = {}
  /\ pc = [t \in Threads |-> "idle"]
  /\ job = [t \in Threads |-> {}]
  /\ want = [t \in Threads |-> None]
  /\ psLock = None /\ storeLock = None
  /\ cleared = FALSE
  /\ bornIn = [q \in Queries |-> None]

-----------------------------------------------------------------------------
Empty == [q \in Queries |-> "missing"]
Missing(S) == {q \in S : cache[q] = "missing"}
Go(t, step) == pc' = [pc EXCEPT ![t] = step]

\* The queries of every device the warm-up looks at, and those only of others.
WarmQueries == UNION {QueriesOf[d] : d \in Devices \ GpuOnly}
ColdQueries == (UNION {QueriesOf[d] : d \in GpuOnly}) \ WarmQueries

\* Thread t looks up rest next; a worker with nothing left goes back to the pool.
Continue(t, rest) ==
  /\ job' = [job EXCEPT ![t] = rest]
  /\ Go(t, IF rest = {} /\ t # Main THEN "idle" ELSE "check")

\* A set of answers goes into the cache, under its lock.
Seed(answers) ==
  /\ cache' = [q \in Queries |-> IF q \in DOMAIN answers THEN answers[q] ELSE cache[q]]
  /\ bornIn' = [q \in Queries |-> IF q \in DOMAIN answers THEN scan ELSE bornIn[q]]

-----------------------------------------------------------------------------
(* Beginning and end of a search. *)

\* mutant: the search forgets to begin with an empty cache
StartBatchKeepsCache(s) ==
  /\ scan = None /\ s \notin over
  /\ scan' = s
  /\ cleared' = FALSE
  /\ left' = Devices
  /\ IF gui
     THEN /\ stage' = "warm" /\ Go(Main, "warm")
          /\ wanted' = Missing(WarmQueries) /\ pending' = wanted'
     ELSE /\ stage' = "store" /\ Go(Main, "store")
          /\ UNCHANGED <<wanted, pending>>
  /\ UNCHANGED <<gui, over, cache, parts, group, job, want, psLock, storeLock, bornIn>>

\* build_multi_device_driver_comparison
StartBatch(s) ==
  /\ scan = None /\ s \notin over
  /\ scan' = s
  /\ cache' = Empty
  /\ cleared' = FALSE
  /\ left' = Devices
  /\ IF gui
     THEN /\ stage' = "warm" /\ Go(Main, "warm")
          /\ wanted' = WarmQueries /\ pending' = WarmQueries
     ELSE /\ stage' = "store" /\ Go(Main, "store")
          /\ UNCHANGED <<wanted, pending>>
  /\ UNCHANGED <<gui, over, parts, group, job, want, psLock, storeLock, bornIn>>

\* DriverCatalogWorker.run for the Summary tab: one device, and no call to
\* begin_batch_mscatalog_query_cache.
StartSingle(s) ==
  /\ gui
  /\ scan = None /\ s \notin over
  /\ scan' = s
  /\ stage' = "single"
  /\ \E d \in Devices : job' = [job EXCEPT ![Main] = QueriesOf[d]]
  /\ Go(Main, "check")
  /\ UNCHANGED <<gui, over, cache, warmVars, left, want, psLock, storeLock,
                 cleared, bornIn>>

EndWith(c) ==
  /\ over' = over \cup {scan}
  /\ scan' = None
  /\ stage' = "idle"
  /\ cache' = c
  /\ left' = {}
  /\ Go(Main, "idle")
  /\ job' = [job EXCEPT ![Main] = {}]
  /\ wanted' = {} /\ pending' = {} /\ parts' = {} /\ group' = {}
  /\ UNCHANGED <<gui, want, psLock, storeLock, cleared, bornIn>>

PoolEmpty == \A w \in Workers : pc[w] = "idle"

\* A batch search returns: after its pool when no device lacks offers (or outside
\* the GUI), or after the gap pass.
ScanEnds ==
  /\ \/ stage = "pool" /\ left = {} /\ PoolEmpty
     \/ stage = "gap" /\ pc[Main] = "check" /\ job[Main] = {}
  /\ EndWith(Empty)

\* An exception of the one-by-one warm-up leaves the search through its finally;
\* in the gap pass it is swallowed and the search returns.
ScanRaises ==
  /\ stage \in {"warm", "gapwarm"} /\ pc[Main] = "check"
  /\ EndWith(Empty)

SingleEnds ==
  /\ stage = "single" /\ pc[Main] = "check" /\ job[Main] = {}
  /\ EndWith(cache)

\* clear_wu_driver_cache from the Tools menu.
ClearClick ==
  /\ ~cleared
  /\ cache' = Empty
  /\ cleared' = TRUE
  /\ UNCHANGED <<gui, scan, over, stage, warmVars, left, pc, job, want, psLock,
                 storeLock, bornIn>>

-----------------------------------------------------------------------------
(* The warm-up: chunks of queries, one PowerShell process each, halved and      *)
(* retried when the process fails.                                            *)

\* The next half, or the next chunk.
WarmPick ==
  /\ pc[Main] = "warm"
  /\ \/ /\ group' \in parts
        /\ parts' = parts \ {group'}
        /\ UNCHANGED pending
     \/ /\ parts = {} /\ pending # {}
        /\ \E G \in SUBSET pending :
             /\ \/ Cardinality(G) = ChunkSize
                \/ Cardinality(G) < ChunkSize /\ G = pending
             /\ group' = G /\ pending' = pending \ G
        /\ UNCHANGED parts
  /\ Go(Main, "batch")
  /\ UNCHANGED <<gui, scan, over, stage, cache, wanted, left, job, want, psLock,
                 storeLock, cleared, bornIn>>

\* The process answers.  A query that failed inside it comes back without rows.
BatchOk ==
  /\ pc[Main] = "batch"
  /\ \E found \in SUBSET (group \cap Matching) :
       Seed([q \in group |-> IF q \in found THEN "rows" ELSE "none"])
  /\ group' = {}
  /\ Go(Main, "warm")
  /\ UNCHANGED <<gui, scan, over, stage, wanted, pending, parts, left, job, want,
                 psLock, storeLock, cleared>>

\* mutant: the second half is forgotten
BatchFailsDropsHalf ==
  /\ pc[Main] = "batch" /\ Cardinality(group) > 1
  /\ \E H \in SUBSET group :
       /\ Cardinality(H) = Cardinality(group) \div 2
       /\ parts' = parts \cup {H}
  /\ group' = {}
  /\ Go(Main, "warm")
  /\ UNCHANGED <<gui, scan, over, stage, cache, wanted, pending, left, job, want,
                 psLock, storeLock, cleared, bornIn>>

\* mutant: the same chunk is tried again as it was
BatchFailsWhole ==
  /\ pc[Main] = "batch" /\ Cardinality(group) > 1
  /\ parts' = parts \cup {group}
  /\ group' = {}
  /\ Go(Main, "warm")
  /\ UNCHANGED <<gui, scan, over, stage, cache, wanted, pending, left, job, want,
                 psLock, storeLock, cleared, bornIn>>

\* It times out or prints nothing usable: two halves are tried instead.
BatchFails ==
  /\ pc[Main] = "batch" /\ Cardinality(group) > 1
  /\ \E H \in SUBSET group :
       /\ Cardinality(H) = Cardinality(group) \div 2
       /\ parts' = parts \cup {H, group \ H}
  /\ group' = {}
  /\ Go(Main, "warm")
  /\ UNCHANGED <<gui, scan, over, stage, cache, wanted, pending, left, job, want,
                 psLock, storeLock, cleared, bornIn>>

\* A single query fails: the rest of the warm-up looks them all up one by one.
BatchGivesUp ==
  /\ pc[Main] = "batch" /\ Cardinality(group) = 1
  /\ pending' = {} /\ parts' = {} /\ group' = {}
  /\ Continue(Main, wanted)
  /\ UNCHANGED <<gui, scan, over, stage, cache, wanted, left, want, psLock,
                 storeLock, cleared, bornIn>>

Warmed == \/ pc[Main] = "warm" /\ parts = {} /\ pending = {}
          \/ pc[Main] = "check" /\ job[Main] = {}

-----------------------------------------------------------------------------
(* The pool of device checks, and the pass over devices left without offers.    *)

PoolStart ==
  /\ stage = "warm" /\ Warmed
  /\ stage' = "pool"
  /\ Go(Main, "idle")
  /\ UNCHANGED <<gui, scan, over, cache, warmVars, left, job, want, psLock,
                 storeLock, cleared, bornIn>>

\* A worker takes a device.  A check that finds the catalog search unneeded asks
\* nothing; outside the GUI it may want the online driver store first.
WorkerTake(w) ==
  /\ stage = "pool" /\ pc[w] = "idle"
  /\ \E d \in left, asked \in BOOLEAN, store \in BOOLEAN :
       /\ store => ~gui
       /\ left' = left \ {d}
       /\ job' = [job EXCEPT ![w] = IF asked THEN QueriesOf[d] ELSE {}]
       /\ Go(w, IF store THEN "store" ELSE IF job'[w] = {} THEN "idle" ELSE "check")
  /\ UNCHANGED <<gui, scan, over, stage, cache, warmVars, want, psLock, storeLock,
                 cleared, bornIn>>

\* mutant: the pass looks up again what has an answer
GapStartAnew ==
  /\ gui
  /\ stage = "pool" /\ left = {} /\ PoolEmpty
  /\ \E D \in (SUBSET Devices) \ {{}} :
       /\ left' = D
       /\ wanted' = UNION {GapQueriesOf[d] : d \in D}
  /\ pending' = wanted'
  /\ stage' = "gapwarm"
  /\ Go(Main, "warm")
  /\ UNCHANGED <<gui, scan, over, cache, parts, group, job, want, psLock,
                 storeLock, cleared, bornIn>>

\* The devices D had no offer.
GapStart ==
  /\ gui
  /\ stage = "pool" /\ left = {} /\ PoolEmpty
  /\ \E D \in (SUBSET Devices) \ {{}} :
       /\ left' = D
       /\ wanted' = Missing(UNION {GapQueriesOf[d] : d \in D})
  /\ pending' = wanted'
  /\ stage' = "gapwarm"
  /\ Go(Main, "warm")
  /\ UNCHANGED <<gui, scan, over, cache, parts, group, job, want, psLock,
                 storeLock, cleared, bornIn>>

GapLookups ==
  /\ stage = "gapwarm" /\ Warmed
  /\ stage' = "gap"
  /\ left' = {}
  /\ Continue(Main, UNION {GapQueriesOf[d] : d \in left})
  /\ UNCHANGED <<gui, scan, over, cache, warmVars, want, psLock, storeLock,
                 cleared, bornIn>>

-----------------------------------------------------------------------------
(* One query: _search_mscatalog_updates_cached. *)

\* The rest of a device's queries is skipped once a hardware-verified row came.
MayStop(t) == t # Main \/ stage = "single"

Onward(t, q, a) ==
  \E rest \in {job[t] \ {q}} \cup (IF a = "rows" /\ MayStop(t) THEN {{}} ELSE {}) :
    Continue(t, rest)

\* What is not cached needs a process ("ask"), or none: the web page, the
\* 15-minute cache, a hardware ID or a missing module answer ("answer").
Lookup(t, q) ==
  /\ pc[t] = "check" /\ q \in job[t]
  /\ IF cache[q] # "missing"
     THEN Onward(t, q, cache[q]) /\ UNCHANGED want
     ELSE /\ want' = [want EXCEPT ![t] = q]
          /\ Go(t, "ask") \/ Go(t, "answer")
          /\ UNCHANGED job
  /\ UNCHANGED <<gui, scan, over, stage, cache, warmVars, left, psLock, storeLock,
                 cleared, bornIn>>

\* run_catalog_powershell around Get-MSCatalogUpdate: the thread waits for the
\* lock and gives it back when the process has ended, with an answer or without.
OpenQuery(t) ==
  /\ pc[t] = "ask" /\ psLock = None
  /\ psLock' = t
  /\ Go(t, "query")
  /\ UNCHANGED <<gui, scan, over, stage, cache, warmVars, left, job, want,
                 storeLock, cleared, bornIn>>

CloseQuery(t) ==
  /\ pc[t] = "query"
  /\ psLock' = None
  /\ Go(t, "answer")
  /\ UNCHANGED <<gui, scan, over, stage, cache, warmVars, left, job, want,
                 storeLock, cleared, bornIn>>

\* mutant: a search that failed leaves a placeholder for a later retry
AnswerPlaceholder(t) ==
  /\ pc[t] = "answer"
  /\ \E a \in {"rows", "none", "retry"} :
       /\ a = "rows" => want[t] \in Matching
       /\ Seed([q \in {want[t]} |-> a])
       /\ Onward(t, want[t], a)
  /\ want' = [want EXCEPT ![t] = None]
  /\ UNCHANGED <<gui, scan, over, stage, warmVars, left, psLock, storeLock, cleared>>

\* The answer is cached whatever it is, an error like no rows.
Answer(t) ==
  /\ pc[t] = "answer"
  /\ \E a \in Answers :
       /\ a = "rows" => want[t] \in Matching
       /\ Seed([q \in {want[t]} |-> a])
       /\ Onward(t, want[t], a)
  /\ want' = [want EXCEPT ![t] = None]
  /\ UNCHANGED <<gui, scan, over, stage, warmVars, left, psLock, storeLock, cleared>>

-----------------------------------------------------------------------------
(* The online driver store, which the GUI never loads. *)

StoreLock(t) ==
  /\ pc[t] = "store" /\ storeLock = None
  /\ storeLock' = t
  /\ Go(t, "storeAsk")
  /\ UNCHANGED <<gui, scan, over, stage, cache, warmVars, left, job, want, psLock,
                 cleared, bornIn>>

StoreOpen(t) ==
  /\ pc[t] = "storeAsk" /\ psLock = None
  /\ psLock' = t
  /\ Go(t, "storeQuery")
  /\ UNCHANGED <<gui, scan, over, stage, cache, warmVars, left, job, want,
                 storeLock, cleared, bornIn>>

\* Get-WindowsDriver failed or listed nothing: the search goes on without it.
StoreEmpty(t) ==
  /\ pc[t] = "storeQuery"
  /\ psLock' = None /\ storeLock' = None
  /\ IF t = Main THEN stage' = "pool" /\ Go(t, "idle") /\ UNCHANGED job
                 ELSE UNCHANGED stage /\ Continue(t, job[t])
  /\ UNCHANGED <<gui, scan, over, cache, warmVars, left, want, cleared, bornIn>>

\* It listed drivers.  To save them _fetch_online_driver_store_rows_uncached takes
\* _ONLINE_DRIVER_STORE_LOCK, a plain Lock which its caller, this thread, holds:
\* there is no step from "storeSave".
StoreRows(t) ==
  /\ pc[t] = "storeQuery"
  /\ psLock' = None
  /\ Go(t, "storeSave")
  /\ UNCHANGED <<gui, scan, over, stage, cache, warmVars, left, job, want,
                 storeLock, cleared, bornIn>>

-----------------------------------------------------------------------------
(* The firmware search's PowerShell, through the same run_catalog_powershell. *)

FwOpen ==
  /\ WithFirmware
  /\ psLock = None
  /\ psLock' = Fw
  /\ UNCHANGED <<gui, scan, over, stage, cache, warmVars, left, pc, job, want,
                 storeLock, cleared, bornIn>>

FwClose ==
  /\ psLock = Fw
  /\ psLock' = None
  /\ UNCHANGED <<gui, scan, over, stage, cache, warmVars, left, pc, job, want,
                 storeLock, cleared, bornIn>>

-----------------------------------------------------------------------------
Warm == WarmPick \/ BatchOk \/ BatchFails \/ BatchGivesUp

Query(t) ==
  \/ \E q \in Queries : Lookup(t, q)
  \/ OpenQuery(t) \/ CloseQuery(t) \/ Answer(t)
  \/ StoreLock(t) \/ StoreOpen(t) \/ StoreEmpty(t) \/ StoreRows(t)

Next ==
  \/ \E s \in BatchScans : StartBatch(s)
  \/ \E s \in SingleScans : StartSingle(s)
  \/ ScanEnds \/ ScanRaises \/ SingleEnds
  \/ ClearClick
  \/ Warm \/ PoolStart \/ GapStart \/ GapLookups
  \/ \E w \in Workers : WorkerTake(w)
  \/ \E t \in Threads : Query(t)
  \/ FwOpen \/ FwClose

Spec == Init /\ [][Next]_vars

\* Threads that can run do run: the operating system schedules them, PowerShell
\* processes have timeouts, the firmware search's too, and an idle worker takes what
\* is submitted.  The PowerShell lock is no queue: if it is free again and again, one
\* of the search's threads that wait for it gets it, whichever.  What the user does,
\* an exception and a firmware search are never owed.
Fairness ==
  /\ WF_vars(Warm \/ PoolStart \/ GapLookups \/ ScanEnds \/ SingleEnds \/ Query(Main))
  /\ \A w \in Workers : WF_vars(WorkerTake(w) \/ Query(w))
  /\ SF_vars(\E t \in Threads : OpenQuery(t))
  /\ WF_vars(FwClose)

FairSpec == Spec /\ Fairness

-----------------------------------------------------------------------------
(* Properties *)

\* When the pool runs, and in the gap pass, every query the warm-up was for has an
\* answer: no chunk, half or remainder was lost in the retries, so workers ask the
\* catalog nothing (unless the user cleared the caches meanwhile).
WarmCovers ==
  stage \in {"pool", "gapwarm", "gap"} /\ gui /\ ~cleared
    => \A q \in WarmQueries : cache[q] # "missing"

\* A search of the Drivers tab uses only answers given during that search, never
\* those an earlier search or a Summary check left in the cache.
BatchAnswersFresh ==
  scan \in BatchScans => \A q \in Queries : cache[q] # "missing" => bornIn[q] = scan

\* Within a search of the GUI the answer to a query stands: threads that look the
\* same query up, a failed process that is retried in halves and the gap pass never
\* put another in its place, so that all devices are judged by the same packages.
\* Between the test and the write no lock is held (catalog_mscatalog_session.py:1125);
\* what saves the pool is the warm-up, so the queries it leaves out are exempt.
AnswersStand ==
  [][ gui /\ scan # None /\ scan' = scan /\ ~cleared'
      => \A q \in Queries \ ColdQueries :
           cache[q] # "missing" => cache'[q] = cache[q] ]_vars

\* Every search of the GUI comes to an end, whatever fails: the retries of the
\* warm-up stop, no query is asked for ever, the pool drains.
GuiScanFinishes == gui /\ scan # None ~> scan = None

\* The same for every search, also for the scripts that run one.
ScanFinishes == scan # None ~> scan = None
=============================================================================
