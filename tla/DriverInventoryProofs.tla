------------------------ MODULE DriverInventoryProofs ------------------------
(* For every value of the constants: the types, that a driver search that    *)
(* waits for the scan or the device list always has someone to go on with    *)
(* it, and that the fill of the table that will go on with a waiting search  *)
(* is not replaced by one that will not.                                     *)
EXTENDS DriverInventory, TLAPS

(***************************************************************************)
(* The inductive invariant, as predicates of a window                      *)
(***************************************************************************)
LoadTimers(v) == v.timers["loadForced"] > 0 \/ v.timers["loadQuiet"] > 0

\* In a full install the profile can be taken away, so nothing that needs one
\* may be under way without it.
FullInv(v) ==
  v.full =>
    /\ LoadTimers(v) \/ v.timers["ensure"] > 0 => v.profile # 0
    /\ v.pendLoad # "none" => v.hw = "run"
    /\ v.all => v.profile # 0
    /\ v.chain => v.profile # 0 /\ v.pendLoad = "none"

\* Who goes on with the search that waits.
Carried(v) ==
  \/ v.hw = "run" \/ v.load = "run"
  \/ v.timers["apply"] > 0 \/ v.timers["finish"] > 0
  \/ LoadTimers(v) /\ v.profile # 0 /\ ~v.full

ChainInv(v) ==
  v.chain =>
    /\ Carried(v)
    /\ v.load = "quit" => v.timers["apply"] > 0 \/ v.timers["finish"] > 0

Good(v) == v \in Window /\ FullInv(v) /\ ChainInv(v)

IInv == Good(w)

(***************************************************************************)
(* What the helpers leave alone                                            *)
(***************************************************************************)
\* Two windows with the same part that Good speaks of, the chain excepted.
Kept(v, s) ==
  /\ s.hw = v.hw /\ s.load = v.load
  /\ s.pendLoad = v.pendLoad /\ s.profile = v.profile
  /\ s.full = v.full /\ s.all = v.all
  /\ \A t \in {"loadForced", "loadQuiet", "apply", "finish", "ensure"} :
       s.timers[t] = v.timers[t]

Same(v, s) == s \in Window /\ Kept(v, s) /\ s.chain = v.chain

LEMMA SameSteps ==
  ASSUME NEW v, NEW s, NEW u, Same(v, s), Same(s, u)
  PROVE  Same(v, u)
BY DEF Same, Kept

LEMMA NoProfile == 0 \in Profiles /\ NoCall \in Callback
BY InventoryAssumption DEF Profiles, NoCall, Callback

LEMMA SameGood ==
  ASSUME NEW v, NEW s, Good(v), s \in Window, Kept(v, s),
         s.chain => v.chain
  PROVE  Good(s)
BY DEF Same, Kept, Good, FullInv, ChainInv, Carried, LoadTimers

LEMMA BarFacts ==
  ASSUME NEW v \in Window
  PROVE  /\ Same(v, BeginBar(v)) /\ Same(v, EndBar(v))
         /\ Same(v, HoldBar(v)) /\ Same(v, EndOwned(v))
<1>1. Same(v, BeginBar(v))
  BY DEF BeginBar, Window, Same, Kept
<1>2. ASSUME NEW u \in Window PROVE Same(u, EndBar(u))
  BY DEF EndBar, Window, Same, Kept
<1>3. Same(v, HoldBar(v))
  BY <1>1 DEF HoldBar, Same, Kept
<1>4. Same(v, EndOwned(v))
  <2>1. Same(v, [v EXCEPT !.owns = FALSE])
    BY DEF Window, Same, Kept
  <2>2. QED
    BY <1>2, <2>1, ZenonT(60) DEF EndOwned, Same, Kept
<1>5. QED
  BY <1>1, <1>2, <1>3, <1>4

LEMMA TimerFacts ==
  ASSUME NEW v \in Window
  PROVE  /\ \A t \in Timers : After(v, t) \in Window
         /\ Same(v, SaveLater(v))
         /\ \A t \in {"continue", "populate", "deferred"} : Same(v, After(v, t))
<1>1. \A t \in Timers : After(v, t) \in Window
  BY DEF After, Window
<1>2. Same(v, SaveLater(v))
  BY DEF SaveLater, Window, Same, Kept, Timers
<1>3. ASSUME NEW t \in {"continue", "populate", "deferred"}
      PROVE  Same(v, After(v, t))
  <2>1. After(v, t) \in Window
    BY <1>1 DEF Timers
  <2>2. After(v, t).chain = v.chain
    BY DEF After, Window
  <2>3. Kept(v, After(v, t))
    <3>1. v.timers \in [Timers -> Nat]
      BY DEF Window
    <3>2. After(v, t) = [v EXCEPT !.timers = [v.timers EXCEPT ![t] = @ + 1]]
      BY DEF After, Window
    <3>3. QED
      BY <3>1, <3>2 DEF Window, Kept, Timers
  <2>4. QED
    BY <2>1, <2>2, <2>3 DEF Same
<1>4. QED
  BY <1>1, <1>2, <1>3

(***************************************************************************)
(* Building and filling the table                                          *)
(***************************************************************************)
LEMMA RefreshFacts ==
  ASSUME NEW v \in Window, NEW c \in Profiles
  PROVE  Same(v, Refresh(v, c))
<1> DEFINE s == [v EXCEPT !.build = "run", !.current = TRUE, !.onReady = c]
           p == [v EXCEPT !.pend = TRUE, !.onReady = c]
<1>1. Same(v, p)
  BY DEF Window, Same, Kept
<1>2. Same(v, s)
  BY DEF Window, Same, Kept, Threads
<1>3. Same(s, BeginBar(s))
  BY <1>2, BarFacts DEF Same
<1>4. Same(BeginBar(s), [BeginBar(s) EXCEPT !.owns = TRUE])
  BY <1>3 DEF Window, Same, Kept
<1>5. Same(v, [BeginBar(s) EXCEPT !.owns = TRUE])
  <2>1. Same(v, BeginBar(s))
    BY <1>2, <1>3, SameSteps
  <2>2. QED
    BY <1>4, <2>1, SameSteps
<1>6. QED
  BY <1>1, <1>2, <1>5 DEF Refresh

LEMMA PopulateFacts ==
  ASSUME NEW v \in Window
  PROVE  Same(v, Populate(v))
<1>1. Same(v, v) /\ Same(v, [v EXCEPT !.stale = TRUE])
  BY DEF Window, Same, Kept
<1>2. v.profile \in Profiles
  BY DEF Window
<1>3. QED
  BY <1>1, <1>2, RefreshFacts DEF Populate

LEMMA FinishUiFacts ==
  ASSUME NEW v \in Window, NEW p \in Profiles, NEW size
  PROVE  Same(v, FinishUi(v, p, size))
<1> DEFINE a == [v EXCEPT !.sync = TRUE,
                          !.syncCall = [ready |-> p, again |-> FALSE]]
           b == [v EXCEPT !.tabReady = FALSE]
           s == IF v.tabReady THEN After(b, "continue") ELSE v
           e == [s EXCEPT !.stale = FALSE]
<1>1. Same(v, v) /\ Same(v, a) /\ Same(v, b)
  BY ZenonT(60) DEF Window, Same, Kept, Callback
<1>2. Same(v, s)
  <2>1. Same(b, After(b, "continue"))
    BY <1>1, TimerFacts DEF Same
  <2>2. QED
    BY <1>1, <2>1, SameSteps
<1>3. Same(s, e)
  <2>1. ASSUME NEW u \in Window PROVE Same(u, [u EXCEPT !.stale = FALSE])
    BY DEF Window, Same, Kept
  <2>2. s \in Window
    BY <1>2 DEF Same
  <2> HIDE DEF s
  <2>3. QED
    BY <2>1, <2>2
<1>4. Same(e, EndOwned(e))
  BY <1>3, BarFacts DEF Same
<1>5. Same(v, EndOwned(e))
  <2>1. Same(v, e)
    BY <1>2, <1>3, SameSteps
  <2>2. QED
    BY <1>4, <2>1, SameSteps
<1>6. QED
  BY <1>1, <1>5 DEF FinishUi

LEMMA CallFacts ==
  ASSUME NEW v \in Window, NEW c \in Callback, NEW size
  PROVE  Same(v, Call(v, c, size))
<1> DEFINE s == IF c.ready # 0 THEN FinishUi(v, c.ready, size) ELSE v
<1>1. Same(v, s)
  BY FinishUiFacts DEF Callback, Same, Kept
<1>2. Same(s, Refresh(s, 0))
  BY <1>1, RefreshFacts, NoProfile DEF Same
<1>3. QED
  BY <1>1, <1>2, SameSteps DEF Call

LEMMA FilterFacts ==
  ASSUME NEW v \in Window, NEW thin, NEW size
  PROVE  Same(v, ApplyFilter(v, thin, size)) /\ Same(v, FlushFilter(v, thin, size))
<1>1. ASSUME NEW u \in Window, NEW z PROVE Same(u, ApplyFilter(u, thin, z))
  <2>1. Same(u, [u EXCEPT !.filter = TRUE])
    BY DEF Window, Same, Kept
  <2>2. Same(u, [u EXCEPT !.sync = (z = "big"), !.syncCall = NoCall])
    BY NoProfile, ZenonT(60) DEF Window, Same, Kept
  <2>3. Same(u, Refresh(u, 0))
    BY RefreshFacts, NoProfile
  <2>4. QED
    BY <2>1, <2>2, <2>3 DEF ApplyFilter
<1> DEFINE f == [v EXCEPT !.filter = FALSE]
<1>2. Same(v, v) /\ Same(v, f)
  BY DEF Window, Same, Kept
<1>3. Same(f, ApplyFilter(f, thin, size))
  BY <1>1, <1>2 DEF Same
<1>4. Same(v, ApplyFilter(f, thin, size))
  BY <1>2, <1>3, SameSteps
<1>5. QED
  BY <1>1, <1>2, <1>4 DEF FlushFilter

LEMMA TableFacts ==
  ASSUME NEW v \in Window, NEW c \in Callback, NEW size, NEW thin, NEW refill
  PROVE  /\ Same(v, FinishTable(v, c, size, thin, refill))
         /\ Same(v, SyncTable(v, c, size, thin, refill))
<1> DEFINE a == [v EXCEPT !.sync = FALSE, !.syncCall = NoCall]
           b == Call(a, c, size)
<1>1. Same(v, a)
  BY NoProfile DEF Window, Same, Kept
<1>2. Same(a, b)
  BY <1>1, CallFacts DEF Same
<1>3. Same(b, FlushFilter(b, thin, refill))
  BY <1>2, FilterFacts DEF Same
<1>4. Same(v, FlushFilter(b, thin, refill))
  <2>1. Same(v, b)
    BY <1>1, <1>2, SameSteps
  <2>2. QED
    BY <1>3, <2>1, SameSteps
<1>5. Same(v, [v EXCEPT !.sync = TRUE, !.syncCall = c])
  BY DEF Window, Same, Kept
<1>6. QED
  BY <1>4, <1>5 DEF FinishTable, SyncTable

LEMMA TabFacts ==
  ASSUME NEW v \in Window
  PROVE  Same(v, ShowTab(v))
<1>1. Same(v, [v EXCEPT !.tab = TRUE])
  BY DEF Window, Same, Kept
<1>2. Same([v EXCEPT !.tab = TRUE], Populate([v EXCEPT !.tab = TRUE]))
  BY <1>1, PopulateFacts DEF Same
<1>3. QED
  BY <1>1, <1>2, SameSteps DEF ShowTab

(***************************************************************************)
(* The search, scans and loads                                             *)
(***************************************************************************)
LEMMA SearchFacts ==
  ASSUME NEW v \in Window, NEW some
  PROVE  Same(v, StartSearch(v)) /\ Same(v, ContinueSearch(v, some))
<1>1. Same(v, v) /\ Same(v, [v EXCEPT !.queued = IF @ < 2 THEN @ + 1 ELSE @])
  BY DEF Window, Same, Kept
<1>2. Same(v, HoldBar(v)) /\ Same(v, EndBar(v))
  BY BarFacts
<1>3. Same(HoldBar(v), [HoldBar(v) EXCEPT !.search = "run"])
  BY <1>2 DEF Window, Same, Kept, Threads
<1>4. Same(v, StartSearch(v))
  <2>1. Same(v, [HoldBar(v) EXCEPT !.search = "run"])
    BY <1>2, <1>3, SameSteps
  <2>2. QED
    BY <1>1, <2>1 DEF StartSearch
<1>5. QED
  BY <1>2, <1>4 DEF ContinueSearch

LEMMA FinishScanFacts ==
  ASSUME NEW v \in Window, NEW some
  PROVE  /\ FinishScan(v, some) \in Window /\ Kept(v, FinishScan(v, some))
         /\ ~FinishScan(v, some).chain
<1> DEFINE s == [v EXCEPT !.ready = TRUE, !.chain = FALSE]
           a == [s EXCEPT !.tabReady = TRUE, !.stale = TRUE]
           b == [s EXCEPT !.tabReady = TRUE]
<1>1. s \in Window /\ Kept(v, s) /\ ~s.chain
  BY DEF Window, Kept
<1>2. Same(s, a) /\ Same(s, b)
  <2>1. ASSUME NEW u \in Window
        PROVE  /\ Same(u, [u EXCEPT !.tabReady = TRUE, !.stale = TRUE])
               /\ Same(u, [u EXCEPT !.tabReady = TRUE])
    BY DEF Window, Same, Kept
  <2>2. QED
    BY <1>1, <2>1
<1>3. Same(s, Populate(a)) /\ Same(s, Populate(b))
  <2>1. Same(a, Populate(a)) /\ Same(b, Populate(b))
    BY <1>2, PopulateFacts DEF Same
  <2>2. QED
    BY <1>2, <2>1, SameSteps
<1>4. Same(s, ContinueSearch(s, some))
  BY <1>1, SearchFacts
<1>5. QED
  BY <1>1, <1>3, <1>4 DEF FinishScan, Same, Kept

LEMMA CancelFacts ==
  ASSUME NEW v \in Window,
         v.full => /\ LoadTimers(v) \/ v.timers["ensure"] > 0 => v.profile # 0
                   /\ v.all => v.profile # 0
  PROVE  Good(CancelChain(v))
BY ZenonT(60) DEF CancelChain, Window, Good, FullInv, ChainInv, LoadTimers, Loads

\* Whatever ends the wait keeps the invariant.
LEMMA EndsChain ==
  ASSUME NEW v, NEW s, FullInv(v), s \in Window, Kept(v, s), ~s.chain
  PROVE  Good(s)
BY DEF Kept, Good, FullInv, ChainInv, LoadTimers

\* What a scan that may be asked for changes.
LEMMA StartScanFacts ==
  ASSUME NEW v \in Window, NEW forced \in BOOLEAN
  PROVE  LET s == StartScan(v, forced)
         IN  /\ s \in Window
             /\ Kept([v EXCEPT !.hw = s.hw], s) /\ s.chain = v.chain
             /\ s.hw = IF v.hw = "none" THEN "run" ELSE v.hw
<1>1. Same(v, HoldBar(v))
  BY BarFacts
<1>2. ASSUME NEW h, Same(v, h)
      PROVE  LET s == [h EXCEPT !.hw = "run", !.ready = @ /\ ~forced]
             IN  /\ s \in Window /\ Kept([v EXCEPT !.hw = "run"], s)
                 /\ s.chain = v.chain /\ s.hw = "run"
  <2> DEFINE s == [h EXCEPT !.hw = "run", !.ready = @ /\ ~forced]
  <2>1. s \in Window
    <3>1. ASSUME NEW r \in BOOLEAN
          PROVE  [h EXCEPT !.hw = "run", !.ready = r] \in Window
      BY <1>2 DEF Same, Window, Threads
    <3>2. (h.ready /\ ~forced) \in BOOLEAN
      OBVIOUS
    <3>3. QED
      BY <3>1, <3>2
  <2>2. Kept([v EXCEPT !.hw = "run"], s) /\ s.chain = v.chain /\ s.hw = "run"
    BY <1>2 DEF Same, Kept, Window
  <2>3. QED
    BY <2>1, <2>2
<1>3. Kept([v EXCEPT !.hw = v.hw], v)
  BY DEF Kept, Window
<1>4. CASE v.hw = "none"
  <2> DEFINE s == [HoldBar(v) EXCEPT !.hw = "run", !.ready = @ /\ ~forced]
  <2>1. /\ s \in Window /\ Kept([v EXCEPT !.hw = "run"], s)
        /\ s.chain = v.chain /\ s.hw = "run"
    BY <1>1, <1>2
  <2>2. StartScan(v, forced) = s
    BY <1>4 DEF StartScan
  <2> HIDE DEF s
  <2>3. QED
    BY <1>4, <2>1, <2>2
<1>5. CASE v.hw # "none"
  <2>1. StartScan(v, forced) = v
    BY <1>5 DEF StartScan
  <2>2. QED
    BY <1>3, <1>5, <2>1
<1>6. QED
  BY <1>4, <1>5

\* A load that is asked for keeps the invariant; where the asking used up a
\* timer that carried the search (v before it), the load or the scan does.
LEMMA StartLoadFacts ==
  ASSUME NEW v, NEW kind \in Loads \cup {"plain"}, v \in Window, FullInv(v),
         v.full => v.profile # 0 \/ (v.hw # "quit" /\ ~v.chain),
         v.chain => /\ Carried(v) \/ v.profile # 0
                    /\ v.load = "quit" =>
                         v.timers["apply"] > 0 \/ v.timers["finish"] > 0
  PROVE  Good(StartLoad(v, kind))
<1> DEFINE p == [v EXCEPT !.pendLoad = IF kind = "quiet" THEN "quiet" ELSE "forced"]
           b == IF kind = "quiet" THEN v ELSE HoldBar(v)
<1>1. CASE v.load # "none"
  <2>1. StartLoad(v, kind) = v
    BY <1>1 DEF StartLoad
  <2>2. v.load \in {"run", "quit"}
    BY <1>1 DEF Window, Threads
  <2>3. QED
    BY <2>1, <2>2 DEF Good, ChainInv, Carried
<1>2. CASE v.load = "none" /\ v.profile = 0
  <2>1. p \in Window /\ Kept([v EXCEPT !.pendLoad = p.pendLoad], p)
        /\ p.chain = v.chain /\ p.pendLoad \in Loads \ {"none"}
    BY DEF Window, Kept, Loads
  <2> HIDE DEF p
  <2>2. (kind = "forced") \in BOOLEAN
    OBVIOUS
  <2> DEFINE s == StartScan(p, kind = "forced")
  <2>3. /\ s \in Window /\ Kept([p EXCEPT !.hw = s.hw], s) /\ s.chain = p.chain
        /\ s.hw = IF p.hw = "none" THEN "run" ELSE p.hw
    BY <2>1, <2>2, StartScanFacts
  <2>4. StartLoad(v, kind) = s
    BY <1>2 DEF StartLoad, p
  <2> HIDE DEF s
  <2>5. /\ s.full = v.full /\ s.profile = v.profile /\ s.all = v.all
        /\ s.load = v.load /\ s.hw = IF v.hw = "none" THEN "run" ELSE v.hw
        /\ \A t \in {"loadForced", "loadQuiet", "apply", "finish", "ensure"} :
             s.timers[t] = v.timers[t]
    BY <2>1, <2>3 DEF Kept, Window
  <2>6. v.hw \in Threads
    BY DEF Window
  <2>7. FullInv(s)
    BY <1>2, <2>1, <2>3, <2>5, <2>6 DEF FullInv, LoadTimers, Threads
  <2>8. ChainInv(s)
    BY <1>2, <2>1, <2>3, <2>5 DEF ChainInv, Carried, LoadTimers
  <2>9. QED
    BY <2>3, <2>4, <2>7, <2>8 DEF Good
<1>3. CASE v.load = "none" /\ v.profile # 0
  <2>1. Same(v, b)
    BY BarFacts DEF Same, Kept
  <2> HIDE DEF b
  <2> DEFINE s == [b EXCEPT !.load = "run", !.quiet = (kind = "quiet")]
  <2>2. /\ s \in Window /\ Kept([v EXCEPT !.load = "run"], s)
        /\ s.chain = v.chain /\ s.load = "run"
    <3>1. ASSUME NEW r \in BOOLEAN
          PROVE  [b EXCEPT !.load = "run", !.quiet = r] \in Window
      BY <2>1 DEF Same, Window, Threads
    <3>2. (kind = "quiet") \in BOOLEAN
      OBVIOUS
    <3>3. s \in Window
      BY <3>1, <3>2
    <3>4. Kept([v EXCEPT !.load = "run"], s) /\ s.chain = v.chain /\ s.load = "run"
      BY <2>1 DEF Same, Kept, Window
    <3>5. QED
      BY <3>3, <3>4
  <2>3. StartLoad(v, kind) = s
    BY <1>3 DEF StartLoad, b
  <2> HIDE DEF s
  <2>4. FullInv(s) /\ ChainInv(s)
    BY <2>2 DEF Kept, Window, FullInv, ChainInv, Carried, LoadTimers
  <2>5. QED
    BY <2>2, <2>3, <2>4 DEF Good
<1>4. QED
  BY <1>1, <1>2, <1>3

(***************************************************************************)
(* The steps of the user                                                   *)
(***************************************************************************)
LEMMA ClickFacts ==
  ASSUME w \in Window, MayClick
  PROVE  Same(w, Click(w)) /\ Same(w, ShowTab(Click(w)))
<1>1. Same(w, Click(w))
  BY InventoryAssumption DEF Click, MayClick, Window, Same, Kept
<1>2. Same(Click(w), ShowTab(Click(w)))
  BY <1>1, TabFacts DEF Same
<1>3. QED
  BY <1>1, <1>2, SameSteps

LEMMA GoodSame ==
  ASSUME NEW v, NEW s, Good(v), Same(v, s)
  PROVE  Good(s)
BY SameGood DEF Same

LEMMA LoadDevicesStep == ASSUME IInv, LoadDevices PROVE IInv'
<1> DEFINE v == ShowTab(Click(w))
<1>1. Good(v)
  BY ClickFacts, GoodSame DEF IInv, Good, LoadDevices
<1> HIDE DEF v
<1>2. ASSUME ~WorkflowBusy(v) PROVE Good(StartLoad(v, "forced"))
  <2>1. v.hw = "none" /\ v.load = "none"
    BY <1>2 DEF WorkflowBusy
  <2>2. v \in Window /\ FullInv(v) /\ ChainInv(v)
    BY <1>1 DEF Good
  <2>3. v.full => v.profile # 0 \/ (v.hw # "quit" /\ ~v.chain)
    BY <2>1, <2>2 DEF FullInv
  <2>4. v.chain => Carried(v) /\ (v.load = "quit" =>
                     v.timers["apply"] > 0 \/ v.timers["finish"] > 0)
    BY <2>2 DEF ChainInv
  <2>5. QED
    BY <2>2, <2>3, <2>4, StartLoadFacts DEF Loads
<1>3. w' = IF WorkflowBusy(v) THEN v ELSE StartLoad(v, "forced")
  BY DEF LoadDevices, v
<1>4. QED
  BY <1>1, <1>2, <1>3 DEF IInv

LEMMA BeginSearchStep == ASSUME IInv, BeginSearch PROVE IInv'
<1> DEFINE v == ShowTab(Click(w))
           s == [BeginBar(v) EXCEPT !.chain = TRUE]
<1>1. Good(v)
  BY ClickFacts, GoodSame DEF IInv, Good, BeginSearch
<1>2. PICK some \in BOOLEAN, changed \in BOOLEAN :
        w' = IF WorkflowBusy(v) \/ v.other = "catalog" \/ ~ListReady(v) THEN v
             ELSE IF NeedScan(v, changed) THEN StartScan(s, FALSE)
                                          ELSE FinishScan(s, some)
  BY DEF BeginSearch
<1> HIDE DEF v
<1>3. Same(v, BeginBar(v))
  BY <1>1, BarFacts DEF Good
<1>4. s \in Window /\ Kept(v, s) /\ s.chain
  BY <1>3 DEF Same, Kept, Window
<1> HIDE DEF s
<1>5. CASE WorkflowBusy(v) \/ v.other = "catalog" \/ ~ListReady(v)
  <2>1. w' = v
    BY <1>2, <1>5
  <2>2. QED
    BY <1>1, <2>1 DEF IInv
<1>6. CASE /\ ~(WorkflowBusy(v) \/ v.other = "catalog" \/ ~ListReady(v))
           /\ NeedScan(v, changed)
  <2> DEFINE u == StartScan(s, FALSE)
  <2>1. v.hw = "none" /\ v.load = "none" /\ (v.all \/ v.profile # 0)
    BY <1>6 DEF WorkflowBusy, ListReady
  <2>2. u \in Window /\ Kept([s EXCEPT !.hw = u.hw], u) /\ u.chain
        /\ u.hw = "run"
    BY <1>4, <2>1, StartScanFacts, ZenonT(60) DEF Kept
  <2>3. w' = u
    BY <1>2, <1>6
  <2> HIDE DEF u
  <2>4. Kept([v EXCEPT !.hw = "run"], u)
    BY <1>1, <1>4, <2>2 DEF Kept, Window, Good
  <2>5. FullInv(u) /\ ChainInv(u)
    BY <1>1, <2>1, <2>2, <2>4
       DEF Kept, Window, Good, FullInv, ChainInv, Carried, LoadTimers
  <2>6. QED
    BY <2>2, <2>3, <2>5 DEF Good, IInv
<1>7. CASE /\ ~(WorkflowBusy(v) \/ v.other = "catalog" \/ ~ListReady(v))
           /\ ~NeedScan(v, changed)
  <2> DEFINE u == FinishScan(s, some)
  <2>1. u \in Window /\ Kept(s, u) /\ ~u.chain
    BY <1>4, FinishScanFacts
  <2>2. w' = u
    BY <1>2, <1>7
  <2> HIDE DEF u
  <2>3. Kept(v, u)
    BY <1>4, <2>1 DEF Kept
  <2>4. QED
    BY <1>1, <2>1, <2>2, <2>3, SameGood DEF IInv
<1>8. QED
  BY <1>5, <1>6, <1>7

LEMMA TabSteps == ASSUME IInv, TabChange \/ FilterChange PROVE IInv'
<1>1. w \in Window
  BY DEF IInv, Good
<1>2. CASE TabChange
  <2>1. Same(w, Click(w)) /\ Same(w, ShowTab(Click(w)))
    BY <1>1, <1>2, ClickFacts DEF TabChange
  <2>2. Same(Click(w), [Click(w) EXCEPT !.tab = FALSE])
    BY <2>1, ZenonT(60) DEF Same, Kept, Window
  <2>3. Same(w, w')
    BY <1>2, <2>1, <2>2, SameSteps DEF TabChange
  <2>4. QED
    BY <2>3, GoodSame DEF IInv
<1>3. CASE FilterChange
  <2>1. Same(w, Click(w))
    BY <1>1, <1>3, ClickFacts DEF FilterChange
  <2>2. PICK thin \in BOOLEAN, size \in {"small", "big"} :
          w' = ApplyFilter(Click(w), thin, size)
    BY <1>3 DEF FilterChange
  <2>3. Same(Click(w), w')
    BY <2>1, <2>2, FilterFacts DEF Same
  <2>4. QED
    BY <2>1, <2>3, SameSteps, GoodSame DEF IInv
<1>4. QED
  BY <1>2, <1>3

LEMMA SettingSteps ==
  ASSUME IInv, SwitchToPortable \/ SavedAges PROVE IInv'
<1>1. w \in Window
  BY DEF IInv, Good
<1>2. CASE SwitchToPortable
  <2>1. Same(w, Click(w))
    BY <1>1, <1>2, ClickFacts DEF SwitchToPortable
  <2>2. ~w'.full /\ w' \in Window
    BY <1>2, <2>1, NoProfile, ZenonT(60) DEF SwitchToPortable, Same, Window
  <2>3. /\ w'.hw = w.hw /\ w'.load = w.load /\ w'.chain = w.chain
        /\ \A t \in {"loadForced", "loadQuiet", "apply", "finish", "ensure"} :
             w'.timers[t] = w.timers[t]
    BY <1>2, <2>1 DEF SwitchToPortable, Same, Kept, Window
  <2>4. w.full
    BY <1>2 DEF SwitchToPortable
  <2>5. QED
    BY <2>2, <2>3, <2>4 DEF IInv, Good, FullInv, ChainInv, Carried
<1>3. CASE SavedAges
  <2>1. Same(w, Click(w))
    BY <1>1, <1>3, ClickFacts DEF SavedAges
  <2>2. Same(Click(w), w')
    BY <1>3, <2>1 DEF SavedAges, Same, Kept, Window
  <2>3. QED
    BY <2>1, <2>2, SameSteps, GoodSame DEF IInv
<1>4. QED
  BY <1>2, <1>3

LEMMA TaskSteps ==
  ASSUME IInv, RunAnalysis \/ AnalysisAnswer \/ OtherBegins \/ OtherEnds
  PROVE  IInv'
<1>1. w \in Window
  BY DEF IInv, Good
<1>2. CASE RunAnalysis
  <2>1. Same(w, Click(w))
    BY <1>1, <1>2, ClickFacts DEF RunAnalysis
  <2>2. Same(Click(w), BeginBar(Click(w)))
    BY <2>1, BarFacts DEF Same
  <2>3. Same(BeginBar(Click(w)), w')
    <3>1. ASSUME NEW u \in Window
          PROVE  Same(u, [u EXCEPT !.analysis = TRUE, !.current = FALSE,
                                   !.queued = 0, !.timers["deferred"] = 0])
      <4> DEFINE f == [u.timers EXCEPT !["deferred"] = 0]
                 n == [u EXCEPT !.analysis = TRUE, !.current = FALSE,
                                !.queued = 0, !.timers = f]
      <4>1. /\ f \in [Timers -> Nat]
            /\ \A t \in Timers \ {"deferred"} : f[t] = u.timers[t]
        BY DEF Window
      <4> HIDE DEF f
      <4>2. n \in Window /\ n.timers = f /\ n.chain = u.chain
        <5>1. 0 \in 0..2
          OBVIOUS
        <5>2. n \in Window
          BY <4>1, <5>1 DEF Window
        <5>3. n.timers = f /\ n.chain = u.chain
          BY DEF Window
        <5>4. QED
          BY <5>2, <5>3
      <4>3. Kept(u, n)
        BY <4>1, <4>2 DEF Kept, Window, Timers
      <4>4. QED
        BY <4>2, <4>3 DEF Same, f
    <3>2. QED
      BY <1>2, <2>2, <3>1 DEF RunAnalysis, Same
  <2>4. Same(w, w')
    BY <2>1, <2>2, <2>3, SameSteps
  <2>5. QED
    BY <2>4, GoodSame DEF IInv
<1>3. CASE AnalysisAnswer
  <2> DEFINE a == [w EXCEPT !.analysis = FALSE]
             v == EndBar(a)
             c == [v EXCEPT !.crash = TRUE]
  <2>1. Same(w, a)
    BY <1>1 DEF Same, Kept, Window
  <2>2. Same(a, v)
    BY <2>1, BarFacts DEF Same
  <2>3. w' = After(c, "deferred") \/ w' = v
    BY <1>3 DEF AnalysisAnswer
  <2> HIDE DEF v
  <2>4. Same(v, c)
    BY <2>2 DEF Same, Kept, Window
  <2>5. Same(c, After(c, "deferred"))
    BY <2>4, TimerFacts DEF Same
  <2>6. Same(v, After(c, "deferred")) /\ Same(w, v)
    BY <2>1, <2>2, <2>4, <2>5, SameSteps
  <2>7. Same(w, w')
    BY <2>3, <2>6, SameSteps
  <2>8. QED
    BY <2>7, GoodSame DEF IInv
<1>4. CASE OtherBegins
  <2>1. Same(w, Click(w))
    BY <1>1, <1>4, ClickFacts DEF OtherBegins
  <2>2. Same(Click(w), BeginBar(Click(w)))
    BY <2>1, BarFacts DEF Same
  <2>3. PICK k \in {"plain", "catalog"} :
          w' = [BeginBar(Click(w)) EXCEPT !.other = k]
    BY <1>4 DEF OtherBegins
  <2>4. Same(BeginBar(Click(w)), w')
    BY <2>2, <2>3 DEF Same, Kept, Window
  <2>5. Same(w, w')
    BY <2>1, <2>2, <2>4, SameSteps
  <2>6. QED
    BY <2>5, GoodSame DEF IInv
<1>5. CASE OtherEnds
  <2> DEFINE a == [w EXCEPT !.other = "none"]
  <2>1. Same(w, a)
    BY <1>1 DEF Same, Kept, Window
  <2>2. Same(a, EndBar(a))
    BY <2>1, BarFacts DEF Same
  <2>3. Same(w, w')
    BY <1>5, <2>1, <2>2, SameSteps DEF OtherEnds
  <2>4. QED
    BY <2>3, GoodSame DEF IInv
<1>6. QED
  BY <1>2, <1>3, <1>4, <1>5

(***************************************************************************)
(* The answers of the workers, the ends of their threads and the timers    *)
(***************************************************************************)
LEMMA FreshProfile ==
  ASSUME NEW v \in Window
  PROVE  NewProfile(v).profile \in (Profiles \ {0}) \ Held(v)
<1>1. {1, 2, 3, 4} \subseteq Profiles \ {0}
  BY InventoryAssumption DEF Profiles
<1>2. \E p \in Profiles \ {0} : p \notin Held(v)
  BY <1>1 DEF Held
<1>3. (CHOOSE p \in Profiles \ {0} : p \notin Held(v)) \in (Profiles \ {0}) \ Held(v)
  BY <1>2, Zenon
<1>4. QED
  BY <1>3 DEF NewProfile, Window

LEMMA NewProfileFacts ==
  ASSUME NEW v \in Window
  PROVE  LET s == NewProfile(v)
         IN  /\ s \in Window /\ s.profile # 0
             /\ Kept([v EXCEPT !.profile = s.profile], s) /\ s.chain = v.chain
<1> DEFINE s == NewProfile(v)
<1>1. s \in Window /\ s.profile # 0
  BY FreshProfile DEF NewProfile, Window
<1>2. Kept([v EXCEPT !.profile = s.profile], s) /\ s.chain = v.chain
  BY DEF NewProfile, Kept, Window
<1>3. QED
  BY <1>1, <1>2

LEMMA TableSteps ==
  ASSUME IInv, BuildAnswer \/ TableStep \/ SearchAnswer
  PROVE  IInv'
<1>1. w \in Window
  BY DEF IInv, Good
<1>2. CASE BuildAnswer
  <2> DEFINE v == [w EXCEPT !.build = "quit"]
             idle == [v EXCEPT !.onReady = 0, !.pend = FALSE]
             call == [ready |-> w.onReady, again |-> w.pend]
             s == IF w.onReady # 0 THEN FinishUi(idle, w.onReady, "small") ELSE idle
             r == IF w.pend /\ w.profile # 0 THEN Refresh(s, w.onReady) ELSE s
             full == [idle EXCEPT !.cache = TRUE]
  <2>1. /\ Same(w, v) /\ Same(w, [v EXCEPT !.pend = FALSE])
        /\ Same(w, idle) /\ Same(w, full)
    <3>1. Same(w, v)
      BY <1>1 DEF Same, Kept, Window, Threads
    <3>2. ASSUME NEW u \in Window
          PROVE  /\ Same(u, [u EXCEPT !.pend = FALSE])
                 /\ Same(u, [u EXCEPT !.onReady = 0, !.pend = FALSE])
                 /\ Same(u, [u EXCEPT !.cache = TRUE])
      BY NoProfile, ZenonT(60) DEF Same, Kept, Window
    <3> HIDE DEF v
    <3>3. Same(v, [v EXCEPT !.pend = FALSE]) /\ Same(v, idle)
      BY <3>1, <3>2 DEF Same
    <3> HIDE DEF idle
    <3>4. Same(idle, full)
      BY <3>2, <3>3 DEF Same
    <3>5. QED
      BY <3>1, <3>3, <3>4, SameSteps
  <2>2. w.onReady \in Profiles /\ call \in Callback
    BY <1>1 DEF Window, Callback
  <2>3. \/ w' = v \/ w' = [v EXCEPT !.pend = FALSE]
        \/ w' = Refresh(idle, w.onReady) \/ w' = idle
        \/ \E size \in {"small", "big", "hidden"}, thin \in BOOLEAN, refill \in {"small", "big"} :
             w' = SyncTable(full, call, size, thin, refill)
        \/ w' = EndOwned(r)
    BY <1>2 DEF BuildAnswer
  <2> HIDE DEF v, idle, call, full
  <2>4. Same(w, Refresh(idle, w.onReady))
    BY <2>1, <2>2, RefreshFacts, SameSteps DEF Same
  <2>5. ASSUME NEW size, NEW thin, NEW refill PROVE Same(w, SyncTable(full, call, size, thin, refill))
    <3>1. Same(full, SyncTable(full, call, size, thin, refill))
      BY <2>1, <2>2, TableFacts DEF Same
    <3>2. QED
      BY <2>1, <3>1, SameSteps
  <2>6. Same(w, s)
    <3>1. Same(idle, FinishUi(idle, w.onReady, "small"))
      BY <2>1, <2>2, FinishUiFacts DEF Same
    <3>2. QED
      BY <2>1, <3>1, SameSteps
  <2> HIDE DEF s
  <2>7. Same(w, r)
    <3>1. Same(s, Refresh(s, w.onReady))
      BY <2>2, <2>6, RefreshFacts DEF Same
    <3>2. QED
      BY <2>6, <3>1, SameSteps
  <2> HIDE DEF r
  <2>8. Same(w, EndOwned(r))
    <3>1. Same(r, EndOwned(r))
      BY <2>7, BarFacts DEF Same
    <3>2. QED
      BY <2>7, <3>1, SameSteps
  <2>9. Same(w, w')
    <3>1. CASE \E size \in {"small", "big", "hidden"}, thin \in BOOLEAN, refill \in {"small", "big"} :
                 w' = SyncTable(full, call, size, thin, refill)
      BY <2>5, <3>1
    <3>2. QED
      BY <2>1, <2>3, <2>4, <2>8, <3>1
  <2>10. QED
    BY <2>9, GoodSame DEF IInv
<1>3. CASE TableStep
  <2> DEFINE a == [w EXCEPT !.sync = FALSE, !.syncCall = NoCall]
  <2>1. Same(w, a) /\ w.syncCall \in Callback
    BY <1>1, NoProfile DEF Same, Kept, Window
  <2>2. PICK thin \in BOOLEAN, refill \in {"small", "big"} :
          w' = IF w.tab THEN FinishTable(w, w.syncCall, "small", thin, refill)
               ELSE [FlushFilter(a, thin, refill) EXCEPT !.stale = TRUE]
    BY <1>3 DEF TableStep
  <2> HIDE DEF a
  <2>3. Same(w, FinishTable(w, w.syncCall, "small", thin, refill))
    BY <1>1, <2>1, TableFacts
  <2>4. Same(a, FlushFilter(a, thin, refill))
    BY <2>1, FilterFacts DEF Same
  <2>5. Same(FlushFilter(a, thin, refill), [FlushFilter(a, thin, refill) EXCEPT !.stale = TRUE])
    BY <2>4 DEF Same, Kept, Window
  <2>6. Same(w, [FlushFilter(a, thin, refill) EXCEPT !.stale = TRUE])
    <3>1. Same(w, FlushFilter(a, thin, refill))
      BY <2>1, <2>4, SameSteps
    <3>2. QED
      BY <2>5, <3>1, SameSteps
  <2>7. QED
    BY <2>2, <2>3, <2>6, GoodSame DEF IInv
<1>4. CASE SearchAnswer
  <2> DEFINE a == [w EXCEPT !.search = "quit"]
  <2>1. Same(w, a)
    BY <1>1 DEF Same, Kept, Window, Threads
  <2>2. Same(a, EndBar(a))
    BY <2>1, BarFacts DEF Same
  <2>3. Same(w, w')
    BY <1>4, <2>1, <2>2, SameSteps DEF SearchAnswer
  <2>4. QED
    BY <2>3, GoodSame DEF IInv
<1>5. QED
  BY <1>2, <1>3, <1>4

LEMMA ThreadEndsStep == ASSUME IInv, ThreadEnds PROVE IInv'
<1>1. w \in Window /\ FullInv(w) /\ ChainInv(w)
  BY DEF IInv, Good
<1>2. CASE w.hw = "quit" /\ w' = [w EXCEPT !.hw = "none"]
  <2>1. w' \in Window /\ Kept([w EXCEPT !.hw = "none"], w') /\ w'.chain = w.chain
    BY <1>1, <1>2 DEF Window, Kept, Threads
  <2>2. FullInv(w') /\ ChainInv(w')
    BY <1>1, <1>2, <2>1
       DEF Window, Kept, FullInv, ChainInv, Carried, LoadTimers
  <2>3. QED
    BY <2>1, <2>2 DEF IInv, Good
<1>3. CASE w.load = "quit" /\ w' = [w EXCEPT !.load = "none"]
  <2>1. w' \in Window /\ Kept([w EXCEPT !.load = "none"], w') /\ w'.chain = w.chain
    BY <1>1, <1>3 DEF Window, Kept, Threads
  <2>2. FullInv(w') /\ ChainInv(w')
    BY <1>1, <1>3, <2>1
       DEF Window, Kept, FullInv, ChainInv, Carried, LoadTimers
  <2>3. QED
    BY <2>1, <2>2 DEF IInv, Good
<1>4. CASE w.build = "quit" /\ w' = [w EXCEPT !.build = "none"]
  <2>1. Same(w, w')
    BY <1>1, <1>4 DEF Same, Kept, Window, Threads
  <2>2. QED
    BY <2>1, GoodSame DEF IInv
<1>5. CASE /\ w.search = "quit"
           /\ LET v == [w EXCEPT !.search = "none"]
              IN  w' = IF w.queued = 0 THEN v
                       ELSE StartSearch([v EXCEPT !.queued = @ - 1])
  <2> DEFINE v == [w EXCEPT !.search = "none"]
             u == [v EXCEPT !.queued = @ - 1]
  <2>1. Same(w, v)
    BY <1>1 DEF Same, Kept, Window, Threads
  <2>2. ASSUME w.queued # 0 PROVE Same(v, u) /\ Same(u, StartSearch(u))
    <3>1. v.queued \in (0..2) \ {0}
      BY <1>1, <2>2 DEF Window
    <3>2. v.queued - 1 \in 0..2
      BY <3>1
    <3>3. v \in Window
      BY <2>1 DEF Same
    <3> HIDE DEF v
    <3>4. Same(v, u)
      BY <3>2, <3>3 DEF Same, Kept, Window
    <3>5. QED
      BY <3>4, SearchFacts DEF Same
  <2>3. w' = v \/ (w.queued # 0 /\ w' = StartSearch(u))
    BY <1>5
  <2> HIDE DEF u, v
  <2>4. Same(w, w')
    BY <2>1, <2>2, <2>3, SameSteps
  <2>5. QED
    BY <2>4, GoodSame DEF IInv
<1>6. QED
  BY <1>2, <1>3, <1>4, <1>5 DEF ThreadEnds

LEMMA ScanAnswerStep == ASSUME IInv, ScanAnswer PROVE IInv'
<1>1. w \in Window /\ FullInv(w) /\ ChainInv(w)
  BY DEF IInv, Good
<1> DEFINE merged == w.full /\ w.saved = "list"
           a == IF w.chain THEN w ELSE EndBar(w)
           b == IF merged THEN [a EXCEPT !.rows = TRUE, !.all = TRUE] ELSE a
           q == [b EXCEPT !.hw = "quit"]
           n == NewProfile(q)
           c == Populate(n)
           d == CASE w.pendLoad = "none" -> c
                  [] w.pendLoad = "quiet" ->
                       After([c EXCEPT !.pendLoad = "none"], "loadQuiet")
                  [] OTHER ->
                       After([c EXCEPT !.pendLoad = "none"], "loadForced")
           e == IF w.full THEN SaveLater(d) ELSE d
           f == [w EXCEPT !.hw = "quit"]
\* What b, q, n and c have of w.
<1> DEFINE Part(s) ==
      /\ s \in Window /\ s.load = w.load /\ s.full = w.full /\ s.chain = w.chain
      /\ \A t \in {"apply", "finish"} : s.timers[t] = w.timers[t]
<1>2. ASSUME NEW s, NEW u, Part(s), Same(s, u) PROVE Part(u)
  BY <1>2 DEF Same, Kept
<1>3. Part(a) /\ a.pendLoad = w.pendLoad
  BY <1>1, BarFacts DEF Same, Kept
<1> HIDE DEF a
<1>4. Part(b) /\ b.pendLoad = w.pendLoad
  <2>1. LET x == [a EXCEPT !.rows = TRUE, !.all = TRUE]
        IN  Part(x) /\ x.pendLoad = w.pendLoad
    BY <1>3 DEF Window
  <2> HIDE DEF merged
  <2>2. QED
    BY <1>3, <2>1
<1> HIDE DEF b
<1>5. Part(q) /\ q.pendLoad = w.pendLoad /\ q.hw = "quit"
  BY <1>4 DEF Window, Threads
<1> HIDE DEF q
<1>6. Part(n) /\ n.pendLoad = w.pendLoad /\ n.hw = "quit" /\ n.profile # 0
  <2>1. /\ n \in Window /\ n.profile # 0
        /\ Kept([q EXCEPT !.profile = n.profile], n) /\ n.chain = q.chain
    BY <1>5, NewProfileFacts
  <2> HIDE DEF n
  <2>2. QED
    BY <1>5, <2>1 DEF Kept, Window
<1> HIDE DEF n
<1>7. Part(c) /\ c.pendLoad = w.pendLoad /\ c.hw = "quit" /\ c.profile # 0
  <2>1. Same(n, c)
    BY <1>6, PopulateFacts
  <2> HIDE DEF c
  <2>2. QED
    BY <1>2, <1>6, <2>1 DEF Same, Kept
<1> HIDE DEF c
<1>8. /\ Part(d) /\ d.pendLoad = "none" /\ d.hw = "quit" /\ d.profile # 0
      /\ w.pendLoad # "none" => LoadTimers(d)
  <2>1. ASSUME NEW t \in {"loadQuiet", "loadForced"}
        PROVE  LET u == After([c EXCEPT !.pendLoad = "none"], t)
               IN  /\ Part(u) /\ u.pendLoad = "none" /\ u.hw = "quit"
                   /\ u.profile # 0 /\ LoadTimers(u)
    <3> DEFINE x == [c EXCEPT !.pendLoad = "none"]
    <3>1. Part(x) /\ x.pendLoad = "none" /\ x.hw = "quit" /\ x.profile # 0
      BY <1>7 DEF Window, Loads
    <3> HIDE DEF x
    <3>2. After(x, t) \in Window /\ LoadTimers(After(x, t))
      BY <3>1 DEF After, LoadTimers, Window, Timers
    <3>3. Part(After(x, t)) /\ After(x, t).pendLoad = "none"
          /\ After(x, t).hw = "quit" /\ After(x, t).profile # 0
      BY <3>1, <3>2 DEF After, Window, Timers
    <3>4. QED
      BY <3>2, <3>3 DEF x
  <2>2. QED
    BY <1>7, <2>1
<1> HIDE DEF d
<1>9. /\ Part(e) /\ e.pendLoad = "none" /\ e.hw = "quit" /\ e.profile # 0
      /\ w.pendLoad # "none" => LoadTimers(e)
  <2>1. Same(d, SaveLater(d))
    BY <1>8, TimerFacts
  <2>2. QED
    BY <1>2, <1>8, <2>1 DEF Same, Kept, LoadTimers
<1> HIDE DEF e
<1>10. FullInv(e)
  BY <1>9 DEF FullInv
<1>11. e.chain /\ e.load = "quit" => e.timers["apply"] > 0 \/ e.timers["finish"] > 0
  BY <1>1, <1>9 DEF ChainInv
<1>12. CASE w' = CancelChain(EndBar(f))
  <2>1. f \in Window /\ Kept([w EXCEPT !.hw = "quit"], f)
    BY <1>1 DEF Window, Kept, Threads
  <2>2. Same(f, EndBar(f))
    BY <2>1, BarFacts
  <2>3. EndBar(f).full =>
          /\ LoadTimers(EndBar(f)) \/ EndBar(f).timers["ensure"] > 0
               => EndBar(f).profile # 0
          /\ EndBar(f).all => EndBar(f).profile # 0
    <3> HIDE DEF f
    <3>1. FullInv(w) /\ f.full = w.full /\ f.profile = w.profile
          /\ f.all = w.all /\ f.timers = w.timers
      BY <1>1 DEF f, Window
    <3>2. QED
      BY <2>2, <3>1 DEF Same, Kept, FullInv, LoadTimers
  <2>4. QED
    BY <1>12, <2>2, <2>3, CancelFacts DEF Same, IInv
<1>13. CASE \E some \in BOOLEAN :
              w' = CASE w.pendLoad # "none" -> e
                     [] w.pendLoad = "none" /\ ~merged /\ AutoLoad ->
                          StartLoad(e, "plain")
                     [] OTHER -> IF w.chain THEN FinishScan(e, some) ELSE e
  <2>1. PICK some \in BOOLEAN :
          \/ w.pendLoad # "none" /\ w' = e
          \/ w' = StartLoad(e, "plain")
          \/ w.chain /\ w' = FinishScan(e, some)
          \/ ~w.chain /\ w' = e
    BY <1>13
  <2>2. CASE w.pendLoad # "none" /\ w' = e
    <3>1. w.full => ~w.chain
      BY <1>1, <2>2 DEF FullInv
    <3>2. ChainInv(e)
      BY <1>9, <1>11, <2>2, <3>1 DEF ChainInv, Carried
    <3>3. QED
      BY <1>9, <1>10, <2>2, <3>2 DEF IInv, Good
  <2>3. CASE w' = StartLoad(e, "plain")
    BY <1>9, <1>10, <1>11, <2>3, StartLoadFacts DEF IInv
  <2>4. CASE w' = FinishScan(e, some)
    BY <1>9, <1>10, <2>4, FinishScanFacts, EndsChain DEF IInv
  <2>5. CASE ~w.chain /\ w' = e
    BY <1>9, <1>10, <2>5 DEF IInv, Good, ChainInv
  <2>6. QED
    BY <2>1, <2>2, <2>3, <2>4, <2>5
<1>14. QED
  BY <1>12, <1>13 DEF ScanAnswer, e, d, c, n, q, b, a

LEMMA LoadAnswerStep == ASSUME IInv, LoadAnswer PROVE IInv'
<1>1. w \in Window /\ FullInv(w)
  BY DEF IInv, Good
<1> DEFINE v == [w EXCEPT !.load = "quit", !.quiet = FALSE]
           ok == [v EXCEPT !.applyQuiet = w.quiet]
<1>2. \/ w' = After(ok, "apply") \/ w' = After(EndBar(ok), "apply")
      \/ w' = CancelChain(v) \/ w' = CancelChain(EndBar(v))
  BY DEF LoadAnswer
<1>3. v \in Window /\ FullInv(v)
  <2>1. v \in Window
    BY <1>1 DEF Window, Threads
  <2>2. v.full = w.full /\ v.profile = w.profile /\ v.all = w.all
        /\ v.timers = w.timers /\ v.hw = w.hw /\ v.pendLoad = w.pendLoad
        /\ v.chain = w.chain
    BY <1>1 DEF Window
  <2>3. QED
    BY <1>1, <2>1, <2>2 DEF FullInv, LoadTimers
<1> HIDE DEF v
<1>4. Same(v, ok)
  BY <1>1, <1>3 DEF Window, Same, Kept
<1> HIDE DEF ok
<1>5. Same(v, EndBar(v)) /\ Same(ok, EndBar(ok))
  BY <1>3, <1>4, BarFacts DEF Same
<1>6. ASSUME NEW s, s \in Window, Kept(v, s), s.chain = v.chain
      PROVE  Good(After(s, "apply")) /\ Good(CancelChain(s))
  <2>1. FullInv(s)
    BY <1>3, <1>6 DEF FullInv, Kept, LoadTimers
  <2>2. Good(CancelChain(s))
    BY <1>6, <2>1, CancelFacts DEF FullInv
  <2>3. After(s, "apply") \in Window
    BY <1>6, TimerFacts DEF Timers
  <2>4. FullInv(After(s, "apply")) /\ ChainInv(After(s, "apply"))
    BY <1>6, <2>1
       DEF After, FullInv, ChainInv, Carried, LoadTimers, Window, Timers
  <2>5. QED
    BY <2>2, <2>3, <2>4 DEF Good
<1>7. /\ Same(v, v) /\ Same(v, EndBar(ok))
  BY <1>3, <1>4, <1>5, SameSteps DEF Same, Kept
<1>8. QED
  BY <1>2, <1>4, <1>5, <1>6, <1>7 DEF Same, IInv

LEMMA FiredFacts ==
  ASSUME NEW v \in Window, NEW t \in Timers, v.timers[t] > 0
  PROVE  LET s == Fired(v, t)
         IN  /\ s \in Window /\ s.chain = v.chain /\ s.hw = v.hw
             /\ s.load = v.load /\ s.pendLoad = v.pendLoad
             /\ s.profile = v.profile /\ s.full = v.full /\ s.all = v.all
             /\ s.timers[t] = v.timers[t] - 1
             /\ \A x \in Timers \ {t} : s.timers[x] = v.timers[x]
             /\ \A x \in Timers : v.timers[x] \in Nat
<1> DEFINE f == [v.timers EXCEPT ![t] = @ - 1]
<1>1. f \in [Timers -> Nat] /\ f[t] = v.timers[t] - 1
      /\ \A x \in Timers \ {t} : f[x] = v.timers[x]
  BY DEF Window
<1> HIDE DEF f
<1>2. Fired(v, t) = [v EXCEPT !.timers = f]
  BY DEF Fired, Window, f
<1>3. QED
  BY <1>1, <1>2 DEF Window

LEMMA ApplyRowsFacts ==
  ASSUME NEW v \in Window, FullInv(v), NEW got
  PROVE  Good(ApplyRows(v, got))
<1> DEFINE a == IF got /\ v.profile # 0
                  THEN [v EXCEPT !.rows = TRUE, !.all = TRUE] ELSE v
           b == [a EXCEPT !.stale = TRUE, !.ready = TRUE]
           c == IF v.tab THEN After(b, "populate") ELSE b
           d == IF got /\ v.profile # 0 /\ v.full /\ ~v.applyQuiet
                  THEN SaveLater(c) ELSE c
<1>1. a \in Window /\ FullInv(a) /\ a.chain = v.chain
  <2>1. LET x == [v EXCEPT !.rows = TRUE, !.all = TRUE]
        IN  /\ x \in Window /\ x.chain = v.chain
            /\ v.profile # 0 => FullInv(x)
    BY DEF Window, FullInv, LoadTimers
  <2>2. QED
    BY <2>1
<1> HIDE DEF a
<1>2. Same(a, b)
  BY <1>1 DEF Same, Kept, Window
<1> HIDE DEF b
<1>3. Same(a, c)
  <2>1. Same(b, After(b, "populate"))
    BY <1>2, TimerFacts DEF Same
  <2>2. QED
    BY <1>2, <2>1, SameSteps
<1> HIDE DEF c
<1>4. Same(a, d)
  <2>1. Same(c, SaveLater(c))
    BY <1>3, TimerFacts DEF Same
  <2>2. QED
    BY <1>3, <2>1, SameSteps
<1> HIDE DEF d
<1>5. FullInv(d) /\ d \in Window /\ d.chain = v.chain
  BY <1>1, <1>4 DEF Same, Kept, FullInv, LoadTimers
<1>6. Good(IF v.chain THEN After(d, "finish") ELSE d)
  <2>1. After(d, "finish") \in Window
    BY <1>5, TimerFacts DEF Timers
  <2>2. FullInv(After(d, "finish")) /\ ChainInv(After(d, "finish"))
    BY <1>5 DEF After, FullInv, ChainInv, Carried, LoadTimers, Window, Timers
  <2>3. QED
    BY <1>5, <2>1, <2>2 DEF Good, ChainInv
<1>7. QED
  BY <1>6 DEF ApplyRows, d, c, b, a

LEMMA EnsureFacts ==
  ASSUME NEW v, Good(v), v.full => v.profile # 0
  PROVE  Good(EnsureFull(v))
<1> DEFINE x == [v EXCEPT !.all = TRUE, !.rows = TRUE, !.stale = TRUE]
<1>1. v \in Window /\ FullInv(v) /\ ChainInv(v)
  BY DEF Good
<1>2. v.profile # 0 => Good(x)
  BY <1>1 DEF Window, Good, FullInv, ChainInv, Carried, LoadTimers
<1>3. Good(StartLoad(v, "quiet"))
  BY <1>1, StartLoadFacts DEF Loads, ChainInv
<1>4. EnsureFull(v) = v \/ (v.profile # 0 /\ EnsureFull(v) = x)
      \/ EnsureFull(v) = StartLoad(v, "quiet")
  BY DEF EnsureFull
<1>5. QED
  BY <1>2, <1>3, <1>4

LEMMA DeferredFacts ==
  ASSUME NEW v, Good(v), NEW full \in BOOLEAN
  PROVE  Good(Deferred(v, full))
<1> DEFINE a == NewProfile(v)
           b == IF full THEN [a EXCEPT !.rows = TRUE, !.all = TRUE] ELSE a
           c == [b EXCEPT !.ready = TRUE, !.stale = TRUE]
           d == IF v.tab THEN After(c, "populate") ELSE c
           e == CASE c.all /\ v.tab -> After(d, "populate")
                  [] ~c.all /\ AutoLoad -> After(d, "ensure")
                  [] OTHER -> d
           g == [Populate(e) EXCEPT !.stale = FALSE]
\* A good window with a profile is what each of the steps leaves.
<1> DEFINE Fine(s) == Good(s) /\ s.profile # 0
<1>1. ASSUME NEW s, NEW u, Fine(s), Same(s, u) PROVE Fine(u)
  BY <1>1, GoodSame DEF Same, Kept
<1>2. Fine(a)
  <2>1. /\ a \in Window /\ a.profile # 0
        /\ Kept([v EXCEPT !.profile = a.profile], a) /\ a.chain = v.chain
    BY NewProfileFacts DEF Good
  <2> HIDE DEF a
  <2>2. FullInv(a) /\ ChainInv(a)
    BY <2>1 DEF Good, Kept, Window, FullInv, ChainInv, Carried, LoadTimers
  <2>3. QED
    BY <2>1, <2>2 DEF Good
<1> HIDE DEF a
<1>3. Fine(b)
  <2>1. Fine([a EXCEPT !.rows = TRUE, !.all = TRUE])
    BY <1>2 DEF Good, Window, FullInv, ChainInv, Carried, LoadTimers
  <2>2. QED
    BY <1>2, <2>1
<1> HIDE DEF b
<1>4. Fine(c)
  <2>1. Same(b, c)
    BY <1>3 DEF Good, Same, Kept, Window
  <2>2. QED
    BY <1>1, <1>3, <2>1
<1> HIDE DEF c
<1>5. ASSUME NEW s, Fine(s)
      PROVE  Fine(After(s, "populate")) /\ Fine(After(s, "ensure"))
  <2>1. Same(s, After(s, "populate"))
    BY <1>5, TimerFacts DEF Good
  <2>2. After(s, "ensure") \in Window
    BY <1>5, TimerFacts DEF Good, Timers
  <2>3. FullInv(After(s, "ensure")) /\ ChainInv(After(s, "ensure"))
        /\ After(s, "ensure").profile # 0
    BY <1>5 DEF Good, After, FullInv, ChainInv, Carried, LoadTimers, Window, Timers
  <2>4. QED
    BY <1>1, <1>5, <2>1, <2>2, <2>3 DEF Good
<1>6. Fine(d)
  BY <1>4, <1>5
<1> HIDE DEF d
<1>7. Fine(e)
  BY <1>5, <1>6
<1> HIDE DEF e
<1>8. Fine(g)
  <2>1. Same(e, Populate(e))
    BY <1>7, PopulateFacts DEF Good
  <2>2. Same(Populate(e), g)
    BY <2>1 DEF Same, Kept, Window
  <2>3. QED
    BY <1>1, <1>7, <2>1, <2>2
<1>9. Deferred(v, full) = IF v.tab THEN g ELSE e
  BY DEF Deferred, e, d, c, b, a
<1>10. QED
  BY <1>7, <1>8, <1>9

LEMMA TimerStep == ASSUME IInv, TimerFires PROVE IInv'
<1>1. w \in Window /\ FullInv(w) /\ ChainInv(w)
  BY DEF IInv, Good
<1>2. PICK t \in Timers :
        /\ w.timers[t] > 0
        /\ LET v == Fired(w, t) IN
           CASE t = "loadForced" -> w' = StartLoad(v, "forced")
             [] t = "loadQuiet"  -> w' = StartLoad(v, "quiet")
             [] t = "apply"      -> \E got \in BOOLEAN : w' = ApplyRows(v, got)
             [] t = "finish"     -> \E some \in BOOLEAN : w' = FinishScan(v, some)
             [] t = "continue"   -> \E some \in BOOLEAN : w' = ContinueSearch(v, some)
             [] t = "populate"   -> w' = Populate(v)
             [] t = "ensure"     -> w' = EnsureFull(v)
             [] t = "deferred"   -> \E full \in BOOLEAN : w' = Deferred(v, full)
             [] OTHER -> w' = [v EXCEPT !.saved = IF ~v.full THEN @
                                 ELSE IF v.rows THEN "list" ELSE "slim"]
  BY DEF TimerFires
<1> DEFINE v == Fired(w, t)
<1>3. /\ v \in Window /\ v.chain = w.chain /\ v.hw = w.hw
      /\ v.load = w.load /\ v.pendLoad = w.pendLoad
      /\ v.profile = w.profile /\ v.full = w.full /\ v.all = w.all
      /\ v.timers[t] = w.timers[t] - 1
      /\ \A x \in Timers \ {t} : v.timers[x] = w.timers[x]
      /\ \A x \in Timers : w.timers[x] \in Nat
  BY <1>1, <1>2, FiredFacts
<1> HIDE DEF v
<1>4. FullInv(v)
  BY <1>1, <1>2, <1>3 DEF FullInv, LoadTimers, Timers
<1>5. CASE t \in {"loadForced", "loadQuiet"}
  <2>1. v.full => v.profile # 0
    BY <1>1, <1>2, <1>3, <1>5 DEF FullInv, LoadTimers
  <2>2. v.chain => Carried(v) \/ v.profile # 0
    BY <1>1, <1>3, <1>5 DEF ChainInv, Carried, LoadTimers, Timers
  <2>3. v.chain /\ v.load = "quit"
          => v.timers["apply"] > 0 \/ v.timers["finish"] > 0
    BY <1>1, <1>3, <1>5 DEF ChainInv, Timers
  <2>4. PICK kind \in {"forced", "quiet"} : w' = StartLoad(v, kind)
    BY <1>2, <1>5 DEF v
  <2>5. QED
    BY <1>3, <1>4, <2>1, <2>2, <2>3, <2>4, StartLoadFacts DEF Loads, IInv
<1>6. CASE t = "apply"
  <2>1. PICK got \in BOOLEAN : w' = ApplyRows(v, got)
    BY <1>2, <1>6 DEF v
  <2>2. QED
    BY <1>3, <1>4, <2>1, ApplyRowsFacts DEF IInv
<1>7. CASE t = "finish"
  <2>1. PICK some \in BOOLEAN : w' = FinishScan(v, some)
    BY <1>2, <1>7 DEF v
  <2>2. QED
    BY <1>3, <1>4, <2>1, FinishScanFacts, EndsChain DEF IInv
<1>8. CASE t \in {"continue", "populate", "ensure", "deferred", "save"}
  <2>1. Good(v)
    BY <1>1, <1>3, <1>4, <1>8 DEF Good, ChainInv, Carried, LoadTimers, Timers
  <2>2. CASE t = "continue"
    <3>1. PICK some \in BOOLEAN : w' = ContinueSearch(v, some)
      BY <1>2, <2>2 DEF v
    <3>2. QED
      BY <1>3, <2>1, <3>1, SearchFacts, GoodSame DEF IInv
  <2>3. CASE t = "populate"
    <3>1. w' = Populate(v)
      BY <1>2, <2>3 DEF v
    <3>2. QED
      BY <1>3, <2>1, <3>1, PopulateFacts, GoodSame DEF IInv
  <2>4. CASE t = "ensure"
    <3>1. w' = EnsureFull(v)
      BY <1>2, <2>4 DEF v
    <3>2. v.full => v.profile # 0
      BY <1>1, <1>2, <1>3, <2>4 DEF FullInv
    <3>3. QED
      BY <2>1, <3>1, <3>2, EnsureFacts DEF IInv
  <2>5. CASE t = "deferred"
    <3>1. PICK full \in BOOLEAN : w' = Deferred(v, full)
      BY <1>2, <2>5 DEF v
    <3>2. QED
      BY <2>1, <3>1, DeferredFacts DEF IInv
  <2>6. CASE t = "save"
    <3>1. PICK x \in {v.saved, "list", "slim"} : w' = [v EXCEPT !.saved = x]
      BY <1>2, <2>6 DEF v
    <3>2. Same(v, w')
      BY <1>3, <3>1 DEF Same, Kept, Window
    <3>3. QED
      BY <2>1, <3>2, GoodSame DEF IInv
  <2>7. QED
    BY <1>8, <2>2, <2>3, <2>4, <2>5, <2>6
<1>9. QED
  BY <1>5, <1>6, <1>7, <1>8 DEF Timers

(***************************************************************************)
(* The theorems                                                            *)
(***************************************************************************)
LEMMA Initially == Init => IInv
<1> SUFFICES ASSUME Init PROVE IInv
  OBVIOUS
<1>1. Fresh \in Window
  BY InventoryAssumption, NoProfile DEF Fresh, Window, Threads, Loads, Profiles
<1>2. 1 \in Profiles
  BY InventoryAssumption DEF Profiles
<1>3. Good(Fresh)
  BY <1>1 DEF Fresh, Good, FullInv, ChainInv
<1>4. /\ Fresh.chain = FALSE /\ Fresh.pendLoad = "none" /\ Fresh.all = FALSE
      /\ Fresh.timers = [t \in Timers |-> 0]
  BY DEF Fresh
<1> HIDE DEF Fresh
<1> DEFINE Idle(u) == /\ u.chain = FALSE /\ u.pendLoad = "none"
                      /\ u.all => u.profile # 0
                      /\ u.timers = [t \in Timers |-> 0]
<1>5a. ASSUME NEW u \in Window, Idle(u) PROVE Good(u)
  <2>1. \A t \in Timers : u.timers[t] = 0
    BY <1>5a
  <2>2. QED
    BY <1>5a, <2>1 DEF Good, FullInv, ChainInv, LoadTimers, Timers
<1>5. Good([Fresh EXCEPT !.full = TRUE])
  <2>1. [Fresh EXCEPT !.full = TRUE] \in Window
    BY <1>1 DEF Window
  <2>2. Idle([Fresh EXCEPT !.full = TRUE])
    BY <1>1, <1>4 DEF Window
  <2>3. QED
    BY <1>5a, <2>1, <2>2
<1>6. Good([Fresh EXCEPT !.full = TRUE, !.saved = "slim", !.profile = 1])
  <2> DEFINE u == [Fresh EXCEPT !.full = TRUE, !.saved = "slim", !.profile = 1]
  <2>1. u \in Window
    BY <1>1, <1>2 DEF Window
  <2>2. Idle(u)
    BY <1>1, <1>4 DEF Window
  <2>3. QED
    BY <1>5a, <2>1, <2>2
<1>7. ASSUME NEW x \in {"old", "list"}
      PROVE  Good([Fresh EXCEPT !.full = TRUE, !.saved = x, !.profile = 1,
                                !.all = TRUE, !.ready = TRUE, !.rows = TRUE])
  <2> DEFINE u == [Fresh EXCEPT !.full = TRUE, !.saved = x, !.profile = 1,
                                !.all = TRUE, !.ready = TRUE, !.rows = TRUE]
  <2>1. u \in Window
    BY <1>1, <1>2 DEF Window
  <2>2. Idle(u)
    BY <1>1, <1>4 DEF Window
  <2>3. QED
    BY <1>5a, <2>1, <2>2
<1>8. PICK s \in {"portable", "none", "old", "slim", "list"} :
        w = CASE s = "portable" -> Fresh
              [] s = "none" -> [Fresh EXCEPT !.full = TRUE]
              [] s = "slim" -> [Fresh EXCEPT !.full = TRUE, !.saved = s, !.profile = 1]
              [] OTHER -> [Fresh EXCEPT !.full = TRUE, !.saved = s, !.profile = 1,
                                        !.all = TRUE, !.ready = TRUE, !.rows = TRUE]
  BY InventoryAssumption DEF Init
<1>9. QED
  BY <1>3, <1>5, <1>6, <1>7, <1>8 DEF IInv

LEMMA Step == IInv /\ [Next]_w => IInv'
<1> SUFFICES ASSUME IInv, [Next]_w PROVE IInv'
  OBVIOUS
<1>1. CASE UNCHANGED w
  BY <1>1 DEF IInv
<1>2. CASE UserStep
  BY <1>2, LoadDevicesStep, BeginSearchStep, TabSteps, SettingSteps, TaskSteps
     DEF UserStep
<1>3. CASE ProgramStep
  BY <1>3, ScanAnswerStep, LoadAnswerStep, TableSteps, TaskSteps,
     ThreadEndsStep, TimerStep DEF ProgramStep
<1>4. QED
  BY <1>1, <1>2, <1>3 DEF Next

LEMMA Inductive == Spec => []IInv
BY Initially, Step, PTL DEF Spec

\* The types, for every number of clicks and of profile objects and whatever is
\* found at the start; among them that the nesting depth of the progress bar
\* never falls below zero (gui_mixin_task_progress.py:328).
THEOREM TypeCorrect == Spec => []TypeOK
<1>1. IInv => TypeOK
  BY DEF IInv, Good, TypeOK
<1>2. QED
  BY <1>1, Inductive, PTL

\* A driver search that waits for the scan or the device list always has a worker
\* or a timer that will go on with it or cancel it, whatever the user clicks and
\* in whichever order answers and timers come.
THEOREM WaitingChainIsAttended == Spec => []ChainAttended
<1>1. IInv => ChainAttended
  BY DEF IInv, Good, ChainInv, ChainAttended, Carried, LoadTimers
<1>2. QED
  BY <1>1, Inductive, PTL

(***************************************************************************)
(* The fill of the table that is to finish the tab: what every handler but *)
(* those of the table itself leaves alone                                  *)
(***************************************************************************)
\* A build that answers while a fill is to finish the tab for the window's profile
\* will finish it for that profile too.
FillInv(v) ==
  v.sync /\ v.profile # 0 /\ v.syncCall.ready = v.profile /\ v.build = "run"
    => v.onReady = v.profile

\* From v to s the fill under way stays what it is.
Filling(v, s) == s.sync = v.sync /\ s.syncCall = v.syncCall /\ (FillInv(v) => FillInv(s))

\* Neither it nor the type of the window is disturbed.
Tame(v, s) == s \in Window /\ Filling(v, s)

LEMMA FillingSteps ==
  ASSUME NEW v, NEW s, NEW u, Filling(v, s), Filling(s, u)
  PROVE  Filling(v, u)
BY DEF Filling

LEMMA TameSteps ==
  ASSUME NEW v, NEW s, NEW u, Tame(v, s), Tame(s, u)
  PROVE  Tame(v, u)
BY DEF Tame, Filling

\* So is what Filling speaks of, but that a build may have ended.
Steady(v, s) ==
  /\ s.sync = v.sync /\ s.syncCall = v.syncCall /\ s.profile = v.profile
  /\ s.onReady = v.onReady /\ (s.build = "run" => v.build = "run")

LEMMA SteadyFilling ==
  ASSUME NEW v, NEW s, Steady(v, s)
  PROVE  Filling(v, s)
BY DEF Steady, Filling, FillInv

LEMMA TameUpdate ==
  ASSUME NEW v, NEW s \in Window, Steady(v, s)
  PROVE  Tame(v, s)
BY SteadyFilling DEF Tame

LEMMA TameBar ==
  ASSUME NEW v \in Window
  PROVE  Tame(v, BeginBar(v)) /\ Tame(v, EndBar(v)) /\ Tame(v, HoldBar(v)) /\ Tame(v, EndOwned(v))
<1>1. ASSUME NEW u \in Window, NEW n \in Nat PROVE Tame(u, [u EXCEPT !.depth = n])
  <2>1. [u EXCEPT !.depth = n] \in Window
    BY DEF Window
  <2>2. Steady(u, [u EXCEPT !.depth = n])
    BY DEF Window, Steady
  <2>3. QED
    BY <2>1, <2>2, TameUpdate
<1>2. ASSUME NEW u \in Window PROVE Tame(u, BeginBar(u)) /\ Tame(u, EndBar(u))
  <2>1. u.depth \in Nat /\ u.depth + 1 \in Nat /\ (IF u.depth > 0 THEN u.depth - 1 ELSE 0) \in Nat
    BY DEF Window
  <2>2. QED
    BY <1>1, <2>1 DEF BeginBar, EndBar
<1>3. Tame(v, v)
  BY DEF Tame, Filling
<1>4. Tame(v, EndOwned(v))
  <2> DEFINE u == [v EXCEPT !.owns = FALSE]
  <2>1. u \in Window
    BY DEF Window
  <2>2. Tame(v, u)
    <3>1. Steady(v, u)
      BY <2>1 DEF Window, Steady
    <3>2. QED
      BY <2>1, <3>1, TameUpdate
  <2> HIDE DEF u
  <2>3. Tame(v, EndBar(u))
    BY <1>2, <2>1, <2>2, TameSteps
  <2>4. EndOwned(v) \in {EndBar(u), v}
    BY DEF EndOwned, u
  <2>5. QED
    BY <1>3, <2>3, <2>4
<1>5. QED
  BY <1>2, <1>3, <1>4 DEF HoldBar

LEMMA TameTimers ==
  ASSUME NEW v \in Window
  PROVE  /\ Tame(v, SaveLater(v))
         /\ \A t \in Timers \ {"continue"} : Tame(v, After(v, t))
<1>1. SaveLater(v) \in Window
  BY DEF SaveLater, Window
<1>2. Tame(v, SaveLater(v))
  <2>1. Steady(v, SaveLater(v))
    BY <1>1 DEF SaveLater, Window, Timers, Steady
  <2>2. QED
    BY <1>1, <2>1, TameUpdate
<1>3. ASSUME NEW t \in Timers \ {"continue"} PROVE Tame(v, After(v, t))
  <2>1. After(v, t) \in Window
    BY TimerFacts
  <2>2. v.timers \in [Timers -> Nat] /\ After(v, t).timers = [v.timers EXCEPT ![t] = @ + 1]
    BY DEF After, Window
  <2>3. After(v, t).timers["continue"] = v.timers["continue"]
    BY <2>2 DEF Timers
  <2>4. Steady(v, After(v, t))
    BY <2>3 DEF After, Window, Steady
  <2>5. QED
    BY <2>1, <2>4, TameUpdate
<1>4. QED
  BY <1>2, <1>3

LEMMA RefreshFields ==
  ASSUME NEW v \in Window, NEW c \in Profiles
  PROVE  /\ Refresh(v, c).sync = v.sync /\ Refresh(v, c).syncCall = v.syncCall
         /\ Refresh(v, c).profile = v.profile /\ Refresh(v, c).onReady = c
         /\ Refresh(v, c).tabReady = v.tabReady
         /\ v.build = "quit" => Refresh(v, c).build = "quit"
<1> DEFINE s == [v EXCEPT !.build = "run", !.current = TRUE, !.onReady = c]
           p == [v EXCEPT !.pend = TRUE, !.onReady = c]
           b == [s EXCEPT !.depth = @ + 1]
           o == [b EXCEPT !.owns = TRUE]
<1>1. /\ p.sync = v.sync /\ p.syncCall = v.syncCall /\ p.profile = v.profile /\ p.onReady = c
      /\ p.build = v.build /\ p.tabReady = v.tabReady
  BY DEF Window
<1>2. /\ s \in Window /\ s.sync = v.sync /\ s.syncCall = v.syncCall /\ s.profile = v.profile
      /\ s.onReady = c /\ s.tabReady = v.tabReady
  BY DEF Window, Threads
<1> HIDE DEF s, p
<1>3. /\ o.sync = s.sync /\ o.syncCall = s.syncCall /\ o.profile = s.profile
      /\ o.onReady = s.onReady /\ o.tabReady = s.tabReady
  BY <1>2 DEF Window
<1>4. Refresh(v, c) = IF v.build # "none" THEN p ELSE IF v.depth > 0 THEN s ELSE o
  BY DEF Refresh, BeginBar, s, p, b, o
<1> HIDE DEF o
<1>5. QED
  BY <1>1, <1>2, <1>3, <1>4

LEMMA TameRefresh ==
  ASSUME NEW v \in Window, NEW c \in Profiles
  PROVE  Refresh(v, c) \in Window /\ (c = v.profile => Tame(v, Refresh(v, c)))
<1>1. Refresh(v, c) \in Window
  BY RefreshFacts DEF Same
<1>2. ASSUME c = v.profile PROVE Filling(v, Refresh(v, c))
  BY <1>2, RefreshFields DEF Filling, FillInv
<1>3. QED
  BY <1>1, <1>2 DEF Tame

LEMMA TamePopulate ==
  ASSUME NEW v \in Window
  PROVE  Tame(v, Populate(v))
<1>1. [v EXCEPT !.stale = TRUE] \in Window /\ v.profile \in Profiles
  BY DEF Window
<1>2. Tame(v, [v EXCEPT !.stale = TRUE])
  <2>1. Steady(v, [v EXCEPT !.stale = TRUE])
    BY <1>1 DEF Window, Steady
  <2>2. QED
    BY <1>1, <2>1, TameUpdate
<1>3. Tame(v, v) /\ Tame(v, Refresh(v, v.profile))
  BY <1>1, TameRefresh DEF Tame, Filling
<1>4. QED
  BY <1>2, <1>3 DEF Populate

LEMMA TameTab ==
  ASSUME NEW v \in Window
  PROVE  Tame(v, ShowTab(v))
<1> DEFINE s == [v EXCEPT !.tab = TRUE]
<1>1. s \in Window
  BY DEF Window
<1>2. Tame(v, s)
  <2>1. Steady(v, s)
    BY <1>1 DEF Window, Steady
  <2>2. QED
    BY <1>1, <2>1, TameUpdate
<1> HIDE DEF s
<1>3. Tame(s, Populate(s))
  BY <1>1, TamePopulate
<1>4. QED
  BY <1>2, <1>3, TameSteps DEF ShowTab, s

(***************************************************************************)
(* The search itself: it keeps the rows, and asks where it was asked        *)
(***************************************************************************)
LEMMA TameSearch ==
  ASSUME NEW v \in Window, NEW some
  PROVE  Tame(v, StartSearch(v)) /\ Tame(v, ContinueSearch(v, some))
<1> DEFINE h == HoldBar(v)
           a == [h EXCEPT !.search = "run"]
           q == [v EXCEPT !.queued = IF @ < 2 THEN @ + 1 ELSE @]
<1>1. StartSearch(v) \in Window
  BY SearchFacts DEF Same
<1>2. Tame(v, h) /\ Tame(v, EndBar(v))
  BY TameBar
<1>3. StartSearch(v) \in {v, q, a}
  BY DEF StartSearch
<1> HIDE DEF h
<1>4. Steady(h, a) /\ Steady(v, q) /\ Steady(v, v)
  BY <1>2 DEF Tame, Steady, Window
<1> HIDE DEF a, q
<1>5. Filling(v, StartSearch(v))
  BY <1>2, <1>3, <1>4, SteadyFilling, FillingSteps DEF Tame
<1>6. QED
  BY <1>1, <1>2, <1>5 DEF ContinueSearch, Tame

LEMMA TameFinishScan ==
  ASSUME NEW v \in Window, NEW some
  PROVE  Tame(v, FinishScan(v, some))
<1> DEFINE s == [v EXCEPT !.ready = TRUE, !.chain = FALSE]
           a == [s EXCEPT !.tabReady = TRUE, !.stale = TRUE]
           b == [s EXCEPT !.tabReady = TRUE]
<1>1. s \in Window
  BY DEF Window
<1>2. Steady(v, s)
  BY DEF Window, Steady
<1>3. Tame(v, s)
  BY <1>1, <1>2, TameUpdate
<1> HIDE DEF s
<1>4. a \in Window /\ b \in Window
  BY <1>1 DEF Window
<1>5. Steady(s, a) /\ Steady(s, b)
  BY <1>1 DEF Window, Steady
<1> HIDE DEF a, b
<1>6. Tame(v, a) /\ Tame(v, b)
  BY <1>1, <1>3, <1>4, <1>5, TameUpdate, TameSteps
<1>7. Tame(v, Populate(a)) /\ Tame(v, Populate(b)) /\ Tame(v, ContinueSearch(s, some))
  BY <1>1, <1>3, <1>4, <1>6, TamePopulate, TameSearch, TameSteps
<1>8. FinishScan(v, some) \in {s, Populate(a), Populate(b), ContinueSearch(s, some)}
  BY DEF FinishScan, a, b, s
<1>9. QED
  BY <1>3, <1>7, <1>8

LEMMA TameCancel ==
  ASSUME NEW v \in Window
  PROVE  Tame(v, CancelChain(v))
<1>1. CancelChain(v) \in Window
  BY ZenonT(60) DEF CancelChain, Window, Loads
<1>2. Steady(v, CancelChain(v))
  BY DEF CancelChain, Window, Steady
<1>3. QED
  BY <1>1, <1>2, TameUpdate

LEMMA TameScan ==
  ASSUME NEW v \in Window, NEW forced \in BOOLEAN
  PROVE  Tame(v, StartScan(v, forced))
<1> DEFINE h == HoldBar(v)
           s == [h EXCEPT !.hw = "run", !.ready = @ /\ ~forced]
<1>1. Tame(v, h) /\ h \in Window
  BY TameBar DEF Tame
<1>2. Tame(v, v)
  BY DEF Tame, Filling
<1> HIDE DEF h
<1>3. CASE v.hw # "none"
  BY <1>2, <1>3 DEF StartScan
<1>4. CASE v.hw = "none"
  <2>1. StartScan(v, forced) = s
    BY <1>4 DEF StartScan, s, h
  <2>2. Steady(h, s)
    BY <1>1 DEF Window, Steady
  <2> HIDE DEF s
  <2>3. s \in Window
    <3>1. StartScan(v, forced) \in Window
      BY StartScanFacts
    <3>2. QED
      BY <2>1, <3>1
  <2>4. QED
    BY <1>1, <2>1, <2>2, <2>3, TameUpdate, TameSteps
<1>5. QED
  BY <1>3, <1>4

LEMMA TameLoad ==
  ASSUME NEW v \in Window, NEW kind
  PROVE  Tame(v, StartLoad(v, kind))
<1> DEFINE k == IF kind = "quiet" THEN "quiet" ELSE "forced"
           p == [v EXCEPT !.pendLoad = k]
           b == IF kind = "quiet" THEN v ELSE HoldBar(v)
           s == [b EXCEPT !.load = "run", !.quiet = (kind = "quiet")]
<1>1. p \in Window
  BY DEF Window, Loads
<1>2. Tame(v, p)
  <2>1. Steady(v, p)
    BY <1>1 DEF Window, Steady
  <2>2. QED
    BY <1>1, <2>1, TameUpdate
<1>3. Tame(v, v)
  BY DEF Tame, Filling
<1>4. Tame(v, b) /\ b \in Window
  BY <1>3, TameBar DEF Tame
<1> HIDE DEF p, b
<1>5. s \in Window
  BY <1>4, ZenonT(60) DEF Window, Threads
<1>6. Tame(b, s)
  <2>1. Steady(b, s)
    BY <1>4, <1>5 DEF Window, Steady
  <2>2. QED
    BY <1>4, <1>5, <2>1, TameUpdate
<1> HIDE DEF s
<1>7. Tame(v, StartScan(p, kind = "forced"))
  BY <1>1, <1>2, TameScan, TameSteps
<1>8. StartLoad(v, kind) \in {v, StartScan(p, kind = "forced"), s}
  BY DEF StartLoad, p, b, s
<1>9. QED
  BY <1>3, <1>4, <1>6, <1>7, <1>8, TameSteps

LEMMA TameEnsure ==
  ASSUME NEW v \in Window
  PROVE  Tame(v, EnsureFull(v))
<1> DEFINE x == [v EXCEPT !.all = TRUE, !.rows = TRUE, !.stale = TRUE]
<1>1. x \in Window
  BY DEF Window
<1>2. Tame(v, x)
  <2>1. Steady(v, x)
    BY <1>1 DEF Window, Steady
  <2>2. QED
    BY <1>1, <2>1, TameUpdate
<1>3. Tame(v, v) /\ Tame(v, StartLoad(v, "quiet"))
  BY TameLoad DEF Tame, Filling
<1> HIDE DEF x
<1>4. EnsureFull(v) \in {v, x, StartLoad(v, "quiet")}
  BY DEF EnsureFull, x
<1>5. QED
  BY <1>2, <1>3, <1>4

LEMMA TameProfile ==
  ASSUME NEW v \in Window
  PROVE  Tame(v, NewProfile(v))
<1>1. NewProfile(v) \in Window
  BY NewProfileFacts
<1>2. NewProfile(v).sync = v.sync /\ NewProfile(v).syncCall = v.syncCall
  BY DEF NewProfile, Window
<1>3. NewProfile(v).profile # v.syncCall.ready
  BY FreshProfile DEF Held
<1>4. QED
  BY <1>1, <1>2, <1>3 DEF Tame, Filling, FillInv

LEMMA TameApplyRows ==
  ASSUME NEW v \in Window, NEW got
  PROVE  Tame(v, ApplyRows(v, got))
<1> DEFINE a == IF got /\ v.profile # 0 THEN [v EXCEPT !.rows = TRUE, !.all = TRUE] ELSE v
           b == [a EXCEPT !.stale = TRUE, !.ready = TRUE]
           c == IF v.tab THEN After(b, "populate") ELSE b
           d == IF got /\ v.profile # 0 /\ v.full /\ ~v.applyQuiet THEN SaveLater(c) ELSE c
           e == IF v.chain THEN After(d, "finish") ELSE d
<1>0. ASSUME NEW u \in Window PROVE Tame(u, u)
  BY DEF Tame, Filling
<1>1. Tame(v, a) /\ a \in Window
  <2> DEFINE x == [v EXCEPT !.rows = TRUE, !.all = TRUE]
  <2>1. x \in Window
    BY DEF Window
  <2>2. Steady(v, x)
    BY DEF Window, Steady
  <2>3. a \in {v, x}
    OBVIOUS
  <2>4. QED
    BY <1>0, <2>1, <2>2, <2>3, TameUpdate, Zenon
<1>2. Tame(v, a)
  BY <1>1
<1> HIDE DEF a
<1>3. b \in Window
  BY <1>1 DEF Window
<1>4. Tame(a, b)
  <2>1. Steady(a, b)
    BY <1>1, <1>3 DEF Window, Steady
  <2>2. QED
    BY <1>1, <1>3, <2>1, TameUpdate
<1> HIDE DEF b
<1>5. Tame(b, c) /\ c \in Window
  <2>1. Tame(b, c)
    BY <1>0, <1>3, TameTimers DEF Timers
  <2>2. QED
    BY <2>1 DEF Tame
<1> HIDE DEF c
<1>6. Tame(c, d) /\ d \in Window
  <2>1. Tame(c, d)
    BY <1>0, <1>5, TameTimers
  <2>2. QED
    BY <2>1 DEF Tame
<1> HIDE DEF d
<1>7. Tame(d, e)
  BY <1>0, <1>6, TameTimers DEF Timers
<1>8. ApplyRows(v, got) = e
  BY DEF ApplyRows, a, b, c, d, e
<1> HIDE DEF e
<1>9. Tame(v, c)
  BY <1>2, <1>4, <1>5, TameSteps
<1>10. QED
  BY <1>6, <1>7, <1>8, <1>9, TameSteps

LEMMA TameDeferred ==
  ASSUME NEW v \in Window, NEW full
  PROVE  Tame(v, Deferred(v, full))
<1> DEFINE a == NewProfile(v)
           b == IF full THEN [a EXCEPT !.rows = TRUE, !.all = TRUE] ELSE a
           c == [b EXCEPT !.ready = TRUE, !.stale = TRUE]
           d == IF v.tab THEN After(c, "populate") ELSE c
           e == CASE c.all /\ v.tab -> After(d, "populate")
                  [] ~c.all /\ AutoLoad -> After(d, "ensure")
                  [] OTHER -> d
           p == Populate(e)
           q == [p EXCEPT !.stale = FALSE]
<1>0. ASSUME NEW u \in Window PROVE Tame(u, u)
  BY DEF Tame, Filling
<1>1. Tame(v, a) /\ a \in Window
  BY TameProfile DEF Tame
<1> HIDE DEF a
<1>2. Tame(a, b) /\ b \in Window
  <2> DEFINE x == [a EXCEPT !.rows = TRUE, !.all = TRUE]
  <2>1. x \in Window
    BY <1>1 DEF Window
  <2>2. Steady(a, x)
    BY <1>1 DEF Window, Steady
  <2>3. b \in {a, x}
    OBVIOUS
  <2>4. QED
    BY <1>0, <1>1, <2>1, <2>2, <2>3, TameUpdate, Zenon
<1>3. Tame(a, b)
  BY <1>2
<1> HIDE DEF b
<1>4. c \in Window
  BY <1>2 DEF Window
<1>5. Tame(b, c)
  <2>1. Steady(b, c)
    BY <1>2, <1>4 DEF Window, Steady
  <2>2. QED
    BY <1>2, <1>4, <2>1, TameUpdate
<1> HIDE DEF c
<1>6. Tame(c, d) /\ d \in Window
  <2>1. Tame(c, d)
    BY <1>0, <1>4, TameTimers DEF Timers
  <2>2. QED
    BY <2>1 DEF Tame
<1> HIDE DEF d
<1>7. Tame(d, e) /\ e \in Window
  <2>1. Tame(d, e)
    BY <1>0, <1>6, TameTimers DEF Timers
  <2>2. QED
    BY <2>1 DEF Tame
<1> HIDE DEF e
<1>8. Tame(e, p) /\ p \in Window
  BY <1>7, TamePopulate DEF Tame
<1> HIDE DEF p
<1>9. q \in Window
  BY <1>8 DEF Window
<1>10. Tame(p, q)
  <2>1. Steady(p, q)
    BY <1>8, <1>9 DEF Window, Steady
  <2>2. QED
    BY <1>8, <1>9, <2>1, TameUpdate
<1> HIDE DEF q
<1>11. Tame(v, e)
  BY <1>1, <1>3, <1>5, <1>6, <1>7, TameSteps
<1>12. Tame(v, q)
  BY <1>8, <1>10, <1>11, TameSteps
<1>13. Deferred(v, full) \in {q, e}
  BY DEF Deferred, a, b, c, d, e, p, q
<1>14. QED
  BY <1>11, <1>12, <1>13

LEMMA TameFired ==
  ASSUME NEW v \in Window, NEW t \in Timers, v.timers[t] > 0
  PROVE  Tame(v, Fired(v, t))
<1>1. Fired(v, t) \in Window
  BY FiredFacts
<1>2. Steady(v, Fired(v, t))
  BY DEF Fired, Window, Steady
<1>3. QED
  BY <1>1, <1>2, TameUpdate

(***************************************************************************)
(* Every step                                                              *)
(***************************************************************************)
LEMMA TameClick ==
  ASSUME w \in Window, MayClick
  PROVE  Tame(w, Click(w)) /\ Tame(w, ShowTab(Click(w)))
<1>1. Click(w) \in Window
  BY ClickFacts DEF Same
<1>2. Steady(w, Click(w))
  BY DEF Click, Window, Steady
<1>3. Tame(w, Click(w))
  BY <1>1, <1>2, TameUpdate
<1>4. QED
  BY <1>1, <1>3, TameTab, TameSteps

LEMMA TameUser ==
  ASSUME w \in Window, UserStep, ~BeginSearch, ~FilterChange
  PROVE  Tame(w, w')
<1>1. CASE LoadDevices
  <2> DEFINE v == ShowTab(Click(w))
  <2>1. Tame(w, v) /\ v \in Window
    BY <1>1, TameClick DEF LoadDevices, Tame
  <2> HIDE DEF v
  <2>2. Tame(w, StartLoad(v, "forced"))
    BY <2>1, TameLoad, TameSteps
  <2>3. w' \in {v, StartLoad(v, "forced")}
    BY <1>1 DEF LoadDevices, v
  <2>4. QED
    BY <2>1, <2>2, <2>3
<1>2. CASE TabChange
  <2>1. Tame(w, ShowTab(Click(w))) /\ Tame(w, Click(w)) /\ Click(w) \in Window
    BY <1>2, TameClick DEF TabChange, Tame
  <2> DEFINE s == [Click(w) EXCEPT !.tab = FALSE]
  <2>2. s \in Window
    BY <2>1 DEF Window
  <2>3. Steady(Click(w), s)
    BY <2>1 DEF Window, Steady
  <2>4. Tame(w, s)
    BY <2>1, <2>2, <2>3, TameUpdate, TameSteps
  <2>5. w' \in {s, ShowTab(Click(w))}
    BY <1>2 DEF TabChange
  <2> HIDE DEF s
  <2>6. QED
    BY <2>1, <2>4, <2>5
<1>4. ASSUME NEW c \in Window, Tame(w, c), w' \in Window, Steady(c, w')
      PROVE  Tame(w, w')
  BY <1>4, TameUpdate, TameSteps
<1>5. CASE SwitchToPortable
  <2> DEFINE c == Click(w)
  <2>1. Tame(w, c) /\ c \in Window
    BY <1>5, TameClick DEF SwitchToPortable, Tame
  <2>0. w' = [c EXCEPT !.full = FALSE, !.saved = "none", !.profile = 0, !.all = FALSE, !.ready = FALSE]
    BY <1>5 DEF SwitchToPortable
  <2> HIDE DEF c
  <2>2. w' \in Window
    BY <2>0, <2>1, NoProfile, ZenonT(60) DEF Window
  <2>4. w'.sync = c.sync /\ w'.syncCall = c.syncCall /\ w'.profile = 0
    BY <2>0, <2>1 DEF Window
  <2>5. Filling(c, w')
    BY <2>4 DEF Filling, FillInv
  <2>6. Tame(c, w')
    BY <2>2, <2>5 DEF Tame
  <2>7. QED
    BY <2>1, <2>6, TameSteps
<1>6. CASE SavedAges
  <2>1. Tame(w, Click(w)) /\ Click(w) \in Window
    BY <1>6, TameClick DEF SavedAges, Tame
  <2>2. w' \in Window
    BY <1>6, <2>1 DEF SavedAges, Window
  <2>3. Steady(Click(w), w')
    BY <1>6, <2>1 DEF SavedAges, Window, Steady
  <2>4. QED
    BY <1>4, <2>1, <2>2, <2>3
<1>7. CASE RunAnalysis
  <2> DEFINE b == BeginBar(Click(w))
  <2>1. Tame(w, Click(w)) /\ Click(w) \in Window
    BY <1>7, TameClick DEF RunAnalysis, Tame
  <2>2. Tame(w, b) /\ b \in Window
    BY <2>1, TameBar, TameSteps DEF Tame
  <2>3. w' = [b EXCEPT !.analysis = TRUE, !.current = FALSE, !.queued = 0, !.timers["deferred"] = 0]
    BY <1>7 DEF RunAnalysis
  <2> HIDE DEF b
  <2>4. w' \in Window
    <3> DEFINE x == [b.timers EXCEPT !["deferred"] = 0]
    <3>1. x \in [Timers -> Nat]
      BY <2>2 DEF Window
    <3>2. w' = [b EXCEPT !.analysis = TRUE, !.current = FALSE, !.queued = 0, !.timers = x]
      BY <2>2, <2>3 DEF Window
    <3> HIDE DEF x
    <3>3. 0 \in 0..2
      OBVIOUS
    <3>4. QED
      BY <2>2, <3>1, <3>2, <3>3, ZenonT(60) DEF Window
  <2>6. Steady(b, w')
    BY <2>2, <2>3 DEF Window, Steady
  <2>7. Tame(b, w')
    BY <2>2, <2>4, <2>6, TameUpdate
  <2>8. QED
    BY <2>2, <2>7, TameSteps
<1>8. CASE OtherBegins
  <2> DEFINE b == BeginBar(Click(w))
  <2>1. Tame(w, Click(w)) /\ Click(w) \in Window
    BY <1>8, TameClick DEF OtherBegins, Tame
  <2>2. Tame(w, b) /\ b \in Window
    BY <2>1, TameBar, TameSteps DEF Tame
  <2>3. PICK k \in {"plain", "catalog"} : w' = [b EXCEPT !.other = k]
    BY <1>8 DEF OtherBegins
  <2> HIDE DEF b
  <2>4. w' \in Window
    BY <2>2, <2>3 DEF Window
  <2>5. Steady(b, w')
    BY <2>2, <2>3 DEF Window, Steady
  <2>6. QED
    BY <1>4, <2>2, <2>4, <2>5
<1>9. QED
  BY <1>1, <1>2, <1>5, <1>6, <1>7, <1>8 DEF UserStep

LEMMA TameScanAnswer ==
  ASSUME w \in Window, ScanAnswer
  PROVE  Tame(w, w')
<1>0. ASSUME NEW u \in Window PROVE Tame(u, u)
  BY DEF Tame, Filling
<1>1. ASSUME NEW u \in Window, NEW b \in Window, NEW s, Tame(u, b), s \in Window, Steady(b, s)
      PROVE  Tame(u, s)
  BY <1>1, TameUpdate, TameSteps
<1>2. CASE w' = CancelChain(EndBar([w EXCEPT !.hw = "quit"]))
  <2> DEFINE q == [w EXCEPT !.hw = "quit"]
  <2>1. q \in Window
    BY DEF Window, Threads
  <2>2. Steady(w, q)
    BY DEF Window, Steady
  <2>3. Tame(w, q)
    BY <2>1, <2>2, TameUpdate
  <2> HIDE DEF q
  <2>4. Tame(q, EndBar(q)) /\ EndBar(q) \in Window
    BY <2>1, TameBar DEF Tame
  <2>5. Tame(EndBar(q), CancelChain(EndBar(q)))
    BY <2>4, TameCancel
  <2>6. w' = CancelChain(EndBar(q))
    BY <1>2 DEF q
  <2>7. QED
    BY <2>3, <2>4, <2>5, <2>6, TameSteps
<1>3. CASE w' # CancelChain(EndBar([w EXCEPT !.hw = "quit"]))
  <2> DEFINE merged == w.full /\ w.saved = "list"
             a == IF w.chain THEN w ELSE EndBar(w)
             r == [a EXCEPT !.rows = TRUE, !.all = TRUE]
             b == IF merged THEN r ELSE a
             q == [b EXCEPT !.hw = "quit"]
             n == NewProfile(q)
             c == Populate(n)
             l == [c EXCEPT !.pendLoad = "none"]
             d == CASE w.pendLoad = "none" -> c
                    [] w.pendLoad = "quiet" -> After(l, "loadQuiet")
                    [] OTHER -> After(l, "loadForced")
             e == IF w.full THEN SaveLater(d) ELSE d
  <2>1. PICK some \in BOOLEAN : w' \in {e, StartLoad(e, "plain"), FinishScan(e, some)}
    BY <1>3, ZenonT(60) DEF ScanAnswer
  <2>2. Tame(w, a) /\ a \in Window
    BY <1>0, TameBar DEF Tame
  <2> HIDE DEF a
  <2>3. r \in Window
    BY <2>2 DEF Window
  <2>4. Steady(a, r)
    BY <2>2 DEF Window, Steady
  <2>5. Tame(w, r)
    BY <1>1, <2>2, <2>3, <2>4
  <2> HIDE DEF r
  <2>6. Tame(w, b) /\ b \in Window
    BY <2>2, <2>3, <2>5
  <2> HIDE DEF b
  <2>7. q \in Window
    BY <2>6 DEF Window, Threads
  <2>8. Steady(b, q)
    BY <2>6 DEF Window, Steady
  <2>9. Tame(w, q)
    BY <1>1, <2>6, <2>7, <2>8
  <2> HIDE DEF q
  <2>10. Tame(w, n) /\ n \in Window
    BY <2>7, <2>9, TameProfile, TameSteps DEF Tame
  <2> HIDE DEF n
  <2>11. Tame(w, c) /\ c \in Window
    BY <2>10, TamePopulate, TameSteps DEF Tame
  <2> HIDE DEF c
  <2>12. l \in Window
    BY <2>11 DEF Window, Loads
  <2>13. Steady(c, l)
    BY <2>11 DEF Window, Steady
  <2>14. Tame(w, l)
    BY <1>1, <2>11, <2>12, <2>13
  <2> HIDE DEF l
  <2>15. Tame(l, After(l, "loadQuiet")) /\ Tame(l, After(l, "loadForced"))
    BY <2>12, TameTimers DEF Timers
  <2>16. d \in {c, After(l, "loadQuiet"), After(l, "loadForced")}
    OBVIOUS
  <2> HIDE DEF d
  <2>17. Tame(w, d) /\ d \in Window
    BY <2>11, <2>14, <2>15, <2>16, TameSteps DEF Tame
  <2>18. Tame(w, e) /\ e \in Window
    BY <2>17, TameTimers, TameSteps DEF Tame
  <2> HIDE DEF e
  <2>19. Tame(w, StartLoad(e, "plain")) /\ Tame(w, FinishScan(e, some))
    BY <2>18, TameLoad, TameFinishScan, TameSteps
  <2>20. QED
    BY <2>1, <2>18, <2>19
<1>4. QED
  BY <1>2, <1>3

LEMMA TameLoadAnswer ==
  ASSUME w \in Window, LoadAnswer
  PROVE  Tame(w, w')
<1> DEFINE v == [w EXCEPT !.load = "quit", !.quiet = FALSE]
           ok == [v EXCEPT !.applyQuiet = w.quiet]
<1>1. v \in Window
  BY DEF Window, Threads
<1>2. Steady(w, v)
  BY DEF Window, Steady
<1>3. w' \in {After(ok, "apply"), After(EndBar(ok), "apply"), CancelChain(v), CancelChain(EndBar(v))}
  BY DEF LoadAnswer
<1> HIDE DEF v
<1>4. Tame(w, v)
  BY <1>1, <1>2, TameUpdate
<1>5. w.quiet \in BOOLEAN
  BY DEF Window
<1>6. ok \in Window
  BY <1>1, <1>5 DEF Window
<1>7. Steady(v, ok)
  BY <1>1 DEF Window, Steady
<1> HIDE DEF ok
<1>8. Tame(w, ok)
  BY <1>4, <1>6, <1>7, TameUpdate, TameSteps
<1>9. Tame(ok, EndBar(ok)) /\ EndBar(ok) \in Window /\ Tame(v, EndBar(v)) /\ EndBar(v) \in Window
  BY <1>1, <1>6, TameBar DEF Tame
<1>10. Tame(ok, After(ok, "apply")) /\ Tame(EndBar(ok), After(EndBar(ok), "apply"))
  BY <1>6, <1>9, TameTimers DEF Timers
<1>11. Tame(v, CancelChain(v)) /\ Tame(EndBar(v), CancelChain(EndBar(v)))
  BY <1>1, <1>9, TameCancel
<1>12. Tame(w, EndBar(ok)) /\ Tame(w, EndBar(v))
  BY <1>4, <1>8, <1>9, TameSteps
<1>13. QED
  BY <1>3, <1>4, <1>8, <1>10, <1>11, <1>12, TameSteps

LEMMA TameTasks ==
  ASSUME w \in Window, SearchAnswer \/ AnalysisAnswer \/ OtherEnds
  PROVE  Tame(w, w')
<1>1. CASE SearchAnswer
  <2> DEFINE a == [w EXCEPT !.search = "quit"]
  <2>1. a \in Window
    BY DEF Window, Threads
  <2>3. Steady(w, a) /\ w' = EndBar(a)
    BY <1>1 DEF SearchAnswer, Window, Steady
  <2> HIDE DEF a
  <2>4. Tame(w, a)
    BY <2>1, <2>3, TameUpdate
  <2>5. QED
    BY <2>1, <2>3, <2>4, TameBar, TameSteps
<1>2. CASE OtherEnds
  <2> DEFINE a == [w EXCEPT !.other = "none"]
  <2>1. a \in Window
    BY DEF Window
  <2>2. Steady(w, a)
    BY DEF Window, Steady
  <2>3. w' = EndBar(a)
    BY <1>2 DEF OtherEnds
  <2> HIDE DEF a
  <2>4. QED
    BY <2>1, <2>2, <2>3, TameBar, TameUpdate, TameSteps
<1>3. CASE AnalysisAnswer
  <2> DEFINE a == [w EXCEPT !.analysis = FALSE]
             v == EndBar(a)
             c == [v EXCEPT !.crash = TRUE]
  <2>1. a \in Window
    BY DEF Window
  <2>2. Steady(w, a)
    BY DEF Window, Steady
  <2>3. w' \in {v, After(c, "deferred")}
    BY <1>3 DEF AnalysisAnswer
  <2> HIDE DEF a
  <2>4. Tame(w, v) /\ v \in Window
    BY <2>1, <2>2, TameBar, TameUpdate, TameSteps DEF Tame
  <2> HIDE DEF v
  <2>5. c \in Window
    BY <2>4 DEF Window
  <2>6. Steady(v, c)
    BY <2>4 DEF Window, Steady
  <2> HIDE DEF c
  <2>7. Tame(c, After(c, "deferred"))
    BY <2>5, TameTimers DEF Timers
  <2>8. QED
    BY <2>3, <2>4, <2>5, <2>6, <2>7, TameUpdate, TameSteps
<1>4. QED
  BY <1>1, <1>2, <1>3

LEMMA TameThreadEnds ==
  ASSUME w \in Window, ThreadEnds
  PROVE  Tame(w, w')
<1>1. CASE w' \in {[w EXCEPT !.hw = "none"], [w EXCEPT !.load = "none"], [w EXCEPT !.build = "none"]}
  <2>1. w' \in Window
    BY <1>1 DEF Window, Threads
  <2>2. Steady(w, w')
    BY <1>1 DEF Window, Steady
  <2>3. QED
    BY <2>1, <2>2, TameUpdate
<1>2. CASE /\ w.search = "quit"
           /\ LET v == [w EXCEPT !.search = "none"]
              IN  w' = IF w.queued = 0 THEN v ELSE StartSearch([v EXCEPT !.queued = @ - 1])
  <2> DEFINE v == [w EXCEPT !.search = "none"]
             n == w.queued - 1
             q == [v EXCEPT !.queued = n]
  <2>1. v \in Window /\ v.queued = w.queued /\ Steady(w, v)
    BY DEF Window, Threads, Steady
  <2>2. Tame(w, v)
    BY <2>1, TameUpdate
  <2>3. CASE w.queued = 0
    BY <1>2, <2>2, <2>3
  <2>4. CASE w.queued # 0
    <3>1. n \in 0..2
      BY <2>4 DEF Window
    <3>2. w' = StartSearch(q)
      BY <1>2, <2>1, <2>4
    <3> HIDE DEF v, n
    <3>3. q \in Window
      BY <2>1, <3>1 DEF Window
    <3>4. Steady(v, q)
      BY <2>1 DEF Window, Steady
    <3> HIDE DEF q
    <3>5. Tame(v, q) /\ Tame(q, w')
      BY <2>1, <3>2, <3>3, <3>4, TameUpdate, TameSearch
    <3>6. QED
      BY <2>2, <3>5, TameSteps
  <2>5. QED
    BY <2>3, <2>4
<1>3. QED
  BY <1>1, <1>2 DEF ThreadEnds

LEMMA TameTimerFires ==
  ASSUME w \in Window, TimerFires
  PROVE  Tame(w, w')
<1>1. PICK t \in Timers :
        /\ w.timers[t] > 0
        /\ LET v == Fired(w, t) IN
           CASE t = "loadForced" -> w' = StartLoad(v, "forced")
             [] t = "loadQuiet"  -> w' = StartLoad(v, "quiet")
             [] t = "apply"      -> \E got \in BOOLEAN : w' = ApplyRows(v, got)
             [] t = "finish"     -> \E some \in BOOLEAN : w' = FinishScan(v, some)
             [] t = "continue"   -> \E some \in BOOLEAN : w' = ContinueSearch(v, some)
             [] t = "populate"   -> w' = Populate(v)
             [] t = "ensure"     -> w' = EnsureFull(v)
             [] t = "deferred"   -> \E full \in BOOLEAN : w' = Deferred(v, full)
             [] OTHER -> w' = [v EXCEPT !.saved = IF ~v.full THEN @
                                 ELSE IF v.rows THEN "list" ELSE "slim"]
  BY DEF TimerFires
<1> DEFINE v == Fired(w, t)
<1>2. Tame(w, v) /\ v \in Window
  BY <1>1, TameFired DEF Tame
<1> HIDE DEF v
<1>3. CASE t \in {"loadForced", "loadQuiet"}
  BY <1>1, <1>2, <1>3, TameLoad, TameSteps DEF v
<1>4. CASE t = "apply"
  BY <1>1, <1>2, <1>4, TameApplyRows, TameSteps DEF v
<1>5. CASE t = "finish"
  BY <1>1, <1>2, <1>5, TameFinishScan, TameSteps DEF v
<1>6. CASE t = "continue"
  BY <1>1, <1>2, <1>6, TameSearch, TameSteps DEF v
<1>7. CASE t \in {"populate", "ensure"}
  BY <1>1, <1>2, <1>7, TamePopulate, TameEnsure, TameSteps DEF v
<1>8. CASE t = "deferred"
  BY <1>1, <1>2, <1>8, TameDeferred, TameSteps DEF v
<1>9. CASE t = "save"
  <2> DEFINE x == IF ~v.full THEN v.saved ELSE IF v.rows THEN "list" ELSE "slim"
  <2>1. w' = [v EXCEPT !.saved = x]
    BY <1>1, <1>9 DEF v
  <2>2. x \in {"none", "old", "slim", "list"}
    BY <1>2 DEF Window
  <2> HIDE DEF x
  <2>3. w' \in Window
    BY <1>2, <2>1, <2>2 DEF Window
  <2>4. Steady(v, w')
    BY <1>2, <2>1 DEF Window, Steady
  <2>5. QED
    BY <1>2, <2>3, <2>4, TameUpdate, TameSteps
<1>10. QED
  BY <1>3, <1>4, <1>5, <1>6, <1>7, <1>8, <1>9 DEF Timers

(***************************************************************************)
(* The handlers of the table                                               *)
(***************************************************************************)
\* From v to s the fill, the profile and a build that has answered stay, and no
\* search begins to wait for the table.
Fixed(v, s) ==
  /\ s.sync = v.sync /\ s.syncCall = v.syncCall /\ s.profile = v.profile
  /\ v.build = "quit" => s.build = "quit"
  /\ s.tabReady => v.tabReady

LEMMA FixedSteps ==
  ASSUME NEW v, NEW s, NEW u, Fixed(v, s), Fixed(s, u)
  PROVE  Fixed(v, u)
BY DEF Fixed

LEMMA FixedRefresh ==
  ASSUME NEW v \in Window, NEW c \in Profiles
  PROVE  Fixed(v, Refresh(v, c))
BY RefreshFields DEF Fixed

LEMMA FixedOwned ==
  ASSUME NEW v \in Window
  PROVE  Fixed(v, EndOwned(v))
<1>1. ASSUME NEW u \in Window, NEW n PROVE Fixed(u, [u EXCEPT !.depth = n])
  BY DEF Fixed, Window
<1> DEFINE u == [v EXCEPT !.owns = FALSE]
<1>2. u \in Window /\ Fixed(v, u) /\ Fixed(v, v)
  BY DEF Fixed, Window
<1> HIDE DEF u
<1>3. Fixed(u, EndBar(u))
  BY <1>1, <1>2 DEF EndBar
<1>4. EndOwned(v) \in {v, EndBar(u)}
  BY DEF EndOwned, u
<1>5. QED
  BY <1>2, <1>3, <1>4, FixedSteps

\* Finishing the tab for the window's profile hands a waiting search to its timer,
\* or starts a fill of its own for hidden rows that will finish the tab.
LEMMA FinishUiFill ==
  ASSUME NEW v \in Window, NEW p \in Profiles, NEW size
  PROVE  LET f == FinishUi(v, p, size) IN
         \/ Fixed(v, f) /\ (p = v.profile => ~f.tabReady)
         \/ /\ size = "hidden" /\ p = v.profile
            /\ f.sync /\ f.syncCall.ready = v.profile /\ f.profile = v.profile
            /\ v.build = "quit" => f.build = "quit"
            /\ f.tabReady => v.tabReady
<1> DEFINE a == [v EXCEPT !.sync = TRUE, !.syncCall = [ready |-> p, again |-> FALSE]]
           b == [v EXCEPT !.tabReady = FALSE]
           t == After(b, "continue")
           s == IF v.tabReady THEN t ELSE v
           e == [s EXCEPT !.stale = FALSE]
<1>1. CASE p = v.profile /\ size = "hidden"
  <2>1. FinishUi(v, p, size) = a
    BY <1>1 DEF FinishUi, a
  <2>2. a.sync /\ a.syncCall.ready = p /\ a.profile = v.profile /\ a.build = v.build /\ a.tabReady = v.tabReady
    BY DEF Window
  <2> HIDE DEF a
  <2>3. QED
    BY <1>1, <2>1, <2>2
<1>2. CASE p = v.profile /\ size # "hidden"
  <2>1. b \in Window /\ Fixed(v, b) /\ Fixed(v, v) /\ ~b.tabReady
    BY DEF Window, Fixed
  <2> HIDE DEF b
  <2>2. t \in Window /\ Fixed(b, t)
    BY <2>1, TimerFacts DEF Timers, After, Window, Fixed
  <2> HIDE DEF t
  <2>3. s \in Window /\ Fixed(v, s) /\ ~s.tabReady
    BY <2>1, <2>2, FixedSteps DEF Fixed
  <2>4. FinishUi(v, p, size) = EndOwned(e)
    BY <1>2 DEF FinishUi, e, s, t, b
  <2> HIDE DEF s
  <2>5. e \in Window /\ Fixed(s, e)
    BY <2>3 DEF Window, Fixed
  <2> HIDE DEF e
  <2>6. Fixed(s, EndOwned(e))
    BY <2>5, FixedOwned, FixedSteps
  <2>7. QED
    BY <2>3, <2>4, <2>6, FixedSteps DEF Fixed
<1>3. CASE p # v.profile
  BY <1>3 DEF FinishUi, Fixed
<1>4. QED
  BY <1>1, <1>2, <1>3

\* The filter that waited for a fill still waits while there is one; where there is
\* none, the fill it starts goes on with nothing.
LEMMA FlushFill ==
  ASSUME NEW v \in Window, NEW thin, NEW refill
  PROVE  LET f == FlushFilter(v, thin, refill) IN
         /\ v.sync => Fixed(v, f)
         /\ ~v.sync /\ f.sync => f.syncCall.ready = 0
         /\ f.profile = v.profile
         /\ v.build = "quit" => f.build = "quit"
         /\ f.tabReady => v.tabReady
<1> DEFINE u == [v EXCEPT !.filter = FALSE]
           m == [u EXCEPT !.filter = TRUE]
           n == [u EXCEPT !.sync = (refill = "big"), !.syncCall = NoCall]
<1>1. u \in Window /\ Fixed(v, u) /\ Fixed(v, v) /\ u.sync = v.sync
  BY DEF Window, Fixed
<1>2. FlushFilter(v, thin, refill) \in IF v.sync THEN {v, m} ELSE {v, Refresh(u, 0), n}
  BY <1>1 DEF FlushFilter, ApplyFilter, u, m, n
<1> HIDE DEF u
<1>3. Fixed(v, m)
  <2>1. Fixed(u, m)
    BY <1>1 DEF Window, Fixed
  <2> HIDE DEF m
  <2>2. QED
    BY <1>1, <2>1, FixedSteps
<1>4. Fixed(v, Refresh(u, 0))
  BY <1>1, FixedRefresh, NoProfile, FixedSteps
<1>5. /\ n.syncCall.ready = 0 /\ n.profile = v.profile /\ (v.build = "quit" => n.build = "quit")
      /\ n.tabReady => v.tabReady
  BY <1>1 DEF Window, Fixed, NoCall
<1> HIDE DEF m, n
<1>6. QED
  BY <1>1, <1>2, <1>3, <1>4, <1>5 DEF Fixed

\* When a fill is through, a search that waited for it does not wait any more, or the
\* hidden rows are filled in and the tab is finished after them.
LEMMA FinishTableFill ==
  ASSUME NEW v \in Window, NEW c \in Callback, NEW size, NEW thin, NEW refill
  PROVE  LET u == FinishTable(v, c, size, thin, refill) IN
         /\ u.profile = v.profile
         /\ v.build = "quit" => u.build = "quit"
         /\ u.sync /\ u.syncCall.ready # 0 => size = "hidden"
         /\ c.ready = v.profile /\ c.ready # 0 /\ u.tabReady
              => size = "hidden" /\ u.sync /\ u.syncCall.ready = v.profile
<1> DEFINE a == [v EXCEPT !.sync = FALSE, !.syncCall = NoCall]
           f == FinishUi(a, c.ready, size)
           s == IF c.ready # 0 THEN f ELSE a
           b == Call(a, c, size)
           u == FinishTable(v, c, size, thin, refill)
<1>1. a \in Window
  BY NoProfile, ZenonT(60) DEF Window
<1>2. a.sync = FALSE /\ a.profile = v.profile /\ a.build = v.build
  BY DEF Window
<1>3. b \in {s, Refresh(s, 0)} /\ u = FlushFilter(b, thin, refill)
  BY DEF Call, FinishTable
<1> HIDE DEF a
<1>4. c.ready \in Profiles
  BY DEF Callback
<1>5. s \in Window /\ b \in Window
  BY <1>1, <1>4, FinishUiFacts, CallFacts DEF Same
<1>6. \/ Fixed(a, f) /\ (c.ready = a.profile => ~f.tabReady)
      \/ /\ size = "hidden" /\ c.ready = a.profile
         /\ f.sync /\ f.syncCall.ready = a.profile /\ f.profile = a.profile
         /\ a.build = "quit" => f.build = "quit"
         /\ f.tabReady => a.tabReady
  BY <1>1, <1>4, FinishUiFill
<1> HIDE DEF f
<1>7. /\ s.profile = v.profile
      /\ v.build = "quit" => s.build = "quit"
      /\ s.sync => size = "hidden" /\ s.syncCall.ready = v.profile
      /\ c.ready = v.profile /\ c.ready # 0 /\ s.tabReady => s.sync
  BY <1>2, <1>6 DEF Fixed
<1> HIDE DEF s
<1>8. Fixed(s, Refresh(s, 0)) /\ Fixed(s, s)
  BY <1>5, FixedRefresh, NoProfile DEF Fixed
<1>9. Fixed(s, b)
  BY <1>3, <1>8
<1> HIDE DEF b
<1>10. /\ b.sync => Fixed(b, u)
       /\ ~b.sync /\ u.sync => u.syncCall.ready = 0
       /\ u.profile = b.profile
       /\ b.build = "quit" => u.build = "quit"
       /\ u.tabReady => b.tabReady
  BY <1>3, <1>5, FlushFill
<1> HIDE DEF u
<1>11. /\ u.profile = v.profile
       /\ v.build = "quit" => u.build = "quit"
       /\ u.sync /\ u.syncCall.ready # 0 => size = "hidden"
       /\ c.ready = v.profile /\ c.ready # 0 /\ u.tabReady
            => size = "hidden" /\ u.sync /\ u.syncCall.ready = v.profile
  BY <1>7, <1>9, <1>10 DEF Fixed
<1>12. QED
  BY <1>11 DEF u

CallInv == FillInv(w)

\* What WaitingSearchKeepsItsFill says of a step.
CallKept ==
  w.sync /\ w.profile # 0 /\ w'.profile = w.profile
  /\ w.syncCall.ready = w.profile /\ w.tabReady /\ w'.tabReady
    => \/ w'.sync /\ w'.syncCall.ready = w.profile
       \/ ~w.tab /\ w'.stale

LEMMA TameKeepsCall == Tame(w, w') /\ CallInv => CallInv' /\ CallKept
BY DEF Tame, Filling, CallInv, CallKept

\* A build that answers leaves the fill alone, ends it and with it the wait of the
\* search, or starts a fill that finishes the tab for the profile the build was
\* made for.
LEMMA BuildKeepsCall ==
  ASSUME w \in Window, BuildAnswer, CallInv
  PROVE  CallInv' /\ CallKept
<1> DEFINE v == [w EXCEPT !.build = "quit"]
           idle == [v EXCEPT !.onReady = 0, !.pend = FALSE]
           call == [ready |-> w.onReady, again |-> w.pend]
           s == IF w.onReady # 0 THEN FinishUi(idle, w.onReady, "small") ELSE idle
           r == IF w.pend /\ w.profile # 0 THEN Refresh(s, w.onReady) ELSE s
           full == [idle EXCEPT !.cache = TRUE]
           calm == [v EXCEPT !.pend = FALSE]
<1>1. \/ w' = v \/ w' = calm
      \/ w' = Refresh(idle, w.onReady) \/ w' = idle
      \/ \E size \in {"small", "big", "hidden"}, thin \in BOOLEAN, refill \in {"small", "big"} :
           w' = SyncTable(full, call, size, thin, refill)
      \/ w' = EndOwned(r)
  BY DEF BuildAnswer
<1>2. w.onReady \in Profiles /\ call \in Callback /\ call.ready = w.onReady
  BY DEF Window, Callback
<1>3. v \in Window
  BY DEF Window, Threads
<1>4. Fixed(w, v) /\ v.build = "quit"
  BY DEF Window, Fixed
<1>5. w.build = "run"
  BY DEF BuildAnswer
<1> HIDE DEF v, call
<1>6. calm \in Window /\ idle \in Window
  BY <1>3, NoProfile, ZenonT(60) DEF Window
<1>7. Fixed(v, calm) /\ Fixed(v, idle)
  BY <1>3 DEF Window, Fixed
<1> HIDE DEF calm, idle
<1>8. full \in Window
  BY <1>6 DEF Window
<1>9. Fixed(idle, full)
  BY <1>6 DEF Window, Fixed
<1> HIDE DEF full
<1>10. ASSUME Fixed(v, w') PROVE CallInv' /\ CallKept
  BY <1>4, <1>10 DEF Fixed, CallInv, CallKept, FillInv
<1>11. Fixed(v, v) /\ Fixed(v, full)
  BY <1>7, <1>9, FixedSteps DEF Fixed
<1>12. Fixed(v, Refresh(idle, w.onReady))
  BY <1>2, <1>6, <1>7, FixedRefresh, FixedSteps
<1>13. Fixed(v, EndOwned(r))
  <2>1. s \in Window
    BY <1>2, <1>6, FinishUiFacts DEF Same
  <2>2. Fixed(idle, s)
    <3>1. Fixed(idle, FinishUi(idle, w.onReady, "small"))
      BY <1>2, <1>6, FinishUiFill
    <3>2. QED
      BY <3>1 DEF Fixed
  <2> HIDE DEF s
  <2>3. r \in Window
    BY <1>2, <2>1, TameRefresh
  <2>4. Fixed(s, r)
    BY <1>2, <2>1, FixedRefresh DEF Fixed
  <2> HIDE DEF r
  <2>5. QED
    BY <1>7, <2>2, <2>3, <2>4, FixedOwned, FixedSteps
<1>14. ASSUME NEW size \in {"small", "big", "hidden"}, NEW thin \in BOOLEAN, NEW refill \in {"small", "big"},
              w' = SyncTable(full, call, size, thin, refill)
       PROVE  CallInv' /\ CallKept
  <2>1. full.build = "quit" /\ full.profile = w.profile
    BY <1>4, <1>11 DEF Fixed
  <2>2. CASE size = "big"
    <3>1. w' = [full EXCEPT !.sync = TRUE, !.syncCall = call]
      BY <1>14, <2>2 DEF SyncTable
    <3>2. w'.sync /\ w'.syncCall = call /\ w'.build = "quit"
      BY <1>8, <2>1, <3>1 DEF Window
    <3>3. QED
      BY <1>2, <1>5, <3>2 DEF CallInv, CallKept, FillInv
  <2>3. CASE size # "big"
    <3>1. w' = FinishTable(full, call, size, thin, refill)
      BY <1>14, <2>3 DEF SyncTable
    <3>2. /\ w'.build = "quit"
          /\ call.ready = w.profile /\ call.ready # 0 /\ w'.tabReady
               => w'.sync /\ w'.syncCall.ready = w.profile
      BY <1>2, <1>8, <2>1, <3>1, FinishTableFill
    <3>3. QED
      BY <1>2, <1>5, <3>2 DEF CallInv, CallKept, FillInv
  <2>4. QED
    BY <2>2, <2>3
<1>15. QED
  BY <1>1, <1>7, <1>10, <1>11, <1>12, <1>13, <1>14

\* The last batch ends the wait of the search; a fill that is given up leaves the
\* tab stale.
LEMMA TableStepKeepsCall ==
  ASSUME w \in Window, TableStep
  PROVE  CallInv' /\ CallKept
<1> DEFINE a == [w EXCEPT !.sync = FALSE, !.syncCall = NoCall]
<1>1. a \in Window /\ w.syncCall \in Callback
  BY NoProfile, ZenonT(60) DEF Window
<1>2. a.sync = FALSE
  BY DEF Window
<1>3. PICK thin \in BOOLEAN, refill \in {"small", "big"} :
        w' = IF w.tab THEN FinishTable(w, w.syncCall, "small", thin, refill)
             ELSE [FlushFilter(a, thin, refill) EXCEPT !.stale = TRUE]
  BY DEF TableStep
<1> HIDE DEF a
<1>4. CASE w.tab
  <2>1. w' = FinishTable(w, w.syncCall, "small", thin, refill)
    BY <1>3, <1>4
  <2>2. ("small" = "hidden") = FALSE
    OBVIOUS
  <2>3. /\ w'.sync => w'.syncCall.ready = 0
        /\ w.syncCall.ready = w.profile /\ w.profile # 0 => ~w'.tabReady
    BY <1>1, <2>1, <2>2, FinishTableFill
  <2>4. QED
    BY <2>3 DEF CallInv, CallKept, FillInv
<1>5. CASE ~w.tab
  <2> DEFINE f == FlushFilter(a, thin, refill)
  <2>1. f \in Window /\ (f.sync => f.syncCall.ready = 0)
    BY <1>1, <1>2, FlushFill, FilterFacts DEF Same
  <2>2. w' = [f EXCEPT !.stale = TRUE]
    BY <1>3, <1>5
  <2> HIDE DEF f
  <2>3. w'.stale /\ w'.sync = f.sync /\ w'.syncCall = f.syncCall
    BY <2>1, <2>2 DEF Window
  <2>4. QED
    BY <1>5, <2>1, <2>3 DEF CallInv, CallKept, FillInv
<1>6. QED
  BY <1>4, <1>5

\* A filter change waits for the fill under way; where there is none, the fill it
\* starts finishes nothing.
LEMMA FilterKeepsCall ==
  ASSUME w \in Window, FilterChange, CallInv
  PROVE  CallInv' /\ CallKept
<1> DEFINE v == Click(w)
<1>1. Tame(w, v) /\ v \in Window
  BY TameClick DEF FilterChange, Tame
<1>2. PICK thin \in BOOLEAN, size \in {"small", "big"} : w' = ApplyFilter(v, thin, size)
  BY DEF FilterChange
<1> HIDE DEF v
<1>3. v.sync = w.sync
  BY <1>1 DEF Tame, Filling
<1>4. CASE v.sync
  <2>1. w' = [v EXCEPT !.filter = TRUE]
    BY <1>2, <1>4 DEF ApplyFilter
  <2>2. Steady(v, w')
    BY <1>1, <2>1 DEF Window, Steady
  <2>3. Filling(w, w')
    BY <1>1, <2>2, SteadyFilling, FillingSteps DEF Tame
  <2>4. QED
    BY <2>3 DEF Filling, CallInv, CallKept
<1>5. CASE ~v.sync
  <2>1. w' \in {Refresh(v, 0), [v EXCEPT !.sync = (size = "big"), !.syncCall = NoCall]}
    BY <1>2, <1>5 DEF ApplyFilter
  <2>2. Refresh(v, 0).sync = v.sync
    BY <1>1, RefreshFields, NoProfile
  <2>3. [v EXCEPT !.sync = (size = "big"), !.syncCall = NoCall].syncCall.ready = 0
    BY <1>1 DEF Window, NoCall
  <2>4. ~w'.sync \/ w'.syncCall.ready = 0
    BY <1>5, <2>1, <2>2, <2>3
  <2>5. QED
    BY <1>3, <1>5, <2>4 DEF CallInv, CallKept, FillInv
<1>6. QED
  BY <1>4, <1>5

LEMMA BeginKeepsCall ==
  ASSUME w \in Window, BeginSearch, CallInv
  PROVE  CallInv' /\ CallKept
<1> DEFINE v == ShowTab(Click(w))
           b == BeginBar(v)
           s == [b EXCEPT !.chain = TRUE]
<1>1. Tame(w, v) /\ v \in Window
  BY TameClick DEF BeginSearch, Tame
<1>2. PICK some \in BOOLEAN, changed \in BOOLEAN :
        w' = IF WorkflowBusy(v) \/ v.other = "catalog" \/ ~ListReady(v) THEN v
             ELSE IF NeedScan(v, changed) THEN StartScan(s, FALSE) ELSE FinishScan(s, some)
  BY DEF BeginSearch
<1>3. w' \in {v, StartScan(s, FALSE), FinishScan(s, some)}
  BY <1>2
<1> HIDE DEF v
<1>4. Filling(v, b) /\ b \in Window
  BY <1>1, TameBar DEF Tame
<1> HIDE DEF b
<1>5. s \in Window /\ Steady(b, s)
  BY <1>4 DEF Window, Steady
<1> HIDE DEF s
<1>6. Filling(s, StartScan(s, FALSE)) /\ Filling(s, FinishScan(s, some))
  BY <1>5, TameScan, TameFinishScan DEF Tame
<1>7. Filling(w, v) /\ Filling(w, StartScan(s, FALSE)) /\ Filling(w, FinishScan(s, some))
  BY <1>1, <1>4, <1>5, <1>6, SteadyFilling, FillingSteps DEF Tame
<1>8. QED
  BY <1>3, <1>7 DEF Filling, CallInv, CallKept

LEMMA CallStep ==
  ASSUME w \in Window, CallInv, [Next]_w
  PROVE  CallInv' /\ [CallKept]_w
<1>1. CASE UserStep /\ ~BeginSearch /\ ~FilterChange
  BY <1>1, TameUser, TameKeepsCall
<1>2. CASE ProgramStep
  BY <1>2, TameScanAnswer, TameLoadAnswer, BuildKeepsCall, TameTasks, TameThreadEnds, TableStepKeepsCall,
     TameTimerFires, TameKeepsCall DEF ProgramStep
<1>3. CASE UNCHANGED w
  BY <1>3 DEF CallInv, FillInv
<1>4. QED
  BY <1>1, <1>2, <1>3, BeginKeepsCall, FilterKeepsCall DEF Next

\* A fill that will go on with a waiting search for the window's profile goes on with
\* it, is replaced by one that will, or was given up with its tab, which is then
\* stale: whatever builds, filters, scans and analyses come in between.
THEOREM WaitingSearchKeepsTheFill == Spec => WaitingSearchKeepsItsFill
<1>1. Init => IInv /\ CallInv
  <2>1. Init => ~w.sync
    BY DEF Init, Fresh
  <2>2. QED
    BY <2>1, Initially DEF CallInv, FillInv
<1>2. IInv /\ CallInv /\ [Next]_w => (IInv /\ CallInv)' /\ [CallKept]_w
  BY Step, CallStep DEF IInv, Good
<1>3. QED
  BY <1>1, <1>2, PTL DEF Spec, WaitingSearchKeepsItsFill, CallKept
=============================================================================
