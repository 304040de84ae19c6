------------------------ MODULE MSCatalogScanProofs ------------------------
(***************************************************************************)
(* MSCatalogScan for every set of queries, devices, searches and workers    *)
(* and every chunk size.                                                   *)
(***************************************************************************)
EXTENDS MSCatalogScan, TLAPS

Busy == {"ask", "query", "answer"}

\* Where Main can be in each stage of a search.
MainPlaces(st) ==
  CASE st = "store" -> {"store", "storeAsk", "storeQuery", "storeSave"}
    [] st \in {"warm", "gapwarm"} -> {"warm", "batch", "check"} \cup Busy
    [] st \in {"gap", "single"} -> {"check"} \cup Busy
    [] OTHER -> {"idle"}

\* Workers are busy in the pool only, a chunk is in hand only while its process
\* runs, and the holder of the PowerShell lock is the one whose process runs.
ControlInv ==
  /\ pc[Main] \in MainPlaces(stage)
  /\ \A w \in Workers : pc[w] \notin {"warm", "batch"}
  /\ \A w \in Workers : pc[w] # "idle" => stage = "pool"
  /\ scan = None => stage = "idle"
  /\ stage = "store" => ~gui
  /\ pc[Main] # "batch" => group = {}
  /\ psLock \in Threads => pc[psLock] \in {"query", "storeQuery"}

\* A query the warm-up still owes an answer is somewhere in its hands: in no
\* chunk yet, in a half, in the running process, or left to be asked one by one.
OwedInv ==
  stage = "warm" /\ gui /\ ~cleared =>
    /\ wanted = WarmQueries
    /\ \A q \in WarmQueries : cache[q] = "missing" =>
         IF pc[Main] \in {"warm", "batch"}
         THEN q \in pending \cup group \cup UNION parts
         ELSE q \in job[Main]

IInv == TypeOK /\ ControlInv /\ OwedInv /\ WarmCovers /\ BatchAnswersFresh

LEMMA InitInv == Init => IInv
<1> SUFFICES ASSUME Init PROVE IInv
  OBVIOUS
<1> USE ScanConstants
<1>1. TypeOK
  BY DEF Init, TypeOK, Stages, Steps, Answers, Scans, Threads
<1>2. ControlInv
  BY DEF Init, ControlInv, MainPlaces, Busy, Threads, Scans
<1>3. OwedInv /\ WarmCovers /\ BatchAnswersFresh
  BY DEF Init, OwedInv, WarmCovers, BatchAnswersFresh, Scans
<1> QED
  BY <1>1, <1>2, <1>3 DEF IInv

LEMMA WarmQueriesType == WarmQueries \subseteq Queries
BY ScanConstants DEF WarmQueries

-----------------------------------------------------------------------------
(* Type correctness. *)

LEMMA EndType ==
  ASSUME TypeOK, NEW c \in [Queries -> Answers \cup {"missing"}], EndWith(c),
         scan # None
  PROVE  TypeOK'
BY ScanConstants DEF TypeOK, EndWith, Go, Threads, Steps, Stages

LEMMA TypeStep == TypeOK /\ ControlInv /\ [Next]_vars => TypeOK'
<1> SUFFICES ASSUME TypeOK, scan = None => stage = "idle", [Next]_vars PROVE TypeOK'
  BY DEF ControlInv
<1> USE ScanConstants, WarmQueriesType DEF Threads, Steps, Stages, Answers
<1>1. ASSUME NEW s \in BatchScans, StartBatch(s) PROVE TypeOK'
  BY <1>1 DEF StartBatch, TypeOK, Go, Scans, Empty, warmVars
<1>2. ASSUME NEW s \in SingleScans, StartSingle(s) PROVE TypeOK'
  BY <1>2 DEF StartSingle, TypeOK, Go, Scans, warmVars
<1>3. CASE ScanEnds \/ ScanRaises
  <2>1. Empty \in [Queries -> Answers \cup {"missing"}]
    BY DEF Empty
  <2> QED
    BY <1>3, <2>1, EndType DEF ScanEnds, ScanRaises
<1>4. CASE SingleEnds
  BY <1>4, EndType DEF SingleEnds, TypeOK
<1>5. CASE ClearClick
  BY <1>5 DEF ClearClick, TypeOK, Empty, warmVars
<1>6. CASE Warm
  <2>1. CASE WarmPick
    BY <2>1 DEF WarmPick, TypeOK, Go
  <2>2. CASE BatchOk
    BY <2>2 DEF BatchOk, TypeOK, Go, Seed
  <2>3. CASE BatchFails
    BY <2>3 DEF BatchFails, TypeOK, Go
  <2>4. CASE BatchGivesUp
    BY <2>4 DEF BatchGivesUp, TypeOK, Go, Continue
  <2> QED
    BY <1>6, <2>1, <2>2, <2>3, <2>4 DEF Warm
<1>7. CASE PoolStart
  BY <1>7 DEF PoolStart, TypeOK, Go, warmVars
<1>8. CASE GapStart
  BY <1>8 DEF GapStart, TypeOK, Go, Missing
<1>9. CASE GapLookups
  BY <1>9 DEF GapLookups, TypeOK, Go, Continue, warmVars
<1>10. ASSUME NEW w \in Workers, WorkerTake(w) PROVE TypeOK'
  BY <1>10 DEF WorkerTake, TypeOK, Go, warmVars
<1>11. ASSUME NEW t \in Threads, Query(t) PROVE TypeOK'
  <2>1. ASSUME NEW q \in Queries, Lookup(t, q) PROVE TypeOK'
    BY <1>11, <2>1 DEF Lookup, Onward, Continue, TypeOK, Go, warmVars
  <2>2. CASE OpenQuery(t) \/ CloseQuery(t) \/ StoreLock(t) \/ StoreOpen(t) \/ StoreRows(t)
    BY <1>11, <2>2 DEF OpenQuery, CloseQuery, StoreLock, StoreOpen, StoreRows, TypeOK, Go, warmVars
  <2>3. CASE Answer(t)
    BY <1>11, <2>3 DEF Answer, Seed, Onward, Continue, TypeOK, Go, warmVars
  <2>4. CASE StoreEmpty(t)
    BY <1>11, <2>4 DEF StoreEmpty, Continue, TypeOK, Go, warmVars
  <2> QED
    BY <1>11, <2>1, <2>2, <2>3, <2>4 DEF Query
<1>12. CASE FwOpen \/ FwClose
  BY <1>12 DEF FwOpen, FwClose, TypeOK, warmVars
<1>13. CASE UNCHANGED vars
  BY <1>13 DEF vars, warmVars, TypeOK
<1> QED
  BY <1>1, <1>2, <1>3, <1>4, <1>5, <1>6, <1>7, <1>8, <1>9, <1>10, <1>11, <1>12, <1>13 DEF Next

-----------------------------------------------------------------------------
(* Where the threads are. *)

LEMMA ControlStep == TypeOK /\ ControlInv /\ [Next]_vars => ControlInv'
<1> SUFFICES ASSUME TypeOK, ControlInv, [Next]_vars PROVE ControlInv'
  OBVIOUS
<1> USE ScanConstants DEF Threads, ControlInv, MainPlaces, Busy
<1>1. ASSUME NEW s \in BatchScans, StartBatch(s) PROVE ControlInv'
  BY <1>1 DEF StartBatch, TypeOK, Go, Scans
<1>2. ASSUME NEW s \in SingleScans, StartSingle(s) PROVE ControlInv'
  BY <1>2 DEF StartSingle, TypeOK, Go, Scans, warmVars
<1>3. CASE ScanEnds \/ ScanRaises \/ SingleEnds
  BY <1>3 DEF ScanEnds, ScanRaises, SingleEnds, EndWith, PoolEmpty, TypeOK, Go
<1>4. CASE ClearClick
  BY <1>4 DEF ClearClick, TypeOK, warmVars
<1>5. CASE Warm
  <2>1. CASE WarmPick
    BY <2>1 DEF WarmPick, TypeOK, Go
  <2>2. CASE BatchOk
    BY <2>2 DEF BatchOk, TypeOK, Go
  <2>3. CASE BatchFails
    BY <2>3 DEF BatchFails, TypeOK, Go
  <2>4. CASE BatchGivesUp
    BY <2>4 DEF BatchGivesUp, TypeOK, Go, Continue
  <2> QED
    BY <1>5, <2>1, <2>2, <2>3, <2>4 DEF Warm
<1>6. CASE PoolStart
  BY <1>6 DEF PoolStart, TypeOK, Go, Warmed, warmVars
<1>7. CASE GapStart
  BY <1>7 DEF GapStart, TypeOK, Go, PoolEmpty
<1>8. CASE GapLookups
  BY <1>8 DEF GapLookups, TypeOK, Go, Continue, Warmed, warmVars
<1>9. ASSUME NEW w \in Workers, WorkerTake(w) PROVE ControlInv'
  BY <1>9 DEF WorkerTake, TypeOK, Go, warmVars
<1>10. ASSUME NEW t \in Threads, Query(t) PROVE ControlInv'
  <2>1. ASSUME NEW q \in Queries, Lookup(t, q) PROVE ControlInv'
    BY <1>10, <2>1 DEF Lookup, Onward, Continue, TypeOK, Go, warmVars
  <2>2. CASE OpenQuery(t) \/ StoreOpen(t)
    BY <1>10, <2>2 DEF OpenQuery, StoreOpen, TypeOK, Go, warmVars
  <2>3. CASE CloseQuery(t) \/ StoreRows(t)
    BY <1>10, <2>3 DEF CloseQuery, StoreRows, TypeOK, Go, warmVars
  <2>4. CASE StoreLock(t)
    BY <1>10, <2>4 DEF StoreLock, TypeOK, Go, warmVars
  <2>5. CASE Answer(t)
    BY <1>10, <2>5 DEF Answer, Onward, Continue, TypeOK, Go, warmVars
  <2>6. CASE StoreEmpty(t)
    BY <1>10, <2>6 DEF StoreEmpty, Continue, TypeOK, Go, warmVars
  <2> QED
    BY <1>10, <2>1, <2>2, <2>3, <2>4, <2>5, <2>6 DEF Query
<1>11. CASE FwOpen \/ FwClose
  BY <1>11 DEF FwOpen, FwClose, TypeOK, warmVars
<1>12. CASE UNCHANGED vars
  BY <1>12 DEF vars, warmVars
<1> QED
  BY <1>1, <1>2, <1>3, <1>4, <1>5, <1>6, <1>7, <1>8, <1>9, <1>10, <1>11, <1>12 DEF Next

-----------------------------------------------------------------------------
(* What the cache holds. *)

\* Seeding never takes an answer away, and stamps what it writes.
LEMMA SeedCovers ==
  ASSUME TypeOK, NEW S \in SUBSET Queries, NEW a \in [S -> Answers], Seed(a)
  PROVE  /\ \A q \in Queries : cache'[q] = "missing" <=> cache[q] = "missing" /\ q \notin S
         /\ \A q \in S : bornIn'[q] = scan
         /\ \A q \in Queries \ S : cache'[q] = cache[q] /\ bornIn'[q] = bornIn[q]
BY DEF Seed, TypeOK, Answers

LEMMA FreshStep ==
  TypeOK /\ BatchAnswersFresh /\ [Next]_vars => BatchAnswersFresh'
<1> SUFFICES ASSUME TypeOK, BatchAnswersFresh, [Next]_vars PROVE BatchAnswersFresh'
  OBVIOUS
<1> USE ScanConstants DEF BatchAnswersFresh
<1>1. ASSUME NEW s \in BatchScans, StartBatch(s) PROVE BatchAnswersFresh'
  BY <1>1 DEF StartBatch, Empty
<1>2. ASSUME NEW s \in SingleScans, StartSingle(s) PROVE BatchAnswersFresh'
  BY <1>2 DEF StartSingle
<1>3. CASE ScanEnds \/ ScanRaises \/ SingleEnds
  BY <1>3 DEF ScanEnds, ScanRaises, SingleEnds, EndWith, Scans
<1>4. CASE ClearClick
  BY <1>4 DEF ClearClick, Empty
<1>5. CASE BatchOk
  <2> PICK found \in SUBSET (group \cap Matching) :
        Seed([q \in group |-> IF q \in found THEN "rows" ELSE "none"])
    BY <1>5 DEF BatchOk
  <2>1. [q \in group |-> IF q \in found THEN "rows" ELSE "none"] \in [group -> Answers]
    BY DEF Answers
  <2>2. group \in SUBSET Queries
    BY DEF TypeOK
  <2> QED
    BY <1>5, <2>1, <2>2, SeedCovers DEF BatchOk, TypeOK
<1>6. ASSUME NEW t \in Threads, Answer(t) PROVE BatchAnswersFresh'
  BY <1>6 DEF Answer, Seed, TypeOK
<1>7. CASE UNCHANGED <<scan, cache, bornIn>>
  BY <1>7
<1>8. ASSUME NEW t \in Threads, Query(t), ~Answer(t) PROVE UNCHANGED <<scan, cache, bornIn>>
  BY <1>8 DEF Query, Lookup, OpenQuery, CloseQuery, StoreLock, StoreOpen, StoreEmpty, StoreRows
<1>9. CASE WarmPick \/ BatchFails \/ BatchGivesUp \/ PoolStart \/ GapStart \/ GapLookups
           \/ FwOpen \/ FwClose \/ UNCHANGED vars
  BY <1>9 DEF WarmPick, BatchFails, BatchGivesUp, PoolStart, GapStart, GapLookups,
              FwOpen, FwClose, vars
<1>10. ASSUME NEW w \in Workers, WorkerTake(w) PROVE BatchAnswersFresh'
  BY <1>10 DEF WorkerTake
<1> QED
  BY <1>1, <1>2, <1>3, <1>4, <1>5, <1>6, <1>7, <1>8, <1>9, <1>10 DEF Next, Warm

\* No query is lost between the chunks, halves and remainders, and when the
\* warm-up ends none is owed.
LEMMA OwedStep ==
  TypeOK /\ ControlInv /\ OwedInv /\ WarmCovers /\ [Next]_vars
    => OwedInv' /\ WarmCovers'
<1> SUFFICES ASSUME TypeOK, ControlInv, OwedInv, WarmCovers, [Next]_vars
             PROVE  OwedInv' /\ WarmCovers'
  OBVIOUS
<1> USE ScanConstants, WarmQueriesType DEF OwedInv, WarmCovers
<1>w. WarmQueries' = WarmQueries
  BY DEF WarmQueries
<1>1. ASSUME NEW s \in BatchScans, StartBatch(s) PROVE OwedInv' /\ WarmCovers'
  BY <1>1, <1>w DEF StartBatch, TypeOK, Go, Threads
<1>2. ASSUME NEW s \in SingleScans, StartSingle(s) PROVE OwedInv' /\ WarmCovers'
  BY <1>2 DEF StartSingle
<1>3. CASE ScanEnds \/ ScanRaises \/ SingleEnds
  BY <1>3 DEF ScanEnds, ScanRaises, SingleEnds, EndWith
<1>4. CASE ClearClick
  BY <1>4 DEF ClearClick
<1>5. CASE Warm
  <2>1. CASE WarmPick
    BY <2>1, <1>w DEF WarmPick, TypeOK, ControlInv, Go, Threads
  <2>2. CASE BatchOk
    <3> PICK found \in SUBSET (group \cap Matching) :
          Seed([q \in group |-> IF q \in found THEN "rows" ELSE "none"])
      BY <2>2 DEF BatchOk
    <3>1. [q \in group |-> IF q \in found THEN "rows" ELSE "none"] \in [group -> Answers]
      BY DEF Answers
    <3>2. group \in SUBSET Queries
      BY DEF TypeOK
    <3>3. \A q \in Queries : cache'[q] = "missing" <=> cache[q] = "missing" /\ q \notin group
      BY <3>1, <3>2, SeedCovers
    <3> QED
      BY <2>2, <3>3, <1>w DEF BatchOk, TypeOK, Go, Threads
  <2>3. CASE BatchFails
    <3> PICK H \in SUBSET group : parts' = parts \cup {H, group \ H}
      BY <2>3 DEF BatchFails
    <3>1. group \cup UNION parts \subseteq UNION parts'
      OBVIOUS
    <3> QED
      BY <2>3, <3>1, <1>w DEF BatchFails, TypeOK, Go, Threads
  <2>4. CASE BatchGivesUp
    BY <2>4, <1>w DEF BatchGivesUp, TypeOK, Go, Continue, Threads
  <2> QED
    BY <1>5, <2>1, <2>2, <2>3, <2>4 DEF Warm
<1>6. CASE PoolStart
  BY <1>6, <1>w DEF PoolStart, Warmed, ControlInv, warmVars
<1>7. CASE GapStart
  BY <1>7, <1>w DEF GapStart
<1>8. CASE GapLookups
  BY <1>8, <1>w DEF GapLookups
<1>9. ASSUME NEW w \in Workers, WorkerTake(w) PROVE OwedInv' /\ WarmCovers'
  BY <1>9, <1>w DEF WorkerTake
<1>10. ASSUME NEW t \in Threads, Query(t) PROVE OwedInv' /\ WarmCovers'
  <2>1. CASE stage = "warm" /\ t # Main
    BY <1>10, <2>1 DEF Threads, ControlInv, Query, Lookup, OpenQuery, CloseQuery, Answer,
                       StoreLock, StoreOpen, StoreEmpty, StoreRows
  <2>2. CASE stage = "warm" /\ t = Main
    <3>1. pc[Main] \in {"warm", "batch", "check"} \cup Busy
      BY <2>2 DEF ControlInv, MainPlaces
    <3>2. ASSUME NEW q \in Queries, Lookup(t, q) PROVE OwedInv' /\ WarmCovers'
      BY <2>2, <3>2, <1>w DEF Lookup, Onward, MayStop, Continue, TypeOK, Go, Threads, warmVars
    <3>3. CASE OpenQuery(t) \/ CloseQuery(t)
      BY <2>2, <3>3, <1>w DEF OpenQuery, CloseQuery, TypeOK, Go, Threads, warmVars
    <3>4. CASE Answer(t)
      BY <2>2, <3>4, <1>w DEF Answer, Seed, Onward, MayStop, Continue, TypeOK, Go,
                              Threads, Answers, warmVars
    <3>5. ~(StoreLock(t) \/ StoreOpen(t) \/ StoreEmpty(t) \/ StoreRows(t))
      BY <2>2, <3>1 DEF Busy, StoreLock, StoreOpen, StoreEmpty, StoreRows
    <3> QED
      BY <1>10, <3>2, <3>3, <3>4, <3>5 DEF Query
  <2>3. CASE stage # "warm"
    <3>1. CASE Answer(t)
      BY <2>3, <3>1, <1>w DEF Answer, Seed, TypeOK, Answers
    <3>2. CASE StoreEmpty(t)
      BY <1>10, <2>3, <3>2, <1>w DEF StoreEmpty, ControlInv, MainPlaces, Threads, Busy, warmVars, TypeOK, Stages
    <3>3. CASE ~Answer(t) /\ ~StoreEmpty(t)
      BY <1>10, <2>3, <3>3, <1>w DEF Query, Lookup, OpenQuery, CloseQuery, StoreLock, StoreOpen, StoreRows
    <3> QED
      BY <3>1, <3>2, <3>3
  <2> QED
    BY <2>1, <2>2, <2>3
<1>11. CASE FwOpen \/ FwClose
  BY <1>11, <1>w DEF FwOpen, FwClose, warmVars
<1>12. CASE UNCHANGED vars
  BY <1>12, <1>w DEF vars, warmVars
<1> QED
  BY <1>1, <1>2, <1>3, <1>4, <1>5, <1>6, <1>7, <1>8, <1>9, <1>10, <1>11, <1>12 DEF Next

-----------------------------------------------------------------------------
(* The theorems. *)

LEMMA InvStep == IInv /\ [Next]_vars => IInv'
BY TypeStep, ControlStep, OwedStep, FreshStep DEF IInv

LEMMA Invariance == Spec => []IInv
BY InitInv, InvStep, PTL DEF Spec

\* Every reachable state has the types of the code's variables.
THEOREM TypeCorrect == Spec => []TypeOK
<1>1. IInv => TypeOK
  BY DEF IInv
<1> QED
  BY <1>1, Invariance, PTL

\* However chunks fail and split, when the pool of device checks starts every query
\* of the devices it was warmed for is answered.
THEOREM WarmUpCovers == Spec => []WarmCovers
<1>1. IInv => WarmCovers
  BY DEF IInv
<1> QED
  BY <1>1, Invariance, PTL

\* A search of the Drivers tab uses only answers given during it.
THEOREM BatchIsFresh == Spec => []BatchAnswersFresh
<1>1. IInv => BatchAnswersFresh
  BY DEF IInv
<1> QED
  BY <1>1, Invariance, PTL

-----------------------------------------------------------------------------
(* An answer stands. *)

\* A worker looks up what its device asks for, and the warm-up has queries in hand
\* only while Main is at it.
HandInv ==
  /\ \A w \in Workers : job[w] \subseteq UNION {QueriesOf[d] : d \in Devices}
  /\ pc[Main] \notin {"warm", "batch"} => pending = {} /\ parts = {}

\* Whoever is about to write an answer writes it where there is none, or to a query
\* the warm-up leaves out; no query is in two hands.
MainAsksNew == pc[Main] \in Busy => cache[want[Main]] = "missing"
WorkersAskCold == \A w \in Workers : pc[w] \in Busy => want[w] \in ColdQueries
InHandIsNew == \A q \in pending \cup group \cup UNION parts : cache[q] = "missing"
InOneHand ==
  /\ group \cap pending = {} /\ (group \cup pending) \cap UNION parts = {}
  /\ \A P, R \in parts : P # R => P \cap R = {}

StandInv ==
  gui /\ ~cleared => MainAsksNew /\ WorkersAskCold /\ InHandIsNew /\ InOneHand

LEMMA InitStand == Init => HandInv /\ StandInv
BY ScanConstants DEF Init, HandInv, StandInv, MainAsksNew, WorkersAskCold, InHandIsNew, InOneHand,
                     Busy, Threads

LEMMA HandStep == TypeOK /\ ControlInv /\ HandInv /\ [Next]_vars => HandInv'
<1> SUFFICES ASSUME TypeOK, ControlInv, HandInv, [Next]_vars PROVE HandInv'
  OBVIOUS
<1> USE ScanConstants DEF Threads, HandInv
<1>1. ASSUME NEW s \in BatchScans, StartBatch(s) PROVE HandInv'
  BY <1>1 DEF StartBatch, TypeOK, ControlInv, MainPlaces, Go, Scans
<1>2. ASSUME NEW s \in SingleScans, StartSingle(s) PROVE HandInv'
  BY <1>2 DEF StartSingle, TypeOK, ControlInv, MainPlaces, Go, Scans, warmVars
<1>3. CASE ScanEnds \/ ScanRaises \/ SingleEnds
  BY <1>3 DEF ScanEnds, ScanRaises, SingleEnds, EndWith, TypeOK, Go
<1>4. CASE ClearClick
  BY <1>4 DEF ClearClick, warmVars
<1>5. CASE WarmPick \/ BatchOk \/ BatchFails
  BY <1>5 DEF WarmPick, BatchOk, BatchFails, TypeOK, Go
<1>6. CASE BatchGivesUp
  BY <1>6 DEF BatchGivesUp, TypeOK, Go, Continue
<1>7. CASE PoolStart \/ GapLookups
  BY <1>7 DEF PoolStart, GapLookups, TypeOK, Go, Continue, Warmed, warmVars
<1>8. CASE GapStart
  BY <1>8 DEF GapStart, TypeOK, Go
<1>9. ASSUME NEW w \in Workers, WorkerTake(w) PROVE HandInv'
  BY <1>9 DEF WorkerTake, TypeOK, Go, warmVars
<1>10. ASSUME NEW t \in Threads, Query(t) PROVE HandInv'
  <2>1. ASSUME NEW q \in Queries, Lookup(t, q) PROVE HandInv'
    BY <1>10, <2>1 DEF Lookup, Onward, Continue, TypeOK, Go, warmVars
  <2>2. CASE OpenQuery(t) \/ CloseQuery(t) \/ StoreLock(t) \/ StoreOpen(t) \/ StoreRows(t)
    BY <1>10, <2>2 DEF OpenQuery, CloseQuery, StoreLock, StoreOpen, StoreRows, TypeOK, Go, warmVars
  <2>3. CASE Answer(t)
    BY <1>10, <2>3 DEF Answer, Onward, Continue, TypeOK, Go, warmVars
  <2>4. CASE StoreEmpty(t)
    BY <1>10, <2>4 DEF StoreEmpty, Continue, TypeOK, Go, warmVars
  <2> QED
    BY <1>10, <2>1, <2>2, <2>3, <2>4 DEF Query
<1>11. CASE FwOpen \/ FwClose
  BY <1>11 DEF FwOpen, FwClose, warmVars
<1>12. CASE UNCHANGED vars
  BY <1>12 DEF vars, warmVars
<1> QED
  BY <1>1, <1>2, <1>3, <1>4, <1>5, <1>6, <1>7, <1>8, <1>9, <1>10, <1>11, <1>12 DEF Next, Warm

\* What a step that writes an answer leaves as it was.
AnswersKept ==
  gui /\ scan # None /\ scan' = scan /\ ~cleared'
    => \A q \in Queries \ ColdQueries : cache[q] # "missing" => cache'[q] = cache[q]

LEMMA BatchOkStands ==
  ASSUME TypeOK, ControlInv, HandInv, StandInv, BatchOk
  PROVE  StandInv' /\ AnswersKept
<1> USE ScanConstants DEF Threads
<1>1. PICK found \in SUBSET (group \cap Matching) :
        Seed([q \in group |-> IF q \in found THEN "rows" ELSE "none"])
  BY DEF BatchOk
<1>2. [q \in group |-> IF q \in found THEN "rows" ELSE "none"] \in [group -> Answers]
  BY DEF Answers
<1>3. group \in SUBSET Queries
  BY DEF TypeOK
<1>4. /\ \A q \in Queries : cache'[q] = "missing" <=> cache[q] = "missing" /\ q \notin group
      /\ \A q \in Queries \ group : cache'[q] = cache[q]
  BY <1>1, <1>2, <1>3, SeedCovers
<1>5. ASSUME gui, ~cleared PROVE MainAsksNew' /\ WorkersAskCold' /\ InOneHand'
  BY <1>5 DEF BatchOk, StandInv, MainAsksNew, WorkersAskCold, InOneHand, Busy, Go, TypeOK
<1>6. ASSUME gui, ~cleared PROVE InHandIsNew'
  <2>1. InHandIsNew /\ InOneHand
    BY <1>6 DEF StandInv
  <2>2. UNION parts \subseteq Queries /\ pending \subseteq Queries
    BY DEF TypeOK
  <2> QED
    BY <1>4, <2>1, <2>2 DEF InHandIsNew, InOneHand, BatchOk
<1>7. AnswersKept
  BY <1>3, <1>4 DEF AnswersKept, StandInv, InHandIsNew, BatchOk
<1> QED
  BY <1>5, <1>6, <1>7 DEF StandInv, BatchOk

LEMMA AnswerStands ==
  ASSUME IInv, HandInv, StandInv, NEW t \in Threads, Answer(t)
  PROVE  StandInv' /\ AnswersKept
<1> USE ScanConstants DEF Threads
<1>1. PICK a \in Answers : Seed([q \in {want[t]} |-> a]) /\ Onward(t, want[t], a)
  BY DEF Answer
<1>2. \A q \in Queries : q # want[t] => cache'[q] = cache[q]
  BY <1>1 DEF Seed
<1>3. TypeOK /\ ControlInv
  BY DEF IInv
<1>4. pc'[t] \notin Busy /\ \A u \in Threads \ {t} : pc'[u] = pc[u] /\ want'[u] = want[u]
  BY <1>1, <1>3 DEF Onward, Continue, Go, Busy, TypeOK, Answer
<1>5. UNCHANGED <<gui, scan, cleared, pending, group, parts>>
  BY DEF Answer, warmVars
<1>6. pc[t] \in Busy
  BY DEF Answer, Busy
<1>7. pc[Main] \notin {"warm", "batch"}
  <2>1. CASE t = Main
    BY <1>6, <2>1 DEF Busy
  <2>2. CASE t # Main
    BY <1>3, <1>6, <2>2 DEF ControlInv, MainPlaces, Busy
  <2> QED
    BY <2>1, <2>2
<1>8. pending = {} /\ parts = {} /\ group = {}
  BY <1>3, <1>7 DEF HandInv, ControlInv
<1>9. ASSUME gui, ~cleared PROVE MainAsksNew' /\ WorkersAskCold'
  <2>1. MainAsksNew /\ WorkersAskCold
    BY <1>9 DEF StandInv
  <2>2. WorkersAskCold'
    BY <1>4, <2>1 DEF WorkersAskCold, ColdQueries, WarmQueries
  <2>3. t # Main => pc[Main] = "idle"
    BY <1>3, <1>6 DEF ControlInv, MainPlaces, Busy
  <2>4. MainAsksNew'
    BY <1>4, <2>3 DEF MainAsksNew, Busy
  <2> QED
    BY <2>2, <2>4
<1>10. InHandIsNew' /\ InOneHand'
  BY <1>5, <1>8 DEF InHandIsNew, InOneHand
<1>11. AnswersKept
  <2> SUFFICES ASSUME gui, ~cleared, NEW q \in Queries \ ColdQueries, cache[q] # "missing"
               PROVE  cache'[q] = cache[q]
    BY <1>5 DEF AnswersKept
  <2>1. q # want[t]
    BY <1>6 DEF StandInv, MainAsksNew, WorkersAskCold
  <2> QED
    BY <1>2, <2>1
<1> QED
  BY <1>5, <1>9, <1>10, <1>11 DEF StandInv

\* A worker finds every query of the warm-up answered.
LEMMA LookupStands ==
  ASSUME IInv, HandInv, StandInv, NEW t \in Threads, NEW q \in Queries, Lookup(t, q)
  PROVE  StandInv' /\ AnswersKept
<1> USE ScanConstants DEF Threads
<1>1. TypeOK /\ ControlInv /\ WarmCovers
  BY DEF IInv
<1>2. UNCHANGED <<gui, scan, cleared, cache, pending, group, parts>>
  BY DEF Lookup, warmVars
<1>3. \A u \in Threads \ {t} : pc'[u] = pc[u] /\ want'[u] = want[u]
  BY <1>1 DEF Lookup, Onward, Continue, Go, TypeOK
<1>4. pc'[t] \in Busy => cache[q] = "missing" /\ want'[t] = q
  BY <1>1 DEF Lookup, Onward, Continue, Go, TypeOK, Busy
<1>5. ASSUME gui, ~cleared PROVE MainAsksNew' /\ WorkersAskCold'
  <2>1. MainAsksNew /\ WorkersAskCold
    BY <1>5 DEF StandInv
  <2>2. MainAsksNew'
    BY <1>2, <1>3, <1>4, <2>1 DEF MainAsksNew
  <2>3. ASSUME t \in Workers, cache[q] = "missing" PROVE q \in ColdQueries
    <3>1. stage = "pool"
      BY <1>1, <2>3 DEF ControlInv, Lookup
    <3>2. q \notin WarmQueries
      BY <1>1, <1>5, <2>3, <3>1 DEF WarmCovers
    <3>3. PICK d \in Devices : q \in QueriesOf[d]
      BY <2>3 DEF HandInv, Lookup
    <3>4. d \in GpuOnly
      BY <3>2, <3>3, Zenon DEF WarmQueries
    <3>5. q \in UNION {QueriesOf[g] : g \in GpuOnly}
      BY <3>3, <3>4, Zenon
    <3> QED
      BY <3>2, <3>5 DEF ColdQueries
  <2>4. WorkersAskCold'
    <3> SUFFICES ASSUME NEW w \in Workers, pc'[w] \in Busy PROVE want'[w] \in ColdQueries
      BY DEF WorkersAskCold, ColdQueries, WarmQueries
    <3> QED
      BY <1>3, <1>4, <2>1, <2>3 DEF WorkersAskCold
  <2> QED
    BY <2>2, <2>4
<1> QED
  BY <1>2, <1>5 DEF StandInv, InHandIsNew, InOneHand, AnswersKept

LEMMA StandStep ==
  IInv /\ HandInv /\ StandInv /\ [Next]_vars => StandInv' /\ [AnswersKept]_vars
<1> SUFFICES ASSUME IInv, HandInv, StandInv, [Next]_vars PROVE StandInv' /\ [AnswersKept]_vars
  OBVIOUS
<1> USE ScanConstants, WarmQueriesType DEF Threads
<1>0. TypeOK /\ ControlInv
  BY DEF IInv
<1>c. ColdQueries' = ColdQueries
  BY DEF ColdQueries, WarmQueries
<1>s. ASSUME UNCHANGED <<gui, cleared, cache, warmVars, want>>,
             \A t \in Threads : pc'[t] \in Busy => pc[t] \in Busy
      PROVE  StandInv' /\ AnswersKept
  BY <1>s, <1>c DEF StandInv, MainAsksNew, WorkersAskCold, InHandIsNew, InOneHand, AnswersKept, warmVars
<1>1. ASSUME NEW s \in BatchScans, StartBatch(s) PROVE StandInv' /\ AnswersKept
  <2>1. AnswersKept
    BY <1>1 DEF StartBatch, AnswersKept
  <2>2. pc[Main] = "idle" /\ pending = {} /\ parts = {} /\ group = {}
    BY <1>0, <1>1 DEF StartBatch, ControlInv, MainPlaces, HandInv
  <2>3. \A w \in Workers : pc'[w] \notin Busy
    BY <1>0, <1>1 DEF StartBatch, ControlInv, TypeOK, Go, Busy
  <2>4. pc'[Main] \notin Busy
    BY <1>0, <1>1 DEF StartBatch, TypeOK, Go, Busy
  <2>5. group' = {} /\ parts' = {} /\ pending' \subseteq Queries
    BY <1>0, <1>1, <2>2 DEF StartBatch
  <2>6. \A q \in Queries : cache'[q] = "missing"
    BY <1>1 DEF StartBatch, Empty
  <2> QED
    BY <2>1, <2>3, <2>4, <2>5, <2>6 DEF StandInv, MainAsksNew, WorkersAskCold, InHandIsNew, InOneHand
<1>2. ASSUME NEW s \in SingleScans, StartSingle(s) PROVE StandInv' /\ AnswersKept
  BY <1>0, <1>2, <1>s DEF StartSingle, TypeOK, Go, Busy
<1>3. CASE ScanEnds \/ ScanRaises \/ SingleEnds
  <2>1. AnswersKept
    BY <1>3 DEF ScanEnds, ScanRaises, SingleEnds, EndWith, AnswersKept
  <2>2. pc'[Main] = "idle" /\ \A w \in Workers : pc'[w] = pc[w] /\ want'[w] = want[w]
    BY <1>0, <1>3 DEF ScanEnds, ScanRaises, SingleEnds, EndWith, TypeOK, Go
  <2>3. pending' = {} /\ parts' = {} /\ group' = {} /\ UNCHANGED <<gui, cleared>>
    BY <1>3 DEF ScanEnds, ScanRaises, SingleEnds, EndWith
  <2> QED
    BY <1>c, <2>1, <2>2, <2>3 DEF StandInv, MainAsksNew, WorkersAskCold, InHandIsNew, InOneHand, Busy
<1>4. CASE ClearClick
  BY <1>4 DEF ClearClick, StandInv, AnswersKept
<1>5. CASE WarmPick
  <2>1. pc[Main] = "warm" /\ group = {} /\ UNCHANGED <<gui, cleared, cache, want>>
    BY <1>0, <1>5 DEF WarmPick, ControlInv
  <2>2. \A t \in Threads : pc'[t] \in Busy => pc[t] \in Busy
    BY <1>0, <1>5 DEF WarmPick, Go, TypeOK, Busy
  <2>3. ASSUME InHandIsNew, InOneHand PROVE InHandIsNew' /\ InOneHand'
    <3>1. CASE group' \in parts /\ parts' = parts \ {group'} /\ pending' = pending
      BY <2>1, <2>3, <3>1 DEF InHandIsNew, InOneHand
    <3>2. CASE parts = {} /\ group' \subseteq pending /\ pending' = pending \ group' /\ parts' = parts
      BY <2>1, <2>3, <3>2 DEF InHandIsNew, InOneHand
    <3> QED
      BY <1>5, <3>1, <3>2 DEF WarmPick
  <2> QED
    BY <1>c, <2>1, <2>2, <2>3 DEF StandInv, MainAsksNew, WorkersAskCold, AnswersKept
<1>6. CASE BatchOk
  BY <1>0, <1>6, BatchOkStands
<1>7. CASE BatchFails
  <2>1. UNCHANGED <<gui, cleared, cache, want, pending>> /\ group' = {}
    BY <1>7 DEF BatchFails
  <2>2. \A t \in Threads : pc'[t] \in Busy => pc[t] \in Busy
    BY <1>0, <1>7 DEF BatchFails, Go, TypeOK, Busy
  <2>3. PICK H \in SUBSET group : parts' = parts \cup {H, group \ H}
    BY <1>7 DEF BatchFails
  <2>4. UNION parts' = group \cup UNION parts
    BY <2>3
  <2>5. ASSUME InHandIsNew, InOneHand PROVE InHandIsNew' /\ InOneHand'
    <3>1. InHandIsNew'
      BY <2>1, <2>4, <2>5 DEF InHandIsNew
    <3>2. group' \cap pending' = {} /\ (group' \cup pending') \cap UNION parts' = {}
      BY <2>1, <2>4, <2>5 DEF InOneHand
    <3>3. ASSUME NEW P \in parts', NEW R \in parts', P # R PROVE P \cap R = {}
      <4>1. \A Q \in parts : Q \cap group = {}
        BY <2>5 DEF InOneHand
      <4>2. H \cap (group \ H) = {} /\ H \subseteq group
        OBVIOUS
      <4> QED
        BY <2>3, <2>5, <3>3, <4>1, <4>2 DEF InOneHand
    <3> QED
      BY <3>1, <3>2, <3>3 DEF InOneHand
  <2> QED
    BY <1>c, <2>1, <2>2, <2>5 DEF StandInv, MainAsksNew, WorkersAskCold, AnswersKept
<1>8. CASE BatchGivesUp
  <2>1. pending' = {} /\ parts' = {} /\ group' = {} /\ UNCHANGED <<gui, cleared, cache, want>>
    BY <1>8 DEF BatchGivesUp
  <2>2. \A t \in Threads : pc'[t] \in Busy => pc[t] \in Busy
    BY <1>0, <1>8 DEF BatchGivesUp, Continue, Go, TypeOK, Busy
  <2> QED
    BY <1>c, <2>1, <2>2 DEF StandInv, MainAsksNew, WorkersAskCold, InHandIsNew, InOneHand, AnswersKept
<1>9. CASE PoolStart \/ GapLookups
  BY <1>0, <1>9, <1>s DEF PoolStart, GapLookups, Continue, Go, TypeOK, Busy
<1>10. CASE GapStart
  <2>1. pc[Main] = "idle" /\ parts = {} /\ group = {}
    BY <1>0, <1>10 DEF GapStart, ControlInv, MainPlaces, HandInv
  <2>2. UNCHANGED <<gui, cleared, cache, want, parts, group>>
    BY <1>10 DEF GapStart
  <2>3. \A t \in Threads : pc'[t] \in Busy => pc[t] \in Busy
    BY <1>0, <1>10 DEF GapStart, Go, TypeOK, Busy
  <2>4. \A q \in pending' : cache[q] = "missing"
    BY <1>10 DEF GapStart, Missing
  <2> QED
    BY <1>c, <2>1, <2>2, <2>3, <2>4 DEF StandInv, MainAsksNew, WorkersAskCold, InHandIsNew, InOneHand, AnswersKept
<1>11. ASSUME NEW w \in Workers, WorkerTake(w) PROVE StandInv' /\ AnswersKept
  BY <1>0, <1>11, <1>s DEF WorkerTake, Go, TypeOK, Busy
<1>12. ASSUME NEW t \in Threads, Query(t) PROVE StandInv' /\ AnswersKept
  <2>1. CASE OpenQuery(t) \/ CloseQuery(t)
    BY <1>0, <1>s, <2>1 DEF OpenQuery, CloseQuery, Go, TypeOK, Busy
  <2>2. CASE StoreLock(t) \/ StoreOpen(t) \/ StoreRows(t)
    BY <1>0, <1>s, <2>2 DEF StoreLock, StoreOpen, StoreRows, Go, TypeOK, Busy
  <2>3. CASE StoreEmpty(t)
    BY <1>0, <1>s, <2>3 DEF StoreEmpty, Continue, Go, TypeOK, Busy
  <2> QED
    BY <1>12, <2>1, <2>2, <2>3, LookupStands, AnswerStands DEF Query
<1>13. CASE FwOpen \/ FwClose
  BY <1>13, <1>s DEF FwOpen, FwClose
<1>14. CASE UNCHANGED vars
  <2>1. StandInv' /\ AnswersKept
    BY <1>14, <1>s DEF vars, warmVars
  <2> QED
    BY <1>14, <2>1
<1> QED
  BY <1>1, <1>2, <1>3, <1>4, <1>5, <1>6, <1>7, <1>8, <1>9, <1>10, <1>11, <1>12, <1>13, <1>14 DEF Next, Warm

\* Within a search of the GUI the answer to a query of the warm-up or the gap pass is
\* never replaced by another, whatever fails and whoever looks it up again.
THEOREM AnswersOnce == Spec => AnswersStand
<1>1. Init => IInv /\ HandInv /\ StandInv
  BY InitInv, InitStand
<1>2. IInv /\ HandInv /\ StandInv /\ [Next]_vars
        => (IInv /\ HandInv /\ StandInv)' /\ [AnswersKept]_vars
  BY InvStep, HandStep, StandStep DEF IInv
<1>3. QED
  BY <1>1, <1>2, PTL DEF Spec, AnswersStand, AnswersKept
=============================================================================
