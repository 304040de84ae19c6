------------------------- MODULE CatalogSearchProofs -------------------------
(***************************************************************************)
(* CatalogSearch for every set of requests and every number of Run         *)
(* Analysis clicks, as long as no handler slips in between the end of a     *)
(* QThread and the delivery of its finished() (~FinishRace).               *)
(***************************************************************************)
EXTENDS CatalogSearch, TLAPS

(***************************************************************************)
(* The strengthening.  OneSearchAndSeen alone is not inductive: the busy    *)
(* test reads one handle and one flag, so the proof needs to know that      *)
(* every thread that is alive or not yet cleaned up is the one in the       *)
(* handle, that the starting flag is up only for such a thread, and that    *)
(* what the cleanup pops from the queue is a request that merely waits.     *)
(***************************************************************************)
HandleInv ==
  /\ \A r \in Requests : phase[r] \in Alive \cup {"ended"} => held = r
  /\ held # None => phase[held] \in Alive \cup {"ended"}

StartingInv ==
  starting => held # None /\ phase[held] \in {"running", "answered", "failed"}

QueueInv ==
  /\ \A i \in 1..Len(queue) : phase[queue[i]] = "queued"
  /\ \A i, j \in 1..Len(queue) : queue[i] = queue[j] => i = j

ClosingInv == closing => modal = <<>>

RefreshInv ==
  refresh # "idle" /\ ~closing => refreshRef /\ Searching = {}

IInv == TypeOK /\ HandleInv /\ StartingInv /\ QueueInv /\ ClosingInv /\ RefreshInv

\* The initial state satisfies the strengthening.
LEMMA InitInv == Init => IInv
<1> SUFFICES ASSUME Init PROVE IInv
  OBVIOUS
<1>1. TypeOK
  <2>1. queue \in Seq(Requests) /\ modal \in Seq(Frames)
    BY DEF Init
  <2>2. 0 \in 0..MaxGen
    BY ConstantsAssumption
  <2> QED
    BY <2>1, <2>2 DEF Init, TypeOK, Phases
<1>2. HandleInv
  BY DEF Init, HandleInv, Alive
<1>3. StartingInv /\ QueueInv /\ ClosingInv /\ RefreshInv
  BY DEF Init, StartingInv, QueueInv, ClosingInv, RefreshInv
<1> QED
  BY <1>1, <1>2, <1>3 DEF IInv

\* In a settled state where the busy test says no, no thread is alive.
LEMMA NotBusyNoThread ==
  ASSUME IInv, ~FinishRace, Settled, ~DrvBusy
  PROVE  /\ held = None /\ ~starting
         /\ \A r \in Requests : phase[r] \notin Alive \cup {"ended"}
<1>1. ~starting /\ (held = None \/ phase[held] \notin Alive)
  BY DEF DrvBusy
<1>2. held = None
  BY <1>1 DEF IInv, TypeOK, HandleInv, Settled
<1> QED
  BY <1>1, <1>2, ConstantsAssumption DEF IInv, HandleInv

-----------------------------------------------------------------------------
(* Type correctness. *)

LEMMA LaunchType ==
  ASSUME TypeOK, NEW r \in Requests, Launch(r)
  PROVE  /\ phase' \in [Requests -> Phases]
         /\ held' \in Requests \cup {None} /\ starting' \in BOOLEAN
         /\ owner' \in Requests \cup {None} /\ jobGen' \in 0..MaxGen
         /\ launchGen' \in [Requests -> 0..MaxGen]
BY DEF TypeOK, Launch, Move, Phases, Alive

LEMMA StartTabType ==
  ASSUME TypeOK, NEW r \in Requests, StartTab(r)
  PROVE  /\ phase' \in [Requests -> Phases]
         /\ queue' \in Seq(Requests)
         /\ held' \in Requests \cup {None} /\ starting' \in BOOLEAN
         /\ owner' \in Requests \cup {None} /\ jobGen' \in 0..MaxGen
         /\ launchGen' \in [Requests -> 0..MaxGen]
<1>1. CASE Launch(r) /\ UNCHANGED queue
  BY <1>1, LaunchType DEF TypeOK
<1>2. CASE Move(r, "dropped") /\ UNCHANGED <<queue, drvVars>>
  BY <1>2 DEF TypeOK, Move, Phases, Over, drvVars
<1>3. CASE Move(r, "queued") /\ queue' = Append(queue, r) /\ UNCHANGED drvVars
  BY <1>3 DEF TypeOK, Move, Phases, Waiting, drvVars
<1> QED
  BY <1>1, <1>2, <1>3 DEF StartTab

LEMMA PushType ==
  ASSUME TypeOK, NEW f \in Frames, Push(f)
  PROVE  modal' \in Seq(Frames)
BY DEF TypeOK, Push

LEMMA PopType ==
  ASSUME TypeOK, NEW f, Pop(f)
  PROVE  modal' \in Seq(Frames)
BY DEF TypeOK, Pop

\* Every step keeps the types, whatever FinishRace is.
LEMMA TypeStep == TypeOK /\ [Next]_vars => TypeOK'
<1> SUFFICES ASSUME TypeOK, [Next]_vars PROVE TypeOK'
  OBVIOUS
<1> USE DEF Phases, Waiting, Alive, Over
<1>1. CASE \E r \in ClickRequests : BeginClick(r)
  <2> PICK r \in ClickRequests : BeginClick(r)
    BY <1>1
  <2>1. r \in Requests /\ r \in Frames
    BY DEF Requests, Frames
  <2>2. modal' \in Seq(Frames)
    BY <2>1, PushType DEF BeginClick, TypeOK
  <2> QED
    BY <2>1, <2>2 DEF BeginClick, Move, TypeOK, drvVars, jobVars
<1>2. CASE \E r \in ClickRequests : ChainContinue(r)
  <2> PICK r \in ClickRequests : ChainContinue(r)
    BY <1>2
  <2>1. r \in Requests
    BY DEF Requests
  <2>2. CASE StartTab(r)
    BY <2>1, <2>2, StartTabType DEF ChainContinue, TypeOK, jobVars
  <2>3. CASE Move(r, "dropped") /\ UNCHANGED <<queue, drvVars>>
    BY <2>1, <2>3 DEF ChainContinue, Move, TypeOK, drvVars, jobVars
  <2> QED
    BY <2>2, <2>3 DEF ChainContinue
<1>3. CASE \E r \in AutoRequests : AutoTimer(r)
  <2> PICK r \in AutoRequests : AutoTimer(r)
    BY <1>3
  <2>1. r \in Requests /\ r \in Frames
    BY DEF Requests, Frames
  <2>2. CASE UNCHANGED modal /\ StartTab(r)
    BY <2>1, <2>2, StartTabType DEF AutoTimer, TypeOK, jobVars
  <2>3. CASE Push(r) /\ Move(r, "prompt") /\ UNCHANGED <<queue, drvVars>>
    BY <2>1, <2>3, PushType DEF AutoTimer, Move, TypeOK, drvVars, jobVars
  <2> QED
    BY <2>2, <2>3 DEF AutoTimer
<1>4. CASE \E r \in SummaryRequests : SummaryClick(r)
  <2> PICK r \in SummaryRequests : SummaryClick(r)
    BY <1>4
  <2>1. r \in Requests
    BY DEF Requests
  <2>2. CASE Launch(r)
    BY <2>1, <2>2, LaunchType DEF SummaryClick, TypeOK, jobVars
  <2>3. CASE /\ Move(r, "dropped") /\ owner' = r /\ jobGen' \in {gen, jobGen}
             /\ UNCHANGED <<held, starting, launchGen>>
    <3>1. phase' \in [Requests -> Phases] /\ owner' \in Requests \cup {None}
          /\ jobGen' \in 0..MaxGen
      BY <2>1, <2>3 DEF Move, TypeOK
    <3> QED
      BY <2>3, <3>1 DEF SummaryClick, TypeOK, jobVars
  <2> QED
    BY <2>2, <2>3 DEF SummaryClick
<1>5. CASE \E r \in Requests : PromptAnswer(r)
  <2> PICK r \in Requests : PromptAnswer(r)
    BY <1>5
  <2>1. modal' \in Seq(Frames)
    BY PopType DEF PromptAnswer
  <2>2. CASE StartTab(r)
    BY <2>1, <2>2, StartTabType DEF PromptAnswer, TypeOK, jobVars
  <2>3. CASE ~StartTab(r)
    BY <2>1, <2>3 DEF PromptAnswer, Move, TypeOK, drvVars, jobVars
  <2> QED
    BY <2>2, <2>3
<1>6. CASE \E r \in Requests : FireQueued(r)
  BY <1>6, StartTabType DEF FireQueued, TypeOK, jobVars
<1>7. CASE \E r \in Requests : WorkerAnswer(r) \/ HandleAnswer(r) \/ ThreadEnd(r)
  <2> PICK r \in Requests : WorkerAnswer(r) \/ HandleAnswer(r) \/ ThreadEnd(r)
    BY <1>7
  <2>1. phase' \in [Requests -> Phases]
    BY DEF WorkerAnswer, HandleAnswer, ThreadEnd, Move, TypeOK
  <2>2. outcome' \in [Requests -> {"none", "applied", "failed", "ignored"}]
    BY DEF WorkerAnswer, HandleAnswer, ThreadEnd, TypeOK
  <2> QED
    BY <2>1, <2>2 DEF WorkerAnswer, HandleAnswer, ThreadEnd, TypeOK, drvVars, jobVars
<1>8. CASE \E r \in Requests : Cleanup(r)
  <2> PICK r \in Requests : Cleanup(r)
    BY <1>8
  <2>1. CASE Move(r, "done") /\ UNCHANGED queue
    BY <2>1 DEF Cleanup, Move, TypeOK, jobVars
  <2>2. CASE ~(closing \/ queue = <<>>)
    <3>1. Head(queue) \in Requests /\ Tail(queue) \in Seq(Requests)
      BY <2>2 DEF TypeOK
    <3>2. phase' \in [Requests -> Phases] /\ queue' \in Seq(Requests)
      BY <2>2, <3>1 DEF Cleanup, TypeOK
    <3> QED
      BY <3>2 DEF Cleanup, TypeOK, jobVars
  <2> QED
    BY <2>1, <2>2 DEF Cleanup
<1>9. CASE StartedSlot
  BY <1>9 DEF StartedSlot, TypeOK, jobVars
<1>10. CASE FwClick \/ FwPromptAnswer \/ FwStep
  <2>1. modal' \in Seq(Frames)
    BY <1>10, PushType, PopType DEF FwClick, FwPromptAnswer, FwStep, Frames, TypeOK
  <2>2. fw' \in {"idle", "running", "answered", "ended"} /\ UNCHANGED drvSide
        /\ UNCHANGED refreshVars
    BY <1>10 DEF FwClick, FwPromptAnswer, FwStep, TypeOK
  <2> QED
    BY <2>1, <2>2 DEF TypeOK, drvSide, drvVars, refreshVars
<1>11. CASE RefreshClick \/ RefreshAnswer \/ StalePrompt \/ RefreshStep
  <2>1. modal' \in Seq(Frames)
    BY <1>11, PushType, PopType DEF RefreshClick, RefreshAnswer, StalePrompt,
                                    RefreshStep, Frames, TypeOK
  <2> QED
    BY <1>11, <2>1, ZenonT(60) DEF RefreshClick, RefreshAnswer, StalePrompt, RefreshStep,
                       TypeOK, drvSide, drvVars, refreshVars
<1>14. CASE StaleAnswer
  <2>1. modal' \in Seq(Frames)
    <3>1. Tail(modal) \in Seq(Frames)
      BY <1>14 DEF StaleAnswer, TypeOK
    <3>2. <<"refresh">> \in Seq(Frames)
      BY DEF Frames
    <3>3. <<"refresh">> \o Tail(modal) \in Seq(Frames)
      BY <3>1, <3>2
    <3> QED
      BY <1>14, <3>1, <3>3 DEF StaleAnswer
  <2> QED
    BY <1>14, <2>1 DEF StaleAnswer, TypeOK, drvSide, drvVars, refreshVars
<1>12. CASE RunAnalysis \/ Close
  <2>1. phase' \in [Requests -> Phases]
    BY <1>12 DEF RunAnalysis, Close, Cancelled, TypeOK
  <2>2. gen' \in 0..MaxGen /\ queue' \in Seq(Requests)
    <3>1. MaxGen \in Nat /\ gen \in 0..MaxGen
      BY ConstantsAssumption DEF TypeOK
    <3>2. CASE RunAnalysis
      BY <3>1, <3>2 DEF RunAnalysis
    <3>3. CASE Close
      BY <3>1, <3>3 DEF Close
    <3> QED
      BY <1>12, <3>2, <3>3
  <2> QED
    BY <1>12, <2>1, <2>2 DEF RunAnalysis, Close, TypeOK, drvVars, jobVars
<1>13. CASE SwitchProfile \/ UNCHANGED vars
  BY <1>13, ZenonT(60) DEF SwitchProfile, vars, TypeOK, drvVars, refreshVars
<1> QED
  BY <1>1, <1>2, <1>3, <1>4, <1>5, <1>6, <1>7, <1>8, <1>9, <1>10, <1>11, <1>12,
     <1>13, <1>14 DEF Next

\* The types of CatalogSearch are correct in every reachable state.
THEOREM TypeCorrect == Spec => []TypeOK
<1>1. Init => TypeOK
  BY InitInv DEF IInv
<1>2. QED
  BY <1>1, TypeStep, PTL DEF Spec

-----------------------------------------------------------------------------
(* The strengthening is inductive. *)

CoreInv == HandleInv /\ StartingInv /\ QueueInv /\ RefreshInv

Resting == {"idle", "prompt", "chained", "popped"}

\* A request that only rests may go to any phase but a live one.
LEMMA RestInv ==
  ASSUME IInv, NEW r \in Requests, phase[r] \in Resting,
         NEW p \in Phases \ (Alive \cup {"ended"}), Move(r, p),
         UNCHANGED <<queue, held, starting, refresh, refreshRef, closing>>
  PROVE  CoreInv'
<1> USE DEF IInv, TypeOK, Resting, Alive
<1>1. \A s \in Requests : phase'[s] = IF s = r THEN p ELSE phase[s]
  BY DEF Move
<1>2. HandleInv'
  BY <1>1, ConstantsAssumption DEF HandleInv
<1>3. StartingInv'
  BY <1>1, ConstantsAssumption DEF StartingInv
<1>4. QueueInv'
  BY <1>1 DEF QueueInv
<1>5. RefreshInv'
  BY <1>1 DEF RefreshInv, Searching
<1> QED
  BY <1>2, <1>3, <1>4, <1>5 DEF CoreInv

\* Launching from a settled state in which neither a driver search nor a
\* refresh is seen running.
LEMMA LaunchInv ==
  ASSUME IInv, ~FinishRace, Settled, ~DrvBusy, ~RefreshBusy,
         NEW r \in Requests, phase[r] \in Resting, Launch(r),
         UNCHANGED <<queue, refresh, refreshRef, closing>>
  PROVE  CoreInv'
<1>1. \A s \in Requests : phase[s] \notin Alive \cup {"ended"}
  BY NotBusyNoThread
<1>2. /\ \A s \in Requests : phase'[s] = IF s = r THEN "running" ELSE phase[s]
      /\ held' = r /\ starting' = TRUE
  BY DEF Launch, Move, IInv, TypeOK
<1>3. HandleInv'
  BY <1>1, <1>2 DEF HandleInv, Alive
<1>4. StartingInv'
  BY <1>2, ConstantsAssumption DEF StartingInv
<1>5. QueueInv'
  BY <1>2 DEF QueueInv, IInv, TypeOK, Resting
<1>6. RefreshInv'
  BY DEF RefreshInv, RefreshBusy, IInv
<1> QED
  BY <1>3, <1>4, <1>5, <1>6 DEF CoreInv

LEMMA StartTabInv ==
  ASSUME IInv, ~FinishRace, Settled,
         NEW r \in Requests, phase[r] \in Resting, StartTab(r),
         UNCHANGED <<refresh, refreshRef, closing>>
  PROVE  CoreInv'
<1>1. CASE Move(r, "dropped") /\ UNCHANGED <<queue, drvVars>>
  BY <1>1, RestInv DEF drvVars, Phases, Over, Alive
<1>2. CASE /\ Move(r, "queued") /\ queue' = Append(queue, r)
           /\ UNCHANGED drvVars
  <2> USE DEF IInv, TypeOK, Resting, Alive, drvVars
  <2>1. \A s \in Requests : phase'[s] = IF s = r THEN "queued" ELSE phase[s]
    BY <1>2 DEF Move
  <2>2. HandleInv' /\ StartingInv'
    BY <1>2, <2>1, ConstantsAssumption DEF HandleInv, StartingInv
  <2>3. \A i \in 1..Len(queue) : queue[i] # r
    BY DEF QueueInv
  <2>4. QueueInv'
    <3>1. /\ Len(queue') = Len(queue) + 1
          /\ \A i \in 1..Len(queue) : queue'[i] = queue[i]
          /\ queue'[Len(queue) + 1] = r
          /\ Len(queue) \in Nat
      BY <1>2
    <3>2. ASSUME NEW i \in 1..Len(queue')
          PROVE  phase'[queue'[i]] = "queued"
      <4>1. CASE i \in 1..Len(queue)
        <5>1. queue[i] \in Requests /\ phase[queue[i]] = "queued"
          BY <4>1 DEF QueueInv
        <5> QED
          BY <2>1, <3>1, <4>1, <5>1
      <4>2. CASE i = Len(queue) + 1
        BY <2>1, <3>1, <4>2
      <4> QED
        BY <3>1, <3>2, <4>1, <4>2
    <3>3. ASSUME NEW i \in 1..Len(queue'), NEW j \in 1..Len(queue'),
                 queue'[i] = queue'[j]
          PROVE  i = j
      <4>1. CASE i \in 1..Len(queue) /\ j \in 1..Len(queue)
        BY <3>1, <3>3, <4>1 DEF QueueInv
      <4>2. CASE i = Len(queue) + 1 /\ j \in 1..Len(queue)
        <5>1. queue'[j] = queue[j] /\ queue'[i] = r
          BY <3>1, <4>2
        <5>2. queue[j] # r
          BY <2>3, <4>2
        <5> QED
          BY <3>3, <5>1, <5>2
      <4>3. CASE j = Len(queue) + 1 /\ i \in 1..Len(queue)
        <5>1. queue'[i] = queue[i] /\ queue'[j] = r
          BY <3>1, <4>3
        <5>2. queue[i] # r
          BY <2>3, <4>3
        <5> QED
          BY <3>3, <5>1, <5>2
      <4>4. CASE i = Len(queue) + 1 /\ j = Len(queue) + 1
        BY <4>4
      <4>5. \A k \in 1..Len(queue') : k \in 1..Len(queue) \/ k = Len(queue) + 1
        BY <3>1
      <4> QED
        BY <4>1, <4>2, <4>3, <4>4, <4>5
    <3> QED
      BY <3>2, <3>3 DEF QueueInv
  <2>5. RefreshInv'
    BY <2>1 DEF RefreshInv, Searching
  <2> QED
    BY <2>2, <2>4, <2>5 DEF CoreInv
<1>3. CASE ~DrvBlocked /\ ~DrvBusy /\ Launch(r) /\ UNCHANGED queue
  BY <1>3, LaunchInv DEF DrvBlocked
<1> QED
  BY <1>1, <1>2, <1>3 DEF StartTab

\* No dialog opens once the window is closing.
LEMMA ClosingStep == IInv /\ [Next]_vars => ClosingInv'
<1> SUFFICES ASSUME IInv, [Next]_vars, closing' PROVE modal' = <<>>
  BY DEF ClosingInv
<1>1. CASE Close
  BY <1>1 DEF Close, Clickable
<1>2. CASE ~Close
  <2>1. closing /\ modal = <<>>
    BY <1>2 DEF Next, vars, BeginClick, ChainContinue, AutoTimer, SummaryClick,
          PromptAnswer, FireQueued, WorkerAnswer, HandleAnswer, ThreadEnd,
          Cleanup, StartedSlot, FwClick, FwPromptAnswer, FwStep, RefreshClick,
          RefreshAnswer, StalePrompt, StaleAnswer, RefreshStep, RunAnalysis,
          SwitchProfile, drvSide, IInv, ClosingInv
  <2> QED
    BY <1>2, <2>1 DEF Next, vars, BeginClick, ChainContinue, AutoTimer,
          SummaryClick, PromptAnswer, FireQueued, WorkerAnswer, HandleAnswer,
          ThreadEnd, Cleanup, StartedSlot, FwClick, FwPromptAnswer, FwStep,
          RefreshClick, RefreshAnswer, StalePrompt, StaleAnswer, RefreshStep,
          RunAnalysis, SwitchProfile, Clickable, Pop
<1> QED
  BY <1>1, <1>2

\* A thread that answers, quits or ends stays the one in the handle.
LEMMA ThreadInv ==
  ASSUME IInv, NEW r \in Requests, phase[r] \in Alive,
         NEW p \in Alive \cup {"ended"}, Move(r, p),
         starting => p \in {"running", "answered", "failed"},
         UNCHANGED <<queue, held, starting, refresh, refreshRef, closing>>
  PROVE  CoreInv'
<1> USE DEF IInv, TypeOK
<1>1. \A s \in Requests : phase'[s] = IF s = r THEN p ELSE phase[s]
  BY DEF Move
<1>2. held = r
  BY DEF HandleInv
<1>3. HandleInv'
  BY <1>1, <1>2 DEF HandleInv
<1>4. StartingInv'
  BY <1>1, <1>2 DEF StartingInv
<1>5. QueueInv'
  BY <1>1 DEF QueueInv, Alive
<1>6. RefreshInv'
  BY <1>1 DEF RefreshInv, Searching
<1> QED
  BY <1>3, <1>4, <1>5, <1>6 DEF CoreInv

\* The cleanup empties the handle and pops the head of the queue.
LEMMA CleanupInv ==
  ASSUME IInv, NEW r \in Requests, Cleanup(r)
  PROVE  CoreInv'
<1> USE DEF IInv, TypeOK, Alive
<1>1. /\ phase[r] = "ended" /\ held' = None /\ starting' = FALSE
      /\ UNCHANGED <<refresh, refreshRef, closing>>
  BY DEF Cleanup, jobVars
<1>2. \A s \in Requests : s # r => phase[s] \notin Alive \cup {"ended"}
  BY <1>1 DEF HandleInv
<1>3. CASE Move(r, "done") /\ UNCHANGED queue
  <2>1. \A s \in Requests : phase'[s] = IF s = r THEN "done" ELSE phase[s]
    BY <1>3 DEF Move
  <2>2. HandleInv' /\ StartingInv'
    BY <1>1, <1>2, <2>1 DEF HandleInv, StartingInv
  <2>3. QueueInv'
    <3>1. \A i \in 1..Len(queue) : queue[i] \in Requests /\ queue[i] # r
      BY <1>1 DEF QueueInv
    <3>2. \A i \in 1..Len(queue) : phase'[queue[i]] = "queued"
      BY <2>1, <3>1 DEF QueueInv
    <3> QED
      BY <1>3, <3>2 DEF QueueInv
  <2>4. RefreshInv'
    BY <1>1, <2>1 DEF RefreshInv, Searching
  <2> QED
    BY <2>2, <2>3, <2>4 DEF CoreInv
<1>4. CASE /\ queue # <<>> /\ queue' = Tail(queue)
           /\ phase' = [phase EXCEPT ![r] = "done", ![Head(queue)] = "popped"]
  <2>1. /\ Head(queue) = queue[1] /\ Head(queue) \in Requests /\ Len(queue) \in Nat
        /\ Len(queue) >= 1 /\ Len(queue') = Len(queue) - 1
        /\ \A i \in 1..Len(queue') : queue'[i] = queue[i + 1]
    BY <1>4
  <2>2. phase[Head(queue)] = "queued" /\ Head(queue) # r
    BY <1>1, <2>1 DEF QueueInv
  <2>3. \A s \in Requests :
          phase'[s] = IF s = r THEN "done"
                      ELSE IF s = Head(queue) THEN "popped" ELSE phase[s]
    BY <1>4, <2>1, <2>2
  <2>4. HandleInv' /\ StartingInv'
    BY <1>1, <1>2, <2>3 DEF HandleInv, StartingInv
  <2>5. QueueInv'
    <3>1. ASSUME NEW i \in 1..Len(queue')
          PROVE  phase'[queue'[i]] = "queued"
      <4>1. i + 1 \in 1..Len(queue) /\ 1 \in 1..Len(queue) /\ i + 1 # 1
        BY <2>1
      <4>2. queue'[i] = queue[i + 1] /\ queue[i + 1] \in Requests
        BY <2>1, <4>1
      <4>3. phase[queue[i + 1]] = "queued" /\ queue[i + 1] # queue[1]
        BY <4>1 DEF QueueInv
      <4> QED
        BY <1>1, <2>1, <2>3, <4>2, <4>3
    <3>2. ASSUME NEW i \in 1..Len(queue'), NEW j \in 1..Len(queue'),
                 queue'[i] = queue'[j]
          PROVE  i = j
      <4>1. i + 1 \in 1..Len(queue) /\ j + 1 \in 1..Len(queue)
        BY <2>1
      <4>2. queue[i + 1] = queue[j + 1]
        BY <2>1, <3>2
      <4>3. i + 1 = j + 1
        BY <4>1, <4>2 DEF QueueInv
      <4> QED
        BY <4>3
    <3> QED
      BY <3>1, <3>2 DEF QueueInv
  <2>6. RefreshInv'
    BY <1>1, <2>3 DEF RefreshInv, Searching
  <2> QED
    BY <2>4, <2>5, <2>6 DEF CoreInv
<1> QED
  BY <1>3, <1>4 DEF Cleanup

\* Clearing the queue touches only requests that wait in it.
LEMMA CancelInv ==
  ASSUME IInv, phase' = Cancelled, queue' = <<>>,
         UNCHANGED <<held, starting, refresh>>,
         (refresh # "idle" /\ ~closing') => UNCHANGED <<refreshRef, closing>>
  PROVE  CoreInv'
<1> USE DEF IInv, TypeOK, Alive
<1>1. \A s \in Requests :
        phase'[s] = IF phase[s] = "queued" THEN "cancelled" ELSE phase[s]
  BY DEF Cancelled
<1>2. HandleInv' /\ StartingInv'
  BY <1>1, ConstantsAssumption DEF HandleInv, StartingInv
<1>3. QueueInv'
  BY DEF QueueInv
<1>4. RefreshInv'
  BY <1>1 DEF RefreshInv, Searching
<1> QED
  BY <1>2, <1>3, <1>4 DEF CoreInv

\* Steps that leave the driver search alone and do not start a refresh while
\* one is alive.
LEMMA SideInv ==
  ASSUME IInv, UNCHANGED drvSide,
         refresh' # "idle" /\ ~closing => refreshRef' /\ Searching = {}
  PROVE  CoreInv'
<1> USE DEF IInv, TypeOK, drvSide, drvVars
<1>1. HandleInv' /\ StartingInv' /\ QueueInv'
  BY DEF HandleInv, StartingInv, QueueInv
<1>2. RefreshInv'
  BY DEF RefreshInv, Searching
<1> QED
  BY <1>1, <1>2 DEF CoreInv

\* Between the end of a thread and its cleanup no handler runs, and a refresh
\* starts only when no thread is alive.
LEMMA InvStep ==
  ASSUME ~FinishRace
  PROVE  IInv /\ [Next]_vars => IInv'
<1> SUFFICES ASSUME IInv, [Next]_vars PROVE CoreInv'
  BY TypeStep, ClosingStep DEF IInv, CoreInv
<1> USE DEF Resting
<1>1. CASE \E r \in ClickRequests : BeginClick(r) \/ ChainContinue(r)
  <2> PICK r \in ClickRequests : BeginClick(r) \/ ChainContinue(r)
    BY <1>1
  <2>1. r \in Requests
    BY DEF Requests
  <2>2. CASE BeginClick(r)
    BY <2>1, <2>2, RestInv DEF BeginClick, drvVars, jobVars, Phases, Waiting, Alive
  <2>3. CASE ChainContinue(r) /\ StartTab(r)
    BY <2>1, <2>3, StartTabInv DEF ChainContinue, jobVars
  <2>4. CASE ChainContinue(r) /\ Move(r, "dropped") /\ UNCHANGED <<queue, drvVars>>
    BY <2>1, <2>4, RestInv DEF ChainContinue, drvVars, jobVars, Phases, Over, Alive
  <2> QED
    BY <2>2, <2>3, <2>4 DEF ChainContinue
<1>2. CASE \E r \in AutoRequests : AutoTimer(r)
  <2> PICK r \in AutoRequests : AutoTimer(r)
    BY <1>2
  <2>1. r \in Requests /\ phase[r] = "idle" /\ Settled
    BY DEF Requests, AutoTimer
  <2>2. CASE StartTab(r)
    BY <2>1, <2>2, StartTabInv DEF AutoTimer, jobVars
  <2>3. CASE Move(r, "prompt") /\ UNCHANGED <<queue, drvVars>>
    BY <2>1, <2>3, RestInv DEF AutoTimer, drvVars, jobVars, Phases, Waiting, Alive
  <2> QED
    BY <2>2, <2>3 DEF AutoTimer
<1>3. CASE \E r \in SummaryRequests : SummaryClick(r)
  <2> PICK r \in SummaryRequests : SummaryClick(r)
    BY <1>3
  <2>1. r \in Requests /\ phase[r] = "idle" /\ Settled /\ ~DrvBusy
    BY DEF Requests, SummaryClick, Clickable
  <2>2. CASE ~RefreshBusy /\ Launch(r)
    BY <2>1, <2>2, LaunchInv DEF SummaryClick, jobVars
  <2>3. CASE Move(r, "dropped") /\ UNCHANGED <<held, starting>>
    BY <2>1, <2>3, RestInv DEF SummaryClick, jobVars, Phases, Over, Alive
  <2> QED
    BY <2>2, <2>3 DEF SummaryClick
<1>4. CASE \E r \in Requests : PromptAnswer(r)
  <2> PICK r \in Requests : PromptAnswer(r)
    BY <1>4
  <2>1. phase[r] = "prompt" /\ Settled /\ UNCHANGED <<jobVars, closing>>
    BY DEF PromptAnswer
  <2>2. CASE StartTab(r)
    BY <2>1, <2>2, StartTabInv DEF jobVars
  <2>3. CASE ~StartTab(r)
    BY <2>1, <2>3, RestInv DEF PromptAnswer, drvVars, jobVars, Phases, Waiting, Over, Alive
  <2> QED
    BY <2>2, <2>3
<1>5. CASE \E r \in Requests : FireQueued(r)
  BY <1>5, StartTabInv DEF FireQueued, jobVars
<1>6. CASE \E r \in Requests : WorkerAnswer(r)
  BY <1>6, ThreadInv DEF WorkerAnswer, drvVars, jobVars, Alive
<1>7. CASE \E r \in Requests : HandleAnswer(r)
  <2> PICK r \in Requests : HandleAnswer(r)
    BY <1>7
  <2>1. phase[r] \in Alive /\ held = r
    BY DEF HandleAnswer, Alive, IInv, HandleInv
  <2>2. ~starting
    BY <2>1 DEF HandleAnswer
  <2> QED
    BY <2>1, <2>2, ThreadInv DEF HandleAnswer, drvVars, jobVars, Alive
<1>8. CASE \E r \in Requests : ThreadEnd(r)
  <2> PICK r \in Requests : ThreadEnd(r)
    BY <1>8
  <2>1. phase[r] = "quitting" /\ phase[r] \in Alive /\ held = r
    BY DEF ThreadEnd, Alive, IInv, HandleInv
  <2>2. ~starting
    BY <2>1 DEF IInv, StartingInv
  <2> QED
    BY <2>1, <2>2, ThreadInv DEF ThreadEnd, drvVars, jobVars
<1>9. CASE \E r \in Requests : Cleanup(r)
  BY <1>9, CleanupInv
<1>10. CASE StartedSlot
  BY <1>10 DEF StartedSlot, jobVars, IInv, CoreInv, HandleInv, StartingInv,
               QueueInv, RefreshInv, Searching
<1>11. CASE \/ FwClick \/ FwPromptAnswer \/ FwStep \/ RefreshClick
             \/ StalePrompt \/ StaleAnswer
  BY <1>11, SideInv DEF FwClick, FwPromptAnswer, FwStep, RefreshClick, StalePrompt,
                        StaleAnswer, refreshVars, IInv, RefreshInv
<1>12. CASE RefreshAnswer
  <2>1. CASE ~DrvBusy /\ refreshRef'
    <3>1. \A s \in Requests : phase[s] \notin Alive \cup {"ended"}
      BY <2>1, <1>12, NotBusyNoThread DEF RefreshAnswer
    <3>2. Searching = {}
      BY <3>1 DEF Searching
    <3> QED
      BY <1>12, <2>1, <3>2, SideInv DEF RefreshAnswer
  <2>2. CASE UNCHANGED refreshVars
    BY <1>12, <2>2, SideInv DEF RefreshAnswer, refreshVars, IInv, RefreshInv
  <2> QED
    BY <1>12, <2>1, <2>2 DEF RefreshAnswer
<1>13. CASE RefreshStep
  BY <1>13, SideInv DEF RefreshStep, IInv, RefreshInv
<1>14. CASE RunAnalysis
  BY <1>14, CancelInv DEF RunAnalysis, drvVars, jobVars
<1>15. CASE Close
  BY <1>15, CancelInv DEF Close, drvVars
<1>16. CASE SwitchProfile \/ UNCHANGED vars
  BY <1>16 DEF SwitchProfile, vars, drvVars, refreshVars, IInv, CoreInv, HandleInv, StartingInv, QueueInv, RefreshInv,
               Searching
<1> QED
  BY <1>1, <1>2, <1>3, <1>4, <1>5, <1>6, <1>7, <1>8, <1>9, <1>10, <1>11, <1>12,
     <1>13, <1>14, <1>15, <1>16 DEF Next

-----------------------------------------------------------------------------
(* The safety properties. *)

LEMMA OneSearchFromInv == IInv => OneSearchAndSeen
<1> SUFFICES ASSUME IInv PROVE OneSearchAndSeen
  OBVIOUS
<1>1. \A r \in Searching : r \in Requests /\ phase[r] \in Alive /\ held = r
  BY DEF Searching, IInv, HandleInv
<1>2. Searching # {} => DrvBusy
  BY <1>1, ConstantsAssumption DEF DrvBusy
<1> QED
  BY <1>1, <1>2 DEF OneSearchAndSeen

\* As long as nothing runs between the end of a thread and its cleanup, there
\* is at most one driver search and the busy test sees it: the promise of the
\* _drv_catalog_thread_busy and _launch_drv_catalog_worker docstrings.
THEOREM OneSearch ==
  ASSUME ~FinishRace
  PROVE  Spec => []OneSearchAndSeen
<1>1. IInv /\ [Next]_vars => IInv'
  BY InvStep
<1> QED
  BY <1>1, InitInv, OneSearchFromInv, PTL DEF Spec

\* Under the same assumption the driver search and the Tools database refresh
\* are mutually exclusive, however the dialogs and timers interleave.
THEOREM SearchAndRefreshExclusive ==
  ASSUME ~FinishRace
  PROVE  Spec => []SearchRefreshExclusive
<1>1. IInv /\ [Next]_vars => IInv'
  BY InvStep
<1>2. IInv => SearchRefreshExclusive
  BY DEF IInv, RefreshInv, SearchRefreshExclusive
<1> QED
  BY <1>1, <1>2, InitInv, PTL DEF Spec

-----------------------------------------------------------------------------
(* Answers reach only the request they belong to. *)

\* A live search owns the target fields, and the generation of its launch is
\* the one _drv_catalog_job_stale compares with.
OwnerInv ==
  \A r \in Requests : phase[r] \in Alive => owner = r /\ launchGen[r] = jobGen

\* A launch from a state without live threads makes the launched one the owner.
LEMMA OwnerLaunch ==
  ASSUME TypeOK, NEW r \in Requests, Launch(r),
         \A s \in Requests : phase[s] \notin Alive
  PROVE  OwnerInv'
BY DEF Launch, Move, TypeOK, OwnerInv

\* A step that keeps the fields keeps OwnerInv when it wakes no thread.
LEMMA OwnerKept ==
  ASSUME OwnerInv, UNCHANGED <<owner, jobGen, launchGen>>,
         \A s \in Requests : phase'[s] \in Alive => phase[s] \in Alive
  PROVE  OwnerInv'
BY DEF OwnerInv

LEMMA OwnerStartTab ==
  ASSUME IInv, OwnerInv, ~FinishRace, Settled, NEW r \in Requests, StartTab(r)
  PROVE  OwnerInv'
<1>1. CASE ~DrvBusy /\ Launch(r)
  BY <1>1, NotBusyNoThread, OwnerLaunch DEF IInv
<1>2. CASE Move(r, "dropped") /\ UNCHANGED drvVars
  BY <1>2, OwnerKept DEF Move, IInv, TypeOK, Alive, drvVars
<1>3. CASE Move(r, "queued") /\ UNCHANGED drvVars
  BY <1>3, OwnerKept DEF Move, IInv, TypeOK, Alive, drvVars
<1> QED
  BY <1>1, <1>2, <1>3 DEF StartTab, drvVars

LEMMA OwnerStep ==
  ASSUME ~FinishRace
  PROVE  IInv /\ OwnerInv /\ [Next]_vars => OwnerInv'
<1> SUFFICES ASSUME IInv, OwnerInv, [Next]_vars PROVE OwnerInv'
  OBVIOUS
<1>1. ASSUME NEW r \in Requests, Settled, StartTab(r) PROVE OwnerInv'
  BY <1>1, OwnerStartTab
<1>2. ASSUME NEW r \in Requests, NEW p \in Phases, Move(r, p),
             p \in Alive => phase[r] \in Alive,
             UNCHANGED <<owner, jobGen, launchGen>>
      PROVE  OwnerInv'
  BY <1>2, OwnerKept DEF Move, IInv, TypeOK
<1>3. CASE \E r \in ClickRequests : BeginClick(r) \/ ChainContinue(r)
  BY <1>1, <1>2, <1>3 DEF BeginClick, ChainContinue, Requests, drvVars, Phases,
                         Waiting, Alive, Over
<1>4. CASE \E r \in AutoRequests : AutoTimer(r)
  BY <1>1, <1>2, <1>4 DEF AutoTimer, Requests, drvVars, Phases, Waiting, Alive
<1>5. CASE \E r \in SummaryRequests : SummaryClick(r)
  <2> PICK r \in SummaryRequests : SummaryClick(r)
    BY <1>5
  <2>1. r \in Requests
    BY DEF Requests
  <2>2. \A s \in Requests : phase[s] \notin Alive
    BY NotBusyNoThread DEF SummaryClick, Clickable
  <2>3. CASE Launch(r)
    BY <2>1, <2>2, <2>3, OwnerLaunch DEF IInv
  <2>4. CASE Move(r, "dropped")
    BY <2>1, <2>2, <2>4 DEF OwnerInv, Move, IInv, TypeOK, Alive
  <2> QED
    BY <2>3, <2>4 DEF SummaryClick
<1>6. CASE \E r \in Requests : PromptAnswer(r)
  BY <1>1, <1>2, <1>6 DEF PromptAnswer, drvVars, Phases, Waiting, Over, Alive
<1>7. CASE \E r \in Requests : FireQueued(r)
  BY <1>1, <1>7 DEF FireQueued
<1>8. CASE \E r \in Requests : WorkerAnswer(r) \/ HandleAnswer(r) \/ ThreadEnd(r)
  BY <1>2, <1>8 DEF WorkerAnswer, HandleAnswer, ThreadEnd, drvVars, Phases, Alive
<1>9. CASE \E r \in Requests : Cleanup(r)
  <2> PICK r \in Requests : Cleanup(r)
    BY <1>9
  <2>1. CASE Move(r, "done")
    BY <1>2, <2>1 DEF Cleanup, Phases, Alive, Over
  <2>2. CASE phase' = [phase EXCEPT ![r] = "done", ![Head(queue)] = "popped"]
    BY <2>2, OwnerKept DEF Cleanup, Alive, IInv, TypeOK
  <2> QED
    BY <2>1, <2>2 DEF Cleanup
<1>10. CASE StartedSlot
  BY <1>10, OwnerKept DEF StartedSlot
<1>11. CASE \/ FwClick \/ FwPromptAnswer \/ FwStep \/ RefreshClick
             \/ RefreshAnswer \/ StalePrompt \/ StaleAnswer \/ RefreshStep
  <2>1. UNCHANGED drvSide
    BY <1>11 DEF FwClick, FwPromptAnswer, FwStep, RefreshClick, RefreshAnswer,
                 StalePrompt, StaleAnswer, RefreshStep
  <2> QED
    BY <2>1, OwnerKept DEF drvSide, drvVars
<1>12. CASE RunAnalysis \/ Close
  <2>1. \A s \in Requests : phase'[s] \in Alive => phase[s] \in Alive
    BY <1>12 DEF RunAnalysis, Close, Cancelled, Alive
  <2> QED
    BY <1>12, <2>1, OwnerKept DEF RunAnalysis, Close, drvVars
<1>13. CASE SwitchProfile \/ UNCHANGED vars
  BY <1>13, OwnerKept DEF SwitchProfile, vars, drvVars
<1> QED
  BY <1>3, <1>4, <1>5, <1>6, <1>7, <1>8, <1>9, <1>10, <1>11, <1>12, <1>13 DEF Next

AnswerStep ==
  \A r \in Requests : outcome[r] = "none" /\ outcome'[r] = "applied"
     => owner = r /\ launchGen[r] = gen /\ ~closing

\* A catalog answer is applied only for the request the window's target fields
\* belong to, in the generation it was launched in, and never during shutdown.
THEOREM AnswersBelong ==
  ASSUME ~FinishRace
  PROVE  Spec => AnswerBelongs
<1>1. Init => OwnerInv
  BY DEF Init, OwnerInv, Alive
<1>2. IInv /\ [Next]_vars => IInv'
  BY InvStep
<1>3. IInv /\ OwnerInv /\ [Next]_vars => OwnerInv'
  BY OwnerStep
<1>4. IInv /\ OwnerInv /\ [Next]_vars => [AnswerStep]_vars
  <2> SUFFICES ASSUME IInv, OwnerInv, Next, NEW r \in Requests,
                      outcome[r] = "none", outcome'[r] = "applied"
               PROVE  owner = r /\ launchGen[r] = gen /\ ~closing
    BY DEF AnswerStep
  <2>1. outcome' # outcome
    OBVIOUS
  <2>2. PICK s \in Requests : HandleAnswer(s)
    BY <2>1 DEF Next, BeginClick, ChainContinue, AutoTimer, SummaryClick,
         PromptAnswer, FireQueued, WorkerAnswer, ThreadEnd, Cleanup,
         StartedSlot, FwClick, FwPromptAnswer, FwStep, RefreshClick,
         RefreshAnswer, StalePrompt, StaleAnswer, RefreshStep, RunAnalysis, Close,
         SwitchProfile, drvSide
  <2>3. r = s /\ ~JobStale /\ phase[r] \in Alive
    BY <2>2 DEF HandleAnswer, IInv, TypeOK, Alive
  <2> QED
    BY <2>3 DEF OwnerInv, JobStale
<1> QED
  BY <1>1, <1>2, <1>3, <1>4, InitInv, PTL DEF Spec, AnswerBelongs, AnswerStep

-----------------------------------------------------------------------------
(* The scheduler implements the counter with one clerk. *)

Waits == {r \in Requests : phase[r] \in Waiting}
Serves == {r \in Requests : phase[r] \in Alive}
Retires == {r \in Requests : phase[r] \in {"ended"} \cup Over}

ServerStep == [Server!Next]_<<Waits, Serves, Retires>>

\* One request moves between phases that mean the same to the counter.
LEMMA StutterStep ==
  ASSUME TypeOK, NEW r \in Requests, NEW p \in Phases, Move(r, p),
         \/ phase[r] \in Waiting /\ p \in Waiting
         \/ phase[r] \in Alive /\ p \in Alive
         \/ phase[r] = "ended" /\ p = "done"
  PROVE  ServerStep
<1>1. Waits' = Waits /\ Serves' = Serves /\ Retires' = Retires
  BY DEF TypeOK, Move, Waits, Serves, Retires, Waiting, Alive, Over, Phases
<1> QED
  BY <1>1 DEF ServerStep

\* A request begins to wait.
LEMMA AskStep ==
  ASSUME TypeOK, NEW r \in Requests, NEW p \in Waiting, Move(r, p),
         phase[r] = "idle"
  PROVE  ServerStep
<1>1. /\ Waits' = Waits \cup {r} /\ Serves' = Serves /\ Retires' = Retires
      /\ r \notin Waits \cup Serves \cup Retires
  BY DEF TypeOK, Move, Waits, Serves, Retires, Waiting, Alive, Over, Phases
<1>2. Server!Ask(r)
  BY <1>1 DEF Server!Ask, Server!Fresh, Waits, Serves, Retires
<1> QED
  BY <1>2 DEF ServerStep, Server!Next, Waits, Serves, Retires

\* A request is turned away.
LEMMA TurnAwayStep ==
  ASSUME TypeOK, NEW r \in Requests, Move(r, "dropped"),
         phase[r] \in {"idle"} \cup Waiting
  PROVE  ServerStep
<1>1. /\ Waits' = Waits \ {r} /\ Serves' = Serves /\ Retires' = Retires \cup {r}
      /\ r \in Waits \/ r \notin Waits \cup Serves \cup Retires
  BY DEF TypeOK, Move, Waits, Serves, Retires, Waiting, Alive, Over, Phases
<1>2. Server!TurnAway({r})
  BY <1>1 DEF Server!TurnAway, Server!Fresh, Waits, Serves, Retires
<1> QED
  BY <1>2 DEF ServerStep, Server!Next, Waits, Serves, Retires

\* A request is launched while no thread is alive.
LEMMA ServeStep ==
  ASSUME TypeOK, NEW r \in Requests, Launch(r),
         phase[r] \in {"idle"} \cup Waiting,
         \A s \in Requests : phase[s] \notin Alive
  PROVE  ServerStep
<1>1. /\ Waits' = Waits \ {r} /\ Serves = {} /\ Serves' = {r} /\ Retires' = Retires
      /\ r \in Waits \/ r \notin Waits \cup Serves \cup Retires
  BY DEF TypeOK, Launch, Move, Waits, Serves, Retires, Waiting, Alive, Over, Phases
<1>2. Server!Serve(r)
  BY <1>1 DEF Server!Serve, Server!Fresh, Waits, Serves, Retires
<1> QED
  BY <1>2 DEF ServerStep, Server!Next, Waits, Serves, Retires

\* The queue is cleared.
LEMMA ClearStep ==
  ASSUME TypeOK, phase' = Cancelled
  PROVE  ServerStep
<1>1. PICK Q \in SUBSET Requests : Q = {r \in Requests : phase[r] = "queued"}
  OBVIOUS
<1>2. /\ Waits' = Waits \ Q /\ Serves' = Serves /\ Retires' = Retires \cup Q
      /\ Q \subseteq Waits
  BY <1>1 DEF TypeOK, Cancelled, Waits, Serves, Retires, Waiting, Alive, Over, Phases
<1>3. Server!TurnAway(Q)
  BY <1>2 DEF Server!TurnAway, Waits, Serves, Retires
<1> QED
  BY <1>3 DEF ServerStep, Server!Next

LEMMA StartTabStep ==
  ASSUME IInv, ~FinishRace, Settled, NEW r \in Requests, StartTab(r),
         phase[r] \in {"idle"} \cup (Waiting \ {"queued"})
  PROVE  ServerStep
<1>1. CASE ~DrvBusy /\ Launch(r)
  BY <1>1, NotBusyNoThread, ServeStep DEF IInv
<1>2. CASE Move(r, "dropped")
  BY <1>2, TurnAwayStep DEF IInv
<1>3. CASE Move(r, "queued")
  BY <1>3, AskStep, StutterStep DEF IInv, Waiting, Phases
<1> QED
  BY <1>1, <1>2, <1>3 DEF StartTab

LEMMA RefinementStep ==
  ASSUME ~FinishRace
  PROVE  IInv /\ [Next]_vars => ServerStep
<1> SUFFICES ASSUME IInv, [Next]_vars PROVE ServerStep
  OBVIOUS
<1>1. TypeOK
  BY DEF IInv
<1>2. CASE \E r \in ClickRequests : BeginClick(r) \/ ChainContinue(r)
  <2> PICK r \in ClickRequests : BeginClick(r) \/ ChainContinue(r)
    BY <1>2
  <2>1. r \in Requests
    BY DEF Requests
  <2>2. CASE BeginClick(r)
    BY <1>1, <2>1, <2>2, AskStep DEF BeginClick, Waiting
  <2>3. CASE ChainContinue(r)
    BY <1>1, <2>1, <2>3, TurnAwayStep, StartTabStep DEF ChainContinue, Waiting
  <2> QED
    BY <2>2, <2>3
<1>3. CASE \E r \in AutoRequests : AutoTimer(r)
  BY <1>1, <1>3, AskStep, StartTabStep DEF AutoTimer, Requests, Waiting
<1>4. CASE \E r \in SummaryRequests : SummaryClick(r)
  <2> PICK r \in SummaryRequests : SummaryClick(r)
    BY <1>4
  <2>1. r \in Requests /\ phase[r] = "idle" /\ Settled /\ ~DrvBusy
    BY DEF Requests, SummaryClick, Clickable
  <2>2. \A s \in Requests : phase[s] \notin Alive
    BY <2>1, NotBusyNoThread
  <2> QED
    BY <1>1, <2>1, <2>2, ServeStep, TurnAwayStep DEF SummaryClick
<1>5. CASE \E r \in Requests : PromptAnswer(r)
  <2> PICK r \in Requests : PromptAnswer(r)
    BY <1>5
  <2>1. phase[r] = "prompt" /\ Settled
    BY DEF PromptAnswer
  <2>2. CASE Move(r, "chained")
    BY <1>1, <2>1, <2>2, StutterStep DEF Waiting, Phases
  <2>3. CASE Move(r, "dropped") \/ StartTab(r)
    BY <1>1, <2>1, <2>3, TurnAwayStep, StartTabStep DEF Waiting
  <2> QED
    BY <2>2, <2>3 DEF PromptAnswer
<1>6. CASE \E r \in Requests : FireQueued(r)
  BY <1>6, StartTabStep DEF FireQueued, Waiting
<1>7. CASE \E r \in Requests : WorkerAnswer(r) \/ HandleAnswer(r)
  BY <1>1, <1>7, StutterStep DEF WorkerAnswer, HandleAnswer, Alive, Phases
<1>8. CASE \E r \in Requests : ThreadEnd(r)
  <2> PICK r \in Requests : ThreadEnd(r)
    BY <1>8
  <2>1. \A s \in Requests : phase[s] \in Alive => s = r
    BY DEF ThreadEnd, Alive, IInv, HandleInv
  <2>2. /\ Waits' = Waits /\ Serves = {r} /\ Serves' = {}
        /\ Retires' = Retires \cup {r}
    BY <1>1, <2>1 DEF ThreadEnd, Move, TypeOK, Waits, Serves, Retires, Waiting,
                      Alive, Over, Phases
  <2>3. Server!Finish(r)
    BY <2>2 DEF Server!Finish, Waits, Serves, Retires
  <2> QED
    BY <2>3 DEF ServerStep, Server!Next, Waits, Serves, Retires
<1>9. CASE \E r \in Requests : Cleanup(r)
  <2> PICK r \in Requests : Cleanup(r)
    BY <1>9
  <2>1. phase[r] = "ended"
    BY DEF Cleanup
  <2>2. CASE Move(r, "done")
    BY <1>1, <2>1, <2>2, StutterStep DEF Phases, Over
  <2>3. CASE /\ queue # <<>>
             /\ phase' = [phase EXCEPT ![r] = "done", ![Head(queue)] = "popped"]
    <3>1. Head(queue) = queue[1] /\ queue[1] \in Requests /\ 1 \in 1..Len(queue)
      BY <1>1, <2>3 DEF TypeOK
    <3>2. phase[Head(queue)] = "queued" /\ Head(queue) # r
      BY <2>1, <3>1 DEF IInv, QueueInv
    <3>3. \A s \in Requests :
            phase'[s] = IF s = r THEN "done"
                        ELSE IF s = Head(queue) THEN "popped" ELSE phase[s]
      BY <1>1, <2>3, <3>1, <3>2 DEF TypeOK
    <3>4. Waits' = Waits /\ Serves' = Serves /\ Retires' = Retires
      BY <2>1, <3>2, <3>3 DEF Waits, Serves, Retires, Waiting, Alive, Over
    <3> QED
      BY <3>4 DEF ServerStep
  <2> QED
    BY <2>2, <2>3 DEF Cleanup
<1>10. CASE RunAnalysis \/ Close
  BY <1>1, <1>10, ClearStep DEF RunAnalysis, Close
<1>11. CASE UNCHANGED phase
  BY <1>11 DEF ServerStep, Waits, Serves, Retires
<1> QED
  BY <1>2, <1>3, <1>4, <1>5, <1>6, <1>7, <1>8, <1>9, <1>10, <1>11
     DEF Next, vars, StartedSlot, FwClick, FwPromptAnswer, FwStep, RefreshClick,
         RefreshAnswer, StalePrompt, StaleAnswer, RefreshStep, SwitchProfile, drvSide

\* Under the same assumption the whole scheduler, with its threads, prompts,
\* timers and cleanups, implements the counter of SearchServer: each search is
\* served alone and at most once.
THEOREM ImplementsServer ==
  ASSUME ~FinishRace
  PROVE  Spec => ServerSpec
<1>1. Init => Server!Init
  BY DEF Init, Server!Init, Waiting, Alive, Over
<1>2. IInv /\ [Next]_vars => IInv'
  BY InvStep
<1>3. IInv /\ [Next]_vars => [Server!Next]_(Server!serverVars)
  BY RefinementStep DEF ServerStep, Server!serverVars, Waits, Serves, Retires
<1>4. Spec => Server!Init /\ [][Server!Next]_(Server!serverVars)
  BY <1>1, <1>2, <1>3, InitInv, PTL DEF Spec
<1> QED
  BY <1>4 DEF ServerSpec, Server!Spec

-----------------------------------------------------------------------------
(* The queue of driver searches, in a window that runs only driver searches. *)

(***************************************************************************)
(* Where no other catalog job can be begun nothing blocks a driver search,  *)
(* the hardware profile stays, and every open dialog belongs to a request.  *)
(* Beside a firmware search, a refresh or a switch to portable mode the two *)
(* properties below are false: a popped job is thrown away.                 *)
(***************************************************************************)
DriverSearchesOnly ==
  ~FinishRace /\ ~WithFirmware /\ ~WithRefresh /\ ~WithPortable

NothingElse ==
  /\ fw = "idle" /\ refresh = "idle" /\ profile /\ stalePrompted
  /\ \A i \in 1..Len(modal) : modal[i] \in Requests

\* A non-empty queue has somebody to flush it; inductive only with the rest.
QueueIInv == IInv /\ NothingElse /\ QueueAttended

LEMMA NothingElseStep ==
  ASSUME DriverSearchesOnly
  PROVE  TypeOK /\ NothingElse /\ [Next]_vars => NothingElse'
<1> SUFFICES ASSUME TypeOK, NothingElse, [Next]_vars PROVE NothingElse'
  OBVIOUS
<1>1. \A f \in {"fw", "stale", "refresh"} : ~(modal # <<>> /\ Head(modal) = f)
  BY ConstantsAssumption DEF NothingElse, TypeOK
<1>2. ASSUME NEW r \in Requests, Push(r)
      PROVE  \A i \in 1..Len(modal') : modal'[i] \in Requests
  <2>1. /\ Len(modal') = Len(modal) + 1 /\ Len(modal) \in Nat
        /\ modal'[1] = r
        /\ \A i \in 1..Len(modal) : modal'[i + 1] = modal[i]
    BY <1>2 DEF Push, TypeOK
  <2>2. \A i \in 1..Len(modal') : i = 1 \/ (i - 1 \in 1..Len(modal) /\ i = (i - 1) + 1)
    BY <2>1
  <2> QED
    BY <2>1, <2>2 DEF NothingElse
<1>3. ASSUME NEW r \in Requests, Pop(r)
      PROVE  \A i \in 1..Len(modal') : modal'[i] \in Requests
  BY <1>3 DEF Pop, NothingElse, TypeOK
<1>4. ASSUME UNCHANGED <<fw, refresh, profile, stalePrompted>>,
             \/ UNCHANGED modal
             \/ \E r \in Requests : Push(r) \/ Pop(r)
      PROVE  NothingElse'
  BY <1>2, <1>3, <1>4 DEF NothingElse
<1>5. CASE \/ \E r \in ClickRequests : BeginClick(r) \/ ChainContinue(r)
           \/ \E r \in AutoRequests : AutoTimer(r)
           \/ \E r \in SummaryRequests : SummaryClick(r)
           \/ \E r \in Requests : PromptAnswer(r) \/ FireQueued(r)
  BY <1>4, <1>5 DEF BeginClick, ChainContinue, AutoTimer, SummaryClick,
                    PromptAnswer, FireQueued, jobVars, Requests
<1>6. CASE \/ \E r \in Requests : \/ WorkerAnswer(r) \/ HandleAnswer(r)
                                  \/ ThreadEnd(r) \/ Cleanup(r)
           \/ StartedSlot \/ RunAnalysis \/ Close \/ UNCHANGED vars
  BY <1>4, <1>6 DEF WorkerAnswer, HandleAnswer, ThreadEnd, Cleanup, StartedSlot,
                    RunAnalysis, Close, vars, jobVars
<1>7. CASE SwitchProfile \/ FwClick \/ RefreshClick
  BY <1>7 DEF SwitchProfile, FwClick, RefreshClick, DriverSearchesOnly
<1>8. CASE FwPromptAnswer \/ RefreshAnswer \/ StaleAnswer
  BY <1>1, <1>8 DEF FwPromptAnswer, RefreshAnswer, StaleAnswer, Pop
<1>9. CASE FwStep \/ StalePrompt \/ RefreshStep
  BY <1>9 DEF FwStep, StalePrompt, RefreshStep, NothingElse
<1> QED
  BY <1>5, <1>6, <1>7, <1>8, <1>9 DEF Next

\* In such a window a driver search asked for is queued behind a live one or
\* launched.
LEMMA StartsOrWaits ==
  ASSUME IInv, NothingElse, NEW r \in Requests, phase[r] \in Resting, StartTab(r)
  PROVE  /\ phase'[r] \in {"queued", "running"}
         /\ \E s \in Requests : phase'[s] \in Alive
<1>1. ~DrvBlocked /\ profile
  BY DEF NothingElse, DrvBlocked, RefreshBusy, FwBusy
<1>2. CASE DrvBusy /\ Move(r, "queued")
  <2>1. held \in Requests /\ phase[held] \in Alive
    BY <1>2 DEF DrvBusy, IInv, StartingInv, TypeOK, Alive
  <2>2. phase'[r] = "queued" /\ phase'[held] \in Alive
    BY <1>2, <2>1 DEF Move, IInv, TypeOK, Resting, Alive
  <2> QED
    BY <2>1, <2>2
<1>3. CASE Launch(r)
  BY <1>3 DEF Launch, Move, IInv, TypeOK, Alive
<1> QED
  BY <1>1, <1>2, <1>3 DEF StartTab

LEMMA AttendedStep ==
  ASSUME DriverSearchesOnly
  PROVE  QueueIInv /\ [Next]_vars => QueueAttended'
<1> SUFFICES ASSUME IInv, NothingElse, QueueAttended, [Next]_vars,
                    queue' # <<>>, ~closing'
             PROVE  \E r \in Requests : phase'[r] \in Alive \cup {"ended", "popped"}
  BY DEF QueueIInv, QueueAttended
<1> DEFINE Attends(r) == phase[r] \in Alive \cup {"ended", "popped"}
<1>1. ASSUME NEW r \in Requests, phase[r] \in Resting, StartTab(r)
      PROVE  \E s \in Requests : Attends(s)'
  BY <1>1, StartsOrWaits
<1>2. ASSUME NEW r \in Requests, NEW p, Move(r, p), UNCHANGED <<queue, closing>>,
             Attends(r) => p \in Alive \cup {"ended", "popped"}
      PROVE  \E s \in Requests : Attends(s)'
  BY <1>2 DEF QueueAttended, Move, IInv, TypeOK
<1>3. CASE \E r \in ClickRequests : BeginClick(r) \/ ChainContinue(r)
  BY <1>1, <1>2, <1>3 DEF BeginClick, ChainContinue, Requests, Resting, Alive
<1>4. CASE \E r \in AutoRequests : AutoTimer(r)
  BY <1>1, <1>2, <1>4 DEF AutoTimer, Requests, Resting, Alive
<1>5. CASE \E r \in SummaryRequests : SummaryClick(r)
  <2> PICK r \in SummaryRequests : SummaryClick(r)
    BY <1>5
  <2>1. r \in Requests /\ phase[r] = "idle" /\ UNCHANGED <<queue, closing>>
    BY DEF Requests, SummaryClick
  <2>2. Move(r, "dropped") \/ Move(r, "running")
    BY DEF SummaryClick, Launch
  <2> QED
    BY <1>2, <2>1, <2>2 DEF Alive
<1>6. CASE \E r \in Requests : PromptAnswer(r)
  BY <1>1, <1>2, <1>6 DEF PromptAnswer, Resting, Alive
<1>7. CASE \E r \in Requests : FireQueued(r)
  BY <1>1, <1>7 DEF FireQueued, Resting
<1>8. CASE \E r \in Requests : WorkerAnswer(r) \/ HandleAnswer(r) \/ ThreadEnd(r)
  BY <1>2, <1>8 DEF WorkerAnswer, HandleAnswer, ThreadEnd, drvVars, Alive
<1>9. CASE \E r \in Requests : Cleanup(r)
  <2> PICK r \in Requests : Cleanup(r)
    BY <1>9
  <2>1. ~closing /\ queue # <<>>
    BY DEF Cleanup
  <2>2. Head(queue) \in Requests
    BY <2>1 DEF IInv, TypeOK
  <2>3. phase'[Head(queue)] = "popped"
    BY <2>1, <2>2 DEF Cleanup, IInv, TypeOK
  <2> QED
    BY <2>2, <2>3
<1>10. CASE UNCHANGED <<phase, queue, closing>>
  BY <1>10 DEF QueueAttended
<1>11. CASE RunAnalysis \/ Close
  BY <1>11 DEF RunAnalysis, Close
<1> QED
  BY <1>3, <1>4, <1>5, <1>6, <1>7, <1>8, <1>9, <1>10, <1>11
     DEF Next, vars, StartedSlot, FwClick, FwPromptAnswer, FwStep, RefreshClick,
         RefreshAnswer, StalePrompt, StaleAnswer, RefreshStep, SwitchProfile, drvSide

LEMMA QueueInvHolds ==
  ASSUME DriverSearchesOnly
  PROVE  Spec => []QueueIInv
<1>1. Init => NothingElse /\ QueueAttended
  <2>1. Init => \A i \in 1..Len(modal) : modal[i] \in Requests
    BY DEF Init
  <2> QED
    BY <2>1, ZenonT(60) DEF Init, NothingElse, QueueAttended, DriverSearchesOnly
<1>2. IInv /\ [Next]_vars => IInv'
  BY InvStep DEF DriverSearchesOnly
<1>3. IInv /\ NothingElse /\ [Next]_vars => NothingElse'
  BY NothingElseStep DEF IInv
<1> QED
  BY <1>1, <1>2, <1>3, AttendedStep, InitInv, PTL DEF Spec, QueueIInv

\* A driver search left waiting in the queue is never forgotten: while the
\* window is open somebody is about to flush it.
THEOREM QueueIsAttended ==
  ASSUME DriverSearchesOnly
  PROVE  Spec => []QueueAttended
BY QueueInvHolds, PTL DEF QueueIInv
=============================================================================
