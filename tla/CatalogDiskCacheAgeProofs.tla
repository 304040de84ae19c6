--------------------- MODULE CatalogDiskCacheAgeProofs ---------------------
(***************************************************************************)
(* The ages of the rows CatalogDiskCache keeps, in a full install: a save    *)
(* never puts older rows over newer ones, and a refresh leaves nothing old.  *)
(* Portable, a change of identity changes the folder, and rows of memory may *)
(* meet newer ones there, or a refresh clear another folder.                 *)
(***************************************************************************)
EXTENDS CatalogDiskCacheProofs

USE DEF worldVars, scopeVars, diskVars, memVars, threadVars, jobVars

\* The rows of the one folder's file of a kind.
Held(kind) == LET f == disk[<<Home, kind>>] IN IF Readable(f) THEN f.rows ELSE NoRows

\* Rows x are not older than rows y of the same PC.
Newer(x, y) == x # NoRows /\ y # NoRows /\ x.on = y.on => x.asOf >= y.asOf

By(x, d)    == x # NoRows => x.asOf \in 0..d
Since(x, d) == x # NoRows => x.asOf >= d

Saving(t) == call[t] # NoCall /\ call[t].op = "save"

\* Thread t is on its way to or from the Windows Update rows, or it saves.
WuBusy(t) == \/ at[t] \in {"wu", "fetch", "keep"}
             \/ call[t] # NoCall /\ call[t].kind = "wu"
             \/ Saving(t)

\* Every call goes to the one folder, and only a save fills a file.
HomeInv ==
  /\ \A t \in Threads : call[t] # NoCall => call[t].place = Home
  /\ \A t \in Threads : at[t] = "fill" => Saving(t)

\* No two threads are busy with the Windows Update rows or with saving: a search
\* of one device has one such worker, every other job does it on its own thread.
OneWriter == \A s, t \in Threads : WuBusy(s) /\ WuBusy(t) => s = t

\* The maker's rows in memory are of today, since their time to live is minutes.
TodayInv == \A id \in Names : oem[id] # NoRows => oem[id].asOf = day

\* Nothing comes from a day to come.
DatedInv ==
  /\ By(wu, day)
  /\ \A t \in Threads : By(got[t], day) /\ (call[t] # NoCall => By(call[t].rows, day))
  /\ \A kind \in Kinds : By(Held(kind), day)

\* Thread t has Windows Update rows it is about to keep.
Brings(t) == \/ at[t] = "keep"
             \/ at[t] \in {"exit", "back"} /\ call[t].op = "load" /\ call[t].kind = "wu"

\* The save t is in goes over nothing newer, and writes what memory has.
SavesNewer(t) ==
  /\ Newer(call[t].rows, Held(call[t].kind))
  /\ call[t].kind = "wu" => wu = NoRows \/ call[t].rows = NoRows \/ wu = call[t].rows

\* What memory has, what a thread brings and what it is about to save is not older
\* than the file.
NewerInv ==
  /\ Newer(wu, Held("wu"))
  /\ \A t \in Threads : Brings(t) => Newer(got[t], Held("wu"))
  /\ \A t \in Threads : Saving(t) => SavesNewer(t)

Refreshed == {"deepWu", "deepOem", "built"}

\* From the clearing of a refresh on, all that is there was asked for since.
FreshInv ==
  /\ since <= day
  /\ stage \in Refreshed =>
       /\ Since(wu, since)
       /\ at[Main] = "keep" => Since(got[Main], since)
       /\ call[Main] # NoCall => Since(call[Main].rows, since)
       /\ \A kind \in Kinds : Since(Held(kind), since)

-----------------------------------------------------------------------------
(* The one folder. *)

\* In a full install no file moves and every identity has the same folder.
LEMMA OneFolder ==
  ASSUME FullInstall, NEW files, NEW marks, NEW id
  PROVE  Migrated(files, marks, id) = files /\ Folder(id) = Home
BY DEF Migrated, Migrates, Folder

LEMMA HeldType ==
  ASSUME Inv, NEW kind \in Kinds
  PROVE  Held(kind) \in Rows \cup {NoRows} /\ <<Home, kind>> \in Places \X Kinds
<1>1. <<Home, kind>> \in Places \X Kinds
  BY DEF Places
<1>2. disk[<<Home, kind>>] \in Files \cup {NoFile, Torn}
  BY <1>1, Kept DEF DiskT, DiskSet
<1> QED
  BY <1>1, <1>2, ReadableType DEF Held, Files

\* Without a step that writes, a file keeps its rows or has none any more.
LEMMA SameFiles ==
  ASSUME disk' = disk, NEW kind PROVE Held(kind)' = Held(kind)
BY DEF Held

LEMMA StampKeepsRows ==
  ASSUME Inv, FullInstall, NEW id \in Names, NEW kind \in Kinds,
         disk' = StampedHome(disk, id)
  PROVE  Held(kind)' = Held(kind)
<1> DEFINE f == <<Home, kind>>
<1>1. f \in Places \X Kinds /\ disk[f] \in Files \cup {NoFile, Torn}
  BY HeldType, Kept DEF DiskT, DiskSet
<1>2. disk'[f] \in {disk[f], Stamped(disk[f], id)} /\ (~Readable(disk[f]) => disk'[f] = disk[f])
  BY <1>1 DEF StampedHome
<1>3. ASSUME Readable(disk[f])
      PROVE  Readable(Stamped(disk[f], id)) /\ Stamped(disk[f], id).rows = disk[f].rows
  <2>1. disk[f] \in Files
    BY <1>1, <1>3, ReadableType
  <2>2. Stamped(disk[f], id) \in Files
    BY <2>1, StampedType
  <2>3. Stamped(disk[f], id).rows = disk[f].rows
    BY <2>1 DEF Stamped, Files
  <2> QED
    BY <2>2, <2>3, CacheConstants DEF Readable
<1> QED
  BY <1>2, <1>3 DEF Held

LEMMA ClearedFiles ==
  ASSUME Inv, FullInstall, NEW kinds \in SUBSET Kinds, Clear(kinds), NEW kind \in Kinds
  PROVE  Held(kind)' \in {Held(kind), NoRows}
<1> DEFINE f == <<Home, kind>>
<1>1. f \in Places \X Kinds
  BY HeldType
<1>2. disk' = Unlinked(disk, Home, kinds)
  BY OneFolder DEF Clear
<1>3. disk'[f] \in {disk[f], NoFile}
  BY <1>1, <1>2 DEF Unlinked
<1> QED
  BY <1>3 DEF Held, Readable

LEMMA OpenedFile ==
  ASSUME Inv, FullInstall, NEW t \in Threads, OpenForWrite(t), NEW kind \in Kinds
  PROVE  /\ disk' = [disk EXCEPT ![<<Home, call[t].kind>>] = Torn]
         /\ Held(kind)' \in {Held(kind), NoRows}
<1>1. disk' = [disk EXCEPT ![<<Home, call[t].kind>>] = Torn]
  BY OneFolder DEF OpenForWrite
<1>2. disk'[<<Home, kind>>] \in {disk[<<Home, kind>>], Torn}
  BY <1>1, HeldType, Kept DEF DiskT, DiskSet
<1> QED
  BY <1>1, <1>2 DEF Held, Readable

LEMMA FilledFile ==
  ASSUME Inv, HomeInv, NEW t \in Threads, Fill(t), NEW kind \in Kinds
  PROVE  /\ call[t] \in Calls /\ Saving(t)
         /\ Held(kind)' = IF kind = call[t].kind THEN call[t].rows ELSE Held(kind)
<1>1. call[t] \in Calls /\ Saving(t) /\ call[t].place = Home
  BY Kept DEF Fill, HomeInv, Saving, AtT
<1> DEFINE new == [machine |-> call[t].id, at |-> call[t].at, rows |-> call[t].rows]
<1>2. new \in Files /\ new.rows = call[t].rows
  BY <1>1 DEF Calls, Files
<1>3. disk' = [disk EXCEPT ![<<Home, call[t].kind>>] = new]
  BY <1>1 DEF Fill
<1> HIDE DEF new
<1>4. CASE kind = call[t].kind
  <2>1. disk'[<<Home, kind>>] = new
    BY <1>3, <1>4, HeldType, Kept DEF DiskT, DiskSet
  <2>2. Readable(new)
    BY <1>2, CacheConstants DEF Readable
  <2> QED
    BY <1>1, <1>2, <1>4, <2>1, <2>2 DEF Held
<1>5. CASE kind # call[t].kind
  <2>1. disk'[<<Home, kind>>] = disk[<<Home, kind>>]
    BY <1>3, <1>5, HeldType, Kept DEF DiskT, DiskSet
  <2> QED
    BY <1>1, <1>5, <2>1 DEF Held
<1> QED
  BY <1>4, <1>5

\* What steps do to a file's rows: only Fill brings others.
LEMMA HeldStep ==
  ASSUME Inv, FullInstall, [Next]_vars, \A t \in Threads : ~Fill(t), NEW kind \in Kinds
  PROVE  Held(kind)' \in {Held(kind), NoRows}
<1>1. ASSUME disk' = disk PROVE Held(kind)' = Held(kind)
  BY <1>1, SameFiles
<1>2. ASSUME NEW t \in Threads, Scoped(t) PROVE Held(kind)' \in {Held(kind), NoRows}
  <2>1. CASE Load(t)
    BY <1>1, <2>1, OneFolder DEF Load
  <2>2. CASE OpenForWrite(t)
    BY <2>2, OpenedFile
  <2>3. CASE Enter(t) \/ Exit(t)
    BY <1>1, <2>3 DEF Enter, Exit
  <2> QED
    BY <1>2, <2>1, <2>2, <2>3 DEF Scoped
<1>3. ASSUME NEW t \in Threads, WuStep(t) \/ OemStep(t) PROVE disk' = disk
  BY <1>3 DEF WuStep, WuHit, WuMiss, WuLoaded, WuNotOnDisk, WuAnswered, WuKept,
              WuAnsweredNothing, WuSaved, OemStep, OemAsk, OemOnDisk, OemAskedLive
<1>4. ASSUME JobStep PROVE Held(kind)' \in {Held(kind), NoRows}
  <2>1. CASE StartBatch \/ StartSingle
    BY <1>1, <2>1, OneFolder DEF StartBatch, StartSingle, Begins
  <2>2. CASE Persist
    <3>1. raw \in Names /\ disk' = StampedHome(disk, raw)
      BY <2>2, OneFolder, Kept DEF Persist, JobT
    <3> QED
      BY <3>1, StampKeepsRows
  <2>3. CASE RefreshClear
    BY <2>3, ClearedFiles DEF RefreshClear
  <2>4. CASE \/ StartPool \/ EndPool \/ PersistOem \/ Leave \/ StartRefresh \/ DeepWuNothing
             \/ DeepOem \/ Built \/ RefreshFails
    BY <1>1, <2>4 DEF StartPool, EndPool, PersistOem, Leave, StartRefresh, DeepWuNothing,
                      DeepOem, Built, RefreshFails
  <2> QED
    BY <1>4, <2>1, <2>2, <2>3, <2>4 DEF JobStep
<1>5. CASE ClearMenu
  BY <1>5, ClearedFiles DEF ClearMenu
<1>6. CASE ProfileArrives \/ Expire \/ NextDay \/ Restart \/ UNCHANGED vars
  BY <1>1, <1>6 DEF ProfileArrives, Expire, NextDay, Restart, vars
<1> QED
  BY <1>1, <1>2, <1>3, <1>4, <1>5, <1>6 DEF Next

-----------------------------------------------------------------------------
(* Who moves, and who is busy. *)

\* A thread's step leaves the other threads alone.
LEMMA OthersStay ==
  ASSUME Inv, NEW t \in Threads, Scoped(t) \/ WuStep(t) \/ OemStep(t), NEW s \in Threads, s # t
  PROVE  at'[s] = at[s] /\ call'[s] = call[s] /\ got'[s] = got[s]
<1>0. AtT /\ GotT
  BY Kept
<1>1. CASE Scoped(t)
  BY <1>0, <1>1 DEF Scoped, Enter, Load, OpenForWrite, Fill, Exit, AtT, GotT
<1>2. CASE WuStep(t)
  BY <1>0, <1>2 DEF WuStep, WuHit, WuMiss, WuLoaded, WuNotOnDisk, WuAnswered, WuKept,
                    WuAnsweredNothing, WuSaved, WuDone, Go, Call, AtT, GotT
<1>3. CASE OemStep(t)
  BY <1>0, <1>3 DEF OemStep, OemAsk, OemOnDisk, OemAskedLive, Go, Call, AtT, GotT
<1> QED
  BY <1>1, <1>2, <1>3

LEMMA CallMade ==
  ASSUME Inv, FullInstall, NEW t \in Threads, NEW op \in {"load", "save"}, NEW kind \in Kinds,
         NEW id \in Names, NEW rows \in Rows \cup {NoRows}, Call(t, op, kind, id, rows)
  PROVE  /\ at' = [at EXCEPT ![t] = "enter"]
         /\ call'[t] \in Calls /\ call'[t] # NoCall /\ at'[t] = "enter"
         /\ call'[t].op = op /\ call'[t].kind = kind /\ call'[t].rows = rows
         /\ call'[t].place = Home
         /\ \A s \in Threads \ {t} : call'[s] = call[s] /\ at'[s] = at[s]
<1> DEFINE c == [op |-> op, kind |-> kind, id |-> id, rows |-> rows,
                 place |-> Folder(id), at |-> day]
<1>0. AtT /\ WorldT
  BY Kept
<1>1. /\ c \in Calls /\ c # NoCall /\ c.op = op /\ c.kind = kind /\ c.rows = rows
      /\ c.place = Home
  BY <1>0, FolderType, OneFolder, CacheConstants DEF Calls, WorldT
<1>2. call' = [call EXCEPT ![t] = c] /\ at' = [at EXCEPT ![t] = "enter"]
  BY DEF Call
<1> HIDE DEF c
<1> QED
  BY <1>0, <1>1, <1>2 DEF AtT

LEMMA Gone ==
  ASSUME Inv, NEW t \in Threads, NEW step, Go(t, step)
  PROVE  /\ call'[t] = NoCall /\ at'[t] = step
         /\ \A s \in Threads \ {t} : call'[s] = call[s] /\ at'[s] = at[s]
BY Kept DEF Go, AtT

\* OpenForWrite changes nothing of the call but its place and day.
LEMMA Opened ==
  ASSUME Inv, FullInstall, NEW t \in Threads, OpenForWrite(t)
  PROVE  /\ call[t] \in Calls /\ Saving(t) /\ Saving(t)' /\ at'[t] = "fill"
         /\ call'[t].kind = call[t].kind /\ call'[t].rows = call[t].rows
         /\ call'[t].place = Home
<1>0. AtT
  BY Kept
<1>1. call[t] \in Calls /\ call[t] # NoCall /\ call[t].op = "save"
  BY <1>0, Kept, CacheConstants DEF OpenForWrite, ControlInv, AtT, InCall
<1> DEFINE c == [call[t] EXCEPT !.place = Home, !.at = day]
<1>2. /\ c \in Calls /\ c # NoCall /\ c.op = "save" /\ c.kind = call[t].kind
      /\ c.rows = call[t].rows /\ c.place = Home
  <2>1. Home \in Places /\ day \in Days
    BY Kept DEF Places, WorldT
  <2> QED
    BY <1>1, <2>1, CacheConstants DEF Calls
<1>3. call' = [call EXCEPT ![t] = c] /\ at' = [at EXCEPT ![t] = "fill"]
  BY <1>1, OneFolder DEF OpenForWrite
<1> HIDE DEF c
<1> QED
  BY <1>0, <1>1, <1>2, <1>3 DEF AtT, Saving

\* What a thread's step makes of its call.
LEMMA OwnStep ==
  ASSUME Inv, FullInstall, HomeInv, NEW t \in Threads, Scoped(t) \/ WuStep(t) \/ OemStep(t)
  PROVE  /\ call'[t] # NoCall => call'[t].place = Home
         /\ at'[t] = "fill" => Saving(t)'
         /\ WuBusy(t)' => WuBusy(t)
<1>0. AtT /\ ControlInv /\ GotT /\ JobT
  BY Kept
<1>1. CASE Enter(t) \/ Load(t) \/ Fill(t) \/ Exit(t)
  <2>1. call' = call /\ at'[t] \in {"access", "exit", "back"}
    BY <1>0, <1>1 DEF Enter, Load, Fill, Exit, AtT
  <2> QED
    BY <2>1 DEF HomeInv, WuBusy, Saving
<1>2. CASE OpenForWrite(t)
  BY <1>2, Opened DEF WuBusy
<1>3. ASSUME NEW step \in {"idle", "oem", "fetch", "keep"}, Go(t, step),
             step \in {"fetch", "keep"} => WuBusy(t)
      PROVE  /\ call'[t] # NoCall => call'[t].place = Home
             /\ at'[t] = "fill" => Saving(t)'
             /\ WuBusy(t)' => WuBusy(t)
  BY <1>3, Gone DEF WuBusy, Saving
<1>4. CASE WuHit(t) \/ WuLoaded(t) \/ WuAnsweredNothing(t) \/ WuSaved(t)
  <2>1. WuDone(t)
    BY <1>4 DEF WuHit, WuLoaded, WuAnsweredNothing, WuSaved
  <2> QED
    BY <1>3, <2>1 DEF WuDone
<1>5. CASE WuNotOnDisk(t) \/ WuAnswered(t)
  <2>1. WuBusy(t)
    BY <1>0, <1>5 DEF WuNotOnDisk, WuAnswered, Returned, WuBusy, ControlInv, InCall
  <2> QED
    BY <1>3, <1>5, <2>1 DEF WuNotOnDisk, WuAnswered
<1>6. CASE WuMiss(t) \/ WuKept(t)
  <2>1. WuBusy(t)
    BY <1>6 DEF WuMiss, WuKept, WuBusy
  <2>2. call'[t].place = Home /\ at'[t] = "enter"
    BY <1>0, <1>6, CallMade DEF WuMiss, WuKept, Kinds, JobT, GotT
  <2> QED
    BY <2>1, <2>2
<1>7. CASE OemAsk(t)
  <2>1. /\ call'[t].place = Home /\ at'[t] = "enter" /\ call'[t].op = "load"
        /\ call'[t].kind = "oem"
    BY <1>0, <1>7, CallMade DEF OemAsk, Kinds, JobT
  <2> QED
    BY <2>1 DEF WuBusy, Saving
<1>8. CASE OemOnDisk(t) \/ OemAskedLive(t)
  BY <1>3, <1>8 DEF OemOnDisk, OemAskedLive
<1> QED
  BY <1>1, <1>2, <1>4, <1>5, <1>6, <1>7, <1>8 DEF Scoped, WuStep, OemStep

\* What a step of the job makes of its thread's call.
LEMMA JobCall ==
  ASSUME Inv, FullInstall, HomeInv, JobStep
  PROVE  HomeInv'
<1>0. AtT /\ ControlInv /\ JobT /\ MemT /\ Main \in Threads /\ WorldT
  BY Kept DEF Threads
<1>1. ASSUME NEW step \in Steps \ InCall, Go(Main, step) PROVE HomeInv'
  BY <1>0, <1>1, Gone DEF HomeInv, Saving, InCall
<1>2. ASSUME NEW op \in {"load", "save"}, NEW kind \in Kinds, NEW id \in Names,
             NEW rows \in Rows \cup {NoRows}, Call(Main, op, kind, id, rows)
      PROVE  HomeInv'
  BY <1>0, <1>2, CallMade DEF HomeInv, Saving
<1>3. CASE StartBatch \/ (EndPool /\ Ends) \/ Leave \/ RefreshClear \/ RefreshFails
  BY <1>1, <1>3 DEF StartBatch, EndPool, Leave, RefreshClear, RefreshFails, Ends, Steps, InCall
<1>4. CASE StartPool \/ StartSingle
  <2>1. call' = call /\ \A t \in Threads : at'[t] # "fill"
    BY <1>4 DEF StartPool, StartSingle, Threads
  <2> QED
    BY <2>1 DEF HomeInv
<1>5. CASE (EndPool /\ ~Ends) \/ StartRefresh \/ Built
  BY <1>5 DEF EndPool, StartRefresh, Built, HomeInv, Saving
<1>6. CASE Persist \/ PersistOem
  BY <1>0, <1>1, <1>2, <1>6 DEF Persist, PersistOem, Kinds, Steps, InCall, JobT, MemT
<1>7. CASE DeepWuNothing
  BY <1>0, <1>2, <1>7 DEF DeepWuNothing, Kinds, JobT
<1>8. CASE DeepOem
  <2>1. MemT'
    BY <1>0, <1>8, OemLiveType DEF DeepOem, JobT
  <2>2. /\ raw \in Names /\ oem'[raw] \in Rows \cup {NoRows}
        /\ Call(Main, "save", "oem", raw, oem'[raw])
    BY <1>0, <1>8, <2>1 DEF DeepOem, JobT, MemT
  <2> QED
    BY <1>2, <2>2 DEF Kinds
<1> QED
  BY <1>3, <1>4, <1>5, <1>6, <1>7, <1>8 DEF JobStep

LEMMA HomeNext ==
  ASSUME Inv, FullInstall, HomeInv, [Next]_vars PROVE HomeInv'
<1>1. ASSUME NEW t \in Threads, Scoped(t) \/ WuStep(t) \/ OemStep(t) PROVE HomeInv'
  BY <1>1, OthersStay, OwnStep DEF HomeInv, Saving
<1>2. CASE JobStep
  BY <1>2, JobCall
<1>3. CASE ProfileArrives \/ ClearMenu \/ Expire \/ NextDay \/ UNCHANGED vars
  BY <1>3 DEF ProfileArrives, ClearMenu, Expire, NextDay, vars, HomeInv, Saving
<1>4. CASE Restart
  BY <1>4 DEF Restart, HomeInv, Saving
<1> QED
  BY <1>1, <1>2, <1>3, <1>4 DEF Next

\* A thread that is not busy at all is not busy with the rows.
LEMMA IdleNotBusy ==
  ASSUME AtT, ControlInv, NEW t \in Threads, at[t] \in {"idle", "oem"} PROVE ~WuBusy(t)
BY DEF ControlInv, InCall, WuBusy, Saving

LEMMA WriterNext ==
  ASSUME Inv, Inv', FullInstall, HomeInv, OneWriter, [Next]_vars PROVE OneWriter'
<1>0. AtT /\ ControlInv /\ AtT' /\ ControlInv'
  BY Kept DEF Inv, TypeOK, AtT
<1>i. ASSUME NEW t \in Threads, at'[t] \in {"idle", "oem"} PROVE ~WuBusy(t)'
  BY <1>0, <1>i DEF ControlInv, InCall, WuBusy, Saving
<1>1. CASE stage' # "pool"
  <2>1. \A t \in Threads : t = Main \/ at'[t] = "idle"
    BY <1>0, <1>1 DEF ControlInv, Threads
  <2> QED
    BY <1>i, <2>1 DEF OneWriter
<1>2. CASE stage' = "pool"
  <2>1. ASSUME NEW t \in Threads, Scoped(t) \/ WuStep(t) \/ OemStep(t) PROVE OneWriter'
    <3>1. \A s \in Threads : WuBusy(s)' => WuBusy(s)
      BY <2>1, OthersStay, OwnStep DEF WuBusy, Saving
    <3> QED
      BY <3>1 DEF OneWriter
  <2>2. CASE StartPool
    <3>1. \A t \in Threads : at'[t] \in {"idle", "oem"}
      BY <2>2 DEF StartPool
    <3> QED
      BY <1>i, <3>1 DEF OneWriter
  <2>3. CASE StartSingle
    <3>1. PICK asks \in [Pool -> {"idle", "wu", "oem"}] :
            /\ \A w, o \in Pool : w # o /\ asks[w] = asks[o] => asks[w] = "idle"
            /\ at' = [t \in Threads |-> IF t = Main THEN "idle" ELSE asks[t]]
      BY <2>3 DEF StartSingle
    <3>2. \A t \in Threads : WuBusy(t)' => t \in Pool /\ asks[t] = "wu"
      BY <1>i, <3>1 DEF Threads
    <3> QED
      BY <3>1, <3>2 DEF OneWriter
  <2>4. CASE JobStep /\ ~StartPool /\ ~StartSingle
    BY <1>2, <2>4 DEF JobStep, StartBatch, EndPool, Ends, Persist, PersistOem, Leave,
                     StartRefresh, RefreshClear, DeepWuNothing, DeepOem, Built, RefreshFails
  <2>5. CASE ProfileArrives \/ ClearMenu \/ Expire \/ NextDay \/ UNCHANGED vars
    BY <2>5 DEF ProfileArrives, ClearMenu, Expire, NextDay, vars, OneWriter, WuBusy, Saving
  <2>6. CASE Restart
    BY <1>2, <2>6 DEF Restart
  <2> QED
    BY <2>1, <2>2, <2>3, <2>4, <2>5, <2>6 DEF Next
<1> QED
  BY <1>1, <1>2

-----------------------------------------------------------------------------
(* Dates. *)

\* The calendar goes forward, and midnight ends the time to live.
LEMMA Calendar ==
  ASSUME Inv, [Next]_vars
  PROVE  day \in Nat /\ day' \in Nat /\ day' >= day /\ (day' # day => oem' = NoOem)
<1>0. day \in Nat /\ (day' = day + 1 => day' \in Nat /\ day' >= day)
  BY Kept, CacheConstants DEF WorldT, Days
<1>1. CASE NextDay
  BY <1>0, <1>1 DEF NextDay
<1>2. CASE ~NextDay
  <2>1. ASSUME NEW t \in Threads, Scoped(t) \/ WuStep(t) \/ OemStep(t) PROVE day' = day
    BY <2>1 DEF Scoped, Enter, Load, OpenForWrite, Fill, Exit, WuStep, WuHit, WuMiss, WuLoaded,
         WuNotOnDisk, WuAnswered, WuKept, WuAnsweredNothing, WuSaved, OemStep, OemAsk,
         OemOnDisk, OemAskedLive
  <2>2. ASSUME JobStep PROVE day' = day
    <3>1. CASE StartBatch \/ StartPool \/ StartSingle \/ EndPool
      BY <3>1 DEF StartBatch, StartPool, StartSingle, EndPool
    <3>2. CASE Persist \/ PersistOem \/ Leave
      BY <3>2 DEF Persist, PersistOem, Leave
    <3>3. CASE StartRefresh \/ RefreshClear \/ DeepWuNothing \/ DeepOem \/ Built \/ RefreshFails
      BY <3>3 DEF StartRefresh, RefreshClear, DeepWuNothing, DeepOem, Built, RefreshFails
    <3> QED
      BY <2>2, <3>1, <3>2, <3>3 DEF JobStep
  <2>3. ASSUME ProfileArrives \/ ClearMenu \/ Expire \/ Restart \/ UNCHANGED vars
        PROVE  day' = day
    <3>1. CASE ProfileArrives \/ ClearMenu \/ Expire
      BY <3>1 DEF ProfileArrives, ClearMenu, Expire
    <3>2. CASE Restart
      BY <3>2 DEF Restart
    <3>3. CASE UNCHANGED vars
      BY <3>3 DEF vars
    <3> QED
      BY <2>3, <3>1, <3>2, <3>3
  <2>4. day' = day
    BY <1>2, <2>1, <2>2, <2>3 DEF Next
  <2> QED
    BY <1>0, <2>4
<1> QED
  BY <1>1, <1>2

LEMMA Later ==
  ASSUME NEW x, NEW d \in Nat, NEW e \in Nat, e >= d, By(x, d) PROVE By(x, e)
BY DEF By

LEMMA TodayNext ==
  ASSUME Inv, TodayInv, [Next]_vars PROVE TodayInv'
<1>0. MemT /\ JobT
  BY Kept
<1>1. CASE oem' = NoOem
  BY <1>1 DEF TodayInv, NoOem
<1>2. CASE oem' = oem /\ day' = day
  BY <1>2 DEF TodayInv
<1>3. ASSUME NEW id \in Names, OemLive(id), day' = day PROVE TodayInv'
  BY <1>0, <1>3 DEF OemLive, Answer, TodayInv, MemT
<1>4. day' # day => oem' = NoOem
  BY Calendar
<1>5. oem' = oem \/ oem' = NoOem \/ \E id \in Names : OemLive(id)
  <2>1. ASSUME NEW t \in Threads, Scoped(t) \/ WuStep(t) PROVE oem' = oem
    BY <2>1 DEF Scoped, Enter, Load, OpenForWrite, Fill, Exit, WuStep, WuHit, WuMiss, WuLoaded,
         WuNotOnDisk, WuAnswered, WuKept, WuAnsweredNothing, WuSaved
  <2>2. ASSUME NEW t \in Threads, OemStep(t) PROVE oem' = oem \/ \E id \in Names : OemLive(id)
    <3>1. CASE OemAskedLive(t)
      <4>1. call[t] \in Calls
        BY <3>1, Kept DEF OemAskedLive, Returned, ControlInv, AtT, InCall
      <4> QED
        BY <3>1, <4>1 DEF OemAskedLive, Calls
    <3>2. CASE OemAsk(t) \/ OemOnDisk(t)
      BY <3>2 DEF OemAsk, OemOnDisk
    <3> QED
      BY <2>2, <3>1, <3>2 DEF OemStep
  <2>3. ASSUME JobStep PROVE oem' = oem \/ oem' = NoOem \/ \E id \in Names : OemLive(id)
    <3>1. CASE DeepOem
      BY <1>0, <3>1 DEF DeepOem, JobT
    <3>2. CASE ~DeepOem
      BY <2>3, <3>2 DEF JobStep, StartBatch, StartPool, StartSingle, EndPool, Persist, PersistOem,
           Leave, StartRefresh, RefreshClear, Clear, DeepWuNothing, Built, RefreshFails
    <3> QED
      BY <3>1, <3>2
  <2>4. CASE ProfileArrives \/ ClearMenu \/ Expire \/ NextDay \/ Restart \/ UNCHANGED vars
    BY <2>4 DEF ProfileArrives, ClearMenu, Clear, Expire, NextDay, Restart, vars
  <2> QED
    BY <2>1, <2>2, <2>3, <2>4 DEF Next
<1> QED
  BY <1>1, <1>2, <1>3, <1>4, <1>5

\* What a load hands out is of the one folder.
LEMMA Loaded ==
  ASSUME Inv, FullInstall, NEW t \in Threads, Load(t)
  PROVE  /\ call[t] \in Calls /\ call[t] # NoCall /\ call' = call /\ at'[t] = "exit"
         /\ call[t].op = "load" /\ disk' = disk
         /\ got'[t] \in {Held(call[t].kind), NoRows}
         /\ \A s \in Threads \ {t} : got'[s] = got[s]
<1>1. call[t] \in Calls /\ call[t] # NoCall /\ call' = call /\ at'[t] = "exit" /\ call[t].op = "load"
  BY Kept, CacheConstants DEF Load, ControlInv, AtT, InCall
<1>2. disk' = disk
  BY OneFolder DEF Load
<1>3. got' = [got EXCEPT ![t] = UsableRows(disk[<<Home, call[t].kind>>], call[t].id)]
  BY <1>2, OneFolder DEF Load
<1> QED
  BY <1>1, <1>2, <1>3, Kept DEF UsableRows, Held, GotT

LEMMA DatedNext ==
  ASSUME Inv, FullInstall, HomeInv, TodayInv, DatedInv, [Next]_vars
  PROVE  DatedInv'
<1>0. /\ AtT /\ MemT /\ GotT /\ JobT /\ WorldT /\ ControlInv /\ Main \in Threads
      /\ day \in Nat /\ day' \in Nat /\ day' >= day
  BY Kept, Calendar DEF Threads
<1> DEFINE Old(x) == By(x, day')
<1>l. \A x : By(x, day) => Old(x)
  BY <1>0, Later
<1>n. Old(NoRows) /\ (day' = day => Old(Answer))
  BY <1>0 DEF By, Answer
<1>o. \A id \in Names : By(oem[id], day)
  BY <1>0 DEF TodayInv, By
<1>w. Old(wu) /\ \A t \in Threads : Old(got[t]) /\ (call[t] # NoCall => Old(call[t].rows))
  BY <1>l DEF DatedInv
<1>h. \A kind \in Kinds : Old(Held(kind)) /\ Old(Held(kind)')
  <2>1. ASSUME NEW t \in Threads, Fill(t), NEW kind \in Kinds PROVE Old(Held(kind)')
    <3>1. Held(kind)' = (IF kind = call[t].kind THEN call[t].rows ELSE Held(kind)) /\ call[t] # NoCall
      BY <2>1, FilledFile DEF Saving
    <3> QED
      BY <1>l, <1>w, <3>1 DEF DatedInv
  <2>2. ASSUME \A t \in Threads : ~Fill(t), NEW kind \in Kinds PROVE Old(Held(kind)')
    BY <1>l, <1>n, <2>2, HeldStep DEF DatedInv
  <2> QED
    BY <1>l, <2>1, <2>2 DEF DatedInv
<1> HIDE DEF Old
<1> DEFINE Done == /\ Old(wu')
                   /\ \A t \in Threads : Old(got'[t]) /\ (call'[t] # NoCall => Old(call'[t].rows))
<1>c. ASSUME NEW t \in Threads, NEW op \in {"load", "save"}, NEW kind \in Kinds, NEW id \in Names,
             NEW rows \in Rows \cup {NoRows}, Call(t, op, kind, id, rows), Old(rows)
      PROVE  \A s \in Threads : call'[s] # NoCall => Old(call'[s].rows)
  BY <1>c, <1>w, CallMade
<1>g. ASSUME NEW t \in Threads, NEW step, Go(t, step)
      PROVE  \A s \in Threads : call'[s] # NoCall => Old(call'[s].rows)
  BY <1>g, <1>w, Gone
<1>1. ASSUME NEW t \in Threads, Scoped(t) PROVE Done
  <2>1. CASE Enter(t) \/ Fill(t) \/ Exit(t)
    BY <1>w, <2>1 DEF Enter, Fill, Exit
  <2>2. CASE Load(t)
    <3>1. call[t].kind \in Kinds
      BY <2>2, Loaded DEF Calls
    <3> QED
      BY <1>w, <1>n, <1>h, <2>2, <3>1, Loaded, ZenonT(60) DEF Load
  <2>3. CASE OpenForWrite(t)
    <3>1. call'[t].rows = call[t].rows /\ call[t] # NoCall /\ got' = got /\ wu' = wu
      BY <2>3, Opened DEF OpenForWrite, Saving
    <3>2. \A s \in Threads \ {t} : call'[s] = call[s]
      BY <2>3, OthersStay DEF Scoped
    <3> QED
      BY <1>w, <3>1, <3>2
  <2> QED
    BY <1>1, <2>1, <2>2, <2>3 DEF Scoped
<1>2. ASSUME NEW t \in Threads, WuStep(t) PROVE Done
  <2>1. CASE WuHit(t) \/ WuAnsweredNothing(t) \/ WuSaved(t) \/ WuNotOnDisk(t)
    BY <1>w, <1>g, <2>1 DEF WuHit, WuAnsweredNothing, WuSaved, WuNotOnDisk, WuDone
  <2>2. CASE WuLoaded(t)
    BY <1>w, <1>g, <2>2 DEF WuLoaded, WuDone, Keep
  <2>3. CASE WuMiss(t)
    BY <1>0, <1>w, <1>n, <1>c, <2>3 DEF WuMiss, Kinds, JobT
  <2>4. CASE WuAnswered(t)
    BY <1>0, <1>w, <1>n, <1>g, <2>4 DEF WuAnswered, GotT
  <2>5. CASE WuKept(t)
    BY <1>0, <1>w, <1>c, <2>5 DEF WuKept, Keep, Kinds, JobT, GotT
  <2> QED
    BY <1>2, <2>1, <2>2, <2>3, <2>4, <2>5 DEF WuStep
<1>3. ASSUME NEW t \in Threads, OemStep(t) PROVE Done
  <2>1. CASE OemAsk(t)
    BY <1>0, <1>w, <1>n, <1>c, <2>1 DEF OemAsk, Kinds, JobT
  <2>2. CASE OemOnDisk(t) \/ OemAskedLive(t)
    BY <1>w, <1>g, <2>2 DEF OemOnDisk, OemAskedLive
  <2> QED
    BY <1>3, <2>1, <2>2 DEF OemStep
<1>4. ASSUME JobStep PROVE Done
  <2>e. ASSUME Ends, wu' = wu PROVE Done
    BY <1>0, <1>w, <1>n, <1>g, <2>e DEF Ends
  <2>1. CASE StartBatch \/ StartPool \/ StartSingle \/ EndPool
    BY <1>0, <1>w, <1>g, <2>e, <2>1 DEF StartBatch, StartPool, StartSingle, EndPool
  <2>2. CASE Persist
    BY <1>0, <1>w, <1>g, <1>c, <2>2 DEF Persist, Kinds, MemT, JobT
  <2>3. CASE PersistOem
    <3>1. raw \in Names /\ oem[raw] \in Rows \cup {NoRows} /\ Old(oem[raw])
      BY <1>0, <1>l, <1>o DEF JobT, MemT
    <3> QED
      BY <1>0, <1>w, <1>g, <1>c, <2>3, <3>1 DEF PersistOem, Kinds
  <2>4. CASE Leave \/ RefreshFails
    BY <2>e, <2>4 DEF Leave, RefreshFails
  <2>5. CASE StartRefresh \/ Built
    BY <1>w, <2>5 DEF StartRefresh, Built
  <2>6. CASE RefreshClear
    BY <1>0, <1>w, <1>n, <1>g, <2>6 DEF RefreshClear, Clear, Kinds
  <2>7. CASE DeepWuNothing
    BY <1>0, <1>w, <1>n, <1>c, <2>7 DEF DeepWuNothing, Kinds, JobT
  <2>8. CASE DeepOem
    <3>1. raw \in Names /\ MemT' /\ TodayInv'
      BY <1>0, <2>8, OemLiveType, TodayNext DEF DeepOem, JobT
    <3>2. oem'[raw] \in Rows \cup {NoRows} /\ Old(oem'[raw])
      BY <1>0, <3>1 DEF MemT, TodayInv, Old, By
    <3> QED
      BY <1>0, <1>w, <1>c, <2>8, <3>1, <3>2 DEF DeepOem, Kinds
  <2> QED
    BY <1>4, <2>1, <2>2, <2>3, <2>4, <2>5, <2>6, <2>7, <2>8 DEF JobStep
<1>5. CASE ProfileArrives \/ ClearMenu \/ Expire \/ NextDay \/ Restart \/ UNCHANGED vars
  <2>1. CASE ProfileArrives \/ Expire \/ NextDay \/ UNCHANGED vars
    BY <1>h, <1>w, <2>1 DEF ProfileArrives, Expire, NextDay, vars, DatedInv, Old
  <2>2. CASE ClearMenu
    BY <1>h, <1>w, <1>n, <2>2 DEF ClearMenu, Clear, DatedInv, Old
  <2>3. CASE Restart
    BY <1>h, <1>n, <2>3 DEF Restart, DatedInv, Old
  <2> QED
    BY <1>5, <2>1, <2>2, <2>3
<1>6. Done => DatedInv'
  BY <1>h DEF DatedInv, Old
<1> QED
  BY <1>1, <1>2, <1>3, <1>4, <1>5, <1>6 DEF Next

-----------------------------------------------------------------------------
(* No save of older rows over newer ones. *)

AgeInv == HomeInv /\ OneWriter /\ TodayInv /\ DatedInv /\ NewerInv

LEMMA BringsBusy ==
  ASSUME Inv, NEW t \in Threads, Brings(t) PROVE WuBusy(t)
BY Kept DEF Brings, WuBusy, ControlInv, InCall

LEMMA NewerThanSelf ==
  ASSUME NEW x \in Rows \cup {NoRows} PROVE Newer(x, x)
BY DEF Newer, Rows, Days

\* What is of today is not older than anything.
LEMMA TodayNewer ==
  ASSUME day \in Nat, NEW x, NEW y, x # NoRows => x.asOf = day, By(y, day) PROVE Newer(x, y)
BY DEF Newer, By

LEMMA FillNewer ==
  ASSUME Inv, AgeInv, NEW t \in Threads, Fill(t) PROVE NewerInv'
<1>0. AtT /\ MemT /\ HomeInv /\ OneWriter /\ NewerInv
  BY Kept DEF AgeInv
<1>1. /\ call[t] \in Calls /\ Saving(t) /\ WuBusy(t)
      /\ wu' = wu /\ got' = got /\ call' = call /\ at' = [at EXCEPT ![t] = "exit"]
  BY <1>0, FilledFile DEF Fill, WuBusy, Kinds
<1>2. \A kind \in Kinds :
        Held(kind)' = IF kind = call[t].kind THEN call[t].rows ELSE Held(kind)
  BY <1>0, FilledFile
<1>3. call[t].rows \in Rows \cup {NoRows} /\ call[t].kind \in Kinds
  BY <1>1 DEF Calls
<1>4. Newer(wu', Held("wu")')
  <2>1. CASE call[t].kind = "wu"
    <3>1. Held("wu")' = call[t].rows
      BY <1>2, <1>3, <2>1
    <3>2. wu = NoRows \/ call[t].rows = NoRows \/ wu = call[t].rows
      BY <1>0, <1>1, <2>1 DEF NewerInv, SavesNewer
    <3>3. Newer(wu, wu)
      BY <1>0, NewerThanSelf DEF MemT
    <3> QED
      BY <1>1, <3>1, <3>2, <3>3 DEF Newer
  <2>2. CASE call[t].kind # "wu"
    BY <1>0, <1>1, <1>2, <2>2 DEF NewerInv, Kinds
  <2> QED
    BY <2>1, <2>2
<1>5. ASSUME NEW s \in Threads PROVE ~Brings(s)'
  <2>1. CASE s = t
    BY <1>0, <1>1, <2>1 DEF Brings, Saving, AtT
  <2>2. CASE s # t
    BY <1>0, <1>1, <2>2, BringsBusy DEF Brings, OneWriter, AtT
  <2> QED
    BY <2>1, <2>2
<1>6. ASSUME NEW s \in Threads, Saving(s)' PROVE SavesNewer(s)'
  <2>1. Saving(s) /\ WuBusy(s)
    BY <1>1, <1>6 DEF Saving, WuBusy
  <2>2. s = t /\ SavesNewer(t)
    BY <1>0, <1>1, <2>1 DEF OneWriter, NewerInv
  <2>3. PICK kind \in Kinds : kind = call[t].kind
    BY <1>3
  <2>4. Held(kind)' = call[t].rows
    BY <1>2, <2>3
  <2>5. Newer(call[t].rows, call[t].rows)
    BY <1>3, NewerThanSelf
  <2>6. call'[s].rows = call[t].rows /\ call'[s].kind = kind /\ wu' = wu
    BY <1>1, <2>2, <2>3
  <2> QED
    BY <2>2, <2>3, <2>4, <2>5, <2>6 DEF SavesNewer
<1> QED
  BY <1>1, <1>4, <1>5, <1>6 DEF NewerInv

\* A thread that fills no file.
LEMMA ThreadNewer ==
  ASSUME Inv, FullInstall, AgeInv, [Next]_vars, \A s \in Threads : ~Fill(s),
         NEW t \in Threads, Scoped(t) \/ WuStep(t) \/ OemStep(t),
         Newer(wu', Held("wu")'), wu' \in {wu, NoRows} \/ WuBusy(t),
         Brings(t)' => Newer(got'[t], Held("wu")'),
         Saving(t)' => SavesNewer(t)'
  PROVE  NewerInv'
<1>0. NewerInv /\ OneWriter /\ AtT
  BY Kept DEF AgeInv
<1>1. \A kind \in Kinds : Held(kind)' \in {Held(kind), NoRows}
  BY HeldStep
<1>2. ASSUME NEW s \in Threads, s # t, Brings(s)' PROVE Newer(got'[s], Held("wu")')
  <2>1. Brings(s) /\ got'[s] = got[s]
    BY <1>2, OthersStay DEF Brings
  <2> QED
    BY <1>0, <1>1, <2>1 DEF NewerInv, Newer, Kinds
<1>3. ASSUME NEW s \in Threads, s # t, Saving(s)' PROVE SavesNewer(s)'
  <2>1. call'[s] = call[s] /\ Saving(s) /\ WuBusy(s) /\ SavesNewer(s)
    BY <1>0, <1>3, OthersStay DEF Saving, WuBusy, NewerInv
  <2>2. ~WuBusy(t)
    BY <1>0, <1>3, <2>1 DEF OneWriter
  <2>3. PICK kind \in Kinds : kind = call[s].kind
    BY <1>0, <2>1 DEF Saving, AtT, Calls
  <2>4. Newer(call[s].rows, Held(kind)')
    BY <1>1, <2>1, <2>3 DEF Newer, SavesNewer
  <2> QED
    BY <2>1, <2>2, <2>3, <2>4 DEF SavesNewer
<1> QED
  BY <1>2, <1>3 DEF NewerInv

LEMMA ThreadsNewer ==
  ASSUME Inv, FullInstall, AgeInv, [Next]_vars, \A s \in Threads : ~Fill(s),
         NEW t \in Threads, Scoped(t) \/ WuStep(t) \/ OemStep(t)
  PROVE  NewerInv'
<1>0. /\ AtT /\ GotT /\ MemT /\ JobT /\ WorldT /\ ControlInv
      /\ HomeInv /\ DatedInv /\ NewerInv /\ day \in Nat
  BY Kept, Calendar DEF AgeInv
<1>h. \A kind \in Kinds : Held(kind)' \in {Held(kind), NoRows}
  BY HeldStep
<1>n. \A x : \A kind \in Kinds : Newer(x, Held(kind)) => Newer(x, Held(kind)')
  BY <1>h DEF Newer
<1>k. "wu" \in Kinds /\ "oem" \in Kinds
  BY DEF Kinds
<1>w. Newer(wu, Held("wu")') /\ (Brings(t) => Newer(got[t], Held("wu")'))
  BY <1>0, <1>n, <1>k DEF NewerInv
<1>s. ASSUME Saving(t), wu' = wu, call'[t].kind = call[t].kind, call'[t].rows = call[t].rows
      PROVE  SavesNewer(t)'
  <2>1. PICK kind \in Kinds : kind = call[t].kind
    BY <1>0, <1>s DEF Saving, AtT, Calls
  <2>2. SavesNewer(t)
    BY <1>0, <1>s DEF NewerInv
  <2> QED
    BY <1>n, <1>s, <2>1, <2>2 DEF SavesNewer
<1>1. CASE Enter(t) \/ Exit(t)
  <2>1. wu' = wu /\ got' = got /\ call' = call
    BY <1>1 DEF Enter, Exit
  <2>2. Brings(t)' => Brings(t)
    BY <1>0, <1>1, <2>1 DEF Enter, Exit, Brings, AtT
  <2>3. Saving(t)' => SavesNewer(t)'
    BY <1>s, <2>1 DEF Saving
  <2> QED
    BY <1>1, <1>w, <2>1, <2>2, <2>3, ThreadNewer
<1>2. CASE Load(t)
  <2>1. wu' = wu /\ ~Saving(t)'
    BY <1>2, Loaded DEF Load, Saving
  <2>2. Brings(t)' => Newer(got'[t], Held("wu")')
    <3>1. Held("wu")' = Held("wu")
      BY <1>2, Loaded, SameFiles
    <3>2. Newer(Held("wu"), Held("wu")) /\ Newer(NoRows, Held("wu"))
      BY <1>k, HeldType, NewerThanSelf DEF Newer
    <3>3. Brings(t)' => got'[t] \in {Held("wu"), NoRows}
      BY <1>2, Loaded DEF Brings
    <3> QED
      BY <3>1, <3>2, <3>3
  <2> QED
    BY <1>2, <1>w, <2>1, <2>2, ThreadNewer
<1>3. CASE OpenForWrite(t)
  <2>1. wu' = wu /\ ~Brings(t)'
    BY <1>3, Opened DEF OpenForWrite, Brings
  <2>2. SavesNewer(t)'
    BY <1>3, <1>s, <2>1, Opened
  <2> QED
    BY <1>3, <1>w, <2>1, <2>2, ThreadNewer
<1>g. ASSUME NEW step \in {"idle", "oem", "fetch", "keep"}, Go(t, step)
      PROVE  ~Saving(t)' /\ (Brings(t)' => step = "keep")
  BY <1>g, Gone DEF Saving, Brings
<1>d. ASSUME WuDone(t) PROVE ~Saving(t)' /\ ~Brings(t)'
  BY <1>d, <1>g DEF WuDone
<1>4. CASE WuHit(t) \/ WuAnsweredNothing(t) \/ WuSaved(t) \/ WuNotOnDisk(t)
  <2>1. wu' = wu /\ (WuDone(t) \/ Go(t, "fetch"))
    BY <1>4 DEF WuHit, WuAnsweredNothing, WuSaved, WuNotOnDisk
  <2> QED
    BY <1>d, <1>g, <1>w, <2>1, ThreadNewer
<1>5. CASE WuLoaded(t)
  <2>1. wu' = got[t] /\ WuDone(t) /\ Brings(t) /\ WuBusy(t)
    BY <1>5, BringsBusy DEF WuLoaded, Keep, Returned, Brings
  <2> QED
    BY <1>d, <1>w, <2>1, ThreadNewer
<1>6. CASE WuMiss(t) \/ OemAsk(t)
  <2>1. PICK kind \in Kinds, id \in Names : Call(t, "load", kind, id, NoRows)
    BY <1>0, <1>6, <1>k DEF WuMiss, OemAsk, JobT
  <2>2. ~Saving(t)' /\ ~Brings(t)' /\ wu' = wu
    BY <1>6, <2>1, CallMade DEF WuMiss, OemAsk, Saving, Brings
  <2> QED
    BY <1>w, <2>2, ThreadNewer
<1>7. CASE WuAnswered(t)
  <2>1. wu' = wu /\ Go(t, "keep") /\ got'[t] = Answer
    BY <1>0, <1>7 DEF WuAnswered, GotT
  <2>2. Newer(Answer, Held("wu"))
    BY <1>0, <1>k, TodayNewer DEF DatedInv, Answer
  <2>3. Newer(got'[t], Held("wu")')
    BY <1>k, <1>n, <2>1, <2>2
  <2> QED
    BY <1>g, <1>w, <2>1, <2>3, ThreadNewer
<1>8. CASE WuKept(t)
  <2>1. wu' = got[t] /\ Call(t, "save", "wu", ext, got[t]) /\ Brings(t) /\ WuBusy(t)
    BY <1>8 DEF WuKept, Keep, Brings, WuBusy
  <2>2. call'[t].kind = "wu" /\ call'[t].rows = got[t] /\ at'[t] = "enter"
    BY <1>0, <1>k, <2>1, CallMade DEF JobT, GotT
  <2>3. SavesNewer(t)' /\ ~Brings(t)'
    BY <1>w, <2>1, <2>2 DEF SavesNewer, Brings
  <2> QED
    BY <1>w, <2>1, <2>3, ThreadNewer
<1>9. CASE OemOnDisk(t) \/ OemAskedLive(t)
  <2>1. wu' = wu /\ Go(t, "idle")
    BY <1>9 DEF OemOnDisk, OemAskedLive
  <2> QED
    BY <1>g, <1>w, <2>1, ThreadNewer
<1> QED
  BY <1>1, <1>2, <1>3, <1>4, <1>5, <1>6, <1>7, <1>8, <1>9 DEF Scoped, WuStep, OemStep

LEMMA JobsNewer ==
  ASSUME Inv, Inv', FullInstall, AgeInv, [Next]_vars, JobStep
  PROVE  NewerInv'
<1>0. /\ AtT /\ MemT /\ JobT /\ ControlInv /\ AtT' /\ ControlInv' /\ Main \in Threads
      /\ HomeInv /\ DatedInv /\ TodayInv /\ NewerInv /\ day \in Nat
  BY Kept, Calendar DEF AgeInv, Inv, TypeOK, AtT, Threads
<1>f. \A t \in Threads : ~Fill(t)
  <2>1. ASSUME NEW t \in Threads, Fill(t) PROVE FALSE
    <3>1. at[t] = "fill" /\ stage' = stage /\ at'[t] = "exit"
      BY <1>0, <2>1 DEF Fill, AtT
    <3>2. JobStep => stage' # stage \/ at'[Main] = "enter"
      BY <1>0 DEF JobStep, StartBatch, StartPool, StartSingle, EndPool, Ends, Begins, Persist,
         PersistOem, Leave, StartRefresh, RefreshClear, DeepWuNothing, DeepOem, Built, RefreshFails,
         Call, AtT
    <3>3. stage # "pool" => t = Main
      BY <1>0, <3>1 DEF ControlInv, Threads
    <3>4. stage = "pool" => stage' # stage
      BY <1>0 DEF JobStep, StartBatch, StartPool, StartSingle, EndPool, Ends, Begins, Persist,
         PersistOem, Leave, StartRefresh, RefreshClear, DeepWuNothing, DeepOem, Built, RefreshFails
    <3> QED
      BY <3>1, <3>2, <3>3, <3>4
  <2> QED
    BY <2>1
<1>h. \A kind \in Kinds : Held(kind)' \in {Held(kind), NoRows}
  BY <1>f, HeldStep
<1>n. \A x : \A kind \in Kinds : Newer(x, Held(kind)) => Newer(x, Held(kind)')
  BY <1>h DEF Newer
<1>k. "wu" \in Kinds /\ "oem" \in Kinds
  BY DEF Kinds
<1>w. Newer(wu, Held("wu")') /\ Newer(NoRows, Held("wu")')
  BY <1>0, <1>n, <1>k DEF NewerInv, Newer
<1>i. ASSUME NEW t \in Threads, at'[t] \in {"idle", "wu", "oem", "fetch"}
      PROVE  ~Saving(t)' /\ ~Brings(t)'
  BY <1>0, <1>i DEF ControlInv, InCall, Saving, Brings
<1>p. ASSUME NEW t \in Pool PROVE ~Saving(t)' /\ ~Brings(t)'
  <2>1. CASE stage' # "pool"
    BY <1>0, <1>i, <2>1 DEF ControlInv, Threads
  <2>2. CASE StartPool \/ StartSingle
    <3>1. at'[t] \in {"idle", "wu", "oem"} /\ t \in Threads
      BY <2>2, OneIsMain DEF StartPool, StartSingle, Threads
    <3> QED
      BY <1>i, <3>1
  <2>3. JobStep => stage' # "pool" \/ StartPool \/ StartSingle
    BY <1>0 DEF JobStep, StartBatch, EndPool, Ends, Persist, PersistOem, Leave,
                StartRefresh, RefreshClear, DeepWuNothing, DeepOem, Built, RefreshFails
  <2> QED
    BY <2>1, <2>2, <2>3
<1>m. ASSUME wu' \in {wu, NoRows}, Brings(Main)' => Newer(got'[Main], Held("wu")'),
             Saving(Main)' => SavesNewer(Main)'
      PROVE  NewerInv'
  BY <1>m, <1>p, <1>w DEF NewerInv, Threads
<1>c. ASSUME NEW kind \in Kinds, NEW rows \in Rows \cup {NoRows}, Newer(rows, Held(kind)'),
             Call(Main, "save", kind, raw, rows), wu' = wu,
             kind = "wu" => rows \in {wu, NoRows}
      PROVE  NewerInv'
  <2>1. call'[Main].kind = kind /\ call'[Main].rows = rows /\ at'[Main] = "enter"
    BY <1>0, <1>c, CallMade DEF JobT
  <2>2. SavesNewer(Main)' /\ ~Brings(Main)'
    BY <1>c, <2>1 DEF SavesNewer, Brings
  <2> QED
    BY <1>c, <1>m, <2>2
<1>g. ASSUME NEW step \in {"idle", "wu", "fetch"}, Go(Main, step), wu' \in {wu, NoRows} PROVE NewerInv'
  BY <1>0, <1>g, <1>i, <1>m, Gone
<1>1. CASE StartBatch \/ EndPool \/ Leave \/ RefreshFails \/ StartRefresh
  <2>1. wu' = wu
    BY <1>1 DEF StartBatch, EndPool, Leave, RefreshFails, StartRefresh
  <2>2. at'[Main] \in {"idle", "wu"}
    BY <1>0, <1>1, Gone DEF StartBatch, EndPool, Leave, RefreshFails, StartRefresh, Ends, ControlInv
  <2> QED
    BY <1>0, <1>i, <1>m, <2>1, <2>2
<1>2. CASE StartPool \/ StartSingle
  <2>1. wu' = wu /\ stage' = "pool"
    BY <1>2 DEF StartPool, StartSingle
  <2> QED
    BY <1>0, <1>i, <1>m, <2>1 DEF ControlInv
<1>3. CASE Persist
  <2>1. wu' = wu /\ (Go(Main, "idle") \/ Call(Main, "save", "wu", raw, wu))
    BY <1>3 DEF Persist
  <2> QED
    BY <1>0, <1>c, <1>g, <1>k, <1>w, <2>1 DEF MemT
<1>4. CASE PersistOem
  <2>1. wu' = wu /\ (Go(Main, "idle") \/ Call(Main, "save", "oem", raw, oem[raw]))
    BY <1>4 DEF PersistOem
  <2>2. raw \in Names /\ oem[raw] \in Rows \cup {NoRows}
    BY <1>0 DEF JobT, MemT
  <2>3. Newer(oem[raw], Held("oem")')
    BY <1>0, <1>k, <1>n, <2>2, TodayNewer DEF TodayInv, DatedInv
  <2> QED
    BY <1>c, <1>g, <1>k, <2>1, <2>2, <2>3
<1>5. CASE RefreshClear
  <2>1. Go(Main, "fetch") /\ wu' \in {wu, NoRows}
    BY <1>5 DEF RefreshClear, Clear
  <2> QED
    BY <1>g, <2>1
<1>6. CASE DeepWuNothing
  BY <1>c, <1>k, <1>w, <1>6 DEF DeepWuNothing
<1>7. CASE DeepOem
  <2>1. raw \in Names /\ MemT' /\ TodayInv' /\ day' = day /\ raw' = raw
    BY <1>0, <1>7, OemLiveType, TodayNext DEF DeepOem, JobT
  <2>2. oem'[raw] \in Rows \cup {NoRows} /\ (oem'[raw] # NoRows => oem'[raw].asOf = day)
    BY <2>1 DEF MemT, TodayInv
  <2>3. Newer(oem'[raw], Held("oem"))
    BY <1>0, <1>k, <2>2, TodayNewer DEF DatedInv
  <2>4. wu' = wu /\ Call(Main, "save", "oem", raw, oem'[raw])
    BY <1>7 DEF DeepOem
  <2> QED
    BY <1>c, <1>k, <1>n, <2>2, <2>3, <2>4
<1>8. CASE Built
  <2>1. wu' = wu /\ got' = got /\ call' = call /\ at' = at /\ disk' = disk
    BY <1>8 DEF Built
  <2> QED
    BY <1>0, <2>1 DEF NewerInv, SavesNewer, Saving, Brings, Held
<1> QED
  BY <1>1, <1>2, <1>3, <1>4, <1>5, <1>6, <1>7, <1>8 DEF JobStep

LEMMA WorldNewer ==
  ASSUME Inv, FullInstall, AgeInv, [Next]_vars,
         ProfileArrives \/ ClearMenu \/ Expire \/ NextDay \/ Restart \/ UNCHANGED vars
  PROVE  NewerInv'
<1>0. NewerInv /\ AtT
  BY Kept DEF AgeInv
<1>1. CASE Restart
  BY <1>1 DEF Restart, NewerInv, Newer, Saving, Brings
<1>2. CASE ~Restart
  <2>1. wu' \in {wu, NoRows} /\ got' = got /\ call' = call /\ at' = at
    BY <1>2 DEF ProfileArrives, ClearMenu, Clear, Expire, NextDay, vars
  <2>2. \A kind \in Kinds : Held(kind)' \in {Held(kind), NoRows}
    <3>1. CASE ClearMenu
      BY <3>1, ClearedFiles DEF ClearMenu
    <3>2. CASE ~ClearMenu
      BY <1>2, <3>2, SameFiles DEF ProfileArrives, Expire, NextDay, vars
    <3> QED
      BY <3>1, <3>2
  <2>3. Newer(wu', Held("wu")') /\ \A t \in Threads : Brings(t)' => Newer(got'[t], Held("wu")')
    BY <1>0, <2>1, <2>2 DEF NewerInv, Newer, Brings, Kinds
  <2>4. ASSUME NEW t \in Threads, Saving(t)' PROVE SavesNewer(t)'
    <3>1. Saving(t) /\ SavesNewer(t)
      BY <1>0, <2>1, <2>4 DEF Saving, NewerInv
    <3>2. PICK kind \in Kinds : kind = call[t].kind
      BY <1>0, <3>1 DEF Saving, AtT, Calls
    <3>3. Newer(call[t].rows, Held(kind)')
      BY <2>2, <3>1, <3>2 DEF Newer, SavesNewer
    <3> QED
      BY <2>1, <3>1, <3>2, <3>3 DEF SavesNewer
  <2> QED
    BY <2>3, <2>4 DEF NewerInv
<1> QED
  BY <1>1, <1>2

\* What an older version left was there when the calendar begins.
PastLegacy == \A f \in Legacy : f # NoFile /\ f.rows # NoRows => f.rows.asOf = 0

LEMMA AgeInit == ASSUME Init PROVE HomeInv /\ OneWriter /\ TodayInv /\ (PastLegacy => DatedInv /\ NewerInv)
<1>1. HomeInv /\ OneWriter /\ TodayInv
  BY DEF Init, HomeInv, OneWriter, WuBusy, Saving, TodayInv, NoOem
<1>2. ASSUME PastLegacy, NEW kind \in Kinds PROVE By(Held(kind), day)
  <2>1. <<Home, kind>> \in Places \X Kinds
    BY DEF Places
  <2>2. disk[<<Home, kind>>] \in Legacy
    BY <2>1 DEF Init
  <2> QED
    BY <1>2, <2>2 DEF Init, PastLegacy, By, Held, Readable
<1>3. ASSUME PastLegacy PROVE DatedInv
  BY <1>2, <1>3 DEF Init, DatedInv, By
<1>4. NewerInv
  BY DEF Init, NewerInv, Newer, Brings, Saving
<1> QED
  BY <1>1, <1>3, <1>4

LEMMA AgeNext ==
  ASSUME FullInstall PROVE Inv /\ Inv' /\ AgeInv /\ [Next]_vars => AgeInv'
<1> SUFFICES ASSUME Inv, Inv', AgeInv, [Next]_vars PROVE AgeInv'
  OBVIOUS
<1>1. HomeInv' /\ OneWriter' /\ TodayInv' /\ DatedInv'
  BY HomeNext, WriterNext, TodayNext, DatedNext DEF AgeInv
<1>2. NewerInv'
  <2>1. CASE \E t \in Threads : Fill(t)
    BY <2>1, FillNewer
  <2>2. CASE \A t \in Threads : ~Fill(t)
    BY <2>2, ThreadsNewer, JobsNewer, WorldNewer DEF Next
  <2> QED
    BY <2>1, <2>2
<1> QED
  BY <1>1, <1>2 DEF AgeInv

\* Only an open for write empties a file, and only that of its own call.
LEMMA WhoTears ==
  ASSUME Inv, FullInstall, AgeInv, Next, NEW f \in Places \X Kinds, disk'[f] = Torn, Readable(disk[f])
  PROVE  \E t \in Threads : OpenForWrite(t) /\ f = <<Home, call[t].kind>>
<1>0. disk \in DiskSet /\ disk'[f] # disk[f] /\ disk' # disk
  BY Kept DEF DiskT, Readable
<1>1. ASSUME NEW t \in Threads, Scoped(t)
      PROVE  OpenForWrite(t) /\ f = <<Home, call[t].kind>>
  <2>1. CASE OpenForWrite(t)
    <3>1. disk' = [disk EXCEPT ![<<Home, call[t].kind>>] = Torn]
      BY <2>1, OpenedFile DEF Kinds
    <3> QED
      BY <1>0, <2>1, <3>1 DEF DiskSet
  <2>2. CASE Fill(t)
    <3> DEFINE new == [machine |-> call[t].id, at |-> call[t].at, rows |-> call[t].rows]
    <3>1. call[t] \in Calls
      BY <2>2, FilledFile DEF Kinds, AgeInv
    <3>2. new \in Files /\ new # Torn
      BY <3>1, CacheConstants DEF Calls, Files
    <3>3. disk' = [disk EXCEPT ![<<call[t].place, call[t].kind>>] = new]
      BY <2>2 DEF Fill
    <3> HIDE DEF new
    <3>4. disk'[f] \in {disk[f], new}
      BY <1>0, <3>3 DEF DiskSet
    <3> QED
      BY <1>0, <3>2, <3>4
  <2>3. CASE Load(t)
    BY <1>0, <2>3, Loaded
  <2>4. CASE Enter(t) \/ Exit(t)
    BY <1>0, <2>4 DEF Enter, Exit
  <2> QED
    BY <1>1, <2>1, <2>2, <2>3, <2>4 DEF Scoped
<1>2. ASSUME NEW t \in Threads, WuStep(t) \/ OemStep(t) PROVE disk' = disk
  BY <1>2 DEF WuStep, WuHit, WuMiss, WuLoaded, WuNotOnDisk, WuAnswered, WuKept,
              WuAnsweredNothing, WuSaved, OemStep, OemAsk, OemOnDisk, OemAskedLive
<1>3. ASSUME NEW kinds \in SUBSET Kinds, Clear(kinds) PROVE disk'[f] \in {disk[f], NoFile}
  <2>1. disk' = Unlinked(disk, Home, kinds)
    BY <1>3, OneFolder DEF Clear
  <2> QED
    BY <2>1 DEF Unlinked
<1>4. ~JobStep
  <2>1. CASE Persist
    <3>1. disk' = StampedHome(disk, raw)
      BY <2>1, OneFolder DEF Persist
    <3>2. disk[f] \in Files /\ raw \in Names
      BY <1>0, Kept, ReadableType DEF DiskSet, JobT
    <3>3. disk'[f] \in {disk[f], Stamped(disk[f], raw)}
      BY <3>1 DEF StampedHome
    <3> QED
      BY <1>0, <3>2, <3>3, StampedType, CacheConstants
  <2>2. CASE RefreshClear
    BY <1>0, <1>3, <2>2, CacheConstants DEF RefreshClear
  <2>3. CASE StartBatch \/ StartSingle
    BY <1>0, <2>3, OneFolder DEF StartBatch, StartSingle, Begins
  <2>4. CASE \/ StartPool \/ EndPool \/ PersistOem \/ Leave \/ StartRefresh \/ DeepWuNothing
             \/ DeepOem \/ Built \/ RefreshFails
    BY <1>0, <2>4 DEF StartPool, EndPool, PersistOem, Leave, StartRefresh, DeepWuNothing,
                      DeepOem, Built, RefreshFails
  <2> QED
    BY <2>1, <2>2, <2>3, <2>4 DEF JobStep
<1>5. ~(ProfileArrives \/ ClearMenu \/ Expire \/ NextDay \/ Restart)
  <2>1. CASE ClearMenu
    BY <1>0, <1>3, <2>1, CacheConstants DEF ClearMenu
  <2>2. CASE ProfileArrives \/ Expire \/ NextDay \/ Restart
    BY <1>0, <2>2 DEF ProfileArrives, Expire, NextDay, Restart
  <2> QED
    BY <2>1, <2>2
<1> QED
  BY <1>0, <1>1, <1>2, <1>4, <1>5 DEF Next

NeverBack ==
  \A f \in Places \X Kinds, t \in Threads :
    at[t] = "access" /\ call[t].op = "save" /\ disk'[f] = Torn /\ Readable(disk[f])
      /\ disk[f].rows # NoRows /\ call[t].rows # NoRows /\ disk[f].rows.on = call[t].rows.on
    => call[t].rows.asOf >= disk[f].rows.asOf

\* In a full install no save puts older rows of a PC over newer ones of that PC:
\* not the search's own, nor what persist_session_catalog_cache saves again with
\* today's date, nor the refresh, whatever is cleared or crashes in between.
THEOREM RowsNeverOlder ==
  ASSUME FullInstall, PastLegacy PROVE Spec => RowsNeverGoBack
<1>1. Init => Inv /\ AgeInv
  BY InitInv, AgeInit DEF AgeInv
<1>2. Inv /\ [Next]_vars => Inv'
  BY NextInv
<1>3. Inv /\ Inv' /\ AgeInv /\ [Next]_vars => AgeInv'
  BY AgeNext
<1>4. Inv /\ AgeInv /\ [Next]_vars => [NeverBack]_vars
  <2> SUFFICES ASSUME Inv, AgeInv, Next, NEW f \in Places \X Kinds, NEW t \in Threads,
                      at[t] = "access", call[t].op = "save", disk'[f] = Torn, Readable(disk[f]),
                      disk[f].rows # NoRows, call[t].rows # NoRows,
                      disk[f].rows.on = call[t].rows.on
               PROVE  call[t].rows.asOf >= disk[f].rows.asOf
    BY DEF NeverBack
  <2>1. PICK s \in Threads : OpenForWrite(s) /\ f = <<Home, call[s].kind>>
    BY WhoTears
  <2>2. Saving(s) /\ Saving(t)
    BY <2>1, Opened, Kept DEF ControlInv, InCall, Saving
  <2>3. s = t /\ SavesNewer(t)
    BY <2>2 DEF AgeInv, OneWriter, WuBusy, NewerInv
  <2>4. Held(call[t].kind) = disk[f].rows
    BY <2>1, <2>3 DEF Held
  <2> QED
    BY <2>3, <2>4 DEF SavesNewer, Newer
<1> QED
  BY <1>1, <1>2, <1>3, <1>4, PTL DEF Spec, RowsNeverGoBack, NeverBack

-----------------------------------------------------------------------------
(* A refresh leaves nothing old. *)

\* In the stages after the clearing only the job's own thread moves.
LEMMA OnlyMain ==
  ASSUME Inv, stage \in Refreshed, NEW t \in Threads, at[t] # "idle"
  PROVE  t = Main /\ (call[t] # NoCall => call[t].op # "load") /\ at[t] \notin {"wu", "oem"}
BY Kept DEF ControlInv, Refreshed, Search, Threads

\* A step that starts after the clearing and stays there.
LEMMA FreshMain ==
  ASSUME Inv, FullInstall, HomeInv, FreshInv, stage \in Refreshed, stage' \in Refreshed,
         NEW t \in Threads, Scoped(t) \/ WuStep(t) \/ OemStep(t), [Next]_vars
  PROVE  FreshInv'
<1>0. /\ AtT /\ GotT /\ JobT /\ MemT /\ ControlInv /\ WorldT
      /\ since \in Nat /\ day \in Nat /\ since <= day
  BY Kept DEF FreshInv, JobT, WorldT, Days
<1>t. t = Main /\ at[t] # "idle" /\ at[t] \notin {"wu", "oem"}
        /\ (call[t] # NoCall => call[t].op # "load")
  <2>1. at[t] # "idle"
    BY DEF Scoped, Enter, Load, OpenForWrite, Fill, Exit, WuStep, WuHit, WuMiss, WuLoaded,
         WuNotOnDisk, WuAnswered, WuKept, WuAnsweredNothing, WuSaved, OemStep, OemAsk,
         OemOnDisk, OemAskedLive, Returned
  <2> QED
    BY <2>1, OnlyMain
<1>f. /\ Since(wu, since) /\ (at[t] = "keep" => Since(got[t], since))
      /\ (call[t] # NoCall => Since(call[t].rows, since))
      /\ \A kind \in Kinds : Since(Held(kind), since)
  BY <1>t DEF FreshInv
<1>c. at[t] \in InCall => call[t] # NoCall
  BY <1>0 DEF ControlInv
<1>h. ASSUME ~Fill(t) PROVE \A kind \in Kinds : Since(Held(kind)', since)
  <2>1. \A s \in Threads : ~Fill(s)
    BY <1>h, <1>t, OnlyMain DEF Fill
  <2> QED
    BY <1>f, <2>1, HeldStep DEF Since
<1>m. ASSUME since' = since, day' = day, Since(wu', since),
             at'[t] = "keep" => Since(got'[t], since),
             call'[t] # NoCall => Since(call'[t].rows, since),
             \A kind \in Kinds : Since(Held(kind)', since)
      PROVE  FreshInv'
  BY <1>0, <1>m, <1>t DEF FreshInv, Since
<1>1. CASE Enter(t) \/ Exit(t)
  <2>1. since' = since /\ day' = day /\ wu' = wu /\ call' = call /\ at'[t] # "keep" /\ ~Fill(t)
    BY <1>0, <1>1 DEF Enter, Exit, Fill, AtT
  <2> QED
    BY <1>f, <1>h, <1>m, <2>1
<1>2. ~Load(t) /\ ~WuHit(t) /\ ~WuMiss(t) /\ ~WuLoaded(t) /\ ~WuNotOnDisk(t) /\ ~OemStep(t)
  BY <1>t, <1>c DEF Load, WuHit, WuMiss, WuLoaded, WuNotOnDisk, OemStep, OemAsk, OemOnDisk,
                    OemAskedLive, Returned, InCall
<1>3. CASE OpenForWrite(t)
  <2>1. /\ since' = since /\ day' = day /\ wu' = wu /\ at'[t] = "fill" /\ ~Fill(t)
        /\ call[t] # NoCall /\ call'[t].rows = call[t].rows
    BY <1>3, Opened DEF OpenForWrite, Fill, Saving
  <2> QED
    BY <1>f, <1>h, <1>m, <2>1
<1>4. CASE Fill(t)
  <2>1. /\ since' = since /\ day' = day /\ wu' = wu /\ call' = call /\ at'[t] = "exit"
        /\ call[t] # NoCall
    BY <1>0, <1>4, FilledFile DEF Fill, AtT, Saving, Kinds
  <2>2. \A kind \in Kinds : Since(Held(kind)', since)
    BY <1>f, <1>4, <2>1, FilledFile
  <2> QED
    BY <1>f, <1>m, <2>1, <2>2
<1>5. ~WuAnsweredNothing(t) /\ ~WuSaved(t)
  BY DEF WuAnsweredNothing, WuSaved, Refreshed
<1>6. CASE WuAnswered(t)
  <2>1. /\ since' = since /\ day' = day /\ wu' = wu /\ ~Fill(t)
        /\ got'[t] = Answer /\ call'[t] = NoCall
    BY <1>0, <1>6, Gone DEF WuAnswered, GotT, Fill
  <2>2. Since(Answer, since)
    BY <1>0 DEF Since, Answer
  <2> QED
    BY <1>f, <1>h, <1>m, <2>1, <2>2
<1>7. CASE WuKept(t)
  <2>1. /\ since' = since /\ day' = day /\ wu' = got[t] /\ at[t] = "keep" /\ ~Fill(t)
        /\ Call(t, "save", "wu", ext, got[t])
    BY <1>7 DEF WuKept, Keep, Fill
  <2>2. call'[t].rows = got[t] /\ at'[t] = "enter"
    BY <1>0, <2>1, CallMade DEF JobT, GotT, Kinds
  <2> QED
    BY <1>f, <1>h, <1>m, <2>1, <2>2
<1> QED
  BY <1>1, <1>2, <1>3, <1>4, <1>5, <1>6, <1>7 DEF Scoped, WuStep

\* The clearing leaves the one folder empty: no thread is in the middle of a write.
LEMMA AllCleared ==
  ASSUME Inv, FullInstall, RefreshClear, NEW kind \in Kinds
  PROVE  Held(kind)' = NoRows
<1>1. \A t \in Threads : at[t] = "idle"
  BY Kept DEF RefreshClear, ControlInv, Threads
<1>2. disk' = Unlinked(disk, Home, Kinds)
  BY OneFolder DEF RefreshClear, Clear
<1>3. <<Home, kind>> \in Places \X Kinds
  BY HeldType
<1>4. disk'[<<Home, kind>>] = NoFile
  BY <1>1, <1>2, <1>3 DEF Unlinked
<1> QED
  BY <1>4 DEF Held, Readable

LEMMA FreshJob ==
  ASSUME Inv, FullInstall, HomeInv, TodayInv, FreshInv, JobStep, [Next]_vars
  PROVE  FreshInv'
<1>0. /\ AtT /\ JobT /\ MemT /\ ControlInv /\ Main \in Threads
      /\ since \in Nat /\ day \in Nat /\ since <= day
  BY Kept DEF FreshInv, JobT, WorldT, Days, Threads
<1>k. "wu" \in Kinds /\ "oem" \in Kinds
  BY DEF Kinds
<1>1. CASE StartBatch \/ StartPool \/ StartSingle \/ EndPool \/ Persist \/ PersistOem \/ Leave
  <2>1. day' = day
    BY <1>1 DEF StartBatch, StartPool, StartSingle, EndPool, Persist, PersistOem, Leave
  <2>2. since' \in {since, day, 0}
    BY <1>1 DEF StartBatch, StartPool, StartSingle, EndPool, Begins, Persist, PersistOem, Leave, Ends
  <2>3. stage' \notin Refreshed
    BY <1>1 DEF StartBatch, StartPool, StartSingle, EndPool, Persist, PersistOem, Leave, Ends, Refreshed
  <2> QED
    BY <1>0, <2>1, <2>2, <2>3 DEF FreshInv
<1>2. CASE StartRefresh \/ RefreshFails
  <2>1. day' = day /\ since' \in {day, 0} /\ stage' \notin Refreshed
    BY <1>2 DEF StartRefresh, RefreshFails, Ends, Refreshed
  <2> QED
    BY <1>0, <2>1 DEF FreshInv
<1>3. CASE RefreshClear
  <2>1. /\ day' = day /\ since' = since /\ wu' = NoRows
        /\ at'[Main] = "fetch" /\ call'[Main] = NoCall
    BY <1>0, <1>k, <1>3, Gone DEF RefreshClear, Clear
  <2>2. \A kind \in Kinds : Held(kind)' = NoRows
    BY <1>3, AllCleared
  <2> QED
    BY <1>0, <2>1, <2>2 DEF FreshInv, Since
<1>4. CASE DeepWuNothing \/ DeepOem \/ Built
  <2>0. /\ stage \in Refreshed /\ since' = since /\ day' = day /\ wu' = wu /\ disk' = disk
        /\ got' = got
    BY <1>4 DEF DeepWuNothing, DeepOem, Built, Refreshed
  <2>1. Since(wu, since) /\ \A kind \in Kinds : Since(Held(kind), since) /\ Held(kind)' = Held(kind)
    BY <2>0, SameFiles DEF FreshInv
  <2>2. at'[Main] = "keep" => Since(got'[Main], since)
    BY <1>0, <1>4, <2>0 DEF DeepWuNothing, DeepOem, Built, Call, AtT
  <2>3. call'[Main] # NoCall => Since(call'[Main].rows, since)
    <3>1. CASE DeepWuNothing
      BY <1>0, <1>k, <3>1, CallMade DEF DeepWuNothing, Since, JobT
    <3>2. CASE DeepOem
      <4>1. raw \in Names /\ MemT' /\ TodayInv' /\ day' = day
        BY <1>0, <3>2, OemLiveType, TodayNext DEF DeepOem, JobT
      <4>2. oem'[raw] \in Rows \cup {NoRows} /\ Since(oem'[raw], since)
        BY <1>0, <4>1 DEF MemT, TodayInv, Since
      <4>3. Call(Main, "save", "oem", raw, oem'[raw])
        BY <3>2 DEF DeepOem
      <4>4. call'[Main].rows = oem'[raw]
        BY <1>0, <1>k, <4>1, <4>2, <4>3, CallMade
      <4> QED
        BY <4>2, <4>4
    <3>3. CASE Built
      BY <2>0, <3>3 DEF Built, FreshInv
    <3> QED
      BY <1>4, <3>1, <3>2, <3>3
  <2> QED
    BY <1>0, <2>0, <2>1, <2>2, <2>3 DEF FreshInv, Since
<1> QED
  BY <1>1, <1>2, <1>3, <1>4 DEF JobStep

LEMMA FreshWorld ==
  ASSUME Inv, FullInstall, FreshInv, [Next]_vars,
         ProfileArrives \/ ClearMenu \/ Expire \/ NextDay \/ Restart \/ UNCHANGED vars
  PROVE  FreshInv'
<1>0. since \in Nat /\ day \in Nat /\ day' \in Nat /\ since <= day /\ day' >= day
  BY Kept, Calendar DEF FreshInv, JobT, Days
<1>1. CASE Restart
  BY <1>0, <1>1 DEF Restart, FreshInv, Refreshed
<1>2. CASE ~Restart
  <2>1. /\ since' = since /\ stage' = stage /\ wu' \in {wu, NoRows}
        /\ got' = got /\ call' = call /\ at' = at
    BY <1>2 DEF ProfileArrives, ClearMenu, Clear, Expire, NextDay, vars
  <2>2. \A kind \in Kinds : Held(kind)' \in {Held(kind), NoRows}
    <3>1. CASE ClearMenu
      BY <3>1, ClearedFiles DEF ClearMenu
    <3>2. CASE ~ClearMenu
      BY <1>2, <3>2, SameFiles DEF ProfileArrives, Expire, NextDay, vars
    <3> QED
      BY <3>1, <3>2
  <2> QED
    BY <1>0, <2>1, <2>2 DEF FreshInv, Since
<1> QED
  BY <1>1, <1>2

LEMMA FreshNext ==
  ASSUME FullInstall PROVE Inv /\ HomeInv /\ TodayInv /\ FreshInv /\ [Next]_vars => FreshInv'
<1> SUFFICES ASSUME Inv, HomeInv, TodayInv, FreshInv, [Next]_vars PROVE FreshInv'
  OBVIOUS
<1>1. ASSUME NEW t \in Threads, Scoped(t) \/ WuStep(t) \/ OemStep(t) PROVE FreshInv'
  <2>1. since' = since /\ day' = day /\ since <= day
    <3>1. CASE Scoped(t)
      BY <3>1 DEF Scoped, Enter, Load, OpenForWrite, Fill, Exit, FreshInv
    <3>2. CASE WuStep(t)
      BY <3>2 DEF WuStep, WuHit, WuMiss, WuLoaded, WuNotOnDisk, WuAnswered, WuKept,
                  WuAnsweredNothing, WuSaved, FreshInv
    <3>3. CASE OemStep(t)
      BY <3>3 DEF OemStep, OemAsk, OemOnDisk, OemAskedLive, FreshInv
    <3> QED
      BY <1>1, <3>1, <3>2, <3>3
  <2>2. stage' \in Refreshed => stage \in Refreshed
    <3>1. CASE Scoped(t)
      BY <3>1 DEF Scoped, Enter, Load, OpenForWrite, Fill, Exit
    <3>2. CASE WuStep(t)
      BY <3>2 DEF WuStep, WuHit, WuMiss, WuLoaded, WuNotOnDisk, WuAnswered, WuKept,
                  WuAnsweredNothing, WuSaved, WuDone, Refreshed
    <3>3. CASE OemStep(t)
      BY <3>3 DEF OemStep, OemAsk, OemOnDisk, OemAskedLive
    <3> QED
      BY <1>1, <3>1, <3>2, <3>3
  <2>3. CASE stage' \in Refreshed
    BY <1>1, <2>2, <2>3, FreshMain
  <2>4. CASE stage' \notin Refreshed
    BY <2>1, <2>4 DEF FreshInv
  <2> QED
    BY <2>3, <2>4
<1> QED
  BY <1>1, FreshJob, FreshWorld DEF Next

\* In a full install a refresh that comes to its end leaves only rows asked for
\* since it began, on disk and in memory (refresh_driver_database: "clear caches
\* and re-fetch"), whatever the window does meanwhile.
THEOREM RefreshIsComplete ==
  ASSUME FullInstall PROVE Spec => []RefreshLeavesNothingOld
<1> DEFINE I == Inv /\ HomeInv /\ TodayInv /\ FreshInv
<1>1. Init => I
  <2>1. ASSUME Init PROVE FreshInv
    BY <2>1 DEF Init, FreshInv, Refreshed
  <2> QED
    BY <2>1, InitInv, AgeInit
<1>2. I /\ [Next]_vars => I'
  BY NextInv, HomeNext, TodayNext, FreshNext
<1>3. I => RefreshLeavesNothingOld
  <2> SUFFICES ASSUME I, stage = "built"
               PROVE  /\ wu # NoRows => wu.asOf >= since
                      /\ \A kind \in Kinds :
                           LET f == disk[<<Folder(raw), kind>>]
                           IN  Readable(f) /\ f.rows # NoRows => f.rows.asOf >= since
    BY DEF RefreshLeavesNothingOld
  <2>1. Folder(raw) = Home
    BY OneFolder
  <2>2. Since(wu, since) /\ \A kind \in Kinds : Since(Held(kind), since)
    BY DEF FreshInv, Refreshed
  <2> QED
    BY <2>1, <2>2 DEF Since, Held
<1> QED
  BY <1>1, <1>2, <1>3, PTL DEF Spec
=============================================================================
