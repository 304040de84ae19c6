-------------------------- MODULE CatalogDiskCache --------------------------
(***************************************************************************)
(* The Windows Update and PC-maker rows on disk (catalog_cache.py), the rows *)
(* of the session in memory, and the jobs that move rows between the two: a  *)
(* driver search and the refresh of the driver database.                    *)
(*                                                                         *)
(* An identity is what machine_fingerprint makes of what is known about the  *)
(* PC.  The folder of a call depends on a global, _bound_system_ctx, that a  *)
(* with statement (catalog_system_ctx_scope) sets and puts back; entering,   *)
(* opening the file and leaving are three steps, so that threads can meet    *)
(* in between.  A write is two steps, the file being empty in between.       *)
(*                                                                         *)
(* Only one job runs at a time (CatalogSearch!OneSearchAndSeen and           *)
(* SearchRefreshExclusive); nothing else reads the files, so that the        *)
(* refresh's _force_deep_catalog makes no difference and is left out.  Left  *)
(* out too: what rows say, the cap on their number, the message that the      *)
(* cache is stale (nothing follows from it), several PC makers at once.       *)
(***************************************************************************)
EXTENDS Naturals, Sequences

CONSTANTS
  Ids,         \* identities
  Unknown,     \* "unknown", the identity of a PC nothing is known about
  Home,        \* the one folder of a full install, or the old portable one
  Machines,    \* physical PCs the data folder is used on
  Base,        \* [Machines -> Ids]: maker and model, what a device scan finds
  Tag,         \* [Machines -> Ids]: the same, with a serial number found later
  Legacy,      \* what an older version may have left in Home, tagged or not
  FullInstall, \* BOOLEAN: install_mode, else portable
  MaxDay,      \* bound of the calendar
  MaxRestarts, \* bound of the program's restarts
  Main,        \* the job's thread
  Pool,        \* the workers of a search
  NoRows, NoFile, Torn, Untagged, NoCall

Threads == Pool \cup {Main}
Kinds   == {"wu", "oem"}
Days    == 0..MaxDay
Names   == Ids \cup {Unknown}
Places  == Names \cup {Home}
Rows    == [asOf : Days, on : Machines \cup {Untagged}]  \* asked when, on which PC
Files   == [machine : Names \cup {Untagged}, at : Days, rows : Rows \cup {NoRows}]
Calls   == [op : {"load", "save"}, kind : Kinds, id : Names, rows : Rows \cup {NoRows},
            place : Places, at : Days]

ASSUME CacheConstants ==
  /\ Base \in [Machines -> Ids] /\ Tag \in [Machines -> Ids]
  /\ Legacy \subseteq Files \cup {NoFile}
  /\ NoFile \in Legacy
  /\ FullInstall \in BOOLEAN
  /\ MaxDay \in Nat /\ MaxRestarts \in Nat
  /\ Unknown \notin Ids /\ Home \notin Names /\ Untagged \notin Names
  /\ Main \notin Pool
  /\ NoFile \notin Files /\ Torn \notin Files /\ NoFile # Torn
  /\ NoRows \notin Rows /\ NoCall \notin Calls

VARIABLES
  day, machine, \* today, and the PC the program runs on
  restarts,     \* how often the program was started again
  profile,      \* identity of the window's hardware profile
  bound,        \* identity in _bound_system_ctx
  saved,        \* [Threads -> what its with statements will put back]
  disk,         \* [Places \X Kinds -> file]
  marker,       \* portable folders with .migrated_v620
  wu, wuLive,   \* _WU_DRIVER_ROWS_CACHE, and whether its five minutes last
  oem,          \* [Names -> rows in _OEM_ROWS_CACHE whose ten minutes last]
  at,           \* [Threads -> where the thread is]
  call,         \* [Threads -> the load or save it is in]
  got,          \* [Threads -> what its last load returned]
  stage, raw, ext, \* the job: how far it is, and its two identities
  since         \* history: the day it began

memVars    == <<wu, wuLive, oem>>
diskVars   == <<disk, marker>>
scopeVars  == <<bound, saved>>
threadVars == <<at, call, got>>
jobVars    == <<raw, ext, since>>
worldVars  == <<day, machine, restarts, profile>>
vars == <<worldVars, scopeVars, diskVars, memVars, threadVars, stage, jobVars>>

Stages == {"idle", "wu", "warm", "pool", "persist", "persistWu", "persistOem",
           "clear", "deepWu", "deepOem", "built"}
Steps  == {"idle", "wu", "fetch", "keep", "oem", "enter", "access", "fill", "exit", "back"}

TypeOK ==
  /\ day \in Days /\ machine \in Machines /\ restarts \in 0..MaxRestarts
  /\ profile \in Names /\ bound \in Names
  /\ saved \in [Threads -> Seq(Names)]
  /\ disk \in [Places \X Kinds -> Files \cup {NoFile, Torn}]
  /\ marker \subseteq Names
  /\ wu \in Rows \cup {NoRows} /\ wuLive \in BOOLEAN
  /\ oem \in [Names -> Rows \cup {NoRows}]
  /\ at \in [Threads -> Steps]
  /\ call \in [Threads -> Calls \cup {NoCall}]
  /\ got \in [Threads -> Rows \cup {NoRows}]
  /\ stage \in Stages
  /\ raw \in Names /\ ext \in Names
  /\ since \in Days

NoOem == [n \in Names |-> NoRows]

Init ==
  /\ day = 0 /\ machine \in Machines /\ restarts = 0
  /\ profile = Unknown /\ bound = Unknown
  /\ saved = [t \in Threads |-> <<>>]
  /\ \E old \in [Kinds -> Legacy] :
       disk = [f \in Places \X Kinds |-> IF f[1] = Home THEN old[f[2]] ELSE NoFile]
  /\ marker = {}
  /\ wu = NoRows /\ wuLive = FALSE /\ oem = NoOem
  /\ at = [t \in Threads |-> "idle"]
  /\ call = [t \in Threads |-> NoCall]
  /\ got = [t \in Threads |-> NoRows]
  /\ stage = "idle" /\ raw = Unknown /\ ext = Unknown
  /\ since = 0

-----------------------------------------------------------------------------
(* Files. *)

Readable(f) == f \notin {NoFile, Torn}

\* The folder of the files, from the bound identity.
Folder(id) == IF FullInstall THEN Home ELSE id


Matches(f, id) == f.machine \in {Untagged, id}

\* Mutant: hands out the rows of any readable file.
RowsOfAnyone(f, id) == IF Readable(f) THEN f.rows ELSE NoRows

\* What a load hands out: nothing of a file tagged for someone else.
UsableRows(f, id) == IF Readable(f) /\ Matches(f, id) THEN f.rows ELSE NoRows

Stamped(f, id) == IF f.machine = Untagged THEN [f EXCEPT !.machine = id] ELSE f

\* Portable: the old file moves into the folder of id unless one is there.
Moves(files, id, kind) ==
  /\ Readable(files[<<Home, kind>>]) /\ Matches(files[<<Home, kind>>], id)
  /\ files[<<id, kind>>] = NoFile

Migrates(marks, id) == ~FullInstall /\ id # Unknown /\ id \notin marks

Migrated(files, marks, id) ==
  IF ~Migrates(marks, id) THEN files
  ELSE [f \in Places \X Kinds |->
          IF ~Moves(files, id, f[2]) THEN files[f]
          ELSE IF f[1] = id THEN Stamped(files[<<Home, f[2]>>], id)
          ELSE IF f[1] = Home THEN NoFile ELSE files[f]]

Marked(marks, id) == IF Migrates(marks, id) THEN marks \cup {id} ELSE marks

\* Full install: what has no machine gets this one, in place.
StampedHome(files, id) ==
  [f \in Places \X Kinds |->
     IF FullInstall /\ id # Unknown /\ f[1] = Home /\ Readable(files[f])
     THEN Stamped(files[f], id) ELSE files[f]]

-----------------------------------------------------------------------------
(* A scoped call: enter the scope, open the file, leave the scope. *)

Call(t, op, kind, id, rows) ==
  /\ call' = [call EXCEPT ![t] = [op |-> op, kind |-> kind, id |-> id, rows |-> rows,
                                  place |-> Folder(id), at |-> day]]
  /\ at' = [at EXCEPT ![t] = "enter"]

Go(t, step) ==
  /\ at' = [at EXCEPT ![t] = step]
  /\ call' = [call EXCEPT ![t] = NoCall]

Push(t, id) ==
  /\ saved' = [saved EXCEPT ![t] = <<bound>> \o @]
  /\ bound' = id

\* Mutant: binds all that was put aside instead of the last of it.
PopAll(t) ==
  /\ bound' = saved[t]
  /\ saved' = [saved EXCEPT ![t] = <<>>]

Pop(t) ==
  /\ bound' = Head(saved[t])
  /\ saved' = [saved EXCEPT ![t] = Tail(@)]

Enter(t) ==
  /\ at[t] = "enter"
  /\ Push(t, call[t].id)
  /\ at' = [at EXCEPT ![t] = "access"]
  /\ UNCHANGED <<worldVars, diskVars, memVars, call, got, stage, jobVars>>

Load(t) ==
  /\ at[t] = "access" /\ call[t].op = "load"
  /\ disk' = Migrated(disk, marker, bound)
  /\ marker' = Marked(marker, bound)
  /\ got' = [got EXCEPT ![t] =
               UsableRows(disk'[<<Folder(bound), call[t].kind>>], call[t].id)]
  /\ at' = [at EXCEPT ![t] = "exit"]
  /\ UNCHANGED <<worldVars, scopeVars, memVars, call, stage, jobVars>>

\* write_text empties the file first.  save_oem_offers asks for the folder of
\* its own identity before that, which migrates it.
OpenForWrite(t) ==
  LET early == call[t].kind = "oem"
      files == IF early THEN Migrated(disk, marker, call[t].id) ELSE disk
      marks == IF early THEN Marked(marker, call[t].id) ELSE marker
      place == Folder(bound)
  IN  /\ at[t] = "access" /\ call[t].op = "save"
      /\ disk' = [Migrated(files, marks, bound) EXCEPT ![<<place, call[t].kind>>] = Torn]
      /\ marker' = Marked(marks, bound)
      /\ call' = [call EXCEPT ![t].place = place, ![t].at = day]
      /\ at' = [at EXCEPT ![t] = "fill"]
      /\ UNCHANGED <<worldVars, scopeVars, memVars, got, stage, jobVars>>

Fill(t) ==
  /\ at[t] = "fill"
  /\ disk' = [disk EXCEPT ![<<call[t].place, call[t].kind>>] =
                [machine |-> call[t].id, at |-> call[t].at, rows |-> call[t].rows]]
  /\ at' = [at EXCEPT ![t] = "exit"]
  /\ UNCHANGED <<worldVars, scopeVars, marker, memVars, call, got, stage, jobVars>>

Exit(t) ==
  /\ at[t] = "exit"
  /\ Pop(t)
  /\ at' = [at EXCEPT ![t] = "back"]
  /\ UNCHANGED <<worldVars, diskVars, memVars, call, got, stage, jobVars>>

-----------------------------------------------------------------------------
(* Windows Update rows: session memory, else disk, else a live query. *)

Keep(rows) == wu' = rows /\ wuLive' = TRUE

\* Thread t has its Windows Update rows; the search's own thread warms the PC
\* maker's rows next, a worker is free.
WuDone(t) ==
  IF t = Main THEN stage' = "warm" /\ Go(t, "oem") ELSE stage' = stage /\ Go(t, "idle")

WuHit(t) ==
  /\ at[t] = "wu" /\ wu # NoRows /\ wuLive
  /\ WuDone(t)
  /\ UNCHANGED <<worldVars, scopeVars, diskVars, memVars, got, jobVars>>

WuMiss(t) ==
  /\ at[t] = "wu" /\ ~(wu # NoRows /\ wuLive)
  /\ Call(t, "load", "wu", ext, NoRows)
  /\ UNCHANGED <<worldVars, scopeVars, diskVars, memVars, got, stage, jobVars>>

Returned(t, op, kind) == at[t] = "back" /\ call[t].op = op /\ call[t].kind = kind

\* Rows of the file are used whatever their age.
WuLoaded(t) ==
  /\ Returned(t, "load", "wu") /\ got[t] # NoRows
  /\ Keep(got[t])
  /\ WuDone(t)
  /\ UNCHANGED <<worldVars, scopeVars, diskVars, oem, got, jobVars>>

WuNotOnDisk(t) ==
  /\ Returned(t, "load", "wu") /\ got[t] = NoRows
  /\ Go(t, "fetch")
  /\ UNCHANGED <<worldVars, scopeVars, diskVars, memVars, got, stage, jobVars>>

Answer == [asOf |-> day, on |-> machine]

WuAnswered(t) ==
  /\ at[t] = "fetch"
  /\ got' = [got EXCEPT ![t] = Answer]
  /\ Go(t, "keep")
  /\ UNCHANGED <<worldVars, scopeVars, diskVars, memVars, stage, jobVars>>

\* Mutant: saves the answer without keeping it for the session.
WuSavedOnly(t) ==
  /\ at[t] = "keep"
  /\ Call(t, "save", "wu", ext, got[t])
  /\ UNCHANGED <<worldVars, scopeVars, diskVars, wu, wuLive, oem, got, stage, jobVars>>

\* The answer becomes the session's rows and is saved at once.
WuKept(t) ==
  /\ at[t] = "keep"
  /\ Keep(got[t])
  /\ Call(t, "save", "wu", ext, got[t])
  /\ UNCHANGED <<worldVars, scopeVars, diskVars, oem, got, stage, jobVars>>

\* No rows, an error, or quick-check mode: a search saves nothing.
WuAnsweredNothing(t) ==
  /\ at[t] = "fetch" /\ stage \in {"wu", "pool"}
  /\ WuDone(t)
  /\ UNCHANGED <<worldVars, scopeVars, diskVars, memVars, got, jobVars>>

WuSaved(t) ==
  /\ Returned(t, "save", "wu") /\ stage \in {"wu", "pool"}
  /\ WuDone(t)
  /\ UNCHANGED <<worldVars, scopeVars, diskVars, memVars, got, jobVars>>

-----------------------------------------------------------------------------
(* The PC maker's rows. *)

\* _cached_oem_rows: an answer is kept for its identity.
OemLive(id) ==
  IF oem[id] # NoRows THEN UNCHANGED oem
  ELSE \E rows \in {NoRows, Answer} : oem' = [oem EXCEPT ![id] = rows]

OemAsk(t) ==
  /\ at[t] = "oem"
  /\ Call(t, "load", "oem", IF t = Main THEN raw ELSE ext, NoRows)
  /\ UNCHANGED <<worldVars, scopeVars, diskVars, memVars, got, stage, jobVars>>

\* The warm-up leaves it at what the disk has; so does a device that finds a row
\* there not older than its driver.
OemOnDisk(t) ==
  /\ Returned(t, "load", "oem") /\ got[t] # NoRows
  /\ Go(t, "idle")
  /\ UNCHANGED <<worldVars, scopeVars, diskVars, memVars, got, stage, jobVars>>

OemAskedLive(t) ==
  /\ Returned(t, "load", "oem")
  /\ t = Main => got[t] = NoRows
  /\ OemLive(call[t].id)
  /\ Go(t, "idle")
  /\ UNCHANGED <<worldVars, scopeVars, diskVars, wu, wuLive, got, stage, jobVars>>

-----------------------------------------------------------------------------
(* A search: of many devices (rows first, then the pool) or of one. *)

\* A job's variables are gone with it.
Ends ==
  /\ stage' = "idle" /\ Go(Main, "idle")
  /\ got' = [t \in Threads |-> NoRows]
  /\ raw' = Unknown /\ ext' = Unknown
  /\ since' = 0

\* The two identities of a search: the profile's, and what asking Windows once
\* more makes of it, when that works.
Begins ==
  /\ stage = "idle" /\ profile # Unknown
  /\ raw' = profile /\ ext' \in {profile, Tag[machine]}
  /\ LET files == Migrated(disk, marker, bound)
         marks == Marked(marker, bound)
     IN  /\ disk' = Migrated(files, marks, profile)
         /\ marker' = Marked(marks, profile)
  /\ since' = day

StartBatch ==
  /\ Begins
  /\ stage' = "wu" /\ Go(Main, "wu")
  /\ UNCHANGED <<worldVars, scopeVars, memVars, got>>

\* The pool takes over: in a search of many devices every worker asks for its
\* device's maker rows, or skips them.
StartPool ==
  /\ stage = "warm" /\ at[Main] = "idle"
  /\ stage' = "pool"
  /\ \E asks \in SUBSET Pool :
       at' = [t \in Threads |-> IF t \in asks THEN "oem" ELSE "idle"]
  /\ UNCHANGED <<worldVars, scopeVars, diskVars, memVars, call, got, jobVars>>

\* One device: a worker for the maker's rows and another for Windows Update's,
\* either left out where the device's own vendor decides.
StartSingle ==
  /\ Begins
  /\ stage' = "pool"
  /\ \E asks \in [Pool -> {"idle", "wu", "oem"}] :
       /\ \A w, o \in Pool : w # o /\ asks[w] = asks[o] => asks[w] = "idle"
       /\ at' = [t \in Threads |-> IF t = Main THEN "idle" ELSE asks[t]]
  /\ UNCHANGED <<worldVars, scopeVars, memVars, call, got>>

\* All workers are back.  An exception among them skips the saving.
EndPool ==
  /\ stage = "pool" /\ \A t \in Threads : at[t] = "idle"
  /\ \/ stage' = "persist" /\ UNCHANGED <<threadVars, jobVars>>
     \/ Ends
  /\ UNCHANGED <<worldVars, scopeVars, diskVars, memVars>>

\* The job's thread is in no call.
Between == at[Main] \in {"idle", "back"}

\* persist_session_catalog_cache: the session's rows are saved under the
\* profile's identity, with today's date, wherever they come from.
Persist ==
  /\ stage = "persist"
  /\ disk' = StampedHome(Migrated(disk, marker, raw), raw)
  /\ marker' = Marked(marker, raw)
  /\ Push(Main, raw)
  /\ stage' = "persistWu"
  /\ IF wu # NoRows THEN Call(Main, "save", "wu", raw, wu)
                    ELSE Go(Main, "idle")
  /\ UNCHANGED <<worldVars, memVars, got, jobVars>>

PersistOem ==
  /\ stage = "persistWu" /\ Between
  /\ stage' = "persistOem"
  /\ IF oem[raw] # NoRows THEN Call(Main, "save", "oem", raw, oem[raw])
                          ELSE Go(Main, "idle")
  /\ UNCHANGED <<worldVars, scopeVars, diskVars, memVars, got, jobVars>>

\* The job leaves its own scope and ends.
Leave ==
  /\ stage \in {"persistOem", "built"} /\ Between
  /\ Pop(Main)
  /\ Ends
  /\ UNCHANGED <<worldVars, diskVars, memVars>>

-----------------------------------------------------------------------------
(* The refresh of the driver database: everything is cleared, asked again and  *)
(* saved under one identity, in a scope of its own.                           *)

StartRefresh ==
  /\ stage = "idle"
  /\ raw' \in IF profile = Unknown THEN {Tag[machine], Unknown} ELSE {profile}
  /\ ext' = raw'
  /\ since' = day
  /\ Push(Main, raw')
  /\ stage' = "clear"
  /\ UNCHANGED <<worldVars, diskVars, memVars, threadVars>>

\* Without a name on disk: unlink, which Windows refuses while a thread writes.
Unlinked(files, place, kinds) ==
  [f \in Places \X Kinds |->
     IF /\ f[1] = place /\ f[2] \in kinds
        /\ ~\E t \in Threads : /\ at[t] = "fill"
                               /\ call[t].place = place /\ call[t].kind = f[2]
     THEN NoFile ELSE files[f]]

\* Mutant: clears the files and leaves the rows in memory.
ClearFiles(kinds) ==
  /\ disk' = Unlinked(Migrated(disk, marker, bound), Folder(bound), kinds)
  /\ marker' = Marked(marker, bound)
  /\ UNCHANGED <<wu, wuLive, oem>>

Clear(kinds) ==
  /\ disk' = Unlinked(Migrated(disk, marker, bound), Folder(bound), kinds)
  /\ marker' = Marked(marker, bound)
  /\ IF "wu" \in kinds THEN wu' = NoRows /\ wuLive' = FALSE ELSE UNCHANGED <<wu, wuLive>>
  /\ oem' = IF "oem" \in kinds THEN NoOem ELSE oem

RefreshClear ==
  /\ stage = "clear"
  /\ Clear(Kinds)
  /\ stage' = "deepWu" /\ Go(Main, "fetch")
  /\ UNCHANGED <<worldVars, scopeVars, got, jobVars>>

\* The refresh saves an empty answer too.
DeepWuNothing ==
  /\ stage = "deepWu" /\ at[Main] = "fetch"
  /\ Call(Main, "save", "wu", raw, NoRows)
  /\ UNCHANGED <<worldVars, scopeVars, diskVars, memVars, got, stage, jobVars>>

DeepOem ==
  /\ stage = "deepWu" /\ at[Main] = "back"
  /\ stage' = "deepOem"
  /\ OemLive(raw)
  /\ Call(Main, "save", "oem", raw, oem'[raw])
  /\ UNCHANGED <<worldVars, scopeVars, diskVars, wu, wuLive, got, jobVars>>

Built ==
  /\ stage = "deepOem" /\ at[Main] = "back"
  /\ stage' = "built"
  /\ UNCHANGED <<worldVars, scopeVars, diskVars, memVars, threadVars, jobVars>>

\* An exception between the calls: the scope is left, what was cleared is gone.
RefreshFails ==
  /\ stage = "deepWu" /\ at[Main] \in {"fetch", "back"}
  /\ Pop(Main)
  /\ Ends
  /\ UNCHANGED <<worldVars, diskVars, memVars>>

-----------------------------------------------------------------------------
(* The window, time, and the end of the process. *)

\* A device scan or the later query for the serial number ends: the window binds
\* the profile's identity, whatever a job is doing.
ProfileArrives ==
  /\ \/ profile = Unknown /\ profile' = Base[machine]
     \/ profile # Unknown /\ profile' = Tag[machine]
  /\ profile' # profile
  /\ bound' = IF profile' = Unknown THEN bound ELSE profile'
  /\ UNCHANGED <<day, machine, restarts, saved, diskVars, memVars, threadVars, stage, jobVars>>

\* Tools > Clear Windows Update cache, Clear OEM catalog cache
ClearMenu ==
  /\ \E kind \in Kinds : Clear({kind})
  /\ UNCHANGED <<worldVars, scopeVars, threadVars, stage, jobVars>>

\* The time to live of the rows in memory runs out.
Expire ==
  /\ wuLive' = FALSE /\ oem' = NoOem
  /\ UNCHANGED <<worldVars, scopeVars, diskVars, wu, threadVars, stage, jobVars>>

NextDay ==
  /\ day < MaxDay
  /\ day' = day + 1
  /\ wuLive' = FALSE /\ oem' = NoOem
  /\ UNCHANGED <<machine, restarts, profile, scopeVars, diskVars, wu, threadVars, stage,
                 jobVars>>

\* The process ends at any point; the next one may run on another PC that has
\* the folder (a replaced board, a shared custom_data_dir).
Restart ==
  /\ restarts < MaxRestarts
  /\ restarts' = restarts + 1
  /\ machine' \in Machines
  /\ profile' = Unknown /\ bound' = Unknown
  /\ saved' = [t \in Threads |-> <<>>]
  /\ wu' = NoRows /\ wuLive' = FALSE /\ oem' = NoOem
  /\ at' = [t \in Threads |-> "idle"]
  /\ call' = [t \in Threads |-> NoCall]
  /\ got' = [t \in Threads |-> NoRows]
  /\ stage' = "idle" /\ raw' = Unknown /\ ext' = Unknown
  /\ since' = 0
  /\ UNCHANGED <<day, diskVars>>

Scoped(t) == Enter(t) \/ Load(t) \/ OpenForWrite(t) \/ Fill(t) \/ Exit(t)

WuStep(t) ==
  \/ WuHit(t) \/ WuMiss(t) \/ WuLoaded(t) \/ WuNotOnDisk(t)
  \/ WuAnswered(t) \/ WuKept(t) \/ WuAnsweredNothing(t) \/ WuSaved(t)

OemStep(t) == OemAsk(t) \/ OemOnDisk(t) \/ OemAskedLive(t)

JobStep ==
  \/ StartBatch \/ StartPool \/ StartSingle \/ EndPool \/ Persist \/ PersistOem \/ Leave
  \/ StartRefresh \/ RefreshClear \/ DeepWuNothing \/ DeepOem \/ Built \/ RefreshFails

Next ==
  \/ \E t \in Threads : Scoped(t) \/ WuStep(t) \/ OemStep(t)
  \/ JobStep
  \/ ProfileArrives \/ ClearMenu \/ Expire \/ NextDay \/ Restart

Spec == Init /\ [][Next]_vars

-----------------------------------------------------------------------------
(* Properties. *)

\* Rows that are not known to be of another PC: nobody can tell whose the rows of
\* an older version's untagged file are, and _blob_usable_for_load gives them to
\* whoever asks first.
Ours(rows) == rows = NoRows \/ rows.on \in {machine, Untagged}

\* Rows asked for on another PC are never handed out, kept or shown: neither from a
\* file in the wrong folder, nor from a half-written one, nor after a move of the
\* data folder (_blob_usable_for_load, and the tag every save writes), as long as
\* no two PCs have an identity in common.
RowsOfThisMachine ==
  /\ Ours(wu)
  /\ \A id \in Names : Ours(oem[id])
  /\ \A t \in Threads : Ours(got[t])

\* After a refresh nothing of before it is left in its folder or in memory, but
\* what the user's clearing or an empty answer left out (refresh_driver_database:
\* "clear caches and re-fetch").
RefreshLeavesNothingOld ==
  stage = "built" =>
    /\ wu # NoRows => wu.asOf >= since
    /\ \A kind \in Kinds :
         LET f == disk[<<Folder(raw), kind>>]
         IN  Readable(f) /\ f.rows # NoRows => f.rows.asOf >= since

\* A save never puts older rows of a PC over newer ones of the same PC, whichever
\* of search, persist_session_catalog_cache and refresh makes it, with the clearing
\* menus, a change of identity, another PC and a crash in between.  This is for the
\* one folder of a full install; a portable PC with two identities has two.
RowsNeverGoBack ==
  [][\A f \in Places \X Kinds, t \in Threads :
       at[t] = "access" /\ call[t].op = "save" /\ disk'[f] = Torn /\ Readable(disk[f])
         /\ disk[f].rows # NoRows /\ call[t].rows # NoRows /\ disk[f].rows.on = call[t].rows.on
       => call[t].rows.asOf >= disk[f].rows.asOf]_vars
=============================================================================
