---------------------- MODULE CatalogDiskCacheProofs ----------------------
(***************************************************************************)
(* CatalogDiskCache for every set of identities, PCs and workers, in a full  *)
(* install and portable: types, and that rows stay with their PC although    *)
(* the scope that names the folder is shared by all threads.                 *)
(***************************************************************************)
EXTENDS CatalogDiskCache, SequenceTheorems, TLAPS

\* The parts of TypeOK, by what an action changes together.
WorldT  == day \in Days /\ machine \in Machines /\ restarts \in 0..MaxRestarts
             /\ profile \in Names
ScopeT  == bound \in Names /\ saved \in [Threads -> Seq(Names)]
DiskSet == [Places \X Kinds -> Files \cup {NoFile, Torn}]
DiskT   == disk \in DiskSet /\ marker \subseteq Names
MemT    == wu \in Rows \cup {NoRows} /\ wuLive \in BOOLEAN /\ oem \in [Names -> Rows \cup {NoRows}]
AtT     == at \in [Threads -> Steps] /\ call \in [Threads -> Calls \cup {NoCall}]
GotT    == got \in [Threads -> Rows \cup {NoRows}]
JobT    == raw \in Names /\ ext \in Names /\ since \in Days

InCall   == {"enter", "access", "fill", "exit", "back"}
InScope  == {"access", "fill", "exit"}
Search   == {"wu", "warm", "pool"}
JobScope == {"persistWu", "persistOem", "clear", "deepWu", "deepOem", "built"}

\* How many with statements thread t is in: that of its call, and the job's own.
Depth(t) == (IF at[t] \in InScope THEN 1 ELSE 0)
              + (IF t = Main /\ stage \in JobScope THEN 1 ELSE 0)

\* Where threads can be: workers are busy in the pool only, the job's own thread is
\* free while they are, only a search reads, and every scope entered will be left.
ControlInv ==
  /\ \A t \in Threads : at[t] \in InCall <=> call[t] # NoCall
  /\ \A t \in Pool : stage # "pool" => at[t] = "idle"
  /\ stage \in {"idle", "pool", "persist", "clear"} => at[Main] = "idle"
  /\ \A t \in Threads : at[t] \in {"wu", "oem"} => stage \in Search
  /\ \A t \in Threads : call[t] # NoCall /\ call[t].op = "load" => stage \in Search

ScopeInv == \A t \in Threads : Len(saved[t]) = Depth(t)

LEMMA Types ==
  TypeOK <=> WorldT /\ ScopeT /\ DiskT /\ MemT /\ AtT /\ GotT /\ JobT /\ stage \in Stages
BY DEF TypeOK, WorldT, ScopeT, DiskSet, DiskT, MemT, AtT, GotT, JobT

LEMMA TypesNext ==
  WorldT' /\ ScopeT' /\ DiskT' /\ MemT' /\ AtT' /\ GotT' /\ JobT' /\ stage' \in Stages => TypeOK'
BY DEF TypeOK, WorldT, ScopeT, DiskSet, DiskT, MemT, AtT, GotT, JobT

-----------------------------------------------------------------------------
(* Operators. *)

LEMMA FolderType == ASSUME NEW id \in Names PROVE Folder(id) \in Places
BY DEF Folder, Places

LEMMA StampedType ==
  ASSUME NEW f \in Files, NEW id \in Names PROVE Stamped(f, id) \in Files
BY DEF Stamped, Files

LEMMA ReadableType ==
  ASSUME NEW f \in Files \cup {NoFile, Torn}, Readable(f) PROVE f \in Files
BY DEF Readable

LEMMA MigratedType ==
  ASSUME NEW files \in DiskSet, NEW marks \in SUBSET Names, NEW id \in Names
  PROVE  Migrated(files, marks, id) \in DiskSet /\ Marked(marks, id) \subseteq Names
<1>1. Marked(marks, id) \subseteq Names
  BY DEF Marked
<1>2. CASE ~Migrates(marks, id)
  BY <1>1, <1>2 DEF Migrated
<1>3. CASE Migrates(marks, id)
  <2> DEFINE file(f) == IF ~Moves(files, id, f[2]) THEN files[f]
                        ELSE IF f[1] = id THEN Stamped(files[<<Home, f[2]>>], id)
                        ELSE IF f[1] = Home THEN NoFile ELSE files[f]
  <2>1. ASSUME NEW f \in Places \X Kinds PROVE file(f) \in Files \cup {NoFile, Torn}
    <3>1. <<Home, f[2]>> \in Places \X Kinds
      BY DEF Places
    <3>2. files[f] \in Files \cup {NoFile, Torn} /\ files[<<Home, f[2]>>] \in Files \cup {NoFile, Torn}
      BY <3>1 DEF DiskSet
    <3>3. Moves(files, id, f[2]) => Stamped(files[<<Home, f[2]>>], id) \in Files
      BY <3>2, StampedType, ReadableType DEF Moves
    <3> QED
      BY <3>2, <3>3
  <2>2. Migrated(files, marks, id) = [f \in Places \X Kinds |-> file(f)]
    BY <1>3 DEF Migrated
  <2> HIDE DEF file
  <2> QED
    BY <1>1, <2>1, <2>2 DEF DiskSet
<1> QED
  BY <1>2, <1>3

LEMMA StampedHomeType ==
  ASSUME NEW files \in DiskSet, NEW id \in Names PROVE StampedHome(files, id) \in DiskSet
BY StampedType, ReadableType DEF StampedHome, DiskSet

LEMMA UsableType ==
  ASSUME NEW f \in Files \cup {NoFile, Torn}, NEW id \in Names
  PROVE  UsableRows(f, id) \in Rows \cup {NoRows}
BY ReadableType DEF UsableRows, Files

LEMMA CallType ==
  ASSUME AtT, WorldT, NEW t \in Threads, NEW op \in {"load", "save"}, NEW kind \in Kinds,
         NEW id \in Names, NEW rows \in Rows \cup {NoRows}, Call(t, op, kind, id, rows)
  PROVE  AtT'
<1> DEFINE c == [op |-> op, kind |-> kind, id |-> id, rows |-> rows,
                 place |-> Folder(id), at |-> day]
<1>1. c \in Calls
  BY FolderType DEF Calls, WorldT
<1>2. call' = [call EXCEPT ![t] = c] /\ at' = [at EXCEPT ![t] = "enter"]
  BY DEF Call
<1> HIDE DEF c
<1> QED
  BY <1>1, <1>2 DEF AtT, Steps

LEMMA GoType ==
  ASSUME AtT, NEW t \in Threads, NEW step \in Steps, Go(t, step) PROVE AtT'
BY DEF AtT, Go

LEMMA PushType ==
  ASSUME ScopeT, NEW t \in Threads, NEW id \in Names, Push(t, id)
  PROVE  /\ ScopeT'
         /\ Len(saved'[t]) = Len(saved[t]) + 1
         /\ \A s \in Threads \ {t} : saved'[s] = saved[s]
<1>1. <<bound>> \o saved[t] \in Seq(Names) /\ Len(<<bound>> \o saved[t]) = Len(saved[t]) + 1
  BY DEF ScopeT
<1> QED
  BY <1>1 DEF ScopeT, Push

LEMMA PopType ==
  ASSUME ScopeT, NEW t \in Threads, Len(saved[t]) > 0, Pop(t)
  PROVE  /\ ScopeT'
         /\ Len(saved'[t]) = Len(saved[t]) - 1
         /\ \A s \in Threads \ {t} : saved'[s] = saved[s]
<1>1. saved[t] \in Seq(Names) /\ saved[t] # <<>>
  BY DEF ScopeT
<1>2. Head(saved[t]) \in Names /\ Tail(saved[t]) \in Seq(Names)
        /\ Len(Tail(saved[t])) = Len(saved[t]) - 1
  BY <1>1, HeadTailProperties
<1> QED
  BY <1>2 DEF ScopeT, Pop

-----------------------------------------------------------------------------
(* Types and control: one induction, since a scope that is left must have been  *)
(* entered for bound to stay an identity.                                      *)

Inv == TypeOK /\ ControlInv /\ ScopeInv

LEMMA InitInv == Init => Inv
<1> SUFFICES ASSUME Init PROVE Inv
  OBVIOUS
<1> USE CacheConstants
<1>1. disk \in DiskSet
  BY DEF Init, DiskSet, Files, Kinds
<1>2. WorldT /\ JobT /\ stage \in Stages /\ marker \subseteq Names
  BY DEF Init, WorldT, JobT, Stages, Days, Names
<1>m. MemT
  BY DEF Init, MemT, NoOem
<1>3. ScopeT /\ AtT /\ GotT
  <2>1. <<>> \in Seq(Names)
    OBVIOUS
  <2> QED
    BY <2>1 DEF Init, ScopeT, AtT, GotT, Steps, Names
<1>4. TypeOK
  BY <1>1, <1>2, <1>3, <1>m, Types DEF DiskT
<1>5. ControlInv /\ ScopeInv
  BY DEF Init, ControlInv, ScopeInv, Depth, Threads, InCall, InScope, JobScope, Search
<1> QED
  BY <1>4, <1>5 DEF Inv

USE DEF worldVars, scopeVars, diskVars, memVars, threadVars, jobVars

\* What is left alone keeps its type.
LEMMA Kept ==
  ASSUME Inv
  PROVE  /\ WorldT /\ ScopeT /\ DiskT /\ MemT /\ AtT /\ GotT /\ JobT /\ stage \in Stages
         /\ ControlInv /\ ScopeInv
         /\ UNCHANGED worldVars => WorldT'
         /\ UNCHANGED scopeVars => ScopeT'
         /\ UNCHANGED diskVars => DiskT'
         /\ UNCHANGED memVars => MemT'
         /\ UNCHANGED got => GotT'
         /\ UNCHANGED jobVars => JobT'
BY Types DEF Inv, WorldT, ScopeT, DiskT, MemT, GotT, JobT, DiskSet

LEMMA ControlCall ==
  ASSUME Inv, NEW t \in Threads, NEW op \in {"load", "save"}, NEW kind \in Kinds,
         NEW id \in Names, NEW rows \in Rows \cup {NoRows}, Call(t, op, kind, id, rows),
         t \in Pool => stage = "pool" /\ stage' = "pool",
         t = Main => stage # "pool" /\ stage' \notin {"idle", "pool", "persist", "clear"},
         op = "load" => stage' \in Search
  PROVE  AtT' /\ ControlInv'
<1> DEFINE c == [op |-> op, kind |-> kind, id |-> id, rows |-> rows,
                 place |-> Folder(id), at |-> day]
<1>1. AtT /\ WorldT /\ ControlInv
  BY Kept
<1>2. c \in Calls /\ c # NoCall /\ c.op = op
  BY <1>1, FolderType, CacheConstants DEF Calls, WorldT
<1>3. call' = [call EXCEPT ![t] = c] /\ at' = [at EXCEPT ![t] = "enter"]
  BY DEF Call
<1> HIDE DEF c
<1>4. ControlInv'
  BY <1>1, <1>2, <1>3, CacheConstants DEF ControlInv, AtT, InCall, Search, Threads
<1> QED
  BY <1>1, <1>4, CallType

LEMMA ControlGo ==
  ASSUME Inv, NEW t \in Threads, NEW step \in Steps \ InCall, Go(t, step),
         t \in Pool => stage = "pool" /\ stage' = "pool",
         t = Main => stage # "pool" /\ (stage' \in {"idle", "pool", "persist", "clear"} => step = "idle"),
         step \in {"wu", "oem"} => stage' \in Search
  PROVE  AtT' /\ ControlInv'
<1>1. AtT /\ ControlInv
  BY Kept
<1>2. AtT'
  BY <1>1, GoType
<1>3. ControlInv'
  BY <1>1, CacheConstants DEF Go, ControlInv, AtT, InCall, Search, Threads
<1> QED
  BY <1>2, <1>3

LEMMA ScopeKept ==
  ASSUME Inv, NEW t \in Threads, saved' = saved,
         \A s \in Threads \ {t} : at'[s] = at[s],
         at'[t] \in InScope <=> at[t] \in InScope,
         stage' \in JobScope <=> stage \in JobScope
  PROVE  ScopeInv'
BY DEF Inv, ScopeInv, Depth

LEMMA Between_ == ASSUME Inv, Between PROVE at[Main] \notin InScope
BY DEF Between, InScope

LEMMA ScopedInv ==
  ASSUME Inv, NEW t \in Threads, Scoped(t) PROVE Inv'
<1>0. WorldT /\ ScopeT /\ DiskT /\ MemT /\ AtT /\ GotT /\ JobT /\ stage \in Stages
        /\ ControlInv /\ ScopeInv
  BY Kept
<1>c. at[t] \in InCall => call[t] \in Calls
  BY <1>0 DEF ControlInv, AtT
<1>1. CASE Enter(t)
  <2>1. call[t] \in Calls
    BY <1>c, <1>1 DEF Enter, InCall
  <2>2. ScopeT' /\ Len(saved'[t]) = Len(saved[t]) + 1 /\ \A s \in Threads \ {t} : saved'[s] = saved[s]
    BY <1>0, <1>1, <2>1, PushType DEF Enter, Calls
  <2>3. AtT'
    BY <1>0, <1>1 DEF Enter, AtT, Steps
  <2>4. TypeOK'
    BY <1>0, <1>1, <2>2, <2>3, Kept, TypesNext DEF Enter
  <2>5. ControlInv'
    BY <1>0, <1>1 DEF Enter, ControlInv, InCall, AtT, Search, Threads
  <2>6. ScopeInv'
    BY <1>0, <1>1, <2>2 DEF Enter, ScopeInv, Depth, InScope, AtT
  <2> QED
    BY <2>4, <2>5, <2>6 DEF Inv
<1>2. CASE Load(t)
  <2>1. call[t] \in Calls
    BY <1>c, <1>2 DEF Load, InCall
  <2>2. disk' \in DiskSet /\ marker' \subseteq Names
    BY <1>0, <1>2, MigratedType DEF Load, DiskT, ScopeT
  <2>3. <<Folder(bound), call[t].kind>> \in Places \X Kinds
    BY <1>0, <2>1, FolderType DEF ScopeT, Calls
  <2>4. UsableRows(disk'[<<Folder(bound), call[t].kind>>], call[t].id) \in Rows \cup {NoRows}
    BY <2>1, <2>2, <2>3, UsableType DEF DiskSet, Calls
  <2>5. GotT'
    BY <1>0, <1>2, <2>4 DEF Load, GotT
  <2>6. AtT' /\ ControlInv'
    BY <1>0, <1>2 DEF Load, AtT, Steps, ControlInv, InCall, Search, Threads
  <2>7. TypeOK'
    BY <1>0, <1>2, <2>2, <2>5, <2>6, Kept, TypesNext DEF Load, DiskT
  <2>8. ScopeInv'
    BY <1>0, <1>2, ScopeKept DEF Load, InScope, AtT
  <2> QED
    BY <2>6, <2>7, <2>8 DEF Inv
<1>3. CASE OpenForWrite(t)
  <2>1. call[t] \in Calls /\ call[t] # NoCall
    BY <1>c, <1>3, CacheConstants DEF OpenForWrite, InCall
  <2> DEFINE early == call[t].kind = "oem"
             files == IF early THEN Migrated(disk, marker, call[t].id) ELSE disk
             marks == IF early THEN Marked(marker, call[t].id) ELSE marker
             place == Folder(bound)
             c == [call[t] EXCEPT !.place = place, !.at = day]
  <2>2. files \in DiskSet /\ marks \in SUBSET Names /\ place \in Places
    BY <1>0, <2>1, MigratedType, FolderType DEF DiskT, ScopeT, Calls
  <2>3. Migrated(files, marks, bound) \in DiskSet /\ Marked(marks, bound) \subseteq Names
    BY <1>0, <2>2, MigratedType DEF ScopeT
  <2>4. disk' = [Migrated(files, marks, bound) EXCEPT ![<<place, call[t].kind>>] = Torn]
          /\ marker' = Marked(marks, bound) /\ call' = [call EXCEPT ![t] = c]
          /\ at' = [at EXCEPT ![t] = "fill"] /\ stage' = stage /\ saved' = saved
    BY <1>0, <1>3, <2>1 DEF OpenForWrite, AtT
  <2>5. c \in Calls /\ c.op = call[t].op
    BY <1>0, <2>1, <2>2 DEF Calls, WorldT
  <2>6. at[t] = "access"
    BY <1>3 DEF OpenForWrite
  <2> HIDE DEF early, files, marks, place, c
  <2>7. DiskT'
    BY <2>3, <2>4 DEF DiskT, DiskSet
  <2>8. AtT' /\ ControlInv'
    BY <1>0, <2>1, <2>4, <2>5, <2>6, CacheConstants DEF AtT, Steps, ControlInv, InCall, Search, Threads
  <2>9. TypeOK'
    BY <1>0, <1>3, <2>7, <2>8, Kept, TypesNext DEF OpenForWrite
  <2>10. ScopeInv'
    BY <1>0, <2>4, <2>6, ScopeKept DEF InScope, AtT
  <2> QED
    BY <2>8, <2>9, <2>10 DEF Inv
<1>4. CASE Fill(t)
  <2>1. call[t] \in Calls
    BY <1>c, <1>4 DEF Fill, InCall
  <2>2. [machine |-> call[t].id, at |-> call[t].at, rows |-> call[t].rows] \in Files
    BY <2>1 DEF Calls, Files
  <2>3. DiskT'
    BY <1>0, <1>4, <2>2 DEF Fill, DiskT, DiskSet
  <2>4. AtT' /\ ControlInv'
    BY <1>0, <1>4 DEF Fill, AtT, Steps, ControlInv, InCall, Search, Threads
  <2>5. TypeOK'
    BY <1>0, <1>4, <2>3, <2>4, Kept, TypesNext DEF Fill
  <2>6. ScopeInv'
    BY <1>0, <1>4, ScopeKept DEF Fill, InScope, AtT
  <2> QED
    BY <2>4, <2>5, <2>6 DEF Inv
<1>5. CASE Exit(t)
  <2>1. Len(saved[t]) \in Nat /\ Len(saved[t]) > 0
    BY <1>0, <1>5 DEF Exit, ScopeInv, Depth, InScope, ScopeT
  <2>2. ScopeT' /\ Len(saved'[t]) = Len(saved[t]) - 1 /\ \A s \in Threads \ {t} : saved'[s] = saved[s]
    BY <1>0, <1>5, <2>1, PopType DEF Exit
  <2>3. AtT' /\ ControlInv'
    BY <1>0, <1>5 DEF Exit, AtT, Steps, ControlInv, InCall, Search, Threads
  <2>4. TypeOK'
    BY <1>0, <1>5, <2>2, <2>3, Kept, TypesNext DEF Exit
  <2>5. ScopeInv'
    BY <1>0, <1>5, <2>2 DEF Exit, ScopeInv, Depth, InScope, AtT
  <2> QED
    BY <2>3, <2>4, <2>5 DEF Inv
<1> QED
  BY <1>1, <1>2, <1>3, <1>4, <1>5 DEF Scoped

\* A thread outside its scope that does not change stage's side keeps ScopeInv;
\* calling and going on leave the other threads alone.
LEMMA CallScope ==
  ASSUME Inv, NEW t \in Threads, NEW op, NEW kind, NEW id, NEW rows,
         Call(t, op, kind, id, rows), at[t] \notin InScope, saved' = saved,
         stage' \in JobScope <=> stage \in JobScope
  PROVE  ScopeInv'
<1>1. at'[t] = "enter" /\ \A s \in Threads \ {t} : at'[s] = at[s]
  BY Kept DEF Call, AtT
<1> QED
  BY <1>1, ScopeKept DEF InScope

LEMMA GoScope ==
  ASSUME Inv, NEW t \in Threads, NEW step \in Steps \ InCall, Go(t, step), at[t] \notin InScope,
         saved' = saved, stage' \in JobScope <=> stage \in JobScope
  PROVE  ScopeInv'
<1>1. at'[t] = step /\ step \notin InScope /\ \A s \in Threads \ {t} : at'[s] = at[s]
  BY Kept DEF Go, AtT, InScope, InCall
<1> QED
  BY <1>1, ScopeKept

\* A busy worker is in the pool, the job's own thread is not.
LEMMA Where ==
  ASSUME Inv, NEW t \in Threads, at[t] # "idle"
  PROVE  /\ t \in Pool => stage = "pool"
         /\ t = Main => stage \notin {"idle", "pool", "persist", "clear"}
BY DEF Inv, ControlInv

LEMMA WuDoneInv ==
  ASSUME Inv, NEW t \in Threads, WuDone(t), at[t] # "idle", at[t] \notin InScope,
         stage \in Search, saved' = saved
  PROVE  AtT' /\ stage' \in Stages /\ ControlInv' /\ ScopeInv'
<1>1. CASE t = Main
  <2>1. stage' = "warm" /\ Go(t, "oem") /\ stage # "pool"
    BY <1>1, Where DEF WuDone
  <2>2. "oem" \in Steps \ InCall /\ Main \notin Pool
    BY CacheConstants DEF Steps, InCall
  <2>3. AtT' /\ ControlInv'
    BY <1>1, <2>1, <2>2, ControlGo DEF Search
  <2>4. ScopeInv'
    BY <1>1, <2>1, <2>2, GoScope DEF Search, JobScope
  <2> QED
    BY <2>1, <2>3, <2>4 DEF Stages
<1>2. CASE t # Main
  <2>1. stage' = stage /\ Go(t, "idle") /\ stage = "pool" /\ stage \in Stages
    BY <1>2, Where, Kept DEF WuDone, Threads
  <2>2. "idle" \in Steps \ InCall
    BY DEF Steps, InCall
  <2>3. AtT' /\ ControlInv'
    BY <1>2, <2>1, <2>2, ControlGo
  <2>4. ScopeInv'
    BY <1>2, <2>1, <2>2, GoScope
  <2> QED
    BY <2>1, <2>3, <2>4
<1> QED
  BY <1>1, <1>2

LEMMA OneIsMain == ASSUME NEW t \in Threads PROVE t \in Pool <=> t # Main
BY CacheConstants DEF Threads

LEMMA WuInv ==
  ASSUME Inv, NEW t \in Threads, WuStep(t) PROVE Inv'
<1>0. WorldT /\ ScopeT /\ DiskT /\ MemT /\ AtT /\ GotT /\ JobT /\ stage \in Stages
        /\ ControlInv /\ ScopeInv
  BY Kept
<1>c. at[t] = "back" => call[t] # NoCall
  BY <1>0 DEF ControlInv, InCall
<1>k. "fetch" \in Steps \ InCall /\ "keep" \in Steps \ InCall /\ "idle" \in Steps \ InCall
  BY DEF Steps, InCall
<1>1. CASE WuHit(t)
  <2>1. AtT' /\ stage' \in Stages /\ ControlInv' /\ ScopeInv'
    BY <1>0, <1>1, WuDoneInv DEF WuHit, ControlInv, InScope
  <2> QED
    BY <1>0, <1>1, <2>1, Kept, TypesNext DEF WuHit, Inv
<1>2. CASE WuMiss(t)
  <2>1. AtT' /\ ControlInv'
    BY <1>0, <1>2, Where, OneIsMain, ControlCall DEF WuMiss, ControlInv, JobT, Kinds, Search
  <2>2. ScopeInv'
    BY <1>2, CallScope DEF WuMiss, InScope
  <2> QED
    BY <1>0, <1>2, <2>1, <2>2, Kept, TypesNext DEF WuMiss, Inv
<1>3. CASE WuLoaded(t)
  <2>1. AtT' /\ stage' \in Stages /\ ControlInv' /\ ScopeInv'
    BY <1>0, <1>c, <1>3, WuDoneInv DEF WuLoaded, Returned, ControlInv, InScope
  <2>2. MemT'
    BY <1>0, <1>3 DEF WuLoaded, Keep, MemT, GotT
  <2> QED
    BY <1>0, <1>3, <2>1, <2>2, Kept, TypesNext DEF WuLoaded, Inv
<1>4. CASE WuNotOnDisk(t)
  <2>1. AtT' /\ ControlInv'
    BY <1>0, <1>4, <1>k, Where, OneIsMain, ControlGo DEF WuNotOnDisk, Returned
  <2>2. ScopeInv'
    BY <1>4, <1>k, GoScope DEF WuNotOnDisk, Returned, InScope
  <2> QED
    BY <1>0, <1>4, <2>1, <2>2, Kept, TypesNext DEF WuNotOnDisk, Inv
<1>5. CASE WuAnswered(t)
  <2>1. AtT' /\ ControlInv'
    BY <1>0, <1>5, <1>k, Where, OneIsMain, ControlGo DEF WuAnswered
  <2>2. ScopeInv'
    BY <1>5, <1>k, GoScope DEF WuAnswered, InScope
  <2>3. GotT'
    BY <1>0, <1>5 DEF WuAnswered, GotT, Answer, Rows, WorldT
  <2> QED
    BY <1>0, <1>5, <2>1, <2>2, <2>3, Kept, TypesNext DEF WuAnswered, Inv
<1>6. CASE WuKept(t)
  <2>1. AtT' /\ ControlInv'
    BY <1>0, <1>6, Where, OneIsMain, ControlCall DEF WuKept, JobT, GotT, Kinds
  <2>2. ScopeInv'
    BY <1>6, CallScope DEF WuKept, InScope
  <2>3. MemT'
    BY <1>0, <1>6 DEF WuKept, Keep, MemT, GotT
  <2> QED
    BY <1>0, <1>6, <2>1, <2>2, <2>3, Kept, TypesNext DEF WuKept, Inv
<1>7. CASE WuAnsweredNothing(t)
  <2>1. AtT' /\ stage' \in Stages /\ ControlInv' /\ ScopeInv'
    BY <1>7, WuDoneInv DEF WuAnsweredNothing, InScope, Search
  <2> QED
    BY <1>0, <1>7, <2>1, Kept, TypesNext DEF WuAnsweredNothing, Inv
<1>8. CASE WuSaved(t)
  <2>1. AtT' /\ stage' \in Stages /\ ControlInv' /\ ScopeInv'
    BY <1>8, WuDoneInv DEF WuSaved, Returned, InScope, Search
  <2> QED
    BY <1>0, <1>8, <2>1, Kept, TypesNext DEF WuSaved, Inv
<1> QED
  BY <1>1, <1>2, <1>3, <1>4, <1>5, <1>6, <1>7, <1>8 DEF WuStep

LEMMA OemLiveType ==
  ASSUME Inv, NEW id \in Names, OemLive(id), wu' = wu, wuLive' = wuLive PROVE MemT'
BY Kept DEF OemLive, MemT, Answer, Rows, WorldT

LEMMA OemInv ==
  ASSUME Inv, NEW t \in Threads, OemStep(t) PROVE Inv'
<1>0. WorldT /\ ScopeT /\ DiskT /\ MemT /\ AtT /\ GotT /\ JobT /\ stage \in Stages
        /\ ControlInv /\ ScopeInv
  BY Kept
<1>c. at[t] = "back" => call[t] \in Calls
  BY <1>0 DEF ControlInv, AtT, InCall
<1>k. "idle" \in Steps \ InCall
  BY DEF Steps, InCall
<1>1. CASE OemAsk(t)
  <2>1. AtT' /\ ControlInv'
    BY <1>0, <1>1, Where, OneIsMain, ControlCall DEF OemAsk, ControlInv, JobT, Kinds, Search
  <2>2. ScopeInv'
    BY <1>1, CallScope DEF OemAsk, InScope
  <2> QED
    BY <1>0, <1>1, <2>1, <2>2, Kept, TypesNext DEF OemAsk, Inv
<1>2. CASE OemOnDisk(t)
  <2>1. AtT' /\ ControlInv'
    BY <1>0, <1>2, <1>k, Where, OneIsMain, ControlGo DEF OemOnDisk, Returned
  <2>2. ScopeInv'
    BY <1>2, <1>k, GoScope DEF OemOnDisk, Returned, InScope
  <2> QED
    BY <1>0, <1>2, <2>1, <2>2, Kept, TypesNext DEF OemOnDisk, Inv
<1>3. CASE OemAskedLive(t)
  <2>1. AtT' /\ ControlInv'
    BY <1>0, <1>3, <1>k, Where, OneIsMain, ControlGo DEF OemAskedLive, Returned
  <2>2. ScopeInv'
    BY <1>3, <1>k, GoScope DEF OemAskedLive, Returned, InScope
  <2>3. MemT'
    BY <1>3, <1>c, OemLiveType DEF OemAskedLive, Returned, Calls
  <2> QED
    BY <1>0, <1>3, <2>1, <2>2, <2>3, Kept, TypesNext DEF OemAskedLive, Inv
<1> QED
  BY <1>1, <1>2, <1>3 DEF OemStep

-----------------------------------------------------------------------------
(* Jobs. *)

\* A job that ends leaves no thread busy and no scope entered.
LEMMA EndsInv ==
  ASSUME Inv, Ends, stage = "pool" => \A t \in Threads : at[t] = "idle",
         \A t \in Pool : saved'[t] = saved[t],
         Len(saved'[Main]) = 0
  PROVE  AtT' /\ GotT' /\ JobT' /\ stage' \in Stages /\ ControlInv' /\ ScopeInv'
<1>0. WorldT /\ AtT /\ ControlInv /\ ScopeInv
  BY Kept
<1>1. stage' = "idle" /\ Go(Main, "idle") /\ GotT' /\ JobT'
  <2>1. 0 \in Days
    BY CacheConstants DEF Days
  <2> QED
    BY <2>1 DEF Ends, GotT, JobT, Names
<1>2. \A t \in Pool : at[t] = "idle"
  BY <1>0 DEF ControlInv, Threads
<1>3. AtT'
  BY <1>0, <1>1, GoType DEF Steps, Threads
<1>4. \A t \in Threads : at'[t] = "idle" /\ call'[t] = NoCall
  BY <1>0, <1>1, <1>2 DEF Go, AtT, Threads, ControlInv, InCall
<1>5. ControlInv'
  BY <1>1, <1>4 DEF ControlInv, InCall, Threads
<1>6. \A t \in Pool : Len(saved[t]) = 0
  BY <1>0, <1>2, OneIsMain DEF ScopeInv, Depth, InScope, Threads
<1>7. ScopeInv'
  BY <1>1, <1>4, <1>6 DEF ScopeInv, Depth, InScope, JobScope, Threads
<1> QED
  BY <1>1, <1>3, <1>5, <1>7 DEF Stages

\* In the job's own scope and outside a call, its thread has entered one scope.
LEMMA LeaveScope ==
  ASSUME Inv, stage \in JobScope, at[Main] \notin InScope, Pop(Main)
  PROVE  ScopeT' /\ Len(saved'[Main]) = 0 /\ \A t \in Pool : saved'[t] = saved[t]
<1>0. ScopeT /\ ScopeInv /\ Main \in Threads
  BY Kept DEF Threads
<1>d. Depth(Main) = 1
  BY DEF Depth
<1>1. Len(saved[Main]) = 1
  BY <1>0, <1>d DEF ScopeInv
<1>p. \A t \in Pool : t \in Threads \ {Main}
  BY OneIsMain DEF Threads
<1>2. ScopeT' /\ Len(saved'[Main]) = Len(saved[Main]) - 1
        /\ \A s \in Threads \ {Main} : saved'[s] = saved[s]
  <2>1. Len(saved[Main]) > 0
    BY <1>1
  <2> QED
    BY <1>0, <2>1, PopType
<1> QED
  BY <1>1, <1>2, <1>p

\* Outside the job's own scope and a call, entering the scope of id.
LEMMA EnterScope ==
  ASSUME Inv, stage \notin JobScope, at[Main] = "idle", NEW id \in Names, Push(Main, id),
         stage' \in JobScope, at'[Main] \notin InScope, \A t \in Pool : at'[t] = at[t]
  PROVE  ScopeT' /\ ScopeInv'
<1>0. ScopeT /\ ScopeInv /\ Main \in Threads
  BY Kept DEF Threads
<1>d. Depth(Main) = 0
  BY DEF Depth, InScope
<1>1. Len(saved[Main]) = 0
  BY <1>0, <1>d DEF ScopeInv
<1>p. \A t \in Threads : t = Main \/ t \in Pool
  BY DEF Threads
<1>q. \A t \in Pool : t \in Threads \ {Main}
  BY OneIsMain DEF Threads
<1>2. ScopeT' /\ Len(saved'[Main]) = Len(saved[Main]) + 1
        /\ \A s \in Threads \ {Main} : saved'[s] = saved[s]
  BY <1>0, PushType
<1> QED
  BY <1>0, <1>1, <1>2, <1>p, <1>q DEF ScopeInv, Depth

LEMMA BeginsInv ==
  ASSUME Inv, Begins
  PROVE  /\ DiskT' /\ JobT'
         /\ stage = "idle" /\ \A t \in Threads : at[t] = "idle" /\ call[t] = NoCall
<1>0. WorldT /\ ScopeT /\ DiskT /\ ControlInv
  BY Kept
<1>1. Migrated(disk, marker, bound) \in DiskSet /\ Marked(marker, bound) \in SUBSET Names
  BY <1>0, MigratedType DEF DiskT, ScopeT
<1>2. DiskT'
  BY <1>0, <1>1, MigratedType DEF Begins, DiskT, WorldT
<1>3. JobT'
  BY <1>0, CacheConstants DEF Begins, JobT, WorldT, Names
<1>4. stage = "idle" /\ \A t \in Threads : at[t] = "idle" /\ call[t] = NoCall
  BY <1>0 DEF Begins, ControlInv, InCall, Threads
<1> QED
  BY <1>2, <1>3, <1>4

LEMMA ClearType ==
  ASSUME Inv, NEW kinds \in SUBSET Kinds, Clear(kinds) PROVE DiskT' /\ MemT'
<1>0. ScopeT /\ DiskT /\ MemT
  BY Kept
<1>1. Migrated(disk, marker, bound) \in DiskSet /\ Marked(marker, bound) \subseteq Names
  BY <1>0, MigratedType DEF DiskT, ScopeT
<1>2. disk' \in DiskSet
  BY <1>1 DEF Clear, Unlinked, DiskSet
<1>3. MemT'
  BY <1>0 DEF Clear, MemT, NoOem
<1> QED
  BY <1>1, <1>2, <1>3 DEF Clear, DiskT

LEMMA SearchInv ==
  ASSUME Inv, StartBatch \/ StartPool \/ StartSingle \/ EndPool PROVE Inv'
<1>0. WorldT /\ ScopeT /\ DiskT /\ MemT /\ AtT /\ GotT /\ JobT /\ stage \in Stages
        /\ ControlInv /\ ScopeInv
  BY Kept
<1>m. Main \in Threads /\ Main \notin Pool
  BY CacheConstants DEF Threads
<1>1. CASE StartBatch
  <2>1. DiskT' /\ JobT' /\ stage = "idle" /\ at[Main] = "idle"
    BY <1>1, <1>m, BeginsInv DEF StartBatch
  <2>2. AtT' /\ ControlInv'
    BY <1>1, <1>m, <2>1, ControlGo DEF StartBatch, Steps, InCall, Search
  <2>3. ScopeInv'
    BY <1>1, <1>m, <2>1, GoScope DEF StartBatch, Steps, InCall, InScope, JobScope
  <2> QED
    BY <1>0, <1>1, <2>1, <2>2, <2>3, Kept, TypesNext DEF StartBatch, Stages, Inv
<1>2. CASE StartPool
  <2>1. \A t \in Threads : at[t] = "idle" /\ call[t] = NoCall
    BY <1>0, <1>2 DEF StartPool, ControlInv, Threads, InCall
  <2>2. \A t \in Threads : at'[t] \in {"idle", "oem"}
    BY <1>2 DEF StartPool
  <2>3. AtT' /\ ControlInv'
    <3>1. PICK asks \in SUBSET Pool : at' = [t \in Threads |-> IF t \in asks THEN "oem" ELSE "idle"]
      BY <1>2 DEF StartPool
    <3>2. at'[Main] = "idle"
      BY <1>m, <3>1
    <3> QED
      BY <1>0, <1>2, <2>1, <3>1, <3>2 DEF StartPool, AtT, Steps, ControlInv, Threads, InCall, Search
  <2>4. ScopeInv'
    BY <1>0, <1>2, <2>1, <2>2 DEF StartPool, ScopeInv, Depth, InScope, JobScope
  <2> QED
    BY <1>0, <1>2, <2>3, <2>4, Kept, TypesNext DEF StartPool, Stages, Inv
<1>3. CASE StartSingle
  <2>1. DiskT' /\ JobT' /\ stage = "idle" /\ \A t \in Threads : at[t] = "idle" /\ call[t] = NoCall
    BY <1>3, BeginsInv DEF StartSingle
  <2>2. PICK asks \in [Pool -> {"idle", "wu", "oem"}] :
          at' = [t \in Threads |-> IF t = Main THEN "idle" ELSE asks[t]]
    BY <1>3 DEF StartSingle
  <2>3. \A t \in Threads : at'[t] \in {"idle", "wu", "oem"}
    BY <2>2 DEF Threads
  <2>4. AtT' /\ ControlInv'
    BY <1>0, <1>3, <1>m, <2>1, <2>2, <2>3 DEF StartSingle, AtT, Steps, ControlInv, Threads, InCall, Search
  <2>5. ScopeInv'
    BY <1>0, <1>3, <2>1, <2>3 DEF StartSingle, ScopeInv, Depth, InScope, JobScope
  <2> QED
    BY <1>0, <1>3, <2>1, <2>4, <2>5, Kept, TypesNext DEF StartSingle, Stages, Inv
<1>4. CASE EndPool
  <2>0. stage = "pool" /\ \A t \in Threads : at[t] = "idle"
    BY <1>4 DEF EndPool
  <2>1. CASE stage' = "persist" /\ UNCHANGED <<threadVars, jobVars>>
    <3>1. AtT' /\ ControlInv'
      BY <1>0, <2>0, <2>1 DEF AtT, ControlInv, Threads, InCall
    <3>2. ScopeInv'
      BY <1>0, <1>4, <2>0, <2>1 DEF EndPool, ScopeInv, Depth, JobScope
    <3> QED
      BY <1>0, <1>4, <2>1, <3>1, <3>2, Kept, TypesNext DEF EndPool, Stages, Inv
  <2>2. CASE Ends
    <3>1. Len(saved[Main]) = 0
      BY <1>0, <1>m, <2>0 DEF ScopeInv, Depth, InScope, JobScope
    <3>2. AtT' /\ GotT' /\ JobT' /\ stage' \in Stages /\ ControlInv' /\ ScopeInv'
      BY <1>4, <2>0, <2>2, <3>1, EndsInv DEF EndPool
    <3> QED
      BY <1>0, <1>4, <3>2, Kept, TypesNext DEF EndPool, Inv
  <2> QED
    BY <1>4, <2>1, <2>2 DEF EndPool
<1> QED
  BY <1>1, <1>2, <1>3, <1>4

LEMMA SaveInv ==
  ASSUME Inv, Persist \/ PersistOem \/ Leave PROVE Inv'
<1>0. WorldT /\ ScopeT /\ DiskT /\ MemT /\ AtT /\ GotT /\ JobT /\ stage \in Stages
        /\ ControlInv /\ ScopeInv
  BY Kept
<1>m. Main \in Threads /\ Main \notin Pool /\ \A t \in Threads : t = Main \/ t \in Pool
  BY CacheConstants DEF Threads
<1>k. "idle" \in Steps \ InCall
  BY DEF Steps, InCall
<1>1. CASE Persist
  <2>1. stage = "persist" /\ stage' = "persistWu" /\ Push(Main, raw) /\ at[Main] = "idle"
    BY <1>0, <1>1 DEF Persist, ControlInv
  <2>2. DiskT'
    BY <1>0, <1>1, MigratedType, StampedHomeType DEF Persist, DiskT, JobT
  <2>3. AtT' /\ ControlInv'
    <3>1. CASE wu # NoRows /\ Call(Main, "save", "wu", raw, wu)
      BY <1>0, <1>m, <2>1, <3>1, ControlCall DEF JobT, MemT, Kinds
    <3>2. CASE Go(Main, "idle")
      BY <1>m, <1>k, <2>1, <3>2, ControlGo
    <3> QED
      BY <1>1, <3>1, <3>2 DEF Persist
  <2>4. at'[Main] \in {"idle", "enter"} /\ \A t \in Pool : at'[t] = at[t]
    BY <1>0, <1>1, <1>m DEF Persist, Call, Go, AtT, Threads
  <2>5. ScopeT' /\ ScopeInv'
    BY <1>0, <2>1, <2>4, EnterScope DEF InScope, JobScope, JobT
  <2> QED
    BY <1>0, <1>1, <2>1, <2>2, <2>3, <2>5, Kept, TypesNext DEF Persist, Stages, Inv
<1>2. CASE PersistOem
  <2>1. stage = "persistWu" /\ stage' = "persistOem" /\ at[Main] \notin InScope
          /\ saved' = saved
    BY <1>2, Between_ DEF PersistOem
  <2>2. AtT' /\ ControlInv' /\ ScopeInv'
    <3>1. CASE oem[raw] # NoRows /\ Call(Main, "save", "oem", raw, oem[raw])
      <4>1. AtT' /\ ControlInv'
        BY <1>0, <1>m, <2>1, <3>1, ControlCall DEF JobT, MemT, Kinds
      <4> QED
        BY <1>m, <2>1, <3>1, <4>1, CallScope DEF JobScope
    <3>2. CASE Go(Main, "idle")
      <4>1. AtT' /\ ControlInv'
        BY <1>m, <1>k, <2>1, <3>2, ControlGo
      <4> QED
        BY <1>m, <1>k, <2>1, <3>2, <4>1, GoScope DEF JobScope
    <3> QED
      BY <1>2, <3>1, <3>2 DEF PersistOem
  <2> QED
    BY <1>0, <1>2, <2>1, <2>2, Kept, TypesNext DEF PersistOem, Stages, Inv
<1>3. CASE Leave
  <2>1. stage \in JobScope /\ stage # "pool" /\ at[Main] \notin InScope
    BY <1>3, Between_ DEF Leave, JobScope
  <2>2. ScopeT' /\ Len(saved'[Main]) = 0 /\ \A t \in Pool : saved'[t] = saved[t]
    BY <1>3, <2>1, LeaveScope DEF Leave
  <2>3. AtT' /\ GotT' /\ JobT' /\ stage' \in Stages /\ ControlInv' /\ ScopeInv'
    BY <1>3, <2>1, <2>2, EndsInv DEF Leave
  <2> QED
    BY <1>0, <1>3, <2>2, <2>3, Kept, TypesNext DEF Leave, Inv
<1> QED
  BY <1>1, <1>2, <1>3

LEMMA RefreshInv ==
  ASSUME Inv, StartRefresh \/ RefreshClear \/ DeepWuNothing \/ DeepOem \/ Built \/ RefreshFails
  PROVE  Inv'
<1>0. WorldT /\ ScopeT /\ DiskT /\ MemT /\ AtT /\ GotT /\ JobT /\ stage \in Stages
        /\ ControlInv /\ ScopeInv
  BY Kept
<1>m. Main \in Threads /\ Main \notin Pool
  BY CacheConstants DEF Threads
<1>1. CASE StartRefresh
  <2>1. stage = "idle" /\ stage' = "clear" /\ Push(Main, raw') /\ at[Main] = "idle"
          /\ at' = at /\ call' = call
    BY <1>0, <1>1 DEF StartRefresh, ControlInv
  <2>2. JobT'
    BY <1>0, <1>1, CacheConstants DEF StartRefresh, JobT, WorldT, Names
  <2>3. ScopeT' /\ ScopeInv'
    BY <2>1, <2>2, EnterScope DEF JobT, InScope, JobScope
  <2>4. AtT' /\ ControlInv'
    BY <1>0, <2>1 DEF AtT, ControlInv, Search
  <2> QED
    BY <1>0, <1>1, <2>1, <2>2, <2>3, <2>4, Kept, TypesNext DEF StartRefresh, Stages, Inv
<1>2. CASE RefreshClear
  <2>1. stage = "clear" /\ stage' = "deepWu" /\ Go(Main, "fetch") /\ saved' = saved
    BY <1>2 DEF RefreshClear
  <2>2. AtT' /\ ControlInv'
    BY <1>m, <2>1, ControlGo DEF Steps, InCall
  <2>3. ScopeT' /\ WorldT' /\ GotT' /\ JobT'
    BY <1>2, Kept DEF RefreshClear
  <2>4. DiskT' /\ MemT'
    BY <1>2, ClearType DEF RefreshClear
  <2>5. at[Main] = "idle"
    BY <1>0, <2>1 DEF ControlInv
  <2>6. ScopeInv'
    BY <1>m, <2>1, <2>5, GoScope DEF Steps, InCall, InScope, JobScope
  <2> QED
    BY <2>1, <2>2, <2>3, <2>4, <2>6, TypesNext DEF Stages, Inv
<1>3. CASE DeepWuNothing
  <2>1. AtT' /\ ControlInv'
    BY <1>0, <1>3, <1>m, ControlCall DEF DeepWuNothing, JobT, Kinds
  <2>2. ScopeInv'
    BY <1>3, <1>m, CallScope DEF DeepWuNothing, InScope
  <2> QED
    BY <1>0, <1>3, <2>1, <2>2, Kept, TypesNext DEF DeepWuNothing, Inv
<1>4. CASE DeepOem
  <2>1. MemT'
    BY <1>0, <1>4, OemLiveType DEF DeepOem, JobT
  <2>2. AtT' /\ ControlInv'
    BY <1>0, <1>4, <1>m, <2>1, ControlCall DEF DeepOem, JobT, MemT, Kinds
  <2>3. ScopeInv'
    BY <1>4, <1>m, CallScope DEF DeepOem, InScope, JobScope
  <2> QED
    BY <1>0, <1>4, <2>1, <2>2, <2>3, Kept, TypesNext DEF DeepOem, Stages, Inv
<1>5. CASE Built
  <2>1. AtT' /\ ControlInv'
    BY <1>0, <1>5 DEF Built, AtT, ControlInv, Search
  <2>2. ScopeInv'
    BY <1>0, <1>5 DEF Built, ScopeInv, Depth, JobScope
  <2> QED
    BY <1>0, <1>5, <2>1, <2>2, Kept, TypesNext DEF Built, Stages, Inv
<1>6. CASE RefreshFails
  <2>1. stage \in JobScope /\ stage # "pool" /\ at[Main] \notin InScope
    BY <1>6 DEF RefreshFails, JobScope, InScope
  <2>2. ScopeT' /\ Len(saved'[Main]) = 0 /\ \A t \in Pool : saved'[t] = saved[t]
    BY <1>6, <2>1, LeaveScope DEF RefreshFails
  <2>3. AtT' /\ GotT' /\ JobT' /\ stage' \in Stages /\ ControlInv' /\ ScopeInv'
    BY <1>6, <2>1, <2>2, EndsInv DEF RefreshFails
  <2> QED
    BY <1>0, <1>6, <2>2, <2>3, Kept, TypesNext DEF RefreshFails, Inv
<1> QED
  BY <1>1, <1>2, <1>3, <1>4, <1>5, <1>6

-----------------------------------------------------------------------------
(* The window, time, restarts; then the whole next-state relation. *)

LEMMA SameControl ==
  ASSUME Inv, UNCHANGED <<at, call, got, stage, raw, ext, since, saved>>
  PROVE  AtT' /\ GotT' /\ JobT' /\ stage' \in Stages /\ ControlInv' /\ ScopeInv'
<1>1. AtT /\ GotT /\ JobT /\ stage \in Stages /\ ControlInv /\ ScopeInv
  BY Kept
<1>2. AtT' /\ GotT' /\ JobT' /\ stage' \in Stages
  BY <1>1 DEF AtT, GotT, JobT
<1>3. ControlInv' /\ ScopeInv'
  BY <1>1 DEF ControlInv, ScopeInv, Depth
<1> QED
  BY <1>2, <1>3

LEMMA WorldInv ==
  ASSUME Inv, ProfileArrives \/ ClearMenu \/ Expire \/ NextDay \/ Restart PROVE Inv'
<1>0. WorldT /\ ScopeT /\ DiskT /\ MemT /\ AtT /\ GotT /\ JobT /\ stage \in Stages
        /\ ControlInv /\ ScopeInv
  BY Kept
<1>1. CASE ProfileArrives
  <2>1. WorldT' /\ ScopeT'
    BY <1>0, <1>1, CacheConstants DEF ProfileArrives, WorldT, ScopeT, Names
  <2> QED
    BY <1>1, <2>1, SameControl, Kept, TypesNext DEF ProfileArrives, Inv
<1>2. CASE ClearMenu
  <2>1. DiskT' /\ MemT'
    BY <1>2, ClearType DEF ClearMenu
  <2> QED
    BY <1>2, <2>1, SameControl, Kept, TypesNext DEF ClearMenu, Inv
<1>3. CASE Expire
  <2>1. MemT'
    BY <1>0, <1>3 DEF Expire, MemT, NoOem
  <2> QED
    BY <1>3, <2>1, SameControl, Kept, TypesNext DEF Expire, Inv
<1>4. CASE NextDay
  <2>1. MemT'
    BY <1>0, <1>4 DEF NextDay, MemT, NoOem
  <2>2. WorldT'
    BY <1>0, <1>4, CacheConstants DEF NextDay, WorldT, Days
  <2> QED
    BY <1>4, <2>1, <2>2, SameControl, Kept, TypesNext DEF NextDay, Inv
<1>5. CASE Restart
  <2>1. WorldT' /\ JobT' /\ stage' \in Stages
    BY <1>0, <1>5, CacheConstants DEF Restart, WorldT, JobT, Stages, Days, Names
  <2>2. MemT'
    BY <1>5 DEF Restart, MemT, NoOem
  <2>3. ScopeT' /\ AtT' /\ GotT'
    <3>1. <<>> \in Seq(Names)
      OBVIOUS
    <3> QED
      BY <1>5, <3>1 DEF Restart, ScopeT, AtT, GotT, Steps, Names
  <2>4. ControlInv' /\ ScopeInv'
    BY <1>5 DEF Restart, ControlInv, ScopeInv, Depth, Threads, InCall, InScope, JobScope, Search
  <2> QED
    BY <1>5, <2>1, <2>2, <2>3, <2>4, Kept, TypesNext DEF Restart, Inv
<1> QED
  BY <1>1, <1>2, <1>3, <1>4, <1>5

LEMMA NextInv == Inv /\ [Next]_vars => Inv'
<1> SUFFICES ASSUME Inv, [Next]_vars PROVE Inv'
  OBVIOUS
<1>1. CASE Next
  BY <1>1, ScopedInv, WuInv, OemInv, SearchInv, SaveInv, RefreshInv, WorldInv DEF Next, JobStep
<1>2. CASE UNCHANGED vars
  BY <1>2, SameControl, Kept, TypesNext DEF vars, Inv
<1> QED
  BY <1>1, <1>2

\* Every variable keeps its type; in particular what a with statement puts back
\* is an identity that was bound before, in whatever order threads leave.
THEOREM TypeCorrect == Spec => []TypeOK
<1>1. Inv => TypeOK
  BY DEF Inv
<1> QED
  BY <1>1, InitInv, NextInv, PTL DEF Spec
-----------------------------------------------------------------------------
(* Rows stay with their PC.  What a file holds was asked for on a PC that has   *)
(* the identity in its tag, and a search loads under identities of its own PC;  *)
(* which folder the scope named when the file was opened makes no difference.   *)

Own(m)   == {Base[m], Tag[m]}
Known(m) == Own(m) \cup {Unknown}

\* A tag tells the truth: rows that were asked for on a PC are in a file that is
\* tagged with an identity of that PC, or with "unknown".
Owned(f) == Readable(f) => \/ f.rows = NoRows
                           \/ f.rows.on = Untagged
                           \/ f.machine = Unknown
                           \/ f.machine \in Own(f.rows.on)

\* No two PCs have an identity in common, neither the one of maker and model nor the
\* one with the serial number; and the tag of an older version's file, where it has
\* one, is of the PC its rows were asked for on.
DistinctPCs ==
  /\ \A m, n \in Machines : m # n => Own(m) \cap Own(n) = {}
  /\ \A f \in Legacy : Owned(f)

FilesOwn == \A f \in Places \X Kinds : Owned(disk[f])
IdsOwn   == /\ {profile, raw, ext} \subseteq Known(machine)
            /\ stage \in Search => raw # Unknown /\ ext # Unknown
CallsOwn == \A t \in Threads : call[t] # NoCall =>
              /\ call[t].id \in Known(machine)
              /\ call[t].op = "load" => call[t].id # Unknown
              /\ Ours(call[t].rows)

OwnInv == FilesOwn /\ IdsOwn /\ CallsOwn /\ RowsOfThisMachine

AllOwned(files) == files \in DiskSet /\ \A f \in Places \X Kinds : Owned(files[f])

\* Only a file whose rows belong to nobody known is without a tag, and gets one.
LEMMA StampedOwned ==
  ASSUME NEW f \in Files \cup {NoFile, Torn}, Readable(f), Owned(f), NEW id \in Names
  PROVE  Owned(Stamped(f, id))
<1>1. f \in Files
  BY ReadableType
<1>2. CASE f.machine = Untagged
  <2>1. f.rows = NoRows \/ f.rows.on = Untagged
    BY <1>1, <1>2, CacheConstants DEF Owned, Own, Files, Rows, Names
  <2>2. Stamped(f, id).rows = f.rows
    BY <1>1 DEF Stamped, Files
  <2> QED
    BY <2>1, <2>2 DEF Owned
<1>3. CASE f.machine # Untagged
  BY <1>3 DEF Stamped
<1> QED
  BY <1>2, <1>3

LEMMA MigratedOwned ==
  ASSUME NEW files, AllOwned(files), NEW marks \in SUBSET Names, NEW id \in Names
  PROVE  AllOwned(Migrated(files, marks, id))
<1>1. Migrated(files, marks, id) \in DiskSet
  BY MigratedType DEF AllOwned
<1>2. ASSUME NEW f \in Places \X Kinds PROVE Owned(Migrated(files, marks, id)[f])
  <2>1. <<Home, f[2]>> \in Places \X Kinds
    BY DEF Places
  <2>2. /\ Owned(files[f]) /\ Owned(files[<<Home, f[2]>>])
        /\ files[<<Home, f[2]>>] \in Files \cup {NoFile, Torn}
    BY <2>1 DEF AllOwned, DiskSet
  <2>3. Moves(files, id, f[2]) => Owned(Stamped(files[<<Home, f[2]>>], id))
    BY <2>2, StampedOwned DEF Moves
  <2>4. \/ Migrated(files, marks, id)[f] \in {files[f], NoFile}
        \/ Moves(files, id, f[2]) /\ Migrated(files, marks, id)[f] = Stamped(files[<<Home, f[2]>>], id)
    BY DEF Migrated
  <2>5. Owned(NoFile)
    BY DEF Owned, Readable
  <2> QED
    BY <2>2, <2>3, <2>4, <2>5
<1> QED
  BY <1>1, <1>2 DEF AllOwned

LEMMA StampedHomeOwned ==
  ASSUME NEW files, AllOwned(files), NEW id \in Names PROVE AllOwned(StampedHome(files, id))
<1>1. StampedHome(files, id) \in DiskSet
  BY StampedHomeType DEF AllOwned
<1>2. ASSUME NEW f \in Places \X Kinds PROVE Owned(StampedHome(files, id)[f])
  <2>1. Owned(files[f]) /\ files[f] \in Files \cup {NoFile, Torn}
    BY DEF AllOwned, DiskSet
  <2>2. Readable(files[f]) => Owned(Stamped(files[f], id))
    BY <2>1, StampedOwned
  <2>3. \/ StampedHome(files, id)[f] = files[f]
        \/ Readable(files[f]) /\ StampedHome(files, id)[f] = Stamped(files[f], id)
    BY DEF StampedHome
  <2> QED
    BY <2>1, <2>2, <2>3
<1> QED
  BY <1>1, <1>2 DEF AllOwned

LEMMA NobodysRows == Ours(NoRows)
BY DEF Ours

\* What a load hands out to a PC for an identity of its own is not another's.
LEMMA UsableOwn ==
  ASSUME DistinctPCs, WorldT, NEW f \in Files \cup {NoFile, Torn}, Owned(f),
         NEW id \in Known(machine), id # Unknown
  PROVE  Ours(UsableRows(f, id))
<1> DEFINE rows == UsableRows(f, id)
<1>1. CASE rows # NoRows /\ rows.on # Untagged
  <2>1. Readable(f) /\ f.machine \in {Untagged, id} /\ f \in Files /\ rows = f.rows
    BY <1>1, ReadableType DEF UsableRows, Matches
  <2>2. rows.on \in Machines /\ f.machine # Unknown
    BY <1>1, <2>1, CacheConstants DEF Files, Rows, Names
  <2>3. f.machine \in Own(rows.on)
    BY <1>1, <2>1, <2>2 DEF Owned
  <2>4. f.machine # Untagged
    BY <2>2, <2>3, CacheConstants DEF Own, Names
  <2>5. id \in Own(machine) /\ id \in Own(rows.on)
    BY <2>1, <2>3, <2>4 DEF Known
  <2>6. machine = rows.on
    BY <2>2, <2>5 DEF DistinctPCs, WorldT
  <2> QED
    BY <2>6 DEF Ours
<1> QED
  BY <1>1 DEF Ours

\* With types and control, for the steps.
OwnAll == Inv /\ DistinctPCs /\ OwnInv

LEMMA OwnFacts ==
  ASSUME OwnAll
  PROVE  /\ WorldT /\ ScopeT /\ DiskT /\ MemT /\ AtT /\ GotT /\ JobT /\ ControlInv
         /\ FilesOwn /\ IdsOwn /\ CallsOwn /\ RowsOfThisMachine
         /\ AllOwned(disk)
BY Kept DEF OwnAll, OwnInv, AllOwned, FilesOwn, DiskT

LEMMA OwnCall ==
  ASSUME OwnAll, NEW t \in Threads, NEW op, NEW kind, NEW id \in Known(machine), NEW rows,
         op = "load" => id # Unknown, Ours(rows),
         Call(t, op, kind, id, rows), machine' = machine
  PROVE  CallsOwn'
BY OwnFacts DEF Call, CallsOwn, AtT, Known, Own, Ours

LEMMA OwnGo ==
  ASSUME OwnAll, NEW t \in Threads, NEW step, Go(t, step), machine' = machine
  PROVE  CallsOwn'
BY OwnFacts DEF Go, CallsOwn, AtT, Known, Own, Ours

\* What is left alone stays with its PC.
LEMMA OwnKept ==
  ASSUME OwnAll, machine' = machine
  PROVE  /\ disk' = disk => FilesOwn'
         /\ profile' = profile /\ UNCHANGED jobVars /\ (stage' \in Search => stage \in Search) => IdsOwn'
         /\ call' = call => CallsOwn'
         /\ UNCHANGED memVars /\ got' = got => RowsOfThisMachine'
BY OwnFacts DEF FilesOwn, IdsOwn, CallsOwn, RowsOfThisMachine, Known, Own, Owned, Ours

LEMMA OwnScoped == ASSUME OwnAll, NEW t \in Threads, Scoped(t) PROVE OwnInv'
<1>1. ASSUME Enter(t) \/ Exit(t) PROVE OwnInv'
  BY <1>1, OwnKept DEF Enter, Exit, OwnInv
<1>2. CASE Load(t)
  <2>1. call[t] \in Calls /\ call[t] # NoCall /\ call[t].op = "load"
    BY <1>2, OwnFacts, CacheConstants DEF Load, ControlInv, AtT, InCall
  <2>2. call[t].id \in Known(machine) /\ call[t].id # Unknown
    BY <2>1, OwnFacts DEF CallsOwn
  <2>3. AllOwned(disk')
    BY <1>2, OwnFacts, MigratedOwned DEF Load, DiskT, ScopeT
  <2> DEFINE f == <<Folder(bound), call[t].kind>>
  <2>4. f \in Places \X Kinds
    BY <2>1, OwnFacts, FolderType DEF ScopeT, Calls
  <2>5. Owned(disk'[f]) /\ disk'[f] \in Files \cup {NoFile, Torn}
    BY <2>3, <2>4 DEF AllOwned, DiskSet
  <2>6. Ours(UsableRows(disk'[f], call[t].id))
    BY <2>2, <2>5, OwnFacts, UsableOwn DEF OwnAll
  <2>7. got' = [got EXCEPT ![t] = UsableRows(disk'[f], call[t].id)] /\ machine' = machine
          /\ wu' = wu /\ oem' = oem
    BY <1>2 DEF Load
  <2> HIDE DEF f
  <2>8. RowsOfThisMachine'
    BY <2>6, <2>7, OwnFacts DEF RowsOfThisMachine, GotT, Ours
  <2> QED
    BY <1>2, <2>3, <2>8, OwnKept DEF Load, OwnInv, AllOwned, FilesOwn
<1>3. CASE OpenForWrite(t)
  <2>1. call[t] \in Calls
    BY <1>3, OwnFacts, CacheConstants DEF OpenForWrite, ControlInv, AtT, InCall
  <2> DEFINE early == call[t].kind = "oem"
             files == IF early THEN Migrated(disk, marker, call[t].id) ELSE disk
             marks == IF early THEN Marked(marker, call[t].id) ELSE marker
             place == Folder(bound)
  <2>2. AllOwned(files) /\ marks \in SUBSET Names
    BY <2>1, OwnFacts, MigratedOwned, MigratedType DEF DiskT, Calls
  <2>3. AllOwned(Migrated(files, marks, bound))
    BY <2>2, OwnFacts, MigratedOwned DEF ScopeT
  <2>4. /\ disk' = [Migrated(files, marks, bound) EXCEPT ![<<place, call[t].kind>>] = Torn]
        /\ call' = [call EXCEPT ![t].place = place, ![t].at = day]
        /\ machine' = machine
    BY <1>3 DEF OpenForWrite
  <2> HIDE DEF early, files, marks, place
  <2>5. FilesOwn'
    <3>1. Owned(Torn)
      BY DEF Owned, Readable
    <3> QED
      BY <2>3, <2>4, <3>1 DEF AllOwned, DiskSet, FilesOwn
  <2>6. CallsOwn'
    <3> DEFINE c == [call[t] EXCEPT !.place = place, !.at = day]
    <3>1. c.id = call[t].id /\ c.op = call[t].op /\ c.rows = call[t].rows /\ call[t] # NoCall
      BY <2>1, CacheConstants DEF Calls
    <3>2. call' = [call EXCEPT ![t] = c]
      BY <2>1, <2>4, OwnFacts DEF AtT
    <3> HIDE DEF c
    <3> QED
      BY <2>4, <3>1, <3>2, OwnFacts DEF CallsOwn, AtT, Known, Own, Ours
  <2> QED
    BY <1>3, <2>5, <2>6, OwnKept DEF OpenForWrite, OwnInv
<1>4. CASE Fill(t)
  <2>1. call[t] \in Calls /\ call[t] # NoCall
    BY <1>4, OwnFacts, CacheConstants DEF Fill, ControlInv, AtT, InCall
  <2> DEFINE new == [machine |-> call[t].id, at |-> call[t].at, rows |-> call[t].rows]
  <2>2. Owned(new)
    BY <2>1, OwnFacts, CacheConstants DEF CallsOwn, Calls, Owned, Known, Ours
  <2>3. disk' = [disk EXCEPT ![<<call[t].place, call[t].kind>>] = new] /\ machine' = machine
    BY <1>4 DEF Fill
  <2> HIDE DEF new
  <2>4. FilesOwn'
    BY <2>2, <2>3, OwnFacts DEF FilesOwn, DiskT, DiskSet
  <2> QED
    BY <1>4, <2>4, OwnKept DEF Fill, OwnInv
<1> QED
  BY <1>1, <1>2, <1>3, <1>4 DEF Scoped

LEMMA OwnWuDone == ASSUME OwnAll, NEW t \in Threads, WuDone(t), machine' = machine PROVE CallsOwn'
BY OwnGo DEF WuDone

LEMMA OwnWu == ASSUME OwnAll, NEW t \in Threads, WuStep(t) PROVE OwnInv'
<1>0. at[t] \in {"wu", "fetch", "keep", "back"} /\ machine' = machine /\ disk' = disk
        /\ profile' = profile /\ UNCHANGED jobVars
  BY DEF WuStep, WuHit, WuMiss, WuLoaded, WuNotOnDisk, WuAnswered, WuKept, WuAnsweredNothing,
         WuSaved, Returned
<1>n. raw \in Known(machine) /\ ext \in Known(machine) /\ (at[t] = "wu" => ext # Unknown)
  BY OwnFacts DEF IdsOwn, ControlInv
<1>s. stage' \in Search => stage \in Search
  <2>1. CASE WuHit(t)
    BY <2>1, OwnFacts DEF WuHit, ControlInv
  <2>2. CASE WuLoaded(t)
    BY <2>2, OwnFacts DEF WuLoaded, Returned, ControlInv, InCall
  <2>3. ASSUME WuAnsweredNothing(t) \/ WuSaved(t) PROVE stage \in Search
    BY <2>3 DEF WuAnsweredNothing, WuSaved, Search
  <2>4. ASSUME WuMiss(t) \/ WuNotOnDisk(t) \/ WuAnswered(t) \/ WuKept(t) PROVE stage' = stage
    BY <2>4 DEF WuMiss, WuNotOnDisk, WuAnswered, WuKept
  <2> QED
    BY <2>1, <2>2, <2>3, <2>4 DEF WuStep
<1>1. CallsOwn'
  <2>1. CASE WuMiss(t)
    BY <1>0, <1>n, <2>1, OwnCall, NobodysRows DEF WuMiss
  <2>2. CASE WuKept(t)
    <3>1. Ours(got[t])
      BY OwnFacts DEF RowsOfThisMachine
    <3> QED
      BY <1>0, <1>n, <2>2, <3>1, OwnCall DEF WuKept
  <2>3. ASSUME WuNotOnDisk(t) \/ WuAnswered(t) PROVE CallsOwn'
    BY <1>0, <2>3, OwnGo DEF WuNotOnDisk, WuAnswered
  <2>4. ASSUME WuHit(t) \/ WuLoaded(t) \/ WuAnsweredNothing(t) \/ WuSaved(t) PROVE CallsOwn'
    BY <1>0, <2>4, OwnWuDone DEF WuHit, WuLoaded, WuAnsweredNothing, WuSaved
  <2> QED
    BY <2>1, <2>2, <2>3, <2>4 DEF WuStep
<1>2. RowsOfThisMachine'
  <2>1. ASSUME WuLoaded(t) \/ WuKept(t) PROVE RowsOfThisMachine'
    BY <1>0, <2>1, OwnFacts DEF WuLoaded, WuKept, Keep, RowsOfThisMachine, Ours
  <2>2. CASE WuAnswered(t)
    BY <1>0, <2>2, OwnFacts DEF WuAnswered, RowsOfThisMachine, Answer, GotT, Ours
  <2>3. ASSUME ~(WuLoaded(t) \/ WuKept(t) \/ WuAnswered(t)) PROVE RowsOfThisMachine'
    BY <1>0, <2>3, OwnKept DEF WuStep, WuHit, WuMiss, WuNotOnDisk, WuAnsweredNothing, WuSaved
  <2> QED
    BY <2>1, <2>2, <2>3
<1> QED
  BY <1>0, <1>s, <1>1, <1>2, OwnKept DEF OwnInv

LEMMA OwnOemLive ==
  ASSUME OwnAll, NEW id \in Names, OemLive(id), wu' = wu, got' = got, machine' = machine
  PROVE  RowsOfThisMachine'
BY OwnFacts DEF OemLive, RowsOfThisMachine, Answer, MemT, Ours

LEMMA OwnOem == ASSUME OwnAll, NEW t \in Threads, OemStep(t) PROVE OwnInv'
<1>1. CASE OemAsk(t)
  <2>1. {raw, ext} \subseteq Known(machine) /\ raw # Unknown /\ ext # Unknown
    BY <1>1, OwnFacts DEF OemAsk, IdsOwn, ControlInv
  <2>2. CallsOwn'
    BY <1>1, <2>1, OwnCall, NobodysRows DEF OemAsk
  <2> QED
    BY <1>1, <2>2, OwnKept DEF OemAsk, OwnInv
<1>2. CASE OemOnDisk(t)
  BY <1>2, OwnGo, OwnKept DEF OemOnDisk, OwnInv
<1>3. CASE OemAskedLive(t)
  <2>1. call[t] \in Calls
    BY <1>3, OwnFacts DEF OemAskedLive, Returned, ControlInv, AtT, InCall
  <2>2. RowsOfThisMachine'
    BY <1>3, <2>1, OwnOemLive DEF OemAskedLive, Calls
  <2> QED
    BY <1>3, <2>2, OwnGo, OwnKept DEF OemAskedLive, OwnInv
<1> QED
  BY <1>1, <1>2, <1>3 DEF OemStep

LEMMA OwnEnds == ASSUME OwnAll, Ends, machine' = machine, profile' = profile
                 PROVE IdsOwn' /\ CallsOwn' /\ (UNCHANGED memVars => RowsOfThisMachine')
<1>1. IdsOwn'
  BY OwnFacts DEF Ends, IdsOwn, Known, Own, Search
<1> QED
  BY <1>1, OwnGo, OwnFacts DEF Ends, RowsOfThisMachine, Threads, Ours

LEMMA OwnBegins == ASSUME OwnAll, Begins, machine' = machine, profile' = profile
                   PROVE FilesOwn' /\ IdsOwn'
<1>1. IdsOwn'
  BY OwnFacts, CacheConstants DEF Begins, IdsOwn, Known, Own, WorldT
<1>2. AllOwned(Migrated(disk, marker, bound)) /\ Marked(marker, bound) \in SUBSET Names
  BY OwnFacts, MigratedOwned, MigratedType DEF DiskT, ScopeT
<1>3. AllOwned(disk')
  BY <1>2, OwnFacts, MigratedOwned DEF Begins, WorldT
<1> QED
  BY <1>1, <1>3 DEF AllOwned, FilesOwn

LEMMA OwnSearch ==
  ASSUME OwnAll, StartBatch \/ StartPool \/ StartSingle \/ EndPool PROVE OwnInv'
<1>m. Main \in Threads
  BY DEF Threads
<1>1. CASE StartBatch
  BY <1>1, <1>m, OwnBegins, OwnGo, OwnKept DEF StartBatch, OwnInv
<1>2. CASE StartPool
  <2>1. stage \in Search
    BY <1>2 DEF StartPool, Search
  <2> QED
    BY <1>2, <2>1, OwnKept DEF StartPool, OwnInv
<1>3. CASE StartSingle
  BY <1>3, OwnBegins, OwnKept DEF StartSingle, OwnInv
<1>4. CASE EndPool
  <2>1. CASE stage' = "persist" /\ UNCHANGED <<threadVars, jobVars>>
    BY <1>4, <2>1, OwnKept DEF EndPool, OwnInv, Search
  <2>2. CASE Ends
    BY <1>4, <2>2, OwnEnds, OwnKept DEF EndPool, OwnInv
  <2> QED
    BY <1>4, <2>1, <2>2 DEF EndPool
<1> QED
  BY <1>1, <1>2, <1>3, <1>4

LEMMA OwnSave == ASSUME OwnAll, Persist \/ PersistOem \/ Leave PROVE OwnInv'
<1>m. Main \in Threads /\ raw \in Known(machine)
  BY OwnFacts DEF Threads, IdsOwn
<1>1. CASE Persist
  <2>1. AllOwned(disk')
    BY <1>1, OwnFacts, MigratedOwned, StampedHomeOwned DEF Persist, DiskT, JobT
  <2>2. CallsOwn'
    <3>1. Ours(wu)
      BY OwnFacts DEF RowsOfThisMachine
    <3> QED
      BY <1>1, <1>m, <3>1, OwnCall, OwnGo DEF Persist
  <2> QED
    BY <1>1, <2>1, <2>2, OwnKept DEF Persist, OwnInv, AllOwned, FilesOwn, Search
<1>2. CASE PersistOem
  <2>1. CallsOwn'
    <3>1. Ours(oem[raw])
      BY OwnFacts DEF RowsOfThisMachine, JobT
    <3> QED
      BY <1>2, <1>m, <3>1, OwnCall, OwnGo DEF PersistOem
  <2> QED
    BY <1>2, <2>1, OwnKept DEF PersistOem, OwnInv, Search
<1>3. CASE Leave
  BY <1>3, OwnEnds, OwnKept DEF Leave, OwnInv
<1> QED
  BY <1>1, <1>2, <1>3

LEMMA OwnClear ==
  ASSUME OwnAll, NEW kinds \in SUBSET Kinds, Clear(kinds), got' = got, machine' = machine
  PROVE  FilesOwn' /\ RowsOfThisMachine'
<1>1. AllOwned(Migrated(disk, marker, bound))
  BY OwnFacts, MigratedOwned DEF DiskT, ScopeT
<1>2. Owned(NoFile)
  BY DEF Owned, Readable
<1>3. FilesOwn'
  BY <1>1, <1>2 DEF Clear, Unlinked, AllOwned, FilesOwn
<1>4. RowsOfThisMachine'
  BY OwnFacts DEF Clear, RowsOfThisMachine, NoOem, Ours
<1> QED
  BY <1>3, <1>4

LEMMA OwnRefresh ==
  ASSUME OwnAll, StartRefresh \/ RefreshClear \/ DeepWuNothing \/ DeepOem \/ Built \/ RefreshFails
  PROVE  OwnInv'
<1>m. Main \in Threads /\ raw \in Known(machine)
  BY OwnFacts DEF Threads, IdsOwn
<1>1. CASE StartRefresh
  <2>1. IdsOwn'
    BY <1>1, OwnFacts DEF StartRefresh, IdsOwn, Known, Own, Search
  <2> QED
    BY <1>1, <2>1, OwnKept DEF StartRefresh, OwnInv
<1>2. CASE RefreshClear
  BY <1>2, <1>m, OwnClear, OwnGo, OwnKept DEF RefreshClear, OwnInv, Search
<1>3. CASE DeepWuNothing
  BY <1>3, <1>m, OwnCall, NobodysRows, OwnKept DEF DeepWuNothing, OwnInv
<1>4. CASE DeepOem
  <2>1. raw \in Names /\ raw' = raw
    BY <1>4, OwnFacts DEF DeepOem, JobT
  <2>2. RowsOfThisMachine'
    BY <1>4, <2>1, OwnOemLive DEF DeepOem
  <2>3. Ours(oem'[raw])
    BY <1>4, <2>1, <2>2 DEF DeepOem, RowsOfThisMachine, Ours
  <2>4. CallsOwn'
    BY <1>4, <1>m, <2>3, OwnCall DEF DeepOem
  <2> QED
    BY <1>4, <2>2, <2>4, OwnKept DEF DeepOem, OwnInv, Search
<1>5. CASE Built
  BY <1>5, OwnKept DEF Built, OwnInv, Search
<1>6. CASE RefreshFails
  BY <1>6, OwnEnds, OwnKept DEF RefreshFails, OwnInv
<1> QED
  BY <1>1, <1>2, <1>3, <1>4, <1>5, <1>6

LEMMA OwnWorld ==
  ASSUME OwnAll, ProfileArrives \/ ClearMenu \/ Expire \/ NextDay \/ Restart PROVE OwnInv'
<1>1. CASE ProfileArrives
  <2>1. IdsOwn'
    BY <1>1, OwnFacts DEF ProfileArrives, IdsOwn, Known, Own
  <2> QED
    BY <1>1, <2>1, OwnKept DEF ProfileArrives, OwnInv
<1>2. CASE ClearMenu
  BY <1>2, OwnClear, OwnKept DEF ClearMenu, OwnInv
<1>3. ASSUME Expire \/ NextDay PROVE OwnInv'
  <2>1. RowsOfThisMachine'
    BY <1>3, OwnFacts DEF Expire, NextDay, RowsOfThisMachine, NoOem, Ours
  <2> QED
    BY <1>3, <2>1, OwnKept DEF Expire, NextDay, OwnInv
<1>4. CASE Restart
  BY <1>4, OwnFacts DEF Restart, OwnInv, FilesOwn, IdsOwn, CallsOwn, RowsOfThisMachine, NoOem,
                        Known, Search, Ours, Owned
<1> QED
  BY <1>1, <1>2, <1>3, <1>4

LEMMA OwnInit == ASSUME DistinctPCs PROVE Init => OwnInv
<1> SUFFICES ASSUME Init PROVE OwnInv
  OBVIOUS
<1>1. FilesOwn
  <2>1. ASSUME NEW f \in Places \X Kinds PROVE disk[f] \in Legacy
    BY CacheConstants DEF Init, Kinds
  <2> QED
    BY <2>1 DEF FilesOwn, DistinctPCs
<1>2. IdsOwn /\ CallsOwn /\ RowsOfThisMachine
  BY DEF Init, IdsOwn, CallsOwn, RowsOfThisMachine, Known, Own, Search, NoOem, Ours
<1> QED
  BY <1>1, <1>2 DEF OwnInv

LEMMA OwnNext == ASSUME DistinctPCs PROVE Inv /\ OwnInv /\ [Next]_vars => OwnInv'
<1> SUFFICES ASSUME Inv, OwnInv, [Next]_vars PROVE OwnInv'
  OBVIOUS
<1>0. OwnAll
  BY DEF OwnAll
<1>1. CASE Next
  BY <1>0, <1>1, OwnScoped, OwnWu, OwnOem, OwnSearch, OwnSave, OwnRefresh, OwnWorld DEF Next, JobStep
<1>2. CASE UNCHANGED vars
  BY <1>0, <1>2, OwnKept DEF vars, OwnInv
<1> QED
  BY <1>1, <1>2

\* Where no two PCs have an identity in common, and the tags of older files are true,
\* rows that are known to be of one PC are never in the memory of the program on
\* another: whatever folder the shared scope names, in whatever order threads use it,
\* with untagged files of an older version, and after any crash or move of the folder.
THEOREM RowsStayWithTheirPC ==
  ASSUME DistinctPCs PROVE Spec => []RowsOfThisMachine
<1>1. Inv /\ OwnInv /\ [Next]_vars => (Inv /\ OwnInv)'
  BY NextInv, OwnNext
<1>2. Init => Inv /\ OwnInv
  BY InitInv, OwnInit
<1>3. OwnInv => RowsOfThisMachine
  BY DEF OwnInv
<1> QED
  BY <1>1, <1>2, <1>3, PTL DEF Spec

=============================================================================
