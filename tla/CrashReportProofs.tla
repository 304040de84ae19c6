-------------------------- MODULE CrashReportProofs --------------------------
(* Theorems about CrashReport.  The invariant says where things come from: *)
(* only a merge gives a suspect an answer, a merge needs a driver that is  *)
(* named, and every thread and timer comes after a finished analysis.  The *)
(* devices of the automatic search follow from the order of their places.  *)
EXTENDS CrashReport, FiniteSetTheorems, WellFoundedInduction, TLAPS

\* Sets of natural numbers have a least one.
LEMMA LeastNatural ==
  ASSUME NEW T, T \subseteq Nat, T # {}
  PROVE  \E n \in T : \A m \in T : n <= m
<1>1. \E n \in T : \A m \in T : <<m, n>> \notin OpToRel(<, Nat)
  BY WFMin, NatLessThanWellFounded, Zenon
<1>2. \E n \in T : \A m \in T : ~(m < n)
  BY <1>1, Zenon DEF OpToRel
<1>3. QED
  BY <1>2

USE CrashAssumption, NoneAssumption

Origins ==
  /\ (deferred # 0 \/ auto # None \/ pending \/ refresh # None) => model # None
  /\ model # None => \A s \in model.ver.suspects :
       s.catalog # "not_run" => model.driver \in Drivers

IInv == TypeOK /\ ReportAgrees /\ MainSuspectCurrent /\ BlameIsGrounded /\ Origins

-----------------------------------------------------------------------------
(* From the evidence to the suspects.                                      *)

\* Every link is of a known module and a known confidence.
LEMMA LinksType ==
  ASSUME NEW e \in Evidence
  PROVE  AllLinks(e) \subseteq Modules \X Confidences
<1>1. DumpLinks(e) \subseteq Modules \X Confidences
  BY DEF DumpLinks, Modules, Confidences, Evidence, Kernel
<1>2. BootModules(e) \subseteq Modules
  BY DEF BootModules, Modules, Labels
<1>3. e.wer \subseteq Modules
  BY DEF Evidence, Modules
<1>4. QED
  BY <1>1, <1>2, <1>3 DEF AllLinks, Links, Modules, Labels, Confidences

\* What a suspect is, without its record being taken apart again.
LEMMA SuspectOf ==
  ASSUME NEW e
  PROVE  /\ \A s \in Suspects(e) :
              /\ s.module \in Modules
              /\ s.link = Confidence(AllLinks(e), s.module)
              /\ s.gate = Gate(s.module, s.link, e.sick)
              /\ s.catalog = "not_run"
              /\ s = [module |-> s.module, link |-> s.link, gate |-> s.gate,
                      catalog |-> s.catalog]
         /\ \A m \in Modules, c \in Confidences : <<m, c>> \in AllLinks(e) =>
              \E s \in Suspects(e) :
                s.module = m /\ s.link = Confidence(AllLinks(e), m)
<1>1. ASSUME NEW m \in Modules, NEW c \in Confidences, <<m, c>> \in AllLinks(e)
      PROVE  \E s \in Suspects(e) :
               s.module = m /\ s.link = Confidence(AllLinks(e), m)
  <2>1. [module  |-> m, link |-> Confidence(AllLinks(e), m),
         gate    |-> Gate(m, Confidence(AllLinks(e), m), e.sick),
         catalog |-> "not_run"] \in Suspects(e)
    BY <1>1 DEF Suspects
  <2>2. QED
    BY <2>1
<1>2. ASSUME NEW s \in Suspects(e)
      PROVE  /\ s.module \in Modules
             /\ s.link = Confidence(AllLinks(e), s.module)
             /\ s.gate = Gate(s.module, s.link, e.sick)
             /\ s.catalog = "not_run"
             /\ s = [module |-> s.module, link |-> s.link, gate |-> s.gate,
                     catalog |-> s.catalog]
  <2>1. PICK m \in Modules :
          s = [module  |-> m, link |-> Confidence(AllLinks(e), m),
               gate    |-> Gate(m, Confidence(AllLinks(e), m), e.sick),
               catalog |-> "not_run"]
    BY Zenon DEF Suspects
  <2>2. QED
    BY <2>1
<1>3. QED
  BY <1>1, <1>2

\* The suspects of an analysis have their type and no answer yet.
LEMMA SuspectsType ==
  ASSUME NEW e \in Evidence
  PROVE  /\ Suspects(e) \subseteq Suspect
         /\ \A s \in Suspects(e) : s.catalog = "not_run"
<1>1. \A m \in Modules : Confidence(AllLinks(e), m) \in Confidences
  BY DEF Confidence, Confidences
<1>2. ASSUME NEW m \in Modules, NEW c, NEW sick
      PROVE  Gate(m, c, sick) \in {"yes", "limited", "no"}
  <2>1. CASE DevicesOf[m] = <<>>
    BY <2>1 DEF Gate
  <2>2. CASE DevicesOf[m] # <<>> /\ c # "Speculative"
    BY <2>2 DEF Gate
  <2>3. CASE DevicesOf[m] # <<>> /\ c = "Speculative"
    BY <2>3 DEF Gate
  <2>4. QED
    BY <2>1, <2>2, <2>3
<1>3. ASSUME NEW s \in Suspects(e)
      PROVE  s \in Suspect /\ s.catalog = "not_run"
  <2>1. s.module \in Modules /\ s.catalog = "not_run"
        /\ s.link \in Confidences /\ s.gate \in {"yes", "limited", "no"}
    BY SuspectOf, <1>1, <1>2
  <2>2. s = [module |-> s.module, link |-> s.link, gate |-> s.gate,
             catalog |-> s.catalog]
    BY SuspectOf
  <2>3. QED
    BY <2>1, <2>2 DEF Suspect
<1>4. QED
  BY <1>3

\* A confirmed suspect has a matching dump's word, and the driver has one.
LEMMA SuspectsGrounded ==
  ASSUME NEW e \in Evidence
  PROVE  /\ \A s \in Suspects(e) : s.link = "Confirmed" =>
              Matches(e) /\ s.module \in {e.fault, e.recurring}
         /\ MainDriver(e) \in Drivers /\ ~e.raises => \E s \in Suspects(e) :
              s.module = MainDriver(e) /\ s.link = "Confirmed"
<1>1. \A m \in Modules : Confidence(AllLinks(e), m) = "Confirmed"
                           <=> <<m, "Confirmed">> \in AllLinks(e)
  BY DEF Confidence
<1>2. ASSUME NEW m
      PROVE  <<m, "Confirmed">> \in AllLinks(e)
               <=> Matches(e) /\ m \in {e.fault, e.recurring} \cap Drivers
  <2>1. <<m, "Confirmed">> \in DumpLinks(e) <=> m \in {e.fault, e.recurring} \cap Drivers
    BY DEF DumpLinks
  <2>2. <<m, "Confirmed">> \in Links(e)
          <=> Matches(e) /\ <<m, "Confirmed">> \in DumpLinks(e)
    BY DEF Links
  <2>3. QED
    BY <2>1, <2>2 DEF AllLinks
<1>3. ASSUME NEW s \in Suspects(e), s.link = "Confirmed"
      PROVE  Matches(e) /\ s.module \in {e.fault, e.recurring}
  <2>1. s.module \in Modules /\ Confidence(AllLinks(e), s.module) = "Confirmed"
    BY <1>3, SuspectOf, Zenon
  <2>2. <<s.module, "Confirmed">> \in AllLinks(e)
    BY <2>1, <1>1
  <2>3. QED
    BY <2>2, <1>2
<1>4. ASSUME MainDriver(e) \in Drivers, ~e.raises
      PROVE  \E s \in Suspects(e) : s.module = MainDriver(e) /\ s.link = "Confirmed"
  <2>1. Matches(e) /\ MainDriver(e) = e.fault
    BY <1>4 DEF MainDriver, Modules
  <2>2. MainDriver(e) \in Modules /\ <<MainDriver(e), "Confirmed">> \in AllLinks(e)
    BY <2>1, <1>2, <1>4 DEF Modules
  <2>3. \E s \in Suspects(e) :
           s.module = MainDriver(e) /\ s.link = Confidence(AllLinks(e), MainDriver(e))
    BY <2>2, SuspectOf, Zenon DEF Confidences
  <2>4. QED
    BY <2>2, <2>3, <1>1
<1>5. QED
  BY <1>3, <1>4

LEMMA VerifyType ==
  ASSUME NEW e \in Cases
  PROVE  /\ e \in Evidence /\ Verify(e) \in Verification
         /\ MainDriver(e) \in Modules \cup {None}
         /\ Verify(e).suspects = IF e.raises THEN {} ELSE Suspects(e)
         /\ \A s \in Verify(e).suspects : s.catalog = "not_run"
<1>1. e \in Evidence
  OBVIOUS
<1>2. Verify(e).suspects = (IF e.raises THEN {} ELSE Suspects(e)) /\ e.raises \in BOOLEAN
  BY <1>1 DEF Verify, Evidence
<1>3. Verify(e) \in Verification
  BY <1>1, <1>2, SuspectsType DEF Verify, Verification
<1>4. MainDriver(e) \in Modules \cup {None}
  BY <1>1 DEF MainDriver, Evidence, Modules
<1>5. QED
  BY <1>1, <1>2, <1>3, <1>4, SuspectsType

-----------------------------------------------------------------------------
(* What the answers of a search do to the suspects.                        *)

LEMMA StatusType ==
  ASSUME NEW a
  PROVE  Status(a) \in {"update_available", "current", "checked"}
  BY DEF Status

\* A suspect that is told of an answer keeps all but its answer.
LEMMA ToldType ==
  ASSUME NEW s \in Suspect, NEW rows
  PROVE  /\ Told(s, rows) \in Suspect
         /\ Told(s, rows).module = s.module
         /\ Told(s, rows).link = s.link
         /\ Told(s, rows).gate = s.gate
         /\ Told(s, rows).catalog =
              IF s.gate = "no" \/ Answered(s.module, rows) = {} THEN s.catalog
              ELSE Verdict(s.module, rows)
<1>1. Verdict(s.module, rows) \in {"update_available", "current", "checked"}
  BY StatusType DEF Verdict
<1>2. QED
  BY <1>1 DEF Told, Suspect

LEMMA MergedType ==
  ASSUME NEW ver \in Verification, NEW rows
  PROVE  Merged(ver, rows) \in Verification
<1>1. \A s \in ver.suspects : s \in Suspect
  BY DEF Verification
<1>2. {Told(s, rows) : s \in ver.suspects} \subseteq Suspect
  BY <1>1, ToldType
<1>3. QED
  BY <1>2 DEF Merged, Verification

\* No row loses its answer, and rows that were not searched keep theirs.
LEMMA RowsKept ==
  ASSUME TypeOK, job # None, NEW found \in Findings(job.names)
  PROVE  /\ NewRows(found) \in [Names -> RowStatus]
         /\ \A n \in Names : batch[n] # "none" => NewRows(found)[n] # "none"
         /\ \A n \in Names \ job.names : NewRows(found)[n] = batch[n]
<1>1. job.names \subseteq Names
  BY DEF TypeOK, Job
<1>2. \A n \in job.names : found[n] \in Answers[n] /\ n \in Names
  BY <1>1 DEF Findings
<1>3. \A n \in job.names : found[n] \in RowStatus /\ found[n] # "none"
  BY <1>2 DEF RowStatus
<1>4. batch \in [Names -> RowStatus]
  BY DEF TypeOK
<1>5. \A n \in Names : NewRows(found)[n] = IF n \in job.names THEN found[n] ELSE batch[n]
  BY DEF NewRows
<1>6. \A n \in Names : NewRows(found)[n] \in RowStatus
  BY <1>3, <1>4, <1>5
<1>7. NewRows(found) \in [Names -> RowStatus]
  BY <1>6, Zenon DEF NewRows
<1>8. QED
  BY <1>3, <1>5, <1>7

\* So a module with an answer keeps one.
LEMMA AnsweredGrows ==
  ASSUME TypeOK, job # None, NEW found \in Findings(job.names), NEW m \in Modules
  PROVE  Answered(m, batch) \subseteq Answered(m, NewRows(found))
<1>1. \A i \in DOMAIN DevicesOf[m] : DevicesOf[m][i] \in Names
  BY DEF Names
<1>2. \A n \in Names : batch[n] # "none" => NewRows(found)[n] # "none"
  BY RowsKept
<1>3. QED
  BY <1>1, <1>2 DEF Answered

\* A search for other devices does not change the verdict on a module.
LEMMA VerdictKept ==
  ASSUME TypeOK, job # None, NEW found \in Findings(job.names), NEW m \in Modules,
         job.names \cap Range(DevicesOf[m]) = {}
  PROVE  /\ Answered(m, NewRows(found)) = Answered(m, batch)
         /\ Answered(m, batch) # {} => Verdict(m, NewRows(found)) = Verdict(m, batch)
<1> DEFINE rows  == NewRows(found)
           Least(A) == CHOOSE i \in A : \A j \in A : i <= j
<1>1. ASSUME NEW i \in DOMAIN DevicesOf[m]
      PROVE  rows[DevicesOf[m][i]] = batch[DevicesOf[m][i]]
  <2>1. DevicesOf[m][i] \in Names \ job.names
    BY DEF Names, Range
  <2>2. QED
    BY <2>1, RowsKept
<1>2. Answered(m, rows) = Answered(m, batch)
  BY <1>1 DEF Answered
<1>3. ASSUME Answered(m, batch) # {}
      PROVE  Least(Answered(m, batch)) \in DOMAIN DevicesOf[m]
  <2>1. Answered(m, batch) \subseteq Nat
    BY DEF Answered
  <2>2. \E i \in Answered(m, batch) : \A j \in Answered(m, batch) : i <= j
    BY <1>3, <2>1, LeastNatural
  <2>3. Least(Answered(m, batch)) \in Answered(m, batch)
    BY <2>2
  <2>4. QED
    BY <2>3 DEF Answered
<1>4. ASSUME Answered(m, batch) # {}
      PROVE  Verdict(m, rows) = Verdict(m, batch)
  <2>1. rows[DevicesOf[m][Least(Answered(m, batch))]]
          = batch[DevicesOf[m][Least(Answered(m, batch))]]
    BY <1>1, <1>3, <1>4
  <2>2. QED
    BY <1>2, <2>1 DEF Verdict
<1>5. QED
  BY <1>2, <1>4

-----------------------------------------------------------------------------
(* What the three writers do to the three copies.                          *)

LEMMA FinishFacts ==
  ASSUME IInv, NEW e \in Cases, FinishAnalysis(e)
  PROVE  /\ model' \in Model /\ fmt' \in Run /\ report' = fmt'
         /\ model'.of = fmt'.of /\ model'.ver = fmt'.ver
         /\ model'.ver = Verify(e) /\ fmt'.case = e
         /\ model'.driver = MainDriver(e)
         /\ UNCHANGED <<batch, refresh>>
<1>1. e \in Evidence /\ Verify(e) \in Verification
      /\ MainDriver(e) \in Modules \cup {None} /\ runs \in Nat /\ e.raises \in BOOLEAN
  BY VerifyType DEF IInv, TypeOK, Evidence
<1>2. model' = [of |-> runs, ver |-> Verify(e), driver |-> MainDriver(e),
                shownOf |-> runs, story |-> ~e.raises]
      /\ fmt' = [of |-> runs, case |-> e, ver |-> Verify(e)]
      /\ report' = fmt' /\ batch' = batch /\ refresh' = refresh
  BY DEF FinishAnalysis
<1>3. model' \in Model /\ fmt' \in Run
  BY <1>1, <1>2 DEF Model, Run
<1>4. QED
  BY <1>2, <1>3

LEMMA RebuiltFacts ==
  ASSUME IInv, Rebuilt
  PROVE  /\ model # None /\ model' \in Model
         /\ model'.of = model.of /\ model'.ver = model.ver
         /\ model'.driver = model.driver
         /\ UNCHANGED <<fmt, batch>> /\ report' \in {fmt, report}
         /\ refresh' \in Thread
<1>1. model # None /\ model \in Model /\ refresh \in Thread
  BY DEF Rebuilt, IInv, TypeOK, Origins
<1>2. refresh' \in Thread
  BY <1>1 DEF Rebuilt, Thread
<1>3. refresh.fmt.of \in Nat /\ refresh.fmt.ver.story \in BOOLEAN
  BY <1>1 DEF Thread, Run, Verification
<1>4. model' \in Model /\ model'.of = model.of /\ model'.ver = model.ver
      /\ model'.driver = model.driver
  <2> DEFINE of    == refresh.fmt.of
             story == refresh.fmt.ver.story
  <2>1. of \in Nat /\ story \in BOOLEAN
    BY <1>3
  <2>2. model' = model \/ model' = [model EXCEPT !.shownOf = of, !.story = story]
    BY DEF Rebuilt
  <2> HIDE DEF of, story
  <2>3. QED
    BY <1>1, <2>1, <2>2 DEF Model
<1>5. QED
  BY <1>1, <1>2, <1>4 DEF Rebuilt

\* A search that is about the crash: every suspect is told of the new rows.
LEMMA MergeFacts ==
  ASSUME IInv, job # None, NEW found \in Findings(job.names),
         FinishSearch(found), job.live, job.names \cap CrashNames(model) # {}
  PROVE  /\ model # None /\ model.driver \in Drivers
         /\ model' \in Model /\ fmt' \in Run /\ report' = fmt'
         /\ model'.of = model.of /\ fmt'.of = fmt.of /\ model'.ver = fmt'.ver
         /\ model'.driver = model.driver /\ fmt'.case = fmt.case
         /\ model'.ver.suspects = {Told(s, NewRows(found)) : s \in model.ver.suspects}
         /\ batch' = NewRows(found)
<1>1. model # None /\ model \in Model /\ fmt \in Run /\ model.driver \in Drivers
  BY DEF CrashNames, IInv, TypeOK, ReportAgrees
<1>2. model' = [model EXCEPT !.ver = Merged(model.ver, NewRows(found))]
      /\ fmt' = [fmt EXCEPT !.ver = Merged(model.ver, NewRows(found))]
      /\ report' = fmt' /\ batch' = NewRows(found)
  BY DEF FinishSearch, Merge
<1>3. Merged(model.ver, NewRows(found)) \in Verification
  BY <1>1, MergedType DEF Model
<1>4. Merged(model.ver, NewRows(found)).suspects
        = {Told(s, NewRows(found)) : s \in model.ver.suspects}
  BY DEF Merged
<1>5. QED
  BY <1>1, <1>2, <1>3, <1>4 DEF Model, Run

\* Nobody else touches the copies or the rows.
LEMMA WritersOnly ==
  ASSUME [Next]_vars
  PROVE  \/ UNCHANGED <<model, fmt, report, batch>>
         \/ \E e \in Cases : FinishAnalysis(e)
         \/ Rebuilt
         \/ job # None /\ \E found \in Findings(job.names) : FinishSearch(found)
BY DEF Next, SummaryStep, vars, shown, tasks, StartAnalysis, FailAnalysis, Deferred,
       AutoTimer, Flush, FailSearch, LoadDevices, ManualSearch, StartRefresh,
       RebuildFails, CleanUp

-----------------------------------------------------------------------------
(* The devices the automatic search takes.                                 *)

Triples == Nat \X Nat \X Nat

LEMMA PlaceOfModule ==
  ASSUME NEW m \in Modules
  PROVE  PlaceOf(m) \in 1..Len(ModuleOrder) /\ ModuleOrder[PlaceOf(m)] = m
<1>1. DOMAIN ModuleOrder = 1..Len(ModuleOrder)
  OBVIOUS
<1>2. \E k \in DOMAIN ModuleOrder : ModuleOrder[k] = m
  BY Zenon DEF Range
<1>3. PlaceOf(m) \in DOMAIN ModuleOrder /\ ModuleOrder[PlaceOf(m)] = m
  BY <1>2, Zenon DEF PlaceOf
<1>4. QED
  BY <1>1, <1>3

\* A place is of a searchable suspect, and of one of its devices.
LEMMA PlaceOfDevice ==
  ASSUME NEW suspects \in SUBSET Suspect, NEW p \in Places(suspects)
  PROVE  /\ p \in Triples /\ DeviceAt(p) \in Devices
         /\ \E s \in suspects : /\ p[1] = Rank[s.link]
                                /\ DeviceAt(p) \in Range(DevicesOf[s.module])
<1>0. PICK s \in suspects : p \in PlacesOf(s)
  BY Zenon DEF Places
<1>1. PICK i \in DOMAIN DevicesOf[s.module] : p = <<Rank[s.link], PlaceOf(s.module), i>>
  BY <1>0 DEF PlacesOf
<1>2. s.module \in Modules /\ s.link \in Confidences
  BY DEF Suspect
<1>3. PlaceOf(s.module) \in Nat /\ ModuleOrder[PlaceOf(s.module)] = s.module
  BY <1>2, PlaceOfModule, SMTT(30)
<1>4. DevicesOf[s.module] \in Seq(Devices)
  BY <1>2
<1>5. i \in Nat /\ DevicesOf[s.module][i] \in Devices
  BY <1>4
<1>6. Rank[s.link] \in Nat
  BY <1>2 DEF Rank, Confidences
<1>7. DeviceAt(p) = DevicesOf[s.module][i]
  BY <1>1, <1>3 DEF DeviceAt
<1>8. p \in Triples /\ p[1] = Rank[s.link]
  BY <1>1, <1>3, <1>5, <1>6 DEF Triples
<1>9. DeviceAt(p) \in Range(DevicesOf[s.module])
  BY <1>7, Zenon DEF Range
<1>10. QED
  BY <1>5, <1>7, <1>8, <1>9

LEMMA DeviceHasPlace ==
  ASSUME NEW suspects \in SUBSET Suspect, NEW s \in suspects, s.gate # "no",
         NEW d \in Range(DevicesOf[s.module])
  PROVE  \E p \in Places(suspects) : p[1] = Rank[s.link] /\ DeviceAt(p) = d
<1>1. PICK i \in DOMAIN DevicesOf[s.module] : d = DevicesOf[s.module][i]
  BY Zenon DEF Range
<1>2. ModuleOrder[PlaceOf(s.module)] = s.module
  BY PlaceOfModule DEF Suspect
<1> DEFINE p == <<Rank[s.link], PlaceOf(s.module), i>>
<1>3. p \in Places(suspects)
  <2>1. p \in PlacesOf(s)
    BY DEF PlacesOf
  <2> HIDE DEF p
  <2>2. QED
    BY <2>1 DEF Places
<1>4. p[1] = Rank[s.link] /\ DeviceAt(p) = d
  BY <1>1, <1>2 DEF DeviceAt
<1>5. QED
  BY <1>3, <1>4, Zenon

LEMMA PlacesOrdered ==
  ASSUME NEW p \in Triples, NEW q \in Triples
  PROVE  /\ p = q \/ Before(p, q) \/ Before(q, p)
         /\ ~(Before(p, q) /\ Before(q, p)) /\ ~Before(p, p)
         /\ \A r \in Triples : Before(p, q) /\ Before(q, r) => Before(p, r)
<1>1. /\ p[1] \in Nat /\ p[2] \in Nat /\ p[3] \in Nat /\ p = <<p[1], p[2], p[3]>>
      /\ q[1] \in Nat /\ q[2] \in Nat /\ q[3] \in Nat /\ q = <<q[1], q[2], q[3]>>
  BY DEF Triples
<1>2. \A r \in Triples : r[1] \in Nat /\ r[2] \in Nat /\ r[3] \in Nat
  BY DEF Triples
<1>3. p = q \/ Before(p, q) \/ Before(q, p)
  BY <1>1 DEF Before
<1>4. ~(Before(p, q) /\ Before(q, p)) /\ ~Before(p, p)
  BY <1>1 DEF Before
<1>5. \A r \in Triples : Before(p, q) /\ Before(q, r) => Before(p, r)
  BY <1>1, <1>2 DEF Before
<1>6. QED
  BY <1>3, <1>4, <1>5

LEMMA LeastPlace ==
  ASSUME NEW T, T \subseteq Triples, T # {}
  PROVE  \E p \in T : \A q \in T : ~Before(q, p)
<1>0. \A p \in T : p[1] \in Nat /\ p[2] \in Nat /\ p[3] \in Nat
  BY DEF Triples
<1> DEFINE A == {p[1] : p \in T}
<1>1. PICK a \in A : \A m \in A : a <= m
  <2>1. A \subseteq Nat /\ A # {}
    BY <1>0
  <2>2. QED
    BY <2>1, LeastNatural
<1> DEFINE B == {p[2] : p \in {q \in T : q[1] = a}}
<1>2. PICK b \in B : \A m \in B : b <= m
  <2>1. B \subseteq Nat /\ B # {}
    BY <1>0
  <2>2. QED
    BY <2>1, LeastNatural
<1> DEFINE C == {p[3] : p \in {q \in T : q[1] = a /\ q[2] = b}}
<1>3. PICK c \in C : \A m \in C : c <= m
  <2>1. C \subseteq Nat /\ C # {}
    BY <1>0
  <2>2. QED
    BY <2>1, LeastNatural
<1>4. PICK p \in T : p[1] = a /\ p[2] = b /\ p[3] = c
  OBVIOUS
<1>5. ASSUME NEW q \in T, Before(q, p) PROVE FALSE
  <2>1. a <= q[1]
    BY <1>1
  <2>2. q[1] = a => b <= q[2]
    BY <1>2
  <2>3. q[1] = a /\ q[2] = b => c <= q[3]
    BY <1>3
  <2>4. a \in Nat /\ b \in Nat /\ c \in Nat
    BY <1>0, <1>4
  <2> HIDE DEF A, B, C
  <2>5. QED
    BY <1>0, <1>4, <1>5, <2>1, <2>2, <2>3, <2>4 DEF Before
<1>6. QED
  BY <1>5

LEMMA FirstsDiffer ==
  ASSUME NEW P, P \subseteq Triples, NEW f \in Firsts(P), NEW g \in Firsts(P),
         DeviceAt(f) = DeviceAt(g)
  PROVE  f = g
<1>1. f \in P /\ g \in P /\ ~Before(f, g) /\ ~Before(g, f)
  BY Zenon DEF Firsts
<1>2. QED
  BY <1>1, PlacesOrdered

LEMMA FirstPlace ==
  ASSUME NEW P, P \subseteq Triples, NEW p \in P
  PROVE  \E f \in Firsts(P) : DeviceAt(f) = DeviceAt(p) /\ ~Before(p, f)
<1> DEFINE T == {q \in P : DeviceAt(q) = DeviceAt(p)}
<1>1. PICK f \in T : \A q \in T : ~Before(q, f)
  <2>1. T \subseteq Triples /\ T # {}
    OBVIOUS
  <2> HIDE DEF T
  <2>2. QED
    BY <2>1, LeastPlace, Zenon
<1>2. f \in Firsts(P)
  BY <1>1, Zenon DEF Firsts
<1>3. QED
  BY <1>1, <1>2

LEMMA AutoNamesDevices ==
  ASSUME NEW suspects \in SUBSET Suspect
  PROVE  /\ Places(suspects) \subseteq Triples
         /\ AutoNames(suspects) \subseteq Devices
         /\ IsFiniteSet(AutoNames(suspects))
         /\ IsFiniteSet(Firsts(Places(suspects)))
<1> DEFINE P == Places(suspects)
<1>1. P \subseteq Triples /\ \A p \in P : DeviceAt(p) \in Devices
  BY PlaceOfDevice
<1>2. Firsts(P) \subseteq P /\ Taken(P) \subseteq P
  BY Zenon DEF Firsts, Taken
<1>3. AutoNames(suspects) \subseteq Devices
  BY <1>1, <1>2, Zenon DEF AutoNames
<1> DEFINE D == [f \in Firsts(P) |-> DeviceAt(f)]
<1>4. D \in Injection(Firsts(P), Devices)
  <2>1. D \in [Firsts(P) -> Devices]
    BY <1>1, <1>2
  <2>2. \A f, g \in Firsts(P) : D[f] = D[g] => f = g
    BY <1>1, FirstsDiffer
  <2>3. QED
    BY <2>1, <2>2, Zenon DEF Injection, IsInjective
<1>5. IsFiniteSet(Firsts(P))
  BY <1>4, FS_Injection
<1>6. IsFiniteSet(AutoNames(suspects))
  BY <1>3, FS_Subset
<1>7. QED
  BY <1>1, <1>3, <1>5, <1>6

\* A first place that is not taken comes after MaxNames that are, all of
\* different devices.
LEMMA TakenInOrder ==
  ASSUME NEW suspects \in SUBSET Suspect, NEW p \in Firsts(Places(suspects)),
         p \notin Taken(Places(suspects))
  PROVE  /\ Cardinality(AutoNames(suspects)) >= MaxNames
         /\ \A t \in Taken(Places(suspects)) : Before(t, p)
<1> DEFINE P == Places(suspects)
<1> DEFINE F == Firsts(P)
<1>1. /\ P \subseteq Triples /\ F \subseteq P /\ IsFiniteSet(F)
      /\ AutoNames(suspects) \subseteq Devices /\ IsFiniteSet(AutoNames(suspects))
  BY AutoNamesDevices DEF Firsts
<1>2. \A q \in F : Ahead(P, q) \subseteq F /\ IsFiniteSet(Ahead(P, q))
  <2>1. \A q \in F : Ahead(P, q) \in SUBSET F
    BY Zenon DEF Ahead
  <2>2. QED
    BY <1>1, <2>1, FS_Subset
<1>3. \A q \in F : Cardinality(Ahead(P, q)) \in Nat
  BY <1>2, FS_CardinalityType
<1>4. MaxNames \in Nat
  OBVIOUS
<1> DEFINE Late == {q \in F : q \notin Taken(P)}
<1>5. \A q \in F : q \in Late <=> Cardinality(Ahead(P, q)) >= MaxNames
  BY <1>3, <1>4 DEF Taken
<1>6. Cardinality(AutoNames(suspects)) >= MaxNames
  <2>1. PICK l \in Late : \A q \in Late : ~Before(q, l)
    <3>1. Late \subseteq Triples /\ Late # {}
      BY <1>1
    <3> HIDE DEF Late
    <3>2. QED
      BY <3>1, LeastPlace, Zenon
  <2>2. Ahead(P, l) \subseteq Taken(P)
    <3>1. ASSUME NEW q \in Ahead(P, l) PROVE q \in Taken(P)
      <4>1. q \in F /\ Before(q, l)
        BY DEF Ahead
      <4>2. QED
        BY <2>1, <4>1
    <3>2. QED
      BY <3>1
  <2> DEFINE A == Ahead(P, l)
  <2> DEFINE D == [q \in A |-> DeviceAt(q)]
  <2>3. D \in Injection(A, AutoNames(suspects))
    <3>1. D \in [A -> AutoNames(suspects)]
      BY <2>2, Zenon DEF AutoNames
    <3>2. A \subseteq F
      BY <1>2
    <3>3. \A f, g \in A : D[f] = D[g] => f = g
      BY <1>1, <3>2, FirstsDiffer
    <3>4. QED
      BY <3>1, <3>3, Zenon DEF Injection, IsInjective
  <2>4. Cardinality(A) <= Cardinality(AutoNames(suspects))
    BY <1>1, <2>3, FS_Injection
  <2>5. Cardinality(AutoNames(suspects)) \in Nat
    BY <1>1, FS_CardinalityType
  <2>6. Cardinality(A) \in Nat /\ Cardinality(A) >= MaxNames
    BY <1>3, <1>5, <2>1
  <2> HIDE DEF A
  <2>7. QED
    BY <1>4, <2>4, <2>5, <2>6
<1>7. ASSUME NEW t \in Taken(P), ~Before(t, p) PROVE FALSE
  <2>1. t \in F /\ Cardinality(Ahead(P, t)) < MaxNames
    BY DEF Taken
  <2>2. t = p \/ Before(p, t)
    BY <1>1, <1>7, <2>1, PlacesOrdered
  <2>3. Ahead(P, p) \in SUBSET Ahead(P, t)
    <3>1. ASSUME NEW q \in Ahead(P, p) PROVE q \in Ahead(P, t)
      <4>1. q \in F /\ Before(q, p)
        BY DEF Ahead
      <4>2. q \in Triples /\ p \in Triples /\ t \in Triples
        BY <1>1, <2>1, <4>1
      <4>3. Before(q, t)
        BY <2>2, <4>1, <4>2, PlacesOrdered
      <4>4. QED
        BY <4>1, <4>3 DEF Ahead
    <3>2. QED
      BY <3>1
  <2>4. Cardinality(Ahead(P, p)) <= Cardinality(Ahead(P, t))
    BY <1>2, <2>1, <2>3, FS_Subset
  <2>5. Cardinality(Ahead(P, p)) >= MaxNames
    BY <1>5
  <2>6. QED
    BY <1>3, <1>4, <2>1, <2>4, <2>5
<1>8. QED
  BY <1>6, <1>7

-----------------------------------------------------------------------------
(* Every step keeps the types.                                             *)

LEMMA TypeStep ==
  ASSUME IInv, [Next]_vars
  PROVE  TypeOK'
<1> USE DEF TypeOK, shown, tasks
<1>1. CASE UNCHANGED vars
  BY <1>1 DEF vars, IInv
<1>2. CASE StartAnalysis
  <2>1. job' \in Job \cup {None}
    BY <1>2 DEF StartAnalysis, IInv, Job
  <2>2. refresh' \in Thread \cup {None}
    BY <1>2 DEF StartAnalysis, IInv, Thread
  <2>3. QED
    BY <1>2, <2>1, <2>2 DEF StartAnalysis, IInv
<1>3. CASE FailAnalysis
  BY <1>3 DEF FailAnalysis, IInv
<1>4. CASE Deferred
  <2>1. deferred = runs => model.ver.suspects \subseteq Suspect
    BY <1>4 DEF Deferred, IInv, Origins, Model, Verification
  <2>2. QED
    BY <1>4, <2>1 DEF Deferred, IInv
<1>5. ASSUME NEW e \in Cases, FinishAnalysis(e) PROVE TypeOK'
  BY <1>5, FinishFacts DEF FinishAnalysis, IInv
<1>6. ASSUME NEW names \in SUBSET Names, Search(names)
      PROVE  job' \in Job
  BY <1>6 DEF Search, Job
<1>7. ASSUME NEW suspects \in SUBSET Suspect, SearchOrWait(AutoNames(suspects))
      PROVE  job' \in Job \cup {None} /\ pending' \in BOOLEAN
  <2>1. AutoNames(suspects) \in SUBSET Names
    BY AutoNamesDevices DEF Names
  <2>2. QED
    BY <1>6, <1>7, <2>1 DEF SearchOrWait, IInv
<1>8. CASE AutoTimer
  BY <1>7, <1>8 DEF AutoTimer, IInv
<1>9. CASE Flush
  <2>1. model # None
    BY <1>9 DEF Flush, IInv, Origins
  <2>2. model.ver.suspects \in SUBSET Suspect
    BY <2>1 DEF IInv, Model, Verification
  <2>3. QED
    BY <1>7, <1>9, <2>2 DEF Flush, IInv
<1>10. CASE FailSearch
  BY <1>10 DEF FailSearch, IInv
<1>11. CASE LoadDevices
  BY <1>11 DEF LoadDevices, IInv
<1>12. ASSUME NEW names \in Picks, ManualSearch(names) PROVE TypeOK'
  BY <1>6, <1>12 DEF ManualSearch, IInv
<1>13. ASSUME job # None, NEW found \in Findings(job.names), FinishSearch(found)
       PROVE  TypeOK'
  <2>1. NewRows(found) \in [Names -> RowStatus]
    BY <1>13, RowsKept DEF IInv
  <2>2. CASE ~job.live \/ job.names \cap CrashNames(model) = {}
    BY <1>13, <2>1, <2>2 DEF FinishSearch, IInv
  <2>3. CASE job.live /\ job.names \cap CrashNames(model) # {}
    <3>1. model' \in Model /\ fmt' \in Run /\ report' = fmt'
      BY <1>13, <2>3, MergeFacts
    <3>2. QED
      BY <1>13, <2>1, <2>3, <3>1 DEF FinishSearch, IInv
  <2>4. QED
    BY <2>2, <2>3
<1>14. ASSUME NEW t \in {"timer", "redo"}, StartRefresh(t) PROVE TypeOK'
  <2>1. model # None => fmt \in Run
    BY DEF IInv, ReportAgrees
  <2>2. QED
    BY <1>14, <2>1 DEF StartRefresh, IInv, Thread
<1>15. CASE Rebuilt
  BY <1>15, RebuiltFacts DEF Rebuilt, IInv
<1>16. CASE RebuildFails
  BY <1>16 DEF RebuildFails, IInv, Thread
<1>17. CASE CleanUp
  BY <1>17 DEF CleanUp, IInv
<1>18. QED
  BY <1>1, <1>2, <1>3, <1>4, <1>5, <1>8, <1>9, <1>10, <1>11, <1>12, <1>13,
     <1>14, <1>15, <1>16, <1>17 DEF Next, SummaryStep

-----------------------------------------------------------------------------
(* Every step keeps what the copies say.                                   *)

LEMMA AgreesStep ==
  ASSUME IInv, [Next]_vars
  PROVE  ReportAgrees'
<1>1. CASE UNCHANGED <<model, fmt, report, batch>>
  BY <1>1 DEF ReportAgrees, IInv
<1>2. ASSUME NEW e \in Cases, FinishAnalysis(e) PROVE ReportAgrees'
  BY <1>2, FinishFacts DEF ReportAgrees
<1>3. CASE Rebuilt
  <2>1. model' # None
    BY <1>3, RebuiltFacts
  <2>2. QED
    BY <1>3, <2>1, RebuiltFacts DEF ReportAgrees, IInv
<1>4. ASSUME job # None, NEW found \in Findings(job.names), FinishSearch(found)
      PROVE  ReportAgrees'
  <2>1. CASE ~job.live \/ job.names \cap CrashNames(model) = {}
    BY <1>4, <2>1 DEF FinishSearch, shown, ReportAgrees, IInv
  <2>2. CASE job.live /\ job.names \cap CrashNames(model) # {}
    <3>1. model' # None /\ fmt' # None
      BY <1>4, <2>2, MergeFacts
    <3>2. fmt'.of = model'.of /\ fmt'.ver = model'.ver /\ report' = fmt'
      BY <1>4, <2>2, MergeFacts DEF ReportAgrees, IInv
    <3>3. QED
      BY <3>1, <3>2 DEF ReportAgrees
  <2>3. QED
    BY <2>1, <2>2
<1>5. QED
  BY <1>1, <1>2, <1>3, <1>4, WritersOnly

\* An answer in the report came with a row, and rows are never lost.
LEMMA CurrentStep ==
  ASSUME IInv, [Next]_vars
  PROVE  MainSuspectCurrent'
<1>1. CASE UNCHANGED <<model, fmt, report, batch>>
  BY <1>1 DEF MainSuspectCurrent, IInv
<1>2. ASSUME NEW e \in Cases, FinishAnalysis(e) PROVE MainSuspectCurrent'
  <2>1. \A s \in model'.ver.suspects : s.catalog = "not_run"
    BY <1>2, FinishFacts, VerifyType
  <2>2. QED
    BY <2>1 DEF MainSuspectCurrent
<1>3. CASE Rebuilt
  <2>1. /\ model # None /\ model'.ver = model.ver /\ model'.driver = model.driver
        /\ batch' = batch
    BY <1>3, RebuiltFacts
  <2>2. QED
    BY <2>1 DEF MainSuspectCurrent, IInv
<1>4. ASSUME job # None, NEW found \in Findings(job.names), FinishSearch(found)
      PROVE  MainSuspectCurrent'
  <2> DEFINE rows == NewRows(found)
  <2>1. CASE ~job.live
    <3>1. model' = model /\ batch' = batch
      BY <1>4, <2>1 DEF FinishSearch, shown
    <3>2. QED
      BY <3>1 DEF MainSuspectCurrent, IInv
  <2>2. CASE job.live /\ job.names \cap CrashNames(model) = {}
    <3>1. model' = model /\ batch' = rows
      BY <1>4, <2>2 DEF FinishSearch, shown
    <3>2. ASSUME model # None, NEW s \in model.ver.suspects, s.catalog # "not_run"
          PROVE  /\ s.gate # "no" /\ Answered(s.module, rows) # {}
                 /\ s.module = model.driver => s.catalog = Verdict(s.module, rows)
      <4>1. s.module \in Modules
        BY <3>2 DEF IInv, TypeOK, Model, Verification, Suspect
      <4>2. /\ s.gate # "no" /\ Answered(s.module, batch) # {}
            /\ s.module = model.driver => s.catalog = Verdict(s.module, batch)
        BY <3>2 DEF IInv, MainSuspectCurrent
      <4>3. Answered(s.module, rows) # {}
        BY <1>4, <4>1, <4>2, AnsweredGrows DEF IInv
      <4>4. ASSUME s.module = model.driver
            PROVE  s.catalog = Verdict(s.module, rows)
        <5>1. job.names \cap Range(DevicesOf[s.module]) = {}
          BY <2>2, <3>2, <4>4 DEF CrashNames, IInv, Origins
        <5>2. Verdict(s.module, rows) = Verdict(s.module, batch)
          BY <1>4, <4>1, <4>2, <5>1, VerdictKept DEF IInv
        <5>3. QED
          BY <4>2, <4>4, <5>2
      <4>5. QED
        BY <4>2, <4>3, <4>4
    <3>3. QED
      BY <3>1, <3>2, ZenonT(60) DEF MainSuspectCurrent, Answered, Verdict
  <2>3. CASE job.live /\ job.names \cap CrashNames(model) # {}
    <3>1. model # None /\ batch' = rows /\ model'.driver = model.driver
          /\ model'.ver.suspects = {Told(s, rows) : s \in model.ver.suspects}
      BY <1>4, <2>3, MergeFacts
    <3>2. ASSUME NEW s \in model.ver.suspects, Told(s, rows).catalog # "not_run"
          PROVE  /\ Told(s, rows).gate # "no"
                 /\ Answered(Told(s, rows).module, rows) # {}
                 /\ Told(s, rows).catalog = Verdict(Told(s, rows).module, rows)
      <4>1. s \in Suspect /\ s.module \in Modules
        BY <3>1 DEF IInv, TypeOK, Model, Verification, Suspect
      <4>2. /\ Told(s, rows).module = s.module /\ Told(s, rows).gate = s.gate
            /\ Told(s, rows).catalog =
                 IF s.gate = "no" \/ Answered(s.module, rows) = {} THEN s.catalog
                 ELSE Verdict(s.module, rows)
        BY <4>1, ToldType
      <4>3. s.catalog # "not_run" => s.gate # "no" /\ Answered(s.module, batch) # {}
        BY <3>1 DEF IInv, MainSuspectCurrent
      <4>4. Answered(s.module, batch) \subseteq Answered(s.module, rows)
        BY <1>4, <4>1, AnsweredGrows DEF IInv
      <4>5. s.gate # "no" /\ Answered(s.module, rows) # {}
        BY <3>2, <4>2, <4>3, <4>4
      <4>6. QED
        BY <4>2, <4>5
    <3>3. ASSUME NEW t \in model'.ver.suspects, t.catalog # "not_run"
          PROVE  /\ t.gate # "no" /\ Answered(t.module, rows) # {}
                 /\ t.catalog = Verdict(t.module, rows)
      BY <3>1, <3>2, <3>3, Zenon
    <3>4. QED
      BY <3>1, <3>3, ZenonT(60) DEF MainSuspectCurrent, Answered, Verdict
  <2>4. QED
    BY <2>1, <2>2, <2>3
<1>5. QED
  BY <1>1, <1>2, <1>3, <1>4, WritersOnly

LEMMA GroundedStep ==
  ASSUME IInv, [Next]_vars
  PROVE  BlameIsGrounded'
<1>1. CASE UNCHANGED <<model, fmt, report, batch>>
  BY <1>1 DEF BlameIsGrounded, IInv
<1>2. ASSUME NEW e \in Cases, FinishAnalysis(e) PROVE BlameIsGrounded'
  <2>1. /\ model'.ver.suspects = IF e.raises THEN {} ELSE Suspects(e)
        /\ fmt'.case = e /\ model'.driver = MainDriver(e) /\ e \in Evidence
    BY <1>2, FinishFacts, VerifyType
  <2>2. CASE e.raises
    BY <2>1, <2>2 DEF BlameIsGrounded
  <2>3. CASE ~e.raises
    BY <2>1, <2>3, SuspectsGrounded DEF BlameIsGrounded
  <2>4. QED
    BY <2>2, <2>3
<1>3. CASE Rebuilt
  BY <1>3, RebuiltFacts DEF BlameIsGrounded, IInv
<1>4. ASSUME job # None, NEW found \in Findings(job.names), FinishSearch(found)
      PROVE  BlameIsGrounded'
  <2>1. CASE ~job.live \/ job.names \cap CrashNames(model) = {}
    BY <1>4, <2>1 DEF FinishSearch, shown, BlameIsGrounded, IInv
  <2>2. CASE job.live /\ job.names \cap CrashNames(model) # {}
    <3>1. model # None /\ model'.driver = model.driver /\ fmt'.case = fmt.case
          /\ model'.ver.suspects
               = {Told(s, NewRows(found)) : s \in model.ver.suspects}
      BY <1>4, <2>2, MergeFacts
    <3>2. \A s \in model.ver.suspects :
            /\ Told(s, NewRows(found)).module = s.module
            /\ Told(s, NewRows(found)).link = s.link
      BY <3>1, ToldType DEF IInv, TypeOK, Model, Verification
    <3>3. \A t \in model'.ver.suspects : \E s \in model.ver.suspects :
            t.module = s.module /\ t.link = s.link
      BY <3>1, <3>2
    <3>4. \A s \in model.ver.suspects : \E t \in model'.ver.suspects :
            t.module = s.module /\ t.link = s.link
      <4>1. \A s \in model.ver.suspects : Told(s, NewRows(found)) \in model'.ver.suspects
        BY <3>1
      <4>2. QED
        BY <3>2, <4>1
    <3>5. QED
      <4>1. (\A s \in model.ver.suspects : s.link = "Confirmed" =>
               Matches(fmt.case) /\ s.module \in {fmt.case.fault, fmt.case.recurring})
            /\ (model.driver \in Drivers /\ model.ver.suspects # {} => \E s \in model.ver.suspects :
                  s.module = model.driver /\ s.link = "Confirmed")
        BY <3>1 DEF BlameIsGrounded, IInv
      <4>2. \A t \in model'.ver.suspects : t.link = "Confirmed" =>
              Matches(fmt.case) /\ t.module \in {fmt.case.fault, fmt.case.recurring}
        BY <3>3, <4>1
      <4>3. model.driver \in Drivers /\ model'.ver.suspects # {} => \E t \in model'.ver.suspects :
              t.module = model.driver /\ t.link = "Confirmed"
        BY <3>3, <3>4, <4>1
      <4>4. QED
        BY <3>1, <4>2, <4>3 DEF BlameIsGrounded
  <2>3. QED
    BY <2>1, <2>2
<1>5. QED
  BY <1>1, <1>2, <1>3, <1>4, WritersOnly

LEMMA OriginsStep ==
  ASSUME IInv, [Next]_vars
  PROVE  Origins'
<1>1. ((deferred # 0 \/ auto # None \/ pending \/ refresh # None) => model # None)'
  <2>1. ASSUME NEW e \in Cases, FinishAnalysis(e) PROVE model' # None
    BY <2>1, FinishFacts
  <2>2. ASSUME Rebuilt PROVE model' # None
    BY <2>2, RebuiltFacts
  <2>3. ASSUME job # None, NEW found \in Findings(job.names), FinishSearch(found)
        PROVE  (deferred # 0 \/ auto # None \/ pending \/ refresh # None => model # None)'
    <3>1. CASE ~job.live \/ job.names \cap CrashNames(model) = {}
      BY <2>3, <3>1 DEF FinishSearch, shown, tasks, Origins, IInv
    <3>2. CASE job.live /\ job.names \cap CrashNames(model) # {}
      BY <2>3, <3>2, MergeFacts
    <3>3. QED
      BY <3>1, <3>2
  <2>4. ASSUME ~(\E e \in Cases : FinishAnalysis(e)), ~Rebuilt,
               ~(job # None /\ \E found \in Findings(job.names) : FinishSearch(found))
        PROVE  (deferred # 0 \/ auto # None \/ pending \/ refresh # None => model # None)'
    BY <2>4 DEF IInv, Origins, Next, SummaryStep, vars, shown, tasks, StartAnalysis,
       FailAnalysis, Deferred, AutoTimer, Flush, SearchOrWait, FailSearch, LoadDevices,
       ManualSearch, StartRefresh, RebuildFails, CleanUp
  <2>5. QED
    BY <2>1, <2>2, <2>3, <2>4
<1>2. (model # None => \A s \in model.ver.suspects :
         s.catalog # "not_run" => model.driver \in Drivers)'
  <2>1. CASE UNCHANGED <<model, fmt, report, batch>>
    BY <2>1 DEF Origins, IInv
  <2>2. ASSUME NEW e \in Cases, FinishAnalysis(e)
        PROVE  \A s \in model'.ver.suspects : s.catalog = "not_run"
    BY <2>2, FinishFacts, VerifyType
  <2>3. CASE Rebuilt
    BY <2>3, RebuiltFacts DEF Origins, IInv
  <2>4. ASSUME job # None, NEW found \in Findings(job.names), FinishSearch(found)
        PROVE  model' = model \/ model'.driver \in Drivers
    <3>1. CASE ~job.live \/ job.names \cap CrashNames(model) = {}
      BY <2>4, <3>1 DEF FinishSearch, shown
    <3>2. CASE job.live /\ job.names \cap CrashNames(model) # {}
      BY <2>4, <3>2, MergeFacts
    <3>3. QED
      BY <3>1, <3>2
  <2>5. QED
    BY <2>1, <2>2, <2>3, <2>4, WritersOnly DEF Origins, IInv
<1>3. QED
  BY <1>1, <1>2 DEF Origins

-----------------------------------------------------------------------------
(* The theorems.                                                           *)

LEMMA InitIInv == Init => IInv
<1> SUFFICES ASSUME Init PROVE IInv
  OBVIOUS
<1>1. \A n \in Names : batch[n] = "none"
  BY DEF Init
<1>2. TypeOK
  BY DEF Init, TypeOK, RowStatus
<1>3. QED
  BY <1>2 DEF Init, IInv, ReportAgrees, MainSuspectCurrent, BlameIsGrounded, Origins

LEMMA NextIInv == IInv /\ [Next]_vars => IInv'
BY TypeStep, AgreesStep, CurrentStep, GroundedStep, OriginsStep DEF IInv

LEMMA Invariance == Spec => []IInv
BY InitIInv, NextIInv, PTL DEF Spec

\* The copies of an analysis' outcome keep their types, and all rows their
\* answers, in every order of analyses, rebuilds and searches.
THEOREM TypeCorrect == Spec => []TypeOK
BY Invariance, PTL DEF IInv

\* _last_model, _last_fmt_args and _full_report never tell of different
\* suspects or different analyses.
THEOREM ReportsAgree == Spec => []ReportAgrees
BY Invariance, PTL DEF IInv

\* What the report says the catalog has for the driver it blames is the
\* newest answer there is.
THEOREM MainSuspectIsCurrent == Spec => []MainSuspectCurrent
BY Invariance, PTL DEF IInv

\* Whatever the evidence is, a suspect is confirmed only while the newest dump
\* is of the crash, and where there are suspects the driver that is named is a
\* confirmed one of them; the answers of the catalog never change it.
THEOREM BlameGrounded == Spec => []BlameIsGrounded
BY Invariance, PTL DEF IInv

LEMMA NamesInOrder ==
  ASSUME NEW suspects \in SUBSET Suspect, NEW s \in suspects,
         s.gate # "no", s.link = "Confirmed",
         ~(Range(DevicesOf[s.module]) \subseteq AutoNames(suspects))
  PROVE  /\ Cardinality(AutoNames(suspects)) >= MaxNames
         /\ \A n \in AutoNames(suspects) :
              \E c \in suspects : /\ c.link = "Confirmed"
                                  /\ n \in Range(DevicesOf[c.module])
<1> DEFINE P == Places(suspects)
<1>1. P \subseteq Triples /\ Firsts(P) \subseteq P /\ Taken(P) \subseteq P
  <2>1. Firsts(P) \subseteq P /\ Taken(P) \subseteq P
    BY Zenon DEF Firsts, Taken
  <2>2. QED
    BY <2>1, AutoNamesDevices
<1>2. PICK d \in Range(DevicesOf[s.module]) : d \notin AutoNames(suspects)
  OBVIOUS
<1>3. PICK p \in P : p[1] = Rank[s.link] /\ DeviceAt(p) = d
  <2>1. \A e \in Range(DevicesOf[s.module]) :
          \E p \in Places(suspects) : p[1] = Rank[s.link] /\ DeviceAt(p) = e
    <3> HIDE CrashAssumption, NoneAssumption DEF P
    <3>1. QED
      BY DeviceHasPlace
  <2>2. QED
    BY <2>1
<1>4. PICK f \in Firsts(P) : DeviceAt(f) = d /\ ~Before(p, f)
  BY <1>1, <1>3, FirstPlace
<1>5. f \notin Taken(P)
  BY <1>2, <1>4, Zenon DEF AutoNames
<1>6. f[1] <= 0
  <2>1. p[1] = 0 /\ f[1] \in Nat
    BY <1>1, <1>3, <1>4 DEF Rank, Triples
  <2>2. QED
    BY <1>4, <2>1 DEF Before
<1>7. ASSUME NEW n \in AutoNames(suspects)
      PROVE  \E c \in suspects : c.link = "Confirmed" /\ n \in Range(DevicesOf[c.module])
  <2>1. PICK t \in Taken(P) : n = DeviceAt(t)
    BY Zenon DEF AutoNames
  <2>2. Before(t, f)
    BY <1>4, <1>5, <2>1, TakenInOrder
  <2>3. PICK c \in suspects : t[1] = Rank[c.link] /\ n \in Range(DevicesOf[c.module])
    BY <1>1, <2>1, PlaceOfDevice
  <2>4. t[1] \in Nat /\ f[1] \in Nat /\ c.link \in Confidences
    BY <1>1, <1>4, <2>1, <2>3 DEF Triples, Suspect
  <2>5. t[1] <= 0
    BY <1>6, <2>2, <2>4 DEF Before
  <2>6. c.link = "Confirmed"
    BY <2>3, <2>4, <2>5 DEF Rank, Confidences
  <2>7. QED
    BY <2>3, <2>6
<1>8. Cardinality(AutoNames(suspects)) >= MaxNames
  BY <1>4, <1>5, TakenInOrder
<1>9. QED
  BY <1>7, <1>8

\* What ConfirmedFirst says of a step.
Promise ==
  auto # None /\ auto' = None /\ job' # job =>
    \A s \in auto : s.gate # "no" /\ s.link = "Confirmed" =>
      \/ Range(DevicesOf[s.module]) \subseteq job'.names
      \/ /\ Cardinality(job'.names) >= MaxNames
         /\ \A n \in job'.names \ Primary :
              \E c \in auto : /\ c.link = "Confirmed"
                              /\ n \in Range(DevicesOf[c.module])

LEMMA PromiseStep ==
  ASSUME IInv, [Next]_vars
  PROVE  Promise
<1> SUFFICES ASSUME auto # None, auto' = None, job' # job, NEW s \in auto,
                    s.gate # "no", s.link = "Confirmed",
                    ~(Range(DevicesOf[s.module]) \subseteq job'.names)
             PROVE  /\ Cardinality(job'.names) >= MaxNames
                    /\ \A n \in job'.names \ Primary :
                         \E c \in auto : /\ c.link = "Confirmed"
                                         /\ n \in Range(DevicesOf[c.module])
  BY DEF Promise
<1>1. AutoTimer
  BY DEF Next, SummaryStep, vars, shown, tasks, StartAnalysis, FailAnalysis, Deferred,
     FinishAnalysis, Flush, FailSearch, LoadDevices, ManualSearch, FinishSearch,
     StartRefresh, Rebuilt, RebuildFails, CleanUp
<1>2. auto \in SUBSET Suspect
  BY DEF IInv, TypeOK
<1> DEFINE found == AutoNames(auto)
<1>3. job'.names = found \cup Primary
  BY <1>1 DEF AutoTimer, SearchOrWait, Search
<1> HIDE DEF found
<1>4. Cardinality(found) >= MaxNames /\
      \A n \in found : \E c \in auto : /\ c.link = "Confirmed"
                                       /\ n \in Range(DevicesOf[c.module])
  BY <1>2, <1>3, NamesInOrder DEF found
<1>5. Cardinality(found) <= Cardinality(job'.names) /\ Cardinality(job'.names) \in Nat
      /\ Cardinality(found) \in Nat
  <2>1. IsFiniteSet(found)
    BY <1>2, AutoNamesDevices DEF found
  <2>2. IsFiniteSet(Names)
    BY FS_AddElement DEF Names
  <2>3. IsFiniteSet(Primary)
    BY <2>2, FS_Subset
  <2>4. IsFiniteSet(found \cup Primary)
    BY <2>1, <2>3, FS_Union, Zenon
  <2>5. found \in SUBSET (found \cup Primary)
    OBVIOUS
  <2>6. Cardinality(found) <= Cardinality(found \cup Primary)
    BY <2>4, <2>5, FS_Subset, Zenon
  <2>7. QED
    BY <1>3, <2>1, <2>4, <2>6, FS_CardinalityType
<1>6. QED
  BY <1>3, <1>4, <1>5

\* The automatic search after an analysis asks for every device of every
\* confirmed suspect, or is full, and then of devices of confirmed suspects
\* and what every search takes along only.
THEOREM ConfirmedComeFirst == Spec => ConfirmedFirst
<1>1. IInv /\ [Next]_vars => Promise
  BY PromiseStep
<1>2. IInv /\ [Next]_vars => [Promise]_vars
  BY <1>1
<1>3. QED
  BY <1>2, Invariance, PTL DEF Spec, ConfirmedFirst, Promise
=============================================================================
