------------------------- MODULE DeviceCheckProofs -------------------------
(* Proofs about DeviceCheck: types, and that Windows' own version or its date     *)
(* agrees with every update shown. It rests on what a row is worth when it comes  *)
(* in (Sound) and on what comparing, probing and resolving leave of that. Then    *)
(* what rows that come in later cannot change: the order between the sources is   *)
(* without effect, and the package for which the PC maker was passed over stays   *)
(* on display.                                                                  *)
EXTENDS DeviceCheck, WellFoundedInduction, TLAPS

(* Proof of hardware or by Windows Update is about Windows' own numbering, and a  *)
(* row without a version is in no other.                                        *)
Sound(r) ==
  /\ r \in Rows
  /\ r.wu \/ r.hwid \/ r.ver = 0 => r.scheme = "inf"

FoundSound == \A i \in DOMAIN found : Sound(found[i])

(* The same row, with another verdict or more proof. *)
Alike(r, s) == r.src = s.src /\ r.ver = s.ver /\ r.scheme = s.scheme /\ r.date = s.date

-----------------------------------------------------------------------------
(* The rows that the sources can send. *)

LEMMA RowIsRow ==
  ASSUME NEW src \in Sources, NEW v \in {0} \cup Versions, NEW t \in Titles
  PROVE  Sound(Row(src, v, t))
BY DEF Sound, Rows, Row, Links, Dates

LEMMA RowsLinked ==
  ASSUME NEW r, Sound(r), NEW l \in Links
  PROVE  Sound([r EXCEPT !.link = l]) /\ [r EXCEPT !.link = l].src = r.src /\ [r EXCEPT !.link = l].ver = r.ver
BY DEF Sound, Rows

LEMMA RowsDated ==
  ASSUME NEW r, Sound(r), NEW t \in Dates
  PROVE  /\ Sound([r EXCEPT !.date = t]) /\ [r EXCEPT !.date = t].src = r.src
         /\ [r EXCEPT !.date = t].ver = r.ver /\ [r EXCEPT !.date = t].vs = r.vs
BY DEF Sound, Rows

LEMMA DownloadsSound ==
  ASSUME NEW r, Sound(r), NEW s \in Downloads(r)
  PROVE  Sound(s) /\ s.src = r.src
BY RowsLinked DEF Downloads

LEMMA VendorRowsSound ==
  ASSUME NEW r \in VendorRows
  PROVE  Sound(r) /\ r.src = "vendor"
<1>1. PICK v \in Versions, s \in {"inf", "suite"} : r \in Downloads([Row("vendor", v, "package") EXCEPT !.scheme = s])
  BY DEF VendorRows
<1> DEFINE b == [Row("vendor", v, "package") EXCEPT !.scheme = s]
<1>2. v \in Nat \ {0}
  BY CheckConstants
<1>3. Sound(b) /\ b.src = "vendor"
  BY <1>2 DEF Sound, Rows, Row, Sources, Titles, Links, Dates
<1> HIDE DEF b
<1>. QED
  BY <1>1, <1>3, DownloadsSound DEF b

LEMMA OemRowsSound ==
  ASSUME NEW r \in OemRows
  PROVE  Sound(r) /\ Sound(Newer(r))
<1>1. PICK v \in Versions : r \in Downloads(Row("oem", v, "package"))
  BY DEF OemRows
<1>2. Sound(Row("oem", v, "package"))
  BY RowIsRow DEF Sources, Titles
<1>3. Sound(r)
  BY <1>1, <1>2, DownloadsSound
<1>. QED
  BY <1>3, RowsDated DEF Newer, Dates

LEMMA MicrosoftRowSound ==
  ASSUME NEW v \in {0} \cup Versions, NEW t \in Titles, NEW h \in BOOLEAN
  PROVE  LET r == [MicrosoftRow(v, t) EXCEPT !.hwid = h] IN Sound(r) /\ r.src = "microsoft" /\ r.vs = "unset"
BY DEF MicrosoftRow, Sound, Rows, Row, Sources, Titles, Links, Dates

LEMMA UpdateRowSound ==
  ASSUME NEW v \in {0} \cup Versions
  PROVE  LET r == [MicrosoftRow(v, "driver") EXCEPT !.wu = TRUE] IN Sound(r) /\ r.src = "microsoft"
BY DEF MicrosoftRow, Sound, Rows, Row, Sources, Titles, Links, Dates

LEMMA StoreRowSound ==
  ASSUME NEW v \in Versions, NEW h \in BOOLEAN
  PROVE  Sound(StoreRow(v, h)) /\ StoreRow(v, h).src = "microsoft"
BY DEF StoreRow, Sound, Rows, Row, Sources, Titles, Links, Dates

(* A sequence of sound rows, and two of them joined. *)
SoundRows(rows) == rows \in Seq(Rows) /\ \A i \in DOMAIN rows : Sound(rows[i])

LEMMA NoRowsSound == SoundRows(<<>>)
BY DEF SoundRows

LEMMA OneRowSound ==
  ASSUME NEW r, Sound(r)
  PROVE  SoundRows(<<r>>)
BY DEF SoundRows, Sound

LEMMA JoinedSound ==
  ASSUME NEW p, NEW q, SoundRows(p), SoundRows(q)
  PROVE  SoundRows(p \o q)
<1>1. p \in Seq(Rows) /\ q \in Seq(Rows) /\ p \o q \in Seq(Rows) /\ Len(p \o q) = Len(p) + Len(q)
  BY DEF SoundRows
<1>2. ASSUME NEW i \in 1..Len(p \o q) PROVE Sound((p \o q)[i])
  <2>1. CASE i <= Len(p)
    BY <1>1, <2>1 DEF SoundRows
  <2>2. CASE i > Len(p)
    <3>1. (p \o q)[i] = q[i - Len(p)] /\ i - Len(p) \in 1..Len(q)
      BY <1>1, <2>2
    <3>. QED
      BY <1>1, <3>1 DEF SoundRows
  <2>. QED
    BY <1>1, <2>1, <2>2
<1>. QED
  BY <1>1, <1>2 DEF SoundRows

LEMMA SpecialRowsSound ==
  Sound(Link) /\ Sound(CoverageGap) /\ Sound(IntelAssistant)
BY DEF Link, CoverageGap, IntelAssistant, Sound, Rows, Row, Sources, Titles, Verdicts, Links, Dates

LEMMA ManufacturerSound ==
  ASSUME NEW d \in Devices, NEW rows \in ManufacturerAnswers(d)
  PROVE  SoundRows(rows)
<1>1. CASE rows = <<>>
  BY <1>1, NoRowsSound
<1>2. CASE \E r \in VendorRows \cup {Link} : rows = <<r, IntelAssistant>>
  <2>1. PICK r \in VendorRows \cup {Link} : rows = <<r, IntelAssistant>>
    BY <1>2
  <2>2. Sound(r) /\ Sound(IntelAssistant)
    BY VendorRowsSound, SpecialRowsSound
  <2>. QED
    BY <2>1, <2>2 DEF SoundRows, Sound
<1>3. CASE rows = <<Link, CoverageGap, IntelAssistant>>
  BY <1>3, SpecialRowsSound DEF SoundRows, Sound
<1>4. CASE \E r \in VendorRows \cup {Link, CoverageGap} : rows = <<r>>
  BY <1>4, VendorRowsSound, SpecialRowsSound, OneRowSound
<1>5. CASE \E x \in VendorRows : \E r \in Dated(x) : rows = <<r>>
  <2>1. PICK x \in VendorRows : \E r \in Dated(x) : rows = <<r>>
    BY <1>5
  <2>2. \A r \in Dated(x) : Sound(r)
    BY VendorRowsSound, RowsDated DEF Dated
  <2>. QED
    BY <2>1, <2>2, OneRowSound
<1>. QED
  BY <1>1, <1>2, <1>3, <1>4, <1>5 DEF ManufacturerAnswers

LEMMA OemSound ==
  ASSUME NEW rows \in OemAnswers
  PROVE  SoundRows(rows)
<1>1. CASE rows = <<>>
  BY <1>1, NoRowsSound
<1>2. CASE rows = <<Row("oem", 0, "support")>>
  BY <1>2, RowIsRow, OneRowSound DEF Sources, Titles
<1>3. CASE \E r \in OemRows : rows \in {<<r>>, <<Newer(r)>>}
  BY <1>3, OemRowsSound, OneRowSound
<1>. QED
  BY <1>1, <1>2, <1>3 DEF OemAnswers

(* A package whose version Microsoft does not name. *)
LEMMA UnversionedSound ==
  ASSUME NEW r, Sound(r), NEW rows \in Unversioned(r)
  PROVE  \E x : rows = <<x>> /\ Sound(x) /\ x.src = r.src /\ x.vs = r.vs
<1>1. PICK x \in Dated(r) : rows = <<x>>
  BY DEF Unversioned
<1>2. PICK t \in Dates : x = [r EXCEPT !.date = t]
  BY <1>1 DEF Dated
<1>. QED
  BY <1>1, <1>2, RowsDated

LEMMA MicrosoftSound ==
  ASSUME NEW rows \in MicrosoftAnswers
  PROVE  SoundRows(rows)
<1>1. CASE rows = <<>>
  BY <1>1, NoRowsSound
<1>2. CASE \E v \in Versions : rows = <<[MicrosoftRow(v, "driver") EXCEPT !.wu = TRUE]>>
  BY <1>2, UpdateRowSound, OneRowSound
<1>3. CASE \E v \in Versions, h \in BOOLEAN : rows = <<StoreRow(v, h)>>
  BY <1>3, StoreRowSound, OneRowSound
<1>4. CASE rows \in Unversioned([MicrosoftRow(0, "driver") EXCEPT !.wu = TRUE])
  BY <1>4, UpdateRowSound, UnversionedSound, OneRowSound
<1>. QED
  BY <1>1, <1>2, <1>3, <1>4 DEF MicrosoftAnswers

(* The catalog's rows come in one at a time, and nobody has compared them. *)
LEMMA CatalogRow ==
  ASSUME NEW rows \in CatalogAnswers
  PROVE  rows = <<>> \/ \E r : rows = <<r>> /\ Sound(r) /\ r.src = "microsoft" /\ r.vs = "unset"
<1> DEFINE b(v, t, h) == [MicrosoftRow(v, t) EXCEPT !.hwid = h]
<1>1. \A v \in {0} \cup Versions, t \in Titles, h \in BOOLEAN :
        Sound(b(v, t, h)) /\ b(v, t, h).src = "microsoft" /\ b(v, t, h).vs = "unset"
  BY MicrosoftRowSound
<1>2. CASE \E v \in Versions, t \in {"driver", "other"}, h \in BOOLEAN : rows = <<b(v, t, h)>>
  <2>1. PICK v \in Versions, t \in {"driver", "other"}, h \in BOOLEAN : rows = <<b(v, t, h)>>
    BY <1>2
  <2>2. Sound(b(v, t, h)) /\ b(v, t, h).src = "microsoft" /\ b(v, t, h).vs = "unset"
    BY <1>1 DEF Titles
  <2> HIDE DEF b
  <2>. QED
    BY <2>1, <2>2
<1>3. CASE rows \in Unversioned(b(0, "driver", TRUE))
  <2>1. Sound(b(0, "driver", TRUE)) /\ b(0, "driver", TRUE).src = "microsoft" /\ b(0, "driver", TRUE).vs = "unset"
    BY <1>1 DEF Titles
  <2> HIDE DEF b
  <2>. QED
    BY <1>3, <2>1, UnversionedSound
<1>4. CASE \E v \in Versions : rows = <<Newer(b(v, "driver", TRUE))>>
  <2>1. PICK v \in Versions : rows = <<Newer(b(v, "driver", TRUE))>>
    BY <1>4
  <2>2. Sound(b(v, "driver", TRUE)) /\ b(v, "driver", TRUE).src = "microsoft" /\ b(v, "driver", TRUE).vs = "unset"
    BY <1>1 DEF Titles
  <2> HIDE DEF b
  <2>. QED
    BY <2>1, <2>2, RowsDated DEF Newer, Dates
<1>. QED
  BY <1>2, <1>3, <1>4 DEF CatalogAnswers

LEMMA CatalogSound ==
  ASSUME NEW rows \in CatalogAnswers
  PROVE  SoundRows(rows) /\ \A i \in DOMAIN rows : rows[i].vs = "unset"
BY CatalogRow, NoRowsSound, OneRowSound

-----------------------------------------------------------------------------
(* What comparing leaves of a row. *)

Agrees(r, d) ==
  SchemeSplit(d) /\ d.inst # 0 /\ r.vs = "newer" =>
    /\ r.scheme = "inf"
    /\ compare_versions(d.inst, r.ver) = "newer"
         \/ (r.date = "newer" /\ (r.ver = 0 \/ compare_versions(d.inst, r.ver) = "same"))

(* A row that has been compared: it has a verdict, and Windows agrees. *)
Weighed(r, d) == Sound(r) /\ r.vs \in Verdicts /\ Agrees(r, d)

LEMMA VersionsCompared ==
  ASSUME NEW a, NEW b
  PROVE  compare_versions(a, b) \in {"newer", "same", "older", "unknown"}
BY DEF compare_versions

LEMMA DatesCompared ==
  ASSUME NEW r \in Rows, NEW otherwise \in Verdicts, NEW ver \in Verdicts, NEW d
  PROVE  ByDate(r, otherwise) \in Verdicts /\ WithDate(ver, r, d) \in Verdicts
BY DEF ByDate, WithDate, Rows, Dates, Verdicts

LEMMA DriversCompared ==
  ASSUME NEW r \in Rows, NEW b, NEW d
  PROVE  compare_driver_to_installed(r, b, d) \in Verdicts
<1>1. compare_versions(b.ver, r.ver) \in Verdicts /\ compare_versions(d.suite, r.ver) \in Verdicts
      /\ {"unknown", "uncertain"} \subseteq Verdicts
  BY VersionsCompared DEF Verdicts
<1>2. CompareSchemes(r, b, d) \in Verdicts
  BY <1>1, DatesCompared DEF CompareSchemes
<1>. QED
  BY <1>1, <1>2, DatesCompared DEF compare_driver_to_installed

(* The verdict is the only thing a comparison changes. *)
LEMMA JudgeKeeps ==
  ASSUME NEW r \in Rows, NEW b, NEW d
  PROVE  /\ Judge(r, b, d) \in Rows /\ Alike(Judge(r, b, d), r)
         /\ Judge(r, b, d).link = r.link /\ Judge(r, b, d).wu = r.wu /\ Judge(r, b, d).hwid = r.hwid
         /\ Judge(r, b, d).verified = r.verified
         /\ Judge(r, b, d).vs = ReportingPolicy(r, compare_driver_to_installed(r, b, d))
         /\ Judge(r, b, d).vs \in Verdicts
<1> DEFINE v == ReportingPolicy(r, compare_driver_to_installed(r, b, d))
<1>1. v \in Verdicts
  BY DriversCompared DEF ReportingPolicy, Verdicts
<1>2. Judge(r, b, d) = [r EXCEPT !.vs = v]
  BY DEF Judge
<1> HIDE DEF v
<1>3. [r EXCEPT !.vs = v] \in Rows /\ [r EXCEPT !.vs = v].vs = v
  BY <1>1 DEF Rows
<1>. QED
  BY <1>1, <1>2, <1>3 DEF Alike, Rows, v

LEMMA JudgeSound ==
  ASSUME NEW r, NEW b, NEW d, Sound(r)
  PROVE  Sound(Judge(r, b, d))
<1>1. r \in Rows
  BY DEF Sound
<1>. QED
  BY <1>1, JudgeKeeps DEF Sound, Alike

(* What the policy lets pass as an update compares as newer. *)
LEMMA NewerIsCompared ==
  ASSUME NEW r \in Rows, NEW b, NEW d, Judge(r, b, d).vs = "newer"
  PROVE  compare_driver_to_installed(r, b, d) = "newer"
BY JudgeKeeps DEF ReportingPolicy

LEMMA WindowsAgreesWithJudge ==
  ASSUME NEW r, NEW d, Sound(r)
  PROVE  Agrees(Judge(r, Windows(d), d), d)
<1> DEFINE j == Judge(r, Windows(d), d)
           ver == compare_versions(d.inst, r.ver)
<1>1. r \in Rows /\ Alike(j, r)
  BY JudgeKeeps DEF Sound
<1> SUFFICES ASSUME SchemeSplit(d), d.inst # 0, j.vs = "newer"
             PROVE  r.scheme = "inf" /\ (ver = "newer" \/ (r.date = "newer" /\ (r.ver = 0 \/ ver = "same")))
  BY <1>1 DEF Agrees, Alike
<1>2. compare_driver_to_installed(r, Windows(d), d) = "newer"
  BY <1>1, NewerIsCompared
<1>3. d.kind # "gpu"
  BY DEF SchemeSplit
<1>4. Windows(d).ver = d.inst /\ Windows(d).scheme = "inf"
  BY DEF Windows
<1>5. WithDate(ver, r, d) = "newer" => ver = "newer" \/ (r.date = "newer" /\ ver = "same")
  BY DEF WithDate
<1>6. CASE r.ver = 0
  BY <1>2, <1>6 DEF compare_driver_to_installed, ByDate, Sound
<1>7. CASE r.ver # 0 /\ r.wu
  BY <1>2, <1>4, <1>7 DEF compare_driver_to_installed, Sound
<1>8. CASE r.ver # 0 /\ ~r.wu /\ r.scheme # "inf"
  <2>1. CompareSchemes(r, Windows(d), d) = "newer"
    BY <1>2, <1>4, <1>8 DEF compare_driver_to_installed
  <2>2. ~r.hwid
    BY <1>8 DEF Sound
  <2>. QED
    BY <1>3, <1>4, <2>1, <2>2 DEF CompareSchemes
<1>9. CASE r.ver # 0 /\ ~r.wu /\ r.scheme = "inf"
  BY <1>2, <1>4, <1>5, <1>9 DEF compare_driver_to_installed
<1>. QED
  BY <1>6, <1>7, <1>8, <1>9

LEMMA ProbedSound ==
  ASSUME NEW r, NEW d, Sound(r)
  PROVE  Sound(Probed(r, d)) /\ Alike(Probed(r, d), r)
BY DEF Probed, Sound, Rows, Alike, Links

LEMMA JudgeWeighed ==
  ASSUME NEW r, NEW d, Sound(r)
  PROVE  Weighed(Judge(r, Windows(d), d), d) /\ Alike(Judge(r, Windows(d), d), r)
BY JudgeSound, JudgeKeeps, WindowsAgreesWithJudge DEF Weighed, Sound

LEMMA RecompareWeighed ==
  ASSUME NEW r, NEW d, Sound(r)
  PROVE  Weighed(Recompare(r, d), d) /\ Alike(Recompare(r, d), r)
BY ProbedSound, JudgeWeighed DEF Recompare, Alike

-----------------------------------------------------------------------------
(* What resolving makes of a doubtful row, with the help of the others. *)

WeighedPool(pool, d) == DOMAIN pool \subseteq Nat /\ \A i \in DOMAIN pool : Weighed(pool[i], d)

LEMMA LeastNatural ==
  ASSUME NEW T, T \subseteq Nat, T # {}
  PROVE  \E n \in T : \A m \in T : n <= m
<1>1. \E n \in T : \A m \in T : <<m, n>> \notin OpToRel(<, Nat)
  BY WFMin, NatLessThanWellFounded, Zenon
<1>2. \E n \in T : \A m \in T : ~(m < n)
  BY <1>1, Zenon DEF OpToRel
<1>. QED
  BY <1>2

LEMMA TierHasFirst ==
  ASSUME NEW pool, NEW is \in SUBSET DOMAIN pool, DOMAIN pool \subseteq Nat, is # {}
  PROVE  \E i \in is : \A j \in is : \/ Tier(pool[i].src) < Tier(pool[j].src)
                                       \/ (Tier(pool[i].src) = Tier(pool[j].src) /\ i <= j)
<1> DEFINE t(i) == Tier(pool[i].src)
           of(n) == {i \in is : t(i) = n}
<1>1. \A i \in is : t(i) \in {0, 1, 2}
  BY DEF Tier
<1>2. PICK n \in {0, 1, 2} : of(n) # {} /\ \A m \in {0, 1, 2} : m < n => of(m) = {}
  BY <1>1
<1>3. PICK i \in of(n) : \A j \in of(n) : i <= j
  BY <1>2, LeastNatural
<1>4. \A j \in is : t(i) < t(j) \/ (t(i) = t(j) /\ i <= j)
  BY <1>1, <1>2, <1>3
<1>. QED
  BY <1>3, <1>4

LEMMA TierIsChosen ==
  ASSUME NEW pool, NEW is \in SUBSET DOMAIN pool, DOMAIN pool \subseteq Nat, is # {}
  PROVE  FirstOfTier(is, pool) \in is
BY TierHasFirst DEF FirstOfTier

LEMMA GateWeighed ==
  ASSUME NEW d, NEW r, Sound(r), r.vs \in Verdicts
  PROVE  Weighed(DualBaselineGate(r, d), d) /\ Alike(DualBaselineGate(r, d), r)
<1> DEFINE primary == Judge(r, Windows(d), d)
<1>1. r \in Rows
  BY DEF Sound
<1>2. Agrees(primary, d) /\ Alike(primary, r)
  BY <1>1, WindowsAgreesWithJudge, JudgeKeeps
<1>3. CASE ~SchemeSplit(d) \/ r.vs # "newer" \/ d.inst = 0
  BY <1>3 DEF DualBaselineGate, Weighed, Agrees, Alike
<1>4. CASE SchemeSplit(d) /\ r.vs = "newer" /\ d.inst # 0 /\ primary.vs = "newer"
  <2>1. DualBaselineGate(r, d) = r
    BY <1>4 DEF DualBaselineGate
  <2>2. Agrees(r, d)
    BY <1>2, <1>4 DEF Agrees, Alike
  <2>. QED
    BY <2>1, <2>2 DEF Weighed, Alike
<1>5. CASE SchemeSplit(d) /\ r.vs = "newer" /\ d.inst # 0 /\ primary.vs # "newer"
  <2>1. PICK v \in {"uncertain", "same"} : DualBaselineGate(r, d) = [r EXCEPT !.vs = v]
    BY <1>5 DEF DualBaselineGate
  <2> DEFINE g == [r EXCEPT !.vs = v]
  <2>2. g \in Rows /\ g.vs = v /\ Alike(g, r) /\ g.wu = r.wu /\ g.hwid = r.hwid
    BY <1>1 DEF Rows, Verdicts, Alike
  <2>. QED
    BY <2>1, <2>2 DEF Weighed, Sound, Alike, Agrees, Verdicts
<1>. QED
  BY <1>3, <1>4, <1>5

(* The proof that a helper lends is about a row of the same numbering. *)
LEMMA InheritanceSound ==
  ASSUME NEW r, NEW c, Sound(r), Sound(c), r.scheme = c.scheme
  PROVE  Sound(InheritTrust(r, c)) /\ Alike(InheritTrust(r, c), r) /\ (r.wu => InheritTrust(r, c).wu)
<1> DEFINE sure == r.verified \/ c.verified
           hw == r.hwid \/ c.hwid
           win == r.wu \/ c.wu
           proof == [r EXCEPT !.verified = sure, !.hwid = hw, !.wu = win]
<1>1. r \in Rows /\ c \in Rows /\ sure \in BOOLEAN /\ hw \in BOOLEAN /\ win \in BOOLEAN
  BY DEF Sound
<1>2. proof \in Rows /\ Alike(proof, r) /\ proof.hwid = hw /\ proof.wu = win
  <2> HIDE DEF sure, hw, win
  <2>. QED
    BY <1>1 DEF Rows, Alike
<1>3. Sound(proof)
  BY <1>2 DEF Sound, Alike
<1>4. c.link \in Links /\ "package" \in Links
  BY <1>1 DEF Rows, Links
<1>5. InheritTrust(r, c) \in {proof, [proof EXCEPT !.link = "package"], [proof EXCEPT !.link = c.link, !.verified = TRUE]}
  BY DEF InheritTrust
<1>6. r.wu => proof.wu
  BY <1>2
<1> HIDE DEF proof
<1> DEFINE q == [proof EXCEPT !.link = "package"]
           u == [proof EXCEPT !.link = c.link, !.verified = TRUE]
<1>7. q \in Rows /\ Alike(q, proof) /\ q.hwid = proof.hwid /\ q.wu = proof.wu
  BY <1>2, <1>4 DEF Rows, Alike
<1>8. u \in Rows /\ Alike(u, proof) /\ u.hwid = proof.hwid /\ u.wu = proof.wu
  BY <1>2, <1>4 DEF Rows, Alike
<1> HIDE DEF q, u
<1>9. \A x \in {proof, q, u} : Sound(x) /\ Alike(x, r) /\ (r.wu => x.wu)
  BY <1>2, <1>3, <1>6, <1>7, <1>8 DEF Sound, Alike
<1>. QED
  BY <1>5, <1>9 DEF q, u

LEMMA CorroboratedWeighed ==
  ASSUME NEW d, NEW r, NEW pool, Weighed(r, d), WeighedPool(pool, d)
  PROVE  Weighed(Corroborated(r, pool, d), d) /\ Alike(Corroborated(r, pool, d), r)
<1> DEFINE is == Corroborating(r, pool)
           k == FirstOfTier(is, pool)
           q == InheritTrust(r, pool[k])
<1>1. CASE is = {}
  BY <1>1 DEF Corroborated, Alike
<1>2. CASE is # {}
  <2>1. k \in is
    BY <1>2, TierIsChosen DEF Corroborating, WeighedPool
  <2>2. Sound(pool[k]) /\ pool[k].scheme = r.scheme /\ Sound(r)
    BY <2>1 DEF Corroborating, WeighedPool, Weighed
  <2>3. Sound(q) /\ Alike(q, r)
    BY <2>2, InheritanceSound
  <2>4. Corroborated(r, pool, d) = Judge(q, Windows(d), d)
    BY <1>2 DEF Corroborated
  <2> HIDE DEF q
  <2>. QED
    BY <2>3, <2>4, JudgeWeighed DEF Alike
<1>. QED
  BY <1>1, <1>2

LEMMA SuiteWeighed ==
  ASSUME NEW d, NEW r, Weighed(r, d)
  PROVE  Weighed(AgainstSuite(r, d), d) /\ Alike(AgainstSuite(r, d), r)
<1> DEFINE alternate == Judge(r, Suite(d), d)
<1>1. Sound(r) /\ r \in Rows
  BY DEF Weighed, Sound
<1>2. Sound(alternate) /\ alternate.vs \in Verdicts /\ Alike(alternate, r)
  BY <1>1, JudgeKeeps, JudgeSound
<1>3. AgainstSuite(r, d) \in {r, DualBaselineGate(alternate, d)}
  BY DEF AgainstSuite
<1> HIDE DEF alternate
<1>4. Weighed(DualBaselineGate(alternate, d), d) /\ Alike(DualBaselineGate(alternate, d), alternate)
  BY <1>2, GateWeighed
<1>5. Alike(r, r) /\ Alike(DualBaselineGate(alternate, d), r)
  BY <1>2, <1>4 DEF Alike
<1>. QED
  BY <1>3, <1>4, <1>5

LEMMA ResolvingWeighed ==
  ASSUME NEW d, NEW r, NEW pool, Weighed(r, d), WeighedPool(pool, d)
  PROVE  Weighed(TryResolve(r, pool, d), d) /\ Alike(TryResolve(r, pool, d), r)
<1> DEFINE again == Recompare(r, d)
           helped == Corroborated(again, pool, d)
<1>1. Weighed(again, d) /\ Alike(again, r)
  BY RecompareWeighed DEF Weighed
<1> HIDE DEF again
<1>2. Weighed(helped, d) /\ Alike(helped, again)
  BY <1>1, CorroboratedWeighed
<1> HIDE DEF helped
<1>3. Weighed(AgainstSuite(helped, d), d) /\ Alike(AgainstSuite(helped, d), helped)
  BY <1>2, SuiteWeighed
<1>4. TryResolve(r, pool, d) \in {r, again, helped, AgainstSuite(helped, d)}
  BY DEF TryResolve, again, helped
<1>. QED
  BY <1>1, <1>2, <1>3, <1>4 DEF Alike

-----------------------------------------------------------------------------
(* From the rows that came in to the rows that are shown. *)

LEMMA ComparedWeighed ==
  ASSUME NEW d, NEW rows, SoundRows(rows)
  PROVE  WeighedPool(Compared(rows, d), d)
<1>1. Firsts(rows) \subseteq DOMAIN rows /\ DOMAIN rows \subseteq Nat
  BY DEF Firsts, SoundRows
<1>2. DOMAIN Compared(rows, d) = Firsts(rows)
  BY DEF Compared
<1>3. \A i \in Firsts(rows) : Compared(rows, d)[i] = Recompare(rows[i], d)
  BY DEF Compared
<1>. QED
  BY <1>1, <1>2, <1>3, RecompareWeighed DEF WeighedPool, SoundRows

LEMMA ShownIsWeighed ==
  ASSUME NEW d, NEW rows, SoundRows(rows), NEW r \in Finalize(rows, d)
  PROVE  r \in Rows /\ Agrees(r, d)
<1> DEFINE pool == Compared(rows, d)
<1>1. WeighedPool(pool, d)
  BY ComparedWeighed
<1>2. PICK i \in DOMAIN pool : r = TryResolve(pool[i], pool, d)
  BY DEF Finalize
<1> HIDE DEF pool
<1>. QED
  BY <1>1, <1>2, ResolvingWeighed DEF WeighedPool, Weighed, Sound

LEMMA StatusTyped ==
  ASSUME NEW rows
  PROVE  summarize_offer_status(rows) \in {"newer", "same", "uncertain", "none"}
<1> DEFINE best(t) == BestStatus({r \in rows : Tier(r.src) = t})
           decided == {t \in 0..2 : best(t) \in {"newer", "same"}}
<1>1. CASE decided = {}
  BY <1>1 DEF summarize_offer_status
<1>2. CASE decided # {}
  <2>1. \E t \in decided : \A u \in decided : t <= u
    <3>1. decided \subseteq Nat
      OBVIOUS
    <3> HIDE DEF decided
    <3>. QED
      BY <1>2, <3>1, LeastNatural
  <2> DEFINE first == CHOOSE t \in decided : \A u \in decided : t <= u
  <2>2. first \in decided
    BY <2>1
  <2>3. summarize_offer_status(rows) = best(first)
    BY <1>2 DEF summarize_offer_status
  <2>4. \A t \in decided : best(t) \in {"newer", "same"}
    OBVIOUS
  <2>5. best(first) \in {"newer", "same"}
    <3> HIDE DEF best, first, decided
    <3>. QED
      BY <2>2, <2>4
  <2>. QED
    BY <2>3, <2>5, Zenon
<1>. QED
  BY <1>1, <1>2

-----------------------------------------------------------------------------
(* The invariant, and what each action does to its parts. *)

Inv == TypeOK /\ FoundSound /\ WindowsAgrees

(* A step that only asks: rows come in, nothing is shown yet. *)
LEMMA AskingKeeps ==
  ASSUME Inv, NEW rows, SoundRows(rows), found' = rows, UNCHANGED <<dev, shown, status>>,
         phase' \in {"manufacturer", "sources", "compare", "gap", "done"},
         pending' \subseteq {"oem", "microsoft"},
         asked' \subseteq {"manufacturer", "oem", "microsoft", "catalog", "cache"}
  PROVE  Inv'
<1>1. TypeOK'
  BY DEF Inv, TypeOK, SoundRows
<1>2. FoundSound'
  BY DEF FoundSound, SoundRows
<1>3. WindowsAgrees'
  BY DEF Inv, WindowsAgrees
<1>. QED
  BY <1>1, <1>2, <1>3 DEF Inv

LEMMA InvSoundRows ==
  ASSUME Inv
  PROVE  SoundRows(found) /\ dev \in Devices
BY DEF Inv, TypeOK, FoundSound, SoundRows

LEMMA AskManufacturerInv ==
  ASSUME Inv, AskManufacturer
  PROVE  Inv'
<1>1. PICK rows \in ManufacturerAnswers(dev) : found' = rows
  BY DEF AskManufacturer
<1>2. SoundRows(rows)
  BY <1>1, InvSoundRows, ManufacturerSound
<1>3. phase' = "sources" /\ pending' \subseteq {"oem", "microsoft"} /\ asked' = {"manufacturer"}
  BY DEF AskManufacturer
<1>. QED
  BY <1>1, <1>2, <1>3, AskingKeeps DEF AskManufacturer

LEMMA SourceAnswersInv ==
  ASSUME Inv, NEW src \in {"oem", "microsoft"}, NEW answers, \A rows \in answers : SoundRows(rows),
         SourceAnswers(src, answers)
  PROVE  Inv'
<1>1. PICK rows \in answers : found' = found \o rows
  BY DEF SourceAnswers
<1>2. SoundRows(found \o rows)
  BY InvSoundRows, JoinedSound
<1>3. pending' \subseteq {"oem", "microsoft"} /\ asked' \subseteq {"manufacturer", "oem", "microsoft", "catalog", "cache"}
      /\ phase' = "sources"
  BY DEF SourceAnswers, Inv, TypeOK
<1>. QED
  BY <1>1, <1>2, <1>3, AskingKeeps DEF SourceAnswers

LEMMA AskCatalogInv ==
  ASSUME Inv, AskCatalog
  PROVE  Inv'
<1>1. phase' = "compare" /\ pending' \subseteq {"oem", "microsoft"}
      /\ asked' \subseteq {"manufacturer", "oem", "microsoft", "catalog", "cache"}
  BY DEF AskCatalog, Inv, TypeOK
<1>2. CASE found' = found
  BY <1>1, <1>2, InvSoundRows, AskingKeeps DEF AskCatalog
<1>3. CASE \E rows \in CatalogAnswers : found' = found \o rows
  <2>1. PICK rows \in CatalogAnswers : found' = found \o rows
    BY <1>3
  <2>2. SoundRows(found \o rows)
    BY InvSoundRows, CatalogSound, JoinedSound
  <2>. QED
    BY <1>1, <2>1, <2>2, AskingKeeps DEF AskCatalog
<1>. QED
  BY <1>2, <1>3 DEF AskCatalog

LEMMA CompareInv ==
  ASSUME Inv, Compare
  PROVE  Inv'
<1>1. \A r \in Finalize(found, dev) : r \in Rows /\ Agrees(r, dev)
  BY InvSoundRows, ShownIsWeighed
<1>2. shown' = Finalize(found, dev) /\ dev' = dev /\ found' = found
  BY DEF Compare
<1>3. TypeOK'
  BY <1>1, <1>2, StatusTyped DEF Inv, TypeOK, Compare
<1>4. FoundSound'
  BY <1>2 DEF Inv, FoundSound
<1>5. WindowsAgrees'
  BY <1>1, <1>2 DEF WindowsAgrees, Agrees
<1>. QED
  BY <1>3, <1>4, <1>5 DEF Inv

LEMMA GapFillInv ==
  ASSUME Inv, GapFill
  PROVE  Inv'
<1>1. PICK rows \in CatalogAnswers :
        LET verified == {rows[i] : i \in {j \in DOMAIN rows : rows[j].hwid}} IN
        IF verified = {} THEN UNCHANGED <<shown, status>>
        ELSE shown' = verified /\ status' = summarize_offer_status(verified)
  BY DEF GapFill
<1> DEFINE verified == {rows[i] : i \in {j \in DOMAIN rows : rows[j].hwid}}
<1>2. \A r \in verified : r \in Rows /\ r.vs = "unset"
  BY CatalogSound DEF SoundRows, Sound
<1>3. UNCHANGED <<dev, pending, found, asked>> /\ phase' = "done"
  BY DEF GapFill
<1>4. FoundSound'
  BY <1>3 DEF Inv, FoundSound
<1>5. CASE UNCHANGED <<shown, status>>
  <2>1. TypeOK'
    BY <1>3, <1>5 DEF Inv, TypeOK
  <2>2. WindowsAgrees'
    BY <1>3, <1>5 DEF Inv, WindowsAgrees
  <2>. QED
    BY <1>4, <2>1, <2>2 DEF Inv
<1>6. CASE shown' = verified /\ status' = summarize_offer_status(verified)
  <2>1. TypeOK'
    BY <1>2, <1>3, <1>6, StatusTyped DEF Inv, TypeOK
  <2>2. WindowsAgrees'
    BY <1>2, <1>6 DEF WindowsAgrees
  <2>. QED
    BY <1>4, <2>1, <2>2 DEF Inv
<1>. QED
  BY <1>1, <1>5, <1>6

LEMMA StepInv ==
  ASSUME Inv, [Next]_vars
  PROVE  Inv'
<1>1. CASE AskManufacturer
  BY <1>1, AskManufacturerInv
<1>2. CASE OemAnswer
  BY <1>2, OemSound, SourceAnswersInv DEF OemAnswer
<1>3. CASE MicrosoftAnswer
  BY <1>3, MicrosoftSound, SourceAnswersInv DEF MicrosoftAnswer
<1>4. CASE AskCatalog
  BY <1>4, AskCatalogInv
<1>5. CASE Compare
  BY <1>5, CompareInv
<1>6. CASE GapFill
  BY <1>6, GapFillInv
<1>7. CASE UNCHANGED vars
  BY <1>7 DEF vars, Inv, TypeOK, FoundSound, WindowsAgrees
<1>. QED
  BY <1>1, <1>2, <1>3, <1>4, <1>5, <1>6, <1>7 DEF Next

LEMMA InitInv ==
  ASSUME Init
  PROVE  Inv
<1>1. TypeOK
  BY DEF Init, TypeOK
<1>2. FoundSound /\ WindowsAgrees
  BY DEF Init, FoundSound, WindowsAgrees
<1>. QED
  BY <1>1, <1>2 DEF Inv

LEMMA InvAlways == Spec => []Inv
BY InitInv, StepInv, PTL DEF Spec

(* The search of a device keeps its variables in their sets. *)
THEOREM TypeCorrect == Spec => []TypeOK
<1>1. Inv => TypeOK
  BY DEF Inv
<1>. QED
  BY <1>1, InvAlways, PTL

(* catalog_offer_compare.py: on a device whose maker numbers its packages apart    *)
(* from the drivers inside, no route to "newer" goes past Windows' own version and  *)
(* its date.                                                                    *)
THEOREM WindowsAgreesAlways == Spec => []WindowsAgrees
<1>1. Inv => WindowsAgrees
  BY DEF Inv
<1>. QED
  BY <1>1, InvAlways, PTL

-----------------------------------------------------------------------------
(* The order in which rows come in. Rows are told apart by their source and the  *)
(* first helper is looked for tier by tier, so only the order within a tier      *)
(* counts, which both threads keep.                                              *)

(* p takes each row of one list to its place in the other and keeps the tiers' order. *)
Reorders(p, rows, more) ==
  /\ DOMAIN rows \subseteq Nat /\ DOMAIN more \subseteq Nat
  /\ p \in [DOMAIN rows -> DOMAIN more]
  /\ \A j \in DOMAIN more : \E i \in DOMAIN rows : p[i] = j
  /\ \A i, j \in DOMAIN rows : i # j => p[i] # p[j]
  /\ \A i \in DOMAIN rows : more[p[i]] = rows[i]
  /\ \A i, j \in DOMAIN rows : Tier(rows[i].src) = Tier(rows[j].src) /\ i < j => p[i] < p[j]

Key(r) == <<r.src, r.ver, r.scheme, r.title>>

LEMMA FirstsAreFirst ==
  ASSUME NEW rows, NEW i
  PROVE  i \in Firsts(rows) <=> i \in DOMAIN rows /\ \A j \in 1..(i - 1) : Key(rows[j]) # Key(rows[i])
BY DEF Firsts, Key

LEMMA OneKeyOneTier ==
  ASSUME NEW r, NEW s, Key(r) = Key(s)
  PROVE  Tier(r.src) = Tier(s.src)
BY DEF Key, Tier

LEMMA FirstsReordered ==
  ASSUME NEW n \in Nat, NEW rows, NEW more, NEW p, Reorders(p, rows, more),
         DOMAIN rows = 1..n, DOMAIN more = 1..n, NEW i \in 1..n
  PROVE  i \in Firsts(rows) <=> p[i] \in Firsts(more)
<1>1. p[i] \in 1..n
  BY DEF Reorders
<1>2. ASSUME i \in Firsts(rows), NEW j \in 1..(p[i] - 1) PROVE Key(more[j]) # Key(more[p[i]])
  <2>1. j \in 1..n
    BY <1>1
  <2>2. PICK k \in 1..n : p[k] = j
    BY <2>1 DEF Reorders
  <2>3. more[j] = rows[k] /\ more[p[i]] = rows[i]
    BY <2>2 DEF Reorders
  <2>4. k # i
    BY <1>1, <2>2
  <2>5. CASE k < i
    <3>1. k \in 1..(i - 1)
      BY <2>5
    <3> QED
      BY <1>2, <2>3, <3>1, FirstsAreFirst
  <2>6. CASE k > i
    <3>1. Tier(rows[i].src) = Tier(rows[k].src) /\ i < k => p[i] < p[k]
      BY DEF Reorders
    <3>2. ~(p[i] < p[k])
      BY <1>1, <2>1, <2>2
    <3> QED
      BY <2>3, <2>6, <3>1, <3>2, OneKeyOneTier
  <2> QED
    BY <2>4, <2>5, <2>6
<1>3. ASSUME p[i] \in Firsts(more), NEW k \in 1..(i - 1) PROVE Key(rows[k]) # Key(rows[i])
  <2>1. k \in 1..n /\ k # i /\ p[k] \in 1..n
    BY DEF Reorders
  <2>2. more[p[k]] = rows[k] /\ more[p[i]] = rows[i]
    BY <2>1 DEF Reorders
  <2>3. CASE p[k] < p[i]
    <3>1. p[k] \in 1..(p[i] - 1)
      BY <1>1, <2>1, <2>3
    <3> QED
      BY <1>3, <2>2, <3>1, FirstsAreFirst
  <2>4. CASE ~(p[k] < p[i])
    <3>1. Tier(rows[k].src) = Tier(rows[i].src) /\ k < i => p[k] < p[i]
      BY <2>1 DEF Reorders
    <3> QED
      BY <2>2, <2>4, <3>1, OneKeyOneTier
  <2> QED
    BY <2>3, <2>4
<1> QED
  BY <1>1, <1>2, <1>3, FirstsAreFirst

(* So are the compared rows. *)
LEMMA ComparedReordered ==
  ASSUME NEW n \in Nat, NEW rows, NEW more, NEW p, NEW d, Reorders(p, rows, more),
         DOMAIN rows = 1..n, DOMAIN more = 1..n, SoundRows(rows)
  PROVE  \E q : Reorders(q, Compared(rows, d), Compared(more, d))
<1> DEFINE Q == Compared(rows, d)
           R == Compared(more, d)
           q == [i \in Firsts(rows) |-> p[i]]
<1>1. DOMAIN Q = Firsts(rows) /\ DOMAIN R = Firsts(more)
  BY DEF Compared
<1>2. Firsts(rows) \subseteq 1..n /\ Firsts(more) \subseteq 1..n
  BY DEF Firsts
<1>3. \A i \in 1..n : i \in Firsts(rows) <=> p[i] \in Firsts(more)
  BY FirstsReordered
<1>4. \A i \in Firsts(rows) : Q[i] = Recompare(rows[i], d)
  BY DEF Compared
<1>5. \A i \in Firsts(more) : R[i] = Recompare(more[i], d)
  BY DEF Compared
<1> HIDE DEF Q, R
<1>6. q \in [Firsts(rows) -> Firsts(more)]
  BY <1>2, <1>3
<1>7. \A j \in Firsts(more) : \E i \in Firsts(rows) : q[i] = j
  BY <1>2, <1>3 DEF Reorders
<1>8. \A i, j \in Firsts(rows) : i # j => q[i] # q[j]
  BY <1>2 DEF Reorders
<1>9. ASSUME NEW i \in Firsts(rows) PROVE R[q[i]] = Q[i]
  <2>1. p[i] \in Firsts(more) /\ more[p[i]] = rows[i]
    BY <1>2, <1>3 DEF Reorders
  <2> QED
    BY <1>4, <1>5, <2>1
<1>10. \A i \in Firsts(rows) : Q[i].src = rows[i].src
  BY <1>2, <1>4, RecompareWeighed DEF SoundRows, Alike
<1>11. \A i, j \in Firsts(rows) : Tier(Q[i].src) = Tier(Q[j].src) /\ i < j => q[i] < q[j]
  BY <1>2, <1>10 DEF Reorders
<1>12. DOMAIN Q \subseteq Nat /\ DOMAIN R \subseteq Nat
  BY <1>1, <1>2
<1> HIDE DEF q
<1> QED
  BY <1>1, <1>6, <1>7, <1>8, <1>9, <1>11, <1>12 DEF Reorders, Q, R

(* The row that helps is the same one. *)
LEMMA HelperReordered ==
  ASSUME NEW Q, NEW R, NEW q, Reorders(q, Q, R), NEW r, Corroborating(r, Q) # {}
  PROVE  /\ Corroborating(r, R) # {}
         /\ R[FirstOfTier(Corroborating(r, R), R)] = Q[FirstOfTier(Corroborating(r, Q), Q)]
<1> DEFINE A == Corroborating(r, Q)
           B == Corroborating(r, R)
           a == FirstOfTier(A, Q)
           b == FirstOfTier(B, R)
           least(i, is, pool) == \A j \in is : \/ Tier(pool[i].src) < Tier(pool[j].src)
                                              \/ (Tier(pool[i].src) = Tier(pool[j].src) /\ i <= j)
<1>1. A \subseteq DOMAIN Q /\ B \subseteq DOMAIN R /\ DOMAIN Q \subseteq Nat /\ DOMAIN R \subseteq Nat
  BY DEF Corroborating, Reorders
<1>2. \A i \in DOMAIN Q : q[i] \in DOMAIN R /\ R[q[i]] = Q[i]
  BY DEF Reorders
<1>3. \A i \in DOMAIN Q : i \in A <=> q[i] \in B
  BY <1>2 DEF Corroborating
<1>4. \A j \in B : \E i \in A : q[i] = j
  BY <1>1, <1>3 DEF Reorders
<1>5. a \in A /\ least(a, A, Q)
  <2>1. \E i \in A : least(i, A, Q)
    BY <1>1, TierHasFirst
  <2> QED
    BY <2>1 DEF FirstOfTier
<1>6. B # {}
  BY <1>1, <1>3, <1>5
<1>7. b \in B /\ least(b, B, R)
  <2>1. \E i \in B : least(i, B, R)
    BY <1>1, <1>6, TierHasFirst
  <2> QED
    BY <2>1 DEF FirstOfTier
<1>8. PICK i \in A : q[i] = b
  BY <1>4, <1>7
<1>9. q[a] \in B /\ R[q[a]] = Q[a] /\ R[b] = Q[i]
  BY <1>1, <1>2, <1>3, <1>5, <1>8
<1>10. \A k \in A : Tier(Q[k].src) \in Nat
  BY DEF Tier
<1> HIDE DEF A, B, a, b
<1>11. Tier(Q[a].src) = Tier(Q[i].src) /\ a <= i /\ b <= q[a]
  BY <1>5, <1>7, <1>8, <1>9, <1>10
<1>12. a = i
  <2> SUFFICES ASSUME a < i PROVE FALSE
    BY <1>1, <1>5, <1>8, <1>11
  <2>1. q[a] < q[i]
    BY <1>1, <1>5, <1>11 DEF Reorders
  <2> QED
    BY <1>1, <1>7, <1>8, <1>9, <1>11, <2>1
<1> QED
  BY <1>6, <1>9, <1>12 DEF A, B, a, b

LEMMA ResolveReordered ==
  ASSUME NEW Q, NEW R, NEW q, Reorders(q, Q, R), NEW r, NEW d
  PROVE  TryResolve(r, R, d) = TryResolve(r, Q, d)
<1>1. ASSUME NEW x PROVE Corroborated(x, R, d) = Corroborated(x, Q, d)
  <2>1. CASE Corroborating(x, Q) # {}
    BY <2>1, HelperReordered DEF Corroborated
  <2>2. CASE Corroborating(x, Q) = {}
    <3>1. Corroborating(x, R) = {}
      <4> SUFFICES ASSUME NEW j \in Corroborating(x, R) PROVE FALSE
        OBVIOUS
      <4>1. PICK i \in DOMAIN Q : q[i] = j
        BY DEF Corroborating, Reorders
      <4>2. R[j] = Q[i]
        BY <4>1 DEF Reorders
      <4>3. i \in Corroborating(x, Q)
        BY <4>2 DEF Corroborating
      <4> QED
        BY <2>2, <4>3
    <3> QED
      BY <2>2, <3>1 DEF Corroborated
  <2> QED
    BY <2>1, <2>2
<1> QED
  BY <1>1 DEF TryResolve

(* What is shown does not depend on the order between tiers. *)
LEMMA FinalizeReordered ==
  ASSUME NEW n \in Nat, NEW rows, NEW more, NEW p, NEW d, Reorders(p, rows, more),
         DOMAIN rows = 1..n, DOMAIN more = 1..n, SoundRows(rows)
  PROVE  Finalize(more, d) = Finalize(rows, d)
<1> DEFINE Q == Compared(rows, d)
           R == Compared(more, d)
<1>1. PICK q : Reorders(q, Q, R)
  BY ComparedReordered
<1>2. {TryResolve(R[j], R, d) : j \in DOMAIN R} = {TryResolve(Q[i], Q, d) : i \in DOMAIN Q}
  <2> HIDE DEF Q, R
  <2>1. ASSUME NEW i \in DOMAIN Q
        PROVE  q[i] \in DOMAIN R /\ TryResolve(R[q[i]], R, d) = TryResolve(Q[i], Q, d)
    <3>1. q[i] \in DOMAIN R /\ R[q[i]] = Q[i]
      BY <1>1 DEF Reorders
    <3>2. TryResolve(Q[i], R, d) = TryResolve(Q[i], Q, d)
      BY <1>1, ResolveReordered
    <3> QED
      BY <3>1, <3>2
  <2>2. \A j \in DOMAIN R : \E i \in DOMAIN Q : q[i] = j
    BY <1>1 DEF Reorders
  <2> QED
    BY <2>1, <2>2
<1> QED
  BY <1>2 DEF Finalize

(* A row moved to the last place, past rows of other tiers. *)
LEMMA LateReorders ==
  ASSUME NEW rows \in Seq(Rows), NEW k \in DOMAIN rows,
         \A i \in DOMAIN rows : Tier(rows[i].src) = Tier(rows[k].src) => i = k
  PROVE  /\ DOMAIN Late(rows, k) = 1..Len(rows)
         /\ \E p : Reorders(p, rows, Late(rows, k))
<1> DEFINE n == Len(rows)
           p == [i \in 1..n |-> IF i < k THEN i ELSE IF i = k THEN n ELSE i - 1]
           more == Late(rows, k)
<1>1. n \in Nat /\ DOMAIN rows = 1..n /\ k \in 1..n
  OBVIOUS
<1>2. DOMAIN more = 1..n /\ \A i \in 1..n : more[i] = rows[IF i < k THEN i ELSE IF i = n THEN k ELSE i + 1]
  BY DEF Late
<1> HIDE DEF n, more
<1>3. p \in [1..n -> 1..n]
  BY <1>1
<1>4. ASSUME NEW j \in 1..n PROVE \E i \in 1..n : p[i] = j
  <2>1. CASE j < k
    BY <1>1, <2>1
  <2>2. CASE j = n
    BY <1>1, <2>2
  <2>3. CASE j >= k /\ j # n
    <3>1. j + 1 \in 1..n /\ p[j + 1] = j
      BY <1>1, <2>3
    <3> QED
      BY <3>1
  <2> QED
    BY <1>1, <2>1, <2>2, <2>3
<1>5. \A i, j \in 1..n : i # j => p[i] # p[j]
  BY <1>1
<1>6. ASSUME NEW i \in 1..n PROVE more[p[i]] = rows[i]
  <2>1. p[i] \in 1..n /\ p[i] = IF i < k THEN i ELSE IF i = k THEN n ELSE i - 1
    BY <1>3
  <2>2. more[p[i]] = rows[IF p[i] < k THEN p[i] ELSE IF p[i] = n THEN k ELSE p[i] + 1]
    BY <1>2, <2>1
  <2>3. i = IF p[i] < k THEN p[i] ELSE IF p[i] = n THEN k ELSE p[i] + 1
    BY <1>1, <2>1
  <2> QED
    BY <2>2, <2>3
<1>7. ASSUME NEW i \in 1..n, NEW j \in 1..n, Tier(rows[i].src) = Tier(rows[j].src), i < j
      PROVE  p[i] < p[j]
  <2>1. i # k
    BY <1>1, <1>7
  <2> QED
    BY <1>1, <1>7, <2>1
<1> HIDE DEF p
<1>8. Reorders(p, rows, more)
  <2>1. 1..n \subseteq Nat
    OBVIOUS
  <2> QED
    BY <1>1, <1>2, <1>3, <1>4, <1>5, <1>6, <1>7, <2>1, Zenon DEF Reorders
<1> QED
  BY <1>1, <1>2, <1>8 DEF more, n

-----------------------------------------------------------------------------
(* A manufacturer's package that speaks against asking the PC maker.             *)

(* Recomparing changes nothing. *)
LEMMA RecompareTwice ==
  ASSUME NEW r, NEW d, Sound(r)
  PROVE  Recompare(Recompare(r, d), d) = Recompare(r, d)
<1> DEFINE p == Probed(r, d)
           q == Recompare(r, d)
<1>1. Sound(p) /\ Probed(p, d) = p
  <2>1. Sound(p)
    BY ProbedSound
  <2> QED
    BY <2>1 DEF Probed, Sound, Rows, HasPackage
<1>2. q = Judge(p, Windows(d), d)
  BY DEF Recompare
<1> HIDE DEF p, q
<1>3. p \in Rows
  BY <1>1 DEF Sound
<1> DEFINE v == ReportingPolicy(p, compare_driver_to_installed(p, Windows(d), d))
<1>4. q = [p EXCEPT !.vs = v]
  BY <1>2 DEF Judge
<1>5. v = ReportingPolicy(q, compare_driver_to_installed(q, Windows(d), d))
  <2> HIDE DEF v
  <2>1. /\ q.src = p.src /\ q.ver = p.ver /\ q.scheme = p.scheme /\ q.link = p.link /\ q.date = p.date
        /\ q.verified = p.verified /\ q.wu = p.wu /\ q.hwid = p.hwid
    BY <1>3, <1>4 DEF Rows
  <2> QED
    BY <2>1 DEF v, ReportingPolicy, compare_driver_to_installed, CompareSchemes, ByDate, WithDate, Trusted, HasPackage
<1>6. Probed(q, d) = q
  <2> HIDE DEF v
  <2>1. q.src = p.src /\ q.ver = p.ver /\ q.link = p.link /\ q.verified = p.verified
    BY <1>3, <1>4 DEF Rows
  <2>2. CASE p.ver # 0 /\ p.src \in {"vendor", "oem"} /\ ~HasPackage(p) /\ p.link = "resolvable" /\ ~d.quick
    <3>1. p = [p EXCEPT !.link = "package", !.verified = TRUE]
      BY <1>1, <2>2 DEF Probed
    <3>2. p.verified
      BY <1>3, <3>1 DEF Rows
    <3> QED
      BY <2>2, <3>2 DEF HasPackage
  <2>3. CASE ~(p.ver # 0 /\ p.src \in {"vendor", "oem"} /\ ~HasPackage(p) /\ p.link = "resolvable" /\ ~d.quick)
    BY <2>1, <2>3 DEF Probed, HasPackage
  <2> QED
    BY <2>2, <2>3
<1>7. Recompare(q, d) = [q EXCEPT !.vs = v]
  BY <1>5, <1>6 DEF Recompare, Judge
<1>8. [q EXCEPT !.vs = v] = q
  <2> HIDE DEF v
  <2> QED
    BY <1>3, <1>4 DEF Rows
<1> QED
  BY <1>7, <1>8 DEF q

(* When a row is told to be older. *)
LEMMA OlderJudged ==
  ASSUME NEW r \in Rows, NEW b, NEW d, Judge(r, b, d).vs = "older"
  PROVE  compare_driver_to_installed(r, b, d) = "older"
BY JudgeKeeps DEF ReportingPolicy

LEMMA OlderIsTold ==
  ASSUME NEW r \in Rows, NEW b, NEW d, compare_driver_to_installed(r, b, d) = "older"
  PROVE  Judge(r, b, d).vs = "older"
BY JudgeKeeps DEF ReportingPolicy

(* More proof does not make a row older, but for a GPU. *)
LEMMA HelpNeverOlder ==
  ASSUME NEW d, d.kind # "gpu", NEW r, NEW s, Sound(r), Sound(s), Alike(s, r), r.wu => s.wu,
         NEW b, b.scheme = "inf" \/ r.scheme = b.scheme, Judge(s, b, d).vs = "older"
  PROVE  Judge(r, b, d).vs = "older"
<1> DEFINE ver == compare_versions(b.ver, s.ver)
<1>1. r \in Rows /\ s \in Rows /\ r.ver = s.ver /\ r.scheme = s.scheme /\ r.date = s.date
  BY DEF Sound, Alike
<1>2. compare_driver_to_installed(s, b, d) = "older"
  BY <1>1, OlderJudged
<1>3. CASE s.ver = 0
  BY <1>1, <1>2, <1>3, OlderIsTold DEF compare_driver_to_installed, ByDate
<1>4. CASE s.ver # 0
  <2>1. b.ver # 0 /\ ~s.wu
    BY <1>2, <1>4 DEF compare_driver_to_installed
  <2>2. s.scheme = b.scheme
    <3> SUFFICES ASSUME s.scheme # b.scheme PROVE FALSE
      OBVIOUS
    <3>1. CompareSchemes(s, b, d) = "older"
      BY <1>2, <1>4, <2>1 DEF compare_driver_to_installed
    <3>2. s.hwid
      BY <3>1 DEF CompareSchemes
    <3> QED
      BY <1>1, <3>2 DEF Sound
  <2>3. compare_driver_to_installed(r, b, d) = WithDate(ver, r, d)
    BY <1>1, <1>4, <2>1, <2>2 DEF compare_driver_to_installed
  <2>4. compare_driver_to_installed(s, b, d) = WithDate(ver, s, d)
    BY <1>4, <2>1, <2>2 DEF compare_driver_to_installed
  <2>5. WithDate(ver, r, d) = WithDate(ver, s, d)
    BY <1>1 DEF WithDate
  <2> QED
    BY <1>1, <1>2, <2>3, <2>4, <2>5, OlderIsTold
<1> QED
  BY <1>3, <1>4

LEMMA GateNeverOlder ==
  ASSUME NEW r \in Rows, NEW d, r.vs # "older"
  PROVE  DualBaselineGate(r, d).vs # "older"
<1>1. \A v \in {"uncertain", "same"} : [r EXCEPT !.vs = v].vs = v
  BY DEF Rows
<1> QED
  BY <1>1 DEF DualBaselineGate

LEMMA OlderPassesGate ==
  ASSUME NEW r, NEW d, r.vs = "older"
  PROVE  DualBaselineGate(r, d) = r
BY DEF DualBaselineGate

(* A package of the manufacturer that stays on display, for a radio as an update, *)
(* whatever rows come after it.                                                  *)
Stays(r, d) ==
  LET q == Recompare(r, d) IN
  /\ r.src = "vendor" /\ r.ver # 0
  /\ \/ d.kind = "wifi" /\ q.vs = "newer"
     \/ d.kind = "standard" /\ q.vs # "older" /\ (q.vs = "uncertain" => AgainstSuite(q, d).vs # "older")

LEMMA StaysShown ==
  ASSUME NEW d, NEW rows, SoundRows(rows), NEW i \in Firsts(rows), Stays(rows[i], d)
  PROVE  \E r \in Finalize(rows, d) : r.src = "vendor" /\ r.ver # 0 /\ (d.kind = "wifi" => r.vs = "newer")
<1> DEFINE pool == Compared(rows, d)
           p == Probed(rows[i], d)
           q == Recompare(rows[i], d)
           helped == Corroborated(q, pool, d)
           told == TryResolve(q, pool, d)
<1>1. WeighedPool(pool, d)
  BY ComparedWeighed
<1>2. i \in DOMAIN pool /\ pool[i] = q
  BY DEF Compared
<1>3. i \in DOMAIN rows /\ Sound(rows[i])
  BY DEF Firsts, SoundRows
<1>4. Weighed(q, d) /\ Alike(q, rows[i]) /\ Recompare(q, d) = q
  BY <1>3, RecompareWeighed, RecompareTwice
<1>5. Alike(told, q)
  BY <1>1, <1>4, ResolvingWeighed
<1>6. Displayed(told, d) => told \in Finalize(rows, d)
  BY <1>2 DEF Finalize
<1>7. Sound(p) /\ q = Judge(p, Windows(d), d)
  BY <1>3, ProbedSound DEF Recompare
<1>8. q.vs # "uncertain" => told = q
  BY DEF TryResolve
<1>9. q.vs = "uncertain" => told = IF helped.vs \in {"newer", "same"} THEN helped ELSE AgainstSuite(helped, d)
  BY <1>4 DEF TryResolve
<1> HIDE DEF pool, p, q, told
<1>10. ASSUME d.kind = "standard", q.vs = "uncertain", AgainstSuite(q, d).vs # "older"
       PROVE  told.vs # "older"
  <2> DEFINE is == Corroborating(q, pool)
             c == pool[FirstOfTier(is, pool)]
             s == InheritTrust(q, c)
  <2>1. CASE is = {}
    <3>1. helped = q
      BY <2>1 DEF Corroborated
    <3> QED
      BY <1>9, <1>10, <3>1
  <2>2. CASE is # {}
    <3>1. FirstOfTier(is, pool) \in is
      BY <1>1, <2>2, TierIsChosen DEF Corroborating, WeighedPool
    <3>2. Sound(c) /\ q.scheme = c.scheme
      BY <1>1, <3>1 DEF Corroborating, WeighedPool, Weighed
    <3>3. Sound(q) /\ q \in Rows /\ p \in Rows
      BY <1>4, <1>7 DEF Weighed, Sound
    <3>4. helped = Judge(s, Windows(d), d)
      BY <2>2 DEF Corroborated
    <3> HIDE DEF is, c
    <3>5. Sound(s) /\ Alike(s, q) /\ (q.wu => s.wu)
      BY <3>2, <3>3, InheritanceSound
    <3> HIDE DEF s, helped
    <3>6. Alike(q, p) /\ q.wu = p.wu
      BY <1>7, <3>3, JudgeKeeps
    <3>7. helped.vs # "older"
      <4>1. Alike(s, p) /\ (p.wu => s.wu) /\ Windows(d).scheme = "inf"
        BY <3>5, <3>6 DEF Alike, Windows
      <4> QED
        BY <1>7, <1>10, <3>4, <3>5, <4>1, HelpNeverOlder
    <3>8. Sound(helped) /\ helped \in Rows /\ Alike(helped, q) /\ (q.wu => helped.wu)
      <4>1. s \in Rows
        BY <3>5 DEF Sound
      <4> QED
        BY <3>4, <3>5, <4>1, JudgeKeeps, JudgeSound DEF Alike, Sound
    <3> DEFINE other == Judge(helped, Suite(d), d)
    <3>9. AgainstSuite(helped, d).vs # "older"
      <4>1. CASE ~(helped.scheme = "suite" /\ d.suite # 0 /\ other.vs \in {"newer", "same", "older"})
        BY <3>7, <4>1 DEF AgainstSuite
      <4>2. CASE helped.scheme = "suite" /\ d.suite # 0 /\ other.vs \in {"newer", "same", "older"}
        <5>1. AgainstSuite(helped, d) = DualBaselineGate(other, d)
          BY <4>2 DEF AgainstSuite
        <5>2. other.vs # "older"
          <6> SUFFICES ASSUME other.vs = "older" PROVE FALSE
            OBVIOUS
          <6>1. q.scheme = Suite(d).scheme
            BY <3>8, <4>2 DEF Suite, Alike
          <6>2. Judge(q, Suite(d), d).vs = "older"
            BY <1>10, <3>3, <3>8, <6>1, HelpNeverOlder
          <6>3. AgainstSuite(q, d) = DualBaselineGate(Judge(q, Suite(d), d), d)
            BY <3>8, <4>2, <6>2 DEF AgainstSuite, Alike
          <6> QED
            BY <1>10, <6>2, <6>3, OlderPassesGate
        <5>3. other \in Rows
          BY <3>8, JudgeKeeps
        <5> HIDE DEF other
        <5> QED
          BY <5>1, <5>2, <5>3, GateNeverOlder
      <4> QED
        BY <4>1, <4>2
    <3> QED
      BY <1>9, <1>10, <3>7, <3>9
  <2> QED
    BY <2>1, <2>2
<1>11. told.vs # "older" /\ (d.kind = "wifi" => told.vs = "newer")
  BY <1>8, <1>10 DEF Stays, q
<1>12. told \in Finalize(rows, d)
  BY <1>6, <1>11 DEF Displayed
<1>13. told.src = "vendor" /\ told.ver # 0
  BY <1>4, <1>5 DEF Stays, Alike
<1> QED
  BY <1>11, <1>12, <1>13

(* What a row is told does not depend on what it was told before. *)
LEMMA SameVerdict ==
  ASSUME NEW r \in Rows, NEW s \in Rows, Alike(r, s), r.link = s.link, r.wu = s.wu, r.hwid = s.hwid,
         r.verified = s.verified, NEW b, NEW d
  PROVE  Judge(r, b, d).vs = Judge(s, b, d).vs
BY JudgeKeeps DEF Alike, ReportingPolicy, compare_driver_to_installed, CompareSchemes, ByDate, WithDate, Trusted, HasPackage

(* On a radio the installed suite turns no doubtful row into an update. *)
LEMMA SuiteNeverUpdates ==
  ASSUME NEW d, d.kind = "wifi", NEW q, Weighed(q, d), Recompare(q, d) = q, q.vs = "uncertain"
  PROVE  AgainstSuite(q, d).vs # "newer"
<1> DEFINE p == Probed(q, d)
           alternate == Judge(q, Suite(d), d)
<1>1. q \in Rows /\ Sound(q)
  BY DEF Weighed, Sound
<1>2. q = Judge(p, Windows(d), d) /\ p \in Rows
  <2>1. p \in Rows
    BY <1>1, ProbedSound DEF Sound
  <2> QED
    BY <2>1, JudgeKeeps DEF Recompare
<1>9. p = q
  <2>1. q.verified = p.verified /\ q.link = p.link
    BY <1>2, JudgeKeeps
  <2> QED
    BY <1>1, <2>1 DEF Probed, HasPackage, Rows
<1> SUFFICES ASSUME q.scheme = "suite" PROVE AgainstSuite(q, d).vs # "newer"
  BY DEF AgainstSuite
<1> HIDE DEF p
<1>3. d.inst # 0
  <2> SUFFICES ASSUME d.inst = 0 PROVE FALSE
    OBVIOUS
  <2>1. compare_driver_to_installed(p, Windows(d), d) = "unknown"
    BY <1>1, <1>9 DEF compare_driver_to_installed, Windows, Sound
  <2> QED
    BY <1>2, <2>1, JudgeKeeps DEF ReportingPolicy
<1>4. alternate \in Rows /\ Alike(alternate, q)
  BY <1>1, JudgeKeeps
<1>5. Judge(alternate, Windows(d), d).vs # "newer"
  <2> SUFFICES ASSUME Judge(alternate, Windows(d), d).vs = "newer" PROVE FALSE
    OBVIOUS
  <2>1. Judge(q, Windows(d), d).vs = "uncertain"
    BY <1>2, <1>9
  <2> QED
    BY <1>1, <2>1, SameVerdict, JudgeKeeps
<1> HIDE DEF alternate
<1>6. ASSUME alternate.vs = "newer" PROVE DualBaselineGate(alternate, d).vs # "newer"
  <2>1. \A v \in {"uncertain", "same"} : [alternate EXCEPT !.vs = v].vs = v
    BY <1>4 DEF Rows
  <2> QED
    BY <1>3, <1>5, <1>6, <2>1 DEF DualBaselineGate, SchemeSplit
<1>7. alternate.vs # "newer" => DualBaselineGate(alternate, d) = alternate
  BY DEF DualBaselineGate
<1> QED
  BY <1>6, <1>7 DEF AgainstSuite, alternate

(* A manufacturer's answer names one version at most, so nothing helps its row yet. *)
LEMMA OneVersion ==
  ASSUME NEW d \in Devices, NEW rows \in ManufacturerAnswers(d)
  PROVE  \A i, j \in DOMAIN rows : rows[i].ver # 0 /\ rows[j].ver # 0 => i = j
<1>1. Link.ver = 0 /\ CoverageGap.ver = 0 /\ IntelAssistant.ver = 0
  BY DEF Link, CoverageGap, IntelAssistant, Row
<1>2. CASE rows = <<>> \/ \E r : rows = <<r>>
  BY <1>2
<1>3. CASE \E r : rows = <<r, IntelAssistant>>
  BY <1>1, <1>3
<1>4. CASE rows = <<Link, CoverageGap, IntelAssistant>>
  BY <1>1, <1>4
<1> QED
  BY <1>2, <1>3, <1>4 DEF ManufacturerAnswers

LEMMA SkippedForOne ==
  ASSUME NEW d \in Devices, NEW rows \in ManufacturerAnswers(d), SkipOem(d, rows), ~GpuOnly(d)
  PROVE  \E i \in Firsts(rows) : Stays(rows[i], d)
<1> DEFINE pool == Compared(rows, d)
<1>1. SoundRows(rows) /\ WeighedPool(pool, d)
  BY ManufacturerSound, ComparedWeighed
<1>2. PICK r \in Finalize(rows, d) : /\ r.src = "vendor" /\ r.ver # 0
                                     /\ d.kind = "standard" \/ (d.kind = "wifi" /\ r.vs = "newer")
  BY DEF SkipOem
<1>3. PICK i \in Firsts(rows) : r = TryResolve(pool[i], pool, d) /\ Displayed(r, d)
  BY <1>2 DEF Finalize, Compared
<1> DEFINE q == Recompare(rows[i], d)
<1>4. i \in DOMAIN rows /\ Sound(rows[i]) /\ i \in DOMAIN pool /\ pool[i] = q
  BY <1>1, <1>3 DEF Firsts, SoundRows, Compared
<1>5. Weighed(q, d) /\ Alike(q, rows[i]) /\ Recompare(q, d) = q
  BY <1>4, RecompareWeighed, RecompareTwice
<1>6. Alike(r, q)
  BY <1>1, <1>3, <1>4, <1>5, ResolvingWeighed
<1>7. rows[i].src = "vendor" /\ rows[i].ver # 0
  BY <1>2, <1>5, <1>6 DEF Alike
<1>8. ASSUME q.vs = "uncertain" PROVE Corroborated(q, pool, d) = q
  <2> SUFFICES ASSUME NEW j \in Corroborating(q, pool) PROVE FALSE
    BY DEF Corroborated
  <2>1. j \in DOMAIN pool /\ pool[j].ver # 0 /\ pool[j].vs # "uncertain"
    BY DEF Corroborating
  <2>2. j \in DOMAIN rows /\ Alike(pool[j], rows[j])
    BY <1>1, <2>1, RecompareWeighed DEF Compared, Firsts, SoundRows
  <2>3. j = i
    BY <1>4, <1>7, <2>1, <2>2, OneVersion DEF Alike
  <2> QED
    BY <1>4, <1>8, <2>1, <2>3
<1>9. q.vs # "uncertain" => r = q
  BY <1>3, <1>4 DEF TryResolve
<1>10. q.vs = "uncertain" => r = AgainstSuite(q, d)
  BY <1>3, <1>4, <1>5, <1>8 DEF TryResolve
<1>11. ASSUME d.kind = "wifi", q.vs = "uncertain" PROVE FALSE
  BY <1>2, <1>4, <1>5, <1>10, <1>11, SuiteNeverUpdates
<1>12. Stays(rows[i], d)
  <2>1. r.vs # "older" \/ d.kind = "wifi"
    BY <1>3 DEF Displayed
  <2> HIDE DEF q
  <2>2. q = Recompare(rows[i], d)
    BY DEF q
  <2> QED
    BY <1>2, <1>7, <1>9, <1>10, <1>11, <2>1, <2>2 DEF Stays
<1> QED
  BY <1>3, <1>12

-----------------------------------------------------------------------------
(* What is asked and what is shown, along the phases of the check.               *)

NoOem(rows) == \A i \in DOMAIN rows : rows[i].src # "oem"

\* The PC maker answers once, with one row at most.
OemOnce ==
  /\ phase = "manufacturer" \/ "oem" \in pending => NoOem(found)
  /\ \A i, j \in DOMAIN found : found[i].src = "oem" /\ found[j].src = "oem" => i = j

\* A row still speaks against asking the PC maker.
OemMissed == phase # "manufacturer" /\ "oem" \notin asked /\ "oem" \notin pending /\ ~GpuOnly(dev)
SkipInv == OemMissed => \E i \in Firsts(found) : Stays(found[i], dev)

\* What is shown comes from the rows found, or from the question after all devices.
ShownInv ==
  /\ phase \in {"compare", "gap", "done"} => pending = {}
  /\ phase = "gap" => shown = {}
  /\ phase \in {"gap", "done"} => shown = Finalize(found, dev) \/ \E r \in shown : r.vs = "unset"
  /\ OemSkippedForAPackage

LEMMA NoOemAnswers ==
  /\ \A d \in Devices : \A rows \in ManufacturerAnswers(d) : NoOem(rows)
  /\ \A rows \in MicrosoftAnswers \cup CatalogAnswers : NoOem(rows)
<1>1. ASSUME NEW r, r.src # "oem" PROVE NoOem(<<r>>)
  BY <1>1 DEF NoOem
<1>2. NoOem(<<>>)
  BY DEF NoOem
<1>3. \A r \in VendorRows \cup {Link, CoverageGap, IntelAssistant} : r.src # "oem"
  <2>1. Link.src = "vendor" /\ CoverageGap.src = "vendor" /\ IntelAssistant.src = "utility"
    BY DEF Link, CoverageGap, IntelAssistant, Row
  <2> QED
    BY <2>1, VendorRowsSound
<1>4. ASSUME NEW d \in Devices, NEW rows \in ManufacturerAnswers(d) PROVE NoOem(rows)
  <2>1. CASE rows = <<>>
    BY <1>2, <2>1
  <2>2. CASE \E r \in VendorRows \cup {Link} : rows = <<r, IntelAssistant>>
    BY <1>3, <2>2 DEF NoOem
  <2>3. CASE rows = <<Link, CoverageGap, IntelAssistant>>
    BY <1>3, <2>3 DEF NoOem
  <2>4. CASE \E r \in VendorRows \cup {Link, CoverageGap} : rows = <<r>>
    BY <1>1, <1>3, <2>4
  <2>5. CASE \E x \in VendorRows : \E r \in Dated(x) : rows = <<r>>
    <3>1. \A x \in VendorRows : \A r \in Dated(x) : r.src = "vendor"
      BY VendorRowsSound, RowsDated DEF Dated
    <3> QED
      BY <1>1, <2>5, <3>1
  <2> QED
    BY <1>4, <2>1, <2>2, <2>3, <2>4, <2>5 DEF ManufacturerAnswers
<1>5. ASSUME NEW rows \in MicrosoftAnswers PROVE NoOem(rows)
  <2>1. CASE rows = <<>>
    BY <1>2, <2>1
  <2>2. CASE \E v \in Versions : rows = <<[MicrosoftRow(v, "driver") EXCEPT !.wu = TRUE]>>
    BY <1>1, <2>2, UpdateRowSound
  <2>3. CASE \E v \in Versions, h \in BOOLEAN : rows = <<StoreRow(v, h)>>
    BY <1>1, <2>3, StoreRowSound
  <2>4. CASE rows \in Unversioned([MicrosoftRow(0, "driver") EXCEPT !.wu = TRUE])
    <3> DEFINE b == [MicrosoftRow(0, "driver") EXCEPT !.wu = TRUE]
    <3>1. Sound(b) /\ b.src = "microsoft"
      BY UpdateRowSound
    <3> HIDE DEF b
    <3>2. PICK x : rows = <<x>> /\ x.src = "microsoft"
      BY <2>4, <3>1, UnversionedSound DEF b
    <3> QED
      BY <1>1, <3>2
  <2> QED
    BY <1>5, <2>1, <2>2, <2>3, <2>4 DEF MicrosoftAnswers
<1>6. ASSUME NEW rows \in CatalogAnswers PROVE NoOem(rows)
  BY <1>1, <1>2, CatalogRow
<1> QED
  BY <1>4, <1>5, <1>6

LEMMA OneOemRow ==
  ASSUME NEW rows \in OemAnswers
  PROVE  \A i, j \in DOMAIN rows : i = j
BY DEF OemAnswers

(* Rows that come in later leave the first ones where they are. *)
LEMMA FirstsStay ==
  ASSUME NEW p \in Seq(Rows), NEW q \in Seq(Rows), NEW i \in Firsts(p)
  PROVE  i \in Firsts(p \o q) /\ (p \o q)[i] = p[i]
<1>1. i \in 1..Len(p) /\ DOMAIN (p \o q) = 1..(Len(p) + Len(q)) /\ \A j \in 1..Len(p) : (p \o q)[j] = p[j]
  BY DEF Firsts
<1>2. \A j \in 1..(i - 1) : j \in 1..Len(p)
  BY <1>1
<1>3. i \in DOMAIN (p \o q) /\ \A j \in 1..(i - 1) : Key((p \o q)[j]) # Key((p \o q)[i])
  BY <1>1, <1>2, FirstsAreFirst
<1> QED
  BY <1>1, <1>3, FirstsAreFirst

LEMMA SkipKept ==
  ASSUME Inv, SkipInv, OemMissed, NEW rows \in Seq(Rows)
  PROVE  \E i \in Firsts(found \o rows) : Stays((found \o rows)[i], dev)
<1>1. found \in Seq(Rows)
  BY DEF Inv, TypeOK
<1> QED
  BY <1>1, FirstsStay DEF SkipInv

LEMMA JoinedOnce ==
  ASSUME NEW p \in Seq(Rows), NEW q \in Seq(Rows),
         \A i, j \in DOMAIN p : p[i].src = "oem" /\ p[j].src = "oem" => i = j,
         \A i, j \in DOMAIN q : q[i].src = "oem" /\ q[j].src = "oem" => i = j,
         NoOem(p) \/ NoOem(q)
  PROVE  /\ \A i, j \in DOMAIN (p \o q) : (p \o q)[i].src = "oem" /\ (p \o q)[j].src = "oem" => i = j
         /\ NoOem(p) /\ NoOem(q) => NoOem(p \o q)
<1>1. /\ DOMAIN (p \o q) = 1..(Len(p) + Len(q)) /\ Len(p) \in Nat /\ Len(q) \in Nat
      /\ DOMAIN p = 1..Len(p) /\ DOMAIN q = 1..Len(q)
  OBVIOUS
<1>2. \A i \in 1..(Len(p) + Len(q)) :
        \/ i \in 1..Len(p) /\ (p \o q)[i] = p[i]
        \/ i - Len(p) \in 1..Len(q) /\ (p \o q)[i] = q[i - Len(p)]
  BY <1>1
<1>3. NoOem(p) /\ NoOem(q) => NoOem(p \o q)
  BY <1>1, <1>2 DEF NoOem
<1>4. ASSUME NEW i \in DOMAIN (p \o q), NEW j \in DOMAIN (p \o q),
             (p \o q)[i].src = "oem", (p \o q)[j].src = "oem"
      PROVE  i = j
  <2>1. CASE NoOem(p)
    <3>1. i - Len(p) \in 1..Len(q) /\ q[i - Len(p)].src = "oem" /\ j - Len(p) \in 1..Len(q) /\ q[j - Len(p)].src = "oem"
      BY <1>1, <1>2, <1>4, <2>1 DEF NoOem
    <3>2. i - Len(p) = j - Len(p)
      BY <1>1, <3>1
    <3> QED
      BY <1>1, <3>2
  <2>2. CASE NoOem(q)
    <3>1. i \in 1..Len(p) /\ p[i].src = "oem" /\ j \in 1..Len(p) /\ p[j].src = "oem"
      BY <1>1, <1>2, <1>4, <2>2 DEF NoOem
    <3> QED
      BY <1>1, <3>1
  <2> QED
    BY <2>1, <2>2
<1> QED
  BY <1>3, <1>4

LEMMA OemOnceStep ==
  ASSUME Inv, OemOnce, [Next]_vars
  PROVE  OemOnce'
<1>1. found \in Seq(Rows) /\ dev \in Devices /\ pending \subseteq {"oem", "microsoft"}
  BY DEF Inv, TypeOK
<1>2. CASE AskManufacturer
  <2>1. phase' = "sources" /\ found' \in ManufacturerAnswers(dev)
    BY <1>2 DEF AskManufacturer
  <2>2. NoOem(found')
    BY <1>1, <2>1, NoOemAnswers
  <2> QED
    BY <2>2 DEF OemOnce, NoOem
<1>3. CASE OemAnswer
  <2>1. PICK rows \in OemAnswers : found' = found \o rows
    BY <1>3 DEF OemAnswer, SourceAnswers
  <2>2. rows \in Seq(Rows) /\ \A i, j \in DOMAIN rows : i = j
    BY OemSound, OneOemRow DEF SoundRows
  <2>3. NoOem(found) /\ phase' = "sources" /\ "oem" \notin pending'
    BY <1>3 DEF OemAnswer, SourceAnswers, OemOnce
  <2> QED
    BY <1>1, <2>1, <2>2, <2>3, JoinedOnce DEF OemOnce
<1>4. CASE MicrosoftAnswer
  <2>1. PICK rows \in MicrosoftAnswers : found' = found \o rows
    BY <1>4 DEF MicrosoftAnswer, SourceAnswers
  <2>2. rows \in Seq(Rows) /\ NoOem(rows)
    BY MicrosoftSound, NoOemAnswers DEF SoundRows
  <2>3. phase' = "sources" /\ pending' \subseteq pending
    BY <1>4 DEF MicrosoftAnswer, SourceAnswers
  <2>4. \A i, j \in DOMAIN rows : rows[i].src = "oem" /\ rows[j].src = "oem" => i = j
    BY <2>2 DEF NoOem
  <2> QED
    BY <1>1, <2>1, <2>2, <2>3, <2>4, JoinedOnce DEF OemOnce
<1>5. CASE AskCatalog
  <2>1. phase' = "compare" /\ pending' = {}
    BY <1>5 DEF AskCatalog
  <2>2. CASE found' = found
    BY <2>1, <2>2 DEF OemOnce
  <2>3. CASE \E rows \in CatalogAnswers : found' = found \o rows
    <3>1. PICK rows \in CatalogAnswers : found' = found \o rows
      BY <2>3
    <3>2. rows \in Seq(Rows) /\ NoOem(rows)
      BY CatalogSound, NoOemAnswers DEF SoundRows
    <3>3. \A i, j \in DOMAIN rows : rows[i].src = "oem" /\ rows[j].src = "oem" => i = j
      BY <3>2 DEF NoOem
    <3> QED
      BY <1>1, <2>1, <3>1, <3>2, <3>3, JoinedOnce DEF OemOnce
  <2> QED
    BY <1>5, <2>2, <2>3 DEF AskCatalog
<1>6. CASE Compare \/ GapFill
  <2>1. found' = found /\ pending' = pending /\ phase' \in {"gap", "done"}
    BY <1>6 DEF Compare, GapFill
  <2> QED
    BY <2>1 DEF OemOnce
<1>7. CASE UNCHANGED vars
  BY <1>7 DEF vars, OemOnce
<1> QED
  BY <1>2, <1>3, <1>4, <1>5, <1>6, <1>7 DEF Next

LEMMA SkipStep ==
  ASSUME Inv, SkipInv, [Next]_vars
  PROVE  SkipInv'
<1>1. found \in Seq(Rows) /\ dev \in Devices
  BY DEF Inv, TypeOK
<1>2. CASE AskManufacturer
  <2> SUFFICES ASSUME OemMissed' PROVE \E i \in Firsts(found') : Stays(found'[i], dev')
    BY DEF SkipInv
  <2>1. found' \in ManufacturerAnswers(dev) /\ dev' = dev
    BY <1>2 DEF AskManufacturer
  <2>2. SkipOem(dev, found') /\ ~GpuOnly(dev)
    BY <1>2, <2>1 DEF AskManufacturer, OemMissed
  <2> QED
    BY <1>1, <2>1, <2>2, SkippedForOne
<1>3. ASSUME phase # "manufacturer", NEW rows \in Seq(Rows), found' = found \o rows, dev' = dev,
             OemMissed' => OemMissed
      PROVE  SkipInv'
  BY <1>3, SkipKept DEF SkipInv
<1>4. CASE OemAnswer
  BY <1>4 DEF OemAnswer, SourceAnswers, SkipInv, OemMissed
<1>5. CASE MicrosoftAnswer
  <2>1. PICK rows \in MicrosoftAnswers : found' = found \o rows
    BY <1>5 DEF MicrosoftAnswer, SourceAnswers
  <2>2. rows \in Seq(Rows)
    BY MicrosoftSound DEF SoundRows
  <2>3. phase # "manufacturer" /\ dev' = dev /\ (OemMissed' => OemMissed)
    BY <1>5 DEF MicrosoftAnswer, SourceAnswers, OemMissed
  <2> QED
    BY <1>3, <2>1, <2>2, <2>3
<1>6. CASE AskCatalog
  <2>1. phase # "manufacturer" /\ dev' = dev /\ (OemMissed' => OemMissed)
    BY <1>6 DEF AskCatalog, OemMissed
  <2>2. CASE found' = found
    BY <2>1, <2>2 DEF SkipInv
  <2>3. CASE \E rows \in CatalogAnswers : found' = found \o rows
    <3>1. PICK rows \in CatalogAnswers : found' = found \o rows
      BY <2>3
    <3>2. rows \in Seq(Rows)
      BY CatalogSound DEF SoundRows
    <3> QED
      BY <1>3, <2>1, <3>1, <3>2
  <2> QED
    BY <1>6, <2>2, <2>3 DEF AskCatalog
<1>7. CASE Compare \/ GapFill
  <2>1. found' = found /\ dev' = dev /\ (OemMissed' => OemMissed)
    BY <1>7 DEF Compare, GapFill, OemMissed
  <2> QED
    BY <2>1 DEF SkipInv
<1>8. CASE UNCHANGED vars
  BY <1>8 DEF vars, SkipInv, OemMissed
<1> QED
  BY <1>2, <1>4, <1>5, <1>6, <1>7, <1>8 DEF Next

LEMMA ShownStep ==
  ASSUME Inv, SkipInv, ShownInv, [Next]_vars
  PROVE  ShownInv'
<1>1. CASE AskManufacturer \/ OemAnswer \/ MicrosoftAnswer
  <2>1. phase' = "sources"
    BY <1>1 DEF AskManufacturer, OemAnswer, MicrosoftAnswer, SourceAnswers
  <2> QED
    BY <2>1 DEF ShownInv, OemSkippedForAPackage
<1>2. CASE AskCatalog
  BY <1>2 DEF AskCatalog, ShownInv, OemSkippedForAPackage
<1>3. CASE Compare
  <2>1. /\ shown' = Finalize(found, dev) /\ UNCHANGED <<dev, pending, found, asked>> /\ phase = "compare"
        /\ phase' \in {"gap", "done"} /\ (phase' = "gap" => shown' = {})
    BY <1>3 DEF Compare
  <2>2. pending = {}
    BY <2>1 DEF ShownInv
  <2>3. OemSkippedForAPackage'
    <3> SUFFICES ASSUME "oem" \notin asked, ~GpuOnly(dev)
                 PROVE  \E r \in Finalize(found, dev) :
                          r.src = "vendor" /\ r.ver # 0 /\ (dev.kind = "wifi" => r.vs = "newer")
      BY <2>1 DEF OemSkippedForAPackage
    <3>1. \E i \in Firsts(found) : Stays(found[i], dev)
      BY <2>1, <2>2 DEF SkipInv, OemMissed
    <3> QED
      BY <3>1, InvSoundRows, StaysShown
  <2> QED
    BY <2>1, <2>2, <2>3 DEF ShownInv
<1>4. CASE GapFill
  <2>1. PICK rows \in CatalogAnswers :
          LET verified == {rows[i] : i \in {j \in DOMAIN rows : rows[j].hwid}} IN
          IF verified = {} THEN UNCHANGED <<shown, status>>
          ELSE shown' = verified /\ status' = summarize_offer_status(verified)
    BY <1>4 DEF GapFill
  <2> DEFINE verified == {rows[i] : i \in {j \in DOMAIN rows : rows[j].hwid}}
  <2>2. \A r \in verified : r.vs = "unset"
    BY CatalogSound
  <2>3. UNCHANGED <<dev, pending, found, asked>> /\ phase = "gap" /\ phase' = "done"
    BY <1>4 DEF GapFill
  <2>4. shown' = shown \/ (shown' = verified /\ verified # {})
    BY <2>1
  <2> HIDE DEF verified
  <2>5. shown = {} /\ OemSkippedForAPackage /\ pending = {}
    BY <2>3 DEF ShownInv
  <2>6. "oem" \in asked \/ GpuOnly(dev)
    BY <2>3, <2>5 DEF OemSkippedForAPackage
  <2>7. shown' = Finalize(found, dev) \/ \E r \in shown' : r.vs = "unset"
    BY <2>2, <2>3, <2>4, <2>5 DEF ShownInv
  <2> QED
    BY <2>3, <2>5, <2>6, <2>7 DEF ShownInv, OemSkippedForAPackage
<1>5. CASE UNCHANGED vars
  BY <1>5 DEF vars, ShownInv, OemSkippedForAPackage
<1> QED
  BY <1>1, <1>2, <1>3, <1>4, <1>5 DEF Next

WholeInv == Inv /\ OemOnce /\ SkipInv /\ ShownInv

LEMMA WholeAlways == Spec => []WholeInv
<1>1. Init => WholeInv
  <2>1. ASSUME Init PROVE OemOnce /\ SkipInv /\ ShownInv
    BY <2>1 DEF Init, OemOnce, NoOem, SkipInv, OemMissed, ShownInv, OemSkippedForAPackage
  <2> QED
    BY <2>1, InitInv DEF WholeInv
<1>2. WholeInv /\ [Next]_vars => WholeInv'
  BY StepInv, OemOnceStep, SkipStep, ShownStep DEF WholeInv
<1> QED
  BY <1>1, <1>2, PTL DEF Spec

(* _build_device_comparison_from_ctx: the PC maker is not asked only for a         *)
(* manufacturer's package that is on display in the end, although the rows that    *)
(* come in after that decision can still change what resolving makes of it.        *)
THEOREM SkippedForAPackage == Spec => []OemSkippedForAPackage
<1>1. WholeInv => OemSkippedForAPackage
  BY DEF WholeInv, ShownInv
<1> QED
  BY <1>1, WholeAlways, PTL

(* The two threads that ask the PC maker and Microsoft may answer in any order:    *)
(* duplicates go by the source and helpers by the tier.                           *)
THEOREM OrderIsInvisible == Spec => []ArrivalOrderIsInvisible
<1>1. ASSUME WholeInv PROVE ArrivalOrderIsInvisible
  <2> SUFFICES ASSUME phase = "gap" \/ (phase = "done" /\ \A r \in shown : r.vs # "unset"),
                      NEW k \in DOMAIN found, found[k].src = "oem"
               PROVE  shown = Finalize(Late(found, k), dev)
    BY DEF ArrivalOrderIsInvisible
  <2>1. shown = Finalize(found, dev)
    BY <1>1 DEF WholeInv, ShownInv
  <2>2. SoundRows(found) /\ found \in Seq(Rows)
    BY <1>1, InvSoundRows DEF WholeInv, SoundRows
  <2>3. \A i \in DOMAIN found : Tier(found[i].src) = Tier(found[k].src) => i = k
    <3>1. \A i \in DOMAIN found : found[i].src = "oem" => i = k
      BY <1>1 DEF WholeInv, OemOnce
    <3> QED
      BY <3>1 DEF Tier
  <2>4. PICK p : Reorders(p, found, Late(found, k))
    BY <2>2, <2>3, LateReorders
  <2>5. Len(found) \in Nat /\ DOMAIN found = 1..Len(found) /\ DOMAIN Late(found, k) = 1..Len(found)
    BY <2>2, <2>3, LateReorders
  <2> QED
    BY <2>1, <2>2, <2>4, <2>5, FinalizeReordered
<1>2. WholeInv => ArrivalOrderIsInvisible
  BY <1>1
<1> QED
  BY <1>2, WholeAlways, PTL
=============================================================================
