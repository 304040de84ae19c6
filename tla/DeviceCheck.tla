---------------------------- MODULE DeviceCheck ----------------------------
(* One device of a driver search: the manufacturer is asked first, then the PC  *)
(* maker and Microsoft side by side, then the Update Catalog; what they offer   *)
(* is compared with what is installed, doubtful rows are resolved with the help *)
(* of the others, and the rows left give the device its status. A version is a  *)
(* number and a numbering scheme: "inf" for what Windows reads from the driver, *)
(* "suite" for the name of a package; 0 where none is named. A row's link is a    *)
(* package that Install can fetch, a page on which the probe finds one, only a    *)
(* page, or the Windows settings. A row's date is what it is beside the date of   *)
(* the installed driver ("newer": by two weeks), "none" if one of the two is      *)
(* missing or a placeholder. Titles are reduced to what tells rows apart;         *)
(* bundles and wordings are left out.                                           *)
EXTENDS Naturals, Sequences, FiniteSets

CONSTANTS Versions,    \* the version numbers the sources can name
          Installed,   \* what may be installed; 0 when Windows names no version
          Suites       \* the package that may be installed beside it; 0 for none

ASSUME CheckConstants ==
  /\ Versions \subseteq Nat \ {0} /\ Installed \subseteq Nat /\ Suites \subseteq Nat

Kinds == {"gpu", "wifi", "realtekNet", "chipset", "plumbing", "standard"}
Sources == {"vendor", "oem", "microsoft", "utility"}
Titles == {"package", "page", "assistant", "support", "driver", "store", "other"}
Links == {"package", "resolvable", "page", "settings"}
Dates == {"none", "older", "same", "newer"}
Verdicts == {"newer", "same", "older", "uncertain", "unknown"}
Devices == {d \in [kind : Kinds, intel : BOOLEAN, inst : Installed, suite : Suites, quick : BOOLEAN] :
              /\ d.intel => d.kind \in {"wifi", "chipset"}
              /\ d.suite # 0 => d.kind # "plumbing"}

Row(src, ver, title) ==
  [src |-> src, ver |-> ver, title |-> title, scheme |-> "inf", link |-> "page", date |-> "none",
   verified |-> FALSE, wu |-> FALSE, hwid |-> FALSE, failed |-> FALSE, vs |-> "unset"]
Rows == [src : Sources, ver : {0} \cup Versions, title : Titles, scheme : {"inf", "suite"}, link : Links, date : Dates,
         verified : BOOLEAN, wu : BOOLEAN, hwid : BOOLEAN, failed : BOOLEAN, vs : Verdicts \cup {"unset"}]

VARIABLES dev,      \* the device, and whether the search is a quick one
          phase,    \* what the search of this device does next
          pending,  \* the sources asked side by side that have not answered
          found,    \* the rows, in the order in which they came in
          asked,    \* the sources asked so far; "cache": the catalog's answers of this search
          shown,    \* the rows the user sees, in the order of found
          status    \* what the device's line says
vars == <<dev, phase, pending, found, asked, shown, status>>

-----------------------------------------------------------------------------
(* What the sources may answer. A lookup that fails answers as one without rows. *)

Downloads(r) == {[r EXCEPT !.link = l] : l \in Links \ {"settings"}}
Dated(r) == {[r EXCEPT !.date = d] : d \in Dates}
VendorRows == UNION {Downloads([Row("vendor", v, "package") EXCEPT !.scheme = s]) : v \in Versions, s \in {"inf", "suite"}}
Link == Row("vendor", 0, "page")
CoverageGap == [Row("vendor", 0, "page") EXCEPT !.failed = TRUE, !.vs = "uncertain"]
IntelAssistant == Row("utility", 0, "assistant")

ManufacturerAnswers(d) ==
  IF d.kind = "plumbing" THEN {<<>>}
  ELSE IF d.intel
  THEN {<<r, IntelAssistant>> : r \in VendorRows \cup {Link}}
       \cup {<<Link, CoverageGap, IntelAssistant>> : k \in {d.kind} \cap {"chipset"}} \cup {<<>>}
  ELSE {<<>>} \cup {<<r>> : r \in VendorRows \cup {Link}}
       \cup {<<CoverageGap>> : k \in {d.kind} \cap {"gpu", "wifi", "chipset"}}
       \cup {<<r>> : r \in UNION {Dated(x) : x \in {y \in VendorRows : y.link = "package"}}}

Newer(r) == [r EXCEPT !.date = "newer"]
OemRows == UNION {Downloads(Row("oem", v, "package")) : v \in Versions}
OemAnswers == {<<>>, <<Row("oem", 0, "support")>>} \cup {<<r>> : r \in OemRows}
              \cup {<<Newer(r)>> : r \in {x \in OemRows : x.link = "package"}}

\* Windows Update and the Update Catalog name a package, with or without its version;
\* the list of the online driver store only leads to the settings.
MicrosoftRow(v, title) == [Row("microsoft", v, title) EXCEPT !.link = "package"]
StoreRow(v, h) == [Row("microsoft", v, "store") EXCEPT !.link = "settings", !.hwid = h]
Unversioned(r) == {<<x>> : x \in Dated(r)}
MicrosoftAnswers ==
  {<<>>} \cup {<<[MicrosoftRow(v, "driver") EXCEPT !.wu = TRUE]>> : v \in Versions}
         \cup Unversioned([MicrosoftRow(0, "driver") EXCEPT !.wu = TRUE])
         \cup {<<StoreRow(v, h)>> : v \in Versions, h \in BOOLEAN}
CatalogAnswers ==
  {<<>>} \cup {<<[MicrosoftRow(v, t) EXCEPT !.hwid = h]>> : v \in Versions, t \in {"driver", "other"}, h \in BOOLEAN}
         \cup Unversioned([MicrosoftRow(0, "driver") EXCEPT !.hwid = TRUE])
         \cup {<<Newer([MicrosoftRow(v, "driver") EXCEPT !.hwid = TRUE])>> : v \in Versions}

-----------------------------------------------------------------------------
(* Comparing a row with a baseline, [ver, scheme]. *)

Windows(d) == [ver |-> d.inst, scheme |-> "inf"]
Suite(d)   == [ver |-> d.suite, scheme |-> "suite"]

compare_versions(a, b) ==
  IF a = 0 \/ b = 0 THEN "unknown" ELSE IF b > a THEN "newer" ELSE IF b < a THEN "older" ELSE "same"

\* What the dates say, where they are all there is; what they make of the versions.
ByDate(r, otherwise) == IF r.date = "none" THEN otherwise ELSE r.date
WithDate(ver, r, d) ==
  IF r.date = "newer" /\ ver = "older" THEN "uncertain"
  ELSE IF r.date = "newer" /\ ver = "same" /\ d.kind # "wifi" THEN "newer" ELSE ver

CompareSchemes(r, base, d) ==
  LET ver == compare_versions(base.ver, r.ver) IN
  IF d.kind = "gpu" /\ d.suite # 0 /\ r.scheme = "suite" THEN compare_versions(d.suite, r.ver)
  ELSE IF d.kind = "gpu" THEN ByDate(r, "uncertain")
  ELSE IF ver = "same" THEN ver ELSE IF r.hwid THEN WithDate(ver, r, d) ELSE "uncertain"

compare_driver_to_installed(r, base, d) ==
  LET ver == compare_versions(base.ver, r.ver) IN
  IF r.ver = 0 THEN ByDate(r, "unknown")
  ELSE IF base.ver = 0 THEN "unknown"
  ELSE IF r.wu THEN IF ver = "older" THEN "uncertain" ELSE ver
  ELSE IF r.scheme # base.scheme THEN CompareSchemes(r, base, d) ELSE WithDate(ver, r, d)

HasPackage(r) == r.verified \/ r.link \in {"package", "settings"}
Trusted(r) == r.wu \/ HasPackage(r)

Probed(r, d) ==
  IF r.ver # 0 /\ r.src \in {"vendor", "oem"} /\ ~HasPackage(r) /\ r.link = "resolvable" /\ ~d.quick
  THEN [r EXCEPT !.link = "package", !.verified = TRUE] ELSE r

ReportingPolicy(r, vs) ==
  IF vs = "newer" /\ (~Trusted(r) \/ (r.src = "microsoft" /\ ~r.wu /\ ~r.hwid)) THEN "uncertain"
  ELSE IF vs = "same" /\ r.src \in {"vendor", "oem"} /\ r.ver = 0 THEN "uncertain" ELSE vs

Judge(r, base, d) == [r EXCEPT !.vs = ReportingPolicy(r, compare_driver_to_installed(r, base, d))]
Recompare(r, d) == Judge(Probed(r, d), Windows(d), d)

\* Mutant: the suite's word is taken.
NoGate(r, d) == r

\* Where Windows and the maker number drivers differently, a package newer than the
\* installed package is an update only if Windows' own version says so too.
SchemeSplit(d) == d.kind # "gpu" /\ (d.kind \in {"wifi", "realtekNet", "chipset", "plumbing"} \/ d.suite # 0)
DualBaselineGate(r, d) ==
  IF ~SchemeSplit(d) \/ r.vs # "newer" \/ d.inst = 0 THEN r
  ELSE LET primary == Judge(r, Windows(d), d).vs IN
       IF primary = "newer" THEN r
       ELSE [r EXCEPT !.vs = IF primary \in {"uncertain", "unknown"} THEN "uncertain" ELSE "same"]

Tier(src) == IF src \in {"vendor", "utility"} THEN 0 ELSE IF src = "oem" THEN 1 ELSE 2

\* Mutant: the first row in line is taken.
FirstInLine(is, pool) == CHOOSE i \in is : \A j \in is : i <= j

Corroborating(r, pool) ==
  {i \in DOMAIN pool : /\ r.ver # 0 /\ pool[i].ver = r.ver /\ pool[i].scheme = r.scheme
                       /\ pool[i].vs \in {"newer", "same"} /\ Trusted(pool[i])}
FirstOfTier(is, pool) ==
  CHOOSE i \in is : \A j \in is : \/ Tier(pool[i].src) < Tier(pool[j].src)
                                 \/ (Tier(pool[i].src) = Tier(pool[j].src) /\ i <= j)

\* The proof is copied. The package comes with Microsoft's update id; the link only if
\* the row does not count as installable by then, be it by the copied flag.
InheritTrust(r, c) ==
  LET proof == [r EXCEPT !.verified = r.verified \/ c.verified, !.hwid = r.hwid \/ c.hwid, !.wu = r.wu \/ c.wu] IN
  IF c.src = "microsoft" /\ c.link = "package" THEN [proof EXCEPT !.link = "package"]
  ELSE IF HasPackage(c) /\ ~HasPackage(proof) THEN [proof EXCEPT !.link = c.link, !.verified = TRUE] ELSE proof

Corroborated(r, pool, d) ==
  LET is == Corroborating(r, pool) IN
  IF is = {} THEN r ELSE Judge(InheritTrust(r, pool[FirstOfTier(is, pool)]), Windows(d), d)

AgainstSuite(r, d) ==
  LET alternate == Judge(r, Suite(d), d) IN
  IF r.scheme = "suite" /\ d.suite # 0 /\ alternate.vs \in {"newer", "same", "older"}
  THEN DualBaselineGate(alternate, d) ELSE r

TryResolve(r, pool, d) ==
  IF r.vs # "uncertain" THEN r
  ELSE LET again == Recompare(r, d)
           helped == Corroborated(again, pool, d) IN
       IF again.vs # "uncertain" THEN again
       ELSE IF helped.vs \in {"newer", "same"} THEN helped ELSE AgainstSuite(helped, d)

-----------------------------------------------------------------------------
(* From the rows that came in to the rows that are shown. *)

Firsts(rows) ==
  {i \in DOMAIN rows : \A j \in 1..(i - 1) :
     <<rows[j].src, rows[j].ver, rows[j].scheme, rows[j].title>> # <<rows[i].src, rows[i].ver, rows[i].scheme, rows[i].title>>}

Compared(rows, d) == [i \in Firsts(rows) |-> Recompare(rows[i], d)]

\* An older package is dropped, but for a PC maker's radio driver (for reference).
Displayed(r, d) == r.vs # "older" \/ (d.kind = "wifi" /\ r.src = "oem")

Finalize(rows, d) ==
  LET pool == Compared(rows, d) IN {r \in {TryResolve(pool[i], pool, d) : i \in DOMAIN pool} : Displayed(r, d)}

Verdict(r) == IF r.vs = "unset" THEN "unknown" ELSE r.vs
Contributes(r) ==
  CASE r.vs = "older" -> FALSE
    [] r.vs # "older" /\ r.src = "oem" -> r.ver # 0 /\ (r.vs = "newer" => HasPackage(r))
    [] r.vs # "older" /\ r.src = "microsoft" ->
         /\ r.vs = "newer" => r.wu \/ r.hwid
         /\ r.ver # 0 \/ r.wu \/ r.vs \in {"same", "uncertain", "unknown"}
    [] r.vs # "older" /\ r.src \in {"vendor", "utility"} ->
         /\ (r.src = "vendor" /\ r.vs = "newer") => HasPackage(r)
         /\ r.ver # 0 \/ r.vs # "unset"

\* An uncertain row counts only if no other row has a verdict, "unknown" included.
BestStatus(rows) ==
  LET eligible == {Verdict(r) : r \in {x \in rows : Contributes(x)}} IN
  IF "newer" \in eligible THEN "newer"
  ELSE IF "same" \in eligible THEN "same"
  ELSE IF "unknown" \in eligible THEN "unknown"
  ELSE IF "uncertain" \in eligible THEN "uncertain" ELSE "none"

\* Mutant: the verdict "unknown" becomes a status.
UnknownTold(rows) ==
  LET best(t) == BestStatus({r \in rows : Tier(r.src) = t}) IN
  IF \E t \in 0..2 : best(t) = "newer" THEN "newer" ELSE best(0)

\* The manufacturer's verdict comes first, then the PC maker's, then Microsoft's.
summarize_offer_status(rows) ==
  LET best(t) == BestStatus({r \in rows : Tier(r.src) = t})
      decided == {t \in 0..2 : best(t) \in {"newer", "same"}}
  IN IF decided # {} THEN best(CHOOSE t \in decided : \A u \in decided : t <= u)
     ELSE IF \E t \in 0..2 : best(t) = "uncertain" THEN "uncertain" ELSE "none"

-----------------------------------------------------------------------------
(* Which sources are asked. *)

GpuOnly(d) == d.kind = "gpu"
GpuUncertain(d, rows) ==
  LET mfr == {i \in DOMAIN rows : rows[i].src = "vendor"} IN
  GpuOnly(d) /\ ((\E i \in mfr : rows[i].failed) \/ \A i \in mfr : rows[i].ver = 0)

\* Mutant: the rows are not compared before the test.
SkipOemUnread(d, rows) ==
  GpuOnly(d) \/ (d.kind \in {"wifi", "standard"} /\ \E i \in DOMAIN rows : rows[i].src = "vendor" /\ rows[i].ver # 0)

SkipOem(d, rows) ==
  LET mfr == {r \in Finalize(rows, d) : r.src = "vendor" /\ r.ver # 0} IN
  \/ GpuOnly(d)
  \/ d.kind = "wifi" /\ \E r \in mfr : r.vs = "newer"
  \/ d.kind = "standard" /\ mfr # {}

DeferCatalog(d, rows) ==
  \/ GpuOnly(d) /\ ~GpuUncertain(d, rows)
  \/ d.kind = "plumbing"
  \/ /\ d.kind # "realtekNet"
     /\ \E i \in DOMAIN rows :
          /\ rows[i].src \in {"vendor", "oem"} /\ rows[i].ver # 0
          /\ d.inst = 0 \/ compare_versions(d.inst, rows[i].ver) \in {"newer", "same"}

Init ==
  /\ dev \in Devices /\ phase = "manufacturer" /\ pending = {} /\ found = <<>> /\ asked = {} /\ shown = {}
  /\ status = "none"

AskManufacturer ==
  /\ phase = "manufacturer" /\ phase' = "sources"
  /\ \E rows \in ManufacturerAnswers(dev) :
       /\ found' = rows
       /\ pending' = (IF SkipOem(dev, rows) THEN {} ELSE {"oem"})
                     \cup (IF dev.quick \/ (GpuOnly(dev) /\ ~GpuUncertain(dev, rows)) THEN {} ELSE {"microsoft"})
  /\ asked' = {"manufacturer"}
  /\ UNCHANGED <<dev, shown, status>>

SourceAnswers(src, answers) ==
  /\ phase = "sources" /\ src \in pending /\ pending' = pending \ {src}
  /\ \E rows \in answers : found' = found \o rows
  /\ asked' = asked \cup {src}
  /\ UNCHANGED <<dev, phase, shown, status>>
OemAnswer == SourceAnswers("oem", OemAnswers)
MicrosoftAnswer == SourceAnswers("microsoft", MicrosoftAnswers)

\* Deferred, the catalog is only looked up in the answers this search has already.
AskCatalog ==
  LET deferred == DeferCatalog(dev, found) IN
  /\ phase = "sources" /\ pending = {} /\ phase' = "compare"
  /\ IF dev.quick \/ dev.kind = "plumbing" THEN UNCHANGED <<found, asked>>
     ELSE /\ \E rows \in CatalogAnswers : found' = found \o rows
          /\ asked' = asked \cup {IF deferred THEN "cache" ELSE "catalog"}
  /\ UNCHANGED <<dev, pending, shown, status>>

Compare ==
  /\ phase = "compare"
  /\ shown' = Finalize(found, dev)
  /\ status' = summarize_offer_status(shown')
  /\ phase' = IF shown' = {} /\ ~dev.quick THEN "gap" ELSE "done"
  /\ UNCHANGED <<dev, pending, found, asked>>

\* After all devices: one more question for a device without rows. Its answer is
\* not compared with what is installed.
GapFill ==
  /\ phase = "gap" /\ phase' = "done"
  /\ \E rows \in CatalogAnswers :
       LET verified == {rows[i] : i \in {j \in DOMAIN rows : rows[j].hwid}} IN
       IF verified = {} THEN UNCHANGED <<shown, status>>
       ELSE shown' = verified /\ status' = summarize_offer_status(verified)
  /\ UNCHANGED <<dev, pending, found, asked>>

Next == AskManufacturer \/ OemAnswer \/ MicrosoftAnswer \/ AskCatalog \/ Compare \/ GapFill
Spec == Init /\ [][Next]_vars

-----------------------------------------------------------------------------
(* Every variable stays in its set, whatever the sources answer. *)
TypeOK ==
  /\ dev \in Devices /\ phase \in {"manufacturer", "sources", "compare", "gap", "done"}
  /\ pending \subseteq {"oem", "microsoft"} /\ found \in Seq(Rows)
  /\ asked \subseteq {"manufacturer", "oem", "microsoft", "catalog", "cache"}
  /\ shown \subseteq Rows /\ status \in {"newer", "same", "uncertain", "none"}

(* The order in which the PC maker and Microsoft answer, which two threads       *)
(* decide, has no part in the rows shown: they are what the PC maker's answer    *)
(* would have given in the last place.                                          *)
Late(rows, k) == [i \in DOMAIN rows |-> rows[IF i < k THEN i ELSE IF i = Len(rows) THEN k ELSE i + 1]]
ArrivalOrderIsInvisible ==
  phase = "gap" \/ (phase = "done" /\ \A r \in shown : r.vs # "unset") =>
    \A k \in DOMAIN found : found[k].src = "oem" => shown = Finalize(Late(found, k), dev)

(* The PC maker is passed over only for a manufacturer's package that is still    *)
(* shown once every row has been compared and resolved with the help of the       *)
(* others, for a radio only if it is still an update.                            *)
OemSkippedForAPackage ==
  phase \in {"gap", "done"} /\ "oem" \notin asked /\ ~GpuOnly(dev) =>
    \E r \in shown : r.src = "vendor" /\ r.ver # 0 /\ (dev.kind = "wifi" => r.vs = "newer")

(* Where Windows and the maker number drivers differently, the installed suite     *)
(* alone never makes an update: the row is in Windows' own numbering and above the *)
(* version Windows names, or of that version with a newer date, or it names no     *)
(* version and has a newer date.                                                 *)
WindowsAgrees ==
  SchemeSplit(dev) /\ dev.inst # 0 => \A r \in shown : r.vs = "newer" =>
    /\ r.scheme = "inf"
    /\ compare_versions(dev.inst, r.ver) = "newer"
         \/ (r.date = "newer" /\ (r.ver = 0 \/ compare_versions(dev.inst, r.ver) = "same"))

(* A device whose manufacturer could not be asked, or that has a package nobody   *)
(* could verify, is shown as uncertain, not as one without any offer.            *)
DoubtIsTold ==
  phase \in {"gap", "done"} /\ status = "none" =>
    \A i \in DOMAIN found : ~found[i].failed /\ \A r \in shown : r.ver # 0 => r.vs # "uncertain"
=============================================================================
