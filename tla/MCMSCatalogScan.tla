--------------------------- MODULE MCMSCatalogScan ---------------------------
(* Small instances of MSCatalogScan: three devices that share queries, one of     *)
(* them a GPU, and a query that only the GPU and the gap pass ask.              *)
EXTENDS MSCatalogScan, TLC

CONSTANTS q1, q2, q3, q4, d1, d2, gpu, b1, b2, s1, s2, w1, w2

FourQueries  == {q1, q2, q3, q4}
Packaged     == {q1, q3, q4}
ThreeDevices == {d1, d2, gpu}
Asked        == (d1 :> {q1, q2}) @@ (d2 :> {q2, q3}) @@ (gpu :> {q3, q4})
GapAsked     == (d1 :> {q1, q2}) @@ (d2 :> {q2, q3, q4}) @@ (gpu :> {q3})
Gpus         == {gpu}
OneBatch     == {b1}
TwoBatches   == {b1, b2}
OneSingle    == {s1}
TwoSingles   == {s1, s2}
NoSingle     == {}
OneWorker    == {w1}
TwoWorkers   == {w1, w2}

Symmetric == Permutations(TwoWorkers)
=============================================================================
