--------------------------- MODULE MCCatalogSearch ---------------------------
(* Small instances of CatalogSearch. *)
EXTENDS CatalogSearch, TLC

CONSTANTS c1, c2, a1, s1

TwoClicks == {c1, c2}
OneAuto   == {a1}
OneSummary == {s1}

Symmetric == Permutations(ClickRequests)
=============================================================================
