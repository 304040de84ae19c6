------------------------ MODULE MCCatalogDiskCache ------------------------
(* Small instances of CatalogDiskCache: two PCs, one of them known first by     *)
(* model and then by serial number.                                          *)
EXTENDS CatalogDiskCache, TLC

CONSTANTS m1, m2, model1, serial1, serial2, w1

TwoPCs    == {m1, m2}
MixedIds  == {model1, serial1, serial2}
MixedBase == (m1 :> model1) @@ (m2 :> serial2)
TwoTag    == (m1 :> serial1) @@ (m2 :> serial2)

\* The file of an older version: none, one tagged by the first PC, or one without tag.
Old(id, pc)  == [machine |-> id, at |-> 0, rows |-> [asOf |-> 0, on |-> pc]]
OldTagged    == {NoFile, Old(model1, m1)}
OldOfAnyone  == OldTagged \cup {Old(Untagged, Untagged)}

OneWorker == {w1}
=============================================================================
