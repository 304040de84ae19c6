--------------------------- MODULE MCDriverInstall ---------------------------
(* DriverInstall with one device whose backups the three workers share.        *)
EXTENDS DriverInstall

CONSTANT d1

OneDevice == {d1}
==============================================================================
