--------------------------- MODULE MCDeviceCheck ---------------------------
(* A small instance of DeviceCheck: version 2 is installed, or none is known;   *)
(* the sources know an older one, the same and a newer one.                     *)
EXTENDS DeviceCheck, TLC

ThreeVersions == 1..3
Second == {0, 2}
Known == {2}
=============================================================================
