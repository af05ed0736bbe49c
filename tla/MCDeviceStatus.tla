--------------------------- MODULE MCDeviceStatus ---------------------------
(* Instances of DeviceStatus for TLC.                                      *)
EXTENDS DeviceStatus
=============================================================================
