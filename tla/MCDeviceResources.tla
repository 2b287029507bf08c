--------------------------- MODULE MCDeviceResources ---------------------------
(* Instances of DeviceResources for TLC. *)
EXTENDS DeviceResources

CONSTANTS w, h
=============================================================================
