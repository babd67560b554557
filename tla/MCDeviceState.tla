---------------------------- MODULE MCDeviceState ----------------------------
(* DeviceState on a small instance: two networks to tell "the same network *)
(* came back" from "another one", or one where that does not matter.       *)
EXTENDS DeviceState

MCNetworks == {"wifi", "mobile"}
OneNetwork == {"wifi"}
=============================================================================
