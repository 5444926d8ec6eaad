---------------------------- MODULE MCBleSession ----------------------------
(* BleSession for TLC; the configurations give the constants their values. *)
EXTENDS BleSession
=============================================================================
