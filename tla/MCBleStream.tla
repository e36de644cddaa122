---------------------------- MODULE MCBleStream -----------------------------
(* Instances of BleStream for TLC. *)
EXTENDS BleStream

=============================================================================
