--------------------------- MODULE MCBluetoothHost --------------------------
(* Instances of BluetoothHost for TLC. *)
EXTENDS BluetoothHost

=============================================================================
