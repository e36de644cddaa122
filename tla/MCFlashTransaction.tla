------------------------- MODULE MCFlashTransaction -------------------------
(* Two cores and a task that write the flash, and one USB worker.          *)
EXTENDS FlashTransaction
=============================================================================
