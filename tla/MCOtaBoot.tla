----------------------------- MODULE MCOtaBoot -----------------------------
(* Three images, two sectors to a slot: a third image can overwrite one    *)
(* that waits, and a swap can stop between its sectors.                    *)
EXTENDS OtaBoot
=============================================================================
