----------------------------- MODULE MCLoraLink -----------------------------
(* Instances of LoraLink for TLC. *)
EXTENDS LoraLink, TLC

CONSTANTS east, west, hub

\* How many messages each application starts, and to whom.
TwoInARow == (east :> 2) @@ (west :> 0)
BothSend == (east :> 1) @@ (west :> 1)
TwoSend == (east :> 1) @@ (west :> 1) @@ (hub :> 0)

Pair == (east :> {west, Broadcast}) @@ (west :> {east, Broadcast})
ToOne == (east :> {hub}) @@ (west :> {hub}) @@ (hub :> {})

\* The two senders may be exchanged.
TwoSenders == Permutations({east, west})
=============================================================================
