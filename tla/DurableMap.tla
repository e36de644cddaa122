----------------------------- MODULE DurableMap -----------------------------
(***************************************************************************)
(* What hal_kv promises its callers: one map from keys to values that      *)
(* survives power loss.  Nothing is said here of banks, logs or            *)
(* generations; KvStore is shown to implement this module.                 *)
(***************************************************************************)
CONSTANTS
    Keys,       \* the uint16_t keys of hal_kv
    Vals,       \* the values a key can hold
    NoVal       \* "no such key" (HAL_ENOENT)

VARIABLES
    live,       \* the map hal_kv_get_* answers from
    stable,     \* the map a restart at this instant would find
    base,       \* the map a restart finds once a failed copy is given up
    dirty,      \* the caller has changes that no HAL_OK commit covers yet
    phase       \* "down", "idle" or "commit" (a commit is running)

absVars == <<live, stable, base, dirty, phase>>

EmptyMap == [k \in Keys |-> NoVal]

AbsInit ==
    /\ live = EmptyMap /\ stable = EmptyMap /\ base = EmptyMap
    /\ dirty = FALSE
    /\ phase = "down"

\* A change of one key, a compaction (no change at all) or a plain commit:
\* staged only, or with the commit it asked for already under way.
Stage ==
    /\ phase = "idle"
    /\ dirty' /\ phase' \in {"idle", "commit"}
    /\ \/ UNCHANGED live
       \/ \E k \in Keys, v \in Vals \cup {NoVal} : live' = [live EXCEPT ![k] = v]
    /\ UNCHANGED <<stable, base>>

\* The medium comes to hold what is being committed, or loses a copy whose
\* commit failed; the copy that was there before is never touched.
Land ==
    /\ phase = "commit" /\ phase' \in {"idle", "commit"}
    /\ UNCHANGED dirty
    /\ stable' \in {stable, live, base}
    /\ base' \in {base, live}
    /\ UNCHANGED live

\* HAL_OK from a commit: what callers see is what a restart finds.
Acknowledge ==
    /\ phase = "commit" /\ phase' = "idle"
    /\ dirty' = FALSE
    /\ stable' = live /\ base' = live
    /\ UNCHANGED live

\* hal_kv_prepare_ex gives up the copy of a failed commit.
Discard ==
    /\ phase = "idle"
    /\ UNCHANGED <<dirty, phase>>
    /\ stable' = base
    /\ UNCHANGED <<live, base>>

PowerLoss ==
    /\ phase # "down" /\ phase' = "down"
    /\ dirty' = FALSE
    /\ stable' \in {stable, base} \cup (IF phase = "commit" THEN {live} ELSE {})
    /\ base' = stable'
    /\ live' = EmptyMap

\* hal_kv_init: staged changes are gone, the durable map is all there is.
Recover ==
    /\ phase # "commit" /\ phase' = "idle"
    /\ dirty' = FALSE
    /\ live' = stable /\ base' = stable
    /\ UNCHANGED stable

AbsNext ==
    \/ Stage \/ Land \/ Acknowledge \/ Discard \/ PowerLoss \/ Recover

AbsSpec == AbsInit /\ [][AbsNext]_absVars
=============================================================================
