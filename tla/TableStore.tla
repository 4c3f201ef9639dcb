----------------------------- MODULE TableStore -----------------------------
(***************************************************************************)
(* What GptCommit promises of the table on a device: one register, which    *)
(* commits set and which a loss of power or a refused write can neither     *)
(* empty nor mix.  Unknown: nothing is promised of what opening the device  *)
(* would give.                                                              *)
(***************************************************************************)
CONSTANTS Tables, Unknown

VARIABLES
    val,     \* the table that opening the device gives
    target,  \* the table that the running commit writes, Unknown when none
    busy,    \* a commit is running
    sound,   \* the commit began with a second copy of the table
    hurt     \* it met a fault

store_vars == <<val, target, busy, sound, hurt>>

StoreInit ==
    /\ val \in Tables /\ target = Unknown
    /\ busy = FALSE /\ sound = FALSE /\ hurt = FALSE

\* A commit that begins with two copies leaves the table readable; one that
\* cannot find any makes no promise until it is over.
Begin(t) ==
    /\ ~ busy /\ busy' = TRUE /\ target' = t /\ hurt' = FALSE
    /\ sound' \in BOOLEAN
    /\ IF sound' THEN val' \in Tables /\ (val # Unknown => val' = val) ELSE val' = Unknown

\* The only moment at which the table changes for a reader.
Switch ==
    /\ busy /\ val # Unknown /\ val' = target
    /\ UNCHANGED <<target, busy, sound, hurt>>

\* A write is refused and nobody notices.  The first one is made up for by
\* the end of the commit, if there was a second copy.
Refused ==
    /\ busy /\ hurt' = TRUE
    /\ IF sound /\ ~ hurt THEN UNCHANGED <<target, sound>> ELSE target' = Unknown /\ sound' = FALSE
    /\ val' = Unknown /\ UNCHANGED busy

\* A commit that comes to its end has stored its table.
End ==
    /\ busy /\ busy' = FALSE
    /\ val' = target /\ target' = Unknown
    /\ UNCHANGED <<sound, hurt>>

\* Power is lost, or the last write is refused: the reader finds what it
\* would have found before.
Crash ==
    /\ busy /\ busy' = FALSE /\ target' = Unknown /\ hurt' = TRUE
    /\ IF sound /\ ~ hurt THEN UNCHANGED <<val, sound>> ELSE val' = Unknown /\ sound' = FALSE

\* The device grows: that can hide the table only when a commit was cut
\* short before.
Grow ==
    /\ ~ busy /\ hurt /\ val' = Unknown /\ sound' = FALSE
    /\ UNCHANGED <<target, busy, hurt>>

StoreNext == (\E t \in Tables : Begin(t)) \/ Switch \/ Refused \/ End \/ Crash \/ Grow

StoreSpec == StoreInit /\ [][StoreNext]_store_vars
=============================================================================
