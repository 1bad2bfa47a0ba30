---------------------------- MODULE AtomicResize ----------------------------
(***************************************************************************)
(* What `vhd-util resize' promises: the image is taken out of service,     *)
(* and comes back either as it was or grown, never in between, whatever    *)
(* crashes happen on the way and however often `vhd-util revert' is run.   *)
(***************************************************************************)
EXTENDS Integers

CONSTANTS
    Blank,      \* what a guest reads from a sector that holds nothing
    Sizes       \* the sizes, in sectors, that a resize may ask for

VARIABLES
    disk,       \* the contents of the virtual disk
    online      \* no tool runs, the image can be opened and read, and no journal is
                \* left that `vhd-util revert' would apply to it

avars == <<disk, online>>

\* d with blank sectors added at its end
Grown(d, n) == [s \in 0..(n - 1) |-> IF s \in DOMAIN d THEN d[s] ELSE Blank]

TakeOffline == online /\ online' = FALSE /\ disk' = disk
BringBack == ~online /\ online' = TRUE /\ disk' = disk
BringBackGrown(n) ==
    /\ ~online
    /\ \A s \in DOMAIN disk : s < n
    /\ online' = TRUE
    /\ disk' = Grown(disk, n)

AInit == online = TRUE
ANext == TakeOffline \/ BringBack \/ \E n \in Sizes : BringBackGrown(n)

ASpec == AInit /\ [][ANext]_avars
=============================================================================
