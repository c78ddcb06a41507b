---------------------------- MODULE DiskEpisodes ----------------------------
(***************************************************************************)
(* What the monitor promises to HomeOps about a filling disk: numbered     *)
(* episodes, each announced once by an alert and ended once by a recovery, *)
(* never two of them open together and none skipped.                       *)
(***************************************************************************)
EXTENDS Naturals

VARIABLES
  episode,  \* the number of the last episode announced
  open      \* has it not been ended yet?

vars == <<episode, open>>

Init == episode = 0 /\ open = FALSE

Alert == ~open /\ open' = TRUE /\ episode' = episode + 1

Recover == open /\ open' = FALSE /\ UNCHANGED episode

Next == Alert \/ Recover

Spec == Init /\ [][Next]_vars
=============================================================================
