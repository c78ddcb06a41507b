------------------------------ MODULE MCMonitor ------------------------------
(***************************************************************************)
(* Instances of Monitor for TLC.                                           *)
(***************************************************************************)
EXTENDS Monitor

\* One part of the observed system changes in a behaviour, the others stay well.
\* An operator's runs, and kills, come with the changes they matter for.
OneAtATime ==
  {{"web", "faults"}, {"api"}, {"origin"}, {"recurring"}, {"polls"}, {"backup"},
   {"disk", "operator", "faults"}, {"disk", "authority"}}
OnlyPolls == {{"polls"}}
=============================================================================
