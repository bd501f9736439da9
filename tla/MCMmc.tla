------------------------------- MODULE MCMmc --------------------------------
(***************************************************************************)
(* Instances of Mmc for TLC.                                               *)
(***************************************************************************)
EXTENDS Mmc

\* An SDSC card of version 1, one of version 2, SDHC, and one with SDIO.
MCKinds ==
  {[v2 |-> FALSE, hc |-> FALSE, sdio |-> FALSE], [v2 |-> TRUE, hc |-> FALSE, sdio |-> FALSE],
   [v2 |-> TRUE, hc |-> TRUE, sdio |-> FALSE], [v2 |-> TRUE, hc |-> TRUE, sdio |-> TRUE]}

MCRequests == {[block |-> 3, blocks |-> 1], [block |-> 5, blocks |-> 2]}
=============================================================================
