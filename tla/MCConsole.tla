----------------------------- MODULE MCConsole ------------------------------
(***************************************************************************)
(* Instances of Console for TLC.                                           *)
(***************************************************************************)
EXTENDS Console

\* The commands and PIDs, which are also what guests are sent.
Commands == {"?", "s", "l", "1"}
TwoGuests == {"?", "s", "2", "0"}
Letters == {"a", "b"}
Served == {"irq"}
Talking == {"irq", "tx"}
Talkers == {"tx"}
Second == {2}
=============================================================================
