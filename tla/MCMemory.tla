------------------------------ MODULE MCMemory ------------------------------
(***************************************************************************)
(* Two guests with two entries per table for TLC.                          *)
(***************************************************************************)
EXTENDS Memory

TwoEntries == {0, 1}
RamPages == {<<0, 0, 0>>, <<0, 0, 1>>, <<0, 1, 0>>}
Board == << [ipa |-> <<1, 0, 0>>, pa |-> 1, type |-> "emulated"],
            [ipa |-> <<1, 0, 1>>, pa |-> 2, type |-> "direct"] >>
Pages1 == <<<< <<0, 0, 1>> >>, << <<0, 0, 0>>, <<0, 0, 1>> >>>>
Images == << <<"w">>, <<"w", "0">> >>
Contents == {"0", "w"}
StaleTable == [to |-> 1, type |-> "dram"]
OneToOne == [g \in Guests |-> [a \in RamPages |-> a]]

\* Guest 2 exchanges two of its pages.
Swap == [a \in RamPages |->
           CASE a = <<0, 0, 0>> -> <<0, 1, 0>>
             [] a = <<0, 1, 0>> -> <<0, 0, 0>>
             [] OTHER -> a]
Exchanged == [g \in Guests |-> IF g = 2 THEN Swap ELSE OneToOne[g]]
=============================================================================
