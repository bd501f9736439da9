---------------------------- MODULE MCEmulation -----------------------------
(***************************************************************************)
(* Three guest programs for TLC.                                           *)
(***************************************************************************)
EXTENDS Emulation

Loads(words) == {Insn("ldr", w, 1, 0) : w \in words}

Stores(words) ==
  UNION {{Insn("str", w, 1, \h41), Insn("str", w, 1, 0), Insn("str", w, 31, 0)} : w \in words}

\* A driver of the UART: data, flags, the fractional divisor and an identification
\* register.
UartDriver ==
  LET words == {<<"uart", \h0>>, <<"uart", \h28>>}
  IN  Loads(words \cup {<<"uart", \h18>>, <<"uart", \hfe8>>}) \cup Stores(words)
        \cup {Insn("ldr", <<"uart", \h18>>, 31, 0)}

\* A driver of the distributor: GICD_ICACTIVER0 and GICD_IPRIORITYR0, which share a
\* word, a reserved register and GICD_ISENABLER1, which do too, GICD_IPRIORITYR32,
\* GICD_ICPIDR2, and a page with nothing in it.
GicDriver ==
  LET words == {<<"gic", \h10>>, <<"gic", \h110>>, <<"gic", \h380>>, <<"gic", \h400>>,
                <<"gic", \h480>>, <<"other", \h0>>}
  IN  Loads(words \cup {<<"gic", \hfe8>>}) \cup Stores(words)

\* A kernel that starts: system registers of each kind, its memory, a device.
Boot ==
  {Insn("mrs", r, 1, 0) : r \in {p[1] : p \in Mrs} \cup {Id(1, 2)}}
    \cup {Insn("msr", r, 1, \h41) : r \in {Actlr, <<2, 0, 0, 0>>}}
    \cup {Insn("mrs", Actlr, 31, 0), Insn("msr", Actlr, 31, 0)}
    \cup {Insn("ldr", <<"unmapped">>, 1, 0), Insn("str", <<"uart", \h34>>, 1, \h41),
          Insn("ldr", <<"uart", \h34>>, 1, 0)}

Guests == {UartDriver, GicDriver, Boot}

ASSUME GuestsAreOrdinary == WordAccesses /\ CcsidrIsReadOnly

Chars == {1, 2}
=============================================================================
