------------------------------- MODULE MCMmu --------------------------------
(***************************************************************************)
(* Small tables and every region in them, for TLC, and the program's own   *)
(* regions against the size of its pool.                                   *)
(***************************************************************************)
EXTENDS Mmu

Shifted(reg, by) == [reg EXCEPT !.base_pa = @ + by]

Ranges == {x \in (0 .. 7) \X (1 .. 8) : x[1] + x[2] <= 8}

\* Three regions anywhere; that of the devices may reach past the end.
AnyLayouts ==
  {<<Shifted(MmuMapRegion(g, kDevicenGnRnE, TRUE, FALSE), 4),
     MmuMapRegion(x, kNormal, FALSE, FALSE),
     Shifted(MmuMapRegion(y, kNormal, FALSE, TRUE), 8)>> :
     g \in Ranges \cup {<<6, 3>>}, x \in Ranges, y \in Ranges}

\* The program's nine regions, with sections of few pages, devices below or above.
BootLayouts ==
  {BootFromEl2(device_io, Sections(start, text, rodata, data, bss, 1, 1, user)) :
     device_io \in {<<0, 1>>, <<6, 2>>}, start \in {0, 1}, text \in {1, 2}, rodata \in {0, 1},
     data \in {0, 1}, bss \in {0, 1}, user \in {1, 2}}

SmallLayouts ==
  AnyLayouts \cup
  {rs \in BootLayouts : \A k \in 1 .. Len(rs) : rs[k].base_va + rs[k].size <= 8}

-----------------------------------------------------------------------------
(* The program's layouts: config.h and linker.ld of QEMU and the Raspberry Pi 4. *)

Full ==
  INSTANCE Mmu WITH XLAT_TABLE_ENTRIES <- 512, NUM_BASE_LEVEL_ENTRIES <- 64,
                    CONFIG_MMU_MAX_XLAT_TABLES <- 14, Layouts <- {}, GuestRegions <- 2

\* Sizes of sections, in pages: within one block of 2 MB, and beyond one.
Sizes == {1, 130, 511, 700}

Linked(start, text, rodata, data, bss) ==
  Sections(start, text, rodata, data, bss, 16384, 256, 524288)

\* The guest regions are in range, none replaces another's table, and the 14 tables
\* suffice, for sections of any of these sizes: BootNeverStops' premises.
ASSUME PoolSuffices ==
  \A text, rodata, data, bss \in Sizes :
    LET qemu == BootFromEl2(<<\h8000, 131072>>, Linked(\h40280, text, rodata, data, bss))
        raspi == BootFromEl2(<<\hfc000, 16384>>, Linked(\h80, text, rodata, data, bss))
    IN  \A rs \in {qemu, raspi} :
          /\ Full!CheckMmuConfigs(rs)
          /\ Full!NoneReplaced(rs)
          /\ Full!TablesFor(rs) <= 14
=============================================================================
