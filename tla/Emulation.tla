----------------------------- MODULE Emulation ------------------------------
(***************************************************************************)
(* The guest's instructions that trap into EL2 (arch/arm64/irq/trap.cc)    *)
(* and the two devices the board emulates: the GIC's distributor           *)
(* (platforms/virtio/virtio_gic.cc) and the PL011                          *)
(* (platforms/virtio/virtio_pl011_uart.cc), whose receive queue is Queue.  *)
(* One guest; interrupts are masked from the trap to the return, so a trap *)
(* is one step.  WFI and WFE, which switch tasks, are in Sched.            *)
(***************************************************************************)
EXTENDS Queue

CONSTANTS
  Programs,   \* the guest's code: sets of the instructions that may trap
  SP          \* EL2's stack pointer, which enter_hypervisor stores behind x30

VARIABLES
  program,    \* (ghost) the guest's code
  insn,       \* (ghost) the instruction that trapped in this step, or None
  regs,       \* the frame of that trap
  skip,       \* by how much it moved the guest's pc
  vcpu_sysregs, \* the vCPU's copies of system registers
  gicd,       \* the words of struct VirtioGic::Regs
  uart,       \* the registers of VirtioPl011Uart
  out,        \* characters in the transmit queue
  panic,      \* EL2 stopped
  stored      \* (ghost) the last data stored to a register without side effects

ring == <<buff_, head_, tail_, ret>>

devices == <<gicd, uart, out, stored>>

evars == <<program, ring, insn, regs, skip, vcpu_sysregs, devices, panic>>

\* An instruction: the system register <<op1, CRn, CRm, op2>> or the address
\* <<page, offset>> it accesses, its register, x1 or the zero register, and what
\* x1 holds.
Insn(op, at, rt, val) == [op |-> op, at |-> at, rt |-> rt, val |-> val]

None == Insn("none", <<>>, 1, 0)

\* x1 stands for x0 to x30.
Rts == {1, 31}

Frame(i) == [r \in Rts |-> IF r = 31 THEN SP ELSE i.val]

Words == {i.at : i \in {x \in UNION Programs : x.op \in {"ldr", "str"}}} \ {<<"unmapped">>}

\* What a trapped read leaves in the frame.
Result(i, res) == regs' = [Frame(i) EXCEPT ![i.rt] = res]

-----------------------------------------------------------------------------
(* System registers *)

Actlr == <<0, 1, 0, 1>>

\* Registers of op1 0 and CRn 0, and of op1 1.
Id(crm, op2) == <<0, 0, crm, op2>>

Cache(op2) == <<1, 0, 0, op2>>

\* The encodings MRS is emulated for, and the copy each one reads.
Mrs == {
  <<Actlr, "actlr_el1">>,
  <<Id(1, 0), "id_pfr0_el1">>, <<Id(1, 1), "id_pfr1_el1">>,
  <<Id(1, 4), "id_mmfr0_el1">>, <<Id(1, 5), "id_mmfr1_el1">>,
  <<Id(1, 6), "id_mmfr2_el1">>, <<Id(1, 7), "id_mmfr3_el1">>,
  <<Id(2, 0), "id_isar0_el1">>, <<Id(2, 1), "id_isar1_el1">>,
  <<Id(2, 2), "id_isar2_el1">>, <<Id(2, 3), "id_isar3_el1">>,
  <<Id(2, 4), "id_isar4_el1">>, <<Id(2, 5), "id_isar5_el1">>,
  <<Id(3, 0), "mvfr0_el1">>, <<Id(3, 1), "mvfr1_el1">>, <<Id(3, 2), "mvfr2_el1">>,
  <<Id(4, 0), "id_aa64pfr0_el1">>, <<Id(4, 1), "id_aa64pfr1_el1">>,
  <<Id(5, 0), "id_aa64dfr0_el1">>, <<Id(5, 1), "id_aa64dfr1_el1">>,
  <<Id(5, 4), "id_aa64afr0_el1">>, <<Id(5, 5), "id_aa64afr1_el1">>,
  <<Id(6, 0), "id_aa64isar0_el1">>, <<Id(6, 1), "id_aa64isar1_el1">>,
  <<Id(7, 0), "id_aa64mmfr0_el1">>, <<Id(7, 1), "id_aa64mmfr1_el1">>,
  <<Id(7, 3), "mpidr_el1">>, <<Id(0, 6), "revidr_el1">>,
  <<Cache(0), "ccsidr_el1">>, <<Cache(1), "clidr_el1">>, <<Cache(7), "aidr_el1">>,
  <<<<2, 0, 0, 0>>, "csselr_el1">>, <<<<3, 0, 0, 1>>, "ctr_el0">>}

\* Faulty: the register is stored where another one is read.
MsrSwapped == {<<Actlr, "csselr_el1">>, <<Cache(0), "actlr_el1">>}

Msr == {<<Actlr, "actlr_el1">>, <<Cache(0), "csselr_el1">>}

SysregNames == {p[2] : p \in Mrs}

\* The fields of struct VCpuSysregs.
VCpuSysregs == <<
  "sctlr_el1", "ttbr0_el1", "ttbr1_el1", "tcr_el1", "esr_el1", "far_el1",
   "afsr0_el1", "afsr1_el1", "mair_el1", "amair_el1", "contextidr_el1", "cpacr_el1",
   "elr_el1", "fpcr", "fpsr", "midr_el1", "mpidr_el1", "par_el1", "sp_el0",
   "sp_el1", "spsr_el1", "tpidr_el0", "tpidr_el1", "tpidrro_el0", "vbar_el1",
   "actlr_el1", "id_pfr0_el1", "id_pfr1_el1", "id_mmfr0_el1", "id_mmfr1_el1",
   "id_mmfr2_el1", "id_mmfr3_el1", "id_isar0_el1", "id_isar1_el1", "id_isar2_el1",
   "id_isar3_el1", "id_isar4_el1", "id_isar5_el1", "mvfr0_el1", "mvfr1_el1",
   "mvfr2_el1", "id_aa64pfr0_el1", "id_aa64pfr1_el1", "id_aa64dfr0_el1",
   "id_aa64dfr1_el1", "id_aa64isar0_el1", "id_aa64isar1_el1", "id_aa64mmfr0_el1",
   "id_aa64mmfr1_el1", "id_aa64afr0_el1", "id_aa64afr1_el1", "ctr_el0",
   "ccsidr_el1", "clidr_el1", "csselr_el1", "aidr_el1", "revidr_el1", "cntkctl_el1",
   "cntp_ctl_el0", "cntp_cval_el0", "cntp_tval_el0", "cntv_ctl_el0",
   "cntv_cval_el0", "cntv_tval_el0">>

\* The registers CpuRegLoadVCpuAllSysregs stores, one behind the other.
AllSysregs == <<
  "sctlr_el1", "ttbr0_el1", "ttbr1_el1", "tcr_el1", "esr_el1", "far_el1",
   "afsr0_el1", "afsr1_el1", "mair_el1", "amair_el1", "contextidr_el1", "cpacr_el1",
   "elr_el1", "fpcr", "fpsr", "midr_el1", "mpidr_el1", "par_el1", "sp_el0",
   "sp_el1", "spsr_el1", "tpidr_el0", "tpidr_el1", "tpidrro_el0", "vbar_el1",
   "actlr_el1", "id_pfr0_el1", "id_pfr1_el1", "id_mmfr0_el1", "id_mmfr1_el1",
   "id_mmfr2_el1", "id_mmfr3_el1", "id_isar0_el1", "id_isar1_el1", "id_isar2_el1",
   "id_isar3_el1", "id_isar4_el1", "id_isar5_el1", "mvfr0_el1", "mvfr1_el1",
   "mvfr2_el1", "id_aa64pfr0_el1", "id_aa64pfr1_el1", "id_aa64dfr0_el1",
   "id_aa64dfr1_el1", "id_aa64isar0_el1", "id_aa64isar1_el1", "id_aa64mmfr0_el1",
   "id_aa64mmfr1_el1", "id_aa64afr0_el1", "id_aa64afr1_el1", "ctr_el0",
   "ccsidr_el1", "clidr_el1", "csselr_el1", "aidr_el1", "revidr_el1", "cntkctl_el1",
   "cntp_ctl_el0", "cntp_cval_el0", "cntp_tval_el0", "cntv_ctl_el0",
   "cntv_cval_el0", "cntv_tval_el0">>

\* What the machine's register holds: a number that tells it from the others.
Machine == [n \in {AllSysregs[i] : i \in 1 .. Len(AllSysregs)} |->
              CHOOSE i \in 1 .. Len(AllSysregs) : AllSysregs[i] = n]

\* The copies a vCPU starts with, of the registers that trap.
CreateInitialCpuRegsTemplate ==
  [n \in SysregNames |->
     Machine[AllSysregs[CHOOSE i \in 1 .. Len(VCpuSysregs) : VCpuSysregs[i] = n]]]

-----------------------------------------------------------------------------
(* The distributor *)

Bank(from, to, word, size) == [from |-> from, to |-> to, word |-> word, size |-> size]

\* The tests of VirtioGic::Read and Write, in their order: the offsets they take,
\* the first word of the array they use, and how many bytes they index with.
Banks == <<
  Bank(\h0, \h1, 0, 4), Bank(\h4, \h5, 1, 4), Bank(\h8, \h9, 2, 4),
  Bank(\h80, \h100, 3, \h100),     \* GICD_IGROUPR
  Bank(\h0, \h180, 35, \h100),     \* GICD_ISENABLER
  Bank(\h0, \h200, 67, \h100),     \* GICD_ICENABLER
  Bank(\h0, \h280, 99, \h100),     \* GICD_ISPENDR
  Bank(\h0, \h300, 131, \h100),    \* GICD_ICPENDR
  Bank(\h0, \h380, 163, \h100),    \* GICD_ISACTIVER
  Bank(\h0, \h400, 195, \h100),    \* GICD_ICACTIVER
  Bank(\h0, \h7fc, 227, \h400),    \* GICD_IPRIORITYR
  Bank(\h800, \hbfc, 482, \h400),  \* GICD_ITARGETSR
  Bank(\hc00, \hd00, 737, \h100),  \* GICD_ICFGR
  Bank(\he00, \hf00, 801, \h100),  \* GICD_NSACR
  Bank(\hf00, \hf01, 865, 4),
  Bank(\hf10, \hf20, 866, 16), Bank(\hf20, \hf30, 870, 16)>>

BanksOf(off) == {i \in 1 .. Len(Banks) : Banks[i].from <= off /\ off < Banks[i].to}

\* Faulty: the priority registers are indexed with eight bits.
GicWordNarrow(off) ==
  LET i == CHOOSE i \in BanksOf(off) : \A j \in BanksOf(off) : i <= j
  IN  Banks[i].word + ((off % (IF i = 11 THEN \h80 ELSE Banks[i].size)) \div 4)

\* The word of the struct an offset is kept in.  For GICD_IGROUPR, ICENABLER,
\* ICPENDR and ICACTIVER the index is 32 or more, and the word is one of the
\* array that follows.
GicWord(off) ==
  LET i == CHOOSE i \in BanksOf(off) : \A j \in BanksOf(off) : i <= j
  IN  Banks[i].word + ((off % Banks[i].size) \div 4)

GicOffsets == {w[2] : w \in {x \in Words : x[1] = "gic"}}

GicRead(off) ==
  IF off = \hfe8 THEN \h20
  ELSE IF BanksOf(off) = {} THEN 0 ELSE gicd[GicWord(off)]

GicWrite(off, data) ==
  gicd' = IF BanksOf(off) = {} THEN gicd ELSE [gicd EXCEPT ![GicWord(off)] = data]

-----------------------------------------------------------------------------
(* The UART *)

UARTDR == \h0
UARTFR == \h18

\* The registers, with the number of values each one holds.
UartSize ==
  [off \in {\h0, \h4, \h18, \h20, \h24, \h28, \h2c, \h30, \h34, \h38, \h3c, \h40, \h44,
            \h48} |->
     CASE off = UARTDR -> \h1000
       [] off = \h4 -> \h10
       [] off = UARTFR -> \h200
       [] off \in {\h20, \h2c} -> \h100
       [] off \in {\h24, \h30} -> \h10000
       [] off \in {\h28, \h34} -> \h40
       [] off \in {\h38, \h3c, \h40, \h44} -> \h800
       [] off = \h48 -> \h8]

UartReset ==
  [off \in DOMAIN UartSize |->
     CASE off = UARTFR -> \h90 [] off = \h30 -> \h300 [] off = \h34 -> \h12 [] OTHER -> 0]

\* UARTPeriphID0-3 and UARTPCellID0-3.
UartId ==
  [off \in {\hfe0, \hfe4, \hfe8, \hfec, \hff0, \hff4, \hff8, \hffc} |->
     CASE off = \hfe0 -> \h11 [] off = \hfe4 -> \h10 [] off = \hfe8 -> \h34
       [] off = \hfec -> 0 [] off = \hff0 -> \hd [] off = \hff4 -> \hf0
       [] off = \hff8 -> 5 [] off = \hffc -> \hb1]

\* Bit 4 of the flags: the receiver is empty.
ReceiverEmpty(fr) == (fr \div \h10) % 2 = 1

SetEmpty(fr) == IF ReceiverEmpty(fr) THEN fr ELSE fr + \h10

ClearEmpty(fr) == IF ReceiverEmpty(fr) THEN fr - \h10 ELSE fr

\* Reading the flags takes a character from the queue.
FetchChar ==
  LET data == buff_[head_]
  IN  /\ Pop
      /\ uart' = [uart EXCEPT ![UARTDR] = ((@ \div \h100) * \h100) + (data % \h100),
                              ![UARTFR] = ClearEmpty(@)]

UartRead(i) ==
  LET off == i.at[2]
  IN  \/ /\ off = UARTDR
         /\ Result(i, uart[UARTDR])
         /\ uart' = [uart EXCEPT ![UARTFR] = SetEmpty(@)]
         /\ UNCHANGED ring
      \/ /\ off = UARTFR /\ ~Empty
         /\ FetchChar
         /\ Result(i, ClearEmpty(uart[UARTFR]))
      \/ /\ off = UARTFR => Empty
         /\ off # UARTDR
         /\ Result(i, IF off \in DOMAIN UartSize THEN uart[off]
                      ELSE IF off \in DOMAIN UartId THEN UartId[off] ELSE 0)
         /\ UNCHANGED <<uart, ring>>

UartWrite(off, data) ==
  /\ uart' = IF off \in DOMAIN UartSize
             THEN [uart EXCEPT ![off] = data % UartSize[off]] ELSE uart
  /\ out' = IF off = UARTDR /\ out < kMaxSize - 1 THEN out + 1 ELSE out

-----------------------------------------------------------------------------
(* Traps *)

\* The words that hold what is stored to them.
Plain == {w \in Words : IF w[1] = "gic" THEN BanksOf(w[2]) # {}
                        ELSE w[1] = "uart" /\ w[2] \in DOMAIN UartSize \ {UARTDR, UARTFR}}

\* Words that share one of the struct's: the second half of a bank that has room
\* for half of its offsets is the first half of the next one, and the test for
\* GICD_ISENABLER takes the reserved offsets before GICD_IGROUPR as well.
SecondHalf == (\h80 .. \hff) \cup (\h180 .. \h1ff) \cup (\h280 .. \h2ff) \cup (\h380 .. \h3ff)

Reserved == \hc .. \h7f

Shares(a, b) ==
  \/ a = b
  \/ /\ a[1] = "gic" /\ b[1] = "gic"
     /\ \E x, y \in {a[2], b[2]} :
          \/ x \in SecondHalf \cup Reserved /\ y = x + \h80
          \/ x \in Reserved /\ y = x + \h100

ASSUME EmulationAssumption ==
  /\ SP \in Nat
  /\ \A i \in UNION Programs : i.rt \in Rts /\ i.val \in Nat

EmuInit ==
  /\ program \in Programs
  /\ Init
  /\ insn = None
  /\ regs = Frame(None)
  /\ skip = 0
  /\ vcpu_sysregs = CreateInitialCpuRegsTemplate
  /\ gicd = [w \in {GicWord(o) : o \in {x \in GicOffsets : BanksOf(x) # {}}} |-> 0]
  /\ uart = UartReset
  /\ out = 0
  /\ panic = FALSE
  /\ stored = [w \in Plain |-> IF w[1] = "gic" THEN 0 ELSE UartReset[w[2]]]

\* Faulty: the access is emulated, and the guest returns to the same instruction.
StaysThere == skip' = 0

IncrementCurrentTaskPc == skip' = 4

Panic(i) == panic' = TRUE /\ skip' = 0 /\ regs' = Frame(i) /\ UNCHANGED <<vcpu_sysregs, devices, ring>>

TrapMcrMrcInstructions(i, name) ==
  /\ IF i.op = "mrs"
     THEN /\ Result(i, vcpu_sysregs[name])
          /\ UNCHANGED vcpu_sysregs
     ELSE /\ vcpu_sysregs' = [vcpu_sysregs EXCEPT ![name] = Frame(i)[i.rt]]
          /\ regs' = Frame(i)
  /\ IncrementCurrentTaskPc
  /\ UNCHANGED <<devices, ring, panic>>

HandleTrapSystem(i) ==
  /\ i.op \in {"mrs", "msr"}
  /\ LET names == {p[2] : p \in {q \in IF i.op = "mrs" THEN Mrs ELSE Msr : q[1] = i.at}}
     IN  \/ \E name \in names : TrapMcrMrcInstructions(i, name)
         \/ names = {} /\ Panic(i)

MmioRead(i) ==
  /\ \/ i.at[1] = "uart" /\ UartRead(i)
     \/ i.at[1] = "gic" /\ Result(i, GicRead(i.at[2])) /\ UNCHANGED <<uart, ring>>
     \/ i.at[1] = "other" /\ Result(i, 0) /\ UNCHANGED <<uart, ring>>
  /\ UNCHANGED <<gicd, out, stored>>

MmioWrite(i) ==
  LET data == Frame(i)[i.rt]
  IN  /\ \/ i.at[1] = "uart" /\ UartWrite(i.at[2], data) /\ UNCHANGED gicd
         \/ i.at[1] = "gic" /\ GicWrite(i.at[2], data) /\ UNCHANGED <<uart, out>>
         \/ i.at[1] = "other" /\ UNCHANGED <<gicd, uart, out>>
      /\ stored' = [w \in Plain |-> IF ~Shares(w, i.at) THEN stored[w]
                                    ELSE IF w[1] = "uart" THEN data % UartSize[w[2]] ELSE data]
      /\ regs' = Frame(i)
      /\ UNCHANGED ring

\* A permission fault of stage 2: the page is one of the board's.
HandleMmTrapRegisterAccess(i) ==
  /\ i.op \in {"ldr", "str"} /\ i.at \in Words
  /\ IF i.op = "ldr" THEN MmioRead(i) ELSE MmioWrite(i)
  /\ IncrementCurrentTaskPc
  /\ UNCHANGED <<vcpu_sysregs, panic>>

\* A translation fault: a page is mapped, if there is one, and the guest tries again.
HandleMmTrapMemoryAccessFault(i) ==
  /\ i.op = "ldr" /\ i.at = <<"unmapped">>
  /\ \/ skip' = 0 /\ regs' = Frame(i) /\ UNCHANGED <<vcpu_sysregs, devices, ring, panic>>
     \/ Panic(i)

TrapHandleLowerElAarch64Sync(i) ==
  /\ ~panic
  /\ insn' = i /\ UNCHANGED program
  /\ \/ HandleTrapSystem(i)
     \/ HandleMmTrapRegisterAccess(i)
     \/ HandleMmTrapMemoryAccessFault(i)

\* Between traps: a character is typed, or output printed.
Receive(data) ==
  /\ ~panic /\ Push(data)
  /\ insn' = None /\ UNCHANGED <<program, regs, skip, vcpu_sysregs, devices, panic>>

FlushConsole ==
  /\ ~panic /\ out' = 0
  /\ insn' = None /\ UNCHANGED <<program, ring, regs, skip, vcpu_sysregs, gicd, uart, stored, panic>>

EmuNext ==
  \/ \E i \in program : TrapHandleLowerElAarch64Sync(i)
  \/ \E data \in Data : Receive(data)
  \/ FlushConsole

EmuSpec == EmuInit /\ [][EmuNext]_evars

-----------------------------------------------------------------------------
(* What programs do *)

\* Devices are accessed by words: their size is ignored, and bytes of one word are
\* not told apart.
WordAccesses == Words \subseteq {"uart", "gic", "other"} \X {off \in Nat : off % 4 = 0}

\* Nobody writes CCSIDR_EL1, which has no encoding of MSR.
CcsidrIsReadOnly == \A i \in UNION Programs : i.op = "msr" => i.at # Cache(0)

-----------------------------------------------------------------------------
(* Properties *)

\* A load from a device register gives what was last stored to it, or to the
\* register that shares its word: virtio_gic.cc indexes eight arrays of 32 words
\* with 0 to 31 or 32 to 63, and one of them for reserved offsets too; no other
\* access changes them.
LoadsFollowStores ==
  [][insn'.op = "ldr" /\ insn'.at \in Plain /\ insn'.rt # 31 => regs'[insn'.rt] = stored[insn'.at]]_evars

\* A system register is the vCPU's own, over all the tables that have to agree: the
\* order in which the registers are stored, that of the struct's fields, and the
\* encodings of MRS and MSR.  Reading gives what the machine's register of that name
\* held, or what the guest has written to it, and nothing else changes a copy.
\* Not so for ID_AA64MMFR3_EL1, which gives MPIDR_EL1.
SysregsAreOwn ==
  [][insn'.op \in {"mrs", "msr"} /\ ~panic' /\ insn'.at # Id(7, 3) /\ insn'.rt # 31 =>
       LET name == CHOOSE n \in SysregNames : <<insn'.at, n>> \in Mrs
       IN  /\ insn'.op = "mrs" =>
                regs'[insn'.rt] = IF insn'.at = Actlr THEN vcpu_sysregs[name] ELSE Machine[name]
           /\ vcpu_sysregs' = IF insn'.op = "mrs" THEN vcpu_sysregs
                              ELSE [vcpu_sysregs EXCEPT ![name] = insn'.val]]_evars

\* A trapped instruction is executed once: the guest goes on behind it, unless a
\* page was mapped for it to try again, no register but the one a load names
\* changes, and EL2 stops only for a page it does not have and for registers that
\* the tables of trap.cc leave out.
ExecutedOnce ==
  [][insn' # None =>
       /\ skip' = (IF insn'.at = <<"unmapped">> \/ panic' THEN 0 ELSE 4)
       /\ \A r \in Rts : regs'[r] # Frame(insn')[r] =>
            r = insn'.rt /\ insn'.op \in {"mrs", "ldr"} /\ skip' = 4
       /\ panic' => \/ insn'.at = <<"unmapped">>
                    \/ insn'.op = "msr" /\ insn'.at # Actlr
                    \/ \A p \in Mrs : p[1] # insn'.at]_evars
=============================================================================
