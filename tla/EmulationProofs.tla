-------------------------- MODULE EmulationProofs ---------------------------
(***************************************************************************)
(* The ring buffer implements a bounded queue, whatever its size and what  *)
(* it holds, by itself and as the UART's receive queue while guests' traps *)
(* are emulated.  Trapped instructions are executed once, and what they    *)
(* read of devices and system registers is what the guest stored there.    *)
(* For every set of guest programs.                                        *)
(***************************************************************************)
EXTENDS Emulation, TLAPS, SequenceTheorems

-----------------------------------------------------------------------------
(* The queue by itself *)

\* A ring holds only so much, and there is room exactly when it is not full.
LEMMA RingBounds ==
  ASSUME TypeOK
  PROVE  /\ kMaxSize \in Nat \ {0} /\ head_ \in Nat /\ tail_ \in Nat
         /\ head_ < kMaxSize /\ tail_ < kMaxSize
         /\ Count \in 0 .. kMaxSize - 1
         /\ Full <=> Count = kMaxSize - 1
         /\ Empty <=> Count = 0
<1>1. /\ kMaxSize \in Nat \ {0} /\ head_ \in Nat /\ tail_ \in Nat
      /\ head_ < kMaxSize /\ tail_ < kMaxSize
  BY QueueAssumption DEF TypeOK, Slots
<1>2. (tail_ + 1) % kMaxSize = Succ(tail_)
  <2>1. CASE tail_ + 1 = kMaxSize
    BY <1>1, <2>1 DEF Succ
  <2>2. CASE tail_ + 1 < kMaxSize
    BY <1>1, <2>2 DEF Succ
  <2> QED
    BY <1>1, <2>1, <2>2
<1>3. Full <=> head_ = Succ(tail_)
  BY <1>2 DEF Full
<1>4. Count \in 0 .. kMaxSize - 1
  BY <1>1 DEF Count
<1>5. head_ = Succ(tail_) <=> Count = kMaxSize - 1
  BY <1>1 DEF Succ, Count
<1>6. Empty <=> Count = 0
  BY <1>1 DEF Empty, Count
<1> QED
  BY <1>1, <1>3, <1>4, <1>5, <1>6

\* The index after a slot is a slot.
LEMMA SuccSlot ==
  ASSUME NEW i \in Slots
  PROVE  Succ(i) \in Slots
BY QueueAssumption DEF Succ, Slots

\* No sequence of calls moves an index out of the ring.
THEOREM IndicesInRing == Spec => []TypeOK
<1>1. Init => TypeOK
  BY QueueAssumption DEF Init, TypeOK, Slots
<1>2. TypeOK /\ [Next]_vars => TypeOK'
  <2> SUFFICES ASSUME TypeOK, [Next]_vars PROVE TypeOK'
    OBVIOUS
  <2>1. ASSUME NEW data \in Data, Push(data) PROVE TypeOK'
    BY <2>1, SuccSlot DEF TypeOK, Push
  <2>2. CASE Pop
    BY <2>2, SuccSlot DEF TypeOK, Pop
  <2>3. CASE UNCHANGED vars
    BY <2>3 DEF TypeOK, vars
  <2> QED
    BY <2>1, <2>2, <2>3 DEF Next
<1> QED
  BY <1>1, <1>2, PTL DEF Spec

\* A slot of the ring holds the element at its distance from the head.
LEMMA AtSlot ==
  ASSUME TypeOK, NEW i \in 0 .. Count
  PROVE  /\ At(i) \in Slots
         /\ At(Count) = tail_ /\ At(0) = head_
         /\ i < Count => At(i) # tail_
<1>1. /\ kMaxSize \in Nat \ {0} /\ head_ \in Nat /\ tail_ \in Nat
      /\ head_ < kMaxSize /\ tail_ < kMaxSize /\ Count \in 0 .. kMaxSize - 1
  BY RingBounds
<1>2. At(i) \in Slots
  BY <1>1 DEF At, Slots
<1>3. At(Count) = tail_ /\ At(0) = head_
  BY <1>1 DEF At, Count
<1>4. i < Count => At(i) # tail_
  BY <1>1 DEF At, Count
<1> QED
  BY <1>2, <1>3, <1>4

\* The contents are a sequence.
LEMMA ContentsSeq == TypeOK => Contents \in Seq(Data) /\ Len(Contents) = Count
<1> SUFFICES ASSUME TypeOK PROVE Contents \in Seq(Data) /\ Len(Contents) = Count
  OBVIOUS
<1>1. Count \in Nat
  BY RingBounds
<1>2. ASSUME NEW i \in 1 .. Count PROVE buff_[At(i - 1)] \in Data
  <2>1. i - 1 \in 0 .. Count
    BY <1>1
  <2>2. At(i - 1) \in Slots
    BY <2>1, AtSlot
  <2> QED
    BY <2>2 DEF TypeOK
<1>3. Contents \in [1 .. Count -> Data]
  BY <1>2 DEF Contents
<1> QED
  BY <1>1, <1>3

\* Writing the free slot and moving the tail appends an element.
LEMMA PushStep ==
  ASSUME TypeOK, NEW data \in Data, Push(data), TypeOK'
  PROVE  F!Push(data)
<1>1. CASE Full
  <2>1. Contents' = Contents /\ ret' = 0
    BY <1>1 DEF Push, Contents, Count, At
  <2>2. ~(Len(Contents) < kMaxSize - 1)
    BY <1>1, RingBounds, ContentsSeq
  <2> QED
    BY <2>1, <2>2 DEF F!Push
<1>2. CASE ~Full
  <2>0. /\ kMaxSize \in Nat \ {0} /\ head_ \in Nat /\ tail_ \in Nat
        /\ head_ < kMaxSize /\ tail_ < kMaxSize
        /\ Count \in 0 .. kMaxSize - 1 /\ Count # kMaxSize - 1
    BY <1>2, RingBounds
  <2>1. /\ buff_' = [buff_ EXCEPT ![tail_] = data] /\ tail_' = Succ(tail_)
        /\ head_' = head_ /\ ret' = 1
    BY <1>2 DEF Push
  <2>2. Count' = Count + 1
    <3>1. Succ(tail_) \in Nat
      BY <2>0 DEF Succ
    <3>2. Count' = IF head_ <= Succ(tail_) THEN Succ(tail_) - head_
                   ELSE Succ(tail_) + kMaxSize - head_
      BY <2>1 DEF Count
    <3> QED
      BY <2>0, <3>2 DEF Count, Succ
  <2>3. \A i : At(i)' = At(i)
    BY <2>1 DEF At
  <2>4. ASSUME NEW i \in 1 .. Count PROVE Contents'[i] = Contents[i]
    <3>1. i - 1 \in 0 .. Count /\ i - 1 < Count /\ i \in 1 .. Count + 1
      BY <2>0
    <3>2. At(i - 1) \in Slots /\ At(i - 1) # tail_
      BY <3>1, AtSlot
    <3>3. buff_'[At(i - 1)] = buff_[At(i - 1)]
      BY <2>1, <3>2 DEF TypeOK
    <3>4. Contents'[i] = buff_'[At(i - 1)]
      BY <2>2, <2>3, <3>1 DEF Contents
    <3> QED
      BY <3>3, <3>4 DEF Contents
  <2>5. Contents'[Count + 1] = data
    <3>1. Count + 1 \in 1 .. Count + 1 /\ (Count + 1) - 1 = Count /\ Count \in 0 .. Count
      BY <2>0
    <3>2. Contents'[Count + 1] = buff_'[At(Count)]
      BY <2>2, <2>3, <3>1 DEF Contents
    <3>3. At(Count) = tail_ /\ tail_ \in Slots
      BY <3>1, AtSlot DEF TypeOK
    <3> QED
      BY <2>1, <3>2, <3>3 DEF TypeOK
  <2>6. Contents \in Seq(Data) /\ Len(Contents) = Count
    BY ContentsSeq
  <2>7. Contents' \in Seq(Data) /\ Len(Contents') = Count + 1
    <3>1. (Contents \in Seq(Data) /\ Len(Contents) = Count)'
      BY ContentsSeq, PTL
    <3> QED
      BY <2>2, <3>1
  <2>8. Contents' = Append(Contents, data)
    <3> HIDE DEF Contents, Count
    <3>1. /\ Append(Contents, data) \in Seq(Data)
          /\ Len(Append(Contents, data)) = Count + 1
      BY <2>0, <2>6
    <3>2. ASSUME NEW i \in 1 .. Count + 1
          PROVE  Contents'[i] = Append(Contents, data)[i]
      <4>1. i \in 1 .. Count \/ i = Count + 1
        BY <2>0
      <4> QED
        BY <2>0, <2>4, <2>5, <2>6, <4>1
    <3> QED
      BY <2>7, <3>1, <3>2, SeqEqual
  <2>9. Len(Contents) < kMaxSize - 1
    BY <2>0, <2>6
  <2> QED
    BY <2>1, <2>8, <2>9 DEF F!Push
<1> QED
  BY <1>1, <1>2

\* Moving the head drops the oldest element, which is what is returned.
LEMMA PopStep ==
  ASSUME TypeOK, Pop, TypeOK'
  PROVE  F!Pop
<1>0. Contents \in Seq(Data) /\ Len(Contents) = Count
  BY ContentsSeq
<1>1. CASE Empty
  <2>1. Contents' = Contents /\ ret' = 0
    BY <1>1 DEF Pop, Contents, Count, At
  <2>2. Contents = <<>>
    BY <1>0, <1>1, RingBounds, EmptySeq
  <2> QED
    BY <2>1, <2>2 DEF F!Pop
<1>2. CASE ~Empty
  <2>0. /\ kMaxSize \in Nat \ {0} /\ head_ \in Nat /\ tail_ \in Nat
        /\ head_ < kMaxSize /\ tail_ < kMaxSize
        /\ Count \in 1 .. kMaxSize - 1
    BY <1>2, RingBounds
  <2>1. /\ ret' = buff_[head_] /\ head_' = Succ(head_)
        /\ buff_' = buff_ /\ tail_' = tail_
    BY <1>2 DEF Pop
  <2>2. Count' = Count - 1
    <3>1. Succ(head_) \in Nat
      BY <2>0 DEF Succ
    <3>2. Count' = IF Succ(head_) <= tail_ THEN tail_ - Succ(head_)
                   ELSE tail_ + kMaxSize - Succ(head_)
      BY <2>1 DEF Count
    <3> QED
      BY <2>0, <3>2 DEF Count, Succ
  <2>3. ASSUME NEW i \in 1 .. Count - 1 PROVE Contents'[i] = Contents[i + 1]
    <3>1. At(i - 1)' = At((i + 1) - 1)
      <4>1. At(i - 1)' = IF Succ(head_) + (i - 1) < kMaxSize THEN Succ(head_) + (i - 1)
                         ELSE Succ(head_) + (i - 1) - kMaxSize
        BY <2>1 DEF At
      <4> QED
        BY <2>0, <4>1 DEF At, Succ
    <3>2. Contents'[i] = buff_'[At(i - 1)']
      BY <2>2 DEF Contents
    <3>3. i + 1 \in 1 .. Count
      BY <2>0
    <3> QED
      BY <2>1, <3>1, <3>2, <3>3 DEF Contents
  <2>4. Contents # <<>> /\ Head(Contents) = buff_[head_]
    <3>1. 1 \in 1 .. Count /\ 0 \in 0 .. Count /\ 1 - 1 = 0
      BY <2>0
    <3>2. Contents[1] = buff_[head_]
      BY <3>1, AtSlot DEF Contents
    <3> QED
      BY <1>0, <2>0, <3>2
  <2>5. Contents' \in Seq(Data) /\ Len(Contents') = Count - 1
    <3>1. (Contents \in Seq(Data) /\ Len(Contents) = Count)'
      BY ContentsSeq, PTL
    <3> QED
      BY <2>2, <3>1
  <2>6. Contents' = Tail(Contents)
    <3> HIDE DEF Contents, Count
    <3>1. /\ Tail(Contents) \in Seq(Data) /\ Len(Tail(Contents)) = Count - 1
          /\ \A i \in 1 .. Count - 1 : Tail(Contents)[i] = Contents[i + 1]
      BY <1>0, <2>0, <2>4
    <3> QED
      BY <2>3, <2>5, <3>1, SeqEqual
  <2> QED
    BY <2>1, <2>4, <2>6 DEF F!Pop
<1> QED
  BY <1>1, <1>2

\* The ring of Queue::Push and Queue::Pop is a first-in first-out queue of
\* kMaxSize - 1 elements, whatever kMaxSize.
THEOREM RingIsFifo == Spec => ImplementsFifo
<1>1. Init => F!Init
  <2> SUFFICES ASSUME Init PROVE F!Init
    OBVIOUS
  <2>1. Count = 0
    BY DEF Init, Count
  <2>2. TypeOK
    BY QueueAssumption DEF Init, TypeOK, Slots
  <2>3. Contents \in Seq(Data) /\ Len(Contents) = 0
    BY <2>1, <2>2, ContentsSeq
  <2>4. Contents = <<>>
    BY <2>3, EmptySeq
  <2> QED
    BY <2>4 DEF F!Init, Init
<1>2. TypeOK /\ TypeOK' /\ [Next]_vars => [F!Next]_<<Contents, ret>>
  <2> SUFFICES ASSUME TypeOK, TypeOK', [Next]_vars PROVE [F!Next]_<<Contents, ret>>
    OBVIOUS
  <2>1. ASSUME NEW data \in Data, Push(data) PROVE F!Next
    BY <2>1, PushStep DEF F!Next
  <2>2. CASE Pop
    BY <2>2, PopStep DEF F!Next
  <2>3. CASE UNCHANGED vars
    BY <2>3 DEF vars, Contents, Count, At
  <2> QED
    BY <2>1, <2>2, <2>3 DEF Next
<1> QED
  BY <1>1, <1>2, IndicesInRing, PTL DEF Spec, ImplementsFifo, F!Spec

-----------------------------------------------------------------------------
(* The queue in the UART *)

\* A step of the emulation is a call of Push or Pop, or does not touch the ring.
LEMMA StepOfRing ==
  ASSUME EmuNext
  PROVE  Next \/ UNCHANGED vars
<1>1. ASSUME NEW i \in program, TrapHandleLowerElAarch64Sync(i)
      PROVE  Next \/ UNCHANGED vars
  <2>1. CASE HandleTrapSystem(i)
    BY <2>1 DEF HandleTrapSystem, TrapMcrMrcInstructions, Panic, ring, vars
  <2>2. CASE HandleMmTrapRegisterAccess(i)
    <3>1. CASE MmioRead(i)
      BY <3>1 DEF MmioRead, UartRead, FetchChar, Next, ring, vars
    <3>2. CASE MmioWrite(i)
      BY <3>2 DEF MmioWrite, ring, vars
    <3> QED
      BY <2>2, <3>1, <3>2 DEF HandleMmTrapRegisterAccess
  <2>3. CASE HandleMmTrapMemoryAccessFault(i)
    BY <2>3 DEF HandleMmTrapMemoryAccessFault, Panic, ring, vars
  <2> QED
    BY <1>1, <2>1, <2>2, <2>3 DEF TrapHandleLowerElAarch64Sync
<1>2. ASSUME NEW data \in Data, Receive(data) PROVE Next
  BY <1>2 DEF Receive, Next
<1>3. ASSUME FlushConsole PROVE UNCHANGED vars
  BY <1>3 DEF FlushConsole, ring, vars
<1> QED
  BY <1>1, <1>2, <1>3 DEF EmuNext

\* Guests' accesses use the queue only through Push and Pop, so it remains one:
\* a character that was accepted waits until the flags are read, whatever else
\* guests do in between, and is fetched once.
THEOREM EmulatedRingIsFifo == EmuSpec => ImplementsFifo
<1>1. EmuInit => Init
  BY DEF EmuInit
<1>2. [EmuNext]_evars => [Next]_vars
  <2>1. UNCHANGED evars => UNCHANGED vars
    BY DEF evars, ring, vars
  <2> QED
    BY <2>1, StepOfRing
<1> QED
  BY <1>1, <1>2, RingIsFifo, PTL DEF EmuSpec, Spec

-----------------------------------------------------------------------------
(* The instruction that trapped *)

\* A frame holds the two registers, and a result changes one of them.
LEMMA ResultFrame ==
  ASSUME NEW i, NEW res, NEW r \in Rts, r # i.rt, Result(i, res)
  PROVE  regs'[r] = Frame(i)[r]
BY DEF Result, Frame

\* Whatever a page or a register holds, MMIO leaves the registers alone that a load
\* does not name.
LEMMA MmioOnce ==
  ASSUME NEW i, HandleMmTrapRegisterAccess(i), NEW r \in Rts, regs'[r] # Frame(i)[r]
  PROVE  r = i.rt /\ i.op = "ldr"
<1>1. CASE i.op = "ldr"
  <2>1. \E res : Result(i, res)
    BY <1>1 DEF HandleMmTrapRegisterAccess, MmioRead, UartRead
  <2> QED
    BY <1>1, <2>1, ResultFrame
<1>2. CASE i.op = "str"
  BY <1>2 DEF HandleMmTrapRegisterAccess, MmioWrite
<1> QED
  BY <1>1, <1>2 DEF HandleMmTrapRegisterAccess

\* A system register that is in the table of its instruction is read or written, for
\* any other EL2 stops.
LEMMA SystemOnce ==
  ASSUME NEW i, HandleTrapSystem(i), ~panic
  PROVE  \/ /\ panic' = panic /\ skip' = 4 /\ i.at # <<"unmapped">>
            /\ \A r \in Rts : regs'[r] # Frame(i)[r] => r = i.rt /\ i.op = "mrs"
         \/ /\ panic' /\ skip' = 0 /\ regs' = Frame(i)
            /\ (i.op = "msr" /\ i.at # Actlr) \/ \A p \in Mrs : p[1] # i.at
<1> DEFINE table == IF i.op = "mrs" THEN Mrs ELSE Msr
           names == {p[2] : p \in {q \in table : q[1] = i.at}}
<1>0. i.op \in {"mrs", "msr"}
  BY DEF HandleTrapSystem
<1>1. \/ \E name \in names : TrapMcrMrcInstructions(i, name)
      \/ names = {} /\ Panic(i)
  BY DEF HandleTrapSystem
<1>2. ASSUME NEW name \in names, TrapMcrMrcInstructions(i, name)
      PROVE  /\ panic' = panic /\ skip' = 4 /\ i.at # <<"unmapped">>
             /\ \A r \in Rts : regs'[r] # Frame(i)[r] => r = i.rt /\ i.op = "mrs"
  <2>1. PICK q \in table : q[1] = i.at
    OBVIOUS
  <2>2. q[1] # <<"unmapped">>
    <3>1. \A p \in Mrs \cup Msr : Len(p[1]) = 4
      BY DEF Mrs, Msr, Actlr, Id, Cache
    <3>2. Len(<<"unmapped">>) = 1
      OBVIOUS
    <3> QED
      BY <3>1, <3>2
  <2>3. panic' = panic /\ skip' = 4
    BY <1>2 DEF TrapMcrMrcInstructions, IncrementCurrentTaskPc
  <2>4. ASSUME NEW r \in Rts, regs'[r] # Frame(i)[r] PROVE r = i.rt /\ i.op = "mrs"
    BY <1>0, <1>2, <2>4, ResultFrame DEF TrapMcrMrcInstructions
  <2> QED
    BY <2>1, <2>2, <2>3, <2>4
<1>3. CASE names = {} /\ Panic(i)
  <2>1. \A q \in table : q[1] # i.at
    BY <1>3
  <2>2. <<Actlr, "actlr_el1">> \in Msr /\ <<Actlr, "actlr_el1">>[1] = Actlr
    BY DEF Msr
  <2>3. (i.op = "msr" /\ i.at # Actlr) \/ \A p \in Mrs : p[1] # i.at
    BY <1>0, <2>1, <2>2
  <2> QED
    BY <1>3, <2>3 DEF Panic
<1> QED
  BY <1>1, <1>2, <1>3

\* The guest goes on behind the instruction it trapped on or executes it again, with
\* one register changed at most; for any program and any device registers.
THEOREM TrapsExecuteOnce == EmuSpec => ExecutedOnce
<1> DEFINE Once ==
      insn' # None =>
       /\ skip' = (IF insn'.at = <<"unmapped">> \/ panic' THEN 0 ELSE 4)
       /\ \A r \in Rts : regs'[r] # Frame(insn')[r] =>
            r = insn'.rt /\ insn'.op \in {"mrs", "ldr"} /\ skip' = 4
       /\ panic' => \/ insn'.at = <<"unmapped">>
                    \/ insn'.op = "msr" /\ insn'.at # Actlr
                    \/ \A p \in Mrs : p[1] # insn'.at
<1>1. ASSUME NEW i \in program, TrapHandleLowerElAarch64Sync(i) PROVE Once
  <2>0. ~panic /\ insn' = i
    BY <1>1 DEF TrapHandleLowerElAarch64Sync
  <2>1. CASE HandleTrapSystem(i)
    BY <2>0, <2>1, SystemOnce
  <2>2. CASE HandleMmTrapRegisterAccess(i)
    <3>1. panic' = panic /\ skip' = 4 /\ i.at # <<"unmapped">>
      BY <2>2 DEF HandleMmTrapRegisterAccess, IncrementCurrentTaskPc, Words
    <3> QED
      BY <2>0, <2>2, <3>1, MmioOnce
  <2>3. CASE HandleMmTrapMemoryAccessFault(i)
    BY <2>0, <2>3 DEF HandleMmTrapMemoryAccessFault, Panic
  <2> QED
    BY <1>1, <2>1, <2>2, <2>3 DEF TrapHandleLowerElAarch64Sync
<1>2. [EmuNext]_evars => [Once]_evars
  <2>1. ASSUME NEW data \in Data, Receive(data) PROVE Once
    BY <2>1 DEF Receive
  <2>2. CASE FlushConsole
    BY <2>2 DEF FlushConsole
  <2> QED
    BY <1>1, <2>1, <2>2 DEF EmuNext
<1> QED
  BY <1>2, PTL DEF EmuSpec, ExecutedOnce

-----------------------------------------------------------------------------
(* The words of the distributor *)

\* The test that takes an offset, and the word it comes to.
LEMMA FirstBank ==
  ASSUME NEW off, NEW n \in BanksOf(off), BanksOf(off) \subseteq Nat,
         \A j \in BanksOf(off) : n <= j
  PROVE  GicWord(off) = Banks[n].word + ((off % Banks[n].size) \div 4)
<1> DEFINE First(i) == \A j \in BanksOf(off) : i <= j
           first == CHOOSE i \in BanksOf(off) : First(i)
<1>1. first \in BanksOf(off) /\ First(first)
  <2>1. \E i \in BanksOf(off) : First(i)
    OBVIOUS
  <2> HIDE DEF First
  <2> QED
    BY <2>1
<1>2. first = n
  <2>1. first <= n /\ n <= first
    BY <1>1
  <2>2. first \in Nat /\ n \in Nat
    BY <1>1
  <2> HIDE DEF first
  <2> QED
    BY <2>1, <2>2
<1>3. GicWord(off) = Banks[first].word + ((off % Banks[first].size) \div 4)
  BY DEF GicWord
<1> QED
  BY <1>2, <1>3

\* The tests, without the records.
LEMMA Tests ==
  ASSUME NEW off \in Nat
  PROVE  /\ BanksOf(off) \subseteq 1 .. 17
         /\ 1 \in BanksOf(off) <=> off < \h1
         /\ 2 \in BanksOf(off) <=> \h4 <= off /\ off < \h5
         /\ 3 \in BanksOf(off) <=> \h8 <= off /\ off < \h9
         /\ 4 \in BanksOf(off) <=> \h80 <= off /\ off < \h100
         /\ 5 \in BanksOf(off) <=> off < \h180
         /\ 6 \in BanksOf(off) <=> off < \h200
         /\ 7 \in BanksOf(off) <=> off < \h280
         /\ 8 \in BanksOf(off) <=> off < \h300
         /\ 9 \in BanksOf(off) <=> off < \h380
         /\ 10 \in BanksOf(off) <=> off < \h400
         /\ 11 \in BanksOf(off) <=> off < \h7fc
         /\ 12 \in BanksOf(off) <=> \h800 <= off /\ off < \hbfc
         /\ 13 \in BanksOf(off) <=> \hc00 <= off /\ off < \hd00
         /\ 14 \in BanksOf(off) <=> \he00 <= off /\ off < \hf00
         /\ 15 \in BanksOf(off) <=> \hf00 <= off /\ off < \hf01
         /\ 16 \in BanksOf(off) <=> \hf10 <= off /\ off < \hf20
         /\ 17 \in BanksOf(off) <=> \hf20 <= off /\ off < \hf30
<1>1. Len(Banks) = 17
  BY DEF Banks
<1>2. BanksOf(off) = {i \in 1 .. 17 : Banks[i].from <= off /\ off < Banks[i].to}
  BY <1>1 DEF BanksOf
<1>3. /\ Banks[1].from = 0 /\ Banks[1].to = \h1
      /\ Banks[2].from = \h4 /\ Banks[2].to = \h5
      /\ Banks[3].from = \h8 /\ Banks[3].to = \h9
      /\ Banks[4].from = \h80 /\ Banks[4].to = \h100
      /\ Banks[5].from = 0 /\ Banks[5].to = \h180
      /\ Banks[6].from = 0 /\ Banks[6].to = \h200
      /\ Banks[7].from = 0 /\ Banks[7].to = \h280
      /\ Banks[8].from = 0 /\ Banks[8].to = \h300
      /\ Banks[9].from = 0 /\ Banks[9].to = \h380
  BY DEF Banks, Bank
<1>4. /\ Banks[10].from = 0 /\ Banks[10].to = \h400
      /\ Banks[11].from = 0 /\ Banks[11].to = \h7fc
      /\ Banks[12].from = \h800 /\ Banks[12].to = \hbfc
      /\ Banks[13].from = \hc00 /\ Banks[13].to = \hd00
      /\ Banks[14].from = \he00 /\ Banks[14].to = \hf00
      /\ Banks[15].from = \hf00 /\ Banks[15].to = \hf01
      /\ Banks[16].from = \hf10 /\ Banks[16].to = \hf20
      /\ Banks[17].from = \hf20 /\ Banks[17].to = \hf30
  BY DEF Banks, Bank
<1> QED
  BY <1>2, <1>3, <1>4

\* Where the word of the register k words into the distributor is in the struct: the
\* tests resolved.
Place(k) ==
  CASE k < 3                            -> k
    [] 3 <= k /\ k < 32                 -> k + 35
    [] 32 <= k /\ k < 64                -> k + 3
    [] 64 <= k /\ k < 96                -> k - 29
    [] 96 <= k /\ k < 128               -> k + 3
    [] 128 <= k /\ k < 160              -> k - 29
    [] 160 <= k /\ k < 192              -> k + 3
    [] 192 <= k /\ k < 224              -> k - 29
    [] 224 <= k /\ k < 256              -> k + 3
    [] 256 <= k /\ k < 511              -> k - 29
    [] 512 <= k /\ k < 767              -> k - 30
    [] 768 <= k /\ k < 832              -> k - 31
    [] 896 <= k /\ k <= 960             -> k - 95
    [] 964 <= k /\ k < 972              -> k - 98

Placed(k) ==
  k < 511 \/ (512 <= k /\ k < 767) \/ (768 <= k /\ k < 832) \/ (896 <= k /\ k <= 960)
    \/ (964 <= k /\ k < 972)

\* The first of the tests that holds decides.
LEMMA BankOf ==
  ASSUME NEW k \in Nat, NEW n \in 1 .. 17, n \in BanksOf(4 * k),
         \A j \in 1 .. 17 : j < n => j \notin BanksOf(4 * k)
  PROVE  GicWord(4 * k) = Banks[n].word + (((4 * k) % Banks[n].size) \div 4)
<1>1. 4 * k \in Nat
  OBVIOUS
<1>2. BanksOf(4 * k) \subseteq 1 .. 17
  BY <1>1, Tests
<1>3. \A j \in BanksOf(4 * k) : n <= j
  BY <1>2
<1> QED
  BY <1>2, <1>3, FirstBank

LEMMA WordOf ==
  ASSUME NEW k \in Nat, BanksOf(4 * k) # {}
  PROVE  Placed(k) /\ GicWord(4 * k) = Place(k)
<1> DEFINE W(n) == Banks[n].word + (((4 * k) % Banks[n].size) \div 4)
<1>0. 4 * k \in Nat
  OBVIOUS
<1>1. Placed(k)
  BY <1>0, Tests DEF Placed
<1>2. CASE k = 0
  <2>1. GicWord(4 * k) = W(1)
    BY <1>0, <1>2, Tests, BankOf
  <2>2. Banks[1].word = 0 /\ Banks[1].size = 4
    BY DEF Banks, Bank
  <2>3. 4 * k = 0 /\ 0 % 4 = 0 /\ 0 \div 4 = 0
    BY <1>2
  <2> QED
    BY <1>1, <1>2, <2>1, <2>2, <2>3 DEF Place
<1>3. CASE k = 1
  <2>0. 2 \in BanksOf(4 * k) /\ \A j \in 1 .. 17 : j < 2 => j \notin BanksOf(4 * k)
    BY <1>0, <1>3, Tests
  <2>1. GicWord(4 * k) = W(2)
    BY <2>0, BankOf
  <2>2. Banks[2].word = 1 /\ Banks[2].size = 4
    BY DEF Banks, Bank
  <2>3. 4 * k = 4 /\ 4 % 4 = 0 /\ 0 \div 4 = 0
    BY <1>3
  <2> QED
    BY <1>1, <1>3, <2>1, <2>2, <2>3 DEF Place
<1>4. CASE k = 2
  <2>0. 3 \in BanksOf(4 * k) /\ \A j \in 1 .. 17 : j < 3 => j \notin BanksOf(4 * k)
    BY <1>0, <1>4, Tests
  <2>1. GicWord(4 * k) = W(3)
    BY <2>0, BankOf
  <2>2. Banks[3].word = 2 /\ Banks[3].size = 4
    BY DEF Banks, Bank
  <2>3. 4 * k = 8 /\ 8 % 4 = 0 /\ 0 \div 4 = 0
    BY <1>4
  <2> QED
    BY <1>1, <1>4, <2>1, <2>2, <2>3 DEF Place
<1>5. CASE 32 <= k /\ k < 64
  <2>1. GicWord(4 * k) = W(4)
    BY <1>0, <1>5, Tests, BankOf
  <2>2. Banks[4].word = 3 /\ Banks[4].size = 256
    BY DEF Banks, Bank
  <2> QED
    BY <1>1, <1>5, <2>1, <2>2 DEF Place
<1>6. CASE (3 <= k /\ k < 32) \/ (64 <= k /\ k < 96)
  <2>1. GicWord(4 * k) = W(5)
    BY <1>0, <1>6, Tests, BankOf
  <2>2. Banks[5].word = 35 /\ Banks[5].size = 256
    BY DEF Banks, Bank
  <2> QED
    BY <1>1, <1>6, <2>1, <2>2 DEF Place
<1>7. CASE 96 <= k /\ k < 128
  <2>1. GicWord(4 * k) = W(6)
    BY <1>0, <1>7, Tests, BankOf
  <2>2. Banks[6].word = 67 /\ Banks[6].size = 256
    BY DEF Banks, Bank
  <2> QED
    BY <1>1, <1>7, <2>1, <2>2 DEF Place
<1>8. CASE 128 <= k /\ k < 160
  <2>1. GicWord(4 * k) = W(7)
    BY <1>0, <1>8, Tests, BankOf
  <2>2. Banks[7].word = 99 /\ Banks[7].size = 256
    BY DEF Banks, Bank
  <2> QED
    BY <1>1, <1>8, <2>1, <2>2 DEF Place
<1>9. CASE 160 <= k /\ k < 192
  <2>1. GicWord(4 * k) = W(8)
    BY <1>0, <1>9, Tests, BankOf
  <2>2. Banks[8].word = 131 /\ Banks[8].size = 256
    BY DEF Banks, Bank
  <2> QED
    BY <1>1, <1>9, <2>1, <2>2 DEF Place
<1>10. CASE 192 <= k /\ k < 224
  <2>1. GicWord(4 * k) = W(9)
    BY <1>0, <1>10, Tests, BankOf
  <2>2. Banks[9].word = 163 /\ Banks[9].size = 256
    BY DEF Banks, Bank
  <2> QED
    BY <1>1, <1>10, <2>1, <2>2 DEF Place
<1>11. CASE 224 <= k /\ k < 256
  <2>1. GicWord(4 * k) = W(10)
    BY <1>0, <1>11, Tests, BankOf
  <2>2. Banks[10].word = 195 /\ Banks[10].size = 256
    BY DEF Banks, Bank
  <2> QED
    BY <1>1, <1>11, <2>1, <2>2 DEF Place
<1>12. CASE 256 <= k /\ k < 511
  <2>1. GicWord(4 * k) = W(11)
    BY <1>0, <1>12, Tests, BankOf
  <2>2. Banks[11].word = 227 /\ Banks[11].size = 1024
    BY DEF Banks, Bank
  <2> QED
    BY <1>1, <1>12, <2>1, <2>2 DEF Place
<1>13. CASE 512 <= k /\ k < 767
  <2>1. GicWord(4 * k) = W(12)
    BY <1>0, <1>13, Tests, BankOf
  <2>2. Banks[12].word = 482 /\ Banks[12].size = 1024
    BY DEF Banks, Bank
  <2> QED
    BY <1>1, <1>13, <2>1, <2>2 DEF Place
<1>14. CASE 768 <= k /\ k < 832
  <2>1. GicWord(4 * k) = W(13)
    BY <1>0, <1>14, Tests, BankOf
  <2>2. Banks[13].word = 737 /\ Banks[13].size = 256
    BY DEF Banks, Bank
  <2> QED
    BY <1>1, <1>14, <2>1, <2>2 DEF Place
<1>15. CASE 896 <= k /\ k < 960
  <2>1. GicWord(4 * k) = W(14)
    BY <1>0, <1>15, Tests, BankOf
  <2>2. Banks[14].word = 801 /\ Banks[14].size = 256
    BY DEF Banks, Bank
  <2> QED
    BY <1>1, <1>15, <2>1, <2>2 DEF Place
<1>16. CASE k = 960
  <2>0. 15 \in BanksOf(4 * k) /\ \A j \in 1 .. 17 : j < 15 => j \notin BanksOf(4 * k)
    BY <1>0, <1>16, Tests
  <2>1. GicWord(4 * k) = W(15)
    BY <2>0, BankOf
  <2>2. Banks[15].word = 865 /\ Banks[15].size = 4
    BY DEF Banks, Bank
  <2>3. 4 * k = 3840 /\ 3840 % 4 = 0 /\ 0 \div 4 = 0
    BY <1>16
  <2> QED
    BY <1>1, <1>16, <2>1, <2>2, <2>3 DEF Place
<1>17. CASE 964 <= k /\ k < 968
  <2>1. GicWord(4 * k) = W(16)
    BY <1>0, <1>17, Tests, BankOf
  <2>2. Banks[16].word = 866 /\ Banks[16].size = 16
    BY DEF Banks, Bank
  <2> QED
    BY <1>1, <1>17, <2>1, <2>2 DEF Place
<1>18. CASE 968 <= k /\ k < 972
  <2>1. GicWord(4 * k) = W(17)
    BY <1>0, <1>18, Tests, BankOf
  <2>2. Banks[17].word = 870 /\ Banks[17].size = 16
    BY DEF Banks, Bank
  <2> QED
    BY <1>1, <1>18, <2>1, <2>2 DEF Place
<1> QED
  BY <1>1, <1>2, <1>3, <1>4, <1>5, <1>6, <1>7, <1>8, <1>9, <1>10, <1>11,
     <1>12, <1>13, <1>14, <1>15, <1>16, <1>17, <1>18 DEF Placed

\* The pairs of registers that share a word are those of Shares, and no others.
LEMMA SharesWord ==
  ASSUME NEW a \in Nat, NEW b \in Nat, BanksOf(4 * a) # {}, BanksOf(4 * b) # {}
  PROVE  Shares(<<"gic", 4 * a>>, <<"gic", 4 * b>>) <=> GicWord(4 * a) = GicWord(4 * b)
<1> DEFINE Behind(x, y) ==
             \/ 3 <= x /\ x < 64 /\ y = x + 32
             \/ 96 <= x /\ x < 128 /\ y = x + 32
             \/ 160 <= x /\ x < 192 /\ y = x + 32
             \/ 224 <= x /\ x < 256 /\ y = x + 32
             \/ 3 <= x /\ x < 32 /\ y = x + 64
<1>1. /\ GicWord(4 * a) = Place(a) /\ Placed(a)
      /\ GicWord(4 * b) = Place(b) /\ Placed(b)
  BY WordOf
<1>2. Place(a) = Place(b) <=> a = b \/ Behind(a, b) \/ Behind(b, a)
  BY <1>1 DEF Place, Placed
<1>3. ASSUME NEW x \in {a, b}, NEW y \in {a, b}
      PROVE  Behind(x, y) <=>
               (\/ 4 * x \in SecondHalf \cup Reserved /\ 4 * y = 4 * x + \h80
                \/ 4 * x \in Reserved /\ 4 * y = 4 * x + \h100)
  BY <1>3 DEF SecondHalf, Reserved
<1>4. Shares(<<"gic", 4 * a>>, <<"gic", 4 * b>>) <=>
        a = b \/ \E x, y \in {a, b} : Behind(x, y)
  <2> HIDE DEF Behind
  <2>0. \A u \in {4 * a, 4 * b} : \E x \in {a, b} : u = 4 * x
    OBVIOUS
  <2>1. (\E u, v \in {4 * a, 4 * b} :
           \/ u \in SecondHalf \cup Reserved /\ v = u + \h80
           \/ u \in Reserved /\ v = u + \h100)
        <=> (\E x, y \in {a, b} : Behind(x, y))
    <3>1. ASSUME NEW u \in {4 * a, 4 * b}, NEW v \in {4 * a, 4 * b},
                 \/ u \in SecondHalf \cup Reserved /\ v = u + \h80
                 \/ u \in Reserved /\ v = u + \h100
          PROVE  \E x, y \in {a, b} : Behind(x, y)
      BY <1>3, <2>0, <3>1
    <3>2. ASSUME NEW x \in {a, b}, NEW y \in {a, b}, Behind(x, y)
          PROVE  LET u == 4 * x
                     v == 4 * y
                 IN  /\ u \in {4 * a, 4 * b} /\ v \in {4 * a, 4 * b}
                     /\ \/ u \in SecondHalf \cup Reserved /\ v = u + \h80
                        \/ u \in Reserved /\ v = u + \h100
      BY <1>3, <3>2
    <3> QED
      BY <3>1, <3>2
  <2>2. <<"gic", 4 * a>> = <<"gic", 4 * b>> <=> a = b
    OBVIOUS
  <2> QED
    BY <2>1, <2>2 DEF Shares
<1>5. (\E x, y \in {a, b} : Behind(x, y)) <=> Behind(a, b) \/ Behind(b, a)
  <2>1. ~Behind(a, a) /\ ~Behind(b, b)
    OBVIOUS
  <2> HIDE DEF Behind
  <2> QED
    BY <2>1
<1> QED
  BY <1>1, <1>2, <1>4, <1>5

\* A register that shares a word has one.
LEMMA SharesBank ==
  ASSUME NEW a \in Nat, NEW b \in Nat, BanksOf(4 * a) # {},
         Shares(<<"gic", 4 * a>>, <<"gic", 4 * b>>)
  PROVE  BanksOf(4 * b) # {}
<1>1. CASE a = b
  BY <1>1
<1>2. CASE a # b
  <2>0. <<"gic", 4 * a>> # <<"gic", 4 * b>>
    BY <1>2
  <2>1. b < 288
    <3>1. PICK x, y \in {4 * a, 4 * b} :
                 \/ x \in SecondHalf \cup Reserved /\ y = x + \h80
                 \/ x \in Reserved /\ y = x + \h100
      BY <2>0 DEF Shares
    <3>2. x < \h400 /\ y < \h480
      BY <3>1 DEF SecondHalf, Reserved
    <3>3. 4 * b = x \/ 4 * b = y
      BY <1>2, <3>1 DEF SecondHalf, Reserved
    <3> QED
      BY <3>2, <3>3
  <2>2. 4 * b \in Nat /\ 4 * b < \h480
    BY <2>1
  <2> QED
    BY <2>2, Tests
<1> QED
  BY <1>1, <1>2

-----------------------------------------------------------------------------
(* What was stored *)

\* A device word is a page's name and a word boundary in it.
LEMMA Word ==
  ASSUME WordAccesses, NEW w \in Words
  PROVE  /\ w[1] \in {"uart", "gic", "other"}
         /\ \E k \in Nat : w = <<w[1], 4 * k>>
<1>1. w \in {"uart", "gic", "other"} \X {off \in Nat : off % 4 = 0}
  BY DEF WordAccesses
<1>2. w = <<w[1], w[2]>> /\ w[1] \in {"uart", "gic", "other"} /\ w[2] \in Nat /\ w[2] % 4 = 0
  BY <1>1
<1>3. w[2] \div 4 \in Nat /\ w[2] = 4 * (w[2] \div 4)
  BY <1>2
<1> QED
  BY <1>2, <1>3

\* What is kept of the stores of the guest is what the devices hold.
StoreInv ==
  /\ program \in Programs
  /\ DOMAIN gicd = {GicWord(o) : o \in {x \in GicOffsets : BanksOf(x) # {}}}
  /\ DOMAIN uart = DOMAIN UartSize
  /\ DOMAIN stored = Plain
  /\ \A w \in Plain : stored[w] = IF w[1] = "gic" THEN gicd[GicWord(w[2])] ELSE uart[w[2]]

LEMMA PlainWord ==
  ASSUME WordAccesses, NEW w \in Plain
  PROVE  /\ w \in Words
         /\ \/ /\ w[1] = "gic" /\ BanksOf(w[2]) # {} /\ w[2] \in GicOffsets
               /\ \E k \in Nat : w = <<"gic", 4 * k>>
            \/ /\ w[1] = "uart" /\ w[2] \in DOMAIN UartSize \ {UARTDR, UARTFR}
               /\ w = <<"uart", w[2]>>
<1>1. w \in Words
  BY DEF Plain
<1>2. CASE w[1] = "gic"
  BY <1>1, <1>2, Word DEF Plain, GicOffsets
<1>3. CASE w[1] # "gic"
  BY <1>1, <1>3, Word DEF Plain
<1> QED
  BY <1>1, <1>2, <1>3

LEMMA StoreInit == EmuInit => StoreInv
<1> SUFFICES ASSUME EmuInit PROVE StoreInv
  OBVIOUS
<1>1. /\ program \in Programs
      /\ gicd = [w \in {GicWord(o) : o \in {x \in GicOffsets : BanksOf(x) # {}}} |-> 0]
      /\ uart = UartReset
      /\ stored = [w \in Plain |-> IF w[1] = "gic" THEN 0 ELSE UartReset[w[2]]]
  BY DEF EmuInit
<1>2. DOMAIN uart = DOMAIN UartSize
  BY <1>1 DEF UartReset
<1>3. ASSUME NEW w \in Plain, w[1] = "gic" PROVE gicd[GicWord(w[2])] = 0
  <2>1. w[2] \in GicOffsets /\ BanksOf(w[2]) # {}
    BY <1>3 DEF Plain, GicOffsets
  <2> QED
    BY <1>1, <2>1
<1> QED
  BY <1>1, <1>2, <1>3 DEF StoreInv

\* A load changes no register but the UART's data and flags.
LEMMA StoreRead ==
  ASSUME StoreInv, NEW i, MmioRead(i), UNCHANGED program
  PROVE  StoreInv'
<1>1. gicd' = gicd /\ stored' = stored
  BY DEF MmioRead
<1>2. DOMAIN uart' = DOMAIN uart
  BY DEF MmioRead, UartRead, FetchChar, ring
<1>3. ASSUME NEW off \in DOMAIN UartSize \ {UARTDR, UARTFR} PROVE uart'[off] = uart[off]
  BY <1>3 DEF MmioRead, UartRead, FetchChar, ring, StoreInv
<1>4. ASSUME NEW w \in Plain, w[1] # "gic" PROVE w[2] \in DOMAIN UartSize \ {UARTDR, UARTFR}
  BY <1>4 DEF Plain
<1> QED
  BY <1>1, <1>2, <1>3, <1>4 DEF StoreInv

\* A store changes the register it names, and of the others those that share its word.
LEMMA StoreWrite ==
  ASSUME WordAccesses, StoreInv, NEW i, i.at \in Words, MmioWrite(i), UNCHANGED program
  PROVE  StoreInv'
<1> DEFINE data == Frame(i)[i.rt]
           D == {GicWord(o) : o \in {x \in GicOffsets : BanksOf(x) # {}}}
<1>1. PICK k \in Nat : i.at = <<i.at[1], 4 * k>>
  BY Word
<1>2. stored' = [w \in Plain |-> IF ~Shares(w, i.at) THEN stored[w]
                                 ELSE IF w[1] = "uart" THEN data % UartSize[w[2]] ELSE data]
  BY DEF MmioWrite
<1>3. \/ i.at[1] = "uart" /\ UartWrite(i.at[2], data) /\ UNCHANGED gicd
      \/ i.at[1] = "gic" /\ GicWrite(i.at[2], data) /\ UNCHANGED <<uart, out>>
      \/ i.at[1] = "other" /\ UNCHANGED <<gicd, uart, out>>
  BY DEF MmioWrite
<1> HIDE DEF data
<1>4. /\ DOMAIN gicd = D /\ DOMAIN gicd' = D
      /\ DOMAIN uart = DOMAIN UartSize /\ DOMAIN uart' = DOMAIN UartSize
      /\ DOMAIN stored' = Plain
  BY <1>2, <1>3 DEF UartWrite, GicWrite, StoreInv
<1>5. ASSUME NEW w \in Plain, w[1] = "gic" PROVE stored'[w] = gicd'[GicWord(w[2])]
  <2>1. stored[w] = gicd[GicWord(w[2])]
    BY <1>5 DEF StoreInv
  <2>2. w[2] \in GicOffsets /\ BanksOf(w[2]) # {} /\ \E n \in Nat : w = <<"gic", 4 * n>>
    BY <1>5, PlainWord
  <2>3. CASE i.at[1] # "gic"
    <3>1. gicd' = gicd
      BY <1>3, <2>3
    <3>2. ~Shares(w, i.at)
      BY <1>5, <2>3 DEF Shares
    <3> QED
      BY <1>2, <2>1, <3>1, <3>2
  <2>4. CASE i.at[1] = "gic"
    <3>0. PICK n \in Nat : w = <<"gic", 4 * n>>
      BY <2>2
    <3>1. gicd' = IF BanksOf(4 * k) = {} THEN gicd ELSE [gicd EXCEPT ![GicWord(4 * k)] = data]
      BY <1>1, <1>3, <2>4 DEF GicWrite
    <3>2. GicWord(4 * n) \in DOMAIN gicd
      BY <1>4, <2>2, <3>0
    <3>3. i.at = <<"gic", 4 * k>> /\ w[2] = 4 * n /\ BanksOf(4 * n) # {}
      BY <1>1, <2>2, <2>4, <3>0
    <3>4. CASE Shares(w, i.at)
      <4>1. BanksOf(4 * k) # {}
        BY <3>0, <3>3, <3>4, SharesBank
      <4>2. GicWord(4 * n) = GicWord(4 * k)
        BY <3>0, <3>3, <3>4, <4>1, SharesWord
      <4> QED
        BY <1>2, <1>5, <3>1, <3>2, <3>3, <3>4, <4>1, <4>2
    <3>5. CASE ~Shares(w, i.at)
      <4>1. BanksOf(4 * k) = {} \/ GicWord(4 * n) # GicWord(4 * k)
        BY <3>0, <3>3, <3>5, SharesWord
      <4>2. gicd'[GicWord(4 * n)] = gicd[GicWord(4 * n)]
        BY <3>1, <3>2, <4>1
      <4> QED
        BY <1>2, <2>1, <3>3, <3>5, <4>2
    <3> QED
      BY <3>4, <3>5
  <2> QED
    BY <2>3, <2>4
<1>6. ASSUME NEW w \in Plain, w[1] # "gic" PROVE stored'[w] = uart'[w[2]]
  <2>1. stored[w] = uart[w[2]]
    BY <1>6 DEF StoreInv
  <2>2. w[1] = "uart" /\ w[2] \in DOMAIN UartSize /\ w = <<"uart", w[2]>>
    BY <1>6, PlainWord
  <2>3. Shares(w, i.at) <=> w = i.at
    BY <2>2 DEF Shares
  <2>4. CASE w = i.at
    <3>1. uart' = [uart EXCEPT ![w[2]] = data % UartSize[w[2]]]
      BY <1>3, <2>2, <2>4 DEF UartWrite
    <3>2. stored'[w] = data % UartSize[w[2]]
      BY <1>2, <2>2, <2>3, <2>4
    <3> QED
      BY <1>4, <2>2, <3>1, <3>2
  <2>5. CASE w # i.at
    <3>1. uart'[w[2]] = uart[w[2]]
      <4>1. CASE i.at[1] = "uart"
        <5>1. i.at[2] # w[2]
          BY <1>1, <2>2, <2>5, <4>1
        <5>2. uart' = IF i.at[2] \in DOMAIN UartSize
                      THEN [uart EXCEPT ![i.at[2]] = data % UartSize[i.at[2]]] ELSE uart
          BY <1>3, <4>1 DEF UartWrite
        <5> QED
          BY <1>4, <2>2, <5>1, <5>2
      <4>2. CASE i.at[1] # "uart"
        BY <1>3, <4>2
      <4> QED
        BY <4>1, <4>2
    <3> QED
      BY <1>2, <2>1, <2>3, <2>5, <3>1
  <2> QED
    BY <2>4, <2>5
<1>7. program' \in Programs
  BY DEF StoreInv
<1> QED
  BY <1>4, <1>5, <1>6, <1>7 DEF StoreInv

LEMMA StoreStep ==
  ASSUME WordAccesses, StoreInv, [EmuNext]_evars
  PROVE  StoreInv'
<1>1. ASSUME NEW i \in program, TrapHandleLowerElAarch64Sync(i) PROVE StoreInv'
  <2>0. program' = program
    BY <1>1 DEF TrapHandleLowerElAarch64Sync
  <2>1. CASE HandleTrapSystem(i)
    <3>1. gicd' = gicd /\ uart' = uart /\ stored' = stored
      BY <2>1 DEF HandleTrapSystem, TrapMcrMrcInstructions, Panic, devices
    <3> QED
      BY <2>0, <3>1 DEF StoreInv
  <2>2. CASE HandleMmTrapRegisterAccess(i)
    BY <2>0, <2>2, StoreRead, StoreWrite DEF HandleMmTrapRegisterAccess
  <2>3. CASE HandleMmTrapMemoryAccessFault(i)
    <3>1. gicd' = gicd /\ uart' = uart /\ stored' = stored
      BY <2>3 DEF HandleMmTrapMemoryAccessFault, Panic, devices
    <3> QED
      BY <2>0, <3>1 DEF StoreInv
  <2> QED
    BY <1>1, <2>1, <2>2, <2>3 DEF TrapHandleLowerElAarch64Sync
<1>2. CASE \/ \E data \in Data : Receive(data)
           \/ FlushConsole
           \/ UNCHANGED evars
  BY <1>2 DEF Receive, FlushConsole, evars, devices, StoreInv
<1> QED
  BY <1>1, <1>2 DEF EmuNext

\* A load from a register without side effects gives what was last stored to it or to
\* the register that shares its word, in a guest that accesses devices by words: for every
\* offset of the seventeen tests of VirtioGic and every register of the UART.
THEOREM LoadsAreFaithful == WordAccesses => (EmuSpec => LoadsFollowStores)
<1> SUFFICES ASSUME WordAccesses PROVE EmuSpec => LoadsFollowStores
  OBVIOUS
<1> DEFINE Follows == insn'.op = "ldr" /\ insn'.at \in Plain /\ insn'.rt # 31
                         => regs'[insn'.rt] = stored[insn'.at]
<1>1. ASSUME StoreInv, NEW i \in program, TrapHandleLowerElAarch64Sync(i) PROVE Follows
  <2> SUFFICES ASSUME i.op = "ldr", i.at \in Plain PROVE regs'[i.rt] = stored[i.at]
    BY <1>1 DEF TrapHandleLowerElAarch64Sync
  <2>0. i.rt \in Rts
    <3>1. i \in UNION Programs
      BY <1>1 DEF StoreInv
    <3> QED
      BY <3>1, EmulationAssumption
  <2>1. HandleMmTrapRegisterAccess(i)
    <3>1. i.at # <<"unmapped">>
      BY PlainWord DEF Words
    <3>2. ~HandleTrapSystem(i)
      BY DEF HandleTrapSystem
    <3> QED
      BY <1>1, <3>1, <3>2 DEF TrapHandleLowerElAarch64Sync, HandleMmTrapMemoryAccessFault
  <2>2. MmioRead(i)
    BY <2>1 DEF HandleMmTrapRegisterAccess
  <2>3. ASSUME NEW res, Result(i, res) PROVE regs'[i.rt] = res
    BY <2>0, <2>3 DEF Result, Frame
  <2>4. stored[i.at] = IF i.at[1] = "gic" THEN gicd[GicWord(i.at[2])] ELSE uart[i.at[2]]
    BY <1>1 DEF StoreInv
  <2>5. CASE i.at[1] = "gic"
    <3>1. PICK k \in Nat : i.at = <<"gic", 4 * k>> /\ BanksOf(4 * k) # {}
      BY <2>5, PlainWord
    <3>2. 4 * k # \hfe8
      <4>1. Placed(k)
        BY <3>1, WordOf
      <4> QED
        BY <4>1 DEF Placed
    <3>3. Result(i, GicRead(4 * k))
      BY <2>2, <3>1 DEF MmioRead
    <3> QED
      BY <2>3, <2>4, <3>1, <3>2, <3>3 DEF GicRead
  <2>6. CASE i.at[1] = "uart"
    <3>1. i.at[2] \in DOMAIN UartSize \ {UARTDR, UARTFR}
      BY <2>6, PlainWord
    <3>2. UartRead(i)
      BY <2>2, <2>6 DEF MmioRead
    <3>3. Result(i, uart[i.at[2]])
      BY <3>1, <3>2 DEF UartRead
    <3> QED
      BY <2>3, <2>4, <2>6, <3>3
  <2> QED
    BY <2>5, <2>6, PlainWord
<1>2. StoreInv /\ [EmuNext]_evars => [Follows]_evars
  <2> SUFFICES ASSUME StoreInv, EmuNext PROVE Follows
    OBVIOUS
  <2>1. CASE (\E data \in Data : Receive(data)) \/ FlushConsole
    BY <2>1 DEF Receive, FlushConsole, None, Insn
  <2> QED
    BY <1>1, <2>1 DEF EmuNext
<1>3. StoreInv /\ [EmuNext]_evars => StoreInv'
  BY StoreStep
<1> QED
  BY <1>2, <1>3, StoreInit, PTL DEF EmuSpec, LoadsFollowStores

-----------------------------------------------------------------------------
(* The tables of system registers *)

\* MRS is emulated for pairs, one of which is ACTLR_EL1.
LEMMA MrsRows ==
  ASSUME NEW p \in Mrs
  PROVE  p = <<p[1], p[2]>> /\ (p[2] = "actlr_el1" <=> p[1] = Actlr)
BY DEF Mrs, Actlr, Id, Cache

\* No encoding is in the table twice.
LEMMA MrsUnique ==
  ASSUME NEW p \in Mrs, NEW q \in Mrs, p[1] = q[1]
  PROVE  p[2] = q[2]
BY DEF Mrs, Actlr, Id, Cache

\* Every register that is read has a field in struct VCpuSysregs.
LEMMA FieldOf ==
  ASSUME NEW n \in SysregNames
  PROVE  \E i \in 1 .. Len(VCpuSysregs) : VCpuSysregs[i] = n
BY DEF SysregNames, Mrs, VCpuSysregs

\* The assembler's order is the struct's.
LEMMA SameOrder == AllSysregs = VCpuSysregs
BY DEF AllSysregs, VCpuSysregs

\* What the vCPU started with is what the machine held, register by register, but for
\* ACTLR_EL1, which the guest may write.
SysInv ==
  /\ program \in Programs
  /\ DOMAIN vcpu_sysregs = SysregNames
  /\ \A n \in SysregNames \ {"actlr_el1"} : vcpu_sysregs[n] = Machine[n]

LEMMA SysInit == EmuInit => SysInv
<1> SUFFICES ASSUME EmuInit PROVE SysInv
  OBVIOUS
<1>1. program \in Programs /\ vcpu_sysregs = CreateInitialCpuRegsTemplate
  BY DEF EmuInit
<1>2. ASSUME NEW n \in SysregNames PROVE vcpu_sysregs[n] = Machine[n]
  <2> DEFINE i == CHOOSE i \in 1 .. Len(VCpuSysregs) : VCpuSysregs[i] = n
  <2>1. VCpuSysregs[i] = n
    BY FieldOf
  <2>2. vcpu_sysregs[n] = Machine[AllSysregs[i]]
    BY <1>1 DEF CreateInitialCpuRegsTemplate
  <2> HIDE DEF i
  <2> QED
    BY <2>1, <2>2, SameOrder
<1> QED
  BY <1>1, <1>2 DEF SysInv, CreateInitialCpuRegsTemplate

\* A write that is emulated is one of ACTLR_EL1.
LEMMA WritesActlr ==
  ASSUME CcsidrIsReadOnly, SysInv, NEW i \in program, i.op = "msr", HandleTrapSystem(i), ~panic'
  PROVE  /\ i.at = Actlr
         /\ vcpu_sysregs' = [vcpu_sysregs EXCEPT !["actlr_el1"] = Frame(i)[i.rt]]
<1>0. i.at # Cache(0)
  BY DEF CcsidrIsReadOnly, SysInv
<1>1. PICK name \in {p[2] : p \in {q \in Msr : q[1] = i.at}} : TrapMcrMrcInstructions(i, name)
  BY DEF HandleTrapSystem, Panic
<1>2. i.at = Actlr /\ name = "actlr_el1"
  BY <1>0 DEF Msr
<1> QED
  BY <1>1, <1>2 DEF TrapMcrMrcInstructions

LEMMA SysStep ==
  ASSUME CcsidrIsReadOnly, SysInv, [EmuNext]_evars
  PROVE  SysInv'
<1>1. ASSUME NEW i \in program, TrapHandleLowerElAarch64Sync(i) PROVE SysInv'
  <2>0. program' = program
    BY <1>1 DEF TrapHandleLowerElAarch64Sync
  <2>1. CASE HandleTrapSystem(i) /\ i.op = "msr" /\ ~panic'
    BY <2>0, <2>1, WritesActlr DEF SysInv
  <2>2. CASE UNCHANGED vcpu_sysregs
    BY <2>0, <2>2 DEF SysInv
  <2>3. ASSUME HandleTrapSystem(i)
        PROVE  (i.op = "msr" /\ ~panic') \/ UNCHANGED vcpu_sysregs
    <3>1. ASSUME NEW name, TrapMcrMrcInstructions(i, name)
          PROVE  (i.op = "msr" /\ ~panic') \/ UNCHANGED vcpu_sysregs
      <4>1. ~panic'
        BY <1>1, <3>1 DEF TrapMcrMrcInstructions, TrapHandleLowerElAarch64Sync
      <4>2. i.op \in {"mrs", "msr"}
        BY <2>3 DEF HandleTrapSystem
      <4> QED
        BY <3>1, <4>1, <4>2 DEF TrapMcrMrcInstructions
    <3>2. CASE Panic(i)
      BY <3>2 DEF Panic
    <3> QED
      BY <2>3, <3>1, <3>2 DEF HandleTrapSystem
  <2>4. HandleMmTrapRegisterAccess(i) \/ HandleMmTrapMemoryAccessFault(i) => UNCHANGED vcpu_sysregs
    BY DEF HandleMmTrapRegisterAccess, HandleMmTrapMemoryAccessFault, Panic
  <2> QED
    BY <1>1, <2>1, <2>2, <2>3, <2>4 DEF TrapHandleLowerElAarch64Sync
<1>2. CASE \/ \E data \in Data : Receive(data)
           \/ FlushConsole
           \/ UNCHANGED evars
  BY <1>2 DEF Receive, FlushConsole, evars, SysInv
<1> QED
  BY <1>1, <1>2 DEF EmuNext

\* The encodings, the struct and the assembler agree: for any program that does not write
\* CCSIDR_EL1, a system register reads as the machine's of that name or as the guest wrote it.
THEOREM SysregsStayOwn == CcsidrIsReadOnly => (EmuSpec => SysregsAreOwn)
<1> SUFFICES ASSUME CcsidrIsReadOnly PROVE EmuSpec => SysregsAreOwn
  OBVIOUS
<1> DEFINE Own ==
      insn'.op \in {"mrs", "msr"} /\ ~panic' /\ insn'.at # Id(7, 3) /\ insn'.rt # 31 =>
       LET name == CHOOSE n \in SysregNames : <<insn'.at, n>> \in Mrs
       IN  /\ insn'.op = "mrs" =>
                regs'[insn'.rt] = IF insn'.at = Actlr THEN vcpu_sysregs[name] ELSE Machine[name]
           /\ vcpu_sysregs' = IF insn'.op = "mrs" THEN vcpu_sysregs
                              ELSE [vcpu_sysregs EXCEPT ![name] = insn'.val]
<1>1. ASSUME SysInv, NEW i \in program, TrapHandleLowerElAarch64Sync(i) PROVE Own
  <2> DEFINE name == CHOOSE n \in SysregNames : <<i.at, n>> \in Mrs
  <2>0. insn' = i /\ i.rt \in Rts
    <3>1. i \in UNION Programs
      BY <1>1 DEF SysInv
    <3> QED
      BY <1>1, <3>1, EmulationAssumption DEF TrapHandleLowerElAarch64Sync
  <2>1. ASSUME NEW q \in Mrs, q[1] = i.at PROVE name = q[2]
    <3>1. \A n \in SysregNames : <<i.at, n>> \in Mrs => n = q[2]
      BY <2>1, MrsUnique
    <3>2. q[2] \in SysregNames /\ <<i.at, q[2]>> \in Mrs
      BY <2>1, MrsRows DEF SysregNames
    <3>3. name \in SysregNames /\ <<i.at, name>> \in Mrs
      BY <3>2
    <3> QED
      BY <3>1, <3>3
  <2> HIDE DEF name
  <2>2. CASE i.op = "mrs" /\ ~panic'
    <3>1. PICK q \in Mrs : q[1] = i.at /\ TrapMcrMrcInstructions(i, q[2])
      BY <1>1, <2>2 DEF TrapHandleLowerElAarch64Sync, HandleTrapSystem, Panic,
                       HandleMmTrapRegisterAccess, HandleMmTrapMemoryAccessFault
    <3>2. Result(i, vcpu_sysregs[name]) /\ vcpu_sysregs' = vcpu_sysregs
      BY <2>1, <2>2, <3>1 DEF TrapMcrMrcInstructions
    <3>3. regs'[i.rt] = vcpu_sysregs[name]
      BY <2>0, <3>2 DEF Result, Frame
    <3>4. i.at # Actlr => vcpu_sysregs[name] = Machine[name]
      <4>1. name \in SysregNames /\ (name = "actlr_el1" => i.at = Actlr)
        BY <2>1, <3>1, MrsRows DEF SysregNames
      <4> QED
        BY <1>1, <4>1 DEF SysInv
    <3> QED
      BY <2>0, <2>2, <3>2, <3>3, <3>4 DEF name
  <2>3. CASE i.op = "msr" /\ ~panic' /\ i.rt # 31
    <3>1. HandleTrapSystem(i)
      BY <1>1, <2>3 DEF TrapHandleLowerElAarch64Sync,
                       HandleMmTrapRegisterAccess, HandleMmTrapMemoryAccessFault
    <3>2. i.at = Actlr /\ vcpu_sysregs' = [vcpu_sysregs EXCEPT !["actlr_el1"] = Frame(i)[i.rt]]
      BY <1>1, <2>3, <3>1, WritesActlr
    <3>3. name = "actlr_el1"
      <4>1. <<Actlr, "actlr_el1">> \in Mrs
        BY DEF Mrs
      <4> QED
        BY <2>1, <3>2, <4>1
    <3>4. Frame(i)[i.rt] = i.val
      BY <2>0, <2>3 DEF Frame
    <3> QED
      BY <2>0, <2>3, <3>2, <3>3, <3>4 DEF name
  <2> QED
    BY <2>0, <2>2, <2>3
<1>2. SysInv /\ [EmuNext]_evars => [Own]_evars
  <2> SUFFICES ASSUME SysInv, EmuNext PROVE Own
    OBVIOUS
  <2>1. CASE (\E data \in Data : Receive(data)) \/ FlushConsole
    BY <2>1 DEF Receive, FlushConsole, None, Insn
  <2> QED
    BY <1>1, <2>1 DEF EmuNext
<1>3. SysInv /\ [EmuNext]_evars => SysInv'
  BY SysStep
<1> QED
  BY <1>2, <1>3, SysInit, PTL DEF EmuSpec, SysregsAreOwn
=============================================================================
