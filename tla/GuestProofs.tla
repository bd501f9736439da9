----------------------------- MODULE GuestProofs -----------------------------
(***************************************************************************)
(* Sched implements Vcpus: whatever the hypervisor does, each guest sees a *)
(* machine of its own.                                                     *)
(***************************************************************************)
EXTENDS SchedProofs

\* A guest executes only while its task is current.
LEMMA OnlyCurrentExecutes ==
  ASSUME SchedInv
  PROVE  /\ \A v \in Vcpu : pc[v] = "guest" => v = cur_tsk_
         /\ pc[cur_tsk_] = "guest" => cur_tsk_ \in Vcpu /\ vttbr = cur_tsk_
<1>0. TypeOK /\ PcsOK /\ OthersParked /\ MaskedAtEL2 /\ cur_tsk_ \in Tasks
      /\ (cur_tsk_ # 0 => cur_tsk_ \in Vcpu)
  BY CurrentTask DEF SchedInv, ControlInv, TypeOK
<1>1. \A v \in Vcpu : v \in Tasks /\ v # 0
  BY DEF Vcpu, Tasks
<1> QED
  BY <1>0, <1>1 DEF OthersParked, Parked, MaskedAtEL2, PcsOK, InitPcs

\* A step of the current task's code that leaves the others' state alone
\* changes what the current vCPU sees and nothing else.
LEMMA CurrentSeen ==
  ASSUME SchedInv, NEW from, NEW to, Goto(from, to),
         \A v \in Vcpu \ {cur_tsk_} :
            /\ state'[v] = state[v] /\ why'[v] = why[v]
            /\ ctx_pc'[v] = ctx_pc[v] /\ vcpu_sysregs'[v] = vcpu_sysregs[v]
  PROVE  /\ VcpuMode' = [VcpuMode EXCEPT ![cur_tsk_] = VcpuMode'[cur_tsk_]]
         /\ VcpuIp' = [VcpuIp EXCEPT ![cur_tsk_] =
                         IF to = "guest" THEN hw_pc' ELSE ctx_pc'[cur_tsk_]]
         /\ VcpuRegs' = [VcpuRegs EXCEPT ![cur_tsk_] =
                           IF to = "guest" THEN hw_el1' ELSE vcpu_sysregs'[cur_tsk_]]
<1>0. TypeOK /\ Vcpu \subseteq Tasks
  BY CurrentTask DEF SchedInv
<1>1. \A v \in Vcpu \ {cur_tsk_} : pc'[v] = pc[v] /\ pc[v] # "guest"
  BY <1>0, Moves, OnlyCurrentExecutes
<1>2. pc'[cur_tsk_] = to
  BY <1>0, Moves
<1>3. ASSUME NEW v \in Vcpu, v # cur_tsk_
      PROVE  /\ VcpuMode'[v] = VcpuMode[v]
             /\ VcpuIp'[v] = VcpuIp[v] /\ VcpuRegs'[v] = VcpuRegs[v]
  BY <1>1, <1>3 DEF VcpuMode, ModeOf, VcpuIp, VcpuRegs
<1>4. VcpuMode' = [VcpuMode EXCEPT ![cur_tsk_] = VcpuMode'[cur_tsk_]]
  <2>1. /\ VcpuMode = [v \in Vcpu |-> VcpuMode[v]]
        /\ VcpuMode' = [v \in Vcpu |-> VcpuMode'[v]]
    BY DEF VcpuMode
  <2> QED
    BY <1>3, <2>1
<1>5. VcpuIp' = [VcpuIp EXCEPT ![cur_tsk_] =
                   IF to = "guest" THEN hw_pc' ELSE ctx_pc'[cur_tsk_]]
  BY <1>2, <1>3 DEF VcpuIp
<1>6. VcpuRegs' = [VcpuRegs EXCEPT ![cur_tsk_] =
                     IF to = "guest" THEN hw_el1' ELSE vcpu_sysregs'[cur_tsk_]]
  BY <1>2, <1>3 DEF VcpuRegs
<1> QED
  BY <1>4, <1>5, <1>6

\* What the current vCPU was doing, and does after a step that may switch.
LEMMA CurrentMode ==
  ASSUME cur_tsk_ \in Vcpu
  PROVE  /\ VcpuMode[cur_tsk_] = ModeOf(cur_tsk_)
         /\ VcpuMode'[cur_tsk_] =
              IF state'[cur_tsk_] = "ZOMBIE" THEN "exited"
              ELSE IF pc'[cur_tsk_] = "new" THEN "off"
              ELSE IF pc'[cur_tsk_] = "guest" THEN "running"
              ELSE IF \/ pc'[cur_tsk_] = "wfx"
                      \/ pc'[cur_tsk_] = "trap" /\ why'[cur_tsk_] \notin {"fault", "exit"}
              THEN "trapped" ELSE "ready"
BY DEF VcpuMode, ModeOf

\* Between two points of EL2 code no guest executes.
LEMMA NobodyExecutes ==
  ASSUME SchedInv, NEW from, NEW to, Goto(from, to), from # "guest"
  PROVE  /\ VcpuXlat = 0 /\ \A v \in Vcpu : VcpuMode[v] # "running"
         /\ to # "guest" => VcpuXlat' = 0
         /\ cur_tsk_ = 0 => VcpuXlat' = 0
<1>0. TypeOK /\ Vcpu \subseteq Tasks /\ 0 \notin Vcpu
  BY CurrentTask DEF SchedInv, Vcpu
<1>1. \A v \in Vcpu : pc[v] # "guest"
  BY <1>0, Moves, OnlyCurrentExecutes
<1>2. to # "guest" \/ cur_tsk_ = 0 => \A v \in Vcpu : pc'[v] # "guest"
  BY <1>0, <1>1, Moves
<1>3. VcpuXlat = 0 /\ (to # "guest" \/ cur_tsk_ = 0 => VcpuXlat' = 0)
  BY <1>1, <1>2 DEF VcpuXlat
<1>4. \A v \in Vcpu : VcpuMode[v] # "running"
  BY <1>1 DEF VcpuMode, ModeOf
<1> QED
  BY <1>3, <1>4

-----------------------------------------------------------------------------
(* What the guests see of each action *)

\* Nothing, of the init task's code.
LEMMA InitStutters ==
  ASSUME SchedInv, NEW from, NEW to, Goto(from, to), cur_tsk_ = 0, from # "guest",
         \A v \in Vcpu :
            /\ state'[v] = state[v] /\ why'[v] = why[v]
            /\ ctx_pc'[v] = ctx_pc[v] /\ vcpu_sysregs'[v] = vcpu_sysregs[v]
  PROVE  UNCHANGED Guests!vars
<1>1. 0 \notin Vcpu
  BY DEF Vcpu
<1>2. UNCHANGED VcpuMode
  <2>1. VcpuMode' = [VcpuMode EXCEPT ![0] = VcpuMode'[0]]
    BY CurrentSeen
  <2> QED
    BY <1>1, <2>1 DEF VcpuMode
<1>3. ASSUME NEW x PROVE [VcpuIp EXCEPT ![0] = x] = VcpuIp
  BY <1>1 DEF VcpuIp
<1>4. ASSUME NEW x PROVE [VcpuRegs EXCEPT ![0] = x] = VcpuRegs
  BY <1>1 DEF VcpuRegs
<1>5. UNCHANGED <<VcpuIp, VcpuRegs>>
  BY <1>3, <1>4, CurrentSeen
<1> QED
  BY <1>2, <1>5, NobodyExecutes DEF Guests!vars

\* Nothing, of EL2 code that neither retires an instruction nor enters a guest.
LEMMA HandlerStutters ==
  ASSUME SchedInv, NEW from, NEW to, Goto(from, to), from # "guest", to # "guest",
         UNCHANGED <<state, why, guest>>,
         cur_tsk_ \in Vcpu => VcpuMode'[cur_tsk_] = VcpuMode[cur_tsk_]
  PROVE  UNCHANGED Guests!vars
<1>0. cur_tsk_ = 0 \/ cur_tsk_ \in Vcpu
  BY CurrentTask DEF SchedInv
<1>1. CASE cur_tsk_ = 0
  BY <1>1, InitStutters DEF guest
<1>2. CASE cur_tsk_ \in Vcpu
  <2>1. pc[cur_tsk_] = from
    BY Moves DEF SchedInv
  <2>2. VcpuMode' = VcpuMode
    BY <1>2, CurrentSeen DEF VcpuMode, guest
  <2>3. VcpuIp[cur_tsk_] = ctx_pc[cur_tsk_] /\ VcpuRegs[cur_tsk_] = vcpu_sysregs[cur_tsk_]
    BY <1>2, <2>1 DEF VcpuIp, VcpuRegs
  <2>4. VcpuIp' = [VcpuIp EXCEPT ![cur_tsk_] = VcpuIp[cur_tsk_]]
        /\ VcpuRegs' = [VcpuRegs EXCEPT ![cur_tsk_] = VcpuRegs[cur_tsk_]]
    BY <2>3, CurrentSeen DEF guest
  <2>5. VcpuIp' = VcpuIp /\ VcpuRegs' = VcpuRegs
    BY <2>4 DEF VcpuIp, VcpuRegs
  <2> QED
    BY <2>2, <2>5, NobodyExecutes DEF Guests!vars
<1> QED
  BY <1>0, <1>1, <1>2

\* LoadTaskImage is Load.
LEMMA LoadImplemented ==
  ASSUME SchedInv, LoadTaskImage
  PROVE  Guests!Load(cur_tsk_) /\ cur_tsk_ \in Vcpu
<1>0. TypeOK /\ GuestsOK /\ NewIsReset /\ state[cur_tsk_] = "RUNNING"
  BY DEF SchedInv, TypeOK, ControlInv, CurrentRuns
<1>1. /\ Goto("new", "leave") /\ ctx_pc' = [ctx_pc EXCEPT ![cur_tsk_] = 0]
      /\ UNCHANGED <<state, why, vcpu_sysregs, cur_tsk_>>
  BY DEF LoadTaskImage, tsks
<1>2. cur_tsk_ \in Vcpu /\ pc[cur_tsk_] = "new" /\ pc'[cur_tsk_] = "leave"
  BY <1>0, <1>1, Moves DEF InitPcs
<1>3. ctx_pc' = ctx_pc
  BY <1>0, <1>1, <1>2 DEF NewIsReset, GuestsOK
<1>4. VcpuMode[cur_tsk_] = "off" /\ VcpuMode'[cur_tsk_] = "ready"
  BY <1>0, <1>1, <1>2, CurrentMode DEF ModeOf
<1>5. VcpuMode' = [VcpuMode EXCEPT ![cur_tsk_] = "ready"]
  BY <1>1, <1>3, <1>4, CurrentSeen
<1>6. VcpuIp' = VcpuIp /\ VcpuRegs' = VcpuRegs
  <2>1. VcpuIp[cur_tsk_] = ctx_pc[cur_tsk_] /\ VcpuRegs[cur_tsk_] = vcpu_sysregs[cur_tsk_]
    BY <1>2 DEF VcpuIp, VcpuRegs
  <2>2. /\ VcpuIp' = [VcpuIp EXCEPT ![cur_tsk_] = VcpuIp[cur_tsk_]]
        /\ VcpuRegs' = [VcpuRegs EXCEPT ![cur_tsk_] = VcpuRegs[cur_tsk_]]
    BY <1>1, <1>3, <2>1, CurrentSeen
  <2> QED
    BY <2>2 DEF VcpuIp, VcpuRegs
<1>7. VcpuXlat' = VcpuXlat
  BY <1>1, NobodyExecutes
<1> QED
  BY <1>2, <1>4, <1>5, <1>6, <1>7 DEF Guests!Load, Guests!Move

\* leave_hypervisor to a guest is Enter.
LEMMA EnterImplemented ==
  ASSUME SchedInv, LeaveHypervisor, cur_tsk_ # 0
  PROVE  Guests!Enter(cur_tsk_) /\ cur_tsk_ \in Vcpu
<1>0. /\ TypeOK /\ state[cur_tsk_] = "RUNNING" /\ cur_tsk_ \in Vcpu
  BY CurrentTask DEF SchedInv, ControlInv, CurrentRuns
<1>1. /\ Goto("leave", "guest") /\ UNCHANGED <<state, why, guest, cur_tsk_>>
      /\ hw_pc' = ctx_pc[cur_tsk_] /\ hw_el1' = vcpu_sysregs[cur_tsk_]
      /\ vttbr' = cur_tsk_
  BY DEF LeaveHypervisor, RunVcpu, CpuRegLoadVCpuSysregs, tsks
<1>2. pc[cur_tsk_] = "leave" /\ pc'[cur_tsk_] = "guest"
  BY <1>0, <1>1, Moves
<1>3. VcpuMode[cur_tsk_] = "ready" /\ VcpuMode'[cur_tsk_] = "running"
  BY <1>0, <1>1, <1>2, CurrentMode DEF ModeOf
<1>4. VcpuMode' = [VcpuMode EXCEPT ![cur_tsk_] = "running"]
  BY <1>1, <1>3, CurrentSeen DEF guest
<1>5. VcpuIp' = VcpuIp /\ VcpuRegs' = VcpuRegs
  <2>1. VcpuIp[cur_tsk_] = ctx_pc[cur_tsk_] /\ VcpuRegs[cur_tsk_] = vcpu_sysregs[cur_tsk_]
    BY <1>0, <1>2 DEF VcpuIp, VcpuRegs
  <2>2. /\ VcpuIp' = [VcpuIp EXCEPT ![cur_tsk_] = VcpuIp[cur_tsk_]]
        /\ VcpuRegs' = [VcpuRegs EXCEPT ![cur_tsk_] = VcpuRegs[cur_tsk_]]
    BY <1>1, <2>1, CurrentSeen DEF guest
  <2> QED
    BY <2>2 DEF VcpuIp, VcpuRegs
<1>6. VcpuXlat' = cur_tsk_
  BY <1>0, <1>1, <1>2 DEF VcpuXlat
<1>7. \A w \in Vcpu : VcpuMode[w] # "running"
  BY <1>1, NobodyExecutes
<1> QED
  BY <1>0, <1>3, <1>4, <1>5, <1>6, <1>7 DEF Guests!Enter, Guests!Move, Guests!Vcpu, Vcpu

\* An instruction of the current guest is its own.
LEMMA ExecuteImplemented ==
  ASSUME SchedInv, Execute
  PROVE  Guests!Execute(cur_tsk_) /\ cur_tsk_ \in Vcpu
<1>0. /\ TypeOK /\ state[cur_tsk_] = "RUNNING" /\ pc[cur_tsk_] = "guest"
      /\ cur_tsk_ \in Vcpu /\ \A v \in Vcpu \ {cur_tsk_} : pc[v] # "guest"
  BY OnlyCurrentExecutes DEF SchedInv, ControlInv, CurrentRuns, Execute
<1>1. /\ UNCHANGED <<state, pc, why, ctx_pc, vcpu_sysregs, vttbr>>
      /\ hw_pc' = Succ4(hw_pc)
  BY DEF Execute, tsks, guest
<1>2. PICK x \in Vals : hw_el1' = x
  BY DEF Execute
<1>3. VcpuMode[cur_tsk_] = "running" /\ VcpuMode' = VcpuMode
  BY <1>0, <1>1 DEF VcpuMode, ModeOf
<1>4. VcpuIp' = [VcpuIp EXCEPT ![cur_tsk_] = Guests!Succ4(@)]
  BY <1>0, <1>1 DEF VcpuIp, Succ4, Guests!Succ4
<1>5. VcpuRegs' = [VcpuRegs EXCEPT ![cur_tsk_] = x]
  BY <1>0, <1>1, <1>2 DEF VcpuRegs
<1>6. VcpuXlat' = VcpuXlat
  BY <1>1 DEF VcpuXlat
<1> QED
  BY <1>0, <1>2, <1>3, <1>4, <1>5, <1>6 DEF Guests!Execute

\* Any way out of a guest saves what it sees.
LEMMA GuestSaved ==
  ASSUME SchedInv, NEW to, Goto("guest", to), to # "guest", EnterHypervisor,
         UNCHANGED <<cur_tsk_, state>>, \A v \in Vcpu \ {cur_tsk_} : why'[v] = why[v]
  PROVE  /\ cur_tsk_ \in Vcpu /\ VcpuMode[cur_tsk_] = "running"
         /\ VcpuMode' = [VcpuMode EXCEPT ![cur_tsk_] = VcpuMode'[cur_tsk_]]
         /\ UNCHANGED <<VcpuIp, VcpuRegs>> /\ VcpuXlat' = 0
<1>0. /\ TypeOK /\ GuestsOK /\ state[cur_tsk_] = "RUNNING" /\ pc[cur_tsk_] = "guest"
      /\ pc'[cur_tsk_] = to /\ cur_tsk_ \in Vcpu /\ cur_tsk_ # 0
      /\ Vcpu \subseteq Tasks /\ \A v \in Vcpu \ {cur_tsk_} : pc[v] # "guest"
      /\ \A v \in Vcpu \ {cur_tsk_} : pc'[v] = pc[v]
  BY CurrentTask, OnlyCurrentExecutes, Moves
     DEF SchedInv, ControlInv, CurrentRuns, TypeOK, Vcpu
<1>1. /\ ctx_pc' = [ctx_pc EXCEPT ![cur_tsk_] = hw_pc]
      /\ vcpu_sysregs' = [vcpu_sysregs EXCEPT ![cur_tsk_] = hw_el1]
  BY <1>0 DEF EnterHypervisor, CpuRegStoreVCpuSysregs
<1>2. ctx_pc'[cur_tsk_] = hw_pc /\ vcpu_sysregs'[cur_tsk_] = hw_el1
  BY <1>0, <1>1 DEF GuestsOK
<1>3. \A v \in Vcpu \ {cur_tsk_} : ctx_pc'[v] = ctx_pc[v] /\ vcpu_sysregs'[v] = vcpu_sysregs[v]
  BY <1>0, <1>1 DEF GuestsOK
<1>4. VcpuMode[cur_tsk_] = "running"
  BY <1>0, CurrentMode DEF ModeOf
<1>5. VcpuMode' = [VcpuMode EXCEPT ![cur_tsk_] = VcpuMode'[cur_tsk_]]
  BY <1>3, CurrentSeen
<1>6. VcpuIp' = VcpuIp
  <2>1. VcpuIp' = [VcpuIp EXCEPT ![cur_tsk_] = hw_pc]
    BY <1>2, <1>3, CurrentSeen
  <2> QED
    BY <1>0, <2>1 DEF VcpuIp
<1>7. VcpuRegs' = VcpuRegs
  <2>1. VcpuRegs' = [VcpuRegs EXCEPT ![cur_tsk_] = hw_el1]
    BY <1>2, <1>3, CurrentSeen
  <2> QED
    BY <1>0, <2>1 DEF VcpuRegs
<1>8. VcpuXlat' = 0
  <2>1. \A v \in Vcpu : pc'[v] # "guest"
    BY <1>0
  <2> QED
    BY <2>1 DEF VcpuXlat
<1> QED
  BY <1>0, <1>4, <1>5, <1>6, <1>7, <1>8

\* A trap is Trap, or Interrupt when its instruction will be executed again.
LEMMA TrapImplemented ==
  ASSUME SchedInv, NEW kind \in TrapKinds, TakeTrap(kind)
  PROVE  /\ cur_tsk_ \in Vcpu
         /\ Guests!Trap(cur_tsk_) \/ Guests!Interrupt(cur_tsk_)
<1>0. GuestsOK /\ state[cur_tsk_] = "RUNNING" /\ TypeOK
  BY DEF SchedInv, TypeOK, ControlInv, CurrentRuns
<1>1. /\ Goto("guest", "trap") /\ EnterHypervisor /\ UNCHANGED <<cur_tsk_, state>>
      /\ why' = [why EXCEPT ![cur_tsk_] = kind]
  BY DEF TakeTrap, tsks
<1>2. \A v \in Vcpu \ {cur_tsk_} : why'[v] = why[v]
  BY <1>0, <1>1 DEF GuestsOK
<1>3. /\ cur_tsk_ \in Vcpu /\ VcpuMode[cur_tsk_] = "running"
      /\ VcpuMode' = [VcpuMode EXCEPT ![cur_tsk_] = VcpuMode'[cur_tsk_]]
      /\ UNCHANGED <<VcpuIp, VcpuRegs>> /\ VcpuXlat' = 0
  BY <1>1, <1>2, GuestSaved
<1>4. VcpuMode'[cur_tsk_] \in {"trapped", "ready"}
  BY <1>0, <1>1, <1>3, CurrentMode, Moves
<1> QED
  BY <1>3, <1>4 DEF Guests!Trap, Guests!Interrupt, Guests!Move

\* An interrupt taken from a guest is Interrupt.
LEMMA IrqImplemented ==
  ASSUME SchedInv, TakeIrq, pc[cur_tsk_] = "guest"
  PROVE  Guests!Interrupt(cur_tsk_) /\ cur_tsk_ \in Vcpu
<1>0. state[cur_tsk_] = "RUNNING" /\ TypeOK
  BY DEF SchedInv, ControlInv, CurrentRuns
<1>1. /\ Goto("guest", "irq") /\ EnterHypervisor /\ UNCHANGED <<cur_tsk_, state, why>>
  BY DEF TakeIrq, tsks, Goto
<1>2. /\ cur_tsk_ \in Vcpu /\ VcpuMode[cur_tsk_] = "running"
      /\ VcpuMode' = [VcpuMode EXCEPT ![cur_tsk_] = VcpuMode'[cur_tsk_]]
      /\ UNCHANGED <<VcpuIp, VcpuRegs>> /\ VcpuXlat' = 0
  BY <1>1, GuestSaved
<1>3. VcpuMode'[cur_tsk_] = "ready"
  BY <1>0, <1>1, <1>2, CurrentMode, Moves
<1> QED
  BY <1>2, <1>3 DEF Guests!Interrupt, Guests!Move

\* The handlers that add 4 to the saved PC are Emulate.
LEMMA EmulateImplemented ==
  ASSUME SchedInv,
         HandleTrapWfxEnd \/ HandleTrapSystem \/ HandleMmTrapRegisterAccess
  PROVE  Guests!Emulate(cur_tsk_) /\ cur_tsk_ \in Vcpu
<1>0. GuestsOK /\ state[cur_tsk_] = "RUNNING" /\ TypeOK
  BY DEF SchedInv, TypeOK, ControlInv, CurrentRuns
<1>1. PICK from \in {"wfx", "trap"} :
        /\ Goto(from, "leave")
        /\ from = "trap" => why[cur_tsk_] \in {"system", "mmio"}
  BY DEF HandleTrapWfxEnd, HandleTrapSystem, HandleMmTrapRegisterAccess, Handling
<1>2. /\ UNCHANGED <<cur_tsk_, state, why, vcpu_sysregs>>
      /\ ctx_pc' = [ctx_pc EXCEPT ![cur_tsk_] = Succ4(@)]
  BY DEF HandleTrapWfxEnd, HandleTrapSystem, HandleMmTrapRegisterAccess,
         IncrementCurrentTaskPc, tsks
<1>3. cur_tsk_ \in Vcpu /\ pc[cur_tsk_] = from /\ pc'[cur_tsk_] = "leave"
  BY <1>0, <1>1, Moves DEF InitPcs
<1>4. /\ ctx_pc'[cur_tsk_] = Succ4(ctx_pc[cur_tsk_])
      /\ \A v \in Vcpu \ {cur_tsk_} : ctx_pc'[v] = ctx_pc[v]
  BY <1>0, <1>2, <1>3 DEF GuestsOK
<1>5. VcpuMode[cur_tsk_] = "trapped" /\ VcpuMode'[cur_tsk_] = "ready"
  BY <1>0, <1>1, <1>2, <1>3, CurrentMode DEF ModeOf
<1>6. VcpuMode' = [VcpuMode EXCEPT ![cur_tsk_] = "ready"]
  BY <1>1, <1>2, <1>4, <1>5, CurrentSeen
<1>7. VcpuIp' = [VcpuIp EXCEPT ![cur_tsk_] = Guests!Succ4(@)]
  <2>1. VcpuIp[cur_tsk_] = ctx_pc[cur_tsk_]
    BY <1>1, <1>3 DEF VcpuIp
  <2>2. VcpuIp' = [VcpuIp EXCEPT ![cur_tsk_] = Succ4(ctx_pc[cur_tsk_])]
    BY <1>1, <1>2, <1>4, CurrentSeen
  <2> QED
    BY <2>1, <2>2 DEF Succ4, Guests!Succ4
<1>8. VcpuRegs' = VcpuRegs
  <2>1. VcpuRegs[cur_tsk_] = vcpu_sysregs[cur_tsk_]
    BY <1>1, <1>3 DEF VcpuRegs
  <2>2. VcpuRegs' = [VcpuRegs EXCEPT ![cur_tsk_] = VcpuRegs[cur_tsk_]]
    BY <1>1, <1>2, <1>4, <2>1, CurrentSeen
  <2> QED
    BY <2>2 DEF VcpuRegs
<1>9. VcpuXlat' = VcpuXlat
  BY <1>1, NobodyExecutes
<1> QED
  BY <1>3, <1>5, <1>6, <1>7, <1>8, <1>9 DEF Guests!Emulate, Guests!Move

\* ExitTask is Exit, or nothing for a task it ended before.
LEMMA ExitImplemented ==
  ASSUME SchedInv, NEW victim \in Vcpu, ExitTask(victim)
  PROVE  Guests!Exit(victim) \/ UNCHANGED Guests!vars
<1>0. /\ GuestsOK /\ TasksOK /\ state[cur_tsk_] = "RUNNING" /\ TypeOK
      /\ Vcpu \subseteq Tasks
  BY CurrentTask DEF SchedInv, TypeOK, ControlInv, CurrentRuns
<1>1. /\ Goto("trap", "leave") /\ why[cur_tsk_] = "exit"
      /\ state' = [state EXCEPT ![victim] = "ZOMBIE"]
      /\ UNCHANGED <<why, ctx_pc, vcpu_sysregs, hw_pc, hw_el1, vttbr>>
  BY DEF ExitTask, Handling, guest, cpu
<1>2. /\ cur_tsk_ \in Vcpu /\ pc[cur_tsk_] = "trap" /\ pc'[cur_tsk_] = "leave"
      /\ \A v \in Vcpu \ {cur_tsk_} : pc'[v] = pc[v]
      /\ \A v \in Vcpu : pc[v] # "guest"
  BY <1>0, <1>1, Moves, OnlyCurrentExecutes DEF InitPcs
<1>3. state'[victim] = "ZOMBIE" /\ \A v \in Vcpu \ {victim} : state'[v] = state[v]
  BY <1>0, <1>1 DEF TasksOK
<1>4. \A v \in Vcpu \ {victim} : VcpuMode'[v] = VcpuMode[v]
  BY <1>0, <1>1, <1>2, <1>3 DEF VcpuMode, ModeOf
<1>5. VcpuMode'[victim] = "exited"
  BY <1>3 DEF VcpuMode, ModeOf
<1>6. VcpuMode' = [VcpuMode EXCEPT ![victim] = "exited"]
  <2>1. /\ VcpuMode = [v \in Vcpu |-> VcpuMode[v]]
        /\ VcpuMode' = [v \in Vcpu |-> VcpuMode'[v]]
    BY DEF VcpuMode
  <2> QED
    BY <1>4, <1>5, <2>1
<1>7. VcpuMode[victim] \in {"off", "ready", "trapped", "exited"}
  BY <1>2 DEF VcpuMode, ModeOf
<1>8. UNCHANGED <<VcpuIp, VcpuRegs, VcpuXlat>>
  <2>1. \A v \in Vcpu : pc'[v] # "guest"
    BY <1>2
  <2> QED
    BY <1>1, <1>2, <2>1 DEF VcpuIp, VcpuRegs, VcpuXlat
<1>9. CASE VcpuMode[victim] = "exited"
  <2>1. VcpuMode' = VcpuMode
    BY <1>6, <1>9 DEF VcpuMode
  <2> QED
    BY <1>8, <2>1 DEF Guests!vars
<1>10. CASE VcpuMode[victim] # "exited"
  BY <1>6, <1>7, <1>8, <1>10 DEF Guests!Exit, Guests!Move
<1> QED
  BY <1>9, <1>10

\* Creating a vCPU and what else the init task does, and EL2 code that retires
\* nothing, is invisible.
LEMMA Invisible ==
  ASSUME SchedInv,
         \/ CreateTask \/ StartLoop \/ CpuDisableIrq \/ LoopSchedule \/ CpuEnableIrq
         \/ HandleTrapWfx \/ HandleMmTrapMemoryAccessFault
         \/ HandleIrq \/ EndOfInterrupt
         \/ LeaveHypervisor /\ cur_tsk_ = 0
         \/ TakeIrq /\ pc[cur_tsk_] # "guest"
  PROVE  UNCHANGED Guests!vars
<1>0. /\ TypeOK /\ TasksOK /\ GuestsOK /\ NewIsReset /\ 0 \notin Vcpu
      /\ Vcpu \subseteq Tasks /\ state[cur_tsk_] = "RUNNING"
      /\ (cur_tsk_ = 0 \/ cur_tsk_ \in Vcpu)
  BY CurrentTask DEF SchedInv, TypeOK, ControlInv, CurrentRuns, Vcpu
<1>1. CASE CreateTask
  <2>1. /\ Goto("create", "create") /\ count_tsks_ < NrVcpus + 1
        /\ state' = [state EXCEPT ![count_tsks_] = "RUNNING"]
        /\ vcpu_sysregs' = [vcpu_sysregs EXCEPT ![count_tsks_] = Reset]
        /\ UNCHANGED <<why, ctx_pc>>
    BY <1>1 DEF CreateTask
  <2>2. cur_tsk_ = 0
    BY <1>0, <2>1, Moves DEF VcpuPcs
  <2>3. count_tsks_ \in Vcpu /\ count_tsks_ \notin Registered
    BY <1>0, <2>1, SchedAssumption DEF TasksOK, Vcpu, Registered
  <2>4. state[count_tsks_] = "RUNNING" /\ vcpu_sysregs[count_tsks_] = Reset
    BY <1>0, <2>3 DEF NewIsReset
  <2>5. state' = state /\ vcpu_sysregs' = vcpu_sysregs
    BY <1>0, <2>1, <2>4 DEF TasksOK, GuestsOK
  <2> QED
    BY <2>1, <2>2, <2>5, InitStutters
<1>2. CASE StartLoop \/ CpuDisableIrq \/ LoopSchedule \/ CpuEnableIrq
  <2>1. PICK from \in {"create", "loop", "sched", "unmask"}, to \in {"loop", "sched", "unmask"} :
          Goto(from, to)
    BY <1>2 DEF StartLoop, CpuDisableIrq, LoopSchedule, CpuEnableIrq
  <2>2. cur_tsk_ = 0 /\ UNCHANGED <<state, why, guest>>
    BY <1>0, <1>2, <2>1, Moves
       DEF VcpuPcs, StartLoop, CpuDisableIrq, LoopSchedule, CpuEnableIrq, tsks
  <2> QED
    BY <1>0, <2>1, <2>2, HandlerStutters
<1>3. CASE HandleTrapWfx
  <2>1. Goto("trap", "wfx") /\ why[cur_tsk_] = "wfx" /\ UNCHANGED <<state, why, guest>>
    BY <1>3 DEF HandleTrapWfx, Handling
  <2>2. cur_tsk_ \in Vcpu => VcpuMode'[cur_tsk_] = VcpuMode[cur_tsk_]
    BY <1>0, <2>1, CurrentMode, Moves DEF ModeOf
  <2> QED
    BY <2>1, <2>2, HandlerStutters
<1>4. CASE HandleMmTrapMemoryAccessFault
  <2>1. Goto("trap", "leave") /\ why[cur_tsk_] = "fault" /\ UNCHANGED <<state, why, guest>>
    BY <1>4 DEF HandleMmTrapMemoryAccessFault, Handling, tsks
  <2>2. cur_tsk_ \in Vcpu => VcpuMode'[cur_tsk_] = VcpuMode[cur_tsk_]
    BY <1>0, <2>1, CurrentMode, Moves DEF ModeOf
  <2> QED
    BY <2>1, <2>2, HandlerStutters
<1>5. CASE HandleIrq \/ EndOfInterrupt
  <2>1. PICK from \in {"irq", "eoi"}, to \in {"eoi", "leave"} : Goto(from, to)
    BY <1>5 DEF HandleIrq, EndOfInterrupt
  <2>2. UNCHANGED <<state, why, guest>>
    BY <1>5 DEF HandleIrq, EndOfInterrupt, tsks
  <2>3. cur_tsk_ \in Vcpu => VcpuMode'[cur_tsk_] = VcpuMode[cur_tsk_]
    BY <1>0, <2>1, <2>2, CurrentMode, Moves DEF ModeOf
  <2> QED
    BY <2>1, <2>2, <2>3, HandlerStutters
<1>6. CASE LeaveHypervisor /\ cur_tsk_ = 0
  <2>1. Goto("leave", "loop") /\ UNCHANGED <<state, why, guest>>
    BY <1>6 DEF LeaveHypervisor, tsks
  <2> QED
    BY <1>0, <1>6, <2>1, HandlerStutters
<1>7. CASE TakeIrq /\ pc[cur_tsk_] # "guest"
  <2>1. Goto("loop", "irq") /\ EnterHypervisor /\ UNCHANGED <<state, why>>
    BY <1>7 DEF TakeIrq, tsks, Goto
  <2>2. cur_tsk_ = 0
    BY <1>0, <2>1, Moves DEF VcpuPcs
  <2>3. UNCHANGED ctx_pc /\ \A v \in Vcpu : vcpu_sysregs'[v] = vcpu_sysregs[v]
    BY <1>0, <2>1, <2>2 DEF EnterHypervisor, CpuRegStoreVCpuSysregs, GuestsOK
  <2> QED
    BY <2>1, <2>2, <2>3, InitStutters
<1> QED
  BY <1>1, <1>2, <1>3, <1>4, <1>5, <1>6, <1>7

-----------------------------------------------------------------------------
(* Refinement *)

\* A hypervisor that has just booted has all its guests switched off.
LEMMA InitImplemented == Init => Guests!Init
<1> SUFFICES ASSUME Init PROVE Guests!Init
  OBVIOUS
<1>1. \A v \in Vcpu : v \in Tasks /\ v # 0
  BY DEF Vcpu, Tasks
<1>2. \A v \in Vcpu : /\ state[v] = "RUNNING" /\ pc[v] = "new"
                      /\ ctx_pc[v] = 0 /\ vcpu_sysregs[v] = Reset
  BY <1>1 DEF Init
<1>3. VcpuMode = [v \in Vcpu |-> "off"]
  BY <1>2 DEF VcpuMode, ModeOf
<1>4. VcpuIp = [v \in Vcpu |-> 0] /\ VcpuRegs = [v \in Vcpu |-> Reset]
  BY <1>2 DEF VcpuIp, VcpuRegs
<1>5. VcpuXlat = 0
  BY <1>2 DEF VcpuXlat
<1> QED
  BY <1>3, <1>4, <1>5 DEF Guests!Init, Guests!Vcpu, Vcpu

\* Every step is a step of the private machines or invisible to them.
LEMMA StepImplemented == SchedInv /\ [Next]_vars => [Guests!Next]_Guests!vars
<1> SUFFICES ASSUME SchedInv, [Next]_vars
             PROVE  Guests!Next \/ UNCHANGED Guests!vars
  OBVIOUS
<1>0. \A v \in Vcpu : v \in Guests!Vcpu
  BY DEF Vcpu, Guests!Vcpu
<1>1. CASE UNCHANGED <<state, pc, why, guest, cpu>>
  BY <1>1 DEF Guests!vars, VcpuMode, ModeOf, VcpuIp, VcpuRegs, VcpuXlat, guest, cpu
<1>2. CASE LoadTaskImage
  BY <1>0, <1>2, LoadImplemented DEF Guests!Next
<1>3. CASE LeaveHypervisor /\ cur_tsk_ # 0
  BY <1>0, <1>3, EnterImplemented DEF Guests!Next
<1>4. CASE Execute
  BY <1>0, <1>4, ExecuteImplemented DEF Guests!Next
<1>5. CASE \E kind \in TrapKinds : TakeTrap(kind)
  BY <1>0, <1>5, TrapImplemented DEF Guests!Next
<1>6. CASE TakeIrq /\ pc[cur_tsk_] = "guest"
  BY <1>0, <1>6, IrqImplemented DEF Guests!Next
<1>7. CASE HandleTrapWfxEnd \/ HandleTrapSystem \/ HandleMmTrapRegisterAccess
  BY <1>0, <1>7, EmulateImplemented DEF Guests!Next
<1>8. CASE \E v \in Vcpu : ExitTask(v)
  BY <1>0, <1>8, ExitImplemented DEF Guests!Next
<1>9. CASE \/ CreateTask \/ StartLoop \/ CpuDisableIrq \/ LoopSchedule
           \/ CpuEnableIrq \/ HandleTrapWfx \/ HandleMmTrapMemoryAccessFault
           \/ HandleIrq \/ EndOfInterrupt
           \/ LeaveHypervisor /\ cur_tsk_ = 0
           \/ TakeIrq /\ pc[cur_tsk_] # "guest"
  BY <1>9, Invisible
<1> QED
  BY <1>1, <1>2, <1>3, <1>4, <1>5, <1>6, <1>7, <1>8, <1>9
     DEF Next, Hypervisor, HandleTrap, Guest, Device, Halted, vars, tsks, LoadFails,
         PageAllocateFails, UncaughtException, Panic, TimerFire, UartFire

\* Each guest has a machine of its own, for any number of vCPUs, whatever they
\* execute, wherever ticks, traps and faults fall.
THEOREM PrivateMachines == Spec => GuestsArePrivate
BY Safety, InitImplemented, StepImplemented, PTL
   DEF Spec, GuestsArePrivate, Guests!Spec
=============================================================================
