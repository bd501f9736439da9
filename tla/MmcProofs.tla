----------------------------- MODULE MmcProofs ------------------------------
(***************************************************************************)
(* MmcInv, and RetryInv beside it, are inductive, for any cards, any reads  *)
(* and any number of faults; and every step brings a call nearer its end.  *)
(***************************************************************************)
EXTENDS Mmc, TLAPS

LEMMA Facts ==
  ASSUME TypeOK
  PROVE  /\ kind.hc \in BOOLEAN
         /\ request.block \in Nat /\ request.blocks \in Nat \ {0}
         /\ \A c : Blocks(c) \in Nat \ {0}
<1>1. kind.hc \in BOOLEAN
  BY MmcAssumption DEF TypeOK
<1>2. request.block \in Nat /\ request.blocks \in Nat \ {0}
  BY MmcAssumption DEF TypeOK
<1> QED
  BY <1>1, <1>2 DEF Blocks

\* What the command of a call says of the step, and the other way round.
LEMMA Steps ==
  ASSUME TypeOK, CallsOfStep, phase \notin {"sent", "failed"}
  PROVE  /\ step \in DOMAIN Sends /\ d.cmd \in Sends[step] /\ d.cmd # None
         /\ IsData(d.cmd) <=> step = "read" \/ d.cmd = "CTSendSCR"
         /\ IsBusy(d.cmd) <=> step = "SelectCard"
         /\ d.cmd = "CTSendSCR" <=> step = "SendScr" /\ d.cmd # "APP_CMD"
         /\ d.cmd = "GO_IDLE_STATE" => step = "GoIdle"
<1>1. step \in DOMAIN Sends
  BY DEF TypeOK, CallsOfStep
<1>2. d.cmd \in Sends[step]
  BY <1>1 DEF CallsOfStep
<1> QED
  BY <1>1, <1>2 DEF Sends, IsData, IsBusy, None

LEMMA InitInv == Init => MmcInv
<1> SUFFICES ASSUME Init PROVE MmcInv
  OBVIOUS
<1>1. TypeOK
  <2>1. /\ step = "reset" /\ phase = "sent" /\ kind \in Kinds /\ result = None
        /\ request = [block |-> 0, blocks |-> 1] /\ buf = <<>>
        /\ device = [rca |-> 0, sdhc |-> FALSE, block_size |-> 0]
        /\ card = [state |-> "idle", app |-> FALSE, rca |-> 0]
    BY DEF Init
  <2>2. RESP0 = [cmd |-> None, rca |-> 0, state |-> "idle", powered |-> FALSE, ccs |-> FALSE]
    BY DEF Init
  <2>3. RESP0.rca = 0 /\ RESP0.powered = FALSE /\ RESP0.ccs = FALSE
    BY <2>2
  <2>4. /\ RESP0.rca \in {0, 1} /\ RESP0.powered \in BOOLEAN /\ RESP0.ccs \in BOOLEAN
        /\ RESP0.ccs <=> RESP0.powered /\ kind.hc
    BY <2>3
  <2>5. card \in [state : {"idle", "ready", "ident", "stby", "tran"},
                  app : BOOLEAN, rca : {0, 1}]
    BY <2>1
  <2>6. device \in [rca : {0, 1}, sdhc : BOOLEAN, block_size : {0, 8, 512}]
    BY <2>1
  <2> QED
    BY <2>1, <2>4, <2>5, <2>6 DEF TypeOK
<1>2. CallsOfStep
  BY DEF Init, CallsOfStep, Sends
<1>3. Wire
  BY DEF Init, Wire, Through
<1>4. Agreement /\ Copied /\ ReadsAreRight
  BY DEF Init, Agreement, Copied, ReadsAreRight, None
<1> QED
  BY <1>1, <1>2, <1>3, <1>4 DEF MmcInv

-----------------------------------------------------------------------------
(* The controller and the card *)

\* What a step of theirs leaves alone, and what follows from that.
Unmoved == UNCHANGED <<step, command, loops, device, v2_card, read, kind>>

LEMMA UnmovedKeeps ==
  ASSUME MmcInv, Unmoved
  PROVE  CallsOfStep' /\ Copied' /\ ReadsAreRight'
<1>1. /\ UNCHANGED <<step, phase, d, saved, device, request, buf, result>>
  BY DEF Unmoved, command, read
<1> QED
  BY <1>1 DEF MmcInv, CallsOfStep, Copied, ReadsAreRight

\* A card that has acted on the call's command.
LEMMA CardMoves ==
  ASSUME MmcInv, ctl.cmd # None, ~ctl.answered, NEW rd \in BOOLEAN,
         rd => MayBeReady(ctl.cmd, ctl.arg), Answers(ctl.cmd, ctl.arg),
         card' = CardAfter(ctl.cmd, rd)
  PROVE  /\ phase = "wait" /\ Issued
         /\ card' \in [state : {"idle", "ready", "ident", "stby", "tran"},
                       app : BOOLEAN, rca : {0, 1}]
         /\ step = "SelectCard" => device.rca = card'.rca /\ card'.state = "tran"
         /\ step \in {"SetScr", "SendScr", "open", "read"} =>
              card'.state = "tran" /\ card'.rca = device.rca
<1>1. phase = "wait" /\ Issued
  BY DEF MmcInv, TypeOK, Wire, Through, Transferring, Issued, NoCommand
<1>2. step \in DOMAIN Sends /\ d.cmd \in Sends[step] /\ ctl.cmd = d.cmd
  BY <1>1 DEF MmcInv, TypeOK, CallsOfStep, Issued
<1>3. card \in [state : {"idle", "ready", "ident", "stby", "tran"},
                app : BOOLEAN, rca : {0, 1}]
  BY DEF MmcInv, TypeOK
<1>4. card' \in [state : {"idle", "ready", "ident", "stby", "tran"},
                 app : BOOLEAN, rca : {0, 1}]
  BY <1>3 DEF CardAfter
<1>5. step = "SelectCard" => device.rca = card'.rca /\ card'.state = "tran"
  BY <1>2, <1>3 DEF CardAfter, Sends, MmcInv, Agreement
<1>6. step \in {"SetScr", "SendScr", "open", "read"} =>
        card'.state = "tran" /\ card'.rca = device.rca
  <2> SUFFICES ASSUME step \in {"SetScr", "SendScr", "open", "read"}
               PROVE  card'.state = "tran" /\ card'.rca = device.rca
    OBVIOUS
  <2>1. card.state = "tran" /\ card.rca = device.rca
    BY DEF MmcInv, Agreement
  <2>2. ctl.cmd \in {"SET_BLOCKLEN", "APP_CMD", "CTSendSCR", "READ_SINGLE_BLOCK",
                     "READ_MULTIPLE_BLOCK"}
    BY <1>2 DEF Sends
  <2> QED
    BY <2>1, <2>2 DEF CardAfter
<1> QED
  BY <1>1, <1>4, <1>5, <1>6

LEMMA AnswerKeeps ==
  ASSUME MmcInv, Answer, Unmoved
  PROVE  MmcInv'
<1>1. PICK rd \in BOOLEAN :
        /\ Answers(ctl.cmd, ctl.arg)
        /\ rd => MayBeReady(ctl.cmd, ctl.arg)
        /\ card' = CardAfter(ctl.cmd, rd)
        /\ RESP0' = [cmd |-> ctl.cmd, rca |-> card'.rca, state |-> card.state,
                     powered |-> rd, ccs |-> rd /\ kind.hc]
        /\ INTERRUPT' = INTERRUPT \cup {"cmd"}
        /\ ctl' = IF IsData(ctl.cmd) \/ IsBusy(ctl.cmd)
                  THEN [ctl EXCEPT !.answered = TRUE,
                          !.left = IF IsData(ctl.cmd) THEN Blocks(ctl.cmd) ELSE 0,
                          !.next = IF IsData(ctl.cmd) /\ ~IsApp(ctl.cmd)
                                   THEN Address(ctl.arg) ELSE 0]
                  ELSE NoCommand
  BY DEF Answer
<1>2. ctl.cmd # None /\ ~ctl.answered /\ UNCHANGED DATA
  BY DEF Answer
<1>3. /\ phase = "wait" /\ Issued
      /\ card' \in [state : {"idle", "ready", "ident", "stby", "tran"},
                    app : BOOLEAN, rca : {0, 1}]
      /\ step = "SelectCard" => device.rca = card'.rca /\ card'.state = "tran"
      /\ step \in {"SetScr", "SendScr", "open", "read"} =>
           card'.state = "tran" /\ card'.rca = device.rca
  BY <1>1, <1>2, CardMoves
<1>4. UNCHANGED <<step, phase, d, saved, device, request, buf, result, kind>>
  BY DEF Unmoved, command, read
<1>5. TypeOK'
  BY <1>1, <1>3, <1>4 DEF MmcInv, TypeOK
<1>6. Agreement'
  BY <1>1, <1>3, <1>4 DEF MmcInv, Agreement, Answered
<1>7. Wire'
  <2>0. INTERRUPT = {} /\ DATA = <<>> /\ INTERRUPT' = {"cmd"} /\ DATA' = <<>>
    BY <1>1, <1>2, <1>3 DEF Issued, MmcInv, Wire
  <2>1. CASE ~IsData(d.cmd) /\ ~IsBusy(d.cmd)
    BY <1>1, <1>3, <1>4, <2>0, <2>1 DEF Wire, Through, Issued
  <2>2. CASE IsData(d.cmd) \/ IsBusy(d.cmd)
    <3>1. ctl' = [cmd |-> d.cmd, arg |-> d.arg, answered |-> TRUE,
                  left |-> IF IsData(d.cmd) THEN Blocks(d.cmd) ELSE 0,
                  next |-> IF IsData(d.cmd) /\ ~IsApp(d.cmd) THEN Address(d.arg) ELSE 0]
      BY <1>1, <1>3, <2>2 DEF Issued
    <3>2. step = "read" => IsData(d.cmd) /\ ~IsApp(d.cmd) /\ Address(d.arg) = request.block
      BY <1>4 DEF MmcInv, CallsOfStep, Agreement, Sends, IsData, IsApp, Address
    <3>3. IsData(d.cmd) /\ ~IsApp(d.cmd) => step = "read"
      BY <1>3, Steps DEF MmcInv, IsApp
    <3>4. request.block \in Nat /\ Blocks(d.cmd) \in Nat
      BY Facts DEF MmcInv
    <3>5. ctl'.left \in Nat /\ ctl'.next \in Int
      <4>1. /\ ctl'.left = IF IsData(d.cmd) THEN Blocks(d.cmd) ELSE 0
            /\ ctl'.next = IF IsData(d.cmd) /\ ~IsApp(d.cmd) THEN Address(d.arg) ELSE 0
        BY <3>1
      <4> QED
        BY <4>1, <3>2, <3>3, <3>4
    <3>6. buf = <<>>
      BY <1>3, <2>2 DEF MmcInv, Wire
    <3>7. Transferring'
      BY <3>6, <3>1, <3>2, <3>4, <3>5, <1>4, <2>0, <2>2 DEF Transferring, Expected, Blocks
    <3> QED
      BY <3>6, <3>7, <1>3, <1>4, <2>0 DEF Wire
  <2> QED
    BY <2>1, <2>2
<1> QED
  BY <1>5, <1>6, <1>7, UnmovedKeeps DEF MmcInv

LEMMA NoAnswerKeeps ==
  ASSUME MmcInv, NoAnswer, Unmoved
  PROVE  MmcInv'
<1>1. phase = "wait" /\ Issued
  BY DEF NoAnswer, MmcInv, TypeOK, Wire, Through, Transferring, Issued, NoCommand
<1>2. UNCHANGED <<step, phase, d, saved, device, request, buf, result, kind, RESP0, DATA, card>>
  BY DEF Unmoved, command, read, NoAnswer
<1>3. INTERRUPT' = {"cto"} /\ ctl' = NoCommand /\ DATA' = <<>>
  BY <1>1, <1>2 DEF NoAnswer, Issued
<1>4. TypeOK'
  BY <1>2 DEF MmcInv, TypeOK
<1>5. Wire'
  BY <1>1, <1>2, <1>3 DEF MmcInv, Wire, Through
<1>6. Agreement'
  BY <1>1, <1>2, <1>3 DEF MmcInv, Agreement, Answered
<1> QED
  BY <1>4, <1>5, <1>6, UnmovedKeeps DEF MmcInv

LEMMA AnswerFaultKeeps ==
  ASSUME MmcInv, AnswerFault, Unmoved
  PROVE  MmcInv'
<1>1. phase = "wait" /\ Issued
  BY DEF AnswerFault, MmcInv, TypeOK, Wire, Through, Transferring, Issued, NoCommand
<1>2. UNCHANGED <<step, phase, d, saved, device, request, buf, result, kind, RESP0, DATA>>
  BY DEF Unmoved, command, read, AnswerFault
<1>3. /\ step \in DOMAIN Sends /\ d.cmd = ctl.cmd
      /\ d.cmd = "GO_IDLE_STATE" => step = "GoIdle" /\ ~IsData(d.cmd) /\ ~IsBusy(d.cmd)
  BY <1>1, Steps DEF MmcInv, Issued
<1>4. /\ ctl' = NoCommand /\ DATA' = <<>>
      /\ \/ INTERRUPT' \in {{}, {"cto"}, {"crc"}}
         \/ INTERRUPT' = {"cmd"} /\ step = "GoIdle" /\ ~IsData(d.cmd) /\ ~IsBusy(d.cmd)
  <2>1. PICK e \in IF ctl.cmd = "GO_IDLE_STATE" THEN {{}, {"cmd"}} ELSE {{}, {"cto"}, {"crc"}} :
          INTERRUPT' = INTERRUPT \cup e
    BY DEF AnswerFault
  <2>2. INTERRUPT' = e
    BY <1>1, <2>1 DEF Issued
  <2>3. CASE ctl.cmd = "GO_IDLE_STATE"
    BY <1>1, <1>2, <1>3, <2>1, <2>2, <2>3 DEF AnswerFault, Issued
  <2>4. CASE ctl.cmd # "GO_IDLE_STATE"
    BY <1>1, <1>2, <2>1, <2>2, <2>4 DEF AnswerFault, Issued
  <2> QED
    BY <2>3, <2>4
<1>5. /\ card' \in [state : {"idle", "ready", "ident", "stby", "tran"},
                    app : BOOLEAN, rca : {0, 1}]
      /\ step = "SelectCard" => device.rca = card'.rca
      /\ step \in {"SetScr", "SendScr", "open", "read"} =>
           card'.state = "tran" /\ card'.rca = device.rca
  <2>1. CASE UNCHANGED card
    BY <2>1 DEF MmcInv, TypeOK, Agreement
  <2>2. CASE card' # card
    <3>1. PICK rd \in BOOLEAN : /\ rd => MayBeReady(ctl.cmd, ctl.arg)
                                /\ card' = CardAfter(ctl.cmd, rd)
      BY <2>2 DEF AnswerFault
    <3>2. ctl.cmd # None /\ ~ctl.answered /\ Answers(ctl.cmd, ctl.arg)
      BY <2>2 DEF AnswerFault
    <3> QED
      BY <3>1, <3>2, CardMoves
  <2> QED
    BY <2>1, <2>2
<1>6. TypeOK'
  BY <1>2, <1>5 DEF MmcInv, TypeOK
<1>7. Wire'
  BY <1>1, <1>2, <1>4 DEF MmcInv, Wire, Through
<1>8. Agreement'
  BY <1>1, <1>2, <1>4, <1>5 DEF MmcInv, Agreement, Answered
<1> QED
  BY <1>6, <1>7, <1>8, UnmovedKeeps DEF MmcInv

\* The steps of a transfer change nothing the driver knows of the card.
LEMMA TransferKeeps ==
  ASSUME MmcInv, Unmoved, UNCHANGED <<RESP0, card>>,
         phase = "wait" /\ "cmd" \in INTERRUPT' => "cmd" \in INTERRUPT
  PROVE  TypeOK' /\ Agreement'
<1>1. UNCHANGED <<step, phase, d, saved, device, request, buf, result, kind, RESP0, card>>
  BY DEF Unmoved, command, read
<1>2. TypeOK'
  BY <1>1 DEF MmcInv, TypeOK
<1>3. Answered' => Answered
  BY <1>1 DEF Answered
<1>4. Agreement'
  BY <1>1, <1>3 DEF MmcInv, Agreement
<1> QED
  BY <1>2, <1>4

LEMMA DataBlockKeeps ==
  ASSUME MmcInv, DataBlock, Unmoved
  PROVE  MmcInv'
<1>1. /\ Transferring /\ phase \in {"wait", "data"}
      /\ phase = "wait" => "cmd" \in INTERRUPT /\ buf = <<>>
      /\ phase = "data" => "cmd" \notin INTERRUPT /\ IsData(d.cmd) /\ Len(buf) < Expected
  <2>1. Transferring /\ phase \in {"wait", "data"}
    BY DEF DataBlock, MmcInv, TypeOK, Wire, Through, Issued, NoCommand
  <2> QED
    BY <2>1 DEF MmcInv, Wire, Transferring, Through, Issued, DataBlock, NoCommand
<1>2. UNCHANGED <<step, phase, d, saved, device, request, buf, result, kind, RESP0, card>>
  BY DEF Unmoved, command, read, DataBlock
<1>3. /\ ctl.left > 0 /\ DATA = <<>> /\ DATA' = <<ctl.next>>
      /\ ctl' = [ctl EXCEPT !.left = @ - 1, !.next = @ + 1]
      /\ INTERRUPT' = INTERRUPT \cup {"ready"}
  BY DEF DataBlock
<1>4. ctl' = [cmd |-> d.cmd, arg |-> d.arg, answered |-> TRUE, left |-> ctl.left - 1,
              next |-> ctl.next + 1]
  <2>1. PICK l, n : ctl = [cmd |-> d.cmd, arg |-> d.arg, answered |-> TRUE, left |-> l,
                           next |-> n]
    BY <1>1 DEF Transferring
  <2>2. ctl.left = l /\ ctl.next = n
    BY <2>1
  <2> QED
    BY <1>3, <2>1, <2>2
<1>5. INTERRUPT' \ {"cmd"} = {"ready"} /\ ("cmd" \in INTERRUPT' <=> "cmd" \in INTERRUPT)
  BY <1>1, <1>3 DEF Transferring
<1>6. Transferring'
  <2>1. Len(DATA) = 0 /\ Len(DATA') = 1 /\ Len(buf) \in Nat
    BY <1>3 DEF MmcInv, TypeOK
  <2>2. Expected' = Expected
    BY <1>2 DEF Expected, Blocks
  <2>3. ctl.left \in Nat /\ ctl.next \in Int
    BY <1>1 DEF Transferring
  <2>4. /\ ctl'.cmd = d.cmd /\ ctl'.left = ctl.left - 1 /\ ctl'.next = ctl.next + 1
    BY <1>4
  <2>5. ctl'.left \in Nat /\ ctl'.next \in Int /\ DATA' = <<ctl'.next - 1>>
    BY <1>3, <2>3, <2>4
  <2>6. Len(buf') + Len(DATA') + ctl'.left = Expected'
    BY <1>1, <1>2, <2>1, <2>2, <2>3, <2>4 DEF Transferring
  <2>7. step' = "read" => ctl'.next = request'.block + Len(buf') + Len(DATA')
    BY <1>1, <1>2, <2>1, <2>3, <2>4, Facts DEF MmcInv, Transferring
  <2> QED
    BY <1>1, <1>2, <1>4, <1>5, <2>4, <2>5, <2>6, <2>7 DEF Transferring
<1>7. Wire'
  BY <1>1, <1>2, <1>5, <1>6 DEF Wire, Expected, Blocks
<1> QED
  BY <1>1, <1>2, <1>5, <1>7, TransferKeeps, UnmovedKeeps DEF MmcInv

LEMMA DataFaultKeeps ==
  ASSUME MmcInv, DataFault, Unmoved
  PROVE  MmcInv'
<1>1. /\ Transferring /\ phase \in {"wait", "data"}
      /\ phase = "wait" => "cmd" \in INTERRUPT /\ buf = <<>>
      /\ phase = "data" => "cmd" \notin INTERRUPT /\ IsData(d.cmd) /\ Len(buf) < Expected
  <2>1. Transferring /\ phase \in {"wait", "data"}
    BY DEF DataFault, MmcInv, TypeOK, Wire, Through, Issued, NoCommand
  <2> QED
    BY <2>1 DEF MmcInv, Wire, Transferring, Through, Issued, DataFault, NoCommand
<1>2. UNCHANGED <<step, phase, d, saved, device, request, buf, result, kind, RESP0, card>>
  BY DEF Unmoved, command, read, DataFault
<1>3. ctl.left > 0 /\ DATA = <<>> /\ DATA' = <<>> /\ ctl' = NoCommand
  BY DEF DataFault
<1>4. PICK e \in {"dto", "crc"} : INTERRUPT' = INTERRUPT \cup {e}
  BY DEF DataFault
<1>5. IsData(d.cmd)
  BY <1>1, <1>3 DEF Transferring, Expected, MmcInv, TypeOK
<1>6. INTERRUPT \ {"cmd"} = {}
  BY <1>1, <1>3 DEF Transferring
<1>7. phase = "wait" => INTERRUPT' = {"cmd", e}
  BY <1>1, <1>4, <1>6
<1>8. phase = "data" => INTERRUPT' = {e}
  BY <1>1, <1>4, <1>6
<1>9. Wire'
  BY <1>1, <1>2, <1>3, <1>4, <1>5, <1>7, <1>8 DEF Wire, Through, Expected, Blocks
<1> QED
  BY <1>1, <1>2, <1>9, TransferKeeps, UnmovedKeeps DEF MmcInv

LEMMA TransferCompleteKeeps ==
  ASSUME MmcInv, TransferComplete, Unmoved
  PROVE  MmcInv'
<1>1. UNCHANGED <<step, phase, d, saved, device, request, buf, result, kind, RESP0, card>>
  BY DEF Unmoved, command, read, TransferComplete
<1>2. ctl.left = 0 /\ DATA = <<>> /\ DATA' = <<>> /\ ctl.answered /\ ctl' = NoCommand
  BY DEF TransferComplete
<1>3. /\ Transferring /\ phase \in {"wait", "data", "finish"}
      /\ phase = "wait" => "cmd" \in INTERRUPT /\ buf = <<>>
      /\ phase = "data" => Len(buf) < Expected
      /\ phase = "finish" => INTERRUPT = {}
  <2>1. Transferring /\ phase \in {"wait", "data", "finish"}
    BY <1>2 DEF MmcInv, TypeOK, Wire, Through, Issued, NoCommand
  <2> QED
    BY <1>2, <2>1 DEF MmcInv, Wire, Transferring, Through, Issued, NoCommand
<1>4. Len(buf) = Expected /\ INTERRUPT \ {"cmd"} = {}
  BY <1>2, <1>3 DEF Transferring, Expected, MmcInv, TypeOK
<1>5. phase \in {"wait", "finish"}
  BY <1>3, <1>4 DEF MmcInv, TypeOK
<1>6. phase = "wait" => IsBusy(d.cmd)
  BY <1>3, <1>4, Facts DEF Transferring, Expected, MmcInv
<1>7. \/ INTERRUPT' = INTERRUPT \cup {"done"}
      \/ INTERRUPT' = INTERRUPT \cup {"done", "dto"}
  BY DEF TransferComplete
<1>8. phase = "wait" => INTERRUPT' \in {{"cmd", "done"}, {"cmd", "done", "dto"}}
  BY <1>3, <1>4, <1>7
<1>9. phase = "finish" => INTERRUPT' \in {{"done"}, {"done", "dto"}}
  BY <1>3, <1>7
<1>10. Wire'
  BY <1>1, <1>2, <1>3, <1>4, <1>5, <1>6, <1>8, <1>9
     DEF Wire, Through, Expected, Blocks, Transferring
<1> QED
  BY <1>1, <1>3, <1>5, <1>10, TransferKeeps, UnmovedKeeps DEF MmcInv

LEMMA ControllerKeeps == MmcInv /\ Controller => MmcInv'
<1> SUFFICES ASSUME MmcInv, Controller PROVE MmcInv'
  OBVIOUS
<1>1. Unmoved
  BY DEF Controller, Unmoved
<1> QED
  BY <1>1, AnswerKeeps, NoAnswerKeeps, AnswerFaultKeeps, DataBlockKeeps, DataFaultKeeps,
     TransferCompleteKeeps DEF Controller

-----------------------------------------------------------------------------
(* SendCommand and AppCommand *)

\* What every step of a call leaves alone.
CallMoves == UNCHANGED <<step, device, request, result, RESP0, kind, card>>

LEMMA CallKeeps ==
  ASSUME MmcInv, CallMoves, phase \in {"app", "send", "wait", "data", "finish"},
         phase' \in {"app", "send", "wait", "data", "finish", "sent", "failed"},
         buf' \in Seq(Int), Answered' => Answered
  PROVE  /\ TypeOK' /\ Agreement' /\ ReadsAreRight'
         /\ step \in DOMAIN Sends /\ result' # "size"
<1>1. UNCHANGED <<step, device, request, result, RESP0, kind, card>>
  BY DEF CallMoves
<1>2. TypeOK'
  BY <1>1 DEF MmcInv, TypeOK
<1>3. Agreement'
  BY <1>1 DEF MmcInv, Agreement
<1>4. step \in DOMAIN Sends
  BY Steps DEF MmcInv
<1>5. result' # "size"
  BY <1>1, <1>4 DEF MmcInv, Copied, Sends
<1> QED
  BY <1>2, <1>3, <1>4, <1>5 DEF ReadsAreRight

LEMMA AppCommandKeeps ==
  ASSUME MmcInv, AppCommand
  PROVE  MmcInv'
<1>1. /\ phase = "app" /\ phase' = "wait" /\ saved' = d
      /\ d' = [cmd |-> "APP_CMD", arg |-> device.rca]
      /\ ctl' = [cmd |-> "APP_CMD", arg |-> device.rca, answered |-> FALSE, left |-> 0,
                 next |-> 0]
      /\ UNCHANGED <<step, device, request, result, RESP0, kind, card, buf, INTERRUPT, DATA>>
  BY DEF AppCommand, Issue, read
<1>2. INTERRUPT = {} /\ DATA = <<>>
  BY <1>1 DEF MmcInv, Wire, Through
<1>3. ~Answered'
  BY <1>1, <1>2 DEF Answered
<1>4. TypeOK' /\ Agreement' /\ ReadsAreRight' /\ step \in DOMAIN Sends /\ result' # "size"
  BY <1>1, <1>3, CallKeeps DEF CallMoves, MmcInv, TypeOK
<1>5. step \in {"CheckOcr", "CheckSdhcSupport", "SendScr"} /\ d.cmd \in Sends[step]
  BY <1>1, <1>4 DEF MmcInv, CallsOfStep
<1>6. d'.cmd = "APP_CMD" /\ d'.arg = device.rca
  BY <1>1
<1>7. CallsOfStep'
  BY <1>1, <1>5, <1>6 DEF CallsOfStep, Sends
<1>8. Wire'
  BY <1>1, <1>2, <1>6 DEF Wire, Issued, IsData, IsBusy
<1>9. Copied'
  BY <1>1, <1>4, <1>5 DEF Copied
<1> QED
  BY <1>4, <1>7, <1>8, <1>9 DEF MmcInv

LEMMA SendCommandKeeps ==
  ASSUME MmcInv, SendCommand
  PROVE  MmcInv'
<1>1. /\ phase = "send" /\ phase' = "wait" /\ buf' = <<>>
      /\ ctl' = [cmd |-> d.cmd, arg |-> d.arg, answered |-> FALSE, left |-> 0, next |-> 0]
      /\ UNCHANGED <<step, d, saved, device, request, result, RESP0, kind, card, INTERRUPT,
                     DATA>>
  BY DEF SendCommand, Issue
<1>2. INTERRUPT = {} /\ DATA = <<>>
  BY <1>1 DEF MmcInv, Wire, Through
<1>3. ~Answered'
  BY <1>1, <1>2 DEF Answered
<1>4. buf' \in Seq(Int) /\ Len(buf') = 0
  BY <1>1
<1>5. TypeOK' /\ Agreement' /\ ReadsAreRight' /\ step \in DOMAIN Sends /\ result' # "size"
  BY <1>1, <1>3, <1>4, CallKeeps DEF CallMoves
<1>6. CallsOfStep'
  BY <1>1 DEF MmcInv, CallsOfStep
<1>7. Wire'
  BY <1>1, <1>2 DEF Wire, Issued
<1>8. Copied'
  BY <1>1, <1>4, <1>5 DEF Copied
<1> QED
  BY <1>5, <1>6, <1>7, <1>8 DEF MmcInv

\* A call that comes back, or goes on behind APP_CMD, with nothing left on the wire.
LEMMA SentKeeps ==
  ASSUME MmcInv, CallMoves, Sent, Answered, phase \in {"wait", "finish"}, UNCHANGED buf,
         Through', INTERRUPT' = {},
         step = "read" => Len(buf) = request.blocks
  PROVE  MmcInv'
<1>1. UNCHANGED <<step, device, request, result, RESP0, kind, card, buf>>
  BY DEF CallMoves
<1>2. \/ phase' = "sent" /\ UNCHANGED <<d, saved>> /\ saved.cmd = None
      \/ phase' = "send" /\ d' = saved /\ saved' = NoCall /\ saved.cmd # None
  BY DEF Sent
<1>3. buf' \in Seq(Int)
  BY <1>1 DEF MmcInv, TypeOK
<1>4. TypeOK' /\ Agreement' /\ ReadsAreRight' /\ step \in DOMAIN Sends /\ result' # "size"
  BY <1>2, <1>3, CallKeeps
<1>5. CallsOfStep'
  BY <1>1, <1>2, <1>4 DEF MmcInv, CallsOfStep, NoCall, Sends
<1>6. Wire'
  BY <1>2 DEF Wire
<1>7. Copied'
  BY <1>1, <1>2, <1>4 DEF MmcInv, Copied
<1> QED
  BY <1>4, <1>5, <1>6, <1>7 DEF MmcInv

LEMMA NotSentKeeps ==
  ASSUME MmcInv, CallMoves, phase \in {"wait", "finish"}, UNCHANGED <<buf, d>>,
         phase' = "failed", saved' = NoCall, Through', INTERRUPT' \subseteq {"done"},
         INTERRUPT' = {} \/ IsBusy(d.cmd)
  PROVE  MmcInv'
<1>1. UNCHANGED <<step, device, request, result, RESP0, kind, card>>
  BY DEF CallMoves
<1>2. buf' \in Seq(Int) /\ ~Answered'
  BY DEF MmcInv, TypeOK, Answered
<1>3. TypeOK' /\ Agreement' /\ ReadsAreRight' /\ step \in DOMAIN Sends /\ result' # "size"
  BY <1>2, CallKeeps
<1>4. CallsOfStep'
  BY <1>1, <1>3 DEF MmcInv, CallsOfStep, NoCall, Sends
<1>5. Wire'
  BY <1>1, Steps DEF Wire, MmcInv
<1>6. Copied'
  BY <1>1, <1>3 DEF Copied
<1> QED
  BY <1>3, <1>4, <1>5, <1>6 DEF MmcInv

LEMMA WaitCommandDoneKeeps ==
  ASSUME MmcInv, WaitCommandDone
  PROVE  MmcInv'
<1>1. /\ phase = "wait" /\ INTERRUPT # {}
      /\ INTERRUPT' = INTERRUPT \ (Errors \cup {"cmd"})
      /\ UNCHANGED <<ctl, DATA, buf>>
      /\ CallMoves
  BY DEF WaitCommandDone, CallMoves, read
<1>2. UNCHANGED <<step, device, request, result, RESP0, kind, card>>
  BY <1>1 DEF CallMoves
<1>3. buf' \in Seq(Int)
  BY <1>1 DEF MmcInv, TypeOK
<1>4. CASE INTERRUPT \cap (Errors \cup {"cmd"}) = {"cmd"}
  <2>1. Answered
    BY <1>1, <1>4 DEF Answered
  <2>2. \/ Transferring
        \/ Through /\ INTERRUPT = {"cmd"} /\ ~IsData(d.cmd) /\ ~IsBusy(d.cmd)
        \/ Through /\ INTERRUPT = {"cmd", "done"} /\ IsBusy(d.cmd)
    BY <1>1, <1>4 DEF MmcInv, Wire, Issued, Errors
  <2>3. CASE IsData(d.cmd) \/ IsBusy(d.cmd)
    <3>1. /\ phase' = IF IsData(d.cmd) THEN "data" ELSE "finish"
          /\ UNCHANGED <<d, saved>>
      BY <1>4, <2>3 DEF WaitCommandDone
    <3>2. TypeOK' /\ Agreement' /\ ReadsAreRight' /\ step \in DOMAIN Sends /\ result' # "size"
      BY <1>1, <1>3, <2>1, <3>1, CallKeeps
    <3>3. CallsOfStep'
      BY <1>1, <1>2, <3>1, <3>2 DEF MmcInv, CallsOfStep
    <3>4. buf = <<>> /\ Len(buf) = 0
      BY <1>1, <2>3 DEF MmcInv, Wire
    <3>5. Copied'
      BY <1>1, <1>2, <3>1, <3>2, <3>4 DEF Copied
    <3>6. Blocks(d.cmd) \in Nat \ {0}
      BY Facts DEF MmcInv
    <3>7. ~(IsData(d.cmd) /\ IsBusy(d.cmd))
      BY DEF IsData, IsBusy
    <3>8. Wire'
      <4>1. CASE Transferring
        <5>1. /\ INTERRUPT' \ {"cmd"} = INTERRUPT \ {"cmd"} /\ "cmd" \notin INTERRUPT'
              /\ DATA = <<>> => INTERRUPT' = {}
          BY <1>1, <4>1 DEF Transferring, Errors
        <5>2. Transferring'
          BY <1>1, <1>2, <3>1, <4>1, <5>1 DEF Transferring, Expected, Blocks
        <5>3. CASE IsData(d.cmd)
          BY <1>1, <1>2, <3>1, <3>4, <3>6, <5>1, <5>2, <5>3 DEF Wire, Expected, Blocks
        <5>4. CASE ~IsData(d.cmd)
          <6>1. Len(DATA) \in Nat /\ ctl.left \in Nat /\ Len(DATA) + ctl.left = 0
            BY <3>4, <4>1, <5>4 DEF Transferring, Expected
          <6>2. DATA = <<>> /\ ctl.left = 0
            BY <4>1, <6>1 DEF Transferring
          <6> QED
            BY <1>1, <2>3, <3>1, <5>1, <5>2, <5>4, <6>2 DEF Wire
        <5> QED
          BY <5>3, <5>4
      <4>2. CASE Through /\ INTERRUPT = {"cmd", "done"} /\ IsBusy(d.cmd)
        <5>1. INTERRUPT' = {"done"}
          BY <1>1, <4>2 DEF Errors
        <5> QED
          BY <1>1, <2>3, <3>1, <3>4, <3>7, <4>2, <5>1 DEF Wire, Through, Expected
      <4> QED
        BY <2>2, <2>3, <4>1, <4>2
    <3> QED
      BY <3>2, <3>3, <3>5, <3>8 DEF MmcInv
  <2>4. CASE ~IsData(d.cmd) /\ ~IsBusy(d.cmd)
    <3>1. Through /\ INTERRUPT = {"cmd"}
      BY <2>2, <2>4 DEF Transferring
    <3>2. Through' /\ INTERRUPT' = {}
      BY <1>1, <3>1 DEF Through
    <3>3. Sent
      BY <1>4, <2>4 DEF WaitCommandDone
    <3>4. step # "read"
      BY <1>1, <2>4, Steps DEF MmcInv
    <3> QED
      BY <1>1, <2>1, <3>2, <3>3, <3>4, SentKeeps
  <2> QED
    BY <2>3, <2>4
<1>5. CASE INTERRUPT \cap (Errors \cup {"cmd"}) # {"cmd"}
  <2>1. phase' = "failed" /\ saved' = NoCall /\ UNCHANGED d
    BY <1>5 DEF WaitCommandDone, NotSent
  <2>2. /\ Through
        /\ \/ INTERRUPT \in {{"cto"}, {"crc"}, {"cmd", "dto"}, {"cmd", "crc"}}
           \/ INTERRUPT = {"cmd", "done", "dto"} /\ IsBusy(d.cmd)
    <3>1. ~Transferring
      <4> SUFFICES ASSUME Transferring PROVE FALSE
        OBVIOUS
      <4>1. ctl.answered /\ ctl.cmd # None
        BY <1>1, Steps DEF MmcInv, Transferring
      <4>2. ~Through /\ ~Issued
        BY <4>1 DEF Through, Issued, NoCommand
      <4>3. "cmd" \in INTERRUPT
        BY <1>1, <4>2 DEF MmcInv, Wire
      <4>4. INTERRUPT \ {"cmd"} \in {{}, {"ready"}}
        BY DEF Transferring
      <4> QED
        BY <1>5, <4>3, <4>4 DEF Errors
    <3> QED
      BY <1>1, <1>5, <3>1 DEF MmcInv, Wire, Issued, Errors
  <2>3. Through'
    BY <1>1, <2>2 DEF Through
  <2>4. INTERRUPT' \subseteq {"done"} /\ (INTERRUPT' = {} \/ IsBusy(d.cmd))
    BY <1>1, <2>2 DEF Errors
  <2> QED
    BY <1>1, <2>1, <2>3, <2>4, NotSentKeeps
<1> QED
  BY <1>4, <1>5

LEMMA WaitTimesOutKeeps ==
  ASSUME MmcInv, WaitTimesOut
  PROVE  MmcInv'
<1>1. /\ phase = "wait" /\ INTERRUPT = {} /\ ctl.cmd = None
      /\ phase' = "failed" /\ saved' = NoCall
      /\ UNCHANGED <<d, ctl, DATA, INTERRUPT, buf>> /\ CallMoves
  BY DEF WaitTimesOut, CallMoves, read, hw
<1>2. d.cmd # None
  BY <1>1, Steps DEF MmcInv
<1>3. Through
  BY <1>1, <1>2 DEF MmcInv, Wire, Issued, Transferring
<1>4. Through' /\ INTERRUPT' = {}
  BY <1>1, <1>3 DEF Through
<1> QED
  BY <1>1, <1>4, NotSentKeeps

LEMMA PerformDataTransferKeeps ==
  ASSUME MmcInv, PerformDataTransfer
  PROVE  MmcInv'
<1>1. /\ phase = "data" /\ "ready" \in INTERRUPT /\ INTERRUPT \cap Errors = {}
      /\ INTERRUPT' = INTERRUPT \ {"ready"}
      /\ buf' = Append(buf, Head(DATA)) /\ DATA' = <<>>
      /\ phase' = IF Len(buf') = Blocks(d.cmd) THEN "finish" ELSE "data"
      /\ UNCHANGED <<d, saved, ctl>> /\ CallMoves
  BY DEF PerformDataTransfer, CallMoves
<1>2. UNCHANGED <<step, device, request, result, RESP0, kind, card>>
  BY <1>1 DEF CallMoves
<1>3. /\ Transferring /\ "cmd" \notin INTERRUPT /\ IsData(d.cmd)
      /\ Len(buf) < Blocks(d.cmd)
  BY <1>1 DEF MmcInv, Wire, Expected
<1>4. ctl.left \in Nat /\ ctl.next \in Int /\ DATA = <<ctl.next - 1>> /\ INTERRUPT' = {}
  BY <1>1, <1>3 DEF Transferring
<1>5. buf \in Seq(Int)
  BY DEF MmcInv, TypeOK
<1>6. /\ buf' = Append(buf, ctl.next - 1) /\ buf' \in Seq(Int)
      /\ Len(buf') = Len(buf) + 1 /\ Len(buf) \in Nat
      /\ \A i \in 1 .. Len(buf) : buf'[i] = buf[i]
      /\ buf'[Len(buf) + 1] = ctl.next - 1
  BY <1>1, <1>4, <1>5
<1>7. TypeOK' /\ Agreement' /\ ReadsAreRight' /\ step \in DOMAIN Sends /\ result' # "size"
  BY <1>1, <1>6, CallKeeps DEF Answered
<1>8. CallsOfStep'
  BY <1>1, <1>2, <1>7 DEF MmcInv, CallsOfStep
<1>9. Len(buf) + 1 + ctl.left = Blocks(d.cmd) /\ Blocks(d.cmd) \in Nat
  BY <1>3, <1>4, Facts DEF MmcInv, Transferring, Expected
<1>10. step = "read" => ctl.next = request.block + Len(buf) + 1
  BY <1>3, <1>4 DEF Transferring
<1>11. Transferring'
  <2>1. /\ ctl' = [cmd |-> d'.cmd, arg |-> d'.arg, answered |-> TRUE, left |-> ctl'.left,
                   next |-> ctl'.next]
        /\ ctl'.cmd = d'.cmd /\ IsData(d'.cmd) /\ ctl'.left \in Nat /\ ctl'.next \in Int
    BY <1>1, <1>3, <1>4 DEF Transferring
  <2>2. DATA' = <<>> /\ INTERRUPT' \ {"cmd"} = {} /\ Len(DATA') = 0
    BY <1>1, <1>4
  <2>3. Len(buf') + Len(DATA') + ctl'.left = Expected'
    BY <1>1, <1>2, <1>3, <1>4, <1>6, <1>9, <2>2 DEF Expected, Blocks
  <2>4. step' = "read" => ctl'.next = request'.block + Len(buf') + Len(DATA')
    <3>1. request.block \in Int /\ UNCHANGED <<step, request, ctl>>
      BY <1>1, <1>2, Facts DEF MmcInv
    <3> QED
      BY <1>4, <1>6, <1>10, <2>2, <3>1
  <2> QED
    BY <2>1, <2>2, <2>3, <2>4 DEF Transferring
<1>12. Wire'
  BY <1>1, <1>2, <1>3, <1>4, <1>6, <1>9, <1>11 DEF Wire, Expected, Blocks
<1>13. Copied'
  <2>1. step = "read" => \A i \in 1 .. Len(buf) : buf[i] = request.block + i - 1
    BY <1>1 DEF MmcInv, Copied
  <2>2. step = "read" => \A i \in 1 .. Len(buf') : buf'[i] = request.block + i - 1
    BY <1>4, <1>6, <1>10, <2>1, Facts DEF MmcInv
  <2> QED
    BY <1>1, <1>2, <1>7, <2>2 DEF Copied
<1> QED
  BY <1>7, <1>8, <1>12, <1>13 DEF MmcInv

LEMMA DataTransferFailsKeeps ==
  ASSUME MmcInv, DataTransferFails
  PROVE  MmcInv'
<1>1. /\ phase = "data" /\ "ready" \notin INTERRUPT /\ ctl.cmd = None
      /\ phase' = "finish"
      /\ UNCHANGED <<d, saved, ctl, DATA, INTERRUPT, buf>> /\ CallMoves
  BY DEF DataTransferFails, CallMoves, read, hw
<1>2. UNCHANGED <<step, device, request, result, RESP0, kind, card>>
  BY <1>1 DEF CallMoves
<1>3. d.cmd # None
  BY <1>1, Steps DEF MmcInv
<1>4. Through /\ INTERRUPT \in {{"dto"}, {"crc"}} /\ IsData(d.cmd)
  BY <1>1, <1>3 DEF MmcInv, Wire, Transferring
<1>5. TypeOK' /\ Agreement' /\ ReadsAreRight' /\ step \in DOMAIN Sends /\ result' # "size"
  BY <1>1, CallKeeps DEF Answered, MmcInv, TypeOK
<1>6. CallsOfStep'
  BY <1>1, <1>2, <1>5 DEF MmcInv, CallsOfStep
<1>7. Wire'
  BY <1>1, <1>4 DEF Wire, Through
<1>8. Copied'
  BY <1>1, <1>2, <1>5 DEF MmcInv, Copied
<1> QED
  BY <1>5, <1>6, <1>7, <1>8 DEF MmcInv

LEMMA TransferEndsKeeps ==
  ASSUME MmcInv, TransferEnds
  PROVE  MmcInv'
<1>1. /\ phase = "finish" /\ ("done" \in INTERRUPT \/ ctl.cmd = None)
      /\ INTERRUPT' = INTERRUPT \ (Errors \cup {"done"})
      /\ UNCHANGED <<ctl, DATA, buf>> /\ CallMoves
  BY DEF TransferEnds, CallMoves, read
<1>2. d.cmd # None
  BY <1>1, Steps DEF MmcInv
<1>3. /\ Through
      /\ \/ INTERRUPT \in {{"dto"}, {"crc"}}
         \/ INTERRUPT \in {{"done"}, {"done", "dto"}} /\ Len(buf) = Expected
  BY <1>1, <1>2 DEF MmcInv, Wire, Transferring
<1>4. Through' /\ INTERRUPT' = {}
  BY <1>1, <1>3 DEF Through, Errors
<1>5. CASE INTERRUPT \cap (Errors \cup {"done"}) \in {{"done"}, {"done", "dto"}}
  <2>1. Sent
    BY <1>5 DEF TransferEnds
  <2>2. Len(buf) = Expected
    BY <1>3, <1>5 DEF Errors
  <2>3. step = "read" => Len(buf) = request.blocks
    BY <1>1, <2>2, Steps DEF MmcInv, Expected, Blocks, CallsOfStep, Sends
  <2> QED
    BY <1>1, <1>4, <2>1, <2>3, SentKeeps DEF Answered
<1>6. CASE INTERRUPT \cap (Errors \cup {"done"}) \notin {{"done"}, {"done", "dto"}}
  <2>1. phase' = "failed" /\ saved' = NoCall /\ UNCHANGED d
    BY <1>6 DEF TransferEnds, NotSent
  <2> QED
    BY <1>1, <1>4, <2>1, NotSentKeeps
<1> QED
  BY <1>5, <1>6

LEMMA SendingKeeps == MmcInv /\ Sending => MmcInv'
  BY AppCommandKeeps, SendCommandKeeps, WaitCommandDoneKeeps, WaitTimesOutKeeps,
     PerformDataTransferKeeps, DataTransferFailsKeeps, TransferEndsKeeps DEF Sending

-----------------------------------------------------------------------------
(* Open *)

Devices == [rca : {0, 1}, sdhc : BOOLEAN, block_size : {0, 8, 512}]

\* Between calls the wire is silent, but for the end of a failed SELECT_CARD.
LEMMA Silent ==
  ASSUME MmcInv, Returned, step \notin {"reset", "failed", "SelectCard"} \/ phase = "sent"
  PROVE  Through /\ INTERRUPT = {}
  BY DEF MmcInv, Wire, Returned

\* A step of ResetCard that makes the next call.
LEMMA CallStarts ==
  ASSUME MmcInv, step # "open", UNCHANGED <<read, RESP0, kind, card>>,
         step' \in DOMAIN Sends, step' # "read", phase' \in {"app", "send"},
         phase' = "app" => step' \in {"CheckOcr", "CheckSdhcSupport", "SendScr"},
         d'.cmd \in Sends[step'], saved'.cmd \in Sends[step'] \cup {None},
         Through', INTERRUPT' = {}, device' \in Devices, Agreement'
  PROVE  MmcInv'
<1>1. UNCHANGED <<request, buf, result>> /\ result # "size"
  BY DEF read, MmcInv, Copied
<1>2. TypeOK'
  BY <1>1 DEF MmcInv, TypeOK, Devices
<1>3. CallsOfStep'
  BY DEF CallsOfStep, Sends
<1>4. Wire'
  BY DEF Wire
<1>5. Copied' /\ ReadsAreRight'
  BY <1>1 DEF Copied, ReadsAreRight
<1> QED
  BY <1>2, <1>3, <1>4, <1>5 DEF MmcInv

\* ... the call with these arguments.
LEMMA CallMade ==
  ASSUME MmcInv, step \notin {"open", "read"}, UNCHANGED <<read, RESP0, kind, card>>,
         NEW st, NEW ph \in {"app", "send"}, NEW c, NEW a, Call(st, ph, c, a),
         st \in DOMAIN Sends \ {"read"}, c \in Sends[st],
         ph = "app" => st \in {"CheckOcr", "CheckSdhcSupport", "SendScr"},
         Through', INTERRUPT' = {}, device' \in Devices, Agreement'
  PROVE  MmcInv'
<1>1. step' = st /\ phase' = ph /\ d'.cmd = c /\ saved'.cmd = None
  BY DEF Call, NoCall
<1> QED
  BY <1>1, CallStarts

\* A reset that fails, with an address noted or not.
LEMMA TryAgainKeeps ==
  ASSUME MmcInv, TryAgain, Returned, step # "open", device' \in Devices,
         UNCHANGED <<read, RESP0, ctl, DATA, INTERRUPT, kind, card>>
  PROVE  MmcInv'
<1>1. /\ step' \in {"reset", "failed"}
      /\ UNCHANGED <<phase, d, saved>>
  BY DEF TryAgain, command
<1>2. UNCHANGED <<request, buf, result>> /\ result # "size"
  BY DEF read, MmcInv, Copied
<1>3. TypeOK'
  BY <1>1, <1>2 DEF MmcInv, TypeOK, Devices
<1>4. CallsOfStep'
  BY <1>1 DEF CallsOfStep, Returned, Sends
<1>5. Wire'
  BY <1>1 DEF MmcInv, Wire, Through, Returned
<1>6. Agreement'
  BY <1>1 DEF Agreement
<1>7. Copied' /\ ReadsAreRight'
  BY <1>1, <1>2 DEF Copied, ReadsAreRight
<1> QED
  BY <1>3, <1>4, <1>5, <1>6, <1>7 DEF MmcInv

LEMMA ResetFailsKeeps ==
  ASSUME MmcInv, ResetFails, Returned, step # "open",
         UNCHANGED <<read, RESP0, ctl, DATA, INTERRUPT, kind, card>>
  PROVE  MmcInv'
<1>1. TryAgain /\ device' \in Devices
  BY DEF ResetFails, MmcInv, TypeOK, Devices
<1> QED
  BY <1>1, TryAgainKeeps

LEMMA ResetHostFailsKeeps ==
  ASSUME MmcInv, ResetHostFails
  PROVE  MmcInv'
<1>1. /\ step = "reset" /\ ResetFails
      /\ UNCHANGED <<read, RESP0, ctl, DATA, INTERRUPT, kind, card>>
  BY DEF ResetHostFails
<1>2. Returned
  BY <1>1 DEF MmcInv, CallsOfStep, Returned
<1> QED
  BY <1>1, <1>2, ResetFailsKeeps

LEMMA ResetCardKeeps ==
  ASSUME MmcInv, ResetCard
  PROVE  MmcInv'
<1>1. /\ step = "reset" /\ INTERRUPT' = {} /\ ctl' = NoCommand /\ DATA' = <<>>
      /\ device' = [device EXCEPT !.block_size = 0]
      /\ Call("GoIdle", "send", "GO_IDLE_STATE", 0)
      /\ UNCHANGED <<read, RESP0, kind, card>>
  BY DEF ResetCard
<1>2. device' \in Devices
  BY <1>1 DEF MmcInv, TypeOK, Devices
<1>3. Through' /\ Agreement'
  BY <1>1 DEF Through, Agreement, Call
<1> QED
  BY <1>1, <1>2, <1>3, CallMade DEF Sends

LEMMA GoIdleKeeps ==
  ASSUME MmcInv, GoIdle
  PROVE  MmcInv'
<1>1. /\ step = "GoIdle" /\ Returned /\ Through /\ INTERRUPT = {}
      /\ UNCHANGED <<read, RESP0, ctl, DATA, INTERRUPT, kind, card>>
  BY Silent DEF GoIdle, hw
<1>2. CASE phase = "sent"
  <2>1. Call("CheckV2Card", "send", "SEND_IF_COND", 0) /\ UNCHANGED device
    BY <1>2 DEF GoIdle
  <2>2. Through' /\ INTERRUPT' = {} /\ device' \in Devices /\ Agreement'
    BY <1>1, <2>1 DEF Through, Agreement, Call, MmcInv, TypeOK, Devices
  <2> QED
    BY <1>1, <2>1, <2>2, CallMade DEF Sends
<1>3. CASE phase # "sent"
  BY <1>1, <1>3, ResetFailsKeeps DEF GoIdle
<1> QED
  BY <1>2, <1>3

LEMMA CheckV2CardKeeps ==
  ASSUME MmcInv, CheckV2Card
  PROVE  MmcInv'
<1>1. /\ step = "CheckV2Card" /\ Through /\ INTERRUPT = {} /\ ResetCommandLine
      /\ Call("CheckUsableCard", "send", "IO_SET_OP_COND", 0)
      /\ UNCHANGED <<device, read, RESP0, DATA, kind, card>>
  BY Silent DEF CheckV2Card
<1>2. Through' /\ INTERRUPT' = {}
  BY <1>1 DEF ResetCommandLine, Through
<1>3. device' \in Devices /\ Agreement'
  BY <1>1 DEF Agreement, Call, MmcInv, TypeOK, Devices
<1> QED
  BY <1>1, <1>2, <1>3, CallMade DEF Sends

LEMMA CheckUsableCardKeeps ==
  ASSUME MmcInv, CheckUsableCard
  PROVE  MmcInv'
<1>1. /\ step = "CheckUsableCard" /\ Returned /\ Through /\ INTERRUPT = {}
      /\ UNCHANGED <<read, RESP0, DATA, kind, card>>
  BY Silent DEF CheckUsableCard
<1>2. CASE phase = "sent" \/ cmd_error = {} \/ "cto" \in cmd_error
  <2>1. /\ ResetCommandLine /\ UNCHANGED device
        /\ Call("CheckOcr", "app", "CTOcrCheck", "inquiry")
    BY <1>2 DEF CheckUsableCard
  <2>2. Through' /\ INTERRUPT' = {}
    BY <1>1, <2>1 DEF ResetCommandLine, Through
  <2>3. device' \in Devices /\ Agreement'
    BY <1>1, <2>1 DEF Agreement, Call, MmcInv, TypeOK, Devices
  <2> QED
    BY <1>1, <2>1, <2>2, <2>3, CallMade DEF Sends
<1>3. CASE ~(phase = "sent" \/ cmd_error = {} \/ "cto" \in cmd_error)
  <2>1. ResetFails /\ UNCHANGED <<INTERRUPT, ctl>>
    BY <1>3 DEF CheckUsableCard
  <2> QED
    BY <1>1, <2>1, ResetFailsKeeps
<1> QED
  BY <1>2, <1>3

\* AskForPower leads to CheckSdhcSupport from there and from CheckOcr.
LEMMA AskForPowerKeeps ==
  ASSUME MmcInv, AskForPower, step \in {"CheckOcr", "CheckSdhcSupport"}, Through,
         INTERRUPT = {}, UNCHANGED <<device, read, RESP0, ctl, DATA, INTERRUPT, kind, card>>
  PROVE  MmcInv'
<1>1. PICK a : Call("CheckSdhcSupport", "app", "CTOcrCheck", a)
  BY DEF AskForPower
<1>2. Through' /\ INTERRUPT' = {} /\ device' \in Devices /\ Agreement'
  BY <1>1 DEF Through, Agreement, Call, MmcInv, TypeOK, Devices
<1> QED
  BY <1>1, <1>2, CallMade DEF Sends

LEMMA CheckOcrKeeps ==
  ASSUME MmcInv, CheckOcr
  PROVE  MmcInv'
<1>1. /\ step = "CheckOcr" /\ Returned /\ Through /\ INTERRUPT = {}
      /\ UNCHANGED <<read, RESP0, ctl, DATA, INTERRUPT, kind, card>>
  BY Silent DEF CheckOcr, hw
<1>2. CASE AskForPower /\ UNCHANGED device
  BY <1>1, <1>2, AskForPowerKeeps
<1>3. CASE phase' = "app" /\ UNCHANGED <<step, d, saved, device>>
  <2>1. d'.cmd \in Sends[step'] /\ saved'.cmd \in Sends[step'] \cup {None}
    BY <1>1, <1>3 DEF MmcInv, CallsOfStep, Sends
  <2>2. Through' /\ INTERRUPT' = {} /\ device' \in Devices /\ Agreement'
    BY <1>1, <1>3 DEF Through, Agreement, MmcInv, TypeOK, Devices
  <2>3. step' \in DOMAIN Sends
    BY <1>1, <1>3 DEF Sends
  <2> QED
    BY <1>1, <1>3, <2>1, <2>2, <2>3, CallStarts
<1>4. CASE ResetFails
  BY <1>1, <1>4, ResetFailsKeeps
<1> QED
  BY <1>2, <1>3, <1>4 DEF CheckOcr

LEMMA CheckSdhcSupportKeeps ==
  ASSUME MmcInv, CheckSdhcSupport
  PROVE  MmcInv'
<1>1. /\ step = "CheckSdhcSupport" /\ Returned /\ Through /\ INTERRUPT = {}
      /\ UNCHANGED <<read, RESP0, ctl, DATA, INTERRUPT, kind, card>>
  BY Silent DEF CheckSdhcSupport, hw
<1>2. CASE /\ RESP0.powered
           /\ device' = [device EXCEPT !.sdhc = RESP0.ccs]
           /\ Call("CheckCid", "send", "ALL_SEND_CID", 0)
  <2>1. RESP0.ccs \in BOOLEAN /\ kind.hc \in BOOLEAN /\ (RESP0.ccs <=> kind.hc)
    BY <1>2, Facts DEF MmcInv, TypeOK
  <2>2. device' \in Devices /\ device'.sdhc = RESP0.ccs
    BY <1>2, <2>1 DEF MmcInv, TypeOK, Devices
  <2>3. device'.sdhc = kind'.hc
    BY <1>1, <2>1, <2>2
  <2>4. Through' /\ INTERRUPT' = {} /\ Agreement'
    BY <1>1, <1>2, <2>3 DEF Through, Agreement, Call
  <2> QED
    BY <1>1, <1>2, <2>2, <2>4, CallMade DEF Sends
<1>3. CASE AskForPower /\ UNCHANGED device
  BY <1>1, <1>3, AskForPowerKeeps
<1>4. CASE ResetFails
  BY <1>1, <1>4, ResetFailsKeeps
<1> QED
  BY <1>2, <1>3, <1>4 DEF CheckSdhcSupport

LEMMA CheckCidKeeps ==
  ASSUME MmcInv, CheckCid
  PROVE  MmcInv'
<1>1. /\ step = "CheckCid" /\ Returned /\ Through /\ INTERRUPT = {}
      /\ UNCHANGED <<read, RESP0, ctl, DATA, INTERRUPT, kind, card>>
  BY Silent DEF CheckCid, hw
<1>2. CASE phase = "sent"
  <2>1. Call("CheckRca", "send", "SEND_RELATIVE_ADDR", 0) /\ UNCHANGED device
    BY <1>2 DEF CheckCid
  <2>2. ~Answered'
    BY <2>1 DEF Call, Answered
  <2>3. Through' /\ INTERRUPT' = {} /\ device' \in Devices /\ Agreement'
    BY <1>1, <2>1, <2>2 DEF Through, Agreement, Call, MmcInv, TypeOK, Devices
  <2> QED
    BY <1>1, <2>1, <2>3, CallMade DEF Sends
<1>3. CASE phase # "sent"
  BY <1>1, <1>3, ResetFailsKeeps DEF CheckCid
<1> QED
  BY <1>2, <1>3

LEMMA CheckRcaKeeps ==
  ASSUME MmcInv, CheckRca
  PROVE  MmcInv'
<1>1. /\ step = "CheckRca" /\ Returned /\ Through /\ INTERRUPT = {}
      /\ UNCHANGED <<read, RESP0, ctl, DATA, INTERRUPT, kind, card>>
  BY Silent DEF CheckRca, hw
<1>2. CASE phase = "sent"
  <2>1. /\ device' = [device EXCEPT !.rca = RESP0.rca]
        /\ \/ Call("SelectCard", "send", "SELECT_CARD", RESP0.rca)
           \/ TryAgain
    BY <1>2 DEF CheckRca
  <2>2. RESP0.rca = card.rca /\ device.sdhc = kind.hc
    BY <1>1, <1>2 DEF MmcInv, Agreement, Answered
  <2>3. device' \in Devices /\ device'.rca = card'.rca /\ device'.sdhc = kind'.hc
    <3>1. device \in Devices /\ RESP0.rca \in {0, 1}
      BY DEF MmcInv, TypeOK, Devices
    <3>2. device' \in Devices
      BY <2>1, <3>1 DEF Devices
    <3>3. device'.rca = RESP0.rca /\ device'.sdhc = device.sdhc
      BY <2>1, <3>1 DEF Devices
    <3> QED
      BY <1>1, <2>2, <3>2, <3>3
  <2>4. CASE Call("SelectCard", "send", "SELECT_CARD", RESP0.rca)
    <3>1. ~Answered'
      BY <2>4 DEF Call, Answered
    <3>2. Through' /\ INTERRUPT' = {} /\ Agreement'
      BY <1>1, <2>3, <2>4, <3>1 DEF Through, Agreement, Call
    <3> QED
      BY <1>1, <2>3, <2>4, <3>2, CallMade DEF Sends
  <2>5. CASE TryAgain
    BY <1>1, <2>3, <2>5, TryAgainKeeps
  <2> QED
    BY <2>1, <2>4, <2>5
<1>3. CASE phase # "sent"
  BY <1>1, <1>3, ResetFailsKeeps DEF CheckRca
<1> QED
  BY <1>2, <1>3

\* A selected card that is asked for its register, the length of a block noted.
LEMMA SendScrKeeps ==
  ASSUME MmcInv, SendScr, step \in {"SelectCard", "SetScr"}, Through, INTERRUPT = {},
         card.state = "tran", card.rca = device.rca,
         device' = [device EXCEPT !.block_size = 8],
         UNCHANGED <<read, RESP0, ctl, DATA, INTERRUPT, kind, card>>
  PROVE  MmcInv'
<1>1. Call("SendScr", "app", "CTSendSCR", 0)
  BY DEF SendScr
<1>2. /\ device' \in Devices /\ device'.rca = device.rca /\ device'.sdhc = device.sdhc
      /\ device.sdhc = kind.hc
  <2>1. device \in Devices
    BY DEF MmcInv, TypeOK, Devices
  <2>2. device' \in Devices /\ device'.rca = device.rca /\ device'.sdhc = device.sdhc
    BY <2>1 DEF Devices
  <2>3. device.sdhc = kind.hc
    BY DEF MmcInv, Agreement
  <2> QED
    BY <2>2, <2>3
<1>3. Through' /\ INTERRUPT' = {} /\ Agreement'
  BY <1>1, <1>2 DEF Through, Agreement, Call
<1> QED
  BY <1>1, <1>2, <1>3, CallMade DEF Sends

LEMMA SelectCardKeeps ==
  ASSUME MmcInv, SelectCard
  PROVE  MmcInv'
<1>1. /\ step = "SelectCard" /\ Returned
      /\ UNCHANGED <<read, RESP0, ctl, DATA, INTERRUPT, kind, card>>
  BY DEF SelectCard, hw
<1>2. CASE phase = "sent" /\ RESP0.state \in {"stby", "tran"}
  <2>1. Through /\ INTERRUPT = {}
    BY <1>1, <1>2, Silent
  <2>2. card.state = "tran" /\ card.rca = device.rca /\ device.sdhc = kind.hc
    BY <1>1, <1>2 DEF MmcInv, Agreement, Answered
  <2>3. CASE device.sdhc
    <3>1. SendScr /\ device' = [device EXCEPT !.block_size = 8]
      BY <1>2, <2>3 DEF SelectCard
    <3> QED
      BY <1>1, <2>1, <2>2, <3>1, SendScrKeeps
  <2>4. CASE ~device.sdhc
    <3>1. Call("SetScr", "send", "SET_BLOCKLEN", 512) /\ UNCHANGED device
      BY <1>2, <2>4 DEF SelectCard
    <3>2. Through' /\ INTERRUPT' = {} /\ device' \in Devices /\ Agreement'
      BY <1>1, <2>1, <2>2, <3>1 DEF Through, Agreement, Call, MmcInv, TypeOK, Devices
    <3> QED
      BY <1>1, <3>1, <3>2, CallMade DEF Sends
  <2> QED
    BY <2>3, <2>4
<1>3. CASE ~(phase = "sent" /\ RESP0.state \in {"stby", "tran"})
  BY <1>1, <1>3, ResetFailsKeeps DEF SelectCard
<1> QED
  BY <1>2, <1>3

LEMMA SetScrKeeps ==
  ASSUME MmcInv, SetScr
  PROVE  MmcInv'
<1>1. /\ step = "SetScr" /\ Returned /\ Through /\ INTERRUPT = {}
      /\ UNCHANGED <<read, RESP0, ctl, DATA, INTERRUPT, kind, card>>
  BY Silent DEF SetScr, hw
<1>2. CASE phase = "sent"
  <2>1. SendScr /\ device' = [device EXCEPT !.block_size = 8]
    BY <1>2 DEF SetScr
  <2>2. card.state = "tran" /\ card.rca = device.rca
    BY <1>1 DEF MmcInv, Agreement
  <2> QED
    BY <1>1, <2>1, <2>2, SendScrKeeps
<1>3. CASE phase # "sent"
  BY <1>1, <1>3, ResetFailsKeeps DEF SetScr
<1> QED
  BY <1>2, <1>3

LEMMA CardIsResetKeeps ==
  ASSUME MmcInv, CardIsReset
  PROVE  MmcInv'
<1>1. /\ step = "SendScr" /\ Returned /\ Through /\ INTERRUPT = {}
      /\ UNCHANGED <<read, RESP0, ctl, DATA, kind, card>>
  BY Silent DEF CardIsReset
<1>2. CASE phase = "sent"
  <2>1. /\ device' = [device EXCEPT !.block_size = 512] /\ step' = "open"
        /\ INTERRUPT' = {} /\ UNCHANGED <<phase, d, saved, request, buf, result>>
    BY <1>1, <1>2 DEF CardIsReset, command, read
  <2>2. /\ device' \in Devices /\ device'.rca = device.rca /\ device'.sdhc = device.sdhc
        /\ device'.block_size = 512
    BY <2>1 DEF MmcInv, TypeOK, Devices
  <2>3. TypeOK'
    BY <1>1, <2>1, <2>2 DEF MmcInv, TypeOK, Devices
  <2>4. CallsOfStep'
    BY <1>2, <2>1 DEF CallsOfStep, Sends
  <2>5. Wire'
    BY <1>1, <1>2, <2>1 DEF Wire, Through
  <2>6. Agreement'
    BY <1>1, <2>1, <2>2 DEF MmcInv, Agreement
  <2>7. Copied' /\ ReadsAreRight'
    BY <1>1, <2>1 DEF MmcInv, Copied, ReadsAreRight
  <2> QED
    BY <2>3, <2>4, <2>5, <2>6, <2>7 DEF MmcInv
<1>3. CASE phase # "sent"
  BY <1>1, <1>3, ResetFailsKeeps DEF CardIsReset
<1> QED
  BY <1>2, <1>3

LEMMA OpenKeeps == MmcInv /\ Open => MmcInv'
  BY ResetHostFailsKeeps, ResetCardKeeps, GoIdleKeeps, CheckV2CardKeeps,
     CheckUsableCardKeeps, CheckOcrKeeps, CheckSdhcSupportKeeps, CheckCidKeeps,
     CheckRcaKeeps, SelectCardKeeps, SetScrKeeps, CardIsResetKeeps DEF Open

-----------------------------------------------------------------------------
(* Reads *)

LEMMA ReadKeeps ==
  ASSUME MmcInv, NEW r \in Requests, Read(r)
  PROVE  MmcInv'
<1>1. /\ step = "open" /\ step' = "read" /\ phase' = "send" /\ request' = r
      /\ result' = None /\ UNCHANGED <<device, buf, RESP0, ctl, DATA, INTERRUPT, kind, card>>
  BY DEF Read, hw, Call
<1>2. /\ d' = [cmd |-> IF r.blocks > 1 THEN "READ_MULTIPLE_BLOCK" ELSE "READ_SINGLE_BLOCK",
               arg |-> [unit |-> IF device.sdhc THEN "block" ELSE "byte", at |-> r.block]]
      /\ saved' = [cmd |-> None, arg |-> 0]
  BY DEF Read, Call, NoCall
<1>3. Through /\ INTERRUPT = {}
  BY <1>1, Silent DEF MmcInv, CallsOfStep, Returned
<1>4. TypeOK'
  BY <1>1 DEF MmcInv, TypeOK, Sends
<1>5. CallsOfStep'
  <2>1. /\ d'.cmd \in {"READ_SINGLE_BLOCK", "READ_MULTIPLE_BLOCK"} /\ saved'.cmd = None
        /\ d'.arg = [unit |-> IF device.sdhc THEN "block" ELSE "byte", at |-> r.block]
    BY <1>2
  <2> QED
    BY <1>1, <2>1 DEF CallsOfStep, Sends
<1>6. Wire'
  BY <1>1, <1>3 DEF Wire, Through
<1>7. Agreement'
  BY <1>1 DEF MmcInv, Agreement
<1>8. Copied' /\ ReadsAreRight'
  BY <1>1 DEF Copied, ReadsAreRight, None
<1> QED
  BY <1>4, <1>5, <1>6, <1>7, <1>8 DEF MmcInv

LEMMA HandleDataCommandKeeps ==
  ASSUME MmcInv, HandleDataCommand
  PROVE  MmcInv'
<1>1. /\ step = "read" /\ Returned /\ Through /\ INTERRUPT = {}
      /\ UNCHANGED <<d, saved, device, request, buf, RESP0, ctl, DATA, INTERRUPT, kind, card>>
  BY Silent DEF HandleDataCommand, hw
<1>2. result # "size"
  BY <1>1 DEF MmcInv, Copied
<1>3. Through' /\ INTERRUPT' = {}
  BY <1>1 DEF Through
<1>4. CASE phase' = "send" /\ UNCHANGED <<step, result>>
  <2>1. TypeOK' /\ CallsOfStep' /\ Agreement'
    BY <1>1, <1>4 DEF MmcInv, TypeOK, CallsOfStep, Agreement
  <2>2. Wire' /\ Copied' /\ ReadsAreRight'
    BY <1>2, <1>3, <1>4 DEF Wire, Copied, ReadsAreRight
  <2> QED
    BY <2>1, <2>2 DEF MmcInv
<1>5. CASE /\ step' = "open" /\ UNCHANGED phase
           /\ \/ phase = "failed" /\ result' = "error"
              \/ phase = "sent" /\ result' = "size"
  <2>1. TypeOK'
    BY <1>1, <1>5 DEF MmcInv, TypeOK
  <2>2. CallsOfStep' /\ Agreement'
    BY <1>1, <1>5 DEF MmcInv, CallsOfStep, Agreement, Returned, Sends
  <2>3. Wire' /\ Copied'
    BY <1>3, <1>5 DEF Wire, Copied
  <2>4. ReadsAreRight'
    <3> SUFFICES ASSUME phase = "sent"
                 PROVE  buf = [i \in 1 .. request.blocks |-> request.block + i - 1]
      BY <1>1, <1>5 DEF ReadsAreRight
    <3>1. /\ Len(buf) = request.blocks /\ buf \in Seq(Int)
          /\ \A i \in 1 .. Len(buf) : buf[i] = request.block + i - 1
      BY <1>1 DEF MmcInv, Copied, TypeOK
    <3> QED
      BY <3>1
  <2> QED
    BY <2>1, <2>2, <2>3, <2>4 DEF MmcInv
<1> QED
  BY <1>4, <1>5 DEF HandleDataCommand

-----------------------------------------------------------------------------
(* The theorems *)

LEMMA StepInv == MmcInv /\ [Next]_vars => MmcInv'
<1> SUFFICES ASSUME MmcInv, [Next]_vars PROVE MmcInv'
  OBVIOUS
<1>1. CASE Driver
  BY <1>1, SendingKeeps, OpenKeeps, HandleDataCommandKeeps, ReadKeeps DEF Driver
<1>2. CASE Controller
  BY <1>2, ControllerKeeps
<1>3. CASE UNCHANGED vars
  <2>1. UNCHANGED <<step, phase, d, saved, device, request, buf, result, INTERRUPT, RESP0,
                    ctl, DATA, card, kind>>
    BY <1>3 DEF vars, command, read, hw
  <2>2. TypeOK' /\ CallsOfStep' /\ Agreement' /\ Copied' /\ ReadsAreRight'
    BY <2>1 DEF MmcInv, TypeOK, CallsOfStep, Agreement, Answered, Copied, ReadsAreRight
  <2>3. Wire'
    BY <2>1 DEF MmcInv, Wire, Issued, Transferring, Through, Expected, Blocks
  <2> QED
    BY <2>2, <2>3 DEF MmcInv
<1> QED
  BY <1>1, <1>2, <1>3 DEF Next, Done

THEOREM MmcSafety == Spec => []MmcInv
  BY InitInv, StepInv, PTL DEF Spec

\* A command is never taken for answered because of what an earlier one left in the
\* controller: WaitCommandDone and the resets between leave nothing, whatever of it
\* was lost, garbled or broken off.
THEOREM AnswersAreFresh == Spec => []NoStaleAnswers
<1>1. MmcInv => NoStaleAnswers
  BY DEF MmcInv, Wire, NoStaleAnswers, Through, NoCommand
<1> QED
  BY <1>1, MmcSafety, PTL

\* Open returns true only when the driver and the card agree on address, unit and
\* block size, and no read or failed read spoils that.
THEOREM OpenAgrees == Spec => []OpenMeansReady
<1>1. MmcInv => OpenMeansReady
  BY DEF MmcInv, Agreement, OpenMeansReady
<1> QED
  BY <1>1, MmcSafety, PTL

\* A Read that returns the size has copied the blocks asked for, for any number of
\* blocks, retries and faults.
THEOREM ReadsReturnTheirBlocks == Spec => []ReadsAreRight
<1>1. MmcInv => ReadsAreRight
  BY DEF MmcInv
<1> QED
  BY <1>1, MmcSafety, PTL

-----------------------------------------------------------------------------
(* Every retry has its fault *)

\* What Open asks of the card before it has noted its address.
Asking == {"GoIdle", "CheckV2Card", "CheckUsableCard", "CheckOcr", "CheckSdhcSupport",
           "CheckCid", "CheckRca"}

\* Commands a card may leave unanswered.
Optional == {"CheckV2Card", "CheckUsableCard"}

\* The call of a reset without faults: what fails is optional, and an application
\* command reaches a card that has taken APP_CMD.
CleanCall ==
  /\ phase = "failed" => step \in Optional /\ cmd_error = {"cto"}
  /\ phase = "wait" => \/ Issued
                       \/ INTERRUPT = {"cmd"}
                       \/ INTERRUPT = {"cto"} /\ step \in Optional
  /\ phase = "app" => d.cmd = "CTOcrCheck"
  /\ saved.cmd # None => d.cmd = "APP_CMD"
  /\ d.cmd = "APP_CMD" => phase = "wait" /\ d.arg = 0 /\ saved.cmd = "CTOcrCheck"
  /\ d.cmd = "APP_CMD" /\ Answered => card.app
  /\ phase \in {"send", "wait"} /\ d.cmd = "CTOcrCheck" /\ ~Answered => card.app
  /\ step = "CheckOcr" => /\ d.cmd = "CTOcrCheck" => d.arg = "inquiry"
                          /\ saved.cmd = "CTOcrCheck" => saved.arg = "inquiry"

\* The card in a reset without faults: it knows the commands in the order they come.
CleanCard ==
  /\ step = "GoIdle" /\ Answered => card.state = "idle" /\ card.rca = 0
  /\ step \in {"CheckV2Card", "CheckUsableCard", "CheckOcr"} => card.state = "idle" /\ card.rca = 0
  /\ step = "CheckSdhcSupport" =>
       /\ card.rca = 0
       /\ card.state = IF Answered /\ d.cmd = "CTOcrCheck" /\ RESP0.powered THEN "ready" ELSE "idle"
  /\ step = "CheckCid" => card.state = (IF Answered THEN "ident" ELSE "ready")
  /\ step = "CheckRca" => card.state = (IF Answered THEN "stby" ELSE "ident")

Clean == CleanCall /\ CleanCard

\* Open, without an address to go by, has left a reset only for a fault, and is at
\* the next one with no fault or has had its fault.
OpenTries ==
  device.rca = 0 =>
    /\ step = "reset" => faults >= tries
    /\ step \in Asking => faults >= tries + 1 \/ (faults >= tries /\ Clean)

\* A read that can only fail ...
Doomed ==
  \/ phase = "failed"
  \/ phase \in {"wait", "data"} /\ ctl.cmd = None
  \/ phase = "finish" /\ ctl.cmd = None /\ "done" \notin INTERRUPT

\* ... has had its fault.
ReadTries == step = "read" => faults >= tries /\ (Doomed => faults >= tries + 1)

\* The address the driver notes is that of SEND_RELATIVE_ADDR.
Noted ==
  /\ step = "CheckRca" /\ Answered => card.rca = 1
  /\ step \in {"SelectCard", "SetScr", "SendScr", "open", "read"} => device.rca = 1

\* Inductive, beside MmcInv.
RetryInv ==
  /\ tries \in Nat /\ faults \in Nat
  /\ OpenTries /\ ReadTries /\ Noted /\ RetriesSuffice

\* Nothing has been tried at first.
LEMMA InitRetries == Init => RetryInv
<1> SUFFICES ASSUME Init PROVE RetryInv
  OBVIOUS
<1>1. step = "reset" /\ tries = 0 /\ faults = 0 /\ result = None
  BY DEF Init
<1> QED
  BY <1>1 DEF RetryInv, OpenTries, ReadTries, Noted, RetriesSuffice, Asking, None

\* A step within a call: no try is begun, so that a reset must stay clean, and a read
\* that was not doomed must not be after it without a fault.
LEMMA CallKeepsRetries ==
  ASSUME MmcInv, RetryInv, UNCHANGED <<step, tries, faults, device, result>>,
         step \in Asking /\ device.rca = 0 /\ Clean => Clean',
         step = "read" /\ Doomed' => Doomed,
         step = "CheckRca" /\ Answered' => Answered \/ card'.rca = 1,
         step = "CheckRca" /\ Answered => card'.rca = card.rca
  PROVE  RetryInv'
<1>1. OpenTries'
  BY DEF RetryInv, OpenTries
<1>2. ReadTries'
  BY DEF RetryInv, ReadTries
<1>3. Noted'
  BY DEF RetryInv, Noted
<1> QED
  BY <1>1, <1>2, <1>3 DEF RetryInv, RetriesSuffice

\* A fault makes up for what the call comes to.
LEMMA FaultKeepsRetries ==
  ASSUME MmcInv, RetryInv, Unmoved, faults' = faults + 1, Noted'
  PROVE  RetryInv'
<1>1. UNCHANGED <<step, tries, device, result>>
  BY DEF Unmoved, loops, read
<1>2. tries \in Nat /\ faults \in Nat
  BY DEF RetryInv
<1>3. OpenTries'
  BY <1>1, <1>2 DEF RetryInv, OpenTries
<1>4. ReadTries'
  BY <1>1, <1>2 DEF RetryInv, ReadTries
<1>5. RetriesSuffice'
  <2>1. Retries \in Nat
    BY MmcAssumption
  <2> QED
    BY <1>1, <1>2, <2>1 DEF RetryInv, RetriesSuffice
<1> QED
  BY <1>1, <1>2, <1>3, <1>4, <1>5 DEF RetryInv

-----------------------------------------------------------------------------
(* The controller and the card, and the retries *)

\* An answer keeps a reset clean: the card is where the driver takes it to be.
LEMMA AnswerKeepsRetries ==
  ASSUME MmcInv, RetryInv, Answer, Unmoved
  PROVE  RetryInv'
<1>1. PICK rd \in BOOLEAN :
        /\ Answers(ctl.cmd, ctl.arg)
        /\ rd => MayBeReady(ctl.cmd, ctl.arg)
        /\ card' = CardAfter(ctl.cmd, rd)
        /\ RESP0' = [cmd |-> ctl.cmd, rca |-> card'.rca, state |-> card.state,
                     powered |-> rd, ccs |-> rd /\ kind.hc]
        /\ INTERRUPT' = INTERRUPT \cup {"cmd"}
        /\ ctl' = IF IsData(ctl.cmd) \/ IsBusy(ctl.cmd)
                  THEN [ctl EXCEPT !.answered = TRUE,
                          !.left = IF IsData(ctl.cmd) THEN Blocks(ctl.cmd) ELSE 0,
                          !.next = IF IsData(ctl.cmd) /\ ~IsApp(ctl.cmd)
                                   THEN Address(ctl.arg) ELSE 0]
                  ELSE NoCommand
  BY DEF Answer
<1>2. ctl.cmd # None /\ ~ctl.answered /\ UNCHANGED faults
  BY DEF Answer
<1>3. phase = "wait" /\ Issued
  BY <1>1, <1>2, CardMoves
<1>4. UNCHANGED <<step, phase, d, saved, cmd_error, tries, device, result>>
  BY DEF Unmoved, command, loops, read
<1>5. /\ ctl.cmd = d.cmd /\ ctl.arg = d.arg /\ INTERRUPT' = {"cmd"}
      /\ ~Answered /\ Answered'
  BY <1>1, <1>3, <1>4 DEF Issued, Answered
<1>6. step \in DOMAIN Sends /\ d.cmd \in Sends[step]
  BY <1>3, Steps DEF MmcInv
<1>7. /\ card'.app <=> d.cmd = "APP_CMD"
      /\ card'.rca = CASE d.cmd = "GO_IDLE_STATE" -> 0
                       [] d.cmd = "SEND_RELATIVE_ADDR" -> 1
                       [] OTHER -> card.rca
      /\ card'.state = CASE d.cmd = "GO_IDLE_STATE" -> "idle"
                         [] d.cmd = "CTOcrCheck" /\ rd -> "ready"
                         [] d.cmd = "ALL_SEND_CID" -> "ident"
                         [] d.cmd = "SEND_RELATIVE_ADDR" -> "stby"
                         [] d.cmd = "SELECT_CARD" -> "tran"
                         [] OTHER -> card.state
      /\ RESP0'.powered = rd
  BY <1>1, <1>5 DEF CardAfter
<1>8. step \in Asking /\ Clean => Clean'
  <2> SUFFICES ASSUME step \in Asking, Clean PROVE CleanCall' /\ CleanCard'
    BY DEF Clean
  <2>1. CleanCall'
    BY <1>3, <1>4, <1>5, <1>7 DEF Clean, CleanCall
  <2>2. step = "CheckOcr" /\ d.cmd = "CTOcrCheck" => ~rd
    BY <1>1, <1>5 DEF Clean, CleanCall, MayBeReady
  <2>3. CleanCard'
    BY <1>4, <1>5, <1>6, <1>7, <2>2 DEF Clean, CleanCard, Sends
  <2> QED
    BY <2>1, <2>3
<1>9. step = "read" => ~Doomed'
  <2> SUFFICES ASSUME step = "read" PROVE ~Doomed'
    OBVIOUS
  <2>1. ctl'.cmd = d.cmd /\ d.cmd # None
    <3>1. IsData(d.cmd) /\ d.cmd # None
      BY <1>3, Steps DEF MmcInv
    <3>2. ctl = [cmd |-> d.cmd, arg |-> d.arg, answered |-> FALSE, left |-> 0, next |-> 0]
      BY <1>3 DEF Issued
    <3> QED
      BY <1>1, <1>5, <3>1, <3>2
  <2> QED
    BY <1>3, <1>4, <2>1 DEF Doomed
<1>10. step = "CheckRca" => card'.rca = 1
  BY <1>6, <1>7 DEF Sends
<1> QED
  BY <1>2, <1>4, <1>5, <1>8, <1>9, <1>10, CallKeepsRetries

\* Only what is optional goes unanswered in a clean reset; a read does not.
LEMMA NoAnswerKeepsRetries ==
  ASSUME MmcInv, RetryInv, NoAnswer, Unmoved
  PROVE  RetryInv'
<1>1. phase = "wait" /\ Issued
  BY DEF NoAnswer, MmcInv, TypeOK, Wire, Through, Transferring, Issued, NoCommand
<1>2. UNCHANGED <<step, phase, d, saved, cmd_error, tries, device, result, card, faults, RESP0>>
  BY DEF Unmoved, command, loops, read, NoAnswer
<1>3. /\ ctl.cmd = d.cmd /\ ctl.arg = d.arg /\ INTERRUPT' = {"cto"}
      /\ ~Answered /\ ~Answered' /\ ~Answers(d.cmd, d.arg)
  BY <1>1, <1>2 DEF NoAnswer, Issued, Answered
<1>4. step \in DOMAIN Sends /\ d.cmd \in Sends[step]
  BY <1>1, Steps DEF MmcInv
<1>5. step \in Asking /\ Clean => Clean'
  <2> SUFFICES ASSUME step \in Asking, Clean PROVE CleanCall' /\ CleanCard'
    BY DEF Clean
  <2>1. step \in Optional
    <3> SUFFICES ASSUME step \notin Optional PROVE FALSE
      OBVIOUS
    <3>1. /\ d.cmd = "APP_CMD" => d.arg = 0
          /\ d.cmd = "CTOcrCheck" => card.app
      BY <1>1, <1>3 DEF Clean, CleanCall
    <3>2. CASE step = "GoIdle"
      BY <1>3, <1>4, <3>2 DEF Sends, Answers, Needs, IsApp
    <3>3. CASE step \in {"CheckOcr", "CheckSdhcSupport"}
      <4>1. card.state = "idle" /\ card.rca = 0
        BY <1>3, <3>3 DEF Clean, CleanCard
      <4>2. d.cmd \in {"APP_CMD", "CTOcrCheck"}
        BY <1>4, <3>3 DEF Sends
      <4>3. Answers(d.cmd, d.arg)
        BY <3>1, <4>1, <4>2 DEF Answers, Needs, IsApp
      <4> QED
        BY <1>3, <4>3
    <3>4. CASE step = "CheckCid"
      BY <1>3, <1>4, <3>4 DEF Sends, Answers, Needs, IsApp, Clean, CleanCard
    <3>5. CASE step = "CheckRca"
      BY <1>3, <1>4, <3>5 DEF Sends, Answers, Needs, IsApp, Clean, CleanCard
    <3> QED
      BY <3>2, <3>3, <3>4, <3>5 DEF Asking, Optional
  <2>2. CleanCall'
    BY <1>1, <1>2, <1>3, <2>1 DEF Clean, CleanCall
  <2>3. CleanCard'
    BY <1>2, <1>3 DEF Clean, CleanCard
  <2> QED
    BY <2>2, <2>3
<1>6. step # "read"
  <2> SUFFICES ASSUME step = "read" PROVE FALSE
    OBVIOUS
  <2>1. card.state = "tran"
    BY DEF MmcInv, Agreement
  <2>2. d.cmd \in {"READ_SINGLE_BLOCK", "READ_MULTIPLE_BLOCK"}
    BY <1>4 DEF Sends
  <2> QED
    BY <1>3, <2>1, <2>2 DEF Answers, Needs, IsApp
<1> QED
  BY <1>2, <1>3, <1>5, <1>6, CallKeepsRetries

\* A lost or garbled command is a fault; it leaves no answer to SEND_RELATIVE_ADDR.
LEMMA AnswerFaultKeepsRetries ==
  ASSUME MmcInv, RetryInv, AnswerFault, Unmoved
  PROVE  RetryInv'
<1>1. phase = "wait" /\ Issued
  BY DEF AnswerFault, MmcInv, TypeOK, Wire, Through, Transferring, Issued, NoCommand
<1>2. UNCHANGED <<step, phase, d, device>> /\ faults' = faults + 1
  BY DEF Unmoved, command, AnswerFault
<1>3. step = "CheckRca" => ~Answered'
  <2> SUFFICES ASSUME step = "CheckRca" PROVE ~Answered'
    OBVIOUS
  <2>1. d.cmd = "SEND_RELATIVE_ADDR" /\ ctl.cmd = d.cmd
    BY <1>1, Steps DEF MmcInv, Sends, Issued
  <2>2. PICK e \in {{}, {"cto"}, {"crc"}} : INTERRUPT' = INTERRUPT \cup e
    BY <2>1 DEF AnswerFault
  <2>3. "cmd" \notin INTERRUPT'
    BY <1>1, <2>2 DEF Issued
  <2> QED
    BY <1>1, <1>2, <2>3 DEF Answered
<1>4. Noted'
  BY <1>2, <1>3 DEF RetryInv, Noted
<1> QED
  BY <1>2, <1>4, FaultKeepsRetries

\* Blocks that come, and the end of a transfer, doom no read.
LEMMA DataKeepsRetries ==
  ASSUME MmcInv, RetryInv, DataBlock \/ DataFault \/ TransferComplete, Unmoved
  PROVE  RetryInv'
<1>1. /\ Transferring /\ phase \in {"wait", "data", "finish"}
      /\ phase = "wait" => "cmd" \in INTERRUPT
  <2>1. ctl # NoCommand /\ ctl # [cmd |-> d.cmd, arg |-> d.arg, answered |-> FALSE,
                                  left |-> 0, next |-> 0]
    BY DEF DataBlock, DataFault, TransferComplete, NoCommand
  <2> QED
    BY <2>1 DEF MmcInv, TypeOK, Wire, Through, Issued
<1>2. UNCHANGED <<step, phase, d, saved, cmd_error, tries, device, result, card>>
  BY DEF Unmoved, command, loops, read, DataBlock, DataFault, TransferComplete
<1>3. step \notin Asking /\ d.cmd # None /\ (IsData(d.cmd) \/ IsBusy(d.cmd))
  BY <1>1, Steps DEF MmcInv, Transferring, Asking
<1>4. CASE faults' = faults + 1
  <2>1. Noted'
    BY <1>2, <1>3 DEF RetryInv, Noted, Asking
  <2> QED
    BY <1>4, <2>1, FaultKeepsRetries
<1>5. CASE UNCHANGED faults
  <2>1. faults \in Nat
    BY DEF RetryInv
  <2>2. faults' # faults + 1
    BY <1>5, <2>1
  <2>3. CASE DataBlock
    <3>1. ctl'.cmd = d.cmd
      BY <1>1, <2>3 DEF DataBlock, Transferring
    <3>2. ~Doomed'
      BY <1>1, <1>2, <1>3, <3>1 DEF Doomed
    <3> QED
      BY <1>2, <1>3, <1>5, <3>2, CallKeepsRetries DEF Asking
  <2>4. CASE TransferComplete
    <3>1. ctl.left = 0 /\ DATA = <<>> /\ INTERRUPT' = INTERRUPT \cup {"done"}
      BY <2>2, <2>4 DEF TransferComplete
    <3>2. step = "read" => phase = "finish"
      <4> SUFFICES ASSUME step = "read" PROVE phase = "finish"
        OBVIOUS
      <4>1. IsData(d.cmd) /\ Expected \in Nat \ {0}
        BY <1>1, Steps, Facts DEF MmcInv, Expected
      <4>2. Len(buf) = Expected
        BY <1>1, <3>1, <4>1 DEF Transferring, MmcInv, TypeOK
      <4> QED
        BY <1>1, <4>1, <4>2 DEF MmcInv, Wire
    <3>3. step = "read" => ~Doomed'
      BY <1>2, <3>1, <3>2 DEF Doomed
    <3> QED
      BY <1>2, <1>3, <1>5, <3>3, CallKeepsRetries DEF Asking
  <2> QED
    BY <2>2, <2>3, <2>4 DEF DataFault
<1> QED
  BY <1>4, <1>5 DEF DataBlock, DataFault, TransferComplete

\* The controller and the card.
LEMMA ControllerKeepsRetries == MmcInv /\ RetryInv /\ Controller => RetryInv'
<1> SUFFICES ASSUME MmcInv, RetryInv, Controller PROVE RetryInv'
  OBVIOUS
<1>1. Unmoved
  BY DEF Controller, Unmoved
<1> QED
  BY <1>1, AnswerKeepsRetries, NoAnswerKeepsRetries, AnswerFaultKeepsRetries,
     DataKeepsRetries DEF Controller

-----------------------------------------------------------------------------
(* SendCommand and AppCommand, and the retries *)

\* In a clean reset it is CTOcrCheck that APP_CMD announces.
LEMMA AppCommandKeepsRetries ==
  ASSUME MmcInv, RetryInv, AppCommand
  PROVE  RetryInv'
<1>1. /\ phase = "app" /\ phase' = "wait" /\ saved' = d
      /\ d' = [cmd |-> "APP_CMD", arg |-> device.rca]
      /\ ctl' = [cmd |-> "APP_CMD", arg |-> device.rca, answered |-> FALSE, left |-> 0,
                 next |-> 0]
      /\ UNCHANGED <<step, tries, faults, device, result, card, cmd_error, RESP0, INTERRUPT, DATA>>
  BY DEF AppCommand, Issue, loops, read
<1>2. INTERRUPT = {} /\ DATA = <<>> /\ step \in {"CheckOcr", "CheckSdhcSupport", "SendScr"}
  BY <1>1 DEF MmcInv, Wire, Through, CallsOfStep
<1>3. ~Answered /\ ~Answered' /\ d'.cmd = "APP_CMD" /\ d'.arg = device.rca
  BY <1>1, <1>2 DEF Answered
<1>4. Issued'
  BY <1>1, <1>2, <1>3 DEF Issued
<1>5. step \in Asking /\ device.rca = 0 /\ Clean => Clean'
  <2> SUFFICES ASSUME step \in Asking, device.rca = 0, Clean PROVE CleanCall' /\ CleanCard'
    BY DEF Clean
  <2>1. CleanCall'
    BY <1>1, <1>3, <1>4 DEF Clean, CleanCall
  <2>2. CleanCard'
    BY <1>1, <1>2, <1>3 DEF Clean, CleanCard
  <2> QED
    BY <2>1, <2>2
<1> QED
  BY <1>1, <1>2, <1>3, <1>5, CallKeepsRetries

\* A command on its way is no failure.
LEMMA SendCommandKeepsRetries ==
  ASSUME MmcInv, RetryInv, SendCommand
  PROVE  RetryInv'
<1>1. /\ phase = "send" /\ phase' = "wait"
      /\ ctl' = [cmd |-> d.cmd, arg |-> d.arg, answered |-> FALSE, left |-> 0, next |-> 0]
      /\ UNCHANGED <<step, d, saved, tries, faults, device, result, card, cmd_error, RESP0,
                     INTERRUPT, DATA>>
  BY DEF SendCommand, Issue, loops
<1>2. INTERRUPT = {} /\ DATA = <<>> /\ d.cmd # None
  BY <1>1, Steps DEF MmcInv, Wire, Through
<1>3. ~Answered /\ ~Answered' /\ ctl'.cmd = d.cmd
  BY <1>1, <1>2 DEF Answered
<1>4. Issued'
  BY <1>1, <1>2, <1>3 DEF Issued
<1>5. Clean => Clean'
  <2> SUFFICES ASSUME Clean PROVE CleanCall' /\ CleanCard'
    BY DEF Clean
  <2>1. CleanCall'
    BY <1>1, <1>3, <1>4 DEF Clean, CleanCall
  <2>2. CleanCard'
    BY <1>1, <1>3 DEF Clean, CleanCard
  <2> QED
    BY <2>1, <2>2
<1>6. ~Doomed'
  BY <1>1, <1>2, <1>3 DEF Doomed
<1> QED
  BY <1>1, <1>3, <1>5, <1>6, CallKeepsRetries

\* A clean reset goes on behind its answers, or fails in what is optional; a read that
\* fails was doomed before.
LEMMA WaitCommandDoneKeepsRetries ==
  ASSUME MmcInv, RetryInv, WaitCommandDone
  PROVE  RetryInv'
<1>1. /\ phase = "wait" /\ INTERRUPT # {}
      /\ UNCHANGED <<step, tries, faults, device, result, card, RESP0, ctl>>
  BY DEF WaitCommandDone, loops, read
<1>2. /\ step \in DOMAIN Sends /\ d.cmd \in Sends[step] /\ d.cmd # None
      /\ IsData(d.cmd) <=> step = "read" \/ d.cmd = "CTSendSCR"
      /\ IsBusy(d.cmd) <=> step = "SelectCard"
  BY <1>1, Steps DEF MmcInv
<1>3. CASE INTERRUPT \cap (Errors \cup {"cmd"}) = {"cmd"}
  <2>1. Answered /\ UNCHANGED cmd_error
    BY <1>1, <1>3 DEF WaitCommandDone, Answered
  <2>2. CASE IsData(d.cmd) \/ IsBusy(d.cmd)
    <3>1. phase' = IF IsData(d.cmd) THEN "data" ELSE "finish"
      BY <1>3, <2>2 DEF WaitCommandDone
    <3>2. step \notin Asking
      BY <1>2, <2>2 DEF Asking, Sends
    <3>3. step = "read" /\ Doomed' => Doomed
      BY <1>1, <1>2, <3>1 DEF Doomed
    <3> QED
      BY <1>1, <3>2, <3>3, CallKeepsRetries DEF Asking
  <2>3. CASE ~IsData(d.cmd) /\ ~IsBusy(d.cmd)
    <3>1. Sent /\ step # "read"
      BY <1>2, <1>3, <2>3 DEF WaitCommandDone
    <3>2. \/ phase' = "sent" /\ UNCHANGED <<d, saved>> /\ saved.cmd = None
          \/ phase' = "send" /\ d' = saved /\ saved' = NoCall /\ saved.cmd # None
      BY <3>1 DEF Sent
    <3>3. step \in Asking /\ Clean => Clean'
      <4> SUFFICES ASSUME step \in Asking, Clean PROVE CleanCall' /\ CleanCard'
        BY DEF Clean
      <4>1. CASE phase' = "sent" /\ UNCHANGED <<d, saved>> /\ saved.cmd = None
        <5>1. d.cmd # "APP_CMD" /\ Answered'
          BY <4>1 DEF Clean, CleanCall, None, Answered
        <5>2. CleanCall'
          BY <1>1, <4>1, <5>1 DEF Clean, CleanCall
        <5>3. CleanCard'
          BY <1>1, <2>1, <4>1, <5>1 DEF Clean, CleanCard
        <5> QED
          BY <5>2, <5>3
      <4>2. CASE phase' = "send" /\ d' = saved /\ saved' = NoCall /\ saved.cmd # None
        <5>1. d.cmd = "APP_CMD" /\ d'.cmd = "CTOcrCheck" /\ card.app
          BY <2>1, <4>2 DEF Clean, CleanCall
        <5>2. saved'.cmd = None /\ ~Answered'
          BY <4>2 DEF NoCall, Answered
        <5>3. step \in {"CheckOcr", "CheckSdhcSupport"}
          BY <1>2, <5>1 DEF Asking, Sends
        <5>4. CleanCall'
          BY <1>1, <4>2, <5>1, <5>2, <5>3 DEF Clean, CleanCall, None
        <5>5. CleanCard'
          BY <1>1, <5>1, <5>2, <5>3 DEF Clean, CleanCard
        <5> QED
          BY <5>4, <5>5
      <4> QED
        BY <3>2, <4>1, <4>2
    <3> QED
      BY <1>1, <2>1, <3>1, <3>3, CallKeepsRetries
  <2> QED
    BY <2>2, <2>3
<1>4. CASE INTERRUPT \cap (Errors \cup {"cmd"}) # {"cmd"}
  <2>1. /\ phase' = "failed" /\ saved' = NoCall /\ cmd_error' = INTERRUPT \cap Errors
        /\ UNCHANGED d
    BY <1>4 DEF WaitCommandDone, NotSent
  <2>2. saved'.cmd = None /\ ~Answered'
    BY <2>1 DEF NoCall, Answered
  <2>3. step \in Asking /\ Clean => Clean'
    <3> SUFFICES ASSUME step \in Asking, Clean PROVE CleanCall' /\ CleanCard'
      BY DEF Clean
    <3>1. INTERRUPT # {"cmd"} /\ ~Issued
      BY <1>1, <1>4 DEF Issued
    <3>2. INTERRUPT = {"cto"} /\ step \in Optional
      BY <1>1, <3>1 DEF Clean, CleanCall
    <3>3. cmd_error' = {"cto"} /\ d.cmd \notin {"APP_CMD", "CTOcrCheck"}
      BY <1>2, <2>1, <3>2 DEF Errors, Optional, Sends
    <3>4. CleanCall'
      BY <1>1, <2>1, <2>2, <3>2, <3>3 DEF CleanCall, Optional
    <3>5. CleanCard'
      BY <1>1, <3>2 DEF Clean, CleanCard, Optional
    <3> QED
      BY <3>4, <3>5
  <2>4. step = "read" => Doomed
    <3> SUFFICES ASSUME step = "read" PROVE Doomed
      OBVIOUS
    <3>1. ~Through => INTERRUPT \ {"cmd"} \subseteq {"ready"} /\ "cmd" \in INTERRUPT
      BY <1>1 DEF MmcInv, Wire, Issued, Transferring
    <3>2. Through
      BY <1>4, <3>1 DEF Errors
    <3> QED
      BY <1>1, <3>2 DEF Doomed, Through, NoCommand
  <2> QED
    BY <1>1, <2>2, <2>3, <2>4, CallKeepsRetries
<1> QED
  BY <1>3, <1>4

\* Nothing comes only after a fault.
LEMMA WaitTimesOutKeepsRetries ==
  ASSUME MmcInv, RetryInv, WaitTimesOut
  PROVE  RetryInv'
<1>1. /\ phase = "wait" /\ INTERRUPT = {} /\ ctl.cmd = None /\ phase' = "failed"
      /\ UNCHANGED <<step, tries, faults, device, result, card>>
  BY DEF WaitTimesOut, loops, read, hw
<1>2. ~Clean
  BY <1>1, Steps DEF MmcInv, Clean, CleanCall, Issued
<1>3. Doomed /\ ~Answered'
  BY <1>1 DEF Doomed, Answered
<1> QED
  BY <1>1, <1>2, <1>3, CallKeepsRetries

\* A transfer goes on, breaks off or ends.
LEMMA TransferKeepsRetries ==
  ASSUME MmcInv, RetryInv, PerformDataTransfer \/ DataTransferFails \/ TransferEnds
  PROVE  RetryInv'
<1>1. /\ phase \in {"data", "finish"}
      /\ UNCHANGED <<step, tries, faults, device, result, card, ctl>>
  BY DEF PerformDataTransfer, DataTransferFails, TransferEnds, loops, read, hw
<1>2. step \notin Asking
  BY <1>1, Steps DEF MmcInv, Wire, Asking, Sends
<1>3. step = "read" /\ Doomed' => Doomed
  <2> SUFFICES ASSUME step = "read", Doomed' PROVE Doomed
    OBVIOUS
  <2>1. CASE PerformDataTransfer
    <3>1. phase = "data" /\ "ready" \in INTERRUPT /\ phase' \in {"data", "finish"}
      BY <2>1 DEF PerformDataTransfer
    <3> QED
      BY <1>1, <3>1 DEF Doomed
  <2>2. CASE DataTransferFails
    BY <2>2 DEF DataTransferFails, Doomed
  <2>3. CASE TransferEnds
    <3>1. phase = "finish" /\ ("done" \in INTERRUPT \/ ctl.cmd = None)
      BY <2>3 DEF TransferEnds
    <3>2. Through
      BY <3>1, Steps DEF MmcInv, Wire, Transferring
    <3>3. "done" \notin INTERRUPT
      <4> SUFFICES ASSUME "done" \in INTERRUPT PROVE FALSE
        OBVIOUS
      <4>1. INTERRUPT \in {{"done"}, {"done", "dto"}}
        BY <3>1, Steps DEF MmcInv, Wire, Transferring
      <4>2. INTERRUPT \cap (Errors \cup {"done"}) \in {{"done"}, {"done", "dto"}}
        BY <4>1 DEF Errors
      <4>3. phase' \in {"sent", "send"}
        BY <2>3, <4>2 DEF TransferEnds, Sent
      <4> QED
        BY <4>3 DEF Doomed
    <3> QED
      BY <3>1, <3>2, <3>3 DEF Doomed, Through, NoCommand
  <2> QED
    BY <2>1, <2>2, <2>3
<1> QED
  BY <1>1, <1>2, <1>3, CallKeepsRetries DEF Asking

\* SendCommand and AppCommand.
LEMMA SendingKeepsRetries == MmcInv /\ RetryInv /\ Sending => RetryInv'
  BY AppCommandKeepsRetries, SendCommandKeepsRetries, WaitCommandDoneKeepsRetries,
     WaitTimesOutKeepsRetries, TransferKeepsRetries DEF Sending

-----------------------------------------------------------------------------
(* Open, and the retries *)

\* A reset that fails, after a fault of its own or with an address to go by.
LEMMA TryAgainKeepsRetries ==
  ASSUME RetryInv, TryAgain, UNCHANGED result, faults' \in Nat, faults' >= faults,
         faults' >= tries + 1 \/ device'.rca # 0
  PROVE  RetryInv'
<1>1. tries \in Nat /\ faults \in Nat /\ Retries \in Nat
  BY MmcAssumption DEF RetryInv
<1>2. \/ tries + 1 < Retries /\ step' = "reset" /\ tries' = tries + 1
      \/ ~(tries + 1 < Retries) /\ step' = "failed" /\ tries' = tries
  BY DEF TryAgain
<1>3. tries' \in Nat /\ step' \in {"reset", "failed"}
  BY <1>1, <1>2
<1>4. OpenTries'
  BY <1>1, <1>2 DEF OpenTries, Asking
<1>5. ReadTries' /\ Noted'
  BY <1>3 DEF ReadTries, Noted
<1>6. RetriesSuffice'
  BY <1>1, <1>2 DEF RetryInv, RetriesSuffice
<1> QED
  BY <1>3, <1>4, <1>5, <1>6 DEF RetryInv

\* What is not optional fails a reset only for a fault.
LEMMA StepFailsKeepsRetries ==
  ASSUME RetryInv, ResetFails, UNCHANGED <<result, faults>>,
         \/ step \in Asking /\ ~Clean
         \/ step \in {"SelectCard", "SetScr", "SendScr"}
  PROVE  RetryInv'
<1>1. /\ faults \in Nat /\ faults' \in Nat /\ faults' >= faults
      /\ TryAgain /\ UNCHANGED device
  BY DEF RetryInv, ResetFails
<1>2. CASE step \in Asking /\ ~Clean
  <2>1. device.rca = 0 => faults' >= tries + 1
    BY <1>2 DEF RetryInv, OpenTries
  <2> QED
    BY <1>1, <2>1, TryAgainKeepsRetries
<1>3. CASE step \in {"SelectCard", "SetScr", "SendScr"}
  <2>1. device.rca = 1
    BY <1>3 DEF RetryInv, Noted
  <2> QED
    BY <1>1, <2>1, TryAgainKeepsRetries
<1> QED
  BY <1>2, <1>3

\* The next step of a reset, on the card's way to its address.
LEMMA AskKeepsRetries ==
  ASSUME RetryInv, step \in Asking \cup {"reset"}, UNCHANGED <<tries, faults, result>>,
         device'.rca = device.rca,
         NEW st \in Asking, NEW ph \in {"app", "send"}, NEW c, NEW a, Call(st, ph, c, a),
         step = "reset" \/ Clean => Clean'
  PROVE  RetryInv'
<1>1. step' = st /\ phase' = ph
  BY DEF Call
<1>2. step' \in Asking /\ ~Answered'
  BY <1>1 DEF Answered
<1>3. OpenTries'
  BY <1>2 DEF RetryInv, OpenTries, Asking
<1>4. ReadTries' /\ Noted'
  BY <1>2 DEF ReadTries, Noted, Asking
<1> QED
  BY <1>2, <1>3, <1>4 DEF RetryInv, RetriesSuffice, Asking

\* A call of a plain command is clean, and so is AppCommand's of CTOcrCheck.
LEMMA CleanCallMade ==
  ASSUME NEW st, NEW ph, NEW c, NEW a, Call(st, ph, c, a),
         \/ ph = "send" /\ c \notin {"APP_CMD", "CTOcrCheck"}
         \/ ph = "app" /\ c = "CTOcrCheck" /\ (st = "CheckOcr" => a = "inquiry")
  PROVE  CleanCall' /\ ~Answered'
<1>1. /\ step' = st /\ phase' = ph /\ d'.cmd = c /\ d'.arg = a
      /\ saved'.cmd = None /\ saved'.arg = 0
  BY DEF Call, NoCall
<1>2. ~Answered'
  BY <1>1 DEF Answered
<1>3. CleanCall'
  BY <1>1 DEF CleanCall, None
<1> QED
  BY <1>2, <1>3

\* The slot or the clock fails: that is a fault.
LEMMA ResetHostFailsKeepsRetries ==
  ASSUME MmcInv, RetryInv, ResetHostFails
  PROVE  RetryInv'
<1>1. /\ step = "reset" /\ TryAgain /\ UNCHANGED device
      /\ faults' = faults + 1 /\ UNCHANGED result
  BY DEF ResetHostFails, ResetFails, read
<1>2. tries \in Nat /\ faults \in Nat /\ (device.rca = 0 => faults >= tries)
  BY <1>1 DEF RetryInv, OpenTries
<1> QED
  BY <1>1, <1>2, TryAgainKeepsRetries

\* A reset starts with GO_IDLE_STATE, after which nothing is left of the one before.
LEMMA ResetCardKeepsRetries ==
  ASSUME MmcInv, RetryInv, ResetCard
  PROVE  RetryInv'
<1>1. /\ step = "reset" /\ Call("GoIdle", "send", "GO_IDLE_STATE", 0)
      /\ device' = [device EXCEPT !.block_size = 0] /\ UNCHANGED <<tries, faults, result>>
  BY DEF ResetCard, read
<1>2. device'.rca = device.rca
  BY <1>1 DEF MmcInv, TypeOK
<1>3. CleanCall' /\ ~Answered' /\ step' = "GoIdle"
  BY <1>1, CleanCallMade DEF Call
<1>4. Clean'
  BY <1>3 DEF Clean, CleanCard
<1> QED
  BY <1>1, <1>2, <1>4, AskKeepsRetries DEF Asking

\* The card is idle from there on, and has no address.
LEMMA GoIdleKeepsRetries ==
  ASSUME MmcInv, RetryInv, GoIdle
  PROVE  RetryInv'
<1>1. step = "GoIdle" /\ Returned /\ UNCHANGED <<faults, result, card>>
  BY DEF GoIdle, read, hw
<1>2. CASE phase = "sent"
  <2>1. Call("CheckV2Card", "send", "SEND_IF_COND", 0) /\ UNCHANGED <<tries, device>>
    BY <1>2 DEF GoIdle, loops
  <2>2. CleanCall' /\ ~Answered' /\ step' = "CheckV2Card"
    BY <2>1, CleanCallMade DEF Call
  <2>3. Clean => Clean'
    BY <1>1, <1>2, <2>2 DEF Clean, CleanCard, Answered
  <2> QED
    BY <1>1, <2>1, <2>3, AskKeepsRetries DEF Asking
<1>3. CASE phase # "sent"
  <2>1. ResetFails /\ phase = "failed"
    BY <1>1, <1>3 DEF GoIdle, Returned
  <2>2. ~Clean
    BY <1>1, <2>1 DEF Clean, CleanCall, Optional
  <2> QED
    BY <1>1, <2>1, <2>2, StepFailsKeepsRetries DEF Asking
<1> QED
  BY <1>2, <1>3

\* What SEND_IF_COND comes to changes nothing for the retries.
LEMMA CheckV2CardKeepsRetries ==
  ASSUME MmcInv, RetryInv, CheckV2Card
  PROVE  RetryInv'
<1>1. /\ step = "CheckV2Card" /\ Call("CheckUsableCard", "send", "IO_SET_OP_COND", 0)
      /\ UNCHANGED <<tries, faults, device, result, card>>
  BY DEF CheckV2Card, loops, read
<1>2. CleanCall' /\ ~Answered' /\ step' = "CheckUsableCard"
  BY <1>1, CleanCallMade DEF Call
<1>3. Clean => Clean'
  BY <1>1, <1>2 DEF Clean, CleanCard
<1> QED
  BY <1>1, <1>3, AskKeepsRetries DEF Asking

\* IO_SET_OP_COND that times out is no failure.
LEMMA CheckUsableCardKeepsRetries ==
  ASSUME MmcInv, RetryInv, CheckUsableCard
  PROVE  RetryInv'
<1>1. step = "CheckUsableCard" /\ Returned /\ UNCHANGED <<faults, result, card>>
  BY DEF CheckUsableCard, read
<1>2. CASE phase = "sent" \/ cmd_error = {} \/ "cto" \in cmd_error
  <2>1. Call("CheckOcr", "app", "CTOcrCheck", "inquiry") /\ UNCHANGED <<tries, device>>
    BY <1>2 DEF CheckUsableCard, loops
  <2>2. CleanCall' /\ ~Answered' /\ step' = "CheckOcr"
    BY <2>1, CleanCallMade DEF Call
  <2>3. Clean => Clean'
    BY <1>1, <2>2 DEF Clean, CleanCard
  <2> QED
    BY <1>1, <2>1, <2>3, AskKeepsRetries DEF Asking
<1>3. CASE ~(phase = "sent" \/ cmd_error = {} \/ "cto" \in cmd_error)
  <2>1. ResetFails /\ phase = "failed"
    BY <1>1, <1>3 DEF CheckUsableCard, Returned
  <2>2. ~Clean
    BY <1>3, <2>1 DEF Clean, CleanCall
  <2> QED
    BY <1>1, <2>1, <2>2, StepFailsKeepsRetries DEF Asking
<1> QED
  BY <1>2, <1>3

\* The card is asked to start up while it is idle.
LEMMA AskForPowerKeepsRetries ==
  ASSUME MmcInv, RetryInv, AskForPower, UNCHANGED <<tries, faults, device, result, card>>,
         \/ step = "CheckOcr"
         \/ step = "CheckSdhcSupport" /\ ~RESP0.powered
  PROVE  RetryInv'
<1>1. PICK a : Call("CheckSdhcSupport", "app", "CTOcrCheck", a)
  BY DEF AskForPower
<1>2. CleanCall' /\ ~Answered' /\ step' = "CheckSdhcSupport"
  BY <1>1, CleanCallMade DEF Call
<1>3. Clean => Clean'
  BY <1>2 DEF Clean, CleanCard
<1> QED
  BY <1>1, <1>3, AskKeepsRetries DEF Asking

\* CheckOcr calls AppCommand again only after a fault.
LEMMA CheckOcrKeepsRetries ==
  ASSUME MmcInv, RetryInv, CheckOcr
  PROVE  RetryInv'
<1>1. step = "CheckOcr" /\ Returned /\ UNCHANGED <<faults, result, card>>
  BY DEF CheckOcr, read, hw
<1>2. CASE AskForPower /\ UNCHANGED <<loops, device>>
  BY <1>1, <1>2, AskForPowerKeepsRetries DEF loops
<1>3. CASE phase = "failed" /\ UNCHANGED <<step, tries, device>>
  <2>1. ~Clean
    BY <1>1, <1>3 DEF Clean, CleanCall, Optional
  <2> QED
    BY <1>1, <1>3, <2>1, CallKeepsRetries
<1>4. CASE phase = "failed" /\ ResetFails
  <2>1. ~Clean
    BY <1>1, <1>4 DEF Clean, CleanCall, Optional
  <2> QED
    BY <1>1, <1>4, <2>1, StepFailsKeepsRetries DEF Asking
<1> QED
  BY <1>2, <1>3, <1>4 DEF CheckOcr

\* A card that says it is ready is.
LEMMA CheckSdhcSupportKeepsRetries ==
  ASSUME MmcInv, RetryInv, CheckSdhcSupport
  PROVE  RetryInv'
<1>1. step = "CheckSdhcSupport" /\ Returned /\ UNCHANGED <<faults, result, card, RESP0>>
  BY DEF CheckSdhcSupport, read, hw
<1>2. CASE /\ phase = "sent" /\ RESP0.powered
           /\ device' = [device EXCEPT !.sdhc = RESP0.ccs]
           /\ Call("CheckCid", "send", "ALL_SEND_CID", 0)
           /\ UNCHANGED loops
  <2>1. device'.rca = device.rca /\ UNCHANGED tries
    BY <1>2 DEF MmcInv, TypeOK, loops
  <2>2. CleanCall' /\ ~Answered' /\ step' = "CheckCid"
    BY <1>2, CleanCallMade DEF Call
  <2>3. Clean => Clean'
    <3> SUFFICES ASSUME Clean PROVE CleanCard'
      BY <2>2 DEF Clean
    <3>1. d.cmd \in {"APP_CMD", "CTOcrCheck"}
      BY <1>1 DEF MmcInv, CallsOfStep, Sends
    <3>2. d.cmd = "CTOcrCheck" /\ Answered
      BY <1>2, <3>1 DEF Clean, CleanCall, Answered
    <3>3. card.state = "ready"
      BY <1>1, <1>2, <3>2 DEF Clean, CleanCard
    <3> QED
      BY <1>1, <2>2, <3>3 DEF CleanCard
  <2> QED
    BY <1>1, <1>2, <2>1, <2>3, AskKeepsRetries DEF Asking
<1>3. CASE ~RESP0.powered /\ AskForPower /\ UNCHANGED <<loops, device>>
  BY <1>1, <1>3, AskForPowerKeepsRetries DEF loops
<1>4. CASE phase = "failed" /\ ResetFails
  <2>1. ~Clean
    BY <1>1, <1>4 DEF Clean, CleanCall, Optional
  <2> QED
    BY <1>1, <1>4, <2>1, StepFailsKeepsRetries DEF Asking
<1> QED
  BY <1>2, <1>3, <1>4 DEF CheckSdhcSupport

\* A card that has told its number is to be given an address.
LEMMA CheckCidKeepsRetries ==
  ASSUME MmcInv, RetryInv, CheckCid
  PROVE  RetryInv'
<1>1. step = "CheckCid" /\ Returned /\ UNCHANGED <<faults, result, card>>
  BY DEF CheckCid, read, hw
<1>2. CASE phase = "sent"
  <2>1. Call("CheckRca", "send", "SEND_RELATIVE_ADDR", 0) /\ UNCHANGED <<tries, device>>
    BY <1>2 DEF CheckCid, loops
  <2>2. CleanCall' /\ ~Answered' /\ step' = "CheckRca"
    BY <2>1, CleanCallMade DEF Call
  <2>3. Clean => Clean'
    BY <1>1, <1>2, <2>2 DEF Clean, CleanCard, Answered
  <2> QED
    BY <1>1, <2>1, <2>3, AskKeepsRetries DEF Asking
<1>3. CASE phase # "sent"
  <2>1. ResetFails /\ phase = "failed"
    BY <1>1, <1>3 DEF CheckCid, Returned
  <2>2. ~Clean
    BY <1>1, <2>1 DEF Clean, CleanCall, Optional
  <2> QED
    BY <1>1, <2>1, <2>2, StepFailsKeepsRetries DEF Asking
<1> QED
  BY <1>2, <1>3

\* From here on every reset that follows knows an address.
LEMMA AddressedKeepsRetries ==
  ASSUME RetryInv, UNCHANGED <<tries, faults, result>>, device'.rca = 1,
         step' \in {"SelectCard", "SetScr", "SendScr", "open"}
  PROVE  RetryInv'
<1>1. OpenTries' /\ ReadTries' /\ Noted'
  BY DEF OpenTries, ReadTries, Noted
<1> QED
  BY <1>1 DEF RetryInv, RetriesSuffice

\* The address is noted.
LEMMA CheckRcaKeepsRetries ==
  ASSUME MmcInv, RetryInv, CheckRca
  PROVE  RetryInv'
<1>1. step = "CheckRca" /\ Returned /\ UNCHANGED <<faults, result>>
  BY DEF CheckRca, read, hw
<1>2. CASE phase = "sent"
  <2>1. /\ device' = [device EXCEPT !.rca = RESP0.rca]
        /\ (step' = "SelectCard" /\ UNCHANGED tries) \/ TryAgain
    BY <1>2 DEF CheckRca, Call, loops
  <2>2. RESP0.rca = 1
    BY <1>1, <1>2 DEF MmcInv, Agreement, Answered, RetryInv, Noted
  <2>3. device'.rca = 1
    BY <2>1, <2>2 DEF MmcInv, TypeOK
  <2>4. faults' \in Nat /\ faults' >= faults
    BY <1>1 DEF RetryInv
  <2> QED
    BY <1>1, <2>1, <2>3, <2>4, AddressedKeepsRetries, TryAgainKeepsRetries
<1>3. CASE phase # "sent"
  <2>1. ResetFails /\ phase = "failed"
    BY <1>1, <1>3 DEF CheckRca, Returned
  <2>2. ~Clean
    BY <1>1, <2>1 DEF Clean, CleanCall, Optional
  <2> QED
    BY <1>1, <2>1, <2>2, StepFailsKeepsRetries DEF Asking
<1> QED
  BY <1>2, <1>3

\* The steps of a reset after that fail for whatever reason: RetriesSuffice exempts them.
LEMMA ConfigureKeepsRetries ==
  ASSUME MmcInv, RetryInv, SelectCard \/ SetScr \/ CardIsReset
  PROVE  RetryInv'
<1>1. step \in {"SelectCard", "SetScr", "SendScr"} /\ UNCHANGED <<faults, result>>
  BY DEF SelectCard, SetScr, CardIsReset, read, hw
<1>2. CASE ResetFails
  BY <1>1, <1>2, StepFailsKeepsRetries
<1>3. CASE ~ResetFails
  <2>1. device.rca = 1 /\ device \in [rca : {0, 1}, sdhc : BOOLEAN, block_size : {0, 8, 512}]
    BY <1>1 DEF RetryInv, Noted, MmcInv, TypeOK
  <2>2. /\ step' \in {"SelectCard", "SetScr", "SendScr", "open"} /\ UNCHANGED tries
        /\ \/ UNCHANGED device
           \/ device' = [device EXCEPT !.block_size = 8]
           \/ device' = [device EXCEPT !.block_size = 512]
    BY <1>3 DEF SelectCard, SetScr, CardIsReset, SendScr, Call, loops
  <2>3. device'.rca = 1
    BY <2>1, <2>2
  <2> QED
    BY <1>1, <2>2, <2>3, AddressedKeepsRetries
<1> QED
  BY <1>2, <1>3

\* Open.
LEMMA OpenKeepsRetries == MmcInv /\ RetryInv /\ Open => RetryInv'
  BY ResetHostFailsKeepsRetries, ResetCardKeepsRetries, GoIdleKeepsRetries,
     CheckV2CardKeepsRetries, CheckUsableCardKeepsRetries, CheckOcrKeepsRetries,
     CheckSdhcSupportKeepsRetries, CheckCidKeepsRetries, CheckRcaKeepsRetries,
     ConfigureKeepsRetries DEF Open

-----------------------------------------------------------------------------
(* Reads, and the retries *)

\* A Read starts to count anew.
LEMMA ReadKeepsRetries ==
  ASSUME MmcInv, RetryInv, NEW r \in Requests, Read(r)
  PROVE  RetryInv'
<1>1. /\ step = "open" /\ step' = "read" /\ phase' = "send" /\ tries' = 0 /\ result' = None
      /\ UNCHANGED <<device, faults>>
  BY DEF Read, Call, hw
<1>2. device.rca = 1 /\ faults \in Nat
  BY <1>1 DEF RetryInv, Noted
<1>3. OpenTries' /\ ReadTries' /\ Noted'
  BY <1>1, <1>2 DEF OpenTries, ReadTries, Noted, Doomed, Asking
<1> QED
  BY <1>1, <1>2, <1>3 DEF RetryInv, RetriesSuffice, None

\* HandleDataCommand tries again, or gives up, after a fault of this try.
LEMMA HandleDataCommandKeepsRetries ==
  ASSUME MmcInv, RetryInv, HandleDataCommand
  PROVE  RetryInv'
<1>1. step = "read" /\ UNCHANGED <<device, faults>>
  BY DEF HandleDataCommand, hw
<1>2. /\ tries \in Nat /\ faults \in Nat /\ faults >= tries /\ device.rca = 1
      /\ phase = "failed" => faults >= tries + 1
  BY <1>1 DEF RetryInv, ReadTries, Doomed, Noted
<1>3. CASE /\ phase = "failed" /\ tries' = tries + 1 /\ phase' = "send"
           /\ UNCHANGED <<step, result>>
  <2>1. OpenTries' /\ ReadTries' /\ Noted'
    BY <1>1, <1>2, <1>3 DEF OpenTries, ReadTries, Noted, Doomed, Asking
  <2> QED
    BY <1>1, <1>2, <1>3, <2>1 DEF RetryInv, RetriesSuffice
<1>4. CASE /\ step' = "open" /\ UNCHANGED tries
           /\ \/ phase = "failed" /\ tries + 1 = Retries /\ result' = "error"
              \/ result' = "size"
  <2>1. OpenTries' /\ ReadTries' /\ Noted'
    BY <1>1, <1>2, <1>4 DEF OpenTries, ReadTries, Noted, Asking
  <2>2. RetriesSuffice'
    BY <1>1, <1>2, <1>4 DEF RetriesSuffice
  <2> QED
    BY <1>1, <1>2, <1>4, <2>1, <2>2 DEF RetryInv
<1> QED
  BY <1>3, <1>4 DEF HandleDataCommand

\* Every step keeps RetryInv.
LEMMA StepRetries == MmcInv /\ RetryInv /\ [Next]_vars => RetryInv'
<1> SUFFICES ASSUME MmcInv, RetryInv, [Next]_vars PROVE RetryInv'
  OBVIOUS
<1>1. CASE Driver
  BY <1>1, SendingKeepsRetries, OpenKeepsRetries, HandleDataCommandKeepsRetries,
     ReadKeepsRetries DEF Driver
<1>2. CASE Controller
  BY <1>2, ControllerKeepsRetries
<1>3. CASE UNCHANGED vars
  <2>1. UNCHANGED <<step, phase, d, saved, cmd_error, tries, faults, device, result,
                    INTERRUPT, RESP0, ctl, DATA, card>>
    BY <1>3 DEF vars, command, loops, read, hw
  <2>2. Answered' <=> Answered
    BY <2>1 DEF Answered
  <2>3. Clean' <=> Clean
    BY <2>1, <2>2 DEF Clean, CleanCall, CleanCard, Issued
  <2>4. Doomed' <=> Doomed
    BY <2>1 DEF Doomed
  <2> QED
    BY <2>1, <2>2, <2>3, <2>4, CallKeepsRetries
<1> QED
  BY <1>1, <1>2, <1>3 DEF Next, Done

\* Open and Read give up only after Retries faults, one for each try, whatever the
\* card and wherever in the reset or in the transfer they strike; but for an Open that
\* goes on using the address of an earlier reset.
THEOREM RetriesAreEnough == Spec => []RetriesSuffice
<1>1. Spec => []RetryInv
  BY InitRetries, StepRetries, MmcSafety, PTL DEF Spec
<1>2. RetryInv => RetriesSuffice
  BY DEF RetryInv
<1> QED
  BY <1>1, <1>2, PTL
-----------------------------------------------------------------------------
(* Calls come to an end *)

\* The order of ResetCard's steps.
Place ==
  [reset |-> 0, GoIdle |-> 1, CheckV2Card |-> 2, CheckUsableCard |-> 3, CheckOcr |-> 4,
   CheckSdhcSupport |-> 5, CheckCid |-> 6, CheckRca |-> 7, SelectCard |-> 8,
   SetScr |-> 9, SendScr |-> 10, read |-> 11, open |-> 12, failed |-> 12]

\* How far a call of SendCommand is, with APP_CMD before it or without.
Within ==
  CASE phase = "app" -> 0
    [] phase = "wait" /\ saved.cmd # None -> 1
    [] phase = "send" -> 2
    [] phase = "wait" /\ saved.cmd = None -> 3
    [] phase = "data" -> 4
    [] phase = "finish" -> 5
    [] OTHER -> 6

\* The loops of the driver but the one in CheckSdhcSupport have a bound: every step
\* of the code starts a Read, is the last of a call, or goes on in this order:
\* a turn of Open's or Read's loop, a step of ResetCard, a turn of CheckOcr, a part of
\* SendCommand, a block.
DriverAdvances ==
  \/ step = "open" /\ reads' = reads + 1 /\ reads' <= MaxReads
  \/ step' \in {"open", "failed"} /\ step \notin {"open", "failed"}
  \/ tries' = tries + 1 /\ tries' < Retries
  \/ /\ tries' = tries
     /\ \/ Place[step'] > Place[step]
        \/ /\ step' = step
           /\ \/ ocr_tries' = ocr_tries + 1 /\ ocr_tries' < OcrTries
              \/ /\ ocr_tries' = ocr_tries
                 /\ \/ Within' > Within
                    \/ phase' = "data" /\ Within' = Within
                       /\ Len(buf') = Len(buf) + 1 /\ Len(buf') < Blocks(d.cmd)
                    \/ step = "CheckSdhcSupport" /\ phase = "sent" /\ ~RESP0.powered

\* What the controller has still to do.
Rest ==
  IF ctl.cmd = None THEN 0
  ELSE IF ctl.answered THEN 1 + ctl.left ELSE 2 + Blocks(ctl.cmd)

\* The controller ends each command, the driver alone gives it new ones.
ControllerAdvances ==
  /\ Controller => Rest' < Rest
  /\ ~Controller => Rest' <= Rest \/ (phase \in {"app", "send"} /\ phase' = "wait")

\* AppCommand keeps what it is to send only while it waits for APP_CMD.
SavedInv == saved.cmd # None => phase = "wait" /\ d.cmd = "APP_CMD"

LEMMA SavedInit == Init => SavedInv
  BY DEF Init, SavedInv, NoCall

\* A step that makes a call, or ends one, keeps nothing.
LEMMA NothingSaved == saved' = NoCall => SavedInv'
  BY DEF SavedInv, NoCall

LEMMA SendingKeepsSaved == MmcInv /\ SavedInv /\ Sending => SavedInv'
<1> SUFFICES ASSUME MmcInv, SavedInv, Sending PROVE SavedInv'
  OBVIOUS
<1>1. CASE AppCommand
  <2>1. phase' = "wait" /\ d' = [cmd |-> "APP_CMD", arg |-> device.rca]
    BY <1>1 DEF AppCommand
  <2> QED
    BY <2>1 DEF SavedInv
<1>2. CASE SendCommand
  BY <1>2 DEF SendCommand, SavedInv
<1>3. CASE WaitCommandDone
  <2>1. CASE Sent
    BY <2>1, NothingSaved DEF Sent, SavedInv
  <2>2. CASE saved' = NoCall
    BY <2>2, NothingSaved
  <2>3. CASE (IsData(d.cmd) \/ IsBusy(d.cmd)) /\ UNCHANGED <<d, saved>>
    <3>1. d.cmd # "APP_CMD"
      BY <2>3 DEF IsData, IsBusy
    <3> QED
      BY <2>3, <3>1 DEF SavedInv
  <2> QED
    BY <1>3, <2>1, <2>2, <2>3 DEF WaitCommandDone, NotSent
<1>4. CASE WaitTimesOut
  BY <1>4, NothingSaved DEF WaitTimesOut
<1>5. CASE PerformDataTransfer
  BY <1>5 DEF PerformDataTransfer, SavedInv
<1>6. CASE DataTransferFails
  BY <1>6 DEF DataTransferFails, SavedInv
<1>7. CASE TransferEnds
  BY <1>7, NothingSaved DEF TransferEnds, Sent, NotSent, SavedInv
<1> QED
  BY <1>1, <1>2, <1>3, <1>4, <1>5, <1>6, <1>7 DEF Sending

\* A reset that fails leaves what Returned has left.
LEMMA TryAgainKeepsSaved == SavedInv /\ TryAgain => SavedInv'
  BY DEF TryAgain, command, SavedInv

LEMMA OpenKeepsSaved == MmcInv /\ SavedInv /\ Open => SavedInv'
<1> SUFFICES ASSUME MmcInv, SavedInv, Open PROVE SavedInv'
  OBVIOUS
<1>1. CASE TryAgain
  BY <1>1, TryAgainKeepsSaved
<1>2. CASE saved' = NoCall
  BY <1>2, NothingSaved
<1>3. CASE CheckOcr
  <2>1. CASE UNCHANGED <<d, saved>> /\ phase = "failed"
    BY <2>1 DEF SavedInv
  <2> QED
    BY <1>1, <1>2, <1>3, <2>1 DEF CheckOcr, AskForPower, Call, ResetFails
<1>4. CASE CardIsReset
  <2>1. CASE UNCHANGED command
    BY <2>1 DEF SavedInv, command
  <2> QED
    BY <1>1, <1>4, <2>1 DEF CardIsReset, ResetFails
<1>5. CASE ~TryAgain /\ ~CheckOcr /\ ~CardIsReset
  <2>1. saved' = NoCall
    BY <1>5 DEF Open, ResetHostFails, ResetCard, GoIdle, CheckV2Card, CheckUsableCard,
                CheckSdhcSupport, AskForPower, CheckCid, CheckRca, SelectCard, SetScr,
                SendScr, Call, ResetFails
  <2> QED
    BY <2>1, <1>2
<1> QED
  BY <1>1, <1>3, <1>4, <1>5

LEMMA StepSaved == MmcInv /\ SavedInv /\ [Next]_vars => SavedInv'
<1> SUFFICES ASSUME MmcInv, SavedInv, [Next]_vars PROVE SavedInv'
  OBVIOUS
<1>1. CASE Sending
  BY <1>1, SendingKeepsSaved
<1>2. CASE Open
  BY <1>2, OpenKeepsSaved
<1>3. CASE HandleDataCommand
  BY <1>3 DEF HandleDataCommand, Returned, SavedInv
<1>4. ASSUME NEW r \in Requests, Read(r) PROVE SavedInv'
  BY <1>4, NothingSaved DEF Read, Call
<1>5. CASE Controller
  BY <1>5 DEF Controller, command, SavedInv
<1>6. CASE UNCHANGED vars
  BY <1>6 DEF vars, command, SavedInv
<1> QED
  BY <1>1, <1>2, <1>3, <1>4, <1>5, <1>6 DEF Next, Driver, Done

\* A step of the code that goes on within a call of SendCommand.
LEMMA GoesOn ==
  ASSUME UNCHANGED <<step, loops>>, Within' > Within
  PROVE  DriverAdvances
<1>1. step' = step /\ tries' = tries /\ ocr_tries' = ocr_tries
  BY DEF loops
<1> QED
  BY <1>1 DEF DriverAdvances

\* SendCommand returns, or goes on to the command after APP_CMD.
LEMMA SentGoesOn ==
  ASSUME SavedInv, phase = "wait" \/ phase = "finish", UNCHANGED <<step, loops>>, Sent
  PROVE  DriverAdvances
<1>1. CASE saved.cmd = None
  <2>1. phase' = "sent"
    BY <1>1 DEF Sent
  <2>2. Within' = 6 /\ Within \in {3, 5}
    BY <1>1, <2>1 DEF Within
  <2> QED
    BY <2>2, GoesOn
<1>2. CASE saved.cmd # None
  <2>1. phase' = "send" /\ phase = "wait"
    BY <1>2 DEF Sent, SavedInv
  <2>2. Within' = 2 /\ Within = 1
    BY <1>2, <2>1 DEF Within
  <2> QED
    BY <2>2, GoesOn
<1> QED
  BY <1>1, <1>2

LEMMA NotSentGoesOn ==
  ASSUME phase \in {"wait", "finish"}, UNCHANGED <<step, loops>>, phase' = "failed"
  PROVE  DriverAdvances
<1>1. Within' = 6 /\ Within \in {1, 3, 5}
  BY DEF Within
<1> QED
  BY <1>1, GoesOn

LEMMA SendingAdvances == MmcInv /\ SavedInv /\ Sending => DriverAdvances
<1> SUFFICES ASSUME MmcInv, SavedInv, Sending PROVE DriverAdvances
  OBVIOUS
<1>0. UNCHANGED <<step, loops>>
  BY DEF Sending, AppCommand, SendCommand, WaitCommandDone, WaitTimesOut,
         PerformDataTransfer, DataTransferFails, TransferEnds
<1>1. CASE AppCommand
  <2>1. phase = "app" /\ phase' = "wait" /\ saved' = d
    BY <1>1 DEF AppCommand
  <2>2. d.cmd # None
    BY <2>1, Steps DEF MmcInv
  <2>3. Within = 0 /\ Within' = 1
    BY <2>1, <2>2 DEF Within
  <2> QED
    BY <1>0, <2>3, GoesOn
<1>2. CASE SendCommand
  <2>1. phase = "send" /\ phase' = "wait" /\ saved' = saved
    BY <1>2 DEF SendCommand
  <2>2. saved.cmd = None
    BY <2>1 DEF SavedInv
  <2>3. Within = 2 /\ Within' = 3
    BY <2>1, <2>2 DEF Within
  <2> QED
    BY <1>0, <2>3, GoesOn
<1>3. CASE WaitCommandDone
  <2>0. phase = "wait"
    BY <1>3 DEF WaitCommandDone
  <2>1. CASE Sent
    BY <1>0, <2>0, <2>1, SentGoesOn
  <2>2. CASE phase' = "failed"
    BY <1>0, <2>0, <2>2, NotSentGoesOn
  <2>3. CASE /\ phase' \in {"data", "finish"}
             /\ IsData(d.cmd) \/ IsBusy(d.cmd)
    <3>1. d.cmd # "APP_CMD"
      BY <2>3 DEF IsData, IsBusy
    <3>2. saved.cmd = None
      BY <3>1 DEF SavedInv
    <3>3. Within = 3 /\ Within' \in {4, 5}
      BY <2>0, <2>3, <3>2 DEF Within
    <3> QED
      BY <1>0, <3>3, GoesOn
  <2> QED
    BY <1>3, <2>1, <2>2, <2>3 DEF WaitCommandDone, NotSent
<1>4. CASE WaitTimesOut
  BY <1>0, <1>4, NotSentGoesOn DEF WaitTimesOut
<1>5. CASE PerformDataTransfer
  <2>1. /\ phase = "data" /\ buf' = Append(buf, Head(DATA)) /\ d' = d /\ saved' = saved
        /\ phase' = IF Len(buf') = Blocks(d.cmd) THEN "finish" ELSE "data"
    BY <1>5 DEF PerformDataTransfer
  <2>2. buf \in Seq(Int) /\ IsData(d.cmd) /\ Len(buf) < Blocks(d.cmd)
    BY <2>1 DEF MmcInv, TypeOK, Wire, Expected
  <2>3. Len(buf') = Len(buf) + 1 /\ Len(buf) \in Nat
    BY <2>1, <2>2
  <2>4. Blocks(d.cmd) \in Nat
    BY Facts DEF MmcInv
  <2>5. CASE phase' = "finish"
    <3>1. Within = 4 /\ Within' = 5
      BY <2>1, <2>5 DEF Within
    <3> QED
      BY <1>0, <3>1, GoesOn
  <2>6. CASE phase' = "data"
    <3>1. Len(buf') # Blocks(d.cmd)
      BY <2>1, <2>6
    <3>2. Len(buf') < Blocks(d.cmd)
      BY <2>2, <2>3, <2>4, <3>1
    <3>3. Within = 4 /\ Within' = 4
      BY <2>1, <2>6 DEF Within
    <3>4. step' = step /\ tries' = tries /\ ocr_tries' = ocr_tries
      BY <1>0 DEF loops
    <3> QED
      BY <2>3, <2>6, <3>2, <3>3, <3>4 DEF DriverAdvances
  <2> QED
    BY <2>1, <2>5, <2>6
<1>6. CASE DataTransferFails
  <2>1. phase = "data" /\ phase' = "finish"
    BY <1>6 DEF DataTransferFails
  <2>2. Within = 4 /\ Within' = 5
    BY <2>1 DEF Within
  <2> QED
    BY <1>0, <2>2, GoesOn
<1>7. CASE TransferEnds
  <2>0. phase = "finish"
    BY <1>7 DEF TransferEnds
  <2>1. CASE Sent
    BY <1>0, <2>0, <2>1, SentGoesOn
  <2>2. CASE phase' = "failed"
    BY <1>0, <2>0, <2>2, NotSentGoesOn
  <2> QED
    BY <1>7, <2>1, <2>2 DEF TransferEnds, NotSent
<1> QED
  BY <1>1, <1>2, <1>3, <1>4, <1>5, <1>6, <1>7 DEF Sending

\* A reset that fails is one less, or the last.
LEMMA TryAgainAdvances ==
  ASSUME TryAgain, step \notin {"open", "failed"}
  PROVE  DriverAdvances
<1>1. CASE tries + 1 < Retries
  <2>1. tries' = tries + 1 /\ tries' < Retries
    BY <1>1 DEF TryAgain
  <2> QED
    BY <2>1 DEF DriverAdvances
<1>2. CASE ~(tries + 1 < Retries)
  <2>1. step' = "failed"
    BY <1>2 DEF TryAgain
  <2> QED
    BY <2>1 DEF DriverAdvances
<1> QED
  BY <1>1, <1>2

\* A step of ResetCard that goes well.
LEMMA NextPlace ==
  ASSUME tries' = tries, Place[step'] > Place[step]
  PROVE  DriverAdvances
  BY DEF DriverAdvances

LEMMA OpenAdvances == MmcInv /\ SavedInv /\ Open => DriverAdvances
<1> SUFFICES ASSUME MmcInv, SavedInv, Open PROVE DriverAdvances
  OBVIOUS
<1>0. step \notin {"open", "failed"}
  BY DEF Open, ResetHostFails, ResetCard, GoIdle, CheckV2Card, CheckUsableCard,
         CheckOcr, CheckSdhcSupport, CheckCid, CheckRca, SelectCard, SetScr, CardIsReset
<1>1. CASE TryAgain
  BY <1>0, <1>1, TryAgainAdvances
<1>2. CASE ResetCard
  <2>1. step = "reset" /\ step' = "GoIdle" /\ tries' = tries
    BY <1>2 DEF ResetCard, Call
  <2>2. Place[step'] > Place[step]
    BY <2>1 DEF Place
  <2> QED
    BY <2>1, <2>2, NextPlace
<1>3. CASE CheckOcr
  <2>0. step = "CheckOcr" /\ Returned
    BY <1>3 DEF CheckOcr
  <2>1. CASE AskForPower /\ UNCHANGED loops
    <3>1. step' = "CheckSdhcSupport" /\ tries' = tries
      BY <2>1 DEF AskForPower, Call, loops
    <3>2. Place[step'] > Place[step]
      BY <2>0, <3>1 DEF Place
    <3> QED
      BY <3>1, <3>2, NextPlace
  <2>2. CASE /\ ocr_tries' = ocr_tries + 1 /\ ocr_tries + 1 < OcrTries
             /\ UNCHANGED <<step, tries>>
    BY <2>2 DEF DriverAdvances
  <2> QED
    BY <1>1, <1>3, <2>1, <2>2 DEF CheckOcr, ResetFails
<1>4. CASE CheckSdhcSupport
  <2>0. step = "CheckSdhcSupport"
    BY <1>4 DEF CheckSdhcSupport
  <2>1. CASE step' = "CheckCid" /\ UNCHANGED loops
    <3>1. Place[step'] > Place[step] /\ tries' = tries
      BY <2>0, <2>1 DEF Place, loops
    <3> QED
      BY <3>1, NextPlace
  <2>2. CASE phase = "sent" /\ ~RESP0.powered /\ AskForPower /\ UNCHANGED loops
    <3>1. step' = step /\ tries' = tries /\ ocr_tries' = ocr_tries
      BY <2>0, <2>2 DEF AskForPower, Call, loops
    <3> QED
      BY <2>0, <2>2, <3>1 DEF DriverAdvances
  <2>3. CASE TryAgain
    BY <1>1, <2>3
  <2> QED
    BY <1>4, <2>1, <2>2, <2>3 DEF CheckSdhcSupport, Call, ResetFails
<1>5. CASE CardIsReset /\ ~TryAgain
  <2>1. step' = "open"
    BY <1>5 DEF CardIsReset, ResetFails
  <2> QED
    BY <1>0, <2>1 DEF DriverAdvances
<1>6. CASE /\ GoIdle \/ CheckV2Card \/ CheckUsableCard \/ CheckCid \/ CheckRca
              \/ SelectCard \/ SetScr
           /\ ~TryAgain
  <2>1. /\ tries' = tries
        /\ \/ step = "GoIdle" /\ step' = "CheckV2Card"
           \/ step = "CheckV2Card" /\ step' = "CheckUsableCard"
           \/ step = "CheckUsableCard" /\ step' = "CheckOcr"
           \/ step = "CheckCid" /\ step' = "CheckRca"
           \/ step = "CheckRca" /\ step' = "SelectCard"
           \/ step = "SelectCard" /\ step' \in {"SetScr", "SendScr"}
           \/ step = "SetScr" /\ step' = "SendScr"
    BY <1>6 DEF GoIdle, CheckV2Card, CheckUsableCard, CheckCid, CheckRca, SelectCard,
                SetScr, SendScr, Call, loops, ResetFails
  <2>2. Place[step'] > Place[step]
    BY <2>1 DEF Place
  <2> QED
    BY <2>1, <2>2, NextPlace
<1>7. CASE ResetHostFails
  BY <1>1, <1>7 DEF ResetHostFails, ResetFails
<1> QED
  BY <1>1, <1>2, <1>3, <1>4, <1>5, <1>6, <1>7 DEF Open

LEMMA ReadAdvances ==
  ASSUME reads \in Nat, NEW r \in Requests, Read(r)
  PROVE  DriverAdvances
<1>1. step = "open" /\ reads < MaxReads /\ reads' = reads + 1
  BY DEF Read
<1>2. MaxReads \in Nat
  BY MmcAssumption
<1>3. reads' <= MaxReads
  BY <1>1, <1>2
<1> QED
  BY <1>1, <1>3 DEF DriverAdvances

LEMMA HandleDataCommandAdvances == HandleDataCommand => DriverAdvances
<1> SUFFICES ASSUME HandleDataCommand PROVE DriverAdvances
  OBVIOUS
<1>1. step = "read"
  BY DEF HandleDataCommand
<1>2. CASE tries' = tries + 1 /\ tries + 1 < Retries
  BY <1>2 DEF DriverAdvances
<1>3. CASE step' = "open"
  BY <1>1, <1>3 DEF DriverAdvances
<1> QED
  BY <1>2, <1>3 DEF HandleDataCommand

\* The count of the reads is one.
ReadsInv == reads \in Nat

LEMMA ReadsCounted == Spec => []ReadsInv
<1>1. Init => ReadsInv
  BY DEF Init, ReadsInv
<1>2. ReadsInv /\ [Next]_vars => ReadsInv'
  <2> SUFFICES ASSUME reads \in Nat, [Next]_vars PROVE reads' \in Nat
    BY DEF ReadsInv
  <2>1. CASE Sending
    BY <2>1 DEF Sending, AppCommand, SendCommand, WaitCommandDone, WaitTimesOut,
                PerformDataTransfer, DataTransferFails, TransferEnds, read
  <2>2. CASE Open
    BY <2>2 DEF Open, ResetHostFails, ResetCard, GoIdle, CheckV2Card, CheckUsableCard,
                CheckOcr, CheckSdhcSupport, CheckCid, CheckRca, SelectCard, SetScr,
                CardIsReset, read
  <2>3. CASE HandleDataCommand
    BY <2>3 DEF HandleDataCommand
  <2>4. ASSUME NEW r \in Requests, Read(r) PROVE reads' \in Nat
    BY <2>4 DEF Read
  <2>5. CASE Controller
    BY <2>5 DEF Controller, read
  <2>6. CASE UNCHANGED vars
    BY <2>6 DEF vars, read
  <2> QED
    BY <2>1, <2>2, <2>3, <2>4, <2>5, <2>6 DEF Next, Driver, Done
<1> QED
  BY <1>1, <1>2, PTL DEF Spec

\* The safety half of CallsReturn, for any bounds: no step of the code is lost, and
\* there is no way round but the one through the loop that has no bound.
THEOREM EveryCallAdvances == Spec => [][Driver => DriverAdvances]_vars
<1>1. MmcInv /\ SavedInv /\ ReadsInv /\ [Next]_vars => [Driver => DriverAdvances]_vars
  BY SendingAdvances, OpenAdvances, HandleDataCommandAdvances, ReadAdvances
     DEF Driver, ReadsInv
<1>2. Spec => []SavedInv
  BY SavedInit, StepSaved, MmcSafety, PTL DEF Spec
<1> QED
  BY <1>1, <1>2, ReadsCounted, MmcSafety, PTL DEF Spec

\* What the controller is at.
LEMMA Controls ==
  ASSUME MmcInv, ctl.cmd # None
  PROVE  \/ /\ ctl = [cmd |-> d.cmd, arg |-> d.arg, answered |-> FALSE, left |-> 0, next |-> 0]
            /\ ~ctl.answered
         \/ /\ ctl = [cmd |-> d.cmd, arg |-> d.arg, answered |-> TRUE, left |-> ctl.left,
                      next |-> ctl.next]
            /\ ctl.answered /\ ctl.left \in Nat
<1>1. Issued \/ Transferring
  BY DEF MmcInv, TypeOK, Wire, Through, NoCommand
<1>2. CASE Issued
  BY <1>2 DEF Issued
<1>3. CASE Transferring
  <2>1. PICK l, n : ctl = [cmd |-> d.cmd, arg |-> d.arg, answered |-> TRUE, left |-> l,
                           next |-> n]
    BY <1>3 DEF Transferring
  <2> QED
    BY <1>3, <2>1 DEF Transferring
<1> QED
  BY <1>1, <1>2, <1>3

LEMMA RestIsNat == MmcInv => Rest \in Nat
<1> SUFFICES ASSUME MmcInv PROVE Rest \in Nat
  OBVIOUS
<1>1. CASE ctl.cmd = None
  BY <1>1 DEF Rest
<1>2. CASE ctl.cmd # None
  <2>1. Blocks(ctl.cmd) \in Nat
    BY Facts DEF MmcInv
  <2>2. ctl.answered => ctl.left \in Nat
    BY <1>2, Controls
  <2> QED
    BY <1>2, <2>1, <2>2 DEF Rest
<1> QED
  BY <1>1, <1>2

\* A controller that is through has nothing left.
LEMMA RestIsNone == ctl' = NoCommand => Rest' = 0
  BY DEF Rest, NoCommand

LEMMA ControllerEnds == MmcInv /\ Controller => Rest' < Rest
<1> SUFFICES ASSUME MmcInv, Controller PROVE Rest' < Rest
  OBVIOUS
<1>0. UNCHANGED request
  BY DEF Controller, read
<1>1. Rest \in Nat /\ Blocks(ctl.cmd) \in Nat
  BY RestIsNat, Facts DEF MmcInv
<1>2. ctl.cmd # None
  <2>1. ctl # NoCommand
    BY DEF Controller, Answer, NoAnswer, AnswerFault, DataBlock, DataFault,
           TransferComplete, NoCommand
  <2> QED
    BY <2>1, Steps DEF MmcInv, TypeOK, Wire, Through, Issued, Transferring
<1>3. Rest > 0
  <2>1. ctl.answered => ctl.left \in Nat
    BY <1>2, Controls
  <2> QED
    BY <1>1, <1>2, <2>1 DEF Rest
<1>4. CASE ctl' = NoCommand
  BY <1>1, <1>3, <1>4, RestIsNone
<1>5. CASE /\ ~ctl.answered
           /\ ctl' = [ctl EXCEPT !.answered = TRUE,
                        !.left = IF IsData(ctl.cmd) THEN Blocks(ctl.cmd) ELSE 0,
                        !.next = IF IsData(ctl.cmd) /\ ~IsApp(ctl.cmd)
                                 THEN Address(ctl.arg) ELSE 0]
  <2>1. ctl = [cmd |-> d.cmd, arg |-> d.arg, answered |-> FALSE, left |-> 0, next |-> 0]
    BY <1>2, <1>5, Controls
  <2>2. /\ ctl'.cmd = ctl.cmd /\ ctl'.answered
        /\ ctl'.left = IF IsData(ctl.cmd) THEN Blocks(ctl.cmd) ELSE 0
    BY <1>5, <2>1
  <2>3. Rest = 2 + Blocks(ctl.cmd)
    BY <1>2, <1>5 DEF Rest
  <2>4. Rest' = 1 + ctl'.left
    BY <1>2, <2>2 DEF Rest
  <2> QED
    BY <1>1, <2>2, <2>3, <2>4
<1>6. CASE /\ ctl.left > 0
           /\ ctl' = [ctl EXCEPT !.left = @ - 1, !.next = @ + 1]
  <2>1. /\ ctl = [cmd |-> d.cmd, arg |-> d.arg, answered |-> TRUE, left |-> ctl.left,
                  next |-> ctl.next]
        /\ ctl.answered /\ ctl.left \in Nat
    <3>1. ctl # [cmd |-> d.cmd, arg |-> d.arg, answered |-> FALSE, left |-> 0, next |-> 0]
      BY <1>6
    <3> QED
      BY <1>2, <3>1, Controls
  <2>2. PICK l, n : ctl = [cmd |-> d.cmd, arg |-> d.arg, answered |-> TRUE, left |-> l,
                           next |-> n]
    BY <2>1
  <2>3. ctl'.cmd = ctl.cmd /\ ctl'.answered /\ ctl'.left = ctl.left - 1
    BY <1>6, <2>2
  <2>4. Rest = 1 + ctl.left
    BY <1>2, <2>1 DEF Rest
  <2>5. Rest' = 1 + ctl'.left
    BY <1>2, <2>3 DEF Rest
  <2> QED
    BY <2>1, <2>3, <2>4, <2>5
<1>7. CASE Answer
  BY <1>4, <1>5, <1>7 DEF Answer
<1>8. CASE DataBlock
  BY <1>6, <1>8 DEF DataBlock
<1> QED
  BY <1>4, <1>7, <1>8 DEF Controller, NoAnswer, AnswerFault, DataFault, TransferComplete

\* All the rest leaves it what it has, or takes it away, but for a command issued.
LEMMA DriverLeaves ==
  ASSUME MmcInv, [Next]_vars, ~Controller, ~AppCommand, ~SendCommand
  PROVE  Rest' <= Rest
<1>0. Rest \in Nat
  BY RestIsNat
<1>1. CASE ctl' = NoCommand
  BY <1>0, <1>1, RestIsNone
<1>2. CASE UNCHANGED <<ctl, request>>
  <2>1. Rest' = Rest
    BY <1>2 DEF Rest, Blocks
  <2> QED
    BY <1>0, <2>1
<1>3. CASE Sending
  BY <1>2, <1>3 DEF Sending, WaitCommandDone, WaitTimesOut, PerformDataTransfer,
                    DataTransferFails, TransferEnds, read, hw
<1>4. CASE Open
  <2>1. UNCHANGED request
    BY <1>4 DEF Open, ResetHostFails, ResetCard, GoIdle, CheckV2Card, CheckUsableCard,
                CheckOcr, CheckSdhcSupport, CheckCid, CheckRca, SelectCard, SetScr,
                CardIsReset, read
  <2>2. ctl' = NoCommand \/ UNCHANGED ctl
    BY <1>4 DEF Open, ResetHostFails, ResetCard, GoIdle, CheckV2Card, CheckUsableCard,
                CheckOcr, CheckSdhcSupport, CheckCid, CheckRca, SelectCard, SetScr,
                CardIsReset, ResetCommandLine, hw
  <2> QED
    BY <1>1, <1>2, <2>1, <2>2
<1>5. CASE HandleDataCommand
  BY <1>2, <1>5 DEF HandleDataCommand, hw
<1>6. ASSUME NEW r \in Requests, Read(r) PROVE Rest' <= Rest
  <2>1. step = "open" /\ UNCHANGED ctl
    BY <1>6 DEF Read, hw
  <2>2. ctl = NoCommand
    BY <2>1 DEF MmcInv, CallsOfStep, Wire, Through
  <2> QED
    BY <1>1, <2>1, <2>2
<1>7. CASE UNCHANGED vars
  BY <1>2, <1>7 DEF vars, read, hw
<1> QED
  BY <1>3, <1>4, <1>5, <1>6, <1>7 DEF Next, Driver, Done

\* The controller's part in CallsReturn: it ends every command the driver gives it,
\* block by block, whatever the card does, and is given none between two of them.
THEOREM ControllerEndsCommands == Spec => [][ControllerAdvances]_vars
<1>1. MmcInv /\ [Next]_vars => [ControllerAdvances]_vars
  <2> SUFFICES ASSUME MmcInv, [Next]_vars PROVE ControllerAdvances
    OBVIOUS
  <2>1. Controller => Rest' < Rest
    BY ControllerEnds
  <2>2. ~Controller => Rest' <= Rest \/ (phase \in {"app", "send"} /\ phase' = "wait")
    BY DriverLeaves DEF AppCommand, SendCommand
  <2> QED
    BY <2>1, <2>2 DEF ControllerAdvances
<1> QED
  BY <1>1, MmcSafety, PTL DEF Spec
=============================================================================
