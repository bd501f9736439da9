-------------------------------- MODULE Mmc ---------------------------------
(***************************************************************************)
(* The SD card driver (drivers/mmc): the reset sequence of Open and the    *)
(* reads, over SendCommand, with the host controller and the card as       *)
(* environment.  Commands are lost, time out or are garbled, and so is     *)
(* data, up to MaxFaults times; an answer that comes does so in time.      *)
(***************************************************************************)
EXTENDS Integers, Sequences, FiniteSets

CONSTANTS
  Kinds,      \* cards: [v2, hc, sdio : BOOLEAN]
  Requests,   \* what is read: [block, blocks]
  Retries,    \* kRetryMax
  OcrTries,   \* turns of CheckOcr's loop
  MaxReads, MaxFaults, MaxBusy

ASSUME MmcAssumption ==
  /\ Kinds \subseteq [v2 : BOOLEAN, hc : BOOLEAN, sdio : BOOLEAN]
  /\ Requests \subseteq [block : Nat, blocks : Nat \ {0}]
  /\ {Retries, OcrTries} \subseteq Nat \ {0}
  /\ {MaxReads, MaxFaults, MaxBusy} \subseteq Nat

VARIABLES
  step,       \* how far ResetCard is, or what Open or Read has come to
  phase,      \* where the current SendCommand or AppCommand is
  d,          \* CommandData: cmd_reg and cmd_arg
  saved,      \* what AppCommand sends after APP_CMD
  cmd_error,
  tries, ocr_tries, \* turns of the loops
  device,     \* device_: rca, sdhc, block_size
  v2_card,
  request, buf, result, \* the Read: what of, what was copied, how it ended
  INTERRUPT,  \* bits of the controller's register
  RESP0,
  ctl,        \* what the controller is doing: command, rest of the transfer
  DATA,       \* the block in the controller's buffer
  kind, card, \* the card, and its state
  reads, faults, busy \* counted up to the bounds

loops == <<tries, ocr_tries>>
read == <<request, buf, result, reads>>
hw == <<INTERRUPT, RESP0, ctl, DATA, card, faults, busy>>
command == <<phase, d, saved, cmd_error>>
vars == <<step, command, loops, device, v2_card, read, hw, kind>>

None == "none"
Errors == {"cto", "crc", "dto"}
IsData(c) == c \in {"CTSendSCR", "READ_SINGLE_BLOCK", "READ_MULTIPLE_BLOCK"}
IsBusy(c) == c = "SELECT_CARD"
IsApp(c) == c \in {"CTOcrCheck", "CTSendSCR"}
Blocks(c) == IF c = "CTSendSCR" THEN 1 ELSE request.blocks

-----------------------------------------------------------------------------
(* The card and the host controller *)

NoCall == [cmd |-> None, arg |-> 0]
NoCommand == [cmd |-> None, arg |-> 0, answered |-> FALSE, left |-> 0, next |-> 0]

\* The state each command is for; the others are for any.
Needs ==
  [SEND_IF_COND |-> "idle", CTOcrCheck |-> "idle", ALL_SEND_CID |-> "ready",
   SEND_RELATIVE_ADDR |-> "ident", SELECT_CARD |-> "stby", SET_BLOCKLEN |-> "tran",
   CTSendSCR |-> "tran", READ_SINGLE_BLOCK |-> "tran", READ_MULTIPLE_BLOCK |-> "tran"]

\* The card answers what it knows, is meant for it and for its state.
Answers(c, a) ==
  /\ c \in DOMAIN Needs => card.state = Needs[c]
  /\ IsApp(c) => card.app
  /\ c = "SEND_IF_COND" => kind.v2
  /\ c = "IO_SET_OP_COND" => kind.sdio
  /\ c \in {"APP_CMD", "SELECT_CARD"} => a = card.rca

\* A card says whether it is ready only if it is asked to start up.  One of high
\* capacity stays busy for a host that does not say it can handle it; any card
\* does for a while.
MayBeReady(c, a) == c = "CTOcrCheck" /\ a # "inquiry" /\ (kind.hc => a = "hcs")
MayBeBusy(c, a) == MayBeReady(c, a) => busy < MaxBusy

\* The card after an answer; rd: it has become ready.
CardAfter(c, rd) ==
  [state |-> CASE c = "GO_IDLE_STATE" -> "idle"
               [] c = "CTOcrCheck" /\ rd -> "ready"
               [] c = "ALL_SEND_CID" -> "ident"
               [] c = "SEND_RELATIVE_ADDR" -> "stby"
               [] c = "SELECT_CARD" -> "tran"
               [] OTHER -> card.state,
   app |-> c = "APP_CMD",
   rca |-> CASE c = "GO_IDLE_STATE" -> 0
             [] c = "SEND_RELATIVE_ADDR" -> 1
             [] OTHER -> card.rca]

\* Arguments count blocks or bytes; with the wrong unit it is some other place.
Elsewhere == 99
Address(a) == IF a.unit = (IF kind.hc THEN "block" ELSE "byte") THEN a.at ELSE Elsewhere

\* The card carries a command out, and the controller reports what it answers.
Answer ==
  /\ ctl.cmd # None /\ ~ctl.answered
  /\ \E rd \in BOOLEAN :
       LET c == ctl.cmd
           a == ctl.arg
       IN  /\ Answers(c, a)
           /\ IF rd THEN MayBeReady(c, a) ELSE MayBeBusy(c, a)
           /\ busy' = IF MayBeReady(c, a) /\ ~rd THEN busy + 1 ELSE busy
           /\ card' = CardAfter(c, rd)
           /\ RESP0' = [cmd |-> c, rca |-> card'.rca, state |-> card.state,
                        powered |-> rd, ccs |-> rd /\ kind.hc]
           /\ INTERRUPT' = INTERRUPT \cup {"cmd"}
           /\ ctl' = IF IsData(c) \/ IsBusy(c)
                     THEN [ctl EXCEPT !.answered = TRUE,
                             !.left = IF IsData(c) THEN Blocks(c) ELSE 0,
                             !.next = IF IsData(c) /\ ~IsApp(c) THEN Address(a) ELSE 0]
                     ELSE NoCommand
  /\ UNCHANGED <<DATA, faults>>

\* The card does not answer: the controller reports a timeout.
NoAnswer ==
  /\ ctl.cmd # None /\ ~ctl.answered /\ ~Answers(ctl.cmd, ctl.arg)
  /\ INTERRUPT' = INTERRUPT \cup {"cto"}
  /\ ctl' = NoCommand
  /\ UNCHANGED <<RESP0, DATA, card, faults, busy>>

\* A command is lost, or it or its answer garbled; the card may have acted.  Nothing
\* answers GO_IDLE_STATE, so that its loss is not noticed.
AnswerFault ==
  /\ ctl.cmd # None /\ ~ctl.answered /\ faults < MaxFaults
  /\ faults' = faults + 1
  /\ \/ UNCHANGED card
     \/ /\ Answers(ctl.cmd, ctl.arg)
        /\ \E rd \in BOOLEAN : /\ rd => MayBeReady(ctl.cmd, ctl.arg)
                               /\ card' = CardAfter(ctl.cmd, rd)
  /\ \E e \in IF ctl.cmd = "GO_IDLE_STATE" THEN {{}, {"cmd"}} ELSE {{}, {"cto"}, {"crc"}} :
       INTERRUPT' = INTERRUPT \cup e
  /\ ctl' = NoCommand
  /\ UNCHANGED <<RESP0, DATA, busy>>

\* The controller's buffer holds a block.
DataBlock ==
  /\ ctl.left > 0 /\ DATA = <<>>
  /\ DATA' = <<ctl.next>>
  /\ ctl' = [ctl EXCEPT !.left = @ - 1, !.next = @ + 1]
  /\ INTERRUPT' = INTERRUPT \cup {"ready"}
  /\ UNCHANGED <<RESP0, card, faults, busy>>

\* A block does not come, or is garbled: the transfer is over.
DataFault ==
  /\ ctl.left > 0 /\ DATA = <<>> /\ faults < MaxFaults
  /\ faults' = faults + 1
  /\ \E e \in {"dto", "crc"} : INTERRUPT' = INTERRUPT \cup {e}
  /\ ctl' = NoCommand
  /\ UNCHANGED <<RESP0, DATA, card, busy>>

\* All blocks are fetched, or the card is no longer busy; a timeout of the data
\* lines may be reported as well.
TransferComplete ==
  /\ ctl.answered /\ ctl.left = 0 /\ DATA = <<>>
  /\ \/ INTERRUPT' = INTERRUPT \cup {"done"} /\ UNCHANGED faults
     \/ /\ faults < MaxFaults /\ faults' = faults + 1
        /\ INTERRUPT' = INTERRUPT \cup {"done", "dto"}
  /\ ctl' = NoCommand
  /\ UNCHANGED <<RESP0, DATA, card, busy>>

Controller ==
  /\ \/ Answer \/ NoAnswer \/ AnswerFault
     \/ DataBlock \/ DataFault \/ TransferComplete
  /\ UNCHANGED <<step, command, loops, device, v2_card, read, kind>>

-----------------------------------------------------------------------------
(* SendCommand, AppCommand *)

\* The call of SendCommand or AppCommand that step st makes.
Call(st, ph, c, a) ==
  /\ step' = st /\ phase' = ph
  /\ d' = [cmd |-> c, arg |-> a]
  /\ saved' = NoCall /\ cmd_error' = {}

Issue(c, a) ==
  ctl' = [cmd |-> c, arg |-> a, answered |-> FALSE, left |-> 0, next |-> 0]

\* AppCommand sends APP_CMD first; d is made up for that.
AppCommand ==
  /\ phase = "app"
  /\ saved' = d
  /\ d' = [cmd |-> "APP_CMD", arg |-> device.rca]
  /\ Issue("APP_CMD", device.rca)
  /\ phase' = "wait"
  /\ UNCHANGED <<step, cmd_error, loops, device, v2_card, read, INTERRUPT, RESP0,
                 DATA, kind, card, faults, busy>>

\* What a transfer has copied before is copied over.
SendCommand ==
  /\ phase = "send"
  /\ Issue(d.cmd, d.arg)
  /\ phase' = "wait"
  /\ buf' = <<>>
  /\ UNCHANGED <<step, d, saved, cmd_error, loops, device, v2_card, request, result,
                 reads, INTERRUPT, RESP0, DATA, kind, card, faults, busy>>

\* SendCommand returns; after APP_CMD, AppCommand goes on.
Sent ==
  IF saved.cmd = None
  THEN phase' = "sent" /\ UNCHANGED <<d, saved>>
  ELSE phase' = "send" /\ d' = saved /\ saved' = NoCall

\* ... or has failed: d keeps APP_CMD if that is what failed.
NotSent(e) == phase' = "failed" /\ saved' = NoCall /\ cmd_error' = e /\ UNCHANGED d

\* Faulty: the error bits are left standing.
WaitCommandDoneKeepsErrors ==
  /\ phase = "wait" /\ INTERRUPT # {}
  /\ INTERRUPT' = INTERRUPT \ {"cmd"}
  /\ IF INTERRUPT \cap (Errors \cup {"cmd"}) = {"cmd"}
     THEN /\ UNCHANGED cmd_error
          /\ IF IsData(d.cmd) \/ IsBusy(d.cmd)
             THEN phase' = (IF IsData(d.cmd) THEN "data" ELSE "finish")
                  /\ UNCHANGED <<d, saved>>
             ELSE Sent
     ELSE NotSent(INTERRUPT \cap Errors)
  /\ UNCHANGED <<step, loops, device, v2_card, read, RESP0, ctl, DATA, kind, card,
                 faults, busy>>

\* WaitCommandDone: any bit ends the wait, command complete with no error is
\* success.
WaitCommandDone ==
  /\ phase = "wait" /\ INTERRUPT # {}
  /\ INTERRUPT' = INTERRUPT \ (Errors \cup {"cmd"})
  /\ IF INTERRUPT \cap (Errors \cup {"cmd"}) = {"cmd"}
     THEN /\ UNCHANGED cmd_error
          /\ IF IsData(d.cmd) \/ IsBusy(d.cmd)
             THEN phase' = (IF IsData(d.cmd) THEN "data" ELSE "finish")
                  /\ UNCHANGED <<d, saved>>
             ELSE Sent
     ELSE NotSent(INTERRUPT \cap Errors)
  /\ UNCHANGED <<step, loops, device, v2_card, read, RESP0, ctl, DATA, kind, card,
                 faults, busy>>

\* Faulty: it polls without a bound.
WaitWithoutTimeout ==
  /\ phase = "wait" /\ INTERRUPT = {} /\ ctl.cmd = None
  /\ UNCHANGED vars

\* Nothing comes: the loop runs out, no error is noted.
WaitTimesOut ==
  /\ phase = "wait" /\ INTERRUPT = {} /\ ctl.cmd = None
  /\ phase' = "failed" /\ saved' = NoCall
  /\ UNCHANGED <<step, d, cmd_error, loops, device, v2_card, read, hw, kind>>

\* One turn of PerformDataTransfer: a block is waited for and copied.
PerformDataTransfer ==
  /\ phase = "data"
  /\ "ready" \in INTERRUPT /\ INTERRUPT \cap Errors = {}
  /\ INTERRUPT' = INTERRUPT \ {"ready"}
  /\ buf' = Append(buf, Head(DATA)) /\ DATA' = <<>>
  /\ phase' = IF Len(buf') = Blocks(d.cmd) THEN "finish" ELSE "data"
  /\ UNCHANGED <<step, d, saved, cmd_error, loops, device, v2_card, request, result,
                 reads, RESP0, ctl, kind, card, faults, busy>>

\* It gives up; SendCommand does not look at what it returns.
DataTransferFails ==
  /\ phase = "data" /\ "ready" \notin INTERRUPT /\ ctl.cmd = None
  /\ cmd_error' = INTERRUPT \cap Errors
  /\ phase' = "finish"
  /\ UNCHANGED <<step, d, saved, loops, device, v2_card, read, hw, kind>>

\* Faulty: what the transfer has come to is not checked.
TransferEndsUnchecked ==
  /\ phase = "finish" /\ ctl.cmd = None
  /\ INTERRUPT' = INTERRUPT \ (Errors \cup {"done"})
  /\ Sent /\ UNCHANGED cmd_error
  /\ UNCHANGED <<step, loops, device, v2_card, read, RESP0, ctl, DATA, kind, card,
                 faults, busy>>

\* The wait for the end of the transfer.  A timeout of the data lines together
\* with the end is let pass.
TransferEnds ==
  /\ phase = "finish" /\ ("done" \in INTERRUPT \/ ctl.cmd = None)
  /\ INTERRUPT' = INTERRUPT \ (Errors \cup {"done"})
  /\ IF INTERRUPT \cap (Errors \cup {"done"}) \in {{"done"}, {"done", "dto"}}
     THEN Sent /\ UNCHANGED cmd_error
     ELSE NotSent(INTERRUPT \cap Errors)
  /\ UNCHANGED <<step, loops, device, v2_card, read, RESP0, ctl, DATA, kind, card,
                 faults, busy>>

Sending ==
  \/ AppCommand \/ SendCommand \/ WaitCommandDone \/ WaitTimesOut
  \/ PerformDataTransfer \/ DataTransferFails \/ TransferEnds
-----------------------------------------------------------------------------
(* ResetCard: one action per command it has got back from *)

Returned == phase \in {"sent", "failed"}

\* ResetCard returns false: Open calls it again, or gives up.
TryAgain ==
  /\ IF tries + 1 < Retries
     THEN step' = "reset" /\ tries' = tries + 1
     ELSE step' = "failed" /\ UNCHANGED tries
  /\ UNCHANGED <<command, ocr_tries, v2_card>>

ResetFails == TryAgain /\ UNCHANGED device

\* The controller, the power, the slot or the clock is not what it has to be.
ResetHostFails ==
  /\ step = "reset" /\ faults < MaxFaults
  /\ faults' = faults + 1
  /\ ResetFails
  /\ UNCHANGED <<read, INTERRUPT, RESP0, ctl, DATA, kind, card, busy>>

ResetCard ==
  /\ step = "reset"
  /\ INTERRUPT' = {} /\ ctl' = NoCommand /\ DATA' = <<>>
  /\ device' = [device EXCEPT !.block_size = 0]
  /\ v2_card' = FALSE
  /\ ocr_tries' = 0
  /\ Call("GoIdle", "send", "GO_IDLE_STATE", 0)
  /\ UNCHANGED <<tries, read, RESP0, kind, card, faults, busy>>

GoIdle ==
  /\ step = "GoIdle" /\ Returned
  /\ IF phase = "sent"
     THEN /\ Call("CheckV2Card", "send", "SEND_IF_COND", 0)
          /\ UNCHANGED <<loops, device, v2_card>>
     ELSE ResetFails
  /\ UNCHANGED <<read, hw, kind>>

\* ResetCommandHandlingCircuit, and its bit is cleared.
ResetCommandLine ==
  IF "cto" \in cmd_error
  THEN ctl' = NoCommand /\ INTERRUPT' = INTERRUPT \ {"cto"}
  ELSE UNCHANGED <<ctl, INTERRUPT>>

\* Whatever SEND_IF_COND came to, ResetCard goes on.
CheckV2Card ==
  /\ step = "CheckV2Card" /\ Returned
  /\ v2_card' = (phase = "sent")
  /\ ResetCommandLine
  /\ Call("CheckUsableCard", "send", "IO_SET_OP_COND", 0)
  /\ UNCHANGED <<loops, device, read, RESP0, DATA, kind, card, faults, busy>>

\* Faulty: no answer is a failure.
CheckUsableCardStrict ==
  /\ step = "CheckUsableCard" /\ Returned
  /\ IF phase = "sent"
     THEN /\ Call("CheckOcr", "app", "CTOcrCheck", "inquiry")
          /\ UNCHANGED <<loops, device, v2_card>>
     ELSE ResetFails
  /\ UNCHANGED <<read, hw, kind>>

\* Only a card with SDIO answers IO_SET_OP_COND: a timeout is what is expected.
CheckUsableCard ==
  /\ step = "CheckUsableCard" /\ Returned
  /\ IF phase = "sent" \/ cmd_error = {} \/ "cto" \in cmd_error
     THEN /\ ResetCommandLine
          /\ Call("CheckOcr", "app", "CTOcrCheck", "inquiry")
          /\ UNCHANGED <<loops, device, v2_card>>
     ELSE ResetFails /\ UNCHANGED <<INTERRUPT, ctl>>
  /\ UNCHANGED <<read, RESP0, DATA, kind, card, faults, busy>>

AskForPower ==
  Call("CheckSdhcSupport", "app", "CTOcrCheck", IF v2_card THEN "hcs" ELSE "plain")

\* A failed AppCommand is tried again with what it has left in d.
CheckOcr ==
  /\ step = "CheckOcr" /\ Returned
  /\ \/ /\ phase = "sent"
        /\ AskForPower
        /\ UNCHANGED <<loops, device, v2_card>>
     \/ /\ phase = "failed" /\ ocr_tries + 1 < OcrTries
        /\ ocr_tries' = ocr_tries + 1 /\ phase' = "app"
        /\ UNCHANGED <<step, d, saved, cmd_error, tries, device, v2_card>>
     \/ /\ phase = "failed" /\ ocr_tries + 1 = OcrTries
        /\ ResetFails
  /\ UNCHANGED <<read, hw, kind>>

\* Faulty: the capacity the card reports is not noted.
CheckSdhcSupportForgets ==
  /\ step = "CheckSdhcSupport" /\ Returned
  /\ \/ /\ phase = "sent" /\ RESP0.powered
        /\ Call("CheckCid", "send", "ALL_SEND_CID", 0)
        /\ UNCHANGED <<loops, device, v2_card>>
     \/ /\ phase = "sent" /\ ~RESP0.powered
        /\ AskForPower
        /\ UNCHANGED <<loops, device, v2_card>>
     \/ /\ phase = "failed" /\ ResetFails
  /\ UNCHANGED <<read, hw, kind>>

\* The loop has no bound: a card that stays busy is asked for ever.
CheckSdhcSupport ==
  /\ step = "CheckSdhcSupport" /\ Returned
  /\ \/ /\ phase = "sent" /\ RESP0.powered
        /\ device' = [device EXCEPT !.sdhc = RESP0.ccs]
        /\ Call("CheckCid", "send", "ALL_SEND_CID", 0)
        /\ UNCHANGED <<loops, v2_card>>
     \/ /\ phase = "sent" /\ ~RESP0.powered
        /\ AskForPower
        /\ UNCHANGED <<loops, device, v2_card>>
     \/ /\ phase = "failed" /\ ResetFails
  /\ UNCHANGED <<read, hw, kind>>

\* CheckRca, after its first command ...
CheckCid ==
  /\ step = "CheckCid" /\ Returned
  /\ IF phase = "sent"
     THEN /\ Call("CheckRca", "send", "SEND_RELATIVE_ADDR", 0)
          /\ UNCHANGED <<loops, device, v2_card>>
     ELSE ResetFails
  /\ UNCHANGED <<read, hw, kind>>

\* ... and after its second: the address is noted also when the answer goes on to say
\* that the card is not ready.
CheckRca ==
  /\ step = "CheckRca" /\ Returned
  /\ \/ /\ phase = "sent"
        /\ device' = [device EXCEPT !.rca = RESP0.rca]
        /\ \/ /\ Call("SelectCard", "send", "SELECT_CARD", RESP0.rca)
              /\ UNCHANGED <<loops, v2_card>>
           \/ TryAgain
     \/ phase = "failed" /\ ResetFails
  /\ UNCHANGED <<read, hw, kind>>

SendScr == Call("SendScr", "app", "CTSendSCR", 0)

\* A card that counts in bytes is told the length of a block; the register of the
\* card that follows is a block of 8 bytes.
SelectCard ==
  /\ step = "SelectCard" /\ Returned
  /\ IF phase = "sent" /\ RESP0.state \in {"stby", "tran"}
     THEN /\ IF device.sdhc
             THEN SendScr /\ device' = [device EXCEPT !.block_size = 8]
             ELSE Call("SetScr", "send", "SET_BLOCKLEN", 512) /\ UNCHANGED device
          /\ UNCHANGED <<loops, v2_card>>
     ELSE ResetFails
  /\ UNCHANGED <<read, hw, kind>>

SetScr ==
  /\ step = "SetScr" /\ Returned
  /\ IF phase = "sent"
     THEN /\ SendScr
          /\ device' = [device EXCEPT !.block_size = 8]
          /\ UNCHANGED <<loops, v2_card>>
     ELSE ResetFails
  /\ UNCHANGED <<read, hw, kind>>

\* The last step of ResetCard: Open returns true.
CardIsReset ==
  /\ step = "SendScr" /\ Returned
  /\ IF phase = "sent"
     THEN /\ device' = [device EXCEPT !.block_size = 512]
          /\ INTERRUPT' = {}
          /\ step' = "open"
          /\ UNCHANGED <<command, loops, v2_card>>
     ELSE ResetFails /\ UNCHANGED INTERRUPT
  /\ UNCHANGED <<read, RESP0, ctl, DATA, kind, card, faults, busy>>

Open ==
  \/ ResetHostFails \/ ResetCard \/ GoIdle \/ CheckV2Card \/ CheckUsableCard
  \/ CheckOcr \/ CheckSdhcSupport \/ CheckCid \/ CheckRca
  \/ SelectCard \/ SetScr \/ CardIsReset

-----------------------------------------------------------------------------
(* Reads *)

\* Seek and Read: HandleDataCommand makes the command up.
Read(r) ==
  /\ step = "open" /\ reads < MaxReads
  /\ reads' = reads + 1
  /\ request' = r /\ result' = None
  /\ tries' = 0
  /\ Call("read", "send",
          IF r.blocks > 1 THEN "READ_MULTIPLE_BLOCK" ELSE "READ_SINGLE_BLOCK",
          [unit |-> IF device.sdhc THEN "block" ELSE "byte", at |-> r.block])
  /\ UNCHANGED <<ocr_tries, device, v2_card, buf, hw, kind>>

\* The command is sent again as it is, or Read returns.
HandleDataCommand ==
  /\ step = "read" /\ Returned
  /\ \/ /\ phase = "failed" /\ tries + 1 < Retries
        /\ tries' = tries + 1 /\ phase' = "send"
        /\ UNCHANGED <<step, result>>
     \/ /\ phase = "failed" /\ tries + 1 = Retries
        /\ step' = "open" /\ result' = "error"
        /\ UNCHANGED <<tries, phase>>
     \/ /\ phase = "sent"
        /\ step' = "open" /\ result' = "size"
        /\ UNCHANGED <<tries, phase>>
  /\ UNCHANGED <<d, saved, cmd_error, ocr_tries, device, v2_card, request, buf, reads,
                 hw, kind>>

-----------------------------------------------------------------------------
(* The specification *)

Init ==
  /\ step = "reset" /\ phase = "sent"
  /\ d = NoCall /\ saved = NoCall /\ cmd_error = {}
  /\ tries = 0 /\ ocr_tries = 0
  /\ device = [rca |-> 0, sdhc |-> FALSE, block_size |-> 0]
  /\ v2_card = FALSE
  /\ request = [block |-> 0, blocks |-> 1] /\ buf = <<>> /\ result = None
  /\ INTERRUPT = {} /\ ctl = NoCommand /\ DATA = <<>>
  /\ RESP0 = [cmd |-> None, rca |-> 0, state |-> "idle", powered |-> FALSE, ccs |-> FALSE]
  /\ kind \in Kinds
  /\ card = [state |-> "idle", app |-> FALSE, rca |-> 0]
  /\ reads = 0 /\ faults = 0 /\ busy = 0

Driver == Sending \/ Open \/ HandleDataCommand \/ \E r \in Requests : Read(r)

\* Open has failed, or nothing more is read.
Done ==
  /\ step = "failed" \/ (step = "open" /\ reads = MaxReads)
  /\ UNCHANGED vars

Next == Driver \/ Controller \/ Done

Spec == Init /\ [][Next]_vars

\* The driver polls with nothing else to run; every command comes to an end.
FairSpec == Spec /\ WF_vars(Driver) /\ WF_vars(Controller)

-----------------------------------------------------------------------------
(* Properties *)

\* WaitCommandDone takes any bit of INTERRUPT for the answer to its own command, so
\* whenever SendCommand issues one, whatever became of those before, no bit is left
\* over, the controller is through, and its buffer is empty.
NoStaleAnswers ==
  phase \in {"app", "send"} /\ step # "failed" =>
    INTERRUPT = {} /\ ctl.cmd = None /\ DATA = <<>>

\* When Open has returned true, and at every read after that, the driver and the card
\* agree: the card is selected, under the address the driver has noted, it counts in
\* the unit the driver uses, and blocks are of 512 bytes again.
OpenMeansReady ==
  step \in {"open", "read"} =>
    /\ card.state = "tran" /\ card.rca = device.rca
    /\ device.sdhc = kind.hc
    /\ device.block_size = 512

\* A Read that returns the size has copied the blocks asked for, all and in order,
\* though transfers broke off and were tried again, and though SendCommand does not
\* look at what PerformDataTransfer returns.
ReadsAreRight ==
  result = "size" => buf = [i \in 1 .. request.blocks |-> request.block + i - 1]

\* kRetryMax is enough: Open and Read give up only after as many faults.  Except that
\* Open goes on using device_.rca after the card has forgotten it with GO_IDLE_STATE:
\* once an address is noted, a retry does not help.
RetriesSuffice ==
  /\ step = "failed" => faults >= Retries \/ device.rca # 0
  /\ result = "error" => faults >= Retries

\* Every Open and every Read returns, but for an Open that missed that the card knows
\* SEND_IF_COND: it does not tell the card of its support of high capacity, and waits
\* in CheckSdhcSupport for ever for a card that has it.
CallsReturn ==
  \/ []<>(step \in {"open", "failed"})
  \/ <>[](kind.hc /\ ~v2_card /\ step = "CheckSdhcSupport")
-----------------------------------------------------------------------------
(* What every step preserves *)

\* The commands each step sends, AppCommand's own included.
Sends ==
  [GoIdle |-> {"GO_IDLE_STATE"}, CheckV2Card |-> {"SEND_IF_COND"},
   CheckUsableCard |-> {"IO_SET_OP_COND"}, CheckOcr |-> {"APP_CMD", "CTOcrCheck"},
   CheckSdhcSupport |-> {"APP_CMD", "CTOcrCheck"}, CheckCid |-> {"ALL_SEND_CID"},
   CheckRca |-> {"SEND_RELATIVE_ADDR"}, SelectCard |-> {"SELECT_CARD"},
   SetScr |-> {"SET_BLOCKLEN"}, SendScr |-> {"APP_CMD", "CTSendSCR"},
   read |-> {"READ_SINGLE_BLOCK", "READ_MULTIPLE_BLOCK"}]

\* What the rest speaks of has its type.
TypeOK ==
  /\ step \in DOMAIN Sends \cup {"reset", "open", "failed"}
  /\ phase \in {"app", "send", "wait", "data", "finish", "sent", "failed"}
  /\ kind \in Kinds /\ request \in Requests \cup {[block |-> 0, blocks |-> 1]}
  /\ result \in {None, "size", "error"}
  /\ device \in [rca : {0, 1}, sdhc : BOOLEAN, block_size : {0, 8, 512}]
  /\ card \in [state : {"idle", "ready", "ident", "stby", "tran"},
               app : BOOLEAN, rca : {0, 1}]
  /\ RESP0.rca \in {0, 1}
  /\ RESP0.powered \in BOOLEAN /\ RESP0.ccs \in BOOLEAN
  /\ RESP0.ccs <=> RESP0.powered /\ kind.hc
  /\ buf \in Seq(Int)

\* A call is under way only in the steps that make one.
CallsOfStep ==
  /\ step \in {"reset", "failed"} => phase \in {"sent", "failed"}
  /\ step = "open" => phase \in {"sent", "failed"}
  /\ step \in DOMAIN Sends => /\ d.cmd \in Sends[step]
                              /\ saved.cmd \in Sends[step] \cup {None}
  /\ phase = "app" => step \in {"CheckOcr", "CheckSdhcSupport", "SendScr"}
  /\ step = "read" =>
       /\ saved.cmd = None
       /\ d.arg = [unit |-> IF device.sdhc THEN "block" ELSE "byte", at |-> request.block]

\* How many blocks the call copies.
Expected == IF IsData(d.cmd) THEN Blocks(d.cmd) ELSE 0

\* The controller and the card have still to act on the call's command ...
Issued ==
  /\ ctl.cmd = d.cmd
  /\ ctl = [cmd |-> d.cmd, arg |-> d.arg, answered |-> FALSE, left |-> 0, next |-> 0]
  /\ INTERRUPT = {} /\ DATA = <<>>

\* ... or are in the middle of its transfer.
Transferring ==
  /\ ctl.cmd = d.cmd
  /\ ctl = [cmd |-> d.cmd, arg |-> d.arg, answered |-> TRUE, left |-> ctl.left,
            next |-> ctl.next]
  /\ IsData(d.cmd) \/ IsBusy(d.cmd)
  /\ ctl.left \in Nat /\ ctl.next \in Int
  /\ DATA \in {<<>>, <<ctl.next - 1>>}
  /\ INTERRUPT \ {"cmd"} = (IF DATA = <<>> THEN {} ELSE {"ready"})
  /\ Len(buf) + Len(DATA) + ctl.left = Expected
  /\ step = "read" => ctl.next = request.block + Len(buf) + Len(DATA)

\* The controller is through with it.
Through == ctl = NoCommand /\ DATA = <<>>

\* What may be on the wire, by the place where the call is.
Wire ==
  /\ phase \in {"app", "send", "sent"} => Through /\ INTERRUPT = {}
  /\ phase = "failed" =>
       /\ Through /\ INTERRUPT \subseteq {"done"}
       /\ INTERRUPT = {} \/ step \in {"reset", "failed", "SelectCard"}
  /\ phase = "wait" =>
       /\ IsData(d.cmd) \/ IsBusy(d.cmd) => buf = <<>>
       /\ \/ Issued
          \/ Transferring /\ "cmd" \in INTERRUPT
          \/ Through /\ INTERRUPT \in {{}, {"cto"}, {"crc"}}
          \/ Through /\ INTERRUPT = {"cmd"} /\ ~IsData(d.cmd) /\ ~IsBusy(d.cmd)
          \/ Through /\ INTERRUPT \in {{"cmd", "dto"}, {"cmd", "crc"}} /\ IsData(d.cmd)
          \/ Through /\ INTERRUPT \in {{"cmd", "done"}, {"cmd", "done", "dto"}} /\ IsBusy(d.cmd)
  /\ phase = "data" =>
       /\ IsData(d.cmd) /\ Len(buf) < Expected
       /\ \/ Transferring /\ "cmd" \notin INTERRUPT
          \/ Through /\ INTERRUPT \in {{"dto"}, {"crc"}}
  /\ phase = "finish" =>
       /\ IsData(d.cmd) \/ IsBusy(d.cmd)
       /\ \/ Transferring /\ INTERRUPT = {} /\ DATA = <<>> /\ ctl.left = 0
          \/ Through /\ INTERRUPT \in {{"dto"}, {"crc"}} /\ IsData(d.cmd)
          \/ Through /\ INTERRUPT \in {{"done"}, {"done", "dto"}} /\ Len(buf) = Expected

\* The card has answered the call's command.
Answered == phase \in {"data", "finish", "sent"} \/ (phase = "wait" /\ "cmd" \in INTERRUPT)

\* What the driver knows of the card.
Agreement ==
  /\ step \in {"CheckCid", "CheckRca", "SelectCard", "SetScr", "SendScr", "open", "read"} =>
       device.sdhc = kind.hc
  /\ step = "CheckRca" /\ Answered => RESP0.rca = card.rca
  /\ step = "SelectCard" => /\ device.rca = card.rca
                            /\ Answered => card.state = "tran"
  /\ step \in {"SetScr", "SendScr", "open", "read"} =>
       card.state = "tran" /\ card.rca = device.rca
  /\ step \in {"open", "read"} => device.block_size = 512

\* What has been copied.
Copied ==
  /\ result = "size" => step = "open"
  /\ step = "read" /\ phase \in {"wait", "data", "finish", "sent"} =>
       \A i \in 1 .. Len(buf) : buf[i] = request.block + i - 1
  /\ step = "read" /\ phase = "sent" => Len(buf) = request.blocks

\* Inductive: what becomes of a call, a transfer and the reset between any two steps.
MmcInv == TypeOK /\ CallsOfStep /\ Wire /\ Agreement /\ Copied /\ ReadsAreRight
=============================================================================
