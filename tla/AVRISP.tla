------------------------------- MODULE AVRISP -------------------------------
(***************************************************************************)
(* The AVRISP-MKII programmer and its hosts.  V2Protocol.c takes a command     *)
(* from the bulk endpoint, runs it to its end and answers, V2ProtocolParams.c   *)
(* keeps the parameters, two of them through a loss of power.  The hosts are    *)
(* avrisphw.pas for the serial chips and any program for AVRs.  A session is a  *)
(* list of commands; a host may die anywhere in it, the target may be pulled    *)
(* out, and the programmer plugged in again.                                 *)
(***************************************************************************)
EXTENDS XPROGProtocol

CONSTANTS
    Benches,            \* what is connected: the sessions a host may run and their settings
    Sizes,              \* lengths of reads and writes of a serial chip
    Block,              \* bytes of a host's block of memory
    MaxSessions,        \* bound: sessions of a run
    MaxFaults           \* bound: hosts that die, targets pulled, programmers replugged

ASSUME AVRISPAssumption ==
    /\ Sizes \subseteq Nat \ {0} /\ Block \in Nat \ {0}
    /\ MaxSessions \in Nat /\ MaxFaults \in Nat

VARIABLES
    fw,                 \* the programmer: endpoint, parameters, pins, statics, the target
    host                \* the host's session

vars == <<fw, host>>

-----------------------------------------------------------------------------
(* V2ProtocolParams.c.  Saved are the parameters in the EEPROM; 255 is a blank *)
(* cell.                                                                   *)
ParameterTable == [sck |-> 6, polarity |-> 1, discharge |-> 0, vtarget |-> 33, hwver |-> 0]
Saved == {"sck", "polarity"}
Writable == {"sck", "polarity", "discharge"}
V2Params_GetParameterPrivileges(id) ==
    {p \in {"read", "write"} : id \in DOMAIN ParameterTable /\ (p = "read" \/ id \in Writable)}
V2Params_LoadNonVolatileParamValues(eeprom) ==
    [id \in DOMAIN ParameterTable |->
        IF id \in Saved /\ eeprom[id] # 255 THEN eeprom[id] ELSE ParameterTable[id]]

(* What if a new value were not saved?                                       *)
V2Params_SetVolatile(m, id, value) == [m EXCEPT !.params[id] = value]
V2Params_SetParameterValue(m, id, value) ==
    LET table == [m EXCEPT !.params[id] = value]
    IN  IF id \in Saved THEN [table EXCEPT !.eeprom[id] = value] ELSE table

-----------------------------------------------------------------------------
(* V2Protocol.c                                                             *)
V2Protocol_SignOn(m, r) == Acknowledge(Endpoint_ClearOUT(m), r.cmd, OK)
V2Protocol_ResetProtection(m, r) == Acknowledge(Endpoint_ClearOUT(m), r.cmd, OK)

V2Protocol_GetSetParam(m, r) ==
    LET s == Endpoint_ClearOUT(m)
        privileges == V2Params_GetParameterPrivileges(r.id)
    IN  CASE r.cmd = "SET_PARAMETER" /\ "write" \in privileges ->
                Acknowledge(V2Params_SetParameterValue(s, r.id, r.value), r.cmd, OK)
          [] r.cmd = "GET_PARAMETER" /\ "read" \in privileges ->
                Answer(s, r.cmd, OK, <<m.params[r.id]>>)
          [] OTHER -> Acknowledge(s, r.cmd, "STATUS_CMD_FAILED")

V2Protocol_LoadAddress(m, r) ==
    Acknowledge([Endpoint_ClearOUT(m) EXCEPT !.address = r.address, !.mustLoad = @ \/ r.extended],
                r.cmd, OK)

(* Of a transfer it throws away the packets that are still full after the      *)
(* command was read from the first, and one more.                           *)
V2Protocol_UnknownCommand(m, r) ==
    LET full == {k \in DOMAIN m.queue : \A j \in 1 .. k : Len(m.queue[j]) = EPSIZE}
    IN  Acknowledge([m EXCEPT !.queue = SubSeq(@, Cardinality(full) + 2, Len(@))],
                    r.cmd, "STATUS_CMD_UNKNOWN")

(* One more than the program's switch has arms is every other byte.            *)
V2Protocol_ProcessCommand(m, r) ==
    CASE r.cmd = "SIGN_ON" -> V2Protocol_SignOn(m, r)
      [] r.cmd \in {"SET_PARAMETER", "GET_PARAMETER"} -> V2Protocol_GetSetParam(m, r)
      [] r.cmd = "LOAD_ADDRESS" -> V2Protocol_LoadAddress(m, r)
      [] r.cmd = "RESET_PROTECTION" -> V2Protocol_ResetProtection(m, r)
      [] r.cmd = "ENTER_SPI25" -> SPI_Enter25Mode(m)
      [] r.cmd = "LEAVE_SPI25" -> SPI_Leave25Mode(m)
      [] r.cmd = "SPI25_READ" -> SPI_25Read(m, r)
      [] r.cmd = "SPI25_WRITE" -> SPI_25Write(m, r)
      [] r.cmd = "I2C_INIT" -> Endpoint_ClearOUT(i2c_init(m))
      [] r.cmd = "I2C_START" -> Endpoint_ClearOUT(i2c_start(m))
      [] r.cmd = "I2C_STOP" -> Endpoint_ClearOUT(i2c_stop(m))
      [] r.cmd = "I2C_READBYTE" -> i2c_readbyte(m, r)
      [] r.cmd = "I2C_WRITEBYTE" -> i2c_writebyte(m, r)
      [] r.cmd = "I2C_READ" -> i2c_read(m, r)
      [] r.cmd = "I2C_WRITE" -> i2c_write(m, r)
      [] r.cmd = "MW_READ" -> mw_read(m, r)
      [] r.cmd = "MW_WRITE" -> mw_write(m, r)
      [] r.cmd = "MW_BUSY" -> mw_busy(m, m.luck)
      [] r.cmd = "MW_INIT" -> mw_init(m)
      [] r.cmd = "FIRMWARE_VER" -> give_firmware_ver(m)
      [] r.cmd = "ENTER_ISP" -> ISPProtocol_EnterISPMode(m, r)
      [] r.cmd = "LEAVE_ISP" -> ISPProtocol_LeaveISPMode(m, r)
      [] r.cmd \in {"PROGRAM_FLASH_ISP", "PROGRAM_EEPROM_ISP"} -> ISPProtocol_ProgramMemory(m, r)
      [] r.cmd \in {"READ_FLASH_ISP", "READ_EEPROM_ISP"} -> ISPProtocol_ReadMemory(m, r)
      [] r.cmd = "CHIP_ERASE_ISP" -> ISPProtocol_ChipErase(m, r)
      [] r.cmd = "READ_FUSE_ISP" -> ISPProtocol_ReadFuseLockSigOSCCAL(m, r)
      [] r.cmd = "PROGRAM_FUSE_ISP" -> ISPProtocol_WriteFuseLock(m, r)
      [] r.cmd = "SPI_MULTI" -> ISPProtocol_SPIMulti(m, r)
      [] r.cmd = "XPROG_SETMODE" -> XPROGProtocol_SetMode(m, r)
      [] r.cmd = "XPROG" -> XPROGProtocol_Command(m, r)
      [] OTHER -> V2Protocol_UnknownCommand(m, r)

(* main and V2Protocol_Init, with the target that is in the socket.            *)
Powered(eeprom, t, select) ==
    ISPTarget_ConfigureRescueClock(
    [queue |-> << >>, sent |-> NoAnswer, eeprom |-> eeprom,
     params |-> V2Params_LoadNonVolatileParamValues(eeprom),
     address |-> 0, mustLoad |-> FALSE, ticks |-> 0, luck |-> FALSE,
     hw |-> TRUE, spi |-> FALSE, bus |-> FALSE, usart |-> "off",
     cs |-> "low", driven |-> FALSE, select |-> select, sda |-> "free", wire |-> << >>,
     hung |-> FALSE, t |-> t, xmode |-> "pdi",
     xparam |-> [nvmbase |-> 0, eepage |-> 2, cmdreg |-> 0, csrreg |-> 0]])

-----------------------------------------------------------------------------
(* What a host sends: a step is a transfer, whether the host reads an answer,   *)
(* and what has to hold once the programmer is done with it: the frame on the   *)
(* bus, the data of the answer, the flash of the target.                      *)
Step(req, data, reads) ==
    [req |-> req, data |-> data, reads |-> reads, checks |-> {},
     frame |-> << >>, want |-> << >>, image |-> << >>]
Asks(req) == Step(req, << >>, TRUE)
Tells(req) == Step(req, << >>, FALSE)
Framed(step, frame) == [step EXCEPT !.checks = @ \cup {"frame"}, !.frame = frame]
Wanted(step, want) == [step EXCEPT !.checks = @ \cup {"want"}, !.want = want]
Imaged(step, image) == [step EXCEPT !.checks = @ \cup {"image"}, !.image = image]

Bytes(n) == [i \in 1 .. n |-> i]
Outs(n) == [i \in 1 .. n |-> <<"out", i>>]
Ins(k, n) == [i \in 1 .. n |-> <<"in", k + i>>]
Numbers(k, n) == [i \in 1 .. n |-> k + i]
SetSck(sck) == Asks([cmd |-> "SET_PARAMETER", id |-> "sck", value |-> sck])

(* avrisphw.pas: DevOpen, and the calls in the order a session makes them.      *)
DevOpen == Asks([cmd |-> "FIRMWARE_VER"])
SPIInit(sck) == <<SetSck(sck), Asks([cmd |-> "ENTER_SPI25"])>>
Deinit == Tells([cmd |-> "LEAVE_SPI25"])
SPIWrite(n, cs, before) ==
    Framed(Step([cmd |-> "SPI25_WRITE", n |-> n, cs |-> cs], Bytes(n), FALSE), before \o Outs(n))
SPIRead(n, cs, before) ==
    Wanted(Framed(Asks([cmd |-> "SPI25_READ", n |-> n, cs |-> cs]),
                  before \o Ins(Len(before), n)), Numbers(Len(before), n))
SpiSession(b, n, k) ==
    <<DevOpen>> \o SPIInit(b.sck)
    \o <<SPIWrite(n, FALSE, << >>), SPIRead(k, TRUE, Outs(n)),
         SPIWrite(1, FALSE, << >>), SPIWrite(k, TRUE, Outs(1)), Deinit>>

Write2c(n) == <<Start, <<"address", "w">>>> \o Outs(n)
I2CWrite(n) == Framed(Step([cmd |-> "I2C_WRITE", n |-> n, stop |-> TRUE], Bytes(n), FALSE),
                      Append(Write2c(n), Stop))
I2CReadWrite(n, k) ==
    LET ins == [i \in 1 .. k |-> <<"in", IF i = k THEN "nack" ELSE "ack">>]
    IN  <<Step([cmd |-> "I2C_WRITE", n |-> n, stop |-> FALSE], Bytes(n), FALSE),
          Framed(Asks([cmd |-> "I2C_READ", n |-> k]),
                 Write2c(n) \o <<Start, <<"address", "r">>>> \o ins \o <<Stop>>)>>
I2cBytes ==
    <<Tells([cmd |-> "I2C_START"]), Asks([cmd |-> "I2C_WRITEBYTE", n |-> 1]),
      Asks([cmd |-> "I2C_READBYTE", ack |-> "ack"]), Asks([cmd |-> "I2C_READBYTE", ack |-> "nack"]),
      Framed(Tells([cmd |-> "I2C_STOP"]),
             <<Start, <<"out", 1>>, <<"in", "ack">>, <<"in", "nack">>, Stop>>)>>
I2cSession(b, n, k) ==
    <<DevOpen, Tells([cmd |-> "I2C_INIT"])>>
    \o (IF b.reads THEN I2CReadWrite(n, k) ELSE <<I2CWrite(n)>>) \o I2cBytes \o <<Deinit>>

MWInit(sck) == <<SetSck(sck), Tells([cmd |-> "MW_INIT"])>>
Bits(bits) == [i \in 1 .. (bits + 7) \div 8 |-> <<"bits", i, Min({8, bits - 8 * (i - 1)})>>]
MwSession(b, n, k) ==
    LET bits == 8 * n + 3
    IN  <<DevOpen>> \o MWInit(b.sck)
        \o <<Framed(Step([cmd |-> "MW_WRITE", n |-> n + 1, bits |-> bits, cs |-> FALSE],
                         Bytes(n + 1), FALSE), Bits(bits)),
             Wanted(Framed(Asks([cmd |-> "MW_READ", n |-> k, cs |-> TRUE]),
                           Bits(bits) \o Ins(n + 1, k)), Numbers(n + 1, k)),
             Framed(Asks([cmd |-> "MW_BUSY"]), << >>),
             Asks([cmd |-> "MW_READ", n |-> 0, cs |-> TRUE]), Deinit>>

-----------------------------------------------------------------------------
(* A host that programs AVRs (external).  Its image has cells that stay 0xFF,   *)
(* and a block that does so as a whole.                                      *)
Image(c) == IF c % Block = 0 \/ c \div Block = 1 THEN Erased ELSE c
Cells(from, n) == [i \in 1 .. n |-> Image(from + i - 1)]
BlockCount(b) == b.t.size \div Block
Loads(b, a) ==
    Asks([cmd |-> "LOAD_ADDRESS", address |-> a, extended |-> b.t.size > 2 * Segment])
WholeImage(step, b) == Imaged(step, Cells(0, b.t.size))

ProgramFlash(b) ==
    <<Loads(b, 0)>>
    \o [k \in 1 .. BlockCount(b) |->
           LET step == Step([cmd |-> "PROGRAM_FLASH_ISP", n |-> Block, wait |-> b.wait,
                             paged |-> b.t.page > 0, commit |-> b.t.page > 0],
                            Cells((k - 1) * Block, Block), TRUE)
           IN  IF k = BlockCount(b) THEN WholeImage(step, b) ELSE step]
ReadFlash(b) ==
    <<Loads(b, 0)>>
    \o [k \in 1 .. BlockCount(b) |-> Wanted(Asks([cmd |-> "READ_FLASH_ISP", n |-> Block]),
                                   Cells((k - 1) * Block, Block))]
Eeprom(b) ==
    LET n == EepromLength(b.t)
        Load == Asks([cmd |-> "LOAD_ADDRESS", address |-> 0, extended |-> FALSE])
    IN  <<Load, Step([cmd |-> "PROGRAM_EEPROM_ISP", n |-> n, wait |-> b.wait, paged |-> FALSE,
                      commit |-> FALSE], Bytes(n), TRUE),
          Load, Wanted(Asks([cmd |-> "READ_EEPROM_ISP", n |-> n]), Bytes(n))>>
Fuses ==
    <<Asks([cmd |-> "PROGRAM_FUSE_ISP", byte |-> 7]), Wanted(Asks([cmd |-> "READ_FUSE_ISP"]), <<7>>),
      Wanted(Step([cmd |-> "SPI_MULTI", tx |-> 4, n |-> 1, start |-> 3], <<ReadFuse, 0, 0, 0>>, TRUE),
             <<7>>)>>
IspSession(b) ==
    <<Asks([cmd |-> "SIGN_ON"]), Asks([cmd |-> "RESET_PROTECTION"]), SetSck(b.sck),
      Wanted(Asks([cmd |-> "GET_PARAMETER", id |-> "sck"]), <<b.sck>>),
      Asks([cmd |-> "SET_PARAMETER", id |-> "polarity",
            value |-> IF b.t.active = "high" THEN 0 ELSE 1]),
      Asks([cmd |-> "ENTER_ISP", loops |-> 2, poll |-> TRUE]),
      Asks([cmd |-> "CHIP_ERASE_ISP", poll |-> b.wait = "busy"])>>
    \o ProgramFlash(b) \o ReadFlash(b) \o Eeprom(b) \o Fuses
    \o <<Asks([cmd |-> "LEAVE_ISP"])>>

Xprog(x) == [cmd |-> "XPROG", x |-> x]
XEnter(b) ==
    <<Asks([cmd |-> "XPROG_SETMODE", mode |-> b.t.kind]), Asks(Xprog("ENTER_PROGMODE"))>>
    \o [k \in 1 .. 4 |->
           LET id == <<"nvmbase", "eepage", "cmdreg", "csrreg">>[k]
           IN  Asks(Xprog("SET_PARAM") @@ [param |-> id, value |-> b.t.xparam[id]])]
    \o <<Asks(Xprog("ERASE") @@ [memory |-> "chip", at |-> 0])>>
XWrite(memory, pages, at, data) ==
    Step(Xprog("WRITE_MEM") @@ [memory |-> memory, pages |-> pages, at |-> at, n |-> Len(data)],
         data, TRUE)
XRead(memory, at, want) ==
    Wanted(Asks(Xprog("READ_MEM") @@ [memory |-> memory, at |-> at, n |-> Len(want)]), want)
XFlash(b) ==
    LET Write(k) == XWrite("appl", {"erase", "write"}, (k - 1) * Block, Cells((k - 1) * Block, Block))
    IN  [k \in 1 .. BlockCount(b) |-> IF k = BlockCount(b) THEN WholeImage(Write(k), b) ELSE Write(k)]
        \o <<XRead("appl", 0, Cells(0, b.t.size))>>
XEeprom(b) ==
    LET page == b.t.xparam["eepage"]
    IN  <<XWrite("eeprom", {"erase", "write"}, 0, Bytes(page)), XRead("eeprom", 0, Bytes(page)),
          Asks(Xprog("ERASE") @@ [memory |-> "eeprom", at |-> 0]),
          XRead("eeprom", 0, [i \in 1 .. page |-> Erased])>>
XprogSession(b) ==
    XEnter(b) \o XFlash(b)
    \o (IF b.t.kind = "tpi" THEN << >>
        ELSE <<Wanted(Asks(Xprog("CRC") @@ [memory |-> "flash"]), Cells(0, b.t.size))>> \o XEeprom(b)
             \o <<XWrite("fuse", {}, 0, <<7>>)>>)
    \o <<Asks(Xprog("LEAVE_PROGMODE"))>>
JtagSession ==
    <<Asks([cmd |-> "XPROG_SETMODE", mode |-> "jtag"]), Asks([cmd |-> "SET_DEVICE"])>>

Sessions(b) ==
    CASE b.kind = "spi"  -> {SpiSession(b, n, k) : n, k \in Sizes}
      [] b.kind = "i2c"  -> {I2cSession(b, n, k) : n, k \in Sizes}
      [] b.kind = "mw"   -> {MwSession(b, n, k) : n, k \in Sizes}
      [] b.kind = "isp"  -> {IspSession(b)}
      [] b.kind = "xprog" -> {XprogSession(b), JtagSession}

-----------------------------------------------------------------------------
Idle == Tells([cmd |-> "none"])
NewHost(b) ==
    [bench |-> b, todo |-> << >>, step |-> Idle, waiting |-> FALSE, sound |-> TRUE,
     sck |-> ParameterTable["sck"], sessions |-> 0, faults |-> 0]

Init ==
    \E b \in Benches :
        /\ fw = Powered([sck |-> 255, polarity |-> 255], b.t, b.select)
        /\ host = NewHost(b)

(* AVRISP_Task.  The answer to a command that nobody reads is gone when the     *)
(* next one is taken: the firmware waits a tenth of a second for it.          *)
AVRISP_Task ==
    \E luck \in BOOLEAN :
        /\ fw.queue # << >> /\ ~fw.hung
        /\ ~(host.waiting /\ fw.sent # NoAnswer)
        /\ LET got == Endpoint_Read(fw)
               m == [got.m EXCEPT !.ticks = COMMAND_TIMEOUT_TICKS, !.sent = NoAnswer, !.luck = luck]
           IN  fw' = [V2Protocol_ProcessCommand(m, got.item) EXCEPT !.luck = FALSE]
        /\ UNCHANGED host

Resting == ~host.waiting /\ fw.queue = << >> /\ ~fw.hung
Begin ==
    \E s \in Sessions(host.bench) :
        /\ Resting /\ host.todo = << >> /\ host.sessions < MaxSessions
        /\ host' = [host EXCEPT !.todo = s, !.step = Idle, !.sessions = @ + 1]
        /\ fw' = [fw EXCEPT !.t = host.bench.t, !.wire = << >>]

(* A whole transfer, or as much of it as a host that dies has sent.            *)
Packets(step) ==
    LET items == <<step.req>> \o step.data
    IN  Cut(items) \o (IF host.bench.kind \in {"isp", "xprog"} THEN Zlp(items) ELSE << >>)
Send ==
    /\ Resting /\ host.todo # << >>
    /\ LET step == Head(host.todo)
           r == step.req
       IN  /\ fw' = [fw EXCEPT !.queue = Packets(step), !.sent = NoAnswer]
           /\ host' = [host EXCEPT
                  !.todo = Tail(@), !.step = step, !.waiting = step.reads,
                  !.sck = IF r.cmd = "SET_PARAMETER" /\ r.id = "sck" THEN r.value ELSE @]

Faulty == host.faults < MaxFaults
Dead == [host EXCEPT !.todo = << >>, !.step = Idle, !.waiting = FALSE, !.sound = FALSE,
                     !.faults = @ + 1]
DieSending ==
    /\ Resting /\ host.todo # << >> /\ Faulty
    /\ \E n \in 1 .. Len(Packets(Head(host.todo))) - 1 :
           fw' = [fw EXCEPT !.queue = SubSeq(Packets(Head(host.todo)), 1, n)]
    /\ host' = Dead
Die ==
    /\ (host.todo # << >> \/ host.waiting) /\ Faulty
    /\ host' = Dead /\ UNCHANGED fw

(* The answer.  After one that is not OK the host goes to its last step.        *)
Expected(step) ==
    CASE step.req.cmd = "XPROG" -> step.req.x
      [] step.req.cmd \in {"SPI25_READ", "I2C_READ", "I2C_READBYTE", "I2C_WRITEBYTE",
                           "MW_READ", "MW_BUSY"} -> "raw"
      [] OTHER -> step.req.cmd
Good == fw.sent.status \in {OK, "XPROG_ERR_OK"}
Take ==
    /\ host.waiting /\ fw.sent # NoAnswer
    /\ host' = [host EXCEPT !.waiting = FALSE,
                            !.todo = IF Good \/ @ = << >> THEN @ ELSE <<Last(@)>>]
    /\ fw' = [fw EXCEPT !.sent = NoAnswer]
GiveUp ==
    /\ host.waiting /\ fw.hung
    /\ host' = [host EXCEPT !.waiting = FALSE, !.todo = << >>, !.step = Idle]
    /\ UNCHANGED fw

Pull ==
    /\ host.bench.kind \in {"isp", "xprog"} /\ fw.t.present /\ Faulty
    /\ fw' = [fw EXCEPT !.t.present = FALSE]
    /\ host' = [host EXCEPT !.faults = @ + 1]

(* The programmer loses its power, and with it all but the EEPROM.             *)
Replug ==
    /\ host.todo = << >> /\ ~host.waiting /\ (fw.hung \/ Faulty)
    /\ fw.queue = << >> \/ fw.hung
    /\ fw' = Powered(fw.eeprom, fw.t, fw.select)
    /\ host' = [host EXCEPT !.step = Idle, !.sound = TRUE,
                            !.faults = IF fw.hung THEN @ ELSE @ + 1]

Next == AVRISP_Task \/ Begin \/ Send \/ DieSending \/ Die \/ Take \/ GiveUp \/ Pull \/ Replug
Spec == Init /\ [][Next]_vars

-----------------------------------------------------------------------------
(* The programmer is through with the step.                                  *)
Through == fw.queue = << >> /\ ~fw.hung
Answered == Through /\ host.waiting /\ fw.sent.cmd = Expected(host.step) /\ Good

(* spi25.c, I2c.c, microwire.c: a call of a host none of whose sessions died is  *)
(* on the bus exactly the frame that it stands for, over all the packets and     *)
(* the two or three commands it is made of.                                   *)
BusSawTheCall ==
    (Through /\ host.sound /\ "frame" \in host.step.checks) => fw.wire = host.step.frame

(* I2c.c, README.md: a chip that is to be read is addressed after a start.         *)
ReadsAfterAnAddress ==
    (host.sound /\ host.bench.kind = "i2c") =>
        \A i \in DOMAIN fw.wire :
            fw.wire[i] = <<"address", "r">> => i > 1 /\ fw.wire[i - 1] = Start

(* V2Protocol.c: a command that has an answer leaves its own answer, ended by a  *)
(* short packet, also after transfers that broke off and answers nobody read.  *)
AnswersInStep ==
    (Through /\ host.waiting) => fw.sent.cmd = Expected(host.step)

(* ISPProtocol.c, XMEGANVM.c, TINYNVM.c: an answer that says OK carries what the *)
(* target holds, and after the last block the flash is the image, across the     *)
(* segments of the extended address and whatever the wait for completion.  Over  *)
(* SPI nothing tells a target that was pulled out from one that is blank; over    *)
(* PDI and TPI no answer says OK once it is gone.                             *)
AnswersAreTrue ==
    (Answered /\ (fw.t.present \/ host.bench.kind = "xprog")) =>
        /\ "want" \in host.step.checks => fw.sent.data = host.step.want
        /\ "image" \in host.step.checks =>
                [i \in 1 .. fw.t.size |-> fw.t.flash[i - 1]] = host.step.image

(* ISPTarget.c:209, XPROGProtocol.c:121: a session that ended leaves the target   *)
(* alone and the rescue clock running, and only a target that was pulled out of   *)
(* an XPROG session can keep the programmer for ever.                         *)
LeavesClean ==
    /\ (Through /\ host.sound /\ host.todo = << >> /\ ~host.waiting
            /\ Expected(host.step) \in {"LEAVE_SPI25", "LEAVE_ISP", "LEAVE_PROGMODE"}) =>
        ~fw.driven /\ ~fw.spi /\ fw.usart = "rescue"
    /\ fw.hung => ~fw.t.present

(* V2ProtocolParams.c:169: the speed that a host asked for last stays set, over   *)
(* sessions and a loss of power.                                             *)
SpeedIsKept ==
    (Through /\ ~host.waiting) => fw.params["sck"] = host.sck
=============================================================================
