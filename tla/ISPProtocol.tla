----------------------------- MODULE ISPProtocol -----------------------------
(***************************************************************************)
(* In-circuit programming with the AVRISP-MKII: ISPTarget.c, which clocks      *)
(* bytes through the hardware SPI or, for the slow clocks, through a timer,     *)
(* and the commands of ISPProtocol.c.  A byte of flash has the word address    *)
(* CurrentAddress and a half; a byte of image is a number, Erased for 0xFF.    *)
(*                                                                         *)
(* TimeoutTicksRemaining is counted in bytes of the slow clock; at the other   *)
(* clocks only polling that never ends uses it up.                          *)
(***************************************************************************)
EXTENDS AVRISPBus

CONSTANTS
    FastSck,                \* the longest SCK duration that no command notices
    COMMAND_TIMEOUT_TICKS,
    Segment,                \* words that an extended address byte selects (65536)
    ProgDataSize            \* bytes of Write_Memory_Params.ProgData (256)
ASSUME ISPAssumption ==
    /\ FastSck \in Nat /\ COMMAND_TIMEOUT_TICKS \in Nat \ {0}
    /\ Segment \in Nat \ {0} /\ ProgDataSize \in Nat

Erased == 0                 \* 0xFF, which is also what MISO gives when nobody drives it
ReadFuse == 80
Odd(n) == n % 2 = 1

-----------------------------------------------------------------------------
(* The AVR in the socket (external).  active is the level that resets it, min  *)
(* the SCK duration it needs; page is in bytes, 0 for one that has no pages.   *)
EmptyPage(t) == [i \in 0 .. t.page |-> Erased]
Programmed(old, new) == CASE new = Erased -> old [] old = Erased -> new [] OTHER -> Junk
Cell(t, a, half) == (2 * (t.ext * Segment + (a % Segment)) + half) % t.size
EepromCell(t, a) == a % Cardinality(DOMAIN t.eeprom)
Loaded(t, op) ==
    IF t.page = 0 THEN [t EXCEPT !.flash[Cell(t, op.a, op.half)] = Programmed(@, op.byte)]
    ELSE [t EXCEPT !.buf[(2 * op.a + op.half) % t.page] = op.byte]
Committed(t, op) ==
    LET first == (Cell(t, op.a, 0) \div t.page) * t.page
    IN  [t EXCEPT !.buf = EmptyPage(t),
                  !.flash = [c \in DOMAIN @ |-> IF c \in first .. first + t.page - 1
                                THEN Programmed(@[c], t.buf[c - first]) ELSE @[c]]]
Obeyed(t, op) ==
    CASE op.do = "load"   -> Loaded(t, op)
      [] op.do = "commit" -> Committed(t, op)
      [] op.do = "eeprom" -> [t EXCEPT !.eeprom[EepromCell(t, op.a)] = op.byte]
      [] op.do = "extend" -> [t EXCEPT !.ext = op.byte]
      [] op.do = "fuse"   -> [t EXCEPT !.fuse = op.byte]
      [] op.do = "erase"  -> [t EXCEPT !.flash = [c \in DOMAIN @ |-> Erased]]
      [] op.do = "none"   -> t
Stored(t, op) ==
    CASE op.do = "flash"  -> t.flash[Cell(t, op.a, op.half)]
      [] op.do = "eeprom" -> t.eeprom[EepromCell(t, op.a)]
      [] op.do = "fuse"   -> t.fuse

Hears(m) == /\ m.t.present /\ m.params["sck"] >= m.t.min
            /\ m.driven /\ m.cs = m.t.active
Listens(m) == Hears(m) /\ m.t.prog

-----------------------------------------------------------------------------
(* ISPTarget.c.  The timer's routine decides by the level of SCK which half of a  *)
(* bit it is at: it gets nowhere while an SPI left enabled holds the line, and   *)
(* the wait for the byte ends by the time limit.                            *)
SoftClockRuns(m) == m.bus /\ ~m.spi
ISPTarget_TransferSoftSPIByte(m, n) ==
    CASE ~SoftClockRuns(m)                              -> [m EXCEPT !.ticks = 0]
      [] SoftClockRuns(m) /\ m.params["sck"] <= FastSck -> m
      [] SoftClockRuns(m) /\ m.params["sck"] > FastSck  -> [m EXCEPT !.ticks = Max({0, @ - n})]
ISPTarget_TransferBytes(m, n) ==
    IF m.hw THEN [m EXCEPT !.hung = @ \/ ~m.spi] ELSE ISPTarget_TransferSoftSPIByte(m, n)
Whole(m) == ~m.hung /\ (m.hw \/ m.ticks > 0)

(* An instruction of four bytes; one that breaks off leaves the AVR out of     *)
(* step until its next reset.                                              *)
Instruction(m, op) ==
    LET s == ISPTarget_TransferBytes(m, 4)
    IN  CASE Whole(s) /\ Listens(s)  -> [s EXCEPT !.t = Obeyed(@, op)]
          [] Whole(s) /\ ~Listens(s) -> s
          [] ~Whole(s)               -> [s EXCEPT !.t.prog = FALSE]
Received(m, op) ==
    LET s == ISPTarget_TransferBytes(m, 4)
    IN  CASE ~Whole(s)               -> Junk
          [] Whole(s) /\ Listens(s)  -> Stored(s.t, op)
          [] Whole(s) /\ ~Listens(s) -> Erased
Nothing == [do |-> "none"]

ISPTarget_ChangeTargetResetLine(m, reset) ==
    LET level == IF m.params["polarity"] = 0 THEN "high" ELSE "low"
        moved == IF reset THEN SPI_Set_CS(m, level) ELSE Float(m)
    IN  IF reset /\ m.driven /\ m.cs = level THEN moved
        ELSE [moved EXCEPT !.t.prog = FALSE, !.t.ext = 0, !.t.buf = EmptyPage(m.t)]

(* A poll that no AVR answers reads ones until the limit.                      *)
Polled(m, ready, late) ==
    LET s == Instruction(m, Nothing)
        end == IF ready THEN s ELSE [s EXCEPT !.ticks = 0]
    IN  [m |-> end, status |-> IF end.ticks > 0 THEN OK ELSE late]
ISPTarget_WaitWhileTargetBusy(m) == Polled(m, Listens(m), "STATUS_RDY_BSY_TOUT")

ISPTarget_LoadExtendedAddress(m) ==
    Instruction(m, [do |-> "extend", byte |-> m.address \div Segment])

(* The delay has no verdict of its own; it is long enough for the AVR.         *)
ISPTarget_WaitForProgComplete(m, wait, op) ==
    LET done == CASE wait = "delay" -> [m |-> m, status |-> OK]
                  [] wait = "value" -> Polled(m, Received(m, op) # Erased, "STATUS_CMD_TOUT")
                  [] wait = "busy"  -> ISPTarget_WaitWhileTargetBusy(m)
    IN  [done EXCEPT !.m.ticks = COMMAND_TIMEOUT_TICKS]

-----------------------------------------------------------------------------
(* ISPProtocol.c                                                            *)
Attempt(s, poll) ==
    LET u == ISPTarget_TransferBytes(s.m, 4)
        heard == Whole(u) /\ Hears(u)
        entered == [u EXCEPT !.t.prog = (@ /\ Whole(u)) \/ heard]
        Pulse(x) == ISPTarget_ChangeTargetResetLine(
                        ISPTarget_ChangeTargetResetLine(x, FALSE), TRUE)
    IN  CASE s.ok \/ s.m.ticks = 0                       -> s
          [] ~s.ok /\ s.m.ticks > 0 /\ (~poll \/ heard)  -> [m |-> entered, ok |-> TRUE]
          [] ~s.ok /\ s.m.ticks > 0 /\ poll /\ ~heard    -> [m |-> Pulse(entered), ok |-> FALSE]

ISPProtocol_EnterISPMode(m, r) ==
    LET held == ISPTarget_ChangeTargetResetLine(
                    ISPTarget_EnableTargetISP([Endpoint_ClearOUT(m) EXCEPT !.address = 0]), TRUE)
        end == FoldLeft(LAMBDA s, i : Attempt(s, r.poll), [m |-> held, ok |-> FALSE], Times(r.loops))
    IN  Acknowledge(end.m, r.cmd, IF end.ok THEN OK ELSE "STATUS_CMD_FAILED")

ISPProtocol_LeaveISPMode(m, r) ==
    Acknowledge(ISPTarget_DisableTargetISP(
                    ISPTarget_ChangeTargetResetLine(Endpoint_ClearOUT(m), FALSE)), r.cmd, OK)

Extended(m) ==
    IF m.mustLoad THEN [ISPTarget_LoadExtendedAddress(m) EXCEPT !.mustLoad = FALSE] ELSE m
IsFlash(r) == r.cmd \in {"PROGRAM_FLASH_ISP", "READ_FLASH_ISP"}
Half(r, i) == IF IsFlash(r) THEN (i - 1) % 2 ELSE 0

(* What if crossing a segment did not ask for the extended address again?      *)
AdvanceFlat(m, r, i) ==
    IF ~IsFlash(r) \/ ~Odd(i) THEN [m EXCEPT !.address = @ + 1] ELSE m
Advance(m, r, i) ==
    LET next == m.address + 1
    IN  IF IsFlash(r) /\ Odd(i) THEN m
        ELSE [m EXCEPT !.address = next,
                       !.mustLoad = @ \/ (IsFlash(r) /\ next % Segment = 0)]

PollOp(r, s) == [do |-> IF IsFlash(r) THEN "flash" ELSE "eeprom", a |-> s.poll, half |-> s.half]

(* The i-th byte.  poll is PollAddress: 0 is no address, though the byte may   *)
(* lie at 0.                                                               *)
ProgramByte(s, r, i, byte) ==
    LET e == Extended(s.m)
        sent == Instruction(e, [do |-> IF IsFlash(r) THEN "load" ELSE "eeprom",
                                a |-> e.address, half |-> Half(r, i), byte |-> byte])
        found == s.poll = 0 /\ byte # Erased
        p == IF found THEN [s EXCEPT !.poll = e.address % Segment, !.half = Half(r, i)] ELSE s
        wait == IF p.poll = 0 /\ r.wait # "busy" THEN "delay" ELSE r.wait
        word == ISPTarget_WaitForProgComplete(sent, wait, PollOp(r, p))
    IN  CASE s.status # OK           -> s
          [] s.status = OK /\ r.paged -> [p EXCEPT !.m = Advance(sent, r, i)]
          [] s.status = OK /\ ~r.paged /\ word.status = OK ->
                [p EXCEPT !.m = Advance(word.m, r, i), !.poll = 0]
          [] s.status = OK /\ ~r.paged /\ word.status # OK ->
                [p EXCEPT !.m = word.m, !.status = word.status]

CommitPage(s, r, start) ==
    LET sent == Instruction(s.m, [do |-> "commit", a |-> start])
        wait == IF r.wait = "value" /\ s.poll = 0 THEN "delay" ELSE r.wait
        end == ISPTarget_WaitForProgComplete(sent, wait, PollOp(r, s))
    IN  IF ~r.commit THEN s
        ELSE [s EXCEPT !.status = end.status,
                       !.m = [end.m EXCEPT !.mustLoad =
                                @ \/ (IsFlash(r) /\ end.m.address % Segment = 0)]]

(* The packet without data that ends a transfer of full packets.               *)
DiscardZlp(m, n) ==
    Endpoint_ClearOUT(IF (1 + n) % EPSIZE = 0 THEN Endpoint_ClearOUT(m) ELSE m)

ISPProtocol_ProgramMemory(m, r) ==
    LET t == Endpoint_Read_Stream(m, r.n)
        begin == [m |-> DiscardZlp(t.m, r.n), poll |-> 0, half |-> 0, status |-> OK]
        loaded == FoldLeft(LAMBDA s, i : ProgramByte(s, r, i, t.data[i]), begin, Times(r.n))
        end == CommitPage(loaded, r, m.address % Segment)
    IN  IF r.n > ProgDataSize THEN Acknowledge(Endpoint_ClearOUT(m), r.cmd, "STATUS_CMD_FAILED")
        ELSE Acknowledge(end.m, r.cmd, end.status)

ReadByte(s, r, i) ==
    LET e == Extended(s.m)
        op == [do |-> IF IsFlash(r) THEN "flash" ELSE "eeprom", a |-> e.address, half |-> Half(r, i)]
    IN  [m |-> Advance(Instruction(e, Nothing), r, i), data |-> Append(s.data, Received(e, op))]

(* The last packet is a short one.                                         *)
Terminated(m, r, data) == [Answer(m, r.cmd, OK, data) EXCEPT !.sent.short = TRUE]

ISPProtocol_ReadMemory(m, r) ==
    LET end == FoldLeft(LAMBDA s, i : ReadByte(s, r, i),
                        [m |-> Endpoint_ClearOUT(m), data |-> << >>], Times(r.n))
    IN  Terminated(end.m, r, end.data)

ISPProtocol_ChipErase(m, r) ==
    LET sent == Instruction(Endpoint_ClearOUT(m), [do |-> "erase"])
        end == IF r.poll THEN ISPTarget_WaitWhileTargetBusy(sent)
               ELSE [m |-> sent, status |-> OK]
    IN  Acknowledge(end.m, r.cmd, end.status)

ISPProtocol_ReadFuseLockSigOSCCAL(m, r) ==
    LET s == Endpoint_ClearOUT(m)
    IN  Answer(Instruction(s, Nothing), r.cmd, OK,
               <<Received(s, [do |-> "fuse"])>>)

ISPProtocol_WriteFuseLock(m, r) ==
    Acknowledge(Instruction(Endpoint_ClearOUT(m), [do |-> "fuse", byte |-> r.byte]), r.cmd, OK)

(* start bytes go out unheard, then n are kept; what the host gave is padded.  *)
ISPProtocol_SPIMulti(m, r) ==
    LET t == Endpoint_Read_Stream(m, r.tx)
        s == ISPTarget_TransferBytes(Endpoint_ClearOUT(t.m), r.start + r.n)
        Out(i) == IF i \in 1 .. r.tx THEN t.data[i] ELSE 0
        In(i) == IF Whole(s) /\ Listens(s) /\ Out(i - 3) = ReadFuse THEN s.t.fuse ELSE Junk
    IN  Terminated(s, r, [i \in 1 .. r.n |-> In(r.start + i)])
=============================================================================
