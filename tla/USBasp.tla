------------------------------- MODULE USBasp -------------------------------
(***************************************************************************)
(* The USBasp firmware: the control transfers of V-USB (usbdrv.c), the three *)
(* hooks of main.c that it calls, and the lines they drive (isp.c, i2c.c,    *)
(* microwire.c).  The host is usbasphw.pas for SPI, I2C and Microwire, and   *)
(* any program that speaks the protocol for in-circuit and TPI programming.  *)
(*                                                                         *)
(* One pass of usbPoll is a step: a hook runs to its end before the next one, *)
(* and the interrupt routine refuses packets meanwhile.  The host may give up *)
(* a transfer at any packet.  Packets on the wire are neither lost nor        *)
(* repeated.  A byte of a transfer that was given up is 0.                   *)
(***************************************************************************)
EXTENDS Integers, Sequences, SequencesExt, FiniteSetsExt

CONSTANTS
    Packet,             \* bytes of a packet (8 in the code)
    CounterSize,        \* values of prog_pagecounter (256)
    Segment,            \* bytes an extended address byte selects (2^17)
    Kinds, EepromSize,  \* of the AVR in the socket: sizes of flash and page
    Sizes,              \* lengths of the host's transfers
    Benches,            \* sessions that follow each other, with the SCK option the host
                        \* sets and the fastest option the AVR in the socket follows
    MaxFaults,          \* bound: transfers given up and sessions that crash
    MaxWire             \* bound: events of a frame when a call goes on after a failed one

(* The clocks that the host offers for Microwire are software ones: 8, 16 and  *)
(* 32 kHz.                                                                 *)
MwOptions == 5 .. 7

USBaspAssumption ==
    /\ Packet \in Nat \ {0} /\ CounterSize \in Nat \ {0} /\ Segment \in Nat \ {0}
    /\ Kinds \subseteq (Nat \ {0}) \X Nat /\ EepromSize \in Nat \ {0} /\ MaxFaults \in Nat
    /\ Sizes \subseteq Nat \ {0} /\ MaxWire \in Nat
    /\ Benches \subseteq [modes : SUBSET {"spi", "i2c", "mw", "tpi", "isp"},
                         option : 0 .. 13, max : 1 .. 13]
    /\ \A bench \in Benches : "mw" \in bench.modes => bench.option \in MwOptions

VARIABLES
    usb,                \* V-USB: usbRxBuf, usbTxBuf, usbMsgLen, usbMsgFlags, usbMsgPtr
    fw,                 \* the programmer: statics of main.c and isp.c, pins, socket
    host                \* the session of the host and the transfer under way

vars == <<usb, fw, host>>

NO_MSG == -1                                \* USB_NO_MSG
Stall == -1                                 \* 0xff, from a hook
Erased == 0                                 \* 0xFF in a cell, and a byte that is stale
Junk == 99                                  \* what a read gives that no chip answered
Chunk(n) == Min({n, Packet})

-----------------------------------------------------------------------------
(* isp.c.  fun is ispTransmit, opt the speed it is set for, spcr the speed    *)
(* the hardware SPI runs at (0: disabled), hi is isp_hiaddr.                *)
SCK_AUTO == 0
SCK_2 == 3
SCK_93_75 == 8
SCK_187_5 == 9
SCK_375 == 10

ispSetSCKOption(isp, option) ==
    LET o == IF option = SCK_AUTO THEN SCK_375 ELSE option
    IN  [isp EXCEPT !.opt = o, !.fun = IF o >= SCK_93_75 THEN "hw" ELSE "sw"]

spiHWenable(isp) == [isp EXCEPT !.spcr = IF isp.fun = "hw" THEN isp.opt ELSE @]
spiHWdisable(isp) == [isp EXCEPT !.spcr = 0]
Settled(isp) == spiHWenable(spiHWdisable(isp))

(* The enabled hardware takes the pins from the software.                   *)
Clocked(isp) == (isp.fun = "sw") <=> (isp.spcr = 0)
Speed(isp) == IF isp.fun = "hw" THEN isp.spcr ELSE isp.opt

(* The AVR in the socket (external): deaf unless clocked at its speed.       *)
NewAvr(size, page, max) ==
    [size |-> size, page |-> page, max |-> max, prog |-> FALSE, ext |-> 0,
     buf |-> [i \in 0 .. Max({page, 1}) - 1 |-> Erased],
     flash |-> [a \in 0 .. size - 1 |-> Erased], eeprom |-> [a \in 0 .. EepromSize - 1 |-> Erased]]
NoAvr == NewAvr(1, 0, 1)
Hears(m) == Clocked(m.isp) /\ Speed(m.isp) <= m.avr.max
Listens(m) == Hears(m) /\ m.avr.prog
EmptyPage(avr) == [i \in 0 .. Max({avr.page, 1}) - 1 |-> Erased]
ResetPulse(m) == [m EXCEPT !.avr.prog = FALSE, !.avr.ext = 0, !.avr.buf = EmptyPage(m.avr)]
Cell(avr, a) == (avr.ext * Segment + (a % Segment)) % avr.size
Programmed(old, new) == CASE new = Erased -> old [] old = Erased -> new [] OTHER -> Junk

ispUpdateExtended(m, a) ==
    LET hi == a \div Segment
    IN  IF m.isp.hi = hi THEN m
        ELSE [m EXCEPT !.isp.hi = hi, !.avr.ext = IF Listens(m) THEN hi ELSE @]

ispReadFlash(m, a) == IF Listens(m) THEN m.avr.flash[Cell(m.avr, a)] ELSE Junk

(* A page buffer, or the cell itself on an AVR without pages; the poll and   *)
(* the waits outlast the AVR.                                             *)
ispWriteFlash(m0, a, byte) ==
    LET m == ispUpdateExtended(m0, a)
    IN  CASE ~Listens(m)     -> m
          [] m.avr.page = 0  -> [m EXCEPT !.avr.flash[Cell(m.avr, a)] = Programmed(@, byte)]
          [] OTHER           -> [m EXCEPT !.avr.buf[a % m.avr.page] = byte]

ispFlushPage(m0, a) ==
    LET m == ispUpdateExtended(m0, a)
        cell == Cell(m.avr, a)
        page == {c \in DOMAIN m.avr.flash : c \div m.avr.page = cell \div m.avr.page}
    IN  IF ~Listens(m) \/ m.avr.page = 0 THEN m
        ELSE [m EXCEPT !.avr.buf = EmptyPage(m.avr),
                       !.avr.flash = [c \in DOMAIN @ |->
                            IF c \in page THEN Programmed(@[c], m.avr.buf[c % m.avr.page])
                                          ELSE @[c]]]

ispReadEEPROM(m, a) == IF Listens(m) THEN m.avr.eeprom[a % EepromSize] ELSE Junk
ispWriteEEPROM(m, a, byte) ==
    IF Listens(m) THEN [m EXCEPT !.avr.eeprom[a % EepromSize] = byte] ELSE m

(* Thirty-two tries, with a reset pulse and the SPI restarted after each that *)
(* fails: the first may meet the SPI as an earlier option left it.          *)
ispEnterProgrammingMode(m) ==
    IF Hears(m) THEN [m EXCEPT !.avr.prog = TRUE]
    ELSE LET again == [ResetPulse(m) EXCEPT !.isp = Settled(m.isp)]
         IN  [again EXCEPT !.avr.prog = Hears(again)]

(* The search for a lower speed.                                           *)
At(m, i) == ispEnterProgrammingMode([m EXCEPT !.isp = ispSetSCKOption(@, i)])
SetAfterSearch(isp, i) == ispSetSCKOption(isp, i - 1)
EnableProg(m) ==
    LET first == ispEnterProgrammingMode(m)
        speed == IF m.sck = SCK_AUTO THEN SCK_187_5 ELSE m.sck - 1
        answers == {i \in SCK_2 .. speed : At(first, i).avr.prog}
        i == Max(answers)
    IN  CASE first.avr.prog                     -> first
          [] ~first.avr.prog /\ answers # {}    ->
                 [At(first, i) EXCEPT !.isp = SetAfterSearch(@, i)]
          [] OTHER -> IF speed >= SCK_2 THEN At(first, SCK_2) ELSE first

-----------------------------------------------------------------------------
(* The lines.  wire is what the chip has seen since it was last selected, or  *)
(* since the last stop of the I2C bus; a chip selects itself at its level.   *)
Event(m, e) == [m EXCEPT !.wire = Append(@, e)]
Drive(m, level) ==
    LET edge == level # m.cs \/ ~m.driven
    IN  [m EXCEPT !.cs = level, !.driven = TRUE,
                  !.wire = IF edge /\ level = m.select THEN << >> ELSE @]
CS_LOW(m) == Drive(m, "low")
CS_HI(m) == Drive(m, "high")

SpiOut(m, byte) == IF Clocked(m.isp) THEN Event(m, <<"out", byte>>) ELSE m
SpiIn(m) == IF Clocked(m.isp) THEN Event(m, <<"in", Len(m.wire) + 1>>) ELSE m
SpiByte(m) ==
    IF Clocked(m.isp) /\ (m.isp.fun = "hw" \/ m.sda = "free") THEN Len(m.wire) + 1 ELSE Junk

(* The I2C lines are MISO and MOSI: an enabled SPI holds them.  sda is what    *)
(* the programmer leaves on MISO.                                          *)
I2C(m, e) == IF m.isp.spcr = 0 THEN Event(m, e) ELSE m
Start == <<"start", 0>>
Stop == <<"stop", 0>>
Sda(m, level) == [m EXCEPT !.sda = level]
i2c_start(m) ==
    Sda(I2C(IF m.wire # << >> /\ Last(m.wire) = Stop THEN [m EXCEPT !.wire = << >>] ELSE m,
            Start), "low")
i2c_stop(m) == Sda(I2C(m, Stop), "free")
i2c_address(m, rw) == Sda(I2C(m, <<"address", rw>>), "free")
i2c_send_byte(m, byte) == Sda(I2C(m, <<"out", byte>>), "free")
i2c_read_byte(m, ack) == Sda(I2C(m, <<"in", ack>>), IF ack = "ack" THEN "low" ELSE "free")

(* Microwire moves MOSI and SCK itself, which an enabled SPI holds; a read     *)
(* finds on MISO what the chip shifts out, if anything clocks it.           *)
Bitbanged(m, e) == IF m.isp.spcr = 0 THEN Event(m, e) ELSE m
mwSendData(m, byte, n) == Bitbanged(m, <<"bits", byte, n>>)
mwReadByte(m) == Bitbanged(m, <<"in", Len(m.wire) + 1>>)
MwByte(m) == IF m.isp.spcr = 0 /\ m.sda = "free" THEN Len(m.wire) + 1 ELSE Junk
mwEnd(m) == CS_LOW(m)

ispConnect(m) ==
    LET low == [ResetPulse(m) EXCEPT !.cs = "low", !.driven = TRUE, !.isp.hi = 0]
    IN  [low EXCEPT !.isp = spiHWenable(@)]
(* What if the connection left the chip selected?                           *)
isp25ConnectHeld(m) == [m EXCEPT !.isp = spiHWenable(@), !.driven = TRUE]
isp25Connect(m) == CS_HI([m EXCEPT !.isp = spiHWenable(@), !.driven = TRUE])
ispDisconnect(m) == [m EXCEPT !.driven = FALSE, !.cs = "low", !.isp = spiHWdisable(@)]

-----------------------------------------------------------------------------
(* main.c.  A hook takes the programmer m and gives what it leaves, with the  *)
(* length it answers.  A request r is the eight bytes of SETUP: the function  *)
(* f, its direction, wValue, wIndex (the page fields for a flash write) and   *)
(* wLength n.                                                             *)
Answer(m, len, reply) == [m |-> m, len |-> len, reply |-> reply]
NoReply(m) == Answer(m, 0, << >>)
Transfer(m, r, state) == Answer([m EXCEPT !.state = state, !.n = r.n], NO_MSG, << >>)

(* (data[3] << 8) | data[2] is a 16 bit int: from 8000h on it is negative, and *)
(* fills the upper half of prog_address.                                    *)
SignExtended(v) == IF v < Segment \div 4 THEN v ELSE v + Segment \div 2 + 255 * Segment
(* What if SETLONGADDRESS were forgotten by the next block?                  *)
AddressedShort(m, v) == [m EXCEPT !.addr = SignExtended(v)]
Addressed(m, v) == IF m.newmode THEN m ELSE [m EXCEPT !.addr = SignExtended(v)]

WithSck(m) == [m EXCEPT !.isp = ispSetSCKOption(@, m.sck)]
Connect(m) == NoReply(ispConnect([WithSck(m) EXCEPT !.newmode = FALSE]))
SpiConnect(m) == NoReply(isp25Connect(WithSck(m)))
Disconnect(m) == NoReply(ispDisconnect(m))
SpiTransfer(m, r, state) == Transfer([CS_LOW(m) EXCEPT !.csHi = (r.value # 0)], r, state)
I2cInit(m) == NoReply(Sda(m, "free"))
I2cStart(m) == NoReply(i2c_start(m))
I2cStop(m) == NoReply(i2c_stop(m))
I2cWriteByte(m, r) == Answer(i2c_send_byte(m, r.value), 1, <<1>>)
I2cReadByte(m, r) ==
    Answer(i2c_read_byte(m, IF r.value = 0 THEN "ack" ELSE "nack"), 1, <<Len(m.wire) + 1>>)
I2cRead(m, r) == Transfer(i2c_address(m, "r"), r, "I2C_READ")
I2cWrite(m, r) ==
    Transfer([i2c_address(i2c_start(m), "w") EXCEPT !.stop = (r.index = 1)], r, "I2C_WRITE")
MwWrite(m, r) ==
    Transfer([CS_HI(m) EXCEPT !.mwCs = (r.value # 0), !.mwBits = r.index], r, "MW_WRITE")
MwRead(m, r) == Transfer([m EXCEPT !.mwCs = (r.value # 0)], r, "MW_READ")

(* A selected chip that is busy holds MISO down.                            *)
MwBusy(m, busy) == Answer(CS_LOW(CS_HI(m)), 1, <<IF busy THEN 1 ELSE 0>>)

EnableProgReply(m0) ==
    LET m == EnableProg(m0) IN Answer(m, 1, <<IF m.avr.prog THEN 0 ELSE 1>>)
(* TRANSMIT sends four bytes; the host uses it to erase the AVR.             *)
Transmit(m) ==
    Answer([m EXCEPT !.avr.flash = IF Listens(m) THEN [c \in DOMAIN @ |-> Erased] ELSE @],
           4, <<0, 0, 0, 0>>)
ReadBlock(m, r, state) == Transfer(Addressed(m, r.value), r, state)
(* What if the first block did not set the counter?                          *)
WriteFlashCounting(m, r) ==
    Transfer([Addressed(m, r.value) EXCEPT !.page = r.index.page, !.last = r.index.last],
             r, "WRITEFLASH")
WriteFlash(m, r) ==
    Transfer([Addressed(m, r.value) EXCEPT
                 !.page = r.index.page, !.last = r.index.last,
                 !.counter = IF r.index.first THEN r.index.page % CounterSize ELSE @],
             r, "WRITEFLASH")
WriteEEPROM(m, r) ==
    Transfer([Addressed(m, r.value) EXCEPT !.page = 0, !.last = FALSE], r, "WRITEEEPROM")
SetLongAddress(m, r) == NoReply([m EXCEPT !.newmode = TRUE, !.addr = r.value])
SetIspSck(m, r) == Answer([m EXCEPT !.sck = r.value], 1, <<0>>)
TpiConnect(m) == NoReply([m EXCEPT !.cs = "low", !.driven = TRUE, !.wire = << >>])
TpiDisconnect(m) == NoReply([m EXCEPT !.cs = "low", !.driven = FALSE])
TpiBlock(m, r, state) == Transfer([m EXCEPT !.addr = r.value, !.wire = << >>], r, state)

usbFunctionSetup(m, r, busy) ==
    CASE r.f = "CONNECT"         -> Connect(m)
      [] r.f = "SPI_CONNECT"     -> SpiConnect(m)
      [] r.f = "SPI_READ"        -> SpiTransfer(m, r, "SPI_READ")
      [] r.f = "SPI_WRITE"       -> SpiTransfer(m, r, "SPI_WRITE")
      [] r.f = "I2C_INIT"        -> I2cInit(m)
      [] r.f = "I2C_START"       -> I2cStart(m)
      [] r.f = "I2C_STOP"        -> I2cStop(m)
      [] r.f = "I2C_WRITEBYTE"   -> I2cWriteByte(m, r)
      [] r.f = "I2C_READBYTE"    -> I2cReadByte(m, r)
      [] r.f = "I2C_READ"        -> I2cRead(m, r)
      [] r.f = "I2C_WRITE"       -> I2cWrite(m, r)
      [] r.f = "MW_WRITE"        -> MwWrite(m, r)
      [] r.f = "MW_READ"         -> MwRead(m, r)
      [] r.f = "MW_BUSY"         -> MwBusy(m, busy)
      [] r.f = "DISCONNECT"      -> Disconnect(m)
      [] r.f = "TRANSMIT"        -> Transmit(m)
      [] r.f = "READFLASH"       -> ReadBlock(m, r, "READFLASH")
      [] r.f = "READEEPROM"      -> ReadBlock(m, r, "READEEPROM")
      [] r.f = "ENABLEPROG"      -> EnableProgReply(m)
      [] r.f = "WRITEFLASH"      -> WriteFlash(m, r)
      [] r.f = "WRITEEEPROM"     -> WriteEEPROM(m, r)
      [] r.f = "SETLONGADDRESS"  -> SetLongAddress(m, r)
      [] r.f = "SETISPSCK"       -> SetIspSck(m, r)
      [] r.f = "TPI_CONNECT"     -> TpiConnect(m)
      [] r.f = "TPI_DISCONNECT"  -> TpiDisconnect(m)
      [] r.f = "TPI_READBLOCK"   -> TpiBlock(m, r, "TPI_READ")
      [] r.f = "TPI_WRITEBLOCK"  -> TpiBlock(m, r, "TPI_WRITE")
      [] r.f = "GETCAPABILITIES" -> Answer(m, 4, <<1, 0, 0, 1>>)

-----------------------------------------------------------------------------
(* usbFunctionRead.  Each state takes bytes one by one: Took is the programmer *)
(* after them and the bytes it gives.                                      *)
Counted(m) == [m EXCEPT !.n = @ - 1]
Ended(m) == IF m.n = 0 THEN [m EXCEPT !.state = "IDLE"] ELSE m
Bytes(m, len) == Min({len, m.n})
Each(One(_, _), m, items) ==
    FoldLeft(LAMBDA t, x : One(t, x), [m |-> m, data |-> << >>], items)
Count(k) == [i \in 1 .. k |-> i]
Gave(t, m, byte) == [m |-> m, data |-> Append(t.data, byte)]

SpiRead(m, len) ==
    LET t == Each(LAMBDA u, i : Gave(u, Counted(SpiIn(u.m)), SpiByte(u.m)), m,
                  Count(Bytes(m, len)))
        done == IF t.m.csHi THEN CS_HI(t.m) ELSE t.m
    IN  [t EXCEPT !.m = IF t.m.n = 0 THEN Ended(done) ELSE @]

ReadI2c(m) ==
    IF m.n = 1 THEN i2c_stop(i2c_read_byte(m, "nack")) ELSE i2c_read_byte(m, "ack")
I2cReadBytes(m, len) ==
    LET t == Each(LAMBDA u, i : Gave(u, Counted(ReadI2c(u.m)), Len(u.m.wire) + 1), m,
                  Count(Bytes(m, len)))
    IN  [t EXCEPT !.m = Ended(@)]

MwReadBytes(m, len) ==
    LET t == Each(LAMBDA u, i : Gave(u, Counted(mwReadByte(u.m)), MwByte(u.m)), m,
                  Count(Bytes(m, len)))
    IN  [t EXCEPT !.m = IF t.m.n # 0 THEN @
                        ELSE Ended(IF t.m.mwCs THEN mwEnd(t.m) ELSE t.m)]

TpiRead(m, len) ==
    [m |-> [m EXCEPT !.addr = @ + len], data |-> [i \in 1 .. len |-> m.addr + i - 1]]

(* Flash and EEPROM: a short packet is the last; prog_nbytes is not looked at. *)
IspRead(m, len) ==
    LET next(u) == [u EXCEPT !.addr = @ + 1]
        t == Each(LAMBDA u, i :
                  IF m.state = "READFLASH"
                  THEN LET v == ispUpdateExtended(u.m, u.m.addr)
                       IN  Gave(u, next(v), ispReadFlash(v, v.addr))
                  ELSE Gave(u, next(u.m), ispReadEEPROM(u.m, u.m.addr)), m, Count(len))
    IN  [t EXCEPT !.m.state = IF len < Packet THEN "IDLE" ELSE @]

ReadStates == {"READFLASH", "READEEPROM", "TPI_READ", "SPI_READ", "MW_READ", "I2C_READ"}
usbFunctionRead(m, len) ==
    CASE m.state = "SPI_READ" -> SpiRead(m, len)
      [] m.state = "I2C_READ" -> I2cReadBytes(m, len)
      [] m.state = "MW_READ"  -> MwReadBytes(m, len)
      [] m.state = "TPI_READ" -> TpiRead(m, len)
      [] m.state \in {"READFLASH", "READEEPROM"} -> IspRead(m, len)

-----------------------------------------------------------------------------
(* usbFunctionWrite: the programmer after the bytes, and whether they were   *)
(* the last.                                                             *)
Wrote(m, last) == [m |-> m, last |-> last]
Within(m, data) == SubSeq(data, 1, Bytes(m, Len(data)))

I2cWriteBytes(m0, data) ==
    LET m == FoldLeft(LAMBDA u, b : Counted(i2c_send_byte(u, b)), m0, Within(m0, data))
    IN  IF m.n = 0 THEN Wrote(Ended(IF m.stop THEN i2c_stop(m) ELSE i2c_start(m)), TRUE)
                   ELSE Wrote(m, FALSE)

SpiWrite(m0, data) ==
    LET m == FoldLeft(LAMBDA u, b : Counted(SpiOut(u, b)), m0, Within(m0, data))
    IN  Wrote(IF m.n = 0 /\ m.csHi THEN CS_HI(m) ELSE m, m.n = 0)

MwBits(m, b) ==
    LET k == Min({m.mwBits, 8})
    IN  IF k = 0 THEN m ELSE [mwSendData(m, b, k) EXCEPT !.mwBits = @ - k]
MwWriteBytes(m0, data) ==
    LET m == FoldLeft(LAMBDA u, b : Counted(MwBits(u, b)), m0, Within(m0, data))
    IN  IF m.n = 0 THEN Wrote(Ended(IF m.mwCs THEN mwEnd(m) ELSE m), TRUE)
                   ELSE Wrote(m, FALSE)

TpiWrite(m0, data) ==
    LET sent == [i \in DOMAIN data |-> <<"write", m0.addr + i - 1, data[i]>>]
        m == [m0 EXCEPT !.wire = @ \o sent, !.addr = @ + Len(data), !.n = @ - Len(data)]
    IN  Wrote(Ended(m), m.n = 0)

(* A byte of the flash: into the page, and the page out when the counter, of  *)
(* eight bits, comes to 0.                                               *)
Paged(m, b) ==
    LET w == ispWriteFlash(m, m.addr, b)
        c == (m.counter + CounterSize - 1) % CounterSize
    IN  CASE m.page = 0 -> w
          [] m.page # 0 /\ c # 0 -> [w EXCEPT !.counter = c]
          [] OTHER -> [ispFlushPage(w, w.addr) EXCEPT !.counter = m.page % CounterSize]
LastFlush(m) ==
    IF m.n = 0 /\ m.last /\ m.counter # m.page THEN ispFlushPage(m, m.addr) ELSE m
IspWriteByte(u, b) ==
    LET stored == IF u.state = "WRITEFLASH" THEN Paged(u, b) ELSE ispWriteEEPROM(u, u.addr, b)
    IN  [LastFlush(Counted(stored)) EXCEPT !.addr = @ + 1]
IspWrite(m0, data) ==
    LET m == FoldLeft(LAMBDA u, b : IspWriteByte(u, b), m0, data)
    IN  Wrote(Ended(m), m.n = 0)

WriteStates == {"WRITEFLASH", "WRITEEEPROM", "TPI_WRITE", "SPI_WRITE", "MW_WRITE", "I2C_WRITE"}
usbFunctionWrite(m, data) ==
    CASE m.state = "I2C_WRITE" -> I2cWriteBytes(m, data)
      [] m.state = "SPI_WRITE" -> SpiWrite(m, data)
      [] m.state = "MW_WRITE"  -> MwWriteBytes(m, data)
      [] m.state = "TPI_WRITE" -> TpiWrite(m, data)
      [] m.state \in {"WRITEFLASH", "WRITEEEPROM"} -> IspWrite(m, data)

-----------------------------------------------------------------------------
(* usbdrv.c.                                                              *)
NoPacket == [t |-> "none"]
Nak == [t |-> "nak", d |-> << >>]
Stalled == [t |-> "stall", d |-> << >>]
Data(d) == [t |-> "data", d |-> d]

(* A standard request is answered from the descriptors of the driver.        *)
usbDriverSetup(m, r) == Answer(m, r.index, [i \in 1 .. r.index |-> i])

MessageLen(r, a) ==
    CASE a.len # NO_MSG           -> Min({a.len, r.n})
      [] a.len = NO_MSG /\ r.in   -> r.n
      [] OTHER                    -> NO_MSG
Replying(u, r, a) ==
    [m |-> a.m, u |-> [u EXCEPT !.tx = Nak, !.user = (a.len = NO_MSG), !.len = MessageLen(r, a),
                                !.reply = a.reply]]
ProcessSetup(u, m, r, busy) ==
    Replying(u, r, IF r.f = "STANDARD" THEN usbDriverSetup(m, r)
                                       ELSE usbFunctionSetup(m, r, busy))

Taking(u, w) == [m |-> w.m, u |-> [u EXCEPT !.len = IF w.last THEN 0 ELSE @]]
ProcessOut(u, m, data) ==
    CASE ~u.user -> [m |-> m, u |-> u]
      [] u.user /\ m.state \notin WriteStates -> [m |-> m, u |-> [u EXCEPT !.tx = Stalled]]
      [] OTHER -> Taking(u, usbFunctionWrite(m, data))

usbProcessRx(u, m, busy) ==
    CASE u.rx.t = "none"  -> [m |-> m, u |-> u]
      [] u.rx.t = "setup" -> ProcessSetup(u, m, u.rx.r, busy)
      [] u.rx.t = "out"   -> ProcessOut(u, m, u.rx.d)

usbDeviceRead(u, m, len) ==
    CASE u.user /\ len > 0  -> usbFunctionRead(m, len)
      [] ~u.user /\ len > 0 -> [m |-> m, data |-> SubSeq(u.reply, 1, len)]
      [] len = 0            -> [m |-> m, data |-> << >>]

Giving(u, want, t) ==
    [m |-> t.m,
     u |-> [u EXCEPT !.tx = Data(t.data),
                     !.reply = IF u.user THEN @ ELSE SubSeq(@, want + 1, Len(@)),
                     !.len = IF Len(t.data) < Packet THEN NO_MSG ELSE @ - want]]
usbBuildTxBlock(u, m) ==
    LET want == Chunk(u.len)
    IN  IF u.user /\ want > 0 /\ m.state \notin ReadStates
        THEN [m |-> m, u |-> [u EXCEPT !.tx = Stalled, !.len = NO_MSG]]
        ELSE Giving(u, want, usbDeviceRead(u, m, want))

Sendable(u) == u.tx.t # "data" /\ u.len # NO_MSG
usbPoll ==
    /\ usb.rx.t # "none" \/ Sendable(usb)
    /\ \E busy \in BOOLEAN : \E a \in {usbProcessRx(usb, fw, busy)} :
       \E b \in {IF Sendable(a.u) THEN usbBuildTxBlock(a.u, a.m) ELSE a} :
           /\ usb' = [b.u EXCEPT !.rx = NoPacket]
           /\ fw' = b.m
    /\ UNCHANGED host

-----------------------------------------------------------------------------
(* The host.  todo is the rest of the call, in transfers; want, what the chip *)
(* is to see of the call; expect, what its read is to give.                  *)
Request(f, in, value, index, n, d) ==
    [f |-> f, in |-> in, value |-> value, index |-> index, n |-> n, d |-> d]
Plain(f, value) == Request(f, TRUE, value, 0, 0, << >>)
Asking(f, value, index, n) == Request(f, TRUE, value, index, n, << >>)
Sending(f, value, index, d) == Request(f, FALSE, value, index, Len(d), d)

NoCall == [k |-> "none", todo |-> << >>, want |-> << >>, expect |-> << >>, release |-> FALSE,
           at |-> 0]
Call(k, todo, want, expect, release, at) ==
    [k |-> k, todo |-> todo, want |-> want, expect |-> expect, release |-> release, at |-> at]

Outs(d) == [i \in DOMAIN d |-> <<"out", d[i]>>]
SpiCall(w, r) ==
    LET ins == [i \in 1 .. r |-> <<"in", w + i>>]
        write(cs) == Sending("SPI_WRITE", cs, 0, Count(w))
    IN  IF r = 0
        THEN Call("bus", <<write(1)>>, Outs(Count(w)), << >>, TRUE, 0)
        ELSE Call("bus", <<write(0), Asking("SPI_READ", 1, 0, r)>>, Outs(Count(w)) \o ins,
                  [i \in 1 .. r |-> w + i], TRUE, 0)

I2cCall(w, r) ==
    LET written == <<Start, <<"address", "w">>>> \o Outs(Count(w))
        read == [i \in 1 .. r |-> <<"in", IF i = r THEN "nack" ELSE "ack">>]
        write(stop) == Sending("I2C_WRITE", 0, stop, Count(w))
    IN  IF r = 0
        THEN Call("bus", <<write(1)>>, Append(written, Stop), << >>, FALSE, 0)
        ELSE Call("bus", <<write(0), Asking("I2C_READ", 0, 0, r)>>,
                  written \o <<Start, <<"address", "r">>>> \o Append(read, Stop),
                  [i \in 1 .. r |-> w + 4 + i], FALSE, 0)

(* Byte by byte, as the busy poll and the scripts do.                        *)
I2cBytes ==
    Call("bus", <<Plain("I2C_START", 0), Asking("I2C_WRITEBYTE", 1, 0, 1),
                  Asking("I2C_READBYTE", 1, 0, 1), Plain("I2C_STOP", 0)>>,
         <<Start, <<"out", 1>>, <<"in", "nack">>, Stop>>, << >>, FALSE, 0)

MwCall(bits, r) ==
    LET bytes == (bits + 7) \div 8
        out == [i \in 1 .. bytes |-> <<"bits", i, Min({8, bits - 8 * (i - 1)})>>]
        write(cs) == Sending("MW_WRITE", cs, bits, Count(bytes))
    IN  IF r = 0
        THEN Call("bus", <<write(1)>>, out, << >>, TRUE, 0)
        ELSE Call("bus", <<write(0), Asking("MW_READ", 1, 0, r)>>,
                  out \o [i \in 1 .. r |-> <<"in", bytes + i>>],
                  [i \in 1 .. r |-> bytes + i], TRUE, 0)

TpiCall(a, n, write) ==
    IF write THEN Call("bus", <<Sending("TPI_WRITEBLOCK", a, 0, Count(n))>>,
                       [i \in 1 .. n |-> <<"write", a + i - 1, i>>], << >>, FALSE, 0)
    ELSE Call("read", <<Asking("TPI_READBLOCK", a, 0, n)>>, << >>,
              [i \in 1 .. n |-> a + i - 1], FALSE, 0)

(* In-circuit programming: the address goes before each block, or with it to  *)
(* an AVR of at most 64 KB.                                                *)
Image(a) == a + 1
Long == fw.avr.size > Segment \div 2
At2(a, r) == IF Long THEN <<Plain("SETLONGADDRESS", a), r>> ELSE <<r>>
FlashWrite(a, n) ==
    LET page == [page |-> fw.avr.page, first |-> a = 0, last |-> a + n = fw.avr.size]
    IN  Call("write", At2(a, Sending("WRITEFLASH", a, page, [i \in 1 .. n |-> Image(a + i - 1)])),
             << >>, << >>, FALSE, a + n)
FlashRead(a, n) ==
    Call("read", At2(a, Asking("READFLASH", a, 0, n)), << >>,
         [i \in 1 .. n |-> fw.avr.flash[a + i - 1]], FALSE, 0)
EepromWrite(a, n) ==
    Call("eeprom", At2(a, Sending("WRITEEEPROM", a, 0, [i \in 1 .. n |-> Image(a + i)])),
         << >>, [i \in 1 .. n |-> Image(a + i)], FALSE, a)
EepromRead(a, n) ==
    Call("read", At2(a, Asking("READEEPROM", a, 0, n)), << >>,
         [i \in 1 .. n |-> fw.avr.eeprom[a + i - 1]], FALSE, 0)

Opening(mode, option) ==
    CASE mode \in {"spi", "mw"} -> <<Asking("SETISPSCK", option, 0, 1), Plain("SPI_CONNECT", 0)>>
      [] mode = "i2c" -> <<Plain("I2C_INIT", 0)>>
      [] mode = "tpi" -> <<Plain("TPI_CONNECT", 0)>>
      [] mode = "isp" -> <<Asking("SETISPSCK", option, 0, 1), Plain("CONNECT", 0)>>
Closing(mode) == <<Plain(IF mode = "tpi" THEN "TPI_DISCONNECT" ELSE "DISCONNECT", 0)>>

Select(mode) == IF mode = "mw" THEN "high" ELSE "low"
Sound(mode) ==
    /\ mode = "i2c" \/ fw.sda = "free"
    /\ host.left = "released" \/ {mode, host.left} \subseteq {"spi", "isp"}

Avrs == {NewAvr(kind[1], kind[2], host.bench.max) : kind \in Kinds}

Begin(call) ==
    /\ host' = [host EXCEPT !.call = call, !.todo = call.todo, !.done = FALSE]
    /\ UNCHANGED <<usb, fw>>

Idle == host.phase = "idle" /\ host.todo = << >>

Open ==
    /\ Idle /\ host.mode = "none"
    /\ \E mode \in host.bench.modes :
           /\ host' = [host EXCEPT
                          !.mode = mode, !.todo = Opening(mode, host.bench.option), !.clean = Sound(mode),
                          !.call = [NoCall EXCEPT !.k = "open"], !.at = 0,
                          !.ready = (mode # "isp"), !.done = FALSE]
           /\ \E avr \in IF mode = "isp" THEN Avrs ELSE {NoAvr} :
                  fw' = [fw EXCEPT !.select = Select(mode), !.avr = avr,
                                     !.wire = IF mode = "i2c" THEN << >> ELSE @]
    /\ UNCHANGED usb

Close ==
    /\ Idle /\ host.mode # "none"
    /\ Begin([NoCall EXCEPT !.k = "close", !.todo = Closing(host.mode)])

(* A call of the backend on an open session.                               *)
BusCall ==
    /\ Idle /\ host.ready /\ (host.clean \/ Len(fw.wire) <= MaxWire)
    /\ \E w \in Sizes, r \in Sizes \cup {0} :
           \/ host.mode = "spi" /\ Begin(SpiCall(w, r))
           \/ host.mode = "i2c" /\ Begin(I2cCall(w, r))
           \/ host.mode = "i2c" /\ Begin(I2cBytes)
           \/ host.mode = "mw"  /\ Begin(MwCall(8 * (w - 1) + 3, r))
           \/ host.mode = "tpi" /\ Begin(TpiCall(w, r + 1, r \in Sizes))

MwIsBusy ==
    /\ Idle /\ host.mode = "mw"
    /\ Begin([NoCall EXCEPT !.k = "busy", !.todo = <<Asking("MW_BUSY", 0, 0, 1)>>])

EnterProgramming ==
    /\ Idle /\ host.mode = "isp" /\ ~host.ready /\ host.clean
    /\ Begin([NoCall EXCEPT !.k = "enable", !.todo = <<Asking("ENABLEPROG", 0, 0, 1)>>])

Erase ==
    /\ Idle /\ host.mode = "isp" /\ host.ready /\ host.clean /\ host.call.k = "enable"
    /\ Begin([NoCall EXCEPT !.k = "erase", !.todo = <<Asking("TRANSMIT", 0, 0, 4)>>])

WriteBlock ==
    /\ Idle /\ host.mode = "isp" /\ host.ready /\ host.clean /\ host.at < fw.avr.size
    /\ host.call.k \in {"erase", "write"}
    /\ \E n \in Sizes : host.at + n <= fw.avr.size /\ Begin(FlashWrite(host.at, n))

(* Bound: the EEPROM before the flash is erased, and the flash read once it is *)
(* written.                                                               *)
IspCall ==
    /\ Idle /\ host.mode = "isp" /\ host.ready /\ host.clean
    /\ \E n \in Sizes, a \in 0 .. fw.avr.size - 1 :
           \/ a + n <= fw.avr.size /\ host.at = fw.avr.size /\ Begin(FlashRead(a, n))
           \/ a + n <= EepromSize /\ host.call.k = "enable" /\ Begin(EepromWrite(a, n))
           \/ a + n <= EepromSize /\ host.call.k = "eeprom" /\ Begin(EepromRead(a, n))

(* What the operating system asks between two transfers.                   *)
Standard ==
    /\ Idle /\ host.mode # "none"
    /\ \E n \in {0, Packet + 1} :
           Begin([NoCall EXCEPT !.k = "standard",
                                !.todo = <<Request("STANDARD", TRUE, 0, n, n, << >>)>>])

Stale(tx) == [tx EXCEPT !.d = [i \in DOMAIN @ |-> Erased]]

Setup ==
    /\ host.phase = "idle" /\ host.todo # << >> /\ usb.rx.t = "none"
    /\ LET r == Head(host.todo)
       IN  /\ usb' = [usb EXCEPT !.rx = [t |-> "setup", r |-> r], !.tx = Stale(@)]
           /\ host' = [host EXCEPT !.sent = 0, !.got = << >>,
                                   !.phase = CASE r.n = 0 -> "status"
                                               [] r.n > 0 /\ r.in -> "in"
                                               [] OTHER -> "out"]
    /\ UNCHANGED fw

SendOut ==
    /\ host.phase = "out" /\ usb.rx.t = "none"
    /\ LET r == Head(host.todo)
           n == Chunk(r.n - host.sent)
       IN  /\ usb' = [usb EXCEPT !.rx = [t |-> "out", d |-> SubSeq(r.d, host.sent + 1, host.sent + n)]]
           /\ host' = [host EXCEPT !.sent = @ + n,
                                   !.phase = IF host.sent + n = r.n THEN "status" ELSE @]
    /\ UNCHANGED fw

Failed == [host EXCEPT !.call = NoCall, !.phase = "idle", !.todo = << >>, !.clean = FALSE, !.got = << >>]

Completed(got) ==
    LET over == Tail(host.todo) = << >>
        k == host.call.k
        closed == over /\ k = "close"
    IN  [host EXCEPT !.phase = "idle", !.todo = Tail(@), !.got = got,
            !.done = over, !.sent = 0,
            !.ready = IF over /\ k = "enable" THEN got = <<0>> ELSE @,
            !.at = IF over /\ k \in {"write", "erase"} THEN host.call.at ELSE @,
            !.mode = IF closed THEN "none" ELSE @,
            !.left = CASE ~closed -> @
                       [] closed /\ (host.clean \/ host.mode \notin {"i2c", "tpi"}) -> "released"
                       [] OTHER -> "other"]

(* An IN token is refused while a packet waits for usbPoll.                  *)
Ready == usb.rx.t = "none" /\ usb.tx.t # "nak"
TakeIn ==
    /\ host.phase = "in" /\ Ready
    /\ LET r == Head(host.todo)
           got == host.got \o usb.tx.d
       IN  host' = CASE usb.tx.t = "stall" -> Failed
                     [] usb.tx.t = "data" /\ Len(got) >= r.n -> Completed(got)
                     [] usb.tx.t = "data" /\ Len(got) < r.n /\ Len(usb.tx.d) < Packet -> Failed
                     [] OTHER -> [host EXCEPT !.got = got]
    /\ usb' = [usb EXCEPT !.tx = IF @.t = "data" THEN Nak ELSE @]
    /\ UNCHANGED fw

TakeStatus ==
    /\ host.phase = "status" /\ Ready
    /\ host' = IF usb.tx.t = "stall" THEN Failed ELSE Completed(<< >>)
    /\ usb' = [usb EXCEPT !.tx = IF @.t = "data" THEN Nak ELSE @]
    /\ UNCHANGED fw

(* A time limit of the host, or the end of its process.                     *)
GiveUp ==
    /\ host.phase # "idle" /\ host.faults < MaxFaults
    /\ host' = [Failed EXCEPT !.faults = @ + 1]
    /\ UNCHANGED <<usb, fw>>

Crash ==
    /\ host.mode # "none" /\ host.faults < MaxFaults
    /\ host' = [Failed EXCEPT !.faults = @ + 1, !.mode = "none", !.done = FALSE,
                   !.left = IF host.mode \in {"spi", "isp"} THEN host.mode ELSE "other"]
    /\ UNCHANGED <<usb, fw>>

Init ==
    /\ usb = [rx |-> NoPacket, tx |-> Nak, len |-> NO_MSG, user |-> FALSE, reply |-> << >>]
    /\ fw = [isp |-> [fun |-> "sw", opt |-> 0, spcr |-> 0, hi |-> 0], avr |-> NoAvr,
             cs |-> "low", driven |-> FALSE, wire |-> << >>, select |-> "low", sda |-> "free",
             state |-> "IDLE", sck |-> SCK_AUTO, newmode |-> FALSE, addr |-> 0, n |-> 0,
             page |-> 0, last |-> FALSE, counter |-> 0,
             csHi |-> TRUE, mwCs |-> TRUE, mwBits |-> 0, stop |-> FALSE]
    /\ \E bench \in Benches :
       host = [bench |-> bench, mode |-> "none", call |-> NoCall, todo |-> << >>, phase |-> "idle", sent |-> 0,
               got |-> << >>, clean |-> TRUE, done |-> FALSE, at |-> 0, ready |-> FALSE,
               left |-> "released", faults |-> 0]

HostStep == Setup \/ SendOut \/ TakeIn \/ TakeStatus
Next ==
    \/ usbPoll \/ HostStep
    \/ Open \/ Close \/ BusCall \/ MwIsBusy \/ EnterProgramming \/ Erase \/ WriteBlock \/ IspCall
    \/ Standard \/ GiveUp \/ Crash

Spec == Init /\ [][Next]_vars

-----------------------------------------------------------------------------
(* A call that went well was one frame of the chip, from its first byte and  *)
(* with nothing of an earlier call in it, and the chip is released where the *)
(* host asked for it.                                                     *)
BusSawTheCall ==
    host.done /\ host.clean /\ host.call.k = "bus" =>
        /\ fw.wire = host.call.want
        /\ host.call.release => fw.cs # fw.select
        /\ host.mode = "i2c" => fw.sda = "free"

(* The bytes a call gives are those of the chip, in order, at the addresses    *)
(* asked for, and none of a transfer given up before.                       *)
ReadsAreTrue ==
    host.done /\ host.clean /\ host.call.k \in {"bus", "read"} => host.got = host.call.expect

(* An AVR written block by block, each block taken without an error, holds    *)
(* the image once the last block is; an EEPROM its block.                    *)
WrittenIsWritten ==
    host.done /\ host.clean =>
        /\ host.call.k = "write" /\ host.at = fw.avr.size =>
               \A a \in 0 .. fw.avr.size - 1 : fw.avr.flash[a] = Image(a)
        /\ host.call.k = "eeprom" =>
               \A i \in DOMAIN host.call.expect :
                   fw.avr.eeprom[host.call.at + i - 1] = host.call.expect[i]

(* Once ENABLEPROG has answered 0 the AVR hears the programmer: "set SCK speed. *)
(* call before ispConnect!" (isp.h:66).                                     *)
EnabledIsHeard == host.done /\ host.call.k = "enable" /\ host.ready => Listens(fw)

(* No state of a hook leaves a transfer without an end: while the host waits,  *)
(* the firmware has a packet to take or to send, or the host one to send.     *)
NoTransferHangs ==
    host.phase # "idle" =>
        \/ usb.rx.t # "none" \/ Sendable(usb) \/ Ready
        \/ host.phase = "out"
=============================================================================
