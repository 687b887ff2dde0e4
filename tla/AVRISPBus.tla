------------------------------ MODULE AVRISPBus ------------------------------
(***************************************************************************)
(* The AVRISP-MKII programmer between its USB endpoint and a serial chip: the *)
(* bulk endpoint as the commands use it, and spi25.c, I2c.c and microwire.c.  *)
(*                                                                         *)
(* An operator takes the programmer m and gives what it leaves.  A command    *)
(* runs to its end in a step: the host only feeds it packets.  A packet is a  *)
(* sequence of items: the first of a transfer is the command with its fields, *)
(* the others are data bytes, one item each.  LUFA's stack and its hardware    *)
(* drivers are not in the repository.                                       *)
(***************************************************************************)
EXTENDS Integers, Sequences, SequencesExt, FiniteSetsExt

CONSTANTS
    EPSIZE,             \* AVRISP_DATA_EPSIZE: items of a packet (64 bytes)
    HardwareSpeeds      \* entries of SPIMaskFromSCKDuration (7)
ASSUME BusAssumption == EPSIZE \in Nat \ {0} /\ HardwareSpeeds \in Nat

Stale == 90             \* in a buffer that the host filled only in part
Junk == 99              \* read where no target answered
NoCommand == [cmd |-> "none"]

-----------------------------------------------------------------------------
(* The endpoint.  queue is the packets of the host's transfer, the first of   *)
(* them in the bank; sent, the packets of the answer.  Once the transfer is at *)
(* its end the endpoint's own time limit answers for the packets that lack.   *)
Cut(items) ==
    [k \in 1 .. (Len(items) + EPSIZE - 1) \div EPSIZE |->
        SubSeq(items, (k - 1) * EPSIZE + 1, Min({k * EPSIZE, Len(items)}))]
Zlp(items) == IF Len(items) % EPSIZE = 0 THEN << << >> >> ELSE << >>

Endpoint_Read(m) ==
    IF m.queue[1] = << >> THEN [item |-> NoCommand, m |-> m]
    ELSE [item |-> Head(m.queue[1]), m |-> [m EXCEPT !.queue[1] = Tail(@)]]

(* A bank is released only when the next one is needed.                      *)
Endpoint_Read_Stream(m, n) ==
    LET all == FlattenSeq(m.queue)
        Upto(k) == Len(FlattenSeq(SubSeq(m.queue, 1, k)))
        k == Min({j \in DOMAIN m.queue : Upto(j) >= n})
        rest == [m.queue EXCEPT ![k] = SubSeq(@, n - Upto(k - 1) + 1, Len(@))]
    IN  [data |-> [i \in 1 .. n |-> IF i <= Len(all) THEN all[i] ELSE Stale],
         m |-> [m EXCEPT !.queue = CASE n = 0 -> @
                                     [] n > 0 /\ Len(all) < n -> << >>
                                     [] n > 0 /\ Len(all) >= n -> SubSeq(rest, k, Len(rest))]]

Endpoint_ClearOUT(m) == [m EXCEPT !.queue = IF @ = << >> THEN @ ELSE Tail(@)]

(* An answer is sent packet by packet; short says that its last one is not full.*)
NoAnswer == [cmd |-> "none", status |-> "", data |-> << >>, short |-> TRUE]
OK == "STATUS_CMD_OK"
Answer(m, cmd, status, data) ==
    [m EXCEPT !.sent = [cmd |-> cmd, status |-> status, data |-> data,
                        short |-> (1 + Len(data)) % EPSIZE # 0]]
Acknowledge(m, cmd, status) == Answer(m, cmd, status, << >>)
RawAnswer(m, data) == Answer(m, "raw", OK, data)

-----------------------------------------------------------------------------
(* The lines.  cs is the level of the auxiliary line, which is RESET to an AVR *)
(* and the select of a serial chip; driven, whether it is an output.  spi: the *)
(* hardware SPI is enabled; bus: SCK and MOSI are outputs.  wire is what the   *)
(* chip has seen since it was selected, or since the last I2C stop.         *)
Event(m, e) == [m EXCEPT !.wire = Append(@, e)]
SPI_Set_CS(m, level) ==
    LET edge == level # m.cs \/ ~m.driven
    IN  [m EXCEPT !.cs = level, !.driven = TRUE,
                  !.wire = IF edge /\ level = m.select THEN << >> ELSE @]
Float(m) == [m EXCEPT !.driven = FALSE, !.cs = "low"]

(* LUFA's driver of the hardware SPI.                                       *)
SPI_Init(m) == [m EXCEPT !.spi = TRUE, !.bus = TRUE, !.sda = "free"]
SPI_Disable(m) == [m EXCEPT !.spi = FALSE, !.bus = FALSE]

(* hw is HardwareSPIMode.  The rescue clock runs on the pin XCK of the USART,  *)
(* which XPROG takes.                                                      *)
ISPTarget_ConfigureRescueClock(m) == [m EXCEPT !.usart = "rescue"]
ISPTarget_EnableTargetISP(m) ==
    IF m.params["sck"] < HardwareSpeeds THEN [SPI_Init(m) EXCEPT !.hw = TRUE]
    ELSE [m EXCEPT !.hw = FALSE, !.bus = TRUE]
ISPTarget_DisableTargetISP(m) ==
    IF m.hw THEN SPI_Disable(m)
    ELSE ISPTarget_ConfigureRescueClock([m EXCEPT !.bus = FALSE])

(* A byte of the hardware SPI ends only if the SPI is enabled.               *)
Shift(m, e) == IF m.spi THEN Event(m, e) ELSE [m EXCEPT !.hung = TRUE]
Times(k) == [i \in 1 .. k |-> i]
Positions(m, n) == [i \in 1 .. n |-> Len(m.wire) + i]

give_firmware_ver(m) == Acknowledge(Endpoint_ClearOUT(m), "FIRMWARE_VER", OK)

SPI_Enter25Mode(m) ==
    Acknowledge(SPI_Set_CS(ISPTarget_EnableTargetISP(Endpoint_ClearOUT(m)), "high"),
                "ENTER_SPI25", OK)

SPI_Leave25Mode(m) ==
    Acknowledge(Float(ISPTarget_DisableTargetISP(Endpoint_ClearOUT(m))), "LEAVE_SPI25", OK)

SPI_25Read(m, r) ==
    LET low == SPI_Set_CS(Endpoint_ClearOUT(m), "low")
        read == FoldLeft(LAMBDA t, i : Shift(t, <<"in", Len(t.wire) + 1>>), low, Times(r.n))
        given == RawAnswer(read, Positions(low, r.n))
    IN  IF r.cs THEN SPI_Set_CS(given, "high") ELSE given

(* What if the frame were closed before the last chunk?                      *)
SPI_25WriteSplit(m, r) ==
    LET t == Endpoint_Read_Stream(SPI_Set_CS(m, "low"), r.n)
        out == FoldLeft(LAMBDA u, i : IF i > 1 /\ i = r.n
                                      THEN Shift(SPI_Set_CS(SPI_Set_CS(u, "high"), "low"),
                                                 <<"out", t.data[i]>>)
                                      ELSE Shift(u, <<"out", t.data[i]>>), t.m, Times(r.n))
        done == Endpoint_ClearOUT(out)
    IN  IF r.cs THEN SPI_Set_CS(done, "high") ELSE done
SPI_25Write(m, r) ==
    LET t == Endpoint_Read_Stream(SPI_Set_CS(m, "low"), r.n)
        out == FoldLeft(LAMBDA u, byte : Shift(u, <<"out", byte>>), t.m, t.data)
        done == Endpoint_ClearOUT(out)
    IN  IF r.cs THEN SPI_Set_CS(done, "high") ELSE done

-----------------------------------------------------------------------------
(* I2C.  The lines are MISO and MOSI: an enabled SPI holds them.  sda is what  *)
(* the programmer leaves on the data line; the clock stays released.         *)
I2C(m, e) == IF m.spi THEN m ELSE Event(m, e)
Start == <<"start", 0>>
Stop == <<"stop", 0>>
Sda(m, level) == [m EXCEPT !.sda = level]
Fresh(m) == IF m.wire # << >> /\ Last(m.wire) = Stop THEN [m EXCEPT !.wire = << >>] ELSE m

(* Letting the data line rise while the clock is released is a stop.          *)
i2c_init(m) == Sda(IF m.sda = "low" THEN I2C(m, Stop) ELSE m, "free")
i2c_start(m) == Sda(I2C(Fresh(m), Start), "low")
i2c_stop(m) == Sda(I2C(m, Stop), "free")
i2c_send_byte(m, byte) == Sda(I2C(m, <<"out", byte>>), "free")
i2c_read_byte(m, ack) == Sda(I2C(m, <<"in", ack>>), IF ack = "ack" THEN "low" ELSE "free")
i2c_address(m, rw) == Sda(I2C(m, <<"address", rw>>), "free")

i2c_read(m, r) ==
    LET addressed == i2c_address(i2c_init(Endpoint_ClearOUT(m)), "r")
        read == FoldLeft(LAMBDA t, i : IF i = r.n THEN i2c_stop(i2c_read_byte(t, "nack"))
                                                  ELSE i2c_read_byte(t, "ack"),
                         addressed, Times(r.n))
    IN  RawAnswer(read, Positions(addressed, r.n))

i2c_write(m, r) ==
    LET t == Endpoint_Read_Stream(i2c_address(i2c_start(i2c_init(m)), "w"), r.n)
        out == FoldLeft(LAMBDA u, byte : i2c_send_byte(u, byte), t.m, t.data)
    IN  Endpoint_ClearOUT(IF r.stop THEN i2c_stop(out) ELSE i2c_start(out))

i2c_writebyte(m, r) == RawAnswer(i2c_send_byte(Endpoint_ClearOUT(m), r.n), <<1>>)
i2c_readbyte(m, r) ==
    RawAnswer(i2c_read_byte(Endpoint_ClearOUT(m), r.ack), Positions(m, 1))

-----------------------------------------------------------------------------
(* Microwire, on the same lines by hand.                                    *)
Clocked(m, e) == IF m.bus /\ ~m.spi THEN Event(m, e) ELSE m
mwSendData(m, byte, n) == Clocked(m, <<"bits", byte, n>>)
mwReadByte(m) == Clocked(m, <<"in", Len(m.wire) + 1>>)
mwEnd(m) == SPI_Set_CS(m, "low")
mwBusy(m) == SPI_Set_CS(SPI_Set_CS(m, "high"), "low")

mw_init(m) == Endpoint_ClearOUT([SPI_Disable(m) EXCEPT !.bus = TRUE])

(* What if a read of nothing had no answer?                                  *)
mw_readSilent(m, r) ==
    LET read == FoldLeft(LAMBDA t, i : mwReadByte(t), Endpoint_ClearOUT(m), Times(r.n))
        given == IF r.n = 0 THEN read ELSE RawAnswer(read, Positions(m, r.n))
    IN  IF r.cs THEN mwEnd(given) ELSE given
(* A read of nothing answers one byte, which the host waits for.             *)
mw_read(m, r) ==
    LET read == FoldLeft(LAMBDA t, i : mwReadByte(t), Endpoint_ClearOUT(m), Times(r.n))
        given == RawAnswer(read, IF r.n = 0 THEN <<0>> ELSE Positions(m, r.n))
    IN  IF r.cs THEN mwEnd(given) ELSE given

(* The bits that are left decide how many of a byte go out.                  *)
mw_write(m, r) ==
    LET t == Endpoint_Read_Stream(SPI_Set_CS(m, "high"), r.n)
        bits(i) == Min({8, r.bits - 8 * (i - 1)})
        out == FoldLeft(LAMBDA u, i : IF bits(i) > 0 THEN mwSendData(u, t.data[i], bits(i))
                                                     ELSE u, t.m, Times(r.n))
        done == Endpoint_ClearOUT(out)
    IN  IF r.cs THEN mwEnd(done) ELSE done

mw_busy(m, busy) == RawAnswer(mwBusy(Endpoint_ClearOUT(m)), <<IF busy THEN 1 ELSE 0>>)
=============================================================================
