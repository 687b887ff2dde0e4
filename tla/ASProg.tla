------------------------------- MODULE ASProg -------------------------------
(***************************************************************************)
(* The ASProg firmware of an Arduino (spi_cmd.cpp, i2c_cmd.cpp, mw_cmd.cpp    *)
(* under ParseCommand) and the backend that speaks to it over a serial line  *)
(* (arduinohw.pas).                                                        *)
(*                                                                         *)
(* Every Serial.readBytes is a step: it takes all it asked for, or after one *)
(* second what has come.  The host may stand still for longer at any byte it *)
(* sends.  Opening the port resets the board and purges the line; bytes are  *)
(* not lost.  A byte of buff left over from before is Stale, and a byte of   *)
(* data is no command's code.                                               *)
(***************************************************************************)
EXTENDS Integers, Sequences, SequencesExt, FiniteSetsExt

CONSTANTS
    rchunk, wchunk,     \* bytes of a block that is read and of one that is written
    Modes,              \* the protocols a session may be of
    Writes, Reads,      \* lengths of the host's transfers
    I2CWrites,          \* those of what it writes over I2C
    MaxStalls,          \* bound: times the host stands still
    MaxDirty            \* bound: calls a session begins after that

ASProgAssumption ==
    /\ rchunk \in Nat \ {0} /\ wchunk \in Nat /\ rchunk <= wchunk /\ MaxStalls \in Nat /\ MaxDirty \in Nat
    /\ Modes \subseteq {"spi", "i2c", "mw"} /\ I2CWrites \subseteq Nat \ {0}
    /\ Writes \subseteq Nat \ {0} /\ Reads \subseteq Nat \ {0}

VARIABLES
    fw,                 \* the firmware: buff and locals of a handler, pins, what was on the bus
    host,               \* the session, the call under way and what it got
    tx, rx              \* the serial line: bytes to the board, bytes to the host

vars == <<fw, host, tx, rx>>

FUNC_SPI_INIT == 7
FUNC_SPI_DEINIT == 8
FUNC_SPI_READ == 10
FUNC_SPI_WRITE == 11
FUNC_I2C_INIT == 20
FUNC_I2C_READ == 21
FUNC_I2C_WRITE == 22
FUNC_I2C_START == 23
FUNC_I2C_STOP == 24
FUNC_I2C_READBYTE == 25
FUNC_I2C_WRITEBYTE == 26
FUNC_MW_READ == 30
FUNC_MW_WRITE == 31
FUNC_MW_BUSY == 32
FUNC_MW_INIT == 33
FUNC_MW_DEINIT == 34
Spi == {FUNC_SPI_READ, FUNC_SPI_WRITE}
Mw == {FUNC_MW_READ, FUNC_MW_WRITE}
I2c == {FUNC_I2C_READ, FUNC_I2C_WRITE}
I2cByte == {FUNC_I2C_READBYTE, FUNC_I2C_WRITEBYTE}
ACK == 81
ERROR_RECV == 99
ERROR_NO_CMD == 100
Stale == 0
Junk == 999                                 \* what is read where no chip answers
Data(i) == 200 + i                          \* a byte of the host's data
Cell(i) == 300 + i                          \* the i-th byte the chip gives in a call
Count(n) == [i \in 1 .. n |-> Data(i)]

-----------------------------------------------------------------------------
(* The lines.  rst is the pin ISP_RST: the select of SPI and Microwire.       *)
Drive(m, level) ==
    IF m.rst = "input" \/ m.rst = level THEN m
    ELSE [m EXCEPT !.rst = level, !.wire = Append(@, <<level>>)]
Out(m, events) == [m EXCEPT !.wire = @ \o events]
In(m, n, acks) ==
    [m EXCEPT !.wire = @ \o [i \in 1 .. n |-> <<"in", acks[i]>>], !.cells = @ + n]
CellsOf(m, n) ==
    [i \in 1 .. n |-> IF m.rst = "input" /\ m.cmd \notin I2c \cup I2cByte THEN Junk ELSE Cell(m.cells + i)]

Start(m) == Out(m, <<<<"start">>>>)
Stop(m) == Out(m, <<<<"stop">>>>)

(* A handler that gives up returns the chip, or the pins.                   *)
Released(m) ==
    CASE m.cmd \in Spi -> Drive(m, "high")
      [] m.cmd \in I2c -> Stop(m)
      [] m.cmd \in Mw  -> [m EXCEPT !.rst = "input"]

(* An early return that leaves the chip as it is.                           *)
AbortedSelected(m) == [m EXCEPT !.pc = "loop", !.left = 0, !.kept = FALSE]

Aborted(m) == [Released(m) EXCEPT !.pc = "loop", !.left = 0, !.kept = FALSE]

(* The end of a handler that did not give up.                               *)
Finished(m) ==
    [CASE m.cmd \in Spi -> IF m.flag THEN Drive(m, "high") ELSE m
       [] m.cmd \in Mw -> IF m.flag THEN Drive(m, "low") ELSE m
       [] m.cmd = FUNC_I2C_READ -> m
       [] m.cmd = FUNC_I2C_WRITE -> IF m.flag THEN Stop(m) ELSE Start(m)
     EXCEPT !.pc = "loop", !.kept = ~m.flag]

-----------------------------------------------------------------------------
(* ParseCommand.                                                            *)
HeaderSize(cmd) ==
    CASE cmd \in {FUNC_SPI_INIT} \cup I2cByte -> 1
      [] cmd \in {FUNC_SPI_READ, FUNC_SPI_WRITE, FUNC_I2C_READ, FUNC_MW_READ} -> 3
      [] cmd \in {FUNC_I2C_WRITE, FUNC_MW_WRITE} -> 4
Headed == {FUNC_SPI_INIT} \cup I2cByte \cup Spi \cup I2c \cup Mw

Answer(bytes) == rx' = rx \o bytes

(* SPI.begin raises a pin that was an input.                                *)
PinsOut(m, level) == [m EXCEPT !.rst = level]

ParseCommand ==
    /\ fw.pc = "loop" /\ tx # << >>
    /\ tx' = Tail(tx)
    /\ LET cmd == Head(tx)
       IN  \/ cmd \in Headed /\ fw' = [fw EXCEPT !.pc = "header", !.cmd = cmd] /\ UNCHANGED rx
           \/ cmd = FUNC_SPI_DEINIT /\ fw' = [fw EXCEPT !.rst = "input"] /\ Answer(<<cmd>>)
           \/ cmd = FUNC_I2C_INIT /\ UNCHANGED fw /\ Answer(<<cmd>>)
           \/ cmd = FUNC_I2C_START /\ fw' = Start(fw) /\ UNCHANGED rx
           \/ cmd = FUNC_I2C_STOP /\ fw' = Stop(fw) /\ UNCHANGED rx
           \/ cmd = FUNC_MW_INIT /\ fw' = PinsOut(fw, "low") /\ Answer(<<cmd>>)
           \/ cmd = FUNC_MW_DEINIT /\ fw' = [fw EXCEPT !.rst = "input"] /\ Answer(<<cmd>>)
           \/ /\ cmd = FUNC_MW_BUSY
              /\ fw' = Drive(Drive(fw, "high"), "low")
              /\ \E busy \in {0, 1} : Answer(<<cmd, busy>>)
           \/ /\ cmd \notin Headed \cup {FUNC_SPI_DEINIT, FUNC_I2C_INIT, FUNC_I2C_START,
                      FUNC_I2C_STOP, FUNC_MW_INIT, FUNC_MW_DEINIT, FUNC_MW_BUSY}
              /\ Answer(<<ERROR_NO_CMD>>) /\ UNCHANGED fw
    /\ UNCHANGED host

(* Serial.readBytes.  The host is still for a second when it is through with  *)
(* a call, waits for the board itself, or stalls.                            *)
Idle == host.todo = << >>
Now == Head(host.todo)
Doing(s) == ~Idle /\ Now.s = s
Waiting == ~Idle /\ Now.s # "send" /\ Len(rx) < Len(Now.d)
Still == Idle \/ host.stalled \/ Waiting
Received(n) == Len(tx) >= n
TimedOut(n) == Len(tx) < n /\ Still

(* The blocks of a read: read from the chip, sent, and acknowledged.          *)
NextBlock(m) ==
    LET n == IF m.left >= rchunk THEN rchunk ELSE m.left
        nack(i) == IF m.cmd = FUNC_I2C_READ THEN (IF i = m.left THEN "nack" ELSE "ack") ELSE "-"
        read == In(m, n, [i \in 1 .. n |-> nack(i)])
    IN  [fw |-> [IF m.cmd = FUNC_I2C_READ /\ n = m.left THEN Stop(read) ELSE read
                 EXCEPT !.left = @ - n, !.pc = "ack"],
         answer |-> CellsOf(m, n)]

ReadFrom(m, echo) ==
    LET block == NextBlock(m)
    IN  fw' = block.fw /\ Answer(echo \o block.answer)

(* What a handler does with its header.                                     *)
Header ==
    /\ fw.pc = "header" /\ Received(HeaderSize(fw.cmd))
    /\ LET n == HeaderSize(fw.cmd)
           h == SubSeq(tx, 1, n)
           m == [fw EXCEPT !.pc = "loop", !.flag = h[1] # 0,
                           !.left = IF n > 1 THEN h[n - 1] * 256 + h[n] ELSE 0]
       IN  /\ tx' = SubSeq(tx, n + 1, Len(tx))
           /\ \/ /\ fw.cmd = FUNC_SPI_INIT
                 /\ fw' = PinsOut(m, IF m.rst = "input" THEN "high" ELSE m.rst)
                 /\ Answer(<<fw.cmd>>)
              \/ /\ fw.cmd = FUNC_SPI_READ /\ ReadFrom(Drive(m, "low"), <<fw.cmd>>)
              \/ /\ fw.cmd = FUNC_MW_READ /\ ReadFrom(m, <<fw.cmd>>)
              \/ /\ fw.cmd = FUNC_I2C_READ
                 /\ ReadFrom(Out(m, <<<<"address", "r">>>>), <<fw.cmd>>)
              \/ /\ fw.cmd = FUNC_SPI_WRITE
                 /\ fw' = [Drive(m, "low") EXCEPT !.pc = "data"] /\ Answer(<<fw.cmd>>)
              \/ /\ fw.cmd = FUNC_I2C_WRITE
                 /\ fw' = [Out(Start(m), <<<<"address", "w">>>>)
                           EXCEPT !.pc = "data", !.flag = h[2] = 1]
                 /\ Answer(<<fw.cmd>>)
              \/ /\ fw.cmd = FUNC_MW_WRITE
                 /\ fw' = [Drive(m, "high") EXCEPT !.pc = "data", !.bits = h[2]]
                 /\ Answer(<<fw.cmd>>)
              \/ /\ fw.cmd = FUNC_I2C_WRITEBYTE
                 /\ fw' = Out(m, <<<<"out", h[1]>>>>)
                 /\ \E ack \in {0, 1} : Answer(<<fw.cmd, ack>>)
              \/ /\ fw.cmd = FUNC_I2C_READBYTE
                 /\ fw' = In(m, 1, <<IF h[1] = 0 THEN "ack" ELSE "nack">>)
                 /\ Answer(<<fw.cmd>> \o CellsOf(m, 1))
    /\ UNCHANGED host

HeaderShort ==
    /\ fw.pc = "header" /\ TimedOut(HeaderSize(fw.cmd))
    /\ fw' = [fw EXCEPT !.pc = "loop"] /\ tx' = << >> /\ Answer(<<ERROR_RECV>>)
    /\ UNCHANGED host

AckedBlock ==
    /\ fw.pc = "ack" /\ Received(1) /\ Head(tx) = ACK
    /\ tx' = Tail(tx)
    /\ IF fw.left > 0 THEN ReadFrom(fw, << >>) ELSE fw' = Finished(fw) /\ UNCHANGED rx
    /\ UNCHANGED host

UnackedBlock ==
    /\ fw.pc = "ack" /\ ((Received(1) /\ Head(tx) # ACK) \/ TimedOut(1))
    /\ tx' = IF tx = << >> THEN tx ELSE Tail(tx)
    /\ fw' = Aborted(fw)
    /\ UNCHANGED <<host, rx>>

(* The blocks of a write.  All n bytes of buff go out, also when fewer came.   *)
BlockSize == IF fw.cmd \notin Mw /\ fw.left >= wchunk THEN wchunk ELSE fw.left

I2cBytes(n) == IF fw.left >= wchunk THEN rchunk ELSE n

BitsOf(b, n) ==
    [i \in 1 .. Min({n, (fw.bits + 7) \div 8}) |-> <<"bits", b[i], Min({8, fw.bits - 8 * (i - 1)})>>]
ClockedOut(m, b, n) ==
    CASE m.cmd \in Spi -> Out(m, [i \in 1 .. n |-> <<"out", b[i]>>])
      [] m.cmd \in I2c -> Out(m, [i \in 1 .. I2cBytes(n) |-> <<"out", b[i]>>])
      [] m.cmd \in Mw -> [Out(m, BitsOf(b, n)) EXCEPT !.bits = IF 8 * n > @ THEN 0 ELSE @ - 8 * n]

WriteBlock ==
    /\ fw.pc = "data" /\ (Received(BlockSize) \/ TimedOut(BlockSize))
    /\ LET n == BlockSize
           k == Min({n, Len(tx)})
           b == SubSeq(tx, 1, k) \o [i \in 1 .. n - k |-> Stale]
           m == ClockedOut(fw, b, n)
           rest == [m EXCEPT !.left = @ - k]
       IN  /\ tx' = SubSeq(tx, k + 1, Len(tx))
           /\ IF k = 0 THEN fw' = Aborted(m) /\ UNCHANGED rx
              ELSE /\ fw' = IF rest.left > 0 THEN rest ELSE Finished(rest)
                   /\ Answer(<<ACK>>)
    /\ UNCHANGED host

Firmware ==
    ParseCommand \/ Header \/ HeaderShort \/ AckedBlock \/ UnackedBlock \/ WriteBlock

-----------------------------------------------------------------------------
(* The backend.  A call is what it sends and waits for, and a result.        *)
Send(d) == [s |-> "send", d |-> d]
Expect(b) == [s |-> "expect", d |-> <<b>>]      \* RecvByte, and an error if it is another
Recv(n) == [s |-> "recv", d |-> Count(n)]       \* RecvBufferEx: what came counts

Blocks(n, chunk) == (n + chunk - 1) \div chunk
BlockLen(i, n, chunk) == Min({n, i * chunk}) - (i - 1) * chunk
Written(data) ==
    FlattenSeq([i \in 1 .. Blocks(Len(data), wchunk) |->
        <<Send(SubSeq(data, (i - 1) * wchunk + 1, Min({Len(data), i * wchunk}))), Expect(ACK)>>])
ReadBack(n) ==
    FlattenSeq([i \in 1 .. Blocks(n, rchunk) |->
        <<Recv(BlockLen(i, n, rchunk)), Send(<<ACK>>)>>])

SPIWrite(cs, w) ==
    <<Send(<<FUNC_SPI_WRITE, cs, 0, w>>), Expect(FUNC_SPI_WRITE)>> \o Written(Count(w))
SPIRead(cs, r) ==
    <<Send(<<FUNC_SPI_READ, cs, 0, r>>), Expect(FUNC_SPI_READ)>> \o ReadBack(r)
I2CReadWrite(w, r) ==
    <<Send(<<FUNC_I2C_WRITE, 160, IF r > 0 THEN 0 ELSE 1, 0, w>>), Expect(FUNC_I2C_WRITE)>>
    \o Written(Count(w))
    \o (IF r = 0 THEN << >>
        ELSE <<Send(<<FUNC_I2C_READ, 160, 0, r>>), Expect(FUNC_I2C_READ)>> \o ReadBack(r))
MWWrite(cs, bits) ==
    LET bytes == (bits + 7) \div 8
    IN  <<Send(<<FUNC_MW_WRITE, cs, bits, 0, bytes>>), Expect(FUNC_MW_WRITE),
          Send(Count(bytes)), Expect(ACK)>>
MWRead(cs, r) ==
    <<Send(<<FUNC_MW_READ, cs, 0, r>>), Expect(FUNC_MW_READ)>> \o ReadBack(r)

(* A call, what it is to put on the bus and what it is to give.              *)
Call(k, todo, want, give) ==
    [k |-> k, todo |-> todo, want |-> want, give |-> [i \in 1 .. give |-> Cell(i)]]
NoCall == Call("none", << >>, << >>, 0)
Outs(w) == [i \in 1 .. w |-> <<"out", Data(i)>>]
Ins(r, ack) == [i \in 1 .. r |-> <<"in", ack>>]

BitsOut(w) == [i \in 1 .. w |-> <<"bits", Data(i), IF i = w THEN 3 ELSE 8>>]

SpiCalls ==
    {Call("bus", SPIWrite(1, w), <<<<"low">>>> \o Outs(w) \o <<<<"high">>>>, 0) : w \in Writes}
    \cup {Call("bus", SPIWrite(0, w) \o SPIRead(1, r),
               <<<<"low">>>> \o Outs(w) \o Ins(r, "-") \o <<<<"high">>>>, r) :
              w \in Writes, r \in Reads}
I2cCalls ==
    {Call("bus", I2CReadWrite(w, 0),
          <<<<"start">>, <<"address", "w">>>> \o Outs(w) \o <<<<"stop">>>>, 0) : w \in I2CWrites}
    \cup {Call("bus", I2CReadWrite(w, r),
               <<<<"start">>, <<"address", "w">>>> \o Outs(w) \o <<<<"start">>, <<"address", "r">>>>
               \o Ins(r - 1, "ack") \o <<<<"in", "nack">>, <<"stop">>>>, r) :
              w \in I2CWrites, r \in Reads}
    \cup {Call("bus", <<Send(<<FUNC_I2C_START>>), Send(<<FUNC_I2C_WRITEBYTE, Data(1)>>),
                       Expect(FUNC_I2C_WRITEBYTE), Recv(1), Send(<<FUNC_I2C_STOP>>)>>,
               <<<<"start">>, <<"out", Data(1)>>, <<"stop">>>>, 0),
          Call("bus", <<Send(<<FUNC_I2C_START>>), Send(<<FUNC_I2C_READBYTE, 1>>),
                       Expect(FUNC_I2C_READBYTE), Recv(1), Send(<<FUNC_I2C_STOP>>)>>,
               <<<<"start">>, <<"in", "nack">>, <<"stop">>>>, 1)}
MwCalls ==
    {Call("bus", MWWrite(1, 8 * w - 5),
          <<<<"high">>>> \o BitsOut(w) \o <<<<"low">>>>, 0) : w \in Writes}
    \cup {Call("bus", MWWrite(0, 8 * w - 5) \o MWRead(1, r),
               <<<<"high">>>> \o BitsOut(w) \o Ins(r, "-") \o <<<<"low">>>>, r) :
              w \in Writes, r \in Reads}
    \cup {Call("bus", <<Send(<<FUNC_MW_BUSY>>), Expect(FUNC_MW_BUSY), Recv(1)>>,
               <<<<"high">>, <<"low">>>>, 0)}

InitCall(mode) ==
    CASE mode = "spi" -> <<Send(<<FUNC_SPI_INIT, 0>>), Expect(FUNC_SPI_INIT)>>
      [] mode = "i2c" -> <<Send(<<FUNC_I2C_INIT>>), Expect(FUNC_I2C_INIT)>>
      [] mode = "mw"  -> <<Send(<<FUNC_MW_INIT>>), Expect(FUNC_MW_INIT)>>
DeinitCall(mode) ==
    CASE mode = "spi" -> <<Send(<<FUNC_SPI_DEINIT>>), Expect(FUNC_SPI_DEINIT)>>
      [] mode = "i2c" -> << >>
      [] mode = "mw"  -> <<Send(<<FUNC_MW_DEINIT>>), Expect(FUNC_MW_DEINIT)>>
CallsOf(mode) ==
    CASE mode = "spi" -> SpiCalls
      [] mode = "i2c" -> I2cCalls
      [] mode = "mw"  -> MwCalls

-----------------------------------------------------------------------------
(* The host's steps.  A call that met an error is over; one whose read came    *)
(* up short goes on, and its result is short.                               *)
Quiet == fw.pc = "loop" /\ tx = << >>
Board == [pc |-> "loop", cmd |-> 0, flag |-> FALSE, left |-> 0, bits |-> 0, rst |-> "input",
          wire |-> << >>, cells |-> 0, kept |-> FALSE]
Calling(call) == [host EXCEPT !.call = call, !.todo = call.todo, !.got = << >>, !.ok = TRUE]

DevOpen ==
    /\ Idle /\ host.mode = "none"
    /\ \E mode \in Modes :
           host' = [Calling(Call("init", InitCall(mode), << >>, 0)) EXCEPT !.mode = mode, !.dirty = 0]
    /\ fw' = Board /\ tx' = << >> /\ rx' = << >>

(* A backend whose initialization failed is closed again, but I2CInit has no  *)
(* result.  While nothing has gone wrong a call begins when the board is      *)
(* through with the one before.                                            *)
Ready == Idle /\ host.mode # "none" /\ (host.call.k = "init" => host.ok \/ host.mode = "i2c")
Begin ==
    /\ Ready /\ host.call.k # "deinit"
    /\ IF host.dirty = 0 THEN Quiet ELSE host.dirty <= MaxDirty
    /\ \E call \in CallsOf(host.mode) :
           host' = [Calling(call) EXCEPT !.dirty = IF @ = 0 THEN 0 ELSE @ + 1]
    /\ fw' = [fw EXCEPT !.wire = << >>, !.cells = 0]
    /\ UNCHANGED <<tx, rx>>

Deinit ==
    /\ Ready /\ host.call.k # "deinit"
    /\ host' = Calling(Call("deinit", DeinitCall(host.mode), << >>, 0))
    /\ UNCHANGED <<fw, tx, rx>>

DevClose ==
    /\ Idle /\ host.mode # "none" /\ (host.call.k = "deinit" \/ ~host.ok)
    /\ host' = [Calling(NoCall) EXCEPT !.mode = "none"]
    /\ UNCHANGED <<fw, tx, rx>>

Advance(h) == host' = [h EXCEPT !.todo = Tail(@), !.stalled = FALSE]

SendBuffer ==
    /\ Doing("send")
    /\ tx' = tx \o Now.d
    /\ Advance(host)
    /\ UNCHANGED <<fw, rx>>

(* The host stands still before it has sent it all.                         *)
Stall ==
    /\ Doing("send") /\ ~host.stalled /\ host.stalls < MaxStalls
    /\ \E n \in 0 .. Len(Now.d) - 1 :
           /\ tx' = tx \o SubSeq(Now.d, 1, n)
           /\ host' = [host EXCEPT !.stalled = TRUE, !.stalls = @ + 1,
                                   !.dirty = Max({@, 1}),
                                   !.todo = <<Send(SubSeq(Now.d, n + 1, Len(Now.d)))>> \o Tail(@)]
    /\ UNCHANGED <<fw, rx>>

(* RecvByte: 0 when nothing came, which is no answer.                        *)
RecvByte ==
    /\ Doing("expect") /\ (rx # << >> \/ Quiet)
    /\ IF rx # << >> /\ Head(rx) = Now.d[1] THEN Advance(host)
       ELSE host' = [host EXCEPT !.todo = << >>, !.ok = FALSE]
    /\ rx' = IF rx = << >> THEN rx ELSE Tail(rx)
    /\ UNCHANGED <<fw, tx>>

RecvBufferEx ==
    /\ Doing("recv")
    /\ LET n == Len(Now.d)
           k == Min({n, Len(rx)})
       IN  /\ k = n \/ Quiet
           /\ rx' = SubSeq(rx, k + 1, Len(rx))
           /\ Advance([host EXCEPT !.got = @ \o SubSeq(rx, 1, k), !.ok = @ /\ k = n])
    /\ UNCHANGED <<fw, tx>>

Host == DevOpen \/ Begin \/ Deinit \/ DevClose \/ SendBuffer \/ Stall \/ RecvByte \/ RecvBufferEx

Init ==
    /\ fw = Board /\ tx = << >> /\ rx = << >>
    /\ host = [mode |-> "none", call |-> NoCall, todo |-> << >>, got |-> << >>, ok |-> TRUE,
               stalled |-> FALSE, stalls |-> 0, dirty |-> 0]

Next == Firmware \/ Host
Spec == Init /\ [][Next]_vars

-----------------------------------------------------------------------------
(* While the host of a session never stood still, every call goes well, has   *)
(* put on the bus one frame, its own and whole, gives what the chip gave, and *)
(* leaves the line empty for the next one.                                  *)
BusSawTheCall ==
    Idle /\ Quiet /\ host.mode # "none" /\ host.dirty = 0 =>
        /\ host.ok /\ rx = << >>
        /\ host.call.k = "bus" =>
               /\ fw.wire = host.call.want
               /\ host.call.give # << >> => host.got = host.call.give

(* However the host stood still and whatever it sent in between, the firmware  *)
(* comes back to its loop with the chip selected only where the transfer that *)
(* ended last was to leave it so.                                          *)
Selected == fw.rst = (IF host.mode = "mw" THEN "high" ELSE "low")
SelectIsMeant == fw.pc = "loop" /\ host.mode \in {"spi", "mw"} /\ Selected => fw.kept
=============================================================================
