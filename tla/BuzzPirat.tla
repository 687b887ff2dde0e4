------------------------------ MODULE BuzzPirat ------------------------------
(***************************************************************************)
(* The Bus Pirate helper: buzzpirathlp.c, its ESC thread (dllmain.c) and the  *)
(* backend that calls it (buzzpirathw.pas), on a serial line to a Bus Pirate. *)
(*                                                                         *)
(* A call of the backend is a program: the sequence of transfers its          *)
(* functions make, one action for each.  The device (external) takes commands *)
(* from the line in order and answers in its own time; the ESC thread may     *)
(* raise end_fast between any two transfers.                                *)
(*                                                                         *)
(* A read has a time limit and gives what has come; the device answers a      *)
(* command it has taken within that limit, unless an earlier one keeps it     *)
(* busy (Late lifts this).  Bytes are neither lost nor altered.  The ten line *)
(* ends of EnterBINMode are one, and the menu item for the speed is one that   *)
(* bhl_asprog_spi_init and bhl_asprog_i2c_init know.                        *)
(***************************************************************************)
EXTENDS Integers, Sequences, SequencesExt

CONSTANTS
    MaxSize,            \* bytes of the longest read
    MaxDirty,           \* bound: calls that follow a cancelled one
    MaxQueue,           \* bound: commands the line holds; a write waits for room
    Zeros,              \* 00h bytes that bring the terminal into bitbang mode
    Late                \* may an answer come after the time limit of its read?

ASSUME BuzzPiratAssumption ==
    /\ MaxSize \in Nat \ {0} /\ MaxDirty \in Nat /\ MaxQueue \in Nat /\ Zeros \in Nat \ {0} /\ Late \in BOOLEAN

VARIABLES
    dll,                \* com_glb, last_prot, reset_once, last_status, end_fast, spibug
    host,               \* FDevOpened, FActiveI2C and the menu item "Reset on each init"
    run,                \* the call and the program that is left of it
    ent,                \* the locals of Enter...Mode: recv_byte, place, bytes_received
    mem,                \* spi_memaux and i2c_memaux
    out,                \* the answer to the last call
    tx, rx,             \* the line: commands to the device, bytes from it
    dev,                \* the Bus Pirate (external)
    dirty               \* calls since one was cancelled, 0 after a full initialisation

vars == <<dll, host, run, ent, mem, out, tx, rx, dev, dirty>>

Sizes == 0 .. MaxSize
Value == {"one", "zero", "B", "I", "O", "1", "S", "P", "2", "C"}
(* A byte or a command is new while the call that caused it goes on.          *)
Byte(v, new) == [v |-> v, new |-> new]
NoByte == Byte("zero", FALSE)
Text(word, new) == [i \in DOMAIN word |-> Byte(word[i], new)]
Aged(seq) == [i \in DOMAIN seq |-> [seq[i] EXCEPT !.new = FALSE]]

BBIO1 == <<"B", "B", "I", "O", "1">>
SPI1 == <<"S", "P", "I", "1">>
I2C1 == <<"I", "2", "C", "1">>

Calls == [k : {"open"}, p : {"spi", "i2c"}, scan : BOOLEAN]
         \cup [k : {"close"}]
         \cup [k : {"spi"}, n : Sizes, release : BOOLEAN]
         \cup [k : {"i2c"}, n : Sizes]
         \cup [k : {"start", "stop", "readbyte", "writebyte"}]

-----------------------------------------------------------------------------
(* The programs.  Command bytes have their number of buzzpirathlp.h; the      *)
(* lengths of a transfer go with it.                                       *)
Step(s, b, n) == [s |-> s, b |-> b, n |-> n]
Send(b) == Step("send", b, 0)
SendFor(b, n) == Step("send", b, n)
Read(n) == Step("read", 0, n)
Flush == Step("flush", 0, 0)
Gate == Step("gate", 0, 0)
CsLow == Step("cs", 2, 0)
CsHigh == Step("cs", 3, 0)
Fail == Step("return", 0, 0)
Done == Step("return", 1, 0)

EnterBINMode ==
    <<Send(15), Flush, Send(13), Step("prompt", 0, 1), Send(35), Flush, Step("enter", 0, 1)>>
EnterSPIMode == <<Flush, Step("enter", 1, 0)>>
EnterI2CMode == <<Flush, Step("enter", 2, 0)>>
ResetBusPirate == EnterBINMode \o <<Send(15)>>
bhl_enter_raw_bitbang == ResetBusPirate \o EnterBINMode \o <<Flush>>

(* Configuration bytes: peripherals, speed, SPI configuration.              *)
Periph == 64
bhl_spi_setup ==
    bhl_enter_raw_bitbang \o EnterSPIMode
    \o <<Flush, Send(Periph), Flush, Send(97), Send(130), Send(3), Flush>>

bhl_i2c_setup ==
    bhl_enter_raw_bitbang \o EnterI2CMode
    \o <<Flush, Send(97), Flush, Send(Periph), Flush>>

(* One address of the scanner: start, address, stop, and four answers, of which *)
(* the list on the screen is made.                                         *)
bhl_i2c_scan == <<Flush, Send(2), Send(16), Send(3), Read(4), Flush>>

Close == Step("close", 0, 0)
CloseProgram == ResetBusPirate \o <<Step("closed", 0, 0)>>

bhl_asprog_spi_readwrite_no_cs(n) ==
    <<Gate, SendFor(5, n)>>
    \o (IF n = 0 /\ dll.spibug THEN << >> ELSE <<Step("await", 0, 0)>>)
    \o (IF n > 0 THEN <<Step("data", 0, n)>> ELSE << >>)

bhl_asprog_i2c_readwrite(n) ==
    <<Gate, SendFor(8, n), Step("awaiti2c", 0, 0)>>
    \o (IF n > 0 THEN <<Step("data", 0, n)>> ELSE << >>)

DevClose == IF host.open /\ host.resetEach THEN <<Close>> ELSE << >>

Program(c) ==
    CASE c.k = "open"      -> DevClose \o <<Step("init", 0, 0)>>
      [] c.k = "close"     -> DevClose \o <<Step("isclosed", 0, 0)>>
      [] c.k = "spi"       -> <<CsLow>> \o bhl_asprog_spi_readwrite_no_cs(c.n)
                              \o (IF c.release THEN <<CsHigh>> ELSE << >>) \o <<Done>>
      [] c.k = "i2c"       -> bhl_asprog_i2c_readwrite(c.n) \o <<Done>>
      [] c.k = "start"     -> <<Gate, Send(2), Read(2), Done>>
      [] c.k = "stop"      -> <<Gate, Send(3), Read(2), Done>>
      [] c.k = "readbyte"  -> <<Gate, Send(4), Send(6), Step("readbyte", 0, 3), Done>>
      [] c.k = "writebyte" -> <<Gate, Send(16), Read(3), Done>>

(* What the backend does when the helper returns 0.                         *)
OnFailure == IF run.call.k = "spi" THEN <<CsHigh, Fail>> ELSE <<Fail>>

-----------------------------------------------------------------------------
NoCall == [k |-> "none"]
NoOut == [call |-> NoCall, ok |-> FALSE, data |-> << >>]

Init ==
    /\ dll = [com |-> FALSE, last |-> "none", resetOnce |-> FALSE, cs |-> 105,
              endFast |-> FALSE, spibug |-> FALSE]
    /\ host = [open |-> FALSE, i2c |-> FALSE, resetEach |-> TRUE]
    /\ run = [call |-> NoCall, todo |-> << >>]
    /\ ent = [recv |-> NoByte, at |-> 0, got |-> 0]
    /\ mem = [i \in 1 .. MaxSize |-> NoByte]
    /\ out = NoOut
    /\ tx = << >> /\ rx = << >>
    /\ \E bug \in BOOLEAN, mode \in {"term", "bitbang", "spi", "i2c"} :
           dev = [mode |-> mode, zeros |-> Zeros, cs |-> "high", bug |-> bug]
    /\ dirty = 0

-----------------------------------------------------------------------------
(* The Bus Pirate (external): one command at a time.                        *)
Answer(bytes) == rx' = rx \o bytes
Ack(new) == <<Byte("one", new)>>
ToBitbang(new) ==
    /\ dev' = [dev EXCEPT !.mode = "bitbang", !.zeros = Zeros] /\ Answer(Text(BBIO1, new))

Terminal(c) ==
    /\ dev.mode = "term"
    /\ CASE c.b = 0 /\ dev.zeros = 1 -> ToBitbang(c.new)
         [] c.b = 0 /\ dev.zeros > 1 -> /\ dev' = [dev EXCEPT !.zeros = @ - 1]
                                        /\ UNCHANGED rx
         [] c.b = 13                 -> Answer(Text(<<"B">>, c.new)) /\ UNCHANGED dev
         [] OTHER                    -> UNCHANGED <<dev, rx>>

Bitbang(c) ==
    /\ dev.mode = "bitbang"
    /\ CASE c.b = 0  -> ToBitbang(c.new)
         [] c.b = 1  -> /\ dev' = [dev EXCEPT !.mode = "spi", !.cs = "high"]
                        /\ Answer(Text(SPI1, c.new))
         [] c.b = 2  -> /\ dev' = [dev EXCEPT !.mode = "i2c"] /\ Answer(Text(I2C1, c.new))
         [] c.b = 15 -> /\ dev' = [dev EXCEPT !.mode = "term", !.zeros = Zeros]
                        /\ Answer(Text(<<"B">>, c.new))
         [] OTHER    -> UNCHANGED <<dev, rx>>

(* Any byte of the data may be equal to the answer 01h.                      *)
DataOf(n, new, v) == [i \in 1 .. n |-> Byte(v, new)]

InSPI(c) ==
    /\ dev.mode = "spi"
    /\ CASE c.b = 0 -> ToBitbang(c.new)
         [] c.b \in {2, 3} -> /\ dev' = [dev EXCEPT !.cs = IF c.b = 2 THEN "low" ELSE "high"]
                              /\ Answer(Ack(c.new))
         [] c.b = 5 -> /\ \E v \in {"one", "zero"} :
                              Answer((IF dev.bug /\ c.n = 0 THEN << >> ELSE Ack(c.new))
                                     \o DataOf(c.n, c.new, v))
                       /\ UNCHANGED dev
         [] c.b >= 64 -> Answer(Ack(c.new)) /\ UNCHANGED dev
         [] OTHER -> UNCHANGED <<dev, rx>>

InI2C(c) ==
    /\ dev.mode = "i2c"
    /\ CASE c.b = 0 -> ToBitbang(c.new)
         [] c.b = 4 -> Answer(DataOf(1, c.new, "zero")) /\ UNCHANGED dev
         [] c.b = 8 -> /\ \E v \in {"one", "zero"}, acked \in BOOLEAN :
                              Answer(IF acked THEN Ack(c.new) \o DataOf(c.n, c.new, v)
                                     ELSE <<Byte("zero", c.new)>>)
                       /\ UNCHANGED dev
         [] c.b = 16 -> /\ \E v \in {"one", "zero"} : Answer(Ack(c.new) \o DataOf(1, c.new, v))
                        /\ UNCHANGED dev
         [] c.b \in {2, 3, 6} \/ c.b >= 64 -> Answer(Ack(c.new)) /\ UNCHANGED dev
         [] OTHER -> UNCHANGED <<dev, rx>>

DeviceStep ==
    /\ tx # << >>
    /\ tx' = Tail(tx)
    /\ Terminal(Head(tx)) \/ Bitbang(Head(tx)) \/ InSPI(Head(tx)) \/ InI2C(Head(tx))
    /\ UNCHANGED <<dll, host, run, ent, mem, out, dirty>>

(* A long read over the bus may take longer than any read of the line waits;    *)
(* a write is one page at most, 70 ms at the lowest speed.                   *)
Slow == tx # << >> /\ Head(tx).b \in {5, 8} /\ Head(tx).n > 0
MayTimeOut == tx = << >> \/ Slow \/ Late

(* ComReadBuff: the bytes a bounded read of n bytes may give.                *)
Given(n) == IF Len(rx) >= n THEN n ELSE Len(rx)
ComRead(n) == Len(rx) >= n \/ MayTimeOut
Taken(n) == rx' = SubSeq(rx, Given(n) + 1, Len(rx))

-----------------------------------------------------------------------------
(* The steps of a call.                                                     *)
Now == Head(run.todo)
Running(s) == run.todo # << >> /\ Now.s = s
Rest == Tail(run.todo)
Continue(todo) == run' = [run EXCEPT !.todo = todo]
Advance == Continue(Rest)

Call(c) ==
    /\ run.todo = << >>
    /\ \/ c.k \in {"open", "close"}
       \/ host.open /\ host.i2c = (c.k # "spi") /\ dirty <= MaxDirty
    /\ run' = [call |-> c, todo |-> Program(c)]
    /\ out' = [NoOut EXCEPT !.call = c]
    /\ mem' = Aged(mem) /\ tx' = Aged(tx) /\ rx' = Aged(rx)
    /\ ent' = [recv |-> NoByte, at |-> 0, got |-> 0]
    /\ dirty' = IF dirty \in 1 .. MaxDirty THEN dirty + 1 ELSE dirty
    /\ UNCHANGED <<dll, host, dev>>

ComWrite ==
    /\ Running("send") /\ Len(tx) < MaxQueue
    /\ tx' = Append(tx, [b |-> Now.b, n |-> Now.n, new |-> TRUE])
    /\ Advance
    /\ UNCHANGED <<dll, host, ent, mem, out, rx, dev, dirty>>

ComReadBuff ==
    /\ Running("read") /\ ComRead(Now.n) /\ Taken(Now.n) /\ Advance
    /\ UNCHANGED <<dll, host, ent, mem, out, tx, dev, dirty>>

(* Reads until a read gives nothing.                                        *)
FlushCOMIn ==
    /\ Running("flush") /\ MayTimeOut /\ rx' = << >> /\ Advance
    /\ UNCHANGED <<dll, host, ent, mem, out, tx, dev, dirty>>

(* recv_byte of EnterBINMode keeps what answered a line end.                  *)
Prompt ==
    /\ Running("prompt") /\ ComRead(1) /\ Taken(1) /\ Advance
    /\ ent' = [ent EXCEPT !.recv = IF rx = << >> THEN NoByte ELSE Head(rx)]
    /\ UNCHANGED <<dll, host, mem, out, tx, dev, dirty>>

(* One round of the loop of EnterBINMode, EnterSPIMode and EnterI2CMode: at    *)
(* its top the request is sent again if the last read gave nothing, and a      *)
(* byte is read unless the last one is already the first of the answer.        *)
Word == IF Now.b = 0 THEN BBIO1 ELSE IF Now.b = 1 THEN SPI1 ELSE I2C1

EnterBegin ==
    /\ Running("enter") /\ ent.at = 0
    /\ ent' = [recv |-> IF Now.b = 0 THEN ent.recv ELSE NoByte, at |-> 1, got |-> Now.n]
    /\ UNCHANGED <<dll, host, run, mem, out, tx, rx, dev, dirty>>

EnterAgain ==
    /\ Running("enter") /\ ent.at = 1 /\ ent.got = 0 /\ Len(tx) < MaxQueue
    /\ tx' = Append(tx, [b |-> Now.b, n |-> 0, new |-> TRUE])
    /\ ent' = [ent EXCEPT !.got = 1]
    /\ UNCHANGED <<dll, host, run, mem, out, rx, dev, dirty>>

EnterHave ==
    /\ Running("enter") /\ ent.at = 1 /\ ent.got = 1 /\ ent.recv.v = Word[1]
    /\ ent' = [ent EXCEPT !.at = 2]
    /\ UNCHANGED <<dll, host, run, mem, out, tx, rx, dev, dirty>>

(* Mutant: what a read gave does not replace bytes_received.                 *)
GotEver == 1

GotAfter == Given(1)

EnterRead ==
    LET byte == IF rx = << >> THEN ent.recv ELSE Head(rx)
        match == byte.v = Word[ent.at]
        done == match /\ ent.at = Len(Word)
    IN  /\ Running("enter")
        /\ ent.at > 1 \/ (ent.at = 1 /\ ent.got = 1 /\ ent.recv.v # Word[1])
        /\ ComRead(1) /\ Taken(1)
        /\ ent' = [recv |-> byte, got |-> GotAfter,
                   at |-> IF done THEN 0 ELSE IF match THEN ent.at + 1 ELSE 1]
        /\ IF done THEN Advance ELSE UNCHANGED run
        /\ UNCHANGED <<dll, host, mem, out, tx, dev, dirty>>

(* bhl_asprog_spi_cs_low and bhl_asprog_spi_cs_high.                         *)
(* Mutants: the command byte is kept as the level; the answer is not read.      *)
LevelIsCommand == Now.b
CsUnanswered == <<Send(Now.b)>>

CsLevel == IF Now.b = 2 THEN 0 ELSE 1
CsTransfer == <<Send(Now.b), Read(1)>>

ChipSelect ==
    /\ Running("cs")
    /\ IF dll.cs = CsLevel THEN Advance /\ UNCHANGED dll
       ELSE /\ Continue(CsTransfer \o Rest)
            /\ dll' = [dll EXCEPT !.cs = CsLevel]
    /\ UNCHANGED <<host, ent, mem, out, tx, rx, dev, dirty>>

EndFastGate ==
    /\ Running("gate")
    /\ IF dll.endFast THEN Continue(OnFailure) ELSE Advance
    /\ UNCHANGED <<dll, host, ent, mem, out, tx, rx, dev, dirty>>

(* The loops that wait for the answer 01h.  The one for SPI looks at end_fast  *)
(* before a read, the one for I2C after it.                                *)
Cancelled ==
    /\ Continue(OnFailure) /\ dirty' = 1

AwaitSPI ==
    /\ Running("await")
    /\ IF dll.endFast
       THEN Cancelled /\ UNCHANGED <<rx, mem>>
       ELSE /\ ComRead(1) /\ Taken(1)
            /\ mem' = [mem EXCEPT ![1] = IF rx = << >> THEN NoByte ELSE Head(rx)]
            /\ IF mem'[1].v = "one" THEN Advance ELSE UNCHANGED run
            /\ UNCHANGED dirty
    /\ UNCHANGED <<dll, host, ent, out, tx, dev>>

AwaitI2C ==
    /\ Running("awaiti2c")
    /\ ComRead(1) /\ Taken(1)
    /\ IF dll.endFast THEN Cancelled
       ELSE /\ IF rx # << >> /\ Head(rx).v = "one" THEN Advance ELSE UNCHANGED run
            /\ UNCHANGED dirty
    /\ UNCHANGED <<dll, host, ent, mem, out, tx, dev>>

(* The data go over what memaux held; what a short read leaves out stays old.   *)
Overlaid(n) == [i \in DOMAIN mem |-> IF i <= Given(n) THEN rx[i] ELSE mem[i]]

ReadData ==
    /\ Running("data") /\ ComRead(Now.n) /\ Taken(Now.n)
    /\ mem' = Overlaid(Now.n)
    /\ Advance
    /\ UNCHANGED <<dll, host, ent, out, tx, dev, dirty>>

(* The first byte of an answer that a local array of zeros receives.          *)
ReadByte ==
    /\ Running("readbyte") /\ ComRead(Now.n) /\ Taken(Now.n)
    /\ mem' = [mem EXCEPT ![1] = IF rx = << >> THEN NoByte ELSE Head(rx)]
    /\ Advance
    /\ UNCHANGED <<dll, host, ent, out, tx, dev, dirty>>

(* The backend copies what it asked for, or passes the failure on.            *)
Wanted(c) == IF c.k \in {"spi", "i2c"} THEN c.n ELSE IF c.k = "readbyte" THEN 1 ELSE 0

Return ==
    /\ Running("return")
    /\ out' = [call |-> run.call, ok |-> Now.b = 1,
               data |-> IF Now.b = 1 THEN SubSeq(mem, 1, Wanted(run.call)) ELSE << >>]
    /\ Advance
    /\ UNCHANGED <<dll, host, ent, mem, tx, rx, dev, dirty>>

-----------------------------------------------------------------------------
(* bhl_asprog_reset_once and the init calls.                                *)
Setup(c) ==
    IF c.p = "spi" THEN bhl_spi_setup
    ELSE bhl_i2c_setup \o (IF c.scan THEN bhl_i2c_scan \o <<Close>> ELSE << >>)

Scanning(c) == c.p = "i2c" /\ c.scan

(* Mutants: an open port is taken for the right one; last_status is kept.       *)
StillUpAny(c, last, once, com) == once /\ com /\ ~Scanning(c)
CsKept(c) == dll.cs

CsForgotten(c) == IF c.p = "spi" THEN 105 ELSE dll.cs
StillUp(c, last, once, com) == once /\ last = c.p /\ com /\ ~Scanning(c)

InitCall ==
    /\ Running("init")
    /\ \E spibug, opens \in BOOLEAN :
        LET c == run.call
            up == StillUp(c, dll.last, ~host.resetEach, dll.com)
        IN  /\ spibug => dev.bug
            /\ host' = [host EXCEPT !.open = FALSE]
            /\ dll' = [dll EXCEPT !.resetOnce = ~host.resetEach, !.endFast = FALSE,
                                  !.spibug = IF c.p = "spi" THEN spibug ELSE @,
                                  !.cs = CsForgotten(c),
                                  !.last = c.p, !.com = up \/ opens]
            /\ Continue(IF up THEN <<Step("opened", 1, 0)>>
                        ELSE IF opens THEN Setup(c) \o <<Step("opened", 0, 0)>>
                        ELSE <<Step("isclosed", 0, 0)>>)
    /\ UNCHANGED <<ent, mem, out, tx, rx, dev, dirty>>

(* The call of init is over; after a scan the backend leaves it closed.        *)
Opened ==
    /\ Running("opened")
    /\ host' = [host EXCEPT !.open = ~Scanning(run.call), !.i2c = run.call.p = "i2c"]
    /\ dirty' = IF Now.b = 1 THEN dirty ELSE 0
    /\ Advance
    /\ UNCHANGED <<dll, ent, mem, out, tx, rx, dev>>

(* bhl_asprog_spi_close and bhl_asprog_i2c_close.                            *)
CloseCall ==
    /\ Running("close")
    /\ Continue((IF dll.com THEN CloseProgram ELSE << >>) \o Rest)
    /\ UNCHANGED <<dll, host, ent, mem, out, tx, rx, dev, dirty>>

ComClose ==
    /\ Running("closed") /\ dll' = [dll EXCEPT !.com = FALSE] /\ Advance
    /\ UNCHANGED <<host, ent, mem, out, tx, rx, dev, dirty>>

IsClosed ==
    /\ Running("isclosed") /\ host' = [host EXCEPT !.open = FALSE] /\ Advance
    /\ UNCHANGED <<dll, ent, mem, out, tx, rx, dev, dirty>>

(* end_f: ESC held down, seen by the thread between any two steps of a call.  *)
Escape ==
    /\ ~dll.endFast /\ run.todo # << >>
    /\ dll' = [dll EXCEPT !.endFast = TRUE]
    /\ UNCHANGED <<host, run, ent, mem, out, tx, rx, dev, dirty>>

(* The operator may change the menu item at any time between calls.           *)
MenuResetEach ==
    /\ run.todo = << >>
    /\ host' = [host EXCEPT !.resetEach = ~@]
    /\ UNCHANGED <<dll, run, ent, mem, out, tx, rx, dev, dirty>>

HostStep ==
    \/ ComWrite \/ ComReadBuff \/ FlushCOMIn \/ Prompt
    \/ EnterBegin \/ EnterAgain \/ EnterHave \/ EnterRead
    \/ ChipSelect \/ EndFastGate \/ AwaitSPI \/ AwaitI2C \/ ReadData \/ ReadByte \/ Return
    \/ InitCall \/ Opened \/ CloseCall \/ ComClose \/ IsClosed

Next ==
    \/ \E c \in Calls : Call(c)
    \/ HostStep
    \/ DeviceStep
    \/ Escape
    \/ MenuResetEach

Spec == Init /\ [][Next]_vars

(* The device answers, the library goes on, and who sees a call wait for an    *)
(* answer that does not come holds ESC down.                                *)
Waiting == (Running("await") \/ Running("awaiti2c")) /\ tx = << >> /\ rx = << >>
FairSpec ==
    Spec /\ WF_vars(HostStep) /\ WF_vars(DeviceStep) /\ WF_vars(Waiting /\ Escape)

-----------------------------------------------------------------------------
TypeOK ==
    /\ dll \in [com : BOOLEAN, last : {"none", "spi", "i2c"}, resetOnce : BOOLEAN,
                cs : {0, 1, 105}, endFast : BOOLEAN, spibug : BOOLEAN]
    /\ host \in [open : BOOLEAN, i2c : BOOLEAN, resetEach : BOOLEAN]
    /\ ent \in [recv : [v : Value, new : BOOLEAN], at : 0 .. 5, got : {0, 1}]
    /\ mem \in [1 .. MaxSize -> [v : Value, new : BOOLEAN]]
    /\ \A i \in DOMAIN rx : rx[i] \in [v : Value, new : BOOLEAN]
    /\ dev.mode \in {"term", "bitbang", "spi", "i2c"} /\ dev.zeros \in 1 .. Zeros
    /\ dirty \in 0 .. MaxDirty + 1

Idle == run.todo = << >>

(* A backend that believes it is open has an open port with the Bus Pirate in  *)
(* the mode of its protocol, whatever was open before and however it was left   *)
(* (bhl_asprog_spi_init, bhl_asprog_i2c_init: the early return of reset_once).  *)
OpenMeansReady ==
    Idle /\ host.open =>
        /\ dll.com /\ dev.mode = dll.last
        /\ host.i2c = (dll.last = "i2c")

(* The chip select the library believes it has set, and therefore does not set *)
(* again, is the one the part sees (last_status of bhl_asprog_spi_cs_low).      *)
ChipSelectBelieved ==
    Idle /\ host.open /\ ~host.i2c /\ tx = << >> /\ dll.cs # 105 =>
        dev.cs = IF dll.cs = 0 THEN "low" ELSE "high"

(* A call that returns data returns the bytes the device sent for it, not those *)
(* of an earlier call, nor an answer shifted by one: in every session that was  *)
(* not cancelled since its last full initialisation.                        *)
DataInStep ==
    Idle /\ out.ok /\ dirty = 0 => \A i \in DOMAIN out.data : out.data[i].new

(* Every call comes to an end.                                              *)
CallsReturn == ~Idle ~> Idle
=============================================================================
