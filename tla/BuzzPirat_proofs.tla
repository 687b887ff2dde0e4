-------------------------- MODULE BuzzPirat_proofs --------------------------
(* Theorems about the Bus Pirate helper, for every length of a read, depth of *)
(* the line and number of calls after a cancelled one, where no answer comes   *)
(* after the time limit of its read.                                        *)
EXTENDS BuzzPirat, SequenceTheorems, TLAPS

-----------------------------------------------------------------------------
(* The types.                                                               *)
Bytes == [v : Value, new : BOOLEAN]
Commands == [b : Nat, n : Nat, new : BOOLEAN]
StepNames == {"send", "read", "flush", "gate", "cs", "return", "prompt", "enter", "close",
              "closed", "await", "awaiti2c", "data", "readbyte", "init", "opened", "isclosed"}
Steps == [s : StepNames, b : Nat, n : Nat]

BpTypes ==
    /\ dll \in [com : BOOLEAN, last : {"none", "spi", "i2c"}, resetOnce : BOOLEAN,
                cs : {0, 1, 105}, endFast : BOOLEAN, spibug : BOOLEAN]
    /\ host \in [open : BOOLEAN, i2c : BOOLEAN, resetEach : BOOLEAN]
    /\ run \in [call : Calls \cup {NoCall}, todo : Seq(Steps)]
    /\ ent \in [recv : Bytes, at : 0 .. 5, got : {0, 1}]
    /\ mem \in [1 .. MaxSize -> Bytes]
    /\ tx \in Seq(Commands) /\ rx \in Seq(Bytes)
    /\ dev \in [mode : {"term", "bitbang", "spi", "i2c"}, zeros : 1 .. Zeros,
                cs : {"high", "low"}, bug : BOOLEAN]
    /\ dirty \in Nat
    /\ dll.spibug => dev.bug

-----------------------------------------------------------------------------
(* What the line holds, and what may come of it.                             *)
Holds(bs) == \A i \in DOMAIN tx : tx[i].b \in bs
Without(bs) == \A i \in DOMAIN tx : tx[i].b \notin bs
Session == dev.mode \in {"spi", "i2c"} /\ Without({0})

(* Only BBIO1 has the letter I: to read one is to know that a 0 was taken.      *)
NoI == \A i \in DOMAIN rx : rx[i].v # "I"

StartLine == Session \/ Without({5, 8})
PreLine == NoI /\ (Session \/ Holds({13, 15, 35}))
EnterLine ==
    /\ \A i, j \in DOMAIN tx : i < j /\ tx[i].b = 0 => tx[j].b = 0
    /\ dev.mode \in {"spi", "i2c"} \/ Holds({0, 13, 15, 35})
    /\ ~NoI \/ ent.recv.v = "I" \/ ent.at > 3 => dev.mode = "bitbang" /\ Holds({0})
BitLine == dev.mode = "bitbang" /\ Holds({0})
ModeOf(b) == IF b = 1 THEN "spi" ELSE "i2c"
ModeLine(b) ==
    /\ Holds({b}) /\ dev.mode \in {"bitbang", ModeOf(b)}
    /\ dev.mode = "bitbang" =>
           rx = << >> /\ ent.at <= 1
              /\ (ent.at = 1 => ent.recv.v # (IF b = 1 THEN "S" ELSE "I"))
UpLine(p) == dev.mode = p /\ Without({0, 5, 8})

-----------------------------------------------------------------------------
(* The places of open and close.                                            *)
Opened0 == Step("opened", 0, 0)
Opened1 == Step("opened", 1, 0)
InitStep == Step("init", 0, 0)
ClosedStep == Step("isclosed", 0, 0)

Setting(c) == Setup(c) \o <<Opened0>>
Closing(x) == CloseProgram \o <<x>>
(* What may follow a Close in this call.                                     *)
After(c) == IF c.k = "close" THEN {ClosedStep}
            ELSE IF Scanning(c) THEN {InitStep, Opened0} ELSE {InitStep}

(* What the line holds at step k of a program that brings the device into     *)
(* bitbang mode and then into the mode of its protocol.                       *)
LineAt(k, p) ==
    CASE k \in {1, 2, 8, 9, 10} -> StartLine
      [] k \in 3 .. 6 \cup 11 .. 14 -> PreLine
      [] k \in {7, 15} -> EnterLine
      [] k \in {16, 17} -> BitLine
      [] k = 18 -> ModeLine(IF p = "spi" THEN 1 ELSE 2)
      [] OTHER -> UpLine(p)

AtSetting(k) ==
    /\ run.call.k = "open" /\ k \in 1 .. Len(Setting(run.call))
    /\ run.todo = SubSeq(Setting(run.call), k, Len(Setting(run.call)))
SettingInv(k) ==
    /\ AtSetting(k) /\ LineAt(k, run.call.p)
    /\ dll.com /\ dll.last = run.call.p /\ ~host.open
    /\ run.call.p = "spi" => dll.cs = 105
    /\ k = Len(Setting(run.call)) => ~Scanning(run.call) /\ tx = << >> /\ rx = << >>

AtClosing(x, k) ==
    /\ run.call.k \in {"open", "close"} /\ x \in After(run.call)
    /\ k \in 1 .. 9 /\ run.todo = SubSeq(Closing(x), k, 10)
ClosingInv(x, k) ==
    /\ AtClosing(x, k) /\ LineAt(k, "none") /\ dll.com
    /\ x = Opened0 => ~host.open

(* A line with nothing on it: a write of no byte to a device that does not      *)
(* answer one may still be in it.                                           *)
Silent(c) == dll.last = "spi" /\ c.b = 5 /\ c.n = 0 /\ dev.bug
Quiet == rx = << >> /\ \A i \in DOMAIN tx : Silent(tx[i])

(* The last level that was sent, or is still to be taken from the line.         *)
Level(b) == IF b = 2 THEN 0 ELSE 1
LevelKept ==
    dll.cs # 105 =>
        /\ \A i \in DOMAIN tx :
               tx[i].b \in {2, 3} /\ (\A j \in DOMAIN tx : j > i => tx[j].b \notin {2, 3})
                   => Level(tx[i].b) = dll.cs
        /\ (Without({2, 3}) => dev.cs = IF dll.cs = 0 THEN "low" ELSE "high")

(* The session is as the library believes it.                                *)
Ready ==
    IF dll.com THEN /\ Session /\ dev.mode = dll.last
                    /\ dll.last = "spi" => LevelKept
    ELSE StartLine
Clean == dll.com /\ dirty = 0

AtShort ==
    \/ run.call.k = "open" /\ run.todo \in {<<InitStep>>, <<Close, InitStep>>}
    \/ run.call.k \in {"open", "close"} /\ run.todo = <<ClosedStep>>
    \/ run.call.k = "close" /\ run.todo = <<Close, ClosedStep>>
    \/ run.call.k = "open" /\ run.todo = <<Opened1>> /\ dll.com /\ dll.last = run.call.p
       /\ ~Scanning(run.call)
    \/ run.call.k = "open" /\ run.todo = <<Opened0>> /\ Scanning(run.call) /\ ~dll.com
ShortInv == AtShort /\ Ready /\ (Clean => Quiet)

-----------------------------------------------------------------------------
(* The places of the other calls.                                           *)
Ending(c) == IF c.k = "spi" /\ c.release THEN <<CsHigh, Done>> ELSE <<Done>>
DataPart(c) == IF c.n > 0 THEN <<Step("data", 0, c.n)>> \o Ending(c) ELSE Ending(c)
AwaitPart(c) ==
    IF c.k = "i2c" THEN <<Step("awaiti2c", 0, 0)>> \o DataPart(c)
    ELSE IF c.n = 0 /\ dll.spibug THEN DataPart(c)
    ELSE <<Step("await", 0, 0)>> \o DataPart(c)
CommandPart(c) == <<SendFor(IF c.k = "spi" THEN 5 ELSE 8, c.n)>> \o AwaitPart(c)

Renewed(c) == \A i \in 1 .. Wanted(c) : mem[i].new

(* Where a call waits for nothing.                                           *)
QuietPlaces(c) ==
    IF c.k = "spi" THEN {<<CsLow, Gate>> \o CommandPart(c), <<Gate>> \o CommandPart(c),
                         CommandPart(c), <<CsHigh, Fail>>, <<Fail>>}
    ELSE IF c.k = "i2c" THEN {<<Gate>> \o CommandPart(c), CommandPart(c), <<Fail>>}
    ELSE IF c.k = "start" THEN {<<Gate, Send(2), Read(2), Done>>, <<Send(2), Read(2), Done>>, <<Fail>>}
    ELSE IF c.k = "stop" THEN {<<Gate, Send(3), Read(2), Done>>, <<Send(3), Read(2), Done>>, <<Fail>>}
    ELSE IF c.k = "readbyte"
    THEN {<<Gate, Send(4), Send(6), Step("readbyte", 0, 3), Done>>,
          <<Send(4), Send(6), Step("readbyte", 0, 3), Done>>, <<Fail>>}
    ELSE {<<Gate, Send(16), Read(3), Done>>, <<Send(16), Read(3), Done>>, <<Fail>>}
EndPlaces(c) == {Ending(c), <<Done>>}

(* One command sent, or its answer of at most n bytes.                        *)
ReadLine(n) ==
    /\ rx # << >> => tx = << >>
    /\ Len(rx) <= n
    /\ \A i \in DOMAIN tx : i < Len(tx) => Silent(tx[i])
    /\ \A i \in DOMAIN tx : Silent(tx[i]) \/ tx[i].b \in {2, 3} \/ (tx[i].b = 16 /\ n = 3)
ByteLine(m) ==
    /\ Len(tx) + Len(rx) = m
    /\ \A i \in DOMAIN tx : tx[i].b \in {4, 6} /\ tx[i].new
    /\ \A i \in DOMAIN rx : rx[i].new
Sent(c) == [b |-> IF c.k = "spi" THEN 5 ELSE 8, n |-> c.n, new |-> TRUE]
AwaitLine(c) ==
    \/ /\ rx = << >>
       /\ \A i \in DOMAIN tx : Silent(tx[i]) \/ (i = Len(tx) /\ tx[i] = Sent(c))
    \/ /\ tx = << >> /\ Len(rx) = c.n + 1 /\ rx[1].v = "one"
       /\ \A i \in DOMAIN rx : rx[i].new
    \/ tx = << >> /\ Len(rx) = 1 /\ rx[1].v # "one"
DataLine(c) == tx = << >> /\ Len(rx) = c.n /\ \A i \in DOMAIN rx : rx[i].new

(* The transfers of the chip select, and what follows them.                   *)
CsRests(c) == {<<Gate>> \o CommandPart(c), <<Done>>, <<Fail>>}

LevelOk == dll.last = "spi" => LevelKept

InTransfer(c) ==
    /\ c.k \notin {"open", "close", "none"}
    /\ dll.com /\ host.open /\ host.i2c = (c.k # "spi") /\ host.i2c = (dll.last = "i2c")
    /\ Session /\ dev.mode = dll.last

AtQuiet(c, t) == t \in QuietPlaces(c) /\ (Clean => Quiet) /\ LevelOk
AtEnd(c, t) == t \in EndPlaces(c) /\ (Clean => Quiet /\ Renewed(c)) /\ LevelOk
AtCs(c, t) ==
    /\ c.k = "spi"
    /\ \E b \in {2, 3}, r \in CsRests(c) :
        /\ Clean /\ r = <<Done>> => Renewed(c)
        /\ \/ t = <<Send(b), Read(1)>> \o r /\ dll.cs = Level(b) /\ (Clean => Quiet)
           \/ t = <<Read(1)>> \o r /\ LevelKept /\ (Clean => ReadLine(1))
AtAwait(c, t) ==
    /\ c.k \in {"spi", "i2c"} /\ AwaitPart(c) # DataPart(c) /\ t = AwaitPart(c)
    /\ (Clean => AwaitLine(c)) /\ LevelOk
AtData(c, t) ==
    c.k \in {"spi", "i2c"} /\ c.n > 0 /\ t = DataPart(c) /\ (Clean => DataLine(c)) /\ LevelOk
AtAnswer(c, t) ==
    \/ c.k \in {"start", "stop"} /\ t = <<Read(2), Done>> /\ (Clean => ReadLine(2))
    \/ c.k = "writebyte" /\ t = <<Read(3), Done>> /\ (Clean => ReadLine(3))
AtByte(c, t) ==
    /\ c.k = "readbyte"
    /\ \/ t = <<Send(6), Step("readbyte", 0, 3), Done>> /\ (Clean => ByteLine(1))
       \/ t = <<Step("readbyte", 0, 3), Done>> /\ (Clean => ByteLine(2))

AtTransfer(c, t) ==
    \/ AtQuiet(c, t) \/ AtEnd(c, t) \/ AtCs(c, t) \/ AtAwait(c, t) \/ AtData(c, t)
    \/ AtAnswer(c, t) \/ AtByte(c, t)

TransferInv == InTransfer(run.call) /\ AtTransfer(run.call, run.todo)

IdleInv ==
    /\ run.todo = << >> /\ Ready /\ (Clean => Quiet)
    /\ host.open => dll.com /\ host.i2c = (dll.last = "i2c")
    /\ DataInStep

EntInv ==
    /\ ~Running("enter") => ent.at = 0
    /\ ent.at = 0 => ent.recv.v # "I"
    /\ Running("enter") => ent.at <= Len(Word)

(* A call that goes on has returned nothing yet.                              *)
OutInv == run.todo # << >> => ~out.ok

Places ==
    \/ IdleInv \/ ShortInv \/ TransferInv
    \/ \E k \in 1 .. 31 : SettingInv(k)
    \/ \E x \in After(run.call), k \in 1 .. 9 : ClosingInv(x, k)

BpInv == BpTypes /\ EntInv /\ OutInv /\ Places

-----------------------------------------------------------------------------
(* Sequences.                                                               *)
LEMMA BpCons ==
    ASSUME NEW S, NEW x \in S, NEW s \in Seq(S)
    PROVE  /\ <<x>> \o s \in Seq(S) /\ <<x>> \o s # << >>
           /\ Head(<<x>> \o s) = x /\ Tail(<<x>> \o s) = s
OBVIOUS

LEMMA BpAck ==
    ASSUME NEW new \in BOOLEAN
    PROVE  /\ Ack(new) \in Seq(Bytes) /\ Len(Ack(new)) = 1
           /\ \A i \in DOMAIN Ack(new) : Ack(new)[i] = Byte("one", new)
<1> DEFINE x == Byte("one", new)
<1>1. x \in Bytes
  BY DEF Byte, Bytes, Value
<1> HIDE DEF x
<1>2. <<x>> \in Seq(Bytes) /\ Len(<<x>>) = 1 /\ \A i \in DOMAIN <<x>> : <<x>>[i] = x
  BY <1>1
<1> QED BY <1>2 DEF Ack, x

LEMMA BpData ==
    ASSUME NEW n \in Nat, NEW new \in BOOLEAN, NEW v \in Value
    PROVE  /\ DataOf(n, new, v) \in Seq(Bytes) /\ Len(DataOf(n, new, v)) = n
           /\ \A i \in DOMAIN DataOf(n, new, v) : DataOf(n, new, v)[i] = Byte(v, new)
<1> DEFINE x == Byte(v, new)
<1>1. x \in Bytes
  BY DEF Byte, Bytes
<1> HIDE DEF x
<1>2. /\ [i \in 1 .. n |-> x] \in Seq(Bytes) /\ Len([i \in 1 .. n |-> x]) = n
      /\ \A j \in DOMAIN [i \in 1 .. n |-> x] : [i \in 1 .. n |-> x][j] = x
  BY <1>1
<1> QED BY <1>2 DEF DataOf, x

LEMMA BpText ==
    ASSUME NEW new \in BOOLEAN, NEW w \in Seq(Value)
    PROVE  /\ Text(w, new) \in Seq(Bytes) /\ Len(Text(w, new)) = Len(w)
           /\ \A i \in DOMAIN Text(w, new) :
                  i \in DOMAIN w /\ Text(w, new)[i].v = w[i] /\ Text(w, new)[i].new = new
<1>1. DOMAIN w = 1 .. Len(w) /\ Len(w) \in Nat /\ \A i \in DOMAIN w : w[i] \in Value
  OBVIOUS
<1>2. Text(w, new) \in [1 .. Len(w) -> Bytes]
  BY <1>1 DEF Text, Byte, Bytes
<1> QED BY <1>1, <1>2 DEF Text, Byte

LEMMA BpWords ==
    /\ BBIO1 \in Seq(Value) /\ SPI1 \in Seq(Value) /\ I2C1 \in Seq(Value)
BY DEF BBIO1, SPI1, I2C1, Value

LEMMA BpPrompt ==
    ASSUME NEW new \in BOOLEAN
    PROVE  /\ Text(<<"B">>, new) \in Seq(Bytes)
           /\ \A i \in DOMAIN Text(<<"B">>, new) :
                  Text(<<"B">>, new)[i].new = new /\ Text(<<"B">>, new)[i].v = "B"
<1> DEFINE w == <<"B">>
<1>1. w \in Seq(Value) /\ \A i \in DOMAIN w : w[i] = "B"
  BY DEF Value
<1> HIDE DEF w
<1>2. /\ Text(w, new) \in Seq(Bytes)
      /\ \A i \in DOMAIN Text(w, new) : Text(w, new)[i].new = new /\ Text(w, new)[i].v = "B"
  BY <1>1, BpText
<1> QED BY <1>2 DEF w

LEMMA BpConcatBytes ==
    ASSUME NEW s, s \in Seq(Bytes), NEW t, t \in Seq(Bytes)
    PROVE  /\ s \o t \in Seq(Bytes) /\ Len(s \o t) = Len(s) + Len(t)
           /\ \A i \in 1 .. Len(s) + Len(t) :
                  (s \o t)[i] = IF i <= Len(s) THEN s[i] ELSE t[i - Len(s)]
BY ConcatProperties

(* An answer 01h and the data after it.                                       *)
LEMMA BpAcked ==
    ASSUME NEW k \in Seq(Bytes), NEW d \in Seq(Bytes), NEW n \in Nat, Len(k) = 1, Len(d) = n,
           NEW x, NEW y, \A i \in DOMAIN k : k[i] = x, \A i \in DOMAIN d : d[i] = y
    PROVE  /\ k \o d \in Seq(Bytes) /\ Len(k \o d) = n + 1 /\ (k \o d)[1] = x
           /\ \A i \in DOMAIN (k \o d) : (k \o d)[i] \in {x, y}
<1>0. /\ k \o d \in Seq(Bytes) /\ Len(k \o d) = Len(k) + Len(d)
      /\ \A i \in 1 .. Len(k) + Len(d) :
             (k \o d)[i] = IF i <= Len(k) THEN k[i] ELSE d[i - Len(k)]
  BY BpConcatBytes
<1>1. k \o d \in Seq(Bytes) /\ Len(k \o d) = n + 1 /\ DOMAIN k = 1 .. 1 /\ DOMAIN d = 1 .. n
  BY <1>0
<1>2. \A i \in 1 .. n + 1 : (k \o d)[i] = IF i = 1 THEN k[i] ELSE d[i - 1]
  BY <1>0
<1>3. DOMAIN (k \o d) = 1 .. n + 1
  BY <1>1
<1>4. ASSUME NEW i \in 1 .. n + 1 PROVE (k \o d)[i] = IF i = 1 THEN x ELSE y
  <2>1. CASE i = 1
    BY <2>1, <1>1, <1>2
  <2>2. CASE i # 1
    <3>1. i - 1 \in 1 .. n
      BY <2>2
    <3> QED BY <2>2, <3>1, <1>1, <1>2
  <2> QED BY <2>1, <2>2
<1> QED BY <1>1, <1>3, <1>4

(* What the device makes of a command.                                        *)
ZeroCounts == 1 .. Zeros
DevType == [mode : {"term", "bitbang", "spi", "i2c"}, zeros : ZeroCounts,
            cs : {"high", "low"}, bug : BOOLEAN]
AnswersWith(c, a) ==
    /\ rx' = rx \o a /\ dev' \in DevType /\ dev'.bug = dev.bug
    /\ \A i \in DOMAIN a : a[i].new = c.new
    /\ c.b # 0 /\ dev.mode \in {"spi", "i2c"} =>
           dev'.mode = dev.mode /\ \A i \in DOMAIN a : a[i].v # "I"
    /\ c.b = 0 => \/ dev'.mode = "bitbang"
                  \/ dev.mode = "term" /\ dev'.mode = "term" /\ a = << >>
    /\ c.b \in {13, 15, 35} /\ dev.mode \in {"term", "bitbang"} =>
           dev'.mode \in {"term", "bitbang"} /\ \A i \in DOMAIN a : a[i].v # "I"
    /\ c.b \in {1, 2} /\ dev.mode = "bitbang" => dev'.mode = ModeOf(c.b)
    /\ c.b # 0 /\ dev.mode = "spi" =>
           /\ dev'.cs = IF c.b = 2 THEN "low" ELSE IF c.b = 3 THEN "high" ELSE dev.cs
           /\ c.b \in {2, 3} => Len(a) = 1
           /\ c.b = 5 => IF dev.bug /\ c.n = 0 THEN a = << >>
                         ELSE Len(a) = c.n + 1 /\ a[1].v = "one"
    /\ c.b # 0 /\ dev.mode = "i2c" =>
           /\ c.b \in {2, 3, 4, 6} => Len(a) = 1
           /\ c.b = 16 => Len(a) = 2
           /\ c.b = 8 => \/ Len(a) = c.n + 1 /\ a[1].v = "one"
                         \/ Len(a) = 1 /\ a[1].v # "one"

LEMMA BpDevice ==
    ASSUME BpTypes, DeviceStep
    PROVE  /\ tx # << >> /\ Head(tx) \in Commands /\ tx' = Tail(tx)
           /\ UNCHANGED <<dll, host, run, ent, mem, out, dirty>>
           /\ \E a \in Seq(Bytes) : AnswersWith(Head(tx), a)
<1> DEFINE c == Head(tx)
<1>1. tx # << >> /\ c \in Commands /\ tx' = Tail(tx)
      /\ UNCHANGED <<dll, host, run, ent, mem, out, dirty>>
  BY DEF DeviceStep, BpTypes
<1>2. Terminal(c) \/ Bitbang(c) \/ InSPI(c) \/ InI2C(c)
  BY DEF DeviceStep
<1> HIDE DEF c
<1>3. c.new \in BOOLEAN /\ c.n \in Nat /\ c.b \in Nat
  BY <1>1 DEF Commands
<1>4. dev \in DevType /\ rx \in Seq(Bytes) /\ Zeros \in ZeroCounts
      /\ dev.mode \in {"term", "bitbang", "spi", "i2c"}
  BY BuzzPiratAssumption DEF BpTypes, DevType, ZeroCounts
<1>40. dev.zeros \in Nat \ {0}
  BY BuzzPiratAssumption DEF BpTypes, DevType
<1>5. rx = rx \o << >> /\ << >> \in Seq(Bytes)
  BY <1>4
<1> SUFFICES \E a \in Seq(Bytes) : AnswersWith(c, a)
  BY <1>1 DEF c
<1>6. ASSUME ToBitbang(c.new), c.b = 0
      PROVE  \E a \in Seq(Bytes) : AnswersWith(c, a)
  <2> DEFINE a == Text(BBIO1, c.new)
  <2>1. rx' = rx \o a /\ dev' = [dev EXCEPT !.mode = "bitbang", !.zeros = Zeros]
    BY <1>6 DEF ToBitbang, Answer
  <2>2. a \in Seq(Bytes) /\ \A i \in DOMAIN a : a[i].new = c.new
    BY <1>3, BpText, BpWords
  <2> HIDE DEF a
  <2>4. dev' \in DevType /\ dev'.mode = "bitbang" /\ dev'.bug = dev.bug
    BY <2>1, <1>4 DEF DevType
  <2>5. AnswersWith(c, a)
    BY <2>1, <2>2, <2>4, <1>6 DEF AnswersWith
  <2> QED BY <2>2, <2>5
<1>7. CASE Terminal(c)
  <2>1. CASE c.b = 0 /\ dev.zeros = 1
    BY <2>1, <1>6, <1>7 DEF Terminal
  <2>2. CASE c.b = 0 /\ dev.zeros # 1
    <3>1. dev.zeros > 1 /\ dev' = [dev EXCEPT !.zeros = dev.zeros - 1]
          /\ rx' = rx \o << >> /\ dev.mode = "term"
      BY <1>40, <1>5, <1>7, <2>2 DEF Terminal
    <3>2. dev.zeros - 1 \in ZeroCounts
      BY <3>1, <1>4, <1>40, BuzzPiratAssumption DEF DevType, ZeroCounts
    <3>3. dev' \in DevType /\ dev'.bug = dev.bug /\ dev'.mode = "term"
      BY <3>1, <3>2, <1>4 DEF DevType
    <3>4. AnswersWith(c, << >>)
      BY <3>1, <3>3, <2>2 DEF AnswersWith
    <3> QED BY <3>4, <1>5
  <2>3. CASE c.b = 13
    <3> DEFINE a == Text(<<"B">>, c.new)
    <3>1. rx' = rx \o a /\ dev' = dev /\ dev.mode = "term"
      BY <1>7, <2>3 DEF Terminal, Answer
    <3>2. a \in Seq(Bytes) /\ \A i \in DOMAIN a : a[i].new = c.new /\ a[i].v = "B"
      BY <1>3, BpPrompt
    <3> HIDE DEF a
    <3>3. AnswersWith(c, a)
      BY <3>1, <1>4, <2>3, <3>2 DEF AnswersWith, ModeOf
    <3> QED BY <3>2, <3>3
  <2>4. CASE c.b \notin {0, 13}
    <3>1. dev' = dev /\ rx' = rx \o << >> /\ dev.mode = "term"
      BY <1>7, <1>3, <1>5, <2>4 DEF Terminal
    <3>2. AnswersWith(c, << >>)
      BY <3>1, <1>4, <2>4 DEF AnswersWith
    <3> QED BY <3>2, <1>5
  <2> QED BY <2>1, <2>2, <2>3, <2>4
<1>8. CASE Bitbang(c)
  <2>1. CASE c.b = 0
    BY <2>1, <1>6, <1>8 DEF Bitbang
  <2>2. CASE c.b = 1
    <3> DEFINE a == Text(SPI1, c.new)
    <3>1. rx' = rx \o a /\ dev' = [dev EXCEPT !.mode = "spi", !.cs = "high"] /\ dev.mode = "bitbang"
      BY <1>8, <2>2 DEF Bitbang, Answer
    <3>2. a \in Seq(Bytes) /\ \A i \in DOMAIN a : a[i].new = c.new
      BY <1>3, BpText, BpWords
    <3> HIDE DEF a
    <3>4. dev' \in DevType /\ dev'.mode = "spi" /\ dev'.bug = dev.bug
      BY <3>1, <1>4 DEF DevType
    <3>5. AnswersWith(c, a)
      BY <3>1, <3>2, <3>4, <2>2 DEF AnswersWith, ModeOf
    <3> QED BY <3>2, <3>5
  <2>3. CASE c.b = 2
    <3> DEFINE a == Text(I2C1, c.new)
    <3>1. rx' = rx \o a /\ dev' = [dev EXCEPT !.mode = "i2c"] /\ dev.mode = "bitbang"
      BY <1>8, <2>3 DEF Bitbang, Answer
    <3>2. a \in Seq(Bytes) /\ \A i \in DOMAIN a : a[i].new = c.new
      BY <1>3, BpText, BpWords
    <3> HIDE DEF a
    <3>4. dev' \in DevType /\ dev'.mode = "i2c" /\ dev'.bug = dev.bug
      BY <3>1, <1>4 DEF DevType
    <3>5. AnswersWith(c, a)
      BY <3>1, <3>2, <3>4, <2>3 DEF AnswersWith, ModeOf
    <3> QED BY <3>2, <3>5
  <2>4. CASE c.b = 15
    <3> DEFINE a == Text(<<"B">>, c.new)
    <3>1. rx' = rx \o a /\ dev' = [dev EXCEPT !.mode = "term", !.zeros = Zeros] /\ dev.mode = "bitbang"
      BY <1>8, <2>4 DEF Bitbang, Answer
    <3>2. a \in Seq(Bytes) /\ \A i \in DOMAIN a : a[i].new = c.new /\ a[i].v = "B"
      BY <1>3, BpPrompt
    <3> HIDE DEF a
    <3>4. dev' \in DevType /\ dev'.mode = "term" /\ dev'.bug = dev.bug
      BY <3>1, <1>4 DEF DevType
    <3>5. AnswersWith(c, a)
      BY <3>1, <3>2, <3>4, <2>4 DEF AnswersWith, ModeOf
    <3> QED BY <3>2, <3>5
  <2>5. CASE c.b \notin {0, 1, 2, 15}
    <3>1. dev' = dev /\ rx' = rx \o << >> /\ dev.mode = "bitbang"
      BY <1>8, <1>3, <1>5, <2>5 DEF Bitbang
    <3>2. AnswersWith(c, << >>)
      BY <3>1, <1>4, <2>5 DEF AnswersWith
    <3> QED BY <3>2, <1>5
  <2> QED BY <2>1, <2>2, <2>3, <2>4, <2>5
<1>9. CASE InSPI(c)
  <2>1. CASE c.b = 0
    BY <2>1, <1>6, <1>9 DEF InSPI
  <2>2. CASE c.b \in {2, 3}
    <3> DEFINE a == Ack(c.new)
    <3>1. rx' = rx \o a /\ dev' = [dev EXCEPT !.cs = IF c.b = 2 THEN "low" ELSE "high"] /\ dev.mode = "spi"
      <4>1. Answer(Ack(c.new)) /\ dev.mode = "spi"
            /\ dev' = [dev EXCEPT !.cs = IF c.b = 2 THEN "low" ELSE "high"]
        BY <1>9, <2>2 DEF InSPI
      <4> QED BY <4>1 DEF Answer
    <3>2. a \in Seq(Bytes) /\ Len(a) = 1 /\ \A i \in DOMAIN a : a[i] = Byte("one", c.new)
      BY <1>3, BpAck
    <3> HIDE DEF a
    <3>4. /\ dev' \in DevType /\ dev'.mode = dev.mode /\ dev'.bug = dev.bug
          /\ dev'.cs = IF c.b = 2 THEN "low" ELSE "high"
      BY <3>1, <1>4 DEF DevType
    <3>3. AnswersWith(c, a)
      BY <3>1, <1>4, <1>3, <2>2, <3>2, <3>4 DEF AnswersWith, Byte
    <3> QED BY <3>2, <3>3
  <2>3. CASE c.b = 5
    <3>1. PICK v \in {"one", "zero"} :
             rx' = rx \o ((IF dev.bug /\ c.n = 0 THEN << >> ELSE Ack(c.new)) \o DataOf(c.n, c.new, v))
      <4>1. \E v \in {"one", "zero"} :
               Answer((IF dev.bug /\ c.n = 0 THEN << >> ELSE Ack(c.new)) \o DataOf(c.n, c.new, v))
        BY <1>9, <2>3 DEF InSPI
      <4> QED BY <4>1 DEF Answer
    <3>2. dev' = dev /\ dev.mode = "spi" /\ v \in Value
      BY <1>9, <2>3 DEF InSPI, Value
    <3> DEFINE d == DataOf(c.n, c.new, v)
               k == Ack(c.new)
    <3>3. d \in Seq(Bytes) /\ Len(d) = c.n /\ \A i \in DOMAIN d : d[i] = Byte(v, c.new)
      BY <1>3, <3>2, BpData
    <3>0. k \in Seq(Bytes) /\ Len(k) = 1 /\ \A i \in DOMAIN k : k[i] = Byte("one", c.new)
      BY <1>3, BpAck
    <3>4. CASE dev.bug /\ c.n = 0
      <4>1. rx' = rx \o d
        <5> HIDE DEF d
        <5> QED BY <3>1, <3>3, <3>4 DEF d
      <4> HIDE DEF d
      <4>2. d = << >>
        BY <3>3, <3>4
      <4>3. AnswersWith(c, d)
        BY <4>1, <4>2, <3>2, <3>4, <1>4, <2>3 DEF AnswersWith
      <4> QED BY <4>3, <3>3
    <3>5. CASE ~(dev.bug /\ c.n = 0)
      <4> DEFINE a == k \o d
      <4>1. rx' = rx \o a
        BY <3>1, <3>5
      <4> HIDE DEF d, k
      <4>2. a \in Seq(Bytes) /\ Len(a) = c.n + 1 /\ a[1] = Byte("one", c.new)
            /\ \A i \in DOMAIN a : a[i] \in {Byte("one", c.new), Byte(v, c.new)}
        BY <3>0, <3>3, <1>3, BpAcked
      <4> HIDE DEF a
      <4>3. a[1].v = "one" /\ \A i \in DOMAIN a : a[i].v # "I" /\ a[i].new = c.new
        BY <4>2, <1>3 DEF Byte
      <4>4. AnswersWith(c, a)
        BY <4>1, <4>2, <4>3, <3>2, <3>5, <1>4, <2>3 DEF AnswersWith
      <4> QED BY <4>2, <4>4
    <3> QED BY <3>4, <3>5
  <2>4. CASE c.b >= 64
    <3> DEFINE a == Ack(c.new)
    <3>1. rx' = rx \o a /\ dev' = dev /\ dev.mode = "spi"
      <4>1. Answer(Ack(c.new)) /\ dev' = dev /\ dev.mode = "spi"
        BY <1>9, <1>3, <2>4 DEF InSPI
      <4> QED BY <4>1 DEF Answer
    <3>2. a \in Seq(Bytes) /\ Len(a) = 1 /\ \A i \in DOMAIN a : a[i] = Byte("one", c.new)
      BY <1>3, BpAck
    <3> HIDE DEF a
    <3>3. AnswersWith(c, a)
      BY <3>1, <1>4, <1>3, <2>4, <3>2 DEF AnswersWith, Byte
    <3> QED BY <3>2, <3>3
  <2>5. CASE c.b \notin {0, 2, 3, 5} /\ ~(c.b >= 64)
    <3>1. dev' = dev /\ rx' = rx \o << >> /\ dev.mode = "spi"
      BY <1>9, <1>3, <1>5, <2>5 DEF InSPI
    <3>2. AnswersWith(c, << >>)
      BY <3>1, <1>4, <2>5 DEF AnswersWith
    <3> QED BY <3>2, <1>5
  <2> QED BY <2>1, <2>2, <2>3, <2>4, <2>5
<1>10. CASE InI2C(c)
  <2>1. CASE c.b = 0
    BY <2>1, <1>6, <1>10 DEF InI2C
  <2>2. CASE c.b = 4
    <3> DEFINE a == DataOf(1, c.new, "zero")
    <3>1. rx' = rx \o a /\ dev' = dev /\ dev.mode = "i2c"
      BY <1>10, <2>2 DEF InI2C, Answer
    <3>2. a \in Seq(Bytes) /\ Len(a) = 1 /\ \A i \in DOMAIN a : a[i] = Byte("zero", c.new)
      BY <1>3, BpData DEF Value
    <3> HIDE DEF a
    <3>3. AnswersWith(c, a)
      BY <3>1, <1>4, <2>2, <3>2 DEF AnswersWith, Byte
    <3> QED BY <3>2, <3>3
  <2>3. CASE c.b = 8
    <3>1. PICK v \in {"one", "zero"}, acked \in BOOLEAN :
             rx' = rx \o (IF acked THEN Ack(c.new) \o DataOf(c.n, c.new, v)
                          ELSE <<Byte("zero", c.new)>>)
      <4>1. \E v \in {"one", "zero"}, acked \in BOOLEAN :
               Answer(IF acked THEN Ack(c.new) \o DataOf(c.n, c.new, v)
                      ELSE <<Byte("zero", c.new)>>)
        BY <1>10, <2>3 DEF InI2C
      <4> QED BY <4>1 DEF Answer
    <3>2. dev' = dev /\ dev.mode = "i2c" /\ v \in Value
      BY <1>10, <2>3 DEF InI2C, Value
    <3>3. CASE acked
      <4> DEFINE d == DataOf(c.n, c.new, v)
                 k == Ack(c.new)
                 a == k \o d
      <4>1. d \in Seq(Bytes) /\ Len(d) = c.n /\ \A i \in DOMAIN d : d[i] = Byte(v, c.new)
        BY <1>3, <3>2, BpData
      <4>0. k \in Seq(Bytes) /\ Len(k) = 1 /\ \A i \in DOMAIN k : k[i] = Byte("one", c.new)
        BY <1>3, BpAck
      <4>2. rx' = rx \o a
        BY <3>1, <3>3
      <4> HIDE DEF d, k
      <4>3. a \in Seq(Bytes) /\ Len(a) = c.n + 1 /\ a[1] = Byte("one", c.new)
            /\ \A i \in DOMAIN a : a[i] \in {Byte("one", c.new), Byte(v, c.new)}
        BY <4>0, <4>1, <1>3, BpAcked
      <4> HIDE DEF a
      <4>4. a[1].v = "one" /\ \A i \in DOMAIN a : a[i].v # "I" /\ a[i].new = c.new
        BY <4>3, <1>3 DEF Byte
      <4>5. AnswersWith(c, a)
        BY <4>2, <4>3, <4>4, <3>2, <1>4, <2>3 DEF AnswersWith
      <4> QED BY <4>3, <4>5
    <3>4. CASE ~acked
      <4> DEFINE x == Byte("zero", c.new)
                 a == <<x>>
      <4>1. rx' = rx \o a /\ x \in Bytes /\ x.v = "zero" /\ x.new = c.new
        BY <3>1, <3>4, <1>3 DEF Byte, Bytes, Value
      <4> HIDE DEF x
      <4>2. a \in Seq(Bytes) /\ Len(a) = 1 /\ a[1] = x /\ \A i \in DOMAIN a : a[i] = x
        BY <4>1
      <4> HIDE DEF a
      <4>3. AnswersWith(c, a)
        BY <4>1, <4>2, <3>2, <1>4, <2>3 DEF AnswersWith
      <4> QED BY <4>2, <4>3
    <3> QED BY <3>3, <3>4
  <2>4. CASE c.b = 16
    <3>1. PICK v \in {"one", "zero"} : rx' = rx \o (Ack(c.new) \o DataOf(1, c.new, v))
      BY <1>10, <2>4 DEF InI2C, Answer
    <3>2. dev' = dev /\ dev.mode = "i2c" /\ v \in Value
      BY <1>10, <2>4 DEF InI2C, Value
    <3> DEFINE d == DataOf(1, c.new, v)
               k == Ack(c.new)
               a == k \o d
    <3>3. rx' = rx \o a
      BY <3>1
    <3>4. d \in Seq(Bytes) /\ Len(d) = 1 /\ \A i \in DOMAIN d : d[i] = Byte(v, c.new)
      BY <1>3, <3>2, BpData
    <3>5. k \in Seq(Bytes) /\ Len(k) = 1 /\ \A i \in DOMAIN k : k[i] = Byte("one", c.new)
      BY <1>3, BpAck
    <3> HIDE DEF d, k
    <3>6. a \in Seq(Bytes) /\ Len(a) = 2
          /\ \A i \in DOMAIN a : a[i] \in {Byte("one", c.new), Byte(v, c.new)}
      BY <3>4, <3>5, BpAcked
    <3> HIDE DEF a
    <3>7. \A i \in DOMAIN a : a[i].v # "I" /\ a[i].new = c.new
      BY <3>6, <1>3 DEF Byte
    <3>8. AnswersWith(c, a)
      BY <3>3, <3>6, <3>7, <3>2, <1>4, <2>4 DEF AnswersWith
    <3> QED BY <3>6, <3>8
  <2>5. CASE c.b \in {2, 3, 6} \/ c.b >= 64
    <3> DEFINE a == Ack(c.new)
    <3>1. rx' = rx \o a /\ dev' = dev /\ dev.mode = "i2c"
      BY <1>10, <1>3, <2>5 DEF InI2C, Answer
    <3>2. a \in Seq(Bytes) /\ Len(a) = 1 /\ \A i \in DOMAIN a : a[i] = Byte("one", c.new)
      BY <1>3, BpAck
    <3> HIDE DEF a
    <3>3. AnswersWith(c, a)
      BY <3>1, <1>4, <1>3, <2>5, <3>2 DEF AnswersWith, Byte
    <3> QED BY <3>2, <3>3
  <2>6. CASE c.b \notin {0, 2, 3, 4, 6, 8, 16} /\ ~(c.b >= 64)
    <3>1. dev' = dev /\ rx' = rx \o << >> /\ dev.mode = "i2c"
      BY <1>10, <1>3, <1>5, <2>6 DEF InI2C
    <3>2. AnswersWith(c, << >>)
      BY <3>1, <1>4, <2>6 DEF AnswersWith
    <3> QED BY <3>2, <1>5
  <2> QED BY <2>1, <2>2, <2>3, <2>4, <2>5, <2>6
<1> QED BY <1>1, <1>2, <1>7, <1>8, <1>9, <1>10 DEF c
-----------------------------------------------------------------------------
(* The line while the device answers.                                         *)
LEMMA BpAnswer ==
    ASSUME BpTypes, DeviceStep
    PROVE  /\ UNCHANGED <<dll, host, run, ent, mem, out, dirty>>
           /\ DOMAIN tx = 1 .. Len(tx) /\ Len(tx) \in Nat \ {0} /\ tx[1] \in Commands
           /\ Len(tx') = Len(tx) - 1 /\ DOMAIN tx' = 1 .. Len(tx) - 1
           /\ \A i \in DOMAIN tx' : i + 1 \in DOMAIN tx /\ tx'[i] = tx[i + 1]
           /\ \E a \in Seq(Bytes) :
                  /\ AnswersWith(tx[1], a)
                  /\ Len(rx') = Len(rx) + Len(a)
                  /\ \A i \in DOMAIN rx' : \/ i \in DOMAIN rx /\ rx'[i] = rx[i]
                                           \/ \E j \in DOMAIN a : rx'[i] = a[j]
                  /\ rx = << >> => rx' = a
<1>1. tx # << >> /\ tx' = Tail(tx) /\ UNCHANGED <<dll, host, run, ent, mem, out, dirty>>
  BY BpDevice
<1>2. tx \in Seq(Commands) /\ rx \in Seq(Bytes)
  BY DEF BpTypes
<1>3. /\ DOMAIN tx = 1 .. Len(tx) /\ Len(tx) \in Nat \ {0} /\ tx[1] \in Commands
      /\ Len(tx') = Len(tx) - 1 /\ DOMAIN tx' = 1 .. Len(tx) - 1
      /\ \A i \in DOMAIN tx' : i + 1 \in DOMAIN tx /\ tx'[i] = tx[i + 1]
      /\ Head(tx) = tx[1]
  BY <1>1, <1>2
<1>4. PICK a \in Seq(Bytes) : AnswersWith(tx[1], a)
  BY <1>3, BpDevice
<1>5. rx' = rx \o a
  BY <1>4 DEF AnswersWith
<1>6. /\ Len(rx') = Len(rx) + Len(a)
      /\ \A i \in 1 .. Len(rx) + Len(a) :
             rx'[i] = IF i <= Len(rx) THEN rx[i] ELSE a[i - Len(rx)]
  BY <1>2, <1>5, ConcatProperties
<1>7. DOMAIN rx' = 1 .. Len(rx) + Len(a) /\ DOMAIN a = 1 .. Len(a) /\ DOMAIN rx = 1 .. Len(rx)
      /\ Len(rx) \in Nat /\ Len(a) \in Nat
  <2>1. rx' \in Seq(Bytes)
    BY <1>2, <1>5
  <2> QED BY <2>1, <1>2, <1>6
<1>8. ASSUME NEW i \in DOMAIN rx'
      PROVE  (i \in DOMAIN rx /\ rx'[i] = rx[i]) \/ \E j \in DOMAIN a : rx'[i] = a[j]
  <2>1. CASE i <= Len(rx)
    BY <2>1, <1>6, <1>7
  <2>2. CASE ~(i <= Len(rx))
    <3>1. i - Len(rx) \in DOMAIN a
      BY <2>2, <1>7
    <3> QED BY <3>1, <2>2, <1>6, <1>7
  <2> QED BY <2>1, <2>2
<1>9. rx = << >> => rx' = a
  BY <1>5
<1> QED BY <1>1, <1>3, <1>4, <1>6, <1>8, <1>9

LEMMA BpSession ==
    ASSUME BpTypes, DeviceStep, Session
    PROVE  Session' /\ dev'.mode = dev.mode /\ (NoI => NoI')
<1>1. PICK a \in Seq(Bytes) :
         /\ AnswersWith(tx[1], a)
         /\ \A i \in DOMAIN rx' : \/ i \in DOMAIN rx /\ rx'[i] = rx[i]
                                  \/ \E j \in DOMAIN a : rx'[i] = a[j]
  BY BpAnswer
<1>2. tx[1].b # 0 /\ dev.mode \in {"spi", "i2c"}
  BY BpAnswer DEF Session, Without
<1>3. dev'.mode = dev.mode /\ \A i \in DOMAIN a : a[i].v # "I"
  BY <1>1, <1>2 DEF AnswersWith
<1>4. Without({0})'
  BY BpAnswer DEF Session, Without
<1>5. NoI => NoI'
  BY <1>1, <1>3 DEF NoI
<1> QED BY <1>2, <1>3, <1>4, <1>5 DEF Session

LEMMA BpKeeps ==
    ASSUME BpTypes, DeviceStep, NEW bs
    PROVE  (Holds(bs) => Holds(bs)') /\ (Without(bs) => Without(bs)')
BY BpAnswer DEF Holds, Without

LEMMA BpPre ==
    ASSUME BpTypes, DeviceStep, PreLine
    PROVE  PreLine'
<1>1. CASE Session
  BY <1>1, BpSession DEF PreLine
<1>2. CASE Holds({13, 15, 35}) /\ dev.mode \in {"term", "bitbang"}
  <2>1. PICK a \in Seq(Bytes) :
           /\ AnswersWith(tx[1], a)
           /\ \A i \in DOMAIN rx' : \/ i \in DOMAIN rx /\ rx'[i] = rx[i]
                                    \/ \E j \in DOMAIN a : rx'[i] = a[j]
    BY BpAnswer
  <2>2. tx[1].b \in {13, 15, 35}
    BY <1>2, BpAnswer DEF Holds
  <2>3. \A i \in DOMAIN a : a[i].v # "I"
    BY <2>1, <2>2, <1>2 DEF AnswersWith
  <2>4. NoI'
    BY <2>1, <2>3 DEF NoI, PreLine
  <2> QED BY <2>4, <1>2, BpKeeps DEF PreLine
<1>3. CASE Holds({13, 15, 35}) /\ dev.mode \in {"spi", "i2c"}
  BY <1>3, <1>1 DEF Holds, Session, Without
<1>4. dev.mode \in {"term", "bitbang", "spi", "i2c"}
  BY DEF BpTypes
<1> QED BY <1>1, <1>2, <1>3, <1>4 DEF PreLine

LEMMA BpEnter ==
    ASSUME BpTypes, DeviceStep, EnterLine
    PROVE  EnterLine'
<1> DEFINE Found == ~NoI \/ ent.recv.v = "I" \/ ent.at > 3
<1>0. UNCHANGED ent
  BY BpAnswer
<1>1. \A i, j \in DOMAIN tx' : i < j /\ tx'[i].b = 0 => tx'[j].b = 0
  <2> SUFFICES ASSUME NEW i \in DOMAIN tx', NEW j \in DOMAIN tx', i < j, tx'[i].b = 0
               PROVE  tx'[j].b = 0
    OBVIOUS
  <2>1. i + 1 \in DOMAIN tx /\ j + 1 \in DOMAIN tx /\ tx'[i] = tx[i + 1] /\ tx'[j] = tx[j + 1]
        /\ i + 1 < j + 1
    BY BpAnswer
  <2> QED BY <2>1 DEF EnterLine
<1>2. PICK a \in Seq(Bytes) :
         /\ AnswersWith(tx[1], a)
         /\ \A i \in DOMAIN rx' : \/ i \in DOMAIN rx /\ rx'[i] = rx[i]
                                  \/ \E j \in DOMAIN a : rx'[i] = a[j]
  BY BpAnswer
<1>3. 1 \in DOMAIN tx /\ dev.mode \in {"term", "bitbang", "spi", "i2c"} /\ tx[1].b \in Nat
  <2>1. 1 \in DOMAIN tx /\ tx[1] \in Commands
    BY BpAnswer
  <2>2. tx[1].b \in Nat
    BY <2>1 DEF Commands
  <2> QED BY <2>1, <2>2 DEF BpTypes
<1>4. CASE tx[1].b = 0
  <2>1. Holds({0}) /\ Holds({0})'
    <3>1. Holds({0})
      BY <1>3, <1>4, BpAnswer DEF EnterLine, Holds
    <3> QED BY <3>1, BpKeeps
  <2>2. CASE dev'.mode = "bitbang"
    BY <2>1, <2>2, <1>1 DEF EnterLine, Holds
  <2>3. CASE dev.mode = "term" /\ dev'.mode = "term" /\ a = << >>
    <3>1. NoI /\ ent.recv.v # "I" /\ ~(ent.at > 3)
      BY <2>3 DEF EnterLine
    <3>2. NoI'
      BY <3>1, <2>3, <1>2 DEF NoI
    <3> QED BY <3>1, <3>2, <2>1, <1>0, <1>1 DEF EnterLine, Holds
  <2> QED BY <2>2, <2>3, <1>2, <1>4 DEF AnswersWith
<1>5. CASE tx[1].b # 0
  <2>1. NoI /\ ent.recv.v # "I" /\ ~(ent.at > 3)
    BY <1>3, <1>5 DEF EnterLine, Holds
  <2>2. CASE dev.mode \in {"spi", "i2c"}
    <3>1. dev'.mode = dev.mode /\ \A i \in DOMAIN a : a[i].v # "I"
      BY <1>2, <1>5, <2>2 DEF AnswersWith
    <3>2. NoI'
      BY <3>1, <2>1, <1>2 DEF NoI
    <3> QED BY <3>1, <3>2, <2>1, <2>2, <1>0, <1>1 DEF EnterLine
  <2>3. CASE dev.mode \in {"term", "bitbang"}
    <3>0. Holds({0, 13, 15, 35})
      BY <2>3 DEF EnterLine
    <3>1. tx[1].b \in {13, 15, 35}
      BY <3>0, <1>3, <1>5 DEF Holds
    <3>2. \A i \in DOMAIN a : a[i].v # "I"
      BY <1>2, <2>3, <3>1 DEF AnswersWith
    <3>3. NoI'
      BY <3>2, <2>1, <1>2 DEF NoI
    <3>4. Holds({0, 13, 15, 35})'
      BY <3>0, BpKeeps
    <3> QED BY <3>3, <3>4, <2>1, <1>0, <1>1 DEF EnterLine
  <2> QED BY <2>2, <2>3, <1>3
<1> QED BY <1>3, <1>4, <1>5

LEMMA BpBit ==
    ASSUME BpTypes, DeviceStep, BitLine
    PROVE  BitLine'
<1>1. PICK a \in Seq(Bytes) : AnswersWith(tx[1], a)
  BY BpAnswer
<1>2. tx[1].b = 0
  BY BpAnswer DEF BitLine, Holds
<1>3. dev'.mode = "bitbang"
  BY <1>1, <1>2 DEF AnswersWith, BitLine
<1> QED BY <1>3, BpKeeps DEF BitLine

LEMMA BpMode ==
    ASSUME BpTypes, DeviceStep, NEW b \in {1, 2}, ModeLine(b)
    PROVE  ModeLine(b)'
<1>1. PICK a \in Seq(Bytes) : AnswersWith(tx[1], a)
  BY BpAnswer
<1>2. tx[1].b = b /\ ModeOf(b) \in {"spi", "i2c"}
  BY BpAnswer DEF ModeLine, Holds, ModeOf
<1>3. dev'.mode = ModeOf(b)
  BY <1>1, <1>2 DEF AnswersWith, ModeLine
<1>4. Holds({b})'
  BY BpKeeps DEF ModeLine
<1> QED BY <1>2, <1>3, <1>4 DEF ModeLine

LEMMA BpUp ==
    ASSUME BpTypes, DeviceStep, NEW p \in {"spi", "i2c"}, UpLine(p)
    PROVE  UpLine(p)'
<1>1. Session
  BY DEF UpLine, Session, Without
<1>2. Without({0, 5, 8})'
  BY BpKeeps DEF UpLine
<1> QED BY <1>1, <1>2, BpSession DEF UpLine

(* The device may answer at any step of a setup or a close.                    *)
LEMMA BpLineDevice ==
    ASSUME BpTypes, DeviceStep, NEW k \in Nat \ {0}, NEW p, k > 17 => p \in {"spi", "i2c"}, LineAt(k, p)
    PROVE  LineAt(k, p)'
<1>1. CASE k \in {1, 2, 8, 9, 10}
  <2>1. StartLine
    BY <1>1 DEF LineAt
  <2>2. StartLine'
    BY <2>1, BpSession, BpKeeps DEF StartLine
  <2> QED BY <1>1, <2>2 DEF LineAt
<1>2. CASE k \in 3 .. 6 \cup 11 .. 14
  <2>1. PreLine /\ k \notin {1, 2, 8, 9, 10}
    BY <1>2 DEF LineAt
  <2> QED BY <1>2, <2>1, BpPre DEF LineAt
<1>3. CASE k \in {7, 15}
  <2>1. EnterLine /\ k \notin {1, 2, 8, 9, 10} /\ k \notin 3 .. 6 \cup 11 .. 14
    BY <1>3 DEF LineAt
  <2> QED BY <1>3, <2>1, BpEnter DEF LineAt
<1>4. CASE k \in {16, 17}
  <2>1. BitLine /\ k \notin {1, 2, 8, 9, 10} /\ k \notin 3 .. 6 \cup 11 .. 14 /\ k \notin {7, 15}
    BY <1>4 DEF LineAt
  <2> QED BY <1>4, <2>1, BpBit DEF LineAt
<1>5. CASE k = 18
  <2>1. ModeLine(IF p = "spi" THEN 1 ELSE 2)
    BY <1>5 DEF LineAt
  <2>2. ModeLine(IF p = "spi" THEN 1 ELSE 2)'
    BY <2>1, BpMode
  <2> QED BY <1>5, <2>2 DEF LineAt
<1>6. CASE k > 18
  <2>1. /\ k \notin {1, 2, 8, 9, 10} /\ k \notin 3 .. 6 \cup 11 .. 14 /\ k \notin {7, 15}
        /\ k \notin {16, 17} /\ k # 18
    BY <1>6
  <2>2. UpLine(p)
    BY <2>1 DEF LineAt
  <2>3. p \in {"spi", "i2c"}
    BY <1>6
  <2> QED BY <2>1, <2>2, <2>3, BpUp DEF LineAt
<1> QED BY <1>1, <1>2, <1>3, <1>4, <1>5, <1>6
-----------------------------------------------------------------------------
(* The steps of the host.                                                    *)
LEMMA BpWhich ==
    ASSUME HostStep
    PROVE  /\ run.todo # << >>
           /\ Now.s = "send" => ComWrite
           /\ Now.s = "read" => ComReadBuff
           /\ Now.s = "flush" => FlushCOMIn
           /\ Now.s = "prompt" => Prompt
           /\ Now.s = "enter" => EnterBegin \/ EnterAgain \/ EnterHave \/ EnterRead
           /\ Now.s = "cs" => ChipSelect
           /\ Now.s = "gate" => EndFastGate
           /\ Now.s = "await" => AwaitSPI
           /\ Now.s = "awaiti2c" => AwaitI2C
           /\ Now.s = "data" => ReadData
           /\ Now.s = "readbyte" => ReadByte
           /\ Now.s = "return" => Return
           /\ Now.s = "init" => InitCall
           /\ Now.s = "opened" => Opened
           /\ Now.s = "close" => CloseCall
           /\ Now.s = "closed" => ComClose
           /\ Now.s = "isclosed" => IsClosed
<1>1. /\ ComWrite => Running("send")
      /\ ComReadBuff => Running("read")
      /\ FlushCOMIn => Running("flush")
      /\ Prompt => Running("prompt")
      /\ EnterBegin \/ EnterAgain \/ EnterHave \/ EnterRead => Running("enter")
      /\ ChipSelect => Running("cs")
      /\ EndFastGate => Running("gate")
  BY DEF ComWrite, ComReadBuff, FlushCOMIn, Prompt, EnterBegin, EnterAgain, EnterHave, EnterRead,
         ChipSelect, EndFastGate
<1>2. /\ AwaitSPI => Running("await")
      /\ AwaitI2C => Running("awaiti2c")
      /\ ReadData => Running("data")
      /\ ReadByte => Running("readbyte")
      /\ Return => Running("return")
      /\ InitCall => Running("init")
      /\ Opened => Running("opened")
      /\ CloseCall => Running("close")
      /\ ComClose => Running("closed")
      /\ IsClosed => Running("isclosed")
  BY DEF AwaitSPI, AwaitI2C, ReadData, ReadByte, Return, InitCall, Opened, CloseCall, ComClose,
         IsClosed
<1>3. \A s : Running(s) => run.todo # << >> /\ Now.s = s
  BY DEF Running
<1> DEFINE s == Now.s
<1> HIDE DEF s
<1>4. \A r : Running(r) => s = r
  BY <1>3 DEF s
<1>5. \/ ComWrite \/ ComReadBuff \/ FlushCOMIn \/ Prompt
      \/ EnterBegin \/ EnterAgain \/ EnterHave \/ EnterRead
      \/ ChipSelect \/ EndFastGate \/ AwaitSPI \/ AwaitI2C \/ ReadData \/ ReadByte \/ Return
      \/ InitCall \/ Opened \/ CloseCall \/ ComClose \/ IsClosed
  BY DEF HostStep
<1>6. run.todo # << >>
  BY <1>1, <1>2, <1>3, <1>5
<1> QED BY <1>1, <1>2, <1>4, <1>5, <1>6 DEF s

LEMMA BpSent ==
    ASSUME BpTypes, NEW b \in Nat, NEW n \in Nat,
           tx' = Append(tx, [b |-> b, n |-> n, new |-> TRUE])
    PROVE  /\ tx' \in Seq(Commands) /\ Len(tx') = Len(tx) + 1 /\ Len(tx) \in Nat
           /\ DOMAIN tx = 1 .. Len(tx) /\ DOMAIN tx' = 1 .. Len(tx) + 1
           /\ \A i \in DOMAIN tx : tx'[i] = tx[i]
           /\ tx'[Len(tx) + 1] = [b |-> b, n |-> n, new |-> TRUE]
<1>1. tx \in Seq(Commands)
  BY DEF BpTypes
<1> DEFINE c == [b |-> b, n |-> n, new |-> TRUE]
<1>2. c \in Commands
  BY DEF Commands
<1> HIDE DEF c
<1>3. tx' = Append(tx, c)
  BY DEF c
<1>4. /\ tx' \in Seq(Commands) /\ Len(tx') = Len(tx) + 1 /\ Len(tx) \in Nat
      /\ DOMAIN tx = 1 .. Len(tx) /\ DOMAIN tx' = 1 .. Len(tx) + 1
      /\ \A i \in DOMAIN tx : tx'[i] = tx[i]
      /\ tx'[Len(tx) + 1] = c
  BY <1>1, <1>2, <1>3
<1> QED BY <1>4 DEF c

LEMMA BpTaken ==
    ASSUME BpTypes, NEW n \in Nat, Taken(n)
    PROVE  /\ rx' \in Seq(Bytes) /\ Given(n) \in 0 .. Len(rx) /\ Given(n) <= n /\ Len(rx) \in Nat
           /\ Len(rx') = Len(rx) - Given(n)
           /\ DOMAIN rx = 1 .. Len(rx) /\ DOMAIN rx' = 1 .. Len(rx) - Given(n)
           /\ \A i \in DOMAIN rx' : i + Given(n) \in DOMAIN rx /\ rx'[i] = rx[i + Given(n)]
<1>1. rx \in Seq(Bytes) /\ Len(rx) \in Nat /\ DOMAIN rx = 1 .. Len(rx)
  BY DEF BpTypes
<1>2. Given(n) \in 0 .. Len(rx) /\ Given(n) <= n
  BY <1>1 DEF Given
<1> DEFINE g == Given(n)
<1>3. rx' = SubSeq(rx, g + 1, Len(rx))
  BY DEF Taken
<1> HIDE DEF g
<1>4. g \in 0 .. Len(rx)
  BY <1>2 DEF g
<1>5. /\ rx' \in Seq(Bytes) /\ Len(rx') = Len(rx) - g
      /\ DOMAIN rx' = 1 .. Len(rx) - g
      /\ \A i \in 1 .. Len(rx) - g : rx'[i] = rx[i + g] /\ i + g \in DOMAIN rx
  <2> DEFINE m == g + 1
             n0 == Len(rx)
             u == SubSeq(rx, m, n0)
  <2>1. m \in Int /\ n0 \in Int /\ \A i \in m .. n0 : rx[i] \in Bytes
    BY <1>1, <1>4
  <2>2. /\ u \in Seq(Bytes) /\ Len(u) = (IF m <= n0 THEN n0 - m + 1 ELSE 0)
        /\ \A i \in 1 .. n0 - m + 1 : u[i] = rx[m + i - 1]
    <3> HIDE DEF m, n0
    <3> QED BY <2>1, SubSeqProperties
  <2> HIDE DEF u
  <2>3. u \in Seq(Bytes) /\ Len(u) = Len(rx) - g /\ DOMAIN u = 1 .. Len(rx) - g
        /\ \A i \in 1 .. Len(rx) - g : u[i] = rx[i + g] /\ i + g \in DOMAIN rx
    <3>1. n0 - m + 1 = n0 - g /\ (m <= n0 \/ n0 - g = 0) /\ n0 - g \in Nat
      <4>1. n0 \in Nat /\ g \in 0 .. n0
        BY <1>1, <1>4
      <4> HIDE DEF n0
      <4> QED BY <4>1
    <3>2. Len(u) = n0 - g /\ DOMAIN u = 1 .. n0 - g
      BY <2>2, <3>1
    <3>3. ASSUME NEW i \in 1 .. n0 - g PROVE u[i] = rx[i + g] /\ i + g \in DOMAIN rx
      <4>1. m + i - 1 = i + g /\ i + g \in 1 .. n0
        BY <1>1, <1>4
      <4> HIDE DEF m
      <4>2. u[i] = rx[m + i - 1]
        BY <2>2, <3>1
      <4> QED BY <1>1, <4>1, <4>2
    <3> QED BY <2>2, <3>2, <3>3
  <2> QED BY <1>3, <2>3 DEF u
<1> QED BY <1>1, <1>2, <1>5 DEF g

LEMMA BpFlushed ==
    ASSUME BpTypes, ~Late, FlushCOMIn
    PROVE  /\ rx' = << >> /\ run' = [run EXCEPT !.todo = Tail(run.todo)]
           /\ UNCHANGED <<dll, host, ent, mem, out, tx, dev, dirty>>
           /\ tx = << >> \/ (1 \in DOMAIN tx /\ tx[1].b \in {5, 8} /\ tx[1].n > 0)
<1>1. tx = << >> \/ Slow
  BY DEF FlushCOMIn, MayTimeOut
<1>2. Slow => 1 \in DOMAIN tx /\ tx[1].b \in {5, 8} /\ tx[1].n > 0
  BY DEF Slow, BpTypes
<1> QED BY <1>1, <1>2 DEF FlushCOMIn, Advance, Continue, Rest

-----------------------------------------------------------------------------
(* The line while the host brings the device into a mode.                      *)
LEMMA BpLineSend ==
    ASSUME BpTypes, NEW b \in Nat, NEW n \in Nat, UNCHANGED <<rx, dev>>,
           tx' = Append(tx, [b |-> b, n |-> n, new |-> TRUE])
    PROVE  /\ StartLine /\ b = 15 => StartLine'
           /\ PreLine /\ b \in {13, 35} => PreLine'
           /\ Session /\ b # 0 => Session'
           /\ \A p \in {"spi", "i2c"} : UpLine(p) /\ b \notin {0, 5, 8} => UpLine(p)'
<1>1. \A i \in DOMAIN tx' : (i \in DOMAIN tx /\ tx'[i] = tx[i]) \/ tx'[i].b = b
  BY BpSent
<1>2. \A bs : (Without(bs) /\ b \notin bs => Without(bs)') /\ (Holds(bs) /\ b \in bs => Holds(bs)')
  BY <1>1 DEF Without, Holds
<1>3. Session /\ b # 0 => Session'
  BY <1>2 DEF Session
<1>4. StartLine /\ b = 15 => StartLine'
  BY <1>2, <1>3 DEF StartLine
<1>5. PreLine /\ b \in {13, 35} => PreLine'
  <2>1. NoI => NoI'
    BY DEF NoI
  <2> QED BY <1>2, <1>3, <2>1 DEF PreLine
<1> QED BY <1>2, <1>3, <1>4, <1>5 DEF UpLine

LEMMA BpLineFlush ==
    ASSUME BpTypes, EntInv, ~Late, FlushCOMIn
    PROVE  /\ StartLine => PreLine'
           /\ PreLine => EnterLine'
           /\ BitLine => BitLine' /\ \A b \in {1, 2} : ModeLine(b)'
           /\ \A p \in {"spi", "i2c"} : UpLine(p) => UpLine(p)' /\ tx' = << >> /\ rx' = << >>
<1>1. /\ rx' = << >> /\ UNCHANGED <<ent, tx, dev>>
      /\ tx = << >> \/ (1 \in DOMAIN tx /\ tx[1].b \in {5, 8} /\ tx[1].n > 0)
  BY BpFlushed
<1>2. NoI'
  BY <1>1 DEF NoI
<1>3. \A bs : /\ Holds(bs)' <=> Holds(bs)
              /\ Without(bs)' <=> Without(bs)
              /\ tx = << >> => Holds(bs)
  BY <1>1 DEF Holds, Without
<1>4. Session' <=> Session
  BY <1>1, <1>3 DEF Session
<1>5. StartLine => PreLine'
  <2>1. Without({5, 8}) => tx = << >>
    BY <1>1 DEF Without
  <2> QED BY <1>2, <1>3, <1>4, <2>1 DEF StartLine, PreLine
<1>6. ent.at = 0 /\ ent.recv.v # "I"
  BY DEF EntInv, Running, FlushCOMIn
<1>7. PreLine => EnterLine'
  <2>1. Holds({13, 15, 35}) => tx = << >>
    BY <1>1 DEF Holds
  <2>2. tx = << >> => Holds({0, 13, 15, 35})'
    BY <1>3
  <2>3. PreLine => \A i \in DOMAIN tx : tx[i].b # 0
    BY DEF PreLine, Session, Without, Holds
  <2> QED BY <1>1, <1>2, <1>6, <2>1, <2>2, <2>3 DEF PreLine, EnterLine, Session
<1>8. BitLine => BitLine' /\ \A b \in {1, 2} : ModeLine(b)'
  <2>1. BitLine => tx = << >> /\ dev'.mode = "bitbang"
    BY <1>1 DEF BitLine, Holds
  <2> QED BY <1>1, <1>3, <1>6, <2>1 DEF BitLine, ModeLine
<1>9. ASSUME NEW p \in {"spi", "i2c"}, UpLine(p) PROVE UpLine(p)' /\ tx' = << >> /\ rx' = << >>
  <2>1. tx = << >>
    BY <1>1, <1>9 DEF UpLine, Without
  <2> QED BY <1>1, <1>3, <1>9, <2>1 DEF UpLine
<1> QED BY <1>5, <1>7, <1>8, <1>9

LEMMA BpLineRead ==
    ASSUME BpTypes, NEW n \in Nat, Taken(n), UNCHANGED <<tx, dev>>
    PROVE  /\ NoI => NoI'
           /\ StartLine => StartLine'
           /\ PreLine => PreLine'
           /\ \A p \in {"spi", "i2c"} : UpLine(p) => UpLine(p)'
<1>1. NoI => NoI'
  BY BpTaken DEF NoI
<1>2. Session' <=> Session
  BY DEF Session, Without
<1> QED BY <1>1, <1>2 DEF StartLine, PreLine, UpLine, Without, Holds

LEMMA BpWord ==
    ASSUME Now.b \in {0, 1, 2}
    PROVE  /\ Len(Word) = (IF Now.b = 0 THEN 5 ELSE 4)
           /\ Word[1] = (IF Now.b = 0 THEN "B" ELSE IF Now.b = 1 THEN "S" ELSE "I")
           /\ Now.b = 0 => Word[2] = "B" /\ Word[3] = "I" /\ Word[4] = "O" /\ Word[5] = "1"
           /\ Now.b # 0 => Word[4] = "1"
<1>1. CASE Now.b = 0
  <2>1. Word = <<"B", "B", "I", "O", "1">>
    BY <1>1 DEF Word, BBIO1
  <2> QED BY <1>1, <2>1
<1>2. CASE Now.b = 1
  <2>1. Word = <<"S", "P", "I", "1">>
    BY <1>2 DEF Word, SPI1
  <2> QED BY <1>2, <2>1
<1>3. CASE Now.b = 2
  <2>1. Word = <<"I", "2", "C", "1">>
    BY <1>3 DEF Word, I2C1
  <2> QED BY <1>3, <2>1
<1> QED BY <1>1, <1>2, <1>3

(* What a round of an Enter... loop makes of its locals and of the line.        *)
Round ==
    LET byte == ent'.recv
        matched == byte.v = Word[ent.at]
    IN  /\ ent.at # 0 /\ ent' = [recv |-> byte, at |-> ent'.at, got |-> ent'.got]
        /\ byte = ent.recv \/ (1 \in DOMAIN rx /\ byte = rx[1])
        /\ rx = << >> => byte = ent.recv
        /\ ent.at = 1 => rx # << >> \/ ent.recv.v # Word[1]
        /\ ent'.at = (IF matched THEN IF ent.at = Len(Word) THEN 0 ELSE ent.at + 1 ELSE 1)
        /\ run' = (IF matched /\ ent.at = Len(Word) THEN [run EXCEPT !.todo = Tail(run.todo)] ELSE run)
        /\ \A i \in DOMAIN rx' : \E j \in DOMAIN rx : rx'[i] = rx[j]
        /\ rx = << >> => rx' = << >>
        /\ UNCHANGED <<dll, host, mem, out, tx, dev, dirty>>

LEMMA BpRound ==
    ASSUME BpTypes, EnterRead
    PROVE  Round
<1> DEFINE byte == IF rx = << >> THEN ent.recv ELSE Head(rx)
           done == byte.v = Word[ent.at] /\ ent.at = Len(Word)
<1>1. /\ ent.at > 1 \/ (ent.at = 1 /\ ent.got = 1 /\ ent.recv.v # Word[1])
      /\ Taken(1)
      /\ ent' = [recv |-> byte, got |-> GotAfter,
                 at |-> IF done THEN 0 ELSE IF byte.v = Word[ent.at] THEN ent.at + 1 ELSE 1]
      /\ IF done THEN Advance ELSE UNCHANGED run
      /\ UNCHANGED <<dll, host, mem, out, tx, dev, dirty>>
  BY DEF EnterRead
<1>2. ent.at \in 0 .. 5 /\ rx \in Seq(Bytes)
  BY DEF BpTypes
<1>3. byte = ent.recv \/ (1 \in DOMAIN rx /\ byte = rx[1])
  BY <1>2
<1>4. rx = << >> => byte = ent.recv
  OBVIOUS
<1> HIDE DEF byte
<1>5. /\ ent'.recv = byte /\ ent'.got = GotAfter
      /\ ent'.at = (IF done THEN 0 ELSE IF byte.v = Word[ent.at] THEN ent.at + 1 ELSE 1)
      /\ ent' = [recv |-> byte, at |-> ent'.at, got |-> ent'.got]
  BY <1>1
<1>6. \A i \in DOMAIN rx' : \E j \in DOMAIN rx : rx'[i] = rx[j]
  BY <1>1, BpTaken
<1>7. rx = << >> => rx' = << >>
  <2>1. rx' \in Seq(Bytes) /\ Len(rx') <= Len(rx)
    BY <1>1, BpTaken
  <2> QED BY <1>2, <2>1
<1>8. run' = (IF done THEN [run EXCEPT !.todo = Tail(run.todo)] ELSE run)
  BY <1>1 DEF Advance, Continue, Rest
<1>9. ent.at # 0 /\ (ent.at = 1 => rx # << >> \/ ent.recv.v # Word[1])
  BY <1>1, <1>2
<1>10. ent'.at = (IF byte.v = Word[ent.at] THEN IF ent.at = Len(Word) THEN 0 ELSE ent.at + 1 ELSE 1)
  BY <1>5
<1> HIDE DEF done
<1> QED BY <1>1, <1>3, <1>4, <1>5, <1>6, <1>7, <1>8, <1>9, <1>10 DEF Round, done

LEMMA BpLineEnter ==
    ASSUME BpTypes, EntInv, Running("enter"), Now.b \in {0, 1, 2}, Now.n \in {0, 1},
           EnterBegin \/ EnterAgain \/ EnterHave \/ EnterRead,
           IF Now.b = 0 THEN EnterLine ELSE ModeLine(Now.b)
    PROVE  /\ UNCHANGED <<dll, host, mem, out, dev, dirty>>
           /\ \/ /\ run' = run /\ ent'.at \in 1 .. Len(Word)
                 /\ IF Now.b = 0 THEN EnterLine' ELSE \A b \in {1, 2} : b = Now.b => ModeLine(b)'
              \/ /\ run' = [run EXCEPT !.todo = Tail(run.todo)]
                 /\ ent'.at = 0 /\ ent'.recv.v # "I"
                 /\ IF Now.b = 0 THEN BitLine'
                    ELSE \A p \in {"spi", "i2c"} : p = ModeOf(Now.b) => UpLine(p)'
<1> DEFINE e == Now.b
<1>0. ent \in [recv : Bytes, at : 0 .. 5, got : {0, 1}] /\ ent.at <= Len(Word)
  BY DEF BpTypes, EntInv
<1>00. Len(Word) \in {4, 5}
  BY BpWord
<1>01. 1 \in 1 .. Len(Word) /\ 2 \in 1 .. Len(Word)
  <2> DEFINE n == Len(Word)
  <2>1. n \in {4, 5}
    BY <1>00
  <2> HIDE DEF n
  <2>2. 1 \in 1 .. n /\ 2 \in 1 .. n
    BY <2>1
  <2> QED BY <2>2 DEF n
<1>1. CASE EnterBegin
  <2>1. /\ ent'.at = 1 /\ run' = run /\ ent.at = 0 /\ ent.recv.v # "I"
        /\ ent'.recv.v # "I"
        /\ ent'.recv.v # "I" /\ (Now.b # 0 => ent'.recv.v = "zero")
        /\ UNCHANGED <<dll, host, mem, out, tx, rx, dev, dirty>>
    BY <1>1 DEF EnterBegin, EntInv, NoByte, Byte
  <2>3. CASE Now.b = 0
    BY <2>1, <1>01, <2>3 DEF EnterLine, NoI, Holds
  <2>4. CASE Now.b \in {1, 2}
    <3>1. \A b \in {1, 2} : b = Now.b => ModeLine(b)'
      BY <2>1, <2>4 DEF ModeLine, Holds
    <3> QED BY <2>1, <1>01, <2>4, <3>1
  <2> QED BY <2>3, <2>4
<1>2. CASE EnterAgain
  <2>1. /\ run' = run /\ ent'.at = ent.at /\ ent'.recv = ent.recv /\ ent.at = 1
        /\ UNCHANGED <<dll, host, mem, out, rx, dev, dirty>>
        /\ tx' = Append(tx, [b |-> e, n |-> 0, new |-> TRUE])
    BY <1>0, <1>2 DEF EnterAgain
  <2>2. /\ Len(tx) \in Nat /\ DOMAIN tx = 1 .. Len(tx) /\ DOMAIN tx' = 1 .. Len(tx) + 1
        /\ \A i \in DOMAIN tx : tx'[i] = tx[i]
        /\ tx'[Len(tx) + 1].b = e
    <3>1. e \in Nat
      OBVIOUS
    <3> HIDE DEF e
    <3> QED BY <2>1, <3>1, BpSent
  <2>3. \A i \in DOMAIN tx' : (i \in DOMAIN tx /\ tx'[i] = tx[i]) \/ (i = Len(tx) + 1 /\ tx'[i].b = e)
    BY <2>2
  <2>4. \A bs : Holds(bs) /\ e \in bs => Holds(bs)'
    <3> HIDE DEF e
    <3> QED BY <2>3 DEF Holds
  <2>5. CASE e = 0
    <3>1. \A i, j \in DOMAIN tx' : i < j /\ tx'[i].b = 0 => tx'[j].b = 0
      <4> SUFFICES ASSUME NEW i \in DOMAIN tx', NEW j \in DOMAIN tx', i < j, tx'[i].b = 0
                   PROVE  tx'[j].b = 0
        OBVIOUS
      <4>1. CASE j = Len(tx) + 1
        BY <4>1, <2>2, <2>5
      <4>2. CASE j # Len(tx) + 1
        <5>1. i \in DOMAIN tx /\ j \in DOMAIN tx
          BY <4>2, <2>2
        <5> QED BY <5>1, <2>2, <2>5 DEF EnterLine
      <4> QED BY <4>1, <4>2
    <3>2. (Holds({0}) => Holds({0})') /\ (Holds({0, 13, 15, 35}) => Holds({0, 13, 15, 35})')
      BY <2>4, <2>5
    <3>3. (NoI' <=> NoI) /\ dev' = dev
      BY <2>1 DEF NoI
    <3>4. EnterLine'
      BY <2>1, <2>5, <3>1, <3>2, <3>3 DEF EnterLine
    <3> QED BY <2>1, <2>5, <3>4, <1>01
  <2>6. CASE e \in {1, 2}
    <3>1. \A b \in {1, 2} : b = e => ModeLine(b)'
      <4>1. ModeLine(e) /\ e # 0
        BY <2>6
      <4> HIDE DEF e
      <4> QED BY <2>1, <2>4, <2>6, <4>1 DEF ModeLine
    <3> QED BY <2>1, <2>6, <3>1, <1>01
  <2> QED BY <2>5, <2>6
<1>3. CASE EnterHave
  <2>1. /\ run' = run /\ ent'.at = 2 /\ ent'.recv = ent.recv /\ ent.at = 1 /\ ent.recv.v = Word[1]
        /\ UNCHANGED <<dll, host, mem, out, tx, rx, dev, dirty>>
    BY <1>0, <1>3 DEF EnterHave
  <2>2. CASE Now.b = 0
    <3>1. EnterLine'
      <4>1. ent'.at = 2 /\ ent'.recv = ent.recv /\ UNCHANGED <<tx, rx, dev>> /\ ~(2 > 3)
        BY <2>1
      <4>2. EnterLine
        BY <2>2
      <4> QED BY <4>1, <4>2 DEF EnterLine, NoI, Holds
    <3> QED BY <2>1, <2>2, <3>1, <1>01
  <2>3. CASE Now.b \in {1, 2}
    <3>1. ModeLine(Now.b) /\ dev.mode # "bitbang"
      BY <2>1, <2>3, BpWord DEF ModeLine
    <3>2. \A b \in {1, 2} : b = Now.b => ModeLine(b)'
      BY <2>1, <3>1 DEF ModeLine, Holds
    <3> QED BY <2>1, <2>3, <3>2, <1>01
  <2> QED BY <2>2, <2>3
<1>4. CASE EnterRead
  <2>1. Round
    BY <1>4, BpRound
  <2>2. UNCHANGED <<dll, host, mem, out, tx, dev, dirty>>
    BY <2>1 DEF Round
  <2>6. \/ ent'.at = 1 /\ run' = run
        \/ ent'.at = ent.at + 1 /\ ent'.recv.v = Word[ent.at] /\ ent.at # Len(Word) /\ run' = run
        \/ ent'.at = 0 /\ ent'.recv.v = Word[ent.at] /\ ent.at = Len(Word)
    BY <2>1 DEF Round
  <2>7. ent.at \in 1 .. Len(Word) /\ Len(Word) \in {4, 5}
    BY <2>1, <1>0, BpWord DEF Round
  <2>3. NoI => NoI' /\ (ent'.recv.v = "I" => ent.recv.v = "I")
    BY <2>1 DEF Round, NoI
  <2>4. CASE Now.b = 0
    <3>1. ent'.recv.v = "I" \/ ~NoI' \/ ent'.at > 3 => dev.mode = "bitbang" /\ Holds({0})
      <4>1. CASE ent.at > 3 \/ ~NoI \/ ent.recv.v = "I"
        BY <4>1, <2>4 DEF EnterLine
      <4>2. CASE ~(ent.at > 3) /\ NoI /\ ent.recv.v # "I"
        <5>1. NoI' /\ ent'.recv.v # "I"
          BY <2>3, <4>2
        <5>2. ~(ent'.at > 3)
          <6>1. ent.at # 3 \/ ent'.at = 1
            BY <2>6, <2>7, <2>4, <5>1, BpWord
          <6>2. ent.at \in 0 .. 5 /\ (ent'.at \in {0, 1} \/ ent'.at = ent.at + 1)
            BY <1>0, <2>6
          <6>3. ent.at = 0 \/ ent.at = 1 \/ ent.at = 2 \/ ent.at = 3
            BY <6>2, <4>2
          <6>4. ent'.at = 0 \/ ent'.at = 1 \/ ent'.at = 2 \/ ent'.at = 3
            BY <6>1, <6>2, <6>3
          <6> QED BY <6>4
        <5> QED BY <5>1, <5>2
      <4> QED BY <4>1, <4>2
    <3>2. CASE ent'.recv.v = Word[ent.at] /\ ent.at = Len(Word)
      <4>1. ent.at = 5 /\ ent'.at = 0 /\ ent'.recv.v = "1"
        BY <2>1, <2>4, <3>2, BpWord DEF Round
      <4>2. dev.mode = "bitbang" /\ Holds({0})
        BY <2>4, <4>1 DEF EnterLine
      <4> QED BY <2>1, <2>2, <2>4, <3>2, <4>1, <4>2 DEF Round, BitLine, Holds
    <3>3. CASE ~(ent'.recv.v = Word[ent.at] /\ ent.at = Len(Word))
      <4>1. run' = run /\ ent'.at \in 1 .. Len(Word)
        BY <2>6, <2>7, <3>3
      <4> QED BY <2>2, <2>4, <3>1, <4>1 DEF EnterLine, Holds
    <3> QED BY <3>2, <3>3
  <2>5. CASE Now.b \in {1, 2}
    <3>0. ModeLine(Now.b)
      BY <2>5
    <3>1. CASE ent'.recv.v = Word[ent.at] /\ ent.at = Len(Word)
      <4>1. ent.at = 4 /\ ent'.at = 0 /\ ent'.recv.v = "1"
        BY <2>1, <2>5, <3>1, BpWord DEF Round
      <4>2. dev.mode = ModeOf(Now.b) /\ Holds({Now.b})
        BY <3>0, <4>1 DEF ModeLine
      <4>3. Without({0, 5, 8})'
        BY <2>2, <2>5, <4>2 DEF Holds, Without
      <4> QED BY <2>1, <2>2, <2>5, <3>1, <4>1, <4>2, <4>3 DEF Round, UpLine
    <3>2. CASE ~(ent'.recv.v = Word[ent.at] /\ ent.at = Len(Word))
      <4>1. run' = run /\ ent'.at \in 1 .. Len(Word)
        BY <2>6, <2>7, <3>2
      <4>2. dev.mode = "bitbang" =>
               rx' = << >> /\ ent'.at = 1 /\ ent'.recv = ent.recv /\ ent.at = 1
        BY <2>1, <2>5, <3>0, <3>2, <1>0, BpWord DEF Round, ModeLine
      <4>3. \A b \in {1, 2} : b = Now.b => ModeLine(b)'
        BY <2>2, <2>5, <3>0, <4>2 DEF ModeLine, Holds
      <4> QED BY <2>2, <2>5, <4>1, <4>3
    <3> QED BY <3>1, <3>2
  <2> QED BY <2>4, <2>5
<1> QED BY <1>1, <1>2, <1>3, <1>4
-----------------------------------------------------------------------------
(* The programs of open and close, step by step.                               *)
LEMMA BpConcatSteps ==
    ASSUME NEW s, s \in Seq(Steps), NEW t, t \in Seq(Steps)
    PROVE  /\ s \o t \in Seq(Steps) /\ Len(s \o t) = Len(s) + Len(t)
           /\ \A i \in 1 .. Len(s) + Len(t) :
                  (s \o t)[i] = IF i <= Len(s) THEN s[i] ELSE t[i - Len(s)]
BY ConcatProperties

LEMMA BpJoined ==
    ASSUME NEW s, NEW t, s \in Seq(Steps), t \in Seq(Steps), NEW m, NEW n, m \in Nat, n \in Nat,
           Len(s) = m, Len(t) = n
    PROVE  /\ s \o t \in Seq(Steps) /\ Len(s \o t) = m + n
           /\ \A k \in 1 .. m : (s \o t)[k] = s[k]
           /\ \A k \in 1 .. n : (s \o t)[m + k] = t[k]
<1>1. /\ s \o t \in Seq(Steps) /\ Len(s \o t) = Len(s) + Len(t)
      /\ \A k \in 1 .. Len(s) + Len(t) : (s \o t)[k] = IF k <= Len(s) THEN s[k] ELSE t[k - Len(s)]
  BY BpConcatSteps
<1>2. \A k \in 1 .. m + n : (s \o t)[k] = IF k <= m THEN s[k] ELSE t[k - m]
  BY <1>1
<1>3. ASSUME NEW k \in 1 .. m PROVE (s \o t)[k] = s[k]
  <2>1. k \in 1 .. m + n /\ k <= m
    OBVIOUS
  <2> QED BY <2>1, <1>2
<1>4. ASSUME NEW k \in 1 .. n PROVE (s \o t)[m + k] = t[k]
  <2>1. m + k \in 1 .. m + n /\ ~(m + k <= m) /\ (m + k) - m = k
    OBVIOUS
  <2> DEFINE j == m + k
  <2>2. j \in 1 .. m + n /\ ~(j <= m) /\ j - m = k
    BY <2>1
  <2> HIDE DEF j
  <2>3. (s \o t)[j] = t[k]
    BY <2>2, <1>2
  <2> QED BY <2>3 DEF j
<1> QED BY <1>1, <1>3, <1>4

(* The same, as one fact about s and t.                                      *)
Joinable(s, t, m, n) ==
    /\ s \in Seq(Steps) /\ t \in Seq(Steps) /\ m \in Nat /\ n \in Nat /\ Len(s) = m /\ Len(t) = n
Joined(s, t, m, n) ==
    /\ s \o t \in Seq(Steps) /\ Len(s \o t) = m + n
    /\ \A k \in 1 .. m : (s \o t)[k] = s[k]
    /\ \A k \in 1 .. n : (s \o t)[m + k] = t[k]

LEMMA BpJoins ==
    ASSUME NEW s, NEW t, NEW m, NEW n, Joinable(s, t, m, n)
    PROVE  Joined(s, t, m, n)
BY BpJoined DEF Joinable, Joined

OpenStep(s, k) ==
    /\ k \in {1, 8, 9} => s = Send(15)
    /\ k \in {2, 6, 10, 14, 16, 17} => s = Flush
    /\ k \in {3, 11} => s = Send(13)
    /\ k \in {4, 12} => s = Step("prompt", 0, 1)
    /\ k \in {5, 13} => s = Send(35)
    /\ k \in {7, 15} => s = Step("enter", 0, 1)

ModeByte(c) == IF c.p = "spi" THEN 1 ELSE 2
LaterStep(s) ==
    \/ s = Flush
    \/ s \in {Send(b) : b \in Nat \ {0, 5, 8}}
    \/ s = Read(4)
SettingLen(c) == IF c.p = "spi" THEN 26 ELSE IF c.scan THEN 31 ELSE 24
SettingStep(c, s, k) ==
    /\ k \in 1 .. 17 => OpenStep(s, k)
    /\ k = 18 => s = Step("enter", ModeByte(c), 0)
    /\ k > 18 /\ k < SettingLen(c) - 1 => LaterStep(s)
    /\ k = SettingLen(c) - 1 => s = IF Scanning(c) THEN Close ELSE Flush
    /\ k = SettingLen(c) => s = Opened0

LEMMA BpSteps ==
    /\ \A b \in Nat : Send(b) \in Steps
    /\ \A n \in Nat : Read(n) \in Steps
    /\ {Flush, Close, InitStep, Opened0, Opened1, ClosedStep, Gate, CsLow, CsHigh, Fail, Done} \subseteq Steps
    /\ {Step("prompt", 0, 1), Step("enter", 0, 1), Step("enter", 1, 0), Step("enter", 2, 0),
        Step("closed", 0, 0)} \subseteq Steps
<1>1. (\A b \in Nat : Send(b) \in Steps) /\ \A n \in Nat : Read(n) \in Steps
  BY DEF Send, Read, Step, Steps, StepNames
<1>2. /\ Flush \in Steps /\ Close \in Steps /\ InitStep \in Steps /\ Opened0 \in Steps
      /\ Opened1 \in Steps /\ ClosedStep \in Steps
  BY DEF Flush, Close, InitStep, Opened0, Opened1, ClosedStep, Step, Steps, StepNames
<1>3. Gate \in Steps /\ CsLow \in Steps /\ CsHigh \in Steps /\ Fail \in Steps /\ Done \in Steps
  BY DEF Gate, CsLow, CsHigh, Fail, Done, Step, Steps, StepNames
<1>4. /\ Step("prompt", 0, 1) \in Steps /\ Step("enter", 0, 1) \in Steps
      /\ Step("enter", 1, 0) \in Steps /\ Step("enter", 2, 0) \in Steps /\ Step("closed", 0, 0) \in Steps
  BY DEF Step, Steps, StepNames
<1> QED BY <1>1, <1>2, <1>3, <1>4

LEMMA BpBinMode ==
    /\ EnterBINMode \in Seq(Steps) /\ Len(EnterBINMode) = 7
    /\ \A k \in 1 .. 7 : OpenStep(EnterBINMode[k], k) /\ OpenStep(EnterBINMode[k], 8 + k)
<1>1. EnterBINMode \in Seq(Steps) /\ Len(EnterBINMode) = 7
  BY BpSteps DEF EnterBINMode
<1>2. /\ EnterBINMode[1] = Send(15) /\ EnterBINMode[2] = Flush /\ EnterBINMode[3] = Send(13)
      /\ EnterBINMode[4] = Step("prompt", 0, 1) /\ EnterBINMode[5] = Send(35)
      /\ EnterBINMode[6] = Flush /\ EnterBINMode[7] = Step("enter", 0, 1)
  BY DEF EnterBINMode
<1> QED BY <1>1, <1>2 DEF OpenStep

LEMMA BpReset ==
    /\ ResetBusPirate \in Seq(Steps) /\ Len(ResetBusPirate) = 8
    /\ \A k \in 1 .. 8 : OpenStep(ResetBusPirate[k], k)
<1> DEFINE E == EnterBINMode
           L == <<Send(15)>>
           R == E \o L
<1>1. E \in Seq(Steps) /\ Len(E) = 7 /\ \A k \in 1 .. 7 : OpenStep(E[k], k)
  BY BpBinMode
<1>2. L \in Seq(Steps) /\ Len(L) = 1 /\ L[1] = Send(15)
  BY BpSteps
<1>3. R \in Seq(Steps) /\ Len(R) = 7 + 1 /\ (\A k \in 1 .. 7 : R[k] = E[k]) /\ \A k \in 1 .. 1 : R[7 + k] = L[k]
  <2> HIDE DEF E, L
  <2> DEFINE m == 7
             n == 1
  <2>1. E \in Seq(Steps) /\ L \in Seq(Steps) /\ m \in Nat /\ n \in Nat /\ Len(E) = m /\ Len(L) = n
    BY <1>1, <1>2
  <2> HIDE DEF m, n
  <2>2. /\ E \o L \in Seq(Steps) /\ Len(E \o L) = m + n
        /\ \A k \in 1 .. m : (E \o L)[k] = E[k]
        /\ \A k \in 1 .. n : (E \o L)[m + k] = L[k]
    <3>1. Joinable(E, L, m, n)
      BY <2>1 DEF Joinable
    <3>2. Joined(E, L, m, n)
      BY <3>1, BpJoins
    <3> QED BY <3>2 DEF Joined
    <2> QED BY <2>2 DEF m, n
<1> HIDE DEF E, L, R
<1>4. ASSUME NEW k \in 1 .. 8 PROVE OpenStep(R[k], k)
  <2>1. CASE k \in 1 .. 7
    BY <2>1, <1>1, <1>3
  <2>2. CASE k = 8
    BY <2>2, <1>2, <1>3 DEF OpenStep
  <2> QED BY <2>1, <2>2
<1>5. ResetBusPirate = R
  BY DEF ResetBusPirate, E, L, R
<1> QED BY <1>3, <1>4, <1>5

LEMMA BpRaw ==
    /\ bhl_enter_raw_bitbang \in Seq(Steps) /\ Len(bhl_enter_raw_bitbang) = 16
    /\ \A k \in 1 .. 16 : OpenStep(bhl_enter_raw_bitbang[k], k)
<1> DEFINE R == ResetBusPirate
           E == EnterBINMode
           L == <<Flush>>
           Q == R \o E
           P == Q \o L
<1>1. R \in Seq(Steps) /\ Len(R) = 8 /\ \A k \in 1 .. 8 : OpenStep(R[k], k)
  BY BpReset
<1>2. E \in Seq(Steps) /\ Len(E) = 7 /\ \A k \in 1 .. 7 : OpenStep(E[k], 8 + k)
  BY BpBinMode
<1>3. L \in Seq(Steps) /\ Len(L) = 1 /\ L[1] = Flush
  BY BpSteps
<1> HIDE DEF R, E, L
<1>4. /\ Q \in Seq(Steps) /\ Len(Q) = 15 /\ (\A k \in 1 .. 8 : Q[k] = R[k])
      /\ \A k \in 1 .. 7 : Q[8 + k] = E[k]
  <2> DEFINE m == 8
             n == 7
  <2>1. R \in Seq(Steps) /\ E \in Seq(Steps) /\ m \in Nat /\ n \in Nat /\ Len(R) = m /\ Len(E) = n
    BY <1>1, <1>2
  <2> HIDE DEF m, n
  <2>2. /\ R \o E \in Seq(Steps) /\ Len(R \o E) = m + n
        /\ \A k \in 1 .. m : (R \o E)[k] = R[k]
        /\ \A k \in 1 .. n : (R \o E)[m + k] = E[k]
    <3>1. Joinable(R, E, m, n)
      BY <2>1 DEF Joinable
    <3>2. Joined(R, E, m, n)
      BY <3>1, BpJoins
    <3> QED BY <3>2 DEF Joined
  <2>3. m + n = 15
    BY DEF m, n
  <2> QED BY <2>2, <2>3 DEF m, n
<1> HIDE DEF Q
<1>5. /\ P \in Seq(Steps) /\ Len(P) = 16 /\ (\A k \in 1 .. 15 : P[k] = Q[k])
      /\ \A k \in 1 .. 1 : P[15 + k] = L[k]
  <2> DEFINE m == 15
             n == 1
  <2>1. Q \in Seq(Steps) /\ L \in Seq(Steps) /\ m \in Nat /\ n \in Nat /\ Len(Q) = m /\ Len(L) = n
    BY <1>3, <1>4
  <2> HIDE DEF m, n
  <2>2. /\ Q \o L \in Seq(Steps) /\ Len(Q \o L) = m + n
        /\ \A k \in 1 .. m : (Q \o L)[k] = Q[k]
        /\ \A k \in 1 .. n : (Q \o L)[m + k] = L[k]
    <3>1. Joinable(Q, L, m, n)
      BY <2>1 DEF Joinable
    <3>2. Joined(Q, L, m, n)
      BY <3>1, BpJoins
    <3> QED BY <3>2 DEF Joined
  <2>3. m + n = 16
    BY DEF m, n
  <2> QED BY <2>2, <2>3 DEF m, n
<1> HIDE DEF P
<1>6. ASSUME NEW k \in 1 .. 16 PROVE OpenStep(P[k], k)
  <2>1. CASE k \in 1 .. 8
    BY <2>1, <1>1, <1>4, <1>5
  <2>2. CASE k \in 9 .. 15
    <3> DEFINE j == k - 8
    <3>1. j \in 1 .. 7 /\ k = 8 + j
      BY <2>2
    <3> HIDE DEF j
    <3> QED BY <3>1, <2>2, <1>2, <1>4, <1>5
  <2>3. CASE k = 16
    BY <2>3, <1>3, <1>5 DEF OpenStep
  <2> QED BY <2>1, <2>2, <2>3
<1>7. bhl_enter_raw_bitbang = P
  BY DEF bhl_enter_raw_bitbang, P, Q, R, E, L
<1> QED BY <1>5, <1>6, <1>7

LEMMA BpClosing ==
    ASSUME NEW x, x \in Steps
    PROVE  /\ Closing(x) \in Seq(Steps) /\ Len(Closing(x)) = 10
           /\ \A k \in 1 .. 8 : OpenStep(Closing(x)[k], k)
           /\ Closing(x)[9] = Step("closed", 0, 0) /\ Closing(x)[10] = x
<1> DEFINE R == ResetBusPirate
           L == <<Step("closed", 0, 0)>>
           X == <<x>>
           Q == R \o L
           P == Q \o X
<1>1. R \in Seq(Steps) /\ Len(R) = 8 /\ \A k \in 1 .. 8 : OpenStep(R[k], k)
  BY BpReset
<1>2. L \in Seq(Steps) /\ Len(L) = 1 /\ L[1] = Step("closed", 0, 0)
  BY BpSteps
<1>3. X \in Seq(Steps) /\ Len(X) = 1 /\ X[1] = x
  OBVIOUS
<1> HIDE DEF R, L, X
<1>4. Q \in Seq(Steps) /\ Len(Q) = 9 /\ (\A k \in 1 .. 8 : Q[k] = R[k]) /\ \A k \in 1 .. 1 : Q[8 + k] = L[k]
  <2> DEFINE m == 8
             n == 1
  <2>1. R \in Seq(Steps) /\ L \in Seq(Steps) /\ m \in Nat /\ n \in Nat /\ Len(R) = m /\ Len(L) = n
    BY <1>1, <1>2
  <2> HIDE DEF m, n
  <2>2. /\ R \o L \in Seq(Steps) /\ Len(R \o L) = m + n
        /\ \A k \in 1 .. m : (R \o L)[k] = R[k]
        /\ \A k \in 1 .. n : (R \o L)[m + k] = L[k]
    <3>1. Joinable(R, L, m, n)
      BY <2>1 DEF Joinable
    <3>2. Joined(R, L, m, n)
      BY <3>1, BpJoins
    <3> QED BY <3>2 DEF Joined
  <2>3. m + n = 9
    BY DEF m, n
  <2> QED BY <2>2, <2>3 DEF m, n
<1> HIDE DEF Q
<1>5. P \in Seq(Steps) /\ Len(P) = 10 /\ (\A k \in 1 .. 9 : P[k] = Q[k]) /\ \A k \in 1 .. 1 : P[9 + k] = X[k]
  <2> DEFINE m == 9
             n == 1
  <2>1. Q \in Seq(Steps) /\ X \in Seq(Steps) /\ m \in Nat /\ n \in Nat /\ Len(Q) = m /\ Len(X) = n
    BY <1>3, <1>4
  <2> HIDE DEF m, n
  <2>2. /\ Q \o X \in Seq(Steps) /\ Len(Q \o X) = m + n
        /\ \A k \in 1 .. m : (Q \o X)[k] = Q[k]
        /\ \A k \in 1 .. n : (Q \o X)[m + k] = X[k]
    <3>1. Joinable(Q, X, m, n)
      BY <2>1 DEF Joinable
    <3>2. Joined(Q, X, m, n)
      BY <3>1, BpJoins
    <3> QED BY <3>2 DEF Joined
  <2>3. m + n = 10
    BY DEF m, n
  <2> QED BY <2>2, <2>3 DEF m, n
<1> HIDE DEF P
<1>6. P[9] = Step("closed", 0, 0) /\ P[10] = x
  BY <1>2, <1>3, <1>4, <1>5
<1>7. \A k \in 1 .. 8 : OpenStep(P[k], k)
  BY <1>1, <1>4, <1>5
<1>8. Closing(x) = P
  BY DEF Closing, CloseProgram, P, Q, R, L, X
<1> QED BY <1>5, <1>6, <1>7, <1>8

LEMMA BpSetting ==
    ASSUME NEW c, c \in Calls, c.k = "open"
    PROVE  /\ Setting(c) \in Seq(Steps) /\ Len(Setting(c)) = SettingLen(c)
           /\ \A k \in 1 .. SettingLen(c) : SettingStep(c, Setting(c)[k], k)
<1>0. c.p \in {"spi", "i2c"} /\ c.scan \in BOOLEAN
  BY DEF Calls
<1> DEFINE P == bhl_enter_raw_bitbang
           O == <<Opened0>>
<1>1. P \in Seq(Steps) /\ Len(P) = 16 /\ \A k \in 1 .. 16 : OpenStep(P[k], k)
  BY BpRaw
<1>2. O \in Seq(Steps) /\ Len(O) = 1 /\ O[1] = Opened0
  BY BpSteps
<1>3. CASE c.p = "spi"
  <2> DEFINE E == EnterSPIMode
             M == <<Flush, Send(64), Flush, Send(97), Send(130), Send(3), Flush>>
             Q == P \o E
             T == Q \o M
             A == T \o O
  <2>1. E \in Seq(Steps) /\ Len(E) = 2 /\ E[1] = Flush /\ E[2] = Step("enter", 1, 0)
    BY BpSteps DEF EnterSPIMode
  <2>2. /\ M \in Seq(Steps) /\ Len(M) = 7
        /\ M[1] = Flush /\ M[2] = Send(64) /\ M[3] = Flush /\ M[4] = Send(97)
        /\ M[5] = Send(130) /\ M[6] = Send(3) /\ M[7] = Flush
    BY BpSteps
  <2>3. \A k \in 1 .. 6 : LaterStep(M[k])
    <3> HIDE DEF M
    <3> QED BY <2>2 DEF LaterStep
  <2> HIDE DEF P, O, E, M
  <2>4. /\ Q \in Seq(Steps) /\ Len(Q) = 18 /\ (\A k \in 1 .. 16 : Q[k] = P[k])
        /\ \A k \in 1 .. 2 : Q[16 + k] = E[k]
    <3> DEFINE m == 16
               n == 2
    <3>1. P \in Seq(Steps) /\ E \in Seq(Steps) /\ m \in Nat /\ n \in Nat /\ Len(P) = m /\ Len(E) = n
      BY <1>1, <2>1
    <3> HIDE DEF m, n
    <3>2. /\ P \o E \in Seq(Steps) /\ Len(P \o E) = m + n
          /\ \A k \in 1 .. m : (P \o E)[k] = P[k]
          /\ \A k \in 1 .. n : (P \o E)[m + k] = E[k]
      <4>1. Joinable(P, E, m, n)
        BY <3>1 DEF Joinable
      <4>2. Joined(P, E, m, n)
        BY <4>1, BpJoins
      <4> QED BY <4>2 DEF Joined
    <3>3. m + n = 18
      BY DEF m, n
    <3> QED BY <3>2, <3>3 DEF m, n
  <2> HIDE DEF Q
  <2>5. /\ T \in Seq(Steps) /\ Len(T) = 25 /\ (\A k \in 1 .. 18 : T[k] = Q[k])
        /\ \A k \in 1 .. 7 : T[18 + k] = M[k]
    <3> DEFINE m == 18
               n == 7
    <3>1. Q \in Seq(Steps) /\ M \in Seq(Steps) /\ m \in Nat /\ n \in Nat /\ Len(Q) = m /\ Len(M) = n
      BY <2>2, <2>4
    <3> HIDE DEF m, n
    <3>2. /\ Q \o M \in Seq(Steps) /\ Len(Q \o M) = m + n
          /\ \A k \in 1 .. m : (Q \o M)[k] = Q[k]
          /\ \A k \in 1 .. n : (Q \o M)[m + k] = M[k]
      <4>1. Joinable(Q, M, m, n)
        BY <3>1 DEF Joinable
      <4>2. Joined(Q, M, m, n)
        BY <4>1, BpJoins
      <4> QED BY <4>2 DEF Joined
    <3>3. m + n = 25
      BY DEF m, n
    <3> QED BY <3>2, <3>3 DEF m, n
  <2> HIDE DEF T
  <2>6. /\ A \in Seq(Steps) /\ Len(A) = 26 /\ (\A k \in 1 .. 25 : A[k] = T[k])
        /\ \A k \in 1 .. 1 : A[25 + k] = O[k]
    <3> DEFINE m == 25
               n == 1
    <3>1. T \in Seq(Steps) /\ O \in Seq(Steps) /\ m \in Nat /\ n \in Nat /\ Len(T) = m /\ Len(O) = n
      BY <1>2, <2>5
    <3> HIDE DEF m, n
    <3>2. /\ T \o O \in Seq(Steps) /\ Len(T \o O) = m + n
          /\ \A k \in 1 .. m : (T \o O)[k] = T[k]
          /\ \A k \in 1 .. n : (T \o O)[m + k] = O[k]
      <4>1. Joinable(T, O, m, n)
        BY <3>1 DEF Joinable
      <4>2. Joined(T, O, m, n)
        BY <4>1, BpJoins
      <4> QED BY <4>2 DEF Joined
    <3>3. m + n = 26
      BY DEF m, n
    <3> QED BY <3>2, <3>3 DEF m, n
  <2> HIDE DEF A
  <2>7. SettingLen(c) = 26 /\ ~Scanning(c) /\ ModeByte(c) = 1
    BY <1>3 DEF SettingLen, Scanning, ModeByte
  <2>8. ASSUME NEW k \in 1 .. 26 PROVE SettingStep(c, A[k], k)
    <3>1. CASE k \in 1 .. 16
      <4>1. k \in 1 .. 18 /\ k \in 1 .. 25
        BY <3>1
      <4>2. A[k] = P[k] /\ OpenStep(P[k], k)
        BY <3>1, <4>1, <1>1, <2>4, <2>5, <2>6
      <4> QED BY <3>1, <4>2, <2>7 DEF SettingStep
    <3>2. CASE k = 17 \/ k = 18
      <4> DEFINE j == k - 16
      <4>1. j \in 1 .. 2 /\ k = 16 + j /\ k \in 1 .. 18 /\ k \in 1 .. 25
        BY <3>2
      <4> HIDE DEF j
      <4>2. A[k] = E[j]
        <5>1. A[k] = T[k] /\ T[k] = Q[k]
          BY <4>1, <2>5, <2>6
        <5>2. Q[16 + j] = E[j]
          BY <4>1, <2>4
        <5> QED BY <4>1, <5>1, <5>2
      <4>3. A[k] = IF k = 17 THEN Flush ELSE Step("enter", 1, 0)
        BY <3>2, <4>1, <4>2, <2>1
      <4> QED BY <3>2, <4>3, <2>7 DEF SettingStep, OpenStep
    <3>3. CASE k \in 19 .. 25
      <4> DEFINE j == k - 18
      <4>1. j \in 1 .. 7 /\ k = 18 + j
        BY <3>3
      <4> HIDE DEF j
      <4>2. A[k] = M[j]
        <5>1. k \in 1 .. 25
          BY <3>3
        <5> QED BY <4>1, <5>1, <2>5, <2>6
      <4>3. CASE j \in 1 .. 6
        BY <4>1, <4>2, <4>3, <2>3, <2>7 DEF SettingStep
      <4>4. CASE j = 7
        BY <4>1, <4>2, <4>4, <2>2, <2>7 DEF SettingStep
      <4> QED BY <4>1, <4>3, <4>4
    <3>4. CASE k = 26
      BY <3>4, <1>2, <2>6, <2>7 DEF SettingStep
    <3> QED BY <3>1, <3>2, <3>3, <3>4
  <2>9. Setting(c) = A
    BY <1>3 DEF Setting, Setup, bhl_spi_setup, Periph, A, T, Q, M, E, O, P
  <2> QED BY <2>6, <2>7, <2>8, <2>9
<1>4. CASE c.p = "i2c"
  <2> DEFINE E == EnterI2CMode
             M == <<Flush, Send(97), Flush, Send(64), Flush>>
             Q == P \o E
             T == Q \o M
  <2>1. E \in Seq(Steps) /\ Len(E) = 2 /\ E[1] = Flush /\ E[2] = Step("enter", 2, 0)
    BY BpSteps DEF EnterI2CMode
  <2>2. /\ M \in Seq(Steps) /\ Len(M) = 5
        /\ M[1] = Flush /\ M[2] = Send(97) /\ M[3] = Flush /\ M[4] = Send(64) /\ M[5] = Flush
    BY BpSteps
  <2>3. \A k \in 1 .. 5 : LaterStep(M[k])
    <3> HIDE DEF M
    <3> QED BY <2>2 DEF LaterStep
  <2> HIDE DEF P, O, E, M
  <2>4. /\ Q \in Seq(Steps) /\ Len(Q) = 18 /\ (\A k \in 1 .. 16 : Q[k] = P[k])
        /\ \A k \in 1 .. 2 : Q[16 + k] = E[k]
    <3> DEFINE m == 16
               n == 2
    <3>1. P \in Seq(Steps) /\ E \in Seq(Steps) /\ m \in Nat /\ n \in Nat /\ Len(P) = m /\ Len(E) = n
      BY <1>1, <2>1
    <3> HIDE DEF m, n
    <3>2. /\ P \o E \in Seq(Steps) /\ Len(P \o E) = m + n
          /\ \A k \in 1 .. m : (P \o E)[k] = P[k]
          /\ \A k \in 1 .. n : (P \o E)[m + k] = E[k]
      <4>1. Joinable(P, E, m, n)
        BY <3>1 DEF Joinable
      <4>2. Joined(P, E, m, n)
        BY <4>1, BpJoins
      <4> QED BY <4>2 DEF Joined
    <3>3. m + n = 18
      BY DEF m, n
    <3> QED BY <3>2, <3>3 DEF m, n
  <2> HIDE DEF Q
  <2>5. /\ T \in Seq(Steps) /\ Len(T) = 23 /\ (\A k \in 1 .. 18 : T[k] = Q[k])
        /\ \A k \in 1 .. 5 : T[18 + k] = M[k]
    <3> DEFINE m == 18
               n == 5
    <3>1. Q \in Seq(Steps) /\ M \in Seq(Steps) /\ m \in Nat /\ n \in Nat /\ Len(Q) = m /\ Len(M) = n
      BY <2>2, <2>4
    <3> HIDE DEF m, n
    <3>2. /\ Q \o M \in Seq(Steps) /\ Len(Q \o M) = m + n
          /\ \A k \in 1 .. m : (Q \o M)[k] = Q[k]
          /\ \A k \in 1 .. n : (Q \o M)[m + k] = M[k]
      <4>1. Joinable(Q, M, m, n)
        BY <3>1 DEF Joinable
      <4>2. Joined(Q, M, m, n)
        BY <4>1, BpJoins
      <4> QED BY <4>2 DEF Joined
    <3>3. m + n = 23
      BY DEF m, n
    <3> QED BY <3>2, <3>3 DEF m, n
  <2> HIDE DEF T
  <2>6. ModeByte(c) = 2 /\ (Scanning(c) <=> c.scan)
    BY <1>4 DEF Scanning, ModeByte
  <2>7. ASSUME NEW k \in 1 .. 22, SettingLen(c) \in {24, 31} PROVE SettingStep(c, T[k], k)
    <3>1. CASE k \in 1 .. 16
      <4>1. k \in 1 .. 18
        BY <3>1
      <4>2. T[k] = P[k] /\ OpenStep(P[k], k)
        BY <3>1, <4>1, <1>1, <2>4, <2>5
      <4> QED BY <2>7, <3>1, <4>2 DEF SettingStep
    <3>2. CASE k = 17 \/ k = 18
      <4> DEFINE j == k - 16
      <4>1. j \in 1 .. 2 /\ k = 16 + j /\ k \in 1 .. 18
        BY <3>2
      <4> HIDE DEF j
      <4>2. T[k] = E[j]
        BY <4>1, <2>4, <2>5
      <4>3. T[k] = IF k = 17 THEN Flush ELSE Step("enter", 2, 0)
        BY <3>2, <4>1, <4>2, <2>1
      <4> QED BY <2>7, <3>2, <4>3, <2>6 DEF SettingStep, OpenStep
    <3>3. CASE k \in 19 .. 22
      <4> DEFINE j == k - 18
      <4>1. j \in 1 .. 5 /\ k = 18 + j
        BY <3>3
      <4> HIDE DEF j
      <4>2. T[k] = M[j]
        BY <4>1, <2>5
      <4> QED BY <2>7, <3>3, <4>1, <4>2, <2>3, <2>6 DEF SettingStep
    <3> QED BY <3>1, <3>2, <3>3
  <2>70. T[23] = Flush
    BY <2>2, <2>5, 18 + 5 = 23
  <2>8. CASE ~c.scan
    <3> DEFINE A == T \o O
    <3>1. /\ A \in Seq(Steps) /\ Len(A) = 24 /\ (\A k \in 1 .. 23 : A[k] = T[k])
          /\ \A k \in 1 .. 1 : A[23 + k] = O[k]
      <4> DEFINE m == 23
                 n == 1
      <4>1. T \in Seq(Steps) /\ O \in Seq(Steps) /\ m \in Nat /\ n \in Nat /\ Len(T) = m /\ Len(O) = n
        BY <1>2, <2>5
      <4> HIDE DEF m, n
      <4>2. /\ T \o O \in Seq(Steps) /\ Len(T \o O) = m + n
            /\ \A k \in 1 .. m : (T \o O)[k] = T[k]
            /\ \A k \in 1 .. n : (T \o O)[m + k] = O[k]
        <5>1. Joinable(T, O, m, n)
          BY <4>1 DEF Joinable
        <5>2. Joined(T, O, m, n)
          BY <5>1, BpJoins
        <5> QED BY <5>2 DEF Joined
      <4>3. m + n = 24
        BY DEF m, n
      <4> QED BY <4>2, <4>3 DEF m, n
    <3> HIDE DEF A
    <3>2. SettingLen(c) = 24 /\ ~Scanning(c)
      BY <1>4, <2>6, <2>8 DEF SettingLen
    <3>3. ASSUME NEW k \in 1 .. 24 PROVE SettingStep(c, A[k], k)
      <4>1. CASE k \in 1 .. 22
        <5>1. k \in 1 .. 23 /\ SettingStep(c, T[k], k)
          BY <4>1, <3>2, <2>7
        <5> QED BY <5>1, <3>1
      <4>2. CASE k = 23
        BY <4>2, <3>1, <3>2, <2>70 DEF SettingStep
      <4>3. CASE k = 24
        BY <4>3, <3>1, <3>2, <1>2 DEF SettingStep
      <4> QED BY <4>1, <4>2, <4>3
    <3>4. Setup(c) = T \o << >>
      BY <1>4, <2>8 DEF Setup, bhl_i2c_setup, Periph, T, Q, M, E, P
    <3>5. Setting(c) = A
      <4>1. T \o << >> = T
        BY <2>5
      <4> QED BY <3>4, <4>1 DEF Setting, A, O
    <3> QED BY <3>1, <3>2, <3>3, <3>5
  <2>9. CASE c.scan
    <3> DEFINE N == <<Flush, Send(2), Send(16), Send(3), Read(4), Flush>>
               C == <<Close>>
               Z == N \o C
               U == T \o Z
               A == U \o O
    <3>1. /\ N \in Seq(Steps) /\ Len(N) = 6
          /\ N[1] = Flush /\ N[2] = Send(2) /\ N[3] = Send(16) /\ N[4] = Send(3)
          /\ N[5] = Read(4) /\ N[6] = Flush
      BY BpSteps
    <3>2. \A k \in 1 .. 6 : LaterStep(N[k])
      <4> HIDE DEF N
      <4> QED BY <3>1 DEF LaterStep
    <3>3. C \in Seq(Steps) /\ Len(C) = 1 /\ C[1] = Close
      BY BpSteps
    <3> HIDE DEF N, C
    <3>4. /\ Z \in Seq(Steps) /\ Len(Z) = 7 /\ (\A k \in 1 .. 6 : Z[k] = N[k])
          /\ \A k \in 1 .. 1 : Z[6 + k] = C[k]
      <4> DEFINE m == 6
                 n == 1
      <4>1. N \in Seq(Steps) /\ C \in Seq(Steps) /\ m \in Nat /\ n \in Nat /\ Len(N) = m /\ Len(C) = n
        BY <3>1, <3>3
      <4> HIDE DEF m, n
      <4>2. /\ N \o C \in Seq(Steps) /\ Len(N \o C) = m + n
            /\ \A k \in 1 .. m : (N \o C)[k] = N[k]
            /\ \A k \in 1 .. n : (N \o C)[m + k] = C[k]
        <5>1. Joinable(N, C, m, n)
          BY <4>1 DEF Joinable
        <5>2. Joined(N, C, m, n)
          BY <5>1, BpJoins
        <5> QED BY <5>2 DEF Joined
      <4>3. m + n = 7
        BY DEF m, n
      <4> QED BY <4>2, <4>3 DEF m, n
    <3> HIDE DEF Z
    <3>5. /\ U \in Seq(Steps) /\ Len(U) = 30 /\ (\A k \in 1 .. 23 : U[k] = T[k])
          /\ \A k \in 1 .. 7 : U[23 + k] = Z[k]
      <4> DEFINE m == 23
                 n == 7
      <4>1. T \in Seq(Steps) /\ Z \in Seq(Steps) /\ m \in Nat /\ n \in Nat /\ Len(T) = m /\ Len(Z) = n
        BY <3>4, <2>5
      <4> HIDE DEF m, n
      <4>2. /\ T \o Z \in Seq(Steps) /\ Len(T \o Z) = m + n
            /\ \A k \in 1 .. m : (T \o Z)[k] = T[k]
            /\ \A k \in 1 .. n : (T \o Z)[m + k] = Z[k]
        <5>1. Joinable(T, Z, m, n)
          BY <4>1 DEF Joinable
        <5>2. Joined(T, Z, m, n)
          BY <5>1, BpJoins
        <5> QED BY <5>2 DEF Joined
      <4>3. m + n = 30
        BY DEF m, n
      <4> QED BY <4>2, <4>3 DEF m, n
    <3> HIDE DEF U
    <3>6. /\ A \in Seq(Steps) /\ Len(A) = 31 /\ (\A k \in 1 .. 30 : A[k] = U[k])
          /\ \A k \in 1 .. 1 : A[30 + k] = O[k]
      <4> DEFINE m == 30
                 n == 1
      <4>1. U \in Seq(Steps) /\ O \in Seq(Steps) /\ m \in Nat /\ n \in Nat /\ Len(U) = m /\ Len(O) = n
        BY <3>5, <1>2
      <4> HIDE DEF m, n
      <4>2. /\ U \o O \in Seq(Steps) /\ Len(U \o O) = m + n
            /\ \A k \in 1 .. m : (U \o O)[k] = U[k]
            /\ \A k \in 1 .. n : (U \o O)[m + k] = O[k]
        <5>1. Joinable(U, O, m, n)
          BY <4>1 DEF Joinable
        <5>2. Joined(U, O, m, n)
          BY <5>1, BpJoins
        <5> QED BY <5>2 DEF Joined
      <4>3. m + n = 31
        BY DEF m, n
      <4> QED BY <4>2, <4>3 DEF m, n
    <3> HIDE DEF A
    <3>7. SettingLen(c) = 31 /\ Scanning(c)
      BY <1>4, <2>6, <2>9 DEF SettingLen
    <3>8. ASSUME NEW k \in 1 .. 31 PROVE SettingStep(c, A[k], k)
      <4>1. CASE k \in 1 .. 22
        <5>1. k \in 1 .. 23 /\ k \in 1 .. 30 /\ SettingStep(c, T[k], k)
          BY <4>1, <3>7, <2>7
        <5> QED BY <5>1, <3>5, <3>6
      <4>2. CASE k = 23
        <5>1. k \in 1 .. 23 /\ k \in 1 .. 30
          BY <4>2
        <5>2. A[k] = Flush
          BY <4>2, <5>1, <3>5, <3>6, <2>70
        <5> QED BY <4>2, <5>2, <3>7 DEF SettingStep, LaterStep
      <4>3. CASE k \in 24 .. 29
        <5> DEFINE j == k - 23
        <5>1. j \in 1 .. 6 /\ k = 23 + j
          BY <4>3
        <5> HIDE DEF j
        <5>2. A[k] = N[j]
          <6>1. k \in 1 .. 30 /\ j \in 1 .. 7
            BY <4>3, <5>1
          <6> QED BY <5>1, <6>1, <3>4, <3>5, <3>6
        <5> QED BY <4>3, <5>1, <5>2, <3>2, <3>7 DEF SettingStep
      <4>4. CASE k = 30
        <5>1. A[30] = Close
          BY <3>3, <3>4, <3>5, <3>6, 23 + 7 = 30, 6 + 1 = 7
        <5> QED BY <4>4, <5>1, <3>7 DEF SettingStep
      <4>5. CASE k = 31
        BY <4>5, <3>6, <3>7, <1>2 DEF SettingStep
      <4> QED BY <4>1, <4>2, <4>3, <4>4, <4>5
    <3>9. Setting(c) = A
      BY <1>4, <2>9 DEF Setting, Setup, bhl_i2c_setup, bhl_i2c_scan, Periph, A, U, Z, C, N, T, Q, M, E, O, P
    <3> QED BY <3>6, <3>7, <3>8, <3>9
  <2> QED BY <1>0, <2>8, <2>9
<1> QED BY <1>0, <1>3, <1>4
-----------------------------------------------------------------------------
(* A place is what is left of a program.                                       *)
LEMMA BpPlace ==
    ASSUME NEW q, q \in Seq(Steps), NEW k, k \in 1 .. Len(q), run.todo = SubSeq(q, k, Len(q))
    PROVE  /\ run.todo # << >> /\ Now = q[k] /\ Tail(run.todo) = SubSeq(q, k + 1, Len(q))
           /\ k = Len(q) => Tail(run.todo) = << >>
<1>1. Len(q) \in Nat /\ Len(q) \in k .. Len(q) /\ k \in Int
  OBVIOUS
<1>2. Now = q[k] /\ Tail(run.todo) = SubSeq(q, k + 1, Len(q))
  <2>1. Head(SubSeq(q, k, Len(q))) = q[k]
        /\ Tail(SubSeq(q, k, Len(q))) = SubSeq(q, k + 1, Len(q))
    BY <1>1, HeadTailOfSubSeq
  <2> QED BY <2>1 DEF Now
<1>3. run.todo # << >>
  <2>1. /\ Len(SubSeq(q, k, Len(q))) = IF k <= Len(q) THEN Len(q) - k + 1 ELSE 0
    <3>1. \A i \in k .. Len(q) : q[i] \in Steps
      BY <1>1
    <3> QED BY <1>1, <3>1, SubSeqProperties
  <2>2. Len(SubSeq(q, k, Len(q))) >= 1
    BY <1>1, <2>1
  <2> QED BY <2>2
<1>4. k = Len(q) => Tail(run.todo) = << >>
  <2>1. k = Len(q) => SubSeq(q, k + 1, Len(q)) = << >>
    BY SubSeqEmpty
  <2> QED BY <1>2, <2>1
<1> QED BY <1>2, <1>3, <1>4

LEMMA BpWhole ==
    ASSUME NEW q \in Seq(Steps)
    PROVE  SubSeq(q, 1, Len(q)) = q
BY SubSeqFull

LEMMA BpLineAt ==
    ASSUME NEW k, NEW p
    PROVE  /\ k \in {1, 2, 8, 9, 10} => (LineAt(k, p) <=> StartLine) /\ (LineAt(k, p)' <=> StartLine')
           /\ k \in {3, 4, 5, 6, 11, 12, 13, 14} =>
                  (LineAt(k, p) <=> PreLine) /\ (LineAt(k, p)' <=> PreLine')
           /\ k \in {7, 15} => (LineAt(k, p) <=> EnterLine) /\ (LineAt(k, p)' <=> EnterLine')
           /\ k \in {16, 17} => (LineAt(k, p) <=> BitLine) /\ (LineAt(k, p)' <=> BitLine')
           /\ k = 18 /\ p = "spi" => (LineAt(k, p) <=> ModeLine(1)) /\ (LineAt(k, p)' <=> ModeLine(1)')
           /\ k = 18 /\ p # "spi" => (LineAt(k, p) <=> ModeLine(2)) /\ (LineAt(k, p)' <=> ModeLine(2)')
           /\ k \in Nat /\ k > 18 => (LineAt(k, p) <=> UpLine(p)) /\ (LineAt(k, p)' <=> UpLine(p)')
BY DEF LineAt

LEMMA BpEntZero ==
    ASSUME ent'.at = 0, ent'.recv.v # "I"
    PROVE  EntInv'
<1>1. Len(Word') \in {4, 5}
  <2>1. Word' \in {BBIO1, SPI1, I2C1}
    BY DEF Word
  <2>2. Len(BBIO1) = 5 /\ Len(SPI1) = 4 /\ Len(I2C1) = 4
    BY DEF BBIO1, SPI1, I2C1
  <2> QED BY <2>1, <2>2
<1>2. 0 <= Len(Word')
  BY <1>1
<1> QED BY <1>2 DEF EntInv

(* One step of the host on the way to bitbang mode.                            *)
LEMMA BpOpenHost ==
    ASSUME BpTypes, EntInv, ~Late, HostStep, NEW k \in 1 .. 17, NEW p, OpenStep(Now, k), LineAt(k, p)
    PROVE  /\ UNCHANGED <<dll, host, mem, out, dev, dirty>> /\ EntInv'
           /\ \/ run' = run /\ LineAt(k, p)'
              \/ run' = [run EXCEPT !.todo = Tail(run.todo)] /\ LineAt(k + 1, p)'
<1> DEFINE Goal == /\ UNCHANGED <<dll, host, mem, out, dev, dirty>> /\ EntInv'
                   /\ \/ run' = run /\ LineAt(k, p)'
                      \/ run' = [run EXCEPT !.todo = Tail(run.todo)] /\ LineAt(k + 1, p)'
<1>1. ASSUME NEW b \in Nat, Now = Send(b)
      PROVE  /\ UNCHANGED <<dll, host, mem, out, dev, dirty, rx>> /\ EntInv'
             /\ run' = [run EXCEPT !.todo = Tail(run.todo)]
             /\ tx' = Append(tx, [b |-> b, n |-> 0, new |-> TRUE])
  <2>1. Now.s = "send" /\ Now.b = b /\ Now.n = 0
    BY <1>1 DEF Send, Step
  <2>2. ComWrite
    BY <2>1, BpWhich
  <2>3. ent' = ent /\ ent.at = 0 /\ ent.recv.v # "I"
    BY <2>1, <2>2 DEF ComWrite, EntInv, Running
  <2> QED BY <2>1, <2>2, <2>3, BpEntZero DEF ComWrite, Advance, Continue, Rest
<1>2. ASSUME Now = Flush
      PROVE  /\ UNCHANGED <<dll, host, mem, out, dev, dirty>> /\ EntInv'
             /\ run' = [run EXCEPT !.todo = Tail(run.todo)] /\ FlushCOMIn
  <2>1. Now.s = "flush"
    BY <1>2 DEF Flush, Step
  <2>2. FlushCOMIn
    BY <2>1, BpWhich
  <2>3. ent' = ent /\ ent.at = 0 /\ ent.recv.v # "I"
    BY <2>1, <2>2 DEF FlushCOMIn, EntInv, Running
  <2> QED BY <2>2, <2>3, BpEntZero, BpFlushed
<1>3. CASE k \in {1, 8, 9}
  <2>1. Now = Send(15)
    BY <1>3 DEF OpenStep
  <2>2. StartLine'
    <3>1. StartLine
      BY <1>3, BpLineAt
    <3> QED BY <1>1, <2>1, <3>1, BpLineSend
  <2>3. LineAt(k + 1, p)'
    <3>1. k + 1 \in {1, 2, 8, 9, 10}
      BY <1>3
    <3> QED BY <3>1, <2>2, BpLineAt
  <2> QED BY <1>1, <2>1, <2>3
<1>4. CASE k \in {2, 10}
  <2>1. Now = Flush /\ StartLine
    BY <1>4, BpLineAt DEF OpenStep
  <2>2. PreLine'
    BY <1>2, <2>1, BpLineFlush
  <2>3. LineAt(k + 1, p)'
    <3>1. k + 1 \in {3, 4, 5, 6, 11, 12, 13, 14}
      BY <1>4
    <3> QED BY <3>1, <2>2, BpLineAt
  <2> QED BY <1>2, <2>1, <2>3
<1>5. CASE k \in {3, 5, 11, 13}
  <2>1. PICK b \in {13, 35} : Now = Send(b)
    BY <1>5 DEF OpenStep
  <2>2. PreLine'
    <3>1. PreLine /\ b \in Nat
      BY <1>5, BpLineAt
    <3> QED BY <1>1, <2>1, <3>1, BpLineSend
  <2>3. LineAt(k + 1, p)'
    <3>1. k + 1 \in {3, 4, 5, 6, 11, 12, 13, 14}
      BY <1>5
    <3> QED BY <3>1, <2>2, BpLineAt
  <2> QED BY <1>1, <2>1, <2>3
<1>6. CASE k \in {4, 12}
  <2>1. Now = Step("prompt", 0, 1) /\ PreLine
    BY <1>6, BpLineAt DEF OpenStep
  <2>2. Prompt /\ Now.s = "prompt"
    BY <2>1, BpWhich DEF Step
  <2>3. /\ Taken(1) /\ UNCHANGED <<dll, host, mem, out, tx, dev, dirty>>
        /\ run' = [run EXCEPT !.todo = Tail(run.todo)]
        /\ ent' = [ent EXCEPT !.recv = IF rx = << >> THEN NoByte ELSE Head(rx)]
    BY <2>2 DEF Prompt, Advance, Continue, Rest
  <2>4. PreLine'
    BY <2>1, <2>3, BpLineRead
  <2>5. EntInv'
    <3>1. ent'.at = ent.at /\ ent'.recv = IF rx = << >> THEN NoByte ELSE Head(rx)
      BY <2>3 DEF BpTypes
    <3>2. ent.at = 0
      BY <2>2 DEF EntInv, Running
    <3>3. rx # << >> => Head(rx).v # "I"
      BY <2>1 DEF PreLine, NoI, BpTypes
    <3>4. ent'.recv.v # "I"
      BY <3>1, <3>3 DEF NoByte, Byte
    <3> QED BY <3>1, <3>2, <3>4, BpEntZero
  <2>6. LineAt(k + 1, p)'
    <3>1. k + 1 \in {3, 4, 5, 6, 11, 12, 13, 14}
      BY <1>6
    <3> QED BY <3>1, <2>4, BpLineAt
  <2> QED BY <2>3, <2>5, <2>6
<1>7. CASE k \in {6, 14}
  <2>1. Now = Flush /\ PreLine
    BY <1>7, BpLineAt DEF OpenStep
  <2>2. EnterLine'
    BY <1>2, <2>1, BpLineFlush
  <2>3. LineAt(k + 1, p)'
    <3>1. k + 1 \in {7, 15}
      BY <1>7
    <3> QED BY <3>1, <2>2, BpLineAt
  <2> QED BY <1>2, <2>1, <2>3
<1>8. CASE k \in {7, 15}
  <2>1. Now = Step("enter", 0, 1) /\ EnterLine
    BY <1>8, BpLineAt DEF OpenStep
  <2>2. Now.s = "enter" /\ Now.b = 0 /\ Now.n = 1
    BY <2>1 DEF Step
  <2>3. Running("enter")
    BY <2>2, BpWhich DEF Running
  <2>4. /\ UNCHANGED <<dll, host, mem, out, dev, dirty>>
        /\ \/ run' = run /\ ent'.at \in 1 .. Len(Word) /\ EnterLine'
           \/ /\ run' = [run EXCEPT !.todo = Tail(run.todo)]
              /\ ent'.at = 0 /\ ent'.recv.v # "I" /\ BitLine'
    BY <2>1, <2>2, <2>3, BpWhich, BpLineEnter
  <2>5. CASE run' = run /\ ent'.at \in 1 .. Len(Word) /\ EnterLine'
    <3>1. EntInv'
      BY <2>3, <2>5 DEF EntInv, Running, Word, Now
    <3>2. LineAt(k, p)'
      BY <1>8, <2>5, BpLineAt
    <3> QED BY <2>4, <2>5, <3>1, <3>2
  <2>6. CASE /\ run' = [run EXCEPT !.todo = Tail(run.todo)]
             /\ ent'.at = 0 /\ ent'.recv.v # "I" /\ BitLine'
    <3>1. EntInv'
      BY <2>6, BpEntZero
    <3>2. StartLine'
      BY <2>6 DEF BitLine, Holds, StartLine, Without
    <3>3. LineAt(k + 1, p)'
      <4>1. k + 1 = 8 \/ k + 1 = 16
        BY <1>8
      <4> QED BY <2>6, <3>2, <4>1, BpLineAt
    <3> QED BY <2>4, <2>6, <3>1, <3>3
  <2> QED BY <2>4, <2>5, <2>6
<1>9. CASE k \in {16, 17}
  <2>1. Now = Flush /\ BitLine
    BY <1>9, BpLineAt DEF OpenStep
  <2>2. BitLine' /\ ModeLine(1)' /\ ModeLine(2)'
    BY <1>2, <2>1, BpLineFlush
  <2>3. LineAt(k + 1, p)'
    <3>1. k + 1 = 17 \/ k + 1 = 18
      BY <1>9
    <3> QED BY <3>1, <2>2, BpLineAt
  <2> QED BY <1>2, <2>1, <2>3
<1> QED BY <1>3, <1>4, <1>5, <1>6, <1>7, <1>8, <1>9
-----------------------------------------------------------------------------
(* Types.                                                                   *)
DllType == [com : BOOLEAN, last : {"none", "spi", "i2c"}, resetOnce : BOOLEAN,
            cs : {0, 1, 105}, endFast : BOOLEAN, spibug : BOOLEAN]
HostType == [open : BOOLEAN, i2c : BOOLEAN, resetEach : BOOLEAN]
EntType == [recv : Bytes, at : 0 .. 5, got : {0, 1}]
BpParts ==
    /\ dll \in DllType /\ host \in HostType
    /\ run.call \in Calls \cup {NoCall} /\ run.todo \in Seq(Steps)
    /\ run = [call |-> run.call, todo |-> run.todo]
    /\ ent \in EntType /\ mem \in [1 .. MaxSize -> Bytes]
    /\ tx \in Seq(Commands) /\ rx \in Seq(Bytes) /\ dev \in DevType
    /\ dirty \in Nat /\ (dll.spibug => dev.bug)

LEMMA BpTypesParts == (BpTypes <=> BpParts) /\ (BpTypes' <=> BpParts')
<1>1. BpTypes <=> BpParts
  <2>1. BpTypes => BpParts
    BY DEF BpTypes, BpParts, DllType, HostType, EntType, DevType, ZeroCounts
  <2>2. ASSUME BpParts PROVE run \in [call : Calls \cup {NoCall}, todo : Seq(Steps)]
    <3> DEFINE a == run.call
               b == run.todo
    <3>1. a \in Calls \cup {NoCall} /\ b \in Seq(Steps) /\ run = [call |-> a, todo |-> b]
      BY <2>2 DEF BpParts
    <3> HIDE DEF a, b
    <3> QED BY <3>1
  <2>3. ASSUME BpParts PROVE BpTypes
    BY <2>2, <2>3 DEF BpTypes, BpParts, DllType, HostType, EntType, DevType, ZeroCounts
  <2> QED BY <2>1, <2>3
<1>2. BpTypes' <=> BpParts'
  BY <1>1, PTL
<1> QED BY <1>1, <1>2

LEMMA BpNow ==
    ASSUME BpTypes, run.todo # << >>
    PROVE  /\ Now \in Steps /\ Now.b \in Nat /\ Now.n \in Nat /\ Rest \in Seq(Steps)
           /\ \A t \in Seq(Steps) :
                  Continue(t) => /\ run'.call = run.call /\ run'.todo = t
                                 /\ run' = [call |-> run'.call, todo |-> run'.todo]
<1>1. run \in [call : Calls \cup {NoCall}, todo : Seq(Steps)]
  BY DEF BpTypes
<1>2. Now \in Steps /\ Rest \in Seq(Steps)
  BY <1>1 DEF Now, Rest
<1>3. \A t \in Seq(Steps) : Continue(t) => /\ run'.call = run.call /\ run'.todo = t
                                           /\ run' = [call |-> run'.call, todo |-> run'.todo]
  BY <1>1 DEF Continue
<1> QED BY <1>2, <1>3 DEF Steps

LEMMA BpTypesHost ==
    ASSUME BpTypes, HostStep,
           EntInv, Running("init") => run.call \in Calls /\ run.call.k = "open",
           Running("enter") => Now.n \in {0, 1}
    PROVE  BpTypes'
<1>0. BpParts /\ run.todo # << >>
  BY BpTypesParts, BpWhich
<1>1. /\ Now \in Steps /\ Now.b \in Nat /\ Now.n \in Nat /\ Rest \in Seq(Steps)
      /\ \A t \in Seq(Steps) :
             Continue(t) => /\ run'.call = run.call /\ run'.todo = t
                            /\ run' = [call |-> run'.call, todo |-> run'.todo]
  BY <1>0, BpNow
<1>2. Advance => /\ run'.call = run.call /\ run'.todo = Rest
                 /\ run' = [call |-> run'.call, todo |-> run'.todo]
  BY <1>1 DEF Advance
<1> DEFINE RunOk == /\ run'.call = run.call /\ run'.todo \in Seq(Steps)
                    /\ run' = [call |-> run'.call, todo |-> run'.todo]
<1>3. Advance \/ UNCHANGED run \/ (\E t \in Seq(Steps) : Continue(t)) => RunOk
  BY <1>0, <1>1, <1>2 DEF BpParts
<1> HIDE DEF RunOk
<1>4. ASSUME RunOk, ent' \in EntType, mem' \in [1 .. MaxSize -> Bytes], tx' \in Seq(Commands),
             rx' \in Seq(Bytes), dirty' \in Nat, dll' \in DllType, host' \in HostType,
             dev' = dev, dll'.spibug => dev.bug
      PROVE  BpTypes'
  BY <1>0, <1>4, BpTypesParts DEF BpParts, RunOk
<1>5. ASSUME NEW n \in Nat, Taken(n) PROVE rx' \in Seq(Bytes)
  BY <1>5, BpTaken
<1>6. rx # << >> => Head(rx) \in Bytes
  BY <1>0 DEF BpParts
<1>7. NoByte \in Bytes
  BY DEF NoByte, Byte, Bytes, Value
<1>8. Now.s \in StepNames
  BY <1>1 DEF Steps
<1>9. ASSUME Now.s = "send" PROVE BpTypes'
  <2>1. ComWrite
    BY <1>9, BpWhich
  <2>2. tx' \in Seq(Commands)
    BY <1>1, <2>1, BpSent DEF ComWrite
  <2> QED BY <1>0, <1>3, <1>4, <2>1, <2>2 DEF ComWrite, BpParts
<1>10. ASSUME Now.s = "read" PROVE BpTypes'
  <2>1. ComReadBuff
    BY <1>10, BpWhich
  <2> QED BY <1>0, <1>1, <1>3, <1>4, <1>5, <2>1 DEF ComReadBuff, BpParts
<1>11. ASSUME Now.s = "flush" PROVE BpTypes'
  <2>1. FlushCOMIn
    BY <1>11, BpWhich
  <2> QED BY <1>0, <1>3, <1>4, <2>1 DEF FlushCOMIn, BpParts
<1>12. ASSUME Now.s = "prompt" PROVE BpTypes'
  <2>1. Prompt
    BY <1>12, BpWhich
  <2>2. ent' \in EntType
    BY <1>0, <1>6, <1>7, <2>1 DEF Prompt, BpParts, EntType
  <2> QED BY <1>0, <1>3, <1>4, <1>5, <2>1, <2>2 DEF Prompt, BpParts
<1>14. ASSUME Now.s = "gate" PROVE BpTypes'
  <2>1. EndFastGate
    BY <1>14, BpWhich
  <2>2. OnFailure \in Seq(Steps)
    BY BpSteps DEF OnFailure
  <2> QED BY <1>0, <1>3, <1>4, <2>1, <2>2 DEF EndFastGate, BpParts
<1>15. ASSUME Now.s = "return" PROVE BpTypes'
  <2>1. Return
    BY <1>15, BpWhich
  <2> QED BY <1>0, <1>3, <1>4, <2>1 DEF Return, BpParts
<1>16. ASSUME Now.s = "data" PROVE BpTypes'
  <2>1. ReadData
    BY <1>16, BpWhich
  <2>2. mem' \in [1 .. MaxSize -> Bytes]
    <3>1. \A i \in 1 .. MaxSize : i <= Given(Now.n) => i \in DOMAIN rx /\ rx[i] \in Bytes
      <4>1. Given(Now.n) \in 0 .. Len(rx) /\ Len(rx) \in Nat /\ DOMAIN rx = 1 .. Len(rx)
        BY <1>1, <2>1, BpTaken DEF ReadData
      <4>2. \A i \in DOMAIN rx : rx[i] \in Bytes
        BY <1>0 DEF BpParts
      <4>3. MaxSize \in Nat
        BY BuzzPiratAssumption
      <4> QED BY <4>1, <4>2, <4>3
    <3>2. mem' = [i \in 1 .. MaxSize |-> IF i <= Given(Now.n) THEN rx[i] ELSE mem[i]]
      BY <1>0, <2>1 DEF ReadData, Overlaid, BpParts
    <3> QED BY <1>0, <3>1, <3>2 DEF BpParts
  <2> QED BY <1>0, <1>1, <1>3, <1>4, <1>5, <2>1, <2>2 DEF ReadData, BpParts
<1>17. ASSUME Now.s = "readbyte" PROVE BpTypes'
  <2>1. ReadByte
    BY <1>17, BpWhich
  <2>2. mem' \in [1 .. MaxSize -> Bytes]
    BY <1>0, <1>6, <1>7, <2>1 DEF ReadByte, BpParts
  <2> QED BY <1>0, <1>1, <1>3, <1>4, <1>5, <2>1, <2>2 DEF ReadByte, BpParts
<1>18. ASSUME Now.s = "await" PROVE BpTypes'
  <2>1. AwaitSPI
    BY <1>18, BpWhich
  <2>2. OnFailure \in Seq(Steps)
    BY BpSteps DEF OnFailure
  <2>3. CASE dll.endFast
    BY <1>0, <1>3, <1>4, <2>1, <2>2, <2>3 DEF AwaitSPI, Cancelled, BpParts
  <2>4. CASE ~dll.endFast
    <3>2. mem' \in [1 .. MaxSize -> Bytes]
      BY <1>0, <1>6, <1>7, <2>1, <2>4 DEF AwaitSPI, BpParts
    <3> QED BY <1>0, <1>3, <1>4, <1>5, <2>1, <2>4, <3>2 DEF AwaitSPI, BpParts
  <2> QED BY <2>3, <2>4
<1>19. ASSUME Now.s = "awaiti2c" PROVE BpTypes'
  <2>1. AwaitI2C
    BY <1>19, BpWhich
  <2>2. OnFailure \in Seq(Steps)
    BY BpSteps DEF OnFailure
  <2> QED BY <1>0, <1>3, <1>4, <1>5, <2>1, <2>2 DEF AwaitI2C, Cancelled, BpParts
<1>20. ASSUME Now.s = "cs" PROVE BpTypes'
  <2>1. ChipSelect
    BY <1>20, BpWhich
  <2>2. CsTransfer \in Seq(Steps) /\ CsTransfer \o Rest \in Seq(Steps)
    <3>1. CsTransfer \in Seq(Steps)
      BY <1>1, BpSteps DEF CsTransfer
    <3> HIDE DEF CsTransfer
    <3> QED BY <1>1, <3>1
  <2>3. dll' \in DllType /\ (dll'.spibug => dev.bug)
    <3>1. dll' = dll \/ dll' = [dll EXCEPT !.cs = CsLevel]
      BY <2>1 DEF ChipSelect
    <3>2. CsLevel \in {0, 1}
      BY DEF CsLevel
    <3> HIDE DEF CsLevel
    <3> QED BY <1>0, <3>1, <3>2 DEF DllType, BpParts
  <2>4. RunOk
    <3>1. Advance \/ Continue(CsTransfer \o Rest)
      BY <2>1 DEF ChipSelect
    <3>2. Continue(CsTransfer \o Rest) => \E t \in Seq(Steps) : Continue(t)
      BY <2>2
    <3> QED BY <1>3, <3>1, <3>2
  <2> QED BY <1>0, <1>4, <2>1, <2>3, <2>4 DEF ChipSelect, BpParts
<1>21. ASSUME Now.s = "enter" PROVE BpTypes'
  <2>1. ent.recv \in Bytes /\ ent.at \in 0 .. 5 /\ ent.got \in {0, 1}
        /\ ent = [recv |-> ent.recv, at |-> ent.at, got |-> ent.got]
    BY <1>0 DEF BpParts, EntType
  <2>2. Running("enter") /\ Now.n \in {0, 1}
    BY <1>0, <1>21 DEF Running
  <2>3. CASE EnterBegin
    <3>1. ent' \in EntType
      BY <1>7, <2>1, <2>2, <2>3 DEF EnterBegin, EntType
    <3> QED BY <1>0, <1>3, <1>4, <2>3, <3>1 DEF EnterBegin, BpParts
  <2>4. CASE EnterAgain
    <3>1. ent' \in EntType
      BY <2>1, <2>4 DEF EnterAgain, EntType
    <3>2. tx' \in Seq(Commands)
      <4> DEFINE e == Now.b
      <4>1. tx' = Append(tx, [b |-> e, n |-> 0, new |-> TRUE]) /\ e \in Nat
        BY <1>1, <2>4 DEF EnterAgain
      <4> HIDE DEF e
      <4> QED BY <4>1, BpSent
    <3> QED BY <1>0, <1>3, <1>4, <2>4, <3>1, <3>2 DEF EnterAgain, BpParts
  <2>5. CASE EnterHave
    <3>1. ent' \in EntType
      BY <2>1, <2>5 DEF EnterHave, EntType
    <3> QED BY <1>0, <1>3, <1>4, <2>5, <3>1 DEF EnterHave, BpParts
  <2>6. CASE EnterRead
    <3>1. Round
      BY <2>6, BpRound
    <3>2. Taken(1) /\ GotAfter \in {0, 1} /\ ent'.got = GotAfter
      <4>1. Taken(1)
        BY <2>6 DEF EnterRead
      <4>2. Given(1) \in 0 .. Len(rx) /\ Given(1) <= 1
        BY <4>1, BpTaken
      <4>3. Given(1) \in {0, 1}
        BY <1>0, <4>2 DEF BpParts
      <4> QED BY <4>1, <4>3, <2>6 DEF EnterRead, GotAfter
    <3>3. ent'.recv \in Bytes
      BY <1>0, <2>1, <3>1 DEF Round, BpParts
    <3>4. ent'.at \in 0 .. 5
      <4>1. Len(Word) \in {4, 5}
        <5>1. Word \in {BBIO1, SPI1, I2C1}
          BY DEF Word
        <5>2. Len(BBIO1) = 5 /\ Len(SPI1) = 4 /\ Len(I2C1) = 4
          BY DEF BBIO1, SPI1, I2C1
        <5> QED BY <5>1, <5>2
      <4>2. ent.at <= Len(Word)
        BY <2>2 DEF EntInv
      <4>3. ent'.at \in {0, 1} \/ (ent'.at = ent.at + 1 /\ ent.at # Len(Word))
        BY <3>1 DEF Round
      <4> DEFINE L == Len(Word)
                 e == ent.at
      <4>4. L \in {4, 5} /\ e <= L /\ e \in 0 .. 5 /\ (ent'.at \in {0, 1} \/ (ent'.at = e + 1 /\ e # L))
        BY <2>1, <4>1, <4>2, <4>3
      <4> HIDE DEF L, e
      <4> QED BY <4>4
    <3>5. ent' \in EntType
      BY <3>1, <3>2, <3>3, <3>4 DEF Round, EntType
    <3>6. RunOk
      BY <1>3, <2>6 DEF EnterRead
    <3> QED BY <1>0, <1>4, <1>5, <2>6, <3>2, <3>5, <3>6 DEF EnterRead, BpParts
  <2> QED BY <1>21, <2>3, <2>4, <2>5, <2>6, BpWhich
<1>22. ASSUME Now.s = "init" PROVE BpTypes'
  <2> DEFINE c == run.call
  <2>1. InitCall /\ c \in Calls /\ c.k = "open" /\ c.p \in {"spi", "i2c"}
    <3>1. InitCall /\ Running("init")
      BY <1>0, <1>22, BpWhich DEF Running
    <3> QED BY <3>1 DEF Calls
  <2>2. PICK spibug, opens \in BOOLEAN :
           LET up == StillUp(c, dll.last, ~host.resetEach, dll.com)
           IN  /\ spibug => dev.bug
               /\ host' = [host EXCEPT !.open = FALSE]
               /\ dll' = [dll EXCEPT !.resetOnce = ~host.resetEach, !.endFast = FALSE,
                                     !.spibug = IF c.p = "spi" THEN spibug ELSE @,
                                     !.cs = CsForgotten(c),
                                     !.last = c.p, !.com = up \/ opens]
               /\ Continue(IF up THEN <<Opened1>>
                           ELSE IF opens THEN Setup(c) \o <<Opened0>>
                           ELSE <<ClosedStep>>)
    BY <2>1 DEF InitCall, Opened0, Opened1, ClosedStep
  <2>3. StillUp(c, dll.last, ~host.resetEach, dll.com) \in BOOLEAN /\ CsForgotten(c) \in {0, 1, 105}
    BY <1>0 DEF StillUp, CsForgotten, BpParts, DllType
  <2>4. dll' \in DllType /\ (dll'.spibug => dev.bug) /\ host' \in HostType
    <3> DEFINE up == StillUp(c, dll.last, ~host.resetEach, dll.com)
               cs == CsForgotten(c)
               p == c.p
               once == ~host.resetEach
    <3>1. up \in BOOLEAN /\ cs \in {0, 1, 105} /\ p \in {"spi", "i2c"} /\ once \in BOOLEAN
      BY <1>0, <2>1, <2>3 DEF BpParts, HostType
    <3>2. /\ (spibug => dev.bug) /\ host' = [host EXCEPT !.open = FALSE]
          /\ dll' = [dll EXCEPT !.resetOnce = once, !.endFast = FALSE,
                                !.spibug = IF p = "spi" THEN spibug ELSE @,
                                !.cs = cs, !.last = p, !.com = up \/ opens]
      BY <2>2
    <3> HIDE DEF up, cs, p, once
    <3>3. dll \in DllType /\ host \in HostType /\ (dll.spibug => dev.bug)
      BY <1>0 DEF BpParts
    <3>4. dll'.spibug = (IF p = "spi" THEN spibug ELSE dll.spibug)
      BY <3>2, <3>3 DEF DllType
    <3>5. dll' \in DllType
      <4> DEFINE bug == IF p = "spi" THEN spibug ELSE dll.spibug
                 com == up \/ opens
      <4>1. bug \in BOOLEAN /\ com \in BOOLEAN
        BY <3>1, <3>3 DEF DllType
      <4>2. dll' = [dll EXCEPT !.resetOnce = once, !.endFast = FALSE, !.spibug = bug,
                              !.cs = cs, !.last = p, !.com = com]
        BY <3>2
      <4> HIDE DEF bug, com
      <4>3. dll' = [com |-> com, last |-> p, resetOnce |-> once, cs |-> cs, endFast |-> FALSE,
                    spibug |-> bug]
        BY <4>2, <3>3 DEF DllType
      <4> QED BY <4>1, <4>3, <3>1 DEF DllType
    <3>6. host' \in HostType
      BY <3>2, <3>3 DEF HostType
    <3> QED BY <3>2, <3>3, <3>4, <3>5, <3>6
  <2>5. Setup(c) \o <<Opened0>> \in Seq(Steps)
    BY <2>1, BpSetting DEF Setting
  <2>6. <<Opened1>> \in Seq(Steps) /\ <<ClosedStep>> \in Seq(Steps)
    BY BpSteps
  <2>7. RunOk
    <3>1. Continue(<<Opened1>>) \/ Continue(Setup(c) \o <<Opened0>>) \/ Continue(<<ClosedStep>>)
      BY <2>2
    <3>2. \E t \in Seq(Steps) : Continue(t)
      BY <2>5, <2>6, <3>1
    <3> QED BY <1>3, <3>2
  <2> QED BY <1>0, <1>4, <2>1, <2>4, <2>7 DEF InitCall, BpParts
<1>23. ASSUME Now.s = "opened" PROVE BpTypes'
  <2>1. Opened
    BY <1>23, BpWhich
  <2>2. host' \in HostType /\ dirty' \in Nat
    <3>1. Scanning(run.call) \in BOOLEAN
      BY <1>0 DEF Scanning, BpParts, Calls, NoCall
    <3> QED BY <1>0, <2>1, <3>1 DEF Opened, BpParts, HostType
  <2> QED BY <1>0, <1>3, <1>4, <2>1, <2>2 DEF Opened, BpParts
<1>24. ASSUME Now.s = "close" PROVE BpTypes'
  <2>1. CloseCall
    BY <1>24, BpWhich
  <2>2. \E t \in Seq(Steps) : Continue(t)
    <3>1. CloseProgram \in Seq(Steps)
      <4>1. ResetBusPirate \in Seq(Steps) /\ <<Step("closed", 0, 0)>> \in Seq(Steps)
        BY BpReset, BpSteps
      <4> QED BY <4>1 DEF CloseProgram
    <3>2. CloseProgram \o Rest \in Seq(Steps) /\ << >> \o Rest \in Seq(Steps)
      <4> HIDE DEF CloseProgram
      <4> QED BY <1>1, <3>1
    <3> QED BY <2>1, <3>2 DEF CloseCall
  <2> QED BY <1>0, <1>3, <1>4, <2>1, <2>2 DEF CloseCall, BpParts
<1>25. ASSUME Now.s = "closed" PROVE BpTypes'
  <2>1. ComClose
    BY <1>25, BpWhich
  <2>2. dll' \in DllType /\ dll'.spibug = dll.spibug
    BY <1>0, <2>1 DEF ComClose, BpParts, DllType
  <2> QED BY <1>0, <1>3, <1>4, <2>1, <2>2 DEF ComClose, BpParts
<1>26. ASSUME Now.s = "isclosed" PROVE BpTypes'
  <2>1. IsClosed
    BY <1>26, BpWhich
  <2>2. host' \in HostType
    BY <1>0, <2>1 DEF IsClosed, BpParts, HostType
  <2> QED BY <1>0, <1>3, <1>4, <2>1, <2>2 DEF IsClosed, BpParts
<1> QED BY <1>8, <1>9, <1>10, <1>11, <1>12, <1>14, <1>15, <1>16, <1>17, <1>18, <1>19, <1>20,
           <1>21, <1>22, <1>23, <1>24, <1>25, <1>26 DEF StepNames
-----------------------------------------------------------------------------
(* The programs of the other calls, as their places are written.               *)
(* Concatenation as a name: the provers take \o apart where it stands.          *)
Cat(s, t) == s \o t

LEMMA BpAssoc ==
    /\ \A s, t \in Seq(Steps) : s \o t \in Seq(Steps)
    /\ \A s, t, u \in Seq(Steps) : (s \o t) \o u = s \o (t \o u)
    /\ \A s \in Seq(Steps) : << >> \o s = s /\ s \o << >> = s
    /\ \A x \in Steps : <<x>> \in Seq(Steps)
    /\ \A x, y \in Steps : <<x, y>> = Cat(<<x>>, <<y>>)
    /\ \A x, y, z \in Steps : <<x, y, z>> = Cat(<<x, y>>, <<z>>)
<1>1. \A s, t, u \in Seq(Steps) : (s \o t) \o u = s \o (t \o u)
  <2> SUFFICES ASSUME NEW s \in Seq(Steps), NEW t \in Seq(Steps), NEW u \in Seq(Steps)
               PROVE  (s \o t) \o u = s \o (t \o u)
    OBVIOUS
  <2> QED BY ConcatAssociative
<1>2. \A x, y \in Steps : <<x, y>> = Cat(<<x>>, <<y>>)
  <2> SUFFICES ASSUME NEW x \in Steps, NEW y \in Steps
               PROVE  <<x, y>> = Cat(<<x>>, <<y>>)
    OBVIOUS
  <2>1. <<x>> \in Seq(Steps) /\ <<y>> \in Seq(Steps) /\ <<x, y>> \in Seq(Steps)
    OBVIOUS
  <2>2. <<x>> \o <<y>> \in Seq(Steps) /\ Len(<<x>> \o <<y>>) = 2
        /\ (<<x>> \o <<y>>)[1] = x /\ (<<x>> \o <<y>>)[2] = y
    BY <2>1
  <2> DEFINE p == <<x, y>>
             q == <<x>> \o <<y>>
  <2>3. p \in Seq(Steps) /\ q \in Seq(Steps) /\ Len(p) = Len(q) /\ \A i \in 1 .. Len(p) : p[i] = q[i]
    BY <2>1, <2>2
  <2> HIDE DEF p, q
  <2>4. p = q
    BY <2>3, SeqEqual
  <2> QED BY <2>4 DEF p, q, Cat
<1>3. \A s, t \in Seq(Steps) : s \o t \in Seq(Steps)
  OBVIOUS
<1>4. \A s \in Seq(Steps) : << >> \o s = s /\ s \o << >> = s
  OBVIOUS
<1>5. \A x \in Steps : <<x>> \in Seq(Steps)
  OBVIOUS
<1>6. \A x, y, z \in Steps : <<x, y, z>> = Cat(<<x, y>>, <<z>>)
  <2> SUFFICES ASSUME NEW x \in Steps, NEW y \in Steps, NEW z \in Steps
               PROVE  <<x, y, z>> = Cat(<<x, y>>, <<z>>)
    OBVIOUS
  <2>1. <<x, y>> \in Seq(Steps) /\ <<z>> \in Seq(Steps) /\ <<x, y, z>> \in Seq(Steps)
    OBVIOUS
  <2>2. <<x, y>> \o <<z>> \in Seq(Steps) /\ Len(<<x, y>> \o <<z>>) = 3
        /\ (<<x, y>> \o <<z>>)[1] = x /\ (<<x, y>> \o <<z>>)[2] = y /\ (<<x, y>> \o <<z>>)[3] = z
    BY <2>1
  <2> DEFINE p == <<x, y, z>>
             q == <<x, y>> \o <<z>>
  <2>3. p \in Seq(Steps) /\ q \in Seq(Steps) /\ Len(p) = Len(q) /\ \A i \in 1 .. Len(p) : p[i] = q[i]
    BY <2>1, <2>2
  <2> HIDE DEF p, q
  <2>4. p = q
    BY <2>3, SeqEqual
  <2> QED BY <2>4 DEF p, q, Cat
<1> QED BY <1>1, <1>2, <1>3, <1>4, <1>5, <1>6

LEMMA BpCat ==
    /\ \A s, t \in Seq(Steps) : Cat(s, t) \in Seq(Steps)
    /\ \A s, t, u \in Seq(Steps) : Cat(Cat(s, t), u) = Cat(s, Cat(t, u))
<1>1. \A s, t \in Seq(Steps) : Cat(s, t) \in Seq(Steps)
  BY DEF Cat
<1>2. SUFFICES ASSUME NEW s \in Seq(Steps), NEW t \in Seq(Steps), NEW u \in Seq(Steps)
               PROVE  Cat(Cat(s, t), u) = Cat(s, Cat(t, u))
  BY <1>1
<1> QED BY ConcatAssociative DEF Cat

LEMMA BpNest ==
    ASSUME NEW l, l \in Seq(Steps), NEW s, s \in Seq(Steps), NEW a, a \in Seq(Steps),
           NEW d, d \in Seq(Steps), NEW e, e \in Seq(Steps)
    PROVE  /\ Cat(Cat(Cat(Cat(l, s), a), d), e) = Cat(l, Cat(s, Cat(a, Cat(d, e))))
           /\ Cat(l, Cat(s, Cat(a, Cat(d, e)))) \in Seq(Steps)
<1>2. /\ Cat(d, e) \in Seq(Steps) /\ Cat(a, Cat(d, e)) \in Seq(Steps)
      /\ Cat(s, Cat(a, Cat(d, e))) \in Seq(Steps) /\ Cat(l, Cat(s, Cat(a, Cat(d, e)))) \in Seq(Steps)
      /\ Cat(l, s) \in Seq(Steps) /\ Cat(Cat(l, s), a) \in Seq(Steps)
  BY BpCat
<1>3. Cat(Cat(Cat(Cat(l, s), a), d), e) = Cat(l, Cat(s, Cat(a, Cat(d, e))))
  <2>1. Cat(Cat(Cat(Cat(l, s), a), d), e) = Cat(Cat(Cat(l, s), a), Cat(d, e))
    BY <1>2, BpCat
  <2>2. Cat(Cat(Cat(l, s), a), Cat(d, e)) = Cat(Cat(l, s), Cat(a, Cat(d, e)))
    BY <1>2, BpCat
  <2>3. Cat(Cat(l, s), Cat(a, Cat(d, e))) = Cat(l, Cat(s, Cat(a, Cat(d, e))))
    BY <1>2, BpCat
  <2> QED BY <2>1, <2>2, <2>3
<1> QED BY <1>2, <1>3

LEMMA BpNestLong ==
    ASSUME NEW l, l \in Seq(Steps), NEW g, g \in Seq(Steps), NEW s, s \in Seq(Steps),
           NEW a, a \in Seq(Steps), NEW d, d \in Seq(Steps), NEW r, r \in Seq(Steps), NEW e, e \in Seq(Steps)
    PROVE  /\ Cat(Cat(Cat(l, Cat(Cat(Cat(g, s), a), d)), r), e)
                  = Cat(Cat(l, g), Cat(s, Cat(a, Cat(d, Cat(r, e)))))
           /\ Cat(Cat(l, g), Cat(s, Cat(a, Cat(d, Cat(r, e))))) \in Seq(Steps)
<1> DEFINE b == Cat(Cat(Cat(g, s), a), d)
           u == Cat(r, e)
           x == Cat(s, Cat(a, Cat(d, u)))
<1>1. /\ Cat(g, s) \in Seq(Steps) /\ Cat(Cat(g, s), a) \in Seq(Steps) /\ b \in Seq(Steps)
      /\ Cat(d, u) \in Seq(Steps) /\ Cat(a, Cat(d, u)) \in Seq(Steps) /\ u \in Seq(Steps)
      /\ x \in Seq(Steps) /\ Cat(l, g) \in Seq(Steps) /\ Cat(l, b) \in Seq(Steps)
      /\ Cat(Cat(l, g), x) \in Seq(Steps)
  BY BpCat
<1>2. Cat(Cat(Cat(l, b), r), e) = Cat(Cat(l, b), u)
  BY <1>1, BpCat
<1>3. Cat(Cat(l, b), u) = Cat(l, Cat(b, u))
  BY <1>1, BpCat
<1>4. Cat(b, u) = Cat(g, x)
  <2>1. Cat(b, u) = Cat(Cat(Cat(g, s), a), Cat(d, u))
    BY <1>1, BpCat
  <2>2. Cat(Cat(Cat(g, s), a), Cat(d, u)) = Cat(Cat(g, s), Cat(a, Cat(d, u)))
    BY <1>1, BpCat
  <2>3. Cat(Cat(g, s), Cat(a, Cat(d, u))) = Cat(g, x)
    BY <1>1, BpCat
  <2> QED BY <2>1, <2>2, <2>3
<1>5. Cat(l, Cat(g, x)) = Cat(Cat(l, g), x)
  BY <1>1, BpCat
<1>6. Cat(Cat(Cat(l, b), r), e) = Cat(Cat(l, g), x)
  BY <1>2, <1>3, <1>4, <1>5
<1> QED BY <1>1, <1>6

LEMMA BpPieces ==
    ASSUME NEW c, c \in Calls, c.k \in {"spi", "i2c"}
    PROVE  /\ c.n \in Sizes /\ c.n \in Nat
           /\ {Ending(c), DataPart(c), AwaitPart(c), CommandPart(c)} \subseteq Seq(Steps)
           /\ \A n \in Nat : /\ {Step("data", 0, n), SendFor(5, n), SendFor(8, n)} \subseteq Steps
                             /\ {Step("await", 0, 0), Step("awaiti2c", 0, 0)} \subseteq Steps
<1>1. c.n \in Sizes /\ c.n \in Nat
  BY BuzzPiratAssumption DEF Calls, Sizes
<1>2. \A n \in Nat : /\ {Step("data", 0, n), SendFor(5, n), SendFor(8, n)} \subseteq Steps
                     /\ {Step("await", 0, 0), Step("awaiti2c", 0, 0)} \subseteq Steps
  BY DEF Step, SendFor, Steps, StepNames
<1>3. Ending(c) \in Seq(Steps)
  BY BpSteps DEF Ending
<1>4. DataPart(c) \in Seq(Steps)
  <2>1. <<Step("data", 0, c.n)>> \in Seq(Steps)
    BY <1>1, <1>2
  <2> HIDE DEF Ending
  <2> QED BY <1>3, <2>1, BpAssoc DEF DataPart
<1>5. AwaitPart(c) \in Seq(Steps)
  <2>1. <<Step("await", 0, 0)>> \in Seq(Steps) /\ <<Step("awaiti2c", 0, 0)>> \in Seq(Steps)
    BY <1>2
  <2> QED BY <1>4, <2>1, BpAssoc DEF AwaitPart
<1>6. CommandPart(c) \in Seq(Steps)
  <2>1. <<SendFor(IF c.k = "spi" THEN 5 ELSE 8, c.n)>> \in Seq(Steps)
    BY <1>1, <1>2
  <2> QED BY <1>5, <2>1, BpAssoc DEF CommandPart
<1> QED BY <1>1, <1>2, <1>3, <1>4, <1>5, <1>6

LEMMA BpProgram ==
    ASSUME NEW c, c \in Calls
    PROVE  /\ Program(c) \in Seq(Steps)
           /\ c.k = "open" => Program(c) \in {<<InitStep>>, <<Close, InitStep>>}
           /\ c.k = "close" => Program(c) \in {<<ClosedStep>>, <<Close, ClosedStep>>}
           /\ c.k \notin {"open", "close"} => Program(c) \in QuietPlaces(c)
<1>1. CASE c.k \in {"open", "close"}
  <2>1. \A x \in Steps : <<Close>> \o <<x>> = <<Close, x>> /\ << >> \o <<x>> = <<x>>
    BY BpSteps, BpAssoc DEF Cat
  <2>2. Step("init", 0, 0) \in Steps /\ Step("isclosed", 0, 0) \in Steps
    BY BpSteps DEF InitStep, ClosedStep
  <2>3. DevClose \in {<<Close>>, << >>}
    BY DEF DevClose
  <2>4. c.k = "open" => Program(c) = DevClose \o <<Step("init", 0, 0)>>
    BY DEF Program
  <2>5. c.k = "close" => Program(c) = DevClose \o <<Step("isclosed", 0, 0)>>
    BY DEF Program
  <2>6. c.k = "open" => Program(c) \in {<<InitStep>>, <<Close, InitStep>>}
    BY <2>1, <2>2, <2>3, <2>4 DEF InitStep
  <2>7. c.k = "close" => Program(c) \in {<<ClosedStep>>, <<Close, ClosedStep>>}
    BY <2>1, <2>2, <2>3, <2>5 DEF ClosedStep
  <2>8. {<<InitStep>>, <<Close, InitStep>>, <<ClosedStep>>, <<Close, ClosedStep>>} \subseteq Seq(Steps)
    BY BpSteps
  <2> QED BY <1>1, <2>6, <2>7, <2>8
<1>2. CASE c.k \in {"start", "stop", "readbyte", "writebyte"}
  <2>1. Program(c) \in QuietPlaces(c)
    BY <1>2 DEF Program, QuietPlaces
  <2>2. Step("readbyte", 0, 3) \in Steps
    BY DEF Step, Steps, StepNames
  <2>3. Program(c) \in Seq(Steps)
    BY <1>2, <2>2, BpSteps DEF Program
  <2> QED BY <1>2, <2>1, <2>3
<1>3. CASE c.k = "spi"
  <2> DEFINE n == c.n
             g == <<Gate>>
             s == <<SendFor(5, n)>>
             a == IF n = 0 /\ dll.spibug THEN << >> ELSE <<Step("await", 0, 0)>>
             d == IF n > 0 THEN <<Step("data", 0, n)>> ELSE << >>
             r == IF c.release THEN <<CsHigh>> ELSE << >>
             l == <<CsLow>>
             e == <<Done>>
  <2>1. {g, s, a, d, r, l, e} \subseteq Seq(Steps) /\ <<Gate, SendFor(5, n)>> = Cat(g, s)
    <3>1. n \in Nat /\ SendFor(5, n) \in Steps /\ Step("await", 0, 0) \in Steps /\ Step("data", 0, n) \in Steps
      BY <1>3, BpPieces
    <3> HIDE DEF n
    <3> QED BY <3>1, BpSteps, BpAssoc
  <2>2. Program(c) = Cat(Cat(Cat(l, Cat(Cat(Cat(g, s), a), d)), r), e)
    <3>1. Program(c) = <<CsLow>> \o bhl_asprog_spi_readwrite_no_cs(n) \o r \o <<Done>>
      BY <1>3 DEF Program
    <3>2. bhl_asprog_spi_readwrite_no_cs(n) = <<Gate, SendFor(5, n)>> \o a \o d
      BY DEF bhl_asprog_spi_readwrite_no_cs
    <3>3. Program(c) = Cat(Cat(Cat(l, bhl_asprog_spi_readwrite_no_cs(n)), r), e)
      BY <3>1 DEF Cat
    <3>4. bhl_asprog_spi_readwrite_no_cs(n) = Cat(Cat(<<Gate, SendFor(5, n)>>, a), d)
      BY <3>2 DEF Cat
    <3> QED BY <2>1, <3>3, <3>4
  <2>0. \A x \in Seq(Steps) : Cat(<< >>, x) = x
    BY BpAssoc DEF Cat
  <2>3. Ending(c) = Cat(r, e)
    <3>1. <<CsHigh, Done>> = Cat(<<CsHigh>>, <<Done>>) /\ Cat(<< >>, <<Done>>) = <<Done>>
      BY <2>0, BpSteps, BpAssoc
    <3> QED BY <1>3, <3>1 DEF Ending
  <2>4. DataPart(c) = Cat(d, Ending(c))
    <3>1. DataPart(c) = IF n > 0 THEN Cat(<<Step("data", 0, n)>>, Ending(c)) ELSE Ending(c)
      BY DEF DataPart, Cat
    <3>2. Cat(<< >>, Ending(c)) = Ending(c)
      BY <1>3, <2>0, BpPieces
    <3> QED BY <3>1, <3>2
  <2>5. AwaitPart(c) = Cat(a, DataPart(c))
    <3>1. AwaitPart(c) = IF n = 0 /\ dll.spibug THEN DataPart(c) ELSE Cat(<<Step("await", 0, 0)>>, DataPart(c))
      BY <1>3 DEF AwaitPart, Cat
    <3>2. Cat(<< >>, DataPart(c)) = DataPart(c)
      BY <1>3, <2>0, BpPieces
    <3> QED BY <3>1, <3>2
  <2>6. CommandPart(c) = Cat(s, AwaitPart(c))
    BY <1>3 DEF CommandPart, Cat
  <2>7. <<CsLow, Gate>> = Cat(l, g)
    BY BpSteps, BpAssoc
  <2> HIDE DEF g, s, a, d, r, l, e
  <2>8. Program(c) = Cat(Cat(l, g), Cat(s, Cat(a, Cat(d, Cat(r, e))))) /\ Program(c) \in Seq(Steps)
    <3>1. /\ l \in Seq(Steps) /\ g \in Seq(Steps) /\ s \in Seq(Steps) /\ a \in Seq(Steps)
          /\ d \in Seq(Steps) /\ r \in Seq(Steps) /\ e \in Seq(Steps)
      BY <2>1
    <3> HIDE DEF Cat
    <3>2. /\ Cat(Cat(Cat(l, Cat(Cat(Cat(g, s), a), d)), r), e)
                  = Cat(Cat(l, g), Cat(s, Cat(a, Cat(d, Cat(r, e)))))
          /\ Cat(Cat(l, g), Cat(s, Cat(a, Cat(d, Cat(r, e))))) \in Seq(Steps)
      BY <3>1, BpNestLong, Zenon
    <3> QED BY <2>2, <3>2
  <2>9. Program(c) = <<CsLow, Gate>> \o CommandPart(c)
    BY <2>3, <2>4, <2>5, <2>6, <2>7, <2>8 DEF Cat
  <2> QED BY <1>3, <2>8, <2>9 DEF QuietPlaces
<1>4. CASE c.k = "i2c"
  <2> DEFINE n == c.n
             g == <<Gate>>
             s == <<SendFor(8, n)>>
             a == <<Step("awaiti2c", 0, 0)>>
             d == IF n > 0 THEN <<Step("data", 0, n)>> ELSE << >>
             e == <<Done>>
  <2>1. {g, s, a, d, e} \subseteq Seq(Steps)
    <3>1. n \in Nat /\ SendFor(8, n) \in Steps /\ Step("awaiti2c", 0, 0) \in Steps /\ Step("data", 0, n) \in Steps
      BY <1>4, BpPieces
    <3> HIDE DEF n
    <3> QED BY <3>1, BpSteps, BpAssoc
  <2>2. Program(c) = Cat(Cat(Cat(Cat(g, s), a), d), e)
    <3>1. SendFor(8, n) \in Steps /\ Step("awaiti2c", 0, 0) \in Steps /\ Gate \in Steps
      BY <1>4, BpPieces, BpSteps
    <3>2. <<Gate, SendFor(8, n), Step("awaiti2c", 0, 0)>> = Cat(Cat(g, s), a)
      BY <3>1, BpAssoc
    <3>3. Program(c) = Cat(bhl_asprog_i2c_readwrite(n), e)
      BY <1>4 DEF Program, Cat
    <3>4. bhl_asprog_i2c_readwrite(n) = Cat(<<Gate, SendFor(8, n), Step("awaiti2c", 0, 0)>>, d)
      BY DEF bhl_asprog_i2c_readwrite, Cat
    <3> QED BY <3>2, <3>3, <3>4
  <2>3. Ending(c) = e
    BY <1>4 DEF Ending
  <2>4. DataPart(c) = Cat(d, Ending(c))
    <3>1. DataPart(c) = IF n > 0 THEN Cat(<<Step("data", 0, n)>>, Ending(c)) ELSE Ending(c)
      BY DEF DataPart, Cat
    <3>2. Cat(<< >>, Ending(c)) = Ending(c)
      BY <1>4, BpPieces, BpAssoc DEF Cat
    <3> QED BY <3>1, <3>2
  <2>5. AwaitPart(c) = Cat(a, DataPart(c))
    BY <1>4 DEF AwaitPart, Cat
  <2>6. CommandPart(c) = Cat(s, AwaitPart(c))
    BY <1>4 DEF CommandPart, Cat
  <2> HIDE DEF g, s, a, d, e
  <2>8. Program(c) = Cat(g, Cat(s, Cat(a, Cat(d, e)))) /\ Program(c) \in Seq(Steps)
    BY <2>1, <2>2, BpNest
  <2>9. Program(c) = <<Gate>> \o CommandPart(c)
    BY <2>3, <2>4, <2>5, <2>6, <2>8 DEF g, Cat
  <2> QED BY <1>4, <2>8, <2>9 DEF QuietPlaces
<1> QED BY <1>1, <1>2, <1>3, <1>4 DEF Calls

(* Ageing changes nothing but what is new.                                    *)
LEMMA BpAged ==
    ASSUME BpTypes
    PROVE  /\ Aged(tx) \in Seq(Commands) /\ Len(Aged(tx)) = Len(tx) /\ DOMAIN Aged(tx) = DOMAIN tx
           /\ \A i \in DOMAIN tx : Aged(tx)[i].b = tx[i].b /\ Aged(tx)[i].n = tx[i].n
           /\ Aged(rx) \in Seq(Bytes) /\ Len(Aged(rx)) = Len(rx) /\ DOMAIN Aged(rx) = DOMAIN rx
           /\ \A i \in DOMAIN rx : Aged(rx)[i].v = rx[i].v
           /\ Aged(mem) \in [1 .. MaxSize -> Bytes]
<1>1. tx \in Seq(Commands) /\ rx \in Seq(Bytes) /\ mem \in [1 .. MaxSize -> Bytes]
  BY DEF BpTypes
<1>2. \A x \in Bytes : [x EXCEPT !.new = FALSE] \in Bytes /\ [x EXCEPT !.new = FALSE].v = x.v
  BY DEF Bytes
<1>3. \A x \in Commands : /\ [x EXCEPT !.new = FALSE] \in Commands
                          /\ [x EXCEPT !.new = FALSE].b = x.b /\ [x EXCEPT !.new = FALSE].n = x.n
  BY DEF Commands
<1> DEFINE t == [i \in DOMAIN tx |-> [tx[i] EXCEPT !.new = FALSE]]
           r == [i \in DOMAIN rx |-> [rx[i] EXCEPT !.new = FALSE]]
<1>4. t \in Seq(Commands) /\ Len(t) = Len(tx) /\ DOMAIN t = DOMAIN tx
      /\ \A i \in DOMAIN tx : t[i].b = tx[i].b /\ t[i].n = tx[i].n
  <2>1. DOMAIN tx = 1 .. Len(tx) /\ Len(tx) \in Nat /\ \A i \in DOMAIN tx : tx[i] \in Commands
    BY <1>1
  <2>2. t \in [1 .. Len(tx) -> Commands]
    BY <1>3, <2>1
  <2>3. DOMAIN t = DOMAIN tx /\ \A i \in DOMAIN tx : t[i].b = tx[i].b /\ t[i].n = tx[i].n
    BY <1>3, <2>1
  <2> HIDE DEF t
  <2> QED BY <2>1, <2>2, <2>3
<1>5. r \in Seq(Bytes) /\ Len(r) = Len(rx) /\ DOMAIN r = DOMAIN rx
      /\ \A i \in DOMAIN rx : r[i].v = rx[i].v
  <2>1. DOMAIN rx = 1 .. Len(rx) /\ Len(rx) \in Nat /\ \A i \in DOMAIN rx : rx[i] \in Bytes
    BY <1>1
  <2>2. r \in [1 .. Len(rx) -> Bytes]
    BY <1>2, <2>1
  <2>3. DOMAIN r = DOMAIN rx /\ \A i \in DOMAIN rx : r[i].v = rx[i].v
    BY <1>2, <2>1
  <2> HIDE DEF r
  <2> QED BY <2>1, <2>2, <2>3
<1>6. Aged(mem) \in [1 .. MaxSize -> Bytes]
  BY <1>1, <1>2 DEF Aged
<1> QED BY <1>4, <1>5, <1>6 DEF Aged

LEMMA BpTypesDevice ==
    ASSUME BpTypes, EntInv, DeviceStep
    PROVE  BpTypes' /\ EntInv'
<1>1. BpParts /\ tx # << >> /\ tx' = Tail(tx) /\ UNCHANGED <<dll, host, run, ent, mem, out, dirty>>
  BY BpTypesParts, BpDevice
<1>2. PICK a \in Seq(Bytes) : AnswersWith(Head(tx), a)
  BY BpDevice
<1>3. rx' = rx \o a /\ dev' \in DevType /\ dev'.bug = dev.bug
  BY <1>2 DEF AnswersWith
<1>4. rx' \in Seq(Bytes)
  BY <1>1, <1>3 DEF BpParts
<1>5. tx' \in Seq(Commands)
  BY <1>1 DEF BpParts
<1>6. BpParts'
  BY <1>1, <1>3, <1>4, <1>5 DEF BpParts
<1>7. EntInv'
  BY <1>1 DEF EntInv, Running, Now, Word
<1> QED BY <1>6, <1>7, BpTypesParts

LEMMA BpTypesCall ==
    ASSUME BpTypes, EntInv, NEW c, c \in Calls, Call(c)
    PROVE  BpTypes' /\ EntInv'
<1>1. BpParts
  BY BpTypesParts
<1>2. /\ run' = [call |-> c, todo |-> Program(c)] /\ mem' = Aged(mem) /\ tx' = Aged(tx) /\ rx' = Aged(rx)
      /\ ent' = [recv |-> NoByte, at |-> 0, got |-> 0] /\ UNCHANGED <<dll, host, dev>>
      /\ dirty' = IF dirty \in 1 .. MaxDirty THEN dirty + 1 ELSE dirty
  BY DEF Call
<1>3. ent' \in EntType
  BY <1>2 DEF EntType, NoByte, Byte, Bytes, Value
<1>4. dirty' \in Nat
  BY <1>1, <1>2 DEF BpParts
<1>5. run'.call = c /\ run'.todo = Program(c) /\ run' = [call |-> run'.call, todo |-> run'.todo]
      /\ Program(c) \in Seq(Steps)
  BY <1>2, BpProgram
<1>6. BpParts'
  BY <1>1, <1>2, <1>3, <1>4, <1>5, BpAged DEF BpParts
<1>7. EntInv'
  BY <1>2, BpEntZero DEF NoByte, Byte
<1> QED BY <1>6, <1>7, BpTypesParts

LEMMA BpTypesRest ==
    ASSUME BpTypes, EntInv, Escape \/ MenuResetEach \/ UNCHANGED vars
    PROVE  BpTypes' /\ EntInv'
<1>1. BpParts
  BY BpTypesParts
<1>2. UNCHANGED <<run, ent, mem, tx, rx, dev, dirty>>
  BY DEF Escape, MenuResetEach, vars
<1>3. dll' \in DllType /\ dll'.spibug = dll.spibug
  BY <1>1 DEF Escape, MenuResetEach, vars, BpParts, DllType
<1>4. host' \in HostType
  BY <1>1 DEF Escape, MenuResetEach, vars, BpParts, HostType
<1>5. BpParts'
  BY <1>1, <1>2, <1>3, <1>4 DEF BpParts
<1>6. EntInv'
  BY <1>2 DEF EntInv, Running, Now, Word
<1> QED BY <1>5, <1>6, BpTypesParts

LEMMA BpTypesInit ==
    ASSUME Init
    PROVE  BpTypes /\ EntInv
<1>1. dll \in DllType /\ host \in HostType /\ dll.spibug = FALSE
  BY DEF Init, DllType, HostType
<1>2. ent \in EntType /\ mem \in [1 .. MaxSize -> Bytes]
  BY DEF Init, EntType, NoByte, Byte, Bytes, Value
<1>3. dev \in DevType
  <2>1. Zeros \in ZeroCounts
    BY BuzzPiratAssumption DEF ZeroCounts
  <2> QED BY <2>1 DEF Init, DevType
<1>4. /\ run.call \in Calls \cup {NoCall} /\ run.todo \in Seq(Steps)
      /\ run = [call |-> run.call, todo |-> run.todo] /\ tx \in Seq(Commands) /\ rx \in Seq(Bytes)
      /\ dirty \in Nat
  BY DEF Init
<1>5. BpParts
  BY <1>1, <1>2, <1>3, <1>4 DEF BpParts
<1>6. EntInv
  <2>1. run.todo = << >> /\ ent.at = 0 /\ ent.recv.v # "I"
    BY DEF Init, NoByte, Byte
  <2> QED BY <2>1 DEF EntInv, Running
<1> QED BY <1>5, <1>6, BpTypesParts

LEMMA BpSingle ==
    ASSUME NEW s, s \in Seq(Steps), NEW x, Len(s) = 1, s[1] = x
    PROVE  s = <<x>>
<1>1. s[1] \in Steps
  OBVIOUS
<1>2. x \in Steps
  BY <1>1
<1> DEFINE t == <<x>>
<1>3. t \in Seq(Steps) /\ Len(t) = Len(s) /\ \A i \in 1 .. Len(s) : s[i] = t[i]
  BY <1>2
<1> HIDE DEF t
<1>4. s = t
  BY <1>3, SeqEqual
<1> QED BY <1>4 DEF t

LEMMA BpEntStay ==
    ASSUME EntInv, HostStep, Now.s \notin {"enter", "prompt"}
    PROVE  ent' = ent /\ EntInv'
<1>1. ~Running("enter") /\ ent.at = 0 /\ ent.recv.v # "I"
  BY DEF EntInv, Running
<1>2. ent' = ent
  BY DEF HostStep, ComWrite, ComReadBuff, FlushCOMIn, Prompt, EnterBegin, EnterAgain, EnterHave,
         EnterRead, ChipSelect, EndFastGate, AwaitSPI, AwaitI2C, ReadData, ReadByte, Return,
         InitCall, Opened, CloseCall, ComClose, IsClosed, Running
<1> QED BY <1>1, <1>2, BpEntZero

LEMMA BpLaterHost ==
    ASSUME BpTypes, EntInv, ~Late, HostStep, LaterStep(Now), NEW p \in {"spi", "i2c"}, UpLine(p)
    PROVE  /\ UNCHANGED <<dll, host, mem, out, dev, dirty>> /\ EntInv'
           /\ run' = [run EXCEPT !.todo = Tail(run.todo)] /\ UpLine(p)'
           /\ Now = Flush => tx' = << >> /\ rx' = << >>
<1>1. CASE Now = Flush
  <2>1. Now.s = "flush" /\ FlushCOMIn
    BY <1>1, BpWhich DEF Flush, Step
  <2>2. EntInv'
    BY <2>1, BpEntStay
  <2>3. UpLine(p)' /\ tx' = << >> /\ rx' = << >>
    BY <2>1, BpLineFlush
  <2> QED BY <2>1, <2>2, <2>3, BpFlushed
<1>2. CASE Now = Read(4)
  <2>1. Now.s = "read" /\ ComReadBuff /\ Now.n = 4
    BY <1>2, BpWhich DEF Read, Step
  <2>2. EntInv'
    BY <2>1, BpEntStay
  <2>3. UpLine(p)'
    BY <2>1, BpLineRead DEF ComReadBuff
  <2>4. Now # Flush
    BY <2>1 DEF Flush, Step
  <2> QED BY <2>1, <2>2, <2>3, <2>4 DEF ComReadBuff, Advance, Continue, Rest
<1>3. CASE Now \in {Send(b) : b \in Nat \ {0, 5, 8}}
  <2>0. PICK b \in Nat \ {0, 5, 8} : Now = Send(b)
    BY <1>3
  <2>1. Now.s = "send" /\ ComWrite /\ Now.b = b /\ Now.n = 0
    BY <2>0, BpWhich DEF Send, Step
  <2>2. EntInv'
    BY <2>1, BpEntStay
  <2>3. UpLine(p)'
    <3>1. tx' = Append(tx, [b |-> b, n |-> 0, new |-> TRUE]) /\ UNCHANGED <<rx, dev>>
      BY <2>1 DEF ComWrite
    <3> QED BY <3>1, BpLineSend
  <2>4. Now # Flush
    BY <2>1 DEF Flush, Step
  <2> QED BY <2>1, <2>2, <2>3, <2>4 DEF ComWrite, Advance, Continue, Rest
<1> QED BY <1>1, <1>2, <1>3 DEF LaterStep

(* One step of the host at a place of a setup.                                *)
LEMMA BpSettingHost ==
    ASSUME BpTypes, EntInv, OutInv, ~Late, HostStep, NEW k \in 1 .. 31, SettingInv(k)
    PROVE  /\ EntInv' /\ OutInv'
           /\ \/ \E j \in 1 .. 31 : SettingInv(j)'
              \/ Scanning(run'.call) /\ ClosingInv(Opened0, 1)'
              \/ IdleInv'
<1> DEFINE c == run.call
           q == Setting(c)
           L == SettingLen(c)
<1>1. c \in Calls /\ c.k = "open" /\ c.p \in {"spi", "i2c"}
  <2>1. c \in Calls \cup {NoCall} /\ c.k = "open"
    BY DEF BpTypes, SettingInv, AtSetting
  <2> QED BY <2>1 DEF NoCall, Calls
<1>2. q \in Seq(Steps) /\ Len(q) = L /\ L \in {24, 26, 31} /\ \A j \in 1 .. L : SettingStep(c, q[j], j)
  BY <1>1, BpSetting DEF SettingLen
<1>20. PICK p \in {"spi", "i2c"} : p = c.p
  BY <1>1
<1>3. /\ k \in 1 .. L /\ run.todo = SubSeq(q, k, L) /\ LineAt(k, p)
      /\ dll.com /\ dll.last = p /\ ~host.open /\ (p = "spi" => dll.cs = 105)
      /\ k = L => ~Scanning(c) /\ tx = << >> /\ rx = << >>
  BY <1>2, <1>20 DEF SettingInv, AtSetting
<1> HIDE DEF q, L
<1>21. L \in {24, 26, 31} /\ k \in Nat /\ 1 <= k /\ k <= L
  BY <1>2, <1>3
<1>4. run.todo # << >> /\ Now = q[k] /\ Tail(run.todo) = SubSeq(q, k + 1, L)
      /\ (k = L => Tail(run.todo) = << >>) /\ SettingStep(c, Now, k)
  <2>1. L \in Nat
    BY <1>2
  <2>2. run.todo # << >> /\ Now = q[k] /\ Tail(run.todo) = SubSeq(q, k + 1, L)
        /\ (k = L => Tail(run.todo) = << >>)
    <3>1. q \in Seq(Steps) /\ Len(q) = L /\ k \in 1 .. L /\ run.todo = SubSeq(q, k, L)
      BY <1>2, <1>3
    <3>2. k \in 1 .. Len(q) /\ run.todo = SubSeq(q, k, Len(q))
      BY <3>1
    <3>3. /\ run.todo # << >> /\ Now = q[k] /\ Tail(run.todo) = SubSeq(q, k + 1, Len(q))
          /\ (k = Len(q) => Tail(run.todo) = << >>)
      BY <3>1, <3>2, BpPlace
    <3> QED BY <3>1, <3>3
  <2> QED BY <1>2, <1>3, <2>2
<1>5. \A t : run' = [run EXCEPT !.todo = t] => run'.call = c /\ run'.todo = t
  BY DEF BpTypes
<1>6. ASSUME UNCHANGED <<dll, host, out>>, run' = [run EXCEPT !.todo = Tail(run.todo)], k < L,
             LineAt(k + 1, p)', k + 1 = L => ~Scanning(c) /\ tx' = << >> /\ rx' = << >>
      PROVE  OutInv' /\ \E j \in 1 .. 31 : SettingInv(j)'
  <2>1. k + 1 \in 1 .. L /\ k + 1 \in 1 .. 31
    <3>1. k < L
      BY <1>6
    <3> QED BY <1>21, <3>1
  <2>2. run'.call = c /\ run'.todo = SubSeq(q, k + 1, L)
    BY <1>4, <1>5, <1>6
  <2>3. SettingInv(k + 1)'
    <3>1. AtSetting(k + 1)'
      BY <1>1, <1>2, <2>1, <2>2 DEF AtSetting, q
    <3>2. LineAt(k + 1, run.call.p)'
      BY <1>6, <1>20, <2>2
    <3>3. Len(Setting(run'.call)) = L
      BY <1>2, <2>2 DEF q
    <3> QED BY <1>3, <1>6, <1>20, <2>2, <3>1, <3>2, <3>3 DEF SettingInv
  <2>4. OutInv'
    BY <1>4, <1>6 DEF OutInv
  <2> QED BY <2>1, <2>3, <2>4
<1>7. ASSUME UNCHANGED <<dll, host, out>>, run' = run, LineAt(k, p)', k # L
      PROVE  OutInv' /\ \E j \in 1 .. 31 : SettingInv(j)'
  <2>1. SettingInv(k)'
    <3>1. AtSetting(k)'
      BY <1>7 DEF SettingInv, AtSetting
    <3>2. LineAt(k, run.call.p)' /\ Len(Setting(run'.call)) = L
      BY <1>2, <1>7, <1>20 DEF q
    <3> QED BY <1>3, <1>7, <1>20, <3>1, <3>2 DEF SettingInv
  <2>2. OutInv'
    BY <1>4, <1>7 DEF OutInv
  <2> QED BY <2>1, <2>2
<1>8. CASE k \in 1 .. 17
  <2>1. OpenStep(Now, k)
    BY <1>4, <1>8 DEF SettingStep
  <2>2. /\ UNCHANGED <<dll, host, mem, out, dev, dirty>> /\ EntInv'
        /\ \/ run' = run /\ LineAt(k, p)'
           \/ run' = [run EXCEPT !.todo = Tail(run.todo)] /\ LineAt(k + 1, p)'
    BY <1>3, <1>8, <2>1, BpOpenHost
  <2>3. k < L /\ k # L /\ k + 1 # L
    BY <1>21, <1>8
  <2> QED BY <1>6, <1>7, <2>2, <2>3
<1>9. CASE k = 18
  <2>1. Now = Step("enter", ModeByte(c), 0)
    BY <1>4, <1>9 DEF SettingStep
  <2>2. Now.s = "enter" /\ Now.b = ModeByte(c) /\ Now.n = 0 /\ Now.b \in {1, 2} /\ Running("enter")
    BY <1>4, <2>1 DEF Step, ModeByte, Running
  <2>3. ModeLine(Now.b)
    BY <1>20, <1>3, <1>9, <2>2, BpLineAt DEF ModeByte
  <2>4. /\ UNCHANGED <<dll, host, mem, out, dev, dirty>>
        /\ \/ run' = run /\ ent'.at \in 1 .. Len(Word) /\ \A b \in {1, 2} : b = Now.b => ModeLine(b)'
           \/ /\ run' = [run EXCEPT !.todo = Tail(run.todo)] /\ ent'.at = 0 /\ ent'.recv.v # "I"
              /\ \A m \in {"spi", "i2c"} : m = ModeOf(Now.b) => UpLine(m)'
    BY <2>2, <2>3, BpWhich, BpLineEnter
  <2>5. CASE run' = run /\ ent'.at \in 1 .. Len(Word) /\ \A b \in {1, 2} : b = Now.b => ModeLine(b)'
    <3>1. EntInv'
      BY <2>2, <2>5 DEF EntInv, Running, Word, Now
    <3>2. LineAt(k, p)'
      <4>1. p = "spi" => ModeLine(1)'
        BY <1>20, <2>2, <2>5 DEF ModeByte
      <4>2. p # "spi" => ModeLine(2)'
        BY <1>20, <2>2, <2>5 DEF ModeByte
      <4> QED BY <1>9, <4>1, <4>2, BpLineAt
    <3>3. k # L
      BY <1>21, <1>9
    <3> QED BY <1>7, <2>4, <2>5, <3>1, <3>2, <3>3
  <2>6. CASE /\ run' = [run EXCEPT !.todo = Tail(run.todo)] /\ ent'.at = 0 /\ ent'.recv.v # "I"
             /\ \A m \in {"spi", "i2c"} : m = ModeOf(Now.b) => UpLine(m)'
    <3>1. EntInv'
      BY <2>6, BpEntZero
    <3>2. LineAt(k + 1, p)'
      <4>0. ModeOf(Now.b) = p
        BY <1>20, <2>2 DEF ModeOf, ModeByte
      <4>1. UpLine(p)'
        BY <2>6, <4>0
      <4>2. k + 1 \in Nat /\ k + 1 > 18
        BY <1>9
      <4> QED BY <4>1, <4>2, BpLineAt
    <3>3. k < L /\ k + 1 # L
      BY <1>21, <1>9
    <3> QED BY <1>6, <2>4, <2>6, <3>1, <3>2, <3>3
  <2> QED BY <2>4, <2>5, <2>6
<1>10. k > 18 => UpLine(p)
  BY <1>3, <1>21, BpLineAt
<1>11. CASE k > 18 /\ k < L /\ ~(k = L - 1 /\ Scanning(c))
  <2>1. LaterStep(Now) /\ (k = L - 1 => Now = Flush)
    <3>1. (k < L - 1 => LaterStep(Now)) /\ (k = L - 1 => Now = Flush)
      BY <1>4, <1>11 DEF SettingStep, L
    <3>2. k < L - 1 \/ k = L - 1
      BY <1>11, <1>21
    <3> QED BY <3>1, <3>2 DEF LaterStep
  <2>3. UpLine(p)
    BY <1>10, <1>11
  <2>4. /\ UNCHANGED <<dll, host, mem, out, dev, dirty>> /\ EntInv'
        /\ run' = [run EXCEPT !.todo = Tail(run.todo)] /\ UpLine(p)'
        /\ Now = Flush => tx' = << >> /\ rx' = << >>
    BY <2>1, <2>3, BpLaterHost
  <2>5. LineAt(k + 1, p)'
    <3>1. k + 1 \in Nat /\ k + 1 > 18
      BY <1>11, <1>21
    <3> QED BY <2>4, <3>1, BpLineAt
  <2>6. k + 1 = L => ~Scanning(c) /\ tx' = << >> /\ rx' = << >>
    <3>1. k + 1 = L => k = L - 1
      BY <1>21
    <3> QED BY <3>1, <1>11, <2>1, <2>4
  <2> QED BY <1>6, <1>11, <2>4, <2>5, <2>6
<1>12. CASE k > 18 /\ k = L - 1 /\ Scanning(c)
  <2>1. Now = Close /\ UpLine(p)
    BY <1>4, <1>10, <1>12 DEF SettingStep, L
  <2>2. Now.s = "close" /\ CloseCall
    BY <2>1, BpWhich DEF Close, Step
  <2>3. EntInv'
    BY <2>2, BpEntStay
  <2>4. Rest = <<Opened0>>
    <3>1. SubSeq(q, L, L) = <<q[L]>>
      <4>1. L \in 1 .. Len(q) /\ L \in Int
        BY <1>2, <1>21
      <4>2. \A i \in L .. L : q[i] \in Steps
        BY <1>2, <1>21
      <4>3. SubSeq(q, L, L) \in Seq(Steps) /\ Len(SubSeq(q, L, L)) = 1 /\ SubSeq(q, L, L)[1] = q[L]
        BY <4>1, <4>2, SubSeqProperties
      <4> QED BY <4>3, BpSingle
    <3>2. q[L] = Opened0
      BY <1>2, <1>21 DEF SettingStep, L
    <3>3. k + 1 = L
      BY <1>12, <1>21
    <3> QED BY <1>4, <3>1, <3>2, <3>3 DEF Rest
  <2>5. /\ run'.call = c /\ run'.todo = Closing(Opened0) /\ UNCHANGED <<dll, host, out, tx, rx, dev>>
    BY <1>3, <1>5, <2>2, <2>4 DEF CloseCall, Continue, Closing
  <2>6. AtClosing(Opened0, 1)'
    <3>1. Closing(Opened0) \in Seq(Steps) /\ Len(Closing(Opened0)) = 10
      BY BpClosing, BpSteps
    <3>2. SubSeq(Closing(Opened0), 1, 10) = Closing(Opened0)
      BY <3>1, BpWhole
    <3>3. Opened0 \in After(run'.call)
      BY <1>1, <1>12, <2>5 DEF After
    <3> QED BY <1>1, <2>5, <3>2, <3>3 DEF AtClosing
  <2>7. LineAt(1, "none")'
    <3>1. StartLine'
      BY <2>1, <2>5 DEF UpLine, StartLine, Without
    <3> QED BY <3>1, BpLineAt
  <2>8. OutInv'
    BY <1>4, <2>5 DEF OutInv
  <2>9. ClosingInv(Opened0, 1)'
    BY <1>3, <2>5, <2>6, <2>7 DEF ClosingInv
  <2> QED BY <1>12, <2>3, <2>5, <2>8, <2>9
<1>13. CASE k = L
  <2>1. Now = Opened0 /\ UpLine(p)
    BY <1>4, <1>10, <1>13, <1>21 DEF SettingStep, L
  <2>2. Now.s = "opened" /\ Opened /\ Now.b = 0
    BY <2>1, BpWhich DEF Opened0, Step
  <2>3. EntInv'
    BY <2>2, BpEntStay
  <2>4. /\ run'.call = c /\ run'.todo = << >> /\ UNCHANGED <<dll, out, tx, rx, dev>>
        /\ host' = [host EXCEPT !.open = ~Scanning(run.call), !.i2c = run.call.p = "i2c"]
        /\ dirty' = 0
    BY <1>4, <1>5, <1>13, <2>2 DEF Opened, Advance, Continue, Rest
  <2>5. Ready'
    <3>1. Session' /\ dev'.mode = dll'.last /\ dll'.com
      BY <1>3, <2>1, <2>4 DEF UpLine, Session, Without
    <3>2. dll'.last = "spi" => LevelKept'
      BY <1>3, <2>4 DEF LevelKept
    <3> QED BY <3>1, <3>2 DEF Ready
  <2>6. Quiet'
    BY <1>3, <1>13, <2>4 DEF Quiet
  <2>7. host'.open => dll'.com /\ host'.i2c = (dll'.last = "i2c")
    BY <1>3, <1>20, <2>4 DEF BpTypes
  <2>8. ~out.ok
    BY <1>4 DEF OutInv
  <2>9. IdleInv' /\ OutInv'
    BY <2>4, <2>5, <2>6, <2>7, <2>8 DEF IdleInv, OutInv, DataInStep
  <2> QED BY <2>3, <2>9
<1>14. k \in 1 .. 17 \/ k = 18 \/ (k > 18 /\ k < L) \/ k = L
  BY <1>21
<1> QED BY <1>8, <1>9, <1>11, <1>12, <1>13, <1>14

LEMMA BpClosingHost ==
    ASSUME BpTypes, EntInv, OutInv, ~Late, HostStep, NEW x, NEW k \in 1 .. 9, ClosingInv(x, k)
    PROVE  /\ EntInv' /\ OutInv'
           /\ \/ x \in After(run'.call) /\ \E j \in 1 .. 9 : ClosingInv(x, j)'
              \/ ShortInv'
<1> DEFINE c == run.call
           q == Closing(x)
<1>1. /\ c.k \in {"open", "close"} /\ x \in After(c) /\ run.todo = SubSeq(q, k, 10)
      /\ LineAt(k, "none") /\ dll.com /\ (x = Opened0 => ~host.open)
  BY DEF ClosingInv, AtClosing
<1>2. x \in {InitStep, Opened0, ClosedStep} /\ x \in Steps
  BY <1>1, BpSteps DEF After
<1>3. /\ q \in Seq(Steps) /\ Len(q) = 10 /\ \A j \in 1 .. 8 : OpenStep(q[j], j)
      /\ q[9] = Step("closed", 0, 0) /\ q[10] = x
  BY <1>2, BpClosing
<1> HIDE DEF q
<1>4. run.todo # << >> /\ Now = q[k] /\ Tail(run.todo) = SubSeq(q, k + 1, 10)
  <2>1. k \in 1 .. Len(q) /\ run.todo = SubSeq(q, k, Len(q))
    BY <1>1, <1>3
  <2>2. run.todo # << >> /\ Now = q[k] /\ Tail(run.todo) = SubSeq(q, k + 1, Len(q))
    BY <1>3, <2>1, BpPlace
  <2> QED BY <1>3, <2>2
<1>5. \A t : run' = [run EXCEPT !.todo = t] => run'.call = c /\ run'.todo = t
  BY DEF BpTypes
<1>6. CASE k \in 1 .. 8
  <2>1. OpenStep(Now, k) /\ k \in 1 .. 17
    BY <1>3, <1>4, <1>6
  <2>2. /\ UNCHANGED <<dll, host, mem, out, dev, dirty>> /\ EntInv'
        /\ \/ run' = run /\ LineAt(k, "none")'
           \/ run' = [run EXCEPT !.todo = Tail(run.todo)] /\ LineAt(k + 1, "none")'
    BY <1>1, <2>1, BpOpenHost
  <2>3. OutInv'
    BY <1>4, <2>2 DEF OutInv
  <2>4. CASE run' = run /\ LineAt(k, "none")'
    <3>1. ClosingInv(x, k)'
      BY <1>1, <2>2, <2>4 DEF ClosingInv, AtClosing, q
    <3> QED BY <1>1, <2>2, <2>3, <2>4, <3>1
  <2>5. CASE run' = [run EXCEPT !.todo = Tail(run.todo)] /\ LineAt(k + 1, "none")'
    <3>1. k + 1 \in 1 .. 9
      BY <1>6
    <3>2. run'.call = c /\ run'.todo = SubSeq(q, k + 1, 10)
      BY <1>4, <1>5, <2>5
    <3>3. ClosingInv(x, k + 1)'
      BY <1>1, <2>2, <2>5, <3>1, <3>2 DEF ClosingInv, AtClosing, q
    <3> QED BY <1>1, <2>2, <2>3, <3>1, <3>2, <3>3
  <2> QED BY <2>2, <2>4, <2>5
<1>7. CASE k = 9
  <2>1. Now = Step("closed", 0, 0) /\ StartLine
    BY <1>1, <1>3, <1>4, <1>7, BpLineAt
  <2>2. Now.s = "closed" /\ ComClose
    BY <2>1, BpWhich DEF Step
  <2>3. EntInv'
    BY <2>2, BpEntStay
  <2>4. SubSeq(q, 10, 10) = <<x>>
    <3>1. \A i \in 10 .. 10 : q[i] \in Steps
      BY <1>2, <1>3
    <3> DEFINE n == 10
    <3>2. n \in 1 .. Len(q) /\ n \in Int /\ n <= n /\ n - n + 1 = 1 /\ 1 \in 1 .. n - n + 1 /\ n + 1 - 1 = n
      BY <1>3
    <3> HIDE DEF n
    <3>3. SubSeq(q, n, n) \in Seq(Steps) /\ Len(SubSeq(q, n, n)) = 1 /\ SubSeq(q, n, n)[1] = q[n]
      BY <3>1, <3>2, SubSeqProperties DEF n
    <3> QED BY <3>3, <1>3, BpSingle DEF n
  <2>5. /\ run'.call = c /\ run'.todo = <<x>> /\ UNCHANGED <<host, out, tx, rx, dev, dirty>>
        /\ dll' = [dll EXCEPT !.com = FALSE]
    <3>1. k + 1 = 10
      BY <1>7
    <3> QED BY <1>4, <1>5, <2>2, <2>4, <3>1 DEF ComClose, Advance, Continue, Rest
  <2>6. dll'.com = FALSE
    BY <2>5 DEF BpTypes
  <2>7. AtShort'
    BY <1>1, <2>5, <2>6 DEF AtShort, After
  <2>8. Ready'
    BY <2>1, <2>5, <2>6 DEF Ready, StartLine, Session, Without
  <2>9. ShortInv' /\ OutInv'
    BY <1>4, <2>5, <2>6, <2>7, <2>8 DEF ShortInv, OutInv, Clean
  <2> QED BY <2>3, <2>9
<1>8. k \in 1 .. 8 \/ k = 9
  OBVIOUS
<1> QED BY <1>6, <1>7, <1>8

LEMMA BpShortHost ==
    ASSUME BpTypes, EntInv, OutInv, HostStep, ShortInv
    PROVE  /\ EntInv' /\ OutInv'
           /\ \/ IdleInv' \/ ShortInv' \/ SettingInv(1)'
              \/ \E x \in {InitStep, ClosedStep} : x \in After(run'.call) /\ ClosingInv(x, 1)'
<1> DEFINE c == run.call
<1>1. /\ AtShort /\ Ready /\ (Clean => Quiet)
  BY DEF ShortInv
<1>2. c \in Calls /\ c.k \in {"open", "close"} /\ (c.k = "open" => c.p \in {"spi", "i2c"})
  <2>1. c \in Calls \cup {NoCall} /\ c.k \in {"open", "close"}
    BY <1>1 DEF BpTypes, AtShort
  <2> QED BY <2>1 DEF NoCall, Calls
<1>3. \A t : run' = [run EXCEPT !.todo = t] => run'.call = c /\ run'.todo = t
  BY DEF BpTypes
<1>4. StartLine
  BY <1>1 DEF Ready, StartLine
<1>5. run.todo # << >> /\ ~out.ok
  BY BpWhich DEF OutInv
<1>6. \A x \in {InitStep, ClosedStep, Opened0, Opened1} : run.todo = <<x>> => Now = x /\ Rest = << >>
  BY DEF Now, Rest
<1>7. \A x \in {InitStep, ClosedStep} : run.todo = <<Close, x>> => Now = Close /\ Rest = <<x>>
  BY DEF Now, Rest
<1>8. CASE c.k = "open" /\ run.todo = <<InitStep>>
  <2>1. Now = InitStep
    BY <1>6, <1>8
  <2>2. Now.s = "init" /\ InitCall
    BY <2>1, BpWhich DEF InitStep, Step
  <2>3. EntInv'
    BY <2>2, BpEntStay
  <2>4. PICK p \in {"spi", "i2c"} : p = c.p
    BY <1>2, <1>8
  <2>5. PICK opens \in BOOLEAN :
           LET up == StillUp(c, dll.last, ~host.resetEach, dll.com)
           IN  /\ host' = [host EXCEPT !.open = FALSE]
               /\ dll'.cs = CsForgotten(c) /\ dll'.last = c.p /\ dll'.com = (up \/ opens)
               /\ Continue(IF up THEN <<Opened1>>
                           ELSE IF opens THEN Setup(c) \o <<Opened0>>
                           ELSE <<ClosedStep>>)
    BY <2>2 DEF InitCall, Opened0, Opened1, ClosedStep, BpTypes
  <2>6. UNCHANGED <<ent, mem, out, tx, rx, dev, dirty>>
    BY <2>2 DEF InitCall
  <2>7. host'.open = FALSE /\ OutInv'
    BY <1>5, <2>5, <2>6 DEF BpTypes, OutInv
  <2>8. dll'.last = p /\ (p = "spi" => dll'.cs = 105)
    BY <2>4, <2>5 DEF CsForgotten
  <2>9. StartLine'
    BY <1>4, <2>6 DEF StartLine, Session, Without
  <2> DEFINE up == StillUp(c, dll.last, ~host.resetEach, dll.com)
  <2>10. CASE up
    <3>1. run'.call = c /\ run'.todo = <<Opened1>> /\ dll'.com
      BY <1>3, <2>5, <2>10 DEF Continue
    <3>2. dll.last = p /\ dll.com /\ ~Scanning(c)
      BY <2>4, <2>10 DEF StillUp
    <3>3. AtShort'
      BY <1>8, <2>4, <2>8, <3>1, <3>2 DEF AtShort
    <3>4. Ready'
      <4>1. Session' /\ dev'.mode = dll'.last
        BY <1>1, <2>6, <2>8, <3>2 DEF Ready, Session, Without
      <4>2. dll'.last = "spi" => LevelKept'
        BY <2>8 DEF LevelKept
      <4> QED BY <3>1, <4>1, <4>2 DEF Ready
    <3>5. (Clean => Quiet)'
      BY <1>1, <2>6, <2>8, <3>2 DEF Clean, Quiet, Silent
    <3> QED BY <2>3, <2>7, <3>3, <3>4, <3>5 DEF ShortInv
  <2>11. CASE ~up /\ opens
    <3>1. run'.call = c /\ run'.todo = Setting(c) /\ dll'.com
      BY <1>3, <2>5, <2>11 DEF Continue, Setting
    <3>2. Setting(c) \in Seq(Steps) /\ Len(Setting(c)) = SettingLen(c)
      BY <1>2, <1>8, BpSetting
    <3>3. SubSeq(Setting(c), 1, Len(Setting(c))) = Setting(c)
      BY <3>2, BpWhole
    <3>4. 1 \in 1 .. Len(Setting(c)) /\ 1 # Len(Setting(c))
      BY <3>2 DEF SettingLen
    <3>5. AtSetting(1)'
      BY <1>8, <3>1, <3>3, <3>4 DEF AtSetting
    <3>6. LineAt(1, run.call.p)'
      BY <2>9, BpLineAt
    <3>7. SettingInv(1)'
      BY <2>4, <2>7, <2>8, <3>1, <3>4, <3>5, <3>6 DEF SettingInv
    <3> QED BY <2>3, <2>7, <3>7
  <2>12. CASE ~up /\ ~opens
    <3>1. run'.call = c /\ run'.todo = <<ClosedStep>> /\ ~dll'.com
      BY <1>3, <2>5, <2>12 DEF Continue
    <3>2. AtShort'
      BY <1>8, <3>1 DEF AtShort
    <3>3. ShortInv'
      BY <2>9, <3>1, <3>2 DEF ShortInv, Ready, Clean
    <3> QED BY <2>3, <2>7, <3>3
  <2> QED BY <2>10, <2>11, <2>12
<1>9. ASSUME NEW x \in {InitStep, ClosedStep}, x \in After(c), run.todo = <<Close, x>>,
             (c.k = "open" /\ x = InitStep) \/ x = ClosedStep
      PROVE  /\ EntInv' /\ OutInv'
             /\ \/ ShortInv'
                \/ x \in After(run'.call) /\ ClosingInv(x, 1)'
  <2>1. Now = Close /\ Rest = <<x>>
    BY <1>7, <1>9
  <2>2. Now.s = "close" /\ CloseCall
    BY <2>1, BpWhich DEF Close, Step
  <2>3. EntInv'
    BY <2>2, BpEntStay
  <2>4. UNCHANGED <<dll, host, ent, mem, out, tx, rx, dev, dirty>>
    BY <2>2 DEF CloseCall
  <2>5. OutInv'
    BY <1>5, <2>4 DEF OutInv
  <2>6. CASE dll.com
    <3>1. run'.call = c /\ run'.todo = Closing(x)
      BY <1>3, <2>1, <2>2, <2>6 DEF CloseCall, Continue, Closing
    <3>2. SubSeq(Closing(x), 1, 10) = Closing(x)
      <4>1. x \in Steps
        BY BpSteps
      <4>2. Closing(x) \in Seq(Steps) /\ Len(Closing(x)) = 10
        BY <4>1, BpClosing
      <4> QED BY <4>2, BpWhole
    <3>3. AtClosing(x, 1)'
      BY <1>2, <1>9, <3>1, <3>2 DEF AtClosing
    <3>4. StartLine'
      BY <1>4, <2>4 DEF StartLine, Session, Without
    <3>5. LineAt(1, "none")'
      BY <3>4, BpLineAt
    <3>6. x # Opened0
      BY DEF InitStep, ClosedStep, Opened0, Step
    <3>7. ClosingInv(x, 1)'
      BY <2>4, <2>6, <3>3, <3>5, <3>6 DEF ClosingInv
    <3> QED BY <1>9, <2>3, <2>5, <3>1, <3>7
  <2>7. CASE ~dll.com
    <3>1. run'.call = c /\ run'.todo = <<x>>
      <4>1. run'.todo = << >> \o <<x>> /\ run'.call = c
        BY <1>3, <2>1, <2>2, <2>7 DEF CloseCall, Continue
      <4> QED BY <4>1
    <3>2. AtShort'
      BY <1>2, <1>9, <3>1 DEF AtShort
    <3>3. Ready'
      BY <1>4, <2>4, <2>7 DEF Ready, StartLine, Session, Without
    <3>4. ShortInv'
      BY <2>4, <2>7, <3>2, <3>3 DEF ShortInv, Clean
    <3> QED BY <2>3, <2>5, <3>4
  <2> QED BY <2>6, <2>7
<1>10. CASE run.todo = <<ClosedStep>>
  <2>1. Now = ClosedStep /\ Rest = << >>
    BY <1>6, <1>10
  <2>2. Now.s = "isclosed" /\ IsClosed
    BY <2>1, BpWhich DEF ClosedStep, Step
  <2>3. EntInv'
    BY <2>2, BpEntStay
  <2>4. /\ run'.call = c /\ run'.todo = << >> /\ UNCHANGED <<dll, out, tx, rx, dev, dirty>>
        /\ host' = [host EXCEPT !.open = FALSE]
    BY <1>3, <2>1, <2>2 DEF IsClosed, Advance, Continue
  <2>5. host'.open = FALSE
    BY <2>4 DEF BpTypes
  <2>6. Ready' /\ (Clean => Quiet)'
    BY <1>1, <2>4 DEF Ready, Session, StartLine, LevelKept, Without, Clean, Quiet, Silent
  <2>7. IdleInv' /\ OutInv'
    BY <1>5, <2>4, <2>5, <2>6 DEF IdleInv, OutInv, DataInStep
  <2> QED BY <2>3, <2>7
<1>11. CASE /\ c.k = "open" /\ run.todo = <<Opened1>> /\ dll.com /\ dll.last = c.p /\ ~Scanning(c)
  <2>1. Now = Opened1 /\ Rest = << >>
    BY <1>6, <1>11
  <2>2. Now.s = "opened" /\ Opened /\ Now.b = 1
    BY <2>1, BpWhich DEF Opened1, Step
  <2>3. EntInv'
    BY <2>2, BpEntStay
  <2>4. /\ run'.call = c /\ run'.todo = << >> /\ UNCHANGED <<dll, out, tx, rx, dev, dirty>>
        /\ host' = [host EXCEPT !.open = ~Scanning(run.call), !.i2c = run.call.p = "i2c"]
    BY <1>3, <2>1, <2>2 DEF Opened, Advance, Continue
  <2>5. host'.open => dll'.com /\ host'.i2c = (dll'.last = "i2c")
    BY <1>11, <2>4 DEF BpTypes
  <2>6. Ready' /\ (Clean => Quiet)'
    BY <1>1, <2>4 DEF Ready, Session, StartLine, LevelKept, Without, Clean, Quiet, Silent
  <2>7. IdleInv' /\ OutInv'
    BY <1>5, <2>4, <2>5, <2>6 DEF IdleInv, OutInv, DataInStep
  <2> QED BY <2>3, <2>7
<1>12. CASE c.k = "open" /\ run.todo = <<Opened0>> /\ Scanning(c) /\ ~dll.com
  <2>1. Now = Opened0 /\ Rest = << >>
    BY <1>6, <1>12
  <2>2. Now.s = "opened" /\ Opened /\ Now.b = 0
    BY <2>1, BpWhich DEF Opened0, Step
  <2>3. EntInv'
    BY <2>2, BpEntStay
  <2>4. /\ run'.call = c /\ run'.todo = << >> /\ UNCHANGED <<dll, out, tx, rx, dev>>
        /\ host' = [host EXCEPT !.open = ~Scanning(run.call), !.i2c = run.call.p = "i2c"]
    BY <1>3, <2>1, <2>2 DEF Opened, Advance, Continue
  <2>5. host'.open = FALSE
    BY <1>12, <2>4 DEF BpTypes
  <2>6. Ready' /\ ~Clean'
    BY <1>4, <1>12, <2>4 DEF Ready, StartLine, Session, Without, Clean
  <2>7. IdleInv' /\ OutInv'
    BY <1>5, <2>4, <2>5, <2>6 DEF IdleInv, OutInv, DataInStep
  <2> QED BY <2>3, <2>7
<1>13. CASE c.k = "open" /\ run.todo = <<Close, InitStep>>
  <2>1. InitStep \in After(c)
    BY <1>13 DEF After
  <2> QED BY <1>9, <1>13, <2>1
<1>14. CASE c.k = "close" /\ run.todo = <<Close, ClosedStep>>
  <2>1. ClosedStep \in After(c)
    BY <1>14 DEF After
  <2> QED BY <1>9, <1>14, <2>1
<1> QED BY <1>1, <1>8, <1>10, <1>11, <1>12, <1>13, <1>14 DEF AtShort
-----------------------------------------------------------------------------
(* The line of a session while the device answers.                            *)
LEMMA BpAnswered ==
    ASSUME BpTypes, DeviceStep, Session
    PROVE  /\ UNCHANGED <<dll, host, run, ent, mem, out, dirty>>
           /\ DOMAIN tx = 1 .. Len(tx) /\ Len(tx) \in Nat \ {0} /\ tx[1] \in Commands /\ 1 \in DOMAIN tx
           /\ Len(tx') = Len(tx) - 1 /\ DOMAIN tx' = 1 .. Len(tx) - 1
           /\ \A i \in DOMAIN tx' : i + 1 \in DOMAIN tx /\ tx'[i] = tx[i + 1]
           /\ Session' /\ dev'.mode = dev.mode /\ dev'.bug = dev.bug
           /\ Silent(tx[1]) /\ dev.mode = dll.last => rx' = rx
           /\ dev.mode = "spi" =>
                  dev'.cs = IF tx[1].b = 2 THEN "low" ELSE IF tx[1].b = 3 THEN "high" ELSE dev.cs
<1>1. /\ UNCHANGED <<dll, host, run, ent, mem, out, dirty>>
      /\ DOMAIN tx = 1 .. Len(tx) /\ Len(tx) \in Nat \ {0} /\ tx[1] \in Commands /\ 1 \in DOMAIN tx
      /\ Len(tx') = Len(tx) - 1 /\ DOMAIN tx' = 1 .. Len(tx) - 1
      /\ \A i \in DOMAIN tx' : i + 1 \in DOMAIN tx /\ tx'[i] = tx[i + 1]
  <2>1. /\ UNCHANGED <<dll, host, run, ent, mem, out, dirty>>
        /\ DOMAIN tx = 1 .. Len(tx) /\ Len(tx) \in Nat \ {0} /\ tx[1] \in Commands
        /\ Len(tx') = Len(tx) - 1 /\ DOMAIN tx' = 1 .. Len(tx) - 1
        /\ \A i \in DOMAIN tx' : i + 1 \in DOMAIN tx /\ tx'[i] = tx[i + 1]
    BY BpAnswer
  <2>2. 1 \in 1 .. Len(tx)
    BY <2>1
  <2> QED BY <2>1, <2>2
<1>2. Session' /\ dev'.mode = dev.mode
  BY BpSession
<1>3. PICK a \in Seq(Bytes) : AnswersWith(tx[1], a)
  BY BpAnswer
<1>4. tx[1].b # 0 /\ dev'.bug = dev.bug /\ rx' = rx \o a
  BY <1>1, <1>3 DEF Session, Without, AnswersWith
<1>5. Silent(tx[1]) /\ dev.mode = dll.last => rx' = rx
  <2>1. Silent(tx[1]) /\ dev.mode = dll.last => a = << >>
    BY <1>3, <1>4 DEF Silent, AnswersWith
  <2>2. rx \in Seq(Bytes)
    BY DEF BpTypes
  <2>3. a = << >> => rx \o a = rx
    BY <2>2
  <2> QED BY <2>1, <2>3, <1>4
<1>6. dev.mode = "spi" =>
          dev'.cs = IF tx[1].b = 2 THEN "low" ELSE IF tx[1].b = 3 THEN "high" ELSE dev.cs
  BY <1>3, <1>4 DEF AnswersWith
<1> QED BY <1>1, <1>2, <1>4, <1>5, <1>6

LEMMA BpQuietDevice ==
    ASSUME BpTypes, DeviceStep, Session, dev.mode = dll.last, Quiet
    PROVE  Quiet'
<1>1. Silent(tx[1]) /\ rx = << >>
  BY BpAnswered DEF Quiet
<1>2. rx' = << >>
  BY <1>1, BpAnswered
<1>3. \A i \in DOMAIN tx' : dll'.last = "spi" /\ tx'[i].b = 5 /\ tx'[i].n = 0 /\ dev'.bug
  BY BpAnswered DEF Quiet, Silent
<1> QED BY <1>2, <1>3 DEF Quiet, Silent

LEMMA BpLevelDevice ==
    ASSUME BpTypes, DeviceStep, Session, dev.mode = "spi", LevelKept
    PROVE  LevelKept'
<1>1. SUFFICES ASSUME dll.cs # 105
               PROVE  /\ \A i \in DOMAIN tx' :
                             tx'[i].b \in {2, 3} /\ (\A j \in DOMAIN tx' : j > i => tx'[j].b \notin {2, 3})
                                 => Level(tx'[i].b) = dll.cs
                      /\ (Without({2, 3})' => dev'.cs = IF dll.cs = 0 THEN "low" ELSE "high")
  BY BpAnswered DEF LevelKept
<1>2. /\ \A i \in DOMAIN tx :
             tx[i].b \in {2, 3} /\ (\A j \in DOMAIN tx : j > i => tx[j].b \notin {2, 3})
                 => Level(tx[i].b) = dll.cs
      /\ (Without({2, 3}) => dev.cs = IF dll.cs = 0 THEN "low" ELSE "high")
  BY <1>1 DEF LevelKept
<1>3. ASSUME NEW i \in DOMAIN tx', tx'[i].b \in {2, 3},
             \A j \in DOMAIN tx' : j > i => tx'[j].b \notin {2, 3}
      PROVE  Level(tx'[i].b) = dll.cs
  <2>1. i + 1 \in DOMAIN tx /\ tx'[i] = tx[i + 1]
    BY BpAnswered
  <2>2. ASSUME NEW j \in DOMAIN tx, j > i + 1 PROVE tx[j].b \notin {2, 3}
    <3> DEFINE m == j - 1
    <3>1. m \in DOMAIN tx' /\ m > i /\ m + 1 = j
      BY <2>1, <2>2, BpAnswered
    <3>2. tx'[m] = tx[m + 1] /\ tx'[m].b \notin {2, 3}
      BY <1>3, <3>1, BpAnswered
    <3> QED BY <3>1, <3>2
  <2> QED BY <1>2, <1>3, <2>1, <2>2
<1>4. ASSUME Without({2, 3})' PROVE dev'.cs = IF dll.cs = 0 THEN "low" ELSE "high"
  <2>1. \A j \in DOMAIN tx : j > 1 => tx[j].b \notin {2, 3}
    <3> SUFFICES ASSUME NEW j \in DOMAIN tx, j > 1 PROVE tx[j].b \notin {2, 3}
      OBVIOUS
    <3> DEFINE m == j - 1
    <3>1. m \in DOMAIN tx' /\ m + 1 = j
      BY BpAnswered
    <3>2. tx'[m] = tx[m + 1] /\ tx'[m].b \notin {2, 3}
      BY <1>4, <3>1, BpAnswered DEF Without
    <3> QED BY <3>1, <3>2
  <2>2. CASE tx[1].b \in {2, 3}
    <3>1. Level(tx[1].b) = dll.cs
      BY <1>2, <2>1, <2>2, BpAnswered
    <3> QED BY <2>2, <3>1, BpAnswered DEF Level
  <2>3. CASE tx[1].b \notin {2, 3}
    <3>1. Without({2, 3})
      <4> SUFFICES ASSUME NEW j \in DOMAIN tx PROVE tx[j].b \notin {2, 3}
        BY DEF Without
      <4>1. j = 1 \/ j > 1
        BY BpAnswered
      <4> QED BY <2>1, <2>3, <4>1
    <3> QED BY <1>2, <2>3, <3>1, BpAnswered
  <2> QED BY <2>2, <2>3
<1> QED BY <1>3, <1>4

LEMMA BpReadyDevice ==
    ASSUME BpTypes, DeviceStep, Ready
    PROVE  Ready' /\ ((Clean => Quiet) => (Clean' => Quiet'))
<1>1. UNCHANGED <<dll, dirty>>
  BY BpAnswer
<1>2. CASE dll.com
  <2>1. Session /\ dev.mode = dll.last /\ (dll.last = "spi" => LevelKept)
    BY <1>2 DEF Ready
  <2>2. Session' /\ dev'.mode = dev.mode
    BY <2>1, BpSession
  <2>3. dll.last = "spi" => LevelKept'
    BY <2>1, BpLevelDevice
  <2>4. Quiet => Quiet'
    BY <2>1, BpQuietDevice
  <2> QED BY <1>1, <1>2, <2>1, <2>2, <2>3, <2>4 DEF Ready, Clean
<1>3. CASE ~dll.com
  <2>1. StartLine
    BY <1>3 DEF Ready
  <2>2. StartLine'
    BY <2>1, BpSession, BpKeeps DEF StartLine
  <2> QED BY <1>1, <1>3, <2>2 DEF Ready, Clean
<1> QED BY <1>2, <1>3

LEMMA BpReadDevice ==
    ASSUME BpTypes, DeviceStep, Session, dev.mode = dll.last, NEW n \in {1, 2, 3},
           n = 3 => dev.mode = "i2c", ReadLine(n)
    PROVE  ReadLine(n)'
<1>1. rx = << >> /\ Len(rx) = 0 /\ Len(tx) \in Nat \ {0} /\ DOMAIN tx = 1 .. Len(tx) /\ 1 \in DOMAIN tx
  BY BpAnswered DEF ReadLine
<1>2. PICK a \in Seq(Bytes) : AnswersWith(tx[1], a) /\ (rx = << >> => rx' = a)
  BY BpAnswer
<1>3. /\ UNCHANGED <<dll, run>> /\ dev'.bug = dev.bug /\ dev.mode \in {"spi", "i2c"} /\ tx[1].b # 0
      /\ Len(tx') = Len(tx) - 1 /\ DOMAIN tx' = 1 .. Len(tx) - 1
      /\ \A i \in DOMAIN tx' : i + 1 \in DOMAIN tx /\ tx'[i] = tx[i + 1]
      /\ (Silent(tx[1]) => rx' = rx)
  BY <1>1, BpAnswered DEF Session, Without
<1>4. \A i \in DOMAIN tx' : (Silent(tx[i + 1]) => dll'.last = "spi" /\ tx'[i].b = 5 /\ tx'[i].n = 0 /\ dev'.bug)
  BY <1>3 DEF Silent
<1>5. \A i \in DOMAIN tx' : i < Len(tx') => dll'.last = "spi" /\ tx'[i].b = 5 /\ tx'[i].n = 0 /\ dev'.bug
  <2> SUFFICES ASSUME NEW i \in DOMAIN tx', i < Len(tx')
               PROVE  Silent(tx[i + 1])
    BY <1>4
  <2>1. i + 1 \in DOMAIN tx /\ i + 1 < Len(tx)
    BY <1>1, <1>3
  <2> QED BY <2>1 DEF ReadLine
<1>6. \A i \in DOMAIN tx' :
          \/ dll'.last = "spi" /\ tx'[i].b = 5 /\ tx'[i].n = 0 /\ dev'.bug
          \/ tx'[i].b \in {2, 3} \/ (tx'[i].b = 16 /\ n = 3)
  BY <1>3, <1>4 DEF ReadLine
<1>7. Len(rx') \in Nat /\ Len(rx') <= n /\ (rx' # << >> => tx' = << >>)
  <2>1. CASE Silent(tx[1])
    BY <1>1, <1>3, <2>1
  <2>2. CASE ~Silent(tx[1])
    <3>1. Len(tx) = 1
      BY <1>1, <2>2 DEF ReadLine
    <3>2. tx[1].b \in {2, 3} \/ (tx[1].b = 16 /\ n = 3)
      BY <1>1, <2>2 DEF ReadLine
    <3>3. Len(a) \in Nat /\ Len(a) <= n
      <4>1. tx[1].b \in {2, 3} => Len(a) = 1
        BY <1>2, <1>3 DEF AnswersWith
      <4>2. tx[1].b = 16 /\ n = 3 => Len(a) = 2
        BY <1>2, <1>3 DEF AnswersWith
      <4>3. 1 <= n /\ 2 <= 3 /\ 1 \in Nat /\ 2 \in Nat
        OBVIOUS
      <4>4. CASE tx[1].b \in {2, 3}
        BY <4>1, <4>3, <4>4
      <4>5. CASE tx[1].b = 16 /\ n = 3
        BY <4>2, <4>3, <4>5
      <4> QED BY <3>2, <4>4, <4>5
    <3>4. tx' = << >>
      BY <1>3, <3>1, BpDevice DEF BpTypes
    <3> QED BY <1>1, <1>2, <3>3, <3>4
  <2> QED BY <2>1, <2>2
<1> QED BY <1>5, <1>6, <1>7 DEF ReadLine, Silent

LEMMA BpByteDevice ==
    ASSUME BpTypes, DeviceStep, Session, dev.mode = "i2c", NEW m \in {1, 2}, ByteLine(m)
    PROVE  ByteLine(m)'
<1>1. /\ Len(tx) \in Nat \ {0} /\ DOMAIN tx = 1 .. Len(tx) /\ 1 \in DOMAIN tx
      /\ Len(tx') = Len(tx) - 1 /\ DOMAIN tx' = 1 .. Len(tx) - 1
      /\ \A i \in DOMAIN tx' : i + 1 \in DOMAIN tx /\ tx'[i] = tx[i + 1]
  BY BpAnswered
<1>2. PICK a \in Seq(Bytes) :
         /\ AnswersWith(tx[1], a) /\ Len(rx') = Len(rx) + Len(a)
         /\ \A i \in DOMAIN rx' : \/ i \in DOMAIN rx /\ rx'[i] = rx[i]
                                  \/ \E j \in DOMAIN a : rx'[i] = a[j]
  BY BpAnswer
<1>3. tx[1].b \in {4, 6} /\ tx[1].new
  BY <1>1 DEF ByteLine
<1>4. Len(a) = 1 /\ \A i \in DOMAIN a : a[i].new = tx[1].new
  <2>1. tx[1].b # 0 /\ tx[1].b \in {2, 3, 4, 6}
    BY <1>3
  <2>2. Len(a) = 1
    BY <1>2, <2>1 DEF AnswersWith
  <2>3. \A i \in DOMAIN a : a[i].new = tx[1].new
    BY <1>2 DEF AnswersWith
  <2> QED BY <2>2, <2>3
<1>5. \A i \in DOMAIN rx' : rx'[i].new
  BY <1>2, <1>3, <1>4 DEF ByteLine
<1>6. Len(tx') + Len(rx') = m
  <2>1. Len(rx) \in Nat /\ Len(tx) + Len(rx) = m
    BY DEF BpTypes, ByteLine
  <2> QED BY <1>1, <1>2, <1>4, <2>1
<1>7. \A i \in DOMAIN tx' : tx'[i].b \in {4, 6} /\ tx'[i].new
  BY <1>1 DEF ByteLine
<1> QED BY <1>5, <1>6, <1>7 DEF ByteLine

LEMMA BpAwaitDevice ==
    ASSUME BpTypes, DeviceStep, Session, dev.mode = dll.last, NEW c, c.n \in Nat,
           c.k = dll.last, AwaitLine(c)
    PROVE  AwaitLine(c)'
<1>1. /\ Len(tx) \in Nat \ {0} /\ DOMAIN tx = 1 .. Len(tx) /\ 1 \in DOMAIN tx
      /\ Len(tx') = Len(tx) - 1 /\ DOMAIN tx' = 1 .. Len(tx) - 1
      /\ \A i \in DOMAIN tx' : i + 1 \in DOMAIN tx /\ tx'[i] = tx[i + 1]
      /\ UNCHANGED dll /\ dev'.bug = dev.bug /\ (Silent(tx[1]) => rx' = rx)
      /\ dev.mode \in {"spi", "i2c"} /\ tx[1].b # 0
  BY BpAnswered DEF Session, Without
<1>2. rx = << >> /\ \A i \in DOMAIN tx : Silent(tx[i]) \/ (i = Len(tx) /\ tx[i] = Sent(c))
  BY <1>1 DEF AwaitLine
<1>3. CASE Silent(tx[1])
  <2>1. rx' = << >>
    BY <1>1, <1>2, <1>3
  <2>2. \A i \in DOMAIN tx' : \/ dll'.last = "spi" /\ tx'[i].b = 5 /\ tx'[i].n = 0 /\ dev'.bug
                              \/ i = Len(tx') /\ tx'[i] = Sent(c)
    <3> SUFFICES ASSUME NEW i \in DOMAIN tx'
                 PROVE  Silent(tx[i + 1]) \/ (i = Len(tx') /\ tx[i + 1] = Sent(c))
      BY <1>1 DEF Silent
    <3>1. i + 1 \in DOMAIN tx /\ (i + 1 = Len(tx) => i = Len(tx'))
      BY <1>1
    <3> QED BY <1>2, <3>1
  <2> QED BY <2>1, <2>2 DEF AwaitLine, Silent, Sent
<1>4. CASE ~Silent(tx[1])
  <2>1. Len(tx) = 1 /\ tx[1] = Sent(c)
    BY <1>1, <1>2, <1>4
  <2>2. PICK a \in Seq(Bytes) : AnswersWith(tx[1], a) /\ (rx = << >> => rx' = a)
    BY BpAnswer
  <2>3. tx[1].n = c.n /\ tx[1].new = TRUE /\ tx[1].b = IF c.k = "spi" THEN 5 ELSE 8
    BY <2>1 DEF Sent
  <2>4. rx' = a /\ \A i \in DOMAIN a : a[i].new
    BY <1>2, <2>2, <2>3 DEF AnswersWith
  <2>5. \/ Len(a) = c.n + 1 /\ a[1].v = "one"
        \/ Len(a) = 1 /\ a[1].v # "one"
    <3>1. CASE dev.mode = "spi"
      <4>1. ~(dev.bug /\ tx[1].n = 0) /\ tx[1].b = 5
        BY <1>4, <2>3, <3>1 DEF Silent
      <4> QED BY <1>1, <2>2, <2>3, <3>1, <4>1 DEF AnswersWith
    <3>2. CASE dev.mode = "i2c"
      <4>1. tx[1].b = 8
        BY <2>3, <3>2
      <4> QED BY <1>1, <2>2, <2>3, <3>2, <4>1 DEF AnswersWith
    <3> QED BY <1>1, <3>1, <3>2
  <2>6. tx' = << >>
    BY <1>1, <2>1, BpDevice DEF BpTypes
  <2> QED BY <2>4, <2>5, <2>6 DEF AwaitLine
<1> QED BY <1>3, <1>4
-----------------------------------------------------------------------------
(* The device may answer at any place of any call.                            *)
LEMMA BpTransferDevice ==
    ASSUME BpTypes, DeviceStep, TransferInv
    PROVE  TransferInv'
<1>1. PICK c : c = run.call
  OBVIOUS
<1>2. PICK t : t = run.todo
  OBVIOUS
<1>3. InTransfer(c) /\ AtTransfer(c, t)
  BY <1>1, <1>2 DEF TransferInv
<1>4. UNCHANGED <<dll, host, run, ent, mem, out, dirty>> /\ tx # << >>
  BY BpDevice
<1>5. c \in Calls /\ c.k \in {"spi", "i2c", "start", "stop", "readbyte", "writebyte"}
      /\ (c.k \in {"spi", "i2c"} => c.n \in Nat)
  <2>1. c \in Calls
    BY <1>1, <1>3 DEF BpTypes, InTransfer, NoCall
  <2> QED BY <1>3, <2>1, BpPieces DEF Calls, InTransfer
<1>6. /\ dll.com /\ host.open /\ host.i2c = (c.k # "spi") /\ host.i2c = (dll.last = "i2c")
      /\ Session /\ dev.mode = dll.last /\ dev.mode \in {"spi", "i2c"}
  BY <1>3 DEF InTransfer, Session
<1>7. Session' /\ dev'.mode = dll'.last
  BY <1>4, <1>6, BpSession
<1>8. (dev.mode = "spi" <=> c.k = "spi") /\ (c.k \in {"spi", "i2c"} => c.k = dll.last)
  BY <1>5, <1>6
<1>9. LevelOk => LevelOk'
  BY <1>4, <1>6, BpLevelDevice DEF LevelOk
<1>10. Quiet => Quiet'
  BY <1>6, BpQuietDevice
<1>11. (Clean' <=> Clean) /\ (Renewed(c)' <=> Renewed(c))
  BY <1>4 DEF Clean, Renewed
<1>12. InTransfer(c)'
  BY <1>3, <1>4, <1>7 DEF InTransfer
<1>13. ASSUME AtQuiet(c, t) PROVE AtQuiet(c, t)'
  <2>1. QuietPlaces(c)' = QuietPlaces(c)
    BY <1>4 DEF QuietPlaces, CommandPart, AwaitPart
  <2> QED BY <1>9, <1>10, <1>11, <1>13, <2>1 DEF AtQuiet
<1>14. ASSUME AtEnd(c, t) PROVE AtEnd(c, t)'
  BY <1>9, <1>10, <1>11, <1>14 DEF AtEnd
<1>15. ASSUME AtCs(c, t) PROVE AtCs(c, t)'
  <2>1. PICK b \in {2, 3}, r \in CsRests(c) :
        /\ Clean /\ r = <<Done>> => Renewed(c)
        /\ \/ t = <<Send(b), Read(1)>> \o r /\ dll.cs = Level(b) /\ (Clean => Quiet)
           \/ t = <<Read(1)>> \o r /\ LevelKept /\ (Clean => ReadLine(1))
    BY <1>15 DEF AtCs
  <2>2. CsRests(c)' = CsRests(c)
    BY <1>4 DEF CsRests, CommandPart, AwaitPart
  <2>3. LevelKept => LevelKept'
    BY <1>6, <1>8, <1>15, BpLevelDevice DEF AtCs
  <2>4. ReadLine(1) => ReadLine(1)'
    BY <1>6, BpReadDevice
  <2>5. c.k = "spi"
    BY <1>15 DEF AtCs
  <2> QED BY <1>4, <1>10, <1>11, <2>1, <2>2, <2>3, <2>4, <2>5 DEF AtCs
<1>16. ASSUME AtAwait(c, t) PROVE AtAwait(c, t)'
  <2>1. c.k \in {"spi", "i2c"} /\ AwaitPart(c) # DataPart(c) /\ t = AwaitPart(c)
        /\ (Clean => AwaitLine(c)) /\ LevelOk
    BY <1>16 DEF AtAwait
  <2>2. AwaitLine(c) => AwaitLine(c)'
    BY <1>5, <1>6, <1>8, <2>1, BpAwaitDevice
  <2>3. AwaitPart(c)' = AwaitPart(c)
    BY <1>4 DEF AwaitPart
  <2> QED BY <1>9, <1>11, <2>1, <2>2, <2>3 DEF AtAwait
<1>17. ASSUME AtData(c, t) PROVE AtData(c, t)'
  <2>1. DataLine(c) => tx = << >>
    BY DEF DataLine
  <2> QED BY <1>4, <1>9, <1>11, <1>17, <2>1 DEF AtData
<1>18. ASSUME AtAnswer(c, t) PROVE AtAnswer(c, t)'
  <2>1. c.k # "spi" /\ dev.mode = "i2c"
    BY <1>6, <1>8, <1>18 DEF AtAnswer
  <2>2. (ReadLine(2) => ReadLine(2)') /\ (ReadLine(3) => ReadLine(3)')
    BY <1>6, <2>1, BpReadDevice
  <2> QED BY <1>11, <1>18, <2>2 DEF AtAnswer
<1>19. ASSUME AtByte(c, t) PROVE AtByte(c, t)'
  <2>1. c.k # "spi" /\ dev.mode = "i2c"
    BY <1>6, <1>8, <1>19 DEF AtByte
  <2>2. (ByteLine(1) => ByteLine(1)') /\ (ByteLine(2) => ByteLine(2)')
    BY <1>6, <2>1, BpByteDevice
  <2> QED BY <1>11, <1>19, <2>2 DEF AtByte
<1>20. AtTransfer(c, t)'
  BY <1>3, <1>13, <1>14, <1>15, <1>16, <1>17, <1>18, <1>19 DEF AtTransfer
<1>21. run'.call = c /\ run'.todo = t
  BY <1>1, <1>2, <1>4
<1> QED BY <1>12, <1>20, <1>21 DEF TransferInv

LEMMA BpPlacesDevice ==
    ASSUME BpTypes, DeviceStep, OutInv, Places
    PROVE  Places' /\ OutInv'
<1>1. UNCHANGED <<dll, host, run, ent, mem, out, dirty>> /\ tx # << >>
  BY BpDevice
<1>2. OutInv'
  BY <1>1 DEF OutInv
<1>3. CASE IdleInv
  <2>1. Ready' /\ (Clean' => Quiet')
    BY <1>3, BpReadyDevice DEF IdleInv
  <2>2. IdleInv'
    BY <1>1, <1>3, <2>1 DEF IdleInv, DataInStep, Idle
  <2> QED BY <1>2, <2>2 DEF Places
<1>4. CASE ShortInv
  <2>1. Ready' /\ (Clean' => Quiet')
    BY <1>4, BpReadyDevice DEF ShortInv
  <2>2. ShortInv'
    BY <1>1, <1>4, <2>1 DEF ShortInv, AtShort
  <2> QED BY <1>2, <2>2 DEF Places
<1>5. CASE TransferInv
  BY <1>2, <1>5, BpTransferDevice DEF Places
<1>6. ASSUME NEW k \in 1 .. 31, SettingInv(k) PROVE Places'
  <2>1. PICK p : p = run.call.p
    OBVIOUS
  <2>2. run.call.k = "open" /\ run.call \in Calls \cup {NoCall}
    BY <1>6 DEF SettingInv, AtSetting, BpTypes
  <2>3. p \in {"spi", "i2c"} /\ k \in Nat \ {0}
    BY <2>1, <2>2 DEF Calls, NoCall
  <2>4. LineAt(k, p)'
    BY <1>6, <2>1, <2>3, BpLineDevice DEF SettingInv
  <2>5. SettingInv(k)'
    BY <1>1, <1>6, <2>1, <2>4 DEF SettingInv, AtSetting
  <2> QED BY <2>5 DEF Places
<1>7. ASSUME NEW x \in After(run.call), NEW k \in 1 .. 9, ClosingInv(x, k) PROVE Places'
  <2>1. k \in Nat \ {0} /\ ~(k > 17)
    OBVIOUS
  <2>2. LineAt(k, "none")'
    BY <1>7, <2>1, BpLineDevice DEF ClosingInv
  <2>3. ClosingInv(x, k)'
    BY <1>1, <1>7, <2>2 DEF ClosingInv, AtClosing
  <2>4. x \in After(run'.call)
    BY <1>1
  <2> QED BY <2>3, <2>4 DEF Places
<1> QED BY <1>2, <1>3, <1>4, <1>5, <1>6, <1>7 DEF Places

(* What a command sent, or an answer read, does to the line of a transfer.     *)
LEMMA BpSendRead ==
    ASSUME BpTypes, Quiet, NEW b \in {2, 3, 16}, NEW n, n \in {1, 2, 3}, b = 16 => n = 3,
           tx' = Append(tx, [b |-> b, n |-> 0, new |-> TRUE]), UNCHANGED <<rx, dll, dev>>
    PROVE  ReadLine(n)'
<1>0. b \in Nat /\ 0 \in Nat
  OBVIOUS
<1>1. /\ tx' \in Seq(Commands) /\ Len(tx') = Len(tx) + 1 /\ Len(tx) \in Nat
      /\ DOMAIN tx = 1 .. Len(tx) /\ DOMAIN tx' = 1 .. Len(tx) + 1
      /\ \A i \in DOMAIN tx : tx'[i] = tx[i]
      /\ tx'[Len(tx) + 1] = [b |-> b, n |-> 0, new |-> TRUE]
  BY <1>0, BpSent
<1>2. rx' = << >> /\ Len(rx') = 0
  BY DEF Quiet
<1>3. \A i \in DOMAIN tx' : i \in DOMAIN tx \/ i = Len(tx')
  BY <1>1
<1>4. \A i \in DOMAIN tx : Silent(tx[i])
  BY DEF Quiet
<1>5. \A i \in DOMAIN tx' : i < Len(tx') => dll'.last = "spi" /\ tx'[i].b = 5 /\ tx'[i].n = 0 /\ dev'.bug
  BY <1>1, <1>3, <1>4 DEF Silent
<1>6. \A i \in DOMAIN tx' : \/ dll'.last = "spi" /\ tx'[i].b = 5 /\ tx'[i].n = 0 /\ dev'.bug
                            \/ tx'[i].b \in {2, 3} \/ (tx'[i].b = 16 /\ n = 3)
  BY <1>1, <1>3, <1>4 DEF Silent
<1>7. Len(rx') <= n
  BY <1>2
<1> QED BY <1>2, <1>5, <1>6, <1>7 DEF ReadLine, Silent

LEMMA BpSendLevel ==
    ASSUME BpTypes, NEW b \in Nat, NEW n \in Nat,
           tx' = Append(tx, [b |-> b, n |-> n, new |-> TRUE]), UNCHANGED <<dll, dev>>,
           IF b \in {2, 3} THEN dll.cs = Level(b) ELSE LevelKept
    PROVE  LevelKept'
<1>1. /\ tx' \in Seq(Commands) /\ Len(tx') = Len(tx) + 1 /\ Len(tx) \in Nat
      /\ DOMAIN tx = 1 .. Len(tx) /\ DOMAIN tx' = 1 .. Len(tx) + 1
      /\ \A i \in DOMAIN tx : tx'[i] = tx[i]
      /\ tx'[Len(tx) + 1] = [b |-> b, n |-> n, new |-> TRUE]
  BY BpSent
<1>2. Len(tx) + 1 \in DOMAIN tx' /\ tx'[Len(tx) + 1].b = b
      /\ \A i \in DOMAIN tx' : i = Len(tx) + 1 \/ (i \in DOMAIN tx /\ i < Len(tx) + 1 /\ tx'[i].b = tx[i].b)
  BY <1>1
<1>3. CASE b \in {2, 3}
  BY <1>2, <1>3 DEF LevelKept, Without
<1>4. CASE b \notin {2, 3}
  <2>2. LevelKept
    BY <1>4
  <2>3. Without({2, 3})' => Without({2, 3})
    BY <1>1 DEF Without
  <2>4. ASSUME NEW i \in DOMAIN tx', tx'[i].b \in {2, 3}, \A j \in DOMAIN tx' : j > i => tx'[j].b \notin {2, 3}
        PROVE  dll'.cs # 105 => Level(tx'[i].b) = dll'.cs
    <3>1. i \in DOMAIN tx /\ tx'[i] = tx[i]
      BY <1>1, <1>2, <1>4, <2>4
    <3>2. \A j \in DOMAIN tx : j > i => tx[j].b \notin {2, 3}
      BY <1>1, <2>4
    <3> QED BY <2>2, <2>4, <3>1, <3>2 DEF LevelKept
  <2>5. dll'.cs # 105 /\ Without({2, 3})' => dev'.cs = IF dll'.cs = 0 THEN "low" ELSE "high"
    BY <2>2, <2>3 DEF LevelKept
  <2> QED BY <2>4, <2>5 DEF LevelKept, Level
<1> QED BY <1>3, <1>4

LEMMA BpReadQuiet ==
    ASSUME BpTypes, ~Late, NEW n, n \in {1, 2, 3}, ReadLine(n), ComRead(n), Taken(n), UNCHANGED <<tx, dll, dev>>
    PROVE  Quiet'
<1>1. /\ Given(n) \in 0 .. Len(rx) /\ Len(rx) \in Nat /\ rx' \in Seq(Bytes)
      /\ Len(rx') = Len(rx) - Given(n)
  BY BpTaken
<1>2. tx = << >> \/ ~Slow
  <2>1. ASSUME Slow PROVE FALSE
    <3>1. tx # << >> /\ Head(tx).b \in {5, 8} /\ Head(tx).n > 0
      BY <2>1 DEF Slow
    <3>2. 1 \in DOMAIN tx /\ Head(tx) = tx[1]
      BY <3>1 DEF BpTypes
    <3> QED BY <3>1, <3>2 DEF ReadLine, Silent
  <2> QED BY <2>1
<1>3. tx = << >>
  <2>1. Len(rx) >= n \/ tx = << >>
    BY <1>2 DEF ComRead, MayTimeOut
  <2>2. Len(rx) >= n => rx # << >>
    OBVIOUS
  <2> QED BY <2>1, <2>2 DEF ReadLine
<1>4. Len(rx) <= n
  BY DEF ReadLine
<1>5. Given(n) = Len(rx)
  BY <1>1, <1>4 DEF Given
<1>6. rx' = << >>
  BY <1>1, <1>5
<1> QED BY <1>3, <1>6 DEF Quiet

LEMMA BpInTransfer ==
    ASSUME NEW c, InTransfer(c), UNCHANGED <<host, dev>>, dll'.com = dll.com, dll'.last = dll.last,
           Without({0})'
    PROVE  InTransfer(c)'
BY DEF InTransfer, Session

LEMMA BpCallFacts ==
    ASSUME BpTypes, NEW c, c = run.call, InTransfer(c)
    PROVE  /\ c \in Calls /\ c.k \in {"spi", "i2c", "start", "stop", "readbyte", "writebyte"}
           /\ c.k \in {"spi", "i2c"} => c.n \in Nat /\ c.n \in Sizes /\ c.k = dll.last
           /\ dll.com /\ host.open /\ host.i2c = (c.k # "spi") /\ host.i2c = (dll.last = "i2c")
           /\ Session /\ dev.mode = dll.last /\ dll.last \in {"spi", "i2c"}
           /\ c.k = "spi" <=> dll.last = "spi"
           /\ \A u : run' = [run EXCEPT !.todo = u] => run'.call = c /\ run'.todo = u
<1>1. c \in Calls
  BY DEF BpTypes, InTransfer, NoCall
<1>2. c.k \in {"spi", "i2c", "start", "stop", "readbyte", "writebyte"}
  BY <1>1 DEF Calls, InTransfer
<1>3. c.k \in {"spi", "i2c"} => c.n \in Nat /\ c.n \in Sizes
  BY <1>1, BpPieces
<1>4. dll.com /\ host.open /\ host.i2c = (c.k # "spi") /\ host.i2c = (dll.last = "i2c")
      /\ Session /\ dev.mode = dll.last /\ dll.last \in {"spi", "i2c"}
  BY DEF InTransfer, Session
<1>5. \A u : run' = [run EXCEPT !.todo = u] => run'.call = c /\ run'.todo = u
  BY DEF BpTypes
<1> QED BY <1>1, <1>2, <1>3, <1>4, <1>5

(* The steps of a transfer, one place at a time.                              *)
LEMMA BpLands ==
    ASSUME NEW c, NEW u, run'.call = c, run'.todo = u, InTransfer(c)',
           \/ AtQuiet(c, u)' \/ AtEnd(c, u)' \/ AtCs(c, u)' \/ AtAwait(c, u)' \/ AtData(c, u)'
           \/ AtAnswer(c, u)' \/ AtByte(c, u)'
    PROVE  TransferInv'
<1>1. AtTransfer(c, u)'
  BY DEF AtTransfer
<1> QED BY <1>1 DEF TransferInv

LEMMA BpHeads ==
    ASSUME NEW x, x \in Steps, NEW s, s \in Seq(Steps), run.todo = <<x>> \o s
    PROVE  Now = x /\ Rest = s /\ run.todo # << >>
BY BpCons DEF Now, Rest

LEMMA BpRests ==
    ASSUME NEW c, c \in Calls, c.k = "spi"
    PROVE  CsRests(c) \subseteq Seq(Steps)
<1>1. CommandPart(c) \in Seq(Steps)
  BY BpPieces
<1>2. <<Gate>> \in Seq(Steps) /\ <<Done>> \in Seq(Steps) /\ <<Fail>> \in Seq(Steps)
  BY BpSteps, BpAssoc
<1>3. <<Gate>> \o CommandPart(c) \in Seq(Steps)
  BY <1>1, <1>2, BpAssoc
<1> QED BY <1>2, <1>3 DEF CsRests

LEMMA BpReturnHost ==
    ASSUME BpTypes, HostStep, NEW c, c = run.call, InTransfer(c), Rest = << >>, Clean => Quiet, LevelOk,
           Now = Fail \/ (Now = Done /\ (Clean => Renewed(c)))
    PROVE  IdleInv' /\ OutInv'
<1>1. Now.s = "return" /\ Return
  BY BpWhich DEF Fail, Done, Step
<1>2. /\ run' = [run EXCEPT !.todo = << >>] /\ UNCHANGED <<dll, host, ent, mem, tx, rx, dev, dirty>>
      /\ out' = [call |-> run.call, ok |-> Now.b = 1,
                 data |-> IF Now.b = 1 THEN SubSeq(mem, 1, Wanted(run.call)) ELSE << >>]
  BY <1>1 DEF Return, Advance, Continue
<1>3. /\ c \in Calls /\ c.k \in {"spi", "i2c", "start", "stop", "readbyte", "writebyte"}
      /\ c.k \in {"spi", "i2c"} => c.n \in Nat /\ c.n \in Sizes
      /\ dll.com /\ host.open /\ host.i2c = (dll.last = "i2c")
      /\ Session /\ dev.mode = dll.last /\ run'.call = c /\ run'.todo = << >>
  BY <1>2, BpCallFacts
<1>4. Ready' /\ (Clean => Quiet)'
  BY <1>2, <1>3 DEF Ready, LevelOk, Session, LevelKept, Without, Clean, Quiet, Silent
<1>5. DataInStep'
  <2>1. SUFFICES ASSUME out'.ok, dirty' = 0 PROVE \A i \in DOMAIN out'.data : out'.data[i].new
    BY DEF DataInStep
  <2>2. Now = Done /\ Renewed(c) /\ out'.data = SubSeq(mem, 1, Wanted(c))
    <3>1. out'.ok = (Now.b = 1)
      BY <1>2
    <3>2. Now.b = 1
      BY <2>1, <3>1
    <3>3. Now = Done
      BY <3>2 DEF Fail, Step
    <3>4. dll.com /\ dirty = 0
      BY <1>2, <1>3, <2>1
    <3>5. out'.data = SubSeq(mem, 1, Wanted(c))
      BY <1>2, <3>2
    <3>6. Now # Fail
      BY <3>3 DEF Fail, Done, Step
    <3> QED BY <3>3, <3>4, <3>5, <3>6 DEF Clean
  <2>3. Wanted(c) \in 0 .. MaxSize /\ MaxSize \in Nat
    BY <1>3, BuzzPiratAssumption DEF Wanted, Sizes
  <2>4. mem \in Seq(Bytes) /\ Len(mem) = MaxSize
    BY <2>3 DEF BpTypes
  <2>5. /\ Len(SubSeq(mem, 1, Wanted(c))) = Wanted(c) /\ SubSeq(mem, 1, Wanted(c)) \in Seq(Bytes)
        /\ \A i \in 1 .. Wanted(c) : SubSeq(mem, 1, Wanted(c))[i] = mem[i]
    <3> DEFINE w == Wanted(c)
    <3>1. w \in 0 .. Len(mem) /\ Len(mem) \in Nat
      BY <2>3, <2>4
    <3> HIDE DEF w
    <3>2. /\ \A i \in 1 .. w : mem[i] \in Bytes
          /\ 1 \in Int /\ w \in Int /\ 1 \in 1 .. Len(mem) + 1
      BY <2>4, <3>1
    <3>3. /\ SubSeq(mem, 1, w) \in Seq(Bytes) /\ Len(SubSeq(mem, 1, w)) = w
          /\ \A i \in 1 .. w : SubSeq(mem, 1, w)[i] = mem[i]
      <4>1. CASE w = 0
        BY <4>1, <2>4, SubSeqEmpty
      <4>2. CASE w > 0
        BY <4>2, <2>4, <3>1, <3>2, SubSeqProperties
      <4> QED BY <3>1, <4>1, <4>2
    <3> QED BY <3>3 DEF w
  <2> QED BY <2>2, <2>5 DEF Renewed
<1> QED BY <1>2, <1>3, <1>4, <1>5 DEF IdleInv, OutInv

LEMMA BpGateHost ==
    ASSUME BpTypes, HostStep, OutInv, NEW c, c = run.call, InTransfer(c), Now = Gate,
           NEW r, r \in QuietPlaces(c), r = Rest, Clean => Quiet, LevelOk
    PROVE  TransferInv' /\ OutInv'
<1>1. Now.s = "gate" /\ EndFastGate /\ run.todo # << >>
  BY BpWhich DEF Gate, Step
<1>2. UNCHANGED <<dll, host, ent, mem, out, tx, rx, dev, dirty>>
  BY <1>1 DEF EndFastGate
<1>3. PICK u : /\ u \in {r, OnFailure} /\ run' = [run EXCEPT !.todo = u]
  BY <1>1 DEF EndFastGate, Continue, Advance
<1>4. /\ c.k \in {"spi", "i2c", "start", "stop", "readbyte", "writebyte"}
      /\ run'.call = c /\ run'.todo = u /\ Session
  BY <1>3, BpCallFacts
<1>5. u \in QuietPlaces(c)
  <2>1. OnFailure \in QuietPlaces(c)
    BY <1>4 DEF OnFailure, QuietPlaces
  <2> QED BY <1>3, <2>1
<1>6. QuietPlaces(c)' = QuietPlaces(c)
  BY <1>2 DEF QuietPlaces, CommandPart, AwaitPart
<1>7. AtQuiet(c, u)'
  BY <1>2, <1>5, <1>6 DEF AtQuiet, Clean, Quiet, Silent, LevelOk, LevelKept, Without
<1>8. InTransfer(c)'
  BY <1>2, <1>4, BpInTransfer DEF Session, Without
<1>9. OutInv'
  BY <1>1, <1>2 DEF OutInv
<1> QED BY <1>4, <1>7, <1>8, <1>9, BpLands

LEMMA BpChipHost ==
    ASSUME BpTypes, HostStep, OutInv, NEW c, c = run.call, InTransfer(c), c.k = "spi",
           NEW b \in {2, 3}, NEW r, r \in CsRests(c), Now = Step("cs", b, 0), r = Rest,
           Clean => Quiet, LevelOk, Clean /\ r = <<Done>> => Renewed(c)
    PROVE  TransferInv' /\ OutInv'
<1>1. Now.s = "cs" /\ Now.b = b /\ ChipSelect /\ run.todo # << >>
  BY BpWhich DEF Step
<1>2. UNCHANGED <<host, ent, mem, out, tx, rx, dev, dirty>>
  BY <1>1 DEF ChipSelect
<1>3. /\ c \in Calls /\ dll.last = "spi" /\ Session
      /\ \A u : run' = [run EXCEPT !.todo = u] => run'.call = c /\ run'.todo = u
  BY BpCallFacts
<1>4. OutInv'
  BY <1>1, <1>2 DEF OutInv
<1>5. CASE dll.cs = Level(b)
  <2>1. dll' = dll /\ run'.call = c /\ run'.todo = r
    BY <1>1, <1>3, <1>5 DEF ChipSelect, CsLevel, Level, Advance, Continue
  <2>2. InTransfer(c)'
    BY <1>2, <1>3, <2>1, BpInTransfer DEF Session, Without
  <2>3. (Clean => Quiet)' /\ LevelOk' /\ (Clean' => Clean) /\ (Renewed(c) => Renewed(c)')
    BY <1>2, <2>1 DEF Clean, Quiet, Silent, LevelOk, LevelKept, Without, Renewed
  <2>4. CASE r = <<Done>>
    <3>1. AtEnd(c, r)'
      BY <2>3, <2>4 DEF AtEnd, EndPlaces
    <3> QED BY <1>4, <2>1, <2>2, <3>1, BpLands
  <2>5. CASE r # <<Done>>
    <3>1. r \in QuietPlaces(c)
      BY <2>5 DEF CsRests, QuietPlaces
    <3>2. QuietPlaces(c)' = QuietPlaces(c)
      BY <2>1 DEF QuietPlaces, CommandPart, AwaitPart
    <3>3. AtQuiet(c, r)'
      BY <2>3, <3>1, <3>2 DEF AtQuiet
    <3> QED BY <1>4, <2>1, <2>2, <3>3, BpLands
  <2> QED BY <2>4, <2>5
<1>6. CASE dll.cs # Level(b)
  <2> DEFINE u == <<Send(b), Read(1)>> \o r
  <2>1. dll' = [dll EXCEPT !.cs = Level(b)] /\ run'.call = c /\ run'.todo = u
    <3>1. CsTransfer = <<Send(b), Read(1)>> /\ CsLevel = Level(b)
      BY <1>1 DEF CsTransfer, CsLevel, Level
    <3>2. dll' = [dll EXCEPT !.cs = CsLevel] /\ Continue(CsTransfer \o Rest)
      BY <1>1, <1>6, <3>1 DEF ChipSelect
    <3> QED BY <1>3, <3>1, <3>2 DEF Continue
  <2>2. /\ dll'.cs = Level(b) /\ dll'.last = dll.last /\ dll'.com = dll.com /\ dll'.spibug = dll.spibug
    BY <2>1 DEF BpTypes
  <2>3. InTransfer(c)'
    BY <1>2, <1>3, <2>2, BpInTransfer DEF Session, Without
  <2>4. (Clean => Quiet)' /\ (Clean' => Clean) /\ (Renewed(c) => Renewed(c)')
    BY <1>2, <2>2 DEF Clean, Quiet, Silent, Renewed
  <2>5. CsRests(c)' = CsRests(c)
    BY <2>2 DEF CsRests, CommandPart, AwaitPart
  <2> HIDE DEF u
  <2>6. AtCs(c, u)'
    BY <2>2, <2>4, <2>5 DEF AtCs, u
  <2> QED BY <1>4, <2>1, <2>3, <2>6, BpLands
<1> QED BY <1>5, <1>6

(* Two forms of a sequence with and without its first step differ.            *)
LEMMA BpLonger ==
    ASSUME NEW x, x \in Steps, NEW s, s \in Seq(Steps)
    PROVE  <<x>> \o s # s
<1>1. <<x>> \in Seq(Steps) /\ Len(<<x>>) = 1
  BY BpAssoc
<1>2. Len(<<x>> \o s) = Len(<<x>>) + Len(s) /\ Len(s) \in Nat
  BY <1>1, BpConcatSteps
<1>3. Len(<<x>> \o s) # Len(s)
  BY <1>1, <1>2
<1> QED BY <1>3

LEMMA BpAwaitPart ==
    ASSUME NEW c, c \in Calls, c.k \in {"spi", "i2c"}
    PROVE  /\ c.k = "i2c" => /\ AwaitPart(c) = <<Step("awaiti2c", 0, 0)>> \o DataPart(c)
                             /\ AwaitPart(c) # DataPart(c)
           /\ c.k = "spi" /\ ~(c.n = 0 /\ dll.spibug) =>
                  /\ AwaitPart(c) = <<Step("await", 0, 0)>> \o DataPart(c)
                  /\ AwaitPart(c) # DataPart(c)
           /\ c.k = "spi" /\ c.n = 0 /\ dll.spibug => AwaitPart(c) = Ending(c) /\ AwaitPart(c) = DataPart(c)
           /\ c.n = 0 => DataPart(c) = Ending(c)
           /\ c.n > 0 => DataPart(c) = <<Step("data", 0, c.n)>> \o Ending(c)
<1>1. DataPart(c) \in Seq(Steps) /\ Step("await", 0, 0) \in Steps /\ Step("awaiti2c", 0, 0) \in Steps /\ c.n \in Nat
  BY BpPieces
<1>2. <<Step("await", 0, 0)>> \o DataPart(c) # DataPart(c)
  BY <1>1, BpLonger
<1>3. <<Step("awaiti2c", 0, 0)>> \o DataPart(c) # DataPart(c)
  BY <1>1, BpLonger
<1>4. (c.n = 0 => DataPart(c) = Ending(c)) /\ (c.n > 0 => DataPart(c) = <<Step("data", 0, c.n)>> \o Ending(c))
  BY <1>1 DEF DataPart
<1> DEFINE d == DataPart(c)
<1> HIDE DEF d
<1>5. /\ c.k = "i2c" => AwaitPart(c) = <<Step("awaiti2c", 0, 0)>> \o d
      /\ c.k = "spi" /\ ~(c.n = 0 /\ dll.spibug) => AwaitPart(c) = <<Step("await", 0, 0)>> \o d
      /\ c.k = "spi" /\ c.n = 0 /\ dll.spibug => AwaitPart(c) = d
  BY DEF AwaitPart, d
<1> QED BY <1>2, <1>3, <1>4, <1>5 DEF d

(* A command goes after what may still be on a line that has nothing.           *)
LEMMA BpSendAwait ==
    ASSUME BpTypes, Quiet, NEW c, c.k \in {"spi", "i2c"}, c.n \in Nat,
           NEW b, b = (IF c.k = "spi" THEN 5 ELSE 8),
           tx' = Append(tx, [b |-> b, n |-> c.n, new |-> TRUE]), UNCHANGED <<rx, dll, dev>>
    PROVE  /\ AwaitLine(c)'
           /\ c.k = "spi" /\ c.n = 0 /\ dev.bug /\ dll.last = "spi" => Quiet'
<1>0. b \in Nat
  OBVIOUS
<1>1. /\ tx' \in Seq(Commands) /\ Len(tx') = Len(tx) + 1 /\ Len(tx) \in Nat
      /\ DOMAIN tx = 1 .. Len(tx) /\ DOMAIN tx' = 1 .. Len(tx) + 1
      /\ \A i \in DOMAIN tx : tx'[i] = tx[i]
      /\ tx'[Len(tx) + 1] = [b |-> b, n |-> c.n, new |-> TRUE]
  BY <1>0, BpSent
<1>2. rx' = << >>
  BY DEF Quiet
<1>3. \A i \in DOMAIN tx' : i \in DOMAIN tx \/ i = Len(tx')
  BY <1>1
<1>4. \A i \in DOMAIN tx : Silent(tx[i])
  BY DEF Quiet
<1>5. \A i \in DOMAIN tx' : \/ dll'.last = "spi" /\ tx'[i].b = 5 /\ tx'[i].n = 0 /\ dev'.bug
                            \/ (i = Len(tx') /\ tx'[i] = Sent(c))
  BY <1>1, <1>3, <1>4 DEF Silent, Sent
<1>6. AwaitLine(c)'
  BY <1>2, <1>5 DEF AwaitLine, Silent
<1>7. ASSUME c.k = "spi", c.n = 0, dev.bug, dll.last = "spi" PROVE Quiet'
  BY <1>2, <1>5, <1>7 DEF Quiet, Silent, Sent
<1> QED BY <1>6, <1>7

LEMMA BpCommandHost ==
    ASSUME BpTypes, HostStep, OutInv, NEW c, c = run.call, InTransfer(c), c.k \in {"spi", "i2c"},
           Now = SendFor(IF c.k = "spi" THEN 5 ELSE 8, c.n), Rest = AwaitPart(c), Clean => Quiet, LevelOk
    PROVE  TransferInv' /\ OutInv'
<1> DEFINE b == IF c.k = "spi" THEN 5 ELSE 8
<1>1. Now.s = "send" /\ Now.b = b /\ Now.n = c.n /\ ComWrite /\ run.todo # << >>
  BY BpWhich DEF SendFor, Step
<1>2. PICK u : u = AwaitPart(c)
  OBVIOUS
<1>3. /\ c \in Calls /\ c.n \in Nat /\ c.k = dll.last /\ Session /\ (c.k = "spi" <=> dll.last = "spi")
      /\ \A w : run' = [run EXCEPT !.todo = w] => run'.call = c /\ run'.todo = w
  BY BpCallFacts
<1>4. /\ tx' = Append(tx, [b |-> b, n |-> c.n, new |-> TRUE])
      /\ UNCHANGED <<dll, host, ent, mem, out, rx, dev, dirty>>
      /\ run'.call = c /\ run'.todo = u
  BY <1>1, <1>2, <1>3 DEF ComWrite, Advance, Continue
<1>5. OutInv'
  BY <1>1, <1>4 DEF OutInv
<1>6. b \in Nat /\ b # 0 /\ b \notin {2, 3}
  OBVIOUS
<1>7. InTransfer(c)'
  <2>1. Without({0})'
    BY <1>3, <1>4, <1>6, BpLineSend DEF Session
  <2> QED BY <1>4, <2>1, BpInTransfer
<1>8. LevelOk'
  BY <1>3, <1>4, <1>6, BpSendLevel DEF LevelOk
<1>9. AwaitPart(c)' = AwaitPart(c)
  BY <1>4 DEF AwaitPart
<1>10. Clean' => Clean
  BY <1>4 DEF Clean
<1>11. CASE c.k = "spi" /\ c.n = 0 /\ dll.spibug
  <2>1. u = Ending(c) /\ dev.bug
    BY <1>2, <1>3, <1>11, BpAwaitPart DEF BpTypes
  <2>2. Clean' => Quiet'
    BY <1>3, <1>4, <1>10, <1>11, <2>1, BpSendAwait
  <2>3. Renewed(c)'
    BY <1>11 DEF Renewed, Wanted
  <2>4. AtEnd(c, u)'
    BY <1>8, <2>1, <2>2, <2>3 DEF AtEnd, EndPlaces
  <2> QED BY <1>4, <1>5, <1>7, <2>4, BpLands
<1>12. CASE ~(c.k = "spi" /\ c.n = 0 /\ dll.spibug)
  <2>1. AwaitPart(c) # DataPart(c)
    BY <1>3, <1>12, BpAwaitPart
  <2>2. Clean' => AwaitLine(c)'
    BY <1>3, <1>4, <1>10, BpSendAwait
  <2>3. AtAwait(c, u)'
    BY <1>2, <1>8, <1>9, <2>1, <2>2 DEF AtAwait
  <2> QED BY <1>4, <1>5, <1>7, <2>3, BpLands
<1> QED BY <1>11, <1>12

(* The commands of the other calls.                                         *)
LEMMA BpBitCommandHost ==
    ASSUME BpTypes, HostStep, OutInv, NEW c, c = run.call, InTransfer(c),
           c.k \in {"start", "stop", "readbyte", "writebyte"},
           NEW b, b = (IF c.k = "start" THEN 2 ELSE IF c.k = "stop" THEN 3
                       ELSE IF c.k = "readbyte" THEN 4 ELSE 16),
           Now = Send(b), Clean => Quiet,
           NEW u, u = Rest,
           u = (IF c.k = "readbyte" THEN <<Send(6), Step("readbyte", 0, 3), Done>>
                ELSE IF c.k = "writebyte" THEN <<Read(3), Done>> ELSE <<Read(2), Done>>)
    PROVE  TransferInv' /\ OutInv'
<1>1. Now.s = "send" /\ Now.b = b /\ Now.n = 0 /\ ComWrite /\ run.todo # << >>
  BY BpWhich DEF Send, Step
<1>3. /\ Session /\ dll.last = "i2c" /\ \A w : run' = [run EXCEPT !.todo = w] => run'.call = c /\ run'.todo = w
  BY BpCallFacts
<1>4. /\ tx' = Append(tx, [b |-> b, n |-> 0, new |-> TRUE])
      /\ UNCHANGED <<dll, host, ent, mem, out, rx, dev, dirty>>
      /\ run'.call = c /\ run'.todo = u
  BY <1>1, <1>3 DEF ComWrite, Advance, Continue
<1>5. OutInv'
  BY <1>1, <1>4 DEF OutInv
<1>6. b \in Nat /\ b # 0 /\ 0 \in Nat
  OBVIOUS
<1>7. InTransfer(c)'
  <2>1. Without({0})'
    BY <1>3, <1>4, <1>6, BpLineSend DEF Session
  <2> QED BY <1>4, <2>1, BpInTransfer
<1>10. Clean' => Clean
  BY <1>4 DEF Clean
<1>11. CASE c.k \in {"start", "stop"}
  <2>0. b \in {2, 3, 16} /\ b # 16 /\ 2 \in {1, 2, 3}
    BY <1>11
  <2>1. Clean' => ReadLine(2)'
    <3>1. Quiet => ReadLine(2)'
      BY <1>4, <2>0, BpSendRead
    <3> QED BY <1>10, <3>1
  <2>2. AtAnswer(c, u)'
    BY <1>11, <2>1 DEF AtAnswer
  <2> QED BY <1>4, <1>5, <1>7, <2>2, BpLands
<1>12. CASE c.k = "writebyte"
  <2>1. Clean' => ReadLine(3)'
    BY <1>4, <1>10, <1>12, BpSendRead
  <2>2. AtAnswer(c, u)'
    BY <1>12, <2>1 DEF AtAnswer
  <2> QED BY <1>4, <1>5, <1>7, <2>2, BpLands
<1>13. CASE c.k = "readbyte"
  <2>1. Clean' => ByteLine(1)'
    <3>1. Quiet => tx = << >> /\ rx = << >>
      <4>1. tx # << >> => 1 \in DOMAIN tx
        BY DEF BpTypes
      <4> QED BY <1>3, <4>1 DEF Quiet, Silent
    <3>2. /\ Len(tx') = Len(tx) + 1 /\ DOMAIN tx' = 1 .. Len(tx) + 1
          /\ tx'[Len(tx) + 1] = [b |-> b, n |-> 0, new |-> TRUE]
      BY <1>4, <1>6, BpSent
    <3>3. Quiet => Len(tx) = 0 /\ Len(rx) = 0 /\ DOMAIN rx = {}
      BY <3>1
    <3>4. Quiet => ByteLine(1)'
      BY <1>4, <1>13, <3>2, <3>3 DEF ByteLine
    <3> QED BY <1>10, <3>4
  <2>2. AtByte(c, u)'
    BY <1>13, <2>1 DEF AtByte
  <2> QED BY <1>4, <1>5, <1>7, <2>2, BpLands
<1> QED BY <1>11, <1>12, <1>13

LEMMA BpPairsCat ==
    ASSUME NEW x, x \in Steps, NEW y, y \in Steps, NEW s, s \in Seq(Steps)
    PROVE  /\ Cat(<<x, y>>, s) = Cat(<<x>>, Cat(<<y>>, s)) /\ Cat(<<y>>, s) \in Seq(Steps)
           /\ Cat(<<x>>, s) \in Seq(Steps) /\ <<x, y>> \in Seq(Steps)
<1>1. <<x>> \in Seq(Steps) /\ <<y>> \in Seq(Steps)
  BY BpAssoc
<1>2. <<x, y>> = Cat(<<x>>, <<y>>)
  BY BpAssoc
<1> DEFINE a == <<x>>  b == <<y>>  d == <<x, y>>
<1>3. a \in Seq(Steps) /\ b \in Seq(Steps) /\ d = Cat(a, b)
  BY <1>1, <1>2
<1> HIDE DEF a, b, d
<1>4. Cat(Cat(a, b), s) = Cat(a, Cat(b, s)) /\ Cat(b, s) \in Seq(Steps) /\ Cat(a, s) \in Seq(Steps)
      /\ Cat(a, b) \in Seq(Steps)
  BY <1>3, BpCat
<1> QED BY <1>3, <1>4 DEF a, b, d

LEMMA BpQuietHost ==
    ASSUME BpTypes, HostStep, OutInv, NEW c, c = run.call, InTransfer(c), AtQuiet(c, run.todo)
    PROVE  (TransferInv' \/ IdleInv') /\ OutInv'
<1>1. run.todo \in QuietPlaces(c) /\ (Clean => Quiet) /\ LevelOk
  BY DEF AtQuiet
<1>2. c \in Calls /\ c.k \in {"spi", "i2c", "start", "stop", "readbyte", "writebyte"}
  BY BpCallFacts
<1>3. CASE run.todo = <<Fail>>
  <2>1. Now = Fail /\ Rest = << >>
    BY <1>3 DEF Now, Rest
  <2> QED BY <1>1, <2>1, BpReturnHost
<1>4. CASE c.k \in {"spi", "i2c"} /\ run.todo # <<Fail>>
  <2>1. /\ CommandPart(c) \in Seq(Steps) /\ AwaitPart(c) \in Seq(Steps)
        /\ SendFor(IF c.k = "spi" THEN 5 ELSE 8, c.n) \in Steps /\ {Gate, CsLow, CsHigh, Fail} \subseteq Steps
    BY <1>2, <1>4, BpPieces, BpSteps
  <2>2. CASE run.todo = CommandPart(c)
    <3>1. run.todo = <<SendFor(IF c.k = "spi" THEN 5 ELSE 8, c.n)>> \o AwaitPart(c)
      BY <2>2 DEF CommandPart
    <3>2. Now = SendFor(IF c.k = "spi" THEN 5 ELSE 8, c.n) /\ Rest = AwaitPart(c)
      BY <2>1, <3>1, BpHeads
    <3> QED BY <1>1, <1>4, <3>2, BpCommandHost
  <2>3. CASE run.todo = <<Gate>> \o CommandPart(c)
    <3>1. Now = Gate /\ Rest = CommandPart(c)
      BY <2>1, <2>3, BpHeads
    <3>2. CommandPart(c) \in QuietPlaces(c)
      BY <1>4 DEF QuietPlaces
    <3> QED BY <1>1, <3>1, <3>2, BpGateHost
  <2>4. CASE c.k = "spi" /\ run.todo = <<CsLow, Gate>> \o CommandPart(c)
    <3>1. run.todo = <<CsLow>> \o (<<Gate>> \o CommandPart(c)) /\ <<Gate>> \o CommandPart(c) \in Seq(Steps)
      <4> DEFINE s == CommandPart(c)
      <4>1. s \in Seq(Steps) /\ run.todo = Cat(<<CsLow, Gate>>, s)
        BY <2>1, <2>4 DEF Cat
      <4> HIDE DEF s
      <4>2. /\ Cat(<<CsLow, Gate>>, s) = Cat(<<CsLow>>, Cat(<<Gate>>, s))
            /\ Cat(<<Gate>>, s) \in Seq(Steps)
        BY <2>1, <4>1, BpPairsCat
      <4>3. run.todo = Cat(<<CsLow>>, Cat(<<Gate>>, s))
        BY <4>1, <4>2
      <4> QED BY <4>2, <4>3 DEF Cat, s
    <3> DEFINE r == <<Gate>> \o CommandPart(c)
    <3>2. r \in CsRests(c) /\ r # <<Done>>
      <4>1. r \in CsRests(c)
        BY DEF CsRests
      <4>2. Head(r) = Gate
        BY <2>1, BpCons
      <4>3. Head(<<Done>>) = Done /\ Done # Gate
        BY DEF Done, Gate, Step
      <4> QED BY <4>1, <4>2, <4>3
    <3> HIDE DEF r
    <3>3. Now = CsLow /\ Rest = r
      BY <2>1, <3>1, BpHeads DEF r
    <3> QED BY <1>1, <2>4, <3>2, <3>3, BpChipHost DEF CsLow
  <2>5. CASE c.k = "spi" /\ run.todo = <<CsHigh, Fail>>
    <3>1. Now = CsHigh /\ Rest = <<Fail>>
      BY <2>5 DEF Now, Rest
    <3>2. <<Fail>> \in CsRests(c) /\ <<Fail>> # <<Done>>
      BY DEF CsRests, Fail, Done, Step
    <3> QED BY <1>1, <2>5, <3>1, <3>2, BpChipHost DEF CsHigh
  <2> QED BY <1>1, <1>4, <2>2, <2>3, <2>4, <2>5 DEF QuietPlaces
<1>5. PICK b : b = (IF c.k = "start" THEN 2 ELSE IF c.k = "stop" THEN 3
                    ELSE IF c.k = "readbyte" THEN 4 ELSE 16)
  OBVIOUS
<1>6. PICK u : u = (IF c.k = "readbyte" THEN <<Send(6), Step("readbyte", 0, 3), Done>>
                    ELSE IF c.k = "writebyte" THEN <<Read(3), Done>> ELSE <<Read(2), Done>>)
  OBVIOUS
<1>7. CASE c.k \in {"start", "stop", "readbyte", "writebyte"} /\ run.todo # <<Fail>>
  <2>1. \/ Now = Gate /\ Rest \in QuietPlaces(c)
        \/ Now = Send(b) /\ Rest = u
    <3>1. CASE c.k = "start"
      <4>1. b = 2 /\ u = <<Read(2), Done>>
        BY <1>5, <1>6, <3>1
      <4>2. QuietPlaces(c) = {<<Gate, Send(2), Read(2), Done>>, <<Send(2), Read(2), Done>>, <<Fail>>}
        BY <3>1 DEF QuietPlaces
      <4>3. CASE run.todo = <<Gate, Send(2), Read(2), Done>>
        BY <4>2, <4>3 DEF Now, Rest
      <4>4. CASE run.todo = <<Send(2), Read(2), Done>>
        BY <4>1, <4>4 DEF Now, Rest
      <4> QED BY <1>1, <1>7, <4>2, <4>3, <4>4
    <3>2. CASE c.k = "stop"
      <4>1. b = 3 /\ u = <<Read(2), Done>>
        BY <1>5, <1>6, <3>2
      <4>2. QuietPlaces(c) = {<<Gate, Send(3), Read(2), Done>>, <<Send(3), Read(2), Done>>, <<Fail>>}
        BY <3>2 DEF QuietPlaces
      <4>3. CASE run.todo = <<Gate, Send(3), Read(2), Done>>
        BY <4>2, <4>3 DEF Now, Rest
      <4>4. CASE run.todo = <<Send(3), Read(2), Done>>
        BY <4>1, <4>4 DEF Now, Rest
      <4> QED BY <1>1, <1>7, <4>2, <4>3, <4>4
    <3>3. CASE c.k = "readbyte"
      <4>1. b = 4 /\ u = <<Send(6), Step("readbyte", 0, 3), Done>>
        BY <1>5, <1>6, <3>3
      <4>2. QuietPlaces(c) = {<<Gate, Send(4), Send(6), Step("readbyte", 0, 3), Done>>,
                                  <<Send(4), Send(6), Step("readbyte", 0, 3), Done>>, <<Fail>>}
        BY <3>3 DEF QuietPlaces
      <4>3. CASE run.todo = <<Gate, Send(4), Send(6), Step("readbyte", 0, 3), Done>>
        BY <4>2, <4>3 DEF Now, Rest
      <4>4. CASE run.todo = <<Send(4), Send(6), Step("readbyte", 0, 3), Done>>
        BY <4>1, <4>4 DEF Now, Rest
      <4> QED BY <1>1, <1>7, <4>2, <4>3, <4>4
    <3>4. CASE c.k = "writebyte"
      <4>1. b = 16 /\ u = <<Read(3), Done>>
        BY <1>5, <1>6, <3>4
      <4>2. QuietPlaces(c) = {<<Gate, Send(16), Read(3), Done>>, <<Send(16), Read(3), Done>>, <<Fail>>}
        BY <3>4 DEF QuietPlaces
      <4>3. CASE run.todo = <<Gate, Send(16), Read(3), Done>>
        BY <4>2, <4>3 DEF Now, Rest
      <4>4. CASE run.todo = <<Send(16), Read(3), Done>>
        BY <4>1, <4>4 DEF Now, Rest
      <4> QED BY <1>1, <1>7, <4>2, <4>3, <4>4
    <3> QED BY <1>7, <3>1, <3>2, <3>3, <3>4
  <2>2. CASE Now = Gate /\ Rest \in QuietPlaces(c)
    BY <1>1, <2>2, BpGateHost
  <2>3. CASE Now = Send(b) /\ Rest = u
    BY <1>1, <1>5, <1>6, <1>7, <2>3, BpBitCommandHost
  <2> QED BY <2>1, <2>2, <2>3
<1> QED BY <1>2, <1>3, <1>4, <1>7

LEMMA BpEndHost ==
    ASSUME BpTypes, HostStep, OutInv, NEW c, c = run.call, InTransfer(c), AtEnd(c, run.todo)
    PROVE  (TransferInv' \/ IdleInv') /\ OutInv'
<1>1. run.todo \in EndPlaces(c) /\ (Clean => Quiet /\ Renewed(c)) /\ LevelOk
  BY DEF AtEnd
<1>2. CASE run.todo = <<Done>>
  <2>1. Now = Done /\ Rest = << >>
    BY <1>2 DEF Now, Rest
  <2> QED BY <1>1, <2>1, BpReturnHost
<1>3. CASE run.todo # <<Done>>
  <2>1. c.k = "spi" /\ run.todo = <<CsHigh, Done>>
    BY <1>1, <1>3 DEF EndPlaces, Ending
  <2>2. Now = CsHigh /\ Rest = <<Done>>
    BY <2>1 DEF Now, Rest
  <2>3. <<Done>> \in CsRests(c)
    BY DEF CsRests
  <2> QED BY <1>1, <2>1, <2>2, <2>3, BpChipHost DEF CsHigh
<1> QED BY <1>2, <1>3

LEMMA BpReadHost ==
    ASSUME BpTypes, HostStep, OutInv, NEW c, c = run.call, InTransfer(c), NEW n \in Nat, Now = Read(n)
    PROVE  /\ ComRead(n) /\ Taken(n) /\ UNCHANGED <<dll, host, ent, mem, out, tx, dev, dirty>>
           /\ run' = [run EXCEPT !.todo = Rest] /\ run'.call = c /\ run'.todo = Rest
           /\ InTransfer(c)' /\ OutInv'
<1>1. Now.s = "read" /\ Now.n = n /\ ComReadBuff /\ run.todo # << >>
  BY BpWhich DEF Read, Step
<1>2. /\ ComRead(n) /\ Taken(n) /\ UNCHANGED <<dll, host, ent, mem, out, tx, dev, dirty>>
      /\ run' = [run EXCEPT !.todo = Rest]
  BY <1>1 DEF ComReadBuff, Advance, Continue
<1>3. run'.call = c /\ run'.todo = Rest /\ Session
  BY <1>2, BpCallFacts
<1>4. InTransfer(c)'
  BY <1>2, <1>3, BpInTransfer DEF Session, Without
<1>5. OutInv'
  BY <1>1, <1>2 DEF OutInv
<1> QED BY <1>2, <1>3, <1>4, <1>5

LEMMA BpCsHost ==
    ASSUME BpTypes, ~Late, HostStep, OutInv, NEW c, c = run.call, InTransfer(c), AtCs(c, run.todo)
    PROVE  TransferInv' /\ OutInv'
<1>0. c.k = "spi"
  BY DEF AtCs
<1>1. /\ c \in Calls /\ c.k = "spi" /\ dll.last = "spi" /\ Session
      /\ \A u : run' = [run EXCEPT !.todo = u] => run'.call = c /\ run'.todo = u
  BY <1>0, BpCallFacts
<1>2. PICK b \in {2, 3}, r \in CsRests(c) :
        /\ Clean /\ r = <<Done>> => Renewed(c)
        /\ \/ run.todo = <<Send(b), Read(1)>> \o r /\ dll.cs = Level(b) /\ (Clean => Quiet)
           \/ run.todo = <<Read(1)>> \o r /\ LevelKept /\ (Clean => ReadLine(1))
  BY DEF AtCs
<1>3. r \in Seq(Steps) /\ Send(b) \in Steps /\ Read(1) \in Steps
  BY <1>1, BpRests, BpSteps
<1>4. CASE run.todo = <<Send(b), Read(1)>> \o r /\ dll.cs = Level(b) /\ (Clean => Quiet)
  <2>1. run.todo = Cat(<<Send(b)>>, Cat(<<Read(1)>>, r)) /\ Cat(<<Read(1)>>, r) \in Seq(Steps)
    <3>1. run.todo = Cat(<<Send(b), Read(1)>>, r)
      BY <1>4 DEF Cat
    <3> DEFINE x == Send(b)  y == Read(1)
    <3>2. x \in Steps /\ y \in Steps
      BY <1>3
    <3> HIDE DEF x, y
    <3>3. Cat(<<x, y>>, r) = Cat(<<x>>, Cat(<<y>>, r)) /\ Cat(<<y>>, r) \in Seq(Steps)
      BY <1>3, <3>2, BpPairsCat
    <3> QED BY <3>1, <3>3 DEF x, y
  <2>2. PICK u : u = Cat(<<Read(1)>>, r)
    OBVIOUS
  <2>3. Now = Send(b) /\ Rest = u
    <3>1. run.todo = <<Send(b)>> \o u /\ u \in Seq(Steps)
      BY <2>1, <2>2 DEF Cat
    <3> QED BY <1>3, <3>1, BpHeads
  <2>4. Now.s = "send" /\ Now.b = b /\ Now.n = 0 /\ ComWrite /\ run.todo # << >>
    BY <2>3, BpWhich DEF Send, Step
  <2>5. /\ tx' = Append(tx, [b |-> b, n |-> 0, new |-> TRUE])
        /\ UNCHANGED <<dll, host, ent, mem, out, rx, dev, dirty>>
        /\ run'.call = c /\ run'.todo = u
    BY <1>1, <2>3, <2>4 DEF ComWrite, Advance, Continue
  <2>6. OutInv'
    BY <2>4, <2>5 DEF OutInv
  <2>7. b \in Nat /\ b # 0 /\ 0 \in Nat
    OBVIOUS
  <2>8. InTransfer(c)'
    <3>1. Without({0})'
      BY <1>1, <2>5, <2>7, BpLineSend DEF Session
    <3> QED BY <2>5, <3>1, BpInTransfer
  <2>9. LevelKept'
    BY <1>4, <2>5, <2>7, BpSendLevel
  <2>10. Clean' => ReadLine(1)'
    <3>1. b \in {2, 3, 16} /\ b # 16 /\ 1 \in {1, 2, 3}
      OBVIOUS
    <3>2. Quiet => ReadLine(1)'
      BY <2>5, <3>1, BpSendRead
    <3> QED BY <1>4, <2>5, <3>2 DEF Clean
  <2>11. CsRests(c)' = CsRests(c) /\ (Clean' => Clean) /\ (Renewed(c) => Renewed(c)')
    BY <2>5 DEF CsRests, CommandPart, AwaitPart, Clean, Renewed
  <2>12. u = <<Read(1)>> \o r
    BY <2>2 DEF Cat
  <2>13. AtCs(c, u)'
    BY <1>1, <1>2, <2>9, <2>10, <2>11, <2>12 DEF AtCs
  <2> QED BY <2>5, <2>6, <2>8, <2>13, BpLands
<1>5. CASE run.todo = <<Read(1)>> \o r /\ LevelKept /\ (Clean => ReadLine(1))
  <2>1. Now = Read(1) /\ Rest = r
    BY <1>3, <1>5, BpHeads
  <2>2. 1 \in Nat /\ 1 \in {1, 2, 3}
    OBVIOUS
  <2>3. /\ ComRead(1) /\ Taken(1) /\ UNCHANGED <<dll, host, ent, mem, out, tx, dev, dirty>>
        /\ run'.call = c /\ run'.todo = r /\ InTransfer(c)' /\ OutInv'
    BY <2>1, <2>2, BpReadHost
  <2>4. Clean' => Clean /\ Quiet'
    <3>1. ReadLine(1) => Quiet'
      BY <2>2, <2>3, BpReadQuiet
    <3> QED BY <1>5, <2>3, <3>1 DEF Clean
  <2>5. LevelOk' /\ (Renewed(c) => Renewed(c)')
    BY <1>5, <2>3 DEF LevelOk, LevelKept, Without, Renewed
  <2>6. CASE r = <<Done>>
    <3>1. AtEnd(c, r)'
      BY <1>2, <2>4, <2>5, <2>6 DEF AtEnd, EndPlaces
    <3> QED BY <2>3, <3>1, BpLands
  <2>7. CASE r # <<Done>>
    <3>1. r \in QuietPlaces(c)
      BY <1>1, <2>7 DEF CsRests, QuietPlaces
    <3>2. QuietPlaces(c)' = QuietPlaces(c)
      BY <2>3 DEF QuietPlaces, CommandPart, AwaitPart
    <3>3. AtQuiet(c, r)'
      BY <2>4, <2>5, <3>1, <3>2 DEF AtQuiet
    <3> QED BY <2>3, <3>3, BpLands
  <2> QED BY <2>6, <2>7
<1> QED BY <1>2, <1>4, <1>5

LEMMA BpAnswerHost ==
    ASSUME BpTypes, ~Late, HostStep, OutInv, NEW c, c = run.call, InTransfer(c), AtAnswer(c, run.todo)
    PROVE  TransferInv' /\ OutInv'
<1>1. PICK n \in {2, 3} : run.todo = <<Read(n), Done>> /\ (Clean => ReadLine(n))
                          /\ c.k \in {"start", "stop", "writebyte"}
  BY DEF AtAnswer
<1>2. Now = Read(n) /\ Rest = <<Done>>
  BY <1>1 DEF Now, Rest
<1>3. n \in Nat /\ n \in {1, 2, 3}
  OBVIOUS
<1>4. PICK u : u = <<Done>>
  OBVIOUS
<1>5. /\ ComRead(n) /\ Taken(n) /\ UNCHANGED <<dll, host, ent, mem, out, tx, dev, dirty>>
      /\ run'.call = c /\ run'.todo = u /\ InTransfer(c)' /\ OutInv'
  BY <1>2, <1>3, <1>4, BpReadHost
<1>6. Clean' => Quiet'
  <2>1. ReadLine(n) => Quiet'
    BY <1>3, <1>5, BpReadQuiet
  <2> QED BY <1>1, <1>5, <2>1 DEF Clean
<1>7. LevelOk' /\ Renewed(c)'
  <2>1. dll.last = "i2c"
    BY <1>1, BpCallFacts
  <2> QED BY <1>1, <1>5, <2>1 DEF LevelOk, Renewed, Wanted
<1>8. AtEnd(c, u)'
  BY <1>4, <1>6, <1>7 DEF AtEnd, EndPlaces
<1> QED BY <1>5, <1>8, BpLands

(* The loops that wait for the answer 01h.                                   *)
LEMMA BpAwaitRead ==
    ASSUME BpTypes, NEW c, c.n \in Nat, AwaitLine(c), Taken(1), UNCHANGED <<tx, dll, dev>>
    PROVE  IF rx # << >> /\ Head(rx).v = "one" THEN DataLine(c)' ELSE AwaitLine(c)'
<1>1. /\ rx' \in Seq(Bytes) /\ Given(1) \in 0 .. Len(rx) /\ Given(1) <= 1 /\ Len(rx) \in Nat
      /\ Len(rx') = Len(rx) - Given(1)
      /\ DOMAIN rx = 1 .. Len(rx) /\ DOMAIN rx' = 1 .. Len(rx) - Given(1)
      /\ \A i \in DOMAIN rx' : i + Given(1) \in DOMAIN rx /\ rx'[i] = rx[i + Given(1)]
  BY BpTaken
<1>2. rx # << >> => Head(rx) = rx[1] /\ Len(rx) >= 1 /\ Given(1) = 1
  <2>1. rx \in Seq(Bytes)
    BY DEF BpTypes
  <2>2. rx # << >> => Len(rx) # 0 /\ Head(rx) = rx[1]
    BY <2>1
  <2>3. rx # << >> => Len(rx) >= 1
    BY <1>1, <2>2
  <2>4. Len(rx) >= 1 => Given(1) = 1
    BY DEF Given
  <2> QED BY <2>2, <2>3, <2>4
<1>3. CASE rx = << >> /\ \A i \in DOMAIN tx : Silent(tx[i]) \/ (i = Len(tx) /\ tx[i] = Sent(c))
  <2>1. Len(rx') = 0 /\ rx' = << >>
    BY <1>1, <1>3
  <2>2. AwaitLine(c)'
    BY <1>3, <2>1 DEF AwaitLine, Silent
  <2> QED BY <1>3, <2>2
<1>4. CASE tx = << >> /\ Len(rx) = c.n + 1 /\ rx[1].v = "one" /\ \A i \in DOMAIN rx : rx[i].new
  <2>1. rx # << >>
    BY <1>1, <1>4
  <2>2. Len(rx') = c.n /\ \A i \in DOMAIN rx' : rx'[i].new
    BY <1>1, <1>2, <1>4, <2>1
  <2>3. DataLine(c)'
    BY <1>4, <2>2 DEF DataLine
  <2> QED BY <1>2, <1>4, <2>1, <2>3
<1>5. CASE tx = << >> /\ Len(rx) = 1 /\ rx[1].v # "one"
  <2>1. rx # << >>
    <3>1. rx = << >> => Len(rx) = 0
      OBVIOUS
    <3> QED BY <1>5, <3>1
  <2>2. Len(rx') = 0 /\ rx' = << >>
    BY <1>1, <1>2, <1>5, <2>1
  <2>3. AwaitLine(c)'
    BY <1>5, <2>2 DEF AwaitLine
  <2> QED BY <1>2, <1>5, <2>1, <2>3
<1> QED BY <1>3, <1>4, <1>5 DEF AwaitLine

LEMMA BpDataNext ==
    ASSUME NEW c, c \in Calls, c.k \in {"spi", "i2c"}, NEW u, u = DataPart(c),
           run'.call = c, run'.todo = u, InTransfer(c)', LevelOk', Clean' => DataLine(c)'
    PROVE  TransferInv'
<1>1. CASE c.n = 0
  <2>1. u = Ending(c)
    BY <1>1, BpAwaitPart
  <2>2. DataLine(c)' => Quiet'
    <3>1. tx' = << >> => DOMAIN tx' = {}
      OBVIOUS
    <3>2. DataLine(c)' => tx' = << >> /\ Len(rx') = 0 /\ rx' = << >>
      BY <1>1 DEF DataLine
    <3> QED BY <3>1, <3>2 DEF Quiet
  <2>3. Renewed(c)'
    BY <1>1 DEF Renewed, Wanted
  <2>4. AtEnd(c, u)'
    BY <2>1, <2>2, <2>3 DEF AtEnd, EndPlaces
  <2> QED BY <2>4, BpLands
<1>2. CASE c.n > 0
  <2>1. AtData(c, u)'
    BY <1>2 DEF AtData
  <2> QED BY <2>1, BpLands
<1>3. c.n \in Nat
  BY BpPieces
<1> QED BY <1>1, <1>2, <1>3

LEMMA BpAwaitHost ==
    ASSUME BpTypes, HostStep, OutInv, NEW c, c = run.call, InTransfer(c), AtAwait(c, run.todo)
    PROVE  TransferInv' /\ OutInv'
<1>1. PICK t : t = run.todo
  OBVIOUS
<1>2. /\ c.k \in {"spi", "i2c"} /\ AwaitPart(c) # DataPart(c) /\ t = AwaitPart(c)
      /\ (Clean => AwaitLine(c)) /\ LevelOk
  BY <1>1 DEF AtAwait
<1>3. /\ c \in Calls /\ c.n \in Nat /\ Session
      /\ \A w : run' = [run EXCEPT !.todo = w] => run'.call = c /\ run'.todo = w
  BY <1>2, BpCallFacts
<1>4. PICK u : u = DataPart(c)
  OBVIOUS
<1>5. Now = (IF c.k = "i2c" THEN Step("awaiti2c", 0, 0) ELSE Step("await", 0, 0)) /\ Rest = u
      /\ run.todo # << >>
  <2>1. u \in Seq(Steps) /\ Step("awaiti2c", 0, 0) \in Steps /\ Step("await", 0, 0) \in Steps
    BY <1>2, <1>3, <1>4, BpPieces
  <2>2. CASE c.k = "i2c"
    <3>1. run.todo = <<Step("awaiti2c", 0, 0)>> \o u
      BY <1>1, <1>2, <1>3, <1>4, <2>2, BpAwaitPart
    <3> QED BY <2>1, <2>2, <3>1, BpHeads
  <2>3. CASE c.k = "spi"
    <3>1. run.todo = <<Step("await", 0, 0)>> \o u
      BY <1>1, <1>2, <1>3, <1>4, <2>3, BpAwaitPart
    <3> QED BY <2>1, <2>3, <3>1, BpHeads
  <2> QED BY <1>2, <2>2, <2>3
<1> DEFINE one == rx # << >> /\ Head(rx).v = "one"
<1>6. /\ UNCHANGED <<dll, host, ent, out, tx, dev>>
      /\ \/ run' = [run EXCEPT !.todo = OnFailure] /\ dirty' = 1
         \/ Taken(1) /\ dirty' = dirty /\ IF one THEN run' = [run EXCEPT !.todo = u] ELSE run' = run
  <2>1. CASE c.k = "i2c"
    <3>1. Now.s = "awaiti2c" /\ AwaitI2C
      BY <1>5, <2>1, BpWhich DEF Step
    <3> QED BY <1>5, <3>1 DEF AwaitI2C, Cancelled, Continue, Advance
  <2>2. CASE c.k = "spi"
    <3>1. Now.s = "await" /\ AwaitSPI
      BY <1>5, <2>2, BpWhich DEF Step
    <3>2. /\ UNCHANGED <<dll, host, ent, out, tx, dev>>
          /\ \/ run' = [run EXCEPT !.todo = OnFailure] /\ dirty' = 1
             \/ /\ Taken(1) /\ dirty' = dirty
                /\ mem' = [mem EXCEPT ![1] = IF rx = << >> THEN NoByte ELSE Head(rx)]
                /\ IF mem'[1].v = "one" THEN run' = [run EXCEPT !.todo = u] ELSE run' = run
      BY <1>5, <3>1 DEF AwaitSPI, Cancelled, Continue, Advance
    <3>3. ASSUME mem' = [mem EXCEPT ![1] = IF rx = << >> THEN NoByte ELSE Head(rx)]
          PROVE  mem'[1].v = "one" <=> one
      <4>1. 1 \in DOMAIN mem
        BY BuzzPiratAssumption DEF BpTypes
      <4>2. mem'[1] = IF rx = << >> THEN NoByte ELSE Head(rx)
        BY <3>3, <4>1
      <4> QED BY <4>2 DEF NoByte, Byte
    <3> HIDE DEF one
    <3> QED BY <3>2, <3>3
  <2> QED BY <1>2, <2>1, <2>2
<1>7. InTransfer(c)' /\ LevelOk'
  BY <1>2, <1>3, <1>6, BpInTransfer DEF Session, Without, LevelOk, LevelKept
<1>8. OutInv'
  BY <1>5, <1>6 DEF OutInv
<1>9. CASE run' = [run EXCEPT !.todo = OnFailure] /\ dirty' = 1
  <2>1. PICK w : w = OnFailure
    OBVIOUS
  <2>2. run'.call = c /\ run'.todo = w
    BY <1>3, <1>9, <2>1
  <2>3. w \in QuietPlaces(c) /\ w \in QuietPlaces(c)'
    BY <1>2, <2>1 DEF OnFailure, QuietPlaces
  <2>4. AtQuiet(c, w)'
    BY <1>7, <1>9, <2>3 DEF AtQuiet, Clean
  <2> QED BY <1>7, <1>8, <2>2, <2>4, BpLands
<1>10. CASE Taken(1) /\ dirty' = dirty /\ IF one THEN run' = [run EXCEPT !.todo = u] ELSE run' = run
  <2>1. Clean' => Clean /\ IF one THEN DataLine(c)' ELSE AwaitLine(c)'
    <3>1. AwaitLine(c) => IF rx # << >> /\ Head(rx).v = "one" THEN DataLine(c)' ELSE AwaitLine(c)'
      BY <1>3, <1>6, <1>10, BpAwaitRead
    <3>2. Clean' => Clean
      BY <1>6, <1>10 DEF Clean
    <3> QED BY <1>2, <3>1, <3>2
  <2>2. CASE one
    <3>1. run'.call = c /\ run'.todo = u
      BY <1>3, <1>10, <2>2
    <3>2. Clean' => DataLine(c)'
      BY <2>1, <2>2
    <3> QED BY <1>2, <1>3, <1>4, <1>7, <1>8, <3>1, <3>2, BpDataNext
  <2>3. CASE ~one
    <3>1. run'.call = c /\ run'.todo = t
      BY <1>1, <1>10, <2>3
    <3>2. AwaitPart(c)' = AwaitPart(c)
      BY <1>6 DEF AwaitPart
    <3>3. AtAwait(c, t)'
      BY <1>2, <1>7, <2>1, <2>3, <3>2 DEF AtAwait
    <3> QED BY <1>7, <1>8, <3>1, <3>3, BpLands
  <2> QED BY <2>2, <2>3
<1> QED BY <1>6, <1>9, <1>10

LEMMA BpDataHost ==
    ASSUME BpTypes, HostStep, OutInv, NEW c, c = run.call, InTransfer(c), AtData(c, run.todo)
    PROVE  TransferInv' /\ OutInv'
<1>1. /\ c.k \in {"spi", "i2c"} /\ c.n > 0 /\ run.todo = DataPart(c) /\ (Clean => DataLine(c)) /\ LevelOk
  BY DEF AtData
<1>2. /\ c \in Calls /\ c.n \in Nat /\ c.n \in Sizes /\ Session
      /\ \A w : run' = [run EXCEPT !.todo = w] => run'.call = c /\ run'.todo = w
  BY <1>1, BpCallFacts
<1>3. PICK u : u = Ending(c)
  OBVIOUS
<1>4. Now = Step("data", 0, c.n) /\ Rest = u /\ run.todo # << >>
  <2>1. u \in Seq(Steps) /\ Step("data", 0, c.n) \in Steps
    BY <1>1, <1>2, <1>3, BpPieces
  <2>2. run.todo = <<Step("data", 0, c.n)>> \o u
    BY <1>1, <1>2, <1>3, BpAwaitPart
  <2> QED BY <2>1, <2>2, BpHeads
<1>5. Now.s = "data" /\ Now.n = c.n /\ ReadData
  BY <1>4, BpWhich DEF Step
<1>6. /\ Taken(c.n) /\ mem' = Overlaid(c.n) /\ run'.call = c /\ run'.todo = u
      /\ UNCHANGED <<dll, host, ent, out, tx, dev, dirty>>
  BY <1>2, <1>4, <1>5 DEF ReadData, Advance, Continue
<1>7. InTransfer(c)' /\ LevelOk'
  BY <1>1, <1>2, <1>6, BpInTransfer DEF Session, Without, LevelOk, LevelKept
<1>8. OutInv'
  BY <1>4, <1>6 DEF OutInv
<1>9. ASSUME Clean PROVE Quiet' /\ Renewed(c)'
  <2>1. tx = << >> /\ Len(rx) = c.n /\ \A i \in DOMAIN rx : rx[i].new
    BY <1>1, <1>9 DEF DataLine
  <2>2. /\ rx' \in Seq(Bytes) /\ Len(rx) \in Nat /\ Len(rx') = Len(rx) - Given(c.n) /\ DOMAIN rx = 1 .. Len(rx)
    BY <1>2, <1>6, BpTaken
  <2>3. Given(c.n) = c.n
    BY <2>1, <2>2 DEF Given
  <2>4. rx' = << >> /\ tx' = << >> /\ DOMAIN tx' = {}
    <3>1. Len(rx') = 0
      BY <1>2, <2>1, <2>2, <2>3
    <3> QED BY <1>6, <2>1, <2>2, <3>1
  <2>5. mem' = [i \in 1 .. MaxSize |-> IF i <= c.n THEN rx[i] ELSE mem[i]]
    BY <1>6, <2>3 DEF Overlaid, BpTypes
  <2>6. \A i \in 1 .. c.n : i \in 1 .. MaxSize /\ i <= c.n /\ i \in DOMAIN rx
    BY <1>2, <2>1, <2>2, BuzzPiratAssumption DEF Sizes
  <2>7. \A i \in 1 .. c.n : mem'[i].new
    BY <2>1, <2>5, <2>6
  <2>8. Wanted(c) = c.n
    BY <1>1 DEF Wanted
  <2> QED BY <2>4, <2>7, <2>8 DEF Quiet, Renewed
<1>10. Clean' => Clean
  BY <1>6 DEF Clean
<1>11. AtEnd(c, u)'
  BY <1>3, <1>7, <1>9, <1>10 DEF AtEnd, EndPlaces
<1> QED BY <1>6, <1>7, <1>8, <1>11, BpLands

LEMMA BpByteHost ==
    ASSUME BpTypes, ~Late, HostStep, OutInv, NEW c, c = run.call, InTransfer(c), AtByte(c, run.todo)
    PROVE  TransferInv' /\ OutInv'
<1>1. /\ c.k = "readbyte"
      /\ \/ run.todo = <<Send(6), Step("readbyte", 0, 3), Done>> /\ (Clean => ByteLine(1))
         \/ run.todo = <<Step("readbyte", 0, 3), Done>> /\ (Clean => ByteLine(2))
  BY DEF AtByte
<1>2. /\ c \in Calls /\ dll.last = "i2c" /\ Session
      /\ \A w : run' = [run EXCEPT !.todo = w] => run'.call = c /\ run'.todo = w
  BY <1>1, BpCallFacts
<1>3. CASE run.todo = <<Send(6), Step("readbyte", 0, 3), Done>> /\ (Clean => ByteLine(1))
  <2>1. PICK u : u = <<Step("readbyte", 0, 3), Done>>
    OBVIOUS
  <2>2. Now = Send(6) /\ Rest = u /\ run.todo # << >>
    BY <1>3, <2>1 DEF Now, Rest
  <2>3. Now.s = "send" /\ Now.b = 6 /\ Now.n = 0 /\ ComWrite
    BY <2>2, BpWhich DEF Send, Step
  <2>4. /\ tx' = Append(tx, [b |-> 6, n |-> 0, new |-> TRUE])
        /\ UNCHANGED <<dll, host, ent, mem, out, rx, dev, dirty>>
        /\ run'.call = c /\ run'.todo = u
    BY <1>2, <2>2, <2>3 DEF ComWrite, Advance, Continue
  <2>5. OutInv'
    BY <2>2, <2>4 DEF OutInv
  <2>6. 6 \in Nat /\ 6 # 0 /\ 0 \in Nat
    OBVIOUS
  <2>7. InTransfer(c)'
    <3>1. Without({0})'
      BY <1>2, <2>4, <2>6, BpLineSend DEF Session
    <3> QED BY <2>4, <3>1, BpInTransfer
  <2>8. ByteLine(1) => ByteLine(2)'
    <3>1. /\ Len(tx') = Len(tx) + 1 /\ Len(tx) \in Nat /\ DOMAIN tx' = 1 .. Len(tx) + 1 /\ DOMAIN tx = 1 .. Len(tx)
          /\ tx'[Len(tx) + 1] = [b |-> 6, n |-> 0, new |-> TRUE] /\ \A i \in DOMAIN tx : tx'[i] = tx[i]
      BY <2>4, <2>6, BpSent
    <3>2. \A i \in DOMAIN tx' : i \in DOMAIN tx \/ i = Len(tx) + 1
      BY <3>1
    <3>3. Len(rx) \in Nat /\ Len(rx') = Len(rx)
      BY <2>4 DEF BpTypes
    <3> QED BY <2>4, <3>1, <3>2, <3>3 DEF ByteLine
  <2>9. AtByte(c, u)'
    BY <1>1, <1>3, <2>1, <2>4, <2>8 DEF AtByte, Clean
  <2> QED BY <2>4, <2>5, <2>7, <2>9, BpLands
<1>4. CASE run.todo = <<Step("readbyte", 0, 3), Done>> /\ (Clean => ByteLine(2))
  <2>1. PICK u : u = <<Done>>
    OBVIOUS
  <2>2. Now = Step("readbyte", 0, 3) /\ Rest = u /\ run.todo # << >>
    BY <1>4, <2>1 DEF Now, Rest
  <2>3. Now.s = "readbyte" /\ Now.n = 3 /\ ReadByte
    BY <2>2, BpWhich DEF Step
  <2>4. /\ ComRead(3) /\ Taken(3) /\ mem' = [mem EXCEPT ![1] = IF rx = << >> THEN NoByte ELSE Head(rx)]
        /\ UNCHANGED <<dll, host, ent, out, tx, dev, dirty>>
        /\ run'.call = c /\ run'.todo = u
    BY <1>2, <2>2, <2>3 DEF ReadByte, Advance, Continue
  <2>5. OutInv'
    BY <2>2, <2>4 DEF OutInv
  <2>6. InTransfer(c)'
    BY <1>2, <2>4, BpInTransfer DEF Session, Without
  <2>7. ASSUME ByteLine(2) PROVE Quiet' /\ Renewed(c)'
    <3>1. /\ rx' \in Seq(Bytes) /\ Len(rx) \in Nat /\ Len(rx') = Len(rx) - Given(3) /\ DOMAIN rx = 1 .. Len(rx)
      BY <2>4, BpTaken
    <3>0. PICK m : m = Len(tx)
      OBVIOUS
    <3>2. m \in Nat /\ m + Len(rx) = 2
      BY <2>7, <3>0 DEF BpTypes, ByteLine
    <3>3. ~Slow
      <4>1. ASSUME tx # << >> PROVE 1 \in DOMAIN tx /\ Head(tx) = tx[1]
        BY <4>1 DEF BpTypes
      <4> QED BY <2>7, <4>1 DEF Slow, ByteLine
    <3>4. tx = << >>
      <4>1. ~(Len(rx) >= 3)
        BY <3>1, <3>2
      <4> QED BY <2>4, <3>3, <4>1 DEF ComRead, MayTimeOut
    <3>5. Len(rx) = 2
      <4>1. m = 0
        BY <3>0, <3>4
      <4>2. PICK l \in Nat : l = Len(rx)
        BY <3>1
      <4>3. m + l = 2 /\ m \in Nat
        BY <3>2, <4>2
      <4>4. l = 2
        BY <4>1, <4>3
      <4> QED BY <4>2, <4>4
    <3>6. Given(3) = 2
      BY <3>5 DEF Given
    <3>7. rx' = << >> /\ tx' = << >> /\ DOMAIN tx' = {}
      <4>1. Len(rx') = 0
        BY <3>1, <3>5, <3>6
      <4> QED BY <2>4, <3>1, <3>4, <4>1
    <3>8. rx # << >> /\ Head(rx) = rx[1] /\ rx[1].new
      <4>1. rx \in Seq(Bytes)
        BY DEF BpTypes
      <4>2. 1 \in DOMAIN rx
        BY <3>1, <3>5
      <4> QED BY <2>7, <4>1, <4>2 DEF ByteLine
    <3>9. mem'[1].new
      BY <2>4, <3>8, BuzzPiratAssumption DEF BpTypes
    <3>10. Wanted(c) = 1
      BY <1>1 DEF Wanted
    <3> QED BY <3>7, <3>9, <3>10 DEF Quiet, Renewed
  <2>8. LevelOk'
    BY <1>2, <2>4 DEF LevelOk
  <2>9. AtEnd(c, u)'
    BY <1>4, <2>1, <2>4, <2>7, <2>8 DEF AtEnd, EndPlaces, Clean
  <2> QED BY <2>4, <2>5, <2>6, <2>9, BpLands
<1> QED BY <1>1, <1>3, <1>4

LEMMA BpTransferHost ==
    ASSUME BpTypes, EntInv, OutInv, ~Late, HostStep, TransferInv
    PROVE  (TransferInv' \/ IdleInv') /\ OutInv'
<1>1. PICK c : c = run.call
  OBVIOUS
<1>2. InTransfer(c) /\ AtTransfer(c, run.todo)
  BY <1>1 DEF TransferInv
<1>3. CASE AtQuiet(c, run.todo)
  BY <1>1, <1>2, <1>3, BpQuietHost
<1>4. CASE AtEnd(c, run.todo)
  BY <1>1, <1>2, <1>4, BpEndHost
<1>5. CASE AtCs(c, run.todo)
  BY <1>1, <1>2, <1>5, BpCsHost
<1>6. CASE AtAwait(c, run.todo)
  BY <1>1, <1>2, <1>6, BpAwaitHost
<1>7. CASE AtData(c, run.todo)
  BY <1>1, <1>2, <1>7, BpDataHost
<1>8. CASE AtAnswer(c, run.todo)
  BY <1>1, <1>2, <1>8, BpAnswerHost
<1>9. CASE AtByte(c, run.todo)
  BY <1>1, <1>2, <1>9, BpByteHost
<1> QED BY <1>2, <1>3, <1>4, <1>5, <1>6, <1>7, <1>8, <1>9 DEF AtTransfer

(* A transfer takes no step that open and close take.                          *)
LEMMA BpTransferNow ==
    ASSUME BpTypes, TransferInv
    PROVE  /\ run.todo # << >>
           /\ Now.s \in {"cs", "gate", "send", "return", "read", "await", "awaiti2c", "data", "readbyte"}
<1>1. PICK c : c = run.call
  OBVIOUS
<1>2. PICK t : t = run.todo
  OBVIOUS
<1>3. InTransfer(c) /\ AtTransfer(c, t)
  BY <1>1, <1>2 DEF TransferInv
<1>4. c \in Calls /\ c.k \in {"spi", "i2c", "start", "stop", "readbyte", "writebyte"}
  BY <1>1, <1>3, BpCallFacts
<1> DEFINE Ours == {"cs", "gate", "send", "return", "read", "await", "awaiti2c", "data", "readbyte"}
           Fits(x) == x \in Steps /\ x.s \in Ours
<1>5. /\ \A b \in Nat : Fits(Send(b)) /\ Fits(Read(b)) /\ Fits(SendFor(5, b)) /\ Fits(SendFor(8, b))
                        /\ Fits(Step("data", 0, b))
      /\ Fits(Gate) /\ Fits(CsLow) /\ Fits(CsHigh) /\ Fits(Fail) /\ Fits(Done)
      /\ Fits(Step("await", 0, 0)) /\ Fits(Step("awaiti2c", 0, 0)) /\ Fits(Step("readbyte", 0, 3))
  BY DEF Send, SendFor, Read, Gate, CsLow, CsHigh, Fail, Done, Step, Steps, StepNames
<1> DEFINE Good(q) == q # << >> /\ Fits(Head(q))
<1> HIDE DEF Fits
<1>6. \A x, s : Fits(x) /\ s \in Seq(Steps) => Good(<<x>> \o s)
  <2>1. SUFFICES ASSUME NEW x, NEW s, Fits(x), s \in Seq(Steps) PROVE Good(<<x>> \o s)
    OBVIOUS
  <2>2. x \in Steps
    BY <2>1 DEF Fits
  <2> QED BY <2>1, <2>2, BpCons
<1>7. \A x, y, s : Fits(x) /\ Fits(y) /\ s \in Seq(Steps) => Good(<<x, y>> \o s)
  <2>1. SUFFICES ASSUME NEW x, NEW y, NEW s, Fits(x), Fits(y), s \in Seq(Steps) PROVE Good(<<x, y>> \o s)
    OBVIOUS
  <2>2. x \in Steps /\ y \in Steps
    BY <2>1 DEF Fits
  <2>3. /\ Cat(<<x, y>>, s) = Cat(<<x>>, Cat(<<y>>, s)) /\ Cat(<<y>>, s) \in Seq(Steps)
    BY <2>1, <2>2, BpPairsCat
  <2>4. Good(<<x>> \o Cat(<<y>>, s))
    BY <1>6, <2>1, <2>3
  <2>5. Good(Cat(<<x>>, Cat(<<y>>, s)))
    BY <2>4 DEF Cat
  <2> HIDE DEF Good
  <2>6. Good(Cat(<<x, y>>, s))
    BY <2>3, <2>5
  <2> QED BY <2>6 DEF Cat
<1>8. c.k \in {"spi", "i2c"} =>
          /\ c.n \in Nat /\ {Ending(c), DataPart(c), AwaitPart(c), CommandPart(c)} \subseteq Seq(Steps)
          /\ Good(CommandPart(c))
  <2>1. SUFFICES ASSUME c.k \in {"spi", "i2c"}
                 PROVE  /\ c.n \in Nat /\ {Ending(c), DataPart(c), AwaitPart(c), CommandPart(c)} \subseteq Seq(Steps)
                        /\ Good(CommandPart(c))
    OBVIOUS
  <2>2. c.n \in Nat /\ {Ending(c), DataPart(c), AwaitPart(c), CommandPart(c)} \subseteq Seq(Steps)
    BY <1>4, <2>1, BpPieces
  <2> HIDE DEF Good
  <2>3. Good(CommandPart(c))
    <3>1. CASE c.k = "spi"
      BY <1>5, <1>6, <2>2, <3>1 DEF CommandPart
    <3>2. CASE c.k = "i2c"
      BY <1>5, <1>6, <2>2, <3>2 DEF CommandPart
    <3> QED BY <2>1, <3>1, <3>2
  <2> QED BY <2>2, <2>3
<1>9. ASSUME AtQuiet(c, t) PROVE Good(t)
  <2>1. t \in QuietPlaces(c)
    BY <1>9 DEF AtQuiet
  <2>2. CASE c.k \in {"spi", "i2c"}
    <3>1. t \in {<<CsLow, Gate>> \o CommandPart(c), <<Gate>> \o CommandPart(c),
                         CommandPart(c), <<CsHigh, Fail>>, <<Fail>>}
      BY <2>1, <2>2 DEF QuietPlaces
    <3>2. Good(<<CsHigh, Fail>>) /\ Good(<<Fail>>)
      BY <1>5
    <3>3. Good(<<CsLow, Gate>> \o CommandPart(c)) /\ Good(<<Gate>> \o CommandPart(c))
      BY <1>5, <1>6, <1>7, <1>8, <2>2
    <3> HIDE DEF Good
    <3> QED BY <1>8, <2>2, <3>1, <3>2, <3>3
  <2>3. CASE c.k \notin {"spi", "i2c"}
    <3>1. \E b \in Nat : t[1] \in {Gate, Send(b), Fail} /\ t # << >> /\ Head(t) = t[1]
      BY <1>4, <2>1, <2>3 DEF QuietPlaces
    <3> QED BY <1>5, <3>1
  <2> QED BY <2>2, <2>3
<1>10. ASSUME AtEnd(c, t) PROVE Good(t)
  <2>1. t \in {<<CsHigh, Done>>, <<Done>>}
    BY <1>10 DEF AtEnd, EndPlaces, Ending
  <2> QED BY <1>5, <2>1
<1>11. ASSUME AtCs(c, t) PROVE Good(t)
  <2>1. c.k = "spi" /\ \E b \in {2, 3}, r \in CsRests(c) :
             t = <<Send(b), Read(1)>> \o r \/ t = <<Read(1)>> \o r
    BY <1>11 DEF AtCs
  <2>2. PICK b \in {2, 3}, r \in CsRests(c) : t = <<Send(b), Read(1)>> \o r \/ t = <<Read(1)>> \o r
    BY <2>1
  <2>3. r \in Seq(Steps) /\ Fits(Send(b)) /\ Fits(Read(1))
    BY <1>4, <1>5, <2>1, BpRests
  <2>4. Good(<<Send(b), Read(1)>> \o r) /\ Good(<<Read(1)>> \o r)
    BY <1>6, <1>7, <2>3
  <2> HIDE DEF Good
  <2> QED BY <2>2, <2>4
<1>12. ASSUME AtAwait(c, t) PROVE Good(t)
  <2>1. c.k \in {"spi", "i2c"} /\ AwaitPart(c) # DataPart(c) /\ t = AwaitPart(c)
    BY <1>12 DEF AtAwait
  <2>2. t \in {<<Step("await", 0, 0)>> \o DataPart(c), <<Step("awaiti2c", 0, 0)>> \o DataPart(c)}
    BY <1>4, <2>1, BpAwaitPart
  <2>3. Good(<<Step("await", 0, 0)>> \o DataPart(c)) /\ Good(<<Step("awaiti2c", 0, 0)>> \o DataPart(c))
    BY <1>5, <1>6, <1>8, <2>1
  <2> HIDE DEF Good
  <2> QED BY <2>2, <2>3
<1>13. ASSUME AtData(c, t) PROVE Good(t)
  <2>1. c.k \in {"spi", "i2c"} /\ c.n > 0 /\ t = DataPart(c)
    BY <1>13 DEF AtData
  <2>2. t = <<Step("data", 0, c.n)>> \o Ending(c)
    BY <1>4, <2>1, BpAwaitPart
  <2>3. Good(<<Step("data", 0, c.n)>> \o Ending(c))
    BY <1>5, <1>6, <1>8, <2>1
  <2> HIDE DEF Good
  <2> QED BY <2>2, <2>3
<1>14. ASSUME AtAnswer(c, t) \/ AtByte(c, t) PROVE Good(t)
  <2>1. \E b \in Nat : t[1] \in {Read(b), Send(b), Step("readbyte", 0, 3)} /\ t # << >> /\ Head(t) = t[1]
    BY <1>14 DEF AtAnswer, AtByte
  <2> QED BY <1>5, <2>1
<1>15. Good(t)
  BY <1>3, <1>9, <1>10, <1>11, <1>12, <1>13, <1>14 DEF AtTransfer
<1> QED BY <1>2, <1>15 DEF Now, Fits

(* Where a step of open, or of the modes of the device, may be met.            *)
LEMMA BpHostNow ==
    ASSUME BpTypes, Places, run.todo # << >>
    PROVE  /\ Now.s = "init" => run.call \in Calls /\ run.call.k = "open"
           /\ Now.s = "enter" => Now.n \in {0, 1}
<1>1. CASE IdleInv
  BY <1>1 DEF IdleInv
<1>2. CASE ShortInv
  <2>1. AtShort
    BY <1>2 DEF ShortInv
  <2>2. run.call.k \in {"open", "close"} /\ run.call \in Calls
    BY <2>1 DEF AtShort, BpTypes, NoCall
  <2>3. CASE run.call.k = "open" /\ run.todo = <<InitStep>>
    <3>1. Now = InitStep
      BY <2>3 DEF Now
    <3> QED BY <2>2, <2>3, <3>1 DEF InitStep, Step
  <2>4. CASE \E x : run.todo = <<Close, x>>
    <3>1. Now = Close
      BY <2>4 DEF Now
    <3> QED BY <3>1 DEF Close, Step
  <2>5. CASE \E x \in {ClosedStep, Opened1, Opened0} : run.todo = <<x>>
    <3>1. Now \in {ClosedStep, Opened1, Opened0}
      BY <2>5 DEF Now
    <3> QED BY <3>1 DEF ClosedStep, Opened1, Opened0, Step
  <2> QED BY <2>1, <2>3, <2>4, <2>5 DEF AtShort
<1>3. CASE TransferInv
  BY <1>3, BpTransferNow
<1>4. ASSUME NEW k \in 1 .. 31, SettingInv(k)
      PROVE  Now.s # "init" /\ (Now.s = "enter" => Now.n \in {0, 1})
  <2> DEFINE c == run.call
             q == Setting(c)
             L == SettingLen(c)
  <2>1. c \in Calls /\ c.k = "open"
    <3>1. c \in Calls \cup {NoCall} /\ c.k = "open"
      BY <1>4 DEF BpTypes, SettingInv, AtSetting
    <3> QED BY <3>1 DEF NoCall
  <2>2. q \in Seq(Steps) /\ Len(q) = L /\ L \in {24, 26, 31} /\ \A j \in 1 .. L : SettingStep(c, q[j], j)
    BY <2>1, BpSetting DEF SettingLen
  <2>3. k \in 1 .. Len(q) /\ run.todo = SubSeq(q, k, Len(q))
    BY <1>4 DEF SettingInv, AtSetting
  <2> HIDE DEF q, L
  <2>4. Now = q[k]
    BY <2>2, <2>3, BpPlace
  <2>5. SettingStep(c, Now, k) /\ k \in 1 .. L
    BY <2>2, <2>3, <2>4
  <2>6. OpenStep(Now, k) /\ k \in 1 .. 17 =>
            Now \in {Send(15), Flush, Send(13), Step("prompt", 0, 1), Send(35), Step("enter", 0, 1)}
    BY DEF OpenStep
  <2>7. k \in 1 .. 17 \/ k = 18 \/ k > 18
    OBVIOUS
  <2>8. \/ Now \in {Send(15), Flush, Send(13), Step("prompt", 0, 1), Send(35), Step("enter", 0, 1)}
        \/ Now = Step("enter", ModeByte(c), 0) \/ LaterStep(Now) \/ Now \in {Close, Flush, Opened0}
    <3>1. CASE k \in 1 .. 17
      <4>1. OpenStep(Now, k)
        BY <2>5, <3>1 DEF SettingStep
      <4> QED BY <2>6, <3>1, <4>1
    <3>2. CASE k = 18
      BY <2>5, <3>2 DEF SettingStep
    <3>3. CASE k > 18
      <4>1. k < L - 1 \/ k = L - 1 \/ k = L
        BY <2>2, <2>5
      <4> QED BY <2>5, <3>3, <4>1 DEF SettingStep, L
    <3> QED BY <2>7, <3>1, <3>2, <3>3
  <2> QED BY <2>8 DEF LaterStep, Send, Flush, Step, Read, Close, Opened0
<1>5. ASSUME NEW x \in After(run.call), NEW k \in 1 .. 9, ClosingInv(x, k)
      PROVE  Now.s # "init" /\ (Now.s = "enter" => Now.n \in {0, 1})
  <2> DEFINE q == Closing(x)
  <2>1. x \in Steps
    BY BpSteps DEF After
  <2>2. /\ q \in Seq(Steps) /\ Len(q) = 10 /\ \A j \in 1 .. 8 : OpenStep(q[j], j)
        /\ q[9] = Step("closed", 0, 0)
    BY <2>1, BpClosing
  <2>3. k \in 1 .. Len(q) /\ run.todo = SubSeq(q, k, Len(q))
    BY <1>5, <2>2 DEF ClosingInv, AtClosing
  <2> HIDE DEF q
  <2>4. Now = q[k]
    BY <2>2, <2>3, BpPlace
  <2>5. CASE k \in 1 .. 8
    <3>1. Now \in {Send(15), Flush, Send(13), Step("prompt", 0, 1), Send(35), Step("enter", 0, 1)}
      BY <2>2, <2>4, <2>5 DEF OpenStep
    <3> QED BY <3>1 DEF Send, Flush, Step
  <2>6. CASE k = 9
    BY <2>2, <2>4, <2>6 DEF Step
  <2> QED BY <2>5, <2>6
<1> QED BY <1>1, <1>2, <1>3, <1>4, <1>5 DEF Places

LEMMA BpPlacesHost ==
    ASSUME BpTypes, EntInv, OutInv, ~Late, HostStep, Places
    PROVE  BpTypes' /\ EntInv' /\ OutInv' /\ Places'
<1>1. run.todo # << >>
  BY BpWhich
<1>2. BpTypes'
  <2>1. /\ Running("init") => run.call \in Calls /\ run.call.k = "open"
        /\ Running("enter") => Now.n \in {0, 1}
    BY <1>1, BpHostNow DEF Running
  <2> QED BY <2>1, BpTypesHost
<1>3. ~IdleInv
  BY <1>1 DEF IdleInv
<1>4. CASE ShortInv
  <2>1. /\ EntInv' /\ OutInv'
        /\ \/ IdleInv' \/ ShortInv' \/ SettingInv(1)'
           \/ \E x \in {InitStep, ClosedStep} : x \in After(run'.call) /\ ClosingInv(x, 1)'
    BY <1>4, BpShortHost
  <2>2. Places'
    BY <2>1 DEF Places
  <2> QED BY <1>2, <2>1, <2>2
<1>5. CASE TransferInv
  <2>1. EntInv'
    BY <1>5, BpTransferNow, BpEntStay
  <2>2. (TransferInv' \/ IdleInv') /\ OutInv'
    BY <1>5, BpTransferHost
  <2> QED BY <1>2, <2>1, <2>2 DEF Places
<1>6. ASSUME NEW k \in 1 .. 31, SettingInv(k) PROVE EntInv' /\ OutInv' /\ Places'
  <2>1. /\ EntInv' /\ OutInv'
        /\ \/ \E j \in 1 .. 31 : SettingInv(j)'
           \/ Scanning(run'.call) /\ ClosingInv(Opened0, 1)'
           \/ IdleInv'
    BY <1>6, BpSettingHost
  <2>2. Scanning(run'.call) /\ ClosingInv(Opened0, 1)' => Places'
    <3>1. ClosingInv(Opened0, 1)' => Opened0 \in After(run'.call)
      BY DEF ClosingInv, AtClosing
    <3> QED BY <3>1 DEF Places
  <2> QED BY <2>1, <2>2 DEF Places
<1>7. ASSUME NEW x \in After(run.call), NEW k \in 1 .. 9, ClosingInv(x, k)
      PROVE  EntInv' /\ OutInv' /\ Places'
  <2>1. /\ EntInv' /\ OutInv'
        /\ \/ x \in After(run'.call) /\ \E j \in 1 .. 9 : ClosingInv(x, j)'
           \/ ShortInv'
    BY <1>7, BpClosingHost
  <2>2. Places'
    BY <2>1 DEF Places
  <2> QED BY <2>1, <2>2
<1> QED BY <1>2, <1>3, <1>4, <1>5, <1>6, <1>7 DEF Places

(* Steps that leave the program of the call where it is.                       *)
LEMMA BpLineSame ==
    ASSUME UNCHANGED <<ent, tx, rx, dev>>, NEW k, NEW p
    PROVE  LineAt(k, p)' <=> LineAt(k, p)
<1>1. \A bs : (Holds(bs)' <=> Holds(bs)) /\ (Without(bs)' <=> Without(bs))
  BY DEF Holds, Without
<1>2. NoI' <=> NoI
  BY DEF NoI
<1>3. Session' <=> Session
  BY <1>1 DEF Session
<1>4. (StartLine' <=> StartLine) /\ (PreLine' <=> PreLine) /\ (BitLine' <=> BitLine)
  BY <1>1, <1>2, <1>3 DEF StartLine, PreLine, BitLine
<1>5. EnterLine' <=> EnterLine
  BY <1>1, <1>2 DEF EnterLine
<1>6. \A b : ModeLine(b)' <=> ModeLine(b)
  BY DEF ModeLine, Holds
<1>7. UpLine(p)' <=> UpLine(p)
  BY DEF UpLine, Without
<1> HIDE DEF StartLine, PreLine, BitLine, EnterLine, ModeLine, UpLine
<1>8. (ModeLine(1)' <=> ModeLine(1)) /\ (ModeLine(2)' <=> ModeLine(2))
  BY <1>6
<1>9. CASE p = "spi"
  BY <1>4, <1>5, <1>7, <1>8, <1>9 DEF LineAt
<1>10. CASE p # "spi"
  BY <1>4, <1>5, <1>7, <1>8, <1>10 DEF LineAt
<1> QED BY <1>9, <1>10

LEMMA BpSame ==
    ASSUME BpTypes, OutInv, Places, UNCHANGED <<run, ent, mem, out, tx, rx, dev, dirty>>,
           dll'.com = dll.com, dll'.last = dll.last, dll'.cs = dll.cs, dll'.spibug = dll.spibug,
           host'.open = host.open, host'.i2c = host.i2c
    PROVE  Places' /\ OutInv'
<1>1. OutInv'
  BY DEF OutInv
<1>2. /\ Ready' <=> Ready
      /\ Quiet' <=> Quiet
      /\ Clean' <=> Clean
      /\ LevelKept' <=> LevelKept
  <2>1. (Without({0})' <=> Without({0})) /\ (Without({2, 3})' <=> Without({2, 3}))
      /\ (Without({5, 8})' <=> Without({5, 8}))
    BY DEF Without
  <2>2. Session' <=> Session
    BY <2>1 DEF Session
  <2>3. StartLine' <=> StartLine
    BY <2>1, <2>2 DEF StartLine
  <2>4. LevelKept' <=> LevelKept
    BY <2>1 DEF LevelKept
  <2>5. Ready' <=> Ready
    BY <2>2, <2>3, <2>4 DEF Ready
  <2>6. Quiet' <=> Quiet
    BY DEF Quiet, Silent
  <2> QED BY <2>4, <2>5, <2>6 DEF Clean
<1>3. CASE IdleInv
  BY <1>1, <1>2, <1>3 DEF Places, IdleInv, DataInStep, Idle
<1>4. CASE ShortInv
  <2>1. AtShort'
    BY <1>4 DEF ShortInv, AtShort
  <2> QED BY <1>1, <1>2, <1>4, <2>1 DEF Places, ShortInv
<1>5. CASE TransferInv
  <2>1. PICK c : c = run.call
    OBVIOUS
  <2>2. PICK t : t = run.todo
    OBVIOUS
  <2>3. InTransfer(c) /\ AtTransfer(c, t)
    BY <1>5, <2>1, <2>2 DEF TransferInv
  <2>4. InTransfer(c)'
    BY <2>3 DEF InTransfer, Session, Without
  <2>5. /\ LevelOk' <=> LevelOk
        /\ Renewed(c)' <=> Renewed(c)
        /\ AwaitPart(c)' = AwaitPart(c) /\ CommandPart(c)' = CommandPart(c)
    BY <1>2 DEF LevelOk, Renewed, AwaitPart, CommandPart
  <2>6. QuietPlaces(c)' = QuietPlaces(c) /\ CsRests(c)' = CsRests(c)
    BY <2>5 DEF QuietPlaces, CsRests
  <2>7. AtQuiet(c, t) => AtQuiet(c, t)'
    BY <1>2, <2>5, <2>6 DEF AtQuiet
  <2>8. AtEnd(c, t) => AtEnd(c, t)'
    BY <1>2, <2>5 DEF AtEnd
  <2>9. (ReadLine(1) => ReadLine(1)') /\ (ReadLine(2) => ReadLine(2)') /\ (ReadLine(3) => ReadLine(3)')
    BY DEF ReadLine, Silent
  <2>10. (ByteLine(1) => ByteLine(1)') /\ (ByteLine(2) => ByteLine(2)')
    BY DEF ByteLine
  <2>11. AtCs(c, t) => AtCs(c, t)'
    BY <1>2, <2>5, <2>6, <2>9 DEF AtCs
  <2>12. AtAwait(c, t) => AtAwait(c, t)'
    <3>1. AwaitLine(c) => AwaitLine(c)'
      BY DEF AwaitLine, Silent
    <3> QED BY <1>2, <2>5, <3>1 DEF AtAwait
  <2>13. AtData(c, t) => AtData(c, t)'
    BY <1>2, <2>5 DEF AtData, DataLine
  <2>14. (AtAnswer(c, t) => AtAnswer(c, t)') /\ (AtByte(c, t) => AtByte(c, t)')
    BY <1>2, <2>9, <2>10 DEF AtAnswer, AtByte
  <2>15. TransferInv'
    <3>1. run'.call = c /\ run'.todo = t
      BY <2>1, <2>2
    <3> QED BY <2>3, <2>4, <2>7, <2>8, <2>11, <2>12, <2>13, <2>14, <3>1, BpLands DEF AtTransfer
  <2> QED BY <1>1, <2>15 DEF Places
<1>6. ASSUME NEW k \in 1 .. 31, SettingInv(k) PROVE Places'
  <2>1. PICK p : p = run.call.p
    OBVIOUS
  <2>2. LineAt(k, p)'
    BY <1>6, <2>1, BpLineSame DEF SettingInv
  <2>3. SettingInv(k)'
    BY <1>6, <2>1, <2>2 DEF SettingInv, AtSetting
  <2> QED BY <2>3 DEF Places
<1>7. ASSUME NEW x \in After(run.call), NEW k \in 1 .. 9, ClosingInv(x, k) PROVE Places'
  <2>1. LineAt(k, "none")'
    BY <1>7, BpLineSame DEF ClosingInv
  <2>2. ClosingInv(x, k)' /\ x \in After(run'.call)
    BY <1>7, <2>1 DEF ClosingInv, AtClosing
  <2> QED BY <2>2 DEF Places
<1> QED BY <1>1, <1>3, <1>4, <1>5, <1>6, <1>7 DEF Places

LEMMA BpPlacesRest ==
    ASSUME BpTypes, OutInv, Places, Escape \/ MenuResetEach \/ UNCHANGED vars
    PROVE  Places' /\ OutInv'
<1>1. /\ UNCHANGED <<run, ent, mem, out, tx, rx, dev, dirty>>
      /\ dll'.com = dll.com /\ dll'.last = dll.last /\ dll'.cs = dll.cs /\ dll'.spibug = dll.spibug
      /\ host'.open = host.open /\ host'.i2c = host.i2c
  <2>1. CASE Escape
    BY <2>1 DEF Escape, BpTypes
  <2>2. CASE MenuResetEach
    BY <2>2 DEF MenuResetEach, BpTypes
  <2>3. CASE UNCHANGED vars
    BY <2>3 DEF vars
  <2> QED BY <2>1, <2>2, <2>3
<1> QED BY <1>1, BpSame

LEMMA BpIdleOnly ==
    ASSUME BpTypes, Places, run.todo = << >>
    PROVE  IdleInv
<1>1. ~ShortInv
  BY DEF ShortInv, AtShort
<1>2. ~TransferInv
  BY BpTransferNow
<1>3. ASSUME NEW k \in 1 .. 31, SettingInv(k) PROVE FALSE
  <2> DEFINE c == run.call
             q == Setting(c)
  <2>1. c \in Calls /\ c.k = "open"
    <3>1. c \in Calls \cup {NoCall} /\ c.k = "open"
      BY <1>3 DEF BpTypes, SettingInv, AtSetting
    <3> QED BY <3>1 DEF NoCall
  <2>2. q \in Seq(Steps)
    BY <2>1, BpSetting
  <2>3. k \in 1 .. Len(q) /\ run.todo = SubSeq(q, k, Len(q))
    BY <1>3 DEF SettingInv, AtSetting
  <2> HIDE DEF q
  <2>4. run.todo # << >>
    BY <2>2, <2>3, BpPlace
  <2> QED BY <2>4
<1>4. ASSUME NEW x \in After(run.call), NEW k \in 1 .. 9, ClosingInv(x, k) PROVE FALSE
  <2> DEFINE q == Closing(x)
  <2>1. x \in Steps
    BY BpSteps DEF After
  <2>2. q \in Seq(Steps) /\ Len(q) = 10
    BY <2>1, BpClosing
  <2>3. k \in 1 .. Len(q) /\ run.todo = SubSeq(q, k, Len(q))
    BY <1>4, <2>2 DEF ClosingInv, AtClosing
  <2> HIDE DEF q
  <2>4. run.todo # << >>
    BY <2>2, <2>3, BpPlace
  <2> QED BY <2>4
<1> QED BY <1>1, <1>2, <1>3, <1>4 DEF Places

LEMMA BpPlacesCall ==
    ASSUME BpTypes, Places, NEW c, c \in Calls, Call(c)
    PROVE  Places' /\ OutInv'
<1>1. /\ run.todo = << >>
      /\ c.k \in {"open", "close"} \/ (host.open /\ host.i2c = (c.k # "spi"))
      /\ out' = [NoOut EXCEPT !.call = c]
      /\ mem' = Aged(mem) /\ tx' = Aged(tx) /\ rx' = Aged(rx)
      /\ dirty' = IF dirty \in 1 .. MaxDirty THEN dirty + 1 ELSE dirty
      /\ UNCHANGED <<dll, host, dev>>
  BY DEF Call
<1>2. PICK u : u = Program(c)
  OBVIOUS
<1>3. run'.call = c /\ run'.todo = u
  BY <1>2 DEF Call
<1>4. OutInv'
  BY <1>1 DEF OutInv, NoOut
<1>5. Ready /\ (Clean => Quiet) /\ (host.open => dll.com /\ host.i2c = (dll.last = "i2c"))
  BY <1>1, BpIdleOnly DEF IdleInv
<1>6. /\ DOMAIN tx' = DOMAIN tx /\ DOMAIN rx' = DOMAIN rx
      /\ \A i \in DOMAIN tx : tx'[i].b = tx[i].b /\ tx'[i].n = tx[i].n
      /\ rx = << >> => rx' = << >>
  <2>1. /\ Len(Aged(rx)) = Len(rx) /\ Aged(rx) \in Seq(Bytes)
        /\ DOMAIN Aged(tx) = DOMAIN tx /\ DOMAIN Aged(rx) = DOMAIN rx
        /\ \A i \in DOMAIN tx : Aged(tx)[i].b = tx[i].b /\ Aged(tx)[i].n = tx[i].n
    BY BpAged
  <2>2. rx = << >> => Aged(rx) = << >>
    <3> DEFINE a == Aged(rx)
    <3>1. a \in Seq(Bytes) /\ Len(a) = Len(rx)
      BY <2>1
    <3> HIDE DEF a
    <3>2. Len(a) = 0 => a = << >>
      BY <3>1
    <3>3. rx = << >> => Len(rx) = 0
      OBVIOUS
    <3> QED BY <3>1, <3>2, <3>3 DEF a
  <2> QED BY <1>1, <2>1, <2>2
<1>7. Quiet => Quiet'
  BY <1>1, <1>6 DEF Quiet, Silent
<1>8. (Without({0})' <=> Without({0})) /\ (Without({2, 3})' <=> Without({2, 3}))
      /\ (Without({5, 8})' <=> Without({5, 8}))
  BY <1>6 DEF Without
<1>9. LevelKept => LevelKept'
  BY <1>1, <1>6, <1>8 DEF LevelKept
<1>10. (Session => Session') /\ (StartLine => StartLine')
  BY <1>1, <1>8 DEF Session, StartLine
<1>11. Ready'
  BY <1>1, <1>5, <1>9, <1>10 DEF Ready
<1>12. Clean' => Clean
  <2>1. dirty \in Nat
    BY DEF BpTypes
  <2>2. dirty' = 0 => dirty = 0
    BY <1>1, <2>1
  <2> QED BY <1>1, <2>2 DEF Clean
<1>13. CASE c.k \in {"open", "close"}
  <2>1. \/ c.k = "open" /\ u \in {<<InitStep>>, <<Close, InitStep>>}
        \/ c.k = "close" /\ u \in {<<ClosedStep>>, <<Close, ClosedStep>>}
    BY <1>2, <1>13, BpProgram
  <2>2. AtShort'
    BY <1>3, <2>1 DEF AtShort
  <2>3. ShortInv'
    BY <1>5, <1>7, <1>11, <1>12, <2>2 DEF ShortInv
  <2> QED BY <1>4, <2>3 DEF Places
<1>14. CASE c.k \notin {"open", "close"}
  <2>1. u \in QuietPlaces(c)
    BY <1>2, <1>14, BpProgram
  <2>2. QuietPlaces(c)' = QuietPlaces(c)
    BY <1>1 DEF QuietPlaces, CommandPart, AwaitPart
  <2>3. dll.com /\ host.open /\ host.i2c = (c.k # "spi") /\ host.i2c = (dll.last = "i2c")
    BY <1>1, <1>5, <1>14
  <2>4. Session' /\ dev'.mode = dll'.last
    BY <1>1, <1>5, <1>10, <2>3 DEF Ready
  <2>5. InTransfer(c)'
    <3>1. c.k # "none"
      BY DEF Calls
    <3> QED BY <1>1, <1>14, <2>3, <2>4, <3>1 DEF InTransfer
  <2>6. LevelOk'
    BY <1>1, <1>5, <1>9, <2>3 DEF LevelOk, Ready
  <2>7. AtQuiet(c, u)'
    BY <1>5, <1>7, <1>12, <2>1, <2>2, <2>6 DEF AtQuiet
  <2>8. TransferInv'
    BY <1>3, <2>5, <2>7, BpLands
  <2> QED BY <1>4, <2>8 DEF Places
<1> QED BY <1>13, <1>14

LEMMA BpInit ==
    ASSUME Init
    PROVE  BpInv
<1>1. BpTypes /\ EntInv
  BY BpTypesInit
<1>2. run.todo = << >> /\ ~dll.com /\ ~host.open /\ ~out.ok /\ tx = << >>
  BY DEF Init, NoOut
<1>3. OutInv
  BY <1>2 DEF OutInv
<1>4. StartLine
  <2>1. DOMAIN tx = {}
    BY <1>2
  <2> QED BY <2>1 DEF StartLine, Without
<1>5. IdleInv
  BY <1>2, <1>4 DEF IdleInv, Ready, Clean, DataInStep
<1> QED BY <1>1, <1>3, <1>5 DEF BpInv, Places

LEMMA BpStep ==
    ASSUME ~Late, BpInv, [Next]_vars
    PROVE  BpInv'
<1>1. BpTypes /\ EntInv /\ OutInv /\ Places
  BY DEF BpInv
<1>2. ASSUME NEW c, c \in Calls, Call(c) PROVE BpInv'
  BY <1>1, <1>2, BpTypesCall, BpPlacesCall DEF BpInv
<1>3. CASE HostStep
  BY <1>1, <1>3, BpPlacesHost DEF BpInv
<1>4. CASE DeviceStep
  BY <1>1, <1>4, BpTypesDevice, BpPlacesDevice DEF BpInv
<1>5. CASE Escape \/ MenuResetEach \/ UNCHANGED vars
  BY <1>1, <1>5, BpTypesRest, BpPlacesRest DEF BpInv
<1> QED BY <1>2, <1>3, <1>4, <1>5 DEF Next

LEMMA BpShows ==
    ASSUME BpInv
    PROVE  OpenMeansReady /\ ChipSelectBelieved /\ DataInStep
<1>1. SUFFICES ASSUME Idle PROVE OpenMeansReady /\ ChipSelectBelieved /\ DataInStep
  BY DEF OpenMeansReady, ChipSelectBelieved, DataInStep
<1>2. IdleInv
  BY <1>1, BpIdleOnly DEF BpInv, Idle
<1>3. OpenMeansReady
  BY <1>2 DEF OpenMeansReady, IdleInv, Ready
<1>4. ChipSelectBelieved
  <2>1. SUFFICES ASSUME host.open, ~host.i2c, tx = << >>, dll.cs # 105
                 PROVE  dev.cs = IF dll.cs = 0 THEN "low" ELSE "high"
    BY DEF ChipSelectBelieved
  <2>2. dll.com /\ dll.last # "i2c" /\ dev.mode = dll.last /\ Session
    BY <1>2, <2>1 DEF IdleInv, Ready
  <2>3. dll.last = "spi"
    BY <2>2 DEF Session
  <2>4. LevelKept
    BY <1>2, <2>2, <2>3 DEF IdleInv, Ready
  <2>5. DOMAIN tx = {}
    BY <2>1
  <2> QED BY <2>1, <2>4, <2>5 DEF LevelKept, Without
<1>5. DataInStep
  BY <1>2 DEF IdleInv
<1> QED BY <1>3, <1>4, <1>5

-----------------------------------------------------------------------------
LEMMA BpAlways ==
    ASSUME ~Late
    PROVE  Spec => []BpInv
<1>1. Init => BpInv
  BY BpInit
<1>2. BpInv /\ [Next]_vars => BpInv'
  BY BpStep
<1> QED BY <1>1, <1>2, PTL DEF Spec

(* A backend that believes it is open has a port that is open and a Bus Pirate *)
(* in the mode of its protocol: bhl_asprog_spi_init and bhl_asprog_i2c_init      *)
(* keep a port only for the protocol it was set up for, and a program that ran    *)
(* to its end has brought the device into its mode, whatever the line held.     *)
THEOREM OpenAlwaysMeansReady ==
    ASSUME ~Late
    PROVE  Spec => []OpenMeansReady
<1>1. BpInv => OpenMeansReady
  BY BpShows
<1> QED BY <1>1, BpAlways, PTL

(* last_status is the level of the chip select, once the line is empty: the     *)
(* last level on the way is the one believed, or the device has it already.      *)
THEOREM ChipSelectIsAsBelieved ==
    ASSUME ~Late
    PROVE  Spec => []ChipSelectBelieved
<1>1. BpInv => ChipSelectBelieved
  BY BpShows
<1> QED BY <1>1, BpAlways, PTL

(* What a successful call returns was sent for it: while nothing was cancelled  *)
(* since the last full initialisation, every call begins and ends with a line    *)
(* that holds nothing, and its answer is read whole.                          *)
THEOREM DataAreAlwaysInStep ==
    ASSUME ~Late
    PROVE  Spec => []DataInStep
<1>1. BpInv => DataInStep
  BY BpShows
<1> QED BY <1>1, BpAlways, PTL

(* dirty counts no further than its bound: only calls up to it are counted.    *)
LEMMA BpDirtyStep ==
    ASSUME BpTypes, dirty \in 0 .. MaxDirty + 1, [Next]_vars
    PROVE  dirty' \in 0 .. MaxDirty + 1
<1>1. MaxDirty \in Nat /\ dirty \in Nat
  BY BuzzPiratAssumption DEF BpTypes
<1>2. 0 \in 0 .. MaxDirty + 1 /\ 1 \in 0 .. MaxDirty + 1
  BY <1>1
<1>3. ASSUME NEW c \in Calls, Call(c) PROVE dirty' \in 0 .. MaxDirty + 1
  BY <1>1, <1>3 DEF Call
<1>4. CASE HostStep
  <2>1. CASE AwaitSPI
    BY <1>2, <2>1 DEF AwaitSPI, Cancelled
  <2>2. CASE AwaitI2C
    BY <1>2, <2>2 DEF AwaitI2C, Cancelled
  <2>3. CASE Opened
    BY <1>2, <2>3 DEF Opened
  <2>4. CASE ~(AwaitSPI \/ AwaitI2C \/ Opened)
    <3>1. dirty' = dirty
      BY <1>4, <2>4 DEF HostStep, ComWrite, ComReadBuff, FlushCOMIn, Prompt, EnterBegin, EnterAgain,
         EnterHave, EnterRead, ChipSelect, EndFastGate, ReadData, ReadByte, Return, InitCall, CloseCall,
         ComClose, IsClosed
    <3> QED BY <3>1
  <2> QED BY <2>1, <2>2, <2>3, <2>4
<1>5. CASE DeviceStep \/ Escape \/ MenuResetEach \/ UNCHANGED vars
  BY <1>5 DEF DeviceStep, Escape, MenuResetEach, vars
<1> QED BY <1>3, <1>4, <1>5 DEF Next

(* The types hold, the bound of the cancelled calls with them.                 *)
THEOREM TypesHold ==
    ASSUME ~Late
    PROVE  Spec => []TypeOK
<1> DEFINE I == BpInv /\ dirty \in 0 .. MaxDirty + 1
<1>1. Init => I
  <2>1. MaxDirty \in Nat
    BY BuzzPiratAssumption
  <2> QED BY <2>1, BpInit DEF Init
<1>2. I /\ [Next]_vars => I'
  BY BpStep, BpDirtyStep DEF BpInv
<1>3. I => TypeOK
  <2>1. SUFFICES ASSUME I PROVE TypeOK
    OBVIOUS
  <2>2. BpTypes
    BY <2>1 DEF BpInv
  <2>3. \A i \in DOMAIN rx : rx[i] \in [v : Value, new : BOOLEAN]
    <3>1. rx \in Seq(Bytes)
      BY <2>2 DEF BpTypes
    <3>2. \A i \in DOMAIN rx : rx[i] \in Bytes
      BY <3>1
    <3> QED BY <3>2 DEF Bytes
  <2>4. dev.mode \in {"term", "bitbang", "spi", "i2c"} /\ dev.zeros \in 1 .. Zeros
    BY <2>2 DEF BpTypes
  <2> QED BY <2>1, <2>2, <2>3, <2>4 DEF BpTypes, TypeOK, Bytes
<1> HIDE DEF I
<1> QED BY <1>1, <1>2, <1>3, PTL DEF Spec
=============================================================================
