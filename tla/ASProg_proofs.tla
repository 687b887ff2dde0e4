--------------------------- MODULE ASProg_proofs ----------------------------
(* What the ASProg firmware promises for every length, block size and        *)
(* session: a session whose host never stood still is one frame for each     *)
(* call, and whatever the host does the chip is not left selected. ASInv and *)
(* SelInv are the two invariants.                                            *)
EXTENDS ASProg_calls

-----------------------------------------------------------------------------
(***************************************************************************)
(* The places of a read, whose last block the host acknowledges without      *)
(* waiting for the board, and with them of a whole transfer.                 *)
(***************************************************************************)
(* The steps of the host while the board reads and gives.                      *)
LEMMA AsTakesRead ==
    ASSUME Well, AS!Next, NEW p \in Protocols, NEW w \in Nat \ {0}, NEW r \in Nat \ {0}, IsTransfer(host.call, p, w, r),
           NEW i \in 1 .. RBlocks(r), AtRead(p, w, r, i), tx = << >>
    PROVE  Dirtied \/ (GoesOn /\ AtRead(p, w, r, i)')
<1> DEFINE n == Len(host.call.todo)
           o == WLen(p, w)
           b == o + 2 * i
           c == o + 2 * i + 1
           d == o + 2 * i + 2
           u == Upto(r, rchunk, i)
           v == Upto(r, rchunk, i - 1)
           one == Upto(r, rchunk, 1)
<1>1. /\ ReadUpto(fw, host.call.want, p, w, r, i)
      /\ \/ /\ i = 1 /\ At(o + 1) /\ rx = <<RCmd(p)>> \o Given(0, one) /\ host.got = << >>
         \/ At(b) /\ rx = Given(v, u) /\ host.got = Given(0, v)
         \/ At(c) /\ rx = << >> /\ host.got = Given(0, u)
  BY DEF AtRead
<1>2. /\ host.call.todo[o + 1 + 1] = AS!Expect(RCmd(p))
      /\ host.call.todo[b + 1] = AS!Recv(u - v)
      /\ host.call.todo[c + 1] = AS!Send(<<AS!ACK>>)
      /\ o \in Nat /\ n = o + (2 * RBlocks(r) + 2) /\ RBlocks(r) \in Nat
  BY AsRSteps
<1>3. /\ u \in Nat /\ v \in Nat /\ v < u /\ u - v \in Nat \ {0} /\ Upto(r, rchunk, 0) = 0
  BY AsReadCounts
<1>4. BoardWaits
  BY <1>1 DEF ReadUpto, BoardWaits
<1>5. AS!ACK \in Nat /\ RCmd(p) \in Nat
  BY AsHeads, AsCodes DEF Codes
<1>6. /\ o + 1 \in Nat /\ b \in Nat /\ c \in Nat /\ o + 1 < n /\ b < n /\ c < n
      /\ b + 1 = c /\ c + 1 = d /\ (i = 1 => o + 1 + 1 = b)
  <2> DEFINE m == RBlocks(r)
  <2>1. o \in Nat /\ n = o + (2 * m + 2) /\ m \in Nat /\ i \in Nat /\ 1 <= i /\ i <= m
    BY <1>2
  <2> HIDE DEF o, n, m
  <2>2. b \in Nat /\ c \in Nat /\ b < n /\ c < n /\ b + 1 = c /\ c + 1 = d
    BY <2>1
  <2>3. o + 1 \in Nat /\ o + 1 < n /\ (i = 1 => o + 1 + 1 = b)
    BY <2>1
  <2> QED BY <2>2, <2>3
<1>7. /\ Given(v, u) \in Seq(Nat) /\ Len(Given(v, u)) = u - v /\ Given(0, 0) = << >>
      /\ Given(0, v) \o Given(v, u) = Given(0, u)
  <2> HIDE DEF u, v
  <2>1. v <= u
    BY <1>3
  <2> QED BY <1>3, <2>1, AsGiven, AsGivenJoin
<1> HIDE DEF n, o, b, c, d, u, v, one
<1>8. CASE i = 1 /\ At(o + 1) /\ rx = <<RCmd(p)>> \o Given(0, one) /\ host.got = << >>
  <2>1. v = 0 /\ u = one
    BY <1>3, <1>8 DEF u, v, one
  <2> DEFINE g == Given(v, u)
  <2>2. g \in Seq(Nat) /\ rx = <<RCmd(p)>> \o g
    BY <1>7, <1>8, <2>1
  <2> HIDE DEF g
  <2>3. rx \in Seq(Nat) /\ rx # << >> /\ Head(rx) = RCmd(p) /\ Tail(rx) = g
    BY <1>5, <2>2
  <2>4. /\ At(o + 1 + 1)' /\ Kept /\ host'.got = host.got /\ fw' = fw /\ rx' = Tail(rx) /\ tx' = << >>
    BY <1>2, <1>4, <1>5, <1>6, <1>8, <2>3, AsPlaceExpect DEF n
  <2>5. At(b)' /\ rx' = Given(v, u) /\ host'.got = Given(0, v) /\ tx' = << >> /\ fw' = fw /\ host'.call = host.call
    BY <1>6, <1>7, <1>8, <2>1, <2>3, <2>4 DEF Kept, g
  <2>6. AtRead(p, w, r, i)'
    BY <1>1, <2>5 DEF AtRead, b, o, u, v
  <2> QED BY <2>4, <2>6 DEF GoesOn, Well
<1>9. CASE At(b) /\ rx = Given(v, u) /\ host.got = Given(0, v)
  <2>1. /\ At(b + 1)' /\ Kept /\ host'.got = host.got \o rx
        /\ fw' = fw /\ rx' = << >> /\ tx' = << >>
    <3> DEFINE k == u - v
    <3>1. k \in Nat /\ rx \in Seq(Nat) /\ Len(rx) = k /\ host.call.todo[b + 1] = AS!Recv(k)
      BY <1>2, <1>3, <1>7, <1>9
    <3> HIDE DEF k
    <3> QED BY <1>4, <1>6, <1>9, <3>1, AsPlaceRecv DEF n
  <2>2. At(c)' /\ rx' = << >> /\ host'.got = Given(0, u) /\ tx' = << >> /\ fw' = fw /\ host'.call = host.call
    BY <1>6, <1>7, <1>9, <2>1 DEF Kept
  <2>3. AtRead(p, w, r, i)'
    BY <1>1, <2>2 DEF AtRead, c, o, u
  <2> QED BY <2>1, <2>3 DEF GoesOn, Well
<1>10. CASE At(c) /\ rx = << >> /\ host.got = Given(0, u)
  <2> DEFINE ack == <<AS!ACK>>
  <2>1. ack \in Seq(Nat) /\ host.call.todo[c + 1] = AS!Send(ack)
    BY <1>2, <1>5
  <2>2. \/ Dirtied
        \/ /\ At(c + 1)' /\ Kept /\ host'.got = host.got
           /\ fw' = fw /\ rx' = rx /\ tx' = ack
    <3> HIDE DEF ack
    <3> QED BY <1>4, <1>6, <1>10, <2>1, AsPlaceSend DEF n
  <2>3. ASSUME At(c + 1)', Kept, host'.got = host.got, fw' = fw, rx' = rx, tx' = ack
        PROVE  GoesOn /\ AtRead(p, w, r, i)'
    <3>1. At(d)' /\ rx' = << >> /\ host'.got = Given(0, u) /\ tx' = <<AS!ACK>> /\ fw' = fw /\ host'.call = host.call
      BY <1>6, <1>10, <2>3 DEF Kept
    <3>2. AtRead(p, w, r, i)'
      BY <1>1, <3>1 DEF AtRead, d, o, u
    <3> QED BY <2>3, <3>2 DEF GoesOn, Well
  <2> QED BY <2>2, <2>3
<1> QED BY <1>1, <1>8, <1>9, <1>10

(* A session is closed by a command of the backend, whatever the board waits for. *)
LEMMA AsDeinits ==
    ASSUME AS!Deinit, IsHost(host), IsFw(fw), ~host.stalled, NEW p \in Protocols, host.mode = p,
           Pending(p, tx), rx = << >>
    PROVE  Settled(p) /\ InDeinit(p)'
<1> DEFINE c == AS!Call("deinit", AS!DeinitCall(p), << >>, 0)
<1>1. host' = [host EXCEPT !.call = c, !.todo = c.todo, !.got = << >>, !.ok = TRUE]
      /\ fw' = fw /\ tx' = tx /\ rx' = rx
  BY DEF AS!Deinit, AS!Calling
<1>2. c.k = "deinit" /\ c.todo = AS!DeinitCall(p)
  BY DEF AS!Call
<1>3. AS!DeinitCall(p) = DeinitSteps(p) /\ Len(DeinitSteps(p)) \in Nat
      /\ SubSeq(DeinitSteps(p), 0 + 1, Len(DeinitSteps(p))) = DeinitSteps(p)
  <2>1. AS!DeinitCall(p) = DeinitSteps(p)
    BY AsCodes DEF Codes, AS!DeinitCall, DeinitSteps, DeinitCode, Protocols
  <2>2. Len(DeinitSteps(p)) \in Nat /\ SubSeq(DeinitSteps(p), 1, Len(DeinitSteps(p))) = DeinitSteps(p)
    <3> DEFINE s == DeinitSteps(p)
    <3>1. s \in Seq(HostSteps)
      <4>1. AS!Send(<<DeinitCode(p)>>) \in HostSteps /\ AS!Expect(DeinitCode(p)) \in HostSteps
        <5>1. DeinitCode(p) \in Nat /\ <<DeinitCode(p)>> \in Seq(Nat) /\ 0 \in Nat
          BY DEF DeinitCode
        <5> QED BY <5>1, AsHostSteps
      <4> QED BY <4>1 DEF DeinitSteps
    <3> HIDE DEF s
    <3>2. Len(s) \in Nat
      BY <3>1
    <3>3. Upmost(s, Len(s)) = s
      <4>1. Len(s) \in 0 .. Len(s)
        BY <3>2
      <4> QED BY <3>1, <4>1, AsPrefix
    <3> QED BY <3>2, <3>3 DEF s, Upmost
  <2> QED BY <2>1, <2>2
<1> HIDE DEF c
<1>4. /\ host'.call = c /\ host'.todo = c.todo /\ host'.ok = TRUE /\ host'.mode = p /\ host'.stalled = host.stalled
      /\ host'.dirty = host.dirty /\ IsHost(host)'
  BY <1>1 DEF IsHost
<1>5. Settled(p)
  BY <1>1, <1>4 DEF Settled
<1>6. At(0)'
  <2>1. 0 \in 0 .. Len(DeinitSteps(p))
    BY <1>3
  <2> QED BY <1>2, <1>3, <1>4, <2>1 DEF At
<1>7. Pending(p, tx)' /\ rx' = << >>
  BY <1>1 DEF Pending
<1> QED BY <1>2, <1>3, <1>4, <1>5, <1>6, <1>7 DEF InDeinit

(* Another block is asked for.                                               *)
LEMMA AsReadsOn ==
    ASSUME Well, AS!Next, NEW p \in Protocols, NEW w \in Nat \ {0}, NEW r \in Nat \ {0}, IsTransfer(host.call, p, w, r),
           NEW i \in 1 .. RBlocks(r), i < RBlocks(r), AtRead(p, w, r, i), tx = <<AS!ACK>>
    PROVE  GoesOn /\ AtRead(p, w, r, i + 1)'
<1> DEFINE o == WLen(p, w)
           d == o + 2 * i + 2
           j == i + 1
           k == Upto(r, rchunk, j) - Upto(r, rchunk, j - 1)
           u == Upto(r, rchunk, i)
<1>1. /\ ReadUpto(fw, host.call.want, p, w, r, i) /\ At(d) /\ rx = << >> /\ host.got = Given(0, u)
  BY DEF AtRead
<1>2. j \in 1 .. RBlocks(r) /\ j - 1 = i /\ i > 0 /\ i \in Nat
  <2>1. RBlocks(r) \in Nat
    BY AsReadBegins
  <2> QED BY <2>1
<1>3. /\ host.call.todo[o + 2 * j + 1] = AS!Recv(k) /\ o \in Nat
      /\ Len(host.call.todo) = o + (2 * RBlocks(r) + 2) /\ RBlocks(r) \in Nat
      /\ k \in Nat \ {0}
  <2>1. j \in 1 .. RBlocks(r)
    BY <1>2
  <2> HIDE DEF j, o
  <2>2. /\ host.call.todo[WLen(p, w) + 2 * j + 1] = AS!Recv(Upto(r, rchunk, j) - Upto(r, rchunk, j - 1))
        /\ WLen(p, w) \in Nat /\ Len(host.call.todo) = WLen(p, w) + (2 * RBlocks(r) + 2) /\ RBlocks(r) \in Nat
    BY <2>1, AsRSteps
  <2>3. k \in Nat \ {0}
    BY <2>1, AsReadCounts
  <2> QED BY <2>2, <2>3 DEF o
<1>4. d = o + 2 * j /\ d \in Nat /\ d < Len(host.call.todo)
  <2> DEFINE m == RBlocks(r)
             n == Len(host.call.todo)
  <2>1. o \in Nat /\ n = o + (2 * m + 2) /\ m \in Nat /\ i \in Nat /\ i < m
    BY <1>2, <1>3
  <2> HIDE DEF o, m, n
  <2>2. d = o + 2 * j /\ d \in Nat /\ d < n
    BY <2>1
  <2> QED BY <2>2 DEF n
<1>5. fw.pc = "ack" /\ ~AS!Quiet
  BY <1>1 DEF ReadUpto, AS!Quiet
<1>6. AS!Firmware
  <2>1. \E x \in Nat \ {0} : host.call.todo[d + 1] = AS!Recv(x)
    <3> HIDE DEF j, d, k, o
    <3> QED BY <1>3, <1>4
  <2> HIDE DEF d
  <2> QED BY <1>1, <1>4, <1>5, <2>1, AsPlaceBoard
<1>7. AS!AckedBlock
  BY <1>5, <1>6, AsWhich
<1>8. Frame(host.call.want, p, w, r)
  <2>1. r \in Nat
    OBVIOUS
  <2> QED BY <2>1, AsSteps, Zenon
<1>9. /\ tx' = Tail(tx) /\ host' = host /\ ReadUpto(fw', host.call.want, p, w, r, i + 1)
      /\ rx' = rx \o Given(Upto(r, rchunk, i), Upto(r, rchunk, i + 1))
  BY <1>1, <1>2, <1>7, <1>8, AsAckRead
<1>10. At(d)' /\ Kept /\ host'.got = Given(0, u) /\ host'.call = host.call
  <2> HIDE DEF d, u
  <2> QED BY <1>1, <1>9, AsStays DEF Kept
<1>11. tx' = << >>
  <2>1. AS!ACK \in Nat
    BY AsCodes DEF Codes
  <2> QED BY <1>9, <2>1
<1>12. rx' = Given(Upto(r, rchunk, j - 1), Upto(r, rchunk, j))
  <2> DEFINE s == Given(Upto(r, rchunk, j - 1), Upto(r, rchunk, j))
  <2>1. s \in Seq(Nat)
    <3> HIDE DEF j
    <3>1. /\ Upto(r, rchunk, j) \in Nat /\ Upto(r, rchunk, j - 1) \in Nat /\ Upto(r, rchunk, j - 1) < Upto(r, rchunk, j)
      BY <1>2, AsReadCounts
    <3> DEFINE x == Upto(r, rchunk, j)
               y == Upto(r, rchunk, j - 1)
    <3>2. x \in Nat /\ y \in Nat /\ y <= x
      <4>1. x \in Nat /\ y \in Nat /\ y < x
        BY <3>1
      <4> HIDE DEF x, y
      <4> QED BY <4>1
    <3> HIDE DEF x, y
    <3>3. Given(y, x) \in Seq(Nat)
      BY <3>2, AsGiven
    <3> QED BY <3>3 DEF x, y
  <2>2. rx' = << >> \o s
    BY <1>1, <1>2, <1>9
  <2> HIDE DEF s
  <2>3. rx' = s
    BY <2>1, <2>2
  <2> QED BY <2>3 DEF s
<1>13. AtRead(p, w, r, j)'
  <2>1. At(o + 2 * j)' /\ host'.got = Given(0, Upto(r, rchunk, j - 1))
    BY <1>2, <1>4, <1>10
  <2>2. ReadUpto(fw', host'.call.want, p, w, r, j)
    BY <1>9, <1>10
  <2> HIDE DEF j
  <2> QED BY <1>11, <1>12, <2>1, <2>2 DEF AtRead, o
<1>14. IsFw(fw)'
  BY <1>9 DEF ReadUpto
<1> QED BY <1>10, <1>13, <1>14 DEF GoesOn

(* The last block is acknowledged, and the board has the answer still to take.  *)
LEMMA AsReadEnds ==
    ASSUME Well, AS!Next, NEW p \in Protocols, host.mode = p, NEW w \in Nat \ {0}, NEW r \in Nat \ {0},
           IsTransfer(host.call, p, w, r), AtRead(p, w, r, RBlocks(r)), tx = <<AS!ACK>>
    PROVE  (GoesOn /\ AtRest(p)') \/ (Settled(p) /\ InDeinit(p)')
<1> DEFINE i == RBlocks(r)
           o == WLen(p, w)
           n == Len(host.call.todo)
           u == Upto(r, rchunk, i)
           f == host.call.want
<1>1. i \in 1 .. RBlocks(r) /\ i \in Nat /\ u = r
  BY AsReadBegins
<1>2. o \in Nat /\ n = o + (2 * i + 2)
  <2> HIDE DEF i
  <2>1. i \in 1 .. RBlocks(r)
    BY <1>1
  <2> QED BY <2>1, AsRSteps DEF i
<1>3. /\ ReadUpto(fw, f, p, w, r, i) /\ At(n) /\ rx = << >> /\ host.got = Given(0, r)
  <2>1. ReadUpto(fw, f, p, w, r, i) /\ At(o + 2 * i + 2) /\ rx = << >> /\ host.got = Given(0, u)
    BY DEF AtRead
  <2>2. o + 2 * i + 2 = n
    <3> HIDE DEF o, i, n
    <3> QED BY <1>1, <1>2
  <2> QED BY <1>1, <2>1, <2>2
<1>4. fw.pc = "ack" /\ fw.cmd = RCmd(p) /\ fw.left = 0 /\ fw.flag = TRUE /\ fw.rst = BusyPin(p)
      /\ fw.wire = Upmost(f, Before(p, w) + (r + Ending(p, r, i)))
  <2>1. r - r = 0
    OBVIOUS
  <2> QED BY <1>1, <1>3, <2>1 DEF ReadUpto
<1>5. /\ Frame(f, p, w, r) /\ host.call.k = "bus" /\ host.call.give = [j \in 1 .. r |-> AS!Cell(j)]
  <2>1. r \in Nat
    OBVIOUS
  <2> QED BY <2>1, AsSteps, Zenon
<1>6. host.todo = << >> /\ AS!Idle
  BY <1>3, AsEnd DEF Well
<1> HIDE DEF i, o, n, u, f
<1>7. AS!Firmware \/ AS!Deinit
  <2>1. AS!Firmware \/ AS!DevOpen \/ AS!Begin \/ AS!Deinit \/ AS!DevClose
    BY <1>6, AsIdleMoves
  <2>2. ~AS!DevOpen
    BY DEF AS!DevOpen, Protocols
  <2>3. ~AS!Begin
    BY <1>4 DEF AS!Begin, AS!Quiet, Well
  <2>4. ~AS!DevClose
    BY <1>5 DEF AS!DevClose, Well
  <2> QED BY <2>1, <2>2, <2>3, <2>4
<1>8. CASE AS!Deinit
  <2>1. Pending(p, tx)
    BY <1>4 DEF Pending
  <2> QED BY <1>3, <1>8, <2>1, AsDeinits DEF Well
<1>9. CASE AS!Firmware
  <2>1. AS!AckedBlock
    BY <1>4, <1>9, AsWhich
  <2>2. /\ tx' = Tail(tx) /\ host' = host /\ rx' = rx /\ IsFw(fw') /\ fw'.pc = "loop"
        /\ fw'.rst = RestPin(p) /\ fw'.cells = fw.cells
        /\ fw'.wire = IF p = "i2c" THEN fw.wire ELSE Append(fw.wire, EndEvent(p))
    BY <1>4, <2>1, AsAckEnd DEF Well
  <2>3. tx' = << >>
    <3>1. AS!ACK \in Nat
      BY AsCodes DEF Codes
    <3> QED BY <2>2, <3>1
  <2>4. fw'.wire = f
    <3>1. f \in Seq(Events) /\ Len(f) = FrameLen(p, w, r) /\ f[FrameLen(p, w, r)] = EndEvent(p)
      BY <1>5 DEF Frame
    <3>2. Len(f) \in 0 .. Len(f) /\ Upmost(f, Len(f)) = f
      <4>1. Len(f) \in 0 .. Len(f)
        BY <3>1
      <4> QED BY <3>1, <4>1, AsPrefix
    <3>3. CASE p = "i2c"
      <4>1. Before(p, w) + (r + Ending(p, r, i)) = FrameLen(p, w, r)
        BY <3>3 DEF Before, Ending, FrameLen, i, Opening, Turn
      <4> QED BY <1>4, <2>2, <3>1, <3>2, <3>3, <4>1
    <3>4. CASE p # "i2c"
      <4> DEFINE k == Before(p, w) + r
                 e == EndEvent(p)
      <4>1. Before(p, w) + (r + Ending(p, r, i)) = k /\ k + 1 = FrameLen(p, w, r) /\ k \in Nat
        BY <3>4 DEF Before, Ending, FrameLen, Opening, Turn
      <4> HIDE DEF k, e
      <4>2. f[k + 1] = e /\ k < Len(f) /\ k + 1 = Len(f)
        BY <3>1, <4>1 DEF e
      <4>3. Append(Upmost(f, k), e) = Upmost(f, k + 1)
        BY <3>1, <4>1, <4>2, AsExtendOne
      <4>4. fw.wire = Upmost(f, k) /\ fw'.wire = Append(fw.wire, e)
        BY <1>4, <2>2, <3>4, <4>1 DEF e
      <4> QED BY <3>2, <4>2, <4>3, <4>4
    <3> QED BY <3>3, <3>4
  <2>5. host.got = host.call.give
    <3>1. Given(0, r) = [j \in 1 .. r |-> AS!Cell(j)]
      <4>1. r - 0 = r /\ \A j \in 1 .. r : 0 + j = j
        OBVIOUS
      <4> QED BY <4>1 DEF Given
    <3> QED BY <1>3, <1>5, <3>1
  <2>6. AtRest(p)'
    BY <1>3, <1>5, <1>6, <2>2, <2>3, <2>4, <2>5 DEF AtRest, Lines, f
  <2>7. GoesOn
    BY <2>2 DEF GoesOn, Kept, Well
  <2> QED BY <2>6, <2>7
<1> QED BY <1>7, <1>8, <1>9

LEMMA AsPlaceRead ==
    ASSUME Well, AS!Next, NEW p \in Protocols, host.mode = p, NEW w \in Nat \ {0}, NEW r \in Nat \ {0},
           IsTransfer(host.call, p, w, r), NEW i \in 1 .. RBlocks(r), AtRead(p, w, r, i)
    PROVE  \/ Dirtied
           \/ GoesOn /\ AtRead(p, w, r, i)'
           \/ i < RBlocks(r) /\ GoesOn /\ AtRead(p, w, r, i + 1)'
           \/ GoesOn /\ AtRest(p)'
           \/ Settled(p) /\ InDeinit(p)'
<1>1. tx = << >> \/ tx = <<AS!ACK>>
  BY DEF AtRead
<1>2. i < RBlocks(r) \/ i = RBlocks(r)
  <2>1. RBlocks(r) \in Nat
    BY AsReadBegins
  <2> QED BY <2>1
<1>3. CASE tx = << >>
  BY <1>3, AsTakesRead
<1>4. CASE tx = <<AS!ACK>> /\ i < RBlocks(r)
  BY <1>4, AsReadsOn
<1>5. CASE tx = <<AS!ACK>> /\ i = RBlocks(r)
  <2>1. AtRead(p, w, r, RBlocks(r))
    BY <1>5
  <2> QED BY <1>5, <2>1, AsReadEnds
<1> QED BY <1>1, <1>2, <1>3, <1>4, <1>5

(* A block that fills the buffer of a write over I2C goes out whole.             *)
WholeBlocks == rchunk = wchunk \/ \A w \in I2CWrites : w < wchunk

LEMMA AsPlaceTransfer ==
    ASSUME WholeBlocks, Well, AS!Next, NEW p \in Protocols, host.mode = p, InTransfer(p)
    PROVE  \/ Dirtied
           \/ Settled(p) /\ (InTransfer(p)' \/ AtRest(p)' \/ InDeinit(p)')
<1> PICK w \in Nat \ {0}, r \in Nat :
        IsTransfer(host.call, p, w, r) /\ (InWrite(p, w, r) \/ InTurn(p, w, r) \/ InRead(p, w, r))
  BY DEF InTransfer
<1>1. p = "i2c" => rchunk = wchunk \/ w < wchunk
  BY DEF IsTransfer, WholeBlocks
<1>2. GoesOn => Settled(p)
  BY DEF GoesOn, Kept, Settled, Well
<1>3. ASSUME GoesOn, InWrite(p, w, r)' \/ InTurn(p, w, r)' \/ InRead(p, w, r)'
      PROVE  InTransfer(p)'
  <2>1. IsTransfer(host'.call, p, w, r)
    BY <1>3 DEF GoesOn, Kept
  <2> QED BY <1>3, <2>1 DEF InTransfer
<1>4. WBlocks(p, w) \in Nat \ {0}
  BY AsCounts
<1>5. CASE BeforeWrite(p, w, r)
  <2>1. fw.pc \in {"loop", "header"}
    BY <1>5 DEF BeforeWrite, Lines
  <2>2. CASE fw.pc = "loop"
    <3>1. Dirtied \/ (GoesOn /\ BeforeWrite(p, w, r)')
      BY <1>5, <2>2, AsBeginsWrite
    <3> QED BY <1>2, <1>3, <3>1 DEF InWrite
  <2>3. CASE fw.pc = "header"
    <3>1. GoesOn /\ AtWrite(p, w, r, 0)'
      BY <1>5, <2>3, AsHeadsWrite
    <3>2. 0 \in 0 .. WBlocks(p, w) - 1
      BY <1>4
    <3>3. InWrite(p, w, r)'
      BY <3>1, <3>2 DEF InWrite
    <3> QED BY <1>2, <1>3, <3>1, <3>3
  <2> QED BY <2>1, <2>2, <2>3
<1>6. ASSUME NEW i \in 0 .. WBlocks(p, w) - 1, AtWrite(p, w, r, i)
      PROVE  Dirtied \/ (Settled(p) /\ InTransfer(p)')
  <2>1. i \in Nat /\ i < WBlocks(p, w)
    BY <1>4
  <2>2. \/ Dirtied
        \/ GoesOn /\ AtWrite(p, w, r, i)'
        \/ i + 1 < WBlocks(p, w) /\ GoesOn /\ AtWrite(p, w, r, i + 1)'
        \/ GoesOn /\ InTurn(p, w, r)'
    BY <1>1, <1>6, <2>1, AsPlaceBlocks
  <2>3. i + 1 < WBlocks(p, w) => i + 1 \in 0 .. WBlocks(p, w) - 1
    BY <1>4
  <2>4. \/ Dirtied
        \/ GoesOn /\ InWrite(p, w, r)'
        \/ GoesOn /\ InTurn(p, w, r)'
    BY <2>2, <2>3 DEF InWrite
  <2> QED BY <1>2, <1>3, <2>4
<1>7. CASE InTurn(p, w, r)
  <2>1. \/ Dirtied
        \/ GoesOn /\ AtRest(p)'
        \/ GoesOn /\ InTurn(p, w, r)'
        \/ r > 0 /\ GoesOn /\ AtRead(p, w, r, 1)'
    BY <1>7, AsPlaceTurn
  <2>2. ASSUME r > 0, AtRead(p, w, r, 1)' PROVE InRead(p, w, r)'
    <3>1. 1 \in 1 .. RBlocks(r)
      <4>1. RBlocks(r) \in Nat \ {0}
        BY <2>2, AsReadBegins
      <4> QED BY <4>1
    <3> QED BY <2>2, <3>1 DEF InRead
  <2> QED BY <1>2, <1>3, <2>1, <2>2
<1>8. ASSUME r > 0, NEW i \in 1 .. RBlocks(r), AtRead(p, w, r, i)
      PROVE  \/ Dirtied
             \/ Settled(p) /\ (InTransfer(p)' \/ AtRest(p)' \/ InDeinit(p)')
  <2>0. r \in Nat \ {0}
    BY <1>8
  <2>1. \/ Dirtied
        \/ GoesOn /\ AtRead(p, w, r, i)'
        \/ i < RBlocks(r) /\ GoesOn /\ AtRead(p, w, r, i + 1)'
        \/ GoesOn /\ AtRest(p)'
        \/ Settled(p) /\ InDeinit(p)'
    BY <1>8, <2>0, AsPlaceRead
  <2>2. i < RBlocks(r) => i + 1 \in 1 .. RBlocks(r)
    <3>1. RBlocks(r) \in Nat
      BY <2>0, AsReadBegins
    <3> QED BY <3>1
  <2>3. \/ Dirtied
        \/ GoesOn /\ InRead(p, w, r)'
        \/ GoesOn /\ AtRest(p)'
        \/ Settled(p) /\ InDeinit(p)'
    BY <1>8, <2>1, <2>2 DEF InRead
  <2> QED BY <1>2, <1>3, <2>3
<1> QED BY <1>5, <1>6, <1>7, <1>8 DEF InWrite, InRead

-----------------------------------------------------------------------------
(***************************************************************************)
(* The places between calls, of the beginning of a session and of its end,   *)
(* which need not wait for the board.                                        *)
(***************************************************************************)
(* A call begins.                                                           *)
LEMMA AsAt0 ==
    ASSUME NEW h, host' = h, NEW s \in Seq(HostSteps), h.call.todo = s, h.todo = s
    PROVE  At(0)'
<1>1. Len(s) \in 0 .. Len(s) /\ 0 \in 0 .. Len(s)
  OBVIOUS
<1>2. SubSeq(s, 0 + 1, Len(s)) = s
  <2>1. Upmost(s, Len(s)) = s
    BY <1>1, AsPrefix
  <2> QED BY <2>1 DEF Upmost
<1> QED BY <1>1, <1>2 DEF At

LEMMA AsCallSteps ==
    ASSUME NEW p \in Protocols, NEW c, IsBusCall(c, p)
    PROVE  c.todo \in Seq(HostSteps)
<1>1. ASSUME NEW w \in Nat \ {0}, NEW r \in Nat, IsTransfer(c, p, w, r)
      PROVE  c.todo \in Seq(HostSteps)
  BY <1>1 DEF IsTransfer, Program
<1>2. ASSUME NEW cmd \in {25, 26}, IsByte(c, cmd) PROVE c.todo \in Seq(HostSteps)
  <2>1. PICK arg \in Nat : c.todo = ByteSteps(cmd, arg)
    BY <1>2 DEF IsByte, AS!Data
  <2>2. << 23 >> \in Seq(Nat) /\ <<cmd, arg>> \in Seq(Nat) /\ << 24 >> \in Seq(Nat) /\ cmd \in Nat /\ 1 \in Nat
    OBVIOUS
  <2>3. /\ AS!Send(<< 23 >>) \in HostSteps /\ AS!Send(<<cmd, arg>>) \in HostSteps /\ AS!Send(<< 24 >>) \in HostSteps
        /\ AS!Expect(cmd) \in HostSteps /\ AS!Recv(1) \in HostSteps
    BY <2>2, AsHostSteps
  <2> QED BY <2>1, <2>3 DEF ByteSteps
<1>3. ASSUME IsBusy(c) PROVE c.todo \in Seq(HostSteps)
  <2>1. << 32 >> \in Seq(Nat) /\ 32 \in Nat /\ 1 \in Nat
    OBVIOUS
  <2>2. AS!Send(<< 32 >>) \in HostSteps /\ AS!Expect(32) \in HostSteps /\ AS!Recv(1) \in HostSteps
    BY <2>1, AsHostSteps
  <2> QED BY <1>3, <2>2 DEF IsBusy
<1> QED BY <1>1, <1>2, <1>3 DEF IsBusCall

LEMMA AsBegun ==
    ASSUME Well, host.mode \in Protocols, AS!Begin
    PROVE  /\ Settled(host.mode) /\ IsBusCall(host'.call, host.mode) /\ At(0)' /\ host'.got = << >>
           /\ fw'.wire = << >> /\ fw'.cells = 0 /\ fw'.rst = fw.rst /\ fw'.pc = "loop"
           /\ tx = << >> /\ tx' = tx /\ rx' = rx
<1> PICK c \in AS!CallsOf(host.mode) :
        host' = [AS!Calling(c) EXCEPT !.dirty = IF @ = 0 THEN 0 ELSE @ + 1]
  BY DEF AS!Begin
<1>1. IsBusCall(c, host.mode)
  BY AsCallsOf
<1>2. c.todo \in Seq(HostSteps)
  BY <1>1, AsCallSteps
<1>3. /\ host'.call = c /\ host'.todo = c.todo /\ host'.got = << >> /\ host'.ok = TRUE /\ host'.mode = host.mode
      /\ host'.stalled = host.stalled /\ host'.dirty = 0 /\ IsHost(host)'
  BY DEF AS!Calling, IsHost, Well
<1>4. fw' = [fw EXCEPT !.wire = << >>, !.cells = 0] /\ tx' = tx /\ rx' = rx /\ AS!Quiet
  BY DEF AS!Begin, Well
<1>5. IsFw(fw)' /\ fw'.wire = << >> /\ fw'.cells = 0 /\ fw'.rst = fw.rst /\ fw'.pc = fw.pc
  BY <1>4 DEF IsFw, Well
<1>6. Settled(host.mode)
  BY <1>3, <1>5 DEF Settled, Well
<1>7. At(0)'
  BY <1>2, <1>3, AsAt0
<1> QED BY <1>1, <1>3, <1>4, <1>5, <1>6, <1>7 DEF AS!Quiet

LEMMA AsPlaceRest ==
    ASSUME Well, AS!Next, NEW p \in Protocols, host.mode = p, AtRest(p)
    PROVE  /\ Settled(p)
           /\ \/ InTransfer(p)' \/ InDeinit(p)'
              \/ p = "i2c" /\ \E cmd \in {25, 26} : InByte(cmd)'
              \/ p = "mw" /\ InBusy'
<1>1. AS!Idle /\ fw.pc = "loop" /\ tx = << >> /\ rx = << >> /\ fw.rst = RestPin(p) /\ host.call.k \in {"init", "bus"}
  BY DEF AtRest, AS!Idle, Lines
<1>2. AS!Begin \/ AS!Deinit
  <2>1. AS!Firmware \/ AS!DevOpen \/ AS!Begin \/ AS!Deinit \/ AS!DevClose
    BY <1>1, AsIdleMoves
  <2>2. ~AS!DevOpen
    BY DEF AS!DevOpen, Protocols
  <2>3. ~AS!DevClose
    BY <1>1 DEF AS!DevClose, Well
  <2>4. ~AS!Firmware
    BY <1>1 DEF AS!Firmware, AS!ParseCommand, AS!Header, AS!HeaderShort, AS!AckedBlock, AS!UnackedBlock, AS!WriteBlock
  <2> QED BY <2>1, <2>2, <2>3, <2>4
<1>3. CASE AS!Deinit
  <2>1. Pending(p, tx)
    BY <1>1 DEF Pending
  <2> QED BY <1>1, <1>3, <2>1, AsDeinits DEF Well
<1>4. CASE AS!Begin
  <2>1. /\ Settled(p) /\ IsBusCall(host'.call, p) /\ At(0)' /\ host'.got = << >>
        /\ fw'.wire = << >> /\ fw'.cells = 0 /\ fw'.rst = RestPin(p) /\ fw'.pc = "loop"
        /\ tx' = << >> /\ rx' = << >>
    BY <1>1, <1>4, AsBegun
  <2>2. Lines("loop", << >>, << >>)' /\ NoneRead'
    BY <2>1 DEF Lines, NoneRead
  <2>3. ASSUME NEW X, host'.call.want \in Seq(X) PROVE Seen(0)'
    <3> DEFINE f == host'.call.want
    <3>1. Len(f) \in Nat /\ 0 \in 0 .. Len(f)
      BY <2>3
    <3>2. Upmost(f, 0) = << >>
      BY <2>3, <3>1, AsPrefix
    <3> QED BY <2>1, <3>1, <3>2 DEF Seen, Upmost
  <2>4. ASSUME NEW w \in Nat \ {0}, NEW r \in Nat, IsTransfer(host'.call, p, w, r)
        PROVE  InTransfer(p)'
    <3>1. host'.call.want \in Seq(Events)
      BY <2>4 DEF IsTransfer, Frame
    <3>2. Begun(p)'
      BY <2>1, <2>2, <2>3, <3>1 DEF Begun
    <3>3. BeforeWrite(p, w, r)'
      BY <2>1, <2>2, <3>2 DEF BeforeWrite
    <3> QED BY <2>4, <3>3 DEF InTransfer, InWrite
  <2>5. ASSUME NEW cmd \in {25, 26}, p = "i2c", IsByte(host'.call, cmd)
        PROVE  InByte(cmd)'
    <3>1. \E X : host'.call.want \in Seq(X)
      <4>1. PICK e : host'.call.want = <<<<"start">>, e, <<"stop">>>>
        BY <2>5 DEF IsByte
      <4>2. host'.call.want \in Seq({<<"start">>, e, <<"stop">>})
        BY <4>1
      <4> QED BY <4>2
    <3>2. Seen(0)' /\ fw'.rst = "input"
      BY <2>1, <2>3, <2>5, <3>1 DEF RestPin
    <3> QED BY <2>1, <2>2, <2>5, <3>2 DEF InByte
  <2>6. ASSUME p = "mw", IsBusy(host'.call) PROVE InBusy'
    <3>1. \E X : host'.call.want \in Seq(X)
      <4>1. host'.call.want \in Seq({<<"high">>, <<"low">>})
        BY <2>6 DEF IsBusy
      <4> QED BY <4>1
    <3>2. Seen(0)' /\ fw'.rst = "low"
      BY <2>1, <2>3, <2>6, <3>1 DEF RestPin
    <3> QED BY <2>1, <2>2, <2>6, <3>2 DEF InBusy
  <2> QED BY <2>1, <2>4, <2>5, <2>6 DEF IsBusCall
<1> QED BY <1>2, <1>3, <1>4

(* A session is opened.                                                     *)
LEMMA AsPlaceInit ==
    ASSUME Well, AS!Next, NEW p \in Protocols, host.mode = p, InInit(p)
    PROVE  Dirtied \/ (GoesOn /\ (InInit(p)' \/ AtRest(p)'))
<1> DEFINE c == InitCode(p)
           d == InitBytes(p)
<1>1. c \in Nat /\ d \in Seq(Nat) /\ d # << >> /\ Head(d) = c
  BY DEF InitCode, InitBytes
<1>2. /\ host.call.k = "init" /\ host.call.todo = <<AS!Send(d), AS!Expect(c)>>
      /\ \/ At(0) /\ Lines("loop", << >>, << >>) /\ fw.rst = "input"
         \/ At(1) /\ Lines("loop", d, << >>) /\ fw.rst = "input"
         \/ p = "spi" /\ At(1) /\ Lines("header", << 0 >>, << >>) /\ fw.cmd = 7 /\ fw.rst = "input"
         \/ At(1) /\ Lines("loop", << >>, <<c>>) /\ fw.rst = RestPin(p)
  BY DEF InInit
<1> HIDE DEF c, d
<1>3. /\ Len(host.call.todo) = 2 /\ 0 < 2 /\ 1 < 2 /\ 0 \in Nat /\ 1 \in Nat /\ 0 + 1 = 1 /\ 1 + 1 = 2
      /\ host.call.todo[0 + 1] = AS!Send(d) /\ host.call.todo[1 + 1] = AS!Expect(c)
  BY <1>2
<1>4. ASSUME GoesOn, \/ At(0)' /\ Lines("loop", << >>, << >>)' /\ fw'.rst = "input"
                     \/ At(1)' /\ Lines("loop", d, << >>)' /\ fw'.rst = "input"
                     \/ p = "spi" /\ At(1)' /\ Lines("header", << 0 >>, << >>)' /\ fw'.cmd = 7 /\ fw'.rst = "input"
                     \/ At(1)' /\ Lines("loop", << >>, <<c>>)' /\ fw'.rst = RestPin(p)
      PROVE  InInit(p)'
  BY <1>2, <1>4 DEF InInit, GoesOn, Kept, c, d
<1>5. CASE At(0) /\ Lines("loop", << >>, << >>) /\ fw.rst = "input"
  <2>1. BoardWaits
    BY <1>5 DEF BoardWaits, Lines
  <2>2. \/ Dirtied
        \/ /\ At(0 + 1)' /\ Kept /\ host'.got = host.got
           /\ fw' = fw /\ rx' = rx /\ tx' = d
    BY <1>1, <1>3, <1>5, <2>1, AsPlaceSend
  <2>3. ASSUME At(0 + 1)', Kept, fw' = fw, rx' = rx, tx' = d
        PROVE  GoesOn /\ InInit(p)'
    <3>1. GoesOn
      BY <2>3 DEF GoesOn, Well
    <3>2. At(1)' /\ Lines("loop", d, << >>)' /\ fw'.rst = "input"
      BY <1>3, <1>5, <2>3 DEF Lines
    <3> QED BY <1>4, <3>1, <3>2
  <2> QED BY <2>2, <2>3
<1>6. ASSUME At(1), rx = << >>, tx # << >> PROVE AS!Firmware
  <2>1. ~AS!Quiet /\ \E b \in Nat : host.call.todo[1 + 1] = AS!Expect(b)
    BY <1>1, <1>3, <1>6 DEF AS!Quiet
  <2> QED BY <1>3, <1>6, <2>1, AsPlaceBoard
<1>7. CASE At(1) /\ Lines("loop", d, << >>) /\ fw.rst = "input"
  <2>1. tx = d /\ fw.pc = "loop" /\ rx = << >> /\ Head(tx) = c
    BY <1>1, <1>7 DEF Lines
  <2>2. AS!ParseCommand
    BY <1>1, <1>6, <1>7, <2>1, AsWhich
  <2>3. tx' = Tail(d) /\ host' = host /\ IsFw(fw)'
    BY <2>1, <2>2, AsParse DEF Well
  <2>4. At(1)' /\ GoesOn
    BY <1>7, <2>3, AsStays DEF GoesOn
  <2>5. << >> \o <<c>> = <<c>>
    BY <1>1
  <2>6. CASE p = "spi"
    <3>1. c = 7 /\ Tail(d) = << 0 >>
      BY <2>6 DEF c, d, InitCode, InitBytes
    <3>2. fw'.pc = "header" /\ fw'.cmd = 7 /\ fw'.rst = "input" /\ rx' = << >>
      BY <1>7, <2>1, <2>2, <3>1, AsParse DEF Well, SameFw
    <3>3. Lines("header", << 0 >>, << >>)'
      BY <2>3, <3>1, <3>2 DEF Lines
    <3> QED BY <1>4, <2>4, <2>6, <3>2, <3>3
  <2>7. CASE p = "i2c"
    <3>1. c = 20 /\ Tail(d) = << >> /\ RestPin(p) = "input"
      BY <2>7 DEF c, d, InitCode, InitBytes, RestPin
    <3>2. fw'.pc = "loop" /\ fw'.rst = "input" /\ rx' = rx \o << 20 >>
      BY <1>7, <2>1, <2>2, <3>1, AsParse DEF Well, SameFw
    <3>3. Lines("loop", << >>, <<c>>)'
      BY <2>1, <2>3, <2>5, <3>1, <3>2 DEF Lines
    <3> QED BY <1>4, <2>4, <3>1, <3>2, <3>3
  <2>8. CASE p = "mw"
    <3>1. c = 33 /\ Tail(d) = << >> /\ RestPin(p) = "low"
      BY <2>8 DEF c, d, InitCode, InitBytes, RestPin
    <3>2. fw'.pc = "loop" /\ fw'.rst = "low" /\ rx' = rx \o << 33 >>
      BY <1>7, <2>1, <2>2, <3>1, AsParse DEF Well
    <3>3. Lines("loop", << >>, <<c>>)'
      BY <2>1, <2>3, <2>5, <3>1, <3>2 DEF Lines
    <3> QED BY <1>4, <2>4, <3>1, <3>2, <3>3
  <2> QED BY <2>4, <2>6, <2>7, <2>8 DEF Protocols
<1>8. CASE p = "spi" /\ At(1) /\ Lines("header", << 0 >>, << >>) /\ fw.cmd = 7 /\ fw.rst = "input"
  <2>1. tx = << 0 >> /\ Len(tx) = 1 /\ tx \in Seq(Nat) /\ tx # << >> /\ fw.pc = "header" /\ rx = << >>
        /\ AS!HeaderSize(fw.cmd) = 1
    BY <1>8, AsHeaderSizes DEF Lines
  <2>2. AS!Header
    <3>1. AS!Firmware
      BY <1>6, <1>8, <2>1
    <3> QED BY <2>1, <3>1, AsWhich
  <2>3. /\ tx' = << >> /\ host' = host
        /\ fw' = AS!PinsOut(Parsed(tx, 1), IF fw.rst = "input" THEN "high" ELSE fw.rst)
        /\ rx' = rx \o <<fw.cmd>>
    BY <1>8, <2>1, <2>2, AsWholeHeader
  <2>4. fw' = [Parsed(tx, 1) EXCEPT !.rst = "high"]
    BY <1>8, <2>3 DEF AS!PinsOut
  <2>5. IsFw(fw)' /\ fw'.pc = "loop" /\ fw'.rst = "high"
    <3>1. IsFw(Parsed(tx, 1)) /\ Parsed(tx, 1).pc = "loop"
      <4> DEFINE x == tx[1] # 0
                 y == IF 1 > 1 THEN tx[1 - 1] * 256 + tx[1] ELSE 0
      <4>1. Parsed(tx, 1) = [fw EXCEPT !.pc = "loop", !.flag = x, !.left = y]
        BY Zenon DEF Parsed
      <4> HIDE DEF x, y
      <4>2. IsFw(fw)
        BY DEF Well
      <4> DEFINE m == Parsed(tx, 1)
      <4>3. m = [fw EXCEPT !.pc = "loop", !.flag = x, !.left = y]
        BY <4>1
      <4> HIDE DEF m
      <4>4. IsFw(m) /\ m.pc = "loop"
        BY ONLY <4>2, <4>3 DEF IsFw
      <4> QED BY <4>4 DEF m
    <3> DEFINE m == Parsed(tx, 1)
    <3> HIDE DEF m
    <3>2. IsFw(m) /\ m.pc = "loop" /\ fw' = [m EXCEPT !.rst = "high"]
      BY <2>4, <3>1 DEF m
    <3> QED BY <3>2 DEF IsFw
  <2>6. c = 7 /\ RestPin(p) = "high"
    BY <1>8 DEF c, InitCode, RestPin
  <2>7. Lines("loop", << >>, <<c>>)'
    <3>1. << >> \o << 7 >> = << 7 >>
      OBVIOUS
    <3> QED BY <1>8, <2>1, <2>3, <2>5, <2>6, <3>1 DEF Lines
  <2>8. At(1)' /\ GoesOn
    BY <1>8, <2>3, <2>5, AsStays DEF GoesOn
  <2> QED BY <1>4, <2>5, <2>6, <2>7, <2>8
<1>9. CASE At(1) /\ Lines("loop", << >>, <<c>>) /\ fw.rst = RestPin(p)
  <2>1. BoardWaits
    BY <1>9 DEF BoardWaits, Lines
  <2>2. rx \in Seq(Nat) /\ rx # << >> /\ Head(rx) = c /\ Tail(rx) = << >>
    BY <1>1, <1>9 DEF Lines
  <2>3. /\ At(1 + 1)' /\ Kept /\ host'.got = host.got /\ fw' = fw /\ rx' = Tail(rx) /\ tx' = << >>
    BY <1>1, <1>3, <1>9, <2>1, <2>2, AsPlaceExpect
  <2>4. At(2)' /\ host.call.todo \in Seq(HostSteps)
    BY <1>3, <2>3 DEF Well
  <2>5. host'.todo = << >>
    BY <1>3, <2>3, <2>4, AsLast
  <2>6. AtRest(p)'
    <3>1. Lines("loop", << >>, << >>)' /\ host'.call.k = "init" /\ fw'.rst = RestPin(p)
      BY <1>2, <1>9, <2>2, <2>3 DEF Lines, Kept
    <3> QED BY <2>5, <3>1 DEF AtRest
  <2>7. GoesOn
    BY <2>3 DEF GoesOn, Well
  <2> QED BY <2>6, <2>7
<1> QED BY <1>2, <1>5, <1>7, <1>8, <1>9

(* The board takes what a session left it.                                    *)
LEMMA AsReadOver ==
    ASSUME NEW p \in Protocols, NEW m, IsFw(m), m.cmd = RCmd(p)
    PROVE  IsFw(AS!Finished(m)) /\ AS!Finished(m).pc = "loop"
<1>1. \A level : IsFw(AS!Drive(m, level))
  BY DEF AS!Drive, IsFw
<1>2. IsFw(Ended(m))
  <2> DEFINE high == "high"
             low == "low"
  <2>1. IsFw(AS!Drive(m, high)) /\ IsFw(AS!Drive(m, low))
    BY <1>1
  <2>2. /\ m.cmd \in AS!Spi => Ended(m) = IF m.flag THEN AS!Drive(m, high) ELSE m
        /\ m.cmd \notin AS!Spi /\ m.cmd \in AS!Mw => Ended(m) = IF m.flag THEN AS!Drive(m, low) ELSE m
        /\ m.cmd \notin AS!Spi /\ m.cmd \notin AS!Mw /\ m.cmd = AS!FUNC_I2C_READ => Ended(m) = m
    <3>1. m.cmd \in AS!Spi => m.cmd \notin AS!Mw /\ m.cmd # AS!FUNC_I2C_READ /\ m.cmd # AS!FUNC_I2C_WRITE
      BY AsCodes DEF Codes, AS!Spi, AS!Mw
    <3>2. m.cmd \in AS!Mw => m.cmd \notin AS!Spi /\ m.cmd # AS!FUNC_I2C_READ /\ m.cmd # AS!FUNC_I2C_WRITE
      BY AsCodes DEF Codes, AS!Spi, AS!Mw
    <3>3. m.cmd = AS!FUNC_I2C_READ => m.cmd \notin AS!Spi /\ m.cmd \notin AS!Mw /\ m.cmd # AS!FUNC_I2C_WRITE
      BY AsCodes DEF Codes, AS!Spi, AS!Mw
    <3> QED BY <3>1, <3>2, <3>3 DEF Ended
  <2>3. m.cmd \in AS!Spi \/ m.cmd \in AS!Mw \/ m.cmd = AS!FUNC_I2C_READ
    BY AsCodes DEF Codes, AS!Spi, AS!Mw, RCmd
  <2> HIDE DEF high, low
  <2> QED BY <2>1, <2>2, <2>3
<1> DEFINE e == Ended(m)
           k == ~m.flag
           q == AS!Finished(m)
<1>3. q = [e EXCEPT !.pc = "loop", !.kept = k]
  BY Zenon DEF AS!Finished, Ended
<1>4. IsFw(e)
  BY <1>2
<1> HIDE DEF e, k, q
<1>5. IsFw(q) /\ q.pc = "loop"
  BY ONLY <1>3, <1>4 DEF IsFw
<1> QED BY <1>5 DEF q

LEMMA AsPendingMoves ==
    ASSUME NEW p \in Protocols, IsFw(fw), NEW s, Pending(p, s), s # << >>, AS!Firmware,
           NEW t \in Seq(Nat), tx = s \o t
    PROVE  fw'.pc = "loop" /\ tx' = t /\ rx' = rx /\ host' = host /\ IsFw(fw)'
<1>1. \/ fw.pc = "ack" /\ fw.cmd = RCmd(p) /\ fw.left = 0 /\ s = <<AS!ACK>>
      \/ fw.pc = "loop" /\ s = << 24 >>
  BY DEF Pending
<1>2. \E b \in Nat : s = <<b>>
  BY <1>1, AsCodes DEF Codes
<1>3. tx # << >> /\ Tail(tx) = t /\ Head(tx) = s[1] /\ Len(tx) \in Nat /\ Len(tx) >= 1
  <2> PICK b \in Nat : s = <<b>>
    BY <1>2
  <2>1. tx = <<b>> \o t
    OBVIOUS
  <2>2. tx \in Seq(Nat) /\ tx # << >> /\ Tail(tx) = t /\ Head(tx) = b /\ Len(tx) \in Nat /\ Len(tx) >= 1
    BY <2>1
  <2> QED BY <2>2
<1>4. CASE fw.pc = "loop" /\ s = << 24 >>
  <2>1. AS!ParseCommand
    BY <1>4, AsWhich
  <2>2. Head(tx) = 24
    BY <1>3, <1>4
  <2> QED BY <1>3, <2>1, <2>2, AsParse
<1>5. CASE fw.pc = "ack" /\ fw.cmd = RCmd(p) /\ fw.left = 0 /\ s = <<AS!ACK>>
  <2>1. Head(tx) = AS!ACK
    BY <1>3, <1>5
  <2>2. AS!AckedBlock \/ AS!UnackedBlock
    BY <1>5 DEF AS!Firmware, AS!ParseCommand, AS!Header, AS!HeaderShort, AS!WriteBlock
  <2>3. ~AS!UnackedBlock
    <3>1. ~AS!TimedOut(1)
      BY <1>3 DEF AS!TimedOut
    <3> QED BY <2>1, <3>1 DEF AS!UnackedBlock
  <2>4. tx' = Tail(tx) /\ fw' = AS!Finished(fw) /\ rx' = rx /\ host' = host
    BY <1>5, <2>2, <2>3 DEF AS!AckedBlock
  <2>5. IsFw(fw') /\ fw'.pc = "loop"
    BY <1>5, <2>4, AsReadOver
  <2> QED BY <1>3, <2>4, <2>5
<1> QED BY <1>1, <1>4, <1>5

LEMMA AsNothingPends ==
    ASSUME fw.pc = "loop", tx = << >>
    PROVE  ~AS!Firmware
BY DEF AS!Firmware, AS!ParseCommand, AS!Header, AS!HeaderShort, AS!AckedBlock, AS!UnackedBlock, AS!WriteBlock

(* A host that is to send: it does, or the board moves, or it stands still.      *)
LEMMA AsSendsOrMoves ==
    ASSUME AS!Next, ~AS!Idle, AS!Now.s = "send", host.dirty = 0, IsHost(host)
    PROVE  AS!Firmware \/ AS!SendBuffer \/ Dirtied
<1>1. ~AS!DevOpen /\ ~AS!Begin /\ ~AS!Deinit /\ ~AS!DevClose
  BY DEF AS!DevOpen, AS!Begin, AS!Deinit, AS!DevClose, AS!Ready
<1>2. ~AS!RecvByte /\ ~AS!RecvBufferEx
  BY DEF AS!RecvByte, AS!RecvBufferEx, AS!Doing
<1>3. ASSUME AS!Stall PROVE Dirtied
  <2>1. AS!Max({0, 1}) = 1
    <3>1. \A x : x \in {0, 1} /\ (\A y \in {0, 1} : x >= y) <=> x = 1
      OBVIOUS
    <3> QED BY <3>1 DEF AS!Max
  <2>2. PICK n, s : host' = [host EXCEPT !.stalled = TRUE, !.stalls = @ + 1,
                                !.dirty = AS!Max({@, 1}), !.todo = s]
    BY <1>3 DEF AS!Stall
  <2>3. host'.dirty = AS!Max({0, 1})
    BY <2>2 DEF IsHost
  <2> QED BY <2>1, <2>3 DEF Dirtied
<1> QED BY <1>1, <1>2, <1>3 DEF AS!Next, AS!Host

(* An idle host of a session that ends.                                       *)
LEMMA AsCloses ==
    ASSUME AS!Next, AS!Idle, host.mode # "none", host.call.k = "deinit", IsHost(host)
    PROVE  AS!Firmware \/ host'.mode = "none"
<1>1. AS!Firmware \/ AS!DevOpen \/ AS!Begin \/ AS!Deinit \/ AS!DevClose
  BY AsIdleMoves
<1>2. ~AS!DevOpen /\ ~AS!Begin /\ ~AS!Deinit
  BY DEF AS!DevOpen, AS!Begin, AS!Deinit
<1>3. AS!DevClose => host'.mode = "none"
  BY DEF AS!DevClose, AS!Calling, IsHost
<1> QED BY <1>1, <1>2, <1>3

LEMMA AsPlaceDeinit ==
    ASSUME Well, AS!Next, NEW p \in Protocols, host.mode = p, InDeinit(p)
    PROVE  \/ Dirtied
           \/ host'.mode = "none"
           \/ GoesOn /\ InDeinit(p)'
<1> DEFINE c == DeinitCode(p)
           d == <<c>>
<1>1. c \in Nat /\ d \in Seq(Nat) /\ d # << >> /\ Head(d) = c /\ Tail(d) = << >>
  BY DEF DeinitCode
<1>2. /\ host.call.k = "deinit" /\ host.call.todo = DeinitSteps(p)
      /\ \/ At(0) /\ Pending(p, tx) /\ rx = << >>
         \/ p # "i2c" /\ At(1) /\ rx = << >> /\ \E s : Pending(p, s) /\ tx = s \o d
         \/ p # "i2c" /\ At(1) /\ Lines("loop", << >>, <<c>>)
         \/ p # "i2c" /\ At(2) /\ Lines("loop", << >>, << >>)
  BY DEF InDeinit
<1>3. ASSUME GoesOn, \/ At(0)' /\ Pending(p, tx)' /\ rx' = << >>
                     \/ p # "i2c" /\ At(1)' /\ rx' = << >> /\ \E s : Pending(p, s)' /\ tx' = s \o d
                     \/ p # "i2c" /\ At(1)' /\ Lines("loop", << >>, <<c>>)'
                     \/ p # "i2c" /\ At(2)' /\ Lines("loop", << >>, << >>)'
      PROVE  InDeinit(p)'
  BY <1>2, <1>3 DEF InDeinit, GoesOn, Kept
<1> HIDE DEF c, d
<1>4. ASSUME p # "i2c"
      PROVE  /\ Len(host.call.todo) = 2 /\ 0 < 2 /\ 1 < 2 /\ 0 \in Nat /\ 1 \in Nat /\ 0 + 1 = 1 /\ 1 + 1 = 2
             /\ host.call.todo[0 + 1] = AS!Send(d) /\ host.call.todo[1 + 1] = AS!Expect(c)
  BY <1>2, <1>4 DEF DeinitSteps, c, d
<1>5. ASSUME NEW s, Pending(p, s), s # << >>, AS!Firmware, NEW t \in Seq(Nat), tx = s \o t, rx = << >>
      PROVE  /\ host' = host /\ Kept /\ GoesOn /\ rx' = << >> /\ tx' = t /\ Pending(p, << >>)'
  <2>1. fw'.pc = "loop" /\ tx' = t /\ rx' = rx /\ host' = host /\ IsFw(fw)'
    BY <1>5, AsPendingMoves DEF Well
  <2>2. Kept
    BY <2>1 DEF Kept, Well
  <2>3. Pending(p, << >>)'
    BY <2>1 DEF Pending
  <2> QED BY <1>5, <2>1, <2>2, <2>3 DEF GoesOn
<1>6. CASE At(0) /\ Pending(p, tx) /\ rx = << >>
  <2>0. /\ tx = << >> => fw.pc = "loop"
        /\ tx = tx \o << >>
        /\ << >> \in Seq(Nat)
    <3>1. \E b \in Nat : tx = << >> \/ tx = <<b>>
      BY <1>6, AsCodes DEF Pending, Codes
    <3>2. tx \in Seq(Nat)
      <4>1. << >> \in Seq(Nat) /\ \A b \in Nat : <<b>> \in Seq(Nat)
        OBVIOUS
      <4> QED BY <3>1, <4>1, Zenon
    <3>3. tx = << >> => fw.pc = "loop"
      BY <1>6 DEF Pending
    <3> QED BY <3>2, <3>3
  <2>1. ASSUME AS!Firmware PROVE GoesOn /\ InDeinit(p)'
    <3>1. tx # << >>
      BY <2>0, <2>1, AsNothingPends
    <3>2. host' = host /\ GoesOn /\ rx' = << >> /\ tx' = << >> /\ Pending(p, << >>)'
      <4> PICK s : s = tx
        OBVIOUS
      <4>1. Pending(p, s) /\ s # << >> /\ tx = s \o << >>
        BY <1>6, <2>0, <3>1
      <4> QED BY <1>5, <1>6, <2>0, <2>1, <4>1
    <3>3. At(0)' /\ Pending(p, tx)'
      BY <1>6, <3>2 DEF At, Pending
    <3> QED BY <1>3, <3>2, <3>3
  <2>2. CASE p = "i2c"
    <3>1. AS!Idle
      <4>1. host.call.todo = << >> /\ Len(host.call.todo) = 0
        BY <1>2, <2>2 DEF DeinitSteps
      <4>2. At(Len(host.call.todo))
        BY <1>6, <4>1
      <4> QED BY <4>2, AsEnd DEF Well
    <3>2. AS!Firmware \/ host'.mode = "none"
      BY <1>2, <3>1, AsCloses DEF Well, Protocols
    <3> QED BY <2>1, <3>2
  <2>3. CASE p # "i2c"
    <3>1. ~AS!Idle /\ AS!Now = AS!Send(d)
      BY <1>4, <1>6, <2>3, AsNow DEF Well
    <3>2. AS!Send(d).s = "send" /\ AS!Send(d).d = d
      BY <1>1, AsHostSteps
    <3>3. AS!Firmware \/ AS!SendBuffer \/ Dirtied
      BY <3>1, <3>2, AsSendsOrMoves DEF Well
    <3>4. ASSUME AS!SendBuffer PROVE GoesOn /\ InDeinit(p)'
      <4>1. /\ At(0 + 1)' /\ Kept /\ host'.got = host.got
            /\ fw' = fw /\ rx' = rx /\ tx' = tx \o host.call.todo[0 + 1].d
        BY <1>4, <1>6, <2>3, <3>4, AsSendBuffer DEF Well
      <4>2. At(1)' /\ rx' = << >> /\ tx' = tx \o d
        BY <1>4, <1>6, <2>3, <3>2, <4>1
      <4>3. GoesOn
        BY <4>1 DEF GoesOn, Well
      <4>4. \E s : Pending(p, s)' /\ tx' = s \o d
        <5> PICK s : s = tx
          OBVIOUS
        <5>1. Pending(p, s)' /\ tx' = s \o d
          BY <1>6, <4>1, <4>2 DEF Pending
        <5> QED BY <5>1
      <4> QED BY <1>3, <2>3, <4>2, <4>3, <4>4
    <3> QED BY <2>1, <3>3, <3>4
  <2> QED BY <2>2, <2>3
<1>7. ASSUME p # "i2c", At(1), rx = << >>, NEW s, Pending(p, s), tx = s \o d
      PROVE  GoesOn /\ InDeinit(p)'
  <2>1. AS!Firmware
    <3>1. ~AS!Quiet
      <4>1. tx # << >>
        <5>1. \E b \in Nat : s = << >> \/ s = <<b>>
          BY <1>7, AsCodes DEF Pending, Codes
        <5>2. s \in Seq(Nat) /\ d \in Seq(Nat) /\ Len(d) > 0
          <6>1. s \in Seq(Nat)
            <7>1. << >> \in Seq(Nat) /\ \A b \in Nat : <<b>> \in Seq(Nat)
              OBVIOUS
            <7> QED BY <5>1, <7>1, Zenon
          <6>2. Len(d) > 0
            BY <1>1
          <6> QED BY <1>1, <6>1, <6>2
        <5>3. Len(s \o d) > 0
          BY <5>2
        <5> QED BY <1>7, <5>3
      <4> QED BY <4>1 DEF AS!Quiet
    <3>2. \E b \in Nat : host.call.todo[1 + 1] = AS!Expect(b)
      BY <1>1, <1>4, <1>7
    <3> QED BY <1>4, <1>7, <3>1, <3>2, AsPlaceBoard
  <2>2. CASE s # << >>
    <3>1. host' = host /\ GoesOn /\ rx' = << >> /\ tx' = d /\ Pending(p, << >>)'
      BY <1>1, <1>5, <1>7, <2>1, <2>2
    <3>2. At(1)'
      BY <1>7, <3>1 DEF At
    <3>3. tx' = << >> \o d
      BY <1>1, <3>1
    <3> QED BY <1>3, <1>7, <3>1, <3>2, <3>3
  <2>3. CASE s = << >>
    <3>1. fw.pc = "loop" /\ tx = d
      <4>1. << >> \o d = d
        BY <1>1
      <4> QED BY <1>7, <2>3, <4>1, AsCodes DEF Pending, Codes
    <3>2. AS!ParseCommand
      BY <2>1, <3>1, AsWhich
    <3>3. tx' = << >> /\ host' = host /\ IsFw(fw)' /\ fw'.pc = "loop" /\ rx' = rx \o <<c>>
      <4>1. Head(tx) = c /\ Tail(tx) = << >>
        BY <1>1, <3>1
      <4>2. c = 8 \/ c = 34
        BY DEF c, DeinitCode
      <4> QED BY <3>2, <4>1, <4>2, AsParse DEF Well
    <3>4. At(1)' /\ GoesOn
      BY <1>7, <3>3, AsStays DEF GoesOn
    <3>5. Lines("loop", << >>, <<c>>)'
      <4>1. << >> \o <<c>> = <<c>>
        BY <1>1
      <4> QED BY <1>7, <3>3, <4>1 DEF Lines
    <3> QED BY <1>3, <1>7, <3>4, <3>5
  <2> QED BY <2>2, <2>3
<1>8. CASE p # "i2c" /\ At(1) /\ Lines("loop", << >>, <<c>>)
  <2>1. BoardWaits
    BY <1>8 DEF BoardWaits, Lines
  <2>2. rx \in Seq(Nat) /\ rx # << >> /\ Head(rx) = c /\ Tail(rx) = << >>
    BY <1>1, <1>8 DEF Lines
  <2>3. /\ At(1 + 1)' /\ Kept /\ host'.got = host.got /\ fw' = fw /\ rx' = Tail(rx) /\ tx' = << >>
    BY <1>1, <1>4, <1>8, <2>1, <2>2, AsPlaceExpect
  <2>4. At(2)' /\ GoesOn /\ Lines("loop", << >>, << >>)'
    BY <1>4, <1>8, <2>2, <2>3 DEF GoesOn, Well, Lines
  <2> QED BY <1>3, <1>8, <2>4
<1>9. CASE p # "i2c" /\ At(2) /\ Lines("loop", << >>, << >>)
  <2>1. At(Len(host.call.todo))
    BY <1>4, <1>9
  <2>2. AS!Idle
    BY <2>1, AsEnd DEF Well
  <2>3. AS!Firmware \/ host'.mode = "none"
    BY <1>2, <2>2, AsCloses DEF Well, Protocols
  <2> QED BY <1>9, <2>3, AsNothingPends DEF Lines
<1> QED BY <1>2, <1>6, <1>7, <1>8, <1>9

-----------------------------------------------------------------------------
(***************************************************************************)
(* A byte over I2C, and the question whether a chip on Microwire is busy.    *)
(***************************************************************************)
(* A byte over I2C: its steps and its frame.                                   *)
ByteArg(cmd) == IF cmd = 25 THEN 1 ELSE AS!Data(1)
ByteEvent(cmd) == IF cmd = 25 THEN <<"in", "nack">> ELSE <<"out", AS!Data(1)>>
ByteEvents(cmd) == {<<"start">>, ByteEvent(cmd), <<"stop">>}
ByteTodo(s, cmd) ==
    /\ s \in Seq(HostSteps) /\ Len(s) = 5
    /\ s[0 + 1] = AS!Send(<< 23 >>) /\ s[1 + 1] = AS!Send(<<cmd, ByteArg(cmd)>>) /\ s[2 + 1] = AS!Expect(cmd)
    /\ s[3 + 1] = AS!Recv(1) /\ s[4 + 1] = AS!Send(<< 24 >>)
ByteFrame(f, cmd) ==
    /\ f \in Seq(ByteEvents(cmd)) /\ Len(f) = 3 /\ Upmost(f, 0) = << >> /\ Upmost(f, 3) = f
    /\ Upmost(f, 0) \o <<<<"start">>>> = Upmost(f, 1)
    /\ Upmost(f, 1) \o <<ByteEvent(cmd)>> = Upmost(f, 2)
    /\ Upmost(f, 2) \o <<<<"stop">>>> = Upmost(f, 3)

LEMMA AsByteSteps ==
    ASSUME NEW cmd \in {25, 26}, IsByte(host.call, cmd), host.call.todo \in Seq(HostSteps)
    PROVE  ByteTodo(host.call.todo, cmd)
<1>1. host.call.todo = ByteSteps(cmd, ByteArg(cmd))
  BY DEF IsByte, ByteArg
<1> QED BY <1>1 DEF ByteSteps, ByteTodo

LEMMA AsByteFrame ==
    ASSUME NEW cmd \in {25, 26}, IsByte(host.call, cmd)
    PROVE  ByteFrame(host.call.want, cmd)
<1> DEFINE f == host.call.want
           a == <<"start">>
           e == ByteEvent(cmd)
           b == <<"stop">>
           S == ByteEvents(cmd)
<1>1. f = <<a, e, b>>
  BY DEF IsByte, ByteEvent
<1>2. a \in S /\ e \in S /\ b \in S
  BY DEF ByteEvents
<1> HIDE DEF f, a, e, b, S
<1>3. f \in Seq(S) /\ Len(f) = 3 /\ f[0 + 1] = a /\ f[1 + 1] = e /\ f[2 + 1] = b
  BY <1>1, <1>2
<1>4. 0 < Len(f) /\ 1 < Len(f) /\ 2 < Len(f) /\ 0 + 1 = 1 /\ 1 + 1 = 2 /\ 2 + 1 = 3
      /\ 0 \in Nat /\ 1 \in Nat /\ 2 \in Nat /\ Len(f) \in 0 .. Len(f)
  BY <1>3
<1>5. Upmost(f, 0) = << >> /\ Upmost(f, 3) = f
  BY <1>3, <1>4, AsPrefix
<1>6. Upmost(f, 0) \o <<a>> = Upmost(f, 1)
  <2>1. Upmost(f, 0) \o <<a>> = Upmost(f, 0 + 1)
    BY <1>3, <1>4, AsExtendOne
  <2> QED BY <1>4, <2>1
<1>7. Upmost(f, 1) \o <<e>> = Upmost(f, 2)
  <2>1. Upmost(f, 1) \o <<e>> = Upmost(f, 1 + 1)
    BY <1>3, <1>4, AsExtendOne
  <2> QED BY <1>4, <2>1
<1>8. Upmost(f, 2) \o <<b>> = Upmost(f, 3)
  <2>1. Upmost(f, 2) \o <<b>> = Upmost(f, 2 + 1)
    BY <1>3, <1>4, AsExtendOne
  <2> QED BY <1>4, <2>1
<1> QED BY <1>3, <1>5, <1>6, <1>7, <1>8 DEF ByteFrame, f, a, e, b, S

(* Where a byte is, each place named.                                          *)
ByteSeen(k) == Seen(k) /\ NoneRead
ByteSent(cmd) ==
    \/ At(0) /\ Lines("loop", << >>, << >>) /\ ByteSeen(0)
    \/ At(1) /\ Lines("loop", << 23 >>, << >>) /\ ByteSeen(0)
    \/ At(1) /\ Lines("loop", << >>, << >>) /\ ByteSeen(1)
    \/ At(2) /\ Lines("loop", <<23, cmd, ByteArg(cmd)>>, << >>) /\ ByteSeen(0)
    \/ At(2) /\ Lines("loop", <<cmd, ByteArg(cmd)>>, << >>) /\ ByteSeen(1)
    \/ At(2) /\ Lines("header", <<ByteArg(cmd)>>, << >>) /\ fw.cmd = cmd /\ ByteSeen(1)
ByteGiven(cmd, x) ==
    /\ cmd = 25 => x = AS!Cell(1)
    /\ Seen(2)
    /\ \/ At(2) /\ Lines("loop", << >>, <<cmd, x>>) /\ host.got = << >>
       \/ At(3) /\ Lines("loop", << >>, <<x>>) /\ host.got = << >>
       \/ At(4) /\ Lines("loop", << >>, << >>) /\ host.got = <<x>>
       \/ At(5) /\ Lines("loop", << 24 >>, << >>) /\ host.got = <<x>>

LEMMA AsInByte ==
    ASSUME NEW cmd \in {25, 26}
    PROVE  InByte(cmd) <=> /\ IsByte(host.call, cmd) /\ fw.rst = "input"
                           /\ ByteSent(cmd) \/ \E x \in Nat : ByteGiven(cmd, x)
BY Zenon DEF InByte, ByteSent, ByteGiven, ByteArg, ByteSeen

LEMMA AsPut ==
    ASSUME NEW a \in Nat, NEW b \in Nat, NEW c \in Nat
    PROVE  <<a>> \o <<b>> = <<a, b>> /\ <<a>> \o <<b, c>> = <<a, b, c>>
<1>1. ASSUME NEW t \in Seq(Nat), NEW v \in Seq(Nat), Len(v) = 1 + Len(t), v[1] = a,
             \A j \in 1 .. Len(t) : v[1 + j] = t[j]
      PROVE  <<a>> \o t = v
  <2> DEFINE s == <<a>>
             u == s \o t
  <2>1. s \in Seq(Nat) /\ Len(s) = 1 /\ s[1] = a
    OBVIOUS
  <2> HIDE DEF s, u
  <2>2. Catenated(Nat, u, s, t)
    BY <2>1, AsJoin DEF u
  <2>3. u \in Seq(Nat) /\ Len(u) = 1 + Len(t) /\ u[1] = a /\ \A j \in 1 .. Len(t) : u[1 + j] = t[j]
    <3>1. Len(t) \in Nat /\ 1 \in 1 .. 1
      OBVIOUS
    <3>2. u \in Seq(Nat) /\ Len(u) = Len(s) + Len(t)
      BY <2>2 DEF Catenated
    <3>3. \A j \in 1 .. Len(s) : u[j] = s[j]
      BY <2>2 DEF Catenated
    <3>4. \A j \in 1 .. Len(t) : u[Len(s) + j] = t[j]
      BY <2>2 DEF Catenated
    <3> QED BY <2>1, <3>1, <3>2, <3>3, <3>4
  <2>4. \A j \in 1 .. 1 + Len(t) : j = 1 \/ (j - 1 \in 1 .. Len(t) /\ 1 + (j - 1) = j)
    OBVIOUS
  <2>5. \A j \in 1 .. Len(u) : u[j] = v[j]
    BY <1>1, <2>3, <2>4
  <2>6. u = v
    BY <1>1, <2>3, <2>5, AsSame
  <2> QED BY <2>6 DEF u, s
<1>2. <<a>> \o <<b>> = <<a, b>>
  <2> DEFINE t == <<b>>
             v == <<a, b>>
  <2>1. t \in Seq(Nat) /\ v \in Seq(Nat) /\ Len(t) = 1 /\ Len(v) = 2 /\ v[1] = a /\ v[2] = b /\ t[1] = b
    OBVIOUS
  <2> HIDE DEF t, v
  <2>2. Len(v) = 1 + Len(t) /\ \A j \in 1 .. Len(t) : v[1 + j] = t[j]
    BY <2>1
  <2>3. <<a>> \o t = v
    BY <1>1, <2>1, <2>2
  <2> QED BY <2>3 DEF t, v
<1>3. <<a>> \o <<b, c>> = <<a, b, c>>
  <2> DEFINE t == <<b, c>>
             v == <<a, b, c>>
  <2>1. t \in Seq(Nat) /\ v \in Seq(Nat) /\ Len(t) = 2 /\ Len(v) = 3 /\ v[1] = a /\ v[2] = b /\ v[3] = c
        /\ t[1] = b /\ t[2] = c
    OBVIOUS
  <2> HIDE DEF t, v
  <2>2. Len(v) = 1 + Len(t) /\ \A j \in 1 .. Len(t) : v[1 + j] = t[j]
    <3>1. \A j \in 1 .. 2 : j = 1 \/ j = 2
      OBVIOUS
    <3> QED BY <2>1, <3>1
  <2>3. <<a>> \o t = v
    BY <1>1, <2>1, <2>2
  <2> QED BY <2>3 DEF t, v
<1> QED BY <1>2, <1>3

LEMMA AsByteSent ==
    ASSUME Well, AS!Next, NEW cmd \in {25, 26}, IsByte(host.call, cmd), fw.rst = "input", ByteSent(cmd)
    PROVE  Dirtied \/ (GoesOn /\ fw'.rst = "input" /\ (ByteSent(cmd)' \/ \E x \in Nat : ByteGiven(cmd, x)'))
<1> DEFINE s == host.call.todo
           f == host.call.want
           arg == ByteArg(cmd)
           e == ByteEvent(cmd)
<1>1. ByteTodo(s, cmd) /\ ByteFrame(f, cmd)
  BY AsByteSteps, AsByteFrame DEF Well
<1>2. arg \in Nat /\ cmd \in Nat /\ << 23 >> \in Seq(Nat) /\ <<cmd, arg>> \in Seq(Nat)
  BY DEF ByteArg, AS!Data
<1>3. /\ Len(s) = 5 /\ s[0 + 1] = AS!Send(<< 23 >>) /\ s[1 + 1] = AS!Send(<<cmd, arg>>) /\ s[2 + 1] = AS!Expect(cmd)
      /\ 0 \in Nat /\ 1 \in Nat /\ 2 \in Nat /\ 0 < 5 /\ 1 < 5 /\ 2 < 5 /\ 0 + 1 = 1 /\ 1 + 1 = 2
  BY <1>1 DEF ByteTodo
<1>4. \A k : Seen(k) <=> k \in 0 .. Len(f) /\ fw.wire = Upmost(f, k)
  BY AsSeen
<1>5. ASSUME GoesOn, NEW k \in {0, 1, 2}, fw'.wire = Upmost(f, k) PROVE Seen(k)'
  <2>1. host'.call = host.call /\ k \in 0 .. Len(f)
    BY <1>1, <1>5 DEF GoesOn, Kept, ByteFrame
  <2> QED BY <1>5, <2>1 DEF Seen, Upmost
<1>6. ASSUME NEW t, Lines("loop", t, << >>), t # << >>, At(2) PROVE AS!Firmware
  <2>1. ~AS!Quiet /\ rx = << >> /\ \E b \in Nat : s[2 + 1] = AS!Expect(b)
    BY <1>2, <1>3, <1>6 DEF AS!Quiet, Lines
  <2> QED BY <1>3, <1>6, <2>1, AsPlaceBoard
<1> HIDE DEF s, f, arg, e
<1>7. ASSUME At(0), Lines("loop", << >>, << >>), ByteSeen(0)
      PROVE  Dirtied \/ (GoesOn /\ fw'.rst = "input" /\ ByteSent(cmd)')
  <2>1. BoardWaits
    BY <1>7 DEF BoardWaits, Lines
  <2>2. \/ Dirtied
        \/ /\ At(0 + 1)' /\ Kept /\ host'.got = host.got
           /\ fw' = fw /\ rx' = rx /\ tx' = << 23 >>
    BY <1>2, <1>3, <1>7, <2>1, AsPlaceSend DEF s
  <2>3. ASSUME At(0 + 1)', Kept, host'.got = host.got, fw' = fw, rx' = rx, tx' = << 23 >>
        PROVE  GoesOn /\ fw'.rst = "input" /\ ByteSent(cmd)'
    <3>1. GoesOn
      BY <2>3 DEF GoesOn, Well
    <3>2. At(1)' /\ Lines("loop", << 23 >>, << >>)' /\ NoneRead'
      BY <1>3, <1>7, <2>3 DEF Lines, NoneRead, ByteSeen
    <3>3. Seen(0)'
      BY <1>4, <1>5, <1>7, <2>3, <3>1 DEF ByteSeen
    <3> QED BY <2>3, <3>1, <3>2, <3>3 DEF ByteSent, ByteSeen
  <2> QED BY <2>2, <2>3
<1>8. ASSUME At(1), Lines("loop", << >>, << >>), ByteSeen(1)
      PROVE  Dirtied \/ (GoesOn /\ fw'.rst = "input" /\ ByteSent(cmd)')
  <2>1. BoardWaits
    BY <1>8 DEF BoardWaits, Lines
  <2>2. \/ Dirtied
        \/ /\ At(1 + 1)' /\ Kept /\ host'.got = host.got
           /\ fw' = fw /\ rx' = rx /\ tx' = <<cmd, arg>>
    BY <1>2, <1>3, <1>8, <2>1, AsPlaceSend DEF s
  <2>3. ASSUME At(1 + 1)', Kept, host'.got = host.got, fw' = fw, rx' = rx, tx' = <<cmd, arg>>
        PROVE  GoesOn /\ fw'.rst = "input" /\ ByteSent(cmd)'
    <3>1. GoesOn
      BY <2>3 DEF GoesOn, Well
    <3>2. At(2)' /\ Lines("loop", <<cmd, arg>>, << >>)' /\ NoneRead'
      BY <1>3, <1>8, <2>3 DEF Lines, NoneRead, ByteSeen
    <3>3. Seen(1)'
      BY <1>4, <1>5, <1>8, <2>3, <3>1 DEF ByteSeen
    <3> QED BY <2>3, <3>1, <3>2, <3>3 DEF ByteSent, ByteSeen, arg
  <2> QED BY <2>2, <2>3
(* The start.                                                               *)
<1>9. ASSUME AS!Firmware, NEW t \in Seq(Nat), tx = << 23 >> \o t, Lines("loop", << 23 >> \o t, << >>), ByteSeen(0)
      PROVE  GoesOn /\ host' = host /\ fw'.rst = "input" /\ Lines("loop", t, << >>)' /\ ByteSeen(1)'
  <2>1. Head(tx) = 23 /\ Tail(tx) = t
    BY <1>9
  <2>2. AS!ParseCommand
    BY <1>9, AsWhich DEF Lines
  <2>3. /\ tx' = t /\ host' = host /\ IsFw(fw)' /\ rx' = rx /\ fw'.pc = "loop" /\ fw'.wire = fw.wire \o <<<<"start">>>>
        /\ fw'.rst = fw.rst /\ fw'.cells = fw.cells
    BY <2>1, <2>2, AsParse DEF Well
  <2>4. GoesOn
    BY <2>3 DEF GoesOn, Kept, Well
  <2>5. fw'.wire = Upmost(f, 1)
    BY <1>1, <1>4, <1>9, <2>3 DEF ByteFrame, ByteSeen
  <2>6. Seen(1)'
    BY <1>5, <2>4, <2>5
  <2> QED BY <1>9, <2>3, <2>4, <2>6 DEF Lines, ByteSeen, NoneRead
<1>10. ASSUME At(1), Lines("loop", << 23 >>, << >>), ByteSeen(0)
       PROVE  Dirtied \/ (GoesOn /\ fw'.rst = "input" /\ ByteSent(cmd)')
  <2>1. ~AS!Idle /\ AS!Now = AS!Send(<<cmd, arg>>)
    BY <1>3, <1>10, AsNow DEF Well, s
  <2>2. AS!Send(<<cmd, arg>>).s = "send" /\ AS!Send(<<cmd, arg>>).d = <<cmd, arg>>
    BY <1>2, AsHostSteps
  <2>3. AS!Firmware \/ AS!SendBuffer \/ Dirtied
    BY <2>1, <2>2, AsSendsOrMoves DEF Well
  <2>4. ASSUME AS!Firmware PROVE GoesOn /\ fw'.rst = "input" /\ ByteSent(cmd)'
    <3> DEFINE t == << >>
    <3>1. t \in Seq(Nat) /\ << 23 >> \o t = << 23 >>
      OBVIOUS
    <3>2. tx = << 23 >>
      BY <1>10 DEF Lines
    <3> HIDE DEF t
    <3>3. GoesOn /\ host' = host /\ fw'.rst = "input" /\ Lines("loop", t, << >>)' /\ ByteSeen(1)'
      BY <1>9, <1>10, <2>4, <3>1, <3>2
    <3>4. At(1)'
      BY <1>10, <3>3 DEF At
    <3>5. Lines("loop", << >>, << >>)'
      BY <3>3 DEF Lines, t
    <3> QED BY <3>3, <3>4, <3>5 DEF ByteSent
  <2>5. ASSUME AS!SendBuffer PROVE GoesOn /\ fw'.rst = "input" /\ ByteSent(cmd)'
    <3>1. /\ At(1 + 1)' /\ Kept /\ host'.got = host.got
          /\ fw' = fw /\ rx' = rx /\ tx' = tx \o s[1 + 1].d
      BY <1>3, <1>10, <2>5, AsSendBuffer DEF Well, s
    <3>2. tx' = <<23, cmd, arg>>
      <4>1. tx' = << 23 >> \o <<cmd, arg>>
        BY <1>3, <1>10, <2>2, <3>1 DEF Lines
      <4> HIDE DEF arg
      <4>2. << 23 >> \o <<cmd, arg>> = <<23, cmd, arg>>
        BY <1>2, AsPut
      <4> QED BY <4>1, <4>2
    <3>3. GoesOn
      BY <3>1 DEF GoesOn, Well
    <3>4. Lines("loop", <<23, cmd, arg>>, << >>)' /\ NoneRead'
      BY <1>10, <3>1, <3>2 DEF Lines, NoneRead, ByteSeen
    <3>5. Seen(0)'
      BY <1>4, <1>5, <1>10, <3>1, <3>3 DEF ByteSeen
    <3>6. At(2)'
      BY <1>3, <3>1
    <3> QED BY <3>1, <3>3, <3>4, <3>5, <3>6 DEF ByteSent, ByteSeen, arg
  <2> QED BY <2>3, <2>4, <2>5
<1>11. ASSUME At(2), Lines("loop", <<23, cmd, arg>>, << >>), ByteSeen(0)
       PROVE  GoesOn /\ fw'.rst = "input" /\ ByteSent(cmd)'
  <2> DEFINE t == <<cmd, arg>>
  <2>1. t \in Seq(Nat) /\ << 23 >> \o t = <<23, cmd, arg>> /\ <<23, cmd, arg>> # << >>
    <3>1. << 23 >> \o <<cmd, arg>> = <<23, cmd, arg>>
      BY <1>2, AsPut
    <3>2. <<cmd, arg>> \in Seq(Nat) /\ <<23, cmd, arg>> # << >>
      BY <1>2
    <3> QED BY <3>1, <3>2
  <2>2. tx = <<23, cmd, arg>> /\ AS!Firmware
    BY <1>6, <1>11, <2>1 DEF Lines
  <2> HIDE DEF t
  <2>3. GoesOn /\ host' = host /\ fw'.rst = "input" /\ Lines("loop", t, << >>)' /\ ByteSeen(1)'
    BY <1>9, <1>11, <2>1, <2>2
  <2>4. At(2)'
    BY <1>11, <2>3 DEF At
  <2> QED BY <2>3, <2>4 DEF ByteSent, t, arg
<1>12. ASSUME At(2), Lines("loop", <<cmd, arg>>, << >>), ByteSeen(1)
       PROVE  GoesOn /\ fw'.rst = "input" /\ ByteSent(cmd)'
  <2>1. tx = <<cmd, arg>> /\ <<cmd, arg>> # << >> /\ fw.pc = "loop" /\ rx = << >>
    BY <1>12 DEF Lines
  <2>2. Head(tx) = cmd /\ Tail(tx) = <<arg>>
    BY <1>2, <2>1
  <2>3. AS!ParseCommand
    BY <1>6, <1>12, <2>1, AsWhich
  <2>4. /\ tx' = <<arg>> /\ host' = host /\ IsFw(fw)'
        /\ fw'.pc = "header" /\ fw'.cmd = cmd /\ SameFw(fw) /\ rx' = rx
    <3>1. Head(tx) \in {7, 10, 11, 21, 22, 25, 26, 30, 31}
      BY <2>2
    <3> QED BY <2>2, <2>3, <3>1, AsParse DEF Well
  <2>5. GoesOn
    BY <2>4 DEF GoesOn, Kept, Well
  <2>6. Seen(1)' /\ NoneRead' /\ fw'.rst = "input"
    <3>1. Seen(1)'
      BY <1>4, <1>5, <1>12, <2>4, <2>5 DEF ByteSeen, SameFw
    <3> QED BY <1>12, <2>4, <3>1 DEF ByteSeen, NoneRead, SameFw
  <2>7. At(2)' /\ Lines("header", <<arg>>, << >>)'
    BY <1>12, <2>1, <2>4 DEF At, Lines
  <2> QED BY <2>4, <2>5, <2>6, <2>7 DEF ByteSent, ByteSeen, arg
<1>13. ASSUME At(2), Lines("header", <<arg>>, << >>), fw.cmd = cmd, ByteSeen(1)
       PROVE  GoesOn /\ fw'.rst = "input" /\ \E x \in Nat : ByteGiven(cmd, x)'
  <2>1. tx = <<arg>> /\ tx \in Seq(Nat) /\ Len(tx) = 1 /\ tx[1] = arg /\ fw.pc = "header" /\ rx = << >>
        /\ AS!HeaderSize(fw.cmd) = 1 /\ fw.cells = 0 /\ host.got = << >> /\ fw.wire = Upmost(f, 1) /\ IsFw(fw)
    BY <1>2, <1>4, <1>13, AsHeaderSizes DEF Lines, ByteSeen, NoneRead, Well
  <2>2. AS!Header
    <3>1. ~AS!Quiet /\ \E b \in Nat : s[2 + 1] = AS!Expect(b)
      BY <1>2, <1>3, <2>1 DEF AS!Quiet
    <3>2. AS!Firmware
      BY <1>3, <1>13, <2>1, <3>1, AsPlaceBoard DEF s
    <3> QED BY <2>1, <3>2, AsWhich
  <2> DEFINE m == Parsed(tx, 1)
  <2>3. IsFw(m) /\ m.pc = "loop" /\ m.rst = "input" /\ m.cells = 0 /\ m.wire = fw.wire /\ m.cmd = cmd
    <3> DEFINE x == tx[1] # 0
               y == IF 1 > 1 THEN tx[1 - 1] * 256 + tx[1] ELSE 0
    <3>1. m = [fw EXCEPT !.pc = "loop", !.flag = x, !.left = y]
      BY Zenon DEF Parsed
    <3> HIDE DEF x, y, m
    <3>2. IsFw(m) /\ m.pc = "loop" /\ m.rst = fw.rst /\ m.cells = fw.cells /\ m.wire = fw.wire /\ m.cmd = fw.cmd
      BY ONLY <2>1, <3>1 DEF IsFw
    <3> QED BY <1>13, <2>1, <3>2
  <2>4. /\ tx' = << >> /\ host' = host
        /\ cmd = 26 => fw' = AS!Out(m, <<<<"out", arg>>>>) /\ \E ack \in {0, 1} : rx' = rx \o <<cmd, ack>>
        /\ cmd = 25 => fw' = AS!In(m, 1, <<IF arg = 0 THEN "ack" ELSE "nack">>)
                       /\ rx' = rx \o (<<cmd>> \o AS!CellsOf(m, 1))
    <3> HIDE DEF m
    <3>0. 1 \in Nat
      OBVIOUS
    <3>1. tx' = << >> /\ host' = host
      BY <2>1, <2>2, <3>0, AsWholeHeader, Zenon
    <3>2. fw.cmd = 26 => fw' = AS!Out(Parsed(tx, 1), <<<<"out", tx[1]>>>>) /\ Acknowledged
      BY <2>1, <2>2, <3>0, AsWholeHeader, Zenon
    <3>3. fw.cmd = 25 => fw' = AS!In(Parsed(tx, 1), 1, <<IF tx[1] = 0 THEN "ack" ELSE "nack">>)
                         /\ rx' = rx \o (<<fw.cmd>> \o AS!CellsOf(Parsed(tx, 1), 1))
      BY <2>1, <2>2, <3>0, AsWholeHeader, Zenon
    <3> QED BY <1>13, <2>1, <3>1, <3>2, <3>3 DEF m, Acknowledged
  <2> HIDE DEF m
  <2>5. \A x \in Nat : << >> \o <<cmd, x>> = <<cmd, x>>
    BY <1>2
  <2>6. /\ IsFw(fw)' /\ fw'.pc = "loop" /\ fw'.rst = "input" /\ fw'.wire = fw.wire \o <<e>>
        /\ \E x \in Nat : rx' = <<cmd, x>> /\ (cmd = 25 => x = AS!Cell(1))
    <3>1. CASE cmd = 26
      <4>1. e = <<"out", arg>> /\ arg = AS!Data(1)
        BY <3>1 DEF e, arg, ByteEvent, ByteArg
      <4>2. fw' = [m EXCEPT !.wire = @ \o <<e>>]
        BY <2>4, <3>1, <4>1 DEF AS!Out
      <4>3. IsFw(fw') /\ fw'.pc = "loop" /\ fw'.rst = "input" /\ fw'.wire = fw.wire \o <<e>>
        BY <2>3, <4>2 DEF IsFw
      <4>4. \E x \in Nat : rx' = <<cmd, x>>
        BY <2>1, <2>4, <2>5, <3>1
      <4> QED BY <3>1, <4>3, <4>4
    <3>2. CASE cmd = 25
      <4>1. e = <<"in", "nack">> /\ arg = 1
        BY <3>2 DEF e, arg, ByteEvent, ByteArg
      <4> DEFINE nack == "nack"
                 acks == <<IF arg = 0 THEN "ack" ELSE "nack">>
                 es == [j \in 1 .. 1 |-> <<"in", acks[j]>>]
      <4>2. es = <<e>>
        <5>1. acks = <<nack>> /\ acks[1] = nack /\ e = <<"in", nack>>
          BY <4>1
        <5> HIDE DEF acks, nack
        <5>2. \A j \in 1 .. 1 : <<"in", acks[j]>> = e
          BY <5>1
        <5>3. es \in Seq({e}) /\ Len(es) = 1 /\ es[1] = e
          BY <5>2
        <5> HIDE DEF es
        <5>4. <<e>> \in Seq({e}) /\ Len(<<e>>) = 1 /\ <<e>>[1] = e
          OBVIOUS
        <5> QED BY <5>3, <5>4, AsSame
      <4>3. fw' = [m EXCEPT !.wire = @ \o es, !.cells = @ + 1]
        BY <2>4, <3>2 DEF AS!In
      <4> DEFINE wire == m.wire \o es
                 cells == m.cells + 1
      <4>4. fw' = [m EXCEPT !.wire = wire, !.cells = cells]
        BY <4>3
      <4>5. IsFw(fw') /\ fw'.pc = "loop" /\ fw'.rst = "input" /\ fw'.wire = wire
        <5> HIDE DEF wire, cells
        <5> QED BY <2>3, <4>4 DEF IsFw
      <4>6. wire = fw.wire \o <<e>>
        <5> HIDE DEF es
        <5> QED BY <2>3, <4>2
      <4>7. AS!CellsOf(m, 1) = <<AS!Cell(1)>>
        <5>1. m.cmd \in AS!I2cByte /\ m.cells + 1 = 1
          BY <2>3, <3>2, AsCodes DEF Codes, AS!I2cByte
        <5>2. AS!CellsOf(m, 1) = [i \in 1 .. 1 |-> AS!Cell(m.cells + i)]
          BY <5>1 DEF AS!CellsOf
        <5>3. \A i \in 1 .. 1 : m.cells + i = 1
          BY <2>3
        <5>4. AS!CellsOf(m, 1) = [i \in 1 .. 1 |-> AS!Cell(1)]
          BY <5>2, <5>3
        <5> QED BY <5>4 DEF AS!Cell
      <4>8. rx' = <<cmd, AS!Cell(1)>> /\ AS!Cell(1) \in Nat
        <5>1. AS!Cell(1) \in Nat
          BY DEF AS!Cell
        <5>2. << >> \o (<<cmd>> \o <<AS!Cell(1)>>) = <<cmd, AS!Cell(1)>>
          <6> DEFINE x == AS!Cell(1)
          <6> HIDE DEF x
          <6>1. <<cmd>> \o <<x>> = <<cmd, x>> /\ x \in Nat
            BY <1>2, <5>1, AsPut DEF x
          <6> QED BY <2>5, <6>1 DEF x
        <5> QED BY <2>1, <2>4, <3>2, <4>7, <5>1, <5>2
      <4> QED BY <4>5, <4>6, <4>8
    <3> QED BY <3>1, <3>2
  <2>7. GoesOn
    BY <2>4, <2>6 DEF GoesOn, Kept, Well
  <2>8. Seen(2)'
    BY <1>1, <1>5, <2>1, <2>6, <2>7 DEF ByteFrame, e
  <2>9. At(2)' /\ host'.got = << >>
    BY <1>13, <2>1, <2>4 DEF At
  <2>10. PICK x \in Nat : rx' = <<cmd, x>> /\ (cmd = 25 => x = AS!Cell(1))
    BY <2>6
  <2>11. ByteGiven(cmd, x)'
    BY <2>4, <2>6, <2>8, <2>9, <2>10 DEF ByteGiven, Lines
  <2> QED BY <2>6, <2>7, <2>11
<1> QED BY <1>7, <1>8, <1>10, <1>11, <1>12, <1>13 DEF ByteSent, arg

LEMMA AsByteTakes ==
    ASSUME Well, AS!Next, NEW cmd \in {25, 26}, IsByte(host.call, cmd), fw.rst = "input",
           NEW x \in Nat, ByteGiven(cmd, x), host.todo # << >>
    PROVE  Dirtied \/ (GoesOn /\ fw'.rst = "input" /\ ByteGiven(cmd, x)')
<1> DEFINE s == host.call.todo
           f == host.call.want
<1>1. ByteTodo(s, cmd)
  BY AsByteSteps DEF Well
<1>2. /\ Len(s) = 5 /\ s[2 + 1] = AS!Expect(cmd) /\ s[3 + 1] = AS!Recv(1) /\ s[4 + 1] = AS!Send(<< 24 >>)
      /\ 2 \in Nat /\ 3 \in Nat /\ 4 \in Nat /\ 1 \in Nat /\ 2 < 5 /\ 3 < 5 /\ 4 < 5
      /\ 2 + 1 = 3 /\ 3 + 1 = 4 /\ 4 + 1 = 5 /\ << 24 >> \in Seq(Nat) /\ cmd \in Nat
  BY <1>1 DEF ByteTodo
<1>3. BoardWaits /\ ~At(5)
  <2>1. ASSUME At(5) PROVE FALSE
    <3>1. Len(host.call.todo) = 5
      BY <1>2
    <3>2. At(Len(host.call.todo))
      BY <2>1, <3>1
    <3>3. host.todo = << >>
      BY <3>2, AsEnd DEF Well
    <3> QED BY <3>3
  <2>2. fw.pc = "loop" /\ tx = << >>
    BY <2>1 DEF ByteGiven, Lines
  <2> QED BY <2>1, <2>2 DEF BoardWaits
<1>4. Seen(2) /\ (cmd = 25 => x = AS!Cell(1)) /\ fw.pc = "loop"
  BY DEF ByteGiven, Lines
<1> HIDE DEF s, f
<1>5. ASSUME Kept, fw' = fw PROVE GoesOn /\ fw'.rst = "input" /\ Seen(2)' /\ fw'.pc = "loop"
  <2>1. host'.call = host.call
    BY <1>5 DEF Kept
  <2> QED BY <1>4, <1>5, <2>1 DEF GoesOn, Well, Seen
<1>6. ASSUME At(2), rx = <<cmd, x>>, host.got = << >>
      PROVE  GoesOn /\ fw'.rst = "input" /\ ByteGiven(cmd, x)'
  <2>1. rx \in Seq(Nat) /\ rx # << >> /\ Head(rx) = cmd /\ Tail(rx) = <<x>>
    BY <1>2, <1>6
  <2>2. /\ At(2 + 1)' /\ Kept /\ host'.got = host.got
        /\ fw' = fw /\ rx' = Tail(rx) /\ tx' = << >>
    BY <1>2, <1>3, <1>6, <2>1, AsPlaceExpect DEF s
  <2>3. At(3)'
    BY <1>2, <2>2
  <2> QED BY <1>4, <1>5, <1>6, <2>1, <2>2, <2>3 DEF ByteGiven, Lines
<1>7. ASSUME At(3), rx = <<x>>, host.got = << >>
      PROVE  GoesOn /\ fw'.rst = "input" /\ ByteGiven(cmd, x)'
  <2>1. rx \in Seq(Nat) /\ Len(rx) = 1 /\ << >> \o rx = rx
    BY <1>7
  <2>2. /\ At(3 + 1)' /\ Kept /\ host'.got = host.got \o rx
        /\ fw' = fw /\ rx' = << >> /\ tx' = << >>
    BY <1>2, <1>3, <1>7, <2>1, AsPlaceRecv DEF s
  <2>3. At(4)' /\ host'.got = <<x>>
    BY <1>2, <1>7, <2>1, <2>2
  <2> QED BY <1>4, <1>5, <2>2, <2>3 DEF ByteGiven, Lines
<1>8. ASSUME At(4), rx = << >>, host.got = <<x>>
      PROVE  Dirtied \/ (GoesOn /\ fw'.rst = "input" /\ ByteGiven(cmd, x)')
  <2>1. \/ Dirtied
        \/ /\ At(4 + 1)' /\ Kept /\ host'.got = host.got
           /\ fw' = fw /\ rx' = rx /\ tx' = << 24 >>
    BY <1>2, <1>3, <1>8, AsPlaceSend DEF s
  <2>2. ASSUME At(4 + 1)', Kept, host'.got = host.got, fw' = fw, rx' = rx, tx' = << 24 >>
        PROVE  GoesOn /\ fw'.rst = "input" /\ ByteGiven(cmd, x)'
    <3>1. At(5)'
      BY <1>2, <2>2
    <3> QED BY <1>4, <1>5, <1>8, <2>2, <3>1 DEF ByteGiven, Lines
  <2> QED BY <2>1, <2>2
<1> QED BY <1>3, <1>6, <1>7, <1>8 DEF ByteGiven, Lines

LEMMA AsByteOver ==
    ASSUME Well, AS!Next, NEW cmd \in {25, 26}, IsByte(host.call, cmd), fw.rst = "input", host.mode = "i2c",
           NEW x \in Nat, ByteGiven(cmd, x), host.todo = << >>
    PROVE  Settled("i2c") /\ (AtRest("i2c")' \/ InDeinit("i2c")')
<1> DEFINE s == host.call.todo
           f == host.call.want
<1>1. ByteTodo(s, cmd) /\ ByteFrame(f, cmd)
  BY AsByteSteps, AsByteFrame DEF Well
<1>2. Len(s) = 5 /\ s \in Seq(HostSteps)
  BY <1>1 DEF ByteTodo
<1>3. tx = << 24 >> /\ rx = << >> /\ fw.pc = "loop" /\ host.got = <<x>>
  <2>1. ASSUME NEW n \in {2, 3, 4}, At(n) PROVE FALSE
    <3>1. n \in Nat /\ n < Len(host.call.todo)
      BY <1>2
    <3>2. ~AS!Idle
      BY <2>1, <3>1, AsNow DEF Well
    <3> QED BY <3>2 DEF AS!Idle
  <2>2. ~At(2) /\ ~At(3) /\ ~At(4)
    BY <2>1
  <2> QED BY <2>2 DEF ByteGiven, Lines
<1>4. Seen(2) /\ (cmd = 25 => x = AS!Cell(1)) /\ host.call.k = "bus" /\ AS!Idle
  BY DEF ByteGiven, IsByte, AS!Idle
<1>5. fw.wire = Upmost(f, 2) /\ Upmost(f, 2) \o <<<<"stop">>>> = f
  BY <1>1, <1>4, AsSeen DEF ByteFrame
<1>6. host.call.give # << >> => host.call.give = <<x>>
  BY <1>4 DEF IsByte
<1>7. AS!Firmware \/ AS!Deinit
  <2>1. AS!Firmware \/ AS!DevOpen \/ AS!Begin \/ AS!Deinit \/ AS!DevClose
    BY <1>4, AsIdleMoves
  <2>2. ~AS!DevOpen
    BY DEF AS!DevOpen
  <2>3. ~AS!DevClose
    BY <1>4 DEF AS!DevClose, Well
  <2>4. ~AS!Begin
    <3>1. tx # << >> /\ host.dirty = 0
      BY <1>3 DEF Well
    <3> QED BY <3>1 DEF AS!Begin, AS!Quiet
  <2> QED BY <2>1, <2>2, <2>3, <2>4
<1>8. "i2c" \in Protocols
  BY DEF Protocols
<1> HIDE DEF s, f
<1>9. CASE AS!Deinit
  <2> DEFINE p == "i2c"
  <2>1. Pending(p, tx)
    BY <1>3 DEF Pending
  <2>2. p \in Protocols /\ host.mode = p
    BY <1>8
  <2> HIDE DEF p
  <2>3. Settled(p) /\ InDeinit(p)'
    BY <1>3, <1>9, <2>1, <2>2, AsDeinits DEF Well
  <2> QED BY <2>3 DEF p
<1>10. CASE AS!Firmware
  <2>1. AS!ParseCommand /\ Head(tx) = 24 /\ Tail(tx) = << >>
    BY <1>3, <1>10, AsWhich
  <2>2. /\ tx' = << >> /\ host' = host /\ IsFw(fw)' /\ rx' = rx /\ fw'.pc = "loop"
        /\ fw'.wire = fw.wire \o <<<<"stop">>>> /\ fw'.rst = fw.rst
    BY <2>1, AsParse DEF Well
  <2>3. fw'.wire = f
    BY <1>5, <2>2
  <2>4. Settled("i2c")
    BY <2>2 DEF Settled, Well
  <2>5. AtRest("i2c")'
    BY <1>3, <1>4, <1>6, <2>2, <2>3 DEF AtRest, Lines, RestPin, f
  <2> QED BY <2>4, <2>5
<1> QED BY <1>7, <1>9, <1>10

LEMMA AsPlaceByte ==
    ASSUME Well, AS!Next, NEW cmd \in {25, 26}, InByte(cmd), host.mode = "i2c"
    PROVE  Dirtied \/ (Settled("i2c") /\ (InByte(cmd)' \/ AtRest("i2c")' \/ InDeinit("i2c")'))
<1>1. IsByte(host.call, cmd) /\ fw.rst = "input" /\ (ByteSent(cmd) \/ \E x \in Nat : ByteGiven(cmd, x))
  BY AsInByte
<1>2. ASSUME GoesOn, fw'.rst = "input", ByteSent(cmd)' \/ \E x \in Nat : ByteGiven(cmd, x)'
      PROVE  Settled("i2c") /\ InByte(cmd)'
  <2>1. Settled("i2c") /\ IsByte(host'.call, cmd)
    BY <1>1, <1>2 DEF GoesOn, Kept, Settled, Well
  <2>2. InByte(cmd)'
    BY <1>2, <2>1, Zenon DEF InByte, ByteSent, ByteGiven, ByteArg, ByteSeen
  <2> QED BY <2>1, <2>2
<1>3. CASE ByteSent(cmd)
  BY <1>1, <1>2, <1>3, AsByteSent
<1>4. ASSUME NEW x \in Nat, ByteGiven(cmd, x)
      PROVE  Dirtied \/ (Settled("i2c") /\ (InByte(cmd)' \/ AtRest("i2c")' \/ InDeinit("i2c")'))
  <2>1. CASE host.todo = << >>
    BY <1>1, <1>4, <2>1, AsByteOver
  <2>2. CASE host.todo # << >>
    BY <1>1, <1>2, <1>4, <2>2, AsByteTakes
  <2> QED BY <2>1, <2>2
<1> QED BY <1>1, <1>3, <1>4

LEMMA AsBusySteps ==
    ASSUME NEW s, s = <<AS!Send(<< 32 >>), AS!Expect(32), AS!Recv(1)>>
    PROVE  Len(s) = 3 /\ s[0 + 1] = AS!Send(<< 32 >>) /\ s[1 + 1] = AS!Expect(32) /\ s[2 + 1] = AS!Recv(1)
OBVIOUS

LEMMA AsBusyFrame ==
    ASSUME NEW f, f = <<<<"high">>, <<"low">>>>
    PROVE  Len(f) = 2 /\ Upmost(f, 0) = << >> /\ Upmost(f, 2) = f
           /\ Append(Append(<< >>, <<"high">>), <<"low">>) = f
<1>1. f \in Seq({<<"high">>, <<"low">>}) /\ Len(f) = 2
  OBVIOUS
<1>2. 0 \in 0 .. Len(f)
  BY <1>1
<1>3. Upmost(f, 0) = << >> /\ Upmost(f, Len(f)) = f
  BY <1>1, <1>2, AsPrefix
<1>4. Append(Append(<< >>, <<"high">>), <<"low">>) = f
  <2> DEFINE h == <<"high">>
             l == <<"low">>
  <2>1. f = <<h, l>> /\ f \in Seq({h, l}) /\ f[1] = h /\ f[2] = l
    BY DEF h, l
  <2>2. 0 \in Nat /\ 1 \in Nat /\ 0 < 2 /\ 1 < 2 /\ 0 + 1 = 1 /\ 1 + 1 = 2
    OBVIOUS
  <2> HIDE DEF h, l
  <2>3. Append(Upmost(f, 0), h) = Upmost(f, 0 + 1)
    BY <1>1, <2>1, <2>2, AsExtendOne
  <2>4. Append(Upmost(f, 1), l) = Upmost(f, 1 + 1)
    BY <1>1, <2>1, <2>2, AsExtendOne
  <2>5. Append(Upmost(f, 0), h) = Upmost(f, 1) /\ Append(Upmost(f, 1), l) = f
    BY <1>1, <1>3, <2>2, <2>3, <2>4
  <2>6. Append(Append(<< >>, h), l) = f
    BY <1>3, <2>5
  <2> QED BY <2>6 DEF h, l
<1> QED BY <1>1, <1>3, <1>4

LEMMA AsPlaceBusy ==
    ASSUME Well, AS!Next, InBusy, host.mode = "mw"
    PROVE  Dirtied \/ (Settled("mw") /\ (InBusy' \/ AtRest("mw")'))
<1> DEFINE s == host.call.todo
           f == host.call.want
<1>1. /\ Len(s) = 3 /\ s[0 + 1] = AS!Send(<< 32 >>) /\ s[1 + 1] = AS!Expect(32) /\ s[2 + 1] = AS!Recv(1)
      /\ host.call.k = "bus" /\ host.call.give = << >> /\ IsBusy(host.call) /\ fw.rst = "low"
  BY AsBusySteps DEF InBusy, IsBusy
<1>2. Len(f) = 2 /\ Upmost(f, 0) = << >> /\ Upmost(f, 2) = f /\ Append(Append(<< >>, <<"high">>), <<"low">>) = f
  BY AsBusyFrame DEF InBusy, IsBusy
<1>3. \A k : Seen(k) <=> k \in 0 .. Len(f) /\ fw.wire = Upmost(f, k)
  BY AsSeen
<1>4. /\ 0 \in Nat /\ 1 \in Nat /\ 2 \in Nat /\ 32 \in Nat /\ 0 < 3 /\ 1 < 3 /\ 2 < 3 /\ 0 + 1 = 1 /\ 1 + 1 = 2 /\ 2 + 1 = 3
      /\ << 32 >> \in Seq(Nat) /\ << 32 >> # << >>
  OBVIOUS
<1> HIDE DEF s, f
<1>5. ASSUME Kept, fw' = fw, NEW k, Seen(k)
      PROVE  Settled("mw") /\ IsBusy(host.call)' /\ fw'.rst = "low" /\ Seen(k)'
  <2>1. host'.call = host.call
    BY <1>5 DEF Kept
  <2> QED BY <1>1, <1>5, <2>1 DEF Kept, Settled, Well, Seen
<1>6. ASSUME At(0), Lines("loop", << >>, << >>), Seen(0)
      PROVE  Dirtied \/ (Settled("mw") /\ InBusy')
  <2>1. BoardWaits
    BY <1>6 DEF BoardWaits, Lines
  <2>2. \/ Dirtied
        \/ /\ At(0 + 1)' /\ Kept /\ host'.got = host.got
           /\ fw' = fw /\ rx' = rx /\ tx' = << 32 >>
    BY <1>1, <1>4, <1>6, <2>1, AsPlaceSend DEF s
  <2>3. ASSUME At(0 + 1)', Kept, host'.got = host.got, fw' = fw, rx' = rx, tx' = << 32 >>
        PROVE  Settled("mw") /\ InBusy'
    <3>1. At(1)' /\ Lines("loop", << 32 >>, << >>)'
      BY <1>4, <1>6, <2>3 DEF Lines
    <3> QED BY <1>5, <1>6, <2>3, <3>1 DEF InBusy
  <2> QED BY <2>2, <2>3
<1>7. ASSUME At(1), Lines("loop", << 32 >>, << >>), Seen(0)
      PROVE  Settled("mw") /\ InBusy'
  <2>1. tx = << 32 >> /\ rx = << >> /\ fw.pc = "loop"
    BY <1>7 DEF Lines
  <2>2. AS!Firmware
    <3>1. ~AS!Quiet /\ \E b \in Nat : s[1 + 1] = AS!Expect(b)
      BY <1>1, <1>4, <2>1 DEF AS!Quiet
    <3> QED BY <1>1, <1>4, <1>7, <2>1, <3>1, AsPlaceBoard DEF s
  <2>3. AS!ParseCommand /\ Head(tx) = 32 /\ Tail(tx) = << >>
    BY <2>1, <2>2, AsWhich
  <2>4. /\ tx' = << >> /\ host' = host /\ IsFw(fw)' /\ fw'.pc = "loop" /\ fw'.rst = "low"
        /\ fw'.wire = Append(Append(fw.wire, <<"high">>), <<"low">>)
        /\ \E busy \in {0, 1} : rx' = rx \o <<32, busy>>
    BY <1>1, <2>3, AsParse DEF Well
  <2>5. PICK b \in {0, 1} : rx' = rx \o <<32, b>>
    BY <2>4
  <2>6. rx' = <<32, b>> /\ b \in Nat
    BY <2>1, <2>5
  <2>7. fw'.wire = Upmost(f, 2) /\ 2 \in 0 .. Len(f)
    <3>1. fw.wire = << >>
      BY <1>2, <1>3, <1>7
    <3>2. fw'.wire = f
      BY <1>2, <2>4, <3>1, Zenon
    <3>3. 2 \in 0 .. Len(f)
      BY <1>2
    <3> QED BY <1>2, <3>2, <3>3
  <2>8. Seen(2)'
    BY <2>4, <2>7 DEF Seen, Upmost, f
  <2>9. At(1)' /\ Lines("loop", << >>, <<32, b>>)'
    BY <1>7, <2>4, <2>6 DEF At, Lines
  <2>10. Settled("mw")
    BY <2>4 DEF Settled, Well
  <2>11. InBusy'
    BY <1>1, <2>4, <2>6, <2>8, <2>9 DEF InBusy
  <2> QED BY <2>10, <2>11
<1>8. ASSUME NEW b \in Nat, Seen(2), At(1), Lines("loop", << >>, <<32, b>>)
      PROVE  Settled("mw") /\ InBusy'
  <2>1. rx = <<32, b>> /\ rx \in Seq(Nat) /\ rx # << >> /\ Head(rx) = 32 /\ Tail(rx) = <<b>> /\ BoardWaits
    BY <1>8 DEF Lines, BoardWaits
  <2>2. /\ At(1 + 1)' /\ Kept /\ host'.got = host.got
        /\ fw' = fw /\ rx' = Tail(rx) /\ tx' = << >>
    BY <1>1, <1>4, <1>8, <2>1, AsPlaceExpect DEF s
  <2>3. At(2)' /\ Lines("loop", << >>, <<b>>)'
    BY <1>4, <1>8, <2>1, <2>2 DEF Lines
  <2> QED BY <1>5, <1>8, <2>2, <2>3 DEF InBusy
<1>9. ASSUME NEW b \in Nat, Seen(2), At(2), Lines("loop", << >>, <<b>>)
      PROVE  Settled("mw") /\ AtRest("mw")'
  <2>1. rx = <<b>> /\ rx \in Seq(Nat) /\ Len(rx) = 1 /\ BoardWaits
    BY <1>9 DEF Lines, BoardWaits
  <2>2. /\ At(2 + 1)' /\ Kept /\ fw' = fw /\ rx' = << >> /\ tx' = << >>
    BY <1>1, <1>4, <1>9, <2>1, AsPlaceRecv DEF s
  <2>3. host'.call = host.call /\ At(3)'
    BY <1>4, <2>2 DEF Kept
  <2>4. host'.todo = << >>
    <3> DEFINE n == Len(host.call.todo)
    <3>1. n = 3
      BY <1>1 DEF s
    <3>2. host'.todo = SubSeq(host.call.todo, 3 + 1, 3)
      BY <2>3, <3>1 DEF At
    <3>3. n \in 0 .. n /\ SubSeq(host.call.todo, n + 1, n) = << >>
      <4>1. n \in 0 .. n
        BY <3>1
      <4> QED BY <4>1, AsSuffix DEF Well
    <3> QED BY <3>1, <3>2, <3>3
  <2>5. Settled("mw") /\ fw'.rst = "low"
    BY <1>5, <1>9, <2>2
  <2>6. fw'.wire = f
    BY <1>2, <1>3, <1>9, <2>2
  <2> QED BY <1>1, <1>9, <2>2, <2>3, <2>4, <2>5, <2>6 DEF AtRest, Lines, RestPin, f
<1> QED BY <1>6, <1>7, <1>8, <1>9 DEF InBusy

-----------------------------------------------------------------------------
(***************************************************************************)
(* The invariant of a session whose host never stood still.  BusSawTheCall   *)
(* is not inductive: it speaks of a line at rest.                            *)
(***************************************************************************)
LEMMA AsMax ==
    ASSUME NEW a \in Int
    PROVE  AS!Max({a, 1}) = IF a > 1 THEN a ELSE 1
<1> DEFINE P(x) == x \in {a, 1} /\ \A y \in {a, 1} : x >= y
           m == IF a > 1 THEN a ELSE 1
<1>1. P(m)
  OBVIOUS
<1>2. \A x : P(x) => x = m
  OBVIOUS
<1>3. AS!Max({a, 1}) = CHOOSE x : P(x)
  BY DEF AS!Max
<1> HIDE DEF P, m
<1>4. P(CHOOSE x : P(x))
  BY <1>1, Zenon
<1> QED BY <1>2, <1>3, <1>4 DEF m

LEMMA AsTodo ==
    ASSUME NEW s \in Seq(HostSteps), s # << >>
    PROVE  Tail(s) \in Seq(HostSteps) /\ Head(s) \in HostSteps
OBVIOUS

(* What the host's steps leave of it.                                       *)
Leaves == IsShaped(host') /\ host'.mode = host.mode /\ (host.dirty # 0 => host'.dirty # 0)

LEMMA AsCalling ==
    ASSUME IsShaped(host), AS!Idle, NEW c, c.todo \in Seq(HostSteps), NEW q \in Protocols \cup {"none"},
           NEW d \in Nat,
           host' = [AS!Calling(c) EXCEPT !.mode = q, !.dirty = d]
    PROVE  IsShaped(host') /\ host'.mode = q /\ host'.dirty = d /\ host'.call = c /\ host'.ok = TRUE /\ ~host'.stalled
           /\ host'.todo = c.todo
<1>1. /\ host'.call = c /\ host'.todo = c.todo /\ host'.ok = TRUE /\ host'.mode = q /\ host'.stalled = host.stalled
      /\ host'.dirty = d /\ IsHost(host')
  BY DEF AS!Calling, IsHost, IsShaped
<1>2. ~host.stalled
  BY DEF IsShaped, AS!Idle
<1> QED BY <1>1, <1>2 DEF IsShaped

LEMMA AsShapeBegin ==
    ASSUME IsShaped(host), AS!Begin
    PROVE  Leaves
<1>1. host.mode \in Protocols /\ host.dirty \in Nat /\ AS!Idle
  BY DEF IsShaped, AS!Begin, AS!Ready
<1>2. PICK c \in AS!CallsOf(host.mode) :
        host' = [AS!Calling(c) EXCEPT !.dirty = IF @ = 0 THEN 0 ELSE @ + 1]
  BY DEF AS!Begin
<1>3. c.todo \in Seq(HostSteps)
  BY <1>1, AsCallsOf, AsCallSteps
<1> DEFINE d == IF host.dirty = 0 THEN 0 ELSE host.dirty + 1
<1>4. d \in Nat /\ (host.dirty # 0 => d # 0)
  BY <1>1
<1>5. host' = [AS!Calling(c) EXCEPT !.mode = host.mode, !.dirty = d]
  BY <1>2 DEF AS!Calling, IsShaped, IsHost
<1> HIDE DEF d
<1>6. IsShaped(host') /\ host'.mode = host.mode /\ host'.dirty = d
  <2> DEFINE q == host.mode
  <2>1. q \in Protocols \cup {"none"} /\ host' = [AS!Calling(c) EXCEPT !.mode = q, !.dirty = d]
    BY <1>1, <1>5
  <2> HIDE DEF q
  <2>2. IsShaped(host') /\ host'.mode = q /\ host'.dirty = d
    BY <1>1, <1>3, <1>4, <2>1, AsCalling
  <2> QED BY <2>2 DEF q
<1> QED BY <1>4, <1>6 DEF Leaves

LEMMA AsShapeDeinit ==
    ASSUME IsShaped(host), AS!Deinit
    PROVE  Leaves
<1> DEFINE c == AS!Call("deinit", AS!DeinitCall(host.mode), << >>, 0)
           q == host.mode
           d == host.dirty
<1>1. q \in Protocols /\ d \in Nat /\ AS!Idle
  BY DEF IsShaped, AS!Deinit, AS!Ready
<1>2. host' = [AS!Calling(c) EXCEPT !.mode = q, !.dirty = d]
  BY DEF AS!Deinit, AS!Calling, IsShaped, IsHost
<1>3. c.todo \in Seq(HostSteps)
  <2>1. << 8 >> \in Seq(Nat) /\ << 34 >> \in Seq(Nat) /\ 8 \in Nat /\ 34 \in Nat
    OBVIOUS
  <2>2. /\ AS!Send(<< 8 >>) \in HostSteps /\ AS!Send(<< 34 >>) \in HostSteps /\ AS!Expect(8) \in HostSteps
        /\ AS!Expect(34) \in HostSteps
    BY <2>1, AsHostSteps
  <2>3. AS!DeinitCall(q) \in Seq(HostSteps)
    BY <1>1, <2>2, AsCodes DEF AS!DeinitCall, Codes, Protocols
  <2> QED BY <2>3 DEF AS!Call
<1> HIDE DEF c, q, d
<1>4. q \in Protocols \cup {"none"}
  BY <1>1
<1>5. IsShaped(host') /\ host'.mode = q /\ host'.dirty = d
  BY <1>1, <1>2, <1>3, <1>4, AsCalling
<1> QED BY <1>5 DEF Leaves, q, d

LEMMA AsShapeClose ==
    ASSUME IsShaped(host), AS!DevClose
    PROVE  IsShaped(host') /\ host'.mode = "none"
<1> DEFINE c == AS!NoCall
           q == "none"
           d == host.dirty
<1>1. q \in Protocols \cup {"none"} /\ d \in Nat /\ AS!Idle /\ c.todo \in Seq(HostSteps)
  BY DEF IsShaped, AS!DevClose, AS!NoCall, AS!Call
<1>2. host' = [AS!Calling(c) EXCEPT !.mode = q, !.dirty = d]
  BY DEF AS!DevClose, AS!Calling, IsShaped, IsHost
<1> HIDE DEF c, q, d
<1>3. IsShaped(host') /\ host'.mode = q
  BY <1>1, <1>2, AsCalling
<1> QED BY <1>3 DEF q

LEMMA AsShapeOpen ==
    ASSUME IsShaped(host), AS!DevOpen, AS!ASProgAssumption
    PROVE  /\ IsShaped(host') /\ fw' = AS!Board /\ tx' = << >> /\ rx' = << >>
           /\ \E p \in Protocols :
                 /\ p \in Modes /\ host'.mode = p /\ host'.dirty = 0 /\ host'.ok = TRUE
                 /\ host'.call = AS!Call("init", AS!InitCall(p), << >>, 0) /\ host'.todo = host'.call.todo
                 /\ host'.call.todo = <<AS!Send(InitBytes(p)), AS!Expect(InitCode(p))>>
                 /\ host'.call.todo \in Seq(HostSteps) /\ host'.call.k = "init"
<1> PICK p \in Modes :
        host' = [AS!Calling(AS!Call("init", AS!InitCall(p), << >>, 0)) EXCEPT !.mode = p, !.dirty = 0]
  BY DEF AS!DevOpen
<1> DEFINE c == AS!Call("init", AS!InitCall(p), << >>, 0)
<1>1. p \in Protocols /\ AS!Idle /\ 0 \in Nat
  BY DEF AS!DevOpen, AS!ASProgAssumption, Protocols
<1>2. AS!InitCall(p) = <<AS!Send(InitBytes(p)), AS!Expect(InitCode(p))>>
  BY <1>1, AsCodes DEF AS!InitCall, InitBytes, InitCode, Codes, Protocols
<1>3. c.todo = <<AS!Send(InitBytes(p)), AS!Expect(InitCode(p))>> /\ c.todo \in Seq(HostSteps) /\ c.k = "init"
  <2>1. InitBytes(p) \in Seq(Nat) /\ InitCode(p) \in Nat /\ 0 \in Nat
    BY DEF InitBytes, InitCode
  <2>2. AS!Send(InitBytes(p)) \in HostSteps /\ AS!Expect(InitCode(p)) \in HostSteps
    BY <2>1, AsHostSteps
  <2> QED BY <1>2, <2>2 DEF AS!Call
<1>4. host' = [AS!Calling(c) EXCEPT !.mode = p, !.dirty = 0]
  OBVIOUS
<1> DEFINE d == 0
<1>5. p \in Protocols \cup {"none"} /\ host' = [AS!Calling(c) EXCEPT !.mode = p, !.dirty = d] /\ d \in Nat
  BY <1>1, <1>4
<1> HIDE DEF c, d
<1>6. IsShaped(host') /\ host'.mode = p /\ host'.dirty = d /\ host'.call = c /\ host'.ok = TRUE /\ host'.todo = c.todo
  <2>1. AS!Idle /\ c.todo \in Seq(HostSteps)
    BY <1>1, <1>3
  <2> QED BY ONLY IsShaped(host), <1>5, <2>1, AsCalling, Zenon
<1> QED BY <1>1, <1>3, <1>6 DEF AS!DevOpen, c, d

LEMMA AsShapeSend ==
    ASSUME IsShaped(host), AS!SendBuffer
    PROVE  Leaves
<1>1. host.todo # << >> /\ host' = [host EXCEPT !.todo = Tail(@), !.stalled = FALSE]
  BY DEF AS!SendBuffer, AS!Doing, AS!Idle, AS!Advance
<1>2. Tail(host.todo) \in Seq(HostSteps)
  BY <1>1, AsTodo DEF IsShaped
<1>3. /\ host'.call = host.call /\ host'.todo = Tail(host.todo) /\ host'.mode = host.mode /\ host'.stalled = FALSE
      /\ host'.dirty = host.dirty /\ IsHost(host')
  BY <1>1 DEF IsShaped, IsHost
<1> QED BY <1>2, <1>3 DEF Leaves, IsShaped

LEMMA AsShapeStall ==
    ASSUME IsShaped(host), AS!Stall
    PROVE  Leaves
<1>1. host.todo # << >> /\ AS!Now.s = "send" /\ AS!Now = Head(host.todo) /\ AS!Now \in HostSteps
      /\ Tail(host.todo) \in Seq(HostSteps)
  BY AsTodo DEF AS!Stall, AS!Doing, AS!Idle, AS!Now, IsShaped
<1> DEFINE dirty == AS!Max({host.dirty, 1})
<1>2. dirty \in Nat /\ dirty > 0
  BY AsMax DEF IsShaped
<1> PICK n \in 0 .. Len(AS!Now.d) - 1 :
        host' = [host EXCEPT !.stalled = TRUE, !.stalls = @ + 1, !.dirty = AS!Max({@, 1}),
                             !.todo = <<AS!Send(SubSeq(AS!Now.d, n + 1, Len(AS!Now.d)))>> \o Tail(@)]
  BY DEF AS!Stall
<1> DEFINE e == AS!Send(SubSeq(AS!Now.d, n + 1, Len(AS!Now.d)))
           todo == <<e>> \o Tail(host.todo)
           stalls == host.stalls + 1
<1>3. e \in HostSteps /\ e.s = "send"
  <2>1. AS!Now.d \in Seq(Nat)
    BY <1>1 DEF HostSteps
  <2>2. SubSeq(AS!Now.d, n + 1, Len(AS!Now.d)) \in Seq(Nat) /\ 0 \in Nat
    BY <2>1
  <2> QED BY <2>2, AsHostSteps
<1>4. host' = [host EXCEPT !.stalled = TRUE, !.stalls = stalls, !.dirty = dirty, !.todo = todo]
  OBVIOUS
<1> HIDE DEF e, dirty, stalls
<1>5. todo \in Seq(HostSteps) /\ todo # << >> /\ Head(todo) = e
  <2> DEFINE t == Tail(host.todo)
  <2>1. t \in Seq(HostSteps)
    BY <1>1
  <2> HIDE DEF t
  <2>2. <<e>> \o t \in Seq(HostSteps) /\ <<e>> \o t # << >> /\ Head(<<e>> \o t) = e
    BY <1>3, <2>1
  <2> QED BY <2>2 DEF t
<1> HIDE DEF todo
<1>6. /\ host'.call = host.call /\ host'.todo = todo /\ host'.mode = host.mode
      /\ host'.dirty = dirty /\ IsHost(host')
  BY <1>4 DEF IsShaped, IsHost
<1>7. host'.todo \in Seq(HostSteps) /\ host'.todo # << >> /\ Head(host'.todo).s = "send"
  BY <1>3, <1>5, <1>6
<1>8. host'.dirty \in Nat /\ host'.dirty > 0 /\ host'.dirty # 0
  BY <1>2, <1>6
<1>9. host'.call.todo \in Seq(HostSteps) /\ host'.mode \in Protocols \cup {"none"}
  BY <1>6 DEF IsShaped
<1> QED BY <1>6, <1>7, <1>8, <1>9, Zenon DEF Leaves, IsShaped

LEMMA AsShapeByte ==
    ASSUME IsShaped(host), AS!RecvByte
    PROVE  Leaves
<1>1. host.todo # << >> /\ AS!Now.s = "expect" /\ AS!Now = Head(host.todo)
  BY DEF AS!RecvByte, AS!Doing, AS!Idle, AS!Now
<1>2. ~host.stalled /\ Tail(host.todo) \in Seq(HostSteps)
  BY <1>1, AsTodo DEF IsShaped
<1>3. CASE AS!Advance(host)
  <2>1. host' = [host EXCEPT !.todo = Tail(@), !.stalled = FALSE]
    BY <1>3 DEF AS!Advance
  <2>2. /\ host'.call = host.call /\ host'.todo = Tail(host.todo) /\ host'.mode = host.mode /\ host'.stalled = FALSE
        /\ host'.dirty = host.dirty /\ IsHost(host')
    BY <2>1 DEF IsShaped, IsHost
  <2> QED BY <1>2, <2>2 DEF Leaves, IsShaped
<1>4. CASE host' = [host EXCEPT !.todo = << >>, !.ok = FALSE]
  <2>1. /\ host'.call = host.call /\ host'.todo = << >> /\ host'.mode = host.mode /\ host'.stalled = host.stalled
        /\ host'.dirty = host.dirty /\ IsHost(host')
    BY <1>4 DEF IsShaped, IsHost
  <2> QED BY <1>2, <2>1 DEF Leaves, IsShaped
<1> QED BY <1>3, <1>4 DEF AS!RecvByte

LEMMA AsShapeBuffer ==
    ASSUME IsShaped(host), AS!RecvBufferEx
    PROVE  Leaves
<1> DEFINE n == Len(AS!Now.d)
           k == AS!Min({n, Len(rx)})
           got == host.got \o SubSeq(rx, 1, k)
           ok == host.ok /\ k = n
<1>1. host.todo # << >>
  BY DEF AS!RecvBufferEx, AS!Doing, AS!Idle
<1>2. Tail(host.todo) \in Seq(HostSteps)
  BY <1>1, AsTodo DEF IsShaped
<1>3. host' = [[host EXCEPT !.got = got, !.ok = ok] EXCEPT !.todo = Tail(@), !.stalled = FALSE]
  BY DEF AS!RecvBufferEx, AS!Advance
<1> HIDE DEF got, ok
<1>4. /\ host'.call = host.call /\ host'.todo = Tail(host.todo) /\ host'.mode = host.mode /\ host'.stalled = FALSE
      /\ host'.dirty = host.dirty /\ IsHost(host')
  BY <1>3 DEF IsShaped, IsHost
<1> QED BY <1>2, <1>4 DEF Leaves, IsShaped

LEMMA AsShape ==
    ASSUME IsShaped(host), AS!Next
    PROVE  AS!DevOpen \/ (IsShaped(host') /\ host'.mode = "none") \/ Leaves
<1>1. AS!Firmware => host' = host
  BY DEF AS!Firmware, AS!ParseCommand, AS!Header, AS!HeaderShort, AS!AckedBlock, AS!UnackedBlock, AS!WriteBlock
<1>2. AS!Firmware => Leaves
  BY <1>1 DEF Leaves
<1> QED BY <1>2, AsShapeBegin, AsShapeDeinit, AsShapeClose, AsShapeSend, AsShapeStall, AsShapeByte, AsShapeBuffer
        DEF AS!Next, AS!Host

LEMMA AsWell ==
    ASSUME ASInv, host.mode # "none", host.dirty = 0
    PROVE  Well /\ host.mode \in Protocols /\ InSession(host.mode)
<1>1. InSession(host.mode) /\ IsFw(fw) /\ IsShaped(host)
  BY DEF ASInv
<1>2. host.ok = TRUE
  BY <1>1 DEF InSession
<1> QED BY <1>1, <1>2 DEF IsShaped, Well

LEMMA AsPlaceSession ==
    ASSUME WholeBlocks, Well, AS!Next, NEW p \in Protocols, host.mode = p, InSession(p)
    PROVE  \/ Dirtied
           \/ host'.mode = "none"
           \/ Settled(p) /\ InSession(p)'
<1>1. GoesOn => Settled(p)
  BY DEF GoesOn, Kept, Settled, Well
<1>2. Settled(p) => host'.ok
  BY DEF Settled
<1>3. CASE AtRest(p)
  BY <1>2, <1>3, AsPlaceRest DEF InSession
<1>4. CASE InTransfer(p)
  BY <1>2, <1>4, AsPlaceTransfer DEF InSession
<1>5. CASE InInit(p)
  BY <1>1, <1>2, <1>5, AsPlaceInit DEF InSession
<1>6. CASE InDeinit(p)
  BY <1>1, <1>2, <1>6, AsPlaceDeinit DEF InSession
<1>7. ASSUME p = "i2c", NEW cmd \in {25, 26}, InByte(cmd)
      PROVE  Dirtied \/ (Settled(p) /\ InSession(p)')
  <2>1. Dirtied \/ (Settled("i2c") /\ (InByte(cmd)' \/ AtRest("i2c")' \/ InDeinit("i2c")'))
    BY <1>7, AsPlaceByte
  <2>2. Dirtied \/ (Settled(p) /\ (InByte(cmd)' \/ AtRest(p)' \/ InDeinit(p)'))
    BY <1>7, <2>1
  <2> QED BY <1>2, <1>7, <2>2 DEF InSession
<1>8. ASSUME p = "mw", InBusy
      PROVE  Dirtied \/ (Settled(p) /\ InSession(p)')
  <2>1. Dirtied \/ (Settled("mw") /\ (InBusy' \/ AtRest("mw")'))
    BY <1>8, AsPlaceBusy
  <2>2. Dirtied \/ (Settled(p) /\ (InBusy' \/ AtRest(p)'))
    BY <1>8, <2>1
  <2> QED BY <1>2, <1>8, <2>2 DEF InSession
<1> QED BY <1>3, <1>4, <1>5, <1>6, <1>7, <1>8 DEF InSession

LEMMA AsOpened ==
    ASSUME IsShaped(host), AS!DevOpen, AS!ASProgAssumption
    PROVE  ASInv'
<1> PICK p \in Protocols :
        /\ p \in Modes /\ host'.mode = p /\ host'.dirty = 0 /\ host'.ok = TRUE
        /\ host'.call = AS!Call("init", AS!InitCall(p), << >>, 0) /\ host'.todo = host'.call.todo
        /\ host'.call.todo = <<AS!Send(InitBytes(p)), AS!Expect(InitCode(p))>>
        /\ host'.call.todo \in Seq(HostSteps) /\ host'.call.k = "init"
  BY AsShapeOpen
<1>1. IsShaped(host') /\ fw' = AS!Board /\ tx' = << >> /\ rx' = << >>
  BY AsShapeOpen
<1>2. fw'.pc = "loop" /\ fw'.rst = "input" /\ IsFw(fw')
  BY <1>1 DEF AS!Board, IsFw
<1>3. At(0)'
  <2> DEFINE s == host'.call.todo
  <2>1. s \in Seq(HostSteps) /\ host'.call.todo = s /\ host'.todo = s /\ host' = host'
    OBVIOUS
  <2> HIDE DEF s
  <2>2. SubSeq(s, 0 + 1, Len(s)) = s /\ 0 \in 0 .. Len(s)
    <3>1. Len(s) \in 0 .. Len(s) /\ Len(s) \in Nat
      BY <2>1
    <3>2. Upmost(s, Len(s)) = s
      BY <2>1, <3>1, AsPrefix
    <3> QED BY <3>1, <3>2 DEF Upmost
  <2> QED BY <2>1, <2>2 DEF At
<1>4. InInit(p)'
  BY <1>1, <1>2, <1>3 DEF InInit, Lines
<1>5. InSession(p)'
  BY <1>4 DEF InSession
<1> QED BY <1>1, <1>2, <1>5 DEF ASInv

LEMMA AsInvInit ==
    AS!Init => ASInv
<1> SUFFICES ASSUME AS!Init PROVE ASInv
  OBVIOUS
<1>1. /\ IsHost(host) /\ host.dirty = 0 /\ host.mode = "none" /\ host.todo = << >> /\ ~host.stalled
      /\ host.call.todo = << >>
  BY DEF AS!Init, IsHost, AS!NoCall, AS!Call
<1> QED BY <1>1 DEF ASInv, IsShaped

LEMMA AsInvNext ==
    ASSUME WholeBlocks, AS!ASProgAssumption, ASInv, AS!Next
    PROVE  ASInv'
<1>1. IsShaped(host)
  BY DEF ASInv
<1>2. CASE AS!DevOpen
  BY <1>1, <1>2, AsOpened
<1>3. CASE IsShaped(host') /\ host'.mode = "none"
  BY <1>3 DEF ASInv
<1>4. CASE Leaves
  <2>1. IsShaped(host') /\ host'.mode = host.mode /\ (host.dirty # 0 => host'.dirty # 0)
    BY <1>4 DEF Leaves
  <2>2. ASSUME host'.mode # "none", host'.dirty = 0
        PROVE  IsFw(fw') /\ InSession(host.mode)'
    <3>1. host.mode # "none" /\ host.dirty = 0
      BY <2>1, <2>2
    <3>2. PICK p \in Protocols : p = host.mode
      BY <3>1, AsWell
    <3>3. Well /\ InSession(p)
      BY <3>1, <3>2, AsWell
    <3>4. Settled(p) /\ InSession(p)'
      BY <2>2, <3>2, <3>3, AsPlaceSession DEF Dirtied
    <3>5. IsFw(fw') /\ host'.mode = p
      BY <3>4 DEF Settled
    <3> QED BY <3>4, <3>5
  <2> QED BY <2>1, <2>2 DEF ASInv
<1> QED BY <1>1, <1>2, <1>3, <1>4, AsShape

LEMMA AsStutters ==
    ASSUME ASInv, UNCHANGED AS!vars
    PROVE  ASInv'
<1>1. fw' = fw /\ host' = host /\ tx' = tx /\ rx' = rx
  BY DEF AS!vars
<1>2. \A n : At(n)' <=> At(n)
  BY <1>1 DEF At
<1>3. \A n : Seen(n)' <=> Seen(n)
  BY <1>1 DEF Seen
<1>4. \A state, down, up : Lines(state, down, up)' <=> Lines(state, down, up)
  BY <1>1 DEF Lines
<1>5. NoneRead' <=> NoneRead
  BY <1>1 DEF NoneRead
<1>6. ASSUME NEW p, InTransfer(p) PROVE InTransfer(p)'
  <2>1. PICK w \in Nat \ {0}, r \in Nat :
          IsTransfer(host.call, p, w, r) /\ (InWrite(p, w, r) \/ InTurn(p, w, r) \/ InRead(p, w, r))
    BY <1>6 DEF InTransfer
  <2>2. IsTransfer(host.call, p, w, r)'
    BY <1>1, <2>1
  <2>3. BeforeWrite(p, w, r) => BeforeWrite(p, w, r)'
    BY <1>1, <1>2, <1>3, <1>4, <1>5, Zenon DEF BeforeWrite, Begun
  <2>4. \A i : AtWrite(p, w, r, i) => AtWrite(p, w, r, i)'
    BY <1>1, <1>2, Zenon DEF AtWrite
  <2>5. InTurn(p, w, r) => InTurn(p, w, r)'
    BY <1>1, <1>2, <1>4, Zenon DEF InTurn
  <2>6. \A i : AtRead(p, w, r, i) => AtRead(p, w, r, i)'
    BY <1>1, <1>2, Zenon DEF AtRead
  <2>7. InWrite(p, w, r) => InWrite(p, w, r)'
    BY <2>3, <2>4, Zenon DEF InWrite
  <2>8. InRead(p, w, r) => InRead(p, w, r)'
    BY <2>6, Zenon DEF InRead
  <2> QED BY <2>1, <2>2, <2>5, <2>7, <2>8, Zenon DEF InTransfer
<1>7. \A p : AtRest(p) => AtRest(p)'
  BY <1>1, <1>4, Zenon DEF AtRest
<1>8. \A p : InInit(p) => InInit(p)'
  BY <1>1, <1>2, <1>4, Zenon DEF InInit
<1>9. \A p : InDeinit(p) => InDeinit(p)'
  BY <1>1, <1>2, <1>4, Zenon DEF InDeinit, Pending
<1>10. \A cmd : InByte(cmd) => InByte(cmd)'
  BY <1>1, <1>2, <1>3, <1>4, <1>5, Zenon DEF InByte
<1>11. InBusy => InBusy'
  BY <1>1, <1>2, <1>3, <1>4, Zenon DEF InBusy
<1>12. \A p : InSession(p) => InSession(p)'
  BY <1>1, <1>6, <1>7, <1>8, <1>9, <1>10, <1>11, Zenon DEF InSession
<1> QED BY <1>1, <1>12, Zenon DEF ASInv

LEMMA AsNotThere ==
    ASSUME Well, AS!Idle, NEW n \in Nat, n < Len(host.call.todo)
    PROVE  ~At(n)
BY AsNow DEF Well

LEMMA AsOverTransfer ==
    ASSUME Well, NEW p \in Protocols, InTransfer(p), AS!Idle, AS!Quiet
    PROVE  FALSE
<1>1. PICK w \in Nat \ {0}, r \in Nat :
        IsTransfer(host.call, p, w, r) /\ (InWrite(p, w, r) \/ InTurn(p, w, r) \/ InRead(p, w, r))
  BY DEF InTransfer
<1> DEFINE o == WLen(p, w)
           n == Len(host.call.todo)
<1>2. n \in Nat /\ o \in Nat /\ 3 < o /\ o <= n /\ (r = 0 => o = n) /\ (r > 0 => o + 3 < n)
  BY <1>1, AsLengths
<1> HIDE DEF o, n
<1>3. 0 \in Nat /\ 1 \in Nat /\ 0 < n /\ 1 < n /\ o - 1 \in Nat /\ o - 1 < n
      /\ (r > 0 => o < n /\ o + 1 \in Nat /\ o + 1 < n)
  BY <1>2
<1>4. ~At(0) /\ ~At(1) /\ ~At(o - 1) /\ (r > 0 => ~At(o) /\ ~At(o + 1))
  BY <1>2, <1>3, AsNotThere DEF n
<1>5. fw.pc = "loop"
  BY DEF AS!Quiet
<1>6. ~BeforeWrite(p, w, r)
  BY <1>4 DEF BeforeWrite
<1>7. ~InTurn(p, w, r)
  BY <1>4 DEF InTurn, o
<1>8. \A i : ~AtWrite(p, w, r, i)
  BY <1>5, Zenon DEF AtWrite, WroteUpto
<1>9. \A i : ~AtRead(p, w, r, i)
  BY <1>5, Zenon DEF AtRead, ReadUpto
<1> QED BY <1>1, <1>6, <1>7, <1>8, <1>9 DEF InWrite, InRead

LEMMA AsInvSaw ==
    ASSUME ASInv
    PROVE  AS!BusSawTheCall
<1> SUFFICES ASSUME AS!Idle, AS!Quiet, host.mode # "none", host.dirty = 0
             PROVE  /\ host.ok /\ rx = << >>
                    /\ host.call.k = "bus" =>
                          /\ fw.wire = host.call.want
                          /\ host.call.give # << >> => host.got = host.call.give
  BY DEF AS!BusSawTheCall
<1> PICK p \in Protocols : p = host.mode
  BY AsWell
<1>1. Well /\ InSession(p)
  BY AsWell
<1>2. host.ok /\ tx = << >> /\ fw.pc = "loop"
  BY <1>1 DEF AS!Quiet, Well
<1>3. CASE AtRest(p)
  BY <1>2, <1>3 DEF AtRest, Lines
<1>4. CASE InTransfer(p)
  BY <1>1, <1>4, AsOverTransfer
<1>5. CASE InInit(p)
  <2>1. Len(host.call.todo) = 2
    BY <1>5 DEF InInit
  <2>2. 0 \in Nat /\ 1 \in Nat /\ 0 < Len(host.call.todo) /\ 1 < Len(host.call.todo)
    BY <2>1
  <2>3. ~At(0) /\ ~At(1)
    BY <1>1, <2>2, AsNotThere
  <2> QED BY <1>5, <2>3 DEF InInit
<1>6. CASE InDeinit(p)
  <2>1. host.call.k # "bus" /\ host.call.todo = DeinitSteps(p)
    BY <1>6 DEF InDeinit
  <2>2. p # "i2c" => Len(host.call.todo) = 2
    BY <2>1 DEF DeinitSteps
  <2>3. p # "i2c" => ~At(0) /\ ~At(1)
    <3>1. ASSUME p # "i2c" PROVE ~At(0) /\ ~At(1)
      <4>1. 0 \in Nat /\ 1 \in Nat /\ 0 < Len(host.call.todo) /\ 1 < Len(host.call.todo)
        <5>1. Len(host.call.todo) = 2
          BY <2>2, <3>1, Zenon
        <5> QED BY <5>1
      <4> QED BY <1>1, <4>1, AsNotThere
    <3> QED BY <3>1
  <2>4. rx = << >>
    BY <1>6, <2>3 DEF InDeinit, Lines
  <2> QED BY <1>2, <2>1, <2>4
<1>7. ASSUME NEW cmd \in {25, 26}, InByte(cmd) PROVE FALSE
  <2>1. IsByte(host.call, cmd) /\ (ByteSent(cmd) \/ \E x \in Nat : ByteGiven(cmd, x))
    BY <1>7, AsInByte
  <2>2. Len(host.call.todo) = 5
    BY <1>1, <2>1, AsByteSteps DEF ByteTodo, Well
  <2>3. ~At(0) /\ ~At(1) /\ ~At(2) /\ ~At(3) /\ ~At(4)
    BY <1>1, <2>2, AsNotThere
  <2>4. PICK x \in Nat : ByteGiven(cmd, x)
    BY <2>1, <2>3 DEF ByteSent
  <2>5. tx = << 24 >>
    BY <2>3, <2>4 DEF ByteGiven, Lines
  <2> QED BY <1>2, <2>5
<1>8. CASE InBusy
  <2>1. Len(host.call.todo) = 3
    BY <1>8, AsBusySteps DEF InBusy, IsBusy
  <2>2. ~At(0) /\ ~At(1) /\ ~At(2)
    BY <1>1, <2>1, AsNotThere
  <2> QED BY <1>8, <2>2 DEF InBusy
<1> QED BY <1>1, <1>3, <1>4, <1>5, <1>6, <1>7, <1>8 DEF InSession

-----------------------------------------------------------------------------
(***************************************************************************)
(* The select.  A host that stood still can leave any part of a header or of *)
(* a block on the line, so all that is kept is which bytes it ever sends in  *)
(* a session: none is the code of a handler that moves the pin for another   *)
(* protocol.  The firmware is then in its loop with the pin where the last   *)
(* transfer was to leave it, or in a handler of this protocol, that puts it  *)
(* there.                                                                    *)
(***************************************************************************)
(* The select.  What a host of this protocol must not send by the way: codes    *)
(* of handlers that move the pin, or give it back, for another protocol.       *)
OfSelect == {"spi", "mw"}
Foreign(p) == IF p = "spi" THEN {21, 22, 30, 31, 32, 33} ELSE {7, 10, 11, 21, 22}
Lengths(p) == Writes \cup Reads \cup (IF p = "mw" THEN {8 * w - 5 : w \in Writes} ELSE {})
LengthsAreNoCodes == \A p \in Modes \cap OfSelect : Lengths(p) \cap Foreign(p) = {}
Harmless(p) == Nat \ Foreign(p)
HarmlessSteps(p) == {x \in HostSteps : x.s = "send" => x.d \in Seq(Harmless(p))}

LEMMA AsHarmlessStep ==
    ASSUME NEW p \in OfSelect, NEW d \in Seq(Harmless(p)), NEW b \in Nat, NEW n \in Nat
    PROVE  AS!Send(d) \in HarmlessSteps(p) /\ AS!Expect(b) \in HarmlessSteps(p) /\ AS!Recv(n) \in HarmlessSteps(p)
<1>1. d \in Seq(Nat)
  BY DEF Harmless
<1>2. "expect" # "send" /\ "recv" # "send"
  OBVIOUS
<1> QED BY <1>1, <1>2, AsHostSteps DEF HarmlessSteps

LEMMA AsHarmlessBytes ==
    ASSUME NEW p \in OfSelect
    PROVE  /\ 0 \in Harmless(p) /\ 1 \in Harmless(p) /\ 8 \in Harmless(p) /\ 34 \in Harmless(p) /\ 81 \in Harmless(p)
           /\ WCmd(p) \in Harmless(p) /\ RCmd(p) \in Harmless(p) /\ InitCode(p) \in Harmless(p)
           /\ (p = "mw" => 32 \in Harmless(p)) /\ \A i \in Nat : AS!Data(i) \in Harmless(p)
<1>1. p = "spi" \/ (p = "mw" /\ p # "spi" /\ p # "i2c")
  BY DEF OfSelect
<1> QED BY <1>1 DEF Harmless, Foreign, WCmd, RCmd, InitCode, AS!Data

LEMMA AsHarmlessHeads ==
    ASSUME NEW p \in OfSelect, NEW w \in Harmless(p), NEW r \in Harmless(p), p = "mw" => 8 * w - 5 \in Harmless(p)
    PROVE  WHead(p, w, r) \in Seq(Harmless(p)) /\ RHead(p, r) \in Seq(Harmless(p))
<1> DEFINE H == Harmless(p)
           e == EndFlag(r)
           b == 8 * w - 5
<1>1. e \in H /\ 0 \in H /\ 1 \in H
  BY AsHarmlessBytes DEF EndFlag
<1>2. CASE p = "spi"
  <2>1. 11 \in H /\ 10 \in H
    BY <1>2, AsHarmlessBytes DEF WCmd, RCmd
  <2>2. w \in H /\ r \in H
    OBVIOUS
  <2> HIDE DEF H, e
  <2>3. <<11, e, 0, w>> \in Seq(H) /\ <<10, 1, 0, r>> \in Seq(H)
    BY <1>1, <2>1, <2>2
  <2> QED BY <1>2, <2>3 DEF WHead, RHead, H, e
<1>3. CASE p = "mw"
  <2>1. 31 \in H /\ 30 \in H
    <3>1. p # "spi" /\ p # "i2c"
      BY <1>3
    <3> QED BY <3>1, AsHarmlessBytes DEF WCmd, RCmd
  <2>2. w \in H /\ r \in H /\ b \in H
    BY <1>3
  <2>4. p # "spi" /\ p # "i2c"
    BY <1>3
  <2> HIDE DEF H, e, b
  <2>3. <<31, e, b, 0, w>> \in Seq(H) /\ <<30, 1, 0, r>> \in Seq(H)
    BY <1>1, <2>1, <2>2
  <2> QED BY <2>4, <2>3 DEF WHead, RHead, H, e, b
<1> QED BY <1>2, <1>3 DEF OfSelect

LEMMA AsHarmlessPiece ==
    ASSUME NEW p \in OfSelect, NEW w \in Nat \ {0}, NEW c \in Nat \ {0}, NEW i \in 1 .. AS!Blocks(w, c)
    PROVE  Piece(w, c, i) \in Seq(Harmless(p))
<1> DEFINE a == Upto(w, c, i - 1)
           n == Upto(w, c, i) - a
<1>1. a \in Nat /\ n \in Nat
  BY AsPiece
<1>2. Piece(w, c, i) = [j \in 1 .. n |-> AS!Data(a + j)]
  BY DEF Piece
<1> HIDE DEF a, n
<1>3. \A j \in 1 .. n : a + j \in Nat
  BY <1>1
<1>4. \A j \in 1 .. n : AS!Data(a + j) \in Harmless(p)
  BY <1>3, AsHarmlessBytes
<1> QED BY <1>1, <1>2, <1>4

LEMMA AsHarmlessTransfer ==
    ASSUME LengthsAreNoCodes, NEW p \in OfSelect, p \in Modes, NEW w \in Nat \ {0}, NEW r \in Nat,
           NEW c, IsTransfer(c, p, w, r)
    PROVE  c.todo \in Seq(HarmlessSteps(p))
<1> DEFINE t == c.todo
           S == HarmlessSteps(p)
           B == WBlocks(p, w)
           R == RBlocks(r)
           o == WLen(p, w)
<1>1. Program(t, p, w, r) /\ Listed(p, w, r) /\ p \in Protocols /\ p # "i2c"
  BY DEF IsTransfer, OfSelect, Protocols
<1>2. w \in Harmless(p) /\ r \in Harmless(p) /\ (p = "mw" => 8 * w - 5 \in Harmless(p))
  <2>1. w \in Writes /\ (r # 0 => r \in Reads)
    BY <1>1 DEF Listed
  <2>2. Lengths(p) \cap Foreign(p) = {}
    BY DEF LengthsAreNoCodes
  <2>3. w \in Harmless(p)
    BY <2>1, <2>2 DEF Lengths, Harmless
  <2>4. r \in Harmless(p)
    BY <2>1, <2>2, AsHarmlessBytes DEF Lengths, Harmless
  <2>5. p = "mw" => 8 * w - 5 \in Harmless(p)
    <3>1. 8 * w - 5 \in Nat
      OBVIOUS
    <3>2. p = "mw" => 8 * w - 5 \in Lengths(p)
      BY <2>1 DEF Lengths
    <3> QED BY <2>2, <3>1, <3>2 DEF Harmless
  <2> QED BY <2>3, <2>4, <2>5
<1>3. WHead(p, w, r) \in Seq(Harmless(p)) /\ RHead(p, r) \in Seq(Harmless(p))
  BY <1>2, AsHarmlessHeads
<1>4. WCmd(p) \in Nat /\ RCmd(p) \in Nat /\ AS!ACK \in Nat /\ 0 \in Nat /\ <<AS!ACK>> \in Seq(Harmless(p))
  <2>1. 81 \in Harmless(p) /\ AS!ACK = 81
    BY AsHarmlessBytes, AsCodes DEF Codes
  <2> QED BY <2>1 DEF WCmd, RCmd
<1>5. B \in Nat \ {0} /\ o = 2 * B + 2 /\ WChunk(p, w) \in Nat \ {0} /\ B = AS!Blocks(w, WChunk(p, w))
  <2>1. WChunk(p, w) \in Nat \ {0}
    BY AsConst DEF WChunk
  <2> QED BY <1>1, <2>1, AsWData DEF WLen, WBlocks
<1>6. r > 0 => /\ R \in Nat \ {0}
               /\ \A i \in 1 .. R : Upto(r, rchunk, i) - Upto(r, rchunk, i - 1) \in Nat
  <2>1. r > 0 => r \in Nat \ {0}
    OBVIOUS
  <2> QED BY <2>1, AsReadCounts, AsReadBegins
<1>7. /\ t \in Seq(HostSteps) /\ Len(t) = o + RLen(r)
      /\ t[1] = AS!Send(WHead(p, w, r)) /\ t[2] = AS!Expect(WCmd(p))
      /\ \A i \in 1 .. B : /\ t[2 * i + 1] = AS!Send(Piece(w, WChunk(p, w), i))
                           /\ t[2 * i + 2] = AS!Expect(AS!ACK)
  BY <1>1, Zenon DEF Program, WritePart
<1>8. r > 0 => /\ t[o + 1] = AS!Send(RHead(p, r)) /\ t[o + 2] = AS!Expect(RCmd(p))
               /\ \A i \in 1 .. R :
                     /\ t[o + 2 * i + 1] = AS!Recv(Upto(r, rchunk, i) - Upto(r, rchunk, i - 1))
                     /\ t[o + 2 * i + 2] = AS!Send(<<AS!ACK>>)
  BY <1>1, Zenon DEF Program, ReadPart
<1>9. RLen(r) = IF r = 0 THEN 0 ELSE 2 * R + 2
  BY DEF RLen
<1> HIDE DEF t, S, B, R, o
<1>10. t[1] \in S /\ t[2] \in S
  BY <1>3, <1>4, <1>7, AsHarmlessStep DEF S
<1>11. ASSUME NEW i \in 1 .. B PROVE t[2 * i + 1] \in S /\ t[2 * i + 2] \in S
  <2>1. Piece(w, WChunk(p, w), i) \in Seq(Harmless(p))
    BY <1>5, AsHarmlessPiece
  <2> QED BY <1>4, <1>7, <2>1, AsHarmlessStep DEF S
<1>12. r > 0 => t[o + 1] \in S /\ t[o + 2] \in S
  BY <1>3, <1>4, <1>8, AsHarmlessStep DEF S
<1>13. ASSUME r > 0, NEW i \in 1 .. R PROVE t[o + 2 * i + 1] \in S /\ t[o + 2 * i + 2] \in S
  <2> DEFINE n == Upto(r, rchunk, i) - Upto(r, rchunk, i - 1)
  <2>1. n \in Nat
    BY <1>6, <1>13
  <2>2. t[o + 2 * i + 1] = AS!Recv(n) /\ t[o + 2 * i + 2] = AS!Send(<<AS!ACK>>)
    BY <1>8, <1>13
  <2> HIDE DEF n
  <2> QED BY <1>4, <2>1, <2>2, AsHarmlessStep DEF S
<1>14. ASSUME NEW j \in 1 .. Len(t) PROVE t[j] \in S
  <2>1. CASE j \in {1, 2}
    BY <1>10, <2>1
  <2>2. CASE j > 2 /\ j <= o
    <3>1. \E i \in 1 .. B : j = 2 * i + 1 \/ j = 2 * i + 2
      <4>1. (j - 1) \div 2 \in 1 .. B /\ (j = 2 * ((j - 1) \div 2) + 1 \/ j = 2 * ((j - 1) \div 2) + 2)
        BY <1>5, <2>2
      <4> QED BY <4>1
    <3> QED BY <1>11, <3>1
  <2>3. CASE j > o
    <3>0. o \in Nat /\ j \in Nat /\ j \in Int
      BY <1>5
    <3>1. r > 0 /\ R \in Nat /\ j <= o + 2 * R + 2
      BY <1>5, <1>6, <1>7, <1>9, <2>3
    <3>2. CASE j = o + 1 \/ j = o + 2
      BY <1>12, <3>1, <3>2
    <3>3. CASE j > o + 2
      <4> DEFINE k == j - o
      <4>1. k \in Nat /\ k > 2 /\ k <= 2 * R + 2 /\ j = o + k
        BY ONLY <3>0, <3>1, <3>3
      <4> HIDE DEF k
      <4>2. (k - 1) \div 2 \in 1 .. R /\ (k = 2 * ((k - 1) \div 2) + 1 \/ k = 2 * ((k - 1) \div 2) + 2)
        BY <3>1, <4>1
      <4>3. PICK i \in 1 .. R : k = 2 * i + 1 \/ k = 2 * i + 2
        BY <4>2
      <4>4. j = o + 2 * i + 1 \/ j = o + 2 * i + 2
        <5>1. i \in Nat
          BY <3>1
        <5> QED BY ONLY <3>0, <4>1, <4>3, <5>1
      <4> QED BY <1>13, <3>1, <4>4
    <3>4. j = o + 1 \/ j = o + 2 \/ j > o + 2
      BY ONLY <2>3, <3>0
    <3> QED BY <3>2, <3>3, <3>4
  <2> QED BY <1>5, <2>1, <2>2, <2>3
<1>15. t \in Seq(S)
  <2>1. Len(t) \in Nat /\ t = [j \in 1 .. Len(t) |-> t[j]]
    BY <1>7
  <2>2. [j \in 1 .. Len(t) |-> t[j]] \in Seq(S)
    BY <1>14, <2>1
  <2> QED BY <2>1, <2>2
<1> QED BY <1>15 DEF t, S

LEMMA AsHarmlessCall ==
    ASSUME LengthsAreNoCodes, NEW p \in OfSelect, p \in Modes, NEW c \in AS!CallsOf(p)
    PROVE  c.todo \in Seq(HarmlessSteps(p))
<1>1. IsBusCall(c, p) /\ p # "i2c"
  <2>1. p \in Protocols /\ p # "i2c"
    BY DEF OfSelect, Protocols
  <2> QED BY <2>1, AsCallsOf
<1>2. ASSUME p = "mw", IsBusy(c) PROVE c.todo \in Seq(HarmlessSteps(p))
  <2>1. << 32 >> \in Seq(Harmless(p)) /\ 32 \in Nat /\ 1 \in Nat
    BY <1>2, AsHarmlessBytes
  <2>2. AS!Send(<< 32 >>) \in HarmlessSteps(p) /\ AS!Expect(32) \in HarmlessSteps(p) /\ AS!Recv(1) \in HarmlessSteps(p)
    BY <2>1, AsHarmlessStep
  <2>3. c.todo = <<AS!Send(<< 32 >>), AS!Expect(32), AS!Recv(1)>>
    BY <1>2 DEF IsBusy
  <2> QED BY <2>2, <2>3
<1> QED BY <1>1, <1>2, AsHarmlessTransfer DEF IsBusCall

(* The pin of a board in a session of SPI or Microwire.                       *)
FSel(m, p) ==
    /\ IsFw(m)
    /\ \/ /\ m.pc \in {"loop", "header"} /\ (m.rst = BusyPin(p) => m.kept)
          /\ m.pc = "header" => m.cmd \in Harmless(p)
       \/ /\ m.pc \in {"data", "ack"} /\ m.cmd \in {WCmd(p), RCmd(p)}
          /\ m.pc = "data" => m.left \in Nat

LEMMA AsOwn ==
    ASSUME NEW p \in OfSelect
    PROVE  /\ p \in Protocols /\ p # "i2c"
           /\ p = "spi" => WCmd(p) = 11 /\ RCmd(p) = 10 /\ BusyPin(p) = "low"
           /\ p # "spi" => p = "mw" /\ WCmd(p) = 31 /\ RCmd(p) = 30 /\ BusyPin(p) = "high"
BY DEF OfSelect, Protocols, WCmd, RCmd, BusyPin

LEMMA AsDriven ==
    ASSUME NEW m, IsFw(m), NEW level
    PROVE  /\ IsFw(AS!Drive(m, level)) /\ AS!Drive(m, level).pc = m.pc /\ AS!Drive(m, level).cmd = m.cmd
           /\ AS!Drive(m, level).flag = m.flag /\ AS!Drive(m, level).kept = m.kept
           /\ m.rst = "input" => AS!Drive(m, level).rst = "input"
           /\ m.rst # "input" => AS!Drive(m, level).rst = level
<1> DEFINE x == Append(m.wire, <<level>>)
           q == [m EXCEPT !.rst = level, !.wire = x]
<1>1. AS!Drive(m, level) = IF m.rst = "input" \/ m.rst = level THEN m ELSE q
  BY DEF AS!Drive
<1> HIDE DEF x
<1>2. IsFw(q) /\ q.pc = m.pc /\ q.cmd = m.cmd /\ q.flag = m.flag /\ q.kept = m.kept /\ q.rst = level
  <2>0. q = [m EXCEPT !.rst = level, !.wire = x]
    OBVIOUS
  <2> HIDE DEF q
  <2>1. q = [pc |-> m.pc, cmd |-> m.cmd, flag |-> m.flag, left |-> m.left, bits |-> m.bits, rst |-> level,
             wire |-> x, cells |-> m.cells, kept |-> m.kept]
    BY <2>0 DEF IsFw
  <2>2. q.pc = m.pc /\ q.cmd = m.cmd /\ q.flag = m.flag /\ q.kept = m.kept /\ q.rst = level
    BY <2>1
  <2>3. IsFw(q)
    BY <2>1 DEF IsFw
  <2> QED BY <2>2, <2>3
<1> HIDE DEF q
<1> QED BY <1>1, <1>2

LEMMA AsEndsSelect ==
    ASSUME NEW p \in OfSelect, NEW m, IsFw(m), m.cmd \in {WCmd(p), RCmd(p)}
    PROVE  FSel(AS!Finished(m), p) /\ FSel(AS!Aborted(m), p)
<1> DEFINE kept == ~m.flag
<1>1. CASE p = "spi"
  <2> DEFINE h == "high"
             d == AS!Drive(m, h)
  <2>0. m.cmd \in {10, 11} /\ h # "input" /\ h # BusyPin(p) /\ "input" # BusyPin(p)
    BY <1>1, AsOwn
  <2>1. m.cmd \in AS!Spi /\ m.cmd \notin AS!I2c /\ m.cmd \notin AS!Mw /\ m.cmd # AS!FUNC_I2C_READ /\ m.cmd # AS!FUNC_I2C_WRITE
    BY <2>0, AsCodes DEF Codes, AS!Spi, AS!I2c, AS!Mw
  <2>2. AS!Finished(m) = [IF m.flag THEN d ELSE m EXCEPT !.pc = "loop", !.kept = kept]
    BY <2>1, Zenon DEF AS!Finished
  <2>3. AS!Aborted(m) = [d EXCEPT !.pc = "loop", !.left = 0, !.kept = FALSE]
    BY <2>1, Zenon DEF AS!Aborted, AS!Released
  <2> HIDE DEF h
  <2>4. IsFw(d) /\ (m.rst = "input" => d.rst = "input") /\ (m.rst # "input" => d.rst = h)
    BY AsDriven
  <2>5. d.rst # BusyPin(p)
    BY <2>0, <2>4
  <2> HIDE DEF d
  <2>6. FSel(AS!Finished(m), p)
    <3>1. CASE m.flag
      BY <2>2, <2>4, <2>5, <3>1 DEF FSel, IsFw
    <3>2. CASE ~m.flag
      BY <2>2, <3>2 DEF FSel, IsFw
    <3> QED BY <3>1, <3>2
  <2>7. FSel(AS!Aborted(m), p)
    BY <2>3, <2>4, <2>5 DEF FSel, IsFw
  <2> QED BY <2>6, <2>7
<1>2. CASE p # "spi"
  <2> DEFINE h == "low"
             d == AS!Drive(m, h)
             a == [m EXCEPT !.rst = "input"]
  <2>0. m.cmd \in {30, 31} /\ h # "input" /\ h # BusyPin(p) /\ "input" # BusyPin(p)
    BY <1>2, AsOwn
  <2>1. m.cmd \notin AS!Spi /\ m.cmd \notin AS!I2c /\ m.cmd \in AS!Mw /\ m.cmd # AS!FUNC_I2C_READ /\ m.cmd # AS!FUNC_I2C_WRITE
    BY <2>0, AsCodes DEF Codes, AS!Spi, AS!I2c, AS!Mw
  <2>2. AS!Finished(m) = [IF m.flag THEN d ELSE m EXCEPT !.pc = "loop", !.kept = kept]
    BY <2>1, Zenon DEF AS!Finished
  <2>3. AS!Aborted(m) = [a EXCEPT !.pc = "loop", !.left = 0, !.kept = FALSE]
    BY <2>1, Zenon DEF AS!Aborted, AS!Released
  <2> HIDE DEF h
  <2>4. IsFw(d) /\ (m.rst = "input" => d.rst = "input") /\ (m.rst # "input" => d.rst = h)
    BY AsDriven
  <2>5. d.rst # BusyPin(p)
    BY <2>0, <2>4
  <2>8. IsFw(a) /\ a.rst = "input"
    BY DEF IsFw
  <2> HIDE DEF d, a
  <2>6. FSel(AS!Finished(m), p)
    <3>1. CASE m.flag
      BY <2>2, <2>4, <2>5, <3>1 DEF FSel, IsFw
    <3>2. CASE ~m.flag
      BY <2>2, <3>2 DEF FSel, IsFw
    <3> QED BY <3>1, <3>2
  <2>7. FSel(AS!Aborted(m), p)
    BY <2>0, <2>3, <2>8 DEF FSel, IsFw
  <2> QED BY <2>6, <2>7
<1> QED BY <1>1, <1>2

LEMMA AsReadsSelect ==
    ASSUME NEW p \in OfSelect, NEW m, IsFw(m), m.cmd \in {WCmd(p), RCmd(p)}, NEW echo, AS!ReadFrom(m, echo)
    PROVE  FSel(fw', p)
<1>1. m.cmd # AS!FUNC_I2C_READ
  BY AsOwn, AsCodes DEF Codes
<1> DEFINE n == IF m.left >= rchunk THEN rchunk ELSE m.left
           x == m.wire \o [i \in 1 .. n |-> <<"in", [j \in 1 .. n |-> "-"][i]>>]
           y == m.cells + n
           z == m.left - n
<1>2. fw' = [[m EXCEPT !.wire = x, !.cells = y] EXCEPT !.left = z, !.pc = "ack"]
  <2>1. fw' = AS!NextBlock(m).fw
    BY Zenon DEF AS!ReadFrom
  <2> DEFINE read == AS!In(m, n, [j \in 1 .. n |-> "-"])
  <2>2. AS!NextBlock(m).fw = [read EXCEPT !.left = @ - n, !.pc = "ack"]
    BY <1>1 DEF AS!NextBlock
  <2>3. read = [m EXCEPT !.wire = x, !.cells = y]
    BY DEF AS!In
  <2>4. read.left = m.left
    <3> HIDE DEF x, y
    <3> QED BY <2>3 DEF IsFw
  <2> HIDE DEF read, n
  <2>5. fw' = [read EXCEPT !.left = z, !.pc = "ack"]
    BY <2>1, <2>2, <2>4
  <2> QED BY <2>3, <2>5
<1> HIDE DEF x, y, z
<1>3. IsFw(fw') /\ fw'.pc = "ack" /\ fw'.cmd = m.cmd
  BY <1>2 DEF IsFw
<1> QED BY <1>3 DEF FSel

LEMMA AsParsesSelect ==
    ASSUME NEW p \in OfSelect, FSel(fw, p), tx \in Seq(Harmless(p)), AS!ParseCommand
    PROVE  FSel(fw', p)
<1>1. IsFw(fw) /\ (fw.rst = BusyPin(p) => fw.kept)
  BY DEF FSel, AS!ParseCommand
<1>2. Head(tx) \in Harmless(p)
  BY DEF AS!ParseCommand
<1>3. BusyPin(p) # "input" /\ (p # "spi" => BusyPin(p) = "high")
  BY AsOwn DEF BusyPin
<1>4. \/ Head(tx) \in AS!Headed /\ fw' = [fw EXCEPT !.pc = "header", !.cmd = Head(tx)]
      \/ fw' = [fw EXCEPT !.rst = "input"] \/ fw' = fw
      \/ fw' = AS!Start(fw) \/ fw' = AS!Stop(fw)
      \/ Head(tx) = 33 /\ fw' = AS!PinsOut(fw, "low")
      \/ Head(tx) = 32 /\ fw' = AS!Drive(AS!Drive(fw, "high"), "low")
  BY AsCodes, Zenon DEF AS!ParseCommand, Codes
<1>5. fw.pc = "loop"
  BY DEF AS!ParseCommand
<1>6. CASE Head(tx) \in AS!Headed /\ fw' = [fw EXCEPT !.pc = "header", !.cmd = Head(tx)]
  BY <1>1, <1>2, <1>6 DEF FSel, IsFw
<1>7. CASE fw' = [fw EXCEPT !.rst = "input"]
  BY <1>1, <1>3, <1>5, <1>7 DEF FSel, IsFw
<1>8. CASE fw' = AS!Start(fw) \/ fw' = AS!Stop(fw)
  <2>1. PICK x : fw' = [fw EXCEPT !.wire = x]
    BY <1>8 DEF AS!Start, AS!Stop, AS!Out
  <2> QED BY <1>1, <1>5, <2>1 DEF FSel, IsFw
<1>9. CASE Head(tx) = 33 /\ fw' = AS!PinsOut(fw, "low")
  <2>1. p # "spi"
    BY <1>2, <1>9 DEF Harmless, Foreign
  <2>2. fw' = [fw EXCEPT !.rst = "low"] /\ BusyPin(p) # "low"
    BY <1>3, <1>9, <2>1 DEF AS!PinsOut
  <2> QED BY <1>1, <1>5, <2>2 DEF FSel, IsFw
<1>10. CASE Head(tx) = 32 /\ fw' = AS!Drive(AS!Drive(fw, "high"), "low")
  <2>1. p # "spi"
    BY <1>2, <1>10 DEF Harmless, Foreign
  <2> DEFINE a == "high"
             b == "low"
             d == AS!Drive(fw, a)
  <2>2. BusyPin(p) # b /\ BusyPin(p) # "input" /\ fw' = AS!Drive(d, b)
    BY <1>3, <1>10, <2>1
  <2> HIDE DEF a, b
  <2>3. IsFw(d) /\ d.pc = "loop"
    BY <1>1, <1>5, AsDriven
  <2> HIDE DEF d
  <2>4. IsFw(AS!Drive(d, b)) /\ AS!Drive(d, b).pc = "loop" /\ AS!Drive(d, b).rst # BusyPin(p)
    BY <2>2, <2>3, AsDriven
  <2> QED BY <2>2, <2>4 DEF FSel
<1> QED BY <1>1, <1>4, <1>5, <1>6, <1>7, <1>8, <1>9, <1>10

LEMMA AsFwPc ==
    ASSUME NEW m, IsFw(m), NEW x, NEW q, q = [m EXCEPT !.pc = x]
    PROVE  IsFw(q) /\ q.pc = x /\ q.cmd = m.cmd /\ q.left = m.left /\ q.rst = m.rst /\ q.kept = m.kept
BY DEF IsFw

LEMMA AsFwRst ==
    ASSUME NEW m, IsFw(m), NEW x, NEW q, q = [m EXCEPT !.rst = x]
    PROVE  IsFw(q) /\ q.pc = m.pc /\ q.cmd = m.cmd /\ q.left = m.left /\ q.rst = x /\ q.kept = m.kept
BY DEF IsFw

LEMMA AsFwOut ==
    ASSUME NEW m, IsFw(m), NEW x, NEW q, q = [m EXCEPT !.wire = x]
    PROVE  IsFw(q) /\ q.pc = m.pc /\ q.cmd = m.cmd /\ q.left = m.left /\ q.rst = m.rst /\ q.kept = m.kept
BY DEF IsFw

LEMMA AsFwBits ==
    ASSUME NEW m, IsFw(m), NEW x, NEW q, q = [m EXCEPT !.bits = x]
    PROVE  IsFw(q) /\ q.pc = m.pc /\ q.cmd = m.cmd /\ q.left = m.left
BY DEF IsFw

LEMMA AsFwRemains ==
    ASSUME NEW m, IsFw(m), NEW x, NEW q, q = [m EXCEPT !.left = x]
    PROVE  IsFw(q) /\ q.pc = m.pc /\ q.cmd = m.cmd /\ q.left = x
<1>1. q = [pc |-> m.pc, cmd |-> m.cmd, flag |-> m.flag, left |-> x, bits |-> m.bits, rst |-> m.rst,
           wire |-> m.wire, cells |-> m.cells, kept |-> m.kept]
  BY DEF IsFw
<1> QED BY ONLY <1>1 DEF IsFw

LEMMA AsRest ==
    ASSUME NEW p \in OfSelect, tx \in Seq(Harmless(p)), NEW n \in Nat
    PROVE  /\ SubSeq(tx, n + 1, Len(tx)) \in Seq(Harmless(p)) /\ tx \in Seq(Nat)
           /\ (tx # << >> => Tail(tx) \in Seq(Harmless(p)))
BY DEF Harmless

LEMMA AsHeadsSelect ==
    ASSUME NEW p \in OfSelect, FSel(fw, p), tx \in Seq(Harmless(p)), AS!Header
    PROVE  FSel(fw', p) /\ tx' \in Seq(Harmless(p))
<1> DEFINE n == AS!HeaderSize(fw.cmd)
           h == SubSeq(tx, 1, n)
           flag == h[1] # 0
           left == IF n > 1 THEN h[n - 1] * 256 + h[n] ELSE 0
           m == [fw EXCEPT !.pc = "loop", !.flag = flag, !.left = left]
<1>1. IsFw(fw) /\ (fw.rst = BusyPin(p) => fw.kept) /\ fw.cmd \in Harmless(p) /\ tx \in Seq(Nat)
  BY DEF FSel, AS!Header, Harmless
<1>2. /\ tx' = SubSeq(tx, n + 1, Len(tx)) /\ Len(tx) >= n
      /\ \/ fw.cmd = 7 /\ fw' = AS!PinsOut(m, IF m.rst = "input" THEN "high" ELSE m.rst)
         \/ fw.cmd = 10 /\ AS!ReadFrom(AS!Drive(m, "low"), <<fw.cmd>>)
         \/ fw.cmd = 30 /\ AS!ReadFrom(m, <<fw.cmd>>)
         \/ fw.cmd = 21
         \/ fw.cmd = 11 /\ fw' = [AS!Drive(m, "low") EXCEPT !.pc = "data"]
         \/ fw.cmd = 22
         \/ fw.cmd = 31 /\ fw' = [AS!Drive(m, "high") EXCEPT !.pc = "data", !.bits = h[2]]
         \/ fw.cmd = 26 /\ fw' = AS!Out(m, <<<<"out", h[1]>>>>)
         \/ fw.cmd = 25 /\ fw' = AS!In(m, 1, <<IF h[1] = 0 THEN "ack" ELSE "nack">>)
  BY AsCodes, Zenon DEF AS!Header, AS!Received, Codes
<1>3. fw.cmd # 21 /\ fw.cmd # 22 /\ (p # "spi" => fw.cmd \notin {7, 10, 11}) /\ (p = "spi" => fw.cmd \notin {30, 31})
  BY <1>1 DEF Harmless, Foreign
<1>4. n \in {1, 3, 4} /\ (fw.cmd \in {11, 31} => n > 1)
  BY <1>2, <1>3, AsHeaderSizes
<1>5. fw.cmd \in {11, 31} => left \in Nat
  <2>1. n > 1 => h \in Seq(Nat) /\ Len(h) = n
    <3>1. tx \in Seq(Nat) /\ Len(tx) >= n /\ n \in {1, 3, 4}
      BY <1>1, <1>2, <1>4
    <3>2. h = SubSeq(tx, 1, n)
      OBVIOUS
    <3> HIDE DEF n, h, flag, left, m
    <3>3. n \in 0 .. Len(tx)
      BY ONLY <3>1
    <3> QED BY ONLY <3>1, <3>2, <3>3
  <2> HIDE DEF n, h
  <2>2. n > 1 => h[n - 1] \in Nat /\ h[n] \in Nat
    BY <1>4, <2>1
  <2> QED BY <1>4, <2>2
<1>6. tx' \in Seq(Harmless(p))
  <2>1. n \in Nat
    BY <1>4
  <2> QED BY <1>2, <2>1, AsRest
<1> SUFFICES FSel(fw', p)
  BY <1>6
<1>0. PICK v : v = fw'
  OBVIOUS
<1> HIDE DEF n, h, flag, left
<1>7. m = [fw EXCEPT !.pc = "loop", !.flag = flag, !.left = left]
  OBVIOUS
<1> HIDE DEF m
<1>8. IsFw(m) /\ m.pc = "loop" /\ m.cmd = fw.cmd /\ m.rst = fw.rst /\ m.kept = fw.kept /\ m.left = left
  BY ONLY <1>1, <1>7 DEF IsFw
<1>9. ASSUME NEW level
      PROVE  /\ IsFw(AS!Drive(m, level)) /\ AS!Drive(m, level).cmd = fw.cmd
             /\ AS!Drive(m, level).left = left
  <2>1. AS!Drive(m, level).left = m.left
    <3>1. AS!Drive(m, level) = m \/ \E x : AS!Drive(m, level) = [m EXCEPT !.rst = level, !.wire = x]
      BY Zenon DEF AS!Drive
    <3>2. ASSUME NEW x PROVE [m EXCEPT !.rst = level, !.wire = x].left = m.left
      BY ONLY <1>8 DEF IsFw
    <3> QED BY <3>1, <3>2
  <2> QED BY <1>8, <2>1, AsDriven
<1>10. CASE fw.cmd = 7 /\ fw' = AS!PinsOut(m, IF m.rst = "input" THEN "high" ELSE m.rst)
  <2>1. PICK level : (level # BusyPin(p) \/ level = m.rst) /\ fw' = [m EXCEPT !.rst = level]
    <3> DEFINE level == IF m.rst = "input" THEN "high" ELSE m.rst
    <3>1. p = "spi"
      BY <1>3, <1>10
    <3>2. BusyPin(p) = "low"
      BY <3>1, AsOwn
    <3>3. level # BusyPin(p) \/ level = m.rst
      BY <3>2
    <3>4. fw' = [m EXCEPT !.rst = level]
      BY <1>10 DEF AS!PinsOut
    <3> QED BY <3>3, <3>4
  <2>3. v = [m EXCEPT !.rst = level]
    BY <1>0, <2>1
  <2>4. IsFw(v) /\ v.pc = m.pc /\ v.rst = level /\ v.kept = m.kept
    BY ONLY <1>8, <2>3, AsFwRst
  <2>2. IsFw(v) /\ v.pc = "loop" /\ v.rst = level /\ v.kept = fw.kept
    BY <1>8, <2>4
  <2> QED BY <1>0, <1>1, <1>8, <2>1, <2>2 DEF FSel
<1>11. CASE fw.cmd = 10 /\ AS!ReadFrom(AS!Drive(m, "low"), <<fw.cmd>>)
  <2> DEFINE level == "low"
             d == AS!Drive(m, level)
             echo == <<fw.cmd>>
  <2>1. d.cmd = RCmd(p) /\ IsFw(d)
    BY <1>3, <1>9, <1>11, AsOwn
  <2>2. AS!ReadFrom(d, echo)
    BY <1>11
  <2> HIDE DEF d, echo
  <2>3. d.cmd \in {WCmd(p), RCmd(p)}
    BY <2>1
  <2> QED BY ONLY <2>1, <2>2, <2>3, AsReadsSelect, p \in OfSelect
<1>12. CASE fw.cmd = 30 /\ AS!ReadFrom(m, <<fw.cmd>>)
  <2> DEFINE echo == <<fw.cmd>>
  <2>1. m.cmd = RCmd(p)
    BY <1>3, <1>8, <1>12, AsOwn
  <2>2. AS!ReadFrom(m, echo)
    BY <1>12
  <2> HIDE DEF echo
  <2>3. m.cmd \in {WCmd(p), RCmd(p)}
    BY <2>1
  <2> QED BY ONLY <1>8, <2>2, <2>3, AsReadsSelect, p \in OfSelect
<1>13. CASE fw.cmd = 11 /\ fw' = [AS!Drive(m, "low") EXCEPT !.pc = "data"]
  <2> DEFINE level == "low"
             d == AS!Drive(m, level)
  <2>1. d.cmd = WCmd(p) /\ IsFw(d) /\ d.left \in Nat
    BY <1>3, <1>5, <1>9, <1>13, AsOwn
  <2>2. fw' = [d EXCEPT !.pc = "data"]
    BY <1>13
  <2> HIDE DEF d
  <2>4. v = [d EXCEPT !.pc = "data"]
    BY <1>0, <2>2
  <2>3. IsFw(v) /\ v.pc = "data" /\ v.cmd = d.cmd /\ v.left = d.left
    BY ONLY <2>1, <2>4, AsFwPc
  <2> QED BY <1>0, <2>1, <2>3 DEF FSel
<1>14. CASE fw.cmd = 31 /\ fw' = [AS!Drive(m, "high") EXCEPT !.pc = "data", !.bits = h[2]]
  <2> DEFINE level == "high"
             d == AS!Drive(m, level)
             bits == h[2]
  <2>1. d.cmd = WCmd(p) /\ IsFw(d) /\ d.left \in Nat
    BY <1>3, <1>5, <1>9, <1>14, AsOwn
  <2>2. fw' = [d EXCEPT !.pc = "data", !.bits = bits]
    BY <1>14
  <2> HIDE DEF d, bits
  <2>4. v = [d EXCEPT !.pc = "data", !.bits = bits]
    BY <1>0, <2>2
  <2>3. IsFw(v) /\ v.pc = "data" /\ v.cmd = d.cmd /\ v.left = d.left
    <3>1. v = [pc |-> "data", cmd |-> d.cmd, flag |-> d.flag, left |-> d.left, bits |-> bits, rst |-> d.rst,
               wire |-> d.wire, cells |-> d.cells, kept |-> d.kept]
      BY ONLY <2>1, <2>4 DEF IsFw
    <3> QED BY ONLY <3>1 DEF IsFw
  <2> QED BY <1>0, <2>1, <2>3 DEF FSel
<1>15. CASE fw.cmd = 26 /\ fw' = AS!Out(m, <<<<"out", h[1]>>>>)
  <2>1. PICK x : fw' = [m EXCEPT !.wire = x]
    BY <1>15 DEF AS!Out
  <2>3. v = [m EXCEPT !.wire = x]
    BY <1>0, <2>1
  <2>4. IsFw(v) /\ v.pc = m.pc /\ v.rst = m.rst /\ v.kept = m.kept
    BY ONLY <1>8, <2>3, AsFwOut
  <2>2. IsFw(v) /\ v.pc = "loop" /\ v.rst = fw.rst /\ v.kept = fw.kept
    BY <1>8, <2>4
  <2> QED BY <1>0, <1>1, <2>2 DEF FSel
<1>16. CASE fw.cmd = 25 /\ fw' = AS!In(m, 1, <<IF h[1] = 0 THEN "ack" ELSE "nack">>)
  <2>1. PICK x, y : fw' = [m EXCEPT !.wire = x, !.cells = y]
    BY <1>16 DEF AS!In
  <2>3. v = [m EXCEPT !.wire = x, !.cells = y]
    BY <1>0, <2>1
  <2>4. IsFw(v) /\ v.pc = m.pc /\ v.rst = m.rst /\ v.kept = m.kept
    <3>1. v = [pc |-> m.pc, cmd |-> m.cmd, flag |-> m.flag, left |-> m.left, bits |-> m.bits, rst |-> m.rst,
               wire |-> x, cells |-> y, kept |-> m.kept]
      BY ONLY <1>8, <2>3 DEF IsFw
    <3> QED BY ONLY <3>1 DEF IsFw
  <2>2. IsFw(v) /\ v.pc = "loop" /\ v.rst = fw.rst /\ v.kept = fw.kept
    BY <1>8, <2>4
  <2> QED BY <1>0, <1>1, <2>2 DEF FSel
<1>17. \/ fw.cmd = 7 /\ fw' = AS!PinsOut(m, IF m.rst = "input" THEN "high" ELSE m.rst)
       \/ fw.cmd = 10 /\ AS!ReadFrom(AS!Drive(m, "low"), <<fw.cmd>>)
       \/ fw.cmd = 30 /\ AS!ReadFrom(m, <<fw.cmd>>)
       \/ fw.cmd = 11 /\ fw' = [AS!Drive(m, "low") EXCEPT !.pc = "data"]
       \/ fw.cmd = 31 /\ fw' = [AS!Drive(m, "high") EXCEPT !.pc = "data", !.bits = h[2]]
       \/ fw.cmd = 26 /\ fw' = AS!Out(m, <<<<"out", h[1]>>>>)
       \/ fw.cmd = 25 /\ fw' = AS!In(m, 1, <<IF h[1] = 0 THEN "ack" ELSE "nack">>)
  BY <1>2, <1>3, Zenon
<1> QED BY <1>10, <1>11, <1>12, <1>13, <1>14, <1>15, <1>16, <1>17, Zenon

LEMMA AsWritesSelect ==
    ASSUME NEW p \in OfSelect, FSel(fw, p), tx \in Seq(Harmless(p)), AS!WriteBlock
    PROVE  FSel(fw', p) /\ tx' \in Seq(Harmless(p))
<1> DEFINE n == AS!BlockSize
           k == AS!Min({n, Len(tx)})
           b == SubSeq(tx, 1, k) \o [i \in 1 .. n - k |-> AS!Stale]
           m == AS!ClockedOut(fw, b, n)
           rest == [m EXCEPT !.left = @ - k]
<1>1. IsFw(fw) /\ fw.pc = "data" /\ fw.cmd \in {WCmd(p), RCmd(p)} /\ fw.left \in Nat /\ Len(tx) \in Nat
  BY DEF FSel, AS!WriteBlock
<1>2. n \in Nat /\ n <= fw.left
  BY <1>1, AsConst DEF AS!BlockSize
<1>3. k \in Nat /\ k <= n
  <2> HIDE DEF n
  <2> QED BY <1>1, <1>2, AsMin
<1>4. /\ tx' = SubSeq(tx, k + 1, Len(tx))
      /\ fw' \in {AS!Aborted(m), rest, AS!Finished(rest)}
  <2>1. /\ tx' = SubSeq(tx, k + 1, Len(tx))
        /\ IF k = 0 THEN fw' = AS!Aborted(m) /\ UNCHANGED rx
           ELSE /\ fw' = IF rest.left > 0 THEN rest ELSE AS!Finished(rest)
                /\ AS!Answer(<<AS!ACK>>)
    BY Zenon DEF AS!WriteBlock
  <2> HIDE DEF n, k, b, m, rest
  <2>2. fw' = AS!Aborted(m) \/ fw' = rest \/ fw' = AS!Finished(rest)
    BY <2>1
  <2> QED BY <2>1, <2>2
<1> HIDE DEF n, k, b
<1>5. (\E x : m = [fw EXCEPT !.wire = x]) \/ (\E x, y : m = [[fw EXCEPT !.wire = x] EXCEPT !.bits = y])
  <2>1. CASE p = "spi"
    <3>1. fw.cmd \in AS!Spi
      BY <1>1, <2>1, AsOwn, AsCodes DEF Codes, AS!Spi
    <3>2. m = AS!Out(fw, [i \in 1 .. n |-> <<"out", b[i]>>])
      <4>1. fw.cmd \notin AS!I2c /\ fw.cmd \notin AS!Mw
        BY <1>1, <2>1, AsOwn, AsCodes DEF Codes, AS!I2c, AS!Mw
      <4> QED BY <3>1, <4>1, Zenon DEF AS!ClockedOut
    <3> QED BY <3>2 DEF AS!Out
  <2>2. CASE p # "spi"
    <3>1. fw.cmd \in AS!Mw /\ fw.cmd \notin AS!I2c /\ fw.cmd \notin AS!Spi
      BY <1>1, <2>2, AsOwn, AsCodes DEF Codes, AS!Spi, AS!I2c, AS!Mw
    <3> DEFINE o == AS!Out(fw, AS!BitsOf(b, n))
    <3>2. m = [o EXCEPT !.bits = IF 8 * n > @ THEN 0 ELSE @ - 8 * n]
      BY <3>1, Zenon DEF AS!ClockedOut
    <3>3. \E x : o = [fw EXCEPT !.wire = x]
      BY DEF AS!Out
    <3> HIDE DEF o
    <3>4. \E y : m = [o EXCEPT !.bits = y]
      BY <3>2
    <3> QED BY <3>3, <3>4
  <2> QED BY <2>1, <2>2
<1> HIDE DEF m
<1>6. IsFw(m) /\ m.pc = "data" /\ m.cmd = fw.cmd /\ m.left = fw.left
  <2>0. PICK g : g = fw
    OBVIOUS
  <2>1. CASE \E x : m = [fw EXCEPT !.wire = x]
    <3>1. PICK x : m = [g EXCEPT !.wire = x]
      BY <2>0, <2>1
    <3>2. PICK v : v = m
      OBVIOUS
    <3> HIDE DEF m
    <3>4. v = [g EXCEPT !.wire = x] /\ IsFw(g)
      BY <1>1, <2>0, <3>1, <3>2
    <3>3. IsFw(v) /\ v.pc = g.pc /\ v.cmd = g.cmd /\ v.left = g.left
      BY ONLY <3>4, AsFwOut
    <3> QED BY <1>1, <2>0, <3>2, <3>3
  <2>2. CASE \E x, y : m = [[fw EXCEPT !.wire = x] EXCEPT !.bits = y]
    <3>1. PICK x, y : m = [[g EXCEPT !.wire = x] EXCEPT !.bits = y]
      BY <2>0, <2>2
    <3> DEFINE o == [g EXCEPT !.wire = x]
    <3>6. o = [g EXCEPT !.wire = x] /\ IsFw(g)
      BY <1>1, <2>0
    <3>2. IsFw(o) /\ o.pc = g.pc /\ o.cmd = g.cmd /\ o.left = g.left
      BY ONLY <3>6, AsFwOut
    <3>3. PICK v : v = m
      OBVIOUS
    <3>4. v = [o EXCEPT !.bits = y]
      BY <3>1, <3>3
    <3> HIDE DEF o
    <3>5. IsFw(v) /\ v.pc = o.pc /\ v.cmd = o.cmd /\ v.left = o.left
      BY ONLY <3>2, <3>4, AsFwBits
    <3> QED BY <1>1, <2>0, <3>2, <3>3, <3>5
  <2> QED BY <1>5, <2>1, <2>2
<1>7. fw.left - k \in Nat
  BY <1>1, <1>2, <1>3
<1>8. IsFw(rest) /\ rest.pc = "data" /\ rest.cmd = fw.cmd /\ rest.left \in Nat
  <2> DEFINE left == m.left - k
  <2>1. left \in Nat
    BY <1>6, <1>7
  <2>2. rest = [m EXCEPT !.left = left]
    BY <1>6
  <2> HIDE DEF rest, left
  <2>3. PICK v, u : v = rest /\ u = m
    OBVIOUS
  <2>5. v = [u EXCEPT !.left = left] /\ IsFw(u)
    BY <1>6, <2>2, <2>3
  <2>4. IsFw(v) /\ v.pc = u.pc /\ v.cmd = u.cmd /\ v.left = left
    BY ONLY <2>5, AsFwRemains
  <2> QED BY <1>6, <2>1, <2>3, <2>4
<1> HIDE DEF rest
<1>9. FSel(AS!Aborted(m), p) /\ FSel(AS!Finished(rest), p)
  BY <1>1, <1>6, <1>8, AsEndsSelect
<1>10. FSel(rest, p)
  BY <1>1, <1>8 DEF FSel
<1>11. FSel(fw', p)
  <2>1. fw' = AS!Aborted(m) \/ fw' = rest \/ fw' = AS!Finished(rest)
    BY <1>4
  <2> QED BY <1>9, <1>10, <2>1
<1> QED BY <1>3, <1>4, <1>11, AsRest

LEMMA AsFirmwareSelect ==
    ASSUME NEW p \in OfSelect, FSel(fw, p), tx \in Seq(Harmless(p)), AS!Firmware
    PROVE  FSel(fw', p) /\ tx' \in Seq(Harmless(p))
<1>1. CASE AS!ParseCommand
  <2>1. tx' = Tail(tx) /\ tx # << >>
    BY <1>1 DEF AS!ParseCommand
  <2>2. 0 \in Nat
    OBVIOUS
  <2> QED BY <1>1, <2>1, <2>2, AsParsesSelect, AsRest
<1>2. CASE AS!Header
  BY <1>2, AsHeadsSelect
<1>3. CASE AS!HeaderShort
  <2>1. fw' = [fw EXCEPT !.pc = "loop"] /\ tx' = << >> /\ fw.pc = "header"
    BY <1>3 DEF AS!HeaderShort
  <2> QED BY <2>1 DEF FSel, IsFw
<1>4. CASE AS!AckedBlock
  <2>1. IsFw(fw) /\ fw.cmd \in {WCmd(p), RCmd(p)}
    BY <1>4 DEF FSel, AS!AckedBlock
  <2>2. tx' = Tail(tx) /\ tx # << >>
    BY <1>4 DEF AS!AckedBlock, AS!Received
  <2>3. AS!ReadFrom(fw, << >>) \/ fw' = AS!Finished(fw)
    BY <1>4 DEF AS!AckedBlock
  <2>4. FSel(fw', p)
    BY <2>1, <2>3, AsReadsSelect, AsEndsSelect
  <2>5. 0 \in Nat
    OBVIOUS
  <2> QED BY <2>2, <2>4, <2>5, AsRest
<1>5. CASE AS!UnackedBlock
  <2>1. IsFw(fw) /\ fw.cmd \in {WCmd(p), RCmd(p)}
    BY <1>5 DEF FSel, AS!UnackedBlock
  <2>2. tx' = (IF tx = << >> THEN tx ELSE Tail(tx)) /\ fw' = AS!Aborted(fw)
    BY <1>5 DEF AS!UnackedBlock
  <2>3. 0 \in Nat
    OBVIOUS
  <2> QED BY <2>1, <2>2, <2>3, AsEndsSelect, AsRest
<1>6. CASE AS!WriteBlock
  BY <1>6, AsWritesSelect
<1> QED BY <1>1, <1>2, <1>3, <1>4, <1>5, <1>6 DEF AS!Firmware

InSelect(p) ==
    /\ p \in Modes /\ tx \in Seq(Harmless(p)) /\ host.todo \in Seq(HarmlessSteps(p)) /\ FSel(fw, p)
SelInv ==
    /\ IsShaped(host)
    /\ \A p \in OfSelect : host.mode = p => InSelect(p)

LEMMA AsPair ==
    ASSUME NEW S, NEW a \in S, NEW b \in S
    PROVE  <<a, b>> \in Seq(S) /\ << >> \in Seq(S)
OBVIOUS

LEMMA AsSelectOpen ==
    ASSUME IsShaped(host), AS!DevOpen, AS!ASProgAssumption, NEW p \in OfSelect, host'.mode = p
    PROVE  InSelect(p)'
<1> PICK q \in Protocols :
        /\ q \in Modes /\ host'.mode = q /\ host'.dirty = 0 /\ host'.ok = TRUE
        /\ host'.call = AS!Call("init", AS!InitCall(q), << >>, 0) /\ host'.todo = host'.call.todo
        /\ host'.call.todo = <<AS!Send(InitBytes(q)), AS!Expect(InitCode(q))>>
        /\ host'.call.todo \in Seq(HostSteps) /\ host'.call.k = "init"
  BY AsShapeOpen
<1>1. fw' = AS!Board /\ tx' = << >>
  BY AsShapeOpen
<1>2. q = p /\ p # "i2c"
  BY AsOwn
<1>3. host'.todo \in Seq(HarmlessSteps(p))
  <2>1. InitBytes(p) \in Seq(Harmless(p))
    <3>1. InitCode(p) \in Harmless(p) /\ 0 \in Harmless(p)
      BY AsHarmlessBytes
    <3>2. <<InitCode(p)>> \in Seq(Harmless(p)) /\ <<InitCode(p), 0>> \in Seq(Harmless(p))
      BY <3>1
    <3>3. p = "spi" => InitCode(p) = 7
      BY DEF InitCode
    <3> QED BY <3>2, <3>3 DEF InitBytes
  <2>2. InitCode(p) \in Nat /\ 0 \in Nat
    BY DEF InitCode
  <2>3. AS!Send(InitBytes(p)) \in HarmlessSteps(p) /\ AS!Expect(InitCode(p)) \in HarmlessSteps(p)
    BY <2>1, <2>2, AsHarmlessStep
  <2> DEFINE a == AS!Send(InitBytes(p))
             b == AS!Expect(InitCode(p))
  <2>4. host'.todo = <<a, b>>
    BY <1>2
  <2>5. a \in HarmlessSteps(p) /\ b \in HarmlessSteps(p)
    BY <2>3
  <2> HIDE DEF a, b
  <2>6. <<a, b>> \in Seq(HarmlessSteps(p))
    BY <2>5, AsPair, Zenon
  <2> QED BY <2>4, <2>6, Zenon
<1>4. FSel(fw', p)
  <2>1. AS!Board.pc = "loop" /\ AS!Board.rst = "input" /\ IsFw(AS!Board)
    BY DEF AS!Board, IsFw
  <2>2. BusyPin(p) # "input"
    BY AsOwn
  <2> QED BY <1>1, <2>1, <2>2 DEF FSel
<1>5. tx' \in Seq(Harmless(p))
  BY <1>1
<1> QED BY <1>2, <1>3, <1>4, <1>5 DEF InSelect

LEMMA AsSelectBegin ==
    ASSUME LengthsAreNoCodes, IsShaped(host), AS!Begin, NEW p \in OfSelect, host.mode = p, InSelect(p)
    PROVE  InSelect(p)'
<1>1. PICK c \in AS!CallsOf(p) :
        host' = [AS!Calling(c) EXCEPT !.dirty = IF @ = 0 THEN 0 ELSE @ + 1]
  BY DEF AS!Begin
<1>2. c.todo \in Seq(HarmlessSteps(p))
  BY AsHarmlessCall DEF InSelect
<1>3. host'.todo = c.todo
  BY <1>1 DEF AS!Calling, IsShaped, IsHost
<1>4. fw' = [fw EXCEPT !.wire = << >>, !.cells = 0] /\ tx' = tx /\ IsFw(fw)
  BY DEF AS!Begin, InSelect, FSel
<1>5. PICK v : v = fw'
  OBVIOUS
<1>6. v = [pc |-> fw.pc, cmd |-> fw.cmd, flag |-> fw.flag, left |-> fw.left, bits |-> fw.bits, rst |-> fw.rst,
           wire |-> << >>, cells |-> 0, kept |-> fw.kept]
  BY <1>4, <1>5 DEF IsFw
<1>7. IsFw(v) /\ v.pc = fw.pc /\ v.cmd = fw.cmd /\ v.left = fw.left /\ v.rst = fw.rst /\ v.kept = fw.kept
  BY ONLY <1>6 DEF IsFw
<1>8. FSel(fw', p)
  BY <1>5, <1>7 DEF InSelect, FSel
<1> QED BY <1>2, <1>3, <1>4, <1>8 DEF InSelect

LEMMA AsSelectDeinit ==
    ASSUME IsShaped(host), AS!Deinit, NEW p \in OfSelect, host.mode = p, InSelect(p)
    PROVE  InSelect(p)'
<1>1. host' = AS!Calling(AS!Call("deinit", AS!DeinitCall(p), << >>, 0)) /\ fw' = fw /\ tx' = tx
  BY DEF AS!Deinit
<1>2. host'.todo = AS!DeinitCall(p)
  BY <1>1 DEF AS!Calling, AS!Call, IsShaped, IsHost
<1>3. AS!DeinitCall(p) \in Seq(HarmlessSteps(p))
  <2>1. << 8 >> \in Seq(Harmless(p)) /\ << 34 >> \in Seq(Harmless(p)) /\ 8 \in Nat /\ 34 \in Nat
    BY AsHarmlessBytes
  <2>2. /\ AS!Send(<< 8 >>) \in HarmlessSteps(p) /\ AS!Send(<< 34 >>) \in HarmlessSteps(p)
        /\ AS!Expect(8) \in HarmlessSteps(p) /\ AS!Expect(34) \in HarmlessSteps(p)
    BY <2>1, AsHarmlessStep
  <2>3. AS!DeinitCall(p) = <<AS!Send(<< 8 >>), AS!Expect(8)>> \/ AS!DeinitCall(p) = <<AS!Send(<< 34 >>), AS!Expect(34)>>
    BY AsCodes DEF AS!DeinitCall, Codes, OfSelect
  <2>4. <<AS!Send(<< 8 >>), AS!Expect(8)>> \in Seq(HarmlessSteps(p))
    BY <2>2, AsPair, Zenon
  <2>5. <<AS!Send(<< 34 >>), AS!Expect(34)>> \in Seq(HarmlessSteps(p))
    BY <2>2, AsPair, Zenon
  <2> QED BY <2>3, <2>4, <2>5, Zenon
<1> QED BY <1>1, <1>2, <1>3 DEF InSelect

LEMMA AsSelectNow ==
    ASSUME IsShaped(host), NEW p \in OfSelect, InSelect(p), ~AS!Idle
    PROVE  /\ Tail(host.todo) \in Seq(HarmlessSteps(p))
           /\ AS!Now.s = "send" => AS!Now.d \in Seq(Harmless(p)) /\ AS!Now.d \in Seq(Nat)
<1>1. host.todo # << >> /\ host.todo \in Seq(HarmlessSteps(p))
  BY DEF InSelect, AS!Idle
<1> DEFINE S == HarmlessSteps(p)
           t == host.todo
<1>2. t # << >> /\ t \in Seq(S)
  BY <1>1
<1> HIDE DEF S, t
<1>3. Head(t) \in S /\ Tail(t) \in Seq(S)
  BY <1>2
<1>4. AS!Now \in HarmlessSteps(p)
  BY <1>3 DEF AS!Now, S, t
<1>5. AS!Now.s = "send" => AS!Now.d \in Seq(Harmless(p)) /\ AS!Now.d \in Seq(Nat)
  BY <1>4 DEF HarmlessSteps, HostSteps
<1> QED BY <1>3, <1>5 DEF S, t

LEMMA AsSelectSend ==
    ASSUME IsShaped(host), AS!SendBuffer, NEW p \in OfSelect, InSelect(p)
    PROVE  InSelect(p)'
<1>1. host' = [host EXCEPT !.todo = Tail(@), !.stalled = FALSE] /\ tx' = tx \o AS!Now.d /\ fw' = fw
      /\ ~AS!Idle /\ AS!Now.s = "send"
  BY DEF AS!SendBuffer, AS!Doing, AS!Advance
<1>2. host'.todo = Tail(host.todo)
  BY <1>1 DEF IsShaped, IsHost
<1>3. Tail(host.todo) \in Seq(HarmlessSteps(p)) /\ AS!Now.d \in Seq(Harmless(p))
  BY <1>1, AsSelectNow
<1>4. tx' \in Seq(Harmless(p))
  BY <1>1, <1>3 DEF InSelect
<1> QED BY <1>1, <1>2, <1>3, <1>4 DEF InSelect

LEMMA AsSelectStall ==
    ASSUME IsShaped(host), AS!Stall, NEW p \in OfSelect, InSelect(p)
    PROVE  InSelect(p)'
<1>1. ~AS!Idle /\ AS!Now.s = "send" /\ fw' = fw
  BY DEF AS!Stall, AS!Doing
<1>2. Tail(host.todo) \in Seq(HarmlessSteps(p)) /\ AS!Now.d \in Seq(Harmless(p)) /\ AS!Now.d \in Seq(Nat)
  BY <1>1, AsSelectNow
<1> DEFINE dirty == AS!Max({host.dirty, 1})
<1> PICK n \in 0 .. Len(AS!Now.d) - 1 :
        /\ tx' = tx \o SubSeq(AS!Now.d, 1, n)
        /\ host' = [host EXCEPT !.stalled = TRUE, !.stalls = @ + 1, !.dirty = AS!Max({@, 1}),
                             !.todo = <<AS!Send(SubSeq(AS!Now.d, n + 1, Len(AS!Now.d)))>> \o Tail(@)]
  BY DEF AS!Stall
<1> DEFINE e == AS!Send(SubSeq(AS!Now.d, n + 1, Len(AS!Now.d)))
           t == Tail(host.todo)
           todo == <<e>> \o t
           stalls == host.stalls + 1
<1>3. tx' \in Seq(Harmless(p)) /\ SubSeq(AS!Now.d, n + 1, Len(AS!Now.d)) \in Seq(Harmless(p))
  <2> DEFINE d == AS!Now.d
             H == Harmless(p)
  <2>1. d \in Seq(H) /\ tx \in Seq(H) /\ n \in 0 .. Len(d) - 1 /\ Len(d) \in Nat /\ tx' = tx \o SubSeq(d, 1, n)
    BY <1>2 DEF InSelect
  <2> HIDE DEF d, H
  <2>2. SubSeq(d, 1, n) \in Seq(H) /\ SubSeq(d, n + 1, Len(d)) \in Seq(H)
    BY <2>1
  <2>3. tx \o SubSeq(d, 1, n) \in Seq(H)
    BY <2>1, <2>2
  <2> QED BY <2>1, <2>2, <2>3 DEF d, H
<1>4. e \in HarmlessSteps(p)
  <2>1. 0 \in Nat
    OBVIOUS
  <2> QED BY <1>3, <2>1, AsHarmlessStep
<1>5. host' = [host EXCEPT !.stalled = TRUE, !.stalls = stalls, !.dirty = dirty, !.todo = todo]
  OBVIOUS
<1> HIDE DEF e, dirty, stalls, t
<1>6. todo \in Seq(HarmlessSteps(p))
  BY <1>2, <1>4 DEF t
<1> HIDE DEF todo
<1>7. host'.todo = todo
  BY <1>5 DEF IsShaped, IsHost
<1> QED BY <1>1, <1>3, <1>6, <1>7 DEF InSelect

LEMMA AsSelectReceives ==
    ASSUME IsShaped(host), AS!RecvByte \/ AS!RecvBufferEx, NEW p \in OfSelect, InSelect(p)
    PROVE  InSelect(p)'
<1>1. ~AS!Idle /\ fw' = fw /\ tx' = tx
  BY DEF AS!RecvByte, AS!RecvBufferEx, AS!Doing
<1>2. Tail(host.todo) \in Seq(HarmlessSteps(p))
  BY <1>1, AsSelectNow
<1>3. host'.todo = Tail(host.todo) \/ host'.todo = << >>
  <2>1. CASE AS!RecvByte
    BY <2>1 DEF AS!RecvByte, AS!Advance, IsShaped, IsHost
  <2>2. CASE AS!RecvBufferEx
    <3> DEFINE n == Len(AS!Now.d)
               k == AS!Min({n, Len(rx)})
               got == host.got \o SubSeq(rx, 1, k)
               ok == host.ok /\ k = n
    <3>1. host' = [[host EXCEPT !.got = got, !.ok = ok] EXCEPT !.todo = Tail(@), !.stalled = FALSE]
      BY <2>2 DEF AS!RecvBufferEx, AS!Advance
    <3> HIDE DEF got, ok
    <3> QED BY <3>1 DEF IsShaped, IsHost
  <2> QED BY <2>1, <2>2
<1>4. host'.todo \in Seq(HarmlessSteps(p))
  <2>1. << >> \in Seq(HarmlessSteps(p))
    OBVIOUS
  <2> QED BY <1>2, <1>3, <2>1, Zenon
<1> QED BY <1>1, <1>4 DEF InSelect

LEMMA AsSelInvInit ==
    AS!Init => SelInv
<1> SUFFICES ASSUME AS!Init PROVE SelInv
  OBVIOUS
<1>1. /\ IsHost(host) /\ host.dirty = 0 /\ host.mode = "none" /\ host.todo = << >> /\ ~host.stalled
      /\ host.call.todo = << >>
  BY DEF AS!Init, IsHost, AS!NoCall, AS!Call
<1> QED BY <1>1 DEF SelInv, IsShaped, OfSelect

LEMMA AsSelInvNext ==
    ASSUME LengthsAreNoCodes, AS!ASProgAssumption, SelInv, AS!Next
    PROVE  SelInv'
<1>1. IsShaped(host)
  BY DEF SelInv
<1>2. CASE AS!DevOpen
  <2>1. IsShaped(host')
    BY <1>1, <1>2, AsShapeOpen
  <2>2. ASSUME NEW p \in OfSelect, host'.mode = p PROVE InSelect(p)'
    BY <1>1, <1>2, <2>2, AsSelectOpen
  <2> QED BY <2>1, <2>2 DEF SelInv
<1>3. CASE IsShaped(host') /\ host'.mode = "none"
  BY <1>3 DEF SelInv, OfSelect
<1>4. CASE Leaves /\ host.mode # "none" /\ ~AS!DevOpen
  <2>1. IsShaped(host') /\ host'.mode = host.mode
    BY <1>4 DEF Leaves
  <2>2. ASSUME NEW p \in OfSelect, host'.mode = p PROVE InSelect(p)'
    <3>1. host.mode = p /\ InSelect(p)
      BY <2>1, <2>2 DEF SelInv
    <3>2. CASE AS!Firmware
      <4>1. host' = host
        BY <3>2 DEF AS!Firmware, AS!ParseCommand, AS!Header, AS!HeaderShort, AS!AckedBlock, AS!UnackedBlock,
                    AS!WriteBlock
      <4>2. FSel(fw, p) /\ tx \in Seq(Harmless(p))
        BY <3>1 DEF InSelect
      <4>3. FSel(fw', p) /\ tx' \in Seq(Harmless(p))
        BY <3>2, <4>2, AsFirmwareSelect
      <4> QED BY <3>1, <4>1, <4>3 DEF InSelect
    <3>3. CASE AS!Begin
      BY <1>1, <3>1, <3>3, AsSelectBegin
    <3>4. CASE AS!Deinit
      BY <1>1, <3>1, <3>4, AsSelectDeinit
    <3>5. CASE AS!SendBuffer
      BY <1>1, <3>1, <3>5, AsSelectSend
    <3>6. CASE AS!Stall
      BY <1>1, <3>1, <3>6, AsSelectStall
    <3>7. CASE AS!RecvByte \/ AS!RecvBufferEx
      BY <1>1, <3>1, <3>7, AsSelectReceives
    <3>8. CASE AS!DevClose
      <4>1. host'.mode = "none"
        BY <1>1, <3>8, AsShapeClose
      <4> QED BY <1>4, <2>1, <4>1
    <3> QED BY <1>4, <3>2, <3>3, <3>4, <3>5, <3>6, <3>7, <3>8 DEF AS!Next, AS!Host
  <2> QED BY <2>1, <2>2 DEF SelInv
<1>5. CASE Leaves /\ host.mode = "none"
  BY <1>5 DEF Leaves, SelInv, OfSelect
<1> QED BY <1>1, <1>2, <1>3, <1>4, <1>5, AsShape

LEMMA AsSelStutters ==
    ASSUME SelInv, UNCHANGED AS!vars
    PROVE  SelInv'
<1>1. fw' = fw /\ host' = host /\ tx' = tx
  BY DEF AS!vars
<1> QED BY <1>1 DEF SelInv, InSelect

LEMMA AsSelInvMeant ==
    ASSUME SelInv
    PROVE  AS!SelectIsMeant
<1> SUFFICES ASSUME fw.pc = "loop", host.mode \in {"spi", "mw"}, AS!Selected
             PROVE  fw.kept
  BY DEF AS!SelectIsMeant
<1>1. PICK p \in OfSelect : p = host.mode
  BY DEF OfSelect
<1>2. FSel(fw, p)
  BY <1>1 DEF SelInv, InSelect
<1>3. fw.rst = BusyPin(p)
  BY <1>1, AsOwn DEF AS!Selected
<1> QED BY <1>2, <1>3 DEF FSel

-----------------------------------------------------------------------------
LEMMA ASProgAssumed == AS!ASProgAssumption
BY DevicesAssumption DEF DevicesAssumption

(* Where a block that fills the buffer of a write over I2C goes out whole, a   *)
(* session of any protocol and any lengths whose host never stood still puts  *)
(* each call on the bus as one frame, over all its blocks, gives what the chip *)
(* gave and leaves the line in step (spi_cmd.cpp, i2c_cmd.cpp, mw_cmd.cpp,    *)
(* arduinohw.pas).                                                         *)
THEOREM CallsAreAlwaysOneFrame ==
    ASSUME WholeBlocks
    PROVE  DevicesSpec => [](subject = "asprog" => AS!BusSawTheCall)
<1> DEFINE Inv == subject = "asprog" => ASInv
<1>1. DevicesInit => Inv
  BY AsInvInit DEF DevicesInit
<1>2. Inv /\ [DevicesNext]_<<subject, fw, host, usb, tx, rx, nandVars>> => Inv'
  <2> SUFFICES ASSUME Inv, [DevicesNext]_<<subject, fw, host, usb, tx, rx, nandVars>>, subject' = "asprog"
               PROVE  ASInv'
    OBVIOUS
  <2>1. subject = "asprog" /\ (AS!Next \/ UNCHANGED AS!vars)
    <3>1. CASE DevicesNext
      BY <3>1 DEF DevicesNext
    <3>2. CASE UNCHANGED <<subject, fw, host, usb, tx, rx, nandVars>>
      BY <3>2 DEF AS!vars
    <3> QED BY <3>1, <3>2
  <2>2. ASInv
    BY <2>1
  <2> QED BY <2>1, <2>2, ASProgAssumed, AsInvNext, AsStutters
<1>3. Inv => (subject = "asprog" => AS!BusSawTheCall)
  BY AsInvSaw
<1> QED BY <1>1, <1>2, <1>3, PTL DEF DevicesSpec

(* However the host of a session of SPI or Microwire stood still, whatever of  *)
(* a header or a block was lost and whatever it sent after that, the firmware  *)
(* is back in its loop with the chip selected only where the transfer that    *)
(* ended last was to leave it so; the lengths of the transfers are no codes of *)
(* handlers that move the pin for another protocol (spi_cmd.cpp, mw_cmd.cpp). *)
THEOREM SelectIsAlwaysMeant ==
    ASSUME LengthsAreNoCodes
    PROVE  DevicesSpec => [](subject = "asprog" => AS!SelectIsMeant)
<1> DEFINE Inv == subject = "asprog" => SelInv
<1>1. DevicesInit => Inv
  BY AsSelInvInit DEF DevicesInit
<1>2. Inv /\ [DevicesNext]_<<subject, fw, host, usb, tx, rx, nandVars>> => Inv'
  <2> SUFFICES ASSUME Inv, [DevicesNext]_<<subject, fw, host, usb, tx, rx, nandVars>>, subject' = "asprog"
               PROVE  SelInv'
    OBVIOUS
  <2>1. subject = "asprog" /\ (AS!Next \/ UNCHANGED AS!vars)
    <3>1. CASE DevicesNext
      BY <3>1 DEF DevicesNext
    <3>2. CASE UNCHANGED <<subject, fw, host, usb, tx, rx, nandVars>>
      BY <3>2 DEF AS!vars
    <3> QED BY <3>1, <3>2
  <2>2. SelInv
    BY <2>1
  <2> QED BY <2>1, <2>2, ASProgAssumed, AsSelInvNext, AsSelStutters
<1>3. Inv => (subject = "asprog" => AS!SelectIsMeant)
  BY AsSelInvMeant
<1> QED BY <1>1, <1>2, <1>3, PTL DEF DevicesSpec

(* Under both conditions: every call is one frame, and no chip is left         *)
(* selected (spi_cmd.cpp, i2c_cmd.cpp, mw_cmd.cpp, arduinohw.pas).           *)
THEOREM BlocksAreAlwaysOneFrame ==
    ASSUME WholeBlocks, LengthsAreNoCodes
    PROVE  DevicesSpec => []BlocksAreOneFrame
<1>1. /\ DevicesSpec => [](subject = "asprog" => AS!BusSawTheCall)
      /\ DevicesSpec => [](subject = "asprog" => AS!SelectIsMeant)
  BY CallsAreAlwaysOneFrame, SelectIsAlwaysMeant
<1>2. (subject = "asprog" => AS!BusSawTheCall) /\ (subject = "asprog" => AS!SelectIsMeant) => BlocksAreOneFrame
  BY DEF BlocksAreOneFrame
<1> QED BY <1>1, <1>2, PTL
=============================================================================
