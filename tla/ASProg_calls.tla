---------------------------- MODULE ASProg_calls ----------------------------
(* What the ASProg firmware makes of its host's calls: the steps and the     *)
(* frame of each call of the backend, where a session is in a call, and what *)
(* one handler, block or step of the host does to it. ASProg_proofs puts the *)
(* steps together.                                                           *)
EXTENDS Devices, TLAPS, WellFoundedInduction

-----------------------------------------------------------------------------
(***************************************************************************)
(* Blocks.  A transfer of n bytes goes in blocks of c; a call is what        *)
(* FlattenSeq makes of their pairs of steps, so what stands at each position *)
(* of it is shown by induction on the blocks.                                *)
(***************************************************************************)
LEMMA AsMin ==
    ASSUME NEW a \in Int, NEW b \in Int
    PROVE  AS!Min({a, b}) = IF a <= b THEN a ELSE b
<1>1. CASE a <= b
  <2> DEFINE P(x) == x \in {a, b} /\ \A y \in {a, b} : x <= y
  <2>1. P(a)
    BY <1>1
  <2>2. \A x : P(x) => x = a
    BY <1>1
  <2>3. AS!Min({a, b}) = CHOOSE x : P(x)
    BY DEF AS!Min
  <2> HIDE DEF P
  <2>4. P(CHOOSE x : P(x))
    BY <2>1, Zenon
  <2> QED BY <2>2, <2>3, <2>4, <1>1
<1>2. CASE ~(a <= b)
  <2> DEFINE P(x) == x \in {a, b} /\ \A y \in {a, b} : x <= y
  <2>1. P(b)
    BY <1>2
  <2>2. \A x : P(x) => x = b
    BY <1>2
  <2>3. AS!Min({a, b}) = CHOOSE x : P(x)
    BY DEF AS!Min
  <2> HIDE DEF P
  <2>4. P(CHOOSE x : P(x))
    BY <2>1, Zenon
  <2> QED BY <2>2, <2>3, <2>4, <1>2
<1> QED BY <1>1, <1>2

(* How far i blocks of c bytes reach in a transfer of n.                     *)
Upto(n, c, i) == IF i * c <= n THEN i * c ELSE n

LEMMA AsBlocks ==
    ASSUME NEW n \in Nat \ {0}, NEW c \in Nat \ {0}
    PROVE  /\ AS!Blocks(n, c) \in Nat \ {0}
           /\ (AS!Blocks(n, c) - 1) * c < n /\ n <= AS!Blocks(n, c) * c
<1> DEFINE q == (n + c - 1) \div c
<1>1. q \in Int /\ q * c <= n + c - 1 /\ n + c - 1 < q * c + c
  OBVIOUS
<1> HIDE DEF q
<1>2. q * c \in Int /\ (q - 1) * c = q * c - c
  BY <1>1
<1>3. q * c > 0
  BY <1>1, <1>2
<1>4. q > 0
  BY <1>1, <1>3
<1> QED BY <1>1, <1>2, <1>4 DEF AS!Blocks, q

LEMMA AsUpto ==
    ASSUME NEW n \in Nat \ {0}, NEW c \in Nat \ {0}
    PROVE  /\ Upto(n, c, 0) = 0 /\ Upto(n, c, AS!Blocks(n, c)) = n
           /\ \A i \in 0 .. AS!Blocks(n, c) : Upto(n, c, i) \in 0 .. n
           /\ \A i \in 0 .. AS!Blocks(n, c) - 1 :
                 /\ i * c = Upto(n, c, i) /\ Upto(n, c, i) < n
                 /\ Upto(n, c, i + 1) = IF n - Upto(n, c, i) >= c THEN Upto(n, c, i) + c ELSE n
                 /\ Upto(n, c, i + 1) > Upto(n, c, i)
<1> DEFINE B == AS!Blocks(n, c)
<1>1. B \in Nat \ {0} /\ (B - 1) * c < n /\ n <= B * c
  BY AsBlocks
<1> HIDE DEF B
<1>2. ASSUME NEW i \in Nat
      PROVE  i * c \in Nat /\ (i + 1) * c = i * c + c
  OBVIOUS
<1>3. ASSUME NEW i \in 0 .. B - 1
      PROVE  i * c < n
  <2>1. i * c <= (B - 1) * c
    BY <1>1
  <2> QED BY <2>1, <1>1, <1>2
<1>4. Upto(n, c, 0) = 0
  BY DEF Upto
<1>5. Upto(n, c, B) = n
  BY <1>1, <1>2 DEF Upto
<1>6. ASSUME NEW i \in 0 .. B PROVE Upto(n, c, i) \in 0 .. n
  BY <1>1, <1>2 DEF Upto
<1>7. ASSUME NEW i \in 0 .. B - 1
      PROVE /\ i * c = Upto(n, c, i) /\ Upto(n, c, i) < n
            /\ Upto(n, c, i + 1) = IF n - Upto(n, c, i) >= c THEN Upto(n, c, i) + c ELSE n
            /\ Upto(n, c, i + 1) > Upto(n, c, i)
  <2>1. i * c = Upto(n, c, i) /\ Upto(n, c, i) < n /\ i * c \in Nat /\ (i + 1) * c = i * c + c
    BY <1>1, <1>2, <1>3 DEF Upto
  <2>2. Upto(n, c, i + 1) = IF i * c + c <= n THEN i * c + c ELSE n
    BY <2>1 DEF Upto
  <2> HIDE DEF Upto
  <2> QED BY <2>1, <2>2
<1> QED BY <1>4, <1>5, <1>6, <1>7 DEF B

(* A program of pairs: what FlattenSeq makes of a sequence of pairs.          *)
Pairs(f, n, s) ==
    /\ s \in Seq(UNION {{f[i][1], f[i][2]} : i \in 1 .. n}) /\ Len(s) = 2 * n
    /\ \A i \in 1 .. n : s[2 * i - 1] = f[i][1] /\ s[2 * i] = f[i][2]

LEMMA AsInduct ==
    ASSUME NEW S, 0 \in S, \A n \in Nat : n \in S => n + 1 \in S
    PROVE  Nat \subseteq S
<1> SUFFICES ASSUME NEW n \in Nat, n \notin S
             PROVE  FALSE
  OBVIOUS
<1> DEFINE T == {m \in Nat : m \notin S}
           R == OpToRel(<, Nat)
<1>1. IsWellFoundedOn(R, Nat)
  BY NatLessThanWellFounded
<1>2. R = {p \in Nat \X Nat : p[1] < p[2]}
  BY DEF OpToRel
<1>3. T \subseteq Nat /\ T # {}
  OBVIOUS
<1> HIDE DEF R
<1>4. PICK m \in T : \A y \in T : ~ (<<y, m>> \in R)
  BY <1>1, <1>3, WFMin
<1>5. m # 0 /\ m - 1 \in Nat /\ (m - 1) + 1 = m
  BY <1>4
<1>6. <<m - 1, m>> \in R
  BY <1>2, <1>4, <1>5
<1>7. m - 1 \in S
  BY <1>4, <1>5, <1>6
<1> QED BY <1>4, <1>5, <1>7

LEMMA AsSame ==
    ASSUME NEW X, NEW s \in Seq(X), NEW t \in Seq(X), Len(s) = Len(t),
           \A j \in 1 .. Len(s) : s[j] = t[j]
    PROVE  s = t
OBVIOUS

LEMMA AsTwo ==
    ASSUME NEW X, NEW s \in Seq(X), NEW x \in X, NEW y \in X
    PROVE  /\ s \o <<x, y>> \in Seq(X) /\ Len(s \o <<x, y>>) = Len(s) + 2
           /\ \A j \in 1 .. Len(s) : (s \o <<x, y>>)[j] = s[j]
           /\ (s \o <<x, y>>)[Len(s) + 1] = x /\ (s \o <<x, y>>)[Len(s) + 2] = y
           /\ <<x, y>> \in Seq(X) /\ Len(<<x, y>>) = 2
OBVIOUS

(* A program of blocks, each two steps of the backend.                        *)
Zipped(a, b, n) == [i \in 1 .. n |-> <<a[i], b[i]>>]
Paired(X, s, a, b, n) ==
    /\ s \in Seq(X) /\ Len(s) = 2 * n
    /\ \A i \in 1 .. n : s[2 * i - 1] = a[i] /\ s[2 * i] = b[i]

LEMMA AsPairs ==
    ASSUME NEW X, NEW n \in Nat \ {0}, NEW a \in [1 .. n -> X], NEW b \in [1 .. n -> X]
    PROVE  Paired(X, AS!FlattenSeq(Zipped(a, b, n)), a, b, n)
<1> DEFINE seqs == [i \in 1 .. n |-> <<a[i], b[i]>>]
           P(k) == [j \in 1 .. 2 * k |-> IF j % 2 = 1 THEN a[(j + 1) \div 2] ELSE b[j \div 2]]
           g == [i \in 1 .. n |-> P(i)]
           Rec(f) == f = [i \in 1 .. n |-> IF i = 1 THEN seqs[i] ELSE f[i - 1] \o seqs[i]]
           flatten[i \in 1 .. Len(seqs)] ==
              IF i = 1 THEN seqs[i] ELSE flatten[i - 1] \o seqs[i]
<1>0. seqs \in Seq(Seq(X)) /\ Len(seqs) = n
  <2>1. \A i \in 1 .. n : <<a[i], b[i]>> \in Seq(X)
    OBVIOUS
  <2> QED BY <2>1
<1>1. ASSUME NEW k \in 1 .. n
      PROVE  /\ P(k) \in Seq(X) /\ Len(P(k)) = 2 * k
             /\ \A j \in 1 .. 2 * k : P(k)[j] = IF j % 2 = 1 THEN a[(j + 1) \div 2] ELSE b[j \div 2]
  <2>1. ASSUME NEW j \in 1 .. 2 * k
        PROVE  (IF j % 2 = 1 THEN a[(j + 1) \div 2] ELSE b[j \div 2]) \in X
    <3>1. (j + 1) \div 2 \in 1 .. n
      OBVIOUS
    <3>2. CASE j % 2 = 1
      BY <3>1, <3>2
    <3>3. CASE j % 2 # 1
      <4>1. j \div 2 \in 1 .. n
        BY <3>3
      <4> QED BY <4>1, <3>3
    <3> QED BY <3>2, <3>3
  <2> QED BY <2>1
<1> HIDE DEF P
<1>2. P(1) = seqs[1]
  <2>1. 1 \in 1 .. n
    OBVIOUS
  <2>2. P(1) \in Seq(X) /\ Len(P(1)) = 2 /\ P(1)[1] = a[1] /\ P(1)[2] = b[1]
    <3>1. 2 * 1 = 2 /\ 1 % 2 = 1 /\ (1 + 1) \div 2 = 1 /\ 2 % 2 # 1 /\ 2 \div 2 = 1
      OBVIOUS
    <3>2. 1 \in 1 .. 2 /\ 2 \in 1 .. 2
      OBVIOUS
    <3> QED BY <1>1, <2>1, <3>1, <3>2
  <2>3. seqs[1] = <<a[1], b[1]>>
    BY <2>1
  <2>4. a[1] \in X /\ b[1] \in X
    BY <2>1
  <2>5. seqs[1] \in Seq(X) /\ Len(seqs[1]) = 2 /\ seqs[1][1] = a[1] /\ seqs[1][2] = b[1]
    BY <2>3, <2>4
  <2>6. \A j \in 1 .. Len(P(1)) : P(1)[j] = seqs[1][j]
    BY <2>2, <2>5
  <2> HIDE DEF seqs
  <2> QED BY <2>2, <2>5, <2>6, AsSame
<1>3. ASSUME NEW k \in 1 .. n, k # 1
      PROVE  P(k) = P(k - 1) \o seqs[k]
  <2>1. k - 1 \in 1 .. n
    BY <1>3
  <2>2. /\ P(k) \in Seq(X) /\ Len(P(k)) = 2 * k
        /\ \A j \in 1 .. 2 * k : P(k)[j] = IF j % 2 = 1 THEN a[(j + 1) \div 2] ELSE b[j \div 2]
    BY <1>1
  <2>3. /\ P(k - 1) \in Seq(X) /\ Len(P(k - 1)) = 2 * k - 2
        /\ \A j \in 1 .. 2 * k - 2 : P(k - 1)[j] = IF j % 2 = 1 THEN a[(j + 1) \div 2] ELSE b[j \div 2]
    <3>1. 2 * (k - 1) = 2 * k - 2
      OBVIOUS
    <3> QED BY <1>1, <2>1, <3>1
  <2>4. seqs[k] = <<a[k], b[k]>> /\ a[k] \in X /\ b[k] \in X
    OBVIOUS
  <2> HIDE DEF seqs
  <2>5. (2 * k - 1) % 2 = 1 /\ (2 * k) % 2 # 1 /\ (2 * k) \div 2 = k /\ (2 * k - 1 + 1) \div 2 = k
    OBVIOUS
  <2>6. P(k)[2 * k - 1] = a[k] /\ P(k)[2 * k] = b[k]
    BY <2>2, <2>5
  <2> DEFINE t == P(k - 1) \o <<a[k], b[k]>>
  <2>7. /\ t \in Seq(X) /\ Len(t) = 2 * k
        /\ \A j \in 1 .. 2 * k - 2 : t[j] = P(k - 1)[j]
        /\ t[2 * k - 1] = a[k] /\ t[2 * k] = b[k]
    <3>1. Len(P(k - 1)) + 1 = 2 * k - 1 /\ Len(P(k - 1)) + 2 = 2 * k
      BY <2>3
    <3> QED BY <3>1, <2>3, <2>4, AsTwo
  <2>8. t = P(k - 1) \o seqs[k]
    BY <2>4
  <2> HIDE DEF t
  <2>9. ASSUME NEW j \in 1 .. 2 * k PROVE P(k)[j] = t[j]
    <3>1. CASE j <= 2 * k - 2
      <4>1. j \in 1 .. 2 * k - 2 /\ j \in 1 .. 2 * k
        BY <3>1
      <4> QED BY <4>1, <2>2, <2>3, <2>7
    <3>2. CASE j = 2 * k - 1
      BY <3>2, <2>7, <2>6
    <3>3. CASE j = 2 * k
      BY <3>3, <2>7, <2>6
    <3> QED BY <3>1, <3>2, <3>3
  <2> QED BY <2>2, <2>7, <2>8, <2>9, AsSame
<1>4. Rec(g)
  <2>1. \A i \in 1 .. n : g[i] = P(i)
    OBVIOUS
  <2>2. \A i \in 1 .. n : i # 1 => g[i - 1] = P(i - 1)
    OBVIOUS
  <2>3. g = [i \in 1 .. n |-> g[i]]
    OBVIOUS
  <2> HIDE DEF g, seqs
  <2>4. \A i \in 1 .. n : g[i] = IF i = 1 THEN seqs[i] ELSE g[i - 1] \o seqs[i]
    BY <1>2, <1>3, <2>1, <2>2
  <2> QED BY <2>3, <2>4, Zenon
<1>5. Rec(flatten)
  <2>1. \E f : f = [i \in 1 .. Len(seqs) |-> IF i = 1 THEN seqs[i] ELSE f[i - 1] \o seqs[i]]
    <3> HIDE DEF g, seqs
    <3> QED BY <1>0, <1>4, Zenon
  <2>2. flatten = [i \in 1 .. Len(seqs) |-> IF i = 1 THEN seqs[i] ELSE flatten[i - 1] \o seqs[i]]
    BY <2>1
  <2> HIDE DEF flatten, seqs
  <2> QED BY <1>0, <2>2, Zenon
<1>6. AS!FlattenSeq(seqs) = flatten[n]
  BY <1>0 DEF AS!FlattenSeq
<1> HIDE DEF flatten, seqs
<1>7. \A i \in 1 .. n : flatten[i] = IF i = 1 THEN seqs[i] ELSE flatten[i - 1] \o seqs[i]
  <2> DEFINE F == flatten
  <2>1. F = [i \in 1 .. n |-> IF i = 1 THEN seqs[i] ELSE F[i - 1] \o seqs[i]]
    BY <1>5
  <2> HIDE DEF F
  <2>2. \A i \in 1 .. n : F[i] = IF i = 1 THEN seqs[i] ELSE F[i - 1] \o seqs[i]
    BY <2>1, Zenon
  <2> QED BY <2>2 DEF F
<1>8. \A i \in 1 .. n : flatten[i] = P(i)
  <2> DEFINE S == {k \in Nat : k + 1 \in 1 .. n => flatten[k + 1] = P(k + 1)}
  <2>1. 0 \in S
    BY <1>2, <1>7
  <2>2. ASSUME NEW k \in Nat, k \in S PROVE k + 1 \in S
    <3> SUFFICES ASSUME k + 1 + 1 \in 1 .. n PROVE flatten[k + 1 + 1] = P(k + 1 + 1)
      OBVIOUS
    <3>1. k + 1 \in 1 .. n /\ flatten[k + 1] = P(k + 1)
      BY <2>2
    <3>2. k + 1 + 1 # 1 /\ k + 1 + 1 - 1 = k + 1
      OBVIOUS
    <3> DEFINE m == k + 1 + 1
    <3>3. m \in 1 .. n /\ m # 1 /\ m - 1 = k + 1
      BY <3>2
    <3> HIDE DEF m
    <3>4. flatten[m] = flatten[m - 1] \o seqs[m] /\ P(m) = P(m - 1) \o seqs[m]
      BY <3>3, <1>3, <1>7
    <3> QED BY <3>1, <3>3, <3>4 DEF m
  <2> HIDE DEF S
  <2>3. Nat \subseteq S
    BY <2>1, <2>2, AsInduct
  <2>4. ASSUME NEW i \in 1 .. n PROVE flatten[i] = P(i)
    <3>1. i - 1 \in S /\ i - 1 + 1 = i
      BY <2>3
    <3> QED BY <3>1 DEF S
  <2> QED BY <2>4
<1>9. AS!FlattenSeq(seqs) = P(n)
  BY <1>6, <1>8
<1>10. ASSUME NEW i \in 1 .. n PROVE P(n)[2 * i - 1] = a[i] /\ P(n)[2 * i] = b[i]
  <2>1. (2 * i - 1) % 2 = 1 /\ (2 * i) % 2 # 1 /\ (2 * i) \div 2 = i /\ (2 * i - 1 + 1) \div 2 = i
    OBVIOUS
  <2>2. 2 * i - 1 \in 1 .. 2 * n /\ 2 * i \in 1 .. 2 * n
    OBVIOUS
  <2> QED BY <2>1, <2>2, <1>1
<1>11. n \in 1 .. n
  OBVIOUS
<1>12. Paired(X, P(n), a, b, n)
  BY <1>1, <1>10, <1>11 DEF Paired
<1> QED BY <1>9, <1>12 DEF seqs, Zipped

HostSteps == [s : {"send", "expect", "recv"}, d : Seq(Nat)]

LEMMA AsCount ==
    ASSUME NEW n \in Nat
    PROVE  /\ AS!Count(n) \in Seq(Nat) /\ Len(AS!Count(n)) = n
           /\ \A i \in 1 .. n : AS!Count(n)[i] = AS!Data(i) /\ AS!Data(i) \in Nat
BY DEF AS!Count, AS!Data

LEMMA AsHostSteps ==
    ASSUME NEW d \in Seq(Nat), NEW b \in Nat, NEW n \in Nat
    PROVE  /\ AS!Send(d) \in HostSteps /\ AS!Expect(b) \in HostSteps /\ AS!Recv(n) \in HostSteps
           /\ AS!Send(d).s = "send" /\ AS!Send(d).d = d
           /\ AS!Expect(b).s = "expect" /\ AS!Expect(b).d[1] = b
           /\ AS!Recv(n).s = "recv" /\ Len(AS!Recv(n).d) = n
           /\ Len(AS!Expect(b).d) = 1
<1>1. AS!Count(n) \in Seq(Nat) /\ Len(AS!Count(n)) = n
  BY AsCount
<1>2. <<b>> \in Seq(Nat) /\ <<b>>[1] = b /\ Len(<<b>>) = 1
  OBVIOUS
<1> QED BY <1>1, <1>2 DEF AS!Send, AS!Expect, AS!Recv, HostSteps

(* Block i of a write of w bytes.                                           *)
Piece(w, c, i) == [j \in 1 .. Upto(w, c, i) - Upto(w, c, i - 1) |-> AS!Data(Upto(w, c, i - 1) + j)]

LEMMA AsPiece ==
    ASSUME NEW w \in Nat \ {0}, NEW c \in Nat \ {0}, NEW i \in 1 .. AS!Blocks(w, c)
    PROVE  /\ Upto(w, c, i) \in Nat /\ Upto(w, c, i - 1) \in Nat
           /\ Upto(w, c, i) - Upto(w, c, i - 1) \in Nat \ {0}
           /\ Piece(w, c, i) \in Seq(Nat) /\ Len(Piece(w, c, i)) = Upto(w, c, i) - Upto(w, c, i - 1)
           /\ \A j \in 1 .. Upto(w, c, i) - Upto(w, c, i - 1) :
                 Piece(w, c, i)[j] = AS!Data(Upto(w, c, i - 1) + j)
<1>0. AS!Blocks(w, c) \in Nat \ {0}
  BY AsBlocks
<1>1. i - 1 \in 0 .. AS!Blocks(w, c) - 1 /\ i - 1 + 1 = i /\ i \in 0 .. AS!Blocks(w, c)
  BY <1>0
<1>2. Upto(w, c, i) \in Nat /\ Upto(w, c, i - 1) \in Nat /\ Upto(w, c, i) > Upto(w, c, i - 1)
  BY <1>0, <1>1, AsUpto
<1>3. \A j \in Nat : AS!Data(Upto(w, c, i - 1) + j) \in Nat
  BY <1>2 DEF AS!Data
<1> DEFINE x == Upto(w, c, i - 1)
           y == Upto(w, c, i)
<1>4. x \in Nat /\ y - x \in Nat \ {0} /\ \A j \in 1 .. y - x : AS!Data(x + j) \in Nat
  BY <1>2, <1>3
<1>5. Piece(w, c, i) = [j \in 1 .. y - x |-> AS!Data(x + j)]
  BY DEF Piece
<1> HIDE DEF x, y
<1>6. [j \in 1 .. y - x |-> AS!Data(x + j)] \in Seq(Nat)
  BY <1>4
<1>7. Len([j \in 1 .. y - x |-> AS!Data(x + j)]) = y - x
  BY <1>4
<1>8. /\ Piece(w, c, i) \in Seq(Nat) /\ Len(Piece(w, c, i)) = y - x
      /\ \A j \in 1 .. y - x : Piece(w, c, i)[j] = AS!Data(x + j)
  BY <1>5, <1>6, <1>7
<1> QED BY <1>2, <1>4, <1>8 DEF x, y

LEMMA AsWritten ==
    ASSUME NEW w \in Nat \ {0}, wchunk \in Nat \ {0}
    PROVE  LET s == AS!Written(AS!Count(w))
               B == AS!Blocks(w, wchunk)
           IN  /\ s \in Seq(HostSteps) /\ Len(s) = 2 * B
               /\ \A i \in 1 .. B : /\ s[2 * i - 1] = AS!Send(Piece(w, wchunk, i))
                                    /\ s[2 * i] = AS!Expect(AS!ACK)
<1> DEFINE B == AS!Blocks(w, wchunk)
           d(i) == SubSeq(AS!Count(w), (i - 1) * wchunk + 1, AS!Min({w, i * wchunk}))
           a == [i \in 1 .. B |-> AS!Send(d(i))]
           b == [i \in 1 .. B |-> AS!Expect(AS!ACK)]
<1>1. B \in Nat \ {0} /\ Len(AS!Count(w)) = w /\ AS!Count(w) \in Seq(Nat)
  BY AsBlocks, AsCount
<1>2. ASSUME NEW i \in 1 .. B PROVE d(i) = Piece(w, wchunk, i)
  <2>1. i - 1 \in 0 .. B - 1 /\ i \in 0 .. B
    BY <1>1
  <2>2. (i - 1) * wchunk = Upto(w, wchunk, i - 1) /\ i * wchunk \in Int
    BY <2>1, AsUpto
  <2>3. AS!Min({w, i * wchunk}) = Upto(w, wchunk, i)
    <3>1. AS!Min({w, i * wchunk}) = IF w <= i * wchunk THEN w ELSE i * wchunk
      BY <2>2, AsMin
    <3> DEFINE k == i * wchunk
    <3>2. k \in Int
      BY <2>2
    <3>3. AS!Min({w, k}) = (IF w <= k THEN w ELSE k) /\ Upto(w, wchunk, i) = (IF k <= w THEN k ELSE w)
      BY <3>1 DEF Upto
    <3> HIDE DEF k
    <3>4. AS!Min({w, k}) = Upto(w, wchunk, i)
      BY <3>2, <3>3
    <3> QED BY <3>4 DEF k
  <2> DEFINE x == Upto(w, wchunk, i - 1)
             y == Upto(w, wchunk, i)
  <2>4. x \in Nat /\ y \in 0 .. w /\ y > x
    <3>1. i - 1 \in 0 .. B /\ i - 1 + 1 = i
      BY <1>1
    <3> QED BY <2>1, <3>1, AsUpto
  <2>5. d(i) = SubSeq(AS!Count(w), x + 1, y)
    BY <2>2, <2>3
  <2>6. Piece(w, wchunk, i) = [j \in 1 .. y - x |-> AS!Data(x + j)]
    BY DEF Piece
  <2> HIDE DEF x, y, d
  <2>7. \A j \in 1 .. y - x : AS!Count(w)[x + j] = AS!Data(x + j) /\ x + 1 + j - 1 = x + j
    <3>1. \A j \in 1 .. y - x : x + j \in 1 .. w /\ x + 1 + j - 1 = x + j
      BY <2>4
    <3>2. \A k \in 1 .. w : AS!Count(w)[k] = AS!Data(k)
      BY AsCount
    <3> QED BY <3>1, <3>2
  <2>8. SubSeq(AS!Count(w), x + 1, y) = [j \in 1 .. y - x |-> AS!Count(w)[x + 1 + j - 1]]
    BY <2>4, <1>1
  <2> QED BY <2>5, <2>6, <2>7, <2>8
<1>3. \A i \in 1 .. B : Piece(w, wchunk, i) \in Seq(Nat)
  BY AsPiece
<1>4. AS!ACK \in Nat
  BY DEF AS!ACK
<1>5. \A i \in 1 .. B : AS!Send(d(i)) \in HostSteps /\ AS!Expect(AS!ACK) \in HostSteps
  <2> HIDE DEF d, B
  <2> QED BY <1>2, <1>3, <1>4, AsHostSteps
<1> HIDE DEF d
<1>6. a \in [1 .. B -> HostSteps] /\ b \in [1 .. B -> HostSteps]
  BY <1>5
<1>7. \A i \in 1 .. B : a[i] = AS!Send(Piece(w, wchunk, i)) /\ b[i] = AS!Expect(AS!ACK)
  BY <1>2
<1>8. AS!Written(AS!Count(w)) = AS!FlattenSeq(Zipped(a, b, B))
  <2>1. \A i \in 1 .. B : <<a[i], b[i]>> = <<AS!Send(d(i)), AS!Expect(AS!ACK)>>
    OBVIOUS
  <2>2. AS!Written(AS!Count(w)) = AS!FlattenSeq([i \in 1 .. B |-> <<AS!Send(d(i)), AS!Expect(AS!ACK)>>])
    BY <1>1 DEF AS!Written, d
  <2> HIDE DEF a, b
  <2>3. [i \in 1 .. B |-> <<a[i], b[i]>>] = [i \in 1 .. B |-> <<AS!Send(d(i)), AS!Expect(AS!ACK)>>]
    BY <2>1
  <2> QED BY <2>2, <2>3 DEF Zipped
<1> HIDE DEF a, b
<1> DEFINE s == AS!FlattenSeq(Zipped(a, b, B))
<1>9. /\ s \in Seq(HostSteps) /\ Len(s) = 2 * B
      /\ \A i \in 1 .. B : s[2 * i - 1] = a[i] /\ s[2 * i] = b[i]
  <2> HIDE DEF B, s
  <2>1. B \in Nat \ {0}
    BY <1>1
  <2>2. Paired(HostSteps, s, a, b, B)
    BY <2>1, <1>6, AsPairs DEF s
  <2> QED BY <2>2 DEF Paired
<1>10. s = AS!Written(AS!Count(w))
  BY <1>8
<1> HIDE DEF s, B
<1>11. \A i \in 1 .. B : s[2 * i - 1] = AS!Send(Piece(w, wchunk, i)) /\ s[2 * i] = AS!Expect(AS!ACK)
  BY <1>7, <1>9
<1> QED BY <1>9, <1>10, <1>11 DEF B

LEMMA AsReadBack ==
    ASSUME NEW r \in Nat \ {0}, rchunk \in Nat \ {0}
    PROVE  LET s == AS!ReadBack(r)
               C == AS!Blocks(r, rchunk)
           IN  /\ s \in Seq(HostSteps) /\ Len(s) = 2 * C
               /\ \A i \in 1 .. C :
                     /\ s[2 * i - 1] = AS!Recv(Upto(r, rchunk, i) - Upto(r, rchunk, i - 1))
                     /\ s[2 * i] = AS!Send(<<AS!ACK>>)
<1> DEFINE B == AS!Blocks(r, rchunk)
           d(i) == AS!BlockLen(i, r, rchunk)
           a == [i \in 1 .. B |-> AS!Recv(d(i))]
           b == [i \in 1 .. B |-> AS!Send(<<AS!ACK>>)]
<1>1. B \in Nat \ {0}
  BY AsBlocks
<1>2. ASSUME NEW i \in 1 .. B PROVE d(i) = Upto(r, rchunk, i) - Upto(r, rchunk, i - 1)
  <2>1. i - 1 \in 0 .. B - 1 /\ i \in 0 .. B
    BY <1>1
  <2>2. (i - 1) * rchunk = Upto(r, rchunk, i - 1) /\ i * rchunk \in Int
    BY <2>1, AsUpto
  <2>3. AS!Min({r, i * rchunk}) = Upto(r, rchunk, i)
    <3>1. AS!Min({r, i * rchunk}) = IF r <= i * rchunk THEN r ELSE i * rchunk
      BY <2>2, AsMin
    <3> DEFINE k == i * rchunk
    <3>2. k \in Int
      BY <2>2
    <3>3. AS!Min({r, k}) = (IF r <= k THEN r ELSE k) /\ Upto(r, rchunk, i) = (IF k <= r THEN k ELSE r)
      BY <3>1 DEF Upto
    <3> HIDE DEF k
    <3>4. AS!Min({r, k}) = Upto(r, rchunk, i)
      BY <3>2, <3>3
    <3> QED BY <3>4 DEF k
  <2> QED BY <2>2, <2>3 DEF AS!BlockLen
<1>3. \A i \in 1 .. B : d(i) \in Nat
  BY <1>2, AsPiece
<1>4. <<AS!ACK>> \in Seq(Nat)
  BY DEF AS!ACK
<1>5. \A i \in 1 .. B : AS!Recv(d(i)) \in HostSteps /\ AS!Send(<<AS!ACK>>) \in HostSteps
  <2> HIDE DEF d, B
  <2> QED BY <1>3, <1>4, AsHostSteps
<1> HIDE DEF d
<1>6. a \in [1 .. B -> HostSteps] /\ b \in [1 .. B -> HostSteps]
  BY <1>5
<1>7. \A i \in 1 .. B : /\ a[i] = AS!Recv(Upto(r, rchunk, i) - Upto(r, rchunk, i - 1))
                        /\ b[i] = AS!Send(<<AS!ACK>>)
  BY <1>2
<1>8. AS!ReadBack(r) = AS!FlattenSeq(Zipped(a, b, B))
  <2>1. \A i \in 1 .. B : <<a[i], b[i]>> = <<AS!Recv(d(i)), AS!Send(<<AS!ACK>>)>>
    OBVIOUS
  <2>2. AS!ReadBack(r) = AS!FlattenSeq([i \in 1 .. B |-> <<AS!Recv(d(i)), AS!Send(<<AS!ACK>>)>>])
    BY DEF AS!ReadBack, d
  <2> HIDE DEF a, b
  <2>3. [i \in 1 .. B |-> <<a[i], b[i]>>] = [i \in 1 .. B |-> <<AS!Recv(d(i)), AS!Send(<<AS!ACK>>)>>]
    BY <2>1
  <2> QED BY <2>2, <2>3 DEF Zipped
<1> HIDE DEF a, b
<1> DEFINE s == AS!FlattenSeq(Zipped(a, b, B))
<1>9. /\ s \in Seq(HostSteps) /\ Len(s) = 2 * B
      /\ \A i \in 1 .. B : s[2 * i - 1] = a[i] /\ s[2 * i] = b[i]
  <2> HIDE DEF B, s
  <2>1. B \in Nat \ {0}
    BY <1>1
  <2>2. Paired(HostSteps, s, a, b, B)
    BY <2>1, <1>6, AsPairs DEF s
  <2> QED BY <2>2 DEF Paired
<1>10. s = AS!ReadBack(r)
  BY <1>8
<1> HIDE DEF s, B
<1>11. \A i \in 1 .. B : s[2 * i - 1] = AS!Recv(Upto(r, rchunk, i) - Upto(r, rchunk, i - 1)) /\ s[2 * i] = AS!Send(<<AS!ACK>>)
  BY <1>7, <1>9
<1> QED BY <1>9, <1>10, <1>11 DEF B

-----------------------------------------------------------------------------
(***************************************************************************)
(* Calls.  The steps of a call that writes w bytes and reads r over protocol *)
(* p, and the frame that it is to put on the bus, both by their positions;   *)
(* every call of the backend is one of these, a byte over I2C or the         *)
(* question whether a chip is busy.                                          *)
(***************************************************************************)
Protocols == {"spi", "i2c", "mw"}
WCmd(p) == IF p = "spi" THEN 11 ELSE IF p = "i2c" THEN 22 ELSE 31
RCmd(p) == IF p = "spi" THEN 10 ELSE IF p = "i2c" THEN 21 ELSE 30
EndFlag(r) == IF r = 0 THEN 1 ELSE 0
WHead(p, w, r) ==
    IF p = "spi" THEN <<11, EndFlag(r), 0, w>>
    ELSE IF p = "i2c" THEN <<22, 160, EndFlag(r), 0, w>>
    ELSE <<31, EndFlag(r), 8 * w - 5, 0, w>>
RHead(p, r) ==
    IF p = "spi" THEN <<10, 1, 0, r>>
    ELSE IF p = "i2c" THEN <<21, 160, 0, r>>
    ELSE <<30, 1, 0, r>>
WChunk(p, w) == IF p = "mw" THEN w ELSE wchunk
WBlocks(p, w) == AS!Blocks(w, WChunk(p, w))
RBlocks(r) == AS!Blocks(r, rchunk)

(* The steps of the backend in a call that writes w bytes and reads r.         *)
WritePart(t, p, w, r) ==
    /\ t[1] = AS!Send(WHead(p, w, r)) /\ t[2] = AS!Expect(WCmd(p))
    /\ \A i \in 1 .. WBlocks(p, w) : /\ t[2 * i + 1] = AS!Send(Piece(w, WChunk(p, w), i))
                                     /\ t[2 * i + 2] = AS!Expect(AS!ACK)
ReadPart(t, p, o, r) ==
    /\ t[o + 1] = AS!Send(RHead(p, r)) /\ t[o + 2] = AS!Expect(RCmd(p))
    /\ \A i \in 1 .. RBlocks(r) :
          /\ t[o + 2 * i + 1] = AS!Recv(Upto(r, rchunk, i) - Upto(r, rchunk, i - 1))
          /\ t[o + 2 * i + 2] = AS!Send(<<AS!ACK>>)
WLen(p, w) == 2 * WBlocks(p, w) + 2
RLen(r) == IF r = 0 THEN 0 ELSE 2 * RBlocks(r) + 2
Program(t, p, w, r) ==
    /\ t \in Seq(HostSteps) /\ Len(t) = WLen(p, w) + RLen(r)
    /\ WritePart(t, p, w, r)
    /\ r > 0 => ReadPart(t, p, WLen(p, w), r)

LEMMA AsCat ==
    ASSUME NEW X, NEW s \in Seq(X), NEW t \in Seq(X)
    PROVE  /\ s \o t \in Seq(X) /\ Len(s \o t) = Len(s) + Len(t)
           /\ \A i \in 1 .. Len(s) : (s \o t)[i] = s[i]
           /\ \A i \in 1 .. Len(t) : (s \o t)[Len(s) + i] = t[i]
OBVIOUS

(* A header, its echo and the blocks.                                        *)
Headed(t, hd, ex, s, n) ==
    /\ t \in Seq(HostSteps) /\ Len(t) = 2 * n + 2 /\ t[1] = hd /\ t[2] = ex
    /\ \A i \in 1 .. n : t[2 * i + 1] = s[2 * i - 1] /\ t[2 * i + 2] = s[2 * i]

LEMMA AsHeaded ==
    ASSUME NEW hd \in HostSteps, NEW ex \in HostSteps, NEW n \in Nat,
           NEW s \in Seq(HostSteps), Len(s) = 2 * n
    PROVE  Headed(<<hd, ex>> \o s, hd, ex, s, n)
<1> DEFINE t == <<hd, ex>> \o s
<1>1. <<hd, ex>> \in Seq(HostSteps) /\ Len(<<hd, ex>>) = 2
  OBVIOUS
<1>2. /\ t \in Seq(HostSteps) /\ Len(t) = 2 + 2 * n
      /\ \A i \in 1 .. 2 : t[i] = <<hd, ex>>[i]
      /\ \A i \in 1 .. 2 * n : t[2 + i] = s[i]
  BY <1>1, AsCat
<1>3. t[1] = hd /\ t[2] = ex
  BY <1>2
<1>4. ASSUME NEW i \in 1 .. n PROVE t[2 * i + 1] = s[2 * i - 1] /\ t[2 * i + 2] = s[2 * i]
  <2>1. 2 * i - 1 \in 1 .. 2 * n /\ 2 * i \in 1 .. 2 * n /\ 2 + (2 * i - 1) = 2 * i + 1 /\ 2 + 2 * i = 2 * i + 2
    OBVIOUS
  <2> QED BY <1>2, <2>1
<1> HIDE DEF t
<1>5. Headed(t, hd, ex, s, n)
  BY <1>2, <1>3, <1>4 DEF Headed
<1> QED BY <1>5 DEF t

LEMMA AsOneBlock ==
    ASSUME NEW w \in Nat \ {0}
    PROVE  AS!Blocks(w, w) = 1 /\ Upto(w, w, 0) = 0 /\ Upto(w, w, 1) = w
<1>1. AS!Blocks(w, w) \in Nat \ {0} /\ (AS!Blocks(w, w) - 1) * w < w
  BY AsBlocks
<1>2. AS!Blocks(w, w) = 1
  BY <1>1
<1> QED BY <1>2 DEF Upto

LEMMA AsHeads ==
    ASSUME NEW p \in Protocols, NEW w \in Nat \ {0}, NEW r \in Nat
    PROVE  /\ WHead(p, w, r) \in Seq(Nat) /\ RHead(p, r) \in Seq(Nat)
           /\ WCmd(p) \in Nat /\ RCmd(p) \in Nat
BY DEF WHead, RHead, WCmd, RCmd, EndFlag, Protocols

LEMMA AsConst ==
    /\ rchunk \in Nat \ {0} /\ wchunk \in Nat \ {0} /\ rchunk <= wchunk
    /\ MaxStalls \in Nat /\ MaxDirty \in Nat /\ Modes \subseteq Protocols
    /\ Writes \subseteq Nat \ {0} /\ Reads \subseteq Nat \ {0} /\ I2CWrites \subseteq Nat \ {0}
BY DevicesAssumption DEF DevicesAssumption, AS!ASProgAssumption, Protocols

WData(p, w) == IF p = "mw" THEN <<AS!Send(AS!Count(w)), AS!Expect(AS!ACK)>> ELSE AS!Written(AS!Count(w))

LEMMA AsWData ==
    ASSUME NEW p \in Protocols, NEW w \in Nat \ {0}
    PROVE  /\ WBlocks(p, w) \in Nat \ {0}
           /\ WData(p, w) \in Seq(HostSteps) /\ Len(WData(p, w)) = 2 * WBlocks(p, w)
           /\ \A i \in 1 .. WBlocks(p, w) :
                 /\ WData(p, w)[2 * i - 1] = AS!Send(Piece(w, WChunk(p, w), i))
                 /\ WData(p, w)[2 * i] = AS!Expect(AS!ACK)
<1>1. CASE p = "mw"
  <2>1. WBlocks(p, w) = 1 /\ WChunk(p, w) = w
    BY <1>1, AsOneBlock DEF WBlocks, WChunk
  <2>2. Piece(w, w, 1) = AS!Count(w)
    <3>1. Upto(w, w, 1) = w /\ Upto(w, w, 1 - 1) = 0
      BY AsOneBlock
    <3>2. \A j \in 1 .. w : 0 + j = j
      OBVIOUS
    <3> QED BY <3>1, <3>2 DEF Piece, AS!Count
  <2>3. AS!Send(AS!Count(w)) \in HostSteps /\ AS!Expect(AS!ACK) \in HostSteps
    BY AsCount, AsHostSteps DEF AS!ACK
  <2> DEFINE d == WData(p, w)
  <2>4. d = <<AS!Send(AS!Count(w)), AS!Expect(AS!ACK)>>
    BY <1>1 DEF WData
  <2> HIDE DEF d
  <2>5. d \in Seq(HostSteps) /\ Len(d) = 2 /\ d[1] = AS!Send(AS!Count(w)) /\ d[2] = AS!Expect(AS!ACK)
    BY <2>3, <2>4
  <2>6. \A i \in 1 .. 1 : i = 1 /\ 2 * i - 1 = 1 /\ 2 * i = 2
    OBVIOUS
  <2>7. \A i \in 1 .. 1 : d[2 * i - 1] = AS!Send(Piece(w, w, i)) /\ d[2 * i] = AS!Expect(AS!ACK)
    BY <2>2, <2>5, <2>6
  <2>8. 2 * 1 = 2 /\ 1 \in Nat \ {0}
    OBVIOUS
  <2> QED BY <2>1, <2>5, <2>7, <2>8 DEF d
<1>2. CASE p # "mw"
  <2>1. WBlocks(p, w) = AS!Blocks(w, wchunk) /\ WChunk(p, w) = wchunk /\ WData(p, w) = AS!Written(AS!Count(w))
    BY <1>2 DEF WBlocks, WChunk, WData
  <2> QED BY <2>1, AsWritten, AsBlocks, AsConst
<1> QED BY <1>1, <1>2

LEMMA AsWriteProgram ==
    ASSUME NEW p \in Protocols, NEW w \in Nat \ {0}, NEW r \in Nat
    PROVE  Headed(<<AS!Send(WHead(p, w, r)), AS!Expect(WCmd(p))>> \o WData(p, w),
                  AS!Send(WHead(p, w, r)), AS!Expect(WCmd(p)), WData(p, w), WBlocks(p, w))
<1>1. AS!Send(WHead(p, w, r)) \in HostSteps /\ AS!Expect(WCmd(p)) \in HostSteps
  BY AsHeads, AsHostSteps
<1>2. WBlocks(p, w) \in Nat /\ WData(p, w) \in Seq(HostSteps) /\ Len(WData(p, w)) = 2 * WBlocks(p, w)
  BY AsWData
<1> QED BY <1>1, <1>2, AsHeaded

LEMMA AsReadProgram ==
    ASSUME NEW p \in Protocols, NEW r \in Nat \ {0}
    PROVE  Headed(<<AS!Send(RHead(p, r)), AS!Expect(RCmd(p))>> \o AS!ReadBack(r),
                  AS!Send(RHead(p, r)), AS!Expect(RCmd(p)), AS!ReadBack(r), RBlocks(r))
<1>1. AS!Send(RHead(p, r)) \in HostSteps /\ AS!Expect(RCmd(p)) \in HostSteps
  BY AsHeads, AsHostSteps
<1>2. RBlocks(r) \in Nat /\ AS!ReadBack(r) \in Seq(HostSteps) /\ Len(AS!ReadBack(r)) = 2 * RBlocks(r)
  BY AsReadBack, AsBlocks, AsConst DEF RBlocks
<1> QED BY <1>1, <1>2, AsHeaded

(* A program with its two parts is one of a call.                             *)
LEMMA AsProgram ==
    ASSUME NEW p \in Protocols, NEW w \in Nat \ {0}, NEW r \in Nat, NEW u, NEW t,
           Headed(u, AS!Send(WHead(p, w, r)), AS!Expect(WCmd(p)), WData(p, w), WBlocks(p, w)),
           IF r = 0 THEN t = u
           ELSE \E v : /\ Headed(v, AS!Send(RHead(p, r)), AS!Expect(RCmd(p)), AS!ReadBack(r), RBlocks(r))
                       /\ t = u \o v
    PROVE  Program(t, p, w, r)
<1> DEFINE B == WBlocks(p, w)
           C == RBlocks(r)
<1>1. /\ B \in Nat \ {0}
      /\ \A i \in 1 .. B :
                 /\ WData(p, w)[2 * i - 1] = AS!Send(Piece(w, WChunk(p, w), i))
                 /\ WData(p, w)[2 * i] = AS!Expect(AS!ACK)
  BY AsWData
<1>2. /\ u \in Seq(HostSteps) /\ Len(u) = 2 * B + 2
      /\ u[1] = AS!Send(WHead(p, w, r)) /\ u[2] = AS!Expect(WCmd(p))
      /\ \A i \in 1 .. B : u[2 * i + 1] = AS!Send(Piece(w, WChunk(p, w), i)) /\ u[2 * i + 2] = AS!Expect(AS!ACK)
  BY <1>1 DEF Headed
<1> HIDE DEF B
<1>3. WritePart(u, p, w, r)
  BY <1>2 DEF WritePart, B
<1>4. CASE r = 0
  BY <1>2, <1>3, <1>4 DEF Program, WLen, RLen, B
<1>5. CASE r # 0
  <2>1. PICK v : /\ Headed(v, AS!Send(RHead(p, r)), AS!Expect(RCmd(p)), AS!ReadBack(r), RBlocks(r))
                 /\ t = u \o v
    BY <1>5
  <2>2. /\ C \in Nat \ {0}
        /\ \A i \in 1 .. C :
                     /\ AS!ReadBack(r)[2 * i - 1] = AS!Recv(Upto(r, rchunk, i) - Upto(r, rchunk, i - 1))
                     /\ AS!ReadBack(r)[2 * i] = AS!Send(<<AS!ACK>>)
    BY <1>5, AsReadBack, AsBlocks, AsConst DEF RBlocks
  <2>3. /\ v \in Seq(HostSteps) /\ Len(v) = 2 * C + 2
        /\ v[1] = AS!Send(RHead(p, r)) /\ v[2] = AS!Expect(RCmd(p))
        /\ \A i \in 1 .. C : /\ v[2 * i + 1] = AS!Recv(Upto(r, rchunk, i) - Upto(r, rchunk, i - 1))
                             /\ v[2 * i + 2] = AS!Send(<<AS!ACK>>)
    BY <2>1, <2>2 DEF Headed
  <2> HIDE DEF C
  <2>4. /\ t \in Seq(HostSteps) /\ Len(t) = Len(u) + Len(v)
        /\ \A i \in 1 .. Len(u) : t[i] = u[i]
        /\ \A i \in 1 .. Len(v) : t[Len(u) + i] = v[i]
    <3>1. /\ u \o v \in Seq(HostSteps) /\ Len(u \o v) = Len(u) + Len(v)
          /\ \A i \in 1 .. Len(u) : (u \o v)[i] = u[i]
          /\ \A i \in 1 .. Len(v) : (u \o v)[Len(u) + i] = v[i]
      <4>1. u \in Seq(HostSteps) /\ v \in Seq(HostSteps)
        BY <1>2, <2>3
      <4> QED BY <4>1, AsCat
    <3> QED BY <3>1, <2>1
  <2>5. WritePart(t, p, w, r)
    <3>1. 1 \in 1 .. Len(u) /\ 2 \in 1 .. Len(u)
      BY <1>1, <1>2
    <3>2. \A i \in 1 .. B : 2 * i + 1 \in 1 .. Len(u) /\ 2 * i + 2 \in 1 .. Len(u)
      BY <1>1, <1>2
    <3>3. \A i \in 1 .. B : t[2 * i + 1] = u[2 * i + 1] /\ t[2 * i + 2] = u[2 * i + 2]
      BY <2>4, <3>2
    <3> QED BY <1>2, <2>4, <3>1, <3>3 DEF WritePart, B
  <2>6. ReadPart(t, p, WLen(p, w), r)
    <3> DEFINE o == WLen(p, w)
    <3>1. o = Len(u) /\ o \in Nat
      BY <1>1, <1>2 DEF WLen, B
    <3> HIDE DEF o
    <3>2. 1 \in 1 .. Len(v) /\ 2 \in 1 .. Len(v)
      BY <2>2, <2>3
    <3>3. ASSUME NEW i \in 1 .. C PROVE t[o + 2 * i + 1] = v[2 * i + 1] /\ t[o + 2 * i + 2] = v[2 * i + 2]
      <4>1. 2 * i + 1 \in 1 .. Len(v) /\ 2 * i + 2 \in 1 .. Len(v)
        BY <2>2, <2>3
      <4>2. o + 2 * i + 1 = Len(u) + (2 * i + 1) /\ o + 2 * i + 2 = Len(u) + (2 * i + 2)
        BY <3>1
      <4> QED BY <2>4, <4>1, <4>2
    <3>4. t[o + 1] = v[1] /\ t[o + 2] = v[2]
      BY <2>4, <3>1, <3>2
    <3>5. ReadPart(t, p, o, r)
      BY <2>3, <3>3, <3>4 DEF ReadPart, C
    <3> QED BY <3>5 DEF o
  <2> QED BY <1>1, <1>2, <1>5, <2>2, <2>3, <2>4, <2>5, <2>6 DEF Program, WLen, RLen, B, C
<1> QED BY <1>4, <1>5

(* What a call is to put on the bus.                                         *)
Levels == {<<"low">>, <<"high">>, <<"start">>, <<"stop">>, <<"address", "w">>, <<"address", "r">>}
Events ==
    Levels \cup {<<"out", n>> : n \in Nat} \cup {<<"bits", n, m>> : n \in Nat, m \in Nat}
    \cup {<<"in", a>> : a \in {"-", "ack", "nack"}}
Opening(p) == IF p = "i2c" THEN 2 ELSE 1
Turn(p) == IF p = "i2c" THEN 2 ELSE 0
OutEvent(p, w, i) ==
    IF p = "mw" THEN <<"bits", AS!Data(i), IF i = w THEN 3 ELSE 8>> ELSE <<"out", AS!Data(i)>>
Acked(p, r, i) == IF p # "i2c" THEN "-" ELSE IF i = r THEN "nack" ELSE "ack"
InEvent(p, r, i) == <<"in", Acked(p, r, i)>>
EndEvent(p) == IF p = "spi" THEN <<"high">> ELSE IF p = "i2c" THEN <<"stop">> ELSE <<"low">>
FrameLen(p, w, r) == Opening(p) + w + (IF r = 0 THEN 0 ELSE Turn(p) + r) + 1
Frame(f, p, w, r) ==
    /\ f \in Seq(Events) /\ Len(f) = FrameLen(p, w, r) /\ f[FrameLen(p, w, r)] = EndEvent(p)
    /\ IF p = "i2c" THEN f[1] = <<"start">> /\ f[2] = <<"address", "w">>
       ELSE f[1] = IF p = "spi" THEN <<"low">> ELSE <<"high">>
    /\ \A i \in 1 .. w : f[Opening(p) + i] = OutEvent(p, w, i)
    /\ r > 0 =>
          /\ p = "i2c" => f[w + 3] = <<"start">> /\ f[w + 4] = <<"address", "r">>
          /\ \A i \in 1 .. r : f[Opening(p) + w + Turn(p) + i] = InEvent(p, r, i)

Catenated(X, f, s, t) ==
    /\ f \in Seq(X) /\ Len(f) = Len(s) + Len(t)
    /\ \A i \in 1 .. Len(s) : f[i] = s[i]
    /\ \A i \in 1 .. Len(t) : f[Len(s) + i] = t[i]
LEMMA AsJoin ==
    ASSUME NEW X, NEW s \in Seq(X), NEW t \in Seq(X)
    PROVE  Catenated(X, s \o t, s, t)
BY AsCat DEF Catenated

(* A frame in three parts, the second and the third of events counted from 1.  *)
InThree(X, f, a, b, c) ==
    /\ f \in Seq(X) /\ Len(f) = Len(a) + Len(b) + Len(c)
    /\ \A i \in 1 .. Len(a) : f[i] = a[i]
    /\ \A i \in 1 .. Len(b) : f[Len(a) + i] = b[i]
    /\ \A i \in 1 .. Len(c) : f[Len(a) + Len(b) + i] = c[i]
LEMMA AsThree ==
    ASSUME NEW X, NEW a \in Seq(X), NEW b \in Seq(X), NEW c \in Seq(X)
    PROVE  InThree(X, a \o b \o c, a, b, c)
<1> DEFINE ab == a \o b
<1>1. /\ ab \in Seq(X) /\ Len(ab) = Len(a) + Len(b)
      /\ \A i \in 1 .. Len(a) : ab[i] = a[i]
      /\ \A i \in 1 .. Len(b) : ab[Len(a) + i] = b[i]
  <2> HIDE DEF ab
  <2>1. Catenated(X, ab, a, b)
    BY AsJoin DEF ab
  <2> QED BY <2>1 DEF Catenated
<1> HIDE DEF ab
<1> DEFINE f == ab \o c
<1>2. /\ f \in Seq(X) /\ Len(f) = Len(ab) + Len(c)
      /\ \A i \in 1 .. Len(ab) : f[i] = ab[i]
      /\ \A i \in 1 .. Len(c) : f[Len(ab) + i] = c[i]
  <2> HIDE DEF f
  <2>0. ab \in Seq(X)
    BY <1>1
  <2>1. Catenated(X, f, ab, c)
    BY <2>0, AsJoin DEF f
  <2> QED BY <2>1 DEF Catenated
<1> HIDE DEF f
<1>3. Len(a) \in Nat /\ Len(b) \in Nat
  OBVIOUS
<1>4. ASSUME NEW i \in 1 .. Len(b) PROVE f[Len(a) + i] = b[i]
  <2>1. Len(a) + i \in 1 .. Len(ab)
    BY <1>1, <1>3
  <2> QED BY <2>1, <1>1, <1>2
<1>5. ASSUME NEW i \in 1 .. Len(a) PROVE f[i] = a[i]
  <2>1. i \in 1 .. Len(ab)
    BY <1>1, <1>3
  <2> QED BY <2>1, <1>1, <1>2
<1>6. InThree(X, f, a, b, c)
  BY <1>1, <1>2, <1>4, <1>5 DEF InThree
<1> QED BY <1>6 DEF f, ab

LEMMA AsEvents ==
    ASSUME NEW p \in Protocols, NEW w \in Nat \ {0}, NEW r \in Nat, NEW i \in Nat
    PROVE  /\ OutEvent(p, w, i) \in Events /\ InEvent(p, r, i) \in Events /\ EndEvent(p) \in Events
           /\ <<"start">> \in Events /\ <<"low">> \in Events /\ <<"high">> \in Events
           /\ <<"address", "w">> \in Events /\ <<"address", "r">> \in Events
<1>1. AS!Data(i) \in Nat
  BY DEF AS!Data
<1>2. Levels \subseteq Events
  BY DEF Events
<1>4. OutEvent(p, w, i) \in Events
  BY <1>1 DEF OutEvent, Events
<1>5. InEvent(p, r, i) \in Events
  BY DEF InEvent, Acked, Events
<1>6. EndEvent(p) \in Levels
  BY DEF EndEvent, Levels
<1>7. /\ <<"start">> \in Levels /\ <<"low">> \in Levels /\ <<"high">> \in Levels
      /\ <<"address", "w">> \in Levels /\ <<"address", "r">> \in Levels
  BY DEF Levels
<1> HIDE DEF Events
<1> QED BY <1>2, <1>4, <1>5, <1>6, <1>7

Written3(p, w) == [i \in 1 .. w |-> OutEvent(p, w, i)]
Read3(p, r) == [i \in 1 .. r |-> InEvent(p, r, i)]
LEMMA AsEventSeqs ==
    ASSUME NEW p \in Protocols, NEW w \in Nat \ {0}, NEW r \in Nat
    PROVE  /\ Written3(p, w) \in Seq(Events) /\ Len(Written3(p, w)) = w
           /\ \A i \in 1 .. w : Written3(p, w)[i] = OutEvent(p, w, i)
           /\ Read3(p, r) \in Seq(Events) /\ Len(Read3(p, r)) = r
           /\ \A i \in 1 .. r : Read3(p, r)[i] = InEvent(p, r, i)
<1>1. (\A i \in 1 .. w : OutEvent(p, w, i) \in Events) /\ (\A i \in 1 .. r : InEvent(p, r, i) \in Events)
  BY AsEvents
<1> HIDE DEF Events
<1> QED BY <1>1 DEF Written3, Read3

Opener(p) == IF p = "i2c" THEN <<<<"start">>, <<"address", "w">>>>
             ELSE IF p = "spi" THEN <<<<"low">>>> ELSE <<<<"high">>>>

LEMMA AsFrameW ==
    ASSUME NEW p \in Protocols, NEW w \in Nat \ {0}
    PROVE  Frame(Opener(p) \o Written3(p, w) \o <<EndEvent(p)>>, p, w, 0)
<1> DEFINE e == <<EndEvent(p)>>
           a == Opener(p)
           b == Written3(p, w)
           f == a \o b \o e
<1>1. /\ a \in Seq(Events) /\ Len(a) = Opening(p)
      /\ IF p = "i2c" THEN a[1] = <<"start">> /\ a[2] = <<"address", "w">>
         ELSE a[1] = IF p = "spi" THEN <<"low">> ELSE <<"high">>
  <2> HIDE DEF Events
  <2> QED BY AsEvents DEF Opener, Opening, Protocols
<1>2. e \in Seq(Events) /\ Len(e) = 1 /\ e[1] = EndEvent(p)
  <2>1. EndEvent(p) \in Events
    BY AsEvents
  <2> QED BY <2>1
<1>3. /\ b \in Seq(Events) /\ Len(b) = w
      /\ \A i \in 1 .. w : b[i] = OutEvent(p, w, i)
  BY AsEventSeqs
<1> HIDE DEF a, b, e
<1>4. /\ f \in Seq(Events) /\ Len(f) = Opening(p) + w + 1
      /\ \A i \in 1 .. Opening(p) : f[i] = a[i]
      /\ \A i \in 1 .. w : f[Opening(p) + i] = b[i]
      /\ \A i \in 1 .. 1 : f[Opening(p) + w + i] = e[i]
  <2> HIDE DEF f
  <2>1. InThree(Events, f, a, b, e)
    <3> HIDE DEF Events
    <3>1. a \in Seq(Events) /\ b \in Seq(Events) /\ e \in Seq(Events)
      BY <1>1, <1>2, <1>3
    <3> QED BY <3>1, AsThree DEF f
  <2> HIDE DEF Events
  <2> QED BY <1>1, <1>2, <1>3, <2>1 DEF InThree
<1> HIDE DEF f
<1>5. FrameLen(p, w, 0) = Opening(p) + w + 1 /\ Opening(p) \in {1, 2}
  BY DEF FrameLen, Opening
<1>6. f[FrameLen(p, w, 0)] = EndEvent(p)
  BY <1>2, <1>4, <1>5
<1>7. IF p = "i2c" THEN f[1] = <<"start">> /\ f[2] = <<"address", "w">>
      ELSE f[1] = IF p = "spi" THEN <<"low">> ELSE <<"high">>
  BY <1>1, <1>4 DEF Opening
<1>8. Frame(f, p, w, 0)
  BY <1>3, <1>4, <1>5, <1>6, <1>7 DEF Frame
<1> QED BY <1>8 DEF f, a, b, e

LEMMA AsOpener ==
    ASSUME NEW p \in Protocols
    PROVE  /\ Opener(p) \in Seq(Events) /\ Len(Opener(p)) = Opening(p)
           /\ IF p = "i2c" THEN Opener(p)[1] = <<"start">> /\ Opener(p)[2] = <<"address", "w">>
              ELSE Opener(p)[1] = IF p = "spi" THEN <<"low">> ELSE <<"high">>
<1> HIDE DEF Events
<1>1. 1 \in Nat \ {0} /\ 0 \in Nat
  OBVIOUS
<1>2. <<"start">> \in Events /\ <<"low">> \in Events /\ <<"high">> \in Events /\ <<"address", "w">> \in Events
  BY <1>1, AsEvents
<1> QED BY <1>2 DEF Opener, Opening, Protocols

LEMMA AsFrameWR ==
    ASSUME NEW p \in Protocols, p # "i2c", NEW w \in Nat \ {0}, NEW r \in Nat \ {0}
    PROVE  Frame(Opener(p) \o Written3(p, w) \o Read3(p, r) \o <<EndEvent(p)>>, p, w, r)
<1> DEFINE e == <<EndEvent(p)>>
           a == Opener(p)
           b == Written3(p, w)
           c == Read3(p, r)
           g == a \o b \o c
           f == g \o e
           o == Opening(p)
<1> HIDE DEF Events
<1>1. /\ a \in Seq(Events) /\ Len(a) = o /\ o = 1 /\ a[1] = IF p = "spi" THEN <<"low">> ELSE <<"high">>
  BY AsOpener DEF Opening
<1>2. e \in Seq(Events) /\ Len(e) = 1 /\ e[1] = EndEvent(p)
  <2>1. EndEvent(p) \in Events
    BY AsEvents
  <2> QED BY <2>1
<1>3. /\ b \in Seq(Events) /\ Len(b) = w
      /\ \A i \in 1 .. w : b[i] = OutEvent(p, w, i)
  BY AsEventSeqs
<1>4. /\ c \in Seq(Events) /\ Len(c) = r
      /\ \A i \in 1 .. r : c[i] = InEvent(p, r, i)
  BY AsEventSeqs
<1> HIDE DEF a, b, c, e, o
<1>5. InThree(Events, g, a, b, c)
  BY <1>1, <1>3, <1>4, AsThree
<1>6. g \in Seq(Events) /\ Len(g) = 1 + w + r
  BY <1>1, <1>3, <1>4, <1>5 DEF InThree
<1> HIDE DEF g
<1>7. Catenated(Events, f, g, e)
  BY <1>2, <1>6, AsJoin
<1> HIDE DEF f
<1>8. f \in Seq(Events) /\ Len(f) = 1 + w + r + 1 /\ \A i \in 1 .. 1 + w + r : f[i] = g[i]
  BY <1>2, <1>6, <1>7 DEF Catenated
<1>9. f[1 + w + r + 1] = EndEvent(p)
  <2>1. 1 \in 1 .. Len(e)
    BY <1>2
  <2> QED BY <2>1, <1>2, <1>6, <1>7 DEF Catenated
<1>10. f[1] = IF p = "spi" THEN <<"low">> ELSE <<"high">>
  <2>1. 1 \in 1 .. 1 + w + r /\ 1 \in 1 .. 1
    OBVIOUS
  <2>2. g[1] = a[1]
    BY <1>1, <1>5, <2>1 DEF InThree
  <2> QED BY <1>1, <1>8, <2>1, <2>2
<1>11. ASSUME NEW i \in 1 .. w PROVE f[1 + i] = OutEvent(p, w, i)
  <2>1. 1 + i \in 1 .. 1 + w + r
    OBVIOUS
  <2>2. g[1 + i] = b[i]
    BY <1>1, <1>3, <1>5 DEF InThree
  <2> QED BY <1>3, <1>8, <2>1, <2>2
<1>12. ASSUME NEW i \in 1 .. r PROVE f[1 + w + 0 + i] = InEvent(p, r, i)
  <2>1. 1 + w + i \in 1 .. 1 + w + r /\ 1 + w + 0 + i = 1 + w + i
    OBVIOUS
  <2>2. g[1 + w + i] = c[i]
    BY <1>1, <1>3, <1>4, <1>5 DEF InThree
  <2> QED BY <1>4, <1>8, <2>1, <2>2
<1>13. FrameLen(p, w, r) = 1 + w + r + 1 /\ Turn(p) = 0
  BY <1>1 DEF FrameLen, Turn, o
<1>14. Frame(f, p, w, r)
  <2>1. Opening(p) = 1
    BY <1>1 DEF o
  <2>2. \A i \in 1 .. w : f[Opening(p) + i] = OutEvent(p, w, i)
    BY <1>11, <2>1
  <2>3. \A i \in 1 .. r : f[Opening(p) + w + Turn(p) + i] = InEvent(p, r, i)
    BY <1>12, <1>13, <2>1
  <2>4. f \in Seq(Events) /\ Len(f) = FrameLen(p, w, r) /\ f[FrameLen(p, w, r)] = EndEvent(p)
    BY <1>8, <1>9, <1>13
  <2> QED BY <1>10, <2>2, <2>3, <2>4 DEF Frame
<1> QED BY <1>14 DEF f, g, a, b, c, e

Turned == <<<<"start">>, <<"address", "r">>>>
LastRead == <<<<"in", "nack">>, <<"stop">>>>
LEMMA AsFrameI2C ==
    ASSUME NEW w \in Nat \ {0}, NEW r \in Nat \ {0}
    PROVE  Frame(Opener("i2c") \o Written3("i2c", w) \o Turned \o AS!Ins(r - 1, "ack") \o LastRead,
                 "i2c", w, r)
<1> DEFINE p == "i2c"
           e == LastRead
           a == Opener(p)
           b == Written3(p, w)
           c == Turned
           d == AS!Ins(r - 1, "ack")
           g == a \o b \o c
           f == g \o d \o e
<1> HIDE DEF Events
<1>1. /\ a \in Seq(Events) /\ Len(a) = 2 /\ a[1] = <<"start">> /\ a[2] = <<"address", "w">>
  BY AsOpener DEF Opening, Protocols
<1>2. /\ e \in Seq(Events) /\ Len(e) = 2 /\ e[1] = <<"in", "nack">> /\ e[2] = <<"stop">>
  <2>1. <<"in", "nack">> \in Events /\ <<"stop">> \in Events
    BY DEF Events, Levels
  <2> QED BY <2>1 DEF LastRead
<1>3. /\ b \in Seq(Events) /\ Len(b) = w
      /\ \A i \in 1 .. w : b[i] = OutEvent(p, w, i)
  BY AsEventSeqs DEF Protocols
<1>4. /\ c \in Seq(Events) /\ Len(c) = 2 /\ c[1] = <<"start">> /\ c[2] = <<"address", "r">>
  <2>1. <<"start">> \in Events /\ <<"address", "r">> \in Events
    BY DEF Events, Levels
  <2> QED BY <2>1 DEF Turned
<1>5. /\ d \in Seq(Events) /\ Len(d) = r - 1
      /\ \A i \in 1 .. r - 1 : d[i] = <<"in", "ack">>
  <2>1. <<"in", "ack">> \in Events
    BY DEF Events
  <2>2. r - 1 \in Nat
    OBVIOUS
  <2> QED BY <2>1, <2>2 DEF AS!Ins
<1> HIDE DEF a, b, c, d, e
<1>6. InThree(Events, g, a, b, c)
  BY <1>1, <1>3, <1>4, AsThree
<1>7. g \in Seq(Events) /\ Len(g) = w + 4
  BY <1>1, <1>3, <1>4, <1>6 DEF InThree
<1> HIDE DEF g
<1>8. InThree(Events, f, g, d, e)
  BY <1>2, <1>5, <1>7, AsThree
<1> HIDE DEF f
<1>9. /\ f \in Seq(Events) /\ Len(f) = w + r + 5 /\ \A i \in 1 .. w + 4 : f[i] = g[i]
      /\ \A i \in 1 .. r - 1 : f[w + 4 + i] = d[i]
      /\ f[w + 4 + (r - 1) + 1] = e[1] /\ f[w + 4 + (r - 1) + 2] = e[2]
  <2>1. 1 \in 1 .. Len(e) /\ 2 \in 1 .. Len(e)
    BY <1>2
  <2> QED BY <2>1, <1>2, <1>5, <1>7, <1>8 DEF InThree
<1>10. w + 4 + (r - 1) + 2 = w + r + 5 /\ w + 4 + (r - 1) + 1 = w + 4 + r
  OBVIOUS
<1>11. f[1] = <<"start">> /\ f[2] = <<"address", "w">>
  <2>1. 1 \in 1 .. Len(a) /\ 2 \in 1 .. Len(a) /\ 1 \in 1 .. w + 4 /\ 2 \in 1 .. w + 4
    BY <1>1
  <2>2. g[1] = a[1] /\ g[2] = a[2]
    BY <1>6, <2>1 DEF InThree
  <2> QED BY <1>1, <1>9, <2>1, <2>2
<1>12. ASSUME NEW i \in 1 .. w PROVE f[2 + i] = OutEvent(p, w, i)
  <2>1. 2 + i \in 1 .. w + 4
    OBVIOUS
  <2>2. g[2 + i] = b[i]
    BY <1>1, <1>3, <1>6 DEF InThree
  <2> QED BY <1>3, <1>9, <2>1, <2>2
<1>13. f[w + 3] = <<"start">> /\ f[w + 4] = <<"address", "r">>
  <2>1. 1 \in 1 .. Len(c) /\ 2 \in 1 .. Len(c) /\ w + 3 \in 1 .. w + 4 /\ w + 4 \in 1 .. w + 4
    BY <1>4
  <2>2. 2 + w + 1 = w + 3 /\ 2 + w + 2 = w + 4
    OBVIOUS
  <2>3. g[2 + w + 1] = c[1] /\ g[2 + w + 2] = c[2]
    BY <1>1, <1>3, <1>6, <2>1 DEF InThree
  <2> QED BY <1>4, <1>9, <2>1, <2>2, <2>3
<1>14. ASSUME NEW i \in 1 .. r PROVE f[2 + w + 2 + i] = InEvent(p, r, i)
  <2>1. 2 + w + 2 + i = w + 4 + i
    OBVIOUS
  <2>2. CASE i = r
    BY <1>2, <1>9, <1>10, <2>1, <2>2 DEF InEvent, Acked
  <2>3. CASE i # r
    <3>1. i \in 1 .. r - 1
      BY <2>3
    <3> QED BY <1>5, <1>9, <2>1, <2>3, <3>1 DEF InEvent, Acked
  <2> QED BY <2>2, <2>3
<1>15. Opening(p) = 2 /\ Turn(p) = 2 /\ FrameLen(p, w, r) = w + r + 5 /\ EndEvent(p) = <<"stop">>
  BY DEF Opening, Turn, FrameLen, EndEvent
<1>16. Frame(f, p, w, r)
  <2>2. \A i \in 1 .. w : f[Opening(p) + i] = OutEvent(p, w, i)
    BY <1>12, <1>15
  <2>3. \A i \in 1 .. r : f[Opening(p) + w + Turn(p) + i] = InEvent(p, r, i)
    BY <1>14, <1>15
  <2>4. f \in Seq(Events) /\ Len(f) = FrameLen(p, w, r) /\ f[FrameLen(p, w, r)] = EndEvent(p)
    BY <1>2, <1>9, <1>10, <1>15
  <2> HIDE DEF p
  <2> QED BY <1>11, <1>13, <2>2, <2>3, <2>4 DEF Frame, p
<1> QED BY <1>16 DEF f, g, a, b, c, d, e

(* A call of protocol p that writes w bytes and reads r.                     *)
Listed(p, w, r) == (p # "i2c" => w \in Writes) /\ (r # 0 => r \in Reads)
IsTransfer(c, p, w, r) ==
    /\ c.k = "bus" /\ Program(c.todo, p, w, r) /\ Frame(c.want, p, w, r)
    /\ c.give = [i \in 1 .. r |-> AS!Cell(i)]
    /\ p = "i2c" => w \in I2CWrites
    /\ Listed(p, w, r)

(* One byte over I2C between a start and a stop; arg is what the header says.   *)
ByteSteps(cmd, arg) ==
    <<AS!Send(<< 23 >>), AS!Send(<<cmd, arg>>), AS!Expect(cmd), AS!Recv(1), AS!Send(<< 24 >>)>>
IsByte(c, cmd) ==
    /\ c.k = "bus"
    /\ \/ /\ cmd = 26 /\ c.todo = ByteSteps(26, AS!Data(1)) /\ c.give = << >>
          /\ c.want = <<<<"start">>, <<"out", AS!Data(1)>>, <<"stop">>>>
       \/ /\ cmd = 25 /\ c.todo = ByteSteps(25, 1) /\ c.give = <<AS!Cell(1)>>
          /\ c.want = <<<<"start">>, <<"in", "nack">>, <<"stop">>>>
IsBusy(c) ==
    /\ c.k = "bus" /\ c.todo = <<AS!Send(<< 32 >>), AS!Expect(32), AS!Recv(1)>>
    /\ c.want = <<<<"high">>, <<"low">>>> /\ c.give = << >>
IsBusCall(c, p) ==
    \/ \E w \in Nat \ {0}, r \in Nat : IsTransfer(c, p, w, r)
    \/ p = "i2c" /\ \E cmd \in {25, 26} : IsByte(c, cmd)
    \/ p = "mw" /\ IsBusy(c)

Codes == /\ AS!FUNC_SPI_INIT = 7 /\ AS!FUNC_SPI_DEINIT = 8 /\ AS!FUNC_SPI_READ = 10 /\ AS!FUNC_SPI_WRITE = 11
         /\ AS!FUNC_I2C_INIT = 20 /\ AS!FUNC_I2C_READ = 21 /\ AS!FUNC_I2C_WRITE = 22 /\ AS!FUNC_I2C_START = 23
         /\ AS!FUNC_I2C_STOP = 24 /\ AS!FUNC_I2C_READBYTE = 25 /\ AS!FUNC_I2C_WRITEBYTE = 26
         /\ AS!FUNC_MW_READ = 30 /\ AS!FUNC_MW_WRITE = 31 /\ AS!FUNC_MW_BUSY = 32 /\ AS!FUNC_MW_INIT = 33
         /\ AS!FUNC_MW_DEINIT = 34 /\ AS!ACK = 81
LEMMA AsCodes == Codes
BY DEF Codes, AS!FUNC_SPI_INIT, AS!FUNC_SPI_DEINIT, AS!FUNC_SPI_READ, AS!FUNC_SPI_WRITE, AS!FUNC_I2C_INIT,
  AS!FUNC_I2C_READ, AS!FUNC_I2C_WRITE, AS!FUNC_I2C_START, AS!FUNC_I2C_STOP, AS!FUNC_I2C_READBYTE,
  AS!FUNC_I2C_WRITEBYTE, AS!FUNC_MW_READ, AS!FUNC_MW_WRITE, AS!FUNC_MW_BUSY, AS!FUNC_MW_INIT,
  AS!FUNC_MW_DEINIT, AS!ACK

(* The two parts of a program as the backend writes them.                     *)
WProg(p, w, r) == <<AS!Send(WHead(p, w, r)), AS!Expect(WCmd(p))>> \o WData(p, w)
RProg(p, r) == <<AS!Send(RHead(p, r)), AS!Expect(RCmd(p))>> \o AS!ReadBack(r)

LEMMA AsPrograms ==
    ASSUME NEW p \in Protocols, NEW w \in Nat \ {0}
    PROVE  /\ Program(WProg(p, w, 0), p, w, 0)
           /\ \A r \in Nat \ {0} : Program(WProg(p, w, r) \o RProg(p, r), p, w, r)
<1>1. Program(WProg(p, w, 0), p, w, 0)
  <2> DEFINE u == WProg(p, w, 0)
  <2>1. Headed(u, AS!Send(WHead(p, w, 0)), AS!Expect(WCmd(p)), WData(p, w), WBlocks(p, w))
    BY AsWriteProgram DEF WProg
  <2> HIDE DEF u
  <2>2. Program(u, p, w, 0)
    BY <2>1, AsProgram
  <2> QED BY <2>2 DEF u
<1>2. ASSUME NEW r \in Nat \ {0} PROVE Program(WProg(p, w, r) \o RProg(p, r), p, w, r)
  <2> DEFINE u == WProg(p, w, r)
             v == RProg(p, r)
             t == u \o v
  <2>1. Headed(u, AS!Send(WHead(p, w, r)), AS!Expect(WCmd(p)), WData(p, w), WBlocks(p, w))
    BY AsWriteProgram DEF WProg
  <2>2. Headed(v, AS!Send(RHead(p, r)), AS!Expect(RCmd(p)), AS!ReadBack(r), RBlocks(r))
    BY AsReadProgram DEF RProg
  <2>3. IF r = 0 THEN t = u
        ELSE \E x : /\ Headed(x, AS!Send(RHead(p, r)), AS!Expect(RCmd(p)), AS!ReadBack(r), RBlocks(r))
                    /\ t = u \o x
    BY <2>2
  <2> HIDE DEF u, v, t
  <2>4. Program(t, p, w, r)
    BY <2>1, <2>3, AsProgram
  <2> QED BY <2>4 DEF t, u, v
<1> QED BY <1>1, <1>2

LEMMA AsOuts ==
    ASSUME NEW w \in Nat, NEW r \in Nat
    PROVE  /\ AS!Outs(w) = Written3("spi", w) /\ AS!Outs(w) = Written3("i2c", w)
           /\ AS!BitsOut(w) = Written3("mw", w)
           /\ AS!Ins(r, "-") = Read3("spi", r) /\ AS!Ins(r, "-") = Read3("mw", r)
BY DEF AS!Outs, Written3, OutEvent, AS!BitsOut, AS!Ins, Read3, InEvent, Acked

LEMMA AsFour ==
    ASSUME NEW X, NEW a \in X, NEW b \in X, NEW c \in X, NEW d \in X
    PROVE  <<a, b>> \o <<c, d>> = <<a, b, c, d>>
<1> DEFINE s == <<a, b>>
           t == <<c, d>>
           u == s \o t
           v == <<a, b, c, d>>
<1>1. s \in Seq(X) /\ t \in Seq(X) /\ Len(s) = 2 /\ Len(t) = 2 /\ s[1] = a /\ s[2] = b /\ t[1] = c /\ t[2] = d
  OBVIOUS
<1>2. v \in Seq(X) /\ Len(v) = 4 /\ v[1] = a /\ v[2] = b /\ v[3] = c /\ v[4] = d
  OBVIOUS
<1> HIDE DEF s, t, v
<1> HIDE DEF u
<1>6. Catenated(X, u, s, t)
  BY <1>1, AsJoin DEF u
<1>3. u \in Seq(X) /\ Len(u) = 4 /\ u[1] = s[1] /\ u[2] = s[2] /\ u[2 + 1] = t[1] /\ u[2 + 2] = t[2]
  <2>1. 1 \in 1 .. 2 /\ 2 \in 1 .. 2 /\ 2 + 2 = 4
    OBVIOUS
  <2> QED BY <1>1, <1>6, <2>1 DEF Catenated
<1>4. \A j \in 1 .. Len(u) : u[j] = v[j]
  <2>1. \A j \in 1 .. 4 : j = 1 \/ j = 2 \/ j = 3 \/ j = 4
    OBVIOUS
  <2> QED BY <1>1, <1>2, <1>3, <2>1
<1>5. u = v
  BY <1>2, <1>3, <1>4, AsSame
<1> QED BY <1>5 DEF s, t, u, v

LEMMA AsMwBytes ==
    ASSUME NEW w \in Nat \ {0}
    PROVE  (8 * w - 5 + 7) \div 8 = w
OBVIOUS

LEMMA AsSources ==
    ASSUME NEW w \in Nat \ {0}
    PROVE  /\ AS!SPIWrite(1, w) = WProg("spi", w, 0)
           /\ AS!I2CReadWrite(w, 0) = WProg("i2c", w, 0)
           /\ AS!MWWrite(1, 8 * w - 5) = WProg("mw", w, 0)
           /\ \A r \in Nat \ {0} : /\ AS!SPIWrite(0, w) = WProg("spi", w, r) /\ AS!SPIRead(1, r) = RProg("spi", r)
                                   /\ AS!I2CReadWrite(w, r) = WProg("i2c", w, r) \o RProg("i2c", r)
                                   /\ AS!MWWrite(0, 8 * w - 5) = WProg("mw", w, r) /\ AS!MWRead(1, r) = RProg("mw", r)
<1>1. Codes
  BY AsCodes
<1>2. AS!SPIWrite(1, w) = WProg("spi", w, 0)
  BY <1>1 DEF Codes, AS!SPIWrite, WProg, WHead, WCmd, WData, EndFlag
<1>3. ASSUME NEW r \in Nat \ {0}
      PROVE  AS!SPIWrite(0, w) = WProg("spi", w, r) /\ AS!SPIRead(1, r) = RProg("spi", r)
  BY <1>1 DEF Codes, AS!SPIWrite, AS!SPIRead, WProg, WHead, WCmd, WData, EndFlag, RProg, RHead, RCmd
<1>4. /\ EndFlag(0) = 1 /\ \A r \in Nat \ {0} : EndFlag(r) = 0
  BY DEF EndFlag
<1>5. \A r \in Nat : WProg("i2c", w, r)
           = <<AS!Send(<<22, 160, EndFlag(r), 0, w>>), AS!Expect(22)>> \o AS!Written(AS!Count(w))
  BY DEF WProg, WHead, WCmd, WData
<1>6. \A r \in Nat : WProg("mw", w, r)
           = <<AS!Send(<<31, EndFlag(r), 8 * w - 5, 0, w>>), AS!Expect(31)>> \o <<AS!Send(AS!Count(w)), AS!Expect(AS!ACK)>>
  BY DEF WProg, WHead, WCmd, WData
<1>7. \A r \in Nat : RProg("mw", r) = AS!MWRead(1, r)
  BY <1>1 DEF Codes, AS!MWRead, RProg, RHead, RCmd
<1>8. \A r \in Nat : RProg("i2c", r) = <<AS!Send(<<21, 160, 0, r>>), AS!Expect(21)>> \o AS!ReadBack(r)
  BY DEF RProg, RHead, RCmd
<1>9. AS!I2CReadWrite(w, 0) = WProg("i2c", w, 0)
  <2>1. <<AS!Send(<<22, 160, 1, 0, w>>), AS!Expect(22)>> \o AS!Written(AS!Count(w)) \in Seq(HostSteps)
    <3>1. WProg("i2c", w, 0) \in Seq(HostSteps)
      BY AsPrograms DEF Program, Protocols
    <3> QED BY <1>4, <1>5, <3>1
  <2> DEFINE q == <<AS!Send(<<22, 160, 1, 0, w>>), AS!Expect(22)>> \o AS!Written(AS!Count(w))
  <2>2. AS!I2CReadWrite(w, 0) = q \o << >>
    BY <1>1 DEF Codes, AS!I2CReadWrite
  <2>3. q \in Seq(HostSteps) /\ q = WProg("i2c", w, 0)
    BY <1>4, <1>5, <2>1
  <2> HIDE DEF q
  <2>4. q \o << >> = q
    BY <2>3
  <2> QED BY <2>2, <2>3, <2>4
<1>10. \A r \in Nat \ {0} : AS!I2CReadWrite(w, r) = WProg("i2c", w, r) \o RProg("i2c", r)
  <2> SUFFICES ASSUME NEW r \in Nat \ {0}
               PROVE  AS!I2CReadWrite(w, r) = WProg("i2c", w, r) \o RProg("i2c", r)
    OBVIOUS
  <2>0. r > 0 /\ r # 0 /\ r \in Nat
    OBVIOUS
  <2>1. AS!I2CReadWrite(w, r) = <<AS!Send(<<22, 160, 0, 0, w>>), AS!Expect(22)>> \o AS!Written(AS!Count(w))
                              \o (<<AS!Send(<<21, 160, 0, r>>), AS!Expect(21)>> \o AS!ReadBack(r))
    BY <1>1, <2>0 DEF Codes, AS!I2CReadWrite
  <2>2. WProg("i2c", w, r) = <<AS!Send(<<22, 160, 0, 0, w>>), AS!Expect(22)>> \o AS!Written(AS!Count(w))
    BY <1>4, <1>5, <2>0
  <2>3. RProg("i2c", r) = <<AS!Send(<<21, 160, 0, r>>), AS!Expect(21)>> \o AS!ReadBack(r)
    BY <1>8, <2>0
  <2> QED BY <2>1, <2>2, <2>3
<1>11. /\ AS!MWWrite(1, 8 * w - 5) = WProg("mw", w, 0)
       /\ \A r \in Nat \ {0} : AS!MWWrite(0, 8 * w - 5) = WProg("mw", w, r)
  <2>1. \A cs : AS!MWWrite(cs, 8 * w - 5)
          = <<AS!Send(<<31, cs, 8 * w - 5, 0, w>>), AS!Expect(31), AS!Send(AS!Count(w)), AS!Expect(AS!ACK)>>
    BY <1>1, AsMwBytes DEF Codes, AS!MWWrite
  <2>2. ASSUME NEW r \in Nat
        PROVE  WProg("mw", w, r) = <<AS!Send(<<31, EndFlag(r), 8 * w - 5, 0, w>>), AS!Expect(31),
                                     AS!Send(AS!Count(w)), AS!Expect(AS!ACK)>>
    <3>1. <<31, EndFlag(r), 8 * w - 5, 0, w>> \in Seq(Nat)
      <4>1. EndFlag(r) \in Nat /\ 8 * w - 5 \in Nat
        BY DEF EndFlag
      <4> QED BY <4>1
    <3>2. AS!Send(<<31, EndFlag(r), 8 * w - 5, 0, w>>) \in HostSteps
      <4> DEFINE h == <<31, EndFlag(r), 8 * w - 5, 0, w>>
      <4>1. h \in Seq(Nat)
        BY <3>1
      <4> HIDE DEF h
      <4>2. AS!Send(h) \in HostSteps
        BY <4>1, AsHostSteps
      <4> QED BY <4>2 DEF h
    <3>3. AS!Expect(31) \in HostSteps
      <4>1. << >> \in Seq(Nat) /\ 31 \in Nat
        OBVIOUS
      <4> QED BY <4>1, AsHostSteps
    <3>4. AS!Send(AS!Count(w)) \in HostSteps /\ AS!Expect(AS!ACK) \in HostSteps
      BY AsCount, AsHostSteps DEF AS!ACK
    <3>5. <<AS!Send(<<31, EndFlag(r), 8 * w - 5, 0, w>>), AS!Expect(31)>> \o <<AS!Send(AS!Count(w)), AS!Expect(AS!ACK)>>
          = <<AS!Send(<<31, EndFlag(r), 8 * w - 5, 0, w>>), AS!Expect(31), AS!Send(AS!Count(w)), AS!Expect(AS!ACK)>>
      BY <3>2, <3>3, <3>4, AsFour
    <3> QED BY <1>6, <3>5
  <2>3. WProg("mw", w, 0) = AS!MWWrite(1, 8 * w - 5)
    BY <1>4, <2>1, <2>2
  <2>4. ASSUME NEW r \in Nat \ {0} PROVE WProg("mw", w, r) = AS!MWWrite(0, 8 * w - 5)
    BY <1>4, <2>1, <2>2
  <2> QED BY <2>3, <2>4
<1> QED BY <1>2, <1>3, <1>7, <1>9, <1>10, <1>11

LEMMA AsGive ==
    ASSUME NEW k, NEW todo, NEW want, NEW give
    PROVE  /\ AS!Call(k, todo, want, give).k = k /\ AS!Call(k, todo, want, give).todo = todo
           /\ AS!Call(k, todo, want, give).want = want
           /\ AS!Call(k, todo, want, give).give = [i \in 1 .. give |-> AS!Cell(i)]
BY DEF AS!Call

LEMMA AsTransfer ==
    ASSUME NEW p, NEW w, NEW r, NEW todo, NEW want,
           Program(todo, p, w, r), Frame(want, p, w, r), p = "i2c" => w \in I2CWrites, Listed(p, w, r)
    PROVE  IsTransfer(AS!Call("bus", todo, want, r), p, w, r)
BY AsGive DEF IsTransfer

LEMMA AsOthers ==
    ASSUME NEW todo, NEW want
    PROVE  /\ todo = <<AS!Send(<< 32 >>), AS!Expect(32), AS!Recv(1)>> /\ want = <<<<"high">>, <<"low">>>> =>
                 IsBusy(AS!Call("bus", todo, want, 0))
           /\ todo = ByteSteps(26, AS!Data(1)) /\ want = <<<<"start">>, <<"out", AS!Data(1)>>, <<"stop">>>> =>
                 IsByte(AS!Call("bus", todo, want, 0), 26)
           /\ todo = ByteSteps(25, 1) /\ want = <<<<"start">>, <<"in", "nack">>, <<"stop">>>> =>
                 IsByte(AS!Call("bus", todo, want, 1), 25)
<1>1. [i \in 1 .. 0 |-> AS!Cell(i)] = << >> /\ [i \in 1 .. 1 |-> AS!Cell(i)] = <<AS!Cell(1)>>
  OBVIOUS
<1> DEFINE c == AS!Call("bus", todo, want, 0)
           d == AS!Call("bus", todo, want, 1)
<1>5. /\ c.k = "bus" /\ c.todo = todo /\ c.want = want /\ c.give = << >>
      /\ d.k = "bus" /\ d.todo = todo /\ d.want = want /\ d.give = <<AS!Cell(1)>>
  <2>1. c.k = "bus" /\ c.todo = todo /\ c.want = want /\ c.give = [i \in 1 .. 0 |-> AS!Cell(i)]
    BY DEF AS!Call
  <2>2. d.k = "bus" /\ d.todo = todo /\ d.want = want /\ d.give = [i \in 1 .. 1 |-> AS!Cell(i)]
    BY DEF AS!Call
  <2> HIDE DEF c, d
  <2> QED BY <1>1, <2>1, <2>2
<1> HIDE DEF c, d
<1>2. todo = <<AS!Send(<< 32 >>), AS!Expect(32), AS!Recv(1)>> /\ want = <<<<"high">>, <<"low">>>> =>
                 IsBusy(c)
  BY <1>5 DEF IsBusy
<1>3. todo = ByteSteps(26, AS!Data(1)) /\ want = <<<<"start">>, <<"out", AS!Data(1)>>, <<"stop">>>> =>
                 IsByte(c, 26)
  BY <1>5 DEF IsByte
<1>4. todo = ByteSteps(25, 1) /\ want = <<<<"start">>, <<"in", "nack">>, <<"stop">>>> =>
                 IsByte(d, 25)
  BY <1>5 DEF IsByte
<1> QED BY <1>2, <1>3, <1>4 DEF c, d

LEMMA AsSpiCalls ==
    ASSUME NEW c \in AS!SpiCalls
    PROVE  IsBusCall(c, "spi")
<1>0. "spi" \in Protocols /\ "spi" # "i2c" /\ Writes \subseteq Nat \ {0} /\ Reads \subseteq Nat \ {0}
  BY AsConst DEF Protocols
<1> HIDE DEF Events
<1>1. ASSUME NEW w \in Writes,
             c = AS!Call("bus", AS!SPIWrite(1, w), <<<<"low">>>> \o AS!Outs(w) \o <<<<"high">>>>, 0)
      PROVE  IsTransfer(c, "spi", w, 0)
  <2>1. w \in Nat \ {0} /\ 0 \in Nat
    BY <1>0
  <2>2. Program(AS!SPIWrite(1, w), "spi", w, 0)
    BY <1>0, <2>1, AsPrograms, AsSources
  <2>3. Frame(<<<<"low">>>> \o AS!Outs(w) \o <<<<"high">>>>, "spi", w, 0)
    <3>1. Opener("spi") = <<<<"low">>>> /\ EndEvent("spi") = <<"high">> /\ AS!Outs(w) = Written3("spi", w)
      BY <2>1, AsOuts DEF Opener, EndEvent
    <3>2. Frame(Opener("spi") \o Written3("spi", w) \o <<EndEvent("spi")>>, "spi", w, 0)
      BY <1>0, <2>1, AsFrameW
    <3> QED BY <3>1, <3>2
  <2> QED BY <1>0, <1>1, <2>2, <2>3, AsTransfer DEF Listed
<1>2. ASSUME NEW w \in Writes, NEW r \in Reads,
             c = AS!Call("bus", AS!SPIWrite(0, w) \o AS!SPIRead(1, r),
                   <<<<"low">>>> \o AS!Outs(w) \o AS!Ins(r, "-") \o <<<<"high">>>>, r)
      PROVE  IsTransfer(c, "spi", w, r)
  <2>1. w \in Nat \ {0} /\ r \in Nat \ {0} /\ w \in Nat /\ r \in Nat
    BY <1>0
  <2>2. Program(AS!SPIWrite(0, w) \o AS!SPIRead(1, r), "spi", w, r)
    <3>1. Program(WProg("spi", w, r) \o RProg("spi", r), "spi", w, r)
      BY <1>0, <2>1, AsPrograms
    <3>2. AS!SPIWrite(0, w) = WProg("spi", w, r) /\ AS!SPIRead(1, r) = RProg("spi", r)
      BY <2>1, AsSources
    <3> QED BY <3>1, <3>2
  <2>3. Frame(<<<<"low">>>> \o AS!Outs(w) \o AS!Ins(r, "-") \o <<<<"high">>>>, "spi", w, r)
    <3>1. /\ Opener("spi") = <<<<"low">>>> /\ EndEvent("spi") = <<"high">> /\ AS!Outs(w) = Written3("spi", w)
          /\ AS!Ins(r, "-") = Read3("spi", r)
      BY <2>1, AsOuts DEF Opener, EndEvent
    <3>2. Frame(Opener("spi") \o Written3("spi", w) \o Read3("spi", r) \o <<EndEvent("spi")>>, "spi", w, r)
      BY <1>0, <2>1, AsFrameWR
    <3> QED BY <3>1, <3>2
  <2> QED BY <1>0, <1>2, <2>2, <2>3, AsTransfer DEF Listed
<1>3. \/ \E w \in Writes : c = AS!Call("bus", AS!SPIWrite(1, w), <<<<"low">>>> \o AS!Outs(w) \o <<<<"high">>>>, 0)
      \/ \E w \in Writes, r \in Reads :
            c = AS!Call("bus", AS!SPIWrite(0, w) \o AS!SPIRead(1, r),
                   <<<<"low">>>> \o AS!Outs(w) \o AS!Ins(r, "-") \o <<<<"high">>>>, r)
  BY DEF AS!SpiCalls
<1>4. \E w \in Nat \ {0}, r \in Nat : IsTransfer(c, "spi", w, r)
  BY <1>0, <1>1, <1>2, <1>3
<1> QED BY <1>4 DEF IsBusCall

LEMMA AsMwCalls ==
    ASSUME NEW c \in AS!MwCalls
    PROVE  IsBusCall(c, "mw")
<1>0. "mw" \in Protocols /\ "mw" # "i2c" /\ Writes \subseteq Nat \ {0} /\ Reads \subseteq Nat \ {0}
  BY AsConst DEF Protocols
<1> HIDE DEF Events
<1>1. ASSUME NEW w \in Writes,
             c = AS!Call("bus", AS!MWWrite(1, 8 * w - 5), <<<<"high">>>> \o AS!BitsOut(w) \o <<<<"low">>>>, 0)
      PROVE  IsTransfer(c, "mw", w, 0)
  <2>1. w \in Nat \ {0} /\ 0 \in Nat
    BY <1>0
  <2>2. Program(AS!MWWrite(1, 8 * w - 5), "mw", w, 0)
    BY <1>0, <2>1, AsPrograms, AsSources
  <2>3. Frame(<<<<"high">>>> \o AS!BitsOut(w) \o <<<<"low">>>>, "mw", w, 0)
    <3>1. Opener("mw") = <<<<"high">>>> /\ EndEvent("mw") = <<"low">> /\ AS!BitsOut(w) = Written3("mw", w)
      BY <2>1, AsOuts DEF Opener, EndEvent
    <3>2. Frame(Opener("mw") \o Written3("mw", w) \o <<EndEvent("mw")>>, "mw", w, 0)
      BY <1>0, <2>1, AsFrameW
    <3> QED BY <3>1, <3>2
  <2> QED BY <1>0, <1>1, <2>2, <2>3, AsTransfer DEF Listed
<1>2. ASSUME NEW w \in Writes, NEW r \in Reads,
             c = AS!Call("bus", AS!MWWrite(0, 8 * w - 5) \o AS!MWRead(1, r),
                   <<<<"high">>>> \o AS!BitsOut(w) \o AS!Ins(r, "-") \o <<<<"low">>>>, r)
      PROVE  IsTransfer(c, "mw", w, r)
  <2>1. w \in Nat \ {0} /\ r \in Nat \ {0} /\ w \in Nat /\ r \in Nat
    BY <1>0
  <2>2. Program(AS!MWWrite(0, 8 * w - 5) \o AS!MWRead(1, r), "mw", w, r)
    <3>1. Program(WProg("mw", w, r) \o RProg("mw", r), "mw", w, r)
      BY <1>0, <2>1, AsPrograms
    <3>2. AS!MWWrite(0, 8 * w - 5) = WProg("mw", w, r) /\ AS!MWRead(1, r) = RProg("mw", r)
      BY <2>1, AsSources
    <3> QED BY <3>1, <3>2
  <2>3. Frame(<<<<"high">>>> \o AS!BitsOut(w) \o AS!Ins(r, "-") \o <<<<"low">>>>, "mw", w, r)
    <3>1. /\ Opener("mw") = <<<<"high">>>> /\ EndEvent("mw") = <<"low">> /\ AS!BitsOut(w) = Written3("mw", w)
          /\ AS!Ins(r, "-") = Read3("mw", r)
      BY <2>1, AsOuts DEF Opener, EndEvent
    <3>2. Frame(Opener("mw") \o Written3("mw", w) \o Read3("mw", r) \o <<EndEvent("mw")>>, "mw", w, r)
      BY <1>0, <2>1, AsFrameWR
    <3> QED BY <3>1, <3>2
  <2> QED BY <1>0, <1>2, <2>2, <2>3, AsTransfer DEF Listed
<1>5. ASSUME c = AS!Call("bus", <<AS!Send(<<AS!FUNC_MW_BUSY>>), AS!Expect(AS!FUNC_MW_BUSY), AS!Recv(1)>>,
               <<<<"high">>, <<"low">>>>, 0)
      PROVE IsBusy(c)
  <2> QED BY <1>5, AsOthers, AsCodes DEF Codes
<1>3. \/ \E w \in Writes : c = AS!Call("bus", AS!MWWrite(1, 8 * w - 5), <<<<"high">>>> \o AS!BitsOut(w) \o <<<<"low">>>>, 0)
      \/ \E w \in Writes, r \in Reads :
            c = AS!Call("bus", AS!MWWrite(0, 8 * w - 5) \o AS!MWRead(1, r),
                   <<<<"high">>>> \o AS!BitsOut(w) \o AS!Ins(r, "-") \o <<<<"low">>>>, r)
      \/ c = AS!Call("bus", <<AS!Send(<<AS!FUNC_MW_BUSY>>), AS!Expect(AS!FUNC_MW_BUSY), AS!Recv(1)>>,
               <<<<"high">>, <<"low">>>>, 0)
  BY DEF AS!MwCalls
<1>4. (\E w \in Nat \ {0}, r \in Nat : IsTransfer(c, "mw", w, r)) \/ IsBusy(c)
  BY <1>0, <1>1, <1>2, <1>3, <1>5
<1> QED BY <1>4 DEF IsBusCall

LEMMA AsI2cCalls ==
    ASSUME NEW c \in AS!I2cCalls
    PROVE  IsBusCall(c, "i2c")
<1>0. "i2c" \in Protocols /\ I2CWrites \subseteq Nat \ {0} /\ Reads \subseteq Nat \ {0}
  BY AsConst DEF Protocols
<1> HIDE DEF Events
<1> DEFINE start == <<<<"start">>, <<"address", "w">>>>
<1>1. ASSUME NEW w \in I2CWrites,
             c = AS!Call("bus", AS!I2CReadWrite(w, 0), start \o AS!Outs(w) \o <<<<"stop">>>>, 0)
      PROVE  IsTransfer(c, "i2c", w, 0)
  <2>1. w \in Nat \ {0} /\ 0 \in Nat
    BY <1>0
  <2>2. Program(AS!I2CReadWrite(w, 0), "i2c", w, 0)
    BY <1>0, <2>1, AsPrograms, AsSources
  <2>3. Frame(start \o AS!Outs(w) \o <<<<"stop">>>>, "i2c", w, 0)
    <3>1. Opener("i2c") = start /\ EndEvent("i2c") = <<"stop">> /\ AS!Outs(w) = Written3("i2c", w)
      BY <2>1, AsOuts DEF Opener, EndEvent
    <3>2. Frame(Opener("i2c") \o Written3("i2c", w) \o <<EndEvent("i2c")>>, "i2c", w, 0)
      BY <1>0, <2>1, AsFrameW
    <3> QED BY <3>1, <3>2
  <2> QED BY <1>0, <1>1, <2>2, <2>3, AsTransfer DEF Listed
<1>2. ASSUME NEW w \in I2CWrites, NEW r \in Reads,
             c = AS!Call("bus", AS!I2CReadWrite(w, r),
                   start \o AS!Outs(w) \o <<<<"start">>, <<"address", "r">>>>
                   \o AS!Ins(r - 1, "ack") \o <<<<"in", "nack">>, <<"stop">>>>, r)
      PROVE  IsTransfer(c, "i2c", w, r)
  <2>1. w \in Nat \ {0} /\ r \in Nat \ {0} /\ w \in Nat /\ r \in Nat
    BY <1>0
  <2>2. Program(AS!I2CReadWrite(w, r), "i2c", w, r)
    <3>1. Program(WProg("i2c", w, r) \o RProg("i2c", r), "i2c", w, r)
      BY <1>0, <2>1, AsPrograms
    <3>2. AS!I2CReadWrite(w, r) = WProg("i2c", w, r) \o RProg("i2c", r)
      BY <2>1, AsSources
    <3> QED BY <3>1, <3>2
  <2>3. Frame(start \o AS!Outs(w) \o <<<<"start">>, <<"address", "r">>>>
                   \o AS!Ins(r - 1, "ack") \o <<<<"in", "nack">>, <<"stop">>>>, "i2c", w, r)
    <3>1. Opener("i2c") = start /\ AS!Outs(w) = Written3("i2c", w)
      BY <2>1, AsOuts DEF Opener
    <3>2. Frame(Opener("i2c") \o Written3("i2c", w) \o Turned \o AS!Ins(r - 1, "ack") \o LastRead, "i2c", w, r)
      BY <2>1, AsFrameI2C
    <3> QED BY <3>1, <3>2 DEF Turned, LastRead
  <2> QED BY <1>0, <1>2, <2>2, <2>3, AsTransfer DEF Listed
<1> DEFINE OneOut == AS!Call("bus", <<AS!Send(<<AS!FUNC_I2C_START>>), AS!Send(<<AS!FUNC_I2C_WRITEBYTE, AS!Data(1)>>),
                       AS!Expect(AS!FUNC_I2C_WRITEBYTE), AS!Recv(1), AS!Send(<<AS!FUNC_I2C_STOP>>)>>,
               <<<<"start">>, <<"out", AS!Data(1)>>, <<"stop">>>>, 0)
           OneIn == AS!Call("bus", <<AS!Send(<<AS!FUNC_I2C_START>>), AS!Send(<<AS!FUNC_I2C_READBYTE, 1>>),
                       AS!Expect(AS!FUNC_I2C_READBYTE), AS!Recv(1), AS!Send(<<AS!FUNC_I2C_STOP>>)>>,
               <<<<"start">>, <<"in", "nack">>, <<"stop">>>>, 1)
<1>5. ASSUME c = OneOut PROVE IsByte(c, 26)
  <2> QED BY <1>5, AsOthers, AsCodes DEF ByteSteps, Codes
<1>6. ASSUME c = OneIn PROVE IsByte(c, 25)
  <2> QED BY <1>6, AsOthers, AsCodes DEF ByteSteps, Codes
<1>3. \/ \E w \in I2CWrites : c = AS!Call("bus", AS!I2CReadWrite(w, 0), start \o AS!Outs(w) \o <<<<"stop">>>>, 0)
      \/ \E w \in I2CWrites, r \in Reads : c = AS!Call("bus", AS!I2CReadWrite(w, r),
                   start \o AS!Outs(w) \o <<<<"start">>, <<"address", "r">>>>
                   \o AS!Ins(r - 1, "ack") \o <<<<"in", "nack">>, <<"stop">>>>, r)
      \/ c = OneOut \/ c = OneIn
  BY DEF AS!I2cCalls
<1>4. (\E w \in Nat \ {0}, r \in Nat : IsTransfer(c, "i2c", w, r)) \/ \E cmd \in {25, 26} : IsByte(c, cmd)
  <2> HIDE DEF OneOut, OneIn, start
  <2> QED BY <1>0, <1>1, <1>2, <1>3, <1>5, <1>6
<1> QED BY <1>4 DEF IsBusCall

LEMMA AsCallsOf ==
    ASSUME NEW p \in Protocols, NEW c \in AS!CallsOf(p)
    PROVE  IsBusCall(c, p)
BY AsSpiCalls, AsI2cCalls, AsMwCalls DEF Protocols, AS!CallsOf

-----------------------------------------------------------------------------
(***************************************************************************)
(* The invariant.  While the host of a session never stood still, host, line *)
(* and board are at one of few places of the call: the steps that are done   *)
(* say what the bus has seen, what is under way on the line and what the     *)
(* board's handler holds.                                                    *)
(***************************************************************************)
(* The records of the board and the host.                                    *)
IsFw(m) ==
    m = [pc |-> m.pc, cmd |-> m.cmd, flag |-> m.flag, left |-> m.left, bits |-> m.bits, rst |-> m.rst,
         wire |-> m.wire, cells |-> m.cells, kept |-> m.kept]
IsHost(h) ==
    h = [mode |-> h.mode, call |-> h.call, todo |-> h.todo, got |-> h.got, ok |-> h.ok,
         stalled |-> h.stalled, stalls |-> h.stalls, dirty |-> h.dirty]

(* Where a session is whose host never stood still: the steps of the call that  *)
(* are done, the frame that the bus has seen, and the lines.                  *)
At(n) == /\ n \in 0 .. Len(host.call.todo)
         /\ host.todo = SubSeq(host.call.todo, n + 1, Len(host.call.todo))
Seen(k) == k \in 0 .. Len(host.call.want) /\ fw.wire = SubSeq(host.call.want, 1, k)
Upmost(f, k) == SubSeq(f, 1, k)
Lines(state, down, up) == fw.pc = state /\ tx = down /\ rx = up
Given(a, b) == [i \in 1 .. b - a |-> AS!Cell(a + i)]
RestPin(p) == IF p = "spi" THEN "high" ELSE IF p = "i2c" THEN "input" ELSE "low"
BusyPin(p) == IF p = "spi" THEN "low" ELSE IF p = "i2c" THEN "input" ELSE "high"

AtRest(p) ==
    /\ host.todo = << >> /\ Lines("loop", << >>, << >>) /\ fw.rst = RestPin(p)
    /\ host.call.k \in {"init", "bus"}
    /\ host.call.k = "bus" => /\ fw.wire = host.call.want
                              /\ host.call.give # << >> => host.got = host.call.give

(* A write: before its first block, and with i blocks on the bus.              *)
NoneRead == fw.cells = 0 /\ host.got = << >>
Begun(p) == fw.rst = RestPin(p) /\ Seen(0) /\ NoneRead
BeforeWrite(p, w, r) ==
    /\ Begun(p)
    /\ \/ At(0) /\ Lines("loop", << >>, << >>)
       \/ At(1) /\ Lines("loop", WHead(p, w, r), << >>)
       \/ At(1) /\ Lines("header", Tail(WHead(p, w, r)), << >>) /\ fw.cmd = WCmd(p)
WroteUpto(m, f, p, w, r, i) ==
    /\ IsFw(m) /\ m.pc = "data" /\ m.cmd = WCmd(p) /\ m.left = w - Upto(w, WChunk(p, w), i)
    /\ m.flag = (r = 0) /\ m.cells = 0 /\ m.rst = BusyPin(p) /\ (p = "mw" => m.bits = 8 * w - 5)
    /\ m.wire = Upmost(f, Opening(p) + Upto(w, WChunk(p, w), i))
AtWrite(p, w, r, i) ==
    /\ WroteUpto(fw, host.call.want, p, w, r, i) /\ host.got = << >>
    /\ \/ At(2 * i + 1) /\ tx = << >> /\ rx = <<IF i = 0 THEN WCmd(p) ELSE AS!ACK>>
       \/ At(2 * i + 2) /\ tx = << >> /\ rx = << >>
       \/ At(2 * i + 3) /\ tx = Piece(w, WChunk(p, w), i + 1) /\ rx = << >>
InWrite(p, w, r) == BeforeWrite(p, w, r) \/ \E i \in 0 .. WBlocks(p, w) - 1 : AtWrite(p, w, r, i)

(* Between the write and the read.                                          *)
Turning(p) == IF p = "i2c" THEN 1 ELSE 0
WroteAll(m, f, p, w, r) ==
    /\ IsFw(m) /\ m.cells = 0 /\ m.rst = (IF r = 0 THEN RestPin(p) ELSE BusyPin(p))
    /\ m.wire = Upmost(f, IF r = 0 THEN FrameLen(p, w, r) ELSE Opening(p) + w + Turning(p))
InTurn(p, w, r) ==
    LET o == WLen(p, w)
    IN  /\ WroteAll(fw, host.call.want, p, w, r) /\ host.got = << >>
        /\ \/ At(o - 1) /\ Lines("loop", << >>, <<AS!ACK>>)
           \/ r > 0 /\ At(o) /\ Lines("loop", << >>, << >>)
           \/ r > 0 /\ At(o + 1) /\ Lines("loop", RHead(p, r), << >>)
           \/ r > 0 /\ At(o + 1) /\ Lines("header", Tail(RHead(p, r)), << >>) /\ fw.cmd = RCmd(p)

(* A read whose i-th block the board has sent.                               *)
Before(p, w) == Opening(p) + w + Turn(p)
Ending(p, r, i) == IF i = RBlocks(r) /\ p = "i2c" THEN 1 ELSE 0
ReadUpto(m, f, p, w, r, i) ==
    /\ IsFw(m) /\ m.pc = "ack" /\ m.cmd = RCmd(p) /\ m.left = r - Upto(r, rchunk, i) /\ m.flag = TRUE
    /\ m.cells = Upto(r, rchunk, i) /\ m.rst = BusyPin(p)
    /\ m.wire = Upmost(f, Before(p, w) + (Upto(r, rchunk, i) + Ending(p, r, i)))
AtRead(p, w, r, i) ==
    LET o == WLen(p, w)
    IN  /\ ReadUpto(fw, host.call.want, p, w, r, i)
        /\ \/ /\ i = 1 /\ At(o + 1) /\ tx = << >> /\ rx = <<RCmd(p)>> \o Given(0, Upto(r, rchunk, 1))
              /\ host.got = << >>
           \/ /\ At(o + 2 * i) /\ tx = << >> /\ rx = Given(Upto(r, rchunk, i - 1), Upto(r, rchunk, i))
              /\ host.got = Given(0, Upto(r, rchunk, i - 1))
           \/ At(o + 2 * i + 1) /\ tx = << >> /\ rx = << >> /\ host.got = Given(0, Upto(r, rchunk, i))
           \/ /\ At(o + 2 * i + 2) /\ tx = <<AS!ACK>> /\ rx = << >>
              /\ host.got = Given(0, Upto(r, rchunk, i))
InRead(p, w, r) == r > 0 /\ \E i \in 1 .. RBlocks(r) : AtRead(p, w, r, i)
InTransfer(p) ==
    \E w \in Nat \ {0}, r \in Nat :
        IsTransfer(host.call, p, w, r) /\ (InWrite(p, w, r) \/ InTurn(p, w, r) \/ InRead(p, w, r))

(* A byte over I2C.                                                         *)
InByte(cmd) ==
    LET arg == IF cmd = 25 THEN 1 ELSE AS!Data(1)
    IN  /\ IsByte(host.call, cmd) /\ fw.rst = "input"
        /\ \/ At(0) /\ Lines("loop", << >>, << >>) /\ Seen(0) /\ NoneRead
           \/ At(1) /\ Lines("loop", << 23 >>, << >>) /\ Seen(0) /\ NoneRead
           \/ At(1) /\ Lines("loop", << >>, << >>) /\ Seen(1) /\ NoneRead
           \/ At(2) /\ Lines("loop", <<23, cmd, arg>>, << >>) /\ Seen(0) /\ NoneRead
           \/ At(2) /\ Lines("loop", <<cmd, arg>>, << >>) /\ Seen(1) /\ NoneRead
           \/ At(2) /\ Lines("header", <<arg>>, << >>) /\ fw.cmd = cmd /\ Seen(1) /\ NoneRead
           \/ \E x \in Nat :
                 /\ (cmd = 25 => x = AS!Cell(1)) /\ Seen(2)
                 /\ \/ At(2) /\ Lines("loop", << >>, <<cmd, x>>) /\ host.got = << >>
                    \/ At(3) /\ Lines("loop", << >>, <<x>>) /\ host.got = << >>
                    \/ At(4) /\ Lines("loop", << >>, << >>) /\ host.got = <<x>>
                    \/ At(5) /\ Lines("loop", << 24 >>, << >>) /\ host.got = <<x>>

(* The question whether a chip on Microwire is busy.                         *)
InBusy ==
    /\ IsBusy(host.call) /\ fw.rst = "low"
    /\ \/ At(0) /\ Lines("loop", << >>, << >>) /\ Seen(0)
       \/ At(1) /\ Lines("loop", << 32 >>, << >>) /\ Seen(0)
       \/ \E b \in Nat : /\ Seen(2)
                         /\ \/ At(1) /\ Lines("loop", << >>, <<32, b>>)
                            \/ At(2) /\ Lines("loop", << >>, <<b>>)

(* The beginning of a session and its end, which need not wait for the board.  *)
InitCode(p) == IF p = "spi" THEN 7 ELSE IF p = "i2c" THEN 20 ELSE 33
InitBytes(p) == IF p = "spi" THEN <<7, 0>> ELSE <<InitCode(p)>>
InInit(p) ==
    /\ host.call.k = "init" /\ host.call.todo = <<AS!Send(InitBytes(p)), AS!Expect(InitCode(p))>>
    /\ \/ At(0) /\ Lines("loop", << >>, << >>) /\ fw.rst = "input"
       \/ At(1) /\ Lines("loop", InitBytes(p), << >>) /\ fw.rst = "input"
       \/ p = "spi" /\ At(1) /\ Lines("header", << 0 >>, << >>) /\ fw.cmd = 7 /\ fw.rst = "input"
       \/ At(1) /\ Lines("loop", << >>, <<InitCode(p)>>) /\ fw.rst = RestPin(p)
DeinitCode(p) == IF p = "spi" THEN 8 ELSE 34
DeinitSteps(p) == IF p = "i2c" THEN << >> ELSE <<AS!Send(<<DeinitCode(p)>>), AS!Expect(DeinitCode(p))>>
Pending(p, s) ==
    \/ fw.pc = "loop" /\ s = << >>
    \/ fw.pc = "ack" /\ fw.cmd = RCmd(p) /\ fw.left = 0 /\ s = <<AS!ACK>>
    \/ p = "i2c" /\ fw.pc = "loop" /\ s = << 24 >>
InDeinit(p) ==
    /\ host.call.k = "deinit" /\ host.call.todo = DeinitSteps(p)
    /\ \/ At(0) /\ Pending(p, tx) /\ rx = << >>
       \/ p # "i2c" /\ At(1) /\ rx = << >> /\ \E s : Pending(p, s) /\ tx = s \o <<DeinitCode(p)>>
       \/ p # "i2c" /\ At(1) /\ Lines("loop", << >>, <<DeinitCode(p)>>)
       \/ p # "i2c" /\ At(2) /\ Lines("loop", << >>, << >>)

InSession(p) ==
    /\ host.ok
    /\ \/ AtRest(p) \/ InTransfer(p) \/ InInit(p) \/ InDeinit(p)
       \/ p = "i2c" /\ \E cmd \in {25, 26} : InByte(cmd)
       \/ p = "mw" /\ InBusy

(* A host, that ever stood still or not.                                      *)
IsShaped(h) ==
    /\ IsHost(h) /\ h.dirty \in Nat /\ h.mode \in Protocols \cup {"none"}
    /\ h.todo \in Seq(HostSteps) /\ h.call.todo \in Seq(HostSteps)
    /\ h.stalled => h.dirty > 0 /\ h.todo # << >> /\ Head(h.todo).s = "send"

ASInv ==
    /\ IsShaped(host)
    /\ host.mode # "none" /\ host.dirty = 0 => IsFw(fw) /\ InSession(host.mode)

-----------------------------------------------------------------------------
(***************************************************************************)
(* The host's steps, and what the board can do at one.                       *)
(***************************************************************************)
LEMMA AsSuffix ==
    ASSUME NEW X, NEW s \in Seq(X), NEW n \in 0 .. Len(s)
    PROVE  /\ SubSeq(s, n + 1, Len(s)) \in Seq(X) /\ Len(SubSeq(s, n + 1, Len(s))) = Len(s) - n
           /\ \A j \in 1 .. Len(s) - n : SubSeq(s, n + 1, Len(s))[j] = s[n + j]
           /\ n = Len(s) => SubSeq(s, n + 1, Len(s)) = << >>
           /\ n < Len(s) => /\ SubSeq(s, n + 1, Len(s)) # << >>
                            /\ Head(SubSeq(s, n + 1, Len(s))) = s[n + 1]
                            /\ Tail(SubSeq(s, n + 1, Len(s))) = SubSeq(s, n + 2, Len(s))
<1> DEFINE t == SubSeq(s, n + 1, Len(s))
           u == SubSeq(s, n + 2, Len(s))
<1>1. t \in Seq(X) /\ Len(t) = Len(s) - n /\ \A j \in 1 .. Len(s) - n : t[j] = s[n + j]
  OBVIOUS
<1>2. n = Len(s) => t = << >>
  OBVIOUS
<1>3. ASSUME n < Len(s) PROVE t # << >> /\ Head(t) = s[n + 1] /\ Tail(t) = u
  <2>1. u \in Seq(X) /\ Len(u) = Len(s) - n - 1 /\ \A j \in 1 .. Len(s) - n - 1 : u[j] = s[n + 1 + j]
    BY <1>3
  <2> HIDE DEF t, u
  <2>2. t # << >> /\ Head(t) = t[1] /\ 1 \in 1 .. Len(s) - n
    BY <1>1, <1>3
  <2>3. Tail(t) \in Seq(X) /\ Len(Tail(t)) = Len(t) - 1 /\ \A j \in 1 .. Len(t) - 1 : Tail(t)[j] = t[j + 1]
    BY <1>1, <2>2
  <2>4. \A j \in 1 .. Len(t) - 1 : j + 1 \in 1 .. Len(s) - n /\ n + (j + 1) = n + 1 + j
    BY <1>1
  <2>5. \A j \in 1 .. Len(u) : Tail(t)[j] = u[j]
    BY <1>1, <2>1, <2>3, <2>4
  <2>6. Tail(t) = u
    BY <1>1, <2>1, <2>3, <2>5, AsSame
  <2> QED BY <1>1, <2>2, <2>6
<1> QED BY <1>1, <1>2, <1>3

(* What a host keeps while it makes its steps.                               *)
Kept ==
    /\ host'.call = host.call /\ host'.mode = host.mode /\ host'.ok = host.ok
    /\ host'.dirty = host.dirty /\ IsHost(host)' /\ ~host'.stalled

LEMMA AsNow ==
    ASSUME NEW n \in Nat, host.call.todo \in Seq(HostSteps), At(n), n < Len(host.call.todo)
    PROVE  /\ ~AS!Idle /\ AS!Now = host.call.todo[n + 1] /\ AS!Now \in HostSteps
           /\ Tail(host.todo) = SubSeq(host.call.todo, n + 2, Len(host.call.todo))
<1> DEFINE s == host.call.todo
<1>1. s \in Seq(HostSteps) /\ n \in 0 .. Len(s) /\ n < Len(s) /\ host.todo = SubSeq(s, n + 1, Len(s))
  BY DEF At
<1>2. s[n + 1] \in HostSteps
  BY <1>1
<1> HIDE DEF s
<1>3. host.todo # << >> /\ Head(host.todo) = s[n + 1] /\ Tail(host.todo) = SubSeq(s, n + 2, Len(s))
  BY <1>1, AsSuffix
<1> QED BY <1>2, <1>3 DEF s, AS!Idle, AS!Now

LEMMA AsEnd ==
    ASSUME host.call.todo \in Seq(HostSteps), At(Len(host.call.todo))
    PROVE  host.todo = << >> /\ AS!Idle
<1>1. host.todo = << >>
  BY AsSuffix DEF At
<1> QED BY <1>1 DEF AS!Idle

LEMMA AsSendBuffer ==
    ASSUME NEW n \in Nat, IsHost(host), host.call.todo \in Seq(HostSteps), At(n), n < Len(host.call.todo),
           AS!SendBuffer
    PROVE  /\ At(n + 1)' /\ Kept /\ host'.got = host.got
           /\ fw' = fw /\ rx' = rx /\ tx' = tx \o host.call.todo[n + 1].d
<1>1. /\ AS!Now = host.call.todo[n + 1]
      /\ Tail(host.todo) = SubSeq(host.call.todo, n + 2, Len(host.call.todo))
  BY AsNow
<1>2. host' = [host EXCEPT !.todo = Tail(@), !.stalled = FALSE]
  BY DEF AS!SendBuffer, AS!Advance
<1>3. Kept /\ host'.got = host.got /\ host'.todo = Tail(host.todo)
  BY <1>2 DEF IsHost, Kept
<1>4. n + 1 \in 0 .. Len(host.call.todo) /\ n + 1 + 1 = n + 2
  BY DEF At
<1>5. At(n + 1)'
  BY <1>1, <1>3, <1>4 DEF At, Kept
<1> QED BY <1>1, <1>3, <1>5 DEF AS!SendBuffer

LEMMA AsRecvByte ==
    ASSUME NEW n \in Nat, IsHost(host), host.call.todo \in Seq(HostSteps), At(n), n < Len(host.call.todo),
           NEW b \in Nat, host.call.todo[n + 1] = AS!Expect(b), rx # << >>, Head(rx) = b, AS!RecvByte
    PROVE  /\ At(n + 1)' /\ Kept /\ host'.got = host.got
           /\ fw' = fw /\ rx' = Tail(rx) /\ tx' = tx
<1>1. /\ AS!Now = host.call.todo[n + 1]
      /\ Tail(host.todo) = SubSeq(host.call.todo, n + 2, Len(host.call.todo))
  BY AsNow
<1>2. AS!Now.d[1] = b
  BY <1>1 DEF AS!Expect
<1>3. host' = [host EXCEPT !.todo = Tail(@), !.stalled = FALSE]
  BY <1>2 DEF AS!RecvByte, AS!Advance
<1>4. Kept /\ host'.got = host.got /\ host'.todo = Tail(host.todo)
  BY <1>3 DEF IsHost, Kept
<1>5. n + 1 \in 0 .. Len(host.call.todo) /\ n + 1 + 1 = n + 2
  BY DEF At
<1>6. At(n + 1)'
  BY <1>1, <1>4, <1>5 DEF At, Kept
<1> QED BY <1>4, <1>6 DEF AS!RecvByte

LEMMA AsRecvBuffer ==
    ASSUME NEW n \in Nat, IsHost(host), host.call.todo \in Seq(HostSteps), At(n), n < Len(host.call.todo),
           NEW k \in Nat, host.call.todo[n + 1] = AS!Recv(k), rx \in Seq(Nat), Len(rx) = k, host.ok = TRUE,
           AS!RecvBufferEx
    PROVE  /\ At(n + 1)' /\ Kept /\ host'.got = host.got \o rx
           /\ fw' = fw /\ rx' = << >> /\ tx' = tx
<1>1. /\ AS!Now = host.call.todo[n + 1]
      /\ Tail(host.todo) = SubSeq(host.call.todo, n + 2, Len(host.call.todo))
  BY AsNow
<1>2. Len(AS!Now.d) = k
  BY <1>1, AsCount DEF AS!Recv
<1>3. AS!Min({k, Len(rx)}) = k
  BY AsMin
<1>4. SubSeq(rx, 1, k) = rx /\ SubSeq(rx, k + 1, Len(rx)) = << >>
  <2>1. SubSeq(rx, 1, k) \in Seq(Nat) /\ Len(SubSeq(rx, 1, k)) = k /\ \A j \in 1 .. k : SubSeq(rx, 1, k)[j] = rx[j]
    OBVIOUS
  <2>2. SubSeq(rx, 1, k) = rx
    BY <2>1, AsSame
  <2> QED BY <2>2
<1>5. /\ rx' = SubSeq(rx, k + 1, Len(rx)) /\ fw' = fw /\ tx' = tx
      /\ host' = [[host EXCEPT !.got = @ \o SubSeq(rx, 1, k), !.ok = @ /\ k = k]
                    EXCEPT !.todo = Tail(@), !.stalled = FALSE]
  BY <1>2, <1>3 DEF AS!RecvBufferEx, AS!Advance
<1>6. Kept /\ host'.got = host.got \o rx /\ host'.todo = Tail(host.todo)
  BY <1>4, <1>5 DEF IsHost, Kept
<1>7. n + 1 \in 0 .. Len(host.call.todo) /\ n + 1 + 1 = n + 2
  BY DEF At
<1>8. At(n + 1)'
  BY <1>1, <1>6, <1>7 DEF At, Kept
<1> QED BY <1>4, <1>5, <1>6, <1>8

(* The board has nothing to do.                                              *)
BoardWaits ==
    /\ tx = << >>
    /\ \/ fw.pc \in {"loop", "ack"}
       \/ fw.pc = "data" /\ AS!BlockSize \in Nat \ {0}

LEMMA AsNoFirmware ==
    ASSUME BoardWaits, ~AS!Still
    PROVE  ~AS!Firmware
<1>1. tx = << >> /\ Len(tx) = 0
  BY DEF BoardWaits
<1>2. ~AS!Received(1) /\ ~AS!TimedOut(1)
  BY <1>1 DEF AS!Received, AS!TimedOut
<1>3. ~AS!ParseCommand /\ ~AS!Header /\ ~AS!HeaderShort
  BY <1>1 DEF BoardWaits, AS!ParseCommand, AS!Header, AS!HeaderShort
<1>4. ~AS!AckedBlock /\ ~AS!UnackedBlock
  BY <1>2 DEF AS!AckedBlock, AS!UnackedBlock
<1>5. ~AS!WriteBlock
  BY <1>1 DEF BoardWaits, AS!WriteBlock, AS!Received, AS!TimedOut
<1> QED BY <1>3, <1>4, <1>5 DEF AS!Firmware

LEMMA AsHostSends ==
    ASSUME AS!Next, ~AS!Idle, AS!Now.s = "send", ~host.stalled, host.dirty = 0, BoardWaits, IsHost(host)
    PROVE  AS!SendBuffer \/ host'.dirty # 0
<1>1. ~AS!Still
  BY DEF AS!Still, AS!Waiting
<1>2. ~AS!Firmware
  BY <1>1, AsNoFirmware
<1>3. ~AS!DevOpen /\ ~AS!Begin /\ ~AS!Deinit /\ ~AS!DevClose
  BY DEF AS!DevOpen, AS!Begin, AS!Deinit, AS!DevClose, AS!Ready
<1>4. ~AS!RecvByte /\ ~AS!RecvBufferEx
  BY DEF AS!RecvByte, AS!RecvBufferEx, AS!Doing
<1>5. ASSUME AS!Stall PROVE host'.dirty # 0
  <2>1. AS!Max({0, 1}) = 1
    <3>1. \A x : x \in {0, 1} /\ (\A y \in {0, 1} : x >= y) <=> x = 1
      OBVIOUS
    <3> QED BY <3>1 DEF AS!Max
  <2>2. PICK n, s : host' = [host EXCEPT !.stalled = TRUE, !.stalls = @ + 1,
                                !.dirty = AS!Max({@, 1}), !.todo = s]
    BY <1>5 DEF AS!Stall
  <2>3. host'.dirty = AS!Max({0, 1})
    BY <2>2 DEF IsHost
  <2> QED BY <2>1, <2>3
<1> QED BY <1>2, <1>3, <1>4, <1>5 DEF AS!Next, AS!Host

LEMMA AsHostTakes ==
    ASSUME AS!Next, ~AS!Idle, AS!Now.s \in {"expect", "recv"}, ~host.stalled, BoardWaits,
           Len(rx) \in Nat, Len(AS!Now.d) \in Nat, Len(rx) >= Len(AS!Now.d)
    PROVE  /\ AS!Now.s = "expect" => AS!RecvByte
           /\ AS!Now.s = "recv" => AS!RecvBufferEx
<1>1. ~AS!Still
  BY DEF AS!Still, AS!Waiting
<1>2. ~AS!Firmware
  BY <1>1, AsNoFirmware
<1>3. ~AS!DevOpen /\ ~AS!Begin /\ ~AS!Deinit /\ ~AS!DevClose
  BY DEF AS!DevOpen, AS!Begin, AS!Deinit, AS!DevClose, AS!Ready
<1>4. ~AS!SendBuffer /\ ~AS!Stall
  BY DEF AS!SendBuffer, AS!Stall, AS!Doing
<1>5. /\ AS!Now.s = "expect" => ~AS!RecvBufferEx
      /\ AS!Now.s = "recv" => ~AS!RecvByte
  BY DEF AS!RecvByte, AS!RecvBufferEx, AS!Doing
<1> QED BY <1>2, <1>3, <1>4, <1>5 DEF AS!Next, AS!Host

LEMMA AsBoardMoves ==
    ASSUME AS!Next, ~AS!Idle, AS!Now.s \in {"expect", "recv"}, rx = << >>,
           Len(AS!Now.d) \in Nat \ {0}, ~AS!Quiet
    PROVE  AS!Firmware
<1>1. Len(rx) = 0
  OBVIOUS
<1>3. ~AS!DevOpen /\ ~AS!Begin /\ ~AS!Deinit /\ ~AS!DevClose
  BY DEF AS!DevOpen, AS!Begin, AS!Deinit, AS!DevClose, AS!Ready
<1>4. ~AS!SendBuffer /\ ~AS!Stall
  BY DEF AS!SendBuffer, AS!Stall, AS!Doing
<1>5. ~AS!RecvByte
  BY DEF AS!RecvByte
<1>6. ~AS!RecvBufferEx
  <2>1. AS!Min({Len(AS!Now.d), Len(rx)}) # Len(AS!Now.d)
    BY <1>1, AsMin
  <2> QED BY <2>1 DEF AS!RecvBufferEx
<1> QED BY <1>3, <1>4, <1>5, <1>6 DEF AS!Next, AS!Host

LEMMA AsIdleMoves ==
    ASSUME AS!Next, AS!Idle
    PROVE  AS!Firmware \/ AS!DevOpen \/ AS!Begin \/ AS!Deinit \/ AS!DevClose
BY DEF AS!Next, AS!Host, AS!SendBuffer, AS!Stall, AS!RecvByte, AS!RecvBufferEx, AS!Doing

-----------------------------------------------------------------------------
(***************************************************************************)
(* The board's handlers: the header, a block that is read, the end of a      *)
(* handler and a block that is written.                                      *)
(***************************************************************************)
(* What the bus has seen of a frame grows by its next events.                  *)
LEMMA AsPrefix ==
    ASSUME NEW X, NEW f \in Seq(X), NEW k \in 0 .. Len(f)
    PROVE  /\ Upmost(f, k) \in Seq(X) /\ Len(Upmost(f, k)) = k
           /\ \A j \in 1 .. k : Upmost(f, k)[j] = f[j]
           /\ Upmost(f, 0) = << >> /\ Upmost(f, Len(f)) = f
<1>1. SubSeq(f, 1, k) \in Seq(X) /\ Len(SubSeq(f, 1, k)) = k /\ \A j \in 1 .. k : SubSeq(f, 1, k)[j] = f[j]
  OBVIOUS
<1>2. SubSeq(f, 1, 0) = << >>
  OBVIOUS
<1>3. SubSeq(f, 1, Len(f)) = f
  <2>1. /\ SubSeq(f, 1, Len(f)) \in Seq(X) /\ Len(SubSeq(f, 1, Len(f))) = Len(f)
        /\ \A j \in 1 .. Len(f) : SubSeq(f, 1, Len(f))[j] = f[j]
    OBVIOUS
  <2> QED BY <2>1, AsSame
<1> QED BY <1>1, <1>2, <1>3 DEF Upmost

LEMMA AsExtend ==
    ASSUME NEW X, NEW f \in Seq(X), NEW k \in Nat, NEW es \in Seq(X), k + Len(es) <= Len(f),
           \A j \in 1 .. Len(es) : f[k + j] = es[j]
    PROVE  Upmost(f, k) \o es = Upmost(f, k + Len(es))
<1> DEFINE s == Upmost(f, k)
           t == Upmost(f, k + Len(es))
           u == s \o es
<1>0. Len(es) \in Nat /\ Len(f) \in Nat
  OBVIOUS
<1>1. k \in 0 .. Len(f) /\ k + Len(es) \in 0 .. Len(f)
  BY <1>0
<1>2. /\ s \in Seq(X) /\ Len(s) = k /\ \A j \in 1 .. k : s[j] = f[j]
      /\ t \in Seq(X) /\ Len(t) = k + Len(es) /\ \A j \in 1 .. k + Len(es) : t[j] = f[j]
  BY <1>1, AsPrefix
<1> HIDE DEF s, t, u
<1>3. Catenated(X, u, s, es)
  BY <1>2, AsJoin DEF u
<1>4. ASSUME NEW j \in 1 .. Len(u) PROVE u[j] = t[j]
  <2>0. Len(u) = k + Len(es) /\ j \in 1 .. k + Len(es)
    BY <1>2, <1>3 DEF Catenated
  <2>1. CASE j <= k
    <3>1. j \in 1 .. k
      BY <2>1
    <3> QED BY <1>2, <1>3, <2>0, <3>1 DEF Catenated
  <2>2. CASE j > k
    <3>1. j - k \in 1 .. Len(es) /\ k + (j - k) = j
      BY <1>0, <2>0, <2>2
    <3>2. u[k + (j - k)] = es[j - k]
      BY <1>2, <1>3, <3>1 DEF Catenated
    <3>3. f[k + (j - k)] = es[j - k]
      BY <3>1
    <3> QED BY <1>2, <2>0, <3>1, <3>2, <3>3
  <2> QED BY <2>0, <2>1, <2>2
<1>5. u \in Seq(X) /\ Len(u) = Len(t)
  BY <1>2, <1>3 DEF Catenated
<1>6. u = t
  BY <1>2, <1>4, <1>5, AsSame
<1> QED BY <1>6 DEF u, s, t

LEMMA AsExtendOne ==
    ASSUME NEW X, NEW f \in Seq(X), NEW k \in Nat, k < Len(f), NEW e, f[k + 1] = e
    PROVE  Upmost(f, k) \o <<e>> = Upmost(f, k + 1) /\ Append(Upmost(f, k), e) = Upmost(f, k + 1)
<1>1. e \in X /\ k \in 0 .. Len(f) /\ Len(f) \in Nat
  OBVIOUS
<1>2. <<e>> \in Seq(X) /\ Len(<<e>>) = 1 /\ <<e>>[1] = e /\ \A j \in 1 .. 1 : j = 1
  BY <1>1
<1> DEFINE es == <<e>>
<1>3. es \in Seq(X) /\ Len(es) = 1 /\ es[1] = e
  BY <1>2
<1>4. Upmost(f, k) \in Seq(X)
  BY <1>1, AsPrefix
<1>6. Append(Upmost(f, k), e) = Upmost(f, k) \o es
  BY <1>1, <1>4
<1> HIDE DEF es
<1>5. Upmost(f, k) \o es = Upmost(f, k + 1)
  <2>1. k + Len(es) <= Len(f) /\ (\A j \in 1 .. Len(es) : f[k + j] = es[j])
    BY <1>1, <1>2, <1>3
  <2>2. Upmost(f, k) \o es = Upmost(f, k + Len(es))
    BY <1>3, <2>1, AsExtend
  <2> QED BY <1>3, <2>2
<1> QED BY <1>5, <1>6 DEF es

LEMMA AsSeen ==
    ASSUME NEW k
    PROVE  Seen(k) <=> k \in 0 .. Len(host.call.want) /\ fw.wire = Upmost(host.call.want, k)
BY DEF Seen, Upmost

-----------------------------------------------------------------------------
(* The board's steps.                                                       *)
SameFw(m) == /\ fw'.flag = m.flag /\ fw'.left = m.left /\ fw'.bits = m.bits /\ fw'.rst = m.rst
             /\ fw'.wire = m.wire /\ fw'.cells = m.cells

LEMMA AsWhich ==
    ASSUME AS!Firmware
    PROVE  /\ fw.pc = "loop" => AS!ParseCommand
           /\ fw.pc = "header" /\ Len(tx) \in Nat /\ AS!HeaderSize(fw.cmd) \in Nat /\ Len(tx) >= AS!HeaderSize(fw.cmd) =>
                 AS!Header
           /\ fw.pc = "data" => AS!WriteBlock
           /\ fw.pc = "ack" /\ tx = <<AS!ACK>> => AS!AckedBlock
<1>1. fw.pc = "loop" => AS!ParseCommand
  BY DEF AS!Firmware, AS!Header, AS!HeaderShort, AS!AckedBlock, AS!UnackedBlock, AS!WriteBlock
<1>2. fw.pc = "data" => AS!WriteBlock
  BY DEF AS!Firmware, AS!Header, AS!HeaderShort, AS!AckedBlock, AS!UnackedBlock, AS!ParseCommand
<1>3. ASSUME fw.pc = "header", Len(tx) \in Nat, AS!HeaderSize(fw.cmd) \in Nat, Len(tx) >= AS!HeaderSize(fw.cmd)
      PROVE  AS!Header
  <2>1. AS!Header \/ AS!HeaderShort
    BY <1>3 DEF AS!Firmware, AS!ParseCommand, AS!AckedBlock, AS!UnackedBlock, AS!WriteBlock
  <2>2. ~AS!HeaderShort
    BY <1>3 DEF AS!HeaderShort, AS!TimedOut
  <2> QED BY <2>1, <2>2
<1>4. ASSUME fw.pc = "ack", tx = <<AS!ACK>> PROVE AS!AckedBlock
  <2>1. AS!AckedBlock \/ AS!UnackedBlock
    BY <1>4 DEF AS!Firmware, AS!ParseCommand, AS!Header, AS!HeaderShort, AS!WriteBlock
  <2>2. ~AS!UnackedBlock
    BY <1>4 DEF AS!UnackedBlock, AS!TimedOut
  <2> QED BY <2>1, <2>2
<1> QED BY <1>1, <1>2, <1>3, <1>4

LEMMA AsParse ==
    ASSUME IsFw(fw), AS!ParseCommand
    PROVE  /\ tx' = Tail(tx) /\ host' = host /\ fw'.pc = (IF Head(tx) \in AS!Headed THEN "header" ELSE "loop")
           /\ IsFw(fw)'
           /\ Head(tx) \in {7, 10, 11, 21, 22, 25, 26, 30, 31} =>
                 fw'.pc = "header" /\ fw'.cmd = Head(tx) /\ SameFw(fw) /\ rx' = rx
           /\ Head(tx) = 8 => rx' = rx \o << 8 >> /\ fw'.pc = "loop"
           /\ Head(tx) = 34 => rx' = rx \o << 34 >> /\ fw'.pc = "loop"
           /\ Head(tx) = 20 => rx' = rx \o << 20 >> /\ fw'.pc = "loop" /\ SameFw(fw)
           /\ Head(tx) = 33 => rx' = rx \o << 33 >> /\ fw'.pc = "loop" /\ fw'.rst = "low"
           /\ Head(tx) = 23 => rx' = rx /\ fw'.pc = "loop" /\ fw'.wire = fw.wire \o <<<<"start">>>>
                               /\ fw'.rst = fw.rst /\ fw'.cells = fw.cells
           /\ Head(tx) = 24 => rx' = rx /\ fw'.pc = "loop" /\ fw'.wire = fw.wire \o <<<<"stop">>>>
                               /\ fw'.rst = fw.rst /\ fw'.cells = fw.cells
           /\ Head(tx) = 32 /\ fw.rst = "low" =>
                 /\ \E busy \in {0, 1} : rx' = rx \o <<32, busy>>
                 /\ fw'.pc = "loop" /\ fw'.rst = "low" /\ fw'.wire = Append(Append(fw.wire, <<"high">>), <<"low">>)
<1> DEFINE cmd == Head(tx)
<1>0. fw.pc = "loop" /\ tx # << >> /\ tx' = Tail(tx) /\ host' = host
  BY DEF AS!ParseCommand
<1>1. AS!Headed = {7, 10, 11, 21, 22, 25, 26, 30, 31}
  BY AsCodes DEF Codes, AS!Headed, AS!Spi, AS!Mw, AS!I2c, AS!I2cByte
<1>2. \/ cmd \in AS!Headed /\ fw' = [fw EXCEPT !.pc = "header", !.cmd = cmd] /\ rx' = rx
      \/ cmd = AS!FUNC_SPI_DEINIT /\ fw' = [fw EXCEPT !.rst = "input"] /\ rx' = rx \o <<cmd>>
      \/ cmd = AS!FUNC_I2C_INIT /\ fw' = fw /\ rx' = rx \o <<cmd>>
      \/ cmd = AS!FUNC_I2C_START /\ fw' = AS!Start(fw) /\ rx' = rx
      \/ cmd = AS!FUNC_I2C_STOP /\ fw' = AS!Stop(fw) /\ rx' = rx
      \/ cmd = AS!FUNC_MW_INIT /\ fw' = AS!PinsOut(fw, "low") /\ rx' = rx \o <<cmd>>
      \/ cmd = AS!FUNC_MW_DEINIT /\ fw' = [fw EXCEPT !.rst = "input"] /\ rx' = rx \o <<cmd>>
      \/ /\ cmd = AS!FUNC_MW_BUSY /\ fw' = AS!Drive(AS!Drive(fw, "high"), "low")
         /\ \E busy \in {0, 1} : rx' = rx \o <<cmd, busy>>
      \/ /\ cmd \notin AS!Headed \cup {AS!FUNC_SPI_DEINIT, AS!FUNC_I2C_INIT, AS!FUNC_I2C_START,
                  AS!FUNC_I2C_STOP, AS!FUNC_MW_INIT, AS!FUNC_MW_DEINIT, AS!FUNC_MW_BUSY}
         /\ fw' = fw
  BY DEF AS!ParseCommand, AS!Answer
<1>8. AS!Start(fw) = [fw EXCEPT !.wire = @ \o <<<<"start">>>>] /\ AS!Stop(fw) = [fw EXCEPT !.wire = @ \o <<<<"stop">>>>]
      /\ AS!PinsOut(fw, "low") = [fw EXCEPT !.rst = "low"]
  BY DEF AS!Start, AS!Stop, AS!Out, AS!PinsOut
<1>9. /\ AS!FUNC_SPI_DEINIT = 8 /\ AS!FUNC_I2C_INIT = 20 /\ AS!FUNC_I2C_START = 23
      /\ AS!FUNC_I2C_STOP = 24 /\ AS!FUNC_MW_INIT = 33 /\ AS!FUNC_MW_DEINIT = 34 /\ AS!FUNC_MW_BUSY = 32
  BY AsCodes DEF Codes
<1>3. /\ IsFw(AS!Drive(fw, "high")) /\ AS!Drive(fw, "high").pc = fw.pc
      /\ fw.rst = "low" => /\ AS!Drive(fw, "high").rst = "high"
                           /\ AS!Drive(fw, "high").wire = Append(fw.wire, <<"high">>)
  BY DEF AS!Drive, IsFw
<1>4. \A m : IsFw(m) => /\ IsFw(AS!Drive(m, "low")) /\ AS!Drive(m, "low").pc = m.pc
                        /\ m.rst = "high" => /\ AS!Drive(m, "low").rst = "low"
                                             /\ AS!Drive(m, "low").wire = Append(m.wire, <<"low">>)
  BY DEF AS!Drive, IsFw
<1> HIDE DEF cmd
<1>5. CASE cmd \in AS!Headed
  <2>1. fw' = [fw EXCEPT !.pc = "header", !.cmd = cmd] /\ rx' = rx
    <3>1. cmd \notin {8, 20, 23, 24, 33, 34, 32}
      BY <1>1, <1>5
    <3>2. /\ cmd # AS!FUNC_SPI_DEINIT /\ cmd # AS!FUNC_I2C_INIT /\ cmd # AS!FUNC_I2C_START
          /\ cmd # AS!FUNC_I2C_STOP /\ cmd # AS!FUNC_MW_INIT /\ cmd # AS!FUNC_MW_DEINIT /\ cmd # AS!FUNC_MW_BUSY
      BY <1>9, <3>1
    <3> QED BY <1>2, <1>5, <3>2, Zenon
  <2>2. fw'.pc = "header" /\ fw'.cmd = cmd /\ IsFw(fw') /\ SameFw(fw)
    BY <2>1 DEF IsFw, SameFw
  <2> QED BY <1>0, <1>1, <1>5, <2>1, <2>2 DEF cmd
<1>6. CASE cmd = 32
  <2>1. fw' = AS!Drive(AS!Drive(fw, "high"), "low") /\ \E busy \in {0, 1} : rx' = rx \o <<cmd, busy>>
    <3>1. cmd \notin AS!Headed
      BY <1>1, <1>6
    <3>2. /\ cmd # AS!FUNC_SPI_DEINIT /\ cmd # AS!FUNC_I2C_INIT /\ cmd # AS!FUNC_I2C_START
          /\ cmd # AS!FUNC_I2C_STOP /\ cmd # AS!FUNC_MW_INIT /\ cmd # AS!FUNC_MW_DEINIT /\ cmd = AS!FUNC_MW_BUSY
      BY <1>9, <1>6
    <3> QED BY <1>2, <3>1, <3>2, Zenon
  <2>2. /\ fw'.pc = "loop" /\ IsFw(fw')
        /\ fw.rst = "low" => fw'.rst = "low" /\ fw'.wire = Append(Append(fw.wire, <<"high">>), <<"low">>)
    BY <1>0, <1>3, <1>4, <2>1
  <2>3. \E busy \in {0, 1} : rx' = rx \o <<32, busy>>
    BY <1>6, <2>1
  <2>4. 32 \notin {7, 10, 11, 21, 22, 25, 26, 30, 31, 8, 34, 20, 33, 23, 24}
    OBVIOUS
  <2>5. cmd \notin AS!Headed /\ cmd \notin {7, 10, 11, 21, 22, 25, 26, 30, 31, 8, 34, 20, 33, 23, 24}
    BY <1>1, <1>6, <2>4
  <2>6. /\ Head(tx) \notin AS!Headed /\ Head(tx) \notin {7, 10, 11, 21, 22, 25, 26, 30, 31, 8, 34, 20, 33, 23, 24}
        /\ Head(tx) = 32
    BY <1>6, <2>5 DEF cmd
  <2> QED BY <1>0, <2>2, <2>3, <2>6
<1>7. CASE cmd \notin AS!Headed /\ cmd # 32
  <2>1. ASSUME cmd \notin {8, 20, 23, 24, 33, 34} PROVE fw' = fw
    BY <1>2, <1>7, <1>9, <2>1
  <2>2. cmd = 8 => fw' = [fw EXCEPT !.rst = "input"] /\ rx' = rx \o << 8 >>
    BY <1>2, <1>7, <1>9
  <2>3. cmd = 20 => fw' = fw /\ rx' = rx \o << 20 >>
    BY <1>2, <1>7, <1>9
  <2>4. cmd = 23 => fw' = [fw EXCEPT !.wire = @ \o <<<<"start">>>>] /\ rx' = rx
    BY <1>2, <1>7, <1>8, <1>9
  <2>5. cmd = 24 => fw' = [fw EXCEPT !.wire = @ \o <<<<"stop">>>>] /\ rx' = rx
    BY <1>2, <1>7, <1>8, <1>9
  <2>6. cmd = 33 => fw' = [fw EXCEPT !.rst = "low"] /\ rx' = rx \o << 33 >>
    BY <1>2, <1>7, <1>8, <1>9
  <2>7. cmd = 34 => fw' = [fw EXCEPT !.rst = "input"] /\ rx' = rx \o << 34 >>
    BY <1>2, <1>7, <1>9
  <2>8. fw'.pc = "loop" /\ IsFw(fw')
    BY <1>0, <2>1, <2>2, <2>3, <2>4, <2>5, <2>6, <2>7 DEF IsFw
  <2>9. /\ cmd = 20 => SameFw(fw)
        /\ cmd = 33 => fw'.rst = "low"
        /\ cmd = 23 => fw'.wire = fw.wire \o <<<<"start">>>> /\ fw'.rst = fw.rst /\ fw'.cells = fw.cells
        /\ cmd = 24 => fw'.wire = fw.wire \o <<<<"stop">>>> /\ fw'.rst = fw.rst /\ fw'.cells = fw.cells
    BY <2>3, <2>4, <2>5, <2>6 DEF IsFw, SameFw
  <2> QED BY <1>0, <1>1, <1>7, <2>2, <2>3, <2>4, <2>5, <2>6, <2>7, <2>8, <2>9 DEF cmd
<1> QED BY <1>5, <1>6, <1>7

(* What a handler makes of the bytes h of its header.                        *)
Parsed(h, n) ==
    [fw EXCEPT !.pc = "loop", !.flag = h[1] # 0, !.left = IF n > 1 THEN h[n - 1] * 256 + h[n] ELSE 0]

Acknowledged == \E ack \in {0, 1} : rx' = rx \o <<fw.cmd, ack>>
LEMMA AsWholeHeader ==
    ASSUME AS!Header, NEW n \in Nat, AS!HeaderSize(fw.cmd) = n, tx \in Seq(Nat), Len(tx) = n
    PROVE  /\ tx' = << >> /\ host' = host
           /\ fw.cmd = 7 => fw' = AS!PinsOut(Parsed(tx, n), IF fw.rst = "input" THEN "high" ELSE fw.rst)
                            /\ rx' = rx \o <<fw.cmd>>
           /\ fw.cmd = 11 => fw' = [AS!Drive(Parsed(tx, n), "low") EXCEPT !.pc = "data"] /\ rx' = rx \o <<fw.cmd>>
           /\ fw.cmd = 22 => fw' = [AS!Out(AS!Start(Parsed(tx, n)), <<<<"address", "w">>>>)
                                    EXCEPT !.pc = "data", !.flag = tx[2] = 1] /\ rx' = rx \o <<fw.cmd>>
           /\ fw.cmd = 31 => fw' = [AS!Drive(Parsed(tx, n), "high") EXCEPT !.pc = "data", !.bits = tx[2]]
                             /\ rx' = rx \o <<fw.cmd>>
           /\ fw.cmd = 10 => AS!ReadFrom(AS!Drive(Parsed(tx, n), "low"), <<fw.cmd>>)
           /\ fw.cmd = 30 => AS!ReadFrom(Parsed(tx, n), <<fw.cmd>>)
           /\ fw.cmd = 21 => AS!ReadFrom(AS!Out(Parsed(tx, n), <<<<"address", "r">>>>), <<fw.cmd>>)
           /\ fw.cmd = 26 => fw' = AS!Out(Parsed(tx, n), <<<<"out", tx[1]>>>>)
                             /\ Acknowledged
           /\ fw.cmd = 25 => fw' = AS!In(Parsed(tx, n), 1, <<IF tx[1] = 0 THEN "ack" ELSE "nack">>)
                             /\ rx' = rx \o (<<fw.cmd>> \o AS!CellsOf(Parsed(tx, n), 1))
<1> DEFINE k == AS!HeaderSize(fw.cmd)
           h == SubSeq(tx, 1, k)
           m == [fw EXCEPT !.pc = "loop", !.flag = h[1] # 0,
                           !.left = IF k > 1 THEN h[k - 1] * 256 + h[k] ELSE 0]
<1>1. /\ tx' = SubSeq(tx, k + 1, Len(tx)) /\ host' = host
      /\ \/ /\ fw.cmd = AS!FUNC_SPI_INIT
            /\ fw' = AS!PinsOut(m, IF m.rst = "input" THEN "high" ELSE m.rst)
            /\ rx' = rx \o <<fw.cmd>>
         \/ fw.cmd = AS!FUNC_SPI_READ /\ AS!ReadFrom(AS!Drive(m, "low"), <<fw.cmd>>)
         \/ fw.cmd = AS!FUNC_MW_READ /\ AS!ReadFrom(m, <<fw.cmd>>)
         \/ /\ fw.cmd = AS!FUNC_I2C_READ
            /\ AS!ReadFrom(AS!Out(m, <<<<"address", "r">>>>), <<fw.cmd>>)
         \/ /\ fw.cmd = AS!FUNC_SPI_WRITE
            /\ fw' = [AS!Drive(m, "low") EXCEPT !.pc = "data"] /\ rx' = rx \o <<fw.cmd>>
         \/ /\ fw.cmd = AS!FUNC_I2C_WRITE
            /\ fw' = [AS!Out(AS!Start(m), <<<<"address", "w">>>>)
                           EXCEPT !.pc = "data", !.flag = h[2] = 1]
            /\ rx' = rx \o <<fw.cmd>>
         \/ /\ fw.cmd = AS!FUNC_MW_WRITE
            /\ fw' = [AS!Drive(m, "high") EXCEPT !.pc = "data", !.bits = h[2]]
            /\ rx' = rx \o <<fw.cmd>>
         \/ /\ fw.cmd = AS!FUNC_I2C_WRITEBYTE
            /\ fw' = AS!Out(m, <<<<"out", h[1]>>>>)
            /\ \E ack \in {0, 1} : rx' = rx \o <<fw.cmd, ack>>
         \/ /\ fw.cmd = AS!FUNC_I2C_READBYTE
            /\ fw' = AS!In(m, 1, <<IF h[1] = 0 THEN "ack" ELSE "nack">>)
            /\ rx' = rx \o (<<fw.cmd>> \o AS!CellsOf(m, 1))
  BY Zenon DEF AS!Header, AS!Answer
<1>14. k = n
  OBVIOUS
<1> HIDE DEF k
<1>2. SubSeq(tx, n + 1, Len(tx)) = << >>
  OBVIOUS
<1>3. h = tx
  <2>1. h \in Seq(Nat) /\ Len(h) = n /\ \A j \in 1 .. n : h[j] = tx[j]
    BY <1>14
  <2> HIDE DEF h
  <2> QED BY <2>1, AsSame
<1>4. m = Parsed(tx, n) /\ m.rst = fw.rst
  <2>1. m.rst = fw.rst
    OBVIOUS
  <2> HIDE DEF h
  <2> QED BY <1>3, <1>14, <2>1 DEF Parsed
<1>5. /\ AS!FUNC_SPI_INIT = 7 /\ AS!FUNC_SPI_READ = 10 /\ AS!FUNC_SPI_WRITE = 11
      /\ AS!FUNC_I2C_READ = 21 /\ AS!FUNC_I2C_WRITE = 22
      /\ AS!FUNC_I2C_READBYTE = 25 /\ AS!FUNC_I2C_WRITEBYTE = 26
      /\ AS!FUNC_MW_READ = 30 /\ AS!FUNC_MW_WRITE = 31
  BY AsCodes DEF Codes
<1> HIDE DEF m, h
<1>6. /\ 7 # 10 /\ 7 # 11 /\ 7 # 21 /\ 7 # 22 /\ 7 # 25 /\ 7 # 26 /\ 7 # 30 /\ 7 # 31
      /\ 10 # 11 /\ 10 # 21 /\ 10 # 22 /\ 10 # 25 /\ 10 # 26 /\ 10 # 30 /\ 10 # 31
      /\ 11 # 21 /\ 11 # 22 /\ 11 # 25 /\ 11 # 26 /\ 11 # 30 /\ 11 # 31
      /\ 21 # 22 /\ 21 # 25 /\ 21 # 26 /\ 21 # 30 /\ 21 # 31
      /\ 22 # 25 /\ 22 # 26 /\ 22 # 30 /\ 22 # 31
      /\ 25 # 26 /\ 25 # 30 /\ 25 # 31 /\ 26 # 30 /\ 26 # 31 /\ 30 # 31
  OBVIOUS
<1>7. fw.cmd = 7 => fw' = AS!PinsOut(m, IF m.rst = "input" THEN "high" ELSE m.rst) /\ rx' = rx \o <<fw.cmd>>
  BY <1>1, <1>5, <1>6, Zenon
<1>8. fw.cmd = 11 => fw' = [AS!Drive(m, "low") EXCEPT !.pc = "data"] /\ rx' = rx \o <<fw.cmd>>
  BY <1>1, <1>5, <1>6, Zenon
<1>9. fw.cmd = 22 => fw' = [AS!Out(AS!Start(m), <<<<"address", "w">>>>)
                                    EXCEPT !.pc = "data", !.flag = h[2] = 1] /\ rx' = rx \o <<fw.cmd>>
  BY <1>1, <1>5, <1>6, Zenon
<1>10. fw.cmd = 31 => fw' = [AS!Drive(m, "high") EXCEPT !.pc = "data", !.bits = h[2]] /\ rx' = rx \o <<fw.cmd>>
  BY <1>1, <1>5, <1>6, Zenon
<1>11. /\ fw.cmd = 10 => AS!ReadFrom(AS!Drive(m, "low"), <<fw.cmd>>)
       /\ fw.cmd = 30 => AS!ReadFrom(m, <<fw.cmd>>)
       /\ fw.cmd = 21 => AS!ReadFrom(AS!Out(m, <<<<"address", "r">>>>), <<fw.cmd>>)
  BY <1>1, <1>5, <1>6, Zenon
<1>12. fw.cmd = 26 => fw' = AS!Out(m, <<<<"out", h[1]>>>>) /\ Acknowledged
  BY <1>1, <1>5, <1>6, Zenon DEF Acknowledged
<1>13. fw.cmd = 25 => fw' = AS!In(m, 1, <<IF h[1] = 0 THEN "ack" ELSE "nack">>)
                      /\ rx' = rx \o (<<fw.cmd>> \o AS!CellsOf(m, 1))
  BY <1>1, <1>5, <1>6, Zenon
<1> QED BY <1>1, <1>2, <1>3, <1>4, <1>14, <1>7, <1>8, <1>9, <1>10, <1>11, <1>12, <1>13, Zenon

LEMMA AsHeaderSizes ==
    /\ AS!HeaderSize(7) = 1 /\ AS!HeaderSize(25) = 1 /\ AS!HeaderSize(26) = 1
    /\ AS!HeaderSize(10) = 3 /\ AS!HeaderSize(11) = 3 /\ AS!HeaderSize(21) = 3 /\ AS!HeaderSize(30) = 3
    /\ AS!HeaderSize(22) = 4 /\ AS!HeaderSize(31) = 4
BY AsCodes DEF Codes, AS!HeaderSize, AS!I2cByte

LEMMA AsHeadOf ==
    ASSUME NEW p \in Protocols, NEW w \in Nat \ {0}, NEW r \in Nat
    PROVE  /\ WHead(p, w, r) # << >> /\ Head(WHead(p, w, r)) = WCmd(p)
           /\ Tail(WHead(p, w, r)) \in Seq(Nat) /\ Len(Tail(WHead(p, w, r))) = AS!HeaderSize(WCmd(p))
           /\ RHead(p, r) # << >> /\ Head(RHead(p, r)) = RCmd(p)
           /\ Tail(RHead(p, r)) \in Seq(Nat) /\ Len(Tail(RHead(p, r))) = AS!HeaderSize(RCmd(p))
           /\ AS!HeaderSize(RCmd(p)) \in Nat /\ AS!HeaderSize(WCmd(p)) \in Nat
           /\ WCmd(p) \in {11, 22, 31} /\ RCmd(p) \in {10, 21, 30}
<1>1. CASE p = "spi"
  <2>1. WHead(p, w, r) = <<11, EndFlag(r), 0, w>> /\ RHead(p, r) = <<10, 1, 0, r>> /\ EndFlag(r) \in Nat
        /\ WCmd(p) = 11 /\ RCmd(p) = 10
    BY <1>1 DEF WHead, RHead, WCmd, RCmd, EndFlag
  <2> QED BY <2>1, AsHeaderSizes
<1>2. CASE p = "i2c"
  <2>1. WHead(p, w, r) = <<22, 160, EndFlag(r), 0, w>> /\ RHead(p, r) = <<21, 160, 0, r>> /\ EndFlag(r) \in Nat
        /\ WCmd(p) = 22 /\ RCmd(p) = 21
    BY <1>2 DEF WHead, RHead, WCmd, RCmd, EndFlag
  <2> QED BY <2>1, AsHeaderSizes
<1>3. CASE p = "mw"
  <2>1. WHead(p, w, r) = <<31, EndFlag(r), 8 * w - 5, 0, w>> /\ RHead(p, r) = <<30, 1, 0, r>> /\ EndFlag(r) \in Nat
        /\ WCmd(p) = 31 /\ RCmd(p) = 30 /\ 8 * w - 5 \in Nat
    BY <1>3 DEF WHead, RHead, WCmd, RCmd, EndFlag
  <2> QED BY <2>1, AsHeaderSizes
<1> QED BY <1>1, <1>2, <1>3 DEF Protocols

LEMMA AsBytes ==
    ASSUME NEW a \in Nat, NEW b \in Nat, NEW c \in Nat, NEW h
    PROVE  /\ h = <<a, 0, c>> => h[1] = a /\ h[3 - 1] * 256 + h[3] = c
           /\ h = <<a, b, 0, c>> => h[1] = a /\ h[2] = b /\ h[4 - 1] * 256 + h[4] = c
<1>1. 3 - 1 = 2 /\ 4 - 1 = 3 /\ 0 * 256 + c = c
  OBVIOUS
<1>2. h = <<a, 0, c>> => h[1] = a /\ h[2] = 0 /\ h[3] = c
  OBVIOUS
<1>3. h = <<a, b, 0, c>> => h[1] = a /\ h[2] = b /\ h[3] = 0 /\ h[4] = c
  OBVIOUS
<1> QED BY <1>1, <1>2, <1>3

(* The bus after the header of a write.                                      *)
Opened(p, wire) ==
    IF p = "spi" THEN Append(wire, <<"low">>)
    ELSE IF p = "mw" THEN Append(wire, <<"high">>)
    ELSE (wire \o <<<<"start">>>>) \o <<<<"address", "w">>>>

LEMMA AsWriteHeader ==
    ASSUME NEW p \in Protocols, NEW w \in Nat \ {0}, NEW r \in Nat,
           IsFw(fw), AS!Header, fw.cmd = WCmd(p), tx = Tail(WHead(p, w, r)), fw.rst = RestPin(p)
    PROVE  /\ tx' = << >> /\ rx' = rx \o <<WCmd(p)>> /\ host' = host /\ IsFw(fw)'
           /\ fw'.pc = "data" /\ fw'.cmd = WCmd(p) /\ fw'.left = w /\ fw'.flag = (r = 0)
           /\ fw'.rst = BusyPin(p) /\ fw'.cells = fw.cells /\ (p = "mw" => fw'.bits = 8 * w - 5)
           /\ fw'.wire = Opened(p, fw.wire)
<1> DEFINE n == AS!HeaderSize(fw.cmd)
           h == tx
           m == Parsed(h, n)
<1>1. h \in Seq(Nat) /\ Len(h) = n /\ n \in Nat
  BY AsHeadOf
<1>5. EndFlag(r) \in Nat /\ (EndFlag(r) # 0 <=> r = 0) /\ (EndFlag(r) = 1 <=> r = 0)
  BY DEF EndFlag
<1>2. CASE p = "spi"
  <2>1. h = <<EndFlag(r), 0, w>> /\ fw.cmd = 11 /\ n = 3
    BY <1>2, <1>5, AsHeaderSizes DEF WHead, WCmd
  <2>2. /\ tx' = << >> /\ host' = host
        /\ fw' = [AS!Drive(m, "low") EXCEPT !.pc = "data"] /\ rx' = rx \o <<fw.cmd>>
    BY <1>1, <2>1, AsWholeHeader
  <2>3. h[1] = EndFlag(r) /\ h[3 - 1] * 256 + h[3] = w
    <3> HIDE DEF h, n
    <3> QED BY <2>1, <1>5, AsBytes
  <2>4. m = [fw EXCEPT !.pc = "loop", !.flag = (r = 0), !.left = w]
    <3>1. n > 1
      BY <2>1
    <3>2. /\ h[n - 1] * 256 + h[n] = w
      BY <2>1, <2>3
    <3> HIDE DEF h, n
    <3> QED BY <1>5, <2>3, <3>1, <3>2 DEF Parsed, m
  <2> HIDE DEF m, h, n
  <2>5. fw.rst = "high"
    BY <1>2 DEF RestPin
  <2>6. AS!Drive(m, "low") = [m EXCEPT !.rst = "low", !.wire = Append(@, <<"low">>)]
    BY <2>4, <2>5 DEF AS!Drive, IsFw
  <2> QED BY <1>2, <2>1, <2>2, <2>4, <2>6 DEF IsFw, WCmd, BusyPin, Opened
<1>3. CASE p = "i2c"
  <2>1. h = <<160, EndFlag(r), 0, w>> /\ fw.cmd = 22 /\ n = 4
    BY <1>3, <1>5, AsHeaderSizes DEF WHead, WCmd
  <2>2. /\ tx' = << >> /\ host' = host
        /\ fw' = [AS!Out(AS!Start(m), <<<<"address", "w">>>>) EXCEPT !.pc = "data", !.flag = h[2] = 1]
        /\ rx' = rx \o <<fw.cmd>>
    BY <1>1, <2>1, AsWholeHeader
  <2>3. (h[2] = 1) = (r = 0) /\ h[4 - 1] * 256 + h[4] = w
    <3> HIDE DEF h, n
    <3>1. h[2] = EndFlag(r) /\ h[4 - 1] * 256 + h[4] = w
      <4>1. 160 \in Nat
        OBVIOUS
      <4> QED BY <2>1, <1>5, <4>1, AsBytes
    <3> QED BY <1>5, <3>1
  <2>4. m = [fw EXCEPT !.pc = "loop", !.flag = h[1] # 0, !.left = w]
    <3>1. n > 1
      BY <2>1
    <3>2. /\ h[n - 1] * 256 + h[n] = w
      BY <2>1, <2>3
    <3> HIDE DEF h, n
    <3> QED BY <1>5, <2>3, <3>1, <3>2 DEF Parsed, m
  <2> HIDE DEF m, h, n
  <2>5. fw.rst = "input"
    BY <1>3 DEF RestPin
  <2>6. AS!Out(AS!Start(m), <<<<"address", "w">>>>)
        = [m EXCEPT !.wire = (@ \o <<<<"start">>>>) \o <<<<"address", "w">>>>]
    BY <2>4 DEF AS!Out, AS!Start, IsFw
  <2>7. /\ m.left = w /\ m.rst = "input" /\ m.cells = fw.cells /\ m.wire = fw.wire /\ m.cmd = 22 /\ IsFw(m)
    BY <2>1, <2>4, <2>5 DEF IsFw
  <2>8. /\ fw'.pc = "data" /\ fw'.cmd = 22 /\ fw'.left = w /\ fw'.flag = (h[2] = 1)
        /\ fw'.rst = "input" /\ fw'.cells = fw.cells
        /\ fw'.wire = (fw.wire \o <<<<"start">>>>) \o <<<<"address", "w">>>> /\ IsFw(fw')
    BY <2>2, <2>6, <2>7 DEF IsFw
  <2>9. WCmd(p) = 22 /\ BusyPin(p) = "input" /\ p # "mw"
        /\ Opened(p, fw.wire) = (fw.wire \o <<<<"start">>>>) \o <<<<"address", "w">>>>
    BY <1>3 DEF WCmd, BusyPin, Opened
  <2> QED BY <2>1, <2>2, <2>3, <2>8, <2>9
<1>4. CASE p = "mw"
  <2>0. 8 * w - 5 \in Nat
    OBVIOUS
  <2>1. h = <<EndFlag(r), 8 * w - 5, 0, w>> /\ fw.cmd = 31 /\ n = 4
    BY <1>4, <1>5, <2>0, AsHeaderSizes DEF WHead, WCmd
  <2>2. /\ tx' = << >> /\ host' = host
        /\ fw' = [AS!Drive(m, "high") EXCEPT !.pc = "data", !.bits = h[2]] /\ rx' = rx \o <<fw.cmd>>
    BY <1>1, <2>1, AsWholeHeader
  <2>3. h[1] = EndFlag(r) /\ h[4 - 1] * 256 + h[4] = w /\ h[2] = 8 * w - 5
    <3> HIDE DEF h, n
    <3> DEFINE b == 8 * w - 5
    <3>1. b \in Nat /\ h = <<EndFlag(r), b, 0, w>>
      BY <2>0, <2>1
    <3> HIDE DEF b
    <3>2. h[1] = EndFlag(r) /\ h[4 - 1] * 256 + h[4] = w /\ h[2] = b
      BY <3>1, <1>5, AsBytes
    <3> QED BY <3>2 DEF b
  <2>4. m = [fw EXCEPT !.pc = "loop", !.flag = (r = 0), !.left = w]
    <3>1. n > 1
      BY <2>1
    <3>2. /\ h[n - 1] * 256 + h[n] = w
      BY <2>1, <2>3
    <3> HIDE DEF h, n
    <3> QED BY <1>5, <2>3, <3>1, <3>2 DEF Parsed, m
  <2> HIDE DEF m, h, n
  <2>5. fw.rst = "low"
    BY <1>4 DEF RestPin
  <2>6. AS!Drive(m, "high") = [m EXCEPT !.rst = "high", !.wire = Append(@, <<"high">>)]
    BY <2>4, <2>5 DEF AS!Drive, IsFw
  <2>7. /\ m.left = w /\ m.flag = (r = 0) /\ m.rst = "low" /\ m.cells = fw.cells /\ m.wire = fw.wire
        /\ m.cmd = 31 /\ IsFw(m)
    BY <2>1, <2>4, <2>5 DEF IsFw
  <2>8. /\ fw'.pc = "data" /\ fw'.cmd = 31 /\ fw'.left = w /\ fw'.flag = (r = 0) /\ fw'.bits = h[2]
        /\ fw'.rst = "high" /\ fw'.cells = fw.cells /\ fw'.wire = Append(fw.wire, <<"high">>) /\ IsFw(fw')
    BY <2>2, <2>6, <2>7 DEF IsFw
  <2>9. WCmd(p) = 31 /\ BusyPin(p) = "high" /\ Opened(p, fw.wire) = Append(fw.wire, <<"high">>)
    BY <1>4 DEF WCmd, BusyPin, Opened
  <2> QED BY <2>1, <2>2, <2>3, <2>8, <2>9
<1> QED BY <1>2, <1>3, <1>4 DEF Protocols

LEMMA AsReadBlocks ==
    ASSUME NEW r \in Nat \ {0}, NEW i \in Nat, i < RBlocks(r)
    PROVE  /\ Upto(r, rchunk, i) \in Nat /\ Upto(r, rchunk, i + 1) \in Nat /\ RBlocks(r) \in Nat
           /\ Upto(r, rchunk, i) < r /\ Upto(r, rchunk, i + 1) <= r /\ Upto(r, rchunk, i + 1) > Upto(r, rchunk, i)
           /\ Upto(r, rchunk, i + 1) - Upto(r, rchunk, i)
              = IF r - Upto(r, rchunk, i) >= rchunk THEN rchunk ELSE r - Upto(r, rchunk, i)
           /\ Upto(r, rchunk, i + 1) = r <=> i + 1 = RBlocks(r)
<1>1. RBlocks(r) \in Nat /\ rchunk \in Nat \ {0}
  BY AsConst, AsBlocks DEF RBlocks
<1>2. i \in 0 .. RBlocks(r) - 1 /\ i \in 0 .. RBlocks(r) /\ i + 1 \in 0 .. RBlocks(r)
  BY <1>1
<1>3. /\ Upto(r, rchunk, i) \in 0 .. r /\ Upto(r, rchunk, i + 1) \in 0 .. r
      /\ Upto(r, rchunk, RBlocks(r)) = r
      /\ Upto(r, rchunk, i) < r
      /\ Upto(r, rchunk, i + 1) = IF r - Upto(r, rchunk, i) >= rchunk THEN Upto(r, rchunk, i) + rchunk ELSE r
      /\ Upto(r, rchunk, i + 1) > Upto(r, rchunk, i)
  BY <1>1, <1>2, AsUpto DEF RBlocks
<1>4. ASSUME i + 1 # RBlocks(r) PROVE Upto(r, rchunk, i + 1) < r
  <2>1. i + 1 \in 0 .. RBlocks(r) - 1
    BY <1>1, <1>2, <1>4
  <2> QED BY <1>1, <2>1, AsUpto DEF RBlocks
<1> DEFINE a == Upto(r, rchunk, i)
           b == Upto(r, rchunk, i + 1)
<1>5. /\ a \in Nat /\ b \in Nat /\ a < r /\ b <= r /\ b > a
      /\ b = IF r - a >= rchunk THEN a + rchunk ELSE r
  BY <1>3
<1>6. b = r <=> i + 1 = RBlocks(r)
  BY <1>3, <1>4, <1>5
<1> HIDE DEF a, b
<1>7. b - a = IF r - a >= rchunk THEN rchunk ELSE r - a
  BY <1>1, <1>5
<1> QED BY <1>1, <1>5, <1>6, <1>7 DEF a, b

(* The next n of the bytes a frame reads are on the bus, and its end.           *)
InEvents(p, r, a, n) == [j \in 1 .. n |-> InEvent(p, r, a + j)]
ReadOn(f, p, w, a, n, es) == Upmost(f, Before(p, w) + a) \o es = Upmost(f, Before(p, w) + (a + n))
Stopped(f, p, w, r) == Upmost(f, Before(p, w) + r) \o <<<<"stop">>>> = Upmost(f, Before(p, w) + (r + 1))

LEMMA AsReadEvents ==
    ASSUME NEW p \in Protocols, NEW w \in Nat \ {0}, NEW r \in Nat \ {0}, NEW f, Frame(f, p, w, r),
           NEW a \in Nat, NEW n \in Nat, a + n <= r
    PROVE  ReadOn(f, p, w, a, n, InEvents(p, r, a, n))
<1>1. Before(p, w) \in Nat /\ f \in Seq(Events) /\ Len(f) = Before(p, w) + r + 1 /\ FrameLen(p, w, r) = Len(f)
  BY DEF Before, Opening, Turn, Frame, FrameLen
<1> DEFINE k == Before(p, w) + a
           es == InEvents(p, r, a, n)
<1>2. es \in Seq(Events) /\ Len(es) = n /\ \A j \in 1 .. n : es[j] = InEvent(p, r, a + j)
  <2>1. \A j \in 1 .. n : InEvent(p, r, a + j) \in Events
    <3> TAKE j \in 1 .. n
    <3>1. a + j \in Nat
      OBVIOUS
    <3> QED BY <3>1, AsEvents
  <2> QED BY <2>1 DEF InEvents
<1> HIDE DEF es
<1>3. ASSUME NEW j \in 1 .. Len(es) PROVE f[k + j] = es[j]
  <2>1. a + j \in 1 .. r /\ j \in 1 .. n
    BY <1>2, <1>3
  <2>2. f[Before(p, w) + (a + j)] = InEvent(p, r, a + j)
    BY <2>1 DEF Frame, Before
  <2>3. Before(p, w) + (a + j) = k + j
    BY <1>1, <2>1
  <2> QED BY <1>2, <2>1, <2>2, <2>3
<1>4. k \in Nat /\ k + Len(es) <= Len(f) /\ k + Len(es) = Before(p, w) + (a + n)
  BY <1>1, <1>2
<1> HIDE DEF k
<1>5. Upmost(f, k) \o es = Upmost(f, k + Len(es))
  <2>1. \A j \in 1 .. Len(es) : f[k + j] = es[j]
    BY <1>3
  <2>2. f \in Seq(Events) /\ es \in Seq(Events) /\ k \in Nat /\ k + Len(es) <= Len(f)
    BY <1>1, <1>2, <1>4
  <2> QED BY ONLY <2>1, <2>2, AsExtend
<1>6. Upmost(f, k) \o es = Upmost(f, Before(p, w) + (a + n))
  <2>1. k + Len(es) = Before(p, w) + (a + n)
    BY <1>4
  <2> QED BY <1>5, <2>1, Zenon
<1> QED BY <1>6 DEF k, es, ReadOn

LEMMA AsReadStop ==
    ASSUME NEW w \in Nat \ {0}, NEW r \in Nat \ {0}, NEW f, Frame(f, "i2c", w, r)
    PROVE  Stopped(f, "i2c", w, r)
<1> DEFINE l == Before("i2c", w) + r
           e == <<"stop">>
<1>1. /\ f \in Seq(Events) /\ l \in Nat /\ l < Len(f) /\ l + 1 = Before("i2c", w) + (r + 1)
      /\ l + 1 = FrameLen("i2c", w, r)
  BY DEF Before, Opening, Turn, Frame, FrameLen
<1>2. f[l + 1] = e
  BY <1>1 DEF Frame, EndEvent
<1> HIDE DEF l, e
<1>3. Upmost(f, l) \o <<e>> = Upmost(f, l + 1)
  BY <1>1, <1>2, AsExtendOne
<1>4. Upmost(f, l) \o <<e>> = Upmost(f, Before("i2c", w) + (r + 1))
  BY <1>1, <1>3
<1> QED BY <1>4 DEF l, e, Stopped

LEMMA AsFwWire ==
    ASSUME NEW m, IsFw(m), NEW x
    PROVE  /\ IsFw([m EXCEPT !.wire = x]) /\ [m EXCEPT !.wire = x].wire = x
           /\ [m EXCEPT !.wire = x].cells = m.cells /\ [m EXCEPT !.wire = x].left = m.left
           /\ [m EXCEPT !.wire = x].cmd = m.cmd /\ [m EXCEPT !.wire = x].flag = m.flag
           /\ [m EXCEPT !.wire = x].rst = m.rst /\ [m EXCEPT !.wire = x].pc = m.pc
           /\ [m EXCEPT !.wire = x].bits = m.bits
<1> DEFINE q == [m EXCEPT !.wire = x]
<1>1. q = [pc |-> m.pc, cmd |-> m.cmd, flag |-> m.flag, left |-> m.left, bits |-> m.bits, rst |-> m.rst,
           wire |-> x, cells |-> m.cells, kept |-> m.kept]
  BY DEF IsFw
<1> HIDE DEF q
<1>2. q.wire = x /\ q.cells = m.cells /\ q.left = m.left /\ q.cmd = m.cmd /\ q.flag = m.flag /\ q.rst = m.rst
      /\ q.pc = m.pc /\ q.bits = m.bits /\ q.kept = m.kept
  BY <1>1
<1>3. IsFw(q)
  BY <1>1, <1>2 DEF IsFw
<1> QED BY <1>2, <1>3 DEF q

CellsRead(m, x, y) == [m EXCEPT !.wire = x, !.cells = y]
LEMMA AsFwCells ==
    ASSUME NEW m, IsFw(m), NEW x, NEW y
    PROVE  /\ IsFw(CellsRead(m, x, y)) /\ CellsRead(m, x, y).wire = x /\ CellsRead(m, x, y).cells = y
           /\ CellsRead(m, x, y).left = m.left /\ CellsRead(m, x, y).cmd = m.cmd
           /\ CellsRead(m, x, y).flag = m.flag /\ CellsRead(m, x, y).rst = m.rst
<1> DEFINE q == CellsRead(m, x, y)
<1> DEFINE v == [m EXCEPT !.wire = x]
<1>1. IsFw(v) /\ v.wire = x /\ v.left = m.left /\ v.cmd = m.cmd /\ v.flag = m.flag /\ v.rst = m.rst
  BY AsFwWire
<1>2. q = [v EXCEPT !.cells = y]
  BY DEF CellsRead
<1> HIDE DEF v, q
<1>3. q = [pc |-> v.pc, cmd |-> v.cmd, flag |-> v.flag, left |-> v.left, bits |-> v.bits, rst |-> v.rst,
           wire |-> v.wire, cells |-> y, kept |-> v.kept]
  BY ONLY <1>1, <1>2 DEF IsFw
<1>4. q.wire = v.wire /\ q.cells = y /\ q.left = v.left /\ q.cmd = v.cmd /\ q.flag = v.flag /\ q.rst = v.rst
      /\ q.pc = v.pc /\ q.bits = v.bits /\ q.kept = v.kept
  BY ONLY <1>3
<1>5. IsFw(q)
  BY ONLY <1>3, <1>4 DEF IsFw
<1> QED BY <1>1, <1>4, <1>5 DEF q

LEMMA AsNextBlock ==
    ASSUME NEW p \in Protocols, NEW w \in Nat \ {0}, NEW r \in Nat \ {0}, NEW f, Frame(f, p, w, r),
           NEW i \in Nat, i < RBlocks(r), NEW m, IsFw(m), m.cmd = RCmd(p),
           m.left = r - Upto(r, rchunk, i), m.cells = Upto(r, rchunk, i), m.rst = BusyPin(p),
           m.wire = Upmost(f, Before(p, w) + Upto(r, rchunk, i))
    PROVE  /\ IsFw(AS!NextBlock(m).fw) /\ AS!NextBlock(m).fw.pc = "ack"
           /\ AS!NextBlock(m).fw.cmd = RCmd(p) /\ AS!NextBlock(m).fw.left = r - Upto(r, rchunk, i + 1)
           /\ AS!NextBlock(m).fw.flag = m.flag /\ AS!NextBlock(m).fw.rst = BusyPin(p)
           /\ AS!NextBlock(m).fw.cells = Upto(r, rchunk, i + 1)
           /\ AS!NextBlock(m).fw.wire
              = Upmost(f, Before(p, w) + (Upto(r, rchunk, i + 1) + Ending(p, r, i + 1)))
           /\ AS!NextBlock(m).answer = Given(Upto(r, rchunk, i), Upto(r, rchunk, i + 1))
<1> DEFINE a == Upto(r, rchunk, i)
           b == Upto(r, rchunk, i + 1)
           n == IF m.left >= rchunk THEN rchunk ELSE m.left
           es == InEvents(p, r, a, n)
           wire == m.wire \o es
           read == [m EXCEPT !.wire = wire, !.cells = b]
           full == wire \o <<<<"stop">>>>
<1>1. /\ a \in Nat /\ b \in Nat /\ a < r /\ b <= r /\ b > a /\ m.left = r - a /\ m.cells = a
      /\ b - a = n /\ (b = r <=> i + 1 = RBlocks(r))
  BY AsReadBlocks
<1> HIDE DEF a, b
<1>2. n \in Nat \ {0} /\ a + n = b /\ a + n <= r /\ (n = m.left <=> b = r) /\ m.left - n = r - b
      /\ m.cells + n = b
  <2> HIDE DEF n
  <2> QED BY <1>1
<1>3. (m.cmd = AS!FUNC_I2C_READ) = (p = "i2c")
  BY AsCodes DEF Codes, RCmd, Protocols
<1> DEFINE nack(j) == IF m.cmd = AS!FUNC_I2C_READ THEN (IF j = m.left THEN "nack" ELSE "ack") ELSE "-"
           acks == [j \in 1 .. n |-> nack(j)]
<1>4. AS!NextBlock(m) =
        [fw |-> [IF m.cmd = AS!FUNC_I2C_READ /\ n = m.left THEN AS!Stop(AS!In(m, n, acks)) ELSE AS!In(m, n, acks)
                 EXCEPT !.left = @ - n, !.pc = "ack"],
         answer |-> AS!CellsOf(m, n)]
  BY Zenon DEF AS!NextBlock
<1> HIDE DEF n
<1>5. AS!In(m, n, acks) = read
  <2>1. ASSUME NEW j \in 1 .. n PROVE <<"in", acks[j]>> = InEvent(p, r, a + j)
    <3>1. j = m.left <=> a + j = r
      BY <1>1, <1>2
    <3>2. acks[j] = nack(j)
      OBVIOUS
    <3> QED BY <1>3, <3>1, <3>2 DEF InEvent, Acked
  <2>2. [j \in 1 .. n |-> <<"in", acks[j]>>] = es
    BY <2>1 DEF InEvents
  <2>3. AS!In(m, n, acks) = [m EXCEPT !.wire = @ \o [j \in 1 .. n |-> <<"in", acks[j]>>], !.cells = @ + n]
    BY Zenon DEF AS!In
  <2> QED BY <1>2, <2>2, <2>3
<1> DEFINE last == p = "i2c" /\ b = r
           wide == IF last THEN AS!Stop(read) ELSE read
<1>6. AS!NextBlock(m) = [fw |-> [wide EXCEPT !.left = @ - n, !.pc = "ack"], answer |-> AS!CellsOf(m, n)]
  <2>1. (m.cmd = AS!FUNC_I2C_READ /\ n = m.left) = last
    BY <1>2, <1>3
  <2> QED BY <1>4, <1>5, <2>1
<1>7. AS!CellsOf(m, n) = Given(a, b)
  <2>1. ~(m.rst = "input" /\ m.cmd \notin AS!I2c \cup AS!I2cByte)
    BY <1>3 DEF BusyPin, AS!I2c, Protocols
  <2>2. AS!CellsOf(m, n) = [j \in 1 .. n |-> AS!Cell(m.cells + j)]
    BY <2>1 DEF AS!CellsOf
  <2> QED BY <1>1, <2>2 DEF Given
<1> HIDE DEF es, acks, nack
<1>10. /\ wire = Upmost(f, Before(p, w) + b)
       /\ last => full = Upmost(f, Before(p, w) + (b + 1))
  <2>1. a \in Nat /\ n \in Nat /\ a + n <= r /\ m.wire = Upmost(f, Before(p, w) + a)
    BY <1>1, <1>2 DEF a
  <2>2. ReadOn(f, p, w, a, n, es)
    BY <2>1, AsReadEvents DEF es
  <2>3. wire = Upmost(f, Before(p, w) + b)
    BY <1>2, <2>1, <2>2 DEF ReadOn
  <2>4. ASSUME last PROVE full = Upmost(f, Before(p, w) + (b + 1))
    <3>1. Stopped(f, "i2c", w, r)
      BY <2>4, AsReadStop
    <3> QED BY <2>3, <2>4, <3>1 DEF Stopped
  <2> QED BY <2>3, <2>4
<1> HIDE DEF wire
<1>8. /\ IsFw(read) /\ read.wire = wire /\ read.cells = b /\ read.left = m.left /\ read.cmd = m.cmd
      /\ read.flag = m.flag /\ read.rst = m.rst
  <2>1. read = CellsRead(m, wire, b)
    BY DEF CellsRead
  <2> HIDE DEF n, last, read
  <2> QED BY <2>1, AsFwCells
<1> HIDE DEF read
<1>9. /\ IsFw(AS!Stop(read)) /\ AS!Stop(read).wire = full /\ AS!Stop(read).cells = b
      /\ AS!Stop(read).left = m.left /\ AS!Stop(read).cmd = m.cmd
      /\ AS!Stop(read).flag = m.flag /\ AS!Stop(read).rst = m.rst
  <2>1. AS!Stop(read) = [read EXCEPT !.wire = full]
    <3>1. AS!Stop(read) = [read EXCEPT !.wire = @ \o <<<<"stop">>>>]
      BY Zenon DEF AS!Stop, AS!Out
    <3> QED BY <1>8, <3>1, Zenon
  <2> HIDE DEF full
  <2> QED BY <1>8, <2>1, AsFwWire
<1>12. Ending(p, r, i + 1) = (IF last THEN 1 ELSE 0) /\ b + 0 = b
  BY <1>1 DEF Ending
<1> HIDE DEF full
<1>13. /\ IsFw(wide) /\ wide.wire = Upmost(f, Before(p, w) + (b + Ending(p, r, i + 1))) /\ wide.cells = b
       /\ wide.left = m.left /\ wide.cmd = m.cmd /\ wide.flag = m.flag /\ wide.rst = m.rst
  <2>1. CASE last
    BY <1>8, <1>9, <1>10, <1>12, <2>1
  <2>2. CASE ~last
    BY <1>8, <1>9, <1>10, <1>12, <2>2
  <2> QED BY <2>1, <2>2
<1> HIDE DEF wide, last
<1>14. AS!NextBlock(m).fw = [wide EXCEPT !.left = @ - n, !.pc = "ack"] /\ AS!NextBlock(m).answer = AS!CellsOf(m, n)
  BY <1>6
<1>15. /\ IsFw(AS!NextBlock(m).fw) /\ AS!NextBlock(m).fw.pc = "ack" /\ AS!NextBlock(m).fw.cmd = m.cmd
       /\ AS!NextBlock(m).fw.left = r - b /\ AS!NextBlock(m).fw.flag = m.flag /\ AS!NextBlock(m).fw.rst = m.rst
       /\ AS!NextBlock(m).fw.cells = b /\ AS!NextBlock(m).fw.wire = wide.wire
  <2> DEFINE nb == AS!NextBlock(m).fw
             d == wide.left - n
  <2>1. nb = [wide EXCEPT !.left = d, !.pc = "ack"] /\ d = r - b
    BY <1>2, <1>13, <1>14
  <2> HIDE DEF nb, d
  <2>2. IsFw(nb) /\ nb.pc = "ack" /\ nb.cmd = wide.cmd /\ nb.left = d /\ nb.flag = wide.flag /\ nb.rst = wide.rst
        /\ nb.cells = wide.cells /\ nb.wire = wide.wire
    BY <1>13, <2>1 DEF IsFw
  <2> QED BY <1>13, <2>1, <2>2 DEF nb
<1> QED BY <1>7, <1>13, <1>14, <1>15 DEF a, b

(* A handler ends.                                                          *)
Ended(m) ==
    CASE m.cmd \in AS!Spi -> IF m.flag THEN AS!Drive(m, "high") ELSE m
      [] m.cmd \in AS!Mw -> IF m.flag THEN AS!Drive(m, "low") ELSE m
      [] m.cmd = AS!FUNC_I2C_READ -> m
      [] m.cmd = AS!FUNC_I2C_WRITE -> IF m.flag THEN AS!Stop(m) ELSE AS!Start(m)
EndWire(p, m) ==
    IF p = "i2c" THEN (IF m.cmd = 21 THEN m.wire ELSE IF m.flag THEN m.wire \o <<<<"stop">>>> ELSE m.wire \o <<<<"start">>>>)
    ELSE IF m.flag THEN Append(m.wire, EndEvent(p)) ELSE m.wire

LEMMA AsFwPin ==
    ASSUME NEW m, IsFw(m), NEW x, NEW level, m.rst # "input", m.rst # level
    PROVE  /\ IsFw(AS!Drive(m, level)) /\ AS!Drive(m, level).wire = Append(m.wire, <<level>>)
           /\ AS!Drive(m, level).rst = level /\ AS!Drive(m, level).cells = m.cells
           /\ AS!Drive(m, level).flag = m.flag
<1> DEFINE q == AS!Drive(m, level)
           x1 == Append(m.wire, <<level>>)
           v == [m EXCEPT !.wire = x1]
<1>1. q = [m EXCEPT !.rst = level, !.wire = Append(@, <<level>>)]
  BY Zenon DEF AS!Drive
<1> HIDE DEF q
<1>2. q = [pc |-> m.pc, cmd |-> m.cmd, flag |-> m.flag, left |-> m.left, bits |-> m.bits, rst |-> level,
           wire |-> x1, cells |-> m.cells, kept |-> m.kept]
  <2>1. q = [m EXCEPT !.rst = level, !.wire = x1]
    BY <1>1
  <2> HIDE DEF x1
  <2> QED BY <2>1 DEF IsFw
<1> HIDE DEF x1
<1>3. q.wire = x1 /\ q.cells = m.cells /\ q.rst = level /\ q.flag = m.flag /\ IsFw(q)
  BY ONLY <1>2 DEF IsFw
<1> QED BY <1>3 DEF q, x1

LEMMA AsEnded ==
    ASSUME NEW p \in Protocols, NEW m, IsFw(m), m.cmd \in {WCmd(p), RCmd(p)}, m.rst = BusyPin(p), m.flag \in BOOLEAN
    PROVE  /\ IsFw(Ended(m)) /\ Ended(m).wire = EndWire(p, m) /\ Ended(m).cells = m.cells
           /\ Ended(m).rst = (IF m.flag THEN RestPin(p) ELSE BusyPin(p)) /\ Ended(m).flag = m.flag
<1>0. /\ AS!Spi = {10, 11} /\ AS!Mw = {30, 31} /\ AS!FUNC_I2C_READ = 21 /\ AS!FUNC_I2C_WRITE = 22
  BY AsCodes DEF Codes, AS!Spi, AS!Mw
<1>1. CASE p = "spi"
  <2>1. /\ m.cmd \in AS!Spi /\ m.cmd \notin AS!Mw /\ m.cmd # AS!FUNC_I2C_READ /\ m.cmd # AS!FUNC_I2C_WRITE
        /\ m.rst = "low"
    BY <1>0, <1>1 DEF WCmd, RCmd, BusyPin
  <2>2. Ended(m) = IF m.flag THEN AS!Drive(m, "high") ELSE m
    BY <2>1 DEF Ended
  <2>3. /\ IsFw(AS!Drive(m, "high")) /\ AS!Drive(m, "high").wire = Append(m.wire, <<"high">>)
        /\ AS!Drive(m, "high").rst = "high" /\ AS!Drive(m, "high").cells = m.cells
        /\ AS!Drive(m, "high").flag = m.flag
    <3> DEFINE level == "high"
    <3>1. m.rst # "input" /\ m.rst # level
      BY <2>1
    <3> HIDE DEF level
    <3>2. /\ IsFw(AS!Drive(m, level)) /\ AS!Drive(m, level).wire = Append(m.wire, <<level>>)
          /\ AS!Drive(m, level).rst = level /\ AS!Drive(m, level).cells = m.cells
          /\ AS!Drive(m, level).flag = m.flag
      BY <3>1, AsFwPin
    <3> QED BY <3>2 DEF level
  <2>4. EndWire(p, m) = IF m.flag THEN Append(m.wire, <<"high">>) ELSE m.wire
    BY <1>1 DEF EndWire, EndEvent
  <2>5. RestPin(p) = "high" /\ BusyPin(p) = "low"
    BY <1>1 DEF RestPin, BusyPin
  <2> QED BY <2>1, <2>2, <2>3, <2>4, <2>5
<1>2. CASE p = "mw"
  <2>1. /\ m.cmd \in AS!Mw /\ m.cmd \notin AS!Spi /\ m.cmd # AS!FUNC_I2C_READ /\ m.cmd # AS!FUNC_I2C_WRITE
        /\ m.rst = "high"
    BY <1>0, <1>2 DEF WCmd, RCmd, BusyPin
  <2>2. Ended(m) = IF m.flag THEN AS!Drive(m, "low") ELSE m
    BY <2>1 DEF Ended
  <2>3. /\ IsFw(AS!Drive(m, "low")) /\ AS!Drive(m, "low").wire = Append(m.wire, <<"low">>)
        /\ AS!Drive(m, "low").rst = "low" /\ AS!Drive(m, "low").cells = m.cells
        /\ AS!Drive(m, "low").flag = m.flag
    <3> DEFINE level == "low"
    <3>1. m.rst # "input" /\ m.rst # level
      BY <2>1
    <3> HIDE DEF level
    <3>2. /\ IsFw(AS!Drive(m, level)) /\ AS!Drive(m, level).wire = Append(m.wire, <<level>>)
          /\ AS!Drive(m, level).rst = level /\ AS!Drive(m, level).cells = m.cells
          /\ AS!Drive(m, level).flag = m.flag
      BY <3>1, AsFwPin
    <3> QED BY <3>2 DEF level
  <2>4. EndWire(p, m) = IF m.flag THEN Append(m.wire, <<"low">>) ELSE m.wire
    BY <1>2 DEF EndWire, EndEvent
  <2>5. RestPin(p) = "low" /\ BusyPin(p) = "high"
    BY <1>2 DEF RestPin, BusyPin
  <2> QED BY <2>1, <2>2, <2>3, <2>4, <2>5
<1>3. CASE p = "i2c"
  <2>1. m.cmd \in {21, 22} /\ m.cmd \notin AS!Spi /\ m.cmd \notin AS!Mw /\ m.rst = "input"
    BY <1>0, <1>3 DEF WCmd, RCmd, BusyPin
  <2>2. Ended(m) = IF m.cmd = 21 THEN m ELSE IF m.flag THEN AS!Stop(m) ELSE AS!Start(m)
    BY <1>0, <2>1 DEF Ended
  <2> DEFINE stop == m.wire \o <<<<"stop">>>>
             start == m.wire \o <<<<"start">>>>
  <2>3. AS!Stop(m) = [m EXCEPT !.wire = stop] /\ AS!Start(m) = [m EXCEPT !.wire = start]
    BY Zenon DEF AS!Stop, AS!Start, AS!Out
  <2>4. EndWire(p, m) = IF m.cmd = 21 THEN m.wire ELSE IF m.flag THEN stop ELSE start
    BY <1>3 DEF EndWire
  <2>5. RestPin(p) = "input" /\ BusyPin(p) = "input"
    BY <1>3 DEF RestPin, BusyPin
  <2> HIDE DEF stop, start
  <2>6. /\ IsFw(AS!Stop(m)) /\ AS!Stop(m).wire = stop /\ AS!Stop(m).rst = m.rst /\ AS!Stop(m).cells = m.cells
        /\ AS!Stop(m).flag = m.flag
    BY <2>3, AsFwWire
  <2>7. /\ IsFw(AS!Start(m)) /\ AS!Start(m).wire = start /\ AS!Start(m).rst = m.rst /\ AS!Start(m).cells = m.cells
        /\ AS!Start(m).flag = m.flag
    BY <2>3, AsFwWire
  <2> QED BY <2>1, <2>2, <2>4, <2>5, <2>6, <2>7
<1> QED BY <1>1, <1>2, <1>3 DEF Protocols

LEMMA AsFinished ==
    ASSUME NEW p \in Protocols, NEW m, IsFw(m), m.cmd \in {WCmd(p), RCmd(p)}, m.rst = BusyPin(p), m.flag \in BOOLEAN
    PROVE  /\ IsFw(AS!Finished(m)) /\ AS!Finished(m).wire = EndWire(p, m) /\ AS!Finished(m).cells = m.cells
           /\ AS!Finished(m).rst = (IF m.flag THEN RestPin(p) ELSE BusyPin(p))
           /\ AS!Finished(m).pc = "loop" /\ AS!Finished(m).kept = ~m.flag
<1> DEFINE e == Ended(m)
           k == ~m.flag
           q == AS!Finished(m)
<1>1. q = [e EXCEPT !.pc = "loop", !.kept = k]
  BY Zenon DEF AS!Finished, Ended
<1>2. /\ IsFw(e) /\ e.wire = EndWire(p, m) /\ e.cells = m.cells
      /\ e.rst = (IF m.flag THEN RestPin(p) ELSE BusyPin(p))
  BY AsEnded
<1> HIDE DEF e, k, q
<1>3. q = [pc |-> "loop", cmd |-> e.cmd, flag |-> e.flag, left |-> e.left, bits |-> e.bits, rst |-> e.rst,
           wire |-> e.wire, cells |-> e.cells, kept |-> k]
  BY ONLY <1>1, <1>2 DEF IsFw
<1>4. IsFw(q) /\ q.pc = "loop" /\ q.kept = k /\ q.rst = e.rst /\ q.wire = e.wire /\ q.cells = e.cells
  BY ONLY <1>3 DEF IsFw
<1> QED BY <1>2, <1>4 DEF q, k

Answers(echo, d) == rx' = rx \o (echo \o d)
LEMMA AsReadMore ==
    ASSUME NEW p \in Protocols, NEW w \in Nat \ {0}, NEW r \in Nat \ {0}, NEW f, Frame(f, p, w, r),
           NEW i \in Nat, i < RBlocks(r), NEW m, IsFw(m), m.cmd = RCmd(p), m.flag = TRUE,
           m.left = r - Upto(r, rchunk, i), m.cells = Upto(r, rchunk, i), m.rst = BusyPin(p),
           m.wire = Upmost(f, Before(p, w) + Upto(r, rchunk, i)), NEW echo, AS!ReadFrom(m, echo)
    PROVE  /\ ReadUpto(fw', f, p, w, r, i + 1)
           /\ Answers(echo, Given(Upto(r, rchunk, i), Upto(r, rchunk, i + 1)))
<1>1. fw' = AS!NextBlock(m).fw /\ rx' = rx \o (echo \o AS!NextBlock(m).answer)
  BY Zenon DEF AS!ReadFrom, AS!Answer
<1>2. ReadUpto(AS!NextBlock(m).fw, f, p, w, r, i + 1)
  BY AsNextBlock DEF ReadUpto
<1>3. AS!NextBlock(m).answer = Given(Upto(r, rchunk, i), Upto(r, rchunk, i + 1))
  BY AsNextBlock
<1> QED BY <1>1, <1>2, <1>3, Zenon DEF Answers

LEMMA AsReadBegins ==
    ASSUME NEW r \in Nat \ {0}
    PROVE  RBlocks(r) \in Nat \ {0} /\ Upto(r, rchunk, 0) = 0 /\ Upto(r, rchunk, RBlocks(r)) = r
BY AsConst, AsBlocks, AsUpto DEF RBlocks

Rewired(m, x) == [m EXCEPT !.wire = x]
LEMMA AsRewired ==
    ASSUME NEW m, IsFw(m), NEW x
    PROVE  /\ IsFw(Rewired(m, x)) /\ Rewired(m, x).wire = x /\ Rewired(m, x).cells = m.cells
           /\ Rewired(m, x).left = m.left /\ Rewired(m, x).cmd = m.cmd /\ Rewired(m, x).flag = m.flag
           /\ Rewired(m, x).rst = m.rst /\ Rewired(m, x).pc = m.pc
BY AsFwWire DEF Rewired

(* The header of a read, with the address that I2C needs.                     *)
Addressed(p, m) == IF p = "i2c" THEN AS!Out(m, <<<<"address", "r">>>>) ELSE m
LEMMA AsReadHeader ==
    ASSUME NEW p \in Protocols, NEW w \in Nat \ {0}, NEW r \in Nat \ {0}, NEW f, Frame(f, p, w, r),
           IsFw(fw), AS!Header, fw.cmd = RCmd(p), tx = Tail(RHead(p, r)), fw.rst = BusyPin(p),
           fw.cells = 0, fw.wire = Upmost(f, Opening(p) + w + Turning(p))
    PROVE  /\ tx' = << >> /\ host' = host /\ ReadUpto(fw', f, p, w, r, 1)
           /\ rx' = rx \o (<<RCmd(p)>> \o Given(0, Upto(r, rchunk, 1)))
<1> DEFINE n == AS!HeaderSize(fw.cmd)
           h == tx
           v == Parsed(h, n)
           m == Addressed(p, v)
<1>1. h \in Seq(Nat) /\ Len(h) = n /\ n = 3
  <2>1. h \in Seq(Nat) /\ Len(h) = n
    BY AsHeadOf
  <2>2. n = 3
    BY AsHeaderSizes DEF RCmd, Protocols
  <2> QED BY <2>1, <2>2
<1>2. \E a \in Nat \ {0} : h = <<a, 0, r>>
  BY DEF RHead, Protocols
<1>3. h[1] # 0 /\ h[n - 1] * 256 + h[n] = r /\ n > 1
  <2> PICK a \in Nat \ {0} : h = <<a, 0, r>>
    BY <1>2
  <2> HIDE DEF h, n
  <2>1. h[1] = a /\ h[3 - 1] * 256 + h[3] = r
    BY AsBytes
  <2> QED BY <1>1, <2>1
<1>4. tx' = << >> /\ host' = host
  <2>1. AS!HeaderSize(fw.cmd) = 3 /\ tx \in Seq(Nat) /\ Len(tx) = 3 /\ 3 \in Nat
    BY <1>1
  <2> HIDE DEF h, n
  <2> QED BY <2>1, AsWholeHeader
<1>5. v = [fw EXCEPT !.pc = "loop", !.flag = TRUE, !.left = r]
  <2> HIDE DEF h, n
  <2> QED BY <1>3 DEF Parsed
<1>6. AS!ReadFrom(m, <<RCmd(p)>>)
  <2>1. CASE p = "spi"
    <3>1. fw.cmd = 10 /\ RCmd(p) = 10
      BY <2>1 DEF RCmd
    <3>2. AS!ReadFrom(AS!Drive(v, "low"), <<fw.cmd>>)
      BY <1>1, <3>1, AsWholeHeader
    <3> HIDE DEF v
    <3>3. v.rst = "low"
      BY <1>5, <2>1 DEF IsFw, BusyPin
    <3>4. AS!Drive(v, "low") = v /\ m = v
      BY <2>1, <3>3 DEF AS!Drive, Addressed
    <3> HIDE DEF m
    <3> QED BY <3>1, <3>2, <3>4
  <2>2. CASE p = "mw"
    <3>1. fw.cmd = 30 /\ RCmd(p) = 30
      BY <2>2 DEF RCmd
    <3>2. AS!ReadFrom(v, <<fw.cmd>>)
      BY <1>1, <3>1, AsWholeHeader
    <3> HIDE DEF v
    <3>4. m = v
      BY <2>2 DEF Addressed
    <3> HIDE DEF m
    <3> QED BY <3>1, <3>2, <3>4
  <2>3. CASE p = "i2c"
    <3>1. fw.cmd = 21 /\ RCmd(p) = 21
      BY <2>3 DEF RCmd
    <3>2. AS!ReadFrom(AS!Out(v, <<<<"address", "r">>>>), <<fw.cmd>>)
      BY <1>1, <3>1, AsWholeHeader
    <3> HIDE DEF v
    <3>4. m = AS!Out(v, <<<<"address", "r">>>>)
      BY <2>3 DEF Addressed
    <3> HIDE DEF m
    <3> QED BY <3>1, <3>2, <3>4
  <2> QED BY <2>1, <2>2, <2>3 DEF Protocols
<1> HIDE DEF v, h, n
<1>7. /\ IsFw(v) /\ v.cmd = RCmd(p) /\ v.flag = TRUE /\ v.left = r /\ v.cells = 0 /\ v.rst = BusyPin(p)
      /\ v.wire = Upmost(f, Opening(p) + w + Turning(p))
  BY <1>5 DEF IsFw
<1>8. /\ IsFw(m) /\ m.cmd = RCmd(p) /\ m.flag = TRUE /\ m.left = r /\ m.cells = 0 /\ m.rst = BusyPin(p)
      /\ m.wire = Upmost(f, Before(p, w))
  <2>1. CASE p # "i2c"
    <3>1. m = v /\ Before(p, w) = Opening(p) + w + Turning(p)
      BY <2>1 DEF Addressed, Before, Turn, Turning, Opening
    <3> HIDE DEF m
    <3> QED BY <1>7, <3>1
  <2>2. CASE p = "i2c"
    <3> DEFINE k == Opening(p) + w + Turning(p)
               e == <<"address", "r">>
               x == v.wire \o <<e>>
    <3>1. f \in Seq(Events) /\ k \in Nat /\ k = w + 3 /\ k < Len(f) /\ k + 1 = Before(p, w) /\ f[k + 1] = e
      <4>1. k = w + 3 /\ Before(p, w) = w + 4 /\ k + 1 = w + 4
        BY <2>2 DEF Opening, Turning, Turn, Before
      <4> HIDE DEF k
      <4>2. f \in Seq(Events) /\ Len(f) = FrameLen(p, w, r) /\ f[w + 4] = e
        BY <2>2 DEF Frame
      <4>3. FrameLen(p, w, r) = w + 5 + r
        BY <2>2 DEF FrameLen, Opening, Turn
      <4> QED BY <4>1, <4>2, <4>3
    <3> HIDE DEF e, k
    <3>2. Upmost(f, k) \o <<e>> = Upmost(f, k + 1)
      BY <3>1, AsExtendOne
    <3>3. x = Upmost(f, Before(p, w))
      BY <1>7, <3>1, <3>2 DEF k
    <3>4. m = Rewired(v, x)
      <4>1. m = AS!Out(v, <<<<"address", "r">>>>)
        BY <2>2 DEF Addressed
      <4> QED BY <4>1, Zenon DEF AS!Out, Rewired, e
    <3> HIDE DEF x, m
    <3>5. IsFw(m) /\ m.wire = x /\ m.cmd = v.cmd /\ m.flag = v.flag /\ m.left = v.left /\ m.cells = v.cells
          /\ m.rst = v.rst
      BY <1>7, <3>4, AsRewired
    <3> QED BY <1>7, <3>3, <3>5
  <2> QED BY <2>1, <2>2
<1> HIDE DEF m
<1>9. /\ Upto(r, rchunk, 0) = 0 /\ 0 < RBlocks(r) /\ r - 0 = r /\ Before(p, w) + 0 = Before(p, w)
  BY AsReadBegins DEF Before, Opening, Turn
<1>10. 0 + 1 = 1 /\ 0 \in Nat
  OBVIOUS
<1>11. m.left = r - Upto(r, rchunk, 0) /\ m.cells = Upto(r, rchunk, 0)
       /\ m.wire = Upmost(f, Before(p, w) + Upto(r, rchunk, 0))
  BY <1>8, <1>9
<1> DEFINE echo == <<RCmd(p)>>
<1> HIDE DEF echo
<1>12. /\ ReadUpto(fw', f, p, w, r, 0 + 1)
       /\ Answers(echo, Given(Upto(r, rchunk, 0), Upto(r, rchunk, 0 + 1)))
  <2>1. AS!ReadFrom(m, echo)
    BY <1>6 DEF echo
  <2> QED BY <1>8, <1>9, <1>10, <1>11, <2>1, AsReadMore
<1> QED BY <1>4, <1>9, <1>10, <1>12 DEF echo, Answers

(* The host acknowledges a block.                                           *)
LEMMA AsAckRead ==
    ASSUME NEW p \in Protocols, NEW w \in Nat \ {0}, NEW r \in Nat \ {0}, NEW f, Frame(f, p, w, r),
           NEW i \in Nat, i < RBlocks(r), i > 0, ReadUpto(fw, f, p, w, r, i), AS!AckedBlock
    PROVE  /\ tx' = Tail(tx) /\ host' = host /\ ReadUpto(fw', f, p, w, r, i + 1)
           /\ rx' = rx \o Given(Upto(r, rchunk, i), Upto(r, rchunk, i + 1))
<1>1. /\ Upto(r, rchunk, i) \in Nat /\ Upto(r, rchunk, i) < r /\ RBlocks(r) \in Nat
  BY AsReadBlocks
<1>2. fw.left > 0 /\ fw.wire = Upmost(f, Before(p, w) + Upto(r, rchunk, i))
  BY <1>1 DEF ReadUpto, Ending
<1>3. tx' = Tail(tx) /\ host' = host /\ AS!ReadFrom(fw, << >>)
  BY <1>2 DEF AS!AckedBlock
<1> DEFINE echo == << >>
           given == Given(Upto(r, rchunk, i), Upto(r, rchunk, i + 1))
<1>4. echo \o given = given
  BY AsReadBlocks DEF Given
<1> HIDE DEF echo, given
<1>5. AS!ReadFrom(fw, echo)
  BY <1>3 DEF echo
<1>6. ReadUpto(fw', f, p, w, r, i + 1) /\ Answers(echo, given)
  <2>1. /\ IsFw(fw) /\ fw.cmd = RCmd(p) /\ fw.flag = TRUE /\ fw.left = r - Upto(r, rchunk, i)
        /\ fw.cells = Upto(r, rchunk, i) /\ fw.rst = BusyPin(p)
    BY DEF ReadUpto
  <2> QED BY <1>2, <1>5, <2>1, AsReadMore DEF given
<1> QED BY <1>3, <1>4, <1>6 DEF given, Answers

LEMMA AsAckEnd ==
    ASSUME NEW p \in Protocols, IsFw(fw), fw.left = 0, fw.cmd = RCmd(p), fw.rst = BusyPin(p), fw.flag = TRUE,
           AS!AckedBlock
    PROVE  /\ tx' = Tail(tx) /\ host' = host /\ rx' = rx /\ IsFw(fw') /\ fw'.pc = "loop"
           /\ fw'.rst = RestPin(p) /\ fw'.cells = fw.cells
           /\ fw'.wire = IF p = "i2c" THEN fw.wire ELSE Append(fw.wire, EndEvent(p))
<1>1. tx' = Tail(tx) /\ host' = host /\ rx' = rx /\ fw' = AS!Finished(fw)
  BY DEF AS!AckedBlock
<1>2. /\ IsFw(AS!Finished(fw)) /\ AS!Finished(fw).wire = EndWire(p, fw) /\ AS!Finished(fw).cells = fw.cells
      /\ AS!Finished(fw).rst = (IF fw.flag THEN RestPin(p) ELSE BusyPin(p))
      /\ AS!Finished(fw).pc = "loop"
  BY AsFinished
<1>3. EndWire(p, fw) = IF p = "i2c" THEN fw.wire ELSE Append(fw.wire, EndEvent(p))
  BY DEF EndWire, RCmd
<1> QED BY <1>1, <1>2, <1>3

LEMMA AsWriteBlocks ==
    ASSUME NEW p \in Protocols, NEW w \in Nat \ {0}, NEW i \in Nat, i < WBlocks(p, w)
    PROVE  /\ Upto(w, WChunk(p, w), i) \in Nat /\ Upto(w, WChunk(p, w), i + 1) \in Nat /\ WBlocks(p, w) \in Nat
           /\ Upto(w, WChunk(p, w), i) < w /\ Upto(w, WChunk(p, w), i + 1) <= w
           /\ Upto(w, WChunk(p, w), i + 1) > Upto(w, WChunk(p, w), i)
           /\ Upto(w, WChunk(p, w), i + 1) - Upto(w, WChunk(p, w), i)
              = IF p # "mw" /\ w - Upto(w, WChunk(p, w), i) >= wchunk THEN wchunk ELSE w - Upto(w, WChunk(p, w), i)
           /\ Upto(w, WChunk(p, w), i + 1) = w <=> i + 1 = WBlocks(p, w)
<1> DEFINE c == WChunk(p, w)
           a == Upto(w, c, i)
           b == Upto(w, c, i + 1)
<1>0. c \in Nat \ {0} /\ (p = "mw" => c = w) /\ (p # "mw" => c = wchunk) /\ WBlocks(p, w) = AS!Blocks(w, c)
  BY AsConst DEF WChunk, WBlocks
<1> HIDE DEF c
<1>1. AS!Blocks(w, c) \in Nat
  BY <1>0, AsBlocks
<1>2. i \in 0 .. AS!Blocks(w, c) - 1 /\ i \in 0 .. AS!Blocks(w, c) /\ i + 1 \in 0 .. AS!Blocks(w, c)
  BY <1>0, <1>1
<1>3. /\ Upto(w, c, i) \in 0 .. w /\ Upto(w, c, i + 1) \in 0 .. w
      /\ Upto(w, c, AS!Blocks(w, c)) = w
      /\ Upto(w, c, i) < w
      /\ Upto(w, c, i + 1) = IF w - Upto(w, c, i) >= c THEN Upto(w, c, i) + c ELSE w
      /\ Upto(w, c, i + 1) > Upto(w, c, i)
  BY <1>0, <1>2, AsUpto
<1>4. ASSUME i + 1 # AS!Blocks(w, c) PROVE Upto(w, c, i + 1) < w
  <2>1. i + 1 \in 0 .. AS!Blocks(w, c) - 1
    BY <1>1, <1>2, <1>4
  <2> QED BY <1>0, <2>1, AsUpto
<1>5. /\ a \in Nat /\ b \in Nat /\ a < w /\ b <= w /\ b > a
      /\ b = IF w - a >= c THEN a + c ELSE w
  BY <1>3
<1>6. b = w <=> i + 1 = AS!Blocks(w, c)
  BY <1>3, <1>4, <1>5
<1> HIDE DEF a, b
<1>7. b - a = IF p # "mw" /\ w - a >= wchunk THEN wchunk ELSE w - a
  BY <1>0, <1>5
<1> QED BY <1>0, <1>1, <1>5, <1>6, <1>7 DEF a, b, c

(* The next n of the bytes a frame writes are on the bus.                      *)
OutEvents(p, w, a, n) == [j \in 1 .. n |-> OutEvent(p, w, a + j)]
WriteOn(f, p, a, n, es) == Upmost(f, Opening(p) + a) \o es = Upmost(f, Opening(p) + (a + n))

LEMMA AsWriteEvents ==
    ASSUME NEW p \in Protocols, NEW w \in Nat \ {0}, NEW r \in Nat, NEW f, Frame(f, p, w, r),
           NEW a \in Nat, NEW n \in Nat, a + n <= w
    PROVE  WriteOn(f, p, a, n, OutEvents(p, w, a, n))
<1>1. Opening(p) \in Nat /\ f \in Seq(Events) /\ Len(f) \in Nat /\ Opening(p) + w < Len(f)
  BY DEF Opening, Turn, Frame, FrameLen
<1> DEFINE k == Opening(p) + a
           es == OutEvents(p, w, a, n)
<1>2. es \in Seq(Events) /\ Len(es) = n /\ \A j \in 1 .. n : es[j] = OutEvent(p, w, a + j)
  <2>1. \A j \in 1 .. n : OutEvent(p, w, a + j) \in Events
    <3> TAKE j \in 1 .. n
    <3>1. a + j \in Nat
      OBVIOUS
    <3> QED BY <3>1, AsEvents
  <2> QED BY <2>1 DEF OutEvents
<1> HIDE DEF es
<1>3. ASSUME NEW j \in 1 .. Len(es) PROVE f[k + j] = es[j]
  <2>1. a + j \in 1 .. w /\ j \in 1 .. n
    BY <1>2, <1>3
  <2>2. f[Opening(p) + (a + j)] = OutEvent(p, w, a + j)
    BY <2>1 DEF Frame
  <2>3. Opening(p) + (a + j) = k + j
    BY <1>1, <2>1
  <2> QED BY <1>2, <2>1, <2>2, <2>3
<1>4. k \in Nat /\ k + Len(es) <= Len(f) /\ k + Len(es) = Opening(p) + (a + n)
  BY <1>1, <1>2
<1> HIDE DEF k
<1>5. Upmost(f, k) \o es = Upmost(f, k + Len(es))
  <2>1. \A j \in 1 .. Len(es) : f[k + j] = es[j]
    BY <1>3
  <2>2. f \in Seq(Events) /\ es \in Seq(Events) /\ k \in Nat /\ k + Len(es) <= Len(f)
    BY <1>1, <1>2, <1>4
  <2> QED BY ONLY <2>1, <2>2, AsExtend
<1>6. Upmost(f, k) \o es = Upmost(f, Opening(p) + (a + n))
  <2>1. k + Len(es) = Opening(p) + (a + n)
    BY <1>4
  <2> QED BY <1>5, <2>1, Zenon
<1> QED BY <1>6 DEF k, es, WriteOn

(* The bytes of a block as they go out.                                     *)
BitsLeft(m, b, n) == [AS!Out(m, AS!BitsOf(b, n)) EXCEPT !.bits = IF 8 * n > @ THEN 0 ELSE @ - 8 * n]

LEMMA AsClocked ==
    ASSUME NEW p \in Protocols, NEW w \in Nat \ {0}, NEW r \in Nat, NEW f, Frame(f, p, w, r),
           NEW i \in Nat, i < WBlocks(p, w), IsFw(fw), fw.cmd = WCmd(p),
           fw.left = w - Upto(w, WChunk(p, w), i), p = "mw" => fw.bits = 8 * w - 5,
           fw.wire = Upmost(f, Opening(p) + Upto(w, WChunk(p, w), i)),
           p = "i2c" => rchunk = wchunk \/ w < wchunk,
           NEW n, n = Upto(w, WChunk(p, w), i + 1) - Upto(w, WChunk(p, w), i),
           NEW b, \A j \in 1 .. n : b[j] = AS!Data(Upto(w, WChunk(p, w), i) + j)
    PROVE  /\ IsFw(AS!ClockedOut(fw, b, n))
           /\ AS!ClockedOut(fw, b, n).wire = Upmost(f, Opening(p) + Upto(w, WChunk(p, w), i + 1))
           /\ AS!ClockedOut(fw, b, n).pc = fw.pc /\ AS!ClockedOut(fw, b, n).cmd = fw.cmd
           /\ AS!ClockedOut(fw, b, n).left = fw.left /\ AS!ClockedOut(fw, b, n).flag = fw.flag
           /\ AS!ClockedOut(fw, b, n).rst = fw.rst /\ AS!ClockedOut(fw, b, n).cells = fw.cells
<1> DEFINE a == Upto(w, WChunk(p, w), i)
           d == Upto(w, WChunk(p, w), i + 1)
           es == OutEvents(p, w, a, n)
           wire == fw.wire \o es
           q == AS!ClockedOut(fw, b, n)
<1>1. /\ a \in Nat /\ d \in Nat /\ n \in Nat \ {0} /\ a + n = d /\ d <= w /\ fw.left = w - a
      /\ n = IF p # "mw" /\ fw.left >= wchunk THEN wchunk ELSE fw.left
  BY AsWriteBlocks
<1>2. \A j \in 1 .. n : b[j] = AS!Data(a + j)
  OBVIOUS
<1>3. wire = Upmost(f, Opening(p) + d)
  <2>1. WriteOn(f, p, a, n, es)
    BY <1>1, AsWriteEvents
  <2>2. fw.wire = Upmost(f, Opening(p) + a)
    OBVIOUS
  <2> HIDE DEF a, d, es
  <2> QED BY <1>1, <2>1, <2>2 DEF WriteOn
<1> HIDE DEF a, d
<1>0. /\ AS!Spi = {10, 11} /\ AS!Mw = {30, 31} /\ AS!I2c = {21, 22}
  BY AsCodes DEF Codes, AS!Spi, AS!Mw, AS!I2c
<1>4. CASE p = "spi"
  <2>1. fw.cmd \in AS!Spi /\ fw.cmd \notin AS!I2c /\ fw.cmd \notin AS!Mw
    BY <1>0, <1>4 DEF WCmd
  <2>2. q = AS!Out(fw, [j \in 1 .. n |-> <<"out", b[j]>>])
    BY <2>1 DEF AS!ClockedOut
  <2>3. [j \in 1 .. n |-> <<"out", b[j]>>] = es
    BY <1>2, <1>4 DEF OutEvents, OutEvent
  <2> HIDE DEF es, q
  <2>4. q = Rewired(fw, wire)
    BY <2>2, <2>3, Zenon DEF AS!Out, Rewired
  <2> HIDE DEF wire
  <2>5. IsFw(q) /\ q.wire = wire /\ q.pc = fw.pc /\ q.cmd = fw.cmd /\ q.left = fw.left /\ q.flag = fw.flag
        /\ q.rst = fw.rst /\ q.cells = fw.cells
    BY <2>4, AsRewired
  <2> QED BY <1>3, <2>5 DEF q, d
<1>5. CASE p = "i2c"
  <2>1. fw.cmd \in AS!I2c /\ fw.cmd \notin AS!Spi /\ fw.cmd \notin AS!Mw
    BY <1>0, <1>5 DEF WCmd
  <2>6. AS!I2cBytes(n) = n
    <3>1. CASE fw.left >= wchunk
      <4>1. wchunk <= w /\ wchunk \in Nat
        BY <1>1, <3>1, AsConst
      <4>2. rchunk = wchunk /\ n = wchunk
        BY <1>1, <1>5, <3>1, <4>1
      <4> QED BY <3>1, <4>2 DEF AS!I2cBytes
    <3>2. CASE ~(fw.left >= wchunk)
      BY <3>2 DEF AS!I2cBytes
    <3> QED BY <3>1, <3>2
  <2>2. q = AS!Out(fw, [j \in 1 .. n |-> <<"out", b[j]>>])
    <3>1. q = AS!Out(fw, [j \in 1 .. AS!I2cBytes(n) |-> <<"out", b[j]>>])
      BY <2>1 DEF AS!ClockedOut
    <3> HIDE DEF q
    <3> QED BY <2>6, <3>1
  <2>3. [j \in 1 .. n |-> <<"out", b[j]>>] = es
    BY <1>2, <1>5 DEF OutEvents, OutEvent
  <2> HIDE DEF es, q
  <2>4. q = Rewired(fw, wire)
    BY <2>2, <2>3, Zenon DEF AS!Out, Rewired
  <2> HIDE DEF wire
  <2>5. IsFw(q) /\ q.wire = wire /\ q.pc = fw.pc /\ q.cmd = fw.cmd /\ q.left = fw.left /\ q.flag = fw.flag
        /\ q.rst = fw.rst /\ q.cells = fw.cells
    BY <2>4, AsRewired
  <2> QED BY <1>3, <2>5 DEF q, d
<1>6. CASE p = "mw"
  <2>1. fw.cmd \in AS!Mw /\ fw.cmd \notin AS!Spi /\ fw.cmd \notin AS!I2c
    BY <1>0, <1>6 DEF WCmd
  <2>2. q = BitsLeft(fw, b, n)
    BY <2>1 DEF AS!ClockedOut, BitsLeft
  <2>3. n = w /\ a = 0
    <3>1. i = 0
      BY <1>6, AsOneBlock DEF WBlocks, WChunk
    <3>2. a = 0
      BY <1>6, <3>1, AsOneBlock DEF a, WChunk
    <3> QED BY <1>1, <1>6, <3>2
  <2>4. AS!BitsOf(b, n) = es
    <3>1. fw.bits = 8 * w - 5 /\ (fw.bits + 7) \div 8 = w
      BY <1>6, AsMwBytes
    <3>2. AS!Min({n, (fw.bits + 7) \div 8}) = n
      BY <2>3, <3>1, AsMin
    <3>3. ASSUME NEW j \in 1 .. n
          PROVE  <<"bits", b[j], AS!Min({8, fw.bits - 8 * (j - 1)})>> = OutEvent(p, w, a + j)
      <4>1. fw.bits - 8 * (j - 1) \in Int /\ fw.bits - 8 * (j - 1) = IF j = w THEN 3 ELSE 8 * (w - j) + 3
        BY <2>3, <3>1
      <4>2. AS!Min({8, fw.bits - 8 * (j - 1)}) = IF j = w THEN 3 ELSE 8
        <5> DEFINE x == fw.bits - 8 * (j - 1)
        <5>1. x \in Int /\ (j = w => x = 3) /\ (j # w => x > 8)
          BY <2>3, <4>1
        <5> HIDE DEF x
        <5>2. AS!Min({8, x}) = IF 8 <= x THEN 8 ELSE x
          BY <5>1, AsMin
        <5>3. AS!Min({8, x}) = IF j = w THEN 3 ELSE 8
          BY <5>1, <5>2
        <5> QED BY <5>3 DEF x
      <4>3. b[j] = AS!Data(j) /\ a + j = j
        BY <1>2, <2>3
      <4> QED BY <1>6, <4>2, <4>3 DEF OutEvent
    <3>4. AS!BitsOf(b, n) = [j \in 1 .. AS!Min({n, (fw.bits + 7) \div 8}) |->
                               <<"bits", b[j], AS!Min({8, fw.bits - 8 * (j - 1)})>>]
      BY Zenon DEF AS!BitsOf
    <3>5. [j \in 1 .. n |-> <<"bits", b[j], AS!Min({8, fw.bits - 8 * (j - 1)})>>] = es
      BY <3>3 DEF OutEvents
    <3> QED BY <3>2, <3>4, <3>5
  <2> HIDE DEF es, q
  <2> DEFINE v == Rewired(fw, wire)
             bits == IF 8 * n > v.bits THEN 0 ELSE v.bits - 8 * n
  <2>5. AS!Out(fw, es) = v
    BY Zenon DEF AS!Out, Rewired
  <2>6. q = [v EXCEPT !.bits = bits]
    BY <2>2, <2>4, <2>5, Zenon DEF BitsLeft
  <2> HIDE DEF wire
  <2>7. IsFw(v) /\ v.wire = wire /\ v.pc = fw.pc /\ v.cmd = fw.cmd /\ v.left = fw.left /\ v.flag = fw.flag
        /\ v.rst = fw.rst /\ v.cells = fw.cells
    BY AsRewired
  <2> HIDE DEF v, bits
  <2>8. q = [pc |-> v.pc, cmd |-> v.cmd, flag |-> v.flag, left |-> v.left, bits |-> bits, rst |-> v.rst,
             wire |-> v.wire, cells |-> v.cells, kept |-> v.kept]
    BY ONLY <2>6, <2>7 DEF IsFw
  <2>9. IsFw(q) /\ q.wire = v.wire /\ q.pc = v.pc /\ q.cmd = v.cmd /\ q.left = v.left /\ q.flag = v.flag
        /\ q.rst = v.rst /\ q.cells = v.cells
    BY ONLY <2>8 DEF IsFw
  <2> QED BY <1>3, <2>7, <2>9 DEF q, d
<1> QED BY <1>4, <1>5, <1>6 DEF Protocols

LEMMA AsTakesAll ==
    ASSUME NEW X, tx \in Seq(X), NEW n \in Nat, Len(tx) = n, AS!BlockSize = n, AS!WriteBlock, n > 0
    PROVE  LET m == AS!ClockedOut(fw, tx, n)
               rest == [m EXCEPT !.left = @ - n]
           IN  /\ tx' = << >> /\ host' = host /\ rx' = rx \o <<AS!ACK>>
               /\ fw' = IF rest.left > 0 THEN rest ELSE AS!Finished(rest)
<1> DEFINE n1 == AS!BlockSize
           k == AS!Min({n1, Len(tx)})
           b == SubSeq(tx, 1, k) \o [i \in 1 .. n1 - k |-> AS!Stale]
           m == AS!ClockedOut(fw, b, n1)
           rest == [m EXCEPT !.left = @ - k]
<1>1. /\ tx' = SubSeq(tx, k + 1, Len(tx)) /\ host' = host
      /\ k # 0 => fw' = (IF rest.left > 0 THEN rest ELSE AS!Finished(rest)) /\ rx' = rx \o <<AS!ACK>>
  BY DEF AS!WriteBlock, AS!Answer
<1>2. k = n /\ n1 = n
  BY AsMin
<1> HIDE DEF k, n1
<1>3. b = tx
  <2>1. SubSeq(tx, 1, n) \in Seq(X) /\ Len(SubSeq(tx, 1, n)) = n /\ \A j \in 1 .. n : SubSeq(tx, 1, n)[j] = tx[j]
    OBVIOUS
  <2>2. SubSeq(tx, 1, n) = tx
    BY <2>1, AsSame
  <2>3. n - n = 0 /\ [i \in 1 .. n1 - k |-> AS!Stale] = << >>
    BY <1>2
  <2>4. SubSeq(tx, 1, k) = tx
    BY <1>2, <2>2
  <2> DEFINE none == [i \in 1 .. n1 - k |-> AS!Stale]
  <2> HIDE DEF none
  <2>5. none = << >> /\ b = tx \o none
    BY <2>3, <2>4 DEF none
  <2>6. tx \o << >> = tx
    OBVIOUS
  <2> QED BY <2>5, <2>6
<1>4. SubSeq(tx, n + 1, Len(tx)) = << >>
  OBVIOUS
<1> HIDE DEF b
<1>5. m = AS!ClockedOut(fw, tx, n)
  BY <1>2, <1>3
<1>6. k # 0
  BY <1>2
<1>7. rest = [AS!ClockedOut(fw, tx, n) EXCEPT !.left = @ - n]
  BY <1>2, <1>5, Zenon
<1>8. tx' = << >>
  BY <1>1, <1>2, <1>4
<1> HIDE DEF m, rest
<1> QED BY <1>1, <1>6, <1>7, <1>8, Zenon

LEMMA AsFwLeft ==
    ASSUME NEW m, IsFw(m), NEW x, NEW q, q = [m EXCEPT !.left = x]
    PROVE  /\ IsFw(q) /\ q.wire = m.wire /\ q.left = x /\ q.cells = m.cells /\ q.cmd = m.cmd
           /\ q.flag = m.flag /\ q.rst = m.rst /\ q.pc = m.pc /\ q.bits = m.bits
<1>1. q = [pc |-> m.pc, cmd |-> m.cmd, flag |-> m.flag, left |-> x, bits |-> m.bits, rst |-> m.rst,
           wire |-> m.wire, cells |-> m.cells, kept |-> m.kept]
  BY DEF IsFw
<1>2. q.wire = m.wire /\ q.cells = m.cells /\ q.left = x /\ q.cmd = m.cmd /\ q.flag = m.flag /\ q.rst = m.rst
      /\ q.pc = m.pc /\ q.bits = m.bits /\ q.kept = m.kept
  BY ONLY <1>1
<1>3. IsFw(q)
  BY ONLY <1>1, <1>2 DEF IsFw
<1> QED BY <1>2, <1>3

(* The bus when the handler of a write ends.                                 *)
LEMMA AsWriteEnds ==
    ASSUME NEW p \in Protocols, NEW w \in Nat \ {0}, NEW r \in Nat, NEW f, Frame(f, p, w, r),
           NEW m, IsFw(m), m.cmd = WCmd(p), m.flag = (r = 0), m.cells = 0, m.rst = BusyPin(p),
           m.wire = Upmost(f, Opening(p) + w)
    PROVE  WroteAll(AS!Finished(m), f, p, w, r) /\ AS!Finished(m).pc = "loop"
<1>1. /\ IsFw(AS!Finished(m)) /\ AS!Finished(m).wire = EndWire(p, m) /\ AS!Finished(m).cells = m.cells
      /\ AS!Finished(m).rst = (IF m.flag THEN RestPin(p) ELSE BusyPin(p))
      /\ AS!Finished(m).pc = "loop"
  BY AsFinished
<1> DEFINE k == Opening(p) + w
<1>2. f \in Seq(Events) /\ k \in Nat /\ k < Len(f) /\ Len(f) = FrameLen(p, w, r) /\ (r = 0 => Len(f) = k + 1)
  BY DEF Frame, FrameLen, Opening, Turn
<1> HIDE DEF k
<1>3. ASSUME NEW e, f[k + 1] = e PROVE Upmost(f, k) \o <<e>> = Upmost(f, k + 1) /\ Append(Upmost(f, k), e) = Upmost(f, k + 1)
  BY <1>2, <1>3, AsExtendOne
<1>4. m.wire = Upmost(f, k) /\ (m.flag <=> r = 0)
  BY DEF k
<1>5. EndWire(p, m) = Upmost(f, IF r = 0 THEN FrameLen(p, w, r) ELSE Opening(p) + w + Turning(p))
  <2>1. CASE r = 0 /\ p # "i2c"
    <3>1. EndWire(p, m) = Append(m.wire, EndEvent(p))
      BY <1>4, <2>1 DEF EndWire
    <3>2. f[k + 1] = EndEvent(p)
      BY <1>2, <2>1 DEF Frame
    <3> DEFINE e == EndEvent(p)
    <3> HIDE DEF e
    <3>3. Append(Upmost(f, k), e) = Upmost(f, k + 1)
      <4>1. f[k + 1] = e
        BY <3>2 DEF e
      <4> QED BY <1>3, <4>1
    <3>4. EndWire(p, m) = Upmost(f, k + 1)
      BY <1>4, <3>1, <3>3 DEF e
    <3> QED BY <1>2, <2>1, <3>4
  <2>2. CASE r = 0 /\ p = "i2c"
    <3> DEFINE e == <<"stop">>
    <3>1. EndWire(p, m) = m.wire \o <<e>>
      BY <1>4, <2>2 DEF EndWire, WCmd
    <3>2. f[k + 1] = e
      BY <1>2, <2>2 DEF Frame, EndEvent
    <3> HIDE DEF e
    <3>3. Upmost(f, k) \o <<e>> = Upmost(f, k + 1)
      BY <1>3, <3>2
    <3>4. EndWire(p, m) = Upmost(f, k + 1)
      BY <1>4, <3>1, <3>3
    <3> QED BY <1>2, <2>2, <3>4
  <2>3. CASE r # 0 /\ p # "i2c"
    <3>1. EndWire(p, m) = m.wire
      BY <1>4, <2>3 DEF EndWire
    <3>2. Opening(p) + w + Turning(p) = k
      BY <1>2, <2>3 DEF Turning, k, Opening
    <3> QED BY <1>4, <2>3, <3>1, <3>2
  <2>4. CASE r # 0 /\ p = "i2c"
    <3> DEFINE e == <<"start">>
    <3>1. EndWire(p, m) = m.wire \o <<e>>
      BY <1>4, <2>4 DEF EndWire, WCmd
    <3>2. f[k + 1] = e
      <4>1. k + 1 = w + 3 /\ r > 0
        BY <2>4 DEF k, Opening
      <4> QED BY <4>1, <2>4 DEF Frame
    <3> HIDE DEF e
    <3>3. Upmost(f, k) \o <<e>> = Upmost(f, k + 1)
      BY <1>3, <3>2
    <3>4. EndWire(p, m) = Upmost(f, k + 1)
      BY <1>4, <3>1, <3>3
    <3>5. Opening(p) + w + Turning(p) = k + 1
      BY <2>4 DEF Turning, k, Opening
    <3> QED BY <2>4, <3>4, <3>5
  <2> QED BY <2>1, <2>2, <2>3, <2>4
<1> QED BY <1>1, <1>4, <1>5 DEF WroteAll

LEMMA AsWriteBlock ==
    ASSUME NEW p \in Protocols, NEW w \in Nat \ {0}, NEW r \in Nat, NEW f, Frame(f, p, w, r),
           NEW i \in Nat, i < WBlocks(p, w), WroteUpto(fw, f, p, w, r, i),
           tx = Piece(w, WChunk(p, w), i + 1), p = "i2c" => rchunk = wchunk \/ w < wchunk, AS!WriteBlock
    PROVE  /\ tx' = << >> /\ host' = host /\ rx' = rx \o <<AS!ACK>>
           /\ i + 1 < WBlocks(p, w) => WroteUpto(fw', f, p, w, r, i + 1)
           /\ i + 1 = WBlocks(p, w) => WroteAll(fw', f, p, w, r) /\ fw'.pc = "loop"
<1> DEFINE a == Upto(w, WChunk(p, w), i)
           d == Upto(w, WChunk(p, w), i + 1)
           n == d - a
           m == AS!ClockedOut(fw, tx, n)
           rest == [m EXCEPT !.left = @ - n]
<1>1. /\ a \in Nat /\ d \in Nat /\ n \in Nat /\ n > 0 /\ a + n = d /\ d <= w /\ (w - a) - n = w - d
      /\ n = (IF p # "mw" /\ w - a >= wchunk THEN wchunk ELSE w - a)
      /\ (d = w <=> i + 1 = WBlocks(p, w)) /\ WBlocks(p, w) \in Nat
  <2>1. /\ a \in Nat /\ d \in Nat /\ d > a /\ a < w /\ d <= w
        /\ d - a = (IF p # "mw" /\ w - a >= wchunk THEN wchunk ELSE w - a)
        /\ (d = w <=> i + 1 = WBlocks(p, w)) /\ WBlocks(p, w) \in Nat
    BY AsWriteBlocks
  <2> HIDE DEF a, d
  <2> QED BY <2>1
<1>2. tx \in Seq(Nat) /\ Len(tx) = n /\ \A j \in 1 .. n : tx[j] = AS!Data(a + j)
  <2>1. i + 1 \in 1 .. AS!Blocks(w, WChunk(p, w)) /\ (i + 1) - 1 = i
    BY <1>1 DEF WBlocks
  <2>2. WChunk(p, w) \in Nat \ {0}
    BY AsConst DEF WChunk
  <2>3. /\ Piece(w, WChunk(p, w), i + 1) \in Seq(Nat)
        /\ Len(Piece(w, WChunk(p, w), i + 1)) = Upto(w, WChunk(p, w), i + 1) - Upto(w, WChunk(p, w), (i + 1) - 1)
        /\ \A j \in 1 .. Upto(w, WChunk(p, w), i + 1) - Upto(w, WChunk(p, w), (i + 1) - 1) :
              Piece(w, WChunk(p, w), i + 1)[j] = AS!Data(Upto(w, WChunk(p, w), (i + 1) - 1) + j)
    BY <2>1, <2>2, AsPiece
  <2> QED BY <2>1, <2>3
<1> HIDE DEF a, d
<1>3. fw.left = w - a /\ fw.cmd = WCmd(p) /\ IsFw(fw) /\ fw.wire = Upmost(f, Opening(p) + a)
      /\ fw.flag = (r = 0) /\ fw.cells = 0 /\ fw.rst = BusyPin(p) /\ (p = "mw" => fw.bits = 8 * w - 5)
      /\ fw.pc = "data"
  BY DEF WroteUpto, a
<1>4. AS!BlockSize = n
  <2>1. (fw.cmd \in AS!Mw) = (p = "mw")
    BY <1>3, AsCodes DEF Codes, AS!Mw, WCmd, Protocols
  <2>2. AS!BlockSize = IF p # "mw" /\ fw.left >= wchunk THEN wchunk ELSE fw.left
    BY <2>1 DEF AS!BlockSize
  <2> QED BY <1>1, <1>3, <2>2
<1> HIDE DEF n
<1>5. /\ tx' = << >> /\ host' = host /\ rx' = rx \o <<AS!ACK>>
      /\ fw' = IF rest.left > 0 THEN rest ELSE AS!Finished(rest)
  BY <1>1, <1>2, <1>4, AsTakesAll
<1>6. /\ IsFw(m) /\ m.wire = Upmost(f, Opening(p) + d) /\ m.pc = fw.pc /\ m.cmd = fw.cmd
      /\ m.left = fw.left /\ m.flag = fw.flag /\ m.rst = fw.rst /\ m.cells = fw.cells
  <2>1. n = Upto(w, WChunk(p, w), i + 1) - Upto(w, WChunk(p, w), i)
        /\ \A j \in 1 .. n : tx[j] = AS!Data(Upto(w, WChunk(p, w), i) + j)
    BY <1>2 DEF a, d, n
  <2>2. PICK b : b = tx
    OBVIOUS
  <2>3. \A j \in 1 .. n : b[j] = AS!Data(Upto(w, WChunk(p, w), i) + j)
    BY <2>1, <2>2
  <2>4. fw.left = w - Upto(w, WChunk(p, w), i) /\ fw.wire = Upmost(f, Opening(p) + Upto(w, WChunk(p, w), i))
    BY <1>3 DEF a
  <2>5. /\ IsFw(AS!ClockedOut(fw, b, n))
        /\ AS!ClockedOut(fw, b, n).wire = Upmost(f, Opening(p) + Upto(w, WChunk(p, w), i + 1))
        /\ AS!ClockedOut(fw, b, n).pc = fw.pc /\ AS!ClockedOut(fw, b, n).cmd = fw.cmd
        /\ AS!ClockedOut(fw, b, n).left = fw.left /\ AS!ClockedOut(fw, b, n).flag = fw.flag
        /\ AS!ClockedOut(fw, b, n).rst = fw.rst /\ AS!ClockedOut(fw, b, n).cells = fw.cells
    BY <1>3, <2>1, <2>3, <2>4, AsClocked
  <2> QED BY <2>2, <2>5 DEF d
<1> DEFINE x == m.left - n
<1>7. rest = [m EXCEPT !.left = x] /\ x = w - d
  <2>1. x = w - d
    BY <1>1, <1>3, <1>6
  <2> QED BY <2>1
<1> HIDE DEF rest, x, m
<1>8. /\ IsFw(rest) /\ rest.wire = m.wire /\ rest.left = x /\ rest.cells = m.cells /\ rest.cmd = m.cmd
      /\ rest.flag = m.flag /\ rest.rst = m.rst /\ rest.pc = m.pc
  BY <1>6, <1>7, AsFwLeft
<1>9. ASSUME i + 1 < WBlocks(p, w) PROVE WroteUpto(fw', f, p, w, r, i + 1)
  <2>1. p # "mw"
    BY <1>9, AsOneBlock DEF WBlocks, WChunk
  <2>2. d < w /\ rest.left > 0
    BY <1>1, <1>7, <1>8, <1>9
  <2>3. fw' = rest
    BY <1>5, <2>2
  <2>4. WroteUpto(rest, f, p, w, r, i + 1)
    BY <1>3, <1>6, <1>7, <1>8, <2>1 DEF WroteUpto, d
  <2> QED BY <2>3, <2>4
<1>10. ASSUME i + 1 = WBlocks(p, w) PROVE WroteAll(fw', f, p, w, r) /\ fw'.pc = "loop"
  <2>1. d = w /\ ~(rest.left > 0)
    BY <1>1, <1>7, <1>8, <1>10
  <2>2. fw' = AS!Finished(rest)
    BY <1>5, <2>1
  <2>3. rest.wire = Upmost(f, Opening(p) + w) /\ rest.cmd = WCmd(p) /\ rest.flag = (r = 0) /\ rest.cells = 0
        /\ rest.rst = BusyPin(p) /\ IsFw(rest)
    BY <1>3, <1>6, <1>8, <2>1
  <2>4. WroteAll(AS!Finished(rest), f, p, w, r) /\ AS!Finished(rest).pc = "loop"
    BY <2>3, AsWriteEnds
  <2> QED BY <2>2, <2>4
<1> QED BY <1>5, <1>9, <1>10

-----------------------------------------------------------------------------
(***************************************************************************)
(* Places.  From each place of a call every step of the system leads to a    *)
(* place.  Here it does so from a write, over all its blocks, and from the   *)
(* turn after it.                                                            *)
(***************************************************************************)
(* A session that goes well, at step n of a call.                             *)
Well == IsFw(fw) /\ IsHost(host) /\ host.ok = TRUE /\ ~host.stalled /\ host.dirty = 0
        /\ host.call.todo \in Seq(HostSteps)
Dirtied == host'.dirty # 0

LEMMA AsPlaceSend ==
    ASSUME Well, AS!Next, BoardWaits, NEW n \in Nat, At(n), n < Len(host.call.todo),
           NEW d \in Seq(Nat), host.call.todo[n + 1] = AS!Send(d)
    PROVE  \/ Dirtied
           \/ /\ At(n + 1)' /\ Kept /\ host'.got = host.got
              /\ fw' = fw /\ rx' = rx /\ tx' = d
<1>1. /\ ~AS!Idle /\ AS!Now = AS!Send(d)
  BY AsNow DEF Well
<1>2. AS!Send(d).s = "send" /\ AS!Send(d).d = d
  BY AsHostSteps
<1>3. AS!SendBuffer \/ Dirtied
  BY <1>1, <1>2, AsHostSends DEF Well, Dirtied
<1>4. ASSUME AS!SendBuffer
      PROVE  /\ At(n + 1)' /\ Kept /\ host'.got = host.got
             /\ fw' = fw /\ rx' = rx /\ tx' = d
  <2>1. /\ At(n + 1)' /\ Kept /\ host'.got = host.got
        /\ fw' = fw /\ rx' = rx /\ tx' = tx \o host.call.todo[n + 1].d
    BY <1>4, AsSendBuffer DEF Well
  <2>2. tx \o host.call.todo[n + 1].d = d
    <3>1. tx = << >> /\ host.call.todo[n + 1].d = d
      BY <1>2 DEF BoardWaits
    <3>2. << >> \o d = d
      OBVIOUS
    <3> QED BY <3>1, <3>2
  <2> QED BY <2>1, <2>2
<1> QED BY <1>3, <1>4

LEMMA AsPlaceExpect ==
    ASSUME Well, AS!Next, BoardWaits, NEW n \in Nat, At(n), n < Len(host.call.todo),
           NEW b \in Nat, host.call.todo[n + 1] = AS!Expect(b), rx \in Seq(Nat), rx # << >>, Head(rx) = b
    PROVE  /\ At(n + 1)' /\ Kept /\ host'.got = host.got
           /\ fw' = fw /\ rx' = Tail(rx) /\ tx' = << >>
<1>1. /\ ~AS!Idle /\ AS!Now = AS!Expect(b)
  BY AsNow DEF Well
<1>2. AS!Expect(b).s = "expect" /\ Len(AS!Expect(b).d) = 1
  <2>1. << >> \in Seq(Nat) /\ 0 \in Nat
    OBVIOUS
  <2> QED BY <2>1, AsHostSteps
<1>3. Len(rx) \in Nat /\ Len(rx) >= 1 /\ 1 \in Nat
  OBVIOUS
<1>4. AS!RecvByte
  BY <1>1, <1>2, <1>3, AsHostTakes DEF Well
<1>5. /\ At(n + 1)' /\ Kept /\ host'.got = host.got /\ fw' = fw /\ rx' = Tail(rx) /\ tx' = tx
  BY <1>4, AsRecvByte DEF Well
<1> QED BY <1>5 DEF BoardWaits

LEMMA AsPlaceRecv ==
    ASSUME Well, AS!Next, BoardWaits, NEW n \in Nat, At(n), n < Len(host.call.todo),
           NEW k \in Nat, host.call.todo[n + 1] = AS!Recv(k), rx \in Seq(Nat), Len(rx) = k
    PROVE  /\ At(n + 1)' /\ Kept /\ host'.got = host.got \o rx
           /\ fw' = fw /\ rx' = << >> /\ tx' = << >>
<1>1. /\ ~AS!Idle /\ AS!Now = AS!Recv(k)
  BY AsNow DEF Well
<1>2. AS!Recv(k).s = "recv" /\ Len(AS!Recv(k).d) = k
  <2>1. << >> \in Seq(Nat) /\ 0 \in Nat
    OBVIOUS
  <2> QED BY <2>1, AsHostSteps
<1>3. Len(rx) \in Nat /\ Len(rx) >= k
  OBVIOUS
<1>4. AS!RecvBufferEx
  BY <1>1, <1>2, <1>3, AsHostTakes DEF Well
<1>5. /\ At(n + 1)' /\ Kept /\ host'.got = host.got \o rx /\ fw' = fw /\ rx' = << >> /\ tx' = tx
  BY <1>4, AsRecvBuffer DEF Well
<1> QED BY <1>5 DEF BoardWaits

(* The host waits, and has to.                                              *)
LEMMA AsPlaceBoard ==
    ASSUME Well, AS!Next, NEW n \in Nat, At(n), n < Len(host.call.todo), rx = << >>, ~AS!Quiet,
           \/ \E b \in Nat : host.call.todo[n + 1] = AS!Expect(b)
           \/ \E k \in Nat \ {0} : host.call.todo[n + 1] = AS!Recv(k)
    PROVE  AS!Firmware
<1>1. ~AS!Idle /\ AS!Now = host.call.todo[n + 1]
  BY AsNow DEF Well
<1>2. AS!Now.s \in {"expect", "recv"} /\ Len(AS!Now.d) \in Nat \ {0}
  <2>0. << >> \in Seq(Nat) /\ 0 \in Nat
    OBVIOUS
  <2>1. CASE \E b \in Nat : host.call.todo[n + 1] = AS!Expect(b)
    <3> PICK b \in Nat : host.call.todo[n + 1] = AS!Expect(b)
      BY <2>1
    <3>1. AS!Expect(b).s = "expect" /\ Len(AS!Expect(b).d) = 1
      BY <2>0, AsHostSteps
    <3> QED BY <1>1, <3>1
  <2>2. CASE \E k \in Nat \ {0} : host.call.todo[n + 1] = AS!Recv(k)
    <3> PICK k \in Nat \ {0} : host.call.todo[n + 1] = AS!Recv(k)
      BY <2>2
    <3>1. AS!Recv(k).s = "recv" /\ Len(AS!Recv(k).d) = k
      BY <2>0, AsHostSteps
    <3> QED BY <1>1, <3>1
  <2> QED BY <2>1, <2>2
<1> QED BY <1>1, <1>2, AsBoardMoves

(* The board moves, and the host is where it was.                             *)
LEMMA AsStays ==
    ASSUME Well, host' = host, NEW n, At(n)
    PROVE  At(n)' /\ Kept /\ host'.got = host.got
BY DEF Well, At, Kept, IsHost

(* How many steps a transfer has.                                              *)
LEMMA AsCounts ==
    ASSUME NEW p \in Protocols, NEW w \in Nat \ {0}, NEW r \in Nat, IsTransfer(host.call, p, w, r)
    PROVE  /\ Len(host.call.todo) = WLen(p, w) + RLen(r)
           /\ WBlocks(p, w) \in Nat \ {0} /\ WLen(p, w) = 2 * WBlocks(p, w) + 2
           /\ RLen(r) \in Nat /\ (r > 0 => RLen(r) = 2 * RBlocks(r) + 2 /\ RBlocks(r) \in Nat \ {0})
           /\ (r = 0 => RLen(r) = 0)
<1>1. Program(host.call.todo, p, w, r)
  BY DEF IsTransfer
<1>2. Len(host.call.todo) = WLen(p, w) + RLen(r)
  BY <1>1 DEF Program
<1>3. WBlocks(p, w) \in Nat \ {0}
  BY AsWData
<1>4. r > 0 => RBlocks(r) \in Nat \ {0}
  BY AsReadBegins
<1>5. /\ WLen(p, w) = 2 * WBlocks(p, w) + 2 /\ RLen(r) \in Nat
      /\ (r > 0 => RLen(r) = 2 * RBlocks(r) + 2) /\ (r = 0 => RLen(r) = 0)
  <2>1. r = 0 \/ r > 0
    OBVIOUS
  <2> QED BY <1>4, <2>1 DEF WLen, RLen
<1> QED BY <1>2, <1>3, <1>4, <1>5

(* The first steps of a transfer's parts, and what it stands for.               *)
LEMMA AsSteps ==
    ASSUME NEW p \in Protocols, NEW w \in Nat \ {0}, NEW r \in Nat, IsTransfer(host.call, p, w, r)
    PROVE  /\ host.call.todo \in Seq(HostSteps) /\ Len(host.call.todo) = WLen(p, w) + RLen(r)
           /\ WBlocks(p, w) \in Nat \ {0} /\ WLen(p, w) = 2 * WBlocks(p, w) + 2
           /\ RLen(r) \in Nat /\ (r > 0 => RLen(r) = 2 * RBlocks(r) + 2 /\ RBlocks(r) \in Nat \ {0})
           /\ (r = 0 => RLen(r) = 0)
           /\ host.call.todo[1] = AS!Send(WHead(p, w, r)) /\ host.call.todo[2] = AS!Expect(WCmd(p))
           /\ r > 0 => /\ host.call.todo[WLen(p, w) + 1] = AS!Send(RHead(p, r))
                       /\ host.call.todo[WLen(p, w) + 2] = AS!Expect(RCmd(p))
           /\ Frame(host.call.want, p, w, r) /\ host.call.k = "bus"
           /\ host.call.give = [j \in 1 .. r |-> AS!Cell(j)] /\ (p = "i2c" => w \in I2CWrites)
<1>1. Program(host.call.todo, p, w, r)
  BY DEF IsTransfer
<1>2. /\ Len(host.call.todo) = WLen(p, w) + RLen(r)
      /\ WBlocks(p, w) \in Nat \ {0} /\ WLen(p, w) = 2 * WBlocks(p, w) + 2
      /\ RLen(r) \in Nat /\ (r > 0 => RLen(r) = 2 * RBlocks(r) + 2 /\ RBlocks(r) \in Nat \ {0})
      /\ (r = 0 => RLen(r) = 0)
  BY AsCounts
<1>4. /\ host.call.todo \in Seq(HostSteps)
      /\ WritePart(host.call.todo, p, w, r) /\ (r > 0 => ReadPart(host.call.todo, p, WLen(p, w), r))
  BY <1>1 DEF Program
<1>5. host.call.todo[1] = AS!Send(WHead(p, w, r)) /\ host.call.todo[2] = AS!Expect(WCmd(p))
  BY <1>4, Zenon DEF WritePart
<1>6. r > 0 => /\ host.call.todo[WLen(p, w) + 1] = AS!Send(RHead(p, r))
               /\ host.call.todo[WLen(p, w) + 2] = AS!Expect(RCmd(p))
  BY <1>4, Zenon DEF ReadPart
<1>8. /\ Frame(host.call.want, p, w, r) /\ host.call.k = "bus"
      /\ host.call.give = [j \in 1 .. r |-> AS!Cell(j)] /\ (p = "i2c" => w \in I2CWrites)
  BY Zenon DEF IsTransfer
<1> QED BY <1>2, <1>4, <1>5, <1>6, <1>8

LEMMA AsLengths ==
    ASSUME NEW p \in Protocols, NEW w \in Nat \ {0}, NEW r \in Nat, IsTransfer(host.call, p, w, r)
    PROVE  /\ Len(host.call.todo) \in Nat /\ WLen(p, w) \in Nat /\ 3 < WLen(p, w) /\ WLen(p, w) <= Len(host.call.todo)
           /\ r = 0 => WLen(p, w) = Len(host.call.todo)
           /\ r > 0 => WLen(p, w) + 3 < Len(host.call.todo)
<1> DEFINE n == Len(host.call.todo)
           o == WLen(p, w)
           l == RLen(r)
           b == WBlocks(p, w)
           c == RBlocks(r)
<1>1. n = o + l /\ b \in Nat \ {0} /\ o = 2 * b + 2 /\ l \in Nat /\ (r > 0 => l = 2 * c + 2 /\ c \in Nat \ {0})
      /\ (r = 0 => l = 0)
  BY AsCounts
<1> HIDE DEF n, o, l, b, c
<1>2. n \in Nat /\ o \in Nat /\ 3 < o /\ o <= n /\ (r = 0 => o = n)
  BY <1>1
<1>3. r > 0 => o + 3 < n
  BY <1>1
<1> QED BY <1>2, <1>3 DEF n, o

LEMMA AsWSteps ==
    ASSUME NEW p \in Protocols, NEW w \in Nat \ {0}, NEW r \in Nat, IsTransfer(host.call, p, w, r),
           NEW i \in Nat, i < WBlocks(p, w)
    PROVE  /\ host.call.todo[2 * i + 2 + 1] = AS!Send(Piece(w, WChunk(p, w), i + 1))
           /\ host.call.todo[2 * i + 3 + 1] = AS!Expect(AS!ACK)
           /\ 2 * i + 3 < Len(host.call.todo) /\ 2 * i + 3 < WLen(p, w)
           /\ Piece(w, WChunk(p, w), i + 1) \in Seq(Nat)
<1>1. WritePart(host.call.todo, p, w, r)
  BY DEF IsTransfer, Program
<1>0. WBlocks(p, w) \in Nat /\ WLen(p, w) = 2 * WBlocks(p, w) + 2 /\ RLen(r) \in Nat
      /\ Len(host.call.todo) = WLen(p, w) + RLen(r)
  <2>1. /\ Len(host.call.todo) = WLen(p, w) + RLen(r)
        /\ WBlocks(p, w) \in Nat \ {0} /\ WLen(p, w) = 2 * WBlocks(p, w) + 2
        /\ RLen(r) \in Nat
    BY AsCounts
  <2> QED BY <2>1
<1>2. i + 1 \in 1 .. WBlocks(p, w) /\ 2 * (i + 1) + 1 = 2 * i + 2 + 1 /\ 2 * (i + 1) + 2 = 2 * i + 3 + 1
  BY <1>0
<1>3. /\ host.call.todo[2 * (i + 1) + 1] = AS!Send(Piece(w, WChunk(p, w), i + 1))
      /\ host.call.todo[2 * (i + 1) + 2] = AS!Expect(AS!ACK)
  BY <1>1, <1>2 DEF WritePart
<1>4. Piece(w, WChunk(p, w), i + 1) \in Seq(Nat)
  <2>1. WChunk(p, w) \in Nat \ {0}
    BY AsConst DEF WChunk
  <2> QED BY <1>2, <2>1, AsPiece DEF WBlocks
<1>5. 2 * i + 3 < Len(host.call.todo) /\ 2 * i + 3 < WLen(p, w)
  BY <1>0
<1> QED BY <1>2, <1>3, <1>4, <1>5

(* A board that holds blocks of a write waits for the next.                    *)
LEMMA AsHoldsBlocks ==
    ASSUME NEW p \in Protocols, NEW w \in Nat \ {0}, NEW r \in Nat, NEW f,
           NEW i \in Nat, i < WBlocks(p, w), WroteUpto(fw, f, p, w, r, i)
    PROVE  fw.pc = "data" /\ AS!BlockSize \in Nat \ {0}
<1>1. fw.left \in Nat \ {0} /\ fw.pc = "data"
  <2>1. fw.left = w - Upto(w, WChunk(p, w), i) /\ Upto(w, WChunk(p, w), i) \in Nat /\ Upto(w, WChunk(p, w), i) < w
    BY AsWriteBlocks DEF WroteUpto
  <2> DEFINE a == Upto(w, WChunk(p, w), i)
  <2> HIDE DEF a
  <2>2. fw.left = w - a /\ a \in Nat /\ a < w
    BY <2>1 DEF a
  <2> QED BY <2>2 DEF WroteUpto
<1> QED BY <1>1, AsConst DEF AS!BlockSize

(* A session goes on.                                                       *)
GoesOn == Kept /\ IsFw(fw)'

LEMMA AsBeginsWrite ==
    ASSUME Well, AS!Next, NEW p \in Protocols, NEW w \in Nat \ {0}, NEW r \in Nat, IsTransfer(host.call, p, w, r),
           BeforeWrite(p, w, r), fw.pc = "loop"
    PROVE  Dirtied \/ (GoesOn /\ BeforeWrite(p, w, r)')
<1>0. /\ 0 < Len(host.call.todo) /\ 1 < Len(host.call.todo) /\ 0 + 1 = 1 /\ 1 + 1 = 2 /\ 1 \in Nat /\ 0 \in Nat
      /\ WHead(p, w, r) \in Seq(Nat) /\ WCmd(p) \in Nat
  <2>1. Len(host.call.todo) \in Nat /\ WLen(p, w) \in Nat /\ 3 < WLen(p, w) /\ WLen(p, w) <= Len(host.call.todo)
    BY AsLengths
  <2>2. 0 < Len(host.call.todo) /\ 1 < Len(host.call.todo)
    BY <2>1
  <2>3. WHead(p, w, r) \in Seq(Nat) /\ WCmd(p) \in Nat
    BY AsHeads
  <2> QED BY <2>2, <2>3
<1>3. host.call.todo[0 + 1] = AS!Send(WHead(p, w, r)) /\ host.call.todo[1 + 1] = AS!Expect(WCmd(p))
  <2>1. host.call.todo[1] = AS!Send(WHead(p, w, r)) /\ host.call.todo[2] = AS!Expect(WCmd(p))
    BY AsSteps, Zenon
  <2> QED BY <2>1
<1>1. CASE At(0) /\ Lines("loop", << >>, << >>)
  <2>1. BoardWaits
    BY <1>1 DEF BoardWaits, Lines
  <2>2. \/ Dirtied
        \/ /\ At(0 + 1)' /\ Kept /\ host'.got = host.got
           /\ fw' = fw /\ rx' = rx /\ tx' = WHead(p, w, r)
    BY <1>0, <1>1, <1>3, <2>1, AsPlaceSend
  <2>3. ASSUME At(1)', Kept, host'.got = host.got, fw' = fw, rx' = rx, tx' = WHead(p, w, r)
        PROVE  GoesOn /\ BeforeWrite(p, w, r)'
    <3>1. Begun(p)' /\ Lines("loop", WHead(p, w, r), << >>)'
      BY <1>1, <2>3 DEF BeforeWrite, Begun, Lines, Seen, NoneRead, Kept
    <3> QED BY <2>3, <3>1 DEF BeforeWrite, GoesOn, Well
  <2> QED BY <1>0, <2>2, <2>3
<1>2. CASE At(1) /\ Lines("loop", WHead(p, w, r), << >>)
  <2>1. tx = WHead(p, w, r) /\ tx # << >> /\ Head(tx) = WCmd(p) /\ fw.pc = "loop" /\ rx = << >>
        /\ WCmd(p) \in {11, 22, 31}
    BY <1>2, AsHeadOf DEF Lines
  <2>2. AS!Firmware
    <3>1. ~AS!Quiet /\ \E b \in Nat : host.call.todo[1 + 1] = AS!Expect(b)
      BY <1>0, <1>3, <2>1 DEF AS!Quiet
    <3> QED BY <1>0, <1>2, <2>1, <3>1, AsPlaceBoard
  <2>3. AS!ParseCommand
    BY <2>1, <2>2, AsWhich
  <2>4. /\ tx' = Tail(tx) /\ host' = host /\ IsFw(fw)'
        /\ fw'.pc = "header" /\ fw'.cmd = WCmd(p) /\ SameFw(fw) /\ rx' = rx
    <3>1. Head(tx) \in {7, 10, 11, 21, 22, 25, 26, 30, 31}
      BY <2>1
    <3> QED BY <2>1, <2>3, <3>1, AsParse DEF Well
  <2>5. At(1)' /\ Kept /\ host'.got = host.got
    BY <1>2, <2>4, AsStays
  <2>6. Begun(p)' /\ Lines("header", Tail(WHead(p, w, r)), << >>)'
    BY <1>2, <2>1, <2>4, <2>5 DEF BeforeWrite, Begun, Lines, Seen, NoneRead, Kept, SameFw
  <2> QED BY <2>4, <2>5, <2>6 DEF BeforeWrite, GoesOn
<1> QED BY <1>1, <1>2 DEF BeforeWrite, Lines

LEMMA AsOpenedWire ==
    ASSUME NEW p \in Protocols, NEW w \in Nat \ {0}, NEW r \in Nat, NEW f, Frame(f, p, w, r)
    PROVE  Opened(p, Upmost(f, 0)) = Upmost(f, Opening(p))
<1>1. f \in Seq(Events) /\ 2 < Len(f) /\ Len(f) \in Nat
  BY DEF Frame, FrameLen, Opening, Turn
<1>2. ASSUME NEW k \in Nat, k < Len(f), NEW e, f[k + 1] = e
      PROVE  Upmost(f, k) \o <<e>> = Upmost(f, k + 1) /\ Append(Upmost(f, k), e) = Upmost(f, k + 1)
  BY <1>1, <1>2, AsExtendOne
<1>3. 0 + 1 = 1 /\ 1 + 1 = 2 /\ 0 \in Nat /\ 1 \in Nat /\ 0 < Len(f) /\ 1 < Len(f)
  BY <1>1
<1>4. CASE p = "spi"
  <2> DEFINE e == <<"low">>
  <2>1. f[0 + 1] = e /\ Opened(p, Upmost(f, 0)) = Append(Upmost(f, 0), e) /\ Opening(p) = 1
    BY <1>3, <1>4 DEF Frame, Opened, Opening
  <2> HIDE DEF e
  <2>2. Append(Upmost(f, 0), e) = Upmost(f, 0 + 1)
    BY <1>2, <1>3, <2>1
  <2> QED BY <1>3, <2>1, <2>2
<1>5. CASE p = "mw"
  <2> DEFINE e == <<"high">>
  <2>1. f[0 + 1] = e /\ Opened(p, Upmost(f, 0)) = Append(Upmost(f, 0), e) /\ Opening(p) = 1
    BY <1>3, <1>5 DEF Frame, Opened, Opening
  <2> HIDE DEF e
  <2>2. Append(Upmost(f, 0), e) = Upmost(f, 0 + 1)
    BY <1>2, <1>3, <2>1
  <2> QED BY <1>3, <2>1, <2>2
<1>6. CASE p = "i2c"
  <2> DEFINE e == <<"start">>
             d == <<"address", "w">>
  <2>1. f[0 + 1] = e /\ f[1 + 1] = d /\ Opened(p, Upmost(f, 0)) = (Upmost(f, 0) \o <<e>>) \o <<d>> /\ Opening(p) = 2
    BY <1>3, <1>6 DEF Frame, Opened, Opening
  <2> HIDE DEF e, d
  <2>2. Upmost(f, 0) \o <<e>> = Upmost(f, 0 + 1)
    BY <1>2, <1>3, <2>1
  <2>3. Upmost(f, 1) \o <<d>> = Upmost(f, 1 + 1)
    BY <1>2, <1>3, <2>1
  <2>4. (Upmost(f, 0) \o <<e>>) \o <<d>> = Upmost(f, 1) \o <<d>>
    BY <1>3, <2>2
  <2> QED BY <1>3, <2>1, <2>3, <2>4
<1> QED BY <1>4, <1>5, <1>6 DEF Protocols

LEMMA AsHeadsWrite ==
    ASSUME Well, AS!Next, NEW p \in Protocols, NEW w \in Nat \ {0}, NEW r \in Nat, IsTransfer(host.call, p, w, r),
           BeforeWrite(p, w, r), fw.pc = "header"
    PROVE  GoesOn /\ AtWrite(p, w, r, 0)'
<1>1. /\ At(1) /\ Lines("header", Tail(WHead(p, w, r)), << >>) /\ fw.cmd = WCmd(p) /\ Begun(p)
  BY DEF BeforeWrite, Lines
<1>2. /\ tx = Tail(WHead(p, w, r)) /\ rx = << >> /\ fw.rst = RestPin(p) /\ fw.cells = 0 /\ host.got = << >>
      /\ fw.wire = Upmost(host.call.want, 0)
  BY <1>1, AsSeen DEF Lines, Begun, NoneRead
<1>3. /\ 1 < Len(host.call.todo) /\ 1 \in Nat /\ 1 + 1 = 2 /\ WCmd(p) \in Nat
      /\ host.call.todo[1 + 1] = AS!Expect(WCmd(p)) /\ Frame(host.call.want, p, w, r)
  <2>1. Len(host.call.todo) \in Nat /\ WLen(p, w) \in Nat /\ 3 < WLen(p, w) /\ WLen(p, w) <= Len(host.call.todo)
    BY AsLengths
  <2>2. 1 < Len(host.call.todo)
    BY <2>1
  <2>3. WCmd(p) \in Nat
    BY AsHeads
  <2>4. host.call.todo[2] = AS!Expect(WCmd(p)) /\ Frame(host.call.want, p, w, r)
    BY AsSteps, Zenon
  <2> QED BY <2>2, <2>3, <2>4
<1>4. AS!Firmware
  <2>1. ~AS!Quiet /\ \E b \in Nat : host.call.todo[1 + 1] = AS!Expect(b)
    BY <1>3 DEF AS!Quiet
  <2> QED BY <1>1, <1>2, <1>3, <2>1, AsPlaceBoard
<1>5. AS!Header
  <2>1. Len(tx) = AS!HeaderSize(fw.cmd) /\ AS!HeaderSize(fw.cmd) \in Nat
    <3>1. Len(Tail(WHead(p, w, r))) = AS!HeaderSize(WCmd(p)) /\ AS!HeaderSize(WCmd(p)) \in Nat
      BY AsHeadOf
    <3> QED BY <1>1, <1>2, <3>1, Zenon
  <2>2. Len(tx) >= AS!HeaderSize(fw.cmd)
    BY <2>1
  <2> QED BY <1>4, <2>1, <2>2, AsWhich
<1>6. /\ tx' = << >> /\ rx' = rx \o <<WCmd(p)>> /\ host' = host /\ IsFw(fw)'
      /\ fw'.pc = "data" /\ fw'.cmd = WCmd(p) /\ fw'.left = w /\ fw'.flag = (r = 0)
      /\ fw'.rst = BusyPin(p) /\ fw'.cells = fw.cells /\ (p = "mw" => fw'.bits = 8 * w - 5)
      /\ fw'.wire = Opened(p, fw.wire)
  BY <1>1, <1>2, <1>5, AsWriteHeader DEF Well
<1>7. At(1)' /\ Kept /\ host'.got = << >>
  BY <1>1, <1>2, <1>6, AsStays
<1>8. rx' = <<WCmd(p)>>
  <2>1. << >> \o <<WCmd(p)>> = <<WCmd(p)>>
    BY <1>3
  <2> QED BY <1>2, <1>6, <2>1
<1>9. WroteUpto(fw', host'.call.want, p, w, r, 0)
  <2>1. Upto(w, WChunk(p, w), 0) = 0
    <3>1. WChunk(p, w) \in Nat \ {0}
      BY AsConst DEF WChunk
    <3> QED BY <3>1, AsUpto
  <2>2. w - 0 = w /\ Opening(p) + 0 = Opening(p)
    BY DEF Opening
  <2>3. fw'.wire = Upmost(host.call.want, Opening(p)) /\ host'.call = host.call
    BY <1>2, <1>3, <1>6, AsOpenedWire
  <2> QED BY <1>2, <1>6, <2>1, <2>2, <2>3 DEF WroteUpto
<1>10. 2 * 0 + 1 = 1
  OBVIOUS
<1>11. AtWrite(p, w, r, 0)'
  BY <1>6, <1>7, <1>8, <1>9, <1>10 DEF AtWrite
<1> QED BY <1>6, <1>7, <1>11 DEF GoesOn

(* Between the blocks of a write.                                           *)
LEMMA AsPlaceBlocks ==
    ASSUME Well, AS!Next, NEW p \in Protocols, NEW w \in Nat \ {0}, NEW r \in Nat, IsTransfer(host.call, p, w, r),
           p = "i2c" => rchunk = wchunk \/ w < wchunk,
           NEW i \in Nat, i < WBlocks(p, w), AtWrite(p, w, r, i)
    PROVE  \/ Dirtied
           \/ GoesOn /\ AtWrite(p, w, r, i)'
           \/ i + 1 < WBlocks(p, w) /\ GoesOn /\ AtWrite(p, w, r, i + 1)'
           \/ GoesOn /\ InTurn(p, w, r)'
<1> DEFINE a == 2 * i + 1
           b == 2 * i + 2
           c == 2 * i + 3
           d == Piece(w, WChunk(p, w), i + 1)
           e == IF i = 0 THEN WCmd(p) ELSE AS!ACK
           n == Len(host.call.todo)
           o == WLen(p, w)
           m == WBlocks(p, w)
<1>1. /\ WroteUpto(fw, host.call.want, p, w, r, i) /\ host.got = << >>
      /\ \/ At(a) /\ tx = << >> /\ rx = <<e>>
         \/ At(b) /\ tx = << >> /\ rx = << >>
         \/ At(c) /\ tx = d /\ rx = << >>
  BY DEF AtWrite
<1>2. /\ host.call.todo[b + 1] = AS!Send(d) /\ host.call.todo[c + 1] = AS!Expect(AS!ACK)
      /\ c < n /\ c < o /\ d \in Seq(Nat)
  BY AsWSteps
<1>3. host.call.todo[a + 1] = AS!Expect(e)
  <2>1. CASE i = 0
    <3>1. host.call.todo[2] = AS!Expect(WCmd(p))
      BY AsSteps, Zenon
    <3>2. a + 1 = 2
      BY <2>1
    <3> QED BY <2>1, <3>1, <3>2
  <2>2. CASE i # 0
    <3>1. i - 1 \in Nat /\ i - 1 < WBlocks(p, w)
      <4>1. WBlocks(p, w) \in Nat
        BY AsCounts
      <4> QED BY <2>2, <4>1
    <3>2. host.call.todo[2 * (i - 1) + 3 + 1] = AS!Expect(AS!ACK)
      BY <3>1, AsWSteps
    <3>3. 2 * (i - 1) + 3 + 1 = a + 1
      BY <2>2
    <3> QED BY <2>2, <3>2, <3>3
  <2> QED BY <2>1, <2>2
<1>4. e \in Nat /\ AS!ACK \in Nat
  BY AsHeads, AsCodes DEF Codes
<1>5. /\ m \in Nat /\ o = 2 * m + 2 /\ n \in Nat
  <2>1. m \in Nat \ {0} /\ o = 2 * m + 2
    BY AsCounts
  <2>2. n \in Nat
    BY AsLengths
  <2> QED BY <2>1, <2>2
<1>6. a \in Nat /\ b \in Nat /\ c \in Nat /\ a + 1 = b /\ b + 1 = c
  OBVIOUS
<1>7. a < n /\ b < n
  <2> HIDE DEF n
  <2> QED BY <1>2, <1>5
<1>8. c = 2 * (i + 1) + 1 /\ (i + 1 = m => c = o - 1)
  <2> HIDE DEF m, o
  <2> QED BY <1>5
<1>9. fw.pc = "data" /\ AS!BlockSize \in Nat \ {0} /\ Frame(host.call.want, p, w, r)
  <2>1. Frame(host.call.want, p, w, r)
    BY AsSteps, Zenon
  <2> QED BY <1>1, <2>1, AsHoldsBlocks
<1>10. ASSUME tx = << >> PROVE BoardWaits
  BY <1>9, <1>10 DEF BoardWaits
<1> HIDE DEF a, b, c, d, e, n, o, m
<1>11. CASE At(a) /\ tx = << >> /\ rx = <<e>>
  <2>1. rx \in Seq(Nat) /\ rx # << >> /\ Head(rx) = e /\ Tail(rx) = << >>
    BY <1>4, <1>11
  <2>2. /\ At(a + 1)' /\ Kept /\ host'.got = host.got /\ fw' = fw /\ rx' = Tail(rx) /\ tx' = << >>
    BY <1>3, <1>4, <1>6, <1>7, <1>10, <1>11, <2>1, AsPlaceExpect DEF n
  <2>3. At(b)' /\ rx' = << >> /\ tx' = << >> /\ host'.got = << >> /\ fw' = fw /\ host'.call = host.call
    BY <1>1, <1>6, <2>1, <2>2 DEF Kept
  <2>4. AtWrite(p, w, r, i)'
    BY <1>1, <2>3 DEF AtWrite, b
  <2> QED BY <2>2, <2>4 DEF GoesOn, Well
<1>12. CASE At(b) /\ tx = << >> /\ rx = << >>
  <2>1. \/ Dirtied
        \/ /\ At(b + 1)' /\ Kept /\ host'.got = host.got
           /\ fw' = fw /\ rx' = rx /\ tx' = d
    BY <1>2, <1>6, <1>7, <1>10, <1>12, AsPlaceSend DEF n
  <2>2. ASSUME At(b + 1)', Kept, host'.got = host.got, fw' = fw, rx' = rx, tx' = d
        PROVE  GoesOn /\ AtWrite(p, w, r, i)'
    <3>1. At(c)' /\ rx' = << >> /\ tx' = d /\ host'.got = << >> /\ fw' = fw /\ host'.call = host.call
      BY <1>1, <1>6, <1>12, <2>2 DEF Kept
    <3>2. AtWrite(p, w, r, i)'
      BY <1>1, <3>1 DEF AtWrite, c, d
    <3> QED BY <2>2, <3>2 DEF GoesOn, Well
  <2> QED BY <2>1, <2>2
<1>13. CASE At(c) /\ tx = d /\ rx = << >>
  <2>1. AS!Firmware
    <3>1. ~AS!Quiet /\ \E x \in Nat : host.call.todo[c + 1] = AS!Expect(x)
      BY <1>2, <1>4, <1>9 DEF AS!Quiet
    <3> QED BY <1>2, <1>6, <1>13, <3>1, AsPlaceBoard DEF n
  <2>2. AS!WriteBlock
    BY <1>9, <2>1, AsWhich
  <2>3. /\ tx' = << >> /\ host' = host /\ rx' = rx \o <<AS!ACK>>
        /\ i + 1 < WBlocks(p, w) => WroteUpto(fw', host.call.want, p, w, r, i + 1)
        /\ i + 1 = WBlocks(p, w) => WroteAll(fw', host.call.want, p, w, r) /\ fw'.pc = "loop"
    <3>1. tx = Piece(w, WChunk(p, w), i + 1)
      BY <1>13 DEF d
    <3> QED BY <1>1, <1>9, <2>2, <3>1, AsWriteBlock
  <2>4. At(c)' /\ Kept /\ host'.got = << >> /\ host'.call = host.call
    BY <1>1, <1>13, <2>3, AsStays DEF Kept
  <2>5. rx' = <<AS!ACK>>
    <3>1. << >> \o <<AS!ACK>> = <<AS!ACK>>
      BY <1>4
    <3> QED BY <1>13, <2>3, <3>1
  <2>6. CASE i + 1 < m
    <3>1. WroteUpto(fw', host.call.want, p, w, r, i + 1)
      BY <2>3, <2>6 DEF m
    <3>2. At(2 * (i + 1) + 1)' /\ i + 1 # 0
      BY <1>8, <2>4
    <3>3. AtWrite(p, w, r, i + 1)'
      BY <2>3, <2>4, <2>5, <3>1, <3>2 DEF AtWrite
    <3>4. IsFw(fw)'
      BY <3>1 DEF WroteUpto
    <3> QED BY <2>4, <2>6, <3>3, <3>4 DEF GoesOn, m
  <2>7. CASE i + 1 = m
    <3>1. WroteAll(fw', host.call.want, p, w, r) /\ fw'.pc = "loop"
      BY <2>3, <2>7 DEF m
    <3>2. At(o - 1)'
      BY <1>8, <2>4, <2>7
    <3>3. InTurn(p, w, r)'
      BY <2>3, <2>4, <2>5, <3>1, <3>2 DEF InTurn, Lines, o
    <3>4. IsFw(fw)'
      BY <3>1 DEF WroteAll
    <3> QED BY <2>4, <3>3, <3>4 DEF GoesOn
  <2>8. i + 1 < m \/ i + 1 = m
    <3>1. m \in Nat /\ i < m
      BY <1>5 DEF m
    <3> QED BY <3>1
  <2> QED BY <2>6, <2>7, <2>8
<1> QED BY <1>1, <1>11, <1>12, <1>13

(* The last step of a call.                                                  *)
LEMMA AsLast ==
    ASSUME Kept, host.call.todo \in Seq(HostSteps), NEW n, n = Len(host.call.todo), At(n)'
    PROVE  host'.todo = << >>
<1>1. host'.todo = SubSeq(host.call.todo, n + 1, Len(host.call.todo))
  BY DEF At, Kept
<1>2. n \in 0 .. Len(host.call.todo)
  OBVIOUS
<1> QED BY <1>1, <1>2, AsSuffix

LEMMA AsWrittenAll ==
    ASSUME Well, AS!Next, NEW p \in Protocols, NEW w \in Nat \ {0}, NEW r \in Nat, IsTransfer(host.call, p, w, r),
           WroteAll(fw, host.call.want, p, w, r), host.got = << >>,
           At(WLen(p, w) - 1), Lines("loop", << >>, <<AS!ACK>>)
    PROVE  GoesOn /\ (IF r = 0 THEN AtRest(p)' ELSE InTurn(p, w, r)')
<1> DEFINE n == Len(host.call.todo)
           o == WLen(p, w)
           m == WBlocks(p, w)
<1>1. /\ host.call.todo[o - 1 + 1] = AS!Expect(AS!ACK) /\ o - 1 \in Nat /\ o - 1 < n /\ o - 1 + 1 = o
      /\ (r = 0 => o = n)
  <2>1. m \in Nat \ {0} /\ o = 2 * m + 2
    BY AsCounts
  <2>2. n \in Nat /\ o <= n /\ (r = 0 => o = n)
    BY AsLengths
  <2> DEFINE i == m - 1
  <2>3. i \in Nat /\ i < m /\ 2 * i + 3 + 1 = o
    <3> HIDE DEF m, o
    <3> QED BY <2>1
  <2>4. host.call.todo[2 * i + 3 + 1] = AS!Expect(AS!ACK)
    <3> HIDE DEF i
    <3> QED BY <2>3, AsWSteps
  <2> HIDE DEF m, o, n, i
  <2>5. o - 1 \in Nat /\ o - 1 < n /\ o - 1 + 1 = o
    BY <2>1, <2>2
  <2> QED BY <2>2, <2>3, <2>4, <2>5
<1>2. AS!ACK \in Nat
  BY AsCodes DEF Codes
<1>3. rx \in Seq(Nat) /\ rx # << >> /\ Head(rx) = AS!ACK /\ Tail(rx) = << >>
  BY <1>2 DEF Lines
<1>4. BoardWaits
  BY DEF BoardWaits, Lines
<1>5. /\ At(o - 1 + 1)' /\ Kept /\ host'.got = host.got /\ fw' = fw /\ rx' = Tail(rx) /\ tx' = << >>
  <2> HIDE DEF o, n
  <2>1. At(o - 1)
    BY DEF o
  <2> QED BY <1>1, <1>2, <1>3, <1>4, <2>1, AsPlaceExpect DEF n
<1>6. /\ At(o)' /\ host'.got = << >> /\ host'.call = host.call /\ Lines("loop", << >>, << >>)'
      /\ WroteAll(fw', host.call.want, p, w, r)
  BY <1>1, <1>3, <1>5 DEF Kept, Lines
<1>7. GoesOn
  BY <1>5 DEF GoesOn, Well
<1>8. CASE r = 0
  <2>1. host'.todo = << >>
    <3>1. At(o)' /\ host.call.todo \in Seq(HostSteps) /\ o = Len(host.call.todo)
      BY <1>1, <1>6, <1>8 DEF Well
    <3> HIDE DEF o
    <3> QED BY <1>5, <3>1, AsLast
  <2>2. fw'.rst = RestPin(p) /\ fw'.wire = Upmost(host.call.want, FrameLen(p, w, r))
    BY <1>6, <1>8 DEF WroteAll
  <2>3. Frame(host.call.want, p, w, r) /\ host.call.k = "bus" /\ host.call.give = [j \in 1 .. r |-> AS!Cell(j)]
    BY AsSteps, Zenon
  <2>4. fw'.wire = host.call.want
    <3>1. host.call.want \in Seq(Events) /\ Len(host.call.want) = FrameLen(p, w, r)
      BY <2>3 DEF Frame
    <3>2. Len(host.call.want) \in 0 .. Len(host.call.want)
      BY <3>1
    <3> QED BY <2>2, <3>1, <3>2, AsPrefix
  <2>5. host.call.give = << >>
    BY <1>8, <2>3
  <2>6. AtRest(p)'
    BY <1>6, <2>1, <2>2, <2>3, <2>4, <2>5 DEF AtRest
  <2> QED BY <1>7, <1>8, <2>6
<1>9. CASE r # 0
  <2>1. r > 0
    BY <1>9
  <2>2. InTurn(p, w, r)'
    BY <1>6, <2>1 DEF InTurn, o
  <2> QED BY <1>7, <1>9, <2>2
<1> QED BY <1>8, <1>9

LEMMA AsPlaceTurn ==
    ASSUME Well, AS!Next, NEW p \in Protocols, NEW w \in Nat \ {0}, NEW r \in Nat, IsTransfer(host.call, p, w, r),
           InTurn(p, w, r)
    PROVE  \/ Dirtied
           \/ GoesOn /\ AtRest(p)'
           \/ GoesOn /\ InTurn(p, w, r)'
           \/ r > 0 /\ GoesOn /\ AtRead(p, w, r, 1)'
<1> DEFINE n == Len(host.call.todo)
           o == WLen(p, w)
<1>1. /\ WroteAll(fw, host.call.want, p, w, r) /\ host.got = << >>
      /\ \/ At(o - 1) /\ Lines("loop", << >>, <<AS!ACK>>)
         \/ r > 0 /\ At(o) /\ Lines("loop", << >>, << >>)
         \/ r > 0 /\ At(o + 1) /\ Lines("loop", RHead(p, r), << >>)
         \/ r > 0 /\ At(o + 1) /\ Lines("header", Tail(RHead(p, r)), << >>) /\ fw.cmd = RCmd(p)
  BY DEF InTurn
<1>2. /\ n \in Nat /\ o \in Nat /\ (r > 0 => o + 3 < n)
  BY AsLengths
<1>3. ASSUME r > 0
      PROVE  /\ o \in Nat /\ o + 1 \in Nat /\ o < n /\ o + 1 < n /\ o + 1 + 1 = o + 2
             /\ RHead(p, r) \in Seq(Nat) /\ RCmd(p) \in Nat
             /\ host.call.todo[o + 1] = AS!Send(RHead(p, r)) /\ host.call.todo[o + 1 + 1] = AS!Expect(RCmd(p))
             /\ Frame(host.call.want, p, w, r)
  <2>1. RHead(p, r) \in Seq(Nat) /\ RCmd(p) \in Nat
    BY AsHeads
  <2>2. /\ host.call.todo[o + 1] = AS!Send(RHead(p, r)) /\ host.call.todo[o + 2] = AS!Expect(RCmd(p))
        /\ Frame(host.call.want, p, w, r)
    BY <1>3, AsSteps
  <2> HIDE DEF n, o
  <2>3. o \in Nat /\ o + 1 \in Nat /\ o < n /\ o + 1 < n /\ o + 1 + 1 = o + 2
    BY <1>2, <1>3
  <2> QED BY <2>1, <2>2, <2>3
<1>4. CASE At(o - 1) /\ Lines("loop", << >>, <<AS!ACK>>)
  BY <1>1, <1>4, AsWrittenAll
<1> HIDE DEF n, o
<1>5. CASE r > 0 /\ At(o) /\ Lines("loop", << >>, << >>)
  <2>1. BoardWaits
    BY <1>5 DEF BoardWaits, Lines
  <2>2. \/ Dirtied
        \/ /\ At(o + 1)' /\ Kept /\ host'.got = host.got
           /\ fw' = fw /\ rx' = rx /\ tx' = RHead(p, r)
    BY <1>3, <1>5, <2>1, AsPlaceSend DEF n
  <2>3. ASSUME At(o + 1)', Kept, host'.got = host.got, fw' = fw, rx' = rx, tx' = RHead(p, r)
        PROVE  GoesOn /\ InTurn(p, w, r)'
    <3>1. /\ WroteAll(fw', host'.call.want, p, w, r) /\ host'.got = << >> /\ Lines("loop", RHead(p, r), << >>)'
      BY <1>1, <1>5, <2>3 DEF Lines, Kept
    <3>2. InTurn(p, w, r)'
      BY <1>5, <2>3, <3>1 DEF InTurn, o
    <3> QED BY <2>3, <3>2 DEF GoesOn, Well
  <2> QED BY <2>2, <2>3
<1>6. CASE r > 0 /\ At(o + 1) /\ Lines("loop", RHead(p, r), << >>)
  <2>1. tx = RHead(p, r) /\ tx # << >> /\ Head(tx) = RCmd(p) /\ fw.pc = "loop" /\ rx = << >>
        /\ RCmd(p) \in {10, 21, 30}
    BY <1>6, AsHeadOf DEF Lines
  <2>2. AS!Firmware
    <3>1. ~AS!Quiet /\ \E b \in Nat : host.call.todo[o + 1 + 1] = AS!Expect(b)
      BY <1>3, <1>6, <2>1 DEF AS!Quiet
    <3> QED BY <1>3, <1>6, <2>1, <3>1, AsPlaceBoard DEF n
  <2>3. AS!ParseCommand
    BY <2>1, <2>2, AsWhich
  <2>4. /\ tx' = Tail(tx) /\ host' = host /\ IsFw(fw)'
        /\ fw'.pc = "header" /\ fw'.cmd = RCmd(p) /\ SameFw(fw) /\ rx' = rx
    <3>1. Head(tx) \in {7, 10, 11, 21, 22, 25, 26, 30, 31}
      BY <2>1
    <3> QED BY <2>1, <2>3, <3>1, AsParse DEF Well
  <2>5. At(o + 1)' /\ Kept /\ host'.got = << >> /\ host'.call = host.call
    BY <1>1, <1>6, <2>4, AsStays DEF Kept
  <2>6. Lines("header", Tail(RHead(p, r)), << >>)' /\ WroteAll(fw', host.call.want, p, w, r)
    BY <1>1, <2>1, <2>4 DEF Lines, SameFw, WroteAll
  <2>7. InTurn(p, w, r)'
    BY <1>6, <2>4, <2>5, <2>6 DEF InTurn, o
  <2> QED BY <2>4, <2>5, <2>7 DEF GoesOn
<1>7. CASE r > 0 /\ At(o + 1) /\ Lines("header", Tail(RHead(p, r)), << >>) /\ fw.cmd = RCmd(p)
  <2>1. tx = Tail(RHead(p, r)) /\ fw.pc = "header" /\ rx = << >> /\ fw.cmd = RCmd(p) /\ r > 0
    BY <1>7 DEF Lines
  <2>2. AS!Firmware
    <3>1. ~AS!Quiet /\ \E b \in Nat : host.call.todo[o + 1 + 1] = AS!Expect(b)
      BY <1>3, <1>7, <2>1 DEF AS!Quiet
    <3> QED BY <1>3, <1>7, <2>1, <3>1, AsPlaceBoard DEF n
  <2>3. AS!Header
    <3>1. Len(Tail(RHead(p, r))) = AS!HeaderSize(RCmd(p)) /\ AS!HeaderSize(RCmd(p)) \in Nat
      BY AsHeadOf
    <3>2. Len(tx) = AS!HeaderSize(fw.cmd) /\ AS!HeaderSize(fw.cmd) \in Nat
      BY <2>1, <3>1, Zenon
    <3>3. Len(tx) >= AS!HeaderSize(fw.cmd)
      BY <3>2
    <3> QED BY <2>1, <2>2, <3>2, <3>3, AsWhich
  <2>4. /\ tx' = << >> /\ host' = host /\ ReadUpto(fw', host.call.want, p, w, r, 1)
        /\ rx' = rx \o (<<RCmd(p)>> \o Given(0, Upto(r, rchunk, 1)))
    <3>1. fw.rst = BusyPin(p) /\ fw.cells = 0 /\ fw.wire = Upmost(host.call.want, Opening(p) + w + Turning(p))
      BY <1>1, <2>1 DEF WroteAll
    <3>2. r \in Nat \ {0} /\ Frame(host.call.want, p, w, r) /\ IsFw(fw)
      BY <1>3, <2>1 DEF Well
    <3> QED BY <2>1, <2>3, <3>1, <3>2, AsReadHeader
  <2>5. At(o + 1)' /\ Kept /\ host'.got = << >> /\ host'.call = host.call
    BY <1>1, <1>7, <2>4, AsStays DEF Kept
  <2>6. rx' = <<RCmd(p)>> \o Given(0, Upto(r, rchunk, 1))
    <3> DEFINE s == <<RCmd(p)>> \o Given(0, Upto(r, rchunk, 1))
    <3>1. s \in Seq(Nat)
      <4>1. Given(0, Upto(r, rchunk, 1)) \in Seq(Nat)
        <5>1. Upto(r, rchunk, 1) \in Nat
          BY <2>1, AsConst DEF Upto
        <5> QED BY <5>1 DEF Given, AS!Cell
      <4>2. <<RCmd(p)>> \in Seq(Nat)
        BY <1>3, <2>1
      <4> QED BY <4>1, <4>2
    <3> HIDE DEF s
    <3>2. << >> \o s = s
      BY <3>1
    <3> QED BY <2>1, <2>4, <3>2 DEF s
  <2>7. AtRead(p, w, r, 1)'
    BY <2>4, <2>5, <2>6 DEF AtRead, o
  <2>8. IsFw(fw)'
    BY <2>4 DEF ReadUpto
  <2> QED BY <2>1, <2>5, <2>7, <2>8 DEF GoesOn
<1> QED BY <1>1, <1>4, <1>5, <1>6, <1>7

(* A session of protocol p that has begun a call or goes on with one.           *)
Settled(p) ==
    /\ host'.mode = p /\ host'.ok = TRUE /\ ~host'.stalled /\ host'.dirty = host.dirty
    /\ IsHost(host)' /\ IsFw(fw)'

LEMMA AsGiven ==
    ASSUME NEW a \in Nat, NEW b \in Nat, a <= b
    PROVE  /\ Given(a, b) \in Seq(Nat) /\ Len(Given(a, b)) = b - a /\ Given(0, 0) = << >>
           /\ \A j \in 1 .. b - a : Given(a, b)[j] = AS!Cell(a + j)
BY DEF Given, AS!Cell

LEMMA AsGivenJoin ==
    ASSUME NEW a \in Nat, NEW b \in Nat, a <= b
    PROVE  Given(0, a) \o Given(a, b) = Given(0, b)
<1> DEFINE s == Given(0, a)
           t == Given(a, b)
           u == s \o t
           v == Given(0, b)
<1>1. /\ s \in Seq(Nat) /\ Len(s) = a /\ \A j \in 1 .. a : s[j] = AS!Cell(j)
      /\ t \in Seq(Nat) /\ Len(t) = b - a /\ \A j \in 1 .. b - a : t[j] = AS!Cell(a + j)
      /\ v \in Seq(Nat) /\ Len(v) = b /\ \A j \in 1 .. b : v[j] = AS!Cell(j)
  <2>1. a - 0 = a /\ b - 0 = b /\ 0 <= a /\ 0 <= b /\ 0 \in Nat /\ \A j \in Nat : 0 + j = j
    OBVIOUS
  <2>2. /\ s \in Seq(Nat) /\ Len(s) = a /\ \A j \in 1 .. a : s[j] = AS!Cell(0 + j)
        /\ v \in Seq(Nat) /\ Len(v) = b /\ \A j \in 1 .. b : v[j] = AS!Cell(0 + j)
    <3> HIDE DEF s, v
    <3>1. Given(0, a) \in Seq(Nat) /\ Len(Given(0, a)) = a - 0 /\ \A j \in 1 .. a - 0 : Given(0, a)[j] = AS!Cell(0 + j)
      BY <2>1, AsGiven
    <3>2. Given(0, b) \in Seq(Nat) /\ Len(Given(0, b)) = b - 0 /\ \A j \in 1 .. b - 0 : Given(0, b)[j] = AS!Cell(0 + j)
      BY <2>1, AsGiven
    <3> QED BY <2>1, <3>1, <3>2 DEF s, v
  <2>3. t \in Seq(Nat) /\ Len(t) = b - a /\ \A j \in 1 .. b - a : t[j] = AS!Cell(a + j)
    BY AsGiven
  <2> HIDE DEF s, t, v
  <2> QED BY <2>1, <2>2, <2>3
<1> HIDE DEF s, t, u, v
<1>2. Catenated(Nat, u, s, t)
  BY <1>1, AsJoin DEF u
<1>3. ASSUME NEW j \in 1 .. Len(u) PROVE u[j] = v[j]
  <2>0. Len(u) = b /\ j \in 1 .. b
    BY <1>1, <1>2 DEF Catenated
  <2>1. CASE j <= a
    <3>1. j \in 1 .. a
      BY <2>1
    <3> QED BY <1>1, <1>2, <2>0, <3>1 DEF Catenated
  <2>2. CASE j > a
    <3>1. j - a \in 1 .. Len(t) /\ a + (j - a) = j
      BY <1>1, <2>0, <2>2
    <3>2. u[a + (j - a)] = t[j - a]
      BY <1>1, <1>2, <3>1 DEF Catenated
    <3>3. t[j - a] = AS!Cell(a + (j - a))
      BY <1>1, <3>1
    <3> QED BY <1>1, <2>0, <3>1, <3>2, <3>3
  <2> QED BY <2>0, <2>1, <2>2
<1>4. u \in Seq(Nat) /\ Len(u) = Len(v)
  BY <1>1, <1>2 DEF Catenated
<1>5. u = v
  BY <1>1, <1>3, <1>4, AsSame
<1> QED BY <1>5 DEF u, s, t, v

LEMMA AsRSteps ==
    ASSUME NEW p \in Protocols, NEW w \in Nat \ {0}, NEW r \in Nat \ {0}, IsTransfer(host.call, p, w, r),
           NEW i \in 1 .. RBlocks(r)
    PROVE  LET o == WLen(p, w)
               n == Len(host.call.todo)
           IN  /\ host.call.todo[o + 1 + 1] = AS!Expect(RCmd(p))
               /\ host.call.todo[o + 2 * i + 1] = AS!Recv(Upto(r, rchunk, i) - Upto(r, rchunk, i - 1))
               /\ host.call.todo[o + 2 * i + 1 + 1] = AS!Send(<<AS!ACK>>)
               /\ o \in Nat /\ n = o + (2 * RBlocks(r) + 2) /\ RBlocks(r) \in Nat
<1> DEFINE o == WLen(p, w)
           n == Len(host.call.todo)
           t == host.call.todo
<1>1. ReadPart(t, p, o, r)
  BY DEF IsTransfer, Program
<1>2. /\ t[o + 2] = AS!Expect(RCmd(p))
      /\ t[o + 2 * i + 1] = AS!Recv(Upto(r, rchunk, i) - Upto(r, rchunk, i - 1))
      /\ t[o + 2 * i + 2] = AS!Send(<<AS!ACK>>)
  BY <1>1 DEF ReadPart
<1>3. o \in Nat
  BY AsLengths
<1>4. n = o + RLen(r) /\ RLen(r) = 2 * RBlocks(r) + 2 /\ RBlocks(r) \in Nat
  <2>1. r > 0 /\ r \in Nat
    OBVIOUS
  <2>2. Program(host.call.todo, p, w, r)
    BY DEF IsTransfer
  <2>3. RLen(r) = 2 * RBlocks(r) + 2 /\ RBlocks(r) \in Nat \ {0}
    BY <2>1, AsSteps
  <2> QED BY <2>2, <2>3 DEF Program
<1> HIDE DEF o, t
<1>5. o + 1 + 1 = o + 2 /\ o + 2 * i + 1 + 1 = o + 2 * i + 2
  BY <1>3
<1>6. t[o + 1 + 1] = AS!Expect(RCmd(p)) /\ t[o + 2 * i + 1 + 1] = AS!Send(<<AS!ACK>>)
  BY <1>2, <1>5
<1> QED BY <1>2, <1>3, <1>4, <1>6 DEF o, t

LEMMA AsReadCounts ==
    ASSUME NEW r \in Nat \ {0}, NEW i \in 1 .. RBlocks(r)
    PROVE  /\ RBlocks(r) \in Nat \ {0}
           /\ Upto(r, rchunk, i) \in Nat /\ Upto(r, rchunk, i - 1) \in Nat /\ Upto(r, rchunk, i - 1) < Upto(r, rchunk, i)
           /\ Upto(r, rchunk, i) - Upto(r, rchunk, i - 1) \in Nat \ {0}
           /\ Upto(r, rchunk, 0) = 0 /\ (i = RBlocks(r) => Upto(r, rchunk, i) = r)
<1>1. RBlocks(r) \in Nat \ {0} /\ Upto(r, rchunk, 0) = 0 /\ Upto(r, rchunk, RBlocks(r)) = r
  BY AsReadBegins
<1> DEFINE k == i - 1
<1>2. k \in Nat /\ k < RBlocks(r) /\ k + 1 = i
  BY <1>1
<1>3. Upto(r, rchunk, k) \in Nat /\ Upto(r, rchunk, k + 1) \in Nat /\ Upto(r, rchunk, k + 1) > Upto(r, rchunk, k)
  <2> HIDE DEF k
  <2> QED BY <1>2, AsReadBlocks
<1> DEFINE x == Upto(r, rchunk, i)
           y == Upto(r, rchunk, i - 1)
<1>4. x \in Nat /\ y \in Nat /\ x > y
  BY <1>2, <1>3
<1>5. x \in Nat /\ y \in Nat /\ y < x /\ x - y \in Nat \ {0}
  <2> HIDE DEF x, y
  <2> QED BY <1>4
<1> QED BY <1>1, <1>5

=============================================================================
