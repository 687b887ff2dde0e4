------------------------- MODULE NORPlanner_proofs -------------------------
(* What the differential planner makes, for every chip, geometry, snapshot   *)
(* and patch.  Induction over numbers is by least counterexamples.          *)
EXTENDS NORPlanner, WellFoundedInduction, TLAPS

-----------------------------------------------------------------------------
(* Numbers.                                                                *)

(* A set of numbers that is not empty has a least one.                     *)
LEMMA Least ==
    ASSUME NEW T \in SUBSET Nat, T # {}
    PROVE  \E x \in T : \A y \in T : x <= y
<1> DEFINE R == OpToRel(<, Nat)
<1>1. IsWellFoundedOn(R, Nat)
  BY NatLessThanWellFounded
<1>2. R = {p \in Nat \X Nat : p[1] < p[2]}
  BY DEF OpToRel
<1> HIDE DEF R
<1>3. PICK x \in T : \A y \in T : ~ (<<y, x>> \in R)
  BY <1>1, WFMin
<1>4. ASSUME NEW y \in T
      PROVE  x <= y
  <2>1. <<y, x>> \in Nat \X Nat /\ <<y, x>> \notin R
    BY <1>3
  <2>2. ~ (y < x)
    BY <2>1, <1>2
  <2> QED BY <2>2
<1> QED BY <1>4

(* Induction: a set that holds 0 and the next of each of its numbers.       *)
LEMMA Induct ==
    ASSUME NEW S, 0 \in S, \A n \in Nat : n \in S => n + 1 \in S
    PROVE  Nat \subseteq S
<1> SUFFICES ASSUME NEW n \in Nat, n \notin S
             PROVE  FALSE
  OBVIOUS
<1> DEFINE T == {m \in Nat : m \notin S}
<1>1. PICK m \in T : \A y \in T : m <= y
  BY Least
<1>2. m # 0 /\ m - 1 \in Nat /\ m - 1 \notin T
  BY <1>1
<1>3. m - 1 \in S
  BY <1>2
<1>4. (m - 1) + 1 = m
  BY <1>1
<1> QED BY <1>1, <1>2, <1>3, <1>4

(* A bounded set of numbers has a greatest one.                            *)
LEMMA Greatest ==
    ASSUME NEW T \in SUBSET Nat, T # {}, NEW bound \in Nat, \A y \in T : y <= bound
    PROVE  \E x \in T : \A y \in T : y <= x
<1> DEFINE gaps == {bound - y : y \in T}
<1>1. gaps \in SUBSET Nat /\ gaps # {}
  <2>1. \A y \in T : bound - y \in Nat
    OBVIOUS
  <2> QED BY <2>1
<1>2. PICK g \in gaps : \A h \in gaps : g <= h
  BY <1>1, Least
<1>3. PICK x \in T : g = bound - x
  BY <1>2
<1>4. \A y \in T : bound - x <= bound - y
  BY <1>2, <1>3
<1> QED BY <1>4

-----------------------------------------------------------------------------
(* Sequences one after another.                                            *)

(* f puts the first k of them together.                                    *)
Joins(f, seqs, k) == f = [i \in 1 .. k |-> IF i = 1 THEN seqs[i]
                                           ELSE f[i - 1] \o seqs[i]]

LEMMA JoinsUp ==
    ASSUME NEW seqs, NEW k \in Nat, NEW f, Joins(f, seqs, k)
    PROVE  \A i \in 1 .. k : f[i] = IF i = 1 THEN seqs[i] ELSE f[i - 1] \o seqs[i]
BY Zenon DEF Joins

(* The recursive function that puts them together exists.                  *)
LEMMA JoinExists ==
    ASSUME NEW seqs, NEW n \in Nat
    PROVE  \E f : Joins(f, seqs, n)
<1> DEFINE P == {k \in Nat : \E f : Joins(f, seqs, k)}
<1>1. 0 \in P
  <2> DEFINE g == [i \in 1 .. 0 |-> seqs[i]]
  <2>1. g = [i \in 1 .. 0 |-> IF i = 1 THEN seqs[i] ELSE g[i - 1] \o seqs[i]]
    OBVIOUS
  <2> HIDE DEF g
  <2>2. Joins(g, seqs, 0)
    BY <2>1, Zenon DEF Joins
  <2> QED BY <2>2
<1>2. ASSUME NEW k \in Nat, k \in P
      PROVE  k + 1 \in P
  <2>1. PICK f : Joins(f, seqs, k)
    BY <1>2
  <2> DEFINE g == [i \in 1 .. k + 1 |->
                      IF i <= k THEN f[i]
                      ELSE IF i = 1 THEN seqs[i] ELSE f[i - 1] \o seqs[i]]
  <2>2. \A i \in 1 .. k : g[i] = f[i]
    OBVIOUS
  <2>3. \A i \in 1 .. k : f[i] = IF i = 1 THEN seqs[i] ELSE f[i - 1] \o seqs[i]
    BY <2>1, JoinsUp
  <2>4. k + 1 \in 1 .. k + 1 /\ ~(k + 1 <= k)
    OBVIOUS
  <2>5. \A i : i = k + 1 =>
           g[i] = IF i = 1 THEN seqs[i] ELSE f[i - 1] \o seqs[i]
    BY <2>4
  <2>6. g = [i \in 1 .. k + 1 |-> g[i]]
    OBVIOUS
  <2> HIDE DEF g
  <2>7. ASSUME NEW i \in 1 .. k + 1
        PROVE  g[i] = IF i = 1 THEN seqs[i] ELSE g[i - 1] \o seqs[i]
    <3>1. CASE i \in 1 .. k
      <4>1. CASE i = 1
        BY <3>1, <4>1, <2>2, <2>3
      <4>2. CASE i # 1
        <5>1. i - 1 \in 1 .. k
          BY <3>1, <4>2
        <5>2. g[i] = f[i] /\ f[i] = f[i - 1] \o seqs[i] /\ g[i - 1] = f[i - 1]
          BY <3>1, <4>2, <5>1, <2>2, <2>3
        <5> QED BY <5>2, <4>2
      <4> QED BY <4>1, <4>2
    <3>2. CASE i = k + 1
      <4>1. CASE i = 1
        BY <3>2, <4>1, <2>5
      <4>2. CASE i # 1
        <5>1. i - 1 = k /\ i - 1 \in 1 .. k
          BY <3>2, <4>2
        <5>2. g[i - 1] = f[i - 1]
          BY <5>1, <2>2
        <5>3. g[i] = f[i - 1] \o seqs[i]
          <6>1. g[i] = IF i = 1 THEN seqs[i] ELSE f[i - 1] \o seqs[i]
            BY <2>5, <3>2
          <6> QED BY <6>1, <4>2
        <5> QED BY <5>2, <5>3, <4>2
      <4> QED BY <4>1, <4>2
    <3> QED BY <3>1, <3>2
  <2>8. g = [i \in 1 .. k + 1 |-> IF i = 1 THEN seqs[i] ELSE g[i - 1] \o seqs[i]]
    BY <2>6, <2>7, Zenon
  <2>9. Joins(g, seqs, k + 1)
    BY <2>8, Zenon DEF Joins
  <2> QED BY <2>9
<1> HIDE DEF P
<1>3. n \in P
  BY <1>1, <1>2, Induct
<1> QED BY <1>3 DEF P

(* So FlattenSeq is the last of the partial joins.                         *)
LEMMA FlattenJoins ==
    ASSUME NEW seqs, Len(seqs) \in Nat, Len(seqs) # 0
    PROVE  \E f : Joins(f, seqs, Len(seqs)) /\ FlattenSeq(seqs) = f[Len(seqs)]
<1> DEFINE flatten[i \in 1 .. Len(seqs)] ==
              IF i = 1 THEN seqs[i] ELSE flatten[i - 1] \o seqs[i]
<1>1. \E f : f = [i \in 1 .. Len(seqs) |-> IF i = 1 THEN seqs[i]
                                           ELSE f[i - 1] \o seqs[i]]
  BY JoinExists, Zenon DEF Joins
<1>2. flatten = [i \in 1 .. Len(seqs) |-> IF i = 1 THEN seqs[i]
                                           ELSE flatten[i - 1] \o seqs[i]]
  BY <1>1
<1>3. FlattenSeq(seqs) = flatten[Len(seqs)]
  BY DEF FlattenSeq
<1> HIDE DEF flatten
<1>4. Joins(flatten, seqs, Len(seqs))
  BY <1>2, Zenon DEF Joins
<1> QED BY <1>3, <1>4, Zenon

(* off says where each of the first k of them begins in the whole.          *)
Places(off, seqs, k, whole) ==
    /\ \A p \in 1 .. k :
          /\ off[p] \in Nat /\ off[p] + Len(seqs[p]) <= Len(whole)
          /\ \A a \in 1 .. Len(seqs[p]) : whole[off[p] + a] = seqs[p][a]
    /\ \A p, q \in 1 .. k : p < q => off[p] + Len(seqs[p]) <= off[q]
    /\ \A j \in 1 .. Len(whole) :
          \E p \in 1 .. k : \E a \in 1 .. Len(seqs[p]) : j = off[p] + a

(* One more goes to the end.                                               *)
LEMMA PlacesNext ==
    ASSUME NEW X, NEW seqs \in Seq(Seq(X)), NEW k \in Nat, k + 1 <= Len(seqs),
           NEW whole \in Seq(X), NEW off, Places(off, seqs, k, whole),
           off[k + 1] = Len(whole)
    PROVE  /\ whole \o seqs[k + 1] \in Seq(X)
           /\ Places(off, seqs, k + 1, whole \o seqs[k + 1])
<1> DEFINE s == seqs[k + 1]
           more == whole \o s
<1>1. s \in Seq(X) /\ \A p \in 1 .. k : seqs[p] \in Seq(X)
  OBVIOUS
<1>2. /\ more \in Seq(X) /\ Len(more) = Len(whole) + Len(s)
      /\ \A j \in 1 .. Len(whole) : more[j] = whole[j]
      /\ \A a \in 1 .. Len(s) : more[Len(whole) + a] = s[a]
  BY <1>1
<1>3. /\ Len(whole) \in Nat /\ Len(s) \in Nat
      /\ \A p \in 1 .. k : Len(seqs[p]) \in Nat
  BY <1>1
<1> HIDE DEF more
<1>4. ASSUME NEW p \in 1 .. k + 1
      PROVE  /\ off[p] \in Nat /\ off[p] + Len(seqs[p]) <= Len(more)
             /\ \A a \in 1 .. Len(seqs[p]) : more[off[p] + a] = seqs[p][a]
  <2>1. CASE p = k + 1
    <3>1. off[p] = Len(whole) /\ seqs[p] = s
      BY <2>1
    <3> QED BY <3>1, <1>2, <1>3
  <2>2. CASE p \in 1 .. k
    <3>1. /\ off[p] \in Nat /\ off[p] + Len(seqs[p]) <= Len(whole)
          /\ \A a \in 1 .. Len(seqs[p]) : whole[off[p] + a] = seqs[p][a]
      BY <2>2 DEF Places
    <3>2. Len(seqs[p]) \in Nat
      BY <2>2, <1>3
    <3>3. ASSUME NEW a \in 1 .. Len(seqs[p])
          PROVE  more[off[p] + a] = seqs[p][a]
      <4>1. off[p] + a \in 1 .. Len(whole)
        BY <3>1, <3>2, <1>3
      <4> QED BY <4>1, <3>1, <1>2
    <3>4. off[p] + Len(seqs[p]) <= Len(more)
      BY <3>1, <3>2, <1>2, <1>3
    <3> QED BY <3>1, <3>3, <3>4
  <2> QED BY <2>1, <2>2
<1>5. ASSUME NEW p \in 1 .. k + 1, NEW q \in 1 .. k + 1, p < q
      PROVE  off[p] + Len(seqs[p]) <= off[q]
  <2>1. p \in 1 .. k
    BY <1>5
  <2>2. CASE q = k + 1
    BY <2>1, <2>2 DEF Places
  <2>3. CASE q \in 1 .. k
    BY <2>1, <2>3, <1>5 DEF Places
  <2> QED BY <2>2, <2>3
<1>6. ASSUME NEW j \in 1 .. Len(more)
      PROVE  \E p \in 1 .. k + 1 : \E a \in 1 .. Len(seqs[p]) : j = off[p] + a
  <2>1. CASE j \in 1 .. Len(whole)
    <3>1. PICK p \in 1 .. k : \E a \in 1 .. Len(seqs[p]) : j = off[p] + a
      BY <2>1 DEF Places
    <3> QED BY <3>1
  <2>2. CASE j \notin 1 .. Len(whole)
    <3>1. j - Len(whole) \in 1 .. Len(s) /\ j = off[k + 1] + (j - Len(whole))
      BY <2>2, <1>2, <1>3
    <3>2. k + 1 \in 1 .. k + 1
      OBVIOUS
    <3> QED BY <3>1, <3>2
  <2> QED BY <2>1, <2>2
<1>7. Places(off, seqs, k + 1, more)
  BY <1>4, <1>5, <1>6 DEF Places
<1> QED BY <1>2, <1>7 DEF more

(* What FlattenSeq makes: each sequence at a place of its own, in order,     *)
(* and nothing else.                                                       *)
LEMMA FlattenPlaces ==
    ASSUME NEW X, NEW seqs \in Seq(Seq(X))
    PROVE  /\ FlattenSeq(seqs) \in Seq(X)
           /\ \E off : Places(off, seqs, Len(seqs), FlattenSeq(seqs))
<1> DEFINE n == Len(seqs)
<1>0. n \in Nat
  OBVIOUS
<1>1. CASE n = 0
  <2>1. FlattenSeq(seqs) = seqs /\ seqs = << >>
    BY <1>1 DEF FlattenSeq
  <2>2. << >> \in Seq(X) /\ Len(<< >>) = 0
    OBVIOUS
  <2>3. Places(0, seqs, 0, << >>)
    BY <2>2 DEF Places
  <2> QED BY <2>1, <2>2, <2>3
<1>2. CASE n # 0
  <2>1. PICK f : Joins(f, seqs, n) /\ FlattenSeq(seqs) = f[n]
    BY <1>0, <1>2, FlattenJoins
  <2>2. \A i \in 1 .. n : f[i] = IF i = 1 THEN seqs[i] ELSE f[i - 1] \o seqs[i]
    BY <1>0, <2>1, JoinsUp
  <2> DEFINE off == [i \in 1 .. n |-> IF i = 1 THEN 0 ELSE Len(f[i - 1])]
             Q(k) == f[k] \in Seq(X) /\ Places(off, seqs, k, f[k])
             P == {k \in Nat : k + 1 <= n => Q(k + 1)}
  <2>3. \A i \in 1 .. n : off[i] = IF i = 1 THEN 0 ELSE Len(f[i - 1])
    OBVIOUS
  <2> HIDE DEF off
  <2>4. 0 \in P
    <3>1. 1 \in 1 .. n /\ f[1] = seqs[1] /\ off[1] = 0 /\ seqs[1] \in Seq(X)
      BY <1>0, <1>2, <2>2, <2>3
    <3>2. Places(off, seqs, 0, << >>)
      BY DEF Places
    <3>3. << >> \in Seq(X) /\ Len(<< >>) = 0
      OBVIOUS
    <3>4. << >> \o seqs[1] = seqs[1]
      BY <3>1
    <3>5. 0 + 1 <= Len(seqs) /\ 0 \in Nat /\ 0 + 1 = 1
      BY <1>0, <1>2
    <3>6. Places(off, seqs, 0 + 1, << >> \o seqs[0 + 1])
      BY <3>1, <3>2, <3>3, <3>5, PlacesNext
    <3>7. Places(off, seqs, 0 + 1, f[0 + 1]) /\ f[0 + 1] \in Seq(X)
      BY <3>1, <3>4, <3>5, <3>6
    <3>8. Q(0 + 1)
      BY <3>7
    <3> HIDE DEF Q
    <3> QED BY <3>8
  <2>5. ASSUME NEW k \in Nat, k \in P
        PROVE  k + 1 \in P
    <3> SUFFICES ASSUME k + 1 + 1 <= n
                 PROVE  Q(k + 1 + 1)
      <4> HIDE DEF Q
      <4> QED OBVIOUS
    <3>1. f[k + 1] \in Seq(X) /\ Places(off, seqs, k + 1, f[k + 1])
      <4> HIDE DEF Q
      <4>1. Q(k + 1)
        BY <2>5, <1>0
      <4> QED BY <4>1 DEF Q
    <3>2. /\ k + 1 + 1 \in 1 .. n /\ k + 1 + 1 # 1 /\ k + 1 + 1 - 1 = k + 1
          /\ k + 1 \in Nat
      BY <1>0
    <3>3. off[k + 1 + 1] = Len(f[k + 1]) /\ f[k + 1 + 1] = f[k + 1] \o seqs[k + 1 + 1]
      <4>1. \A i \in 1 .. n : i # 1 =>
               off[i] = Len(f[i - 1]) /\ f[i] = f[i - 1] \o seqs[i]
        BY <2>2, <2>3
      <4> DEFINE i == k + 1 + 1
      <4>2. i \in 1 .. n /\ i # 1 /\ i - 1 = k + 1
        BY <3>2
      <4> HIDE DEF i
      <4>3. off[i] = Len(f[i - 1]) /\ f[i] = f[i - 1] \o seqs[i]
        BY <4>1, <4>2
      <4> QED BY <4>2, <4>3 DEF i
    <3>4. /\ f[k + 1] \o seqs[k + 1 + 1] \in Seq(X)
          /\ Places(off, seqs, k + 1 + 1, f[k + 1] \o seqs[k + 1 + 1])
      BY <3>1, <3>2, <3>3, PlacesNext
    <3>5. Q(k + 1 + 1)
      BY <3>3, <3>4, Zenon
    <3> QED BY <3>5
  <2> HIDE DEF P
  <2>6. n - 1 \in P /\ n - 1 + 1 = n
    <3>1. Nat \subseteq P
      BY <2>4, <2>5, Induct
    <3>2. n - 1 \in Nat /\ n - 1 + 1 = n
      BY <1>0, <1>2
    <3> QED BY <3>1, <3>2
  <2>7. Q(n)
    <3> HIDE DEF Q
    <3> QED BY <2>6, <1>0 DEF P
  <2> QED BY <2>1, <2>7
<1> QED BY <1>1, <1>2

-----------------------------------------------------------------------------
(* The erase map.                                                          *)

(* The blocks lie on the part one after the other, and cover it.            *)
LEMMA BlocksFit ==
    /\ Len(Blocks) \in Nat \ {0} /\ DOMAIN Blocks = 1 .. Len(Blocks)
    /\ \A p \in DOMAIN Blocks :
          /\ Blocks[p] \in [address : Nat, size : Nat \ {0}]
          /\ Blocks[p].address + Blocks[p].size <= ChipSize
    /\ \A p, q \in DOMAIN Blocks :
          p < q => Blocks[p].address + Blocks[p].size <= Blocks[q].address
    /\ \A a \in Addr : \E p \in DOMAIN Blocks : a \in BlockRange(Blocks[p])
<1> DEFINE n == Len(Blocks)
           from(p) == Blocks[p].address
           to(p) == Blocks[p].address + Blocks[p].size
<1>1. n \in Nat \ {0} /\ DOMAIN Blocks = 1 .. n
  BY GeometryAssumption DEF ValidGeometry
<1>2. \A p \in 1 .. n : Blocks[p] \in [address : Nat, size : Nat]
  <2>1. \A S : \A s \in Seq(S) : \A p \in 1 .. Len(s) : s[p] \in S
    OBVIOUS
  <2>2. Blocks \in Seq([address : Nat, size : Nat])
    BY GeometryAssumption
  <2> QED BY <2>1, <2>2
<1>3. \A p \in 1 .. n : Blocks[p] \in [address : Nat, size : Nat \ {0}]
  <2>1. \A p \in 1 .. n : Blocks[p].size # 0
    BY <1>1, GeometryAssumption DEF ValidGeometry
  <2>2. \A b \in [address : Nat, size : Nat] :
           b.size # 0 => b \in [address : Nat, size : Nat \ {0}]
    OBVIOUS
  <2> QED BY <2>1, <2>2, <1>2
<1>4. \A p \in 1 .. n : to(p) = IF p = n THEN ChipSize ELSE from(p + 1)
  BY <1>1, GeometryAssumption DEF ValidGeometry
<1>5. from(1) = 0 /\ ChipSize \in Nat
  BY GeometryAssumption, ChipAssumption DEF ValidGeometry
<1>6. \A p \in 1 .. n : from(p) \in Nat /\ to(p) \in Nat /\ from(p) < to(p)
  BY <1>3
<1> HIDE DEF from, to, n
<1>7. ASSUME NEW p \in 1 .. n
      PROVE  \A d \in Nat : p + d + 1 <= n => to(p) <= from(p + d + 1)
  <2> DEFINE S == {d \in Nat : p + d + 1 <= n => to(p) <= from(p + d + 1)}
  <2>1. 0 \in S
    <3>1. ASSUME p + 1 <= n
          PROVE  to(p) <= from(p + 1)
      <4>1. p # n /\ p + 1 \in 1 .. n
        BY <3>1, <1>1
      <4> QED BY <4>1, <1>4, <1>6
    <3> QED BY <3>1
  <2>2. ASSUME NEW d \in Nat, d \in S
        PROVE  d + 1 \in S
    <3>1. ASSUME p + (d + 1) + 1 <= n
          PROVE  to(p) <= from(p + (d + 1) + 1)
      <4> DEFINE q == p + d + 1
      <4>1. q \in 1 .. n /\ q # n /\ q + 1 \in 1 .. n /\ q + 1 = p + (d + 1) + 1
        BY <3>1, <1>1
      <4>2. to(p) <= from(q)
        BY <2>2, <4>1, <1>1
      <4> HIDE DEF q
      <4>3. to(q) = from(q + 1) /\ from(q) < to(q)
        BY <4>1, <1>4, <1>6
      <4>4. to(p) <= from(q + 1)
        BY <4>1, <4>2, <4>3, <1>6
      <4> QED BY <4>1, <4>4
    <3> QED BY <3>1
  <2> HIDE DEF S
  <2>3. Nat \subseteq S
    BY <2>1, <2>2, Induct
  <2> QED BY <2>3 DEF S
<1>8. ASSUME NEW p \in 1 .. n, NEW q \in 1 .. n, p < q
      PROVE  to(p) <= from(q)
  <2>1. q - p - 1 \in Nat /\ p + (q - p - 1) + 1 = q
    BY <1>1, <1>8
  <2>2. p + (q - p - 1) + 1 <= n
    BY <2>1, <1>1
  <2>3. to(p) <= from(p + (q - p - 1) + 1)
    BY <1>7, <2>1, <2>2
  <2> QED BY <2>1, <2>3
<1>9. ASSUME NEW p \in 1 .. n
      PROVE  to(p) <= ChipSize
  <2>1. n \in 1 .. n /\ to(n) = ChipSize
    BY <1>1, <1>4
  <2>2. CASE p = n
    BY <2>1, <2>2, <1>5
  <2>3. CASE p # n
    <3>1. to(p) <= from(n)
      BY <2>1, <2>3, <1>1, <1>8
    <3> QED BY <3>1, <2>1, <1>5, <1>6
  <2> QED BY <2>2, <2>3
<1>10. ASSUME NEW a \in Addr
       PROVE  \E p \in 1 .. n : from(p) <= a /\ a < to(p)
  <2> DEFINE T == {p \in 1 .. n : from(p) <= a}
  <2>1. a \in Nat /\ a < ChipSize
    BY <1>5 DEF Addr
  <2>2. 1 \in T
    BY <2>1, <1>1, <1>5
  <2>3. T \in SUBSET Nat /\ \A y \in T : y <= n
    BY <1>1
  <2>4. PICK p \in T : \A y \in T : y <= p
    BY <2>2, <2>3, <1>1, Greatest
  <2>5. CASE p = n
    BY <2>1, <2>5, <1>1, <1>4, <2>4
  <2>6. CASE p # n
    <3>1. p + 1 \in 1 .. n /\ p + 1 \notin T /\ p \in 1 .. n
      BY <2>4, <2>6, <1>1
    <3>2. to(p) = from(p + 1) /\ ~(from(p + 1) <= a)
      BY <3>1, <2>6, <1>4
    <3>3. a < to(p)
      BY <3>1, <3>2, <2>1, <1>6
    <3> QED BY <3>1, <3>3, <2>4
  <2> QED BY <2>5, <2>6
<1>11. \A a \in Addr : \E p \in 1 .. n : a \in BlockRange(Blocks[p])
  <2> SUFFICES ASSUME NEW a \in Addr
               PROVE  \E p \in 1 .. n : a \in BlockRange(Blocks[p])
    OBVIOUS
  <2>1. PICK p \in 1 .. n : from(p) <= a /\ a < to(p)
    BY <1>10
  <2>2. a \in Nat
    BY <1>5 DEF Addr
  <2>3. Blocks[p].address \in Nat /\ Blocks[p].size \in Nat
    BY <1>2
  <2> QED BY <2>1, <2>2, <2>3 DEF BlockRange, from, to
<1> QED BY <1>1, <1>3, <1>8, <1>9, <1>11 DEF n, from, to

(* Pages come in the order of their bytes.                                 *)
LEMMA PagesRise ==
    ASSUME NEW x \in Nat, NEW y \in Nat, x <= y
    PROVE  PageOf(x) \in Nat /\ PageOf(y) \in Nat /\ PageOf(x) <= PageOf(y)
BY GeometryAssumption DEF PageOf

(* A run of bytes ends where it has to.                                    *)
LEMMA RunEnds ==
    ASSUME NEW needs \in SUBSET Nat, NEW bound \in Nat, \A y \in needs : y <= bound,
           NEW a \in needs
    PROVE  LET e == RunEnd(needs, a)
           IN  /\ e \in needs /\ a <= e /\ PageOf(e) = PageOf(a)
               /\ (a .. e) \subseteq needs
               /\ e + 1 \in needs => PageOf(e + 1) # PageOf(a)
<1> DEFINE T == {e \in needs : a <= e /\ PageOf(e) = PageOf(a) /\ (a .. e) \subseteq needs}
<1>1. T \in SUBSET Nat /\ \A y \in T : y <= bound
  OBVIOUS
<1>2. a \in T
  OBVIOUS
<1>3. PICK e \in T : \A y \in T : y <= e
  BY <1>1, <1>2, Greatest
<1>4. ASSUME e + 1 \in needs, PageOf(e + 1) = PageOf(a)
      PROVE  FALSE
  <2>1. a <= e + 1 /\ (a .. (e + 1)) \subseteq needs
    BY <1>3, <1>4
  <2>2. e + 1 \in T
    BY <2>1, <1>4
  <2>3. e + 1 <= e
    BY <2>2, <1>3
  <2> QED BY <2>3, <1>3
<1>5. /\ e \in needs /\ a <= e /\ PageOf(e) = PageOf(a)
      /\ (a .. e) \subseteq needs
      /\ e + 1 \in needs => PageOf(e + 1) # PageOf(a)
  BY <1>3, <1>4
<1> HIDE DEF T
<1> QED BY <1>5 DEF RunEnd

-----------------------------------------------------------------------------
(* Program runs.                                                           *)

(* A block of the erase map.                                               *)
Block == {b \in [address : Nat, size : Nat \ {0}] : b.address + b.size <= ChipSize}

(* The program step of the run that starts at a.                           *)
RunAt(needs, desired, a) ==
    [kind |-> "program", address |-> a, length |-> RunEnd(needs, a) - a + 1,
     data |-> desired]

(* It programs needed bytes only, all in one page.                         *)
LEMMA RunShape ==
    ASSUME NEW block \in Block, NEW needs \in SUBSET BlockRange(block),
           NEW desired \in Image, NEW a \in needs
    PROVE  LET s == RunAt(needs, desired, a)
           IN  /\ s \in Step /\ s.kind = "program" /\ s.data = desired
               /\ a \in StepRange(s) /\ StepRange(s) \subseteq needs
               /\ s.address + s.length <= ChipSize
               /\ PageOf(s.address) = PageOf(s.address + s.length - 1)
<1> DEFINE bound == block.address + block.size
           e == RunEnd(needs, a)
<1>1. block.address \in Nat /\ block.size \in Nat /\ bound <= ChipSize
  BY DEF Block
<1>2. ChipSize \in Nat
  BY ChipAssumption
<1>3. needs \in SUBSET Nat /\ \A y \in needs : y < bound
  BY <1>1 DEF BlockRange
<1>4. bound \in Nat /\ \A y \in needs : y <= bound
  BY <1>1, <1>3
<1>5. /\ e \in needs /\ a <= e /\ PageOf(e) = PageOf(a) /\ (a .. e) \subseteq needs
  BY <1>3, <1>4, RunEnds
<1>6. a \in Nat /\ e \in Nat /\ e < bound
  BY <1>3, <1>5
<1> HIDE DEF e
<1> DEFINE s == [kind |-> "program", address |-> a, length |-> e - a + 1,
                 data |-> desired]
<1>7. a + (e - a + 1) - 1 = e /\ a + (e - a + 1) <= ChipSize
  BY <1>1, <1>2, <1>5, <1>6
<1>8. a \in Addr /\ e - a + 1 \in 1 .. ChipSize
  BY <1>1, <1>2, <1>5, <1>6 DEF Addr
<1>9. s \in Step
  BY <1>8 DEF Step
<1>10. StepRange(s) = a .. e
  BY <1>6, <1>7 DEF StepRange
<1>11. a \in a .. e
  BY <1>5, <1>6
<1>12. PageOf(s.address) = PageOf(s.address + s.length - 1)
  BY <1>5, <1>7
<1>13. s.address + s.length <= ChipSize
  BY <1>7
<1>14. RunAt(needs, desired, a) = s
  BY Zenon DEF RunAt, e
<1>15. s.kind = "program" /\ s.data = desired
  OBVIOUS
<1>16. a \in StepRange(s) /\ StepRange(s) \subseteq needs
  BY <1>5, <1>10, <1>11
<1> HIDE DEF s
<1> QED BY <1>9, <1>12, <1>13, <1>14, <1>15, <1>16, Zenon

(* A sequence of one.                                                      *)
LEMMA Single ==
    ASSUME NEW X, NEW x \in X
    PROVE  <<x>> \in Seq(X) /\ Len(<<x>>) = 1 /\ <<x>>[1] = x /\ << >> \in Seq(X)
OBVIOUS

(* One sequence after another.                                             *)
LEMMA Joined ==
    ASSUME NEW X, NEW s \in Seq(X), NEW t \in Seq(X), NEW w, w = s \o t
    PROVE  /\ w \in Seq(X) /\ Len(w) = Len(s) + Len(t)
           /\ \A a \in 1 .. Len(s) : w[a] = s[a]
           /\ \A a \in 1 .. Len(t) : w[Len(s) + a] = t[a]
OBVIOUS

(* A function on the first numbers is a sequence.                          *)
LEMMA Listed ==
    ASSUME NEW X, NEW n \in Nat, NEW f, f = [i \in 1 .. n |-> f[i]],
           \A i \in 1 .. n : f[i] \in X
    PROVE  f \in Seq(X) /\ Len(f) = n /\ DOMAIN f = 1 .. n
<1>1. f \in [1 .. n -> X]
  OBVIOUS
<1> QED BY <1>1

(* A sequence of sequences of one step or none.                            *)
RunsFrom(block, needs, desired) ==
    [i \in 1 .. block.size |->
        LET a == block.address + i - 1
        IN  IF RunStarts(block, needs, a) THEN <<RunAt(needs, desired, a)>>
            ELSE << >>]

(* ProgramRuns has the runs that start in the block, and no other step.     *)
LEMMA RunsMade ==
    ASSUME NEW block \in Block, NEW needs \in SUBSET BlockRange(block),
           NEW desired \in Image
    PROVE  LET runs == ProgramRuns(block, needs, desired)
           IN  /\ runs \in Seq(Step)
               /\ \A j \in DOMAIN runs : \E a \in needs :
                     RunStarts(block, needs, a) /\ runs[j] = RunAt(needs, desired, a)
               /\ \A a \in needs : RunStarts(block, needs, a) =>
                     \E j \in DOMAIN runs : runs[j] = RunAt(needs, desired, a)
               /\ \A i, j \in DOMAIN runs : runs[i].address = runs[j].address => i = j
<1> DEFINE seqs == RunsFrom(block, needs, desired)
           runs == FlattenSeq(seqs)
           at(i) == block.address + i - 1
<1>1. block.address \in Nat /\ block.size \in Nat
  BY DEF Block
<1>2. \A i \in 1 .. block.size :
         seqs[i] = IF RunStarts(block, needs, at(i))
                   THEN <<RunAt(needs, desired, at(i))>> ELSE << >>
  BY DEF RunsFrom
<1>3. ASSUME NEW i \in 1 .. block.size
      PROVE  seqs[i] \in Seq(Step)
  <2>1. CASE RunStarts(block, needs, at(i))
    <3>1. RunAt(needs, desired, at(i)) \in Step
      BY <2>1, RunShape DEF RunStarts
    <3>2. <<RunAt(needs, desired, at(i))>> \in Seq(Step)
      BY <3>1, Single, Zenon
    <3>3. seqs[i] = <<RunAt(needs, desired, at(i))>>
      BY <2>1, <1>2, Zenon
    <3> QED BY <3>2, <3>3, Zenon
  <2>2. CASE ~RunStarts(block, needs, at(i))
    <3>1. seqs[i] = << >>
      BY <2>2, <1>2, Zenon
    <3>2. << >> \in Seq(Step)
      OBVIOUS
    <3> QED BY <3>1, <3>2, Zenon
  <2> QED BY <2>1, <2>2
<1>4. seqs = [i \in 1 .. block.size |-> seqs[i]]
  BY DEF RunsFrom
<1> HIDE DEF seqs
<1>5. seqs \in Seq(Seq(Step)) /\ Len(seqs) = block.size
  BY <1>1, <1>3, <1>4, Listed
<1>6. PICK off : Places(off, seqs, block.size, runs)
  BY <1>5, FlattenPlaces
<1>7. runs \in Seq(Step)
  BY <1>5, FlattenPlaces
<1> HIDE DEF runs
<1>8. ASSUME NEW j \in DOMAIN runs
      PROVE  \E p \in 1 .. block.size :
                /\ at(p) \in needs /\ RunStarts(block, needs, at(p))
                /\ j = off[p] + 1 /\ runs[j] = RunAt(needs, desired, at(p))
  <2>1. j \in 1 .. Len(runs)
    BY <1>7
  <2>2. PICK p \in 1 .. block.size : \E a \in 1 .. Len(seqs[p]) : j = off[p] + a
    BY <1>6, <2>1 DEF Places
  <2>3. PICK a \in 1 .. Len(seqs[p]) : j = off[p] + a
    BY <2>2
  <2>4. runs[j] = seqs[p][a]
    BY <2>3, <1>6 DEF Places
  <2>5. RunStarts(block, needs, at(p))
    <3> SUFFICES ASSUME ~RunStarts(block, needs, at(p))
                 PROVE  FALSE
      OBVIOUS
    <3>1. seqs[p] = << >>
      BY <1>2
    <3> QED BY <3>1, <2>3
  <2>6. seqs[p] = <<RunAt(needs, desired, at(p))>>
    BY <2>5, <1>2
  <2>7. runs[j] = RunAt(needs, desired, at(p)) /\ j = off[p] + 1
    BY <2>3, <2>4, <2>6
  <2>8. at(p) \in needs
    BY <2>5 DEF RunStarts
  <2> QED BY <2>5, <2>7, <2>8
<1>9. ASSUME NEW a \in needs, RunStarts(block, needs, a)
      PROVE  \E j \in DOMAIN runs : runs[j] = RunAt(needs, desired, a)
  <2> DEFINE i == a - block.address + 1
  <2>1. i \in 1 .. block.size /\ at(i) = a
    BY <1>1 DEF BlockRange
  <2> HIDE DEF i
  <2>2. seqs[i] = <<RunAt(needs, desired, a)>>
    BY <2>1, <1>2, <1>9
  <2>3. off[i] \in Nat /\ off[i] + 1 <= Len(runs) /\ runs[off[i] + 1] = seqs[i][1]
    <3>1. Len(seqs[i]) = 1
      BY <2>2
    <3>2. /\ off[i] \in Nat /\ off[i] + Len(seqs[i]) <= Len(runs)
          /\ \A b \in 1 .. Len(seqs[i]) : runs[off[i] + b] = seqs[i][b]
      BY <2>1, <1>6 DEF Places
    <3>3. 1 \in 1 .. Len(seqs[i])
      BY <3>1
    <3> QED BY <3>1, <3>2, <3>3
  <2>4. off[i] + 1 \in DOMAIN runs
    BY <2>3, <1>7
  <2> QED BY <2>2, <2>3, <2>4
<1>10. ProgramRuns(block, needs, desired) = runs
  BY Zenon DEF ProgramRuns, runs, seqs, RunsFrom, RunAt
<1>11. ASSUME NEW i \in DOMAIN runs, NEW j \in DOMAIN runs,
              runs[i].address = runs[j].address
       PROVE  i = j
  <2>1. PICK p \in 1 .. block.size : i = off[p] + 1
                                     /\ runs[i] = RunAt(needs, desired, at(p))
    BY <1>8
  <2>2. PICK q \in 1 .. block.size : j = off[q] + 1
                                     /\ runs[j] = RunAt(needs, desired, at(q))
    BY <1>8
  <2>3. at(p) = at(q)
    BY <2>1, <2>2, <1>11 DEF RunAt
  <2>4. p = q
    BY <2>3, <1>1
  <2> QED BY <2>1, <2>2, <2>4
<1>12. \A j \in DOMAIN runs : \E a \in needs :
          RunStarts(block, needs, a) /\ runs[j] = RunAt(needs, desired, a)
  BY <1>8
<1> HIDE DEF at
<1> QED BY <1>7, <1>9, <1>10, <1>11, <1>12

(* Every needed byte is in a run.                                          *)
LEMMA RunsCover ==
    ASSUME NEW block \in Block, NEW needs \in SUBSET BlockRange(block),
           NEW desired \in Image, NEW x \in needs
    PROVE  \E a \in needs : /\ RunStarts(block, needs, a)
                            /\ x \in StepRange(RunAt(needs, desired, a))
<1>1. block.address \in Nat /\ block.size \in Nat /\ needs \in SUBSET Nat
  BY DEF Block, BlockRange
<1> DEFINE T == {a \in needs : /\ a <= x /\ PageOf(a) = PageOf(x)
                               /\ (a .. x) \subseteq needs}
<1>2. T \in SUBSET Nat /\ x \in T
  <2>1. x \in Nat
    BY <1>1
  <2>2. x <= x /\ (x .. x) \subseteq needs
    BY <2>1
  <2> QED BY <1>1, <2>2
<1>3. PICK a \in T : \A y \in T : a <= y
  BY <1>2, Least
<1>4. a \in needs /\ a \in Nat /\ x \in Nat
  BY <1>1, <1>3
<1>5. RunStarts(block, needs, a)
  <2> SUFFICES ASSUME a - 1 \in needs, PageOf(a - 1) = PageOf(a)
               PROVE  FALSE
    BY <1>4 DEF RunStarts
  <2>1. a - 1 <= x /\ PageOf(a - 1) = PageOf(x)
    BY <1>3, <1>4
  <2>2. ((a - 1) .. x) \subseteq needs
    BY <1>3, <1>4
  <2>3. a - 1 \in T
    BY <2>1, <2>2
  <2> QED BY <2>3, <1>3, <1>4
<1> DEFINE e == RunEnd(needs, a)
           bound == block.address + block.size
<1>6. bound \in Nat /\ \A y \in needs : y <= bound
  BY <1>1 DEF BlockRange
<1>7. /\ e \in needs /\ a <= e /\ PageOf(e) = PageOf(a)
      /\ e + 1 \in needs => PageOf(e + 1) # PageOf(a)
  BY <1>1, <1>4, <1>6, RunEnds
<1> HIDE DEF e
<1>8. x <= e
  <2> SUFFICES ASSUME e < x
               PROVE  FALSE
    BY <1>1, <1>4, <1>7
  <2>1. e \in Nat /\ e + 1 <= x /\ a <= e + 1
    BY <1>1, <1>4, <1>7
  <2>2. e + 1 \in needs
    BY <2>1, <1>3, <1>4
  <2>3. PageOf(a) <= PageOf(e + 1) /\ PageOf(e + 1) <= PageOf(x)
    BY <2>1, <1>4, PagesRise
  <2>4. PageOf(a) \in Nat /\ PageOf(e + 1) \in Nat
    BY <2>1, <1>4, PagesRise
  <2>5. PageOf(e + 1) = PageOf(a)
    BY <2>3, <2>4, <1>3
  <2> QED BY <2>2, <2>5, <1>7
<1>9. e \in Nat /\ a + (e - a + 1) - 1 = e
  BY <1>1, <1>4, <1>7
<1>10. StepRange(RunAt(needs, desired, a)) = a .. e
  BY <1>9 DEF StepRange, RunAt, e
<1>11. a <= x
  BY <1>3
<1> QED BY <1>4, <1>5, <1>8, <1>9, <1>10, <1>11

-----------------------------------------------------------------------------
(* The steps of one block.                                                 *)

Erases(block, current, desired) ==
    \E a \in BlockRange(block) : ByteNeedsErase(current[a], desired[a])
Needed(block, current, desired) ==
    {a \in BlockRange(block) :
        desired[a] # IF Erases(block, current, desired) THEN Erased ELSE current[a]}
Whole(kind, block, desired) ==
    [kind |-> kind, address |-> block.address, length |-> block.size, data |-> desired]

(* A step that covers the block.                                           *)
LEMMA WholeShape ==
    ASSUME NEW block \in Block, NEW desired \in Image,
           NEW kind \in {"erase", "program", "verify"}
    PROVE  LET s == Whole(kind, block, desired)
           IN  /\ s \in Step /\ s.kind = kind /\ s.data = desired
               /\ StepRange(s) = BlockRange(block)
               /\ s.address + s.length <= ChipSize
               /\ s.address = block.address /\ s.length = block.size
<1>1. /\ block.address \in Nat /\ block.size \in Nat /\ block.size # 0
      /\ block.address + block.size <= ChipSize
  BY DEF Block
<1>2. ChipSize \in Nat
  BY ChipAssumption
<1>3. block.address \in Addr /\ block.size \in 1 .. ChipSize
  BY <1>1, <1>2 DEF Addr
<1> QED BY <1>1, <1>3 DEF Whole, Step, StepRange, BlockRange

(* What a step before the last of a block may be.                          *)
WithinBlock(block, desired, s) ==
    /\ Destructive(s) /\ s.data = desired
    /\ StepRange(s) \subseteq BlockRange(block)
    /\ s.address + s.length <= ChipSize
    /\ s.kind = "erase" => s = Whole("erase", block, desired)
    /\ s.kind = "program" => PageOf(s.address) = PageOf(s.address + s.length - 1)

(* One erase first, where one is needed; then every needed byte and no other *)
(* is programmed; the whole block is verified last.                        *)
LEMMA BlockShape ==
    ASSUME NEW block \in Block, NEW current \in Image, NEW desired \in Image
    PROVE  LET steps == BlockSteps(block, current, desired)
               needs == Needed(block, current, desired)
           IN  /\ steps \in Seq(Step) /\ Len(steps) \in Nat \ {0}
               /\ steps[Len(steps)] = Whole("verify", block, desired)
               /\ \A a \in 1 .. Len(steps) - 1 : WithinBlock(block, desired, steps[a])
               /\ \A a \in 1 .. Len(steps) - 1 :
                     IF a = 1 /\ Erases(block, current, desired)
                     THEN steps[a].kind = "erase"
                     ELSE /\ steps[a].kind = "program"
                          /\ StepRange(steps[a]) \subseteq needs
               /\ Erases(block, current, desired) => Len(steps) > 1
               /\ \A x \in needs : \E a \in 1 .. Len(steps) - 1 :
                     steps[a].kind = "program" /\ x \in StepRange(steps[a])
               /\ \A a, b \in 1 .. Len(steps) - 1 :
                     /\ steps[a].kind = steps[b].kind
                     /\ steps[a].address = steps[b].address
                     => a = b
<1> DEFINE needs == Needed(block, current, desired)
           runs  == ProgramRuns(block, needs, desired)
           erase == Whole("erase", block, desired)
           last  == Whole("verify", block, desired)
           first == IF Erases(block, current, desired) THEN <<erase>> ELSE << >>
           most  == first \o runs
           steps == most \o <<last>>
           n     == Len(most)
<1>1. BlockSteps(block, current, desired) = steps
  BY Zenon DEF BlockSteps, Erases, Needed, Whole
<1>2. needs \in SUBSET BlockRange(block)
  BY DEF Needed
<1> HIDE DEF needs
<1>3. erase \in Step /\ last \in Step
  BY WholeShape
<1>4. WithinBlock(block, desired, erase) /\ erase.kind = "erase"
  BY WholeShape, Zenon DEF WithinBlock, Destructive
<1>5. /\ runs \in Seq(Step)
      /\ \A j \in DOMAIN runs : \E a \in needs :
            RunStarts(block, needs, a) /\ runs[j] = RunAt(needs, desired, a)
      /\ \A a \in needs : RunStarts(block, needs, a) =>
            \E j \in DOMAIN runs : runs[j] = RunAt(needs, desired, a)
      /\ \A i, j \in DOMAIN runs : runs[i].address = runs[j].address => i = j
  BY <1>2, RunsMade, Zenon
<1>6. \A j \in DOMAIN runs :
         /\ WithinBlock(block, desired, runs[j]) /\ runs[j].kind = "program"
         /\ StepRange(runs[j]) \subseteq needs
  <2> SUFFICES ASSUME NEW a \in needs, NEW s, s = RunAt(needs, desired, a)
               PROVE  /\ WithinBlock(block, desired, s) /\ s.kind = "program"
                      /\ StepRange(s) \subseteq needs
    BY <1>5
  <2>1. /\ s.kind = "program" /\ s.data = desired
        /\ StepRange(s) \subseteq needs
        /\ s.address + s.length <= ChipSize
        /\ PageOf(s.address) = PageOf(s.address + s.length - 1)
    BY <1>2, RunShape
  <2>2. StepRange(s) \subseteq BlockRange(block)
    BY <2>1, <1>2
  <2> QED BY <2>1, <2>2 DEF WithinBlock, Destructive
<1> HIDE DEF runs, erase, last
<1>7. /\ first \in Seq(Step)
      /\ Len(first) = IF Erases(block, current, desired) THEN 1 ELSE 0
      /\ Erases(block, current, desired) => first[1] = erase
  BY <1>3, Single
<1> HIDE DEF first
<1>8. /\ most \in Seq(Step) /\ n = Len(first) + Len(runs)
      /\ \A a \in 1 .. Len(first) : most[a] = first[a]
      /\ \A a \in 1 .. Len(runs) : most[Len(first) + a] = runs[a]
  <2>1. runs \in Seq(Step) /\ first \in Seq(Step)
    BY <1>5, <1>7
  <2>2. most = first \o runs
    OBVIOUS
  <2> HIDE DEF most
  <2> QED BY <2>1, <2>2, Joined
<1>9. DOMAIN runs = 1 .. Len(runs) /\ Len(runs) \in Nat /\ Len(first) \in Nat /\ n \in Nat
  BY <1>5, <1>7, <1>8
<1> HIDE DEF most
<1>10. /\ steps \in Seq(Step) /\ Len(steps) = n + 1
       /\ \A a \in 1 .. n : steps[a] = most[a]
       /\ steps[n + 1] = last
  <2> DEFINE one == <<last>>
  <2>1. one \in Seq(Step) /\ Len(one) = 1 /\ one[1] = last
    BY <1>3, Single
  <2> HIDE DEF one
  <2>2. steps = most \o one
    BY Zenon DEF one
  <2> HIDE DEF steps
  <2>3. /\ steps \in Seq(Step) /\ Len(steps) = n + Len(one)
        /\ \A a \in 1 .. n : steps[a] = most[a]
        /\ \A a \in 1 .. Len(one) : steps[n + a] = one[a]
    <3>1. most \in Seq(Step) /\ one \in Seq(Step)
      BY <2>1, <1>8
    <3> HIDE DEF n
    <3>2. /\ steps \in Seq(Step) /\ Len(steps) = Len(most) + Len(one)
          /\ \A a \in 1 .. Len(most) : steps[a] = most[a]
          /\ \A a \in 1 .. Len(one) : steps[Len(most) + a] = one[a]
      BY <3>1, <2>2, Joined
    <3> QED BY <3>2 DEF n
  <2>4. 1 \in 1 .. Len(one)
    BY <2>1
  <2> QED BY <2>1, <2>3, <2>4
<1> HIDE DEF steps, n
<1>11. ASSUME NEW a \in 1 .. n
       PROVE  /\ WithinBlock(block, desired, steps[a])
              /\ IF a = 1 /\ Erases(block, current, desired)
                 THEN steps[a].kind = "erase"
                 ELSE /\ steps[a].kind = "program"
                      /\ StepRange(steps[a]) \subseteq needs
                      /\ a - Len(first) \in DOMAIN runs
                      /\ steps[a] = runs[a - Len(first)]
  <2>1. CASE a = 1 /\ Erases(block, current, desired)
    <3>1. steps[a] = erase
      BY <2>1, <1>7, <1>8, <1>9, <1>10
    <3> QED BY <3>1, <2>1, <1>4
  <2>2. CASE ~(a = 1 /\ Erases(block, current, desired))
    <3> DEFINE j == a - Len(first)
    <3>1. j \in DOMAIN runs /\ Len(first) + j = a
      <4>1. CASE Erases(block, current, desired)
        <5>1. a # 1 /\ Len(first) = 1
          BY <2>2, <4>1, <1>7
        <5> QED BY <5>1, <1>8, <1>9
      <4>2. CASE ~Erases(block, current, desired)
        <5>1. Len(first) = 0
          BY <4>2, <1>7
        <5> QED BY <5>1, <1>8, <1>9
      <4> QED BY <4>1, <4>2
    <3>0. j = a - Len(first)
      OBVIOUS
    <3> HIDE DEF j
    <3>2. steps[a] = runs[j]
      BY <3>1, <1>8, <1>9, <1>10
    <3>3. /\ WithinBlock(block, desired, runs[j]) /\ runs[j].kind = "program"
          /\ StepRange(runs[j]) \subseteq needs
      BY <3>1, <1>6
    <3> QED BY <3>0, <3>1, <3>2, <3>3, <2>2
  <2> QED BY <2>1, <2>2
<1>12. ASSUME NEW x \in needs
       PROVE  \E a \in 1 .. n : steps[a].kind = "program" /\ x \in StepRange(steps[a])
  <2>1. PICK b \in needs : /\ RunStarts(block, needs, b)
                           /\ x \in StepRange(RunAt(needs, desired, b))
    BY <1>2, RunsCover
  <2>2. PICK j \in DOMAIN runs : runs[j] = RunAt(needs, desired, b)
    BY <2>1, <1>5
  <2>3. Len(first) + j \in 1 .. n /\ steps[Len(first) + j] = runs[j]
    BY <1>8, <1>9, <1>10
  <2> QED BY <2>1, <2>2, <2>3, <1>6
<1>13. Len(steps) \in Nat \ {0} /\ Len(steps) - 1 = n
  BY <1>9, <1>10
<1>14. Erases(block, current, desired) => Len(steps) > 1
  BY <1>7, <1>8, <1>9, <1>10
<1>15. ASSUME NEW a \in 1 .. n, NEW b \in 1 .. n,
              steps[a].kind = steps[b].kind, steps[a].address = steps[b].address
       PROVE  a = b
  <2>1. CASE steps[a].kind = "erase"
    <3>1. a = 1 /\ b = 1
      BY <2>1, <1>11, <1>15
    <3> QED BY <3>1
  <2>2. CASE steps[a].kind # "erase"
    <3>1. /\ a - Len(first) \in DOMAIN runs /\ steps[a] = runs[a - Len(first)]
          /\ b - Len(first) \in DOMAIN runs /\ steps[b] = runs[b - Len(first)]
      BY <2>2, <1>11, <1>15
    <3>2. a - Len(first) = b - Len(first)
      BY <3>1, <1>5, <1>15
    <3> QED BY <3>2, <1>9
  <2> QED BY <2>1, <2>2
<1>16. \A a \in 1 .. n :
          /\ WithinBlock(block, desired, steps[a])
          /\ IF a = 1 /\ Erases(block, current, desired)
             THEN steps[a].kind = "erase"
             ELSE /\ steps[a].kind = "program"
                  /\ StepRange(steps[a]) \subseteq needs
  BY <1>11
<1>17. \A a, b \in 1 .. n :
          steps[a].kind = steps[b].kind /\ steps[a].address = steps[b].address => a = b
  BY <1>15
<1> QED BY <1>1, <1>10, <1>12, <1>13, <1>14, <1>16, <1>17 DEF needs, last

-----------------------------------------------------------------------------
(* The plan.                                                               *)

LEMMA OverlayShape ==
    ASSUME NEW current \in Image, NEW patch \in Image, NEW address \in Nat,
           NEW length \in Nat
    PROVE  LET desired == Overlay(current, patch, address, length)
           IN  /\ desired \in Image
               /\ \A a \in Addr : a \notin address .. (address + length - 1) =>
                     desired[a] = current[a]
BY DEF Overlay, Image

(* The steps of the blocks that are touched, block after block.             *)
LEMMA PlanPlaces ==
    ASSUME NEW current \in Image, NEW desired \in Image, NEW address \in Nat,
           NEW length \in Nat
    PROVE  LET seqs == PerBlock(current, desired, address, length)
           IN  /\ FlattenSeq(seqs) \in Seq(Step)
               /\ \A p \in DOMAIN Blocks : Blocks[p] \in Block
               /\ \A p \in DOMAIN Blocks :
                     seqs[p] = IF Touches(Blocks[p], address, length)
                               THEN BlockSteps(Blocks[p], current, desired)
                               ELSE << >>
               /\ \E off : Places(off, seqs, Len(Blocks), FlattenSeq(seqs))
<1> DEFINE seqs == PerBlock(current, desired, address, length)
<1>1. Len(Blocks) \in Nat /\ DOMAIN Blocks = 1 .. Len(Blocks)
  BY BlocksFit
<1>2. \A p \in DOMAIN Blocks : Blocks[p] \in Block
  BY BlocksFit DEF Block
<1>3. \A p \in DOMAIN Blocks :
         seqs[p] = IF Touches(Blocks[p], address, length)
                   THEN BlockSteps(Blocks[p], current, desired) ELSE << >>
  BY DEF PerBlock
<1>4. \A p \in DOMAIN Blocks : seqs[p] \in Seq(Step)
  <2> SUFFICES ASSUME NEW p \in DOMAIN Blocks
               PROVE  seqs[p] \in Seq(Step)
    OBVIOUS
  <2>1. BlockSteps(Blocks[p], current, desired) \in Seq(Step)
    BY <1>2, BlockShape
  <2>2. << >> \in Seq(Step)
    OBVIOUS
  <2> QED BY <2>1, <2>2, <1>3, Zenon
<1>5. seqs = [p \in 1 .. Len(Blocks) |-> seqs[p]]
  BY <1>1 DEF PerBlock
<1> HIDE DEF seqs
<1>6. seqs \in Seq(Seq(Step)) /\ Len(seqs) = Len(Blocks)
  BY <1>1, <1>4, <1>5, Listed
<1>7. FlattenSeq(seqs) \in Seq(Step)
  BY <1>6, FlattenPlaces
<1>8. \E off : Places(off, seqs, Len(Blocks), FlattenSeq(seqs))
  BY <1>6, FlattenPlaces
<1> QED BY <1>2, <1>3, <1>7, <1>8, Zenon DEF seqs

(* A step at the place of one that is in block p.                          *)
At(off, seqs, j, p, a) ==
    p \in DOMAIN Blocks /\ a \in 1 .. Len(seqs[p]) /\ j = off[p] + a

(* The step a of block p, where a is its last or not.                      *)
OfBlock(s, desired, p, a, n) ==
    IF a = n THEN s = Whole("verify", Blocks[p], desired)
             ELSE WithinBlock(Blocks[p], desired, s)

(* Every step of a plan has a block and a number in it, and the steps come   *)
(* in the order of the blocks; every touched block has its steps in it.     *)
Origins(off, seqs, steps, current, desired, address, length) ==
    /\ \A j \in DOMAIN steps : \E p, a : At(off, seqs, j, p, a)
    /\ \A j, p, a : At(off, seqs, j, p, a) =>
          /\ j \in DOMAIN steps /\ steps[j] \in Step
          /\ steps[j] = seqs[p][a]
          /\ Touches(Blocks[p], address, length)
          /\ seqs[p] = BlockSteps(Blocks[p], current, desired)
          /\ OfBlock(steps[j], desired, p, a, Len(seqs[p]))
    /\ \A i, j, p, q, a, b :
          At(off, seqs, i, p, a) /\ At(off, seqs, j, q, b) =>
             (i < j <=> p < q \/ (p = q /\ a < b))
    /\ \A p \in DOMAIN Blocks : Touches(Blocks[p], address, length) =>
          /\ Len(seqs[p]) \in Nat \ {0}
          /\ seqs[p] = BlockSteps(Blocks[p], current, desired)
          /\ \A a \in 1 .. Len(seqs[p]) : At(off, seqs, off[p] + a, p, a)

LEMMA PlanOrigins ==
    ASSUME NEW current \in Image, NEW desired \in Image, NEW address \in Nat,
           NEW length \in Nat, NEW seqs, NEW steps,
           seqs = PerBlock(current, desired, address, length),
           steps = FlattenSeq(seqs)
    PROVE  /\ steps \in Seq(Step)
           /\ \E off : Origins(off, seqs, steps, current, desired, address, length)
<1> DEFINE n == Len(Blocks)
<1>1. n \in Nat /\ DOMAIN Blocks = 1 .. n
  BY BlocksFit
<1>2. steps \in Seq(Step)
  BY PlanPlaces
<1>3. \A p \in 1 .. n : Blocks[p] \in Block
  BY <1>1, PlanPlaces
<1>4. \A p \in 1 .. n : seqs[p] = IF Touches(Blocks[p], address, length)
                                  THEN BlockSteps(Blocks[p], current, desired)
                                  ELSE << >>
  BY <1>1, PlanPlaces
<1>5. PICK off : Places(off, seqs, n, steps)
  BY PlanPlaces
<1> HIDE DEF n
<1>6. DOMAIN steps = 1 .. Len(steps) /\ Len(steps) \in Nat
  BY <1>2
<1>7. ASSUME NEW p \in 1 .. n
      PROVE  Len(seqs[p]) \in Nat
  <2>1. CASE Touches(Blocks[p], address, length)
    BY <2>1, <1>3, <1>4, BlockShape
  <2>2. CASE ~Touches(Blocks[p], address, length)
    BY <2>2, <1>4
  <2> QED BY <2>1, <2>2
<1>8. \A p \in 1 .. n :
         /\ off[p] \in Nat /\ off[p] + Len(seqs[p]) <= Len(steps)
         /\ \A a \in 1 .. Len(seqs[p]) : steps[off[p] + a] = seqs[p][a]
  BY <1>5 DEF Places
<1>9. \A j \in DOMAIN steps : \E p, a : At(off, seqs, j, p, a)
  <2> SUFFICES ASSUME NEW j \in 1 .. Len(steps)
               PROVE  \E p, a : At(off, seqs, j, p, a)
    BY <1>6
  <2>1. PICK p \in 1 .. n : \E a \in 1 .. Len(seqs[p]) : j = off[p] + a
    BY <1>5 DEF Places
  <2>2. PICK a \in 1 .. Len(seqs[p]) : j = off[p] + a
    BY <2>1
  <2>3. At(off, seqs, j, p, a)
    BY <2>2, <1>1 DEF At
  <2> QED BY <2>3
<1>10. ASSUME NEW j, NEW p, NEW a, At(off, seqs, j, p, a)
       PROVE  /\ j \in DOMAIN steps /\ steps[j] \in Step
              /\ steps[j] = seqs[p][a]
              /\ Touches(Blocks[p], address, length)
              /\ seqs[p] = BlockSteps(Blocks[p], current, desired)
              /\ OfBlock(steps[j], desired, p, a, Len(seqs[p]))
  <2>1. p \in 1 .. n /\ a \in 1 .. Len(seqs[p]) /\ j = off[p] + a
    BY <1>1, <1>10 DEF At
  <2>2. j \in DOMAIN steps
    BY <2>1, <1>6, <1>7, <1>8
  <2>3. steps[j] \in Step
    BY <2>2, <1>2
  <2>4. steps[j] = seqs[p][a]
    BY <2>1, <1>8
  <2>5. Touches(Blocks[p], address, length)
    <3> SUFFICES ASSUME ~Touches(Blocks[p], address, length)
                 PROVE  FALSE
      OBVIOUS
    <3>1. seqs[p] = << >>
      BY <2>1, <1>4
    <3> QED BY <3>1, <2>1
  <2>6. seqs[p] = BlockSteps(Blocks[p], current, desired)
    BY <2>1, <2>5, <1>4
  <2>7. Blocks[p] \in Block
    BY <2>1, <1>3
  <2>8. /\ seqs[p][Len(seqs[p])] = Whole("verify", Blocks[p], desired)
        /\ \A b \in 1 .. Len(seqs[p]) - 1 : WithinBlock(Blocks[p], desired, seqs[p][b])
    BY <2>6, <2>7, BlockShape
  <2>9. OfBlock(steps[j], desired, p, a, Len(seqs[p]))
    <3>1. CASE a = Len(seqs[p])
      BY <3>1, <2>4, <2>8 DEF OfBlock
    <3>2. CASE a # Len(seqs[p])
      <4>1. a \in 1 .. Len(seqs[p]) - 1
        BY <3>2, <2>1, <1>7
      <4> QED BY <3>2, <4>1, <2>4, <2>8 DEF OfBlock
    <3> QED BY <3>1, <3>2
  <2> QED BY <2>2, <2>3, <2>4, <2>5, <2>6, <2>9
<1>11. ASSUME NEW i, NEW j, NEW p, NEW q, NEW a, NEW b,
              At(off, seqs, i, p, a), At(off, seqs, j, q, b)
       PROVE  i < j <=> p < q \/ (p = q /\ a < b)
  <2>1. /\ p \in 1 .. n /\ a \in 1 .. Len(seqs[p]) /\ i = off[p] + a
        /\ q \in 1 .. n /\ b \in 1 .. Len(seqs[q]) /\ j = off[q] + b
    BY <1>1, <1>11 DEF At
  <2>2. /\ p < q => off[p] + Len(seqs[p]) <= off[q]
        /\ q < p => off[q] + Len(seqs[q]) <= off[p]
    BY <2>1, <1>5 DEF Places
  <2>3. off[p] \in Nat /\ off[q] \in Nat /\ Len(seqs[p]) \in Nat /\ Len(seqs[q]) \in Nat
    BY <2>1, <1>7, <1>8
  <2>4. p \in Nat /\ q \in Nat /\ a \in 1 .. Len(seqs[p]) /\ b \in 1 .. Len(seqs[q])
    BY <2>1, <1>1
  <2>0. \A x, y, l \in Nat : \A c \in 1 .. l, d \in Nat \ {0} :
           x + l <= y => x + c < y + d /\ ~(y + d < x + c)
    OBVIOUS
  <2>5. CASE p = q
    BY <2>1, <2>3, <2>4, <2>5
  <2>6. CASE p < q
    <3>1. off[p] + Len(seqs[p]) <= off[q] /\ ~(q < p) /\ p # q
      BY <2>2, <2>4, <2>6
    <3>2. i < j
      <4>1. b \in Nat \ {0}
        BY <2>3, <2>4
      <4>2. off[p] + a < off[q] + b
        BY <4>1, <2>0, <2>3, <2>4, <3>1
      <4> QED BY <4>2, <2>1
    <3> QED BY <3>2, <2>6
  <2>7. CASE q < p
    <3>1. off[q] + Len(seqs[q]) <= off[p] /\ ~(p < q) /\ p # q
      BY <2>2, <2>4, <2>7
    <3>2. ~(i < j)
      <4>1. a \in Nat \ {0}
        BY <2>3, <2>4
      <4>2. ~(off[p] + a < off[q] + b)
        BY <4>1, <2>0, <2>3, <2>4, <3>1
      <4> QED BY <4>2, <2>1
    <3> QED BY <3>1, <3>2
  <2> QED BY <2>4, <2>5, <2>6, <2>7
<1>12. ASSUME NEW p \in DOMAIN Blocks, Touches(Blocks[p], address, length)
       PROVE  /\ Len(seqs[p]) \in Nat \ {0}
              /\ seqs[p] = BlockSteps(Blocks[p], current, desired)
              /\ \A a \in 1 .. Len(seqs[p]) : At(off, seqs, off[p] + a, p, a)
  <2>1. Len(seqs[p]) \in Nat \ {0}
    BY <1>1, <1>3, <1>4, <1>12, BlockShape
  <2>2. seqs[p] = BlockSteps(Blocks[p], current, desired)
    BY <1>1, <1>4, <1>12
  <2> QED BY <2>1, <2>2 DEF At
<1>13. Origins(off, seqs, steps, current, desired, address, length)
  <2>1. \A j, p, a : At(off, seqs, j, p, a) =>
          /\ j \in DOMAIN steps /\ steps[j] \in Step
          /\ steps[j] = seqs[p][a]
          /\ Touches(Blocks[p], address, length)
          /\ seqs[p] = BlockSteps(Blocks[p], current, desired)
          /\ OfBlock(steps[j], desired, p, a, Len(seqs[p]))
    BY <1>10, Zenon
  <2>2. \A i, j, p, q, a, b :
          At(off, seqs, i, p, a) /\ At(off, seqs, j, q, b) =>
             (i < j <=> p < q \/ (p = q /\ a < b))
    BY <1>11
  <2>3. \A p \in DOMAIN Blocks : Touches(Blocks[p], address, length) =>
          /\ Len(seqs[p]) \in Nat \ {0}
          /\ seqs[p] = BlockSteps(Blocks[p], current, desired)
          /\ \A a \in 1 .. Len(seqs[p]) : At(off, seqs, off[p] + a, p, a)
    BY <1>12, Zenon
  <2> QED BY <1>9, <2>1, <2>2, <2>3, Zenon DEF Origins
<1> QED BY <1>2, <1>13, Zenon

(* Bytes of two blocks differ.                                             *)
LEMMA BlocksApart ==
    ASSUME NEW p \in DOMAIN Blocks, NEW q \in DOMAIN Blocks,
           NEW x \in BlockRange(Blocks[p]), x \in BlockRange(Blocks[q])
    PROVE  p = q
<1>1. p \in Nat /\ q \in Nat
  BY BlocksFit
<1>2. /\ Blocks[p].address \in Nat /\ Blocks[p].size \in Nat
      /\ Blocks[q].address \in Nat /\ Blocks[q].size \in Nat
  BY BlocksFit
<1>3. CASE p < q
  <2>1. Blocks[p].address + Blocks[p].size <= Blocks[q].address
    BY <1>3, BlocksFit
  <2> QED BY <2>1, <1>2 DEF BlockRange
<1>4. CASE q < p
  <2>1. Blocks[q].address + Blocks[q].size <= Blocks[p].address
    BY <1>4, BlocksFit
  <2> QED BY <2>1, <1>2 DEF BlockRange
<1> QED BY <1>1, <1>3, <1>4

(* A step of a block stays in it.                                          *)
LEMMA OfBlockShape ==
    ASSUME NEW p \in DOMAIN Blocks, NEW desired \in Image, NEW s, NEW a, NEW n,
           OfBlock(s, desired, p, a, n)
    PROVE  /\ s.data = desired /\ StepRange(s) \subseteq BlockRange(Blocks[p])
           /\ s.address + s.length <= ChipSize
           /\ s.kind = "erase" => s.address = Blocks[p].address
                                  /\ s.length = Blocks[p].size
           /\ s.kind = "program" => PageOf(s.address) = PageOf(s.address + s.length - 1)
           /\ s.kind = "verify" <=> a = n
           /\ a = n => StepRange(s) = BlockRange(Blocks[p])
           /\ a # n => Destructive(s)
<1>1. Blocks[p] \in Block
  BY BlocksFit DEF Block
<1>2. CASE a = n
  <2>1. s = Whole("verify", Blocks[p], desired)
    BY <1>2 DEF OfBlock
  <2> QED BY <1>1, <1>2, <2>1, WholeShape
<1>3. CASE a # n
  <2>1. WithinBlock(Blocks[p], desired, s)
    BY <1>3 DEF OfBlock
  <2>2. s.kind = "erase" => s.address = Blocks[p].address /\ s.length = Blocks[p].size
    BY <2>1, <1>1, WholeShape DEF WithinBlock
  <2>3. s.kind # "verify"
    BY <2>1 DEF WithinBlock, Destructive
  <2> QED BY <1>3, <2>1, <2>2, <2>3 DEF WithinBlock
<1> QED BY <1>2, <1>3

(* What the proofs about an executor use of a plan.                         *)
PlanIsSound(steps, current, desired) ==
    /\ steps \in Seq(Step)
    /\ \A j \in DOMAIN steps : steps[j].data = desired
    /\ \A x \in Addr :
          \/ \E j \in DOMAIN steps :
                steps[j].kind = "verify" /\ x \in StepRange(steps[j])
          \/ /\ desired[x] = current[x]
             /\ \A j \in DOMAIN steps : x \notin StepRange(steps[j])
    /\ \A i, j \in DOMAIN steps : i < j /\ steps[i].kind = "verify" =>
          StepRange(steps[i]) \cap StepRange(steps[j]) = {}
    /\ \A i \in DOMAIN steps : Destructive(steps[i]) =>
          \E j \in DOMAIN steps :
             /\ j > i /\ steps[j].kind = "verify"
             /\ StepRange(steps[i]) \subseteq StepRange(steps[j])

LEMMA PlanSound ==
    ASSUME NEW current \in Image, NEW patch \in Image, NEW address \in Nat,
           NEW length \in Nat
    PROVE  PlanIsSound(DifferentialPlan(current, patch, address, length).steps,
                       current, Overlay(current, patch, address, length))
<1> DEFINE desired == Overlay(current, patch, address, length)
           plan == DifferentialPlan(current, patch, address, length)
           seqs == PerBlock(current, desired, address, length)
           steps == FlattenSeq(seqs)
<1>1. /\ desired \in Image
      /\ \A a \in Addr : a \notin address .. (address + length - 1) =>
            desired[a] = current[a]
  BY OverlayShape
<1>2. CASE length = 0
  <2>1. plan.steps = << >>
    BY <1>2 DEF DifferentialPlan
  <2>2. \A a \in Addr : a \notin address .. (address + length - 1)
    BY <1>2 DEF Addr
  <2>3. << >> \in Seq(Step) /\ DOMAIN << >> = {}
    OBVIOUS
  <2> HIDE DEF desired, plan
  <2> QED BY <1>1, <2>1, <2>2, <2>3 DEF PlanIsSound, desired, plan
<1>3. CASE length # 0
  <2>1. plan.steps = steps
    BY <1>3 DEF DifferentialPlan
  <2> HIDE DEF plan, desired, steps, seqs
  <2>2. seqs = PerBlock(current, desired, address, length) /\ steps = FlattenSeq(seqs)
    BY Zenon DEF seqs, steps
  <2>3. steps \in Seq(Step)
    BY <1>1, <2>2, PlanOrigins
  <2>4. PICK off : Origins(off, seqs, steps, current, desired, address, length)
    BY <1>1, <2>2, PlanOrigins
  <2>5. \A j, p, a : At(off, seqs, j, p, a) =>
           /\ p \in DOMAIN Blocks /\ j \in DOMAIN steps
           /\ Touches(Blocks[p], address, length)
           /\ OfBlock(steps[j], desired, p, a, Len(seqs[p]))
    BY <2>4, Zenon DEF Origins, At
  <2>6. \A j \in DOMAIN steps : \E p, a : At(off, seqs, j, p, a)
    BY <2>4, Zenon DEF Origins
  <2>7. \A i, j, p, q, a, b :
           At(off, seqs, i, p, a) /\ At(off, seqs, j, q, b) =>
              (i < j <=> p < q \/ (p = q /\ a < b))
    BY <2>4, Zenon DEF Origins
  <2>8. \A p \in DOMAIN Blocks : Touches(Blocks[p], address, length) =>
           /\ Len(seqs[p]) \in Nat \ {0}
           /\ \A a \in 1 .. Len(seqs[p]) : At(off, seqs, off[p] + a, p, a)
    BY <2>4, Zenon DEF Origins
  <2>9. ASSUME NEW j \in DOMAIN steps
        PROVE  steps[j].data = desired
    <3>1. PICK p, a : At(off, seqs, j, p, a)
      BY <2>6
    <3> QED BY <3>1, <2>5, <1>1, OfBlockShape
  <2>10. ASSUME NEW p \in DOMAIN Blocks, Touches(Blocks[p], address, length)
         PROVE  \E j \in DOMAIN steps : /\ At(off, seqs, j, p, Len(seqs[p]))
                                        /\ steps[j].kind = "verify"
                                        /\ StepRange(steps[j]) = BlockRange(Blocks[p])
    <3> DEFINE n == Len(seqs[p])
               j == off[p] + n
    <3>1. n \in 1 .. n
      BY <2>8, <2>10
    <3>2. At(off, seqs, j, p, n)
      BY <2>8, <2>10, <3>1, Zenon
    <3> HIDE DEF j
    <3> QED BY <3>2, <2>5, <1>1, OfBlockShape
  <2>11. ASSUME NEW x \in Addr
         PROVE  \/ \E j \in DOMAIN steps :
                      steps[j].kind = "verify" /\ x \in StepRange(steps[j])
                \/ /\ desired[x] = current[x]
                   /\ \A j \in DOMAIN steps : x \notin StepRange(steps[j])
    <3>1. PICK p \in DOMAIN Blocks : x \in BlockRange(Blocks[p])
      BY BlocksFit
    <3>2. CASE Touches(Blocks[p], address, length)
      BY <3>1, <3>2, <2>10
    <3>3. CASE ~Touches(Blocks[p], address, length)
      <4>1. x \notin address .. (address + length - 1)
        <5>1. Blocks[p].address \in Nat /\ Blocks[p].size \in Nat
          BY BlocksFit
        <5> QED BY <5>1, <3>1, <3>3 DEF Touches, BlockRange
      <4>2. ASSUME NEW j \in DOMAIN steps, x \in StepRange(steps[j])
            PROVE  FALSE
        <5>1. PICK q, a : At(off, seqs, j, q, a)
          BY <2>6
        <5>2. q \in DOMAIN Blocks /\ Touches(Blocks[q], address, length)
          BY <5>1, <2>5
        <5>3. x \in BlockRange(Blocks[q])
          BY <4>2, <5>1, <5>2, <2>5, <1>1, OfBlockShape
        <5>4. p = q
          BY <3>1, <5>2, <5>3, BlocksApart
        <5> QED BY <5>2, <5>4, <3>3
      <4> QED BY <4>1, <4>2, <1>1
    <3> QED BY <3>2, <3>3
  <2>12. ASSUME NEW i \in DOMAIN steps, NEW j \in DOMAIN steps, i < j,
                steps[i].kind = "verify"
         PROVE  StepRange(steps[i]) \cap StepRange(steps[j]) = {}
    <3>1. PICK p, a : At(off, seqs, i, p, a)
      BY <2>6
    <3>2. PICK q, b : At(off, seqs, j, q, b)
      BY <2>6
    <3>3. p < q \/ (p = q /\ a < b)
      BY <3>1, <3>2, <2>7, <2>12
    <3>4. /\ p \in DOMAIN Blocks /\ OfBlock(steps[i], desired, p, a, Len(seqs[p]))
          /\ q \in DOMAIN Blocks /\ OfBlock(steps[j], desired, q, b, Len(seqs[q]))
      BY <3>1, <3>2, <2>5
    <3>5. a = Len(seqs[p])
      BY <3>4, <2>12, <1>1, OfBlockShape
    <3>6. b \in 1 .. Len(seqs[q]) /\ Len(seqs[q]) \in Nat
      BY <3>2, <2>5, <2>8 DEF At
    <3>7. p # q
      <4> SUFFICES ASSUME p = q PROVE FALSE
        OBVIOUS
      <4>1. p \in Nat
        BY <3>4, BlocksFit
      <4>2. a < b
        BY <3>3, <4>1
      <4> QED BY <4>2, <3>5, <3>6
    <3>8. /\ StepRange(steps[i]) \subseteq BlockRange(Blocks[p])
          /\ StepRange(steps[j]) \subseteq BlockRange(Blocks[q])
      BY <3>4, <1>1, OfBlockShape
    <3> QED BY <3>4, <3>7, <3>8, BlocksApart
  <2>13. ASSUME NEW i \in DOMAIN steps, Destructive(steps[i])
         PROVE  \E j \in DOMAIN steps :
                   /\ j > i /\ steps[j].kind = "verify"
                   /\ StepRange(steps[i]) \subseteq StepRange(steps[j])
    <3>1. PICK p, a : At(off, seqs, i, p, a)
      BY <2>6
    <3>2. /\ p \in DOMAIN Blocks /\ OfBlock(steps[i], desired, p, a, Len(seqs[p]))
          /\ Touches(Blocks[p], address, length)
      BY <3>1, <2>5
    <3>3. PICK j \in DOMAIN steps : /\ At(off, seqs, j, p, Len(seqs[p]))
                                    /\ steps[j].kind = "verify"
                                    /\ StepRange(steps[j]) = BlockRange(Blocks[p])
      BY <3>2, <2>10
    <3>4. /\ a # Len(seqs[p]) /\ StepRange(steps[i]) \subseteq BlockRange(Blocks[p])
      BY <3>2, <2>13, <1>1, OfBlockShape DEF Destructive
    <3>5. a < Len(seqs[p])
      BY <3>1, <3>2, <3>4, <2>8 DEF At
    <3>6. i < j
      BY <3>1, <3>3, <3>5, <2>7
    <3>7. j > i
      BY <3>6, <2>3
    <3> QED BY <3>3, <3>4, <3>7
  <2>14. PlanIsSound(steps, current, desired)
    BY <2>3, <2>9, <2>11, <2>12, <2>13 DEF PlanIsSound
  <2> QED BY <2>1, <2>14 DEF plan, desired
<1> QED BY <1>2, <1>3

(* What the proof about a resumption uses of a plan: no unit is in it twice,  *)
(* no erase comes after a unit of its block, a byte that is programmed but   *)
(* not erased only loses bits, one that is erased and not programmed is to  *)
(* be erased, and one that is neither is right already.                    *)
UnitsAreSound(steps, current, desired) ==
    /\ \A i, j \in DOMAIN steps :
          /\ Destructive(steps[i])
          /\ steps[i].kind = steps[j].kind /\ steps[i].address = steps[j].address
          => i = j
    /\ \A i, j \in DOMAIN steps :
          i < j /\ Destructive(steps[i]) /\ steps[j].kind = "erase" =>
             StepRange(steps[i]) \cap StepRange(steps[j]) = {}
    /\ \A i \in DOMAIN steps : \A x \in StepRange(steps[i]) :
          /\ steps[i].kind = "program" =>
                \/ current[x] \subseteq desired[x]
                \/ \E j \in DOMAIN steps :
                      steps[j].kind = "erase" /\ x \in StepRange(steps[j])
          /\ steps[i].kind = "erase" =>
                \/ desired[x] = Erased
                \/ \E j \in DOMAIN steps :
                      steps[j].kind = "program" /\ x \in StepRange(steps[j])
    /\ \A x \in Addr :
          \/ desired[x] = current[x]
          \/ \E j \in DOMAIN steps : Destructive(steps[j]) /\ x \in StepRange(steps[j])

LEMMA UnitsSound ==
    ASSUME NEW current \in Image, NEW patch \in Image, NEW address \in Nat,
           NEW length \in Nat
    PROVE  UnitsAreSound(DifferentialPlan(current, patch, address, length).steps,
                         current, Overlay(current, patch, address, length))
<1> DEFINE desired == Overlay(current, patch, address, length)
           plan == DifferentialPlan(current, patch, address, length)
           seqs == PerBlock(current, desired, address, length)
           steps == FlattenSeq(seqs)
<1>1. /\ desired \in Image
      /\ \A a \in Addr : a \notin address .. (address + length - 1) =>
            desired[a] = current[a]
  BY OverlayShape
<1>2. CASE length = 0
  <2>1. plan.steps = << >>
    BY <1>2 DEF DifferentialPlan
  <2>2. \A a \in Addr : a \notin address .. (address + length - 1)
    BY <1>2 DEF Addr
  <2>3. DOMAIN << >> = {}
    OBVIOUS
  <2> HIDE DEF desired, plan
  <2> QED BY <1>1, <2>1, <2>2, <2>3 DEF UnitsAreSound, desired, plan
<1>3. CASE length # 0
  <2>1. plan.steps = steps
    BY <1>3 DEF DifferentialPlan
  <2> HIDE DEF plan, desired, steps, seqs
  <2>2. seqs = PerBlock(current, desired, address, length) /\ steps = FlattenSeq(seqs)
    BY Zenon DEF seqs, steps
  <2>3. steps \in Seq(Step)
    BY <1>1, <2>2, PlanOrigins
  <2>4. PICK off : Origins(off, seqs, steps, current, desired, address, length)
    BY <1>1, <2>2, PlanOrigins
  <2> DEFINE n(p) == Len(seqs[p])
             needs(p) == Needed(Blocks[p], current, desired)
             erases(p) == Erases(Blocks[p], current, desired)
  <2>5. \A j, p, a : At(off, seqs, j, p, a) =>
           /\ p \in DOMAIN Blocks /\ a \in 1 .. n(p) /\ j = off[p] + a
           /\ j \in DOMAIN steps /\ steps[j] \in Step /\ steps[j] = seqs[p][a]
           /\ Touches(Blocks[p], address, length)
           /\ OfBlock(steps[j], desired, p, a, n(p))
    <3>0. ASSUME NEW j, NEW p, NEW a, At(off, seqs, j, p, a)
          PROVE  steps[j] = seqs[p][a]
      <4> HIDE DEF n, needs, erases
      <4> QED BY <2>4, <3>0 DEF Origins
    <3>4. \A j, p, a : At(off, seqs, j, p, a) => j \in DOMAIN steps
      BY <2>4, Zenon DEF Origins
    <3>1. \A j, p, a : At(off, seqs, j, p, a) =>
             /\ Touches(Blocks[p], address, length)
             /\ OfBlock(steps[j], desired, p, a, n(p))
      BY <2>4, Zenon DEF Origins
    <3>2. \A j, p, a : At(off, seqs, j, p, a) =>
             p \in DOMAIN Blocks /\ a \in 1 .. n(p) /\ j = off[p] + a
      BY DEF At
    <3>3. \A j, p, a : At(off, seqs, j, p, a) => steps[j] \in Step
      BY <2>4, Zenon DEF Origins
    <3> QED BY <3>0, <3>1, <3>2, <3>3, <3>4
  <2>6. \A j \in DOMAIN steps : \E p, a : At(off, seqs, j, p, a)
    BY <2>4, Zenon DEF Origins
  <2>7. \A i, j, p, q, a, b :
           At(off, seqs, i, p, a) /\ At(off, seqs, j, q, b) =>
              (i < j <=> p < q \/ (p = q /\ a < b))
    BY <2>4, Zenon DEF Origins
  <2>8. \A p \in DOMAIN Blocks : Touches(Blocks[p], address, length) =>
           /\ n(p) \in Nat \ {0} /\ seqs[p] = BlockSteps(Blocks[p], current, desired)
           /\ \A a \in 1 .. n(p) : At(off, seqs, off[p] + a, p, a)
    BY <2>4, Zenon DEF Origins
  <2>9. ASSUME NEW p \in DOMAIN Blocks, Touches(Blocks[p], address, length)
        PROVE  /\ \A a \in 1 .. n(p) - 1 :
                     IF a = 1 /\ erases(p)
                     THEN seqs[p][a].kind = "erase"
                     ELSE /\ seqs[p][a].kind = "program"
                          /\ StepRange(seqs[p][a]) \subseteq needs(p)
               /\ erases(p) => n(p) > 1
               /\ \A x \in needs(p) : \E a \in 1 .. n(p) - 1 :
                     seqs[p][a].kind = "program" /\ x \in StepRange(seqs[p][a])
               /\ \A a, b \in 1 .. n(p) - 1 :
                     /\ seqs[p][a].kind = seqs[p][b].kind
                     /\ seqs[p][a].address = seqs[p][b].address
                     => a = b
               /\ \A a \in 1 .. n(p) - 1 :
                     seqs[p][a].kind = "erase" => StepRange(seqs[p][a]) = BlockRange(Blocks[p])
    <3>1. Blocks[p] \in Block
      BY BlocksFit DEF Block
    <3>2. seqs[p] = BlockSteps(Blocks[p], current, desired)
      BY <2>8, <2>9
    <3> DEFINE seq == BlockSteps(Blocks[p], current, desired)
    <3>3. \A a \in 1 .. Len(seq) - 1 : WithinBlock(Blocks[p], desired, seq[a])
      BY <1>1, <3>1, BlockShape, Zenon
    <3>4. ASSUME NEW a \in 1 .. Len(seq) - 1, seq[a].kind = "erase"
          PROVE  StepRange(seq[a]) = BlockRange(Blocks[p])
      <4>1. seq[a] = Whole("erase", Blocks[p], desired)
        BY <3>3, <3>4 DEF WithinBlock
      <4> QED BY <1>1, <3>1, <4>1, WholeShape
    <3>5. /\ \A a \in 1 .. Len(seq) - 1 :
                IF a = 1 /\ erases(p)
                THEN seq[a].kind = "erase"
                ELSE /\ seq[a].kind = "program"
                     /\ StepRange(seq[a]) \subseteq needs(p)
          /\ erases(p) => Len(seq) > 1
      BY <1>1, <3>1, BlockShape, Zenon
    <3>6. \A x \in needs(p) : \E a \in 1 .. Len(seq) - 1 :
             seq[a].kind = "program" /\ x \in StepRange(seq[a])
      BY <1>1, <3>1, BlockShape, Zenon
    <3>7. \A a, b \in 1 .. Len(seq) - 1 :
             seq[a].kind = seq[b].kind /\ seq[a].address = seq[b].address => a = b
      BY <1>1, <3>1, BlockShape, Zenon
    <3> HIDE DEF seq, needs, erases
    <3>8. seqs[p] = seq
      BY <3>2, Zenon DEF seq
    <3> QED BY <3>4, <3>5, <3>6, <3>7, <3>8
  <2>10. ASSUME NEW j \in DOMAIN steps, Destructive(steps[j])
         PROVE  \E p \in DOMAIN Blocks : \E a \in 1 .. n(p) - 1 :
                   /\ At(off, seqs, j, p, a) /\ Touches(Blocks[p], address, length)
                   /\ steps[j] = seqs[p][a] /\ steps[j] \in Step /\ j = off[p] + a
                   /\ StepRange(steps[j]) \subseteq BlockRange(Blocks[p])
    <3>1. PICK p, a : At(off, seqs, j, p, a)
      BY <2>6
    <3>2. /\ p \in DOMAIN Blocks /\ a \in 1 .. n(p) /\ j = off[p] + a
          /\ steps[j] \in Step /\ steps[j] = seqs[p][a]
          /\ Touches(Blocks[p], address, length)
          /\ OfBlock(steps[j], desired, p, a, n(p))
      BY <3>1, <2>5
    <3>3. a # n(p) /\ StepRange(steps[j]) \subseteq BlockRange(Blocks[p])
      BY <1>1, <2>10, <3>2, OfBlockShape DEF Destructive
    <3>4. a \in 1 .. n(p) - 1
      BY <2>8, <3>2, <3>3
    <3> QED BY <3>1, <3>2, <3>3, <3>4
  <2>11. ASSUME NEW p \in DOMAIN Blocks, Touches(Blocks[p], address, length),
                NEW x \in BlockRange(Blocks[p])
         PROVE  /\ x \in needs(p) =>
                      \E j \in DOMAIN steps :
                         steps[j].kind = "program" /\ x \in StepRange(steps[j])
                /\ erases(p) =>
                      \E j \in DOMAIN steps :
                         steps[j].kind = "erase" /\ x \in StepRange(steps[j])
    <3>1. \A a \in 1 .. n(p) - 1 : \E j \in DOMAIN steps : steps[j] = seqs[p][a]
      <4> SUFFICES ASSUME NEW a \in 1 .. n(p) - 1
                   PROVE  \E j \in DOMAIN steps : steps[j] = seqs[p][a]
        OBVIOUS
      <4>1. a \in 1 .. n(p)
        BY <2>8, <2>11
      <4>2. At(off, seqs, off[p] + a, p, a)
        BY <2>8, <2>11, <4>1
      <4> QED BY <4>2, <2>5
    <3>2. ASSUME x \in needs(p)
          PROVE  \E j \in DOMAIN steps :
                    steps[j].kind = "program" /\ x \in StepRange(steps[j])
      <4>1. PICK a \in 1 .. n(p) - 1 :
               seqs[p][a].kind = "program" /\ x \in StepRange(seqs[p][a])
        BY <2>9, <2>11, <3>2
      <4> QED BY <3>1, <4>1
    <3>3. ASSUME erases(p)
          PROVE  \E j \in DOMAIN steps :
                    steps[j].kind = "erase" /\ x \in StepRange(steps[j])
      <4>1. 1 \in 1 .. n(p) - 1
        BY <2>8, <2>9, <2>11, <3>3
      <4>2. seqs[p][1].kind = "erase"
        BY <2>9, <2>11, <3>3, <4>1
      <4>3. StepRange(seqs[p][1]) = BlockRange(Blocks[p])
        BY <2>9, <2>11, <4>1, <4>2
      <4> QED BY <2>11, <3>1, <4>1, <4>2, <4>3
    <3> QED BY <3>2, <3>3
  <2>12. \A p, x : x \in BlockRange(Blocks[p]) /\ x \notin needs(p) =>
            desired[x] = IF erases(p) THEN Erased ELSE current[x]
    BY Zenon DEF Needed
  <2>13. ASSUME NEW i \in DOMAIN steps, NEW j \in DOMAIN steps, Destructive(steps[i]),
                steps[i].kind = steps[j].kind, steps[i].address = steps[j].address
         PROVE  i = j
    <3>1. Destructive(steps[j])
      BY <2>13 DEF Destructive
    <3>2. PICK p \in DOMAIN Blocks : \E a \in 1 .. n(p) - 1 :
             /\ Touches(Blocks[p], address, length)
             /\ steps[i] = seqs[p][a] /\ steps[i] \in Step /\ i = off[p] + a
             /\ StepRange(steps[i]) \subseteq BlockRange(Blocks[p])
      BY <2>10, <2>13
    <3>3. PICK q \in DOMAIN Blocks : \E b \in 1 .. n(q) - 1 :
             /\ steps[j] = seqs[q][b] /\ steps[j] \in Step /\ j = off[q] + b
             /\ StepRange(steps[j]) \subseteq BlockRange(Blocks[q])
      BY <2>10, <3>1
    <3>4. \A s \in Step : s.address \in StepRange(s)
      BY ChipAssumption DEF Step, StepRange, Addr
    <3>5. p = q
      BY <2>13, <3>2, <3>3, <3>4, BlocksApart
    <3>6. PICK a \in 1 .. n(p) - 1 : steps[i] = seqs[p][a] /\ i = off[p] + a
      BY <3>2
    <3>7. PICK b \in 1 .. n(p) - 1 : steps[j] = seqs[p][b] /\ j = off[p] + b
      BY <3>3, <3>5
    <3>8. a = b
      BY <2>9, <2>13, <3>2, <3>6, <3>7
    <3> QED BY <3>6, <3>7, <3>8
  <2>14. ASSUME NEW i \in DOMAIN steps, NEW j \in DOMAIN steps, i < j,
                Destructive(steps[i]), steps[j].kind = "erase"
         PROVE  StepRange(steps[i]) \cap StepRange(steps[j]) = {}
    <3>0. Destructive(steps[j])
      BY <2>14 DEF Destructive
    <3>1. PICK p \in DOMAIN Blocks : \E a \in 1 .. n(p) - 1 :
             /\ At(off, seqs, i, p, a)
             /\ StepRange(steps[i]) \subseteq BlockRange(Blocks[p])
      BY <2>10, <2>14
    <3>2. PICK q \in DOMAIN Blocks : \E b \in 1 .. n(q) - 1 :
             /\ At(off, seqs, j, q, b) /\ Touches(Blocks[q], address, length)
             /\ steps[j] = seqs[q][b]
             /\ StepRange(steps[j]) \subseteq BlockRange(Blocks[q])
      BY <2>10, <3>0
    <3>3. PICK a \in 1 .. n(p) - 1 : At(off, seqs, i, p, a)
      BY <3>1
    <3>4. PICK b \in 1 .. n(q) - 1 : At(off, seqs, j, q, b) /\ steps[j] = seqs[q][b]
      BY <3>2
    <3>5. b = 1
      BY <2>9, <2>14, <3>2, <3>4
    <3>6. p < q \/ (p = q /\ a < b)
      BY <2>7, <2>14, <3>3, <3>4
    <3>7. p # q
      <4>1. p \in Nat /\ ~(a < b)
        BY <3>5, BlocksFit
      <4> QED BY <3>6, <4>1
    <3> QED BY <3>1, <3>2, <3>7, BlocksApart
  <2>15. ASSUME NEW i \in DOMAIN steps, NEW x \in StepRange(steps[i])
         PROVE  /\ steps[i].kind = "program" =>
                      \/ current[x] \subseteq desired[x]
                      \/ \E j \in DOMAIN steps :
                            steps[j].kind = "erase" /\ x \in StepRange(steps[j])
                /\ steps[i].kind = "erase" =>
                      \/ desired[x] = Erased
                      \/ \E j \in DOMAIN steps :
                            steps[j].kind = "program" /\ x \in StepRange(steps[j])
    <3> SUFFICES ASSUME Destructive(steps[i])
                 PROVE  /\ steps[i].kind = "program" =>
                              \/ current[x] \subseteq desired[x]
                              \/ \E j \in DOMAIN steps :
                                    steps[j].kind = "erase" /\ x \in StepRange(steps[j])
                        /\ steps[i].kind = "erase" =>
                              \/ desired[x] = Erased
                              \/ \E j \in DOMAIN steps :
                                    steps[j].kind = "program" /\ x \in StepRange(steps[j])
      BY DEF Destructive
    <3>1. PICK p \in DOMAIN Blocks :
             /\ \E a \in 1 .. n(p) - 1 : steps[i] = seqs[p][a]
             /\ Touches(Blocks[p], address, length)
             /\ StepRange(steps[i]) \subseteq BlockRange(Blocks[p])
      BY <2>10
    <3>2. x \in BlockRange(Blocks[p])
      BY <3>1
    <3>3. CASE erases(p)
      <4>1. \E j \in DOMAIN steps : steps[j].kind = "erase" /\ x \in StepRange(steps[j])
        BY <2>11, <3>1, <3>2, <3>3
      <4>2. \/ desired[x] = Erased
            \/ \E j \in DOMAIN steps :
                  steps[j].kind = "program" /\ x \in StepRange(steps[j])
        BY <2>11, <2>12, <3>1, <3>2, <3>3
      <4> QED BY <4>1, <4>2
    <3>4. CASE ~erases(p)
      <4>1. steps[i].kind = "program"
        BY <2>9, <3>1, <3>4
      <4>2. current[x] \subseteq desired[x]
        BY <3>2, <3>4, Zenon DEF Erases, ByteNeedsErase
      <4> QED BY <4>1, <4>2
    <3> QED BY <3>3, <3>4
  <2>16. ASSUME NEW x \in Addr
         PROVE  \/ desired[x] = current[x]
                \/ \E j \in DOMAIN steps :
                      Destructive(steps[j]) /\ x \in StepRange(steps[j])
    <3>1. PICK p \in DOMAIN Blocks : x \in BlockRange(Blocks[p])
      BY BlocksFit
    <3>2. CASE Touches(Blocks[p], address, length)
      BY <2>11, <2>12, <3>1, <3>2 DEF Destructive
    <3>3. CASE ~Touches(Blocks[p], address, length)
      <4>1. x \notin address .. (address + length - 1)
        <5>1. Blocks[p].address \in Nat /\ Blocks[p].size \in Nat
          BY BlocksFit
        <5> QED BY <5>1, <3>1, <3>3 DEF Touches, BlockRange
      <4> QED BY <4>1, <1>1
    <3> QED BY <3>2, <3>3
  <2>17. UnitsAreSound(steps, current, desired)
    BY <2>13, <2>14, <2>15, <2>16 DEF UnitsAreSound
  <2> QED BY <2>1, <2>17 DEF plan, desired
<1> QED BY <1>2, <1>3

(* The executor never refuses what the planner makes: a plan for a range on   *)
(* the part passes ValidateNORPlan, and its verify steps cover the range and *)
(* come after whatever they check (norplanner.pas:458, 463-679).            *)
THEOREM PlansAreAccepted ==
    ASSUME NEW current \in Image, NEW patch \in Image, NEW address \in Nat,
           NEW length \in Nat, address + length <= ChipSize
    PROVE  LET plan == DifferentialPlan(current, patch, address, length)
           IN  /\ ValidateNORPlan(plan)
               /\ NORPlanVerifyCoversRequestedRange(plan)
               /\ NORPlanDestructiveStepsVerifiedAfterward(plan)
<1> DEFINE desired == Overlay(current, patch, address, length)
           plan == DifferentialPlan(current, patch, address, length)
           seqs == PerBlock(current, desired, address, length)
<1>1. plan.address = address /\ plan.length = length
  BY DEF DifferentialPlan
<1>2. PlanIsSound(plan.steps, current, desired)
  BY PlanSound
<1>3. desired \in Image /\ ChipSize \in Nat
  BY OverlayShape, ChipAssumption
<1>4. ASSUME NEW i \in DOMAIN plan.steps, NEW s, s = plan.steps[i]
      PROVE  /\ s.length # 0 /\ s.address + s.length <= ChipSize
             /\ s.kind = "erase" =>
                   \E b \in DOMAIN Blocks : /\ Blocks[b].address = s.address
                                            /\ Blocks[b].size = s.length
             /\ s.kind = "program" => PageOf(s.address) = PageOf(s.address + s.length - 1)
  <2>1. length # 0
    <3> SUFFICES ASSUME length = 0
                 PROVE  FALSE
      OBVIOUS
    <3>1. plan.steps = << >>
      BY DEF DifferentialPlan
    <3> QED BY <3>1, <1>4
  <2>2. plan.steps = FlattenSeq(seqs)
    BY <2>1 DEF DifferentialPlan
  <2> HIDE DEF plan, desired, seqs
  <2>3. seqs = PerBlock(current, desired, address, length)
    BY Zenon DEF seqs
  <2>4. PICK off : Origins(off, seqs, plan.steps, current, desired, address, length)
    BY <1>3, <2>2, <2>3, PlanOrigins
  <2>5. PICK p, a : At(off, seqs, i, p, a)
    BY <2>4, <1>4, Zenon DEF Origins
  <2>6. /\ p \in DOMAIN Blocks /\ s \in Step
        /\ OfBlock(s, desired, p, a, Len(seqs[p]))
    BY <2>4, <2>5, <1>4, Zenon DEF Origins, At
  <2>7. s.length # 0
    BY <2>6 DEF Step
  <2> QED BY <2>6, <2>7, <1>3, OfBlockShape
<1>5. ValidateNORPlan(plan)
  <2>1. address <= ChipSize /\ length <= ChipSize - address
    BY <1>3
  <2> HIDE DEF plan
  <2> QED BY <1>1, <1>4, <2>1 DEF ValidateNORPlan
<1>6. NORPlanVerifyCoversRequestedRange(plan)
  <2> SUFFICES ASSUME NEW x \in address .. (address + length - 1)
               PROVE  \E i \in DOMAIN plan.steps :
                         plan.steps[i].kind = "verify" /\ x \in StepRange(plan.steps[i])
    BY <1>1 DEF NORPlanVerifyCoversRequestedRange
  <2>1. x \in Addr /\ length # 0
    BY <1>3 DEF Addr
  <2>2. plan.steps = FlattenSeq(seqs)
    BY <2>1 DEF DifferentialPlan
  <2> HIDE DEF plan, desired, seqs
  <2>3. seqs = PerBlock(current, desired, address, length)
    BY Zenon DEF seqs
  <2>4. PICK off : Origins(off, seqs, plan.steps, current, desired, address, length)
    BY <1>3, <2>2, <2>3, PlanOrigins
  <2>5. PICK p \in DOMAIN Blocks : x \in BlockRange(Blocks[p])
    BY <2>1, BlocksFit
  <2>6. Touches(Blocks[p], address, length)
    <3>1. Blocks[p].address \in Nat /\ Blocks[p].size \in Nat
      BY BlocksFit
    <3> QED BY <3>1, <2>5 DEF Touches, BlockRange
  <2>7. Len(seqs[p]) \in 1 .. Len(seqs[p])
    BY <2>4, <2>6 DEF Origins
  <2>8. At(off, seqs, off[p] + Len(seqs[p]), p, Len(seqs[p]))
    BY <2>4, <2>6, <2>7, Zenon DEF Origins
  <2>9. PICK j : At(off, seqs, j, p, Len(seqs[p]))
    BY <2>8
  <2>10. /\ j \in DOMAIN plan.steps
         /\ OfBlock(plan.steps[j], desired, p, Len(seqs[p]), Len(seqs[p]))
    BY <2>4, <2>9, Zenon DEF Origins
  <2> QED BY <2>5, <2>10, <1>3, OfBlockShape
<1>7. NORPlanDestructiveStepsVerifiedAfterward(plan)
  <2> HIDE DEF plan
  <2> QED BY <1>2 DEF PlanIsSound, NORPlanDestructiveStepsVerifiedAfterward
<1> QED BY <1>5, <1>6, <1>7
=============================================================================
