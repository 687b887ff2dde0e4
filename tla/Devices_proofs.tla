--------------------------- MODULE Devices_proofs ---------------------------
(* The run of a SPI NAND job: what a job must never lose, what a success, an   *)
(* operator's stop and the report mean, for every geometry of the part, every *)
(* image and every set of faults.                                          *)
EXTENDS Devices, TLAPS, FiniteSetTheorems, FunctionTheorems

NandChips == NE!Chips(NE!Content)
IOErrors == {"transport", "rejected", "timeout"}

(* The changes a call makes to the part, one at a time.                     *)
Configured(c, bits) == [c EXCEPT !.configuration = bits]
Protected(c, bits) == [c EXCEPT !.protection = bits]
Latched(c, enabled) == [c EXCEPT !.wel = enabled]
Working(c, op) == [c EXCEPT !.op = op]

LEMMA FeatureRead ==
    ASSUME NEW c, NEW bits, NEW all, NEW r \in NE!GetFeature(c, bits, all)
    PROVE  /\ r.chip = c /\ r.mutation = "none"
           /\ \/ r.error = "none" /\ (r.value = bits \/ (SilentFeatures /\ r.value = all))
              \/ r.error = "transport"
BY DEF NE!GetFeature, NE!May, NE!Fine, NE!Failing, NE!Result

LEMMA Sent ==
    ASSUME NEW c, NEW taken, NEW r \in NE!Send(c, taken)
    PROVE  /\ r.mutation = "none"
           /\ \/ r.error = "none" /\ r.chip \in taken
              \/ r.error = "transport" /\ r.chip \in {c} \cup taken
BY DEF NE!Send, NE!May, NE!Fine, NE!Failing, NE!Result

LEMMA FeatureWritten ==
    ASSUME NEW c, NEW bits
    PROVE  /\ \A r \in NE!SetConfiguration(c, bits) :
                /\ r.mutation = "none" /\ r.error \in {"none", "transport"}
                /\ r.chip = c \/ r.chip = Configured(c, bits)
           /\ \A r \in NE!SetProtection(c, bits) :
                /\ r.mutation = "none" /\ r.error \in {"none", "transport"}
                /\ r.chip = c \/ r.chip = Protected(c, bits)
<1> DEFINE T(d) == NE!WhenIdle(c, {d} \cup NE!May("stuck", {c}))
<1>1. \A d : T(d) \subseteq {c, d}
  BY DEF NE!WhenIdle, NE!May
<1> HIDE DEF T
<1>2. \A d : \A r \in NE!Send(c, T(d)) :
        r.mutation = "none" /\ r.error \in {"none", "transport"} /\ r.chip \in {c, d}
  BY <1>1, Sent
<1>3. /\ NE!SetConfiguration(c, bits) = NE!Send(c, T(Configured(c, bits)))
      /\ NE!SetProtection(c, bits) = NE!Send(c, T(Protected(c, bits)))
  BY DEF NE!SetConfiguration, NE!SetProtection, T, Configured, Protected
<1> QED BY <1>2, <1>3

LEMMA SetECCResult ==
    ASSUME NEW c, NEW e \in BOOLEAN, NEW r \in NE!SetECC(c, e)
    PROVE  /\ \/ r.chip = c
              \/ \E v \in {c.configuration, NE!ConfigurationBits} :
                     /\ r.chip = Configured(c, NE!WithECC(v, e))
                     /\ v = c.configuration \/ SilentFeatures
           /\ r.error \in {"none"} \cup IOErrors
           /\ r.error = "none" /\ ~SilentFeatures => ("ECC" \in r.chip.configuration) = e
<1> DEFINE Change(s) == NE!SetConfiguration(s.chip, NE!WithECC(s.value, e))
           Check(s) == {IF ("ECC" \in s.value) = e THEN s ELSE NE!Failing(s.chip, "rejected")}
           Reread(s) == NE!Then(NE!GetConfiguration(s.chip), Check)
<1>1. r \in NE!Then(NE!Then(NE!GetConfiguration(c), Change), Reread)
  BY DEF NE!SetECC
<1>2. PICK s \in NE!Then(NE!GetConfiguration(c), Change) :
          r \in IF s.error = "none" THEN Reread(s) ELSE {s}
  BY <1>1 DEF NE!Then
<1>3. PICK t \in NE!GetConfiguration(c) : s \in IF t.error = "none" THEN Change(t) ELSE {t}
  BY <1>2 DEF NE!Then
<1>4. /\ t.chip = c
      /\ \/ t.error = "none" /\ t.value = c.configuration
         \/ t.error = "none" /\ t.value = NE!ConfigurationBits /\ SilentFeatures
         \/ t.error = "transport"
  BY <1>3, FeatureRead DEF NE!GetConfiguration
<1>5. /\ \/ s.chip = c
         \/ /\ t.error = "none"
            /\ s.chip = Configured(c, NE!WithECC(t.value, e))
      /\ s.error \in {"none", "transport"}
  <2>1. CASE t.error = "none"
    <3>1. s \in NE!SetConfiguration(c, NE!WithECC(t.value, e))
      BY <1>3, <1>4, <2>1
    <3>2. s.error \in {"none", "transport"}
      BY <3>1, FeatureWritten
    <3>3. s.chip = c \/ s.chip = Configured(c, NE!WithECC(t.value, e))
      BY <3>1, FeatureWritten, Zenon
    <3> QED BY <3>2, <3>3, <2>1
  <2>2. CASE t.error # "none"
    <3>1. s = t
      BY <1>3, <2>2
    <3> QED BY <3>1, <1>4, <2>2
  <2> QED BY <2>1, <2>2
<1>6. /\ r.chip = s.chip /\ r.error \in {"none"} \cup IOErrors
      /\ r.error = "none" /\ ~SilentFeatures => ("ECC" \in s.chip.configuration) = e
  <2>1. CASE s.error = "none"
    <3>1. PICK u \in NE!GetConfiguration(s.chip) :
              r \in IF u.error = "none" THEN Check(u) ELSE {u}
      BY <1>2, <2>1 DEF NE!Then
    <3>2. /\ u.chip = s.chip
          /\ \/ u.error = "none" /\ (u.value = s.chip.configuration \/ SilentFeatures)
             \/ u.error = "transport"
      BY <3>1, FeatureRead DEF NE!GetConfiguration
    <3> QED BY <3>1, <3>2 DEF NE!Failing, NE!Result, IOErrors
  <2>2. CASE s.error # "none"
    <3>1. r = s
      BY <1>2, <2>2
    <3> QED BY <3>1, <1>5, <2>2 DEF IOErrors
  <2> QED BY <2>1, <2>2
<1> QED BY <1>4, <1>5, <1>6

LEMMA UnlockResult ==
    ASSUME NEW c, NEW r \in NE!UnlockAll(c)
    PROVE  r.chip = c \/ r.chip = Protected(c, {})
<1> DEFINE Check(s) == {CASE s.value = NE!ProtectionBits -> NE!Failing(s.chip, "transport")
                          [] "BP" \in s.value            -> NE!Failing(s.chip, "rejected")
                          [] OTHER                       -> s}
           Reread(s) == NE!Then(NE!GetProtection(s.chip), Check)
<1>2. PICK s \in NE!SetProtection(c, {}) : r \in IF s.error = "none" THEN Reread(s) ELSE {s}
  BY DEF NE!UnlockAll, NE!Then
<1>3. s.chip = c \/ s.chip = Protected(c, {})
  BY <1>2, FeatureWritten, Zenon
<1>4. r.chip = s.chip
  <2>1. CASE s.error = "none"
    <3>1. PICK u \in NE!GetProtection(s.chip) :
              r \in IF u.error = "none" THEN Check(u) ELSE {u}
      BY <1>2, <2>1 DEF NE!Then
    <3>2. u.chip = s.chip
      BY <3>1, FeatureRead DEF NE!GetProtection
    <3> QED BY <3>1, <3>2 DEF NE!Failing, NE!Result
  <2>2. CASE s.error # "none"
    BY <1>2, <2>2
  <2> QED BY <2>1, <2>2
<1> QED BY <1>3, <1>4

LEMMA RestoredResult ==
    ASSUME NEW c, NEW bits
    PROVE  /\ \A r \in NE!Restored(NE!SetConfiguration(c, bits), NE!GetConfiguration, bits) :
                /\ r.chip = c \/ r.chip = Configured(c, bits)
                /\ r.error = "none" /\ ~SilentFeatures => r.chip.configuration = bits
           /\ \A r \in NE!Restored(NE!SetProtection(c, bits), NE!GetProtection, bits) :
                /\ r.chip = c \/ r.chip = Protected(c, bits)
                /\ r.error = "none" /\ ~SilentFeatures => r.chip.protection = bits
<1> DEFINE Check(s) == {IF s.value = bits THEN s ELSE NE!Failing(s.chip, "rejected")}
<1>1. ASSUME NEW r \in NE!Restored(NE!SetConfiguration(c, bits), NE!GetConfiguration, bits)
      PROVE  /\ r.chip = c \/ r.chip = Configured(c, bits)
             /\ r.error = "none" /\ ~SilentFeatures => r.chip.configuration = bits
  <2> DEFINE Reread(s) == NE!Then(NE!GetConfiguration(s.chip), Check)
  <2>2. PICK s \in NE!SetConfiguration(c, bits) :
            r \in IF s.error = "none" THEN Reread(s) ELSE {s}
    BY DEF NE!Restored, NE!Then
  <2>3. s.chip = c \/ s.chip = Configured(c, bits)
    BY <2>2, FeatureWritten, Zenon
  <2>4. CASE s.error = "none"
    <3>1. PICK u \in NE!GetConfiguration(s.chip) :
              r \in IF u.error = "none" THEN Check(u) ELSE {u}
      BY <2>2, <2>4 DEF NE!Then
    <3>2. /\ u.chip = s.chip
          /\ \/ u.error = "none" /\ (u.value = s.chip.configuration \/ SilentFeatures)
             \/ u.error = "transport"
      BY <3>1, FeatureRead DEF NE!GetConfiguration
    <3> QED BY <2>3, <3>1, <3>2 DEF NE!Failing, NE!Result
  <2>5. CASE s.error # "none"
    BY <2>2, <2>3, <2>5
  <2> QED BY <2>4, <2>5
<1>2. ASSUME NEW r \in NE!Restored(NE!SetProtection(c, bits), NE!GetProtection, bits)
      PROVE  /\ r.chip = c \/ r.chip = Protected(c, bits)
             /\ r.error = "none" /\ ~SilentFeatures => r.chip.protection = bits
  <2> DEFINE Reread(s) == NE!Then(NE!GetProtection(s.chip), Check)
  <2>2. PICK s \in NE!SetProtection(c, bits) :
            r \in IF s.error = "none" THEN Reread(s) ELSE {s}
    BY DEF NE!Restored, NE!Then
  <2>3. s.chip = c \/ s.chip = Protected(c, bits)
    BY <2>2, FeatureWritten, Zenon
  <2>4. CASE s.error = "none"
    <3>1. PICK u \in NE!GetProtection(s.chip) :
              r \in IF u.error = "none" THEN Check(u) ELSE {u}
      BY <2>2, <2>4 DEF NE!Then
    <3>2. /\ u.chip = s.chip
          /\ \/ u.error = "none" /\ (u.value = s.chip.protection \/ SilentFeatures)
             \/ u.error = "transport"
      BY <3>1, FeatureRead DEF NE!GetProtection
    <3> QED BY <2>3, <3>1, <3>2 DEF NE!Failing, NE!Result
  <2>5. CASE s.error # "none"
    BY <2>2, <2>3, <2>5
  <2> QED BY <2>4, <2>5
<1> QED BY <1>1, <1>2

LEMMA LatchResult ==
    ASSUME NEW c
    PROVE  /\ \A r \in NE!WriteEnableChecked(c) :
                /\ r.mutation = "none" /\ r.error \in {"none"} \cup IOErrors
                /\ r.chip = c \/ r.chip = Latched(c, TRUE)
           /\ \A r \in NE!WriteDisable(c) :
                /\ r.chip = c \/ r.chip = Latched(c, FALSE)
                /\ r.error = "none" => ~r.chip.wel
<1> DEFINE T(d) == NE!WhenIdle(c, {d} \cup NE!May("ignored", {c}))
<1>1. \A d : T(d) \subseteq {c, d}
  BY DEF NE!WhenIdle, NE!May
<1> HIDE DEF T
<1>4. \A d : \A r \in NE!Send(c, T(d)) :
        r.mutation = "none" /\ r.error \in {"none", "transport"} /\ r.chip \in {c, d}
  BY <1>1, Sent
<1>2. ASSUME NEW r \in NE!WriteEnableChecked(c)
      PROVE  /\ r.mutation = "none" /\ r.error \in {"none"} \cup IOErrors
             /\ r.chip = c \/ r.chip = Latched(c, TRUE)
  <2> DEFINE Check(s) == {IF s.chip.wel THEN s ELSE NE!Failing(s.chip, "rejected")}
                             \cup NE!May("transport", {NE!Failing(s.chip, "transport")})
  <2>1. PICK s \in NE!Send(c, T(Latched(c, TRUE))) :
            r \in IF s.error = "none" THEN Check(s) ELSE {s}
    BY DEF NE!WriteEnableChecked, NE!Then, Latched, T
  <2>2. s.mutation = "none" /\ s.error \in {"none", "transport"}
        /\ s.chip \in {c, Latched(c, TRUE)}
    BY <2>1, <1>4
  <2>3. \/ r = s
        \/ r \in {NE!Failing(s.chip, "rejected"), NE!Failing(s.chip, "transport")}
    BY <2>1 DEF NE!May
  <2>4. r.chip = s.chip /\ r.mutation = "none" /\ r.error \in {"none"} \cup IOErrors
    BY <2>2, <2>3 DEF NE!Failing, NE!Result, IOErrors
  <2> QED BY <2>2, <2>4
<1>3. ASSUME NEW r \in NE!WriteDisable(c)
      PROVE  /\ r.chip = c \/ r.chip = Latched(c, FALSE)
             /\ r.error = "none" => ~r.chip.wel
  <2> DEFINE Check(s) == {IF s.chip.wel THEN NE!Failing(s.chip, "rejected") ELSE s}
                             \cup NE!May("transport", {NE!Failing(s.chip, "transport")})
  <2>1. PICK s \in NE!Send(c, T(Latched(c, FALSE))) :
            r \in IF s.error = "none" THEN Check(s) ELSE {s}
    BY DEF NE!WriteDisable, NE!Then, Latched, T
  <2>2. s.error \in {"none", "transport"} /\ s.chip \in {c, Latched(c, FALSE)}
    BY <2>1, <1>4
  <2>3. \/ r = s /\ (s.error = "none" => ~s.chip.wel)
        \/ r \in {NE!Failing(s.chip, "rejected"), NE!Failing(s.chip, "transport")}
    BY <2>1 DEF NE!May
  <2>4. r.chip = s.chip /\ (r.error = "none" => ~r.chip.wel)
    BY <2>2, <2>3 DEF NE!Failing, NE!Result
  <2> QED BY <2>2, <2>4
<1> QED BY <1>2, <1>3

(* What a wait for the part gives, when it is at an operation and when not.    *)
LEMMA Waited ==
    ASSUME NEW c, NEW r \in NE!WaitReady(c)
    PROVE  /\ \/ r.error = "none" /\ r.value = FALSE /\ r.chip = NE!Completed(c)
              \/ /\ r.error = "none" /\ r.value = TRUE /\ r.chip = NE!CompletedBadly(c)
                 /\ c.op # NoOp /\ c.op.kind # "load"
              \/ r.error \in {"transport", "timeout"} /\ r.chip = c
BY DEF NE!WaitReady, NE!May, NE!Fine, NE!Failing, NE!Result

(* An idle part that read a page is as it was.                              *)
LEMMA PageLoaded ==
    ASSUME NEW c \in NandChips, c.op = NoOp, NE!NANDAssumption,
           NEW b \in NandBlock, NEW p \in NandPage
    PROVE  /\ NE!Load(b, p) \in NE!Operations(NE!Content) /\ NE!Load(b, p).kind = "load"
           /\ Working(c, NE!Load(b, p)) \in NandChips
           /\ Working(c, NE!Load(b, p)).op = NE!Load(b, p)
           /\ NE!Completed(Working(c, NE!Load(b, p))) = c
<1>1. NE!Load(b, p) \in NE!Operations(NE!Content) /\ NE!Load(b, p).kind = "load"
  BY DEF NE!Load, NE!Operations, NE!Content
<1> DEFINE l == NE!Load(b, p)
<1> HIDE DEF l
<1>2. l # NoOp /\ l \in NE!Operations(NE!Content) /\ l.kind = "load"
  BY <1>1 DEF NE!NANDAssumption, l
<1>3. Working(c, l) \in NandChips /\ Working(c, l).op = l
  BY <1>2 DEF Working, NandChips, NE!Chips
<1>4. NE!Completed(Working(c, l)) = c
  BY <1>2 DEF Working, NandChips, NE!Chips, NE!Completed, NE!Finished, NE!Done
<1> QED BY <1>1, <1>3, <1>4 DEF l

LEMMA ReadResult ==
    ASSUME NEW c \in NandChips, c.op = NoOp, NE!NANDAssumption, NEW value,
           NEW b \in NandBlock, NEW p \in NandPage, NEW r \in NE!ReadPage(c, value, b, p)
    PROVE  /\ r.chip = c \/ r.chip = Working(c, NE!Load(b, p))
           /\ \/ r.error = "none" /\ r.chip = c /\ r.value.data \in {value, Noise}
              \/ r.error \in IOErrors
<1> DEFINE l == NE!Load(b, p)
           T == NE!WhenIdle(c, {Working(c, l)})
           Wait(s)  == NE!WaitReady(s.chip)
           Fetch(s) == {NE!Fine(s.chip, [data |-> value, ecc |-> "good"])}
                        \cup NE!May("transport", {NE!Failing(s.chip, "transport")})
                        \cup NE!May("misread", {NE!Fine(s.chip, [data |-> Noise, ecc |-> "good"])})
                        \cup (IF "ECC" \in s.chip.configuration
                              THEN NE!May("ecc", {NE!Fine(s.chip, [data |-> Noise,
                                                  ecc |-> "uncorrectable"])})
                              ELSE {})
<1>1. PICK s \in NE!Then(NE!Send(c, T), Wait) :
          r \in IF s.error = "none" THEN Fetch(s) ELSE {s}
  BY DEF NE!ReadPage, NE!Then, Working
<1>2. PICK t \in NE!Send(c, T) : s \in IF t.error = "none" THEN Wait(t) ELSE {t}
  BY <1>1 DEF NE!Then
<1>3. T = {Working(c, l)}
  BY DEF NE!WhenIdle
<1> HIDE DEF T, l
<1>4. l \in NE!Operations(NE!Content) /\ l.kind = "load" /\ NE!Completed(Working(c, l)) = c
      /\ Working(c, l).op = l
  BY PageLoaded DEF l
<1>5. /\ t.chip \in {c, Working(c, l)} /\ t.error \in {"none", "transport"}
      /\ t.error = "none" => t.chip = Working(c, l)
  BY <1>2, <1>3, Sent
<1>6. /\ s.chip \in {c, Working(c, l)} /\ s.error \in {"none"} \cup IOErrors
      /\ s.error = "none" => s.chip = c
  <2>1. CASE t.error = "none"
    <3>1. s \in NE!WaitReady(Working(c, l))
      BY <1>2, <1>5, <2>1
    <3> QED BY <3>1, <1>4, Waited DEF IOErrors
  <2>2. CASE t.error # "none"
    BY <1>2, <1>5, <2>2 DEF IOErrors
  <2> QED BY <2>1, <2>2
<1>7. CASE s.error = "none"
  <2>1. r \in Fetch(s)
    BY <1>1, <1>7
  <2>2. /\ r.chip = s.chip
        /\ \/ r.error = "none" /\ r.value.data \in {value, Noise}
           \/ r.error \in IOErrors
    BY <2>1 DEF NE!May, NE!Fine, NE!Failing, NE!Result, IOErrors
  <2> QED BY <2>2, <1>6, <1>7 DEF l
<1>8. CASE s.error # "none"
  BY <1>1, <1>6, <1>8 DEF l
<1> QED BY <1>7, <1>8

-----------------------------------------------------------------------------
(* An operation of the array keeps to its block, a program to its page.       *)
Registers(c) == <<c.protection, c.configuration>>
Spares(op, cells, after) ==
    \A b \in NandBlock :
        \/ after[b] = cells[b]
        \/ b = op.block /\ (op.kind = "program" =>
                \A p \in NandPage \ {op.page} : after[b][p] = cells[b][p])

LEMMA OperationEnds ==
    ASSUME NEW c \in NandChips, c.op # NoOp, NE!NANDAssumption,
           NEW d \in {NE!Completed(c), NE!CompletedBadly(c)}
    PROVE  /\ d \in NandChips /\ d.op = NoOp /\ Registers(d) = Registers(c)
           /\ Spares(c.op, c.cells, d.cells)
           /\ c.op.kind = "load" => d.cells = c.cells
           /\ c.op.kind # "load" => ~d.wel
           /\ d.wel => c.wel
<1> DEFINE Arrays == [NandBlock -> [NandPage -> NE!Content]]
<1>1. /\ c.op.kind \in {"load", "erase", "program"} /\ c.op.block \in NandBlock
      /\ c.op.page \in NandPage /\ c.op.data \in NE!Content /\ c.cells \in Arrays
  BY DEF NandChips, NE!Chips, NE!Operations
<1>2. ASSUME NEW after \in {NE!Done(c.cells, c.op), NE!Botched(c.cells, c.op)}
      PROVE  /\ after \in Arrays /\ Spares(c.op, c.cells, after)
             /\ c.op.kind = "load" => after = c.cells
  <2>1. CASE c.op.kind = "load"
    <3>1. after = c.cells
      BY <2>1 DEF NE!Done, NE!Botched
    <3> QED BY <3>1, <1>1 DEF Spares
  <2>2. CASE c.op.kind = "erase"
    <3>1. PICK v \in NE!Content : after = [c.cells EXCEPT ![c.op.block] = [p \in NandPage |-> v]]
      BY <2>2 DEF NE!Done, NE!Botched, NE!Content
    <3> QED BY <3>1, <1>1, <2>2 DEF Spares
  <2>3. CASE c.op.kind = "program"
    <3>1. PICK v \in NE!Content : after = [c.cells EXCEPT ![c.op.block][c.op.page] = v]
      BY <2>3, <1>1 DEF NE!Done, NE!Botched, NE!Content
    <3> QED BY <3>1, <1>1, <2>3 DEF Spares
  <2> QED BY <1>1, <2>1, <2>2, <2>3
<1>3. PICK after \in {NE!Done(c.cells, c.op), NE!Botched(c.cells, c.op)} :
          d = NE!Finished(c, after)
  BY DEF NE!Completed, NE!CompletedBadly
<1>4. d = [c EXCEPT !.cells = after, !.op = NoOp, !.wel = @ /\ c.op.kind = "load"]
  BY <1>3 DEF NE!Finished
<1>5. /\ d.cells = after /\ d.op = NoOp /\ d.protection = c.protection
      /\ d.configuration = c.configuration /\ d.wel = (c.wel /\ c.op.kind = "load")
  BY <1>4 DEF NandChips, NE!Chips
<1>6. d \in NandChips
  BY <1>2, <1>4 DEF NandChips, NE!Chips
<1> QED BY <1>2, <1>5, <1>6 DEF Registers

(* What has become of an idle part that was asked to erase or to program.      *)
Asked(c, op, r) ==
    /\ r.chip \in NandChips /\ Registers(r.chip) = Registers(c)
    /\ Spares(op, c.cells, r.chip.cells)
    /\ \/ r.error = "none" /\ r.mutation = "idle" /\ r.chip.op = NoOp
       \/ /\ r.error \in IOErrors /\ r.mutation = "possibly" /\ r.chip.cells = c.cells
          /\ r.chip.op \in {NoOp, op}
       \/ /\ r.error \in IOErrors /\ r.mutation = "none" /\ r.chip.cells = c.cells
          /\ r.chip.op = NoOp

LEMMA ArrayExecuted ==
    ASSUME NEW c \in NandChips, c.op = NoOp, NE!NANDAssumption,
           NEW op \in NE!Operations(NE!Content), op.kind # "load",
           NEW r \in NE!Execute(c, op)
    PROVE  Asked(c, op, r)
<1> DEFINE T == NE!Issued(c, op)
           Poll(s) == {[q EXCEPT !.mutation = IF q.error = "none" THEN "idle"
                                              ELSE "possibly"] : q \in NE!WaitReady(s.chip)}
<1>1. PICK s \in NE!Send(c, T) :
          r \in IF s.error = "none" THEN Poll(s) ELSE {[s EXCEPT !.mutation = "possibly"]}
  BY DEF NE!Execute
<1>2. T \subseteq {c, Working(c, op)}
  BY DEF NE!Issued, NE!WhenIdle, NE!May, Working
<1> HIDE DEF T
<1>3. /\ s.chip \in {c, Working(c, op)} /\ s.error \in {"none", "transport"}
  BY <1>1, <1>2, Sent
<1>4. /\ op # NoOp /\ Working(c, op) \in NandChips /\ Working(c, op).op = op
      /\ Working(c, op).cells = c.cells /\ Registers(Working(c, op)) = Registers(c)
  BY DEF Working, Registers, NandChips, NE!Chips, NE!NANDAssumption
<1>5. /\ s.chip \in NandChips /\ s.chip.op \in {NoOp, op} /\ s.chip.cells = c.cells
      /\ Registers(s.chip) = Registers(c)
  BY <1>3, <1>4
<1>6. Spares(op, c.cells, c.cells)
  BY DEF Spares
<1>7. CASE s.error = "none"
  <2>1. PICK q \in NE!WaitReady(s.chip) :
            r = [q EXCEPT !.mutation = IF q.error = "none" THEN "idle" ELSE "possibly"]
    BY <1>1, <1>7
  <2>2. r.chip = q.chip /\ r.error = q.error
        /\ r.mutation = IF q.error = "none" THEN "idle" ELSE "possibly"
    <3>1. PICK e1, v1, d1 : q = NE!Result(d1, e1, "none", v1)
      BY <2>1 DEF NE!WaitReady, NE!May, NE!Fine, NE!Failing
    <3> QED BY <3>1, <2>1 DEF NE!Result
  <2>3. CASE q.error = "none"
    <3>1. q.chip \in {NE!Completed(s.chip), NE!CompletedBadly(s.chip)} /\
          (s.chip.op = NoOp => q.chip = s.chip)
      BY <2>1, <2>3, Waited DEF NE!Completed
    <3>2. CASE s.chip.op = NoOp
      BY <3>1, <3>2, <2>2, <2>3, <1>5, <1>6 DEF Asked
    <3>3. CASE s.chip.op = op
      <4>1. q.chip \in NandChips /\ q.chip.op = NoOp /\ Registers(q.chip) = Registers(s.chip)
            /\ Spares(op, s.chip.cells, q.chip.cells)
        BY <3>1, <3>3, <1>4, <1>5, OperationEnds
      <4> QED BY <4>1, <2>2, <2>3, <1>5 DEF Asked
    <3> QED BY <3>2, <3>3, <1>5
  <2>4. CASE q.error # "none"
    <3>1. q.chip = s.chip /\ q.error \in IOErrors
      BY <2>1, <2>4, Waited DEF IOErrors
    <3> QED BY <3>1, <2>2, <2>4, <1>5, <1>6 DEF Asked
  <2> QED BY <2>3, <2>4
<1>8. CASE s.error # "none"
  <2>1. r = [s EXCEPT !.mutation = "possibly"]
    BY <1>1, <1>8
  <2>2. r.chip = s.chip /\ r.error = "transport" /\ r.mutation = "possibly"
    <3>1. PICK e1, v1, d1 : s = NE!Result(d1, e1, "none", v1)
      BY <1>1 DEF NE!Send, NE!May, NE!Fine, NE!Failing
    <3> QED BY <3>1, <2>1, <1>3, <1>8 DEF NE!Result
  <2> QED BY <2>2, <1>5, <1>6 DEF Asked, IOErrors
<1> QED BY <1>7, <1>8

(* Write enable only sets the latch; what follows is the same either way.      *)
LEMMA AskedLatched ==
    ASSUME NEW c \in NandChips, c.op = NoOp, NEW op, NEW s,
           s.chip = c \/ s.chip = Latched(c, TRUE)
    PROVE  /\ s.chip \in NandChips /\ s.chip.op = NoOp
           /\ \A r : Asked(s.chip, op, r) => Asked(c, op, r)
           /\ s.error \in IOErrors /\ s.mutation = "none" => Asked(c, op, s)
<1>1. /\ s.chip \in NandChips /\ s.chip.op = NoOp /\ s.chip.cells = c.cells
      /\ Registers(s.chip) = Registers(c)
  BY DEF Latched, NandChips, NE!Chips, Registers
<1> QED BY <1>1 DEF Asked, Spares

LEMMA EraseResult ==
    ASSUME NEW c \in NandChips, c.op = NoOp, NE!NANDAssumption, NEW b \in NandBlock,
           NEW r \in NE!EraseBlock(c, b)
    PROVE  Asked(c, NE!EraseOf(b), r)
<1>1. /\ NE!EraseOf(b) \in NE!Operations(NE!Content) /\ NE!EraseOf(b).kind # "load"
  BY DEF NE!EraseOf, NE!Operations, NE!Content, NE!NANDAssumption
<1>2. PICK s \in NE!WriteEnableChecked(c) :
          r \in IF s.error = "none" THEN NE!Execute(s.chip, NE!EraseOf(b)) ELSE {s}
  BY DEF NE!EraseBlock, NE!Then
<1>3. /\ s.mutation = "none" /\ s.error \in {"none"} \cup IOErrors
      /\ s.chip = c \/ s.chip = Latched(c, TRUE)
  BY <1>2, LatchResult
<1>4. CASE s.error = "none"
  <2>1. r \in NE!Execute(s.chip, NE!EraseOf(b))
    BY <1>2, <1>4
  <2>2. Asked(s.chip, NE!EraseOf(b), r)
    BY <2>1, <1>1, <1>3, ArrayExecuted, AskedLatched
  <2> QED BY <2>2, <1>3, AskedLatched
<1>5. CASE s.error # "none"
  <2>1. r = s
    BY <1>2, <1>5
  <2> QED BY <2>1, <1>3, <1>5, AskedLatched
<1> QED BY <1>4, <1>5

LEMMA ProgramResult ==
    ASSUME NEW c \in NandChips, c.op = NoOp, NE!NANDAssumption, NEW b \in NandBlock,
           NEW p \in NandPage, NEW d \in NE!Content, NEW r \in NE!ProgramPage(c, b, p, d)
    PROVE  Asked(c, NE!ProgramOf(b, p, d), r)
<1> DEFINE op == NE!ProgramOf(b, p, d)
           LoadCache(s) == NE!Send(s.chip, {s.chip})
<1>1. op \in NE!Operations(NE!Content) /\ op.kind # "load"
  BY DEF NE!ProgramOf, NE!Operations, NE!Content
<1>2. PICK s \in NE!Then(NE!WriteEnableChecked(c), LoadCache) :
          r \in IF s.error = "none" THEN NE!Execute(s.chip, op) ELSE {s}
  BY DEF NE!ProgramPage, NE!Then
<1>3. PICK t \in NE!WriteEnableChecked(c) :
          s \in IF t.error = "none" THEN LoadCache(t) ELSE {t}
  BY <1>2 DEF NE!Then
<1> HIDE DEF op
<1>4. /\ t.mutation = "none" /\ t.error \in {"none"} \cup IOErrors
      /\ t.chip = c \/ t.chip = Latched(c, TRUE)
  BY <1>3, LatchResult
<1>5. /\ s.mutation = "none" /\ s.error \in {"none"} \cup IOErrors /\ s.chip = t.chip
  <2>1. CASE t.error = "none"
    <3>1. s \in NE!Send(t.chip, {t.chip})
      BY <1>3, <2>1
    <3> QED BY <3>1, Sent DEF IOErrors
  <2>2. CASE t.error # "none"
    BY <1>3, <1>4, <2>2
  <2> QED BY <2>1, <2>2
<1>6. s.chip = c \/ s.chip = Latched(c, TRUE)
  BY <1>4, <1>5
<1>7. CASE s.error = "none"
  <2>1. r \in NE!Execute(s.chip, op)
    BY <1>2, <1>7
  <2>2. Asked(s.chip, op, r)
    BY <2>1, <1>1, <1>6, ArrayExecuted, AskedLatched
  <2> QED BY <2>2, <1>6, AskedLatched DEF op
<1>8. CASE s.error # "none"
  <2>1. r = s
    BY <1>2, <1>8
  <2> QED BY <2>1, <1>5, <1>6, <1>8, AskedLatched DEF op
<1> QED BY <1>7, <1>8

(* The part drained within a deadline is idle; one that is not may be busy.    *)
LEMMA DrainResult ==
    ASSUME NEW c, NEW r \in NE!EnsureIdle(c)
    PROVE  \/ r.error = "none" /\ r.chip = NE!Completed(c)
           \/ r.error = "timeout" /\ r.chip = c
BY DEF NE!EnsureIdle, NE!May, NE!Fine, NE!Failing, NE!Result

-----------------------------------------------------------------------------
(* The order of the blocks.  Nth counts them, so that the blocks of a set are *)
(* its Nth ones and later ones are higher.                                  *)
LEMMA NandCounting == \A S : NE!Cardinality(S) = Cardinality(S)
                             /\ (NE!IsFiniteSet(S) <=> IsFiniteSet(S))
BY Zenon DEF NE!Cardinality, NE!IsFiniteSet, Cardinality, IsFiniteSet

LEMMA BlocksInOrder ==
    ASSUME NEW S \in SUBSET Nat, IsFiniteSet(S)
    PROVE  /\ NE!Cardinality(S) \in Nat
           /\ \A i \in 1 .. NE!Cardinality(S) : NE!Nth(S, i) \in S
           /\ \A i, k \in 1 .. NE!Cardinality(S) : i < k => NE!Nth(S, i) < NE!Nth(S, k)
<1> DEFINE Below(b) == {x \in S : x < b}
           rank == [b \in S |-> Cardinality(Below(b)) + 1]
           n == Cardinality(S)
<1>1. n \in Nat /\ n = NE!Cardinality(S)
  BY FS_CardinalityType, NandCounting
<1>2. ASSUME NEW b \in S
      PROVE  IsFiniteSet(Below(b)) /\ Cardinality(Below(b)) \in 0 .. n - 1
  <2>1. Below(b) \in SUBSET S /\ Below(b) # S
    OBVIOUS
  <2>2. IsFiniteSet(Below(b)) /\ Cardinality(Below(b)) <= n /\ Cardinality(Below(b)) # n
    BY <2>1, FS_Subset
  <2>3. Cardinality(Below(b)) \in Nat
    BY <2>2, FS_CardinalityType
  <2> QED BY <2>2, <2>3, <1>1
<1>3. ASSUME NEW b \in S, NEW d \in S, b <= d
      PROVE  Cardinality(Below(b)) <= Cardinality(Below(d))
  <2>1. Below(b) \in SUBSET Below(d)
    <3>1. \A x \in S : x < b => x < d
      BY <1>3
    <3> QED BY <3>1
  <2> QED BY <2>1, <1>2, FS_Subset
<1>4. ASSUME NEW b \in S, NEW d \in S, b < d
      PROVE  Cardinality(Below(b)) # Cardinality(Below(d))
  <2>1. Below(b) \in SUBSET Below(d) /\ b \in Below(d) /\ b \notin Below(b)
    <3>1. \A x \in S : x < b => x < d
      BY <1>4
    <3>2. ~(b < b)
      OBVIOUS
    <3> QED BY <1>4, <3>1, <3>2
  <2> QED BY <2>1, <1>2, FS_Subset
<1> HIDE DEF Below
<1>5. rank \in Injection(S, 1 .. n)
  <2>1. rank \in [S -> 1 .. n]
    BY <1>1, <1>2
  <2>2. \A b, d \in S : rank[b] = rank[d] => b = d
    <3> SUFFICES ASSUME NEW b \in S, NEW d \in S, rank[b] = rank[d], b # d
                 PROVE  FALSE
      OBVIOUS
    <3>1. Cardinality(Below(b)) = Cardinality(Below(d))
      BY <1>2
    <3>2. b < d \/ d < b
      OBVIOUS
    <3> QED BY <3>1, <3>2, <1>4
  <2> QED BY <2>1, <2>2, Fun_IsInj
<1>6. IsFiniteSet(1 .. n) /\ Cardinality(1 .. n) = n
  BY <1>1, FS_Interval
<1>7. rank \in Surjection(S, 1 .. n)
  BY <1>5, <1>6, FS_Injection
<1>8. ASSUME NEW i \in 1 .. n
      PROVE  NE!Nth(S, i) \in S /\ Cardinality(Below(NE!Nth(S, i))) = i - 1
  <2>1. PICK b \in S : rank[b] = i
    BY <1>7 DEF Surjection
  <2>2. Cardinality(Below(b)) = i - 1
    BY <2>1, <1>1, <1>2
  <2>3. \E d \in S : Cardinality({x \in S : x < d}) = i - 1
    BY <2>2 DEF Below
  <2>4. LET d == NE!Nth(S, i) IN d \in S /\ Cardinality({x \in S : x < d}) = i - 1
    BY <2>3, NandCounting, Zenon DEF NE!Nth
  <2> QED BY <2>4 DEF Below
<1>9. ASSUME NEW i \in 1 .. n, NEW k \in 1 .. n, i < k
      PROVE  NE!Nth(S, i) < NE!Nth(S, k)
  <2>1. NE!Nth(S, k) \in Nat /\ NE!Nth(S, i) \in Nat
    BY <1>8
  <2>2. ASSUME NE!Nth(S, k) <= NE!Nth(S, i)
        PROVE  FALSE
    <3>1. k - 1 <= i - 1
      BY <1>3, <1>8, <2>2
    <3> QED BY <3>1, <1>9, <1>1
  <2> QED BY <2>1, <2>2
<1> QED BY <1>1, <1>8, <1>9

LEMMA DivisionWithRest ==
    ASSUME NEW n \in Nat, NEW d \in Nat \ {0}
    PROVE  /\ n \div d \in Nat /\ n % d \in 0 .. d - 1
           /\ n = d * (n \div d) + (n % d)
OBVIOUS

LEMMA QuotientOrder ==
    ASSUME NEW d \in Nat \ {0}, NEW q \in Nat, NEW x \in Nat, q < x
    PROVE  d * q + d <= d * x
<1>1. x - q - 1 \in Nat /\ d * (x - q - 1) >= 0
  OBVIOUS
<1>2. d * x = d * q + d + d * (x - q - 1)
  OBVIOUS
<1> QED BY <1>1, <1>2

-----------------------------------------------------------------------------
(* What the planner promises the executor: steps on good blocks only, a block *)
(* erased before all that is written to it, and no page written twice.        *)
NandStep(good) == [kind : {"erase", "program"}, block : good, page : NandPage,
                   image : 0 .. ImagePages]
Lawful(steps, good, j) ==
    /\ steps \in Seq(NandStep(good)) /\ Len(steps) >= 1
    /\ \A i \in 1 .. Len(steps) :
           /\ j.kind = "erase" => steps[i].kind = "erase"
           /\ steps[i].kind = "program" => steps[i].image \in 1 .. ImagePages
    /\ \A i, k, l \in 1 .. Len(steps) :
           i < k /\ k <= l /\ steps[k].kind = "erase" => steps[i].block # steps[l].block
    /\ \A i, k \in 1 .. Len(steps) :
           i < k /\ steps[i].kind = "program" /\ steps[k].kind = "program"
               => steps[i].block # steps[k].block \/ steps[i].page # steps[k].page

LEMMA Geometry ==
    ASSUME NE!NANDAssumption
    PROVE  /\ NandBlock \in SUBSET Nat /\ IsFiniteSet(NandBlock)
           /\ NE!Cardinality(NandPage) \in Nat \ {0, 1}
           /\ NandPage = 0 .. NE!Cardinality(NandPage) - 1
           /\ ImagePages \in Nat \ {0}
           /\ NE!Cardinality(NandBlock) \in Nat \ {0}
           /\ NandBlock = 0 .. NE!Cardinality(NandBlock) - 1
<1>1. IsFiniteSet(NandBlock) /\ IsFiniteSet(NandPage)
  BY NandCounting DEF NE!NANDAssumption
<1>2. NE!Cardinality(NandPage) \in Nat /\ NE!Cardinality(NandBlock) \in Nat
  BY <1>1, FS_CardinalityType, NandCounting
<1>3. /\ NandPage = 0 .. NE!Cardinality(NandPage) - 1 /\ {0, 1} \subseteq NandPage
      /\ NandBlock = 0 .. NE!Cardinality(NandBlock) - 1 /\ 0 \in NandBlock
      /\ ImagePages \in Nat \ {0}
  BY DEF NE!NANDAssumption
<1> QED BY <1>1, <1>2, <1>3

(* Where a step of a write is: its block in the order, its page, its image.    *)
LEMMA WriteSteps ==
    ASSUME NE!NANDAssumption, NEW order, NEW count \in Nat,
           count = NE!Ceiling(ImagePages, NE!PagesPerBlock),
           NEW i \in 1 .. count + ImagePages
    PROVE  \E q \in 0 .. count - 1, r \in 0 .. NE!PagesPerBlock :
               /\ i - 1 = NE!Stride * q + r
               /\ NE!WriteStep(order, i).block = NE!Nth(order, q + 1)
               /\ r = 0 => NE!WriteStep(order, i) = NE!EraseStep(NE!Nth(order, q + 1))
               /\ r > 0 => /\ NE!WriteStep(order, i).kind = "program"
                           /\ NE!WriteStep(order, i).page = r - 1
                           /\ NE!WriteStep(order, i).image \in 1 .. ImagePages
                           /\ NE!WriteStep(order, i)
                                  \in NandStep({NE!Nth(order, q + 1)})
<1> DEFINE P == NE!PagesPerBlock
<1>1. P \in Nat \ {0, 1} /\ NandPage = 0 .. P - 1 /\ ImagePages \in Nat \ {0}
      /\ NE!Stride = P + 1
  BY Geometry DEF NE!PagesPerBlock, NE!Stride
<1>2. /\ count = (ImagePages + P - 1) \div P /\ i - 1 \in Nat
  BY <1>1 DEF NE!Ceiling
<1> HIDE DEF P
<1>3. PICK q \in Nat, r \in 0 .. P :
          /\ q = (i - 1) \div NE!Stride /\ r = (i - 1) % NE!Stride
          /\ i - 1 = NE!Stride * q + r
  <2>1. NE!Stride \in Nat \ {0} /\ NE!Stride - 1 = P
    BY <1>1
  <2>2. /\ (i - 1) \div NE!Stride \in Nat
        /\ (i - 1) % NE!Stride \in 0 .. NE!Stride - 1
        /\ i - 1 = NE!Stride * ((i - 1) \div NE!Stride) + ((i - 1) % NE!Stride)
    BY <2>1, <1>2, DivisionWithRest
  <2> QED BY <2>1, <2>2
<1>4. PICK rest \in 0 .. P - 1 : ImagePages + P - 1 = P * count + rest
  <2>1. ImagePages + P - 1 \in Nat /\ P \in Nat \ {0}
    BY <1>1
  <2> QED BY <2>1, <1>2, DivisionWithRest
<1> DEFINE pq == P * q
           pn == P * count
<1>5. pq \in Nat /\ pn \in Nat
  BY <1>1, <1>2
<1>6. NE!Stride * q = pq + q
  BY <1>1
<1>7. /\ count <= q => pn <= pq
      /\ q + 1 < count => pq + P + P <= pn
  <2>1. count < q => pn + P <= pq
    BY <1>1, QuotientOrder
  <2>2. q + 1 < count => P * (q + 1) + P <= pn
    BY <1>1, QuotientOrder
  <2>3. P * (q + 1) = pq + P
    BY <1>1
  <2>4. count = q => pn = pq
    OBVIOUS
  <2> HIDE DEF pq, pn
  <2> QED BY <2>1, <2>2, <2>3, <2>4, <1>1, <1>5
<1>8. /\ i - 1 = pq + q + r /\ ImagePages + P - 1 = pn + rest
  BY <1>3, <1>4, <1>6
<1> HIDE DEF pq, pn
<1>15. q < count
  BY <1>1, <1>5, <1>7, <1>8
<1>16. ASSUME r > 0
       PROVE  i - 1 - q \in 1 .. ImagePages
  <2>1. i - 1 - q = pq + r
    BY <1>5, <1>8
  <2>2. CASE q + 1 = count
    BY <2>1, <2>2, <1>1, <1>5, <1>16
  <2>3. CASE q + 1 < count
    BY <2>1, <2>3, <1>1, <1>5, <1>7, <1>8, <1>16
  <2> QED BY <2>2, <2>3, <1>15
<1>9. q \in 0 .. count - 1 /\ r \in 0 .. NE!PagesPerBlock
  BY <1>3, <1>15 DEF P
<1>10. NE!WriteStep(order, i) =
          IF r = 0 THEN NE!EraseStep(NE!Nth(order, q + 1))
          ELSE NE!ProgramStep(NE!Nth(order, q + 1), r - 1, i - 1 - q)
  BY <1>3 DEF NE!WriteStep
<1>11. r > 0 => r - 1 \in NandPage /\ i - 1 - q \in 0 .. ImagePages
  BY <1>1, <1>16
<1>12. NE!WriteStep(order, i).block = NE!Nth(order, q + 1)
  BY <1>10 DEF NE!EraseStep, NE!ProgramStep
<1>13. r > 0 => /\ NE!WriteStep(order, i).kind = "program"
                /\ NE!WriteStep(order, i).page = r - 1
                /\ NE!WriteStep(order, i).image \in 1 .. ImagePages
                /\ NE!WriteStep(order, i) \in NandStep({NE!Nth(order, q + 1)})
  BY <1>16, <1>10, <1>11 DEF NE!ProgramStep, NandStep
<1>14. r = 0 => NE!WriteStep(order, i) = NE!EraseStep(NE!Nth(order, q + 1))
  BY <1>10
<1> QED BY <1>3, <1>9, <1>12, <1>13, <1>14

LEMMA PlanIsLawful ==
    ASSUME NE!NANDAssumption, NEW good \in SUBSET NandBlock, NEW j \in Jobs,
           NE!PlanFor(good, j) # NoPlan
    PROVE  Lawful(NE!PlanFor(good, j), good, j)
<1> DEFINE order == IF j.skip THEN good ELSE NandBlock
           count == IF j.kind = "write" THEN NE!Ceiling(ImagePages, NE!PagesPerBlock)
                    ELSE NE!Cardinality(order)
           steps == IF j.kind = "write"
                    THEN [i \in 1 .. count + ImagePages |-> NE!WriteStep(order, i)]
                    ELSE [i \in 1 .. count |-> NE!EraseStep(NE!Nth(order, i))]
<1>1. /\ count \in 1 .. NE!Cardinality(order)
      /\ \A i \in DOMAIN steps : steps[i].block \in good
      /\ NE!PlanFor(good, j) = steps
  BY DEF NE!PlanFor
<1>2. order \in SUBSET Nat /\ IsFiniteSet(order)
  BY Geometry, FS_Subset
<1>3. j.kind \in {"write", "erase"}
  BY DEF NE!NANDAssumption
<1> HIDE DEF order
<1>4. /\ NE!Cardinality(order) \in Nat
      /\ \A i \in 1 .. NE!Cardinality(order) : NE!Nth(order, i) \in Nat
      /\ \A i, k \in 1 .. NE!Cardinality(order) :
             i < k => NE!Nth(order, i) < NE!Nth(order, k)
  BY <1>2, BlocksInOrder
<1>5. ImagePages \in Nat \ {0} /\ 0 \in NandPage /\ NE!PagesPerBlock \in Nat \ {0, 1}
  BY Geometry DEF NE!PagesPerBlock
<1> SUFFICES Lawful(steps, good, j)
  BY <1>1
<1>6. CASE j.kind = "erase"
  <2>1. steps = [i \in 1 .. count |-> NE!EraseStep(NE!Nth(order, i))]
    BY <1>6
  <2>2. count \in Nat /\ count >= 1 /\ count <= NE!Cardinality(order)
    BY <1>1, <1>4
  <2> HIDE DEF count, steps
  <2>3. \A i \in 1 .. count : /\ steps[i].kind = "erase" /\ steps[i].block = NE!Nth(order, i)
                              /\ steps[i] \in NandStep(good)
    <3> SUFFICES ASSUME NEW i \in 1 .. count
                 PROVE  /\ steps[i].kind = "erase" /\ steps[i].block = NE!Nth(order, i)
                        /\ steps[i] \in NandStep(good)
      OBVIOUS
    <3>1. steps[i] = NE!EraseStep(NE!Nth(order, i)) /\ i \in DOMAIN steps
      BY <2>1
    <3>2. steps[i].block \in good
      BY <3>1, <1>1
    <3> QED BY <3>1, <3>2, <1>5 DEF NE!EraseStep, NandStep
  <2>4. steps \in Seq(NandStep(good)) /\ Len(steps) = count
    BY <2>1, <2>2, <2>3
  <2>5. \A i, l \in 1 .. count : i < l => steps[i].block # steps[l].block
    <3>1. \A i, l \in 1 .. count : i < l =>
            NE!Nth(order, i) < NE!Nth(order, l) /\ NE!Nth(order, i) \in Nat
      BY <2>2, <1>4
    <3> QED BY <2>3, <3>1
  <2>6. \A i, k, l \in 1 .. count : i < k /\ k <= l => i < l
    BY <2>2
  <2>7. \A i \in 1 .. count : steps[i].kind # "program"
    BY <2>3
  <2> QED BY <2>2, <2>3, <2>4, <2>5, <2>6, <2>7 DEF Lawful
<1>7. CASE j.kind = "write"
  <2> DEFINE n == count + ImagePages
  <2>1. /\ count = NE!Ceiling(ImagePages, NE!PagesPerBlock)
        /\ steps = [i \in 1 .. n |-> NE!WriteStep(order, i)]
    BY <1>7
  <2>2. count \in Nat /\ count >= 1 /\ count <= NE!Cardinality(order) /\ n \in Nat /\ n >= 1
    BY <1>1, <1>4, <1>5
  <2> HIDE DEF count, steps
  <2>3. \A i \in 1 .. n :
          \E q \in 0 .. count - 1, r \in 0 .. NE!PagesPerBlock :
             /\ i - 1 = NE!Stride * q + r
             /\ steps[i].block = NE!Nth(order, q + 1)
             /\ r = 0 => steps[i] = NE!EraseStep(NE!Nth(order, q + 1))
             /\ r > 0 => /\ steps[i].kind = "program" /\ steps[i].page = r - 1
                         /\ steps[i].image \in 1 .. ImagePages
                         /\ steps[i] \in NandStep({NE!Nth(order, q + 1)})
    BY <2>1, <2>2, WriteSteps
  <2> HIDE DEF n
  <2>4. \A i \in 1 .. n :
          /\ steps[i] \in NandStep(good)
          /\ steps[i].kind = "program" => steps[i].image \in 1 .. ImagePages
    <3> SUFFICES ASSUME NEW i \in 1 .. n
                 PROVE  /\ steps[i] \in NandStep(good)
                        /\ steps[i].kind = "program" => steps[i].image \in 1 .. ImagePages
      OBVIOUS
    <3>1. PICK q \in 0 .. count - 1, r \in 0 .. NE!PagesPerBlock :
             /\ steps[i].block = NE!Nth(order, q + 1)
             /\ r = 0 => steps[i] = NE!EraseStep(NE!Nth(order, q + 1))
             /\ r > 0 => /\ steps[i].image \in 1 .. ImagePages
                         /\ steps[i] \in NandStep({NE!Nth(order, q + 1)})
      BY <2>3
    <3>2. i \in DOMAIN steps
      BY <2>1
    <3>3. NE!Nth(order, q + 1) \in good
      BY <3>1, <3>2, <1>1
    <3> QED BY <3>1, <3>3, <1>5 DEF NE!EraseStep, NandStep
  <2>5. steps \in Seq(NandStep(good)) /\ Len(steps) = n
    BY <2>1, <2>2, <2>4
  <2>6. ASSUME NEW i \in 1 .. n, NEW k \in 1 .. n, NEW l \in 1 .. n,
               i < k, k <= l, steps[k].kind = "erase"
        PROVE  steps[i].block # steps[l].block
    <3>1. PICK q \in 0 .. count - 1, r \in 0 .. NE!PagesPerBlock :
            i - 1 = NE!Stride * q + r /\ steps[i].block = NE!Nth(order, q + 1)
      BY <2>3
    <3>2. PICK x \in 0 .. count - 1, s \in 0 .. NE!PagesPerBlock :
            k - 1 = NE!Stride * x + s /\ (s > 0 => steps[k].kind = "program")
      BY <2>3
    <3>3. PICK y \in 0 .. count - 1, t \in 0 .. NE!PagesPerBlock :
            l - 1 = NE!Stride * y + t /\ steps[l].block = NE!Nth(order, y + 1)
      BY <2>3
    <3>4. NE!Stride \in Nat \ {0} /\ NE!Stride = NE!PagesPerBlock + 1
      BY <1>5 DEF NE!Stride
    <3>5. s = 0
      BY <3>2, <2>6
    <3>6. q < x
      <4>1. NE!Stride * q \in Nat /\ NE!Stride * x \in Nat
        BY <3>4, <2>2
      <4>2. x < q => NE!Stride * x + NE!Stride <= NE!Stride * q
        BY <3>4, <2>2, QuotientOrder
      <4> QED BY <3>1, <3>2, <3>4, <3>5, <4>1, <4>2, <2>6, <2>2
    <3>7. x <= y
      <4>1. NE!Stride * y \in Nat /\ NE!Stride * x \in Nat
        BY <3>4, <2>2
      <4>2. y < x => NE!Stride * y + NE!Stride <= NE!Stride * x
        BY <3>4, <2>2, QuotientOrder
      <4> QED BY <3>2, <3>3, <3>4, <4>1, <4>2, <2>6, <2>2, <1>5
    <3>8. q + 1 \in 1 .. NE!Cardinality(order) /\ y + 1 \in 1 .. NE!Cardinality(order)
          /\ q + 1 < y + 1
      BY <3>6, <3>7, <2>2, <1>4
    <3>9. NE!Nth(order, q + 1) < NE!Nth(order, y + 1) /\ NE!Nth(order, q + 1) \in Nat
      BY <3>8, <1>4
    <3> QED BY <3>1, <3>3, <3>9
  <2>7. ASSUME NEW i \in 1 .. n, NEW k \in 1 .. n, i < k,
               steps[i].kind = "program", steps[k].kind = "program",
               steps[i].block = steps[k].block
        PROVE  steps[i].page # steps[k].page
    <3>1. PICK q \in 0 .. count - 1, r \in 0 .. NE!PagesPerBlock :
            /\ i - 1 = NE!Stride * q + r /\ steps[i].block = NE!Nth(order, q + 1)
            /\ r = 0 => steps[i] = NE!EraseStep(NE!Nth(order, q + 1))
            /\ r > 0 => steps[i].page = r - 1
      BY <2>3
    <3>2. PICK x \in 0 .. count - 1, s \in 0 .. NE!PagesPerBlock :
            /\ k - 1 = NE!Stride * x + s /\ steps[k].block = NE!Nth(order, x + 1)
            /\ s = 0 => steps[k] = NE!EraseStep(NE!Nth(order, x + 1))
            /\ s > 0 => steps[k].page = s - 1
      BY <2>3
    <3>3. r > 0 /\ s > 0
      BY <3>1, <3>2, <2>7, <1>5 DEF NE!EraseStep
    <3>4. q = x
      <4>1. q + 1 \in 1 .. NE!Cardinality(order) /\ x + 1 \in 1 .. NE!Cardinality(order)
        BY <2>2, <1>4
      <4>2. NE!Nth(order, q + 1) = NE!Nth(order, x + 1) /\ NE!Nth(order, q + 1) \in Nat
        BY <3>1, <3>2, <2>7, <4>1, <1>4
      <4>3. ~(q + 1 < x + 1) /\ ~(x + 1 < q + 1)
        BY <4>1, <4>2, <1>4
      <4> QED BY <4>3, <2>2
    <3>5. r # s
      BY <3>1, <3>2, <3>4, <2>7
    <3> QED BY <3>1, <3>2, <3>3, <3>5, <1>5
  <2>8. /\ j.kind # "erase" /\ Len(steps) >= 1
    BY <1>7, <2>2, <2>5
  <2> QED BY <2>4, <2>5, <2>6, <2>7, <2>8 DEF Lawful
<1> QED BY <1>3, <1>6, <1>7

(* The pages of the backup are pages of good blocks.                        *)
LEMMA BackupPages ==
    ASSUME NE!NANDAssumption, NEW good \in SUBSET NandBlock, good # {}
    PROVE  /\ NE!Cardinality(good) * NE!PagesPerBlock \in Nat \ {0}
           /\ \A i \in 1 .. NE!Cardinality(good) * NE!PagesPerBlock :
                /\ NE!Nth(good, (i - 1) \div NE!PagesPerBlock + 1) \in good
                /\ (i - 1) % NE!PagesPerBlock \in NandPage
<1> DEFINE P == NE!PagesPerBlock
           m == NE!Cardinality(good)
<1>1. P \in Nat \ {0, 1} /\ NandPage = 0 .. P - 1
  BY Geometry DEF NE!PagesPerBlock
<1>2. good \in SUBSET Nat /\ IsFiniteSet(good)
  BY Geometry, FS_Subset
<1>3. m \in Nat /\ \A i \in 1 .. m : NE!Nth(good, i) \in good
  BY <1>2, BlocksInOrder
<1>4. m # 0
  BY <1>2, FS_EmptySet, NandCounting
<1> HIDE DEF P, m
<1>5. m * P \in Nat \ {0}
  BY <1>1, <1>3, <1>4
<1>6. ASSUME NEW i \in 1 .. m * P
      PROVE  (i - 1) \div P + 1 \in 1 .. m /\ (i - 1) % P \in 0 .. P - 1
  <2>1. i - 1 \in Nat /\ P \in Nat \ {0}
    BY <1>1, <1>5
  <2>2. PICK q \in Nat, r \in 0 .. P - 1 :
            q = (i - 1) \div P /\ r = (i - 1) % P /\ i - 1 = P * q + r
    BY <2>1, DivisionWithRest
  <2>3. q < m
    <3> DEFINE pq == P * q
               pm == P * m
    <3>1. pq \in Nat /\ pm = m * P /\ pm \in Nat
      BY <1>1, <1>3
    <3>2. m < q => pm + P <= pq
      BY <1>1, <1>3, QuotientOrder
    <3>3. m = q => pm = pq
      OBVIOUS
    <3>4. i - 1 = pq + r /\ i <= pm
      BY <2>2, <3>1, <1>5
    <3> HIDE DEF pq, pm
    <3> QED BY <3>1, <3>2, <3>3, <3>4, <1>1, <1>3
  <2>4. q + 1 \in 1 .. m
    BY <2>3, <1>3
  <2> QED BY <2>2, <2>4
<1> QED BY <1>1, <1>3, <1>5, <1>6 DEF P, m

-----------------------------------------------------------------------------
(***************************************************************************)
(* The run of a job.  What it promises is about its end, so the invariant    *)
(* says at every point what is known of the blocks, what of the plan the part *)
(* holds, what may be at work in it and what the session found.              *)
(***************************************************************************)
NandScanning == {"getECC", "disableECC", "readMarker", "restoreECC"}
NandPreparing == {"enableECC", "readBackup", "publish"}
NandCapturing == {"captureProtection", "captureConfiguration"}
NandMutating == {"unlock", "mutationECC", "step", "verify"}
NandRestoring == {"disableWrites", "restoreConfiguration", "restoreProtection"}
NandPlaces == NandScanning \cup {"plan"} \cup NandPreparing \cup NandCapturing
              \cup NandMutating \cup {"drain"} \cup NandRestoring \cup {"done"}

NandCodes == {"none", "uncorrectable", "invalidPlan", "noBackup", "protection", "cancelled",
              "eraseFailed", "programFailed", "mismatch", "unknownBusy", "cleanupFailed"}
             \cup IOErrors

NandTypes ==
    /\ NE!TypeOK
    /\ markers \in MarkerSets /\ job \in Jobs /\ pc \in NandPlaces /\ ecc \in BOOLEAN
    /\ report \in [success : BOOLEAN, code : NandCodes,
                   disposition : {"noArrayMutation", "arrayIdle", "arrayBusyUnknown",
                                  "deviceStateUnknown"},
                   cleanupFailed : BOOLEAN]

(* The array is at work only where the run knows that it may be.             *)
NandAtRest ==
    /\ pc \notin {"restoreECC", "drain", "done"} => chip.op = NoOp
    /\ pc = "restoreECC" /\ report.code = "none" => chip.op = NoOp
    /\ report.disposition = "arrayIdle" => chip.op = NoOp

(* Until a command may have been issued the array is as it was.              *)
NandUntouched ==
    ~session.mayHaveIssued =>
        chip.cells = before.cells /\ (chip.op # NoOp => chip.op.kind = "load")

(* How the session and the report go with the place of the run.              *)
NandReports ==
    /\ pc \in NandScanning \cup {"plan"} \cup NandPreparing \cup NandCapturing =>
           ~session.taken
    /\ ~session.taken => ~session.mayHaveIssued /\ ~session.mayBeEnabled
    /\ session.mayHaveIssued => session.mayBeEnabled
    /\ pc \in NandMutating \cup {"drain"} \cup NandRestoring => session.taken
    /\ pc \notin NandRestoring \cup {"drain", "done"} =>
           ~report.success /\ (pc # "restoreECC" => report.code = "none")
    /\ pc \notin NandRestoring \cup {"done"} =>
           report.disposition = "noArrayMutation" /\ ~report.cleanupFailed
    /\ pc \in NandRestoring \cup {"done"} /\ report.disposition = "noArrayMutation" =>
           ~session.mayHaveIssued
    /\ pc \in {"restoreConfiguration", "restoreProtection", "done"} /\ session.mayBeEnabled
           /\ ~report.cleanupFailed => ~chip.wel
    /\ pc \in {"step", "verify"} => (at > 1 \/ pc = "verify" => session.mayHaveIssued)
    /\ report.success => session.mayHaveIssued /\ (pc = "done" => ~report.cleanupFailed)
    /\ report.code = "cancelled" =>
           session.taken /\ pc \in NandRestoring \cup {"drain", "done"}

(* The map is that of the markers, the plan lawful on it, and the backup that *)
(* of its blocks, each from where the run has it.                           *)
GoodMap == map \subseteq NandBlock /\ \A b \in map : markers[b] \cap {0, 1} = {}
PageWas(i) == before.cells[NE!GoodPages[i].block][NE!GoodPages[i].page]
BackedUp == backup = [i \in DOMAIN NE!GoodPages |-> PageWas(i)]

NandKnows ==
    /\ pc \in {"getECC", "disableECC"} => at = 0
    /\ pc = "readMarker" =>
           /\ map \subseteq NandBlock /\ at < NE!MarkersToRead
           /\ \A b \in map : /\ 2 * b < at /\ 0 \notin markers[b]
                             /\ 2 * b + 1 < at => 1 \notin markers[b]
    /\ pc = "restoreECC" /\ report.code = "none" => GoodMap
    /\ pc \in {"plan"} \cup NandPreparing \cup NandCapturing \/ session.taken => GoodMap
    /\ pc \in NandPreparing \cup NandCapturing \/ session.taken => Lawful(plan, map, job)
    /\ pc \in NandCapturing \/ session.taken => BackedUp
    /\ session.taken =>
           /\ \A b \in NandBlock \ map : chip.cells[b] = before.cells[b]
           /\ chip.op # NoOp /\ chip.op.kind # "load" => chip.op.block \in map

(* A pass of the backup has read what there was, or has misread something.     *)
ReadSoFar(k, n) == reads[k] = <<Noise, k>> \/ reads[k] = [i \in 1 .. n |-> PageWas(i)]

NandReads ==
    pc \in NandPreparing =>
        LET n == Len(NE!GoodPages)
        IN  /\ at <= 2 * n
            /\ pc = "enableECC" => at = 0 \/ at = n
            /\ pc = "readBackup" => at < 2 * n
            /\ pc = "publish" => at = 2 * n
            /\ reads = [k \in {1, 2} |-> reads[k]]
            /\ at < n => ReadSoFar(1, at) /\ ReadSoFar(2, 0)
            /\ at >= n => ReadSoFar(1, n) /\ ReadSoFar(2, at - n)

(* The steps before the present one hold, and no block of a later one has     *)
(* changed; a success and a stop are at rest.                               *)
StepHolds(i) ==
    IF plan[i].kind = "program"
    THEN chip.cells[plan[i].block][plan[i].page] = plan[i].image
    ELSE job.kind = "erase" => \A p \in NandPage : chip.cells[plan[i].block][p] = Blank

NandProgress ==
    /\ pc \in {"step", "verify"} \/ report.success \/ report.code = "cancelled" =>
           /\ at \in 1 .. Len(plan) + 1 /\ chip.op = NoOp
           /\ \A i \in 1 .. at - 1 : StepHolds(i)
           /\ \A b \in NandBlock :
                  (\A i \in 1 .. (IF pc = "verify" THEN at ELSE at - 1) : plan[i].block # b)
                      => chip.cells[b] = before.cells[b]
    /\ pc \in {"unlock", "mutationECC"} => chip.cells = before.cells
    /\ report.success => at = Len(plan) + 1
    /\ report.code = "cancelled" => at <= Len(plan) /\ plan[at].kind = "erase"
    /\ pc = "verify" =>
           /\ at <= Len(plan) /\ blank < NE!PagesPerBlock
           /\ plan[at].kind = "erase" =>
                  /\ job.kind = "erase"
                  /\ \A p \in NandPage : p < blank => chip.cells[plan[at].block][p] = Blank

NandInv ==
    /\ NandTypes /\ NandAtRest /\ NandUntouched /\ NandReports /\ NandKnows /\ NandReads
    /\ NandProgress

(* The registers, where a feature register never reads FF for no reason.      *)
NandRegisters ==
    /\ pc \in NandScanning \cup {"plan"} \cup NandPreparing \cup NandCapturing =>
           /\ chip.protection = before.protection
           /\ chip.configuration \ {"ECC"} = before.configuration \ {"ECC"}
    /\ pc \in {"readBackup", "publish"} \cup NandCapturing => "ECC" \in chip.configuration
    /\ pc = "captureConfiguration" \/ session.taken => session.protection = before.protection
    /\ session.taken => session.configuration = NE!WithECC(before.configuration, TRUE)
    /\ pc = "restoreProtection" /\ ~report.cleanupFailed =>
           chip.configuration = session.configuration
    /\ pc = "done" /\ session.taken /\ ~report.cleanupFailed => NE!Inherited

(* What the invariant says of the scan, the plan and the backup stays while   *)
(* these do, and what it says of the array while the array does.             *)
LEMMA NandKept ==
    ASSUME UNCHANGED <<before, markers, job, map, plan, backup>>
    PROVE  /\ GoodMap' = GoodMap /\ BackedUp' = BackedUp
           /\ \A i : StepHolds(i)' = (IF plan[i].kind = "program"
                 THEN chip'.cells[plan[i].block][plan[i].page] = plan[i].image
                 ELSE job.kind = "erase" =>
                          \A p \in NandPage : chip'.cells[plan[i].block][p] = Blank)
           /\ NE!GoodPages' = NE!GoodPages
           /\ \A i : PageWas(i)' = PageWas(i)
<1>1. GoodMap' = GoodMap
  BY DEF GoodMap
<1>2. NE!GoodPages' = NE!GoodPages
  BY DEF NE!GoodPages
<1>3. \A i : PageWas(i)' = PageWas(i)
  BY <1>2 DEF PageWas
<1>4. BackedUp' = BackedUp
  BY <1>2, <1>3 DEF BackedUp
<1> QED BY <1>1, <1>2, <1>3, <1>4 DEF StepHolds

(* A change to the part that the array does not see.                        *)
Quiet(c, d) ==
    /\ d \in NandChips /\ d.cells = c.cells
    /\ \/ d.op \in {c.op, NoOp}
       \/ c.op = NoOp /\ d.op \in NE!Operations(NE!Content) /\ d.op.kind = "load"

LEMMA QuietChanges ==
    ASSUME NEW c \in NandChips
    PROVE  /\ Quiet(c, c)
           /\ \A bits \in SUBSET NE!ConfigurationBits :
                  Quiet(c, Configured(c, bits)) /\ Configured(c, bits).op = c.op
                  /\ Configured(c, bits).wel = c.wel
                  /\ Configured(c, bits).protection = c.protection
                  /\ Configured(c, bits).configuration = bits
           /\ \A bits \in SUBSET NE!ProtectionBits :
                  Quiet(c, Protected(c, bits)) /\ Protected(c, bits).op = c.op
                  /\ Protected(c, bits).wel = c.wel
                  /\ Protected(c, bits).protection = bits
                  /\ Protected(c, bits).configuration = c.configuration
           /\ \A w \in BOOLEAN :
                  Quiet(c, Latched(c, w)) /\ Latched(c, w).op = c.op
                  /\ Latched(c, w).wel = w
                  /\ Latched(c, w).protection = c.protection
                  /\ Latched(c, w).configuration = c.configuration
           /\ \A b \in NandBlock, p \in NandPage :
                  c.op = NoOp /\ NE!NANDAssumption =>
                      Quiet(c, Working(c, NE!Load(b, p)))
                      /\ Registers(Working(c, NE!Load(b, p))) = Registers(c)
                      /\ Working(c, NE!Load(b, p)).wel = c.wel
<1>1. Quiet(c, c)
  BY DEF Quiet
<1>2. ASSUME NEW bits \in SUBSET NE!ConfigurationBits
      PROVE  Quiet(c, Configured(c, bits)) /\ Configured(c, bits).op = c.op
                  /\ Configured(c, bits).wel = c.wel
                  /\ Configured(c, bits).protection = c.protection
                  /\ Configured(c, bits).configuration = bits
  BY DEF Quiet, Configured, NandChips, NE!Chips
<1>3. ASSUME NEW bits \in SUBSET NE!ProtectionBits
      PROVE  Quiet(c, Protected(c, bits)) /\ Protected(c, bits).op = c.op
                  /\ Protected(c, bits).wel = c.wel
                  /\ Protected(c, bits).protection = bits
                  /\ Protected(c, bits).configuration = c.configuration
  BY DEF Quiet, Protected, NandChips, NE!Chips
<1>4. ASSUME NEW w \in BOOLEAN
      PROVE  Quiet(c, Latched(c, w)) /\ Latched(c, w).op = c.op
                  /\ Latched(c, w).wel = w
                  /\ Latched(c, w).protection = c.protection
                  /\ Latched(c, w).configuration = c.configuration
  BY DEF Quiet, Latched, NandChips, NE!Chips
<1>5. ASSUME NEW b \in NandBlock, NEW p \in NandPage, c.op = NoOp, NE!NANDAssumption
      PROVE  Quiet(c, Working(c, NE!Load(b, p)))
             /\ Registers(Working(c, NE!Load(b, p))) = Registers(c)
             /\ Working(c, NE!Load(b, p)).wel = c.wel
  <2> DEFINE l == NE!Load(b, p)
  <2>1. l \in NE!Operations(NE!Content) /\ l.kind = "load"
    BY <1>5, PageLoaded
  <2> HIDE DEF l
  <2>2. Quiet(c, Working(c, l)) /\ Registers(Working(c, l)) = Registers(c)
        /\ Working(c, l).wel = c.wel
    BY <1>5, <2>1 DEF Quiet, Working, NandChips, NE!Chips, Registers
  <2> QED BY <2>2 DEF l
<1> QED BY <1>1, <1>2, <1>3, <1>4, <1>5

(* A run that ends before its session has changed nothing.                   *)
LEMMA NandStops ==
    ASSUME NandInv, ~session.taken, pc # "done", NEW code \in NandCodes, code # "cancelled",
           Quiet(chip, chip'), NE!FailWith(code), NE!Goto("done"),
           UNCHANGED <<before, markers, job, blank, session, ecc>>,
           at' \in Nat, map' = NoMap \/ map' \subseteq NandBlock,
           plan' = NoPlan \/ \A i \in DOMAIN plan' :
               plan'[i] \in [kind : {"erase", "program"}, block : NandBlock,
                             page : NandPage, image : 0 .. ImagePages]
    PROVE  NandInv'
<1>1. /\ pc' = "done" /\ report' = [report EXCEPT !.code = code]
      /\ pc \notin NandMutating \cup {"drain"} \cup NandRestoring \cup {"done"}
  BY DEF NE!FailWith, NE!Goto, NandInv, NandReports
<1>2. /\ report' \in [success : BOOLEAN, code : NandCodes,
                   disposition : {"noArrayMutation", "arrayIdle", "arrayBusyUnknown",
                                  "deviceStateUnknown"},
                   cleanupFailed : BOOLEAN]
      /\ report'.code = code /\ ~report'.success /\ report'.disposition = "noArrayMutation"
  BY <1>1 DEF NandInv, NandTypes, NandReports
<1>3. ~session.mayHaveIssued /\ ~session.mayBeEnabled
  BY DEF NandInv, NandReports
<1>4. NandTypes'
  BY <1>1, <1>2 DEF NandInv, NandTypes, NE!TypeOK, NandPlaces, Quiet, NandChips
<1>5. NandAtRest' /\ NandUntouched'
  BY <1>1, <1>2, <1>3 DEF NandInv, NandAtRest, NandUntouched, Quiet
<1>6. NandReports'
  BY <1>1, <1>2, <1>3 DEF NandReports, NandScanning, NandPreparing, NandCapturing,
         NandMutating, NandRestoring
<1>7. NandKnows' /\ NandReads' /\ NandProgress'
  BY <1>1, <1>2 DEF NandKnows, NandReads, NandProgress, NandPreparing, NandCapturing
<1> QED BY <1>4, <1>5, <1>6, <1>7 DEF NandInv

NandSteps == [kind : {"erase", "program"}, block : NandBlock, page : NandPage,
              image : 0 .. ImagePages]
NandReportTypes == [success : BOOLEAN, code : NandCodes,
                    disposition : {"noArrayMutation", "arrayIdle", "arrayBusyUnknown",
                                   "deviceStateUnknown"},
                    cleanupFailed : BOOLEAN]
NandBefore == NandScanning \cup {"plan"} \cup NandPreparing \cup NandCapturing

(* A step that goes on before the session has still changed nothing.          *)
LEMMA NandGoesOn ==
    ASSUME NandInv, ~session.taken, Quiet(chip, chip'), pc' \in NandBefore,
           UNCHANGED <<before, markers, job, blank>>,
           session' \in [taken : {FALSE}, protection : SUBSET NE!ProtectionBits,
                         configuration : SUBSET NE!ConfigurationBits,
                         mayHaveIssued : {FALSE}, mayBeEnabled : {FALSE}],
           NEW code \in NandCodes, code # "cancelled", report' = [report EXCEPT !.code = code],
           ~report.success, report.disposition = "noArrayMutation", ~report.cleanupFailed,
           pc' # "restoreECC" => code = "none",
           chip'.op = NoOp \/ (pc' = "restoreECC" /\ code # "none"),
           at' \in Nat, map' = NoMap \/ map' \subseteq NandBlock, ecc' \in BOOLEAN,
           plan' = NoPlan \/ \A i \in DOMAIN plan' : plan'[i] \in NandSteps,
           NandKnows', NandReads'
    PROVE  NandInv'
<1>1. /\ report' \in NandReportTypes /\ report'.code = code /\ ~report'.success
      /\ report'.disposition = "noArrayMutation" /\ ~report'.cleanupFailed
  BY DEF NandInv, NandTypes, NandReportTypes
<1>2. ~session'.taken /\ ~session'.mayHaveIssued /\ ~session'.mayBeEnabled
  OBVIOUS
<1>3. ~session.mayHaveIssued
  BY DEF NandInv, NandReports
<1>4. NandTypes'
  BY <1>1 DEF NandInv, NandTypes, NE!TypeOK, NandPlaces, Quiet, NandChips, NandBefore,
         NandSteps, NandReportTypes, NandScanning, NandPreparing, NandCapturing
<1>5. NandAtRest' /\ NandUntouched'
  BY <1>1, <1>2, <1>3 DEF NandInv, NandAtRest, NandUntouched, Quiet, NandBefore,
         NandScanning, NandPreparing, NandCapturing
<1>6. NandReports'
  BY <1>1, <1>2, <1>3 DEF NandReports, NandScanning, NandPreparing, NandCapturing,
         NandMutating, NandRestoring, NandBefore
<1>7. NandProgress'
  BY <1>1, <1>2 DEF NandProgress, NandPreparing, NandCapturing, NandBefore, NandScanning
<1> QED BY <1>4, <1>5, <1>6, <1>7 DEF NandInv

LEMMA NandInit ==
    ASSUME NE!NANDAssumption, NE!Init
    PROVE  NandInv /\ NandRegisters
<1>1. PICK p \in SUBSET {"BP"}, c \in SUBSET {"ECC", "BUF"}, w \in BOOLEAN :
          chip = [cells |-> [b \in NandBlock |-> [q \in NandPage |-> Old]],
                  protection |-> p, configuration |-> c, wel |-> w, op |-> NoOp]
  BY DEF NE!Init
<1>2. chip \in NandChips /\ chip.op = NoOp /\ before = chip
  BY <1>1 DEF NE!Init, NandChips, NE!Chips, NE!Content, NE!ProtectionBits, NE!ConfigurationBits
<1>3. /\ pc = "getECC" /\ at = 0 /\ blank = 0 /\ map = NoMap /\ plan = NoPlan
      /\ ecc = FALSE /\ session = NE!NoSession /\ report = NE!NoReport
      /\ markers \in MarkerSets /\ job \in Jobs
  BY DEF NE!Init
<1>4. NandTypes
  <2>1. 0 \in 0 .. NE!Cardinality(NandPage)
    BY Geometry
  <2>4. report \in NandReportTypes
    BY <1>3 DEF NE!NoReport, NandReportTypes, NandCodes
  <2>5. {} \in SUBSET NE!ProtectionBits /\ {} \in SUBSET NE!ConfigurationBits
    OBVIOUS
  <2>2. /\ session \in [taken : BOOLEAN, protection : SUBSET NE!ProtectionBits,
                         configuration : SUBSET NE!ConfigurationBits,
                         mayHaveIssued : BOOLEAN, mayBeEnabled : BOOLEAN]
        /\ report \in NandReportTypes
    BY <1>3, <2>4, <2>5 DEF NE!NoSession
  <2>3. NE!TypeOK
    BY <1>2, <1>3, <2>1, <2>2 DEF NE!TypeOK, NandChips, NandReportTypes
  <2> QED BY <1>3, <2>2, <2>3 DEF NandTypes, NandReportTypes, NandPlaces, NandScanning
<1>5. NandAtRest /\ NandUntouched
  BY <1>2, <1>3 DEF NandAtRest, NandUntouched, NE!NoReport
<1>6. NandReports
  BY <1>2, <1>3 DEF NandReports, NandScanning, NandPreparing, NandCapturing, NandMutating,
         NandRestoring, NE!NoSession, NE!NoReport
<1>7. NandKnows /\ NandReads /\ NandProgress /\ NandRegisters
  BY <1>2, <1>3 DEF NandKnows, NandReads, NandProgress, NandRegisters, NandPreparing,
         NandCapturing, NE!NoSession, NE!NoReport, NandScanning
<1> QED BY <1>4, <1>5, <1>6, <1>7 DEF NandInv

(* A failure that ends the run before its session.                          *)
LEMMA NandGivesUp ==
    ASSUME NandInv, ~session.taken, pc # "done", NEW code \in NandCodes, code # "cancelled",
           Quiet(chip, chip'), NE!Stop(code), UNCHANGED <<before, markers, job, blank>>
    PROVE  NandInv'
<1>1. NE!FailWith(code) /\ NE!Goto("done") /\ UNCHANGED <<at, map, plan, session, ecc>>
  BY DEF NE!Stop
<1>2. at \in Nat /\ (map = NoMap \/ map \subseteq NandBlock)
      /\ (plan = NoPlan \/ \A i \in DOMAIN plan :
               plan[i] \in [kind : {"erase", "program"}, block : NandBlock,
                             page : NandPage, image : 0 .. ImagePages])
  BY DEF NandInv, NandTypes, NE!TypeOK
<1> QED BY <1>1, <1>2, NandStops

(* The places before the session, where the report says nothing yet.          *)
LEMMA NandStarts ==
    ASSUME NandInv, pc \in NandBefore
    PROVE  /\ ~session.taken /\ ~session.mayHaveIssued /\ ~session.mayBeEnabled
           /\ session \in [taken : {FALSE}, protection : SUBSET NE!ProtectionBits,
                         configuration : SUBSET NE!ConfigurationBits,
                         mayHaveIssued : {FALSE}, mayBeEnabled : {FALSE}]
           /\ ~report.success /\ report.disposition = "noArrayMutation"
           /\ ~report.cleanupFailed /\ pc # "done" /\ report.code # "cancelled"
           /\ pc # "restoreECC" => report.code = "none" /\ chip.op = NoOp
           /\ report = [report EXCEPT !.code = report.code] /\ report.code \in NandCodes
           /\ at \in Nat /\ (map = NoMap \/ map \subseteq NandBlock) /\ ecc \in BOOLEAN
           /\ plan = NoPlan \/ \A i \in DOMAIN plan : plan[i] \in NandSteps
           /\ chip \in NandChips
<1>1. ~session.taken /\ ~session.mayHaveIssued /\ ~session.mayBeEnabled
  BY DEF NandInv, NandReports, NandBefore
<1>2. session \in [taken : BOOLEAN, protection : SUBSET NE!ProtectionBits,
                    configuration : SUBSET NE!ConfigurationBits,
                    mayHaveIssued : BOOLEAN, mayBeEnabled : BOOLEAN]
  BY DEF NandInv, NandTypes, NE!TypeOK
<1>3. pc \notin NandRestoring \cup {"drain", "done"}
  BY DEF NandBefore, NandRestoring, NandScanning, NandPreparing, NandCapturing
<1>4. /\ ~report.success /\ report.disposition = "noArrayMutation"
      /\ ~report.cleanupFailed /\ pc # "done" /\ report.code # "cancelled"
      /\ pc # "restoreECC" => report.code = "none"
  BY <1>3 DEF NandInv, NandReports
<1>5. pc # "restoreECC" => chip.op = NoOp
  BY <1>3 DEF NandInv, NandAtRest
<1>6. report \in NandReportTypes /\ report = [report EXCEPT !.code = report.code]
  BY DEF NandInv, NandTypes, NandReportTypes
<1>7. /\ at \in Nat /\ (map = NoMap \/ map \subseteq NandBlock) /\ ecc \in BOOLEAN
      /\ plan = NoPlan \/ \A i \in DOMAIN plan : plan[i] \in NandSteps
      /\ chip \in NandChips
  BY DEF NandInv, NandTypes, NE!TypeOK, NandSteps, NandChips
<1> QED BY <1>1, <1>2, <1>4, <1>5, <1>6, <1>7 DEF NandReportTypes

LEMMA NandGetECC ==
    ASSUME NandInv, NE!GetECC
    PROVE  NandInv'
<1>1. PICK r \in NE!GetConfiguration(chip) :
          /\ chip' = r.chip
          /\ IF r.error # "none" THEN NE!Stop(r.error)
             ELSE /\ ecc' = ("ECC" \in r.value) /\ NE!Goto("disableECC")
                  /\ UNCHANGED <<at, map, plan, reads, backup, session, report>>
  BY DEF NE!GetECC
<1>2. pc = "getECC" /\ UNCHANGED <<before, markers, job, asked, blank>>
  BY DEF NE!GetECC, NE!Unchanged
<1>3. pc \in NandBefore
  BY <1>2 DEF NandBefore, NandScanning
<1>4. chip' = chip /\ r.error \in {"none", "transport"} /\ Quiet(chip, chip')
  BY <1>1, <1>3, FeatureRead, NandStarts, QuietChanges DEF NE!GetConfiguration
<1>5. CASE r.error # "none"
  BY <1>1, <1>2, <1>3, <1>4, <1>5, NandStarts, NandGivesUp DEF NandCodes, IOErrors
<1>6. CASE r.error = "none"
  <2>1. /\ pc' = "disableECC" /\ ecc' \in BOOLEAN
        /\ UNCHANGED <<at, map, plan, reads, backup, session, report>>
    BY <1>1, <1>6 DEF NE!Goto
  <2>2. ~session'.taken
    BY <1>3, <2>1, NandStarts
  <2>3. NandKnows' /\ NandReads'
    BY <1>2, <2>1, <2>2 DEF NandInv, NandKnows, NandReads, NandPreparing, NandCapturing
  <2> QED BY <1>2, <1>3, <1>4, <2>1, <2>3, NandStarts, NandGoesOn
        DEF NandBefore, NandScanning, NandCodes
<1> QED BY <1>5, <1>6

LEMMA ECCQuiet ==
    ASSUME NEW c \in NandChips, NEW e \in BOOLEAN, NEW r \in NE!SetECC(c, e)
    PROVE  /\ Quiet(c, r.chip) /\ r.chip.op = c.op /\ r.chip.wel = c.wel
           /\ r.error \in {"none"} \cup IOErrors
<1>1. r.chip = c \/ \E bits \in SUBSET NE!ConfigurationBits : r.chip = Configured(c, bits)
  <2>1. \A v \in {c.configuration, NE!ConfigurationBits} :
            NE!WithECC(v, e) \in SUBSET NE!ConfigurationBits
    BY DEF NE!WithECC, NandChips, NE!Chips, NE!ConfigurationBits
  <2> QED BY <2>1, SetECCResult, Zenon
<1> QED BY <1>1, QuietChanges, SetECCResult

LEMMA NandDisableECC ==
    ASSUME NE!NANDAssumption, NandInv, NE!DisableECC
    PROVE  NandInv'
<1>1. PICK r \in NE!SetECC(chip, FALSE) :
          /\ chip' = r.chip
          /\ IF r.error # "none" THEN NE!Stop(r.error)
             ELSE /\ map' = {} /\ NE!Goto("readMarker")
                  /\ UNCHANGED <<at, plan, reads, backup, ecc, session, report>>
  BY DEF NE!DisableECC
<1>2. pc = "disableECC" /\ UNCHANGED <<before, markers, job, asked, blank>>
  BY DEF NE!DisableECC, NE!Unchanged
<1>3. pc \in NandBefore
  BY <1>2 DEF NandBefore, NandScanning
<1>4. r.error \in {"none"} \cup IOErrors /\ Quiet(chip, chip') /\ chip'.op = NoOp
  BY <1>1, <1>2, <1>3, ECCQuiet, NandStarts
<1>5. CASE r.error # "none"
  BY <1>1, <1>2, <1>3, <1>4, <1>5, NandStarts, NandGivesUp DEF NandCodes, IOErrors
<1>6. CASE r.error = "none"
  <2>1. /\ pc' = "readMarker" /\ map' = {}
        /\ UNCHANGED <<at, plan, reads, backup, ecc, session, report>>
    BY <1>1, <1>6 DEF NE!Goto
  <2>2. ~session'.taken
    BY <1>3, <2>1, NandStarts
  <2>3. NandKnows' /\ NandReads'
    <3>1. at = 0 /\ 0 < NE!MarkersToRead
      BY <1>2, Geometry DEF NandInv, NandKnows, NE!MarkersToRead
    <3> QED BY <3>1, <2>1, <2>2 DEF NandKnows, NandReads, NandPreparing, NandCapturing
  <2> QED BY <1>2, <1>3, <1>4, <2>1, <2>3, NandStarts, NandGoesOn
        DEF NandBefore, NandScanning, NandCodes
<1> QED BY <1>5, <1>6

LEMMA NandRestoreECC ==
    ASSUME NandInv, NE!RestoreECC
    PROVE  NandInv'
<1>1. PICK r \in NE!SetECC(chip, ecc) :
          /\ chip' = r.chip
          /\ IF report.code # "none" THEN NE!Stop(report.code)
             ELSE IF r.error # "none" THEN NE!Stop(r.error)
             ELSE /\ NE!Goto("plan")
                  /\ UNCHANGED <<at, map, plan, reads, backup, ecc, session, report>>
  BY DEF NE!RestoreECC
<1>2. pc = "restoreECC" /\ UNCHANGED <<before, markers, job, asked, blank>>
  BY DEF NE!RestoreECC, NE!Unchanged
<1>3. pc \in NandBefore
  BY <1>2 DEF NandBefore, NandScanning
<1>4. r.error \in {"none"} \cup IOErrors /\ Quiet(chip, chip') /\ chip'.op = chip.op
  BY <1>1, <1>3, ECCQuiet, NandStarts
<1>5. CASE report.code # "none"
  BY <1>1, <1>2, <1>3, <1>4, <1>5, NandStarts, NandGivesUp
<1>6. CASE report.code = "none" /\ r.error # "none"
  BY <1>1, <1>2, <1>3, <1>4, <1>6, NandStarts, NandGivesUp DEF NandCodes, IOErrors
<1>7. CASE report.code = "none" /\ r.error = "none"
  <2>1. /\ pc' = "plan"
        /\ UNCHANGED <<at, map, plan, reads, backup, ecc, session, report>>
    BY <1>1, <1>7 DEF NE!Goto
  <2>2. ~session'.taken /\ chip.op = NoOp
    BY <1>2, <1>3, <1>7, <2>1, NandStarts DEF NandInv, NandAtRest
  <2>3. GoodMap'
    BY <1>2, <1>7, <2>1, NandKept DEF NandInv, NandKnows
  <2>4. NandKnows' /\ NandReads'
    BY <2>1, <2>2, <2>3 DEF NandKnows, NandReads, NandPreparing, NandCapturing
  <2> QED BY <1>2, <1>3, <1>4, <1>7, <2>1, <2>2, <2>4, NandStarts, NandGoesOn
        DEF NandBefore, NandScanning, NandCodes
<1> QED BY <1>5, <1>6, <1>7

(* The pages of the backup, for the map of the run.                         *)
LEMMA NandPages ==
    ASSUME NE!NANDAssumption, map \subseteq NandBlock, map # {}
    PROVE  /\ Len(NE!GoodPages) \in Nat \ {0}
           /\ DOMAIN NE!GoodPages = 1 .. Len(NE!GoodPages)
           /\ \A i \in 1 .. Len(NE!GoodPages) :
                  NE!GoodPages[i].block \in map /\ NE!GoodPages[i].page \in NandPage
<1>1. /\ NE!Cardinality(map) * NE!PagesPerBlock \in Nat \ {0}
      /\ \A i \in 1 .. NE!Cardinality(map) * NE!PagesPerBlock :
                /\ NE!Nth(map, (i - 1) \div NE!PagesPerBlock + 1) \in map
                /\ (i - 1) % NE!PagesPerBlock \in NandPage
  BY BackupPages
<1> DEFINE n == NE!Cardinality(map) * NE!PagesPerBlock
           B(i) == NE!Nth(map, (i - 1) \div NE!PagesPerBlock + 1)
           Q(i) == (i - 1) % NE!PagesPerBlock
<1>2. NE!GoodPages = [i \in 1 .. n |-> [block |-> B(i), page |-> Q(i)]]
  BY DEF NE!GoodPages
<1>3. n \in Nat \ {0} /\ \A i \in 1 .. n : B(i) \in map /\ Q(i) \in NandPage
  BY <1>1
<1> HIDE DEF n, B, Q
<1> QED BY <1>2, <1>3

LEMMA NandPlanJob ==
    ASSUME NE!NANDAssumption, NandInv, NE!PlanJob
    PROVE  NandInv'
<1>1. /\ pc = "plan" /\ UNCHANGED <<before, markers, job, asked, blank>>
      /\ UNCHANGED <<chip, map, backup, ecc, session>> /\ at' = 0
      /\ plan' = NE!PlanFor(map, job) /\ reads' = << << >>, << >> >>
  BY DEF NE!PlanJob, NE!Unchanged
<1>2. /\ plan' = NoPlan => NE!FailWith("invalidPlan") /\ NE!Goto("done")
      /\ plan' # NoPlan => NE!Goto("enableECC") /\ UNCHANGED report
  BY DEF NE!PlanJob
<1>3. pc \in NandBefore
  BY <1>1 DEF NandBefore
<1>4. Quiet(chip, chip')
  BY <1>1, <1>3, NandStarts, QuietChanges
<1>5. CASE plan' = NoPlan
  BY <1>1, <1>2, <1>3, <1>4, <1>5, NandStarts, NandStops DEF NandCodes
<1>6. CASE plan' # NoPlan
  <2>1. pc' = "enableECC" /\ UNCHANGED report
    BY <1>2, <1>6 DEF NE!Goto
  <2>2. ~session'.taken
    BY <1>1, <1>3, NandStarts
  <2>3. GoodMap /\ GoodMap'
    BY <1>1 DEF NandInv, NandKnows, GoodMap
  <2>4. Lawful(plan', map, job) /\ job \in Jobs
    BY <1>1, <1>6, <2>3, PlanIsLawful DEF GoodMap, NandInv, NandTypes
  <2>5. \A i \in DOMAIN plan' : plan'[i] \in NandSteps
    <3>1. map \subseteq NandBlock /\ plan' \in Seq(NandStep(map))
      BY <2>3, <2>4 DEF Lawful, GoodMap
    <3>2. \A i \in DOMAIN plan' : plan'[i] \in NandStep(map)
      BY <3>1
    <3> QED BY <3>1, <3>2 DEF NandStep, NandSteps
  <2>6. NandKnows'
    BY <1>1, <2>1, <2>2, <2>3, <2>4 DEF NandKnows, NandPreparing, NandCapturing, Lawful, NandStep
  <2>7. NandReads'
    <3>1. map # {} /\ map \subseteq NandBlock
      <4>1. plan'[1] \in NandStep(map)
        BY <2>4 DEF Lawful
      <4> QED BY <4>1, <2>3 DEF NandStep, GoodMap
    <3>2. Len(NE!GoodPages)' \in Nat \ {0} /\ map' = map
      <4>1. NE!GoodPages' = NE!GoodPages /\ map' = map
        BY <1>1 DEF NE!GoodPages
      <4> QED BY <4>1, <3>1, NandPages
    <3>3. reads'[1] = << >> /\ reads'[2] = << >> /\ reads' = [k \in {1, 2} |-> reads'[k]]
      BY <1>1
    <3>4. \A k \in {1, 2} : ReadSoFar(k, 0)'
      BY <3>3 DEF ReadSoFar
    <3> QED BY <1>1, <2>1, <3>2, <3>3, <3>4 DEF NandReads
  <2> QED BY <1>1, <1>3, <1>4, <2>1, <2>5, <2>6, <2>7, NandStarts, NandGoesOn
        DEF NandBefore, NandPreparing, NandCodes
<1> QED BY <1>5, <1>6

(* The two marker pages of a block, one after the other.                     *)
LEMMA MarkerOrder ==
    ASSUME NEW i \in Nat
    PROVE  /\ i \div 2 \in Nat /\ i % 2 \in {0, 1}
           /\ i % 2 = 0 => i = 2 * (i \div 2)
           /\ i % 2 = 1 => i = 2 * (i \div 2) + 1
OBVIOUS

LEMMA ReadQuiet ==
    ASSUME NEW c \in NandChips, c.op = NoOp, NE!NANDAssumption, NEW value,
           NEW b \in NandBlock, NEW p \in NandPage, NEW r \in NE!ReadPage(c, value, b, p)
    PROVE  /\ Quiet(c, r.chip) /\ Registers(r.chip) = Registers(c) /\ r.chip.wel = c.wel
           /\ \/ r.error = "none" /\ r.chip = c /\ r.value.data \in {value, Noise}
              \/ r.error \in IOErrors
<1>1. /\ r.chip = c \/ r.chip = Working(c, NE!Load(b, p))
      /\ \/ r.error = "none" /\ r.chip = c /\ r.value.data \in {value, Noise}
         \/ r.error \in IOErrors
  BY ReadResult
<1>2. Quiet(c, r.chip) /\ Registers(r.chip) = Registers(c) /\ r.chip.wel = c.wel
  BY <1>1, QuietChanges
<1> QED BY <1>1, <1>2

LEMMA MarkerPlace ==
    ASSUME NE!NANDAssumption, at \in Nat, at < NE!MarkersToRead
    PROVE  at \div 2 \in NandBlock /\ at % 2 \in NandPage
<1> DEFINE q == at \div 2
           w == at % 2
           n == NE!Cardinality(NandBlock)
<1>1. q \in Nat /\ w \in {0, 1} /\ (w = 0 => at = 2 * q) /\ (w = 1 => at = 2 * q + 1)
  BY MarkerOrder
<1>2. n \in Nat \ {0} /\ NandBlock = 0 .. n - 1 /\ at < 2 * n
  BY Geometry DEF NE!MarkersToRead
<1> QED BY <1>1, <1>2 DEF NE!NANDAssumption

LEMMA MarkersSeen ==
    ASSUME NE!NANDAssumption, map \subseteq NandBlock, at \in Nat, at < NE!MarkersToRead,
           \A b \in map : /\ 2 * b < at /\ 0 \notin markers[b]
                          /\ 2 * b + 1 < at => 1 \notin markers[b],
           NEW data, data = "FF" => (at % 2) \notin markers[at \div 2],
           NEW m, m = NE!MarkerSeen(map, at, data)
    PROVE  /\ m \subseteq NandBlock
           /\ \A b \in m : /\ 2 * b < at + 1 /\ 0 \notin markers[b]
                           /\ 2 * b + 1 < at + 1 => 1 \notin markers[b]
           /\ at + 1 >= NE!MarkersToRead => \A b \in m : markers[b] \cap {0, 1} = {}
<1> DEFINE q == at \div 2
           w == at % 2
           n == NE!Cardinality(NandBlock)
<1>1. q \in Nat /\ w \in {0, 1} /\ (w = 0 => at = 2 * q) /\ (w = 1 => at = 2 * q + 1)
  BY MarkerOrder
<1>2. n \in Nat \ {0} /\ NandBlock = 0 .. n - 1 /\ at < 2 * n
  BY Geometry DEF NE!MarkersToRead
<1>3. q \in NandBlock /\ w \in NandPage
  BY MarkerPlace
<1>4. m = IF data # "FF" THEN map \ {q} ELSE IF w = 0 THEN map \cup {q} ELSE map
  BY DEF NE!MarkerSeen
<1>5. data = "FF" => w \notin markers[q]
  OBVIOUS
<1> HIDE DEF q, w, n
<1>6. m \subseteq NandBlock
  BY <1>3, <1>4
<1>7. ASSUME NEW b \in m
      PROVE  /\ 2 * b < at + 1 /\ 0 \notin markers[b]
             /\ 2 * b + 1 < at + 1 => 1 \notin markers[b]
  <2>1. b \in Nat
    BY <1>2, <1>6
  <2>2. CASE b \in map
    <3>1. 2 * b + 1 = at => w = 1 /\ b = q
      BY <1>1, <2>1
    <3>2. 2 * b < at /\ 0 \notin markers[b] /\ (2 * b + 1 < at => 1 \notin markers[b])
      BY <2>2
    <3>3. 2 * b + 1 = at => 1 \notin markers[b]
      BY <3>1, <1>4, <1>5
    <3> QED BY <3>2, <3>3, <2>1
  <2>3. CASE b \notin map
    BY <2>1, <2>3, <1>1, <1>4, <1>5
  <2> QED BY <2>2, <2>3
<1>8. ASSUME at + 1 >= 2 * n, NEW b \in m
      PROVE  markers[b] \cap {0, 1} = {}
  <2>1. 2 * b + 1 < at + 1
    BY <1>2, <1>6, <1>8
  <2> QED BY <2>1, <1>7
<1> QED BY <1>6, <1>7, <1>8 DEF q, w, n, NE!MarkersToRead

LEMMA NandReadMarker ==
    ASSUME NE!NANDAssumption, NandInv, NE!ReadMarker
    PROVE  NandInv'
<1> DEFINE m == NE!MarkerPage(at)
           marker == IF m.page \in markers[m.block] THEN "00" ELSE "FF"
<1>1. PICK r \in NE!ReadPage(chip, marker, m.block, m.page) :
          /\ chip' = r.chip
          /\ IF r.error # "none"
             THEN /\ map' = NoMap /\ NE!FailWith(r.error) /\ NE!Goto("restoreECC")
                  /\ UNCHANGED at
             ELSE /\ map' = NE!MarkerSeen(map, at, r.value.data)
                  /\ at' = at + 1
                  /\ NE!Goto(IF at + 1 < NE!MarkersToRead THEN "readMarker"
                             ELSE "restoreECC")
                  /\ UNCHANGED report
  BY DEF NE!ReadMarker
<1>2. /\ pc = "readMarker" /\ UNCHANGED <<before, markers, job, asked, blank>>
      /\ UNCHANGED <<plan, reads, backup, ecc, session>>
  BY DEF NE!ReadMarker, NE!Unchanged
<1>3. pc \in NandBefore
  BY <1>2 DEF NandBefore, NandScanning
<1>4. /\ map \subseteq NandBlock /\ at \in Nat /\ at < NE!MarkersToRead
      /\ \A b \in map : /\ 2 * b < at /\ 0 \notin markers[b]
                        /\ 2 * b + 1 < at => 1 \notin markers[b]
  BY <1>2 DEF NandInv, NandTypes, NE!TypeOK, NandKnows
<1>5. m = [block |-> at \div 2, page |-> at % 2] /\ at \div 2 \in NandBlock /\ at % 2 \in NandPage
  <2>1. at \div 2 \in NandBlock /\ at % 2 \in NandPage
    BY <1>4, MarkerPlace
  <2> QED BY <2>1 DEF NE!MarkerPage
<1>6. marker = IF (at % 2) \in markers[at \div 2] THEN "00" ELSE "FF"
  BY <1>5
<1>7. /\ Quiet(chip, chip')
      /\ \/ r.error = "none" /\ chip'.op = NoOp /\ r.value.data \in {marker, Noise}
         \/ r.error \in IOErrors
  <2>1. chip \in NandChips /\ chip.op = NoOp /\ m.block \in NandBlock /\ m.page \in NandPage
    BY <1>2, <1>3, <1>5, NandStarts
  <2> HIDE DEF m, marker
  <2> QED BY <1>1, <2>1, ReadQuiet
<1>8. ~session'.taken
  BY <1>2, <1>3, NandStarts
<1> HIDE DEF m, marker
<1>9. CASE r.error # "none"
  <2>1. /\ map' = NoMap /\ report' = [report EXCEPT !.code = r.error]
        /\ pc' = "restoreECC" /\ at' = at /\ r.error \in IOErrors
    BY <1>1, <1>7, <1>9 DEF NE!FailWith, NE!Goto
  <2>2. report'.code = r.error
    BY <2>1 DEF NandInv, NandTypes
  <2>3. NandKnows' /\ NandReads'
    BY <1>8, <1>9, <2>1, <2>2 DEF NandKnows, NandReads, NandPreparing, NandCapturing
  <2> QED BY <1>2, <1>3, <1>7, <1>9, <2>1, <2>3, NandStarts, NandGoesOn
        DEF NandBefore, NandScanning, NandCodes, IOErrors
<1>10. CASE r.error = "none"
  <2>1. /\ map' = NE!MarkerSeen(map, at, r.value.data) /\ at' = at + 1
        /\ pc' = IF at + 1 < NE!MarkersToRead THEN "readMarker" ELSE "restoreECC"
        /\ UNCHANGED report
    BY <1>1, <1>10 DEF NE!Goto
  <2>2. r.value.data = "FF" => (at % 2) \notin markers[at \div 2]
    BY <1>6, <1>7, <1>10 DEF NE!NANDAssumption, IOErrors
  <2>3. /\ map' \subseteq NandBlock
        /\ \A b \in map' : /\ 2 * b < at + 1 /\ 0 \notin markers[b]
                           /\ 2 * b + 1 < at + 1 => 1 \notin markers[b]
        /\ at + 1 >= NE!MarkersToRead => \A b \in map' : markers[b] \cap {0, 1} = {}
    BY <1>4, <2>1, <2>2, MarkersSeen
  <2>4. at \in Nat /\ NE!MarkersToRead \in Nat /\ NE!MarkersToRead' = NE!MarkersToRead
    BY <1>4, Geometry DEF NE!MarkersToRead
  <2>5. NandKnows' /\ NandReads'
    BY <1>2, <1>8, <2>1, <2>3, <2>4 DEF NandKnows, NandReads, NandPreparing, NandCapturing, GoodMap
  <2>6. chip'.op = NoOp /\ report.code = "none"
    BY <1>2, <1>3, <1>7, <1>10, NandStarts DEF IOErrors
  <2>7. pc' \in NandBefore
    BY <2>1 DEF NandBefore, NandScanning
  <2>8. report' = [report EXCEPT !.code = "none"] /\ at' \in Nat
    BY <1>3, <2>1, <2>4, <2>6, NandStarts
  <2>9. /\ session' = session /\ plan' = plan /\ ecc' = ecc
        /\ UNCHANGED <<before, markers, job, blank>>
    BY <1>2
  <2> QED BY <1>3, <1>7, <2>3, <2>5, <2>6, <2>7, <2>8, <2>9, NandStarts, NandGoesOn
        DEF NandCodes
<1> QED BY <1>9, <1>10

(* What is known while the backup is made.                                  *)
LEMMA NandMapped ==
    ASSUME NE!NANDAssumption, NandInv, pc \in NandPreparing \cup NandCapturing \/ session.taken
    PROVE  /\ GoodMap /\ Lawful(plan, map, job) /\ map # {} /\ map \subseteq NandBlock
           /\ Len(NE!GoodPages) \in Nat \ {0}
           /\ DOMAIN NE!GoodPages = 1 .. Len(NE!GoodPages)
           /\ \A i \in 1 .. Len(NE!GoodPages) :
                  NE!GoodPages[i].block \in map /\ NE!GoodPages[i].page \in NandPage
<1>1. GoodMap /\ Lawful(plan, map, job)
  BY DEF NandInv, NandKnows
<1>2. map # {} /\ map \subseteq NandBlock
  <2>1. plan[1] \in NandStep(map)
    BY <1>1 DEF Lawful
  <2> QED BY <2>1, <1>1 DEF NandStep, GoodMap
<1> QED BY <1>1, <1>2, NandPages

LEMMA NandEnableECC ==
    ASSUME NE!NANDAssumption, NandInv, NE!EnableECC
    PROVE  NandInv'
<1>1. PICK r \in NE!SetECC(chip, TRUE) :
          /\ chip' = r.chip
          /\ IF r.error # "none" THEN NE!Stop(r.error)
             ELSE /\ NE!Goto("readBackup")
                  /\ UNCHANGED <<at, map, plan, reads, backup, ecc, session, report>>
  BY DEF NE!EnableECC
<1>2. pc = "enableECC" /\ UNCHANGED <<before, markers, job, asked, blank>>
  BY DEF NE!EnableECC, NE!Unchanged
<1>3. pc \in NandBefore
  BY <1>2 DEF NandBefore, NandPreparing
<1>4. r.error \in {"none"} \cup IOErrors /\ Quiet(chip, chip') /\ chip'.op = NoOp
  BY <1>1, <1>2, <1>3, ECCQuiet, NandStarts
<1>5. CASE r.error # "none"
  BY <1>1, <1>2, <1>3, <1>4, <1>5, NandStarts, NandGivesUp DEF NandCodes, IOErrors
<1>6. CASE r.error = "none"
  <2>1. /\ pc' = "readBackup"
        /\ UNCHANGED <<at, map, plan, reads, backup, ecc, session, report>>
    BY <1>1, <1>6 DEF NE!Goto
  <2>2. ~session'.taken
    BY <1>3, <2>1, NandStarts
  <2>3. /\ GoodMap' = GoodMap /\ NE!GoodPages' = NE!GoodPages /\ \A i : PageWas(i)' = PageWas(i)
    BY <1>2, <2>1, NandKept
  <2>4. GoodMap /\ Lawful(plan, map, job) /\ Len(NE!GoodPages) \in Nat \ {0}
    BY <1>2, NandMapped DEF NandPreparing
  <2>5. NandKnows'
    BY <1>2, <2>1, <2>2, <2>3, <2>4 DEF NandKnows, NandPreparing, NandCapturing
  <2>6. \A k, n : ReadSoFar(k, n)' = ReadSoFar(k, n)
    BY <2>1, <2>3 DEF ReadSoFar
  <2>7. NandReads'
    BY <1>2, <2>1, <2>3, <2>4, <2>6 DEF NandInv, NandReads, NandPreparing
  <2> QED BY <1>2, <1>3, <1>4, <2>1, <2>5, <2>7, NandStarts, NandGoesOn
        DEF NandBefore, NandPreparing, NandCodes
<1> QED BY <1>5, <1>6

(* The pass, and the page of it, that comes next.                            *)
LEMMA PassAndPage ==
    ASSUME NEW n \in Nat \ {0}, NEW i \in Nat, i < 2 * n
    PROVE  /\ (i % n) + 1 \in 1 .. n
           /\ i < n => i % n = i
           /\ i >= n => i % n = i - n
<1>1. i \div n \in Nat /\ i % n \in 0 .. n - 1 /\ i = n * (i \div n) + (i % n)
  BY DivisionWithRest
<1> DEFINE q == i \div n
           w == i % n
<1>2. q \in Nat /\ w \in 0 .. n - 1 /\ i = n * q + w
  BY <1>1
<1> HIDE DEF q, w
<1>3. q = 0 \/ q = 1
  <2> DEFINE nq == n * q
  <2>1. 1 < q => n * 1 + n <= nq
    BY <1>2, QuotientOrder
  <2>2. nq \in Nat /\ i = nq + w
    BY <1>2
  <2> HIDE DEF nq
  <2> QED BY <1>2, <2>1, <2>2
<1> QED BY <1>2, <1>3 DEF w

LEMMA NandReadBackup ==
    ASSUME NE!NANDAssumption, NandInv, NE!ReadBackup
    PROVE  NandInv'
<1> DEFINE page == NE!BackupPage
           n == Len(NE!GoodPages)
<1>1. PICK r \in NE!ReadPage(chip, chip.cells[page.block][page.page], page.block, page.page) :
          /\ chip' = r.chip
          /\ IF r.error # "none" THEN NE!Stop(r.error)
             ELSE IF r.value.ecc = "uncorrectable" THEN NE!Stop("uncorrectable")
             ELSE /\ reads' = [reads EXCEPT ![NE!Pass] = NE!WithPage(@, r.value.data)]
                  /\ at' = at + 1
                  /\ NE!Goto(IF at + 1 = n THEN "enableECC"
                             ELSE IF at + 1 = 2 * n THEN "publish" ELSE "readBackup")
                  /\ UNCHANGED <<map, plan, backup, ecc, session, report>>
  BY DEF NE!ReadBackup
<1>2. pc = "readBackup" /\ UNCHANGED <<before, markers, job, asked, blank>>
  BY DEF NE!ReadBackup, NE!Unchanged
<1>3. pc \in NandBefore /\ pc \in NandPreparing
  BY <1>2 DEF NandBefore, NandPreparing
<1>4. /\ GoodMap /\ Lawful(plan, map, job) /\ n \in Nat \ {0} /\ map \subseteq NandBlock
      /\ \A i \in 1 .. n :
             NE!GoodPages[i].block \in map /\ NE!GoodPages[i].page \in NandPage
  BY <1>3, NandMapped
<1>5. /\ at \in Nat /\ at < 2 * n /\ reads = [j \in {1, 2} |-> reads[j]]
      /\ at < n => ReadSoFar(1, at) /\ ReadSoFar(2, 0)
      /\ at >= n => ReadSoFar(1, n) /\ ReadSoFar(2, at - n)
  BY <1>2, <1>3 DEF NandInv, NandTypes, NE!TypeOK, NandReads
<1> HIDE DEF page, n
<1>6. PICK k \in {1, 2}, i \in Nat :
          /\ k = NE!Pass /\ (k = 1 <=> at < n) /\ i \in 1 .. n /\ page = NE!GoodPages[i]
          /\ i = IF k = 1 THEN at + 1 ELSE at - n + 1
  <2>1. NE!Pass \in {1, 2} /\ (NE!Pass = 1 <=> at < n)
    BY DEF NE!Pass, n
  <2>2. /\ (at % n) + 1 \in 1 .. n /\ page = NE!GoodPages[(at % n) + 1]
        /\ (at % n) + 1 = IF at < n THEN at + 1 ELSE at - n + 1
    <3>1. page = NE!GoodPages[(at % n) + 1]
      BY DEF NE!BackupPage, page, n
    <3>2. /\ (at % n) + 1 \in 1 .. n
          /\ at < n => at % n = at
          /\ at >= n => at % n = at - n
      BY <1>4, <1>5, PassAndPage
    <3> QED BY <3>1, <3>2, <1>4, <1>5
  <2> QED BY <2>1, <2>2, <1>4
<1>7. chip \in NandChips /\ chip.op = NoOp /\ ~session.taken /\ chip.cells = before.cells
  BY <1>2, <1>3, NandStarts DEF NandInv, NandUntouched
<1>8. chip.cells[page.block][page.page] = PageWas(i)
  BY <1>6, <1>7 DEF PageWas
<1>9. page.block \in NandBlock /\ page.page \in NandPage
  BY <1>4, <1>6
<1>10. /\ Quiet(chip, chip')
       /\ \/ r.error = "none" /\ chip'.op = NoOp /\ r.value.data \in {PageWas(i), Noise}
          \/ r.error \in IOErrors
  BY <1>1, <1>7, <1>8, <1>9, ReadQuiet
<1>11. CASE r.error # "none"
  BY <1>1, <1>2, <1>3, <1>7, <1>10, <1>11, NandStarts, NandGivesUp DEF NandCodes, IOErrors
<1>12. CASE r.error = "none" /\ r.value.ecc = "uncorrectable"
  BY <1>1, <1>2, <1>3, <1>7, <1>10, <1>12, NandStarts, NandGivesUp DEF NandCodes
<1>13. CASE r.error = "none" /\ r.value.ecc # "uncorrectable"
  <2>1. /\ reads' = [reads EXCEPT ![k] = NE!WithPage(reads[k], r.value.data)]
        /\ at' = at + 1
        /\ pc' = IF at + 1 = n THEN "enableECC" ELSE IF at + 1 = 2 * n THEN "publish"
                 ELSE "readBackup"
        /\ UNCHANGED <<map, plan, backup, ecc, session, report>>
    BY <1>1, <1>6, <1>13 DEF NE!Goto
  <2>2. ~session'.taken /\ chip'.op = NoOp
    BY <1>7, <1>10, <1>13, <2>1 DEF IOErrors
  <2>3. /\ GoodMap' = GoodMap /\ n' = n /\ \A j : PageWas(j)' = PageWas(j)
    <3>1. GoodMap' = GoodMap /\ NE!GoodPages' = NE!GoodPages /\ \A j : PageWas(j)' = PageWas(j)
      BY <1>2, <2>1, NandKept
    <3> QED BY <3>1 DEF n
  <2>4. pc' \in NandPreparing
    BY <2>1 DEF NandPreparing
  <2>5. NandKnows'
    BY <1>2, <1>4, <2>1, <2>2, <2>3, <2>4 DEF NandKnows, NandPreparing, NandCapturing
  <2>6. reads'[k] = NE!WithPage(reads[k], r.value.data) /\ reads' = [j \in {1, 2} |-> reads'[j]]
        /\ \A j \in {1, 2} \ {k} : reads'[j] = reads[j]
    BY <1>5, <1>6, <2>1
  <2>7. ReadSoFar(k, i - 1)
    <3>1. CASE k = 1
      <4>1. i - 1 = at /\ at < n
        BY <3>1, <1>4, <1>5, <1>6
      <4> QED BY <3>1, <4>1, <1>5
    <3>2. CASE k = 2
      <4>1. i - 1 = at - n /\ at >= n
        BY <3>2, <1>4, <1>5, <1>6
      <4> QED BY <3>2, <4>1, <1>5
    <3> QED BY <3>1, <3>2
  <2>8. r.value.data \in {PageWas(i), Noise}
    BY <1>10, <1>13 DEF IOErrors
  <2> DEFINE Read(j, l) == reads'[j] = <<Noise, j>> \/ reads'[j] = [x \in 1 .. l |-> PageWas(x)]
  <2>9. Read(k, i)
    <3>1. i - 1 \in Nat /\ i - 1 + 1 = i
      BY <1>4, <1>6
    <3>2. Append([j \in 1 .. i - 1 |-> PageWas(j)], PageWas(i)) = [j \in 1 .. i |-> PageWas(j)]
      BY <1>6, <3>1
    <3>3. reads[k] = <<Noise, k>> \/ reads[k] = [j \in 1 .. i - 1 |-> PageWas(j)]
      BY <2>7 DEF ReadSoFar
    <3>4. \/ NE!WithPage(reads[k], r.value.data) = <<Noise, k>>
          \/ /\ NE!WithPage(reads[k], r.value.data) = Append(reads[k], r.value.data)
             /\ reads[k] # <<Noise, k>> /\ r.value.data # Noise
      BY <1>6 DEF NE!WithPage
    <3> QED BY <3>2, <3>3, <3>4, <2>6, <2>8
  <2>10. \A j \in {1, 2} \ {k} : \A l : ReadSoFar(j, l) => Read(j, l)
    BY <2>6 DEF ReadSoFar
  <2> HIDE DEF Read
  <2>11. NandReads'
    <3>1. at + 1 <= 2 * n
      BY <1>4, <1>5
    <3>2. /\ at + 1 < n => Read(1, at + 1) /\ Read(2, 0)
          /\ at + 1 >= n => Read(1, n) /\ Read(2, at + 1 - n)
      <4>1. CASE k = 1
        <5>1. i = at + 1 /\ (at + 1 < n \/ at + 1 = n)
          BY <4>1, <1>6, <1>4, <1>5
        <5>2. Read(1, at + 1) /\ Read(2, 0)
          BY <4>1, <1>6, <1>5, <2>9, <2>10, <5>1
        <5>3. at + 1 = n => at + 1 - n = 0
          BY <1>4, <1>5
        <5> QED BY <5>1, <5>2, <5>3, <1>4, <1>5
      <4>2. CASE k = 2
        <5>1. i = at + 1 - n /\ at + 1 > n
          BY <4>2, <1>6, <1>4, <1>5
        <5>2. ReadSoFar(1, n)
          BY <4>2, <1>6, <1>4, <1>5
        <5>3. Read(1, n) /\ Read(2, at + 1 - n)
          BY <4>2, <2>9, <2>10, <5>1, <5>2
        <5> QED BY <5>1, <5>3, <1>4, <1>5
      <4> QED BY <4>1, <4>2
    <3>3. \A j, l : Read(j, l) => reads'[j] = <<Noise, j>>
                                  \/ reads'[j] = [x \in 1 .. l |-> PageWas(x)']
      BY <2>3 DEF Read
    <3>4. n = Len(NE!GoodPages) /\ n' = Len(NE!GoodPages)'
      BY DEF n
    <3>5. at' < n => ReadSoFar(1, at)' /\ ReadSoFar(2, 0)'
      BY <3>2, <3>3, <2>1 DEF ReadSoFar
    <3>6. at' >= n => ReadSoFar(1, n)' /\ ReadSoFar(2, at - n)'
      <4>1. n' = n /\ at' - n' = at + 1 - n /\ at' = at + 1
        <5>1. n' = n /\ at' = at + 1
          BY <2>1, <2>3
        <5> QED BY <5>1, <1>4, <1>5
      <4>2. ReadSoFar(1, n)' <=> reads'[1] = <<Noise, 1>>
                                 \/ reads'[1] = [x \in 1 .. n |-> PageWas(x)']
        BY <4>1 DEF ReadSoFar
      <4>3. ReadSoFar(2, at - n)' <=> reads'[2] = <<Noise, 2>>
                                 \/ reads'[2] = [x \in 1 .. at + 1 - n |-> PageWas(x)']
        BY <4>1 DEF ReadSoFar
      <4> QED BY <3>2, <3>3, <4>1, <4>2, <4>3
    <3>7. /\ at' <= 2 * n' /\ (pc' = "enableECC" => at' = n')
          /\ pc' = "readBackup" => at' < 2 * n'
          /\ pc' = "publish" => at' = 2 * n'
      BY <3>1, <2>1, <2>3, <1>4, <1>5
    <3> QED BY <3>4, <3>5, <3>6, <3>7, <2>3, <2>6 DEF NandReads
  <2>12. report' = [report EXCEPT !.code = "none"] /\ at' \in Nat /\ pc' \in NandBefore
    BY <1>2, <1>3, <1>5, <2>1, <2>4, NandStarts DEF NandBefore
  <2>13. /\ session' = session /\ plan' = plan /\ ecc' = ecc /\ map' = map
         /\ UNCHANGED <<before, markers, job, blank>>
    BY <1>2, <2>1
  <2> QED BY <1>3, <1>10, <2>2, <2>5, <2>11, <2>12, <2>13, NandStarts, NandGoesOn
        DEF NandCodes
<1> QED BY <1>11, <1>12, <1>13

LEMMA NandPublish ==
    ASSUME NE!NANDAssumption, NandInv, NE!PublishBackup
    PROVE  NandInv'
<1> DEFINE n == Len(NE!GoodPages)
<1>1. /\ pc = "publish" /\ UNCHANGED <<chip, before, markers, job, asked, blank>>
      /\ \/ /\ reads[1] = reads[2] /\ backup' = reads[1] /\ reads' = << >> /\ at' = 0
            /\ pc' = "captureProtection"
            /\ UNCHANGED <<map, plan, ecc, session, report>>
         \/ NE!Stop("noBackup")
  BY DEF NE!PublishBackup, NE!Unchanged, NE!Agreeing, NE!Goto
<1>2. pc \in NandBefore /\ pc \in NandPreparing
  BY <1>1 DEF NandBefore, NandPreparing
<1>3. Quiet(chip, chip') /\ chip'.op = NoOp /\ ~session.taken
  BY <1>1, <1>2, NandStarts, QuietChanges
<1>4. CASE NE!Stop("noBackup")
  BY <1>1, <1>2, <1>3, <1>4, NandStarts, NandGivesUp DEF NandCodes
<1>5. CASE /\ reads[1] = reads[2] /\ backup' = reads[1] /\ reads' = << >> /\ at' = 0
           /\ pc' = "captureProtection"
           /\ UNCHANGED <<map, plan, ecc, session, report>>
  <2>1. /\ GoodMap /\ Lawful(plan, map, job) /\ n \in Nat \ {0} /\ map \subseteq NandBlock
        /\ DOMAIN NE!GoodPages = 1 .. n
        /\ \A i \in 1 .. n :
               NE!GoodPages[i].block \in map /\ NE!GoodPages[i].page \in NandPage
    BY <1>2, NandMapped
  <2>2. /\ reads[1] = <<Noise, 1>> \/ reads[1] = [i \in 1 .. n |-> PageWas(i)]
        /\ reads[2] = <<Noise, 2>> \/ reads[2] = [i \in 1 .. n |-> PageWas(i)]
    <3>1. at = 2 * n /\ (at >= n => ReadSoFar(1, n) /\ ReadSoFar(2, at - n))
      BY <1>1, <1>2 DEF NandInv, NandReads
    <3>2. at >= n /\ at - n = n
      BY <2>1, <3>1
    <3> QED BY <3>1, <3>2 DEF ReadSoFar
  <2>3. \A i \in 1 .. n : PageWas(i) # Noise
    <3>1. before \in NandChips /\ Noise \notin NE!Content
      BY DEF NandInv, NandTypes, NE!TypeOK, NE!NANDAssumption, NandChips
    <3>2. \A i \in 1 .. n : PageWas(i) \in NE!Content
      BY <2>1, <3>1 DEF PageWas, NandChips, NE!Chips
    <3> QED BY <3>1, <3>2
  <2>4. reads[1] = [i \in 1 .. n |-> PageWas(i)]
    <3>1. CASE reads[1] = <<Noise, 1>>
      <4>1. <<Noise, 1>>[1] = Noise /\ <<Noise, 1>> # <<Noise, 2>>
        OBVIOUS
      <4>2. <<Noise, 1>> # [i \in 1 .. n |-> PageWas(i)]
        BY <2>1, <2>3, <4>1
      <4> QED BY <1>5, <2>2, <3>1, <4>1, <4>2
    <3> QED BY <2>2, <3>1
  <2>5. BackedUp'
    <3>1. NE!GoodPages' = NE!GoodPages /\ \A i : PageWas(i)' = PageWas(i)
      <4>1. NE!GoodPages' = NE!GoodPages
        BY <1>5 DEF NE!GoodPages
      <4> QED BY <4>1, <1>1 DEF PageWas
    <3>2. backup' = [i \in DOMAIN NE!GoodPages |-> PageWas(i)]
      BY <1>5, <2>1, <2>4
    <3> QED BY <3>1, <3>2 DEF BackedUp
  <2>6. GoodMap'
    BY <1>1, <1>5, <2>1 DEF GoodMap
  <2>7. NandKnows' /\ NandReads'
    BY <1>1, <1>3, <1>5, <2>1, <2>5, <2>6 DEF NandKnows, NandReads, NandPreparing, NandCapturing
  <2>8. report' = [report EXCEPT !.code = "none"] /\ at' \in Nat /\ pc' \in NandBefore
    BY <1>1, <1>2, <1>5, NandStarts DEF NandBefore, NandCapturing
  <2>9. /\ session' = session /\ plan' = plan /\ ecc' = ecc /\ map' = map
        /\ UNCHANGED <<before, markers, job, blank>>
    BY <1>1, <1>5
  <2> QED BY <1>2, <1>3, <2>7, <2>8, <2>9, NandStarts, NandGoesOn
        DEF NandCodes
<1> QED BY <1>1, <1>4, <1>5

LEMMA NandCaptureProtection ==
    ASSUME NE!NANDAssumption, NandInv, NE!CaptureProtection
    PROVE  NandInv'
<1>1. PICK r \in NE!GetProtection(chip) :
          /\ chip' = r.chip
          /\ IF r.error # "none" THEN NE!Stop(r.error)
             ELSE /\ session' = [session EXCEPT !.protection = r.value]
                  /\ NE!Goto("captureConfiguration")
                  /\ UNCHANGED <<at, map, plan, reads, backup, ecc, report>>
  BY DEF NE!CaptureProtection
<1>2. pc = "captureProtection" /\ UNCHANGED <<before, markers, job, asked, blank>>
  BY DEF NE!CaptureProtection, NE!Unchanged
<1>3. pc \in NandBefore /\ pc \in NandCapturing
  BY <1>2 DEF NandBefore, NandCapturing
<1>4. /\ chip' = chip /\ Quiet(chip, chip') /\ r.error \in {"none", "transport"}
      /\ r.error = "none" => r.value \in {chip.protection, NE!ProtectionBits}
  BY <1>1, <1>3, FeatureRead, NandStarts, QuietChanges DEF NE!GetProtection
<1>5. CASE r.error # "none"
  BY <1>1, <1>2, <1>3, <1>4, <1>5, NandStarts, NandGivesUp DEF NandCodes, IOErrors
<1>6. CASE r.error = "none"
  <2>1. /\ session' = [session EXCEPT !.protection = r.value] /\ pc' = "captureConfiguration"
        /\ UNCHANGED <<at, map, plan, reads, backup, ecc, report>>
    BY <1>1, <1>6 DEF NE!Goto
  <2>2. r.value \in SUBSET NE!ProtectionBits
    BY <1>3, <1>4, <1>6, NandStarts DEF NandChips, NE!Chips
  <2>3. session' \in [taken : {FALSE}, protection : SUBSET NE!ProtectionBits,
                      configuration : SUBSET NE!ConfigurationBits,
                      mayHaveIssued : {FALSE}, mayBeEnabled : {FALSE}]
    BY <1>3, <2>1, <2>2, NandStarts
  <2>4. GoodMap /\ Lawful(plan, map, job) /\ BackedUp
    BY <1>3 DEF NandInv, NandKnows
  <2>5. GoodMap' /\ BackedUp'
    BY <1>2, <2>1, <2>4, NandKept
  <2>6. NandKnows' /\ NandReads'
    BY <1>2, <2>1, <2>3, <2>4, <2>5 DEF NandKnows, NandReads, NandPreparing, NandCapturing
  <2>7. /\ report' = [report EXCEPT !.code = "none"] /\ at' \in Nat /\ pc' \in NandBefore
        /\ chip'.op = NoOp
    BY <1>2, <1>3, <1>4, <2>1, NandStarts DEF NandBefore, NandCapturing
  <2>8. /\ plan' = plan /\ ecc' = ecc /\ map' = map
        /\ UNCHANGED <<before, markers, job, blank>>
    BY <1>2, <2>1
  <2> QED BY <1>3, <1>4, <2>3, <2>6, <2>7, <2>8, NandStarts, NandGoesOn
        DEF NandCodes
<1> QED BY <1>5, <1>6

LEMMA NandCaptureConfiguration ==
    ASSUME NE!NANDAssumption, NandInv, NE!CaptureConfiguration
    PROVE  NandInv'
<1>1. PICK r \in NE!GetConfiguration(chip) :
          /\ chip' = r.chip
          /\ IF r.error # "none" THEN NE!Stop(r.error)
             ELSE /\ session' = [session EXCEPT !.configuration = r.value, !.taken = TRUE]
                  /\ NE!Goto("unlock")
                  /\ UNCHANGED <<at, map, plan, reads, backup, ecc, report>>
  BY DEF NE!CaptureConfiguration
<1>2. pc = "captureConfiguration" /\ UNCHANGED <<before, markers, job, asked, blank>>
  BY DEF NE!CaptureConfiguration, NE!Unchanged
<1>3. pc \in NandBefore /\ pc \in NandCapturing
  BY <1>2 DEF NandBefore, NandCapturing
<1>4. /\ chip' = chip /\ Quiet(chip, chip') /\ r.error \in {"none", "transport"}
      /\ r.error = "none" => r.value \in {chip.configuration, NE!ConfigurationBits}
  BY <1>1, <1>3, FeatureRead, NandStarts, QuietChanges DEF NE!GetConfiguration
<1>5. CASE r.error # "none"
  BY <1>1, <1>2, <1>3, <1>4, <1>5, NandStarts, NandGivesUp DEF NandCodes, IOErrors
<1>6. CASE r.error = "none"
  <2>1. /\ session' = [session EXCEPT !.configuration = r.value, !.taken = TRUE]
        /\ pc' = "unlock"
        /\ UNCHANGED <<at, map, plan, reads, backup, ecc, report>>
    BY <1>1, <1>6 DEF NE!Goto
  <2>2. r.value \in SUBSET NE!ConfigurationBits
    BY <1>3, <1>4, <1>6, NandStarts DEF NandChips, NE!Chips
  <2>3. session' \in [taken : {TRUE}, protection : SUBSET NE!ProtectionBits,
                      configuration : SUBSET NE!ConfigurationBits,
                      mayHaveIssued : {FALSE}, mayBeEnabled : {FALSE}]
    BY <1>3, <2>1, <2>2, NandStarts
  <2>4. GoodMap /\ Lawful(plan, map, job) /\ BackedUp /\ GoodMap' /\ BackedUp'
    <3>1. GoodMap /\ Lawful(plan, map, job) /\ BackedUp
      BY <1>3 DEF NandInv, NandKnows
    <3> QED BY <1>2, <2>1, <3>1, NandKept
  <2>5. /\ chip.cells = before.cells /\ chip.op = NoOp /\ report.code = "none" /\ ~report.success
        /\ report.disposition = "noArrayMutation" /\ ~report.cleanupFailed
    BY <1>2, <1>3, NandStarts DEF NandInv, NandUntouched
  <2>6. NandTypes'
    BY <1>2, <1>4, <2>1, <2>3 DEF NandInv, NandTypes, NE!TypeOK, NandPlaces, NandMutating
  <2>7. NandAtRest' /\ NandUntouched' /\ NandReads'
    BY <1>2, <1>4, <2>1, <2>3, <2>5 DEF NandAtRest, NandUntouched, NandReads, NandPreparing
  <2>8. NandReports'
    BY <1>2, <2>1, <2>3, <2>5 DEF NandReports, NandScanning, NandPreparing, NandCapturing,
        NandMutating, NandRestoring
  <2>9. NandKnows'
    BY <1>2, <1>4, <2>1, <2>3, <2>4, <2>5 DEF NandKnows, NandPreparing, NandCapturing
  <2>10. NandProgress'
    BY <1>2, <1>4, <2>1, <2>3, <2>5 DEF NandProgress
  <2> QED BY <2>6, <2>7, <2>8, <2>9, <2>10 DEF NandInv
<1> QED BY <1>5, <1>6

(* What the session keeps from its first action to its last.                 *)
NandSessions == [taken : {TRUE}, protection : SUBSET NE!ProtectionBits,
                 configuration : SUBSET NE!ConfigurationBits,
                 mayHaveIssued : BOOLEAN, mayBeEnabled : BOOLEAN]

LEMMA NandInSession ==
    ASSUME NE!NANDAssumption, NandInv, session.taken
    PROVE  /\ GoodMap /\ Lawful(plan, map, job) /\ BackedUp
           /\ map \subseteq NandBlock /\ map # {}
           /\ \A b \in NandBlock \ map : chip.cells[b] = before.cells[b]
           /\ chip.op # NoOp /\ chip.op.kind # "load" => chip.op.block \in map
           /\ session \in NandSessions /\ chip \in NandChips /\ before \in NandChips
           /\ session.mayHaveIssued => session.mayBeEnabled
           /\ report \in NandReportTypes
           /\ pc \notin NandBefore
<1>1. GoodMap /\ Lawful(plan, map, job) /\ map \subseteq NandBlock /\ map # {}
  BY NandMapped
<1>2. /\ BackedUp
      /\ \A b \in NandBlock \ map : chip.cells[b] = before.cells[b]
      /\ chip.op # NoOp /\ chip.op.kind # "load" => chip.op.block \in map
  BY DEF NandInv, NandKnows
<1>3. /\ session \in NandSessions /\ chip \in NandChips /\ before \in NandChips
      /\ report \in NandReportTypes
  BY DEF NandInv, NandTypes, NE!TypeOK, NandChips, NandSessions, NandReportTypes
<1>4. (session.mayHaveIssued => session.mayBeEnabled) /\ pc \notin NandBefore
  BY DEF NandInv, NandReports, NandBefore
<1> QED BY <1>1, <1>2, <1>3, <1>4

(* In a session the array has been changed in good blocks only.               *)
LEMMA NandTakes ==
    ASSUME NE!NANDAssumption, NandInv, session.taken, session'.taken, pc' \notin NandBefore,
           UNCHANGED <<before, markers, job, map, plan, backup>>,
           \A b \in NandBlock \ map : chip'.cells[b] = before.cells[b],
           chip'.op # NoOp /\ chip'.op.kind # "load" => chip'.op.block \in map
    PROVE  NandKnows' /\ NandReads'
<1>1. GoodMap /\ Lawful(plan, map, job) /\ BackedUp
  BY NandInSession
<1>2. GoodMap' /\ Lawful(plan', map', job') /\ BackedUp'
  BY <1>1, NandKept
<1>3. /\ pc' \notin {"getECC", "disableECC", "readMarker", "restoreECC", "plan"}
      /\ pc' \notin NandPreparing
  BY DEF NandBefore, NandScanning
<1> QED BY <1>2, <1>3 DEF NandKnows, NandReads

(* While a job changes the part, its report says nothing yet.                 *)
LEMMA NandMutates ==
    ASSUME NE!NANDAssumption, NandInv, pc \in NandMutating
    PROVE  /\ session.taken /\ chip.op = NoOp /\ ~report.success /\ report.code = "none"
           /\ report.disposition = "noArrayMutation" /\ ~report.cleanupFailed
           /\ ~session.mayHaveIssued => chip.cells = before.cells
           /\ pc \notin {"restoreECC", "drain", "done"} /\ pc \notin NandRestoring
           /\ at \in Nat /\ blank \in 0 .. NE!Cardinality(NandPage)
<1>1. pc \notin {"restoreECC", "drain", "done"} /\ pc \notin NandRestoring
  BY DEF NandMutating, NandRestoring
<1>2. session.taken /\ chip.op = NoOp /\ at \in Nat /\ blank \in 0 .. NE!Cardinality(NandPage)
  BY <1>1 DEF NandInv, NandReports, NandAtRest, NandTypes, NE!TypeOK
<1>3. /\ ~report.success /\ report.code = "none"
      /\ report.disposition = "noArrayMutation" /\ ~report.cleanupFailed
  BY <1>1 DEF NandInv, NandReports
<1> QED BY <1>1, <1>2, <1>3 DEF NandInv, NandUntouched

(* Every way out of the session goes through its cleanup.                     *)
LEMMA NandLeaves ==
    ASSUME NE!NANDAssumption, NandInv, pc \in NandMutating, chip' \in NandChips,
           session' \in NandSessions, session'.mayHaveIssued => session'.mayBeEnabled,
           session'.mayHaveIssued \/ (chip'.op = NoOp /\ chip'.cells = before.cells),
           \A b \in NandBlock \ map : chip'.cells[b] = before.cells[b],
           chip'.op # NoOp /\ chip'.op.kind # "load" => chip'.op.block \in map,
           NEW code \in NandCodes, NE!LeaveWith(code),
           code = "cancelled" => /\ pc = "step" /\ at <= Len(plan) /\ plan[at].kind = "erase"
                                 /\ chip' = chip,
           UNCHANGED <<before, markers, job, map, plan, backup, ecc>>,
           blank' \in 0 .. NE!Cardinality(NandPage)
    PROVE  NandInv'
<1>1. /\ report' = [report EXCEPT !.code = code] /\ at' = at
      /\ pc' = IF session'.mayHaveIssued THEN "drain"
               ELSE IF session'.mayBeEnabled THEN "disableWrites" ELSE "restoreConfiguration"
  BY DEF NE!LeaveWith, NE!FailWith, NE!Goto, NE!Cleanup
<1>2. /\ session.taken /\ ~report.success /\ report.disposition = "noArrayMutation"
      /\ ~report.cleanupFailed /\ report \in NandReportTypes
  BY NandMutates, NandInSession
<1>3. /\ report' \in NandReportTypes /\ report'.code = code /\ ~report'.success
      /\ report'.disposition = "noArrayMutation" /\ ~report'.cleanupFailed
  BY <1>1, <1>2 DEF NandReportTypes
<1>4. pc' \in {"drain", "disableWrites", "restoreConfiguration"} /\ pc' \notin NandBefore
      /\ pc' \notin NandMutating
  BY <1>1 DEF NandBefore, NandScanning, NandPreparing, NandCapturing, NandMutating
<1>5. NandTypes'
  <2>1. NE!TypeOK'
    BY <1>1, <1>3, <1>4 DEF NandInv, NandTypes, NE!TypeOK, NandChips, NandSessions, NandReportTypes
  <2> QED BY <2>1, <1>3, <1>4 DEF NandInv, NandTypes, NandPlaces, NandReportTypes, NandRestoring
<1>6. NandAtRest' /\ NandUntouched'
  BY <1>1, <1>3 DEF NandAtRest, NandUntouched
<1>7. NandReports'
  BY <1>1, <1>3, <1>4 DEF NandReports, NandBefore, NandMutating, NandRestoring, NandSessions
<1>8. NandKnows' /\ NandReads'
  BY <1>2, <1>4, NandTakes DEF NandSessions
<1>9. NandProgress'
  <2>1. CASE code # "cancelled"
    BY <1>3, <1>4, <2>1 DEF NandProgress
  <2>2. CASE code = "cancelled"
    <3>1. /\ pc = "step" /\ at <= Len(plan) /\ plan[at].kind = "erase" /\ chip' = chip
      BY <2>2
    <3>2. /\ at \in 1 .. Len(plan) + 1 /\ chip.op = NoOp
          /\ \A i \in 1 .. at - 1 : StepHolds(i)
          /\ \A b \in NandBlock :
                (\A i \in 1 .. at - 1 : plan[i].block # b) => chip.cells[b] = before.cells[b]
      BY <3>1 DEF NandInv, NandProgress
    <3>3. \A i : StepHolds(i)' = StepHolds(i)
      BY <3>1 DEF StepHolds
    <3> QED BY <1>1, <1>3, <1>4, <3>1, <3>2, <3>3 DEF NandProgress
  <2> QED BY <2>1, <2>2
<1> QED BY <1>5, <1>6, <1>7, <1>8, <1>9 DEF NandInv

LEMMA NandKeepsOn ==
    ASSUME NE!NANDAssumption, NandInv, pc \in NandMutating, pc' \in NandMutating,
           chip' \in NandChips, chip'.op = NoOp,
           session' \in NandSessions, session'.mayHaveIssued => session'.mayBeEnabled,
           ~session'.mayHaveIssued => chip'.cells = before.cells,
           \A b \in NandBlock \ map : chip'.cells[b] = before.cells[b],
           pc' \in {"step", "verify"} => (at' > 1 \/ pc' = "verify" => session'.mayHaveIssued),
           at' \in Nat, pc' = "verify" => at' \in 1 .. Len(plan),
           blank' \in 0 .. NE!Cardinality(NandPage),
           UNCHANGED <<before, markers, job, map, plan, backup, ecc, report>>,
           NandProgress'
    PROVE  NandInv'
<1>1. /\ session.taken /\ ~report.success /\ report.code = "none"
      /\ report.disposition = "noArrayMutation" /\ ~report.cleanupFailed
      /\ report \in NandReportTypes /\ DOMAIN plan = 1 .. Len(plan)
  <2>1. session.taken /\ plan \in Seq(NandStep(map))
    BY NandMutates, NandInSession DEF Lawful
  <2>2. DOMAIN plan = 1 .. Len(plan)
    BY <2>1
  <2> QED BY <2>1, <2>2, NandMutates, NandInSession
<1>2. pc' \notin NandBefore /\ pc' \notin {"drain", "done"} /\ pc' \notin NandRestoring
  BY DEF NandBefore, NandScanning, NandPreparing, NandCapturing, NandMutating, NandRestoring
<1>3. NandTypes'
  <2>1. NE!TypeOK'
    BY <1>1 DEF NandInv, NandTypes, NE!TypeOK, NandChips, NandSessions, NandReportTypes
  <2> QED BY <2>1, <1>1 DEF NandInv, NandTypes, NandPlaces, NandReportTypes
<1>4. NandAtRest' /\ NandUntouched'
  BY <1>1, <1>2 DEF NandAtRest, NandUntouched
<1>5. NandReports'
  BY <1>1, <1>2 DEF NandReports, NandBefore, NandMutating, NandRestoring, NandSessions
<1>6. NandKnows' /\ NandReads'
  BY <1>1, <1>2, NandTakes DEF NandSessions
<1> QED BY <1>3, <1>4, <1>5, <1>6 DEF NandInv

LEMMA NandUnlockPart ==
    ASSUME NE!NANDAssumption, NandInv, NE!UnlockPart
    PROVE  NandInv'
<1>1. PICK r \in NE!UnlockAll(chip) :
          /\ chip' = r.chip
          /\ IF r.error # "none" THEN NE!LeaveWith("protection")
             ELSE NE!Goto("mutationECC") /\ UNCHANGED <<at, report>>
  BY DEF NE!UnlockPart
<1>2. /\ pc = "unlock" /\ UNCHANGED session
      /\ UNCHANGED <<before, markers, job, asked, blank, map, plan, reads, backup, ecc>>
  BY DEF NE!UnlockPart, NE!InSession, NE!Unchanged
<1>3. pc \in NandMutating /\ session.taken
  BY <1>2, NandMutates DEF NandMutating
<1>4. chip' \in NandChips /\ chip'.op = NoOp /\ chip'.cells = chip.cells
  <2>1. {} \in SUBSET NE!ProtectionBits
    OBVIOUS
  <2>2. Quiet(chip, chip) /\ Quiet(chip, Protected(chip, {})) /\ Protected(chip, {}).op = chip.op
    BY <1>3, <2>1, NandInSession, QuietChanges
  <2> QED BY <1>1, <1>3, <2>2, UnlockResult, NandMutates DEF Quiet
<1>5. chip.cells = before.cells
  BY <1>2 DEF NandInv, NandProgress
<1>6. CASE r.error # "none"
  <2>1. NE!LeaveWith("protection")
    BY <1>1, <1>6
  <2> QED BY <1>2, <1>3, <1>4, <1>5, <2>1, NandInSession, NandMutates, NandLeaves
       DEF NandCodes
<1>7. CASE r.error = "none"
  <2>1. pc' = "mutationECC" /\ UNCHANGED <<at, report>> /\ pc' \in NandMutating
    BY <1>1, <1>7 DEF NE!Goto, NandMutating
  <2>2. NandProgress'
    BY <1>2, <1>3, <1>4, <1>5, <2>1, NandMutates DEF NandProgress
  <2> QED BY <1>2, <1>3, <1>4, <1>5, <2>1, <2>2, NandInSession, NandMutates, NandKeepsOn
<1> QED BY <1>6, <1>7

LEMMA NandMutationECC ==
    ASSUME NE!NANDAssumption, NandInv, NE!MutationECC
    PROVE  NandInv'
<1>1. PICK r \in NE!SetECC(chip, job.kind = "write") :
          /\ chip' = r.chip
          /\ IF r.error # "none" THEN NE!LeaveWith(r.error)
             ELSE NE!Goto("step") /\ at' = 1 /\ UNCHANGED report
  BY DEF NE!MutationECC
<1>2. /\ pc = "mutationECC" /\ UNCHANGED session
      /\ UNCHANGED <<before, markers, job, asked, blank, map, plan, reads, backup, ecc>>
  BY DEF NE!MutationECC, NE!InSession, NE!Unchanged
<1>3. pc \in NandMutating /\ session.taken /\ chip \in NandChips
  BY <1>2, NandMutates, NandInSession DEF NandMutating
<1>4. /\ chip' \in NandChips /\ chip'.op = NoOp /\ chip'.cells = chip.cells
      /\ r.error \in {"none"} \cup IOErrors
  BY <1>1, <1>3, NandMutates, ECCQuiet DEF Quiet
<1>5. chip.cells = before.cells
  BY <1>2 DEF NandInv, NandProgress
<1>6. CASE r.error # "none"
  <2>1. NE!LeaveWith(r.error) /\ r.error \in NandCodes /\ r.error # "cancelled"
    BY <1>1, <1>4, <1>6 DEF NandCodes, IOErrors
  <2> QED BY <1>2, <1>3, <1>4, <1>5, <2>1, NandInSession, NandMutates, NandLeaves
<1>7. CASE r.error = "none"
  <2>1. pc' = "step" /\ at' = 1 /\ UNCHANGED report /\ pc' \in NandMutating
    BY <1>1, <1>7 DEF NE!Goto, NandMutating
  <2>2. Len(plan) \in Nat /\ Len(plan) >= 1
    BY <1>3, NandInSession DEF Lawful
  <2>3. NandProgress'
    BY <1>2, <1>3, <1>4, <1>5, <2>1, <2>2, NandMutates DEF NandProgress
  <2> QED BY <1>2, <1>3, <1>4, <1>5, <2>1, <2>3, NandInSession, NandMutates, NandKeepsOn
<1> QED BY <1>4, <1>6, <1>7

LEMMA NandCancel ==
    ASSUME NE!NANDAssumption, NandInv, NE!Cancel
    PROVE  NandInv'
<1>1. /\ pc = "step" /\ at <= Len(plan) /\ plan[at].kind = "erase"
      /\ UNCHANGED session /\ NE!LeaveWith("cancelled") /\ UNCHANGED chip
      /\ UNCHANGED <<before, markers, job, asked, blank, map, plan, reads, backup, ecc>>
  BY DEF NE!Cancel, NE!InSession, NE!Unchanged, NE!AtBoundary
<1>2. pc \in NandMutating /\ session.taken
  BY <1>1, NandMutates DEF NandMutating
<1> QED BY <1>1, <1>2, NandInSession, NandMutates, NandLeaves DEF NandCodes

LEMMA NandAllDone ==
    ASSUME NE!NANDAssumption, NandInv, NE!AllDone
    PROVE  NandInv'
<1>1. /\ pc = "step" /\ at > Len(plan)
      /\ report' = [report EXCEPT !.success = TRUE]
      /\ UNCHANGED <<chip, session, at>> /\ NE!Goto(NE!Cleanup)
      /\ UNCHANGED <<before, markers, job, asked, blank, map, plan, reads, backup, ecc>>
  BY DEF NE!AllDone, NE!InSession, NE!Unchanged
<1>2. pc \in NandMutating /\ session.taken
  BY <1>1, NandMutates DEF NandMutating
<1>3. /\ at \in 1 .. Len(plan) + 1 /\ chip.op = NoOp
      /\ \A i \in 1 .. at - 1 : StepHolds(i)
      /\ \A b \in NandBlock :
            (\A i \in 1 .. at - 1 : plan[i].block # b) => chip.cells[b] = before.cells[b]
  BY <1>1 DEF NandInv, NandProgress
<1>4. Len(plan) \in Nat /\ Len(plan) >= 1 /\ at = Len(plan) + 1 /\ at > 1
  <2>1. Len(plan) \in Nat /\ Len(plan) >= 1
    BY <1>2, NandInSession DEF Lawful
  <2> QED BY <2>1, <1>1, <1>3
<1>5. session.mayHaveIssued /\ session.mayBeEnabled
  BY <1>1, <1>2, <1>4, NandInSession DEF NandInv, NandReports
<1>6. pc' = "drain" /\ pc' \notin NandBefore /\ pc' \notin NandMutating /\ pc' \notin NandRestoring
  BY <1>1, <1>5 DEF NE!Goto, NE!Cleanup, NandBefore, NandScanning, NandPreparing, NandCapturing,
                    NandMutating, NandRestoring
<1>7. /\ report' \in NandReportTypes /\ report'.success /\ report'.code = "none"
      /\ report'.disposition = "noArrayMutation" /\ ~report'.cleanupFailed
  BY <1>1, <1>2, NandMutates, NandInSession DEF NandReportTypes
<1>8. NandTypes'
  <2>1. NE!TypeOK'
    BY <1>1, <1>6, <1>7 DEF NandInv, NandTypes, NE!TypeOK, NandReportTypes
  <2> QED BY <1>1, <2>1, <1>6, <1>7 DEF NandInv, NandTypes, NandPlaces, NandReportTypes
<1>9. NandAtRest' /\ NandUntouched'
  BY <1>1, <1>5, <1>6, <1>7 DEF NandAtRest, NandUntouched
<1>10. NandReports'
  BY <1>1, <1>2, <1>5, <1>6, <1>7 DEF NandReports, NandBefore
<1>11. NandKnows' /\ NandReads'
  BY <1>1, <1>2, <1>6, NandTakes, NandInSession
<1>12. NandProgress'
  <2>1. \A i : StepHolds(i)' = StepHolds(i)
    BY <1>1 DEF StepHolds
  <2> QED BY <1>1, <1>3, <1>4, <1>6, <1>7, <2>1 DEF NandProgress
<1> QED BY <1>8, <1>9, <1>10, <1>11, <1>12 DEF NandInv

(* A step of the plan that ended well spoils no page of an earlier one, and    *)
(* no block of a later one.                                                *)
LEMMA StepSpares ==
    ASSUME NE!NANDAssumption, NandInv, pc = "step", at <= Len(plan),
           chip' \in NandChips, UNCHANGED <<plan, job, before, map>>,
           NEW op, op.block = plan[at].block, op.kind = plan[at].kind,
           op.kind = "program" => op.page = plan[at].page,
           Spares(op, chip.cells, chip'.cells)
    PROVE  /\ \A i \in 1 .. at - 1 : StepHolds(i)'
           /\ \A b \in NandBlock :
                 (\A i \in 1 .. at : plan[i].block # b) => chip'.cells[b] = before.cells[b]
           /\ \A b \in NandBlock \ map : chip'.cells[b] = before.cells[b]
<1>1. pc \in NandMutating /\ session.taken
  BY NandMutates DEF NandMutating
<1>2. /\ at \in 1 .. Len(plan) + 1
      /\ \A i \in 1 .. at - 1 : StepHolds(i)
      /\ \A b \in NandBlock :
            (\A i \in 1 .. at - 1 : plan[i].block # b) => chip.cells[b] = before.cells[b]
  BY DEF NandInv, NandProgress
<1>3. Len(plan) \in Nat /\ at \in 1 .. Len(plan) /\ \A i \in 1 .. Len(plan) : plan[i] \in NandStep(map)
  <2>1. plan \in Seq(NandStep(map))
    BY <1>1, NandInSession DEF Lawful
  <2> QED BY <2>1, <1>2
<1>4. /\ \A i \in 1 .. Len(plan) : /\ job.kind = "erase" => plan[i].kind = "erase"
                                   /\ plan[i].block \in map /\ plan[i].page \in NandPage
                                   /\ plan[i].kind \in {"erase", "program"}
      /\ map \subseteq NandBlock
  <2>1. Lawful(plan, map, job) /\ map \subseteq NandBlock
    BY <1>1, NandInSession
  <2> QED BY <2>1, <1>3 DEF Lawful, NandStep
<1>5. ASSUME NEW i \in 1 .. at - 1, plan[at].kind = "erase"
      PROVE  plan[i].block # plan[at].block
  <2>1. i \in 1 .. Len(plan) /\ i < at /\ at <= at
    BY <1>3
  <2> QED BY <1>1, <1>3, <1>5, <2>1, NandInSession DEF Lawful
<1>6. ASSUME NEW i \in 1 .. at - 1, plan[i].kind = "program", plan[at].kind = "program"
      PROVE  plan[i].block # plan[at].block \/ plan[i].page # plan[at].page
  <2>1. i \in 1 .. Len(plan) /\ i < at
    BY <1>3
  <2> QED BY <1>1, <1>3, <1>6, <2>1, NandInSession DEF Lawful
<1>7. ASSUME NEW i \in 1 .. at - 1
      PROVE  StepHolds(i)'
  <2>1. StepHolds(i) /\ i \in 1 .. Len(plan)
    BY <1>2, <1>3
  <2>2. plan[i].block \in NandBlock /\ plan[i].page \in NandPage
    BY <2>1, <1>4
  <2>3. CASE plan[i].block # plan[at].block
    <3>1. chip'.cells[plan[i].block] = chip.cells[plan[i].block]
      BY <2>2, <2>3 DEF Spares
    <3> QED BY <2>1, <3>1 DEF StepHolds
  <2>4. CASE plan[i].block = plan[at].block
    <3>1. plan[at].kind = "program" /\ job.kind # "erase"
      BY <1>3, <1>4, <1>5, <2>4
    <3>2. CASE plan[i].kind = "program"
      <4>1. plan[i].page \in NandPage \ {op.page}
        BY <1>6, <2>2, <2>4, <3>1, <3>2
      <4>2. chip'.cells[plan[i].block][plan[i].page] = chip.cells[plan[i].block][plan[i].page]
        BY <2>2, <2>4, <3>1, <4>1 DEF Spares
      <4> QED BY <2>1, <3>2, <4>2 DEF StepHolds
    <3>3. CASE plan[i].kind # "program"
      BY <3>1, <3>3 DEF StepHolds
    <3> QED BY <3>2, <3>3
  <2> QED BY <2>3, <2>4
<1>8. ASSUME NEW b \in NandBlock, \A i \in 1 .. at : plan[i].block # b
      PROVE  chip'.cells[b] = before.cells[b]
  <2>1. b # plan[at].block /\ chip.cells[b] = before.cells[b]
    BY <1>2, <1>3, <1>8
  <2> QED BY <2>1 DEF Spares
<1>9. ASSUME NEW b \in NandBlock \ map
      PROVE  chip'.cells[b] = before.cells[b]
  <2>1. b # plan[at].block /\ chip.cells[b] = before.cells[b]
    BY <1>1, <1>3, <1>4, NandInSession
  <2> QED BY <2>1 DEF Spares
<1> QED BY <1>7, <1>8, <1>9

LEMMA NandRunStep ==
    ASSUME NE!NANDAssumption, NandInv, NE!RunStep
    PROVE  NandInv'
<1> DEFINE op == IF plan[at].kind = "erase" THEN NE!EraseOf(plan[at].block)
                 ELSE NE!ProgramOf(plan[at].block, plan[at].page, plan[at].image)
<1>1. PICK r \in NE!ArrayStep(plan[at]) :
          /\ chip' = r.chip
          /\ session' = NE!NoteMutationIO(session, r) /\ blank' = 0
          /\ CASE r.error # "none" -> NE!LeaveWith(r.error)
               [] r.error = "none" /\ r.value -> NE!LeaveWith(NE!FailedStep(plan[at]))
               [] OTHER -> /\ IF plan[at].kind = "erase" /\ job.kind = "write"
                              THEN NE!Goto("step") /\ at' = at + 1
                              ELSE NE!Goto("verify") /\ UNCHANGED at
                           /\ UNCHANGED report
  BY DEF NE!RunStep
<1>2. /\ pc = "step" /\ at <= Len(plan)
      /\ UNCHANGED <<before, markers, job, asked, map, plan, reads, backup, ecc>>
  BY DEF NE!RunStep
<1>3. pc \in NandMutating /\ session.taken /\ chip \in NandChips /\ chip.op = NoOp
      /\ session \in NandSessions
  BY <1>2, NandMutates, NandInSession DEF NandMutating
<1>4. at \in 1 .. Len(plan) /\ Len(plan) \in Nat /\ plan[at] \in NandStep(map)
      /\ map \subseteq NandBlock
  <2>1. at \in 1 .. Len(plan) + 1 /\ plan \in Seq(NandStep(map)) /\ map \subseteq NandBlock
    BY <1>2, <1>3, NandInSession DEF NandInv, NandProgress, Lawful
  <2> QED BY <2>1, <1>2
<1>5. /\ plan[at].block \in map /\ plan[at].block \in NandBlock /\ plan[at].page \in NandPage
      /\ plan[at].kind \in {"erase", "program"}
      /\ plan[at].kind = "program" => plan[at].image \in NE!Content
  <2>1. plan[at].kind = "program" => plan[at].image \in 1 .. ImagePages
    BY <1>3, <1>4, NandInSession DEF Lawful
  <2> QED BY <2>1, <1>4 DEF NandStep, NE!Content
<1>6. Asked(chip, op, r)
  <2>1. CASE plan[at].kind = "erase"
    BY <1>1, <1>3, <1>5, <2>1, EraseResult DEF NE!ArrayStep
  <2>2. CASE plan[at].kind = "program"
    BY <1>1, <1>3, <1>5, <2>2, ProgramResult DEF NE!ArrayStep
  <2> QED BY <1>5, <2>1, <2>2
<1>7. op.block = plan[at].block /\ op.kind = plan[at].kind
      /\ (op.kind = "program" => op.page = plan[at].page)
  BY <1>5 DEF NE!EraseOf, NE!ProgramOf
<1> HIDE DEF op
<1>8. /\ chip' \in NandChips /\ Spares(op, chip.cells, chip'.cells)
      /\ \/ r.error = "none" /\ r.mutation = "idle" /\ chip'.op = NoOp
         \/ /\ r.error \in IOErrors /\ r.mutation = "possibly" /\ chip'.cells = chip.cells
            /\ chip'.op \in {NoOp, op}
         \/ /\ r.error \in IOErrors /\ r.mutation = "none" /\ chip'.cells = chip.cells
            /\ chip'.op = NoOp
  BY <1>1, <1>6 DEF Asked
<1>9. /\ \A i \in 1 .. at - 1 : StepHolds(i)'
      /\ \A b \in NandBlock :
             (\A i \in 1 .. at : plan[i].block # b) => chip'.cells[b] = before.cells[b]
      /\ \A b \in NandBlock \ map : chip'.cells[b] = before.cells[b]
  BY <1>2, <1>7, <1>8, StepSpares
<1>10. /\ session' \in NandSessions /\ session'.mayBeEnabled
       /\ session'.mayHaveIssued = (session.mayHaveIssued \/ r.mutation \in {"possibly", "idle"})
  BY <1>1, <1>3 DEF NE!NoteMutationIO, NandSessions
<1>11. blank' \in 0 .. NE!Cardinality(NandPage) /\ 0 < NE!Cardinality(NandPage) /\ blank' = 0
  BY <1>1, Geometry
<1>12. CASE r.error # "none"
  <2>1. NE!LeaveWith(r.error) /\ r.error \in NandCodes /\ r.error # "cancelled"
    BY <1>1, <1>8, <1>12 DEF NandCodes, IOErrors
  <2>2. session'.mayHaveIssued \/ (chip'.op = NoOp /\ chip'.cells = before.cells)
    BY <1>3, <1>8, <1>10, <1>12, NandMutates
  <2>3. chip'.op # NoOp /\ chip'.op.kind # "load" => chip'.op.block \in map
    BY <1>5, <1>7, <1>8
  <2> QED BY <1>2, <1>3, <1>8, <1>9, <1>10, <1>11, <2>1, <2>2, <2>3, NandLeaves
<1>13. CASE r.error = "none" /\ r.value
  <2>1. NE!LeaveWith(NE!FailedStep(plan[at]))
    BY <1>1, <1>13
  <2>2. NE!FailedStep(plan[at]) \in NandCodes /\ NE!FailedStep(plan[at]) # "cancelled"
    BY DEF NE!FailedStep, NandCodes
  <2>3. session'.mayHaveIssued /\ chip'.op = NoOp
    BY <1>8, <1>10, <1>13 DEF IOErrors
  <2> QED BY <1>2, <1>3, <1>8, <1>9, <1>10, <1>11, <2>1, <2>2, <2>3, NandLeaves
<1>14. CASE r.error = "none" /\ ~r.value
  <2>1. /\ IF plan[at].kind = "erase" /\ job.kind = "write"
           THEN pc' = "step" /\ at' = at + 1
           ELSE pc' = "verify" /\ at' = at
        /\ UNCHANGED report
    BY <1>1, <1>14 DEF NE!Goto
  <2>2. session'.mayHaveIssued /\ chip'.op = NoOp
    BY <1>8, <1>10, <1>14 DEF IOErrors
  <2>3. pc' \in NandMutating /\ at' \in Nat /\ (pc' = "verify" => at' \in 1 .. Len(plan))
    BY <1>4, <2>1 DEF NandMutating
  <2>4. ~report.success /\ report.code = "none"
    BY <1>3, NandMutates
  <2>5. NandProgress'
    <3>1. CASE plan[at].kind = "erase" /\ job.kind = "write"
      <4>1. PICK k \in 1 .. Len(plan) : k = at
        BY <1>4
      <4>2. \A i \in 1 .. at' - 1 : StepHolds(i)'
        <5>1. StepHolds(k)'
          BY <1>2, <3>1, <4>1 DEF StepHolds
        <5>2. \A i \in 1 .. at' - 1 : i \in 1 .. at - 1 \/ i = k
          BY <1>4, <2>1, <3>1, <4>1
        <5> QED BY <1>9, <5>1, <5>2
      <4> QED BY <1>2, <1>4, <1>9, <2>1, <2>2, <2>4, <3>1, <4>2 DEF NandProgress
    <3>2. CASE ~(plan[at].kind = "erase" /\ job.kind = "write")
      <4>1. job.kind \in {"write", "erase"}
        BY DEF NandInv, NandTypes, NE!NANDAssumption
      <4>2. pc' = "verify" /\ at' = at
        BY <2>1, <3>2
      <4>3. plan'[at'].kind = "erase" => job'.kind = "erase"
        BY <1>2, <3>2, <4>1, <4>2
      <4>4. /\ \A i \in 1 .. at' - 1 : StepHolds(i)'
            /\ \A b \in NandBlock :
                  (\A i \in 1 .. at' : plan'[i].block # b) => chip'.cells[b] = before'.cells[b]
        BY <1>2, <1>9, <4>2
      <4>5. /\ blank' < NE!PagesPerBlock' /\ at' \in 1 .. Len(plan') + 1 /\ at' <= Len(plan')
            /\ \A p \in NandPage : ~(p < blank')
        BY <1>2, <1>4, <1>11, <4>2, Geometry DEF NE!PagesPerBlock
      <4> QED BY <2>1, <2>2, <2>4, <4>2, <4>3, <4>4, <4>5 DEF NandProgress
    <3> QED BY <3>1, <3>2
  <2> QED BY <1>2, <1>3, <1>8, <1>9, <1>10, <1>11, <2>1, <2>2, <2>3, <2>5, NandKeepsOn
<1> QED BY <1>12, <1>13, <1>14

LEMMA NandVerify ==
    ASSUME NE!NANDAssumption, NandInv, NE!Verify
    PROVE  NandInv'
<1> DEFINE b == plan[at].block
           q == NE!PageToVerify
<1>1. PICK r \in NE!ReadPage(chip, chip.cells[b][q], b, q) :
          /\ chip' = r.chip
          /\ CASE r.error # "none" -> NE!LeaveWith(r.error) /\ UNCHANGED blank
               [] r.error = "none" /\ r.value.ecc = "uncorrectable" ->
                      NE!LeaveWith("uncorrectable") /\ UNCHANGED blank
               [] r.error = "none" /\ r.value.ecc # "uncorrectable"
                      /\ r.value.data # NE!Expected ->
                      NE!LeaveWith("mismatch") /\ UNCHANGED blank
               [] OTHER ->
                      /\ blank' = blank + 1
                      /\ IF plan[at].kind = "erase" /\ blank + 1 < NE!Cardinality(NandPage)
                         THEN UNCHANGED <<pc, at>>
                         ELSE NE!Goto("step") /\ at' = at + 1
                      /\ UNCHANGED report
  BY DEF NE!Verify
<1>2. /\ pc = "verify" /\ UNCHANGED session
      /\ UNCHANGED <<before, markers, job, asked, map, plan, reads, backup, ecc>>
  BY DEF NE!Verify
<1>3. /\ pc \in NandMutating /\ session.taken /\ chip \in NandChips /\ chip.op = NoOp
      /\ session \in NandSessions /\ session.mayHaveIssued /\ session.mayBeEnabled
  <2>1. pc \in NandMutating
    BY <1>2 DEF NandMutating
  <2> QED BY <1>2, <2>1, NandMutates, NandInSession DEF NandInv, NandReports
<1>4. /\ at \in 1 .. Len(plan) /\ Len(plan) \in Nat /\ plan[at] \in NandStep(map)
      /\ map \subseteq NandBlock
      /\ plan[at].kind = "program" => plan[at].image \in 1 .. ImagePages
  <2>1. Lawful(plan, map, job) /\ map \subseteq NandBlock
    BY <1>3, NandInSession
  <2>2. at \in 1 .. Len(plan) + 1 /\ at <= Len(plan)
    BY <1>2 DEF NandInv, NandProgress
  <2>3. at \in 1 .. Len(plan) /\ Len(plan) \in Nat /\ plan \in Seq(NandStep(map))
    BY <2>1, <2>2 DEF Lawful
  <2>4. plan[at] \in NandStep(map)
    BY <2>3
  <2> QED BY <2>1, <2>3, <2>4 DEF Lawful
<1>5. /\ blank \in Nat /\ blank < NE!PagesPerBlock
      /\ NE!PagesPerBlock \in Nat /\ NandPage = 0 .. NE!PagesPerBlock - 1
      /\ NE!PagesPerBlock = NE!Cardinality(NandPage)
      /\ plan[at].kind = "erase" =>
            /\ job.kind = "erase"
            /\ \A p \in NandPage : p < blank => chip.cells[plan[at].block][p] = Blank
  BY <1>2, Geometry DEF NandInv, NandProgress, NandTypes, NE!TypeOK, NE!PagesPerBlock
<1>6. /\ b \in NandBlock /\ q \in NandPage
      /\ q = IF plan[at].kind = "erase" THEN blank ELSE plan[at].page
  BY <1>4, <1>5 DEF NE!PageToVerify, NandStep
<1>7. /\ chip' \in NandChips /\ chip'.cells = chip.cells
      /\ chip'.op = NoOp \/ chip'.op.kind = "load"
      /\ \/ r.error = "none" /\ chip' = chip /\ r.value.data \in {chip.cells[b][q], Noise}
         \/ r.error \in IOErrors
  <2> HIDE DEF b, q
  <2>1. /\ Quiet(chip, r.chip)
        /\ \/ r.error = "none" /\ r.chip = chip /\ r.value.data \in {chip.cells[b][q], Noise}
           \/ r.error \in IOErrors
    BY <1>3, <1>6, ReadQuiet
  <2> QED BY <1>1, <1>3, <2>1 DEF Quiet
<1>8. /\ \A c \in NandBlock \ map : chip'.cells[c] = before.cells[c]
      /\ blank \in 0 .. NE!Cardinality(NandPage)
  BY <1>3, <1>7, NandInSession, NandMutates
<1> HIDE DEF b, q
<1>9. CASE r.error # "none"
  <2>1. NE!LeaveWith(r.error) /\ UNCHANGED blank /\ r.error \in NandCodes /\ r.error # "cancelled"
    BY <1>1, <1>7, <1>9 DEF NandCodes, IOErrors
  <2> QED BY <1>2, <1>3, <1>7, <1>8, <2>1, NandLeaves
<1>10. CASE r.error = "none" /\ r.value.ecc = "uncorrectable"
  <2>1. NE!LeaveWith("uncorrectable") /\ UNCHANGED blank
    BY <1>1, <1>10
  <2> QED BY <1>2, <1>3, <1>7, <1>8, <2>1, NandLeaves DEF NandCodes
<1>11. CASE r.error = "none" /\ r.value.ecc # "uncorrectable" /\ r.value.data # NE!Expected
  <2>1. NE!LeaveWith("mismatch") /\ UNCHANGED blank
    BY <1>1, <1>11
  <2> QED BY <1>2, <1>3, <1>7, <1>8, <2>1, NandLeaves DEF NandCodes
<1>12. CASE r.error = "none" /\ r.value.ecc # "uncorrectable" /\ r.value.data = NE!Expected
  <2>1. /\ blank' = blank + 1
        /\ IF plan[at].kind = "erase" /\ blank + 1 < NE!PagesPerBlock
           THEN pc' = pc /\ at' = at
           ELSE pc' = "step" /\ at' = at + 1
        /\ UNCHANGED report
    BY <1>1, <1>5, <1>12 DEF NE!Goto
  <2>2. chip' = chip /\ chip.cells[b][q] = NE!Expected
    <3>1. NE!Expected # Noise
      BY <1>4 DEF NE!Expected, NE!NANDAssumption, NE!Content, NandStep
    <3> QED BY <1>7, <1>12, <3>1 DEF IOErrors
  <2>3. /\ chip.op = NoOp
        /\ \A i \in 1 .. at - 1 : StepHolds(i)
        /\ \A c \in NandBlock :
              (\A i \in 1 .. at : plan[i].block # c) => chip.cells[c] = before.cells[c]
    BY <1>2 DEF NandInv, NandProgress
  <2>4. \A i : StepHolds(i)' = StepHolds(i)
    BY <1>2, <2>2 DEF StepHolds
  <2>5. plan[at].kind = "erase" => \A p \in NandPage : p < blank + 1 =>
            chip.cells[plan[at].block][p] = Blank
    <3> SUFFICES ASSUME plan[at].kind = "erase", NEW p \in NandPage, p < blank + 1
                 PROVE  chip.cells[plan[at].block][p] = Blank
      OBVIOUS
    <3>1. CASE p < blank
      BY <1>5, <3>1
    <3>2. CASE p = blank
      BY <1>6, <2>2, <3>2 DEF NE!Expected, b
    <3> QED BY <1>5, <3>1, <3>2
  <2>6. ~report.success /\ report.code = "none"
    BY <1>3, NandMutates
  <2>7. blank' \in 0 .. NE!Cardinality(NandPage) /\ pc' \in NandMutating
        /\ at' \in Nat /\ (pc' = "verify" => at' \in 1 .. Len(plan))
    BY <1>2, <1>3, <1>4, <1>5, <2>1 DEF NandMutating
  <2>8. NandProgress'
    <3>1. CASE plan[at].kind = "erase" /\ blank + 1 < NE!PagesPerBlock
      <4>1. pc' = "verify" /\ at' = at /\ blank' = blank + 1
        BY <1>2, <2>1, <3>1
      <4>2. NE!PagesPerBlock' = NE!PagesPerBlock
        BY DEF NE!PagesPerBlock
      <4>3. /\ \A i \in 1 .. at' - 1 : StepHolds(i)'
            /\ \A c \in NandBlock :
                  (\A i \in 1 .. at' : plan'[i].block # c) => chip'.cells[c] = before'.cells[c]
        BY <1>2, <2>2, <2>3, <2>4, <4>1
      <4>4. plan'[at'].kind = "erase" =>
                /\ job'.kind = "erase"
                /\ \A p \in NandPage : p < blank' => chip'.cells[plan'[at'].block][p] = Blank
        BY <1>2, <1>5, <2>2, <2>5, <4>1
      <4> QED BY <1>2, <1>4, <2>1, <2>2, <2>3, <2>6, <3>1, <4>1, <4>2, <4>3, <4>4
           DEF NandProgress
    <3>2. CASE ~(plan[at].kind = "erase" /\ blank + 1 < NE!PagesPerBlock)
      <4>1. pc' = "step" /\ at' = at + 1
        BY <2>1, <3>2
      <4>2. StepHolds(at)
        <5>1. CASE plan[at].kind = "erase"
          <6>1. \A p \in NandPage : p < blank + 1
            BY <1>5, <3>2, <5>1
          <6> QED BY <2>5, <5>1, <6>1 DEF StepHolds
        <5>2. CASE plan[at].kind # "erase"
          <6>1. plan[at].kind = "program"
            BY <1>4, <5>2 DEF NandStep
          <6> QED BY <1>6, <2>2, <5>2, <6>1 DEF StepHolds, NE!Expected, b
        <5> QED BY <5>1, <5>2
      <4>3. \A i \in 1 .. at' - 1 : StepHolds(i)'
        <5>1. \A i \in 1 .. at' - 1 : i \in 1 .. at - 1 \/ i = at
          BY <1>4, <4>1
        <5> QED BY <2>3, <2>4, <4>2, <5>1
      <4>4. \A c \in NandBlock :
               (\A i \in 1 .. at' - 1 : plan'[i].block # c) => chip'.cells[c] = before'.cells[c]
        <5>1. at' - 1 = at
          BY <1>4, <4>1
        <5> QED BY <1>2, <2>2, <2>3, <5>1
      <4> QED BY <1>2, <1>4, <2>1, <2>2, <2>3, <2>6, <4>1, <4>3, <4>4 DEF NandProgress
    <3> QED BY <3>1, <3>2
  <2> QED BY <1>2, <1>3, <1>7, <1>8, <2>1, <2>2, <2>7, <2>8, NandMutates, NandKeepsOn
<1> QED BY <1>9, <1>10, <1>11, <1>12

-----------------------------------------------------------------------------
(* The array is what it was while the session is being closed, but for an      *)
(* operation that ends.                                                    *)
LEMMA NandCloses ==
    ASSUME NE!NANDAssumption, NandInv, pc \in {"drain", "done"} \cup NandRestoring,
           pc' \in {"drain", "done"} \cup NandRestoring,
           UNCHANGED <<before, markers, job, map, plan, backup, at, blank, ecc, session>>,
           chip' = chip \/ (chip.op # NoOp /\ chip' = NE!Completed(chip))
               \/ (Quiet(chip, chip') /\ chip'.op = chip.op),
           report' \in NandReportTypes, report'.success => report.success,
           report'.code = "cancelled" => report.code = "cancelled"
    PROVE  NandTypes' /\ NandUntouched' /\ NandKnows' /\ NandReads' /\ NandProgress'
           /\ chip' \in NandChips
<1>1. chip \in NandChips /\ (session.taken => session'.taken)
  BY DEF NandInv, NandTypes, NE!TypeOK, NandChips
<1>2. /\ chip' \in NandChips
      /\ chip.op = NoOp => chip'.op = NoOp /\ chip'.cells = chip.cells
      /\ chip.op # NoOp =>
             /\ Spares(chip.op, chip.cells, chip'.cells)
             /\ chip'.op \in {NoOp, chip.op}
             /\ chip.op.kind = "load" => chip'.cells = chip.cells
  <2>1. CASE chip' = chip \/ (Quiet(chip, chip') /\ chip'.op = chip.op)
    BY <1>1, <2>1 DEF Quiet, Spares
  <2>2. CASE chip.op # NoOp /\ chip' = NE!Completed(chip)
    BY <1>1, <2>2, OperationEnds
  <2> QED BY <2>1, <2>2
<1>3. pc' \notin NandBefore /\ pc' \notin NandMutating /\ pc # "verify"
  BY DEF NandBefore, NandScanning, NandPreparing, NandCapturing, NandMutating, NandRestoring
<1>4. NandTypes'
  <2>1. NE!TypeOK'
    BY <1>2, <1>3 DEF NandInv, NandTypes, NE!TypeOK, NandReportTypes, NandChips, NandMutating
  <2> QED BY <2>1 DEF NandInv, NandTypes, NandPlaces, NandReportTypes
<1>5. NandUntouched'
  BY <1>2 DEF NandInv, NandUntouched
<1>6. NandKnows' /\ NandReads'
  <2>1. CASE session.taken
    <3>1. /\ map \subseteq NandBlock
          /\ \A b \in NandBlock \ map : chip.cells[b] = before.cells[b]
          /\ chip.op # NoOp /\ chip.op.kind # "load" => chip.op.block \in map
      BY <2>1, NandInSession
    <3>2. \A b \in NandBlock \ map : chip'.cells[b] = before.cells[b]
      BY <1>2, <3>1 DEF Spares
    <3>3. chip'.op # NoOp /\ chip'.op.kind # "load" => chip'.op.block \in map
      BY <1>2, <3>1
    <3> QED BY <1>3, <2>1, <3>2, <3>3, NandTakes
  <2>2. CASE ~session.taken
    BY <1>3, <2>2 DEF NandKnows, NandReads, NandBefore, NandScanning
  <2> QED BY <2>1, <2>2
<1>7. NandProgress'
  <2>1. CASE ~(report.success \/ report.code = "cancelled")
    BY <1>3, <2>1 DEF NandProgress, NandMutating
  <2>2. CASE report.success \/ report.code = "cancelled"
    <3>1. /\ at \in 1 .. Len(plan) + 1 /\ chip.op = NoOp
          /\ \A i \in 1 .. at - 1 : StepHolds(i)
          /\ \A b \in NandBlock :
                (\A i \in 1 .. at - 1 : plan[i].block # b) => chip.cells[b] = before.cells[b]
          /\ report.success => at = Len(plan) + 1
          /\ report.code = "cancelled" => at <= Len(plan) /\ plan[at].kind = "erase"
      BY <1>3, <2>2 DEF NandInv, NandProgress
    <3>2. chip'.op = NoOp /\ chip'.cells = chip.cells
      BY <1>2, <3>1
    <3>3. \A i : StepHolds(i)' = StepHolds(i)
      BY <3>2 DEF StepHolds
    <3> QED BY <1>3, <3>1, <3>2, <3>3 DEF NandProgress, NandMutating
  <2> QED BY <2>1, <2>2
<1> QED BY <1>2, <1>4, <1>5, <1>6, <1>7

LEMMA ReportClosed ==
    ASSUME NEW rep \in NandReportTypes
    PROVE  /\ NE!CleanupError(rep) \in NandReportTypes /\ NE!CleanupError(rep).cleanupFailed
           /\ NE!CleanupError(rep).disposition = rep.disposition
           /\ NE!CleanupError(rep).success = rep.success /\ NE!CleanupError(rep).code = rep.code
           /\ NE!Closed(rep) \in NandReportTypes
           /\ NE!Closed(rep).disposition = rep.disposition
           /\ NE!Closed(rep).cleanupFailed = rep.cleanupFailed
           /\ NE!Closed(rep).success => rep.success /\ ~rep.cleanupFailed
           /\ NE!Closed(rep).code = "cancelled" => rep.code = "cancelled"
<1>1. /\ NE!CleanupError(rep) \in NandReportTypes /\ NE!CleanupError(rep).cleanupFailed
      /\ NE!CleanupError(rep).disposition = rep.disposition
      /\ NE!CleanupError(rep).success = rep.success /\ NE!CleanupError(rep).code = rep.code
  BY DEF NE!CleanupError, NandReportTypes
<1>2. CASE rep.cleanupFailed
  <2>1. PICK code \in {rep.code, "unknownBusy", "cleanupFailed"} :
            NE!Closed(rep) = [rep EXCEPT !.success = FALSE, !.code = code]
    BY <1>2 DEF NE!Closed, NandReportTypes
  <2>2. code \in NandCodes /\ (code = "cancelled" => rep.code = "cancelled")
    BY <2>1 DEF NandReportTypes, NandCodes
  <2> QED BY <1>1, <1>2, <2>1, <2>2 DEF NandReportTypes
<1>3. CASE ~rep.cleanupFailed
  BY <1>1, <1>3 DEF NE!Closed
<1> QED BY <1>2, <1>3

LEMMA NandClosing ==
    ASSUME NandInv, pc \in {"drain"} \cup NandRestoring
    PROVE  /\ session.taken /\ report \in NandReportTypes /\ chip \in NandChips
           /\ session \in NandSessions /\ (session.mayHaveIssued => session.mayBeEnabled)
           /\ pc # "drain" => chip.op = NoOp
           /\ report.success => session.mayHaveIssued
<1>1. /\ session.taken /\ (session.mayHaveIssued => session.mayBeEnabled)
      /\ report.success => session.mayHaveIssued
  BY DEF NandInv, NandReports
<1>2. pc # "drain" => chip.op = NoOp
  BY DEF NandInv, NandAtRest, NandRestoring
<1> QED BY <1>1, <1>2 DEF NandInv, NandTypes, NandReportTypes, NE!TypeOK, NandChips, NandSessions

LEMMA NandDrain ==
    ASSUME NE!NANDAssumption, NandInv, NE!DrainArray
    PROVE  NandInv'
<1>1. PICK r \in NE!EnsureIdle(chip) :
          /\ chip' = r.chip
          /\ NE!Goto(NE!AfterDrain(r))
          /\ report' = IF r.error = "none"
                       THEN [report EXCEPT !.disposition = "arrayIdle"]
                       ELSE NE!Closed(NE!CleanupError(
                               [report EXCEPT !.disposition = "arrayBusyUnknown"]))
  BY DEF NE!DrainArray
<1>2. /\ pc = "drain"
      /\ UNCHANGED <<before, markers, job, asked, blank, map, plan, reads, backup, ecc, at, session>>
  BY DEF NE!DrainArray, NE!InSession, NE!Unchanged
<1>3. /\ session.taken /\ report \in NandReportTypes /\ chip \in NandChips
      /\ session \in NandSessions /\ (session.mayHaveIssued => session.mayBeEnabled)
      /\ report.success => session.mayHaveIssued
      /\ report.disposition = "noArrayMutation" /\ ~report.cleanupFailed
  BY <1>2, NandClosing DEF NandInv, NandReports, NandRestoring
<1>4. \/ r.error = "none" /\ chip' = NE!Completed(chip)
      \/ r.error # "none" /\ chip' = chip
  BY <1>1, DrainResult
<1>5. chip' = chip \/ (chip.op # NoOp /\ chip' = NE!Completed(chip))
  BY <1>4 DEF NE!Completed
<1>6. CASE r.error = "none"
  <2>1. /\ pc' = "disableWrites" /\ report' = [report EXCEPT !.disposition = "arrayIdle"]
        /\ pc' \in NandRestoring
    BY <1>1, <1>6 DEF NE!Goto, NE!AfterDrain, NandRestoring
  <2>2. /\ report' \in NandReportTypes /\ report'.disposition = "arrayIdle"
        /\ report'.success = report.success /\ report'.code = report.code
        /\ ~report'.cleanupFailed
    BY <1>3, <2>1 DEF NandReportTypes
  <2>3. chip'.op = NoOp
    BY <1>3, <1>4, <1>6, OperationEnds DEF NE!Completed
  <2>4. NandTypes' /\ NandUntouched' /\ NandKnows' /\ NandReads' /\ NandProgress'
    BY <1>2, <1>5, <2>1, <2>2, NandCloses
  <2>5. NandAtRest'
    BY <2>3 DEF NandAtRest
  <2>6. NandReports'
    BY <1>2, <1>3, <2>1, <2>2 DEF NandReports, NandScanning, NandPreparing, NandCapturing,
        NandMutating, NandRestoring
  <2> QED BY <2>4, <2>5, <2>6 DEF NandInv
<1>7. CASE r.error # "none"
  <2> DEFINE rep == [report EXCEPT !.disposition = "arrayBusyUnknown"]
  <2>1. rep \in NandReportTypes /\ rep.disposition = "arrayBusyUnknown"
        /\ rep.success = report.success /\ rep.code = report.code
    BY <1>3 DEF NandReportTypes
  <2>2. pc' = "done" /\ report' = NE!Closed(NE!CleanupError(rep))
    BY <1>1, <1>7 DEF NE!Goto, NE!AfterDrain
  <2> HIDE DEF rep
  <2>3. /\ report' \in NandReportTypes /\ report'.disposition = "arrayBusyUnknown"
        /\ ~report'.success /\ report'.cleanupFailed
        /\ report'.code = "cancelled" => report.code = "cancelled"
    <3>1. NE!CleanupError(rep) \in NandReportTypes
      BY <2>1, ReportClosed
    <3> QED BY <2>1, <2>2, <3>1, ReportClosed
  <2>4. NandTypes' /\ NandUntouched' /\ NandKnows' /\ NandReads' /\ NandProgress'
    BY <1>2, <1>5, <2>2, <2>3, NandCloses
  <2>5. NandAtRest'
    BY <2>2, <2>3 DEF NandAtRest
  <2>6. NandReports'
    BY <1>2, <1>3, <2>2, <2>3 DEF NandReports, NandScanning, NandPreparing, NandCapturing,
        NandMutating, NandRestoring
  <2> QED BY <2>4, <2>5, <2>6 DEF NandInv
<1> QED BY <1>6, <1>7

LEMMA NandDisableWrites ==
    ASSUME NE!NANDAssumption, NandInv, NE!DisableWrites
    PROVE  NandInv'
<1>1. PICK r \in NE!WriteDisable(chip) :
          /\ chip' = r.chip
          /\ report' = IF r.error = "none" THEN report
                       ELSE NE!CleanupError([report EXCEPT !.disposition = "deviceStateUnknown"])
  BY DEF NE!DisableWrites
<1>2. /\ pc = "disableWrites" /\ pc' = "restoreConfiguration"
      /\ UNCHANGED <<before, markers, job, asked, blank, map, plan, reads, backup, ecc, at, session>>
  BY DEF NE!DisableWrites, NE!InSession, NE!Unchanged, NE!Goto
<1>3. /\ session.taken /\ report \in NandReportTypes /\ chip \in NandChips
      /\ session \in NandSessions /\ (session.mayHaveIssued => session.mayBeEnabled)
      /\ report.success => session.mayHaveIssued
      /\ chip.op = NoOp /\ pc \in NandRestoring /\ pc' \in NandRestoring
      /\ report.disposition = "noArrayMutation" => ~session.mayHaveIssued
  <2>1. pc \in NandRestoring /\ pc' \in NandRestoring
    BY <1>2 DEF NandRestoring
  <2> QED BY <1>2, <2>1, NandClosing DEF NandInv, NandReports
<1>4. /\ Quiet(chip, chip') /\ chip'.op = chip.op
      /\ r.error = "none" => ~chip'.wel
  <2>1. \A w \in BOOLEAN : Quiet(chip, Latched(chip, w)) /\ Latched(chip, w).op = chip.op
    BY <1>3, QuietChanges
  <2>2. Quiet(chip, chip)
    BY <1>3, QuietChanges
  <2> QED BY <1>1, <2>1, <2>2, LatchResult
<1>5. /\ report' \in NandReportTypes /\ report'.success = report.success
      /\ report'.code = report.code
      /\ r.error = "none" => report' = report
      /\ r.error # "none" => report'.cleanupFailed /\ report'.disposition = "deviceStateUnknown"
  <2> DEFINE rep == [report EXCEPT !.disposition = "deviceStateUnknown"]
  <2>1. rep \in NandReportTypes /\ rep.disposition = "deviceStateUnknown"
        /\ rep.success = report.success /\ rep.code = report.code
    BY <1>3 DEF NandReportTypes
  <2>2. report' = IF r.error = "none" THEN report ELSE NE!CleanupError(rep)
    BY <1>1
  <2> HIDE DEF rep
  <2> QED BY <1>3, <2>1, <2>2, ReportClosed
<1>6. NandTypes' /\ NandUntouched' /\ NandKnows' /\ NandReads' /\ NandProgress'
  BY <1>2, <1>3, <1>4, <1>5, NandCloses
<1>7. NandAtRest'
  BY <1>3, <1>4 DEF NandAtRest
<1>8. NandReports'
  BY <1>2, <1>3, <1>4, <1>5 DEF NandReports, NandScanning, NandPreparing, NandCapturing,
      NandMutating, NandRestoring
<1> QED BY <1>6, <1>7, <1>8 DEF NandInv

LEMMA NandRestoreConfiguration ==
    ASSUME NE!NANDAssumption, NandInv, NE!RestoreConfiguration
    PROVE  NandInv'
<1>1. PICK r \in NE!Restored(NE!SetConfiguration(chip, session.configuration),
                             NE!GetConfiguration, session.configuration) :
          /\ chip' = r.chip
          /\ report' = IF r.error = "none" THEN report ELSE NE!CleanupError(report)
  BY DEF NE!RestoreConfiguration
<1>2. /\ pc = "restoreConfiguration" /\ pc' = "restoreProtection"
      /\ UNCHANGED <<before, markers, job, asked, blank, map, plan, reads, backup, ecc, at, session>>
  BY DEF NE!RestoreConfiguration, NE!InSession, NE!Unchanged, NE!Goto
<1>3. /\ session.taken /\ report \in NandReportTypes /\ chip \in NandChips
      /\ session \in NandSessions /\ (session.mayHaveIssued => session.mayBeEnabled)
      /\ report.success => session.mayHaveIssued
      /\ chip.op = NoOp /\ pc \in NandRestoring /\ pc' \in NandRestoring
      /\ report.disposition = "noArrayMutation" => ~session.mayHaveIssued
      /\ session.mayBeEnabled /\ ~report.cleanupFailed => ~chip.wel
  <2>1. pc \in NandRestoring /\ pc' \in NandRestoring
    BY <1>2 DEF NandRestoring
  <2> QED BY <1>2, <2>1, NandClosing DEF NandInv, NandReports
<1>4. Quiet(chip, chip') /\ chip'.op = chip.op /\ chip'.wel = chip.wel
  <2>1. session.configuration \in SUBSET NE!ConfigurationBits
    BY <1>3 DEF NandSessions
  <2>2. r.chip = chip \/ r.chip = Configured(chip, session.configuration)
    BY RestoredResult
  <2> QED BY <1>1, <1>3, <2>1, <2>2, QuietChanges
<1>5. /\ report' \in NandReportTypes /\ report'.success = report.success
      /\ report'.code = report.code /\ report'.disposition = report.disposition
      /\ ~report'.cleanupFailed => ~report.cleanupFailed
  BY <1>1, <1>3, ReportClosed
<1>6. NandTypes' /\ NandUntouched' /\ NandKnows' /\ NandReads' /\ NandProgress'
  BY <1>2, <1>3, <1>4, <1>5, NandCloses
<1>7. NandAtRest'
  BY <1>3, <1>4 DEF NandAtRest
<1>8. NandReports'
  BY <1>2, <1>3, <1>4, <1>5 DEF NandReports, NandScanning, NandPreparing, NandCapturing,
      NandMutating, NandRestoring
<1> QED BY <1>6, <1>7, <1>8 DEF NandInv

LEMMA NandRestoreProtection ==
    ASSUME NE!NANDAssumption, NandInv, NE!RestoreProtection
    PROVE  NandInv'
<1>1. PICK r \in NE!Restored(NE!SetProtection(chip, session.protection),
                             NE!GetProtection, session.protection) :
          /\ chip' = r.chip
          /\ report' = NE!Closed(IF r.error = "none" THEN report ELSE NE!CleanupError(report))
  BY DEF NE!RestoreProtection
<1>2. /\ pc = "restoreProtection" /\ pc' = "done"
      /\ UNCHANGED <<before, markers, job, asked, blank, map, plan, reads, backup, ecc, at, session>>
  BY DEF NE!RestoreProtection, NE!InSession, NE!Unchanged, NE!Goto
<1>3. /\ session.taken /\ report \in NandReportTypes /\ chip \in NandChips
      /\ session \in NandSessions /\ (session.mayHaveIssued => session.mayBeEnabled)
      /\ report.success => session.mayHaveIssued
      /\ chip.op = NoOp /\ pc \in NandRestoring
      /\ report.disposition = "noArrayMutation" => ~session.mayHaveIssued
      /\ session.mayBeEnabled /\ ~report.cleanupFailed => ~chip.wel
  <2>1. pc \in NandRestoring
    BY <1>2 DEF NandRestoring
  <2> QED BY <1>2, <2>1, NandClosing DEF NandInv, NandReports
<1>4. Quiet(chip, chip') /\ chip'.op = chip.op /\ chip'.wel = chip.wel
  <2>1. session.protection \in SUBSET NE!ProtectionBits
    BY <1>3 DEF NandSessions
  <2>2. r.chip = chip \/ r.chip = Protected(chip, session.protection)
    BY RestoredResult
  <2> QED BY <1>1, <1>3, <2>1, <2>2, QuietChanges
<1>5. /\ report' \in NandReportTypes
      /\ report'.success => report.success /\ ~report'.cleanupFailed
      /\ report'.code = "cancelled" => report.code = "cancelled"
      /\ report'.disposition = report.disposition
      /\ ~report'.cleanupFailed => ~report.cleanupFailed
  <2>1. CASE r.error = "none"
    BY <1>1, <1>3, <2>1, ReportClosed
  <2>2. CASE r.error # "none"
    <3>1. report' = NE!Closed(NE!CleanupError(report)) /\ NE!CleanupError(report) \in NandReportTypes
      BY <1>1, <1>3, <2>2, ReportClosed
    <3> QED BY <1>3, <3>1, ReportClosed
  <2> QED BY <2>1, <2>2
<1>6. NandTypes' /\ NandUntouched' /\ NandKnows' /\ NandReads' /\ NandProgress'
  BY <1>2, <1>3, <1>4, <1>5, NandCloses
<1>7. NandAtRest'
  BY <1>3, <1>4 DEF NandAtRest
<1>8. NandReports'
  BY <1>2, <1>3, <1>4, <1>5 DEF NandReports, NandScanning, NandPreparing, NandCapturing,
      NandMutating, NandRestoring
<1> QED BY <1>6, <1>7, <1>8 DEF NandInv

LEMMA NandStays ==
    ASSUME NandInv, UNCHANGED <<chip, before, markers, job, pc, at, blank, map, plan, reads,
                                backup, ecc, session, report>>
    PROVE  NandInv'
<1>1. /\ GoodMap' = GoodMap /\ BackedUp' = BackedUp /\ NE!GoodPages' = NE!GoodPages
      /\ \A i : PageWas(i)' = PageWas(i)
  BY NandKept
<1>2. \A i : StepHolds(i)' = StepHolds(i)
  BY DEF StepHolds
<1>3. NandTypes' /\ NandAtRest' /\ NandUntouched'
  BY DEF NandInv, NandTypes, NE!TypeOK, NandAtRest, NandUntouched
<1>4. NandReports'
  BY DEF NandInv, NandReports
<1>5. NandKnows'
  BY <1>1 DEF NandInv, NandKnows
<1>6. NandReads'
  BY <1>1 DEF NandInv, NandReads, ReadSoFar
<1>7. NandProgress'
  BY <1>2 DEF NandInv, NandProgress, NE!PagesPerBlock
<1> QED BY <1>3, <1>4, <1>5, <1>6, <1>7 DEF NandInv

LEMMA NandSettles ==
    ASSUME NE!NANDAssumption, NandInv, NE!ChipSettles
    PROVE  NandInv'
<1>1. /\ chip.op # NoOp /\ chip' = NE!Completed(chip)
      /\ UNCHANGED <<before, markers, job, pc, at, blank, map, plan, reads, backup,
                   ecc, session, report, asked>>
  BY DEF NE!ChipSettles
<1>2. pc \in {"restoreECC", "drain", "done"} /\ (pc = "restoreECC" => report.code # "none")
  BY <1>1 DEF NandInv, NandAtRest
<1>3. /\ chip \in NandChips /\ chip' \in NandChips /\ chip'.op = NoOp
      /\ chip.op.kind = "load" => chip'.cells = chip.cells
      /\ chip'.wel => chip.wel
  <2>1. chip \in NandChips
    BY DEF NandInv, NandTypes, NE!TypeOK, NandChips
  <2> QED BY <1>1, <2>1, OperationEnds
<1>4. report \in NandReportTypes
  BY DEF NandInv, NandTypes, NandReportTypes
<1>5. CASE pc \in {"drain", "done"}
  <2>1. NandTypes' /\ NandUntouched' /\ NandKnows' /\ NandReads' /\ NandProgress'
    BY <1>1, <1>4, <1>5, NandCloses
  <2>2. NandAtRest'
    BY <1>3 DEF NandAtRest
  <2>3. NandReports'
    BY <1>1, <1>3 DEF NandInv, NandReports
  <2> QED BY <2>1, <2>2, <2>3 DEF NandInv
<1>6. CASE pc = "restoreECC"
  <2>1. pc \in NandBefore
    BY <1>6 DEF NandBefore, NandScanning
  <2>2. Quiet(chip, chip')
    BY <1>1, <1>3, <2>1, NandStarts DEF Quiet, NandInv, NandUntouched
  <2>3. NandKnows' /\ NandReads'
    BY <1>1, <1>2, <1>6, <2>1, NandStarts DEF NandKnows, NandReads, NandPreparing, NandCapturing
  <2> QED BY <1>1, <1>2, <1>3, <1>6, <2>1, <2>2, <2>3, NandStarts, NandGoesOn
<1> QED BY <1>2, <1>5, <1>6

(* Before the session the registers keep what the part had, but for the bit    *)
(* that a step of the run may have changed.                                  *)
LEMMA RegistersBefore ==
    ASSUME NandInv, NandRegisters, pc \in NandBefore, ~session'.taken, UNCHANGED before,
           pc' # "restoreProtection",
           chip'.protection = chip.protection,
           chip'.configuration \ {"ECC"} = chip.configuration \ {"ECC"},
           pc' \in {"readBackup", "publish"} \cup NandCapturing => "ECC" \in chip'.configuration,
           pc' = "captureConfiguration" => session'.protection = before.protection
    PROVE  NandRegisters'
<1>1. /\ chip.protection = before.protection
      /\ chip.configuration \ {"ECC"} = before.configuration \ {"ECC"}
  BY DEF NandRegisters, NandBefore
<1> QED BY <1>1 DEF NandRegisters

LEMMA RegistersInSession ==
    ASSUME NandInv, NandRegisters, session.taken, UNCHANGED before,
           session'.protection = session.protection,
           session'.configuration = session.configuration,
           pc' \notin NandBefore,
           pc' = "restoreProtection" /\ ~report'.cleanupFailed =>
               chip'.configuration = session.configuration,
           pc' = "done" /\ ~report'.cleanupFailed =>
               /\ chip'.configuration = session.configuration
               /\ chip'.protection = session.protection
    PROVE  NandRegisters'
<1>1. /\ session.protection = before.protection
      /\ session.configuration = NE!WithECC(before.configuration, TRUE)
  BY DEF NandRegisters
<1>2. NE!WithECC(before.configuration, TRUE)' = NE!WithECC(before.configuration, TRUE)
  BY DEF NE!WithECC
<1>3. pc' \notin {"readBackup", "publish"} \cup NandCapturing
  BY DEF NandBefore, NandPreparing
<1> QED BY <1>1, <1>2, <1>3 DEF NandRegisters, NE!Inherited, NandBefore

LEMMA ECCOnly ==
    ASSUME ~SilentFeatures, NEW c \in NandChips, NEW e \in BOOLEAN, NEW r \in NE!SetECC(c, e)
    PROVE  /\ r.chip.protection = c.protection
           /\ r.chip.configuration \ {"ECC"} = c.configuration \ {"ECC"}
           /\ r.error = "none" => ("ECC" \in r.chip.configuration) = e
<1>1. r.chip = c \/ r.chip = Configured(c, NE!WithECC(c.configuration, e))
  BY SetECCResult
<1>2. NE!WithECC(c.configuration, e) \in SUBSET NE!ConfigurationBits
  BY DEF NE!WithECC, NandChips, NE!Chips, NE!ConfigurationBits
<1>3. NE!WithECC(c.configuration, e) \ {"ECC"} = c.configuration \ {"ECC"}
  BY DEF NE!WithECC
<1>4. r.error = "none" => ("ECC" \in r.chip.configuration) = e
  BY SetECCResult
<1> QED BY <1>1, <1>2, <1>3, <1>4, QuietChanges

LEMMA RegistersWhileScanning ==
    ASSUME ~SilentFeatures, NE!NANDAssumption, NandInv, NandRegisters,
           NE!GetECC \/ NE!DisableECC \/ NE!ReadMarker \/ NE!RestoreECC \/ NE!PlanJob
    PROVE  NandRegisters'
<1>1. CASE NE!GetECC
  <2>1. PICK r \in NE!GetConfiguration(chip) : chip' = r.chip
    BY <1>1 DEF NE!GetECC
  <2>2. chip' = chip
    BY <2>1, FeatureRead DEF NE!GetConfiguration
  <2>3. /\ pc = "getECC" /\ pc' \in {"disableECC", "done"} /\ UNCHANGED <<before, session>>
    BY <1>1 DEF NE!GetECC, NE!Unchanged, NE!Stop, NE!Goto
  <2>4. pc \in NandBefore /\ ~session'.taken
    BY <2>3, NandStarts DEF NandBefore, NandScanning
  <2> QED BY <2>2, <2>3, <2>4, RegistersBefore DEF NandCapturing
<1>2. CASE NE!DisableECC
  <2>1. PICK r \in NE!SetECC(chip, FALSE) : chip' = r.chip
    BY <1>2 DEF NE!DisableECC
  <2>2. /\ pc = "disableECC" /\ pc' \in {"readMarker", "done"} /\ UNCHANGED <<before, session>>
    BY <1>2 DEF NE!DisableECC, NE!Unchanged, NE!Stop, NE!Goto
  <2>3. pc \in NandBefore /\ ~session'.taken /\ chip \in NandChips
    BY <2>2, NandStarts DEF NandBefore, NandScanning
  <2> QED BY <2>1, <2>2, <2>3, ECCOnly, RegistersBefore DEF NandCapturing
<1>3. CASE NE!ReadMarker
  <2> DEFINE m == NE!MarkerPage(at)
             marker == IF m.page \in markers[m.block] THEN "00" ELSE "FF"
  <2>1. PICK r \in NE!ReadPage(chip, marker, m.block, m.page) : chip' = r.chip
    BY <1>3 DEF NE!ReadMarker
  <2>2. /\ pc = "readMarker" /\ pc' \in {"readMarker", "restoreECC"} /\ UNCHANGED <<before, session>>
    BY <1>3 DEF NE!ReadMarker, NE!Unchanged, NE!Goto
  <2>3. pc \in NandBefore /\ ~session'.taken /\ chip \in NandChips /\ chip.op = NoOp
    BY <2>2, NandStarts DEF NandBefore, NandScanning
  <2>4. m.block \in NandBlock /\ m.page \in NandPage
    <3>1. at \in Nat /\ at < NE!MarkersToRead
      BY <2>2 DEF NandInv, NandTypes, NE!TypeOK, NandKnows
    <3> QED BY <3>1, MarkerPlace DEF NE!MarkerPage
  <2> HIDE DEF m, marker
  <2>5. Registers(chip') = Registers(chip)
    BY <2>1, <2>3, <2>4, ReadQuiet
  <2> QED BY <2>2, <2>3, <2>5, RegistersBefore DEF NandCapturing, Registers
<1>4. CASE NE!RestoreECC
  <2>1. PICK r \in NE!SetECC(chip, ecc) : chip' = r.chip
    BY <1>4 DEF NE!RestoreECC
  <2>2. /\ pc = "restoreECC" /\ pc' \in {"plan", "done"} /\ UNCHANGED <<before, session>>
    BY <1>4 DEF NE!RestoreECC, NE!Unchanged, NE!Stop, NE!Goto
  <2>3. pc \in NandBefore /\ ~session'.taken /\ chip \in NandChips /\ ecc \in BOOLEAN
    BY <2>2, NandStarts DEF NandBefore, NandScanning
  <2> QED BY <2>1, <2>2, <2>3, ECCOnly, RegistersBefore DEF NandCapturing
<1>5. CASE NE!PlanJob
  <2>1. /\ pc = "plan" /\ pc' \in {"enableECC", "done"} /\ UNCHANGED <<chip, before, session>>
    BY <1>5 DEF NE!PlanJob, NE!Unchanged, NE!Goto
  <2>2. pc \in NandBefore /\ ~session'.taken
    BY <2>1, NandStarts DEF NandBefore
  <2> QED BY <2>1, <2>2, RegistersBefore DEF NandCapturing
<1> QED BY <1>1, <1>2, <1>3, <1>4, <1>5

LEMMA RegistersWhilePreparing ==
    ASSUME ~SilentFeatures, NE!NANDAssumption, NandInv, NandRegisters,
           NE!EnableECC \/ NE!ReadBackup \/ NE!PublishBackup
           \/ NE!CaptureProtection \/ NE!CaptureConfiguration
    PROVE  NandRegisters'
<1>1. CASE NE!EnableECC
  <2>1. PICK r \in NE!SetECC(chip, TRUE) :
            chip' = r.chip /\ (r.error # "none" => pc' = "done")
    BY <1>1 DEF NE!EnableECC, NE!Stop, NE!Goto
  <2>2. /\ pc = "enableECC" /\ pc' \in {"readBackup", "done"} /\ UNCHANGED <<before, session>>
    BY <1>1 DEF NE!EnableECC, NE!Unchanged, NE!Stop, NE!Goto
  <2>3. pc \in NandBefore /\ ~session'.taken /\ chip \in NandChips
    BY <2>2, NandStarts DEF NandBefore, NandPreparing
  <2>4. pc' = "readBackup" => "ECC" \in chip'.configuration
    BY <2>1, <2>3, ECCOnly
  <2> QED BY <2>1, <2>2, <2>3, <2>4, ECCOnly, RegistersBefore DEF NandCapturing
<1>2. CASE NE!ReadBackup
  <2> DEFINE page == NE!BackupPage
  <2>1. PICK r \in NE!ReadPage(chip, chip.cells[page.block][page.page], page.block, page.page) :
            chip' = r.chip
    BY <1>2 DEF NE!ReadBackup
  <2>2. /\ pc = "readBackup" /\ pc' \in {"enableECC", "publish", "readBackup", "done"}
        /\ UNCHANGED <<before, session>>
    BY <1>2 DEF NE!ReadBackup, NE!Unchanged, NE!Stop, NE!Goto
  <2>3. pc \in NandBefore /\ pc \in NandPreparing /\ ~session'.taken /\ chip \in NandChips
        /\ chip.op = NoOp
    BY <2>2, NandStarts DEF NandBefore, NandPreparing
  <2>4. page.block \in NandBlock /\ page.page \in NandPage
    <3> DEFINE n == Len(NE!GoodPages)
    <3>1. n \in Nat \ {0} /\ map \subseteq NandBlock
          /\ \A i \in 1 .. n :
                NE!GoodPages[i].block \in map /\ NE!GoodPages[i].page \in NandPage
      BY <2>3, NandMapped
    <3>2. at \in Nat /\ at < 2 * n
      BY <2>2, <2>3 DEF NandInv, NandTypes, NE!TypeOK, NandReads
    <3>3. page = NE!GoodPages[(at % n) + 1]
      BY DEF NE!BackupPage
    <3> HIDE DEF n, page
    <3>4. (at % n) + 1 \in 1 .. n
      BY <3>1, <3>2, PassAndPage
    <3> QED BY <3>1, <3>3, <3>4
  <2> HIDE DEF page
  <2>5. Registers(chip') = Registers(chip)
    BY <2>1, <2>3, <2>4, ReadQuiet
  <2>6. "ECC" \in chip.configuration
    BY <2>2 DEF NandRegisters
  <2> QED BY <2>2, <2>3, <2>5, <2>6, RegistersBefore DEF NandCapturing, Registers
<1>3. CASE NE!PublishBackup
  <2>1. /\ pc = "publish" /\ pc' \in {"captureProtection", "done"} /\ UNCHANGED <<chip, before, session>>
    BY <1>3 DEF NE!PublishBackup, NE!Unchanged, NE!Stop, NE!Goto
  <2>2. pc \in NandBefore /\ ~session'.taken /\ "ECC" \in chip.configuration
    BY <2>1, NandStarts DEF NandBefore, NandPreparing, NandRegisters
  <2> QED BY <2>1, <2>2, RegistersBefore
<1>4. CASE NE!CaptureProtection
  <2>1. PICK r \in NE!GetProtection(chip) :
            /\ chip' = r.chip
            /\ r.error # "none" => pc' = "done" /\ session' = session
            /\ r.error = "none" => session' = [session EXCEPT !.protection = r.value]
    BY <1>4 DEF NE!CaptureProtection, NE!Stop, NE!Goto
  <2>2. /\ pc = "captureProtection" /\ pc' \in {"captureConfiguration", "done"} /\ UNCHANGED before
    BY <1>4 DEF NE!CaptureProtection, NE!Unchanged, NE!Stop, NE!Goto
  <2>3. pc \in NandBefore
    BY <2>2 DEF NandBefore, NandCapturing
  <2>4. chip' = chip /\ (r.error = "none" => r.value = chip.protection)
    BY <2>1, FeatureRead DEF NE!GetProtection
  <2>5. ~session'.taken /\ (r.error = "none" => session'.protection = r.value)
    BY <2>1, <2>3, NandStarts
  <2>6. chip.protection = before.protection /\ "ECC" \in chip.configuration
    BY <2>2 DEF NandRegisters, NandCapturing
  <2> QED BY <2>1, <2>2, <2>3, <2>4, <2>5, <2>6, RegistersBefore
<1>5. CASE NE!CaptureConfiguration
  <2>1. PICK r \in NE!GetConfiguration(chip) :
            /\ chip' = r.chip
            /\ r.error # "none" => pc' = "done" /\ session' = session
            /\ r.error = "none" => /\ session' = [session EXCEPT !.configuration = r.value,
                                                                !.taken = TRUE]
                                   /\ pc' = "unlock"
    BY <1>5 DEF NE!CaptureConfiguration, NE!Stop, NE!Goto
  <2>2. pc = "captureConfiguration" /\ UNCHANGED before
    BY <1>5 DEF NE!CaptureConfiguration, NE!Unchanged
  <2>3. pc \in NandBefore
    BY <2>2 DEF NandBefore, NandCapturing
  <2>4. chip' = chip /\ (r.error = "none" => r.value = chip.configuration)
    BY <2>1, FeatureRead DEF NE!GetConfiguration
  <2>5. /\ "ECC" \in chip.configuration
        /\ chip.configuration \ {"ECC"} = before.configuration \ {"ECC"}
        /\ session.protection = before.protection
    BY <2>2 DEF NandRegisters, NandCapturing
  <2>6. CASE r.error # "none"
    BY <2>1, <2>3, <2>4, <2>2, <2>5, <2>6, NandStarts, RegistersBefore DEF NandCapturing
  <2>7. CASE r.error = "none"
    <3>1. chip.configuration = NE!WithECC(before.configuration, TRUE)
      BY <2>5 DEF NE!WithECC
    <3>2. /\ session'.configuration = chip.configuration
          /\ session'.protection = session.protection /\ pc' = "unlock"
      BY <2>1, <2>3, <2>4, <2>7, NandStarts
    <3>3. NE!WithECC(before.configuration, TRUE)' = NE!WithECC(before.configuration, TRUE)
      BY <2>2 DEF NE!WithECC
    <3> QED BY <2>2, <2>5, <3>1, <3>2, <3>3 DEF NandRegisters, NandScanning, NandPreparing, NandCapturing
  <2> QED BY <2>6, <2>7
<1> QED BY <1>1, <1>2, <1>3, <1>4, <1>5

LEMMA RegistersWhileMutating ==
    ASSUME ~SilentFeatures, NE!NANDAssumption, NandInv, NandRegisters,
           NE!UnlockPart \/ NE!MutationECC \/ NE!Cancel \/ NE!RunStep \/ NE!Verify \/ NE!AllDone
    PROVE  NandRegisters'
<1>1. pc \in NandMutating /\ UNCHANGED before
  BY DEF NE!UnlockPart, NE!MutationECC, NE!Cancel, NE!RunStep, NE!Verify, NE!AllDone,
         NE!InSession, NE!Unchanged, NandMutating
<1>2. session.taken /\ session \in NandSessions
  BY <1>1, NandMutates, NandInSession
<1>3. session'.protection = session.protection /\ session'.configuration = session.configuration
  BY <1>2 DEF NE!UnlockPart, NE!MutationECC, NE!Cancel, NE!RunStep, NE!Verify, NE!AllDone,
         NE!NoteMutationIO, NandSessions
<1>4. pc' \in {"mutationECC", "step", "verify", "drain", "disableWrites", "restoreConfiguration"}
  BY DEF NE!UnlockPart, NE!MutationECC, NE!Cancel, NE!RunStep, NE!Verify, NE!AllDone,
         NE!LeaveWith, NE!Goto, NE!Cleanup
<1>5. pc' \notin NandBefore /\ pc' \notin {"restoreProtection", "done"}
  BY <1>4 DEF NandBefore, NandScanning, NandPreparing, NandCapturing
<1> QED BY <1>1, <1>2, <1>3, <1>5, RegistersInSession

LEMMA RegistersWhileClosing ==
    ASSUME ~SilentFeatures, NE!NANDAssumption, NandInv, NandRegisters,
           NE!DrainArray \/ NE!DisableWrites \/ NE!RestoreConfiguration \/ NE!RestoreProtection
    PROVE  NandRegisters'
<1>1. /\ pc \in {"drain"} \cup NandRestoring
      /\ UNCHANGED <<before, session>>
  BY DEF NE!DrainArray, NE!DisableWrites, NE!RestoreConfiguration, NE!RestoreProtection,
         NE!InSession, NE!Unchanged, NandRestoring
<1>2. session.taken /\ report \in NandReportTypes /\ chip \in NandChips /\ session \in NandSessions
  BY <1>1, NandClosing
<1>3. CASE NE!DrainArray
  <2> DEFINE rep == [report EXCEPT !.disposition = "arrayBusyUnknown"]
  <2>1. /\ pc' \in {"disableWrites", "done"}
        /\ pc' = "done" => report' = NE!Closed(NE!CleanupError(rep))
    BY <1>3 DEF NE!DrainArray, NE!Goto, NE!AfterDrain
  <2>2. rep \in NandReportTypes
    BY <1>2 DEF NandReportTypes
  <2> HIDE DEF rep
  <2>3. pc' = "done" => report'.cleanupFailed
    BY <2>1, <2>2, ReportClosed
  <2>4. pc' \notin NandBefore /\ pc' # "restoreProtection"
    BY <2>1 DEF NandBefore, NandScanning, NandPreparing, NandCapturing
  <2> QED BY <1>1, <1>2, <2>3, <2>4, RegistersInSession
<1>4. CASE NE!DisableWrites
  <2>1. pc' = "restoreConfiguration"
    BY <1>4 DEF NE!DisableWrites, NE!Goto
  <2> QED BY <1>1, <1>2, <2>1, RegistersInSession
        DEF NandBefore, NandScanning, NandPreparing, NandCapturing
<1>5. CASE NE!RestoreConfiguration
  <2>1. PICK r \in NE!Restored(NE!SetConfiguration(chip, session.configuration),
                               NE!GetConfiguration, session.configuration) :
            /\ chip' = r.chip
            /\ report' = IF r.error = "none" THEN report ELSE NE!CleanupError(report)
    BY <1>5 DEF NE!RestoreConfiguration
  <2>2. pc' = "restoreProtection"
    BY <1>5 DEF NE!RestoreConfiguration, NE!Goto
  <2>3. r.error # "none" => report'.cleanupFailed
    BY <1>2, <2>1, ReportClosed
  <2>4. r.error = "none" => chip'.configuration = session.configuration
    BY <2>1, RestoredResult
  <2> QED BY <1>1, <1>2, <2>2, <2>3, <2>4, RegistersInSession
        DEF NandBefore, NandScanning, NandPreparing, NandCapturing
<1>6. CASE NE!RestoreProtection
  <2>1. PICK r \in NE!Restored(NE!SetProtection(chip, session.protection),
                               NE!GetProtection, session.protection) :
            /\ chip' = r.chip
            /\ report' = NE!Closed(IF r.error = "none" THEN report ELSE NE!CleanupError(report))
    BY <1>6 DEF NE!RestoreProtection
  <2>2. pc = "restoreProtection" /\ pc' = "done"
    BY <1>6 DEF NE!RestoreProtection, NE!Goto
  <2>3. /\ r.error # "none" => report'.cleanupFailed
        /\ ~report'.cleanupFailed => ~report.cleanupFailed
    BY <1>2, <2>1, ReportClosed
  <2>4. r.error = "none" => chip'.protection = session.protection
    BY <2>1, RestoredResult
  <2>5. chip'.configuration = chip.configuration
    <3>1. session.protection \in SUBSET NE!ProtectionBits
      BY <1>2 DEF NandSessions
    <3> QED BY <1>2, <2>1, <3>1, RestoredResult, QuietChanges
  <2>6. ~report.cleanupFailed => chip.configuration = session.configuration
    BY <2>2 DEF NandRegisters
  <2> QED BY <1>1, <1>2, <2>2, <2>3, <2>4, <2>5, <2>6, RegistersInSession
        DEF NandBefore, NandScanning, NandPreparing, NandCapturing
<1> QED BY <1>3, <1>4, <1>5, <1>6

LEMMA RegistersSettled ==
    ASSUME NE!NANDAssumption, NandInv, NandRegisters, NE!ChipSettles
    PROVE  NandRegisters'
<1>1. /\ chip.op # NoOp /\ chip' = NE!Completed(chip)
      /\ UNCHANGED <<before, pc, session, report>>
  BY DEF NE!ChipSettles
<1>2. chip \in NandChips
  BY DEF NandInv, NandTypes, NE!TypeOK, NandChips
<1>3. Registers(chip') = Registers(chip)
  BY <1>1, <1>2, OperationEnds
<1>4. NE!WithECC(before.configuration, TRUE)' = NE!WithECC(before.configuration, TRUE)
  BY <1>1 DEF NE!WithECC
<1> QED BY <1>1, <1>3, <1>4 DEF NandRegisters, NE!Inherited, Registers

-----------------------------------------------------------------------------
LEMMA NandNext ==
    ASSUME NE!NANDAssumption, NandInv, NE!Next
    PROVE  NandInv'
<1>1. CASE NE!RequestStop
  BY <1>1, NandStays DEF NE!RequestStop
<1>2. CASE NE!GetECC
  BY <1>2, NandGetECC
<1>3. CASE NE!DisableECC
  BY <1>3, NandDisableECC
<1>4. CASE NE!ReadMarker
  BY <1>4, NandReadMarker
<1>5. CASE NE!RestoreECC
  BY <1>5, NandRestoreECC
<1>6. CASE NE!PlanJob
  BY <1>6, NandPlanJob
<1>7. CASE NE!EnableECC
  BY <1>7, NandEnableECC
<1>8. CASE NE!ReadBackup
  BY <1>8, NandReadBackup
<1>9. CASE NE!PublishBackup
  BY <1>9, NandPublish
<1>10. CASE NE!CaptureProtection
  BY <1>10, NandCaptureProtection
<1>11. CASE NE!CaptureConfiguration
  BY <1>11, NandCaptureConfiguration
<1>12. CASE NE!UnlockPart
  BY <1>12, NandUnlockPart
<1>13. CASE NE!MutationECC
  BY <1>13, NandMutationECC
<1>14. CASE NE!Cancel
  BY <1>14, NandCancel
<1>15. CASE NE!RunStep
  BY <1>15, NandRunStep
<1>16. CASE NE!Verify
  BY <1>16, NandVerify
<1>17. CASE NE!AllDone
  BY <1>17, NandAllDone
<1>18. CASE NE!DrainArray
  BY <1>18, NandDrain
<1>19. CASE NE!DisableWrites
  BY <1>19, NandDisableWrites
<1>20. CASE NE!RestoreConfiguration
  BY <1>20, NandRestoreConfiguration
<1>21. CASE NE!RestoreProtection
  BY <1>21, NandRestoreProtection
<1>22. CASE NE!ChipSettles
  BY <1>22, NandSettles
<1> QED
  BY <1>1, <1>2, <1>3, <1>4, <1>5, <1>6, <1>7, <1>8, <1>9, <1>10, <1>11, <1>12, <1>13, <1>14,
     <1>15, <1>16, <1>17, <1>18, <1>19, <1>20, <1>21, <1>22 DEF NE!Next

LEMMA RegistersNext ==
    ASSUME ~SilentFeatures, NE!NANDAssumption, NandInv, NandRegisters, NE!Next
    PROVE  NandRegisters'
<1>1. CASE NE!RequestStop
  <2>1. NE!WithECC(before.configuration, TRUE)' = NE!WithECC(before.configuration, TRUE)
    BY <1>1 DEF NE!RequestStop, NE!WithECC
  <2> QED BY <1>1, <2>1 DEF NE!RequestStop, NandRegisters, NE!Inherited
<1>2. CASE NE!GetECC \/ NE!DisableECC \/ NE!ReadMarker \/ NE!RestoreECC \/ NE!PlanJob
  BY <1>2, RegistersWhileScanning
<1>3. CASE NE!EnableECC \/ NE!ReadBackup \/ NE!PublishBackup
           \/ NE!CaptureProtection \/ NE!CaptureConfiguration
  BY <1>3, RegistersWhilePreparing
<1>4. CASE NE!UnlockPart \/ NE!MutationECC \/ NE!Cancel \/ NE!RunStep \/ NE!Verify \/ NE!AllDone
  BY <1>4, RegistersWhileMutating
<1>5. CASE NE!DrainArray \/ NE!DisableWrites \/ NE!RestoreConfiguration \/ NE!RestoreProtection
  BY <1>5, RegistersWhileClosing
<1>6. CASE NE!ChipSettles
  BY <1>6, RegistersSettled
<1> QED BY <1>1, <1>2, <1>3, <1>4, <1>5, <1>6 DEF NE!Next

(* The invariant of a run holds whichever program is the subject.             *)
LEMMA NandInvariant == DevicesSpec => [](subject = "nand" => NandInv)
<1>1. DevicesInit => (subject = "nand" => NandInv)
  BY DevicesAssumption, NandInit DEF DevicesInit
<1>2. ASSUME subject = "nand" => NandInv,
             [DevicesNext]_<<subject, fw, host, usb, tx, rx, nandVars>>
      PROVE  (subject = "nand" => NandInv)'
  <2> SUFFICES ASSUME subject' = "nand" PROVE NandInv'
    OBVIOUS
  <2>1. CASE DevicesNext
    <3>1. subject = "nand" /\ NE!Next
      BY <2>1 DEF DevicesNext
    <3> QED BY <1>2, <3>1, DevicesAssumption, NandNext
  <2>2. CASE UNCHANGED <<subject, fw, host, usb, tx, rx, nandVars>>
    BY <1>2, <2>2, NandStays DEF nandVars
  <2> QED BY <1>2, <2>1, <2>2
<1> QED BY <1>1, <1>2, PTL DEF DevicesSpec

LEMMA RegistersInvariant ==
    ASSUME ~SilentFeatures
    PROVE  DevicesSpec => [](subject = "nand" => NandInv /\ NandRegisters)
<1>1. DevicesInit => (subject = "nand" => NandInv /\ NandRegisters)
  BY DevicesAssumption, NandInit DEF DevicesInit
<1>2. ASSUME subject = "nand" => NandInv /\ NandRegisters,
             [DevicesNext]_<<subject, fw, host, usb, tx, rx, nandVars>>
      PROVE  (subject = "nand" => NandInv /\ NandRegisters)'
  <2> SUFFICES ASSUME subject' = "nand" PROVE NandInv' /\ NandRegisters'
    OBVIOUS
  <2>1. CASE DevicesNext
    <3>1. subject = "nand" /\ NE!Next
      BY <2>1 DEF DevicesNext
    <3> QED BY <1>2, <3>1, DevicesAssumption, NandNext, RegistersNext
  <2>2. CASE UNCHANGED <<subject, fw, host, usb, tx, rx, nandVars>>
    <3>1. subject = "nand" /\ NandInv'
      BY <1>2, <2>2, NandStays DEF nandVars
    <3>2. NE!WithECC(before.configuration, TRUE)' = NE!WithECC(before.configuration, TRUE)
      BY <2>2 DEF nandVars, NE!WithECC
    <3>3. NandRegisters'
      BY <1>2, <2>2, <3>1, <3>2 DEF nandVars, NandRegisters, NE!Inherited
    <3> QED BY <3>1, <3>3
  <2> QED BY <1>2, <2>1, <2>2
<1> QED BY <1>1, <1>2, PTL DEF DevicesSpec

(* Whatever fails, and whatever the job: a block with a factory marker is left *)
(* alone, and what a good block held is in a published backup before a page   *)
(* of the part changes (nandengine.pas:435, cli.pas:1295).                   *)
THEOREM NothingIsEverLost == DevicesSpec => []NothingIsLost
<1>1. ASSUME NandInv
      PROVE  NE!MarkedUntouched
  <2>1. SUFFICES ASSUME NEW b \in NandBlock, markers[b] \cap {0, 1} # {}
                 PROVE  chip.cells[b] = before.cells[b]
    BY DEF NE!MarkedUntouched
  <2>2. CASE ~session.mayHaveIssued
    BY <1>1, <2>2 DEF NandInv, NandUntouched
  <2>3. CASE session.mayHaveIssued
    <3>1. session.taken
      BY <1>1, <2>3 DEF NandInv, NandReports
    <3>2. GoodMap /\ \A c \in NandBlock \ map : chip.cells[c] = before.cells[c]
      BY <1>1, <3>1, DevicesAssumption, NandInSession
    <3> QED BY <2>1, <3>2 DEF GoodMap
  <2> QED BY <2>2, <2>3
<1>2. ASSUME NandInv, chip.cells # before.cells
      PROVE  backup = [i \in DOMAIN NE!GoodPages |->
                          before.cells[NE!GoodPages[i].block][NE!GoodPages[i].page]]
  <2>1. session.mayHaveIssued
    BY <1>2 DEF NandInv, NandUntouched
  <2>2. session.taken
    BY <1>2, <2>1 DEF NandInv, NandReports
  <2>3. BackedUp
    BY <1>2, <2>2 DEF NandInv, NandKnows
  <2> QED BY <2>3 DEF BackedUp, PageWas
<1>3. (subject = "nand" => NandInv) => NothingIsLost
  BY <1>1, <1>2 DEF NothingIsLost, NE!BackupBeforeChange
<1> QED BY <1>3, NandInvariant, PTL

(* An operator's stop is taken between two blocks: each block of the plan is   *)
(* then as it was, or has all that the plan has for it (nandengine.pas).       *)
THEOREM CancelledAlwaysLeavesWholeBlocks == DevicesSpec => []CancelledLeavesWholeBlocks
<1>1. ASSUME NandInv, pc = "done", report.code = "cancelled", NEW b \in NE!Planned
      PROVE  \/ chip.cells[b] = before.cells[b]
             \/ IF job.kind = "erase" THEN \A p \in NandPage : chip.cells[b][p] = Blank
                ELSE \A i \in NE!Programmed : plan[i].block = b =>
                         chip.cells[b][plan[i].page] = plan[i].image
  <2>1. session.taken
    BY <1>1 DEF NandInv, NandReports
  <2>2. Lawful(plan, map, job) /\ map \subseteq NandBlock
    BY <1>1, <2>1, DevicesAssumption, NandInSession
  <2>3. /\ at \in 1 .. Len(plan) + 1 /\ at <= Len(plan) /\ plan[at].kind = "erase"
        /\ \A i \in 1 .. at - 1 : StepHolds(i)
        /\ \A c \in NandBlock :
              (\A i \in 1 .. at - 1 : plan[i].block # c) => chip.cells[c] = before.cells[c]
    BY <1>1 DEF NandInv, NandProgress
  <2>4. plan \in Seq(NandStep(map))
    BY <2>2 DEF Lawful
  <2>5. /\ DOMAIN plan = 1 .. Len(plan) /\ Len(plan) \in Nat /\ at \in 1 .. Len(plan)
        /\ \A i \in 1 .. Len(plan) : plan[i].block \in map
    <3>1. /\ DOMAIN plan = 1 .. Len(plan) /\ Len(plan) \in Nat /\ at \in 1 .. Len(plan)
          /\ \A i \in 1 .. Len(plan) : plan[i] \in NandStep(map)
      BY <2>3, <2>4
    <3> QED BY <3>1 DEF NandStep
  <2>6. b \in NandBlock
    BY <2>2, <2>5 DEF NE!Planned
  <2>7. CASE \A i \in 1 .. at - 1 : plan[i].block # b
    BY <2>3, <2>6, <2>7
  <2>8. CASE \E i \in 1 .. at - 1 : plan[i].block = b
    <3>1. PICK i \in 1 .. at - 1 : plan[i].block = b
      BY <2>8
    <3>2. i \in 1 .. Len(plan) /\ i < at
      BY <2>5
    <3>3. ASSUME NEW l \in 1 .. Len(plan), plan[l].block = b
          PROVE  l \in 1 .. at - 1
      <4>1. CASE at <= l
        BY <2>2, <2>3, <2>5, <3>1, <3>2, <3>3, <4>1 DEF Lawful
      <4>2. CASE ~(at <= l)
        BY <2>5, <4>2
      <4> QED BY <4>1, <4>2
    <3>4. CASE job.kind = "erase"
      <4>1. plan[i].kind = "erase"
        BY <2>2, <3>2, <3>4 DEF Lawful
      <4> QED BY <2>3, <3>1, <3>4, <4>1 DEF StepHolds
    <3>5. CASE job.kind # "erase"
      <4>1. ASSUME NEW l \in NE!Programmed, plan[l].block = b
            PROVE  chip.cells[b][plan[l].page] = plan[l].image
        <5>1. l \in 1 .. Len(plan) /\ plan[l].kind = "program"
          BY <2>5 DEF NE!Programmed
        <5>2. StepHolds(l)
          BY <2>3, <3>3, <4>1, <5>1
        <5> QED BY <4>1, <5>1, <5>2 DEF StepHolds
      <4> QED BY <3>5, <4>1
    <3> QED BY <3>4, <3>5
  <2> QED BY <2>7, <2>8
<1>2. (subject = "nand" => NandInv) => CancelledLeavesWholeBlocks
  BY <1>1 DEF CancelledLeavesWholeBlocks, NE!CancelledLeavesWholeBlocks
<1> QED BY <1>2, NandInvariant, PTL

(* On a bus whose feature registers do not read FF by accident, a job that      *)
(* reports success has every page of its plan in the part, and leaves the part *)
(* idle, with writes off and its registers put back (nandengine.pas:299-560). *)
THEOREM SuccessAlwaysMeansWritten ==
    ASSUME ~SilentFeatures
    PROVE  DevicesSpec => []SuccessMeansWritten
<1>1. ASSUME NandInv, NandRegisters, report.success, pc = "done"
      PROVE  /\ IF job.kind = "erase"
                THEN \A b \in NE!Planned : \A p \in NandPage : chip.cells[b][p] = Blank
                ELSE \A i \in NE!Programmed :
                         chip.cells[plan[i].block][plan[i].page] = plan[i].image
             /\ chip.op = NoOp /\ ~ chip.wel /\ NE!Inherited
  <2>1. /\ session.mayHaveIssued /\ ~report.cleanupFailed /\ session.taken
        /\ session.mayBeEnabled
    BY <1>1 DEF NandInv, NandReports
  <2>2. Lawful(plan, map, job)
    BY <1>1, <2>1, DevicesAssumption, NandInSession
  <2>3. at = Len(plan) + 1 /\ chip.op = NoOp /\ \A i \in 1 .. at - 1 : StepHolds(i)
    BY <1>1 DEF NandInv, NandProgress
  <2>4. plan \in Seq(NandStep(map))
    BY <2>2 DEF Lawful
  <2>5. DOMAIN plan = 1 .. Len(plan) /\ Len(plan) \in Nat /\ at - 1 = Len(plan)
    BY <2>3, <2>4
  <2>6. \A i \in DOMAIN plan : StepHolds(i)
    BY <2>3, <2>5
  <2>7. ASSUME job.kind = "erase", NEW b \in NE!Planned
        PROVE  \A p \in NandPage : chip.cells[b][p] = Blank
    <3>1. PICK i \in DOMAIN plan : plan[i].block = b
      BY DEF NE!Planned
    <3>2. plan[i].kind = "erase"
      BY <2>2, <2>5, <2>7 DEF Lawful
    <3> QED BY <2>6, <2>7, <3>1, <3>2 DEF StepHolds
  <2>8. ASSUME NEW i \in NE!Programmed
        PROVE  chip.cells[plan[i].block][plan[i].page] = plan[i].image
    BY <2>6 DEF NE!Programmed, StepHolds
  <2>9. ~chip.wel
    BY <1>1, <2>1 DEF NandInv, NandReports
  <2>10. NE!Inherited
    BY <1>1, <2>1 DEF NandRegisters
  <2> QED BY <2>3, <2>7, <2>8, <2>9, <2>10
<1>2. (subject = "nand" => NandInv /\ NandRegisters) => SuccessMeansWritten
  BY <1>1 DEF SuccessMeansWritten, NE!SuccessMeansWritten
<1> QED BY <1>2, RegistersInvariant, PTL

(* On such a bus what the report says of the array, the write latch and the     *)
(* registers is so, and the registers are written only while the array is at   *)
(* rest (nandengine.pas:299-391).                                          *)
THEOREM CleanupIsAlwaysTrue ==
    ASSUME ~SilentFeatures
    PROVE  DevicesSpec => []CleanupIsTrue
<1>1. ASSUME NandInv, NandRegisters
      PROVE  NE!TypeOK /\ NE!RestoreOnlyWhenIdle
  BY <1>1 DEF NandInv, NandTypes, NandAtRest, NE!RestoreOnlyWhenIdle
<1>2. ASSUME NandInv, NandRegisters, pc = "done"
      PROVE  /\ report.disposition = "noArrayMutation" =>
                    /\ chip.cells = before.cells
                    /\ chip.op # NoOp => chip.op.kind = "load"
             /\ report.disposition = "arrayIdle" => chip.op = NoOp
             /\ NE!RegistersInherited
             /\ session.mayBeEnabled /\ ~ report.cleanupFailed => ~ chip.wel
  <2>1. report.disposition = "noArrayMutation" =>
            chip.cells = before.cells /\ (chip.op # NoOp => chip.op.kind = "load")
    BY <1>2 DEF NandInv, NandReports, NandUntouched
  <2>2. report.disposition = "arrayIdle" => chip.op = NoOp
    BY <1>2 DEF NandInv, NandAtRest
  <2>3. NE!RegistersInherited
    BY <1>2 DEF NandRegisters, NE!RegistersInherited
  <2>4. session.mayBeEnabled /\ ~ report.cleanupFailed => ~ chip.wel
    BY <1>2 DEF NandInv, NandReports
  <2> QED BY <2>1, <2>2, <2>3, <2>4
<1>3. (subject = "nand" => NandInv /\ NandRegisters) => CleanupIsTrue
  BY <1>1, <1>2 DEF CleanupIsTrue, NE!ReportIsTrue
<1> QED BY <1>3, RegistersInvariant, PTL
=============================================================================
