------------------------------ MODULE NANDChip ------------------------------
(***************************************************************************)
(* An SPI NAND part and the calls the adapter of spi25nandadapter.pas makes  *)
(* on it.  The part erases blocks, programs pages, which only ever clears     *)
(* bits, and has two feature registers: A0h protects the array, B0h switches *)
(* its ECC.  The content of a page is one value.  An operator for a call      *)
(* gives all its results, with the part as it is left: a transfer may fail    *)
(* with or without having reached the part, and a call may give up on a part *)
(* that goes on.                                                           *)
(***************************************************************************)
EXTENDS Naturals

CONSTANTS
    Block, Page,
    Blank,          \* an erased page
    Spoilt,         \* a page programmed twice, or by a command that failed
    Noise,          \* what a read may return instead
    NoOp,           \* the part is idle
    NoResult,       \* what a call that failed returns
    Faults,         \* what may go wrong
    SilentFeatures  \* may A0h or B0h read FF while nobody drives the bus?

(* The bits of A0h and B0h that matter, and FF: all of them, "rest" included. *)
ProtectionBits == {"BP", "rest"}
ConfigurationBits == {"ECC", "BUF", "rest"}

Operations(Content) ==
    [kind : {"load", "erase", "program"}, block : Block, page : Page, data : Content]
Chips(Content) ==
    [cells : [Block -> [Page -> Content]],
     protection : SUBSET ProtectionBits, configuration : SUBSET ConfigurationBits,
     wel : BOOLEAN, op : {NoOp} \cup Operations(Content)]

Load(b, p) == [kind |-> "load", block |-> b, page |-> p, data |-> Blank]
EraseOf(b) == [kind |-> "erase", block |-> b, page |-> 0, data |-> Blank]
ProgramOf(b, p, d) == [kind |-> "program", block |-> b, page |-> p, data |-> d]

(* What an operation leaves in the array, when it works and when it does not. *)
Done(cells, op) ==
    CASE op.kind = "load" -> cells
      [] op.kind = "erase" -> [cells EXCEPT ![op.block] = [p \in Page |-> Blank]]
      [] op.kind = "program" ->
            [cells EXCEPT ![op.block][op.page] = IF @ = Blank THEN op.data ELSE Spoilt]
Botched(cells, op) ==
    CASE op.kind = "load" -> cells
      [] op.kind = "erase" -> [cells EXCEPT ![op.block] = [p \in Page |-> Spoilt]]
      [] op.kind = "program" -> [cells EXCEPT ![op.block][op.page] = Spoilt]

Finished(c, cells) ==
    [c EXCEPT !.cells = cells, !.op = NoOp, !.wel = @ /\ c.op.kind = "load"]

(* The part completes what it is at.                                       *)
Completed(c) == IF c.op = NoOp THEN c ELSE Finished(c, Done(c.cells, c.op))
CompletedBadly(c) == Finished(c, Botched(c.cells, c.op))

-----------------------------------------------------------------------------
(* A result: the part after the call, the error ("none": success), whether an *)
(* array command may have been issued, and what the call returns.           *)
Result(c, error, mutation, value) ==
    [chip |-> c, error |-> error, mutation |-> mutation, value |-> value]
Fine(c, value) == Result(c, "none", "none", value)
Failing(c, error) == Result(c, error, "none", NoResult)

May(fault, results) == IF fault \in Faults THEN results ELSE {}

(* What follows a success; a failure is passed on.                         *)
Then(results, Rest(_)) ==
    UNION {IF r.error = "none" THEN Rest(r) ELSE {r} : r \in results}

(* A command that leaves the part in one of some states.                    *)
Send(c, taken) ==
    {Fine(t, TRUE) : t \in taken}
        \cup May("transport", {Failing(t, "transport") : t \in {c} \cup taken})

(* A part that is busy ignores what is not a status read.                   *)
WhenIdle(c, taken) == IF c.op = NoOp THEN taken ELSE {c}

GetFeature(c, bits, all) ==
    {Fine(c, bits)} \cup May("transport", {Failing(c, "transport")})
        \cup (IF SilentFeatures THEN {Fine(c, all)} ELSE {})

GetProtection(c) == GetFeature(c, c.protection, ProtectionBits)
GetConfiguration(c) == GetFeature(c, c.configuration, ConfigurationBits)

SetProtection(c, bits) ==
    Send(c, WhenIdle(c, {[c EXCEPT !.protection = bits]}
                            \cup May("stuck", {c})))
SetConfiguration(c, bits) ==
    Send(c, WhenIdle(c, {[c EXCEPT !.configuration = bits]}
                            \cup May("stuck", {c})))

(* Read, modify, write, and read back.                                     *)
WithECC(bits, enabled) == IF enabled THEN bits \cup {"ECC"} ELSE bits \ {"ECC"}
SetECC(c, enabled) ==
    LET Change(r) == SetConfiguration(r.chip, WithECC(r.value, enabled))
        Check(r)  == {IF ("ECC" \in r.value) = enabled THEN r
                      ELSE Failing(r.chip, "rejected")}
        Reread(r) == Then(GetConfiguration(r.chip), Check)
    IN  Then(Then(GetConfiguration(c), Change), Reread)

(* Nothing may be left protected, and FF is a silent bus.                   *)
UnlockAll(c) ==
    LET Check(r) == {CASE r.value = ProtectionBits -> Failing(r.chip, "transport")
                       [] "BP" \in r.value         -> Failing(r.chip, "rejected")
                       [] OTHER                    -> r}
        Reread(r) == Then(GetProtection(r.chip), Check)
    IN  Then(SetProtection(c, {}), Reread)

-----------------------------------------------------------------------------
(* A status that reads FF counts as a transfer that failed.                 *)
WaitReady(c) ==
    {Fine(Completed(c), FALSE)}
        \cup (IF c.op # NoOp /\ c.op.kind # "load"
              THEN May("fail", {Fine(CompletedBadly(c), TRUE)}) ELSE {})
        \cup May("timeout", IF c.op = NoOp THEN {} ELSE {Failing(c, "timeout")})
        \cup May("transport", {Failing(c, "transport")})

WriteEnableChecked(c) ==
    LET Check(r) == {IF r.chip.wel THEN r ELSE Failing(r.chip, "rejected")}
                        \cup May("transport", {Failing(r.chip, "transport")})
    IN  Then(Send(c, WhenIdle(c, {[c EXCEPT !.wel = TRUE]} \cup May("ignored", {c}))),
             Check)

(* A part that is protected ignores an array command without a word.        *)
Issued(c, op) ==
    WhenIdle(c, IF c.wel /\ "BP" \notin c.protection
                THEN {[c EXCEPT !.op = op]} \cup May("ignored", {c}) ELSE {c})

(* From the opcode on, a failure may have left the array at work; a call that *)
(* ends well has seen it idle, and returns the part's own fail flag.         *)
Execute(c, op) ==
    LET Poll(s) == {[r EXCEPT !.mutation = IF r.error = "none" THEN "idle"
                                           ELSE "possibly"] : r \in WaitReady(s.chip)}
    IN  UNION {IF s.error = "none" THEN Poll(s) ELSE {[s EXCEPT !.mutation = "possibly"]} :
                   s \in Send(c, Issued(c, op))}

EraseBlock(c, b) ==
    LET Run(r) == Execute(r.chip, EraseOf(b)) IN Then(WriteEnableChecked(c), Run)

ProgramPage(c, b, p, d) ==
    LET LoadCache(r) == Send(r.chip, {r.chip})
        Run(r)       == Execute(r.chip, ProgramOf(b, p, d))
    IN  Then(Then(WriteEnableChecked(c), LoadCache), Run)

(* The verdict of the ECC is none of the part's while it is switched off.     *)
ReadPage(c, value, b, p) ==
    LET Wait(r)  == WaitReady(r.chip)
        Fetch(r) == {Fine(r.chip, [data |-> value, ecc |-> "good"])}
                        \cup May("transport", {Failing(r.chip, "transport")})
                        \cup May("misread", {Fine(r.chip, [data |-> Noise, ecc |-> "good"])})
                        \cup (IF "ECC" \in r.chip.configuration
                              THEN May("ecc", {Fine(r.chip, [data |-> Noise,
                                                  ecc |-> "uncorrectable"])})
                              ELSE {})
    IN  Then(Then(Send(c, WhenIdle(c, {[c EXCEPT !.op = Load(b, p)]})), Wait), Fetch)

(* Within a deadline, and over failures: only an idle status ends it well.    *)
EnsureIdle(c) ==
    {Fine(Completed(c), TRUE)}
        \cup May("timeout", IF c.op = NoOp THEN {} ELSE {Failing(c, "timeout")})
        \cup May("transport", {Failing(c, "timeout")})

WriteDisable(c) ==
    LET Check(r) == {IF r.chip.wel THEN Failing(r.chip, "rejected") ELSE r}
                        \cup May("transport", {Failing(r.chip, "transport")})
    IN  Then(Send(c, WhenIdle(c, {[c EXCEPT !.wel = FALSE]} \cup May("ignored", {c}))),
             Check)
=============================================================================
