---------------------------- MODULE NANDExecutor ----------------------------
(***************************************************************************)
(* --nand-write and --nand-erase of cli.pas on an SPI NAND part, with the     *)
(* executor of nandengine.pas and the planner of nandplanner.pas: the scan    *)
(* for factory markers, the plan around bad blocks, the recovery backup that  *)
(* is read twice, and the mutation session that unlocks the part, changes it, *)
(* reads every page back and leaves the registers as it found them.  There is *)
(* one action per device call; the caller may ask to stop at any time (the    *)
(* command line passes no such callback, the executor offers it).            *)
(*                                                                         *)
(* The part has been reset before, and its ONFI parameter pages have been read *)
(* through the configuration register and that put back, or else the job was  *)
(* refused (cli.pas:1182-1215): both steps are left out.                     *)
(* The image is as long as its pages: page k                               *)
(* of it is the value k.                                                   *)
(***************************************************************************)
EXTENDS NANDChip, Sequences, FiniteSets

CONSTANTS
    ImagePages,         \* pages of the image to write
    Old,                \* what a page held before
    MarkerSets,         \* the factory markers a part may have: [Block -> SUBSET Page]
    Jobs,               \* records [kind, skip]
    NoMap, NoPlan, NoBackup

Content == {Old, Blank, Spoilt} \cup 1 .. ImagePages

NANDAssumption ==
    /\ IsFiniteSet(Block) /\ Block = 0 .. Cardinality(Block) - 1 /\ 0 \in Block
    /\ IsFiniteSet(Page) /\ Page = 0 .. Cardinality(Page) - 1 /\ {0, 1} \subseteq Page
    /\ ImagePages \in Nat \ {0}
    /\ Jobs \subseteq [kind : {"write", "erase"}, skip : BOOLEAN]
    /\ MarkerSets \subseteq [Block -> SUBSET Page]
    /\ Noise \notin Content /\ Noise # "FF"
    /\ NoOp \notin Operations(Content)

VARIABLES
    chip, before,       \* the part, and the part as it was
    markers, job,
    pc, at,             \* where the run is; the page or step it is at
    blank,              \* pages of the block just erased that are seen blank
    map,                \* the blocks the scan found good
    plan,
    reads,              \* the pages read by the two backup passes
    backup,             \* the published backup
    ecc,                \* the ECC state the scan found
    session,            \* TNANDMutationSession
    report,             \* TNANDRunReport
    asked               \* has the operator asked to stop?

vars == <<chip, before, markers, job, pc, at, blank, map, plan, reads, backup, ecc,
          session, report, asked>>

-----------------------------------------------------------------------------
(* The planner.  Blocks are taken in order; with nbpSkip the bad ones are     *)
(* passed over, with nbpRefuse none of them may be met.                     *)
PagesPerBlock == Cardinality(Page)
Nth(S, i) == CHOOSE b \in S : Cardinality({x \in S : x < b}) = i - 1
Ceiling(n, d) == (n + d - 1) \div d

EraseStep(b) == [kind |-> "erase", block |-> b, page |-> 0, image |-> 0]
ProgramStep(b, p, k) == [kind |-> "program", block |-> b, page |-> p, image |-> k]

(* Each block is erased before its pages are programmed, image page by page.  *)
Stride == PagesPerBlock + 1
WriteStep(order, i) ==
    LET nth == (i - 1) \div Stride
        b   == Nth(order, nth + 1)
        p   == (i - 1) % Stride
    IN  IF p = 0 THEN EraseStep(b) ELSE ProgramStep(b, p - 1, i - 1 - nth)

(* A plan that meets a bad block, or the end of the part, is none.           *)
PlanFor(good, j) ==
    LET order == IF j.skip THEN good ELSE Block
        count == IF j.kind = "write" THEN Ceiling(ImagePages, PagesPerBlock)
                 ELSE Cardinality(order)
        steps == IF j.kind = "write"
                 THEN [i \in 1 .. count + ImagePages |-> WriteStep(order, i)]
                 ELSE [i \in 1 .. count |-> EraseStep(Nth(order, i))]
    IN  IF /\ count \in 1 .. Cardinality(order)
           /\ \A i \in DOMAIN steps : steps[i].block \in good
        THEN steps ELSE NoPlan

-----------------------------------------------------------------------------
NoSession == [taken |-> FALSE, protection |-> {}, configuration |-> {},
              mayHaveIssued |-> FALSE, mayBeEnabled |-> FALSE]
NoReport == [success |-> FALSE, code |-> "none", disposition |-> "noArrayMutation",
             cleanupFailed |-> FALSE]

Init ==
    /\ markers \in MarkerSets /\ job \in Jobs
    /\ \E p \in SUBSET {"BP"}, c \in SUBSET {"ECC", "BUF"}, w \in BOOLEAN :
           chip = [cells |-> [b \in Block |-> [q \in Page |-> Old]],
                   protection |-> p, configuration |-> c, wel |-> w, op |-> NoOp]
    /\ before = chip
    /\ pc = "getECC" /\ at = 0 /\ blank = 0
    /\ map = NoMap /\ plan = NoPlan /\ reads = << >> /\ backup = NoBackup
    /\ ecc = FALSE /\ session = NoSession /\ report = NoReport /\ asked = FALSE

Goto(place) == pc' = place

FailWith(code) == report' = [report EXCEPT !.code = code]

(* Before the session a failure ends the run.                              *)
Stop(code) == /\ FailWith(code) /\ Goto("done")
              /\ UNCHANGED <<at, map, plan, reads, backup, ecc, session>>

Unchanged == UNCHANGED <<before, markers, job, asked, blank>>

-----------------------------------------------------------------------------
(* ScanNANDBadBlocks: two pages of each block, without ECC.                  *)
GetECC ==
    /\ pc = "getECC"
    /\ \E r \in GetConfiguration(chip) :
           /\ chip' = r.chip
           /\ IF r.error # "none" THEN Stop(r.error)
              ELSE /\ ecc' = ("ECC" \in r.value) /\ Goto("disableECC")
                   /\ UNCHANGED <<at, map, plan, reads, backup, session, report>>
    /\ Unchanged

DisableECC ==
    /\ pc = "disableECC"
    /\ \E r \in SetECC(chip, FALSE) :
           /\ chip' = r.chip
           /\ IF r.error # "none" THEN Stop(r.error)
              ELSE /\ map' = {} /\ Goto("readMarker")
                   /\ UNCHANGED <<at, plan, reads, backup, ecc, session, report>>
    /\ Unchanged

MarkerPage(i) == [block |-> i \div 2, page |-> i % 2]
MarkersToRead == 2 * Cardinality(Block)

(* Mutant: only the first page of a block is looked at.                     *)
FirstMarker(m, i, value) ==
    IF i % 2 = 0 /\ value = "FF" THEN m \cup {i \div 2} ELSE m

(* A block is good until one of the two pages has a marker.                 *)
MarkerSeen(m, i, value) ==
    IF value # "FF" THEN m \ {i \div 2}
    ELSE IF i % 2 = 0 THEN m \cup {i \div 2} ELSE m

(* A scan that fails leaves no block known to be good.                      *)
ReadMarker ==
    /\ pc = "readMarker"
    /\ LET m == MarkerPage(at)
           marker == IF m.page \in markers[m.block] THEN "00" ELSE "FF"
       IN  \E r \in ReadPage(chip, marker, m.block, m.page) :
               /\ chip' = r.chip
               /\ IF r.error # "none"
                  THEN /\ map' = NoMap /\ FailWith(r.error) /\ Goto("restoreECC")
                       /\ UNCHANGED at
                  ELSE /\ map' = MarkerSeen(map, at, r.value.data)
                       /\ at' = at + 1
                       /\ Goto(IF at + 1 < MarkersToRead THEN "readMarker"
                               ELSE "restoreECC")
                       /\ UNCHANGED report
    /\ UNCHANGED <<plan, reads, backup, ecc, session>> /\ Unchanged

RestoreECC ==
    /\ pc = "restoreECC"
    /\ \E r \in SetECC(chip, ecc) :
           /\ chip' = r.chip
           /\ IF report.code # "none" THEN Stop(report.code)
              ELSE IF r.error # "none" THEN Stop(r.error)
              ELSE /\ Goto("plan")
                   /\ UNCHANGED <<at, map, plan, reads, backup, ecc, session, report>>
    /\ Unchanged

PlanJob ==
    /\ pc = "plan"
    /\ plan' = PlanFor(map, job)
    /\ IF plan' = NoPlan THEN FailWith("invalidPlan") /\ Goto("done")
       ELSE Goto("enableECC") /\ UNCHANGED report
    /\ at' = 0 /\ reads' = << << >>, << >> >>
    /\ UNCHANGED <<chip, map, backup, ecc, session>> /\ Unchanged

-----------------------------------------------------------------------------
(* The recovery backup: all good blocks, read twice with ECC.               *)
GoodPages == [i \in 1 .. Cardinality(map) * PagesPerBlock |->
                 [block |-> Nth(map, (i - 1) \div PagesPerBlock + 1),
                  page |-> (i - 1) % PagesPerBlock]]
Pass == IF at < Len(GoodPages) THEN 1 ELSE 2
BackupPage == GoodPages[(at % Len(GoodPages)) + 1]

(* A pass that misread a page agrees with no other pass.                    *)
WithPage(pass, data) ==
    CASE pass = <<Noise, Pass>> -> pass
      [] pass # <<Noise, Pass>> /\ data = Noise -> <<Noise, Pass>>
      [] OTHER -> Append(pass, data)

EnableECC ==
    /\ pc = "enableECC"
    /\ \E r \in SetECC(chip, TRUE) :
           /\ chip' = r.chip
           /\ IF r.error # "none" THEN Stop(r.error)
              ELSE /\ Goto("readBackup")
                   /\ UNCHANGED <<at, map, plan, reads, backup, ecc, session, report>>
    /\ Unchanged

ReadBackup ==
    /\ pc = "readBackup"
    /\ \E r \in ReadPage(chip, chip.cells[BackupPage.block][BackupPage.page],
                         BackupPage.block, BackupPage.page) :
           /\ chip' = r.chip
           /\ IF r.error # "none" THEN Stop(r.error)
              ELSE IF r.value.ecc = "uncorrectable" THEN Stop("uncorrectable")
              ELSE /\ reads' = [reads EXCEPT ![Pass] = WithPage(@, r.value.data)]
                   /\ at' = at + 1
                   /\ Goto(IF at + 1 = Len(GoodPages) THEN "enableECC"
                           ELSE IF at + 1 = 2 * Len(GoodPages) THEN "publish"
                           ELSE "readBackup")
                   /\ UNCHANGED <<map, plan, backup, ecc, session, report>>
    /\ Unchanged

Agreeing(passes) == passes[1] = passes[2]

(* PublishBackupAtomic, for two passes that agree.                         *)
PublishBackup ==
    /\ pc = "publish"
    /\ \/ /\ Agreeing(reads)
          /\ backup' = reads[1] /\ reads' = << >> /\ at' = 0
          /\ Goto("captureProtection")
          /\ UNCHANGED <<map, plan, ecc, session, report>>
       \/ Stop("noBackup")
    /\ UNCHANGED chip /\ Unchanged

-----------------------------------------------------------------------------
(* The mutation session.  Its registers are read before anything is changed;  *)
(* if they cannot be read, nothing is.                                      *)
CaptureProtection ==
    /\ pc = "captureProtection"
    /\ \E r \in GetProtection(chip) :
           /\ chip' = r.chip
           /\ IF r.error # "none" THEN Stop(r.error)
              ELSE /\ session' = [session EXCEPT !.protection = r.value]
                   /\ Goto("captureConfiguration")
                   /\ UNCHANGED <<at, map, plan, reads, backup, ecc, report>>
    /\ Unchanged

CaptureConfiguration ==
    /\ pc = "captureConfiguration"
    /\ \E r \in GetConfiguration(chip) :
           /\ chip' = r.chip
           /\ IF r.error # "none" THEN Stop(r.error)
              ELSE /\ session' = [session EXCEPT !.configuration = r.value,
                                                !.taken = TRUE]
                   /\ Goto("unlock")
                   /\ UNCHANGED <<at, map, plan, reads, backup, ecc, report>>
    /\ Unchanged

InSession == /\ UNCHANGED <<map, plan, reads, backup, ecc>> /\ Unchanged

(* From here every way out goes through the cleanup.                        *)
Cleanup == IF session'.mayHaveIssued THEN "drain"
           ELSE IF session'.mayBeEnabled THEN "disableWrites"
           ELSE "restoreConfiguration"
LeaveWith(code) == FailWith(code) /\ Goto(Cleanup) /\ UNCHANGED at

UnlockPart ==
    /\ pc = "unlock"
    /\ UNCHANGED session
    /\ \E r \in UnlockAll(chip) :
           /\ chip' = r.chip
           /\ IF r.error # "none" THEN LeaveWith("protection")
              ELSE Goto("mutationECC") /\ UNCHANGED <<at, report>>
    /\ InSession

(* An erased page is read without ECC.                                     *)
MutationECC ==
    /\ pc = "mutationECC"
    /\ UNCHANGED session
    /\ \E r \in SetECC(chip, job.kind = "write") :
           /\ chip' = r.chip
           /\ IF r.error # "none" THEN LeaveWith(r.error)
              ELSE Goto("step") /\ at' = 1 /\ UNCHANGED report
    /\ InSession

(* Mutant: the callback is polled before every step.                        *)
AtAnyStep(step) == TRUE

(* Once a block is erased its pages are written before the run may stop.     *)
AtBoundary(step) == step.kind = "erase"

(* Mutant: only a command that has ended is remembered.                     *)
EndedOnly(s, r) == [s EXCEPT !.mayHaveIssued = @ \/ r.mutation = "idle",
                             !.mayBeEnabled = TRUE]

NoteMutationIO(s, r) ==
    [s EXCEPT !.mayHaveIssued = @ \/ r.mutation \in {"possibly", "idle"},
              !.mayBeEnabled = TRUE]

Cancel ==
    /\ pc = "step" /\ at <= Len(plan) /\ asked /\ AtBoundary(plan[at])
    /\ UNCHANGED session
    /\ LeaveWith("cancelled")
    /\ UNCHANGED chip /\ InSession

ArrayStep(step) ==
    IF step.kind = "erase" THEN EraseBlock(chip, step.block)
    ELSE ProgramPage(chip, step.block, step.page, step.image)

FailedStep(step) == IF step.kind = "erase" THEN "eraseFailed" ELSE "programFailed"

RunStep ==
    /\ pc = "step" /\ at <= Len(plan)
    /\ ~ (asked /\ AtBoundary(plan[at]))
    /\ \E r \in ArrayStep(plan[at]) :
           /\ chip' = r.chip
           /\ session' = NoteMutationIO(session, r) /\ blank' = 0
           /\ CASE r.error # "none" -> LeaveWith(r.error)
                [] r.error = "none" /\ r.value -> LeaveWith(FailedStep(plan[at]))
                [] OTHER -> /\ IF plan[at].kind = "erase" /\ job.kind = "write"
                               THEN Goto("step") /\ at' = at + 1
                               ELSE Goto("verify") /\ UNCHANGED at
                            /\ UNCHANGED report
    /\ UNCHANGED <<before, markers, job, asked, map, plan, reads, backup, ecc>>

AllDone ==
    /\ pc = "step" /\ at > Len(plan)
    /\ report' = [report EXCEPT !.success = TRUE]
    /\ UNCHANGED <<chip, session, at>> /\ Goto(Cleanup) /\ InSession

(* What is read back: the page just written, or each page of the block just   *)
(* erased.  Cancellation is not looked at in between.                       *)
PageToVerify == IF plan[at].kind = "erase" THEN blank ELSE plan[at].page
Expected == IF plan[at].kind = "erase" THEN Blank ELSE plan[at].image

Verify ==
    /\ pc = "verify"
    /\ UNCHANGED session
    /\ LET b == plan[at].block IN
       \E r \in ReadPage(chip, chip.cells[b][PageToVerify], b, PageToVerify) :
           /\ chip' = r.chip
           /\ CASE r.error # "none" -> LeaveWith(r.error) /\ UNCHANGED blank
                [] r.error = "none" /\ r.value.ecc = "uncorrectable" ->
                       LeaveWith("uncorrectable") /\ UNCHANGED blank
                [] r.error = "none" /\ r.value.ecc # "uncorrectable"
                       /\ r.value.data # Expected ->
                       LeaveWith("mismatch") /\ UNCHANGED blank
                [] OTHER ->
                       /\ blank' = blank + 1
                       /\ IF plan[at].kind = "erase" /\ blank + 1 < Cardinality(Page)
                          THEN UNCHANGED <<pc, at>>
                          ELSE Goto("step") /\ at' = at + 1
                       /\ UNCHANGED report
    /\ UNCHANGED <<before, markers, job, asked, map, plan, reads, backup, ecc>>

-----------------------------------------------------------------------------
(* FinishMutationSession.                                                  *)
CleanupError(rep) == [rep EXCEPT !.cleanupFailed = TRUE]

(* Mutant: a cleanup that failed does not spoil the success.                 *)
ClosedLightly(rep) == rep

Closed(rep) ==
    IF rep.cleanupFailed
    THEN [rep EXCEPT !.success = FALSE,
                     !.code = IF @ # "none" THEN @
                              ELSE IF rep.disposition = "arrayBusyUnknown"
                              THEN "unknownBusy" ELSE "cleanupFailed"]
    ELSE rep

AfterDrain(r) == IF r.error = "none" THEN "disableWrites" ELSE "done"

(* WEL may be set whenever an array command may have been issued.            *)
DrainArray ==
    /\ pc = "drain"
    /\ \E r \in EnsureIdle(chip) :
           /\ chip' = r.chip
           /\ Goto(AfterDrain(r))
           /\ report' = IF r.error = "none"
                        THEN [report EXCEPT !.disposition = "arrayIdle"]
                        ELSE Closed(CleanupError(
                                [report EXCEPT !.disposition = "arrayBusyUnknown"]))
    /\ UNCHANGED <<at, session>> /\ InSession

DisableWrites ==
    /\ pc = "disableWrites"
    /\ \E r \in WriteDisable(chip) :
           /\ chip' = r.chip
           /\ report' = IF r.error = "none" THEN report
                        ELSE CleanupError([report EXCEPT !.disposition =
                                                "deviceStateUnknown"])
    /\ Goto("restoreConfiguration")
    /\ UNCHANGED <<at, session>> /\ InSession

(* A register is written, and read back.                                   *)
Restored(written, Get(_), bits) ==
    LET Check(r)  == {IF r.value = bits THEN r ELSE Failing(r.chip, "rejected")}
        Reread(r) == Then(Get(r.chip), Check)
    IN  Then(written, Reread)

RestoreConfiguration ==
    /\ pc = "restoreConfiguration"
    /\ \E r \in Restored(SetConfiguration(chip, session.configuration),
                         GetConfiguration, session.configuration) :
           /\ chip' = r.chip
           /\ report' = IF r.error = "none" THEN report ELSE CleanupError(report)
    /\ Goto("restoreProtection")
    /\ UNCHANGED <<at, session>> /\ InSession

(* Tried whatever became of the other register.                             *)
RestoreProtection ==
    /\ pc = "restoreProtection"
    /\ \E r \in Restored(SetProtection(chip, session.protection),
                         GetProtection, session.protection) :
           /\ chip' = r.chip
           /\ report' = Closed(IF r.error = "none" THEN report
                               ELSE CleanupError(report))
    /\ Goto("done")
    /\ UNCHANGED <<at, session>> /\ InSession

-----------------------------------------------------------------------------
RequestStop ==
    /\ ~ asked /\ asked' = TRUE
    /\ UNCHANGED <<chip, before, markers, job, pc, at, blank, map, plan, reads,
                   backup, ecc, session, report>>

(* The part finishes in its own time.                                       *)
ChipSettles ==
    /\ chip.op # NoOp
    /\ chip' = Completed(chip)
    /\ UNCHANGED <<before, markers, job, pc, at, blank, map, plan, reads, backup,
                   ecc, session, report, asked>>

Next ==
    \/ GetECC \/ DisableECC \/ ReadMarker \/ RestoreECC \/ PlanJob
    \/ EnableECC \/ ReadBackup \/ PublishBackup
    \/ CaptureProtection \/ CaptureConfiguration \/ UnlockPart \/ MutationECC
    \/ Cancel \/ RunStep \/ Verify \/ AllDone
    \/ DrainArray \/ DisableWrites \/ RestoreConfiguration \/ RestoreProtection
    \/ RequestStop \/ ChipSettles

Spec == Init /\ [][Next]_vars

-----------------------------------------------------------------------------
(* The types, with what ties the page being verified to its step.            *)
TypeOK ==
    /\ chip \in Chips(Content) /\ before \in Chips(Content)
    /\ at \in Nat /\ blank \in 0 .. Cardinality(Page)
    /\ map = NoMap \/ map \subseteq Block
    /\ plan = NoPlan \/ \A i \in DOMAIN plan :
           plan[i] \in [kind : {"erase", "program"}, block : Block, page : Page,
                      image : 0 .. ImagePages]
    /\ session \in [taken : BOOLEAN, protection : SUBSET ProtectionBits,
                    configuration : SUBSET ConfigurationBits,
                    mayHaveIssued : BOOLEAN, mayBeEnabled : BOOLEAN]
    /\ report.disposition \in {"noArrayMutation", "arrayIdle", "arrayBusyUnknown",
                               "deviceStateUnknown"}
    /\ pc = "verify" => at \in DOMAIN plan

Programmed == {i \in DOMAIN plan : plan[i].kind = "program"}
Planned == {plan[i].block : i \in DOMAIN plan}
Inherited == /\ chip.protection = before.protection
             /\ chip.configuration = WithECC(before.configuration, TRUE)

(* A session whose cleanup has not failed leaves the protection and the       *)
(* configuration register as the part had them before the job, but for the   *)
(* ECC bit, which the backup switches on.                                   *)
RegistersInherited ==
    pc = "done" /\ session.taken /\ ~ report.cleanupFailed => Inherited

(* A job that reports success has left the target on every page of its plan,  *)
(* in a part that is idle, cannot be written, and has the registers the       *)
(* session found: faults, ignored commands and failed cleanups in between.   *)
SuccessMeansWritten ==
    report.success /\ pc = "done" =>
        /\ IF job.kind = "erase"
           THEN \A b \in Planned : \A p \in Page : chip.cells[b][p] = Blank
           ELSE \A i \in Programmed :
                    chip.cells[plan[i].block][plan[i].page] = plan[i].image
        /\ chip.op = NoOp /\ ~ chip.wel /\ Inherited

(* A block with a factory marker on either page is never changed, whatever    *)
(* the job and whatever fails: its marker could not be made again.           *)
MarkedUntouched ==
    \A b \in Block : markers[b] \cap {0, 1} # {} =>
        chip.cells[b] = before.cells[b]

(* By the time a page changes, a backup is published that holds what every    *)
(* good block held.                                                        *)
BackupBeforeChange ==
    chip.cells # before.cells =>
        backup = [i \in DOMAIN GoodPages |->
                        before.cells[GoodPages[i].block][GoodPages[i].page]]

(* A job that was cancelled leaves every block as it was or all done.        *)
CancelledLeavesWholeBlocks ==
    pc = "done" /\ report.code = "cancelled" =>
        \A b \in Planned :
            \/ chip.cells[b] = before.cells[b]
            \/ IF job.kind = "erase" THEN \A p \in Page : chip.cells[b][p] = Blank
               ELSE \A i \in Programmed : plan[i].block = b =>
                        chip.cells[b][plan[i].page] = plan[i].image

(* What the report says of the part is so: no mutation means an array that is *)
(* as it was and not at work, idle means idle; a cleanup that has not failed  *)
(* has put the registers back and has not left writes enabled.               *)
ReportIsTrue ==
    pc = "done" =>
        /\ report.disposition = "noArrayMutation" =>
               /\ chip.cells = before.cells
               /\ chip.op # NoOp => chip.op.kind = "load"
        /\ report.disposition = "arrayIdle" => chip.op = NoOp
        /\ RegistersInherited
        /\ session.mayBeEnabled /\ ~ report.cleanupFailed => ~ chip.wel

(* The feature registers are not written while the array may be at work.     *)
RestoreOnlyWhenIdle ==
    pc \in {"disableWrites", "restoreConfiguration", "restoreProtection"} =>
        chip.op = NoOp
=============================================================================
