# TLA+ models of Asprogrammer PN (NVRAMancer)

Asprogrammer PN is a Free Pascal flash programmer: a window, two command lines,
nine programmers, and chips that cannot be asked twice. What makes it hard is
that a chip works in its own time, a transfer that failed may have arrived, the
power or the cable can go between any two steps, and the person at the bench
acts whenever they like. This directory holds models of the parts of the program
that stand between those facts and a destroyed image, down to the firmware of
two of its programmers, the TLC runs that check them, and proofs that TLAPS
checks.

Paths below are relative to `src/software/` unless they say otherwise.

## 1. Inventory

### The transactional core (no window, no USB)

| Part | State it keeps | Operations | Correct when |
|---|---|---|---|
| Operation state machine, `operationmodel.pas` | status, phase, error, device disposition, critical flag, cancellation token | Start, AdvanceTo, TryBeginCriticalCommand, EndCriticalCommand, Fail, Cancel, Complete | no command after a cancellation that was seen, one terminal outcome, the disposition tells the truth about the part |
| NOR planner, `norplanner.pas` | none | differential plan, geometry and plan checks | executing the plan turns the snapshot into snapshot + patch and nothing else changes |
| NOR executor, `norengine.pas` | step, polls, pending failure, marks, session flags | Execute of a plan over a device: preimage, write enable, latch, opcode, drain, verify, fresh session, cleanup, evidence | success is physically true; failure is honest; everything is released |
| SPI NOR adapter, `spi25noradapter.pas` | bus open, 4-byte mode, WREN obligations | Open, Initialize, CheckIdentity, Read, WriteEnable, Erase, ProgramPage, GetStatus, WriteDisable, Deinitialize, Close | every command on the wire is accounted for and undone |
| NAND planner, `nandplanner.pas` | none | walk around bad blocks for read, write, erase | no step meets a bad block |
| NAND executor, `nandengine.pas` | scan map, mutation session, report | scan, read, erase, write | marked blocks are never touched; registers are given back; the report is true |
| NAND adapter, `spi25nandadapter.pas` | configuration only | 9Fh, 13h, 02h, 10h, D8h, 0Fh, 1Fh with readbacks | each result says whether the array may have been touched |
| EEPROM executor, `eepromengine.pas`, `eepromadapters.pas`, `eepromsession.pas` | as NOR, without erase, latch and drain | page writes over a preimage, verify in independent sessions, evidence | as NOR |
| Operation runner, `operationrunner.pas` | prepared operation, busy flag | multi-pass reads, backup, one execution of a prepared operation | a prepared operation runs at most once, over a backup that several passes agree on |

### Durability and recovery

| Part | State it keeps | Operations | Correct when |
|---|---|---|---|
| Durable replacement, `AtomicWriteDurable` in `prodevidence.pas` | target, temporary file, what is flushed | create, write, flush, rename or link, sync the directory | old or new content, whole, always; the answer survives a power cut |
| Write journal, `writejournal.pas` | header, marks, torn tail | BeginJournal, AppendJournalMark, LoadJournal, DecideResume | an acknowledged mark is loaded, only history is loaded, a resume finishes the job |
| Smart write and recovery, `main.pas`, `workflowui.inc`, `writeworkflow.pas`, `recoveryworkflow.pas` | prepared job, accepted plan, backup + image + journal per job | prepare, accept, write, interrupt, recover | where a user is asked, nothing is written that was not shown; an interrupted job can always be finished |
| Production state, `prodstate.pas` | chained log, head anchor | load, admit, append, publish | a unit reported PASS is never forgotten, never admitted twice |
| Evidence and logs, `prodevidence.pas`, `prodlog.pas` | envelopes | commit, append | built on the durable replacement |

### Decisions without state

`writeadmission.pas`, `safemode.pas`, `validationgate.pas`, `quadpolicy.pas`,
`electricalpreflight.pas`, `voltagewarning.pas`, `railreport.pas`,
`clocktune.pas`, `chiptest.pas`, `norgeometrybuild.pas`, `protbits.pas`,
`serialnum.pas`, `workspacemodel.pas`, `sfdp.pas`: functions from facts to a
verdict, a number or a table. `sessionstate.pas` is a small state machine over
such facts, which `main.pas` feeds.

### Programmers

| Part | State it keeps | Operations | Correct when |
|---|---|---|---|
| USBasp firmware, `src/firmware/usbasp` | the transfer under way, address, page counter, SCK option, pins | `usbFunctionSetup`, `usbFunctionRead`, `usbFunctionWrite` over V-USB's `usbPoll` | a call of the host is one frame on the chip; what it reads is the chip's; no transfer is left without an end, also after transfers given up |
| AVRISP-MKII firmware, `src/firmware/AVRISP-MKII` | endpoint banks, parameters, address, extended address, soft SPI, lines | the commands of `V2Protocol_ProcessCommand` | each command gets its own answer; OK is true of the target; a session that ended leaves the target alone |
| Bus Pirate helper, `src/software/buzzpirathlp` | serial line, mode byte, pending answers | open, close, mode change, SPI and I2C transfers, ESC | an opened device is in its mode, the chip select is where the program believes, the bytes belong to the call, every call returns |
| ASProg firmware, `src/firmware/asprog` | the handler under way with its buffer, the pins, the serial line | header, blocks and acknowledgements of `ParseCommand`'s handlers | over all its blocks a call is one frame; a handler that gives up gives the chip back |

### Around them

`main.pas` (17 700 lines of windows), `cli.pas` and `headlesscli.pas`, the
backends (`basehw.pas` and its descendants), the older protocol units
(`spi25.pas` ...), scripting, production admission and cryptography, chip lists
and drivers. `PROJECT.json` lists each with the reason it is not
modelled: I/O, parsing, presentation or third-party code.

### How they interact

* A front end prepares a job: it reads the part, saves a backup, plans, and
  shows the plan. Write commits it: image and journal go to disk, then an
  executor runs the plan on an adapter, on a worker thread (`opthread.pas`).
  The window sets the cancellation token; the executor reads it.
* The executor calls the adapter, the adapter the backend, the backend the part.
  A call can fail, raise, or succeed without effect; a failed one may have
  reached the part.
* CommandFinished of the executor becomes a journal mark. A finished job deletes
  its journal; an unfinished one is found by its journal later, by another
  process.
* A production run loads the chained log, checks the job against it, writes the
  unit, appends the unit and publishes the new head by a durable replacement.
* A backend cuts a call into USB control transfers (`usbasphw.pas`), bulk packets
  (`avrisphw.pas`) or serial bytes (`buzzpirathlp.c`, `arduinohw.pas`). The host may give up any of
  them; what it left in the firmware meets the next call.

### What is hard here

Cancellation against the opcode; a part busy with an earlier session's command;
calls that raise between opcode and drain; a cleanup of several steps each of
which can fail; a verify in a second session; a power cut between write, flush,
rename and directory flush; a torn journal line followed by an append; two
stations on one log; a part or file exchanged between the plan and the write;
a stop between an erase and the program that must follow; a part exchanged
between two passes of a read; a transfer given up half way, whose remains the
firmware still holds when the next command comes. `PROJECT.json`
"hazards" lists each at its line with the properties that watch it.

## 2. Modules and the code

| Module | Stands for | Built on |
|---|---|---|
| `OperationModel` | phases, dispositions, outcome and pending failure of `operationmodel.pas`, as operators | |
| `NORChip` | a SPI NOR part (external): memory, latch, one command at work | |
| `NORPlanner` | `norplanner.pas`: differential plan and plan checks | `NORChip` |
| `DeviceTransaction` | abstract: what a terminal outcome promises about the part | |
| `NORExecutor` | `ExecuteInternal` of `norengine.pas`, one action per device call | `OperationModel`, `NORPlanner`; implements `DeviceTransaction` |
| `EEPROMExecutor` | `eepromengine.pas` with the write cycle of the three adapters and the two sessions | `OperationModel`; implements `DeviceTransaction` |
| `OperationRunner` | `operationrunner.pas`: ReadSession, Execute, the bound write | `OperationModel` |
| `SPINORAdapter` | `spi25noradapter.pas`: what the adapter owes the bus after every transfer | |
| `SessionState` | `sessionstate.pas`: Apply, MayStart, MayArm | |
| `Register` | abstract: a durable register | |
| `AtomicFile` | `AtomicWriteDurable` over a file system with unflushed state | implements `Register` |
| `WriteJournal` | `writejournal.pas`: the file | |
| `ResumeDecision` | `DecideResume` over a plan and its marks | `NORPlanner` |
| `SmartWrite` | job, bundle and recovery | `NORPlanner`; executor, journal and file as their models show them |
| `ProdState` | `prodstate.pas` as the production run of `cli.pas` uses it | |
| `NANDChip` | a SPI NAND part (external) and each adapter call on it, as the set of its results | |
| `NANDExecutor` | scan, plan, backup, mutation session of `cli.pas`, `nandplanner.pas`, `nandengine.pas` | `NANDChip` |
| `USBasp` | the hooks of `main.c`, `isp.c`, `i2c.c`, `microwire.c` over V-USB, with the calls of `usbasphw.pas` | |
| `AVRISPBus` | serial memory commands of the AVRISP: `spi25.c`, `I2c.c`, `microwire.c`, soft SPI, endpoint banks | |
| `ISPProtocol`, `XPROGProtocol` | the two programming protocols, with the AVR in the socket (external) | `AVRISPBus` |
| `AVRISP` | `V2Protocol.c` and its parameters, and the host | the three before |
| `BuzzPirat` | `buzzpirathlp.c` over a serial line, with the device (external) | |
| `ASProg` | the handlers of `src/firmware/asprog` and `arduinohw.pas`, over a serial line | |
| `Session` | suite: `EEPROMExecutor`, `OperationRunner`, `SPINORAdapter`, `SessionState`, `SmartWrite`, one of them at work in each behaviour | those five |
| `Storage` | suite: `AtomicFile`, `WriteJournal`, `ResumeDecision`, `ProdState` | those four |
| `Devices` | suite: `USBasp`, `AVRISP`, `ASProg`, `NANDExecutor` | those four |
| `MC_*` | the small values of the constants of a module or suite | |
| `NORPlanner_proofs` | lemmas and theorems about the planner | `NORPlanner` |
| `NORExecutor_proofs` | theorems about the executor, with the lemmas about `OperationModel` | `NORExecutor`, `NORPlanner_proofs` |
| `Session_proofs` | theorems about runner, EEPROM executor, record, adapter and Smart Write | `Session` |
| `Storage_proofs` | theorems about file, journal, resume and production state | `Storage` |
| `Devices_proofs` | theorems about the NAND executor and its adapter's calls | `Devices` |
| `ASProg_calls`, `ASProg_proofs` | what one step does to a call of the ASProg; theorems about its sessions | `Devices` |
| `BuzzPirat_proofs` | theorems about the Bus Pirate helper | `BuzzPirat` |

How state and actions correspond:

* **NORExecutor.** `op` is the outcome record, `pending` the first failure kept
  by SetPending, `ses` which of device and bus is held, `wire[i]` what became of
  step i's opcode, `marks` the steps announced by CommandFinished, `token` the
  cancellation, `pc` the place in ExecuteInternal and `ret` where a cleanup
  returns to (before the fresh session, at the end, or out of an exception).
  Each device call is one action whose alternatives are: it works; it fails with
  an error of `Faults`, opcode sent or not; it raises (`Unwind`). `ChipSettles`
  is the part ending its command, `RequestCancellation` the window. A listener
  that raises inside an announcement is among the alternatives.
* **EEPROMExecutor.** `job` is the plan with its bus, `chip` the part (pages,
  write cycle, write latch), `dev` what the adapter was told, `ses`, `op`,
  `pending`, `pc`, `ret` as above; `foreign` is a second caller that finds the
  executor busy. A page write fails before or after its data went out, or raises.
* **OperationRunner.** `part` is what is in the socket and `changes` how often it
  was exchanged, `pass` and `data` the read, `seen` what each pass returned,
  `backup` what was saved and `overwritten` what the write found.
* **SPINORAdapter.** `has` is what the part holds (latch, address mode, work),
  `owed` what the adapter believes it has to undo, `sent` and `twice` the cleanup
  calls made, `left` the part when the bus was stopped, `bad` whether one failed.
* **SessionState.** `facts` and `activity` are the record, `bench` what is really
  connected (rail, part, image), `answered` and `judged` what it was when the
  facts were concluded, and whether another part has answered in its place since.
* **AtomicFile.** `target` is what the name leads to now, `entries` what it may
  lead to after a power cut, `written` and `flushed` the chunks of each writer's
  temporary file, `temp` the temporary files that exist.
* **WriteJournal.** `file` is what a reader sees now, `survivors` what may be
  left of it by a power cut: complete lines and a possible tail.
* **SmartWrite.** A bundle is the backup, image and journal of a job. The
  executor is one atomic step per plan step, or an interruption half way. `phase` is
  "preview" or "commit" where a user is asked and "batch" where nobody is.
* **ProdState.** `log` and `anchor` are the two files, `logs` and `anchors` what
  a power cut may leave; `FileSize` is the size of what would be read, which
  `Loads` compares with `MaxBytes` (`LineBytes` for a line); a run is at one of the
  places of the production run in `cli.pas`. A MAC stands for what it was computed from.
* **NANDExecutor.** `map` is the scan's result, `plan` the steps, `reads` the two
  backup passes, `session` and `report` the records of the same name. The
  operators of `NANDChip` return every result of an adapter call: the part
  afterwards, the error, the mutation state, and the value.
* **USBasp.** `usb` is the driver (packet received, packet to send, `usbMsgLen`,
  who answers), `fw` the statics of `main.c` and `isp.c` with the pins and the
  chip, `host` the session and the transfer under way. `usbPoll` is one step, as
  in the main loop; each packet of the host is one, and so is giving up.
* **AVRISP.** `fw` holds the statics, the endpoint banks and the target, `host`
  the session. A command runs to its end in one step unless it waits for the
  host: then it is a step for each packet, as `Endpoint_WaitUntilReady` makes it.
* **BuzzPirat.** One action for each write to or read from the serial line; the
  device answers in its own time; ESC may be seen between any two of them.
* **ASProg.** `fw.pc` is the `readBytes` at which a handler stands (header,
  acknowledgement, data), `fw.wire` what the chip saw in this call, `tx` and `rx`
  the serial line, `host.todo` what the backend's call still sends and waits for.
  A `readBytes` ends with all it asked for, or with what has come when the host
  stands still for its second.
* **Suites.** `subject` names the module at work. The variables of the others are
  `Off` and stay so; a variable two modules have in common is the subject's. No
  module is changed by being in a suite: its Init and Next are used as they are,
  and `subject` never changes, so what is proved of a suite is proved of each of
  its modules.

## 3. Runs

| Run | Question | Bounds |
|---|---|---|
| `nor_executor` | every interleaving of one plan execution with cancellation, a slow part, failing and raising calls | a 4-byte part with one-bit bytes and two erase blocks of one page, so that one block needs an erase and the other does not; nine requests, among them plans no planner made; two polls before the drain gives up; a part that is right, already done, or changed since planning; a command left over from before |
| `nor_first_cause` (violation) | is the first failure always the one reported? | the same |
| `session` | EEPROM run, runner, adapter, session record, Smart Write: one in each behaviour | EEPROM: three pages, five jobs on three buses, one of them invalid, three faults. Runner: eight inputs, three passes, the part exchanged twice. Adapter: the four address strategies. Session record: two rails, parts and images. Smart Write: two parts of two bytes that no bit is left in, two patches of one byte so that the other must be kept over an erase, a user who is asked or a batch, two bundles, one power cut, one changed file |
| `storage` | durable file, journal, resume, production state: one in each behaviour | File: two writers that must not replace, one that may, two chunks, two power cuts. Journal: a header of two lines, four units, two power cuts. Resume: four bytes, two blocks of two pages, six patches, three attempts. Production: three runs, one of them without chip id, room for two entries, lines of one byte and of three and no more than three bytes to read, so that some logs of two cannot be read, one power cut, one older log put back |
| `resume_lost_mark` (violation) | does a resume finish the job also when a mark was lost and later ones were not? | as in `storage` |
| `prod_create_race` (violation) | is no PASS forgotten when two stations create the log at once? | as in `storage` |
| `nand_silent_capture` (violation) | are the registers given back when a read found the bus silent? | the NAND bounds of `devices`, no other fault |
| `buzzpirat` | is an opened device ready, in step and released, and does every call return? | reads of one byte, a mode reset that answers after two zeros, three answers on the line at most, one call left with answers behind; ESC and answers that do not come at any time |
| `devices` | what ends at a chip: three firmwares whose hosts give up transfers, and a NAND write or erase around a marked block | USBasp: packets of 2 bytes, AVRs without pages, and with two and four times what an extended address selects; one fault; sessions of two classes that follow each other. AVRISP: packets of 5, transfers of 1, 4 and 6 bytes, seven AVRs and three serial memories, two sessions, one fault. ASProg: blocks of 2 and 4 bytes, transfers below, at and above one, a host that stands still once, at any byte, and one call after that. NAND: three blocks of two pages, an image of one block and a half, a marker on a second page; skip and refuse; seven kinds of fault; a stop at any time |
| `usbasp_search` (violation) | does the programmer hear an AVR once ENABLEPROG has answered 0? | one AVR that follows 93.75 kHz and no more |
| `avrisp_i2c_read` (violation) | does an I2C read follow an address? | one I2C memory, as in `devices` |
| `asprog_i2c_page` (violation) | is an I2C write of a whole block one frame of all its bytes? | as in `devices`, with four bytes to write over I2C |

Why the bounds are enough: a plan of two blocks has every adjacency of erase,
program and verify steps there is, and the code's loops carry nothing from one
block to a later one but the step index and the pending failure. One bit is
enough for a byte because erase, program and compare act on each bit alone. Two
polls separate "idle at once", "idle at the last poll" and "never idle". Three
passes let the first two agree and the third not. Two power cuts cover a recovery
that is cut off itself. A log with room for two entries is full with three runs.
Three NAND blocks give a plan that skips one and spans two. The firmware carries
from one packet to the next only counts and addresses: sizes below, at and above
one packet, a page and an extended address meet every comparison it makes. One
fault is enough for what the next call finds. Where TLAPS has proved a property
(section 5) the bounds do not matter.

What each property says stands above it in its module; a property of a suite is
the conjunction of the properties of one module that belong together. The ones
worth reading first: `SuccessMeansPatched`, `BusyIsKnown`, `IsTransaction` (NOR);
`SafeMeansDisarmed` (EEPROM); `BackupIsUnanimous` (runner); `PaidOnce` (adapter);
`NothingIsStale` (session record); `IsRegister`, `SuccessSurvives` (file);
`AcknowledgedMarksSurvive` (journal); `AlwaysRecoverable`, `AcceptedWasShown`
(smart write); `PassedIsRecorded`, `CleanLoads` (production);
`BackupBeforeChange`, `ReportIsTrue` (NAND); `BusSawTheCall`, `AnswersInStep`,
`WrittenIsWritten` (firmware); `CallsReturn` (Bus Pirate).

`CHECK_DEADLOCK FALSE` stands where a job comes to an end and nothing follows.
Each property has a mutant in `PROJECT.json`: a plausible bug in the modelled
code that makes the run fail.

### Fairness

Two modules have a liveness property. `NORExecutor`'s `Terminates` assumes weak
fairness of the worker thread's steps alone: the thread is a plain loop without a
lock, so the scheduler runs it eventually. Nothing is assumed of the part, which
may stay busy for ever, nor of the person who may cancel. `BuzzPirat`'s
`CallsReturn` assumes weak fairness of the helper's steps (a
plain loop), of the device's, and of a person who holds ESC down in a wait for an
answer that does not come, which nothing else ends. The others are safety properties, for which no fairness is needed.

## 4. What the runs found

* **The first cause can be hidden** (`nor_first_cause`). When a device call
  raises, nothing is pending during the cleanup of the finally clause; a cleanup
  call that then fails is recorded as the first failure and the except clause
  drops the exception, against the comment at norengine.pas:150.
* **A resume can undo finished work** (`resume_lost_mark`). A lost mark of an
  erase with later marks of its page programs makes the resume erase and then
  skip the programs.
* **Two stations can create the log at once** (`prod_create_race`). The second
  creation empties the log of the first, whose unit was reported PASS; the new
  anchor makes the log load without it.
* **FF is restored as if it were inherited** (`nand_silent_capture`). A register
  captured while the bus was silent is put back as FF: the part ends up fully
  protected, with a cleanup that reports no failure.
* **The USBasp's search can end on a speed nobody clocks** (`usbasp_search`). It
  finds the AVR at option 8 and sets option 7, which is clocked by software while
  the hardware SPI stays enabled and holds the pins.
* **The AVRISP reads I2C without a START** (`avrisp_i2c_read`). `i2c_read` begins
  with `i2c_init`, which makes a stop of the start that the write before it has
  left on the lines.
* **The ASProg drops most of an I2C page** (`asprog_i2c_page`). Of a write block of
  256 bytes `i2c_cmd_write` sends the chip the first 64 (i2c_cmd.cpp:158), and
  acknowledges them all: the write of a page of 256 counts as done.

## 5. Proofs

TLAPS proves 38 theorems, for every value of the constants: every invariant and
action property of `nor_executor`, everything the suites `Session` and `Storage`
check, what `Devices` checks of the NAND executor and of the ASProg, and the invariants of
`buzzpirat`. The assumptions on the constants are named in the modules that
declare them: a part has at least one byte (`ChipAssumption`), its erase map passes
ValidateNORGeometry (`GeometryAssumption`), requests, contents, images and patches
have their shapes, and limits are numbers. A NAND part has finitely many blocks of
at least two pages, numbered from 0, and a misread page is none of the contents
(`NANDAssumption`). A read of the Bus Pirate helper has room for a byte or more and
its device answers the mode reset with at least one zero (`BuzzPiratAssumption`).
Nothing bounds the number of bytes, blocks, pages, plan steps,
faults, writers, runs, log entries, power cuts, passes, bundles, attempts, the
length of a transfer or the depth of the serial line.

| Module | Theorem | States |
|---|---|---|
| `NORExecutor_proofs` | `Invariance` | `Spec => []IInv` |
| | `TypeCorrect`, `AllReleased`, `SafeIsIdle`, `BusyKnown`, `MarksDone`, `SuccessHolds`, `SnapshotIsCurrent` | the invariants of `nor_executor` |
| | `IssueIsClean` | the action property `CleanIssue` |
| | `SuccessPatches` | a planned run that succeeds leaves snapshot + patch on the whole part |
| | `ImplementsTransaction` | the executor implements `DeviceTransaction` |
| `NORPlanner_proofs` | `PlansAreAccepted` | the planner's plans pass ValidateNORPlan and both coverage checks |
| `Session_proofs` | `NothingIsEverStale` | `NothingIsStale` of the session record |
| | `AdapterAlwaysPaysOnce` | `AdapterPaysOnce` |
| | `AlwaysStaysRecoverable`, `SuccessAlwaysKeepsPromise`, `AcceptedWasAlwaysShown` | the three promises of Smart Write |
| | `ReadsAreAlwaysTrusted` | `TrustedReads` of the runner |
| | `EEPROMAlwaysKeepsPromises` | `EEPROMPromises` |
| | `EEPROMImplementsTransaction` | the EEPROM executor implements `DeviceTransaction` |
| `Storage_proofs` | `FileIsAlwaysKept` | `FileIsKept`, where `DirectoryOpens` |
| | `FileImplementsRegister` | durable writes implement `Register`, where `DirectoryOpens` |
| | `JournalIsAlwaysHistory` | `JournalIsHistory`, where `EntryFlushed` |
| | `JournalReadIsAlwaysHistory` | the same of a journal that is still there, without that condition |
| | `ResumeAlwaysFinishesTheJob` | `ResumeFinishesTheJob`, where not `AnyLoss` |
| | `PassedIsAlwaysRecorded`, `StateIsAlwaysLawful` | `PassedIsRecorded` and `StateIsLawful`, where not `CreateRaces` |
| `Devices_proofs` | `NothingIsEverLost`, `CancelledAlwaysLeavesWholeBlocks` | `NothingIsLost`, `CancelledLeavesWholeBlocks` |
| | `SuccessAlwaysMeansWritten`, `CleanupIsAlwaysTrue` | `SuccessMeansWritten` and `CleanupIsTrue`, where not `SilentFeatures` |
| `ASProg_proofs` | `CallsAreAlwaysOneFrame` | `BusSawTheCall`, where `WholeBlocks` |
| | `SelectIsAlwaysMeant` | `SelectIsMeant`, where `LengthsAreNoCodes` |
| | `BlocksAreAlwaysOneFrame` | `BlocksAreOneFrame`, where both |
| `BuzzPirat_proofs` | `OpenAlwaysMeansReady` | `OpenMeansReady`, where not `Late` |
| | `ChipSelectIsAsBelieved`, `DataAreAlwaysInStep` | `ChipSelectBelieved` and `DataInStep`, where not `Late` |
| | `TypesHold` | `TypeOK`, where not `Late` |

Fifteen theorems have a condition on how the system is used, each a constant of the
model, or about its constants, so that its absence can be tried: a directory that cannot be opened is not
flushed although the write answers true; BeginJournal leaves the journal's
directory entry to luck; a lost mark followed by others makes a resume undo
finished work (`resume_lost_mark` shows it); two stations that create the log at
once lose a unit (`prod_create_race`); a NAND register captured while nobody drove
the bus is put back as FF (`nand_silent_capture`); an answer of the Bus Pirate that
comes after its read gave up stays on the line and every later answer is taken for
the one before it (`Late`); the ASProg sends the chip only the first `rchunk` bytes of
an I2C block that fills its buffer (`WholeBlocks`, `asprog_i2c_page`); and once its
header was broken by a host that stood still, a length byte that equals the code of a
handler of another protocol runs as that handler and moves the select
(`LengthsAreNoCodes`: for SPI the codes 21, 22 and 30 to 33, for Microwire 7, 10, 11,
21 and 22). The lengths of `devices` meet that condition; the real ones need not,
since a transfer may have any length. `SuccessHolds`, `SnapshotIsCurrent`,
`SuccessPatches` and `ImplementsTransaction` speak of a device with the identity
gate (CheckIdentity refuses a busy part), which the shipped adapter has; the other
theorems about the executor hold without it too.

### The inductive invariants

None of the safety properties is inductive. TLC checked each invariant below on
the small instance before it was proved.

**NOR executor.** `IInv` adds, to the types: `SessionFlags` (which places hold
device and bus, without which a cleanup cannot be shown to release exactly what was
taken); `Running` and `PhaseReached` (how far the state machine has come at each
place, so that AdvanceTo never refuses, which would be an exception the code has no
way out of); `Unspoiled` (the body goes on only with nothing pending and no
cancellation); `AtRest` (where the part is idle, and that where it is not the
disposition says so: it is carried through the drain by the disposition and through
the cleanup by the pending failure, and is the heart of the argument);
`Bookkeeping` (what is on the wire and announced, step by step); `Verified` (what
both sessions have compared so far); `SnapshotSeen` (a bound run writes only over
the planned content). `Preserved` carries the rest of the part from the snapshot to
the end: a byte differs only where a destructive step of the plan is.
The lemmas about the parts of `IInv` have one step for each action; what each
action and each operator on the outcome record does is said once, in lemmas before
them.

**NOR planner.** `PlanSound` and `UnitsSound` say what the differential plan is: where
each step comes from (`PlanOrigins`), that every byte to be changed is in a unit,
every touched block is verified after its units and an erase comes before the
programs of its block, once. The planner is written with FlattenSeq, a recursive
function, and with functions over numbers. The provers have no induction rule they
can instantiate, so induction is done by least counterexamples (`Least`, `Induct`,
`Greatest`), which are sets. The lemmas serve the executor, Smart Write and the
resume; the latter two reach the planner through an instance, whose definitions are
shown equal first.

**EEPROM executor and runner.** `EepromInv` is built like `IInv`, with `EepromRest`
(a page being written or a latch left set is in doubt, or will be disarmed by the
cleanup) and `EepromContent` (which pages hold what after the first steps of the
plan). `RunnerInv` follows the passes: `Unanimous`, every pass saw the same, is
what a success, a backup and a write rest on.

**Adapter.** `AdapterSent` says which cleanup calls can have been made by each point
of StopBus and Close; `AdapterPart` that whatever mode the part may still be in has
its flag up, or its cleanup call ahead, or has been reported as failed.

**Session record.** Facts are revoked from the top, so the invariant adds that a chip
rests on a rail and a rail on an open programmer, and what a fact says of the bench.

**Smart Write.** `AlwaysRecoverable` speaks of a bundle once its job has changed the
part; `GoodBundles` knows it from the moment its journal is whole, and that the
hashes in the journal make the promise even if somebody changes a file. `Saving`,
`JobHasBundle`, `GateStands` and `JobWasShown` follow a job from the gate to its
bundle, `PartReached` the part from step to step of the plan, also if an
interruption had left it half done.

**Durable file.** What a name leads to, or may lead to after a power cut, was flushed
before it was installed. Between the installation and the flush of the directory
the name leads to some writer's whole file, old or new.

**Journal.** A file with fewer lines than the header does not read; every other one
is the header and then marks in the order of their numbers, every acknowledged one
among them. No line is ever joined to bytes without a newline, because these are cut
off before.

**Resume.** What remains, done in the order of the plan, has to lead to the wanted
content from whatever the part holds (`Ready`): a byte that a remaining unit
programs and none erases has lost no bit it is to keep; one that is erased and not
programmed is to be erased; one that nothing touches is right. A unit done again or
in part keeps that, and so does the first one done and marked.

**Production state.** The invariant follows what each run knows. A log whose chain
verifies grew by lines that were checked against it; a run that has appended its
line knows that every log a power cut can leave, if it verifies at all, holds what
it loaded and then its entry; so whoever publishes the next anchor has every
reported unit before him, or nothing that a power cut can leave will verify.

**NAND executor.** `NandInv` has seven parts. `NandTypes` are the types.
`NandAtRest` says that the array is at work only in the drain, at the end, and in
the scan's last call after a failure: a call that succeeded left it idle, and one
that failed sends the cleanup through the drain. `NandUntouched`: until the session
notes that a command may be out (`mayHaveIssued`) the array is as it was.
`NandReports` ties session, report and place to each other. `NandKnows` follows what
the run knows of the part: a block is held good only if its pages read so far have
no marker, the plan is lawful on the good blocks, the backup is what they held, and
no other block changes. `NandReads` follows the two passes: one that was never
misread is what the part held, one that was is marked with its number, so that two
passes agree only if both are right. `NandProgress` follows the plan: the steps
before the present one hold, no block of a later one has changed, and of the block
just erased the pages seen so far are blank. `NandRegisters` holds only where no
register reads FF by accident: what the session captured is what the part had, and
a cleanup that has not failed has put it back. Each action has a lemma, and so has
each call of the adapter, which says what every one of its results leaves.

**Bus Pirate.** `BpInv` has a disjunct for each place a call can stand at (`Places`),
because what is true of the line is true only there. While the helper opens or
closes, `LineAt` says for each step what the device may still have to read and
what may still come from it: first anything a session left (`StartLine`), then only
line ends and `#` (`PreLine`), zeros after them (`EnterLine`), bitbang and zeros
(`BitLine`), the mode byte (`ModeLine`), the mode (`UpLine`). What makes a stale byte
harmless is that no answer but BBIO1 has the letter I: to have read one is to know
that a zero was taken in bitbang mode, whatever else was on the line (`NoI`). Between
two calls `IdleInv` says that the session is in the mode the library believes
(`Ready`), that the last chip select on its way to the device is the one believed
(`LevelKept`), and, while nothing was cancelled, that the line is empty but for the
writes of no byte that a device with the SPI bug does not answer (`Quiet`). Within a
transfer `TransferInv` follows command, acknowledge and data: until one is cancelled,
what is on the line is what the next reads ask for and nothing behind it.

**ASProg.** That a call is one frame is not inductive: it says nothing of a call under
way. `ASInv` says, for a session whose host never stood still, where the call stands:
at rest, at a block of the write, at the turn, at a block of the read, in one of the
single calls; and for each such place what the host still has to do, what is on the
line each way, at which `readBytes` the handler is, and that the chip has seen
exactly the blocks before (`Upto`). The host's steps for a transfer are a flattened
sequence; what stands at each place of it is shown by least counterexamples, as for
the planner. Of the select `SelInv` says nothing of places, because a host that stood
still may have left any part of a header or block on the line: it says that no byte
the host sends, waits with or left is the code of a handler that moves the pin for
another protocol, so that whatever the loop takes for a command ends with the pin as
the protocol has it.

### Only model-checked

* `Terminates` and `CallsReturn`: liveness, which needs ENABLED.
* What `devices` checks of two firmwares: `FrameIsWhole` and `MemoryIsTrue`
  (USBasp), `CallIsOneFrame`, `EachItsAnswer`, `OkIsTrue` and `SessionsEndClean`
  (AVRISP).

## 6. What is assumed, and what is not modelled

### Assumptions

* The part: erase sets every bit, program only clears, a busy part ignores
  commands other than a status read, a status read tells the truth when the
  transfer works.
* `IdentityGate`: CheckIdentity of the adapter refuses a part that is busy.
* Files: what was flushed stays; of what was not, any part may stay. A directory
  entry is durable once its directory was flushed. `DirectoryOpens`: the
  directory can be opened for that. `EntryFlushed`: the journal's own directory
  entry has reached the disk. Both are constants, so the other case can be tried.
* Removing a temporary name succeeds (prodevidence.pas:762, 782 do not ask): a
  failure leaves a file of another name behind and nothing else.
* `fmShareDenyWrite` keeps a second writer out of the log. Where locks are only
  advisory that holds for this program's own processes.
* `CreateRaces`: whether two stations may create the log at once. `storage` says
  no, `prod_create_race` yes.
* Run ids and part ids are unique; a hash or MAC stands for what it was made of.
* NAND: the part was reset before, and the ONFI step of the command line
  (cli.pas:1182-1215), which writes the configuration register and puts it back, went
  through; a misread marker never reads as FF where a
  marker is; two passes that misread do not agree; an image is whole pages.
* EEPROM: the part is idle when the session starts and is not exchanged between
  its two sessions.
* Runner: a disturbance does not repeat itself equally on every pass.
* USBasp: Microwire is opened with one of the three clocks that the window offers
  (`MwOptions`, tags 5 to 7 of main.lfm:1236-1258), which are software clocks. With
  the automatic clock `isp25Connect` would leave the hardware SPI enabled, and the
  bits that microwire.c moves would not reach the pins; `Bitbanged` has that.
* USBasp: packets are neither lost nor repeated on the wire; the host's transfers
  have at least one byte (a write of none never ends in the firmware).
* AVRISP: one bulk transfer is there when its command is processed; an answer
  nobody reads is gone when the next command comes. `Segment`, ticks and
  `EPSIZE` stand for 128 KB, timer ticks and 64 bytes.
* Bus Pirate: an answer comes within the time limit of its read, unless an earlier
  command keeps the device busy (`Late` lifts this); bytes are neither lost nor
  altered.
* ASProg: opening the port resets the board; bytes are not lost; transfers have at
  least one byte and no byte of data is the code of a command, so that what runs
  on after a handler gave up is answered with an error; the one I2C write of a
  whole block is a run of its own.
* `MAX_JOURNAL_MARKS`, 64-bit overflow guards of the planner, the NAND plan's own
  last check (it repeats what the walk has done), progress counters and texts are
  left out.

### Not modelled

Components that are functions from facts to a verdict, a table or a number
(admission, safe mode, preflight, voltage, clock search, SFDP, serial numbers),
presentation (windows, workspaces, languages), parsing and cryptography, drivers
and third-party code: nothing in them happens in steps, and the properties they
have are those of their tables. The rest of the backends is USB and serial I/O,
for which the models let any transfer fail before or after it took effect.

Of the firmware: TPI's raw instructions and V-USB's bit level, the bit level of
the AVRISP's USART and soft SPI, the ASProg's I2C and Microwire pins.

### Met while modelling

Facts of the code that no run states, because no line of the repository says
otherwise, or because they lie outside what is modelled.

The core.

* A completion mark is not "physically done": an ignored opcode leaves an idle
  part and CommandFinished is published all the same (norengine.pas:572-580,
  writejournal.pas:27). A later verify fails, so no job succeeds by it.
* `AtomicWriteDurable` answers true when the directory cannot be opened for its
  flush; `BeginJournal` does not flush the journal's directory entry; the result
  of deleting a finished job's journal is ignored (main.pas:16593-16598).
* An initialization that fails before any command reports a known-safe device
  though nothing has read the busy bit (norengine.pas:169).
* `EEPROMExecutor` hides a first cause behind a failed cleanup as the NOR
  executor does. The Bus Pirate's `I2CWriteByte` is always true and its
  `MWIsBusy` false when the query failed, so that `WaitReady` ends at once.
* The runner returns the first pass of a read it did not trust, with the failure.
* A WRDI or E9h sent to a part that is still busy is ignored, and the adapter's
  cleanup calls itself exact; `LeftAsFound` speaks of a part at rest.
* `SessionState`: another part that answers does not revoke preflight and arming
  (comment 246-248); OperationSucceeded keeps the preflight although the comment
  at 404 sends the next unit through it again; a rail change is refused with no
  programmer open. main.pas repeats the preflight before each arming
  (7395-7446), so none of it reaches a part. `NothingIsStale` speaks of premises whose
  loss was reported and says nothing of a part exchanged without it (`swapped`). It asks MayArm there (7440); nothing calls SessionAllows
  (5403), the only caller of MayStart, and the closing of a programmer and the
  start and success of a write are never recorded.
* `prodstate.pas` reads files up to 16 MiB (318) and appends while there are fewer
  than 100 000 entries (558), so that with lines of more than 167 bytes a log stops
  loading before it is full, although the comment at 553-557 says that an append
  must not lock out the next load. `CleanLoads` is about logs within the size
  (`Readable`); without that premise TLC finds the lock-out.
* A batch, and the command line, write a Smart Write plan that is logged and shown
  to nobody (main.pas:15886 with 13757 and cli.pas:855); `AcceptedWasShown` speaks of
  the jobs a user is asked about. The menu item for a write of the 25 series passes
  `MenuSmartWrite` (main.pas:11138-11149), so it asks.
* The scan of `nandengine.pas` restores ECC in its finally clause only.

USBasp.

* Addresses from 8000h on are
  extended with their sign; the result of `ispFlushPage` is ignored.
* A host that dies leaves the SPI enabled; a session of another class then finds
  its pins taken. `Sound` in the model names the sequences for which a session
  begins clean.

AVRISP.

* An unknown command longer than an endpoint is not drained, since the check
  counts what is left after the command byte. An unknown XPROG command is not
  cleared. An XPROG read of a multiple of `EPSIZE` ends without an empty packet;
  the empty packet after `SPI_MULTI` is taken for an unknown command.
* On a slow soft SPI a write with a delay answers OK after its limit, and over SPI
  nothing tells a target that was pulled out from a blank one.
* A target pulled out can hold LEAVE of XPROG for ever. A page of 256 bytes of
  EEPROM does not fit the 8-bit counter of its loop.
* A host that dies in an SPI or I2C write leaves bytes of the buffer that were
  never sent to go out to the chip.

Bus Pirate.

* ESC with `reset_once` leaves answers on the line; an init with `reset_once`
  ignores another COM port; `bhl_i2c_speed` ignores its parameter.
* `bhl_asprog_i2c_write_byte` returns 1 whatever the acknowledge, against
  basehw.pas:131, so that the busy poll (i2c.pas:102) and the scanner
  (labtoolsui.pas:259) always find a chip. `I2CReadByte` always acknowledges.

ASProg, `src/firmware/asprog` and `arduinohw.pas`. The first two need a host
that stands still for a second, and `BusSawTheCall` speaks of sessions whose host
never did.

* A serial read that comes up short leaves stale bytes that are clocked out and
  acknowledged.
* A late acknowledgement is taken for a command, whose error answer can pass for
  a last block of one byte. Nothing purges the line before the next open, so a
  session stays one answer behind after one failed call.
* An I2C read with nothing written before has no START. The acknowledge of
  `I2CReadByte` is inverted between the two sides (`I2C_ACK` is 0, the host sends
  1). A transfer after `SPI.end` hangs; lengths from 32768 on are negative.

## 7. Plan

Done, in this order: (1) operation model, NOR part, planner, executor with its
proofs; (2) durable file, journal, smart write, resume; (3) production state;
(4) NAND executor; (5) EEPROM executor and runner, composed with
`OperationModel`; (6) adapter and session record; (7) the firmware of the USBasp
and the AVRISP, and the Bus Pirate helper; (8) the ASProg.

Then proofs: (9) the file and its register, the journal, the production state;
(10) the record, the adapter, the runner and the EEPROM executor; (11) the planner,
and with it `SuccessMeansPatched`, Smart Write and the resume; (12) the NAND
executor, with the constants of the suite `Devices` made parameters; (13) the Bus
Pirate helper, where no answer comes late; (14) the ASProg.

Next:

15. Proofs about the USBasp and the AVRISP.
16. Decisions as operators against reference definitions: write admission, safe
    mode, clock search, serial numbers.

The abstract specifications are `DeviceTransaction` (engines) and `Register`
(files).

## 8. Running

    tlc -config MC_NORExecutor.cfg MC_NORExecutor
    tlapm NORExecutor_proofs.tla        (and the other seven proof modules)

Each `MC_*.tla` gives the constants of a module, or of the modules of a suite,
their small values; each `.cfg` beside it is one run of `PROJECT.json`.
