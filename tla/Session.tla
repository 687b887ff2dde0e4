------------------------------- MODULE Session -------------------------------
(* The modules around one programming session: the run of an EEPROM plan,   *)
(* the runner of a SPI NOR read or write, the life cycle of its adapter, the *)
(* record of what the session knows, and Smart Write with its recovery.  One *)
(* of them is at work in a behaviour, the subject; the variables it has not *)
(* are Off.                                                                 *)
EXTENDS Naturals
CONSTANTS
    Faults,                                             \* of EE and RR
    Pages, Jobs, PageContents,                          \* of EE
    Readings, NoData, Inputs, MaxPasses, MaxChanges,    \* of RR
    Strategies,                                         \* of AD
    Rails, Identities, ImageFiles,                      \* of SS
    Bits, ChipSize, PageSize, Blocks, Part, Patches, Contents,
    MaxBundles, MaxCrashes, MaxTampering,               \* of SW
    None                                                \* of SS and SW

VARIABLES
    subject, job, executing, foreign, pc, ret, op, pending, step, cancelled, token,
    ses, dev, chip, input, failure, pass, data, part, changes, seen,
    backup, overwritten, strategy, has, call, bad, owed, sent, twice,
    left, facts, activity, bench, answered, judged, mem, socket,
    bundles, buffer, requested, gate, phase, index, shown, promised,
    crashes, tampering
Off == 0

EE == INSTANCE EEPROMExecutor WITH Contents <- PageContents
RR == INSTANCE OperationRunner WITH Images <- Readings
AD == INSTANCE SPINORAdapter
SS == INSTANCE SessionState WITH Chips <- Identities, Images <- ImageFiles
SW == INSTANCE SmartWrite

ASSUME SessionAssumptions ==
    /\ EE!EEPROMAssumption /\ RR!RunnerAssumption
    /\ AD!AdapterAssumption /\ SS!SessionAssumption
    /\ SW!ChipAssumption /\ SW!GeometryAssumption /\ SW!SmartAssumption

-----------------------------------------------------------------------------
notEEPROM == <<input, failure, pass, data, part, changes, seen, backup, overwritten,
    strategy, has, call, bad, owed, sent, twice, left, facts, activity,
    bench, answered, judged, mem, socket, bundles, buffer, requested, gate,
    phase, index, shown, promised, crashes, tampering>>
notRunner == <<job, ret, pending, step, dev, chip, strategy, has, call, bad, owed, sent,
    twice, left, facts, activity, bench, answered, judged, mem, socket,
    bundles, buffer, requested, gate, phase, index, shown, promised,
    crashes, tampering>>
notAdapter == <<job, executing, foreign, ret, op, pending, step, cancelled, token, ses, dev,
    chip, input, failure, pass, data, changes, seen, backup, overwritten,
    facts, activity, bench, answered, judged, mem, socket, bundles, buffer,
    requested, gate, phase, index, shown, promised, crashes, tampering>>
notSession == <<job, executing, foreign, pc, ret, op, pending, step, cancelled, token, ses,
    dev, chip, input, failure, pass, data, part, changes, seen, backup,
    overwritten, strategy, has, call, bad, owed, sent, twice, left, mem,
    socket, bundles, buffer, requested, gate, phase, index, shown, promised,
    crashes, tampering>>
notSmart == <<executing, foreign, pc, ret, op, pending, step, cancelled, token, ses, dev,
    chip, input, failure, pass, data, part, changes, seen, backup,
    overwritten, strategy, has, call, bad, sent, twice, left, facts,
    activity, bench, answered, judged>>

Init ==
    \/ /\ subject = "eeprom" /\ EE!Init
       /\ input = Off /\ failure = Off /\ pass = Off /\ data = Off
       /\ part = Off /\ changes = Off /\ seen = Off /\ backup = Off
       /\ overwritten = Off /\ strategy = Off /\ has = Off /\ call = Off
       /\ bad = Off /\ owed = Off /\ sent = Off /\ twice = Off /\ left = Off
       /\ facts = Off /\ activity = Off /\ bench = Off /\ answered = Off
       /\ judged = Off /\ mem = Off /\ socket = Off /\ bundles = Off
       /\ buffer = Off /\ requested = Off /\ gate = Off /\ phase = Off
       /\ index = Off /\ shown = Off /\ promised = Off /\ crashes = Off
       /\ tampering = Off
    \/ /\ subject = "runner" /\ RR!Init
       /\ job = Off /\ ret = Off /\ pending = Off /\ step = Off /\ dev = Off
       /\ chip = Off /\ strategy = Off /\ has = Off /\ call = Off
       /\ bad = Off /\ owed = Off /\ sent = Off /\ twice = Off /\ left = Off
       /\ facts = Off /\ activity = Off /\ bench = Off /\ answered = Off
       /\ judged = Off /\ mem = Off /\ socket = Off /\ bundles = Off
       /\ buffer = Off /\ requested = Off /\ gate = Off /\ phase = Off
       /\ index = Off /\ shown = Off /\ promised = Off /\ crashes = Off
       /\ tampering = Off
    \/ /\ subject = "adapter" /\ AD!Init
       /\ job = Off /\ executing = Off /\ foreign = Off /\ ret = Off
       /\ op = Off /\ pending = Off /\ step = Off /\ cancelled = Off
       /\ token = Off /\ ses = Off /\ dev = Off /\ chip = Off /\ input = Off
       /\ failure = Off /\ pass = Off /\ data = Off /\ changes = Off
       /\ seen = Off /\ backup = Off /\ overwritten = Off /\ facts = Off
       /\ activity = Off /\ bench = Off /\ answered = Off /\ judged = Off
       /\ mem = Off /\ socket = Off /\ bundles = Off /\ buffer = Off
       /\ requested = Off /\ gate = Off /\ phase = Off /\ index = Off
       /\ shown = Off /\ promised = Off /\ crashes = Off /\ tampering = Off
    \/ /\ subject = "session" /\ SS!Init
       /\ job = Off /\ executing = Off /\ foreign = Off /\ pc = Off
       /\ ret = Off /\ op = Off /\ pending = Off /\ step = Off
       /\ cancelled = Off /\ token = Off /\ ses = Off /\ dev = Off
       /\ chip = Off /\ input = Off /\ failure = Off /\ pass = Off
       /\ data = Off /\ part = Off /\ changes = Off /\ seen = Off
       /\ backup = Off /\ overwritten = Off /\ strategy = Off /\ has = Off
       /\ call = Off /\ bad = Off /\ owed = Off /\ sent = Off /\ twice = Off
       /\ left = Off /\ mem = Off /\ socket = Off /\ bundles = Off
       /\ buffer = Off /\ requested = Off /\ gate = Off /\ phase = Off
       /\ index = Off /\ shown = Off /\ promised = Off /\ crashes = Off
       /\ tampering = Off
    \/ /\ subject = "smart" /\ SW!Init
       /\ executing = Off /\ foreign = Off /\ pc = Off /\ ret = Off
       /\ op = Off /\ pending = Off /\ step = Off /\ cancelled = Off
       /\ token = Off /\ ses = Off /\ dev = Off /\ chip = Off /\ input = Off
       /\ failure = Off /\ pass = Off /\ data = Off /\ part = Off
       /\ changes = Off /\ seen = Off /\ backup = Off /\ overwritten = Off
       /\ strategy = Off /\ has = Off /\ call = Off /\ bad = Off
       /\ sent = Off /\ twice = Off /\ left = Off /\ facts = Off
       /\ activity = Off /\ bench = Off /\ answered = Off /\ judged = Off

Next ==
    /\ UNCHANGED subject
    /\ \/ subject = "eeprom" /\ EE!Next /\ UNCHANGED notEEPROM
       \/ subject = "runner" /\ RR!Next /\ UNCHANGED notRunner
       \/ subject = "adapter" /\ AD!Next /\ UNCHANGED notAdapter
       \/ subject = "session" /\ SS!Next /\ UNCHANGED notSession
       \/ subject = "smart" /\ SW!Next /\ UNCHANGED notSmart

vars == <<subject, job, executing, foreign, pc, ret, op, pending, step, cancelled, token,
    ses, dev, chip, input, failure, pass, data, part, changes, seen,
    backup, overwritten, strategy, has, call, bad, owed, sent, twice,
    left, facts, activity, bench, answered, judged, mem, socket, bundles,
    buffer, requested, gate, phase, index, shown, promised, crashes,
    tampering>>

Spec == Init /\ [][Next]_vars

-----------------------------------------------------------------------------
(* An EEPROM that is reported safe is at rest and write-disabled for the    *)
(* next tool, a run that succeeded has put the patch into its pages and     *)
(* changed no other, and every run gives back bus, programmer and executor, *)
(* whichever call failed or raised; a page is written only over the         *)
(* snapshot the plan was made from (eepromengine.pas:470-838).             *)
EEPROMPromises ==
    subject = "eeprom" =>
        /\ EE!TypeOK /\ EE!SafeMeansDisarmed /\ EE!SuccessMeansWritten
        /\ EE!EverythingReleased /\ EE!WritesOverTheSnapshot

(* What is backed up, returned or written over is what every pass of the    *)
(* trusted read saw, although the part may be exchanged between the passes, *)
(* and a backup that is required comes before the write                     *)
(* (operationrunner.pas:172-485, writeworkflow.pas:170-199).                *)
TrustedReads ==
    subject = "runner" =>
        /\ RR!TypeOK /\ RR!BackupIsUnanimous /\ RR!WritesOverTheBackup
        /\ RR!ReadIsUnanimous /\ RR!Released

(* A bus that was stopped without a failure leaves the part in its own      *)
(* address mode and without its write latch, whichever transfer before it   *)
(* failed with its byte sent or not; no cleanup call is made twice or       *)
(* forgotten; the part is changed only behind the identity gate             *)
(* (spi25noradapter.pas:872-941, 1213-1241).                                *)
AdapterPaysOnce ==
    subject = "adapter" => AD!TypeOK /\ AD!LeftAsFound /\ AD!PaidOnce /\ AD!GateFirst

(* No fact of the session outlives the loss of its premise; another part      *)
(* that answers without a loss reported leaves preflight and arming as they   *)
(* are (sessionstate.pas:249-415).                                          *)
NothingIsStale == subject = "session" => SS!TypeOK /\ SS!NothingIsStale

(* Whenever a job has changed a part and has not come to its end, the files  *)
(* on the disk are enough to finish it (recoveryworkflow.pas:97-144).       *)
AlwaysRecoverable == subject = "smart" => SW!TypeOK /\ SW!AlwaysRecoverable

(* A run that succeeds leaves what was promised; a recovery, what the job it *)
(* takes up was to leave (recoveryworkflow.pas:160-223).                    *)
SuccessKeepsPromise == subject = "smart" => SW!SuccessKeepsPromise

(* Where a user is asked, only what was shown, for this part and content, is  *)
(* written; everywhere only to the part it was accepted for                 *)
(* (main.pas:15881-15908, writeworkflow.pas:63-80, 172-199).                *)
AcceptedWasShown == subject = "smart" => SW!AcceptedWasShown /\ SW!OwnChipOnly

(* The EEPROM run is the transaction its caller relies on                   *)
(* (DeviceTransaction); the other subjects leave the transaction alone.     *)
Eeprom(value, else) == IF subject = "eeprom" THEN value ELSE else
T == INSTANCE DeviceTransaction WITH
        Memory  <- [Pages -> EE!Cell],
        mem     <- Eeprom(chip.mem, [p \in Pages |-> "old"]),
        holds   <- Eeprom(EE!Holds, TRUE),
        busy    <- Eeprom(~EE!Idle, FALSE),
        outcome <- Eeprom(EE!SeenOutcome, "running")
IsTransaction == T!TSpec
=============================================================================
