------------------------------ MODULE Devices -------------------------------
(* The programs that end at a chip, one of them in a behaviour, the subject:   *)
(* the firmware of the AVRISP-MKII with serial memories and AVRs, that of the *)
(* USBasp and that of the ASProg with sessions of each of their protocols,    *)
(* and the run of a SPI NAND job.  The variables of the others are Off.       *)
EXTENDS AVRISP
CONSTANTS
    Packet, CounterSize, UBSegment, Kinds, EepromSize, UBSizes,
    UBFaults, MaxWire, UBBenches,                                   \* of UB
    rchunk, wchunk, Modes, Writes, Reads, I2CWrites,
    MaxStalls, MaxDirty,                                            \* of AS
    NandBlock, NandPage, ImagePages, SilentFeatures, NandFaults,
    MarkerSets, Jobs,                                               \* of NE
    Blank, Spoilt, Noise, NoOp, NoResult, Old, NoMap, NoPlan, NoBackup

VARIABLES
    subject, usb, tx, rx,
    chip, before, markers, job, pc, at, blank, map, plan, reads, backup, ecc, session,
    report, asked
Off == 0

UB == INSTANCE USBasp WITH
        Segment <- UBSegment, Sizes <- UBSizes, MaxFaults <- UBFaults, Benches <- UBBenches
AS == INSTANCE ASProg
NE == INSTANCE NANDExecutor WITH Block <- NandBlock, Page <- NandPage, Faults <- NandFaults

ASSUME DevicesAssumption ==
    UB!USBaspAssumption /\ AS!ASProgAssumption /\ NE!NANDAssumption

-----------------------------------------------------------------------------
nandVars == <<chip, before, markers, job, pc, at, blank, map, plan, reads, backup, ecc, session,
    report, asked>>
NoNand ==
    /\ chip = Off /\ before = Off /\ markers = Off /\ job = Off /\ pc = Off /\ at = Off
    /\ blank = Off /\ map = Off /\ plan = Off /\ reads = Off /\ backup = Off /\ ecc = Off
    /\ session = Off /\ report = Off /\ asked = Off

DevicesInit ==
    \/ subject = "avrisp" /\ Init /\ usb = Off /\ tx = Off /\ rx = Off /\ NoNand
    \/ subject = "usbasp" /\ UB!Init /\ tx = Off /\ rx = Off /\ NoNand
    \/ subject = "asprog" /\ AS!Init /\ usb = Off /\ NoNand
    \/ /\ subject = "nand" /\ NE!Init
       /\ fw = Off /\ host = Off /\ usb = Off /\ tx = Off /\ rx = Off

DevicesNext ==
    /\ UNCHANGED subject
    /\ \/ subject = "avrisp" /\ Next /\ UNCHANGED <<usb, tx, rx, nandVars>>
       \/ subject = "usbasp" /\ UB!Next /\ UNCHANGED <<tx, rx, nandVars>>
       \/ subject = "asprog" /\ AS!Next /\ UNCHANGED <<usb, nandVars>>
       \/ subject = "nand" /\ NE!Next /\ UNCHANGED <<fw, host, usb, tx, rx>>

DevicesSpec ==
    DevicesInit /\ [][DevicesNext]_<<subject, fw, host, usb, tx, rx, nandVars>>

-----------------------------------------------------------------------------
(* USBasp: a call that went well was one frame of the chip, from its first   *)
(* byte and with nothing of a transfer given up before in it, the chip is     *)
(* released where the host asked for it, and no state of a hook leaves a      *)
(* transfer without an end (main.c:67-588, usbdrv.c).                       *)
FrameIsWhole == subject = "usbasp" => UB!BusSawTheCall /\ UB!NoTransferHangs

(* USBasp: the bytes a call gives are those of the chip, and an AVR or its    *)
(* EEPROM written block by block without an error holds the image, whatever  *)
(* the page size and across extended addresses (main.c:436-588, isp.c).     *)
MemoryIsTrue == subject = "usbasp" => UB!ReadsAreTrue /\ UB!WrittenIsWritten

(* ASProg: over all its blocks, a call of a session whose host never stood    *)
(* still is one frame on the bus and leaves the line in step; and wherever a  *)
(* host stood still, the firmware gives the chip back (spi_cmd.cpp, i2c_cmd.cpp, *)
(* mw_cmd.cpp, arduinohw.pas).                                             *)
BlocksAreOneFrame == subject = "asprog" => AS!BusSawTheCall /\ AS!SelectIsMeant

(* AVRISP: a call of a host none of whose sessions died is on the bus exactly *)
(* the frame that it stands for, over all its packets and commands           *)
(* (spi25.c, I2c.c, microwire.c).                                           *)
CallIsOneFrame == subject = "avrisp" => BusSawTheCall

(* AVRISP: a command is answered by its own answer, also after transfers that *)
(* broke off and answers nobody read (V2Protocol.c).                        *)
EachItsAnswer == subject = "avrisp" => AnswersInStep

(* AVRISP: an answer that says OK carries what the target holds, and after    *)
(* the last block the flash is the image (ISPProtocol.c, XPROGProtocol.c).  *)
OkIsTrue == subject = "avrisp" => AnswersAreTrue

(* AVRISP: a session that ended leaves the target alone, only a target pulled *)
(* out keeps the programmer for ever, and the speed a host asked for stays    *)
(* over sessions and a loss of power (ISPTarget.c:174-189,                  *)
(* V2ProtocolParams.c:169).                                                 *)
SessionsEndClean == subject = "avrisp" => LeavesClean /\ SpeedIsKept

(* A NAND write that succeeded has left the image in the blocks of its plan,   *)
(* read back page by page (nandengine.pas, cli.pas:1295-1560).               *)
SuccessMeansWritten == subject = "nand" => NE!SuccessMeansWritten

(* An operator's stop leaves no block half done (nandengine.pas).              *)
CancelledLeavesWholeBlocks == subject = "nand" => NE!CancelledLeavesWholeBlocks

(* What a job must never lose: the marker of a block that the factory        *)
(* rejected, and a page that no published backup holds (nandengine.pas:435, *)
(* cli.pas:1295).                                                           *)
NothingIsLost == subject = "nand" => NE!MarkedUntouched /\ NE!BackupBeforeChange

(* The registers are touched only while the array is at rest, and what the   *)
(* report says of array, registers and latch is so                          *)
(* (nandengine.pas:299-391).                                                *)
CleanupIsTrue ==
    subject = "nand" => NE!TypeOK /\ NE!RestoreOnlyWhenIdle /\ NE!ReportIsTrue
=============================================================================
