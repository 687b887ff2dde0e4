---------------------------- MODULE XPROGProtocol ----------------------------
(***************************************************************************)
(* Programming over PDI and TPI with the AVRISP-MKII: XPROGTarget.c, the two   *)
(* NVM controllers' drivers XMEGANVM.c and TINYNVM.c, and XPROGProtocol.c.     *)
(* Bytes on the target's link are left out: a driver's exchange is what it     *)
(* makes the controller do.  An address is a memory and a place in it.        *)
(***************************************************************************)
EXTENDS ISPProtocol

Untagged == -1              \* a place of the EEPROM's page buffer that nothing loaded

-----------------------------------------------------------------------------
(* The target (external).  command is the NVM command register; a controller   *)
(* that is busy takes nothing; xparam are its registers' places.             *)
Memory(t, space) == CASE space = "flash" -> t.flash [] space = "eeprom" -> t.eeprom
EepromLength(t) == Cardinality(DOMAIN t.eeprom)
NoTags(t) == [i \in 0 .. t.xparam["eepage"] - 1 |-> Untagged]
ErasedAt(memory, cells) == [c \in DOMAIN memory |-> IF c \in cells THEN Erased ELSE memory[c]]
FlashPage(t, at) == {c \in DOMAIN t.flash : c \div t.page = at \div t.page}
EepromPage(t, at) == {c \in DOMAIN t.eeprom :
                        c \div t.xparam["eepage"] = at \div t.xparam["eepage"]}
Tag(t, c) == t.tags[c % t.xparam["eepage"]]

Executed(t) ==
    CASE t.command = "CHIPERASE" ->
            [t EXCEPT !.flash = ErasedAt(@, DOMAIN @), !.eeprom = ErasedAt(@, DOMAIN @), !.busy = TRUE]
      [] t.command = "ERASEFLASHPAGEBUFF" -> [t EXCEPT !.buf = EmptyPage(t), !.busy = TRUE]
      [] t.command = "ERASEEEPROMPAGEBUFF" -> [t EXCEPT !.tags = NoTags(t), !.busy = TRUE]
      [] t.command = "ERASEEEPROM" ->
            [t EXCEPT !.eeprom = ErasedAt(@, {c \in DOMAIN @ : Tag(t, c) # Untagged}),
                      !.tags = NoTags(t), !.busy = TRUE]
      [] t.command \in {"APPCRC", "BOOTCRC", "FLASHCRC"} -> [t EXCEPT !.busy = TRUE]
      [] OTHER -> t

StoredAt(t, at, byte) ==
    CASE t.command = "LOADFLASHPAGEBUFF" -> [t EXCEPT !.buf[at % t.page] = byte]
      [] t.command = "LOADEEPROMPAGEBUFF" -> [t EXCEPT !.tags[at % t.xparam["eepage"]] = byte]
      [] t.command \in {"WRITEFLASHPAGE", "WRITEAPPSECPAGE", "WRITEBOOTSECPAGE"} ->
            [t EXCEPT !.busy = TRUE, !.buf = EmptyPage(t),
                      !.flash = [c \in DOMAIN @ |-> IF c \in FlashPage(t, at)
                                    THEN Programmed(@[c], t.buf[c % t.page]) ELSE @[c]]]
      [] t.command = "ERASEWRITEEEPROMPAGE" ->
            [t EXCEPT !.busy = TRUE, !.tags = NoTags(t),
                      !.eeprom = [c \in DOMAIN @ |-> IF c \in EepromPage(t, at) /\ Tag(t, c) # Untagged
                                    THEN Tag(t, c) ELSE @[c]]]
      [] t.command = "ERASEEEPROMPAGE" ->
            [t EXCEPT !.busy = TRUE, !.tags = NoTags(t),
                      !.eeprom = ErasedAt(@, {c \in EepromPage(t, at) : Tag(t, c) # Untagged})]
      [] t.command \in {"ERASEAPPSECPAGE", "ERASEBOOTSECPAGE"} ->
            [t EXCEPT !.busy = TRUE, !.flash = ErasedAt(@, FlashPage(t, at))]
      [] t.command \in {"ERASEAPPSEC", "ERASEBOOTSEC", "TINYCHIPERASE", "SECTIONERASE"} ->
            [t EXCEPT !.busy = TRUE, !.flash = ErasedAt(@, DOMAIN @)]
      [] t.command = "WORDWRITE" ->
            [t EXCEPT !.busy = Odd(at), !.flash[at % t.size] = Programmed(@, byte)]
      [] t.command = "WRITEFUSE" -> [t EXCEPT !.fuse = byte, !.busy = TRUE]
      [] OTHER -> t

-----------------------------------------------------------------------------
(* XPROGTarget.c.  Without a clock on XCK neither direction of the USART ends. *)
Talks(m) == m.t.present /\ m.t.prog /\ m.usart = "target"
Right(m) == IF m.xmode = "pdi" THEN m.xparam["nvmbase"] = m.t.xparam["nvmbase"]
            ELSE /\ m.xparam["cmdreg"] = m.t.xparam["cmdreg"]
                 /\ m.xparam["csrreg"] = m.t.xparam["csrreg"]
XPROGTarget_SendByte(m) == [m EXCEPT !.hung = @ \/ m.usart = "off"]
XPROGTarget_ReceiveByte(m) ==
    [XPROGTarget_SendByte(m) EXCEPT !.ticks = IF Talks(m) THEN @ ELSE 0]
Enabled(m, kind) == [m EXCEPT !.usart = "target", !.t.prog = m.t.present /\ m.t.kind = kind]
XPROGTarget_EnableTargetPDI(m) == Enabled(m, "pdi")
XPROGTarget_EnableTargetTPI(m) == Enabled(SPI_Set_CS(m, "low"), "tpi")
XPROGTarget_DisableTargetPDI(m) == [m EXCEPT !.usart = "off"]
XPROGTarget_DisableTargetTPI(m) == Float([m EXCEPT !.usart = "off"])

(* What the drivers do with the controller.                                  *)
NVM(m) == Talks(m) /\ Right(m) /\ ~m.t.busy
Command(m, c) == IF NVM(m) THEN [XPROGTarget_SendByte(m) EXCEPT !.t.command = c]
                 ELSE XPROGTarget_SendByte(m)
Execute(m) == IF NVM(m) THEN [m EXCEPT !.t = Executed(@)] ELSE m
Store(m, at, byte) == IF NVM(m) THEN [m EXCEPT !.t = StoredAt(@, at, byte)] ELSE m
StoreAll(m, at, data) ==
    FoldLeft(LAMBDA u, i : Store(u, at + i - 1, data[i]), m, Times(Len(data)))
LoadAll(m, addr, n) ==
    LET memory == Memory(m.t, addr.space)
    IN  [i \in 1 .. n |-> IF NVM(m) THEN memory[(addr.at + i - 1) % Cardinality(DOMAIN memory)]
                                    ELSE Junk]

(* The two waits: ok is FALSE when the time limit ended them.                 *)
Within(m) == [m |-> m, ok |-> m.ticks > 0]
WaitWhileNVMBusBusy(m) == Within(XPROGTarget_ReceiveByte(m))
WaitWhileNVMControllerBusy(m) ==
    LET s == XPROGTarget_ReceiveByte(m)
    IN  Within([s EXCEPT !.t.busy = @ /\ ~(Talks(s) /\ Right(s))])

-----------------------------------------------------------------------------
(* XMEGANVM.c.  A step after a wait that failed finds nobody who hears it, so   *)
(* that leaving early and going on come to the same.                         *)
XMEGANVM_EnablePDI(m) == WaitWhileNVMBusBusy(XPROGTarget_EnableTargetPDI(m))

(* The reset register is read back until it is 0: with nobody there the read    *)
(* gives what the USART holds, and luck says whether that is ever 0.          *)
Release(m) ==
    LET s == WaitWhileNVMBusBusy(m).m
    IN  [s EXCEPT !.t.prog = FALSE, !.t.busy = FALSE, !.hung = @ \/ (~Talks(s) /\ ~s.luck)]
XMEGANVM_DisablePDI(m) == XPROGTarget_DisableTargetPDI(Release(m))

XMEGANVM_GetMemoryCRC(m, crc) ==
    LET started == Execute(Command(WaitWhileNVMControllerBusy(m).m, crc))
        end == WaitWhileNVMControllerBusy(WaitWhileNVMBusBusy(started).m)
    IN  [m |-> end.m, ok |-> end.ok,
         data |-> LoadAll(end.m, [space |-> "flash", at |-> 0], m.t.size)]

XMEGANVM_ReadMemory(m, addr, n) ==
    LET end == WaitWhileNVMControllerBusy(m)
    IN  [m |-> Command(end.m, "READNVM"), ok |-> end.ok, data |-> LoadAll(end.m, addr, n)]

XMEGANVM_WriteByteMemory(m, write, at, byte) ==
    LET w == WaitWhileNVMControllerBusy(m)
    IN  [w EXCEPT !.m = Store(Command(@, write), at, byte)]

(* What if the page were written while its buffer is still being erased?      *)
XMEGANVM_WritePageMemoryNow(m, c, mode, at, data) ==
    LET erase == IF "erase" \in mode THEN Execute(Command(WaitWhileNVMControllerBusy(m).m, c.erase))
                 ELSE m
        load == IF data # << >> THEN StoreAll(Command(erase, c.load), at, data) ELSE erase
    IN  Within(IF "write" \in mode
               THEN Store(Command(WaitWhileNVMControllerBusy(load).m, c.write), at, 0) ELSE load)
XMEGANVM_WritePageMemory(m, c, mode, at, data) ==
    LET erase == IF "erase" \in mode THEN Execute(Command(WaitWhileNVMControllerBusy(m).m, c.erase))
                 ELSE m
        load == IF data # << >>
                THEN StoreAll(Command(WaitWhileNVMControllerBusy(erase).m, c.load), at, data)
                ELSE erase
    IN  Within(IF "write" \in mode
               THEN Store(Command(WaitWhileNVMControllerBusy(load).m, c.write), at, 0) ELSE load)

(* Erasing the EEPROM erases the places that are tagged, in all its pages.     *)
EraseEeprom(m, at) ==
    LET blank == Execute(Command(m, "ERASEEEPROMPAGEBUFF"))
        tagged == StoreAll(Command(WaitWhileNVMControllerBusy(blank).m, "LOADEEPROMPAGEBUFF"), at,
                           [i \in 1 .. m.xparam["eepage"] |-> 0])
    IN  Execute(Command(tagged, "ERASEEEPROM"))
XMEGANVM_EraseMemory(m, erase, at) ==
    LET s == WaitWhileNVMControllerBusy(m).m
    IN  WaitWhileNVMBusBusy(CASE erase = "CHIPERASE"   -> Execute(Command(s, erase))
                              [] erase = "ERASEEEPROM" -> EraseEeprom(s, at)
                              [] OTHER                 -> Store(Command(s, erase), at, 0))

-----------------------------------------------------------------------------
(* TINYNVM.c                                                                *)
TINYNVM_EnableTPI(m) == WaitWhileNVMBusBusy(XPROGTarget_EnableTargetTPI(m))
TINYNVM_DisableTPI(m) == XPROGTarget_DisableTargetTPI(Release(m))

TINYNVM_ReadMemory(m, addr, n) ==
    LET end == WaitWhileNVMControllerBusy(m)
    IN  [m |-> Command(end.m, "NOOP"), ok |-> end.ok, data |-> LoadAll(end.m, addr, n)]

(* A word at a time, each after its own wait; the missing half of the last one *)
(* is 0xFF.                                                                *)
TINYNVM_WriteMemory(m, at, data) ==
    LET words == IF Odd(Len(data)) THEN Append(data, Erased) ELSE data
        begin == Command(WaitWhileNVMControllerBusy(m).m, "WORDWRITE")
        Word(u, k) == Store(Store(WaitWhileNVMControllerBusy(u).m, at + 2 * k - 2, words[2 * k - 1]),
                            at + 2 * k - 1, words[2 * k])
    IN  Within(FoldLeft(Word, begin, Times(Len(words) \div 2)))

TINYNVM_EraseMemory(m, erase, at) ==
    WaitWhileNVMControllerBusy(
        Store(Command(WaitWhileNVMControllerBusy(m).m, erase), 2 * (at \div 2) + 1, 0))

-----------------------------------------------------------------------------
(* XPROGProtocol.c.  XPROG_SelectedProtocol is xmode: pdi, tpi or jtag.        *)
Done(m, r, status, data) == Answer(m, r.x, status, data)
Verdict(s) == IF s.ok THEN "XPROG_ERR_OK" ELSE "XPROG_ERR_TIMEOUT"

XPROGProtocol_SetMode(m, r) ==
    Acknowledge([Endpoint_ClearOUT(m) EXCEPT !.xmode = r.mode], r.cmd,
                IF r.mode # "jtag" THEN OK ELSE "STATUS_CMD_FAILED")

XPROGProtocol_EnterXPROGMode(m, r) ==
    LET s == Endpoint_ClearOUT(m)
        bus == CASE m.xmode = "pdi"  -> XMEGANVM_EnablePDI(s)
                 [] m.xmode = "tpi"  -> TINYNVM_EnableTPI(s)
                 [] m.xmode = "jtag" -> [m |-> s, ok |-> FALSE]
    IN  Done(bus.m, r, IF bus.ok THEN "XPROG_ERR_OK" ELSE "XPROG_ERR_FAILED", << >>)

(* What if the rescue clock stayed off?                                      *)
XPROGProtocol_LeaveSilent(m, r) ==
    LET s == Endpoint_ClearOUT(m)
    IN  Done(IF m.xmode = "pdi" THEN XMEGANVM_DisablePDI(s) ELSE TINYNVM_DisableTPI(s),
             r, "XPROG_ERR_OK", << >>)
XPROGProtocol_LeaveXPROGMode(m, r) ==
    LET s == Endpoint_ClearOUT(m)
        off == IF m.xmode = "pdi" THEN XMEGANVM_DisablePDI(s) ELSE TINYNVM_DisableTPI(s)
    IN  Done(ISPTarget_ConfigureRescueClock(off), r, "XPROG_ERR_OK", << >>)

EraseCommand(memory) ==
    CASE memory = "chip"       -> "CHIPERASE"
      [] memory = "app"        -> "ERASEAPPSEC"
      [] memory = "boot"       -> "ERASEBOOTSEC"
      [] memory = "eeprom"     -> "ERASEEEPROM"
      [] memory = "app page"   -> "ERASEAPPSECPAGE"
      [] memory = "boot page"  -> "ERASEBOOTSECPAGE"
      [] memory = "eeprom page" -> "ERASEEEPROMPAGE"
      [] memory = "usersig"    -> "ERASEUSERSIG"
      [] OTHER                 -> "NOOP"
XPROGProtocol_Erase(m, r) ==
    LET s == Endpoint_ClearOUT(m)
        end == IF m.xmode = "pdi" THEN XMEGANVM_EraseMemory(s, EraseCommand(r.memory), r.at)
               ELSE TINYNVM_EraseMemory(s, IF r.memory = "chip" THEN "TINYCHIPERASE"
                                           ELSE "SECTIONERASE", r.at)
    IN  Done(end.m, r, Verdict(end), << >>)

WriteCommands(memory) ==
    [write |-> CASE memory = "appl"     -> "WRITEAPPSECPAGE"
                 [] memory = "boot"     -> "WRITEBOOTSECPAGE"
                 [] memory = "eeprom"   -> "ERASEWRITEEEPROMPAGE"
                 [] memory = "usersig"  -> "WRITEUSERSIG"
                 [] memory = "fuse"     -> "WRITEFUSE"
                 [] memory = "lockbits" -> "WRITELOCK"
                 [] OTHER               -> "WRITEFLASHPAGE",
     load  |-> IF memory = "eeprom" THEN "LOADEEPROMPAGEBUFF" ELSE "LOADFLASHPAGEBUFF",
     erase |-> IF memory = "eeprom" THEN "ERASEEEPROMPAGEBUFF" ELSE "ERASEFLASHPAGEBUFF"]
XPROGProtocol_WriteMemory(m, r) ==
    LET t == Endpoint_Read_Stream(m, r.n)
        s == DiscardZlp(t.m, r.n)
        c == WriteCommands(r.memory)
        end == CASE m.xmode # "pdi" -> TINYNVM_WriteMemory(s, r.at, t.data)
                 [] m.xmode = "pdi" /\ r.memory \notin {"fuse", "lockbits"} ->
                        XMEGANVM_WritePageMemory(s, c, r.pages, r.at, t.data)
                 [] m.xmode = "pdi" /\ r.memory \in {"fuse", "lockbits"} ->
                        XMEGANVM_WriteByteMemory(s, c.write, r.at, t.data[1])
    IN  Done(end.m, r, Verdict(end), << >>)

XPROGProtocol_ReadMemory(m, r) ==
    LET s == Endpoint_ClearOUT(m)
        addr == [space |-> IF r.memory = "eeprom" THEN "eeprom" ELSE "flash", at |-> r.at]
        end == IF m.xmode = "pdi" THEN XMEGANVM_ReadMemory(s, addr, r.n)
               ELSE TINYNVM_ReadMemory(s, addr, r.n)
    IN  Done(end.m, r, Verdict(end), IF end.ok THEN end.data ELSE << >>)

XPROGProtocol_ReadCRC(m, r) ==
    LET s == Endpoint_ClearOUT(m)
        crc == CASE r.memory = "app" -> "APPCRC" [] r.memory = "boot" -> "BOOTCRC"
                 [] OTHER -> "FLASHCRC"
        end == XMEGANVM_GetMemoryCRC(s, crc)
    IN  IF m.xmode # "pdi" THEN Done(s, r, "XPROG_ERR_FAILED", << >>)
        ELSE Done(end.m, r, Verdict(end), IF end.ok THEN end.data ELSE << >>)

XPROGProtocol_SetParam(m, r) ==
    LET s == Endpoint_ClearOUT(m)
        known == r.param \in DOMAIN m.xparam
    IN  Done(IF known THEN [s EXCEPT !.xparam[r.param] = r.value] ELSE s, r,
             IF known \/ r.param = "unknown 1" THEN "XPROG_ERR_OK" ELSE "XPROG_ERR_FAILED", << >>)

(* A command of none of these kinds is not answered, nor is its packet freed.  *)
XPROGProtocol_Command(m, r) ==
    CASE r.x = "ENTER_PROGMODE" -> XPROGProtocol_EnterXPROGMode(m, r)
      [] r.x = "LEAVE_PROGMODE" -> XPROGProtocol_LeaveXPROGMode(m, r)
      [] r.x = "ERASE"          -> XPROGProtocol_Erase(m, r)
      [] r.x = "WRITE_MEM"      -> XPROGProtocol_WriteMemory(m, r)
      [] r.x = "READ_MEM"       -> XPROGProtocol_ReadMemory(m, r)
      [] r.x = "CRC"            -> XPROGProtocol_ReadCRC(m, r)
      [] r.x = "SET_PARAM"      -> XPROGProtocol_SetParam(m, r)
      [] OTHER                  -> m
=============================================================================
