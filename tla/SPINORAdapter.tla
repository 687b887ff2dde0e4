--------------------------- MODULE SPINORAdapter ---------------------------
(***************************************************************************)
(* The life cycle of TSPI25NORAdapter (spi25noradapter.pas): what it owes  *)
(* the part and the programmer, and how it pays once.  Callers may call    *)
(* anything at any time; a transfer that failed or raised leaves open      *)
(* whether its byte reached the part.                                      *)
(***************************************************************************)
EXTENDS Naturals

CONSTANT Strategies \* of FConfig, a subset of Strategy

(* sam3Byte, and the ways into the four-byte mode (TSPI25FourByteStrategy). *)
Strategy == {"threeByte", "native", "enterB7", "wrenB7"}
AdapterAssumption == Strategies \subseteq Strategy

VARIABLES
    strategy,
    has,        \* FOpened, FBusActive, FInitialized, FIdentityGatePassed,
                \* FFourByteModeActive, FWriteEnableMayBeSet
    pc, call,   \* the next transfer, and the method that makes it
    bad,        \* a cleanup transfer of this call failed
    part,       \* four: its address mode, wel: its latch, busy
    owed,       \* history: the calls the programmer waits for
    sent,       \* history: the cleanup calls of this session
    twice,      \* history: one of them was made again
    left        \* history: every StopBus so far succeeded, and met an idle part

vars == <<strategy, has, pc, call, bad, part, owed, sent, twice, left>>

Unused == [opened |-> FALSE, bus |-> FALSE, inited |-> FALSE, gate |-> FALSE,
           four |-> FALSE, wel |-> FALSE]

Init ==
    /\ strategy \in Strategies
    /\ has = Unused /\ pc = "idle" /\ call = "none" /\ bad = FALSE
    /\ part = [four |-> FALSE, wel |-> FALSE, busy |-> FALSE]
    /\ owed = {} /\ sent = {} /\ twice = FALSE /\ left = [ok |-> TRUE, idle |-> TRUE]

-----------------------------------------------------------------------------
(* What the part makes of an opcode; a busy one takes none.  Parts of the   *)
(* wrenB7 kind change their mode only behind the latch, and drop it.       *)
Takes(opcode) ==
    LET moves == opcode \in {"B7", "E9"} /\ (strategy = "wrenB7" => part.wel)
    IN  IF part.busy THEN part ELSE
        [four |-> IF moves THEN opcode = "B7" ELSE part.four,
         wel  |-> \/ opcode = "WREN"
                  \/ part.wel /\ opcode # "WRDI" /\ ~(moves /\ strategy = "wrenB7"),
         busy |-> FALSE]

Sent(opcode) == part' = Takes(opcode)
Doubtful(opcode) == part' \in {part, Takes(opcode)}

Owes(k) == owed' = owed \cup {k}
Pays(k) ==
    /\ sent' = sent \cup {k}
    /\ twice' = (twice \/ k \in sent)

Opening ==
    /\ pc = "idle" /\ ~has.opened
    /\ \/ has' = [Unused EXCEPT !.opened = TRUE] /\ Owes("DevClose") /\ sent' = {}
       \/ UNCHANGED <<has, owed, sent>>
    /\ UNCHANGED <<strategy, pc, call, bad, part, twice, left>>

-----------------------------------------------------------------------------
(* Initialize: the flag goes up before the call it stands for.             *)
Initialize ==
    /\ pc = "idle" /\ has.opened /\ ~has.bus /\ ~has.inited
    /\ has' = [has EXCEPT !.bus = TRUE]
    /\ Owes("SPIDeinit")
    /\ sent' = {}
    /\ call' = "initialize" /\ bad' = FALSE
    /\ pc' \in {"identity", "stop"}                 \* SPIInit, and ABh
    /\ UNCHANGED <<strategy, part, twice, left>>

(* Mutant: the obligation is taken on when the transfer has succeeded.     *)
OwnWhenSure(flag, ok) == has' = [has EXCEPT ![flag] = ok]

Own(flag, ok) == has' = [has EXCEPT ![flag] = TRUE]

(* CheckIdentity: a busy part or a missing one does not pass.              *)
CheckIdentity ==
    /\ pc = "identity"
    /\ \/ /\ ~part.busy
          /\ has' = [has EXCEPT !.gate = TRUE]
          /\ pc' = IF strategy = "wrenB7" THEN "enterWren"
                   ELSE IF strategy = "enterB7" THEN "enter" ELSE "ready"
       \/ has' = [has EXCEPT !.gate = FALSE] /\ pc' = "stop"
    /\ UNCHANGED <<strategy, call, bad, part, owed, sent, twice, left>>

(* EnterConfiguredAddressMode.                                             *)
Enter(at, opcode, flag, next) ==
    /\ pc = at
    /\ \/ Sent(opcode) /\ Own(flag, TRUE) /\ pc' = next
       \/ Doubtful(opcode) /\ Own(flag, FALSE) /\ pc' = "stop"
    /\ UNCHANGED <<strategy, call, bad, owed, sent, twice, left>>

Ready ==
    /\ pc = "ready"
    /\ has' = [has EXCEPT !.inited = TRUE]
    /\ pc' = "idle" /\ call' = "none"
    /\ UNCHANGED <<strategy, bad, part, owed, sent, twice, left>>

-----------------------------------------------------------------------------
(* The calls of a run.  Erase and ProgramPage take the latch to work.      *)
WriteEnable ==
    /\ pc = "idle" /\ has.inited /\ has.gate
    /\ has' = [has EXCEPT !.wel = TRUE]
    /\ Doubtful("WREN")
    /\ UNCHANGED <<strategy, pc, call, bad, owed, sent, twice, left>>

WriteDisable ==
    /\ pc = "idle" /\ has.inited
    /\ \/ Sent("WRDI") /\ has' = [has EXCEPT !.wel = FALSE]
       \/ Doubtful("WRDI") /\ UNCHANGED has
    /\ UNCHANGED <<strategy, pc, call, bad, owed, sent, twice, left>>

Mutate ==
    /\ pc = "idle" /\ has.inited /\ has.gate
    /\ part' = [part EXCEPT !.busy = @ \/ part.wel]
    /\ UNCHANGED <<strategy, has, pc, call, bad, owed, sent, twice, left>>

Settles ==
    /\ part.busy
    /\ part' = [part EXCEPT !.busy = FALSE, !.wel = FALSE]
    /\ UNCHANGED <<strategy, has, pc, call, bad, owed, sent, twice, left>>

-----------------------------------------------------------------------------
(* Deinitialize, Close and the destructor.                                 *)
End(method) ==
    /\ pc = "idle"
    /\ has.opened \/ method = "destroy"
    /\ has.bus \/ method # "deinitialize"
    /\ call' = method /\ bad' = FALSE
    /\ pc' = IF has.bus THEN "stop" ELSE "close"
    /\ UNCHANGED <<strategy, has, part, owed, sent, twice, left>>

(* Mutant: E9h without the latch, as for the other parts.                  *)
ExitBare == "exit"

ExitFirst == IF strategy = "wrenB7" THEN "exitWren" ELSE "exit"

(* StopBus: every flag goes down before the call that pays it.             *)
StopBus ==
    /\ pc = "stop"
    /\ has' = [has EXCEPT !.inited = FALSE, !.gate = FALSE, !.four = FALSE]
    /\ pc' = IF has.four THEN ExitFirst ELSE "disable"
    /\ left' = [left EXCEPT !.idle = @ /\ ~part.busy]
    /\ UNCHANGED <<strategy, call, bad, part, owed, sent, twice>>

ExitWren ==
    /\ pc = "exitWren"
    /\ has' = [has EXCEPT !.wel = TRUE]
    /\ \/ Sent("WREN") /\ pc' = "exit" /\ UNCHANGED bad
       \/ Doubtful("WREN") /\ pc' = "disable" /\ bad' = TRUE
    /\ UNCHANGED <<strategy, call, owed, sent, twice, left>>

Exit ==
    /\ pc = "exit"
    /\ Pays("E9")
    /\ \/ Sent("E9") /\ UNCHANGED bad
       \/ Doubtful("E9") /\ bad' = TRUE
    /\ pc' = "disable"
    /\ UNCHANGED <<strategy, has, call, owed, left>>

Disable ==
    /\ pc = "disable"
    /\ IF has.wel
       THEN /\ has' = [has EXCEPT !.wel = FALSE]
            /\ Pays("WRDI")
            /\ \/ Sent("WRDI") /\ UNCHANGED bad
               \/ Doubtful("WRDI") /\ bad' = TRUE
       ELSE UNCHANGED <<has, sent, twice, part, bad>>
    /\ pc' = "deinit"
    /\ UNCHANGED <<strategy, call, owed, left>>

(* Mutant: the bus stays the adapter's when its release raises.            *)
KeepUntilSure(ok) == has' = [has EXCEPT !.bus = ~ok]

LetGo(ok) == has' = [has EXCEPT !.bus = FALSE]

(* SPIDeinit is made whether it raises or not.                             *)
Deinit ==
    /\ pc = "deinit"
    /\ Pays("SPIDeinit")
    /\ owed' = owed \ {"SPIDeinit"}
    /\ \E ok \in BOOLEAN :
          /\ LetGo(ok)
          /\ left' = [left EXCEPT !.ok = @ /\ ok /\ ~bad]
    /\ pc' = IF call \in {"close", "destroy"} THEN "close" ELSE "idle"
    /\ call' = IF call \in {"close", "destroy"} THEN call ELSE "none"
    /\ UNCHANGED <<strategy, bad, part>>

Close ==
    /\ pc = "close"
    /\ IF has.opened
       THEN /\ Pays("DevClose")
            /\ owed' = owed \ {"DevClose"}
       ELSE UNCHANGED <<sent, twice, owed>>
    /\ has' = [has EXCEPT !.opened = FALSE]
    /\ pc' = IF call = "destroy" THEN "gone" ELSE "idle"
    /\ call' = "none"
    /\ UNCHANGED <<strategy, bad, part, left>>

Next ==
    \/ Opening \/ Initialize \/ CheckIdentity
    \/ Enter("enterWren", "WREN", "wel", "enter") \/ Enter("enter", "B7", "four", "ready")
    \/ Ready \/ WriteEnable \/ WriteDisable \/ Mutate \/ Settles
    \/ End("deinitialize") \/ End("close") \/ End("destroy")
    \/ StopBus \/ ExitWren \/ Exit \/ Disable \/ Deinit \/ Close

Spec == Init /\ [][Next]_vars

-----------------------------------------------------------------------------
TypeOK ==
    /\ strategy \in Strategies /\ bad \in BOOLEAN /\ twice \in BOOLEAN
    /\ has \in [opened : BOOLEAN, bus : BOOLEAN, inited : BOOLEAN, gate : BOOLEAN,
                four : BOOLEAN, wel : BOOLEAN]
    /\ part \in [four : BOOLEAN, wel : BOOLEAN, busy : BOOLEAN]
    /\ left \in [ok : BOOLEAN, idle : BOOLEAN]
    /\ owed \subseteq {"SPIDeinit", "DevClose"}
    /\ sent \subseteq {"E9", "WRDI", "SPIDeinit", "DevClose"}

(* As long as every bus was stopped without a failure, and on a part at     *)
(* rest, a stopped bus leaves the part in its own address mode and without  *)
(* its write latch, whichever of the transfers before it went wrong.       *)
LeftAsFound == left.ok /\ left.idle /\ ~has.bus => ~part.four /\ ~part.wel

(* No cleanup call is ever made twice in a session, nor forgotten by a      *)
(* closed adapter or a destroyed one.                                      *)
PaidOnce ==
    /\ ~twice
    /\ pc = "idle" /\ ~has.opened => owed = {}
    /\ pc = "gone" => owed = {}

(* A part is changed only behind the identity gate of this session.        *)
GateFirst == has.inited => has.bus /\ has.gate
=============================================================================
