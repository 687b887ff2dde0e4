------------------------------ MODULE MC_AVRISP ------------------------------
(* Instances of the AVRISP-MKII: four chips of serial memory, five AVRs.       *)
EXTENDS AVRISP

Socket(kind, size, page, min, active) ==
    [kind |-> kind, present |-> TRUE, prog |-> FALSE, busy |-> FALSE, size |-> size, page |-> page,
     min |-> min, active |-> active, ext |-> 0, command |-> "NOOP", fuse |-> 0,
     flash |-> [c \in 0 .. size - 1 |-> 0], eeprom |-> [c \in 0 .. 3 |-> 0],
     buf |-> [i \in 0 .. page |-> 0], tags |-> [i \in 0 .. 1 |-> -1],
     xparam |-> [nvmbase |-> 1, eepage |-> 2, cmdreg |-> 1, csrreg |-> 1]]
Bench(kind, t, sck, wait, select, reads) ==
    [kind |-> kind, t |-> t, sck |-> sck, wait |-> wait, select |-> select, reads |-> reads]
Serial == Socket("none", 1, 0, 0, "low")

MCSerial == {Bench("spi", Serial, 1, "delay", "low", FALSE),
             Bench("i2c", Serial, 1, "delay", "low", FALSE),
             Bench("mw", Serial, 1, "delay", "high", FALSE)}
MCBenches ==
    MCSerial \cup
    {Bench("isp", Socket("isp", 16, 4, 1, "low"), 1, w, "none", FALSE) : w \in {"delay", "value", "busy"}}
    \cup {Bench("isp", Socket("isp", 8, 0, 7, "high"), 20, w, "none", FALSE) : w \in {"value", "busy"}}
    \cup {Bench("xprog", Socket(k, 8, 4, 0, "low"), 6, "delay", "none", FALSE) : k \in {"pdi", "tpi"}}
MCReads == {Bench("i2c", Serial, 1, "delay", "low", TRUE)}
=============================================================================
