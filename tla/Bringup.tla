------------------------------ MODULE Bringup ------------------------------
(***************************************************************************)
(* How the drivers come up and go: init acquires what the devices share,   *)
(* then the resources of one device after the other.  Any step may fail,   *)
(* and then the chain of labels of the setup function, the cleanup of the  *)
(* devices before the failed one and the labels of init release what there *)
(* is; exit releases everything.  A driver is a table of these sequences,  *)
(* each as its functions name them; the actions follow the table.          *)
(*    once, each, final  acquired once, per device, per device at the end  *)
(*    undo               what is released when the step fails, in order    *)
(*    cleanup, down      what is released per device, and at the very end  *)
(*    sure               steps that cannot fail                            *)
(*    lies               steps whose failure leaves init with err >= 0     *)
(*    needs              <<a, b>>: who uses resource a uses resource b     *)
(*    leaks              what some path leaves, or what goes by itself        *)
(***************************************************************************)
EXTENDS Integers, Sequences, SequencesExt

CONSTANT BuDevices   \* the largest number of devices a driver is loaded with

ASSUME BringupAssumption == BuDevices \in Nat \ {0}

VARIABLE bu   \* the driver being loaded or removed, see BuInit

-----------------------------------------------------------------------------
(* The drivers.                                                            *)

\* add_disk comes for all disks at the end, and the cleanup is the same before and
\* after it; nothing puts the disks.
VirtblockTable ==
    [once |-> <<"mem", "major">>, each |-> <<"data", "queue", "disk">>,
     undo |-> [mem |-> << >>, major |-> <<"mem">>, data |-> << >>, queue |-> <<"data">>,
               disk |-> <<"queue", "data">>],
     cleanup |-> <<"added", "queue", "data">>, down |-> <<"major", "mem">>,
     final |-> <<"added">>, sure |-> {"added"}, lies |-> {}, leaks |-> {"disk"},
     needs |-> {<<"added", "disk">>, <<"added", "queue">>, <<"queue", "data">>}]

\* rtc-jiffies.
RtcTable ==
    [once |-> <<"mem", "class">>, each |-> <<"dev", "rtc">>,
     undo |-> [mem |-> << >>, class |-> <<"mem">>, dev |-> << >>, rtc |-> <<"dev">>],
     cleanup |-> <<"rtc", "dev">>, down |-> <<"class", "mem">>,
     final |-> << >>, sure |-> {}, lies |-> {}, leaks |-> {},
     needs |-> {<<"rtc", "dev">>}]

\* The device's firmware file is there as soon as the device is, the firmware is not.
FirmreqTable ==
    [once |-> <<"mem", "class">>, each |-> <<"dev", "fw">>,
     undo |-> [mem |-> << >>, class |-> <<"mem">>, dev |-> << >>, fw |-> <<"dev">>],
     cleanup |-> <<"fw", "dev">>, down |-> <<"class", "mem">>,
     final |-> << >>, sure |-> {}, lies |-> {}, leaks |-> {},
     needs |-> {<<"dev", "fw">>}]

SimpleattrTable ==
    [once |-> <<"mem", "class">>, each |-> <<"dev", "file">>,
     undo |-> [mem |-> << >>, class |-> <<"mem">>, dev |-> << >>, file |-> <<"dev">>],
     cleanup |-> <<"file", "dev">>, down |-> <<"class", "mem">>,
     final |-> << >>, sure |-> {}, lies |-> {}, leaks |-> {},
     needs |-> {<<"file", "dev">>}]

\* simplat-device; platform_device_unregister deletes the device and puts it.
SimplatTable ==
    [once |-> <<"mem">>, each |-> <<"alloc", "add">>,
     undo |-> [mem |-> << >>, alloc |-> << >>, add |-> <<"alloc">>],
     cleanup |-> <<"add", "alloc">>, down |-> <<"mem">>,
     final |-> << >>, sure |-> {}, lies |-> {}, leaks |-> {},
     needs |-> {<<"add", "alloc">>}]

\* gpio-virtual; the chip's operations use the registers and print the device's name.
GpioTable ==
    [once |-> <<"mem", "class">>, each |-> <<"regs", "dev", "chip">>,
     undo |-> [mem |-> << >>, class |-> <<"mem">>, regs |-> << >>, dev |-> <<"regs">>,
               chip |-> <<"dev", "regs">>],
     cleanup |-> <<"chip", "dev", "regs">>, down |-> <<"class", "mem">>,
     final |-> << >>, sure |-> {}, lies |-> {}, leaks |-> {},
     needs |-> {<<"chip", "dev">>, <<"chip", "regs">>}]

EchoserialTable ==
    [once |-> <<"mem", "driver">>, each |-> <<"fifo", "port">>,
     undo |-> [mem |-> << >>, driver |-> <<"mem">>, fifo |-> << >>, port |-> <<"fifo">>],
     cleanup |-> <<"port", "fifo">>, down |-> <<"driver", "mem">>,
     final |-> << >>, sure |-> {}, lies |-> {}, leaks |-> {},
     needs |-> {<<"port", "fifo">>}]

\* bufhub has no device at first.  err is still 0 when its first allocation fails.
BufhubTable ==
    [once |-> <<"mem", "chrdev", "class", "misc">>, each |-> << >>,
     undo |-> [mem |-> << >>, chrdev |-> <<"mem">>, class |-> <<"chrdev", "mem">>,
               misc |-> <<"class", "chrdev", "mem">>],
     cleanup |-> << >>, down |-> <<"misc", "class", "chrdev", "mem">>,
     final |-> << >>, sure |-> {}, lies |-> {"mem"}, leaks |-> {}, needs |-> {}]

\* A pair: the links come after both ends, and so do the pointers to the twins.  The
\* first end is destroyed before the second one in cleanup, after it when init fails.
CpipeTable ==
    [once |-> <<"mem", "chrdev", "class">>,
     each |-> <<"fifo0", "dev0", "fifo1", "dev1", "twin", "link0", "link1">>,
     undo |-> [mem |-> << >>, chrdev |-> <<"mem">>, class |-> <<"chrdev", "mem">>,
               fifo0 |-> << >>, dev0 |-> <<"fifo0">>, fifo1 |-> <<"dev0", "fifo0">>,
               dev1 |-> <<"fifo1", "dev0", "fifo0">>,
               link0 |-> <<"dev1", "fifo1", "dev0", "fifo0">>,
               link1 |-> <<"link0", "dev1", "fifo1", "dev0", "fifo0">>],
     cleanup |-> <<"link0", "dev0", "fifo0", "link1", "dev1", "fifo1">>,
     down |-> <<"class", "chrdev", "mem">>,
     final |-> << >>, sure |-> {"twin"}, lies |-> {}, leaks |-> {"twin"},
     needs |-> {<<"dev0", "fifo0">>, <<"dev1", "fifo1">>, <<"dev0", "twin">>,
               <<"dev0", "fifo1">>, <<"dev1", "fifo0">>, <<"link0", "dev0">>,
               <<"link1", "dev1">>}]

\* usblb: what was added is only put when the host controller cannot be made or added;
\* when the host side fails the gadget side, which comes first, is cleaned up.
UsblbGadgetUndo == [gdev |-> << >>, ep |-> <<"gdev">>, udc |-> <<"ep", "gdev">>]
UsblbHostUndo ==
    [palloc |-> <<"udc", "ep", "gdev">>, padd |-> <<"palloc", "udc", "ep", "gdev">>,
     hcd |-> <<"palloc", "udc", "ep", "gdev">>,
     hcdadd |-> <<"hcd", "palloc", "udc", "ep", "gdev">>]

\* The result of the attachment is 1 when it fails, which is what init returns then.
UsblbTable ==
    [once |-> <<"gadgets", "hosts", "mem">>,
     each |-> <<"gdev", "ep", "udc", "palloc", "padd", "hcd", "hcdadd", "attach", "timer">>,
     undo |-> [gadgets |-> << >>, hosts |-> <<"gadgets">>, mem |-> <<"hosts", "gadgets">>,
               gdev |-> UsblbGadgetUndo.gdev, ep |-> UsblbGadgetUndo.ep,
               udc |-> UsblbGadgetUndo.udc, palloc |-> UsblbHostUndo.palloc,
               padd |-> UsblbHostUndo.padd, hcd |-> UsblbHostUndo.hcd,
               hcdadd |-> UsblbHostUndo.hcdadd,
               attach |-> <<"hcdadd", "hcd", "padd", "palloc", "udc", "ep", "gdev">>],
     cleanup |-> <<"timer", "hcdadd", "hcd", "padd", "palloc", "udc", "ep", "gdev">>,
     down |-> <<"mem", "hosts", "gadgets">>,
     final |-> << >>, sure |-> {"timer"}, lies |-> {"attach"}, leaks |-> {"padd", "attach"},
     needs |-> {<<"timer", "hcdadd">>, <<"timer", "udc">>, <<"hcdadd", "hcd">>,
                <<"hcdadd", "padd">>, <<"udc", "ep">>, <<"udc", "gdev">>,
                <<"padd", "palloc">>}]

\* virtnet with the character devices as the backend; rtnl_link_unregister removes the
\* interfaces that are registered.
VirtnetChrUndo == [chrdev |-> << >>, class |-> <<"chrdev">>]
VirtnetTable ==
    [once |-> <<"chrdev", "class", "link">>, each |-> <<"netdev", "reg">>,
     undo |-> [chrdev |-> VirtnetChrUndo.chrdev, class |-> VirtnetChrUndo.class,
               link |-> <<"class", "chrdev">>, netdev |-> << >>, reg |-> <<"netdev">>],
     cleanup |-> <<"reg", "netdev">>, down |-> <<"link", "class", "chrdev">>,
     final |-> << >>, sure |-> {}, lies |-> {}, leaks |-> {},
     needs |-> {<<"reg", "netdev">>}]

BuTable ==
    [virtblock |-> VirtblockTable, rtc |-> RtcTable, firmreq |-> FirmreqTable,
     simpleattr |-> SimpleattrTable, simplat |-> SimplatTable, gpio |-> GpioTable,
     echoserial |-> EchoserialTable, bufhub |-> BufhubTable, cpipe |-> CpipeTable,
     usblb |-> UsblbTable, virtnet |-> VirtnetTable]

-----------------------------------------------------------------------------
(* Loading and removing.                                                   *)

BuRow == BuTable[bu.drv]

BuInit ==
    \E drv \in DOMAIN BuTable, n \in 1 .. BuDevices :
        bu = [drv    |-> drv,
              n      |-> n,        \* the module parameter
              pc     |-> "once",   \* the loop init, its failure or exit is in, see below
              dev    |-> 0,        \* its device, 0 for what the devices share
              todo   |-> BuTable[drv].once,  \* what it goes through there
              pos    |-> 1,        \* the next of them
              held   |-> [i \in 0 .. n |-> {}],   \* what there is
              bad    |-> {},       \* history: what was released when it was not there
              failed |-> "none"]   \* the step of init that failed

BuLoop(pc, dev, todo) ==
    bu' = [bu EXCEPT !.pc = pc, !.dev = dev, !.todo = todo, !.pos = 1]

\* init: what is shared, each device, and each device once more at the end.
BuStep ==
    /\ bu.pc \in {"once", "each", "final"} /\ bu.pos <= Len(bu.todo)
    /\ bu' = [bu EXCEPT !.held[bu.dev] = @ \union {bu.todo[bu.pos]}, !.pos = @ + 1]

BuUp ==
    /\ bu.pos > Len(bu.todo)
    /\ \/ bu.pc = "once" /\ BuLoop("each", 1, BuRow.each)
       \/ /\ bu.pc = "each"
          /\ IF bu.dev < bu.n THEN BuLoop("each", bu.dev + 1, BuRow.each)
                              ELSE BuLoop("final", 1, BuRow.final)
       \/ /\ bu.pc = "final"
          /\ IF bu.dev < bu.n THEN BuLoop("final", bu.dev + 1, BuRow.final)
                              ELSE BuLoop("up", 0, << >>)

\* The labels of the setup function, or of init.
BuFail ==
    /\ bu.pc \in {"once", "each", "final"} /\ bu.pos <= Len(bu.todo)
    /\ LET r == bu.todo[bu.pos]
       IN  /\ r \notin BuRow.sure
           /\ bu' = [bu EXCEPT !.pc = "undo", !.todo = BuRow.undo[r], !.pos = 1, !.failed = r]

BuRelease ==
    /\ bu.pc \in {"undo", "unwind", "abort", "exit", "down"} /\ bu.pos <= Len(bu.todo)
    /\ LET r == bu.todo[bu.pos]
       IN  bu' = [bu EXCEPT !.held[bu.dev] = @ \ {r}, !.pos = @ + 1,
                            !.bad = @ \union ({r} \ bu.held[bu.dev])]

\* The cleanup of the devices from the i-th down to the first, and then the rest.
BuCleanup(i) ==
    IF i = 0 THEN BuLoop("abort", 0, BuRow.down) ELSE BuLoop("unwind", i, BuRow.cleanup)

\* A module whose init did not return an error stays, whatever it did.
BuReturn == BuLoop(IF bu.failed \in BuRow.lies THEN "up" ELSE "gone", 0, << >>)

\* Mutant of BuUnwind: the loop starts with the device that failed.
BuUnwindOne ==
    /\ bu.pos > Len(bu.todo)
    /\ \/ bu.pc = "undo" /\ IF bu.dev = 0 THEN BuReturn ELSE BuCleanup(bu.dev)
       \/ bu.pc = "unwind" /\ BuCleanup(bu.dev - 1)
       \/ bu.pc = "abort" /\ BuReturn

\* After the labels come the devices that were set up before, the last one first.
BuUnwind ==
    /\ bu.pos > Len(bu.todo)
    /\ \/ bu.pc = "undo" /\ IF bu.dev = 0 THEN BuReturn ELSE BuCleanup(bu.dev - 1)
       \/ bu.pc = "unwind" /\ BuCleanup(bu.dev - 1)
       \/ bu.pc = "abort" /\ BuReturn

BuExit == bu.pc = "up" /\ BuLoop("exit", 1, BuRow.cleanup)

BuExited ==
    /\ bu.pos > Len(bu.todo)
    /\ \/ /\ bu.pc = "exit"
          /\ IF bu.dev < bu.n THEN BuLoop("exit", bu.dev + 1, BuRow.cleanup)
                              ELSE BuLoop("down", 0, BuRow.down)
       \/ bu.pc = "down" /\ BuLoop("gone", 0, << >>)

BuNext == BuStep \/ BuUp \/ BuFail \/ BuRelease \/ BuUnwind \/ BuExit \/ BuExited

\* Loading and removing by themselves.
BuSpec == BuInit /\ [][BuNext]_bu

-----------------------------------------------------------------------------
(* Properties.                                                             *)

BuResources == ToSet(BuRow.once) \union ToSet(BuRow.each) \union ToSet(BuRow.final)

\* The driver being loaded or removed has its type.
BuTypeOK ==
    /\ bu.drv \in DOMAIN BuTable /\ bu.n \in 1 .. BuDevices /\ bu.dev \in 0 .. bu.n
    /\ bu.pc \in {"once", "each", "final", "up", "undo", "unwind", "abort", "exit", "down", "gone"}
    /\ bu.todo \in Seq(BuResources) /\ bu.pos \in 1 .. (Len(bu.todo) + 1)
    /\ bu.held \in [0 .. bu.n -> SUBSET BuResources] /\ bu.bad \subseteq BuResources
    /\ bu.failed \in BuResources \union {"none"}

\* What is known to be used without what it needs: a firmware file before and after the
\* firmware, an end of a cpipe while the other one is made or destroyed, and a platform
\* device of usblb that was put and never deleted.
BuGaps ==
    {<<"firmreq", "dev">>, <<"cpipe", "dev0">>, <<"cpipe", "dev1">>, <<"usblb", "padd">>}

\* Wherever init fails, and at exit, nothing is released that is not there, but for the
\* disks of virtblock, see UnwindsSafely, and what a module does that is loaded though
\* its init failed; at no moment is there something without what its users use, or a device
\* without what the devices share, but for the gaps; and a module that is gone leaves
\* nothing behind but its leaks, and nothing shared.
BringupSound ==
    /\ bu.failed \in BuRow.lies \/ \A r \in bu.bad :
           bu.drv = "virtblock" /\ r = "added" /\ bu.failed # "none"
    /\ \A i \in 0 .. bu.n : \A r \in bu.held[i] :
          /\ \A p \in BuRow.needs :
                p[1] = r => p[2] \in bu.held[i] \/ <<bu.drv, r>> \in BuGaps
          /\ i = 0 \/ r \in BuRow.leaks \/ ToSet(BuRow.once) \subseteq bu.held[0]
    /\ bu.pc = "gone" =>
          bu.held[0] = {} /\ \A i \in 1 .. bu.n : bu.held[i] \subseteq BuRow.leaks

\* The note of virtblock.c:152: because add_disk is left to the end of the initialization,
\* the module can safely unwind the devices it has before that.
UnwindsSafely == bu.drv = "virtblock" => bu.bad = {}
=============================================================================
