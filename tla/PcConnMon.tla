------------------------------ MODULE PcConnMon ------------------------------
(***************************************************************************)
(* The PC connection monitor (pcconn_mon.c), a module that user space      *)
(* loads and unloads: it runs the USB device controller only to learn of   *)
(* the first bus reset, which a PC sends when the cable is plugged in. It  *)
(* then stops the controller and tells user space with a uevent.           *)
(*                                                                         *)
(* Probe and remove run in process context; the interrupt handler runs     *)
(* between any two of their register accesses, on a line that is shared:   *)
(* it is called for the other devices of the line too. The configuration   *)
(* of the device sets both platform functions of the controller, so their  *)
(* absence is left out.                                                    *)
(*                                                                         *)
(* Of the controller's registers: usbcmd holds RUN_STOP and CTRL_RESET,    *)
(* usbintr whether its interrupts are enabled, usbsts the RESET bit, which *)
(* is cleared by writing a one. Port and burst configuration is left out.  *)
(***************************************************************************)
EXTENDS Naturals

CONSTANT MaxResets    \* bound: bus resets that the PC sends to one set-up controller

ASSUME PcConnAssumption == MaxResets \in Nat

VARIABLES mpc,        \* of probe and remove: the next step; "unloaded", "idle" (bound)
                      \* or "unbound" (loaded, probe failed) when neither runs
          held,       \* what the driver holds of {"region", "map", "pins", "irq"}
          usbcmd,     \* [run |-> BOOLEAN, rst |-> BOOLEAN]
          usbintr, usbsts, devmode,
          tmp,        \* usbcmd as probe or remove read it
          plugged,    \* a PC is at the other end of the cable
          resets,     \* bus resets seen since usbotg_init() reset the controller
          uevents,    \* notifications sent since the module was loaded
          lost,       \* notifications that kobject_uevent() failed to make
          late        \* history: probe went on before a reset of the controller was over

monVars == <<mpc, held, usbcmd, usbintr, usbsts, devmode, tmp, plugged, resets, uevents,
             lost, late>>

regVars == <<usbcmd, usbintr, usbsts, devmode, tmp>>
envVars == <<plugged, resets, uevents, lost>>

\* usbcmd after a reset, and tmp when it is not in use.
Cleared == [run |-> FALSE, rst |-> FALSE]

\* The module unloaded, the controller as its hardware reset leaves it.
MonStart(m, h, c, i, s, d, t, p, r, u, l, o) ==
    /\ m = "unloaded" /\ h = {}
    /\ c = Cleared /\ i = FALSE /\ s = FALSE /\ d = FALSE /\ t = Cleared
    /\ p = FALSE /\ r = 0 /\ u = 0 /\ l = 0 /\ o = FALSE

\* Another driver of the controller has used it, and left it in any state.
OtherDriver ==
    /\ mpc = "unloaded"
    /\ usbcmd' \in [run : BOOLEAN, rst : {FALSE}]
    /\ usbintr' \in BOOLEAN /\ usbsts' \in BOOLEAN /\ devmode' \in BOOLEAN
    /\ UNCHANGED <<mpc, held, tmp, envVars, late>>

Goto(from, to) == mpc = from /\ mpc' = to

-----------------------------------------------------------------------------
(* pcconn_mon_probe() *)

\* module_init() registers the driver and so probes the device.
Insmod == /\ Goto("unloaded", "region")
          /\ uevents' = 0 /\ lost' = 0 /\ late' = FALSE
          /\ UNCHANGED <<held, regVars, plugged, resets>>

\* A step of probe that acquires r, or fails and starts to undo what was acquired.
Acquire(at, r, next, undo) ==
    /\ \/ Goto(at, next) /\ held' = held \cup {r}
       \/ Goto(at, undo) /\ UNCHANGED held
    /\ UNCHANGED <<regVars, envVars, late>>

RequestRegion == Acquire("region", "region", "map", "err1")   \* or no resource at all
Ioremap       == Acquire("map", "map", "pins", "err2")

\* A reset of the controller clears its registers.
RegistersCleared == /\ usbcmd' = Cleared
                    /\ usbintr' = FALSE /\ usbsts' = FALSE /\ devmode' = FALSE

\* usbotg_init() takes the pins and resets the controller, and sleeps for 100 ms in
\* which the reset is over, or is not.
PlatformInit ==
    /\ \/ /\ Goto("pins", "irq")
          /\ held' = held \cup {"pins"} /\ resets' = 0
          /\ \/ RegistersCleared /\ UNCHANGED late
             \/ /\ usbcmd' = [usbcmd EXCEPT !.rst = TRUE] /\ late' = TRUE
                /\ UNCHANGED <<usbintr, usbsts, devmode>>
       \/ Goto("pins", "err3") /\ UNCHANGED <<held, regVars, resets, late>>
    /\ UNCHANGED <<tmp, plugged, uevents, lost>>

\* Mutant: a failed request_irq() leaves by the label before the right one.
RequestIrq_WrongLabel == Acquire("irq", "irq", "stop_read", "err3")

RequestIrq    == Acquire("irq", "irq", "stop_read", "err4")

\* A label of the error path releases r and falls through to the next.
Release(at, r, next) == /\ Goto(at, next) /\ held' = held \ {r}
                        /\ UNCHANGED <<regVars, envVars, late>>

Err4 == Release("err4", "pins", "err3")
Err3 == Release("err3", "map", "err2")
Err2 == Release("err2", "region", "err1")
Err1 == Goto("err1", "unbound") /\ UNCHANGED <<held, regVars, envVars, late>>

\* tmp = readl(&dr_regs->usbcmd)
ReadCmd(at, next) == /\ Goto(at, next) /\ tmp' = usbcmd
                     /\ UNCHANGED <<held, usbcmd, usbintr, usbsts, devmode, envVars, late>>

\* writel(v, &dr_regs->usbcmd)
WriteCmd(at, v, next) == /\ Goto(at, next) /\ usbcmd' = v /\ tmp' = Cleared
                         /\ UNCHANGED <<held, usbintr, usbsts, devmode, envVars, late>>

\* writel(v, &dr_regs->usbintr)
WriteIntr(at, v, next) == /\ Goto(at, next) /\ usbintr' = v
                          /\ UNCHANGED <<held, usbcmd, usbsts, devmode, tmp, envVars, late>>

\* dr_controller_setup(): stop the controller, then reset it.
SetupStopRead  == ReadCmd("stop_read", "stop_write")
SetupStopWrite == WriteCmd("stop_write", [tmp EXCEPT !.run = FALSE], "reset_read")
SetupResetRead == ReadCmd("reset_read", "reset_write")
SetupReset     == WriteCmd("reset_write", [tmp EXCEPT !.rst = TRUE], "resetting")

\* The controller ends its reset.
ControllerResets ==
    /\ usbcmd.rst /\ RegistersCleared
    /\ UNCHANGED <<mpc, held, tmp, envVars, late>>

SetupWaitDone == /\ ~usbcmd.rst /\ Goto("resetting", "mode")
                 /\ UNCHANGED <<held, regVars, envVars, late>>

\* -ETIMEDOUT, which probe drops: the controller is run as it is.
SetupTimeout == /\ usbcmd.rst /\ Goto("resetting", "intr") /\ late' = TRUE
                /\ UNCHANGED <<held, regVars, envVars>>

\* Device mode. Writing zero to usbsts clears nothing.
SetupMode == /\ Goto("mode", "intr") /\ devmode' = TRUE
             /\ UNCHANGED <<held, usbcmd, usbintr, usbsts, tmp, envVars, late>>

\* dr_controller_run()

\* Mutant: the interrupts stay masked.
RunIntr_Masked == WriteIntr("intr", FALSE, "run_read")

RunIntr  == WriteIntr("intr", TRUE, "run_read")
RunRead  == ReadCmd("run_read", "run_write")
RunWrite == WriteCmd("run_write", [tmp EXCEPT !.run = TRUE], "idle")

-----------------------------------------------------------------------------
(* pcconn_mon_remove(), and module_exit() of a driver without a device *)

RemoveIntr  == WriteIntr("idle", FALSE, "rm_read")
RemoveRead  == ReadCmd("rm_read", "rm_write")
RemoveWrite == WriteCmd("rm_write", [tmp EXCEPT !.run = FALSE], "rm_irq")
FreeIrq       == Release("rm_irq", "irq", "rm_map")
Iounmap       == Release("rm_map", "map", "rm_region")
ReleaseRegion == Release("rm_region", "region", "rm_pins")
PlatformUninit == Release("rm_pins", "pins", "unloaded")
RmmodUnbound == Goto("unbound", "unloaded") /\ UNCHANGED <<held, regVars, envVars, late>>

-----------------------------------------------------------------------------
(* pcconn_mon_irq(), called for this controller's interrupt or for another's *)

Interrupting == usbsts /\ usbintr

\* dr_controller_stop() and kobject_uevent(), which allocates and can fail: its result
\* is dropped. Nothing but IRQ_HANDLED otherwise.
Irq ==
    /\ "irq" \in held
    /\ IF Interrupting
       THEN /\ usbsts' = FALSE /\ usbintr' = FALSE
            /\ usbcmd' = [usbcmd EXCEPT !.run = FALSE]
            /\ \/ uevents' = uevents + 1 /\ UNCHANGED lost
               \/ lost' = lost + 1 /\ UNCHANGED uevents
       ELSE UNCHANGED <<usbsts, usbintr, usbcmd, uevents, lost>>
    /\ UNCHANGED <<mpc, held, devmode, tmp, plugged, resets, late>>

-----------------------------------------------------------------------------
(* The other end of the cable *)

Plug == /\ plugged' = ~plugged
        /\ UNCHANGED <<mpc, held, regVars, resets, uevents, lost, late>>

\* The PC resets the bus of a device that has shown itself, which needs RUN_STOP.
BusReset == /\ plugged /\ usbcmd.run /\ resets < MaxResets
            /\ resets' = resets + 1 /\ usbsts' = TRUE
            /\ UNCHANGED <<mpc, held, usbcmd, usbintr, devmode, tmp, plugged, uevents,
                           lost, late>>

-----------------------------------------------------------------------------
Probe == \/ Insmod \/ RequestRegion \/ Ioremap \/ PlatformInit \/ RequestIrq
         \/ Err4 \/ Err3 \/ Err2 \/ Err1
         \/ SetupStopRead \/ SetupStopWrite \/ SetupResetRead \/ SetupReset
         \/ SetupWaitDone \/ SetupTimeout \/ SetupMode
         \/ RunIntr \/ RunRead \/ RunWrite

Remove == \/ RemoveIntr \/ RemoveRead \/ RemoveWrite
          \/ FreeIrq \/ Iounmap \/ ReleaseRegion \/ PlatformUninit \/ RmmodUnbound

Cable == Plug \/ BusReset

MonNext == Probe \/ Remove \/ Irq \/ ControllerResets \/ OtherDriver \/ Cable
=============================================================================
