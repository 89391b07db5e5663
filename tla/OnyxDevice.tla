------------------------------ MODULE OnyxDevice ------------------------------
(***************************************************************************)
(* The life of a device: it is switched on with the kernel that plays the  *)
(* boot splash or with the update kernel and its init script, reaches user *)
(* space, where the connection monitor is loaded and unloaded, and can     *)
(* lose its power at any step. The card and the root file system survive   *)
(* that; everything else starts again.                                     *)
(*                                                                         *)
(* The components share no memory, so user space starts here when the      *)
(* splash is over, and the splash plays only in the first boot: it reads   *)
(* nothing that an earlier boot leaves behind.                             *)
(***************************************************************************)
EXTENDS OnyxSplash, PcConnMon, InitramfsUpdate

CONSTANT MaxBoots    \* bound: times the device is switched on

ASSUME DeviceAssumption == MaxBoots \in Nat

VARIABLES stage,     \* "off", "splash", "update" or "user"
          boots,
          outage     \* history: the device is off because its power failed

vars == <<stage, boots, outage, splashVars, monVars, updateVars>>

Init ==
    /\ stage = "off" /\ boots = 0 /\ outage = FALSE
    /\ card = NoCard /\ rootfs = "old" /\ cutOff = FALSE
    /\ BsStart(dr, hrdy, chip, bus, gaveUp)
    /\ SplashStart(spc, timer, buf, progress, under, overlap, badUse, oops)
    /\ MonStart(mpc, held, usbcmd, usbintr, usbsts, devmode, tmp, plugged, resets,
                uevents, lost, late)
    /\ ScriptStart(ipc, retry_count, detected, dir, failed)

-----------------------------------------------------------------------------
\* The kernel with the splash runs its initcalls.
BootSplash ==
    /\ stage = "off" /\ boots = 0 /\ boots < MaxBoots
    /\ stage' = "splash" /\ boots' = boots + 1 /\ outage' = FALSE /\ spc' = "start"
    /\ UNCHANGED <<bsVars, timer, buf, progress, under, overlap, badUse, oops,
                   monVars, updateVars>>

\* The update kernel starts the script, with any card in the slot.
BootUpdate ==
    /\ stage = "off" /\ boots < MaxBoots
    /\ stage' = "update" /\ boots' = boots + 1 /\ outage' = FALSE
    /\ ipc' = "mount" /\ card' \in Cards
    /\ UNCHANGED <<retry_count, detected, dir, failed, rootfs, cutOff, splashVars, monVars>>

\* Nothing of the splash is left to run or to be read.
SplashForgotten ==
    /\ BsStart(dr', hrdy', chip', bus', gaveUp')
    /\ SplashStart(spc', timer', buf', progress', under', overlap', badUse', oops')

\* User space is up.
SplashOver ==
    /\ stage = "splash" /\ spc = "done" /\ timer = "off"
    /\ stage' = "user" /\ SplashForgotten
    /\ UNCHANGED <<boots, outage, monVars, updateVars>>

\* The card may be taken out.
SwitchRoot ==
    /\ stage = "update" /\ ipc = "switched"
    /\ stage' = "user" /\ card' = NoCard
    /\ ScriptStart(ipc', retry_count', detected', dir', failed')
    /\ UNCHANGED <<boots, outage, rootfs, cutOff, splashVars, monVars>>

\* What is in memory and in the controllers is lost.
VolatileLost ==
    /\ SplashForgotten
    /\ MonStart(mpc', held', usbcmd', usbintr', usbsts', devmode', tmp', plugged', resets',
                uevents', lost', late')
    /\ ScriptStart(ipc', retry_count', detected', dir', failed')
    /\ card' = NoCard /\ UNCHANGED rootfs

\* The script's reboot takes effect.
Reboot == /\ stage = "update" /\ ipc = "reboot"
          /\ stage' = "off" /\ VolatileLost /\ UNCHANGED <<boots, outage, cutOff>>

PowerLoss == /\ stage # "off"
             /\ stage' = "off" /\ VolatileLost /\ outage' = TRUE
             /\ cutOff' = (cutOff \/ ipc = "updating")
             /\ UNCHANGED boots

-----------------------------------------------------------------------------
Splash(A) == stage = "splash" /\ A /\ UNCHANGED <<stage, boots, outage, monVars, updateVars>>
Update(A) == stage = "update" /\ A /\ UNCHANGED <<stage, boots, outage, splashVars, monVars>>
User(A)   == stage = "user" /\ A /\ UNCHANGED <<stage, boots, outage, splashVars, updateVars>>

Next == \/ BootSplash \/ BootUpdate \/ SplashOver \/ SwitchRoot \/ Reboot \/ PowerLoss
        \/ Splash(InitcallStep) \/ Splash(SoftirqStep) \/ Splash(ChipStep)
        \/ Update(UpdateNext)
        \/ User(MonNext)

Spec == Init /\ [][Next]_vars

\* A task that can run runs, a timer that is armed expires, a pending interrupt is served.
\* The chip becomes ready while it is waited for, if it is waited for again and again; and
\* a PC resets the bus of a device it sees, once it is left plugged.
ReadyInTime == ChipStep /\ \E c \in Contexts : At(c, "wait")
OwnIrq == Irq /\ Interrupting

Fairness == /\ WF_vars(Splash(InitcallStep)) /\ WF_vars(Splash(SoftirqStep))
            /\ SF_vars(Splash(ReadyInTime))
            /\ WF_vars(Update(ScriptStep))
            /\ WF_vars(User(OwnIrq)) /\ WF_vars(User(BusReset))

FairSpec == Spec /\ Fairness

-----------------------------------------------------------------------------
(* Properties *)

TypeOK ==
    /\ stage \in {"off", "splash", "update", "user"} /\ boots \in 0 .. MaxBoots
    /\ hrdy \in BOOLEAN /\ gaveUp \in BOOLEAN
    /\ chip.left \in 0 .. ARGS + PIXELS + 1 /\ chip.frames \in Nat
    /\ spc \in {"none", "start", "alloc", "memset", "draw", "done", "enomem"}
    /\ timer \in {"off", "armed", "fired"} /\ buf \in {"null", "held", "freed"}
    /\ progress \in 0 .. NUM_RECTS
    /\ held \subseteq {"region", "map", "pins", "irq"}
    /\ usbintr \in BOOLEAN /\ usbsts \in BOOLEAN /\ uevents \in Nat /\ lost \in Nat
    /\ rootfs \in {"old", "new", "torn"} /\ card \in Cards /\ retry_count \in 0 .. RETRIES

\* The display gets every command with exactly its data words, one complete update per
\* drawing, and no freed image, unless animation() ran before the initcall was through
\* or a wait for the chip gave up: nothing else damages the stream.
DamageHasCause ==
    overlap \/ gaveUp \/
    /\ chip.intact /\ ~badUse
    /\ spc = "done" /\ timer # "fired" =>
           chip.left = 0 /\ chip.session = "none" /\ chip.frames = progress + 1

\* animation() never runs on an image that it has freed, and frees it at the end only.
NoAnimationAfterFree ==
    buf = "freed" => timer = "off" /\ Idle("softirq") /\ progress = NUM_RECTS

\* Every splash ends: the image is freed and the timer off, unless the pointer was null,
\* the power failed, or both contexts wait at once for a chip that each resets under the
\* other's polling, which need never end.
SplashEnds ==
    (timer = "armed") ~> (oops \/ stage = "off" \/ buf = "freed" \/ (overlap /\ gaveUp))

\* Probe leaves the driver with everything or with nothing, remove with nothing; and
\* whenever the handler can be called, the registers and the pins are there.
ProbeAllOrNothing ==
    /\ mpc = "idle" => held = {"region", "map", "pins", "irq"}
    /\ mpc \in {"unbound", "unloaded"} => held = {}
    /\ "irq" \in held => {"map", "pins"} \subseteq held

\* After a probe whose resets were over in time the bound controller runs and listens, or
\* it was stopped for the one connection that it told of or failed to tell of.
RunningListens ==
    mpc = "idle" /\ ~late => IF usbcmd.run THEN usbintr /\ devmode ELSE uevents + lost = 1

\* User space is told at most once of a connection, and only of one, after a probe whose
\* resets were over in time. A notification that is lost is not made up for.
NotifiedOnce == ~late => uevents + lost <= 1 /\ uevents + lost <= resets

\* What the drivers hold, their registers and what they have reported agree.
Consistent == /\ TypeOK /\ NoAnimationAfterFree
              /\ ProbeAllOrNothing /\ RunningListens /\ NotifiedOnce

\* A PC that is plugged, or stays plugged, while the controller runs is reported, unless
\* kobject_uevent() fails.
PlugReported ==
    (stage = "user" /\ mpc = "idle" /\ usbcmd.run /\ plugged /\ ~late)
        ~> (uevents > 0 \/ lost > 0 \/ mpc # "idle" \/ ~plugged \/ stage # "user")

\* A root file system is half written only while update.sh runs, or because the power or
\* update.sh itself failed under it: the script never restarts or boots the device under
\* an update, and an update that ends well makes up for an earlier one that did not. Only
\* after such a failure does a boot end in the shell that "Impossible to reach" stands for.
TornHasCause ==
    /\ rootfs = "torn" => ipc = "updating" \/ cutOff
    /\ ipc = "shell" => cutOff

\* A package that this device may take.
ForThisDevice(p) == p # NoPackage /\ (RequiredId = "" \/ p.id = RequiredId)

\* Once its card is mounted, a whole package for this customer is installed, whatever
\* state an earlier attempt left the root file system in, unless the power fails or one
\* of the commands that the script does not check. The script's restart is no excuse.
WholePackageInstalled ==
    (ipc = "check" /\ card.pkg.whole /\ ForThisDevice(card.pkg))
        ~> (rootfs = "new" \/ failed \/ outage)

-----------------------------------------------------------------------------
\* "Display animatic splash when booting device": animation() has an image to draw in that
\* it has not freed, and the display gets every command with exactly its data words.
SplashDisplayed == ~oops /\ ~badUse /\ chip.intact
=============================================================================
