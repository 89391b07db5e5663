--------------------------- MODULE OnyxDeviceProofs ---------------------------
(***************************************************************************)
(* Machine-checked proofs about OnyxDevice: for every number of arguments, *)
(* pixels and rectangles, every set of customer ids, and any number of     *)
(* boots, bus resets and mount attempts.                                   *)
(***************************************************************************)
EXTENDS OnyxDevice, SequenceTheorems, TLAPS

-----------------------------------------------------------------------------
(* The update script.                                                      *)

\* The script runs in the update kernel only, and a root file system that is half
\* written is still being written, or the last update.sh did not end well.
UpdateInv ==
    /\ stage # "update" => ipc = "none"
    /\ card \in Cards /\ rootfs \in {"old", "new", "torn"} /\ retry_count \in 0 .. RETRIES
    /\ rootfs = "torn" => ipc = "updating" \/ cutOff
    /\ ipc = "shell" => cutOff

-----------------------------------------------------------------------------
(* The connection monitor.                                                 *)

Resources == {"region", "map", "pins", "irq"}
Registers == [run : BOOLEAN, rst : BOOLEAN]

\* Where the driver cannot have a resource.
Without(r) ==
    CASE r = "region" -> {"unloaded", "region", "err1", "unbound", "rm_pins"}
      [] r = "map"    -> {"unloaded", "region", "map", "err2", "err1", "unbound",
                          "rm_region", "rm_pins"}
      [] r = "pins"   -> {"unloaded", "region", "map", "pins", "err3", "err2", "err1",
                          "unbound"}
      [] r = "irq"    -> {"unloaded", "region", "map", "pins", "irq", "err4", "err3", "err2",
                          "err1", "unbound", "rm_map", "rm_region", "rm_pins"}

\* Where probe sets the controller up: before it, then until it runs.
Acquiring == {"region", "map", "pins", "irq"}
Stopped   == {"reset_read", "reset_write", "resetting", "mode", "intr", "run_read", "run_write"}
SetUp     == {"mode", "intr", "run_read", "run_write"}
Listening == {"run_read", "run_write", "idle"}

\* Where the controller is as another driver left it.
NotYet == {"unloaded", "region", "map", "pins", "err3", "err2", "err1", "unbound"}

MonPlaces == Acquiring \cup Stopped \cup
    {"unloaded", "err4", "err3", "err2", "err1", "unbound", "stop_read", "stop_write", "idle",
     "rm_read", "rm_write", "rm_irq", "rm_map", "rm_region", "rm_pins"}

MonType ==
    /\ mpc \in MonPlaces /\ held \subseteq Resources
    /\ usbcmd \in Registers /\ tmp \in Registers
    /\ usbintr \in BOOLEAN /\ usbsts \in BOOLEAN /\ devmode \in BOOLEAN /\ late \in BOOLEAN
    /\ uevents \in Nat /\ lost \in Nat /\ resets \in Nat

\* The driver holds exactly what its place in probe or remove says.
HeldInv == \A r \in Resources : r \in held <=> mpc \notin Without(r)

\* If the reset of usbotg_init() was over in time, interrupts are on only from
\* dr_controller_run() to the first of them or to remove, or as another driver left them.
\* The controller is stopped from the stop in dr_controller_setup() to the run.
SetupInv ==
    /\ ~late /\ usbintr => mpc \in Listening \cup NotYet
    /\ ~late /\ mpc \in (Acquiring \cup Stopped \cup {"stop_read", "stop_write"}) \ Listening =>
           uevents + lost = 0
    /\ mpc \in Stopped => ~usbcmd.run
    /\ mpc = "reset_write" => ~tmp.run
    /\ mpc = "resetting" /\ ~usbcmd.rst => ~usbsts

\* After resets that were over in time: no bus reset is pending when the controller is
\* set up; while it runs, it listens and has told nothing; and when it has told, it is
\* stopped.
RunInv ==
    ~late =>
    /\ mpc \in SetUp => ~usbcmd.rst /\ ~usbsts /\ uevents + lost = 0
    /\ mpc \in SetUp \ {"mode"} => devmode
    /\ mpc \in {"run_read", "run_write"} => usbintr
    /\ mpc = "run_write" => ~tmp.rst
    /\ mpc = "idle" =>
         /\ ~usbcmd.rst
         /\ IF usbintr THEN usbcmd.run /\ devmode /\ uevents + lost = 0 /\ (usbsts => resets >= 1)
                       ELSE ~usbcmd.run /\ uevents + lost = 1 /\ resets >= 1
    /\ uevents + lost <= 1 /\ uevents + lost <= resets

MonInv == MonType /\ HeldInv /\ SetupInv /\ RunInv

-----------------------------------------------------------------------------
(* The splash, whatever the chip does.                                     *)

ChipStates == [left : 0 .. ARGS + PIXELS + 1, session : {"none", "area", "pixels"},
               intact : BOOLEAN, frames : Nat]

SplashType ==
    /\ spc \in {"none", "start", "alloc", "memset", "draw", "done", "enomem"}
    /\ timer \in {"off", "armed", "fired"} /\ buf \in {"null", "held", "freed"}
    /\ progress \in 0 .. NUM_RECTS
    /\ overlap \in BOOLEAN /\ badUse \in BOOLEAN /\ oops \in BOOLEAN /\ gaveUp \in BOOLEAN
    /\ hrdy \in BOOLEAN
    /\ chip \in ChipStates
    /\ DOMAIN bus = Contexts

\* The image is there from kmalloc() to the last rectangle, and the timer is set until
\* then.
ImageInv ==
    /\ buf = "null" <=> spc \in {"none", "start", "alloc", "enomem"}
    /\ spc \in {"none", "start"} => timer = "off" /\ progress = 0
    /\ oops => spc \in {"alloc", "enomem"}
    /\ timer # "off" => progress < NUM_RECTS
    /\ buf = "freed" => timer = "off" /\ progress = NUM_RECTS
    /\ progress > 0 \/ (timer = "fired" /\ ~oops) => buf # "null"

\* Who is in a transfer: only draw_outline() and animation().
CallInv ==
    /\ timer # "fired" => Idle("softirq")
    /\ spc # "draw" => Idle("init")
    /\ oops => Idle("softirq")

\* Unless animation() ran before the initcall was through, the two never meet.
ApartInv ==
    ~overlap => /\ InInitcall => timer # "fired" /\ progress = 0
                /\ timer = "fired" /\ ~oops => spc = "done"
                /\ ~badUse

-----------------------------------------------------------------------------
(* A transfer that nothing disturbs.                                       *)

\* The number of words of a drawing, and the k-th of them.
Length == 2 * ARGS + PIXELS + 6

FrameWord(k) ==
    CASE k = 1                     -> Command("ld_img_area")
      [] k \in 2 .. ARGS + 1       -> Data("arg")
      [] k = ARGS + 2              -> Command("wr_reg")
      [] k = ARGS + 3              -> Data("0x154")
      [] k \in ARGS + 4 .. ARGS + PIXELS + 3 -> Data("pixel")
      [] k = ARGS + PIXELS + 4     -> Command("ld_img_end")
      [] k = ARGS + PIXELS + 5     -> Wait
      [] k = ARGS + PIXELS + 6     -> Command("upd_part_area")
      [] k \in ARGS + PIXELS + 7 .. Length -> Data("arg")

\* What the chip waits for before the k-th word, after f drawings.
Left(k) ==
    IF k = 1 THEN 0
    ELSE IF k <= ARGS + 2 THEN ARGS + 2 - k
    ELSE IF k <= ARGS + PIXELS + 4 THEN ARGS + PIXELS + 4 - k
    ELSE IF k <= ARGS + PIXELS + 6 THEN 0
    ELSE Length + 1 - k

SessionAt(k) ==
    IF k = 1 THEN "none"
    ELSE IF k <= ARGS + 2 THEN "area"
    ELSE IF k <= ARGS + PIXELS + 4 THEN "pixels"
    ELSE "none"

ChipAt(k, f) == /\ chip.left = Left(k) /\ chip.session = SessionAt(k)
                /\ chip.intact = TRUE
                /\ chip.frames = IF k = Length + 1 THEN f + 1 ELSE f

Suffix(s, k) == SubSeq(s, k, Len(s))

\* No word is under way, k - 1 of the drawing are through.
Parked(k, f) == dr.rst = 1 /\ dr.cs = 1 /\ dr.we = 1 /\ ChipAt(k, f)

IsCommand(k) == FrameWord(k).hdc = 0 /\ FrameWord(k).val # "none"
IsData(k) == FrameWord(k).hdc = 1

\* The pins, the ready pin and the chip before the j-th access of the k-th word: HWE_L is
\* low only while the chip is selected, HDC and the word are right and the chip is ready
\* when it rises.
PinsInv(k, j, f) ==
    /\ dr.rst = 1
    /\ dr.cs = IF (IsCommand(k) \/ IsData(k)) /\ j >= 4 THEN 0 ELSE 1
    /\ dr.we = IF (IsCommand(k) /\ j \in 5 .. 6) \/ (IsData(k) /\ j >= 4) THEN 0 ELSE 1
    /\ j >= 3 => dr.hdc = FrameWord(k).hdc
    /\ (IsCommand(k) /\ j = 6) \/ (IsData(k) /\ j = 5) => dr.hdb = FrameWord(k).val
    /\ (IsCommand(k) /\ j \in 2 .. 6) \/ (IsData(k) /\ j >= 2) => hrdy
    /\ ChipAt(IF IsCommand(k) /\ j = 7 THEN k + 1 ELSE k, f)

\* A context before the j-th access of the k-th word, with the register value v.
Sending(k, j, v) == [todo |-> Suffix(Frame, k), prog |-> Suffix(Accesses(FrameWord(k)), j),
                     x |-> v]

\* The context c is in its drawing, f of them done before it.
Transfer(c, f) ==
    \E k \in 1 .. Length : \E j \in 1 .. Len(Accesses(FrameWord(k))) :
        /\ bus[c] = Sending(k, j, NULL) \/ bus[c] = Sending(k, j, dr)
        /\ PinsInv(k, j, f)

Drawing(c, f) == IF Idle(c) THEN Parked(1, f + 1) ELSE Transfer(c, f)

WordValues == {"none", "ld_img_area", "wr_reg", "ld_img_end", "upd_part_area",
               "arg", "0x154", "pixel"}
WordSet == [hdc : {0, 1}, val : WordValues]
Pins == [hdc : {0, 1}, cs : {0, 1}, we : {0, 1}, rst : {0, 1}, hdb : WordValues]

\* Unless the contexts met or a wait gave up, the chip is where the one transfer that is
\* under way says, or at rest after all the drawings so far.
ChipInv ==
    ~overlap /\ ~gaveUp =>
    /\ dr \in Pins
    /\ spc = "draw" => Drawing("init", 0)
    /\ timer = "fired" /\ ~oops => Drawing("softirq", progress + 1)
    /\ spc # "draw" /\ (timer # "fired" \/ oops) =>
           Parked(1, IF spc = "done" THEN progress + 1 ELSE 0)

SplashInv == SplashType /\ ImageInv /\ CallInv /\ ApartInv /\ ChipInv

-----------------------------------------------------------------------------
(* The device.                                                             *)

\* A device that is off has nothing in memory.
OffInv ==
    stage = "off" =>
    /\ BsStart(dr, hrdy, chip, bus, gaveUp)
    /\ SplashStart(spc, timer, buf, progress, under, overlap, badUse, oops)
    /\ ScriptStart(ipc, retry_count, detected, dir, failed)

BootInv == stage \in {"off", "splash", "update", "user"} /\ boots \in 0 .. MaxBoots

IInv == BootInv /\ OffInv /\ UpdateInv /\ MonInv /\ SplashInv

-----------------------------------------------------------------------------
(* The update script.                                                      *)

\* There may be no card in the slot.
LEMMA NoCardType == NoCard \in Cards
  BY DEF NoCard, Cards

\* A step of the script leaves the root file system half written only in update.sh, or
\* when that has failed.
LEMMA ScriptKeepsUpdateInv ==
    ASSUME UpdateInv, stage = "update", UpdateNext, UNCHANGED stage
    PROVE  UpdateInv'
  <1>1. CASE MountPartition \/ MountWhole \/ RebootReturns \/ NormalBoot \/ CardDetected
    BY <1>1
       DEF UpdateInv, MountPartition, MountWhole, RebootReturns, NormalBoot, Bootable,
           CardDetected, Step
  <1>2. CASE MountRetry
    BY <1>2, UpdateAssumption DEF UpdateInv, MountRetry
  <1>3. CASE Extract \/ RunUpdate \/ SkipUpdate
    BY <1>3 DEF UpdateInv, Extract, RunUpdate, SkipUpdate, Step
  <1>4. CASE UpdateWrites \/ UpdateEnds
    BY <1>4 DEF UpdateInv, UpdateWrites, UpdateEnds, Step, scriptVars
  <1> QED
    BY <1>1, <1>2, <1>3, <1>4 DEF UpdateNext, ScriptStep

\* A restart and a loss of power keep track of an update that did not end well.
LEMMA NextUpdateInv ==
    ASSUME UpdateInv, OffInv, [Next]_vars
    PROVE  UpdateInv'
  <1> USE NoCardType, UpdateAssumption
  <1>1. CASE BootUpdate
    BY <1>1 DEF UpdateInv, OffInv, BootUpdate, ScriptStart
  <1>2. CASE SwitchRoot
    BY <1>2 DEF UpdateInv, SwitchRoot, ScriptStart
  <1>3. CASE Reboot \/ PowerLoss
    <2>1. VolatileLost
      BY <1>3 DEF Reboot, PowerLoss
    <2>2. ipc' = "none" /\ retry_count' = 0 /\ card' = NoCard /\ rootfs' = rootfs
      BY <2>1 DEF VolatileLost, ScriptStart
    <2>3. cutOff \/ ipc = "updating" => cutOff'
      BY <1>3 DEF Reboot, PowerLoss
    <2> QED
      BY <2>2, <2>3 DEF UpdateInv
  <1>4. CASE \/ Splash(InitcallStep) \/ Splash(SoftirqStep) \/ Splash(ChipStep)
             \/ User(MonNext) \/ BootSplash \/ SplashOver
    <2>1. UNCHANGED updateVars /\ stage # "update"
      BY <1>4 DEF Splash, User, BootSplash, SplashOver
    <2>2. stage' # "update"
      BY <1>4 DEF Splash, User, BootSplash, SplashOver
    <2> QED
      BY <2>1, <2>2 DEF UpdateInv, updateVars, scriptVars
  <1>5. CASE Update(UpdateNext)
    BY <1>5, ScriptKeepsUpdateInv DEF Update
  <1>6. CASE UNCHANGED vars
    BY <1>6 DEF UpdateInv, vars, updateVars, scriptVars
  <1> QED
    BY <1>1, <1>2, <1>3, <1>4, <1>5, <1>6 DEF Next

-----------------------------------------------------------------------------
(* The connection monitor.                                                 *)

\* What a reset leaves in usbcmd.
LEMMA ClearedType == Cleared \in Registers
  BY DEF Cleared, Registers

\* Every step of the monitor keeps its variables typed.
LEMMA NextMonType ==
    ASSUME MonType, MonNext
    PROVE  MonType'
  <1>1. CASE Insmod
    BY <1>1 DEF MonType, MonPlaces, Acquiring, Insmod, Goto, regVars
  <1>2. CASE RequestRegion \/ Ioremap \/ RequestIrq
    BY <1>2
       DEF MonType, MonPlaces, Acquiring, Resources, RequestRegion, Ioremap, RequestIrq,
           Acquire, Goto, regVars, envVars
  <1>2a. CASE PlatformInit
    <2>1. mpc' \in MonPlaces /\ held' \subseteq Resources /\ resets' \in Nat
      BY <1>2a DEF PlatformInit, MonType, MonPlaces, Acquiring, Resources, Goto
    <2>2. usbcmd' \in Registers
      <3>1. \/ usbcmd' = Cleared \/ usbcmd' = [usbcmd EXCEPT !.rst = TRUE] \/ usbcmd' = usbcmd
        BY <1>2a DEF PlatformInit, RegistersCleared, regVars
      <3> QED
        BY <3>1, ClearedType DEF MonType, Registers
    <2>3. usbintr' \in BOOLEAN /\ usbsts' \in BOOLEAN /\ devmode' \in BOOLEAN /\ late' \in BOOLEAN
      BY <1>2a DEF PlatformInit, RegistersCleared, MonType, regVars
    <2> QED
      BY <1>2a, <2>1, <2>2, <2>3 DEF PlatformInit, MonType
  <1>3. CASE Err4 \/ Err3 \/ Err2 \/ Err1
    BY <1>3 DEF MonType, MonPlaces, Err4, Err3, Err2, Err1, Release, Goto, regVars, envVars
  <1>4. CASE SetupStopRead \/ SetupResetRead \/ RunRead
    BY <1>4
       DEF MonType, MonPlaces, Stopped, SetupStopRead, SetupResetRead, RunRead, ReadCmd, Goto,
           envVars
  <1>5. CASE SetupStopWrite \/ SetupReset \/ RunWrite
    BY <1>5, ClearedType
       DEF MonType, MonPlaces, Stopped, Registers, SetupStopWrite, SetupReset, RunWrite,
           WriteCmd, Goto, envVars
  <1>6. CASE SetupWaitDone \/ SetupTimeout
    BY <1>6 DEF MonType, MonPlaces, Stopped, SetupWaitDone, SetupTimeout, Goto, regVars, envVars
  <1>7. CASE SetupMode
    BY <1>7 DEF MonType, MonPlaces, Stopped, SetupMode, Goto, envVars
  <1>8. CASE RunIntr \/ RemoveIntr
    BY <1>8 DEF MonType, MonPlaces, Stopped, RunIntr, RemoveIntr, WriteIntr, Goto, envVars
  <1>9. CASE RemoveRead
    BY <1>9 DEF MonType, MonPlaces, RemoveRead, ReadCmd, Goto, envVars
  <1>10. CASE RemoveWrite
    BY <1>10, ClearedType DEF MonType, MonPlaces, Registers, RemoveWrite, WriteCmd, Goto, envVars
  <1>11. CASE FreeIrq \/ Iounmap \/ ReleaseRegion \/ PlatformUninit
    BY <1>11
       DEF MonType, MonPlaces, FreeIrq, Iounmap, ReleaseRegion, PlatformUninit, Release, Goto,
           regVars, envVars
  <1>12. CASE RmmodUnbound
    BY <1>12 DEF MonType, MonPlaces, RmmodUnbound, Goto, regVars, envVars
  <1>13. CASE Irq
    <2>1. CASE Interrupting
      <3>1. usbcmd' = [usbcmd EXCEPT !.run = FALSE]
            /\ usbsts' = FALSE /\ usbintr' = FALSE
            /\ UNCHANGED <<mpc, held, devmode, tmp, resets, late>>
        BY <1>13, <2>1 DEF Irq
      <3>2. usbcmd' \in Registers
        BY <3>1 DEF MonType, Registers
      <3>3. uevents' \in Nat /\ lost' \in Nat
        BY <1>13, <2>1 DEF Irq, MonType
      <3> QED
        BY <3>1, <3>2, <3>3 DEF MonType
    <2>2. CASE ~Interrupting
      BY <1>13, <2>2 DEF MonType, Irq
    <2> QED
      BY <2>1, <2>2
  <1>14. CASE ControllerResets
    BY <1>14 DEF MonType, Registers, ControllerResets, RegistersCleared, Cleared, envVars
  <1>15. CASE Plug
    BY <1>15 DEF MonType, Plug, regVars
  <1>16. CASE BusReset
    BY <1>16 DEF MonType, BusReset
  <1>17. CASE OtherDriver
    BY <1>17 DEF OtherDriver, MonType, MonPlaces, Registers, envVars
  <1> QED
    BY <1>1, <1>2, <1>2a, <1>3, <1>4, <1>5, <1>6, <1>7, <1>8, <1>9, <1>10, <1>11, <1>12, <1>13, <1>14,
         <1>15, <1>16, <1>17
       DEF MonNext, Probe, Remove, Cable

\* Every step acquires or releases what its place in probe or remove says.
LEMMA NextHeldInv ==
    ASSUME MonType, HeldInv, MonNext
    PROVE  HeldInv'
  <1>1. CASE Insmod
    BY <1>1 DEF HeldInv, Resources, Without, Insmod, Goto
  <1>2. CASE RequestRegion \/ Ioremap \/ RequestIrq
    BY <1>2 DEF HeldInv, Resources, Without, RequestRegion, Ioremap, RequestIrq, Acquire, Goto
  <1>2a. CASE PlatformInit
    BY <1>2a DEF PlatformInit, HeldInv, Resources, Without, Goto
  <1>3. CASE Err4 \/ Err3 \/ Err2 \/ Err1
    BY <1>3 DEF HeldInv, Resources, Without, Err4, Err3, Err2, Err1, Release, Goto
  <1>4. CASE SetupStopRead \/ SetupResetRead \/ RunRead
    BY <1>4
       DEF HeldInv, Resources, Without, SetupStopRead, SetupResetRead, RunRead, ReadCmd, Goto
  <1>5. CASE SetupStopWrite \/ SetupReset \/ RunWrite
    BY <1>5
       DEF HeldInv, Resources, Without, SetupStopWrite, SetupReset, RunWrite, WriteCmd,
           Cleared, Goto
  <1>6. CASE SetupWaitDone \/ SetupTimeout
    BY <1>6 DEF HeldInv, Resources, Without, SetupWaitDone, SetupTimeout, Goto
  <1>7. CASE SetupMode
    BY <1>7 DEF HeldInv, Resources, Without, SetupMode, Goto
  <1>8. CASE RunIntr \/ RemoveIntr
    BY <1>8 DEF HeldInv, Resources, Without, RunIntr, RemoveIntr, WriteIntr, Goto
  <1>9. CASE RemoveRead
    BY <1>9 DEF HeldInv, Resources, Without, RemoveRead, ReadCmd, Goto
  <1>10. CASE RemoveWrite
    BY <1>10 DEF HeldInv, Resources, Without, RemoveWrite, WriteCmd, Goto, envVars
  <1>11. CASE FreeIrq \/ Iounmap \/ ReleaseRegion \/ PlatformUninit
    BY <1>11
       DEF HeldInv, Resources, Without, FreeIrq, Iounmap, ReleaseRegion, PlatformUninit,
           Release, Goto
  <1>12. CASE RmmodUnbound
    BY <1>12 DEF HeldInv, Resources, Without, RmmodUnbound, Goto
  <1>13. CASE Irq
    BY <1>13 DEF HeldInv, Resources, Without, Irq, Interrupting
  <1>14. CASE ControllerResets
    BY <1>14 DEF HeldInv, ControllerResets
  <1>15. CASE Plug
    BY <1>15 DEF HeldInv, Resources, Without, Plug, regVars
  <1>16. CASE BusReset
    BY <1>16 DEF HeldInv, Resources, Without, BusReset
  <1>17. CASE OtherDriver
    BY <1>17 DEF OtherDriver, HeldInv
  <1> QED
    BY <1>1, <1>2, <1>2a, <1>3, <1>4, <1>5, <1>6, <1>7, <1>8, <1>9, <1>10, <1>11, <1>12, <1>13, <1>14,
         <1>15, <1>16, <1>17
       DEF MonNext, Probe, Remove, Cable

\* Every step keeps the interrupts off and the controller stopped where the driver
\* relies on it.
LEMMA NextSetupInv ==
    ASSUME MonType, HeldInv, SetupInv, MonNext
    PROVE  SetupInv'
  <1>1. CASE Insmod
    BY <1>1 DEF SetupInv, Stopped, NotYet, Insmod, Goto
  <1>2. CASE RequestRegion \/ Ioremap \/ RequestIrq
    BY <1>2
       DEF SetupInv, Acquiring, Stopped, Listening, NotYet, RequestRegion, Ioremap,
           RequestIrq, Acquire, Goto, regVars, envVars
  <1>2a. CASE PlatformInit
    BY <1>2a
       DEF PlatformInit, RegistersCleared, SetupInv, Acquiring, Stopped, Listening, NotYet,
           Goto, regVars
  <1>3. CASE Err4 \/ Err3 \/ Err2 \/ Err1
    BY <1>3
       DEF SetupInv, Acquiring, Stopped, NotYet, Err4, Err3, Err2, Err1, Release, Goto,
           regVars
  <1>4. CASE SetupStopRead \/ SetupResetRead \/ RunRead
    BY <1>4
       DEF SetupInv, Stopped, Listening, NotYet, SetupStopRead, SetupResetRead, RunRead, ReadCmd,
           Goto, envVars
  <1>5. CASE SetupStopWrite \/ SetupReset \/ RunWrite
    BY <1>5
       DEF SetupInv, MonType, Registers, Stopped, Listening, NotYet, SetupStopWrite, SetupReset,
           RunWrite, WriteCmd, Cleared, Goto, envVars
  <1>6. CASE SetupWaitDone \/ SetupTimeout
    BY <1>6
       DEF SetupInv, Stopped, Listening, NotYet, SetupWaitDone, SetupTimeout, Goto, regVars,
           envVars
  <1>7. CASE SetupMode
    BY <1>7 DEF SetupInv, Stopped, Listening, NotYet, SetupMode, Goto, envVars
  <1>8. CASE RunIntr \/ RemoveIntr
    BY <1>8 DEF SetupInv, Acquiring, Stopped, Listening, RunIntr, RemoveIntr, WriteIntr, Goto
  <1>9. CASE RemoveRead
    BY <1>9 DEF SetupInv, Acquiring, Stopped, Listening, NotYet, RemoveRead, ReadCmd, Goto
  <1>10. CASE RemoveWrite
    BY <1>10
       DEF SetupInv, Acquiring, Stopped, Listening, NotYet, RemoveWrite, WriteCmd, Cleared,
           Goto
  <1>11. CASE FreeIrq \/ Iounmap \/ ReleaseRegion \/ PlatformUninit
    BY <1>11
       DEF SetupInv, Acquiring, Stopped, Listening, NotYet, FreeIrq, Iounmap, ReleaseRegion,
           PlatformUninit, Release, Goto, regVars
  <1>12. CASE RmmodUnbound
    BY <1>12 DEF SetupInv, Acquiring, Stopped, NotYet, RmmodUnbound, Goto, regVars
  <1>13. CASE Irq
    <2>1. CASE Interrupting
      <3>1. usbcmd' = [usbcmd EXCEPT !.run = FALSE] /\ usbsts' = FALSE /\ usbintr' = FALSE
            /\ "irq" \in held /\ usbintr /\ UNCHANGED <<mpc, tmp, late>>
        BY <1>13, <2>1 DEF Irq, Interrupting
      <3>2. ~late => mpc \in Listening
        BY <3>1 DEF SetupInv, HeldInv, Resources, Without, NotYet
      <3>3. mpc \in Stopped => ~usbcmd'.run
        BY <3>1 DEF MonType, Registers
      <3> QED
        BY <3>1, <3>2, <3>3 DEF SetupInv
    <2>2. CASE ~Interrupting
      BY <1>13, <2>2 DEF Irq, SetupInv
    <2> QED
      BY <2>1, <2>2
  <1>14. CASE ControllerResets
    BY <1>14 DEF SetupInv, ControllerResets, RegistersCleared, Cleared, envVars
  <1>15. CASE Plug
    BY <1>15 DEF SetupInv, Plug, regVars
  <1>16. CASE BusReset
    BY <1>16 DEF SetupInv, Stopped, BusReset
  <1>17. CASE OtherDriver
    BY <1>17 DEF OtherDriver, SetupInv, Stopped, NotYet, envVars
  <1> QED
    BY <1>1, <1>2, <1>2a, <1>3, <1>4, <1>5, <1>6, <1>7, <1>8, <1>9, <1>10, <1>11, <1>12, <1>13, <1>14,
         <1>15, <1>16, <1>17
       DEF MonNext, Probe, Remove, Cable

\* Every step keeps a controller that runs listening, and stopped when it has told.
LEMMA NextRunInv ==
    ASSUME MonType, HeldInv, SetupInv, RunInv, MonNext
    PROVE  RunInv'
  <1>1. CASE Insmod
    BY <1>1 DEF MonType, RunInv, SetUp, Insmod, Goto
  <1>2. CASE RequestRegion \/ Ioremap \/ RequestIrq
    BY <1>2 DEF RunInv, SetUp, RequestRegion, Ioremap, RequestIrq, Acquire, Goto, envVars
  <1>2a. CASE PlatformInit
    BY <1>2a DEF PlatformInit, RunInv, SetupInv, Acquiring, Listening, SetUp, Goto
  <1>3. CASE Err4 \/ Err3 \/ Err2 \/ Err1
    BY <1>3 DEF RunInv, SetUp, Err4, Err3, Err2, Err1, Release, Goto, envVars
  <1>4. CASE SetupStopRead \/ SetupResetRead \/ RunRead
    BY <1>4 DEF RunInv, SetUp, SetupStopRead, SetupResetRead, RunRead, ReadCmd, Goto, envVars
  <1>5. CASE SetupStopWrite \/ SetupReset \/ RunWrite
    BY <1>5
       DEF RunInv, MonType, Registers, SetUp, SetupStopWrite, SetupReset, RunWrite, WriteCmd,
           Cleared, Goto, envVars
  <1>6. CASE SetupWaitDone \/ SetupTimeout
    BY <1>6
       DEF RunInv, SetupInv, Listening, Stopped, SetupWaitDone, SetupTimeout, Goto, regVars,
           envVars
  <1>7. CASE SetupMode
    BY <1>7 DEF RunInv, SetUp, SetupMode, Goto, envVars
  <1>8. CASE RunIntr \/ RemoveIntr
    BY <1>8 DEF RunInv, SetUp, RunIntr, RemoveIntr, WriteIntr, Goto, envVars
  <1>9. CASE RemoveRead
    BY <1>9 DEF RunInv, SetUp, RemoveRead, ReadCmd, Goto, envVars
  <1>10. CASE RemoveWrite
    BY <1>10 DEF RunInv, SetUp, RemoveWrite, WriteCmd, Goto, envVars
  <1>11. CASE FreeIrq \/ Iounmap \/ ReleaseRegion \/ PlatformUninit
    BY <1>11
       DEF RunInv, SetUp, FreeIrq, Iounmap, ReleaseRegion, PlatformUninit, Release, Goto,
           envVars
  <1>12. CASE RmmodUnbound
    BY <1>12 DEF RunInv, SetUp, RmmodUnbound, Goto, envVars
  <1>13. CASE Irq
    <2>1. CASE Interrupting /\ ~late
      <3>1. usbcmd' = [usbcmd EXCEPT !.run = FALSE] /\ usbsts' = FALSE /\ usbintr' = FALSE
            /\ "irq" \in held /\ usbintr /\ usbsts /\ UNCHANGED <<mpc, devmode, tmp, resets, late>>
        BY <1>13, <2>1 DEF Irq, Interrupting
      <3>2. mpc \in Listening
        BY <2>1, <3>1 DEF SetupInv, HeldInv, Resources, Without, NotYet
      <3>3. mpc = "idle" /\ usbcmd.rst = FALSE /\ uevents + lost = 0 /\ resets >= 1
        BY <2>1, <3>1, <3>2 DEF RunInv, SetUp, Listening
      <3>4. uevents' + lost' = 1
        BY <1>13, <2>1, <3>3 DEF Irq, MonType
      <3>5. usbcmd'.run = FALSE /\ usbcmd'.rst = FALSE
        BY <3>1, <3>3 DEF MonType, Registers
      <3> QED
        BY <3>1, <3>3, <3>4 DEF RunInv
    <2>2. CASE ~Interrupting
      BY <1>13, <2>2 DEF Irq, RunInv
    <2>3. CASE late
      BY <1>13, <2>3 DEF Irq, RunInv
    <2> QED
      BY <2>1, <2>2, <2>3
  <1>14. CASE ControllerResets
    BY <1>14 DEF RunInv, SetUp, ControllerResets, envVars
  <1>15. CASE Plug
    BY <1>15 DEF RunInv, Plug, regVars
  <1>16. CASE BusReset
    BY <1>16 DEF RunInv, MonType, SetupInv, SetUp, Stopped, BusReset
  <1>17. CASE OtherDriver
    BY <1>17 DEF OtherDriver, RunInv, SetUp, envVars
  <1> QED
    BY <1>1, <1>2, <1>2a, <1>3, <1>4, <1>5, <1>6, <1>7, <1>8, <1>9, <1>10, <1>11, <1>12, <1>13, <1>14,
         <1>15, <1>16, <1>17
       DEF MonNext, Probe, Remove, Cable

\* The monitor keeps its invariant, through a loss of power too.
LEMMA NextMonInv ==
    ASSUME MonInv, [Next]_vars
    PROVE  MonInv'
  <1>1. CASE Reboot \/ PowerLoss
    <2>1. MonStart(mpc', held', usbcmd', usbintr', usbsts', devmode', tmp', plugged', resets',
                   uevents', lost', late')
      BY <1>1 DEF Reboot, PowerLoss, VolatileLost
    <2>2. MonType'
      BY <2>1 DEF MonStart, Cleared, MonType, MonPlaces, Registers
    <2>3. HeldInv'
      BY <2>1 DEF MonStart, HeldInv, Resources, Without
    <2>4. SetupInv'
      BY <2>1 DEF MonStart, SetupInv, Acquiring, Stopped, NotYet
    <2>5. RunInv'
      BY <2>1 DEF MonStart, RunInv, SetUp
    <2> QED
      BY <2>2, <2>3, <2>4, <2>5 DEF MonInv
  <1>2. CASE User(MonNext)
    BY <1>2, NextMonType, NextHeldInv, NextSetupInv, NextRunInv DEF User, MonInv
  <1>3. CASE UNCHANGED monVars
    BY <1>3 DEF monVars, MonInv, MonType, HeldInv, SetupInv, RunInv
  <1>4. UNCHANGED monVars \/ Reboot \/ PowerLoss \/ User(MonNext)
    BY DEF Next, vars, BootSplash, BootUpdate, SplashOver, SwitchRoot, Splash, Update
  <1> QED
    BY <1>1, <1>2, <1>3, <1>4


-----------------------------------------------------------------------------
(* The words of a drawing.                                                 *)

\* What is left of a sequence from its k-th element on.
LEMMA SuffixFacts ==
    ASSUME NEW S, NEW s \in Seq(S), NEW k \in 1 .. Len(s)
    PROVE  /\ Suffix(s, k) # <<>> /\ Len(Suffix(s, k)) = Len(s) - k + 1
           /\ Head(Suffix(s, k)) = s[k]
           /\ k < Len(s) => Tail(Suffix(s, k)) = Suffix(s, k + 1)
  <1>1. Len(s) \in Nat /\ Len(Suffix(s, k)) = Len(s) - k + 1
    BY LenProperties, SubSeqProperties DEF Suffix
  <1>2. Suffix(s, k) # <<>>
    BY <1>1
  <1> QED
    BY <1>1, <1>2, HeadTailOfSubSeq DEF Suffix

\* A sequence from its first element on.
LEMMA SuffixAll == ASSUME NEW S, NEW s \in Seq(S) PROVE Suffix(s, 1) = s
  BY SubSeqFull DEF Suffix

\* n data words.
LEMMA WordsFacts ==
    ASSUME NEW v \in WordValues, NEW n \in Nat
    PROVE  /\ Words(v, n) \in Seq(WordSet) /\ Len(Words(v, n)) = n
           /\ \A i \in 1 .. n : Words(v, n)[i] = Data(v)
  <1>1. Data(v) \in WordSet
    BY DEF Data, WordSet
  <1> QED
    BY <1>1 DEF Words

\* The k-th word by the part of the drawing that it is in.
LEMMA FrameWordFacts ==
    ASSUME NEW k \in 1 .. Length
    PROVE  /\ k = 1 => FrameWord(k) = Command("ld_img_area")
           /\ 1 < k /\ k < ARGS + 2 => FrameWord(k) = Data("arg")
           /\ k = ARGS + 2 => FrameWord(k) = Command("wr_reg")
           /\ k = ARGS + 3 => FrameWord(k) = Data("0x154")
           /\ ARGS + 3 < k /\ k < ARGS + PIXELS + 4 => FrameWord(k) = Data("pixel")
           /\ k = ARGS + PIXELS + 4 => FrameWord(k) = Command("ld_img_end")
           /\ k = ARGS + PIXELS + 5 => FrameWord(k) = Wait
           /\ k = ARGS + PIXELS + 6 => FrameWord(k) = Command("upd_part_area")
           /\ k > ARGS + PIXELS + 6 => FrameWord(k) = Data("arg")
  BY BsChipAssumption DEF FrameWord, Length

\* Where the words of two sequences are in their concatenation.
LEMMA ConcatFacts ==
    ASSUME NEW s \in Seq(WordSet), NEW t \in Seq(WordSet)
    PROVE  /\ s \o t \in Seq(WordSet) /\ Len(s \o t) = Len(s) + Len(t)
           /\ \A i \in 1 .. Len(s) : (s \o t)[i] = s[i]
           /\ \A i \in Len(s) + 1 .. Len(s) + Len(t) : (s \o t)[i] = t[i - Len(s)]
  OBVIOUS

\* The words of an image load, one after the other.
LEMMA LoadFacts ==
    /\ bs_cmd_ld_img_area_data \in Seq(WordSet)
    /\ Len(bs_cmd_ld_img_area_data) = ARGS + PIXELS + 4
    /\ \A k \in 1 .. ARGS + PIXELS + 4 : bs_cmd_ld_img_area_data[k] = FrameWord(k)
  <1> DEFINE a == <<Command("ld_img_area")>>
             b == Words("arg", ARGS)
             c == <<Command("wr_reg"), Data("0x154")>>
             d == Words("pixel", PIXELS)
             e == <<Command("ld_img_end")>>
             ab == a \o b
             abc == ab \o c
             abcd == abc \o d
             abcde == abcd \o e
  <1>0. ARGS \in Nat /\ PIXELS \in Nat /\ ARGS > 0 /\ PIXELS > 0
    BY BsChipAssumption
  <1>1. /\ a \in Seq(WordSet) /\ Len(a) = 1 /\ b \in Seq(WordSet) /\ Len(b) = ARGS
        /\ c \in Seq(WordSet) /\ Len(c) = 2 /\ d \in Seq(WordSet) /\ Len(d) = PIXELS
        /\ e \in Seq(WordSet) /\ Len(e) = 1
    <2>1. Command("ld_img_area") \in WordSet /\ Command("wr_reg") \in WordSet
          /\ Command("ld_img_end") \in WordSet /\ Data("0x154") \in WordSet
      BY DEF Command, Data, WordSet, WordValues
    <2>2. "arg" \in WordValues /\ "pixel" \in WordValues
      BY DEF WordValues
    <2> QED
      BY <1>0, <2>1, <2>2, WordsFacts
  <1>2. /\ a[1] = Command("ld_img_area") /\ \A i \in 1 .. ARGS : b[i] = Data("arg")
        /\ c[1] = Command("wr_reg") /\ c[2] = Data("0x154")
        /\ \A i \in 1 .. PIXELS : d[i] = Data("pixel")
        /\ e[1] = Command("ld_img_end")
    BY <1>0, WordsFacts DEF WordValues
  <1> HIDE DEF a, b, c, d, e
  <1>3. /\ ab \in Seq(WordSet) /\ Len(ab) = Len(a) + Len(b)
        /\ \A i \in 1 .. Len(a) : ab[i] = a[i]
        /\ \A i \in Len(a) + 1 .. Len(a) + Len(b) : ab[i] = b[i - Len(a)]
    BY <1>1, ConcatFacts
  <1> HIDE DEF ab
  <1>4. /\ abc \in Seq(WordSet) /\ Len(abc) = Len(ab) + Len(c)
        /\ \A i \in 1 .. Len(ab) : abc[i] = ab[i]
        /\ \A i \in Len(ab) + 1 .. Len(ab) + Len(c) : abc[i] = c[i - Len(ab)]
    BY <1>1, <1>3, ConcatFacts
  <1> HIDE DEF abc
  <1>5. /\ abcd \in Seq(WordSet) /\ Len(abcd) = Len(abc) + Len(d)
        /\ \A i \in 1 .. Len(abc) : abcd[i] = abc[i]
        /\ \A i \in Len(abc) + 1 .. Len(abc) + Len(d) : abcd[i] = d[i - Len(abc)]
    BY <1>1, <1>4, ConcatFacts
  <1> HIDE DEF abcd
  <1>6. /\ abcde \in Seq(WordSet) /\ Len(abcde) = Len(abcd) + Len(e)
        /\ \A i \in 1 .. Len(abcd) : abcde[i] = abcd[i]
        /\ \A i \in Len(abcd) + 1 .. Len(abcd) + Len(e) : abcde[i] = e[i - Len(abcd)]
    BY <1>1, <1>5, ConcatFacts
  <1> HIDE DEF abcde
  <1>7. bs_cmd_ld_img_area_data = abcde
    BY DEF bs_cmd_ld_img_area_data, bs_cmd_ld_img_area, bs_cmd_wr_data, bs_cmd_ld_img_end,
       a, b, c, d, e, ab, abc, abcd, abcde
  <1>8. Len(ab) = ARGS + 1 /\ Len(abc) = ARGS + 3 /\ Len(abcd) = ARGS + PIXELS + 3
        /\ Len(abcde) = ARGS + PIXELS + 4
    BY <1>0, <1>1, <1>3, <1>4, <1>5, <1>6
  <1>9. ASSUME NEW k \in 1 .. ARGS + PIXELS + 4 PROVE abcde[k] = FrameWord(k)
    <2>1. k \in 1 .. Length /\ k \in Nat /\ k >= 1
      BY <1>0 DEF Length
    <2>a. k < ARGS + PIXELS + 4 => abcde[k] = abcd[k]
      <3>1. k < ARGS + PIXELS + 4 => k \in 1 .. Len(abcd)
        BY <1>0, <1>8, <2>1
      <3> QED
        BY <1>6, <3>1
    <2>b. k < ARGS + 4 => abcd[k] = abc[k]
      <3>1. k < ARGS + 4 => k \in 1 .. Len(abc)
        BY <1>0, <1>8, <2>1
      <3> QED
        BY <1>5, <3>1
    <2>c. k < ARGS + 2 => abc[k] = ab[k]
      <3>1. k < ARGS + 2 => k \in 1 .. Len(ab)
        BY <1>0, <1>8, <2>1
      <3> QED
        BY <1>4, <3>1
    <2>2. CASE k < ARGS + 2
      <3>1. abcde[k] = ab[k]
        BY <1>0, <2>1, <2>2, <2>a, <2>b, <2>c
      <3>2. k = 1 => ab[k] = Command("ld_img_area")
        BY <1>1, <1>2, <1>3
      <3>3. k > 1 => ab[k] = b[k - 1] /\ k - 1 \in 1 .. ARGS
        BY <1>0, <1>1, <1>3, <2>1, <2>2
      <3> QED
        BY <1>2, <2>1, <2>2, <3>1, <3>2, <3>3, FrameWordFacts
    <2>3. CASE k = ARGS + 2 \/ k = ARGS + 3
      <3>1. abcde[k] = abc[k]
        BY <1>0, <2>1, <2>3, <2>a, <2>b
      <3>2. abc[k] = c[k - (ARGS + 1)]
        <4>1. k \in Len(ab) + 1 .. Len(ab) + Len(c)
          BY <1>0, <1>1, <1>8, <2>3
        <4> QED
          BY <1>4, <1>8, <4>1
      <3> QED
        BY <1>0, <1>2, <2>1, <2>3, <3>1, <3>2, FrameWordFacts
    <2>4. CASE ARGS + 3 < k /\ k < ARGS + PIXELS + 4
      <3>1. abcde[k] = d[k - (ARGS + 3)] /\ k - (ARGS + 3) \in 1 .. PIXELS
        <4>1. k \in Len(abc) + 1 .. Len(abc) + Len(d) /\ k - (ARGS + 3) \in 1 .. PIXELS
          BY <1>0, <1>1, <1>8, <2>4
        <4> QED
          BY <1>5, <1>8, <2>4, <2>a, <4>1
      <3>2. FrameWord(k) = Data("pixel")
        BY <2>1, <2>4, FrameWordFacts
      <3> QED
        BY <1>2, <3>1, <3>2
    <2>5. CASE k = ARGS + PIXELS + 4
      BY <1>0, <1>1, <1>2, <1>6, <1>8, <2>1, <2>5, FrameWordFacts
    <2> QED
      BY <1>0, <2>1, <2>2, <2>3, <2>4, <2>5
  <1> QED
    BY <1>6, <1>7, <1>8, <1>9

\* The words of a drawing, one after the other.
LEMMA FrameFacts ==
    /\ Frame \in Seq(WordSet) /\ Len(Frame) = Length /\ Length \in Nat
    /\ \A k \in 1 .. Length : Frame[k] = FrameWord(k)
  <1> DEFINE a == bs_cmd_ld_img_area_data
             b == <<Wait>>
             c == <<Command("upd_part_area")>>
             d == Words("arg", ARGS)
             cd == c \o d
             bcd == b \o cd
             abcd == a \o bcd
  <1>0. ARGS \in Nat /\ PIXELS \in Nat /\ ARGS > 0 /\ PIXELS > 0
    BY BsChipAssumption
  <1>1. /\ a \in Seq(WordSet) /\ Len(a) = ARGS + PIXELS + 4
        /\ b \in Seq(WordSet) /\ Len(b) = 1 /\ c \in Seq(WordSet) /\ Len(c) = 1
        /\ d \in Seq(WordSet) /\ Len(d) = ARGS
    BY <1>0, WordsFacts, LoadFacts DEF Command, Wait, WordSet, WordValues
  <1>2. /\ \A k \in 1 .. ARGS + PIXELS + 4 : a[k] = FrameWord(k)
        /\ b[1] = Wait /\ c[1] = Command("upd_part_area")
        /\ \A i \in 1 .. ARGS : d[i] = Data("arg")
    BY <1>0, WordsFacts, LoadFacts DEF WordValues
  <1> HIDE DEF a, b, c, d
  <1>3. /\ cd \in Seq(WordSet) /\ Len(cd) = Len(c) + Len(d)
        /\ \A i \in 1 .. Len(c) : cd[i] = c[i]
        /\ \A i \in Len(c) + 1 .. Len(c) + Len(d) : cd[i] = d[i - Len(c)]
    BY <1>1, ConcatFacts
  <1> HIDE DEF cd
  <1>4. /\ bcd \in Seq(WordSet) /\ Len(bcd) = Len(b) + Len(cd)
        /\ \A i \in 1 .. Len(b) : bcd[i] = b[i]
        /\ \A i \in Len(b) + 1 .. Len(b) + Len(cd) : bcd[i] = cd[i - Len(b)]
    BY <1>1, <1>3, ConcatFacts
  <1> HIDE DEF bcd
  <1>5. /\ abcd \in Seq(WordSet) /\ Len(abcd) = Len(a) + Len(bcd)
        /\ \A i \in 1 .. Len(a) : abcd[i] = a[i]
        /\ \A i \in Len(a) + 1 .. Len(a) + Len(bcd) : abcd[i] = bcd[i - Len(a)]
    BY <1>1, <1>4, ConcatFacts
  <1> HIDE DEF abcd
  <1>6. Frame = abcd
    BY DEF Frame, update_area, bs_cmd_upd_part_area, a, b, c, d, cd, bcd, abcd
  <1>7. Len(cd) = ARGS + 1 /\ Len(bcd) = ARGS + 2 /\ Len(abcd) = Length /\ Length \in Nat
    BY <1>0, <1>1, <1>3, <1>4, <1>5 DEF Length
  <1>8. ASSUME NEW k \in 1 .. Length PROVE abcd[k] = FrameWord(k)
    <2> DEFINE i == k - (ARGS + PIXELS + 4)
    <2>0. k \in Nat /\ i \in Int /\ k = i + (ARGS + PIXELS + 4) /\ i <= ARGS + 2
      BY <1>0, <1>7 DEF Length
    <2>1. CASE k <= ARGS + PIXELS + 4
      BY <1>0, <1>1, <1>2, <1>5, <2>0, <2>1
    <2>2. ASSUME k > ARGS + PIXELS + 4 PROVE abcd[k] = bcd[i] /\ i >= 1
      BY <1>0, <1>1, <1>4, <1>5, <1>7, <2>0, <2>2
    <2> HIDE DEF i
    <2>3. CASE i = 1
      <3>1. bcd[1] = Wait
        BY <1>1, <1>2, <1>4
      <3> QED
        BY <1>0, <2>0, <2>2, <2>3, <3>1, FrameWordFacts
    <2>4. CASE i = 2
      <3>1. bcd[2] = cd[1]
        BY <1>0, <1>1, <1>4, <1>7
      <3>2. cd[1] = Command("upd_part_area")
        BY <1>1, <1>2, <1>3
      <3>3. FrameWord(k) = Command("upd_part_area")
        BY <1>0, <2>0, <2>4, FrameWordFacts
      <3> QED
        BY <1>0, <2>0, <2>2, <2>4, <3>1, <3>2, <3>3
    <2>5. CASE i > 2
      <3>1. bcd[i] = cd[i - 1]
        <4>1. i \in Len(b) + 1 .. Len(b) + Len(cd)
          BY <1>0, <1>1, <1>7, <2>0, <2>5
        <4> QED
          BY <1>1, <1>4, <4>1
      <3>2. cd[i - 1] = d[i - 2] /\ i - 2 \in 1 .. ARGS
        <4> DEFINE n == i - 1
        <4>1. n \in 1 + 1 .. 1 + ARGS /\ n - 1 = i - 2 /\ i - 2 \in 1 .. ARGS
          BY <1>0, <2>0, <2>5
        <4>2. \A x \in 1 + 1 .. 1 + ARGS : cd[x] = d[x - 1]
          BY <1>1, <1>3
        <4> HIDE DEF n
        <4>3. cd[n] = d[n - 1]
          BY <4>1, <4>2
        <4> QED
          BY <4>1, <4>3 DEF n
      <3>3. FrameWord(k) = Data("arg")
        BY <1>0, <2>0, <2>5, FrameWordFacts
      <3> QED
        BY <1>0, <1>2, <2>0, <2>2, <3>1, <3>2, <3>3
    <2> QED
      BY <1>0, <2>0, <2>1, <2>3, <2>4, <2>5
  <1> QED
    BY <1>5, <1>6, <1>7, <1>8

-----------------------------------------------------------------------------
(* The chip during a transfer that nothing disturbs.                       *)

\* Every word is a command, a data word or a wait, with its accesses.
LEMMA KindFacts ==
    ASSUME NEW k \in 1 .. Length
    PROVE  LET w == FrameWord(k)
           IN  /\ w.val \in WordValues
               /\ \/ IsCommand(k) /\ ~IsData(k) /\ w.hdc = 0 /\ Accesses(w) = command
                  \/ IsData(k) /\ ~IsCommand(k) /\ w.hdc = 1 /\ Accesses(w) = wr_data
                  \/ ~IsCommand(k) /\ ~IsData(k) /\ k = ARGS + PIXELS + 5
                     /\ Accesses(w) = <<"wait">>
  <1>0. ARGS \in Nat /\ PIXELS \in Nat /\ ARGS > 0 /\ PIXELS > 0 /\ Length = 2 * ARGS + PIXELS + 6
    BY BsChipAssumption DEF Length
  <1>1. CASE k \in {1, ARGS + 2, ARGS + PIXELS + 4, ARGS + PIXELS + 6}
    BY <1>1, FrameWordFacts DEF IsCommand, IsData, Accesses, Command, WordValues
  <1>2. CASE k = ARGS + PIXELS + 5
    BY <1>2, FrameWordFacts DEF IsCommand, IsData, Accesses, Wait, WordValues
  <1>3. CASE k \notin {1, ARGS + 2, ARGS + PIXELS + 4, ARGS + PIXELS + 5, ARGS + PIXELS + 6}
    <2>1. FrameWord(k) \in {Data("arg"), Data("0x154"), Data("pixel")}
      BY <1>0, <1>3, FrameWordFacts
    <2> QED
      BY <2>1 DEF IsCommand, IsData, Accesses, Data, WordValues
  <1> QED
    BY <1>1, <1>2, <1>3

AccessNames == {"wait", "poll", "hdc0", "hdc1", "cs0", "cs1", "we0", "we1", "cswe0", "cswe1",
                "hdb"}

\* The accesses of a command, of a data word and of a wait.
LEMMA AccessFacts ==
    /\ command \in Seq(AccessNames) /\ Len(command) = 7
    /\ command[1] = "wait" /\ command[2] = "hdc0" /\ command[3] = "cs0" /\ command[4] = "we0"
    /\ command[5] = "hdb" /\ command[6] = "we1" /\ command[7] = "cs1"
    /\ wr_data \in Seq(AccessNames) /\ Len(wr_data) = 5
    /\ wr_data[1] = "poll" /\ wr_data[2] = "hdc1" /\ wr_data[3] = "cswe0"
    /\ wr_data[4] = "hdb" /\ wr_data[5] = "cswe1"
    /\ <<"wait">> \in Seq(AccessNames) /\ Len(<<"wait">>) = 1 /\ <<"wait">>[1] = "wait"
  <1>1. command \in Seq(AccessNames) /\ Len(command) = 7
    BY DEF command, AccessNames
  <1>2. /\ command[1] = "wait" /\ command[2] = "hdc0" /\ command[3] = "cs0"
        /\ command[4] = "we0" /\ command[5] = "hdb" /\ command[6] = "we1"
        /\ command[7] = "cs1"
    BY DEF command
  <1>3. wr_data \in Seq(AccessNames) /\ Len(wr_data) = 5
    BY DEF wr_data, AccessNames
  <1>4. /\ wr_data[1] = "poll" /\ wr_data[2] = "hdc1" /\ wr_data[3] = "cswe0"
        /\ wr_data[4] = "hdb" /\ wr_data[5] = "cswe1"
    BY DEF wr_data
  <1>5. <<"wait">> \in Seq(AccessNames) /\ Len(<<"wait">>) = 1 /\ <<"wait">>[1] = "wait"
    BY DEF AccessNames
  <1> QED
    BY <1>1, <1>2, <1>3, <1>4, <1>5

\* The accesses of a word are a sequence that is not empty.
LEMMA AccessesType ==
    ASSUME NEW k \in 1 .. Length
    PROVE  /\ Accesses(FrameWord(k)) \in Seq(AccessNames)
           /\ Len(Accesses(FrameWord(k))) \in Nat \ {0}
  <1>1. \/ Accesses(FrameWord(k)) = command \/ Accesses(FrameWord(k)) = wr_data
        \/ Accesses(FrameWord(k)) = <<"wait">>
    BY KindFacts
  <1>2. /\ command \in Seq(AccessNames) /\ Len(command) = 7
        /\ wr_data \in Seq(AccessNames) /\ Len(wr_data) = 5
        /\ <<"wait">> \in Seq(AccessNames) /\ Len(<<"wait">>) = 1
    BY AccessFacts
  <1>3. Accesses(FrameWord(k)) \in Seq(AccessNames)
    BY <1>1, <1>2
  <1>4. \/ Len(Accesses(FrameWord(k))) = 7 \/ Len(Accesses(FrameWord(k))) = 5
        \/ Len(Accesses(FrameWord(k))) = 1
    BY <1>1, <1>2
  <1>5. 7 \in Nat \ {0} /\ 5 \in Nat \ {0} /\ 1 \in Nat \ {0}
    OBVIOUS
  <1> QED
    BY <1>3, <1>4, <1>5

\* A command is taken where it belongs.
LEMMA CommandReceived ==
    ASSUME NEW k \in 1 .. Length, NEW f \in Nat, chip \in ChipStates, ChipAt(k, f), k < Length,
           NEW v \in CommandNames, chip' = Receive(0, v),
           Left(k) = 0, SessionAt(k) = Session(v)[1],
           Left(k + 1) = Arity(v), SessionAt(k + 1) = Session(v)[2]
    PROVE  ChipAt(k + 1, f)'
  <1>1. Length \in Nat /\ k # Length + 1 /\ k + 1 # Length + 1
    BY BsChipAssumption DEF Length
  <1>2. chip' = [chip EXCEPT !.left = Arity(v), !.session = Session(v)[2]]
    BY DEF Receive, ChipAt
  <1>3. chip'.left = Arity(v) /\ chip'.session = Session(v)[2]
        /\ chip'.intact = chip.intact /\ chip'.frames = chip.frames
    BY <1>2 DEF ChipStates
  <1> QED
    BY <1>1, <1>3 DEF ChipAt

\* A chip that is given the word it waits for waits for the next.
LEMMA ReceiveFacts ==
    ASSUME NEW k \in 1 .. Length, NEW f \in Nat, chip \in ChipStates, ChipAt(k, f),
           IsCommand(k) \/ IsData(k), chip' = Receive(FrameWord(k).hdc, FrameWord(k).val)
    PROVE  ChipAt(k + 1, f)'
  <1>0. /\ ARGS \in Nat /\ PIXELS \in Nat /\ ARGS > 0 /\ PIXELS > 0 /\ k \in Nat
        /\ Length = 2 * ARGS + PIXELS + 6 /\ k >= 1 /\ k <= Length
    BY BsChipAssumption DEF Length
  <1>1. CASE k = 1
    <2>1. FrameWord(k).hdc = 0 /\ FrameWord(k).val = "ld_img_area"
      BY <1>0, <1>1, FrameWordFacts DEF Command
    <2>2. Left(k) = 0 /\ SessionAt(k) = Session("ld_img_area")[1]
          /\ Left(k + 1) = Arity("ld_img_area") /\ SessionAt(k + 1) = Session("ld_img_area")[2]
      BY <1>0, <1>1 DEF Left, SessionAt, Session, Arity
    <2>3. "ld_img_area" \in CommandNames /\ k < Length
      BY <1>0, <1>1 DEF CommandNames
    <2> QED
      BY <2>1, <2>2, <2>3, CommandReceived
  <1>2. CASE k = ARGS + 2
    <2>1. FrameWord(k).hdc = 0 /\ FrameWord(k).val = "wr_reg"
      BY <1>0, <1>2, FrameWordFacts DEF Command
    <2>2. Left(k) = 0 /\ SessionAt(k) = Session("wr_reg")[1]
          /\ Left(k + 1) = Arity("wr_reg") /\ SessionAt(k + 1) = Session("wr_reg")[2]
      BY <1>0, <1>2 DEF Left, SessionAt, Session, Arity
    <2>3. "wr_reg" \in CommandNames /\ k < Length
      BY <1>0, <1>2 DEF CommandNames
    <2> QED
      BY <2>1, <2>2, <2>3, CommandReceived
  <1>3. CASE k = ARGS + PIXELS + 4
    <2>1. FrameWord(k).hdc = 0 /\ FrameWord(k).val = "ld_img_end"
      BY <1>0, <1>3, FrameWordFacts DEF Command
    <2>2. Left(k) = 0 /\ SessionAt(k) = Session("ld_img_end")[1]
          /\ Left(k + 1) = Arity("ld_img_end") /\ SessionAt(k + 1) = Session("ld_img_end")[2]
      BY <1>0, <1>3 DEF Left, SessionAt, Session, Arity
    <2>3. "ld_img_end" \in CommandNames /\ k < Length
      BY <1>0, <1>3 DEF CommandNames
    <2> QED
      BY <2>1, <2>2, <2>3, CommandReceived
  <1>4. CASE k = ARGS + PIXELS + 6
    <2>1. FrameWord(k).hdc = 0 /\ FrameWord(k).val = "upd_part_area"
      BY <1>0, <1>4, FrameWordFacts DEF Command
    <2>2. Left(k) = 0 /\ SessionAt(k) = Session("upd_part_area")[1]
          /\ Left(k + 1) = Arity("upd_part_area") /\ SessionAt(k + 1) = Session("upd_part_area")[2]
      BY <1>0, <1>4 DEF Left, SessionAt, Session, Arity
    <2>3. "upd_part_area" \in CommandNames /\ k < Length
      BY <1>0, <1>4 DEF CommandNames
    <2> QED
      BY <2>1, <2>2, <2>3, CommandReceived
  <1>5. CASE k = ARGS + PIXELS + 5
    BY <1>0, <1>5, FrameWordFacts DEF IsCommand, IsData, Wait
  <1>6. CASE k \notin {1, ARGS + 2, ARGS + PIXELS + 4, ARGS + PIXELS + 5, ARGS + PIXELS + 6}
    <2>1. FrameWord(k) \in {Data("arg"), Data("0x154"), Data("pixel")}
      BY <1>0, <1>6, FrameWordFacts
    <2>2. FrameWord(k).hdc = 1 /\ FrameWord(k).val \notin CommandNames
      BY <2>1 DEF Data, CommandNames
    <2>3. Left(k) \in Nat /\ Left(k) > 0 /\ Left(k + 1) = Left(k) - 1
          /\ SessionAt(k + 1) = SessionAt(k)
      BY <1>0, <1>6 DEF Left, SessionAt
    <2>4. k = Length <=> Left(k) = 1 /\ SessionAt(k) = "none"
      BY <1>0, <1>6 DEF Left, SessionAt
    <2>5. chip.left = Left(k) /\ chip.session = SessionAt(k) /\ chip.intact = TRUE
          /\ chip.frames = f /\ chip.frames \in Nat
      BY <1>0 DEF ChipAt
    <2>6. chip' = [chip EXCEPT !.left   = @ - 1,
                               !.frames = IF chip.left = 1 /\ chip.session = "none"
                                            THEN @ + 1 ELSE @]
      BY <2>2, <2>3, <2>5 DEF Receive
    <2>7. /\ chip'.left = chip.left - 1 /\ chip'.session = chip.session
          /\ chip'.intact = chip.intact
          /\ chip'.frames = IF chip.left = 1 /\ chip.session = "none" THEN f + 1 ELSE f
      BY <2>5, <2>6 DEF ChipStates
    <2>8. k = Length <=> k + 1 = Length + 1
      BY <1>0
    <2> QED
      BY <2>3, <2>4, <2>5, <2>7, <2>8 DEF ChipAt
  <1> QED
    BY <1>1, <1>2, <1>3, <1>4, <1>5, <1>6

\* Around a drawing: the wait between its two parts says nothing to the chip, and the end
\* of one is where the next starts.
LEMMA LeftFacts ==
    /\ Left(ARGS + PIXELS + 6) = Left(ARGS + PIXELS + 5)
    /\ SessionAt(ARGS + PIXELS + 6) = SessionAt(ARGS + PIXELS + 5)
    /\ Left(Length + 1) = 0 /\ Left(1) = 0
    /\ SessionAt(Length + 1) = "none" /\ SessionAt(1) = "none"
    /\ ARGS + PIXELS + 6 # Length + 1 /\ ARGS + PIXELS + 5 # Length + 1
    /\ 1 # Length + 1
  BY BsChipAssumption DEF Left, SessionAt, Length

\* What a context in a transfer is about to do.
LEMMA SendingFacts ==
    ASSUME NEW k \in 1 .. Length, NEW j \in 1 .. Len(Accesses(FrameWord(k))), NEW v
    PROVE  /\ Sending(k, j, v).todo # <<>>
           /\ Head(Sending(k, j, v).todo) = FrameWord(k)
           /\ Head(Sending(k, j, v).prog) = Accesses(FrameWord(k))[j]
           /\ Sending(k, j, v).x = v
  <1>1. Suffix(Frame, k) # <<>> /\ Head(Suffix(Frame, k)) = FrameWord(k)
    BY FrameFacts, SuffixFacts
  <1>2. Head(Suffix(Accesses(FrameWord(k)), j)) = Accesses(FrameWord(k))[j]
    BY AccessesType, SuffixFacts
  <1> QED
    BY <1>1, <1>2 DEF Sending

\* A context that starts with a word is before the first access of it.
LEMMA CallingFacts ==
    ASSUME NEW k \in 1 .. Length
    PROVE  Calling(Suffix(Frame, k)) = Sending(k, 1, NULL)
  <1>1. Head(Suffix(Frame, k)) = FrameWord(k)
    BY FrameFacts, SuffixFacts
  <1>2. Suffix(Accesses(FrameWord(k)), 1) = Accesses(FrameWord(k))
    BY AccessesType, SuffixAll
  <1> QED
    BY <1>1, <1>2 DEF Calling, Sending

\* The context after an access: before the next, before the next word, or through.
LEMMA AdvanceFacts ==
    ASSUME NEW k \in 1 .. Length, NEW j \in 1 .. Len(Accesses(FrameWord(k))), NEW v
    PROVE  /\ j < Len(Accesses(FrameWord(k))) =>
                  Advance(Sending(k, j, v)) = Sending(k, j + 1, NULL)
           /\ j = Len(Accesses(FrameWord(k))) /\ k < Length =>
                  Advance(Sending(k, j, v)) = Sending(k + 1, 1, NULL)
           /\ j = Len(Accesses(FrameWord(k))) /\ k = Length =>
                  Advance(Sending(k, j, v)) = IdleBus
  <1> DEFINE A == Accesses(FrameWord(k))
             b == Sending(k, j, v)
  <1>1. b.todo = Suffix(Frame, k) /\ b.prog = Suffix(A, j)
    BY DEF Sending
  <1>2. /\ Len(Suffix(A, j)) = Len(A) - j + 1
        /\ j < Len(A) => Tail(Suffix(A, j)) = Suffix(A, j + 1)
    BY AccessesType, SuffixFacts
  <1>3. /\ Len(Suffix(Frame, k)) = Length - k + 1
        /\ k < Length => Tail(Suffix(Frame, k)) = Suffix(Frame, k + 1)
    BY FrameFacts, SuffixFacts
  <1>4. Len(A) \in Nat /\ Length \in Nat
    BY AccessesType, FrameFacts
  <1>5. ASSUME j < Len(A) PROVE Advance(b) = Sending(k, j + 1, NULL)
    <2>1. Advance(b) = [b EXCEPT !.prog = Tail(@), !.x = NULL]
      BY <1>1, <1>2, <1>4, <1>5 DEF Advance
    <2> DEFINE n == Sending(k, j + 1, NULL)
               R == [todo : {Suffix(Frame, k)}, prog : {Suffix(A, j), Suffix(A, j + 1)},
                     x : {v, NULL}]
    <2>2. b \in R /\ n \in R
      BY DEF Sending
    <2>3. b.prog = Suffix(A, j) /\ Tail(Suffix(A, j)) = Suffix(A, j + 1)
      BY <1>1, <1>2, <1>5
    <2>4. n.todo = b.todo /\ n.prog = Tail(b.prog) /\ n.x = NULL
      BY <2>3 DEF Sending
    <2>5. \A r, s \in R : r.todo = s.todo /\ r.prog = s.prog /\ r.x = s.x => r = s
      OBVIOUS
    <2> HIDE DEF b, n
    <2>6. Advance(b) \in R /\ Advance(b).todo = b.todo /\ Advance(b).prog = Tail(b.prog)
          /\ Advance(b).x = NULL
      BY <2>1, <2>2, <2>3
    <2> HIDE DEF R
    <2>7. Advance(b) = n
      BY <2>2, <2>4, <2>5, <2>6
    <2> QED
      BY <2>7 DEF n
  <1>6. ASSUME j = Len(A), k < Length PROVE Advance(b) = Sending(k + 1, 1, NULL)
    <2>1. ~(Len(b.prog) > 1) /\ Len(b.todo) > 1
      BY <1>1, <1>2, <1>3, <1>4, <1>6
    <2>2. k + 1 \in 1 .. Length
      BY <1>4, <1>6
    <2> QED
      BY <1>1, <1>3, <1>6, <2>1, <2>2, CallingFacts DEF Advance
  <1>7. ASSUME j = Len(A), k = Length PROVE Advance(b) = IdleBus
    <2>1. ~(Len(b.prog) > 1) /\ ~(Len(b.todo) > 1)
      BY <1>1, <1>2, <1>3, <1>4, <1>7
    <2> QED
      BY <2>1 DEF Advance
  <1> QED
    BY <1>5, <1>6, <1>7

\* A step that leaves the pins and the chip alone, unless it makes the chip ready.
LEMMA PinsKept ==
    ASSUME NEW k, NEW j, NEW f, PinsInv(k, j, f), UNCHANGED <<dr, chip>>, hrdy => hrdy'
    PROVE  PinsInv(k, j, f)'
  BY DEF PinsInv, ChipAt

\* A wait that sees the chip ready.
LEMMA ReadySeen ==
    ASSUME NEW k \in 1 .. Length, NEW f \in Nat, PinsInv(k, 1, f), hrdy,
           UNCHANGED <<dr, hrdy, chip>>
    PROVE  /\ IsCommand(k) \/ IsData(k) => PinsInv(k, 2, f)'
           /\ ~IsCommand(k) /\ ~IsData(k) => PinsInv(k + 1, 1, f)'
  <1>1. Parked(k, f) /\ Parked(k, f)'
    BY DEF PinsInv, Parked, ChipAt
  <1>2. IsCommand(k) \/ IsData(k) => PinsInv(k, 2, f)'
    BY <1>1 DEF PinsInv, Parked
  <1>3. ASSUME ~IsCommand(k), ~IsData(k) PROVE PinsInv(k + 1, 1, f)'
    <2>1. k = ARGS + PIXELS + 5 /\ k + 1 = ARGS + PIXELS + 6
      BY <1>3, KindFacts, BsChipAssumption
    <2>2. ChipAt(k + 1, f)
      BY <1>1, <2>1, LeftFacts DEF Parked, ChipAt
    <2> QED
      BY <1>1, <2>2 DEF PinsInv, Parked, ChipAt
  <1> QED
    BY <1>2, <1>3


\* A write that neither resets the chip nor raises HWE_L.
LEMMA QuietWrite ==
    ASSUME NEW v, WriteDr(v), dr.rst = 1, v.rst = 1, dr.cs = 1 \/ dr.we = 1 \/ v.we = 0
    PROVE  dr' = v /\ UNCHANGED <<chip, hrdy>>
  <1>1. ~(v.rst = 0 \/ dr.rst = 0) /\ ~(dr.cs = 0 /\ dr.we = 0 /\ v.we = 1)
    OBVIOUS
  <1> QED
    BY <1>1 DEF WriteDr

\* A write that raises HWE_L of a chip that is selected and ready.
LEMMA LatchWrite ==
    ASSUME NEW v, WriteDr(v), dr.rst = 1, v.rst = 1, dr.cs = 0, dr.we = 0, v.we = 1, hrdy
    PROVE  dr' = v /\ chip' = Receive(dr.hdc, dr.hdb)
  BY DEF WriteDr

\* The write of an access brings the pins to where the next access expects them, and the
\* rising edge of HWE_L gives the chip its word.
LEMMA AccessWritten ==
    ASSUME NEW k \in 1 .. Length, NEW j \in 2 .. Len(Accesses(FrameWord(k))), NEW f \in Nat,
           dr \in Pins, chip \in ChipStates, PinsInv(k, j, f),
           WriteDr(Drive(Accesses(FrameWord(k))[j], FrameWord(k), dr))
    PROVE  /\ dr' \in Pins
           /\ j < Len(Accesses(FrameWord(k))) => PinsInv(k, j + 1, f)'
           /\ j = Len(Accesses(FrameWord(k))) => Parked(k + 1, f)'
  <1> DEFINE A == Accesses(FrameWord(k))
             w == FrameWord(k)
  <1>0. w.val \in WordValues
    BY KindFacts
  <1>1. ASSUME IsCommand(k), ~IsData(k), w.hdc = 0, A = command
        PROVE  dr' \in Pins /\ (j < 7 => PinsInv(k, j + 1, f)') /\ (j = 7 => Parked(k + 1, f)')
    <2>0. Len(A) = 7 /\ j \in 2 .. 7 /\ k + 1 \in Nat
      BY <1>1, AccessFacts
    <2>1. CASE j = 2
      <3> DEFINE v == [dr EXCEPT !.hdc = 0]
      <3>1. WriteDr(v)
        BY <1>1, <2>1, AccessFacts DEF Drive
      <3>2. /\ v \in Pins /\ v.hdc = 0 /\ v.cs = dr.cs /\ v.we = dr.we
            /\ v.rst = dr.rst /\ v.hdb = dr.hdb
        BY <1>0 DEF Pins
      <3>3. dr.rst = 1 /\ dr.cs = 1 /\ dr.we = 1 /\ hrdy
        BY <1>1, <2>1 DEF PinsInv
      <3>4. ChipAt(k, f)
        BY <1>1, <2>1 DEF PinsInv
      <3> HIDE DEF v
      <3>5. dr' = v /\ UNCHANGED <<chip, hrdy>>
        BY <3>1, <3>2, <3>3, QuietWrite
      <3>6. ChipAt(k, f)'
        BY <3>4, <3>5 DEF ChipAt
      <3>7. PinsInv(k, 3, f)'
        BY <1>1, <3>2, <3>3, <3>5, <3>6 DEF PinsInv
      <3> QED
        BY <2>1, <3>2, <3>5, <3>7
    <2>2. CASE j = 3
      <3> DEFINE v == [dr EXCEPT !.cs = 0]
      <3>1. WriteDr(v)
        BY <1>1, <2>2, AccessFacts DEF Drive
      <3>2. /\ v \in Pins /\ v.hdc = dr.hdc /\ v.cs = 0 /\ v.we = dr.we
            /\ v.rst = dr.rst /\ v.hdb = dr.hdb
        BY <1>0 DEF Pins
      <3>3. dr.rst = 1 /\ dr.cs = 1 /\ dr.we = 1 /\ dr.hdc = w.hdc /\ hrdy
        BY <1>1, <2>2 DEF PinsInv
      <3>4. ChipAt(k, f)
        BY <1>1, <2>2 DEF PinsInv
      <3> HIDE DEF v
      <3>5. dr' = v /\ UNCHANGED <<chip, hrdy>>
        BY <3>1, <3>2, <3>3, QuietWrite
      <3>6. ChipAt(k, f)'
        BY <3>4, <3>5 DEF ChipAt
      <3>7. PinsInv(k, 4, f)'
        BY <1>1, <3>2, <3>3, <3>5, <3>6 DEF PinsInv
      <3> QED
        BY <2>2, <3>2, <3>5, <3>7
    <2>3. CASE j = 4
      <3> DEFINE v == [dr EXCEPT !.we = 0]
      <3>1. WriteDr(v)
        BY <1>1, <2>3, AccessFacts DEF Drive
      <3>2. /\ v \in Pins /\ v.hdc = dr.hdc /\ v.cs = dr.cs /\ v.we = 0
            /\ v.rst = dr.rst /\ v.hdb = dr.hdb
        BY <1>0 DEF Pins
      <3>3. dr.rst = 1 /\ dr.cs = 0 /\ dr.we = 1 /\ dr.hdc = w.hdc /\ hrdy
        BY <1>1, <2>3 DEF PinsInv
      <3>4. ChipAt(k, f)
        BY <1>1, <2>3 DEF PinsInv
      <3> HIDE DEF v
      <3>5. dr' = v /\ UNCHANGED <<chip, hrdy>>
        BY <3>1, <3>2, <3>3, QuietWrite
      <3>6. ChipAt(k, f)'
        BY <3>4, <3>5 DEF ChipAt
      <3>7. PinsInv(k, 5, f)'
        BY <1>1, <3>2, <3>3, <3>5, <3>6 DEF PinsInv
      <3> QED
        BY <2>3, <3>2, <3>5, <3>7
    <2>4. CASE j = 5
      <3> DEFINE v == [dr EXCEPT !.hdb = w.val]
      <3>1. WriteDr(v)
        BY <1>1, <2>4, AccessFacts DEF Drive
      <3>2. /\ v \in Pins /\ v.hdc = dr.hdc /\ v.cs = dr.cs /\ v.we = dr.we
            /\ v.rst = dr.rst /\ v.hdb = w.val
        BY <1>0 DEF Pins
      <3>3. dr.rst = 1 /\ dr.cs = 0 /\ dr.we = 0 /\ dr.hdc = w.hdc /\ hrdy
        BY <1>1, <2>4 DEF PinsInv
      <3>4. ChipAt(k, f)
        BY <1>1, <2>4 DEF PinsInv
      <3> HIDE DEF v
      <3>5. dr' = v /\ UNCHANGED <<chip, hrdy>>
        BY <3>1, <3>2, <3>3, QuietWrite
      <3>6. ChipAt(k, f)'
        BY <3>4, <3>5 DEF ChipAt
      <3>7. PinsInv(k, 6, f)'
        BY <1>1, <3>2, <3>3, <3>5, <3>6 DEF PinsInv
      <3> QED
        BY <2>4, <3>2, <3>5, <3>7
    <2>5. CASE j = 6
      <3> DEFINE v == [dr EXCEPT !.we = 1]
      <3>1. WriteDr(v)
        BY <1>1, <2>5, AccessFacts DEF Drive
      <3>2. /\ v \in Pins /\ v.hdc = dr.hdc /\ v.cs = dr.cs /\ v.we = 1
            /\ v.rst = dr.rst /\ v.hdb = dr.hdb
        BY <1>0 DEF Pins
      <3>3. dr.rst = 1 /\ dr.cs = 0 /\ dr.we = 0 /\ dr.hdc = w.hdc /\ dr.hdb = w.val /\ hrdy
        BY <1>1, <2>5 DEF PinsInv
      <3>4. ChipAt(k, f)
        BY <1>1, <2>5 DEF PinsInv
      <3> HIDE DEF v
      <3>5. dr' = v /\ chip' = Receive(w.hdc, w.val)
        BY <3>1, <3>2, <3>3, LatchWrite
      <3>6. ChipAt(k + 1, f)'
        BY <1>1, <3>4, <3>5, ReceiveFacts
      <3>7. PinsInv(k, 7, f)'
        BY <1>1, <3>2, <3>3, <3>5, <3>6 DEF PinsInv
      <3> QED
        BY <2>5, <3>2, <3>5, <3>7
    <2>6. CASE j = 7
      <3> DEFINE v == [dr EXCEPT !.cs = 1]
      <3>1. WriteDr(v)
        BY <1>1, <2>6, AccessFacts DEF Drive
      <3>2. /\ v \in Pins /\ v.hdc = dr.hdc /\ v.cs = 1 /\ v.we = dr.we
            /\ v.rst = dr.rst /\ v.hdb = dr.hdb
        BY <1>0 DEF Pins
      <3>3. dr.rst = 1 /\ dr.cs = 0 /\ dr.we = 1 /\ dr.hdc = w.hdc
        BY <1>1, <2>6 DEF PinsInv
      <3>4. ChipAt(k + 1, f)
        BY <1>1, <2>6 DEF PinsInv
      <3> HIDE DEF v
      <3>5. dr' = v /\ UNCHANGED <<chip, hrdy>>
        BY <3>1, <3>2, <3>3, QuietWrite
      <3>6. ChipAt(k + 1, f)'
        BY <3>4, <3>5 DEF ChipAt
      <3>7. Parked(k + 1, f)'
        BY <1>1, <3>2, <3>3, <3>5, <3>6 DEF Parked
      <3> QED
        BY <2>6, <3>2, <3>5, <3>7
    <2> QED
      BY <2>0, <2>1, <2>2, <2>3, <2>4, <2>5, <2>6
  <1>2. ASSUME IsData(k), ~IsCommand(k), w.hdc = 1, A = wr_data
        PROVE  dr' \in Pins /\ (j < 5 => PinsInv(k, j + 1, f)') /\ (j = 5 => Parked(k + 1, f)')
    <2>0. Len(A) = 5 /\ j \in 2 .. 5 /\ k + 1 \in Nat
      BY <1>2, AccessFacts
    <2>1. CASE j = 2
      <3> DEFINE v == [dr EXCEPT !.hdc = 1]
      <3>1. WriteDr(v)
        BY <1>2, <2>1, AccessFacts DEF Drive
      <3>2. /\ v \in Pins /\ v.hdc = 1 /\ v.cs = dr.cs /\ v.we = dr.we
            /\ v.rst = dr.rst /\ v.hdb = dr.hdb
        BY <1>0 DEF Pins
      <3>3. dr.rst = 1 /\ dr.cs = 1 /\ dr.we = 1 /\ hrdy
        BY <1>2, <2>1 DEF PinsInv
      <3>4. ChipAt(k, f)
        BY <1>2, <2>1 DEF PinsInv
      <3> HIDE DEF v
      <3>5. dr' = v /\ UNCHANGED <<chip, hrdy>>
        BY <3>1, <3>2, <3>3, QuietWrite
      <3>6. ChipAt(k, f)'
        BY <3>4, <3>5 DEF ChipAt
      <3>7. PinsInv(k, 3, f)'
        BY <1>2, <3>2, <3>3, <3>5, <3>6 DEF PinsInv
      <3> QED
        BY <2>1, <3>2, <3>5, <3>7
    <2>2. CASE j = 3
      <3> DEFINE v == [dr EXCEPT !.cs = 0, !.we = 0]
      <3>1. WriteDr(v)
        BY <1>2, <2>2, AccessFacts DEF Drive
      <3>2. /\ v \in Pins /\ v.hdc = dr.hdc /\ v.cs = 0 /\ v.we = 0
            /\ v.rst = dr.rst /\ v.hdb = dr.hdb
        BY <1>0 DEF Pins
      <3>3. dr.rst = 1 /\ dr.cs = 1 /\ dr.we = 1 /\ dr.hdc = w.hdc /\ hrdy
        BY <1>2, <2>2 DEF PinsInv
      <3>4. ChipAt(k, f)
        BY <1>2, <2>2 DEF PinsInv
      <3> HIDE DEF v
      <3>5. dr' = v /\ UNCHANGED <<chip, hrdy>>
        BY <3>1, <3>2, <3>3, QuietWrite
      <3>6. ChipAt(k, f)'
        BY <3>4, <3>5 DEF ChipAt
      <3>7. PinsInv(k, 4, f)'
        BY <1>2, <3>2, <3>3, <3>5, <3>6 DEF PinsInv
      <3> QED
        BY <2>2, <3>2, <3>5, <3>7
    <2>3. CASE j = 4
      <3> DEFINE v == [dr EXCEPT !.hdb = w.val]
      <3>1. WriteDr(v)
        BY <1>2, <2>3, AccessFacts DEF Drive
      <3>2. /\ v \in Pins /\ v.hdc = dr.hdc /\ v.cs = dr.cs /\ v.we = dr.we
            /\ v.rst = dr.rst /\ v.hdb = w.val
        BY <1>0 DEF Pins
      <3>3. dr.rst = 1 /\ dr.cs = 0 /\ dr.we = 0 /\ dr.hdc = w.hdc /\ hrdy
        BY <1>2, <2>3 DEF PinsInv
      <3>4. ChipAt(k, f)
        BY <1>2, <2>3 DEF PinsInv
      <3> HIDE DEF v
      <3>5. dr' = v /\ UNCHANGED <<chip, hrdy>>
        BY <3>1, <3>2, <3>3, QuietWrite
      <3>6. ChipAt(k, f)'
        BY <3>4, <3>5 DEF ChipAt
      <3>7. PinsInv(k, 5, f)'
        BY <1>2, <3>2, <3>3, <3>5, <3>6 DEF PinsInv
      <3> QED
        BY <2>3, <3>2, <3>5, <3>7
    <2>4. CASE j = 5
      <3> DEFINE v == [dr EXCEPT !.cs = 1, !.we = 1]
      <3>1. WriteDr(v)
        BY <1>2, <2>4, AccessFacts DEF Drive
      <3>2. /\ v \in Pins /\ v.hdc = dr.hdc /\ v.cs = 1 /\ v.we = 1
            /\ v.rst = dr.rst /\ v.hdb = dr.hdb
        BY <1>0 DEF Pins
      <3>3. dr.rst = 1 /\ dr.cs = 0 /\ dr.we = 0 /\ dr.hdc = w.hdc /\ dr.hdb = w.val /\ hrdy
        BY <1>2, <2>4 DEF PinsInv
      <3>4. ChipAt(k, f)
        BY <1>2, <2>4 DEF PinsInv
      <3> HIDE DEF v
      <3>5. dr' = v /\ chip' = Receive(w.hdc, w.val)
        BY <3>1, <3>2, <3>3, LatchWrite
      <3>6. ChipAt(k + 1, f)'
        BY <1>2, <3>4, <3>5, ReceiveFacts
      <3>7. Parked(k + 1, f)'
        BY <1>2, <3>2, <3>3, <3>5, <3>6 DEF Parked
      <3> QED
        BY <2>4, <3>2, <3>5, <3>7
    <2> QED
      BY <2>0, <2>1, <2>2, <2>3, <2>4
  <1>3. A = command => Len(A) = 7
    BY AccessFacts
  <1>4. A = wr_data => Len(A) = 5
    BY AccessFacts
  <1>5. A # <<"wait">>
    BY AccessFacts
  <1> QED
    BY <1>1, <1>2, <1>3, <1>4, <1>5, KindFacts


\* Only the first access of a word polls the ready pin, and none sleeps.
LEMMA PollFirst ==
    ASSUME NEW k \in 1 .. Length, NEW j \in 1 .. Len(Accesses(FrameWord(k)))
    PROVE  /\ Accesses(FrameWord(k))[j] \in {"wait", "poll"} <=> j = 1
           /\ Accesses(FrameWord(k))[j] # "sleep"
           /\ IsCommand(k) \/ IsData(k) => Len(Accesses(FrameWord(k))) \in {5, 7}
           /\ ~IsCommand(k) /\ ~IsData(k) => Len(Accesses(FrameWord(k))) = 1
  <1> DEFINE A == Accesses(FrameWord(k))
  <1>1. CASE A = command /\ (IsCommand(k) \/ IsData(k))
    <2>1. Len(A) = 7 /\ j \in 1 .. 7
      BY <1>1, AccessFacts
    <2> QED
      BY <1>1, <2>1, AccessFacts
  <1>2. CASE A = wr_data /\ (IsCommand(k) \/ IsData(k))
    <2>1. Len(A) = 5 /\ j \in 1 .. 5
      BY <1>2, AccessFacts
    <2> QED
      BY <1>2, <2>1, AccessFacts
  <1>3. CASE A = <<"wait">> /\ ~IsCommand(k) /\ ~IsData(k)
    <2>1. Len(A) = 1 /\ j = 1
      BY <1>3, AccessFacts
    <2> QED
      BY <1>3, <2>1, AccessFacts
  <1> QED
    BY <1>1, <1>2, <1>3, KindFacts

\* The access of a transfer is done, and the pins are where the next expects them: the
\* transfer goes on, or the drawing is through.
LEMMA Advanced ==
    ASSUME NEW c \in Contexts, NEW f \in Nat, NEW k \in 1 .. Length,
           NEW j \in 1 .. Len(Accesses(FrameWord(k))), NEW v,
           bus'[c] = Advance(Sending(k, j, v)),
           j < Len(Accesses(FrameWord(k))) => PinsInv(k, j + 1, f)',
           j = Len(Accesses(FrameWord(k))) => Parked(k + 1, f)'
    PROVE  Drawing(c, f)'
  <1> DEFINE A == Accesses(FrameWord(k))
  <1>0. Length \in Nat /\ Len(A) \in Nat /\ j \in Nat /\ k \in Nat
    BY FrameFacts, AccessesType
  <1>1. CASE j < Len(A)
    <2>1. bus'[c] = Sending(k, j + 1, NULL) /\ j + 1 \in 1 .. Len(A)
      BY <1>0, <1>1, AdvanceFacts
    <2>2. ~Idle(c)'
      BY <2>1, SendingFacts DEF Idle
    <2> QED
      BY <1>1, <2>1, <2>2 DEF Drawing, Transfer
  <1>2. CASE j = Len(A) /\ k < Length
    <2>1. bus'[c] = Sending(k + 1, 1, NULL) /\ k + 1 \in 1 .. Length
      BY <1>0, <1>2, AdvanceFacts
    <2>2. 1 \in 1 .. Len(Accesses(FrameWord(k + 1)))
      BY <2>1, AccessesType
    <2>3. ~Idle(c)'
      BY <2>1, <2>2, SendingFacts DEF Idle
    <2>4. PinsInv(k + 1, 1, f)'
      BY <1>2 DEF PinsInv, Parked
    <2> QED
      BY <2>1, <2>2, <2>3, <2>4 DEF Drawing, Transfer
  <1>3. CASE j = Len(A) /\ k = Length
    <2>1. bus'[c] = IdleBus
      BY <1>3, AdvanceFacts
    <2>2. Idle(c)'
      BY <2>1 DEF Idle, IdleBus
    <2>3. ChipAt(Length + 1, f)' <=> ChipAt(1, f + 1)'
      BY LeftFacts DEF ChipAt
    <2> QED
      BY <1>3, <2>2, <2>3 DEF Drawing, Parked
  <1> QED
    BY <1>0, <1>1, <1>2, <1>3

\* A step of a transfer that no wait gives up in.
LEMMA TransferStep ==
    ASSUME NEW c \in Contexts, NEW f \in Nat, SplashType, dr \in Pins,
           Transfer(c, f), BusStep(c), ~gaveUp'
    PROVE  dr' \in Pins /\ Drawing(c, f)'
  <1>a. PICK k \in 1 .. Length : \E j \in 1 .. Len(Accesses(FrameWord(k))) :
            /\ bus[c] = Sending(k, j, NULL) \/ bus[c] = Sending(k, j, dr)
            /\ PinsInv(k, j, f)
    BY DEF Transfer
  <1>1. PICK j \in 1 .. Len(Accesses(FrameWord(k))), v \in {NULL, dr} :
            bus[c] = Sending(k, j, v) /\ PinsInv(k, j, f)
    BY <1>a
  <1> DEFINE A == Accesses(FrameWord(k))
  <1>2. /\ bus[c].todo # <<>> /\ Head(bus[c].todo) = FrameWord(k)
        /\ Head(bus[c].prog) = A[j] /\ bus[c].x = v
    BY <1>1, SendingFacts
  <1>3. /\ A[j] \in {"wait", "poll"} <=> j = 1
        /\ A[j] # "sleep"
        /\ IsCommand(k) \/ IsData(k) => Len(A) \in {5, 7}
        /\ ~IsCommand(k) /\ ~IsData(k) => Len(A) = 1
    BY PollFirst
  <1>4. c \in DOMAIN bus /\ Len(A) \in Nat /\ Len(A) > 0
    BY AccessesType DEF SplashType
  <1>5. CASE SeeReady(c)
    <2>1. A[j] \in {"wait", "poll"} /\ hrdy /\ UNCHANGED <<dr, hrdy, chip>>
          /\ bus' = [bus EXCEPT ![c] = Advance(@)]
      BY <1>2, <1>5 DEF SeeReady, At
    <2>2. j = 1 /\ bus'[c] = Advance(Sending(k, j, v))
      BY <1>1, <1>3, <1>4, <2>1
    <2>3. CASE IsCommand(k) \/ IsData(k)
      <3>1. PinsInv(k, j + 1, f)'
        BY <1>1, <1>3, <2>1, <2>2, <2>3, ReadySeen
      <3>2. Len(A) \in {5, 7} /\ j = 1 /\ \A n \in {5, 7} : n # 1
        BY <1>3, <2>2, <2>3
      <3> HIDE DEF A
      <3>3. ~(j = Len(A))
        BY <3>2, Zenon
      <3> QED
        BY <2>1, <2>2, <3>1, <3>3, Advanced DEF A
    <2>4. CASE ~IsCommand(k) /\ ~IsData(k)
      <3>1. PinsInv(k + 1, 1, f)'
        BY <1>1, <1>3, <2>1, <2>2, <2>4, ReadySeen
      <3>2. Parked(k + 1, f)'
        BY <3>1 DEF PinsInv, Parked
      <3>3. Len(A) = 1 /\ j = 1
        BY <1>3, <2>2, <2>4
      <3> HIDE DEF A
      <3>4. ~(j < Len(A))
        BY <3>3
      <3> QED
        BY <2>1, <2>2, <3>2, <3>4, Advanced DEF A
    <2> QED
      BY <2>3, <2>4
  <1>6. ~WaitGivesUp(c) /\ ~PollGivesUp(c)
    BY DEF WaitGivesUp, PollGivesUp
  <1>7. ~Wake(c)
    BY <1>2, <1>3 DEF Wake, Asleep, At
  <1>8. CASE ReadDr(c)
    <2>1. bus' = [bus EXCEPT ![c].x = dr] /\ UNCHANGED <<dr, hrdy, chip>>
      BY <1>8 DEF ReadDr
    <2>2. bus'[c] = [bus[c] EXCEPT !.x = dr]
      BY <1>4, <2>1
    <2>3. bus'[c] = Sending(k, j, dr)
      <3> DEFINE n == Sending(k, j, dr)
                 b == bus[c]
                 e == bus'[c]
                 R == [todo : {Suffix(Frame, k)}, prog : {Suffix(A, j)}, x : {v, dr}]
      <3>1. b \in R /\ n \in R
        BY <1>1 DEF Sending
      <3>2. n.todo = b.todo /\ n.prog = b.prog /\ n.x = dr
        BY <1>1 DEF Sending
      <3>3. \A r, s \in R : r.todo = s.todo /\ r.prog = s.prog /\ r.x = s.x => r = s
        OBVIOUS
      <3>4. e = [b EXCEPT !.x = dr]
        BY <2>2
      <3> HIDE DEF b, e, n
      <3>5. e \in R /\ e.todo = b.todo /\ e.prog = b.prog /\ e.x = dr
        BY <3>1, <3>4
      <3> HIDE DEF R
      <3>6. e = n
        BY <3>1, <3>2, <3>3, <3>5
      <3> QED
        BY <3>6 DEF e, n
    <2>4. PinsInv(k, j, f)'
      BY <1>1, <2>1, PinsKept
    <2>5. ~Idle(c)'
      BY <2>3, SendingFacts DEF Idle
    <2> QED
      BY <2>1, <2>3, <2>4, <2>5 DEF Drawing, Transfer
  <1>9. CASE SetGpio(c)
    <2>1. /\ A[j] \notin {"wait", "poll", "sleep"} /\ v = dr
          /\ WriteDr(Drive(A[j], FrameWord(k), dr)) /\ bus' = [bus EXCEPT ![c] = Advance(@)]
      BY <1>1, <1>2, <1>9 DEF SetGpio, OnPins
    <2>2. j \in 2 .. Len(A) /\ bus'[c] = Advance(Sending(k, j, v))
      BY <1>1, <1>3, <1>4, <2>1
    <2>3. /\ dr' \in Pins /\ (j < Len(A) => PinsInv(k, j + 1, f)')
          /\ (j = Len(A) => Parked(k + 1, f)')
      BY <1>1, <2>1, <2>2, AccessWritten DEF SplashType
    <2> QED
      BY <2>2, <2>3, Advanced
  <1> QED
    BY <1>5, <1>6, <1>7, <1>8, <1>9 DEF BusStep

-----------------------------------------------------------------------------
(* The steps of the splash.                                                *)

\* What a command asks for, and where it leads, are states of the chip.
LEMMA ArityType ==
    ASSUME NEW v \in CommandNames
    PROVE  Arity(v) \in 0 .. ARGS + PIXELS + 1 /\ Session(v)[2] \in {"none", "area", "pixels"}
  <1>1. CASE v = "ld_img_area"
    BY <1>1, BsChipAssumption DEF Arity, Session
  <1>2. CASE v = "wr_reg"
    BY <1>2, BsChipAssumption DEF Arity, Session
  <1>3. CASE v = "ld_img_end"
    BY <1>3, BsChipAssumption DEF Arity, Session
  <1>4. CASE v = "upd_part_area"
    BY <1>4, BsChipAssumption DEF Arity, Session
  <1> QED
    BY <1>1, <1>2, <1>3, <1>4 DEF CommandNames

\* Whatever word the chip latches, it is in one of its states.
LEMMA ReceiveType ==
    ASSUME chip \in ChipStates, NEW h, NEW v
    PROVE  Receive(h, v) \in ChipStates /\ Damaged \in ChipStates
  <1>1. Damaged \in ChipStates
    BY BsChipAssumption DEF Damaged, ChipStates
  <1>2. CASE h = 0 /\ v \in CommandNames /\ chip.intact
             /\ chip.left = 0 /\ chip.session = Session(v)[1]
    <2>1. Receive(h, v) = [chip EXCEPT !.left = Arity(v), !.session = Session(v)[2]]
      BY <1>2 DEF Receive
    <2>2. Arity(v) \in 0 .. ARGS + PIXELS + 1 /\ Session(v)[2] \in {"none", "area", "pixels"}
      BY <1>2, ArityType
    <2> QED
      BY <1>1, <2>1, <2>2 DEF ChipStates
  <1>3. CASE h = 1 /\ v \notin CommandNames /\ chip.intact /\ chip.left > 0
    <2> DEFINE n == IF chip.left = 1 /\ chip.session = "none" THEN chip.frames + 1
                                                              ELSE chip.frames
    <2>1. Receive(h, v) = [chip EXCEPT !.left = chip.left - 1, !.frames = n]
      BY <1>3 DEF Receive
    <2>2. chip.left - 1 \in 0 .. ARGS + PIXELS + 1 /\ n \in Nat
      BY <1>3, BsChipAssumption DEF ChipStates
    <2> QED
      BY <1>1, <2>1, <2>2 DEF ChipStates
  <1>4. CASE /\ ~(h = 0 /\ v \in CommandNames /\ chip.intact
                  /\ chip.left = 0 /\ chip.session = Session(v)[1])
             /\ ~(h = 1 /\ v \notin CommandNames /\ chip.intact /\ chip.left > 0)
    BY <1>1, <1>4 DEF Receive
  <1> QED
    BY <1>2, <1>3, <1>4

\* A step of one context leaves the other's call alone, and no wait that gave up is
\* forgotten.
LEMMA BusStepFacts ==
    ASSUME SplashType, NEW c \in Contexts, BusStep(c)
    PROVE  /\ hrdy' \in BOOLEAN /\ gaveUp' \in BOOLEAN /\ chip' \in ChipStates
           /\ DOMAIN bus' = Contexts /\ (gaveUp => gaveUp')
           /\ \A d \in Contexts \ {c} : bus'[d] = bus[d]
  <1>1. CASE SeeReady(c) \/ Wake(c)
    BY <1>1 DEF SplashType, SeeReady, Wake
  <1>2. CASE WaitGivesUp(c) \/ PollGivesUp(c)
    BY <1>2 DEF SplashType, WaitGivesUp, PollGivesUp
  <1>3. CASE ReadDr(c)
    BY <1>3 DEF SplashType, ReadDr
  <1>4. CASE SetGpio(c)
    <2>1. PICK v : WriteDr(v)
      BY <1>4 DEF SetGpio
    <2>2. bus' = [bus EXCEPT ![c] = Advance(@)] /\ UNCHANGED gaveUp
      BY <1>4 DEF SetGpio
    <2>3. hrdy' \in BOOLEAN
      BY <2>1 DEF WriteDr, SplashType
    <2>4. chip' \in ChipStates
      BY <2>1, ReceiveType DEF WriteDr, SplashType
    <2> QED
      BY <2>2, <2>3, <2>4 DEF SplashType
  <1> QED
    BY <1>1, <1>2, <1>3, <1>4 DEF BusStep

\* The types, through every step of the splash.
LEMMA NextSplashType ==
    ASSUME SplashType, ImageInv, SplashNext
    PROVE  SplashType'
  <1>0. "init" \in Contexts /\ "softirq" \in Contexts /\ NUM_RECTS \in Nat \ {0}
    BY SplashAssumption
  <1>1. CASE ArmTimer \/ AllocBuf \/ DrawReturns
    BY <1>1 DEF SplashType, ArmTimer, AllocBuf, DrawReturns, bsVars
  <1>2. CASE DrawOutline
    BY <1>2 DEF SplashType, DrawOutline
  <1>3. CASE DrawStep
    BY <1>0, <1>3, BusStepFacts DEF SplashType, DrawStep
  <1>4. CASE TimerFires
    BY <1>4 DEF SplashType, TimerFires
  <1>5. CASE AnimationStep
    BY <1>0, <1>5, BusStepFacts DEF SplashType, AnimationStep
  <1>6. CASE AnimationReturns
    BY <1>0, <1>6 DEF SplashType, ImageInv, AnimationReturns, InAnimation, bsVars
  <1>7. CASE ChipStep
    BY <1>7 DEF SplashType, ChipStep, ChipReady
  <1> QED
    BY <1>1, <1>2, <1>3, <1>4, <1>5, <1>6, <1>7 DEF SplashNext, InitcallStep, SoftirqStep

\* The image and the timer, through every step of the splash.
LEMMA NextImageInv ==
    ASSUME SplashType, ImageInv, CallInv, SplashNext
    PROVE  ImageInv'
  <1>0. NUM_RECTS \in Nat \ {0} /\ progress \in 0 .. NUM_RECTS
    BY SplashAssumption DEF SplashType
  <1>1. CASE ArmTimer
    BY <1>0, <1>1 DEF SplashType, ImageInv, ArmTimer
  <1>2. CASE AllocBuf
    BY <1>0, <1>2 DEF SplashType, ImageInv, AllocBuf
  <1>3. CASE DrawOutline
    BY <1>0, <1>3 DEF SplashType, ImageInv, DrawOutline
  <1>4. CASE DrawStep
    BY <1>0, <1>4 DEF SplashType, ImageInv, DrawStep
  <1>5. CASE DrawReturns
    BY <1>0, <1>5 DEF SplashType, ImageInv, DrawReturns
  <1>6. CASE TimerFires
    BY <1>0, <1>6 DEF SplashType, ImageInv, TimerFires
  <1>7. CASE AnimationStep
    BY <1>0, <1>7 DEF SplashType, ImageInv, AnimationStep
  <1>8. CASE AnimationReturns
    BY <1>0, <1>8 DEF SplashType, ImageInv, AnimationReturns, InAnimation
  <1>9. CASE ChipStep
    BY <1>0, <1>9 DEF SplashType, ImageInv, ChipStep
  <1> QED
    BY <1>1, <1>2, <1>3, <1>4, <1>5, <1>6, <1>7, <1>8, <1>9
       DEF SplashNext, InitcallStep, SoftirqStep

\* Only draw_outline() and animation() are ever in a transfer.
LEMMA NextCallInv ==
    ASSUME SplashType, ImageInv, CallInv, SplashNext
    PROVE  CallInv'
  <1>0. /\ "init" \in DOMAIN bus /\ "softirq" \in DOMAIN bus /\ "init" # "softirq"
        /\ "init" \in Contexts /\ "softirq" \in Contexts
    BY SplashAssumption DEF SplashType
  <1>1. CASE ArmTimer \/ AllocBuf \/ DrawReturns
    BY <1>1 DEF ImageInv, CallInv, Idle, ArmTimer, AllocBuf, DrawReturns, bsVars
  <1>2. CASE DrawOutline
    <2>1. bus'["softirq"] = bus["softirq"]
      BY <1>0, <1>2 DEF DrawOutline
    <2> QED
      BY <1>2, <2>1 DEF CallInv, Idle, DrawOutline
  <1>3. CASE DrawStep
    <2>1. bus'["softirq"] = bus["softirq"]
      BY <1>0, <1>3, BusStepFacts DEF DrawStep
    <2> QED
      BY <1>3, <2>1 DEF CallInv, Idle, DrawStep
  <1>4. CASE TimerFires
    <2>1. bus'["init"] = bus["init"] /\ (buf = "null" => bus'["softirq"] = bus["softirq"])
      BY <1>0, <1>4 DEF TimerFires
    <2> QED
      BY <1>4, <2>1 DEF CallInv, Idle, TimerFires
  <1>5. CASE AnimationStep
    <2>1. bus'["init"] = bus["init"]
      BY <1>0, <1>5, BusStepFacts DEF AnimationStep
    <2> QED
      BY <1>5, <2>1 DEF CallInv, Idle, AnimationStep, InAnimation
  <1>6. CASE AnimationReturns
    BY <1>6 DEF CallInv, Idle, AnimationReturns, bsVars
  <1>7. CASE ChipStep
    BY <1>7 DEF CallInv, Idle, ChipStep, ChipReady
  <1> QED
    BY <1>1, <1>2, <1>3, <1>4, <1>5, <1>6, <1>7 DEF SplashNext, InitcallStep, SoftirqStep

\* Until animation() runs too early, it and the initcall are never both at work.
LEMMA NextApartInv ==
    ASSUME SplashType, ImageInv, ApartInv, SplashNext
    PROVE  ApartInv'
  <1>0. NUM_RECTS \in Nat \ {0} /\ progress \in 0 .. NUM_RECTS
    BY SplashAssumption DEF SplashType
  <1>1. CASE ArmTimer
    BY <1>1 DEF ApartInv, ImageInv, InInitcall, ArmTimer
  <1>2. CASE AllocBuf
    BY <1>2 DEF ApartInv, InInitcall, AllocBuf
  <1>3. CASE DrawOutline
    BY <1>0, <1>3 DEF ApartInv, ImageInv, InInitcall, DrawOutline
  <1>4. CASE DrawStep
    BY <1>0, <1>4 DEF ApartInv, ImageInv, InInitcall, DrawStep
  <1>5. CASE DrawReturns
    BY <1>5 DEF ApartInv, InInitcall, DrawReturns
  <1>6. CASE TimerFires
    BY <1>6 DEF ApartInv, ImageInv, SplashType, InInitcall, TimerFires
  <1>7. CASE AnimationStep
    BY <1>7 DEF ApartInv, ImageInv, InInitcall, AnimationStep, InAnimation
  <1>8. CASE AnimationReturns
    BY <1>8 DEF ApartInv, InInitcall, AnimationReturns, InAnimation
  <1>9. CASE ChipStep
    BY <1>9 DEF ApartInv, InInitcall, ChipStep
  <1> QED
    BY <1>1, <1>2, <1>3, <1>4, <1>5, <1>6, <1>7, <1>8, <1>9
       DEF SplashNext, InitcallStep, SoftirqStep

\* A step that leaves the pins, the chip and the call alone, unless it makes the chip
\* ready, leaves the drawing where it is.
LEMMA DrawingKept ==
    ASSUME NEW c, NEW f, Drawing(c, f), UNCHANGED <<dr, chip>>, bus'[c] = bus[c], hrdy => hrdy'
    PROVE  Drawing(c, f)'
  <1>1. CASE Idle(c)
    BY <1>1 DEF Drawing, Idle, Parked, ChipAt
  <1>2. CASE ~Idle(c)
    <2>1. PICK k \in 1 .. Length : \E j \in 1 .. Len(Accesses(FrameWord(k))) :
              /\ bus[c] = Sending(k, j, NULL) \/ bus[c] = Sending(k, j, dr)
              /\ PinsInv(k, j, f)
      BY <1>2 DEF Drawing, Transfer
    <2>2. PICK j \in 1 .. Len(Accesses(FrameWord(k))) :
              /\ bus[c] = Sending(k, j, NULL) \/ bus[c] = Sending(k, j, dr)
              /\ PinsInv(k, j, f)
      BY <2>1
    <2>3. PinsInv(k, j, f)'
      BY <2>2, PinsKept
    <2> QED
      BY <1>2, <2>2, <2>3 DEF Drawing, Transfer, Idle
  <1> QED
    BY <1>1, <1>2

\* A context that calls the display controller while the chip is at rest is in its drawing.
LEMMA DrawingStarts ==
    ASSUME NEW c, NEW f, Parked(1, f), UNCHANGED <<dr, chip>>, bus'[c] = Calling(Frame)
    PROVE  Drawing(c, f)'
  <1>1. 1 \in 1 .. Length /\ 1 \in 1 .. Len(Accesses(FrameWord(1)))
    <2>1. 1 \in 1 .. Length
      BY BsChipAssumption DEF Length
    <2> QED
      BY <2>1, AccessesType
  <1>2. bus'[c] = Sending(1, 1, NULL)
    BY <1>1, CallingFacts, SuffixAll, FrameFacts
  <1>3. PinsInv(1, 1, f)'
    BY DEF PinsInv, Parked, ChipAt
  <1>4. ~Idle(c)'
    BY <1>1, <1>2, SendingFacts DEF Idle
  <1> QED
    BY <1>1, <1>2, <1>3, <1>4 DEF Drawing, Transfer

\* The chip is where the one transfer says, through every step of the splash.
LEMMA NextChipInv ==
    ASSUME SplashType, ImageInv, CallInv, ApartInv, ChipInv, SplashNext
    PROVE  ChipInv'
  <1> SUFFICES ASSUME ~overlap', ~gaveUp' PROVE ChipInv'
    BY DEF ChipInv
  <1>0. /\ "init" \in Contexts /\ "softirq" \in Contexts /\ DOMAIN bus = Contexts
        /\ progress \in Nat /\ "init" # "softirq"
    BY SplashAssumption DEF SplashType
  <1>a. ~overlap /\ ~gaveUp
    <2>1. CASE DrawStep \/ AnimationStep
      BY <1>0, <2>1, BusStepFacts DEF DrawStep, AnimationStep
    <2>2. CASE ArmTimer \/ AllocBuf \/ DrawOutline \/ DrawReturns
      BY <2>2 DEF ArmTimer, AllocBuf, DrawOutline, DrawReturns, bsVars
    <2>3. CASE TimerFires
      BY <2>3 DEF TimerFires
    <2>4. CASE AnimationReturns \/ ChipStep
      BY <2>4 DEF AnimationReturns, ChipStep, ChipReady, bsVars
    <2> QED
      BY <2>1, <2>2, <2>3, <2>4 DEF SplashNext, InitcallStep, SoftirqStep
  <1>b. /\ dr \in Pins
        /\ spc = "draw" => Drawing("init", 0)
        /\ timer = "fired" /\ ~oops => Drawing("softirq", progress + 1)
        /\ spc # "draw" /\ (timer # "fired" \/ oops) =>
               Parked(1, IF spc = "done" THEN progress + 1 ELSE 0)
    BY <1>a DEF ChipInv
  <1>c. /\ InInitcall => timer # "fired" /\ progress = 0
        /\ timer = "fired" /\ ~oops => spc = "done"
    BY <1>a DEF ApartInv
  <1>1. CASE ArmTimer \/ AllocBuf
    <2>1. /\ UNCHANGED <<dr, chip>> /\ timer' # "fired"
          /\ spc \in {"start", "alloc"} /\ spc' \in {"alloc", "memset", "enomem"}
      BY <1>1, <1>c DEF ArmTimer, AllocBuf, bsVars, InInitcall
    <2>2. Parked(1, 0) /\ Parked(1, 0)'
      BY <1>b, <1>c, <2>1 DEF InInitcall, Parked, ChipAt
    <2> QED
      BY <1>b, <2>1, <2>2 DEF ChipInv
  <1>2. CASE DrawOutline
    <2>1. UNCHANGED <<dr, chip>> /\ spc = "memset" /\ spc' = "draw" /\ timer' # "fired"
          /\ bus'["init"] = Calling(Frame)
      BY <1>0, <1>2, <1>c DEF DrawOutline, InInitcall
    <2>2. Parked(1, 0)
      BY <1>b, <1>c, <2>1 DEF InInitcall
    <2>3. Drawing("init", 0)'
      BY <2>1, <2>2, DrawingStarts
    <2> QED
      BY <1>b, <2>1, <2>3 DEF ChipInv
  <1>3. CASE DrawStep
    <2>1. spc = "draw" /\ spc' = "draw" /\ ~Idle("init") /\ timer' # "fired" /\ BusStep("init")
      BY <1>3, <1>c DEF DrawStep, InInitcall
    <2>2. Transfer("init", 0)
      BY <1>b, <2>1 DEF Drawing
    <2>3. dr' \in Pins /\ Drawing("init", 0)'
      BY <1>0, <1>b, <2>1, <2>2, TransferStep
    <2> QED
      BY <2>1, <2>3 DEF ChipInv
  <1>4. CASE DrawReturns
    <2>1. UNCHANGED <<dr, chip, progress>> /\ spc = "draw" /\ spc' = "done" /\ Idle("init")
          /\ timer' # "fired" /\ progress = 0
      BY <1>4, <1>c DEF DrawReturns, InInitcall, bsVars
    <2>2. Parked(1, 0 + 1)
      BY <1>b, <2>1 DEF Drawing
    <2>3. Parked(1, progress + 1)'
      BY <2>1, <2>2 DEF Parked, ChipAt
    <2> QED
      BY <1>b, <2>1, <2>3 DEF ChipInv
  <1>5. CASE TimerFires
    <2>1. /\ UNCHANGED <<dr, chip, progress, spc>> /\ ~InInitcall /\ timer = "armed"
          /\ ~oops /\ (oops' <=> buf = "null") /\ timer' = "fired"
          /\ buf # "null" => bus'["softirq"] = Calling(Frame)
      BY <1>0, <1>5 DEF TimerFires
    <2>2. spc # "draw" /\ (spc = "done" <=> buf # "null")
      BY <2>1 DEF InInitcall, SplashType, ImageInv
    <2>3. Parked(1, IF spc = "done" THEN progress + 1 ELSE 0)
      BY <1>b, <2>1, <2>2
    <2>4. CASE buf = "null"
      <3>1. Parked(1, IF spc = "done" THEN progress + 1 ELSE 0)'
        BY <2>1, <2>3 DEF Parked, ChipAt
      <3> QED
        BY <1>b, <2>1, <2>2, <2>4, <3>1 DEF ChipInv
    <2>5. CASE buf # "null"
      <3>1. Drawing("softirq", progress + 1)'
        BY <2>1, <2>2, <2>3, <2>5, DrawingStarts
      <3> QED
        BY <1>b, <2>1, <2>2, <2>5, <3>1 DEF ChipInv
    <2> QED
      BY <2>4, <2>5
  <1>6. CASE AnimationStep
    <2>1. timer = "fired" /\ ~Idle("softirq") /\ ~oops /\ BusStep("softirq")
          /\ UNCHANGED <<spc, timer, progress, oops>>
      BY <1>6 DEF AnimationStep, InAnimation
    <2>2. spc' = "done" /\ Transfer("softirq", progress + 1) /\ progress + 1 \in Nat
      BY <1>0, <1>b, <1>c, <2>1 DEF Drawing
    <2>3. dr' \in Pins /\ Drawing("softirq", progress + 1)'
      BY <1>0, <1>b, <2>1, <2>2, TransferStep
    <2> QED
      BY <2>1, <2>2, <2>3 DEF ChipInv
  <1>7. CASE AnimationReturns
    <2>1. timer = "fired" /\ Idle("softirq") /\ ~oops /\ timer' # "fired"
          /\ progress' = progress + 1 /\ UNCHANGED <<dr, chip, spc>>
      BY <1>7 DEF AnimationReturns, InAnimation, bsVars
    <2>2. spc' = "done" /\ Parked(1, progress + 1 + 1)
      BY <1>b, <1>c, <2>1 DEF Drawing
    <2>3. Parked(1, progress + 1)'
      BY <2>1, <2>2 DEF Parked, ChipAt
    <2> QED
      BY <1>b, <2>1, <2>2, <2>3 DEF ChipInv
  <1>8. CASE ChipStep
    <2>1. UNCHANGED <<dr, chip, bus, spc, timer, progress, oops>> /\ hrdy'
      BY <1>8 DEF ChipStep, ChipReady
    <2>2. spc = "draw" => Drawing("init", 0)'
      BY <1>b, <2>1, DrawingKept
    <2>3. timer = "fired" /\ ~oops => Drawing("softirq", progress + 1)'
      BY <1>b, <2>1, DrawingKept
    <2>4. spc # "draw" /\ (timer # "fired" \/ oops) =>
               Parked(1, IF spc = "done" THEN progress + 1 ELSE 0)'
      BY <1>b, <2>1 DEF Parked, ChipAt
    <2> QED
      BY <1>b, <2>1, <2>2, <2>3, <2>4 DEF ChipInv
  <1> QED
    BY <1>1, <1>2, <1>3, <1>4, <1>5, <1>6, <1>7, <1>8 DEF SplashNext, InitcallStep, SoftirqStep

-----------------------------------------------------------------------------
(* The device.                                                             *)

\* The splash keeps its invariant, through a loss of power too.
LEMMA NextSplashInv ==
    ASSUME OffInv, SplashInv, [Next]_vars
    PROVE  SplashInv'
  <1>0. /\ "init" \in Contexts /\ "softirq" \in Contexts /\ NUM_RECTS \in Nat \ {0}
        /\ ARGS \in Nat /\ PIXELS \in Nat
    BY SplashAssumption, BsChipAssumption
  <1>1. CASE Reboot \/ PowerLoss \/ SplashOver
    <2>1. /\ BsStart(dr', hrdy', chip', bus', gaveUp')
          /\ SplashStart(spc', timer', buf', progress', under', overlap', badUse', oops')
      BY <1>1 DEF Reboot, PowerLoss, SplashOver, VolatileLost, SplashForgotten
    <2>a. chip' \in ChipStates /\ DOMAIN bus' = Contexts
      BY <1>0, <2>1 DEF BsStart, ChipStates
    <2>b. hrdy' \in BOOLEAN /\ gaveUp' \in BOOLEAN
      BY <2>1 DEF BsStart
    <2>c. /\ spc' = "none" /\ timer' = "off" /\ buf' = "null"
          /\ progress' \in 0 .. NUM_RECTS
      BY <1>0, <2>1 DEF SplashStart
    <2>d. overlap' \in BOOLEAN /\ badUse' \in BOOLEAN /\ oops' \in BOOLEAN
      BY <2>1 DEF SplashStart
    <2>2. SplashType'
      BY <2>a, <2>b, <2>c, <2>d DEF SplashType
    <2>3. ImageInv'
      BY <1>0, <2>1 DEF SplashStart, ImageInv
    <2>4. CallInv'
      BY <1>0, <2>1 DEF BsStart, CallInv, Idle, IdleBus
    <2>5. ApartInv'
      BY <2>1 DEF SplashStart, ApartInv, InInitcall
    <2>6. Parked(1, 0)'
      BY <2>1, LeftFacts DEF BsStart, Parked, ChipAt
    <2>7. dr' \in Pins
      BY <2>1 DEF BsStart, Pins, WordValues
    <2>8. ChipInv'
      BY <2>1, <2>6, <2>7 DEF SplashStart, ChipInv
    <2> QED
      BY <2>2, <2>3, <2>4, <2>5, <2>8 DEF SplashInv
  <1>2. CASE BootSplash
    <2>1. /\ UNCHANGED <<bsVars, timer, buf, progress, under, overlap, badUse, oops>>
          /\ spc = "none" /\ spc' = "start" /\ timer = "off" /\ progress = 0 /\ buf = "null"
          /\ ~badUse /\ ~oops
      BY <1>2 DEF BootSplash, OffInv, SplashStart
    <2>2. SplashType'
      BY <2>1 DEF SplashInv, SplashType, bsVars
    <2>3. ImageInv'
      BY <1>0, <2>1 DEF ImageInv
    <2>4. CallInv'
      BY <2>1 DEF SplashInv, CallInv, Idle, bsVars
    <2>5. ApartInv'
      BY <2>1 DEF ApartInv, InInitcall
    <2>6. ChipInv'
      BY <2>1 DEF SplashInv, ChipInv, Parked, ChipAt, bsVars
    <2> QED
      BY <2>2, <2>3, <2>4, <2>5, <2>6 DEF SplashInv
  <1>3. CASE Splash(InitcallStep) \/ Splash(SoftirqStep) \/ Splash(ChipStep)
    <2>1. SplashNext
      BY <1>3 DEF Splash, SplashNext
    <2> QED
      BY <2>1, NextSplashType, NextImageInv, NextCallInv, NextApartInv, NextChipInv DEF SplashInv
  <1>4. CASE UNCHANGED splashVars
    <2>1. UNCHANGED <<dr, hrdy, chip, bus, gaveUp, spc, timer, buf, progress, overlap, badUse,
                      oops>>
      BY <1>4 DEF splashVars, bsVars
    <2>2. SplashType' /\ ImageInv' /\ CallInv' /\ ApartInv'
      BY <2>1 DEF SplashInv, SplashType, ImageInv, CallInv, Idle, ApartInv, InInitcall
    <2>3. spc = "draw" /\ ~overlap /\ ~gaveUp => Drawing("init", 0)'
      BY <2>1, DrawingKept DEF SplashInv, ChipInv
    <2>4. timer = "fired" /\ ~oops /\ ~overlap /\ ~gaveUp => Drawing("softirq", progress + 1)'
      BY <2>1, DrawingKept DEF SplashInv, ChipInv
    <2>5. ChipInv'
      BY <2>1, <2>3, <2>4 DEF SplashInv, ChipInv, Parked, ChipAt
    <2> QED
      BY <2>2, <2>5 DEF SplashInv
  <1>5. \/ Reboot \/ PowerLoss \/ SplashOver \/ BootSplash \/ UNCHANGED splashVars
        \/ Splash(InitcallStep) \/ Splash(SoftirqStep) \/ Splash(ChipStep)
    BY DEF Next, vars, BootUpdate, SwitchRoot, Update, User
  <1> QED
    BY <1>1, <1>2, <1>3, <1>4, <1>5

\* Being switched off leaves nothing in memory, and every boot is counted.
LEMMA NextOffInv ==
    ASSUME BootInv, OffInv, [Next]_vars
    PROVE  BootInv' /\ OffInv'
  <1>0. MaxBoots \in Nat
    BY DeviceAssumption
  <1>1. CASE Reboot \/ PowerLoss
    BY <1>1 DEF Reboot, PowerLoss, VolatileLost, SplashForgotten, BootInv, OffInv
  <1>2. CASE BootSplash \/ BootUpdate
    BY <1>0, <1>2 DEF BootSplash, BootUpdate, BootInv, OffInv
  <1>3. CASE SplashOver \/ SwitchRoot
    BY <1>3 DEF SplashOver, SwitchRoot, BootInv, OffInv
  <1>4. CASE \/ Splash(InitcallStep) \/ Splash(SoftirqStep) \/ Splash(ChipStep)
             \/ Update(UpdateNext) \/ User(MonNext)
    BY <1>4 DEF Splash, Update, User, BootInv, OffInv
  <1>5. CASE UNCHANGED vars
    BY <1>5 DEF vars, splashVars, bsVars, updateVars, scriptVars, BootInv, OffInv
  <1> QED
    BY <1>1, <1>2, <1>3, <1>4, <1>5 DEF Next

\* A device that was never switched on.
LEMMA InitIInv == Init => IInv
  <1> SUFFICES ASSUME Init PROVE IInv
    OBVIOUS
  <1>0. /\ "init" \in Contexts /\ "softirq" \in Contexts /\ NUM_RECTS \in Nat \ {0}
        /\ ARGS \in Nat /\ PIXELS \in Nat /\ MaxBoots \in Nat
    BY SplashAssumption, BsChipAssumption, DeviceAssumption
  <1>1. BootInv /\ OffInv
    BY <1>0 DEF Init, BootInv, OffInv
  <1>2. UpdateInv
    BY NoCardType, UpdateAssumption DEF Init, ScriptStart, UpdateInv
  <1>3. MonInv
    <2>1. MonStart(mpc, held, usbcmd, usbintr, usbsts, devmode, tmp, plugged, resets,
                   uevents, lost, late)
      BY DEF Init
    <2>2. MonType
      BY <2>1 DEF MonStart, Cleared, MonType, MonPlaces, Registers
    <2>3. HeldInv
      BY <2>1 DEF MonStart, HeldInv, Resources, Without
    <2>4. SetupInv
      BY <2>1 DEF MonStart, SetupInv, Acquiring, Stopped, NotYet
    <2>5. RunInv
      BY <2>1 DEF MonStart, RunInv, SetUp
    <2> QED
      BY <2>2, <2>3, <2>4, <2>5 DEF MonInv
  <1>4. SplashInv
    <2>1. /\ BsStart(dr, hrdy, chip, bus, gaveUp)
          /\ SplashStart(spc, timer, buf, progress, under, overlap, badUse, oops)
      BY DEF Init
    <2>a. chip \in ChipStates /\ DOMAIN bus = Contexts
      BY <1>0, <2>1 DEF BsStart, ChipStates
    <2>b. hrdy \in BOOLEAN /\ gaveUp \in BOOLEAN
      BY <2>1 DEF BsStart
    <2>c. /\ spc = "none" /\ timer = "off" /\ buf = "null"
          /\ progress \in 0 .. NUM_RECTS
      BY <1>0, <2>1 DEF SplashStart
    <2>d. overlap \in BOOLEAN /\ badUse \in BOOLEAN /\ oops \in BOOLEAN
      BY <2>1 DEF SplashStart
    <2>2. SplashType
      BY <2>a, <2>b, <2>c, <2>d DEF SplashType
    <2>3. ImageInv
      BY <1>0, <2>1 DEF SplashStart, ImageInv
    <2>4. CallInv
      BY <1>0, <2>1 DEF BsStart, CallInv, Idle, IdleBus
    <2>5. ApartInv
      BY <2>1 DEF SplashStart, ApartInv, InInitcall
    <2>6. Parked(1, 0)
      BY <2>1, LeftFacts DEF BsStart, Parked, ChipAt
    <2>7. dr \in Pins
      BY <2>1 DEF BsStart, Pins, WordValues
    <2>8. ChipInv
      BY <2>1, <2>6, <2>7 DEF SplashStart, ChipInv
    <2> QED
      BY <2>2, <2>3, <2>4, <2>5, <2>8 DEF SplashInv
  <1> QED
    BY <1>1, <1>2, <1>3, <1>4 DEF IInv

\* The inductive invariant holds in every reachable state.
THEOREM IInvCorrect == Spec => []IInv
  <1>1. IInv /\ [Next]_vars => IInv'
    BY NextOffInv, NextUpdateInv, NextMonInv, NextSplashInv DEF IInv
  <1> QED
    BY <1>1, InitIInv, PTL DEF Spec

\* animation() never runs on an image that it has freed; probe and remove leave the
\* monitor driver with everything or with nothing; a controller that runs can tell of a
\* connection; and user space is told of it once.
THEOREM ConsistentCorrect == Spec => []Consistent
  <1>1. IInv => Consistent
    <2> SUFFICES ASSUME IInv PROVE Consistent
      OBVIOUS
    <2>1. TypeOK
      <3>1. BootInv
        BY DEF IInv
      <3>2. /\ hrdy \in BOOLEAN /\ gaveUp \in BOOLEAN
            /\ chip.left \in 0 .. ARGS + PIXELS + 1 /\ chip.frames \in Nat
            /\ spc \in {"none", "start", "alloc", "memset", "draw", "done", "enomem"}
            /\ timer \in {"off", "armed", "fired"} /\ buf \in {"null", "held", "freed"}
            /\ progress \in 0 .. NUM_RECTS
        BY DEF IInv, SplashInv, SplashType, ChipStates
      <3>3. /\ held \subseteq {"region", "map", "pins", "irq"}
            /\ usbintr \in BOOLEAN /\ usbsts \in BOOLEAN /\ uevents \in Nat /\ lost \in Nat
        BY DEF IInv, MonInv, MonType, Resources
      <3>4. rootfs \in {"old", "new", "torn"} /\ card \in Cards /\ retry_count \in 0 .. RETRIES
        BY DEF IInv, UpdateInv
      <3> QED
        BY <3>1, <3>2, <3>3, <3>4 DEF TypeOK, BootInv
    <2>2. NoAnimationAfterFree
      BY DEF IInv, SplashInv, ImageInv, CallInv, NoAnimationAfterFree
    <2>3. ProbeAllOrNothing
      BY DEF IInv, MonInv, MonType, HeldInv, Resources, Without, ProbeAllOrNothing
    <2>4. RunningListens
      BY DEF IInv, MonInv, RunInv, RunningListens, Listening
    <2>5. NotifiedOnce
      BY DEF IInv, MonInv, MonType, RunInv, NotifiedOnce
    <2> QED
      BY <2>1, <2>2, <2>3, <2>4, <2>5 DEF Consistent
  <1> QED
    BY <1>1, IInvCorrect, PTL

\* Nothing but animation() overtaking the initcall, or a wait that gave up, damages what
\* the display is sent, for any number of arguments, pixels and rectangles.
THEOREM DamageHasCauseCorrect == Spec => []DamageHasCause
  <1>1. IInv => DamageHasCause
    <2> SUFFICES ASSUME IInv, ~overlap, ~gaveUp PROVE DamageHasCause
      BY DEF DamageHasCause
    <2>1. chip.intact
      <3>1. CASE spc = "draw"
        BY DEF IInv, SplashInv, ChipInv, Drawing, Transfer, PinsInv, Parked, ChipAt
      <3>2. CASE timer = "fired" /\ ~oops
        BY DEF IInv, SplashInv, ChipInv, Drawing, Transfer, PinsInv, Parked, ChipAt
      <3>3. CASE spc # "draw" /\ (timer # "fired" \/ oops)
        BY <3>3 DEF IInv, SplashInv, ChipInv, Parked, ChipAt
      <3> QED
        BY <3>1, <3>2, <3>3
    <2>2. ~badUse
      BY DEF IInv, SplashInv, ApartInv
    <2>3. ASSUME spc = "done", timer # "fired"
          PROVE  chip.left = 0 /\ chip.session = "none" /\ chip.frames = progress + 1
      <3>1. Parked(1, progress + 1)
        BY <2>3 DEF IInv, SplashInv, ChipInv
      <3> QED
        BY <3>1, LeftFacts DEF Parked, ChipAt
    <2> QED
      BY <2>1, <2>2, <2>3 DEF DamageHasCause
  <1> QED
    BY <1>1, IInvCorrect, PTL

\* A root file system is half written only while update.sh runs, or because the power or
\* update.sh itself failed under the last one: the script never restarts or boots the
\* device under an update.
THEOREM TornHasCauseCorrect == Spec => []TornHasCause
  <1>1. IInv => TornHasCause
    BY DEF IInv, UpdateInv, TornHasCause
  <1> QED
    BY <1>1, IInvCorrect, PTL
=============================================================================
