------------------------------ MODULE OnyxSplash ------------------------------
(***************************************************************************)
(* The boot splash (onyx_main.c): onyx_splash_init(), an initcall, arms a  *)
(* timer, allocates the image and draws the outline; animation(), the      *)
(* timer function, fills one rectangle more on each expiry and frees the   *)
(* image after NUM_RECTS of them. Both drive the display controller of     *)
(* BsChip, the one in process context ("init"), the other in the timer     *)
(* softirq ("softirq").                                                    *)
(*                                                                         *)
(* On the one CPU of the device the softirq runs on the stack of whatever  *)
(* it interrupts. It can still lose the CPU, to a task it did not          *)
(* interrupt, because reset() sleeps in it.                                *)
(***************************************************************************)
EXTENDS BsChip

CONSTANT NUM_RECTS

ASSUME SplashAssumption == NUM_RECTS \in Nat \ {0} /\ Contexts = {"init", "softirq"}

VARIABLES spc,        \* of the initcall: "start", "alloc", "memset", "draw",
                      \* "done" (returned 0), "enomem", or "none" before the kernel runs
          timer,      \* onyx_animation_timer: "off", "armed", or "fired" (in animation())
          buf,        \* animation_buf: "null", "held" or "freed"
          progress,
          under,      \* the softirq interrupted the initcall
          overlap,    \* animation() has run before the initcall was through
          badUse,     \* a freed image was read or written
          oops        \* animation() wrote through the null pointer

splashVars == <<bsVars, spc, timer, buf, progress, under, overlap, badUse, oops>>

\* The splash before the kernel with it runs.
SplashStart(s, t, b, p, u, o, f, x) ==
    /\ s = "none" /\ t = "off" /\ b = "null" /\ p = 0
    /\ u = FALSE /\ o = FALSE /\ f = FALSE /\ x = FALSE

\* update_area() waits for the chip itself before the command does.
update_area == <<Wait>> \o bs_cmd_upd_part_area

\* The words that draw_outline() and animation() send.
Frame == bs_cmd_ld_img_area_data \o update_area

InAnimation == timer = "fired"
InInitcall == spc \in {"start", "alloc", "memset", "draw"}

\* The initcall can run: no softirq is on top of it.
InitRuns == InAnimation => Asleep("softirq") /\ ~under

-----------------------------------------------------------------------------
(* onyx_splash_init() *)

\* init_timer() and add_timer().
ArmTimer ==
    /\ spc = "start" /\ InitRuns /\ ~oops
    /\ spc' = "alloc" /\ timer' = "armed"
    /\ UNCHANGED <<bsVars, buf, progress, under, overlap, badUse, oops>>

\* kmalloc() succeeds, or fails and leaves the timer armed.
AllocBuf ==
    /\ spc = "alloc" /\ InitRuns /\ ~oops
    /\ \/ spc' = "memset" /\ buf' = "held"
       \/ spc' = "enomem" /\ UNCHANGED buf
    /\ UNCHANGED <<bsVars, timer, progress, under, overlap, badUse, oops>>

\* draw_outline() draws in the image and calls the display controller.
DrawOutline ==
    /\ spc = "memset" /\ InitRuns /\ ~oops
    /\ badUse' = (badUse \/ buf = "freed")
    /\ bus' = [bus EXCEPT !["init"] = Calling(Frame)]
    /\ spc' = "draw"
    /\ UNCHANGED <<dr, hrdy, chip, gaveUp, timer, buf, progress, under, overlap, oops>>

\* A step of the transfer; a pixel is read from the image.
DrawStep ==
    /\ spc = "draw" /\ ~Idle("init") /\ InitRuns /\ ~oops
    /\ BusStep("init")
    /\ badUse' = (badUse \/ (IsPixel("init") /\ buf = "freed"))
    /\ UNCHANGED <<spc, timer, buf, progress, under, overlap, oops>>

DrawReturns ==
    /\ spc = "draw" /\ Idle("init") /\ InitRuns /\ ~oops
    /\ spc' = "done"
    /\ UNCHANGED <<bsVars, timer, buf, progress, under, overlap, badUse, oops>>

-----------------------------------------------------------------------------
(* animation() *)

\* The timer expires. The function writes in the image, through a null pointer when
\* there is none yet or never will be.
TimerFires ==
    /\ timer = "armed" /\ ~oops
    /\ timer' = "fired"
    /\ under' = (InInitcall /\ ~Asleep("init"))
    /\ overlap' = (overlap \/ InInitcall)
    /\ oops' = (buf = "null")
    /\ badUse' = (badUse \/ buf = "freed")
    /\ bus' = IF buf = "null" THEN bus ELSE [bus EXCEPT !["softirq"] = Calling(Frame)]
    /\ UNCHANGED <<dr, hrdy, chip, gaveUp, spc, buf, progress>>

AnimationStep ==
    /\ InAnimation /\ ~Idle("softirq") /\ ~oops
    /\ BusStep("softirq")
    /\ badUse' = (badUse \/ (IsPixel("softirq") /\ buf = "freed"))
    /\ UNCHANGED <<spc, timer, buf, progress, under, overlap, oops>>

\* Mutant: the timer is not set again.
AnimationReturns_SetsNone ==
    /\ InAnimation /\ Idle("softirq") /\ ~oops
    /\ progress' = progress + 1 /\ under' = FALSE
    /\ timer' = "off"
    /\ buf' = IF progress + 1 < NUM_RECTS THEN buf ELSE "freed"
    /\ UNCHANGED <<bsVars, spc, overlap, badUse, oops>>

\* ++progress, then mod_timer(), or del_timer() and kfree().
AnimationReturns ==
    /\ InAnimation /\ Idle("softirq") /\ ~oops
    /\ progress' = progress + 1 /\ under' = FALSE
    /\ IF progress + 1 < NUM_RECTS THEN timer' = "armed" /\ UNCHANGED buf
                                   ELSE timer' = "off" /\ buf' = "freed"
    /\ UNCHANGED <<bsVars, spc, overlap, badUse, oops>>

ChipStep == ChipReady /\ UNCHANGED <<spc, timer, buf, progress, under, overlap, badUse, oops>>

InitcallStep == ArmTimer \/ AllocBuf \/ DrawOutline \/ DrawStep \/ DrawReturns
SoftirqStep == TimerFires \/ AnimationStep \/ AnimationReturns

SplashNext == InitcallStep \/ SoftirqStep \/ ChipStep
=============================================================================
