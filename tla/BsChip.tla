-------------------------------- MODULE BsChip --------------------------------
(***************************************************************************)
(* The Broadsheet display controller as the kernel drives it: bs_cmd.c     *)
(* turns an image update into commands and data words, bs_chip.c turns     *)
(* each word into read-modify-write accesses of the GPIO3 data register,   *)
(* and the chip latches a word when HWE_L rises while it is selected.      *)
(* Nothing serialises the contexts that do this, so a transfer of one can  *)
(* be cut by a transfer of another between any two accesses.               *)
(*                                                                         *)
(* Abstracted: the values of arguments and pixels; the number of polls of  *)
(* HRDY before a wait gives up (it may give up whenever the chip is busy); *)
(* the direction register, which the first command sets once; reads from   *)
(* the chip, which the splash does not make.                               *)
(***************************************************************************)
EXTENDS Naturals, Sequences

CONSTANTS Contexts,    \* the contexts that drive the bus
          ARGS,        \* arguments of an area command (5 in bs_cmd.c)
          PIXELS,      \* data words of one image
          NULL         \* no register value read yet

ASSUME BsChipAssumption == ARGS \in Nat \ {0} /\ PIXELS \in Nat \ {0}

VARIABLES dr,       \* the GPIO3 data register: hdc, cs, we, rst and the word on hdb
          hrdy,     \* the chip's ready pin
          chip,     \* what the chip has received: left (data words of the current
                    \* command to come), session (of an image load), intact,
                    \* and frames, the display updates it was given in full
          bus,      \* of each context: todo, the words left of its call; prog, the
                    \* accesses left of the first one; x, the register value it read
          gaveUp    \* some wait for HRDY has given up

bsVars == <<dr, hrdy, chip, bus, gaveUp>>

-----------------------------------------------------------------------------
(* bs_cmd.c: an image update as a sequence of words. *)

Command(v) == [hdc |-> 0, val |-> v]
Data(v)    == [hdc |-> 1, val |-> v]
Words(v, n) == [i \in 1 .. n |-> Data(v)]

\* wait_for_ready() called for itself, before a command that waits again.
Wait == [hdc |-> 0, val |-> "none"]

bs_cmd_ld_img_area == <<Command("ld_img_area")>> \o Words("arg", ARGS)
                      \o <<Command("wr_reg"), Data("0x154")>>
bs_cmd_wr_data == Words("pixel", PIXELS)
\* bs_hif_mode_cmd is 1 in a kernel with the splash: its register mode is not taken.
bs_cmd_ld_img_end == <<Command("ld_img_end")>>
bs_cmd_ld_img_area_data == bs_cmd_ld_img_area \o bs_cmd_wr_data \o bs_cmd_ld_img_end
\* Mutant: the height is not sent.
bs_cmd_upd_part_area_Short == <<Command("upd_part_area")>> \o Words("arg", ARGS - 1)

bs_cmd_upd_part_area == <<Command("upd_part_area")>> \o Words("arg", ARGS)

-----------------------------------------------------------------------------
(* bs_chip.c: a word as a sequence of accesses to the pins. *)

command == <<"wait", "hdc0", "cs0", "we0", "hdb", "we1", "cs1">>
wr_data == <<"poll", "hdc1", "cswe0", "hdb", "cswe1">>
reset   == <<"rst0", "sleep", "rst1">>

Accesses(w) == CASE w.val = "none" -> <<"wait">>
                 [] w.hdc = 0 /\ w.val # "none" -> command
                 [] w.hdc = 1 -> wr_data

\* The value an access writes back, from the value x it read.
Drive(access, w, x) ==
    CASE access = "hdc0"  -> [x EXCEPT !.hdc = 0]
      [] access = "hdc1"  -> [x EXCEPT !.hdc = 1]
      [] access = "cs0"   -> [x EXCEPT !.cs = 0]
      [] access = "cs1"   -> [x EXCEPT !.cs = 1]
      [] access = "we0"   -> [x EXCEPT !.we = 0]
      [] access = "we1"   -> [x EXCEPT !.we = 1]
      [] access = "cswe0" -> [x EXCEPT !.cs = 0, !.we = 0]
      [] access = "cswe1" -> [x EXCEPT !.cs = 1, !.we = 1]
      [] access = "hdb"   -> [x EXCEPT !.hdb = w.val]
      [] access = "rst0"  -> [x EXCEPT !.rst = 0]
      [] access = "rst1"  -> [x EXCEPT !.rst = 1]

IdleBus == [todo |-> <<>>, prog |-> <<>>, x |-> NULL]

\* The call of a context that is about to transfer the words ws.
Calling(ws) == [todo |-> ws, prog |-> Accesses(Head(ws)), x |-> NULL]

\* The context after the first access of its program: the next access, or the next word.
Advance(b) ==
    IF Len(b.prog) > 1 THEN [b EXCEPT !.prog = Tail(@), !.x = NULL]
    ELSE IF Len(b.todo) > 1 THEN Calling(Tail(b.todo))
    ELSE IdleBus

Idle(c) == bus[c].todo = <<>>
At(c, access) == ~Idle(c) /\ Head(bus[c].prog) = access
Asleep(c) == At(c, "sleep")
IsPixel(c) == ~Idle(c) /\ Head(bus[c].todo).val = "pixel"

-----------------------------------------------------------------------------
(* The chip. *)

\* Data words a command takes; a wr_reg of 0x154 is followed by the pixels.
Arity(v) == CASE v = "ld_img_area"   -> ARGS
              [] v = "wr_reg"        -> 1 + PIXELS
              [] v = "ld_img_end"    -> 0
              [] v = "upd_part_area" -> ARGS

\* The session of an image load in which a command belongs, and the one it leads to.
Session(v) == CASE v = "ld_img_area"   -> <<"none", "area">>
                [] v = "wr_reg"        -> <<"area", "pixels">>
                [] v = "ld_img_end"    -> <<"pixels", "none">>
                [] v = "upd_part_area" -> <<"none", "none">>

CommandNames == {"ld_img_area", "wr_reg", "ld_img_end", "upd_part_area"}

\* What a chip that was given something else than a command and its data words shows
\* is not known: it is damaged until it is set up again.
Damaged == [left |-> 0, session |-> "none", intact |-> FALSE, frames |-> 0]

\* The chip after it latched the word v with HDC low (a command) or high (data).
Receive(hdc, v) ==
    CASE hdc = 0 /\ v \in CommandNames /\ chip.intact
              /\ chip.left = 0 /\ chip.session = Session(v)[1] ->
           [chip EXCEPT !.left = Arity(v), !.session = Session(v)[2]]
      [] hdc = 1 /\ v \notin CommandNames /\ chip.intact /\ chip.left > 0 ->
           [chip EXCEPT !.left   = @ - 1,
                        !.frames = IF chip.left = 1 /\ chip.session = "none" THEN @ + 1 ELSE @]
      [] OTHER -> Damaged

\* The register becomes v: the chip starts or ends its reset, which loses what it was
\* set up for, or latches a word on the rising edge of HWE_L, unless it is busy.
\* It may be busy after a word, and is busy during a reset.
WriteDr(v) ==
    /\ dr' = v
    /\ IF v.rst = 0 \/ dr.rst = 0
       THEN chip' = Damaged /\ hrdy' = FALSE
       ELSE IF dr.cs = 0 /\ dr.we = 0 /\ v.we = 1
       THEN /\ chip' = IF hrdy THEN Receive(dr.hdc, dr.hdb) ELSE Damaged
            /\ hrdy' \in {hrdy, FALSE}
       ELSE UNCHANGED <<chip, hrdy>>

\* The chip finishes what it is doing.
ChipReady == /\ ~hrdy /\ dr.rst = 1 /\ hrdy' = TRUE
             /\ UNCHANGED <<dr, chip, bus, gaveUp>>

-----------------------------------------------------------------------------
(* The steps of a context that is in a call. *)

\* The pins and the chip as RedBoot's init_gpio() leaves them, and no transfer under way.
BsStart(d, r, c, b, g) ==
    /\ d = [hdc |-> 0, cs |-> 1, we |-> 1, rst |-> 1, hdb |-> "none"]
    /\ r = TRUE
    /\ c = [left |-> 0, session |-> "none", intact |-> TRUE, frames |-> 0]
    /\ b = [x \in Contexts |-> IdleBus]
    /\ g = FALSE

\* wait_for_ready() and the polling of wr_data() see the chip ready.
SeeReady(c) ==
    /\ At(c, "wait") \/ At(c, "poll")
    /\ hrdy
    /\ bus' = [bus EXCEPT ![c] = Advance(@)]
    /\ UNCHANGED <<dr, hrdy, chip, gaveUp>>

\* wait_for_ready() resets the chip after WAIT_MAX polls and waits again.
WaitGivesUp(c) ==
    /\ At(c, "wait") /\ ~hrdy
    /\ bus' = [bus EXCEPT ![c].prog = reset \o @]
    /\ gaveUp' = TRUE
    /\ UNCHANGED <<dr, hrdy, chip>>

\* wr_data() stops waiting after WAIT_MAX polls and writes the word all the same.
PollGivesUp(c) ==
    /\ At(c, "poll") /\ ~hrdy
    /\ bus' = [bus EXCEPT ![c] = Advance(@)]
    /\ gaveUp' = TRUE
    /\ UNCHANGED <<dr, hrdy, chip>>

\* bs_sleep(500) of reset() is over.
Wake(c) == /\ Asleep(c)
           /\ bus' = [bus EXCEPT ![c] = Advance(@)]
           /\ UNCHANGED <<dr, hrdy, chip, gaveUp>>

OnPins(c) == ~Idle(c) /\ Head(bus[c].prog) \notin {"wait", "poll", "sleep"}

\* __raw_readl() of an access.
ReadDr(c) == /\ OnPins(c) /\ bus[c].x = NULL
             /\ bus' = [bus EXCEPT ![c].x = dr]
             /\ UNCHANGED <<dr, hrdy, chip, gaveUp>>

\* __raw_writel() of an access, from the value read before.
SetGpio(c) == /\ OnPins(c) /\ bus[c].x # NULL
              /\ WriteDr(Drive(Head(bus[c].prog), Head(bus[c].todo), bus[c].x))
              /\ bus' = [bus EXCEPT ![c] = Advance(@)]
              /\ UNCHANGED gaveUp

BusStep(c) == \/ SeeReady(c) \/ WaitGivesUp(c) \/ PollGivesUp(c)
              \/ Wake(c) \/ ReadDr(c) \/ SetGpio(c)
=============================================================================
