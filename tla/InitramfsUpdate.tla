--------------------------- MODULE InitramfsUpdate ---------------------------
(***************************************************************************)
(* The init script of the update kernel (init.in.sh): it looks for an SD   *)
(* card with an update package, decrypts and unpacks it, runs the update   *)
(* script of the package and restarts the device, or goes on to boot the   *)
(* root file system. The script checks the outcome of almost no command:   *)
(* aescrypt, tar and update.sh can fail, on a package without a fault too  *)
(* (no memory, a read or a flash error), and the script goes on.           *)
(*                                                                         *)
(* External, modelled from how the script uses them: the package's         *)
(* update.sh, which rewrites the root file system; reboot, which asks      *)
(* process 1, the script itself, to restart the device and may return to   *)
(* it.                                                                     *)
(***************************************************************************)
EXTENDS Naturals

CONSTANTS RequiredId,    \* REQUIRED_CUSTOMER_ID, "" when the device takes any package
          CustomerIds,   \* the customer ids of packages; "none" without a customer_id
          RETRIES        \* attempts to mount the card (5 in the script)

ASSUME UpdateAssumption == RETRIES \in Nat \ {0} /\ RequiredId \notin {"none", "words"}

\* A package: its customer id as the shell splits it ("words" if into several), and
\* whether all of it is there to be decrypted and unpacked.
Packages == [id : CustomerIds \cup {"none", "words"}, whole : BOOLEAN]
NoPackage == [id |-> "absent", whole |-> FALSE]

\* A card: no card, one with a partition, or a file system on the whole card.
Cards == [layout : {"none"}, pkg : {NoPackage}]
         \cup [layout : {"part", "raw"}, pkg : Packages \cup {NoPackage}]
NoCard == [layout |-> "none", pkg |-> NoPackage]

VARIABLES ipc,          \* where the script is; "none" when the update kernel does not run
          retry_count,
          detected,     \* the card's block devices exist
          dir,          \* the unpacked package, or NoPackage
          failed,       \* history: a command of this run failed, unnoticed
          card,
          rootfs,       \* "old", "new", or "torn" by an unfinished update
          cutOff        \* history: the last update.sh failed, or lost its power

scriptVars == <<ipc, retry_count, detected, dir, failed>>
updateVars == <<scriptVars, card, rootfs, cutOff>>

\* The script before it is started.
ScriptStart(i, r, d, p, f) ==
    i = "none" /\ r = 0 /\ d = FALSE /\ p = NoPackage /\ f = FALSE

Step(from, to) == ipc = from /\ ipc' = to

\* The kernel finds the card some time after the driver is loaded.
CardDetected == /\ ipc # "none" /\ ~detected /\ card.layout # "none"
                /\ detected' = TRUE
                /\ UNCHANGED <<ipc, retry_count, dir, failed, card, rootfs, cutOff>>

\* One turn of the loop: the partition is mounted, or the script sleeps a second.
MountPartition ==
    /\ retry_count < RETRIES /\ detected /\ card.layout = "part"
    /\ Step("mount", "check")
    /\ UNCHANGED <<retry_count, detected, dir, failed, card, rootfs, cutOff>>

MountRetry ==
    /\ retry_count < RETRIES /\ ipc = "mount"
    /\ retry_count' = retry_count + 1
    /\ UNCHANGED <<ipc, detected, dir, failed, card, rootfs, cutOff>>

\* After the loop: the whole card is tried; without a card there is nothing to update.
MountWhole ==
    /\ retry_count = RETRIES
    /\ \/ detected /\ card.layout = "raw" /\ Step("mount", "check")
       \/ Step("mount", "boot")
    /\ UNCHANGED <<retry_count, detected, dir, failed, card, rootfs, cutOff>>

\* What aescrypt and tar can leave of the package p: all of it, a part, perhaps without
\* the customer id, or nothing.
Unpacked(p) == {NoPackage}
               \cup {q \in {p} : q.whole}
               \cup [id : {p.id, "none"}, whole : {FALSE}]

\* check_update() unpacks. Its test for a package is true without one too: the path is
\* taken with nothing.
Extract ==
    /\ Step("check", "update")
    /\ dir' \in IF card.pkg = NoPackage THEN {NoPackage} ELSE Unpacked(card.pkg)
    /\ failed' = ~dir'.whole
    /\ UNCHANGED <<retry_count, detected, card, rootfs, cutOff>>

\* Mutant: a device with a customer id takes no package.
CustomerTest_NoId(p) == {p # NoPackage /\ RequiredId = ""}

\* The results the script's tests can have: it runs what it unpacked if it is for this
\* customer. The id is not quoted: one of several words makes an error or some other test.
CustomerTest(p) ==
    IF p # NoPackage /\ RequiredId # "" /\ p.id = "words" THEN BOOLEAN
    ELSE {p # NoPackage /\ (RequiredId = "" \/ p.id = RequiredId)}

\* Mutant: update.sh is started in the background.
RunUpdate_Background ==
    /\ Step("update", "reboot") /\ TRUE \in CustomerTest(dir)
    /\ rootfs' = "torn" /\ dir' = NoPackage
    /\ UNCHANGED <<retry_count, detected, failed, card, cutOff>>

RunUpdate ==
    /\ Step("update", "updating") /\ TRUE \in CustomerTest(dir)
    /\ UNCHANGED <<retry_count, detected, dir, failed, card, rootfs, cutOff>>

SkipUpdate ==
    /\ Step("update", "reboot") /\ FALSE \in CustomerTest(dir)
    /\ dir' = NoPackage
    /\ UNCHANGED <<retry_count, detected, failed, card, rootfs, cutOff>>

\* update.sh starts to write.
UpdateWrites ==
    /\ ipc = "updating" /\ rootfs # "torn"
    /\ rootfs' = "torn"
    /\ UNCHANGED <<scriptVars, card, cutOff>>

\* update.sh ends, well if all of the package is there, or where it failed. Its exit
\* status is not looked at.
UpdateEnds ==
    /\ Step("updating", "reboot")
    /\ \/ dir.whole /\ rootfs' = "new" /\ cutOff' = FALSE /\ UNCHANGED failed
       \/ failed' = TRUE /\ cutOff' = TRUE /\ UNCHANGED rootfs
    /\ dir' = NoPackage
    /\ UNCHANGED <<retry_count, detected, card>>

\* reboot returns before it has an effect, or has none.
RebootReturns ==
    /\ Step("reboot", "boot")
    /\ UNCHANGED <<retry_count, detected, dir, failed, card, rootfs, cutOff>>

\* normal_boot(): switch_root to an executable linuxrc, which a torn root file system may
\* lack. One that is whole is taken to mount.
Bootable == rootfs # "torn"

NormalBoot ==
    /\ \/ Step("boot", "switched")
       \/ Step("boot", "shell") /\ ~Bootable
    /\ UNCHANGED <<retry_count, detected, dir, failed, card, rootfs, cutOff>>

\* The script's own steps.
ScriptStep == \/ MountPartition \/ MountRetry \/ MountWhole
              \/ Extract \/ RunUpdate \/ SkipUpdate \/ UpdateWrites \/ UpdateEnds
              \/ RebootReturns
              \/ NormalBoot

UpdateNext == ScriptStep \/ CardDetected
=============================================================================
