----------------------------- MODULE TrialBoot -----------------------------
(***************************************************************************)
(* What inbd and the boot manager promise together of an image update,     *)
(* without partitions, files, logs or requests: a new image runs on trial  *)
(* first, only a trial is ever kept, and a trial that is not kept ends     *)
(* with the image that was kept before, at the next start of the machine.  *)
(* As long as nothing is on trial the kept image is never touched.         *)
(***************************************************************************)
CONSTANTS Images,   \* images that can run
          Junk      \* contents of a partition that are no image

VARIABLES kept,     \* the image the machine starts by default
          running,  \* the image that runs
          trial     \* is the running image on trial

Init == kept \in Images /\ running = kept /\ trial = FALSE

(* A start of the machine: with the kept image, or with another on trial.  *)
Start ==
    \/ running' = kept /\ trial' = FALSE
    \/ running' \in Images /\ trial' = TRUE

Try  == Start /\ UNCHANGED kept

Keep == trial /\ kept' = running /\ trial' = FALSE /\ UNCHANGED running

(* During a trial the partition that is not running is the kept one: the   *)
(* next download is written over it.                                       *)
Overwrite == trial /\ kept' \in Images \cup Junk /\ UNCHANGED <<running, trial>>

(* Packages are installed into the running system, and a snapshot undone.  *)
Install ==
    /\ ~trial /\ running' \in Images /\ kept' = running' /\ UNCHANGED trial

Next == Try \/ Keep \/ Overwrite \/ Install
Spec == Init /\ [][Next]_<<kept, running, trial>>
=============================================================================
