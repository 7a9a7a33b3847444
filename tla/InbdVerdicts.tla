---------------------------- MODULE InbdVerdicts ----------------------------
(***************************************************************************)
(* Inbd with a history variable that no step reads: whether inbd was       *)
(* started without the means to judge an update that was still open.       *)
(* That happens in two ways.  A verification removes the state file first  *)
(* and commits or logs later; an end of the process or of the machine      *)
(* between the two leaves the next start nothing to verify.  And another   *)
(* update truncates the state file of an image that waits for its boot.    *)
(***************************************************************************)
EXTENDS Inbd

VARIABLE unjudged   \* observation only: an update was left open, nothing logged since

(* A start of inbd that finds no state file, although an image was set for *)
(* the next boot or a verification had not come to its verdict.            *)
StartsWithoutState ==
    /\ daemon' = "down" /\ stateFile'.reason \in {"absent", "empty"}
    /\ next # "none" \/ daemon \in {"commit", "committed", "revert"}

VerdictsInit == Init /\ unjudged = FALSE
VerdictsNext ==
    Next /\ unjudged' = (StartsWithoutState \/ (unjudged /\ granular' = granular))
VerdictsSpec == VerdictsInit /\ [][VerdictsNext]_<<vars, unjudged>> /\ Fairness

-----------------------------------------------------------------------------
(* A node that serves, and whose update log says SUCCESS, runs the version *)
(* the log names: what the update wrote before the reboot, and the         *)
(* verifier after it, agree with the machine (emt/update_logger.go:87).    *)
(* It holds under every fault of the model (kills, losses of power, failed *)
(* commits and reboots, overlapping updates), except after a start that    *)
(* could not judge an open update.                                         *)
SuccessNamesRunning ==
    daemon = "serving" /\ granular.status = "SUCCESS" /\ ~unjudged =>
        granular.version = Running
=============================================================================
