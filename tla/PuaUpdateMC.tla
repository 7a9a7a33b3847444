---------------------------- MODULE PuaUpdateMC ----------------------------
(***************************************************************************)
(* PuaUpdate for TLC.  On EMT the node comes with the image i1 and MM asks *)
(* for another: every other beginning is this one with the images renamed, *)
(* or asks for what is there already.                                      *)
(***************************************************************************)
EXTENDS PuaReports

CONSTANTS i1, i2

MCImages == {i1, i2}

\* MM keeps to what it asked for first, or changes its mind once on EMT.
NoChanges == [o \in OsTypes |-> 0]
EmtChanges == [o \in OsTypes |-> IF o = "emt" THEN 1 ELSE 0]

MCInit == ReportsInit /\ (osType = "emt" => booted = i1 /\ wanted.image = i2)

MCSpec == MCInit /\ [][ReportsNext]_<<vars, due>> /\ Fairness
=============================================================================
