--------------------------- MODULE PuaScheduleMC ---------------------------
(* Schedules for TLC.  A day is three ticks; the single schedules are one   *)
(* with a short window, one with a window longer than a day, and one       *)
(* without an end; the repeated ones are two that may overlap and one      *)
(* whose time gocron refuses.  What Ubuntu does EMT does, too, with no     *)
(* download and no image in place.                                         *)
EXTENDS PuaSchedule

MCSingles == {[start |-> 1, end |-> 4], [start |-> 0, end |-> 6], [start |-> 2, end |-> 0]}
Often == [times |-> {1, 3}, duration |-> 1, valid |-> TRUE]
Late  == [times |-> {2}, duration |-> 2, valid |-> TRUE]
Bad   == [times |-> {}, duration |-> 1, valid |-> FALSE]
MCRepeated == {Often, Late, Bad}
MCLists == {{}, {Often}, {Often, Late}, {Late, Bad}}
=============================================================================
