----------------------------- MODULE PuaReports -----------------------------
(***************************************************************************)
(* PuaUpdate with a history variable that no step reads: whether the       *)
(* Maintenance Manager (MM) has still to hear of the last UPDATED that was *)
(* recorded, and nothing has taken its place in metadata.json.             *)
(***************************************************************************)
EXTENDS PuaUpdate

VARIABLE due   \* observation only: MM is to hear of an UPDATED

Recorded    == status # "UPDATED" /\ status' = "UPDATED"
Heard       == tick = "reportUpdated" /\ tick' = "clear" /\ known' = "UPDATED"
Overwritten == status = "UPDATED" /\ status' \in {"STARTED", "DOWNLOADING", "FAILED"}
TornAway    == status = "UPDATED" /\ status' = "UP_TO_DATE" /\ main' = "down"

ReportsInit == Init /\ due = FALSE
ReportsNext ==
  Next /\ due' = (Recorded \/ (due /\ ~Heard /\ ~Overwritten /\ ~TornAway))

-----------------------------------------------------------------------------
\* MM is told of an UPDATED status, and then the agent is ready again: reports that
\* fail are repeated, also after a restart of the agent or of the machine.  Three
\* things may come before the report: a new update, a download or the failed reboot
\* of a kernel update overwrites the status; metadata.json is torn and begun anew; or
\* the status was recorded while the ticker was about to clear an older one.
UpdatedIsReported ==
  status = "UPDATED" /\ due /\ tick # "clear" ~> ~due /\ status # "UPDATED"
=============================================================================
