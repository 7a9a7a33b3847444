--------------------------- MODULE AmtActivation ---------------------------
(***************************************************************************)
(* The Platform Manageability Agent: the goroutine that, asked to by the   *)
(* Device Management Manager (DM), activates Intel AMT (`worker'), and the *)
(* goroutines it starts to deactivate it again when the device is found    *)
(* stuck.  They share the Client's fields, under its mutex, and the        *)
(* device, under nothing: a status is read, and used some steps later.     *)
(***************************************************************************)
EXTENDS Naturals

CONSTANT MaxFaults   \* bound: restarts, authentication errors, lost connections, and
                     \* coincidences between the reading of a status and its use

ASSUME FaultsAssumption == MaxFaults \in Nat

VARIABLES
  vpro,              \* whether the host has AMT
  ras, stuck,        \* the device's RAS remote status; it will not connect by itself
  main,              \* the agent's main()
  worker, seen, result,      \* the activation goroutine, the status it read, what it reports
  previousState, timer,      \* Client: previousState, connectingStateStartTime
  deactivationInProgress,
  deactivations,     \* how many deactivation goroutines are at each point
  known,             \* the activation status DM heard last
  faults

deviceVars == <<vpro, ras, stuck>>
clientVars == <<previousState, timer, deactivationInProgress>>
vars == <<deviceVars, main, worker, seen, result, clientVars, deactivations, known, faults>>

RasStatus == {"not connected", "connecting", "connected", "other"}
Results   == {"ACTIVATING", "ACTIVATED", "ACTIVATION_FAILED", "UNSPECIFIED"}
Points    == {"command", "poll", "return"}

TypeOK ==
  /\ vpro \in BOOLEAN /\ ras \in RasStatus /\ stuck \in BOOLEAN
  /\ main \in {"report", "serve", "disabled", "ended"}
  /\ worker \in {"idle", "info", "seen", "activate", "auth", "provision",
                 "track", "trigger", "report"}
  /\ seen \in RasStatus
  /\ result \in Results
  /\ previousState \in RasStatus \cup {""}
  /\ timer \in {"nil", "running", "expired"}
  /\ deactivationInProgress \in BOOLEAN
  /\ deactivations \in [Points -> Nat]
  /\ known \in Results
  /\ faults \in 0..MaxFaults

None == [p \in Points |-> 0]

Init ==
  /\ vpro \in BOOLEAN /\ ras \in RasStatus /\ stuck \in BOOLEAN
  /\ main = "report"
  /\ worker = "idle" /\ seen = "other" /\ result = "UNSPECIFIED"
  /\ previousState = "" /\ timer = "nil" /\ deactivationInProgress = FALSE
  /\ deactivations = None
  /\ known = "UNSPECIFIED"
  /\ faults = 0

Fault == faults < MaxFaults /\ faults' = faults + 1

-----------------------------------------------------------------------------
(* main(): the AMT status is reported once, at the start *)

MainFrame == UNCHANGED <<deviceVars, worker, seen, result, clientVars, deactivations, known, faults>>

\* Without the HECI driver the status counts as reported only if DM could not be
\* reached: to have told it DISABLED is an error, and is retried.
ReportAMTStatus ==
  /\ main = "report"
  /\ main' = (IF vpro THEN "serve" ELSE "disabled")
  /\ MainFrame

\* After its retries main() returns, with an exit code systemd takes for success.
GiveUp ==
  /\ main = "report" /\ main' = "ended"
  /\ MainFrame

-----------------------------------------------------------------------------
(* RetrieveActivationDetails, at each tick of the activation goroutine *)

WorkerFrame == UNCHANGED <<vpro, main>>

Report(status) == worker' = "report" /\ result' = status

\* DM asks for ACTIVATE: every other answer, and every error, ends the tick.
Retrieve ==
  /\ main = "serve" /\ worker = "idle" /\ worker' = "info"
  /\ WorkerFrame /\ UNCHANGED <<ras, stuck, seen, result, clientVars, deactivations, known, faults>>

ReadInfo ==
  /\ worker = "info"
  /\ \/ seen' = ras /\ worker' = "seen" /\ UNCHANGED result
     \/ Report("ACTIVATION_FAILED") /\ UNCHANGED seen
  /\ WorkerFrame /\ UNCHANGED <<ras, stuck, clientVars, deactivations, known, faults>>

NotConnected ==
  /\ worker = "seen" /\ seen = "not connected"
  /\ previousState' = seen /\ timer' = "nil" /\ worker' = "activate"
  /\ WorkerFrame /\ UNCHANGED <<ras, stuck, seen, result, deactivationInProgress, deactivations,
                                known, faults>>

Connected ==
  /\ worker = "seen" /\ seen = "connected"
  /\ previousState' = seen /\ timer' = "nil" /\ Report("ACTIVATED")
  /\ WorkerFrame /\ UNCHANGED <<ras, stuck, seen, deactivationInProgress, deactivations, known,
                                faults>>

\* The time spent connecting goes on counting.
Unknown ==
  /\ worker = "seen" /\ seen = "other"
  /\ previousState' = seen /\ Report("UNSPECIFIED")
  /\ WorkerFrame /\ UNCHANGED <<ras, stuck, seen, timer, deactivationInProgress, deactivations,
                                known, faults>>

\* handleConnectingState, its first critical section: a device that did not come
\* from "not connected" is deactivated at once.
Connecting ==
  /\ worker = "seen" /\ seen = "connecting"
  /\ timer' = (IF timer = "nil" THEN "running" ELSE timer)
  /\ worker' = (IF timer = "nil" /\ previousState # "not connected" THEN "trigger" ELSE "track")
  /\ WorkerFrame /\ UNCHANGED <<ras, stuck, seen, result, previousState, deactivationInProgress,
                                deactivations, known, faults>>

\* Its second one, which dereferences the timer.
Track ==
  /\ worker = "track"
  /\ previousState' = seen
  /\ IF timer = "expired" THEN worker' = "trigger" /\ UNCHANGED result ELSE Report("ACTIVATING")
  /\ WorkerFrame /\ UNCHANGED <<ras, stuck, seen, timer, deactivationInProgress, deactivations,
                                known, faults>>

StartDeactivation ==
  /\ deactivationInProgress' = TRUE /\ timer' = "nil"
  /\ deactivations' = [deactivations EXCEPT !["command"] = @ + 1]

\* Mutant: a deactivation that is still going on is not looked for.
TriggerUnchecked ==
  /\ worker = "trigger"
  /\ StartDeactivation /\ Report("ACTIVATION_FAILED")
  /\ WorkerFrame /\ UNCHANGED <<ras, stuck, seen, previousState, known, faults>>

Trigger ==
  /\ worker = "trigger"
  /\ IF deactivationInProgress
     THEN Report("ACTIVATING") /\ UNCHANGED <<timer, deactivationInProgress, deactivations>>
     ELSE StartDeactivation /\ Report("ACTIVATION_FAILED")
  /\ WorkerFrame /\ UNCHANGED <<ras, stuck, seen, previousState, known, faults>>

\* The device has its CIRA configuration: it connects, or is stuck.
Configured ==
  IF ras = "not connected" THEN ras' = "connecting" /\ stuck' \in BOOLEAN
  ELSE UNCHANGED <<ras, stuck>>

\* rpc activate: CIRA configured, AMT refuses the password, or any other failure,
\* which may come after the device has been told to connect.
Activate ==
  /\ worker = "activate"
  /\ \/ worker' = "provision" /\ Configured /\ UNCHANGED <<result, faults>>
     \/ worker' = "auth" /\ Fault /\ UNCHANGED <<ras, stuck, result>>
     \/ Report("ACTIVATION_FAILED") /\ UNCHANGED faults
        /\ (Configured \/ UNCHANGED <<ras, stuck>>)
  /\ WorkerFrame /\ UNCHANGED <<seen, clientVars, deactivations, known>>

\* Here what triggerDeactivationAsync returns is not used.
AuthTrigger ==
  /\ worker = "auth"
  /\ IF deactivationInProgress THEN UNCHANGED <<timer, deactivationInProgress, deactivations>>
     ELSE StartDeactivation
  /\ Report("ACTIVATION_FAILED")
  /\ WorkerFrame /\ UNCHANGED <<ras, stuck, seen, previousState, known, faults>>

\* isProvisioned waits for the status to follow, as long as its retries last.
Provision ==
  /\ worker = "provision"
  /\ Report(IF ras \in {"connecting", "connected"} THEN "ACTIVATING" ELSE "ACTIVATION_FAILED")
  /\ WorkerFrame /\ UNCHANGED <<ras, stuck, seen, clientVars, deactivations, known, faults>>

ReportActivationResult ==
  /\ worker = "report" /\ worker' = "idle"
  /\ known' \in {result, known}
  /\ WorkerFrame /\ UNCHANGED <<ras, stuck, seen, result, clientVars, deactivations, faults>>

-----------------------------------------------------------------------------
(* performDeactivationAsync *)

DeactivationFrame == UNCHANGED <<vpro, main, worker, seen, result, known>>

Moves(from, to) ==
  /\ deactivations[from] > 0
  /\ deactivations' = [deactivations EXCEPT ![from] = @ - 1, ![to] = @ + 1]

\* Mutant: the goroutine of a failed command returns with the flag still set.
DeactivateForgotten ==
  /\ deactivations["command"] > 0
  /\ \/ Moves("command", "poll")
     \/ deactivations' = [deactivations EXCEPT !["command"] = @ - 1]
  /\ \/ ras' = "not connected" /\ stuck' = FALSE
     \/ UNCHANGED <<ras, stuck>>
  /\ DeactivationFrame /\ UNCHANGED <<clientVars, faults>>

\* The command fails, or its result is polled for: with or without an effect, as
\* the status it is verified by may be unreadable.
Deactivate ==
  /\ \/ Moves("command", "poll")
     \/ Moves("command", "return")
  /\ \/ ras' = "not connected" /\ stuck' = FALSE
     \/ UNCHANGED <<ras, stuck>>
  /\ DeactivationFrame /\ UNCHANGED <<clientVars, faults>>

\* Mutant: the polling that confirms the deactivation also drops the timer.
PollResetsTimer ==
  /\ Moves("poll", "return")
  /\ \/ ras = "not connected" /\ previousState' = "not connected" /\ timer' = "nil"
     \/ UNCHANGED <<previousState, timer>>
  /\ DeactivationFrame /\ UNCHANGED <<ras, stuck, deactivationInProgress, faults>>

\* The polling sees the device "not connected", or times out.
Poll ==
  /\ Moves("poll", "return")
  /\ \/ ras = "not connected" /\ previousState' = "not connected"
     \/ UNCHANGED previousState
  /\ DeactivationFrame /\ UNCHANGED <<ras, stuck, timer, deactivationInProgress, faults>>

\* The flag is reset; a trigger decided on a status read before then starts anew.
Return ==
  /\ deactivations["return"] > 0
  /\ IF worker \in {"seen", "track", "trigger"} THEN Fault ELSE UNCHANGED faults
  /\ deactivations' = [deactivations EXCEPT !["return"] = @ - 1]
  /\ deactivationInProgress' = FALSE
  /\ DeactivationFrame /\ UNCHANGED <<ras, stuck, previousState, timer>>

-----------------------------------------------------------------------------
(* The device, time, and restarts *)

DeviceFrame == UNCHANGED <<vpro, main, worker, seen, result, previousState,
                           deactivationInProgress, deactivations, known>>

Connects ==
  /\ ras = "connecting" /\ ~stuck /\ ras' = "connected"
  /\ DeviceFrame /\ UNCHANGED <<stuck, timer, faults>>

Recovers ==
  /\ ras = "other" /\ ras' \in {"not connected", "connecting"} /\ stuck' \in BOOLEAN
  /\ DeviceFrame /\ UNCHANGED <<timer, faults>>

Drops ==
  /\ \/ ras = "connected" /\ ras' \in {"connecting", "other"}
     \/ ras = "connecting" /\ ras' = "other"
  /\ stuck' \in BOOLEAN
  /\ Fault
  /\ DeviceFrame /\ UNCHANGED timer

\* Three minutes go by, in which a device that can connect has done so.  The time
\* handleConnectingState compares is taken as it begins; that they end just between
\* the reading of the status and that moment counts as a fault.
TimePasses ==
  /\ timer = "running" /\ timer' = "expired"
  /\ worker # "track" /\ (ras = "connecting" => stuck)
  /\ IF worker = "seen" THEN Fault ELSE UNCHANGED faults
  /\ DeviceFrame /\ UNCHANGED <<ras, stuck>>

\* The process ends, and the rpc command it is running with it.
Restart ==
  /\ main # "ended" /\ Fault
  /\ main' = "report"
  /\ worker' = "idle" /\ seen' = "other" /\ result' = "UNSPECIFIED"
  /\ previousState' = "" /\ timer' = "nil" /\ deactivationInProgress' = FALSE
  /\ deactivations' = None
  /\ ras' \in {ras} \cup {r \in {"not connected"} : deactivations["command"] > 0}
                    \cup {r \in {"connecting"} : worker = "activate"}
  /\ UNCHANGED <<vpro, stuck, known>>

-----------------------------------------------------------------------------
Ticking == Retrieve \/ ReadInfo \/ NotConnected \/ Connected \/ Unknown \/ Connecting \/ Track
           \/ Trigger \/ Activate \/ AuthTrigger \/ Provision \/ ReportActivationResult

Deactivating == Deactivate \/ Poll \/ Return

Next == \/ ReportAMTStatus \/ GiveUp
        \/ Retrieve \/ ReadInfo \/ NotConnected \/ Connected \/ Unknown \/ Connecting \/ Track
        \/ Trigger \/ Activate \/ AuthTrigger \/ Provision \/ ReportActivationResult
        \/ Deactivate \/ Poll \/ Return
        \/ Connects \/ Recovers \/ Drops \/ TimePasses \/ Restart

\* Goroutines are scheduled and commands end.  If not each time, then again and again
\* amtinfo can be read, DM be reached, the device be deactivated and, no command to
\* deactivate it running, be activated.  A device that is not stuck connects; three minutes go by.
Fairness ==
  /\ WF_vars(ReportAMTStatus) /\ WF_vars(Ticking) /\ SF_vars(Deactivating)
  /\ SF_vars(ReadInfo /\ worker' = "seen")
  /\ SF_vars(ReportActivationResult /\ result = "ACTIVATED" /\ known' = result)
  /\ SF_vars(Activate /\ worker' = "provision" /\ ~stuck' /\ deactivations["command"] = 0)
  /\ SF_vars(Deactivate /\ ras' = "not connected")
  /\ WF_vars(Connects) /\ WF_vars(Recovers) /\ SF_vars(TimePasses)

Spec == Init /\ [][Next]_vars /\ Fairness
-----------------------------------------------------------------------------
(* Properties *)

\* triggerDeactivationAsync starts a goroutine only if none is running, whoever asked
\* for it and however the last one ended: two of them never fight over the device.
OneDeactivation ==
  deactivations["command"] + deactivations["poll"] + deactivations["return"]
    = (IF deactivationInProgress THEN 1 ELSE 0)

\* handleConnectingState lets go of the mutex between setting the timer and
\* dereferencing it; no deactivation takes it away meanwhile, or the agent panics.
TimerSet == worker = "track" => timer # "nil"

\* While DM asks for it, a host with AMT gets activated, and activated again: a device
\* that is stuck, a deactivation that fails or a restart in mid-connection is not the end.
GetsActivated == []<>(known = "ACTIVATED" \/ main \in {"disabled", "ended"})

=============================================================================
