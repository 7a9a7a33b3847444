------------------------ MODULE AmtActivationProofs ------------------------
(***************************************************************************)
(* Proofs about AmtActivation, for any number of faults.                   *)
(*                                                                         *)
(* The type invariant is taken apart into flags, states and counts, so     *)
(* that each is proved from the part of a step that writes it; the count   *)
(* of deactivation goroutines rests on its type and the flag's, the timer  *)
(* on nothing but who may write it.                                        *)
(***************************************************************************)
EXTENDS AmtActivation, TLAPS

FlagsOK == vpro \in BOOLEAN /\ stuck \in BOOLEAN /\ deactivationInProgress \in BOOLEAN

StatesOK ==
  /\ ras \in RasStatus /\ seen \in RasStatus /\ previousState \in RasStatus \cup {""}
  /\ main \in {"report", "serve", "disabled", "ended"}
  /\ worker \in {"idle", "info", "seen", "activate", "auth", "provision",
                 "track", "trigger", "report"}
  /\ result \in Results /\ known \in Results
  /\ timer \in {"nil", "running", "expired"}

FaultsOK == faults \in 0..MaxFaults

\* One goroutine or none, as the flag says.
CountOK == deactivations \in [Points -> Nat] /\ OneDeactivation

IInv == FlagsOK /\ StatesOK /\ FaultsOK /\ CountOK /\ TimerSet

LEMMA IInvImplies == IInv => TypeOK
BY Zenon DEF IInv, TypeOK, FlagsOK, StatesOK, FaultsOK, CountOK

LEMMA InitIInv == Init => IInv
<1> SUFFICES ASSUME Init PROVE IInv
  OBVIOUS
<1>1. FlagsOK
  BY Zenon DEF Init, FlagsOK
<1>2. StatesOK
  BY DEF Init, StatesOK, RasStatus, Results
<1>3. FaultsOK
  <2>1. faults = 0
    BY Zenon DEF Init
  <2>2. QED
    BY <2>1, FaultsAssumption DEF FaultsOK
<1>4. CountOK
  <2>1. deactivations = [p \in Points |-> 0] /\ ~deactivationInProgress
    BY Zenon DEF Init, None
  <2>2. deactivations \in [Points -> Nat]
    BY <2>1
  <2>3. OneDeactivation
    BY <2>1 DEF OneDeactivation, Points
  <2>4. QED
    BY <2>2, <2>3 DEF CountOK
<1>5. TimerSet
  <2>1. worker = "idle"
    BY Zenon DEF Init
  <2>2. QED
    BY <2>1 DEF TimerSet
<1>6. QED
  BY <1>1, <1>2, <1>3, <1>4, <1>5 DEF IInv

LEMMA StepFlags == FlagsOK /\ [Next]_vars => FlagsOK'
<1> SUFFICES ASSUME FlagsOK, [Next]_vars PROVE FlagsOK'
  OBVIOUS
<1> USE DEF FlagsOK
<1>1. CASE UNCHANGED vars \/ ReportAMTStatus \/ GiveUp
  BY <1>1 DEF vars, ReportAMTStatus, GiveUp, MainFrame, deviceVars, clientVars
<1>2. CASE Retrieve \/ ReadInfo \/ Provision \/ ReportActivationResult
  BY <1>2 DEF Retrieve, ReadInfo, Provision, ReportActivationResult, WorkerFrame, clientVars
<1>3. CASE NotConnected \/ Connected \/ Unknown \/ Connecting \/ Track
  BY <1>3 DEF NotConnected, Connected, Unknown, Connecting, Track, WorkerFrame
<1>4. CASE Trigger \/ AuthTrigger
  BY <1>4 DEF Trigger, AuthTrigger, StartDeactivation, WorkerFrame
<1>5. CASE Activate
  <2>1. stuck' \in BOOLEAN
    BY <1>5 DEF Activate, Configured
  <2>2. UNCHANGED <<vpro, deactivationInProgress>>
    BY <1>5 DEF Activate, WorkerFrame, clientVars
  <2>3. QED
    BY <2>1, <2>2
<1>6. CASE Deactivate \/ Poll \/ Return
  BY <1>6 DEF Deactivate, Poll, Return, DeactivationFrame, clientVars
<1>7. CASE Connects \/ Recovers \/ Drops \/ TimePasses
  BY <1>7 DEF Connects, Recovers, Drops, TimePasses, DeviceFrame
<1>8. CASE Restart
  BY <1>8 DEF Restart
<1>9. QED
  BY <1>1, <1>2, <1>3, <1>4, <1>5, <1>6, <1>7, <1>8 DEF Next

LEMMA StepStates == StatesOK /\ [Next]_vars => StatesOK'
<1> SUFFICES ASSUME StatesOK, [Next]_vars PROVE StatesOK'
  OBVIOUS
<1> USE DEF StatesOK
<1>1. CASE UNCHANGED vars \/ ReportAMTStatus \/ GiveUp
  BY <1>1 DEF vars, ReportAMTStatus, GiveUp, MainFrame, deviceVars, clientVars
<1>2. CASE Retrieve \/ ReadInfo
  BY <1>2 DEF Retrieve, ReadInfo, Report, WorkerFrame, clientVars, Results
<1>3. CASE NotConnected \/ Connected \/ Unknown
  BY <1>3 DEF NotConnected, Connected, Unknown, Report, WorkerFrame, Results
<1>4. CASE Connecting \/ Track
  BY <1>4 DEF Connecting, Track, Report, WorkerFrame, Results
<1>5. CASE Trigger \/ AuthTrigger
  BY <1>5 DEF Trigger, AuthTrigger, StartDeactivation, Report, WorkerFrame, Results
<1>6. CASE Activate
  <2>1. /\ worker' \in {"provision", "auth", "report"}
        /\ result' \in {result, "ACTIVATION_FAILED"}
        /\ ras' \in {ras, "connecting"}
    BY <1>6, Zenon DEF Activate, Configured, Report
  <2>2. UNCHANGED <<main, seen, previousState, timer, known>>
    BY <1>6, Zenon DEF Activate, WorkerFrame, clientVars
  <2>3. ras' \in RasStatus /\ result' \in Results
    BY <2>1 DEF RasStatus, Results
  <2>4. QED
    BY <2>1, <2>2, <2>3
<1>7. CASE Provision \/ ReportActivationResult
  BY <1>7 DEF Provision, ReportActivationResult, Report, WorkerFrame, clientVars, Results
<1>8. CASE Deactivate
  BY <1>8, Zenon DEF Deactivate, DeactivationFrame, clientVars, RasStatus
<1>9. CASE Poll
  BY <1>9 DEF Poll, DeactivationFrame, RasStatus
<1>10. CASE Return
  BY <1>10, Zenon DEF Return, DeactivationFrame
<1>11. CASE Connects \/ Recovers \/ Drops \/ TimePasses
  BY <1>11, Zenon DEF Connects, Recovers, Drops, TimePasses, DeviceFrame, RasStatus
<1>12. CASE Restart
  BY <1>12, Zenon DEF Restart, RasStatus, Results
<1>13. QED
  BY <1>1, <1>2, <1>3, <1>4, <1>5, <1>6, <1>7, <1>8, <1>9, <1>10, <1>11, <1>12 DEF Next

\* Every step leaves the number of faults, or is one that the bound allows.
LEMMA StepFaults == FaultsOK /\ [Next]_vars => FaultsOK'
<1> SUFFICES ASSUME FaultsOK, [Next]_vars PROVE FaultsOK'
  OBVIOUS
<1>1. UNCHANGED faults \/ Fault
  <2>1. CASE UNCHANGED vars \/ ReportAMTStatus \/ GiveUp
    BY <2>1, Zenon DEF vars, ReportAMTStatus, GiveUp, MainFrame
  <2>2. CASE Ticking
    BY <2>2, Zenon DEF Ticking, Retrieve, ReadInfo, NotConnected, Connected, Unknown, Connecting,
       Track, Trigger, Activate, AuthTrigger, Provision, ReportActivationResult
  <2>3. CASE Deactivating
    BY <2>3, Zenon DEF Deactivating, Deactivate, Poll, Return
  <2>4. CASE Connects \/ Recovers \/ Drops \/ TimePasses \/ Restart
    BY <2>4, Zenon DEF Connects, Recovers, Drops, TimePasses, Restart
  <2>5. QED
    BY <2>1, <2>2, <2>3, <2>4, Zenon DEF Next, Ticking, Deactivating
<1>2. QED
  BY <1>1, FaultsAssumption DEF Fault, FaultsOK

\* A goroutine that goes from one point to another keeps the count.
LEMMA MovesKeepsCount ==
  ASSUME deactivations \in [Points -> Nat],
         NEW from \in Points, NEW to \in Points, from # to, Moves(from, to)
  PROVE  /\ deactivations' \in [Points -> Nat]
         /\ deactivations'["command"] + deactivations'["poll"] + deactivations'["return"]
            = deactivations["command"] + deactivations["poll"] + deactivations["return"]
BY DEF Moves, Points

\* StartDeactivation adds the one goroutine that the flag then stands for.
LEMMA StartKeepsOne ==
  ASSUME CountOK, ~deactivationInProgress, StartDeactivation
  PROVE  CountOK'
BY DEF StartDeactivation, CountOK, OneDeactivation, Points

LEMMA StepCount == CountOK /\ FlagsOK /\ [Next]_vars => CountOK'
<1> SUFFICES ASSUME CountOK, FlagsOK, [Next]_vars PROVE CountOK'
  OBVIOUS
<1>1. CASE UNCHANGED <<deactivations, deactivationInProgress>>
  BY <1>1 DEF CountOK, OneDeactivation
<1>2. CASE Trigger \/ AuthTrigger
  <2>1. \/ UNCHANGED <<deactivations, deactivationInProgress>>
        \/ ~deactivationInProgress /\ StartDeactivation
    BY <1>2, Zenon DEF Trigger, AuthTrigger
  <2>2. QED
    BY <1>1, <2>1, StartKeepsOne
<1>3. CASE Deactivate \/ Poll
  <2>1. UNCHANGED deactivationInProgress
    BY <1>3, Zenon DEF Deactivate, Poll, clientVars
  <2>2. \E from, to \in Points : from # to /\ Moves(from, to)
    BY <1>3 DEF Deactivate, Poll, Points
  <2>3. QED
    BY <2>1, <2>2, MovesKeepsCount DEF CountOK, OneDeactivation
<1>4. CASE Return
  <2>1. ~deactivationInProgress'
    BY <1>4, Zenon DEF Return
  <2>2. /\ deactivations["return"] > 0
        /\ deactivations' = [deactivations EXCEPT !["return"] = @ - 1]
    BY <1>4, Zenon DEF Return
  <2>3. QED
    BY <2>1, <2>2 DEF CountOK, OneDeactivation, Points
<1>5. CASE Restart
  <2>1. deactivations' = [p \in Points |-> 0] /\ ~deactivationInProgress'
    BY <1>5, Zenon DEF Restart, None
  <2>2. QED
    BY <2>1 DEF CountOK, OneDeactivation, Points
<1>6. CASE UNCHANGED vars \/ ReportAMTStatus \/ GiveUp
  BY <1>1, <1>6, Zenon DEF vars, ReportAMTStatus, GiveUp, MainFrame, clientVars
<1>7. CASE \/ Retrieve \/ ReadInfo \/ NotConnected \/ Connected \/ Unknown \/ Connecting \/ Track
           \/ Activate \/ Provision \/ ReportActivationResult
  BY <1>1, <1>7, Zenon DEF Retrieve, ReadInfo, NotConnected, Connected, Unknown, Connecting, Track,
     Activate, Provision, ReportActivationResult, clientVars
<1>8. CASE Connects \/ Recovers \/ Drops \/ TimePasses
  BY <1>1, <1>8, Zenon DEF Connects, Recovers, Drops, TimePasses, DeviceFrame
<1>9. QED
  BY <1>2, <1>3, <1>4, <1>5, <1>6, <1>7, <1>8, Zenon DEF Next

\* Only the activation goroutine sets the timer back while it is at its own `track'.
LEMMA StepTimer == TimerSet /\ [Next]_vars => TimerSet'
<1> SUFFICES ASSUME TimerSet, [Next]_vars, worker' = "track" PROVE timer' # "nil"
  BY DEF TimerSet
<1>1. CASE Connecting
  BY <1>1 DEF Connecting
<1>2. CASE UNCHANGED <<worker, timer>>
  BY <1>2 DEF TimerSet
<1>3. CASE UNCHANGED vars \/ ReportAMTStatus \/ GiveUp
  BY <1>2, <1>3, Zenon DEF vars, ReportAMTStatus, GiveUp, MainFrame, clientVars
<1>4. CASE \/ Retrieve \/ ReadInfo \/ NotConnected \/ Connected \/ Unknown \/ Track
           \/ Trigger \/ AuthTrigger
  BY <1>4 DEF Retrieve, ReadInfo, NotConnected, Connected, Unknown, Track, Trigger, AuthTrigger,
     Report
<1>5. CASE Activate \/ Provision \/ ReportActivationResult
  BY <1>5 DEF Activate, Provision, ReportActivationResult, Report
<1>6. CASE Deactivating
  BY <1>2, <1>6, Zenon DEF Deactivating, Deactivate, Poll, Return, DeactivationFrame, clientVars
<1>7. CASE Connects \/ Recovers \/ Drops
  BY <1>2, <1>7, Zenon DEF Connects, Recovers, Drops, DeviceFrame
<1>8. CASE TimePasses
  BY <1>8 DEF TimePasses
<1>9. CASE Restart
  BY <1>9 DEF Restart
<1>10. QED
  BY <1>1, <1>3, <1>4, <1>5, <1>6, <1>7, <1>8, <1>9, Zenon DEF Next, Deactivating

LEMMA IInvHolds == Spec => []IInv
<1>1. IInv /\ [Next]_vars => IInv'
  BY StepFlags, StepStates, StepFaults, StepCount, StepTimer DEF IInv
<1>2. QED
  BY InitIInv, <1>1, PTL DEF Spec

\* The agent's state, and the device's as far as the agent can see it, are well-formed.
THEOREM AmtTypes == Spec => []TypeOK
BY IInvHolds, IInvImplies, PTL

\* At no time are two goroutines deactivating AMT, and the flag says whether one is:
\* the check and the setting of it share a critical section (triggerDeactivationAsync).
THEOREM OneAtATime == Spec => []OneDeactivation
<1>1. IInv => OneDeactivation
  BY DEF IInv, CountOK
<1>2. QED
  BY IInvHolds, <1>1, PTL

\* The second critical section of handleConnectingState never dereferences nil.
THEOREM NeverNil == Spec => []TimerSet
<1>1. IInv => TimerSet
  BY DEF IInv
<1>2. QED
  BY IInvHolds, <1>1, PTL
=============================================================================
