------------------------- MODULE ClusterAgentProofs -------------------------
(***************************************************************************)
(* Proofs about ClusterAgent: its types, and that ACTIVE is never reported *)
(* for an installation that did not run to its end.                        *)
(***************************************************************************)
EXTENDS ClusterAgent, TLAPS

\* An active agent is not in the middle of a call.
ActiveIsIdle == state = "ACTIVE" => worker = "idle"

Inv == TypeOK /\ ActiveIsIdle /\ ActiveUnlessNoCommand

\* The initial states have the types the code names.
LEMMA InitInv == Init => Inv
<1> SUFFICES ASSUME Init PROVE Inv
  OBVIOUS
<1>1. registered \in BOOLEAN /\ deregistered \in BOOLEAN /\ mode \in Modes
  BY DEF Init
<1>2. restarts \in 0..MaxRestarts
  <2>1. restarts = 0
    BY DEF Init
  <2>2. QED
    BY <2>1, RestartsAssumption DEF RestartsAssumption
<1>3. /\ state = "INACTIVE" /\ installCmd = "" /\ uninstallCmd = "" /\ worker = "idle"
      /\ k8s = "absent" /\ beat = "idle" /\ reported = "INACTIVE" /\ answer = "NONE"
  BY DEF Init
<1>4. QED
  BY <1>1, <1>2, <1>3 DEF Inv, TypeOK, States, Commands, ActiveIsIdle, ActiveUnlessNoCommand

USE DEF agentVars, beatVars, orchVars, WorkerFrame

\* The heartbeat and the orchestrator only touch what is on its way between them.
LEMMA BeatStep ==
  ASSUME Inv, Beat \/ UpdateClusterStatus \/ BeatFails \/ Dropped \/ Delivered
  PROVE  Inv'
<1> USE DEF Inv, TypeOK, States, ActiveIsIdle, ActiveUnlessNoCommand
<1>1. CASE Beat \/ BeatFails \/ Dropped
  BY <1>1 DEF Beat, BeatFails, Dropped
<1>2. CASE UpdateClusterStatus
  <2>1. registered' \in BOOLEAN /\ deregistered' \in BOOLEAN /\ mode' \in Modes
    BY <1>2 DEF UpdateClusterStatus
  <2>2. answer' \in {"NONE", "REGISTER", "DEREGISTER"} /\ beat' = "answered"
    BY <1>2 DEF UpdateClusterStatus
  <2>3. UNCHANGED <<agentVars, k8s, reported, restarts>>
    BY <1>2 DEF UpdateClusterStatus
  <2>4. QED
    BY <2>1, <2>2, <2>3
<1>3. CASE Delivered
  BY <1>3 DEF Delivered, Register, Deregister
<1>4. QED
  BY <1>1, <1>2, <1>3

\* Whatever a call or a script comes to, ACTIVE follows only a script's success.
LEMMA WorkerStep ==
  ASSUME Inv, Registering \/ Installing \/ Deregistering \/ ReadLsbFails \/ Uninstalling \/ CleanUp
  PROVE  Inv'
<1> USE DEF Inv, TypeOK, States, ActiveIsIdle, ActiveUnlessNoCommand
<1>1. CASE Registering
  BY <1>1 DEF Registering, FetchCommands
<1>2. CASE Installing
  BY <1>2 DEF Installing, Executes
<1>3. CASE Deregistering
  BY <1>3 DEF Deregistering, FetchCommands
<1>4. CASE ReadLsbFails
  BY <1>4 DEF ReadLsbFails
<1>5. CASE Uninstalling
  <2>1. PICK ok \in BOOLEAN :
          /\ Executes(uninstallCmd, ok, "absent")
          /\ IF ok THEN worker' = "cleanup" /\ UNCHANGED <<state, uninstallCmd>>
             ELSE worker' = "idle" /\ state' = "INACTIVE" /\ uninstallCmd' = ""
    BY <1>5 DEF Uninstalling
  <2>2. worker = "uninstall" /\ UNCHANGED <<beatVars, orchVars, restarts, installCmd>>
    BY <1>5 DEF Uninstalling
  <2>3. k8s' \in {"absent", "partial", "installed"}
    BY <2>1 DEF Executes
  <2>4. /\ state' \in States /\ state' # "ACTIVE" /\ uninstallCmd' \in Commands
        /\ worker' \in {"idle", "cleanup"}
    BY <2>1, <2>2 DEF Commands
  <2>5. QED
    BY <2>2, <2>3, <2>4
<1>6. CASE CleanUp
  BY <1>6 DEF CleanUp
<1>7. QED
  BY <1>1, <1>2, <1>3, <1>4, <1>5, <1>6

\* The invariant is inductive.
LEMMA StepInv == Inv /\ [Next]_vars => Inv'
<1> SUFFICES ASSUME Inv, [Next]_vars PROVE Inv'
  OBVIOUS
<1>1. CASE Restart
  <2>1. restarts' \in 0..MaxRestarts
    <3>1. restarts \in 0..MaxRestarts
      BY DEF Inv, TypeOK
    <3>2. restarts < MaxRestarts /\ restarts' = restarts + 1
      BY <1>1 DEF Restart
    <3>3. QED
      BY <3>1, <3>2, RestartsAssumption DEF RestartsAssumption
  <2>2. /\ state' = "INACTIVE" /\ installCmd' = "" /\ uninstallCmd' = "" /\ worker' = "idle"
        /\ beat' = "idle" /\ answer' = "NONE" /\ UNCHANGED <<reported, orchVars>>
    BY <1>1 DEF Restart
  <2>3. k8s' \in {k8s, "partial"}
    BY <1>1 DEF Restart
  <2>4. QED
    BY <2>1, <2>2, <2>3 DEF Inv, TypeOK, States, Commands, ActiveIsIdle, ActiveUnlessNoCommand
<1>2. CASE UNCHANGED vars
  BY <1>2 DEF vars, Inv, TypeOK, ActiveIsIdle, ActiveUnlessNoCommand
<1>3. QED
  BY <1>1, <1>2, BeatStep, WorkerStep DEF Next

\* Whatever is dropped, fails or is restarted, an agent that says ACTIVE has run the
\* installation script to its end, unless registration left it without a command.
THEOREM ActiveIsInstalled == Spec => []ActiveUnlessNoCommand
<1>1. Inv => ActiveUnlessNoCommand
  BY DEF Inv
<1>2. QED
  BY <1>1, InitInv, StepInv, PTL DEF Spec

\* Every reachable state is well-formed.
THEOREM ClusterTypes == Spec => []TypeOK
<1>1. Inv => TypeOK
  BY DEF Inv
<1>2. QED
  BY <1>1, InitInv, StepInv, PTL DEF Spec
=============================================================================
