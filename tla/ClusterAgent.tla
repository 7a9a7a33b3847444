---------------------------- MODULE ClusterAgent ----------------------------
(***************************************************************************)
(* The Cluster Agent: the state machine that installs and removes the      *)
(* Kubernetes engine, the heartbeat that reports its state to the Cluster  *)
(* Orchestrator, and the goroutine that carries out what the orchestrator  *)
(* asks for.  The heartbeat hands a request over only to a goroutine that  *)
(* is waiting for one; nothing of the state machine survives a restart.    *)
(*                                                                         *)
(* The orchestrator is the repository's mock of it, in both of its modes.  *)
(***************************************************************************)
EXTENDS Naturals

CONSTANTS Modes,        \* of the orchestrator: "regular", "test"
          MaxRestarts   \* bound: how often the agent is restarted

ASSUME ModesAssumption == Modes \subseteq {"regular", "test"}
ASSUME RestartsAssumption == MaxRestarts \in Nat

VARIABLES
  state,          \* currentState of the state machine
  installCmd, uninstallCmd,
  worker,         \* the call the request goroutine is in
  k8s,            \* the Kubernetes engine on the node
  beat, reported, answer,    \* the heartbeat, and the status update it is in
  mode, registered, deregistered,   \* the orchestrator
  restarts

agentVars == <<state, installCmd, uninstallCmd, worker>>
beatVars  == <<beat, reported, answer>>
orchVars  == <<mode, registered, deregistered>>
vars      == <<agentVars, k8s, beatVars, orchVars, restarts>>

States == {"INACTIVE", "REGISTERING", "INSTALL_IN_PROGRESS", "ACTIVE",
           "DEREGISTERING", "UNINSTALL_IN_PROGRESS"}
Commands == {"", "command"}

TypeOK ==
  /\ state \in States
  /\ installCmd \in Commands /\ uninstallCmd \in Commands
  /\ worker \in {"idle", "register", "install", "deregister", "uninstall", "cleanup"}
  /\ k8s \in {"absent", "partial", "installed"}
  /\ beat \in {"idle", "sent", "answered"}
  /\ reported \in States
  /\ answer \in {"NONE", "REGISTER", "DEREGISTER"}
  /\ mode \in Modes /\ registered \in BOOLEAN /\ deregistered \in BOOLEAN
  /\ restarts \in 0..MaxRestarts

Init ==
  /\ state = "INACTIVE" /\ installCmd = "" /\ uninstallCmd = "" /\ worker = "idle"
  /\ k8s = "absent"
  /\ beat = "idle" /\ reported = "INACTIVE" /\ answer = "NONE"
  /\ mode \in Modes /\ registered = FALSE /\ deregistered = FALSE
  /\ restarts = 0

-----------------------------------------------------------------------------
(* The heartbeat *)

Beat ==
  /\ beat = "idle" /\ beat' = "sent"
  /\ reported' = state
  /\ UNCHANGED <<agentVars, k8s, answer, orchVars, restarts>>

\* The mock asks for the cluster, in test mode then for its removal, then for nothing.
UpdateClusterStatus ==
  /\ beat = "sent" /\ beat' = "answered"
  /\ IF mode = "regular"
     THEN answer' = "REGISTER" /\ UNCHANGED orchVars
     ELSE /\ registered' = (registered \/ reported = "ACTIVE")
          /\ deregistered' = (deregistered \/ (registered /\ reported = "INACTIVE"))
          /\ answer' = (IF ~registered' THEN "REGISTER"
                        ELSE IF ~deregistered' THEN "DEREGISTER" ELSE "NONE")
          /\ UNCHANGED mode
  /\ UNCHANGED <<agentVars, k8s, reported, restarts>>

\* No retry reached the orchestrator.
BeatFails ==
  /\ beat = "sent" /\ beat' = "idle"
  /\ UNCHANGED <<agentVars, k8s, reported, answer, orchVars, restarts>>

\* The answer is lost, or finds the request goroutine not reading from the channel.
Dropped ==
  /\ beat = "answered" /\ beat' = "idle" /\ answer' = "NONE"
  /\ UNCHANGED <<agentVars, k8s, reported, orchVars, restarts>>

\* Every other state answers Register with an error.
Register ==
  /\ answer = "REGISTER"
  /\ IF state = "INACTIVE" THEN state' = "REGISTERING" /\ worker' = "register"
     ELSE UNCHANGED <<state, worker>>

\* A Deregister that could not read /etc/lsb-release left the state where it was.
Deregister ==
  /\ answer = "DEREGISTER"
  /\ \/ state \in {"INACTIVE", "ACTIVE"} /\ state' = "DEREGISTERING" /\ worker' = "deregister"
     \/ state = "UNINSTALL_IN_PROGRESS" /\ worker' = "uninstall" /\ UNCHANGED state
     \/ state \notin {"INACTIVE", "ACTIVE", "UNINSTALL_IN_PROGRESS"}
        /\ UNCHANGED <<state, worker>>

Delivered ==
  /\ beat = "answered" /\ worker = "idle"
  /\ beat' = "idle" /\ answer' = "NONE"
  /\ Register \/ Deregister \/ (answer = "NONE" /\ UNCHANGED <<state, worker>>)
  /\ UNCHANGED <<installCmd, uninstallCmd, k8s, reported, orchVars, restarts>>

-----------------------------------------------------------------------------
(* What a request leads to *)

WorkerFrame == UNCHANGED <<beatVars, orchVars, restarts>>

\* registerToClusterOrch: both commands, or neither once its retries have expired.
FetchCommands ==
  \E command \in Commands : installCmd' = command /\ uninstallCmd' = command

Registering ==
  /\ worker = "register" /\ worker' = "install"
  /\ FetchCommands
  /\ state' = "INSTALL_IN_PROGRESS"
  /\ WorkerFrame /\ UNCHANGED k8s

\* bash runs an empty command without an error.
Executes(command, ok, result) ==
  IF command = "" THEN ok /\ UNCHANGED k8s
  ELSE k8s' = (IF ok THEN result ELSE "partial")

\* Mutant: the script's error is not looked at.
InstallingUnchecked ==
  /\ worker = "install" /\ worker' = "idle"
  /\ \E ok \in BOOLEAN : Executes(installCmd, ok, "installed")
  /\ state' = "ACTIVE"
  /\ WorkerFrame /\ UNCHANGED <<installCmd, uninstallCmd>>

\* Mutant: the error is returned before the state is set back.
InstallingEarlyReturn ==
  /\ worker = "install" /\ worker' = "idle"
  /\ \E ok \in BOOLEAN : /\ Executes(installCmd, ok, "installed")
                         /\ state' = (IF ok THEN "ACTIVE" ELSE state)
  /\ WorkerFrame /\ UNCHANGED <<installCmd, uninstallCmd>>

Installing ==
  /\ worker = "install" /\ worker' = "idle"
  /\ \E ok \in BOOLEAN : /\ Executes(installCmd, ok, "installed")
                         /\ state' = (IF ok THEN "ACTIVE" ELSE "INACTIVE")
  /\ WorkerFrame /\ UNCHANGED <<installCmd, uninstallCmd>>

Deregistering ==
  /\ worker = "deregister" /\ worker' = "uninstall"
  /\ IF uninstallCmd = "" THEN FetchCommands ELSE UNCHANGED <<installCmd, uninstallCmd>>
  /\ state' = "UNINSTALL_IN_PROGRESS"
  /\ WorkerFrame /\ UNCHANGED k8s

ReadLsbFails ==
  /\ worker = "uninstall" /\ worker' = "idle"
  /\ WorkerFrame /\ UNCHANGED <<state, installCmd, uninstallCmd, k8s>>

Uninstalling ==
  /\ worker = "uninstall"
  /\ \E ok \in BOOLEAN :
       /\ Executes(uninstallCmd, ok, "absent")
       /\ IF ok THEN worker' = "cleanup" /\ UNCHANGED <<state, uninstallCmd>>
          ELSE worker' = "idle" /\ state' = "INACTIVE" /\ uninstallCmd' = ""
  /\ WorkerFrame /\ UNCHANGED installCmd

\* Mutant: the state is not set once everything is removed.
CleanUpForgotten ==
  /\ worker = "cleanup" /\ worker' = "idle"
  /\ WorkerFrame /\ UNCHANGED <<state, installCmd, uninstallCmd, k8s>>

\* The volumes are removed, or not: the state is the same.
CleanUp ==
  /\ worker = "cleanup" /\ worker' = "idle"
  /\ state' = "INACTIVE"
  /\ WorkerFrame /\ UNCHANGED <<installCmd, uninstallCmd, k8s>>

\* The process ends, with the script it is running, and systemd starts it again.
Restart ==
  /\ restarts < MaxRestarts /\ restarts' = restarts + 1
  /\ state' = "INACTIVE" /\ installCmd' = "" /\ uninstallCmd' = "" /\ worker' = "idle"
  /\ beat' = "idle" /\ answer' = "NONE"
  /\ k8s' \in {k8s} \cup (IF worker \in {"install", "uninstall"} THEN {"partial"} ELSE {})
  /\ UNCHANGED <<reported, orchVars>>

-----------------------------------------------------------------------------
Working == Registering \/ Installing \/ Deregistering \/ Uninstalling \/ CleanUp

Next == \/ Beat \/ UpdateClusterStatus \/ BeatFails \/ Dropped \/ Delivered
        \/ Registering \/ Installing \/ Deregistering \/ ReadLsbFails \/ Uninstalling \/ CleanUp
        \/ Restart

\* The heartbeat ticks on, calls and scripts end, the orchestrator is reached again
\* and again, some heartbeats find the goroutine waiting, and what is retried for
\* ever succeeds some time.
Fairness ==
  /\ WF_vars(Beat) /\ WF_vars(Working)
  /\ SF_vars(UpdateClusterStatus) /\ SF_vars(Delivered)
  /\ SF_vars(Uninstalling) /\ SF_vars(Installing /\ state' = "ACTIVE")

Spec == Init /\ [][Next]_vars /\ Fairness
-----------------------------------------------------------------------------
(* Properties *)

\* What the orchestrator hears as ACTIVE is a node whose installation script ran to
\* its end, or one whose registration gave up without a command: no failed, killed
\* or half undone installation is ever reported ACTIVE.
ActiveUnlessNoCommand == state = "ACTIVE" => k8s = "installed" \/ installCmd = ""

\* An orchestrator that keeps asking for the cluster gets it: requests dropped by a
\* busy agent, failed installations and restarts do not leave the agent behind.
StaysActive == mode = "regular" => <>[](state = "ACTIVE")

\* Asked to remove the cluster, the agent comes to INACTIVE: a request that finds it
\* busy, or a removal that stops at an unreadable file, is not the last word.
RemovalEnds == registered ~> state = "INACTIVE"
=============================================================================
