----------------------------- MODULE NodeReport -----------------------------
(***************************************************************************)
(* What the Node Agent tells the Host Manager: the instance's status,      *)
(* gathered from the reports of the node's agents, the polls of the        *)
(* outbound endpoints and systemd's view of other services, and the        *)
(* kubeconfig of the cluster it detects.                                   *)
(*                                                                         *)
(* Time is counted in ticks of the heartbeat interval.                     *)
(***************************************************************************)
EXTENDS Integers

CONSTANTS Agents,      \* status.serviceClients
          NetInterval, \* ticks from poll to poll
          Configs,     \* kubeconfigs that pass the validation
          None, Bad,   \* no kubeconfig, one that does not pass
          MaxFaults,   \* bound: restarts, lost calls, late reports, commands that fail
          MaxChanges   \* bound: changes of the agents, the network, the services, the cluster

ASSUME ReportAssumption ==
    /\ {NetInterval, MaxFaults, MaxChanges} \subseteq Nat
    /\ None # Bad /\ {None, Bad} \cap Configs = {}

VARIABLES
    \* the node
    agent,     \* what each agent would report, or "silent"
    network,   \* the endpoints can be reached
    services,  \* systemctl is-active, for all of status.outboundClients
    booting,   \* less than fifteen minutes since the boot
    cluster,   \* "none", "stopped" or "running"
    config,    \* the cluster's kubeconfig
    \* the process
    up,
    status, age,        \* statusMap: what each agent reported and how many ticks ago
    netStatus, netAge,  \* nwStatusMap
    beat,      \* the heartbeat goroutine: the status it is sending, or "idle"
    det,       \* the detection goroutine: "idle", "read", "notify" or "clear"
    data,      \* the kubeconfig it has read
    last,      \* KubeconfigManager.lastKubeconfig
    \* the Host Manager
    instance, kubeconfig,
    adrift,    \* observation only: a restart or a lost answer has left the process with another
               \* idea of the Host Manager's kubeconfig than the one it has
    faults, changes

nodeVars    == <<agent, network, services, booting, cluster, config, changes>>
statusVars  == <<status, age, netStatus, netAge, beat, instance>>
clusterVars == <<det, data, last, kubeconfig, adrift>>
vars == <<nodeVars, up, statusVars, clusterVars, faults>>

Reports  == {"unspecified", "ready", "notReady"}
Statuses == {"RUNNING", "INITIALIZING", "ERROR"}
Tolerated == 2   \* ticks, beside the interval of the source

TypeOK ==
    /\ agent \in [Agents -> {"ready", "notReady", "silent"}]
    /\ {network, services, booting, up, adrift} \subseteq BOOLEAN
    /\ cluster \in {"none", "stopped", "running"} /\ config \in Configs \cup {None, Bad}
    /\ status \in [Agents -> Reports] /\ age \in [Agents -> 0..Tolerated + 1]
    /\ netStatus \in Reports /\ netAge \in 0..NetInterval + Tolerated + 1
    /\ beat \in Statuses \cup {"idle"} /\ instance \in Statuses \cup {"none"}
    /\ det \in {"idle", "read", "notify", "clear"}
    /\ {data, last, kubeconfig} \subseteq Configs \cup {None}
    /\ faults \in 0..MaxFaults /\ changes \in 0..MaxChanges

Fault == faults < MaxFaults /\ faults' = faults + 1

(* InitStatusService: every source counts from now on.                     *)
InitStatusService ==
    /\ status' = [a \in Agents |-> "unspecified"] /\ age' = [a \in Agents |-> 0]
    /\ netStatus' = "unspecified" /\ netAge' = 0

Init ==
    /\ agent = [a \in Agents |-> "ready"] /\ network = TRUE /\ services = TRUE /\ booting = TRUE
    /\ cluster = "none" /\ config = None /\ changes = 0
    /\ up = FALSE
    /\ status = [a \in Agents |-> "unspecified"] /\ age = [a \in Agents |-> 0]
    /\ netStatus = "unspecified" /\ netAge = 0 /\ beat = "idle" /\ instance = "none"
    /\ det = "idle" /\ data = None /\ last = None /\ kubeconfig = None /\ adrift = FALSE
    /\ faults = 0

-----------------------------------------------------------------------------
(***************************************************************************)
(* The status                                                              *)
(***************************************************************************)
ReportStatus(a) ==
    /\ up /\ agent[a] # "silent"
    /\ status' = [status EXCEPT ![a] = agent[a]] /\ age' = [age EXCEPT ![a] = 0]
    /\ UNCHANGED <<nodeVars, up, netStatus, netAge, beat, instance, clusterVars, faults>>

PollNetworkEndpoints ==
    /\ up /\ netAge' = 0
    /\ \/ netStatus' = (IF network THEN "ready" ELSE "notReady") /\ UNCHANGED faults
       \/ netStatus' = "notReady" /\ Fault
    /\ UNCHANGED <<nodeVars, up, status, age, beat, instance, clusterVars>>

(* Mutant of Counts: the age of a report is not looked at.                 *)
CountsForEver(report, ticks, interval) == report = "ready"

Counts(report, ticks, interval) == report = "ready" /\ ticks <= interval + Tolerated

(* The bounds that name five minutes hold as long as the machine has been  *)
(* up for less than fifteen: a number of nanoseconds is taken for seconds. *)
GatherStatus ==
    /\ up /\ beat = "idle"
    /\ beat' = IF /\ services /\ Counts(netStatus, netAge, NetInterval)
                  /\ \A a \in Agents : Counts(status[a], age[a], 0)
               THEN "RUNNING" ELSE IF booting THEN "INITIALIZING" ELSE "ERROR"
    /\ UNCHANGED <<nodeVars, up, status, age, netStatus, netAge, instance, clusterVars, faults>>

(* Retries included, the call reaches the Host Manager or not.             *)
UpdateInstanceStatus ==
    /\ up /\ beat # "idle" /\ beat' = "idle"
    /\ \/ instance' = beat /\ UNCHANGED faults
       \/ UNCHANGED instance /\ Fault
    /\ UNCHANGED <<nodeVars, up, status, age, netStatus, netAge, clusterVars>>

-----------------------------------------------------------------------------
(***************************************************************************)
(* The kubeconfig: detectAndManageCluster                                  *)
(***************************************************************************)
(* Whether there is a cluster: the binary, whose failing --version counts  *)
(* as none, then the service and its kubeconfig's path.                    *)
DetectCluster ==
    /\ up /\ det = "idle"
    /\ \/ /\ cluster = "none" /\ UNCHANGED faults
          /\ last # None /\ det' = "clear"
       \/ /\ cluster # "none" /\ Fault
          /\ last # None /\ det' = "clear"
       \/ cluster = "running" /\ config # None /\ det' = "read" /\ UNCHANGED faults
    /\ UNCHANGED <<nodeVars, up, statusVars, data, last, kubeconfig, adrift>>

(* GetKubeconfig, ValidateKubeconfig and NotifyKubeconfig's comparison     *)
(* with what the Host Manager was told last.                               *)
GetKubeconfig ==
    /\ up /\ det = "read"
    /\ IF config \in Configs /\ config # last THEN det' = "notify" /\ data' = config
                                              ELSE det' = "idle" /\ UNCHANGED data
    /\ UNCHANGED <<nodeVars, up, statusVars, last, kubeconfig, adrift, faults>>

(* A call of UpdateClusterStatus: acknowledged, applied with its answer    *)
(* lost, or lost itself.                                                   *)
Acknowledged(content) == kubeconfig' = content /\ last' = content /\ adrift' = FALSE
AnswerLost(content) ==
    /\ Fault /\ kubeconfig' = content /\ UNCHANGED last
    /\ adrift' = (content # last)
CallLost == Fault /\ UNCHANGED <<kubeconfig, last, adrift>>

(* Mutant of NotifyKubeconfig: the hash is recorded whatever happens.      *)
NotifyRecordsAlways ==
    /\ up /\ det = "notify" /\ det' = "idle" /\ data' = None
    /\ \/ Acknowledged(data) /\ UNCHANGED faults
       \/ Fault /\ last' = data /\ UNCHANGED <<kubeconfig, adrift>>
    /\ UNCHANGED <<nodeVars, up, statusVars>>

NotifyKubeconfig ==
    /\ up /\ det = "notify" /\ det' = "idle" /\ data' = None
    /\ \/ Acknowledged(data) /\ UNCHANGED faults
       \/ AnswerLost(data)
       \/ CallLost
    /\ UNCHANGED <<nodeVars, up, statusVars>>

(* Mutant of ClearKubeconfig: the memory is cleared whatever happens.      *)
ClearForgetsAlways ==
    /\ up /\ det = "clear" /\ det' = "idle"
    /\ \/ Acknowledged(None) /\ UNCHANGED faults
       \/ Fault /\ last' = None /\ UNCHANGED <<kubeconfig, adrift>>
    /\ UNCHANGED <<nodeVars, up, statusVars, data>>

ClearKubeconfig ==
    /\ up /\ det = "clear" /\ det' = "idle"
    /\ \/ Acknowledged(None) /\ UNCHANGED faults
       \/ AnswerLost(None)
       \/ CallLost
    /\ UNCHANGED <<nodeVars, up, statusVars, data>>

-----------------------------------------------------------------------------
(* The process ends and systemd starts it again, with an empty memory.     *)
Stop ==
    /\ up /\ Fault /\ up' = FALSE
    /\ InitStatusService /\ beat' = "idle"
    /\ det' = "idle" /\ data' = None /\ last' = None
    /\ adrift' = (kubeconfig # None)
    /\ UNCHANGED <<nodeVars, instance, kubeconfig>>

Start ==
    /\ ~up /\ up' = TRUE
    /\ UNCHANGED <<nodeVars, statusVars, clusterVars, faults>>

(* A tick of the heartbeat interval.  Agents report, and endpoints are     *)
(* polled, in time unless something holds them up.                         *)
Older(ticks, bound) == IF ticks <= bound THEN ticks + 1 ELSE ticks
InTime == /\ \A a \in Agents : agent[a] = "silent" \/ age[a] = 0
          /\ netAge < NetInterval
Tick ==
    /\ up
    /\ IF InTime THEN UNCHANGED faults ELSE Fault
    /\ age' = [a \in Agents |-> Older(age[a], Tolerated)]
    /\ netAge' = Older(netAge, NetInterval + Tolerated)
    /\ UNCHANGED <<nodeVars, up, status, netStatus, beat, instance, clusterVars>>

Booted == /\ booting /\ booting' = FALSE
          /\ UNCHANGED <<agent, network, services, cluster, config, changes, up, statusVars,
                         clusterVars, faults>>

Change ==
    /\ changes < MaxChanges /\ changes' = changes + 1
    /\ \/ agent' \in [Agents -> {"ready", "notReady", "silent"}]
          /\ UNCHANGED <<network, services, cluster, config>>
       \/ network' = ~network /\ UNCHANGED <<agent, services, cluster, config>>
       \/ services' = ~services /\ UNCHANGED <<agent, network, cluster, config>>
       \/ \/ cluster' = "none" /\ config' = None
          \/ cluster' \in {"stopped", "running"} /\ config' \in Configs \cup {None, Bad}
          /\ UNCHANGED <<agent, network, services>>
    /\ UNCHANGED <<booting, up, statusVars, clusterVars, faults>>

Heartbeat == GatherStatus \/ UpdateInstanceStatus
Detection == DetectCluster \/ GetKubeconfig \/ NotifyKubeconfig \/ ClearKubeconfig
Next == \/ \E a \in Agents : ReportStatus(a)
        \/ PollNetworkEndpoints \/ Heartbeat \/ Detection \/ Stop \/ Start \/ Tick \/ Booted
        \/ Change

(* Each goroutine's ticker fires, each call ends, time passes.             *)
Fairness ==
    /\ \A a \in Agents : WF_vars(ReportStatus(a))
    /\ WF_vars(PollNetworkEndpoints) /\ WF_vars(Heartbeat) /\ WF_vars(Detection)
    /\ WF_vars(Start) /\ WF_vars(Tick) /\ WF_vars(Booted)
Spec == Init /\ [][Next]_vars /\ Fairness

-----------------------------------------------------------------------------
(* The instance's status follows the node's, over restarts, late reports   *)
(* and lost calls: if one source stays bad, or an agent silent, the Host   *)
(* Manager ends up hearing anything but RUNNING; if all stay good, it ends *)
(* up with RUNNING (GatherStatus, status-service.go:115-163).              *)
Healthy == network /\ services /\ \A a \in Agents : agent[a] = "ready"
StatusFollows == /\ <>[]Healthy => <>[](instance = "RUNNING")
                 /\ <>[]~Healthy => <>[](instance # "RUNNING")

(* The kubeconfig of a cluster that runs on reaches the Host Manager,      *)
(* though calls are lost, --version fails, the process restarts and the    *)
(* file changes between the detection and the reading, unless a lost       *)
(* answer has left the process believing that it is there already          *)
(* (detectAndManageCluster, node-agent.go:403-446, and NotifyKubeconfig's  *)
(* comparison of hashes, kubeconfig_manager.go:56-60).                     *)
KubeconfigArrives ==
    \A c \in Configs :
        <>[](cluster = "running" /\ config = c)
            => <>[](kubeconfig = c \/ (adrift /\ last = c))

(* "In both cases, kubeconfig needs to be cleared to avoid stale           *)
(* kubeconfig scenario" (node-agent.go:410-411), as far as the process     *)
(* remembers: a kubeconfig is cleared after its cluster is gone, however   *)
(* often the call is lost, unless a restart, or the lost answer to its     *)
(* notification, has left the process without memory of it.                *)
RemovedIsCleared ==
    <>[](cluster = "none") => <>[](kubeconfig = None \/ (adrift /\ last = None))

=============================================================================
