------------------------------ MODULE Telemetry ------------------------------
(***************************************************************************)
(* The Platform Telemetry Agent: it polls the Telemetry Manager (TM) for   *)
(* the node's configuration, compares it with the one it got last, and has *)
(* up to four updaters in parallel rewrite the collectors' files or config *)
(* maps and restart the collectors.  Beside it, the status goroutine tells *)
(* the Node Agent whether TM has answered lately.                          *)
(*                                                                         *)
(* Time is counted in ticks of the status goroutine's compareInterval.     *)
(***************************************************************************)
EXTENDS Integers

CONSTANTS Groups,      \* pairs of collector kind and resource kind: the masks' indexes
          Offers,      \* the configurations TM may hold: sets of items
          MaxFaults,   \* bound: restarts, lost calls, late polls, commands that fail
          MaxChanges   \* bound: changes of TM's configuration and of its reachability

(* An item: "input" names an entry of the group's template, "setting" is   *)
(* its Interval and its Level.                                             *)
ASSUME OffersAssumption ==
    /\ \A offer \in Offers : \A item \in offer :
           /\ item = [group |-> item.group, input |-> item.input, setting |-> item.setting]
           /\ item.group \in Groups
    /\ {MaxFaults, MaxChanges} \subseteq Nat

VARIABLES
    config, reachable,  \* TM: its configuration, whether it answers
    up,
    last,       \* LastResp, and with it LastProfile; {} before the first answer
    stage,      \* each group's updater: "idle", "write" or "restart"
    job,        \* what it is about to write
    file,       \* the collector's file, or its config map
    running,    \* what the collector runs with
    age,        \* lastUpdateTimestamp: ticks since TM's last answer
    reported,   \* what the Node Agent has heard: "none", "ready" or "notReady"
    excused,    \* observation only: the groups whose updater has failed, or whose change
                \* another group's item, or a restart, has hidden, and that have not been
                \* updated since
    faults, changes

tmVars       == <<config, reachable, changes>>
updaterVars  == <<stage, job, file, running, excused>>
vars == <<tmVars, up, last, updaterVars, age, reported, faults>>

(* updateCfg: the group's items, and the template's default inputs, or,    *)
(* for a group that has just lost its last item, the initial ones.         *)
Content(items, isInit) == [items |-> items, isInit |-> isInit]
Of(g, cfg) == {item \in cfg : item.group = g}
Rendered(g, cfg) == Content(Of(g, cfg), Of(g, cfg) = {})
Contents == [items : (UNION {SUBSET offer : offer \in Offers}) \cup {{}}, isInit : BOOLEAN]

Answered == 2   \* ticks that an answer counts

TypeOK ==
    /\ config \in Offers /\ last \in Offers \cup {{}}
    /\ {reachable, up} \subseteq BOOLEAN
    /\ stage \in [Groups -> {"idle", "write", "restart"}]
    /\ {job, file, running} \subseteq [Groups -> Contents]
    /\ age \in 0..Answered + 1 /\ reported \in {"none", "ready", "notReady"}
    /\ excused \subseteq Groups
    /\ faults \in 0..MaxFaults /\ changes \in 0..MaxChanges

Fault == faults < MaxFaults /\ faults' = faults + 1
Idle == stage = [g \in Groups |-> "idle"]

(* The packages' files hold the initial inputs only.                       *)
Init ==
    /\ config \in Offers /\ reachable = TRUE /\ changes = 0
    /\ up = FALSE /\ last = {}
    /\ stage = [g \in Groups |-> "idle"]
    /\ job = [g \in Groups |-> Rendered(g, {})] /\ file = job /\ running = job
    /\ age = Answered + 1 /\ reported = "none" /\ excused = {} /\ faults = 0

-----------------------------------------------------------------------------
(***************************************************************************)
(* CheckIfChanged                                                          *)
(***************************************************************************)
Profile(cfg) == {item.group : item \in cfg}
Same(i, j) == i.input = j.input /\ i.setting = j.setting

(* Mutants of NewItems and Vanished: a new interval is none; the profiles  *)
(* are not compared.                                                       *)
NewInputs(cfg) == {i \in cfg : \A j \in last : i.input # j.input}
VanishedNever(cfg) == {}

(* The groups with an item that no previous item equals, or whose input    *)
(* has gone; the comparison does not look at the groups.                   *)
NewItems(cfg)   == {i \in cfg : \A j \in last : ~Same(i, j)}
LostInputs(cfg) == {j \in last : \A i \in cfg : i.input # j.input}

(* maskInit: the groups that have lost their last item.                    *)
Vanished(cfg) == Profile(last) \ Profile(cfg)

Dirty(cfg) == Profile(NewItems(cfg) \cup LostInputs(cfg)) \cup Vanished(cfg)

(* Observation only: an item of the group and one of another share their   *)
(* input, so that one may hide a change of the other.                      *)
Shared(cfg) == {g \in Groups : \E i \in Of(g, cfg \cup last), j \in cfg \cup last :
                                   j.group # g /\ i.input = j.input}

(* A turn of the main loop, which waits for the last turn's updaters:      *)
(* GetConfig with its retries, the comparison, the start of the updaters.  *)
Poll ==
    /\ up /\ Idle
    /\ \/ /\ reachable
          /\ age' = 0 /\ last' = config
          /\ stage' = [g \in Groups |-> IF g \in Dirty(config) THEN "write" ELSE "idle"]
          /\ job' = [g \in Groups |-> IF g \in Dirty(config)
                                      THEN Content(Of(g, config), g \in Vanished(config))
                                      ELSE job[g]]
          /\ excused' = excused \cup Shared(config)
          /\ UNCHANGED faults
       \/ reachable /\ Fault /\ UNCHANGED <<age, last, stage, job, excused>>
    /\ UNCHANGED <<tmVars, up, file, running, reported>>

(* The updaters: template, temporary file, and `mv' or `kubectl patch';    *)
(* then the owner and the service's restart, or `kubectl delete pods'.  An *)
(* error ends them, and main() only prints it.                             *)
UpdaterFails(g) == /\ Fault /\ stage' = [stage EXCEPT ![g] = "idle"]
                   /\ excused' = excused \cup {g}

Write(g) ==
    /\ up /\ stage[g] = "write"
    /\ \/ /\ file' = [file EXCEPT ![g] = job[g]]
          /\ stage' = [stage EXCEPT ![g] = "restart"] /\ UNCHANGED <<excused, faults>>
       \/ UpdaterFails(g) /\ UNCHANGED file
    /\ UNCHANGED <<tmVars, up, last, job, running, age, reported>>

RestartCollector(g) ==
    /\ up /\ stage[g] = "restart"
    /\ \/ /\ running' = [running EXCEPT ![g] = file[g]]
          /\ stage' = [stage EXCEPT ![g] = "idle"]
          /\ excused' = excused \ {g} /\ UNCHANGED faults
       \/ UpdaterFails(g) /\ UNCHANGED running
    /\ UNCHANGED <<tmVars, up, last, job, file, age, reported>>

-----------------------------------------------------------------------------
(***************************************************************************)
(* The status goroutine, the process, TM                                   *)
(***************************************************************************)
(* Mutant of SendStatus: every answer counts for ever.                     *)
SendReadyForEver ==
    /\ up /\ reported' = "ready"
    /\ UNCHANGED <<tmVars, up, last, updaterVars, age, faults>>

SendStatus ==
    /\ up
    /\ \/ reported' = (IF age <= Answered THEN "ready" ELSE "notReady") /\ UNCHANGED faults
       \/ Fault /\ UNCHANGED reported
    /\ UNCHANGED <<tmVars, up, last, updaterVars, age>>

(* The memory is lost: what was last applied cannot be compared with any   *)
(* more, and updaters are cut short.                                       *)
Stop ==
    /\ up /\ Fault /\ up' = FALSE
    /\ last' = {} /\ age' = Answered + 1
    /\ stage' = [g \in Groups |-> "idle"]
    /\ excused' = excused \cup {g \in Groups : stage[g] # "idle"}
                          \cup {g \in Groups : running[g].items # {}}
    /\ UNCHANGED <<tmVars, job, file, running, reported>>

Start ==
    /\ ~up /\ up' = TRUE
    /\ UNCHANGED <<tmVars, last, updaterVars, age, reported, faults>>

(* Polls come in time while TM answers, unless something holds them up.    *)
Tick ==
    /\ up /\ age' = IF age <= Answered THEN age + 1 ELSE age
    /\ IF reachable /\ age > 0 THEN Fault ELSE UNCHANGED faults
    /\ UNCHANGED <<tmVars, up, last, updaterVars, reported>>

Change ==
    /\ changes < MaxChanges /\ changes' = changes + 1
    /\ \/ config' \in Offers \ {config} /\ UNCHANGED reachable
       \/ reachable' = ~reachable /\ UNCHANGED config
    /\ UNCHANGED <<up, last, updaterVars, age, reported, faults>>

Next == \/ Poll \/ \E g \in Groups : Write(g) \/ RestartCollector(g)
        \/ SendStatus \/ Stop \/ Start \/ Tick \/ Change

(* The loop, each updater and the status goroutine go on, time passes.     *)
Fairness ==
    /\ WF_vars(Poll) /\ \A g \in Groups : WF_vars(Write(g) \/ RestartCollector(g))
    /\ WF_vars(SendStatus) /\ WF_vars(Start) /\ WF_vars(Tick)
Spec == Init /\ [][Next]_vars /\ Fairness

-----------------------------------------------------------------------------
(* A collector's file has the initial inputs exactly when it has no items: *)
(* the items come from the answer, the flag from a comparison of profiles  *)
(* (clientapi.go:183-205), and they never disagree, whatever restarts,     *)
(* failures and changes come between.                                      *)
EmptyIsInit == \A g \in Groups : file[g].isInit <=> file[g].items = {}

(* The collectors end up running with TM's configuration, if that stays    *)
(* and TM answers: over lost calls, restarts in the middle of an update    *)
(* and changes while updaters run; but for the groups whose updater has    *)
(* failed, of which CheckIfChanged already holds the new configuration     *)
(* (clientapi.go:207-208), the groups that share an input with another     *)
(* one, and the groups that lose their items during a restart.             *)
ConfigArrives ==
    \A offer \in Offers :
        <>[](config = offer /\ reachable)
            => <>[](\A g \in Groups : running[g] = Rendered(g, offer) \/ g \in excused)

(* The Node Agent ends up hearing whether TM answers (main.go:194-231).    *)
ReadyFollows == /\ <>[]reachable => <>[](reported = "ready")
                /\ <>[]~reachable => <>[](reported = "notReady")
=============================================================================
