------------------------- MODULE HardwareDiscovery -------------------------
(***************************************************************************)
(* The Hardware Discovery Agent: it gathers what the node's tools tell of  *)
(* its hardware and sends it to the Host Manager, after its start, at each *)
(* of udev's events, and when the update interval has passed.  Beside it,  *)
(* the status goroutine tells the Node Agent whether that goes well.       *)
(***************************************************************************)
EXTENDS Integers, Sequences

CONSTANTS Things,         \* what the tools can tell of
          kind,           \* the section of the report each belongs to
          UpdateInterval, \* ticks the worker waits after an update
          StatusInterval, \* ticks from status to status
          MaxDuration,    \* the ticks an update takes if nothing fails, at most
          MaxRetries,     \* NUM_RETRIES, and MAX_RETRIES
          MaxFaults,      \* bound: commands and calls that fail, signals, restarts, delays
          MaxChanges      \* bound: things that come and go, changes of the reachability

(* The sections in the order they are gathered in; "system" stands for     *)
(* serial number, product, OS and BIOS.  Nothing is plugged into the fixed *)
(* ones while the agent runs.                                              *)
Order == <<"storage", "system", "cpu", "gpu", "memory", "network", "usb">>
Fixed == {"system", "cpu", "gpu", "memory"}
Sections == Fixed \cup {"storage", "network", "usb"}

ASSUME HardwareAssumption ==
    /\ kind \in [Things -> Sections]
    /\ {UpdateInterval, StatusInterval, MaxDuration, MaxRetries, MaxFaults, MaxChanges}
           \subseteq Nat
    /\ MaxDuration <= UpdateInterval

VARIABLES
    plugged,   \* the node's hardware
    reachable, \* the Host Manager answers
    host,      \* what it has been told
    up, stopping,  \* the process, its cancelled context
    main,      \* main(): "sending" the first message, or "waiting" for the goroutines
    udev,      \* udevadm monitor: "starting", "on" or "off"
    events,    \* its lines that the worker has not taken
    worker,    \* "idle", "list", "query", "send" or "ended"
    section,   \* the index of the section it is at
    listed, found,  \* of that section: what is to be asked about, what has been told
    report,    \* the sections before
    tries, attempts,       \* of the request, of the update
    timer, elapsed, age,   \* ticks since cyclicalTicker's reset, the update's begin, the last
                           \* one's success
    reported,  \* what the Node Agent has heard
    \* observation only: something changed since the update's begin that no event tells of,
    \* or a command or the update has failed; since the last success all went in time
    excused, smooth,
    faults, changes

nodeVars    == <<plugged, reachable, changes>>
gatherVars  == <<section, listed, found, report>>
retryVars   == <<tries, attempts>>
timeVars    == <<timer, elapsed, age, smooth>>
mainVars    == <<up, stopping, main>>
udevVars    == <<udev, events>>
vars == <<nodeVars, host, mainVars, udevVars, worker, gatherVars, retryVars, timeVars, reported,
          excused, faults>>

(* max of both, taken twice: "This should prevent false negatives".        *)
Counts == 2 * (IF StatusInterval > UpdateInterval THEN StatusInterval ELSE UpdateInterval)

TypeOK ==
    /\ plugged \subseteq Things /\ host \subseteq Things
    /\ {reachable, up, stopping, excused, smooth} \subseteq BOOLEAN
    /\ main \in {"sending", "waiting"} /\ udev \in {"starting", "on", "off"}
    /\ events \in 0..MaxChanges
    /\ worker \in {"idle", "list", "query", "send", "ended"} /\ section \in 1..Len(Order)
    /\ {listed, found, report} \subseteq SUBSET Things
    /\ {tries, attempts} \subseteq 0..MaxRetries
    /\ timer \in 0..UpdateInterval /\ elapsed \in 0..MaxDuration /\ age \in 0..Counts + 1
    /\ reported \in {"none", "ready", "notReady"}
    /\ faults \in 0..MaxFaults /\ changes \in 0..MaxChanges

Fault == faults < MaxFaults /\ faults' = faults + 1

Init ==
    /\ plugged = Things /\ reachable = TRUE /\ changes = 0 /\ host = {}
    /\ up = FALSE /\ stopping = FALSE /\ main = "sending"
    /\ udev = "off" /\ events = 0
    /\ worker = "idle" /\ section = 1 /\ listed = {} /\ found = {} /\ report = {}
    /\ tries = 0 /\ attempts = 0
    /\ timer = 0 /\ elapsed = 0 /\ age = Counts + 1 /\ smooth = FALSE
    /\ reported = "none" /\ excused = TRUE /\ faults = 0

-----------------------------------------------------------------------------
(***************************************************************************)
(* The worker takes a message, or its ticker's                             *)
(***************************************************************************)
Gather == /\ worker' = "list" /\ section' = 1 /\ listed' = {} /\ found' = {} /\ report' = {}
          /\ tries' = 0 /\ excused' = FALSE
BeginUpdate == /\ up /\ worker = "idle" /\ Gather /\ attempts' = 0 /\ elapsed' = 0

TakeFirst ==
    /\ main = "sending" /\ main' = "waiting" /\ BeginUpdate
    /\ UNCHANGED <<nodeVars, host, up, stopping, udevVars, timer, age, smooth, reported, faults>>

(* Mutant of TakeEvent: one update for all the events that are there, and  *)
(* for those that come while it is under way.                              *)
TakeEvents ==
    /\ events > 0 /\ up
    /\ \/ worker = "idle" /\ BeginUpdate
       \/ worker \in {"list", "query", "send"}
          /\ UNCHANGED <<worker, gatherVars, tries, attempts, elapsed, excused>>
    /\ events' = 0
    /\ UNCHANGED <<nodeVars, host, mainVars, udev, timer, age, smooth, reported, faults>>

TakeEvent ==
    /\ events > 0 /\ events' = events - 1 /\ BeginUpdate
    /\ UNCHANGED <<nodeVars, host, mainVars, udev, timer, age, smooth, reported, faults>>

TakeTick ==
    /\ timer = UpdateInterval /\ BeginUpdate
    /\ UNCHANGED <<nodeVars, host, mainVars, udevVars, timer, age, smooth, reported, faults>>

-----------------------------------------------------------------------------
(***************************************************************************)
(* GenerateSystemInfoRequest                                               *)
(***************************************************************************)
NextSection(told) ==
    /\ report' = report \cup told /\ listed' = {} /\ found' = {}
    /\ IF section = Len(Order) THEN worker' = "send" /\ UNCHANGED section
                               ELSE worker' = "list" /\ section' = section + 1

Present == {t \in plugged : kind[t] = Order[section]}
At(name) == worker = "list" /\ Order[section] = name

Works == UNCHANGED <<excused, faults>>
Fails == Fault /\ excused' = TRUE
NoGather == UNCHANGED <<nodeVars, host, mainVars, udevVars, retryVars, timeVars, reported>>

(* A command that fails leaves the disks, or the memory, empty; a part of  *)
(* the system's section; the CPU's without its cores.                      *)
GetDiskList ==
    /\ At("storage") /\ NoGather
    /\ \/ NextSection(Present) /\ Works
       \/ NextSection({}) /\ Fails
GetSystem ==
    /\ At("system") /\ NoGather
    /\ \/ NextSection(Present) /\ Works
       \/ (\E told \in SUBSET Present : NextSection(told)) /\ Fails
GetCPUList ==
    /\ At("cpu") /\ NoGather
    /\ \/ NextSection(Present) /\ Works
       \/ (\E told \in SUBSET Present : NextSection(told)) /\ Fails
GetMemory ==
    /\ At("memory") /\ NoGather
    /\ \/ NextSection(Present) /\ Works
       \/ NextSection({}) /\ Fails

(* The others list their devices, and ask about each of them after that.   *)
ListDevices ==
    /\ At("gpu") \/ At("network") \/ At("usb")
    /\ \/ listed' = Present /\ worker' = "query" /\ Works /\ UNCHANGED <<section, found, report>>
       \/ NextSection({}) /\ Fails
    /\ NoGather

Told(t) == /\ listed' = listed \ {t} /\ found' = found \cup {t}
           /\ UNCHANGED <<worker, section, report>>
Skipped(t) == listed' = listed \ {t} /\ UNCHANGED <<worker, section, found, report>>

(* A graphics card that cannot be asked makes the whole section empty.     *)
QueryGpu(t) ==
    /\ Order[section] = "gpu"
    /\ \/ Told(t) /\ Works
       \/ NextSection({}) /\ Fails

(* A network interface that cannot be asked, or has gone, is skipped.      *)
QueryInterface(t) ==
    /\ Order[section] = "network"
    /\ \/ t \in plugged /\ Told(t) /\ Works
       \/ t \notin plugged /\ Skipped(t) /\ Works
       \/ t \in plugged /\ Skipped(t) /\ Fails

(* A USB device that cannot be asked, or has gone, makes the section empty. *)
QueryUsb(t) ==
    /\ Order[section] = "usb"
    /\ \/ t \in plugged /\ Told(t) /\ Works
       \/ t \notin plugged /\ NextSection({}) /\ Works
       \/ t \in plugged /\ NextSection({}) /\ Fails

(* Mutant of QueryDevice: what does not answer is asked again.             *)
AskAgain ==
    /\ worker = "query" /\ NoGather /\ Works
    /\ \E t \in listed : \/ t \in plugged /\ Told(t)
                         \/ t \notin plugged /\ UNCHANGED <<worker, gatherVars>>

QueryDevice ==
    /\ worker = "query" /\ NoGather
    /\ \E t \in listed : QueryGpu(t) \/ QueryInterface(t) \/ QueryUsb(t)

QueryEnds ==
    /\ worker = "query" /\ listed = {} /\ NextSection(found) /\ NoGather /\ Works

-----------------------------------------------------------------------------
(***************************************************************************)
(* UpdateHostSystemInfoByGUID and updateWithRetry                          *)
(***************************************************************************)
(* The worker goes back to its select.                                     *)
Rest == /\ worker' = "idle" /\ timer' = 0
        /\ section' = 1 /\ listed' = {} /\ found' = {} /\ report' = {}
        /\ tries' = 0 /\ attempts' = 0 /\ elapsed' = 0

(* Mutant of Succeeds: the ticker alone resets the time of the last        *)
(* success.                                                                *)
SucceedsUnnoticed == Rest /\ smooth' = TRUE /\ UNCHANGED <<age, excused>>

Succeeds == Rest /\ age' = 0 /\ smooth' = TRUE /\ UNCHANGED excused

(* The same report is sent again; then the connection is made anew, the    *)
(* hardware gathered again and sent; then the update is given up.          *)
TryFails ==
    \/ /\ tries < MaxRetries /\ tries' = tries + 1
       /\ UNCHANGED <<worker, gatherVars, attempts, timeVars, excused>>
    \/ /\ tries = MaxRetries /\ attempts < MaxRetries /\ attempts' = attempts + 1 /\ Gather
       /\ UNCHANGED timeVars
    \/ /\ tries = MaxRetries /\ attempts = MaxRetries
       /\ Rest /\ smooth' = FALSE /\ excused' = TRUE /\ UNCHANGED age

Send ==
    /\ worker = "send" /\ ~stopping
    /\ \/ reachable /\ host' = report /\ Succeeds /\ UNCHANGED faults
       \/ reachable /\ Fault /\ host' \in {host, report} /\ TryFails
       \/ ~reachable /\ TryFails /\ UNCHANGED <<host, faults>>
    /\ UNCHANGED <<nodeVars, mainVars, udevVars, reported>>

(* A cancelled context ends the retries.                                   *)
SendCancelled ==
    /\ worker = "send" /\ stopping /\ Rest /\ excused' = TRUE /\ smooth' = FALSE
    /\ UNCHANGED <<nodeVars, host, mainVars, udevVars, age, reported, faults>>

-----------------------------------------------------------------------------
(***************************************************************************)
(* udevadm, the status goroutine, signals                                  *)
(***************************************************************************)
UdevStarts ==
    /\ up /\ udev = "starting" /\ udev' = "on"
    /\ UNCHANGED <<nodeVars, host, mainVars, events, worker, gatherVars, retryVars, timeVars,
                   reported, excused, faults>>

Down ==
    /\ up' = FALSE /\ stopping' = FALSE /\ main' = "sending"
    /\ udev' = "off" /\ events' = 0
    /\ Rest /\ age' = Counts + 1 /\ smooth' = FALSE /\ excused' = TRUE

(* udevadm's end by a signal, or without an error, goes unnoticed; another *)
(* ends the agent.  Lines that have been read may still be delivered.      *)
UdevEnds ==
    /\ up /\ ~stopping /\ udev # "off" /\ Fault
    /\ \/ Down
       \/ /\ udev' = "off" /\ excused' = TRUE /\ events' \in 0..events
          /\ UNCHANGED <<mainVars, worker, gatherVars, retryVars, timeVars>>
    /\ UNCHANGED <<nodeVars, host, reported>>

SendStatus ==
    /\ up /\ ~stopping
    /\ \/ reported' = (IF age <= Counts THEN "ready" ELSE "notReady") /\ UNCHANGED faults
       \/ Fault /\ UNCHANGED reported
    /\ UNCHANGED <<nodeVars, host, mainVars, udevVars, worker, gatherVars, retryVars, timeVars,
                   excused>>

(* systemd's signal, after which it starts the agent again: an upgrade, a  *)
(* shutdown.                                                               *)
Signal ==
    /\ up /\ ~stopping /\ stopping' = TRUE /\ Fault
    /\ UNCHANGED <<nodeVars, host, up, main, udevVars, worker, gatherVars, retryVars, timeVars,
                   reported, excused>>

(* The goroutines end: the context kills udevadm, too.                     *)
UdevKilled ==
    /\ stopping /\ udev # "off" /\ udev' = "off" /\ events' \in 0..events /\ excused' = TRUE
    /\ UNCHANGED <<nodeVars, host, mainVars, worker, gatherVars, retryVars, timeVars, reported,
                   faults>>

(* Mutant of WorkerEnds: break, for return, leaves the select only.        *)
WorkerBreaks == stopping /\ worker = "idle" /\ UNCHANGED vars

WorkerEnds ==
    /\ stopping /\ worker = "idle" /\ worker' = "ended"
    /\ UNCHANGED <<nodeVars, host, mainVars, udevVars, gatherVars, retryVars, timeVars, reported,
                   excused, faults>>

(* main() returns when all have, if its first message has been taken.      *)
MainReturns ==
    /\ stopping /\ worker = "ended" /\ udev = "off" /\ main = "waiting"
    /\ Down
    /\ UNCHANGED <<nodeVars, host, reported, faults>>

(* systemd kills what does not stop (TimeoutStopSec); nothing relies on it. *)
SystemdKills == up /\ stopping /\ Down /\ UNCHANGED <<nodeVars, host, reported, faults>>

(* The process dies, or the machine goes down.                             *)
Crash == /\ up /\ Fault /\ Down /\ UNCHANGED <<nodeVars, host, reported>>

Start ==
    /\ ~up /\ up' = TRUE /\ udev' = "starting"
    /\ UNCHANGED <<nodeVars, host, stopping, main, events, worker, gatherVars, retryVars,
                   timeVars, reported, excused, faults>>

-----------------------------------------------------------------------------
(* udevadm monitors the subsystems block and net only.                     *)
Plug ==
    /\ changes < MaxChanges /\ changes' = changes + 1
    /\ \E t \in Things :
         /\ kind[t] \notin Fixed
         /\ plugged' = IF t \in plugged THEN plugged \ {t} ELSE plugged \cup {t}
         /\ IF kind[t] \in {"storage", "network"} /\ udev = "on"
            THEN events' = events + 1 /\ UNCHANGED excused
            ELSE excused' = TRUE /\ UNCHANGED events
    /\ UNCHANGED <<reachable, host, mainVars, udev, worker, gatherVars, retryVars, timeVars,
                   reported, faults>>

Reach ==
    /\ changes < MaxChanges /\ changes' = changes + 1
    /\ reachable' = ~reachable
    /\ UNCHANGED <<plugged, host, mainVars, udevVars, worker, gatherVars, retryVars, timeVars,
                   reported, excused, faults>>

(* Time passes.  The worker takes what is there for it in time, and an     *)
(* update ends in time, unless a try has failed or something else holds    *)
(* them up.                                                                *)
InTime == IF worker = "idle" THEN timer < UpdateInterval /\ events = 0 /\ main = "waiting"
                             ELSE elapsed < MaxDuration
Later(ticks, bound) == IF ticks < bound THEN ticks + 1 ELSE ticks
Tick ==
    /\ up /\ ~stopping
    /\ \/ InTime /\ UNCHANGED <<smooth, faults>>
       \/ ~InTime /\ worker # "idle" /\ tries + attempts > 0 /\ smooth' = FALSE
          /\ UNCHANGED faults
       \/ ~InTime /\ Fault /\ smooth' = FALSE
    /\ age' = Later(age, Counts + 1)
    /\ IF worker = "idle" THEN timer' = Later(timer, UpdateInterval) /\ UNCHANGED elapsed
                          ELSE elapsed' = Later(elapsed, MaxDuration) /\ UNCHANGED timer
    /\ UNCHANGED <<nodeVars, host, mainVars, udevVars, worker, gatherVars, retryVars, reported,
                   excused>>

Worker == \/ TakeFirst \/ TakeEvent \/ TakeTick
          \/ GetDiskList \/ GetSystem \/ GetCPUList \/ GetMemory \/ ListDevices \/ QueryDevice \/ QueryEnds
          \/ Send \/ SendCancelled
Ending == UdevKilled \/ WorkerEnds \/ MainReturns
Next == \/ Worker \/ Ending \/ UdevStarts \/ UdevEnds \/ SendStatus \/ Signal \/ SystemdKills \/ Crash
        \/ Start \/ Plug \/ Reach \/ Tick

(* The goroutines and systemd go on, and time passes.  A select with two   *)
(* ready cases takes each of them again and again, not the same for ever.  *)
Fairness ==
    /\ WF_vars(Worker) /\ WF_vars(UdevKilled) /\ SF_vars(WorkerEnds) /\ WF_vars(MainReturns)
    /\ WF_vars(UdevStarts) /\ WF_vars(SendStatus) /\ WF_vars(Start) /\ WF_vars(Tick)
Spec == Init /\ [][Next]_vars /\ Fairness

-----------------------------------------------------------------------------
(* Between updates the Host Manager has what is plugged in, unless the     *)
(* last update, or a command of it, has failed, or something has changed   *)
(* that udev tells nothing of: what comes and goes while an update is      *)
(* under way, and what its stale report still says or its halves disagree  *)
(* about, has an event waiting (hdagent.go:116-153: the channel has no     *)
(* buffer, and each event is an update of its own).                        *)
QuietIsCurrent == up /\ worker = "idle" /\ events = 0 /\ ~excused => host = plugged

(* "The agent consumes 15-20 seconds to populate the system information    *)
(* and does so with the ticker stopped. [...] a check of 2x of interval is *)
(* considered.  This should prevent false negatives." (hdagent.go:173-175):*)
(* so it does while an update takes no longer than the interval, and as    *)
(* long as all updates go well and in time.                                *)
NoFalseNegative == [][reported # "notReady" /\ reported' = "notReady" => ~smooth]_vars

(* The hardware ends up at the Host Manager, if it stays as it is and the  *)
(* Host Manager answers: over failing commands and calls, half-done        *)
(* updates, restarts, and an udevadm that has ended (updateWithRetry).     *)
HardwareArrives ==
    <>[][FALSE]_plugged /\ <>[]reachable => <>[](host = plugged \/ stopping)

(* An agent that is told to stop does so by itself, also in the middle of  *)
(* retries; unless the signal comes before the worker has taken the first  *)
(* message, which nobody then takes (hdagent.go:192).                      *)
SignalEnds == stopping ~> ~up \/ (main = "sending" /\ worker = "ended")
=============================================================================
