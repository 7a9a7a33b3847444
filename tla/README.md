# TLA+ models of the edge node agents

The repository holds a dozen agents that run on an edge node, each its own process under systemd.
This directory models eight of them: those whose correctness hangs on the order in which things
happen. TLC checks the models on small instances; TLAPS proves the main safety properties for every
value of the constants. `PROJECT.json` lists, for each definition, the lines of source it stands
for, and for each property a mutant of the model that breaks it.

    tlc -workers 2 -config pua_update.cfg PuaUpdateMC     # one run
    tlapm PuaUpdateProofs.tla                             # one module of proofs

Paths below are relative to `src/`.

## 1. Inventory

### Platform Update Agent (PUA), `platform-update-agent/`

Updates the operating system, on Ubuntu (apt packages, the agents, the kernel command line, the OS
through inbd) and on the Edge Microvisor Toolkit (EMT: an image downloaded to the standby partition,
then a switch and a reboot).

| | |
|---|---|
| state | `metadata.json` (status, update in progress, desired and actual image, update source, schedules); in memory: the operation lock, the download timer, the last downloaded image, gocron's jobs, a copy of the metadata |
| operations | poll and report to the Maintenance Manager (MM); take over what MM asks for; schedule; download; update by a chain of sub-updaters; after a restart continue, or verify, the update found in the file |
| interacts | MM over gRPC; inbd through the `inbc` command; apt, GRUB, `os-update-tool.sh`; systemd |
| hard | four goroutines read and write one file, whose readers take no lock; the process upgrades itself and reboots the machine in mid-update; crashes between the mark, the step and the record of its result; schedules compared with a stale copy |
| correct when | downloads and updates exclude each other; a result is recorded with the image it is about and not forgotten before MM knows; an update that has ordered its reboot settles; what MM asks for arrives; schedules run in their windows, and a single one once |

### In-Band Manageability (inbd, inbc), `in-band-manageability/`

| | |
|---|---|
| state | inbd's state file, the granular update log, the partitions or snapshots, the configuration file, the flash and its cache |
| operations | system updates (download, install, reboot); verification at each start of the server; firmware updates, configuration, power, queries |
| interacts | called by the PUA through inbc; reboots the machine; systemd restarts it |
| hard | each gRPC request runs in a goroutine of its own and no lock spans an update; the verification runs at every start, not only after the reboot of an update; roll-backs; kills between two writes that belong together |
| correct when | an image that waits for its boot is recorded; a trial is judged before it is kept; SUCCESS names what runs; the firmware does not go back; the server starts again |

### Cluster Agent, `cluster-agent/`

| | |
|---|---|
| state | one of six states, in memory only; the install and uninstall commands; the cluster on the node |
| operations | heartbeat with the state; REGISTER and DEREGISTER as the answer; registration, installation, removal, clean-up |
| interacts | the cluster orchestrator over gRPC; bootstrap scripts in bash; systemd |
| hard | an unbuffered hand-over that drops an action if the worker is busy; retries that end; restarts that forget the state |
| correct when | ACTIVE is reported only with a cluster; requests are served in the end |

### Platform Manageability Agent (PMA), `platform-manageability-agent/`

| | |
|---|---|
| state | previous RAS status, start of the connecting spell, flag of a running deactivation; the AMT device's own state |
| operations | report whether the host has AMT; at each tick read the device, activate it, watch it connect, deactivate it when it is stuck |
| interacts | the Device Management Manager (DM) over gRPC; the `rpc` command; the device |
| hard | ticks and deactivation goroutines share fields in several critical sections; a status is used long after it was read |
| correct when | one deactivation at a time; no dereference of a timer that was taken away; the device gets activated |

### Node Agent, `node-agent/`

| | |
|---|---|
| state | token files of all agents and the memory of them; what each agent and endpoint reported and when; the kubeconfig last sent |
| operations | refresh tokens on a ticker; serve the agents' reports; poll endpoints; send a heartbeat to the Host Manager; detect a cluster, send or clear its kubeconfig |
| interacts | all agents over a local socket; the identity provider; the Host Manager; systemd; the files the Device Discovery Agent leaves |
| hard | late tickers, calls that fail in the middle of a cycle, writes cut short by a kill; answers that get lost; a restart that forgets what was sent |
| correct when | no token expires that a check could have renewed; the instance's status follows the node's; the kubeconfig arrives, and goes with its cluster |

### Device Discovery Agent (DDA), `device-discovery-agent/`

| | |
|---|---|
| state | five files of credentials, project and tokens; `/etc/hosts`; goroutines that read terminals |
| operations | gather the configuration from flags, file and kernel arguments; onboard by a stream; if told so, log in at a terminal and register |
| interacts | the Onboarding Manager over gRPC; Keycloak; people at several terminals; the Node Agent reads its files |
| hard | files written one after the other while the node may be onboarded anew; terminals racing for one login against a timeout |
| correct when | an end without error leaves files that belong together; a secret is never paired with another's id; a login ends |

### Platform Telemetry Agent, `platform-telemetry-agent/`

| | |
|---|---|
| state | the last answer and profile in memory; four collectors' files or config maps |
| operations | poll the Telemetry Manager (TM); compare; four updaters in parallel, each a write and a restart of its collector; status |
| hard | the answer is remembered before it has been applied; two groups that share an input; restarts between write and restart |
| correct when | the collectors end up with TM's configuration; a file without items is the initial one; the status tells whether TM answers |

### Hardware Discovery Agent (HDA), `hardware-discovery-agent/`

| | |
|---|---|
| state | the time of the last success; the worker's place in an update; udevadm's lines that wait |
| operations | gather the hardware section by section; send it with retries and a new connection; status; end at a signal |
| interacts | a dozen commands and `/sys`; the Host Manager; udevadm; the Node Agent |
| hard | the hardware changes while it is gathered; events arrive while an update runs; the ticker stops meanwhile; an unbuffered channel at the start |
| correct when | the Host Manager ends up with the hardware, at once where udev tells; no false NOT READY; a signal ends the agent |

### Not modelled

| component | why |
|---|---|
| Reporting Agent, `reporting-agent/` | one run collects and posts; nothing but a machine identity outlives a run |
| Platform Observability Agent, `platform-observability-agent/` | configuration of third-party collectors, no code of its own |
| Common, `common/` | status client, authentication context, metrics, file helpers: what they do is in the actions of the agents that call them |
| inbc, queries and telemetry of inbd | a request from arguments; reads of the machine |
| GRUB, apt and command helpers of the PUA | text edits and commands; `PuaUpdate` keeps whether they succeed |


## 2. Modules

| module | models | composes |
|---|---|---|
| `PuaUpdate` | the PUA's update life cycle, the part of inbd and of the boot process it meets, MM | |
| `PuaReports` | adds which UPDATED MM has still to hear of (a history variable) | extends `PuaUpdate` |
| `PuaSchedule` | the PUA's scheduler, with time | |
| `InbdHost` | the node inbd runs on: disks, files, boot, the requests in flight | |
| `InbdSota`, `InbdFirmware`, `InbdConfig` | a system update; a firmware update; configuration and power | each extends `InbdHost` |
| `Inbd` | the server's start with its verification, reboots, faults, the whole | extends the three |
| `InbdVerdicts` | adds which updates were left without a verdict (a history variable) | extends `Inbd` |
| `TrialBoot` | abstract: what an image update promises | implemented by `Inbd` |
| `ClusterAgent` | the Cluster Agent and its orchestrator | |
| `AmtActivation` | the PMA and the AMT device | |
| `CredentialFiles` | the values of a credential file | extended by the next three |
| `Credentials` | abstract: what a reader of `client_id` and `client_secret` may rely on | implemented by `Onboarding` |
| `Onboarding` | the DDA, the orchestrator, people at terminals | |
| `NodeTokens` | the Node Agent's tokens | extends `Credentials`, which is its environment |
| `NodeReport` | the Node Agent's heartbeat and kubeconfig | |
| `Telemetry` | the Telemetry Agent and its collectors | |
| `HardwareDiscovery` | the Hardware Discovery Agent, udev, systemd | |

`<M>MC` gives `<M>`'s constants their values for TLC where a configuration file cannot say them.
`<M>Proofs` holds its theorems; those of `Onboarding` and `NodeTokens`, and of the two together, are
in `CredentialProofs`. No definition is recursive.

Two pairs show how agents meet. `Credentials` stands between the DDA, which writes the files, and
the Node Agent, which reads them: `Onboarding` is shown to implement it, and `NodeTokens` takes any
behaviour of it for its environment, so what holds there holds beside the real DDA, which section 5
proves of the two on one node (`NodeSpec`). `TrialBoot` says
of an image update what the PUA counts on, and `Inbd` is shown to implement it.

Operators whose comment begins with `Mutant` are single changes of the definition after them, each a
bug the code could have had. No action uses them; put in its place they make a property fail, which
`PROJECT.json` lists.

Conventions: a goroutine is a variable that holds the point it has reached; a critical section, one
write of a file and one call are steps. `faults` and `changes` count what goes wrong and what the
outside changes. Variables marked "observation only" are read by properties, never by a guard.

### PuaUpdate

Each setter of the metadata package is one step, because its mutex makes it one.

| variable | in the code |
|---|---|
| `status`, `inProgress`, `desired`, `actual`, `source`, `packages` | the fields of `Meta`, `internal/metadata/metadata.go:34-51` |
| `main`, `verdict` | main() from its start to the goroutines; what VerifyUpdate answered |
| `job` | the goroutine gocron starts (`triggerUpdate`) |
| `run` | the sub-updater that is running, and for whom |
| `opLock`, `dl`, `landed`, `lastDownloaded`, `timer`, `notified` | the Downloader |
| `handler`, `msg`, `scheduled` | the goroutine that takes MM's responses |
| `tick` | handleEdgeInfrastructureManagerRequest |
| `stateFile`, `inbcLog`, `inbd` | inbd's state file, update log, and whether it verifies or serves |
| `booted`, `standby`, `bootTo`, `rebooting` | the partitions, where the next boot goes, a reboot that was ordered |
| `wanted`, `known` | what MM asks for, the last status it heard |
| `attempt` | observation only: how far the update has come |

Images are opaque; of the kernel command, the packages and inbd's state file only what decides a
branch is kept. A sub-updater takes a step per write, command and check: `work`, `mark`, `install`,
`clear`, `reboot`, `fail` are the points between them. An `inbc` command does nothing, or succeeds,
or fails half way; when the agent dies inbd finishes a download or an installation without it
(`InbdFinishes`). `Boot` follows `os-update-tool.sh`: a switch to the standby partition holds for
one boot unless it is committed.

`PuaReports` adds `due`, which says that an UPDATED was recorded and MM has not heard it. `due` ends
by a report, or by what takes the record away before one: `Overwritten`, `TornAway`.

### PuaSchedule

`file` is `metadata.json`, `meta` the copy main() read at its start and hands to the handler by
value for as long as the process lives. `single` and `crons` are gocron's jobs, `queue` those that
fired and wait for their turn (WaitMode has no order), `run` the one that holds it. RemoveByTag, and
the removal of a single schedule's job when its window closes, take jobs out of the scheduler, not
out of the queue or the turn: a fired job then is no longer `own`. The handling of
a response is one step (`HandleUpdateRes`): the goroutine's three calls run one after the other, and
what gocron does between them commutes with them. A tick passes only when gocron has done what is
due; updates, downloads and restarts take any number of ticks.

### Inbd

`call` holds the requests in flight, each with the step it has reached; the handlers take a step per
command, file write and check. `daemon` is the server's place in its start: verify, commit or revert
(EMT), packages, network, undo, delete (Ubuntu), configuration, serving. A partition or file that is
being written is `Torn`. A version that does not boot, or loses the network, is in `faulty`. `next`
is the boot manager's order for one boot, `default` what it starts otherwise. `snaps` are snapper's
snapshots; an undo brings back the version and the packages of one.

`InbdVerdicts` adds `unjudged`: the server was started while an update was open, without a state
file to judge it by. A kill or a loss of power between the removal of the state file and the verdict
leads there, and so does a second update that truncates the file of a first one.

### ClusterAgent

`state` is the state machine's; the worker goroutine runs Register and Deregister to their end, a
step per state it sets or script it runs, while the heartbeat goroutine goes on (`Beat`,
`UpdateClusterStatus`, then `Delivered` or `Dropped`). The orchestrator follows the mock in
`cmd/cluster-orch-mock`, which in its test mode asks for a removal once the agent is ACTIVE
(`Modes`). A restart kills the running script, and `k8s` tells a complete installation from a
partial one.

### AmtActivation

`worker` is the point the activation goroutine has reached in RetrieveActivationDetails; `seen` is
the RAS status it read there. The critical sections of handleConnectingState and
triggerDeactivationAsync are separate actions (`Connecting`, `Track`, `Trigger`). `deactivations`
counts the goroutines of performDeactivationAsync at each of their points. Time is reduced to
whether the three minutes of a connecting spell are over (`timer`). `ras` and `stuck` are the
device: a status, and whether it will ever get past "connecting" by itself.

### Onboarding, Credentials, NodeTokens

Credentials, and the tokens issued for them, are named by their generation: the orchestrator makes
new ones when a node is onboarded again. In `Onboarding`, `dda` is the program's place, `disk` the
five files, `got` the answer it writes. A file is truncated and then written, so a power loss leaves
it `Torn`. `reader` are the goroutines at the terminals, `orphan` a read that was given up and still
swallows a line. `setting` says which keys the flags, the file and the kernel's arguments give; the
rules of precedence and of required keys decide how the program goes on.

In `NodeTokens` a token is the number of five-minute ticks it still has to live. `mem` is the
goroutine's memory, `file` what the agents read, `todo` the clients the cycle has not come to.
`good` and `missed` observe which clients were checked with success since the last tick, and which
were not in the one before.

### NodeReport

`status` and `age` are `statusMap` (report, and how many heartbeat intervals ago), `netStatus` and
`netAge` the polls' map; `beat` and `det` are the heartbeat and the detection goroutine; `last` is
the hash the KubeconfigManager remembers. `instance` and `kubeconfig` are what the Host Manager has.
A call is acknowledged, or applied with its answer lost, or lost. `booting` is the first quarter of
an hour after the boot, which is what the code's two bounds come to (section 7).

### Telemetry

`last` is LastResp; `stage`, `job`, `file` and `running` are, for each pair of collector and
resource kind, the updater's place, what it is about to write, the file or config map, and what the
collector has read at its last restart. CheckIfChanged is a set of operators (`Dirty`, `Shared`,
`Vanished`) on configurations, which are sets of items with group, input and setting.

### HardwareDiscovery

`worker` lists a section, queries its devices one by one, and sends; `section`, `listed`, `found`,
`report` are its local variables. `plugged` is the hardware, which may change between any two steps.
`events` are udevadm's lines that wait at the channel without a buffer. `timer`, `elapsed` and `age`
are the ticker, the time the update takes, and the age of the last success. A `Signal` cancels the
context, which the goroutines notice each at its own place.

## 3. What the runs check

| run | bounds | shows |
|---|---|---|
| `pua_update` | both systems, every kind of source, one fault | a download never overlaps a sub-updater; UPDATED is forgotten only after MM heard it; UPDATED is never recorded before its image |
| `pua_settles` | both systems, a kernel command, one fault, on EMT one change of MM's mind | what MM wants ends up in `metadata.json`; UPDATED is reported, or named as lost, and goes; an update that has ordered its reboot does not stay STARTED; the agent's upgrade of itself does not end the update |
| `pua_schedule` | EMT, five ticks, days of three; two changes, one restart | a single schedule runs in its window, and once; an accepted one does run; the cron jobs are those asked for |
| `inbd` | both systems, any two requests, together or one after the other, one fault | an armed image is recorded; SUCCESS names what runs; the node starts; a served image is a kept one; `TrialBoot`; no older firmware; the server serves in the end |
| `inbd_kill` | EMT, one request at a time, kills | the finding of section 7 |
| `cluster_agent` | two restarts, both modes | ACTIVE means installed, unless registration gave up; a cluster asked for is reached and kept; one to be removed is removed |
| `amt_activation` | two faults | one deactivation at a time, no nil timer, activation in the end |
| `onboarding` | four sources of configuration, two terminals, three attempts and retries, two generations, three boots | a run that ends well leaves files of one answer; `Credentials`; a login ends |
| `node_tokens` | two agents and the release service, tokens of three ticks, one renewal, one fault | what is remembered is written; no token expires unattended; tokens arrive |
| `node_report` | one agent, two kubeconfigs, two changes, two faults | the status follows the node; the kubeconfig arrives, and is cleared |
| `telemetry` | two groups that share an input, six configurations, two changes, two faults | an empty file is the initial one; the configuration arrives; the status follows TM |
| `hardware_discovery` | a device of each kind, two changes, one fault | between updates the Host Manager is current; no false NOT READY; the hardware arrives; a signal ends the agent |

Together the passing runs check fifteen invariants, eight action properties or refinements, and
seventeen liveness properties. Some name, in the property itself, a case in which the code gives up:
a lost answer, an empty token file, a failed updater, a signal before the first message. Section 7
says what happens there.

**Bounds, and why they are enough.**

* *Faults.* A fault may hit any step, so one fault reaches every branch of the recovery code from
  every point of an operation. `amt_activation`, `node_report` and `telemetry` take two: there a
  second one, in the recovery from the first, is a case of its own (a stale status after a lost
  connection; a restart after a lost answer; a restart while a failed update is forgotten).
  Elsewhere more faults are covered by the proofs for the proved properties, and not covered for the
  others. In `Inbd` each kind of fault happens at most once, and a request that comes while another
  of its kind is handled, or the reboot it announced is awaited, is the fault "overlap": an overlap
  together with a kill is left to the proofs, which hold for any faults.
* *Changes.* Two let the outside change and change back, which is what comparisons with an old copy
  can miss: A to B to A in `pua_schedule` and `telemetry`, a device that goes and comes back while
  it is listed in `hardware_discovery`.
* *Data.* Two images, kubeconfigs, generations and settings are enough for "the one" and "another",
  the only distinction the conditions make. The constants of `pua_schedule` have a short window, one
  longer than a day, one without an end, two repeated schedules that overlap, and one that gocron
  refuses; on Ubuntu the scheduler does less, not something else. The canonical first state of
  `PuaUpdateMC` on EMT is every other up to the names of images, or one in which MM asks for what is
  booted.
* *Times.* Counters that measure an age stop one past the bound they are compared with. A token that
  lives three ticks has one that is longer than REFRESH_INTERVAL, one inside it and the last. An
  interval of one tick, an update of up to one, lets a tick fall before, in and after the update;
  the proof covers all intervals.
* *Processes.* Two requests (`inbd`), terminals (`onboarding`) and groups (`telemetry`) interfere in
  pairs. One agent is enough in `node_report`, as each report stands alone in a conjunction.
  In `inbd` two requests of any kinds come at any time, an update and a configuration command after
  it or two firmware updates at once among them, and none after those (`Pairs` in `InbdMC`); longer
  sequences are covered by the proofs. Two requests that are no system updates, and a firmware that
  is not the oldest, are checked on EMT: that code is the same on both systems. Requests take the
  first client that is idle (`InTurn`), as the clients differ in nothing but their names.

Deadlock is checked except where the model may stop: when its faults and changes are used up and
main() of the PMA has ended (`amt_activation`), the horizon is reached (`pua_schedule`), or a node
does not start any more (`inbd`, `inbd_kill`).

`NodeReport!TypeOK` holds in the instance of its run when added as an invariant, but belongs to no
run. All other modules' types are proved (section 5).

## 4. Fairness

Goroutines are scheduled, tickers fire, calls return (each has a time limit), systemd starts what
has ended by a failure: these are WF. What follows are the assumptions beyond that, and what is not
assumed.

*PuaUpdate.* MM is reached again and again, and a read of the metadata file does not meet a writer
every time (SF on the tick's read and MM's reply). Nothing promises a maintenance window, a
download, the end of inbd's verification, or that MM leaves its mind unchanged. *PuaSchedule* states
safety only: its promises are about times.

*Inbd.* The server's start goes on, and a reboot that was ordered happens (WF on `ServerStep` and
`Reboot`). No request is promised to end.

*ClusterAgent.* The orchestrator is reached again and again, and some of its requests find the
worker waiting; installation, removal and clean-up succeed some time if retried for ever (SF).
Without the last, a script that always fails would refute any liveness.

*AmtActivation.* `rpc amtinfo` can be read, DM be reached, and the device be deactivated or, while
no command to deactivate it runs, activated, again and again (SF). A device that is not stuck
connects; the three minutes pass (SF, since a tick can interrupt the state in which they may end).
That a status is overtaken by the end of a deactivation between being read and being used is bounded
by `MaxFaults`: were it to happen at each attempt, the agent would deactivate each activation.

*Onboarding.* The program's steps (WF on its two modes); `CreateNodes`, called without a deadline
(`interactive/client.go:105`), is taken to return. Nobody is promised to type a line.

*NodeTokens, NodeReport, Telemetry.* The process's steps and time (WF on the cycle, each ticker's
goroutine, the updaters, `Start`, `Tick`; in NodeReport also that the first minutes after the boot
pass). A poll of an endpoint is taken to return, though its `http.Get` has no time limit
(`status-service.go:249`): the endpoint answers or refuses. That something stays as it is, or can be
reached, is no fairness but a hypothesis (`<>[]`) of the properties; what is lost or late is bounded
by `MaxFaults`.

*HardwareDiscovery.* Go's select takes each of two ready cases again and again (SF on `WorkerEnds`,
which competes with events and ticks). A stopped agent is started again, as after an upgrade or a
reboot; that systemd kills what hangs is not assumed.

## 5. What is proved

TLAPS proves, from the named assumptions on the constants and for all their values:

| theorem | says |
|---|---|
| `PuaUpdateProofs!TypeCorrect`, `InvHolds` | types; the inductive invariant |
| `PuaUpdateProofs!DownloadExclusion` | `[]UpdateExcludesDownload` |
| `PuaUpdateProofs!ClearIsReported` | `ClearedOnlyWhenReported` |
| `PuaUpdateProofs!UpdatedHasItsImage` | `UpdatedNamesItsImage` |
| `PuaScheduleProofs!ScheduleTyped` | types |
| `PuaScheduleProofs!SingleStartsInWindow`, `SingleRunsOnce` | `SingleInWindow`; `RunsOnce` |
| `PuaScheduleProofs!AcceptedAlwaysRuns`, `CronsAreAlwaysAsked` | `[]AcceptedRuns`; `[]CronsAreAsked` |
| `InbdProofs!InbdTyped` | types |
| `InbdProofs!InbdImplementsTrialBoot` | `Inbd` implements `TrialBoot` |
| `InbdProofs!InbdFirmwareNeverOlder` | `FirmwareNeverOlder` |
| `InbdProofs!InbdArmedIsRecorded` | `[]ArmedIsRecorded` |
| `InbdProofs!InbdSuccessNamesRunning` | `[]SuccessNamesRunning`, under all faults |
| `InbdProofs!InbdNodeStarts`, `InbdServedImageIsKept` | `[]NodeStarts`; `[]ServedImageIsKept` |
| `InbdProofs!InbdRevertReverts` | without kills, `RevertReverts`, which `inbd_kill` refutes with them |
| `ClusterAgentProofs!ClusterTypes`, `ActiveIsInstalled` | types; `[]ActiveUnlessNoCommand` |
| `AmtActivationProofs!AmtTypes`, `OneAtATime`, `NeverNil` | types; `[]OneDeactivation`; `[]TimerSet` |
| `CredentialProofs!OnboardingTyped`, `OnboardingInv` | types; the inductive invariant |
| `CredentialProofs!DoneIsAlwaysComplete` | `[]DoneIsComplete` |
| `CredentialProofs!WritesCredentialsAsPromised` | `Onboarding` implements `Credentials` |
| `CredentialProofs!TokensTyped`, `TokensInv` | types; the inductive invariant |
| `CredentialProofs!RememberedIsWritten`, `ExpiredWasMissed` | `[]MemoryIsFile`; `[]NoExpiredToken` |
| `CredentialProofs!TokensBesideDiscovery` | both agents on one node: the above, and no secret newer than its id |
| `TelemetryProofs!TelemetryInv`, `EmptyFilesAreInit` | the inductive invariant, types included; `[]EmptyIsInit` |
| `HardwareDiscoveryProofs!HardwareTyped`, `HardwareInv` | types; the inductive invariant |
| `HardwareDiscoveryProofs!QuietHostIsCurrent` | `[]QuietIsCurrent` |
| `HardwareDiscoveryProofs!NeverFalselyNegative` | `NoFalseNegative` |

The arguments:

*PuaUpdate.* Exclusion is not inductive by itself: it needs `LockInv`, that before main() serves
nothing else runs, that a sub-updater has an owner, and that the lock's value says who that is. The
two action properties need `StatusInv`: a tick about to clear has had its report heard by MM
(`ClearHeard`); a verdict comes with its image (`VerdictGiven`); and EMT never continues an update,
having no self-upgrade (`EmtSteps`), so that only the verification can turn STARTED into UPDATED.

*PuaSchedule.* `JobInv` says that a fired job of a single schedule was due when it fired and ends
when its schedule does, and that of the fired jobs at most one is still gocron's own, the one its
job in the scheduler has not returned from; the check of the window in `triggerUpdate`, made when
the job has its turn, does the rest of `SingleInWindow`. `CronsAreAsked` needs `CronsAreMetas`:
until another list is scheduled, the jobs are those of main()'s copy. It rests on `Unchanged` being
equality for lists without duplicates, which needs them finite (`SchedulesAssumption`). `RunsOnce`
needs `SettledInv`: the job of a schedule recorded as done has returned, and while MM asks for that
schedule the file has the record, and either main()'s copy has it, too, or the job is there to keep
another from being made. `AcceptedRuns` needs `AcceptedInv`: the job of an accepted schedule starts
inside the window and not before now, and once it has fired no time passes before it has had its
turn. The constants are asked for a day that is not empty (`TimesAssumption`); a schedule whose
window is empty is never accepted.

*Inbd.* The refinement needs `UbuntuDisk` beside the types: Ubuntu's one partition is always the
default one, and neither it nor a snapshot is ever half written. The state file and the logs play no
part. A step that writes a disk is an Overwrite of the partition that does not run (or a stutter, if
that one is not the default) or an Install into the one that does; a commit is a Keep; a start of
the machine is a Try.

None of the other invariants is inductive, and `UpdateInv` has a part for each. Two hold in the
presence of some of the faults only. While one update is on its way, what waits for the next boot is
recorded in the state file (`ArmInv`, from `ArmReady`: so is what is about to be armed); a node that
runs an image which is not the default one is about to judge it (`KeptInv`).

The log needs no such premise. On EMT a log that says SUCCESS names the version that runs, beside no
trial, or a verdict is still to come: the verification is at its commit or revert, or the state file
will send the next start there (`LogIsTrue` in `EmtLog`, from `EmtStarts`, which says that a
verification past the removal of the state file has none). A start that finds neither breaks that,
and is what `unjudged` records. On Ubuntu the state file outlives the verdict, so that `UbuntuLog`
holds without an exception. Firmware needs that a request
past its check names, and its cache file holds, something newer than what runs (`FirmwareInv`); that
the cache file is shared does no harm, as whoever writes it passed the same check.

*ClusterAgent.* The invariant ties the state to what the worker has done on the node, for each of
its points.

*AmtActivation.* The number of goroutines equals the flag because the check and the setting share a
critical section, and every path of a goroutine passes the reset. The timer is safe as only the
activation goroutine resets it.

*Onboarding.* `Behind` says for each place of the program which files of the answer it has written;
`NothingNewer`, that no id or secret on the disk is newer than the node's generation, or than the
answer about to replace it. The second is what makes a secret left by an earlier, interrupted run
never newer than the id written over its own.

*NodeTokens.* `MemoryIsFile` needs the weaker `MemoryOrEmpty` for tokens in their last ticks, whose
refresh may have left the file empty; `NoExpiredToken` needs `GoodIsFresh`, that a client checked
since the last tick has two ticks left.

*The two on one node.* `NodeSpec` lets each take its steps, the other's variables unchanged, with
the files and the orchestrator's generation shared (`Shared`). A step of the DDA is a step of
`Credentials`, hence of the environment of `NodeTokens` (`DiscoveryIsEnvironment`), so both
invariants hold together; `SecretNotNewer` then follows from the environment alone.

*Telemetry.* What an updater is about to write is coherent (its flag agrees with its items), because
a group that is dirty and has no items is one that just lost its last: the lemma
`DirtyEmptyVanished` about the comparison.

*HardwareDiscovery.* `Timely`: while all goes in time, the age of the last success is at most what
the ticker and the running update account for. `Seen`: unless something changed that no event tells
of, or an event waits, what has been gathered so far is what is plugged in, section by section
(`Current`).

Only model-checked: all liveness properties, and whatever rests on ENABLED, as the prover does not
handle them; with that all of `NodeReport`, whose properties are of that kind. The twenty-three
invariants, action properties and refinements of the passing runs are all proved. No definition is
recursive, so nothing is left to induction over data.

## 6. What is not modelled

The components of the last table of section 1, and:

* *PUA, update.* The granular log and update log, the list of installed packages. Reads and writes
  of the metadata whose failure is only logged, ends the handling of a response
  (`platform_update_agent.go:443-447`) or skips the actual image (499-505): they are taken to
  succeed. The branches of VerifyUpdate for a log that says PENDING or NO_UPDATE_AVAILABLE
  (`updater.go:331-352`), which this repository's inbd does not leave there. Schedules' times are in
  `PuaSchedule` only. `edgeNodeUpdateMutex` is always free under the operation lock, and left out.
* *PUA, scheduler.* What an update does, and the status beyond the four values that decide whether
  one may start; lists with the same schedule twice.
* *inbd.* `app_source` and `os_source`, the query and telemetry commands, JSON schemas, how a
  download is streamed, the release server's token; a signature check is its outcome. The state file
  can be removed (`emt/post_reboot_verifier.go:33-36` goes on after a failure), and it is not among
  what snapper's undo restores, as if `/var` were a subvolume of its own. That the running version
  cannot be read, or a snapshot not be deleted, ends the start as a kill at that point does.
* *Cluster Agent, PMA.* The goroutine that reports readiness to the Node Agent. PMA: the loading of
  drivers, `isActivationInProgress` (read by that goroutine only).
* *Node Agent.* The reading of the configuration; the retries inside one call; the text of a status.
  The id and the secret are read in one step (`comms.go:85-90`): a pair read across a renewal is
  refused like an old one. `NodeTokens!Tick` says that a cycle sees at most one tick; with each of
  the calls of the shipped configuration's eleven clients at its limit of 30 s a cycle takes 330 s,
  thirty more than the ticker's period. No theorem rests on that guard, only `TokensArrive` does:
  without it time could pass for ever in one cycle.
* *DDA.* The parsing of values, the keys `debug` and `timeout`, file modes (but for a failing change
  of one), TLS, the system information that is sent. `SaveToFile` does not sync
  (`config.go:55-73`): a loss of power may take files that were closed shortly before, too, while in
  the model it tears the one that is being written.
* *Telemetry Agent.* Inputs the templates do not know, the values a config map keeps. The `mv` that
  puts a file in its place is one step, also across file systems. A status client that cannot be
  made cancels the context (`main.go:239-244`), and the polls fail from then on.
* *HDA.* What a field of the report holds, the reading of the configuration, TLS. A connection that
  cannot be closed is not made anew (`comms.go:101-104`); `Close` is taken to succeed. A line of
  udevadm is there as soon as the hardware has changed; how late it may be read is in the model.

Code outside the repository is modelled from how it is used: Intel AMT and `rpc`,
`os-update-tool.sh`, snapper, apt, gocron, udevadm, systemd, the orchestrator's services (from the
mocks in the repository where there are some). `PROJECT.json` marks it external.

## 7. Observations

One disagreement between a comment and the code is a run of its own, `inbd_kill`. The comment on
`VerifyUpdateAfterReboot` (`emt/post_reboot_verifier.go:20-22`) says that equal versions revert to
the previous image. If inbd is killed after the update tool has armed the new image and before the
reboot, the restarted server finds the old image running, removes the state file, logs FAIL and
reboots: into the new image, which nobody verifies any more.

The models contain the following, and the properties either name it as an exception or do not speak
of it. Each was met while reading the code for the model.

**Platform Update Agent**
* On Ubuntu a mere crash after the kernel's part was marked looks like the reboot it waits for, and
  the part is taken for done (`updater.go:295-297`).
* After an EMT update the actual image is set to the one desired by then, which MM may have changed
  meanwhile (`platform_update_agent.go:498-502`; `metadata.go:47` "gets set after a successful
  update").
* `lastDownloaded` still names an image after a later, failed download has begun to overwrite the
  partition that held it (`downloader.go:210-242`).
* A second job may start an update between an ordered reboot and the reboot. Nobody settles the
  first one then.
* A tick may overwrite STARTED with UP_TO_DATE, as it clears without reading again, and an UPDATED
  that was recorded after its read as well, which MM then never hears of; a torn metadata file
  forgets an update.
* The handler compares schedules with main()'s copy of the metadata. A list changed from A to B and
  back leaves B's jobs. A single schedule polled twice after it ran may be recorded as finished for
  a job that has not run, and is lost at a restart. A changed single schedule is ignored while the
  old job is pending (`scheduler.go:212-226`).
* Jobs of a changed list are made anew at each poll, and may miss a firing; a repeated window is
  measured from the job's turn; a single schedule without an end never runs; a window longer than a
  day runs twice; a refused cron string sets FAILED over another job's STARTED; `CleanupSchedule`
  cannot be reached, as a nil schedule is dropped before it.

**In-Band Manageability**
* The mutex of the configuration handlers belongs to each request, so overlapping handlers lose
  changes.
* `DOWNLOAD_ONLY` on EMT leaves a state file, and any restart of inbd then logs FAIL and reboots. A
  request that arrives while an update waits for its reboot truncates the state file.
* On Ubuntu a roll-back for want of a network is followed by SUCCESS in the log; a verification that
  misses a package keeps the state file and fails at each start; without BTRFS there is no snapshot
  and the update is installed all the same.
* inbc gives up waiting after its time limits (1200 s, 90 s, 15 s), the handlers go on.

**Cluster Agent.** Registration gives up after 15 minutes, though `comms.go:160` says "will try
again infnit"; the empty command that results succeeds, and the agent reports ACTIVE without a
cluster.

**Platform Manageability Agent**
* The start of a connecting spell survives an unknown status into the next spell (`comms.go:74`,
  339-352).
* Activation does not look at `deactivationInProgress` (`comms.go:296`).
* If DM cannot be told the AMT status for 15 minutes main() ends with exit code 0, which
  `Restart=on-failure` does not restart.

**Node Agent**
* Credentials the identity provider refuses end the process by a panic (`comms.go:122`); an empty
  token file ends it at each start (`token.go:74-78`).
* "Tolerate 2 missed status messages" (`status-service.go:147`): only one is surely tolerated, as
  after two the age is between two and three intervals, and two are allowed.
* INITIALIZING is meant for the first five minutes of the agent and of the system
  (`node-agent.go:389-391`). The first bound is a number of nanoseconds taken for seconds, and
  always holds; the second is three times five minutes.
* A lost answer to a call, or a restart, may leave the Host Manager with an old kubeconfig, or with
  none, for good; a stopped cluster's is not cleared (`kubeconfig_manager.go:88-89` says it is).

**Device Discovery Agent**
* With `-use-kernel-args` the kernel's arguments overwrite the file's, against the order of
  `main.go:22`; the first parse rejects all flags but two; `UpdateHosts` says "Append" and
  truncates.
* The back-off falls back to two seconds where the comment says "cap it" (`client.go:148`). A
  terminal that fails does not end the wait for the others before the timeout (`tty_auth.go:104`). A
  read that was given up swallows the next line.
* The interactive mode writes no client credentials, so the Node Agent finds none.

**Platform Telemetry Agent**
* An updater that fails is not tried again: the answer has been remembered (`clientapi.go:207-208`),
  and the status stays ready.
* Items of two groups with the same input hide each other's changes (157); both shipped fluent-bit
  templates know "opentelemetry".
* A group that loses its items while the agent restarts keeps the old ones.

**Hardware Discovery Agent**
* Without `lsb_release` the kernel's fields are dropped, too; without `lspci` the GPUs; one USB
  device that is gone drops all of them; `getInterfaces` (`usb.go`) appends the address of one
  shared variable.
* A signal before the worker has taken the first message leaves main() waiting at its channel
  (`hdagent.go:192`).
* udevadm that ends by a signal, or without an error, is not started again. An interval shorter than
  an update takes gives NOT READY for good.
* A status client that cannot be made ends the agent with exit code 0, which systemd does not
  restart.

**Reporting Agent** (not modelled). Two runs that overlap at the first start may each make a machine
identity.

## 8. Further work

What would add most, in this order: the status that `PuaSchedule` and `PuaUpdate` share, composed,
so that a refused cron string meets a running update; the `inbc`
actions of `PuaUpdate` as an abstraction of `Inbd`; `app_source` and `os_source`.
