----------------------------- MODULE PuaUpdate -----------------------------
(***************************************************************************)
(* The update life cycle of the Platform Update Agent (PUA) together with  *)
(* what it leans on: the metadata file, the inbc commands served by inbd,  *)
(* the machine's reboots and the Maintenance Manager (MM) it polls.        *)
(*                                                                         *)
(* Inside the agent four goroutines share metadata.json: the ticker        *)
(* (`tick'), the handler of MM's responses (`handler'), the job gocron     *)
(* starts (`job'), and the download timer's goroutine (`dl').  Before they *)
(* start, main() may continue or verify an update (`main').  Every setter  *)
(* of the metadata package is one step (its mutex makes it one); a         *)
(* goroutine may stop between any two of its steps, and so may the process *)
(* and the machine.                                                        *)
(***************************************************************************)
EXTENDS Naturals

CONSTANTS OsTypes,     \* the operating systems the node may run: "emt" and "ubuntu"
          Images,      \* OS images, named by their SHA
          NoImage,     \* a nil OSProfileUpdateSource, or a partition with no image
          Empty,       \* an empty inbd state file
          AskedSources, \* the kinds of update source MM sends
          MaxFaults,   \* bound: crashes, power losses, torn files and failures after a boot
          MaxChanges   \* bound, for each system: how often MM changes what it asks for

ASSUME OsTypesAssumption == OsTypes \subseteq {"emt", "ubuntu"}
Sources == {"nil", "none", "cmd"}   \* UpdateSource: nil, without and with a kernel command

ASSUME SourcesAssumption == AskedSources \subseteq Sources
ASSUME ImagesAssumption == NoImage \notin Images /\ Empty \notin Images \cup {NoImage}
ASSUME BoundsAssumption == MaxFaults \in Nat /\ MaxChanges \in [OsTypes -> Nat]

VARIABLES
  osType,      \* what DetectOS found: fixed for the life of the node
  \* metadata.json
  status, inProgress, desired, actual, source, packages,
  \* the machine, and inbd's files
  inbcLog, stateFile, booted, standby, bootTo, inbd, rebooting,
  \* the agent's goroutines and the data they hold
  main, verdict, job, run, opLock, dl, landed, lastDownloaded,
  timer, notified, handler, msg, scheduled, tick, puaRelease,
  \* MM: what it asks for, and the last status it heard
  wanted, known,
  \* observation only: how far the update started last has really come
  attempt,
  \* the bounds' counters
  faults, changes

metaVars    == <<status, inProgress, desired, actual, source, packages>>
machineVars == <<inbcLog, stateFile, booted, standby, bootTo, inbd, rebooting>>
dlVars      == <<dl, landed, lastDownloaded, timer, notified>>
handlerVars == <<handler, msg, scheduled>>
mainVars    == <<main, verdict>>
mmVars      == <<wanted, known>>
fixedVars   == <<osType, puaRelease>>
ghostVars   == <<attempt>>
boundVars   == <<faults, changes>>
vars == <<fixedVars, metaVars, machineVars, mainVars, job, run, opLock, dlVars,
          handlerVars, tick, mmVars, ghostVars, boundVars>>

Statuses == {"UP_TO_DATE", "STARTED", "UPDATED", "FAILED", "DOWNLOADING", "DOWNLOADED"}
MaybeImages == Images \cup {NoImage}
Steps == {"packages", "self", "inbm", "kernel", "newpkg", "os", "emt", "emtkernel"}

\* A response of MM that the agent's filters let through to the handler.
Requests(os) ==
  IF os = "emt"
  THEN [image : Images, source : AskedSources, packages : {FALSE}]
  ELSE [image : {NoImage}, source : AskedSources \ {"nil"}, packages : BOOLEAN]

NoRequest == [image |-> NoImage, source |-> "none", packages |-> FALSE]

RunType == [by : {"nobody", "main", "job"}, step : Steps \cup {"none"},
            phase : {"none", "work", "mark", "install", "clear", "reboot", "fail"}]
NotRunning == [by |-> "nobody", step |-> "none", phase |-> "none"]

TypeOK ==
  /\ osType \in OsTypes
  /\ puaRelease \in BOOLEAN
  /\ status \in Statuses
  /\ inProgress \in {"NONE", "SELF", "INBM", "OS"}
  /\ desired \in MaybeImages
  /\ actual \in MaybeImages
  /\ source \in Sources
  /\ packages \in BOOLEAN
  /\ inbcLog \in {"absent", "SUCCESS", "FAIL"}
  /\ stateFile \in MaybeImages \cup {Empty}
  /\ booted \in MaybeImages
  /\ standby \in MaybeImages
  /\ bootTo \in {"booted", "standby"}
  /\ inbd \in {"verify", "serving"}
  /\ rebooting \in BOOLEAN
  /\ main \in {"down", "continue", "verify", "actual", "status", "clear", "serve"}
  /\ verdict \in Statuses
  /\ job \in {"idle", "lock", "start", "update", "unlock"}
  /\ run \in RunType
  /\ opLock \in {"free", "update", "download"}
  /\ dl \in MaybeImages
  /\ landed \subseteq Images
  /\ lastDownloaded \in MaybeImages
  /\ timer \in MaybeImages
  /\ notified \in MaybeImages
  /\ handler \in {"idle", "desired", "source", "notify"}
  /\ msg \in Requests(osType) \cup {NoRequest}
  /\ scheduled \in BOOLEAN
  /\ tick \in {"idle", "reportUpdated", "reportOther", "clear"}
  /\ wanted \in Requests(osType)
  /\ known \in {"UPDATED", "other"}
  /\ attempt \in {"none", "started", "ordered", "overtaken", "rebooted"}
  /\ faults \in 0..MaxFaults
  /\ changes \in 0..MaxChanges[osType]

Init ==
  /\ osType \in OsTypes
  /\ puaRelease \in (IF osType = "emt" THEN {FALSE} ELSE BOOLEAN)
  /\ status = "UP_TO_DATE" /\ inProgress = "NONE"
  /\ desired = NoImage /\ actual = NoImage /\ source = "nil" /\ packages = FALSE
  /\ inbcLog = "absent" /\ stateFile = Empty
  /\ booted \in (IF osType = "emt" THEN Images ELSE {NoImage})
  /\ standby = NoImage /\ bootTo = "booted" /\ inbd = "serving" /\ rebooting = FALSE
  /\ main = "down" /\ verdict = "UP_TO_DATE" /\ job = "idle" /\ run = NotRunning
  /\ opLock = "free" /\ dl = NoImage /\ landed = {} /\ lastDownloaded = NoImage
  /\ timer = NoImage /\ notified = NoImage
  /\ wanted \in Requests(osType) /\ msg = NoRequest /\ handler = "idle" /\ scheduled = FALSE
  /\ tick = "idle" /\ known = "other"
  /\ attempt = "none" /\ faults = 0 /\ changes = 0

-----------------------------------------------------------------------------
(* The process and the machine *)

\* What a restarted process holds: everything kept in memory is gone.
ProcessGone ==
  /\ main' = "down" /\ verdict' = "UP_TO_DATE"
  /\ job' = "idle" /\ run' = NotRunning /\ opLock' = "free"
  /\ dl' = NoImage /\ landed' = {} /\ lastDownloaded' = NoImage
  /\ timer' = NoImage /\ notified' = NoImage
  /\ handler' = "idle" /\ msg' = NoRequest /\ scheduled' = FALSE /\ tick' = "idle"

\* A setter truncates metadata.json before it writes it; readers take no lock.
TornRead == handler # "idle" \/ tick = "clear" \/ dl # NoImage

\* Some goroutine is in a setter, or may be.
Writing == \/ TornRead \/ job = "start" \/ run.phase \in {"mark", "clear", "fail"}
           \/ main \in {"actual", "status", "clear"}

\* A process that ends between the two leaves an empty file, which InitMetadata
\* takes for a new one.
InitMetadata ==
  /\ status' = "UP_TO_DATE" /\ inProgress' = "NONE"
  /\ desired' = NoImage /\ actual' = NoImage /\ source' = "nil" /\ packages' = FALSE

Cleanly == UNCHANGED <<metaVars, faults>>

Faultily ==
  /\ faults < MaxFaults /\ faults' = faults + 1
  /\ UNCHANGED metaVars \/ (Writing /\ InitMetadata)

\* inbc sota --mode download-only, which snapshots and logs SUCCESS like an
\* update; on EMT it writes the image to the standby partition.  A failure may
\* come at any point, or before inbd serves at all.
InbcDownload(image, ok) ==
  \/ /\ ~ok /\ UNCHANGED machineVars
  \/ /\ inbd = "serving"
     /\ stateFile' = booted
     /\ inbcLog' \in (IF ok THEN {"SUCCESS"} ELSE {"FAIL", inbcLog})
     /\ standby' \in (IF osType = "ubuntu" THEN {standby}
                      ELSE IF ok THEN {image} ELSE {standby, NoImage})
     /\ UNCHANGED <<booted, bootTo, inbd, rebooting>>

\* inbc sota --mode no-download: logs SUCCESS before the reboot it orders, which
\* may fail in its turn.
InbcInstall(reboot, ok) ==
  \/ /\ ~ok /\ UNCHANGED <<machineVars, ghostVars>>
  \/ /\ inbd = "serving"
     /\ stateFile' = booted
     /\ inbcLog' \in (IF ok THEN {"SUCCESS"} ELSE {"SUCCESS", "FAIL", inbcLog})
     /\ bootTo' \in (IF osType = "ubuntu" THEN {bootTo}
                     ELSE IF ok THEN {"standby"} ELSE {bootTo, "standby"})
     /\ rebooting' = (rebooting \/ (ok /\ reboot))
     /\ attempt' = (IF ok /\ reboot THEN "ordered" ELSE attempt)
     /\ UNCHANGED <<booted, standby, inbd>>

\* What inbd was asked for is finished without the agent that asked.
InbdFinishes ==
  \E ok \in BOOLEAN :
    LET sota == run.step \in {"newpkg", "os"}
        fetching == sota /\ run.phase = "work" /\ (run.step = "newpkg" => packages)
        installing == (sota \/ run.step = "emt") /\ run.phase = "install" IN
      IF installing THEN InbcInstall(run.step # "newpkg", ok)
      ELSE /\ IF dl # NoImage \/ fetching THEN InbcDownload(dl, ok) ELSE UNCHANGED machineVars
           /\ UNCHANGED ghostVars

\* The process is killed, or a setter's log.Fatal ends it; systemd restarts it.
Crash ==
  /\ main # "down" /\ Faultily /\ ProcessGone /\ InbdFinishes
  /\ UNCHANGED <<fixedVars, mmVars, changes>>

\* The machine comes up again.  A switch to the standby partition holds for one
\* boot unless committed, so the partition left behind is where the boot after
\* this one goes; a standby partition that does not boot falls back.
Boot(switched) ==
  /\ IF switched
     THEN /\ booted' = standby /\ standby' = booted /\ bootTo' = "standby"
     ELSE /\ bootTo' = "booted" /\ UNCHANGED <<booted, standby>>
  /\ rebooting' = FALSE /\ inbd' = "verify"
  /\ attempt' = (IF attempt \in {"ordered", "overtaken"} THEN "rebooted" ELSE attempt)
  /\ ProcessGone
  /\ UNCHANGED <<fixedVars, inbcLog, stateFile, mmVars, changes>>

Switches == bootTo = "standby" /\ standby # NoImage

Reboot == rebooting /\ Boot(Switches) /\ (Cleanly \/ Faultily)

\* Power is lost, or the ordered switch does not boot.
BadBoot ==
  /\ Faultily
  /\ \/ Boot(Switches)
     \/ Switches /\ Boot(FALSE)

-----------------------------------------------------------------------------
(* inbd: verification after a boot, and the sota commands *)

\* RunServer verifies before it serves.  A failed commit or package check makes
\* the server exit and systemd start it again.
InbdVerify ==
  /\ inbd = "verify"
  /\ \/ /\ stateFile = Empty
        /\ inbd' = "serving"
        /\ UNCHANGED <<inbcLog, stateFile, bootTo, rebooting, faults>>
     \/ /\ osType = "emt" /\ stateFile # Empty /\ stateFile # booted
        /\ stateFile' = Empty
        /\ \/ inbcLog' = "SUCCESS" /\ bootTo' = "booted" /\ inbd' = "serving"
              /\ UNCHANGED faults
           \/ inbcLog' = "FAIL" /\ faults < MaxFaults /\ faults' = faults + 1
              /\ UNCHANGED <<bootTo, inbd>>
        /\ UNCHANGED rebooting
     \/ /\ osType = "emt" /\ stateFile = booted
        /\ stateFile' = Empty /\ inbcLog' = "FAIL" /\ rebooting' = TRUE
        /\ inbd' = "serving" /\ UNCHANGED <<bootTo, faults>>
     \/ /\ osType = "ubuntu" /\ stateFile # Empty
        /\ stateFile' = Empty /\ inbcLog' = "SUCCESS" /\ inbd' = "serving"
        /\ UNCHANGED <<bootTo, rebooting, faults>>
     \/ /\ osType = "ubuntu" /\ stateFile # Empty        \* no network: roll back
        /\ faults < MaxFaults /\ faults' = faults + 1
        /\ inbcLog' = "SUCCESS" /\ rebooting' = TRUE /\ inbd' = "serving"
        /\ UNCHANGED <<stateFile, bootTo>>
  /\ UNCHANGED <<fixedVars, metaVars, booted, standby, mainVars, job, run, opLock,
                 dlVars, handlerVars, tick, mmVars, ghostVars, changes>>

-----------------------------------------------------------------------------
(* edgeNodeUpdater.update: the sub-updaters, one after the other *)

FirstStep == IF osType = "emt" THEN "emt" ELSE "packages"

StepAfter == [packages |-> "self", self |-> "inbm", inbm |-> "kernel",
              kernel |-> "newpkg", newpkg |-> "os", os |-> "none",
              emt |-> "emtkernel", emtkernel |-> "none", none |-> "none"]

At(step, phase) == run.step = step /\ run.phase = phase

Goto(phase) == run' = [run EXCEPT !.phase = phase] /\ UNCHANGED <<main, job>>

\* update() returns to StartUpdate or ContinueUpdate, and that to its caller.
Return ==
  /\ run' = NotRunning
  /\ main' = (IF run.by = "main" THEN "serve" ELSE main)
  /\ job' = (IF run.by = "job" THEN "unlock" ELSE job)

Proceed ==
  IF StepAfter[run.step] = "none" THEN Return
  ELSE /\ run' = [run EXCEPT !.step = StepAfter[run.step], !.phase = "work"]
       /\ UNCHANGED <<main, job>>

\* What no step of the updater touches.
RunFrame == UNCHANGED <<osType, desired, actual, packages, verdict, opLock, dlVars,
                        handlerVars, tick, mmVars, boundVars>>

\* Mutant: the mark is never written.
MarkInProgressLost(type) == UNCHANGED <<status, inProgress, source>>

MarkInProgress(type) == inProgress' = type /\ UNCHANGED <<status, source>>

SameMeta == UNCHANGED <<status, inProgress, source>>

TimedOut ==
  /\ run.phase = "work" /\ Goto("fail")
  /\ RunFrame /\ SameMeta /\ UNCHANGED <<machineVars, ghostVars, puaRelease>>

Failed ==
  /\ run.phase = "fail" /\ Return
  /\ status' = "FAILED" /\ attempt' = "none"
  /\ RunFrame /\ UNCHANGED <<inProgress, source, machineVars, puaRelease>>

Packages ==
  /\ At("packages", "work")
  /\ Proceed \/ Goto("fail")
  /\ RunFrame /\ SameMeta /\ UNCHANGED <<machineVars, ghostVars, puaRelease>>

\* The apt upgrade of the agent's own package restarts the agent.
Self ==
  \/ /\ At("self", "work") /\ Goto("install") /\ MarkInProgress("SELF")
     /\ RunFrame /\ UNCHANGED <<machineVars, ghostVars, puaRelease>>
  \/ /\ At("self", "install")
     /\ (~puaRelease /\ Proceed) \/ Goto("fail")
     /\ RunFrame /\ SameMeta /\ UNCHANGED <<machineVars, ghostVars, puaRelease>>
  \/ /\ At("self", "install") /\ puaRelease
     /\ puaRelease' = FALSE /\ ProcessGone /\ (Cleanly \/ Faultily)
     /\ UNCHANGED <<osType, machineVars, mmVars, ghostVars, changes>>

\* Upgrading inbd restarts it, and a restarted inbd verifies first.
Inbm ==
  \/ /\ At("inbm", "work") /\ Goto("install") /\ MarkInProgress("INBM")
     /\ RunFrame /\ UNCHANGED <<machineVars, ghostVars, puaRelease>>
  \/ /\ At("inbm", "install")
     /\ Proceed \/ Goto("fail")
     /\ inbd' \in {inbd, "verify"}
     /\ RunFrame /\ SameMeta
     /\ UNCHANGED <<inbcLog, stateFile, booted, standby, bootTo, rebooting, ghostVars, puaRelease>>

UbuntuKernel ==
  \/ /\ At("kernel", "work")
     /\ IF source = "cmd" THEN Goto("mark") \/ Goto("fail") ELSE Proceed
     /\ RunFrame /\ SameMeta /\ UNCHANGED <<machineVars, ghostVars, puaRelease>>
  \/ /\ At("kernel", "mark") /\ Proceed /\ MarkInProgress("OS")
     /\ RunFrame /\ UNCHANGED <<machineVars, ghostVars, puaRelease>>

\* Download, mark, install: packages without a reboot, the OS with one.
Sota(step, reboot) ==
  \/ /\ At(step, "work")
     /\ \E ok \in BOOLEAN : /\ InbcDownload(NoImage, ok)
                            /\ Goto(IF ok THEN "mark" ELSE "fail")
     /\ RunFrame /\ SameMeta /\ UNCHANGED <<ghostVars, puaRelease>>
  \/ /\ At(step, "mark") /\ Goto("install") /\ MarkInProgress("OS")
     /\ RunFrame /\ UNCHANGED <<machineVars, ghostVars, puaRelease>>
  \/ /\ At(step, "install")
     /\ \E ok \in BOOLEAN : /\ InbcInstall(reboot, ok)
                            /\ IF ok THEN Proceed ELSE Goto("fail")
     /\ RunFrame /\ SameMeta /\ UNCHANGED puaRelease

NewPackages ==
  \/ /\ At("newpkg", "work") /\ ~packages /\ Proceed
     /\ RunFrame /\ SameMeta /\ UNCHANGED <<machineVars, ghostVars, puaRelease>>
  \/ (run.phase = "work" => packages) /\ Sota("newpkg", FALSE)

OsAndAgents == Sota("os", TRUE)

DownloadChecker == lastDownloaded = desired

\* An update source that cannot be read is taken for one without a kernel command.
Emt ==
  \/ /\ At("emt", "work")
     /\ \/ source = "cmd" /\ Proceed
        \/ /\ source # "cmd" \/ TornRead
           /\ Goto(IF DownloadChecker THEN "mark" ELSE "fail")
     /\ RunFrame /\ SameMeta /\ UNCHANGED <<machineVars, ghostVars, puaRelease>>
  \/ /\ At("emt", "mark") /\ Goto("install") /\ MarkInProgress("OS")
     /\ RunFrame /\ UNCHANGED <<machineVars, ghostVars, puaRelease>>
  \/ /\ At("emt", "install")
     /\ \E ok \in BOOLEAN : /\ InbcInstall(TRUE, ok)
                            /\ IF ok THEN Proceed ELSE Goto("fail")
     /\ RunFrame /\ SameMeta /\ UNCHANGED puaRelease

\* Writes the boot entry, records UPDATED, forgets the source and reboots.  With
\* no update source at all it dereferences nil, which ends the process.
EmtKernel ==
  \/ /\ At("emtkernel", "work") /\ source # "nil"
     /\ IF source = "cmd" THEN Goto("mark") \/ Goto("fail") ELSE Proceed
     /\ RunFrame /\ SameMeta /\ UNCHANGED <<machineVars, ghostVars, puaRelease>>
  \/ /\ At("emtkernel", "work") /\ source = "nil"
     /\ ProcessGone /\ (Cleanly \/ Faultily)
     /\ UNCHANGED <<fixedVars, machineVars, mmVars, ghostVars, changes>>
  \/ /\ At("emtkernel", "mark") /\ Goto("clear")
     /\ status' = "UPDATED" /\ UNCHANGED <<inProgress, source>>
     /\ RunFrame /\ UNCHANGED <<machineVars, ghostVars, puaRelease>>
  \/ /\ At("emtkernel", "clear") /\ Goto("reboot")
     /\ source' = "nil" /\ UNCHANGED <<status, inProgress>>
     /\ RunFrame /\ UNCHANGED <<machineVars, ghostVars, puaRelease>>
  \/ /\ At("emtkernel", "reboot")
     /\ \/ /\ Return /\ rebooting' = TRUE /\ attempt' = "ordered"
        \/ Goto("fail") /\ UNCHANGED <<rebooting, attempt>>
     /\ RunFrame /\ SameMeta
     /\ UNCHANGED <<inbcLog, stateFile, booted, standby, bootTo, inbd, puaRelease>>

SubUpdater == Packages \/ Self \/ Inbm \/ UbuntuKernel \/ NewPackages \/ OsAndAgents
              \/ Emt \/ EmtKernel \/ TimedOut \/ Failed

-----------------------------------------------------------------------------
(* The job gocron starts: triggerUpdate and StartUpdate *)

JobFrame == UNCHANGED <<fixedVars, inProgress, desired, actual, source, packages, machineVars,
                        mainVars, dlVars, handlerVars, tick, mmVars, boundVars>>

\* On EMT an update to the image recorded as installed is skipped.
JobTrigger ==
  /\ main = "serve" /\ job = "idle" /\ scheduled
  /\ osType = "emt" => desired # actual \/ TornRead
  /\ job' = "lock"
  /\ JobFrame /\ UNCHANGED <<status, run, opLock, attempt>>

\* Mutant: the job takes the operation lock without waiting for it.
JobLockNoWait ==
  /\ job = "lock"
  /\ opLock' = "update" /\ job' = "start"
  /\ JobFrame /\ UNCHANGED <<status, run, attempt>>

JobLock ==
  /\ job = "lock" /\ opLock = "free"
  /\ opLock' = "update" /\ job' = "start"
  /\ JobFrame /\ UNCHANGED <<status, run, attempt>>

JobStart ==
  /\ job = "start"
  /\ \/ /\ job' = "unlock"                       \* the window closed while it waited
        /\ UNCHANGED <<status, run, attempt>>
     \/ /\ job' = "update" /\ status' = "STARTED"
        /\ attempt' = (IF rebooting THEN "overtaken" ELSE "started")
        /\ run' = [by |-> "job", step |-> FirstStep, phase |-> "work"]
  /\ JobFrame /\ UNCHANGED opLock

JobUnlock ==
  /\ job = "unlock"
  /\ opLock' = "free" /\ job' = "idle"
  /\ JobFrame /\ UNCHANGED <<status, run, attempt>>

-----------------------------------------------------------------------------
(* The downloader *)

DlFrame == UNCHANGED <<fixedVars, inProgress, desired, actual, source, packages, mainVars,
                       job, run, handlerVars, tick, mmVars, ghostVars, boundVars>>

\* tryLockForDownload: a download never waits for an update, it is skipped.
TimerFires ==
  /\ timer # NoImage /\ timer' = NoImage
  /\ IF opLock = "free"
     THEN /\ opLock' = "download" /\ dl' = timer /\ status' = "DOWNLOADING"
          /\ standby' \in {standby} \cup {i \in {NoImage} : inbd = "serving"}
     ELSE UNCHANGED <<opLock, dl, status, standby>>
  /\ DlFrame
  /\ UNCHANGED <<inbcLog, stateFile, booted, bootTo, inbd, rebooting,
                 landed, lastDownloaded, notified>>

DownloadEnds ==
  /\ dl # NoImage
  /\ \E ok \in BOOLEAN :
       /\ InbcDownload(dl, ok)
       /\ status' = (IF ok THEN "DOWNLOADED" ELSE "FAILED")
       /\ landed' = (IF ok THEN landed \cup {dl} ELSE landed)
  /\ opLock' = "free" /\ dl' = NoImage
  /\ DlFrame /\ UNCHANGED <<lastDownloaded, timer, notified>>

\* The result is recorded after startDownload has let go of the lock.
SetLastDownloaded ==
  /\ \E image \in landed : lastDownloaded' = image /\ landed' = landed \ {image}
  /\ DlFrame /\ UNCHANGED <<status, machineVars, opLock, dl, timer, notified>>

-----------------------------------------------------------------------------
(* handleUpdateRes: what MM asks for goes to metadata.json and the downloader *)

HandlerFrame == UNCHANGED <<fixedVars, status, inProgress, actual, machineVars, mainVars, job,
                            run, opLock, dl, landed, lastDownloaded, tick, mmVars, ghostVars,
                            boundVars>>

HandleDesired ==
  /\ handler = "desired" /\ handler' = "source"
  /\ desired' = msg.image
  /\ HandlerFrame /\ UNCHANGED <<source, packages, timer, notified, msg, scheduled>>

HandleSource ==
  /\ handler = "source" /\ handler' = "notify"
  /\ source' = msg.source /\ scheduled' = TRUE
  /\ HandlerFrame /\ UNCHANGED <<desired, packages, timer, notified, msg>>

\* Notify replaces the timer when the image, or the next run, is not the last one's;
\* without a next run there is no timer.
Notify(image) ==
  IF image = actual THEN timer' = NoImage /\ UNCHANGED notified
  ELSE \/ timer' \in {image, NoImage} /\ notified' = image
       \/ image = notified /\ UNCHANGED <<timer, notified>>

HandleNotify ==
  /\ handler = "notify" /\ handler' = "idle" /\ msg' = NoRequest
  /\ packages' = msg.packages
  /\ IF osType = "emt" /\ msg.source # "cmd" THEN Notify(msg.image)
     ELSE UNCHANGED <<timer, notified>>
  /\ HandlerFrame /\ UNCHANGED <<desired, source, scheduled>>

-----------------------------------------------------------------------------
(* The ticker: report the status, pass MM's answer on, clear what was reported *)

TickFrame == UNCHANGED <<fixedVars, inProgress, desired, actual, source, packages, machineVars,
                         mainVars, job, run, opLock, dlVars, scheduled, wanted, ghostVars,
                         boundVars>>

\* Mutant: the status is cleared when it is read, before MM is told.
TickReadClears ==
  /\ main = "serve" /\ tick = "idle"
  /\ tick' = (IF status = "UPDATED" THEN "reportUpdated" ELSE "reportOther")
  /\ status' = (IF status = "UPDATED" THEN "UP_TO_DATE" ELSE status)
  /\ TickFrame /\ UNCHANGED <<handler, msg, known>>

TickRead ==
  /\ main = "serve" /\ tick = "idle"
  /\ tick' \in {IF status = "UPDATED" THEN "reportUpdated" ELSE "reportOther"}
              \cup {t \in {"reportOther"} : TornRead \/ run # NotRunning}
  /\ TickFrame /\ UNCHANGED <<status, handler, msg, known>>

Reported == IF tick = "reportUpdated" THEN "UPDATED" ELSE "other"

\* Mutant: the response is looked at only when there was an update to report.
TickReplyUpdatedOnly ==
  /\ tick \in {"reportUpdated", "reportOther"}
  /\ known' = Reported
  /\ IF handler = "idle" /\ tick = "reportUpdated" THEN handler' = "desired" /\ msg' = wanted
     ELSE UNCHANGED <<handler, msg>>
  /\ tick' = (IF tick = "reportUpdated" THEN "clear" ELSE "idle")
  /\ TickFrame /\ UNCHANGED status

\* A response that finds the handler busy is dropped.
TickReply ==
  /\ tick \in {"reportUpdated", "reportOther"}
  /\ known' = Reported
  /\ IF handler = "idle" THEN handler' = "desired" /\ msg' = wanted
     ELSE UNCHANGED <<handler, msg>>
  /\ tick' = (IF tick = "reportUpdated" THEN "clear" ELSE "idle")
  /\ TickFrame /\ UNCHANGED status

\* Mutant: after the last retry the loop goes on to the clearing.
TickFailGoesOn ==
  /\ tick \in {"reportUpdated", "reportOther"}
  /\ known' \in {known, Reported}
  /\ tick' = (IF tick = "reportUpdated" THEN "clear" ELSE "idle")
  /\ TickFrame /\ UNCHANGED <<status, handler, msg>>

\* Every retry failed, though one of them may have reached MM.
TickFail ==
  /\ tick \in {"reportUpdated", "reportOther"}
  /\ known' \in {known, Reported}
  /\ tick' = "idle"
  /\ TickFrame /\ UNCHANGED <<status, handler, msg>>

TickClear ==
  /\ tick = "clear" /\ tick' = "idle"
  /\ status' = "UP_TO_DATE"
  /\ TickFrame /\ UNCHANGED <<handler, msg, known>>

-----------------------------------------------------------------------------
(* main(): what a starting agent makes of a status left at STARTED *)

MainFrame == UNCHANGED <<fixedVars, desired, source, packages, machineVars, job, opLock, dlVars,
                         handlerVars, tick, mmVars, boundVars>>

\* Mutants: one of the two updates in progress is not looked at by main().
StartIgnoring(type) ==
  /\ main = "down" /\ ~rebooting
  /\ IF status # "STARTED" \/ inProgress \notin {"SELF", "OS"} \ {type}
     THEN main' = "serve" /\ UNCHANGED run
     ELSE IF inProgress = "SELF"
     THEN main' = "continue" /\ run' = [by |-> "main", step |-> FirstStep, phase |-> "work"]
     ELSE main' = "verify" /\ UNCHANGED run
  /\ MainFrame /\ UNCHANGED <<status, inProgress, actual, verdict, ghostVars>>

StartIgnoringSelf == StartIgnoring("SELF")
StartIgnoringOs == StartIgnoring("OS")

Start ==
  /\ main = "down" /\ ~rebooting
  /\ IF status # "STARTED" \/ inProgress \notin {"SELF", "OS"}
     THEN main' = "serve" /\ UNCHANGED run
     ELSE IF inProgress = "SELF"
     THEN main' = "continue" /\ run' = [by |-> "main", step |-> FirstStep, phase |-> "work"]
     ELSE main' = "verify" /\ UNCHANGED run
  /\ MainFrame /\ UNCHANGED <<status, inProgress, actual, verdict, ghostVars>>

\* VerifyUpdate: inbc's last logged result, whatever it was the result of.
MainVerify ==
  /\ main = "verify" /\ main' = "actual"
  /\ verdict' = (IF \/ inbcLog = "SUCCESS"
                    \/ inbcLog = "absent" /\ inProgress = "OS" /\ source = "cmd"
                 THEN "UPDATED" ELSE "FAILED")
  /\ MainFrame /\ UNCHANGED <<status, inProgress, actual, run, ghostVars>>

\* Mutant: the status is written where the image should be.
MainActualStatusFirst ==
  /\ main = "actual" /\ main' = "status"
  /\ status' = verdict
  /\ MainFrame /\ UNCHANGED <<inProgress, actual, verdict, run, ghostVars>>

MainActual ==
  /\ main = "actual" /\ main' = "status"
  /\ actual' = (IF osType = "emt" /\ verdict = "UPDATED" THEN desired ELSE actual)
  /\ MainFrame /\ UNCHANGED <<status, inProgress, verdict, run, ghostVars>>

MainStatus ==
  /\ main = "status" /\ main' = "clear"
  /\ status' = verdict
  /\ MainFrame /\ UNCHANGED <<inProgress, actual, verdict, run, ghostVars>>

MainClear ==
  /\ main = "clear" /\ main' = "serve"
  /\ inProgress' = "NONE" /\ verdict' = "UP_TO_DATE"
  /\ attempt' = "none"
  /\ MainFrame /\ UNCHANGED <<status, actual, run>>

MainStep == Start \/ MainVerify \/ MainActual \/ MainStatus \/ MainClear

-----------------------------------------------------------------------------
\* An operator changes the node's OS profile or kernel command in MM.
Change ==
  /\ changes < MaxChanges[osType] /\ changes' = changes + 1
  /\ wanted' \in Requests(osType) \ {wanted}
  /\ UNCHANGED <<fixedVars, metaVars, machineVars, mainVars, job, run, opLock, dlVars,
                 handlerVars, tick, known, ghostVars, faults>>

Handler == HandleDesired \/ HandleSource \/ HandleNotify

Next == \/ Crash \/ Reboot \/ BadBoot \/ InbdVerify \/ SubUpdater
        \/ JobTrigger \/ JobLock \/ JobStart \/ JobUnlock
        \/ TimerFires \/ DownloadEnds \/ SetLastDownloaded
        \/ HandleDesired \/ HandleSource \/ HandleNotify
        \/ TickRead \/ TickReply \/ TickFail \/ TickClear
        \/ Start \/ MainVerify \/ MainActual \/ MainStatus \/ MainClear
        \/ Change

\* main() and the job's goroutine, of which at most one is running at a time.
Updating == MainStep \/ SubUpdater \/ JobStart \/ JobUnlock

\* Goroutines are scheduled, an ordered reboot happens, MM is reached again and
\* again and not every read of metadata.json meets a write.  Nothing promises a
\* maintenance window, a download or the end of inbd's verification.
Fairness ==
  /\ WF_vars(Updating) /\ WF_vars(Handler) /\ WF_vars(TickRead \/ TickClear) /\ WF_vars(Reboot)
  /\ SF_vars(TickRead /\ tick' = "reportUpdated")
  /\ SF_vars(TickReply) /\ SF_vars(TickReply /\ tick = "reportUpdated")

Spec == Init /\ [][Next]_vars /\ Fairness
-----------------------------------------------------------------------------
(* Properties *)

\* The operation lock keeps downloads and updates apart: while inbc writes the
\* standby partition for a download no sub-updater runs, whoever started it.
UpdateExcludesDownload == dl # NoImage => run = NotRunning

\* handleEdgeInfrastructureManagerRequest forgets an UPDATED status only once MM
\* has heard one: a successful update is never lost to a failed report, as long as
\* metadata.json outlives the process (InitMetadata's reset is no report).
ClearedOnlyWhenReported ==
  [][status = "UPDATED" /\ status' = "UP_TO_DATE" /\ main' # "down" => known = "UPDATED"]_vars

\* continueUpdateAfterOsReboot records the new image before the new status: a
\* crash between its writes never leaves UPDATED with the old image for actual.
UpdatedNamesItsImage ==
  [][status' = "UPDATED" /\ status = "STARTED" /\ osType = "emt" /\ main # "serve"
     => actual' = desired']_vars

\* Once its reboot is ordered an update is settled: through reboots, rollbacks and
\* crashes the status does not stay at STARTED, unless a second job starts one more
\* update before the machine goes down.
OrderedUpdateResolves ==
  attempt = "ordered" ~> status # "STARTED" \/ attempt = "overtaken"

\* The agent's own upgrade restarts it half way through an update, and the
\* restarted agent carries the update on, unless it fails or its record is lost.
SelfUpdateContinues ==
  At("self", "install") /\ puaRelease ~> At("inbm", "work") \/ status # "STARTED"

\* What MM asks for reaches metadata.json, though responses are dropped.
DesiredConverges == <>[](desired = wanted.image)
=============================================================================
