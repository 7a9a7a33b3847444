-------------------------- MODULE PuaUpdateProofs --------------------------
(***************************************************************************)
(* Proofs about PuaUpdate, for any set of images, any number of faults and *)
(* of changes of mind: type correctness, the exclusion of downloads and    *)
(* updates, and the two action properties on the status.                   *)
(***************************************************************************)
EXTENDS PuaUpdate, TLAPS

-----------------------------------------------------------------------------
(* The invariant *)

\* The goroutines that serve MM run only once main() has started them.
QuietUntilServing ==
  main # "serve" => /\ job = "idle" /\ handler = "idle" /\ tick = "idle"
                    /\ dl = NoImage /\ timer = NoImage

\* Who runs the sub-updaters: nobody, main() before it serves, or the job.
RunHasOwner ==
  /\ run.by = "nobody" => run = NotRunning
  /\ run.by = "main" <=> main = "continue"
  /\ run.by = "job" <=> job = "update"

\* The operation lock belongs to the job from JobLock to JobUnlock, and to the
\* download while inbc runs.
LockHeld ==
  /\ job \in {"start", "update", "unlock"} => opLock = "update"
  /\ dl # NoImage => opLock = "download"

LockInv == QuietUntilServing /\ RunHasOwner /\ LockHeld

\* An UPDATED status about to be cleared has been heard by MM.
ClearHeard == tick = "clear" => known = "UPDATED"

\* A verdict is UPDATED or FAILED, and on EMT the image was recorded before it.
VerdictGiven ==
  /\ main \in {"actual", "status"} => verdict \in {"UPDATED", "FAILED"}
  /\ main = "status" /\ verdict = "UPDATED" /\ osType = "emt" => actual = desired

\* On EMT the agent never upgrades itself, so it never continues an update.
EmtSteps ==
  osType = "emt" => /\ inProgress \in {"NONE", "OS"}
                    /\ run.step \in {"emt", "emtkernel", "none"}
                    /\ main # "continue"

StatusInv == ClearHeard /\ VerdictGiven /\ EmtSteps

Inv == TypeOK /\ LockInv /\ StatusInv

-----------------------------------------------------------------------------
(* Type correctness *)

\* Every initial state has the types its variables are declared with.
LEMMA InitType == Init => TypeOK
<1> SUFFICES ASSUME Init PROVE TypeOK
  OBVIOUS
<1>1. run \in RunType
  BY DEF Init, NotRunning, RunType
<1>2. faults \in 0..MaxFaults /\ changes \in 0..MaxChanges[osType]
  BY BoundsAssumption DEF BoundsAssumption, Init
<1>3. booted \in MaybeImages /\ puaRelease \in BOOLEAN /\ osType \in OsTypes
  BY DEF Init, MaybeImages
<1>4. QED
  BY <1>1, <1>2, <1>3 DEF Init, TypeOK, MaybeImages, Sources, Statuses

\* Whatever ends the process leaves an empty memory behind it, of the right types.
LEMMA ProcessGoneType ==
  ASSUME ProcessGone
  PROVE  /\ main' = "down" /\ verdict' \in Statuses /\ job' = "idle"
         /\ run' \in RunType
         /\ opLock' = "free" /\ dl' \in MaybeImages /\ landed' \subseteq Images
         /\ lastDownloaded' \in MaybeImages /\ timer' \in MaybeImages
         /\ notified' \in MaybeImages /\ handler' = "idle" /\ msg' = NoRequest
         /\ scheduled' = FALSE /\ tick' = "idle"
BY DEF ProcessGone, RunType, NotRunning, MaybeImages, Statuses

\* What is left of metadata.json when the process ends: all of it, or a new file.
LEMMA EndMeta ==
  ASSUME TypeOK, Cleanly \/ Faultily
  PROVE  /\ status' \in Statuses /\ inProgress' \in {"NONE", "SELF", "INBM", "OS"}
         /\ desired' \in MaybeImages /\ actual' \in MaybeImages
         /\ source' \in Sources /\ packages' \in BOOLEAN
         /\ faults' \in 0..MaxFaults
         /\ status' \in {status, "UP_TO_DATE"} /\ inProgress' \in {inProgress, "NONE"}
<1>1. faults' \in 0..MaxFaults
  BY BoundsAssumption DEF BoundsAssumption, TypeOK, Cleanly, Faultily
<1>2. UNCHANGED metaVars \/ InitMetadata
  BY DEF Cleanly, Faultily, metaVars
<1>3. QED
  BY <1>1, <1>2 DEF TypeOK, InitMetadata, metaVars, Statuses, MaybeImages, Sources

\* inbc's two commands keep the machine's types.
LEMMA InbcType ==
  ASSUME TypeOK, NEW image \in MaybeImages, NEW ok \in BOOLEAN, NEW reboot \in BOOLEAN
  PROVE  /\ InbcDownload(image, ok) =>
              /\ inbcLog' \in {"absent", "SUCCESS", "FAIL"}
              /\ stateFile' \in MaybeImages \cup {Empty}
              /\ booted' \in MaybeImages /\ standby' \in MaybeImages
              /\ bootTo' \in {"booted", "standby"} /\ inbd' \in {"verify", "serving"}
              /\ rebooting' \in BOOLEAN
         /\ InbcInstall(reboot, ok) =>
              /\ inbcLog' \in {"absent", "SUCCESS", "FAIL"}
              /\ stateFile' \in MaybeImages \cup {Empty}
              /\ booted' \in MaybeImages /\ standby' \in MaybeImages
              /\ bootTo' \in {"booted", "standby"} /\ inbd' \in {"verify", "serving"}
              /\ rebooting' \in BOOLEAN
              /\ attempt' \in {"none", "started", "ordered", "overtaken", "rebooted"}
BY DEF TypeOK, InbcDownload, InbcInstall, machineVars, ghostVars, MaybeImages

\* The moves of a run between its steps and phases keep its type.
LEMMA MoveType ==
  ASSUME TypeOK
  PROVE  /\ \A phase \in {"work", "mark", "install", "clear", "reboot", "fail"} :
              Goto(phase) => run' \in RunType /\ main' = main /\ job' = job
         /\ Return \/ Proceed =>
              /\ run' \in RunType
              /\ main' \in {main, "serve"} /\ job' \in {job, "unlock"}
<1>1. ASSUME NEW phase \in {"work", "mark", "install", "clear", "reboot", "fail"}, Goto(phase)
      PROVE  run' \in RunType /\ main' = main /\ job' = job
  BY <1>1 DEF TypeOK, RunType, Goto
<1>2. ASSUME Return
      PROVE  /\ run' \in RunType
             /\ main' \in {main, "serve"} /\ job' \in {job, "unlock"}
  BY <1>2 DEF Return, RunType, NotRunning
<1>3. StepAfter[run.step] \in Steps \cup {"none"}
  BY DEF TypeOK, RunType, StepAfter, Steps
<1>4. ASSUME Proceed
      PROVE  /\ run' \in RunType
             /\ main' \in {main, "serve"} /\ job' \in {job, "unlock"}
  BY <1>2, <1>3, <1>4 DEF TypeOK, Proceed, RunType
<1>5. QED
  BY <1>1, <1>2, <1>4

USE DEF fixedVars, metaVars, machineVars, mainVars, dlVars, handlerVars, mmVars, ghostVars,
        boundVars

\* A step that runs an inbc command, and moves on by its result, keeps the types.
LEMMA InbcStepType ==
  ASSUME TypeOK, NEW ok \in BOOLEAN, NEW reboot \in BOOLEAN,
         RunFrame, SameMeta, puaRelease' = puaRelease,
         (InbcDownload(NoImage, ok) /\ UNCHANGED ghostVars) \/ InbcInstall(reboot, ok),
         Proceed \/ Goto("mark") \/ Goto("fail")
  PROVE  TypeOK'
<1>1. NoImage \in MaybeImages
  BY DEF MaybeImages
<1>2. run' \in RunType /\ main' \in {main, "serve"} /\ job' \in {job, "unlock"}
  BY MoveType
<1>3. /\ inbcLog' \in {"absent", "SUCCESS", "FAIL"}
      /\ stateFile' \in MaybeImages \cup {Empty}
      /\ booted' \in MaybeImages /\ standby' \in MaybeImages
      /\ bootTo' \in {"booted", "standby"} /\ inbd' \in {"verify", "serving"}
      /\ rebooting' \in BOOLEAN
  BY <1>1, InbcType
<1>4. /\ attempt' \in {"none", "started", "ordered", "overtaken", "rebooted"}
  BY <1>1, InbcType DEF TypeOK
<1>5. QED
  BY <1>2, <1>3, <1>4 DEF TypeOK, RunFrame, SameMeta

\* So does every step of inbc sota run as download, mark and install.
LEMMA SotaType ==
  ASSUME TypeOK, NEW step \in Steps, NEW reboot \in BOOLEAN, Sota(step, reboot)
  PROVE  TypeOK'
<1>1. CASE /\ \E ok \in BOOLEAN : InbcDownload(NoImage, ok) /\ Goto(IF ok THEN "mark" ELSE "fail")
           /\ RunFrame /\ SameMeta /\ UNCHANGED <<ghostVars, puaRelease>>
  BY <1>1, InbcStepType
<1>2. CASE Goto("install") /\ MarkInProgress("OS")
           /\ RunFrame /\ UNCHANGED <<machineVars, ghostVars, puaRelease>>
  BY <1>2, MoveType DEF TypeOK, RunFrame, MarkInProgress
<1>3. CASE /\ \E ok \in BOOLEAN : InbcInstall(reboot, ok) /\ (IF ok THEN Proceed ELSE Goto("fail"))
           /\ RunFrame /\ SameMeta /\ UNCHANGED puaRelease
  <2>1. PICK ok \in BOOLEAN : InbcInstall(reboot, ok) /\ (Proceed \/ Goto("fail"))
    BY <1>3
  <2>2. QED
    BY <1>3, <2>1, InbcStepType
<1>4. QED
  BY <1>1, <1>2, <1>3 DEF Sota

\* The steps of a sub-updater keep every variable's type.
LEMMA SubUpdaterType == TypeOK /\ SubUpdater => TypeOK'
<1> SUFFICES ASSUME TypeOK, SubUpdater PROVE TypeOK'
  OBVIOUS
<1> USE MoveType DEF RunFrame, SameMeta, MarkInProgress
<1>1. CASE Packages
  BY <1>1 DEF TypeOK, Packages
<1>2. CASE Self
  BY <1>2, ProcessGoneType, EndMeta DEF TypeOK, Self
<1>3. CASE Inbm
  BY <1>3 DEF TypeOK, Inbm
<1>4. CASE UbuntuKernel
  BY <1>4 DEF TypeOK, UbuntuKernel
<1>5. CASE NewPackages
  <2>1. CASE At("newpkg", "work") /\ ~packages /\ Proceed
             /\ RunFrame /\ SameMeta /\ UNCHANGED <<machineVars, ghostVars, puaRelease>>
    BY <2>1 DEF TypeOK
  <2>2. CASE Sota("newpkg", FALSE)
    BY <2>2, SotaType DEF Steps
  <2>3. QED
    BY <1>5, <2>1, <2>2 DEF NewPackages
<1>6. CASE OsAndAgents
  BY <1>6, SotaType DEF OsAndAgents, Steps
<1>7. CASE Emt
  <2>1. CASE /\ \E ok \in BOOLEAN : InbcInstall(TRUE, ok) /\ (IF ok THEN Proceed ELSE Goto("fail"))
             /\ RunFrame /\ SameMeta /\ UNCHANGED puaRelease
    <3>1. PICK ok \in BOOLEAN : InbcInstall(TRUE, ok) /\ (Proceed \/ Goto("fail"))
      BY <2>1
    <3>2. QED
      BY <2>1, <3>1, InbcStepType
  <2>2. CASE (Proceed \/ Goto("mark") \/ Goto("fail"))
             /\ RunFrame /\ SameMeta /\ UNCHANGED <<machineVars, ghostVars, puaRelease>>
    BY <2>2 DEF TypeOK
  <2>3. CASE Goto("install") /\ MarkInProgress("OS")
             /\ RunFrame /\ UNCHANGED <<machineVars, ghostVars, puaRelease>>
    BY <2>3 DEF TypeOK
  <2>4. QED
    BY <1>7, <2>1, <2>2, <2>3 DEF Emt
<1>8. CASE EmtKernel
  BY <1>8, ProcessGoneType, EndMeta DEF TypeOK, EmtKernel, Statuses, Sources
<1>9. CASE TimedOut
  BY <1>9 DEF TypeOK, TimedOut
<1>10. CASE Failed
  BY <1>10 DEF TypeOK, Failed, Statuses, Sources
<1>11. QED
  BY <1>1, <1>2, <1>3, <1>4, <1>5, <1>6, <1>7, <1>8, <1>9, <1>10 DEF SubUpdater

\* Every step of the agent, of the machine, of inbd and of MM keeps the types.
LEMMA StepType == TypeOK /\ [Next]_vars => TypeOK'
<1> SUFFICES ASSUME TypeOK, [Next]_vars PROVE TypeOK'
  OBVIOUS
<1>1. CASE Crash
  <2>1. PICK ok \in BOOLEAN, reboot \in BOOLEAN :
          \/ InbcInstall(reboot, ok)
          \/ InbcDownload(dl, ok) /\ UNCHANGED ghostVars
          \/ UNCHANGED <<machineVars, ghostVars>>
    BY <1>1 DEF Crash, InbdFinishes
  <2>2. /\ inbcLog' \in {"absent", "SUCCESS", "FAIL"}
        /\ stateFile' \in MaybeImages \cup {Empty}
        /\ booted' \in MaybeImages /\ standby' \in MaybeImages
        /\ bootTo' \in {"booted", "standby"} /\ inbd' \in {"verify", "serving"}
        /\ rebooting' \in BOOLEAN
        /\ attempt' \in {"none", "started", "ordered", "overtaken", "rebooted"}
    BY <2>1, InbcType DEF TypeOK
  <2>3. QED
    BY <1>1, <2>2, ProcessGoneType, EndMeta DEF TypeOK, Crash
<1>2. ASSUME NEW switched \in BOOLEAN, Boot(switched), Cleanly \/ Faultily PROVE TypeOK'
  BY <1>2, ProcessGoneType, EndMeta DEF TypeOK, Boot
<1>3. CASE Reboot
  BY <1>2, <1>3 DEF Reboot, Switches
<1>4. CASE BadBoot
  BY <1>2, <1>4 DEF BadBoot, Switches
<1>5. CASE InbdVerify
  <2>1. faults' \in 0..MaxFaults
    BY <1>5, BoundsAssumption DEF BoundsAssumption, TypeOK, InbdVerify
  <2>2. inbcLog' \in {"absent", "SUCCESS", "FAIL"} /\ stateFile' \in MaybeImages \cup {Empty}
    BY <1>5 DEF TypeOK, InbdVerify
  <2>3. bootTo' \in {"booted", "standby"} /\ inbd' \in {"verify", "serving"}
    BY <1>5 DEF TypeOK, InbdVerify
  <2>4. rebooting' \in BOOLEAN
    BY <1>5 DEF TypeOK, InbdVerify
  <2>5. QED
    BY <1>5, <2>1, <2>2, <2>3, <2>4 DEF TypeOK, InbdVerify
<1>6. CASE SubUpdater
  BY <1>6, SubUpdaterType
<1>7. CASE JobTrigger \/ JobLock \/ JobStart \/ JobUnlock
  BY <1>7 DEF TypeOK, JobTrigger, JobLock, JobStart, JobUnlock, JobFrame, FirstStep, RunType,
              Steps, Statuses
<1>8. CASE TimerFires
  BY <1>8 DEF TypeOK, TimerFires, DlFrame, Statuses, MaybeImages
<1>9. CASE DownloadEnds
  <2>1. PICK ok \in BOOLEAN :
          /\ InbcDownload(dl, ok)
          /\ status' = (IF ok THEN "DOWNLOADED" ELSE "FAILED")
          /\ landed' = (IF ok THEN landed \cup {dl} ELSE landed)
    BY <1>9 DEF DownloadEnds
  <2>2. /\ inbcLog' \in {"absent", "SUCCESS", "FAIL"}
        /\ stateFile' \in MaybeImages \cup {Empty}
        /\ booted' \in MaybeImages /\ standby' \in MaybeImages
        /\ bootTo' \in {"booted", "standby"} /\ inbd' \in {"verify", "serving"}
        /\ rebooting' \in BOOLEAN
    BY <2>1, InbcType DEF TypeOK
  <2>3. status' \in Statuses /\ landed' \subseteq Images /\ dl' \in MaybeImages
    BY <1>9, <2>1 DEF TypeOK, DownloadEnds, Statuses, MaybeImages
  <2>4. QED
    BY <1>9, <2>2, <2>3 DEF TypeOK, DownloadEnds, DlFrame
<1>10. CASE SetLastDownloaded
  BY <1>10 DEF TypeOK, SetLastDownloaded, DlFrame, MaybeImages
<1>11. CASE HandleDesired \/ HandleSource \/ HandleNotify
  <2>1. msg.image \in MaybeImages /\ msg.source \in Sources /\ msg.packages \in BOOLEAN
    <3>1. CASE msg = NoRequest
      BY <3>1 DEF NoRequest, MaybeImages, Sources
    <3>2. CASE msg \in Requests(osType) /\ osType = "emt"
      BY <3>2, SourcesAssumption DEF SourcesAssumption, Requests, MaybeImages, Sources
    <3>3. CASE msg \in Requests(osType) /\ osType # "emt"
      BY <3>3, SourcesAssumption DEF SourcesAssumption, Requests, MaybeImages, Sources
    <3>4. QED
      BY <3>1, <3>2, <3>3 DEF TypeOK
  <2>2. CASE HandleDesired
    BY <2>1, <2>2 DEF TypeOK, HandleDesired, HandlerFrame
  <2>3. CASE HandleSource
    BY <2>1, <2>3 DEF TypeOK, HandleSource, HandlerFrame
  <2>4. CASE HandleNotify
    BY <2>1, <2>4 DEF TypeOK, HandleNotify, HandlerFrame, Notify, MaybeImages
  <2>5. QED
    BY <1>11, <2>2, <2>3, <2>4
<1>12. CASE TickRead \/ TickReply \/ TickFail \/ TickClear
  BY <1>12 DEF TypeOK, TickRead, TickReply, TickFail, TickClear, TickFrame, Reported, Statuses
<1>13. CASE Start
  BY <1>13 DEF TypeOK, Start, MainFrame, FirstStep, RunType, Steps
<1>14. CASE MainVerify \/ MainActual \/ MainStatus \/ MainClear
  BY <1>14 DEF TypeOK, MainVerify, MainActual, MainStatus, MainClear, MainFrame, Statuses,
               MaybeImages
<1>15. CASE Change
  BY <1>15, BoundsAssumption DEF BoundsAssumption, TypeOK, Change
<1>16. CASE UNCHANGED vars
  BY <1>16 DEF TypeOK, vars
<1>17. QED
  BY <1>1, <1>3, <1>4, <1>5, <1>6, <1>7, <1>8, <1>9, <1>10, <1>11, <1>12, <1>13, <1>14, <1>15,
     <1>16 DEF Next

\* Type correctness: metadata.json, inbd's files and the agent's memory only ever
\* hold the values the code names, whatever is lost or restarted.
THEOREM TypeCorrect == Spec => []TypeOK
BY InitType, StepType, PTL DEF Spec

-----------------------------------------------------------------------------
(* Downloads and updates exclude each other *)

\* A dead process runs nothing and holds nothing.
LEMMA ProcessGoneLock == ProcessGone => LockInv'
BY DEF ProcessGone, LockInv, QuietUntilServing, RunHasOwner, LockHeld, NotRunning

\* A move of a run leaves it with its owner, or ends it and hands control back.
LEMMA MoveOwner ==
  ASSUME TypeOK, NEW phase
  PROVE  /\ Goto(phase) => run'.by = run.by /\ main' = main /\ job' = job
                          /\ (run.step = "none" <=> run'.step = "none")
         /\ Proceed => Return \/ (run'.by = run.by /\ main' = main /\ job' = job)
<1>1. ASSUME Goto(phase)
      PROVE  /\ run'.by = run.by /\ main' = main /\ job' = job
             /\ (run.step = "none" <=> run'.step = "none")
  BY <1>1 DEF TypeOK, RunType, Goto
<1>2. ASSUME Proceed
      PROVE  Return \/ (run'.by = run.by /\ main' = main /\ job' = job)
  BY <1>2 DEF TypeOK, RunType, Proceed
<1>3. QED
  BY <1>1, <1>2

\* A sub-updater's step is a step of a run.
LEMMA SubUpdaterRuns == SubUpdater => run # NotRunning
<1> SUFFICES ASSUME SubUpdater PROVE run # NotRunning
  OBVIOUS
<1>1. CASE Packages \/ Self \/ Inbm \/ UbuntuKernel
  BY <1>1 DEF NotRunning, Packages, Self, Inbm, UbuntuKernel, At
<1>2. ASSUME NEW step, NEW reboot, Sota(step, reboot), step # "none" PROVE run # NotRunning
  <2>1. At(step, "work") \/ At(step, "mark") \/ At(step, "install")
    BY <1>2 DEF Sota
  <2>2. QED
    BY <1>2, <2>1 DEF At, NotRunning
<1>3. CASE NewPackages
  <2>1. At("newpkg", "work") \/ Sota("newpkg", FALSE)
    BY <1>3 DEF NewPackages
  <2>2. CASE At("newpkg", "work")
    BY <2>2 DEF At, NotRunning
  <2>3. CASE Sota("newpkg", FALSE)
    BY <1>2, <2>3
  <2>4. QED
    BY <2>1, <2>2, <2>3
<1>4. CASE OsAndAgents
  BY <1>2, <1>4 DEF OsAndAgents
<1>5. CASE Emt
  <2>1. At("emt", "work") \/ At("emt", "mark") \/ At("emt", "install")
    BY <1>5 DEF Emt
  <2>2. QED
    BY <2>1 DEF At, NotRunning
<1>6. CASE EmtKernel
  <2>1. \/ At("emtkernel", "work") \/ At("emtkernel", "mark")
        \/ At("emtkernel", "clear") \/ At("emtkernel", "reboot")
    BY <1>6 DEF EmtKernel
  <2>2. QED
    BY <2>1 DEF At, NotRunning
<1>7. CASE TimedOut \/ Failed
  BY <1>7 DEF TimedOut, Failed, NotRunning
<1>8. QED
  BY <1>1, <1>3, <1>4, <1>5, <1>6, <1>7 DEF SubUpdater

\* While a sub-updater works the run has an owner; its step keeps the lock's order.
LEMMA SubUpdaterLock == TypeOK /\ LockInv /\ SubUpdater => LockInv'
<1> SUFFICES ASSUME TypeOK, LockInv, SubUpdater PROVE LockInv'
  OBVIOUS
<1>1. ASSUME run # NotRunning, UNCHANGED <<opLock, dlVars, handlerVars, tick>>,
             \/ Return
             \/ run'.by = run.by /\ main' = main /\ job' = job
      PROVE  LockInv'
  <2>1. run.by \in {"main", "job"}
    BY <1>1 DEF TypeOK, RunType, LockInv, RunHasOwner
  <2>2. CASE Return
    BY <1>1, <2>1, <2>2 DEF Return, NotRunning, LockInv, QuietUntilServing, RunHasOwner, LockHeld
  <2>3. CASE run'.by = run.by /\ main' = main /\ job' = job
    BY <1>1, <2>1, <2>3 DEF LockInv, QuietUntilServing, RunHasOwner, LockHeld
  <2>4. QED
    BY <1>1, <2>2, <2>3
<1>2. run # NotRunning
  BY SubUpdaterRuns
<1>3. \/ ProcessGone
      \/ /\ UNCHANGED <<opLock, dlVars, handlerVars, tick>>
         /\ Return \/ Proceed \/ \E phase \in {"mark", "install", "clear", "reboot", "fail"} :
                                 Goto(phase)
  BY DEF RunFrame, SubUpdater, Packages, Self, Inbm, UbuntuKernel, NewPackages, OsAndAgents,
         Sota, Emt, EmtKernel, TimedOut, Failed
<1>4. QED
  BY <1>1, <1>2, <1>3, ProcessGoneLock, MoveOwner

\* Every step keeps the goroutines quiet until main() serves, every run with its
\* owner and the lock with its holder.
LEMMA LockStep == TypeOK /\ LockInv /\ [Next]_vars => LockInv'
<1> SUFFICES ASSUME TypeOK, LockInv, [Next]_vars PROVE LockInv'
  OBVIOUS
<1> USE DEF LockInv, QuietUntilServing, RunHasOwner, LockHeld
<1>1. CASE Crash \/ Reboot \/ BadBoot
  BY <1>1, ProcessGoneLock DEF Crash, Reboot, BadBoot, Boot
<1>2. CASE InbdVerify \/ Change
  BY <1>2 DEF InbdVerify, Change
<1>3. CASE SubUpdater
  BY <1>3, SubUpdaterLock
<1>4. CASE JobTrigger \/ JobLock \/ JobUnlock
  BY <1>4 DEF JobTrigger, JobLock, JobUnlock, JobFrame
<1>5. CASE JobStart
  BY <1>5 DEF TypeOK, JobStart, JobFrame, NotRunning
<1>6. CASE TimerFires \/ SetLastDownloaded
  BY <1>6, ImagesAssumption DEF ImagesAssumption, TypeOK, MaybeImages, TimerFires,
                                SetLastDownloaded, DlFrame
<1>7. CASE DownloadEnds
  BY <1>7 DEF DownloadEnds, DlFrame
<1>8. CASE HandleDesired \/ HandleSource \/ HandleNotify
  BY <1>8 DEF HandleDesired, HandleSource, HandleNotify, HandlerFrame
<1>9. CASE TickRead \/ TickReply \/ TickFail \/ TickClear
  BY <1>9 DEF TickRead, TickReply, TickFail, TickClear, TickFrame
<1>10. CASE Start
  BY <1>10 DEF TypeOK, Start, MainFrame, NotRunning
<1>11. CASE MainVerify \/ MainActual \/ MainStatus \/ MainClear
  BY <1>11 DEF TypeOK, MainVerify, MainActual, MainStatus, MainClear, MainFrame
<1>12. CASE UNCHANGED vars
  BY <1>12 DEF vars
<1>13. QED
  BY <1>1, <1>2, <1>3, <1>4, <1>5, <1>6, <1>7, <1>8, <1>9, <1>10, <1>11, <1>12 DEF Next

\* The lock and the ownership of a run imply the exclusion.
LEMMA LockExcludes == TypeOK /\ LockInv => UpdateExcludesDownload
BY DEF TypeOK, RunType, LockInv, QuietUntilServing, RunHasOwner, LockHeld, UpdateExcludesDownload

\* No sub-updater ever runs while a download is in progress, however jobs, timers,
\* restarts and MM's requests interleave.
THEOREM DownloadExclusion == Spec => []UpdateExcludesDownload
<1>1. Init => TypeOK /\ LockInv
  <2> SUFFICES ASSUME Init PROVE LockInv
    BY InitType
  <2>1. /\ main = "down" /\ job = "idle" /\ run = NotRunning /\ dl = NoImage
        /\ timer = NoImage /\ handler = "idle" /\ tick = "idle"
    BY DEF Init
  <2>2. QED
    BY <2>1 DEF NotRunning, LockInv, QuietUntilServing, RunHasOwner, LockHeld
<1>2. TypeOK /\ LockInv /\ [Next]_vars => (TypeOK /\ LockInv)'
  BY StepType, LockStep
<1>3. QED
  BY <1>1, <1>2, LockExcludes, PTL DEF Spec

-----------------------------------------------------------------------------
(* What may happen to the status *)

\* The steps of a sub-updater leave what MM heard and main()'s verdict alone.
LEMMA SubUpdaterStatus == TypeOK /\ LockInv /\ StatusInv /\ SubUpdater => StatusInv'
<1> SUFFICES ASSUME TypeOK, LockInv, StatusInv, SubUpdater PROVE StatusInv'
  OBVIOUS
<1>1. \/ ProcessGone /\ UNCHANGED osType /\ (Cleanly \/ Faultily)
      \/ /\ UNCHANGED <<osType, desired, actual, verdict, tick, known>>
         /\ Return \/ Proceed \/ \E phase \in {"mark", "install", "clear", "reboot", "fail"} :
                                 Goto(phase)
  BY DEF RunFrame, SubUpdater, Packages, Self, Inbm, UbuntuKernel, NewPackages, OsAndAgents,
         Sota, Emt, EmtKernel, TimedOut, Failed
<1>2. CASE ProcessGone /\ UNCHANGED osType /\ (Cleanly \/ Faultily)
  BY <1>2, EndMeta DEF ProcessGone, NotRunning, StatusInv, ClearHeard, VerdictGiven, EmtSteps
<1>3. ASSUME UNCHANGED <<osType, desired, actual, verdict, tick, known>>,
             Return \/ Proceed \/ \E phase \in {"mark", "install", "clear", "reboot", "fail"} :
                                  Goto(phase)
      PROVE  StatusInv'
  <2>1. run # NotRunning /\ run.by \in {"main", "job"}
    BY SubUpdaterRuns DEF TypeOK, RunType, LockInv, RunHasOwner
  <2>2. main \in {"continue", "serve"} /\ main' \in {main, "serve"}
    BY <1>3, <2>1, MoveType DEF LockInv, RunHasOwner, QuietUntilServing
  <2>3. ClearHeard' /\ VerdictGiven'
    BY <1>3, <2>2 DEF StatusInv, ClearHeard, VerdictGiven
  <2>4. EmtSteps'
    <3> SUFFICES ASSUME osType = "emt" PROVE EmtSteps'
      BY <1>3 DEF EmtSteps
    <3>1. /\ run.step \in {"emt", "emtkernel", "none"} /\ inProgress \in {"NONE", "OS"}
          /\ main = "serve"
      BY <2>2 DEF StatusInv, EmtSteps
    <3>2. Emt \/ EmtKernel \/ TimedOut \/ Failed
      BY <3>1 DEF SubUpdater, Packages, Self, Inbm, UbuntuKernel, NewPackages, OsAndAgents, Sota,
                  At
    <3>3. inProgress' \in {"NONE", "OS"}
      BY <3>1, <3>2, EndMeta DEF Emt, EmtKernel, TimedOut, Failed, SameMeta, MarkInProgress
    <3>4. run'.step \in {"emt", "emtkernel", "none"}
      <4>1. CASE Return
        BY <4>1 DEF Return, NotRunning
      <4>2. CASE Proceed
        <5>1. StepAfter[run.step] \in {"emtkernel", "none"}
          BY <3>1 DEF StepAfter
        <5>2. QED
          BY <4>1, <4>2, <5>1 DEF Proceed, TypeOK, RunType
      <4>3. ASSUME NEW phase, Goto(phase) PROVE run'.step = run.step
        BY <4>3 DEF Goto, TypeOK, RunType
      <4>4. QED
        BY <1>3, <3>1, <4>1, <4>2, <4>3
    <3>5. main' # "continue"
      BY <2>2, <3>1
    <3>6. QED
      BY <3>3, <3>4, <3>5 DEF EmtSteps
  <2>5. QED
    BY <2>3, <2>4 DEF StatusInv
<1>4. QED
  BY <1>1, <1>2, <1>3

\* Every step keeps what is about to be cleared heard, and a verdict's image recorded.
LEMMA StatusStep == TypeOK /\ LockInv /\ StatusInv /\ [Next]_vars => StatusInv'
<1> SUFFICES ASSUME TypeOK, LockInv, StatusInv, [Next]_vars PROVE StatusInv'
  OBVIOUS
<1> USE DEF StatusInv, ClearHeard, VerdictGiven, EmtSteps
<1>1. CASE Crash \/ Reboot \/ BadBoot
  BY <1>1, EndMeta DEF Crash, Reboot, BadBoot, Boot, ProcessGone, NotRunning
<1>2. CASE InbdVerify \/ Change
  BY <1>2 DEF InbdVerify, Change
<1>3. CASE SubUpdater
  BY <1>3, SubUpdaterStatus
<1>4. CASE JobTrigger \/ JobLock \/ JobUnlock
  BY <1>4 DEF JobTrigger, JobLock, JobUnlock, JobFrame
<1>5. CASE JobStart
  BY <1>5 DEF TypeOK, JobStart, JobFrame, FirstStep
<1>6. CASE TimerFires \/ SetLastDownloaded
  BY <1>6 DEF TimerFires, SetLastDownloaded, DlFrame
<1>7. CASE DownloadEnds
  BY <1>7 DEF DownloadEnds, DlFrame
<1>8. CASE HandleDesired \/ HandleSource \/ HandleNotify
  BY <1>8 DEF HandleDesired, HandleSource, HandleNotify, HandlerFrame, LockInv, QuietUntilServing
<1>9. CASE TickRead \/ TickReply \/ TickFail \/ TickClear
  BY <1>9 DEF TickRead, TickReply, TickFail, TickClear, TickFrame, Reported
<1>10. CASE Start
  BY <1>10 DEF Start, MainFrame, FirstStep
<1>11. CASE MainVerify
  BY <1>11 DEF MainVerify, MainFrame
<1>12. CASE MainActual
  BY <1>12 DEF MainActual, MainFrame
<1>13. CASE MainStatus \/ MainClear
  BY <1>13 DEF MainStatus, MainClear, MainFrame
<1>14. CASE UNCHANGED vars
  BY <1>14 DEF vars
<1>15. QED
  BY <1>1, <1>2, <1>3, <1>4, <1>5, <1>6, <1>7, <1>8, <1>9, <1>10, <1>11, <1>12, <1>13, <1>14
     DEF Next

\* The inductive invariant holds in every behaviour.
THEOREM InvHolds == Spec => []Inv
<1>1. Init => Inv
  <2> SUFFICES ASSUME Init PROVE LockInv /\ StatusInv
    BY InitType DEF Inv
  <2>1. /\ main = "down" /\ job = "idle" /\ run = NotRunning /\ dl = NoImage
        /\ timer = NoImage /\ handler = "idle" /\ tick = "idle" /\ inProgress = "NONE"
    BY DEF Init
  <2>2. QED
    BY <2>1 DEF NotRunning, LockInv, QuietUntilServing, RunHasOwner, LockHeld, StatusInv,
                ClearHeard, VerdictGiven, EmtSteps
<1>2. Inv /\ [Next]_vars => Inv'
  BY StepType, LockStep, StatusStep DEF Inv
<1>3. QED
  BY <1>1, <1>2, PTL DEF Spec

\* A step that turns UPDATED to UP_TO_DATE is the ticker's, after MM heard of it.
LEMMA ClearStep == Inv /\ [Next]_vars =>
                   [status = "UPDATED" /\ status' = "UP_TO_DATE" /\ main' # "down"
                    => known = "UPDATED"]_vars
<1> SUFFICES ASSUME Inv, Next, status = "UPDATED", status' = "UP_TO_DATE", main' # "down"
             PROVE  known = "UPDATED"
  OBVIOUS
<1>1. CASE SubUpdater
  BY <1>1 DEF SubUpdater, Packages, Self, Inbm, UbuntuKernel, NewPackages, OsAndAgents, Sota,
              Emt, EmtKernel, TimedOut, Failed, SameMeta, MarkInProgress, ProcessGone
<1>2. CASE JobTrigger \/ JobLock \/ JobStart \/ JobUnlock
  BY <1>2 DEF JobTrigger, JobLock, JobStart, JobUnlock
<1>3. CASE TimerFires \/ DownloadEnds \/ SetLastDownloaded
  BY <1>3 DEF TimerFires, DownloadEnds, SetLastDownloaded
<1>4. CASE TickRead \/ TickReply \/ TickFail \/ TickClear
  BY <1>4 DEF TickRead, TickReply, TickFail, TickClear, Inv, StatusInv, ClearHeard
<1>5. CASE Start \/ MainVerify \/ MainActual \/ MainStatus \/ MainClear
  BY <1>5 DEF Start, MainVerify, MainActual, MainStatus, MainClear, Inv, StatusInv, VerdictGiven
<1>6. CASE Crash \/ Reboot \/ BadBoot \/ InbdVerify \/ Change
  BY <1>6 DEF Crash, Reboot, BadBoot, Boot, ProcessGone, InbdVerify, Change
<1>7. CASE HandleDesired \/ HandleSource \/ HandleNotify
  BY <1>7 DEF HandleDesired, HandleSource, HandleNotify, HandlerFrame
<1>8. QED
  BY <1>1, <1>2, <1>3, <1>4, <1>5, <1>6, <1>7 DEF Next

\* As long as the process lives an UPDATED status is forgotten only once MM has
\* heard one.
THEOREM ClearIsReported == Spec => ClearedOnlyWhenReported
BY InvHolds, ClearStep, PTL DEF Spec, ClearedOnlyWhenReported

\* On EMT a step of a starting agent that turns STARTED to UPDATED is MainStatus.
LEMMA UpdatedStep == Inv /\ [Next]_vars =>
                     [status' = "UPDATED" /\ status = "STARTED" /\ osType = "emt" /\ main # "serve"
                      => actual' = desired']_vars
<1> SUFFICES ASSUME Inv, Next, status' = "UPDATED", status = "STARTED", osType = "emt",
                    main # "serve"
             PROVE  actual' = desired'
  OBVIOUS
<1>1. CASE SubUpdater
  <2>1. run.by \in {"main", "job"}
    BY <1>1, SubUpdaterRuns DEF Inv, TypeOK, RunType, LockInv, RunHasOwner
  <2>2. QED
    BY <2>1 DEF Inv, LockInv, RunHasOwner, QuietUntilServing, StatusInv, EmtSteps
<1>2. CASE JobTrigger \/ JobLock \/ JobStart \/ JobUnlock
  BY <1>2 DEF JobTrigger, JobLock, JobStart, JobUnlock
<1>3. CASE TimerFires \/ DownloadEnds \/ SetLastDownloaded
  BY <1>3 DEF TimerFires, DownloadEnds, SetLastDownloaded
<1>4. CASE TickRead \/ TickReply \/ TickFail \/ TickClear
  BY <1>4 DEF TickRead, TickReply, TickFail, TickClear
<1>5. CASE Start \/ MainVerify \/ MainActual \/ MainStatus \/ MainClear
  BY <1>5 DEF Start, MainVerify, MainActual, MainStatus, MainClear, MainFrame, Inv, StatusInv,
              VerdictGiven
<1>6. CASE Crash \/ Reboot \/ BadBoot \/ InbdVerify \/ Change
  BY <1>6, EndMeta DEF Inv, Crash, Reboot, BadBoot, Boot, InbdVerify, Change
<1>7. CASE HandleDesired \/ HandleSource \/ HandleNotify
  BY <1>7 DEF HandleDesired, HandleSource, HandleNotify, HandlerFrame
<1>8. QED
  BY <1>1, <1>2, <1>3, <1>4, <1>5, <1>6, <1>7 DEF Next

\* After a reboot UPDATED is never recorded before the image it is about.
THEOREM UpdatedHasItsImage == Spec => UpdatedNamesItsImage
BY InvHolds, UpdatedStep, PTL DEF Spec, UpdatedNamesItsImage
=============================================================================
