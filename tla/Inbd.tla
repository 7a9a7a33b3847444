-------------------------------- MODULE Inbd --------------------------------
(***************************************************************************)
(* inbd on a node: the server's start with the verification of the last    *)
(* update, the requests it serves at the same time (system updates,        *)
(* firmware updates, configuration, power), and what happens to the        *)
(* process and the machine meanwhile.                                      *)
(***************************************************************************)
EXTENDS InbdSota, InbdFirmware, InbdConfig

MachineTypeOK ==
    /\ os \in OSs /\ btrfs \in BOOLEAN /\ faulty \subseteq 1..MaxVersion
    /\ rebooting \in BOOLEAN
    /\ daemon \in {"down", "verify", "commit", "committed", "revert", "network", "undo",
                   "delete", "success", "config", "serving", "dead"}
DiskTypeOK ==
    /\ part \in [Partitions -> Contents]
    /\ current \in Partitions /\ default \in Partitions /\ next \in Partitions \cup {"none"}
CallTypeOK == call \in [Calls -> Requests]
FileTypeOK ==
    /\ stateFile \in INBDState
    /\ granular \in [status : {"none", "SUCCESS", "FAIL"}, version : Contents]
    /\ pkg \in BOOLEAN /\ snaps \in Seq(SnapshotRecords)
    /\ artifact \in Contents \cup {NoFile}
    /\ conf \in Configurations /\ fw \in FirmwareState
CountTypeOK ==
    /\ requests \in [sota : 0..MaxSota, other : 0..MaxOthers[os]]
    /\ faults \subseteq Faults

(* Every variable holds a value the code could give it: no file, partition *)
(* or log gets a version that was never on offer, no request is counted    *)
(* beyond the bounds of the model (InbdHost's declarations).               *)
TypeOK == MachineTypeOK /\ DiskTypeOK /\ CallTypeOK /\ FileTypeOK /\ CountTypeOK

Init ==
    /\ os \in OSs /\ btrfs \in (IF os = "emt" THEN {FALSE} ELSE BOOLEAN)
    /\ faulty \in SUBSET (1..MaxVersion)
    /\ part = [p \in Partitions |-> 0]
    /\ current = "a" /\ default = "a" /\ next = "none" /\ rebooting = FALSE
    /\ daemon = "down" /\ call = [c \in Calls |-> Idle]
    /\ stateFile = NoState
    /\ granular = [status |-> "none", version |-> 0]
    /\ pkg = FALSE /\ snaps = << >> /\ artifact = NoFile
    /\ conf \in {DefaultConf, [DefaultConf EXCEPT !.proceed = TRUE]}
    /\ \E v \in Versions : fw = [flashed |-> v, running |-> v, file |-> NoFile]
    /\ requests = [sota |-> 0, other |-> 0] /\ faults = {}

-----------------------------------------------------------------------------
(***************************************************************************)
(* The server starts: it makes its socket, verifies the update before this *)
(* start, checks its configuration, and serves.  An error ends the         *)
(* process.                                                                *)
(***************************************************************************)
Starts(from, to) == daemon = from /\ daemon' = to
StartKeepsButFaults == UNCHANGED <<osVars, part, current, next, call, conf, fw, requests>>
StartKeeps == StartKeepsButFaults /\ UNCHANGED faults
NoVerdict  == UNCHANGED <<default, rebooting, sotaVars>>

(* Mutant of RunServer: the last update is not verified.                   *)
RunServerUnverified == Starts("down", "config") /\ NoVerdict /\ StartKeeps

RunServer == Starts("down", "verify") /\ NoVerdict /\ StartKeeps

NothingToVerify ==
    /\ stateFile.reason \in {"absent", "empty"}
    /\ Starts("verify", "config") /\ NoVerdict /\ StartKeeps

(* EMT: the state file goes before the versions are compared.  That the    *)
(* running version cannot be read ends the start, like a Kill at "verify". *)
(* Mutant of EmtVerify: the state file is not removed.                     *)
EmtVerifyKeepsState ==
    /\ os = "emt" /\ stateFile.reason \notin {"absent", "empty"}
    /\ Starts("verify", IF Running # stateFile.version THEN "commit" ELSE "revert")
    /\ UNCHANGED <<default, rebooting, sotaVars>> /\ StartKeeps

EmtVerify ==
    /\ os = "emt" /\ stateFile.reason \notin {"absent", "empty"}
    /\ Starts("verify", IF Running # stateFile.version THEN "commit" ELSE "revert")
    /\ stateFile' = NoState
    /\ UNCHANGED <<default, rebooting, granular, pkg, snaps, artifact>> /\ StartKeeps

(* Mutant of CommitUpdate: the commit command is not executed.             *)
CommitUpdateForgotten ==
    /\ \/ Starts("commit", "committed") /\ UNCHANGED <<default, granular, faults>>
       \/ Starts("commit", "down") /\ Fault("commit") /\ Log("FAIL") /\ UNCHANGED default
    /\ UNCHANGED <<rebooting, stateFile, pkg, snaps, artifact>> /\ StartKeepsButFaults

CommitUpdate ==
    /\ \/ Starts("commit", "committed") /\ default' = current /\ UNCHANGED <<granular, faults>>
       \/ Starts("commit", "down") /\ Fault("commit") /\ Log("FAIL") /\ UNCHANGED default
    /\ UNCHANGED <<rebooting, stateFile, pkg, snaps, artifact>> /\ StartKeepsButFaults

EmtVerdict ==
    /\ \/ Starts("committed", "config") /\ Log("SUCCESS") /\ UNCHANGED <<rebooting, faults>>
       \/ Starts("revert", "config") /\ Log("FAIL") /\ RebootSystem /\ UNCHANGED faults
       \/ Starts("revert", "down") /\ Log("FAIL") /\ Fault("reboot") /\ UNCHANGED rebooting
    /\ UNCHANGED <<default, stateFile, pkg, snaps, artifact>> /\ StartKeepsButFaults

(***************************************************************************)
(* Ubuntu: the packages of the list must be there; a package list without  *)
(* a snapshot ends the verification.  Then the network must be up, or the  *)
(* snapshot is restored, deleted and the node rebooted, and the verifier   *)
(* returns as after a success: its caller logs one.  The state file is     *)
(* taken not to be part of what the snapshot restores.  A snapshot that    *)
(* cannot be deleted ends the start, like a Kill at "delete".              *)
(***************************************************************************)
VerifyPackages ==
    /\ os = "ubuntu" /\ stateFile.reason \notin {"absent", "empty"}
    /\ \/ stateFile.pkg /\ ~pkg /\ Starts("verify", "down") /\ Log("FAIL") /\ UNCHANGED stateFile
       \/ /\ stateFile.pkg /\ pkg /\ Log("SUCCESS")
          /\ IF stateFile.snap = 0
               THEN Starts("verify", "success") /\ stateFile' = NoState
               ELSE Starts("verify", "network") /\ UNCHANGED stateFile
       \/ ~stateFile.pkg /\ Starts("verify", "network") /\ UNCHANGED <<granular, stateFile>>
    /\ UNCHANGED <<default, rebooting, pkg, snaps, artifact>> /\ StartKeeps

Online == Running \notin faulty

CheckNetworkConnection ==
    /\ \/ ~Online /\ Starts("network", "undo") /\ UNCHANGED <<granular, stateFile>>
       \/ Online /\ Starts("network", "success") /\ Log("SUCCESS") /\ stateFile' = NoState
    /\ UNCHANGED <<default, rebooting, pkg, snaps, artifact>> /\ StartKeeps

UndoChange ==
    /\ LET n == stateFile.snap IN
         \/ /\ os = "ubuntu" /\ n \in DOMAIN snaps /\ snaps[n].live
            /\ Starts("undo", "delete")
            /\ part' = [part EXCEPT ![current] = snaps[n].version]
            /\ pkg' = snaps[n].pkg
         \/ /\ n = 0 /\ Starts("undo", "delete") /\ UNCHANGED <<part, pkg>>
         \/ /\ n # 0 /\ Starts("undo", "down") /\ UNCHANGED <<part, pkg>>
    /\ UNCHANGED <<osVars, current, default, next, rebooting, call, stateFile, granular,
                   snaps, artifact, conf, fw, envVars>>

DeleteAndReboot ==
    /\ LET n == stateFile.snap IN
         snaps' = IF n \in DOMAIN snaps THEN [snaps EXCEPT ![n].live = FALSE] ELSE snaps
    /\ \/ Starts("delete", "success") /\ RebootSystem /\ UNCHANGED faults
       \/ Starts("delete", "down") /\ Fault("reboot") /\ UNCHANGED rebooting
    /\ UNCHANGED <<default, stateFile, granular, pkg, artifact>> /\ StartKeepsButFaults

UbuntuVerdict ==
    /\ Starts("success", "config") /\ Log("SUCCESS")
    /\ UNCHANGED <<default, rebooting, stateFile, pkg, snaps, artifact>> /\ StartKeeps

CheckConfig ==
    /\ Starts("config", IF conf.file = "ok" THEN "serving" ELSE "down")
    /\ NoVerdict /\ StartKeeps

ServerStep ==
    \/ RunServer \/ NothingToVerify \/ CheckConfig
    \/ EmtVerify \/ CommitUpdate \/ EmtVerdict
    \/ VerifyPackages \/ CheckNetworkConnection \/ UndoChange \/ DeleteAndReboot
    \/ UbuntuVerdict

Next ==
    \/ ServerStep
    \/ \E c \in Calls : SotaStep(c) \/ FirmwareStep(c) \/ ConfigStep(c)
    \/ Reboot \/ PowerLoss \/ Kill

Fairness == WF_vars(ServerStep) /\ WF_vars(Reboot)
Spec == Init /\ [][Next]_vars /\ Fairness

-----------------------------------------------------------------------------
(***************************************************************************)
(* What a system update leaves on the node.                                *)
(***************************************************************************)
Rewriting == \E c \in Calls : call[c].pc \in {"write_state", "again_write"}

(* EMT: while an image waits to be booted, the state file names the image  *)
(* it is to be compared with, so that the verification after the boot will *)
(* judge it.  Snapshot, the update tool and another update's Snapshot each *)
(* write one of the two (emt/snapshot.go:57, emt/update.go:100).           *)
ArmedIsRecorded ==
    os = "emt" /\ next # "none" /\ ~Rewriting /\ faults \subseteq {"power"} =>
        stateFile.reason = "sota" /\ stateFile.version = Running

(* The node can always be started: no sequence of downloads, losses of     *)
(* power and failed boots leaves half an image on the partition that the   *)
(* boot manager falls back to, unless inbd was killed, a commit or a       *)
(* reboot failed, or updates overlapped, while an image was on trial       *)
(* (emt/post_reboot_verifier.go:23, emt/update.go:52).                     *)
NodeStarts == faults \subseteq {"power"} => daemon # "dead"

(* inbd serves requests only on an image that has been committed: RunServer*)
(* verifies the last update before it serves (inbd/server.go:80), and an   *)
(* image that runs without being the default one has slipped through.      *)
ServedImageIsKept ==
    daemon = "serving" /\ ~rebooting /\ faults \subseteq {"power"} => current = default

(* The firmware that runs never becomes an older one, although the release *)
(* date is checked against the BIOS that runs, the flash is written later, *)
(* and the new BIOS runs only after a reboot (fw_updater.go:112).          *)
FirmwareNeverOlder ==
    [][fw'.running # Torn => fw'.running >= fw.running]_vars

(* "If the versions are different, it commits the update; otherwise, it    *)
(* reverts to the previous image" (emt/post_reboot_verifier.go:20-22): a   *)
(* verification that finds its versions equal reboots, and that reboot     *)
(* must not start the image it has just refused.                           *)
RevertReverts ==
    [][daemon = "revert" /\ rebooting' => next = "none"]_vars

(* The image update, seen without files, logs and requests, is TrialBoot:  *)
(* a new image runs on trial first, and only a trial is ever kept.         *)
Trial == INSTANCE TrialBoot
           WITH Images <- Versions, Junk <- {Torn}, kept <- part[default],
                running <- Running, trial <- current # default
TrialsAreJudged == Trial!Spec

(* inbd ends up serving, with no reboot pending, however the last update   *)
(* ended.  It does not if its configuration is broken, a listed package is *)
(* missing (the verifier then fails at every start and keeps its state     *)
(* file), the system has lost its network, or the node does not start.     *)
Stuck == conf.file # "ok" \/ (stateFile.pkg /\ ~pkg) \/ ~Online \/ daemon = "dead"
Settles == <>[](Stuck \/ (daemon = "serving" /\ ~rebooting))
=============================================================================
