------------------------------ MODULE InbdSota ------------------------------
(***************************************************************************)
(* System updates (SOTA): OSUpdater.UpdateOS and what the EMT and Ubuntu   *)
(* factories give it, and the verification that inbd runs when it starts.  *)
(* A request is one call record; its steps are the system calls whose      *)
(* order matters when a reboot, a kill or another request comes between.   *)
(***************************************************************************)
EXTENDS InbdHost

(* What a step of a system update leaves alone.                            *)
KeptButFaults == UNCHANGED <<osVars, daemon, conf, fw, requests>>
Kept == KeptButFaults /\ UNCHANGED faults
NoDisk   == UNCHANGED diskVars
NoFiles  == UNCHANGED sotaVars
NoReboot == UNCHANGED rebooting

Sota(c, pc) == AtStep(c, "sota", pc)

UpdateSystemSoftware(c) ==
    /\ TakesTurns("sota")
    /\ \E mode \in Modes, v \in 1..MaxVersion, p \in BOOLEAN, f \in BOOLEAN :
         /\ os = "emt" => ~p /\ ~f
         /\ Arrive(c, [Idle EXCEPT !.op = "sota", !.mode = mode, !.version = v,
                                   !.pkg = p, !.flag = f],
                   IF os = "emt" /\ mode # "no_download" THEN "download" ELSE "snapshot")

(***************************************************************************)
(* EMT: Downloader.Download.  A repository that is not trusted, a full     *)
(* disk and a failed transfer are logged FAIL; a configuration that cannot *)
(* be read and a disk that cannot be measured are not.  An artifact that   *)
(* is partly transferred stays in the directory.                           *)
(***************************************************************************)
IsDiskSpaceAvailable(c) ==
    \/ artifact' = Torn /\ Goto(c, "transfer") /\ UNCHANGED granular
    \/ Log("FAIL") /\ Answer(c) /\ UNCHANGED artifact
    \/ Answer(c) /\ UNCHANGED <<granular, artifact>>

Download(c) ==
    /\ Sota(c, "download")
    /\ \/ IsTrustedRepository /\ IsDiskSpaceAvailable(c)
       \/ LoadConfig /\ ~conf.trusted /\ Log("FAIL") /\ Answer(c) /\ UNCHANGED artifact
       \/ ~LoadConfig /\ Answer(c) /\ UNCHANGED <<granular, artifact>>
    /\ UNCHANGED <<stateFile, pkg, snaps>> /\ NoDisk /\ NoReboot /\ Kept

DownloadFile(c) ==
    /\ Sota(c, "transfer")
    /\ \/ /\ artifact' \in {call[c].version, Torn}
          /\ Goto(c, "snapshot") /\ UNCHANGED granular
       \/ Log("FAIL") /\ Answer(c) /\ UNCHANGED artifact
    /\ UNCHANGED <<stateFile, pkg, snaps>> /\ NoDisk /\ NoReboot /\ Kept

(***************************************************************************)
(* Snapshot, at two places: in UpdateOS ("snapshot") and again in Update   *)
(* ("again").  EMT truncates the state file and then records the image     *)
(* that runs.  Ubuntu takes a snapper snapshot where the file system can,  *)
(* keeps the package list it finds, removes the file and writes it anew.   *)
(***************************************************************************)
Then(c)  == IF call[c].pc = "again" THEN "again_write" ELSE "write_state"
Remembers(c, n) ==
    call' = [call EXCEPT ![c].pc = Then(c), ![c].snap = n, ![c].kept = stateFile.pkg]

EmtSnapshot(c) ==
    os = "emt" /\ stateFile' = ClearStateFile /\ Goto(c, Then(c)) /\ UNCHANGED snaps

UbuntuSnapshot(c) ==
    /\ os = "ubuntu" /\ stateFile' = NoState
    /\ \/ /\ btrfs /\ Remembers(c, 1 + Len(snaps))
          /\ snaps' = Append(snaps, [version |-> Running, pkg |-> pkg, live |-> TRUE])
       \/ ~btrfs /\ Remembers(c, 0) /\ UNCHANGED snaps

Snapshot(c) ==
    /\ Sota(c, "snapshot") \/ Sota(c, "again")
    /\ EmtSnapshot(c) \/ UbuntuSnapshot(c)
    /\ UNCHANGED <<granular, pkg, artifact>> /\ NoDisk /\ NoReboot /\ Kept

(* A snapshot that fails is logged in Update.  In UpdateOS the update goes *)
(* on without a way back if the configuration can be read and says so.     *)
SnapshotFails(c) ==
    /\ \/ /\ Sota(c, "again") \/ Sota(c, "again_write")
          /\ Log("FAIL") /\ Goto(c, "fail")
       \/ /\ Sota(c, "snapshot") \/ Sota(c, "write_state")
          /\ Goto(c, IF IsProceedWithoutRollback THEN "update" ELSE "fail")
          /\ UNCHANGED granular
    /\ UNCHANGED <<stateFile, pkg, snaps, artifact>> /\ NoDisk /\ NoReboot /\ Kept

WriteToStateFile(c) ==
    /\ \E pc \in {"write_state", "again_write"} : Sota(c, pc)
    /\ stateFile' = [reason |-> "sota", snap |-> call[c].snap, pkg |-> call[c].kept,
                     version |-> IF os = "emt" THEN Running ELSE 0]
    /\ Goto(c, IF call[c].pc = "write_state" THEN "update"
               ELSE IF os = "emt" THEN "arm" ELSE "install")
    /\ UNCHANGED <<granular, pkg, snaps, artifact>> /\ NoDisk /\ NoReboot /\ Kept

(***************************************************************************)
(* EMT: Updater.Update.  Download-only checks the artifact against the     *)
(* signature and writes it to the partition that is not running;           *)
(* no-download snapshots again and sets that partition for the next boot;  *)
(* full does neither and still asks for a reboot.                          *)
(***************************************************************************)
VerifyHash(c) == artifact = call[c].version

(* Mutant of EmtUpdate: the image is applied without a second snapshot.    *)
EmtUpdateAtOnce(c) ==
    /\ os = "emt" /\ Sota(c, "update")
    /\ \/ call[c].mode = "full" /\ Goto(c, "clean") /\ UNCHANGED granular
       \/ call[c].mode = "no_download" /\ Goto(c, "arm") /\ UNCHANGED granular
       \/ /\ call[c].mode = "download_only" /\ VerifyHash(c)
          /\ Goto(c, "write") /\ UNCHANGED granular
       \/ /\ call[c].mode = "download_only" /\ ~VerifyHash(c)
          /\ Goto(c, "fail") /\ Log("FAIL")
    /\ UNCHANGED <<stateFile, pkg, snaps, artifact>> /\ NoDisk /\ NoReboot /\ Kept

EmtUpdate(c) ==
    /\ os = "emt" /\ Sota(c, "update")
    /\ \/ call[c].mode = "full" /\ Goto(c, "clean") /\ UNCHANGED granular
       \/ call[c].mode = "no_download" /\ Goto(c, "again") /\ UNCHANGED granular
       \/ /\ call[c].mode = "download_only" /\ VerifyHash(c)
          /\ Goto(c, "write") /\ UNCHANGED granular
       \/ /\ call[c].mode = "download_only" /\ ~VerifyHash(c)
          /\ Goto(c, "fail") /\ Log("FAIL")
    /\ UNCHANGED <<stateFile, pkg, snaps, artifact>> /\ NoDisk /\ NoReboot /\ Kept

UpdateToolWrite(c) ==
    /\ os = "emt" /\ Sota(c, "write") /\ call[c].mode = "download_only"
    /\ part' = [part EXCEPT ![Other(current)] = Torn]
    /\ Goto(c, "writing")
    /\ UNCHANGED <<current, default, next>> /\ NoFiles /\ NoReboot /\ Kept

UpdateToolWritten(c) ==
    /\ os = "emt" /\ Sota(c, "writing")
    /\ \/ /\ part' = [part EXCEPT ![Other(current)] = Written(artifact)]
          /\ Goto(c, "clean") /\ UNCHANGED granular
       \/ Log("FAIL") /\ Goto(c, "fail") /\ UNCHANGED part
    /\ UNCHANGED <<current, default, next, stateFile, pkg, snaps, artifact>>
    /\ NoReboot /\ Kept

(* Mutant of UpdateToolApply: the new partition becomes the default.       *)
UpdateToolApplyForGood(c) ==
    /\ os = "emt" /\ Sota(c, "arm")
    /\ \/ default' = Other(current) /\ Log("SUCCESS") /\ Goto(c, "clean")
       \/ Log("FAIL") /\ Goto(c, "fail") /\ UNCHANGED default
    /\ UNCHANGED <<part, current, next, stateFile, pkg, snaps, artifact>>
    /\ NoReboot /\ Kept

UpdateToolApply(c) ==
    /\ os = "emt" /\ Sota(c, "arm")
    /\ \/ next' = Other(current) /\ Log("SUCCESS") /\ Goto(c, "clean")
       \/ Log("FAIL") /\ Goto(c, "fail") /\ UNCHANGED next
    /\ UNCHANGED <<part, current, default, stateFile, pkg, snaps, artifact>>
    /\ NoReboot /\ Kept

(***************************************************************************)
(* Ubuntu: Updater.Update.  apt is asked whether there is anything to do;  *)
(* a package that is already there needs no reboot, a system update always *)
(* does.  Only a system update that installs is snapshotted (again).  flag *)
(* is DoNotReboot, and set when there is nothing to reboot for.            *)
(***************************************************************************)
GetEstimatedSize(c) == IF call[c].pkg THEN ~pkg ELSE call[c].version > Running
Refuse(c)    == Log("FAIL") /\ Goto(c, "fail")

UbuntuUpdate(c) ==
    /\ os = "ubuntu" /\ Sota(c, "update")
    /\ \/ Refuse(c)
       \/ /\ GetEstimatedSize(c)
          /\ Goto(c, IF call[c].mode # "download_only" /\ ~call[c].pkg THEN "again" ELSE "install")
          /\ UNCHANGED granular
       \/ /\ ~GetEstimatedSize(c) /\ call[c].pkg /\ call[c].mode = "no_download"
          /\ call' = [call EXCEPT ![c].pc = "package", ![c].flag = TRUE]
          /\ UNCHANGED granular
       \/ /\ ~GetEstimatedSize(c) /\ call[c].pkg /\ call[c].mode # "no_download"
          /\ Log("SUCCESS") /\ Answer(c)
       \/ ~GetEstimatedSize(c) /\ ~call[c].pkg /\ Log("SUCCESS") /\ Goto(c, "clean")
    /\ UNCHANGED <<stateFile, pkg, snaps, artifact>> /\ NoDisk /\ NoReboot /\ Kept

(* The apt and dpkg commands.  downloadOnly installs nothing; fullInstall  *)
(* hands the package names over as a command of their own, which no shell  *)
(* finds.  A command that fails may have changed the system.               *)
Installs(c)     == call[c].mode # "download_only"
NotFound(c)     == call[c].pkg /\ call[c].mode = "full"
Upgraded(c)     == IF Installs(c) /\ ~call[c].pkg
                     THEN [part EXCEPT ![current] = call[c].version] ELSE part
NowInstalled(c) == pkg \/ (call[c].pkg /\ call[c].mode = "no_download")
LogAfter(status) == granular' = [status |-> status, version |-> part'[current]]

RunCommands(c) ==
    /\ os = "ubuntu" /\ Sota(c, "install")
    /\ \/ /\ ~NotFound(c) /\ part' = Upgraded(c) /\ pkg' = NowInstalled(c)
          /\ IF call[c].mode = "no_download" /\ call[c].pkg
               THEN Goto(c, "package") /\ UNCHANGED granular
               ELSE Goto(c, "clean") /\ LogAfter("SUCCESS")
       \/ /\ part' \in {part, Upgraded(c)} /\ pkg' \in {pkg, NowInstalled(c)}
          /\ LogAfter("FAIL") /\ Goto(c, "fail")
    /\ UNCHANGED <<current, default, next, stateFile, snaps, artifact>>
    /\ NoReboot /\ Kept

(* writeStateFileForPackageInstallation: what is known of a snapshot is    *)
(* kept, the file removed and written anew.                                *)
PackageState(c) ==
    /\ Sota(c, "package")
    /\ call' = [call EXCEPT ![c].pc = "write_package", ![c].snap = stateFile.snap]
    /\ stateFile' = NoState
    /\ UNCHANGED <<granular, pkg, snaps, artifact>> /\ NoDisk /\ NoReboot /\ Kept

WritePackageState(c) ==
    /\ Sota(c, "write_package")
    /\ stateFile' = [reason |-> IF call[c].snap > 0 THEN "sota" ELSE "package",
                     version |-> 0, snap |-> call[c].snap, pkg |-> TRUE]
    /\ Log("SUCCESS")
    /\ Goto(c, "clean")
    /\ UNCHANGED <<pkg, snaps, artifact>> /\ NoDisk /\ NoReboot /\ Kept

(***************************************************************************)
(* The end of UpdateOS: the artifacts are deleted (Ubuntu has none), after *)
(* a failure too, and the node reboots unless this was a download.         *)
(***************************************************************************)
Clean(c) ==
    /\ \E pc \in {"clean", "fail"} : Sota(c, pc)
    /\ artifact' = IF os = "emt" THEN NoFile ELSE artifact
    /\ IF call[c].pc = "clean" /\ call[c].mode # "download_only"
         THEN Goto(c, "reboot") ELSE Answer(c)
    /\ UNCHANGED <<stateFile, granular, pkg, snaps>> /\ NoDisk /\ NoReboot /\ Kept

RebootAfterUpdate(c) ==
    /\ Sota(c, "reboot")
    /\ \/ ~call[c].flag /\ RebootSystem /\ UNCHANGED <<granular, faults>>
       \/ call[c].flag /\ NoReboot /\ UNCHANGED <<granular, faults>>
       \/ /\ ~call[c].flag /\ Fault("reboot")
          /\ NoReboot
          /\ IF os = "emt" THEN Log("FAIL") ELSE UNCHANGED granular
    /\ Answer(c)
    /\ UNCHANGED <<stateFile, pkg, snaps, artifact>> /\ NoDisk /\ KeptButFaults

SotaStep(c) ==
    \/ UpdateSystemSoftware(c)
    \/ Download(c) \/ DownloadFile(c)
    \/ Snapshot(c) \/ SnapshotFails(c) \/ WriteToStateFile(c)
    \/ EmtUpdate(c) \/ UpdateToolWrite(c) \/ UpdateToolWritten(c) \/ UpdateToolApply(c)
    \/ UbuntuUpdate(c) \/ RunCommands(c) \/ PackageState(c) \/ WritePackageState(c)
    \/ Clean(c) \/ RebootAfterUpdate(c)
=============================================================================
