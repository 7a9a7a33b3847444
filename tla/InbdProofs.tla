----------------------------- MODULE InbdProofs -----------------------------
(***************************************************************************)
(* Proofs about Inbd: its types, that it implements TrialBoot, and the     *)
(* safety of firmware and system updates.                                  *)
(*                                                                         *)
(* The typing is shown part by part (requests, files, disk, machine and    *)
(* counters), each with one lemma for the steps of system updates, one for *)
(* firmware, one for configuration and one for the server's start. The     *)
(* refinement needs one more invariant, UbuntuDisk, because an Ubuntu node *)
(* writes the partition it runs from; the rest is one lemma for each kind  *)
(* of step that touches the disk.                                          *)
(*                                                                         *)
(* The safety of updates rests on frames: how a step moves the requests    *)
(* (SotaCallsMove), which steps are nothing to a system update (Quiet),    *)
(* and the five kinds of steps of an EMT update (EmtSota). FirmwareInv is  *)
(* inductive by itself; UpdateInv is the conjunction of what one start,    *)
(* one armed partition and one log entry say of each other, each shown by  *)
(* a lemma with a case for every kind of step.                             *)
(*                                                                         *)
(* Records with Boolean fields are first shown well-formed for every value *)
(* of the field, and then for the one in question.                         *)
(***************************************************************************)
EXTENDS InbdVerdicts, TLAPS

LEMMA MaxVersionNat == MaxVersion \in Nat /\ OSs \subseteq {"emt", "ubuntu"}
BY Zenon, InbdAssumption DEF InbdAssumption

LEMMA TrueFalse == TRUE \in BOOLEAN /\ FALSE \in BOOLEAN
OBVIOUS

LEMMA DefaultTyped == DefaultConf \in Configurations
BY Zenon DEF DefaultConf, Configurations

LEMMA IdleIsRequest == Idle \in Requests
<1>1. DefaultConf \in Configurations
  BY Zenon DEF DefaultConf, Configurations
<1>2. 0 \in Versions /\ 0 \in Nat
  BY MaxVersionNat DEF Versions
<1>3. "full" \in Modes \cup Commands
  BY DEF Modes
<1>4. "done" \in Steps
  BY DEF Steps
<1>5. \A p \in BOOLEAN, f \in BOOLEAN, k \in BOOLEAN :
         [op |-> "none", pc |-> "done", mode |-> "full", version |-> 0, pkg |-> p,
          flag |-> f, snap |-> 0, kept |-> k, buf |-> DefaultConf] \in Requests
  BY <1>1, <1>2, <1>3, <1>4 DEF Requests
<1>6. FALSE \in BOOLEAN
  OBVIOUS
<1>7. QED
  BY <1>5, <1>6, Zenon DEF Idle

(* The ways a request record changes keep it a request record.             *)
LEMMA GotoTyped ==
  ASSUME CallTypeOK, NEW c \in Calls, NEW pc \in Steps, Goto(c, pc)
  PROVE  CallTypeOK'
BY DEF CallTypeOK, Goto, Requests

LEMMA AnswerTyped ==
  ASSUME CallTypeOK, NEW c \in Calls, Answer(c)
  PROVE  CallTypeOK'
BY IdleIsRequest DEF CallTypeOK, Answer

LEMMA ArriveTyped ==
  ASSUME CallTypeOK, NEW c \in Calls, NEW request \in Requests, NEW step \in Steps,
         Arrive(c, request, step)
  PROVE  CallTypeOK'
BY DEF CallTypeOK, Arrive, Requests

(* Flags, snapshot numbers and configurations that a request remembers.    *)
LEMMA FlagTyped ==
  ASSUME CallTypeOK, NEW c \in Calls, NEW pc \in Steps, NEW f \in BOOLEAN,
         call' = [call EXCEPT ![c].pc = pc, ![c].flag = f]
  PROVE  CallTypeOK'
<1> DEFINE first == [call EXCEPT ![c].pc = pc]
<1>1. first \in [Calls -> Requests]
  BY DEF CallTypeOK, Requests
<1>2. call' = [first EXCEPT ![c].flag = f]
  OBVIOUS
<1>3. \A r \in Requests : [r EXCEPT !.flag = f] \in Requests
  BY DEF Requests
<1> HIDE DEF first
<1>4. [first EXCEPT ![c].flag = f] \in [Calls -> Requests]
  BY <1>1, <1>3
<1>5. QED
  BY <1>2, <1>4, Zenon DEF CallTypeOK

LEMMA SnapTyped ==
  ASSUME CallTypeOK, NEW c \in Calls, NEW pc \in Steps, NEW n \in Nat,
         call' = [call EXCEPT ![c].pc = pc, ![c].snap = n]
  PROVE  CallTypeOK'
<1> DEFINE first == [call EXCEPT ![c].pc = pc]
<1>1. first \in [Calls -> Requests]
  BY DEF CallTypeOK, Requests
<1>2. call' = [first EXCEPT ![c].snap = n]
  OBVIOUS
<1>3. \A r \in Requests : [r EXCEPT !.snap = n] \in Requests
  BY DEF Requests
<1> HIDE DEF first
<1>4. [first EXCEPT ![c].snap = n] \in [Calls -> Requests]
  BY <1>1, <1>3
<1>5. QED
  BY <1>2, <1>4, Zenon DEF CallTypeOK

LEMMA KeptTyped ==
  ASSUME CallTypeOK, NEW c \in Calls, NEW pc \in Steps, NEW n \in Nat, NEW k \in BOOLEAN,
         call' = [call EXCEPT ![c].pc = pc, ![c].snap = n, ![c].kept = k]
  PROVE  CallTypeOK'
<1> DEFINE first == [call EXCEPT ![c].pc = pc]
           second == [first EXCEPT ![c].snap = n]
<1>1. first \in [Calls -> Requests]
  BY DEF CallTypeOK, Requests
<1>2. call' = [second EXCEPT ![c].kept = k]
  OBVIOUS
<1>3. \A r \in Requests : [r EXCEPT !.snap = n] \in Requests /\ [r EXCEPT !.kept = k] \in Requests
  BY DEF Requests
<1> HIDE DEF first
<1>4. second \in [Calls -> Requests]
  BY <1>1, <1>3
<1> HIDE DEF second
<1>5. [second EXCEPT ![c].kept = k] \in [Calls -> Requests]
  BY <1>3, <1>4
<1>6. QED
  BY <1>2, <1>5, Zenon DEF CallTypeOK

LEMMA BufTyped ==
  ASSUME CallTypeOK, NEW c \in Calls, NEW pc \in Steps, NEW b \in Configurations,
         call' = [call EXCEPT ![c].pc = pc, ![c].buf = b]
  PROVE  CallTypeOK'
BY DEF CallTypeOK, Requests

LEMMA GoneTyped == ASSUME ProcessGone PROVE CallTypeOK'
<1>1. Idle \in Requests /\ call' = [c \in Calls |-> Idle]
  BY Zenon, IdleIsRequest DEF ProcessGone
<1>2. call' \in [Calls -> Requests]
  BY <1>1
<1>3. QED
  BY <1>2, Zenon DEF CallTypeOK

LEMMA SameTyped == ASSUME CallTypeOK, UNCHANGED call PROVE CallTypeOK'
BY DEF CallTypeOK

(***************************************************************************)
(* Every step keeps the requests well-formed.                              *)
(***************************************************************************)
LEMMA SotaCallStep ==
  ASSUME CallTypeOK, FileTypeOK, NEW c \in Calls, SotaStep(c)
  PROVE  CallTypeOK'
<1> USE DEF Steps
<1>1. CASE UpdateSystemSoftware(c)
  <2>1. PICK mode \in Modes, v \in 1..MaxVersion, p \in BOOLEAN, f \in BOOLEAN :
          Arrive(c, [Idle EXCEPT !.op = "sota", !.mode = mode, !.version = v,
                                 !.pkg = p, !.flag = f],
                 IF os = "emt" /\ mode # "no_download" THEN "download" ELSE "snapshot")
    BY <1>1 DEF UpdateSystemSoftware
  <2>2. [Idle EXCEPT !.op = "sota", !.mode = mode, !.version = v,
                     !.pkg = p, !.flag = f] \in Requests
    <3>1. v \in Versions
      BY MaxVersionNat DEF Versions
    <3>2. QED
      BY <3>1, IdleIsRequest DEF Requests
  <2>3. QED
    BY <2>1, <2>2, ArriveTyped
<1>2. CASE Download(c)
  BY <1>2, GotoTyped, AnswerTyped DEF Download, IsDiskSpaceAvailable
<1>3. CASE DownloadFile(c)
  BY <1>3, GotoTyped, AnswerTyped DEF DownloadFile
<1>4. CASE Snapshot(c)
  <2>1. Then(c) \in Steps
    BY DEF Then
  <2>2. stateFile.pkg \in BOOLEAN /\ 0 \in Nat /\ 1 + Len(snaps) \in Nat
    <3>1. stateFile \in INBDState /\ snaps \in Seq(SnapshotRecords)
      BY Zenon DEF FileTypeOK
    <3>2. stateFile.pkg \in BOOLEAN
      BY <3>1 DEF INBDState
    <3>3. Len(snaps) \in Nat
      BY <3>1
    <3>4. QED
      BY <3>2, <3>3
  <2>3. CASE EmtSnapshot(c)
    BY <2>1, <2>3, GotoTyped DEF EmtSnapshot
  <2>4. CASE UbuntuSnapshot(c)
    <3>1. PICK n \in Nat : Remembers(c, n)
      BY <2>2, <2>4, Zenon DEF UbuntuSnapshot
    <3>2. call' = [call EXCEPT ![c].pc = Then(c), ![c].snap = n, ![c].kept = stateFile.pkg]
      BY <3>1, Zenon DEF Remembers
    <3>3. QED
      BY <2>1, <2>2, <3>2, KeptTyped, Zenon
  <2>5. QED
    BY <1>4, <2>3, <2>4 DEF Snapshot
<1>5. CASE SnapshotFails(c)
  BY <1>5, GotoTyped DEF SnapshotFails
<1>6. CASE WriteToStateFile(c)
  BY <1>6, GotoTyped DEF WriteToStateFile
<1>7. CASE EmtUpdate(c)
  BY <1>7, GotoTyped DEF EmtUpdate
<1>8. CASE UpdateToolWrite(c)
  BY <1>8, GotoTyped DEF UpdateToolWrite
<1>9. CASE UpdateToolWritten(c)
  BY <1>9, GotoTyped DEF UpdateToolWritten
<1>10. CASE UpdateToolApply(c)
  BY <1>10, GotoTyped DEF UpdateToolApply
<1>11. CASE UbuntuUpdate(c)
  BY <1>11, GotoTyped, AnswerTyped, FlagTyped DEF UbuntuUpdate, Refuse
<1>12. CASE RunCommands(c)
  BY <1>12, GotoTyped DEF RunCommands
<1>13. CASE PackageState(c)
  BY <1>13, SnapTyped DEF PackageState, FileTypeOK, INBDState
<1>14. CASE WritePackageState(c)
  BY <1>14, GotoTyped DEF WritePackageState
<1>15. CASE Clean(c)
  BY <1>15, GotoTyped, AnswerTyped DEF Clean
<1>16. CASE RebootAfterUpdate(c)
  BY <1>16, AnswerTyped DEF RebootAfterUpdate
<1>17. QED
  BY <1>1, <1>2, <1>3, <1>4, <1>5, <1>6, <1>7, <1>8, <1>9, <1>10, <1>11, <1>12, <1>13,
     <1>14, <1>15, <1>16 DEF SotaStep

LEMMA FirmwareCallStep ==
  ASSUME CallTypeOK, NEW c \in Calls, FirmwareStep(c)
  PROVE  CallTypeOK'
<1> USE DEF Steps
<1>1. CASE UpdateFirmware(c)
  <2>1. PICK v \in Versions, f \in BOOLEAN :
          Arrive(c, [Idle EXCEPT !.op = "fota", !.version = v, !.flag = f], "check")
    BY <1>1 DEF UpdateFirmware
  <2>2. [Idle EXCEPT !.op = "fota", !.version = v, !.flag = f] \in Requests
    BY IdleIsRequest DEF Requests
  <2>3. QED
    BY <2>1, <2>2, ArriveTyped
<1>2. CASE CheckFirmware(c)
  BY <1>2, GotoTyped, AnswerTyped DEF CheckFirmware
<1>3. CASE DownloadFirmware(c)
  BY <1>3, GotoTyped, AnswerTyped DEF DownloadFirmware
<1>4. CASE TransferFirmware(c)
  BY <1>4, GotoTyped, AnswerTyped DEF TransferFirmware
<1>5. CASE VerifySignature(c)
  BY <1>5, GotoTyped, AnswerTyped DEF VerifySignature
<1>6. CASE ExtractFileInfo(c)
  BY <1>6, GotoTyped, AnswerTyped DEF ExtractFileInfo
<1>7. CASE ApplyFirmware(c)
  BY <1>7, GotoTyped DEF ApplyFirmware
<1>8. CASE ToolDone(c)
  BY <1>8, GotoTyped DEF ToolDone
<1>9. CASE DeleteFiles(c)
  BY <1>9, GotoTyped, AnswerTyped DEF DeleteFiles
<1>10. CASE RebootAfterFlash(c)
  BY <1>10, AnswerTyped DEF RebootAfterFlash
<1>11. CASE SetPowerState(c)
  BY <1>11, SameTyped DEF SetPowerState
<1>12. QED
  BY <1>1, <1>2, <1>3, <1>4, <1>5, <1>6, <1>7, <1>8, <1>9, <1>10, <1>11 DEF FirmwareStep

LEMMA ConfigCallStep ==
  ASSUME CallTypeOK, FileTypeOK, NEW c \in Calls, ConfigStep(c)
  PROVE  CallTypeOK'
<1> USE DEF Steps
<1>1. CASE ConfigCommand(c)
  <2>1. PICK command \in Commands, f \in BOOLEAN :
          Arrive(c, [Idle EXCEPT !.op = "config", !.mode = command, !.flag = f], "read")
    BY <1>1 DEF ConfigCommand
  <2>2. [Idle EXCEPT !.op = "config", !.mode = command, !.flag = f] \in Requests
    BY IdleIsRequest DEF Requests
  <2>3. QED
    BY <2>1, <2>2, ArriveTyped
<1>2. CASE ReadConfig(c)
  <2>1. conf \in Configurations
    BY Zenon DEF FileTypeOK
  <2>2. QED
    BY <1>2, <2>1, GotoTyped, AnswerTyped, BufTyped DEF ReadConfig
<1>3. CASE OpenConfig(c)
  BY <1>3, GotoTyped DEF OpenConfig
<1>4. CASE WriteConfig(c)
  BY <1>4, AnswerTyped DEF WriteConfig
<1>5. QED
  BY <1>1, <1>2, <1>3, <1>4 DEF ConfigStep

LEMMA ServerCallStep ==
  ASSUME CallTypeOK, ServerStep PROVE CallTypeOK'
<1>1. UNCHANGED call
  BY Zenon DEF ServerStep, RunServer, NothingToVerify, EmtVerify, CommitUpdate, EmtVerdict,
     VerifyPackages, CheckNetworkConnection, UndoChange, DeleteAndReboot, UbuntuVerdict,
     CheckConfig, StartKeeps, StartKeepsButFaults
<1>2. QED
  BY <1>1, SameTyped

LEMMA CallStep ==
  ASSUME CallTypeOK, FileTypeOK, [Next]_vars PROVE CallTypeOK'
<1>1. CASE ServerStep
  BY <1>1, ServerCallStep
<1>2. ASSUME NEW c \in Calls, SotaStep(c) \/ FirmwareStep(c) \/ ConfigStep(c)
      PROVE  CallTypeOK'
  BY <1>2, SotaCallStep, FirmwareCallStep, ConfigCallStep
<1>3. CASE Reboot \/ PowerLoss \/ Kill
  BY <1>3, GoneTyped, Zenon DEF Reboot, PowerLoss, Kill, Boot
<1>4. CASE UNCHANGED vars
  BY <1>4, SameTyped, Zenon DEF vars
<1>5. QED
  BY <1>1, <1>2, <1>3, <1>4, Zenon DEF Next

(***************************************************************************)
(* Every step keeps the files well-formed.                                 *)
(***************************************************************************)
LEMMA LogTyped ==
  ASSUME DiskTypeOK, NEW status \in {"none", "SUCCESS", "FAIL"}, Log(status)
  PROVE  granular' \in [status : {"none", "SUCCESS", "FAIL"}, version : Contents]
BY DEF DiskTypeOK, Log, Running

RecordsOK ==
    /\ stateFile \in INBDState
    /\ granular \in [status : {"none", "SUCCESS", "FAIL"}, version : Contents]
    /\ snaps \in Seq(SnapshotRecords)
    /\ artifact \in Contents \cup {NoFile}

LEMMA RunningTyped == ASSUME DiskTypeOK PROVE Running \in Contents
BY DEF DiskTypeOK, Running

LEMMA UpgradedTyped ==
  ASSUME DiskTypeOK, CallTypeOK, NEW c \in Calls
  PROVE  Upgraded(c) \in [Partitions -> Contents]
BY DEF DiskTypeOK, CallTypeOK, Requests, Upgraded, Contents

LEMMA StateIsTyped ==
  ASSUME NEW reason \in {"absent", "empty", "sota", "package"}, NEW v \in Contents,
         NEW n \in Nat, NEW p \in BOOLEAN
  PROVE  [reason |-> reason, version |-> v, snap |-> n, pkg |-> p] \in INBDState
BY DEF INBDState

LEMMA NoStateTyped == NoState \in INBDState /\ ClearStateFile \in INBDState
<1>1. 0 \in Contents /\ 0 \in Nat
  BY MaxVersionNat DEF Contents, Versions
<1>2. \A p \in BOOLEAN :
         [reason |-> "absent", version |-> 0, snap |-> 0, pkg |-> p] \in INBDState
  BY <1>1, StateIsTyped
<1>3. FALSE \in BOOLEAN
  OBVIOUS
<1>4. NoState \in INBDState
  BY <1>2, <1>3, Zenon DEF NoState
<1>5. [NoState EXCEPT !.reason = "empty"] \in INBDState
  BY <1>4 DEF INBDState
<1>6. QED
  BY <1>4, <1>5, Zenon DEF ClearStateFile

LEMMA SotaRecordsStep ==
  ASSUME DiskTypeOK, CallTypeOK, FileTypeOK, NEW c \in Calls, SotaStep(c)
  PROVE  RecordsOK'
<1> USE DEF RecordsOK
<1>0. RecordsOK /\ NoState \in INBDState /\ ClearStateFile \in INBDState
  BY NoStateTyped, Zenon DEF FileTypeOK
<1>1. CASE UpdateSystemSoftware(c)
  BY <1>0, <1>1, Zenon DEF UpdateSystemSoftware, Arrive, sotaVars
<1>2. CASE Download(c)
  BY <1>0, <1>2, LogTyped DEF Download, IsDiskSpaceAvailable, Contents
<1>3. CASE DownloadFile(c)
  BY <1>0, <1>3, LogTyped DEF DownloadFile, Contents, CallTypeOK, Requests
<1>4. CASE Snapshot(c)
  <2>1. [version |-> Running, pkg |-> pkg, live |-> TRUE] \in SnapshotRecords
    <3>1. Running \in Contents /\ pkg \in BOOLEAN /\ TRUE \in BOOLEAN
      BY Zenon, RunningTyped DEF FileTypeOK
    <3>2. \A v \in Contents, p \in BOOLEAN, l \in BOOLEAN :
            [version |-> v, pkg |-> p, live |-> l] \in SnapshotRecords
      BY DEF SnapshotRecords
    <3>3. QED
      BY <3>1, <3>2, Zenon
  <2>2. CASE EmtSnapshot(c)
    BY <1>0, <1>4, <2>2, Zenon DEF Snapshot, EmtSnapshot
  <2>3. CASE UbuntuSnapshot(c)
    BY <1>0, <1>4, <2>1, <2>3 DEF Snapshot, UbuntuSnapshot
  <2>4. QED
    BY <1>4, <2>2, <2>3 DEF Snapshot
<1>5. CASE SnapshotFails(c)
  BY <1>0, <1>5, LogTyped DEF SnapshotFails
<1>6. CASE WriteToStateFile(c)
  <2>1. call[c].snap \in Nat /\ call[c].kept \in BOOLEAN
    BY DEF CallTypeOK, Requests
  <2>2. (IF os = "emt" THEN Running ELSE 0) \in Contents
    BY RunningTyped, MaxVersionNat DEF Contents, Versions
  <2>3. [reason |-> "sota", version |-> IF os = "emt" THEN Running ELSE 0,
         snap |-> call[c].snap, pkg |-> call[c].kept] \in INBDState
    BY <2>1, <2>2, StateIsTyped
  <2>4. stateFile' = [reason |-> "sota", version |-> IF os = "emt" THEN Running ELSE 0,
                      snap |-> call[c].snap, pkg |-> call[c].kept]
    BY <1>6 DEF WriteToStateFile
  <2>5. UNCHANGED <<granular, snaps, artifact>>
    BY <1>6, Zenon DEF WriteToStateFile
  <2>6. QED
    BY <1>0, <2>3, <2>4, <2>5, Zenon
<1>7. CASE EmtUpdate(c)
  BY <1>0, <1>7, LogTyped DEF EmtUpdate
<1>8. CASE UpdateToolWrite(c)
  BY <1>0, <1>8, Zenon DEF UpdateToolWrite, NoFiles, sotaVars
<1>9. CASE UpdateToolWritten(c)
  BY <1>0, <1>9, LogTyped DEF UpdateToolWritten
<1>10. CASE UpdateToolApply(c)
  BY <1>0, <1>10, LogTyped DEF UpdateToolApply
<1>11. CASE UbuntuUpdate(c)
  BY <1>0, <1>11, LogTyped DEF UbuntuUpdate, Refuse
<1>12. CASE RunCommands(c)
  <2>1. part' \in [Partitions -> Contents] /\ current \in Partitions
    BY <1>12, UpgradedTyped DEF RunCommands, DiskTypeOK
  <2>2. part'[current] \in Contents
    BY <2>1
  <2>3. UNCHANGED <<stateFile, snaps, artifact>>
    BY <1>12, Zenon DEF RunCommands
  <2>4. granular' \in [status : {"none", "SUCCESS", "FAIL"}, version : Contents]
    BY <1>0, <1>12, <2>2 DEF RunCommands, LogAfter
  <2>5. QED
    BY <1>0, <2>3, <2>4
<1>13. CASE PackageState(c)
  BY <1>0, <1>13, Zenon DEF PackageState
<1>14. CASE WritePackageState(c)
  <2>1. call[c].snap \in Nat /\ 0 \in Contents
    BY MaxVersionNat DEF CallTypeOK, Requests, Contents, Versions
  <2>2. \A p \in BOOLEAN :
          [reason |-> IF call[c].snap > 0 THEN "sota" ELSE "package",
           version |-> 0, snap |-> call[c].snap, pkg |-> p] \in INBDState
    BY <2>1, StateIsTyped
  <2>3. TRUE \in BOOLEAN
    OBVIOUS
  <2>4. stateFile' \in INBDState
    BY <1>14, <2>2, <2>3, Zenon DEF WritePackageState
  <2>5. Log("SUCCESS") /\ UNCHANGED <<snaps, artifact>>
    BY <1>14, Zenon DEF WritePackageState
  <2>6. QED
    BY <1>0, <2>4, <2>5, LogTyped
<1>15. CASE Clean(c)
  BY <1>0, <1>15 DEF Clean
<1>16. CASE RebootAfterUpdate(c)
  BY <1>0, <1>16, LogTyped DEF RebootAfterUpdate, NoReboot
<1>17. QED
  BY <1>1, <1>2, <1>3, <1>4, <1>5, <1>6, <1>7, <1>8, <1>9, <1>10, <1>11, <1>12, <1>13,
     <1>14, <1>15, <1>16, Zenon DEF SotaStep

LEMMA SotaFileStep ==
  ASSUME DiskTypeOK, CallTypeOK, FileTypeOK, NEW c \in Calls, SotaStep(c)
  PROVE  FileTypeOK'
<1>1. UNCHANGED <<conf, fw>>
  BY Zenon DEF SotaStep, RunCommands, UpdateSystemSoftware, Arrive, Download, DownloadFile,
     Snapshot, SnapshotFails, WriteToStateFile, EmtUpdate, UpdateToolWrite,
     UpdateToolWritten, UpdateToolApply, UbuntuUpdate, PackageState, WritePackageState,
     Clean, RebootAfterUpdate, Kept, KeptButFaults, NoFiles, sotaVars
<1>2. pkg' \in BOOLEAN
  <2>1. pkg \in BOOLEAN
    BY Zenon DEF FileTypeOK
  <2>2. CASE RunCommands(c)
    <3>1. NowInstalled(c) \in BOOLEAN
      BY <2>1, Zenon DEF NowInstalled
    <3>2. QED
      BY <2>1, <2>2, <3>1, Zenon DEF RunCommands
  <2>3. CASE ~RunCommands(c)
    <3>1. UNCHANGED pkg
      BY <2>3, Zenon DEF SotaStep, UpdateSystemSoftware, Arrive, Download, DownloadFile,
     Snapshot, SnapshotFails, WriteToStateFile, EmtUpdate, UpdateToolWrite,
     UpdateToolWritten, UpdateToolApply, UbuntuUpdate, PackageState, WritePackageState,
     Clean, RebootAfterUpdate, Kept, KeptButFaults, NoFiles, sotaVars
    <3>2. QED
      BY <2>1, <3>1, Zenon
  <2>4. QED
    BY <2>2, <2>3
<1>3. RecordsOK'
  BY SotaRecordsStep
<1>4. QED
  BY <1>1, <1>2, <1>3, Zenon DEF RecordsOK, FileTypeOK

LEMMA FirmwareFileStep ==
  ASSUME CallTypeOK, FileTypeOK, NEW c \in Calls, FirmwareStep(c)
  PROVE  FileTypeOK'
<1>1. UNCHANGED <<stateFile, granular, pkg, snaps, artifact, conf>>
  BY Zenon DEF FirmwareStep, UpdateFirmware, Arrive, CheckFirmware, DownloadFirmware,
     TransferFirmware, VerifySignature, ExtractFileInfo, ApplyFirmware, ToolDone,
     DeleteFiles, RebootAfterFlash, SetPowerState, FotaKeeps, FotaKeepsButFaults, sotaVars
<1>2. fw' \in FirmwareState
  <2>1. fw \in FirmwareState /\ Torn \in Contents
    BY DEF FileTypeOK, Contents
  <2>2. call[c].version \in Contents /\ Written(fw.file) \in Contents
    BY DEF CallTypeOK, Requests, Contents, Written
  <2>3. \E f \in Contents \cup {NoFile}, v \in Contents :
          fw' \in {fw, [fw EXCEPT !.file = f], [fw EXCEPT !.flashed = v]}
    BY <2>1, <2>2 DEF FirmwareStep, UpdateFirmware, Arrive, CheckFirmware, DownloadFirmware,
       TransferFirmware, VerifySignature, ExtractFileInfo, ApplyFirmware, ToolDone,
       DeleteFiles, RebootAfterFlash, SetPowerState
  <2>4. QED
    BY <2>1, <2>3 DEF FirmwareState
<1>3. QED
  BY <1>1, <1>2, Zenon DEF FileTypeOK

LEMMA ConfigFileStep ==
  ASSUME CallTypeOK, FileTypeOK, NEW c \in Calls, ConfigStep(c)
  PROVE  FileTypeOK'
<1>1. UNCHANGED <<stateFile, granular, pkg, snaps, artifact, fw>>
  BY Zenon DEF ConfigStep, ConfigCommand, Arrive, ReadConfig, OpenConfig, WriteConfig,
     ConfKeeps, sotaVars
<1>2. conf' \in Configurations
  <2>1. conf \in Configurations
    BY Zenon DEF FileTypeOK
  <2>2. CASE ConfigCommand(c) \/ ReadConfig(c)
    BY <2>1, <2>2, Zenon DEF ConfigCommand, Arrive, ReadConfig
  <2>3. CASE OpenConfig(c)
    BY <2>1, <2>3 DEF OpenConfig, Configurations
  <2>4. CASE WriteConfig(c)
    <3>1. Edited(call[c]) \in Configurations
      <4>1. /\ call[c].buf \in Configurations /\ call[c].flag \in BOOLEAN
            /\ DefaultConf \in Configurations
        BY DefaultTyped DEF CallTypeOK, Requests
      <4>2. /\ SetConfigCommand(call[c]) \in Configurations
            /\ LoadConfigCommand(call[c]) \in Configurations
        BY <4>1 DEF SetConfigCommand, LoadConfigCommand, Configurations
      <4>3. \A b \in BOOLEAN : [call[c].buf EXCEPT !.trusted = b] \in Configurations
        BY <4>1 DEF Configurations
      <4>4. /\ AppendConfigCommand(call[c]) \in Configurations
            /\ RemoveConfigCommand(call[c]) \in Configurations
        BY <4>3, TrueFalse, Zenon DEF AppendConfigCommand, RemoveConfigCommand
      <4>5. QED
        BY <4>2, <4>4, Zenon DEF Edited
    <3>2. [conf EXCEPT !.file = "mixed"] \in Configurations
      BY <2>1 DEF Configurations
    <3>3. QED
      BY <2>1, <2>4, <3>1, <3>2, Zenon DEF WriteConfig
  <2>5. QED
    BY <2>2, <2>3, <2>4, Zenon DEF ConfigStep
<1>3. QED
  BY <1>1, <1>2, Zenon DEF FileTypeOK

LEMMA ServerFileStep ==
  ASSUME DiskTypeOK, FileTypeOK, ServerStep
  PROVE  FileTypeOK'
<1>1. UNCHANGED <<artifact, conf, fw>>
  BY Zenon DEF ServerStep, RunServer, NothingToVerify, EmtVerify, CommitUpdate, EmtVerdict,
     VerifyPackages, CheckNetworkConnection, UndoChange, DeleteAndReboot, UbuntuVerdict,
     CheckConfig, StartKeeps, StartKeepsButFaults, NoVerdict, sotaVars
<1>2. stateFile' \in INBDState
  BY NoStateTyped, Zenon DEF FileTypeOK, ServerStep, RunServer, NothingToVerify, EmtVerify,
     CommitUpdate, EmtVerdict, VerifyPackages, CheckNetworkConnection, UndoChange,
     DeleteAndReboot, UbuntuVerdict, CheckConfig, NoVerdict, sotaVars
<1>3. granular' \in [status : {"none", "SUCCESS", "FAIL"}, version : Contents]
  <2>1. \/ UNCHANGED granular
        \/ Log("SUCCESS")
        \/ Log("FAIL")
    BY Zenon DEF ServerStep, RunServer, NothingToVerify, EmtVerify,
       CommitUpdate, EmtVerdict, VerifyPackages, CheckNetworkConnection, UndoChange,
       DeleteAndReboot, UbuntuVerdict, CheckConfig, NoVerdict, sotaVars
  <2>2. QED
    BY <2>1, LogTyped DEF FileTypeOK
<1>4. pkg' \in BOOLEAN
  <2>1. CASE UndoChange
    <3>1. \A n \in DOMAIN snaps : snaps[n].pkg \in BOOLEAN
      <4>1. snaps \in Seq(SnapshotRecords)
        BY Zenon DEF FileTypeOK
      <4>2. \A n \in DOMAIN snaps : snaps[n] \in SnapshotRecords
        BY <4>1
      <4>3. \A r \in SnapshotRecords : r.pkg \in BOOLEAN
        BY DEF SnapshotRecords
      <4>4. QED
        BY <4>2, <4>3, Zenon
    <3>2. QED
      BY <2>1, <3>1, Zenon DEF UndoChange, FileTypeOK
  <2>2. CASE ~UndoChange
    BY <2>2, Zenon DEF FileTypeOK, ServerStep, RunServer, NothingToVerify, EmtVerify,
       CommitUpdate, EmtVerdict, VerifyPackages, CheckNetworkConnection,
       DeleteAndReboot, UbuntuVerdict, CheckConfig, NoVerdict, sotaVars
  <2>3. QED
    BY <2>1, <2>2
<1>5. snaps' \in Seq(SnapshotRecords)
  <2>1. snaps \in Seq(SnapshotRecords)
    BY Zenon DEF FileTypeOK
  <2>2. CASE DeleteAndReboot
    <3>1. \A n \in DOMAIN snaps : [snaps[n] EXCEPT !.live = FALSE] \in SnapshotRecords
      <4>1. \A r \in SnapshotRecords, l \in BOOLEAN : [r EXCEPT !.live = l] \in SnapshotRecords
        BY DEF SnapshotRecords
      <4>2. \A n \in DOMAIN snaps : snaps[n] \in SnapshotRecords
        BY <2>1
      <4>3. QED
        BY <4>1, <4>2, TrueFalse, Zenon
    <3>2. \A n \in DOMAIN snaps :
            [snaps EXCEPT ![n].live = FALSE] \in Seq(SnapshotRecords)
      BY <2>1, <3>1
    <3>3. QED
      BY <2>1, <2>2, <3>2, Zenon DEF DeleteAndReboot
  <2>3. CASE ~DeleteAndReboot
    BY <2>1, <2>3, Zenon DEF ServerStep, RunServer, NothingToVerify, EmtVerify,
       CommitUpdate, EmtVerdict, VerifyPackages, CheckNetworkConnection, UndoChange,
       UbuntuVerdict, CheckConfig, NoVerdict, sotaVars
  <2>4. QED
    BY <2>2, <2>3
<1>6. QED
  BY <1>1, <1>2, <1>3, <1>4, <1>5, Zenon DEF FileTypeOK
LEMMA FileStep ==
  ASSUME DiskTypeOK, CallTypeOK, FileTypeOK, [Next]_vars PROVE FileTypeOK'
<1>1. CASE ServerStep
  BY <1>1, ServerFileStep
<1>2. ASSUME NEW c \in Calls, SotaStep(c) \/ FirmwareStep(c) \/ ConfigStep(c)
      PROVE  FileTypeOK'
  BY <1>2, SotaFileStep, FirmwareFileStep, ConfigFileStep
<1>3. CASE Boot
  <2>1. UNCHANGED <<stateFile, granular, pkg, snaps, artifact, conf>>
    BY <1>3, Zenon DEF Boot, sotaVars
  <2>2. fw' \in FirmwareState
    BY <1>3 DEF Boot, FileTypeOK, FirmwareState
  <2>3. QED
    BY <2>1, <2>2, Zenon DEF FileTypeOK
<1>4. CASE Kill \/ UNCHANGED vars
  <2>1. UNCHANGED <<stateFile, granular, pkg, snaps, artifact, conf, fw>>
    BY <1>4, Zenon DEF Kill, vars, sotaVars
  <2>2. QED
    BY <2>1, Zenon DEF FileTypeOK
<1>5. QED
  BY <1>1, <1>2, <1>3, <1>4, Zenon DEF Next, Reboot, PowerLoss

(***************************************************************************)
(* The disk.  Only four kinds of step touch it: the update tool and apt    *)
(* during a request, a snapshot undone, a commit, and a start.             *)
(***************************************************************************)
LEMMA OtherTyped == ASSUME NEW p \in Partitions PROVE Other(p) \in Partitions
BY DEF Partitions, Other

LEMMA SotaDisk ==
  ASSUME DiskTypeOK, NEW c \in Calls, SotaStep(c)
  PROVE  /\ UNCHANGED <<current, default>>
         /\ \/ UNCHANGED <<part, next>>
            \/ UpdateToolWrite(c)
            \/ UpdateToolWritten(c)
            \/ UpdateToolApply(c)
            \/ RunCommands(c)
BY Zenon DEF SotaStep, UpdateSystemSoftware, Arrive, Download, DownloadFile,
   Snapshot, SnapshotFails, WriteToStateFile, EmtUpdate, UpdateToolWrite,
   UpdateToolWritten, UpdateToolApply, UbuntuUpdate, PackageState, WritePackageState,
   RunCommands, Clean, RebootAfterUpdate, NoDisk, diskVars

LEMMA OtherCallsDisk ==
  ASSUME NEW c \in Calls, FirmwareStep(c) \/ ConfigStep(c)
  PROVE  UNCHANGED diskVars
BY Zenon DEF FirmwareStep, ConfigStep, UpdateFirmware, Arrive, CheckFirmware,
   DownloadFirmware, TransferFirmware, VerifySignature, ExtractFileInfo, ApplyFirmware,
   ToolDone, DeleteFiles, RebootAfterFlash, SetPowerState, FotaKeeps, FotaKeepsButFaults,
   ConfigCommand, ReadConfig, OpenConfig, WriteConfig, ConfKeeps

LEMMA ServerDisk ==
  ASSUME ServerStep
  PROVE  UNCHANGED diskVars \/ CommitUpdate \/ UndoChange
BY Zenon DEF ServerStep, RunServer, NothingToVerify, EmtVerify, EmtVerdict,
   VerifyPackages, CheckNetworkConnection, DeleteAndReboot, UbuntuVerdict,
   CheckConfig, StartKeeps, StartKeepsButFaults, NoVerdict, diskVars

LEMMA UndoneTyped ==
  ASSUME FileTypeOK, NEW n \in DOMAIN snaps
  PROVE  snaps[n].version \in Contents
<1>1. snaps \in Seq(SnapshotRecords)
  BY Zenon DEF FileTypeOK
<1>2. snaps[n] \in SnapshotRecords
  BY <1>1
<1>3. QED
  BY <1>2 DEF SnapshotRecords

LEMMA DiskStep ==
  ASSUME DiskTypeOK, CallTypeOK, FileTypeOK, [Next]_vars PROVE DiskTypeOK'
<1>1. CASE UNCHANGED diskVars
  BY <1>1 DEF DiskTypeOK, diskVars
<1>2. ASSUME NEW c \in Calls, SotaStep(c) PROVE DiskTypeOK'
  <2>1. CASE UNCHANGED <<part, next>>
    BY <1>2, <2>1, SotaDisk DEF DiskTypeOK
  <2>2. CASE UpdateToolWrite(c) \/ UpdateToolWritten(c)
    <3>1. Torn \in Contents /\ Written(artifact) \in Contents
      BY DEF Contents, Written
    <3>2. UNCHANGED <<current, default, next>>
      BY <2>2, Zenon DEF UpdateToolWrite, UpdateToolWritten
    <3>3. part' \in [Partitions -> Contents]
      BY <2>2, <3>1 DEF UpdateToolWrite, UpdateToolWritten, DiskTypeOK
    <3>4. QED
      BY <3>2, <3>3 DEF DiskTypeOK
  <2>3. CASE UpdateToolApply(c)
    BY <2>3, OtherTyped DEF UpdateToolApply, DiskTypeOK
  <2>4. CASE RunCommands(c)
    <3>1. UNCHANGED <<current, default, next>> /\ part' \in {part, Upgraded(c)}
      BY <2>4 DEF RunCommands
    <3>2. QED
      BY <3>1, UpgradedTyped DEF DiskTypeOK
  <2>5. QED
    BY <1>2, <2>1, <2>2, <2>3, <2>4, SotaDisk
<1>3. CASE CommitUpdate
  BY <1>3 DEF CommitUpdate, StartKeepsButFaults, DiskTypeOK
<1>4. CASE UndoChange
  <2>1. UNCHANGED <<current, default, next>>
    BY <1>4, Zenon DEF UndoChange
  <2>2. \/ UNCHANGED part
        \/ \E n \in DOMAIN snaps : part' = [part EXCEPT ![current] = snaps[n].version]
    BY <1>4, Zenon DEF UndoChange
  <2>3. part' \in [Partitions -> Contents]
    BY <2>2, UndoneTyped DEF DiskTypeOK
  <2>4. QED
    BY <2>1, <2>3 DEF DiskTypeOK
<1>5. CASE Boot
  BY <1>5 DEF Boot, DiskTypeOK
<1>6. CASE Kill \/ UNCHANGED vars
  BY <1>1, <1>6, Zenon DEF Kill, vars
<1>7. QED
  BY <1>1, <1>2, <1>3, <1>4, <1>5, <1>6, OtherCallsDisk, ServerDisk, Zenon
     DEF Next, Reboot, PowerLoss

(***************************************************************************)
(* The machine and the counters: what any step may do to them.             *)
(***************************************************************************)

FaultStep     == UNCHANGED faults \/ \E kind \in Faults : faults' = faults \cup {kind}
RebootingStep == UNCHANGED rebooting \/ rebooting' \in BOOLEAN

LEMMA FaultIsStep == ASSUME NEW kind, Fault(kind) PROVE FaultStep
BY DEF Fault, FaultStep

LEMMA TakesTurnsStep == ASSUME NEW op, TakesTurns(op) PROVE FaultStep
<1>1. UNCHANGED faults \/ Fault("overlap")
  BY Zenon DEF TakesTurns
<1>2. QED
  BY <1>1, FaultIsStep DEF FaultStep

LEMMA CountedTyped ==
  ASSUME CountTypeOK, NEW op, Counted(op), os \in OSs, UNCHANGED os
  PROVE  requests' \in [sota : 0..MaxSota, other : 0..MaxOthers[os']]
<1>1. MaxSota \in Nat /\ MaxOthers[os] \in Nat
  <2>1. MaxSota \in Nat /\ MaxOthers \in [OSs -> Nat]
    BY Zenon, InbdAssumption DEF InbdAssumption
  <2>2. QED
    BY <2>1
<1>2. requests \in [sota : 0..MaxSota, other : 0..MaxOthers[os]]
  BY DEF CountTypeOK
<1>3. CASE op = "sota"
  BY <1>1, <1>2, <1>3 DEF Counted
<1>4. CASE op # "sota"
  BY <1>1, <1>2, <1>4 DEF Counted
<1>5. QED
  BY <1>3, <1>4

LEMMA SotaMachine ==
  ASSUME NEW c \in Calls, SotaStep(c)
  PROVE  /\ UNCHANGED <<osVars, daemon>> /\ RebootingStep /\ FaultStep
         /\ UNCHANGED requests \/ \E op : Counted(op)
<1>1. CASE UpdateSystemSoftware(c)
  <2>1. PICK r, step : Arrive(c, r, step)
    BY <1>1, Zenon DEF UpdateSystemSoftware
  <2>2. Counted(r.op) /\ UNCHANGED <<osVars, daemon, rebooting>>
    BY <2>1, Zenon DEF Arrive
  <2>3. FaultStep
    BY <1>1, TakesTurnsStep, Zenon DEF UpdateSystemSoftware
  <2>4. QED
    BY <2>2, <2>3, Zenon DEF RebootingStep
<1>2. CASE ~UpdateSystemSoftware(c)
  <2>1. UNCHANGED <<osVars, daemon, requests>>
    BY <1>2, Zenon DEF SotaStep, Download, DownloadFile, Snapshot, SnapshotFails,
       WriteToStateFile, EmtUpdate, UpdateToolWrite, UpdateToolWritten, UpdateToolApply,
       UbuntuUpdate, PackageState, WritePackageState, RunCommands, Clean,
       RebootAfterUpdate, Kept, KeptButFaults
  <2>2. CASE RebootAfterUpdate(c)
    <3>1. UNCHANGED faults \/ Fault("reboot")
      BY <2>2, Zenon DEF RebootAfterUpdate
    <3>2. RebootingStep
      BY <2>2, TrueFalse, Zenon DEF RebootAfterUpdate, RebootSystem, NoReboot, RebootingStep
    <3>3. FaultStep
      BY <3>1, FaultIsStep, Zenon DEF FaultStep
    <3>4. QED
      BY <2>1, <3>2, <3>3, Zenon
  <2>3. CASE ~RebootAfterUpdate(c)
    <3>1. UNCHANGED <<faults, rebooting>>
      BY <1>2, <2>3, Zenon DEF SotaStep, Download, DownloadFile, Snapshot, SnapshotFails,
         WriteToStateFile, EmtUpdate, UpdateToolWrite, UpdateToolWritten, UpdateToolApply,
         UbuntuUpdate, PackageState, WritePackageState, RunCommands, Clean,
         Kept, KeptButFaults, NoReboot
    <3>2. QED
      BY <2>1, <3>1, Zenon DEF RebootingStep, FaultStep
  <2>4. QED
    BY <2>2, <2>3
<1>3. QED
  BY <1>1, <1>2

LEMMA FirmwareMachine ==
  ASSUME NEW c \in Calls, FirmwareStep(c)
  PROVE  /\ UNCHANGED <<osVars, daemon>> /\ RebootingStep /\ FaultStep
         /\ UNCHANGED requests \/ \E op : Counted(op)
<1>1. CASE UpdateFirmware(c)
  <2>1. PICK r, step : Arrive(c, r, step)
    BY <1>1, Zenon DEF UpdateFirmware
  <2>2. Counted(r.op) /\ UNCHANGED <<osVars, daemon, rebooting>>
    BY <2>1, Zenon DEF Arrive
  <2>3. FaultStep
    BY <1>1, TakesTurnsStep, Zenon DEF UpdateFirmware
  <2>4. QED
    BY <2>2, <2>3, Zenon DEF RebootingStep
<1>2. CASE RebootAfterFlash(c)
  <2>1. UNCHANGED <<osVars, daemon, requests>>
    BY <1>2, Zenon DEF RebootAfterFlash, FotaKeepsButFaults
  <2>2. RebootingStep
    BY <1>2, TrueFalse, Zenon DEF RebootAfterFlash, RebootSystem, RebootingStep
  <2>3. FaultStep
    BY <1>2, FaultIsStep, Zenon DEF RebootAfterFlash, FaultStep
  <2>4. QED
    BY <2>1, <2>2, <2>3, Zenon
<1>3. CASE SetPowerState(c)
  BY <1>3, TrueFalse, Zenon DEF SetPowerState, RebootSystem, RebootingStep, FaultStep
<1>4. CASE UNCHANGED <<osVars, daemon, rebooting, faults, requests>>
  BY <1>4, Zenon DEF RebootingStep, FaultStep
<1>5. QED
  BY <1>1, <1>2, <1>3, <1>4, Zenon DEF FirmwareStep, CheckFirmware, DownloadFirmware,
     TransferFirmware, VerifySignature, ExtractFileInfo, ApplyFirmware, ToolDone,
     DeleteFiles, FotaKeeps, FotaKeepsButFaults

LEMMA ConfigMachine ==
  ASSUME NEW c \in Calls, ConfigStep(c)
  PROVE  /\ UNCHANGED <<osVars, daemon>> /\ RebootingStep /\ FaultStep
         /\ UNCHANGED requests \/ \E op : Counted(op)
<1>1. CASE ConfigCommand(c)
  <2>1. PICK r, step : Arrive(c, r, step)
    BY <1>1, Zenon DEF ConfigCommand
  <2>2. Counted(r.op) /\ UNCHANGED <<osVars, daemon, rebooting, faults>>
    BY <1>1, <2>1, Zenon DEF Arrive, ConfigCommand
  <2>3. QED
    BY <2>2, Zenon DEF RebootingStep, FaultStep
<1>2. CASE ~ConfigCommand(c)
  <2>1. UNCHANGED <<osVars, daemon, rebooting, envVars>>
    BY <1>2, Zenon DEF ConfigStep, ReadConfig, OpenConfig, WriteConfig, ConfKeeps
  <2>2. QED
    BY <2>1, Zenon DEF envVars, RebootingStep, FaultStep
<1>3. QED
  BY <1>1, <1>2

LEMMA ServerMachine ==
  ASSUME ServerStep
  PROVE  /\ UNCHANGED <<osVars, requests>> /\ RebootingStep /\ FaultStep
         /\ daemon' \in {"down", "verify", "commit", "committed", "revert", "network", "undo",
                         "delete", "success", "config", "serving", "dead"}
<1>1. UNCHANGED <<osVars, requests>>
  BY Zenon DEF ServerStep, RunServer, NothingToVerify, EmtVerify, CommitUpdate, EmtVerdict,
     VerifyPackages, CheckNetworkConnection, UndoChange, DeleteAndReboot, UbuntuVerdict,
     CheckConfig, StartKeeps, StartKeepsButFaults, envVars
<1>2. RebootingStep
  BY TrueFalse, Zenon DEF ServerStep, RunServer, NothingToVerify, EmtVerify, CommitUpdate,
     EmtVerdict, VerifyPackages, CheckNetworkConnection, UndoChange, DeleteAndReboot,
     UbuntuVerdict, CheckConfig, NoVerdict, RebootSystem, RebootingStep
<1>3. FaultStep
  <2>1. UNCHANGED faults \/ Fault("commit") \/ Fault("reboot")
    BY Zenon DEF ServerStep, RunServer, NothingToVerify, EmtVerify, CommitUpdate, EmtVerdict,
       VerifyPackages, CheckNetworkConnection, UndoChange, DeleteAndReboot, UbuntuVerdict,
       CheckConfig, StartKeeps, envVars
  <2>2. QED
    BY <2>1, FaultIsStep, Zenon DEF FaultStep
<1>4. daemon' \in {"down", "verify", "commit", "committed", "revert", "network", "undo",
                   "delete", "success", "config", "serving", "dead"}
  BY DEF ServerStep, RunServer, NothingToVerify, EmtVerify, CommitUpdate, EmtVerdict,
     VerifyPackages, CheckNetworkConnection, UndoChange, DeleteAndReboot, UbuntuVerdict,
     CheckConfig, Starts
<1>5. QED
  BY <1>1, <1>2, <1>3, <1>4

LEMMA MachineStep ==
  ASSUME MachineTypeOK, CountTypeOK, [Next]_vars
  PROVE  MachineTypeOK' /\ CountTypeOK'
<1> USE DEF MachineTypeOK
<1>0. os \in OSs /\ faults \subseteq Faults
      /\ requests \in [sota : 0..MaxSota, other : 0..MaxOthers[os]]
  BY Zenon DEF CountTypeOK
<1>1. ASSUME UNCHANGED <<osVars, daemon>>, RebootingStep, FaultStep,
             UNCHANGED requests \/ \E op : Counted(op)
      PROVE  MachineTypeOK' /\ CountTypeOK'
  <2>1. MachineTypeOK'
    BY <1>1, Zenon DEF osVars, RebootingStep
  <2>2. UNCHANGED os
    BY <1>1, Zenon DEF osVars
  <2>3. requests' \in [sota : 0..MaxSota, other : 0..MaxOthers[os']]
    BY <1>0, <1>1, <2>2, CountedTyped, Zenon
  <2>4. faults' \subseteq Faults
    BY <1>0, <1>1 DEF FaultStep
  <2>5. QED
    BY <2>1, <2>3, <2>4, Zenon DEF CountTypeOK
<1>2. CASE ServerStep
  <2>1. UNCHANGED <<osVars, requests>> /\ RebootingStep /\ FaultStep
    BY <1>2, ServerMachine, Zenon
  <2>2. daemon' \in {"down", "verify", "commit", "committed", "revert", "network", "undo",
                     "delete", "success", "config", "serving", "dead"}
    BY <1>2, ServerMachine, Zenon
  <2>3. MachineTypeOK'
    BY <2>1, <2>2, Zenon DEF osVars, RebootingStep
  <2>4. faults' \subseteq Faults
    BY <1>0, <2>1 DEF FaultStep
  <2>5. requests' \in [sota : 0..MaxSota, other : 0..MaxOthers[os']]
    BY <1>0, <2>1, Zenon DEF osVars
  <2>6. QED
    BY <2>3, <2>4, <2>5, Zenon DEF CountTypeOK
<1>3. CASE Boot /\ FaultStep
  <2>1. UNCHANGED <<osVars, requests>> /\ rebooting' = FALSE
    BY <1>3, Zenon DEF Boot
  <2>2. daemon' \in {"dead", "down"}
    BY <1>3 DEF Boot
  <2>3. MachineTypeOK'
    BY <2>1, <2>2, TrueFalse, Zenon DEF osVars
  <2>4. faults' \subseteq Faults
    BY <1>0, <1>3 DEF FaultStep
  <2>5. requests' \in [sota : 0..MaxSota, other : 0..MaxOthers[os']]
    BY <1>0, <2>1, Zenon DEF osVars
  <2>6. QED
    BY <2>3, <2>4, <2>5, Zenon DEF CountTypeOK
<1>4. CASE Kill
  <2>1. UNCHANGED <<osVars, requests, rebooting>> /\ daemon' = "down" /\ FaultStep
    BY <1>4, FaultIsStep, Zenon DEF Kill
  <2>2. MachineTypeOK'
    BY <2>1, Zenon DEF osVars
  <2>3. faults' \subseteq Faults
    BY <1>0, <2>1 DEF FaultStep
  <2>4. requests' \in [sota : 0..MaxSota, other : 0..MaxOthers[os']]
    BY <1>0, <2>1, Zenon DEF osVars
  <2>5. QED
    BY <2>2, <2>3, <2>4, Zenon DEF CountTypeOK
<1>5. CASE UNCHANGED vars
  BY <1>1, <1>5, Zenon DEF vars, osVars, envVars, RebootingStep, FaultStep
<1>6. Reboot => Boot /\ FaultStep
  BY Zenon DEF Reboot, FaultStep
<1>7. PowerLoss => Boot /\ FaultStep
  BY FaultIsStep, Zenon DEF PowerLoss
<1>8. QED
  BY <1>1, <1>2, <1>3, <1>4, <1>5, <1>6, <1>7, SotaMachine, FirmwareMachine, ConfigMachine,
     Zenon DEF Next

LEMMA InitTyped == Init => TypeOK
<1> SUFFICES ASSUME Init PROVE TypeOK
  OBVIOUS
<1>0. 0 \in Contents /\ 0 \in Versions /\ 0 \in Nat
  BY MaxVersionNat DEF Contents, Versions
<1>1. MachineTypeOK
  BY Zenon, TrueFalse DEF Init, MachineTypeOK
<1>2. DiskTypeOK
  BY <1>0 DEF Init, DiskTypeOK, Partitions
<1>3. CallTypeOK
  <2>1. call = [c \in Calls |-> Idle]
    BY Zenon DEF Init
  <2>2. QED
    BY <2>1, IdleIsRequest DEF CallTypeOK
<1>4. FileTypeOK
  <2>1. stateFile \in INBDState
    BY NoStateTyped, Zenon DEF Init
  <2>2. granular \in [status : {"none", "SUCCESS", "FAIL"}, version : Contents]
    <3>1. granular = [status |-> "none", version |-> 0]
      BY Zenon DEF Init
    <3>2. QED
      BY <1>0, <3>1
  <2>3. pkg \in BOOLEAN /\ snaps = << >> /\ artifact \in Contents \cup {NoFile}
    BY TrueFalse, Zenon DEF Init
  <2>4. snaps \in Seq(SnapshotRecords)
    BY <2>3
  <2>5. conf \in Configurations
    <3>1. \A p \in BOOLEAN : [DefaultConf EXCEPT !.proceed = p] \in Configurations
      BY DefaultTyped DEF Configurations
    <3>2. conf \in {DefaultConf, [DefaultConf EXCEPT !.proceed = TRUE]}
      BY Zenon DEF Init
    <3>3. [DefaultConf EXCEPT !.proceed = TRUE] \in Configurations
      BY <3>1, TrueFalse, Zenon
    <3>4. QED
      BY <3>2, <3>3, DefaultTyped, Zenon
  <2>6. fw \in FirmwareState
    <3>1. \E v \in Versions : fw = [flashed |-> v, running |-> v, file |-> NoFile]
      BY Zenon DEF Init
    <3>2. QED
      BY <3>1 DEF FirmwareState, Contents
  <2>7. QED
    BY <2>1, <2>2, <2>3, <2>4, <2>5, <2>6, Zenon DEF FileTypeOK
<1>5. CountTypeOK
  <2>1. MaxSota \in Nat /\ MaxOthers[os] \in Nat
    <3>1. MaxSota \in Nat /\ MaxOthers \in [OSs -> Nat] /\ os \in OSs
      BY Zenon, InbdAssumption DEF InbdAssumption, Init
    <3>2. QED
      BY <3>1
  <2>2. requests = [sota |-> 0, other |-> 0] /\ faults = {}
    BY Zenon DEF Init
  <2>3. QED
    BY <2>1, <2>2 DEF CountTypeOK
<1>6. QED
  BY <1>1, <1>2, <1>3, <1>4, <1>5, Zenon DEF TypeOK

(* No request, fault, reboot or start of inbd gives a variable a value     *)
(* outside its type: no file, partition or log ever names a version that   *)
(* was not on offer, for any number of requests and versions.              *)
THEOREM InbdTyped == Spec => []TypeOK
<1>1. TypeOK /\ [Next]_vars => TypeOK'
  BY CallStep, FileStep, DiskStep, MachineStep, Zenon DEF TypeOK
<1>2. QED
  BY InitTyped, <1>1, PTL DEF Spec

(***************************************************************************)
(* Inbd implements TrialBoot.  On Ubuntu there is one partition, always    *)
(* the default one, and neither it nor a snapshot is ever half written:    *)
(* what the refinement needs to know beside the types.                     *)
(***************************************************************************)
SnapsWhole == \A n \in DOMAIN snaps : snaps[n].version \in Versions
UbuntuDisk ==
    os = "ubuntu" => current = default /\ next = "none" /\ part[current] \in Versions
                     /\ SnapsWhole

DiskInv == TypeOK /\ UbuntuDisk

LEMMA OsUnchanged ==
  ASSUME [Next]_vars PROVE UNCHANGED os
<1>1. Boot \/ Kill \/ UNCHANGED vars => UNCHANGED os
  BY Zenon DEF Boot, Kill, vars, osVars
<1>2. UNCHANGED osVars => UNCHANGED os
  BY Zenon DEF osVars
<1>3. QED
  BY <1>1, <1>2, SotaMachine, FirmwareMachine, ConfigMachine, ServerMachine, Zenon
     DEF Next, Reboot, PowerLoss

LEMMA SnapsStep ==
  ASSUME TypeOK, SnapsWhole, Running \in Versions, [Next]_vars PROVE SnapsWhole'
<1>0. snaps \in Seq(SnapshotRecords)
  BY Zenon DEF TypeOK, FileTypeOK
<1>1. CASE UNCHANGED snaps
  BY <1>1, Zenon DEF SnapsWhole
<1>2. ASSUME NEW c \in Calls, UbuntuSnapshot(c) PROVE SnapsWhole'
  <2>1. CASE UNCHANGED snaps
    BY <1>1, <2>1
  <2>2. CASE snaps' = Append(snaps, [version |-> Running, pkg |-> pkg, live |-> TRUE])
    <3>1. \A p, l : LET s == Append(snaps, [version |-> Running, pkg |-> p, live |-> l])
                    IN  \A n \in DOMAIN s : s[n].version \in Versions
      <4> TAKE p, l
      <4> DEFINE r == [version |-> Running, pkg |-> p, live |-> l]
      <4>1. r.version = Running
        OBVIOUS
      <4> HIDE DEF r
      <4>2. \A n \in DOMAIN Append(snaps, r) :
              Append(snaps, r)[n] = r \/ (n \in DOMAIN snaps /\ Append(snaps, r)[n] = snaps[n])
        BY <1>0
      <4>3. \A n \in DOMAIN Append(snaps, r) : Append(snaps, r)[n].version \in Versions
        BY <4>1, <4>2, Zenon DEF SnapsWhole
      <4>4. QED
        BY <4>3 DEF r
    <3>2. QED
      BY <2>2, <3>1, Zenon DEF SnapsWhole
  <2>3. QED
    BY <1>2, <2>1, <2>2, Zenon DEF UbuntuSnapshot
<1>3. CASE DeleteAndReboot
  <2>1. \/ UNCHANGED snaps
        \/ \E n \in DOMAIN snaps : snaps' = [snaps EXCEPT ![n].live = FALSE]
    BY <1>3, Zenon DEF DeleteAndReboot
  <2>2. ASSUME NEW n \in DOMAIN snaps, NEW l,
               snaps' = [snaps EXCEPT ![n].live = l]
        PROVE  SnapsWhole'
    BY <1>0, <2>2 DEF SnapsWhole, SnapshotRecords
  <2>3. QED
    BY <1>1, <2>1, <2>2, Zenon
<1>4. ASSUME NEW c \in Calls, SotaStep(c) PROVE UNCHANGED snaps \/ UbuntuSnapshot(c)
  BY <1>4, Zenon DEF SotaStep, RunCommands, UpdateSystemSoftware, Arrive, Download,
     DownloadFile, Snapshot, EmtSnapshot, SnapshotFails, WriteToStateFile, EmtUpdate,
     UpdateToolWrite, UpdateToolWritten, UpdateToolApply, UbuntuUpdate, PackageState,
     WritePackageState, Clean, RebootAfterUpdate, NoFiles, sotaVars
<1>5. ASSUME NEW c \in Calls, FirmwareStep(c) \/ ConfigStep(c) PROVE UNCHANGED snaps
  BY <1>5, Zenon DEF FirmwareStep, ConfigStep, UpdateFirmware, Arrive, CheckFirmware,
     DownloadFirmware, TransferFirmware, VerifySignature, ExtractFileInfo, ApplyFirmware,
     ToolDone, DeleteFiles, RebootAfterFlash, SetPowerState, FotaKeeps,
     FotaKeepsButFaults, ConfigCommand, ReadConfig, OpenConfig, WriteConfig, ConfKeeps,
     sotaVars
<1>6. ServerStep => UNCHANGED snaps \/ DeleteAndReboot
  BY Zenon DEF ServerStep, RunServer, NothingToVerify, EmtVerify, CommitUpdate,
     EmtVerdict, VerifyPackages, CheckNetworkConnection, UndoChange, UbuntuVerdict,
     CheckConfig, NoVerdict, sotaVars
<1>7. Boot \/ Kill \/ UNCHANGED vars => UNCHANGED snaps
  BY Zenon DEF Boot, Kill, vars, sotaVars
<1>8. QED
  BY <1>1, <1>2, <1>3, <1>4, <1>5, <1>6, <1>7, Zenon DEF Next, Reboot, PowerLoss

LEMMA UbuntuDiskStep == ASSUME DiskInv, [Next]_vars PROVE UbuntuDisk'
<1>1. SUFFICES ASSUME os = "ubuntu" PROVE UbuntuDisk'
  BY OsUnchanged, Zenon DEF UbuntuDisk
<1>2. /\ current = default /\ next = "none" /\ part[current] \in Versions /\ SnapsWhole
      /\ DiskTypeOK /\ CallTypeOK
  BY <1>1, Zenon DEF DiskInv, UbuntuDisk, TypeOK
<1>3. SnapsWhole'
  BY <1>2, SnapsStep, Zenon DEF DiskInv, Running
<1>4. CASE UNCHANGED diskVars
  BY <1>2, <1>3, <1>4, Zenon DEF UbuntuDisk, diskVars
<1>5. ASSUME NEW c \in Calls, SotaStep(c) PROVE UbuntuDisk'
  <2>1. "ubuntu" # "emt"
    OBVIOUS
  <2>2. UNCHANGED <<part, next>> \/ RunCommands(c)
    BY <1>1, <1>2, <1>5, <2>1, SotaDisk, Zenon DEF UpdateToolWrite, UpdateToolWritten,
       UpdateToolApply
  <2>3. CASE UNCHANGED <<part, next>>
    BY <1>2, <1>4, <1>5, <2>3, SotaDisk, Zenon DEF diskVars
  <2>4. CASE RunCommands(c)
    <3>1. part' \in {part, Upgraded(c)} /\ UNCHANGED <<current, default, next>>
      BY <2>4 DEF RunCommands
    <3>2. part'[current] \in Versions
      BY <1>2, <3>1 DEF Upgraded, DiskTypeOK, CallTypeOK, Requests
    <3>3. QED
      BY <1>2, <1>3, <3>1, <3>2, Zenon DEF UbuntuDisk
  <2>5. QED
    BY <2>2, <2>3, <2>4
<1>6. CASE CommitUpdate
  <2>1. UNCHANGED <<part, current, next>> /\ default' \in {default, current}
    BY <1>6 DEF CommitUpdate, StartKeepsButFaults
  <2>2. default' = current
    BY <1>2, <2>1
  <2>3. QED
    BY <1>2, <1>3, <2>1, <2>2, Zenon DEF UbuntuDisk
<1>7. CASE UndoChange
  <2>1. UNCHANGED <<current, default, next>>
    BY <1>7, Zenon DEF UndoChange
  <2>2. \/ UNCHANGED part
        \/ \E n \in DOMAIN snaps : part' = [part EXCEPT ![current] = snaps[n].version]
    BY <1>7, Zenon DEF UndoChange
  <2>3. part'[current] \in Versions
    BY <1>2, <2>2 DEF DiskTypeOK, SnapsWhole
  <2>4. QED
    BY <1>2, <1>3, <2>1, <2>3, Zenon DEF UbuntuDisk
<1>8. CASE Boot
  <2>1. UNCHANGED <<part, default>> /\ next' = "none" /\ current' = default
    BY <1>2, <1>8, Zenon DEF Boot
  <2>2. QED
    BY <1>2, <1>3, <2>1, Zenon DEF UbuntuDisk
<1>9. CASE Kill \/ UNCHANGED vars
  BY <1>4, <1>9, Zenon DEF Kill, vars
<1>10. QED
  BY <1>4, <1>5, <1>6, <1>7, <1>8, <1>9, OtherCallsDisk, ServerDisk, Zenon
     DEF Next, Reboot, PowerLoss

(***************************************************************************)
(* What the steps are in TrialBoot.                                        *)
(***************************************************************************)
LEMMA TypedDisk ==
  ASSUME DiskInv
  PROVE  /\ part \in [Partitions -> Contents] /\ current \in Partitions
         /\ default \in Partitions /\ next \in Partitions \cup {"none"}
         /\ CallTypeOK /\ FileTypeOK
BY Zenon DEF DiskInv, TypeOK, DiskTypeOK

LEMMA BootIsStart == ASSUME DiskInv, Boot PROVE Trial!Try
<1>1. UNCHANGED <<part, default>>
  BY Zenon DEF Boot
<1>2. CASE next # "none" /\ part[next] \in Versions \ faulty
  <2>1. current' = next
    BY <1>2, Zenon DEF Boot
  <2>2. part'[current'] \in Versions
    BY <1>1, <1>2, <2>1
  <2>3. CASE next = default
    <3>1. part'[current'] = part[default] /\ ~(current' # default')
      BY <1>1, <2>1, <2>3, Zenon
    <3>2. QED
      BY <1>1, <3>1, Zenon DEF Trial!Try, Trial!Start, Running
  <2>4. CASE next # default
    <3>1. current' # default'
      BY <1>1, <2>1, <2>4, Zenon
    <3>2. QED
      BY <1>1, <2>2, <3>1, Zenon DEF Trial!Try, Trial!Start, Running
  <2>5. QED
    BY <2>3, <2>4
<1>3. CASE ~(next # "none" /\ part[next] \in Versions \ faulty)
  <2>1. current' = default
    BY <1>3, Zenon DEF Boot
  <2>2. part'[current'] = part[default] /\ ~(current' # default')
    BY <1>1, <2>1, Zenon
  <2>3. QED
    BY <1>1, <2>2, Zenon DEF Trial!Try, Trial!Start, Running
<1>4. QED
  BY <1>2, <1>3

TrialVars == <<part[default], Running, current # default>>

LEMMA DiskKept == ASSUME UNCHANGED <<part, current, default>> PROVE UNCHANGED TrialVars
BY Zenon DEF TrialVars, Running

LEMMA CommitIsKeep == ASSUME DiskInv, CommitUpdate PROVE Trial!Keep \/ UNCHANGED TrialVars
<1>1. UNCHANGED <<part, current>> /\ (UNCHANGED default \/ default' = current)
  BY Zenon DEF CommitUpdate, StartKeepsButFaults
<1>2. CASE UNCHANGED default \/ current = default
  <2>1. UNCHANGED default
    BY <1>1, <1>2, Zenon
  <2>2. QED
    BY <1>1, <2>1, DiskKept, Zenon
<1>3. CASE default' = current /\ current # default
  <2>1. part'[default'] = part[current] /\ part'[current'] = part[current]
        /\ ~(current' # default')
    BY <1>1, <1>3, Zenon
  <2>2. QED
    BY <1>3, <2>1, Zenon DEF Trial!Keep, Running
<1>4. QED
  BY <1>1, <1>2, <1>3, Zenon

LEMMA WriteIsOverwrite ==
  ASSUME DiskInv, UNCHANGED <<current, default>>, NEW v \in Contents,
         part' = [part EXCEPT ![Other(current)] = v]
  PROVE  Trial!Overwrite \/ UNCHANGED TrialVars
<1>1. /\ part \in [Partitions -> Contents] /\ current \in Partitions
      /\ default \in Partitions
  BY TypedDisk, Zenon
<1>2. Other(current) \in Partitions /\ Other(current) # current
  BY <1>1 DEF Other, Partitions
<1>3. part'[current] = part[current]
  BY <1>1, <1>2
<1>4. CASE default = current
  <2>1. part'[default'] = part[default] /\ part'[current'] = part[current]
        /\ current' = current /\ default' = default
    BY <1>3, <1>4, Zenon
  <2>2. QED
    BY <2>1, Zenon DEF TrialVars, Running
<1>5. CASE default # current
  <2>1. default = Other(current)
    BY <1>1, <1>5 DEF Other, Partitions
  <2>2. part'[default'] = v
    BY <1>1, <2>1
  <2>3. part'[default'] \in Versions \cup {Torn}
    BY <2>2 DEF Contents
  <2>4. part'[current'] = part[current] /\ current' = current /\ default' = default
    BY <1>3, Zenon
  <2>5. QED
    BY <1>5, <2>3, <2>4, Zenon DEF Trial!Overwrite, Running
<1>6. QED
  BY <1>4, <1>5

LEMMA InstallIsInstall ==
  ASSUME DiskInv, os = "ubuntu", UNCHANGED <<current, default>>, NEW v \in Versions,
         part' = [part EXCEPT ![current] = v]
  PROVE  Trial!Install
<1>1. current = default /\ current' = default' /\ current \in Partitions
      /\ part \in [Partitions -> Contents]
  BY TypedDisk, Zenon DEF DiskInv, UbuntuDisk
<1>2. part'[current'] = v /\ part'[default'] = v
  BY <1>1
<1>3. ~(current # default) /\ UNCHANGED (current # default)
  BY <1>1, Zenon
<1>4. part'[current'] \in Versions /\ part'[default'] = part'[current']
  BY <1>2
<1>5. QED
  BY <1>3, <1>4, Zenon DEF Trial!Install, Running

LEMMA SotaRefines ==
  ASSUME DiskInv, NEW c \in Calls, SotaStep(c)
  PROVE  Trial!Next \/ UNCHANGED TrialVars
<1>0. UNCHANGED <<current, default>>
  BY SotaDisk, TypedDisk, Zenon DEF DiskInv, TypeOK
<1>1. CASE UNCHANGED part
  BY <1>0, <1>1, DiskKept
<1>2. CASE UpdateToolWrite(c) \/ UpdateToolWritten(c)
  <2>1. Torn \in Contents /\ Written(artifact) \in Contents
    BY DEF Contents, Written
  <2>2. \/ UNCHANGED part
        \/ \E v \in Contents : part' = [part EXCEPT ![Other(current)] = v]
    BY <1>2, <2>1, Zenon DEF UpdateToolWrite, UpdateToolWritten
  <2>3. QED
    BY <1>0, <1>1, <2>2, WriteIsOverwrite, Zenon DEF Trial!Next
<1>3. CASE RunCommands(c)
  <2>1. os = "ubuntu" /\ part' \in {part, Upgraded(c)}
    BY <1>3 DEF RunCommands
  <2>2. call[c].version \in Versions
    BY TypedDisk DEF CallTypeOK, Requests
  <2>3. UNCHANGED part \/ part' = [part EXCEPT ![current] = call[c].version]
    BY <2>1 DEF Upgraded
  <2>4. QED
    BY <1>0, <1>1, <2>1, <2>2, <2>3, InstallIsInstall, Zenon DEF Trial!Next
<1>4. CASE UpdateToolApply(c)
  BY <1>1, <1>4, Zenon DEF UpdateToolApply
<1>5. QED
  BY <1>1, <1>2, <1>3, <1>4, SotaDisk, Zenon DEF DiskInv, TypeOK

LEMMA StepRefines ==
  ASSUME DiskInv, [Next]_vars
  PROVE  [Trial!Next]_TrialVars
<1>1. CASE UNCHANGED diskVars
  BY <1>1, DiskKept, Zenon DEF diskVars
<1>2. CASE UndoChange
  <2>1. UNCHANGED <<current, default>>
    BY <1>2, Zenon DEF UndoChange
  <2>2. \/ UNCHANGED part
        \/ /\ os = "ubuntu"
           /\ \E n \in DOMAIN snaps : part' = [part EXCEPT ![current] = snaps[n].version]
    BY <1>2, Zenon DEF UndoChange
  <2>3. os = "ubuntu" => \A n \in DOMAIN snaps : snaps[n].version \in Versions
    BY Zenon DEF DiskInv, UbuntuDisk, SnapsWhole
  <2>4. QED
    BY <2>1, <2>2, <2>3, DiskKept, InstallIsInstall, Zenon DEF Trial!Next
<1>3. Boot => Trial!Next
  BY BootIsStart, Zenon DEF Trial!Next
<1>4. CommitUpdate => Trial!Next \/ UNCHANGED TrialVars
  BY CommitIsKeep, Zenon DEF Trial!Next
<1>5. CASE Kill \/ UNCHANGED vars
  BY <1>1, <1>5, Zenon DEF Kill, vars
<1>6. QED
  BY <1>1, <1>2, <1>3, <1>4, <1>5, SotaRefines, OtherCallsDisk, ServerDisk, Zenon
     DEF Next, Reboot, PowerLoss

LEMMA DiskInvInit == Init => DiskInv
<1> SUFFICES ASSUME Init PROVE DiskInv
  OBVIOUS
<1>1. TypeOK
  BY InitTyped
<1>2. /\ current = default /\ next = "none" /\ snaps = << >>
      /\ part = [p \in Partitions |-> 0] /\ current = "a"
  BY Zenon DEF Init
<1>3. part[current] \in Versions /\ SnapsWhole
  BY <1>2, MaxVersionNat DEF Partitions, Versions, SnapsWhole
<1>4. QED
  BY <1>1, <1>2, <1>3, Zenon DEF DiskInv, UbuntuDisk

LEMMA DiskInvStep == DiskInv /\ [Next]_vars => DiskInv'
BY UbuntuDiskStep, CallStep, FileStep, DiskStep, MachineStep, Zenon DEF TypeOK, DiskInv

(* Whatever happens to a node (any number of images, requests, kills,      *)
(* losses of power, failed commits and reboots, in any order), a new image *)
(* runs on trial first, only an image on trial is committed, and one that  *)
(* is not committed is left at the next start: Inbd implements TrialBoot.  *)
THEOREM InbdImplementsTrialBoot == Spec => TrialsAreJudged
<1>1. Init => DiskInv
  BY DiskInvInit
<1>2. DiskInv /\ [Next]_vars => DiskInv'
  BY DiskInvStep
<1>3. Init => Trial!Init
  <2> SUFFICES ASSUME Init PROVE Trial!Init
    OBVIOUS
  <2>1. /\ current = default /\ part = [p \in Partitions |-> 0] /\ current = "a"
    BY Zenon DEF Init
  <2>2. part[default] \in Versions
    BY <2>1, MaxVersionNat DEF Partitions, Versions
  <2>3. ~(current # default)
    BY <2>1
  <2>4. QED
    BY <2>1, <2>2, <2>3, Zenon DEF Trial!Init, Running
<1>4. DiskInv /\ [Next]_vars => [Trial!Next]_TrialVars
  BY StepRefines
<1>5. QED
  BY <1>1, <1>2, <1>3, <1>4, PTL DEF Spec, TrialsAreJudged, Trial!Spec, TrialVars

(***************************************************************************)
(* How a step moves the requests.                                          *)
(***************************************************************************)
OthersKept(c) == \A d \in Calls \ {c} : call'[d] = call[d]
Moves(c, pc) ==
    /\ call'[c].op = call[c].op /\ call'[c].mode = call[c].mode
    /\ call'[c].version = call[c].version
    /\ os = "emt" => call'[c].flag = call[c].flag
    /\ call'[c].pc = pc /\ OthersKept(c)
Leaves(c) == call'[c] = Idle /\ OthersKept(c)
Enters(c, request, pc) ==
    /\ call[c] = Idle
    /\ call'[c].op = request.op /\ call'[c].mode = request.mode
    /\ call'[c].flag = request.flag /\ call'[c].version = request.version
    /\ call'[c].pc = pc /\ OthersKept(c)

LEMMA IdleIsNone == Idle.op = "none"
BY DEF Idle

LEMMA GotoMoves ==
  ASSUME CallTypeOK, NEW c \in Calls, NEW pc, Goto(c, pc)
  PROVE  Moves(c, pc)
BY DEF CallTypeOK, Requests, Goto, Moves, OthersKept

LEMMA AnswerLeaves ==
  ASSUME CallTypeOK, NEW c \in Calls, Answer(c)
  PROVE  Leaves(c)
BY DEF CallTypeOK, Answer, Leaves, OthersKept

LEMMA ArriveEnters ==
  ASSUME CallTypeOK, NEW c \in Calls, NEW request \in Requests, NEW pc,
         Arrive(c, request, pc)
  PROVE  Enters(c, request, pc)
BY DEF CallTypeOK, Requests, Arrive, Enters, OthersKept

LEMMA BufMoves ==
  ASSUME CallTypeOK, NEW c \in Calls, NEW pc, NEW b,
         call' = [call EXCEPT ![c].pc = pc, ![c].buf = b]
  PROVE  Moves(c, pc)
BY DEF CallTypeOK, Requests, Moves, OthersKept

LEMMA SnapMoves ==
  ASSUME CallTypeOK, NEW c \in Calls, NEW pc, NEW n,
         call' = [call EXCEPT ![c].pc = pc, ![c].snap = n]
  PROVE  Moves(c, pc)
BY DEF CallTypeOK, Requests, Moves, OthersKept

LEMMA KeptMoves ==
  ASSUME CallTypeOK, NEW c \in Calls, NEW pc, NEW n, NEW k,
         call' = [call EXCEPT ![c].pc = pc, ![c].snap = n, ![c].kept = k]
  PROVE  Moves(c, pc)
BY DEF CallTypeOK, Requests, Moves, OthersKept
LEMMA FlagMoves ==
  ASSUME CallTypeOK, NEW c \in Calls, NEW pc, NEW f, os = "ubuntu",
         call' = [call EXCEPT ![c].pc = pc, ![c].flag = f]
  PROVE  Moves(c, pc)
BY DEF CallTypeOK, Requests, Moves, OthersKept

IsSota(c) == call[c].op = "sota"
SotaCalls(c) ==
    /\ daemon = "serving"
    /\ \/ IsSota(c) /\ (Leaves(c) \/ \E pc \in Steps : Moves(c, pc))
       \/ UpdateSystemSoftware(c)

LEMMA SotaCallsMove ==
  ASSUME CallTypeOK, FileTypeOK, NEW c \in Calls, SotaStep(c)
  PROVE  SotaCalls(c)
<1> USE DEF Sota, AtStep, IsSota, SotaCalls, Steps
<1>1. CASE UpdateSystemSoftware(c)
  <2>1. daemon = "serving"
    BY <1>1, Zenon DEF UpdateSystemSoftware, Arrive
  <2>2. QED
    BY <1>1, <2>1, Zenon
<1>2. CASE Download(c)
  BY <1>2, GotoMoves, AnswerLeaves DEF Download, IsDiskSpaceAvailable
<1>3. CASE DownloadFile(c)
  BY <1>3, GotoMoves, AnswerLeaves DEF DownloadFile
<1>4. CASE Snapshot(c)
  <2>1. IsSota(c) /\ daemon = "serving"
    BY <1>4, Zenon DEF Snapshot
  <2>2. Then(c) \in Steps
    BY DEF Then
  <2>3. CASE EmtSnapshot(c)
    BY <2>1, <2>2, <2>3, GotoMoves, Zenon DEF EmtSnapshot
  <2>4. CASE UbuntuSnapshot(c)
    <3>1. PICK n : Remembers(c, n)
      BY <2>4, Zenon DEF UbuntuSnapshot
    <3>2. call' = [call EXCEPT ![c].pc = Then(c), ![c].snap = n, ![c].kept = stateFile.pkg]
      BY <3>1, Zenon DEF Remembers
    <3>3. Moves(c, Then(c))
      BY <3>2, KeptMoves, Zenon
    <3>4. QED
      BY <2>1, <2>2, <3>3, Zenon
  <2>5. QED
    BY <1>4, <2>3, <2>4, Zenon DEF Snapshot
<1>5. CASE SnapshotFails(c)
  BY <1>5, GotoMoves DEF SnapshotFails
<1>6. CASE WriteToStateFile(c)
  BY <1>6, GotoMoves DEF WriteToStateFile
<1>7. CASE EmtUpdate(c)
  BY <1>7, GotoMoves DEF EmtUpdate
<1>8. CASE UpdateToolWrite(c)
  BY <1>8, GotoMoves DEF UpdateToolWrite
<1>9. CASE UpdateToolWritten(c)
  BY <1>9, GotoMoves DEF UpdateToolWritten
<1>10. CASE UpdateToolApply(c)
  BY <1>10, GotoMoves DEF UpdateToolApply
<1>11. CASE UbuntuUpdate(c)
  BY <1>11, GotoMoves, AnswerLeaves, FlagMoves DEF UbuntuUpdate, Refuse
<1>12. CASE RunCommands(c)
  BY <1>12, GotoMoves DEF RunCommands
<1>13. CASE PackageState(c)
  BY <1>13, SnapMoves DEF PackageState
<1>14. CASE WritePackageState(c)
  BY <1>14, GotoMoves DEF WritePackageState
<1>15. CASE Clean(c)
  BY <1>15, GotoMoves, AnswerLeaves DEF Clean
<1>16. CASE RebootAfterUpdate(c)
  BY <1>16, AnswerLeaves DEF RebootAfterUpdate
<1>17. QED
  BY <1>1, <1>2, <1>3, <1>4, <1>5, <1>6, <1>7, <1>8, <1>9, <1>10, <1>11, <1>12, <1>13,
     <1>14, <1>15, <1>16 DEF SotaStep

LEMMA SotaArrives ==
  ASSUME CallTypeOK, NEW c \in Calls, UpdateSystemSoftware(c)
  PROVE  \E mode \in Modes, f \in BOOLEAN :
            /\ call[c] = Idle /\ OthersKept(c)
            /\ call'[c].op = "sota" /\ call'[c].mode = mode /\ call'[c].flag = f
            /\ call'[c].pc \in {"download", "snapshot"}
            /\ os = "emt" => ~f
<1>1. PICK mode \in Modes, v \in 1..MaxVersion, p \in BOOLEAN, f \in BOOLEAN :
        /\ os = "emt" => ~p /\ ~f
        /\ Arrive(c, [Idle EXCEPT !.op = "sota", !.mode = mode, !.version = v,
                                  !.pkg = p, !.flag = f],
                  IF os = "emt" /\ mode # "no_download" THEN "download" ELSE "snapshot")
  BY DEF UpdateSystemSoftware
<1> DEFINE r == [Idle EXCEPT !.op = "sota", !.mode = mode, !.version = v,
                             !.pkg = p, !.flag = f]
           pc == IF os = "emt" /\ mode # "no_download" THEN "download" ELSE "snapshot"
<1>2. r \in Requests /\ r.op = "sota" /\ r.mode = mode /\ r.flag = f
  <2>1. v \in Versions
    BY MaxVersionNat DEF Versions
  <2>2. QED
    BY <2>1, IdleIsRequest DEF Requests
<1>3. pc \in {"download", "snapshot"}
  OBVIOUS
<1>4. Arrive(c, r, pc)
  BY <1>1
<1> HIDE DEF r, pc
<1>5. Enters(c, r, pc)
  BY <1>2, <1>4, ArriveEnters
<1>6. QED
  BY <1>1, <1>2, <1>3, <1>5, Zenon DEF Enters

LEMMA ConfigCallsMove ==
  ASSUME CallTypeOK, NEW c \in Calls, ConfigStep(c)
  PROVE  /\ daemon = "serving" /\ OthersKept(c)
         /\ ~IsSota(c) /\ call'[c].op \in {"none", "config"}
<1> USE DEF Config, AtStep, IsSota, Moves, Leaves
<1>1. CASE ConfigCommand(c)
  <2>1. PICK command \in Commands, f \in BOOLEAN :
          Arrive(c, [Idle EXCEPT !.op = "config", !.mode = command, !.flag = f], "read")
    BY <1>1 DEF ConfigCommand
  <2>2. [Idle EXCEPT !.op = "config", !.mode = command, !.flag = f] \in Requests
    BY IdleIsRequest DEF Requests
  <2>3. Enters(c, [Idle EXCEPT !.op = "config", !.mode = command, !.flag = f], "read")
    BY <2>1, <2>2, ArriveEnters
  <2>4. call'[c].op = "config" /\ OthersKept(c) /\ call[c] = Idle
    BY <2>3, IdleIsRequest DEF Enters, Requests
  <2>5. daemon = "serving"
    BY <2>1, Zenon DEF Arrive
  <2>6. QED
    BY <2>4, <2>5, IdleIsNone
<1>2. CASE ReadConfig(c)
  BY <1>2, GotoMoves, AnswerLeaves, BufMoves, IdleIsNone DEF ReadConfig
<1>3. CASE OpenConfig(c)
  BY <1>3, GotoMoves DEF OpenConfig
<1>4. CASE WriteConfig(c)
  BY <1>4, AnswerLeaves, IdleIsNone DEF WriteConfig
<1>5. QED
  BY <1>1, <1>2, <1>3, <1>4 DEF ConfigStep

(***************************************************************************)
(* Firmware: the flash, the running BIOS, and the package in the cache.    *)
(***************************************************************************)
Writing == {"transfer", "verify", "unpack", "apply", "flash"}
Newer(file) == file \in {Torn, NoFile} \/ file > fw.running
FlashNotOlder == fw.flashed = Torn \/ fw.flashed >= fw.running
UpdatesAreNewer ==
    \A c \in Calls : call[c].op = "fota" =>
        /\ call[c].pc \in Writing \cup {"download"} => call[c].version > fw.running
        /\ call[c].pc \in Writing => Newer(fw.file)
FirmwareInv == FlashNotOlder /\ UpdatesAreNewer

FirmwareKept ==
    /\ UNCHANGED fw
    /\ \A c \in Calls : call'[c].op = "fota" => call'[c] = call[c]

LEMMA KeptFirmware == ASSUME FirmwareInv, FirmwareKept PROVE FirmwareInv'
BY DEF FirmwareInv, FlashNotOlder, UpdatesAreNewer, Newer, FirmwareKept

LEMMA NoUpdateKeeps ==
  ASSUME CallTypeOK, FileTypeOK, 
         \/ \E c \in Calls : SotaStep(c) \/ ConfigStep(c)
         \/ ServerStep \/ UNCHANGED vars
  PROVE  FirmwareKept
<1>1. ASSUME NEW c \in Calls, SotaStep(c) PROVE FirmwareKept
  <2>1. UNCHANGED fw
    BY <1>1, Zenon DEF SotaStep, UpdateSystemSoftware, Arrive, Download, DownloadFile, Snapshot,
       SnapshotFails, WriteToStateFile, EmtUpdate, UpdateToolWrite, UpdateToolWritten,
       UpdateToolApply, UbuntuUpdate, PackageState, WritePackageState, RunCommands, Clean,
       RebootAfterUpdate, Kept, KeptButFaults
  <2>2. OthersKept(c) /\ call'[c].op \in {"none", "sota"}
    BY <1>1, SotaCallsMove, SotaArrives, IdleIsNone
       DEF SotaCalls, IsSota, Leaves, Moves
  <2>3. QED
    BY <2>1, <2>2 DEF FirmwareKept, OthersKept
<1>2. ASSUME NEW c \in Calls, ConfigStep(c) PROVE FirmwareKept
  <2>1. UNCHANGED fw
    BY <1>2, Zenon DEF ConfigStep, ConfigCommand, Arrive, ReadConfig, OpenConfig, WriteConfig,
       ConfKeeps
  <2>2. OthersKept(c) /\ call'[c].op \in {"none", "config"}
    BY <1>2, ConfigCallsMove
  <2>3. QED
    BY <2>1, <2>2 DEF FirmwareKept, OthersKept
<1>3. CASE ServerStep
  <2>1. UNCHANGED <<fw, call>>
    BY <1>3, Zenon DEF ServerStep, RunServer, NothingToVerify, EmtVerify, CommitUpdate,
       EmtVerdict, VerifyPackages, CheckNetworkConnection, UndoChange, DeleteAndReboot,
       UbuntuVerdict, CheckConfig, StartKeeps, StartKeepsButFaults
  <2>2. QED
    BY <2>1, Zenon DEF FirmwareKept
<1>4. CASE UNCHANGED vars
  BY <1>4, Zenon DEF FirmwareKept, vars
<1>5. QED
  BY <1>1, <1>2, <1>3, <1>4, Zenon

LEMMA FirmwareTyped ==
  ASSUME FileTypeOK
  PROVE  /\ fw \in FirmwareState /\ MaxVersion \in Nat
         /\ fw.flashed \in Int /\ fw.running \in Int /\ fw.file \in Int
<1>1. fw \in FirmwareState /\ MaxVersion \in Nat
  BY MaxVersionNat, Zenon DEF FileTypeOK
<1>2. QED
  BY <1>1 DEF FirmwareState, Contents, Versions, Torn, NoFile

LEMMA FirmwareStepNewer ==
  ASSUME CallTypeOK, FileTypeOK, FirmwareInv, NEW c \in Calls, FirmwareStep(c)
  PROVE  FirmwareInv'
<1> USE DEF Fota, AtStep, FirmwareInv, FlashNotOlder, UpdatesAreNewer, Newer, Writing,
            Moves, Leaves, OthersKept
<1>0. /\ fw \in FirmwareState /\ fw.running \in Int /\ fw.flashed \in Int /\ fw.file \in Int
      /\ Idle.op = "none"
      /\ \A d \in Calls : call[d].version \in Int
  <2>1. \A d \in Calls : call[d].version \in Int
    BY MaxVersionNat DEF CallTypeOK, Requests, Versions
  <2>2. QED
    BY <2>1, FirmwareTyped, IdleIsNone
<1>1. CASE UpdateFirmware(c)
  <2>1. PICK v \in Versions, f \in BOOLEAN :
          Arrive(c, [Idle EXCEPT !.op = "fota", !.version = v, !.flag = f], "check")
    BY <1>1 DEF UpdateFirmware
  <2>2. [Idle EXCEPT !.op = "fota", !.version = v, !.flag = f] \in Requests
    BY IdleIsRequest DEF Requests
  <2>3. call'[c].pc = "check" /\ OthersKept(c)
    BY <2>1, <2>2, ArriveEnters, Zenon DEF Enters
  <2>4. UNCHANGED fw
    BY <2>1, Zenon DEF Arrive
  <2>5. QED
    BY <2>3, <2>4
<1>2. CASE CheckFirmware(c)
  BY <1>0, <1>2, GotoMoves, AnswerLeaves DEF CheckFirmware, UpdateRequired
<1>3. CASE DownloadFirmware(c)
  BY <1>0, <1>3, GotoMoves, AnswerLeaves DEF DownloadFirmware, FirmwareState
<1>4. CASE TransferFirmware(c)
  BY <1>0, <1>4, GotoMoves, AnswerLeaves DEF TransferFirmware, FirmwareState
<1>5. CASE VerifySignature(c)
  BY <1>0, <1>5, GotoMoves, AnswerLeaves DEF VerifySignature, FirmwareState
<1>6. CASE ExtractFileInfo(c)
  BY <1>0, <1>6, GotoMoves, AnswerLeaves DEF ExtractFileInfo
<1>7. CASE ApplyFirmware(c)
  BY <1>0, <1>7, GotoMoves DEF ApplyFirmware, FirmwareState
<1>8. CASE ToolDone(c)
  BY <1>0, <1>8, GotoMoves DEF ToolDone, FirmwareState, Written, Versions, Torn, NoFile
<1>9. CASE DeleteFiles(c)
  BY <1>0, <1>9, GotoMoves, AnswerLeaves DEF DeleteFiles, FirmwareState
<1>10. CASE RebootAfterFlash(c)
  BY <1>0, <1>10, AnswerLeaves DEF RebootAfterFlash
<1>11. CASE SetPowerState(c)
  BY <1>11, KeptFirmware, Zenon DEF SetPowerState, FirmwareKept
<1>12. QED
  BY <1>1, <1>2, <1>3, <1>4, <1>5, <1>6, <1>7, <1>8, <1>9, <1>10, <1>11 DEF FirmwareStep

LEMMA GoneIdle ==
  ASSUME ProcessGone PROVE \A c \in Calls : call'[c] = Idle
BY DEF ProcessGone

LEMMA FirmwareInvStep ==
  ASSUME TypeOK, FirmwareInv, [Next]_vars PROVE FirmwareInv'
<1>0. CallTypeOK /\ FileTypeOK
  BY Zenon DEF TypeOK
<1>1. CASE \/ \E c \in Calls : SotaStep(c) \/ ConfigStep(c)
           \/ ServerStep \/ UNCHANGED vars
  BY <1>0, <1>1, NoUpdateKeeps, KeptFirmware, Zenon
<1>2. ASSUME NEW c \in Calls, FirmwareStep(c) PROVE FirmwareInv'
  BY <1>0, <1>2, FirmwareStepNewer
<1>3. CASE Boot
  <2>1. /\ \A c \in Calls : call'[c] = Idle
        /\ fw' = [fw EXCEPT !.running = fw.flashed]
    BY <1>3, GoneIdle, Zenon DEF Boot
  <2>2. fw \in FirmwareState /\ fw.flashed \in Int
    BY <1>0, FirmwareTyped
  <2>3. QED
    BY <2>1, <2>2, IdleIsNone
       DEF FirmwareInv, FlashNotOlder, UpdatesAreNewer, FirmwareState
<1>4. CASE Kill
  <2>1. UNCHANGED fw /\ \A c \in Calls : call'[c] = Idle
    BY <1>4, GoneIdle, Zenon DEF Kill
  <2>2. QED
    BY <2>1, IdleIsNone DEF FirmwareInv, FlashNotOlder, UpdatesAreNewer
<1>5. QED
  BY <1>1, <1>2, <1>3, <1>4, Zenon DEF Next, Reboot, PowerLoss

LEMMA RunningGrows ==
  ASSUME TypeOK, FirmwareInv, [Next]_vars
  PROVE  fw'.running # Torn => fw'.running >= fw.running
<1>0. CallTypeOK /\ FileTypeOK
  BY Zenon DEF TypeOK
<1>1. fw \in FirmwareState /\ fw.flashed \in Int /\ fw.running \in Int
  BY <1>0, FirmwareTyped
<1>2. CASE \/ \E c \in Calls : SotaStep(c) \/ ConfigStep(c)
           \/ ServerStep \/ UNCHANGED vars
  BY <1>0, <1>1, <1>2, NoUpdateKeeps DEF FirmwareKept
<1>3. ASSUME NEW c \in Calls, FirmwareStep(c) PROVE fw'.running = fw.running
  <2>1. \/ UNCHANGED fw
        \/ \E x : fw' = [fw EXCEPT !.file = x]
        \/ \E x : fw' = [fw EXCEPT !.flashed = x]
    BY <1>3, Zenon DEF FirmwareStep, UpdateFirmware, Arrive, CheckFirmware, DownloadFirmware,
       TransferFirmware, VerifySignature, ExtractFileInfo, ApplyFirmware, ToolDone,
       DeleteFiles, RebootAfterFlash, SetPowerState
  <2>2. QED
    BY <1>1, <2>1 DEF FirmwareState
<1>4. CASE Boot
  <2>1. fw' = [fw EXCEPT !.running = fw.flashed]
    BY <1>4, Zenon DEF Boot
  <2>2. QED
    BY <1>1, <2>1 DEF FirmwareInv, FlashNotOlder, FirmwareState
<1>5. Kill => UNCHANGED fw
  BY Zenon DEF Kill
<1>6. QED
  BY <1>1, <1>2, <1>3, <1>4, <1>5 DEF Next, Reboot, PowerLoss

(* The firmware that runs never becomes an older one: the release date is  *)
(* compared with the BIOS that runs when the request comes, the package is *)
(* written to the flash later, other requests use the same cache file      *)
(* meanwhile, and the new BIOS runs only after a reboot; still no          *)
(* interleaving, kill or loss of power brings an older one                 *)
(* (fw_updater.go:112).                                                    *)
THEOREM InbdFirmwareNeverOlder == Spec => FirmwareNeverOlder
<1>1. Init => TypeOK /\ FirmwareInv
  <2> SUFFICES ASSUME Init PROVE FirmwareInv
    BY InitTyped
  <2>1. PICK v \in Versions : fw = [flashed |-> v, running |-> v, file |-> NoFile]
    BY Zenon DEF Init
  <2>2. \A c \in Calls : call[c] = Idle
    BY DEF Init
  <2>3. v \in Int
    BY MaxVersionNat DEF Versions
  <2>4. QED
    BY <2>1, <2>2, <2>3, IdleIsNone DEF FirmwareInv, FlashNotOlder, UpdatesAreNewer
<1>2. TypeOK /\ FirmwareInv /\ [Next]_vars => (TypeOK /\ FirmwareInv)'
  BY CallStep, FileStep, DiskStep, MachineStep, FirmwareInvStep, Zenon DEF TypeOK
<1>3. TypeOK /\ FirmwareInv /\ [Next]_vars => [fw'.running # Torn => fw'.running >= fw.running]_vars
  BY RunningGrows
<1>4. QED
  BY <1>1, <1>2, <1>3, PTL DEF Spec, FirmwareNeverOlder

(***************************************************************************)
(* Requests and the process: inbd serves, or has no request; system        *)
(* updates take turns; and what an EMT update may be at.                   *)
(***************************************************************************)
CallsServed == daemon # "serving" => \A c \in Calls : call[c] = Idle
OneSota == "overlap" \notin faults => \A c, d \in Calls : IsSota(c) /\ IsSota(d) => c = d
EmtRequest(c) ==
    /\ ~call[c].flag
    /\ call[c].pc \in {"again", "again_write", "arm"} => call[c].mode = "no_download"
    /\ call[c].pc \notin {"install", "package", "write_package"}
EmtRequests ==
    os = "emt" =>
        /\ \A c \in Calls : IsSota(c) => EmtRequest(c)
        /\ daemon \notin {"network", "undo", "delete", "success"}
CallsInv == CallsServed /\ OneSota /\ EmtRequests

(* Steps that are nothing to a system update.                              *)
Quiet ==
    /\ UNCHANGED <<osVars, diskVars, sotaVars, daemon>>
    /\ UNCHANGED rebooting \/ (daemon = "serving" /\ rebooting' = TRUE)
    /\ faults \subseteq faults'
    /\ \A c \in Calls : IsSota(c) \/ IsSota(c)' => call'[c] = call[c]
    /\ daemon = "serving" \/ UNCHANGED call

LEMMA FaultGrows ==
  ASSUME NEW kind PROVE Fault(kind) => faults \subseteq faults' /\ kind \in faults'
BY DEF Fault

LEMMA TakesTurnsGrows ==
  ASSUME NEW op, TakesTurns(op)
  PROVE  /\ faults \subseteq faults'
         /\ "overlap" \in faults' \/ (InFlight(op) = {} /\ ~rebooting)
BY FaultGrows DEF TakesTurns

LEMMA FirmwareQuiet ==
  ASSUME CallTypeOK, NEW c \in Calls, FirmwareStep(c)
  PROVE  Quiet
<1>1. UNCHANGED <<osVars, diskVars, sotaVars, daemon>> /\ daemon = "serving"
  BY Zenon DEF FirmwareStep, UpdateFirmware, Arrive, CheckFirmware, DownloadFirmware,
     TransferFirmware, VerifySignature, ExtractFileInfo, ApplyFirmware, ToolDone,
     DeleteFiles, RebootAfterFlash, SetPowerState, FotaKeeps, FotaKeepsButFaults, Fota, AtStep
<1>2. UNCHANGED rebooting \/ rebooting' = TRUE
  BY Zenon DEF FirmwareStep, UpdateFirmware, Arrive, CheckFirmware, DownloadFirmware,
     TransferFirmware, VerifySignature, ExtractFileInfo, ApplyFirmware, ToolDone,
     DeleteFiles, RebootAfterFlash, SetPowerState, RebootSystem
<1>3. faults \subseteq faults'
  <2>1. UNCHANGED faults \/ TakesTurns("fota") \/ Fault("reboot")
    BY Zenon DEF FirmwareStep, UpdateFirmware, CheckFirmware, DownloadFirmware,
       TransferFirmware, VerifySignature, ExtractFileInfo, ApplyFirmware, ToolDone,
       DeleteFiles, RebootAfterFlash, SetPowerState, FotaKeeps
  <2>2. QED
    BY <2>1, FaultGrows, TakesTurnsGrows
<1>4. \/ UNCHANGED call
      \/ OthersKept(c) /\ ~IsSota(c) /\ call'[c].op \in {"none", "fota"}
  <2> USE IdleIsNone DEF Fota, AtStep, IsSota, Moves, Leaves
  <2>1. CASE UpdateFirmware(c)
    <3>1. PICK v \in Versions, f \in BOOLEAN :
            Arrive(c, [Idle EXCEPT !.op = "fota", !.version = v, !.flag = f], "check")
      BY <2>1 DEF UpdateFirmware
    <3>2. [Idle EXCEPT !.op = "fota", !.version = v, !.flag = f] \in Requests
      BY IdleIsRequest DEF Requests
    <3>3. Enters(c, [Idle EXCEPT !.op = "fota", !.version = v, !.flag = f], "check")
      BY <3>1, <3>2, ArriveEnters
    <3>4. QED
      BY <3>3, IdleIsRequest DEF Enters, Requests
  <2>2. CASE CheckFirmware(c)
    BY <2>2, GotoMoves, AnswerLeaves DEF CheckFirmware
  <2>3. CASE DownloadFirmware(c)
    BY <2>3, GotoMoves, AnswerLeaves DEF DownloadFirmware
  <2>4. CASE TransferFirmware(c)
    BY <2>4, GotoMoves, AnswerLeaves DEF TransferFirmware
  <2>5. CASE VerifySignature(c)
    BY <2>5, GotoMoves, AnswerLeaves DEF VerifySignature
  <2>6. CASE ExtractFileInfo(c)
    BY <2>6, GotoMoves, AnswerLeaves DEF ExtractFileInfo
  <2>7. CASE ApplyFirmware(c)
    BY <2>7, GotoMoves DEF ApplyFirmware
  <2>8. CASE ToolDone(c)
    BY <2>8, GotoMoves DEF ToolDone
  <2>9. CASE DeleteFiles(c)
    BY <2>9, GotoMoves, AnswerLeaves DEF DeleteFiles
  <2>10. CASE RebootAfterFlash(c)
    BY <2>10, AnswerLeaves DEF RebootAfterFlash
  <2>11. CASE SetPowerState(c)
    BY <2>11, Zenon DEF SetPowerState
  <2>12. QED
    BY <2>1, <2>2, <2>3, <2>4, <2>5, <2>6, <2>7, <2>8, <2>9, <2>10, <2>11 DEF FirmwareStep
<1>5. \A d \in Calls : IsSota(d) \/ IsSota(d)' => call'[d] = call[d]
  BY <1>4 DEF IsSota, OthersKept
<1>6. QED
  BY <1>1, <1>2, <1>3, <1>5, Zenon DEF Quiet

LEMMA QuietSteps ==
  ASSUME CallTypeOK,
         UNCHANGED vars \/ \E c \in Calls : FirmwareStep(c) \/ ConfigStep(c)
  PROVE  Quiet
<1>1. CASE UNCHANGED vars
  BY <1>1 DEF Quiet, vars, envVars, IsSota
<1>2. ASSUME NEW c \in Calls, ConfigStep(c) PROVE Quiet
  <2>1. UNCHANGED <<osVars, diskVars, sotaVars, daemon, rebooting, faults>>
    BY <1>2, Zenon DEF ConfigStep, ConfigCommand, Arrive, ReadConfig, OpenConfig,
       WriteConfig, ConfKeeps, envVars
  <2>2. \A d \in Calls : IsSota(d) \/ IsSota(d)' => call'[d] = call[d]
    BY <1>2, ConfigCallsMove DEF IsSota, OthersKept
  <2>3. daemon = "serving" /\ faults \subseteq faults'
    BY <1>2, <2>1, ConfigCallsMove
  <2>4. QED
    BY <2>1, <2>2, <2>3, Zenon DEF Quiet
<1>3. QED
  BY <1>1, <1>2, FirmwareQuiet

(***************************************************************************)
(* The kinds of steps of an EMT update: it arrives; it works (downloads,   *)
(* records, writes the other partition, fails); it arms the next boot;     *)
(* it cleans up; it asks for the reboot.                                   *)
(***************************************************************************)
Recorded == stateFile.reason = "sota" /\ stateFile.version = Running

EmtArrives(c) ==
    /\ call[c] = Idle /\ OthersKept(c)
    /\ IsSota(c)' /\ EmtRequest(c)' /\ call'[c].pc \in {"download", "snapshot"}
    /\ "overlap" \in faults' \/ ((\A d \in Calls : ~IsSota(d)) /\ ~rebooting)
    /\ faults \subseteq faults'
    /\ UNCHANGED <<diskVars, sotaVars, rebooting>>
EmtWorks(c) ==
    /\ IsSota(c) /\ call[c].pc \notin {"clean", "reboot"}
    /\ \/ Leaves(c)
       \/ \E pc \in Steps \ {"reboot"} :
             /\ Moves(c, pc) /\ EmtRequest(c)'
             /\ pc = "arm" => Recorded'
    /\ granular' \in {granular, [status |-> "FAIL", version |-> Running]}
    /\ UNCHANGED part \/ \E v : part' = [part EXCEPT ![Other(current)] = v]
    /\ UNCHANGED <<current, default, next, rebooting, faults>>
EmtArms(c) ==
    /\ IsSota(c) /\ call[c].pc = "arm" /\ Moves(c, "clean") /\ EmtRequest(c)'
    /\ next' = Other(current) /\ Log("SUCCESS")
    /\ UNCHANGED <<part, current, default, stateFile, rebooting, faults>>
EmtCleans(c) ==
    /\ IsSota(c) /\ call[c].pc = "clean"
    /\ IF call[c].mode # "download_only" THEN Moves(c, "reboot") /\ EmtRequest(c)'
       ELSE Leaves(c)
    /\ UNCHANGED <<diskVars, stateFile, granular, rebooting, faults>>
EmtReboots(c) ==
    /\ IsSota(c) /\ call[c].pc = "reboot" /\ Leaves(c)
    /\ \/ rebooting' = TRUE /\ UNCHANGED <<granular, faults>>
       \/ /\ "reboot" \in faults' /\ faults \subseteq faults' /\ Log("FAIL")
          /\ UNCHANGED rebooting
    /\ UNCHANGED <<diskVars, stateFile>>
EmtSota(c) ==
    /\ daemon = "serving" /\ UNCHANGED <<osVars, daemon>>
    /\ EmtArrives(c) \/ EmtWorks(c) \/ EmtArms(c) \/ EmtCleans(c) \/ EmtReboots(c)

LEMMA EmtMoves ==
  ASSUME NEW c \in Calls, NEW pc, os = "emt", EmtRequest(c), Moves(c, pc),
         pc \in {"again", "again_write", "arm"} => call[c].mode = "no_download",
         pc \notin {"install", "package", "write_package"}
  PROVE  EmtRequest(c)'
BY DEF EmtRequest, Moves

LEMMA EmtSotaSteps ==
  ASSUME CallTypeOK, os = "emt", NEW c \in Calls, SotaStep(c),
         IsSota(c) => EmtRequest(c)
  PROVE  EmtSota(c)
<1>0. daemon = "serving" /\ UNCHANGED <<osVars, daemon>>
  BY SotaMachine, Zenon DEF SotaStep, UpdateSystemSoftware, Arrive, Download, DownloadFile,
     Snapshot, SnapshotFails, WriteToStateFile, EmtUpdate, UpdateToolWrite,
     UpdateToolWritten, UpdateToolApply, UbuntuUpdate, PackageState, WritePackageState,
     RunCommands, Clean, RebootAfterUpdate, Sota, AtStep
<1> SUFFICES EmtArrives(c) \/ EmtWorks(c) \/ EmtArms(c) \/ EmtCleans(c) \/ EmtReboots(c)
  BY <1>0, Zenon DEF EmtSota
<1>a. "emt" # "ubuntu"
  OBVIOUS
<1>1. CASE UpdateSystemSoftware(c)
  <2>1. /\ call[c] = Idle /\ OthersKept(c)
        /\ call'[c].op = "sota" /\ ~call'[c].flag
        /\ call'[c].pc \in {"download", "snapshot"}
    BY <1>1, SotaArrives
  <2>2. UNCHANGED <<diskVars, sotaVars, rebooting>>
    BY <1>1, Zenon DEF UpdateSystemSoftware, Arrive
  <2>3. /\ "overlap" \in faults' \/ (InFlight("sota") = {} /\ ~rebooting)
        /\ faults \subseteq faults'
    BY <1>1, TakesTurnsGrows, Zenon DEF UpdateSystemSoftware
  <2>4. InFlight("sota") = {} => \A d \in Calls : ~IsSota(d)
    BY DEF InFlight, IsSota
  <2>5. EmtRequest(c)'
    BY <2>1 DEF EmtRequest
  <2>6. QED
    BY <2>1, <2>2, <2>3, <2>4, <2>5, Zenon DEF EmtArrives, IsSota
<1>2. ASSUME IsSota(c), call[c].pc \notin {"clean", "reboot"},
             NEW pc \in Steps \ {"reboot"}, Goto(c, pc),
             pc \in {"again", "again_write", "arm"} => call[c].mode = "no_download",
             pc \notin {"install", "package", "write_package"},
             pc = "arm" => Recorded',
             granular' \in {granular, [status |-> "FAIL", version |-> Running]},
             UNCHANGED part \/ \E v : part' = [part EXCEPT ![Other(current)] = v],
             UNCHANGED <<current, default, next, rebooting, faults>>
      PROVE  EmtWorks(c)
  <2>1. Moves(c, pc)
    BY <1>2, GotoMoves
  <2>2. EmtRequest(c)'
    BY <1>2, <2>1, EmtMoves
  <2>3. QED
    BY <1>2, <2>1, <2>2, Zenon DEF EmtWorks
<1>3. ASSUME IsSota(c), call[c].pc \notin {"clean", "reboot"}, Answer(c),
             granular' \in {granular, [status |-> "FAIL", version |-> Running]},
             UNCHANGED <<diskVars, rebooting, faults>>
      PROVE  EmtWorks(c)
  <2>1. Leaves(c)
    BY <1>3, AnswerLeaves
  <2>2. UNCHANGED <<part, current, default, next, rebooting, faults>>
    BY <1>3, Zenon DEF diskVars
  <2>3. QED
    BY <1>3, <2>1, <2>2, Zenon DEF EmtWorks
<1> USE DEF Sota, AtStep, IsSota, Kept, NoReboot
<1>4. CASE Download(c)
  <2>1. /\ IsSota(c) /\ call[c].pc = "download" /\ UNCHANGED <<diskVars, rebooting, faults>>
        /\ granular' \in {granular, [status |-> "FAIL", version |-> Running]}
        /\ Answer(c) \/ Goto(c, "transfer")
    BY <1>4 DEF Download, IsDiskSpaceAvailable, NoDisk, Log
  <2>2. QED
    BY <1>2, <1>3, <2>1 DEF Steps, diskVars
<1>5. CASE DownloadFile(c)
  <2>1. /\ IsSota(c) /\ call[c].pc = "transfer" /\ UNCHANGED <<diskVars, rebooting, faults>>
        /\ granular' \in {granular, [status |-> "FAIL", version |-> Running]}
        /\ Answer(c) \/ Goto(c, "snapshot")
    BY <1>5 DEF DownloadFile, NoDisk, Log
  <2>2. QED
    BY <1>2, <1>3, <2>1 DEF Steps, diskVars
<1>6. CASE Snapshot(c)
  <2>1. /\ IsSota(c) /\ call[c].pc \in {"snapshot", "again"}
        /\ UNCHANGED <<granular, diskVars, rebooting, faults>>
        /\ Goto(c, Then(c))
    BY <1>6, <1>a, Zenon DEF Snapshot, NoDisk, EmtSnapshot, UbuntuSnapshot
  <2>2. call[c].pc = "again" => call[c].mode = "no_download"
    BY <2>1 DEF EmtRequest
  <2>3. QED
    BY <1>2, <2>1, <2>2 DEF Steps, diskVars, Then
<1>7. CASE SnapshotFails(c)
  <2>1. /\ IsSota(c) /\ call[c].pc \in {"snapshot", "again", "write_state", "again_write"}
        /\ UNCHANGED <<diskVars, rebooting, faults>>
        /\ granular' \in {granular, [status |-> "FAIL", version |-> Running]}
        /\ Goto(c, "fail") \/ Goto(c, "update")
    BY <1>7 DEF SnapshotFails, NoDisk, Log
  <2>2. QED
    BY <1>2, <2>1 DEF Steps, diskVars
<1>8. CASE WriteToStateFile(c)
  <2>1. /\ IsSota(c) /\ UNCHANGED <<diskVars, rebooting, faults, granular>>
        /\ \/ call[c].pc = "write_state" /\ Goto(c, "update")
           \/ call[c].pc = "again_write" /\ Goto(c, "arm")
    BY <1>8 DEF WriteToStateFile, NoDisk
  <2>2. Recorded'
    <3>1. stateFile' = [reason |-> "sota", snap |-> call[c].snap, pkg |-> call[c].kept,
                        version |-> Running]
      BY <1>8 DEF WriteToStateFile
    <3>2. UNCHANGED Running
      BY <2>1, Zenon DEF Running, diskVars
    <3>3. stateFile'.reason = "sota" /\ stateFile'.version = Running
      BY <3>1
    <3>4. QED
      BY <3>2, <3>3, Zenon DEF Recorded
  <2>3. call[c].pc = "again_write" => call[c].mode = "no_download"
    BY <2>1 DEF EmtRequest
  <2>4. QED
    BY <1>2, <2>1, <2>2, <2>3 DEF Steps, diskVars
<1>9. CASE EmtUpdate(c)
  <2>1. /\ IsSota(c) /\ call[c].pc = "update" /\ UNCHANGED <<diskVars, rebooting, faults>>
        /\ granular' \in {granular, [status |-> "FAIL", version |-> Running]}
        /\ \/ \E pc \in {"clean", "write", "fail"} : Goto(c, pc)
           \/ call[c].mode = "no_download" /\ Goto(c, "again")
    BY <1>9 DEF EmtUpdate, NoDisk, Log
  <2>2. QED
    BY <1>2, <2>1 DEF Steps, diskVars
<1>10. CASE UpdateToolWrite(c)
  <2>1. /\ IsSota(c) /\ call[c].pc = "write" /\ Goto(c, "writing")
        /\ UNCHANGED <<current, default, next, rebooting, faults, granular>>
        /\ part' = [part EXCEPT ![Other(current)] = Torn]
    BY <1>10, Zenon DEF UpdateToolWrite, NoFiles, sotaVars
  <2>2. QED
    BY <1>2, <2>1 DEF Steps
<1>11. CASE UpdateToolWritten(c)
  <2>1. /\ IsSota(c) /\ call[c].pc = "writing" /\ (Goto(c, "clean") \/ Goto(c, "fail"))
        /\ UNCHANGED <<current, default, next, rebooting, faults>>
        /\ granular' \in {granular, [status |-> "FAIL", version |-> Running]}
        /\ UNCHANGED part \/ \E v : part' = [part EXCEPT ![Other(current)] = v]
    <3>1. UNCHANGED part \/ \E v : part' = [part EXCEPT ![Other(current)] = v]
      BY <1>11, Zenon DEF UpdateToolWritten
    <3>2. QED
      BY <1>11, <3>1 DEF UpdateToolWritten, Log
  <2>2. QED
    BY <1>2, <2>1 DEF Steps
<1>12. CASE UpdateToolApply(c)
  <2>1. CASE Log("FAIL") /\ Goto(c, "fail") /\ UNCHANGED next
    <3>1. /\ IsSota(c) /\ call[c].pc = "arm"
          /\ UNCHANGED <<part, current, default, rebooting, faults>>
          /\ granular' = [status |-> "FAIL", version |-> Running]
      BY <1>12, <2>1, Zenon DEF UpdateToolApply, Log
    <3>2. QED
      BY <1>2, <2>1, <3>1 DEF Steps
  <2>2. CASE next' = Other(current) /\ Log("SUCCESS") /\ Goto(c, "clean")
    <3>1. /\ IsSota(c) /\ call[c].pc = "arm"
          /\ UNCHANGED <<part, current, default, stateFile, rebooting, faults>>
      BY <1>12, Zenon DEF UpdateToolApply
    <3>2. Moves(c, "clean")
      BY <2>2, GotoMoves
    <3>3. EmtRequest(c)'
      BY <3>1, <3>2, EmtMoves
    <3>4. QED
      BY <2>2, <3>1, <3>2, <3>3, Zenon DEF EmtArms
  <2>3. QED
    BY <1>12, <2>1, <2>2, Zenon DEF UpdateToolApply
<1>13. CASE Clean(c)
  <2>1. IsSota(c) /\ UNCHANGED <<diskVars, stateFile, granular, rebooting, faults>>
    BY <1>13, Zenon DEF Clean, NoDisk
  <2>2. CASE call[c].pc = "fail"
    <3>1. Answer(c)
      BY <1>13, <2>2 DEF Clean
    <3>2. QED
      BY <1>3, <2>1, <2>2, <3>1
  <2>3. CASE call[c].pc = "clean" /\ call[c].mode # "download_only"
    <3>1. Moves(c, "reboot")
      BY <1>13, <2>3, GotoMoves DEF Clean
    <3>2. EmtRequest(c)'
      BY <2>1, <3>1, EmtMoves
    <3>3. QED
      BY <2>1, <2>3, <3>1, <3>2, Zenon DEF EmtCleans
  <2>4. CASE call[c].pc = "clean" /\ ~(call[c].mode # "download_only")
    <3>1. Leaves(c)
      BY <1>13, <2>4, AnswerLeaves DEF Clean
    <3>2. QED
      BY <2>1, <2>4, <3>1, Zenon DEF EmtCleans
  <2>5. QED
    BY <1>13, <2>2, <2>3, <2>4 DEF Clean
<1>14. CASE RebootAfterUpdate(c)
  <2>1. IsSota(c) /\ call[c].pc = "reboot" /\ UNCHANGED <<diskVars, stateFile>>
    BY <1>14, Zenon DEF RebootAfterUpdate, NoDisk
  <2>2. Leaves(c)
    BY <1>14, AnswerLeaves DEF RebootAfterUpdate
  <2>3. ~call[c].flag
    BY <2>1 DEF EmtRequest
  <2>4. \/ rebooting' = TRUE /\ UNCHANGED <<granular, faults>>
        \/ Fault("reboot") /\ Log("FAIL") /\ UNCHANGED rebooting
    BY <1>14, <2>3, Zenon DEF RebootAfterUpdate, RebootSystem
  <2>5. QED
    BY <2>1, <2>2, <2>4, FaultGrows, Zenon DEF EmtReboots
<1>15. ~UbuntuUpdate(c) /\ ~RunCommands(c) /\ ~PackageState(c) /\ ~WritePackageState(c)
  BY <1>a DEF UbuntuUpdate, RunCommands, PackageState, WritePackageState, EmtRequest
<1>16. QED
  BY <1>1, <1>4, <1>5, <1>6, <1>7, <1>8, <1>9, <1>10, <1>11, <1>12, <1>13, <1>14, <1>15,
     Zenon DEF SotaStep

AllIdle == \A c \in Calls : call[c] = Idle

(* What a start of inbd does to the requests and the faults.               *)
LEMMA ServerQuiet ==
  ASSUME ServerStep
  PROVE  /\ UNCHANGED <<osVars, call, current, next>> /\ faults \subseteq faults'
         /\ daemon # "serving" /\ daemon' # "dead" /\ daemon # "dead"
         /\ UNCHANGED part \/ UndoChange
         /\ UNCHANGED default \/ CommitUpdate
         /\ UNCHANGED rebooting \/ EmtVerdict \/ DeleteAndReboot
<1>1. UNCHANGED <<osVars, call, current, next>>
  BY Zenon DEF ServerStep, RunServer, NothingToVerify, EmtVerify, CommitUpdate, EmtVerdict,
     VerifyPackages, CheckNetworkConnection, UndoChange, DeleteAndReboot, UbuntuVerdict,
     CheckConfig, StartKeeps, StartKeepsButFaults
<1>2. faults \subseteq faults'
  <2>1. UNCHANGED faults \/ Fault("commit") \/ Fault("reboot")
    BY Zenon DEF ServerStep, RunServer, NothingToVerify, EmtVerify, CommitUpdate, EmtVerdict,
       VerifyPackages, CheckNetworkConnection, UndoChange, DeleteAndReboot, UbuntuVerdict,
       CheckConfig, StartKeeps, envVars
  <2>2. QED
    BY <2>1, FaultGrows
<1>3. daemon # "serving" /\ daemon' # "dead" /\ daemon # "dead"
  BY DEF ServerStep, RunServer, NothingToVerify, EmtVerify, CommitUpdate, EmtVerdict,
     VerifyPackages, CheckNetworkConnection, UndoChange, DeleteAndReboot, UbuntuVerdict,
     CheckConfig, Starts
<1>4. UNCHANGED part \/ UndoChange
  BY Zenon DEF ServerStep, RunServer, NothingToVerify, EmtVerify, CommitUpdate, EmtVerdict,
     VerifyPackages, CheckNetworkConnection, DeleteAndReboot, UbuntuVerdict,
     CheckConfig, StartKeeps, StartKeepsButFaults
<1>5. UNCHANGED default \/ CommitUpdate
  BY Zenon DEF ServerStep, RunServer, NothingToVerify, EmtVerify, UndoChange, EmtVerdict,
     VerifyPackages, CheckNetworkConnection, DeleteAndReboot, UbuntuVerdict,
     CheckConfig, NoVerdict
<1>6. UNCHANGED rebooting \/ EmtVerdict \/ DeleteAndReboot
  BY Zenon DEF ServerStep, RunServer, NothingToVerify, EmtVerify, UndoChange, CommitUpdate,
     VerifyPackages, CheckNetworkConnection, UbuntuVerdict, CheckConfig, NoVerdict
<1>7. QED
  BY <1>1, <1>2, <1>3, <1>4, <1>5, <1>6

LEMMA BootClears ==
  ASSUME Boot
  PROVE  /\ UNCHANGED <<osVars, part, default, sotaVars>> /\ next' = "none" /\ ~rebooting'
         /\ daemon' = (IF part'[current'] = Torn THEN "dead" ELSE "down")
         /\ AllIdle'
<1>1. AllIdle'
  BY GoneIdle, Zenon DEF Boot, AllIdle
<1>2. /\ UNCHANGED <<osVars, part, default, sotaVars>> /\ next' = "none" /\ ~rebooting'
      /\ daemon' = (IF part[current'] = Torn THEN "dead" ELSE "down")
  BY Zenon DEF Boot
<1>3. QED
  BY <1>1, <1>2

LEMMA IdleCalls == ASSUME AllIdle PROVE \A c \in Calls : ~IsSota(c)
BY IdleIsNone DEF AllIdle, IsSota

LEMMA FaultsGrow ==
  ASSUME CallTypeOK, [Next]_vars PROVE faults \subseteq faults'
<1>1. ASSUME NEW c \in Calls, SotaStep(c) PROVE faults \subseteq faults'
  BY <1>1, SotaMachine DEF FaultStep
<1>2. Quiet => faults \subseteq faults'
  BY Zenon DEF Quiet
<1>3. (Reboot \/ PowerLoss \/ Kill) => faults \subseteq faults'
  BY FaultGrows DEF Reboot, PowerLoss, Kill
<1>4. QED
  BY <1>1, <1>2, <1>3, QuietSteps, ServerQuiet, Zenon DEF Next

LEMMA EmtServer ==
  ASSUME os = "emt", EmtRequests, ServerStep
  PROVE  /\ RunServer \/ NothingToVerify \/ EmtVerify \/ CommitUpdate \/ EmtVerdict
            \/ CheckConfig
         /\ daemon' \notin {"network", "undo", "delete", "success"}
<1>1. RunServer \/ NothingToVerify \/ EmtVerify \/ CommitUpdate \/ EmtVerdict \/ CheckConfig
  BY DEF EmtRequests, ServerStep, VerifyPackages, CheckNetworkConnection, UndoChange,
     DeleteAndReboot, UbuntuVerdict, Starts
<1>2. QED
  BY <1>1 DEF RunServer, NothingToVerify, EmtVerify, CommitUpdate, EmtVerdict, CheckConfig,
     Starts

LEMMA CallsServedStep ==
  ASSUME CallTypeOK, FileTypeOK, CallsServed, [Next]_vars PROVE CallsServed'
<1>1. ASSUME NEW c \in Calls, SotaStep(c) PROVE CallsServed'
  BY <1>1, SotaCallsMove, SotaMachine DEF SotaCalls, CallsServed
<1>2. Quiet => CallsServed'
  BY DEF Quiet, CallsServed
<1>3. ServerStep => CallsServed'
  BY ServerQuiet DEF CallsServed
<1>4. Boot \/ Kill => CallsServed'
  BY BootClears, GoneIdle, Zenon DEF CallsServed, AllIdle, Kill
<1>5. QED
  BY <1>1, <1>2, <1>3, <1>4, QuietSteps, Zenon DEF Next, Reboot, PowerLoss

LEMMA OneSotaStep ==
  ASSUME CallTypeOK, FileTypeOK, OneSota, [Next]_vars PROVE OneSota'
<1>0. faults \subseteq faults'
  BY FaultsGrow
<1>1. ASSUME NEW c \in Calls, SotaStep(c) PROVE OneSota'
  <2>1. CASE UpdateSystemSoftware(c)
    <3>1. "overlap" \in faults' \/ InFlight("sota") = {}
      BY <2>1, TakesTurnsGrows, Zenon DEF UpdateSystemSoftware
    <3>2. InFlight("sota") = {} => \A d \in Calls : ~IsSota(d)
      BY DEF InFlight, IsSota
    <3>3. OthersKept(c)
      BY <2>1, SotaArrives
    <3>4. QED
      BY <3>1, <3>2, <3>3 DEF OneSota, OthersKept, IsSota
  <2>2. CASE IsSota(c) /\ (Leaves(c) \/ \E pc \in Steps : Moves(c, pc))
    <3>1. OthersKept(c)
      BY <2>2, Zenon DEF Leaves, Moves
    <3>2. QED
      BY <1>0, <2>2, <3>1 DEF OneSota, OthersKept, IsSota
  <2>3. QED
    BY <1>1, <2>1, <2>2, SotaCallsMove, Zenon DEF SotaCalls
<1>2. Quiet => OneSota'
  BY <1>0 DEF Quiet, OneSota, IsSota
<1>3. ServerStep => OneSota'
  BY <1>0, ServerQuiet DEF OneSota, IsSota
<1>4. Boot \/ Kill => OneSota'
  <2>1. Boot \/ Kill => AllIdle'
    BY BootClears, GoneIdle, Zenon DEF AllIdle, Kill
  <2>2. QED
    BY <2>1, IdleIsNone DEF AllIdle, OneSota, IsSota
<1>5. QED
  BY <1>1, <1>2, <1>3, <1>4, QuietSteps, Zenon DEF Next, Reboot, PowerLoss

LEMMA EmtRequestsStep ==
  ASSUME CallTypeOK, EmtRequests, [Next]_vars PROVE EmtRequests'
<1>0. SUFFICES ASSUME os = "emt" PROVE EmtRequests'
  BY OsUnchanged, Zenon DEF EmtRequests
<1>1. /\ \A c \in Calls : IsSota(c) => EmtRequest(c)
      /\ daemon \notin {"network", "undo", "delete", "success"}
  BY <1>0 DEF EmtRequests
<1>2. ASSUME NEW c \in Calls, SotaStep(c) PROVE EmtRequests'
  <2>1. EmtSota(c)
    BY <1>0, <1>1, <1>2, EmtSotaSteps
  <2>2. OthersKept(c) /\ (IsSota(c)' => EmtRequest(c)') /\ UNCHANGED daemon
    BY <2>1, IdleIsNone, Zenon DEF EmtSota, EmtArrives, EmtWorks, EmtArms, EmtCleans, EmtReboots,
       Leaves, Moves, IsSota
  <2>3. QED
    BY <1>1, <2>2 DEF EmtRequests, OthersKept, IsSota, EmtRequest
<1>3. Quiet => EmtRequests'
  BY <1>1 DEF Quiet, EmtRequests, IsSota, EmtRequest
<1>4. ServerStep => EmtRequests'
  BY <1>0, <1>1, EmtServer, ServerQuiet DEF EmtRequests, IsSota, EmtRequest
<1>5. Boot \/ Kill => EmtRequests'
  <2>1. Boot \/ Kill => AllIdle' /\ daemon' \in {"dead", "down"}
    BY BootClears, GoneIdle DEF AllIdle, Kill
  <2>2. QED
    BY <2>1, IdleIsNone DEF AllIdle, EmtRequests, IsSota
<1>6. QED
  BY <1>2, <1>3, <1>4, <1>5, QuietSteps, Zenon DEF Next, Reboot, PowerLoss

(***************************************************************************)
(* The image that runs is whole, and one is set for the next boot only     *)
(* while inbd serves.                                                      *)
(***************************************************************************)
RunningWhole == daemon # "dead" => part[current] # Torn
NextAtWork == "kill" \notin faults /\ daemon # "serving" => next = "none"

LEMMA VersionsWhole == \A v \in Versions : v # Torn
BY MaxVersionNat DEF Versions, Torn

LEMMA EmtSotaRunning ==
  ASSUME DiskInv, NEW c \in Calls, EmtSota(c)
  PROVE  UNCHANGED <<current, default, Running>>
<1>1. part \in [Partitions -> Contents] /\ current \in Partitions /\ UNCHANGED <<current, default>>
  BY TypedDisk, Zenon DEF EmtSota, EmtArrives, EmtWorks, EmtArms, EmtCleans, EmtReboots,
     diskVars
<1>2. UNCHANGED part \/ \E v : part' = [part EXCEPT ![Other(current)] = v]
  BY Zenon DEF EmtSota, EmtArrives, EmtWorks, EmtArms, EmtCleans, EmtReboots, diskVars
<1>3. Other(current) # current
  BY <1>1 DEF Other, Partitions
<1>4. part'[current] = part[current]
  BY <1>1, <1>2, <1>3
<1>5. QED
  BY <1>1, <1>4, Zenon DEF Running

LEMMA RunningWholeStep ==
  ASSUME DiskInv, EmtRequests, RunningWhole, [Next]_vars PROVE RunningWhole'
<1>0. CallTypeOK /\ FileTypeOK /\ os \in {"emt", "ubuntu"}
  BY MaxVersionNat DEF DiskInv, TypeOK, MachineTypeOK
<1>1. CASE os = "ubuntu"
  <2>1. part'[current'] \in Versions
    BY <1>1, UbuntuDiskStep, OsUnchanged, Zenon DEF UbuntuDisk
  <2>2. QED
    BY <2>1, VersionsWhole, Zenon DEF RunningWhole
<1>2. CASE os = "emt"
  <2>1. ASSUME NEW c \in Calls, SotaStep(c) PROVE RunningWhole'
    <3>1. EmtSota(c)
      BY <1>0, <1>2, <2>1, EmtSotaSteps, Zenon DEF EmtRequests
    <3>2. QED
      BY <3>1, EmtSotaRunning, Zenon DEF RunningWhole, Running, EmtSota
  <2>2. Quiet => RunningWhole'
    BY Zenon DEF Quiet, diskVars, RunningWhole
  <2>3. ServerStep => RunningWhole'
    <3>1. ServerStep => ~UndoChange
      BY <1>2 DEF EmtRequests, UndoChange, Starts
    <3>2. QED
      BY <3>1, ServerQuiet, Zenon DEF RunningWhole
  <2>4. Boot => RunningWhole'
    BY BootClears DEF RunningWhole
  <2>5. Kill => RunningWhole'
    BY DEF Kill, RunningWhole, diskVars
  <2>6. QED
    BY <1>0, <2>1, <2>2, <2>3, <2>4, <2>5, QuietSteps, Zenon DEF Next, Reboot, PowerLoss
<1>3. QED
  BY <1>0, <1>1, <1>2

LEMMA NextAtWorkStep ==
  ASSUME CallTypeOK, FileTypeOK, NextAtWork, [Next]_vars PROVE NextAtWork'
<1>0. faults \subseteq faults'
  BY FaultsGrow
<1>1. ASSUME NEW c \in Calls, SotaStep(c) PROVE NextAtWork'
  BY <1>1, SotaCallsMove, SotaMachine, Zenon DEF SotaCalls, NextAtWork
<1>2. Quiet => NextAtWork'
  BY <1>0 DEF Quiet, diskVars, NextAtWork
<1>3. ServerStep => NextAtWork'
  BY <1>0, ServerQuiet DEF NextAtWork
<1>4. Boot => NextAtWork'
  BY BootClears, Zenon DEF NextAtWork
<1>5. Kill => NextAtWork'
  BY FaultGrows, Zenon DEF Kill, NextAtWork
<1>6. QED
  BY <1>1, <1>2, <1>3, <1>4, <1>5, QuietSteps, Zenon DEF Next, Reboot, PowerLoss

(***************************************************************************)
(* EMT: the state file and the partition that waits for the next boot.     *)
(***************************************************************************)
ArmReady ==
    os = "emt" /\ "overlap" \notin faults =>
        \A c \in Calls : IsSota(c) /\ call[c].pc = "arm" => Recorded
ArmedGoing ==
    /\ Recorded /\ daemon = "serving"
    /\ rebooting \/ \E c \in Calls : IsSota(c)
    /\ \A c \in Calls : IsSota(c) =>
          call[c].pc \in {"clean", "reboot"} /\ call[c].mode # "download_only"
RebootFailed == "reboot" \in faults /\ granular.status = "FAIL"
ArmInv ==
    os = "emt" /\ faults \subseteq {"power", "reboot"} /\ next # "none" =>
        ArmedGoing \/ RebootFailed
EmtInv == CallsInv /\ RunningWhole /\ NextAtWork /\ ArmReady /\ ArmInv

LEMMA ArmReadyStep ==
  ASSUME DiskInv, EmtInv, [Next]_vars PROVE ArmReady'
<1>0. /\ CallTypeOK /\ FileTypeOK /\ faults \subseteq faults' /\ UNCHANGED os
      /\ OneSota /\ EmtRequests /\ ArmReady
  BY FaultsGrow, OsUnchanged, Zenon DEF DiskInv, TypeOK, EmtInv, CallsInv
<1>1. SUFFICES ASSUME os = "emt", "overlap" \notin faults' PROVE ArmReady'
  BY <1>0, Zenon DEF ArmReady
<1>2. /\ \A c, d \in Calls : IsSota(c) /\ IsSota(d) => c = d
      /\ \A c \in Calls : IsSota(c) /\ call[c].pc = "arm" => Recorded
  BY <1>0, <1>1 DEF OneSota, ArmReady
<1>3. ASSUME NEW c \in Calls, SotaStep(c) PROVE ArmReady'
  <2>1. EmtSota(c)
    BY <1>0, <1>1, <1>3, EmtSotaSteps, Zenon DEF EmtRequests
  <2>2. \A d \in Calls \ {c} : ~IsSota(d)'
    <3>1. OthersKept(c) /\ \A d \in Calls \ {c} : ~IsSota(d)
      BY <1>1, <1>2, <2>1 DEF EmtSota, EmtArrives, EmtWorks, EmtArms, EmtCleans, EmtReboots,
         Leaves, Moves
    <3>2. QED
      BY <3>1 DEF OthersKept, IsSota
  <2>3. IsSota(c)' /\ call'[c].pc = "arm" => Recorded'
    BY <2>1, IdleIsNone DEF EmtSota, EmtArrives, EmtWorks, EmtArms, EmtCleans, EmtReboots,
       Leaves, Moves, IsSota
  <2>4. QED
    BY <2>2, <2>3 DEF ArmReady
<1>4. Quiet => ArmReady'
  BY <1>2 DEF Quiet, ArmReady, IsSota, Recorded, Running, sotaVars, diskVars
<1>5. ServerStep => ArmReady'
  <2>1. ServerStep => AllIdle /\ UNCHANGED call
    BY ServerQuiet, Zenon DEF EmtInv, CallsInv, CallsServed, AllIdle
  <2>2. QED
    BY <2>1, IdleIsNone DEF AllIdle, ArmReady, IsSota
<1>6. Boot \/ Kill => ArmReady'
  <2>1. Boot \/ Kill => AllIdle'
    BY BootClears, GoneIdle, Zenon DEF AllIdle, Kill
  <2>2. QED
    BY <2>1, IdleIsNone DEF AllIdle, ArmReady, IsSota
<1>7. QED
  BY <1>0, <1>3, <1>4, <1>5, <1>6, QuietSteps, Zenon DEF Next, Reboot, PowerLoss

LEMMA ArmInvStep ==
  ASSUME DiskInv, EmtInv, [Next]_vars PROVE ArmInv'
<1>0. /\ CallTypeOK /\ FileTypeOK /\ faults \subseteq faults' /\ UNCHANGED os
      /\ OneSota /\ EmtRequests /\ ArmReady /\ NextAtWork /\ ArmInv
  BY FaultsGrow, OsUnchanged, Zenon DEF DiskInv, TypeOK, EmtInv, CallsInv
<1>1. SUFFICES ASSUME os = "emt", faults' \subseteq {"power", "reboot"}, next' # "none"
               PROVE  ArmedGoing' \/ RebootFailed'
  BY <1>0, Zenon DEF ArmInv
<1>2. /\ "overlap" \notin faults' /\ "overlap" \notin faults /\ "kill" \notin faults'
      /\ "kill" \notin faults /\ faults \subseteq {"power", "reboot"}
  BY <1>0, <1>1
<1>3. ASSUME NEW c \in Calls, SotaStep(c) PROVE ArmedGoing' \/ RebootFailed'
  <2>1. EmtSota(c) /\ daemon = "serving" /\ daemon' = "serving" /\ UNCHANGED Running
    BY <1>0, <1>1, <1>3, EmtSotaSteps, EmtSotaRunning, Zenon DEF EmtRequests, EmtSota
  <2>2. CASE EmtArrives(c)
    <3>1. UNCHANGED <<next, granular>> /\ ~rebooting /\ \A d \in Calls : ~IsSota(d)
      BY <1>2, <2>2, Zenon DEF EmtArrives, diskVars, sotaVars
    <3>2. RebootFailed
      BY <1>0, <1>1, <1>2, <3>1, Zenon DEF ArmInv, ArmedGoing
    <3>3. QED
      BY <1>0, <3>1, <3>2 DEF RebootFailed
  <2>3. CASE EmtWorks(c)
    <3>1. ~ArmedGoing /\ UNCHANGED next
      BY <2>3, Zenon DEF EmtWorks, ArmedGoing
    <3>2. RebootFailed
      BY <1>0, <1>1, <1>2, <3>1, Zenon DEF ArmInv
    <3>3. granular'.status = "FAIL"
      BY <2>3, <3>2 DEF EmtWorks, RebootFailed
    <3>4. QED
      BY <1>0, <3>2, <3>3 DEF RebootFailed
  <2>4. CASE EmtArms(c)
    <3>1. Recorded' /\ IsSota(c) /\ IsSota(c)' /\ call'[c].pc = "clean"
          /\ call'[c].mode = "no_download" /\ OthersKept(c)
      <4>1. Recorded /\ UNCHANGED stateFile /\ IsSota(c) /\ call[c].mode = "no_download"
        BY <1>0, <1>1, <1>2, <2>4 DEF EmtArms, ArmReady, EmtRequests, EmtRequest
      <4>2. QED
        BY <2>1, <2>4, <4>1, Zenon DEF EmtArms, Recorded, Moves, IsSota
    <3>2. \A d \in Calls \ {c} : ~IsSota(d)'
      BY <1>0, <1>2, <3>1 DEF OneSota, OthersKept, IsSota
    <3>3. QED
      BY <2>1, <3>1, <3>2 DEF ArmedGoing
  <2>5. CASE EmtCleans(c)
    <3>1. UNCHANGED <<next, stateFile, granular, faults, rebooting>> /\ OthersKept(c)
      BY <2>5, Zenon DEF EmtCleans, diskVars, Moves, Leaves
    <3>2. CASE ArmedGoing
      <4>1. Moves(c, "reboot")
        BY <2>5, <3>2, Zenon DEF EmtCleans, ArmedGoing
      <4>2. QED
        BY <2>1, <2>5, <3>1, <3>2, <4>1
           DEF EmtCleans, ArmedGoing, Recorded, Moves, OthersKept, IsSota
    <3>3. QED
      BY <1>0, <1>1, <1>2, <3>1, <3>2, Zenon DEF ArmInv, RebootFailed
  <2>6. CASE EmtReboots(c)
    <3>1. UNCHANGED <<next, stateFile>> /\ OthersKept(c) /\ call'[c] = Idle
      BY <2>6, Zenon DEF EmtReboots, diskVars, Leaves
    <3>2. CASE "reboot" \in faults' /\ Log("FAIL")
      BY <3>2 DEF Log, RebootFailed
    <3>3. CASE rebooting' = TRUE /\ UNCHANGED <<granular, faults>>
      <4>1. ArmedGoing \/ RebootFailed
        BY <1>0, <1>1, <1>2, <3>1, Zenon DEF ArmInv
      <4>2. CASE ArmedGoing
        BY <2>1, <3>1, <3>3, <4>2, IdleIsNone DEF ArmedGoing, Recorded, OthersKept, IsSota
      <4>3. QED
        BY <3>3, <4>1, <4>2, Zenon DEF RebootFailed
    <3>4. QED
      BY <2>6, <3>2, <3>3, Zenon DEF EmtReboots
  <2>7. QED
    BY <2>1, <2>2, <2>3, <2>4, <2>5, <2>6, Zenon DEF EmtSota
<1>4. CASE Quiet
  <2>1. UNCHANGED <<next, stateFile, granular, Running, daemon>>
    BY <1>4, Zenon DEF Quiet, diskVars, sotaVars, Running
  <2>2. ArmedGoing => ArmedGoing'
    BY <1>4, <2>1 DEF Quiet, ArmedGoing, Recorded, IsSota
  <2>3. RebootFailed => RebootFailed'
    BY <1>0, <2>1 DEF RebootFailed
  <2>4. QED
    BY <1>0, <1>1, <1>2, <2>1, <2>2, <2>3, Zenon DEF ArmInv
<1>5. ~ServerStep
  BY <1>0, <1>1, <1>2, ServerQuiet, Zenon DEF NextAtWork
<1>6. ~Boot
  BY <1>1, BootClears, Zenon
<1>7. ~Kill
  BY <1>2, FaultGrows, Zenon DEF Kill
<1>8. QED
  BY <1>0, <1>3, <1>4, <1>5, <1>6, <1>7, QuietSteps, Zenon DEF Next, Reboot, PowerLoss

(***************************************************************************)
(* EMT: where an image may run that is not the default one, while nothing  *)
(* but losses of power disturbs the update.                                *)
(***************************************************************************)
OnTrial ==
    \/ daemon \in {"down", "verify"} /\ stateFile.reason = "sota"
    \/ daemon \in {"commit", "revert"}
    \/ rebooting /\ \A c \in Calls : ~IsSota(c)
KeptInv ==
    os = "emt" /\ faults \subseteq {"power"} =>
        part[default] # Torn /\ daemon # "dead" /\ (current # default => OnTrial)

LEMMA KeptInvStep ==
  ASSUME DiskInv, EmtInv, KeptInv, [Next]_vars PROVE KeptInv'
<1>0. /\ CallTypeOK /\ FileTypeOK /\ faults \subseteq faults' /\ UNCHANGED os
      /\ CallsServed /\ EmtRequests /\ RunningWhole /\ ArmInv
  BY FaultsGrow, OsUnchanged, Zenon DEF DiskInv, TypeOK, EmtInv, CallsInv
<1>1. SUFFICES ASSUME os = "emt", faults' \subseteq {"power"}
               PROVE  part'[default'] # Torn /\ daemon' # "dead"
                      /\ (current' # default' => OnTrial')
  BY <1>0, Zenon DEF KeptInv
<1>2. /\ part[default] # Torn /\ daemon # "dead" /\ (current # default => OnTrial)
      /\ part[current] # Torn
      /\ \A kind \in faults' : kind = "power"
      /\ next # "none" => Recorded
  <2>1. faults \subseteq {"power"} /\ faults \subseteq {"power", "reboot"}
        /\ "reboot" \notin faults
    BY <1>0, <1>1
  <2>2. next # "none" => Recorded
    BY <1>0, <1>1, <2>1, Zenon DEF ArmInv, ArmedGoing, RebootFailed
  <2>3. QED
    BY <1>0, <1>1, <2>1, <2>2 DEF KeptInv, RunningWhole
<1>3. ASSUME NEW c \in Calls, SotaStep(c)
      PROVE  part'[default'] # Torn /\ daemon' # "dead" /\ (current' # default' => OnTrial')
  <2>1. EmtSota(c) /\ UNCHANGED <<current, default, Running>>
        /\ daemon = "serving" /\ daemon' = "serving"
    BY <1>0, <1>1, <1>3, EmtSotaSteps, EmtSotaRunning, Zenon DEF EmtRequests, EmtSota
  <2>2. IsSota(c) \/ ~rebooting
    BY <1>2, <2>1, Zenon DEF EmtSota, EmtArrives, EmtWorks, EmtArms, EmtCleans, EmtReboots
  <2>3. current = default
    BY <1>2, <2>1, <2>2 DEF OnTrial
  <2>4. QED
    BY <1>2, <2>1, <2>3, Zenon DEF Running
<1>4. CASE Quiet
  <2>1. UNCHANGED <<part, current, default, daemon, stateFile>>
    BY <1>4, Zenon DEF Quiet, diskVars, sotaVars
  <2>2. OnTrial => OnTrial'
    BY <1>4, <2>1 DEF Quiet, OnTrial, IsSota
  <2>3. QED
    BY <1>2, <2>1, <2>2, Zenon
<1>5. CASE ServerStep
  <2>1. /\ UNCHANGED <<call, current>> /\ daemon' # "dead"
        /\ (UNCHANGED default \/ default' = current)
        /\ (\A c \in Calls : ~IsSota(c))
        /\ RunServer \/ NothingToVerify \/ EmtVerify \/ CommitUpdate \/ EmtVerdict
           \/ CheckConfig
    <3>1. AllIdle
      BY <1>0, <1>5, ServerQuiet, Zenon DEF CallsServed, AllIdle
    <3>2. UNCHANGED default \/ default' = current
      BY <1>5, ServerQuiet, Zenon DEF CommitUpdate
    <3>3. QED
      BY <1>0, <1>1, <1>5, <3>1, <3>2, IdleCalls, ServerQuiet, EmtServer, Zenon
  <2>2. UNCHANGED part
    BY <2>1, Zenon DEF RunServer, NothingToVerify, EmtVerify, CommitUpdate, EmtVerdict,
       CheckConfig, StartKeeps, StartKeepsButFaults
  <2>3. ASSUME current' # default' PROVE OnTrial'
    <3>1. UNCHANGED default /\ current # default /\ OnTrial
      BY <1>2, <2>1, <2>3, Zenon
    <3>2. \A c \in Calls : ~IsSota(c)'
      BY <2>1, Zenon DEF IsSota
    <3>3. CASE rebooting
      <4>1. rebooting' = TRUE \/ UNCHANGED rebooting
        BY <2>1, Zenon DEF RunServer, NothingToVerify, EmtVerify, CommitUpdate, EmtVerdict,
           CheckConfig, NoVerdict, RebootSystem
      <4>2. QED
        BY <3>2, <3>3, <4>1, Zenon DEF OnTrial
    <3>4. CASE ~rebooting
      <4>1. CASE RunServer
        BY <3>1, <3>4, <4>1 DEF OnTrial, RunServer, Starts, NoVerdict, sotaVars
      <4>2. CASE EmtVerify
        BY <4>2 DEF EmtVerify, Starts, OnTrial
      <4>3. CASE CommitUpdate
        BY <1>1, <2>1, <3>1, <4>3, FaultGrows DEF CommitUpdate
      <4>4. CASE EmtVerdict
        <5>1. Starts("revert", "config") /\ RebootSystem
          BY <1>2, <3>1, <3>4, <4>4, FaultGrows DEF EmtVerdict, Starts, OnTrial
        <5>2. QED
          BY <3>2, <5>1, Zenon DEF RebootSystem, OnTrial
      <4>5. ~NothingToVerify /\ ~CheckConfig
        BY <3>1, <3>4 DEF NothingToVerify, CheckConfig, OnTrial, Starts
      <4>6. QED
        BY <2>1, <4>1, <4>2, <4>3, <4>4, <4>5
    <3>5. QED
      BY <3>3, <3>4
  <2>4. QED
    BY <1>2, <2>1, <2>2, <2>3, Zenon
<1>6. CASE Boot
  <2>1. /\ UNCHANGED <<part, default, stateFile>>
        /\ daemon' = IF part'[current'] = Torn THEN "dead" ELSE "down"
    BY <1>6, BootClears, Zenon DEF sotaVars
  <2>2. \/ current' = default
        \/ next # "none" /\ current' = next /\ part[next] \in Versions
    BY <1>6 DEF Boot
  <2>3. CASE current' = default
    BY <1>2, <2>1, <2>3
  <2>4. CASE next # "none" /\ current' = next /\ part[next] \in Versions
    <3>1. part'[current'] # Torn /\ stateFile'.reason = "sota"
      BY <1>2, <2>1, <2>4, VersionsWhole, Zenon DEF Recorded
    <3>2. QED
      BY <1>2, <2>1, <3>1 DEF OnTrial
  <2>5. QED
    BY <2>2, <2>3, <2>4
<1>7. ~Kill
  BY <1>2, FaultGrows DEF Kill
<1>8. QED
  BY <1>0, <1>3, <1>4, <1>5, <1>6, <1>7, QuietSteps, Zenon DEF Next, Reboot, PowerLoss

(***************************************************************************)
(* EMT: what a start of inbd finds, and the update log, whatever fails.    *)
(* Between the removal of the state file and the verdict there is nothing  *)
(* to verify; the log is true unless a verdict on it is still to come.     *)
(***************************************************************************)
EmtStarts ==
    os = "emt" =>
        /\ stateFile.reason # "package"
        /\ daemon \in {"commit", "committed", "revert"} => stateFile.reason \in {"absent", "empty"}
        /\ daemon = "committed" => current = default
        /\ daemon = "dead" => next = "none" /\ current = default /\ part[current] = Torn
LogIsTrue ==
    \/ daemon \in {"commit", "committed", "revert", "dead"}
    \/ daemon \in {"down", "verify"} /\ stateFile.reason = "sota"
    \/ granular.version = Running /\ (next = "none" => current = default)
EmtLog == os = "emt" /\ granular.status = "SUCCESS" /\ ~unjudged => LogIsTrue

LEMMA EmtStateFile ==
  ASSUME NEW c \in Calls, os = "emt", IsSota(c) => EmtRequest(c), SotaStep(c),
         stateFile.reason # "package"
  PROVE  stateFile'.reason # "package"
<1>1. ~PackageState(c) /\ ~WritePackageState(c) /\ ~RunCommands(c)
  BY DEF PackageState, WritePackageState, RunCommands, Sota, AtStep, IsSota, EmtRequest
<1>2. UNCHANGED stateFile \/ Snapshot(c) \/ WriteToStateFile(c)
  BY <1>1, Zenon DEF SotaStep, UpdateSystemSoftware, Arrive, Download, DownloadFile,
     SnapshotFails, EmtUpdate, UpdateToolWrite, UpdateToolWritten, UpdateToolApply,
     UbuntuUpdate, Clean, RebootAfterUpdate, NoFiles, sotaVars
<1>3. Snapshot(c) => stateFile'.reason # "package"
  BY DEF Snapshot, EmtSnapshot, UbuntuSnapshot, ClearStateFile, NoState
<1>4. WriteToStateFile(c) => stateFile'.reason # "package"
  BY DEF WriteToStateFile
<1>5. QED
  BY <1>2, <1>3, <1>4

LEMMA EmtStartsStep ==
  ASSUME DiskInv, EmtInv, EmtStarts, [Next]_vars PROVE EmtStarts'
<1>0. CallTypeOK /\ FileTypeOK /\ UNCHANGED os /\ EmtRequests
  BY OsUnchanged, Zenon DEF DiskInv, TypeOK, EmtInv, CallsInv
<1>1. SUFFICES ASSUME os = "emt" PROVE EmtStarts'
  BY <1>0, Zenon DEF EmtStarts
<1>2. /\ stateFile.reason # "package"
      /\ daemon \in {"commit", "committed", "revert"} => stateFile.reason \in {"absent", "empty"}
      /\ daemon = "committed" => current = default
      /\ daemon = "dead" => next = "none" /\ current = default /\ part[current] = Torn
  BY <1>1 DEF EmtStarts
<1>3. ASSUME NEW c \in Calls, SotaStep(c) PROVE EmtStarts'
  <2>1. daemon' = "serving"
    BY <1>0, <1>3, SotaCallsMove, SotaMachine, Zenon DEF SotaCalls
  <2>2. stateFile'.reason # "package"
    BY <1>0, <1>1, <1>2, <1>3, EmtStateFile, Zenon DEF EmtRequests
  <2>3. QED
    BY <2>1, <2>2 DEF EmtStarts
<1>4. Quiet => EmtStarts'
  BY <1>2 DEF Quiet, EmtStarts, diskVars, sotaVars
<1>5. CASE ServerStep
  <2>1. UNCHANGED current /\ daemon' # "dead"
    BY <1>5, ServerQuiet
  <2>2. CASE RunServer
    BY <1>2, <2>1, <2>2 DEF RunServer, Starts, NoVerdict, sotaVars, EmtStarts
  <2>3. CASE NothingToVerify
    BY <1>2, <2>1, <2>3 DEF NothingToVerify, Starts, NoVerdict, sotaVars, EmtStarts
  <2>4. CASE EmtVerify
    <3>1. stateFile'.reason = "absent"
      BY <2>4 DEF EmtVerify, NoState
    <3>2. QED
      BY <2>1, <2>4, <3>1 DEF EmtVerify, Starts, EmtStarts
  <2>5. CASE CommitUpdate
    BY <1>2, <2>1, <2>5 DEF CommitUpdate, Starts, EmtStarts
  <2>6. CASE EmtVerdict
    BY <1>2, <2>1, <2>6 DEF EmtVerdict, Starts, EmtStarts
  <2>7. CASE CheckConfig
    BY <1>2, <2>1, <2>7 DEF CheckConfig, Starts, NoVerdict, sotaVars, EmtStarts
  <2>8. QED
    BY <1>0, <1>1, <1>5, <2>2, <2>3, <2>4, <2>5, <2>6, <2>7, EmtServer, Zenon
<1>6. CASE Boot
  <2>1. /\ UNCHANGED <<part, default, stateFile>> /\ next' = "none"
        /\ daemon' = (IF part'[current'] = Torn THEN "dead" ELSE "down")
    BY <1>6, BootClears, Zenon DEF sotaVars
  <2>2. current' # default => part'[current'] # Torn
    BY <1>6, VersionsWhole, Zenon DEF Boot
  <2>3. QED
    BY <1>2, <2>1, <2>2 DEF EmtStarts
<1>7. CASE Kill
  BY <1>2, <1>7 DEF Kill, EmtStarts, sotaVars
<1>8. QED
  BY <1>0, <1>3, <1>4, <1>5, <1>6, <1>7, QuietSteps, Zenon DEF Next, Reboot, PowerLoss

LEMMA EmtLogStep ==
  ASSUME DiskInv, EmtInv, EmtStarts, EmtLog, [VerdictsNext]_<<vars, unjudged>> PROVE EmtLog'
<1>0. /\ [Next]_vars /\ CallTypeOK /\ FileTypeOK /\ UNCHANGED os /\ EmtRequests
      /\ \/ unjudged' = (StartsWithoutState \/ (unjudged /\ granular' = granular))
         \/ UNCHANGED <<vars, unjudged>>
  <2>1. [Next]_vars /\ ( \/ unjudged' = (StartsWithoutState \/ (unjudged /\ granular' = granular))
                         \/ UNCHANGED <<vars, unjudged>>)
    BY Zenon DEF VerdictsNext
  <2>2. QED
    BY <2>1, OsUnchanged, Zenon DEF DiskInv, TypeOK, EmtInv, CallsInv
<1>1. SUFFICES ASSUME os = "emt", granular'.status = "SUCCESS", ~unjudged' PROVE LogIsTrue'
  BY <1>0, Zenon DEF EmtLog
<1>2. /\ granular.status = "SUCCESS" /\ UNCHANGED granular => LogIsTrue
      /\ \/ ~StartsWithoutState
         \/ UNCHANGED vars
  <2>1. UNCHANGED granular => ~unjudged
    BY <1>0, <1>1, Zenon
  <2>2. ~StartsWithoutState \/ UNCHANGED vars
    BY <1>0, <1>1, Zenon
  <2>3. QED
    BY <1>1, <2>1, <2>2, Zenon DEF EmtLog
<1>3. /\ stateFile.reason # "package"
      /\ daemon \in {"commit", "committed", "revert"} => stateFile.reason \in {"absent", "empty"}
      /\ daemon = "committed" => current = default
      /\ daemon = "dead" => next = "none" /\ current = default /\ part[current] = Torn
      /\ stateFile.reason \in {"absent", "empty", "sota", "package"}
  BY <1>0, <1>1 DEF EmtStarts, FileTypeOK, INBDState
<1>4. ASSUME NEW c \in Calls, SotaStep(c) PROVE LogIsTrue'
  <2>1. EmtSota(c) /\ UNCHANGED <<current, default, Running>>
        /\ daemon = "serving" /\ daemon' = "serving"
    BY <1>0, <1>1, <1>4, EmtSotaSteps, EmtSotaRunning, Zenon DEF EmtRequests, EmtSota
  <2>2. CASE UNCHANGED <<next, granular>>
    BY <1>1, <1>2, <2>1, <2>2 DEF LogIsTrue
  <2>3. CASE EmtArms(c)
    <3>1. next' = Other(current) /\ granular'.version = Running'
      BY <2>1, <2>3 DEF EmtArms, Log
    <3>2. next' # "none"
      BY <3>1 DEF Other
    <3>3. QED
      BY <3>1, <3>2 DEF LogIsTrue
  <2>4. CASE granular' = [status |-> "FAIL", version |-> Running]
    BY <1>1, <2>4
  <2>5. \/ UNCHANGED <<next, granular>> \/ EmtArms(c)
        \/ granular' = [status |-> "FAIL", version |-> Running]
    BY <2>1 DEF EmtSota, EmtArrives, EmtWorks, EmtCleans, EmtReboots, diskVars, sotaVars, Log
  <2>6. QED
    BY <2>2, <2>3, <2>4, <2>5
<1>5. CASE Quiet
  <2>1. UNCHANGED <<current, default, next, stateFile, granular, Running, daemon>>
    BY <1>5, Zenon DEF Quiet, diskVars, sotaVars, Running
  <2>2. QED
    BY <1>1, <1>2, <2>1 DEF LogIsTrue
<1>6. CASE ServerStep
  <2>1. /\ UNCHANGED <<current, next>> /\ daemon # "serving" /\ daemon # "dead"
        /\ RunServer \/ NothingToVerify \/ EmtVerify \/ CommitUpdate \/ EmtVerdict
           \/ CheckConfig
    BY <1>0, <1>1, <1>6, ServerQuiet, EmtServer
  <2>2. UNCHANGED Running
    BY <2>1, Zenon DEF RunServer, NothingToVerify, EmtVerify, CommitUpdate, EmtVerdict,
       CheckConfig, StartKeeps, StartKeepsButFaults, Running
  <2>3. CASE RunServer
    BY <1>1, <1>2, <2>1, <2>2, <2>3 DEF LogIsTrue, RunServer, Starts, NoVerdict, sotaVars
  <2>4. CASE NothingToVerify
    BY <1>1, <1>2, <2>1, <2>2, <2>4 DEF LogIsTrue, NothingToVerify, Starts, NoVerdict, sotaVars
  <2>5. CASE EmtVerify
    BY <2>5 DEF LogIsTrue, EmtVerify, Starts
  <2>6. CASE CommitUpdate
    BY <1>1, <2>6 DEF LogIsTrue, CommitUpdate, Starts, Log
  <2>7. CASE EmtVerdict
    BY <1>1, <1>3, <2>1, <2>2, <2>7 DEF LogIsTrue, EmtVerdict, Starts, Log
  <2>8. CASE CheckConfig
    BY <1>1, <1>2, <2>1, <2>2, <2>8 DEF LogIsTrue, CheckConfig, Starts, NoVerdict, sotaVars
  <2>9. QED
    BY <2>1, <2>3, <2>4, <2>5, <2>6, <2>7, <2>8
<1>7. CASE Boot \/ Kill
  <2>1. CASE UNCHANGED vars
    <3>1. UNCHANGED <<current, default, next, stateFile, granular, part, daemon>>
      BY <2>1, Zenon DEF vars, diskVars, sotaVars
    <3>2. QED
      BY <1>1, <1>2, <3>1 DEF LogIsTrue, Running
  <2>2. CASE ~StartsWithoutState
    <3>1. /\ UNCHANGED <<part, default, stateFile, granular>> /\ daemon' \in {"dead", "down"}
      BY <1>7, BootClears DEF Kill, diskVars, sotaVars
    <3>2. SUFFICES ASSUME daemon' = "down" PROVE LogIsTrue'
      BY <3>1 DEF LogIsTrue
    <3>3. SUFFICES ASSUME stateFile.reason # "sota" PROVE LogIsTrue'
      BY <3>1, <3>2 DEF LogIsTrue
    <3>4. next = "none" /\ daemon \notin {"commit", "committed", "revert"}
      BY <1>3, <2>2, <3>1, <3>2, <3>3 DEF StartsWithoutState
    <3>5. next' = "none" /\ (current = default => current' = default)
      BY <1>7, <3>4, BootClears, Zenon DEF Boot, Kill, diskVars
    <3>6. daemon # "dead"
      BY <1>3, <1>7, <3>1, <3>2, <3>5, BootClears DEF Kill
    <3>7. granular.version = Running /\ current = default
      BY <1>1, <1>2, <3>1, <3>3, <3>4, <3>6 DEF LogIsTrue
    <3>8. QED
      BY <3>1, <3>5, <3>7 DEF LogIsTrue, Running
  <2>3. QED
    BY <1>2, <2>1, <2>2
<1>8. QED
  BY <1>0, <1>4, <1>5, <1>6, <1>7, QuietSteps, Zenon DEF Next, Reboot, PowerLoss

(***************************************************************************)
(* Ubuntu: the update log names the packages that run, unless a snapshot   *)
(* has been restored and the verifier has not come to its verdict; then    *)
(* the state file still says so.                                           *)
(***************************************************************************)
ToVerify == stateFile.reason \in {"sota", "package"}
UbuntuLog ==
    os = "ubuntu" =>
        /\ daemon \in {"network", "undo", "delete"} => ToVerify
        /\ granular.status = "SUCCESS" =>
              \/ granular.version = Running
              \/ /\ daemon \in {"down", "verify", "network", "undo", "delete", "success"}
                 /\ ToVerify

LEMMA UbuntuSotaLog ==
  ASSUME NEW c \in Calls, SotaStep(c), os = "ubuntu", granular'.status = "SUCCESS",
         UNCHANGED current
  PROVE  granular'.version = Running' \/ UNCHANGED <<granular, Running>>
<1>1. CASE RunCommands(c)
  <2>1. CASE LogAfter("SUCCESS")
    BY <2>1 DEF LogAfter, Running
  <2>2. CASE /\ call[c].mode = "no_download" /\ call[c].pkg
             /\ UNCHANGED granular /\ part' = Upgraded(c)
    BY <2>2 DEF Upgraded, Running
  <2>3. CASE LogAfter("FAIL")
    BY <2>3 DEF LogAfter
  <2>4. QED
    BY <1>1, <2>1, <2>2, <2>3, Zenon DEF RunCommands
<1>2. CASE UNCHANGED part
  <2>1. UNCHANGED granular \/ \E s : Log(s)
    <3>1. ~RunCommands(c) => UNCHANGED granular \/ \E s : Log(s)
      BY Zenon DEF SotaStep, UpdateSystemSoftware, Arrive, Download, IsDiskSpaceAvailable,
         DownloadFile, Snapshot, SnapshotFails, WriteToStateFile, EmtUpdate,
         UpdateToolWrite, UpdateToolWritten, UpdateToolApply, UbuntuUpdate, Refuse,
         PackageState, WritePackageState, Clean, RebootAfterUpdate, NoFiles, sotaVars
    <3>2. RunCommands(c) => UNCHANGED granular \/ \E s : Log(s)
      BY <1>2, Zenon DEF RunCommands, LogAfter, Log, Running
    <3>3. QED
      BY <3>1, <3>2
  <2>2. UNCHANGED Running
    BY <1>2, Zenon DEF Running
  <2>3. QED
    BY <2>1, <2>2 DEF Log
<1>3. UNCHANGED part \/ RunCommands(c)
  <2>1. os # "emt"
    OBVIOUS
  <2>2. QED
    BY <2>1, Zenon DEF SotaStep, UpdateSystemSoftware, Arrive, Download, DownloadFile,
       Snapshot, SnapshotFails, WriteToStateFile, EmtUpdate, UpdateToolWrite,
       UpdateToolWritten, UpdateToolApply, UbuntuUpdate, PackageState, WritePackageState,
       Clean, RebootAfterUpdate, NoDisk, diskVars
<1>4. QED
  BY <1>1, <1>2, <1>3

LEMMA UbuntuLogStep ==
  ASSUME DiskInv, UbuntuLog, [Next]_vars PROVE UbuntuLog'
<1>0. SUFFICES ASSUME os = "ubuntu" PROVE UbuntuLog'
  BY OsUnchanged, Zenon DEF UbuntuLog
<1>1. /\ CallTypeOK /\ FileTypeOK /\ UNCHANGED os /\ stateFile \in INBDState
      /\ current = default /\ next = "none" /\ part[current] \in Versions
      /\ daemon \in {"network", "undo", "delete"} => ToVerify
      /\ granular.status = "SUCCESS" =>
            \/ granular.version = Running
            \/ /\ daemon \in {"down", "verify", "network", "undo", "delete", "success"}
               /\ ToVerify
  BY <1>0, OsUnchanged, Zenon DEF DiskInv, TypeOK, FileTypeOK, UbuntuDisk, UbuntuLog
<1>2. ASSUME NEW c \in Calls, SotaStep(c) PROVE UbuntuLog'
  <2>1. daemon = "serving" /\ daemon' = "serving" /\ UNCHANGED current
    BY <1>1, <1>2, SotaCallsMove, SotaMachine, SotaDisk, Zenon
       DEF SotaCalls, DiskInv, TypeOK
  <2>2. QED
    BY <1>0, <1>1, <1>2, <2>1, UbuntuSotaLog DEF UbuntuLog
<1>3. CASE Quiet
  <2>1. UNCHANGED <<daemon, granular, Running, stateFile>>
    BY <1>3, Zenon DEF Quiet, diskVars, sotaVars, Running
  <2>2. QED
    BY <1>1, <2>1 DEF UbuntuLog, ToVerify
<1>4. CASE ServerStep
  <2> USE DEF Starts, ToVerify, UbuntuLog
  <2>1. UNCHANGED <<part, current>> => UNCHANGED Running
    BY Zenon DEF Running
  <2>2. CASE RunServer
    BY <1>1, <2>1, <2>2 DEF RunServer, NoVerdict, sotaVars, StartKeeps, StartKeepsButFaults
  <2>3. CASE NothingToVerify
    BY <1>1, <2>1, <2>3 DEF NothingToVerify, NoVerdict, sotaVars, StartKeeps,
       StartKeepsButFaults
  <2>4. CASE EmtVerify
    BY <1>0, <2>4 DEF EmtVerify
  <2>5. CASE CommitUpdate
    BY <1>1, <2>1, <2>5 DEF CommitUpdate, Log, StartKeepsButFaults
  <2>6. CASE EmtVerdict
    BY <1>1, <2>1, <2>6 DEF EmtVerdict, Log, StartKeepsButFaults
  <2>7. CASE VerifyPackages
    <3>1. UNCHANGED Running /\ ToVerify
      BY <1>1, <2>1, <2>7 DEF VerifyPackages, StartKeeps, StartKeepsButFaults, INBDState
    <3>2. QED
      BY <1>1, <2>7, <3>1 DEF VerifyPackages, Log
  <2>8. CASE CheckNetworkConnection
    BY <1>1, <2>1, <2>8 DEF CheckNetworkConnection, Log, StartKeeps, StartKeepsButFaults
  <2>9. CASE UndoChange
    BY <1>1, <2>1, <2>9 DEF UndoChange
  <2>10. CASE DeleteAndReboot
    BY <1>1, <2>1, <2>10 DEF DeleteAndReboot, StartKeepsButFaults
  <2>11. CASE UbuntuVerdict
    BY <1>1, <2>1, <2>11 DEF UbuntuVerdict, Log, StartKeeps, StartKeepsButFaults
  <2>12. CASE CheckConfig
    BY <1>1, <2>1, <2>12 DEF CheckConfig, NoVerdict, sotaVars, StartKeeps,
       StartKeepsButFaults
  <2>13. QED
    BY <1>4, <2>2, <2>3, <2>4, <2>5, <2>6, <2>7, <2>8, <2>9, <2>10, <2>11, <2>12
       DEF ServerStep
<1>5. CASE Boot
  <2>1. UNCHANGED <<part, stateFile, granular>> /\ current' = current
    BY <1>1, <1>5, Zenon DEF Boot, sotaVars
  <2>2. daemon' = "down" /\ UNCHANGED Running
    BY <1>1, <1>5, <2>1, BootClears, VersionsWhole, Zenon DEF Running
  <2>3. QED
    BY <1>1, <2>1, <2>2 DEF UbuntuLog, ToVerify
<1>6. CASE Kill
  <2>1. UNCHANGED <<stateFile, granular, Running>> /\ daemon' = "down"
        /\ daemon # "dead"
    BY <1>6 DEF Kill, sotaVars, diskVars, Running
  <2>2. QED
    BY <1>1, <2>1 DEF UbuntuLog, ToVerify
<1>7. QED
  BY <1>1, <1>2, <1>3, <1>4, <1>5, <1>6, QuietSteps, Zenon DEF Next, Reboot, PowerLoss

UbuntuStarts == os = "ubuntu" => daemon # "dead"

LEMMA UbuntuStartsStep ==
  ASSUME DiskInv, UbuntuStarts, [Next]_vars PROVE UbuntuStarts'
<1>0. SUFFICES ASSUME os = "ubuntu" PROVE daemon' # "dead"
  BY OsUnchanged, Zenon DEF UbuntuStarts
<1>1. CallTypeOK /\ part'[current'] \in Versions /\ daemon # "dead"
  <2>1. UbuntuDisk' /\ UNCHANGED os
    BY UbuntuDiskStep, OsUnchanged
  <2>2. QED
    BY <1>0, <2>1, Zenon DEF UbuntuDisk, DiskInv, TypeOK, UbuntuStarts
<1>2. Boot \/ Kill => daemon' # "dead"
  BY <1>1, BootClears, VersionsWhole DEF Kill
<1>3. \A c \in Calls : SotaStep(c) => daemon' = daemon
  BY SotaMachine, Zenon
<1>4. Quiet => daemon' = daemon
  BY Zenon DEF Quiet
<1>5. QED
  BY <1>1, <1>2, <1>3, <1>4, QuietSteps, ServerQuiet, Zenon DEF Next, Reboot, PowerLoss

(***************************************************************************)
(* The inductive invariant of system updates, and what it says.            *)
(***************************************************************************)
UpdateInv == DiskInv /\ EmtInv /\ KeptInv /\ EmtStarts /\ UbuntuLog /\ UbuntuStarts

LEMMA UpdateInvInit == Init => UpdateInv
<1> SUFFICES ASSUME Init PROVE UpdateInv
  OBVIOUS
<1>1. DiskInv
  BY DiskInvInit
<1>2. /\ current = "a" /\ default = "a" /\ next = "none" /\ daemon = "down"
      /\ rebooting = FALSE /\ part[current] # Torn /\ granular.status = "none"
      /\ \A c \in Calls : call[c] = Idle /\ ~IsSota(c)
  <2>1. \A c \in Calls : call[c] = Idle
    BY DEF Init
  <2>2. part[current] # Torn
    BY DEF Init, Partitions, Torn
  <2>3. QED
    BY <2>1, <2>2, IdleIsNone DEF Init, IsSota
<1>3. CallsInv
  BY <1>2 DEF CallsInv, CallsServed, OneSota, EmtRequests
<1>4. EmtInv
  BY <1>2, <1>3 DEF EmtInv, RunningWhole, NextAtWork, ArmReady, ArmInv
<1>5. KeptInv /\ EmtStarts /\ UbuntuLog /\ UbuntuStarts
  BY <1>2 DEF KeptInv, EmtStarts, UbuntuLog, UbuntuStarts, Init, NoState
<1>6. QED
  BY <1>1, <1>4, <1>5 DEF UpdateInv

LEMMA UpdateInvStep == UpdateInv /\ [Next]_vars => UpdateInv'
<1> SUFFICES ASSUME UpdateInv, [Next]_vars PROVE UpdateInv'
  OBVIOUS
<1>1. DiskInv /\ EmtInv /\ KeptInv /\ EmtStarts /\ UbuntuLog /\ UbuntuStarts
  BY Zenon DEF UpdateInv
<1>2. CallTypeOK /\ FileTypeOK /\ CallsInv /\ RunningWhole /\ NextAtWork
  BY <1>1, Zenon DEF DiskInv, TypeOK, EmtInv
<1>3. CallsInv'
  BY <1>2, CallsServedStep, OneSotaStep, EmtRequestsStep, Zenon DEF CallsInv
<1>4. EmtInv'
  BY <1>1, <1>2, <1>3, RunningWholeStep, NextAtWorkStep, ArmReadyStep, ArmInvStep, Zenon
     DEF EmtInv, CallsInv
<1>5. DiskInv'
  BY <1>1, DiskInvStep, Zenon
<1>6. KeptInv' /\ EmtStarts' /\ UbuntuLog' /\ UbuntuStarts'
  BY <1>1, KeptInvStep, EmtStartsStep, UbuntuLogStep, UbuntuStartsStep, Zenon
<1>7. QED
  BY <1>4, <1>5, <1>6, Zenon DEF UpdateInv

LEMMA UpdateInvAlways == Spec => []UpdateInv
BY UpdateInvInit, UpdateInvStep, PTL DEF Spec

(* The two systems a node may run.                                         *)
LEMMA Systems == ASSUME DiskInv PROVE os = "emt" \/ os = "ubuntu"
BY MaxVersionNat DEF DiskInv, TypeOK, MachineTypeOK

(* EMT: while an image waits to be booted and only losses of power have    *)
(* happened, the state file names the image it will be compared with: the  *)
(* second Snapshot of Update and os-update-tool.sh -a are not parted by    *)
(* another request, a reboot or a start of inbd (emt/snapshot.go:57,       *)
(* emt/update.go:100).                                                     *)
THEOREM InbdArmedIsRecorded == Spec => []ArmedIsRecorded
<1>1. UpdateInv => ArmedIsRecorded
  <2> SUFFICES ASSUME UpdateInv, os = "emt", next # "none", faults \subseteq {"power"}
               PROVE  stateFile.reason = "sota" /\ stateFile.version = Running
    BY DEF ArmedIsRecorded
  <2>1. faults \subseteq {"power", "reboot"} /\ "reboot" \notin faults
    OBVIOUS
  <2>2. QED
    BY <2>1, Zenon DEF UpdateInv, EmtInv, ArmInv, ArmedGoing, RebootFailed, Recorded
<1>2. QED
  BY <1>1, UpdateInvAlways, PTL

(* The two invariants are kept together.                                   *)
LEMMA VerdictsStep ==
  UpdateInv /\ EmtLog /\ [VerdictsNext]_<<vars, unjudged>> => (UpdateInv /\ EmtLog)'
<1> SUFFICES ASSUME UpdateInv, EmtLog, [VerdictsNext]_<<vars, unjudged>>
             PROVE  (UpdateInv /\ EmtLog)'
  OBVIOUS
<1>1. [Next]_vars
  BY Zenon DEF VerdictsNext
<1>2. QED
  BY <1>1, UpdateInvStep, EmtLogStep, Zenon DEF UpdateInv

(* A start that could judge every open update leaves a log that is true:   *)
(* when a node serves and its update log says SUCCESS, the version named   *)
(* there runs, on EMT and on Ubuntu, whatever was killed, lost its power,  *)
(* failed to commit or to reboot, or overlapped (emt/update_logger.go:87). *)
THEOREM InbdSuccessNamesRunning == VerdictsSpec => []SuccessNamesRunning
<1>1. VerdictsInit => UpdateInv /\ EmtLog
  <2>1. VerdictsInit => UpdateInv
    BY UpdateInvInit DEF VerdictsInit
  <2>2. VerdictsInit => EmtLog
    BY DEF VerdictsInit, Init, EmtLog
  <2>3. QED
    BY <2>1, <2>2
<1>2. UpdateInv /\ EmtLog => SuccessNamesRunning
  <2> SUFFICES ASSUME UpdateInv, EmtLog, daemon = "serving", granular.status = "SUCCESS",
                      ~unjudged
               PROVE  granular.version = Running
    BY DEF SuccessNamesRunning
  <2>1. CASE os = "emt"
    BY <2>1 DEF EmtLog, LogIsTrue
  <2>2. CASE os = "ubuntu"
    BY <2>2 DEF UpdateInv, UbuntuLog
  <2>3. QED
    BY <2>1, <2>2, Systems DEF UpdateInv
<1>3. QED
  BY <1>1, <1>2, VerdictsStep, PTL DEF VerdictsSpec

(* No sequence of downloads, losses of power and images that do not come   *)
(* up leaves half an image on the partition that the boot manager falls    *)
(* back to (emt/update.go:52, emt/post_reboot_verifier.go:23).             *)
THEOREM InbdNodeStarts == Spec => []NodeStarts
<1>1. UpdateInv => NodeStarts
  <2> SUFFICES ASSUME UpdateInv, faults \subseteq {"power"} PROVE daemon # "dead"
    BY DEF NodeStarts
  <2>1. CASE os = "emt"
    BY <2>1 DEF UpdateInv, KeptInv
  <2>2. CASE os = "ubuntu"
    BY <2>2 DEF UpdateInv, UbuntuStarts
  <2>3. QED
    BY <2>1, <2>2, Systems DEF UpdateInv
<1>2. QED
  BY <1>1, UpdateInvAlways, PTL

(* inbd serves requests only on an image that has been committed, for any  *)
(* number of updates and losses of power (inbd/server.go:80).              *)
THEOREM InbdServedImageIsKept == Spec => []ServedImageIsKept
<1>1. UpdateInv => ServedImageIsKept
  <2> SUFFICES ASSUME UpdateInv, daemon = "serving", ~rebooting, faults \subseteq {"power"}
               PROVE  current = default
    BY DEF ServedImageIsKept
  <2>1. CASE os = "emt"
    BY <2>1 DEF UpdateInv, KeptInv, OnTrial
  <2>2. CASE os = "ubuntu"
    BY <2>2 DEF UpdateInv, DiskInv, UbuntuDisk
  <2>3. QED
    BY <2>1, <2>2, Systems DEF UpdateInv
<1>2. QED
  BY <1>1, UpdateInvAlways, PTL

(* The verifier's comment holds when inbd is not killed: a verification    *)
(* that finds its versions equal reboots into the previous image, because  *)
(* the partition set for the next boot was used by the boot before it      *)
(* (emt/post_reboot_verifier.go:20). With a kill it does not: the run      *)
(* inbd_kill shows how.                                                    *)
THEOREM InbdRevertReverts == "kill" \notin Faults => (Spec => RevertReverts)
<1> SUFFICES ASSUME "kill" \notin Faults PROVE Spec => RevertReverts
  OBVIOUS
<1>1. UpdateInv /\ [Next]_vars => [daemon = "revert" /\ rebooting' => next = "none"]_vars
  <2>1. UpdateInv => faults \subseteq Faults /\ NextAtWork
    BY Zenon DEF UpdateInv, EmtInv, DiskInv, TypeOK, CountTypeOK
  <2>2. UpdateInv /\ daemon = "revert" => next = "none"
    BY <2>1 DEF NextAtWork
  <2>3. QED
    BY <2>2
<1>2. QED
  BY <1>1, UpdateInvAlways, PTL DEF Spec, RevertReverts
=============================================================================
