---------------------------- MODULE InbdFirmware ----------------------------
(***************************************************************************)
(* Firmware updates (FOTA): FWUpdater.UpdateFirmware.  All packages pass   *)
(* through one cache directory; fw.file is the package there.  The tool    *)
(* writes the flash for a while: what interrupts it leaves it half done.   *)
(***************************************************************************)
EXTENDS InbdHost

FirmwareState == [flashed : Contents, running : Contents, file : Contents \cup {NoFile}]

FotaKeepsButFaults == UNCHANGED <<osVars, diskVars, daemon, sotaVars, conf, requests>>
FotaKeeps == FotaKeepsButFaults /\ UNCHANGED faults
Fota(c, pc) == AtStep(c, "fota", pc)

UpdateFirmware(c) ==
    /\ TakesTurns("fota")
    /\ \E v \in Versions, f \in BOOLEAN :
         Arrive(c, [Idle EXCEPT !.op = "fota", !.version = v, !.flag = f], "check")

(* The platform must be known to the tool configuration, the BIOS that     *)
(* runs older than the one on offer, the repository trusted, the disk big. *)
(* Mutant of UpdateRequired: the release date is not compared.             *)
AlwaysRequired(c) == call[c].op = "fota"

UpdateRequired(c) == fw.running < call[c].version

CheckFirmware(c) ==
    /\ Fota(c, "check")
    /\ \/ UpdateRequired(c) /\ Goto(c, "download")   \* and the platform is known
       \/ Answer(c)
    /\ UNCHANGED <<fw, rebooting>> /\ FotaKeeps

DownloadFirmware(c) ==
    /\ Fota(c, "download")
    /\ \/ IsTrustedRepository /\ fw' = [fw EXCEPT !.file = Torn] /\ Goto(c, "transfer")
       \/ Answer(c) /\ UNCHANGED fw
    /\ UNCHANGED rebooting /\ FotaKeeps

TransferFirmware(c) ==
    /\ Fota(c, "transfer")
    /\ \/ fw' = [fw EXCEPT !.file = call[c].version] /\ Goto(c, "verify")
       \/ Answer(c) /\ UNCHANGED fw
    /\ UNCHANGED rebooting /\ FotaKeeps

(* A signature that does not fit removes the package.                      *)
VerifySignature(c) ==
    /\ Fota(c, "verify")
    /\ \/ fw.file # NoFile /\ Goto(c, "unpack") /\ UNCHANGED fw
       \/ fw' = [fw EXCEPT !.file = NoFile] /\ Answer(c)
    /\ UNCHANGED rebooting /\ FotaKeeps

(* An archive that cannot be unpacked stays.                               *)
ExtractFileInfo(c) ==
    /\ Fota(c, "unpack")
    /\ Goto(c, "apply") \/ Answer(c)
    /\ UNCHANGED <<fw, rebooting>> /\ FotaKeeps

(* The tool is there, accepts the platform, and its GUID is found.         *)
ApplyFirmware(c) ==
    /\ Fota(c, "apply")
    /\ \/ fw' = [fw EXCEPT !.flashed = Torn] /\ Goto(c, "flash")
       \/ Goto(c, "fail") /\ UNCHANGED fw
    /\ UNCHANGED rebooting /\ FotaKeeps

ToolDone(c) ==
    /\ Fota(c, "flash")
    /\ \/ fw' = [fw EXCEPT !.flashed = Written(fw.file)]
          /\ Goto(c, "delete")
       \/ Goto(c, "fail") /\ UNCHANGED fw
    /\ UNCHANGED rebooting /\ FotaKeeps

DeleteFiles(c) ==
    /\ \E pc \in {"delete", "fail"} : Fota(c, pc)
    /\ fw' = [fw EXCEPT !.file = NoFile]
    /\ IF call[c].pc = "delete" /\ ~call[c].flag THEN Goto(c, "reboot") ELSE Answer(c)
    /\ UNCHANGED rebooting /\ FotaKeeps

(* A reboot that fails is only logged.                                     *)
RebootAfterFlash(c) ==
    /\ Fota(c, "reboot")
    /\ \/ RebootSystem /\ UNCHANGED faults
       \/ Fault("reboot") /\ UNCHANGED rebooting
    /\ Answer(c) /\ UNCHANGED fw /\ FotaKeepsButFaults

(* SetPowerState with POWER_ACTION_CYCLE.                                  *)
SetPowerState(c) ==
    /\ daemon = "serving" /\ call[c] = Idle /\ Counted("power")
    /\ RebootSystem
    /\ UNCHANGED <<osVars, diskVars, daemon, call, sotaVars, conf, fw, faults>>

FirmwareStep(c) ==
    \/ UpdateFirmware(c) \/ CheckFirmware(c) \/ DownloadFirmware(c) \/ TransferFirmware(c)
    \/ VerifySignature(c) \/ ExtractFileInfo(c) \/ ApplyFirmware(c) \/ ToolDone(c)
    \/ DeleteFiles(c) \/ RebootAfterFlash(c) \/ SetPowerState(c)
=============================================================================
