------------------------------ MODULE InbdHost ------------------------------
(***************************************************************************)
(* The node that inbd, the in-band manageability daemon, runs on: the two  *)
(* disk partitions of an EMT node or the file system of an Ubuntu node,    *)
(* the files inbd keeps (state file, update logs, configuration, caches),  *)
(* the boot manager, and the requests inbd is serving.                     *)
(*                                                                         *)
(* inbd answers every gRPC request in a goroutine of its own, takes no     *)
(* lock between requests and looks at no context: a request runs to its    *)
(* end, or to the end of the process or of the machine.                    *)
(***************************************************************************)
EXTENDS Integers, FiniteSets, Sequences

CONSTANTS Calls,        \* the requests that may be in flight together
          OSs,          \* the operating systems to consider
          MaxVersion,   \* the newest image or package set on offer
          MaxSota,      \* how many system updates are asked for in a behaviour
          MaxOthers,    \* how many other requests arrive, on each system
          Faults,       \* the kinds of fault that may happen, each once
          MaxFaults     \* how many of them happen in a behaviour

ASSUME InbdAssumption ==
    /\ Calls # {} /\ IsFiniteSet(Calls)
    /\ OSs \subseteq {"emt", "ubuntu"} /\ OSs # {}
    /\ MaxVersion \in Nat \ {0}
    /\ Faults \subseteq {"kill", "power", "reboot", "commit", "overlap"}
    /\ MaxSota \in Nat /\ MaxOthers \in [OSs -> Nat] /\ MaxFaults \in Nat

VARIABLES
    os,         \* what DetectOS answers
    btrfs,      \* Ubuntu: can snapper take a snapshot of the root
    faulty,     \* the versions that do not boot (EMT) or lose the network (Ubuntu)
    part,       \* content of each partition; Ubuntu has the one it runs from
    current,    \* the partition that is running
    default,    \* the partition the boot manager starts by default
    next,       \* the partition to start once, at the next boot; "none" if not set
    rebooting,  \* reboot was asked for and has not happened
    daemon,     \* inbd: "down", where it is in its start, "serving"; or "dead"
    call,       \* the requests in flight
    stateFile,  \* /var/intel-manageability/inbd_state
    granular,   \* the granular update log: its status and the version it names
    pkg,        \* Ubuntu: is the requested package installed
    snaps,      \* Ubuntu: the snapper snapshots, in the order of their numbers
    artifact,   \* the image file in the SOTA download directory
    conf,       \* /etc/intel_manageability.conf
    fw,         \* the firmware: [flashed, running] and its file in the cache
    requests,   \* how many requests have arrived: [sota, other]
    faults      \* the faults that have happened

osVars   == <<os, btrfs, faulty>>
diskVars == <<part, current, default, next>>
sotaVars == <<stateFile, granular, pkg, snaps, artifact>>
envVars  == <<requests, faults>>
vars == <<osVars, diskVars, rebooting, daemon, call, sotaVars, conf, fw, envVars>>

Partitions == {"a", "b"}
Torn     == -1                    \* a file or partition that is partly written
NoFile   == -2
Versions == 0..MaxVersion
Contents == Versions \cup {Torn}
Other(p) == IF p = "a" THEN "b" ELSE "a"
Running  == part[current]
Written(file) == IF file \in Versions THEN file ELSE Torn   \* what a tool makes of a file

(***************************************************************************)
(* The state file.  "empty" is the file ClearStateFile leaves, "sota" and  *)
(* "package" are the restart reasons.  version is tiber-version (EMT),     *)
(* snap the snapshot number (Ubuntu), pkg whether there is a package list. *)
(***************************************************************************)
INBDState == [reason : {"absent", "empty", "sota", "package"}, version : Contents,
              snap : Nat, pkg : BOOLEAN]
NoState   == [reason |-> "absent", version |-> 0, snap |-> 0, pkg |-> FALSE]
ClearStateFile == [NoState EXCEPT !.reason = "empty"]

(* The configuration: is the file whole ("ok"), is the update repository   *)
(* in trustedRepositories, is proceedWithoutRollback set.                  *)
Configurations == [file : {"ok", "empty", "mixed"}, trusted : BOOLEAN, proceed : BOOLEAN]
DefaultConf    == [file |-> "ok", trusted |-> TRUE, proceed |-> FALSE]
LoadConfig     == conf.file = "ok"
IsTrustedRepository      == LoadConfig /\ conf.trusted
IsProceedWithoutRollback == LoadConfig /\ conf.proceed

Modes    == {"full", "no_download", "download_only"}
Commands == {"set", "append", "remove", "load"}

(* A snapper snapshot: what it was taken of, and has it not been deleted.  *)
SnapshotRecords == [version : Contents, pkg : BOOLEAN, live : BOOLEAN]

(* A request in flight: the operation and its step, what was asked for, and *)
(* what it remembers: the snapshot taken, whether a package list was in the *)
(* state file, the configuration as it was read.                            *)
Steps == {"done", "download", "transfer", "snapshot", "write_state", "update", "again",
          "again_write", "write", "writing", "arm", "install", "package", "write_package",
          "clean", "fail", "reboot", "check", "verify", "unpack", "apply", "flash", "delete",
          "read", "open"}
Requests == [op : {"none", "sota", "fota", "config"}, pc : Steps, mode : Modes \cup Commands,
             version : Versions, pkg : BOOLEAN, flag : BOOLEAN, snap : Nat, kept : BOOLEAN,
             buf : Configurations]
Idle  == [op |-> "none", pc |-> "done", mode |-> "full", version |-> 0, pkg |-> FALSE,
          flag |-> FALSE, snap |-> 0, kept |-> FALSE, buf |-> DefaultConf]
InFlight(op) == {c \in Calls : call[c].op = op}
Goto(c, pc)  == call' = [call EXCEPT ![c].pc = pc]
Answer(c)    == call' = [call EXCEPT ![c] = Idle]
AtStep(c, op, pc) == daemon = "serving" /\ call[c].op = op /\ call[c].pc = pc

Counted(op) ==
    LET kind == IF op = "sota" THEN "sota" ELSE "other" IN
      /\ requests[kind] < (IF kind = "sota" THEN MaxSota ELSE MaxOthers[os])
      /\ requests' = [requests EXCEPT ![kind] = @ + 1]

(***************************************************************************)
(* A request arrives.  Clients of one kind of update take turns: they wait *)
(* for the answer, and for the reboot it announces.  One that gives up and *)
(* asks again (inbc has a time limit, inbd does not) is the fault          *)
(* "overlap".  Requests of different kinds overlap as they like.           *)
(***************************************************************************)
Arrive(c, request, step) ==
    /\ daemon = "serving" /\ call[c] = Idle
    /\ Counted(request.op)
    /\ call' = [call EXCEPT ![c] = [request EXCEPT !.pc = step]]
    /\ UNCHANGED <<osVars, diskVars, rebooting, daemon, sotaVars, conf, fw>>

(* Reboot: `reboot` returns at once, the processes run on until the end.   *)
RebootSystem == rebooting' = TRUE

(***************************************************************************)
(* What may go wrong, beside the commands that fail: inbd is killed, the   *)
(* power is lost, `reboot` or `os-update-tool.sh -c` fails, a client asks  *)
(* again too early.                                                        *)
(***************************************************************************)
Fault(kind) ==
    /\ kind \in Faults \ faults /\ Cardinality(faults) < MaxFaults
    /\ faults' = faults \cup {kind}

TakesTurns(op) ==
    IF InFlight(op) = {} /\ ~rebooting THEN UNCHANGED faults ELSE Fault("overlap")

ProcessGone == call' = [c \in Calls |-> Idle]

(***************************************************************************)
(* The machine starts.  With a partition set for the next boot the boot    *)
(* manager tries it once and falls back to the default when it does not    *)
(* come up; when that is no image either the node does not start.  The     *)
(* firmware that was flashed is now the one that runs.                     *)
(***************************************************************************)
Boot ==
    /\ current' = IF next # "none" /\ part[next] \in Versions \ faulty
                  THEN next ELSE default
    /\ next' = "none"
    /\ rebooting' = FALSE
    /\ daemon' = IF part[current'] = Torn THEN "dead" ELSE "down"
    /\ ProcessGone
    /\ fw' = [fw EXCEPT !.running = fw.flashed]
    /\ UNCHANGED <<osVars, part, default, sotaVars, conf, requests>>

Reboot    == rebooting /\ Boot /\ UNCHANGED faults
PowerLoss == Fault("power") /\ Boot

(* inbd is killed, or dies: systemd starts it again (Restart=on-failure).  *)
Kill ==
    /\ daemon \notin {"down", "dead"} /\ Fault("kill")
    /\ daemon' = "down"
    /\ ProcessGone
    /\ UNCHANGED <<osVars, diskVars, rebooting, sotaVars, conf, fw, requests>>

(* Mutant of Log: the version that was there before the update is named.   *)
LogOldVersion(status) == granular' = [status |-> status, version |-> stateFile.version]

Log(status) == granular' = [status |-> status, version |-> Running]
=============================================================================
