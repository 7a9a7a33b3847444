----------------------------- MODULE InbdConfig -----------------------------
(***************************************************************************)
(* The configuration commands.  Each handler makes a ConfigOperation of    *)
(* its own, so the lock inside it excludes nobody: two commands may both   *)
(* have read the file before either writes it.  WriteFile truncates the    *)
(* file and writes it in place.                                            *)
(***************************************************************************)
EXTENDS InbdHost

Config(c, pc) == AtStep(c, "config", pc)
ConfKeeps == UNCHANGED <<osVars, diskVars, rebooting, daemon, sotaVars, fw, envVars>>

ConfigCommand(c) ==
    /\ UNCHANGED faults
    /\ \E command \in Commands, f \in BOOLEAN :
         /\ command \in {"append", "remove"} => ~f
         /\ Arrive(c, [Idle EXCEPT !.op = "config", !.mode = command, !.flag = f], "read")

(* What a command makes of the configuration it has read.                  *)
SetConfigCommand(cmd)    == [cmd.buf EXCEPT !.proceed = cmd.flag]
AppendConfigCommand(cmd) == [cmd.buf EXCEPT !.trusted = TRUE]
RemoveConfigCommand(cmd) == [cmd.buf EXCEPT !.trusted = FALSE]
LoadConfigCommand(cmd)   == [DefaultConf EXCEPT !.proceed = cmd.flag]
Edited(cmd) ==
    CASE cmd.mode = "set"    -> SetConfigCommand(cmd)
      [] cmd.mode = "append" -> AppendConfigCommand(cmd)
      [] cmd.mode = "remove" -> RemoveConfigCommand(cmd)
      [] OTHER               -> LoadConfigCommand(cmd)

(* The file must parse (load replaces it and does not read it), the result *)
(* satisfy the schema, and the signature of a loaded file be right.        *)
ReadConfig(c) ==
    /\ Config(c, "read")
    /\ \/ call[c].mode = "load" /\ Goto(c, "open")
       \/ /\ call[c].mode # "load" /\ LoadConfig
          /\ call' = [call EXCEPT ![c].pc = "open", ![c].buf = conf]
       \/ Answer(c)
    /\ UNCHANGED conf /\ ConfKeeps

OpenConfig(c) ==
    /\ Config(c, "open")
    /\ conf' = [conf EXCEPT !.file = "empty"]
    /\ Goto(c, "write")
    /\ ConfKeeps

(* Bytes written over another command's, without a truncation between:     *)
(* the tail of the longer text may be left.  A write that fails leaves the *)
(* file as it was opened.                                                  *)
WriteConfig(c) ==
    /\ Config(c, "write")
    /\ conf' \in {conf, Edited(call[c])} \cup
                 {x \in {[conf EXCEPT !.file = "mixed"]} : conf.file # "empty"}
    /\ Answer(c)
    /\ ConfKeeps

ConfigStep(c) ==
    ConfigCommand(c) \/ ReadConfig(c) \/ OpenConfig(c) \/ WriteConfig(c)
=============================================================================
