----------------------------- MODULE Onboarding -----------------------------
(***************************************************************************)
(* The Device Discovery Agent, a program systemd runs once after a boot:   *)
(* it gathers its configuration, asks the onboarding service about the     *)
(* node on a stream and writes the credentials it is given, or, if the     *)
(* node is not known, lets a user log in at one of the terminals and       *)
(* registers the node.                                                     *)
(*                                                                         *)
(* Credentials and the tokens issued for them are named by their           *)
(* generation (CredentialFiles).                                           *)
(***************************************************************************)
EXTENDS Integers, CredentialFiles

CONSTANTS Settings,      \* where a boot finds configuration: [flags, file, kernel], sets of keys
          Terminals,     \* the devices the authenticator prompts at
          MaxAttempts,   \* Authenticate's attempts to log in
          MaxRetries,    \* OnboardWithRetry's attempts to register
          MaxBoots       \* bound: how often the machine is booted

ASSUME OnboardingAssumption ==
    /\ Settings \subseteq [flags  : SUBSET {"service", "mac", "kernelArgs"},
                           file   : SUBSET {"service", "mac", "kernelArgs", "autoDetect",
                                            "disableInteractive", "extraHosts"},
                           kernel : SUBSET {"mac"}]
    /\ {MaxAttempts, MaxRetries} \subseteq Nat \ {0}
    /\ MaxBoots \in Nat

VARIABLES
    setting,   \* the sources of configuration at this boot
    hosts,     \* what /etc/hosts holds
    node,      \* the orchestrator: what it knows of the node, the credentials it accepts
    dda,       \* where the program is
    got,       \* the credentials of the answer it is writing
    disk,      \* the files under /etc/intel_edge_node/client-credentials
    reader,    \* the goroutines of collectFromDevice, by terminal
    orphan,    \* a ReadPassword whose terminal was given up still waits for a line
    login,     \* what came in on credsChan
    tries,     \* attempts to log in, then to register
    boots      \* the bound's counter

loginVars == <<reader, orphan, login, tries>>
ddaVars   == <<dda, got, disk, loginVars>>
bootVars == <<setting, hosts, boots>>
vars == <<node, ddaVars, bootVars>>

(* The part of the state the Node Agent sees.                              *)
Cred == INSTANCE Credentials WITH accepted <- node.generation,
                                  id <- disk["id"], secret <- disk["secret"]
User == MaxGeneration + 2    \* a token, or a project, given to a user who logged in
Files == {"project", "id", "secret", "access", "release"}

LoginPlaces == {"login", "attempt", "collect", "validate", "userAccess", "userRelease",
                "register", "userProject"}
Places == {"off", "main", "stream", "wait", "project", "id", "secret", "auth", "access",
           "release", "done", "failed"} \cup LoginPlaces
NoSetting == [flags |-> {}, file |-> {}, kernel |-> {}]

TypeOK ==
    /\ node \in [state : {"unknown", "registered", "onboarded"}, generation : 0..MaxGeneration]
    /\ dda \in Places
    /\ got \in [generation : 0..MaxGeneration, complete : BOOLEAN]
    /\ disk \in [Files -> {Absent, Torn, User} \cup Generations]
    /\ reader \in [Terminals -> {"closed", "user", "password", "failed"}]
    /\ orphan \in [Terminals -> BOOLEAN]
    /\ login \in {"none", "good", "bad"}
    /\ tries \in 0..MaxAttempts \cup 0..MaxRetries
    /\ setting \in Settings \cup {NoSetting} /\ boots \in 0..MaxBoots
    /\ hosts \in SUBSET {"system", "extra"}

NothingGot == [generation |-> 0, complete |-> FALSE]
Closed == [t \in Terminals |-> "closed"]
Init ==
    /\ node = [state |-> "unknown", generation |-> 0] /\ dda = "off" /\ got = NothingGot
    /\ disk = [f \in Files |-> Absent]
    /\ reader = Closed /\ orphan = [t \in Terminals |-> FALSE] /\ login = "none" /\ tries = 0
    /\ setting = NoSetting /\ boots = 0 /\ hosts = {"system"}

-----------------------------------------------------------------------------
(* SaveToFile truncates the file and writes it: it may fail before either. *)
SaveToFile(file, value) == disk' = [disk EXCEPT ![file] = value]
SaveFails(file) == disk' \in {disk, [disk EXCEPT ![file] = Torn]}
Saves(file, value, next, onError) ==
    \/ SaveToFile(file, value) /\ dda' = next
    \/ SaveFails(file) /\ dda' = onError

(* An operator has the node onboarded, or onboarded anew.                  *)
Onboarded ==
    /\ node.state # "unknown" /\ node.generation < MaxGeneration
    /\ node' = [state |-> "onboarded", generation |-> node.generation + 1]
    /\ UNCHANGED <<ddaVars, bootVars>>

Registered ==
    /\ node.state = "unknown"
    /\ node' = [node EXCEPT !.state = "registered"]
    /\ UNCHANGED <<ddaVars, bootVars>>

Deleted ==
    /\ node.state # "unknown"
    /\ node' = [node EXCEPT !.state = "unknown"]
    /\ UNCHANGED <<ddaVars, bootVars>>

(***************************************************************************)
(* main(): the configuration                                               *)
(***************************************************************************)
(* The source whose value of a key the program ends up with.  The file is  *)
(* read before the kernel's arguments, and again after them only if it was *)
(* the file that asked for them.                                           *)
UsesKernel == "kernelArgs" \in setting.flags \cup setting.file
Value(key) ==
    LET fromFile   == key \in setting.file
        fromKernel == UsesKernel /\ key \in setting.kernel
    IN IF key \in setting.flags THEN "flags"
       ELSE IF fromKernel /\ ("kernelArgs" \in setting.flags \/ ~fromFile) THEN "kernel"
       ELSE IF fromFile THEN "file" ELSE "none"
Given(key) == Value(key) # "none"

(* UpdateHosts, written to append, opens the file with O_TRUNC.            *)
UpdateHosts == hosts' = IF Given("extraHosts") THEN {"extra"} ELSE hosts

(* parseInitialFlags ends the program on any flag but -config and          *)
(* -use-kernel-args.  Of the keys only the services' are required; the     *)
(* detection of the device's data, and the two files, may fail.            *)
Main ==
    /\ dda = "main"
    /\ \/ /\ setting.flags \subseteq {"kernelArgs"} /\ Given("service")
          /\ dda' = "stream" /\ UpdateHosts
       \/ dda' = "failed" /\ UNCHANGED hosts
    /\ UNCHANGED <<node, got, disk, loginVars, setting, boots>>

-----------------------------------------------------------------------------
(***************************************************************************)
(* Without a user: the stream (noninteractive.Client.Onboard) and          *)
(* completeNonInteractiveAuth                                              *)
(***************************************************************************)
Moves(from, to) == dda = from /\ dda' = to

(* The answer on the stream.  It may be an error or the stream's end; one  *)
(* that names no project is an error, too.                                 *)
Answer ==
    /\ dda = "stream"
    /\ \/ node.state = "registered" /\ dda' = "wait" /\ UNCHANGED got
       \/ /\ node.state = "onboarded" /\ dda' = "project"
          /\ got' \in [generation : {node.generation}, complete : BOOLEAN]
       \/ node.state = "unknown" /\ dda' = (IF Given("disableInteractive") THEN "failed"
                                            ELSE "login") /\ UNCHANGED got
       \/ dda' = "failed" /\ UNCHANGED got
    /\ tries' = 1
    /\ UNCHANGED <<node, disk, reader, orphan, login, bootVars>>

(* A back-off of 2 to 32 seconds, then the request is sent again.          *)
BackOff == Moves("wait", "stream") /\ UNCHANGED <<node, got, disk, loginVars, bootVars>>

(* The project is written before the credentials are looked at.  The       *)
(* change of its file's mode may fail after a write that went well.        *)
SaveProject ==
    /\ dda = "project"
    /\ \E next \in {IF got.complete THEN "id" ELSE "failed", "failed"} :
          Saves("project", got.generation, next, "failed")
    /\ UNCHANGED <<node, got, loginVars, bootVars>>

(* Mutant of SaveClientID: the paths of the two files are mixed up.        *)
SaveClientIDToSecret ==
    /\ dda = "id"
    /\ Saves("secret", got.generation, "secret", "failed")
    /\ UNCHANGED <<node, got, loginVars, bootVars>>

SaveClientID ==
    /\ dda = "id"
    /\ Saves("id", got.generation, "secret", "failed")
    /\ UNCHANGED <<node, got, loginVars, bootVars>>

(* Mutant of SaveClientSecret: a failing write goes unnoticed.             *)
SaveClientSecretUnchecked ==
    /\ dda = "secret"
    /\ Saves("secret", got.generation, "auth", "auth")
    /\ UNCHANGED <<node, got, loginVars, bootVars>>

SaveClientSecret ==
    /\ dda = "secret"
    /\ Saves("secret", got.generation, "auth", "failed")
    /\ UNCHANGED <<node, got, loginVars, bootVars>>

ClientAuth ==
    /\ dda = "auth"
    /\ \/ node = [state |-> "onboarded", generation |-> got.generation] /\ dda' = "access"
       \/ dda' = "failed"
    /\ UNCHANGED <<node, got, disk, loginVars, bootVars>>

SaveTokens ==
    /\ \/ dda = "access" /\ Saves("access", got.generation, "release", "failed")
       \/ dda = "release" /\ Saves("release", got.generation, "done", "failed")
    /\ UNCHANGED <<node, got, loginVars, bootVars>>

-----------------------------------------------------------------------------
(***************************************************************************)
(* With a user: TTYAuthenticator.Authenticate, then OnboardWithRetry       *)
(***************************************************************************)
(* NewTTYAuthenticator reads the configuration main() has written.         *)
Login ==
    /\ dda = "login"
    /\ \/ dda' = "attempt" /\ UpdateHosts
       \/ dda' = "failed" /\ UNCHANGED hosts
    /\ UNCHANGED <<node, got, disk, loginVars, setting, boots>>

(* A prompt at each terminal that can be opened.                           *)
Prompt ==
    /\ Moves("attempt", "collect")
    /\ reader' \in [Terminals -> {"user", "failed"}] /\ login' = "none"
    /\ UNCHANGED <<node, got, disk, orphan, tries, bootVars>>

(* A user types a line: an orphaned reader of the terminal takes it, or    *)
(* the reader of this attempt.  Names and passwords too short, and any     *)
(* other error, end the reader; the first pair on credsChan counts.        *)
TypeLine(t) ==
    /\ dda = "collect"
    /\ \/ orphan[t] /\ orphan' = [orphan EXCEPT ![t] = FALSE] /\ UNCHANGED <<reader, login>>
       \/ /\ ~orphan[t] /\ reader[t] = "user"
          /\ reader' = [reader EXCEPT ![t] = "password"] /\ UNCHANGED <<orphan, login>>
       \/ /\ ~orphan[t] /\ reader[t] = "password"
          /\ reader' = [reader EXCEPT ![t] = "failed"]
          /\ login' \in (IF login = "none" THEN {"none", "good", "bad"} ELSE {login})
          /\ UNCHANGED orphan
    /\ UNCHANGED <<node, dda, got, disk, tries, bootVars>>

(* The end of an attempt cancels the other readers: one that waits for a   *)
(* password cannot be woken and takes the terminal's next line.            *)
GiveUpReaders ==
    /\ reader' = Closed
    /\ orphan' = [t \in Terminals |-> orphan[t] \/ reader[t] = "password"]

(* Mutant of NextAttempt: the attempts are not counted.                    *)
NextAttemptUncounted == dda' = "attempt" /\ UNCHANGED tries

NextAttempt ==
    IF tries < MaxAttempts THEN dda' = "attempt" /\ tries' = tries + 1
                           ELSE dda' = "failed" /\ UNCHANGED tries

(* collectCredentials returns: with a pair, or after 50 seconds, though    *)
(* all readers may have failed long before.  A pair may come at the last   *)
(* moment and be lost.                                                     *)
CollectCredentials ==
    /\ dda = "collect" /\ GiveUpReaders
    /\ \/ login # "none" /\ dda' = "validate" /\ UNCHANGED tries
       \/ NextAttempt
    /\ UNCHANGED <<node, got, disk, login, bootVars>>

ValidateAndFetchTokens ==
    /\ dda = "validate"
    /\ \/ login = "good" /\ dda' = "userAccess" /\ UNCHANGED tries
       \/ NextAttempt
    /\ UNCHANGED <<node, got, disk, reader, orphan, login, bootVars>>

(* writeTokens: an error here counts as a failed attempt.                  *)
WriteTokens ==
    /\ \/ /\ dda = "userAccess"
          /\ \/ SaveToFile("access", User) /\ dda' = "userRelease" /\ UNCHANGED tries
             \/ SaveFails("access") /\ NextAttempt
       \/ /\ dda = "userRelease"
          /\ \/ SaveToFile("release", User) /\ dda' = "register" /\ tries' = 1
             \/ SaveFails("release") /\ NextAttempt
    /\ UNCHANGED <<node, got, reader, orphan, login, bootVars>>

(* Mutant of NextRetry: one retry too many.                                *)
NextRetryOffByOne ==
    IF tries <= MaxRetries THEN dda' = "register" /\ tries' = tries + 1
                           ELSE dda' = "failed" /\ UNCHANGED tries

NextRetry ==
    IF tries < MaxRetries THEN dda' = "register" /\ tries' = tries + 1
                          ELSE dda' = "failed" /\ UNCHANGED tries

(* OnboardWithRetry: the orchestrator may have made the node though its    *)
(* answer is lost.                                                         *)
CreateNodes ==
    /\ dda = "register"
    /\ node' \in {node, [node EXCEPT !.state = IF @ = "unknown" THEN "registered" ELSE @]}
    /\ \/ node'.state # "unknown" /\ dda' = "userProject" /\ UNCHANGED tries
       \/ NextRetry
    /\ UNCHANGED <<got, disk, reader, orphan, login, bootVars>>

SaveUserProject ==
    /\ dda = "userProject"
    /\ \/ SaveToFile("project", User) /\ dda' = "done" /\ UNCHANGED tries
       \/ (SaveFails("project") \/ SaveToFile("project", User)) /\ NextRetry
    /\ UNCHANGED <<node, got, reader, orphan, login, bootVars>>

-----------------------------------------------------------------------------
(* The program is stopped: systemd's limit of ten minutes, or the end of   *)
(* the machine.  The file it was writing may be left torn.                 *)
Writing == CASE dda \in {"project", "userProject"} -> {"project"}
             [] dda \in {"access", "userAccess"}   -> {"access"}
             [] dda \in {"release", "userRelease"} -> {"release"}
             [] dda \in {"id", "secret"}           -> {dda}
             [] OTHER                              -> {}
Stop ==
    /\ dda # "off" /\ dda' = "off"
    /\ disk' \in {disk} \cup {[disk EXCEPT ![f] = Torn] : f \in Writing}
    /\ got' = NothingGot /\ reader' = Closed /\ login' = "none" /\ tries' = 0
    /\ orphan' = [t \in Terminals |-> FALSE] /\ setting' = NoSetting
    /\ UNCHANGED <<node, hosts, boots>>

(* The unit is of type oneshot and runs once a boot.                       *)
Boot ==
    /\ dda = "off" /\ boots < MaxBoots /\ boots' = boots + 1
    /\ dda' = "main" /\ setting' \in Settings
    /\ UNCHANGED <<node, hosts, got, disk, loginVars>>

Interactive == \/ Login \/ Prompt \/ CollectCredentials \/ ValidateAndFetchTokens \/ WriteTokens
               \/ CreateNodes \/ SaveUserProject
NonInteractive == \/ Main \/ Answer \/ BackOff \/ SaveProject \/ SaveClientID \/ SaveClientSecret
                  \/ ClientAuth \/ SaveTokens
Orchestrator == Onboarded \/ Registered \/ Deleted
Next == \/ Interactive \/ NonInteractive \/ Orchestrator \/ Stop \/ Boot
        \/ \E t \in Terminals : TypeLine(t)

(* Steps of the program are taken: its timers fire and its calls return.   *)
Fairness == WF_vars(Interactive) /\ WF_vars(NonInteractive)
Spec == Init /\ [][Next]_vars /\ Fairness

-----------------------------------------------------------------------------
(* A run that ends well has left a full set behind, whatever earlier runs, *)
(* cut short anywhere, and later changes of the node: the project, the     *)
(* credentials and the tokens of one answer (completeNonInteractiveAuth),  *)
(* or the tokens of the user and the project the node was registered for   *)
(* (executeInteractiveMode).                                               *)
DoneIsComplete ==
    dda = "done" =>
        \/ disk["project"] \in Generations /\ \A f \in Files : disk[f] = disk["project"]
        \/ \A f \in {"project", "access", "release"} : disk[f] = User

(* The credential files are written as their reader may expect, though the *)
(* node may be onboarded anew and the program stopped between any two      *)
(* steps: each secret is that of the id beside it, and no id is older than *)
(* what it replaces (controller.go:113-122).                               *)
CredentialsAsPromised == Cred!CredentialsSpec

(* The interactive mode ends by itself, whether anybody types or not, and  *)
(* whatever fails: attempts and retries are bounded (tty_auth.go:72,       *)
(* client.go:128-148).  A node that is known but not yet onboarded, in     *)
(* contrast, is asked about for ever.                                      *)
LoginEnds == dda \in LoginPlaces ~> dda \in {"done", "failed", "off"}
=============================================================================
