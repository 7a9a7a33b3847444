----------------------------- MODULE NodeTokens -----------------------------
(***************************************************************************)
(* The Node Agent's goroutine for tokens: with the node's credentials it   *)
(* fetches an access token for each agent of the node, and with its own    *)
(* one for the release service, writes each to the file its user reads and *)
(* fetches a new one before the old expires.                               *)
(*                                                                         *)
(* Time is counted in ticks of TOKEN_REFRESH_CHECK_INTERVAL.  A token is   *)
(* the number of whole ticks it still has to live, one less at each tick;  *)
(* it may expire inside tick 0 and has expired after it.                   *)
(***************************************************************************)
EXTENDS Credentials, Integers

CONSTANTS NodeAgent,  \* the client whose token the Node Agent uses itself
          Others,     \* the other agents
          Release,    \* the release service's client
          Life,       \* ticks a new token lives
          MaxFaults   \* bound: network errors, refused requests, failed writes, crashes

Agents  == {NodeAgent} \cup Others
Clients == Agents \cup {Release}

ASSUME TokensAssumption ==
    /\ Release \notin Agents /\ NodeAgent \notin Others
    /\ Life \in Nat /\ Life > 2   \* a quarter of an hour
    /\ MaxFaults \in Nat

VARIABLES
    file,     \* <accessTokenPath>/<client>/access_token
    mem,      \* TokenManager.TokenClients: what the goroutine remembers of it
    na,       \* "down", "cycle" (createRefreshTokens) or "wait" (select)
    todo,     \* the clients the cycle has not come to
    ticking,  \* the ticker has been made
    tickDue,  \* ticker.C holds a tick: it is dropped when one is there
    good,     \* observation only: clients checked with success since the last tick
    missed,   \* observation only: clients that were not, in the tick before
    faults

agentVars  == <<mem, na, todo, ticking, tickDue>>
tokenVars  == <<file, agentVars, good, missed, faults>>
credVars   == <<accepted, id, secret>>
allVars       == <<credVars, tokenVars>>

Missing   == -3
Empty     == -2       \* a file that was truncated and not written
Expired   == -1
Anonymous == Life + 1 \* the release service's token that needs none: ten years
Tokens    == Missing..Anonymous

TokensTypeOK ==
    /\ accepted \in 0..MaxGeneration /\ {id, secret} \subseteq Absent..Torn
    /\ file \in [Clients -> Tokens] /\ mem \in [Clients -> Tokens \ {Empty}]
    /\ na \in {"down", "cycle", "wait"}
    /\ todo \subseteq Clients /\ good \subseteq Clients /\ missed \subseteq Clients
    /\ na # "cycle" => todo = {}
    /\ {ticking, tickDue} \subseteq BOOLEAN /\ (tickDue => ticking) /\ (ticking => na # "down")
    /\ faults \in 0..MaxFaults

Forgotten == [c \in Clients |-> Missing]
TokensInit == /\ CredentialsInit
        /\ file = Forgotten /\ mem = Forgotten
        /\ na = "down" /\ todo = {} /\ ticking = FALSE /\ tickDue = FALSE
        /\ good = {} /\ missed = {} /\ faults = 0

-----------------------------------------------------------------------------
Fault == faults < MaxFaults /\ faults' = faults + 1

(* The process is gone; systemd starts it again after a minute.            *)
Gone == /\ na' = "down" /\ mem' = Forgotten /\ todo' = {}
        /\ ticking' = FALSE /\ tickDue' = FALSE

(* Mutant of Start: a missing file is taken for a broken one.              *)
StartWithAll ==
    /\ na = "down" /\ \A a \in Agents : file[a] > Empty
    /\ na' = "cycle" /\ todo' = Clients
    /\ mem' = [c \in Clients |-> IF c = Release THEN Missing ELSE file[c]]
    /\ UNCHANGED <<credVars, file, ticking, tickDue, good, missed, faults>>

(* Mutant of Start: a file without a token is read like any other.         *)
StartOnAnything ==
    /\ na = "down" /\ na' = "cycle" /\ todo' = Clients
    /\ mem' = [c \in Clients |-> IF c = Release THEN Missing ELSE file[c]]
    /\ UNCHANGED <<credVars, file, ticking, tickDue, good, missed, faults>>

(* PopulateTokenClients.  A missing file is no error; one without a token  *)
(* ends the process (os.Exit(1)) each time it starts.  The release         *)
(* service's file is not read.                                             *)
Start ==
    /\ na = "down" /\ \A a \in Agents : file[a] # Empty
    /\ na' = "cycle" /\ todo' = Clients
    /\ mem' = [c \in Clients |-> IF c = Release THEN Missing ELSE file[c]]
    /\ UNCHANGED <<credVars, file, ticking, tickDue, good, missed, faults>>

-----------------------------------------------------------------------------
(***************************************************************************)
(* createRefreshTokens: the clients one after the other, the release       *)
(* service last                                                            *)
(***************************************************************************)
(* Mutant of IsTokenRefreshRequired: REFRESH_INTERVAL is five minutes.     *)
RefreshRequiredLate(token) == token <= 0

(* REFRESH_INTERVAL is ten minutes, two ticks.                             *)
IsTokenRefreshRequired(token) == token <= 1

Turn(c) == na = "cycle" /\ c \in todo /\ (c = Release => todo = {Release})
Done(c) == todo' = todo \ {c} /\ UNCHANGED <<na, ticking, tickDue>>

Skip(c) ==
    /\ Turn(c) /\ ~IsTokenRefreshRequired(mem[c])
    /\ Done(c) /\ good' = good \cup {c}
    /\ UNCHANGED <<credVars, file, mem, missed, faults>>

(* Inside tick 2 the ten minutes may have come.                            *)
Asks(c) == Turn(c) /\ (IsTokenRefreshRequired(mem[c]) \/ mem[c] = 2)

HasCredentials == Absent \notin {id, secret}
Accepted == accepted # 0 /\ id = accepted /\ secret = accepted

(* What the identity provider, or the release service, may answer: the     *)
(* latter looks at the Node Agent's own token, read from its file.         *)
Offered(c) == IF c = Release THEN (IF file[NodeAgent] >= 0 THEN {Life, Anonymous} ELSE {})
              ELSE (IF Accepted THEN {Life} ELSE {})

Provision(c) ==
    /\ Asks(c)
    /\ \E token \in Offered(c) :
         file' = [file EXCEPT ![c] = token] /\ mem' = [mem EXCEPT ![c] = token]
    /\ Done(c) /\ good' = good \cup {c}
    /\ UNCHANGED <<credVars, missed, faults>>

(* No answer, an answer that is an error, or credentials that are not      *)
(* there: the client's turn is over.                                       *)
ProvisionFails(c) ==
    /\ Asks(c)
    /\ IF (c = Release /\ file[NodeAgent] <= 0) \/ (c # Release /\ ~Accepted)
       THEN UNCHANGED faults ELSE Fault
    /\ Done(c)
    /\ UNCHANGED <<credVars, file, mem, good, missed>>

(* Mutant of PersistFails: the token is remembered before it is written.   *)
PersistFailsRemembered(c) ==
    /\ Asks(c) /\ Fault
    /\ \E token \in Offered(c) : mem' = [mem EXCEPT ![c] = token]
    /\ file' \in {file, [file EXCEPT ![c] = Empty]}
    /\ Done(c)
    /\ UNCHANGED <<credVars, good, missed>>

(* PersistToken truncates the file and writes it.                          *)
PersistFails(c) ==
    /\ Asks(c) /\ Offered(c) # {} /\ Fault
    /\ file' \in {file, [file EXCEPT ![c] = Empty]}
    /\ Done(c)
    /\ UNCHANGED <<credVars, mem, good, missed>>

(* An answer of the identity provider without a token, such as its refusal *)
(* of the credentials, is a nil interface: the assertion that it is a      *)
(* string panics and ends the process.                                     *)
Refused(c) ==
    /\ Asks(c) /\ c # Release /\ HasCredentials
    /\ IF Accepted THEN Fault ELSE UNCHANGED faults
    /\ Gone
    /\ UNCHANGED <<credVars, file, good, missed>>

(* The process is killed inside PersistToken.                              *)
KilledWriting(c) ==
    /\ Asks(c) /\ Offered(c) # {} /\ Fault
    /\ file' = [file EXCEPT ![c] = Empty] /\ Gone
    /\ UNCHANGED <<credVars, good, missed>>

Crash == /\ na # "down" /\ Fault /\ Gone
         /\ UNCHANGED <<credVars, file, good, missed>>

-----------------------------------------------------------------------------
EndCycle ==
    /\ na = "cycle" /\ todo = {} /\ na' = "wait" /\ ticking' = TRUE
    /\ UNCHANGED <<credVars, file, mem, todo, tickDue, good, missed, faults>>

NextCycle ==
    /\ na = "wait" /\ tickDue /\ na' = "cycle" /\ todo' = Clients /\ tickDue' = FALSE
    /\ UNCHANGED <<credVars, file, mem, ticking, good, missed, faults>>

Older(token) == IF token \in 0..Life THEN token - 1 ELSE token

(* Time passes; a cycle is taken not to see two ticks of its ticker: a     *)
(* call has at most 30 seconds, and few of them need all.                  *)
Tick ==
    /\ ~(na = "cycle" /\ tickDue)
    /\ file' = [c \in Clients |-> Older(file[c])]
    /\ mem' = [c \in Clients |-> Older(mem[c])]
    /\ tickDue' = ticking
    /\ missed' = Clients \ good /\ good' = {}
    /\ UNCHANGED <<credVars, na, todo, ticking, faults>>

(* The Device Discovery Agent and the orchestrator.                        *)
Environment == CredentialsNext /\ UNCHANGED tokenVars

Cycle(c) == \/ Skip(c) \/ Provision(c) \/ ProvisionFails(c) \/ PersistFails(c) \/ Refused(c)
            \/ KilledWriting(c)
Agent == Start \/ EndCycle \/ NextCycle \/ \E c \in Clients : Cycle(c)
TokensNext == Agent \/ Tick \/ Environment \/ Crash

(* The process runs, calls return (their client has a timeout of 30        *)
(* seconds) and time passes.                                               *)
TokensFairness == WF_allVars(Agent) /\ WF_allVars(Tick)
TokensSpec == TokensInit /\ [][TokensNext]_allVars /\ TokensFairness

-----------------------------------------------------------------------------
(* The goroutine never lets a client wait because of a token that only it  *)
(* knows: what it remembers as good for more than REFRESH_INTERVAL is in   *)
(* the file, though any request and any write may fail and the process may *)
(* end inside them (createRefreshTokens, node-agent.go:327-365).           *)
MemoryIsFile == \A c \in Clients : mem[c] > 2 => file[c] = mem[c]

(* A token that is in its last tick, or has expired, is in its file only   *)
(* if the tick before brought no successful check of the client: one check *)
(* each five minutes is enough to refresh in time (token.go:19, 50-53).    *)
NoExpiredToken == \A c \in Clients : file[c] \in Expired..0 => c \in missed

(* Once the credentials on the disk are those the identity provider        *)
(* accepts, every client is given good tokens again and again, whatever    *)
(* has failed before: a missing token, an expired one, a wrong pair of     *)
(* credentials.  The exception is the file of an agent that a kill has     *)
(* left empty: the process ends at each start (token.go:74-78).            *)
TokensArrive ==
    <>[]Accepted =>
        \/ \A c \in Clients : []<>(file[c] >= 2)
        \/ <>[](na = "down" /\ \E a \in Agents : file[a] = Empty)
=============================================================================
