-------------------------- MODULE CredentialProofs --------------------------
(***************************************************************************)
(* Proofs about the node's credentials.  Onboarding, for any               *)
(* configurations, terminals and bounds: a run that ends well has left a   *)
(* full set of files behind, and the two credential files are written as   *)
(* Credentials promises.  NodeTokens, for any agents, faults and bounds:   *)
(* what the goroutine remembers is in the files, and a token gets near its *)
(* end only when its client was not checked with success in the tick       *)
(* before.  The two side by side on one node: NodeTokens' environment is   *)
(* what the Device Discovery Agent does.                                   *)
(***************************************************************************)
EXTENDS Onboarding, NodeTokens, TLAPS

(* A node that is onboarded has credentials.                               *)
OnboardedHasCredentials == node.state = "onboarded" => node.generation # 0

(* The places where the answer of the stream is being written.             *)
Answering == {"project", "id", "secret", "auth", "access", "release"}

(* An answer is of a generation the node has had.                          *)
AnswerIsReal == dda \in Answering => got.generation \in 1..node.generation

(* The credential files hold nothing newer than the node, nor than the     *)
(* answer that is about to replace them.                                   *)
NothingNewer ==
    \A f \in {"id", "secret"} :
        /\ disk[f] # User
        /\ disk[f] \in Generations =>
               /\ disk[f] <= node.generation
               /\ dda \in Answering => disk[f] <= got.generation

(* What each place finds on the disk: the files written before it.         *)
Behind ==
    /\ dda \in Answering \ {"project"} => disk["project"] = got.generation
    /\ dda \in Answering \ {"project", "id"} => disk["id"] = got.generation
    /\ dda \in {"auth", "access", "release"} => disk["secret"] = got.generation
    /\ dda = "release" => disk["access"] = got.generation
    /\ dda \in {"userRelease", "register", "userProject"} => disk["access"] = User
    /\ dda \in {"register", "userProject"} => disk["release"] = User

IInv == /\ TypeOK /\ OnboardedHasCredentials /\ AnswerIsReal /\ NothingNewer /\ Behind
        /\ DoneIsComplete

-----------------------------------------------------------------------------
(* The values on the disk are told apart.                                  *)
LEMMA ValueFacts ==
    /\ MaxGeneration \in Nat /\ MaxBoots \in Nat
    /\ MaxAttempts \in Nat \ {0} /\ MaxRetries \in Nat \ {0}
    /\ Absent = 0 /\ Torn = MaxGeneration + 1 /\ User = MaxGeneration + 2
    /\ Generations = 1..MaxGeneration
<1>1. {MaxGeneration, MaxBoots} \subseteq Nat /\ {MaxAttempts, MaxRetries} \subseteq Nat \ {0}
  BY OnboardingAssumption, GenerationsAssumption
<1>2. QED
  BY <1>1 DEF Absent, Torn, User, Generations, Cred!Absent, Cred!Torn

(* The first states.                                                       *)
LEMMA InitInv == Init => IInv
<1> SUFFICES ASSUME Init PROVE IInv
  OBVIOUS
<1>1. \A p \in BOOLEAN : [generation |-> 0, complete |-> p] \in
          [generation : 0..MaxGeneration, complete : BOOLEAN]
  BY ValueFacts
<1>2. got \in [generation : 0..MaxGeneration, complete : BOOLEAN]
  BY <1>1, Zenon DEF Init, NothingGot
<1>3. node \in [state : {"unknown", "registered", "onboarded"}, generation : 0..MaxGeneration]
  BY ValueFacts DEF Init
<1>4. orphan \in [Terminals -> BOOLEAN]
  BY Zenon DEF Init
<1>5. dda = "off" /\ dda \in Places /\ dda \notin Answering
  BY DEF Init, Places, Answering
<1>6. /\ disk \in [Files -> {Absent, Torn, User} \cup Generations]
      /\ \A f \in Files : disk[f] = Absent
  BY DEF Init
<1>7. tries \in 0..MaxAttempts \cup 0..MaxRetries /\ boots \in 0..MaxBoots
  BY ValueFacts DEF Init
<1>8. reader \in [Terminals -> {"closed", "user", "password", "failed"}]
  BY DEF Init, Closed
<1>9. login \in {"none", "good", "bad"} /\ hosts \in SUBSET {"system", "extra"}
      /\ setting \in Settings \cup {NoSetting}
  BY DEF Init
<1>10. TypeOK
  BY <1>2, <1>3, <1>4, <1>5, <1>6, <1>7, <1>8, <1>9, Zenon DEF TypeOK
<1>11. NothingNewer
  BY <1>6, ValueFacts DEF NothingNewer, Files
<1>12. QED
  BY <1>5, <1>10, <1>11 DEF IInv, AnswerIsReal, Behind, DoneIsComplete, Answering, Init,
                            OnboardedHasCredentials

-----------------------------------------------------------------------------
(* A step that leaves the files and the answer alone, whatever becomes of  *)
(* the node, keeps the invariant when the place it comes to promises no    *)
(* more than the one it left.                                              *)
LEMMA QuietInv ==
  ASSUME IInv, TypeOK', OnboardedHasCredentials', UNCHANGED <<disk, got>>,
         node'.generation >= node.generation,
         \/ dda' = dda
         \/ dda' \notin Answering \cup {"userRelease", "register", "userProject", "done"}
         \/ dda = "register" /\ dda' = "userProject"
         \/ dda = "auth" /\ dda' = "access"
  PROVE  IInv'
<1>1. node.generation \in Nat /\ node'.generation \in Nat
  BY ValueFacts DEF IInv, TypeOK
<1>2. dda' \in Answering => dda \in Answering
  BY DEF Answering
<1>3. AnswerIsReal'
  BY <1>1, <1>2 DEF IInv, AnswerIsReal
<1>4. NothingNewer'
  <2>1. ASSUME NEW f \in {"id", "secret"}, disk[f] \in Generations
        PROVE  /\ disk[f] <= node'.generation
               /\ dda' \in Answering => disk[f] <= got.generation
    BY <1>1, <1>2, <2>1, ValueFacts DEF IInv, NothingNewer
  <2>2. QED
    BY <2>1, ValueFacts DEF IInv, NothingNewer, Generations, User
<1>5. Behind'
  BY DEF IInv, Behind, Answering
<1>6. DoneIsComplete'
  BY DEF IInv, DoneIsComplete
<1>7. QED
  BY <1>3, <1>4, <1>5, <1>6 DEF IInv

(* A step that gives up, and may spoil files, keeps it.                    *)
LEMMA GivenUpInv ==
  ASSUME IInv, TypeOK', node' = node,
         \A f \in {"id", "secret"} : disk'[f] \in {disk[f], Torn},
         dda' \notin Answering \cup {"userRelease", "register", "userProject", "done"}
  PROVE  IInv'
<1>1. ASSUME NEW f \in {"id", "secret"}
      PROVE  disk'[f] # User /\ (disk'[f] \in Generations => disk'[f] <= node.generation)
  <2>1. CASE disk'[f] = disk[f]
    BY <2>1 DEF IInv, NothingNewer
  <2>2. CASE disk'[f] = Torn
    BY <2>2, ValueFacts
  <2>3. QED
    BY <2>1, <2>2
<1>2. NothingNewer'
  BY <1>1, ValueFacts DEF NothingNewer, User, Generations
<1>3. OnboardedHasCredentials' /\ AnswerIsReal' /\ Behind' /\ DoneIsComplete'
  BY DEF IInv, OnboardedHasCredentials, AnswerIsReal, Behind, DoneIsComplete, Answering
<1>4. QED
  BY <1>2, <1>3 DEF IInv

-----------------------------------------------------------------------------
(* What a save leaves in its file and in the others.                       *)
LEMMA SaveFacts ==
  ASSUME disk \in [Files -> {Absent, Torn, User} \cup Generations],
         NEW f \in Files, NEW value \in {User} \cup Generations
  PROVE  /\ SaveToFile(f, value) =>
               /\ disk' \in [Files -> {Absent, Torn, User} \cup Generations]
               /\ disk'[f] = value /\ \A g \in Files \ {f} : disk'[g] = disk[g]
         /\ SaveFails(f) =>
               /\ disk' \in [Files -> {Absent, Torn, User} \cup Generations]
               /\ disk'[f] \in {disk[f], Torn}
               /\ \A g \in Files \ {f} : disk'[g] = disk[g]
<1>1. SaveToFile(f, value) =>
          /\ disk' \in [Files -> {Absent, Torn, User} \cup Generations]
          /\ disk'[f] = value /\ \A g \in Files \ {f} : disk'[g] = disk[g]
  BY DEF SaveToFile
<1>2. ASSUME SaveFails(f)
      PROVE  /\ disk' \in [Files -> {Absent, Torn, User} \cup Generations]
             /\ disk'[f] \in {disk[f], Torn}
             /\ \A g \in Files \ {f} : disk'[g] = disk[g]
  <2>1. CASE disk' = disk
    BY <2>1
  <2>2. CASE disk' = [disk EXCEPT ![f] = Torn]
    BY <2>2
  <2>3. QED
    BY <1>2, <2>1, <2>2 DEF SaveFails
<1>3. QED
  BY <1>1, <1>2

(* The save of a file of the answer.                                       *)
LEMMA AnswerSaved ==
  ASSUME IInv, NEW f \in Files, NEW next,
         Saves(f, got.generation, next, "failed"), UNCHANGED <<node, got, loginVars, bootVars>>,
         dda \in Answering, next \in Places
  PROVE  /\ TypeOK'
         /\ \/ /\ dda' = next /\ disk'[f] = got.generation
               /\ \A g \in Files \ {f} : disk'[g] = disk[g]
            \/ IInv'
<1>1. got.generation \in Generations
  BY ValueFacts DEF IInv, TypeOK, AnswerIsReal, Generations
<1>2. disk \in [Files -> {Absent, Torn, User} \cup Generations]
  BY DEF IInv, TypeOK
<1>3. CASE SaveToFile(f, got.generation) /\ dda' = next
  <2>1. /\ disk' \in [Files -> {Absent, Torn, User} \cup Generations]
        /\ disk'[f] = got.generation /\ \A g \in Files \ {f} : disk'[g] = disk[g]
    BY <1>1, <1>2, <1>3, SaveFacts
  <2>2. TypeOK'
    BY <1>3, <2>1, Zenon DEF IInv, TypeOK, loginVars, bootVars
  <2>3. QED
    BY <1>3, <2>1, <2>2
<1>4. CASE SaveFails(f) /\ dda' = "failed"
  <2>1. /\ disk' \in [Files -> {Absent, Torn, User} \cup Generations]
        /\ disk'[f] \in {disk[f], Torn} /\ \A g \in Files \ {f} : disk'[g] = disk[g]
    BY <1>1, <1>2, <1>4, SaveFacts
  <2>2. dda' \in Places /\ dda' \notin Answering
                 \cup {"userRelease", "register", "userProject", "done"}
    BY <1>4 DEF Places, Answering
  <2>3. TypeOK'
    BY <2>1, <2>2, Zenon DEF IInv, TypeOK, loginVars, bootVars
  <2>4. \A g \in {"id", "secret"} : disk'[g] \in {disk[g], Torn}
    BY <2>1 DEF Files
  <2>5. node' = node
    OBVIOUS
  <2>6. QED
    BY <2>2, <2>3, <2>4, <2>5, GivenUpInv, Zenon
<1>5. QED
  BY <1>3, <1>4 DEF Saves

(* The steps that write the answer's files.                                *)
LEMMA AnswerStep ==
  ASSUME IInv, SaveProject \/ SaveClientID \/ SaveClientSecret \/ SaveTokens
  PROVE  IInv'
<1>0. got.generation \in Generations \/ dda \notin Answering
  BY ValueFacts DEF IInv, TypeOK, AnswerIsReal, Generations
<1>1. CASE SaveProject
  <2>1. PICK next \in {IF got.complete THEN "id" ELSE "failed", "failed"} :
          Saves("project", got.generation, next, "failed")
    BY <1>1 DEF SaveProject
  <2>2. TypeOK' /\ (\/ /\ dda' = next /\ disk'["project"] = got.generation
                       /\ \A g \in Files \ {"project"} : disk'[g] = disk[g]
                    \/ IInv')
    BY <1>1, <2>1, AnswerSaved DEF SaveProject, Answering, Files, Places
  <2>3. QED
    BY <1>1, <2>1, <2>2, ValueFacts
       DEF SaveProject, IInv, AnswerIsReal, NothingNewer, Behind, DoneIsComplete, Answering,
           OnboardedHasCredentials, Files, User, Generations
<1>2. CASE SaveClientID
  <2>1. TypeOK' /\ (\/ /\ dda' = "secret" /\ disk'["id"] = got.generation
                       /\ \A g \in Files \ {"id"} : disk'[g] = disk[g]
                    \/ IInv')
    BY <1>2, AnswerSaved DEF SaveClientID, Answering, Files, Places
  <2>2. QED
    BY <1>0, <1>2, <2>1, ValueFacts
       DEF SaveClientID, IInv, AnswerIsReal, NothingNewer, Behind, DoneIsComplete, Answering,
           OnboardedHasCredentials, Files, User, Generations
<1>3. CASE SaveClientSecret
  <2>1. TypeOK' /\ (\/ /\ dda' = "auth" /\ disk'["secret"] = got.generation
                       /\ \A g \in Files \ {"secret"} : disk'[g] = disk[g]
                    \/ IInv')
    BY <1>3, AnswerSaved DEF SaveClientSecret, Answering, Files, Places
  <2>2. QED
    BY <1>0, <1>3, <2>1, ValueFacts
       DEF SaveClientSecret, IInv, AnswerIsReal, NothingNewer, Behind, DoneIsComplete,
           OnboardedHasCredentials, Answering, Files, User, Generations
<1>4. CASE SaveTokens /\ dda = "access"
  <2>1. TypeOK' /\ (\/ /\ dda' = "release" /\ disk'["access"] = got.generation
                       /\ \A g \in Files \ {"access"} : disk'[g] = disk[g]
                    \/ IInv')
    BY <1>4, AnswerSaved DEF SaveTokens, Answering, Files, Places
  <2>2. QED
    BY <1>0, <1>4, <2>1, ValueFacts
       DEF SaveTokens, IInv, AnswerIsReal, NothingNewer, Behind, DoneIsComplete, Answering,
           OnboardedHasCredentials, Files, User, Generations
<1>5. CASE SaveTokens /\ dda = "release"
  <2>1. TypeOK' /\ (\/ /\ dda' = "done" /\ disk'["release"] = got.generation
                       /\ \A g \in Files \ {"release"} : disk'[g] = disk[g]
                    \/ IInv')
    BY <1>5, AnswerSaved DEF SaveTokens, Answering, Files, Places
  <2>2. QED
    BY <1>0, <1>5, <2>1, ValueFacts
       DEF SaveTokens, IInv, AnswerIsReal, NothingNewer, Behind, DoneIsComplete, Answering,
           OnboardedHasCredentials, Files, User, Generations
<1>6. QED
  BY <1>1, <1>2, <1>3, <1>4, <1>5 DEF SaveTokens

(* Retries and attempts keep their types.                                  *)
LEMMA NextTypes ==
  ASSUME IInv, NextAttempt \/ NextRetry
  PROVE  /\ tries' \in 0..MaxAttempts \cup 0..MaxRetries
         /\ dda' \in {"attempt", "register", "failed"} /\ dda' \in Places
         /\ NextAttempt => dda' # "register"
<1>0. NextAttempt => dda' # "register"
  BY DEF NextAttempt
<1>1. tries \in 0..MaxAttempts \cup 0..MaxRetries
  BY DEF IInv, TypeOK
<1>2. CASE NextAttempt
  BY <1>0, <1>1, <1>2, ValueFacts DEF NextAttempt, Places, LoginPlaces
<1>3. CASE NextRetry
  BY <1>0, <1>1, <1>3, ValueFacts DEF NextRetry, Places, LoginPlaces
<1>4. QED
  BY <1>2, <1>3

(* A file the user's login fills: it is well-formed whatever happens.      *)
LEMMA UserSaved ==
  ASSUME IInv, NEW f \in Files, SaveToFile(f, User) \/ SaveFails(f),
         dda' \in Places, tries' \in 0..MaxAttempts \cup 0..MaxRetries,
         UNCHANGED <<node, got, reader, orphan, login, bootVars>>
  PROVE  /\ TypeOK'
         /\ SaveToFile(f, User) => disk'[f] = User
         /\ SaveFails(f) => disk'[f] \in {disk[f], Torn}
         /\ \A g \in Files \ {f} : disk'[g] = disk[g]
<1>1. disk \in [Files -> {Absent, Torn, User} \cup Generations]
  BY DEF IInv, TypeOK
<1>2. /\ disk' \in [Files -> {Absent, Torn, User} \cup Generations]
      /\ SaveToFile(f, User) => disk'[f] = User
      /\ SaveFails(f) => disk'[f] \in {disk[f], Torn}
      /\ \A g \in Files \ {f} : disk'[g] = disk[g]
  BY <1>1, SaveFacts
<1>3. TypeOK'
  BY <1>2, Zenon DEF IInv, TypeOK, bootVars
<1>4. QED
  BY <1>2, <1>3

(* The interactive mode's writes: the credentials are not touched.         *)
LEMMA UserStep == ASSUME IInv, WriteTokens \/ SaveUserProject PROVE IInv'
<1>0. tries \in 0..MaxAttempts \cup 0..MaxRetries
  BY DEF IInv, TypeOK
<1>1. CASE WriteTokens /\ dda = "userAccess"
  <2>1. dda' \in Places /\ tries' \in 0..MaxAttempts \cup 0..MaxRetries
    BY <1>0, <1>1, NextTypes DEF WriteTokens, Places, LoginPlaces
  <2>2. /\ TypeOK'
        /\ SaveToFile("access", User) => disk'["access"] = User
        /\ \A g \in Files \ {"access"} : disk'[g] = disk[g]
    BY <1>1, <2>1, UserSaved DEF WriteTokens, Files
  <2>3. \/ SaveToFile("access", User) /\ dda' = "userRelease"
        \/ dda' \in {"attempt", "failed"}
    BY <1>1, NextTypes DEF WriteTokens
  <2>4. UNCHANGED <<node, got>>
    BY <1>1 DEF WriteTokens
  <2>5. QED
    BY <2>2, <2>3, <2>4, ValueFacts
       DEF IInv, AnswerIsReal, NothingNewer, Behind, DoneIsComplete, Answering, Files,
           OnboardedHasCredentials
<1>2. CASE WriteTokens /\ dda = "userRelease"
  <2>1. dda' \in Places /\ tries' \in 0..MaxAttempts \cup 0..MaxRetries
    <3>1. CASE NextAttempt
      BY <3>1, NextTypes
    <3>2. CASE dda' = "register" /\ tries' = 1
      <4>1. 1 \in 0..MaxAttempts \cup 0..MaxRetries
        BY ValueFacts
      <4>2. QED
        BY <3>2, <4>1 DEF Places, LoginPlaces
    <3>3. QED
      BY <1>2, <3>1, <3>2 DEF WriteTokens
  <2>2. /\ TypeOK'
        /\ SaveToFile("release", User) => disk'["release"] = User
        /\ \A g \in Files \ {"release"} : disk'[g] = disk[g]
    BY <1>2, <2>1, UserSaved DEF WriteTokens, Files
  <2>3. \/ SaveToFile("release", User) /\ dda' = "register"
        \/ dda' \in {"attempt", "failed"}
    BY <1>2, NextTypes DEF WriteTokens
  <2>4. UNCHANGED <<node, got>>
    BY <1>2 DEF WriteTokens
  <2>5. QED
    BY <1>2, <2>2, <2>3, <2>4, ValueFacts
       DEF IInv, AnswerIsReal, NothingNewer, Behind, DoneIsComplete, Answering, Files,
           OnboardedHasCredentials
<1>3. CASE SaveUserProject
  <2>1. dda' \in Places /\ tries' \in 0..MaxAttempts \cup 0..MaxRetries
    BY <1>0, <1>3, NextTypes DEF SaveUserProject, Places
  <2>2. /\ TypeOK'
        /\ SaveToFile("project", User) => disk'["project"] = User
        /\ \A g \in Files \ {"project"} : disk'[g] = disk[g]
    BY <1>3, <2>1, UserSaved DEF SaveUserProject, Files
  <2>3. \/ SaveToFile("project", User) /\ dda' = "done"
        \/ dda' \in {"attempt", "register", "failed"}
    BY <1>3, NextTypes DEF SaveUserProject
  <2>4. UNCHANGED <<node, got>> /\ dda = "userProject"
    BY <1>3 DEF SaveUserProject
  <2>5. QED
    BY <2>2, <2>3, <2>4, ValueFacts
       DEF IInv, AnswerIsReal, NothingNewer, Behind, DoneIsComplete, Answering, Files,
           OnboardedHasCredentials
<1>4. QED
  BY <1>1, <1>2, <1>3 DEF WriteTokens

(* The answer on the stream is of the node's generation, and no file is of *)
(* a later one.                                                            *)
LEMMA AnswerInv == ASSUME IInv, Answer PROVE IInv'
<1>0. /\ node.generation \in 0..MaxGeneration
      /\ node \in [state : {"unknown", "registered", "onboarded"}, generation : 0..MaxGeneration]
  BY DEF IInv, TypeOK
<1>1. UNCHANGED <<node, disk, reader, orphan, login, bootVars>> /\ tries' = 1
  BY Zenon DEF Answer
<1>2. dda' \in {"wait", "project", "failed", "login"} /\ dda' \in Places
  BY DEF Answer, Places, LoginPlaces
<1>3. tries' \in 0..MaxAttempts \cup 0..MaxRetries
  BY <1>1, ValueFacts
<1>4. CASE UNCHANGED got /\ dda' # "project"
  <2>1. TypeOK'
    BY <1>1, <1>2, <1>3, <1>4, Zenon DEF IInv, TypeOK, bootVars
  <2>2. dda' \notin Answering \cup {"userRelease", "register", "userProject", "done"}
    BY <1>2, <1>4 DEF Answering
  <2>3. node'.generation >= node.generation
    BY <1>0, <1>1
  <2>4. UNCHANGED <<disk, got>>
    BY <1>1, <1>4
  <2>5. QED
    BY <1>1, <2>1, <2>2, <2>3, <2>4, QuietInv DEF IInv, OnboardedHasCredentials
<1>5. CASE /\ node.state = "onboarded" /\ dda' = "project"
           /\ got' \in [generation : {node.generation}, complete : BOOLEAN]
  <2>1. got' \in [generation : 0..MaxGeneration, complete : BOOLEAN]
    <3>1. \A x \in [generation : {node.generation}, complete : BOOLEAN] :
              x \in [generation : 0..MaxGeneration, complete : BOOLEAN]
      BY <1>0
    <3>2. QED
      BY <1>5, <3>1, Zenon
  <2>2. TypeOK'
    BY <1>1, <1>2, <1>3, <2>1, Zenon DEF IInv, TypeOK, bootVars
  <2>3. got'.generation = node.generation
    BY <1>5
  <2>4. node.generation # 0
    BY <1>5 DEF IInv, OnboardedHasCredentials
  <2>5. UNCHANGED <<node, disk>> /\ dda' = "project"
    BY <1>1, <1>5
  <2>6. AnswerIsReal'
    BY <1>0, <2>3, <2>4, <2>5 DEF AnswerIsReal
  <2>7. NothingNewer'
    BY <1>0, <2>3, <2>5, ValueFacts DEF IInv, NothingNewer, User, Generations
  <2>8. Behind' /\ DoneIsComplete' /\ OnboardedHasCredentials'
    BY <2>5 DEF IInv, Behind, DoneIsComplete, Answering, OnboardedHasCredentials
  <2>9. QED
    BY <2>2, <2>6, <2>7, <2>8 DEF IInv
<1>6. QED
  BY <1>4, <1>5, Zenon DEF Answer

(* The orchestrator's steps: credentials are only ever made anew.          *)
LEMMA OrchestratorInv == ASSUME IInv, Orchestrator PROVE IInv'
<1>1. UNCHANGED <<ddaVars, bootVars>>
  BY Zenon DEF Orchestrator, Onboarded, Registered, Deleted
<1>2. /\ node \in [state : {"unknown", "registered", "onboarded"}, generation : 0..MaxGeneration]
      /\ node.generation \in 0..MaxGeneration
  BY DEF IInv, TypeOK
<1>3. /\ node' \in [state : {"unknown", "registered", "onboarded"}, generation : 0..MaxGeneration]
      /\ node'.generation >= node.generation /\ OnboardedHasCredentials'
  BY <1>2, ValueFacts
     DEF Orchestrator, Onboarded, Registered, Deleted, OnboardedHasCredentials
<1>4. TypeOK'
  BY <1>1, <1>3, Zenon DEF IInv, TypeOK, ddaVars, bootVars, loginVars
<1>5. UNCHANGED <<disk, got>> /\ dda' = dda
  BY <1>1 DEF ddaVars
<1>6. QED
  BY <1>3, <1>4, <1>5, QuietInv

(* The steps that change neither the node nor a file nor the answer.       *)
Quiet == \/ Main \/ BackOff \/ ClientAuth \/ Login \/ Prompt \/ CollectCredentials
         \/ ValidateAndFetchTokens \/ Boot \/ \E t \in Terminals : TypeLine(t)

LEMMA QuietTypes ==
  ASSUME IInv, Quiet
  PROVE  /\ UNCHANGED <<node, disk, got>> /\ TypeOK'
         /\ \/ dda' = dda
            \/ dda = "auth" /\ dda' = "access"
            \/ dda' \notin Answering \cup {"userRelease", "register", "userProject", "done"}
<1>1. UNCHANGED <<node, disk, got>>
  BY Zenon DEF Quiet, Main, BackOff, ClientAuth, Login, Prompt, CollectCredentials,
               ValidateAndFetchTokens, Boot, TypeLine
<1>2. CASE Main \/ Login
  <2>1. hosts' \in SUBSET {"system", "extra"}
    BY <1>2 DEF Main, Login, UpdateHosts, IInv, TypeOK
  <2>2. dda' \in {"stream", "attempt", "failed"} /\ UNCHANGED <<loginVars, setting, boots>>
    BY <1>2 DEF Main, Login
  <2>3. dda' \in Places
    BY <2>2 DEF Places, LoginPlaces
  <2>4. TypeOK'
    BY <1>1, <2>1, <2>2, <2>3, Zenon DEF IInv, TypeOK, loginVars
  <2>5. QED
    BY <1>1, <2>2, <2>4 DEF Answering
<1>3. CASE BackOff \/ ClientAuth
  <2>1. UNCHANGED <<loginVars, bootVars>> /\ dda' \in {"stream", "failed", "access"}
        /\ (dda' = "access" => dda = "auth")
    BY <1>3 DEF BackOff, ClientAuth, Moves
  <2>2. dda' \in Places
    BY <2>1 DEF Places, LoginPlaces
  <2>3. TypeOK'
    BY <1>1, <2>1, <2>2, Zenon DEF IInv, TypeOK, loginVars, bootVars
  <2>4. QED
    BY <1>1, <2>1, <2>3 DEF Answering
<1>4. CASE Prompt
  <2>1. reader' \in [Terminals -> {"closed", "user", "password", "failed"}] /\ login' = "none"
        /\ dda' = "collect"
    BY <1>4 DEF Prompt, Moves
  <2>2. UNCHANGED <<orphan, tries, bootVars>>
    BY <1>4 DEF Prompt
  <2>3. dda' \in Places /\ login' \in {"none", "good", "bad"}
    BY <2>1 DEF Places, LoginPlaces
  <2>4. TypeOK'
    BY <1>1, <2>1, <2>2, <2>3, Zenon DEF IInv, TypeOK, bootVars
  <2>5. QED
    BY <1>1, <2>1, <2>4 DEF Answering
<1>5. CASE CollectCredentials
  <2>1. orphan' = [t \in Terminals |-> orphan[t] \/ reader[t] = "password"]
    BY <1>5 DEF CollectCredentials, GiveUpReaders
  <2>2. orphan' \in [Terminals -> BOOLEAN]
    BY <2>1, Zenon
  <2>3. reader' \in [Terminals -> {"closed", "user", "password", "failed"}]
    BY <1>5 DEF CollectCredentials, GiveUpReaders, Closed
  <2>4. tries' \in 0..MaxAttempts \cup 0..MaxRetries
        /\ dda' \in {"validate", "attempt", "failed"}
    BY <1>5, NextTypes DEF CollectCredentials, IInv, TypeOK
  <2>5. dda' \in Places
    BY <2>4 DEF Places, LoginPlaces
  <2>6. UNCHANGED <<login, bootVars>>
    BY <1>5 DEF CollectCredentials
  <2>7. TypeOK'
    BY <1>1, <2>2, <2>3, <2>4, <2>5, <2>6, Zenon DEF IInv, TypeOK, bootVars
  <2>8. QED
    BY <1>1, <2>4, <2>7 DEF Answering
<1>6. CASE ValidateAndFetchTokens
  <2>1. tries' \in 0..MaxAttempts \cup 0..MaxRetries
        /\ dda' \in {"userAccess", "attempt", "failed"}
    BY <1>6, NextTypes DEF ValidateAndFetchTokens, IInv, TypeOK
  <2>2. dda' \in Places
    BY <2>1 DEF Places, LoginPlaces
  <2>3. UNCHANGED <<reader, orphan, login, bootVars>>
    BY <1>6 DEF ValidateAndFetchTokens
  <2>4. TypeOK'
    BY <1>1, <2>1, <2>2, <2>3, Zenon DEF IInv, TypeOK, bootVars
  <2>5. QED
    BY <1>1, <2>1, <2>4 DEF Answering
<1>7. CASE Boot
  <2>1. boots \in 0..MaxBoots /\ boots < MaxBoots /\ boots' = boots + 1
    BY <1>7 DEF Boot, IInv, TypeOK
  <2>2. boots' \in 0..MaxBoots
    BY <2>1, ValueFacts
  <2>3. dda' = "main" /\ setting' \in Settings /\ UNCHANGED <<hosts, loginVars>>
    BY <1>7 DEF Boot
  <2>4. dda' \in Places /\ setting' \in Settings \cup {NoSetting}
    BY <2>3 DEF Places
  <2>5. TypeOK'
    BY <1>1, <2>2, <2>3, <2>4, Zenon DEF IInv, TypeOK, loginVars
  <2>6. QED
    BY <1>1, <2>3, <2>5 DEF Answering
<1>8. ASSUME NEW t \in Terminals, TypeLine(t)
      PROVE  TypeOK' /\ dda' = dda
  <2>1. /\ reader \in [Terminals -> {"closed", "user", "password", "failed"}]
        /\ orphan \in [Terminals -> BOOLEAN] /\ login \in {"none", "good", "bad"}
    BY Zenon DEF IInv, TypeOK
  <2>2. reader' \in [Terminals -> {"closed", "user", "password", "failed"}]
        /\ login' \in {"none", "good", "bad"}
    BY <1>8, <2>1 DEF TypeLine
  <2>3. orphan' = orphan \/ orphan' = [orphan EXCEPT ![t] = FALSE]
    BY <1>8, Zenon DEF TypeLine
  <2>4. orphan' \in [Terminals -> BOOLEAN]
    <3>1. \A p \in BOOLEAN : [orphan EXCEPT ![t] = p] \in [Terminals -> BOOLEAN]
      BY <2>1
    <3>2. QED
      BY <2>1, <2>3, <3>1, Zenon
  <2>5. UNCHANGED <<dda, tries, bootVars>>
    BY <1>8 DEF TypeLine
  <2>6. QED
    BY <1>1, <2>2, <2>4, <2>5, Zenon DEF IInv, TypeOK, bootVars
<1>9. QED
  BY <1>1, <1>2, <1>3, <1>4, <1>5, <1>6, <1>7, <1>8, Zenon DEF Quiet

LEMMA QuietStep == ASSUME IInv, Quiet PROVE IInv'
<1>1. OnboardedHasCredentials' /\ node'.generation >= node.generation
  BY QuietTypes, ValueFacts DEF IInv, TypeOK, OnboardedHasCredentials
<1>2. QED
  BY <1>1, QuietTypes, QuietInv

(* Registering the node may make it known, and leads to its project.       *)
LEMMA CreateInv == ASSUME IInv, CreateNodes PROVE IInv'
<1>1. /\ node \in [state : {"unknown", "registered", "onboarded"}, generation : 0..MaxGeneration]
      /\ node.generation \in 0..MaxGeneration
  BY DEF IInv, TypeOK
<1>2. /\ node' \in [state : {"unknown", "registered", "onboarded"}, generation : 0..MaxGeneration]
      /\ node'.generation >= node.generation /\ OnboardedHasCredentials'
  BY <1>1 DEF CreateNodes, IInv, OnboardedHasCredentials
<1>3. UNCHANGED <<got, disk, reader, orphan, login, bootVars>> /\ dda = "register"
  BY DEF CreateNodes
<1>4. tries' \in 0..MaxAttempts \cup 0..MaxRetries
      /\ dda' \in {"userProject", "register", "failed"}
  <2>1. CASE NextRetry
    BY <2>1, NextTypes DEF NextRetry
  <2>2. CASE dda' = "userProject" /\ UNCHANGED tries
    BY <2>2 DEF IInv, TypeOK
  <2>3. QED
    BY <2>1, <2>2 DEF CreateNodes
<1>5. dda' \in Places
  BY <1>4 DEF Places, LoginPlaces
<1>6. TypeOK'
  BY <1>2, <1>3, <1>4, <1>5, Zenon DEF IInv, TypeOK, bootVars
<1>7. \/ dda' = dda
      \/ dda' \notin Answering \cup {"userRelease", "register", "userProject", "done"}
      \/ dda = "register" /\ dda' = "userProject"
  BY <1>3, <1>4 DEF Answering
<1>8. QED
  BY <1>2, <1>3, <1>6, <1>7, QuietInv

(* The program is stopped, in the middle of a write maybe.                 *)
LEMMA StopFacts ==
  ASSUME IInv, Stop
  PROVE  /\ disk' \in [Files -> {Absent, Torn, User} \cup Generations]
         /\ disk'["id"] = disk["id"] \/ (dda = "id" /\ disk'["id"] = Torn)
         /\ disk'["secret"] = disk["secret"] \/ (dda = "secret" /\ disk'["secret"] = Torn)
         /\ disk'["id"] = disk["id"] \/ disk'["secret"] = disk["secret"]
<1>1. disk \in [Files -> {Absent, Torn, User} \cup Generations]
  BY DEF IInv, TypeOK
<1>2. CASE disk' = disk
  BY <1>1, <1>2
<1>3. ASSUME NEW f \in Writing, disk' = [disk EXCEPT ![f] = Torn]
      PROVE  /\ disk' \in [Files -> {Absent, Torn, User} \cup Generations]
             /\ disk'["id"] = disk["id"] \/ (dda = "id" /\ disk'["id"] = Torn)
             /\ disk'["secret"] = disk["secret"] \/ (dda = "secret" /\ disk'["secret"] = Torn)
             /\ disk'["id"] = disk["id"] \/ disk'["secret"] = disk["secret"]
  <2>1. /\ f \in {"project", "access", "release"} \/ f = dda
        /\ f \in Files
    BY <1>3 DEF Writing, Files
  <2>2. disk' \in [Files -> {Absent, Torn, User} \cup Generations]
    BY <1>1, <1>3, <2>1
  <2>3. /\ disk'[f] = Torn /\ \A g \in Files \ {f} : disk'[g] = disk[g]
    BY <1>1, <1>3, <2>1
  <2>4. QED
    BY <2>1, <2>2, <2>3 DEF Files
<1>4. QED
  BY <1>2, <1>3 DEF Stop

LEMMA StopInv == ASSUME IInv, Stop PROVE IInv'
<1>1. disk' \in [Files -> {Absent, Torn, User} \cup Generations]
      /\ \A f \in {"id", "secret"} : disk'[f] \in {disk[f], Torn}
  BY StopFacts
<1>2. \A p \in BOOLEAN : [generation |-> 0, complete |-> p] \in
          [generation : 0..MaxGeneration, complete : BOOLEAN]
  BY ValueFacts
<1>3. got' \in [generation : 0..MaxGeneration, complete : BOOLEAN]
  BY <1>2, Zenon DEF Stop, NothingGot
<1>4. orphan' \in [Terminals -> BOOLEAN]
  BY Zenon DEF Stop
<1>5. /\ reader' \in [Terminals -> {"closed", "user", "password", "failed"}]
      /\ login' \in {"none", "good", "bad"} /\ tries' \in 0..MaxAttempts \cup 0..MaxRetries
      /\ setting' \in Settings \cup {NoSetting}
  BY ValueFacts DEF Stop, Closed
<1>6. dda' = "off" /\ dda' \in Places /\ UNCHANGED <<node, hosts, boots>>
  BY DEF Stop, Places
<1>7. TypeOK'
  BY <1>1, <1>3, <1>4, <1>5, <1>6, Zenon DEF IInv, TypeOK
<1>8. QED
  BY <1>1, <1>6, <1>7, GivenUpInv DEF Answering

LEMMA StepInv == IInv /\ [Next]_vars => IInv'
<1> SUFFICES ASSUME IInv, [Next]_vars PROVE IInv'
  OBVIOUS
<1>1. CASE Quiet
  BY <1>1, QuietStep
<1>2. CASE Answer
  BY <1>2, AnswerInv
<1>3. CASE SaveProject \/ SaveClientID \/ SaveClientSecret \/ SaveTokens
  BY <1>3, AnswerStep
<1>4. CASE WriteTokens \/ SaveUserProject
  BY <1>4, UserStep
<1>5. CASE CreateNodes
  BY <1>5, CreateInv
<1>6. CASE Orchestrator
  BY <1>6, OrchestratorInv
<1>7. CASE Stop
  BY <1>7, StopInv
<1>8. CASE UNCHANGED vars
  <2>1. UNCHANGED <<node, dda, got, disk, reader, orphan, login, tries, setting, hosts, boots>>
    BY <1>8, Zenon DEF vars, ddaVars, loginVars, bootVars
  <2>2. TypeOK'
    BY <2>1, Zenon DEF IInv, TypeOK
  <2>3. node'.generation >= node.generation /\ OnboardedHasCredentials'
    BY <2>1, ValueFacts DEF IInv, TypeOK, OnboardedHasCredentials
  <2>4. QED
    BY <2>1, <2>2, <2>3, QuietInv
<1>9. QED
  BY <1>1, <1>2, <1>3, <1>4, <1>5, <1>6, <1>7, <1>8
     DEF Next, Interactive, NonInteractive, Quiet

-----------------------------------------------------------------------------
(* The invariant holds of every behaviour of the Device Discovery Agent.   *)
THEOREM OnboardingInv == Spec => []IInv
<1>1. Init => IInv
  BY InitInv
<1>2. IInv /\ [Next]_vars => IInv'
  BY StepInv
<1>3. QED
  BY <1>1, <1>2, PTL DEF Spec

(* Every state of every run of the program is well-formed.                 *)
THEOREM OnboardingTyped == Spec => []TypeOK
<1>1. IInv => TypeOK
  BY DEF IInv
<1>2. QED
  BY <1>1, OnboardingInv, PTL

(* completeNonInteractiveAuth and executeInteractiveMode end well only     *)
(* with a full set of files, for any faults, boots and generations.        *)
THEOREM DoneIsAlwaysComplete == Spec => []DoneIsComplete
<1>1. IInv => DoneIsComplete
  BY DEF IInv
<1>2. QED
  BY <1>1, OnboardingInv, PTL

-----------------------------------------------------------------------------
(* Each step is one of Credentials', or none of its business.              *)
Seen == <<node.generation, disk["id"], disk["secret"]>>

LEMMA IdWritten ==
  ASSUME IInv, dda = "id", node' = node, disk'["secret"] = disk["secret"],
         disk'["id"] \in {got.generation, Torn}
  PROVE  Cred!WriteID
<1>1. node.generation \in 0..MaxGeneration /\ got.generation \in 1..node.generation
      /\ MaxGeneration \in Nat /\ Cred!Torn = MaxGeneration + 1 /\ Torn = MaxGeneration + 1
  BY ValueFacts DEF IInv, TypeOK, AnswerIsReal, Answering, Cred!Torn
<1>2. \A f \in {"id", "secret"} : disk[f] \in 1..node.generation => disk[f] <= got.generation
  BY <1>1, ValueFacts DEF IInv, NothingNewer, Answering
<1>3. disk'["id"] \in 1..node.generation \cup {Cred!Torn}
  BY <1>1
<1>4. \A f \in {"id", "secret"} : disk[f] \in 1..node.generation => disk[f] <= disk'["id"]
  BY <1>1, <1>2
<1>5. QED
  BY <1>3, <1>4 DEF Cred!WriteID

LEMMA SecretWritten ==
  ASSUME IInv, dda = "secret", node' = node, disk'["id"] = disk["id"],
         disk'["secret"] \in {got.generation, Torn}
  PROVE  Cred!WriteSecret
<1>1. got.generation \in 1..node.generation /\ disk["id"] = got.generation
  BY DEF IInv, AnswerIsReal, Behind, Answering
<1>2. QED
  BY <1>1 DEF Cred!WriteSecret, Torn, Cred!Torn

LEMMA OtherSaved ==
  ASSUME IInv, NEW f \in Files, NEW value \in {User} \cup Generations,
         SaveToFile(f, value) \/ SaveFails(f), node' = node
  PROVE  \A g \in {"id", "secret"} \ {f} : disk'[g] = disk[g]
<1>1. disk \in [Files -> {Absent, Torn, User} \cup Generations]
  BY DEF IInv, TypeOK
<1>2. \A g \in Files \ {f} : disk'[g] = disk[g]
  BY <1>1, SaveFacts
<1>3. QED
  BY <1>2 DEF Files

LEMMA CredentialsStep ==
  ASSUME IInv, [Next]_vars
  PROVE  [Cred!CredentialsNext]_Seen
<1>0. /\ node \in [state : {"unknown", "registered", "onboarded"}, generation : 0..MaxGeneration]
      /\ node.generation \in 0..MaxGeneration /\ MaxGeneration \in Nat
      /\ disk \in [Files -> {Absent, Torn, User} \cup Generations]
  BY ValueFacts DEF IInv, TypeOK
<1>a. dda \in Answering => got.generation \in Generations
  BY <1>0, ValueFacts DEF IInv, AnswerIsReal
<1>1. CASE Quiet \/ Answer
  <2>1. UNCHANGED <<node, disk>>
    BY <1>1, QuietTypes, Zenon DEF Answer
  <2>2. QED
    BY <2>1 DEF Seen
<1>2. CASE Orchestrator \/ CreateNodes
  <2>1. UNCHANGED disk
    BY <1>2, Zenon DEF Orchestrator, Onboarded, Registered, Deleted, CreateNodes, ddaVars
  <2>2. \/ node'.generation = node.generation
        \/ node.generation < MaxGeneration /\ node'.generation = node.generation + 1
    BY <1>0, <1>2 DEF Orchestrator, Onboarded, Registered, Deleted, CreateNodes
  <2>3. QED
    BY <2>1, <2>2 DEF Seen, Cred!CredentialsNext, Cred!Renew
<1>3. CASE SaveClientID
  <2>1. /\ dda = "id" /\ node' = node
        /\ SaveToFile("id", got.generation) \/ SaveFails("id")
    BY <1>3 DEF SaveClientID, Saves
  <2>2. got.generation \in Generations /\ "id" \in Files
    BY <1>a, <2>1 DEF Answering, Files
  <2>3. disk'["secret"] = disk["secret"]
    BY <2>1, <2>2, OtherSaved
  <2>4. disk' = disk \/ disk'["id"] \in {got.generation, Torn}
    BY <1>0, <2>1, <2>2 DEF SaveToFile, SaveFails
  <2>5. CASE disk' = disk
    BY <2>1, <2>5 DEF Seen
  <2>6. CASE disk'["id"] \in {got.generation, Torn}
    BY <2>1, <2>3, <2>6, IdWritten DEF Cred!CredentialsNext
  <2>7. QED
    BY <2>4, <2>5, <2>6
<1>4. CASE SaveClientSecret
  <2>1. /\ dda = "secret" /\ node' = node
        /\ SaveToFile("secret", got.generation) \/ SaveFails("secret")
    BY <1>4 DEF SaveClientSecret, Saves
  <2>2. got.generation \in Generations /\ "secret" \in Files
    BY <1>a, <2>1 DEF Answering, Files
  <2>3. disk'["id"] = disk["id"]
    BY <2>1, <2>2, OtherSaved
  <2>4. disk' = disk \/ disk'["secret"] \in {got.generation, Torn}
    BY <1>0, <2>1, <2>2 DEF SaveToFile, SaveFails
  <2>5. CASE disk' = disk
    BY <2>1, <2>5 DEF Seen
  <2>6. CASE disk'["secret"] \in {got.generation, Torn}
    BY <2>1, <2>3, <2>6, SecretWritten DEF Cred!CredentialsNext
  <2>7. QED
    BY <2>4, <2>5, <2>6
<1>5. CASE SaveProject \/ SaveTokens
  <2>1. PICK f \in {"project", "access", "release"} :
          SaveToFile(f, got.generation) \/ SaveFails(f)
    BY <1>5 DEF SaveProject, SaveTokens, Saves
  <2>2. dda \in Answering /\ node' = node /\ f \in Files
    BY <1>5 DEF SaveProject, SaveTokens, Answering, Files
  <2>3. disk'["id"] = disk["id"] /\ disk'["secret"] = disk["secret"]
    BY <1>a, <2>1, <2>2, OtherSaved
  <2>4. QED
    BY <2>2, <2>3 DEF Seen
<1>6. CASE WriteTokens \/ SaveUserProject
  <2>1. PICK f \in {"project", "access", "release"} : SaveToFile(f, User) \/ SaveFails(f)
    BY <1>6 DEF WriteTokens, SaveUserProject
  <2>2. node' = node /\ f \in Files
    BY <1>6 DEF WriteTokens, SaveUserProject, Files
  <2>3. disk'["id"] = disk["id"] /\ disk'["secret"] = disk["secret"]
    BY <2>1, <2>2, OtherSaved
  <2>4. QED
    BY <2>2, <2>3 DEF Seen
<1>7. CASE Stop
  <2>1. node' = node
    BY <1>7 DEF Stop
  <2>2. CASE disk'["id"] = disk["id"] /\ disk'["secret"] = disk["secret"]
    BY <2>1, <2>2 DEF Seen
  <2>3. CASE dda = "id" /\ disk'["id"] = Torn /\ disk'["secret"] = disk["secret"]
    BY <2>1, <2>3, IdWritten DEF Cred!CredentialsNext
  <2>4. CASE dda = "secret" /\ disk'["secret"] = Torn /\ disk'["id"] = disk["id"]
    BY <2>1, <2>4, SecretWritten DEF Cred!CredentialsNext
  <2>5. QED
    BY <1>7, <2>2, <2>3, <2>4, StopFacts
<1>8. CASE UNCHANGED vars
  BY <1>8, Zenon DEF vars, ddaVars, Seen
<1>9. QED
  BY <1>1, <1>2, <1>3, <1>4, <1>5, <1>6, <1>7, <1>8
     DEF Next, Interactive, NonInteractive, Quiet

(* The program implements Credentials, on which the Node Agent's reading   *)
(* of the files rests (controller.go:113-122, auth_service.go).            *)
THEOREM WritesCredentialsAsPromised == Spec => CredentialsAsPromised
<1>1. Init => Cred!CredentialsInit
  BY DEF Init, Cred!CredentialsInit, Files, Absent, Cred!Absent
<1>2. IInv /\ [Next]_vars => [Cred!CredentialsNext]_<<node.generation, disk["id"], disk["secret"]>>
  BY CredentialsStep DEF Seen
<1>3. QED
  BY <1>1, <1>2, OnboardingInv, PTL DEF Spec, CredentialsAsPromised, Cred!CredentialsSpec

-----------------------------------------------------------------------------
(* The strengthening.  A token remembered with two ticks or more to live   *)
(* is in the file, unless a failed write of its successor has emptied it;  *)
(* a client checked since the last tick has no token near its end.         *)
MemoryOrEmpty == \A c \in Clients : mem[c] >= 2 => file[c] \in {mem[c], Empty}
GoodIsFresh   == \A c \in Clients : c \in good => file[c] \notin -1..1
TokenInv == TokensTypeOK /\ MemoryIsFile /\ MemoryOrEmpty /\ GoodIsFresh /\ NoExpiredToken

-----------------------------------------------------------------------------
(* The numbers of TokensAssumption and GenerationsAssumption.              *)
LEMMA Numbers == Life \in Nat /\ Life > 2 /\ MaxFaults \in Nat /\ MaxGeneration \in Nat
BY TokensAssumption, GenerationsAssumption

(* A tick keeps a token a token, and makes none younger.                   *)
LEMMA OlderToken ==
  ASSUME NEW token \in Tokens
  PROVE  /\ Older(token) \in Tokens
         /\ Older(token) = Empty <=> token = Empty
         /\ Older(token) >= 2 => token >= 2
         /\ Older(token) > 2 => token > 2
         /\ Older(token) \in Expired..0 => token \in -1..1
BY Numbers DEF Older, Tokens, Missing, Empty, Anonymous, Expired

LEMMA OfferedTokens ==
  ASSUME NEW c \in Clients
  PROVE  \A token \in Offered(c) : token \in Tokens \ {Empty} /\ token > 2
BY Numbers DEF Offered, Tokens, Missing, Empty, Anonymous

-----------------------------------------------------------------------------
(* The first states.                                                       *)
LEMMA InitTokens == TokensInit => TokenInv
<1> SUFFICES ASSUME TokensInit PROVE TokenInv
  OBVIOUS
<1>1. Missing \in Tokens \ {Empty} /\ Missing < 2 /\ Missing \notin Expired..0
  BY Numbers DEF Tokens, Missing, Empty, Anonymous, Expired
<1>2. /\ file = [c \in Clients |-> Missing] /\ mem = [c \in Clients |-> Missing]
      /\ good = {} /\ missed = {} /\ todo = {} /\ na = "down" /\ faults = 0
      /\ ticking = FALSE /\ tickDue = FALSE
  BY DEF TokensInit, Forgotten
<1>3. accepted \in 0..MaxGeneration /\ {id, secret} \subseteq Absent..Torn
  BY Numbers DEF TokensInit, CredentialsInit, Absent, Torn
<1>4. file \in [Clients -> Tokens] /\ mem \in [Clients -> Tokens \ {Empty}]
  BY <1>1, <1>2
<1>5. TokensTypeOK
  <2>1. faults \in 0..MaxFaults
    BY <1>2, Numbers
  <2>2. QED
    BY <1>2, <1>3, <1>4, <2>1, Zenon DEF TokensTypeOK
<1>6. \A c \in Clients : file[c] = Missing /\ mem[c] = Missing
  BY <1>2
<1>7. MemoryIsFile /\ MemoryOrEmpty /\ GoodIsFresh /\ NoExpiredToken
  BY <1>1, <1>2, <1>6 DEF MemoryIsFile, MemoryOrEmpty, GoodIsFresh, NoExpiredToken, Missing
<1>8. QED
  BY <1>5, <1>7 DEF TokenInv

-----------------------------------------------------------------------------
(***************************************************************************)
(* Type correctness                                                        *)
(***************************************************************************)
(* Turning a client's file or memory into another token.                   *)
LEMMA CycleType ==
  ASSUME TokensTypeOK, NEW c \in Clients, Cycle(c)
  PROVE  TokensTypeOK'
<1> USE Numbers
<1>0. /\ file \in [Clients -> Tokens] /\ mem \in [Clients -> Tokens \ {Empty}]
      /\ todo \in SUBSET Clients /\ good \in SUBSET Clients /\ na = "cycle"
      /\ ticking \in BOOLEAN /\ tickDue \in BOOLEAN /\ (tickDue => ticking)
      /\ faults \in 0..MaxFaults
  BY Zenon DEF TokensTypeOK, Cycle, Skip, Provision, ProvisionFails, PersistFails, Refused,
               KilledWriting, Asks, Turn
<1>1. UNCHANGED credVars /\ UNCHANGED missed
  BY DEF Cycle, Skip, Provision, ProvisionFails, PersistFails, Refused, KilledWriting, credVars
<1>2. faults' \in 0..MaxFaults
  BY <1>0 DEF Cycle, Skip, Provision, ProvisionFails, PersistFails, Refused, KilledWriting, Fault
<1>3. good' \subseteq Clients
  BY <1>0 DEF Cycle, Skip, Provision, ProvisionFails, PersistFails, Refused, KilledWriting
<1>4. Empty \in Tokens /\ Missing \in Tokens \ {Empty}
  BY DEF Tokens, Missing, Empty, Anonymous
<1>5. file' \in [Clients -> Tokens]
  BY <1>0, <1>4, OfferedTokens
     DEF Cycle, Skip, Provision, ProvisionFails, PersistFails, Refused, KilledWriting
<1>6. mem' \in [Clients -> Tokens \ {Empty}]
  BY <1>0, <1>4, OfferedTokens
     DEF Cycle, Skip, Provision, ProvisionFails, PersistFails, Refused, KilledWriting, Gone,
         Forgotten
<1>7. \/ na' = "down" /\ todo' = {} /\ ticking' = FALSE /\ tickDue' = FALSE
      \/ na' = "cycle" /\ todo' \subseteq Clients /\ ticking' = ticking /\ tickDue' = tickDue
  BY <1>0 DEF Cycle, Skip, Provision, ProvisionFails, PersistFails, Refused, KilledWriting, Gone,
              Done
<1>8. /\ na' \in {"down", "cycle", "wait"} /\ todo' \subseteq Clients
      /\ na' # "cycle" => todo' = {}
  BY <1>7
<1>9. {ticking', tickDue'} \subseteq BOOLEAN /\ (tickDue' => ticking') /\ (ticking' => na' # "down")
  <2>1. CASE na' = "down" /\ todo' = {} /\ ticking' = FALSE /\ tickDue' = FALSE
    BY <2>1, Zenon
  <2>2. CASE na' = "cycle" /\ todo' \subseteq Clients /\ ticking' = ticking /\ tickDue' = tickDue
    <3>1. na' # "down"
      BY <2>2
    <3>2. QED
      BY <3>1, <2>2, <1>0, Zenon
  <2>3. QED
    BY <1>7, <2>1, <2>2
<1>10. accepted' \in 0..MaxGeneration /\ {id', secret'} \subseteq Absent..Torn
       /\ missed' \subseteq Clients
  BY <1>1 DEF TokensTypeOK, credVars, Absent, Torn
<1>11. QED
  BY <1>2, <1>3, <1>5, <1>6, <1>8, <1>9, <1>10, Zenon DEF TokensTypeOK

(* The other steps.                                                        *)
LEMMA TypeStep ==
  ASSUME TokensTypeOK, [TokensNext]_allVars
  PROVE  TokensTypeOK'
<1> USE Numbers
<1>0. /\ file \in [Clients -> Tokens] /\ mem \in [Clients -> Tokens \ {Empty}]
      /\ accepted \in 0..MaxGeneration /\ {id, secret} \subseteq Absent..Torn
      /\ faults \in 0..MaxFaults
  BY Zenon DEF TokensTypeOK
<1>1. CASE Start
  <2>1. mem' \in [Clients -> Tokens \ {Empty}]
    BY <1>0, <1>1 DEF Start, Clients, Tokens, Missing, Empty, Anonymous
  <2>2. QED
    BY <1>1, <2>1, Zenon DEF TokensTypeOK, Start, credVars
<1>2. CASE EndCycle
  BY <1>2, Zenon DEF TokensTypeOK, EndCycle, credVars
<1>3. CASE NextCycle
  BY <1>3, Zenon DEF TokensTypeOK, NextCycle, credVars
<1>4. CASE \E c \in Clients : Cycle(c)
  BY <1>4, CycleType
<1>5. CASE Tick
  <2>1. file' \in [Clients -> Tokens]
    BY <1>0, <1>5, OlderToken DEF Tick
  <2>2. mem' \in [Clients -> Tokens \ {Empty}]
    BY <1>0, <1>5, OlderToken DEF Tick
  <2>3. tickDue' = ticking /\ ticking' = ticking /\ na' = na
    BY <1>5 DEF Tick
  <2>4. {ticking', tickDue'} \subseteq BOOLEAN /\ (tickDue' => ticking')
        /\ (ticking' => na' # "down")
    BY <2>3, Zenon DEF TokensTypeOK
  <2>5. QED
    BY <1>5, <2>1, <2>2, <2>4, Zenon DEF TokensTypeOK, Tick, credVars
<1>6. CASE Environment
  <2>1. accepted' \in 0..MaxGeneration /\ {id', secret'} \subseteq Absent..Torn
    BY <1>0, <1>6 DEF Environment, CredentialsNext, Renew, WriteID, WriteSecret, Absent, Torn
  <2>2. QED
    BY <1>6, <2>1, Zenon DEF TokensTypeOK, Environment, tokenVars, agentVars
<1>7. CASE Crash
  <2>1. Missing \in Tokens \ {Empty}
    BY DEF Tokens, Missing, Empty, Anonymous
  <2>2. mem' \in [Clients -> Tokens \ {Empty}] /\ faults' \in 0..MaxFaults
    BY <1>0, <1>7, <2>1 DEF Crash, Gone, Forgotten, Fault
  <2>3. QED
    BY <1>7, <2>2, Zenon DEF TokensTypeOK, Crash, Gone, credVars
<1>8. CASE UNCHANGED allVars
  BY <1>8, Zenon DEF TokensTypeOK, allVars, credVars, tokenVars, agentVars
<1>9. QED
  BY <1>1, <1>2, <1>3, <1>4, <1>5, <1>6, <1>7, <1>8, Zenon DEF TokensNext, Agent

-----------------------------------------------------------------------------
(***************************************************************************)
(* The strengthening                                                       *)
(***************************************************************************)
(* A client's turn: its own file and memory change together, or the memory *)
(* was near its end; nobody else's change, or all memory is gone.          *)
LEMMA CycleInv ==
  ASSUME TokenInv, NEW c \in Clients, Cycle(c)
  PROVE  (MemoryIsFile /\ MemoryOrEmpty /\ GoodIsFresh /\ NoExpiredToken)'
<1> USE Numbers
<1>0. file \in [Clients -> Tokens] /\ mem \in [Clients -> Tokens \ {Empty}]
  BY Zenon DEF TokenInv, TokensTypeOK
<1>1. ASSUME NEW d \in Clients
      PROVE  /\ mem[d] > 2 => file[d] = mem[d]
             /\ mem[d] >= 2 => file[d] \in {mem[d], Empty}
             /\ d \in good => file[d] \notin -1..1
             /\ file[d] \in Expired..0 => d \in missed
             /\ file[d] \in Tokens /\ mem[d] \in Tokens
  BY <1>0 DEF TokenInv, MemoryIsFile, MemoryOrEmpty, GoodIsFresh, NoExpiredToken
<1> DEFINE Kept(d) == /\ mem'[d] > 2 => file'[d] = mem'[d]
                      /\ mem'[d] >= 2 => file'[d] \in {mem'[d], Empty}
                      /\ d \in good' => file'[d] \notin -1..1
                      /\ file'[d] \in Expired..0 => d \in missed'
<1>2. ASSUME NEW d \in Clients PROVE Kept(d)
  <2>1. CASE Skip(c)
    <3>1. file' = file /\ mem' = mem /\ missed' = missed /\ good' = good \cup {c} /\ mem[c] > 1
      BY <2>1, <1>1 DEF Skip, IsTokenRefreshRequired, Tokens, Missing, Anonymous
    <3>2. file[c] \notin -1..1
      BY <3>1, <1>1 DEF Tokens, Missing, Empty, Anonymous
    <3>3. QED
      BY <3>1, <3>2, <1>1
  <2>2. CASE Provision(c)
    <3>1. PICK token \in Offered(c) : file' = [file EXCEPT ![c] = token]
                                      /\ mem' = [mem EXCEPT ![c] = token]
      BY <2>2 DEF Provision
    <3>2. token \in Tokens /\ token > 2
      BY OfferedTokens
    <3>3. missed' = missed /\ good' = good \cup {c}
      BY <2>2 DEF Provision
    <3>4. CASE d = c
      BY <3>1, <3>2, <3>4, <1>0 DEF Tokens, Missing, Empty, Anonymous, Expired
    <3>5. CASE d # c
      BY <3>1, <3>3, <3>5, <1>0, <1>1
    <3>6. QED
      BY <3>4, <3>5
  <2>3. CASE ProvisionFails(c)
    BY <2>3, <1>1 DEF ProvisionFails
  <2>4. CASE PersistFails(c)
    <3>1. mem' = mem /\ missed' = missed /\ good' = good
          /\ (file' = file \/ file' = [file EXCEPT ![c] = Empty])
      BY <2>4 DEF PersistFails
    <3>2. ~(mem[c] > 2)
      BY <2>4, <1>1 DEF PersistFails, Asks, IsTokenRefreshRequired, Tokens, Missing, Anonymous
    <3>3. CASE file' = file
      BY <3>1, <3>3, <1>1
    <3>4. CASE file' = [file EXCEPT ![c] = Empty]
      <4>1. CASE d = c
        BY <3>1, <3>2, <3>4, <4>1, <1>0 DEF Empty, Expired
      <4>2. CASE d # c
        BY <3>1, <3>4, <4>2, <1>0, <1>1
      <4>3. QED
        BY <4>1, <4>2
    <3>5. QED
      BY <3>1, <3>3, <3>4
  <2>5. CASE Refused(c) \/ KilledWriting(c)
    <3>1. /\ missed' = missed /\ good' = good /\ mem' = [a \in Clients |-> Missing]
          /\ file' = file \/ file' = [file EXCEPT ![c] = Empty]
      BY <2>5 DEF Refused, KilledWriting, Gone, Forgotten
    <3>2. ~(mem'[d] >= 2)
      BY <3>1 DEF Missing
    <3>3. file'[d] = file[d] \/ file'[d] = Empty
      BY <3>1, <1>0
    <3>4. QED
      BY <3>1, <3>2, <3>3, <1>1 DEF Empty, Expired, Missing
  <2>6. QED
    BY <2>1, <2>2, <2>3, <2>4, <2>5 DEF Cycle
<1>3. QED
  BY <1>2 DEF MemoryIsFile, MemoryOrEmpty, GoodIsFresh, NoExpiredToken

(* Every step keeps the strengthening.                                     *)
LEMMA StepTokens == TokenInv /\ [TokensNext]_allVars => TokenInv'
<1> SUFFICES ASSUME TokenInv, [TokensNext]_allVars PROVE TokenInv'
  OBVIOUS
<1> USE Numbers
<1>0. TokensTypeOK'
  BY TypeStep DEF TokenInv
<1>1. file \in [Clients -> Tokens] /\ mem \in [Clients -> Tokens \ {Empty}]
  BY Zenon DEF TokenInv, TokensTypeOK
<1>2. ASSUME NEW d \in Clients
      PROVE  /\ mem[d] > 2 => file[d] = mem[d]
             /\ mem[d] >= 2 => file[d] \in {mem[d], Empty}
             /\ d \in good => file[d] \notin -1..1
             /\ file[d] \in Expired..0 => d \in missed
             /\ file[d] \in Tokens /\ mem[d] \in Tokens
  BY <1>1 DEF TokenInv, MemoryIsFile, MemoryOrEmpty, GoodIsFresh, NoExpiredToken
<1> DEFINE Strong == MemoryIsFile /\ MemoryOrEmpty /\ GoodIsFresh /\ NoExpiredToken
<1>3. CASE Start
  <2>1. ASSUME NEW d \in Clients
        PROVE  mem'[d] = Missing \/ mem'[d] = file[d]
    BY <1>3 DEF Start
  <2>2. file' = file /\ good' = good /\ missed' = missed
    BY <1>3 DEF Start
  <2>3. Strong'
    BY <1>2, <2>1, <2>2 DEF MemoryIsFile, MemoryOrEmpty, GoodIsFresh, NoExpiredToken, Missing
  <2>4. QED
    BY <1>0, <2>3 DEF TokenInv
<1>4. CASE EndCycle \/ NextCycle \/ Environment \/ UNCHANGED allVars
  <2>1. UNCHANGED <<file, mem, good, missed>>
    BY <1>4 DEF EndCycle, NextCycle, Environment, tokenVars, agentVars, allVars
  <2>2. QED
    BY <1>0, <2>1 DEF TokenInv, MemoryIsFile, MemoryOrEmpty, GoodIsFresh, NoExpiredToken
<1>5. CASE \E c \in Clients : Cycle(c)
  BY <1>0, <1>5, CycleInv DEF TokenInv
<1>6. CASE Tick
  <2>1. ASSUME NEW d \in Clients
        PROVE  file'[d] = Older(file[d]) /\ mem'[d] = Older(mem[d])
    BY <1>6 DEF Tick
  <2>2. good' = {} /\ missed' = Clients \ good
    BY <1>6 DEF Tick
  <2>3. ASSUME NEW d \in Clients
        PROVE  /\ mem'[d] > 2 => file'[d] = mem'[d]
               /\ mem'[d] >= 2 => file'[d] \in {mem'[d], Empty}
               /\ file'[d] \in Expired..0 => d \in missed'
    <3>1. mem'[d] > 2 => file'[d] = mem'[d]
      BY <2>1, <1>2, OlderToken
    <3>2. mem'[d] >= 2 => file'[d] \in {mem'[d], Empty}
      BY <2>1, <1>2, OlderToken
    <3>3. file'[d] \in Expired..0 => d \in missed'
      BY <2>1, <2>2, <1>2, OlderToken
    <3>4. QED
      BY <3>1, <3>2, <3>3
  <2>4. Strong'
    BY <2>2, <2>3 DEF MemoryIsFile, MemoryOrEmpty, GoodIsFresh, NoExpiredToken
  <2>5. QED
    BY <1>0, <2>4 DEF TokenInv
<1>7. CASE Crash
  <2>1. file' = file /\ good' = good /\ missed' = missed /\ mem' = [a \in Clients |-> Missing]
    BY <1>7 DEF Crash, Gone, Forgotten
  <2>2. Strong'
    BY <1>2, <2>1 DEF MemoryIsFile, MemoryOrEmpty, GoodIsFresh, NoExpiredToken, Missing
  <2>3. QED
    BY <1>0, <2>2 DEF TokenInv
<1>8. QED
  BY <1>3, <1>4, <1>5, <1>6, <1>7 DEF TokensNext, Agent

-----------------------------------------------------------------------------
(* The invariant holds of every behaviour.                                 *)
THEOREM TokensInv == TokensSpec => []TokenInv
<1>1. TokensInit => TokenInv
  BY InitTokens
<1>2. TokenInv /\ [TokensNext]_allVars => TokenInv'
  BY StepTokens
<1>3. QED
  BY <1>1, <1>2, PTL DEF TokensSpec

(* Every state is well-formed.                                             *)
THEOREM TokensTyped == TokensSpec => []TokensTypeOK
<1>1. TokenInv => TokensTypeOK
  BY DEF TokenInv
<1>2. QED
  BY <1>1, TokensInv, PTL

(* What the goroutine remembers as good for more than REFRESH_INTERVAL is  *)
(* in the client's file, for any faults (createRefreshTokens).             *)
THEOREM RememberedIsWritten == TokensSpec => []MemoryIsFile
<1>1. TokenInv => MemoryIsFile
  BY DEF TokenInv
<1>2. QED
  BY <1>1, TokensInv, PTL

(* A check each five minutes is enough to refresh a token in time          *)
(* (token.go:50-53): one that is at its end had no successful check.       *)
THEOREM ExpiredWasMissed == TokensSpec => []NoExpiredToken
<1>1. TokenInv => NoExpiredToken
  BY DEF TokenInv
<1>2. QED
  BY <1>1, TokensInv, PTL

-----------------------------------------------------------------------------
(***************************************************************************)
(* The two programs on one node                                            *)
(***************************************************************************)
(* What the one writes is what the other reads, and what the orchestrator  *)
(* knows is what the identity provider accepts.                            *)
Shared == accepted = node.generation /\ id = disk["id"] /\ secret = disk["secret"]

(* The Device Discovery Agent and those who change the node, or the Node   *)
(* Agent, time and its faults; the Node Agent's model does without its own *)
(* Environment.                                                            *)
NodeInit == Init /\ TokensInit /\ Shared
NodeNext == \/ Next /\ UNCHANGED tokenVars
            \/ (Agent \/ Tick \/ Crash) /\ UNCHANGED vars
NodeSpec == NodeInit /\ [][NodeNext /\ Shared']_<<vars, allVars>>

(* The secret in its file is never newer than the id in the other one, and *)
(* neither is newer than what the orchestrator knows.                      *)
SecretNotNewer == id \in Generations /\ secret \in Generations => secret <= id
FilesAreKnown  == {id, secret} \subseteq 0..accepted \cup {Torn}

NodeInv == IInv /\ TokenInv /\ Shared /\ FilesAreKnown /\ SecretNotNewer

(* What the Device Discovery Agent does is the environment the Node        *)
(* Agent's model takes any writer for.                                     *)
LEMMA DiscoveryIsEnvironment ==
  ASSUME IInv, Shared, Next, UNCHANGED tokenVars, Shared'
  PROVE  [Environment]_allVars
<1>1. [Cred!CredentialsNext]_Seen
  BY CredentialsStep
<1>2. CASE UNCHANGED Seen
  BY <1>2 DEF Seen, Shared, allVars, credVars
<1>3. CASE Cred!CredentialsNext
  <2>1. CredentialsNext
    BY <1>3 DEF Shared, CredentialsNext, Cred!CredentialsNext, Renew, Cred!Renew, WriteID,
                Cred!WriteID, WriteSecret, Cred!WriteSecret, Torn, Cred!Torn
  <2>2. QED
    BY <2>1 DEF Environment
<1>4. QED
  BY <1>1, <1>2, <1>3

(* A step of the one leaves the other's state alone.                       *)
LEMMA NodeStep ==
  ASSUME IInv, Shared, [NodeNext /\ Shared']_<<vars, allVars>>
  PROVE  [Next]_vars /\ [TokensNext]_allVars /\ Shared'
<1>1. CASE Next /\ UNCHANGED tokenVars /\ Shared'
  BY <1>1, DiscoveryIsEnvironment DEF TokensNext
<1>2. CASE (Agent \/ Tick \/ Crash) /\ UNCHANGED vars /\ Shared'
  BY <1>2 DEF TokensNext
<1>3. CASE UNCHANGED <<vars, allVars>>
  <2>1. UNCHANGED <<node, disk, accepted, id, secret>>
    BY <1>3, Zenon DEF vars, ddaVars, allVars, credVars
  <2>2. QED
    BY <1>3, <2>1 DEF Shared
<1>4. QED
  BY <1>1, <1>2, <1>3 DEF NodeNext

(* Writing an id never puts it behind the secret.                          *)
LEMMA SecretStep ==
  ASSUME TokensTypeOK, FilesAreKnown, SecretNotNewer, [TokensNext]_allVars
  PROVE  (FilesAreKnown /\ SecretNotNewer)'
<1>1. /\ accepted \in 0..MaxGeneration /\ MaxGeneration \in Nat
      /\ id \in 0..accepted \cup {Torn} /\ secret \in 0..accepted \cup {Torn}
  BY Numbers DEF TokensTypeOK, FilesAreKnown
<1>2. CASE CredentialsNext
  <2>1. accepted' \in Nat /\ accepted <= accepted'
        /\ id' \in 0..accepted' \cup {Torn} /\ secret' \in 0..accepted' \cup {Torn}
    BY <1>1, <1>2 DEF CredentialsNext, Renew, WriteID, WriteSecret
  <2>2. SecretNotNewer'
    BY <1>1, <1>2 DEF SecretNotNewer, CredentialsNext, Renew, WriteID, WriteSecret, Generations,
                      Torn
  <2>3. QED
    BY <2>1, <2>2 DEF FilesAreKnown
<1>3. CASE UNCHANGED credVars
  BY <1>3 DEF credVars, FilesAreKnown, SecretNotNewer
<1>4. UNCHANGED credVars \/ CredentialsNext
  <2>1. CASE \E c \in Clients : Cycle(c)
    BY <2>1 DEF Cycle, Skip, Provision, ProvisionFails, PersistFails, Refused, KilledWriting
  <2>2. CASE Start \/ EndCycle \/ NextCycle \/ Tick \/ Crash \/ Environment \/ UNCHANGED allVars
    BY <2>2 DEF Start, EndCycle, NextCycle, Tick, Crash, Environment, allVars
  <2>3. QED
    BY <2>1, <2>2 DEF TokensNext, Agent
<1>5. QED
  BY <1>2, <1>3, <1>4

(* On a node where the Device Discovery Agent writes the credentials and   *)
(* the Node Agent reads them, each at any time: the tokens are kept as     *)
(* they are for the assumed environment, a finished discovery has left its *)
(* full set, and the secret beside an id is never one the orchestrator     *)
(* issued after it (controller.go:113-122, node-agent.go:327-365).         *)
THEOREM TokensBesideDiscovery ==
  NodeSpec => [](MemoryIsFile /\ NoExpiredToken /\ DoneIsComplete /\ SecretNotNewer)
<1>1. NodeInit => NodeInv
  <2>1. NodeInit => IInv /\ TokenInv /\ Shared
    BY InitInv, InitTokens DEF NodeInit
  <2>2. NodeInit => FilesAreKnown /\ SecretNotNewer
    BY Numbers DEF NodeInit, TokensInit, CredentialsInit, FilesAreKnown, SecretNotNewer, Absent,
                   Generations
  <2>3. QED
    BY <2>1, <2>2 DEF NodeInv
<1>2. NodeInv /\ [NodeNext /\ Shared']_<<vars, allVars>> => NodeInv'
  <2> SUFFICES ASSUME NodeInv, [NodeNext /\ Shared']_<<vars, allVars>> PROVE NodeInv'
    OBVIOUS
  <2>1. [Next]_vars /\ [TokensNext]_allVars /\ Shared'
    BY NodeStep DEF NodeInv
  <2>2. IInv' /\ TokenInv'
    BY <2>1, StepInv, StepTokens DEF NodeInv
  <2>3. (FilesAreKnown /\ SecretNotNewer)'
    BY <2>1, SecretStep DEF NodeInv, TokenInv
  <2>4. QED
    BY <2>1, <2>2, <2>3 DEF NodeInv
<1>3. NodeInv => MemoryIsFile /\ NoExpiredToken /\ DoneIsComplete /\ SecretNotNewer
  BY DEF NodeInv, IInv, TokenInv
<1>4. QED
  BY <1>1, <1>2, <1>3, PTL DEF NodeSpec
=============================================================================
