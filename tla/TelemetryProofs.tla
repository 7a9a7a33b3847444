--------------------------- MODULE TelemetryProofs ---------------------------
(***************************************************************************)
(* Telemetry for every set of groups, every set of configurations and      *)
(* every bound: its states are well-formed, and a collector's file has the *)
(* initial inputs exactly when it has no items.                            *)
(***************************************************************************)
EXTENDS Telemetry, TLAPS

(* The strengthening: what an updater is about to write is as coherent as  *)
(* what is in the file.                                                    *)
Coherent(content) == content.isInit <=> content.items = {}
IInv == TypeOK /\ \A g \in Groups : Coherent(job[g]) /\ Coherent(file[g])

-----------------------------------------------------------------------------
(***************************************************************************)
(* The comparison                                                          *)
(***************************************************************************)
(* A group is in a configuration's profile if it has items in it.          *)
LEMMA ProfileHasItems ==
  ASSUME NEW cfg, NEW g
  PROVE  g \in Profile(cfg) <=> Of(g, cfg) # {}
BY DEF Profile, Of

(* CheckIfChanged: a dirty group without items is one that has just lost   *)
(* its last.                                                               *)
LEMMA DirtyEmptyVanished ==
  ASSUME NEW cfg, NEW g, g \in Dirty(cfg)
  PROVE  g \in Vanished(cfg) <=> Of(g, cfg) = {}
<1>1. g \in Vanished(cfg) => Of(g, cfg) = {}
  BY ProfileHasItems DEF Vanished
<1>2. ASSUME Of(g, cfg) = {} PROVE g \in Vanished(cfg)
  <2>1. g \notin Profile(cfg)
    BY <1>2, ProfileHasItems
  <2>2. Profile(NewItems(cfg) \cup LostInputs(cfg)) \subseteq Profile(cfg) \cup Profile(last)
    BY DEF Profile, NewItems, LostInputs
  <2>3. QED
    BY <2>1, <2>2 DEF Dirty, Vanished
<1>3. QED
  BY <1>1, <1>2

(* What is rendered has the type of a file's contents.                     *)
LEMMA ContentType ==
  ASSUME NEW g, NEW cfg \in Offers \cup {{}}, NEW isInit \in BOOLEAN
  PROVE  Content(Of(g, cfg), isInit) \in Contents
<1>1. Of(g, cfg) \in (UNION {SUBSET offer : offer \in Offers}) \cup {{}}
  <2>1. Of(g, cfg) \in SUBSET cfg
    BY DEF Of
  <2>2. CASE cfg = {}
    BY <2>1, <2>2
  <2>3. CASE cfg \in Offers
    <3>1. SUBSET cfg \in {SUBSET offer : offer \in Offers}
      BY <2>3
    <3>2. QED
      BY <2>1, <3>1, Zenon
  <2>4. QED
    BY <2>2, <2>3
<1>2. \A S : \A x \in S : \A p \in BOOLEAN :
         [items |-> x, isInit |-> p] \in [items : S, isInit : BOOLEAN]
  OBVIOUS
<1>3. QED
  BY <1>1, <1>2, Zenon DEF Content, Contents

LEMMA ContentFields ==
  ASSUME NEW items, NEW isInit
  PROVE  Content(items, isInit).items = items /\ Content(items, isInit).isInit = isInit
BY DEF Content

(* So is what Poll hands to an updater.                                    *)
LEMMA JobCoherent ==
  ASSUME NEW cfg, NEW g, g \in Dirty(cfg)
  PROVE  Coherent(Content(Of(g, cfg), g \in Vanished(cfg)))
<1>1. g \in Vanished(cfg) <=> Of(g, cfg) = {}
  BY DirtyEmptyVanished
<1>2. CASE g \in Vanished(cfg)
  BY <1>1, <1>2 DEF Coherent, Content
<1>3. CASE g \notin Vanished(cfg)
  BY <1>1, <1>3 DEF Coherent, Content
<1>4. QED
  BY <1>2, <1>3

-----------------------------------------------------------------------------
(* The first states.                                                       *)
LEMMA InitInv == Init => IInv
<1> SUFFICES ASSUME Init PROVE IInv
  OBVIOUS
<1>1. ASSUME NEW g \in Groups
      PROVE  Rendered(g, {}) \in Contents /\ Coherent(Rendered(g, {}))
  <2>1. Of(g, {}) = {}
    BY DEF Of
  <2>2. (Of(g, {}) = {}) \in BOOLEAN
    OBVIOUS
  <2>3. Rendered(g, {}) \in Contents
    BY <2>2, ContentType, Zenon DEF Rendered
  <2>4. Coherent(Rendered(g, {}))
    BY <2>1 DEF Coherent, Rendered, Content
  <2>5. QED
    BY <2>3, <2>4
<1>2. job = [g \in Groups |-> Rendered(g, {})] /\ file = job /\ running = job
  BY DEF Init
<1>3. \A g \in Groups : Coherent(job[g]) /\ Coherent(file[g])
  BY <1>1, <1>2, Zenon
<1>4. {job, file, running} \subseteq [Groups -> Contents]
  BY <1>1, <1>2
<1>5. age \in 0..Answered + 1 /\ faults \in 0..MaxFaults /\ changes \in 0..MaxChanges
  BY OffersAssumption DEF Init, Answered
<1>6. stage \in [Groups -> {"idle", "write", "restart"}]
  BY DEF Init
<1>7. TypeOK
  BY <1>4, <1>5, <1>6, Zenon DEF Init, TypeOK
<1>8. QED
  BY <1>3, <1>7 DEF IInv

(* The main loop's turn.                                                   *)
LEMMA PollInv == ASSUME IInv, Poll PROVE IInv'
<1>0. /\ job \in [Groups -> Contents] /\ stage \in [Groups -> {"idle", "write", "restart"}]
      /\ config \in Offers /\ faults \in 0..MaxFaults /\ excused \subseteq Groups
      /\ MaxFaults \in Nat
  BY OffersAssumption DEF IInv, TypeOK
<1>1. UNCHANGED <<tmVars, up, file, running, reported>>
  BY DEF Poll
<1>2. CASE UNCHANGED <<last, stage, job, excused, age>> /\ Fault
  <2>1. faults' \in 0..MaxFaults
    BY <1>0, <1>2 DEF Fault
  <2>2. TypeOK'
    BY <1>1, <1>2, <2>1, Zenon DEF IInv, TypeOK, tmVars
  <2>3. QED
    BY <1>1, <1>2, <2>2, Zenon DEF IInv
<1>3. CASE /\ age' = 0 /\ last' = config /\ excused' = excused \cup Shared(config)
           /\ stage' = [g \in Groups |-> IF g \in Dirty(config) THEN "write" ELSE "idle"]
           /\ job' = [g \in Groups |-> IF g \in Dirty(config)
                                       THEN Content(Of(g, config), g \in Vanished(config))
                                       ELSE job[g]]
           /\ UNCHANGED faults
  <2>1. ASSUME NEW g \in Groups
        PROVE  job'[g] \in Contents /\ Coherent(job'[g])
    <3>1. CASE g \in Dirty(config)
      <4>1. job'[g] = Content(Of(g, config), g \in Vanished(config))
        BY <1>3, <3>1, Zenon
      <4>2. (g \in Vanished(config)) \in BOOLEAN
        OBVIOUS
      <4>3. job'[g] \in Contents
        <5>1. config \in Offers \cup {{}}
          BY <1>0
        <5>2. \A p \in BOOLEAN : Content(Of(g, config), p) \in Contents
          BY <5>1, ContentType, Zenon
        <5>3. QED
          BY <4>1, <4>2, <5>2, Zenon
      <4>4. Coherent(job'[g])
        BY <3>1, <4>1, JobCoherent, Zenon
      <4>5. QED
        BY <4>3, <4>4
    <3>2. CASE g \notin Dirty(config)
      <4>1. job'[g] = job[g]
        BY <1>3, <3>2, Zenon
      <4>2. QED
        BY <1>0, <4>1, Zenon DEF IInv
    <3>3. QED
      BY <3>1, <3>2
  <2>2. job' \in [Groups -> Contents]
    BY <1>3, <2>1, Zenon
  <2>3. stage' \in [Groups -> {"idle", "write", "restart"}] /\ age' \in 0..Answered + 1
    BY <1>3 DEF Answered
  <2>4. excused' \subseteq Groups
    BY <1>0, <1>3 DEF Shared
  <2>5. TypeOK'
    BY <1>0, <1>1, <1>3, <2>2, <2>3, <2>4, Zenon DEF IInv, TypeOK, tmVars
  <2>6. QED
    BY <1>1, <2>1, <2>5, Zenon DEF IInv
<1>4. QED
  BY <1>2, <1>3, Zenon DEF Poll

(* An updater's step: the file takes what was to be written.               *)
LEMMA UpdaterInv ==
  ASSUME IInv, NEW g \in Groups, Write(g) \/ RestartCollector(g)
  PROVE  IInv'
<1>0. /\ job \in [Groups -> Contents] /\ file \in [Groups -> Contents]
      /\ running \in [Groups -> Contents]
      /\ stage \in [Groups -> {"idle", "write", "restart"}]
      /\ faults \in 0..MaxFaults /\ excused \subseteq Groups /\ MaxFaults \in Nat
  BY OffersAssumption DEF IInv, TypeOK
<1>1. UNCHANGED <<tmVars, up, last, job, age, reported>>
  BY DEF Write, RestartCollector
<1>2. /\ stage' \in [Groups -> {"idle", "write", "restart"}] /\ faults' \in 0..MaxFaults
      /\ excused' \subseteq Groups
  BY <1>0 DEF Write, RestartCollector, UpdaterFails, Fault
<1>3. file' = file \/ file' = [file EXCEPT ![g] = job[g]]
  BY DEF Write, RestartCollector
<1>4. running' = running \/ running' = [running EXCEPT ![g] = file[g]]
  BY DEF Write, RestartCollector
<1>5. file' \in [Groups -> Contents] /\ running' \in [Groups -> Contents]
  BY <1>0, <1>3, <1>4
<1>6. ASSUME NEW h \in Groups PROVE file'[h] = file[h] \/ file'[h] = job[h]
  BY <1>0, <1>3
<1>7. \A h \in Groups : Coherent(job'[h]) /\ Coherent(file'[h])
  BY <1>1, <1>6, Zenon DEF IInv
<1>8. TypeOK'
  BY <1>1, <1>2, <1>5, Zenon DEF IInv, TypeOK, tmVars
<1>9. QED
  BY <1>7, <1>8 DEF IInv

(* Every other step leaves jobs and files alone.                           *)
LEMMA StepInv == IInv /\ [Next]_vars => IInv'
<1> SUFFICES ASSUME IInv, [Next]_vars PROVE IInv'
  OBVIOUS
<1>0. /\ faults \in 0..MaxFaults /\ MaxFaults \in Nat /\ age \in 0..Answered + 1
      /\ changes \in 0..MaxChanges /\ MaxChanges \in Nat /\ excused \subseteq Groups
  BY OffersAssumption DEF IInv, TypeOK
<1>1. CASE Poll
  BY <1>1, PollInv
<1>2. CASE \E g \in Groups : Write(g) \/ RestartCollector(g)
  BY <1>2, UpdaterInv
<1>3. CASE SendStatus
  <2>1. faults' \in 0..MaxFaults /\ reported' \in {"none", "ready", "notReady"}
    BY <1>0, <1>3 DEF SendStatus, Fault, IInv, TypeOK
  <2>2. QED
    BY <1>3, <2>1, Zenon DEF IInv, TypeOK, SendStatus, tmVars, updaterVars
<1>4. CASE Stop
  <2>1. /\ faults' \in 0..MaxFaults /\ age' \in 0..Answered + 1 /\ excused' \subseteq Groups
        /\ stage' \in [Groups -> {"idle", "write", "restart"}]
    BY <1>0, <1>4 DEF Stop, Fault, Answered
  <2>2. QED
    BY <1>4, <2>1, Zenon DEF IInv, TypeOK, Stop, tmVars
<1>5. CASE Start
  BY <1>5, Zenon DEF IInv, TypeOK, Start, tmVars, updaterVars
<1>6. CASE Tick
  <2>1. faults' \in 0..MaxFaults /\ age' \in 0..Answered + 1
    BY <1>0, <1>6 DEF Tick, Fault, Answered
  <2>2. QED
    BY <1>6, <2>1, Zenon DEF IInv, TypeOK, Tick, tmVars, updaterVars
<1>7. CASE Change
  <2>1. changes' \in 0..MaxChanges /\ config' \in Offers
    BY <1>0, <1>7 DEF Change, IInv, TypeOK
  <2>2. reachable' \in BOOLEAN
    BY <1>7, Zenon DEF Change, IInv, TypeOK
  <2>3. QED
    BY <1>7, <2>1, <2>2, Zenon DEF IInv, TypeOK, Change, updaterVars
<1>8. CASE UNCHANGED vars
  BY <1>8, Zenon DEF IInv, TypeOK, vars, tmVars, updaterVars
<1>9. QED
  BY <1>1, <1>2, <1>3, <1>4, <1>5, <1>6, <1>7, <1>8 DEF Next

-----------------------------------------------------------------------------
(* Every state is well-formed, and so is what is about to be written.      *)
THEOREM TelemetryInv == Spec => []IInv
<1>1. Init => IInv
  BY InitInv
<1>2. IInv /\ [Next]_vars => IInv'
  BY StepInv
<1>3. QED
  BY <1>1, <1>2, PTL DEF Spec

(* The flag from the comparison of profiles and the items of the answer    *)
(* never disagree (clientapi.go:183-205), for any configurations.          *)
THEOREM EmptyFilesAreInit == Spec => []EmptyIsInit
<1>1. IInv => EmptyIsInit
  BY Zenon DEF IInv, EmptyIsInit, Coherent
<1>2. QED
  BY <1>1, TelemetryInv, PTL
=============================================================================
