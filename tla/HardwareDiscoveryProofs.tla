---------------------- MODULE HardwareDiscoveryProofs ----------------------
(***************************************************************************)
(* What holds of the Hardware Discovery Agent for any hardware, intervals, *)
(* number of retries, of faults and of changes.                            *)
(***************************************************************************)
EXTENDS HardwareDiscovery, TLAPS

(* TypeOK in three parts: what is TRUE or FALSE, sets and names, numbers.  *)
(* The lines that wait are no more than the changes there have been.       *)
Flags == /\ reachable \in BOOLEAN /\ up \in BOOLEAN /\ stopping \in BOOLEAN
         /\ excused \in BOOLEAN /\ smooth \in BOOLEAN
Names == /\ plugged \subseteq Things /\ host \subseteq Things
         /\ listed \subseteq Things /\ found \subseteq Things /\ report \subseteq Things
         /\ main \in {"sending", "waiting"} /\ udev \in {"starting", "on", "off"}
         /\ worker \in {"idle", "list", "query", "send", "ended"}
         /\ reported \in {"none", "ready", "notReady"}
Numbers == /\ events \in Nat /\ events <= changes /\ changes \in 0..MaxChanges
           /\ section \in 1..7 /\ tries \in 0..MaxRetries /\ attempts \in 0..MaxRetries
           /\ timer \in 0..UpdateInterval /\ elapsed \in 0..MaxDuration
           /\ age \in 0..Counts + 1 /\ faults \in 0..MaxFaults
Typed == Flags /\ Names /\ Numbers

LEMMA OrderHasSeven ==
    /\ Len(Order) = 7
    /\ Order[1] = "storage" /\ Order[2] = "system" /\ Order[3] = "cpu" /\ Order[4] = "gpu"
    /\ Order[5] = "memory" /\ Order[6] = "network" /\ Order[7] = "usb"
BY DEF Order

LEMMA CountsIsNat == Counts \in Nat /\ Counts >= 2 * UpdateInterval
BY HardwareAssumption DEF Counts, HardwareAssumption

LEMMA InitTyped == Init => Typed
<1>1. Init => Flags
  BY Zenon DEF Init, Flags
<1>2. Init => Names
  BY DEF Init, Names
<1>3. Init => Numbers
  BY HardwareAssumption, CountsIsNat DEF Init, Numbers, HardwareAssumption
<1> QED
  BY <1>1, <1>2, <1>3 DEF Typed

(* What the actions that gather the hardware change.                       *)
Gathering == \/ GetDiskList \/ GetSystem \/ GetCPUList \/ GetMemory
             \/ ListDevices \/ QueryDevice \/ QueryEnds
Lists == /\ listed \subseteq Things /\ found \subseteq Things /\ report \subseteq Things
         /\ worker \in {"list", "query", "send"} /\ section \in 1..7

LEMMA NextSectionLists ==
    ASSUME Typed, NEW told \in SUBSET Things, NextSection(told)
    PROVE  Lists'
BY OrderHasSeven DEF Typed, Names, Numbers, Lists, NextSection

LEMMA GatheringChanges ==
    ASSUME Typed, Gathering
    PROVE  NoGather /\ (Works \/ Fails) /\ worker \in {"list", "query"} /\ Lists'
<1>1. Present \in SUBSET Things /\ found \in SUBSET Things /\ {} \in SUBSET Things
  BY DEF Typed, Names, Present
<1>2. \A told \in SUBSET Things : NextSection(told) => Lists'
  BY NextSectionLists
<1>3. \A told \in SUBSET Present : NextSection(told) => Lists'
  BY <1>1, <1>2
<1>4. CASE GetDiskList \/ GetMemory
  BY <1>1, <1>2, <1>4 DEF GetDiskList, GetMemory, At
<1>5. CASE GetSystem \/ GetCPUList
  <2>1. NextSection(Present) => Lists'
    BY <1>1, <1>2
  <2> QED
    BY <1>3, <1>5, <2>1 DEF GetSystem, GetCPUList, At
<1>6. CASE ListDevices
  <2>1. CASE NextSection({}) /\ Fails
    BY <1>1, <1>2, <1>6, <2>1 DEF ListDevices, At
  <2>2. CASE listed' = Present /\ worker' = "query" /\ Works /\ UNCHANGED <<section, found, report>>
    BY <1>1, <1>6, <2>2 DEF ListDevices, At, Lists, Typed, Names, Numbers
  <2> QED
    BY <1>6, <2>1, <2>2 DEF ListDevices
<1>7. CASE QueryDevice
  <2>1. PICK t \in listed : QueryGpu(t) \/ QueryInterface(t) \/ QueryUsb(t)
    BY <1>7 DEF QueryDevice
  <2>2. Told(t) \/ Skipped(t) => Lists'
    BY <1>7, <2>1 DEF QueryDevice, Told, Skipped, Lists, Typed, Names, Numbers
  <2>3. NextSection({}) => Lists'
    BY <1>1, <1>2
  <2>4. (Works \/ Fails) /\ (Told(t) \/ Skipped(t) \/ NextSection({}))
    BY <2>1 DEF QueryGpu, QueryInterface, QueryUsb
  <2> QED
    BY <1>7, <2>2, <2>3, <2>4 DEF QueryDevice
<1>8. CASE QueryEnds
  <2>1. NextSection(found) => Lists'
    BY <1>1, <1>2
  <2> QED
    BY <1>8, <2>1 DEF QueryEnds
<1> QED
  BY <1>4, <1>5, <1>6, <1>7, <1>8 DEF Gathering

-----------------------------------------------------------------------------
(***************************************************************************)
(* Every state is well-formed                                              *)
(***************************************************************************)
LEMMA TakingTyped ==
    ASSUME Typed, TakeFirst \/ TakeEvent \/ TakeTick
    PROVE  Typed'
<1>1. Flags'
  BY Zenon DEF Typed, Flags, TakeFirst, TakeEvent, TakeTick, BeginUpdate, Gather, nodeVars,
            mainVars
<1>2. Names'
  BY DEF Typed, Names, TakeFirst, TakeEvent, TakeTick, BeginUpdate, Gather, nodeVars, udevVars,
         mainVars
<1>3. Numbers'
  BY HardwareAssumption DEF Typed, Numbers, TakeFirst, TakeEvent, TakeTick, BeginUpdate, Gather,
         nodeVars, udevVars, HardwareAssumption
<1> QED
  BY <1>1, <1>2, <1>3 DEF Typed

LEMMA GatheringTyped ==
    ASSUME Typed, Gathering
    PROVE  Typed'
<1>1. NoGather /\ (Works \/ Fails) /\ Lists'
  BY GatheringChanges
<1>2. Flags'
  BY <1>1, Zenon DEF Typed, Flags, NoGather, Works, Fails, nodeVars, mainVars, timeVars
<1>3. Names'
  BY <1>1 DEF Typed, Names, Lists, NoGather, nodeVars, mainVars, udevVars
<1>4. faults' \in 0..MaxFaults
  BY <1>1, HardwareAssumption DEF Typed, Numbers, Works, Fails, Fault, HardwareAssumption
<1>5. Numbers'
  BY <1>1, <1>4 DEF Typed, Numbers, Lists, NoGather, nodeVars, udevVars, retryVars, timeVars
<1> QED
  BY <1>2, <1>3, <1>5 DEF Typed

(* The worker's return to its select, and the end of the process.          *)
LEMMA RestTyped ==
    ASSUME Typed, Rest
    PROVE  /\ listed' \subseteq Things /\ found' \subseteq Things /\ report' \subseteq Things
           /\ worker' = "idle" /\ section' \in 1..7 /\ tries' \in 0..MaxRetries
           /\ attempts' \in 0..MaxRetries /\ timer' \in 0..UpdateInterval
           /\ elapsed' \in 0..MaxDuration
BY HardwareAssumption DEF Rest, HardwareAssumption

LEMMA TryFailsTyped ==
    ASSUME Typed, worker = "send", TryFails
    PROVE  /\ listed' \subseteq Things /\ found' \subseteq Things /\ report' \subseteq Things
           /\ worker' \in {"idle", "list", "send"} /\ section' \in 1..7
           /\ tries' \in 0..MaxRetries /\ attempts' \in 0..MaxRetries
           /\ timer' \in 0..UpdateInterval /\ elapsed' \in 0..MaxDuration /\ age' = age
           /\ smooth' = smooth \/ smooth' = FALSE
           /\ excused' = excused \/ excused' = FALSE \/ excused' = TRUE
<1>1. CASE tries < MaxRetries /\ tries' = tries + 1
           /\ UNCHANGED <<worker, gatherVars, attempts, timeVars, excused>>
  BY <1>1, HardwareAssumption DEF Typed, Names, Numbers, gatherVars, timeVars, HardwareAssumption
<1>2. CASE attempts < MaxRetries /\ attempts' = attempts + 1 /\ Gather /\ UNCHANGED timeVars
  BY <1>2, HardwareAssumption DEF Typed, Names, Numbers, Gather, timeVars, HardwareAssumption
<1>3. CASE Rest /\ smooth' = FALSE /\ excused' = TRUE /\ UNCHANGED age
  BY <1>3, RestTyped
<1> QED
  BY <1>1, <1>2, <1>3 DEF TryFails

LEMMA SendTyped ==
    ASSUME Typed, Send
    PROVE  Typed'
<1>1. CASE reachable /\ host' = report /\ Succeeds /\ UNCHANGED faults
  <2>1. Flags'
    BY <1>1, Zenon DEF Typed, Flags, Send, Succeeds, nodeVars, mainVars
  <2>2. Names'
    BY <1>1, RestTyped DEF Typed, Names, Send, Succeeds, nodeVars, mainVars, udevVars
  <2>3. Numbers'
    BY <1>1, RestTyped, CountsIsNat, HardwareAssumption
       DEF Typed, Numbers, Send, Succeeds, nodeVars, udevVars, HardwareAssumption
  <2> QED
    BY <2>1, <2>2, <2>3 DEF Typed
<1>2. CASE TryFails /\ host' \in {host, report} /\ faults' \in 0..MaxFaults
  <2>1. worker = "send"
    BY DEF Send
  <2>2. Flags'
    <3>1. smooth' \in BOOLEAN /\ excused' \in BOOLEAN
      <4>1. smooth' = smooth \/ smooth' = FALSE
        BY <1>2, <2>1, TryFailsTyped
      <4>2. excused' = excused \/ excused' = FALSE \/ excused' = TRUE
        BY <1>2, <2>1, TryFailsTyped
      <4> QED
        BY <4>1, <4>2, Zenon DEF Typed, Flags
    <3> QED
      BY <3>1, Zenon DEF Typed, Flags, Send, nodeVars, mainVars
  <2>3. Names'
    BY <1>2, <2>1, TryFailsTyped DEF Typed, Names, Send, nodeVars, mainVars, udevVars
  <2>4. Numbers'
    BY <1>2, <2>1, TryFailsTyped DEF Typed, Numbers, Send, nodeVars, udevVars
  <2> QED
    BY <2>2, <2>3, <2>4 DEF Typed
<1>3. Fault => faults' \in 0..MaxFaults
  BY HardwareAssumption DEF Fault, Typed, Numbers, HardwareAssumption
<1>4. UNCHANGED faults => faults' \in 0..MaxFaults
  BY DEF Typed, Numbers
<1> QED
  BY <1>1, <1>2, <1>3, <1>4 DEF Send

LEMMA DownTyped ==
    ASSUME Typed, Down, UNCHANGED <<nodeVars, host, reported>>, faults' \in 0..MaxFaults
    PROVE  Typed'
<1>1. Flags'
  BY Zenon DEF Typed, Flags, Down, nodeVars
<1>2. Names'
  BY RestTyped DEF Typed, Names, Down, nodeVars
<1>3. Numbers'
  BY RestTyped, CountsIsNat, HardwareAssumption
     DEF Typed, Numbers, Down, nodeVars, HardwareAssumption
<1> QED
  BY <1>1, <1>2, <1>3 DEF Typed

LEMMA EndingTyped ==
    ASSUME Typed, SendCancelled \/ UdevKilled \/ WorkerEnds \/ MainReturns \/ SystemdKills \/ Crash
    PROVE  Typed'
<1>1. CASE SendCancelled
  <2>1. Flags'
    BY <1>1, Zenon DEF Typed, Flags, SendCancelled, nodeVars, mainVars
  <2>2. Names'
    BY <1>1, RestTyped DEF Typed, Names, SendCancelled, nodeVars, mainVars, udevVars
  <2>3. Numbers'
    BY <1>1, RestTyped DEF Typed, Numbers, SendCancelled, nodeVars, udevVars
  <2> QED
    BY <2>1, <2>2, <2>3 DEF Typed
<1>2. CASE UdevKilled
  <2>1. Flags'
    BY <1>2, Zenon DEF Typed, Flags, UdevKilled, nodeVars, mainVars, timeVars
  <2>2. Names'
    BY <1>2 DEF Typed, Names, UdevKilled, nodeVars, mainVars, gatherVars
  <2>3. Numbers'
    BY <1>2 DEF Typed, Numbers, UdevKilled, nodeVars, gatherVars, retryVars, timeVars
  <2> QED
    BY <2>1, <2>2, <2>3 DEF Typed
<1>3. CASE WorkerEnds
  <2>1. Flags'
    BY <1>3, Zenon DEF Typed, Flags, WorkerEnds, nodeVars, mainVars, timeVars
  <2>2. Names'
    BY <1>3 DEF Typed, Names, WorkerEnds, nodeVars, mainVars, udevVars, gatherVars
  <2>3. Numbers'
    BY <1>3 DEF Typed, Numbers, WorkerEnds, nodeVars, udevVars, gatherVars, retryVars, timeVars
  <2> QED
    BY <2>1, <2>2, <2>3 DEF Typed
<1>4. CASE MainReturns \/ SystemdKills \/ Crash
  <2>1. faults' \in 0..MaxFaults
    BY <1>4, HardwareAssumption
       DEF MainReturns, SystemdKills, Crash, Fault, Typed, Numbers, HardwareAssumption
  <2> QED
    BY <1>4, <2>1, DownTyped DEF MainReturns, SystemdKills, Crash
<1> QED
  BY <1>1, <1>2, <1>3, <1>4

LEMMA UdevTyped ==
    ASSUME Typed, UdevStarts \/ UdevEnds
    PROVE  Typed'
<1>1. CASE UdevStarts
  <2>1. Flags'
    BY <1>1, Zenon DEF Typed, Flags, UdevStarts, nodeVars, mainVars, timeVars
  <2>2. Names'
    BY <1>1 DEF Typed, Names, UdevStarts, nodeVars, mainVars, gatherVars
  <2>3. Numbers'
    BY <1>1 DEF Typed, Numbers, UdevStarts, nodeVars, gatherVars, retryVars, timeVars
  <2> QED
    BY <2>1, <2>2, <2>3 DEF Typed
<1>2. CASE UdevEnds
  <2>1. faults' \in 0..MaxFaults
    BY <1>2, HardwareAssumption DEF UdevEnds, Fault, Typed, Numbers, HardwareAssumption
  <2>2. CASE Down
    BY <1>2, <2>1, <2>2, DownTyped DEF UdevEnds
  <2>3. CASE udev' = "off" /\ excused' = TRUE /\ events' \in 0..events
             /\ UNCHANGED <<mainVars, worker, gatherVars, retryVars, timeVars>>
    <3>1. Flags'
      BY <1>2, <2>3, Zenon DEF Typed, Flags, UdevEnds, nodeVars, mainVars, timeVars
    <3>2. Names'
      BY <1>2, <2>3 DEF Typed, Names, UdevEnds, nodeVars, mainVars, gatherVars
    <3>3. Numbers'
      BY <1>2, <2>1, <2>3 DEF Typed, Numbers, UdevEnds, nodeVars, gatherVars, retryVars, timeVars
    <3> QED
      BY <3>1, <3>2, <3>3 DEF Typed
  <2> QED
    BY <1>2, <2>2, <2>3 DEF UdevEnds
<1> QED
  BY <1>1, <1>2

LEMMA OthersTyped ==
    ASSUME Typed, SendStatus \/ Signal \/ Start \/ Plug \/ Reach
    PROVE  Typed'
<1>1. faults' \in 0..MaxFaults
  BY HardwareAssumption
     DEF SendStatus, Signal, Start, Plug, Reach, Fault, Typed, Numbers, HardwareAssumption
<1>2. Flags'
  BY Zenon DEF Typed, Flags, SendStatus, Signal, Start, Plug, Reach, nodeVars, mainVars, timeVars
<1>3. CASE SendStatus
  BY <1>1, <1>2, <1>3 DEF Typed, Names, Numbers, SendStatus, nodeVars, mainVars, udevVars,
                          gatherVars, retryVars, timeVars
<1>4. CASE Signal
  BY <1>1, <1>2, <1>4 DEF Typed, Names, Numbers, Signal, nodeVars, udevVars, gatherVars, retryVars,
                          timeVars
<1>5. CASE Start
  BY <1>1, <1>2, <1>5 DEF Typed, Names, Numbers, Start, nodeVars, gatherVars, retryVars, timeVars
<1>6. CASE Plug
  <2>1. events' = events \/ events' = events + 1
    BY <1>6 DEF Plug
  <2>2. plugged' \subseteq Things
    BY <1>6 DEF Plug, Typed, Names
  <2>3. changes' = changes + 1 /\ changes' \in 0..MaxChanges
    BY <1>6, HardwareAssumption DEF Plug, Typed, Numbers, HardwareAssumption
  <2>4. Names'
    BY <1>6, <2>2 DEF Plug, Typed, Names, mainVars, gatherVars
  <2>5. Numbers'
    BY <1>1, <1>6, <2>1, <2>3 DEF Plug, Typed, Numbers, gatherVars, retryVars, timeVars
  <2> QED
    BY <1>2, <2>4, <2>5 DEF Typed
<1>7. CASE Reach
  <2>1. changes' = changes + 1 /\ changes' \in 0..MaxChanges
    BY <1>7, HardwareAssumption DEF Reach, Typed, Numbers, HardwareAssumption
  <2>2. Names'
    BY <1>7 DEF Reach, Typed, Names, mainVars, udevVars, gatherVars
  <2>3. Numbers'
    BY <1>1, <1>7, <2>1 DEF Reach, Typed, Numbers, udevVars, gatherVars, retryVars, timeVars
  <2> QED
    BY <1>2, <2>2, <2>3 DEF Typed
<1> QED
  BY <1>3, <1>4, <1>5, <1>6, <1>7

LEMMA TickTyped ==
    ASSUME Typed, Tick
    PROVE  Typed'
<1>1. faults' \in 0..MaxFaults
  BY HardwareAssumption DEF Tick, Fault, Typed, Numbers, HardwareAssumption
<1>2. smooth' = smooth \/ smooth' = FALSE
  BY Zenon DEF Tick
<1>3. Flags'
  BY <1>2, Zenon DEF Typed, Flags, Tick, nodeVars, mainVars
<1>4. Names'
  BY DEF Typed, Names, Tick, nodeVars, mainVars, udevVars, gatherVars
<1>5. Numbers'
  BY <1>1, CountsIsNat, HardwareAssumption
     DEF Typed, Numbers, Tick, Later, nodeVars, udevVars, gatherVars, retryVars, HardwareAssumption
<1> QED
  BY <1>3, <1>4, <1>5 DEF Typed

LEMMA NextTyped ==
    ASSUME Typed, [Next]_vars
    PROVE  Typed'
<1>1. CASE UNCHANGED vars
  BY <1>1, Zenon DEF vars, nodeVars, mainVars, udevVars, gatherVars, retryVars, timeVars,
                     Typed, Flags, Names, Numbers
<1>2. CASE Next
  BY <1>2, TakingTyped, GatheringTyped, SendTyped, EndingTyped, UdevTyped, OthersTyped, TickTyped
     DEF Next, Worker, Ending, Gathering
<1> QED
  BY <1>1, <1>2

-----------------------------------------------------------------------------
(***************************************************************************)
(* As long as all goes well and in time, the last success is no older than *)
(* the ticker, and the update under way.                                   *)
(***************************************************************************)
Timely == smooth => age <= timer + (IF worker = "idle" THEN 0 ELSE elapsed)

LEMMA RoughIsTimely ==
    ASSUME smooth' = FALSE
    PROVE  Timely'
BY Zenon DEF Timely

LEMMA FrozenIsTimely ==
    ASSUME Typed, Timely, smooth' = smooth, age' = age, timer' = timer, elapsed' = elapsed,
           worker' = worker \/ worker' # "idle"
    PROVE  Timely'
<1>1. CASE smooth
  BY <1>1 DEF Timely, Typed, Numbers
<1>2. CASE ~smooth
  BY <1>2, Zenon DEF Timely
<1> QED
  BY <1>1, <1>2

LEMMA TickTimely ==
    ASSUME Typed, Timely, Tick
    PROVE  Timely'
<1>1. smooth' = FALSE \/ (InTime /\ smooth' = smooth)
  BY Zenon DEF Tick
<1>2. CASE InTime /\ smooth' = smooth /\ smooth
  <2>1. age' <= age + 1 /\ worker' = worker
    BY DEF Tick, Later, Typed, Numbers
  <2>2. age <= timer + (IF worker = "idle" THEN 0 ELSE elapsed)
    BY <1>2 DEF Timely
  <2>3. CASE worker = "idle"
    <3>1. timer' = timer + 1
      BY <1>2, <2>3 DEF Tick, InTime, Later
    <3> QED
      BY <2>1, <2>2, <2>3, <3>1, CountsIsNat DEF Timely, Typed, Numbers, Tick, Later
  <2>4. CASE worker # "idle"
    <3>1. timer' = timer /\ elapsed' = elapsed + 1
      BY <1>2, <2>4 DEF Tick, InTime, Later
    <3> QED
      BY <2>1, <2>2, <2>4, <3>1, CountsIsNat DEF Timely, Typed, Numbers, Tick, Later
  <2> QED
    BY <2>3, <2>4
<1>3. CASE smooth' = smooth /\ ~smooth
  BY <1>3, Zenon DEF Timely
<1> QED
  BY <1>1, <1>2, <1>3, RoughIsTimely

LEMMA SendTimely ==
    ASSUME Typed, Timely, Send
    PROVE  Timely'
<1>1. CASE Succeeds
  BY <1>1 DEF Succeeds, Rest, Timely
<1>2. CASE TryFails
  <2>1. worker = "send"
    BY DEF Send
  <2>2. CASE UNCHANGED timeVars /\ worker' # "idle"
    BY <2>2, FrozenIsTimely DEF timeVars
  <2>3. CASE smooth' = FALSE
    BY <2>3, RoughIsTimely
  <2>4. \/ UNCHANGED <<worker, timeVars>>
        \/ Gather /\ UNCHANGED timeVars
        \/ smooth' = FALSE
    BY <1>2, Zenon DEF TryFails
  <2>5. Gather => worker' # "idle"
    BY DEF Gather
  <2> QED
    BY <2>1, <2>2, <2>3, <2>4, <2>5
<1> QED
  BY <1>1, <1>2 DEF Send

LEMMA TakingTimely ==
    ASSUME Typed, Timely, TakeFirst \/ TakeEvent \/ TakeTick
    PROVE  Timely'
<1>1. worker = "idle" /\ elapsed' = 0 /\ worker' = "list"
  BY DEF TakeFirst, TakeEvent, TakeTick, BeginUpdate, Gather
<1>2. smooth' = smooth /\ timer' = timer /\ age' = age
  BY Zenon DEF TakeFirst, TakeEvent, TakeTick
<1>3. CASE smooth
  BY <1>1, <1>2, <1>3 DEF Timely, Typed, Numbers
<1>4. CASE ~smooth
  BY <1>2, <1>4, Zenon DEF Timely
<1> QED
  BY <1>3, <1>4

LEMMA NextTimely ==
    ASSUME Typed, Timely, [Next]_vars
    PROVE  Timely'
<1>1. CASE Gathering
  <2>1. NoGather /\ Lists'
    BY <1>1, GatheringChanges
  <2> QED
    BY <2>1, FrozenIsTimely DEF NoGather, timeVars, Lists
<1>2. CASE \/ UdevStarts \/ SendStatus \/ Signal \/ Start \/ Plug \/ Reach \/ UdevKilled
           \/ UNCHANGED vars
  <2>1. UNCHANGED <<worker, timeVars>>
    BY <1>2, Zenon DEF UdevStarts, SendStatus, Signal, Start, Plug, Reach, UdevKilled, vars
  <2> QED
    BY <2>1, FrozenIsTimely DEF timeVars
<1>3. CASE WorkerEnds
  <2>1. UNCHANGED timeVars /\ worker' = "ended"
    BY <1>3 DEF WorkerEnds
  <2> QED
    BY <2>1, FrozenIsTimely DEF timeVars
<1>4. CASE SendCancelled \/ MainReturns \/ SystemdKills \/ Crash
  <2>1. smooth' = FALSE
    BY <1>4, Zenon DEF SendCancelled, MainReturns, SystemdKills, Crash, Down
  <2> QED
    BY <2>1, RoughIsTimely
<1>5. CASE UdevEnds
  <2>1. CASE Down
    BY <2>1, RoughIsTimely, Zenon DEF Down
  <2>2. CASE UNCHANGED <<mainVars, worker, gatherVars, retryVars, timeVars>>
    BY <2>2, FrozenIsTimely DEF timeVars
  <2> QED
    BY <1>5, <2>1, <2>2, Zenon DEF UdevEnds
<1> QED
  BY <1>1, <1>2, <1>3, <1>4, <1>5, SendTimely, TickTimely, TakingTimely
     DEF Next, Worker, Ending, Gathering

-----------------------------------------------------------------------------
(***************************************************************************)
(* If nothing has changed unseen since the update's begin, what has been   *)
(* gathered so far is what is plugged in                                   *)
(***************************************************************************)
Before == {t \in plugged : \E i \in 1..section - 1 : kind[t] = Order[i]}
Current == /\ worker = "idle" => host = plugged
           /\ worker = "list" => report = Before /\ listed = {} /\ found = {}
           /\ worker = "query" => report = Before /\ listed \cup found = Present
           /\ worker = "send" => report = plugged
Seen == ~excused /\ events = 0 => Current

LEMMA ExcusedIsSeen ==
    ASSUME excused' = TRUE
    PROVE  Seen'
BY Zenon DEF Seen

LEMMA SameIsSeen ==
    ASSUME Seen, UNCHANGED <<excused, events, worker, host, plugged, gatherVars>>
    PROVE  Seen'
<1>1. Current => Current'
  BY DEF Current, Before, Present, gatherVars
<1>2. excused' = excused /\ events' = events
  OBVIOUS
<1>3. CASE Current
  BY <1>1, <1>3, Zenon DEF Seen
<1>4. CASE ~Current
  <2>1. excused \/ events # 0
    BY <1>4, Zenon DEF Seen
  <2>2. excused' \/ events' # 0
    <3>1. excused' = excused
      BY <1>2
    <3>2. excused => excused'
      BY <3>1
    <3>3. events # 0 => events' # 0
      BY <1>2
    <3> QED
      BY <2>1, <3>2, <3>3
  <2> QED
    BY <2>2, Zenon DEF Seen
<1> QED
  BY <1>3, <1>4

LEMMA GatherIsSeen ==
    ASSUME Gather
    PROVE  Seen'
<1>1. worker' = "list" /\ report' = {} /\ section' = 1 /\ listed' = {} /\ found' = {}
  BY DEF Gather
<1>2. Before' = {}
  BY <1>1 DEF Before
<1>3. Current'
  BY <1>1, <1>2 DEF Current
<1> QED
  BY <1>3, Zenon DEF Seen

LEMMA NextSectionIsCurrent ==
    ASSUME Typed, report = Before, NextSection(Present), plugged' = plugged
    PROVE  Current'
<1>1. report' = Before \cup Present /\ listed' = {} /\ found' = {}
  BY DEF NextSection
<1>2. section \in 1..7 /\ plugged \subseteq Things
  BY DEF Typed, Numbers, Names
<1>3. CASE section = 7
  <2>1. worker' = "send"
    BY <1>3, OrderHasSeven DEF NextSection
  <2>2. \A t \in plugged : kind[t] \in {Order[i] : i \in 1..7}
    BY <1>2, OrderHasSeven, HardwareAssumption DEF HardwareAssumption, Sections, Fixed
  <2>3. Before \cup Present = plugged
    BY <1>3, <2>2 DEF Before, Present
  <2> QED
    BY <1>1, <2>1, <2>3 DEF Current
<1>4. CASE section # 7
  <2>1. worker' = "list" /\ section' = section + 1
    BY <1>4, OrderHasSeven DEF NextSection
  <2>2. Before' = Before \cup Present
    BY <1>2, <2>1 DEF Before, Present
  <2> QED
    BY <1>1, <2>1, <2>2 DEF Current
<1> QED
  BY <1>3, <1>4

LEMMA GatheringSeen ==
    ASSUME Typed, Seen, Gathering
    PROVE  Seen'
<1>1. NoGather /\ (Works \/ Fails) /\ worker \in {"list", "query"}
  BY GatheringChanges
<1>2. plugged' = plugged /\ events' = events
  BY <1>1 DEF NoGather, nodeVars, udevVars
<1>3. CASE Fails
  BY <1>3, ExcusedIsSeen DEF Fails
<1>4. CASE ~Fails /\ Works /\ Current
  <2>1. CASE GetDiskList \/ GetSystem \/ GetCPUList \/ GetMemory
    <3>1. worker = "list" /\ NextSection(Present)
      BY <1>4, <2>1, Zenon DEF GetDiskList, GetSystem, GetCPUList, GetMemory, At
    <3> QED
      BY <1>2, <1>4, <3>1, NextSectionIsCurrent, Zenon DEF Current, Seen
  <2>2. CASE ListDevices
    <3>1. /\ worker = "list" /\ worker' = "query" /\ listed' = Present
          /\ section' = section /\ report' = report /\ found' = {}
      <4>1. worker = "list" /\ listed' = Present /\ worker' = "query"
            /\ UNCHANGED <<section, found, report>>
        BY <1>4, <2>2, Zenon DEF ListDevices, At
      <4>2. found = {}
        BY <1>4, <4>1 DEF Current
      <4> QED
        BY <4>1, <4>2
    <3>2. Before' = Before /\ Present' = Present
      BY <1>2, <3>1 DEF Before, Present
    <3>3. Current'
      BY <1>4, <3>1, <3>2 DEF Current
    <3> QED
      BY <3>3, Zenon DEF Seen
  <2>3. CASE QueryDevice
    <3>1. PICK t \in listed : QueryGpu(t) \/ QueryInterface(t) \/ QueryUsb(t)
      BY <2>3 DEF QueryDevice
    <3>2. worker = "query" /\ report = Before /\ listed \cup found = Present
      BY <1>4, <2>3 DEF QueryDevice, Current
    <3>3. t \in plugged
      BY <3>1, <3>2 DEF Present
    <3>4. Told(t)
      BY <1>4, <3>1, <3>3, Zenon DEF QueryGpu, QueryInterface, QueryUsb
    <3>5. worker' = "query" /\ section' = section /\ report' = report
          /\ listed' \cup found' = listed \cup found
      BY <3>1, <3>2, <3>4 DEF Told
    <3>6. Before' = Before /\ Present' = Present
      BY <1>2, <3>5 DEF Before, Present
    <3>7. Current'
      BY <3>2, <3>5, <3>6 DEF Current
    <3> QED
      BY <3>7, Zenon DEF Seen
  <2>4. CASE QueryEnds
    <3>1. NextSection(found) /\ report = Before /\ found = Present
      BY <1>4, <2>4 DEF QueryEnds, Current
    <3>2. Current'
      BY <1>2, <3>1, NextSectionIsCurrent
    <3> QED
      BY <3>2, Zenon DEF Seen
  <2> QED
    BY <2>1, <2>2, <2>3, <2>4 DEF Gathering
<1>5. CASE Works /\ ~Current
  <2>1. excused' = excused
    BY <1>5 DEF Works
  <2> QED
    BY <1>2, <1>5, <2>1, Zenon DEF Seen
<1> QED
  BY <1>1, <1>3, <1>4, <1>5

LEMMA SendSeen ==
    ASSUME Typed, Seen, Send
    PROVE  Seen'
<1>1. worker = "send" /\ plugged' = plugged /\ events' = events
  BY DEF Send, nodeVars, udevVars
<1>2. CASE host' = report /\ Succeeds
  <2>1. worker' = "idle" /\ excused' = excused
    BY <1>2 DEF Succeeds, Rest
  <2>2. Current => Current'
    BY <1>1, <1>2, <2>1 DEF Current
  <2> QED
    BY <1>1, <2>1, <2>2, Zenon DEF Seen
<1>3. CASE TryFails
  <2>1. CASE UNCHANGED <<worker, gatherVars, excused>>
    <3>1. Current => Current'
      BY <1>1, <2>1 DEF Current, gatherVars
    <3> QED
      BY <1>1, <2>1, <3>1, Zenon DEF Seen
  <2>2. CASE excused' = TRUE
    BY <2>2, ExcusedIsSeen
  <2>3. UNCHANGED <<worker, gatherVars, excused>> \/ Gather \/ excused' = TRUE
    BY <1>3, Zenon DEF TryFails
  <2> QED
    BY <2>1, <2>2, <2>3, GatherIsSeen
<1> QED
  BY <1>2, <1>3 DEF Send

LEMMA NextSeen ==
    ASSUME Typed, Seen, [Next]_vars
    PROVE  Seen'
<1>1. CASE TakeFirst \/ TakeEvent \/ TakeTick
  BY <1>1, GatherIsSeen, Zenon DEF TakeFirst, TakeEvent, TakeTick, BeginUpdate
<1>2. CASE SendCancelled \/ UdevKilled \/ MainReturns \/ SystemdKills \/ Crash \/ UdevEnds
  <2>1. excused' = TRUE
    BY <1>2, Zenon DEF SendCancelled, UdevKilled, MainReturns, SystemdKills, Crash, UdevEnds, Down
  <2> QED
    BY <2>1, ExcusedIsSeen
<1>3. CASE UdevStarts \/ SendStatus \/ Signal \/ Start \/ Reach \/ Tick \/ UNCHANGED vars
  <2>1. UNCHANGED <<excused, events, worker, host, plugged, gatherVars>>
    BY <1>3, Zenon DEF UdevStarts, SendStatus, Signal, Start, Reach, Tick, vars, nodeVars, udevVars
  <2> QED
    BY <2>1, SameIsSeen
<1>4. CASE WorkerEnds
  <2>1. worker' = "ended"
    BY <1>4 DEF WorkerEnds
  <2>2. Current'
    BY <2>1 DEF Current
  <2> QED
    BY <2>2, Zenon DEF Seen
<1>5. CASE Plug
  <2>1. CASE excused' = TRUE
    BY <2>1, ExcusedIsSeen
  <2>2. CASE events' = events + 1
    <3>1. events' # 0
      BY <2>2 DEF Typed, Numbers
    <3> QED
      BY <3>1, Zenon DEF Seen
  <2> QED
    BY <1>5, <2>1, <2>2, Zenon DEF Plug
<1> QED
  BY <1>1, <1>2, <1>3, <1>4, <1>5, GatheringSeen, SendSeen DEF Next, Worker, Ending, Gathering

-----------------------------------------------------------------------------
(***************************************************************************)
(* The theorems                                                            *)
(***************************************************************************)
IInv == Typed /\ Timely /\ Seen

(* The inductive invariant: the state is well-formed, the times agree with *)
(* each other (hdagent.go:139-152), and what has been gathered agrees with *)
(* the hardware, if nothing has changed unseen (comms.go:309-361).         *)
THEOREM HardwareInv == Spec => []IInv
<1>1. Init => IInv
  <2>1. Init => Timely /\ Seen
    BY Zenon DEF Init, Timely, Seen
  <2> QED
    BY <2>1, InitTyped DEF IInv
<1>2. IInv /\ [Next]_vars => IInv'
  BY NextTyped, NextTimely, NextSeen DEF IInv
<1> QED
  BY <1>1, <1>2, PTL DEF Spec

(* Every reachable state is one the agent's variables can be in.           *)
THEOREM HardwareTyped == Spec => []TypeOK
<1>1. Typed => TypeOK
  <2> SUFFICES ASSUME Typed PROVE TypeOK
    OBVIOUS
  <2>1. {reachable, up, stopping, excused, smooth} \subseteq BOOLEAN
    BY Zenon DEF Typed, Flags
  <2>2. /\ main \in {"sending", "waiting"} /\ udev \in {"starting", "on", "off"}
        /\ worker \in {"idle", "list", "query", "send", "ended"}
        /\ plugged \subseteq Things /\ host \subseteq Things
        /\ {listed, found, report} \subseteq SUBSET Things
        /\ reported \in {"none", "ready", "notReady"}
    BY DEF Typed, Names
  <2>3. events \in 0..MaxChanges
    BY HardwareAssumption DEF Typed, Numbers, HardwareAssumption
  <2>4. /\ section \in 1..Len(Order) /\ {tries, attempts} \subseteq 0..MaxRetries
        /\ timer \in 0..UpdateInterval /\ elapsed \in 0..MaxDuration /\ age \in 0..Counts + 1
        /\ faults \in 0..MaxFaults /\ changes \in 0..MaxChanges
    BY OrderHasSeven DEF Typed, Numbers
  <2> QED
    BY <2>1, <2>2, <2>3, <2>4, Zenon DEF TypeOK
<1> QED
  BY <1>1, HardwareInv, PTL DEF IInv

(* Between updates the Host Manager has what is plugged in, for any        *)
(* hardware, unless the update went wrong or a change was not seen.        *)
THEOREM QuietHostIsCurrent == Spec => []QuietIsCurrent
<1>1. IInv => QuietIsCurrent
  BY Zenon DEF IInv, Seen, Current, QuietIsCurrent
<1> QED
  BY <1>1, HardwareInv, PTL

(* Twice the interval is enough for any intervals, if an update takes no   *)
(* longer than one: NOT READY follows READY only after a failed or a late  *)
(* update (hdagent.go:176).                                                *)
THEOREM NeverFalselyNegative == Spec => NoFalseNegative
<1>1. IInv /\ [Next]_vars => [reported # "notReady" /\ reported' = "notReady" => ~smooth]_vars
  <2> SUFFICES ASSUME IInv, [Next]_vars, reported # "notReady", reported' = "notReady", smooth
               PROVE  FALSE
    BY Zenon
  <2>1. SendStatus
    <3>1. reported' # reported
      OBVIOUS
    <3>2. ~Gathering
      BY <3>1, GatheringChanges DEF IInv, NoGather
    <3> QED
      BY <3>1, <3>2, Zenon
         DEF Next, Worker, Ending, Gathering, vars, TakeFirst, TakeEvent, TakeTick, Send,
             SendCancelled, UdevKilled, WorkerEnds, MainReturns, UdevStarts, UdevEnds, Signal,
             SystemdKills, Crash, Start, Plug, Reach, Tick
  <2>2. age > Counts
    BY <2>1, CountsIsNat DEF SendStatus, IInv, Typed, Numbers
  <2>3. age <= timer + (IF worker = "idle" THEN 0 ELSE elapsed)
    BY DEF IInv, Timely
  <2> QED
    BY <2>2, <2>3, CountsIsNat, HardwareAssumption DEF IInv, Typed, Numbers, HardwareAssumption
<1> QED
  BY <1>1, HardwareInv, PTL DEF Spec, NoFalseNegative
=============================================================================
