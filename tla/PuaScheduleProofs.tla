------------------------- MODULE PuaScheduleProofs -------------------------
(***************************************************************************)
(* Proofs about PuaSchedule, for any schedules, bounds and numbers of      *)
(* changes and restarts: the update of a single schedule starts inside the *)
(* schedule's window and not again once it is recorded, one that can run   *)
(* does, and gocron's jobs are those of the response handled last.         *)
(***************************************************************************)
EXTENDS PuaSchedule, FiniteSetTheorems, TLAPS

-----------------------------------------------------------------------------
(* The constants, by the assumptions.                                      *)
LEMMA Bounds == /\ Horizon \in Nat /\ Grace \in Nat /\ Day \in Nat /\ Day > 0
                /\ MaxChanges \in Nat /\ MaxRestarts \in Nat
BY TimesAssumption

(* A schedule has a start and an end, and is not nil.                      *)
LEMMA SingleFacts ==
  ASSUME NEW s \in Singles
  PROVE  s.start \in Nat /\ s.end \in Nat /\ s # NoSchedule
BY SchedulesAssumption

(* A repeated schedule has times and a duration.                           *)
LEMMA RepeatedFacts ==
  ASSUME NEW s \in Repeated
  PROVE  s.times \subseteq Nat /\ s.duration \in Nat /\ s.valid \in BOOLEAN
BY SchedulesAssumption

(* NoJob is no job, and of no schedule.                                    *)
LEMMA NoJobFacts ==
  /\ NoJob \notin SingleJobs
  /\ NoJob.schedule = NoSchedule
BY SchedulesAssumption DEF NoJob, SingleJobs

(* What a job of a single schedule is made of.                             *)
LEMMA SingleJobFacts ==
  ASSUME NEW j \in SingleJobs
  PROVE  /\ j # NoJob /\ j.schedule \in Singles /\ j.start \in Nat /\ j.end \in Nat
         /\ j.runs \in Runs
BY NoJobFacts DEF SingleJobs

(* The next time of a repeated schedule is the least one after now.        *)
LEMMA NextTimeIsNat ==
  ASSUME NEW s \in Repeated, now \in Nat
  PROVE  NextTime(s) \in Nat
<1>1. CASE \E t \in s.times : t > now
  <2> DEFINE Later == {t \in s.times : t > now}
  <2>1. Later \subseteq Nat /\ Later # {}
    BY <1>1, RepeatedFacts
  <2>2. PICK t \in Later : \A u \in Later : <<u, t>> \notin OpToRel(<, Nat)
    <3> HIDE DEF Later
    <3>1. QED
      BY <2>1, WFMin, NatLessThanWellFounded, Zenon
  <2>a. \A u \in Later : t <= u
    <3>1. \A u \in Later : ~(u < t)
      BY <2>1, <2>2, Zenon DEF OpToRel
    <3>2. QED
      BY <2>1, <3>1
  <2>3. \A u \in s.times : u > now => t <= u
    BY <2>a
  <2>4. \E m \in s.times : m > now /\ \A u \in s.times : u > now => m <= u
    BY <2>2, <2>3
  <2>5. NextTime(s) \in s.times
    BY <1>1, <2>4 DEF NextTime
  <2>6. QED
    BY <2>5, RepeatedFacts
<1>2. CASE ~\E t \in s.times : t > now
  BY <1>2, Bounds DEF NextTime, Never
<1>3. QED
  BY <1>1, <1>2

(* RemoveByTag leaves jobs what they are, but for whose they are.          *)
LEMMA DisownedFacts ==
  ASSUME NEW j \in Fired, NEW tags
  PROVE  /\ Disowned(j, tags) \in Fired
         /\ Disowned(j, tags).tag = j.tag /\ Disowned(j, tags).schedule = j.schedule
         /\ Disowned(j, tags).end = j.end
         /\ Disowned(j, tags).own = (j.own /\ j.tag \notin tags)
BY DEF Disowned, Fired

(* What a fired job is made of.                                            *)
LEMMA FiredFacts ==
  ASSUME NEW j \in Fired
  PROVE  /\ j.end \in Nat /\ j.own \in BOOLEAN /\ j.tag \in {"single", "repeated"}
         /\ j.tag = "single" => j.schedule \in Singles
         /\ j.tag = "repeated" => j.schedule \in Repeated
BY DEF Fired

(* A job that runs is not NoRun.                                           *)
LEMMA RunFacts ==
  ASSUME NEW r \in [job : Fired, phase : Phases]
  PROVE  r # NoRun /\ r.job \in Fired /\ r.phase \in Phases
BY DEF NoRun, Fired

(* The job of a single schedule.                                           *)
LEMMA ScheduledJob ==
  ASSUME NEW s \in Singles, now \in Nat
  PROVE  ScheduleSingleRun(s) \in SingleJobs \cup {NoJob}
BY SingleFacts DEF ScheduleSingleRun, SingleJobs, Runs

(* HandleSingleSchedule leaves a job or none.                              *)
LEMMA SingleJobType ==
  ASSUME NEW s \in MaybeSingles, now \in Nat, single \in SingleJobs \cup {NoJob}
  PROVE  SingleJob(s) \in SingleJobs \cup {NoJob}
BY ScheduledJob DEF SingleJob, MaybeSingles

(* Runs that are typed.                                                    *)
RunTypes == [job : Fired, phase : Phases] \cup {NoRun}

(* k is what RemoveByTag(tags) makes of job j.                             *)
IsDisowned(k, j, tags) ==
    /\ k.tag = j.tag /\ k.schedule = j.schedule /\ k.end = j.end
    /\ k.own = (j.own /\ j.tag \notin tags)

(* RemoveByTag, seen from the jobs it leaves.                              *)
LEMMA Removed ==
  ASSUME queue \subseteq Fired, run \in RunTypes, NEW tags, RemoveByTag(tags)
  PROVE  /\ queue' \subseteq Fired /\ run' \in RunTypes
         /\ \A k \in queue' : \E j \in queue : IsDisowned(k, j, tags)
         /\ run = NoRun => run' = NoRun
         /\ run # NoRun => /\ run' # NoRun /\ run'.phase = run.phase
                           /\ IsDisowned(run'.job, run.job, tags)
<1>1. \A j \in queue : Disowned(j, tags) \in Fired /\ IsDisowned(Disowned(j, tags), j, tags)
  BY DisownedFacts DEF IsDisowned
<1>2. \A j \in queue : j.tag \notin tags => IsDisowned(j, j, tags)
  BY FiredFacts DEF IsDisowned
<1>3. queue' \subseteq Fired /\ \A k \in queue' : \E j \in queue : IsDisowned(k, j, tags)
  <2>1. CASE queue' = {Disowned(j, tags) : j \in queue}
    BY <1>1, <2>1
  <2>2. CASE queue' = {j \in queue : j.tag \notin tags}
    BY <1>2, <2>2
  <2>3. QED
    BY <2>1, <2>2 DEF RemoveByTag
<1>4. CASE run = NoRun
  BY <1>3, <1>4 DEF RemoveByTag, RunTypes
<1>5. CASE run # NoRun
  <2>1. run \in [job : Fired, phase : Phases] /\ run.job \in Fired
    BY <1>5 DEF RunTypes
  <2>2. run' = [run EXCEPT !.job = Disowned(run.job, tags)]
    BY <1>5 DEF RemoveByTag
  <2>3. Disowned(run.job, tags) \in Fired /\ IsDisowned(Disowned(run.job, tags), run.job, tags)
    BY <2>1, DisownedFacts DEF IsDisowned
  <2>4. /\ run' \in [job : Fired, phase : Phases] /\ run'.phase = run.phase
        /\ run'.job = Disowned(run.job, tags)
    BY <2>1, <2>2, <2>3
  <2>5. run' # NoRun
    BY <2>4, RunFacts
  <2>6. QED
    BY <1>3, <1>5, <2>3, <2>4, <2>5 DEF RunTypes
<1>6. QED
  BY <1>4, <1>5

(* The jobs gocron fires.                                                  *)
LEMMA FiredSingle ==
  ASSUME NEW s \in Singles, NEW e \in Nat
  PROVE  [tag |-> "single", schedule |-> s, end |-> e, own |-> TRUE] \in Fired
<1>1. [tag |-> "single", schedule |-> s, end |-> e, own |-> TRUE]
        \in [tag : {"single"}, schedule : Singles, end : Nat, own : BOOLEAN]
  OBVIOUS
<1>2. QED
  BY <1>1, Zenon DEF Fired

(* A repeated one has no end yet.                                          *)
LEMMA FiredRepeated ==
  ASSUME NEW s \in Repeated
  PROVE  [tag |-> "repeated", schedule |-> s, end |-> 0, own |-> TRUE] \in Fired
<1>1. [tag |-> "repeated", schedule |-> s, end |-> 0, own |-> TRUE]
        \in [tag : {"repeated"}, schedule : Repeated, end : Nat, own : BOOLEAN]
  OBVIOUS
<1>2. QED
  BY <1>1, Zenon DEF Fired

-----------------------------------------------------------------------------
(***************************************************************************)
(* Type correctness                                                        *)
(***************************************************************************)
JobTypes ==
    /\ single \in SingleJobs \cup {NoJob} /\ crons \subseteq CronJobs
    /\ queue \subseteq Fired /\ run \in RunTypes
FileTypes == file \in Meta /\ meta \in Meta
OtherTypes ==
    /\ osType \in OsTypes /\ now \in 0..Horizon
    /\ asked \in Responses
    /\ up \in BOOLEAN /\ downloading \in BOOLEAN
    /\ status \in {"UP_TO_DATE", "STARTED", "UPDATED", "FAILED"}
    /\ marked \in BOOLEAN /\ rebooting \in BOOLEAN
    /\ changes \in 0..MaxChanges /\ restarts \in 0..MaxRestarts
    /\ heard \in Responses \cup {NoResponse} /\ strayed \in BOOLEAN
    /\ settled \in MaybeSingles /\ accepted \in MaybeSingles

(* TypeOK by its parts.                                                    *)
LEMMA TypeParts == TypeOK <=> JobTypes /\ FileTypes /\ OtherTypes
BY Zenon DEF TypeOK, JobTypes, FileTypes, OtherTypes, RunTypes

(* The first states.                                                       *)
LEMMA InitTypes == Init => TypeOK
<1> SUFFICES ASSUME Init PROVE TypeOK
  OBVIOUS
<1>1. JobTypes
  BY DEF Init, JobTypes, RunTypes
<1>2. FileTypes
  BY DEF Init, FileTypes, Meta, MaybeSingles
<1>3. now \in 0..Horizon /\ changes \in 0..MaxChanges /\ restarts \in 0..MaxRestarts
  BY Bounds DEF Init
<1>4. OtherTypes
  BY <1>3, Zenon DEF Init, OtherTypes, MaybeSingles
<1>5. QED
  BY <1>1, <1>2, <1>4, TypeParts

(* What MM answers.                                                        *)
LEMMA ResponseFacts ==
  ASSUME NEW r \in Responses
  PROVE  r.single \in MaybeSingles /\ r.repeated \in Lists \cup {{}}
BY DEF Responses, MaybeSingles

(* The jobs made for a list.                                               *)
LEMMA NewJobsTypes ==
  ASSUME NEW list \in Lists \cup {{}}, now \in Nat
  PROVE  NewJobs(list) \subseteq CronJobs
<1>1. \A s \in list : s \in Repeated
  BY SchedulesAssumption
<1>2. \A s \in Valid(list) : s \in Repeated /\ NextTime(s) \in Nat
  BY <1>1, NextTimeIsNat DEF Valid
<1>3. QED
  BY <1>2 DEF NewJobs, CronJobs

(* The job that has returned.                                              *)
LEMMA ReturnsTypes ==
  ASSUME JobTypes, NEW job, Returns(job)
  PROVE  single' \in SingleJobs \cup {NoJob} /\ run' \in RunTypes
BY DEF JobTypes, Returns, SingleJobs, Runs, RunTypes

(* The jobs.                                                               *)
LEMMA JobTypesStep ==
  ASSUME TypeOK, [Next]_vars
  PROVE  JobTypes'
<1>0. /\ JobTypes /\ now \in Nat /\ asked.single \in MaybeSingles
      /\ asked.repeated \in Lists \cup {{}}
      /\ single \in SingleJobs \cup {NoJob} /\ crons \subseteq CronJobs
      /\ queue \subseteq Fired /\ run \in RunTypes
  BY TypeParts, ResponseFacts, Bounds DEF OtherTypes, JobTypes
<1>1. CASE HandleUpdateRes
  <2>1. single' \in SingleJobs \cup {NoJob}
    BY <1>0, <1>1, SingleJobType DEF HandleUpdateRes
  <2>2. crons' \subseteq CronJobs
    <3>1. crons' = crons \/ crons' = NewJobs(asked.repeated)
      BY <1>1 DEF HandleUpdateRes
    <3>2. QED
      BY <1>0, <3>1, NewJobsTypes
  <2>3. queue' \subseteq Fired /\ run' \in RunTypes
    <3>1. PICK tags : RemoveByTag(tags)
      BY <1>1 DEF HandleUpdateRes
    <3>2. QED
      BY <1>0, <3>1, Removed
  <2>4. QED
    BY <2>1, <2>2, <2>3 DEF JobTypes
<1>2. CASE FireSingle
  <2>1. single \in SingleJobs /\ single.runs = "pending"
    BY <1>0, <1>2 DEF FireSingle, SingleDue
  <2>2. single' \in SingleJobs
    BY <1>2, <2>1 DEF FireSingle, SingleJobs, Runs
  <2>3. queue' \subseteq Fired
    BY <1>0, <1>2, <2>1, SingleJobFacts, FiredSingle DEF FireSingle
  <2>4. UNCHANGED <<crons, run>>
    BY <1>2 DEF FireSingle
  <2>5. QED
    BY <1>0, <2>2, <2>3, <2>4 DEF JobTypes
<1>3. CASE FireRepeated
  <2>1. PICK c \in crons :
          /\ crons' = (crons \ {c}) \cup {[c EXCEPT !.next = NextTime(c.schedule)]}
          /\ queue' = IF Occupied(c) THEN queue
                      ELSE queue \cup {[tag |-> "repeated", schedule |-> c.schedule,
                                        end |-> 0, own |-> TRUE]}
    BY <1>3 DEF FireRepeated
  <2>2. c \in CronJobs /\ c.schedule \in Repeated
    BY <1>0 DEF CronJobs
  <2>3. NextTime(c.schedule) \in Nat
    BY <1>0, <2>2, NextTimeIsNat
  <2>4. crons' \subseteq CronJobs
    BY <1>0, <2>1, <2>2, <2>3 DEF CronJobs
  <2>5. queue' \subseteq Fired
    BY <1>0, <2>1, <2>2, FiredRepeated
  <2>6. UNCHANGED <<single, run>>
    BY <1>3 DEF FireRepeated
  <2>7. QED
    BY <1>0, <2>4, <2>5, <2>6 DEF JobTypes
<1>4. CASE Expire
  <2>1. single' = NoJob /\ crons' = crons /\ RemoveByTag({"single"})
    BY <1>4 DEF Expire
  <2>2. queue' \subseteq Fired /\ run' \in RunTypes
    BY <1>0, <2>1, Removed
  <2>3. QED
    BY <1>0, <2>1, <2>2 DEF JobTypes
<1>5. CASE Begin
  <2>1. PICK j \in queue :
          /\ queue' = queue \ {j}
          /\ \/ /\ run' = [job |-> [j EXCEPT !.end = IF j.tag = "single" THEN j.end
                                                     ELSE now + j.schedule.duration],
                           phase |-> "lock"]
                /\ UNCHANGED single
             \/ Returns(j)
    BY <1>5 DEF Begin
  <2>2. j \in Fired /\ crons' = crons /\ queue' \subseteq Fired
    BY <1>0, <1>5, <2>1 DEF Begin
  <2>3. CASE Returns(j)
    BY <1>0, <2>2, <2>3, ReturnsTypes DEF JobTypes
  <2>4. CASE /\ run' = [job |-> [j EXCEPT !.end = IF j.tag = "single" THEN j.end
                                                  ELSE now + j.schedule.duration],
                        phase |-> "lock"]
             /\ UNCHANGED single
    <3>1. (IF j.tag = "single" THEN j.end ELSE now + j.schedule.duration) \in Nat
      BY <1>0, <2>2, FiredFacts, RepeatedFacts
    <3>2. \A e \in Nat : [j EXCEPT !.end = e] \in Fired
      BY <2>2 DEF Fired
    <3>3. run' \in RunTypes
      BY <2>4, <3>1, <3>2 DEF RunTypes, Phases
    <3>4. QED
      BY <1>0, <2>2, <2>4, <3>3 DEF JobTypes
  <2>5. QED
    BY <2>1, <2>3, <2>4
<1>6. CASE TriggerUpdate
  <2>1. UNCHANGED <<crons, queue>> /\ run # NoRun
    BY <1>6 DEF TriggerUpdate, TriggerDue
  <2>2. CASE StartUpdate
    <3>1. run' = [run EXCEPT !.phase = "update"] /\ single' = single
      BY <2>2 DEF StartUpdate
    <3>2. run' \in RunTypes
      BY <1>0, <2>1, <3>1 DEF RunTypes, Phases
    <3>3. QED
      BY <1>0, <2>1, <3>1, <3>2 DEF JobTypes
  <2>3. CASE Returns(run.job)
    BY <1>0, <2>1, <2>3, ReturnsTypes DEF JobTypes
  <2>4. QED
    BY <1>6, <2>2, <2>3 DEF TriggerUpdate
<1>7. CASE EndUpdate
  BY <1>0, <1>7, ReturnsTypes DEF EndUpdate, JobTypes
<1>8. CASE Down
  BY <1>8 DEF Down, JobTypes, RunTypes
<1>9. CASE Main \/ Download \/ Change \/ Tick \/ UNCHANGED vars
  <2>1. UNCHANGED <<single, crons, queue, run>>
    BY <1>9, Zenon DEF Main, Download, Change, Tick, vars, jobVars, runVars
  <2>2. QED
    BY <1>0, <2>1 DEF JobTypes
<1>10. QED
  BY <1>1, <1>2, <1>3, <1>4, <1>5, <1>6, <1>7, <1>8, <1>9 DEF Next

(* The file and its copy.                                                  *)
LEMMA FileTypesStep ==
  ASSUME TypeOK, [Next]_vars
  PROVE  FileTypes'
<1>0. /\ file \in Meta /\ meta \in Meta /\ asked \in Responses
      /\ asked.single \in MaybeSingles /\ asked.repeated \in Lists \cup {{}}
  BY TypeParts, ResponseFacts DEF FileTypes, OtherTypes
<1>1. CASE HandleUpdateRes
  <2>1. SingleFinished(asked.single) \in BOOLEAN
    BY <1>0 DEF SingleFinished, Meta
  <2>2. file' \in Meta /\ meta' = meta
    BY <1>0, <1>1, <2>1 DEF HandleUpdateRes, SetMetaSchedules, Meta
  <2>3. QED
    BY <1>0, <2>2 DEF FileTypes
<1>2. CASE Main
  BY <1>0, <1>2 DEF Main, FileTypes, Meta, Verifies, InsideSingleScheduleWindow
<1>3. CASE FireSingle \/ FireRepeated \/ Expire \/ Begin \/ TriggerUpdate \/ EndUpdate \/ Down
           \/ Download \/ Change \/ Tick \/ UNCHANGED vars
  <2>1. UNCHANGED <<file, meta>>
    BY <1>3, Zenon DEF FireSingle, FireRepeated, Expire, Begin, TriggerUpdate, EndUpdate, Down,
                       Download, Change, Tick, vars
  <2>2. QED
    BY <1>0, <2>1 DEF FileTypes
<1>4. QED
  BY <1>1, <1>2, <1>3 DEF Next

(* The rest.                                                               *)
LEMMA OtherTypesStep ==
  ASSUME TypeOK, [Next]_vars
  PROVE  OtherTypes'
<1>0. OtherTypes /\ file.single \in MaybeSingles /\ NoSchedule \in MaybeSingles
      /\ asked.single \in MaybeSingles
  BY TypeParts, ResponseFacts DEF FileTypes, Meta, OtherTypes, MaybeSingles
<1>1. CASE HandleUpdateRes
  <2>1. status' \in {"UP_TO_DATE", "STARTED", "UPDATED", "FAILED"}
    BY <1>0, <1>1 DEF HandleUpdateRes, OtherTypes
  <2>2. strayed' \in BOOLEAN
    BY <1>0, <1>1 DEF HandleUpdateRes, OtherTypes
  <2>3. settled' \in MaybeSingles /\ accepted' \in MaybeSingles
    BY <1>0, <1>1, Zenon DEF HandleUpdateRes, OtherTypes
  <2>4. heard' \in Responses \cup {NoResponse}
    BY <1>0, <1>1 DEF HandleUpdateRes, OtherTypes
  <2>5. UNCHANGED <<osType, now, asked, changes, up, downloading, marked, rebooting, restarts>>
    BY <1>1, Zenon DEF HandleUpdateRes, mmVars
  <2>6. QED
    BY <1>0, <2>1, <2>2, <2>3, <2>4, <2>5, Zenon DEF OtherTypes
<1>2. CASE FireSingle \/ FireRepeated \/ Expire \/ UNCHANGED vars
  <2>1. UNCHANGED <<osType, now, asked, changes, up, downloading, status, marked, rebooting,
                    restarts, heard, strayed, settled, accepted>>
    BY <1>2, Zenon DEF FireSingle, FireRepeated, Expire, vars, mmVars, statVars, ghostVars
  <2>2. QED
    BY <1>0, <2>1, Zenon DEF OtherTypes
<1>3. CASE Begin \/ TriggerUpdate \/ EndUpdate
  <2>1. UNCHANGED <<osType, now, asked, changes, up, downloading, restarts, heard, strayed,
                    settled>>
    BY <1>3, Zenon DEF Begin, TriggerUpdate, EndUpdate, mmVars, ghostVars
  <2>2. \A job : Served(job) \in MaybeSingles
    BY <1>0, Zenon DEF OtherTypes, Served
  <2>3. accepted' = accepted \/ \E job : accepted' = Served(job)
    BY <1>3, Zenon DEF Begin, TriggerUpdate, EndUpdate, ghostVars, StartUpdate
  <2>4. accepted' \in MaybeSingles
    BY <1>0, <2>2, <2>3, Zenon DEF OtherTypes
  <2>5. status' \in {"UP_TO_DATE", "STARTED", "UPDATED", "FAILED"}
        /\ marked' \in BOOLEAN /\ rebooting' \in BOOLEAN
    <3>1. CASE Begin
      BY <1>0, <3>1, Zenon DEF Begin, statVars, OtherTypes
    <3>2. CASE TriggerUpdate
      BY <1>0, <3>2 DEF TriggerUpdate, StartUpdate, OtherTypes
    <3>3. CASE EndUpdate
      <4>1. marked \in BOOLEAN /\ rebooting \in BOOLEAN
            /\ status \in {"UP_TO_DATE", "STARTED", "UPDATED", "FAILED"}
        BY <1>0, Zenon DEF OtherTypes
      <4>2. status' \in {status, "UPDATED", "FAILED"}
        BY <3>3, Zenon DEF EndUpdate
      <4>3. marked' \in {marked, TRUE} /\ rebooting' \in {rebooting, TRUE}
        BY <3>3, Zenon DEF EndUpdate
      <4>4. QED
        BY <4>1, <4>2, <4>3
    <3>4. QED
      BY <1>3, <3>1, <3>2, <3>3
  <2>6. QED
    BY <1>0, <2>1, <2>4, <2>5, Zenon DEF OtherTypes
<1>4. CASE Down
  <2>1. restarts' \in 0..MaxRestarts /\ rebooting' \in BOOLEAN
    <3>1. restarts \in 0..MaxRestarts /\ rebooting \in BOOLEAN
      BY <1>0, Zenon DEF OtherTypes
    <3>2. \/ restarts' = restarts
          \/ restarts < MaxRestarts /\ restarts' = restarts + 1
      BY <1>4, Zenon DEF Down
    <3>3. rebooting' \in {rebooting, FALSE}
      BY <1>4, Zenon DEF Down
    <3>4. restarts' \in 0..MaxRestarts
      BY <3>1, <3>2, Bounds
    <3>5. QED
      BY <3>1, <3>3, <3>4, Zenon
  <2>2. UNCHANGED <<osType, now, asked, changes, status, marked, settled>>
    BY <1>4, Zenon DEF Down, mmVars
  <2>3. /\ up' = FALSE /\ downloading' = FALSE
        /\ heard' = NoResponse /\ strayed' = FALSE /\ accepted' = NoSchedule
    BY <1>4 DEF Down
  <2>4. QED
    BY <1>0, <2>1, <2>2, <2>3, Zenon DEF OtherTypes
<1>5. CASE Main
  <2>1. status' \in {"UP_TO_DATE", "STARTED", "UPDATED", "FAILED"} /\ marked' \in BOOLEAN
    BY <1>0, <1>5 DEF Main, OtherTypes
  <2>2. settled' \in MaybeSingles /\ up' = TRUE
    BY <1>0, <1>5, Zenon DEF Main, OtherTypes
  <2>3. UNCHANGED <<osType, now, asked, changes, downloading, rebooting, restarts, heard,
                    strayed, accepted>>
    BY <1>5, Zenon DEF Main, mmVars
  <2>4. QED
    BY <1>0, <2>1, <2>2, <2>3, Zenon DEF OtherTypes
<1>6. CASE Download
  <2>1. downloading' \in BOOLEAN
    BY <1>6 DEF Download
  <2>2. UNCHANGED <<osType, now, asked, changes, up, status, marked, rebooting, restarts, heard,
                    strayed, settled, accepted>>
    BY <1>6, Zenon DEF Download, mmVars, statVars, ghostVars
  <2>3. QED
    BY <1>0, <2>1, <2>2, Zenon DEF OtherTypes
<1>7. CASE Change
  <2>1. changes' \in 0..MaxChanges
    BY <1>0, <1>7, Bounds DEF Change, OtherTypes
  <2>2. asked' \in Responses /\ settled' = NoSchedule /\ accepted' = NoSchedule
    BY <1>7 DEF Change
  <2>3. UNCHANGED <<osType, now, up, downloading, status, marked, rebooting, restarts, heard,
                    strayed>>
    BY <1>7, Zenon DEF Change, statVars
  <2>4. QED
    BY <1>0, <2>1, <2>2, <2>3, Zenon DEF OtherTypes
<1>8. CASE Tick
  <2>1. now' \in 0..Horizon
    BY <1>0, <1>8, Bounds DEF Tick, OtherTypes
  <2>2. accepted' \in MaybeSingles
    BY <1>0, <1>8, Zenon DEF Tick, OtherTypes
  <2>3. UNCHANGED <<osType, asked, changes, up, downloading, status, marked, rebooting, restarts,
                    heard, strayed, settled>>
    BY <1>8, Zenon DEF Tick, mmVars, statVars
  <2>4. QED
    BY <1>0, <2>1, <2>2, <2>3, Zenon DEF OtherTypes
<1>9. QED
  BY <1>1, <1>2, <1>3, <1>4, <1>5, <1>6, <1>7, <1>8 DEF Next

(* Every step keeps the types.                                             *)
LEMMA TypeStep == TypeOK /\ [Next]_vars => TypeOK'
<1> SUFFICES ASSUME TypeOK, [Next]_vars PROVE TypeOK'
  OBVIOUS
<1>1. JobTypes' /\ FileTypes' /\ OtherTypes'
  BY JobTypesStep, FileTypesStep, OtherTypesStep
<1>2. QED
  BY <1>1, TypeParts, Zenon DEF TypeOK, JobTypes, FileTypes, OtherTypes, RunTypes

(* Every state of the scheduler is well-formed, for any schedules MM may   *)
(* send and any bounds.                                                    *)
THEOREM ScheduleTyped == Spec => []TypeOK
<1>1. TypeOK /\ [Next]_vars => TypeOK'
  BY TypeStep
<1>2. QED
  BY InitTypes, <1>1, PTL DEF Spec

-----------------------------------------------------------------------------
(***************************************************************************)
(* The job of the single schedule                                          *)
(***************************************************************************)
(* The end of the window an update of the schedule may start in: a         *)
(* schedule without an end has none.                                       *)
EndOf(s) == IF s.end # 0 THEN s.end ELSE s.start

Own(job) == job.tag = "single" /\ job.own

(* A fired job of a single schedule was due and has its schedule's end; if *)
(* its job is still in the scheduler, that one has fired and not returned. *)
Fits(job, time, owner) ==
    job.tag = "single" =>
        /\ job.schedule.start <= time /\ job.end = EndOf(job.schedule)
        /\ job.own => /\ owner # NoJob /\ owner.runs = "fired"
                      /\ owner.schedule = job.schedule

(* No job of a process that is down; one that fits for each single job, of *)
(* which gocron has fired at most one that is still its own.               *)
DownInv ==
    ~up => /\ single = NoJob /\ crons = {} /\ queue = {} /\ run = NoRun
           /\ heard = NoResponse /\ ~strayed /\ accepted = NoSchedule
SingleFits == single # NoJob => /\ single.schedule.start <= single.start
                                /\ single.end = EndOf(single.schedule)
FiredFit ==
    /\ \A job \in queue : Fits(job, now, single)
    /\ run # NoRun => Fits(run.job, now, single)
    /\ run # NoRun /\ Own(run.job) => \A job \in queue : ~Own(job)
JobInv == TypeOK /\ DownInv /\ SingleFits /\ FiredFit

(* The types the following steps need.                                     *)
LEMMA JobInvTypes ==
  ASSUME TypeOK
  PROVE  /\ single \in SingleJobs \cup {NoJob} /\ crons \subseteq CronJobs
         /\ queue \subseteq Fired /\ run \in RunTypes
         /\ now \in Nat /\ asked.single \in MaybeSingles
         /\ run # NoRun => run.job \in Fired
BY TypeParts, ResponseFacts, Bounds DEF OtherTypes, JobTypes, RunTypes

(* Two fired jobs that are gocron's own are one.                           *)
LEMMA OwnIsOne ==
  ASSUME queue \subseteq Fired, \A job \in queue : Fits(job, now, single),
         NEW j \in queue, NEW k \in queue, Own(j), Own(k)
  PROVE  j = k
<1>1. j.tag = "single" /\ k.tag = "single" /\ j.own = TRUE /\ k.own = TRUE
  BY FiredFacts DEF Own
<1>2. j.schedule = k.schedule /\ j.end = k.end
  BY <1>1 DEF Fits
<1>3. j \in [tag : {"single"}, schedule : Singles, end : Nat, own : BOOLEAN]
      /\ k \in [tag : {"single"}, schedule : Singles, end : Nat, own : BOOLEAN]
  BY <1>1 DEF Fired
<1>4. QED
  BY <1>1, <1>2, <1>3

(* The job scheduleSingleRun makes.                                        *)
LEMMA ScheduledFits ==
  ASSUME NEW s \in Singles, now \in Nat, NEW j, j = ScheduleSingleRun(s), j # NoJob
  PROVE  /\ j \in SingleJobs /\ j.schedule = s /\ j.runs = "pending"
         /\ s.start <= j.start /\ now <= j.start /\ j.end = EndOf(s)
<1>1. j \in SingleJobs
  BY ScheduledJob
<1>2. QED
  BY <1>1, SingleFacts DEF ScheduleSingleRun, EndOf

(* Removing jobs by tag leaves the fired ones fit.                         *)
LEMMA RemovedFit ==
  ASSUME TypeOK, FiredFit, NEW tags, RemoveByTag(tags), now' = now,
         single' = single \/ single = NoJob \/ "single" \in tags
  PROVE  FiredFit'
<1>0. /\ queue \subseteq Fired /\ run \in RunTypes
      /\ run # NoRun => run.job \in Fired
  BY JobInvTypes
<1>1. ASSUME NEW j \in Fired, NEW k, Fits(j, now, single), IsDisowned(k, j, tags)
      PROVE  Fits(k, now', single') /\ (Own(k) => Own(j))
  <2>1. CASE k.own /\ k.tag = "single"
    <3>1. j.own /\ j.tag = "single" /\ "single" \notin tags
      BY <1>1, <2>1 DEF IsDisowned
    <3>2. single # NoJob /\ single' = single
      BY <3>1, <1>1 DEF Fits
    <3>3. QED
      BY <1>1, <3>1, <3>2 DEF IsDisowned, Fits, Own, EndOf
  <2>2. CASE ~(k.own /\ k.tag = "single")
    BY <1>1, <2>2 DEF IsDisowned, Fits, Own, EndOf
  <2>3. QED
    BY <2>1, <2>2
<1>2. /\ \A k \in queue' : \E j \in queue : IsDisowned(k, j, tags)
      /\ run = NoRun => run' = NoRun
      /\ run # NoRun => IsDisowned(run'.job, run.job, tags)
  BY <1>0, Removed
<1>3. \A k \in queue' : Fits(k, now', single')
  BY <1>0, <1>1, <1>2 DEF FiredFit
<1>4. run' # NoRun => Fits(run'.job, now', single') /\ (Own(run'.job) => Own(run.job))
  BY <1>0, <1>1, <1>2 DEF FiredFit
<1>5. run' # NoRun /\ Own(run'.job) => \A k \in queue' : ~Own(k)
  BY <1>0, <1>1, <1>2, <1>4 DEF FiredFit
<1>6. QED
  BY <1>3, <1>4, <1>5 DEF FiredFit, Fits, Own

(* A job that returns leaves no other of gocron's own.                     *)
LEMMA ReturnsFit ==
  ASSUME TypeOK, SingleFits, \A k \in queue : Fits(k, now, single), NEW j, Returns(j), now' = now,
         queue' \subseteq queue, Own(j) => \A k \in queue' : ~Own(k)
  PROVE  SingleFits' /\ FiredFit'
<1>0. single \in SingleJobs \cup {NoJob}
  BY JobInvTypes
<1>1. run' = NoRun
  BY DEF Returns
<1>2. single' = single \/ (single # NoJob /\ single' = [single EXCEPT !.runs = "done"] /\ Own(j))
  BY DEF Returns, Own
<1>3. SingleFits'
  <2>1. CASE single' = single
    BY <2>1 DEF SingleFits, EndOf
  <2>2. CASE single # NoJob /\ single' = [single EXCEPT !.runs = "done"]
    BY <1>0, <2>2 DEF SingleFits, SingleJobs, EndOf
  <2>3. QED
    BY <1>2, <2>1, <2>2
<1>4. \A k \in queue' : Fits(k, now', single')
  <2>1. CASE single' = single
    BY <2>1 DEF Fits, EndOf
  <2>2. CASE Own(j)
    BY <2>2 DEF Fits, EndOf, Own
  <2>3. QED
    BY <1>2, <2>1, <2>2
<1>5. QED
  BY <1>1, <1>3, <1>4 DEF FiredFit

(* A job that is left alone fits as before.                                *)
LEMMA SingleStays ==
  ASSUME SingleFits, single' = single
  PROVE  SingleFits'
BY DEF SingleFits, EndOf

(* Every step leaves the scheduler's job and the fired ones fit.           *)
LEMMA JobStep ==
  ASSUME JobInv, [Next]_vars
  PROVE  SingleFits' /\ FiredFit'
<1>0. /\ TypeOK /\ SingleFits /\ FiredFit /\ \A job \in queue : Fits(job, now, single)
      /\ single \in SingleJobs \cup {NoJob} /\ queue \subseteq Fired /\ now \in Nat
      /\ run # NoRun => run.job \in Fired
  BY JobInvTypes DEF JobInv, FiredFit
<1>1. CASE HandleUpdateRes
  <2>1. now' = now /\ single' = SingleJob(asked.single)
    BY <1>1 DEF HandleUpdateRes
  <2>2. PICK tags : RemoveByTag(tags) /\ (asked.single = NoSchedule => "single" \in tags)
    BY <1>1 DEF HandleUpdateRes
  <2>3. CASE asked.single = NoSchedule
    BY <1>0, <2>1, <2>2, <2>3, RemovedFit, NoJobFacts DEF SingleJob, SingleFits
  <2>4. CASE asked.single # NoSchedule
    <3>1. asked.single \in Singles
      BY <1>0, <2>4, JobInvTypes DEF MaybeSingles
    <3>2. single' = single \/ (single = NoJob /\ single' = ScheduleSingleRun(asked.single))
      BY <2>1, <2>4 DEF SingleJob
    <3>3. SingleFits'
      <4>1. CASE single' = single
        BY <1>0, <4>1, SingleStays
      <4>2. CASE single' = ScheduleSingleRun(asked.single)
        BY <1>0, <3>1, <4>2, ScheduledFits DEF SingleFits
      <4>3. QED
        BY <3>2, <4>1, <4>2
    <3>4. QED
      BY <1>0, <2>1, <2>2, <3>2, <3>3, RemovedFit
  <2>5. QED
    BY <2>3, <2>4
<1>2. CASE FireSingle
  <2>1. /\ single \in SingleJobs /\ single.runs = "pending" /\ single.start <= now
        /\ single' = [single EXCEPT !.runs = "fired"] /\ run' = run /\ now' = now
        /\ queue' = queue \cup {[tag |-> "single", schedule |-> single.schedule,
                                 end |-> single.end, own |-> TRUE]}
    BY <1>0, <1>2 DEF FireSingle, SingleDue
  <2>2. single' # NoJob /\ single'.runs = "fired" /\ single'.schedule = single.schedule
        /\ single'.start = single.start /\ single'.end = single.end /\ single' \in SingleJobs
    BY <2>1, SingleJobFacts DEF SingleJobs, Runs
  <2>3. \A j \in queue : ~Own(j)
    BY <1>0, <2>1 DEF Own, Fits
  <2>4. run # NoRun => ~Own(run.job)
    BY <1>0, <2>1 DEF Own, Fits, FiredFit
  <2>5. SingleFits'
    BY <1>0, <2>1, <2>2, SingleJobFacts DEF SingleFits, EndOf
  <2>6. single.schedule.start <= now /\ single.end = EndOf(single.schedule)
    <3>1. single.schedule.start \in Nat /\ single.start \in Nat
      BY <2>1, SingleJobFacts, SingleFacts
    <3>2. QED
      BY <1>0, <2>1, <3>1, SingleJobFacts DEF SingleFits
  <2>7. \A j \in queue' : Fits(j, now', single')
    <3>1. \A j \in queue : Fits(j, now', single')
      BY <1>0, <2>1, <2>3 DEF Fits, Own
    <3>2. Fits([tag |-> "single", schedule |-> single.schedule, end |-> single.end,
                own |-> TRUE], now', single')
      BY <2>1, <2>2, <2>6 DEF Fits
    <3>3. QED
      BY <2>1, <3>1, <3>2
  <2>8. run' # NoRun => Fits(run'.job, now', single') /\ ~Own(run'.job)
    BY <1>0, <2>1, <2>4 DEF FiredFit, Fits, Own
  <2>9. QED
    BY <2>5, <2>7, <2>8 DEF FiredFit
<1>3. CASE FireRepeated
  <2>1. /\ single' = single /\ run' = run /\ now' = now
        /\ \A j \in queue' : j \in queue \/ j.tag = "repeated"
    BY <1>3 DEF FireRepeated
  <2>2. QED
    BY <1>0, <2>1, SingleStays DEF FiredFit, Fits, Own
<1>4. CASE Expire
  <2>1. single' = NoJob /\ RemoveByTag({"single"}) /\ now' = now
    BY <1>4 DEF Expire
  <2>2. QED
    BY <1>0, <2>1, RemovedFit DEF SingleFits
<1>5. CASE Begin
  <2>1. PICK j \in queue :
          /\ queue' = queue \ {j}
          /\ \/ /\ run' = [job |-> [j EXCEPT !.end = IF j.tag = "single" THEN j.end
                                                     ELSE now + j.schedule.duration],
                           phase |-> "lock"]
                /\ UNCHANGED single
             \/ Returns(j)
    BY <1>5 DEF Begin
  <2>2. now' = now /\ j \in Fired /\ (Own(j) => \A k \in queue' : ~Own(k))
    BY <1>0, <1>5, <2>1, OwnIsOne DEF Begin
  <2>3. CASE Returns(j)
    BY <1>0, <2>1, <2>2, <2>3, ReturnsFit
  <2>4. CASE /\ run' = [job |-> [j EXCEPT !.end = IF j.tag = "single" THEN j.end
                                                  ELSE now + j.schedule.duration],
                        phase |-> "lock"]
             /\ UNCHANGED single
    <3>1. /\ run'.job.tag = j.tag /\ run'.job.schedule = j.schedule /\ run'.job.own = j.own
          /\ j.tag = "single" => run'.job.end = j.end
      BY <2>2, <2>4 DEF Fired
    <3>2. Fits(run'.job, now', single')
      BY <1>0, <2>1, <2>2, <2>4, <3>1 DEF Fits
    <3>3. Own(run'.job) => Own(j)
      BY <3>1 DEF Own
    <3>4. \A k \in queue' : Fits(k, now', single')
      BY <1>0, <2>1, <2>2, <2>4
    <3>5. SingleFits'
      BY <1>0, <2>4, SingleStays
    <3>6. QED
      BY <2>2, <3>2, <3>3, <3>4, <3>5 DEF FiredFit
  <2>5. QED
    BY <2>1, <2>3, <2>4
<1>6. CASE TriggerUpdate \/ EndUpdate
  <2>1. now' = now /\ queue' = queue /\ run # NoRun
    BY <1>6 DEF TriggerUpdate, EndUpdate, TriggerDue
  <2>2. CASE StartUpdate
    <3>1. run' = [run EXCEPT !.phase = "update"] /\ single' = single
      BY <2>2 DEF StartUpdate
    <3>2. run'.job = run.job
      BY <1>0, <2>1, <3>1, JobInvTypes DEF RunTypes
    <3>3. QED
      BY <1>0, <2>1, <3>1, <3>2, SingleStays DEF FiredFit, Fits, Own
  <2>3. CASE Returns(run.job)
    <3>1. Own(run.job) => \A k \in queue' : ~Own(k)
      BY <1>0, <2>1 DEF FiredFit
    <3>2. QED
      BY <1>0, <2>1, <2>3, <3>1, ReturnsFit
  <2>4. QED
    BY <1>6, <2>2, <2>3 DEF TriggerUpdate, EndUpdate
<1>7. CASE Down
  BY <1>7 DEF Down, SingleFits, FiredFit
<1>8. CASE Tick
  <2>1. now' = now + 1 /\ UNCHANGED <<single, queue, run>>
    BY <1>8, Zenon DEF Tick, jobVars, runVars
  <2>2. \A j \in Fired : j.tag = "single" => j.schedule.start \in Nat
    BY FiredFacts, SingleFacts
  <2>3. \A j \in Fired : Fits(j, now, single) => Fits(j, now', single')
    BY <1>0, <2>1, <2>2 DEF Fits
  <2>4. QED
    BY <1>0, <2>1, <2>3, SingleStays DEF FiredFit, Own
<1>9. CASE Main \/ Download \/ Change \/ UNCHANGED vars
  <2>1. UNCHANGED <<single, queue, run, now>>
    BY <1>9, Zenon DEF Main, Download, Change, vars, jobVars, runVars
  <2>2. QED
    BY <1>0, <2>1, SingleStays DEF FiredFit, Fits, Own
<1>10. QED
  BY <1>1, <1>2, <1>3, <1>4, <1>5, <1>6, <1>7, <1>8, <1>9 DEF Next

(* A process that is down has no jobs and has heard nothing.               *)
LEMMA DownStep ==
  ASSUME JobInv, [Next]_vars
  PROVE  DownInv'
<1>0. DownInv
  BY DEF JobInv
<1>1. CASE Down
  BY <1>1 DEF Down, DownInv
<1>2. CASE up' # FALSE
  BY <1>2, TypeStep DEF JobInv, TypeOK, DownInv
<1>3. CASE ~up' /\ ~Down
  <2>1. ~up
    BY <1>3, Zenon DEF Next, HandleUpdateRes, FireSingle, FireRepeated, Expire, Begin,
                       TriggerUpdate, EndUpdate, Main, Download, Change, Tick, vars
  <2>2. single = NoJob /\ crons = {} /\ queue = {} /\ run = NoRun /\ heard = NoResponse
        /\ ~strayed /\ accepted = NoSchedule
    BY <1>0, <2>1 DEF DownInv
  <2>3. Change \/ Tick \/ UNCHANGED vars
    BY <1>3, <2>1, <2>2 DEF Next, HandleUpdateRes, FireSingle, SingleDue, FireRepeated, Expire,
                            ExpiryDue, Begin, TriggerUpdate, TriggerDue, EndUpdate, Main, Download
  <2>4. UNCHANGED <<single, crons, queue, run, heard, strayed>>
    BY <2>3, Zenon DEF Change, Tick, vars, jobVars, runVars, ghostVars
  <2>5. accepted' = NoSchedule
    BY <2>2, <2>3, Zenon DEF Change, Tick, vars, ghostVars
  <2>6. QED
    BY <2>2, <2>4, <2>5 DEF DownInv
<1>4. QED
  BY <1>1, <1>2, <1>3

(* The first states have no jobs.                                          *)
LEMMA InitJobs == Init => JobInv
BY InitTypes DEF Init, JobInv, DownInv, SingleFits, FiredFit

(* Every step keeps the whole.                                             *)
LEMMA JobInvStep == JobInv /\ [Next]_vars => JobInv'
BY TypeStep, JobStep, DownStep DEF JobInv

(* So it always holds.                                                     *)
LEMMA JobInvAlways == Spec => []JobInv
<1>1. QED
  BY InitJobs, JobInvStep, PTL DEF Spec

(* Only TriggerUpdate starts an update, and it looks at the clock.         *)
LEMMA StartsInTime ==
  ASSUME JobInv, [Next]_vars, Starting
  PROVE  TriggerUpdate /\ now < run.job.end
<1>0. run \in [job : Fired, phase : Phases] /\ run.phase = "lock" /\ run' # NoRun
      /\ run'.phase = "update"
  BY JobInvTypes DEF JobInv, Starting, RunTypes
<1>1. run' # run
  BY <1>0
<1>2. ~(\E j : Returns(j))
  BY <1>0 DEF Returns
<1>3. ~(\E tags : RemoveByTag(tags))
  <2>1. ASSUME NEW tags, RemoveByTag(tags) PROVE FALSE
    BY <1>0, <2>1, JobInvTypes, Removed DEF JobInv, Starting
  <2>2. QED
    BY <2>1
<1>4. ~Begin /\ ~EndUpdate /\ ~Down
  BY <1>0, <1>2 DEF Begin, EndUpdate, Down, Starting
<1>5. ~HandleUpdateRes /\ ~Expire
  BY <1>3 DEF HandleUpdateRes, Expire
<1>6. ~FireSingle /\ ~FireRepeated /\ ~Main /\ ~Download /\ ~Change /\ ~Tick /\ ~UNCHANGED vars
  BY <1>1, Zenon DEF FireSingle, FireRepeated, Main, Download, Change, Tick, runVars, vars
<1>7. TriggerUpdate
  BY <1>4, <1>5, <1>6 DEF Next
<1>8. QED
  BY <1>2, <1>7 DEF TriggerUpdate

(* The update of a single schedule starts inside that schedule's window,   *)
(* however long its job has waited, for any schedules and any number of    *)
(* restarts (triggerUpdate, scheduler.go:102-118).                         *)
THEOREM SingleStartsInWindow == Spec => SingleInWindow
<1>1. ASSUME JobInv, [Next]_vars, Starting, run.job.tag = "single"
      PROVE  run.job.schedule.start <= now /\ now < run.job.schedule.end
  <2>1. /\ run \in RunTypes /\ run.job \in Fired /\ run.job.schedule \in Singles /\ now \in Nat
        /\ run.job.end = EndOf(run.job.schedule) /\ run.job.schedule.start <= now
    BY <1>1, JobInvTypes, FiredFacts DEF JobInv, FiredFit, Fits, Starting
  <2>2. now < run.job.end
    BY <1>1, <2>1, StartsInTime
  <2>3. QED
    BY <2>1, <2>2, SingleFacts DEF EndOf
<1>2. JobInv /\ [Next]_vars =>
        [Starting /\ run.job.tag = "single" =>
             run.job.schedule.start <= now /\ now < run.job.schedule.end]_vars
  BY <1>1
<1>3. QED
  BY <1>2, JobInvAlways, PTL DEF Spec, SingleInWindow

-----------------------------------------------------------------------------
(***************************************************************************)
(* The jobs of repeated schedules                                          *)
(***************************************************************************)
(* Unless a list other than meta's was scheduled last, the jobs are those  *)
(* of meta's list.                                                         *)
CronsAreMetas == crons # {} /\ ~strayed => {c.schedule : c \in crons} = Valid(meta.repeated)
CronInv == JobInv /\ CronsAreMetas /\ CronsAreAsked

(* HandleRepeatedSchedule compares lengths and looks for each new schedule *)
(* among the old ones: together that is equality.                          *)
LEMMA UnchangedIsEqual ==
  ASSUME TypeOK, Unchanged(asked.repeated)
  PROVE  asked.repeated = meta.repeated
<1>1. asked.repeated \in Lists \cup {{}} /\ meta.repeated \in Lists \cup {{}}
  BY TypeParts, ResponseFacts DEF OtherTypes, FileTypes, Meta
<1>2. IsFiniteSet(meta.repeated)
  BY <1>1, SchedulesAssumption, FS_EmptySet
<1>3. asked.repeated \in SUBSET meta.repeated
      /\ Cardinality(asked.repeated) = Cardinality(meta.repeated)
  BY DEF Unchanged
<1>4. QED
  BY <1>2, <1>3, FS_Subset

(* The schedules of the jobs made for a list.                              *)
LEMMA NewJobsSchedules ==
  ASSUME NEW list
  PROVE  {c.schedule : c \in NewJobs(list)} = Valid(list)
<1>1. ASSUME NEW c \in NewJobs(list) PROVE c.schedule \in Valid(list)
  BY DEF NewJobs
<1>2. ASSUME NEW s \in Valid(list) PROVE \E c \in NewJobs(list) : c.schedule = s
  <2>1. [schedule |-> s, next |-> NextTime(s)] \in NewJobs(list)
    BY DEF NewJobs
  <2>2. QED
    BY <2>1
<1>3. QED
  BY <1>1, <1>2

(* Every step keeps both.                                                  *)
LEMMA CronStep ==
  ASSUME CronInv, [Next]_vars
  PROVE  (CronsAreMetas /\ CronsAreAsked)'
<1>0. JobInv /\ TypeOK /\ DownInv /\ CronsAreMetas /\ CronsAreAsked
  BY DEF CronInv, JobInv
<1>1. CASE HandleUpdateRes
  <2>1. heard' = asked /\ meta' = meta
    BY <1>1 DEF HandleUpdateRes
  <2>2. CASE Unchanged(asked.repeated)
    <3>1. asked.repeated = meta.repeated
      BY <1>0, <2>2, UnchangedIsEqual
    <3>2. crons' = crons /\ strayed' = strayed /\ crons # {}
      BY <1>1, <2>2 DEF HandleUpdateRes, Unchanged
    <3>3. strayed' \in BOOLEAN
      BY <1>0, TypeStep DEF TypeOK
    <3>4. QED
      BY <1>0, <2>1, <3>1, <3>2, <3>3 DEF CronsAreMetas, CronsAreAsked, Valid
  <2>3. CASE ~Unchanged(asked.repeated)
    <3>1. crons' = NewJobs(asked.repeated) /\ strayed' = (asked.repeated # meta.repeated)
      BY <1>1, <2>3 DEF HandleUpdateRes
    <3>2. {c.schedule : c \in crons'} = Valid(asked.repeated)
      BY <3>1, NewJobsSchedules
    <3>3. QED
      BY <2>1, <3>1, <3>2 DEF CronsAreMetas, CronsAreAsked, Valid
  <2>4. QED
    BY <2>2, <2>3
<1>2. CASE FireRepeated
  <2>1. PICK c \in crons :
          crons' = (crons \ {c}) \cup {[c EXCEPT !.next = NextTime(c.schedule)]}
    BY <1>2 DEF FireRepeated
  <2>2. [c EXCEPT !.next = NextTime(c.schedule)].schedule = c.schedule
    BY <1>0, <2>1, JobInvTypes DEF CronJobs
  <2>3. {d.schedule : d \in crons'} = {d.schedule : d \in crons}
    BY <2>1, <2>2
  <2>4. crons # {} /\ UNCHANGED <<meta, heard, strayed>>
    BY <1>2, <2>1, Zenon DEF FireRepeated, ghostVars
  <2>5. QED
    BY <1>0, <2>3, <2>4 DEF CronsAreMetas, CronsAreAsked, Valid
<1>3. CASE Down
  BY <1>3 DEF Down, CronsAreMetas, CronsAreAsked
<1>4. CASE Main
  <2>1. crons = {} /\ heard = NoResponse
    BY <1>0, <1>4 DEF Main, DownInv
  <2>2. crons' = crons /\ heard' = heard
    BY <1>4 DEF Main, jobVars
  <2>3. QED
    BY <2>1, <2>2 DEF CronsAreMetas, CronsAreAsked
<1>5. CASE FireSingle \/ Expire \/ Begin \/ TriggerUpdate \/ EndUpdate \/ Download \/ Change \/ Tick
           \/ UNCHANGED vars
  <2>1. UNCHANGED <<crons, meta, heard, strayed>>
    BY <1>5, Zenon DEF FireSingle, Expire, Begin, TriggerUpdate, EndUpdate, Download, Change,
                       Tick, vars, jobVars, ghostVars
  <2>2. QED
    BY <1>0, <2>1 DEF CronsAreMetas, CronsAreAsked, Valid
<1>6. QED
  BY <1>1, <1>2, <1>3, <1>4, <1>5 DEF Next

(* So they always hold.                                                    *)
LEMMA CronInvAlways == Spec => []CronInv
<1>1. Init => CronInv
  BY InitJobs DEF Init, CronInv, CronsAreMetas, CronsAreAsked
<1>2. CronInv /\ [Next]_vars => CronInv'
  BY CronStep, JobInvStep DEF CronInv
<1>3. QED
  BY <1>1, <1>2, PTL DEF Spec

(* The jobs of repeated schedules are those of the response handled last,  *)
(* for any lists and any number of changes and restarts, except that a     *)
(* list equal to meta's leaves those of another list in place              *)
(* (HandleRepeatedSchedule, scheduler.go:175-191).                         *)
THEOREM CronsAreAlwaysAsked == Spec => []CronsAreAsked
<1>1. CronInv => CronsAreAsked
  BY DEF CronInv
<1>2. QED
  BY <1>1, CronInvAlways, PTL

-----------------------------------------------------------------------------
(***************************************************************************)
(* A schedule that is recorded as done                                     *)
(***************************************************************************)
(* While the window of such a schedule is open, and it is no longer than a *)
(* day: its job, if there is one, has returned; and if MM asks for it, the *)
(* file has the record, and either meta has it, too, or the job is there   *)
(* to keep HandleSingleSchedule from making another.                       *)
SettledInv ==
    settled # NoSchedule /\ now < settled.end /\ settled.end <= settled.start + Day =>
        /\ single # NoJob /\ single.schedule = settled => single.runs = "done"
        /\ asked.single = settled =>
             /\ file.single = settled /\ file.finished
             /\ up => ~Unrecorded(settled) \/ (single # NoJob /\ single.schedule = settled)

(* Steps that leave the record alone: a job may return.                    *)
LEMMA SettledQuiet ==
  ASSUME TypeOK, SettledInv, UNCHANGED <<settled, asked, file, meta, up>>,
         now' \in Nat, now <= now',
         single' = single \/ (single # NoJob /\ single' = [single EXCEPT !.runs = "done"])
  PROVE  SettledInv'
<1>0. now \in Nat /\ single \in SingleJobs \cup {NoJob} /\ settled \in MaybeSingles
  BY JobInvTypes, TypeParts DEF OtherTypes
<1>1. CASE ~(settled # NoSchedule /\ now' < settled.end /\ settled.end <= settled.start + Day)
  BY <1>1 DEF SettledInv
<1>2. CASE settled # NoSchedule /\ now' < settled.end /\ settled.end <= settled.start + Day
  <2>1. settled \in Singles /\ settled.end \in Nat
    BY <1>0, <1>2, SingleFacts DEF MaybeSingles
  <2>2. now < settled.end
    BY <1>0, <1>2, <2>1
  <2>3. CASE single' = single
    BY <1>2, <2>2, <2>3 DEF SettledInv, Unrecorded
  <2>4. CASE single # NoJob /\ single' = [single EXCEPT !.runs = "done"]
    <3>1. single' # NoJob /\ single'.schedule = single.schedule /\ single'.runs = "done"
      BY <1>0, <2>4, SingleJobFacts DEF SingleJobs, Runs
    <3>2. QED
      BY <1>2, <2>2, <2>4, <3>1 DEF SettledInv, Unrecorded
  <2>5. QED
    BY <2>3, <2>4
<1>3. QED
  BY <1>1, <1>2

(* HandleSingleSchedule finds a schedule that is done.                     *)
LEMMA SettledHandled ==
  ASSUME JobInv, SettledInv, HandleUpdateRes
  PROVE  SettledInv'
<1>0. /\ TypeOK /\ now \in Nat /\ single \in SingleJobs \cup {NoJob}
      /\ settled \in MaybeSingles /\ asked.single \in MaybeSingles
      /\ meta.finished \in BOOLEAN
  BY JobInvTypes, TypeParts DEF OtherTypes, FileTypes, Meta, JobInv
<1>1. /\ up /\ up' = up /\ now' = now /\ asked' = asked /\ meta' = meta
      /\ single' = SingleJob(asked.single)
      /\ SetMetaSchedules(asked, SingleFinished(asked.single))
      /\ settled' = IF single # NoJob /\ single.runs = "done" /\ single.schedule = asked.single
                    THEN asked.single ELSE settled
  BY Zenon DEF HandleUpdateRes, mmVars
<1>2. CASE single # NoJob /\ single.runs = "done" /\ single.schedule = asked.single
  <2>1. settled' = asked.single /\ asked.single \in Singles /\ asked.single # NoSchedule
    BY <1>0, <1>1, <1>2, SingleJobFacts, SingleFacts
  <2>2. single' = single
    BY <1>1, <1>2, <2>1 DEF SingleJob
  <2>3. SingleFinished(asked.single) = TRUE
    BY <1>0, <1>2, <2>1 DEF SingleFinished, Unrecorded
  <2>4. file'.single = asked.single /\ file'.finished = TRUE
    BY <1>1, <2>1, <2>3 DEF SetMetaSchedules
  <2>5. QED
    BY <1>1, <1>2, <2>1, <2>2, <2>4 DEF SettledInv
<1>3. CASE ~(single # NoJob /\ single.runs = "done" /\ single.schedule = asked.single)
  <2>1. settled' = settled
    BY <1>1, <1>3
  <2>2. CASE ~(settled # NoSchedule /\ now < settled.end /\ settled.end <= settled.start + Day)
    BY <1>1, <2>1, <2>2 DEF SettledInv
  <2>3. CASE settled # NoSchedule /\ now < settled.end /\ settled.end <= settled.start + Day
    <3>1. /\ single # NoJob /\ single.schedule = settled => single.runs = "done"
          /\ asked.single = settled =>
               ~Unrecorded(settled) \/ (single # NoJob /\ single.schedule = settled)
      BY <1>1, <2>3 DEF SettledInv
    <3>2. CASE asked.single = settled
      <4>1. ~Unrecorded(settled)
        BY <1>3, <3>1, <3>2
      <4>2. single' = single /\ settled = meta.single /\ meta.finished
        BY <1>1, <2>3, <3>2, <4>1 DEF SingleJob, Unrecorded
      <4>3. SingleFinished(settled) = TRUE
        BY <1>0, <2>3, <4>1, <4>2 DEF SingleFinished
      <4>4. file'.single = settled /\ file'.finished = TRUE
        BY <1>1, <2>3, <3>2, <4>3 DEF SetMetaSchedules
      <4>5. QED
        BY <1>1, <2>1, <3>1, <3>2, <4>2, <4>4 DEF SettledInv, Unrecorded
    <3>3. CASE asked.single # settled
      <4>1. single' # NoJob /\ single'.schedule = settled => single' = single
        <5>1. CASE asked.single = NoSchedule
          BY <1>1, <5>1 DEF SingleJob
        <5>2. CASE asked.single # NoSchedule
          <6>1. asked.single \in Singles
            BY <1>0, <5>2 DEF MaybeSingles
          <6>2. single' = single \/ single' = ScheduleSingleRun(asked.single)
            BY <1>1, <5>2 DEF SingleJob
          <6>3. QED
            BY <1>0, <3>3, <6>1, <6>2, ScheduledFits
        <5>3. QED
          BY <5>1, <5>2
      <4>2. QED
        BY <1>1, <2>1, <3>1, <3>3, <4>1 DEF SettledInv
    <3>4. QED
      BY <3>2, <3>3
  <2>4. QED
    BY <2>2, <2>3
<1>4. QED
  BY <1>2, <1>3

(* Every step keeps the record.                                            *)
LEMMA SettledStep ==
  ASSUME JobInv, SettledInv, [Next]_vars
  PROVE  SettledInv'
<1>0. /\ TypeOK /\ now \in Nat /\ single \in SingleJobs \cup {NoJob}
      /\ settled \in MaybeSingles /\ file.finished \in BOOLEAN /\ file \in Meta
      /\ single # NoJob => single.schedule.start <= single.start
      /\ ~up => single = NoJob
  BY JobInvTypes, TypeParts DEF OtherTypes, FileTypes, Meta, JobInv, SingleFits, DownInv
<1>1. CASE HandleUpdateRes
  BY <1>1, SettledHandled
<1>2. CASE FireSingle
  <2>1. /\ single # NoJob /\ single.runs = "pending"
        /\ single' = [single EXCEPT !.runs = "fired"]
        /\ UNCHANGED <<settled, asked, file, meta, up, now>>
    BY <1>2, Zenon DEF FireSingle, SingleDue, mmVars, ghostVars
  <2>2. single' # NoJob /\ single'.schedule = single.schedule
    BY <1>0, <2>1, SingleJobFacts DEF SingleJobs, Runs
  <2>3. QED
    BY <2>1, <2>2 DEF SettledInv, Unrecorded
<1>3. CASE Expire
  <2>1. /\ single # NoJob /\ single.start + Day <= now /\ single' = NoJob
        /\ UNCHANGED <<settled, asked, file, meta, up, now>>
    BY <1>3, Zenon DEF Expire, ExpiryDue, mmVars, ghostVars
  <2>2. CASE settled # NoSchedule /\ now < settled.end /\ settled.end <= settled.start + Day
    <3>1. settled \in Singles /\ settled.start \in Nat /\ settled.end \in Nat
      BY <1>0, <2>2, SingleFacts DEF MaybeSingles
    <3>2. single.start \in Nat
      BY <1>0, <2>1, SingleJobFacts
    <3>3. single.schedule # settled
      BY <1>0, <2>1, <2>2, <3>1, <3>2, Bounds
    <3>4. QED
      BY <2>1, <2>2, <3>3 DEF SettledInv, Unrecorded
  <2>3. CASE ~(settled # NoSchedule /\ now < settled.end /\ settled.end <= settled.start + Day)
    BY <2>1, <2>3 DEF SettledInv
  <2>4. QED
    BY <2>2, <2>3
<1>4. CASE Begin \/ TriggerUpdate \/ EndUpdate
  <2>1. UNCHANGED <<settled, asked, file, meta, up, now>>
    BY <1>4, Zenon DEF Begin, TriggerUpdate, EndUpdate, mmVars, ghostVars
  <2>2. single' = single \/ \E job : Returns(job)
    BY <1>4 DEF Begin, TriggerUpdate, EndUpdate, StartUpdate
  <2>3. single' = single \/ (single # NoJob /\ single' = [single EXCEPT !.runs = "done"])
    BY <2>2 DEF Returns
  <2>4. QED
    BY <1>0, <2>1, <2>3, SettledQuiet
<1>5. CASE Down
  <2>1. up' = FALSE /\ single' = NoJob /\ UNCHANGED <<settled, asked, file, meta, now>>
    BY <1>5, Zenon DEF Down, mmVars
  <2>2. QED
    BY <2>1 DEF SettledInv
<1>6. CASE Main
  <2>1. /\ single = NoJob /\ single' = NoJob /\ meta' = file' /\ now' = now /\ asked' = asked
        /\ file' = [file EXCEPT !.finished = @ \/ (Verifies /\ InsideSingleScheduleWindow)]
        /\ settled' = IF Verifies /\ InsideSingleScheduleWindow THEN file.single ELSE settled
    BY <1>0, <1>6, Zenon DEF Main, mmVars, jobVars
  <2>2. /\ file'.single = file.single
        /\ file'.finished = (file.finished \/ (Verifies /\ InsideSingleScheduleWindow))
    BY <1>0, <2>1 DEF Meta
  <2>3. CASE Verifies /\ InsideSingleScheduleWindow
    <3>1. settled' = file.single /\ file'.finished
      BY <2>1, <2>2, <2>3
    <3>2. QED
      BY <2>1, <2>2, <3>1 DEF SettledInv, Unrecorded
  <2>4. CASE ~(Verifies /\ InsideSingleScheduleWindow)
    <3>1. settled' = settled /\ (file'.finished <=> file.finished)
      BY <2>1, <2>2, <2>4
    <3>2. QED
      BY <2>1, <2>2, <3>1 DEF SettledInv, Unrecorded
  <2>5. QED
    BY <2>3, <2>4
<1>7. CASE Change
  BY <1>7 DEF Change, SettledInv
<1>8. CASE Tick
  <2>1. now' = now + 1 /\ UNCHANGED <<settled, asked, file, meta, up, single>>
    BY <1>8, Zenon DEF Tick, mmVars, jobVars
  <2>2. QED
    BY <1>0, <2>1, SettledQuiet
<1>9. CASE FireRepeated \/ Download \/ UNCHANGED vars
  <2>1. UNCHANGED <<settled, asked, file, meta, up, single, now>>
    BY <1>9, Zenon DEF FireRepeated, Download, vars, mmVars, jobVars, ghostVars
  <2>2. QED
    BY <1>0, <2>1, SettledQuiet
<1>10. QED
  BY <1>1, <1>2, <1>3, <1>4, <1>5, <1>6, <1>7, <1>8, <1>9 DEF Next

(* So it always holds.                                                     *)
LEMMA SettledInvAlways == Spec => [](JobInv /\ SettledInv)
<1>1. Init => JobInv /\ SettledInv
  BY InitJobs DEF Init, SettledInv
<1>2. JobInv /\ SettledInv /\ [Next]_vars => (JobInv /\ SettledInv)'
  BY SettledStep, JobInvStep
<1>3. QED
  BY <1>1, <1>2, PTL DEF Spec

(* "ensuring that the schedule only executes once"                         *)
(* (platform_update_agent.go:394), for any schedules and any number of     *)
(* restarts and of MM's changes: a single schedule recorded as done starts *)
(* no further update, unless its window is longer than a day and has       *)
(* outlived its job in the scheduler.                                      *)
THEOREM SingleRunsOnce == Spec => RunsOnce
<1>1. ASSUME JobInv, SettledInv, [Next]_vars, Starting, run.job.tag = "single", run.job.own,
             run.job.schedule = settled
      PROVE  settled.end > settled.start + Day
  <2>1. /\ run # NoRun /\ run.job \in Fired /\ now \in Nat
        /\ run.job.end = EndOf(settled) /\ settled.start <= now
        /\ single # NoJob /\ single.runs = "fired" /\ single.schedule = settled
    BY <1>1, JobInvTypes DEF JobInv, FiredFit, Fits, Starting
  <2>2. settled \in Singles /\ settled.start \in Nat /\ settled.end \in Nat
        /\ settled # NoSchedule
    BY <1>1, <2>1, FiredFacts, SingleFacts
  <2>3. now < settled.end
    BY <1>1, <2>1, <2>2, StartsInTime DEF EndOf
  <2>4. ~(settled.end <= settled.start + Day)
    BY <1>1, <2>1, <2>2, <2>3 DEF SettledInv
  <2>5. QED
    BY <2>2, <2>4, Bounds
<1>2. JobInv /\ SettledInv /\ [Next]_vars =>
        [Starting /\ run.job.tag = "single" /\ run.job.own /\ run.job.schedule = settled =>
             settled.end > settled.start + Day]_vars
  BY <1>1
<1>3. QED
  BY <1>2, SettledInvAlways, PTL DEF Spec, RunsOnce

-----------------------------------------------------------------------------
(***************************************************************************)
(* A schedule that can run                                                 *)
(***************************************************************************)
(* The job in the scheduler is that of the accepted schedule, its start is *)
(* inside the window, and this time is not after it: it fires at its start *)
(* and no time passes before it has had its turn.                          *)
AcceptedInv ==
    accepted # NoSchedule =>
        /\ asked.single = accepted /\ now < accepted.end
        /\ single # NoJob /\ single.schedule = accepted /\ single.start < accepted.end
        /\ \/ single.runs = "pending" /\ now <= single.start
           \/ single.runs = "fired" /\ now = single.start
        /\ run # NoRun /\ Own(run.job) => run.phase = "lock"

(* The job made for a schedule that is accepted.                           *)
LEMMA AcceptedJob ==
  ASSUME NEW s \in Singles, now \in Nat, s.end > now + Grace, s.end > s.start
  PROVE  LET job == ScheduleSingleRun(s)
         IN  /\ job # NoJob /\ job.schedule = s /\ job.runs = "pending"
             /\ now <= job.start /\ job.start < s.end /\ now < s.end
<1>1. s.start \in Nat /\ s.end \in Nat /\ s.end # 0 /\ now < s.end /\ s # NoSchedule
  BY SingleFacts, Bounds
<1> DEFINE start == IF s.end # 0 /\ s.start < now /\ s.end > now + Grace THEN now ELSE s.start
<1>2. now <= start /\ start < s.end /\ start \in Nat
  BY <1>1, Bounds
<1>3. ScheduleSingleRun(s) = [schedule |-> s, start |-> start, end |-> s.end, runs |-> "pending"]
  BY <1>1, <1>2 DEF ScheduleSingleRun
<1>4. ScheduleSingleRun(s) # NoJob
  BY <1>1, <1>3 DEF NoJob
<1>5. QED
  BY <1>1, <1>2, <1>3, <1>4

(* A response makes the job of a schedule, or leaves the one there is.     *)
LEMMA AcceptedHandled ==
  ASSUME JobInv, AcceptedInv, HandleUpdateRes
  PROVE  AcceptedInv'
<1>0. /\ TypeOK /\ now \in Nat /\ accepted \in MaybeSingles /\ asked.single \in MaybeSingles
      /\ queue \subseteq Fired /\ run \in RunTypes /\ FiredFit
      /\ run # NoRun => run.job \in Fired
  BY JobInvTypes, TypeParts DEF OtherTypes, JobInv
<1>1. /\ now' = now /\ asked' = asked /\ single' = SingleJob(asked.single)
      /\ accepted' = IF /\ Unrecorded(asked.single) /\ single = NoJob
                        /\ asked.single.end > now + Grace
                        /\ asked.single.end > asked.single.start
                     THEN asked.single ELSE accepted
  BY Zenon DEF HandleUpdateRes, mmVars
<1>2. PICK tags : RemoveByTag(tags)
  BY DEF HandleUpdateRes
<1>3. run' # NoRun => /\ run # NoRun /\ run'.phase = run.phase
                      /\ Own(run'.job) => Own(run.job)
  BY <1>0, <1>2, Removed DEF IsDisowned, Own
<1>4. CASE /\ Unrecorded(asked.single) /\ single = NoJob
           /\ asked.single.end > now + Grace
           /\ asked.single.end > asked.single.start
  <2>1. asked.single \in Singles /\ asked.single # NoSchedule
    BY <1>0, <1>4 DEF Unrecorded, MaybeSingles
  <2>2. accepted' = asked.single /\ single' = ScheduleSingleRun(asked.single)
    BY <1>1, <1>4, <2>1 DEF SingleJob
  <2>3. run' # NoRun => ~Own(run'.job)
    BY <1>0, <1>3, <1>4 DEF FiredFit, Fits, Own
  <2>4. QED
    BY <1>0, <1>1, <1>4, <2>1, <2>2, <2>3, AcceptedJob DEF AcceptedInv
<1>5. CASE ~(/\ Unrecorded(asked.single) /\ single = NoJob
             /\ asked.single.end > now + Grace
             /\ asked.single.end > asked.single.start)
  <2>1. accepted' = accepted
    BY <1>1, <1>5
  <2>2. CASE accepted # NoSchedule
    <3>1. single # NoJob /\ asked.single = accepted
      BY <2>2 DEF AcceptedInv
    <3>2. single' = single
      BY <1>1, <2>2, <3>1 DEF SingleJob
    <3>3. QED
      BY <1>1, <1>3, <2>1, <3>2 DEF AcceptedInv
  <2>3. CASE accepted = NoSchedule
    BY <2>1, <2>3 DEF AcceptedInv
  <2>4. QED
    BY <2>2, <2>3
<1>6. QED
  BY <1>4, <1>5

(* A job that returns is not that of the accepted schedule, or the         *)
(* schedule has had its turn.                                              *)
LEMMA AcceptedReturns ==
  ASSUME AcceptedInv, NEW j, Returns(j), UNCHANGED <<now, asked>>,
         accepted' \in {accepted, NoSchedule}, Own(j) => accepted' = NoSchedule
  PROVE  AcceptedInv'
<1>1. run' = NoRun /\ (~Own(j) => single' = single)
  BY DEF Returns, Own
<1>2. QED
  BY <1>1 DEF AcceptedInv

(* Every step keeps the accepted schedule on its way.                      *)
LEMMA AcceptedStep ==
  ASSUME JobInv, AcceptedInv, [Next]_vars
  PROVE  AcceptedInv'
<1>0. /\ TypeOK /\ FiredFit /\ now \in Nat /\ single \in SingleJobs \cup {NoJob}
      /\ accepted \in MaybeSingles /\ run \in RunTypes /\ queue \subseteq Fired
      /\ run # NoRun => run.job \in Fired
      /\ ~up => accepted = NoSchedule
  BY JobInvTypes, TypeParts DEF OtherTypes, JobInv, DownInv
<1>a. accepted # NoSchedule => /\ accepted \in Singles /\ accepted.end \in Nat
                               /\ single \in SingleJobs /\ single.start \in Nat
  BY <1>0, SingleFacts, SingleJobFacts DEF AcceptedInv, MaybeSingles
<1>b. ASSUME NEW j, Own(j), Fits(j, now, single), accepted # NoSchedule
      PROVE  j.schedule = accepted
  BY <1>b DEF Own, Fits, AcceptedInv
<1>1. CASE HandleUpdateRes
  BY <1>1, AcceptedHandled
<1>2. CASE FireSingle
  <2>1. /\ single # NoJob /\ single.runs = "pending" /\ single.start <= now
        /\ single' = [single EXCEPT !.runs = "fired"]
        /\ UNCHANGED <<accepted, asked, now, run>>
    BY <1>2, Zenon DEF FireSingle, SingleDue, mmVars, ghostVars
  <2>2. single' # NoJob /\ single'.schedule = single.schedule /\ single'.start = single.start
        /\ single'.runs = "fired"
    BY <1>0, <2>1, SingleJobFacts DEF SingleJobs, Runs
  <2>3. accepted # NoSchedule => now = single.start
    BY <1>0, <1>a, <2>1 DEF AcceptedInv
  <2>4. QED
    BY <2>1, <2>2, <2>3 DEF AcceptedInv
<1>3. CASE Expire
  <2>1. /\ single # NoJob /\ single.runs # "pending" /\ single.start + Day <= now
        /\ accepted' = accepted
    BY <1>3, Zenon DEF Expire, ExpiryDue, ghostVars
  <2>2. accepted = NoSchedule
    BY <1>0, <1>a, <2>1, Bounds DEF AcceptedInv
  <2>3. QED
    BY <2>1, <2>2 DEF AcceptedInv
<1>4. CASE Begin
  <2>1. PICK j \in queue :
          \/ /\ run' = [job |-> [j EXCEPT !.end = IF j.tag = "single" THEN j.end
                                                  ELSE now + j.schedule.duration],
                        phase |-> "lock"]
             /\ UNCHANGED <<single, accepted>>
          \/ Returns(j) /\ accepted' = Served(j)
    BY <1>4 DEF Begin
  <2>2. UNCHANGED <<now, asked>> /\ Fits(j, now, single)
    BY <1>0, <1>4 DEF Begin, mmVars, FiredFit
  <2>3. CASE Returns(j) /\ accepted' = Served(j)
    <3>1. accepted' \in {accepted, NoSchedule}
      BY <2>3 DEF Served
    <3>2. Own(j) => accepted' = NoSchedule
      BY <1>b, <2>2, <2>3 DEF Served
    <3>3. QED
      BY <2>2, <2>3, <3>1, <3>2, AcceptedReturns
  <2>4. CASE /\ run' = [job |-> [j EXCEPT !.end = IF j.tag = "single" THEN j.end
                                                  ELSE now + j.schedule.duration],
                        phase |-> "lock"]
             /\ UNCHANGED <<single, accepted>>
    <3>1. run'.phase = "lock"
      BY <2>4
    <3>2. QED
      BY <2>2, <2>4, <3>1 DEF AcceptedInv
  <2>5. QED
    BY <2>1, <2>3, <2>4
<1>5. CASE TriggerUpdate
  <2>1. run # NoRun /\ UNCHANGED <<now, asked>> /\ Fits(run.job, now, single)
    BY <1>0, <1>5 DEF TriggerUpdate, TriggerDue, mmVars, FiredFit
  <2>2. CASE StartUpdate
    <3>1. run' = [run EXCEPT !.phase = "update"] /\ single' = single /\ accepted' = Served(run.job)
      BY <2>2 DEF StartUpdate
    <3>2. run'.job = run.job
      BY <1>0, <2>1, <3>1 DEF RunTypes
    <3>3. accepted' # NoSchedule => accepted' = accepted /\ ~Own(run.job)
      BY <1>b, <2>1, <3>1 DEF Served
    <3>4. QED
      BY <2>1, <3>1, <3>2, <3>3 DEF AcceptedInv
  <2>3. CASE now >= run.job.end /\ Returns(run.job) /\ accepted' = accepted
    <3>1. Own(run.job) => accepted = NoSchedule
      <4>1. SUFFICES ASSUME Own(run.job), accepted # NoSchedule PROVE FALSE
        OBVIOUS
      <4>2. run.job.schedule = accepted /\ run.job.end = EndOf(accepted)
        BY <1>b, <2>1, <4>1 DEF Own, Fits
      <4>3. now < accepted.end
        BY <4>1 DEF AcceptedInv
      <4>4. QED
        BY <1>0, <1>a, <2>3, <4>1, <4>2, <4>3 DEF EndOf
    <3>2. QED
      BY <2>1, <2>3, <3>1, AcceptedReturns
  <2>4. QED
    BY <1>5, <2>2, <2>3 DEF TriggerUpdate
<1>6. CASE EndUpdate
  <2>1. /\ run # NoRun /\ run.phase = "update" /\ Returns(run.job)
        /\ UNCHANGED <<now, asked, accepted>>
    BY <1>6, Zenon DEF EndUpdate, mmVars, ghostVars
  <2>2. Own(run.job) => accepted = NoSchedule
    BY <2>1 DEF AcceptedInv
  <2>3. QED
    BY <2>1, <2>2, AcceptedReturns
<1>7. CASE Down \/ Change
  BY <1>7 DEF Down, Change, AcceptedInv
<1>8. CASE Main
  BY <1>0, <1>8 DEF Main, AcceptedInv
<1>9. CASE Tick
  <2>1. /\ now' = now + 1 /\ ~SingleDue /\ UNCHANGED <<asked, single, run>>
        /\ accepted' = IF single # NoJob /\ single.runs = "fired" THEN NoSchedule ELSE accepted
    BY <1>9, Zenon DEF Tick, mmVars, jobVars, runVars
  <2>2. CASE accepted' # NoSchedule
    <3>1. accepted' = accepted /\ single # NoJob /\ single.runs = "pending"
          /\ ~(single.start <= now)
      BY <2>1, <2>2 DEF AcceptedInv, SingleDue
    <3>2. now' <= single.start /\ now' < accepted.end
      BY <1>0, <1>a, <2>1, <2>2, <3>1 DEF AcceptedInv
    <3>3. QED
      BY <2>1, <2>2, <3>1, <3>2 DEF AcceptedInv
  <2>3. CASE accepted' = NoSchedule
    BY <2>3 DEF AcceptedInv
  <2>4. QED
    BY <2>2, <2>3
<1>10. CASE FireRepeated \/ Download \/ UNCHANGED vars
  <2>1. UNCHANGED <<asked, single, now, run, accepted>>
    BY <1>10, Zenon DEF FireRepeated, Download, vars, mmVars, jobVars, runVars, ghostVars
  <2>2. QED
    BY <2>1 DEF AcceptedInv
<1>11. QED
  BY <1>1, <1>2, <1>3, <1>4, <1>5, <1>6, <1>7, <1>8, <1>9, <1>10 DEF Next

(* A schedule heard while its window is open for more than Grace starts an *)
(* update before the window closes, for any schedules, unless the process  *)
(* ends or something keeps it waiting (scheduler.go:120-163).              *)
THEOREM AcceptedAlwaysRuns == Spec => []AcceptedRuns
<1>1. Init => JobInv /\ AcceptedInv
  BY InitJobs DEF Init, AcceptedInv
<1>2. JobInv /\ AcceptedInv /\ [Next]_vars => (JobInv /\ AcceptedInv)'
  BY AcceptedStep, JobInvStep
<1>3. AcceptedInv => AcceptedRuns
  BY DEF AcceptedInv, AcceptedRuns
<1>4. QED
  BY <1>1, <1>2, <1>3, PTL DEF Spec
=============================================================================
