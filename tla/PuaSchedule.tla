---------------------------- MODULE PuaSchedule ----------------------------
(***************************************************************************)
(* The scheduler of the Platform Update Agent: what becomes of the         *)
(* schedules the Maintenance Manager (MM) sends, in gocron's jobs, in      *)
(* metadata.json and in the copy of it main() reads once at its start.     *)
(*                                                                         *)
(* Time is counted in ticks.  A tick passes only when everything gocron    *)
(* has to do at this time is done; updates, downloads, restarts and the    *)
(* handling of MM's responses take any number of ticks.                    *)
(***************************************************************************)
EXTENDS Naturals, FiniteSets

CONSTANTS OsTypes,     \* "emt" or "ubuntu", or both
          Singles,     \* single schedules MM may send: records [start, end], end 0 for none
          Repeated,    \* repeated ones: records [times, duration, valid]
          Lists,       \* the lists of repeated schedules MM may send, as sets
          NoSchedule,  \* a nil single schedule
          Horizon,     \* bound: the last tick
          Grace,       \* scheduleSingleRun's ten minutes
          Day,         \* the ticks of a day
          MaxChanges,  \* bound: how often MM changes what it sends
          MaxRestarts  \* bound: restarts no update has ordered

ASSUME TimesAssumption ==
    {Horizon, Grace, Day, MaxChanges, MaxRestarts} \subseteq Nat /\ Day > 0
ASSUME SchedulesAssumption ==
    /\ Singles \subseteq [start : Nat, end : Nat] /\ NoSchedule \notin Singles
    /\ Repeated \subseteq [times : SUBSET Nat, duration : Nat, valid : BOOLEAN]
    /\ Lists \subseteq SUBSET Repeated /\ \A list \in Lists : IsFiniteSet(list)
    /\ OsTypes \subseteq {"emt", "ubuntu"}

VARIABLES
    osType, now,
    asked,       \* what MM answers: a single schedule or a list of repeated ones
    file,        \* metadata.json: the schedules and singleScheduleFinished
    meta,        \* main()'s copy of it, which the handler gets by value
    up,          \* main() has reached its loops
    single,      \* the job tagged SingleSchedule, or NoJob
    crons,       \* the jobs tagged RepeatedSchedule: [schedule, next]
    queue,       \* fired jobs that wait for their turn, in any order (WaitMode)
    run,         \* the one that is running, or NoRun
    downloading, \* the downloader holds the operation lock
    status, marked, rebooting,  \* the update's status, its OS mark, a reboot ordered
    changes, restarts,
    \* observation only: the response handled last since the start, whether a list other
    \* than meta's was scheduled, the schedule recorded as done, the schedule that can run
    heard, strayed, settled, accepted

mmVars    == <<asked, changes>>
jobVars   == <<single, crons>>
runVars   == <<queue, run>>
statVars  == <<status, marked, rebooting>>
ghostVars == <<heard, strayed, settled, accepted>>
vars == <<osType, now, mmVars, file, meta, up, jobVars, runVars, downloading, statVars,
          restarts, ghostVars>>

MaybeSingles == Singles \cup {NoSchedule}
Responses == [single : Singles, repeated : {{}}] \cup [single : {NoSchedule}, repeated : Lists]
NoResponse == [single |-> NoSchedule, repeated |-> {}]
Meta == [single : MaybeSingles, repeated : Lists \cup {{}}, finished : BOOLEAN]

NoJob == [schedule |-> NoSchedule, start |-> 0, end |-> 0, runs |-> "none"]
Never == Horizon + 1
Runs == {"pending", "fired", "done"}
SingleJobs == [schedule : Singles, start : Nat, end : Nat, runs : Runs]
CronJobs == [schedule : Repeated, next : Nat]

(* A fired job: until when its update may start, whether its job is still  *)
(* in the scheduler.  The end of a repeated one is set when its turn comes.*)
Fired == [tag : {"single"}, schedule : Singles, end : Nat, own : BOOLEAN]
         \cup [tag : {"repeated"}, schedule : Repeated, end : Nat, own : BOOLEAN]
NoRun == [job |-> [tag |-> "none", schedule |-> NoSchedule, end |-> 0, own |-> FALSE],
          phase |-> "idle"]
Phases == {"lock", "update"}

Valid(list) == {s \in list : s.valid}

(* Every variable holds a value the code could give it.                    *)
TypeOK ==
    /\ osType \in OsTypes /\ now \in 0..Horizon
    /\ asked \in Responses /\ file \in Meta /\ meta \in Meta
    /\ up \in BOOLEAN /\ downloading \in BOOLEAN
    /\ single \in SingleJobs \cup {NoJob} /\ crons \subseteq CronJobs
    /\ queue \subseteq Fired
    /\ run \in [job : Fired, phase : Phases] \cup {NoRun}
    /\ status \in {"UP_TO_DATE", "STARTED", "UPDATED", "FAILED"}
    /\ marked \in BOOLEAN /\ rebooting \in BOOLEAN
    /\ changes \in 0..MaxChanges /\ restarts \in 0..MaxRestarts
    /\ heard \in Responses \cup {NoResponse} /\ strayed \in BOOLEAN
    /\ settled \in MaybeSingles /\ accepted \in MaybeSingles

Init ==
    /\ osType \in OsTypes /\ now = 0
    /\ asked \in Responses
    /\ file = [single |-> NoSchedule, repeated |-> {}, finished |-> FALSE] /\ meta = file
    /\ up = FALSE /\ single = NoJob /\ crons = {} /\ queue = {} /\ run = NoRun
    /\ downloading = FALSE
    /\ status = "UP_TO_DATE" /\ marked = FALSE /\ rebooting = FALSE
    /\ changes = 0 /\ restarts = 0
    /\ heard = NoResponse /\ strayed = FALSE /\ settled = NoSchedule /\ accepted = NoSchedule

-----------------------------------------------------------------------------
(* The handling of MM's response (handleUpdateRes)                         *)

(* Mutant of ScheduleSingleRun: a start in the past is never moved.        *)
ScheduleFutureRun(s) ==
    IF s.start < now THEN NoJob
    ELSE [schedule |-> s, start |-> s.start, end |-> s.end, runs |-> "pending"]

(* Mutant of ScheduleSingleRun: the duration is computed for a schedule    *)
(* without an end, too, and taken for the end.                             *)
ScheduleDuration(s) ==
    IF s.start < now THEN NoJob
    ELSE [schedule |-> s, start |-> s.start, end |-> s.end - s.start, runs |-> "pending"]

(* The job of a schedule: a start in the past is moved to now if the end   *)
(* is more than Grace off; a schedule with a start still in the past gets  *)
(* no job, one without an end a job that may not start an update.          *)
ScheduleSingleRun(s) ==
    LET start == IF s.end # 0 /\ s.start < now /\ s.end > now + Grace THEN now ELSE s.start
        end   == IF s.end # 0 THEN s.end ELSE start
    IN  IF start < now THEN NoJob
        ELSE [schedule |-> s, start |-> start, end |-> end, runs |-> "pending"]

(* RemoveByTag: a job of these tags that runs goes on; one that waits for  *)
(* its turn may be dropped or may run all the same.                        *)
Disowned(job, tags) == [job EXCEPT !.own = job.own /\ job.tag \notin tags]
RemoveByTag(tags) ==
    /\ queue' \in {{Disowned(j, tags) : j \in queue}, {j \in queue : j.tag \notin tags}}
    /\ run' = IF run = NoRun THEN run ELSE [run EXCEPT !.job = Disowned(run.job, tags)]

(* HandleSingleSchedule: a schedule that differs from meta's, or that meta *)
(* has not as finished, gets a job if there is none; if there is one, of   *)
(* whatever schedule, it only tells whether it has run.                    *)
Unrecorded(s) == s # NoSchedule /\ ~(s = meta.single /\ meta.finished)

(* Mutant of SingleFinished: a job that has run is not recorded.           *)
SingleNeverFinished(s) == s = NoSchedule \/ meta.finished

SingleFinished(s) ==
    IF Unrecorded(s) THEN single # NoJob /\ (meta.finished \/ single.runs = "done")
                     ELSE s = NoSchedule \/ meta.finished
SingleJob(s) ==
    IF s = NoSchedule THEN NoJob
    ELSE IF Unrecorded(s) /\ single = NoJob THEN ScheduleSingleRun(s) ELSE single

(* HandleRepeatedSchedule: nothing is done if there are jobs and the lists *)
(* are as long as each other and meta's has every new schedule; otherwise  *)
(* all jobs are made anew.  A time that gocron refuses gets no job.        *)
NextTime(s) == IF \E t \in s.times : t > now
               THEN CHOOSE t \in s.times : t > now /\ \A u \in s.times : u > now => t <= u
               ELSE Never

(* Mutant of Unchanged: the schedules themselves are not compared.         *)
SameLength(list) ==
    crons # {} /\ list # {} /\ Cardinality(list) = Cardinality(meta.repeated)

Unchanged(list) ==
    /\ crons # {} /\ list # {}
    /\ Cardinality(list) = Cardinality(meta.repeated) /\ list \subseteq meta.repeated
NewJobs(list) == {[schedule |-> s, next |-> NextTime(s)] : s \in Valid(list)}

(* The new schedules go to the file, not to meta; nil ones leave the old   *)
(* ones there.                                                             *)
SetMetaSchedules(answer, finished) ==
    file' = [single   |-> IF answer.single = NoSchedule THEN file.single ELSE answer.single,
             repeated |-> IF answer.repeated = {} THEN file.repeated ELSE answer.repeated,
             finished |-> finished]

(* handleUpdateRes: the three calls run one after the other in the handler's *)
(* goroutine, and what gocron does between them commutes with them.          *)
HandleUpdateRes ==
    /\ up
    /\ single' = SingleJob(asked.single)
    /\ IF Unchanged(asked.repeated) THEN UNCHANGED <<crons, status>>
       ELSE /\ crons' = NewJobs(asked.repeated)
            /\ status' = IF Valid(asked.repeated) = asked.repeated THEN status ELSE "FAILED"
    /\ RemoveByTag((IF asked.single = NoSchedule THEN {"single"} ELSE {})
                   \cup (IF Unchanged(asked.repeated) THEN {} ELSE {"repeated"}))
    /\ SetMetaSchedules(asked, SingleFinished(asked.single))
    /\ heard' = asked
    /\ strayed' = IF Unchanged(asked.repeated) THEN strayed ELSE asked.repeated # meta.repeated
    /\ settled' = IF single # NoJob /\ single.runs = "done" /\ single.schedule = asked.single
                  THEN asked.single ELSE settled
    /\ accepted' = IF /\ Unrecorded(asked.single) /\ single = NoJob
                      /\ asked.single.end > now + Grace
                      /\ asked.single.end > asked.single.start
                   THEN asked.single ELSE accepted
    /\ UNCHANGED <<osType, now, mmVars, meta, up, downloading, marked, rebooting, restarts>>

(***************************************************************************)
(* gocron and triggerUpdate                                                *)
(***************************************************************************)
(* The time of a job comes: it joins the queue, unless the instance before *)
(* has not ended (SingletonModeAll).                                       *)
SingleDue == single # NoJob /\ single.runs = "pending" /\ single.start <= now
FireSingle ==
    /\ SingleDue
    /\ single' = [single EXCEPT !.runs = "fired"]
    /\ queue' = queue \cup {[tag |-> "single", schedule |-> single.schedule,
                             end |-> single.end, own |-> TRUE]}
    /\ UNCHANGED <<osType, now, mmVars, file, meta, up, crons, run, downloading, statVars,
                   restarts, ghostVars>>

Occupied(c) ==
    \E j \in queue \cup (IF run = NoRun THEN {} ELSE {run.job}) :
        j.tag = "repeated" /\ j.schedule = c.schedule /\ j.own
FireRepeated ==
    /\ \E c \in crons :
         /\ c.next <= now
         /\ crons' = (crons \ {c}) \cup {[c EXCEPT !.next = NextTime(c.schedule)]}
         /\ queue' = IF Occupied(c) THEN queue
                     ELSE queue \cup {[tag |-> "repeated", schedule |-> c.schedule,
                                       end |-> 0, own |-> TRUE]}
    /\ UNCHANGED <<osType, now, mmVars, file, meta, up, single, run, downloading, statVars,
                   restarts, ghostVars>>

(* A job limited to one run leaves the scheduler at its next time, a day   *)
(* after its first, as it would by RemoveByTag.                            *)
ExpiryDue == single # NoJob /\ single.runs # "pending" /\ single.start + Day <= now
Expire ==
    /\ ExpiryDue
    /\ single' = NoJob
    /\ RemoveByTag({"single"})
    /\ UNCHANGED <<osType, now, mmVars, file, meta, up, crons, downloading, statVars,
                   restarts, ghostVars>>

(* The schedule that can run has had its turn.                             *)
Served(job) == IF job.schedule = accepted THEN NoSchedule ELSE accepted

(* The function of a job returns.                                          *)
Returns(job) ==
    /\ run' = NoRun
    /\ single' = IF job.tag = "single" /\ job.own /\ single # NoJob
                 THEN [single EXCEPT !.runs = "done"] ELSE single

(* A job gets its turn.  The end of a repeated schedule's window is        *)
(* computed now, however long the job has waited.  On EMT the image may be *)
(* there already (IsUpdateAlreadyApplied).                                 *)
BeginDue == run = NoRun /\ queue # {}
Begin ==
    /\ run = NoRun
    /\ \E j \in queue :
         /\ queue' = queue \ {j}
         /\ \/ /\ run' = [job |-> [j EXCEPT !.end = IF j.tag = "single" THEN j.end
                                                    ELSE now + j.schedule.duration],
                          phase |-> "lock"]
               /\ UNCHANGED <<single, accepted>>
            \/ osType = "emt" /\ Returns(j) /\ accepted' = Served(j)
    /\ UNCHANGED <<osType, now, mmVars, file, meta, up, crons, downloading, statVars, restarts,
                   heard, strayed, settled>>

(* LockForUpdate, then the look at the clock, then StartUpdate.            *)
StartUpdate ==
    /\ run' = [run EXCEPT !.phase = "update"]
    /\ status' = "STARTED"
    /\ accepted' = Served(run.job)
    /\ UNCHANGED single

(* Mutant of TriggerUpdate: the clock is not looked at under the lock.     *)
TriggerUnchecked ==
    /\ run # NoRun /\ run.phase = "lock" /\ ~downloading
    /\ StartUpdate
    /\ UNCHANGED <<osType, now, mmVars, file, meta, up, crons, queue, downloading, marked,
                   rebooting, restarts, heard, strayed, settled>>

TriggerDue == run # NoRun /\ run.phase = "lock" /\ ~downloading
TriggerUpdate ==
    /\ TriggerDue
    /\ \/ now < run.job.end /\ StartUpdate
       \/ now >= run.job.end /\ Returns(run.job) /\ UNCHANGED <<status, accepted>>
    /\ UNCHANGED <<osType, now, mmVars, file, meta, up, crons, queue, downloading, marked,
                   rebooting, restarts, heard, strayed, settled>>

(* The update ends by itself, or orders a reboot: as a rule with its mark  *)
(* in metadata.json and STARTED, but for EMT's kernel command line.        *)
EndUpdate ==
    /\ run # NoRun /\ run.phase = "update"
    /\ Returns(run.job)
    /\ \/ status' \in {"UPDATED", "FAILED"} /\ UNCHANGED <<marked, rebooting>>
       \/ marked' = TRUE /\ rebooting' = TRUE /\ UNCHANGED status
       \/ osType = "emt" /\ status' = "UPDATED" /\ rebooting' = TRUE /\ UNCHANGED marked
    /\ UNCHANGED <<osType, now, mmVars, file, meta, up, crons, queue, downloading, restarts,
                   ghostVars>>

-----------------------------------------------------------------------------

(* The process ends: by a reboot an update has ordered, or by itself.      *)
Down ==
    /\ \/ rebooting /\ rebooting' = FALSE /\ UNCHANGED restarts
       \/ restarts < MaxRestarts /\ restarts' = restarts + 1 /\ rebooting' \in {rebooting, FALSE}
    /\ up' = FALSE /\ single' = NoJob /\ crons' = {} /\ queue' = {} /\ run' = NoRun
    /\ downloading' = FALSE
    /\ heard' = NoResponse /\ strayed' = FALSE /\ accepted' = NoSchedule
    /\ UNCHANGED <<osType, now, mmVars, file, meta, status, marked, settled>>

(* main() up to its loops: an update that has come to its mark is verified *)
(* (continueUpdateAfterOsReboot), and if this time lies in the window of   *)
(* the file's single schedule that is recorded as done; then the file is   *)
(* read into meta.                                                         *)
InsideSingleScheduleWindow ==
    file.single # NoSchedule /\ file.single.start <= now /\ now < file.single.end
Verifies == status = "STARTED" /\ marked
Main ==
    /\ ~up /\ up' = TRUE
    /\ file' = [file EXCEPT !.finished = @ \/ (Verifies /\ InsideSingleScheduleWindow)]
    /\ meta' = file'
    /\ settled' = IF Verifies /\ InsideSingleScheduleWindow THEN file.single ELSE settled
    /\ IF Verifies THEN status' \in {"UPDATED", "FAILED"} /\ marked' = FALSE
                   ELSE UNCHANGED <<status, marked>>
    /\ UNCHANGED <<osType, now, mmVars, jobVars, runVars, downloading, rebooting, restarts,
                   heard, strayed, accepted>>

(* The downloader takes the operation lock and gives it back.              *)
Download ==
    /\ up /\ osType = "emt" /\ (run = NoRun \/ run.phase = "lock")
    /\ downloading' = ~downloading
    /\ UNCHANGED <<osType, now, mmVars, file, meta, up, jobVars, runVars, statVars, restarts,
                   ghostVars>>

(* An operator changes the schedules in MM.                                *)
Change ==
    /\ changes < MaxChanges /\ changes' = changes + 1
    /\ asked' \in Responses \ {asked}
    /\ settled' = NoSchedule /\ accepted' = NoSchedule
    /\ UNCHANGED <<osType, now, file, meta, up, jobVars, runVars, downloading, statVars,
                   restarts, heard, strayed>>

(* Time passes.  An accepted schedule whose job has been kept from running *)
(* by a download or another update may miss its window.                    *)
Tick ==
    /\ now < Horizon /\ now' = now + 1
    /\ ~SingleDue /\ ~ExpiryDue /\ ~BeginDue /\ ~TriggerDue
    /\ \A c \in crons : c.next > now
    /\ accepted' = IF single # NoJob /\ single.runs = "fired" THEN NoSchedule ELSE accepted
    /\ UNCHANGED <<osType, mmVars, file, meta, up, jobVars, runVars, downloading, statVars,
                   restarts, heard, strayed, settled>>

Next == \/ HandleUpdateRes \/ FireSingle \/ FireRepeated \/ Expire \/ Begin \/ TriggerUpdate
        \/ EndUpdate \/ Down \/ Main \/ Download \/ Change \/ Tick

Spec == Init /\ [][Next]_vars

-----------------------------------------------------------------------------
(***************************************************************************)
(* Properties                                                              *)
(***************************************************************************)
(* The update of a single schedule starts inside that schedule's window,   *)
(* however long its job has waited for its turn and for the downloader     *)
(* (triggerUpdate, scheduler.go:102-118).                                  *)
Starting == run # NoRun /\ run.phase = "lock" /\ run' # NoRun /\ run'.phase = "update"
SingleInWindow ==
    [][Starting /\ run.job.tag = "single" =>
           run.job.schedule.start <= now /\ now < run.job.schedule.end]_vars

(* "ensuring that the schedule only executes once"                         *)
(* (platform_update_agent.go:394): a single schedule that has been         *)
(* recorded as done, after its job's return or after the reboot of an      *)
(* update in its window, starts no further update, restarts and the copy   *)
(* in meta notwithstanding.  Only a window longer than a day outlives its  *)
(* job in the scheduler; a job removed after it fired (MM withdrew its     *)
(* schedule for a while) is none of this schedule's.                       *)
RunsOnce ==
    [][Starting /\ run.job.tag = "single" /\ run.job.own /\ run.job.schedule = settled =>
           settled.end > settled.start + Day]_vars

(* A schedule MM keeps asking for, heard while its window, which is not    *)
(* empty, is open for more than Grace and no other job is in its place,    *)
(* starts an update before the window closes, unless the process ends, a   *)
(* download or another update keeps it waiting, or the image is there      *)
(* already.                                                                *)
AcceptedRuns == accepted # NoSchedule => now < accepted.end

(* The jobs of repeated schedules are those of the response handled last,  *)
(* one for each time gocron takes; except that a list equal to meta's, the *)
(* one of the process's start, leaves the jobs of another list in place    *)
(* (HandleRepeatedSchedule, scheduler.go:175-191).                         *)
CronsAreAsked ==
    heard # NoResponse =>
        \/ {c.schedule : c \in crons} = Valid(heard.repeated)
        \/ strayed /\ heard.repeated = meta.repeated

=============================================================================
