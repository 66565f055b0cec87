-------------------------- MODULE RefreshScheduler --------------------------
(***************************************************************************)
(* The refresh loop of one accelerated dataset in `full` or time-based     *)
(* `append` mode: the Refresher task, the RefreshTaskRunner task, the      *)
(* RefreshTask they drive, and the three channels of capacity one between  *)
(* them and the callers of AcceleratedTable::trigger_refresh.              *)
(*                                                                         *)
(* Source: crates/runtime/src/accelerated_table.rs and, under              *)
(* accelerated_table/, refresh.rs, refresh_task_runner.rs, refresh_task.rs.*)
(***************************************************************************)
EXTENDS Naturals

CONSTANTS
    Intervals,     \* the settings of Refresh::check_interval: Some or None
    MaxRetries,    \* what RefreshTask::run passes to FibonacciBackoff:
                   \* refresh_retry_max_attempts, or 0 when retry is off
    RetryForever,  \* retry is on and refresh_retry_max_attempts is None
    MaxTriggers,   \* bound: calls of trigger_refresh
    MaxVersion     \* bound: versions the federated source goes through

ASSUME SchedulerAssumption ==
    /\ Intervals \subseteq {"Some", "None"}
    /\ RetryForever \in BOOLEAN
    /\ MaxRetries \in Nat
    /\ MaxTriggers \in Nat
    /\ MaxVersion \in Nat \ {0}

VARIABLES
    table,         \* the AcceleratedTable: live, or dropped
    interval,      \* Refresh::check_interval
    refresher,     \* Refresher::start's task: in its select!, or in
                   \* start_refresh.send().await
    timer,         \* next_scheduled_refresh_timer: Some or None
    readySender,   \* ready_sender: Some until it is taken and fired
    trigger,       \* messages in the channel of trigger_refresh
    startRefresh,  \* messages in the start_refresh channel
    complete,      \* the message in the refresh_complete channel
    runner,        \* RefreshTaskRunner::start's task
    result,        \* the result the runner is sending
    phase,         \* where the RefreshTask::run future in flight stands
    attempt,       \* FibonacciBackoff::num_retries
    loaded,        \* version of the source the run has read
    status,        \* the dataset's component status
    source,        \* version of the federated table
    accel,         \* version in the accelerator, 0 when never written
    cached,        \* a cached query result over this dataset: none, or
                   \* computed from the current or from older contents
    orphan,        \* history: 1 if a run was dropped after its write, before
                   \* its completion, and no completion has been Ok since
    triggered      \* calls of trigger_refresh so far

refresherVars == <<refresher, timer, readySender>>
channelVars == <<trigger, startRefresh, complete>>
runnerVars == <<runner, result, status>>
taskVars == <<phase, attempt, loaded>>
contentVars == <<accel, cached, orphan>>
callerVars == <<table, interval, source, triggered>>
vars == <<refresherVars, channelVars, runnerVars, taskVars, contentVars,
          callerVars>>

Results == {"Ok", "Err"}
Option == {"Some", "None"}

\* mpsc::channel(1): the trigger, start and completion channels.
Capacity == 1

\* phases of RefreshTask::run: "fetch" is run_once before the data stream is
\* open, "load" is collect() pulling the stream, "store" the accelerator's
\* commit of what was pulled, "mark" what run_once does after the commit.
Phases == {"none", "fetch", "load", "store", "mark", "backoff"}

(***************************************************************************)
(* Type invariant.                                                         *)
(***************************************************************************)
TypeOK ==
    /\ table \in {"live", "dropped"}
    /\ refresher \in {"select", "sending", "aborted"}
    /\ interval \in Option
    /\ timer \in Option
    /\ readySender \in Option
    /\ trigger \in 0..Capacity
    /\ startRefresh \in 0..Capacity
    /\ complete \in Results \cup {"empty"}
    /\ runner \in {"idle", "running", "notifying", "aborted"}
    /\ result \in Results
    /\ phase \in Phases
    /\ attempt \in 0..MaxRetries
    /\ loaded \in 0..MaxVersion
    /\ status \in {"Initializing", "Refreshing", "Ready", "Error"}
    /\ source \in 1..MaxVersion
    /\ accel \in 0..MaxVersion
    /\ cached \in {"none", "current", "stale"}
    /\ orphan \in 0..1
    /\ triggered \in 0..MaxTriggers

\* Builder::build and Refresher::start: both tasks are spawned, the first
\* timer has no delay, every channel is empty.
Init ==
    /\ table = "live"
    /\ interval \in Intervals
    /\ refresher = "select"
    /\ timer = "Some"
    /\ readySender = "Some"
    /\ trigger = 0
    /\ startRefresh = 0
    /\ complete = "empty"
    /\ runner = "idle"
    /\ result = "Ok"
    /\ phase = "none"
    /\ attempt = 0
    /\ loaded = 0
    /\ status = "Initializing"
    /\ source = 1
    /\ accel = 0
    /\ cached = "none"
    /\ orphan = 0
    /\ triggered = 0

(***************************************************************************)
(* Callers.                                                                *)
(***************************************************************************)

\* trigger_refresh: send() completes once the channel has room.
TriggerRefresh ==
    /\ table = "live"
    /\ triggered < MaxTriggers
    /\ trigger < Capacity
    /\ trigger' = trigger + 1
    /\ triggered' = triggered + 1
    /\ UNCHANGED <<refresherVars, startRefresh, complete, runnerVars,
                   taskVars, contentVars, table, interval, source>>

\* The federated table changes under the runtime.
SourceChanges ==
    /\ source < MaxVersion
    /\ source' = source + 1
    /\ UNCHANGED <<refresherVars, channelVars, runnerVars, taskVars,
                   contentVars, table, interval, triggered>>

\* A query over the dataset misses the results cache and fills it.
Query ==
    /\ cached = "none"
    /\ cached' = "current"
    /\ UNCHANGED <<refresherVars, channelVars, runnerVars, taskVars, accel,
                   orphan, callerVars>>

\* The cached result reaches its time to live.
Expire ==
    /\ cached # "none"
    /\ cached' = "none"
    /\ UNCHANGED <<refresherVars, channelVars, runnerVars, taskVars, accel,
                   orphan, callerVars>>

(***************************************************************************)
(* The Refresher task: one iteration of its loop is one select! branch.    *)
(* take() moves the timer into the iteration, so every branch drops it.    *)
(***************************************************************************)

\* next_scheduled_refresh_timer.take()
TakeTimer == "None"

\* Mutant: a trigger is ignored while a refresh is in flight.
IgnoreTriggerInFlight == IF runner = "running" THEN "select" ELSE "sending"

\* An external trigger makes the task send a start.
OnTrigger == "sending"

\* `() = scheduled_refresh_future`
TimerFires ==
    /\ refresher = "select"
    /\ timer = "Some"
    /\ refresher' = "sending"
    /\ timer' = TakeTimer
    /\ UNCHANGED <<readySender, channelVars, runnerVars, taskVars,
                   contentVars, callerVars>>

\* `_ = on_start_refresh_external.recv()`: a message, or None once the
\* table and with it the sender is dropped.
ExternalTrigger ==
    /\ refresher = "select"
    /\ trigger > 0 \/ table = "dropped"
    /\ refresher' = OnTrigger
    /\ timer' = TakeTimer
    /\ trigger' = 0
    /\ UNCHANGED <<readySender, startRefresh, complete, runnerVars, taskVars,
                   contentVars, callerVars>>

\* start_refresh.send(()).await returns: the channel has room, or the runner
\* is gone and the error is logged.
SendStart ==
    /\ refresher = "sending"
    /\ \/ startRefresh < Capacity /\ runner # "aborted"
          /\ startRefresh' = startRefresh + 1
       \/ runner = "aborted" /\ UNCHANGED startRefresh
    /\ refresher' = "select"
    /\ UNCHANGED <<timer, readySender, trigger, complete, runnerVars,
                   taskVars, contentVars, callerVars>>

\* Mutant: the timer is armed again after a successful refresh only.
ArmTimerOnOk(res) == IF res = "Ok" THEN interval ELSE "None"

\* Ok or not, a completion arms the timer if there is a check interval.
ArmTimer(res) == interval

\* Mutant: the first completion makes the table ready, Ok or not.
NotifyAnyDone(res) == "None"

\* notify_refresh_done: an Ok completion takes ready_sender and fires it.
NotifyDone(res) == IF res = "Ok" THEN "None" ELSE readySender

\* Mutant: the cache is invalidated by the first successful refresh only.
InvalidateOnce(res) ==
    IF res = "Ok" /\ readySender = "Some" THEN "none" ELSE cached

\* invalidate_for_table on an Ok completion.
Invalidate(res) == IF res = "Ok" THEN "none" ELSE cached

\* `Some(res) = on_refresh_complete.recv()`
RefreshComplete ==
    /\ refresher = "select"
    /\ complete # "empty"
    /\ complete' = "empty"
    /\ readySender' = NotifyDone(complete)
    /\ cached' = Invalidate(complete)
    /\ orphan' = IF complete = "Ok" THEN 0 ELSE orphan
    /\ timer' = ArmTimer(complete)
    /\ UNCHANGED <<refresher, trigger, startRefresh, runnerVars, taskVars,
                   accel, callerVars>>

(***************************************************************************)
(* The RefreshTaskRunner task.                                             *)
(***************************************************************************)

\* on_start_refresh.recv() yields a message, or None once the Refresher task
\* and with it the sender is gone.
StartReceived == startRefresh > 0 \/ refresher = "aborted"

\* recv() with no task: RefreshTask::run is created and polled, run_once
\* reports the dataset as refreshing.
StartRun ==
    /\ runner = "idle"
    /\ StartReceived
    /\ startRefresh' = 0
    /\ runner' = "running"
    /\ phase' = "fetch"
    /\ attempt' = 0
    /\ status' = "Refreshing"
    /\ UNCHANGED <<refresherVars, trigger, complete, result, loaded,
                   contentVars, callerVars>>

\* recv() with a task in flight: the task's future is dropped where it
\* stands, no completion is sent for it, and a new run replaces it.
Preempt ==
    /\ runner = "running"
    /\ StartReceived
    /\ startRefresh' = 0
    /\ phase' = "fetch"
    /\ attempt' = 0
    /\ status' = "Refreshing"
    /\ orphan' = IF phase = "mark" THEN 1 ELSE orphan
    /\ UNCHANGED <<refresherVars, trigger, complete, runner, result, loaded,
                   accel, cached, callerVars>>

\* notify_refresh_complete.send(res).await returns: the channel has room, or
\* the Refresher task is gone.
Notify ==
    /\ runner = "notifying"
    /\ \/ complete = "empty" /\ refresher # "aborted" /\ complete' = result
       \/ refresher = "aborted" /\ UNCHANGED complete
    /\ runner' = "idle"
    /\ UNCHANGED <<refresherVars, trigger, startRefresh, result, status,
                   taskVars, contentVars, callerVars>>

(***************************************************************************)
(* RefreshTask::run, under RetryError's transient and permanent errors.    *)
(***************************************************************************)

\* get_full_update / get_incremental_append_update opened the data stream
\* and insert_into built its plan.
FetchOk ==
    /\ runner = "running" /\ phase = "fetch"
    /\ phase' = "load"
    /\ UNCHANGED <<refresherVars, channelVars, runnerVars, attempt, loaded,
                   contentVars, callerVars>>

\* collect() has pulled the source's rows.
Load ==
    /\ runner = "running" /\ phase = "load"
    /\ phase' = "store"
    /\ loaded' = source
    /\ UNCHANGED <<refresherVars, channelVars, runnerVars, attempt,
                   contentVars, callerVars>>

\* The accelerator commits what was pulled.
Store ==
    /\ runner = "running" /\ phase = "store"
    /\ phase' = "mark"
    /\ accel' = loaded
    /\ cached' = IF cached = "current" THEN "stale" ELSE cached
    /\ UNCHANGED <<refresherVars, channelVars, runnerVars, attempt, loaded,
                   orphan, callerVars>>

\* mark_dataset_status(Ready), and run() returns Ok.
RunOk ==
    /\ runner = "running" /\ phase = "mark"
    /\ status' = "Ready"
    /\ phase' = "none"
    /\ runner' = "notifying"
    /\ result' = "Ok"
    /\ UNCHANGED <<refresherVars, channelVars, attempt, loaded, contentVars,
                   callerVars>>

\* Backoff::next_backoff grants another attempt.
RetryAllowed == RetryForever \/ attempt < MaxRetries

\* A transient error in get_data, in collect() or in the commit: the dataset
\* is in error until the backoff has passed.
TransientError ==
    /\ runner = "running" /\ phase \in {"fetch", "load", "store"}
    /\ RetryAllowed
    /\ status' = "Error"
    /\ phase' = "backoff"
    /\ attempt' = IF RetryForever THEN attempt ELSE attempt + 1
    /\ UNCHANGED <<refresherVars, channelVars, runner, result, loaded,
                   contentVars, callerVars>>

\* The backoff has passed: run_once starts over.
Retry ==
    /\ runner = "running" /\ phase = "backoff"
    /\ status' = "Refreshing"
    /\ phase' = "fetch"
    /\ UNCHANGED <<refresherVars, channelVars, runner, result, attempt,
                   loaded, contentVars, callerVars>>

\* mark_dataset_status(Error)
ErrorReported == "Error"

\* A permanent error (a bad time column, an insert plan that cannot be
\* built, an error that is not retriable), or a transient one with no
\* attempt left: run() returns Err.
RunErr ==
    /\ runner = "running" /\ phase \in {"fetch", "load", "store"}
    /\ status' = ErrorReported
    /\ phase' = "none"
    /\ runner' = "notifying"
    /\ result' = "Err"
    /\ UNCHANGED <<refresherVars, channelVars, attempt, loaded, contentVars,
                   callerVars>>

(***************************************************************************)
(* Drop.                                                                   *)
(***************************************************************************)

\* AcceleratedTable::drop and Refresher::drop ask tokio to abort both tasks.
Drop ==
    /\ table = "live"
    /\ table' = "dropped"
    /\ UNCHANGED <<refresherVars, channelVars, runnerVars, taskVars,
                   contentVars, interval, source, triggered>>

\* The abort takes effect the next time the task yields.
AbortRefresher ==
    /\ table = "dropped"
    /\ refresher # "aborted"
    /\ refresher' = "aborted"
    /\ UNCHANGED <<timer, readySender, channelVars, runnerVars, taskVars,
                   contentVars, callerVars>>

AbortRunner ==
    /\ table = "dropped"
    /\ runner # "aborted"
    /\ runner' = "aborted"
    /\ phase' = "none"
    /\ UNCHANGED <<refresherVars, channelVars, result, status, attempt,
                   loaded, contentVars, callerVars>>

-----------------------------------------------------------------------------
Callers == TriggerRefresh \/ SourceChanges \/ Query \/ Expire \/ Drop
RefresherStep == TimerFires \/ ExternalTrigger \/ SendStart \/ RefreshComplete
RunnerStep == StartRun \/ Preempt \/ Notify
TaskStep == \/ FetchOk \/ Load \/ Store \/ RunOk
            \/ TransientError \/ Retry \/ RunErr
Abort == AbortRefresher \/ AbortRunner

Next == Callers \/ RefresherStep \/ RunnerStep \/ TaskStep \/ Abort

\* tokio polls both tasks and fires their timers; aborts take effect.
Fairness ==
    /\ WF_vars(RefresherStep)
    /\ WF_vars(RunnerStep)
    /\ WF_vars(TaskStep)
    /\ WF_vars(AbortRefresher)
    /\ WF_vars(AbortRunner)

\* The source and the accelerator do not fail for ever.
SourceRecovers ==
    /\ SF_vars(FetchOk)
    /\ SF_vars(Load)
    /\ SF_vars(Store)

Spec == Init /\ [][Next]_vars /\ Fairness

(***************************************************************************)
(* Properties.                                                             *)
(***************************************************************************)
Count(b) == IF b THEN 1 ELSE 0

\* Refreshes asked for and not yet answered: an armed timer, a start being
\* sent or queued, a run in flight, a completion being sent or queued.
Work ==
    Count(timer = "Some") + Count(refresher = "sending") + startRefresh
    + Count(runner = "running") + Count(runner = "notifying")
    + Count(complete # "empty")

\* With a check interval, dropped timers, failed runs and preempted runs never
\* leave the loop without a next refresh: there is always a timer armed or a
\* refresh under way (refresh.rs arms the timer on completion only, and the
\* select! drops the one it does not take).
ScheduleNeverDies == table = "live" /\ interval = "Some" => Work >= 1

\* The Refresher waits to send a start while the runner waits to send a
\* completion: neither channel is read again.
Stuck ==
    /\ refresher = "sending" /\ startRefresh = Capacity
    /\ runner = "notifying" /\ complete # "empty"

\* It takes at least three external triggers for the Refresher and its runner
\* to wait on each other: timers alone, or with two triggers, cannot fill both
\* channels.
NotStuckByFewTriggers == table = "live" /\ triggered <= 2 => ~Stuck

\* The table is reported ready (ready_sender) only once a refresh has written
\* the accelerator, whatever failed, was retried or was preempted before.
ReadyAfterLoad == readySender = "None" => accel # 0

\* The refresh loop implements the abstract copy: AcceleratedTable holds a version
\* the source had, never an older one than before although runs are retried and
\* preempted at any point, and ready_sender announces a table that is loaded.
Copy == INSTANCE MaterializedCopy WITH copy <- accel, ready <- readySender = "None"
Materializes == Copy!Spec

\* An Ok completion that will invalidate the cache is on its way.
InvalidationOwed ==
    \/ runner = "running" /\ phase = "mark"
    \/ runner = "notifying" /\ result = "Ok"
    \/ complete = "Ok"

\* A cached result older than the accelerator's contents is about to be
\* invalidated by the completion of the run that wrote them, unless that run
\* was preempted between its write and its completion: then the result stays
\* until its time to live or a later Ok completion.
StaleResultIsOwed ==
    table = "live" /\ cached = "stale" => InvalidationOwed \/ orphan = 1

\* The dataset is reported as refreshing only while a run is in flight, and
\* the status a run leaves behind agrees with the result it reports.
StatusIsTruthful ==
    /\ table = "live" /\ status = "Refreshing" => runner = "running"
    /\ runner = "notifying" =>
           status = (IF result = "Ok" THEN "Ready" ELSE "Error")

Begins == runner = "running" /\ phase = "fetch"

\* With a check interval the runner begins refresh after refresh, for as long
\* as the table exists.
KeepsRefreshing == interval = "Some" => []<>(table = "dropped" \/ Begins)

\* A trigger accepted by trigger_refresh is followed by a run that begins
\* after it, with or without a check interval and whatever fails.
TriggersAreServed == trigger > 0 ~> (table = "dropped" \/ Begins)

\* With a check interval, and a source and an accelerator that recover, the
\* accelerator comes to hold the last version of the source, and the table
\* has been reported ready.
Converges ==
    interval = "Some" /\ SourceRecovers =>
        <>[](table = "dropped" \/ (accel = source /\ readySender = "None"))
=============================================================================
