----------------------- MODULE RefreshSchedulerProofs -----------------------
(***************************************************************************)
(* Theorems about RefreshScheduler for every check interval setting, retry *)
(* limit, number of triggers and number of source versions.                *)
(***************************************************************************)
EXTENDS RefreshScheduler, TLAPS

(***************************************************************************)
(* The inductive invariant.                                                *)
(***************************************************************************)

\* Tasks are aborted after the table is dropped only, and a task phase other
\* than "none" belongs to a run in flight.
TasksInv ==
    /\ table = "live" => refresher # "aborted" /\ runner # "aborted"
    /\ runner = "running" <=> phase # "none"

\* Every refresh under way descends from the first timer or from a trigger
\* that has left its channel.
WorkInv ==
    /\ table = "live" => Work + trigger <= 1 + triggered
    /\ ScheduleNeverDies

\* An Ok result, wherever it stands on its way to the Refresher, comes from a
\* run that wrote the accelerator.
LoadInv ==
    /\ phase = "store" => loaded # 0
    /\ InvalidationOwed => accel # 0
    /\ ReadyAfterLoad

\* What a run has loaded is a version the source had, no older than the one in
\* the accelerator when it is about to replace it.
VersionInv ==
    /\ accel <= source
    /\ phase = "store" => accel <= loaded /\ loaded <= source

IInv == /\ TypeOK /\ TasksInv /\ WorkInv /\ LoadInv
        /\ StaleResultIsOwed /\ StatusIsTruthful

(***************************************************************************)
(* Every variable keeps its type (TypeOK): the retry counter never passes  *)
(* the configured limit and the channels never hold more than one message. *)
(***************************************************************************)
THEOREM TypeCorrect == Spec => []TypeOK
<1> USE SchedulerAssumption DEF SchedulerAssumption, TypeOK, Results, Phases, Option, Capacity
<1>1. Init => TypeOK
  BY DEF Init
<1>2. TypeOK /\ [Next]_vars => TypeOK'
  <2> SUFFICES ASSUME TypeOK, [Next]_vars PROVE TypeOK'
    OBVIOUS
  <2> USE DEF refresherVars, channelVars, runnerVars, taskVars, contentVars,
              callerVars
  <2>1. CASE Callers
    BY <2>1 DEF Callers, TriggerRefresh, SourceChanges, Query, Expire, Drop
  <2>2. CASE RefresherStep
    BY <2>2 DEF RefresherStep, TimerFires, ExternalTrigger, SendStart,
                RefreshComplete, TakeTimer, OnTrigger, ArmTimer, NotifyDone,
                Invalidate
  <2>3. CASE RunnerStep
    BY <2>3 DEF RunnerStep, StartReceived, StartRun, Preempt, Notify
  <2>4. CASE TaskStep
    <3>1. CASE TransientError
      BY <3>1 DEF TransientError, RetryAllowed
    <3>2. CASE FetchOk \/ Load \/ Store \/ RunOk \/ Retry \/ RunErr
      BY <3>2 DEF FetchOk, Load, Store, RunOk, Retry, RunErr, ErrorReported
    <3> QED BY <2>4, <3>1, <3>2 DEF TaskStep
  <2>5. CASE Abort
    BY <2>5 DEF Abort, AbortRefresher, AbortRunner
  <2>6. CASE UNCHANGED vars
    BY <2>6 DEF vars
  <2> QED
    BY <2>1, <2>2, <2>3, <2>4, <2>5, <2>6 DEF Next
<1> QED
  BY <1>1, <1>2, PTL DEF Spec

(***************************************************************************)
(* One lemma per part of the invariant: the steps that keep it.            *)
(***************************************************************************)
LEMMA TasksStep == TypeOK /\ TasksInv /\ [Next]_vars => TasksInv'
<1> SUFFICES ASSUME TypeOK, TasksInv, [Next]_vars PROVE TasksInv'
  OBVIOUS
<1> USE DEF TasksInv, TypeOK, Phases, refresherVars, channelVars, runnerVars,
            taskVars, contentVars, callerVars
<1>1. CASE Callers
  BY <1>1 DEF Callers, TriggerRefresh, SourceChanges, Query, Expire, Drop
<1>2. CASE RefresherStep
  BY <1>2 DEF RefresherStep, TimerFires, ExternalTrigger, SendStart,
              RefreshComplete, OnTrigger
<1>3. CASE RunnerStep
  BY <1>3 DEF RunnerStep, StartRun, Preempt, Notify
<1>4. CASE TaskStep
  BY <1>4 DEF TaskStep, FetchOk, Load, Store, RunOk, TransientError, Retry,
              RunErr
<1>5. CASE Abort
  BY <1>5 DEF Abort, AbortRefresher, AbortRunner
<1>6. CASE UNCHANGED vars
  BY <1>6 DEF vars
<1> QED
  BY <1>1, <1>2, <1>3, <1>4, <1>5, <1>6 DEF Next

\* A step moves a unit of work from one place to the next, merges two
\* (preemption, a timer dropped for a trigger), or takes one from the trigger
\* channel.
LEMMA WorkStep == TypeOK /\ TasksInv /\ WorkInv /\ [Next]_vars => WorkInv'
<1> SUFFICES ASSUME TypeOK, TasksInv, WorkInv, [Next]_vars PROVE WorkInv'
  OBVIOUS
<1> USE SchedulerAssumption
    DEF SchedulerAssumption, WorkInv, ScheduleNeverDies, Work, Count,
        TasksInv, TypeOK, Results, Phases, Option, Capacity, refresherVars,
        channelVars, runnerVars, taskVars, contentVars, callerVars
<1>1. CASE Callers
  BY <1>1 DEF Callers, TriggerRefresh, SourceChanges, Query, Expire, Drop
<1>2. CASE TimerFires
  BY <1>2 DEF TimerFires, TakeTimer
<1>3. CASE ExternalTrigger
  BY <1>3 DEF ExternalTrigger, OnTrigger, TakeTimer
<1>4. CASE SendStart
  BY <1>4 DEF SendStart
<1>5. CASE RefreshComplete
  BY <1>5 DEF RefreshComplete, ArmTimer
<1>6. CASE StartRun
  BY <1>6 DEF StartRun, StartReceived
<1>7. CASE Preempt
  BY <1>7 DEF Preempt, StartReceived
<1>8. CASE Notify
  BY <1>8 DEF Notify
<1>9. CASE TaskStep
  BY <1>9 DEF TaskStep, FetchOk, Load, Store, RunOk, TransientError, Retry,
              RunErr
<1>10. CASE Abort
  BY <1>10 DEF Abort, AbortRefresher, AbortRunner
<1>11. CASE UNCHANGED vars
  BY <1>11 DEF vars
<1> QED
  BY <1>1, <1>2, <1>3, <1>4, <1>5, <1>6, <1>7, <1>8, <1>9, <1>10, <1>11
  DEF Next, RefresherStep, RunnerStep

\* Only a run that has stored what it loaded reaches "mark", and only from
\* there does an Ok result travel to the Refresher.
LEMMA LoadStep == TypeOK /\ LoadInv /\ [Next]_vars => LoadInv'
<1> SUFFICES ASSUME TypeOK, LoadInv, [Next]_vars PROVE LoadInv'
  OBVIOUS
<1> USE SchedulerAssumption
    DEF SchedulerAssumption, LoadInv, InvalidationOwed, ReadyAfterLoad,
        TypeOK, Results, Phases, Option, refresherVars, channelVars,
        runnerVars, taskVars, contentVars, callerVars
<1>1. CASE Callers
  BY <1>1 DEF Callers, TriggerRefresh, SourceChanges, Query, Expire, Drop
<1>2. CASE RefresherStep
  BY <1>2 DEF RefresherStep, TimerFires, ExternalTrigger, SendStart,
              RefreshComplete, NotifyDone
<1>3. CASE RunnerStep
  BY <1>3 DEF RunnerStep, StartRun, Preempt, Notify
<1>4. CASE TaskStep
  BY <1>4 DEF TaskStep, FetchOk, Load, Store, RunOk, TransientError, Retry,
              RunErr
<1>5. CASE Abort
  BY <1>5 DEF Abort, AbortRefresher, AbortRunner
<1>6. CASE UNCHANGED vars
  BY <1>6 DEF vars
<1> QED
  BY <1>1, <1>2, <1>3, <1>4, <1>5, <1>6 DEF Next

\* The notice of a write follows the write through "mark", the runner and the
\* completion channel, or is lost to a preemption that is recorded.
LEMMA StaleStep ==
    TypeOK /\ TasksInv /\ StaleResultIsOwed /\ [Next]_vars
        => StaleResultIsOwed'
<1> SUFFICES ASSUME TypeOK, TasksInv, StaleResultIsOwed, [Next]_vars
             PROVE  StaleResultIsOwed'
  OBVIOUS
<1> USE DEF StaleResultIsOwed, InvalidationOwed, TasksInv, TypeOK, Results,
            Phases, refresherVars, channelVars, runnerVars, taskVars,
            contentVars, callerVars
<1>1. CASE Callers
  BY <1>1 DEF Callers, TriggerRefresh, SourceChanges, Query, Expire, Drop
<1>2. CASE RefresherStep
  BY <1>2 DEF RefresherStep, TimerFires, ExternalTrigger, SendStart,
              RefreshComplete, Invalidate
<1>3. CASE RunnerStep
  BY <1>3 DEF RunnerStep, StartRun, Preempt, Notify
<1>4. CASE TaskStep
  BY <1>4 DEF TaskStep, FetchOk, Load, Store, RunOk, TransientError, Retry,
              RunErr
<1>5. CASE Abort
  BY <1>5 DEF Abort, AbortRefresher, AbortRunner
<1>6. CASE UNCHANGED vars
  BY <1>6 DEF vars
<1> QED
  BY <1>1, <1>2, <1>3, <1>4, <1>5, <1>6 DEF Next

\* The status changes with the run it is about.
LEMMA StatusStep ==
    TypeOK /\ StatusIsTruthful /\ [Next]_vars => StatusIsTruthful'
<1> SUFFICES ASSUME TypeOK, StatusIsTruthful, [Next]_vars
             PROVE  StatusIsTruthful'
  OBVIOUS
<1> USE DEF StatusIsTruthful, TypeOK, Results, refresherVars, channelVars,
            runnerVars, taskVars, contentVars, callerVars
<1>1. CASE Callers
  BY <1>1 DEF Callers, TriggerRefresh, SourceChanges, Query, Expire, Drop
<1>2. CASE RefresherStep
  BY <1>2 DEF RefresherStep, TimerFires, ExternalTrigger, SendStart,
              RefreshComplete
<1>3. CASE RunnerStep
  BY <1>3 DEF RunnerStep, StartRun, Preempt, Notify
<1>4. CASE TaskStep
  BY <1>4 DEF TaskStep, FetchOk, Load, Store, RunOk, TransientError, Retry,
              RunErr, ErrorReported
<1>5. CASE Abort
  BY <1>5 DEF Abort, AbortRefresher, AbortRunner
<1>6. CASE UNCHANGED vars
  BY <1>6 DEF vars
<1> QED
  BY <1>1, <1>2, <1>3, <1>4, <1>5, <1>6 DEF Next

(***************************************************************************)
(* The invariant holds of every behaviour.                                 *)
(***************************************************************************)
THEOREM Invariance == Spec => []IInv
<1>1. Init => IInv
  BY SchedulerAssumption
  DEF SchedulerAssumption, Init, IInv, TypeOK, TasksInv, WorkInv, LoadInv,
      StaleResultIsOwed, StatusIsTruthful, ScheduleNeverDies, Work, Count,
      InvalidationOwed, ReadyAfterLoad, Results, Phases, Option, Capacity
<1>2. IInv /\ TypeOK' /\ [Next]_vars => IInv'
  BY TasksStep, WorkStep, LoadStep, StaleStep, StatusStep DEF IInv
<1> QED
  BY <1>1, <1>2, TypeCorrect, PTL DEF Spec

(***************************************************************************)
(* With a check interval the refresh loop always has a next refresh: a     *)
(* timer, a start, a run or a completion (Refresher::start re-arms its     *)
(* timer on completion only).                                              *)
(***************************************************************************)
THEOREM NeverDies == Spec => []ScheduleNeverDies
<1>1. IInv => ScheduleNeverDies
  BY DEF IInv, WorkInv
<1> QED
  BY <1>1, Invariance, PTL

(***************************************************************************)
(* The Refresher and its runner block on each other's channels only after  *)
(* three or more external triggers: each of the four channel positions of  *)
(* the blocked state holds a refresh of its own, and only the first timer  *)
(* and the triggers create one.                                            *)
(***************************************************************************)
THEOREM FewTriggersNeverBlock == Spec => []NotStuckByFewTriggers
<1>1. IInv => NotStuckByFewTriggers
  <2> SUFFICES ASSUME IInv, table = "live", triggered <= 2, Stuck
               PROVE  FALSE
    BY DEF NotStuckByFewTriggers
  <2>1. Work + trigger <= 3
    BY SchedulerAssumption
    DEF SchedulerAssumption, IInv, WorkInv, TypeOK, Work, Count, Option, Capacity
  <2>2. Work >= 4
    BY SchedulerAssumption
    DEF SchedulerAssumption, Stuck, Work, Count, IInv, TypeOK, Option, Capacity
  <2> QED
    BY <2>1, <2>2 DEF IInv, TypeOK, Capacity, Work, Count
<1> QED
  BY <1>1, Invariance, PTL

(***************************************************************************)
(* ready_sender fires only after a refresh has written the accelerator.    *)
(***************************************************************************)
THEOREM ReadyMeansLoaded == Spec => []ReadyAfterLoad
<1>1. IInv => ReadyAfterLoad
  BY DEF IInv, LoadInv
<1> QED
  BY <1>1, Invariance, PTL

(***************************************************************************)
(* A refresh that wrote the accelerator invalidates the cached results it  *)
(* made stale, unless it was preempted between its write and its           *)
(* completion.                                                             *)
(***************************************************************************)
THEOREM WritesInvalidate == Spec => []StaleResultIsOwed
<1>1. IInv => StaleResultIsOwed
  BY DEF IInv
<1> QED
  BY <1>1, Invariance, PTL

(***************************************************************************)
(* The status a run leaves behind agrees with the result it reports.       *)
(***************************************************************************)
THEOREM StatusAgrees == Spec => []StatusIsTruthful
<1>1. IInv => StatusIsTruthful
  BY DEF IInv
<1> QED
  BY <1>1, Invariance, PTL

(***************************************************************************)
(* The source only moves forward, and one run at a time writes what it     *)
(* read: no step makes a run store an older version than the accelerator's.*)
(***************************************************************************)
LEMMA VersionStep == TypeOK /\ VersionInv /\ [Next]_vars => VersionInv'
<1> SUFFICES ASSUME TypeOK, VersionInv, [Next]_vars PROVE VersionInv'
  OBVIOUS
<1> USE SchedulerAssumption
    DEF SchedulerAssumption, VersionInv, TypeOK, Phases, refresherVars,
        channelVars, runnerVars, taskVars, contentVars, callerVars
<1>1. CASE Callers
  BY <1>1 DEF Callers, TriggerRefresh, SourceChanges, Query, Expire, Drop
<1>2. CASE RefresherStep
  BY <1>2 DEF RefresherStep, TimerFires, ExternalTrigger, SendStart,
              RefreshComplete
<1>3. CASE RunnerStep
  BY <1>3 DEF RunnerStep, StartRun, Preempt, Notify
<1>4. CASE TaskStep
  BY <1>4 DEF TaskStep, FetchOk, Load, Store, RunOk, TransientError, Retry,
              RunErr
<1>5. CASE Abort
  BY <1>5 DEF Abort, AbortRefresher, AbortRunner
<1>6. CASE UNCHANGED vars
  BY <1>6 DEF vars
<1> QED
  BY <1>1, <1>2, <1>3, <1>4, <1>5, <1>6 DEF Next

\* Every step of the refresh loop is a step of the abstract copy, or one that
\* its reader does not see: only the source's change, the commit of a run and
\* an Ok completion are visible.
LEMMA RefinementStep ==
    IInv /\ VersionInv /\ [Next]_vars => [Copy!Next]_(Copy!vars)
<1> SUFFICES ASSUME IInv, VersionInv, [Next]_vars
             PROVE  [Copy!Next]_(Copy!vars)
  OBVIOUS
<1>0. TypeOK /\ LoadInv
  BY DEF IInv
<1> USE DEF Copy!Next, Copy!vars, refresherVars, channelVars, runnerVars,
            taskVars, contentVars, callerVars
<1>1. CASE SourceChanges
  BY <1>1 DEF SourceChanges, Copy!SourceAdvances
<1>2. CASE Store
  <2>1. accel' = loaded /\ loaded # 0 /\ accel <= loaded /\ loaded <= source
    BY <1>2, <1>0 DEF Store, VersionInv, LoadInv
  <2>2. accel' \in accel..source
    BY <2>1, <1>0, SchedulerAssumption DEF TypeOK, SchedulerAssumption
  <2> QED
    BY <1>2, <2>1, <2>2 DEF Store, Copy!Refresh
<1>3. CASE RefreshComplete
  <2>1. CASE complete = "Ok"
    BY <1>3, <2>1, <1>0
    DEF RefreshComplete, NotifyDone, LoadInv, InvalidationOwed, Copy!Announce
  <2>2. CASE complete # "Ok"
    BY <1>3, <2>2 DEF RefreshComplete, NotifyDone
  <2> QED BY <2>1, <2>2
<1>4. CASE TriggerRefresh \/ Query \/ Expire \/ Drop
  BY <1>4 DEF TriggerRefresh, Query, Expire, Drop
<1>5. CASE TimerFires \/ ExternalTrigger \/ SendStart
  BY <1>5 DEF TimerFires, ExternalTrigger, SendStart
<1>6. CASE RunnerStep
  BY <1>6 DEF RunnerStep, StartRun, Preempt, Notify
<1>7. CASE FetchOk \/ Load \/ RunOk \/ TransientError \/ Retry \/ RunErr
  BY <1>7 DEF FetchOk, Load, RunOk, TransientError, Retry, RunErr
<1>8. CASE Abort
  BY <1>8 DEF Abort, AbortRefresher, AbortRunner
<1>9. CASE UNCHANGED vars
  BY <1>9 DEF vars
<1> QED
  BY <1>1, <1>2, <1>3, <1>4, <1>5, <1>6, <1>7, <1>8, <1>9
  DEF Next, Callers, RefresherStep, TaskStep

(***************************************************************************)
(* The refresh loop implements MaterializedCopy (Materializes): however    *)
(* runs fail, are retried, preempted or aborted, AcceleratedTable shows a  *)
(* version its source had and never goes back to an older one, and         *)
(* ready_sender announces it only once it has been written.                *)
(***************************************************************************)
THEOREM Implements == Spec => Materializes
<1>1. Init => Copy!Init
  BY DEF Init, Copy!Init
<1>2. Init => VersionInv
  BY DEF Init, VersionInv
<1>3. TypeOK /\ VersionInv /\ [Next]_vars => VersionInv'
  BY VersionStep
<1>4. IInv => TypeOK
  BY DEF IInv
<1>5. IInv /\ VersionInv /\ [Next]_vars => [Copy!Next]_(Copy!vars)
  BY RefinementStep
<1> QED
  BY <1>1, <1>2, <1>3, <1>4, <1>5, Invariance, PTL
  DEF Spec, Materializes, Copy!Spec
=============================================================================
