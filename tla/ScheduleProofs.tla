--------------------------- MODULE ScheduleProofs ---------------------------
(***************************************************************************)
(* The safety properties of Schedule for every set of settings and every   *)
(* number of runs: IInv is inductive, and each property follows from it.   *)
(***************************************************************************)
EXTENDS Schedule, TLAPS

\* What the assumption says of the settings of a run.
LEMMA SettingsTyped ==
  ASSUME settings \in Settings
  PROVE  /\ settings.once \in BOOLEAN /\ settings.duration \in BOOLEAN
         /\ settings.repeat \in Nat /\ settings.repeat < RunBound
         /\ settings.maxAttempts \in Nat \ {0}
         /\ settings.policy \in Policies
         /\ RunBound \in Nat \ {0}
BY SettingsAssumption

\* A capped count goes up by at most one.
LEMMA CountUpTyped ==
  ASSUME NEW n \in Nat, RunBound \in Nat
  PROVE  /\ CountUp(n) \in Nat
         /\ n <= CountUp(n)
         /\ CountUp(n) <= n + 1
         /\ n < RunBound => CountUp(n) = n + 1
BY DEF CountUp

-----------------------------------------------------------------------------
\* The invariant holds initially.
LEMMA InitIInv == Init => IInv
<1> SUFFICES ASSUME Init PROVE IInv
  OBVIOUS
<1>1. settings \in Settings
  BY DEF Init
<1>2. TypeOK
  <2>1. 0 \in 0..settings.maxAttempts
    BY <1>1, SettingsTyped
  <2> QED
    BY <2>1 DEF Init, TypeOK
<1>3. FailureRemembered
  BY <1>2 DEF Init, TypeOK, FailureRemembered, ExitTellsFailure
<1>4. RunsInOrder
  BY <1>1, SettingsTyped DEF Init, RunsInOrder
<1>5. RetryLeft /\ NothingLateYet
  BY DEF Init, RetryLeft, NothingLateYet, ShutdownStopsCycles, ExpiryStopsRuns
<1> QED
  BY <1>2, <1>3, <1>4, <1>5 DEF IInv

\* Every step keeps the types.
LEMMA TypeStep == IInv /\ [Next]_vars => TypeOK'
<1> SUFFICES ASSUME IInv, [Next]_vars PROVE TypeOK'
  OBVIOUS
<1> USE SettingsTyped DEF IInv, TypeOK
<1>1. CASE Shutdown \/ Expire \/ UNCHANGED vars
  <2>1. CASE Shutdown
    BY <2>1 DEF Shutdown, schedVars, driverVars, history
  <2>2. CASE Expire
    BY <2>2 DEF Expire, schedVars, driverVars, history
  <2>3. CASE UNCHANGED vars
    BY <2>3 DEF vars, schedVars, driverVars, history
  <2> QED
    BY <1>1, <2>1, <2>2, <2>3
<1>2. CASE SendStart \/ CheckBounds \/ TriggerDue \/ SleepElapses
  BY <1>2, CountUpTyped DEF SendStart, CheckBounds, TriggerDue, SleepElapses, Emit, driverVars, history
<1>3. CASE TriggerEnds \/ TriggerLater \/ SleepInterrupted \/ SendFails
  BY <1>3 DEF TriggerEnds, TriggerLater, SleepInterrupted, SendFails, driverVars, history
<1>4. CASE TakeRun
  BY <1>4, CountUpTyped DEF TakeRun, BeginCycle
<1>5. CASE CycleSucceeds \/ CycleFails \/ BackoffInterrupted
  BY <1>5 DEF CycleSucceeds, CycleFails, BackoffInterrupted, EndRun, schedVars, history
<1>6. CASE BackoffElapses
  BY <1>6 DEF BackoffElapses, BeginCycle, RetryLeft, schedVars
<1>7. CASE TakeStop
  BY <1>7 DEF TakeStop, history
<1> QED
  BY <1>1, <1>2, <1>3, <1>4, <1>5, <1>6, <1>7 DEF Next, SchedulerStep, DriverStep

\* Only the end of a run and the end of the schedule touch what is remembered.
LEMMA FailureStep == IInv /\ [Next]_vars => FailureRemembered'
<1> SUFFICES ASSUME IInv, [Next]_vars PROVE FailureRemembered'
  OBVIOUS
<1> USE SettingsTyped DEF IInv, TypeOK, FailureRemembered, ExitTellsFailure, Policies
<1>1. CASE Shutdown \/ Expire \/ SchedulerStep \/ UNCHANGED vars
  <2>1. UNCHANGED <<settings, driverVars, failed>>
    BY <1>1 DEF Shutdown, Expire, SchedulerStep, SendStart, CheckBounds, TriggerEnds, TriggerDue,
                TriggerLater, SleepElapses, SleepInterrupted, SendFails, vars, history
  <2> QED
    BY <2>1 DEF driverVars
<1>2. CASE TakeRun \/ BackoffElapses
  BY <1>2 DEF TakeRun, BackoffElapses, BeginCycle
<1>3. CASE CycleSucceeds
  BY <1>3 DEF CycleSucceeds, EndRun
<1>4. CASE CycleFails
  BY <1>4 DEF CycleFails, EndRun, history
<1>5. CASE BackoffInterrupted
  BY <1>5 DEF BackoffInterrupted, EndRun
<1>6. CASE TakeStop
  BY <1>6 DEF TakeStop, history
<1> QED
  BY <1>1, <1>2, <1>3, <1>4, <1>5, <1>6 DEF Next, DriverStep

\* Runs are numbered within the bound and taken one by one.
LEMMA RunsStep == IInv /\ [Next]_vars => RunsInOrder'
<1> SUFFICES ASSUME IInv, [Next]_vars PROVE RunsInOrder'
  OBVIOUS
<1> USE SettingsTyped DEF IInv, TypeOK, RunsInOrder
<1>1. CASE Shutdown \/ Expire \/ UNCHANGED vars
  <2>1. CASE Shutdown
    BY <2>1 DEF Shutdown, schedVars, driverVars, history
  <2>2. CASE Expire
    BY <2>2 DEF Expire, schedVars, driverVars, history
  <2>3. CASE UNCHANGED vars
    BY <2>3 DEF vars, schedVars, driverVars, history
  <2> QED
    BY <1>1, <2>1, <2>2, <2>3
<1>2. CASE SendStart
  BY <1>2, CountUpTyped DEF SendStart, Emit, driverVars, history
<1>3. CASE CheckBounds
  BY <1>3, CountUpTyped DEF CheckBounds, RunsOut, Emit, driverVars, history
<1>4. CASE TriggerDue \/ SleepElapses
  BY <1>4, CountUpTyped DEF TriggerDue, SleepElapses, Emit, driverVars, history
<1>5. CASE TriggerEnds \/ TriggerLater \/ SleepInterrupted \/ SendFails
  BY <1>5 DEF TriggerEnds, TriggerLater, SleepInterrupted, SendFails, driverVars, history
<1>6. CASE TakeRun
  BY <1>6, CountUpTyped DEF TakeRun, BeginCycle
<1>7. CASE CycleSucceeds \/ CycleFails \/ BackoffInterrupted \/ BackoffElapses
  BY <1>7 DEF CycleSucceeds, CycleFails, BackoffInterrupted, BackoffElapses, BeginCycle, EndRun,
              schedVars, history
<1>8. CASE TakeStop
  BY <1>8 DEF TakeStop, history
<1> QED
  BY <1>1, <1>2, <1>3, <1>4, <1>5, <1>6, <1>7, <1>8 DEF Next, SchedulerStep, DriverStep

\* A failed cycle backs off only while an attempt is left.
LEMMA RetryStep == IInv /\ [Next]_vars => RetryLeft'
<1> SUFFICES ASSUME IInv, [Next]_vars PROVE RetryLeft'
  OBVIOUS
<1> USE SettingsTyped DEF IInv, TypeOK, RetryLeft
<1>1. CASE Shutdown \/ Expire \/ SchedulerStep \/ UNCHANGED vars
  BY <1>1 DEF Shutdown, Expire, SchedulerStep, SendStart, CheckBounds, TriggerEnds, TriggerDue,
              TriggerLater, SleepElapses, SleepInterrupted, SendFails, driverVars, vars
<1>2. CASE DriverStep
  BY <1>2 DEF DriverStep, TakeRun, CycleSucceeds, CycleFails, BackoffElapses, BackoffInterrupted,
              TakeStop, BeginCycle, EndRun
<1> QED
  BY <1>1, <1>2 DEF Next

\* A run is prepared only where the flag and the deadline were looked at.
LEMMA LateStep == IInv /\ [Next]_vars => NothingLateYet'
<1> SUFFICES ASSUME IInv, [Next]_vars PROVE NothingLateYet'
  OBVIOUS
<1> USE SettingsTyped DEF IInv, TypeOK, NothingLateYet, ShutdownStopsCycles, ExpiryStopsRuns
<1>1. CASE Shutdown \/ Expire \/ UNCHANGED vars
  BY <1>1 DEF Shutdown, Expire, vars, schedVars, history
<1>2. CASE SendStart \/ TriggerDue \/ SleepElapses
  BY <1>2 DEF SendStart, TriggerDue, SleepElapses, Emit, history
<1>3. CASE CheckBounds
  BY <1>3 DEF CheckBounds, Emit, history
<1>4. CASE TriggerEnds \/ TriggerLater \/ SleepInterrupted \/ SendFails
  BY <1>4 DEF TriggerEnds, TriggerLater, SleepInterrupted, SendFails, history
<1>5. CASE TakeRun
  BY <1>5 DEF TakeRun, BeginCycle
<1>6. CASE CycleSucceeds \/ CycleFails \/ BackoffInterrupted
  BY <1>6 DEF CycleSucceeds, CycleFails, BackoffInterrupted, EndRun, schedVars, history
<1>7. CASE BackoffElapses
  BY <1>7 DEF BackoffElapses, BeginCycle, schedVars
<1>8. CASE TakeStop
  BY <1>8 DEF TakeStop, history
<1> QED
  BY <1>1, <1>2, <1>3, <1>4, <1>5, <1>6, <1>7, <1>8 DEF Next, SchedulerStep, DriverStep

-----------------------------------------------------------------------------
\* IInv is an invariant of the schedule: what the scheduler thread and the driver
\* (drive_repeating, run_schedule) keep true between any two of their steps.
THEOREM ScheduleInvariant == Spec => []IInv
<1>1. Init => IInv
  BY InitIInv
<1>2. IInv /\ [Next]_vars => IInv'
  BY TypeStep, FailureStep, RunsStep, RetryStep, LateStep DEF IInv
<1> QED
  BY <1>1, <1>2, PTL DEF Spec

\* The exit status of run_schedule tells whether a run failed for good.
THEOREM ExitStatus == Spec => []ExitTellsFailure
<1>1. IInv => ExitTellsFailure
  BY DEF IInv, FailureRemembered
<1> QED
  BY <1>1, ScheduleInvariant, PTL

\* The driver never takes more runs than repeat allows (drive_repeating), for
\* every repeat count and every number of retries.
THEOREM RepeatBound == Spec => []RepeatIsRespected
<1>1. IInv => RepeatIsRespected
  BY SettingsTyped DEF IInv, TypeOK, RunsInOrder, RepeatIsRespected
<1> QED
  BY <1>1, ScheduleInvariant, PTL

\* At most one cycle begins after the shutdown flag is raised.
THEOREM ShutdownBound == Spec => []ShutdownStopsCycles
<1>1. IInv => ShutdownStopsCycles
  BY DEF IInv, NothingLateYet
<1> QED
  BY <1>1, ScheduleInvariant, PTL

\* At most one run begins after the duration has expired.
THEOREM ExpiryBound == Spec => []ExpiryStopsRuns
<1>1. IInv => ExpiryStopsRuns
  BY DEF IInv, NothingLateYet
<1> QED
  BY <1>1, ScheduleInvariant, PTL

\* Under Abort nothing is taken or retried after a failed run (run_schedule).
THEOREM AbortEnds == Spec => AbortIsLast
<1>1. ASSUME IInv, [Next]_vars, settings.policy = "Abort", failed
      PROVE  taken' = taken /\ attempt' = attempt
  <2>1. driver = "done"
    BY <1>1 DEF IInv, FailureRemembered
  <2> QED
    BY <1>1, <2>1 DEF Next, Shutdown, Expire, SchedulerStep, SendStart, CheckBounds, TriggerEnds,
       TriggerDue, TriggerLater, SleepElapses, SleepInterrupted, SendFails, DriverStep, TakeRun,
       CycleSucceeds, CycleFails, BackoffElapses, BackoffInterrupted, TakeStop, vars, driverVars, history
<1>2. IInv /\ [Next]_vars
        => [settings.policy = "Abort" /\ failed => taken' = taken /\ attempt' = attempt]_vars
  BY <1>1
<1> QED
  BY <1>2, ScheduleInvariant, PTL DEF Spec, AbortIsLast
=============================================================================
