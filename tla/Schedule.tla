------------------------------ MODULE Schedule ------------------------------
(***************************************************************************)
(* A whole run: the scheduler thread decides when a cycle starts           *)
(* (cassiopeia-scheduler), the driver takes each run from it, retries a    *)
(* failed cycle and applies the failure policy (schedule_driver.rs).  The  *)
(* two meet on a channel of size zero: a send blocks until the driver      *)
(* takes it, while the driver is busy with a cycle it takes nothing.       *)
(*                                                                         *)
(* A cycle is an action that succeeds or fails; InputPhase and OutputPhase *)
(* model what happens in it.  Time is two facts: whether the schedule's    *)
(* duration has expired, and that every wait ends.                         *)
(***************************************************************************)
EXTENDS Naturals

CONSTANTS
  Settings,   \* the schedules to consider
  RunBound    \* run numbers are counted up to this bound, beyond every repeat count

Policies == {"Abort", "Continue", "Ignore"}

\* once: no schedule at all.  repeat = 0: no repeat bound.  duration: a duration
\* is set.  maxAttempts: 1 without a retry policy.
ASSUME SettingsAssumption ==
  /\ RunBound \in Nat \ {0}
  /\ \A c \in Settings :
       /\ c.once \in BOOLEAN /\ c.duration \in BOOLEAN
       /\ c.repeat \in Nat /\ c.repeat < RunBound
       /\ c.maxAttempts \in Nat \ {0}
       /\ c.policy \in Policies

VARIABLES
  settings,     \* the manifest's schedule, retry and onFailure settings
  shutdown,     \* the process-wide shutdown flag
  expired,      \* the schedule's deadline has passed
  sched,        \* where the scheduler thread is
  runNumber,    \* its run_number
  driver,       \* where the driver is
  attempt,      \* the driver's attempt
  firstFailure, \* the driver's first_failure is set
  exit,         \* what run_schedule returned
  taken,        \* history: runs the driver took, counted up to RunBound
  failed,       \* history: some run failed for good
  afterShutdown,\* history: cycles begun after the shutdown flag was raised
  afterExpiry   \* history: runs begun after the deadline

schedVars == <<sched, runNumber>>
driverVars == <<driver, attempt, firstFailure, exit>>
history == <<taken, failed, afterShutdown, afterExpiry>>
vars == <<settings, shutdown, expired, schedVars, driverVars, history>>

Init ==
  /\ settings \in Settings
  /\ shutdown = FALSE /\ expired = FALSE
  /\ sched = "start" /\ runNumber = 0
  /\ driver = "recv" /\ attempt = 0 /\ firstFailure = FALSE /\ exit = "running"
  /\ taken = 0 /\ failed = FALSE /\ afterShutdown = 0 /\ afterExpiry = 0

\* The signal handler raises the shutdown flag.
Shutdown ==
  /\ shutdown = FALSE
  /\ shutdown' = TRUE
  /\ UNCHANGED <<settings, expired, schedVars, driverVars, history>>

\* Instant::now() reaches the deadline.
Expire ==
  /\ settings.duration /\ expired = FALSE
  /\ expired' = TRUE
  /\ UNCHANGED <<settings, shutdown, schedVars, driverVars, history>>

-----------------------------------------------------------------------------
\* Scheduler thread (run, drive_repeating).

CountUp(n) == IF n < RunBound THEN n + 1 ELSE n

\* The next run is numbered and its payload is being sent.
Emit ==
  /\ runNumber' = CountUp(runNumber)
  /\ sched' = "send"

SendStart ==
  /\ sched = "start" /\ driver = "recv"
  /\ IF settings.once
       THEN Emit
       ELSE sched' = "check" /\ UNCHANGED runNumber
  /\ UNCHANGED <<settings, shutdown, expired, driverVars, history>>

RunsOut == settings.repeat > 0 /\ runNumber >= settings.repeat

\* Mutant: the deadline is not looked at.
CheckBoundsUntimed ==
  /\ sched = "check"
  /\ IF shutdown \/ RunsOut
       THEN sched' = "stop" /\ UNCHANGED runNumber
       ELSE IF runNumber = 0
         THEN Emit
         ELSE sched' = "wait" /\ UNCHANGED runNumber
  /\ UNCHANGED <<settings, shutdown, expired, driverVars, history>>

\* The top of the loop: shutdown, deadline, repeat count; the first run fires at once.
CheckBounds ==
  /\ sched = "check"
  /\ IF shutdown \/ (settings.duration /\ expired) \/ RunsOut
       THEN sched' = "stop" /\ UNCHANGED runNumber
       ELSE IF runNumber = 0
         THEN Emit
         ELSE sched' = "wait" /\ UNCHANGED runNumber
  /\ UNCHANGED <<settings, shutdown, expired, driverVars, history>>

\* next_wait names no further run.
TriggerEnds ==
  /\ sched = "wait"
  /\ sched' = "stop"
  /\ UNCHANGED <<settings, shutdown, expired, runNumber, driverVars, history>>

\* The trigger is due now, so nothing is slept and the flag is not read.
TriggerDue ==
  /\ sched = "wait"
  /\ Emit
  /\ UNCHANGED <<settings, shutdown, expired, driverVars, history>>

TriggerLater ==
  /\ sched = "wait"
  /\ sched' = "sleep"
  /\ UNCHANGED <<settings, shutdown, expired, runNumber, driverVars, history>>

\* interruptible_sleep reads the flag on every tick and once more at the end.
SleepElapses ==
  /\ sched = "sleep" /\ ~shutdown
  /\ Emit
  /\ UNCHANGED <<settings, shutdown, expired, driverVars, history>>

\* Mutant: an interrupted sleep waits for the trigger again.
SleepRestarted ==
  /\ sched = "sleep" /\ shutdown
  /\ sched' = "wait"
  /\ UNCHANGED <<settings, shutdown, expired, runNumber, driverVars, history>>

SleepInterrupted ==
  /\ sched = "sleep" /\ shutdown
  /\ sched' = "stop"
  /\ UNCHANGED <<settings, shutdown, expired, runNumber, driverVars, history>>

\* The driver has dropped its receiver.
SendFails ==
  /\ sched \in {"send", "stop"} /\ driver = "done"
  /\ sched' = IF sched = "send" THEN "stop" ELSE "done"
  /\ UNCHANGED <<settings, shutdown, expired, runNumber, driverVars, history>>

-----------------------------------------------------------------------------
\* Driver (run_schedule, run_with_retry).

\* run_cycle begins.
BeginCycle(n) ==
  /\ driver' = "cycle"
  /\ attempt' = n
  /\ afterShutdown' = IF shutdown THEN afterShutdown + 1 ELSE afterShutdown

TakeRun ==
  /\ sched = "send" /\ driver = "recv"
  /\ sched' = IF settings.once THEN "stop" ELSE "check"
  /\ BeginCycle(1)
  /\ afterExpiry' = IF expired THEN afterExpiry + 1 ELSE afterExpiry
  /\ taken' = CountUp(taken)
  /\ UNCHANGED <<settings, shutdown, expired, runNumber, firstFailure, exit, failed>>

\* Mutants: a failure is recorded under no policy; Abort fails the run and goes on.
EndRunForgetful(isErr) ==
  /\ failed' = (failed \/ isErr)
  /\ IF isErr /\ settings.policy = "Abort"
       THEN driver' = "done" /\ exit' = "Err"
       ELSE driver' = "recv" /\ UNCHANGED exit
  /\ UNCHANGED <<attempt, firstFailure, taken, afterShutdown, afterExpiry>>

EndRunGoesOn(isErr) ==
  /\ failed' = (failed \/ isErr)
  /\ firstFailure' = (firstFailure \/ (isErr /\ settings.policy # "Ignore"))
  /\ driver' = "recv"
  /\ UNCHANGED <<attempt, exit, taken, afterShutdown, afterExpiry>>

\* The run is over for good; isErr tells whether run_with_retry returned an error.
EndRun(isErr) ==
  /\ failed' = (failed \/ isErr)
  /\ firstFailure' = (firstFailure \/ (isErr /\ settings.policy = "Continue"))
  /\ IF isErr /\ settings.policy = "Abort"
       THEN driver' = "done" /\ exit' = "Err"
       ELSE driver' = "recv" /\ UNCHANGED exit
  /\ UNCHANGED <<attempt, taken, afterShutdown, afterExpiry>>

CycleSucceeds ==
  /\ driver = "cycle"
  /\ EndRun(FALSE)
  /\ UNCHANGED <<settings, shutdown, expired, schedVars>>

CycleFails ==
  /\ driver = "cycle"
  /\ IF attempt >= settings.maxAttempts
       THEN EndRun(TRUE)
       ELSE /\ driver' = "backoff"
            /\ UNCHANGED <<attempt, firstFailure, exit, history>>
  /\ UNCHANGED <<settings, shutdown, expired, schedVars>>

\* Mutants: the flag is not read after the backoff; a retry is not counted.
BackoffUninterruptible ==
  /\ driver = "backoff"
  /\ BeginCycle(attempt + 1)
  /\ UNCHANGED <<settings, shutdown, expired, schedVars, firstFailure, exit, taken, failed, afterExpiry>>

BackoffUncounted ==
  /\ driver = "backoff" /\ ~shutdown
  /\ BeginCycle(attempt)
  /\ UNCHANGED <<settings, shutdown, expired, schedVars, firstFailure, exit, taken, failed, afterExpiry>>

BackoffElapses ==
  /\ driver = "backoff" /\ ~shutdown
  /\ BeginCycle(attempt + 1)
  /\ UNCHANGED <<settings, shutdown, expired, schedVars, firstFailure, exit, taken, failed, afterExpiry>>

BackoffInterrupted ==
  /\ driver = "backoff" /\ shutdown
  /\ EndRun(TRUE)
  /\ UNCHANGED <<settings, shutdown, expired, schedVars>>

TakeStop ==
  /\ sched = "stop" /\ driver = "recv"
  /\ sched' = "done"
  /\ driver' = "done"
  /\ exit' = IF firstFailure THEN "Err" ELSE "Ok"
  /\ UNCHANGED <<settings, shutdown, expired, runNumber, attempt, firstFailure, history>>

-----------------------------------------------------------------------------
SchedulerStep ==
  \/ SendStart \/ CheckBounds \/ TriggerEnds \/ TriggerDue \/ TriggerLater
  \/ SleepElapses \/ SleepInterrupted \/ SendFails

DriverStep ==
  \/ TakeRun \/ CycleSucceeds \/ CycleFails
  \/ BackoffElapses \/ BackoffInterrupted \/ TakeStop

Terminated == driver = "done" /\ sched = "done"

Next ==
  \/ Shutdown
  \/ Expire
  \/ SchedulerStep
  \/ DriverStep
  \/ Terminated /\ UNCHANGED vars

\* Both threads keep running, a wait ends, and a cycle ends (OutputPhase and
\* InputLane: every thread terminates).  No signal need come.
Fairness == WF_vars(SchedulerStep) /\ WF_vars(DriverStep)

Spec == Init /\ [][Next]_vars
FairSpec == Spec /\ Fairness

-----------------------------------------------------------------------------
\* Type invariant.
TypeOK ==
  /\ settings \in Settings
  /\ shutdown \in BOOLEAN /\ expired \in BOOLEAN
  /\ sched \in {"start", "check", "wait", "sleep", "send", "stop", "done"}
  /\ runNumber \in Nat
  /\ driver \in {"recv", "cycle", "backoff", "done"}
  /\ attempt \in 0..settings.maxAttempts
  /\ firstFailure \in BOOLEAN
  /\ exit \in {"running", "Ok", "Err"}
  /\ taken \in Nat /\ failed \in BOOLEAN
  /\ afterShutdown \in Nat /\ afterExpiry \in Nat

\* The exit status tells whether a run failed for good (run_schedule,
\* record_cycle_failure): zero under Ignore, otherwise non-zero exactly when some
\* run failed, also when a shutdown cut a retry short.
ExitTellsFailure ==
  exit # "running" => (exit = "Err" <=> settings.policy # "Ignore" /\ failed)

\* Under Abort a failed run is the last one: the driver takes no other, although
\* the scheduler may already be offering it (run_schedule).
AbortIsLast ==
  [][settings.policy = "Abort" /\ failed => taken' = taken /\ attempt' = attempt]_vars

\* repeat bounds the runs the driver takes, however many cycles their retries
\* need (drive_repeating, run_with_retry): a retry is not a run.
RepeatIsRespected ==
  /\ settings.repeat > 0 /\ ~settings.once => taken <= settings.repeat
  /\ settings.once => taken <= 1

\* After the shutdown flag is raised at most one more cycle begins: the run the
\* scheduler was already offering.  A retry never does (interruptible_sleep).
ShutdownStopsCycles == afterShutdown <= 1

\* After the duration has expired at most one more run begins.
ExpiryStopsRuns == afterExpiry <= 1

\* A shutdown ends the run, wherever the two threads are (sleep, rendezvous, cycle
\* or backoff): the scheduler and the driver never wait for each other.
ShutdownTerminates == shutdown ~> Terminated

\* An expired duration ends the run too, whatever repeat says: retries are counted
\* and the scheduler looks at the deadline before every run (drive_repeating).
ExpiryTerminates == expired ~> Terminated

-----------------------------------------------------------------------------
\* The inductive invariant behind the safety properties.

\* A failure is remembered as the policy says, and the driver is done exactly
\* when run_schedule has returned.
FailureRemembered ==
  /\ driver = "done" <=> exit # "running"
  /\ firstFailure <=> failed /\ settings.policy = "Continue"
  /\ settings.policy = "Abort" /\ failed => exit = "Err"
  /\ ExitTellsFailure

\* While a run is on offer it is not taken yet, and only a run within the bound
\* is on its way.
RunsInOrder ==
  /\ settings.once => /\ sched \in {"start", "send", "stop", "done"}
                      /\ taken <= 1
                      /\ sched \in {"start", "send"} => taken = 0
  /\ settings.repeat > 0 /\ ~settings.once =>
       /\ taken <= runNumber /\ runNumber <= settings.repeat
       /\ sched \in {"wait", "sleep"} => runNumber < settings.repeat
       /\ sched = "send" => taken < runNumber

\* A retry is left whenever the driver backs off.
RetryLeft == driver = "backoff" => attempt < settings.maxAttempts

\* The scheduler has a run in preparation only while none began too late.
NothingLateYet ==
  /\ expired => settings.duration
  /\ ~shutdown => afterShutdown = 0
  /\ ~expired => afterExpiry = 0
  /\ sched \in {"start", "wait", "sleep", "send"} => afterShutdown = 0 /\ afterExpiry = 0
  /\ ShutdownStopsCycles
  /\ ExpiryStopsRuns

\* The parts together: what the scheduler and the driver keep true between any two
\* of their steps (drive_repeating, run_schedule, run_with_retry).
IInv == TypeOK /\ FailureRemembered /\ RunsInOrder /\ RetryLeft /\ NothingLateYet
=============================================================================
