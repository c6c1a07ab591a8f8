-------------------------- MODULE ResumeSystemProofs --------------------------
(***************************************************************************)
(* The waiters' lock keeps the runners apart, although these take none:    *)
(* the system refines the runners in turn, for any number of waiters, any  *)
(* plan and any data, when signals reach waiter and runner together.       *)
(***************************************************************************)
EXTENDS ResumeSystem, TLAPS

\* The theorems about the waiters' lock, on the variables of the system, in which
\* nobody calls the script that locks the devices.
Lock == INSTANCE GpuLockProofs
          WITH Call <- {}, InTurn <- TRUE,
               perms <- [group |-> "system", mode |-> "system"],
               call <- <<>>, watch <- <<>>, backup <- <<>>

LEMMA SameLock == W!LockDiscipline <=> Lock!LockDiscipline
BY DEF W!LockDiscipline, Lock!LockDiscipline, W!TypeOK, Lock!TypeOK, W!Starting, Lock!Starting,
       W!Stopping, Lock!Stopping, W!Active, Lock!Active, W!Place, Lock!Place, W!Ended, Lock!Ended

LEMMA WaitersAreLocked == W!Init => W!LockDiscipline
<1>1. W!Init => Lock!Init
  BY DEF W!Init, Lock!Init
<1> QED
  BY <1>1, SameLock, SystemAssumption, Lock!LockDisciplineInit DEF Lock!WaiterAssumption, Lock!LockAssumption

LEMMA WaitersTakeSteps ==
  ASSUME [W!Next]_waiter
  PROVE  [Lock!Next]_(Lock!waiterVars)
<1> USE DEF W!Starting, Lock!Starting, W!Stopping, Lock!Stopping, W!Active, Lock!Active,
            W!Ended, Lock!Ended, W!Goto, Lock!Goto
<1>1. ASSUME NEW p \in Pid
      PROVE  /\ W!StartWaiter(p) => Lock!StartWaiter(p)
             /\ W!SeeGpuFree(p) => Lock!SeeGpuFree(p)
             /\ W!Leave(p) => Lock!Leave(p)
             /\ W!Kill(p) => Lock!Kill(p)
             /\ W!OtherProgram(p) => Lock!OtherProgram(p)
  BY DEF W!StartWaiter, Lock!StartWaiter, W!SeeGpuFree, Lock!SeeGpuFree, W!Leave, Lock!Leave,
         W!Kill, Lock!Kill, W!OtherProgram, Lock!OtherProgram, W!Undisturbed, Lock!Undisturbed
<1>2. ASSUME NEW p \in Pid, W!Script(p)
      PROVE  Lock!Script(p)
  <2>1. /\ W!Mkdir(p) => Lock!Mkdir(p)
        /\ W!ReadPid(p) => Lock!ReadPid(p)
        /\ W!Probe(p) => Lock!Probe(p)
        /\ W!RemoveStale(p) => Lock!RemoveStale(p)
    BY DEF W!Mkdir, Lock!Mkdir, W!ReadPid, Lock!ReadPid, W!Probe, Lock!Probe,
           W!RemoveStale, Lock!RemoveStale, W!Alive, Lock!Alive
  <2>2. /\ W!MkdirAgain(p) => Lock!MkdirAgain(p)
        /\ W!WritePid(p) => Lock!WritePid(p)
        /\ W!TrapRemovesPid(p) => Lock!TrapRemovesPid(p)
        /\ W!TrapRemovesLock(p) => Lock!TrapRemovesLock(p)
    BY DEF W!MkdirAgain, Lock!MkdirAgain, W!WritePid, Lock!WritePid,
           W!TrapRemovesPid, Lock!TrapRemovesPid, W!TrapRemovesLock, Lock!TrapRemovesLock
  <2> QED
    BY <1>2, <2>1, <2>2 DEF W!Script, Lock!Script
<1>3. CASE UNCHANGED waiter
  BY <1>3 DEF waiter, Lock!waiterVars
<1>4. CASE W!Next
  <2>1. W!Exhausted => Lock!Exhausted
    BY DEF W!Exhausted, Lock!Exhausted, W!waiterVars, Lock!waiterVars
  <2> QED
    BY <1>1, <1>2, <1>4, <2>1 DEF W!Next, Lock!Next
<1> QED
  BY <1>3, <1>4

LEMMA WaitersStayLocked ==
  ASSUME Spaced, W!LockDiscipline, [W!Next]_waiter
  PROVE  W!LockDiscipline'
<1>1. Lock!LockDiscipline'
  BY WaitersTakeSteps, SameLock, SystemAssumption, Lock!LockDisciplineStep DEF Lock!WaiterAssumption, Lock!LockAssumption
<1>2. W!LockDiscipline' <=> Lock!LockDiscipline'
  BY DEF W!LockDiscipline, Lock!LockDiscipline, W!TypeOK, Lock!TypeOK, W!Starting, Lock!Starting,
         W!Stopping, Lock!Stopping, W!Active, Lock!Active, W!Place, Lock!Place, W!Ended, Lock!Ended
<1> QED
  BY <1>1, <1>2

-------------------------------------------------------------------------------
(* The steps of a runner are those of a runner in its turn.                  *)

LEMMA SameStep ==
  ASSUME NEW p \in Pid
  PROVE  (R!Advance(p) <=> Solo!Advance(p)) /\ (R!Crash(p) <=> Solo!Crash(p))
<1> USE DEF R!Do, Solo!Do, R!Proceed, Solo!Proceed, R!Begin, Solo!Begin, R!Stop, Solo!Stop,
            R!Experiment, Solo!Experiment, R!File, Solo!File, R!disk, Solo!disk,
            R!NoJob, Solo!NoJob, R!Empty, Solo!Empty, R!csv_done, Solo!csv_done,
            R!InputIs, Solo!InputIs, R!Running, Solo!Running, R!Training, Solo!Training
<1>1. R!SkipExport(p) <=> Solo!SkipExport(p)
  BY Zenon DEF R!SkipExport, Solo!SkipExport
<1>2. R!StartExport(p) <=> Solo!StartExport(p)
  BY Zenon DEF R!StartExport, Solo!StartExport
<1>3. R!OpenTns(p) <=> Solo!OpenTns(p)
  BY Zenon DEF R!OpenTns, Solo!OpenTns
<1>4. R!WriteTns(p) <=> Solo!WriteTns(p)
  BY Zenon DEF R!WriteTns, Solo!WriteTns
<1>5. R!WriteManifest(p) <=> Solo!WriteManifest(p)
  BY Zenon DEF R!WriteManifest, Solo!WriteManifest
<1>6. R!Skip(p) <=> Solo!Skip(p)
  BY Zenon DEF R!Skip, Solo!Skip
<1>7. R!Run(p) <=> Solo!Run(p)
  BY Zenon DEF R!Run, Solo!Run
<1>8. R!Clean(p) <=> Solo!Clean(p)
  BY Zenon DEF R!Clean, Solo!Clean
<1>9. R!Train(p) <=> Solo!Train(p)
  BY Zenon DEF R!Train, Solo!Train
<1>10. R!NoInput(p) <=> Solo!NoInput(p)
  BY Zenon DEF R!NoInput, Solo!NoInput
<1>11. R!Open(p) <=> Solo!Open(p)
  BY Zenon DEF R!Open, Solo!Open
<1>12. R!Write(p) <=> Solo!Write(p)
  BY Zenon DEF R!Write, Solo!Write
<1>13. R!Finish(p) <=> Solo!Finish(p)
  BY Zenon DEF R!Finish, Solo!Finish
<1>14. R!Move(p) <=> Solo!Move(p)
  BY Zenon DEF R!Move, Solo!Move, R!MoveTmp, Solo!MoveTmp
<1>15. R!End(p) <=> Solo!End(p)
  BY Zenon DEF R!End, Solo!End
<1>16. R!Crash(p) <=> Solo!Crash(p)
  BY Zenon DEF R!Crash, Solo!Crash
<1> QED
  BY <1>1, <1>2, <1>3, <1>4, <1>5, <1>6, <1>7, <1>8, <1>9, <1>10, <1>11, <1>12, <1>13, <1>14, <1>15, <1>16
     DEF R!Advance, Solo!Advance, R!Export, Solo!Export, R!Perform, Solo!Perform

LEMMA SameStart ==
  ASSUME NEW p \in Pid, R!StartRunner(p), \A q \in Pid : step[q] \notin R!Running
  PROVE  Solo!StartRunner(p)
BY DEF R!StartRunner, Solo!StartRunner, R!Do, Solo!Do, R!disk, Solo!disk,
       R!Running, Solo!Running, R!Training, Solo!Training

LEMMA SameInit == R!Init => Solo!Init
BY Zenon DEF R!Init, Solo!Init, R!Experiment, Solo!Experiment, R!File, Solo!File,
             R!Empty, Solo!Empty, R!NoJob, Solo!NoJob

\* A runner works while it runs, and on nobody else's step.
LEMMA AdvanceStep ==
  ASSUME NEW p \in Pid, R!Advance(p) \/ R!Crash(p), step \in [Pid -> R!Step]
  PROVE  /\ step[p] \in R!Running /\ step' \in [Pid -> R!Step]
         /\ \A q \in Pid \ {p} : step'[q] = step[q]
         /\ R!Crash(p) => step'[p] \notin R!Running
<1> USE DEF R!Do, R!Proceed, R!Begin, R!Stop, R!Running, R!Training, R!Step
<1>1. CASE R!Crash(p)
  BY <1>1 DEF R!Crash
<1>2. CASE R!Export(p)
  BY <1>2 DEF R!Export, R!SkipExport, R!StartExport, R!OpenTns, R!WriteTns, R!WriteManifest, R!Crash
<1>3. CASE R!Skip(p) \/ R!Run(p) \/ R!End(p)
  BY <1>3 DEF R!Skip, R!Run, R!End, R!Crash
<1>4. CASE R!Perform(p)
  BY <1>4 DEF R!Perform, R!Clean, R!Train, R!NoInput, R!Open, R!Write, R!Finish, R!Move,
              R!MoveTmp, R!Crash
<1> QED
  BY <1>1, <1>2, <1>3, <1>4 DEF R!Advance

-------------------------------------------------------------------------------

\* A runner runs only while its waiter waits for it.
SystemInv ==
  /\ W!LockDiscipline
  /\ step \in [Pid -> R!Step]
  /\ together => \A p \in Pid : step[p] \in R!Running => at[p] = "run"

LEMMA SystemInit == Init => SystemInv
<1> SUFFICES ASSUME Init PROVE SystemInv
  OBVIOUS
<1>1. W!LockDiscipline
  BY WaitersAreLocked DEF Init
<1>2. step = [p \in Pid |-> "off"]
  BY DEF Init, R!Init
<1> QED
  BY <1>1, <1>2 DEF SystemInv, R!Step, R!Running, R!Training

\* What the waiters do is what waiters do without runners.
LEMMA SystemWaits ==
  ASSUME Next PROVE [W!Next]_waiter
<1>1. ASSUME NEW p \in Pid, Wait(p) \/ Resume(p) \/ RunnerEnds(p) \/ Interrupt(p) \/ Kill(p)
      PROVE  W!Next
  BY <1>1 DEF Wait, Resume, RunnerEnds, Interrupt, Kill, W!Next
<1>2. ASSUME NEW p \in Pid, RunnerStep(p) \/ RunnerDies(p)
      PROVE  UNCHANGED waiter
  BY <1>2 DEF RunnerStep, RunnerDies
<1>3. ASSUME AllOver PROVE W!Next
  BY <1>3 DEF AllOver, W!Next
<1> QED
  BY <1>1, <1>2, <1>3 DEF Next

\* The line a waiter is about to run, where that concerns its runner.
LEMMA WhereWaitersGo ==
  ASSUME W!TypeOK, NEW p \in Pid
  PROVE  /\ W!StartWaiter(p) \/ W!Script(p) \/ W!OtherProgram(p) =>
              at[p] # "run" /\ \A q \in Pid \ {p} : at'[q] = at[q]
         /\ W!SeeGpuFree(p) =>
              at[p] = "wait" /\ at'[p] = "run" /\ \A q \in Pid \ {p} : at'[q] = at[q]
         /\ W!Leave(p) \/ W!Kill(p) => \A q \in Pid \ {p} : at'[q] = at[q]
<1> USE DEF W!TypeOK, W!Goto
<1>1. W!StartWaiter(p) \/ W!OtherProgram(p) =>
        at[p] # "run" /\ \A q \in Pid \ {p} : at'[q] = at[q]
  BY DEF W!StartWaiter, W!OtherProgram, W!Ended
<1>2. W!Script(p) => at[p] # "run" /\ \A q \in Pid \ {p} : at'[q] = at[q]
  BY DEF W!Script, W!Mkdir, W!ReadPid, W!Probe, W!RemoveStale, W!MkdirAgain, W!WritePid,
         W!TrapRemovesPid, W!TrapRemovesLock
<1>3. /\ W!SeeGpuFree(p) =>
           at[p] = "wait" /\ at'[p] = "run" /\ \A q \in Pid \ {p} : at'[q] = at[q]
      /\ W!Leave(p) \/ W!Kill(p) => \A q \in Pid \ {p} : at'[q] = at[q]
  BY DEF W!SeeGpuFree, W!Leave, W!Kill
<1> QED
  BY <1>1, <1>2, <1>3

LEMMA SystemStep ==
  ASSUME Spaced, SystemInv, [Next]_systemVars
  PROVE  SystemInv'
<1> USE DEF SystemInv
<1>1. W!LockDiscipline'
  BY SystemWaits, WaitersStayLocked DEF systemVars
<1>2. W!TypeOK
  BY DEF W!LockDiscipline
<1> DEFINE Waited == together => \A p \in Pid : step[p] \in R!Running => at[p] = "run"
           Goal == step' \in [Pid -> R!Step] /\ Waited'
<1>3. ASSUME NEW p \in Pid, Wait(p), together' = together PROVE Goal
  BY <1>2, <1>3, WhereWaitersGo DEF Wait, runner
<1>4. ASSUME NEW p \in Pid, Resume(p), together' = together PROVE Goal
  <2>1. step' = [step EXCEPT ![p] = "start"] /\ "start" \in R!Step
    BY <1>4 DEF Resume, R!StartRunner, R!Do, R!Step, R!Running
  <2>2. step' \in [Pid -> R!Step] /\ \A q \in Pid \ {p} : step'[q] = step[q]
    BY <2>1
  <2> QED
    BY <1>2, <1>4, <2>2, WhereWaitersGo DEF Resume
<1>5. ASSUME NEW p \in Pid, RunnerStep(p) \/ RunnerDies(p), together' = together PROVE Goal
  <2>1. at' = at
    BY <1>5 DEF RunnerStep, RunnerDies, waiter
  <2>2. /\ step[p] \in R!Running /\ step' \in [Pid -> R!Step]
        /\ \A q \in Pid \ {p} : step'[q] = step[q]
    BY <1>5, AdvanceStep DEF RunnerStep, RunnerDies
  <2> QED
    BY <1>5, <2>1, <2>2
<1>6. ASSUME NEW p \in Pid, RunnerEnds(p), together' = together PROVE Goal
  BY <1>2, <1>6, WhereWaitersGo DEF RunnerEnds, runner
<1>7. ASSUME NEW p \in Pid, Interrupt(p) \/ Kill(p), together' = together PROVE Goal
  <2>1. \A q \in Pid \ {p} : at'[q] = at[q]
    BY <1>2, <1>7, WhereWaitersGo DEF Interrupt, Kill
  <2>2. CASE R!Crash(p)
    BY <1>7, <2>1, <2>2, AdvanceStep
  <2>3. CASE UNCHANGED runner /\ (together => step[p] \notin R!Running)
    BY <1>7, <2>1, <2>3 DEF runner
  <2> QED
    BY <1>7, <2>2, <2>3 DEF Interrupt, Kill, StopsToo
<1>8. ASSUME AllOver \/ UNCHANGED systemVars, together' = together PROVE Goal
  BY <1>8 DEF AllOver, W!Exhausted, W!waiterVars, systemVars, waiter, runner
<1>9. Goal
  BY <1>3, <1>4, <1>5, <1>6, <1>7, <1>8 DEF Next, systemVars
<1> QED
  BY <1>1, <1>9

\* A runner starts only when none runs: its waiter is active, and no other is.
LEMMA RunnersTakeTurns ==
  ASSUME Spaced, SystemInv, [Next]_systemVars
  PROVE  [together => Solo!Next]_runner
<1> SUFFICES ASSUME together, Next, ~UNCHANGED runner PROVE Solo!Next
  BY DEF systemVars
<1>1. ASSUME NEW p \in Pid, Resume(p) PROVE Solo!Next
  <2>1. at[p] = "wait" /\ R!StartRunner(p)
    BY <1>1 DEF Resume, W!SeeGpuFree
  <2>2. \A q \in Pid : step[q] \notin R!Running
    BY <2>1 DEF SystemInv, W!LockDiscipline, W!Active
  <2> QED
    BY <2>1, <2>2, SameStart DEF Solo!Next
<1>2. ASSUME NEW p \in Pid, RunnerStep(p) \/ RunnerDies(p) PROVE Solo!Next
  BY <1>2, SameStep DEF RunnerStep, RunnerDies, Solo!Next
<1>3. ASSUME NEW p \in Pid, Interrupt(p) \/ Kill(p) PROVE Solo!Next
  BY <1>3, SameStep DEF Interrupt, Kill, StopsToo, Solo!Next
<1>4. ASSUME NEW p \in Pid, Wait(p) \/ RunnerEnds(p) PROVE FALSE
  BY <1>4 DEF Wait, RunnerEnds
<1>5. ASSUME AllOver PROVE FALSE
  BY <1>5 DEF AllOver
<1> QED
  BY <1>1, <1>2, <1>3, <1>4, <1>5 DEF Next

\* Waiters and runners together refine the runners in turn: whatever is killed, told to
\* stop or left behind, the lock of the waiters keeps the runners apart, when a signal
\* that ends a waiter ends its runner.
THEOREM WaitersKeepRunnersApart ==
  ASSUME Spaced
  PROVE  Safety => RunnersInTurn
<1>1. Init => Solo!Init
  BY SameInit DEF Init
<1>2. SystemInv /\ [Next]_systemVars => SystemInv'
  BY SystemStep
<1>3. SystemInv /\ [Next]_systemVars => [together => Solo!Next]_runner
  BY RunnersTakeTurns
<1> QED
  BY SystemInit, <1>1, <1>2, <1>3, PTL DEF Safety, RunnersInTurn

\* Every refusal in the whole system is true, if no id is used again.
THEOREM SystemRefusesTruly ==
  ASSUME Spaced, ~Reuse
  PROVE  Safety => RefusalsAreTrue
<1>1. Init => Lock!Init
  BY DEF Init, W!Init, Lock!Init
<1>2. [Next]_systemVars => [Lock!Next]_(Lock!waiterVars)
  <2>1. UNCHANGED systemVars => UNCHANGED waiter
    BY DEF systemVars
  <2> QED
    BY <2>1, SystemWaits, WaitersTakeSteps
<1>3. Safety => Lock!Spec
  BY <1>1, <1>2, PTL DEF Safety, Lock!Spec
<1>4. Lock!Spec => Lock!RefusedOnlyByActive
  BY SystemAssumption, Lock!RefusedByActive DEF Lock!WaiterAssumption, Lock!LockAssumption
<1>5. Lock!RefusedOnlyByActive => RefusalsAreTrue
  <2> DEFINE Refusal == \A p \in Pid : p \in refused' \ refused =>
                          \E q \in Pid \ {p} : at[q] \in W!Active
  <2>1. [\A p \in Pid : p \in refused' \ refused =>
            \E q \in Pid \ {p} : at[q] \in Lock!Active]_(Lock!waiterVars)
        => [Refusal]_(W!waiterVars)
    BY DEF W!Active, Lock!Active, W!waiterVars, Lock!waiterVars
  <2> QED
    BY <2>1, PTL DEF RefusalsAreTrue, W!RefusedOnlyByActive, Lock!RefusedOnlyByActive
<1> QED
  BY <1>3, <1>4, <1>5, PTL

-------------------------------------------------------------------------------
(* What is proved of runners in turn holds of the whole system.              *)

Turns == INSTANCE SplitRunnerProofs WITH Runner <- Pid, Serial <- TRUE, Synced <- {}

LEMMA SameTurns == Solo!Next => [Turns!Next]_(Turns!runnerVars)
<1> USE DEF Turns!Do, Solo!Do, Turns!Proceed, Solo!Proceed, Turns!Begin, Solo!Begin,
            Turns!Stop, Solo!Stop, Turns!Experiment, Solo!Experiment, Turns!File, Solo!File,
            Turns!disk, Solo!disk, Turns!NoJob, Solo!NoJob, Turns!Empty, Solo!Empty,
            Turns!csv_done, Solo!csv_done, Turns!InputIs, Solo!InputIs,
            Turns!Running, Solo!Running, Turns!Training, Solo!Training
<1>1. ASSUME NEW p \in Pid
      PROVE  /\ Solo!StartRunner(p) <=> Turns!StartRunner(p)
             /\ Solo!Advance(p) <=> Turns!Advance(p)
             /\ Solo!Crash(p) <=> Turns!Crash(p)
  <2>1. Solo!SkipExport(p) <=> Turns!SkipExport(p)
    BY Zenon DEF Turns!SkipExport, Solo!SkipExport
  <2>2. Solo!StartExport(p) <=> Turns!StartExport(p)
    BY Zenon DEF Turns!StartExport, Solo!StartExport
  <2>3. Solo!OpenTns(p) <=> Turns!OpenTns(p)
    BY Zenon DEF Turns!OpenTns, Solo!OpenTns
  <2>4. Solo!WriteTns(p) <=> Turns!WriteTns(p)
    BY Zenon DEF Turns!WriteTns, Solo!WriteTns
  <2>5. Solo!WriteManifest(p) <=> Turns!WriteManifest(p)
    BY Zenon DEF Turns!WriteManifest, Solo!WriteManifest
  <2>6. Solo!Skip(p) <=> Turns!Skip(p)
    BY Zenon DEF Turns!Skip, Solo!Skip
  <2>7. Solo!Run(p) <=> Turns!Run(p)
    BY Zenon DEF Turns!Run, Solo!Run
  <2>8. Solo!Clean(p) <=> Turns!Clean(p)
    BY Zenon DEF Turns!Clean, Solo!Clean
  <2>9. Solo!Train(p) <=> Turns!Train(p)
    BY Zenon DEF Turns!Train, Solo!Train
  <2>10. Solo!NoInput(p) <=> Turns!NoInput(p)
    BY Zenon DEF Turns!NoInput, Solo!NoInput
  <2>11. Solo!Open(p) <=> Turns!Open(p)
    BY Zenon DEF Turns!Open, Solo!Open
  <2>12. Solo!Write(p) <=> Turns!Write(p)
    BY Zenon DEF Turns!Write, Solo!Write
  <2>13. Solo!Finish(p) <=> Turns!Finish(p)
    BY Zenon DEF Turns!Finish, Solo!Finish
  <2>14. Solo!Move(p) <=> Turns!Move(p)
    BY Zenon DEF Turns!Move, Solo!Move, Turns!MoveTmp, Solo!MoveTmp
  <2>15. Solo!End(p) <=> Turns!End(p)
    BY Zenon DEF Turns!End, Solo!End
  <2>16. Solo!Crash(p) <=> Turns!Crash(p)
    BY Zenon DEF Turns!Crash, Solo!Crash
  <2>17. Solo!StartRunner(p) <=> Turns!StartRunner(p)
    BY Zenon DEF Turns!StartRunner, Solo!StartRunner
  <2> QED
    BY <2>1, <2>2, <2>3, <2>4, <2>5, <2>6, <2>7, <2>8, <2>9,
       <2>10, <2>11, <2>12, <2>13, <2>14, <2>15, <2>16, <2>17
       DEF Turns!Advance, Solo!Advance, Turns!Export, Solo!Export, Turns!Perform, Solo!Perform
<1>2. Solo!Idle => UNCHANGED Turns!runnerVars
  BY DEF Solo!Idle, Solo!runnerVars, Turns!runnerVars
<1>3. ~Solo!Sync
  BY DEF Solo!Sync, Solo!SyncManifest
<1> QED
  BY <1>1, <1>2, <1>3 DEF Solo!Next, Turns!Next

\* In the whole system, as long as signals reach the whole process group: a result that
\* will be skipped is the whole output of one program on whole data.
THEOREM SystemResultsAreComplete ==
  ASSUME Spaced
  PROVE  Safety /\ []together => []R!AcceptedIsComplete
<1>1. Solo!Init => Turns!Init
  BY Zenon DEF Turns!Init, Solo!Init, Turns!Experiment, Solo!Experiment, Turns!File, Solo!File,
               Turns!Empty, Solo!Empty, Turns!NoJob, Solo!NoJob
<1>2. together /\ [together => Solo!Next]_runner => [Turns!Next]_(Turns!runnerVars)
  BY SameTurns DEF runner, Turns!runnerVars
<1>3. Safety => RunnersInTurn
  BY WaitersKeepRunnersApart
<1>4. RunnersInTurn /\ []together => Turns!Safety
  BY <1>1, <1>2, PTL DEF RunnersInTurn, Turns!Safety
<1>5. Turns!Safety => []Turns!AcceptedIsComplete
  BY SystemAssumption, Turns!SkippedIsComplete
     DEF Turns!RunnerAssumption, Turns!File, Turns!Experiment, Turns!Range, Range,
         Turns!IsInjective, IsInjective
<1>6. Turns!AcceptedIsComplete => R!AcceptedIsComplete
  BY Zenon DEF Turns!AcceptedIsComplete, R!AcceptedIsComplete, Turns!csv_done, R!csv_done,
               Turns!Experiment, R!Experiment, Turns!Cardinality, R!Cardinality
<1> QED
  BY <1>3, <1>4, <1>5, <1>6, PTL
=============================================================================
