----------------------------- MODULE ResumeSystem -----------------------------
(***************************************************************************)
(* Waiters and the runners they start: resume_newlog2_when_gpu_free.sh     *)
(* calls run_newlog2_common_splits.sh in a pipeline (lines 42-45), waits   *)
(* for it and gives back its lock.  The runner of waiter p is called p.    *)
(* A runner takes no lock of its own: what keeps runners apart is the      *)
(* waiters' lock, so the system must be one of runners that never overlap. *)
(***************************************************************************)
EXTENDS Naturals, FiniteSets, Sequences, Functions

CONSTANTS Pid, NoPid, Spaced, Reuse,          \* as in ResumeWaiter
          Data, Plan, MaxRows, NoFile,        \* as in SplitRunner
          Signals    \* what may be true of signals: they end a waiter with its runner,
             \* or the waiter alone

VARIABLES
  lockdir, pidfile, at, seen, refused,
  manifest, tns, tmp, out, file, step, turn, job,
  together   \* a signal that ends a waiter ends the runner it started

W == INSTANCE ResumeWaiter
R == INSTANCE SplitRunner WITH Runner <- Pid, Serial <- FALSE, Synced <- {}

\* The same runners, none of which starts before the last one has ended.
Solo == INSTANCE SplitRunner WITH Runner <- Pid, Serial <- TRUE, Synced <- {}

waiter == <<lockdir, pidfile, at, seen, refused>>
runner == <<manifest, tns, tmp, out, file, step, turn, job>>
systemVars == <<waiter, runner, together>>

ASSUME SystemAssumption ==
  /\ NoPid \notin Pid
  /\ {Spaced, Reuse} \subseteq BOOLEAN
  /\ MaxRows \in Nat \ {0}
  /\ Data \in Seq(Range(Data)) /\ IsInjective(Data)
  /\ Plan \in Seq([data : Range(Data), tns : BOOLEAN])
  /\ NoFile \notin Pid \X DOMAIN Plan
  /\ Signals \subseteq BOOLEAN

Init == W!Init /\ R!Init /\ together \in Signals

\* The waiter's own lines, and what other programs do.
Wait(p) ==
  /\ W!StartWaiter(p) \/ W!Script(p) \/ W!OtherProgram(p)
  /\ UNCHANGED runner

\* (mutant) The waiter starts the runner without waiting for its end.
StartAndLeave(p) ==
  /\ at[p] = "wait" /\ at' = [at EXCEPT ![p] = "rm_pid"]
  /\ UNCHANGED <<lockdir, pidfile, seen, refused>>
  /\ R!StartRunner(p)

\* Enough memory is free: the runner starts.
Resume(p) == W!SeeGpuFree(p) /\ R!StartRunner(p)

\* The runner works, whether or not its waiter is there.
RunnerStep(p) == R!Advance(p) /\ UNCHANGED waiter

\* The runner alone is killed, for want of memory say.
RunnerDies(p) == R!Crash(p) /\ UNCHANGED waiter

\* The pipeline has ended: the waiter exits.
RunnerEnds(p) ==
  /\ at[p] = "run" /\ step[p] \notin R!Running
  /\ W!Leave(p)
  /\ UNCHANGED runner

StopsToo(p) == IF together /\ step[p] \in R!Running THEN R!Crash(p) ELSE UNCHANGED runner

\* The script is told to stop while it waits or runs, and cleans up.
Interrupt(p) ==
  /\ at[p] = "run" => step[p] \in R!Running
  /\ W!Leave(p) /\ StopsToo(p)

\* The script is killed and cleans nothing up.
Kill(p) == W!Kill(p) /\ StopsToo(p)

AllOver == W!Exhausted /\ UNCHANGED runner

Next ==
  /\ \/ \E p \in Pid : Wait(p) \/ Resume(p) \/ RunnerStep(p) \/ RunnerDies(p) \/ RunnerEnds(p)
                       \/ Interrupt(p) \/ Kill(p)
     \/ AllOver
  /\ UNCHANGED together

\* As the waiters' and the runners': a script runs on, the GPU is free in the end.
Fairness ==
  \A p \in Pid : /\ WF_systemVars(W!Script(p) /\ UNCHANGED <<runner, together>>)
                 /\ WF_systemVars(Resume(p) /\ UNCHANGED together)
                 /\ WF_systemVars(RunnerStep(p) /\ UNCHANGED together)
                 /\ WF_systemVars(RunnerEnds(p) /\ UNCHANGED together)

Safety == Init /\ [][Next]_systemVars
Spec == Safety /\ Fairness

-------------------------------------------------------------------------------

\* Refinement: if signals reach the whole process group, runners never overlap,
\* whatever is killed, told to stop or left behind, so all that holds of runners in
\* turn holds of the system.
RunnersInTurn == Solo!Init /\ [][together => Solo!Next]_runner

\* A waiter that says "another resume waiter is active" says the truth.
RefusalsAreTrue == W!RefusedOnlyByActive

\* Who starts a waiter, is not refused and sees nothing killed, stopped or
\* failed, gets all the experiments.
StartGetsResults ==
  \A p \in Pid : at[p] = "mkdir" ~>
    \/ p \in refused \/ at[p] \in {"rm_pid", "killed"} \/ step[p] \in {"failed", "killed"}
    \/ \A e \in R!Experiment : R!csv_done(e)

\* Every runner comes to an end, also one that a waiter left behind and that the
\* next one's empties, moves and continues its files with.
RunnersFinish == R!Finishes
===============================================================================
