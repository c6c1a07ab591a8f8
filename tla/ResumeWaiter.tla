----------------------------- MODULE ResumeWaiter -----------------------------
(***************************************************************************)
(* resume_newlog2_when_gpu_free.sh: processes that wait for a free GPU and *)
(* then start the experiment runner.  A directory made with mkdir is the   *)
(* lock, a file names the process that holds it, and a process that finds  *)
(* the lock taken asks kill -0 whether that process still lives.           *)
(***************************************************************************)
EXTENDS Naturals, FiniteSets

CONSTANTS
  Pid,      \* process ids, each given to at most one waiter
  NoPid,    \* an empty or missing pid file
  Spaced,   \* the moments in which waiters start or stop do not overlap
  Reuse     \* the id of a waiter that is gone may go to another program

ASSUME WaiterAssumption ==
  /\ NoPid \notin Pid
  /\ {Spaced, Reuse} \subseteq BOOLEAN

VARIABLES
  lockdir,  \* $LOCKDIR exists
  pidfile,  \* what $WAIT_PIDFILE holds
  at,       \* at[p]: the line process p is about to run
  seen,     \* existing_pid of each process
  refused   \* processes that left because another waiter is active

waiterVars == <<lockdir, pidfile, at, seen, refused>>

Starting == {"mkdir", "read", "probe", "rm_stale", "mkdir_again", "write_pid"}
Active == {"wait", "run"}
Stopping == {"rm_pid", "rmdir"}
Ended == {"gone", "killed"}
Place == {"new", "other"} \union Ended \union Starting \union Active \union Stopping

\* kill -0 p succeeds.
Alive(p) == at[p] \notin {"new"} \union Ended

\* No other process is within the few lines that take or give back the lock.
Undisturbed(p) == Spaced => \A q \in Pid \ {p} : at[q] \notin Starting \union Stopping

Goto(p, place) == at' = [at EXCEPT ![p] = place]

Init ==
  /\ lockdir = FALSE
  /\ pidfile = NoPid
  /\ at = [p \in Pid |-> "new"]
  /\ seen = [p \in Pid |-> NoPid]
  /\ refused = {}

StartWaiter(p) ==
  /\ at[p] = "new" /\ Undisturbed(p)
  /\ Goto(p, "mkdir")
  /\ UNCHANGED <<lockdir, pidfile, seen, refused>>

Mkdir(p) ==
  /\ at[p] = "mkdir"
  /\ lockdir' = TRUE
  /\ Goto(p, IF lockdir THEN "read" ELSE "write_pid")
  /\ UNCHANGED <<pidfile, seen, refused>>

ReadPid(p) ==
  /\ at[p] = "read"
  /\ seen' = [seen EXCEPT ![p] = pidfile]
  /\ Goto(p, "probe")
  /\ UNCHANGED <<lockdir, pidfile, refused>>

\* (mutant) Any process named in the pid file counts as alive.
ProbeNameOnly(p) ==
  /\ at[p] = "probe"
  /\ IF seen[p] # NoPid
       THEN Goto(p, "gone") /\ refused' = refused \union {p}
       ELSE Goto(p, "rm_stale") /\ UNCHANGED refused
  /\ UNCHANGED <<lockdir, pidfile, seen>>

Probe(p) ==
  /\ at[p] = "probe"
  /\ IF seen[p] # NoPid /\ Alive(seen[p])
       THEN Goto(p, "gone") /\ refused' = refused \union {p}
       ELSE Goto(p, "rm_stale") /\ UNCHANGED refused
  /\ UNCHANGED <<lockdir, pidfile, seen>>

\* (mutant) The stale directory stays.
KeepStale(p) ==
  /\ at[p] = "rm_stale"
  /\ Goto(p, "mkdir_again")
  /\ UNCHANGED <<lockdir, pidfile, seen, refused>>

RemoveStale(p) ==
  /\ at[p] = "rm_stale"
  /\ lockdir' = FALSE
  /\ Goto(p, "mkdir_again")
  /\ UNCHANGED <<pidfile, seen, refused>>

\* A second failure of mkdir ends the script (set -e), before the trap is set.
MkdirAgain(p) ==
  /\ at[p] = "mkdir_again"
  /\ lockdir' = TRUE
  /\ Goto(p, IF lockdir THEN "gone" ELSE "write_pid")
  /\ UNCHANGED <<pidfile, seen, refused>>

\* (mutant) The pid file is written only once the GPU is free.
WaitWithoutPid(p) ==
  /\ at[p] = "write_pid"
  /\ Goto(p, "wait")
  /\ UNCHANGED <<lockdir, pidfile, seen, refused>>

\* The pid file is written and the EXIT trap is set.
WritePid(p) ==
  /\ at[p] = "write_pid"
  /\ pidfile' = p
  /\ Goto(p, "wait")
  /\ UNCHANGED <<lockdir, seen, refused>>

\* A poll that sees enough free memory ends the loop.
SeeGpuFree(p) ==
  /\ at[p] = "wait"
  /\ Goto(p, "run")
  /\ UNCHANGED <<lockdir, pidfile, seen, refused>>

\* The runner has ended, or the script was told to stop: the trap runs.
Leave(p) ==
  /\ at[p] \in Active /\ Undisturbed(p)
  /\ Goto(p, "rm_pid")
  /\ UNCHANGED <<lockdir, pidfile, seen, refused>>

TrapRemovesPid(p) ==
  /\ at[p] = "rm_pid"
  /\ pidfile' = NoPid
  /\ Goto(p, "rmdir")
  /\ UNCHANGED <<lockdir, seen, refused>>

TrapRemovesLock(p) ==
  /\ at[p] = "rmdir"
  /\ lockdir' = FALSE
  /\ Goto(p, "gone")
  /\ UNCHANGED <<pidfile, seen, refused>>

\* SIGKILL or loss of power: nothing is cleaned up.
Kill(p) ==
  /\ at[p] \in Starting \union Active \union Stopping
  /\ Goto(p, "killed")
  /\ UNCHANGED <<lockdir, pidfile, seen, refused>>

\* The system gives the id of a finished waiter to some other program.
OtherProgram(p) ==
  /\ Reuse
  /\ \/ at[p] \in Ended /\ Goto(p, "other")
     \/ at[p] = "other" /\ Goto(p, "gone")
  /\ UNCHANGED <<lockdir, pidfile, seen, refused>>

-------------------------------------------------------------------------------

Script(p) ==
  \/ Mkdir(p) \/ ReadPid(p) \/ Probe(p) \/ RemoveStale(p) \/ MkdirAgain(p) \/ WritePid(p)
  \/ TrapRemovesPid(p) \/ TrapRemovesLock(p)

\* Every id was used: nothing more happens.
Exhausted == (\A p \in Pid : at[p] \in Ended) /\ UNCHANGED waiterVars

Next ==
  \/ \E p \in Pid : StartWaiter(p) \/ Script(p) \/ SeeGpuFree(p) \/ Leave(p) \/ Kill(p)
                    \/ OtherProgram(p)
  \/ Exhausted

Spec == Init /\ [][Next]_waiterVars

-------------------------------------------------------------------------------

TypeOK ==
  /\ lockdir \in BOOLEAN
  /\ pidfile \in Pid \union {NoPid}
  /\ at \in [Pid -> Place]
  /\ seen \in [Pid -> Pid \union {NoPid}]
  /\ refused \subseteq Pid

\* Who waits or runs holds the lock and is named in the pid file; whoever takes
\* or gives back the lock does so alone, and past the probe nobody is active.
LockDiscipline ==
  /\ TypeOK
  /\ \A p, q \in Pid : {at[p], at[q]} \subseteq Starting \union Stopping => p = q
  /\ \A p \in Pid : at[p] \in Active => lockdir /\ pidfile = p
  /\ \A p \in Pid : at[p] = "probe" => seen[p] = pidfile
  /\ \A p \in Pid : at[p] \in {"rm_stale", "mkdir_again", "write_pid"} \union Stopping =>
       \A q \in Pid : at[q] \notin Active
  /\ \A p \in Pid : /\ at[p] = "mkdir_again" => ~lockdir
                    /\ at[p] = "write_pid" => lockdir

\* At most one process waits for the GPU or runs the experiments, whatever was
\* killed before and whatever lock and pid file it left behind.
AtMostOneActive ==
  \A p, q \in Pid : at[p] \in Active /\ at[q] \in Active => p = q

\* A lock is removed as stale only when its holder is gone, as the message
\* "removing stale resume lock" says.
OnlyStaleLocksRemoved ==
  [][\A p \in Pid : at[p] = "rm_stale" /\ at'[p] = "mkdir_again" =>
       \A q \in Pid \ {p} : at[q] \notin Active \union {"write_pid"}]_waiterVars

\* A process gives up only when, as its message says, "another resume waiter
\* is active".
RefusedOnlyByActive ==
  [][\A p \in Pid : p \in refused' \ refused =>
       \E q \in Pid \ {p} : at[q] \in Active]_waiterVars
===============================================================================
