------------------------------- MODULE GpuLock -------------------------------
(***************************************************************************)
(* lock_gpu_for_newlog2_until_done.sh: root keeps other users off the GPU  *)
(* while a resume waiter lives.  A call finds the waiter by the waiters'   *)
(* pid file, saves the permissions of the devices, restricts them, and     *)
(* leaves a monitor behind that polls the pid and restores what was saved. *)
(***************************************************************************)
EXTENDS ResumeWaiter

CONSTANTS
  Call,     \* calls of the script
  InTurn    \* a call is made only when the monitor of the last one is done

ASSUME LockAssumption == InTurn \in BOOLEAN

VARIABLES
  perms,    \* group and mode of the device files
  call,     \* the line a call, or the monitor it left, is about to run
  watch,    \* watch_pid of each call
  backup    \* the file with the saved permissions

lockVars == <<perms, call, watch, backup>>
allVars == <<waiterVars, lockVars>>

Open == [group |-> "system", mode |-> "system"]
Locked == [group |-> "owner", mode |-> "660"]

\* Past these nothing is left to do.
Over == {"refused", "restored"}

LockInit ==
  /\ Init
  /\ perms = Open
  /\ call = [c \in Call |-> "new"]
  /\ watch = [c \in Call |-> NoPid]
  /\ backup = [c \in Call |-> Open]

Then(c, line) == call' = [call EXCEPT ![c] = line]

\* The pid is the script's argument, or that of the pid file.
ChoosePid(c) ==
  /\ call[c] = "new"
  /\ InTurn => \A d \in Call \ {c} : call[d] \in Over \union {"new"}
  /\ \E p \in Pid \union {pidfile} : watch' = [watch EXCEPT ![c] = p]
  /\ Then(c, "probe")
  /\ UNCHANGED <<perms, backup>>

ProbePid(c) ==
  /\ call[c] = "probe"
  /\ Then(c, IF watch[c] # NoPid /\ Alive(watch[c]) THEN "save" ELSE "refused")
  /\ UNCHANGED <<perms, watch, backup>>

\* (mutant) The permissions are saved after the group was changed.
SaveLate(c) ==
  /\ call[c] = "save"
  /\ backup' = [backup EXCEPT ![c] = [perms EXCEPT !.group = "owner"]]
  /\ Then(c, "chgrp")
  /\ UNCHANGED <<perms, watch>>

Save(c) ==
  /\ call[c] = "save"
  /\ backup' = [backup EXCEPT ![c] = perms]
  /\ Then(c, "chgrp")
  /\ UNCHANGED <<perms, watch>>

Chgrp(c) ==
  /\ call[c] = "chgrp"
  /\ perms' = [perms EXCEPT !.group = "owner"]
  /\ Then(c, "chmod")
  /\ UNCHANGED <<watch, backup>>

\* chmod, after which the monitor is started.
Chmod(c) ==
  /\ call[c] = "chmod"
  /\ perms' = [perms EXCEPT !.mode = "660"]
  /\ Then(c, "spawn")
  /\ UNCHANGED <<watch, backup>>

Spawn(c) ==
  /\ call[c] = "spawn"
  /\ Then(c, "watch")
  /\ UNCHANGED <<perms, watch, backup>>

\* (mutant) The monitor waits for the waiter it knows to exit by itself.
WatchLeaving(c) ==
  /\ call[c] = "watch" /\ at[watch[c]] = "gone"
  /\ Then(c, "chown_back")
  /\ UNCHANGED <<perms, watch, backup>>

\* A poll that finds no process of that id ends the monitor's loop.
Watch(c) ==
  /\ call[c] = "watch" /\ ~Alive(watch[c])
  /\ Then(c, "chown_back")
  /\ UNCHANGED <<perms, watch, backup>>

ChownBack(c) ==
  /\ call[c] = "chown_back"
  /\ perms' = [perms EXCEPT !.group = backup[c].group]
  /\ Then(c, "chmod_back")
  /\ UNCHANGED <<watch, backup>>

ChmodBack(c) ==
  /\ call[c] = "chmod_back"
  /\ perms' = [perms EXCEPT !.mode = backup[c].mode]
  /\ Then(c, "restored")
  /\ UNCHANGED <<watch, backup>>

\* The script is killed, or a command of it fails (set -e); no trap cleans up.
CallDies(c) ==
  /\ call[c] \in {"probe", "save", "chgrp", "chmod", "spawn"}
  /\ Then(c, "dead")
  /\ UNCHANGED <<perms, watch, backup>>

\* The lines of the script and of its monitor.
Proceed(c) ==
  \/ ProbePid(c) \/ Save(c) \/ Chgrp(c) \/ Chmod(c) \/ Spawn(c)
  \/ Watch(c) \/ ChownBack(c) \/ ChmodBack(c)

LockNext ==
  \/ Next /\ UNCHANGED lockVars
  \/ \E c \in Call : (ChoosePid(c) \/ Proceed(c) \/ CallDies(c)) /\ UNCHANGED waiterVars

\* Scripts and monitors run on; the GPU is free in the end, and runners end.
LockFairness ==
  /\ \A p \in Pid : /\ WF_allVars(Script(p) /\ UNCHANGED lockVars)
                    /\ WF_allVars(SeeGpuFree(p) /\ UNCHANGED lockVars)
                    /\ WF_allVars(Leave(p) /\ UNCHANGED lockVars)
  /\ \A c \in Call : WF_allVars(Proceed(c) /\ UNCHANGED waiterVars)

LockSpec == LockInit /\ [][LockNext]_allVars /\ LockFairness

-------------------------------------------------------------------------------

NoneDied == \A c \in Call : call[c] # "dead"

\* Unless a call dies halfway, the devices are restricted as long as a monitor
\* watches, and have their own permissions back when none is left, however often
\* they were locked before.
LockedWhileWatched ==
  NoneDied => /\ \A c \in Call : call[c] = "watch" => perms = Locked
              /\ (\A c \in Call : call[c] \in Over \union {"new"}) => perms = Open

\* Then restricted devices are given back in the end, in whatever way the waiter
\* ended: by itself, told to stop or killed, and also when another program has had
\* its id in between.
DevicesComeBack ==
  perms # Open ~> \/ perms = Open \/ ~NoneDied
                  \/ \E c \in Call : call[c] = "watch" /\ at[watch[c]] = "other"
===============================================================================
