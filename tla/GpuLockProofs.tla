----------------------------- MODULE GpuLockProofs -----------------------------
(***************************************************************************)
(* The lock of the resume waiters, for any number of processes, under the  *)
(* assumption that the moments in which they start or stop do not overlap; *)
(* and the permissions of the GPU devices, for any number of waiters and   *)
(* of calls of the lock script that are made one after another.            *)
(***************************************************************************)
EXTENDS GpuLock, TLAPS

------------------------------------------------------------------------------
\* The lock of the waiters.

LEMMA LockDisciplineInit == Init => LockDiscipline
  BY DEF Init, LockDiscipline, TypeOK, Place, Starting, Active, Stopping, Ended

LEMMA LockDisciplineStep ==
  ASSUME Spaced, LockDiscipline, [Next]_waiterVars
  PROVE  LockDiscipline'
  <1> USE WaiterAssumption DEF Starting, Active, Stopping, Ended, Goto
  <1>1. TypeOK
    BY DEF LockDiscipline
  <1>2. ASSUME NEW p \in Pid, StartWaiter(p)
        PROVE  LockDiscipline'
    BY <1>1, <1>2 DEF StartWaiter, Undisturbed, LockDiscipline, TypeOK, Place
  <1>3. ASSUME NEW p \in Pid, Mkdir(p)
        PROVE  LockDiscipline'
    BY <1>1, <1>3 DEF Mkdir, LockDiscipline, TypeOK, Place
  <1>4. ASSUME NEW p \in Pid, ReadPid(p)
        PROVE  LockDiscipline'
    BY <1>1, <1>4 DEF ReadPid, LockDiscipline, TypeOK, Place
  <1>5. ASSUME NEW p \in Pid, Probe(p)
        PROVE  LockDiscipline'
    BY <1>1, <1>5 DEF Probe, Alive, LockDiscipline, TypeOK, Place
  <1>6. ASSUME NEW p \in Pid, RemoveStale(p)
        PROVE  LockDiscipline'
    <2>1. \A q \in Pid : at[q] \notin Active /\ (at[q] \in Starting \union Stopping => q = p)
      BY <1>6 DEF RemoveStale, LockDiscipline
    <2>2. at' = [at EXCEPT ![p] = "mkdir_again"] /\ ~lockdir'
      BY <1>6 DEF RemoveStale
    <2>3. TypeOK'
      BY <1>1, <1>6 DEF RemoveStale, TypeOK, Place
    <2>4. \A q \in Pid \ {p} : at'[q] \notin Active \union Starting \union Stopping
      BY <1>1, <2>1, <2>2 DEF TypeOK
    <2>5. at'[p] = "mkdir_again"
      BY <1>1, <2>2 DEF TypeOK
    <2> QED
      BY <2>2, <2>3, <2>4, <2>5 DEF LockDiscipline
  <1>7. ASSUME NEW p \in Pid, MkdirAgain(p)
        PROVE  LockDiscipline'
    BY <1>1, <1>7 DEF MkdirAgain, LockDiscipline, TypeOK, Place
  <1>8. ASSUME NEW p \in Pid, WritePid(p)
        PROVE  LockDiscipline'
    BY <1>1, <1>8 DEF WritePid, LockDiscipline, TypeOK, Place
  <1>9. ASSUME NEW p \in Pid, SeeGpuFree(p)
        PROVE  LockDiscipline'
    BY <1>1, <1>9 DEF SeeGpuFree, LockDiscipline, TypeOK, Place
  <1>10. ASSUME NEW p \in Pid, Leave(p)
         PROVE  LockDiscipline'
    BY <1>1, <1>10 DEF Leave, Undisturbed, LockDiscipline, TypeOK, Place
  <1>11. ASSUME NEW p \in Pid, TrapRemovesPid(p)
         PROVE  LockDiscipline'
    BY <1>1, <1>11 DEF TrapRemovesPid, LockDiscipline, TypeOK, Place
  <1>12. ASSUME NEW p \in Pid, TrapRemovesLock(p)
         PROVE  LockDiscipline'
    BY <1>1, <1>12, ZenonT(30) DEF TrapRemovesLock, LockDiscipline, TypeOK, Place
  <1>13. ASSUME NEW p \in Pid, Kill(p)
         PROVE  LockDiscipline'
    BY <1>1, <1>13 DEF Kill, LockDiscipline, TypeOK, Place
  <1>14. ASSUME NEW p \in Pid, OtherProgram(p)
         PROVE  LockDiscipline'
    BY <1>1, <1>14 DEF OtherProgram, LockDiscipline, TypeOK, Place
  <1>15. CASE UNCHANGED waiterVars
    BY <1>15 DEF waiterVars, LockDiscipline, TypeOK
  <1> QED
    BY <1>2, <1>3, <1>4, <1>5, <1>6, <1>7, <1>8, <1>9, <1>10, <1>11, <1>12, <1>13, <1>14,
       <1>15 DEF Next, Script, Exhausted

\* However many waiters are started and wherever they are killed, at most one
\* waits for the GPU or runs the experiments: the holder of the lock is named
\* in the pid file, so a probe that finds a dead process finds a stale lock.
THEOREM OneWaiterActive ==
  ASSUME Spaced
  PROVE  Spec => []AtMostOneActive
  <1>1. LockDiscipline /\ [Next]_waiterVars => LockDiscipline'
    BY LockDisciplineStep
  <1>2. LockDiscipline => AtMostOneActive
    BY DEF LockDiscipline, AtMostOneActive
  <1> QED
    BY LockDisciplineInit, <1>1, <1>2, PTL DEF Spec

\* No waiter ever removes the lock of one that is alive and has it.
THEOREM StaleMeansStale ==
  ASSUME Spaced
  PROVE  Spec => OnlyStaleLocksRemoved
  <1>1. LockDiscipline /\ [Next]_waiterVars => LockDiscipline'
    BY LockDisciplineStep
  <1> DEFINE Stale == \A p \in Pid : at[p] = "rm_stale" /\ at'[p] = "mkdir_again" =>
                        \A q \in Pid \ {p} : at[q] \notin Active \union {"write_pid"}
  <1>2. LockDiscipline /\ [Next]_waiterVars => [Stale]_waiterVars
    BY DEF LockDiscipline, Starting
  <1> QED
    BY LockDisciplineInit, <1>1, <1>2, PTL DEF Spec, OnlyStaleLocksRemoved

\* Whoever is named in the pid file has written it, and no id is used again.
PidInv ==
  /\ \A p \in Pid : pidfile = p => at[p] \in Active \union Stopping \union Ended
  /\ \A p \in Pid : at[p] # "other"

LEMMA PidInvStep ==
  ASSUME ~Reuse, LockDiscipline, PidInv, [Next]_waiterVars
  PROVE  PidInv'
  <1> USE WaiterAssumption DEF Starting, Active, Stopping, Ended, Goto, PidInv
  <1>1. TypeOK
    BY DEF LockDiscipline
  <1>2. ASSUME NEW p \in Pid, StartWaiter(p) \/ SeeGpuFree(p) \/ Leave(p) \/ Kill(p)
        PROVE  PidInv'
    BY <1>1, <1>2 DEF StartWaiter, SeeGpuFree, Leave, Kill, TypeOK
  <1>3. ASSUME NEW p \in Pid, Mkdir(p) \/ ReadPid(p) \/ Probe(p) \/ RemoveStale(p) \/ MkdirAgain(p)
        PROVE  PidInv'
    BY <1>1, <1>3 DEF Mkdir, ReadPid, Probe, RemoveStale, MkdirAgain, TypeOK
  <1>4. ASSUME NEW p \in Pid, WritePid(p)
        PROVE  PidInv'
    BY <1>1, <1>4 DEF WritePid, TypeOK
  <1>5. ASSUME NEW p \in Pid, TrapRemovesPid(p) \/ TrapRemovesLock(p)
        PROVE  PidInv'
    BY <1>1, <1>5 DEF TrapRemovesPid, TrapRemovesLock, TypeOK
  <1>6. CASE UNCHANGED waiterVars
    BY <1>6 DEF waiterVars
  <1> QED
    BY <1>2, <1>3, <1>4, <1>5, <1>6 DEF Next, Script, Exhausted, OtherProgram

LEMMA RefusalStep ==
  ASSUME LockDiscipline, PidInv, Next, NEW p \in Pid, p \in refused', p \notin refused
  PROVE  \E q \in Pid \ {p} : at[q] \in Active
  <1>1. Probe(p)
    BY DEF Next, Script, StartWaiter, SeeGpuFree, Leave, Kill, OtherProgram, Exhausted, waiterVars,
           Mkdir, ReadPid, Probe, RemoveStale, MkdirAgain, WritePid, TrapRemovesPid, TrapRemovesLock
  <1>2. at[p] = "probe" /\ seen[p] # NoPid /\ Alive(seen[p]) /\ seen[p] = pidfile
    BY <1>1 DEF Probe, LockDiscipline
  <1>3. seen[p] \in Pid /\ seen[p] # p
    BY <1>2 DEF LockDiscipline, TypeOK, PidInv, Active, Stopping, Ended
  <1>4. at[seen[p]] \in Active \union Stopping
    BY <1>2, <1>3 DEF PidInv, Alive
  <1>5. at[seen[p]] \notin Stopping
    BY <1>2, <1>3 DEF LockDiscipline, Starting
  <1> QED
    BY <1>3, <1>4, <1>5

\* A waiter that gives up because "another resume waiter is active" is right, if ids are
\* not given to other programs.
THEOREM RefusedByActive ==
  ASSUME Spaced, ~Reuse
  PROVE  Spec => RefusedOnlyByActive
  <1>1. Init => PidInv
    BY WaiterAssumption DEF Init, PidInv, Active, Stopping, Ended
  <1>2. LockDiscipline /\ [Next]_waiterVars => LockDiscipline'
    BY LockDisciplineStep
  <1>3. LockDiscipline /\ PidInv /\ [Next]_waiterVars => PidInv'
    BY PidInvStep
  <1> DEFINE Refusal == \A p \in Pid : p \in refused' \ refused =>
                          \E q \in Pid \ {p} : at[q] \in Active
  <1>4. LockDiscipline /\ PidInv /\ [Next]_waiterVars => [Refusal]_waiterVars
    BY RefusalStep
  <1> QED
    BY LockDisciplineInit, <1>1, <1>2, <1>3, <1>4, PTL DEF Spec, RefusedOnlyByActive

\* The lock keeps its discipline.
THEOREM LockIsDisciplined ==
  ASSUME Spaced
  PROVE  Spec => []LockDiscipline
  <1>1. LockDiscipline /\ [Next]_waiterVars => LockDiscipline'
    BY LockDisciplineStep
  <1> QED
    BY LockDisciplineInit, <1>1, PTL DEF Spec

------------------------------------------------------------------------------
\* The devices.

\* A call, or its monitor, that has begun and not ended.
UnderWay(c) == call[c] \notin Over \union {"new"}

PermsType == [group : {"system", "owner"}, mode : {"system", "660"}]

\* What the line that a call is about to run says of the devices.
DevicesAt(line) ==
  CASE line \in {"probe", "save", "chgrp"} -> Open
    [] line = "chmod" -> [group |-> "owner", mode |-> "system"]
    [] line \in {"spawn", "watch", "chown_back"} -> Locked
    [] line = "chmod_back" -> [group |-> "system", mode |-> "660"]

Lines == {"probe", "save", "chgrp", "chmod", "spawn", "watch", "chown_back", "chmod_back"}

\* One call is under way at a time and knows the permissions of an open system.
TurnsInv ==
  /\ \A c, d \in Call : UnderWay(c) /\ UnderWay(d) => c = d
  /\ (\A c \in Call : ~UnderWay(c)) => perms = Open
  /\ \A c \in Call : UnderWay(c) =>
       /\ perms = DevicesAt(call[c])
       /\ call[c] \notin {"probe", "save"} => backup[c] = Open

LockInv ==
  /\ perms \in PermsType
  /\ call \in [Call -> Lines \union Over \union {"new", "dead"}]
  /\ backup \in [Call -> PermsType]
  /\ NoneDied => TurnsInv

LEMMA LockInvInit == LockInit => LockInv
BY DEF LockInit, LockInv, PermsType, Open, Lines, NoneDied, TurnsInv, UnderWay

\* The devices when call c is about to run its next line, and no other is under way.
LEMMA OneCall ==
  ASSUME LockInv, NEW c \in Call, NEW line \in Lines \union Over, Then(c, line),
         NoneDied => \A d \in Call \ {c} : ~UnderWay(d),
         perms' \in PermsType, backup' \in [Call -> PermsType],
         NoneDied => /\ perms' = IF line \in Over THEN Open ELSE DevicesAt(line)
                     /\ line \notin {"probe", "save"} \union Over => backup'[c] = Open,
         call[c] # "dead"
  PROVE  LockInv'
<1>1. /\ call'[c] = line /\ \A d \in Call \ {c} : call'[d] = call[d]
      /\ call' \in [Call -> Lines \union Over \union {"new", "dead"}]
  BY DEF LockInv, Then
<1>2. NoneDied' => NoneDied
  BY <1>1 DEF NoneDied
<1>3. UnderWay(c)' <=> line \notin Over
  BY <1>1 DEF UnderWay, Lines, Over
<1>4. ASSUME NoneDied' PROVE TurnsInv'
  <2>1. \A d \in Call \ {c} : ~UnderWay(d)'
    BY <1>1, <1>2, <1>4 DEF UnderWay
  <2> QED
    BY <1>1, <1>2, <1>3, <1>4, <2>1 DEF TurnsInv
<1> QED
  BY <1>1, <1>4 DEF LockInv

LEMMA LockInvStep ==
  ASSUME InTurn, LockInv, [LockNext]_allVars
  PROVE  LockInv'
<1>1. ASSUME UNCHANGED lockVars PROVE LockInv'
  BY <1>1 DEF lockVars, LockInv, NoneDied, TurnsInv, UnderWay
<1>2. ASSUME NEW c \in Call, UnderWay(c), NoneDied
      PROVE  /\ \A d \in Call \ {c} : ~UnderWay(d)
             /\ perms = DevicesAt(call[c])
             /\ call[c] \notin {"probe", "save"} => backup[c] = Open
  BY <1>2 DEF LockInv, TurnsInv
<1> USE DEF Over, Lines, DevicesAt, PermsType, Open, Locked
<1>3. ASSUME NEW c \in Call, ChoosePid(c) PROVE LockInv'
  <2>1. /\ call[c] = "new" /\ Then(c, "probe") /\ perms' = perms /\ backup' = backup
        /\ \A d \in Call \ {c} : ~UnderWay(d)
    BY <1>3 DEF ChoosePid, UnderWay
  <2>2. NoneDied => perms = Open
    BY <2>1 DEF LockInv, TurnsInv, UnderWay
  <2> QED
    BY <2>1, <2>2, OneCall DEF LockInv
<1>4. ASSUME NEW c \in Call, ProbePid(c) PROVE LockInv'
  <2>1. PICK line \in {"save", "refused"} : Then(c, line)
    BY <1>4 DEF ProbePid
  <2>2. call[c] = "probe" /\ perms' = perms /\ backup' = backup /\ UnderWay(c)
    BY <1>4 DEF ProbePid, UnderWay
  <2> QED
    BY <1>2, <2>1, <2>2, OneCall DEF LockInv
<1>5. ASSUME NEW c \in Call, Save(c) PROVE LockInv'
  <2>1. /\ call[c] = "save" /\ Then(c, "chgrp") /\ perms' = perms /\ UnderWay(c)
        /\ backup' = [backup EXCEPT ![c] = perms]
    BY <1>5 DEF Save, UnderWay
  <2>2. backup' \in [Call -> PermsType] /\ backup'[c] = perms
    BY <2>1 DEF LockInv
  <2> QED
    BY <1>2, <2>1, <2>2, OneCall DEF LockInv
<1>6. ASSUME NEW c \in Call, Chgrp(c) PROVE LockInv'
  <2>1. /\ call[c] = "chgrp" /\ Then(c, "chmod") /\ backup' = backup /\ UnderWay(c)
        /\ perms' = [perms EXCEPT !.group = "owner"]
    BY <1>6 DEF Chgrp, UnderWay
  <2> QED
    BY <1>2, <2>1, OneCall DEF LockInv
<1>7. ASSUME NEW c \in Call, Chmod(c) PROVE LockInv'
  <2>1. /\ call[c] = "chmod" /\ Then(c, "spawn") /\ backup' = backup /\ UnderWay(c)
        /\ perms' = [perms EXCEPT !.mode = "660"]
    BY <1>7 DEF Chmod, UnderWay
  <2> QED
    BY <1>2, <2>1, OneCall DEF LockInv
<1>8. ASSUME NEW c \in Call, Spawn(c) \/ Watch(c) PROVE LockInv'
  <2>1. PICK line \in {"watch", "chown_back"} : Then(c, line)
    BY <1>8 DEF Spawn, Watch
  <2>2. call[c] \in {"spawn", "watch"} /\ perms' = perms /\ backup' = backup /\ UnderWay(c)
    BY <1>8 DEF Spawn, Watch, UnderWay
  <2> QED
    BY <1>2, <2>1, <2>2, OneCall DEF LockInv
<1>9. ASSUME NEW c \in Call, ChownBack(c) PROVE LockInv'
  <2>1. /\ call[c] = "chown_back" /\ Then(c, "chmod_back") /\ backup' = backup /\ UnderWay(c)
        /\ perms' = [perms EXCEPT !.group = backup[c].group]
    BY <1>9 DEF ChownBack, UnderWay
  <2>2. backup[c] \in PermsType
    BY DEF LockInv
  <2> QED
    BY <1>2, <2>1, <2>2, OneCall DEF LockInv
<1>10. ASSUME NEW c \in Call, ChmodBack(c) PROVE LockInv'
  <2>1. /\ call[c] = "chmod_back" /\ Then(c, "restored") /\ backup' = backup /\ UnderWay(c)
        /\ perms' = [perms EXCEPT !.mode = backup[c].mode]
    BY <1>10 DEF ChmodBack, UnderWay
  <2>2. backup[c] \in PermsType
    BY DEF LockInv
  <2> QED
    BY <1>2, <2>1, <2>2, OneCall DEF LockInv
<1>11. ASSUME NEW c \in Call, CallDies(c) PROVE LockInv'
  <2>1. call' = [call EXCEPT ![c] = "dead"] /\ UNCHANGED <<perms, backup>>
    BY <1>11 DEF CallDies, Then
  <2>2. ~NoneDied'
    BY <2>1 DEF LockInv, NoneDied
  <2> QED
    BY <2>1, <2>2 DEF LockInv
<1> QED
  BY <1>1, <1>3, <1>4, <1>5, <1>6, <1>7, <1>8, <1>9, <1>10, <1>11
     DEF LockNext, Proceed, allVars, lockVars

\* However often the devices are locked, in turn, and however the waiters end: they are
\* restricted while a monitor watches and have their own permissions when none does,
\* unless a call died halfway.
THEOREM DevicesFollowTheMonitor ==
  ASSUME InTurn
  PROVE  LockSpec => []LockedWhileWatched
<1>1. LockInv /\ [LockNext]_allVars => LockInv'
  BY LockInvStep
<1>2. LockInv => LockedWhileWatched
  BY DEF LockInv, TurnsInv, LockedWhileWatched, UnderWay, DevicesAt, Over
<1> QED
  BY LockInvInit, <1>1, <1>2, PTL DEF LockSpec
=============================================================================
