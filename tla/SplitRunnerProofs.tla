-------------------------- MODULE SplitRunnerProofs --------------------------
(***************************************************************************)
(* Whatever is killed and wherever, a result that later runners skip is    *)
(* the whole output of one program on whole data, and stays as it is: for  *)
(* all plans, data sets and numbers of runners, when runners come in turn. *)
(***************************************************************************)
EXTENDS SplitRunner, FiniteSetTheorems, TLAPS

LEMMA Domains ==
  /\ Experiment = 1 .. Len(Plan) /\ Len(Plan) \in Nat
  /\ DOMAIN Data = 1 .. Len(Data) /\ Len(Data) \in Nat
  /\ Experiment \subseteq Nat /\ DOMAIN Data \subseteq Nat
  /\ \A r \in Runner, e \in Experiment : <<r, e>> \in File /\ <<r, e>> # NoFile
BY RunnerAssumption DEF Experiment, File

LEMMA InitInv == Init => RunnerInv
<1> SUFFICES ASSUME Init PROVE RunnerInv
  OBVIOUS
<1>1. TypeOK
  BY Domains DEF Init, TypeOK, Empty, NoJob, Step
<1>2. OneRunner
  BY DEF Init, OneRunner, Running, Training
<1>3. ExportInv
  BY DEF Init, ExportInv
<1>4. NameInv
  BY Domains DEF Init, NameInv, Ahead
<1>5. JobInv
  BY DEF Init, JobInv, Training
<1>6. AcceptedIsComplete /\ TurnInv /\ DoneMeansAllDone
  BY DEF Init, AcceptedIsComplete, csv_done, TurnInv, DoneMeansAllDone, Training
<1> QED
  BY <1>1, <1>2, <1>3, <1>4, <1>5, <1>6 DEF RunnerInv

\* While r runs, no other runner does, and none has a program.
LEMMA OthersRest ==
  ASSUME RunnerInv, NEW r \in Runner, step[r] \in Running, NEW q \in Runner \ {r}
  PROVE  step[q] \in {"off", "done", "failed", "killed"} /\ job[q] = NoJob
<1>1. step[q] \notin Running
  BY DEF RunnerInv, OneRunner
<1>2. step[q] \in Step
  BY DEF RunnerInv, TypeOK
<1>3. step[q] \in {"off", "done", "failed", "killed"}
  BY <1>1, <1>2 DEF Step
<1>4. JobInv
  BY DEF RunnerInv
<1> QED
  BY <1>3, <1>4 DEF JobInv

\* A runner that runs stays the only one.
LEMMA StaysAlone ==
  ASSUME RunnerInv, NEW r \in Runner, step[r] \in Running, NEW s \in Step, Do(r, s)
  PROVE  OneRunner' /\ step' \in [Runner -> Step]
<1>1. step \in [Runner -> Step] /\ OneRunner
  BY DEF RunnerInv, TypeOK
<1>2. step' \in [Runner -> Step]
  BY <1>1 DEF Do
<1>3. OneRunner'
  BY <1>1 DEF OneRunner, Do
<1> QED
  BY <1>2, <1>3

\* What is accepted depends on the names of results and the files they refer to.
LEMMA AcceptedStays ==
  ASSUME RunnerInv, out' = out,
         \A e \in Experiment : out[e] # NoFile => file'[out[e]] = file[out[e]]
  PROVE  AcceptedIsComplete' /\ \A e \in Experiment : csv_done(e)' = csv_done(e)
BY DEF RunnerInv, AcceptedIsComplete, csv_done

FileType == [File -> [rows : Nat, writers : SUBSET Runner, ended : BOOLEAN, whole : BOOLEAN]]

\* The runner ends, and leaves all names on the disk as they are.
LEMMA StopKeeps ==
  ASSUME RunnerInv, NEW r \in Runner, step[r] \in Running,
         NEW s \in {"done", "failed", "killed"}, Stop(r, s),
         UNCHANGED <<manifest, tns, tmp, out>>, file' \in FileType,
         \A e \in Experiment : out[e] # NoFile => file'[out[e]] = file[out[e]],
         \A q \in Runner \ {r}, e \in Experiment : file'[<<q, e>>] = file[<<q, e>>],
         s = "done" => \A e \in Experiment : csv_done(e)
  PROVE  RunnerInv'
<1>0. s \in Step /\ s \notin Running /\ s # "off" /\ Do(r, s)
  BY DEF Step, Running, Training, Stop
<1>1. OneRunner' /\ step' \in [Runner -> Step]
  BY <1>0, StaysAlone
<1>2. TypeOK
  BY DEF RunnerInv
<1>3. /\ step'[r] = s /\ turn'[r] = 0 /\ job'[r] = NoJob
      /\ \A q \in Runner \ {r} : step'[q] = step[q] /\ turn'[q] = turn[q] /\ job'[q] = job[q]
      /\ manifest' = manifest /\ tns' = tns /\ tmp' = tmp /\ out' = out
  BY <1>2 DEF TypeOK, Stop, Do
<1>4. TypeOK'
  BY <1>1, <1>2 DEF TypeOK, Stop, Do, NoJob, FileType
<1>5. ExportInv'
  BY <1>0, <1>3 DEF RunnerInv, ExportInv
<1>6. NameInv'
  <2>1. Ahead(r)' = {} /\ \A q \in Runner \ {r} : Ahead(q)' = Ahead(q)
    BY <1>0, <1>3 DEF Ahead, Running, Training
  <2>2. \A q \in Runner : Ahead(q) \subseteq Experiment
    BY DEF Ahead
  <2> QED
    BY <1>3, <2>1, <2>2 DEF RunnerInv, NameInv
<1>7. AcceptedIsComplete' /\ \A e \in Experiment : csv_done(e)' = csv_done(e)
  BY <1>3, AcceptedStays
<1>8. JobInv'
  <2>1. \A q \in Runner : step'[q] \notin Training \union {"check"}
    BY <1>0, <1>3, OthersRest DEF Training, Running
  <2>2. \A q \in Runner : job'[q] = NoJob
    BY <1>3, OthersRest
  <2> QED
    BY <2>1, <2>2 DEF JobInv, Training
<1>9. TurnInv'
  BY <1>0, <1>3, OthersRest DEF TurnInv, Training, Running
<1>10. DoneMeansAllDone'
  BY <1>3, <1>7 DEF RunnerInv, DoneMeansAllDone
<1> QED
  BY <1>1, <1>4, <1>5, <1>6, <1>7, <1>8, <1>9, <1>10 DEF RunnerInv

\* As when it is killed, which changes no file either.
LEMMA StopsQuietly ==
  ASSUME RunnerInv, NEW r \in Runner, step[r] \in Running,
         NEW s \in {"done", "failed", "killed"}, Stop(r, s), UNCHANGED disk,
         s = "done" => \A e \in Experiment : csv_done(e)
  PROVE  RunnerInv'
<1>1. UNCHANGED <<manifest, tns, tmp, out, file>> /\ file \in FileType
  BY DEF disk, RunnerInv, TypeOK, FileType
<1> QED
  BY <1>1, StopKeeps

-------------------------------------------------------------------------------
(* Starting, exporting and syncing: the results and their files stay.        *)

\* What a step of r that changes neither results nor programs has to show.
LEMMA QuietKeeps ==
  ASSUME RunnerInv, NEW r \in Runner, UNCHANGED <<tmp, out, file, job>>,
         TypeOK', OneRunner', ExportInv', JobInv', TurnInv',
         \A q \in Runner : Ahead(q)' \subseteq Ahead(q),
         \A q \in Runner : step'[q] = "done" => step[q] = "done"
  PROVE  RunnerInv'
<1>1. AcceptedIsComplete' /\ \A e \in Experiment : csv_done(e)' = csv_done(e)
  BY AcceptedStays
<1>2. NameInv'
  BY DEF RunnerInv, NameInv
<1>3. DoneMeansAllDone'
  BY <1>1 DEF RunnerInv, DoneMeansAllDone
<1> QED
  BY <1>1, <1>2, <1>3 DEF RunnerInv

LEMMA StartKeeps ==
  ASSUME Serial, RunnerInv, NEW r \in Runner, StartRunner(r)
  PROVE  RunnerInv'
<1>1. TypeOK
  BY DEF RunnerInv
<1>2. /\ step[r] = "off" /\ step' = [step EXCEPT ![r] = "start"]
      /\ \A q \in Runner : step[q] \notin Running
      /\ UNCHANGED <<manifest, tns, tmp, out, file, turn, job>>
  BY DEF StartRunner, Do, disk
<1>3. /\ step'[r] = "start" /\ \A q \in Runner \ {r} : step'[q] = step[q]
      /\ step' \in [Runner -> Step]
  BY <1>1, <1>2 DEF TypeOK, Step, Running
<1>4. TypeOK'
  BY <1>1, <1>2, <1>3 DEF TypeOK
<1>5. OneRunner'
  BY <1>2, <1>3 DEF OneRunner
<1>6. ExportInv'
  BY <1>2, <1>3 DEF RunnerInv, ExportInv
<1>7. JobInv'
  <2>1. \A q \in Runner : step'[q] \notin Training \union {"check"}
    BY <1>2, <1>3 DEF Running, Training
  <2>2. \A q \in Runner : job'[q] = NoJob
    BY <1>2 DEF RunnerInv, JobInv, Running, Training
  <2> QED
    BY <2>1, <2>2 DEF JobInv, Training
<1>8. TurnInv'
  BY <1>2, <1>3 DEF TurnInv, Running, Training
<1>9. \A q \in Runner : Ahead(q)' \subseteq Ahead(q)
  BY <1>2, <1>3 DEF Ahead
<1>10. \A q \in Runner : step'[q] = "done" => step[q] = "done"
  BY <1>3
<1> QED
  BY <1>2, <1>4, <1>5, <1>6, <1>7, <1>8, <1>9, <1>10, QuietKeeps

\* The runner that exports is in a step without a program.
Exporting == {"start", "export", "dump"}

LEMMA ExportKeeps ==
  ASSUME RunnerInv, NEW r \in Runner, Export(r)
  PROVE  RunnerInv'
<1>1. TypeOK /\ ExportInv
  BY DEF RunnerInv
<1>2. PICK s \in Exporting \union {"check"} : Do(r, s)
  BY DEF Export, SkipExport, StartExport, OpenTns, WriteTns, WriteManifest, Begin, Proceed, Exporting
<1>3. /\ step[r] \in Exporting /\ step[r] \in Running
      /\ UNCHANGED <<tmp, out, file, job>>
  BY DEF Export, SkipExport, StartExport, OpenTns, WriteTns, WriteManifest, Exporting, Running, disk
<1>4. s \in Step /\ OneRunner' /\ step' \in [Runner -> Step]
  BY <1>2, <1>3, StaysAlone DEF Exporting, Step, Running, Training
<1>5. /\ step'[r] = s
      /\ \A q \in Runner \ {r} :
           step'[q] = step[q] /\ step[q] \in {"off", "done", "failed", "killed"} /\ job'[q] = NoJob
  BY <1>1, <1>2, <1>3, OthersRest DEF Do, TypeOK
<1>6. turn' \in [Runner -> Nat] /\ (s = "check" => turn'[r] = 1)
  BY <1>1, <1>2, <1>4, <1>5
     DEF TypeOK, Export, SkipExport, StartExport, OpenTns, WriteTns, WriteManifest, Begin, Proceed, Do
<1>7. /\ manifest' \in BOOLEAN /\ tns' \in [DOMAIN Data -> {"missing", "part", "whole"}]
      /\ s = "check" => manifest'
  BY <1>1, <1>2, <1>4, <1>5
     DEF TypeOK, Export, SkipExport, StartExport, OpenTns, WriteTns, WriteManifest, disk, Do, Begin, Proceed
<1>8. TypeOK'
  BY <1>1, <1>3, <1>4, <1>6, <1>7 DEF TypeOK
<1>9. ExportInv'
  <2>1. CASE SkipExport(r)
    BY <1>1, <2>1 DEF SkipExport, Begin, Do, disk, ExportInv, TypeOK
  <2>2. CASE StartExport(r)
    BY <1>1, <2>2, Domains DEF StartExport, Begin, Do, disk, ExportInv, TypeOK
  <2>3. CASE OpenTns(r)
    <3>1. /\ turn'[r] = turn[r] /\ ~manifest /\ ~manifest' /\ turn[r] \in Nat /\ turn[r] >= 1
          /\ \A d \in DOMAIN Data : d # turn[r] => tns'[d] = tns[d]
          /\ \A d \in DOMAIN Data : d < turn[r] => tns[d] = "whole"
      BY <1>1, <2>3 DEF OpenTns, ExportInv, TypeOK
    <3>2. s = "dump"
      BY <1>1, <1>5, <2>3 DEF OpenTns, Do, TypeOK
    <3> QED
      BY <1>5, <3>1, <3>2, Domains DEF ExportInv
  <2>4. CASE WriteTns(r)
    <3>1. /\ turn'[r] = turn[r] + 1 /\ ~manifest /\ ~manifest' /\ turn[r] \in Nat /\ turn[r] >= 1
          /\ \A d \in DOMAIN Data : d # turn[r] => tns'[d] = tns[d]
          /\ \A d \in DOMAIN Data : d = turn[r] => tns'[d] = "whole"
          /\ \A d \in DOMAIN Data : d < turn[r] => tns[d] = "whole"
      BY <1>1, <2>4 DEF WriteTns, Proceed, ExportInv, TypeOK
    <3>2. s = "export"
      BY <1>1, <1>5, <2>4 DEF WriteTns, Proceed, Do, TypeOK
    <3>3. \A d \in DOMAIN Data : d < turn'[r] => tns'[d] = "whole"
      BY <3>1, Domains
    <3>4. turn'[r] >= 1
      BY <3>1
    <3>5. ASSUME NEW q \in Runner, step'[q] \in {"export", "dump"}
          PROVE  ~manifest' /\ turn'[q] >= 1 /\ \A d \in DOMAIN Data : d < turn'[q] => tns'[d] = "whole"
      <4>1. q = r
        BY <1>5, <3>5
      <4> QED
        BY <3>1, <3>3, <3>4, <4>1
    <3>6. ~(\A q \in Runner : step'[q] = "off")
      BY <1>5, <3>2
    <3> QED
      BY <3>1, <3>5, <3>6 DEF ExportInv
  <2>5. CASE WriteManifest(r)
    <3>1. /\ turn[r] \in Nat /\ turn[r] >= 1 /\ turn[r] \notin DOMAIN Data
          /\ \A d \in DOMAIN Data : d < turn[r] => tns[d] = "whole"
          /\ tns' = tns /\ manifest'
      BY <1>1, <2>5 DEF WriteManifest, ExportInv, TypeOK
    <3>2. \A d \in DOMAIN Data : tns'[d] # "part"
      BY <3>1, Domains
    <3>3. s = "check"
      BY <1>1, <1>5, <2>5 DEF WriteManifest, Begin, Do, TypeOK
    <3> QED
      BY <1>5, <3>1, <3>2, <3>3 DEF ExportInv
  <2> QED
    BY <2>1, <2>2, <2>3, <2>4, <2>5 DEF Export
<1>10. JobInv'
  <2>1. job[r] = NoJob
    BY <1>3 DEF RunnerInv, JobInv, Exporting
  <2>2. \A q \in Runner : step'[q] \notin Training /\ job'[q] = NoJob
    BY <1>3, <1>5, <2>1 DEF Exporting, Training
  <2>3. \A q \in Runner : step'[q] = "check" => manifest' /\ turn'[q] >= 1
    BY <1>5, <1>6, <1>7
  <2> QED
    BY <2>2, <2>3 DEF JobInv, Training
<1>11. TurnInv'
  BY <1>5, <1>6, Domains DEF TurnInv, Training, Exporting
<1>12. \A q \in Runner : Ahead(q)' \subseteq Ahead(q)
  BY <1>3, <1>5 DEF Ahead, Exporting, Training
<1>13. \A q \in Runner : step'[q] = "done" => step[q] = "done"
  BY <1>5 DEF Exporting
<1> QED
  BY <1>3, <1>4, <1>8, <1>9, <1>10, <1>11, <1>12, <1>13, QuietKeeps

LEMMA SyncKeeps ==
  ASSUME RunnerInv, Sync
  PROVE  RunnerInv'
<1>1. TypeOK /\ ExportInv
  BY DEF RunnerInv
<1>2. UNCHANGED <<tmp, out, file, step, turn, job>>
  BY DEF Sync, SyncManifest, SyncData
<1>3. TypeOK'
  BY <1>1, <1>2, RunnerAssumption DEF TypeOK, Sync, SyncManifest, SyncData
<1>4. ExportInv'
  BY <1>1 DEF ExportInv, TypeOK, Sync, SyncManifest, SyncData
<1>5. JobInv'
  <2>1. manifest => manifest'
    BY DEF Sync, SyncManifest, SyncData
  <2> QED
    BY <1>2, <2>1 DEF RunnerInv, JobInv, csv_done
<1>6. OneRunner' /\ TurnInv'
  BY <1>2 DEF RunnerInv, OneRunner, TurnInv, csv_done
<1>7. NameInv' /\ DoneMeansAllDone' /\ AcceptedIsComplete'
  BY <1>2 DEF RunnerInv, NameInv, Ahead, DoneMeansAllDone, AcceptedIsComplete, csv_done
<1> QED
  BY <1>3, <1>4, <1>5, <1>6, <1>7 DEF RunnerInv

-------------------------------------------------------------------------------
(* The experiments.                                                          *)

\* A step of r under which r runs on.
LEMMA GoesOn ==
  ASSUME RunnerInv, NEW r \in Runner, step[r] \in Running, NEW s \in Training \union {"check"},
         Do(r, s)
  PROVE  /\ OneRunner' /\ step' \in [Runner -> Step] /\ step'[r] = s
         /\ \A q \in Runner \ {r} : /\ step'[q] = step[q] /\ job[q] = NoJob
                                    /\ step[q] \in {"off", "done", "failed", "killed"}
         /\ \A q \in Runner : step'[q] = "done" => step[q] = "done"
<1>1. s \in Step /\ s \notin {"done", "off"}
  BY DEF Step, Running, Training
<1>2. OneRunner' /\ step' \in [Runner -> Step]
  BY <1>1, StaysAlone
<1>3. step'[r] = s /\ \A q \in Runner \ {r} : step'[q] = step[q]
  BY DEF RunnerInv, TypeOK, Do
<1> QED
  BY <1>1, <1>2, <1>3, OthersRest

\* The export is over when r does its experiments.
LEMMA ExportStays ==
  ASSUME RunnerInv, NEW r \in Runner, step[r] \in Running,
         NEW s \in Training \union {"check"}, Do(r, s), UNCHANGED <<manifest, tns>>
  PROVE  ExportInv'
<1>1. s \notin {"off", "export", "dump"}
  BY DEF Training
<1> QED
  BY <1>1, GoesOn DEF RunnerInv, ExportInv

\* r is in its turn, or has not begun it.
LEMMA InTurn ==
  ASSUME RunnerInv, NEW r \in Runner, step[r] \in Training \union {"check"}
  PROVE  /\ manifest /\ turn[r] \in Nat /\ turn[r] >= 1 /\ step[r] \in Running
         /\ \A e \in Experiment : e < turn[r] => csv_done(e)
         /\ step[r] \in Training => turn[r] \in Experiment /\ ~csv_done(turn[r])
BY DEF RunnerInv, JobInv, TurnInv, TypeOK, Running

LEMMA SkipKeeps ==
  ASSUME RunnerInv, NEW r \in Runner, Skip(r)
  PROVE  RunnerInv'
<1>1. /\ step[r] = "check" /\ turn[r] \in Experiment /\ csv_done(turn[r])
      /\ Do(r, "check") /\ turn' = [turn EXCEPT ![r] = @ + 1]
      /\ UNCHANGED <<manifest, tns, tmp, out, file, job>>
  BY DEF Skip, Proceed, disk
<1>2. /\ manifest /\ turn[r] \in Nat /\ turn[r] >= 1 /\ step[r] \in Running
      /\ \A e \in Experiment : e < turn[r] => csv_done(e)
  BY <1>1, InTurn
<1>3. /\ OneRunner' /\ step' \in [Runner -> Step] /\ step'[r] = "check"
      /\ \A q \in Runner \ {r} : /\ step'[q] = step[q] /\ job[q] = NoJob
                                 /\ step[q] \in {"off", "done", "failed", "killed"}
      /\ \A q \in Runner : step'[q] = "done" => step[q] = "done"
  BY <1>1, <1>2, GoesOn
<1>4. turn' \in [Runner -> Nat] /\ turn'[r] = turn[r] + 1
  BY <1>1, <1>2 DEF RunnerInv, TypeOK
<1>5. TypeOK'
  BY <1>1, <1>3, <1>4 DEF RunnerInv, TypeOK
<1>6. ExportInv'
  BY <1>1, <1>2, ExportStays
<1>7. JobInv'
  <2>1. job[r] = NoJob
    BY <1>1 DEF RunnerInv, JobInv
  <2>2. \A q \in Runner : step'[q] \notin Training /\ job'[q] = NoJob
    BY <1>1, <1>3, <2>1 DEF Training
  <2>3. turn'[r] >= 1 /\ manifest'
    BY <1>1, <1>2, <1>4
  <2> QED
    BY <1>3, <2>2, <2>3 DEF JobInv, Training
<1>8. TurnInv'
  <2>1. \A e \in Experiment : e < turn'[r] => csv_done(e)
    BY <1>1, <1>2, <1>4, Domains
  <2>2. \A e \in Experiment : csv_done(e)' = csv_done(e)
    BY <1>1, AcceptedStays
  <2> QED
    BY <1>3, <2>1, <2>2 DEF TurnInv, Training
<1>9. \A q \in Runner : Ahead(q)' \subseteq Ahead(q)
  <2>1. \A e \in Experiment : (e > turn'[r] \/ e = turn'[r]) => e > turn[r]
    BY <1>2, <1>4, Domains
  <2> QED
    BY <1>1, <1>3, <2>1 DEF Ahead, Training
<1> QED
  BY <1>1, <1>3, <1>5, <1>6, <1>7, <1>8, <1>9, QuietKeeps

LEMMA RunKeeps ==
  ASSUME RunnerInv, NEW r \in Runner, Run(r)
  PROVE  RunnerInv'
<1>1. /\ step[r] = "check" /\ turn[r] \in Experiment /\ ~csv_done(turn[r])
      /\ Do(r, "clean") /\ UNCHANGED <<manifest, tns, tmp, out, file, turn, job>>
  BY DEF Run, disk
<1>2. /\ manifest /\ turn[r] \in Nat /\ turn[r] >= 1 /\ step[r] \in Running
  BY <1>1, InTurn
<1>3. /\ OneRunner' /\ step' \in [Runner -> Step] /\ step'[r] = "clean"
      /\ \A q \in Runner \ {r} : /\ step'[q] = step[q] /\ job[q] = NoJob
                                 /\ step[q] \in {"off", "done", "failed", "killed"}
      /\ \A q \in Runner : step'[q] = "done" => step[q] = "done"
  BY <1>1, <1>2, GoesOn DEF Training
<1>4. TypeOK'
  BY <1>1, <1>3 DEF RunnerInv, TypeOK
<1>5. ExportInv'
  BY <1>1, <1>2, ExportStays DEF Training
<1>6. \A e \in Experiment : csv_done(e)' = csv_done(e)
  BY <1>1, AcceptedStays
<1>7. JobInv'
  <2>1. job[r] = NoJob
    BY <1>1 DEF RunnerInv, JobInv
  <2>2. \A q \in Runner : job'[q] = NoJob /\ (step'[q] \in Training \union {"check"} => q = r)
    BY <1>1, <1>3, <2>1 DEF Training
  <2> QED
    BY <1>1, <1>2, <1>3, <1>6, <2>2 DEF JobInv, Training
<1>8. TurnInv'
  BY <1>1, <1>3, <1>6 DEF RunnerInv, TurnInv, Training
<1>9. \A q \in Runner : Ahead(q)' \subseteq Ahead(q)
  BY <1>1, <1>3 DEF Ahead, Training
<1> QED
  BY <1>1, <1>3, <1>4, <1>5, <1>7, <1>8, <1>9, QuietKeeps

LEMMA CleanKeeps ==
  ASSUME RunnerInv, NEW r \in Runner, Clean(r)
  PROVE  RunnerInv'
<1>1. /\ step[r] = "clean" /\ Do(r, "train")
      /\ tmp' = [tmp EXCEPT ![turn[r]] = NoFile]
      /\ UNCHANGED <<manifest, tns, out, file, turn, job>>
  BY DEF Clean
<1>2. /\ manifest /\ turn[r] \in Nat /\ turn[r] >= 1 /\ step[r] \in Running
      /\ turn[r] \in Experiment /\ ~csv_done(turn[r])
  BY <1>1, InTurn DEF Training
<1>3. /\ OneRunner' /\ step' \in [Runner -> Step] /\ step'[r] = "train"
      /\ \A q \in Runner \ {r} : /\ step'[q] = step[q] /\ job[q] = NoJob
                                 /\ step[q] \in {"off", "done", "failed", "killed"}
      /\ \A q \in Runner : step'[q] = "done" => step[q] = "done"
  BY <1>1, <1>2, GoesOn DEF Training
<1>4. /\ tmp' \in [Experiment -> File \union {NoFile}] /\ tmp'[turn[r]] = NoFile
      /\ \A e \in Experiment : tmp'[e] \in {tmp[e], NoFile}
  BY <1>1, <1>2 DEF RunnerInv, TypeOK
<1>5. TypeOK'
  BY <1>1, <1>3, <1>4 DEF RunnerInv, TypeOK
<1>6. ExportInv'
  BY <1>1, <1>2, ExportStays DEF Training
<1>7. AcceptedIsComplete' /\ \A e \in Experiment : csv_done(e)' = csv_done(e)
  BY <1>1, AcceptedStays
<1>8. NameInv'
  <2>1. \A q \in Runner : Ahead(q)' \subseteq Ahead(q)
    BY <1>1, <1>3 DEF Ahead, Training
  <2>2. \A q \in Runner, e \in Experiment : <<q, e>> # NoFile
    BY Domains
  <2>3. \A q \in Runner : Ahead(q) \subseteq Experiment
    BY DEF Ahead
  <2> QED
    BY <1>1, <1>4, <2>1, <2>2, <2>3 DEF RunnerInv, NameInv
<1>9. JobInv'
  <2>1. job[r] = NoJob
    BY <1>1 DEF RunnerInv, JobInv
  <2>2. \A q \in Runner : job'[q] = NoJob /\ (step'[q] \in Training \union {"check"} => q = r)
    BY <1>1, <1>3, <2>1 DEF Training
  <2> QED
    BY <1>1, <1>2, <1>3, <1>4, <1>7, <2>2 DEF JobInv, Training
<1>10. TurnInv'
  BY <1>1, <1>3, <1>7 DEF RunnerInv, TurnInv, Training
<1>11. DoneMeansAllDone'
  BY <1>3, <1>7 DEF RunnerInv, DoneMeansAllDone
<1> QED
  BY <1>3, <1>5, <1>6, <1>7, <1>8, <1>9, <1>10, <1>11 DEF RunnerInv

LEMMA TrainKeeps ==
  ASSUME RunnerInv, NEW r \in Runner, Train(r)
  PROVE  RunnerInv'
<1>1. /\ step[r] = "train" /\ Do(r, "open") /\ ~InputIs(turn[r], "missing")
      /\ UNCHANGED <<manifest, tns, tmp, out, file, turn>>
  BY DEF Train, disk
<1>2. /\ manifest /\ turn[r] \in Nat /\ turn[r] >= 1 /\ step[r] \in Running
      /\ turn[r] \in Experiment /\ ~csv_done(turn[r])
  BY <1>1, InTurn DEF Training
<1>3. /\ OneRunner' /\ step' \in [Runner -> Step] /\ step'[r] = "open"
      /\ \A q \in Runner \ {r} : /\ step'[q] = step[q] /\ job[q] = NoJob
                                 /\ step[q] \in {"off", "done", "failed", "killed"}
      /\ \A q \in Runner : step'[q] = "done" => step[q] = "done"
  BY <1>1, <1>2, GoesOn DEF Training
\* The manifest is there, so the data that is there is whole.
<1>4. InputIs(turn[r], "whole")
  <2>1. CASE ~Plan[turn[r]].tns
    BY <2>1 DEF InputIs
  <2>2. CASE Plan[turn[r]].tns
    <3>1. PICK d \in DOMAIN Data : Data[d] = Plan[turn[r]].data /\ tns[d] # "missing"
      BY <1>1, <2>2 DEF InputIs
    <3>2. tns[d] = "whole"
      BY <1>2, <3>1 DEF RunnerInv, ExportInv, TypeOK
    <3>3. \A c \in DOMAIN Data : Data[c] = Data[d] => c = d
      BY RunnerAssumption DEF IsInjective
    <3> QED
      BY <2>2, <3>1, <3>2, <3>3 DEF InputIs
  <2> QED
    BY <2>1, <2>2
<1>5. PICK n \in 0 .. MaxRows, ok \in BOOLEAN :
        /\ ok => n > 0
        /\ job' = [job EXCEPT ![r] = [rows |-> n, ok |-> ok, holds |-> NoFile,
                                          whole |-> InputIs(turn[r], "whole")]]
  BY DEF Train
<1>6. /\ job'[r] = [rows |-> n, ok |-> ok, holds |-> NoFile, whole |-> TRUE]
      /\ \A q \in Runner \ {r} : job'[q] = NoJob
      /\ job' \in [Runner -> [rows : Nat, ok : BOOLEAN, whole : BOOLEAN, holds : File \union {NoFile}]]
  <2>1. job' = [job EXCEPT ![r] = [rows |-> n, ok |-> ok, holds |-> NoFile, whole |-> TRUE]]
    <3>1. InputIs(turn[r], "whole") = TRUE
      BY <1>4 DEF InputIs
    <3> QED
      BY <1>5, <3>1
  <2>2. n \in Nat
    BY RunnerAssumption
  <2> QED
    BY <1>3, <2>1, <2>2 DEF RunnerInv, TypeOK
<1>7. TypeOK'
  BY <1>1, <1>3, <1>6 DEF RunnerInv, TypeOK
<1>8. ExportInv'
  BY <1>1, <1>2, ExportStays DEF Training
<1>9. AcceptedIsComplete' /\ \A e \in Experiment : csv_done(e)' = csv_done(e)
  BY <1>1, AcceptedStays
<1>10. NameInv'
  <2>1. \A q \in Runner : Ahead(q)' \subseteq Ahead(q)
    BY <1>1, <1>3 DEF Ahead, Training
  <2> QED
    BY <1>1, <2>1 DEF RunnerInv, NameInv
<1>11. JobInv'
  <2>1. tmp[turn[r]] = NoFile
    BY <1>1 DEF RunnerInv, JobInv
  <2>2. \A q \in Runner : step'[q] \in Training \union {"check"} => q = r
    BY <1>3 DEF Training
  <2>3. ok /\ n = 0 => FALSE
    BY <1>5
  <2> QED
    BY <1>1, <1>2, <1>3, <1>6, <1>9, <2>1, <2>2, <2>3 DEF JobInv, Training
<1>12. TurnInv' /\ DoneMeansAllDone'
  BY <1>1, <1>3, <1>9 DEF RunnerInv, TurnInv, Training, DoneMeansAllDone
<1> QED
  BY <1>3, <1>7, <1>8, <1>9, <1>10, <1>11, <1>12 DEF RunnerInv

\* The file that r makes in its turn bears no result's name before r moves it.
LEMMA OwnFile ==
  ASSUME RunnerInv, NEW r \in Runner, step[r] \in {"open", "write", "move"}
  PROVE  /\ turn[r] \in Experiment /\ <<r, turn[r]>> \in File
         /\ \A e \in Experiment : out[e] # <<r, turn[r]>>
<1>1. turn[r] \in Experiment /\ <<r, turn[r]>> \in File
  BY InTurn, Domains DEF Training
<1>2. out[turn[r]] # <<r, turn[r]>>
  <2>1. CASE step[r] = "open"
    BY <1>1, <2>1 DEF RunnerInv, NameInv, Ahead
  <2>2. CASE step[r] \in {"write", "move"}
    BY <2>2 DEF RunnerInv, JobInv
  <2> QED
    BY <2>1, <2>2
<1>3. ASSUME NEW e \in Experiment, e # turn[r] PROVE out[e] # <<r, turn[r]>>
  BY <1>1, <1>3, Domains DEF RunnerInv, NameInv
<1> QED
  BY <1>1, <1>2, <1>3

\* r changes its file and no other.
LEMMA OwnFileChanges ==
  ASSUME RunnerInv, NEW r \in Runner, step[r] \in {"open", "write", "move"}, out' = out,
         \A g \in File \ {<<r, turn[r]>>} : file'[g] = file[g]
  PROVE  /\ AcceptedIsComplete' /\ \A e \in Experiment : csv_done(e)' = csv_done(e)
         /\ \A e \in Experiment : out[e] # NoFile => file'[out[e]] = file[out[e]]
<1>1. \A e \in Experiment : out[e] # NoFile => file'[out[e]] = file[out[e]]
  BY OwnFile DEF RunnerInv, TypeOK
<1> QED
  BY <1>1, AcceptedStays

LEMMA OpenKeeps ==
  ASSUME RunnerInv, NEW r \in Runner, Open(r)
  PROVE  RunnerInv'
<1> DEFINE e == turn[r]
           f == <<r, e>>
<1>1. /\ step[r] = "open" /\ Do(r, "write")
      /\ UNCHANGED <<manifest, tns, out, turn>>
  BY DEF Open
<1>2. /\ manifest /\ e \in Nat /\ e >= 1 /\ step[r] \in Running
      /\ e \in Experiment /\ ~csv_done(e)
      /\ \A d \in Experiment : d < e => csv_done(d)
  BY <1>1, InTurn DEF Training
<1>3. /\ OneRunner' /\ step' \in [Runner -> Step] /\ step'[r] = "write"
      /\ \A q \in Runner \ {r} : /\ step'[q] = step[q] /\ job[q] = NoJob
                                 /\ step[q] \in {"off", "done", "failed", "killed"}
      /\ \A q \in Runner : step'[q] = "done" => step[q] = "done"
  BY <1>1, <1>2, GoesOn DEF Training
<1>4. /\ f \in File /\ f # NoFile /\ tmp[e] = NoFile /\ job[r].whole
      /\ job[r].holds = NoFile /\ (job[r].ok => job[r].rows # 0)
      /\ \A d \in Experiment : out[d] # f
  <2>1. JobInv
    BY DEF RunnerInv
  <2> QED
    BY <1>1, <1>2, <2>1, Domains, OwnFile DEF JobInv
<1>5. {q \in Runner : job[q].holds = f} = {}
  BY <1>3, <1>4 DEF NoJob
<1>6. /\ tmp' = [tmp EXCEPT ![e] = f]
      /\ file' = [file EXCEPT ![f] = [rows |-> 0, writers |-> {r}, ended |-> FALSE,
                                      whole |-> job[r].whole]]
      /\ job' = [job EXCEPT ![r].holds = f]
  BY <1>4, <1>5 DEF Open
<1>7. /\ tmp'[e] = f /\ tmp' \in [Experiment -> File \union {NoFile}]
      /\ \A d \in Experiment \ {e} : tmp'[d] = tmp[d]
  BY <1>2, <1>4, <1>6 DEF RunnerInv, TypeOK
<1>8. /\ file'[f] = [rows |-> 0, writers |-> {r}, ended |-> FALSE, whole |-> job[r].whole]
      /\ file' \in FileType
      /\ \A g \in File \ {f} : file'[g] = file[g]
  BY <1>4, <1>6 DEF RunnerInv, TypeOK, FileType
<1>9. /\ job'[r].holds = f /\ job'[r].whole /\ job'[r].rows = job[r].rows /\ job'[r].ok = job[r].ok
      /\ job' \in [Runner -> [rows : Nat, ok : BOOLEAN, whole : BOOLEAN, holds : File \union {NoFile}]]
      /\ \A q \in Runner \ {r} : job'[q] = NoJob
  <2>1. job \in [Runner -> [rows : Nat, ok : BOOLEAN, whole : BOOLEAN, holds : File \union {NoFile}]]
    BY DEF RunnerInv, TypeOK
  <2>2. job' = [job EXCEPT ![r] = [job[r] EXCEPT !.holds = f]]
    BY <1>6
  <2>3. /\ job[r] \in [rows : Nat, ok : BOOLEAN, whole : BOOLEAN, holds : File \union {NoFile}]
        /\ job[r].whole /\ f \in File
    BY <1>4, <2>1
  <2>4. \A q \in Runner \ {r} : job[q] = NoJob
    BY <1>3
  <2> HIDE DEF f
  <2> QED
    BY <2>1, <2>2, <2>3, <2>4
<1>10. TypeOK'
  BY <1>1, <1>3, <1>7, <1>8, <1>9 DEF RunnerInv, TypeOK, FileType
<1>11. ExportInv'
  BY <1>1, <1>2, ExportStays DEF Training
<1>12. AcceptedIsComplete' /\ \A d \in Experiment : csv_done(d)' = csv_done(d)
  BY <1>1, <1>8, OwnFileChanges
<1>13. NameInv'
  <2>1. Ahead(r)' \subseteq Ahead(r) \ {e}
    BY <1>1, <1>2, <1>3, Domains DEF Ahead, Training
  <2>2. \A q \in Runner \ {r} : Ahead(q)' = Ahead(q)
    BY <1>1, <1>3 DEF Ahead
  <2>3. \A q \in Runner : Ahead(q)' \subseteq Experiment /\ Ahead(q) \subseteq Experiment
    BY DEF Ahead
  <2>4. \A d \in Experiment : {tmp'[d], out'[d]} \subseteq (Runner \X {d}) \union {NoFile}
    <3>1. f \in Runner \X {e}
      BY <1>2
    <3>2. \A d \in Experiment : {tmp[d], out[d]} \subseteq (Runner \X {d}) \union {NoFile}
      BY DEF RunnerInv, NameInv
    <3> HIDE DEF f
    <3> QED
      BY <1>1, <1>7, <3>1, <3>2
  <2>5. ASSUME NEW q \in Runner, NEW d \in Ahead(q)'
        PROVE  file'[<<q, d>>] = Empty /\ <<q, d>> \notin {tmp'[d], out'[d]}
    <3>1. d \in Ahead(q) /\ d \in Experiment /\ <<q, d>> # f
      BY <2>1, <2>2, <2>3
    <3>2. <<q, d>> \in File
      BY <3>1, Domains
    <3>3. file[<<q, d>>] = Empty /\ <<q, d>> \notin {tmp[d], out[d]}
      BY <3>1 DEF RunnerInv, NameInv
    <3> QED
      BY <1>1, <1>7, <1>8, <3>1, <3>2, <3>3
  <2> QED
    BY <2>4, <2>5 DEF NameInv
<1>14. JobInv'
  <2>1. \A q \in Runner : step'[q] \in Training \union {"check"} => q = r
    BY <1>3 DEF Training
  <2>2. file'[f].whole /\ file'[f].writers = {r}
    BY <1>4, <1>8
  <2>3. /\ manifest' /\ turn'[r] = e /\ e >= 1 /\ ~csv_done(e)'
        /\ step'[r] = "write" /\ job'[r].whole /\ job'[r].holds = f
        /\ tmp'[e] = f /\ out'[e] # f
    BY <1>1, <1>2, <1>3, <1>4, <1>7, <1>9, <1>12
  <2>4. ~(job'[r].ok /\ job'[r].rows = 0)
    BY <1>4, <1>9
  <2>5. \A q \in Runner \ {r} : step'[q] \in {"off", "done", "failed", "killed"} /\ job'[q] = NoJob
    BY <1>3, <1>9
  <2> HIDE DEF f
  <2> QED
    BY <1>2, <2>2, <2>3, <2>4, <2>5, SMTT(20) DEF JobInv, Training, f
<1>15. TurnInv' /\ DoneMeansAllDone'
  BY <1>1, <1>3, <1>12 DEF RunnerInv, TurnInv, Training, DoneMeansAllDone
<1> QED
  BY <1>3, <1>10, <1>11, <1>12, <1>13, <1>14, <1>15 DEF RunnerInv

\* What r knows while its program writes.
LEMMA WhileWriting ==
  ASSUME RunnerInv, NEW r \in Runner, step[r] = "write"
  PROVE  LET f == <<r, turn[r]>> IN
         /\ step[r] \in Running /\ manifest /\ turn[r] \in Nat /\ turn[r] >= 1
         /\ turn[r] \in Experiment /\ ~csv_done(turn[r]) /\ f \in File
         /\ job[r].holds = f /\ tmp[turn[r]] = f /\ job[r].whole
         /\ file[f].whole /\ file[f].writers = {r} /\ file[f].rows \in Nat
         /\ job[r].ok /\ job[r].rows = 0 => file[f].rows > 0
         /\ \A d \in Experiment : out[d] # f
         /\ \A q \in Runner \ {r} : job[q] = NoJob /\ step[q] \in {"off", "done", "failed", "killed"}
<1>1. step[r] \in Running /\ manifest /\ turn[r] \in Nat /\ turn[r] >= 1
  BY InTurn DEF Training
<1>2. turn[r] \in Experiment /\ ~csv_done(turn[r]) /\ <<r, turn[r]>> \in File
  BY InTurn, Domains DEF Training
<1>3. JobInv
  BY DEF RunnerInv
<1>4. /\ job[r].holds = <<r, turn[r]>> /\ tmp[turn[r]] = <<r, turn[r]>> /\ job[r].whole
      /\ file[<<r, turn[r]>>].whole /\ file[<<r, turn[r]>>].writers = {r}
      /\ job[r].ok /\ job[r].rows = 0 => file[<<r, turn[r]>>].rows > 0
  BY <1>3 DEF JobInv
<1>5. file[<<r, turn[r]>>].rows \in Nat
  BY <1>2 DEF RunnerInv, TypeOK
<1> QED
  BY <1>1, <1>2, <1>4, <1>5, OwnFile, OthersRest

LEMMA WriteKeeps ==
  ASSUME RunnerInv, NEW r \in Runner, Write(r)
  PROVE  RunnerInv'
<1> DEFINE e == turn[r]
           f == <<r, e>>
<1>1. /\ step[r] = "write" /\ job[r].rows > 0
      /\ UNCHANGED <<manifest, tns, tmp, out, step, turn>>
  BY DEF Write
<1>2. /\ step[r] \in Running /\ e \in Experiment /\ f \in File
      /\ job[r].holds = f /\ tmp[e] = f /\ job[r].whole
      /\ file[f].whole /\ file[f].writers = {r} /\ file[f].rows \in Nat
      /\ \A d \in Experiment : out[d] # f
      /\ \A q \in Runner \ {r} : job[q] = NoJob /\ step[q] \in {"off", "done", "failed", "killed"}
  BY <1>1, WhileWriting
<1>3. /\ job' = [job EXCEPT ![r].rows = @ - 1]
      /\ file' = [file EXCEPT ![f].rows = @ + 1]
  BY <1>2 DEF Write
<1>4. /\ job'[r].holds = f /\ job'[r].whole /\ job'[r].ok = job[r].ok
      /\ job' \in [Runner -> [rows : Nat, ok : BOOLEAN, whole : BOOLEAN, holds : File \union {NoFile}]]
      /\ \A q \in Runner \ {r} : job'[q] = NoJob
  BY <1>1, <1>2, <1>3 DEF RunnerInv, TypeOK
<1>5. /\ file'[f].whole /\ file'[f].writers = {r} /\ file'[f].rows > 0
      /\ file' \in FileType
      /\ \A g \in File \ {f} : file'[g] = file[g]
  <2>1. file \in FileType
    BY DEF RunnerInv, TypeOK, FileType
  <2>2. file' = [file EXCEPT ![f] = [file[f] EXCEPT !.rows = file[f].rows + 1]]
    BY <1>3
  <2>3. /\ file[f] \in [rows : Nat, writers : SUBSET Runner, ended : BOOLEAN, whole : BOOLEAN]
        /\ [file[f] EXCEPT !.rows = file[f].rows + 1]
             \in [rows : Nat, writers : SUBSET Runner, ended : BOOLEAN, whole : BOOLEAN]
    BY <1>2, <2>1 DEF FileType
  <2>4. file'[f] = [file[f] EXCEPT !.rows = file[f].rows + 1]
    BY <1>2, <2>1, <2>2 DEF FileType
  <2>5. file' \in FileType /\ \A g \in File \ {f} : file'[g] = file[g]
    BY <2>1, <2>2, <2>3 DEF FileType
  <2>6. file'[f].whole = file[f].whole /\ file'[f].writers = file[f].writers
        /\ file'[f].rows = file[f].rows + 1
    BY <2>3, <2>4
  <2> HIDE DEF f
  <2> QED
    BY <1>2, <2>5, <2>6
<1>6. TypeOK'
  BY <1>1, <1>4, <1>5 DEF RunnerInv, TypeOK, FileType
<1>7. OneRunner' /\ ExportInv'
  BY <1>1 DEF RunnerInv, OneRunner, ExportInv
<1>8. AcceptedIsComplete' /\ \A d \in Experiment : csv_done(d)' = csv_done(d)
  BY <1>1, <1>5, OwnFileChanges
<1>9. NameInv'
  <2>1. \A q \in Runner : Ahead(q)' = Ahead(q) /\ Ahead(q) \subseteq Experiment
    BY <1>1 DEF Ahead
  <2>2. \A q \in Runner : \A d \in Ahead(q) : <<q, d>> # f
    BY <1>1, <1>2, Domains DEF Ahead, Training
  <2>3. \A q \in Runner : \A d \in Ahead(q) : file'[<<q, d>>] = Empty
    BY <1>5, <2>1, <2>2, Domains DEF RunnerInv, NameInv
  <2> QED
    BY <1>1, <2>1, <2>3 DEF RunnerInv, NameInv
<1>10. JobInv'
  <2>1. \A q \in Runner : step'[q] \in Training \union {"check"} => q = r
    BY <1>1, <1>2 DEF Training
  <2>2. manifest' /\ turn'[r] >= 1 /\ turn'[r] \in Experiment /\ ~csv_done(turn[r])'
    BY <1>1, <1>8, WhileWriting
  <2>3. out'[e] # f /\ tmp'[e] = f /\ turn'[r] = e /\ step'[r] = "write"
    BY <1>1, <1>2
  <2> HIDE DEF f
  <2> QED
    BY <1>1, <1>4, <1>5, <2>1, <2>2, <2>3 DEF JobInv, Training, f
<1>11. TurnInv' /\ DoneMeansAllDone'
  BY <1>1, <1>8 DEF RunnerInv, TurnInv, DoneMeansAllDone
<1> QED
  BY <1>6, <1>7, <1>8, <1>9, <1>10, <1>11 DEF RunnerInv

LEMMA FinishKeeps ==
  ASSUME RunnerInv, NEW r \in Runner, Finish(r)
  PROVE  RunnerInv'
<1> DEFINE e == turn[r]
           f == <<r, e>>
<1>1. step[r] = "write" /\ job[r].rows = 0 /\ UNCHANGED <<manifest, tns, tmp, out>>
  BY DEF Finish
<1>2. /\ step[r] \in Running /\ e \in Experiment /\ f \in File
      /\ job[r].holds = f /\ tmp[e] = f /\ job[r].whole
      /\ file[f].whole /\ file[f].writers = {r} /\ (job[r].ok => file[f].rows > 0)
      /\ \A d \in Experiment : out[d] # f
      /\ \A q \in Runner \ {r} : job[q] = NoJob /\ step[q] \in {"off", "done", "failed", "killed"}
  BY <1>1, WhileWriting
<1>3. file' = [file EXCEPT ![f].ended = job[r].ok]
  BY <1>2 DEF Finish
<1>4. /\ file' \in FileType /\ \A g \in File \ {f} : file'[g] = file[g]
      /\ file'[f].ended = job[r].ok /\ file'[f].rows = file[f].rows
      /\ file'[f].whole = file[f].whole /\ file'[f].writers = file[f].writers
  <2>1. file \in FileType /\ job[r].ok \in BOOLEAN
    BY DEF RunnerInv, TypeOK, FileType
  <2>2. file' = [file EXCEPT ![f] = [file[f] EXCEPT !.ended = job[r].ok]]
    BY <1>3
  <2>3. /\ file[f] \in [rows : Nat, writers : SUBSET Runner, ended : BOOLEAN, whole : BOOLEAN]
        /\ [file[f] EXCEPT !.ended = job[r].ok]
             \in [rows : Nat, writers : SUBSET Runner, ended : BOOLEAN, whole : BOOLEAN]
    BY <1>2, <2>1 DEF FileType
  <2>4. file'[f] = [file[f] EXCEPT !.ended = job[r].ok]
    BY <1>2, <2>1, <2>2 DEF FileType
  <2>5. file' \in FileType /\ \A g \in File \ {f} : file'[g] = file[g]
    BY <2>1, <2>2, <2>3 DEF FileType
  <2> QED
    BY <2>3, <2>4, <2>5
<1>5. /\ AcceptedIsComplete' /\ \A d \in Experiment : csv_done(d)' = csv_done(d)
      /\ \A d \in Experiment : out[d] # NoFile => file'[out[d]] = file[out[d]]
  BY <1>1, <1>4, OwnFileChanges
<1>6. CASE ~job[r].ok
  <2>1. Stop(r, "failed")
    BY <1>6 DEF Finish
  <2>2. \A q \in Runner \ {r}, d \in Experiment : file'[<<q, d>>] = file[<<q, d>>]
    BY <1>4, Domains
  <2> QED
    BY <1>1, <1>2, <1>4, <1>5, <2>1, <2>2, StopKeeps
<1>7. CASE job[r].ok
  <2>1. Do(r, "move") /\ UNCHANGED <<turn, job>>
    BY <1>7 DEF Finish
  <2>2. /\ OneRunner' /\ step' \in [Runner -> Step] /\ step'[r] = "move"
        /\ \A q \in Runner \ {r} : step'[q] = step[q]
        /\ \A q \in Runner : step'[q] = "done" => step[q] = "done"
    BY <1>2, <2>1, GoesOn DEF Training
  <2>3. TypeOK'
    BY <1>1, <1>4, <2>1, <2>2 DEF RunnerInv, TypeOK, FileType
  <2>4. ExportInv'
    BY <1>1, <1>2, <2>1, ExportStays DEF Training
  <2>5. NameInv'
    <3>1. \A q \in Runner : Ahead(q)' = Ahead(q) /\ Ahead(q) \subseteq Experiment
      BY <1>1, <2>1, <2>2 DEF Ahead, Training
    <3>2. \A q \in Runner : \A d \in Ahead(q) : <<q, d>> # f
      BY <1>1, <1>2, Domains DEF Ahead, Training
    <3>3. \A q \in Runner : \A d \in Ahead(q) : file'[<<q, d>>] = Empty
      BY <1>4, <3>1, <3>2, Domains DEF RunnerInv, NameInv
    <3> QED
      BY <1>1, <3>1, <3>3 DEF RunnerInv, NameInv
  <2>6. JobInv'
    <3>1. \A q \in Runner : step'[q] \in Training \union {"check"} => q = r
      BY <1>2, <2>2 DEF Training
    <3>2. manifest' /\ turn'[r] >= 1 /\ turn'[r] \in Experiment /\ ~csv_done(turn[r])'
      BY <1>1, <1>5, <2>1, WhileWriting
    <3>3. out'[e] # f /\ tmp'[e] = f /\ turn'[r] = e /\ job' = job
      BY <1>1, <1>2, <2>1
    <3>4. /\ file'[f].whole /\ file'[f].writers = {r} /\ file'[f].ended /\ file'[f].rows > 0
          /\ job'[r].holds = f /\ job'[r].whole /\ \A q \in Runner \ {r} : job'[q] = NoJob
      BY <1>2, <1>4, <1>7, <3>3
    <3> HIDE DEF f
    <3> QED
      BY <2>2, <3>1, <3>2, <3>3, <3>4 DEF JobInv, Training, f
  <2>7. TurnInv' /\ DoneMeansAllDone'
    BY <1>1, <1>5, <2>1, <2>2 DEF RunnerInv, TurnInv, Training, DoneMeansAllDone
  <2> QED
    BY <1>5, <2>2, <2>3, <2>4, <2>5, <2>6, <2>7 DEF RunnerInv
<1> QED
  BY <1>6, <1>7

LEMMA MoveKeeps ==
  ASSUME RunnerInv, NEW r \in Runner, Move(r)
  PROVE  RunnerInv'
<1> DEFINE e == turn[r]
           f == <<r, e>>
<1>1. step[r] = "move"
  BY DEF Move
<1>2. /\ manifest /\ e \in Nat /\ e >= 1 /\ step[r] \in Running
      /\ e \in Experiment /\ ~csv_done(e)
      /\ \A d \in Experiment : d < e => csv_done(d)
  BY <1>1, InTurn DEF Training
<1>3. /\ f \in File /\ f # NoFile /\ tmp[e] = f
      /\ file[f].whole /\ file[f].writers = {r} /\ file[f].ended /\ file[f].rows > 0
  <2>1. JobInv
    BY DEF RunnerInv
  <2> QED
    BY <1>1, <1>2, <2>1, Domains DEF JobInv
<1>4. /\ out' = [out EXCEPT ![e] = f] /\ tmp' = [tmp EXCEPT ![e] = NoFile]
      /\ Do(r, "check") /\ turn' = [turn EXCEPT ![r] = @ + 1]
      /\ job' = [job EXCEPT ![r] = NoJob] /\ UNCHANGED <<manifest, tns, file>>
  BY <1>3 DEF Move, MoveTmp, Proceed
<1>5. /\ OneRunner' /\ step' \in [Runner -> Step] /\ step'[r] = "check"
      /\ \A q \in Runner \ {r} : /\ step'[q] = step[q] /\ job[q] = NoJob
                                 /\ step[q] \in {"off", "done", "failed", "killed"}
      /\ \A q \in Runner : step'[q] = "done" => step[q] = "done"
  BY <1>2, <1>4, GoesOn
<1>6. turn' \in [Runner -> Nat] /\ turn'[r] = e + 1
  BY <1>2, <1>4 DEF RunnerInv, TypeOK
<1>7. /\ out'[e] = f /\ out' \in [Experiment -> File \union {NoFile}]
      /\ tmp'[e] = NoFile /\ tmp' \in [Experiment -> File \union {NoFile}]
      /\ \A d \in Experiment \ {e} : out'[d] = out[d] /\ tmp'[d] = tmp[d]
  BY <1>2, <1>3, <1>4 DEF RunnerInv, TypeOK
<1>8. /\ job' \in [Runner -> [rows : Nat, ok : BOOLEAN, whole : BOOLEAN, holds : File \union {NoFile}]]
      /\ \A q \in Runner : job'[q] = NoJob
  BY <1>4, <1>5 DEF RunnerInv, TypeOK, NoJob
<1>9. TypeOK'
  BY <1>4, <1>5, <1>6, <1>7, <1>8 DEF RunnerInv, TypeOK
<1>10. ExportInv'
  BY <1>2, <1>4, ExportStays
<1>11. \A d \in Experiment : csv_done(d)' <=> d = e \/ csv_done(d)
  BY <1>3, <1>4, <1>7 DEF csv_done
<1>12. AcceptedIsComplete'
  <2>1. Cardinality({r}) = 1
    BY FS_Singleton
  <2>2. file'[out'[e]].ended /\ file'[out'[e]].whole /\ Cardinality(file'[out'[e]].writers) = 1
    BY <1>3, <1>4, <1>7, <2>1
  <2>3. ASSUME NEW d \in Experiment \ {e}, csv_done(d)'
        PROVE  file'[out'[d]].ended /\ file'[out'[d]].whole /\ Cardinality(file'[out'[d]].writers) = 1
    BY <1>4, <1>7, <1>11, <2>3 DEF RunnerInv, AcceptedIsComplete
  <2> QED
    BY <2>2, <2>3 DEF AcceptedIsComplete
<1>13. NameInv'
  <2>1. Ahead(r)' \subseteq Ahead(r) \ {e}
    BY <1>1, <1>2, <1>5, <1>6, Domains DEF Ahead, Training
  <2>2. \A q \in Runner \ {r} : Ahead(q)' = Ahead(q)
    BY <1>4, <1>5 DEF Ahead, RunnerInv, TypeOK
  <2>3. \A q \in Runner : Ahead(q)' \subseteq Experiment /\ Ahead(q) \subseteq Experiment
    BY DEF Ahead
  <2>4. \A d \in Experiment : {tmp'[d], out'[d]} \subseteq (Runner \X {d}) \union {NoFile}
    <3>1. f \in Runner \X {e}
      BY <1>2
    <3>2. \A d \in Experiment : {tmp[d], out[d]} \subseteq (Runner \X {d}) \union {NoFile}
      BY DEF RunnerInv, NameInv
    <3> HIDE DEF f
    <3> QED
      BY <1>7, <3>1, <3>2
  <2>5. ASSUME NEW q \in Runner, NEW d \in Ahead(q)'
        PROVE  file'[<<q, d>>] = Empty /\ <<q, d>> \notin {tmp'[d], out'[d]}
    <3>1. d \in Ahead(q) /\ d \in Experiment /\ <<q, d>> # f
      BY <2>1, <2>2, <2>3
    <3>2. <<q, d>> # NoFile
      BY <3>1, Domains
    <3>3. file[<<q, d>>] = Empty /\ <<q, d>> \notin {tmp[d], out[d]}
      BY <3>1 DEF RunnerInv, NameInv
    <3> QED
      BY <1>4, <1>7, <3>1, <3>2, <3>3
  <2> QED
    BY <2>4, <2>5 DEF NameInv
<1>14. JobInv'
  <2>1. \A q \in Runner : step'[q] \notin Training /\ (step'[q] = "check" => q = r)
    BY <1>5 DEF Training
  <2>2. manifest' /\ turn'[r] >= 1
    BY <1>2, <1>4, <1>6
  <2> QED
    BY <1>8, <2>1, <2>2 DEF JobInv, Training
<1>15. TurnInv'
  <2>1. \A d \in Experiment : d < turn'[r] => csv_done(d)'
    <3>1. \A d \in Experiment : d < e + 1 => d = e \/ d < e
      BY <1>2, Domains
    <3> QED
      BY <1>2, <1>6, <1>11, <3>1
  <2> QED
    BY <1>5, <2>1 DEF TurnInv, Training
<1>16. DoneMeansAllDone'
  BY <1>5, <1>11 DEF RunnerInv, DoneMeansAllDone
<1> QED
  BY <1>5, <1>9, <1>10, <1>12, <1>13, <1>14, <1>15, <1>16 DEF RunnerInv

-------------------------------------------------------------------------------

LEMMA StepKeeps ==
  ASSUME Serial, RunnerInv, [Next]_runnerVars
  PROVE  RunnerInv'
<1>1. ASSUME NEW r \in Runner, Perform(r) PROVE RunnerInv'
  <2>1. ASSUME NoInput(r) PROVE RunnerInv'
    BY <2>1, StopsQuietly DEF NoInput, Running, Training
  <2> QED
    BY <1>1, <2>1, CleanKeeps, TrainKeeps, OpenKeeps, WriteKeeps, FinishKeeps, MoveKeeps DEF Perform
<1>2. ASSUME NEW r \in Runner, End(r) PROVE RunnerInv'
  <2>1. /\ step[r] = "check" /\ turn[r] \notin Experiment /\ Stop(r, "done") /\ UNCHANGED disk
    BY <1>2 DEF End
  <2>2. /\ turn[r] \in Nat /\ turn[r] >= 1 /\ step[r] \in Running
        /\ \A e \in Experiment : e < turn[r] => csv_done(e)
    BY <2>1, InTurn
  <2>3. \A e \in Experiment : csv_done(e)
    BY <2>1, <2>2, Domains
  <2> QED
    BY <2>1, <2>2, <2>3, StopsQuietly
<1>3. ASSUME NEW r \in Runner, Crash(r) PROVE RunnerInv'
  BY <1>3, StopsQuietly DEF Crash
<1>4. ASSUME UNCHANGED runnerVars PROVE RunnerInv'
  <2> USE <1>4 DEF runnerVars
  <2>1. TypeOK' /\ OneRunner' /\ ExportInv'
    BY DEF RunnerInv, TypeOK, OneRunner, ExportInv
  <2>2. NameInv'
    BY DEF RunnerInv, NameInv, Ahead
  <2>3. JobInv'
    BY DEF RunnerInv, JobInv, csv_done
  <2>4. AcceptedIsComplete' /\ TurnInv' /\ DoneMeansAllDone'
    BY DEF RunnerInv, AcceptedIsComplete, csv_done, TurnInv, DoneMeansAllDone
  <2> QED
    BY <2>1, <2>2, <2>3, <2>4 DEF RunnerInv
<1>5. CASE Sync
  BY <1>5, SyncKeeps
<1>6. CASE Idle
  BY <1>4, <1>6 DEF Idle
<1> QED
  BY <1>1, <1>2, <1>3, <1>4, <1>5, <1>6, StartKeeps, ExportKeeps, SkipKeeps, RunKeeps
     DEF Next, Advance

\* The invariant of runners in turn.
THEOREM RunnersKeepOrder ==
  ASSUME Serial
  PROVE  Safety => []RunnerInv
<1>1. RunnerInv /\ [Next]_runnerVars => RunnerInv'
  BY StepKeeps
<1> QED
  BY InitInv, <1>1, PTL DEF Safety

\* Wherever runners are killed and however their programs end: a result that a later
\* runner skips (csv_done) is the whole output of one program on whole data.
THEOREM SkippedIsComplete ==
  ASSUME Serial
  PROVE  Safety => []AcceptedIsComplete
<1>1. RunnerInv => AcceptedIsComplete
  BY DEF RunnerInv
<1> QED
  BY RunnersKeepOrder, <1>1, PTL

\* "[done] outputs" is printed only when every experiment has a result.
THEOREM DoneIsTrue ==
  ASSUME Serial
  PROVE  Safety => []DoneMeansAllDone
<1>1. RunnerInv => DoneMeansAllDone
  BY DEF RunnerInv
<1> QED
  BY RunnersKeepOrder, <1>1, PTL

LEMMA AcceptedIsKept ==
  ASSUME RunnerInv, [Next]_runnerVars, NEW e \in Experiment, csv_done(e)
  PROVE  out'[e] = out[e] /\ file'[out[e]] = file[out[e]]
<1>1. CASE UNCHANGED <<out, file>>
  BY <1>1
<1>2. ASSUME NEW r \in Runner, step[r] \in {"open", "write", "move"}, out' = out,
             \A g \in File \ {<<r, turn[r]>>} : file'[g] = file[g]
      PROVE  out'[e] = out[e] /\ file'[out[e]] = file[out[e]]
  BY <1>2, OwnFileChanges DEF csv_done
<1>3. ASSUME NEW r \in Runner, Open(r)
      PROVE  out'[e] = out[e] /\ file'[out[e]] = file[out[e]]
  <2>1. step[r] = "open" /\ out' = out /\ tmp[turn[r]] = NoFile
    BY <1>3 DEF Open, RunnerInv, JobInv
  <2>2. \A g \in File \ {<<r, turn[r]>>} : file'[g] = file[g]
    BY <1>3, <2>1 DEF Open, RunnerInv, TypeOK
  <2> QED
    BY <1>2, <2>1, <2>2
<1>4. ASSUME NEW r \in Runner, Write(r) \/ Finish(r)
      PROVE  out'[e] = out[e] /\ file'[out[e]] = file[out[e]]
  <2>1. step[r] = "write" /\ out' = out
    BY <1>4 DEF Write, Finish
  <2>2. job[r].holds = <<r, turn[r]>>
    BY <2>1, WhileWriting
  <2>3. \A g \in File \ {<<r, turn[r]>>} : file'[g] = file[g]
    BY <1>4, <2>2 DEF Write, Finish, RunnerInv, TypeOK
  <2> QED
    BY <1>2, <2>1, <2>3
<1>5. ASSUME NEW r \in Runner, Move(r)
      PROVE  out'[e] = out[e] /\ file'[out[e]] = file[out[e]]
  <2>1. step[r] = "move" /\ file' = file
    BY <1>5 DEF Move, MoveTmp, disk
  <2>2. e # turn[r]
    BY <2>1, InTurn DEF Training
  <2>3. out' = out \/ out' = [out EXCEPT ![turn[r]] = tmp[turn[r]]]
    BY <1>5 DEF Move, MoveTmp, disk
  <2> QED
    BY <2>1, <2>2, <2>3 DEF RunnerInv, TypeOK
<1>6. ASSUME NEW r \in Runner,
             StartRunner(r) \/ Export(r) \/ Skip(r) \/ Run(r) \/ End(r) \/ Crash(r)
      PROVE  UNCHANGED <<out, file>>
  BY <1>6 DEF StartRunner, Export, SkipExport, StartExport, OpenTns, WriteTns, WriteManifest,
              Skip, Run, End, Crash, disk
<1>7. ASSUME NEW r \in Runner, Clean(r) \/ Train(r) \/ NoInput(r)
      PROVE  UNCHANGED <<out, file>>
  BY <1>7 DEF Clean, Train, NoInput, disk
<1>8. ASSUME Sync \/ Idle \/ UNCHANGED runnerVars
      PROVE  UNCHANGED <<out, file>>
  BY <1>8 DEF Sync, SyncManifest, SyncData, Idle, runnerVars
<1> QED
  BY <1>1, <1>3, <1>4, <1>5, <1>6, <1>7, <1>8 DEF Next, Advance, Perform

\* A result that a later runner skips is never removed, replaced or written to again.
THEOREM SkippedIsFinal ==
  ASSUME Serial
  PROVE  Safety => AcceptedIsFinal
<1> DEFINE Kept == \A e \in Experiment : csv_done(e) =>
                     out'[e] = out[e] /\ file'[out[e]] = file[out[e]]
<1>1. RunnerInv /\ [Next]_runnerVars => [Kept]_runnerVars
  BY AcceptedIsKept
<1> QED
  BY RunnersKeepOrder, <1>1, PTL DEF Safety, AcceptedIsFinal
=============================================================================
