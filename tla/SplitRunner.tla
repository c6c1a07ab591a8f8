------------------------------ MODULE SplitRunner ------------------------------
(***************************************************************************)
(* run_newlog2_common_splits.sh and export_common_splits_to_tns.py: a      *)
(* runner exports the data sets once, then does the experiments of its     *)
(* plan one after another.  A program writes <result>.tmp, which is then   *)
(* moved to <result>; a later runner skips every result that has rows.     *)
(* Runners come and go, and what they leave on disk is all they share: a   *)
(* name on disk refers to a file, and a process that has a file open keeps *)
(* writing to it under whatever name it goes by.                           *)
(***************************************************************************)
EXTENDS Naturals, FiniteSets, Sequences, Functions

CONSTANTS
  Runner,    \* runner processes
  Data,      \* the data sets, in the order of their export
  Plan,      \* the experiments: records [data, tns], tns if the program reads the export
  MaxRows,   \* the most rows a program writes
  NoFile,    \* what a name that does not exist refers to
  Serial,    \* runners do not overlap
  Synced     \* the data sets that sync_newlog2_resume_artifacts.sh may bring, in resume mode

Experiment == DOMAIN Plan
File == Runner \X Experiment

ASSUME RunnerAssumption ==
  /\ MaxRows \in Nat \ {0}
  /\ Data \in Seq(Range(Data)) /\ IsInjective(Data)
  /\ Plan \in Seq([data : Range(Data), tns : BOOLEAN])
  /\ NoFile \notin File
  /\ Serial \in BOOLEAN
  /\ Synced \subseteq DOMAIN Data

VARIABLES
  manifest,  \* manifest.json exists
  tns,       \* tns[d]: how much of data set d is in its exported files
  tmp,       \* tmp[e]: the file named <result of e>.tmp
  out,       \* out[e]: the file named <result of e>
  file,      \* what was written to each file
  step,      \* step[r]: what runner r does next
  turn,      \* turn[r]: with which data set or experiment
  job        \* job[r]: the program runner r started

runnerVars == <<manifest, tns, tmp, out, file, step, turn, job>>
disk == <<manifest, tns, tmp, out, file>>

Training == {"clean", "train", "open", "write", "move"}
Running == {"start", "export", "dump", "check"} \union Training
Step == {"off", "done", "failed", "killed"} \union Running

\* A program still has rows to write, ends well or not, and holds a file open.
NoJob == [rows |-> 0, ok |-> FALSE, whole |-> FALSE, holds |-> NoFile]
Empty == [rows |-> 0, writers |-> {}, ended |-> FALSE, whole |-> FALSE]

\* The result of e is there with at least one row under its header.
csv_done(e) == out[e] # NoFile /\ file[out[e]].rows > 0

\* The splits themselves are there; their export is as far as tns says.
InputIs(e, how) ==
  IF Plan[e].tns THEN \A d \in DOMAIN Data : Data[d] = Plan[e].data => tns[d] = how
                 ELSE how = "whole"

Do(r, s) == step' = [step EXCEPT ![r] = s]
Proceed(r, s) == Do(r, s) /\ turn' = [turn EXCEPT ![r] = @ + 1]
Begin(r, s) == Do(r, s) /\ turn' = [turn EXCEPT ![r] = 1]
Stop(r, s) == Do(r, s) /\ turn' = [turn EXCEPT ![r] = 0] /\ job' = [job EXCEPT ![r] = NoJob]

Init ==
  /\ manifest = FALSE
  /\ tns = [d \in DOMAIN Data |-> "missing"]
  /\ tmp = [e \in Experiment |-> NoFile]
  /\ out = [e \in Experiment |-> NoFile]
  /\ file = [f \in File |-> Empty]
  /\ step = [r \in Runner |-> "off"]
  /\ turn = [r \in Runner |-> 0]
  /\ job = [r \in Runner |-> NoJob]

\* The sync script copies the manifest of the whole export, before the first run ...
SyncManifest ==
  /\ Synced # {} /\ ~manifest /\ \A r \in Runner : step[r] = "off"
  /\ manifest' = TRUE
  /\ UNCHANGED <<tns, tmp, out, file, step, turn, job>>

\* ... and then the data; rsync gives a file its name when all of it has arrived.
SyncData(d) ==
  /\ manifest /\ d \in Synced /\ tns[d] = "missing"
  /\ tns' = [tns EXCEPT ![d] = "whole"]
  /\ UNCHANGED <<manifest, tmp, out, file, step, turn, job>>

StartRunner(r) ==
  /\ step[r] = "off"
  /\ Serial => \A q \in Runner : step[q] \notin Running
  /\ Do(r, "start")
  /\ UNCHANGED <<disk, turn, job>>

\* export_tns: the export is there when its manifest is.
SkipExport(r) ==
  /\ step[r] = "start" /\ manifest
  /\ Begin(r, "check")
  /\ UNCHANGED <<disk, job>>

StartExport(r) ==
  /\ step[r] = "start" /\ ~manifest
  /\ Begin(r, "export")
  /\ UNCHANGED <<disk, job>>

\* write_tns opens the files of one data set, losing what was in them ...
OpenTns(r) ==
  /\ step[r] = "export" /\ turn[r] \in DOMAIN Data
  /\ tns' = [tns EXCEPT ![turn[r]] = "part"]
  /\ Do(r, "dump")
  /\ UNCHANGED <<manifest, tmp, out, file, turn, job>>

\* ... and has written them.
WriteTns(r) ==
  /\ step[r] = "dump"
  /\ tns' = [tns EXCEPT ![turn[r]] = "whole"]
  /\ Proceed(r, "export")
  /\ UNCHANGED <<manifest, tmp, out, file, job>>

\* (mutant) The manifest is written before the data.
ManifestFirst(r) ==
  /\ step[r] = "export"
  /\ \/ turn[r] \in DOMAIN Data /\ Do(r, "dump") /\ UNCHANGED turn
     \/ turn[r] \notin DOMAIN Data /\ Begin(r, "check")
  /\ manifest' = TRUE
  /\ UNCHANGED <<tns, tmp, out, file, job>>

WriteManifest(r) ==
  /\ step[r] = "export" /\ turn[r] \notin DOMAIN Data
  /\ manifest' = TRUE
  /\ Begin(r, "check")
  /\ UNCHANGED <<tns, tmp, out, file, job>>

Skip(r) ==
  /\ step[r] = "check" /\ turn[r] \in Experiment
  /\ csv_done(turn[r])
  /\ Proceed(r, "check")
  /\ UNCHANGED <<disk, job>>

\* (mutant) A finished result is done again.
RunAnyway(r) ==
  /\ step[r] = "check" /\ turn[r] \in Experiment
  /\ Do(r, "clean")
  /\ UNCHANGED <<disk, turn, job>>

Run(r) ==
  /\ step[r] = "check" /\ turn[r] \in Experiment
  /\ ~csv_done(turn[r])
  /\ Do(r, "clean")
  /\ UNCHANGED <<disk, turn, job>>

\* rm -f "$tmp": the name goes, a process that has the file open keeps it.
Clean(r) ==
  /\ step[r] = "clean"
  /\ tmp' = [tmp EXCEPT ![turn[r]] = NoFile]
  /\ Do(r, "train")
  /\ UNCHANGED <<manifest, tns, out, file, turn, job>>

\* The program reads its input.  How many rows it will print, and whether it
\* ends well, is settled here; a program that ends well prints at least one.
Train(r) ==
  /\ step[r] = "train" /\ ~InputIs(turn[r], "missing")
  /\ \E n \in 0 .. MaxRows, ok \in BOOLEAN :
       /\ ok => n > 0
       /\ job' = [job EXCEPT ![r] = [rows |-> n, ok |-> ok, holds |-> NoFile,
                                          whole |-> InputIs(turn[r], "whole")]]
  /\ Do(r, "open")
  /\ UNCHANGED <<disk, turn>>

\* A program whose input cannot be opened prints nothing.
NoInput(r) ==
  /\ step[r] = "train" /\ InputIs(turn[r], "missing")
  /\ Stop(r, "failed")
  /\ UNCHANGED disk

\* open(tmp, "w") makes a new file or empties the one of that name, which
\* programs that have it open go on writing to.
Open(r) ==
  LET e == turn[r]
      f == IF tmp[e] = NoFile THEN <<r, e>> ELSE tmp[e]
  IN /\ step[r] = "open"
     /\ tmp' = [tmp EXCEPT ![e] = f]
     /\ file' = [file EXCEPT ![f] = [rows |-> 0, writers |-> {q \in Runner : job[q].holds = f} \union {r},
                                     ended |-> FALSE, whole |-> job[r].whole]]
     /\ job' = [job EXCEPT ![r].holds = f]
     /\ Do(r, "write")
     /\ UNCHANGED <<manifest, tns, out, turn>>

\* One more row reaches the open file.
Write(r) ==
  /\ step[r] = "write" /\ job[r].rows > 0
  /\ job' = [job EXCEPT ![r].rows = @ - 1]
  /\ file' = [file EXCEPT ![job[r].holds].rows = @ + 1]
  /\ UNCHANGED <<manifest, tns, tmp, out, step, turn>>

\* (mutant) Without pipefail the status is that of the log converter.
FinishAnyway(r) ==
  /\ step[r] = "write" /\ job[r].rows = 0
  /\ file' = [file EXCEPT ![job[r].holds].ended = job[r].ok]
  /\ Do(r, "move")
  /\ UNCHANGED <<manifest, tns, tmp, out, turn, job>>

\* The program closes its file; a status other than 0 ends the runner.
Finish(r) ==
  /\ step[r] = "write" /\ job[r].rows = 0
  /\ file' = [file EXCEPT ![job[r].holds].ended = job[r].ok]
  /\ IF job[r].ok THEN Do(r, "move") /\ UNCHANGED <<turn, job>> ELSE Stop(r, "failed")
  /\ UNCHANGED <<manifest, tns, tmp, out>>

MoveTmp(r) ==
  /\ out' = [out EXCEPT ![turn[r]] = tmp[turn[r]]]
  /\ tmp' = [tmp EXCEPT ![turn[r]] = NoFile]
  /\ Proceed(r, "check")
  /\ job' = [job EXCEPT ![r] = NoJob]
  /\ UNCHANGED <<manifest, tns, file>>

\* (mutant) A move that fails is tried again.
MoveWhenThere(r) ==
  /\ step[r] = "move" /\ tmp[turn[r]] # NoFile
  /\ MoveTmp(r)

\* Another runner may have moved or removed the file: then mv fails.
Move(r) ==
  /\ step[r] = "move"
  /\ IF tmp[turn[r]] # NoFile THEN MoveTmp(r) ELSE Stop(r, "failed") /\ UNCHANGED disk

End(r) ==
  /\ step[r] = "check" /\ turn[r] \notin Experiment
  /\ Stop(r, "done")
  /\ UNCHANGED disk

\* The runner and the program it started are killed, or the machine stops.
Crash(r) ==
  /\ step[r] \in Running
  /\ Stop(r, "killed")
  /\ UNCHANGED disk

\* Every runner has ended.
Idle == (\A r \in Runner : step[r] \in {"done", "failed", "killed"}) /\ UNCHANGED runnerVars

-------------------------------------------------------------------------------

Export(r) == SkipExport(r) \/ StartExport(r) \/ OpenTns(r) \/ WriteTns(r) \/ WriteManifest(r)
Perform(r) == Clean(r) \/ Train(r) \/ NoInput(r) \/ Open(r) \/ Write(r) \/ Finish(r) \/ Move(r)
Advance(r) == Export(r) \/ Skip(r) \/ Run(r) \/ Perform(r) \/ End(r)

Sync == SyncManifest \/ \E d \in Synced : SyncData(d)

Next == (\E r \in Runner : StartRunner(r) \/ Advance(r) \/ Crash(r)) \/ Sync \/ Idle

Safety == Init /\ [][Next]_runnerVars
Spec == Safety /\ \A r \in Runner : WF_runnerVars(Advance(r))

-------------------------------------------------------------------------------

TypeOK ==
  /\ manifest \in BOOLEAN
  /\ tns \in [DOMAIN Data -> {"missing", "part", "whole"}]
  /\ tmp \in [Experiment -> File \union {NoFile}]
  /\ out \in [Experiment -> File \union {NoFile}]
  /\ file \in [File -> [rows : Nat, writers : SUBSET Runner, ended : BOOLEAN, whole : BOOLEAN]]
  /\ step \in [Runner -> Step]
  /\ turn \in [Runner -> Nat]
  /\ job \in [Runner -> [rows : Nat, ok : BOOLEAN, whole : BOOLEAN, holds : File \union {NoFile}]]

\* A result that later runners will skip was written to its end by one
\* program that ended well and had read the whole export of its data set.
AcceptedIsComplete ==
  \A e \in Experiment : csv_done(e) =>
    /\ file[out[e]].ended /\ file[out[e]].whole
    /\ Cardinality(file[out[e]].writers) = 1

\* A result that later runners will skip is never replaced, removed or written to.
AcceptedIsFinal ==
  [][\A e \in Experiment : csv_done(e) =>
       out'[e] = out[e] /\ file'[out[e]] = file[out[e]]]_runnerVars

\* "[done] outputs" is printed only when every experiment of the plan has a result.
DoneMeansAllDone ==
  \A r \in Runner : step[r] = "done" => \A e \in Experiment : csv_done(e)

\* What holds together when runners do not overlap.
OneRunner == \A q, r \in Runner : {step[q], step[r]} \subseteq Running => q = r

\* There is no manifest beside data that is not all there.
ExportInv ==
  /\ \A r \in Runner : step[r] \in {"export", "dump"} =>
       ~manifest /\ turn[r] >= 1 /\ \A d \in DOMAIN Data : d < turn[r] => tns[d] = "whole"
  /\ manifest => \A d \in DOMAIN Data : tns[d] # "part"
  /\ ~manifest /\ (\A r \in Runner : step[r] = "off") => \A d \in DOMAIN Data : tns[d] # "part"

\* The experiments for which r has not made a file yet.
Ahead(r) ==
  {e \in Experiment : \/ step[r] \in {"off", "start", "export", "dump"}
                      \/ step[r] \in Training \union {"check"} /\ e > turn[r]
                      \/ step[r] \in {"check", "clean", "train", "open"} /\ e = turn[r]}

\* Each name refers to a file made for it, and to none of a runner still to make it.
NameInv ==
  /\ \A e \in Experiment : {tmp[e], out[e]} \subseteq (Runner \X {e}) \union {NoFile}
  /\ \A r \in Runner : \A e \in Ahead(r) :
       file[<<r, e>>] = Empty /\ <<r, e>> \notin {tmp[e], out[e]}

\* A program in its turn reads whole data and alone writes a file of its own.
JobInv ==
  \A r \in Runner :
    /\ step[r] \in Training \union {"check"} => manifest /\ turn[r] >= 1
    /\ step[r] \in Training => turn[r] \in Experiment /\ ~csv_done(turn[r])
    /\ step[r] \in {"train", "open"} => tmp[turn[r]] = NoFile
    /\ step[r] \in {"open", "write", "move"} => job[r].whole
    /\ step[r] \in {"open", "write"} /\ job[r].ok /\ job[r].rows = 0 =>
         step[r] = "write" /\ file[<<r, turn[r]>>].rows > 0
    /\ step[r] \notin {"open", "write", "move"} => job[r] = NoJob
    /\ step[r] = "open" => job[r].holds = NoFile
    /\ step[r] \in {"write", "move"} =>
         LET f == <<r, turn[r]>>
         IN /\ job[r].holds = f /\ tmp[turn[r]] = f /\ out[turn[r]] # f
            /\ file[f].whole /\ file[f].writers = {r}
            /\ step[r] = "move" => file[f].ended /\ file[f].rows > 0

\* The results before a runner's turn are there.
TurnInv ==
  \A r \in Runner : step[r] \in Training \union {"check"} =>
    \A e \in Experiment : e < turn[r] => csv_done(e)

RunnerInv ==
  /\ TypeOK /\ OneRunner /\ ExportInv /\ NameInv /\ JobInv
  /\ AcceptedIsComplete /\ TurnInv /\ DoneMeansAllDone

\* A runner that is not killed reaches the end of its plan or fails.
Finishes == \A r \in Runner : step[r] = "start" ~> step[r] \in {"done", "failed", "killed"}
===============================================================================
