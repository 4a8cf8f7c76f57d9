------------------------------ MODULE Commands ------------------------------
(***************************************************************************)
(* The commands of visionreviewd that share one journal file, each in a    *)
(* process of its own (cmd/visionreviewd/commands.go; store.go for how the *)
(* file is opened).  bbolt locks the file: OpenStore is alone with it and  *)
(* waits for that as long as it takes, a snapshot shares it with other     *)
(* snapshots and gives up after a while.  A process that dies lets go.     *)
(***************************************************************************)
EXTENDS Integers, FiniteSets

CONSTANTS
    MaxProcesses, None,
    Commands,   \* the commands in use
    MaxStarts, MaxEvents, MaxKills   \* bound the commands, the journal and the kills

Processes == 1..MaxProcesses

Missing == -1     \* no journal yet
Hole == -2        \* a part of OUT that nobody wrote

VARIABLES
    cmd, at,    \* cmd[p], at[p]: which command a process runs, and where it is
    exit,       \* exit[p]: its exit code: 0, or 1 for any other end, a kill too
    faults,     \* faults[p]: the checks a doctor has reported as failed
    journal,    \* the number of events, or Missing
    damage,     \* what is wrong with the file: "none", a "row" of it, or its "pages"
    writer,     \* the process that has the file open to itself
    readers,    \* the processes that share it
    out,        \* OUT: the events of the journal each part of it is from
    owed,       \* the backups that opened OUT and have not succeeded: none has, at first (ghost)
    probe,      \* the doctor's probe file is there
    calm,       \* doctors that found the journal damaged and to themselves (ghost)
    refused,    \* doctors the system refused an access to the journal (ghost)
    starts, kills

procVars == <<cmd, at, exit, faults>>
fileVars == <<journal, damage>>
lockVars == <<writer, readers>>
outVars == <<out, owed>>
bounds == <<starts, kills>>
ghosts == <<calm, refused>>
vars == <<procVars, fileVars, lockVars, outVars, probe, ghosts, bounds>>

Recording == {"run", "once", "compare"}    \* openPipeline, then they record
Reading == {"events", "replay"}

ASSUME CommandsAssumption ==
    /\ Commands \subseteq Recording \cup Reading \cup {"backup", "doctor"}
    /\ MaxProcesses \in Nat \ {0}
    /\ None \notin Processes /\ None \notin Commands

Init ==
    /\ cmd = [p \in Processes |-> None]
    /\ at = [p \in Processes |-> "off"]
    /\ exit = [p \in Processes |-> 1]
    /\ faults = [p \in Processes |-> {}]
    /\ journal \in {Missing, 0}
    /\ damage = "none"
    /\ writer = None /\ readers = {}
    /\ out = <<Hole, Hole>> /\ owed = Processes
    /\ probe = FALSE
    /\ calm = {} /\ refused = {}
    /\ starts = 0 /\ kills = 0

Active(p) == at[p] # "off"
At(p, c, place) == cmd[p] = c /\ at[p] = place
Goto(p, place) == at' = [at EXCEPT ![p] = place]
Step(p, place) == Goto(p, place) /\ UNCHANGED <<cmd, exit, faults>>
Report(p, fault) == faults' = [faults EXCEPT ![p] = @ \cup {fault}] /\ UNCHANGED <<cmd, exit>>

Release(p) ==
    /\ writer' = IF writer = p THEN None ELSE writer
    /\ readers' = readers \ {p}

\* The process ends, and with it its locks: closeStore, or the end of the process.
Exit(p, code) ==
    /\ Goto(p, "off")
    /\ exit' = [exit EXCEPT ![p] = code]
    /\ Release(p)
    /\ calm' = calm \ {p} /\ refused' = refused \ {p}
    /\ cmd' = [cmd EXCEPT ![p] = None]
    /\ faults' = [faults EXCEPT ![p] = {}]

-----------------------------------------------------------------------------
\* Processes have no identity but their number: the next one takes the first free.
Start(p, c) ==
    /\ ~Active(p) /\ starts < MaxStarts
    /\ \A q \in 1..(p - 1) : Active(q)
    /\ starts' = starts + 1
    /\ cmd' = [cmd EXCEPT ![p] = c]
    /\ Goto(p, "config")
    /\ exit' = [exit EXCEPT ![p] = 1]
    /\ UNCHANGED faults
    /\ calm' = IF c = "doctor" /\ damage # "none" /\ writer = None THEN calm \cup {p} ELSE calm
    /\ UNCHANGED <<fileVars, lockVars, outVars, probe, refused, kills>>

Load(p) ==
    /\ at[p] = "config"
    /\ Step(p, CASE cmd[p] = "backup" -> "create"
                 [] cmd[p] = "doctor" -> "dirs"
                 [] OTHER -> "open")
    /\ UNCHANGED <<fileVars, lockVars, outVars, probe, ghosts, bounds>>

\* The arguments are refused, or the configuration, or it makes no reviewer.
LoadFails(p) ==
    /\ at[p] = "config"
    /\ Exit(p, 1)
    /\ UNCHANGED <<fileVars, outVars, probe, bounds>>

-----------------------------------------------------------------------------
(* OpenStore and what the commands do with the store *)

Unlocked == writer = None /\ readers = {}

OpenStore(p) ==
    /\ at[p] = "open" /\ Unlocked /\ damage # "pages"
    /\ writer' = p
    /\ journal' = IF journal = Missing THEN 0 ELSE journal
    /\ calm' = calm \cap {p}
    /\ Step(p, "work")
    /\ UNCHANGED <<damage, readers, outVars, probe, refused, bounds>>

OpenFails(p) ==
    /\ at[p] = "open" /\ cmd[p] # "doctor" /\ Unlocked /\ damage = "pages"
    /\ Exit(p, 1)
    /\ UNCHANGED <<fileVars, outVars, probe, bounds>>

Record(p) ==
    /\ at[p] = "work" /\ cmd[p] \in Recording /\ journal < MaxEvents
    /\ journal' = journal + 1
    /\ UNCHANGED <<procVars, damage, lockVars, outVars, probe, ghosts, bounds>>

\* A pass or a comparison ends, with errors or without.
FinishRecording(p) ==
    /\ at[p] = "work" /\ cmd[p] \in Recording \ {"run"}
    /\ \E code \in {0, 1} : Exit(p, code)
    /\ UNCHANGED <<fileVars, outVars, probe, bounds>>

\* AllEvents fails at a damaged row or a page that cannot be read; a replay also on the
\* files it writes.
FinishReading(p) ==
    /\ at[p] = "work" /\ cmd[p] \in Reading
    /\ \E code \in {0, 1} :
          /\ damage = "row" => code = 1
          /\ Exit(p, code)
    /\ UNCHANGED <<fileVars, outVars, probe, bounds>>

\* The daemon gets its signal, or was refused by NewDaemon.
StopDaemon(p) ==
    /\ At(p, "run", "work")
    /\ \E code \in {0, 1} : Exit(p, code)
    /\ UNCHANGED <<fileVars, outVars, probe, bounds>>

-----------------------------------------------------------------------------
(* runBackupCommand and BackupJournalFile *)

\* OUT is emptied before the journal is opened.
CreateOut(p) ==
    /\ at[p] = "create"
    /\ out' = <<Hole, Hole>>
    /\ owed' = {q \in owed : at[q] \in {"snapshot", "copy", "rest", "sync"}} \cup {p}
    /\ Step(p, "snapshot")
    /\ UNCHANGED <<fileVars, lockVars, probe, ghosts, bounds>>

CreateFails(p) ==
    /\ at[p] = "create"
    /\ Exit(p, 1)
    /\ UNCHANGED <<fileVars, outVars, probe, bounds>>

\* (mutant) the file is read without its lock
BeginUnlockedSnapshot(p) ==
    /\ at[p] = "snapshot" /\ journal # Missing /\ damage # "pages"
    /\ Step(p, "copy")
    /\ UNCHANGED <<fileVars, lockVars, outVars, probe, ghosts, bounds>>

BeginSnapshot(p) ==
    /\ at[p] = "snapshot" /\ journal # Missing /\ damage # "pages" /\ writer = None
    /\ readers' = readers \cup {p}
    /\ Step(p, "copy")
    /\ UNCHANGED <<fileVars, writer, outVars, probe, ghosts, bounds>>

\* There is no journal, which is not created, or it cannot be read.
SnapshotRefused(p) ==
    /\ at[p] = "snapshot"
    /\ \/ journal = Missing
       \/ damage = "pages" /\ writer = None
    /\ Exit(p, 1)
    /\ UNCHANGED <<fileVars, outVars, probe, bounds>>

\* (mutant) the snapshot waits for the lock as OpenStore does
SnapshotWaits(p) == FALSE /\ UNCHANGED vars

\* The time is over when the lock is asked for in vain.
SnapshotTimesOut(p) ==
    /\ at[p] = "snapshot" /\ journal # Missing /\ writer # None
    /\ Exit(p, 1)
    /\ UNCHANGED <<fileVars, outVars, probe, bounds>>

\* tx.WriteTo: the pages in order; the lock is released after the last.
CopyPages(p) ==
    /\ at[p] = "copy"
    /\ out' = [out EXCEPT ![1] = journal]
    /\ Step(p, "rest")
    /\ UNCHANGED <<fileVars, lockVars, owed, probe, ghosts, bounds>>

CopyRest(p) ==
    /\ at[p] = "rest"
    /\ out' = [out EXCEPT ![2] = journal]
    /\ Release(p)
    /\ Step(p, "sync")
    /\ UNCHANGED <<fileVars, owed, probe, ghosts, bounds>>

\* The disk refuses the pages, or the sync.
BackupFails(p) ==
    /\ at[p] \in {"copy", "rest", "sync"}
    /\ Exit(p, 1)
    /\ UNCHANGED <<fileVars, outVars, probe, bounds>>

Sync(p) ==
    /\ at[p] = "sync"
    /\ Exit(p, 0)
    /\ owed' = owed \ {p}
    /\ UNCHANGED <<fileVars, out, probe, bounds>>

-----------------------------------------------------------------------------
(* runDoctorCommand: the checks in their order *)

\* checkWritableDir: a file is written, and removed.
WriteProbe(p) ==
    /\ at[p] = "dirs"
    /\ probe' = TRUE
    /\ Step(p, "probed")
    /\ UNCHANGED <<fileVars, lockVars, outVars, ghosts, bounds>>

RemoveProbe(p) ==
    /\ at[p] = "probed" /\ probe
    /\ probe' = FALSE
    /\ Step(p, "globs")
    /\ UNCHANGED <<fileVars, lockVars, outVars, ghosts, bounds>>

\* The disk refuses, or another doctor has removed the file.
DirCheckFails(p) ==
    /\ \/ at[p] = "dirs"
       \/ at[p] = "probed" /\ ~probe
    /\ Report(p, "setup") /\ Goto(p, "globs")
    /\ UNCHANGED <<fileVars, lockVars, outVars, probe, ghosts, bounds>>

\* A pattern is refused, or a project has no files.
CheckProjectGlobs(p) ==
    /\ at[p] = "globs"
    /\ UNCHANGED <<cmd, exit>>
    /\ \E fault \in {{}, {"setup"}} : faults' = [faults EXCEPT ![p] = @ \cup fault]
    /\ Goto(p, "stat")
    /\ UNCHANGED <<fileVars, lockVars, outVars, probe, ghosts, bounds>>

\* checkJournal: a fresh dataDir is fine, and any other error of os.Stat is not.
Stat(p) ==
    /\ at[p] = "stat"
    /\ Step(p, IF journal = Missing THEN "endpoint" ELSE "held")
    /\ UNCHANGED <<fileVars, lockVars, outVars, probe, ghosts, bounds>>

\* (mutant) a journal that cannot be opened counts as held
HeldOnAnyError(p) ==
    /\ at[p] = "held"
    /\ Step(p, IF writer # None \/ damage = "pages" THEN "endpoint" ELSE "open")
    /\ UNCHANGED <<fileVars, lockVars, outVars, probe, ghosts, bounds>>

\* JournalLockHeld: held is skipped; its own read-only handle is closed at once.
JournalLockHeld(p) ==
    /\ at[p] = "held"
    /\ Step(p, IF writer # None THEN "endpoint" ELSE "open")
    /\ UNCHANGED <<fileVars, lockVars, outVars, probe, ghosts, bounds>>

DoctorOpenFails(p) ==
    /\ At(p, "doctor", "open") /\ Unlocked /\ damage = "pages"
    /\ Report(p, "journal") /\ Goto(p, "endpoint")
    /\ UNCHANGED <<fileVars, lockVars, outVars, probe, ghosts, bounds>>

\* AllEvents and VerifyJournalEvents; the store is closed before the next check.
VerifyJournal(p) ==
    /\ At(p, "doctor", "work")
    /\ IF damage = "row" THEN Report(p, "journal") ELSE UNCHANGED <<cmd, exit, faults>>
    /\ Goto(p, "endpoint")
    /\ Release(p)
    /\ UNCHANGED <<fileVars, outVars, probe, ghosts, bounds>>

\* The model endpoint, and the report.
FinishDoctor(p) ==
    /\ at[p] = "endpoint"
    /\ \E code \in {0, 1} : (faults[p] # {} => code = 1) /\ Exit(p, code)
    /\ UNCHANGED <<fileVars, outVars, probe, bounds>>

-----------------------------------------------------------------------------
(* The system refuses a command the journal: a permission, its directory, a *)
(* disk that cannot be read or written.                                     *)

Refuse(p) == Report(p, "journal") /\ Goto(p, "endpoint") /\ refused' = refused \cup {p}

StatRefused(p) ==
    /\ at[p] = "stat"
    /\ Refuse(p)
    /\ UNCHANGED <<fileVars, lockVars, outVars, probe, calm, bounds>>

\* The directory, the file before it is locked, or the buckets after; a snapshot opens
\* the file as well.
OpenRefused(p) ==
    /\ at[p] \in {"open", "snapshot"} /\ cmd[p] # "doctor"
    /\ Exit(p, 1)
    /\ UNCHANGED <<fileVars, outVars, probe, bounds>>

DoctorOpenRefused(p) ==
    /\ At(p, "doctor", "open")
    /\ Refuse(p)
    /\ UNCHANGED <<fileVars, lockVars, outVars, probe, calm, bounds>>

\* AllEvents of the doctor.
ReadRefused(p) ==
    /\ At(p, "doctor", "work")
    /\ Refuse(p)
    /\ Release(p)
    /\ UNCHANGED <<fileVars, outVars, probe, calm, bounds>>

RefusedStep(p) == StatRefused(p) \/ OpenRefused(p) \/ DoctorOpenRefused(p) \/ ReadRefused(p)

-----------------------------------------------------------------------------
Kill(p) ==
    /\ Active(p) /\ kills < MaxKills
    /\ kills' = kills + 1
    /\ Exit(p, 1)
    /\ UNCHANGED <<fileVars, outVars, probe, starts>>

\* The disk, or a binary of another version, leaves the file damaged for good.
Damage(kind) ==
    /\ journal # Missing /\ damage = "none"
    /\ damage' = kind
    /\ UNCHANGED <<procVars, journal, lockVars, outVars, probe, ghosts, bounds>>

OpenStep(p) == OpenStore(p) \/ OpenFails(p) \/ FinishRecording(p) \/ FinishReading(p)

BackupStep(p) ==
    \/ CreateOut(p) \/ CreateFails(p)
    \/ BeginSnapshot(p) \/ SnapshotRefused(p) \/ SnapshotTimesOut(p)
    \/ CopyPages(p) \/ CopyRest(p) \/ BackupFails(p) \/ Sync(p)

DoctorStep(p) ==
    \/ WriteProbe(p) \/ RemoveProbe(p) \/ DirCheckFails(p) \/ CheckProjectGlobs(p)
    \/ Stat(p) \/ JournalLockHeld(p) \/ DoctorOpenFails(p) \/ VerifyJournal(p)
    \/ FinishDoctor(p)

CommandStep(p) == Load(p) \/ LoadFails(p) \/ OpenStep(p) \/ BackupStep(p) \/ DoctorStep(p)

Next ==
    \/ \E p \in Processes :
          \/ \E c \in Commands : Start(p, c)
          \/ CommandStep(p) \/ Record(p) \/ StopDaemon(p) \/ RefusedStep(p) \/ Kill(p)
    \/ \E kind \in {"row", "pages"} : Damage(kind)

Spec == Init /\ [][Next]_vars

\* Processes are scheduled, and every call a command makes ends, but for the wait
\* of OpenStore; nobody has to stop a daemon, and nothing has to be refused.
FairSpec == Spec /\ \A p \in Processes : WF_vars(CommandStep(p))

-----------------------------------------------------------------------------
\* Once every backup that opened OUT has exited with 0, OUT is a whole snapshot of
\* the journal as it was at one moment, though backups overlap on one OUT, though
\* earlier ones failed or were killed in the middle of it, and though recorders
\* come and go around them.
BackupsLeaveASnapshot ==
    owed = {} => out[1] # Hole /\ out[1] = out[2] /\ out[1] <= journal

\* A doctor that had a damaged journal to itself does not exit with 0, and none
\* reports a journal as failed that is only in use, just created or still missing:
\* it is damaged then, or the system has refused the doctor an access to it.
DoctorVerdictIsRight ==
    [][\A p \in Processes :
          Active(p) /\ ~Active(p)' =>
              /\ p \in calm => exit'[p] # 0
              /\ "journal" \in faults[p] => damage # "none" \/ p \in refused]_vars

DaemonHolds == writer # None /\ cmd[writer] = "run"

\* A backup always ends, also while a daemon runs for ever; any other command but
\* the daemon ends unless a daemon has the journal, and then waits for that.
CommandsEnd ==
    \A p \in Processes :
        /\ (Active(p) /\ cmd[p] = "backup") ~> ~Active(p)
        /\ (Active(p) /\ cmd[p] # "run") ~> (~Active(p) \/ DaemonHolds)
=============================================================================
