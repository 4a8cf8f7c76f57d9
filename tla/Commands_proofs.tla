--------------------------- MODULE Commands_proofs ---------------------------
(* The commands that share a journal file, for any number of processes,     *)
(* commands, events and kills: a backup leaves a whole snapshot, and the    *)
(* doctor's verdict about the journal is right.                             *)
EXTENDS Commands, TLAPS

DoctorPlaces == {"config", "dirs", "probed", "globs", "stat", "held", "open", "work", "endpoint"}
BackupPlaces == {"create", "snapshot", "copy", "rest", "sync"}
Places == {"off"} \cup DoctorPlaces \cup BackupPlaces

TypeInv ==
    /\ cmd \in [Processes -> Commands \cup {None}]
    /\ at \in [Processes -> Places]
    /\ exit \in [Processes -> {0, 1}]
    /\ faults \in [Processes -> SUBSET {"journal", "setup"}]
    /\ journal \in Int /\ journal >= Missing
    /\ damage \in {"none", "row", "pages"}
    /\ out \in [{1, 2} -> Int]
    /\ writer \in Processes \cup {None}
    /\ {owed, readers, calm, refused} \subseteq SUBSET Processes

\* Whoever works on the open store is alone with the file, and whoever copies it shares
\* it with nobody but other copies.
LockInv ==
    /\ writer # None => readers = {}
    /\ \A p \in Processes :
          /\ at[p] = "work" <=> writer = p
          /\ at[p] \in {"copy", "rest"} => p \in readers /\ journal # Missing
    /\ damage # "none" => journal # Missing

Whole == out[1] # Hole /\ out[1] = out[2] /\ out[1] <= journal

\* Of a backup between its two parts, the first part in OUT is of the journal as it
\* still is, or another backup has emptied OUT since and has yet to write it.  OUT is
\* whole once nobody who opened it has anything left to write.
SnapshotInv ==
    /\ \A p \in Processes : at[p] \in {"snapshot", "copy", "rest", "sync"} => p \in owed
    /\ (\E p \in Processes : at[p] = "rest") =>
          \/ out[1] = journal
          \/ \E q \in owed : at[q] \notin {"rest", "sync"}
    /\ (\A q \in owed : at[q] = "sync") => Whole

\* A doctor that found the journal damaged and to itself stays alone with it, opens it
\* or fails to, and has the failure among its faults when it comes to the report.  What a
\* doctor says of the journal is that it is damaged, or that it was refused.
DoctorInv ==
    /\ \A p \in Processes : "journal" \in faults[p] => damage # "none" \/ p \in refused
    /\ \A p \in calm :
          /\ damage # "none" /\ cmd[p] = "doctor" /\ at[p] \in DoctorPlaces
          /\ writer \in {None, p}
          /\ at[p] = "work" => damage = "row"
          /\ at[p] = "endpoint" => faults[p] # {}

CommandsInv == TypeInv /\ LockInv /\ SnapshotInv /\ DoctorInv

LEMMA InitEstablishes ==
    ASSUME Init
    PROVE  CommandsInv
<1>1. TypeInv
  <2>1. out \in [{1, 2} -> Int]
    BY DEF Init, Hole
  <2> QED BY <2>1 DEF Init, TypeInv, Places, Missing
<1>2. LockInv
  BY CommandsAssumption DEF Init, LockInv
<1>3. SnapshotInv
  <2>1. 1 \in Processes
    BY CommandsAssumption DEF Processes
  <2> QED BY <2>1 DEF Init, SnapshotInv
<1>4. DoctorInv
  BY DEF Init, DoctorInv
<1> QED BY <1>1, <1>2, <1>3, <1>4 DEF CommandsInv

-----------------------------------------------------------------------------
\* A process that ends lets go of the file, and what its backup owes is still owed
\* unless it has succeeded.
LEMMA ExitKeeps ==
    ASSUME CommandsInv, NEW p \in Processes, NEW code \in {0, 1}, Exit(p, code),
           UNCHANGED <<fileVars, out>>,
           owed' = owed \/ (at[p] = "sync" /\ owed' = owed \ {p})
    PROVE  CommandsInv'
<1>1. /\ at' = [at EXCEPT ![p] = "off"]
      /\ exit' = [exit EXCEPT ![p] = code]
      /\ calm' = calm \ {p} /\ refused' = refused \ {p}
      /\ cmd' = [cmd EXCEPT ![p] = None]
      /\ faults' = [faults EXCEPT ![p] = {}]
      /\ writer' = IF writer = p THEN None ELSE writer
      /\ readers' = readers \ {p}
      /\ UNCHANGED <<journal, damage, out>>
      /\ owed' \subseteq owed /\ owed \subseteq owed' \cup {p}
  BY DEF Exit, Goto, Release, fileVars
<1>2. TypeInv'
  BY <1>1 DEF CommandsInv, TypeInv, Places
<1>3. \A q \in Processes \ {p} : /\ at'[q] = at[q] /\ cmd'[q] = cmd[q] /\ faults'[q] = faults[q]
                                 /\ q \in owed' <=> q \in owed
  BY <1>1 DEF CommandsInv, TypeInv
<1>4. at'[p] = "off" /\ faults'[p] = {}
  BY <1>1 DEF CommandsInv, TypeInv
<1>5. LockInv'
  BY <1>1, <1>3, <1>4, CommandsAssumption DEF CommandsInv, LockInv, TypeInv
<1>6. SnapshotInv'
  <2>1. \A q \in Processes : at'[q] \in {"snapshot", "copy", "rest", "sync"} => q \in owed'
    BY <1>3, <1>4 DEF CommandsInv, SnapshotInv
  <2>2. ASSUME \E q \in Processes : at'[q] = "rest"
        PROVE  out[1] = journal \/ \E q \in owed' : at'[q] \notin {"rest", "sync"}
    <3>1. out[1] = journal \/ \E q \in owed : at[q] \notin {"rest", "sync"}
      BY <1>3, <1>4, <2>2 DEF CommandsInv, SnapshotInv
    <3>2. CASE \E q \in owed : at[q] \notin {"rest", "sync"}
      <4>1. PICK q \in owed : at[q] \notin {"rest", "sync"}
        BY <3>2
      <4>2. q \in Processes
        BY DEF CommandsInv, TypeInv
      <4>3. q \in owed' /\ at'[q] \notin {"rest", "sync"}
        BY <1>3, <1>4, <4>1, <4>2
      <4> QED BY <4>3
    <3> QED BY <3>1, <3>2
  <2>3. ASSUME \A q \in owed' : at'[q] = "sync"
        PROVE  Whole'
    <3>1. \A q \in owed : at[q] = "sync"
      <4> SUFFICES ASSUME NEW q \in owed PROVE at[q] = "sync"
        OBVIOUS
      <4>1. q \in Processes
        BY DEF CommandsInv, TypeInv
      <4> QED BY <1>3, <1>4, <2>3, <4>1
    <3> QED BY <1>1, <3>1 DEF CommandsInv, SnapshotInv, Whole
  <2> QED BY <1>1, <2>1, <2>2, <2>3 DEF SnapshotInv
<1>7. DoctorInv'
  BY <1>1, <1>3, <1>4, CommandsAssumption DEF CommandsInv, DoctorInv, TypeInv
<1> QED BY <1>2, <1>5, <1>6, <1>7 DEF CommandsInv

\* Steps between places where a process neither holds nor wants the file: they move on,
\* and report what they find.
LEMMA MoveKeeps ==
    ASSUME CommandsInv, NEW p \in Processes, NEW place \in Places, NEW found,
           Goto(p, place), UNCHANGED <<cmd, exit, fileVars, lockVars, outVars, calm>>,
           at[p] \notin {"off", "snapshot", "copy", "rest", "sync", "work"},
           place \notin {"off", "snapshot", "copy", "rest", "sync", "work"},
           faults' = [faults EXCEPT ![p] = @ \cup found], found \subseteq {"journal", "setup"},
           "journal" \in found => damage # "none" \/ p \in refused',
           refused' \in SUBSET Processes, refused \subseteq refused',
           p \in calm => /\ place \in DoctorPlaces
                         /\ place = "endpoint" => found # {}
    PROVE  CommandsInv'
<1>1. /\ at' = [at EXCEPT ![p] = place]
      /\ UNCHANGED <<cmd, exit, journal, damage, writer, readers, out, owed, calm>>
  BY DEF Goto, fileVars, lockVars, outVars
<1>2. /\ at'[p] = place /\ faults'[p] = faults[p] \cup found
      /\ \A q \in Processes \ {p} : at'[q] = at[q] /\ faults'[q] = faults[q]
  BY <1>1 DEF CommandsInv, TypeInv
<1>3. TypeInv'
  BY <1>1 DEF CommandsInv, TypeInv
<1>4. LockInv'
  BY <1>1, <1>2 DEF CommandsInv, LockInv
<1>5. SnapshotInv'
  <2>1. \A q \in Processes : at'[q] \in {"snapshot", "copy", "rest", "sync"}
                                <=> at[q] \in {"snapshot", "copy", "rest", "sync"}
    BY <1>2
  <2>2. \A q \in Processes : /\ at'[q] = "rest" <=> at[q] = "rest"
                             /\ at'[q] = "sync" <=> at[q] = "sync"
    BY <1>2
  <2>3. owed \subseteq Processes
    BY DEF CommandsInv, TypeInv
  <2> QED BY <1>1, <2>1, <2>2, <2>3 DEF CommandsInv, SnapshotInv, Whole
<1>6. DoctorInv'
  <2>1. calm \subseteq Processes
    BY DEF CommandsInv, TypeInv
  <2> QED BY <1>1, <1>2, <2>1 DEF CommandsInv, DoctorInv
<1> QED BY <1>3, <1>4, <1>5, <1>6 DEF CommandsInv

LEMMA SilentMoveKeeps ==
    ASSUME CommandsInv, NEW p \in Processes, NEW place \in Places,
           Goto(p, place),
           UNCHANGED <<cmd, exit, faults, fileVars, lockVars, outVars, calm, refused>>,
           at[p] \notin {"off", "snapshot", "copy", "rest", "sync", "work"},
           place \notin {"off", "snapshot", "copy", "rest", "sync", "work"},
           p \in calm => place \in DoctorPlaces \ {"endpoint"}
    PROVE  CommandsInv'
<1>1. faults' = [faults EXCEPT ![p] = @ \cup {}]
  BY DEF CommandsInv, TypeInv
<1> PICK found : found = {}
  OBVIOUS
<1>2. found \subseteq {"journal", "setup"} /\ "journal" \notin found
      /\ refused' \in SUBSET Processes /\ refused \subseteq refused'
  BY DEF CommandsInv, TypeInv
<1>3. /\ UNCHANGED <<cmd, exit, fileVars, lockVars, outVars, calm>>
      /\ faults' = [faults EXCEPT ![p] = @ \cup found]
      /\ p \in calm => place \in DoctorPlaces /\ place # "endpoint"
  BY <1>1
<1> QED BY <1>2, <1>3, MoveKeeps

LEMMA StartKeeps ==
    ASSUME CommandsInv, NEW p \in Processes, NEW c \in Commands, Start(p, c)
    PROVE  CommandsInv'
<1>1. /\ at[p] = "off" /\ at' = [at EXCEPT ![p] = "config"]
      /\ cmd' = [cmd EXCEPT ![p] = c] /\ exit' = [exit EXCEPT ![p] = 1]
      /\ calm' = IF c = "doctor" /\ damage # "none" /\ writer = None THEN calm \cup {p} ELSE calm
      /\ UNCHANGED <<faults, journal, damage, writer, readers, out, owed, refused>>
  BY DEF Start, Active, Goto, fileVars, lockVars, outVars
<1>2. /\ at'[p] = "config" /\ cmd'[p] = c
      /\ \A q \in Processes \ {p} : at'[q] = at[q] /\ cmd'[q] = cmd[q]
  BY <1>1 DEF CommandsInv, TypeInv
<1>3. TypeInv'
  <2>1. "config" \in Places
    BY DEF Places, DoctorPlaces
  <2> QED BY <1>1, <2>1 DEF CommandsInv, TypeInv
<1>4. LockInv'
  BY <1>1, <1>2 DEF CommandsInv, LockInv
<1>5. SnapshotInv'
  <2>1. owed \subseteq Processes
    BY DEF CommandsInv, TypeInv
  <2> QED BY <1>1, <1>2, <2>1 DEF CommandsInv, SnapshotInv, Whole
<1>6. DoctorInv'
  <2>1. calm \subseteq Processes /\ "config" \in DoctorPlaces /\ p \notin calm
    BY <1>1 DEF CommandsInv, TypeInv, DoctorInv, DoctorPlaces
  <2> QED BY <1>1, <1>2, <2>1 DEF CommandsInv, DoctorInv
<1> QED BY <1>3, <1>4, <1>5, <1>6 DEF CommandsInv

LEMMA OpenStoreKeeps ==
    ASSUME CommandsInv, NEW p \in Processes, OpenStore(p)
    PROVE  CommandsInv'
<1>1. /\ at[p] = "open" /\ writer = None /\ readers = {} /\ damage # "pages"
      /\ writer' = p /\ calm' = calm \cap {p}
      /\ journal' = IF journal = Missing THEN 0 ELSE journal
      /\ at' = [at EXCEPT ![p] = "work"]
      /\ UNCHANGED <<cmd, exit, faults, damage, readers, out, owed, refused>>
  BY DEF OpenStore, Unlocked, Step, Goto, outVars
<1>2. at'[p] = "work" /\ \A q \in Processes \ {p} : at'[q] = at[q]
  BY <1>1 DEF CommandsInv, TypeInv
<1>3. TypeInv'
  <2>1. "work" \in Places
    BY DEF Places, DoctorPlaces
  <2>2. journal' \in Int /\ journal' >= Missing
    BY <1>1 DEF CommandsInv, TypeInv, Missing
  <2> QED BY <1>1, <2>1, <2>2 DEF CommandsInv, TypeInv
<1>4. LockInv'
  <2>1. journal' # Missing
    BY <1>1 DEF Missing
  <2>2. None \notin Processes
    BY CommandsAssumption
  <2> QED BY <1>1, <1>2, <2>1, <2>2 DEF CommandsInv, LockInv
<1>5. SnapshotInv'
  <2>1. \A q \in Processes : at[q] # "rest"
    BY <1>1 DEF CommandsInv, LockInv
  <2>2. Whole => Whole'
    <3>1. out[1] \in Int /\ journal' >= journal
      BY <1>1 DEF CommandsInv, TypeInv, Missing
    <3> QED BY <1>1, <3>1 DEF CommandsInv, TypeInv, Whole
  <2>3. owed \subseteq Processes
    BY DEF CommandsInv, TypeInv
  <2> QED BY <1>1, <1>2, <2>1, <2>2, <2>3 DEF CommandsInv, SnapshotInv
<1>6. DoctorInv'
  <2>1. "work" \in DoctorPlaces
    BY DEF DoctorPlaces
  <2> QED BY <1>1, <1>2, <2>1 DEF CommandsInv, TypeInv, DoctorInv
<1> QED BY <1>3, <1>4, <1>5, <1>6 DEF CommandsInv

LEMMA RecordKeeps ==
    ASSUME CommandsInv, NEW p \in Processes, Record(p)
    PROVE  CommandsInv'
<1>1. /\ at[p] = "work" /\ journal' = journal + 1
      /\ UNCHANGED <<at, cmd, exit, faults, damage, writer, readers, out, owed, calm, refused>>
  BY DEF Record, procVars, lockVars, outVars, ghosts
<1>2. journal \in Int /\ journal >= Missing /\ out[1] \in Int
  BY DEF CommandsInv, TypeInv
<1>3. TypeInv' /\ LockInv'
  BY <1>1, <1>2 DEF CommandsInv, TypeInv, LockInv, Missing
<1>4. SnapshotInv'
  <2>1. \A q \in Processes : at[q] # "rest"
    BY <1>1, CommandsAssumption DEF CommandsInv, LockInv
  <2>2. Whole => Whole'
    BY <1>1, <1>2 DEF Whole
  <2> QED BY <1>1, <2>1, <2>2 DEF CommandsInv, SnapshotInv
<1>5. DoctorInv'
  BY <1>1 DEF CommandsInv, DoctorInv
<1> QED BY <1>3, <1>4, <1>5 DEF CommandsInv

LEMMA DamageKeeps ==
    ASSUME CommandsInv, NEW kind \in {"row", "pages"}, Damage(kind)
    PROVE  CommandsInv'
<1>1. /\ journal # Missing /\ damage = "none" /\ damage' = kind
      /\ UNCHANGED <<at, cmd, exit, faults, journal, writer, readers, out, owed, calm,
                     refused>>
  BY DEF Damage, procVars, lockVars, outVars, ghosts
<1>2. TypeInv' /\ LockInv'
  BY <1>1 DEF CommandsInv, TypeInv, LockInv
<1>3. SnapshotInv'
  BY <1>1 DEF CommandsInv, SnapshotInv, Whole
<1>4. DoctorInv'
  BY <1>1 DEF CommandsInv, DoctorInv
<1> QED BY <1>2, <1>3, <1>4 DEF CommandsInv

LEMMA CreateOutKeeps ==
    ASSUME CommandsInv, NEW p \in Processes, CreateOut(p)
    PROVE  CommandsInv'
<1>1. /\ at[p] = "create" /\ at' = [at EXCEPT ![p] = "snapshot"]
      /\ owed' = {q \in owed : at[q] \in {"snapshot", "copy", "rest", "sync"}} \cup {p}
      /\ UNCHANGED <<cmd, exit, faults, journal, damage, writer, readers, calm, refused>>
  BY DEF CreateOut, Step, Goto, fileVars, lockVars, ghosts
<1>2. at'[p] = "snapshot" /\ \A q \in Processes \ {p} : at'[q] = at[q]
  BY <1>1 DEF CommandsInv, TypeInv
<1>3. TypeInv'
  <2>1. "snapshot" \in Places
    BY DEF Places, BackupPlaces
  <2>2. out' \in [{1, 2} -> Int]
    BY DEF CreateOut, Hole
  <2> QED BY <1>1, <2>1, <2>2 DEF CommandsInv, TypeInv
<1>4. LockInv'
  BY <1>1, <1>2 DEF CommandsInv, LockInv
<1>5. SnapshotInv'
  <2>1. p \in owed' /\ at'[p] \notin {"rest", "sync"}
    BY <1>1, <1>2
  <2>2. \A q \in Processes : at'[q] \in {"snapshot", "copy", "rest", "sync"} => q \in owed'
    BY <1>1, <1>2 DEF CommandsInv, SnapshotInv
  <2> QED BY <2>1, <2>2 DEF SnapshotInv
<1>6. DoctorInv'
  <2>1. p \notin calm /\ calm \subseteq Processes
    BY <1>1 DEF CommandsInv, TypeInv, DoctorInv, DoctorPlaces
  <2> QED BY <1>1, <1>2, <2>1 DEF CommandsInv, DoctorInv
<1> QED BY <1>3, <1>4, <1>5, <1>6 DEF CommandsInv

LEMMA BeginSnapshotKeeps ==
    ASSUME CommandsInv, NEW p \in Processes, BeginSnapshot(p)
    PROVE  CommandsInv'
<1>1. /\ at[p] = "snapshot" /\ at' = [at EXCEPT ![p] = "copy"] /\ journal # Missing /\ writer = None
      /\ readers' = readers \cup {p}
      /\ UNCHANGED <<cmd, exit, faults, journal, damage, writer, out, owed, calm, refused>>
  BY DEF BeginSnapshot, Step, Goto, fileVars, outVars, ghosts
<1>2. at'[p] = "copy" /\ \A q \in Processes \ {p} : at'[q] = at[q]
  BY <1>1 DEF CommandsInv, TypeInv
<1>3. TypeInv'
  <2>1. "copy" \in Places
    BY DEF Places, BackupPlaces
  <2> QED BY <1>1, <2>1 DEF CommandsInv, TypeInv
<1>4. LockInv'
  BY <1>1, <1>2, CommandsAssumption DEF CommandsInv, LockInv
<1>5. SnapshotInv'
  <2>1. owed \subseteq Processes /\ p \in owed
    BY <1>1 DEF CommandsInv, TypeInv, SnapshotInv
  <2> QED BY <1>1, <1>2, <2>1 DEF CommandsInv, SnapshotInv, Whole
<1>6. DoctorInv'
  <2>1. p \notin calm /\ calm \subseteq Processes
    BY <1>1 DEF CommandsInv, TypeInv, DoctorInv, DoctorPlaces
  <2> QED BY <1>1, <1>2, <2>1 DEF CommandsInv, DoctorInv
<1> QED BY <1>3, <1>4, <1>5, <1>6 DEF CommandsInv

LEMMA CopyPagesKeeps ==
    ASSUME CommandsInv, NEW p \in Processes, CopyPages(p)
    PROVE  CommandsInv'
<1>1. /\ at[p] = "copy" /\ at' = [at EXCEPT ![p] = "rest"] /\ out' = [out EXCEPT ![1] = journal]
      /\ UNCHANGED <<cmd, exit, faults, journal, damage, writer, readers, owed, calm, refused>>
  BY DEF CopyPages, Step, Goto, fileVars, lockVars, ghosts
<1>2. at'[p] = "rest" /\ \A q \in Processes \ {p} : at'[q] = at[q]
  BY <1>1 DEF CommandsInv, TypeInv
<1>3. TypeInv'
  <2>1. "rest" \in Places
    BY DEF Places, BackupPlaces
  <2> QED BY <1>1, <2>1 DEF CommandsInv, TypeInv
<1>4. LockInv'
  BY <1>1, <1>2 DEF CommandsInv, LockInv
<1>5. SnapshotInv'
  <2>1. out'[1] = journal
    BY <1>1 DEF CommandsInv, TypeInv
  <2>2. p \in owed
    BY <1>1 DEF CommandsInv, SnapshotInv
  <2> QED BY <1>1, <1>2, <2>1, <2>2 DEF CommandsInv, SnapshotInv
<1>6. DoctorInv'
  <2>1. p \notin calm /\ calm \subseteq Processes
    BY <1>1 DEF CommandsInv, TypeInv, DoctorInv, DoctorPlaces
  <2> QED BY <1>1, <1>2, <2>1 DEF CommandsInv, DoctorInv
<1> QED BY <1>3, <1>4, <1>5, <1>6 DEF CommandsInv

LEMMA CopyRestKeeps ==
    ASSUME CommandsInv, NEW p \in Processes, CopyRest(p)
    PROVE  CommandsInv'
<1>1. /\ at[p] = "rest" /\ at' = [at EXCEPT ![p] = "sync"] /\ out' = [out EXCEPT ![2] = journal]
      /\ writer' = (IF writer = p THEN None ELSE writer) /\ readers' = readers \ {p}
      /\ UNCHANGED <<cmd, exit, faults, journal, damage, owed, calm, refused>>
  BY DEF CopyRest, Step, Goto, Release, fileVars, ghosts
<1>2. at'[p] = "sync" /\ \A q \in Processes \ {p} : at'[q] = at[q]
  BY <1>1 DEF CommandsInv, TypeInv
<1>a. writer' = writer
  BY <1>1 DEF CommandsInv, LockInv
<1>3. TypeInv'
  <2>1. "sync" \in Places
    BY DEF Places, BackupPlaces
  <2> QED BY <1>1, <1>a, <2>1 DEF CommandsInv, TypeInv
<1>4. LockInv'
  BY <1>1, <1>2, <1>a DEF CommandsInv, LockInv
<1>5. SnapshotInv'
  <2>1. out'[1] = out[1] /\ out'[2] = journal
    BY <1>1 DEF CommandsInv, TypeInv
  <2>2. \A q \in Processes : at'[q] \in {"snapshot", "copy", "rest", "sync"} => q \in owed
    BY <1>1, <1>2 DEF CommandsInv, SnapshotInv
  <2>3. out[1] = journal \/ \E q \in owed : at[q] \notin {"rest", "sync"} /\ at'[q] = at[q]
    BY <1>1, <1>2 DEF CommandsInv, SnapshotInv, TypeInv
  <2>4. journal >= Missing /\ journal # Missing /\ journal \in Int
    BY <1>1 DEF CommandsInv, TypeInv, LockInv
  <2>5. ASSUME \A q \in owed : at'[q] = "sync" PROVE Whole'
    <3>1. out[1] = journal
      BY <2>3, <2>5
    <3> QED BY <1>1, <2>1, <2>4, <3>1 DEF Whole, Missing, Hole
  <2> QED BY <1>1, <2>1, <2>2, <2>3, <2>5 DEF SnapshotInv
<1>6. DoctorInv'
  <2>1. p \notin calm /\ calm \subseteq Processes
    BY <1>1 DEF CommandsInv, TypeInv, DoctorInv, DoctorPlaces
  <2> QED BY <1>1, <1>2, <1>a, <2>1 DEF CommandsInv, DoctorInv
<1> QED BY <1>3, <1>4, <1>5, <1>6 DEF CommandsInv

LEMMA ReadingKeeps ==
    ASSUME CommandsInv, NEW p \in Processes, VerifyJournal(p) \/ ReadRefused(p)
    PROVE  CommandsInv'
<1>1. /\ at[p] = "work" /\ at' = [at EXCEPT ![p] = "endpoint"]
      /\ writer' = (IF writer = p THEN None ELSE writer) /\ readers' = readers \ {p}
      /\ UNCHANGED <<cmd, exit, journal, damage, out, owed, calm>>
      /\ refused' \in SUBSET Processes /\ refused \subseteq refused'
  BY DEF VerifyJournal, ReadRefused, Refuse, At, Report, Goto, Release, fileVars, outVars, ghosts,
     CommandsInv, TypeInv
<1>b. \/ damage = "row" /\ faults' = [faults EXCEPT ![p] = @ \cup {"journal"}]
      \/ damage # "row" /\ faults' = faults
      \/ p \in refused' /\ faults' = [faults EXCEPT ![p] = @ \cup {"journal"}]
  BY DEF VerifyJournal, ReadRefused, Refuse, Report
<1>2. at'[p] = "endpoint" /\ \A q \in Processes \ {p} : at'[q] = at[q] /\ faults'[q] = faults[q]
  BY <1>1, <1>b DEF CommandsInv, TypeInv
<1>a. writer = p /\ writer' = None
  BY <1>1 DEF CommandsInv, LockInv
<1>3. TypeInv'
  <2>1. "endpoint" \in Places
    BY DEF Places, DoctorPlaces
  <2> QED BY <1>1, <1>a, <1>b, <2>1 DEF CommandsInv, TypeInv
<1>4. LockInv'
  BY <1>1, <1>2, <1>a, CommandsAssumption DEF CommandsInv, LockInv, TypeInv
<1>5. SnapshotInv'
  <2>1. owed \subseteq Processes
    BY DEF CommandsInv, TypeInv
  <2> QED BY <1>1, <1>2, <2>1 DEF CommandsInv, SnapshotInv, Whole
<1>6. DoctorInv'
  <2>1. calm \subseteq Processes /\ "endpoint" \in DoctorPlaces
    BY DEF CommandsInv, TypeInv, DoctorPlaces
  <2>2. faults'[p] = faults[p] \/ faults'[p] = faults[p] \cup {"journal"}
    BY <1>b DEF CommandsInv, TypeInv
  <2>3. "journal" \in faults'[p] => damage # "none" \/ p \in refused'
    BY <1>1, <1>b, <2>2 DEF CommandsInv, DoctorInv
  <2>4. p \in calm => faults'[p] # {}
    <3>1. \/ p \notin calm
          \/ faults' = [faults EXCEPT ![p] = @ \cup {"journal"}]
      BY <1>1, <1>b DEF CommandsInv, DoctorInv
    <3> QED BY <3>1 DEF CommandsInv, TypeInv
  <2> QED BY <1>1, <1>2, <1>a, <2>1, <2>3, <2>4 DEF CommandsInv, DoctorInv
<1> QED BY <1>3, <1>4, <1>5, <1>6 DEF CommandsInv

\* Every way a process ends.
Ends(p) ==
    \/ LoadFails(p) \/ OpenFails(p) \/ FinishRecording(p) \/ FinishReading(p) \/ StopDaemon(p)
    \/ CreateFails(p) \/ SnapshotRefused(p) \/ SnapshotTimesOut(p) \/ BackupFails(p) \/ Sync(p)
    \/ OpenRefused(p) \/ FinishDoctor(p) \/ Kill(p)

LEMMA EndsExit ==
    ASSUME NEW p \in Processes, Ends(p)
    PROVE  \E code \in {0, 1} :
              /\ Exit(p, code) /\ UNCHANGED <<fileVars, out>>
              /\ owed' = owed \/ (at[p] = "sync" /\ owed' = owed \ {p})
<1>1. CASE LoadFails(p) \/ OpenFails(p) \/ CreateFails(p) \/ SnapshotRefused(p)
           \/ SnapshotTimesOut(p) \/ BackupFails(p) \/ Kill(p) \/ OpenRefused(p)
  BY <1>1 DEF LoadFails, OpenFails, OpenRefused, CreateFails, SnapshotRefused, SnapshotTimesOut, BackupFails,
     Kill, outVars
<1>2. CASE FinishRecording(p) \/ FinishReading(p) \/ StopDaemon(p) \/ FinishDoctor(p)
  BY <1>2 DEF FinishRecording, FinishReading, StopDaemon, FinishDoctor, outVars
<1>3. CASE Sync(p)
  BY <1>3 DEF Sync
<1> QED BY <1>1, <1>2, <1>3 DEF Ends

\* Every step of a process that only moves it on.
Moves(p) ==
    \/ Load(p) \/ WriteProbe(p) \/ RemoveProbe(p) \/ DirCheckFails(p) \/ CheckProjectGlobs(p)
    \/ Stat(p) \/ JournalLockHeld(p) \/ DoctorOpenFails(p) \/ StatRefused(p)
    \/ DoctorOpenRefused(p)

LEMMA MovesKeep ==
    ASSUME CommandsInv, NEW p \in Processes, Moves(p)
    PROVE  CommandsInv'
<1>0. /\ faults \in [Processes -> SUBSET {"journal", "setup"}]
      /\ p \in calm => /\ damage # "none" /\ cmd[p] = "doctor" /\ at[p] \in DoctorPlaces
                       /\ writer \in {None, p} /\ journal # Missing
      /\ at[p] = "work" <=> writer = p
  BY DEF CommandsInv, TypeInv, DoctorInv, LockInv
<1>1. /\ UNCHANGED <<cmd, exit, fileVars, lockVars, outVars, calm>>
      /\ refused' \in SUBSET Processes /\ refused \subseteq refused'
      /\ ~(StatRefused(p) \/ DoctorOpenRefused(p)) => UNCHANGED refused
  BY DEF Moves, Load, WriteProbe, RemoveProbe, DirCheckFails, CheckProjectGlobs, Stat,
     JournalLockHeld, DoctorOpenFails, StatRefused, DoctorOpenRefused, Refuse, Step, Report, ghosts,
     CommandsInv, TypeInv
<1>2. CASE Load(p)
  <2> DEFINE place == CASE cmd[p] = "backup" -> "create"
                        [] cmd[p] = "doctor" -> "dirs"
                        [] OTHER -> "open"
  <2>1. /\ at[p] = "config" /\ Goto(p, place) /\ UNCHANGED <<faults, refused>>
        /\ place \in {"create", "dirs", "open"} /\ (p \in calm => place = "dirs")
    BY <1>0, <1>2 DEF Load, Step, ghosts
  <2> HIDE DEF place
  <2> QED BY <1>1, <2>1, SilentMoveKeeps DEF Places, BackupPlaces, DoctorPlaces
<1>3. CASE WriteProbe(p) \/ RemoveProbe(p)
  <2>1. PICK place \in {"probed", "globs"} : Goto(p, place)
    BY <1>3 DEF WriteProbe, RemoveProbe, Step
  <2>2. UNCHANGED <<faults, refused>> /\ at[p] \in {"dirs", "probed"}
    BY <1>3 DEF WriteProbe, RemoveProbe, Step, ghosts
  <2> QED BY <1>1, <2>1, <2>2, SilentMoveKeeps DEF Places, DoctorPlaces
<1>4. CASE DirCheckFails(p) \/ CheckProjectGlobs(p)
  <2>1. PICK place \in {"globs", "stat"} : Goto(p, place)
    BY <1>4 DEF DirCheckFails, CheckProjectGlobs
  <2>2. PICK found \in {{}, {"setup"}} : faults' = [faults EXCEPT ![p] = @ \cup found]
    BY <1>4 DEF DirCheckFails, CheckProjectGlobs, Report
  <2>3. at[p] \in {"dirs", "probed", "globs"}
    BY <1>4 DEF DirCheckFails, CheckProjectGlobs
  <2>4. "journal" \notin found /\ found \subseteq {"journal", "setup"}
    OBVIOUS
  <2> QED BY <1>1, <2>1, <2>2, <2>3, <2>4, MoveKeeps DEF Places, DoctorPlaces
<1>5. CASE Stat(p)
  <2> DEFINE place == IF journal = Missing THEN "endpoint" ELSE "held"
  <2>1. /\ at[p] = "stat" /\ Goto(p, place) /\ UNCHANGED <<faults, refused>>
        /\ place \in {"endpoint", "held"} /\ (p \in calm => place = "held")
    BY <1>0, <1>5 DEF Stat, Step, ghosts
  <2> HIDE DEF place
  <2> QED BY <1>1, <2>1, SilentMoveKeeps DEF Places, DoctorPlaces
<1>6. CASE JournalLockHeld(p)
  <2> DEFINE place == IF writer # None THEN "endpoint" ELSE "open"
  <2>1. /\ at[p] = "held" /\ Goto(p, place) /\ UNCHANGED <<faults, refused>>
        /\ place \in {"endpoint", "open"} /\ (p \in calm => place = "open")
    BY <1>0, <1>6 DEF JournalLockHeld, Step, ghosts
  <2> HIDE DEF place
  <2> QED BY <1>1, <2>1, SilentMoveKeeps DEF Places, DoctorPlaces
<1>7. CASE DoctorOpenFails(p)
  <2>1. /\ at[p] = "open" /\ Goto(p, "endpoint") /\ damage = "pages"
        /\ faults' = [faults EXCEPT ![p] = @ \cup {"journal"}]
    BY <1>7 DEF DoctorOpenFails, At, Report
  <2> QED BY <1>1, <2>1, MoveKeeps DEF Places, DoctorPlaces
<1>8. CASE StatRefused(p) \/ DoctorOpenRefused(p)
  <2>1. /\ at[p] \in {"stat", "open"} /\ Goto(p, "endpoint") /\ p \in refused'
        /\ faults' = [faults EXCEPT ![p] = @ \cup {"journal"}]
    BY <1>8 DEF StatRefused, DoctorOpenRefused, Refuse, At, Report
  <2> QED BY <1>1, <2>1, MoveKeeps DEF Places, DoctorPlaces
<1> QED BY <1>2, <1>3, <1>4, <1>5, <1>6, <1>7, <1>8 DEF Moves

LEMMA NextCases ==
    ASSUME Next
    PROVE  \/ \E p \in Processes :
                 \/ \E c \in Commands : Start(p, c)
                 \/ Ends(p) \/ Moves(p) \/ OpenStore(p) \/ Record(p) \/ VerifyJournal(p)
                 \/ ReadRefused(p)
                 \/ CreateOut(p) \/ BeginSnapshot(p) \/ CopyPages(p) \/ CopyRest(p)
           \/ \E kind \in {"row", "pages"} : Damage(kind)
  BY DEF Next, CommandStep, OpenStep, BackupStep, DoctorStep, RefusedStep, Ends, Moves

\* The locks exclude, the parts of OUT and the findings of a doctor are as described.
THEOREM CommandsInvCorrect == Spec => []CommandsInv
<1>1. Init => CommandsInv
  BY InitEstablishes
<1>2. CommandsInv /\ [Next]_vars => CommandsInv'
  <2>1. ASSUME CommandsInv, Next PROVE CommandsInv'
    <3>1. CASE \E kind \in {"row", "pages"} : Damage(kind)
      BY <2>1, <3>1, DamageKeeps
    <3>2. ASSUME NEW p \in Processes,
                 \/ \E c \in Commands : Start(p, c)
                 \/ Ends(p) \/ Moves(p) \/ OpenStore(p) \/ Record(p) \/ VerifyJournal(p)
                 \/ ReadRefused(p)
                 \/ CreateOut(p) \/ BeginSnapshot(p) \/ CopyPages(p) \/ CopyRest(p)
          PROVE  CommandsInv'
      <4>1. CASE Ends(p)
        BY <2>1, <4>1, EndsExit, ExitKeeps
      <4>2. CASE (\E c \in Commands : Start(p, c)) \/ Moves(p) \/ OpenStore(p) \/ Record(p)
        BY <2>1, <4>2, StartKeeps, MovesKeep, OpenStoreKeeps, RecordKeeps
      <4>3. CASE \/ VerifyJournal(p) \/ ReadRefused(p) \/ CreateOut(p) \/ BeginSnapshot(p) \/ CopyPages(p)
                 \/ CopyRest(p)
        BY <2>1, <4>3, ReadingKeeps, CreateOutKeeps, BeginSnapshotKeeps, CopyPagesKeeps,
           CopyRestKeeps
      <4> QED BY <3>2, <4>1, <4>2, <4>3
    <3> QED BY <2>1, <3>1, <3>2, NextCases
  <2>2. ASSUME CommandsInv, UNCHANGED vars PROVE CommandsInv'
    BY <2>2 DEF CommandsInv, TypeInv, LockInv, SnapshotInv, Whole, DoctorInv, vars, procVars,
       fileVars, lockVars, outVars, ghosts
  <2> QED BY <2>1, <2>2
<1> QED BY <1>1, <1>2, PTL DEF Spec

\* However many backups write one OUT at once, and whatever fails, is killed or records
\* around them: once each that opened it has succeeded, it holds one state of the journal.
THEOREM BackupsAreWhole == Spec => []BackupsLeaveASnapshot
<1>1. CommandsInv => BackupsLeaveASnapshot
  BY DEF CommandsInv, SnapshotInv, Whole, BackupsLeaveASnapshot
<1> QED BY <1>1, CommandsInvCorrect, PTL

\* A doctor with a damaged journal to itself never exits with 0, and a journal it reports as
\* failed is damaged, unless the system refused the doctor an access to it.
THEOREM DoctorIsRight == Spec => DoctorVerdictIsRight
<1>1. ASSUME CommandsInv, Next, NEW p \in Processes, Active(p), ~Active(p)'
      PROVE  /\ p \in calm => exit'[p] # 0
             /\ "journal" \in faults[p] => damage # "none" \/ p \in refused
  <2>1. "journal" \in faults[p] => damage # "none" \/ p \in refused
    BY <1>1 DEF CommandsInv, DoctorInv
  <2>2. ASSUME p \in calm PROVE exit'[p] # 0
    <3>1. /\ cmd[p] = "doctor" /\ at[p] \in DoctorPlaces
          /\ at[p] = "endpoint" => faults[p] # {}
      BY <1>1, <2>2 DEF CommandsInv, DoctorInv
    <3>2. Ends(p)
      <4>1. at \in [Processes -> Places]
        BY <1>1 DEF CommandsInv, TypeInv
      <4>2. ASSUME NEW q \in Processes, NEW place, at' = [at EXCEPT ![q] = place], place # "off"
            PROVE  FALSE
        BY <1>1, <4>1, <4>2 DEF Active
      <4>3. ASSUME NEW q \in Processes, q # p, Ends(q) PROVE FALSE
        <5>1. at' = [at EXCEPT ![q] = "off"]
          BY <4>3, EndsExit DEF Exit, Goto
        <5> QED BY <1>1, <4>1, <4>3, <5>1 DEF Active
      <4>4. at' # at
        BY <1>1 DEF Active
      <4>5. ASSUME NEW q \in Processes, Moves(q) PROVE FALSE
        <5>1. PICK place : at' = [at EXCEPT ![q] = place] /\ place # "off"
          BY <4>5 DEF Moves, Load, WriteProbe, RemoveProbe, DirCheckFails, CheckProjectGlobs,
             Stat, JournalLockHeld, DoctorOpenFails, StatRefused, DoctorOpenRefused, Refuse, Step,
             Goto
        <5> QED BY <4>2, <5>1
      <4>6. ASSUME NEW q \in Processes,
                   \/ \E c \in Commands : Start(q, c)
                   \/ OpenStore(q) \/ VerifyJournal(q) \/ ReadRefused(q) \/ CreateOut(q) \/ BeginSnapshot(q)
                   \/ CopyPages(q) \/ CopyRest(q)
            PROVE  FALSE
        <5>1. PICK place : at' = [at EXCEPT ![q] = place] /\ place # "off"
          BY <4>6 DEF Start, OpenStore, VerifyJournal, ReadRefused, Refuse, CreateOut,
             BeginSnapshot, CopyPages, CopyRest, Step, Goto
        <5> QED BY <4>2, <5>1
      <4>7. ASSUME NEW q \in Processes, Record(q) PROVE FALSE
        BY <4>4, <4>7 DEF Record, procVars
      <4>8. ASSUME NEW kind \in {"row", "pages"}, Damage(kind) PROVE FALSE
        BY <4>4, <4>8 DEF Damage, procVars
      <4> QED BY <1>1, <4>3, <4>5, <4>6, <4>7, <4>8, NextCases
    <3>3. \E code \in {0, 1} : exit' = [exit EXCEPT ![p] = code] /\ code # 0
      BY <3>1, <3>2 DEF Ends, LoadFails, OpenFails, FinishRecording, FinishReading, StopDaemon,
         CreateFails, SnapshotRefused, SnapshotTimesOut, BackupFails, Sync, OpenRefused,
         FinishDoctor, Kill, Exit, At, DoctorPlaces, Recording, Reading
    <3>4. exit \in [Processes -> {0, 1}]
      BY <1>1 DEF CommandsInv, TypeInv
    <3> QED BY <3>3, <3>4
  <2> QED BY <2>1, <2>2
<1>2. CommandsInv /\ [Next]_vars
         => [\A p \in Processes :
                Active(p) /\ ~Active(p)' =>
                    /\ p \in calm => exit'[p] # 0
                    /\ "journal" \in faults[p] => damage # "none" \/ p \in refused]_vars
  BY <1>1
<1> QED BY <1>2, CommandsInvCorrect, PTL DEF Spec, DoctorVerdictIsRight
=============================================================================
