--------------------------- MODULE ConfigMutation ---------------------------
(***************************************************************************)
(* Writing allocated ports into a project's files                          *)
(* (agent/portforge_agent/config_manager.py): plan, apply and rollback of  *)
(* mutations over several files, beside a user who edits the same files,   *)
(* failing writes and killed processes.                                    *)
(*                                                                         *)
(* The dotenv, Compose and Kubernetes editors replace the mapped port      *)
(* values and keep the rest of a file, so a file's content is the user's   *)
(* text and the allocation whose ports it holds.  Hashes are compared for  *)
(* equality only and stand for the contents.  Every mutation maps every    *)
(* file.  Every write of a file or a record is an atomic replace.          *)
(***************************************************************************)
EXTENDS Naturals, FiniteSets, ProjectFiles

CONSTANTS
    Creatable,   \* dotenv files, which a plan may create
    Mutation,    \* mutation ids, numbered in creation order
    Alloc,       \* allocations
    Proc,        \* portforge processes
    MaxEdits,    \* bound on the user's edits
    MaxAborts,   \* bound on processes killed or failing outside the write loops
    EditAnytime, \* whether the user also edits while a command runs
    NoAlloc, NoMutation

ASSUME FileAssumption == Creatable \subseteq File
ASSUME MutationAssumption == Mutation \subseteq Nat /\ NoMutation \notin Mutation
ASSUME BoundAssumption ==
    MaxEdits \in Nat /\ MaxAborts \in Nat /\ EditAnytime \in BOOLEAN

ASSUME AbsentAssumption == Absent \notin [text: Nat, port: Alloc \cup {NoAlloc}]

VARIABLES
    disk,    \* the content of each file
    latest,  \* the last version of each file's text the user saved
    edits,   \* edits made
    rec,     \* <project_root>/.portforge/mutations/<id>/record.json
    backup,  \* .../<id>/files/
    active,  \* the allocations Central reports active
    proc,    \* what each process is doing
    aborts   \* processes killed

vars == <<disk, latest, edits, rec, backup, active, proc, aborts>>

-----------------------------------------------------------------------------
Text == 0..MaxEdits
Content == [text: Text, port: Alloc \cup {NoAlloc}] \cup {Absent}
Contents == [File -> Content]

Record == [status: {"none", "PLANNED", "APPLIED", "ROLLED_BACK"},
           alloc: Alloc \cup {NoAlloc}, before: Contents, after: Contents]

ProcState ==
    [pc: {"idle", "check", "backup", "write", "verify", "restore", "save",
          "rcheck", "rwrite", "rsave"},
     mut: Mutation \cup {NoMutation},
     orig: Contents,        \* what apply read before writing
     todo: SUBSET File,     \* files not yet written and verified
     written: SUBSET File,
     result: {"none", "ok", "error"}]

NoFiles == [f \in File |-> Absent]
NoRecord == [status |-> "none", alloc |-> NoAlloc,
             before |-> NoFiles, after |-> NoFiles]
Ended(result) == [pc |-> "idle", mut |-> NoMutation, orig |-> NoFiles,
                  todo |-> {}, written |-> {}, result |-> result]

(* Dotenv files may be missing at first; the others have to be there.      *)
InitFiles ==
    /\ disk \in {d \in [File -> {Absent, [text |-> 0, port |-> NoAlloc]}] :
                    \A f \in File \ Creatable : d[f] # Absent}
    /\ latest = [f \in File |-> 0]
    /\ edits = 0
    /\ rec = [m \in Mutation |-> NoRecord]
    /\ backup = [m \in Mutation |-> [n \in {BackupName[f] : f \in File} |-> Absent]]
    /\ proc = [p \in Proc |-> Ended("none")]
    /\ aborts = 0

Init == InitFiles /\ active = Alloc

-----------------------------------------------------------------------------
(* The user.                                                               *)

AllIdle == \A p \in Proc : proc[p].pc = "idle"

(* An edit changes the text, and not the mapped values.                    *)
Edit(f) ==
    /\ edits < MaxEdits
    /\ EditAnytime \/ AllIdle
    /\ edits' = edits + 1
    /\ latest' = [latest EXCEPT ![f] = edits + 1]
    /\ disk' = [disk EXCEPT ![f] =
                  [text |-> edits + 1,
                   port |-> IF disk[f] = Absent THEN NoAlloc ELSE disk[f].port]]
    /\ UNCHANGED <<rec, backup, active, proc, aborts>>

(* An allocation is released at Central; no file is touched.               *)
ReleaseAllocation(a) ==
    /\ a \in active
    /\ active' = active \ {a}
    /\ UNCHANGED <<disk, latest, edits, rec, backup, proc, aborts>>

-----------------------------------------------------------------------------
(* config plan.  plan and apply first fetch the allocation from Central    *)
(* and refuse it unless it is active (verify_allocation_ownership).        *)

Fresh == {m \in Mutation : rec[m].status = "none"}

(* What compute_dotenv_update, apply_port_mapping and the Kubernetes       *)
(* editors make of a file for allocation a.                                *)
Rendered(c, a) == [text |-> IF c = Absent THEN 0 ELSE c.text, port |-> a]

Planned(m, f) == Rendered(rec[m].before[f], rec[m].alloc)

(* build_plan and persist_plan.  A file that changes while the plan is     *)
(* built is caught by apply like one that changes right after it, so the   *)
(* reads and the new record are one step.                                  *)
PersistPlan(m, a) ==
    /\ m \in Fresh /\ \A n \in Fresh : m <= n
    /\ \A f \in File \ Creatable : disk[f] # Absent
    /\ rec' = [rec EXCEPT ![m] = [status |-> "PLANNED", alloc |-> a,
                                  before |-> disk, after |-> NoFiles]]
    /\ UNCHANGED <<disk, latest, edits, backup, active, proc, aborts>>

Plan(m, a) == a \in active /\ PersistPlan(m, a)

-----------------------------------------------------------------------------
(* config apply.                                                           *)

(* find_latest_planned_mutation.                                           *)
LatestPlanned(a) ==
    LET planned == {m \in Mutation : rec[m].status = "PLANNED" /\ rec[m].alloc = a}
    IN  {m \in planned : \A n \in planned : n <= m}

BeginApply(p, m) ==
    /\ proc[p].pc = "idle"
    /\ proc' = [proc EXCEPT ![p] = [Ended("none") EXCEPT !.pc = "check", !.mut = m]]
    /\ UNCHANGED <<disk, latest, edits, rec, backup, active, aborts>>

StartApply(p, m) == rec[m].alloc \in active /\ BeginApply(p, m)

(* Mutant of Unchanged: only that the files are still there is checked.    *)
StillThere(want) == \A f \in File : disk[f] = Absent <=> want[f] = Absent

(* Every file's live hash is the recorded one.                             *)
Unchanged(want) == \A f \in File : disk[f] = want[f]

(* apply_mutation up to the precondition check of all files.  A file that  *)
(* changes during the check is one that changed before it, if it is still  *)
(* to be compared, or after it.                                            *)
CheckApply(p) ==
    LET r == rec[proc[p].mut]
    IN  /\ proc[p].pc = "check"
        /\ proc' = [proc EXCEPT ![p] =
              IF r.status = "APPLIED" THEN Ended("ok")
              ELSE IF Unchanged(r.before) THEN [@ EXCEPT !.pc = "backup"]
              ELSE Ended("error")]
        /\ UNCHANGED <<disk, latest, edits, rec, backup, active, aborts>>

(* Mutant of BackUp: the rendered content is backed up.                    *)
BackUpRendered(p) ==
    LET m == proc[p].mut
        saved(f, n) == BackupName[f] = n /\ disk[f] # Absent
    IN  /\ proc[p].pc = "backup"
        /\ backup' = [backup EXCEPT ![m] = [n \in DOMAIN @ |->
              IF \E f \in File : saved(f, n)
              THEN Planned(m, CHOOSE f \in File : saved(f, n)) ELSE @[n]]]
        /\ proc' = [proc EXCEPT ![p].pc = "write", ![p].orig = disk, ![p].todo = File]
        /\ UNCHANGED <<disk, latest, edits, rec, active, aborts>>

(* The originals are read again and copied; of two files with the same     *)
(* backup name one copy remains.                                           *)
BackUp(p) ==
    LET m == proc[p].mut
        saved(f, n) == BackupName[f] = n /\ disk[f] # Absent
    IN  /\ proc[p].pc = "backup"
        /\ backup' = [backup EXCEPT ![m] = [n \in DOMAIN @ |->
              IF \E f \in File : saved(f, n)
              THEN disk[CHOOSE f \in File : saved(f, n)] ELSE @[n]]]
        /\ proc' = [proc EXCEPT ![p].pc = "write", ![p].orig = disk, ![p].todo = File]
        /\ UNCHANGED <<disk, latest, edits, rec, active, aborts>>

(* The first write fails before anything has to be restored.               *)
GiveUp(s) == IF s.written = {} THEN Ended("error") ELSE [s EXCEPT !.pc = "restore"]

(* Mutant of WriteFailed: what was written stays.                          *)
WriteFailedQuietly(p) ==
    /\ proc[p].pc = "write"
    /\ proc' = [proc EXCEPT ![p] = Ended("error")]
    /\ UNCHANGED <<disk, latest, edits, rec, backup, active, aborts>>

WriteFile(p, f) ==
    /\ proc[p].pc = "write" /\ f \in proc[p].todo
    /\ disk' = [disk EXCEPT ![f] = Planned(proc[p].mut, f)]
    /\ proc' = [proc EXCEPT ![p].pc = "verify", ![p].written = @ \cup {f}]
    /\ UNCHANGED <<latest, edits, rec, backup, active, aborts>>

(* OSError in the write loop.                                              *)
WriteFailed(p) ==
    /\ proc[p].pc = "write"
    /\ proc' = [proc EXCEPT ![p] = GiveUp(@)]
    /\ UNCHANGED <<disk, latest, edits, rec, backup, active, aborts>>

(* The file just written is read back and parsed again; either may fail.  *)
Verify(p, f) ==
    /\ proc[p].pc = "verify" /\ f \in proc[p].todo \cap proc[p].written
    /\ \/ /\ disk[f] = Planned(proc[p].mut, f)
          /\ proc' = [proc EXCEPT ![p].pc = IF proc[p].todo = {f} THEN "save" ELSE "write",
                                  ![p].todo = @ \ {f}]
       \/ proc' = [proc EXCEPT ![p] = GiveUp(@)]
    /\ UNCHANGED <<disk, latest, edits, rec, backup, active, aborts>>

(* The except block puts the original bytes back, file by file.            *)
RestoreFile(p, f) ==
    /\ proc[p].pc = "restore" /\ f \in proc[p].written
    /\ disk' = [disk EXCEPT ![f] = proc[p].orig[f]]
    /\ proc' = [proc EXCEPT ![p] = GiveUp([@ EXCEPT !.written = proc[p].written \ {f}])]
    /\ UNCHANGED <<latest, edits, rec, backup, active, aborts>>

(* Mutant of SaveApplied: only the dotenv files' hashes are recorded.      *)
SaveDotenvHashes(p) ==
    LET m == proc[p].mut
    IN  /\ proc[p].pc = "save"
        /\ rec' = [rec EXCEPT ![m].status = "APPLIED",
                              ![m].after = [f \in Creatable |-> Planned(m, f)]]
        /\ proc' = [proc EXCEPT ![p] = Ended("ok")]
        /\ UNCHANGED <<disk, latest, edits, backup, active, aborts>>

SaveApplied(p) ==
    LET m == proc[p].mut
    IN  /\ proc[p].pc = "save"
        /\ rec' = [rec EXCEPT ![m].status = "APPLIED",
                              ![m].after = [f \in File |-> Planned(m, f)]]
        /\ proc' = [proc EXCEPT ![p] = Ended("ok")]
        /\ UNCHANGED <<disk, latest, edits, backup, active, aborts>>

-----------------------------------------------------------------------------
(* config rollback.                                                        *)

StartRollback(p, m) ==
    /\ proc[p].pc = "idle"
    /\ rec[m].status # "none"
    /\ proc' = [proc EXCEPT ![p] =
          IF rec[m].status = "ROLLED_BACK" THEN Ended("ok")
          ELSE IF rec[m].status = "APPLIED"
          THEN [Ended("none") EXCEPT !.pc = "rcheck", !.mut = m]
          ELSE Ended("error")]
    /\ UNCHANGED <<disk, latest, edits, rec, backup, active, aborts>>

CheckRollback(p) ==
    /\ proc[p].pc = "rcheck"
    /\ proc' = [proc EXCEPT ![p] = IF Unchanged(rec[@.mut].after)
                                   THEN [@ EXCEPT !.pc = "rwrite", !.todo = File]
                                   ELSE Ended("error")]
    /\ UNCHANGED <<disk, latest, edits, rec, backup, active, aborts>>

(* Mutant of RestoreBackup: a file without a backup is left alone.         *)
RestoreExisting(p, f) ==
    LET old == backup[proc[p].mut][BackupName[f]]
    IN  /\ proc[p].pc = "rwrite" /\ f \in proc[p].todo
        /\ disk' = [disk EXCEPT ![f] = IF old = Absent THEN @ ELSE old]
        /\ proc' = [proc EXCEPT ![p].todo = @ \ {f},
                                ![p].pc = IF proc[p].todo = {f} THEN "rsave" ELSE @]
        /\ UNCHANGED <<latest, edits, rec, backup, active, aborts>>

(* A file without a backup did not exist and is removed again.             *)
RestoreBackup(p, f) ==
    /\ proc[p].pc = "rwrite" /\ f \in proc[p].todo
    /\ disk' = [disk EXCEPT ![f] = backup[proc[p].mut][BackupName[f]]]
    /\ proc' = [proc EXCEPT ![p].todo = @ \ {f},
                            ![p].pc = IF proc[p].todo = {f} THEN "rsave" ELSE @]
    /\ UNCHANGED <<latest, edits, rec, backup, active, aborts>>

(* An OSError in the restore loop ends the command; nothing catches it.    *)
RollbackFailed(p) ==
    /\ proc[p].pc = "rwrite"
    /\ proc' = [proc EXCEPT ![p] = Ended("error")]
    /\ UNCHANGED <<disk, latest, edits, rec, backup, active, aborts>>

SaveRolledBack(p) ==
    /\ proc[p].pc = "rsave"
    /\ rec' = [rec EXCEPT ![proc[p].mut].status = "ROLLED_BACK"]
    /\ proc' = [proc EXCEPT ![p] = Ended("ok")]
    /\ UNCHANGED <<disk, latest, edits, backup, active, aborts>>

(* The process is killed, or an OSError outside the two write loops ends   *)
(* it.                                                                     *)
Abort(p) ==
    /\ proc[p].pc # "idle"
    /\ aborts < MaxAborts
    /\ aborts' = aborts + 1
    /\ proc' = [proc EXCEPT ![p] = Ended("error")]
    /\ UNCHANGED <<disk, latest, edits, rec, backup, active>>

-----------------------------------------------------------------------------
ApplyStep(p) ==
    \/ CheckApply(p) \/ BackUp(p) \/ WriteFailed(p) \/ SaveApplied(p)
    \/ \E f \in File : WriteFile(p, f) \/ Verify(p, f) \/ RestoreFile(p, f)

RollbackStep(p) ==
    \/ CheckRollback(p) \/ RollbackFailed(p) \/ SaveRolledBack(p)
    \/ \E f \in File : RestoreBackup(p, f)

Next ==
    \/ \E f \in File : Edit(f)
    \/ \E a \in Alloc : ReleaseAllocation(a)
    \/ \E m \in Mutation, a \in Alloc : Plan(m, a)
    \/ \E p \in Proc : \/ \E a \in Alloc : \E m \in LatestPlanned(a) : StartApply(p, m)
                       \/ \E m \in Mutation : StartRollback(p, m)
                       \/ ApplyStep(p)
                       \/ RollbackStep(p)
                       \/ Abort(p)

Spec == Init /\ [][Next]_vars

-----------------------------------------------------------------------------
(* Files, records and processes keep their types.                          *)
TypeOK ==
    /\ disk \in Contents
    /\ latest \in [File -> Text]
    /\ edits \in Text
    /\ rec \in [Mutation -> Record]
    /\ \A m \in Mutation, f \in File : backup[m][BackupName[f]] \in Content
    /\ active \subseteq Alloc
    /\ proc \in [Proc -> ProcState]
    /\ aborts \in 0..MaxAborts

(* Nothing PortForge does loses an edit: each file still has the text the  *)
(* user saved last, whatever was planned, applied, rolled back, failed or  *)
(* killed since (the precondition hashes of apply and rollback).           *)
EditsKept ==
    \A f \in File : latest[f] > 0 =>
        disk[f] # Absent /\ disk[f].text = latest[f]

(* An apply that fails, without being killed, leaves every file of the     *)
(* project exactly as it found it: no partial final state (the restore in  *)
(* apply_mutation's except block).                                         *)
ApplyAllOrNothing ==
    [][\A p \in Proc :
          proc[p].pc \in {"write", "verify", "restore"}
              /\ proc'[p].result = "error" /\ aborts' = aborts
              => disk' = proc[p].orig]_vars

(* Whatever is killed or fails, the original of every file that holds an   *)
(* allocation's ports is kept in the backup directory of a mutation of     *)
(* that allocation (backups come before the first write).                  *)
OriginalsKept ==
    \A f \in File : disk[f] # Absent /\ disk[f].port # NoAlloc =>
        \E m \in Mutation :
            /\ rec[m].status # "none" /\ rec[m].alloc = disk[f].port
            /\ backup[m][BackupName[f]] = rec[m].before[f]

(* A rollback that reports success has restored every file to exactly what *)
(* it was when the mutation was planned.                                   *)
RollbackIsExact ==
    [][\A m \in Mutation :
          rec'[m].status = "ROLLED_BACK" /\ rec[m].status # "ROLLED_BACK" =>
              disk = rec[m].before]_vars

=============================================================================
