------------------------------ MODULE Workflow ------------------------------
(***************************************************************************)
(* workflow apply (agent/portforge_agent/workflow.py): one command that    *)
(* allocates at Central under a request_id, writes the ports into the      *)
(* project's files through config plan and apply (ConfigMutation), and on  *)
(* a failure rolls back and releases what this attempt created.  Responses *)
(* are lost, processes are killed, and the user retries, runs the config   *)
(* commands and releases allocations in between.                           *)
(*                                                                         *)
(* Central keeps one allocation per request_id (CentralAllocation,         *)
(* RetryNeverDuplicates), so Alloc stands for the request ids as well.     *)
(* Every request_id is used with one manifest: another one is refused      *)
(* before anything is done.                                                *)
(***************************************************************************)
EXTENDS ConfigMutation

CONSTANT WithConfig   \* the requests whose manifest maps ports into files

ASSUME WithConfigAssumption == WithConfig \subseteq Alloc

VARIABLES
    known,  \* request ids Central has an allocation for, active or released
    wrec,   \* .portforge/workflows/<request>/record.json
    flow    \* what workflow apply is doing in each process

wvars == <<known, wrec, flow>>
allvars == <<vars, wvars>>

WorkflowRecord ==
    [status: {"none", "FAILED", "ALLOCATED", "APPLIED"},
     allocated: BOOLEAN,              \* allocation_id is set
     mut: Mutation \cup {NoMutation}]

FlowState ==
    [pc: {"idle", "create", "refused", "inactive", "allocated", "plan", "apply",
          "applying", "applied", "compensate", "release", "failed"},
     req: Alloc \cup {NoAlloc},
     created: BOOLEAN,                \* created_by_this_attempt
     made: BOOLEAN,                   \* history: this attempt's call created it
     mut: Mutation \cup {NoMutation}]

NoFlow == [pc |-> "idle", req |-> NoAlloc, created |-> FALSE, made |-> FALSE,
           mut |-> NoMutation]

WorkflowInit ==
    /\ InitFiles
    /\ active = {}
    /\ known = {}
    /\ wrec = [r \in Alloc |-> [status |-> "none", allocated |-> FALSE, mut |-> NoMutation]]
    /\ flow = [p \in Proc |-> NoFlow]

Free(p) == proc[p].pc = "idle" /\ flow[p].pc = "idle"

(* Process p goes from phase pc of its workflow to phase next.             *)
Go(p, pc, next) ==
    /\ flow[p].pc = pc
    /\ flow' = [flow EXCEPT ![p].pc = next]

(* The end of an attempt, with the record it leaves behind.                *)
Finish(p, pc, status, allocated, m) ==
    /\ flow[p].pc = pc
    /\ wrec' = [wrec EXCEPT ![flow[p].req] =
                  [status |-> status, allocated |-> allocated, mut |-> m]]
    /\ flow' = [flow EXCEPT ![p] = NoFlow]

-----------------------------------------------------------------------------
(* The request is done already: the record is returned and nothing runs.   *)
Replayed(r) ==
    \/ wrec[r].status = "APPLIED"
    \/ wrec[r].status = "ALLOCATED" /\ r \notin WithConfig

BeginWorkflow(p, r) ==
    /\ Free(p)
    /\ ~Replayed(r)
    /\ flow' = [flow EXCEPT ![p] = [NoFlow EXCEPT !.pc = "create", !.req = r,
                                                  !.created = ~wrec[r].allocated]]
    /\ UNCHANGED <<vars, known, wrec>>

(* Mutant of Answered: idempotent_replay is not looked at.                 *)
AnsweredByRecord(f) ==
    [f EXCEPT !.pc = IF f.req \in known \ active THEN "inactive" ELSE "allocated",
              !.made = f.req \notin known]

(* What the client makes of Central's answer; idempotent_replay overrides  *)
(* what the record says.                                                   *)
Answered(f) ==
    [f EXCEPT !.pc = IF f.req \in known \ active THEN "inactive" ELSE "allocated",
              !.created = @ /\ f.req \notin known,
              !.made = f.req \notin known]

(* create_allocation reaches Central, which creates the allocation or      *)
(* returns the one it has; the response may be lost.                       *)
CreateAllocation(p) ==
    LET r == flow[p].req
    IN  /\ flow[p].pc = "create"
        /\ known' = known \cup {r}
        /\ active' = IF r \in known THEN active ELSE active \cup {r}
        /\ \/ flow' = [flow EXCEPT ![p] = Answered(@)]
           \/ flow' = [flow EXCEPT ![p].pc = "refused"]
        /\ UNCHANGED <<disk, latest, edits, rec, backup, proc, aborts, wrec>>

(* Central refuses, or the request does not reach it.                      *)
AllocationRefused(p) ==
    /\ Go(p, "create", "refused")
    /\ UNCHANGED <<vars, known, wrec>>

SaveRefused(p) ==
    /\ Finish(p, "refused", "FAILED", FALSE, NoMutation)
    /\ UNCHANGED <<vars, known>>

SaveInactive(p) ==
    /\ Finish(p, "inactive", "FAILED", TRUE, NoMutation)
    /\ UNCHANGED <<vars, known>>

SaveAllocated(p) ==
    LET r == flow[p].req
    IN  /\ flow[p].pc = "allocated"
        /\ wrec' = [wrec EXCEPT ![r] = [status |-> "ALLOCATED", allocated |-> TRUE,
                                        mut |-> NoMutation]]
        /\ flow' = [flow EXCEPT ![p] = IF r \in WithConfig THEN [@ EXCEPT !.pc = "plan"]
                                       ELSE NoFlow]
        /\ UNCHANGED <<vars, known>>

-----------------------------------------------------------------------------
(* The config step.  Unlike the config commands it does not ask Central    *)
(* again whether the allocation is still active.                           *)

PlanConfig(p) ==
    /\ flow[p].pc = "plan"
    /\ \E m \in Fresh : /\ PersistPlan(m, flow[p].req)
                        /\ flow' = [flow EXCEPT ![p].pc = "apply", ![p].mut = m]
    /\ UNCHANGED <<known, wrec>>

(* A mapped file is missing, or an editor refuses it.                      *)
PlanRefused(p) ==
    /\ Go(p, "plan", "compensate")
    /\ UNCHANGED <<vars, known, wrec>>

ApplyConfig(p) ==
    /\ Go(p, "apply", "applying")
    /\ BeginApply(p, flow[p].mut)
    /\ UNCHANGED <<known, wrec>>

(* Mutant of ConfigApplied: apply's error is not noticed.                  *)
ConfigReturned(p) ==
    /\ proc[p].pc = "idle"
    /\ Go(p, "applying", "applied")
    /\ UNCHANGED <<vars, known, wrec>>

ConfigApplied(p) ==
    /\ proc[p].pc = "idle" /\ proc[p].result = "ok"
    /\ Go(p, "applying", "applied")
    /\ UNCHANGED <<vars, known, wrec>>

ConfigFailed(p) ==
    /\ proc[p].pc = "idle" /\ proc[p].result = "error"
    /\ Go(p, "applying", "compensate")
    /\ UNCHANGED <<vars, known, wrec>>

SaveWorkflowApplied(p) ==
    /\ Finish(p, "applied", "APPLIED", TRUE, flow[p].mut)
    /\ UNCHANGED <<vars, known>>

-----------------------------------------------------------------------------
(* _compensate.                                                            *)

(* A mutation that is applied after all, by another process, is rolled     *)
(* back first; otherwise apply has restored the files itself.  The release *)
(* follows, whatever came of the rollback.                                 *)
Compensate(p) ==
    LET m == flow[p].mut
    IN  /\ Go(p, "compensate", "release")
        /\ IF m # NoMutation /\ rec[m].status = "APPLIED"
           THEN StartRollback(p, m)
           ELSE UNCHANGED vars
        /\ UNCHANGED <<known, wrec>>

(* Only what this attempt created is released (created_by_this_attempt).   *)
ReleaseOwn(p) ==
    /\ flow[p].created
    /\ proc[p].pc = "idle"
    /\ Go(p, "release", "failed")
    /\ active' = active \ {flow[p].req}
    /\ UNCHANGED <<disk, latest, edits, rec, backup, proc, aborts, known, wrec>>

(* The allocation is not this attempt's, or the release does not reach     *)
(* Central.                                                                *)
KeepAllocation(p) ==
    /\ proc[p].pc = "idle"
    /\ Go(p, "release", "failed")
    /\ UNCHANGED <<vars, known, wrec>>

SaveFailed(p) ==
    /\ Finish(p, "failed", "FAILED", TRUE, flow[p].mut)
    /\ UNCHANGED <<vars, known>>

-----------------------------------------------------------------------------
(* The steps of config apply and rollback, run by a workflow or by their   *)
(* own commands.  A rollback that meets an OSError takes the workflow that *)
(* called it down with it.                                                 *)
ConfigStep(p) ==
    /\ \/ ApplyStep(p) \/ CheckRollback(p) \/ SaveRolledBack(p)
       \/ \E f \in File : RestoreBackup(p, f)
    /\ UNCHANGED wvars

RollbackBroken(p) ==
    /\ RollbackFailed(p)
    /\ flow' = [flow EXCEPT ![p] = NoFlow]
    /\ UNCHANGED <<known, wrec>>

(* The user's config plan, apply and rollback, and allocation release.     *)
UserCommand(p) ==
    /\ Free(p)
    /\ \/ \E m \in Fresh, a \in WithConfig : Plan(m, a)
       \/ \E a \in active : \E m \in LatestPlanned(a) : StartApply(p, m)
       \/ \E m \in Mutation : StartRollback(p, m)
       \/ \E a \in active : ReleaseAllocation(a)
    /\ UNCHANGED wvars

UserEdit(f) ==
    /\ \A p \in Proc : Free(p)
    /\ Edit(f)
    /\ UNCHANGED wvars

Kill(p) ==
    /\ ~Free(p)
    /\ aborts < MaxAborts
    /\ aborts' = aborts + 1
    /\ proc' = [proc EXCEPT ![p] = Ended("error")]
    /\ flow' = [flow EXCEPT ![p] = NoFlow]
    /\ UNCHANGED <<disk, latest, edits, rec, backup, active, known, wrec>>

-----------------------------------------------------------------------------
WorkflowStep(p) ==
    \/ CreateAllocation(p) \/ AllocationRefused(p) \/ SaveRefused(p) \/ SaveInactive(p)
    \/ SaveAllocated(p) \/ PlanConfig(p) \/ PlanRefused(p) \/ ApplyConfig(p)
    \/ ConfigApplied(p) \/ ConfigFailed(p) \/ SaveWorkflowApplied(p)
    \/ Compensate(p) \/ ReleaseOwn(p) \/ KeepAllocation(p) \/ SaveFailed(p)

WorkflowNext ==
    \/ \E f \in File : UserEdit(f)
    \/ \E p \in Proc : \/ \E r \in Alloc : BeginWorkflow(p, r)
                       \/ WorkflowStep(p)
                       \/ ConfigStep(p) \/ RollbackBroken(p)
                       \/ UserCommand(p)
                       \/ Kill(p)

WorkflowSpec == WorkflowInit /\ [][WorkflowNext]_allvars

-----------------------------------------------------------------------------
(* The workflow's records and processes keep their types.                  *)
WorkflowTypeOK ==
    /\ TypeOK
    /\ active \subseteq known /\ known \subseteq Alloc
    /\ wrec \in [Alloc -> WorkflowRecord]
    /\ flow \in [Proc -> FlowState]

(* Process p's compensation gives up its allocation in this step.          *)
GivesUp(p) ==
    /\ flow[p].pc = "release" /\ flow'[p].pc = "failed"
    /\ flow[p].req \in active \ active'

(* Compensation releases only an allocation that this very attempt made at *)
(* Central: one found through a retry, a lost response or another process  *)
(* is preserved (created_by_this_attempt and idempotent_replay).  With     *)
(* ApplyAllOrNothing: its ports are in no file then.                       *)
CompensationOwns == [][\A p \in Proc : GivesUp(p) => flow[p].made]_allvars

(* A record that says APPLIED is true: its mutation was applied for this   *)
(* request, and at most rolled back by the user since.                     *)
AppliedIsTrue ==
    \A r \in Alloc :
        wrec[r].status = "APPLIED" =>
            /\ rec[wrec[r].mut].status \in {"APPLIED", "ROLLED_BACK"}
            /\ rec[wrec[r].mut].alloc = r

=============================================================================
