---------------------------- MODULE ConfigProofs ----------------------------
(***************************************************************************)
(* The config commands, for every set of processes, requests, files and    *)
(* mutations: types, records that tell the truth, compensation that        *)
(* releases only what the same attempt created, and, between the user's    *)
(* edits, no lost edit. For one command at a time also: originals kept,    *)
(* exact rollbacks and applies that are all or nothing. Of the project a   *)
(* workflow changes no more than the config step it takes (WorkflowIsCfg), *)
(* so what follows the files argues about CfgStep.                         *)
(*                                                                         *)
(* The second part, from Holds on, is about what is written: for every     *)
(* manifest, allocation and content of the files, the ports are put where  *)
(* the manifest says and nowhere else, are recognised when planned again,  *)
(* and are taken back exactly.                                             *)
(***************************************************************************)
EXTENDS Workflow, ConfigDocuments, FiniteSetTheorems, TLAPS

(* Once Central has answered, an attempt that takes the allocation for its *)
(* own has made it.                                                        *)
Owned(f) == f.pc \notin {"idle", "create", "refused"} /\ f.created => f.made

FlowInv ==
    /\ flow \in [Proc -> FlowState]
    /\ \A p \in Proc : Owned(flow[p])

(* Assigning a process a well-typed phase that is owned keeps FlowInv.     *)
LEMMA FlowAssigned ==
    ASSUME FlowInv, NEW p \in Proc, NEW f \in FlowState, Owned(f),
           flow' = [flow EXCEPT ![p] = f]
    PROVE  FlowInv'
  BY DEF FlowInv

(* An ended attempt is owned.                                              *)
LEMMA NoFlowOwned == NoFlow \in FlowState /\ Owned(NoFlow)
  BY DEF NoFlow, FlowState, Owned

(* Going on to the next phase changes nothing of who made the allocation.  *)
LEMMA GoOn ==
    ASSUME FlowInv, NEW p \in Proc, NEW pc, NEW next, Go(p, pc, next),
           [flow[p] EXCEPT !.pc = next] \in FlowState,
           pc \notin {"idle", "create", "refused"} \/ next \in {"idle", "create", "refused"}
    PROVE  FlowInv'
<1> DEFINE f == [flow[p] EXCEPT !.pc = next]
<1>1. flow[p] \in FlowState /\ Owned(flow[p]) /\ flow[p].pc = pc
  BY DEF FlowInv, Go
<1>2. f.pc = next /\ f.created = flow[p].created /\ f.made = flow[p].made
  BY <1>1 DEF FlowState
<1>3. Owned(f)
  BY <1>1, <1>2 DEF Owned
<1>4. flow' = [flow EXCEPT ![p] = f]
  BY DEF Go
<1>. QED
  BY <1>3, <1>4, FlowAssigned

(* The end of an attempt.                                                  *)
LEMMA Ends ==
    ASSUME FlowInv, NEW p \in Proc, flow' = [flow EXCEPT ![p] = NoFlow]
    PROVE  FlowInv'
  BY NoFlowOwned, FlowAssigned

LEMMA PcTyped ==
    ASSUME NEW f \in FlowState,
           NEW next \in {"idle", "create", "refused", "inactive", "allocated", "plan",
                         "apply", "applying", "applied", "compensate",
                         "release", "failed"}
    PROVE  [f EXCEPT !.pc = next] \in FlowState
  BY DEF FlowState

LEMMA InitFlow == WorkflowInit => FlowInv
<1> SUFFICES ASSUME WorkflowInit PROVE FlowInv
  OBVIOUS
<1>1. flow = [p \in Proc |-> NoFlow]
  BY DEF WorkflowInit
<1>. QED
  BY <1>1, NoFlowOwned DEF FlowInv

(* A new attempt has not asked Central yet.                                *)
LEMMA BeginKeeps ==
    ASSUME FlowInv, NEW p \in Proc, NEW r \in Alloc, BeginWorkflow(p, r)
    PROVE  FlowInv'
<1> DEFINE f == [NoFlow EXCEPT !.pc = "create", !.req = r, !.created = ~wrec[r].allocated]
<1>1. flow' = [flow EXCEPT ![p] = f]
  BY DEF BeginWorkflow
<1>2. f.pc = "create"
  BY DEF NoFlow
<1>3. f \in FlowState
  BY DEF NoFlow, FlowState
<1>4. Owned(f)
  BY <1>2 DEF Owned
<1>. QED
  BY <1>1, <1>3, <1>4, FlowAssigned

(* Central's answer decides: known request ids are nobody's new ones.      *)
LEMMA CreateKeeps ==
    ASSUME FlowInv, NEW p \in Proc, CreateAllocation(p)
    PROVE  FlowInv'
<1>1. flow[p] \in FlowState /\ Owned(flow[p]) /\ flow[p].pc = "create"
  BY DEF FlowInv, CreateAllocation
<1>2. CASE flow' = [flow EXCEPT ![p] = Answered(@)]
  <2> DEFINE f == Answered(flow[p])
  <2>1. flow' = [flow EXCEPT ![p] = f]
    BY <1>2
  <2>2. f \in FlowState
    BY <1>1 DEF Answered, FlowState
  <2>3. /\ f.created = (flow[p].created /\ flow[p].req \notin known)
        /\ f.made = (flow[p].req \notin known)
    BY <1>1 DEF Answered, FlowState
  <2>4. Owned(f)
    BY <2>3 DEF Owned
  <2>. QED
    BY <2>1, <2>2, <2>4, FlowAssigned
<1>3. CASE flow' = [flow EXCEPT ![p].pc = "refused"]
  <2> DEFINE f == [flow[p] EXCEPT !.pc = "refused"]
  <2>1. flow' = [flow EXCEPT ![p] = f]
    BY <1>3
  <2>2. f \in FlowState
    BY <1>1, PcTyped
  <2>3. f.pc = "refused"
    BY <1>1 DEF FlowState
  <2>4. Owned(f)
    BY <2>3 DEF Owned
  <2>. QED
    BY <2>1, <2>2, <2>4, FlowAssigned
<1>. QED
  BY <1>2, <1>3 DEF CreateAllocation

(* The record is saved; with a config mapping the attempt goes on.         *)
LEMMA SaveAllocatedKeeps ==
    ASSUME FlowInv, NEW p \in Proc, SaveAllocated(p)
    PROVE  FlowInv'
<1>1. flow[p] \in FlowState /\ Owned(flow[p]) /\ flow[p].pc = "allocated"
  BY DEF FlowInv, SaveAllocated
<1>2. CASE flow[p].req \in WithConfig
  <2>1. Go(p, "allocated", "plan")
    BY <1>2 DEF SaveAllocated, Go
  <2>. QED
    BY <1>1, <2>1, PcTyped, GoOn
<1>3. CASE flow[p].req \notin WithConfig
  BY <1>3, Ends DEF SaveAllocated
<1>. QED
  BY <1>2, <1>3

LEMMA PlanKeeps ==
    ASSUME FlowInv, NEW p \in Proc, PlanConfig(p)
    PROVE  FlowInv'
<1>1. flow[p] \in FlowState /\ Owned(flow[p]) /\ flow[p].pc = "plan"
  BY DEF FlowInv, PlanConfig
<1>2. PICK m \in Fresh : flow' = [flow EXCEPT ![p].pc = "apply", ![p].mut = m]
  BY DEF PlanConfig
<1> DEFINE f == [flow[p] EXCEPT !.pc = "apply", !.mut = m]
<1>3. flow' = [flow EXCEPT ![p] = f]
  BY <1>1, <1>2 DEF FlowInv
<1>4. f \in FlowState
  BY <1>1 DEF FlowState, Fresh
<1>5. f.created = flow[p].created /\ f.made = flow[p].made
  BY <1>1 DEF FlowState
<1>6. Owned(f)
  BY <1>1, <1>5 DEF Owned
<1>. QED
  BY <1>3, <1>4, <1>6, FlowAssigned

(* Every step of the workflow, of the config commands and of the user      *)
(* keeps the invariant.                                                    *)
LEMMA StepKeeps ==
    ASSUME FlowInv, [WorkflowNext]_allvars
    PROVE  FlowInv'
<1>1. \A p \in Proc : flow[p] \in FlowState
  BY DEF FlowInv
<1>2. ASSUME UNCHANGED flow PROVE FlowInv'
  BY <1>2 DEF FlowInv
<1>3. ASSUME NEW p \in Proc, NEW pc \in {"allocated", "plan", "apply", "applying",
                 "compensate", "release"},
             NEW next \in {"plan", "applying", "applied", "compensate",
                           "release", "failed"},
             Go(p, pc, next)
      PROVE  FlowInv'
  BY <1>1, <1>3, PcTyped, GoOn
<1>4. ASSUME NEW p \in Proc, WorkflowStep(p) PROVE FlowInv'
  <2>1. CASE CreateAllocation(p)
    BY <2>1, CreateKeeps
  <2>2. CASE AllocationRefused(p)
    <3>1. Go(p, "create", "refused")
      BY <2>2 DEF AllocationRefused
    <3>2. [flow[p] EXCEPT !.pc = "refused"] \in FlowState
      BY <1>1, PcTyped
    <3>. QED
      BY <3>1, <3>2, GoOn
  <2>3. CASE SaveRefused(p) \/ SaveInactive(p) \/ SaveWorkflowApplied(p) \/ SaveFailed(p)
    BY <2>3, Ends DEF SaveRefused, SaveInactive, SaveWorkflowApplied, SaveFailed, Finish
  <2>4. CASE SaveAllocated(p)
    BY <2>4, SaveAllocatedKeeps
  <2>5. CASE PlanConfig(p)
    BY <2>5, PlanKeeps
  <2>6. CASE PlanRefused(p)
    <3>1. Go(p, "plan", "compensate")
      BY <2>6 DEF PlanRefused
    <3>. QED
      BY <3>1, <1>3
  <2>7. CASE ApplyConfig(p)
    <3>1. Go(p, "apply", "applying")
      BY <2>7 DEF ApplyConfig
    <3>. QED
      BY <3>1, <1>3
  <2>8. CASE ConfigApplied(p)
    <3>1. Go(p, "applying", "applied")
      BY <2>8 DEF ConfigApplied
    <3>. QED
      BY <3>1, <1>3
  <2>9. CASE ConfigFailed(p)
    <3>1. Go(p, "applying", "compensate")
      BY <2>9 DEF ConfigFailed
    <3>. QED
      BY <3>1, <1>3
  <2>10. CASE Compensate(p)
    <3>1. Go(p, "compensate", "release")
      BY <2>10 DEF Compensate
    <3>. QED
      BY <3>1, <1>3
  <2>11. CASE ReleaseOwn(p) \/ KeepAllocation(p)
    <3>1. Go(p, "release", "failed")
      BY <2>11 DEF ReleaseOwn, KeepAllocation
    <3>. QED
      BY <3>1, <1>3
  <2>. QED
    BY <1>4, <2>1, <2>2, <2>3, <2>4, <2>5, <2>6, <2>7, <2>8, <2>9, <2>10, <2>11
       DEF WorkflowStep
<1>5. CASE \E f \in File : UserEdit(f)
  BY <1>5, <1>2 DEF UserEdit, wvars
<1>6. ASSUME NEW p \in Proc, NEW r \in Alloc, BeginWorkflow(p, r) PROVE FlowInv'
  BY <1>6, BeginKeeps
<1>7. ASSUME NEW p \in Proc, ConfigStep(p) \/ UserCommand(p) PROVE FlowInv'
  BY <1>7, <1>2 DEF ConfigStep, UserCommand, wvars
<1>8. ASSUME NEW p \in Proc, RollbackBroken(p) \/ Kill(p) PROVE FlowInv'
  BY <1>8, Ends DEF RollbackBroken, Kill
<1>9. CASE UNCHANGED allvars
  BY <1>9, <1>2 DEF allvars, wvars
<1>. QED
  BY <1>4, <1>5, <1>6, <1>7, <1>8, <1>9 DEF WorkflowNext

(* Of all steps only ReleaseOwn gives up an allocation for a workflow: the *)
(* others leave Central's active allocations, or the workflows, alone, and *)
(* an allocation request adds to them.                                     *)
LEMMA OnlyReleaseOwn ==
    ASSUME FlowInv, WorkflowNext, NEW p \in Proc, GivesUp(p)
    PROVE  flow[p].created
<1>1. flow[p].pc = "release" /\ flow'[p].pc = "failed" /\ flow' # flow
  BY DEF GivesUp
<1>2. ~(active \subseteq active')
  BY DEF GivesUp
<1>3. ASSUME NEW q \in Proc, ReleaseOwn(q) PROVE flow[p].created
  <2>1. flow' = [flow EXCEPT ![q].pc = "failed"] /\ flow[q].created
    BY <1>3 DEF ReleaseOwn, Go
  <2>2. p = q
    BY <1>1, <2>1 DEF FlowInv
  <2>. QED
    BY <2>1, <2>2
<1>4. ASSUME NEW q \in Proc, WorkflowStep(q) PROVE flow[p].created
  <2>1. CASE CreateAllocation(q)
    BY <2>1, <1>2 DEF CreateAllocation
  <2>2. CASE \/ AllocationRefused(q) \/ SaveRefused(q) \/ SaveInactive(q)
             \/ SaveAllocated(q) \/ PlanRefused(q) \/ ConfigApplied(q)
             \/ ConfigFailed(q) \/ SaveWorkflowApplied(q)
             \/ KeepAllocation(q) \/ SaveFailed(q)
    BY <2>2, <1>2 DEF AllocationRefused, SaveRefused, SaveInactive, SaveAllocated,
       PlanRefused, ConfigApplied, ConfigFailed, SaveWorkflowApplied,
       KeepAllocation, SaveFailed, vars
  <2>3. CASE PlanConfig(q)
    BY <2>3, <1>2 DEF PlanConfig, PersistPlan
  <2>4. CASE ApplyConfig(q) \/ Compensate(q)
    BY <2>4, <1>2 DEF ApplyConfig, BeginApply, Compensate, StartRollback, vars
  <2>5. CASE ReleaseOwn(q)
    BY <2>5, <1>3
  <2>. QED
    BY <1>4, <2>1, <2>2, <2>3, <2>4, <2>5 DEF WorkflowStep
<1>5. ASSUME NEW q \in Proc,
             \/ \E r \in Alloc : BeginWorkflow(q, r)
             \/ ConfigStep(q) \/ RollbackBroken(q) \/ UserCommand(q) \/ Kill(q)
      PROVE  flow[p].created
  BY <1>5, <1>1, <1>2 DEF BeginWorkflow, ConfigStep, RollbackBroken, RollbackFailed,
     UserCommand, Kill, vars, wvars
<1>6. CASE \E f \in File : UserEdit(f)
  BY <1>6, <1>1 DEF UserEdit, wvars
<1>. QED
  BY <1>4, <1>5, <1>6 DEF WorkflowNext

(* Compensation gives up an allocation only when this attempt made it:     *)
(* whatever is lost, retried, killed or run by another process             *)
(* (_compensate's created_by_this_attempt).                                *)
THEOREM CompensationReleasesOnlyItsOwn == WorkflowSpec => CompensationOwns
<1>1. WorkflowInit => FlowInv
  BY InitFlow
<1>2. FlowInv /\ [WorkflowNext]_allvars => FlowInv'
  BY StepKeeps
<1>3. FlowInv /\ [WorkflowNext]_allvars => [\A p \in Proc : GivesUp(p) => flow[p].made]_allvars
  <2> SUFFICES ASSUME FlowInv, WorkflowNext, NEW p \in Proc, GivesUp(p)
               PROVE  flow[p].made
    OBVIOUS
  <2>1. Owned(flow[p]) /\ flow[p].pc = "release"
    BY DEF FlowInv, GivesUp
  <2>2. flow[p].created
    BY OnlyReleaseOwn
  <2>. QED
    BY <2>1, <2>2 DEF Owned
<1>. QED
  BY <1>1, <1>2, <1>3, PTL DEF WorkflowSpec, CompensationOwns

-----------------------------------------------------------------------------
(* The config step: types, and what a running command is about.            *)

Names == {BackupName[f] : f \in File}

CfgTypes ==
    /\ disk \in Contents
    /\ latest \in [File -> Text] /\ edits \in Text
    /\ rec \in [Mutation -> Record]
    /\ backup \in [Mutation -> [Names -> Content]]
    /\ proc \in [Proc -> ProcState]

(* A command works on a mutation that has been planned.                    *)
RunningRefs ==
    \A p \in Proc : proc[p].pc # "idle" =>
        /\ proc[p].mut \in Mutation /\ rec[proc[p].mut].status # "none"
        /\ proc[p].result = "none"

CfgInv == CfgTypes /\ RunningRefs

cfg == <<disk, latest, edits, rec, backup, proc>>
project == <<disk, latest, edits, rec, backup>>

(* The steps of one command that leave the project alone.  Carries(p): p   *)
(* goes on with the same mutation.                                         *)
Others(p) ==
    proc' \in [Proc -> ProcState] /\ \A q \in Proc \ {p} : proc'[q] = proc[q]

Carries(p) ==
    /\ proc'[p].mut = proc[p].mut
    /\ proc'[p].orig = proc[p].orig
    /\ proc'[p].result = proc[p].result

Errs(p) ==
    /\ proc'[p].pc = "idle" /\ proc'[p].result = "error"
    /\ aborts' = aborts /\ proc[p].pc \in {"write", "verify", "restore"} =>
          proc[p].pc # "restore" /\ proc[p].written = {}

DoneAlready(p) ==
    /\ proc'[p].pc = "idle" /\ proc'[p].result = "ok"
    /\ \/ proc[p].pc = "check" /\ rec[proc[p].mut].status = "APPLIED"
       \/ proc[p].pc = "idle"

Begins(p, m) ==
    /\ proc[p].pc = "idle" /\ rec[m].status # "none"
    /\ proc'[p].pc \in {"check", "rcheck"}
    /\ proc'[p].mut = m /\ proc'[p].result = "none"
    /\ proc'[p].pc = "rcheck" => rec[m].status = "APPLIED"

Checked(p) ==
    /\ proc[p].pc = "check" /\ proc'[p].pc = "backup"
    /\ Unchanged(rec[proc[p].mut].before) /\ Carries(p)

Proceeds(p) ==
    /\ proc[p].pc \in {"write", "verify"}
    /\ proc'[p].pc \in {"write", "save", "restore"}
    /\ Carries(p) /\ proc'[p].written = proc[p].written

RollbackChecked(p) ==
    /\ proc[p].pc = "rcheck" /\ proc'[p].pc = "rwrite"
    /\ Unchanged(rec[proc[p].mut].after) /\ Carries(p) /\ proc'[p].todo = File

Quiet(p) ==
    /\ Others(p) /\ UNCHANGED project
    /\ \/ Errs(p) \/ DoneAlready(p) \/ Checked(p) \/ Proceeds(p) \/ RollbackChecked(p)
       \/ \E m \in Mutation : Begins(p, m)

(* The steps that write files or records.                                  *)
Writes(p) ==
    \/ BackUp(p) \/ SaveApplied(p) \/ SaveRolledBack(p)
    \/ \E f \in File : WriteFile(p, f) \/ RestoreFile(p, f) \/ RestoreBackup(p, f)

CfgStep ==
    \/ UNCHANGED cfg
    \/ \E f \in File : (\A p \in Proc : proc[p].pc = "idle") /\ Edit(f)
    \/ \E m \in Mutation, a \in Alloc : PersistPlan(m, a)
    \/ \E p \in Proc : Quiet(p) \/ Writes(p)

LEMMA EndedTyped ==
    /\ NoFiles \in Contents
    /\ \A r \in {"none", "ok", "error"} :
          /\ Ended(r) \in ProcState /\ Ended(r).pc = "idle" /\ Ended(r).result = r
<1>1. NoFiles \in Contents
  BY DEF NoFiles, Contents, Content
<1> QED
  BY <1>1 DEF Ended, ProcState

(* An assignment to p's state is one, of a state of the right type.        *)
LEMMA ProcAssigned ==
    ASSUME CfgTypes, NEW p \in Proc, NEW x \in ProcState,
           proc' = [proc EXCEPT ![p] = x]
    PROVE  Others(p) /\ proc'[p] = x
BY DEF CfgTypes, Others

LEMMA GiveUpIs ==
    ASSUME NEW s \in ProcState
    PROVE  /\ GiveUp(s) \in ProcState
           /\ s.written = {} => GiveUp(s) = Ended("error")
           /\ s.written # {} =>
                 /\ GiveUp(s).pc = "restore" /\ GiveUp(s).mut = s.mut
                 /\ GiveUp(s).orig = s.orig /\ GiveUp(s).result = s.result
                 /\ GiveUp(s).written = s.written
<1>1. CASE s.written = {}
  BY <1>1, EndedTyped DEF GiveUp
<1>2. CASE s.written # {}
  <2> DEFINE t == [s EXCEPT !.pc = "restore"]
  <2>1. GiveUp(s) = t
    BY <1>2 DEF GiveUp
  <2>2. /\ t \in ProcState /\ t.pc = "restore" /\ t.mut = s.mut
        /\ t.orig = s.orig /\ t.result = s.result /\ t.written = s.written
    BY DEF ProcState
  <2> QED
    BY <1>2, <2>1, <2>2
<1> QED
  BY <1>1, <1>2

(* The steps of apply and rollback that write nothing are quiet.           *)
LEMMA CheckIsQuiet ==
    ASSUME CfgTypes, NEW p \in Proc, CheckApply(p) \/ CheckRollback(p)
    PROVE  Quiet(p)
<1>1. proc[p] \in ProcState /\ UNCHANGED project
  BY DEF CfgTypes, CheckApply, CheckRollback, project
<1>2. CASE proc' = [proc EXCEPT ![p] = Ended("error")]
  <2>1. Others(p) /\ proc'[p] = Ended("error")
    BY <1>2, EndedTyped, ProcAssigned
  <2>2. Errs(p)
    BY <2>1, EndedTyped DEF Errs, CheckApply, CheckRollback
  <2> QED
    BY <1>1, <2>1, <2>2 DEF Quiet
<1>3. CASE /\ proc' = [proc EXCEPT ![p] = Ended("ok")]
           /\ proc[p].pc = "check" /\ rec[proc[p].mut].status = "APPLIED"
  <2>1. Others(p) /\ proc'[p] = Ended("ok")
    BY <1>3, EndedTyped, ProcAssigned
  <2> QED
    BY <1>1, <1>3, <2>1, EndedTyped DEF Quiet, DoneAlready
<1>4. CASE /\ proc' = [proc EXCEPT ![p] = [proc[p] EXCEPT !.pc = "backup"]]
           /\ proc[p].pc = "check" /\ Unchanged(rec[proc[p].mut].before)
  <2> DEFINE x == [proc[p] EXCEPT !.pc = "backup"]
  <2>1. /\ x \in ProcState /\ x.pc = "backup"
        /\ x.mut = proc[p].mut /\ x.orig = proc[p].orig /\ x.result = proc[p].result
    BY <1>1 DEF ProcState
  <2>2. Others(p) /\ proc'[p] = x
    BY <1>4, <2>1, ProcAssigned
  <2> HIDE DEF x
  <2> QED
    BY <1>1, <1>4, <2>1, <2>2 DEF Quiet, Checked, Carries
<1>5. CASE /\ proc' = [proc EXCEPT ![p] = [proc[p] EXCEPT !.pc = "rwrite", !.todo = File]]
           /\ proc[p].pc = "rcheck" /\ Unchanged(rec[proc[p].mut].after)
  <2> DEFINE x == [proc[p] EXCEPT !.pc = "rwrite", !.todo = File]
  <2>1. /\ x \in ProcState /\ x.pc = "rwrite" /\ x.todo = File
        /\ x.mut = proc[p].mut /\ x.orig = proc[p].orig /\ x.result = proc[p].result
    BY <1>1 DEF ProcState
  <2>2. Others(p) /\ proc'[p] = x
    BY <1>5, <2>1, ProcAssigned
  <2> HIDE DEF x
  <2> QED
    BY <1>1, <1>5, <2>1, <2>2 DEF Quiet, RollbackChecked, Carries
<1>6. CASE CheckApply(p)
  BY <1>2, <1>3, <1>4, <1>6 DEF CheckApply
<1>7. CASE CheckRollback(p)
  BY <1>2, <1>5, <1>7 DEF CheckRollback
<1> QED
  BY <1>6, <1>7

LEMMA FailureIsQuiet ==
    ASSUME CfgTypes, NEW p \in Proc, NEW f \in File, WriteFailed(p) \/ Verify(p, f)
    PROVE  Quiet(p)
<1>1. proc[p] \in ProcState /\ UNCHANGED project /\ proc[p].pc \in {"write", "verify"}
  BY DEF CfgTypes, WriteFailed, Verify, project
<1>2. CASE proc' = [proc EXCEPT ![p] = GiveUp(proc[p])]
  <2>1. Others(p) /\ proc'[p] = GiveUp(proc[p])
    BY <1>1, <1>2, GiveUpIs, ProcAssigned
  <2>2. CASE proc[p].written = {}
    <3>1. proc'[p] = Ended("error")
      BY <1>1, <2>1, <2>2, GiveUpIs
    <3>2. Errs(p)
      BY <1>1, <2>2, <3>1, EndedTyped DEF Errs
    <3> QED
      BY <1>1, <2>1, <3>2 DEF Quiet
  <2>3. CASE proc[p].written # {}
    <3>1. Carries(p) /\ proc'[p].pc = "restore" /\ proc'[p].written = proc[p].written
      BY <1>1, <2>1, <2>3, GiveUpIs DEF Carries
    <3> QED
      BY <1>1, <2>1, <3>1 DEF Quiet, Proceeds
  <2> QED
    BY <2>2, <2>3
<1>3. ASSUME NEW next \in {"save", "write"}, NEW left \in SUBSET File,
             proc' = [proc EXCEPT ![p].pc = next, ![p].todo = left]
      PROVE  Quiet(p)
  <2> DEFINE x == [proc[p] EXCEPT !.pc = next, !.todo = left]
  <2>1. /\ x \in ProcState /\ x.pc = next /\ x.written = proc[p].written
        /\ x.mut = proc[p].mut /\ x.orig = proc[p].orig /\ x.result = proc[p].result
    BY <1>1 DEF ProcState
  <2>2. proc' = [proc EXCEPT ![p] = x]
    BY <1>3
  <2> HIDE DEF x
  <2>3. Others(p) /\ proc'[p] = x
    BY <2>1, <2>2, ProcAssigned
  <2> QED
    BY <1>1, <2>1, <2>3 DEF Quiet, Proceeds, Carries
<1>4. CASE WriteFailed(p)
  BY <1>2, <1>4 DEF WriteFailed
<1>5. CASE Verify(p, f)
  <2>1. proc[p].todo \ {f} \in SUBSET File
    BY <1>1 DEF ProcState
  <2> QED
    BY <1>2, <1>3, <1>5, <2>1 DEF Verify
<1> QED
  BY <1>4, <1>5

LEMMA StartIsQuiet ==
    ASSUME CfgTypes, NEW p \in Proc, NEW m \in Mutation,
           (rec[m].status # "none" /\ BeginApply(p, m)) \/ StartRollback(p, m)
    PROVE  Quiet(p)
<1>1. proc[p].pc = "idle" /\ rec[m].status # "none" /\ UNCHANGED project
  BY DEF BeginApply, StartRollback, project
<1>2. ASSUME NEW next \in {"check", "rcheck"},
             next = "rcheck" => rec[m].status = "APPLIED",
             proc' = [proc EXCEPT ![p] = [Ended("none") EXCEPT !.pc = next, !.mut = m]]
      PROVE  Quiet(p)
  <2> DEFINE x == [Ended("none") EXCEPT !.pc = next, !.mut = m]
  <2>1. x \in ProcState /\ x.pc = next /\ x.mut = m /\ x.result = "none"
    BY EndedTyped DEF ProcState
  <2>2. Others(p) /\ proc'[p] = x
    BY <1>2, <2>1, ProcAssigned
  <2> HIDE DEF x
  <2> QED
    BY <1>1, <1>2, <2>1, <2>2 DEF Quiet, Begins
<1>3. CASE proc' = [proc EXCEPT ![p] = Ended("ok")]
  <2>1. Others(p) /\ proc'[p] = Ended("ok")
    BY <1>3, EndedTyped, ProcAssigned
  <2> QED
    BY <1>1, <2>1, EndedTyped DEF Quiet, DoneAlready
<1>4. CASE proc' = [proc EXCEPT ![p] = Ended("error")]
  <2>1. Others(p) /\ proc'[p] = Ended("error")
    BY <1>4, EndedTyped, ProcAssigned
  <2> QED
    BY <1>1, <2>1, EndedTyped DEF Quiet, Errs
<1>5. CASE BeginApply(p, m)
  BY <1>2, <1>5 DEF BeginApply
<1>6. CASE StartRollback(p, m)
  BY <1>2, <1>3, <1>4, <1>6 DEF StartRollback
<1> QED
  BY <1>5, <1>6

(* A command that is killed, or whose rollback meets an OSError.           *)
LEMMA DropIsQuiet ==
    ASSUME CfgTypes, NEW p \in Proc, UNCHANGED project,
           proc' = [proc EXCEPT ![p] = Ended("error")],
           aborts' # aborts \/ proc[p].pc = "rwrite"
    PROVE  Quiet(p)
<1>1. Others(p) /\ proc'[p] = Ended("error")
  BY EndedTyped, ProcAssigned
<1>2. Errs(p)
  BY <1>1, EndedTyped DEF Errs
<1> QED
  BY <1>1, <1>2 DEF Quiet

(* A step of a running command is one of these two kinds.                  *)
LEMMA ConfigStepIs ==
    ASSUME CfgTypes, NEW p \in Proc, ConfigStep(p)
    PROVE  (Quiet(p) \/ Writes(p)) /\ proc[p].pc # "idle"
<1>1. CASE CheckApply(p) \/ CheckRollback(p)
  BY <1>1, CheckIsQuiet DEF CheckApply, CheckRollback
<1>2. CASE WriteFailed(p) \/ \E f \in File : Verify(p, f)
  <2>1. CASE \E f \in File : TRUE
    BY <1>2, <2>1, FailureIsQuiet DEF WriteFailed, Verify
  <2>2. CASE File = {}
    <3>1. proc[p] \in ProcState /\ WriteFailed(p)
      BY <1>2, <2>2 DEF CfgTypes
    <3>2. proc[p].written = {}
      BY <2>2, <3>1 DEF ProcState
    <3>3. proc' = [proc EXCEPT ![p] = Ended("error")] /\ UNCHANGED project
      BY <3>1, <3>2, GiveUpIs DEF WriteFailed, project
    <3>4. Others(p) /\ proc'[p] = Ended("error")
      BY <3>3, EndedTyped, ProcAssigned
    <3>5. Errs(p)
      BY <3>1, <3>2, <3>4, EndedTyped DEF Errs, WriteFailed
    <3> QED
      BY <3>1, <3>3, <3>4, <3>5 DEF Quiet, WriteFailed
  <2> QED
    BY <2>1, <2>2
<1>3. CASE \/ BackUp(p) \/ SaveApplied(p) \/ SaveRolledBack(p)
           \/ \E f \in File : WriteFile(p, f) \/ RestoreFile(p, f) \/ RestoreBackup(p, f)
  BY <1>3 DEF Writes, BackUp, SaveApplied, SaveRolledBack, WriteFile, RestoreFile, RestoreBackup
<1> QED
  BY <1>1, <1>2, <1>3 DEF ConfigStep, ApplyStep

(* What an attempt knows: the request it runs for and, from the plan on,   *)
(* the mutation planned for it.                                            *)
FlowRef(p) ==
    /\ flow[p].pc # "idle" => flow[p].req \in Alloc
    /\ flow[p].pc \in {"apply", "applying", "applied"} =>
          /\ flow[p].mut \in Mutation
          /\ rec[flow[p].mut].status # "none" /\ rec[flow[p].mut].alloc = flow[p].req

FlowRefs == \A p \in Proc : FlowRef(p)

KnownTypes ==
    active \subseteq known /\ known \subseteq Alloc /\ aborts \in 0..MaxAborts
    /\ wrec \in [Alloc -> WorkflowRecord]

WInv == FlowInv /\ CfgInv /\ FlowRefs /\ KnownTypes

(* Of the project and the commands, a step of the workflow changes no more *)
(* than the config step it takes.                                          *)
LEMMA WorkflowIsCfg ==
    ASSUME WInv, [WorkflowNext]_allvars
    PROVE  CfgStep
<1> USE DEF WInv, CfgInv
<1>1. ASSUME UNCHANGED cfg PROVE CfgStep
  BY <1>1 DEF CfgStep
<1>2. ASSUME NEW p \in Proc, Quiet(p) \/ Writes(p) PROVE CfgStep
  BY <1>2 DEF CfgStep
<1>3. ASSUME NEW p \in Proc, ConfigStep(p) PROVE CfgStep
  BY <1>2, <1>3, ConfigStepIs
<1>4. ASSUME NEW p \in Proc, WorkflowStep(p) PROVE CfgStep
  <2>1. CASE PlanConfig(p)
    <3>1. flow[p].req \in Alloc
      BY <2>1 DEF PlanConfig, FlowRefs, FlowRef
    <3> QED
      BY <2>1, <3>1 DEF PlanConfig, CfgStep, Fresh
  <2>2. CASE ApplyConfig(p)
    <3>1. flow[p].mut \in Mutation /\ rec[flow[p].mut].status # "none"
      BY <2>2 DEF ApplyConfig, Go, FlowRefs, FlowRef
    <3> QED
      BY <1>2, <2>2, <3>1, StartIsQuiet DEF ApplyConfig
  <2>3. CASE Compensate(p)
    <3>1. flow[p] \in FlowState
      BY DEF FlowInv
    <3>2. CASE UNCHANGED vars
      BY <1>1, <3>2 DEF vars, cfg
    <3>3. CASE flow[p].mut # NoMutation /\ StartRollback(p, flow[p].mut)
      <4>1. flow[p].mut \in Mutation
        BY <3>1, <3>3 DEF FlowState
      <4> QED
        BY <1>2, <3>3, <4>1, StartIsQuiet
    <3> QED
      BY <2>3, <3>2, <3>3 DEF Compensate
  <2>4. ASSUME ~PlanConfig(p), ~ApplyConfig(p), ~Compensate(p)
        PROVE  UNCHANGED cfg
    BY <1>4, <2>4
       DEF WorkflowStep, CreateAllocation, AllocationRefused, SaveRefused, SaveInactive,
           SaveAllocated, PlanRefused, ConfigApplied, ConfigFailed, SaveWorkflowApplied,
           ReleaseOwn, KeepAllocation, SaveFailed, vars, cfg
  <2> QED
    BY <1>1, <2>1, <2>2, <2>3, <2>4
<1>5. ASSUME NEW p \in Proc, UserCommand(p) PROVE CfgStep
  <2>1. CASE \E m \in Fresh, a \in WithConfig : Plan(m, a)
    BY <2>1, WithConfigAssumption DEF CfgStep, Plan, Fresh
  <2>2. CASE \E a \in active : \E m \in LatestPlanned(a) : StartApply(p, m)
    <3>1. PICK m \in Mutation : rec[m].status = "PLANNED" /\ BeginApply(p, m)
      BY <2>2 DEF LatestPlanned, StartApply
    <3> QED
      BY <1>2, <3>1, StartIsQuiet
  <2>3. CASE \E m \in Mutation : StartRollback(p, m)
    BY <1>2, <2>3, StartIsQuiet
  <2>4. CASE \E a \in active : ReleaseAllocation(a)
    BY <1>1, <2>4 DEF ReleaseAllocation, cfg
  <2> QED
    BY <1>5, <2>1, <2>2, <2>3, <2>4 DEF UserCommand
<1>6. ASSUME NEW p \in Proc, RollbackBroken(p) \/ Kill(p) PROVE CfgStep
  <2>1. RollbackBroken(p) => Quiet(p)
    BY DropIsQuiet DEF RollbackBroken, RollbackFailed, project
  <2>2. Kill(p) => Quiet(p)
    <3>1. aborts \in Nat
      BY BoundAssumption DEF KnownTypes
    <3>2. Kill(p) => aborts' # aborts
      BY <3>1 DEF Kill
    <3> QED
      BY <3>2, DropIsQuiet DEF Kill, project
  <2> QED
    BY <1>2, <1>6, <2>1, <2>2
<1>7. CASE \E f \in File : UserEdit(f)
  BY <1>7 DEF UserEdit, Free, CfgStep
<1>8. ASSUME NEW p \in Proc, NEW r \in Alloc, BeginWorkflow(p, r) PROVE UNCHANGED cfg
  BY <1>8 DEF BeginWorkflow, vars, cfg
<1>9. CASE UNCHANGED allvars
  BY <1>1, <1>9 DEF allvars, vars, cfg
<1> QED
  BY <1>1, <1>3, <1>4, <1>5, <1>6, <1>7, <1>8, <1>9 DEF WorkflowNext

-----------------------------------------------------------------------------
(* What each writing step does, field by field.                            *)

LEMMA AbsentIs == \A c \in [text : Text, port : Alloc \cup {NoAlloc}] : c # Absent
BY AbsentAssumption, BoundAssumption DEF Text

LEMMA PlannedTyped ==
    ASSUME CfgTypes, NEW m \in Mutation, NEW f \in File
    PROVE  /\ Planned(m, f) \in Content /\ Planned(m, f) # Absent
           /\ Planned(m, f).port = rec[m].alloc
           /\ Planned(m, f).text = IF rec[m].before[f] = Absent THEN 0
                                   ELSE rec[m].before[f].text
<1> DEFINE c == rec[m].before[f]
<1>1. c \in Content /\ rec[m].alloc \in Alloc \cup {NoAlloc}
  BY DEF CfgTypes, Record, Contents
<1>2. Planned(m, f) = [text |-> IF c = Absent THEN 0 ELSE c.text, port |-> rec[m].alloc]
  BY DEF Planned, Rendered
<1>3. 0 \in Text /\ (c # Absent => c.text \in Text)
  BY <1>1, BoundAssumption DEF Content, Text
<1> HIDE DEF c
<1>4. Planned(m, f) \in [text : Text, port : Alloc \cup {NoAlloc}]
  BY <1>1, <1>2, <1>3
<1> QED
  BY <1>2, <1>4, AbsentIs DEF Content, c

LEMMA BackUpDoes ==
    ASSUME CfgInv, NEW p \in Proc, BackUp(p)
    PROVE  LET m == proc[p].mut IN
           /\ Others(p) /\ UNCHANGED <<disk, latest, edits, rec>>
           /\ proc[p].pc = "backup" /\ proc'[p].pc = "write"
           /\ proc'[p].mut = m /\ proc'[p].orig = disk
           /\ proc'[p].result = proc[p].result
           /\ backup' \in [Mutation -> [Names -> Content]]
           /\ \A k \in Mutation \ {m} : backup'[k] = backup[k]
           /\ \A n \in Names :
                 \/ \E f \in File : /\ BackupName[f] = n /\ disk[f] # Absent
                                    /\ backup'[m][n] = disk[f]
                 \/ /\ \A f \in File : BackupName[f] = n => disk[f] = Absent
                    /\ backup'[m][n] = backup[m][n]
<1> DEFINE m == proc[p].mut
           x == [proc[p] EXCEPT !.pc = "write", !.orig = disk, !.todo = File]
           KeptAs(n) == {f \in File : BackupName[f] = n /\ disk[f] # Absent}
           copy == [n \in Names |-> IF KeptAs(n) # {}
                                    THEN disk[CHOOSE f \in File : BackupName[f] = n
                                                                 /\ disk[f] # Absent]
                                    ELSE backup[m][n]]
<1>1. /\ proc[p] \in ProcState /\ disk \in Contents /\ m \in Mutation
      /\ proc[p].pc = "backup" /\ UNCHANGED <<disk, latest, edits, rec>>
  BY DEF CfgInv, CfgTypes, RunningRefs, BackUp
<1>2. /\ x \in ProcState /\ x.pc = "write" /\ x.mut = m /\ x.orig = disk
      /\ x.result = proc[p].result
  BY <1>1 DEF ProcState
<1>3. Others(p) /\ proc'[p] = x
  <2>1. proc' = [proc EXCEPT ![p] = x]
    BY DEF BackUp
  <2> HIDE DEF x
  <2> QED
    BY <1>2, <2>1, ProcAssigned DEF CfgInv
<1>4. \A n \in Names :
        \/ \E f \in File : BackupName[f] = n /\ disk[f] # Absent /\ copy[n] = disk[f]
        \/ (\A f \in File : BackupName[f] = n => disk[f] = Absent) /\ copy[n] = backup[m][n]
  OBVIOUS
<1>5. backup \in [Mutation -> [Names -> Content]] /\ \A f \in File : disk[f] \in Content
  BY <1>1 DEF CfgInv, CfgTypes, Contents
<1>6. copy \in [Names -> Content]
  <2>1. \A n \in Names : copy[n] \in Content
    BY <1>1, <1>4, <1>5
  <2> QED
    BY <2>1
<1>7. backup' = [backup EXCEPT ![m] = copy]
  <2>1. DOMAIN backup[m] = Names
    BY <1>1, <1>5
  <2>2. \A n \in Names : (\E f \in File : BackupName[f] = n /\ disk[f] # Absent) <=> KeptAs(n) # {}
    OBVIOUS
  <2>3. copy = [n \in Names |-> IF \E f \in File : BackupName[f] = n /\ disk[f] # Absent
                                THEN disk[CHOOSE f \in File : BackupName[f] = n
                                                              /\ disk[f] # Absent]
                                ELSE backup[m][n]]
    BY <2>2
  <2> HIDE DEF copy
  <2> QED
    BY <2>1, <2>3 DEF BackUp
<1> HIDE DEF copy, x
<1> QED
  BY <1>1, <1>2, <1>3, <1>4, <1>5, <1>6, <1>7

LEMMA WriteFileDoes ==
    ASSUME CfgInv, NEW p \in Proc, NEW f \in File, WriteFile(p, f)
    PROVE  /\ Others(p) /\ UNCHANGED <<latest, edits, rec, backup>>
           /\ proc[p].pc = "write" /\ proc'[p].pc = "verify" /\ Carries(p)
           /\ proc'[p].written = proc[p].written \cup {f}
           /\ disk' = [disk EXCEPT ![f] = Planned(proc[p].mut, f)]
           /\ disk' \in Contents
<1> DEFINE x == [proc[p] EXCEPT !.pc = "verify", !.written = proc[p].written \cup {f}]
<1>1. /\ proc[p] \in ProcState /\ disk \in Contents /\ proc[p].mut \in Mutation
      /\ proc[p].pc = "write" /\ UNCHANGED <<latest, edits, rec, backup>>
      /\ disk' = [disk EXCEPT ![f] = Planned(proc[p].mut, f)]
  BY DEF CfgInv, CfgTypes, RunningRefs, WriteFile
<1>2. /\ x \in ProcState /\ x.pc = "verify" /\ x.mut = proc[p].mut
      /\ x.orig = proc[p].orig /\ x.result = proc[p].result
      /\ x.written = proc[p].written \cup {f}
  BY <1>1 DEF ProcState
<1>3. Others(p) /\ proc'[p] = x
  <2>1. proc' = [proc EXCEPT ![p] = x]
    BY DEF WriteFile
  <2> HIDE DEF x
  <2> QED
    BY <1>2, <2>1, ProcAssigned DEF CfgInv
<1>4. disk' \in Contents
  <2>1. Planned(proc[p].mut, f) \in Content
    BY <1>1, PlannedTyped DEF CfgInv
  <2> QED
    BY <1>1, <2>1 DEF Contents
<1> QED
  BY <1>1, <1>2, <1>3, <1>4 DEF Carries

LEMMA RestoreFileDoes ==
    ASSUME CfgInv, NEW p \in Proc, NEW f \in File, RestoreFile(p, f)
    PROVE  /\ Others(p) /\ UNCHANGED <<latest, edits, rec, backup>>
           /\ proc[p].pc = "restore"
           /\ \/ /\ proc'[p].pc = "idle" /\ proc'[p].result = "error"
                 /\ proc[p].written \ {f} = {}
              \/ /\ proc'[p].pc = "restore" /\ Carries(p)
                 /\ proc'[p].written = proc[p].written \ {f}
           /\ disk' = [disk EXCEPT ![f] = proc[p].orig[f]]
           /\ disk' \in Contents
<1> DEFINE y == [proc[p] EXCEPT !.written = proc[p].written \ {f}]
<1>1. /\ proc[p] \in ProcState /\ disk \in Contents
      /\ proc[p].pc = "restore" /\ UNCHANGED <<latest, edits, rec, backup>>
      /\ disk' = [disk EXCEPT ![f] = proc[p].orig[f]]
  BY DEF CfgInv, CfgTypes, RestoreFile
<1>2. /\ y \in ProcState /\ y.mut = proc[p].mut
      /\ y.orig = proc[p].orig /\ y.result = proc[p].result
      /\ y.written = proc[p].written \ {f}
  BY <1>1 DEF ProcState
<1>3. proc' = [proc EXCEPT ![p] = GiveUp(y)]
  BY DEF RestoreFile
<1> HIDE DEF y
<1>4. Others(p) /\ proc'[p] = GiveUp(y)
  BY <1>2, <1>3, GiveUpIs, ProcAssigned DEF CfgInv
<1>5. \/ /\ proc'[p].pc = "idle" /\ proc'[p].result = "error"
         /\ proc[p].written \ {f} = {}
      \/ /\ proc'[p].pc = "restore" /\ Carries(p)
         /\ proc'[p].written = proc[p].written \ {f}
  BY <1>2, <1>4, GiveUpIs, EndedTyped DEF Carries
<1>6. disk' \in Contents
  BY <1>1 DEF ProcState, Contents
<1> QED
  BY <1>1, <1>4, <1>5, <1>6

LEMMA RestoreBackupDoes ==
    ASSUME CfgInv, NEW p \in Proc, NEW f \in File, RestoreBackup(p, f)
    PROVE  /\ Others(p) /\ UNCHANGED <<latest, edits, rec, backup>>
           /\ proc[p].pc = "rwrite" /\ Carries(p)
           /\ proc'[p].todo = proc[p].todo \ {f}
           /\ proc'[p].pc = IF proc[p].todo = {f} THEN "rsave" ELSE "rwrite"
           /\ disk' = [disk EXCEPT ![f] = backup[proc[p].mut][BackupName[f]]]
           /\ disk' \in Contents
<1> DEFINE next == IF proc[p].todo = {f} THEN "rsave" ELSE proc[p].pc
           x == [proc[p] EXCEPT !.todo = proc[p].todo \ {f}, !.pc = next]
<1>1. /\ proc[p] \in ProcState /\ disk \in Contents /\ proc[p].mut \in Mutation
      /\ proc[p].pc = "rwrite" /\ UNCHANGED <<latest, edits, rec, backup>>
      /\ disk' = [disk EXCEPT ![f] = backup[proc[p].mut][BackupName[f]]]
  BY DEF CfgInv, CfgTypes, RunningRefs, RestoreBackup
<1>2. /\ x \in ProcState /\ x.pc = next /\ x.mut = proc[p].mut
      /\ x.orig = proc[p].orig /\ x.result = proc[p].result
      /\ x.todo = proc[p].todo \ {f}
  BY <1>1 DEF ProcState
<1>3. Others(p) /\ proc'[p] = x
  <2>1. proc' = [proc EXCEPT ![p] = x]
    BY DEF RestoreBackup
  <2> HIDE DEF x
  <2> QED
    BY <1>2, <2>1, ProcAssigned DEF CfgInv
<1>4. disk' \in Contents
  <2>1. backup[proc[p].mut][BackupName[f]] \in Content
    BY <1>1 DEF CfgInv, CfgTypes, Names
  <2> QED
    BY <1>1, <2>1 DEF Contents
<1> QED
  BY <1>1, <1>2, <1>3, <1>4 DEF Carries

LEMMA SaveDoes ==
    ASSUME CfgInv, NEW p \in Proc, SaveApplied(p) \/ SaveRolledBack(p)
    PROVE  LET m == proc[p].mut IN
           /\ Others(p) /\ UNCHANGED <<disk, latest, edits, backup>>
           /\ proc'[p].pc = "idle" /\ proc'[p].result = "ok"
           /\ rec' \in [Mutation -> Record]
           /\ \A k \in Mutation \ {m} : rec'[k] = rec[k]
           /\ rec'[m].alloc = rec[m].alloc /\ rec'[m].before = rec[m].before
           /\ \/ /\ proc[p].pc = "save" /\ rec'[m].status = "APPLIED"
                 /\ \A f \in File : rec'[m].after[f] = Planned(m, f)
              \/ /\ proc[p].pc = "rsave" /\ rec'[m].status = "ROLLED_BACK"
                 /\ rec'[m].after = rec[m].after
<1> DEFINE m == proc[p].mut
           planned == [f \in File |-> Planned(m, f)]
<1>1. /\ m \in Mutation /\ rec \in [Mutation -> Record] /\ rec[m] \in Record
      /\ UNCHANGED <<disk, latest, edits, backup>>
  BY DEF CfgInv, CfgTypes, RunningRefs, SaveApplied, SaveRolledBack
<1>2. Others(p) /\ proc'[p] = Ended("ok")
  BY EndedTyped, ProcAssigned DEF CfgInv, SaveApplied, SaveRolledBack
<1>3. planned \in Contents /\ \A f \in File : planned[f] = Planned(m, f)
  BY <1>1, PlannedTyped DEF CfgInv, Contents
<1> HIDE DEF planned
<1>4. CASE SaveApplied(p)
  <2> DEFINE x == [rec[m] EXCEPT !.status = "APPLIED", !.after = planned]
  <2>1. rec' = [rec EXCEPT ![m] = x] /\ proc[p].pc = "save"
    BY <1>1, <1>4 DEF SaveApplied, planned
  <2>2. /\ x \in Record /\ x.status = "APPLIED" /\ x.after = planned
        /\ x.alloc = rec[m].alloc /\ x.before = rec[m].before
    BY <1>1, <1>3 DEF Record
  <2> HIDE DEF x
  <2> QED
    BY <1>1, <1>2, <1>3, <2>1, <2>2, EndedTyped
<1>5. CASE SaveRolledBack(p)
  <2> DEFINE x == [rec[m] EXCEPT !.status = "ROLLED_BACK"]
  <2>1. rec' = [rec EXCEPT ![m] = x] /\ proc[p].pc = "rsave"
    BY <1>1, <1>5 DEF SaveRolledBack
  <2>2. /\ x \in Record /\ x.status = "ROLLED_BACK" /\ x.after = rec[m].after
        /\ x.alloc = rec[m].alloc /\ x.before = rec[m].before
    BY <1>1 DEF Record
  <2> HIDE DEF x
  <2> QED
    BY <1>1, <1>2, <2>1, <2>2, EndedTyped
<1> QED
  BY <1>4, <1>5

LEMMA PersistDoes ==
    ASSUME CfgTypes, NEW m \in Mutation, NEW a \in Alloc, PersistPlan(m, a)
    PROVE  /\ UNCHANGED <<disk, latest, edits, backup, proc>>
           /\ rec' \in [Mutation -> Record] /\ rec[m].status = "none"
           /\ \A k \in Mutation \ {m} : rec'[k] = rec[k]
           /\ rec'[m].status = "PLANNED" /\ rec'[m].alloc = a /\ rec'[m].before = disk
<1>1. [status |-> "PLANNED", alloc |-> a, before |-> disk, after |-> NoFiles] \in Record
  BY EndedTyped DEF CfgTypes, Record
<1> QED
  BY <1>1 DEF CfgTypes, PersistPlan, Fresh

LEMMA EditDoes ==
    ASSUME CfgTypes, NEW f \in File, Edit(f)
    PROVE  /\ UNCHANGED <<rec, backup, proc>>
           /\ disk' \in Contents /\ latest' \in [File -> Text] /\ edits' \in Text
           /\ \A g \in File \ {f} : disk'[g] = disk[g] /\ latest'[g] = latest[g]
           /\ disk'[f] # Absent /\ disk'[f].text = latest'[f]
           /\ disk'[f].port = IF disk[f] = Absent THEN NoAlloc ELSE disk[f].port
<1> DEFINE x == [text |-> edits + 1, port |-> IF disk[f] = Absent THEN NoAlloc ELSE disk[f].port]
<1>1. edits + 1 \in Text
  BY BoundAssumption DEF CfgTypes, Edit, Text
<1>2. x \in [text : Text, port : Alloc \cup {NoAlloc}]
  BY <1>1 DEF CfgTypes, Contents, Content
<1>3. x \in Content /\ x # Absent
  BY <1>2, AbsentIs DEF Content
<1> QED
  BY <1>1, <1>3 DEF CfgTypes, Contents, Edit

-----------------------------------------------------------------------------
(* Records only advance: one that exists keeps its allocation and what it  *)
(* recorded of the files, and one that has been applied stays applied or   *)
(* is rolled back.                                                         *)
Done(m) == rec[m].status \in {"APPLIED", "ROLLED_BACK"}

Advance ==
    \A m \in Mutation : rec[m].status # "none" =>
        /\ rec'[m].status # "none"
        /\ rec'[m].alloc = rec[m].alloc /\ rec'[m].before = rec[m].before
        /\ Done(m) => Done(m)'

LEMMA WritesAdvance ==
    ASSUME CfgInv, NEW p \in Proc, Writes(p)
    PROVE  /\ Others(p) /\ Advance
           /\ UNCHANGED <<latest, edits>>
           /\ disk' \in Contents /\ rec' \in [Mutation -> Record]
           /\ backup' \in [Mutation -> [Names -> Content]]
           /\ \/ proc'[p].pc = "idle"
              \/ proc'[p].mut = proc[p].mut /\ proc'[p].result = proc[p].result
           /\ proc[p].pc # "idle"
<1> USE DEF CfgInv, CfgTypes
<1>1. CASE BackUp(p)
  <2>1. UNCHANGED rec => Advance
    BY DEF Advance, Done
  <2> QED
    BY <1>1, <2>1, BackUpDoes
<1>2. CASE SaveApplied(p) \/ SaveRolledBack(p)
  <2> DEFINE m == proc[p].mut
  <2>1. /\ Others(p) /\ UNCHANGED <<disk, latest, edits, backup>> /\ proc'[p].pc = "idle"
        /\ rec' \in [Mutation -> Record]
        /\ \A k \in Mutation \ {m} : rec'[k] = rec[k]
        /\ rec'[m].alloc = rec[m].alloc /\ rec'[m].before = rec[m].before
        /\ rec'[m].status \in {"APPLIED", "ROLLED_BACK"} /\ proc[p].pc # "idle"
    BY <1>2, SaveDoes
  <2>2. Advance
    BY <2>1 DEF Advance, Done
  <2> QED
    BY <2>1, <2>2
<1>3. ASSUME NEW f \in File, WriteFile(p, f)
      PROVE  /\ Others(p) /\ UNCHANGED <<latest, edits, rec, backup>>
             /\ disk' \in Contents /\ Carries(p) /\ proc[p].pc # "idle"
  BY <1>3, WriteFileDoes
<1>4. ASSUME NEW f \in File, RestoreFile(p, f)
      PROVE  /\ Others(p) /\ UNCHANGED <<latest, edits, rec, backup>>
             /\ disk' \in Contents /\ (proc'[p].pc = "idle" \/ Carries(p))
             /\ proc[p].pc # "idle"
  BY <1>4, RestoreFileDoes
<1>5. ASSUME NEW f \in File, RestoreBackup(p, f)
      PROVE  /\ Others(p) /\ UNCHANGED <<latest, edits, rec, backup>>
             /\ disk' \in Contents /\ Carries(p) /\ proc[p].pc # "idle"
  BY <1>5, RestoreBackupDoes
<1>6. UNCHANGED rec => Advance
  BY DEF Advance, Done
<1> QED
  BY <1>1, <1>2, <1>3, <1>4, <1>5, <1>6 DEF Writes, Carries

(* A quiet step goes on with the mutation it has, takes one up, or ends.   *)
LEMMA QuietGoesOn ==
    ASSUME NEW p \in Proc, Quiet(p)
    PROVE  /\ Others(p) /\ UNCHANGED project
           /\ \/ proc'[p].pc = "idle"
              \/ /\ proc'[p].mut = proc[p].mut /\ proc'[p].result = proc[p].result
                 /\ proc[p].pc # "idle"
              \/ \E m \in Mutation : Begins(p, m)
BY DEF Quiet, Errs, DoneAlready, Checked, Proceeds, RollbackChecked, Carries

LEMMA CfgKept ==
    ASSUME CfgInv, CfgStep
    PROVE  CfgInv' /\ Advance
<1>0. UNCHANGED rec => Advance
  BY DEF Advance, Done
<1>1. CASE UNCHANGED cfg
  BY <1>0, <1>1 DEF CfgInv, CfgTypes, RunningRefs, cfg
<1>2. ASSUME NEW f \in File, Edit(f) PROVE CfgInv' /\ Advance
  BY <1>0, <1>2, EditDoes DEF CfgInv, CfgTypes, RunningRefs
<1>3. ASSUME NEW m \in Mutation, NEW a \in Alloc, PersistPlan(m, a)
      PROVE  CfgInv' /\ Advance
  <2>1. /\ UNCHANGED <<disk, latest, edits, backup, proc>>
        /\ rec' \in [Mutation -> Record] /\ rec[m].status = "none"
        /\ \A k \in Mutation \ {m} : rec'[k] = rec[k]
        /\ rec'[m].status = "PLANNED"
    BY <1>3, PersistDoes DEF CfgInv
  <2>2. Advance
    BY <2>1 DEF Advance, Done
  <2>3. CfgTypes'
    BY <2>1 DEF CfgInv, CfgTypes
  <2>4. RunningRefs'
    BY <2>1 DEF CfgInv, RunningRefs
  <2> QED
    BY <2>2, <2>3, <2>4 DEF CfgInv
<1>4. ASSUME NEW p \in Proc, Quiet(p) PROVE CfgInv' /\ Advance
  <2>1. Others(p) /\ UNCHANGED project
    BY <1>4, QuietGoesOn
  <2>2. CfgTypes' /\ Advance
    BY <1>0, <2>1 DEF CfgInv, CfgTypes, Others, project
  <2>3. RunningRefs'
    BY <1>4, <2>1, QuietGoesOn DEF CfgInv, RunningRefs, Begins, Others, project
  <2> QED
    BY <2>2, <2>3 DEF CfgInv
<1>5. ASSUME NEW p \in Proc, Writes(p) PROVE CfgInv' /\ Advance
  <2>1. /\ Others(p) /\ Advance /\ CfgTypes'
        /\ \/ proc'[p].pc = "idle"
           \/ proc'[p].mut = proc[p].mut /\ proc'[p].result = proc[p].result
        /\ proc[p].pc # "idle"
    BY <1>5, WritesAdvance DEF CfgInv, CfgTypes, Others
  <2>2. RunningRefs'
    BY <2>1 DEF CfgInv, RunningRefs, Others, Advance
  <2> QED
    BY <2>1, <2>2 DEF CfgInv
<1> QED
  BY <1>1, <1>2, <1>3, <1>4, <1>5 DEF CfgStep

-----------------------------------------------------------------------------
(* Types of the workflow.                                                  *)

(* How an attempt moves: to an end, or on to a phase whose mutation, where *)
(* it has one, is the one planned for its request.                         *)
LEMMA FlowRefOn ==
    ASSUME NEW p \in Proc, FlowRef(p), Advance, flow'[p] = flow[p]
    PROVE  FlowRef(p)'
BY DEF FlowRef, Advance

LEMMA NoFlowRef ==
    ASSUME NEW p \in Proc, flow'[p] = NoFlow
    PROVE  FlowRef(p)'
BY DEF FlowRef, NoFlow

LEMMA FlowRefGo ==
    ASSUME FlowInv, NEW p \in Proc, FlowRef(p), Advance, NEW pc, NEW next, Go(p, pc, next),
           pc # "idle",
           next \in {"apply", "applying", "applied"} => pc \in {"apply", "applying"}
    PROVE  FlowRef(p)'
<1>1. /\ flow'[p].pc = next /\ flow'[p].req = flow[p].req /\ flow'[p].mut = flow[p].mut
      /\ flow[p].pc = pc
  BY DEF FlowInv, Go, FlowState
<1> QED
  BY <1>1 DEF FlowRef, Advance

(* Who does not take the step keeps its attempt.                           *)
Acts(p) ==
    \/ \E r \in Alloc : BeginWorkflow(p, r)
    \/ WorkflowStep(p) \/ ConfigStep(p) \/ RollbackBroken(p) \/ UserCommand(p) \/ Kill(p)

LEMMA ElsewhereFlow ==
    ASSUME FlowInv, NEW p \in Proc, NEW q \in Proc \ {p}, Acts(p)
    PROVE  flow'[q] = flow[q]
<1>1. flow \in [Proc -> FlowState]
  BY DEF FlowInv
<1>2. ASSUME NEW pc, NEW next, Go(p, pc, next) PROVE flow'[q] = flow[q]
  BY <1>1, <1>2 DEF Go
<1>3. ASSUME WorkflowStep(p) PROVE flow'[q] = flow[q]
  <2>1. CASE CreateAllocation(p) \/ SaveAllocated(p) \/ PlanConfig(p)
    BY <1>1, <2>1 DEF CreateAllocation, SaveAllocated, PlanConfig
  <2>2. CASE SaveRefused(p) \/ SaveInactive(p) \/ SaveWorkflowApplied(p) \/ SaveFailed(p)
    BY <1>1, <2>2 DEF SaveRefused, SaveInactive, SaveWorkflowApplied, SaveFailed, Finish
  <2>3. CASE \/ AllocationRefused(p) \/ PlanRefused(p) \/ ApplyConfig(p)
             \/ ConfigApplied(p) \/ ConfigFailed(p) \/ Compensate(p)
             \/ ReleaseOwn(p) \/ KeepAllocation(p)
    BY <1>2, <2>3 DEF AllocationRefused, PlanRefused, ApplyConfig, ConfigApplied,
                      ConfigFailed, Compensate, ReleaseOwn, KeepAllocation
  <2> QED
    BY <1>3, <2>1, <2>2, <2>3 DEF WorkflowStep
<1> QED
  BY <1>1, <1>3 DEF Acts, BeginWorkflow, ConfigStep, RollbackBroken, UserCommand, Kill, wvars

LEMMA FlowRefKept ==
    ASSUME WInv, Advance, NEW p \in Proc, Acts(p)
    PROVE  FlowRef(p)'
<1>0. FlowInv /\ FlowRef(p) /\ flow \in [Proc -> FlowState]
  BY DEF WInv, FlowRefs, FlowInv
<1>1. CASE \E r \in Alloc : BeginWorkflow(p, r)
  <2>1. PICK r \in Alloc : flow'[p] = [NoFlow EXCEPT !.pc = "create", !.req = r,
                                                     !.created = ~wrec[r].allocated]
    BY <1>0, <1>1 DEF BeginWorkflow
  <2> QED
    BY <2>1 DEF FlowRef, NoFlow
<1>2. CASE CreateAllocation(p)
  <2>1. flow[p].pc = "create" /\ flow[p].req \in Alloc /\ flow[p] \in FlowState
    BY <1>0, <1>2 DEF CreateAllocation, FlowRef
  <2>2. flow'[p] = Answered(flow[p]) \/ flow'[p] = [flow[p] EXCEPT !.pc = "refused"]
    BY <1>0, <1>2 DEF CreateAllocation
  <2>3. /\ flow'[p].req = flow[p].req
        /\ flow'[p].pc \in {"inactive", "allocated", "refused"}
    BY <2>1, <2>2 DEF Answered, FlowState
  <2> QED
    BY <2>1, <2>3 DEF FlowRef
<1>3. CASE SaveRefused(p) \/ SaveInactive(p) \/ SaveWorkflowApplied(p) \/ SaveFailed(p)
  BY <1>0, <1>3, NoFlowRef DEF SaveRefused, SaveInactive, SaveWorkflowApplied, SaveFailed, Finish
<1>4. CASE SaveAllocated(p)
  <2>1. CASE flow[p].req \in WithConfig
    <3>1. Go(p, "allocated", "plan")
      BY <1>4, <2>1 DEF SaveAllocated, Go
    <3> QED
      BY <1>0, <3>1, FlowRefGo
  <2>2. CASE flow[p].req \notin WithConfig
    BY <1>0, <1>4, <2>2, NoFlowRef DEF SaveAllocated
  <2> QED
    BY <2>1, <2>2
<1>5. CASE PlanConfig(p)
  <2>1. PICK m \in Mutation : /\ PersistPlan(m, flow[p].req)
                              /\ flow' = [flow EXCEPT ![p].pc = "apply", ![p].mut = m]
    BY <1>5 DEF PlanConfig, Fresh
  <2>2. flow[p].req \in Alloc
    BY <1>0, <1>5 DEF PlanConfig, FlowRef
  <2>3. /\ flow'[p].pc = "apply" /\ flow'[p].mut = m /\ flow'[p].req = flow[p].req
    BY <1>0, <2>1 DEF FlowState
  <2>4. rec'[m].status = "PLANNED" /\ rec'[m].alloc = flow[p].req
    BY <2>1, <2>2, PersistDoes DEF WInv, CfgInv
  <2> QED
    BY <2>2, <2>3, <2>4 DEF FlowRef
<1>6. ASSUME NEW pc \in {"create", "plan", "apply", "applying", "compensate", "release"},
             NEW next \in {"refused", "applying", "applied", "compensate", "release", "failed"},
             Go(p, pc, next),
             next \in {"applying", "applied"} => pc \in {"apply", "applying"}
      PROVE  FlowRef(p)'
  BY <1>0, <1>6, FlowRefGo
<1>7. CASE \/ AllocationRefused(p) \/ PlanRefused(p) \/ ApplyConfig(p)
           \/ ConfigApplied(p) \/ ConfigFailed(p) \/ Compensate(p)
           \/ ReleaseOwn(p) \/ KeepAllocation(p)
  BY <1>6, <1>7 DEF AllocationRefused, PlanRefused, ApplyConfig, ConfigApplied,
                    ConfigFailed, Compensate, ReleaseOwn, KeepAllocation
<1>8. CASE ConfigStep(p) \/ UserCommand(p)
  BY <1>0, <1>8, FlowRefOn DEF ConfigStep, UserCommand, wvars
<1>9. CASE RollbackBroken(p) \/ Kill(p)
  BY <1>0, <1>9, NoFlowRef DEF RollbackBroken, Kill
<1> QED
  BY <1>1, <1>2, <1>3, <1>4, <1>5, <1>7, <1>8, <1>9 DEF Acts, WorkflowStep

(* The records of the requests, and what Central has.                      *)
LEMMA KnownKept ==
    ASSUME WInv, [WorkflowNext]_allvars
    PROVE  KnownTypes'
<1> USE DEF WInv, KnownTypes
<1>1. ASSUME UNCHANGED <<active, known, aborts, wrec>> PROVE KnownTypes'
  BY <1>1
<1>2. ASSUME NEW p \in Proc, WorkflowStep(p) PROVE KnownTypes'
  <2>0. flow[p] \in FlowState /\ (flow[p].pc # "idle" => flow[p].req \in Alloc)
    BY DEF FlowInv, FlowRefs, FlowRef
  <2>1. CASE CreateAllocation(p)
    BY <2>0, <2>1 DEF CreateAllocation
  <2>2. ASSUME NEW pc, NEW st \in {"FAILED", "APPLIED"}, NEW b \in BOOLEAN,
               NEW m \in Mutation \cup {NoMutation}, Finish(p, pc, st, b, m),
               UNCHANGED <<active, known, aborts>>
        PROVE  KnownTypes'
    BY <2>2 DEF Finish, WorkflowRecord
  <2>3. CASE SaveRefused(p) \/ SaveInactive(p) \/ SaveWorkflowApplied(p) \/ SaveFailed(p)
    <3>1. flow[p].mut \in Mutation \cup {NoMutation}
      BY <2>0 DEF FlowState
    <3> QED
      BY <2>2, <2>3, <3>1
         DEF SaveRefused, SaveInactive, SaveWorkflowApplied, SaveFailed, vars
  <2>4. CASE SaveAllocated(p)
    BY <2>4 DEF SaveAllocated, WorkflowRecord, vars
  <2>5. CASE PlanConfig(p)
    BY <1>1, <2>5 DEF PlanConfig, PersistPlan
  <2>6. CASE ReleaseOwn(p)
    BY <2>6 DEF ReleaseOwn
  <2>7. CASE \/ AllocationRefused(p) \/ PlanRefused(p) \/ ApplyConfig(p)
             \/ ConfigApplied(p) \/ ConfigFailed(p) \/ Compensate(p) \/ KeepAllocation(p)
    BY <1>1, <2>7 DEF AllocationRefused, PlanRefused, ApplyConfig, BeginApply, ConfigApplied,
                      ConfigFailed, Compensate, StartRollback, KeepAllocation, vars
  <2> QED
    BY <1>2, <2>1, <2>3, <2>4, <2>5, <2>6, <2>7 DEF WorkflowStep
<1>3. ASSUME NEW p \in Proc, ConfigStep(p) PROVE KnownTypes'
  BY <1>1, <1>3
     DEF ConfigStep, ApplyStep, CheckApply, BackUp, WriteFailed, SaveApplied, WriteFile,
         Verify, RestoreFile, CheckRollback, SaveRolledBack, RestoreBackup, wvars
<1>4. ASSUME NEW p \in Proc, UserCommand(p) PROVE KnownTypes'
  <2>1. UNCHANGED <<known, aborts, wrec>> /\ active' \subseteq active
    BY <1>4 DEF UserCommand, Plan, PersistPlan, StartApply, BeginApply, StartRollback,
                ReleaseAllocation, wvars
  <2> QED
    BY <2>1
<1>5. ASSUME NEW p \in Proc, NEW r \in Alloc, BeginWorkflow(p, r) PROVE KnownTypes'
  BY <1>1, <1>5 DEF BeginWorkflow, vars
<1>6. ASSUME NEW p \in Proc, RollbackBroken(p) \/ Kill(p) PROVE KnownTypes'
  <2>1. UNCHANGED <<active, known, wrec>> /\ aborts' \in 0..MaxAborts
    BY <1>6, BoundAssumption DEF RollbackBroken, RollbackFailed, Kill
  <2> QED
    BY <2>1
<1>7. CASE \E f \in File : UserEdit(f)
  BY <1>1, <1>7 DEF UserEdit, Edit, wvars
<1>8. CASE UNCHANGED allvars
  BY <1>1, <1>8 DEF allvars, vars, wvars
<1> QED
  BY <1>2, <1>3, <1>4, <1>5, <1>6, <1>7, <1>8 DEF WorkflowNext

LEMMA WKept == WInv /\ [WorkflowNext]_allvars => WInv' /\ Advance
<1> SUFFICES ASSUME WInv, [WorkflowNext]_allvars PROVE WInv' /\ Advance
  OBVIOUS
<1>1. CfgInv' /\ Advance
  BY WorkflowIsCfg, CfgKept DEF WInv
<1>2. FlowInv'
  BY StepKeeps DEF WInv
<1>3. FlowRefs'
  <2>1. ASSUME NEW p \in Proc, Acts(p), NEW q \in Proc PROVE FlowRef(q)'
    <3>1. CASE q = p
      BY <1>1, <2>1, <3>1, FlowRefKept
    <3>2. CASE q # p
      BY <1>1, <2>1, <3>2, ElsewhereFlow, FlowRefOn DEF WInv, FlowRefs
    <3> QED
      BY <3>1, <3>2
  <2>2. CASE UNCHANGED flow
    BY <1>1, <2>2, FlowRefOn DEF WInv, FlowRefs
  <2> QED
    BY <2>1, <2>2 DEF FlowRefs, WorkflowNext, Acts, UserEdit, wvars, allvars
<1> QED
  BY <1>1, <1>2, <1>3, KnownKept DEF WInv

LEMMA WInit == WorkflowInit => WInv
<1> SUFFICES ASSUME WorkflowInit PROVE WInv
  OBVIOUS
<1>1. CfgTypes
  <2>1. 0 \in Text
    BY BoundAssumption DEF Text
  <2>2. disk \in Contents
    BY <2>1 DEF WorkflowInit, InitFiles, Contents, Content
  <2>3. NoRecord \in Record
    BY EndedTyped DEF NoRecord, Record
  <2>4. Absent \in Content
    BY DEF Content
  <2> QED
    BY <2>1, <2>2, <2>3, <2>4, EndedTyped DEF WorkflowInit, InitFiles, CfgTypes, Names
<1>2. RunningRefs
  BY EndedTyped DEF WorkflowInit, InitFiles, RunningRefs
<1>3. FlowRefs
  BY DEF WorkflowInit, FlowRefs, FlowRef, NoFlow
<1>4. KnownTypes
  BY BoundAssumption DEF WorkflowInit, InitFiles, KnownTypes, WorkflowRecord
<1> QED
  BY <1>1, <1>2, <1>3, <1>4, InitFlow DEF WInv, CfgInv

LEMMA WInvariance == WorkflowSpec => []WInv
<1> QED
  BY WInit, WKept, PTL DEF WorkflowSpec

(* Every variable of the workflow and of the config step keeps its type.   *)
THEOREM Types == WorkflowSpec => []WorkflowTypeOK
<1>1. WInv => WorkflowTypeOK
  BY DEF WInv, CfgInv, CfgTypes, KnownTypes, FlowInv, WorkflowTypeOK, TypeOK, Names
<1> QED
  BY <1>1, WInvariance, PTL

-----------------------------------------------------------------------------
(* What a workflow's record says.                                          *)

(* While its config apply runs, an attempt's process works on the mutation *)
(* planned for it; when that returns well the mutation has been applied,   *)
(* by this process or before by another.                                   *)
Applies(p) ==
    /\ flow[p].pc = "applying" =>
          IF proc[p].pc = "idle" THEN proc[p].result = "ok" => Done(flow[p].mut)
          ELSE proc[p].mut = flow[p].mut
    /\ flow[p].pc = "applied" => Done(flow[p].mut)

RecordIsTrue(r) ==
    wrec[r].status = "APPLIED" =>
        wrec[r].mut \in Mutation /\ Done(wrec[r].mut) /\ rec[wrec[r].mut].alloc = r

AppliedInv == (\A p \in Proc : Applies(p)) /\ \A r \in Alloc : RecordIsTrue(r)

LEMMA ElsewhereProc ==
    ASSUME WInv, NEW p \in Proc, NEW q \in Proc \ {p}, Acts(p)
    PROVE  proc'[q] = proc[q]
<1>1. proc \in [Proc -> ProcState]
  BY DEF WInv, CfgInv, CfgTypes
<1>2. CASE ConfigStep(p)
  <2>1. Others(p)
    BY <1>2, ConfigStepIs, QuietGoesOn, WritesAdvance DEF WInv, CfgInv
  <2> QED
    BY <2>1 DEF Others
<1>3. CASE WorkflowStep(p)
  BY <1>1, <1>3
     DEF WorkflowStep, CreateAllocation, AllocationRefused, SaveRefused, SaveInactive,
         SaveAllocated, PlanConfig, PersistPlan, PlanRefused, ApplyConfig, BeginApply,
         ConfigApplied, ConfigFailed, SaveWorkflowApplied, Compensate, StartRollback,
         ReleaseOwn, KeepAllocation, SaveFailed, vars
<1>4. CASE UserCommand(p)
  BY <1>1, <1>4 DEF UserCommand, Plan, PersistPlan, StartApply, BeginApply, StartRollback,
                    ReleaseAllocation
<1>5. CASE (\E r \in Alloc : BeginWorkflow(p, r)) \/ RollbackBroken(p) \/ Kill(p)
  BY <1>1, <1>5 DEF BeginWorkflow, RollbackBroken, RollbackFailed, Kill, vars
<1> QED
  BY <1>2, <1>3, <1>4, <1>5 DEF Acts

LEMMA AppliesOn ==
    ASSUME WInv, NEW p \in Proc, Applies(p), Advance, flow'[p] = flow[p], proc'[p] = proc[p]
    PROVE  Applies(p)'
<1>1. flow[p].pc \in {"applying", "applied"} => flow[p].mut \in Mutation
  BY DEF WInv, FlowRefs, FlowRef
<1>2. Done(flow[p].mut) /\ flow[p].pc \in {"applying", "applied"} => Done(flow[p].mut)'
  BY <1>1 DEF Advance, Done
<1> QED
  BY <1>2 DEF Applies, Done

(* Apply says it went well only of a mutation that is applied.             *)
LEMMA ConfigStepApplies ==
    ASSUME WInv, NEW p \in Proc, Applies(p), Advance, ConfigStep(p)
    PROVE  Applies(p)'
<1> PICK m : m = flow[p].mut
  OBVIOUS
<1>1. flow'[p] = flow[p] /\ proc[p].pc # "idle"
  BY ConfigStepIs DEF ConfigStep, wvars, WInv, CfgInv
<1>2. CASE flow[p].pc = "applying"
  <2>1. m \in Mutation /\ proc[p].mut = m
    BY <1>1, <1>2 DEF Applies, WInv, FlowRefs, FlowRef
  <2>2. ASSUME Quiet(p)
        PROVE  IF proc'[p].pc = "idle" THEN proc'[p].result = "ok" => Done(m)
               ELSE proc'[p].mut = m
    BY <1>1, <2>1, <2>2 DEF Quiet, Errs, DoneAlready, Checked, Proceeds, RollbackChecked,
                            Carries, Begins, Done
  <2>3. Done(m) => Done(m)'
    BY <2>1 DEF Advance, Done
  <2>4. CASE SaveApplied(p) \/ SaveRolledBack(p)
    <3>1. proc'[p].pc = "idle" /\ rec'[m].status \in {"APPLIED", "ROLLED_BACK"}
      BY <2>1, <2>4, SaveDoes DEF WInv
    <3> QED
      BY <1>1, <1>2, <3>1 DEF Applies, Done
  <2>5. CASE \/ BackUp(p) \/ \E f \in File : WriteFile(p, f) \/ RestoreFile(p, f)
                                             \/ RestoreBackup(p, f)
    <3>1. \/ proc'[p].pc = "idle" /\ proc'[p].result = "error"
          \/ proc'[p].mut = m /\ proc'[p].pc # "idle"
      BY <2>1, <2>5, BackUpDoes, WriteFileDoes, RestoreFileDoes, RestoreBackupDoes
         DEF WInv, Carries
    <3> QED
      BY <1>1, <1>2, <3>1 DEF Applies, Done
  <2>6. CASE Quiet(p)
    BY <1>1, <1>2, <2>2, <2>3, <2>6 DEF Applies, Done
  <2> QED
    BY <2>4, <2>5, <2>6, ConfigStepIs DEF Writes, WInv, CfgInv
<1>3. CASE flow[p].pc = "applied"
  <2>1. m \in Mutation /\ Done(m)
    BY <1>3 DEF Applies, WInv, FlowRefs, FlowRef
  <2>2. Done(m)'
    BY <2>1 DEF Advance, Done
  <2> QED
    BY <1>1, <1>3, <2>2 DEF Applies, Done
<1>4. CASE flow[p].pc \notin {"applying", "applied"}
  BY <1>1, <1>4 DEF Applies
<1> QED
  BY <1>2, <1>3, <1>4

LEMMA AppliesKept ==
    ASSUME WInv, NEW p \in Proc, Applies(p), Advance, Acts(p)
    PROVE  Applies(p)'
<1>0. /\ flow \in [Proc -> FlowState] /\ flow[p] \in FlowState
      /\ proc \in [Proc -> ProcState] /\ NoFlow.pc = "idle"
  BY DEF WInv, FlowInv, CfgInv, CfgTypes, NoFlow
<1>1. ASSUME flow'[p].pc \notin {"applying", "applied"} PROVE Applies(p)'
  BY <1>1 DEF Applies
<1>2. CASE ConfigStep(p)
  BY <1>2, ConfigStepApplies
<1>3. CASE ApplyConfig(p)
  <2>1. /\ flow'[p].pc = "applying" /\ flow'[p].mut = flow[p].mut
    BY <1>0, <1>3 DEF ApplyConfig, Go, FlowState
  <2>2. proc'[p].pc = "check" /\ proc'[p].mut = flow[p].mut
    BY <1>0, <1>3, EndedTyped DEF ApplyConfig, BeginApply, ProcState
  <2> QED
    BY <2>1, <2>2 DEF Applies
<1>4. CASE ConfigApplied(p)
  <2>1. /\ flow'[p].pc = "applied" /\ flow'[p].mut = flow[p].mut /\ rec' = rec
        /\ flow[p].pc = "applying" /\ proc[p].pc = "idle" /\ proc[p].result = "ok"
    BY <1>0, <1>4 DEF ConfigApplied, Go, FlowState, vars
  <2> QED
    BY <2>1 DEF Applies, Done
<1>5. CASE UserCommand(p)
  BY <1>1, <1>5 DEF UserCommand, Free, wvars
<1>6. ASSUME NEW pc, NEW next, Go(p, pc, next), next \notin {"applying", "applied"}
      PROVE  Applies(p)'
  BY <1>0, <1>1, <1>6 DEF Go
<1>7. CASE \/ AllocationRefused(p) \/ PlanRefused(p) \/ ConfigFailed(p) \/ Compensate(p)
           \/ ReleaseOwn(p) \/ KeepAllocation(p)
  BY <1>6, <1>7 DEF AllocationRefused, PlanRefused, ConfigFailed, Compensate, ReleaseOwn,
                    KeepAllocation
<1>8. CASE \/ SaveRefused(p) \/ SaveInactive(p) \/ SaveWorkflowApplied(p) \/ SaveFailed(p)
           \/ RollbackBroken(p) \/ Kill(p)
  BY <1>0, <1>1, <1>8 DEF SaveRefused, SaveInactive, SaveWorkflowApplied, SaveFailed, Finish,
                          RollbackBroken, Kill
<1>9. CASE CreateAllocation(p) \/ SaveAllocated(p) \/ PlanConfig(p)
  <2>1. ASSUME CreateAllocation(p)
        PROVE  flow'[p].pc \in {"inactive", "allocated", "refused"}
    <3>1. flow'[p] = Answered(flow[p]) \/ flow'[p] = [flow[p] EXCEPT !.pc = "refused"]
      BY <1>0, <2>1 DEF CreateAllocation
    <3> QED
      BY <1>0, <3>1 DEF Answered, FlowState
  <2>2. SaveAllocated(p) => flow'[p].pc \in {"plan", "idle"}
    BY <1>0 DEF SaveAllocated, FlowState
  <2>3. PlanConfig(p) => flow'[p].pc = "apply"
    BY <1>0 DEF PlanConfig, FlowState
  <2> QED
    BY <1>1, <1>9, <2>1, <2>2, <2>3
<1>10. CASE \E r \in Alloc : BeginWorkflow(p, r)
  <2>1. flow'[p].pc = "create"
    BY <1>0, <1>10 DEF BeginWorkflow, NoFlow
  <2> QED
    BY <1>1, <2>1
<1> QED
  BY <1>2, <1>3, <1>4, <1>5, <1>7, <1>8, <1>9, <1>10 DEF Acts, WorkflowStep

LEMMA RecordOn ==
    ASSUME NEW r \in Alloc, RecordIsTrue(r), Advance, wrec'[r] = wrec[r]
    PROVE  RecordIsTrue(r)'
BY DEF RecordIsTrue, Advance, Done

LEMMA RecordsKept ==
    ASSUME WInv, AppliedInv, Advance, [WorkflowNext]_allvars, NEW r \in Alloc
    PROVE  RecordIsTrue(r)'
<1>0. RecordIsTrue(r) /\ wrec \in [Alloc -> WorkflowRecord]
  BY DEF AppliedInv, WInv, KnownTypes
<1>1. CASE UNCHANGED wrec
  BY <1>0, <1>1, RecordOn
<1>2. ASSUME NEW p \in Proc, NEW pc, NEW b, NEW m, Finish(p, pc, "FAILED", b, m)
      PROVE  RecordIsTrue(r)'
  <2>1. wrec'[r] = wrec[r] \/ wrec'[r].status = "FAILED"
    BY <1>0, <1>2 DEF Finish
  <2> QED
    BY <1>0, <2>1, RecordOn DEF RecordIsTrue
<1>3. ASSUME NEW p \in Proc, SaveWorkflowApplied(p) PROVE RecordIsTrue(r)'
  <2> DEFINE m == flow[p].mut
  <2>1. /\ flow[p].pc = "applied" /\ rec' = rec
        /\ wrec' = [wrec EXCEPT ![flow[p].req] =
                      [status |-> "APPLIED", allocated |-> TRUE, mut |-> m]]
    BY <1>3 DEF SaveWorkflowApplied, Finish, vars
  <2>2. m \in Mutation /\ Done(m) /\ rec[m].alloc = flow[p].req
    BY <2>1 DEF AppliedInv, Applies, WInv, FlowRefs, FlowRef
  <2> HIDE DEF m
  <2>3. CASE r = flow[p].req
    <3>1. wrec'[r].mut = m
      BY <1>0, <2>1, <2>3
    <3> QED
      BY <2>1, <2>2, <2>3, <3>1 DEF RecordIsTrue, Done
  <2>4. CASE r # flow[p].req
    BY <1>0, <2>1, <2>4, RecordOn
  <2> QED
    BY <2>3, <2>4
<1>4. ASSUME NEW p \in Proc, SaveAllocated(p) PROVE RecordIsTrue(r)'
  <2>1. wrec'[r] = wrec[r] \/ wrec'[r].status = "ALLOCATED"
    BY <1>0, <1>4 DEF SaveAllocated
  <2> QED
    BY <1>0, <2>1, RecordOn DEF RecordIsTrue
<1>5. ASSUME NEW p \in Proc, WorkflowStep(p) PROVE RecordIsTrue(r)'
  <2>1. CASE SaveRefused(p) \/ SaveInactive(p) \/ SaveFailed(p)
    BY <1>2, <2>1 DEF SaveRefused, SaveInactive, SaveFailed
  <2>2. CASE \/ CreateAllocation(p) \/ AllocationRefused(p) \/ PlanConfig(p) \/ PlanRefused(p)
             \/ ApplyConfig(p) \/ ConfigApplied(p) \/ ConfigFailed(p) \/ Compensate(p)
             \/ ReleaseOwn(p) \/ KeepAllocation(p)
    BY <1>1, <2>2 DEF CreateAllocation, AllocationRefused, PlanConfig, PlanRefused,
       ApplyConfig, ConfigApplied, ConfigFailed, Compensate, ReleaseOwn, KeepAllocation
  <2> QED
    BY <1>3, <1>4, <1>5, <2>1, <2>2 DEF WorkflowStep
<1> QED
  BY <1>1, <1>5 DEF WorkflowNext, UserEdit, BeginWorkflow, ConfigStep, RollbackBroken,
     UserCommand, Kill, wvars, allvars

LEMMA AppliedKept == WInv /\ AppliedInv /\ [WorkflowNext]_allvars => AppliedInv'
<1> SUFFICES ASSUME WInv, AppliedInv, [WorkflowNext]_allvars PROVE AppliedInv'
  OBVIOUS
<1>1. Advance
  BY WKept
<1>2. ASSUME NEW p \in Proc, Acts(p), NEW q \in Proc PROVE Applies(q)'
  <2>1. CASE q = p
    BY <1>1, <1>2, <2>1, AppliesKept DEF AppliedInv
  <2>2. CASE q # p
    <3>1. flow'[q] = flow[q] /\ proc'[q] = proc[q]
      BY <1>2, <2>2, ElsewhereFlow, ElsewhereProc DEF WInv
    <3> QED
      BY <1>1, <3>1, AppliesOn DEF AppliedInv
  <2> QED
    BY <2>1, <2>2
<1>3. ASSUME UNCHANGED <<flow, proc>>, NEW q \in Proc PROVE Applies(q)'
  <2>1. flow'[q] = flow[q] /\ proc'[q] = proc[q]
    BY <1>3
  <2> QED
    BY <1>1, <2>1, AppliesOn DEF AppliedInv
<1>4. (\E p \in Proc : Acts(p)) \/ UNCHANGED <<flow, proc>>
  <2>1. CASE \E f \in File : UserEdit(f)
    BY <2>1 DEF UserEdit, Edit, wvars
  <2>2. CASE UNCHANGED allvars
    BY <2>2 DEF wvars, allvars, vars
  <2> QED
    BY <2>1, <2>2 DEF WorkflowNext, Acts
<1> QED
  BY <1>1, <1>2, <1>3, <1>4, RecordsKept DEF AppliedInv

(* A workflow record that says APPLIED is true, whoever ran and died: its  *)
(* mutation was applied, for this request, and at most rolled back since.  *)
THEOREM RecordsAreTrue == WorkflowSpec => []AppliedIsTrue
<1>1. WorkflowInit => AppliedInv
  BY DEF WorkflowInit, AppliedInv, Applies, RecordIsTrue, NoFlow
<1>2. AppliedInv => AppliedIsTrue
  BY DEF AppliedInv, RecordIsTrue, Done, AppliedIsTrue
<1> QED
  BY <1>1, <1>2, AppliedKept, WInvariance, PTL DEF WorkflowSpec

-----------------------------------------------------------------------------
(* No edit is lost.  The user's edits fall between the commands, and every *)
(* file has its own backup name.                                           *)
DistinctBackups == \A f, g \in File : BackupName[f] = BackupName[g] => f = g

TextOf(c) == IF c = Absent THEN 0 ELSE c.text

(* What mutation m has read is still the user's last text.                 *)
Current(m) == \A f \in File : TextOf(rec[m].before[f]) = latest[f]

(* The backups of m have the texts that m has read.                        *)
SavedText(m) ==
    \A f \in File : TextOf(backup[m][BackupName[f]]) = TextOf(rec[m].before[f])

(* A file that is missing when m is applied leaves an old backup in place, *)
(* which was never one of another text.                                    *)
RecordTexts(m) ==
    /\ \A f \in File :
          LET b == backup[m][BackupName[f]]
          IN  \/ TextOf(b) = 0
              \/ rec[m].status # "none" /\ TextOf(b) = TextOf(rec[m].before[f])
    /\ Done(m) => /\ SavedText(m)
                  /\ \A f \in File : TextOf(rec[m].after[f]) = TextOf(rec[m].before[f])

Applying == {"write", "verify", "restore", "save"}
RollingBack == {"rcheck", "rwrite", "rsave"}

(* A command past its precondition check works on current texts, with the  *)
(* originals in hand and in the backups.                                   *)
ProcTexts(p) ==
    LET m == proc[p].mut
    IN  /\ proc[p].pc \in {"backup", "rwrite", "rsave"} \cup Applying => Current(m)
        /\ proc[p].pc \in Applying =>
              SavedText(m) /\ \A f \in File : TextOf(proc[p].orig[f]) = latest[f]
        /\ proc[p].pc \in RollingBack => Done(m)

DiskTexts == \A f \in File : TextOf(disk[f]) = latest[f]

Texts ==
    /\ DiskTexts
    /\ \A m \in Mutation : RecordTexts(m)
    /\ \A p \in Proc : ProcTexts(p)

LEMMA ProcTextsOn ==
    ASSUME CfgInv, NEW p \in Proc, ProcTexts(p), Advance,
           UNCHANGED latest, proc'[p] = proc[p],
           \A m \in Mutation : rec[m].status # "none" /\ SavedText(m) => SavedText(m)'
    PROVE  ProcTexts(p)'
<1> PICK m : m = proc[p].mut
  OBVIOUS
<1>1. CASE proc[p].pc = "idle"
  BY <1>1 DEF ProcTexts, Applying, RollingBack
<1>2. CASE proc[p].pc # "idle"
  <2>1. m \in Mutation /\ rec[m].status # "none"
    BY <1>2 DEF CfgInv, RunningRefs
  <2>2. Current(m) => Current(m)'
    BY <2>1 DEF Current, Advance
  <2>3. Done(m) => Done(m)'
    BY <2>1 DEF Advance, Done
  <2>4. SavedText(m) => SavedText(m)'
    BY <2>1
  <2> QED
    BY <2>2, <2>3, <2>4 DEF ProcTexts, Current, Done, SavedText
<1> QED
  BY <1>1, <1>2

LEMMA QuietKeepsTexts ==
    ASSUME CfgInv, Texts, NEW p \in Proc, Quiet(p)
    PROVE  Texts'
<1>1. Others(p) /\ UNCHANGED project /\ ProcTexts(p)
  BY QuietGoesOn DEF Texts
<1>2. UNCHANGED <<disk, latest, edits, rec, backup>>
  BY <1>1 DEF project
<1>3. \A m \in Mutation : RecordTexts(m)' /\ (SavedText(m) => SavedText(m)')
  BY <1>2 DEF Texts, RecordTexts, SavedText, Done
<1>4. Advance
  BY <1>2 DEF Advance, Done
<1>5. ProcTexts(p)'
  <2> PICK m : m = proc[p].mut
    OBVIOUS
  <2>1. (Current(m) => Current(m)') /\ (SavedText(m) => SavedText(m)') /\ (Done(m) => Done(m)')
    BY <1>2 DEF Current, SavedText, Done
  <2>2. CASE proc'[p].pc = "idle"
    BY <2>2 DEF ProcTexts, Applying, RollingBack
  <2>3. CASE Checked(p)
    <3>1. proc'[p].pc = "backup" /\ proc'[p].mut = m /\ Unchanged(rec[m].before)
      BY <2>3 DEF Checked, Carries
    <3>2. Current(m)
      BY <3>1 DEF Current, Unchanged, Texts, DiskTexts
    <3> QED
      BY <2>1, <3>1, <3>2 DEF ProcTexts, Current, Applying, RollingBack
  <2>4. CASE Proceeds(p)
    <3>1. /\ proc[p].pc \in {"write", "verify"} /\ proc'[p].pc \in {"write", "save", "restore"}
          /\ proc'[p].mut = m /\ proc'[p].orig = proc[p].orig
      BY <2>4 DEF Proceeds, Carries
    <3> QED
      BY <1>1, <1>2, <2>1, <3>1 DEF ProcTexts, Current, SavedText, Applying, RollingBack
  <2>5. CASE RollbackChecked(p)
    <3>1. /\ proc[p].pc = "rcheck" /\ proc'[p].pc = "rwrite" /\ proc'[p].mut = m
          /\ Unchanged(rec[m].after) /\ m \in Mutation
      BY <2>5 DEF RollbackChecked, Carries, CfgInv, RunningRefs
    <3>2. Done(m)
      BY <1>1, <3>1 DEF ProcTexts, RollingBack
    <3>3. Current(m)
      BY <3>1, <3>2 DEF Current, Unchanged, Texts, DiskTexts, RecordTexts
    <3> QED
      BY <2>1, <3>1, <3>2, <3>3 DEF ProcTexts, Current, Done, Applying, RollingBack
  <2>6. ASSUME NEW k \in Mutation, Begins(p, k) PROVE ProcTexts(p)'
    BY <1>2, <2>6 DEF Begins, ProcTexts, Done, Applying, RollingBack
  <2> QED
    BY <2>2, <2>3, <2>4, <2>5, <2>6 DEF Quiet, Errs, DoneAlready
<1>6. ASSUME NEW q \in Proc PROVE ProcTexts(q)'
  <2>1. CASE q = p
    BY <1>5, <2>1
  <2>2. CASE q # p
    <3>1. proc'[q] = proc[q] /\ ProcTexts(q)
      BY <1>1, <2>2 DEF Others, Texts
    <3> QED
      BY <1>2, <1>3, <1>4, <3>1, ProcTextsOn
  <2> QED
    BY <2>1, <2>2
<1> QED
  BY <1>2, <1>3, <1>6 DEF Texts, DiskTexts

(* What backing up the files of m, which are all current, leaves behind.   *)
LEMMA BackUpSavesText ==
    ASSUME DistinctBackups, CfgInv, Texts, NEW p \in Proc, BackUp(p)
    PROVE  /\ \A m \in Mutation : RecordTexts(m)'
           /\ \A m \in Mutation : SavedText(m) => SavedText(m)'
           /\ \A m \in Mutation : m = proc[p].mut => SavedText(m)'
<1> PICK k : k = proc[p].mut
  OBVIOUS
<1>1. /\ UNCHANGED <<disk, latest, rec>> /\ proc[p].pc = "backup"
      /\ \A m \in Mutation \ {k} : backup'[m] = backup[m]
      /\ \A n \in Names :
            \/ \E f \in File : /\ BackupName[f] = n /\ disk[f] # Absent
                               /\ backup'[k][n] = disk[f]
            \/ /\ \A f \in File : BackupName[f] = n => disk[f] = Absent
               /\ backup'[k][n] = backup[k][n]
  BY BackUpDoes
<1>2. Current(k) /\ k \in Mutation /\ RecordTexts(k) /\ rec[k].status # "none"
  BY <1>1 DEF Texts, ProcTexts, CfgInv, RunningRefs
<1>3. ASSUME NEW f \in File
      PROVE  TextOf(backup'[k][BackupName[f]]) = TextOf(rec[k].before[f])
  <2>1. TextOf(disk[f]) = TextOf(rec[k].before[f])
    BY <1>2 DEF Texts, DiskTexts, Current
  <2>2. BackupName[f] \in Names
    BY DEF Names
  <2>3. CASE disk[f] = Absent /\ backup'[k][BackupName[f]] = backup[k][BackupName[f]]
    BY <1>2, <2>1, <2>3 DEF RecordTexts, TextOf
  <2>4. CASE disk[f] # Absent /\ backup'[k][BackupName[f]] = disk[f]
    BY <2>1, <2>4
  <2> QED
    BY <1>1, <2>2, <2>3, <2>4 DEF DistinctBackups
<1>4. SavedText(k)'
  BY <1>1, <1>3 DEF SavedText
<1>5. RecordTexts(k)'
  BY <1>1, <1>2, <1>3, <1>4 DEF RecordTexts, Done, SavedText
<1>6. ASSUME NEW m \in Mutation \ {k}
      PROVE  RecordTexts(m)' /\ (SavedText(m) => SavedText(m)')
  BY <1>1 DEF Texts, RecordTexts, Done, SavedText
<1> QED
  BY <1>4, <1>5, <1>6

LEMMA WritesKeepTexts ==
    ASSUME DistinctBackups, CfgInv, Texts, NEW p \in Proc, Writes(p)
    PROVE  Texts'
<1> PICK m : m = proc[p].mut
  OBVIOUS
<1>1. /\ Others(p) /\ Advance /\ UNCHANGED latest /\ proc[p].pc # "idle"
      /\ m \in Mutation /\ rec[m].status # "none" /\ ProcTexts(p) /\ RecordTexts(m)
  BY WritesAdvance DEF CfgInv, RunningRefs, Texts
<1>2. (Current(m) => Current(m)') /\ (Done(m) => Done(m)')
  BY <1>1 DEF Current, Done, Advance
<1>3. SUFFICES /\ DiskTexts' /\ ProcTexts(p)'
               /\ \A k \in Mutation : RecordTexts(k)' /\ (SavedText(k) => SavedText(k)')
  <2>1. ASSUME NEW q \in Proc \ {p} PROVE ProcTexts(q)'
    <3>1. proc'[q] = proc[q] /\ ProcTexts(q)
      BY <1>1 DEF Others, Texts
    <3> QED
      BY <1>1, <1>3, <3>1, ProcTextsOn
  <2> QED
    BY <1>3, <2>1 DEF Texts
<1>4. CASE BackUp(p)
  <2>1. /\ disk' = disk /\ proc[p].pc = "backup" /\ proc'[p].pc = "write"
        /\ proc'[p].mut = m /\ proc'[p].orig = disk
    BY <1>4, BackUpDoes
  <2>2. DiskTexts /\ DiskTexts'
    BY <1>1, <2>1 DEF Texts, DiskTexts
  <2>3. Current(m)' /\ SavedText(m)'
    BY <1>1, <1>2, <1>4, <2>1, BackUpSavesText DEF ProcTexts
  <2>4. ProcTexts(p)'
    BY <1>1, <2>1, <2>2, <2>3
       DEF ProcTexts, Current, SavedText, DiskTexts, Applying, RollingBack
  <2> QED
    BY <1>4, <2>2, <2>4, BackUpSavesText
<1>5. CASE SaveApplied(p) \/ SaveRolledBack(p)
  <2>1. /\ UNCHANGED <<disk, backup>> /\ proc'[p].pc = "idle"
        /\ \A k \in Mutation \ {m} : rec'[k] = rec[k]
        /\ rec'[m].before = rec[m].before
        /\ \/ /\ proc[p].pc = "save" /\ rec'[m].status = "APPLIED"
              /\ \A f \in File : rec'[m].after[f] = Planned(m, f)
           \/ /\ proc[p].pc = "rsave" /\ rec'[m].status = "ROLLED_BACK"
              /\ rec'[m].after = rec[m].after
    BY <1>5, SaveDoes
  <2>2. SavedText(m)
    BY <1>1, <2>1 DEF ProcTexts, RecordTexts, Applying, RollingBack
  <2>3. SavedText(m)'
    BY <2>1, <2>2 DEF SavedText
  <2>4. ASSUME NEW f \in File PROVE TextOf(rec'[m].after[f]) = TextOf(rec[m].before[f])
    <3>1. TextOf(Planned(m, f)) = TextOf(rec[m].before[f])
      BY <1>1, PlannedTyped DEF TextOf, CfgInv
    <3>2. proc[p].pc = "rsave" => TextOf(rec[m].after[f]) = TextOf(rec[m].before[f])
      BY <1>1 DEF ProcTexts, RecordTexts, RollingBack
    <3> QED
      BY <2>1, <3>1, <3>2
  <2>5. RecordTexts(m)'
    BY <1>1, <2>1, <2>3, <2>4 DEF RecordTexts
  <2>6. \A k \in Mutation \ {m} : RecordTexts(k)' /\ (SavedText(k) => SavedText(k)')
    BY <2>1 DEF Texts, RecordTexts, SavedText, Done
  <2>7. DiskTexts' /\ ProcTexts(p)'
    BY <1>1, <2>1 DEF Texts, DiskTexts, ProcTexts, Applying, RollingBack
  <2> QED
    BY <2>3, <2>5, <2>6, <2>7
<1>6. ASSUME NEW f \in File, WriteFile(p, f) \/ RestoreFile(p, f) \/ RestoreBackup(p, f)
      PROVE  /\ DiskTexts' /\ ProcTexts(p)'
             /\ \A k \in Mutation : RecordTexts(k)' /\ (SavedText(k) => SavedText(k)')
  <2>1. UNCHANGED <<rec, backup>> /\ disk \in Contents
    BY <1>6, WriteFileDoes, RestoreFileDoes, RestoreBackupDoes DEF CfgInv, CfgTypes
  <2>2. \A k \in Mutation : RecordTexts(k)' /\ (SavedText(k) => SavedText(k)')
    BY <2>1 DEF Texts, RecordTexts, SavedText, Done
  <2>3. ASSUME NEW c, disk' = [disk EXCEPT ![f] = c], TextOf(c) = latest[f]
        PROVE  DiskTexts'
    BY <1>1, <2>1, <2>3 DEF Texts, DiskTexts, Contents
  <2>4. CASE WriteFile(p, f)
    <3>1. /\ disk' = [disk EXCEPT ![f] = Planned(m, f)] /\ proc[p].pc = "write"
          /\ proc'[p].pc = "verify" /\ proc'[p].mut = m /\ proc'[p].orig = proc[p].orig
      BY <2>4, WriteFileDoes DEF Carries
    <3>2. TextOf(Planned(m, f)) = latest[f]
      BY <1>1, <3>1, PlannedTyped DEF TextOf, CfgInv, ProcTexts, Current, Applying
    <3>3. ProcTexts(p)'
      BY <1>1, <1>2, <2>2, <3>1 DEF ProcTexts, Current, SavedText, Applying, RollingBack
    <3> QED
      BY <2>2, <2>3, <3>1, <3>2, <3>3
  <2>5. CASE RestoreFile(p, f)
    <3>1. /\ disk' = [disk EXCEPT ![f] = proc[p].orig[f]] /\ proc[p].pc = "restore"
          /\ \/ proc'[p].pc = "idle"
             \/ /\ proc'[p].pc = "restore" /\ proc'[p].mut = m
                /\ proc'[p].orig = proc[p].orig
      BY <2>5, RestoreFileDoes DEF Carries
    <3>2. TextOf(proc[p].orig[f]) = latest[f]
      BY <1>1, <3>1 DEF ProcTexts, Applying
    <3>3. ProcTexts(p)'
      BY <1>1, <1>2, <2>2, <3>1 DEF ProcTexts, Current, SavedText, Applying, RollingBack
    <3> QED
      BY <2>2, <2>3, <3>1, <3>2, <3>3
  <2>6. CASE RestoreBackup(p, f)
    <3>1. /\ disk' = [disk EXCEPT ![f] = backup[m][BackupName[f]]] /\ proc[p].pc = "rwrite"
          /\ proc'[p].pc \in {"rwrite", "rsave"} /\ proc'[p].mut = m
      BY <2>6, RestoreBackupDoes DEF Carries
    <3>2. Current(m) /\ Done(m)
      BY <1>1, <3>1 DEF ProcTexts, RollingBack
    <3>3. TextOf(backup[m][BackupName[f]]) = latest[f]
      BY <1>1, <3>2 DEF RecordTexts, SavedText, Current
    <3>4. ProcTexts(p)'
      BY <1>2, <3>1, <3>2 DEF ProcTexts, Current, Done, Applying, RollingBack
    <3> QED
      BY <2>2, <2>3, <3>1, <3>3, <3>4
  <2> QED
    BY <1>6, <2>4, <2>5, <2>6
<1> QED
  BY <1>4, <1>5, <1>6 DEF Writes

LEMMA TextsKept ==
    ASSUME DistinctBackups, CfgInv, Texts, CfgStep
    PROVE  Texts'
<1>1. CASE UNCHANGED cfg
  BY <1>1 DEF cfg, Texts, DiskTexts, RecordTexts, ProcTexts, SavedText, Current, Done
<1>2. ASSUME NEW f \in File, \A p \in Proc : proc[p].pc = "idle", Edit(f) PROVE Texts'
  <2>1. /\ UNCHANGED <<rec, backup, proc>>
        /\ \A g \in File \ {f} : disk'[g] = disk[g] /\ latest'[g] = latest[g]
        /\ disk'[f] # Absent /\ disk'[f].text = latest'[f]
    BY <1>2, EditDoes DEF CfgInv
  <2>2. DiskTexts'
    BY <2>1 DEF Texts, DiskTexts, TextOf
  <2>3. \A m \in Mutation : RecordTexts(m)'
    BY <2>1 DEF Texts, RecordTexts, SavedText, Done
  <2>4. \A p \in Proc : ProcTexts(p)'
    BY <1>2, <2>1 DEF ProcTexts, Applying, RollingBack
  <2> QED
    BY <2>2, <2>3, <2>4 DEF Texts
<1>3. ASSUME NEW m \in Mutation, NEW a \in Alloc, PersistPlan(m, a) PROVE Texts'
  <2>1. /\ UNCHANGED <<disk, latest, edits, backup, proc>> /\ rec[m].status = "none"
        /\ \A k \in Mutation \ {m} : rec'[k] = rec[k]
        /\ rec'[m].status = "PLANNED"
    BY <1>3, PersistDoes DEF CfgInv
  <2>2. RecordTexts(m)'
    <3>1. RecordTexts(m) /\ ~Done(m)'
      BY <2>1 DEF Texts, Done
    <3>2. \A f \in File : TextOf(backup'[m][BackupName[f]]) = 0
      BY <2>1, <3>1 DEF RecordTexts
    <3> QED
      BY <3>1, <3>2 DEF RecordTexts
  <2>3. \A k \in Mutation \ {m} : RecordTexts(k)' /\ (SavedText(k) => SavedText(k)')
    BY <2>1 DEF Texts, RecordTexts, SavedText, Done
  <2>4. Advance /\ \A k \in Mutation : rec[k].status # "none" /\ SavedText(k) => SavedText(k)'
    BY <2>1, <2>3 DEF Advance, Done
  <2>5. \A p \in Proc : ProcTexts(p)'
    BY <2>1, <2>4, ProcTextsOn DEF Texts
  <2> QED
    BY <2>1, <2>2, <2>3, <2>5 DEF Texts, DiskTexts
<1> QED
  BY <1>1, <1>2, <1>3, QuietKeepsTexts, WritesKeepTexts DEF CfgStep

(* No edit is lost, whatever any number of processes plan, apply, roll     *)
(* back, retry or leave half done between the user's edits: the            *)
(* precondition hashes, and rollback's use of the backups.                 *)
THEOREM EditsAreKept == DistinctBackups /\ WorkflowSpec => []EditsKept
<1> SUFFICES ASSUME DistinctBackups PROVE WorkflowSpec => []EditsKept
  OBVIOUS
<1>1. WorkflowInit => Texts
  <2> SUFFICES ASSUME WorkflowInit PROVE Texts
    OBVIOUS
  <2>1. DiskTexts
    BY DEF WorkflowInit, InitFiles, DiskTexts, TextOf
  <2>2. \A m \in Mutation : RecordTexts(m)
    <3>1. ASSUME NEW m \in Mutation, NEW f \in File
          PROVE  backup[m][BackupName[f]] = Absent /\ rec[m].status = "none"
      BY DEF WorkflowInit, InitFiles, NoRecord
    <3>2. \A m \in Mutation : ~Done(m)
      BY DEF WorkflowInit, InitFiles, NoRecord, Done
    <3> QED
      BY <3>1, <3>2 DEF RecordTexts, TextOf
  <2>3. \A p \in Proc : ProcTexts(p)
    BY EndedTyped DEF WorkflowInit, InitFiles, ProcTexts, Applying, RollingBack
  <2> QED
    BY <2>1, <2>2, <2>3 DEF Texts
<1>2. WInv /\ Texts /\ [WorkflowNext]_allvars => Texts'
  BY WorkflowIsCfg, TextsKept DEF WInv
<1>3. Texts => EditsKept
  BY DEF Texts, DiskTexts, TextOf, EditsKept
<1> QED
  BY <1>1, <1>2, <1>3, WInvariance, PTL DEF WorkflowSpec

-----------------------------------------------------------------------------
(* Originals, rollback and failure, for one command at a time: apply takes *)
(* no lock, and two that run together may each back up what the other has  *)
(* written.                                                                *)
Alone == \A p, q \in Proc : p = q

Held(c) == c # Absent /\ c.port # NoAlloc

(* A mutation of allocation a has the original of f in its backups.        *)
Saved(m, f) == rec[m].status # "none" /\ backup[m][BackupName[f]] = rec[m].before[f]
Kept(a, f) == \E m \in Mutation : Saved(m, f) /\ rec[m].alloc = a

SavedAll(m) == \A f \in File : Saved(m, f)

(* What holds an allocation's ports, now or when a mutation was planned,   *)
(* has its original kept.                                                  *)
Originals ==
    \A f \in File :
        /\ Held(disk[f]) => Kept(disk[f].port, f)
        /\ \A m \in Mutation :
              rec[m].status # "none" /\ Held(rec[m].before[f]) => Kept(rec[m].before[f].port, f)

RecordCopies(m) ==
    /\ \A f \in File : backup[m][BackupName[f]] = Absent \/ Saved(m, f)
    /\ Done(m) => SavedAll(m)

(* What a running command knows of the files: apply, that those it has not *)
(* written, or has put back, are the originals; rollback, that those it    *)
(* has restored are what the mutation found.                               *)
ProcFiles(p) ==
    LET s == proc[p]
        m == proc[p].mut
    IN  /\ s.pc = "backup" => \A f \in File : disk[f] = rec[m].before[f]
        /\ s.pc \in Applying =>
              /\ SavedAll(m)
              /\ \A f \in File : s.orig[f] = rec[m].before[f]
              /\ \A f \in File : f \notin s.written => disk[f] = s.orig[f]
        /\ s.pc \in RollingBack => Done(m)
        /\ s.pc \in {"rwrite", "rsave"} =>
              \A f \in File : f \notin s.todo => disk[f] = rec[m].before[f]
        /\ s.pc = "rsave" => s.todo = {}

Copies ==
    /\ Originals
    /\ \A m \in Mutation : RecordCopies(m)
    /\ \A p \in Proc : ProcFiles(p)

(* An original that is kept stays kept while backups only get better.      *)
LEMMA KeptOn ==
    ASSUME Advance, NEW f \in File, NEW a, Kept(a, f),
           \A m \in Mutation : Saved(m, f) => Saved(m, f)'
    PROVE  Kept(a, f)'
<1>1. PICK m \in Mutation : Saved(m, f) /\ rec[m].alloc = a
  BY DEF Kept
<1>2. Saved(m, f)' /\ rec'[m].alloc = a
  BY <1>1 DEF Advance, Saved
<1> QED
  BY <1>2 DEF Kept

(* Originals after a step that plans nothing: what a file holds now was in *)
(* it, or was in it when some mutation was planned, or is new and kept.    *)
LEMMA OriginalsOn ==
    ASSUME Originals, Advance,
           \A m \in Mutation : rec'[m].status # "none" => rec[m].status # "none",
           \A m \in Mutation, f \in File : Saved(m, f) => Saved(m, f)',
           \A f \in File : Held(disk'[f]) =>
              \/ Held(disk[f]) /\ disk'[f].port = disk[f].port
              \/ \E m \in Mutation : rec[m].status # "none" /\ disk'[f] = rec[m].before[f]
              \/ Kept(disk'[f].port, f)
    PROVE  Originals'
<1> SUFFICES ASSUME NEW f \in File
             PROVE  /\ Held(disk'[f]) => Kept(disk[f].port, f)'
                    /\ \A m \in Mutation :
                          rec'[m].status # "none" /\ Held(rec'[m].before[f]) =>
                             Kept(rec[m].before[f].port, f)'
  BY DEF Originals, Held
<1>1. \A a : Kept(a, f) => Kept(a, f)'
  BY KeptOn
<1>2. Held(disk'[f]) => Kept(disk'[f].port, f)
  BY DEF Originals, Held
<1>3. ASSUME NEW m \in Mutation, rec'[m].status # "none", Held(rec'[m].before[f])
      PROVE  Kept(rec'[m].before[f].port, f)
  <2>1. rec[m].status # "none" /\ rec'[m].before = rec[m].before
    BY <1>3 DEF Advance
  <2> QED
    BY <1>3, <2>1 DEF Originals
<1> QED
  BY <1>1, <1>2, <1>3 DEF Kept, Saved

(* Records and backups that stay put.                                      *)
LEMMA RecordCopiesOn ==
    ASSUME NEW m \in Mutation, RecordCopies(m), rec'[m] = rec[m], backup'[m] = backup[m]
    PROVE  RecordCopies(m)' /\ \A f \in File : Saved(m, f) => Saved(m, f)'
BY DEF RecordCopies, SavedAll, Saved, Done

LEMMA QuietKeepsCopies ==
    ASSUME Alone, CfgInv, Copies, NEW p \in Proc, Quiet(p)
    PROVE  Copies'
<1>1. Others(p) /\ UNCHANGED project /\ ProcFiles(p)
  BY QuietGoesOn DEF Copies
<1>2. UNCHANGED <<disk, latest, edits, rec, backup>>
  BY <1>1 DEF project
<1>3. Originals' /\ \A m \in Mutation : RecordCopies(m)'
  BY <1>2 DEF Copies, Originals, Held, Kept, RecordCopies, SavedAll, Saved, Done
<1>4. ProcFiles(p)'
  <2> PICK m : m = proc[p].mut
    OBVIOUS
  <2>1. (SavedAll(m) => SavedAll(m)') /\ (Done(m) => Done(m)')
    BY <1>2 DEF SavedAll, Saved, Done
  <2>2. CASE proc'[p].pc = "idle"
    BY <2>2 DEF ProcFiles, Applying, RollingBack
  <2>3. CASE Checked(p)
    <3>1. proc'[p].pc = "backup" /\ proc'[p].mut = m /\ Unchanged(rec[m].before)
      BY <2>3 DEF Checked, Carries
    <3> QED
      BY <1>2, <3>1 DEF ProcFiles, Unchanged, Applying, RollingBack
  <2>4. CASE Proceeds(p)
    <3>1. /\ proc[p].pc \in {"write", "verify"} /\ proc'[p].pc \in {"write", "save", "restore"}
          /\ proc'[p].mut = m /\ proc'[p].orig = proc[p].orig
          /\ proc'[p].written = proc[p].written
      BY <2>4 DEF Proceeds, Carries
    <3> QED
      BY <1>1, <1>2, <2>1, <3>1 DEF ProcFiles, SavedAll, Saved, Applying, RollingBack
  <2>5. CASE RollbackChecked(p)
    <3>1. /\ proc[p].pc = "rcheck" /\ proc'[p].pc = "rwrite" /\ proc'[p].mut = m
          /\ proc'[p].todo = File
      BY <2>5 DEF RollbackChecked, Carries
    <3> QED
      BY <1>1, <2>1, <3>1 DEF ProcFiles, Done, Applying, RollingBack
  <2>6. ASSUME NEW k \in Mutation, Begins(p, k) PROVE ProcFiles(p)'
    BY <1>2, <2>6 DEF Begins, ProcFiles, Done, Applying, RollingBack
  <2> QED
    BY <2>2, <2>3, <2>4, <2>5, <2>6 DEF Quiet, Errs, DoneAlready
<1> QED
  BY <1>3, <1>4 DEF Copies, Alone

LEMMA BackUpKeepsCopies ==
    ASSUME Alone, DistinctBackups, CfgInv, Copies, NEW p \in Proc, BackUp(p)
    PROVE  Copies'
<1> PICK k : k = proc[p].mut
  OBVIOUS
<1>1. /\ UNCHANGED <<disk, latest, rec>> /\ proc[p].pc = "backup"
      /\ proc'[p].pc = "write" /\ proc'[p].mut = k /\ proc'[p].orig = disk
      /\ \A m \in Mutation \ {k} : backup'[m] = backup[m]
      /\ \A n \in Names :
            \/ \E f \in File : /\ BackupName[f] = n /\ disk[f] # Absent
                               /\ backup'[k][n] = disk[f]
            \/ /\ \A f \in File : BackupName[f] = n => disk[f] = Absent
               /\ backup'[k][n] = backup[k][n]
  BY BackUpDoes
<1>2. /\ k \in Mutation /\ rec[k].status # "none" /\ RecordCopies(k)
      /\ \A f \in File : disk[f] = rec[k].before[f]
  BY <1>1 DEF Copies, ProcFiles, CfgInv, RunningRefs
<1>3. ASSUME NEW f \in File
      PROVE  backup'[k][BackupName[f]] = rec[k].before[f]
  <2>1. BackupName[f] \in Names
    BY DEF Names
  <2>2. CASE disk[f] = Absent /\ backup'[k][BackupName[f]] = backup[k][BackupName[f]]
    BY <1>2, <2>2 DEF RecordCopies, Saved
  <2>3. CASE disk[f] # Absent /\ backup'[k][BackupName[f]] = disk[f]
    BY <1>2, <2>3
  <2> QED
    BY <1>1, <2>1, <2>2, <2>3 DEF DistinctBackups
<1>4. \A f \in File : Saved(k, f)'
  BY <1>1, <1>2, <1>3 DEF Saved
<1>5. RecordCopies(k)' /\ SavedAll(k)'
  BY <1>4 DEF RecordCopies, SavedAll, Saved, Done
<1>6. \A m \in Mutation \ {k} : RecordCopies(m)' /\ \A f \in File : Saved(m, f) => Saved(m, f)'
  BY <1>1, RecordCopiesOn DEF Copies
<1>7. Originals'
  <2>1. Advance
    BY <1>1 DEF Advance, Done
  <2> QED
    BY <1>1, <1>4, <1>6, <2>1, OriginalsOn DEF Copies
<1>8. ProcFiles(p)'
  BY <1>1, <1>2, <1>5 DEF ProcFiles, SavedAll, Saved, Applying, RollingBack
<1> QED
  BY <1>5, <1>6, <1>7, <1>8 DEF Copies, Alone

LEMMA SaveKeepsCopies ==
    ASSUME Alone, CfgInv, Copies, NEW p \in Proc, SaveApplied(p) \/ SaveRolledBack(p)
    PROVE  Copies'
<1> PICK k : k = proc[p].mut
  OBVIOUS
<1>1. /\ UNCHANGED <<disk, backup>> /\ proc'[p].pc = "idle" /\ Advance
      /\ \A m \in Mutation \ {k} : rec'[m] = rec[m]
      /\ rec'[k].before = rec[k].before /\ rec'[k].alloc = rec[k].alloc
      /\ proc[p].pc \in {"save", "rsave"} /\ rec'[k].status \in {"APPLIED", "ROLLED_BACK"}
  BY SaveDoes, WritesAdvance DEF Writes
<1>2. k \in Mutation /\ rec[k].status # "none" /\ RecordCopies(k) /\ SavedAll(k)
  BY <1>1 DEF Copies, ProcFiles, RecordCopies, CfgInv, RunningRefs, Applying, RollingBack
<1>3. SavedAll(k)' /\ \A f \in File : Saved(k, f)'
  BY <1>1, <1>2 DEF SavedAll, Saved
<1>4. RecordCopies(k)'
  BY <1>3 DEF RecordCopies, SavedAll, Saved
<1>5. \A m \in Mutation \ {k} : RecordCopies(m)' /\ \A f \in File : Saved(m, f) => Saved(m, f)'
  BY <1>1, RecordCopiesOn DEF Copies
<1>6. Originals'
  BY <1>1, <1>2, <1>3, <1>5, OriginalsOn DEF Copies
<1>7. ProcFiles(p)'
  BY <1>1 DEF ProcFiles, Applying, RollingBack
<1> QED
  BY <1>4, <1>5, <1>6, <1>7 DEF Copies, Alone

LEMMA FilesKeepCopies ==
    ASSUME Alone, CfgInv, Copies, NEW p \in Proc, NEW f \in File,
           WriteFile(p, f) \/ RestoreFile(p, f) \/ RestoreBackup(p, f)
    PROVE  Copies'
<1> PICK m : m = proc[p].mut
  OBVIOUS
<1>1. /\ UNCHANGED <<rec, backup>> /\ disk \in Contents /\ Advance
      /\ proc[p].pc # "idle" /\ m \in Mutation /\ rec[m].status # "none"
      /\ ProcFiles(p) /\ RecordCopies(m)
  BY WriteFileDoes, RestoreFileDoes, RestoreBackupDoes, WritesAdvance
     DEF CfgInv, CfgTypes, RunningRefs, Writes, Copies
<1>2. \A k \in Mutation : RecordCopies(k)' /\ \A g \in File : Saved(k, g) => Saved(k, g)'
  BY <1>1, RecordCopiesOn DEF Copies
<1>3. (SavedAll(m) => SavedAll(m)') /\ (Done(m) => Done(m)')
  BY <1>1 DEF SavedAll, Saved, Done
<1>4. ASSUME NEW c, disk' = [disk EXCEPT ![f] = c],
             Held(c) => \/ Kept(c.port, f)
                        \/ \E k \in Mutation : rec[k].status # "none" /\ c = rec[k].before[f]
      PROVE  Originals'
  <2>1. disk'[f] = c /\ \A g \in File \ {f} : disk'[g] = disk[g]
    BY <1>1, <1>4 DEF Contents
  <2> QED
    BY <1>1, <1>2, <1>4, <2>1, OriginalsOn DEF Copies
<1>5. ASSUME Originals', ProcFiles(p)' PROVE Copies'
  BY <1>2, <1>5 DEF Copies, Alone
<1>6. CASE WriteFile(p, f)
  <2>1. /\ disk' = [disk EXCEPT ![f] = Planned(m, f)] /\ proc[p].pc = "write"
        /\ proc'[p].pc = "verify" /\ proc'[p].mut = m /\ proc'[p].orig = proc[p].orig
        /\ proc'[p].written = proc[p].written \cup {f}
    BY <1>6, WriteFileDoes DEF Carries
  <2>2. Kept(Planned(m, f).port, f)
    BY <1>1, <2>1, PlannedTyped DEF ProcFiles, Applying, SavedAll, Kept, CfgInv
  <2>3. ProcFiles(p)'
    BY <1>1, <1>3, <2>1 DEF ProcFiles, SavedAll, Saved, Contents, Applying, RollingBack
  <2> QED
    BY <1>4, <1>5, <2>1, <2>2, <2>3
<1>7. CASE RestoreFile(p, f)
  <2>1. /\ disk' = [disk EXCEPT ![f] = proc[p].orig[f]] /\ proc[p].pc = "restore"
        /\ \/ proc'[p].pc = "idle"
           \/ /\ proc'[p].pc = "restore" /\ proc'[p].mut = m
              /\ proc'[p].orig = proc[p].orig
              /\ proc'[p].written = proc[p].written \ {f}
    BY <1>7, RestoreFileDoes DEF Carries
  <2>2. proc[p].orig[f] = rec[m].before[f]
    BY <1>1, <2>1 DEF ProcFiles, Applying
  <2>3. ProcFiles(p)'
    BY <1>1, <1>3, <2>1 DEF ProcFiles, SavedAll, Saved, Contents, Applying, RollingBack
  <2> QED
    BY <1>1, <1>4, <1>5, <2>1, <2>2, <2>3
<1>8. CASE RestoreBackup(p, f)
  <2>1. /\ disk' = [disk EXCEPT ![f] = backup[m][BackupName[f]]] /\ proc[p].pc = "rwrite"
        /\ proc'[p].mut = m /\ proc'[p].todo = proc[p].todo \ {f}
        /\ proc'[p].pc = IF proc[p].todo = {f} THEN "rsave" ELSE "rwrite"
    BY <1>8, RestoreBackupDoes DEF Carries
  <2>2. Done(m) /\ backup[m][BackupName[f]] = rec[m].before[f]
    BY <1>1, <2>1 DEF ProcFiles, RollingBack, RecordCopies, SavedAll, Saved
  <2>3. proc'[p].pc = "rsave" => proc'[p].todo = {}
    BY <2>1
  <2>4. \A g \in File : g \notin proc'[p].todo => disk'[g] = rec'[m].before[g]
    BY <1>1, <2>1, <2>2 DEF ProcFiles, Contents
  <2>5. ProcFiles(p)'
    BY <1>3, <2>1, <2>2, <2>3, <2>4 DEF ProcFiles, Done, Applying, RollingBack
  <2> QED
    BY <1>1, <1>4, <1>5, <2>1, <2>2, <2>5
<1> QED
  BY <1>6, <1>7, <1>8

LEMMA CopiesKept ==
    ASSUME Alone, DistinctBackups, CfgInv, Copies, CfgStep
    PROVE  Copies'
<1>1. CASE UNCHANGED cfg
  BY <1>1 DEF cfg, Copies, Originals, Held, Kept, RecordCopies, SavedAll, Saved, ProcFiles, Done
<1>2. ASSUME NEW f \in File, \A p \in Proc : proc[p].pc = "idle", Edit(f) PROVE Copies'
  <2>1. /\ UNCHANGED <<rec, backup, proc>>
        /\ \A g \in File \ {f} : disk'[g] = disk[g]
        /\ disk'[f].port = IF disk[f] = Absent THEN NoAlloc ELSE disk[f].port
    BY <1>2, EditDoes DEF CfgInv
  <2>2. Advance
    BY <2>1 DEF Advance, Done
  <2>3. \A m \in Mutation : RecordCopies(m)' /\ \A g \in File : Saved(m, g) => Saved(m, g)'
    BY <2>1, RecordCopiesOn DEF Copies
  <2>4. \A g \in File : Held(disk'[g]) => Held(disk[g]) /\ disk'[g].port = disk[g].port
    BY <2>1 DEF Held
  <2>5. Originals'
    BY <2>1, <2>2, <2>3, <2>4, OriginalsOn DEF Copies
  <2>6. \A p \in Proc : ProcFiles(p)'
    BY <1>2, <2>1 DEF ProcFiles, Applying, RollingBack
  <2> QED
    BY <2>3, <2>5, <2>6 DEF Copies
<1>3. ASSUME NEW m \in Mutation, NEW a \in Alloc, PersistPlan(m, a) PROVE Copies'
  <2>1. /\ UNCHANGED <<disk, latest, edits, backup, proc>> /\ rec[m].status = "none"
        /\ \A k \in Mutation \ {m} : rec'[k] = rec[k]
        /\ rec'[m].status = "PLANNED" /\ rec'[m].before = disk
    BY <1>3, PersistDoes DEF CfgInv
  <2>2. Advance
    BY <2>1 DEF Advance, Done
  <2>3. RecordCopies(m)'
    <3>1. RecordCopies(m) /\ ~Done(m)'
      BY <2>1 DEF Copies, Done
    <3>2. \A f \in File : backup'[m][BackupName[f]] = Absent
      BY <2>1, <3>1 DEF RecordCopies, Saved
    <3> QED
      BY <3>1, <3>2 DEF RecordCopies
  <2>4. \A k \in Mutation \ {m} : RecordCopies(k)' /\ \A f \in File : Saved(k, f) => Saved(k, f)'
    BY <2>1, RecordCopiesOn DEF Copies
  <2>5. \A k \in Mutation, f \in File : Saved(k, f) => Saved(k, f)'
    BY <2>1, <2>4 DEF Saved
  <2>6. Originals'
    <3> SUFFICES ASSUME NEW f \in File
                 PROVE  /\ Held(disk'[f]) => Kept(disk[f].port, f)'
                        /\ \A k \in Mutation :
                              rec'[k].status # "none" /\ Held(rec'[k].before[f]) =>
                                 Kept(rec[k].before[f].port, f)'
      BY DEF Originals, Held
    <3>1. \A b : Kept(b, f) => Kept(b, f)'
      BY <2>2, <2>5, KeptOn
    <3>2. Held(disk[f]) => Kept(disk[f].port, f)
      BY DEF Copies, Originals
    <3>3. ASSUME NEW k \in Mutation, rec'[k].status # "none", Held(rec'[k].before[f])
          PROVE  Kept(rec'[k].before[f].port, f)
      BY <2>1, <3>2, <3>3 DEF Copies, Originals
    <3> QED
      BY <2>1, <3>1, <3>2, <3>3 DEF Kept, Saved
  <2>7. ASSUME NEW p \in Proc PROVE ProcFiles(p)'
    <3> PICK k : k = proc[p].mut
      OBVIOUS
    <3>1. CASE proc[p].pc = "idle"
      BY <2>1, <3>1 DEF ProcFiles, Applying, RollingBack
    <3>2. CASE proc[p].pc # "idle"
      <4>1. rec'[k] = rec[k] /\ ProcFiles(p)
        BY <2>1, <3>2 DEF CfgInv, RunningRefs, Copies
      <4> QED
        BY <2>1, <4>1 DEF ProcFiles, SavedAll, Saved, Done
    <3> QED
      BY <3>1, <3>2
  <2> QED
    BY <2>3, <2>4, <2>6, <2>7 DEF Copies
<1>4. ASSUME NEW p \in Proc, Writes(p) PROVE Copies'
  BY <1>4, BackUpKeepsCopies, SaveKeepsCopies, FilesKeepCopies DEF Writes
<1> QED
  BY <1>1, <1>2, <1>3, <1>4, QuietKeepsCopies DEF CfgStep

LEMMA CopiesInvariance == Alone /\ DistinctBackups /\ WorkflowSpec => []Copies
<1> SUFFICES ASSUME Alone, DistinctBackups PROVE WorkflowSpec => []Copies
  OBVIOUS
<1>1. WorkflowInit => Copies
  <2> SUFFICES ASSUME WorkflowInit PROVE Copies
    OBVIOUS
  <2>1. /\ \A m \in Mutation : rec[m].status = "none" /\ ~Done(m)
        /\ \A m \in Mutation, f \in File : backup[m][BackupName[f]] = Absent
        /\ \A p \in Proc : proc[p].pc = "idle"
    BY EndedTyped DEF WorkflowInit, InitFiles, NoRecord, Done
  <2>2. \A f \in File : ~Held(disk[f])
    BY DEF WorkflowInit, InitFiles, Held
  <2> QED
    BY <2>1, <2>2 DEF Copies, Originals, RecordCopies, ProcFiles, Applying, RollingBack
<1>2. WInv /\ Copies /\ [WorkflowNext]_allvars => Copies'
  BY WorkflowIsCfg, CopiesKept DEF WInv
<1> QED
  BY <1>1, <1>2, WInvariance, PTL DEF WorkflowSpec

(* Whatever is killed or fails, every file that holds an allocation's      *)
(* ports has its original in the backups of a mutation of that allocation: *)
(* the backups come before the first write.                                *)
THEOREM OriginalsAreKept == Alone /\ DistinctBackups /\ WorkflowSpec => []OriginalsKept
<1> SUFFICES ASSUME Alone, DistinctBackups PROVE WorkflowSpec => []OriginalsKept
  OBVIOUS
<1>1. Copies => OriginalsKept
  BY DEF Copies, Originals, Held, Kept, Saved, OriginalsKept
<1> QED
  BY <1>1, CopiesInvariance, PTL

(* A rollback that reports success has put back every file exactly as it   *)
(* was when the mutation was planned.                                      *)
THEOREM RollbacksAreExact == Alone /\ DistinctBackups /\ WorkflowSpec => RollbackIsExact
<1> SUFFICES ASSUME Alone, DistinctBackups PROVE WorkflowSpec => RollbackIsExact
  OBVIOUS
<1> DEFINE Exact == \A m \in Mutation :
              rec'[m].status = "ROLLED_BACK" /\ rec[m].status # "ROLLED_BACK" =>
                 disk = rec[m].before
<1>1. WInv /\ Copies /\ [WorkflowNext]_allvars => [Exact]_vars
  <2> SUFFICES ASSUME WInv, Copies, [WorkflowNext]_allvars,
                      NEW m \in Mutation,
                      rec'[m].status = "ROLLED_BACK", rec[m].status # "ROLLED_BACK"
               PROVE  disk = rec[m].before
    OBVIOUS
  <2>1. CfgStep /\ CfgInv
    BY WorkflowIsCfg DEF WInv
  <2>2. ASSUME NEW p \in Proc, Quiet(p) PROVE FALSE
    <3>1. rec' = rec
      BY <2>2, QuietGoesOn DEF project
    <3> QED
      BY <3>1
  <2>3. ASSUME NEW k \in Mutation, NEW a \in Alloc, PersistPlan(k, a) PROVE FALSE
    BY <2>1, <2>3, PersistDoes DEF CfgInv
  <2>4. PICK p \in Proc : Writes(p)
    BY <2>1, <2>2, <2>3 DEF CfgStep, Edit, cfg
  <2>5. SaveApplied(p) \/ SaveRolledBack(p)
    BY <2>1, <2>4, BackUpDoes, WriteFileDoes, RestoreFileDoes, RestoreBackupDoes DEF Writes
  <2>6. proc[p].pc = "rsave" /\ proc[p].mut = m
    BY <2>1, <2>5, SaveDoes
  <2>7. \A f \in File : disk[f] = rec[m].before[f]
    BY <2>6 DEF Copies, ProcFiles
  <2>8. disk \in Contents /\ rec[m].before \in Contents
    BY <2>1 DEF CfgInv, CfgTypes, Record
  <2> QED
    BY <2>7, <2>8 DEF Contents
<1> QED
  BY <1>1, WInvariance, CopiesInvariance, PTL DEF WorkflowSpec, RollbackIsExact

(* An apply that fails without being killed leaves every file as it found  *)
(* it: the restore in apply_mutation's except block.                       *)
THEOREM AppliesAllOrNothing ==
    Alone /\ DistinctBackups /\ WorkflowSpec => ApplyAllOrNothing
<1> SUFFICES ASSUME Alone, DistinctBackups PROVE WorkflowSpec => ApplyAllOrNothing
  OBVIOUS
<1> DEFINE Whole == \A p \in Proc :
              proc[p].pc \in {"write", "verify", "restore"}
                  /\ proc'[p].result = "error" /\ aborts' = aborts
                  => disk' = proc[p].orig
<1>1. WInv /\ Copies /\ [WorkflowNext]_allvars => [Whole]_vars
  <2> SUFFICES ASSUME WInv, Copies, [WorkflowNext]_allvars, NEW p \in Proc,
                      proc[p].pc \in {"write", "verify", "restore"},
                      proc'[p].result = "error", aborts' = aborts
               PROVE  disk' = proc[p].orig
    OBVIOUS
  <2>1. /\ CfgStep /\ CfgInv /\ proc[p].result = "none"
        /\ disk \in Contents /\ disk' \in Contents /\ proc[p].orig \in Contents
    <3>1. CfgStep /\ CfgInv /\ CfgInv'
      BY WorkflowIsCfg, CfgKept DEF WInv
    <3> QED
      BY <3>1 DEF CfgInv, CfgTypes, RunningRefs, ProcState
  <2>2. \A f \in File : f \notin proc[p].written => disk[f] = proc[p].orig[f]
    BY DEF Copies, ProcFiles, Applying
  <2>3. SUFFICES \A f \in File : disk'[f] = proc[p].orig[f]
    BY <2>1 DEF Contents
  <2>4. ASSUME Quiet(p) PROVE disk' = disk /\ proc[p].written = {}
    <3>1. Errs(p)
      BY <2>1, <2>4 DEF Quiet, DoneAlready, Checked, Proceeds, RollbackChecked, Carries, Begins
    <3> QED
      BY <2>4, <3>1 DEF Quiet, Errs, project
  <2>5. ASSUME Writes(p)
        PROVE  \E f \in File : /\ disk' = [disk EXCEPT ![f] = proc[p].orig[f]]
                               /\ proc[p].written \ {f} = {}
    <3>1. PICK f \in File : RestoreFile(p, f)
      BY <2>1, <2>5, BackUpDoes, SaveDoes, WriteFileDoes, RestoreBackupDoes DEF Writes, Carries
    <3> QED
      BY <2>1, <3>1, RestoreFileDoes DEF Carries
  <2>6. Quiet(p) \/ Writes(p)
    BY <2>1, EditDoes, PersistDoes DEF CfgStep, CfgInv, cfg, Alone
  <2>7. CASE Quiet(p)
    BY <2>2, <2>4, <2>7
  <2>8. CASE Writes(p)
    BY <2>1, <2>2, <2>5, <2>8 DEF Contents
  <2> QED
    BY <2>6, <2>7, <2>8
<1> QED
  BY <1>1, WInvariance, CopiesInvariance, PTL DEF WorkflowSpec, ApplyAllOrNothing

-----------------------------------------------------------------------------
(* What is written into the files.                                         *)

(* A document holds the port of an entry: the entry means one place, and   *)
(* what is there is what the editor writes.                                *)
Holds(kind, doc, e, port) ==
    IF kind = "dotenv"
    THEN \E i \in DOMAIN doc : /\ Assignments(doc, e.key) = {i}
                               /\ doc[i] = [key |-> e.key, value |-> port, neat |-> TRUE]
    ELSE \E p \in Places(kind, doc) : /\ Meant(kind, doc, e) = {p}
                                      /\ At(kind, doc, p).port = port

(* Two entries cannot mean the same place.                                 *)
Apart(kind, e, d) ==
    CASE kind = "dotenv" -> e.key # d.key
      [] kind = "compose" ->
            ~(e.service = d.service /\ e.container = d.container /\ e.protocol = d.protocol)
      [] kind = "kubernetes" ->
            ~(/\ e.kind = d.kind /\ e.name = d.name /\ e.container = d.container
              /\ e.match = d.match /\ e.protocol = d.protocol
              /\ (e.ns = d.ns \/ NoNamespace \in {e.ns, d.ns}))

(* The entries of a mapping mean different places.                         *)
Distinct(m) ==
    \A i, j \in DOMAIN m.entries :
        i # j => Apart(KindOf[m.file], m.entries[i], m.entries[j])

(* The places that are the object an entry means.                          *)
Touched(kind, doc, e) ==
    {p \in Places(kind, doc) : \E q \in Meant(kind, doc, e) : OneNode(kind, doc, p, q)}

(* new is old with nothing written but what entry e means.                 *)
OnlyChanged(kind, old, new, e) ==
    /\ Around(kind, new) = Around(kind, old)
    /\ Places(kind, old) \subseteq Places(kind, new)
    /\ Places(kind, new) \ Places(kind, old) \subseteq Touched(kind, new, e)
    /\ SharingKept(kind, old, new)
    /\ \A p \in Places(kind, old) :
          IF p \in Touched(kind, old, e)
          THEN Label(kind, At(kind, new, p)) = Label(kind, At(kind, old, p))
          ELSE At(kind, new, p) = At(kind, old, p)

(* What every editor does for an entry.                                    *)
WellEdited(kind, doc, new, e, port) ==
    /\ IsDocument(kind, new)
    /\ Holds(kind, new, e, port)
    /\ OnlyChanged(kind, doc, new, e)
    /\ \A d \in Entry(kind), q \in Nat :
          Apart(kind, e, d) /\ Separate(kind, new, e, d) /\ Holds(kind, doc, d, q)
          => Holds(kind, new, d, q)
    /\ Holds(kind, doc, e, port) => new = doc

-----------------------------------------------------------------------------
(* Places and the objects they are.                                        *)

LEMMA MeantArePlaces ==
    ASSUME NEW kind \in Kind, NEW doc, NEW e
    PROVE  Meant(kind, doc, e) \subseteq Places(kind, doc)
<1>1. CASE kind = "dotenv"
  BY <1>1 DEF Meant, Assignments, Places
<1>2. CASE kind = "compose"
  BY <1>2 DEF Meant, Published, Places
<1>3. CASE kind = "kubernetes"
  BY <1>3 DEF Meant, FindResource, FindPort, Places
<1>. QED
  BY <1>1, <1>2, <1>3 DEF Kind

(* The parts of a document that is not a dotenv file.                      *)
LEMMA PartsTyped ==
    ASSUME NEW kind \in {"compose", "kubernetes"}, NEW doc, IsDocument(kind, doc)
    PROVE  /\ doc = [x \in DOMAIN doc |-> doc[x]]
           /\ kind = "compose" =>
                 /\ DOMAIN doc \subseteq Service
                 /\ \A x \in DOMAIN doc : /\ doc[x] \in ServicePorts
                                          /\ doc[x].ports \in Seq(Publication)
           /\ kind = "kubernetes" =>
                 /\ doc \in Seq(Workload)
                 /\ \A x \in DOMAIN doc : /\ doc[x] \in Workload
                                          /\ doc[x].ports \in Seq(PortEntry)
           /\ NodesAgree(kind, doc)
<1>1. CASE kind = "compose"
  <2>1. PICK S \in SUBSET Service : doc \in [S -> ServicePorts]
    BY <1>1 DEF IsDocument
  <2>2. \A x \in S : doc[x].ports \in Seq(Publication)
    BY <2>1 DEF ServicePorts
  <2>. QED
    BY <1>1, <2>1, <2>2 DEF IsDocument
<1>2. CASE kind = "kubernetes"
  <2>1. doc \in Seq(Workload)
    BY <1>2 DEF IsDocument
  <2>2. \A x \in DOMAIN doc : doc[x] \in Workload
    BY <2>1
  <2>3. \A x \in DOMAIN doc : doc[x].ports \in Seq(PortEntry)
    BY <2>2 DEF Workload
  <2>. QED
    BY <1>2, <2>1, <2>2, <2>3 DEF IsDocument
<1>. QED
  BY <1>1, <1>2

LEMMA PlaceIs ==
    ASSUME NEW kind \in {"compose", "kubernetes"}, NEW doc
    PROVE  \A p : p \in Places(kind, doc) <=>
              \E x \in DOMAIN doc : \E i \in DOMAIN doc[x].ports : p = <<x, i>>
  BY DEF Places

LEMMA MeantIs ==
    ASSUME NEW doc, NEW e
    PROVE  /\ \A p : p \in Meant("compose", doc, e) <=>
                 /\ e.service \in DOMAIN doc
                 /\ \E i \in Published(doc[e.service].ports, e) : p = <<e.service, i>>
           /\ \A p : p \in Meant("kubernetes", doc, e) <=>
                 \E i \in FindResource(doc, e) : \E j \in FindPort(doc[i], e) : p = <<i, j>>
  BY DEF Meant

LEMMA AtTyped ==
    ASSUME NEW kind \in {"compose", "kubernetes"}, NEW doc, IsDocument(kind, doc),
           NEW p \in Places(kind, doc)
    PROVE  /\ p = <<p[1], p[2]>> /\ p[1] \in DOMAIN doc /\ p[2] \in DOMAIN doc[p[1]].ports
           /\ At(kind, doc, p) = doc[p[1]].ports[p[2]]
           /\ kind = "compose" => At(kind, doc, p) \in Publication
           /\ kind = "kubernetes" => At(kind, doc, p) \in PortEntry
<1>1. PICK x \in DOMAIN doc : \E i \in DOMAIN doc[x].ports : p = <<x, i>>
  BY PlaceIs
<1>2. PICK i \in DOMAIN doc[x].ports : p = <<x, i>>
  BY <1>1
<1>3. At(kind, doc, p) = doc[x].ports[i]
  BY <1>2 DEF At
<1>4. kind = "compose" => doc[x].ports[i] \in Publication
  BY <1>2, PartsTyped
<1>5. kind = "kubernetes" => doc[x].ports[i] \in PortEntry
  BY <1>2, PartsTyped
<1>. QED
  BY <1>2, <1>3, <1>4, <1>5

(* What is one object of the parsed file is so either way round, and two   *)
(* places that are one with a third are one.                               *)
LEMMA NodesJoin ==
    ASSUME NEW kind \in {"compose", "kubernetes"}, NEW doc, IsDocument(kind, doc),
           NEW p \in Places(kind, doc), NEW q \in Places(kind, doc),
           NEW r \in Places(kind, doc),
           OneNode(kind, doc, p, q)
    PROVE  /\ OneNode(kind, doc, q, p)
           /\ OneNode(kind, doc, p, r) <=> OneNode(kind, doc, q, r)
<1>1. ASSUME NEW a \in Places(kind, doc), NEW b \in Places(kind, doc), OneNode(kind, doc, a, b)
      PROVE  At(kind, doc, a).anchor = At(kind, doc, b).anchor
  <2>1. NodeValue(kind, At(kind, doc, a)) = NodeValue(kind, At(kind, doc, b))
    BY <1>1, PartsTyped DEF NodesAgree
  <2>2. CASE kind = "compose"
    BY <2>1, <2>2 DEF NodeValue
  <2>3. CASE kind = "kubernetes"
    <3>1. At(kind, doc, a) \in PortEntry /\ At(kind, doc, b) \in PortEntry
      BY <2>3, AtTyped
    <3>2. [At(kind, doc, a) EXCEPT !.container = 0] = [At(kind, doc, b) EXCEPT !.container = 0]
      BY <2>1, <2>3 DEF NodeValue
    <3>. QED
      BY <3>1, <3>2 DEF PortEntry
  <2>. QED
    BY <2>2, <2>3
<1>2. At(kind, doc, p).anchor = At(kind, doc, q).anchor
  BY <1>1
<1>3. /\ OneNode(kind, doc, p, r) => At(kind, doc, p).anchor = At(kind, doc, r).anchor
      /\ OneNode(kind, doc, q, r) => At(kind, doc, q).anchor = At(kind, doc, r).anchor
  BY <1>1
<1>4. CASE kind = "compose"
  BY <1>2, <1>3, <1>4 DEF OneNode, SameAnchor
<1>5. CASE kind = "kubernetes"
  BY <1>2, <1>3, <1>5 DEF OneNode, SameAnchor
<1>. QED
  BY <1>4, <1>5

LEMMA NodeItself ==
    ASSUME NEW kind \in Kind, NEW doc, NEW p
    PROVE  OneNode(kind, doc, p, p)
BY DEF OneNode, Kind

-----------------------------------------------------------------------------
(* An entry means the same places before and after an edit that keeps what *)
(* is around them and their labels.                                        *)
LEMMA MeansTheSame ==
    ASSUME NEW kind \in Kind, NEW old, IsDocument(kind, old), NEW new, IsDocument(kind, new),
           Around(kind, new) = Around(kind, old),
           Places(kind, old) \subseteq Places(kind, new),
           \A p \in Places(kind, old) :
               Label(kind, At(kind, new, p)) = Label(kind, At(kind, old, p)),
           NEW e, NEW p \in Places(kind, old)
    PROVE  p \in Meant(kind, old, e) <=> p \in Meant(kind, new, e)
<1>1. CASE kind = "dotenv"
  BY <1>1 DEF Places, Label, At, Meant, Assignments
<1>2. CASE kind = "compose"
  <2> DEFINE s == p[1]
             i == p[2]
  <2>1. /\ p = <<s, i>> /\ s \in DOMAIN old /\ i \in DOMAIN old[s].ports
        /\ At(kind, old, p) = old[s].ports[i] /\ old[s].ports[i] \in Publication
    BY <1>2, AtTyped
  <2>2. /\ s \in DOMAIN new /\ i \in DOMAIN new[s].ports
        /\ At(kind, new, p) = new[s].ports[i] /\ new[s].ports[i] \in Publication
    BY <1>2, AtTyped
  <2> HIDE DEF s, i
  <2>3. [new[s].ports[i] EXCEPT !.port = NoPort] = [old[s].ports[i] EXCEPT !.port = NoPort]
    BY <1>2, <2>1, <2>2 DEF Label
  <2>4. /\ new[s].ports[i].readable = old[s].ports[i].readable
        /\ new[s].ports[i].container = old[s].ports[i].container
        /\ new[s].ports[i].protocol = old[s].ports[i].protocol
    BY <2>1, <2>2, <2>3 DEF Publication
  <2>5. i \in Published(old[s].ports, e) <=> i \in Published(new[s].ports, e)
    BY <2>1, <2>2, <2>4 DEF Published
  <2>. QED
    BY <1>2, <2>1, <2>2, <2>5 DEF Meant
<1>3. CASE kind = "kubernetes"
  <2>1. PICK i \in DOMAIN old : \E j \in DOMAIN old[i].ports : p = <<i, j>>
    BY <1>3 DEF Places
  <2>2. PICK j \in DOMAIN old[i].ports : p = <<i, j>>
    BY <2>1
  <2>3. /\ DOMAIN new = DOMAIN old
        /\ \A k \in DOMAIN old : [new[k] EXCEPT !.ports = <<>>] = [old[k] EXCEPT !.ports = <<>>]
    BY <1>3 DEF Around
  <2>4. \A k \in DOMAIN old : old[k] \in Workload /\ new[k] \in Workload
    BY <1>3, <2>3 DEF IsDocument
  <2>5. \A k \in DOMAIN old : /\ new[k].kind = old[k].kind /\ new[k].name = old[k].name
                              /\ new[k].ns = old[k].ns
                              /\ new[k].containers = old[k].containers
    BY <2>3, <2>4 DEF Workload
  <2>6. j \in DOMAIN new[i].ports
    <3>1. p \in Places("kubernetes", new)
      BY <1>3
    <3>. QED
      BY <2>2, <3>1 DEF Places
  <2>7. old[i].ports[j] \in PortEntry /\ new[i].ports[j] \in PortEntry
    BY <2>4, <2>6 DEF Workload
  <2>8. [new[i].ports[j] EXCEPT !.port = NoPort] = [old[i].ports[j] EXCEPT !.port = NoPort]
    BY <1>3, <2>2 DEF Label, At
  <2>9. /\ new[i].ports[j].container = old[i].ports[j].container
        /\ new[i].ports[j].match = old[i].ports[j].match
        /\ new[i].ports[j].protocol = old[i].ports[j].protocol
    BY <2>7, <2>8 DEF PortEntry
  <2>10. FindContainer(new[i], e) = FindContainer(old[i], e)
    BY <2>5 DEF FindContainer
  <2>11. j \in FindPort(old[i], e) <=> j \in FindPort(new[i], e)
    BY <2>6, <2>9, <2>10 DEF FindPort
  <2>12. i \in FindResource(old, e) <=> i \in FindResource(new, e)
    BY <2>3, <2>5 DEF FindResource
  <2>. QED
    BY <1>3, <2>2, <2>11, <2>12 DEF Meant
<1>. QED
  BY <1>1, <1>2, <1>3 DEF Kind

-----------------------------------------------------------------------------
(* Dotenv files.                                                           *)

LEMMA DotenvEdited ==
    ASSUME NEW doc, IsDocument("dotenv", doc), NEW e \in Entry("dotenv"), NEW port \in Nat,
           NEW new \in Assigned(doc, e, port)
    PROVE  WellEdited("dotenv", doc, new, e, port)
<1> DEFINE line == [key |-> e.key, value |-> port, neat |-> TRUE]
           at == Assignments(doc, e.key)
           WrittenAt(i) ==
               /\ new \in Seq(Assignment)
               /\ DOMAIN new = DOMAIN doc \cup {i}
               /\ new[i] = line
               /\ \A j \in DOMAIN doc \ {i} : new[j] = doc[j] /\ doc[j].key # e.key
               /\ i \in DOMAIN doc => doc[i].key = e.key /\ new = [doc EXCEPT ![i] = line]
<1>1. doc \in Seq(Assignment) /\ e.key \in STRING /\ line \in Assignment
  BY DEF IsDocument, Entry, Assignment
<1>2. \/ at = {} /\ new = Append(doc, line)
      \/ \E i \in DOMAIN doc : at = {i} /\ new = [doc EXCEPT ![i] = line]
  BY DEF Assigned, Assignments
<1>3. \E i \in DOMAIN new : WrittenAt(i)
  <2>1. CASE at = {} /\ new = Append(doc, line)
    <3>1. new \in Seq(Assignment) /\ Len(new) = Len(doc) + 1 /\ new[Len(doc) + 1] = line
      BY <1>1, <2>1
    <3>2. \A j \in DOMAIN doc : new[j] = doc[j] /\ doc[j].key # e.key
      BY <1>1, <2>1 DEF Assignments
    <3>3. Len(doc) + 1 \in DOMAIN new /\ DOMAIN new = DOMAIN doc \cup {Len(doc) + 1}
      BY <1>1, <3>1
    <3>4. Len(doc) + 1 \notin DOMAIN doc
      BY <1>1
    <3>. QED
      BY <3>1, <3>2, <3>3, <3>4
  <2>2. ASSUME NEW i \in DOMAIN doc, at = {i}, new = [doc EXCEPT ![i] = line]
        PROVE  \E k \in DOMAIN new : WrittenAt(k)
    <3>1. new \in Seq(Assignment) /\ DOMAIN new = DOMAIN doc /\ new[i] = line
      BY <1>1, <2>2
    <3>2. \A j \in DOMAIN doc \ {i} : new[j] = doc[j] /\ doc[j].key # e.key
      BY <1>1, <2>2 DEF Assignments
    <3>3. doc[i].key = e.key
      BY <2>2 DEF Assignments
    <3>. QED
      BY <3>1, <3>2, <3>3, <2>2
  <2>. QED
    BY <1>2, <2>1, <2>2
<1>4. PICK i \in DOMAIN new : WrittenAt(i)
  BY <1>3
<1>5. Assignments(new, e.key) = {i}
  BY <1>4 DEF Assignments
<1>6. Assignments(doc, e.key) = {i} \cap DOMAIN doc
  BY <1>4 DEF Assignments
<1>7. Holds("dotenv", new, e, port)
  BY <1>4, <1>5 DEF Holds
<1>8. OnlyChanged("dotenv", doc, new, e)
  BY <1>4, <1>5, <1>6 DEF OnlyChanged, Touched, SharingKept, OneNode, Around, Places, Meant,
                         At, Label
<1>9. ASSUME NEW d \in Entry("dotenv"), NEW q \in Nat, Apart("dotenv", e, d),
             Separate("dotenv", new, e, d), Holds("dotenv", doc, d, q)
      PROVE  Holds("dotenv", new, d, q)
  <2>1. d.key # e.key
    BY <1>9 DEF Apart
  <2>2. PICK j \in DOMAIN doc : /\ Assignments(doc, d.key) = {j}
                                /\ doc[j] = [key |-> d.key, value |-> q, neat |-> TRUE]
    BY <1>9 DEF Holds
  <2>3. j # i /\ new[j] = doc[j]
    BY <1>4, <2>1, <2>2
  <2>4. Assignments(new, d.key) = {j}
    BY <1>4, <2>1, <2>2, <2>3 DEF Assignments
  <2>. QED
    BY <1>4, <2>2, <2>3, <2>4 DEF Holds
<1>10. Holds("dotenv", doc, e, port) => new = doc
  <2>1. SUFFICES ASSUME NEW j \in DOMAIN doc, Assignments(doc, e.key) = {j}, doc[j] = line
                 PROVE  new = doc
    BY DEF Holds
  <2>2. j = i
    BY <1>6, <2>1
  <2>3. new = [doc EXCEPT ![i] = doc[i]]
    BY <1>4, <2>1, <2>2
  <2>. QED
    BY <1>1, <2>3
<1>. QED
  BY <1>4, <1>7, <1>8, <1>9, <1>10 DEF WellEdited, IsDocument

-----------------------------------------------------------------------------
(* Compose and Kubernetes files.                                           *)

(* new is doc with the port of e written into the object of place q.       *)
Wrote(kind, doc, new, e, port, q) ==
    /\ IsDocument(kind, new)
    /\ q \in Places(kind, new) /\ At(kind, new, q).port = port
    /\ Meant(kind, new, e) = {q} /\ Meant(kind, doc, e) = {q} \cap Places(kind, doc)
    /\ Around(kind, new) = Around(kind, doc)
    /\ Places(kind, doc) \subseteq Places(kind, new)
    /\ \A p \in Places(kind, new) \ Places(kind, doc) : OneNode(kind, new, p, q)
    /\ SharingKept(kind, doc, new)
    /\ \A p \in Places(kind, doc) :
          At(kind, new, p) = IF OneNode(kind, new, p, q)
                             THEN [At(kind, doc, p) EXCEPT !.port = port]
                             ELSE At(kind, doc, p)
    /\ q \in Places(kind, doc) /\ At(kind, doc, q).port = port => new = doc

LEMMA ApartMeans ==
    ASSUME NEW kind \in {"compose", "kubernetes"}, NEW doc, NEW e, NEW d,
           Apart(kind, e, d), NEW p \in Meant(kind, doc, e)
    PROVE  p \notin Meant(kind, doc, d)
<1>1. CASE kind = "compose"
  BY <1>1 DEF Meant, Published, Apart
<1>2. CASE kind = "kubernetes"
  <2>1. SUFFICES ASSUME p \in Meant(kind, doc, d) PROVE FALSE
    OBVIOUS
  <2>2. PICK i \in FindResource(doc, e) : \E j \in FindPort(doc[i], e) : p = <<i, j>>
    BY <1>2 DEF Meant
  <2>3. PICK j \in FindPort(doc[i], e) : p = <<i, j>>
    BY <2>2
  <2>4. i \in FindResource(doc, d) /\ j \in FindPort(doc[i], d)
    BY <1>2, <2>1, <2>3 DEF Meant
  <2>5. /\ doc[i].kind = e.kind /\ doc[i].name = e.name
        /\ doc[i].kind = d.kind /\ doc[i].name = d.name
        /\ e.ns # NoNamespace => doc[i].ns = e.ns
        /\ d.ns # NoNamespace => doc[i].ns = d.ns
    BY <2>2, <2>4 DEF FindResource
  <2>6. /\ doc[i].ports[j].match = e.match /\ doc[i].ports[j].protocol = e.protocol
        /\ doc[i].ports[j].match = d.match /\ doc[i].ports[j].protocol = d.protocol
        /\ doc[i].ports[j].container \in FindContainer(doc[i], e)
        /\ doc[i].ports[j].container \in FindContainer(doc[i], d)
    BY <2>3, <2>4 DEF FindPort
  <2>7. e.container = d.container
    BY <2>6 DEF FindContainer
  <2>. QED
    BY <1>2, <2>5, <2>6, <2>7 DEF Apart
<1>. QED
  BY <1>1, <1>2

LEMMA WroteWell ==
    ASSUME NEW kind \in {"compose", "kubernetes"}, NEW doc, IsDocument(kind, doc),
           NEW e \in Entry(kind), NEW port \in Nat, NEW new, NEW q,
           Wrote(kind, doc, new, e, port, q)
    PROVE  WellEdited(kind, doc, new, e, port)
<1>0. kind \in Kind /\ kind # "dotenv"
  BY DEF Kind
<1>1. /\ IsDocument(kind, new) /\ q \in Places(kind, new)
      /\ Meant(kind, new, e) = {q} /\ Meant(kind, doc, e) = {q} \cap Places(kind, doc)
      /\ SharingKept(kind, doc, new)
      /\ Places(kind, doc) \subseteq Places(kind, new)
  BY DEF Wrote
<1>2. ASSUME NEW p \in Places(kind, doc)
      PROVE  Label(kind, At(kind, new, p)) = Label(kind, At(kind, doc, p))
  <2>1. CASE kind = "compose"
    <3>1. At(kind, doc, p) \in Publication
      BY <2>1, AtTyped
    <3>2. \/ At(kind, new, p) = At(kind, doc, p)
          \/ At(kind, new, p) = [At(kind, doc, p) EXCEPT !.port = port]
      BY DEF Wrote
    <3>. QED
      BY <1>0, <3>1, <3>2 DEF Label, Publication
  <2>2. CASE kind = "kubernetes"
    <3>1. At(kind, doc, p) \in PortEntry
      BY <2>2, AtTyped
    <3>2. \/ At(kind, new, p) = At(kind, doc, p)
          \/ At(kind, new, p) = [At(kind, doc, p) EXCEPT !.port = port]
      BY DEF Wrote
    <3>. QED
      BY <1>0, <3>1, <3>2 DEF Label, PortEntry
  <2>. QED
    BY <2>1, <2>2
<1>3. Holds(kind, new, e, port)
  BY <1>0, <1>1 DEF Wrote, Holds
<1>4. OnlyChanged(kind, doc, new, e)
  <2>1. ASSUME NEW p \in Places(kind, doc), p \notin Touched(kind, doc, e)
        PROVE  At(kind, new, p) = At(kind, doc, p)
    <3>1. ~OneNode(kind, new, p, q)
      BY <1>1, <2>1 DEF SharingKept, Touched
    <3>. QED
      BY <3>1 DEF Wrote
  <2>2. Places(kind, new) \ Places(kind, doc) \subseteq Touched(kind, new, e)
    BY <1>1 DEF Wrote, Touched
  <2>. QED
    BY <1>1, <1>2, <2>1, <2>2 DEF OnlyChanged, Wrote
<1>5. ASSUME NEW d \in Entry(kind), NEW n \in Nat, Apart(kind, e, d),
             Separate(kind, new, e, d), Holds(kind, doc, d, n)
      PROVE  Holds(kind, new, d, n)
  <2>1. PICK p \in Places(kind, doc) : Meant(kind, doc, d) = {p} /\ At(kind, doc, p).port = n
    BY <1>0, <1>5 DEF Holds
  <2>2. \A r \in Places(kind, doc) : r \in Meant(kind, doc, d) <=> r \in Meant(kind, new, d)
    BY <1>0, <1>1, <1>2, MeansTheSame DEF Wrote
  <2>3. \A r \in Meant(kind, new, d) : ~OneNode(kind, new, q, r)
    BY <1>1, <1>5, ApartMeans DEF Separate
  <2>4. \A r \in Meant(kind, new, d) : ~OneNode(kind, new, r, q)
    BY <1>0, <1>1, <2>3, NodesJoin, MeantArePlaces
  <2>5. Meant(kind, new, d) \subseteq Places(kind, doc)
    BY <1>0, <2>4, MeantArePlaces DEF Wrote
  <2>6. Meant(kind, new, d) = {p}
    BY <2>1, <2>2, <2>5
  <2>7. At(kind, new, p) = At(kind, doc, p)
    BY <2>1, <2>4, <2>6 DEF Wrote
  <2>. QED
    BY <1>0, <1>1, <2>1, <2>6, <2>7 DEF Holds
<1>6. Holds(kind, doc, e, port) => new = doc
  <2>1. SUFFICES ASSUME NEW p \in Places(kind, doc), Meant(kind, doc, e) = {p},
                        At(kind, doc, p).port = port
                 PROVE  new = doc
    BY <1>0 DEF Holds
  <2>2. p = q
    BY <1>1, <2>1
  <2>. QED
    BY <2>1, <2>2 DEF Wrote
<1>. QED
  BY <1>1, <1>3, <1>4, <1>5, <1>6 DEF WellEdited

(* What becomes of the parts when the port of a place is set.              *)
LEMMA RewrittenDoes ==
    ASSUME NEW kind \in {"compose", "kubernetes"}, NEW doc, IsDocument(kind, doc),
           NEW p \in Places(kind, doc), NEW port \in Nat, NEW new,
           new = Rewritten(kind, doc, p, port)
    PROVE  /\ IsDocument(kind, new)
           /\ Places(kind, new) = Places(kind, doc)
           /\ Around(kind, new) = Around(kind, doc)
           /\ \A q \in Places(kind, doc) :
                 At(kind, new, q) = IF OneNode(kind, doc, p, q)
                                    THEN [At(kind, doc, q) EXCEPT !.port = port]
                                    ELSE At(kind, doc, q)
           /\ \A q, r \in Places(kind, doc) :
                 OneNode(kind, new, q, r) <=> OneNode(kind, doc, q, r)
           /\ At(kind, doc, p).port = port => new = doc
<1> DEFINE Hit(x, i) == OneNode(kind, doc, p, <<x, i>>)
           ps(x) == [i \in DOMAIN doc[x].ports |->
                        IF Hit(x, i) THEN [doc[x].ports[i] EXCEPT !.port = port]
                        ELSE doc[x].ports[i]]
<1>1. /\ DOMAIN new = DOMAIN doc
      /\ \A x \in DOMAIN doc : new[x] = [doc[x] EXCEPT !.ports = ps(x)]
      /\ new = [x \in DOMAIN doc |-> [doc[x] EXCEPT !.ports = ps(x)]]
  BY DEF Rewritten
<1>2. ASSUME NEW x \in DOMAIN doc
      PROVE  /\ DOMAIN ps(x) = DOMAIN doc[x].ports
             /\ \A i \in DOMAIN doc[x].ports :
                   ps(x)[i] = IF Hit(x, i) THEN [doc[x].ports[i] EXCEPT !.port = port]
                              ELSE doc[x].ports[i]
  OBVIOUS
<1> HIDE DEF Hit, ps
<1>3. ASSUME NEW x \in DOMAIN doc
      PROVE  /\ new[x].ports = ps(x)
             /\ kind = "compose" =>
                   /\ ps(x) \in Seq(Publication) /\ new[x] \in ServicePorts
                   /\ new[x].list = doc[x].list /\ new[x].takes = doc[x].takes
             /\ kind = "kubernetes" =>
                   /\ ps(x) \in Seq(PortEntry) /\ new[x] \in Workload
                   /\ [new[x] EXCEPT !.ports = <<>>] = [doc[x] EXCEPT !.ports = <<>>]
  <2>1. CASE kind = "compose"
    <3>1. doc[x] \in ServicePorts /\ doc[x].ports \in Seq(Publication)
      BY <2>1, PartsTyped
    <3>2. \A i \in DOMAIN doc[x].ports : ps(x)[i] \in Publication
      <4>1. \A r \in Publication : [r EXCEPT !.port = port] \in Publication
        BY DEF Publication
      <4>2. \A i \in DOMAIN doc[x].ports : doc[x].ports[i] \in Publication
        BY <3>1
      <4>. QED
        BY <1>2, <4>1, <4>2
    <3>3. DOMAIN doc[x].ports = 1..Len(doc[x].ports) /\ Len(doc[x].ports) \in Nat
      BY <3>1
    <3>4. ps(x) \in [1..Len(doc[x].ports) -> Publication]
      BY <1>2, <3>2, <3>3 DEF ps
    <3>5. ps(x) \in Seq(Publication)
      BY <3>3, <3>4
    <3>. QED
      BY <1>1, <2>1, <3>1, <3>5 DEF ServicePorts
  <2>2. CASE kind = "kubernetes"
    <3>1. doc[x] \in Workload /\ doc[x].ports \in Seq(PortEntry)
      BY <2>2, PartsTyped
    <3>2. \A i \in DOMAIN doc[x].ports : ps(x)[i] \in PortEntry
      <4>1. \A r \in PortEntry : [r EXCEPT !.port = port] \in PortEntry
        BY DEF PortEntry
      <4>2. \A i \in DOMAIN doc[x].ports : doc[x].ports[i] \in PortEntry
        BY <3>1
      <4>. QED
        BY <1>2, <4>1, <4>2
    <3>3. DOMAIN doc[x].ports = 1..Len(doc[x].ports) /\ Len(doc[x].ports) \in Nat
      BY <3>1
    <3>4. ps(x) \in [1..Len(doc[x].ports) -> PortEntry]
      BY <1>2, <3>2, <3>3 DEF ps
    <3>5. ps(x) \in Seq(PortEntry)
      BY <3>3, <3>4
    <3>. QED
      BY <1>1, <2>2, <3>1, <3>5 DEF Workload
  <2>. QED
    BY <2>1, <2>2
<1>4. Places(kind, new) = Places(kind, doc)
  <2>1. \A x \in DOMAIN doc : DOMAIN new[x].ports = DOMAIN doc[x].ports
    BY <1>2, <1>3
  <2>2. \A q : q \in Places(kind, new) <=>
          \E x \in DOMAIN new : \E i \in DOMAIN new[x].ports : q = <<x, i>>
    BY PlaceIs
  <2>3. \A q : q \in Places(kind, doc) <=>
          \E x \in DOMAIN doc : \E i \in DOMAIN doc[x].ports : q = <<x, i>>
    BY PlaceIs
  <2>4. \A q : q \in Places(kind, new) <=> q \in Places(kind, doc)
    <3>1. \A x \in DOMAIN doc : \A i : i \in DOMAIN new[x].ports <=> i \in DOMAIN doc[x].ports
      BY <2>1
    <3>. QED
      BY <1>1, <2>2, <2>3, <3>1
  <2>. QED
    BY <2>4
<1>5. ASSUME NEW q \in Places(kind, doc)
      PROVE  /\ At(kind, new, q) = IF OneNode(kind, doc, p, q)
                                   THEN [At(kind, doc, q) EXCEPT !.port = port]
                                   ELSE At(kind, doc, q)
             /\ At(kind, new, q).anchor = At(kind, doc, q).anchor
  <2>1. /\ q = <<q[1], q[2]>> /\ q[1] \in DOMAIN doc /\ q[2] \in DOMAIN doc[q[1]].ports
        /\ At(kind, doc, q) = doc[q[1]].ports[q[2]]
    BY AtTyped
  <2>2. At(kind, new, q) = ps(q[1])[q[2]]
    BY <1>3, <2>1 DEF At
  <2>3. Hit(q[1], q[2]) <=> OneNode(kind, doc, p, q)
    BY <2>1 DEF Hit
  <2>4. At(kind, new, q) = IF OneNode(kind, doc, p, q)
                           THEN [At(kind, doc, q) EXCEPT !.port = port]
                           ELSE At(kind, doc, q)
    BY <1>2, <2>1, <2>2, <2>3
  <2>5. \/ kind = "compose" /\ At(kind, doc, q) \in Publication
        \/ kind = "kubernetes" /\ At(kind, doc, q) \in PortEntry
    BY AtTyped
  <2>. QED
    BY <2>4, <2>5 DEF Publication, PortEntry
<1>6. ASSUME NEW q \in Places(kind, doc), NEW r \in Places(kind, doc)
      PROVE  OneNode(kind, new, q, r) <=> OneNode(kind, doc, q, r)
  <2>1. SameAnchor(At(kind, new, q), At(kind, new, r))
           <=> SameAnchor(At(kind, doc, q), At(kind, doc, r))
    BY <1>5 DEF SameAnchor
  <2>2. CASE kind = "compose"
    <3>1. new[q[1]].list = doc[q[1]].list /\ new[r[1]].list = doc[r[1]].list
      BY <1>3, <2>2, AtTyped
    <3>. QED
      BY <2>1, <2>2, <3>1 DEF OneNode
  <2>3. CASE kind = "kubernetes"
    BY <2>1, <2>3 DEF OneNode
  <2>. QED
    BY <2>2, <2>3
<1>7. NodesAgree(kind, new)
  <2> SUFFICES ASSUME NEW q \in Places(kind, doc), NEW r \in Places(kind, doc),
                      OneNode(kind, doc, q, r)
               PROVE  NodeValue(kind, At(kind, new, q)) = NodeValue(kind, At(kind, new, r))
    BY <1>4, <1>6 DEF NodesAgree
  <2>1. OneNode(kind, doc, p, q) <=> OneNode(kind, doc, p, r)
    BY NodesJoin
  <2>2. NodeValue(kind, At(kind, doc, q)) = NodeValue(kind, At(kind, doc, r))
    BY PartsTyped DEF NodesAgree
  <2>3. CASE kind = "compose"
    BY <1>5, <2>1, <2>2, <2>3 DEF NodeValue
  <2>4. CASE kind = "kubernetes"
    <3>1. At(kind, doc, q) \in PortEntry /\ At(kind, doc, r) \in PortEntry
      BY <2>4, AtTyped
    <3>2. [At(kind, doc, q) EXCEPT !.container = 0] = [At(kind, doc, r) EXCEPT !.container = 0]
      BY <2>2, <2>4 DEF NodeValue
    <3>3. [[At(kind, doc, q) EXCEPT !.port = port] EXCEPT !.container = 0]
             = [[At(kind, doc, r) EXCEPT !.port = port] EXCEPT !.container = 0]
      BY <3>1, <3>2 DEF PortEntry
    <3>. QED
      BY <1>5, <2>1, <2>4, <3>2, <3>3 DEF NodeValue
  <2>. QED
    BY <2>3, <2>4
<1>8. kind = "compose" => ListsAgree(new)
  <2> SUFFICES ASSUME kind = "compose", NEW s \in DOMAIN doc
               PROVE  IF new[s].list = NoList THEN new[s].ports = <<>>
                      ELSE /\ new[s].list \in DOMAIN new
                           /\ new[new[s].list].list = new[s].list
                           /\ new[new[s].list].ports = new[s].ports
    BY <1>1 DEF ListsAgree
  <2>1. ListsAgree(doc) /\ doc[s].ports \in Seq(Publication)
    BY PartsTyped DEF IsDocument
  <2>2. CASE doc[s].list = NoList
    <3>1. doc[s].ports = <<>>
      BY <2>1, <2>2 DEF ListsAgree
    <3>2. ps(s) = <<>>
      BY <1>2, <1>3, <3>1
    <3>. QED
      BY <1>3, <2>2, <3>2
  <2>3. CASE doc[s].list # NoList
    <3> DEFINE l == doc[s].list
    <3>1. l \in DOMAIN doc /\ doc[l].list = l /\ doc[l].ports = doc[s].ports
      BY <2>1, <2>3 DEF ListsAgree
    <3>2. \A i \in DOMAIN doc[s].ports : At(kind, doc, <<l, i>>) = At(kind, doc, <<s, i>>)
      BY <3>1 DEF At
    <3>3. \A i \in DOMAIN doc[s].ports : Hit(l, i) <=> Hit(s, i)
      BY <3>1, <3>2 DEF Hit, OneNode
    <3>4. ps(l) = ps(s)
      BY <3>1, <3>3 DEF ps
    <3>. QED
      BY <1>1, <1>3, <2>3, <3>1, <3>4
  <2>. QED
    BY <2>2, <2>3
<1>9. IsDocument(kind, new)
  <2>1. CASE kind = "compose"
    <3>1. DOMAIN doc \in SUBSET Service
      BY <2>1, PartsTyped
    <3>2. new \in [DOMAIN doc -> ServicePorts]
      BY <1>1, <1>3, <2>1
    <3>. QED
      BY <1>7, <1>8, <2>1, <3>1, <3>2 DEF IsDocument
  <2>2. CASE kind = "kubernetes"
    <3>1. DOMAIN doc = 1..Len(doc) /\ Len(doc) \in Nat
      BY <2>2, PartsTyped
    <3>2. new \in [1..Len(doc) -> Workload]
      BY <1>1, <1>3, <2>2, <3>1
    <3>3. new \in Seq(Workload)
      BY <3>1, <3>2
    <3>. QED
      BY <1>7, <2>2, <3>3 DEF IsDocument
  <2>. QED
    BY <2>1, <2>2
<1>10. Around(kind, new) = Around(kind, doc)
  BY <1>1, <1>3 DEF Around
<1>11. At(kind, doc, p).port = port => new = doc
  <2> SUFFICES ASSUME At(kind, doc, p).port = port PROVE new = doc
    OBVIOUS
  <2>1. ASSUME NEW x \in DOMAIN doc, NEW i \in DOMAIN doc[x].ports, Hit(x, i)
        PROVE  [doc[x].ports[i] EXCEPT !.port = port] = doc[x].ports[i]
    <3>1. <<x, i>> \in Places(kind, doc) /\ At(kind, doc, <<x, i>>) = doc[x].ports[i]
      BY <2>1, PlaceIs DEF At
    <3>2. NodeValue(kind, At(kind, doc, p)) = NodeValue(kind, At(kind, doc, <<x, i>>))
      BY <2>1, <3>1, PartsTyped DEF Hit, NodesAgree
    <3>3. CASE kind = "compose"
      <4>1. doc[x].ports[i] \in Publication /\ doc[x].ports[i].port = port
        BY <3>1, <3>2, <3>3, AtTyped DEF NodeValue
      <4>. QED
        BY <4>1 DEF Publication
    <3>4. CASE kind = "kubernetes"
      <4>1. At(kind, doc, p) \in PortEntry /\ doc[x].ports[i] \in PortEntry
        BY <3>1, <3>4, AtTyped
      <4>2. [At(kind, doc, p) EXCEPT !.container = 0] = [doc[x].ports[i] EXCEPT !.container = 0]
        BY <3>1, <3>2, <3>4 DEF NodeValue
      <4>3. doc[x].ports[i].port = port
        BY <4>1, <4>2 DEF PortEntry
      <4>. QED
        BY <4>1, <4>3 DEF PortEntry
    <3>. QED
      BY <3>3, <3>4
  <2>2. ASSUME NEW x \in DOMAIN doc PROVE ps(x) = doc[x].ports
    <3>1. doc[x].ports = [i \in DOMAIN doc[x].ports |-> doc[x].ports[i]]
      <4>1. doc[x].ports \in Seq(Publication) \/ doc[x].ports \in Seq(PortEntry)
        BY PartsTyped
      <4>. QED
        BY <4>1
    <3>2. ASSUME NEW i \in DOMAIN doc[x].ports PROVE ps(x)[i] = doc[x].ports[i]
      <4>1. CASE Hit(x, i)
        <5>1. [doc[x].ports[i] EXCEPT !.port = port] = doc[x].ports[i]
          BY <2>1, <4>1
        <5>. QED
          BY <1>2, <4>1, <5>1
      <4>2. CASE ~Hit(x, i)
        BY <1>2, <4>2
      <4>. QED
        BY <4>1, <4>2
    <3>3. ps(x) = [i \in DOMAIN doc[x].ports |-> ps(x)[i]]
      BY DEF ps
    <3>. QED
      BY <1>2, <3>1, <3>2, <3>3
  <2>3. ASSUME NEW x \in DOMAIN doc PROVE new[x] = doc[x]
    <3>1. new[x] = [doc[x] EXCEPT !.ports = doc[x].ports]
      BY <1>1, <2>2
    <3>2. doc[x] \in ServicePorts \/ doc[x] \in Workload
      BY PartsTyped
    <3>. QED
      BY <3>1, <3>2 DEF ServicePorts, Workload
  <2>4. doc = [x \in DOMAIN doc |-> doc[x]]
    BY PartsTyped
  <2>5. new = [x \in DOMAIN new |-> new[x]]
    BY <1>1
  <2>. QED
    BY <1>1, <2>3, <2>4, <2>5
<1>. QED
  BY <1>4, <1>5, <1>6, <1>9, <1>10, <1>11

(* Setting the port of the one place an entry means.                       *)
LEMMA RewrittenWrote ==
    ASSUME NEW kind \in {"compose", "kubernetes"}, NEW doc, IsDocument(kind, doc),
           NEW e \in Entry(kind), NEW port \in Nat, NEW p, Meant(kind, doc, e) = {p},
           NEW new, new = Rewritten(kind, doc, p, port)
    PROVE  Wrote(kind, doc, new, e, port, p)
<1>0. kind \in Kind /\ kind # "dotenv"
  BY DEF Kind
<1>1. p \in Places(kind, doc)
  BY <1>0, MeantArePlaces
<1>2. /\ IsDocument(kind, new)
      /\ Places(kind, new) = Places(kind, doc)
      /\ Around(kind, new) = Around(kind, doc)
      /\ \A q \in Places(kind, doc) :
            At(kind, new, q) = IF OneNode(kind, doc, p, q)
                               THEN [At(kind, doc, q) EXCEPT !.port = port]
                               ELSE At(kind, doc, q)
      /\ \A q, r \in Places(kind, doc) :
            OneNode(kind, new, q, r) <=> OneNode(kind, doc, q, r)
      /\ At(kind, doc, p).port = port => new = doc
  BY <1>1, RewrittenDoes
<1>3. \A q \in Places(kind, doc) : OneNode(kind, doc, p, q) <=> OneNode(kind, doc, q, p)
  BY <1>1, NodesJoin
<1>4. \A q \in Places(kind, doc) :
          At(kind, doc, q) \in Publication \/ At(kind, doc, q) \in PortEntry
  BY AtTyped
<1>5. At(kind, new, p).port = port
  <2>1. At(kind, new, p) = [At(kind, doc, p) EXCEPT !.port = port]
    BY <1>0, <1>1, <1>2, NodeItself
  <2>. QED
    BY <1>1, <1>4, <2>1 DEF Publication, PortEntry
<1>6. \A q \in Places(kind, doc) :
          Label(kind, At(kind, new, q)) = Label(kind, At(kind, doc, q))
  BY <1>0, <1>2, <1>4 DEF Label, Publication, PortEntry
<1>7. \A q \in Places(kind, doc) : q \in Meant(kind, doc, e) <=> q \in Meant(kind, new, e)
  BY <1>0, <1>2, <1>6, MeansTheSame
<1>8. Meant(kind, new, e) = {p}
  BY <1>0, <1>2, <1>7, MeantArePlaces
<1>9. SharingKept(kind, doc, new)
  BY <1>2 DEF SharingKept
<1>. QED
  BY <1>1, <1>2, <1>3, <1>5, <1>8, <1>9 DEF Wrote

(* Appending an entry to the ports of a service.                           *)
LEMMA ExtendedWrote ==
    ASSUME NEW doc, IsDocument("compose", doc), NEW e \in Entry("compose"),
           e.service \in DOMAIN doc, Published(doc[e.service].ports, e) = {},
           NEW port \in Nat, NEW new, new = Extended(doc, e, port)
    PROVE  \E q : Wrote("compose", doc, new, e, port, q)
<1> DEFINE s == e.service
           old == doc[s].ports
           n == Len(old) + 1
           list == IF doc[s].list # NoList THEN doc[s].list ELSE s
           entry == [readable |-> TRUE, container |-> e.container, protocol |-> e.protocol,
                     port |-> port, anchor |-> NoAnchor]
           long == Append(old, entry)
           members == Sharing(doc, s)
<1>1. /\ DOMAIN doc \subseteq Service /\ s \in DOMAIN doc
      /\ \A x \in DOMAIN doc : doc[x] \in ServicePorts /\ doc[x].ports \in Seq(Publication)
      /\ ListsAgree(doc) /\ NodesAgree("compose", doc)
  BY PartsTyped DEF IsDocument
<1>2. /\ new = [t \in DOMAIN doc |->
                  IF t \in members THEN [doc[t] EXCEPT !.list = list, !.ports = long] ELSE doc[t]]
      /\ DOMAIN new = DOMAIN doc
  BY DEF Extended
<1>3. /\ s \in members /\ members \subseteq DOMAIN doc
      /\ \A t \in members : doc[t].list = doc[s].list
      /\ \A t \in DOMAIN doc : doc[t].list = doc[s].list /\ doc[s].list # NoList => t \in members
  BY <1>1 DEF Sharing
<1>4. entry \in Publication
  BY DEF Entry, Publication
<1>5. /\ old \in Seq(Publication) /\ n \in Nat \ {0} /\ n \notin DOMAIN old
      /\ long \in Seq(Publication) /\ DOMAIN long = DOMAIN old \cup {n}
      /\ long[n] = entry /\ \A i \in DOMAIN old : long[i] = old[i]
  <2>1. old \in Seq(Publication)
    BY <1>1
  <2> HIDE DEF old, entry
  <2>. QED
    BY <1>4, <2>1
<1>6. list \in DOMAIN doc /\ list \in members /\ list # NoList
  BY <1>1, <1>3, NoListAssumption DEF ListsAgree
<1>7. \A t \in members : doc[t].ports = old
  <2>1. CASE doc[s].list = NoList
    BY <1>1, <1>3, <2>1 DEF ListsAgree
  <2>2. CASE doc[s].list # NoList
    BY <1>1, <1>3, <2>2 DEF ListsAgree
  <2>. QED
    BY <2>1, <2>2
<1> HIDE DEF entry, long, list, members, old, n
<1>8. ASSUME NEW t \in members
      PROVE  /\ t \in DOMAIN doc /\ new[t] \in ServicePorts
             /\ new[t].list = list /\ new[t].ports = long /\ new[t].takes = doc[t].takes
  <2>1. t \in DOMAIN doc /\ new[t] = [doc[t] EXCEPT !.list = list, !.ports = long]
    BY <1>2, <1>3
  <2>. QED
    BY <1>1, <1>5, <1>6, <2>1 DEF ServicePorts
<1>9. \A t \in DOMAIN doc \ members : new[t] = doc[t]
  BY <1>2
<1>10. \A t \in DOMAIN doc \ members : doc[t].list # list
  <2>1. CASE doc[s].list # NoList
    BY <1>3, <2>1 DEF list
  <2>2. CASE doc[s].list = NoList
    <3>1. list = s
      BY <2>2 DEF list
    <3>2. \A t \in DOMAIN doc : doc[t].list # s
      BY <1>1, <2>2, NoListAssumption DEF ListsAgree
    <3>. QED
      BY <3>1, <3>2
  <2>. QED
    BY <2>1, <2>2
<1>11. ListsAgree(new)
  <2>1. ASSUME NEW t \in DOMAIN doc, t \notin members, doc[t].list # NoList
        PROVE  /\ doc[t].list \in DOMAIN doc \ members
               /\ doc[doc[t].list].list = doc[t].list
               /\ doc[doc[t].list].ports = doc[t].ports
    <3>1. /\ doc[t].list \in DOMAIN doc /\ doc[doc[t].list].list = doc[t].list
          /\ doc[doc[t].list].ports = doc[t].ports
      BY <1>1, <2>1 DEF ListsAgree
    <3>2. doc[t].list \notin members
      BY <1>3, <2>1, <3>1
    <3>. QED
      BY <3>1, <3>2
  <2>2. \A t \in DOMAIN doc \ members : doc[t].list = NoList => doc[t].ports = <<>>
    BY <1>1 DEF ListsAgree
  <2>3. ASSUME NEW t \in members
        PROVE  /\ new[t].list = list /\ list # NoList /\ list \in DOMAIN new
               /\ new[list].list = list /\ new[list].ports = new[t].ports
    BY <1>2, <1>6, <1>8
  <2>4. ASSUME NEW t \in DOMAIN doc, t \notin members
        PROVE  IF new[t].list = NoList THEN new[t].ports = <<>>
               ELSE /\ new[t].list \in DOMAIN new
                    /\ new[new[t].list].list = new[t].list
                    /\ new[new[t].list].ports = new[t].ports
    <3>1. new[t] = doc[t]
      BY <1>9, <2>4
    <3>2. CASE doc[t].list = NoList
      BY <2>2, <2>4, <3>1, <3>2
    <3>3. CASE doc[t].list # NoList
      <4>1. doc[t].list \in DOMAIN doc \ members
        BY <2>1, <2>4, <3>3
      <4>2. new[doc[t].list] = doc[doc[t].list]
        BY <1>9, <4>1
      <4>. QED
        BY <1>2, <2>1, <2>4, <3>1, <3>3, <4>1, <4>2
    <3>. QED
      BY <3>2, <3>3
  <2>. QED
    BY <1>2, <2>3, <2>4 DEF ListsAgree
<1> DEFINE Old == Places("compose", doc)
           New == Places("compose", new)
<1>12. /\ \A t \in DOMAIN doc \ members : new[t].ports = doc[t].ports
       /\ \A t \in members : new[t].ports = long /\ doc[t].ports = old
  BY <1>7, <1>8, <1>9
<1>13. /\ Old \subseteq New
       /\ \A p \in New : p \in Old \/ (p[1] \in members /\ p[2] = n)
       /\ \A t \in members : <<t, n>> \in New /\ <<t, n>> \notin Old
  <2>1. \A p : p \in Old <=> \E t \in DOMAIN doc : \E i \in DOMAIN doc[t].ports : p = <<t, i>>
    BY DEF Places
  <2>2. \A p : p \in New <=> \E t \in DOMAIN doc : \E i \in DOMAIN new[t].ports : p = <<t, i>>
    <3>1. \A p : p \in New <=> \E t \in DOMAIN new : \E i \in DOMAIN new[t].ports : p = <<t, i>>
      BY PlaceIs
    <3>. QED
      BY <1>2, <3>1
  <2>3. \A t \in DOMAIN doc : DOMAIN new[t].ports = DOMAIN doc[t].ports
                                \cup (IF t \in members THEN {n} ELSE {})
    BY <1>5, <1>12
  <2>4. \A t \in members : n \notin DOMAIN doc[t].ports
    BY <1>5, <1>12
  <2>. QED
    BY <1>3, <2>1, <2>2, <2>3, <2>4
<1>14. ASSUME NEW p \in Old
       PROVE  /\ p[1] \in DOMAIN doc /\ (p[2] # n \/ p[1] \notin members)
              /\ At("compose", new, p) = At("compose", doc, p)
              /\ doc[p[1]].list # NoList /\ new[p[1]].list = doc[p[1]].list
  <2>1. /\ p[1] \in DOMAIN doc /\ p[2] \in DOMAIN doc[p[1]].ports
        /\ At("compose", doc, p) = doc[p[1]].ports[p[2]]
    BY AtTyped
  <2>2. At("compose", new, p) = new[p[1]].ports[p[2]]
    BY DEF At
  <2>3. new[p[1]].ports[p[2]] = doc[p[1]].ports[p[2]]
    BY <1>5, <1>12, <2>1
  <2>4. doc[p[1]].list # NoList
    BY <1>1, <2>1 DEF ListsAgree
  <2>5. p[1] \in members => list = doc[p[1]].list
    BY <1>3, <2>4 DEF list
  <2>6. p[1] \in members => p[2] # n
    BY <1>5, <1>12, <2>1
  <2>. QED
    BY <1>8, <1>9, <2>1, <2>2, <2>3, <2>4, <2>5, <2>6
<1>15. ASSUME NEW p \in New, p \notin Old
       PROVE  /\ p[1] \in members /\ p[2] = n /\ At("compose", new, p) = entry
              /\ new[p[1]].list = list
  BY <1>5, <1>8, <1>13, <1>15 DEF At
<1>16. ASSUME NEW p \in Old, NEW q \in New
       PROVE  OneNode("compose", new, p, q) <=> q \in Old /\ OneNode("compose", doc, p, q)
  <2>1. CASE q \in Old
    BY <1>14, <2>1 DEF OneNode
  <2>2. CASE q \notin Old
    <3>1. At("compose", new, q).anchor = NoAnchor
      BY <1>15, <2>2 DEF entry
    <3>2. ~(new[p[1]].list = new[q[1]].list /\ p[2] = q[2])
      <4>1. SUFFICES ASSUME new[p[1]].list = list, p[2] = n PROVE FALSE
        BY <1>15, <2>2
      <4>2. p[1] \in DOMAIN doc \ members
        BY <1>14, <4>1, AtTyped
      <4>. QED
        BY <1>10, <1>14, <4>1, <4>2
    <3>. QED
      BY <2>2, <3>1, <3>2 DEF OneNode, SameAnchor
  <2>. QED
    BY <2>1, <2>2
<1>17. ASSUME NEW p \in New, NEW q \in New, q \notin Old
       PROVE  OneNode("compose", new, p, q) <=> p \notin Old
  <2>1. CASE p \in Old
    BY <1>16, <1>17, <2>1
  <2>2. CASE p \notin Old
    BY <1>15, <1>17, <2>2 DEF OneNode
  <2>. QED
    BY <2>1, <2>2
<1>18. NodesAgree("compose", new)
  <2> SUFFICES ASSUME NEW p \in New, NEW q \in New, OneNode("compose", new, p, q)
               PROVE  At("compose", new, p) = At("compose", new, q)
    BY DEF NodesAgree, NodeValue
  <2>1. CASE q \notin Old
    BY <1>15, <1>17, <2>1
  <2>2. CASE q \in Old /\ p \in Old
    <3>1. OneNode("compose", doc, p, q)
      BY <1>16, <2>2
    <3>2. At("compose", doc, p) = At("compose", doc, q)
      BY <1>1, <2>2, <3>1 DEF NodesAgree, NodeValue
    <3>. QED
      BY <1>14, <2>2, <3>2
  <2>3. CASE q \in Old /\ p \notin Old
    <3>1. At("compose", new, p).anchor = NoAnchor
      BY <1>15, <2>3 DEF entry
    <3>2. new[q[1]].list = list /\ q[2] = n
      BY <1>15, <2>3, <3>1 DEF OneNode, SameAnchor
    <3>3. q[1] \in DOMAIN doc \ members
      BY <1>14, <2>3, <3>2, AtTyped
    <3>. QED
      BY <1>10, <1>14, <2>3, <3>2, <3>3
  <2>. QED
    BY <2>1, <2>2, <2>3
<1>19. IsDocument("compose", new)
  <2>1. new \in [DOMAIN doc -> ServicePorts]
    BY <1>1, <1>2, <1>8, <1>9
  <2>. QED
    BY <1>1, <1>11, <1>18, <2>1 DEF IsDocument
<1>20. Around("compose", new) = Around("compose", doc)
  BY <1>2, <1>8, <1>9 DEF Around
<1>21. Published(long, e) = {n}
  <2>1. \A i \in DOMAIN old : ~(/\ old[i].readable /\ old[i].container = e.container
                                /\ old[i].protocol = e.protocol)
    BY DEF Published, old
  <2>2. entry.readable /\ entry.container = e.container /\ entry.protocol = e.protocol
    BY DEF entry
  <2>. QED
    BY <1>5, <2>1, <2>2 DEF Published
<1>22. Meant("compose", new, e) = {<<s, n>>} /\ Meant("compose", doc, e) = {}
  <2>1. s \in DOMAIN new /\ Published(new[s].ports, e) = {n}
    BY <1>1, <1>2, <1>3, <1>8, <1>21
  <2>2. Meant("compose", doc, e) = {}
    BY MeantIs
  <2>3. \A p : p \in Meant("compose", new, e) <=> p = <<s, n>>
    BY <2>1, MeantIs
  <2>. QED
    BY <2>2, <2>3
<1>23. <<s, n>> \in New /\ <<s, n>> \notin Old
  BY <1>3, <1>13
<1>24. At("compose", new, <<s, n>>).port = port
  <2>1. At("compose", new, <<s, n>>) = entry
    BY <1>15, <1>23
  <2>. QED
    BY <2>1 DEF entry
<1> HIDE DEF s
<1>25. Wrote("compose", doc, new, e, port, <<s, n>>)
  <2>1. \A p \in New \ Old : OneNode("compose", new, p, <<s, n>>)
    BY <1>17, <1>23
  <2>2. \A p \in Old : ~OneNode("compose", new, p, <<s, n>>)
    BY <1>13, <1>17, <1>23
  <2>3. SharingKept("compose", doc, new)
    BY <1>16 DEF SharingKept
  <2>. QED
    BY <1>13, <1>14, <1>19, <1>20, <1>22, <1>23, <1>24, <2>1, <2>2, <2>3 DEF Wrote
<1>. QED
  BY <1>25

LEMMA ComposeEdited ==
    ASSUME NEW doc, IsDocument("compose", doc), NEW e \in Entry("compose"), NEW port \in Nat,
           NEW new \in ServicePublished(doc, e, port)
    PROVE  WellEdited("compose", doc, new, e, port)
<1> DEFINE at == Published(doc[e.service].ports, e)
<1>1. e.service \in DOMAIN doc
  BY DEF ServicePublished
<1>2. CASE at = {}
  <2>1. new = Extended(doc, e, port)
    BY <1>1, <1>2 DEF ServicePublished
  <2>2. PICK q : Wrote("compose", doc, new, e, port, q)
    BY <1>1, <1>2, <2>1, ExtendedWrote
  <2>. QED
    BY <2>2, WroteWell
<1>3. CASE at # {}
  <2>1. PICK i \in at : at = {i} /\ new = Rewritten("compose", doc, <<e.service, i>>, port)
    BY <1>1, <1>3 DEF ServicePublished
  <2>2. Meant("compose", doc, e) = {<<e.service, i>>}
    BY <1>1, <2>1 DEF Meant
  <2>3. Wrote("compose", doc, new, e, port, <<e.service, i>>)
    BY <2>1, <2>2, RewrittenWrote
  <2>. QED
    BY <2>3, WroteWell
<1>. QED
  BY <1>2, <1>3

LEMMA KubernetesEdited ==
    ASSUME NEW doc, IsDocument("kubernetes", doc), NEW e \in Entry("kubernetes"),
           NEW port \in Nat, NEW new \in Exposed(doc, e, port)
    PROVE  WellEdited("kubernetes", doc, new, e, port)
<1>1. PICK at \in FindEntry(doc, e) : new = Rewritten("kubernetes", doc, at, port)
  BY DEF Exposed
<1>2. PICK i \in DOMAIN doc : /\ FindResource(doc, e) = {i}
                              /\ \E k \in FindPort(doc[i], e) :
                                    FindPort(doc[i], e) = {k} /\ at = <<i, k>>
  BY <1>1 DEF FindEntry
<1>3. PICK j \in FindPort(doc[i], e) : FindPort(doc[i], e) = {j} /\ at = <<i, j>>
  BY <1>2
<1>4. Meant("kubernetes", doc, e) = {at}
  BY <1>2, <1>3 DEF Meant
<1>5. Wrote("kubernetes", doc, new, e, port, at)
  BY <1>1, <1>4, RewrittenWrote
<1>. QED
  BY <1>5, WroteWell

-----------------------------------------------------------------------------
(* All three.                                                              *)

LEMMA EveryEdit ==
    ASSUME NEW kind \in Kind, NEW doc, IsDocument(kind, doc), NEW e \in Entry(kind),
           NEW port \in Nat, NEW new \in Edited(kind, doc, e, port)
    PROVE  WellEdited(kind, doc, new, e, port)
<1>1. CASE kind = "dotenv"
  BY <1>1, DotenvEdited DEF Edited
<1>2. CASE kind = "compose"
  BY <1>2, ComposeEdited DEF Edited
<1>3. CASE kind = "kubernetes"
  BY <1>3, KubernetesEdited DEF Edited
<1>. QED
  BY <1>1, <1>2, <1>3 DEF Kind

-----------------------------------------------------------------------------
(* What follows from the edits of a mapping's entries.                     *)

LEMMA OnlyOne == ASSUME NEW i PROVE LastOf({i}) = i
  BY DEF LastOf

(* A reader takes the port the document holds.                             *)
LEMMA HeldIsEffective ==
    ASSUME NEW kind \in Kind, NEW doc, NEW e, NEW port, Holds(kind, doc, e, port)
    PROVE  Effective(kind, doc, e) = {port}
<1>1. CASE kind = "dotenv"
  <2>1. PICK i \in DOMAIN doc : /\ Assignments(doc, e.key) = {i}
                                /\ doc[i] = [key |-> e.key, value |-> port, neat |-> TRUE]
    BY <1>1 DEF Holds
  <2>2. LastOf(Assignments(doc, e.key)) = i
    BY <2>1, OnlyOne
  <2>3. doc[i].value = port
    BY <2>1
  <2>. QED
    BY <1>1, <2>2, <2>3 DEF Effective
<1>2. CASE kind \in {"compose", "kubernetes"}
  <2>1. PICK p \in Places(kind, doc) : Meant(kind, doc, e) = {p} /\ At(kind, doc, p).port = port
    BY <1>2 DEF Holds
  <2>2. CASE kind = "compose"
    <3>1. e.service \in DOMAIN doc
      BY <2>1, <2>2, MeantIs
    <3>2. PICK i \in Published(doc[e.service].ports, e) : p = <<e.service, i>>
      BY <2>1, <2>2, MeantIs
    <3>3. Published(doc[e.service].ports, e) = {i}
      <4>1. \A j \in Published(doc[e.service].ports, e) : <<e.service, j>> = <<e.service, i>>
        BY <2>1, <2>2, <3>1, <3>2, MeantIs
      <4>. QED
        BY <4>1
    <3>4. doc[e.service].ports[i].port = port
      BY <2>1, <2>2, <3>2 DEF At
    <3>. QED
      BY <2>2, <3>3, <3>4 DEF Effective
  <2>3. CASE kind = "kubernetes"
    <3>1. \A i \in FindResource(doc, e) : \A j \in FindPort(doc[i], e) : <<i, j>> = p
      BY <2>1, <2>3, MeantIs
    <3>2. PICK i \in FindResource(doc, e) : \E j \in FindPort(doc[i], e) : p = <<i, j>>
      BY <2>1, <2>3, MeantIs
    <3>3. PICK j \in FindPort(doc[i], e) : p = <<i, j>>
      BY <3>2
    <3>4. doc[i].ports[j].port = port
      BY <2>1, <2>3, <3>3 DEF At
    <3>. QED
      BY <2>3, <3>1, <3>2, <3>3, <3>4 DEF Effective
  <2>. QED
    BY <1>2, <2>2, <2>3
<1>. QED
  BY <1>1, <1>2 DEF Kind

(* Validation, and EntriesOnce for what validation does not compare, keep  *)
(* the entries of a mapping apart.                                         *)
LEMMA ValidIsDistinct ==
    ASSUME NEW m, IsMapping(m), ValidMapping(m),
           \A i, j \in DOMAIN m.entries :
               SameTarget(KindOf[m.file], m.entries[i], m.entries[j]) => i = j
    PROVE  Distinct(m)
<1>1. SUFFICES ASSUME NEW i \in DOMAIN m.entries, NEW j \in DOMAIN m.entries, i # j
               PROVE  Apart(KindOf[m.file], m.entries[i], m.entries[j])
  BY DEF Distinct
<1> DEFINE e == m.entries[i]
           d == m.entries[j]
<1>2. e \in Entry(KindOf[m.file]) /\ d \in Entry(KindOf[m.file]) /\ KindOf[m.file] \in Kind
  BY KindAssumption DEF IsMapping
<1>3. CASE KindOf[m.file] = "dotenv"
  BY <1>1, <1>3 DEF IsMapping, Apart
<1>4. CASE KindOf[m.file] = "compose"
  <2>1. SUFFICES ASSUME e.service = d.service, e.container = d.container, e.protocol = d.protocol
                 PROVE  FALSE
    BY <1>4 DEF Apart
  <2>2. [e EXCEPT !.allocation = d.allocation] = d
    BY <1>2, <1>4, <2>1 DEF Entry
  <2>. QED
    BY <1>1, <1>4, <2>2 DEF SameTarget
<1>5. CASE KindOf[m.file] = "kubernetes"
  <2>1. NoDuplicates(m)
    BY <1>5 DEF ValidMapping, ValidKubernetes
  <2>2. SUFFICES ASSUME e.kind = d.kind, e.name = d.name, e.container = d.container,
                        e.match = d.match, e.protocol = d.protocol,
                        e.ns = d.ns \/ NoNamespace \in {e.ns, d.ns}
                 PROVE  FALSE
    BY <1>5 DEF Apart
  <2>3. CASE e.ns = d.ns
    BY <1>1, <2>1, <2>2, <2>3 DEF NoDuplicates, Location
  <2>4. CASE e.ns # d.ns
    BY <1>1, <1>5, <2>2, <2>4 DEF SameTarget
  <2>. QED
    BY <2>3, <2>4
<1>. QED
  BY <1>2, <1>3, <1>4, <1>5 DEF Kind

(* One more edit for the mappings of a file changes only what they mean.   *)
LEMMA EditsAddUp ==
    ASSUME NEW mappings, NEW f \in File, NEW old, NEW doc, NEW new,
           IsDocument(KindOf[f], old), IsDocument(KindOf[f], doc), IsDocument(KindOf[f], new),
           OnlyMeantChanged(mappings, f, old, doc),
           NEW m \in mappings, m.file = f, NEW e \in Entries(m),
           OnlyChanged(KindOf[f], doc, new, e)
    PROVE  OnlyMeantChanged(mappings, f, old, new)
<1> DEFINE kind == KindOf[f]
<1>1. kind \in Kind
  BY KindAssumption
<1>2. \A p \in Places(kind, doc) : Label(kind, At(kind, new, p)) = Label(kind, At(kind, doc, p))
  BY DEF OnlyChanged
<1>3. \A p \in Places(kind, old) : Label(kind, At(kind, doc, p)) = Label(kind, At(kind, old, p))
  BY <1>1 DEF OnlyMeantChanged
<1>4. /\ Around(kind, doc) = Around(kind, old) /\ Around(kind, new) = Around(kind, doc)
      /\ Places(kind, old) \subseteq Places(kind, doc)
      /\ Places(kind, doc) \subseteq Places(kind, new)
      /\ SharingKept(kind, old, doc) /\ SharingKept(kind, doc, new)
  BY DEF OnlyChanged, OnlyMeantChanged
<1>5. ASSUME NEW p \in Places(kind, doc), p \in MeantBy(mappings, f, doc)
      PROVE  p \in MeantBy(mappings, f, new)
  <2>1. PICK n \in mappings : /\ n.file = f
                              /\ \E d \in Entries(n) : \E q \in Meant(kind, doc, d) :
                                     OneNode(kind, doc, p, q)
    BY <1>5 DEF MeantBy
  <2>2. PICK d \in Entries(n) : \E q \in Meant(kind, doc, d) : OneNode(kind, doc, p, q)
    BY <2>1
  <2>3. PICK q \in Meant(kind, doc, d) : OneNode(kind, doc, p, q)
    BY <2>2
  <2>4. q \in Places(kind, doc) /\ q \in Meant(kind, new, d)
    BY <1>1, <1>2, <1>4, <2>3, MeansTheSame, MeantArePlaces
  <2>5. OneNode(kind, new, p, q)
    BY <1>4, <2>3, <2>4 DEF SharingKept
  <2>. QED
    BY <1>4, <2>1, <2>4, <2>5 DEF MeantBy
<1>6. ASSUME NEW p \in Places(kind, old), p \in MeantBy(mappings, f, doc)
      PROVE  p \in MeantBy(mappings, f, old)
  <2>1. PICK n \in mappings : /\ n.file = f
                              /\ \E d \in Entries(n) : \E q \in Meant(kind, doc, d) :
                                     OneNode(kind, doc, p, q)
    BY <1>6 DEF MeantBy
  <2>2. PICK d \in Entries(n) : \E q \in Meant(kind, doc, d) : OneNode(kind, doc, p, q)
    BY <2>1
  <2>3. PICK q \in Meant(kind, doc, d) : OneNode(kind, doc, p, q)
    BY <2>2
  <2>4. q \in Places(kind, old) /\ OneNode(kind, old, p, q)
    BY <1>1, <1>4, <2>3, MeantArePlaces DEF SharingKept
  <2>5. q \in Meant(kind, old, d)
    BY <1>1, <1>3, <1>4, <2>3, <2>4, MeansTheSame
  <2>. QED
    BY <2>1, <2>4, <2>5 DEF MeantBy
<1>7. ASSUME NEW d, NEW p \in Touched(kind, d, e)
      PROVE  p \in MeantBy(mappings, f, d)
  BY DEF MeantBy, Touched
<1>8. ASSUME NEW p \in Places(kind, new) \ Places(kind, old)
      PROVE  p \in MeantBy(mappings, f, new)
  <2>1. CASE p \in Places(kind, doc)
    <3>1. p \in MeantBy(mappings, f, doc)
      BY <2>1 DEF OnlyMeantChanged
    <3>. QED
      BY <1>5, <2>1, <3>1
  <2>2. CASE p \notin Places(kind, doc)
    <3>1. p \in Touched(kind, new, e)
      BY <2>2 DEF OnlyChanged
    <3>. QED
      BY <1>7, <3>1
  <2>. QED
    BY <2>1, <2>2
<1>9. ASSUME NEW p \in Places(kind, old)
      PROVE  IF p \in MeantBy(mappings, f, old)
             THEN Label(kind, At(kind, new, p)) = Label(kind, At(kind, old, p))
             ELSE At(kind, new, p) = At(kind, old, p)
  <2>1. CASE p \in MeantBy(mappings, f, old)
    BY <1>2, <1>3, <1>4, <2>1
  <2>2. CASE p \notin MeantBy(mappings, f, old)
    <3>1. p \notin Touched(kind, doc, e)
      BY <1>4, <1>6, <1>7, <2>2
    <3>2. At(kind, new, p) = At(kind, doc, p)
      BY <1>4, <3>1 DEF OnlyChanged
    <3>3. At(kind, doc, p) = At(kind, old, p)
      BY <2>2 DEF OnlyMeantChanged
    <3>. QED
      BY <2>2, <3>2, <3>3
  <2>. QED
    BY <2>1, <2>2
<1>10. SharingKept(kind, old, new)
  BY <1>4 DEF SharingKept
<1>. QED
  BY <1>4, <1>8, <1>9, <1>10 DEF OnlyMeantChanged

-----------------------------------------------------------------------------
(* The inductive invariant.                                                *)

(* No two entries of a mapping mean one object of a document.              *)
AllSeparate(m, doc) == \A e, d \in Entries(m) : Separate(KindOf[m.file], doc, e, d)

(* What a document is after the first n entries of mapping m have been     *)
(* written into the file that read `before`.                               *)
Progress(mappings, ports, m, doc, n, before) ==
    /\ OnlyMeantChanged(mappings, m.file, Found(before), doc)
    /\ Distinct(m) /\ AllSeparate(m, doc) =>
          \A i \in 1..n : Holds(KindOf[m.file], doc, m.entries[i], ports[m.entries[i].allocation])

StageInv ==
    /\ stage # "planning" => draft = NoDraft
    /\ stage \in {"start", "loaded"} => plan = <<>>
    /\ stage \notin {"start", "refused"} => ValidConfig
    /\ stage \notin {"start", "refused", "loaded"} => Covered(reply.ports)
    /\ stage \in {"planned", "applied"} => ToPlan = {}
    /\ replan => stage \in {"loaded", "planning", "planned", "refused"}

DraftInv ==
    /\ draft = [mapping |-> draft.mapping, doc |-> draft.doc, done |-> draft.done]
    /\ draft # NoDraft =>
          Progress(Mappings, reply.ports, Drafted, draft.doc, draft.done, tree[Drafted.file])

PlanInv ==
    /\ plan \in Seq({plan[i] : i \in DOMAIN plan})
    /\ \A i, j \in DOMAIN plan : plan[i].mapping = plan[j].mapping => i = j
    /\ \A i \in DOMAIN plan :
          Progress(Mappings, reply.ports, manifest.config[plan[i].mapping], plan[i].content,
                   Len(manifest.config[plan[i].mapping].entries), plan[i].before)
    /\ stage \in {"planning", "planned"} =>
          \A i \in DOMAIN plan : plan[i].before = tree[plan[i].file]

(* After apply: of a file that is mapped twice, one plan is what remains.  *)
WrittenInv ==
    stage = "applied" =>
        /\ \A i \in DOMAIN plan : plan[i].before = original[plan[i].file]
        /\ \A f \in File :
              \/ tree[f] = original[f] /\ \A i \in DOMAIN plan : plan[i].file # f
              \/ \E i \in DOMAIN plan : plan[i].file = f /\ tree[f] = plan[i].content
        /\ BackupsApart =>
              \A i \in DOMAIN plan : copies[BackupName[plan[i].file]] = original[plan[i].file]

(* Whatever the second plan has come to, each mapped file has every port   *)
(* and is not edited any further.                                          *)
ReplanInv ==
    replan /\ FilesOnce /\ EntriesOnce /\ NodesApart =>
        /\ \A m \in Mappings : /\ tree[m.file] # Absent
                               /\ \A e \in Entries(m) :
                                     Holds(KindOf[m.file], tree[m.file], e, reply.ports[e.allocation])
        /\ draft # NoDraft => draft.doc = tree[Drafted.file]
        /\ \A i \in DOMAIN plan :
              plan[i].action = "no_change" /\ plan[i].content = tree[plan[i].file]

DocumentsInv ==
    /\ DocumentsTypeOK
    /\ StageInv /\ DraftInv /\ PlanInv /\ WrittenInv /\ ReplanInv
    /\ RollbackRestores

(* The manifest's mappings and the allocation's ports have their types.    *)
LEMMA GivenTyped ==
    ASSUME DocumentsTypeOK
    PROVE  /\ Len(manifest.config) \in Nat /\ DOMAIN manifest.config = 1..Len(manifest.config)
           /\ \A k \in DOMAIN manifest.config :
                 /\ IsMapping(manifest.config[k])
                 /\ manifest.config[k] \in Mappings
                 /\ manifest.config[k].file \in File
                 /\ KindOf[manifest.config[k].file] \in Kind
                 /\ Len(manifest.config[k].entries) \in Nat
                 /\ DOMAIN manifest.config[k].entries = 1..Len(manifest.config[k].entries)
                 /\ \A i \in DOMAIN manifest.config[k].entries :
                       /\ manifest.config[k].entries[i] \in Entry(KindOf[manifest.config[k].file])
                       /\ manifest.config[k].entries[i] \in Entries(manifest.config[k])
                       /\ Covered(reply.ports) =>
                             reply.ports[manifest.config[k].entries[i].allocation] \in Nat
<1>1. /\ manifest \in Manifest /\ reply.ports \in [DOMAIN reply.ports -> Nat]
  BY ReplyAssumption DEF DocumentsTypeOK
<1>2. /\ Len(manifest.config) \in Nat /\ DOMAIN manifest.config = 1..Len(manifest.config)
      /\ \A k \in DOMAIN manifest.config : IsMapping(manifest.config[k])
  BY <1>1, ManifestAssumption
<1>3. ASSUME NEW k \in DOMAIN manifest.config
      PROVE  /\ manifest.config[k] \in Mappings
             /\ manifest.config[k].file \in File
             /\ KindOf[manifest.config[k].file] \in Kind
             /\ manifest.config[k].entries \in Seq(Entry(KindOf[manifest.config[k].file]))
  BY <1>2, KindAssumption DEF Mappings, IsMapping
<1>4. ASSUME NEW k \in DOMAIN manifest.config, NEW i \in DOMAIN manifest.config[k].entries
      PROVE  /\ manifest.config[k].entries[i] \in Entries(manifest.config[k])
             /\ Covered(reply.ports) =>
                   reply.ports[manifest.config[k].entries[i].allocation] \in Nat
  <2>1. manifest.config[k].entries[i] \in Entries(manifest.config[k])
    BY DEF Entries
  <2>2. manifest.config[k].entries[i].allocation \in Referenced
    BY <1>3, <2>1 DEF Referenced
  <2>. QED
    BY <1>1, <2>1, <2>2 DEF Covered
<1>. QED
  BY <1>2, <1>3, <1>4

(* The commands are given the same throughout.                             *)
LEMMA SameGiven ==
    ASSUME UNCHANGED given
    PROVE  /\ manifest' = manifest /\ reply' = reply /\ Mappings' = Mappings
           /\ ValidConfig' <=> ValidConfig
           /\ Covered(reply.ports)' <=> Covered(reply.ports)
           /\ FilesOnce' <=> FilesOnce
           /\ EntriesOnce' <=> EntriesOnce
           /\ BackupsApart' <=> BackupsApart
<1>1. manifest' = manifest /\ reply' = reply
  BY DEF given
<1>2. Mappings' = Mappings
  BY <1>1 DEF Mappings
<1>3. ValidConfig' <=> ValidConfig
  BY <1>1 DEF ValidConfig, Mapped, ValidMapping, ValidKubernetes, ValidDotenv, ValidCompose,
              ValidHostPort, ValidNodePort, Requests
<1>4. Covered(reply.ports)' <=> Covered(reply.ports)
  BY <1>1, <1>2 DEF Covered, Referenced
<1>5. (FilesOnce' <=> FilesOnce) /\ (EntriesOnce' <=> EntriesOnce)
      /\ (BackupsApart' <=> BackupsApart)
  BY <1>1, <1>2 DEF FilesOnce, EntriesOnce, BackupsApart
<1>. QED
  BY <1>1, <1>2, <1>3, <1>4, <1>5

(* What is one object in the files changes only with the files.            *)
LEMMA SameNodes ==
    ASSUME UNCHANGED given, UNCHANGED tree
    PROVE  NodesApart' <=> NodesApart
  BY SameGiven DEF NodesApart

LEMMA DocumentsInitInv ==
    ASSUME DocumentsInit
    PROVE  DocumentsInv
<1>1. DocumentsTypeOK
  <2>1. IsTree(tree) /\ IsTree(original)
    BY TreeAssumption DEF DocumentsInit
  <2>2. \A i \in DOMAIN plan : FALSE
    BY DEF DocumentsInit
  <2>3. copies = [n \in CopyNames |-> copies[n]]
    BY DEF DocumentsInit
  <2>. QED
    BY <2>1, <2>2, <2>3 DEF DocumentsInit, DocumentsTypeOK
<1>2. StageInv /\ WrittenInv /\ ReplanInv /\ RollbackRestores
  BY DEF DocumentsInit, StageInv, WrittenInv, ReplanInv, RollbackRestores
<1>3. DraftInv
  BY DEF DocumentsInit, DraftInv, NoDraft
<1>4. PlanInv
  BY DEF DocumentsInit, PlanInv
<1>. QED
  BY <1>1, <1>2, <1>3, <1>4 DEF DocumentsInv

(* A step that only moves the commands on, or gives the draft up.          *)
LEMMA OnlyTheStage ==
    ASSUME DocumentsInv, UNCHANGED <<given, tree, plan, copies, replan, original>>,
           draft' = draft \/ draft' = NoDraft,
           stage \in {"start", "loaded", "planning"},
           stage' \in {"loaded", "planning", "planned", "refused"},
           stage' \in {"planning", "planned"} => stage \in {"loaded", "planning"},
           StageInv'
    PROVE  DocumentsInv'
<1>1. DocumentsTypeOK'
  <2>1. IsTree(tree) /\ tree' = tree
    BY DEF DocumentsInv, DocumentsTypeOK
  <2>. QED
    BY <2>1 DEF DocumentsInv, DocumentsTypeOK, given, Drafted, ToPlan
<1>2. DraftInv'
  BY DEF DocumentsInv, DraftInv, given, Drafted, Mappings, NoDraft
<1>3. PlanInv'
  <2>1. manifest' = manifest /\ reply' = reply /\ Mappings' = Mappings
        /\ plan' = plan /\ tree' = tree
    BY SameGiven
  <2>2. ASSUME stage' \in {"planning", "planned"}
        PROVE  \A i \in DOMAIN plan : plan[i].before = tree[plan[i].file]
    <3>1. CASE stage = "planning"
      BY <3>1 DEF DocumentsInv, PlanInv
    <3>2. CASE stage = "loaded"
      <4>1. plan = <<>>
        BY <3>2 DEF DocumentsInv, StageInv
      <4>. QED
        BY <4>1
    <3>. QED
      BY <2>2, <3>1, <3>2
  <2>. QED
    BY <2>1, <2>2 DEF DocumentsInv, PlanInv
<1>4. WrittenInv' /\ RollbackRestores'
  BY DEF WrittenInv, RollbackRestores
<1>5. ReplanInv'
  <2>1. /\ manifest' = manifest /\ reply' = reply /\ Mappings' = Mappings
        /\ (FilesOnce' <=> FilesOnce) /\ (EntriesOnce' <=> EntriesOnce)
        /\ (NodesApart' <=> NodesApart) /\ tree' = tree /\ plan' = plan /\ replan' = replan
    BY SameGiven, SameNodes
  <2>2. draft' # NoDraft => draft' = draft /\ Drafted' = Drafted
    BY <2>1 DEF Drafted
  <2>. QED
    BY <2>1, <2>2 DEF DocumentsInv, ReplanInv
<1>. QED
  BY <1>1, <1>2, <1>3, <1>4, <1>5 DEF DocumentsInv

LEMMA GoingOnInv ==
    ASSUME DocumentsInv, LoadManifest \/ ManifestUnreadable \/ CheckAllocation
                         \/ FileUnreadable \/ SavePlan
    PROVE  DocumentsInv'
<1>1. CASE LoadManifest
  <2>1. stage' # "refused" => ValidConfig'
    BY <1>1, SameGiven DEF LoadManifest, ValidManifest
  <2>2. StageInv'
    BY <1>1, <2>1 DEF LoadManifest, DocumentsInv, StageInv
  <2>. QED
    BY <1>1, <2>2, OnlyTheStage DEF LoadManifest
<1>2. CASE ManifestUnreadable
  <2>1. StageInv'
    BY <1>2 DEF ManifestUnreadable, DocumentsInv, StageInv
  <2>. QED
    BY <1>2, <2>1, OnlyTheStage DEF ManifestUnreadable
<1>3. CASE CheckAllocation
  <2>1. stage' # "refused" => ValidConfig' /\ Covered(reply.ports)'
    BY <1>3, SameGiven DEF CheckAllocation, DocumentsInv, StageInv, OwnAllocation
  <2>2. StageInv'
    BY <1>3, <2>1 DEF CheckAllocation, DocumentsInv, StageInv
  <2>. QED
    BY <1>3, <2>2, OnlyTheStage DEF CheckAllocation
<1>4. CASE FileUnreadable
  <2>1. StageInv'
    BY <1>4 DEF FileUnreadable, Refuse, DocumentsInv, StageInv
  <2>. QED
    BY <1>4, <2>1, OnlyTheStage DEF FileUnreadable, Refuse
<1>5. CASE SavePlan
  <2>1. ValidConfig' /\ Covered(reply.ports)'
    BY <1>5, SameGiven DEF SavePlan, DocumentsInv, StageInv
  <2>2. ToPlan' = {}
    BY <1>5 DEF SavePlan, ToPlan, given
  <2>3. StageInv'
    BY <1>5, <2>1, <2>2 DEF SavePlan, DocumentsInv, StageInv
  <2>. QED
    BY <1>5, <2>3, OnlyTheStage DEF SavePlan
<1>. QED
  BY <1>1, <1>2, <1>3, <1>4, <1>5

(* Nothing has changed before the first edit.                              *)
LEMMA NothingChangedYet ==
    ASSUME NEW mappings, NEW f, NEW doc
    PROVE  OnlyMeantChanged(mappings, f, doc, doc)
  BY DEF OnlyMeantChanged, SharingKept

(* A missing file is edited as an empty one, and only a dotenv file.       *)
LEMMA ReadableIsFound ==
    ASSUME IsTree(tree), NEW f \in File, NEW doc \in Readable(f)
    PROVE  doc = Found(tree[f]) /\ IsDocument(KindOf[f], doc)
<1>1. CASE tree[f] # Absent
  BY <1>1 DEF Readable, Found, IsTree
<1>2. CASE tree[f] = Absent
  <2>1. KindOf[f] = "dotenv" /\ doc = <<>>
    BY <1>2 DEF Readable
  <2>2. <<>> \in Seq(Assignment)
    OBVIOUS
  <2>. QED
    BY <1>2, <2>1, <2>2 DEF Found, IsDocument
<1>. QED
  BY <1>1, <1>2

LEMMA OpenFileInv ==
    ASSUME DocumentsInv, OpenFile
    PROVE  DocumentsInv'
<1>1. /\ stage = "planning" /\ draft = NoDraft
      /\ UNCHANGED <<given, tree, plan, copies, replan, original>>
      /\ DocumentsTypeOK
  BY DEF OpenFile, DocumentsInv
<1>2. CASE Refuse
  <2>1. StageInv'
    BY <1>1, <1>2 DEF Refuse, DocumentsInv, StageInv
  <2>. QED
    BY <1>1, <1>2, <2>1, OnlyTheStage DEF Refuse
<1>3. ASSUME NEW k \in Upcoming, NEW doc \in Readable(manifest.config[k].file),
             draft' = [mapping |-> k, doc |-> doc, done |-> 0], UNCHANGED stage
      PROVE  DocumentsInv'
  <2> DEFINE m == manifest.config[k]
  <2>1. k \in ToPlan /\ k \in DOMAIN manifest.config
    BY DEF Upcoming, ToPlan
  <2>2. /\ m \in Mappings /\ m.file \in File /\ Len(m.entries) \in Nat
    BY <1>1, <2>1, GivenTyped
  <2>3. doc = Found(tree[m.file]) /\ IsDocument(KindOf[m.file], doc)
    BY <1>1, <2>2, ReadableIsFound DEF DocumentsTypeOK
  <2>4. /\ manifest' = manifest /\ reply' = reply /\ Mappings' = Mappings
        /\ tree' = tree /\ plan' = plan /\ replan' = replan /\ stage' = stage
    BY <1>1, <1>3, SameGiven
  <2>5. Drafted' = m /\ draft'.mapping = k /\ draft'.doc = doc /\ draft'.done = 0
    BY <1>3, <2>4 DEF Drafted
  <2>6. DocumentsTypeOK'
    <3>1. ToPlan' = ToPlan
      BY <2>4 DEF ToPlan
    <3>. QED
      BY <1>1, <2>1, <2>2, <2>3, <2>4, <2>5, <3>1 DEF DocumentsTypeOK, given
  <2>7. StageInv'
    BY <1>1, <2>4, SameGiven DEF DocumentsInv, StageInv
  <2>8. DraftInv'
    <3>1. OnlyMeantChanged(Mappings, m.file, Found(tree[m.file]), doc)
      BY <2>3, NothingChangedYet
    <3>2. Progress(Mappings, reply.ports, m, doc, 0, tree[m.file])
      BY <3>1 DEF Progress
    <3>. QED
      BY <1>3, <2>4, <2>5, <3>2 DEF DraftInv
  <2>9. PlanInv'
    BY <2>4 DEF DocumentsInv, PlanInv
  <2>10. WrittenInv' /\ RollbackRestores'
    BY <1>1, <2>4 DEF WrittenInv, RollbackRestores
  <2>11. ReplanInv'
    <3>1. (FilesOnce' <=> FilesOnce) /\ (EntriesOnce' <=> EntriesOnce)
          /\ (NodesApart' <=> NodesApart)
      BY <1>1, SameGiven, SameNodes
    <3>2. tree[m.file] # Absent => doc = tree[m.file]
      BY <2>3 DEF Found
    <3>. QED
      BY <2>2, <2>4, <2>5, <3>1, <3>2 DEF DocumentsInv, ReplanInv
  <2>. QED
    BY <2>6, <2>7, <2>8, <2>9, <2>10, <2>11 DEF DocumentsInv
<1>. QED
  BY <1>2, <1>3 DEF OpenFile

LEMMA FoundIsDocument ==
    ASSUME IsTree(tree), NEW f \in File
    PROVE  IsDocument(KindOf[f], Found(tree[f]))
<1>1. CASE tree[f] # Absent
  BY <1>1 DEF Found, IsTree
<1>2. CASE tree[f] = Absent
  <2>1. <<>> \in Seq(Assignment) /\ <<>> \in Seq(Workload)
    OBVIOUS
  <2>2. /\ <<>> \in [{} -> ServicePorts] /\ DOMAIN <<>> = {}
        /\ \A kind \in Kind : NodesAgree(kind, <<>>)
    BY DEF NodesAgree, Places, Kind
  <2>3. KindOf[f] \in Kind
    BY KindAssumption
  <2>. QED
    BY <1>2, <2>1, <2>2, <2>3 DEF Found, IsDocument, ListsAgree, Kind
<1>. QED
  BY <1>1, <1>2

(* What is two objects after an edit was two before.                       *)
LEMMA SeparateBefore ==
    ASSUME NEW kind \in Kind, NEW doc, IsDocument(kind, doc), NEW new, IsDocument(kind, new),
           NEW x, OnlyChanged(kind, doc, new, x), NEW e, NEW d, Separate(kind, new, e, d)
    PROVE  Separate(kind, doc, e, d)
<1>1. \A p \in Places(kind, doc) : Label(kind, At(kind, new, p)) = Label(kind, At(kind, doc, p))
  BY DEF OnlyChanged
<1>2. ASSUME NEW p \in Meant(kind, doc, e), NEW q \in Meant(kind, doc, d),
             OneNode(kind, doc, p, q)
      PROVE  p = q
  <2>1. p \in Places(kind, doc) /\ q \in Places(kind, doc) /\ q \in Places(kind, new)
    BY MeantArePlaces DEF OnlyChanged
  <2>2. p \in Meant(kind, new, e) /\ q \in Meant(kind, new, d)
    BY <1>1, <2>1, MeansTheSame DEF OnlyChanged
  <2>3. OneNode(kind, new, p, q)
    BY <1>2, <2>1 DEF OnlyChanged, SharingKept
  <2>. QED
    BY <2>2, <2>3 DEF Separate
<1>. QED
  BY <1>2 DEF Separate

(* One more entry of a mapping has been written.                           *)
LEMMA OneMoreEntry ==
    ASSUME NEW mappings, NEW m \in mappings, IsMapping(m), NEW ports, NEW before,
           IsDocument(KindOf[m.file], Found(before)),
           NEW doc, IsDocument(KindOf[m.file], doc), NEW n \in Nat, n < Len(m.entries),
           Progress(mappings, ports, m, doc, n, before),
           NEW new, WellEdited(KindOf[m.file], doc, new, m.entries[n + 1],
                               ports[m.entries[n + 1].allocation]),
           \A i \in 1..n : ports[m.entries[i].allocation] \in Nat
    PROVE  Progress(mappings, ports, m, new, n + 1, before)
<1> DEFINE kind == KindOf[m.file]
           e == m.entries[n + 1]
           Port(i) == ports[m.entries[i].allocation]
<1>1. /\ m.file \in File /\ kind \in Kind /\ m.entries \in Seq(Entry(kind))
      /\ n + 1 \in DOMAIN m.entries
  BY KindAssumption DEF IsMapping
<1>2. e \in Entries(m) /\ e \in Entry(kind)
  BY <1>1 DEF Entries
<1>3. /\ IsDocument(kind, new) /\ OnlyChanged(kind, doc, new, e)
      /\ Holds(kind, new, e, Port(n + 1))
      /\ \A d \in Entry(kind), q \in Nat :
            Apart(kind, e, d) /\ Separate(kind, new, e, d) /\ Holds(kind, doc, d, q)
            => Holds(kind, new, d, q)
  BY DEF WellEdited
<1>4. OnlyMeantChanged(mappings, m.file, Found(before), new)
  BY <1>1, <1>2, <1>3, EditsAddUp DEF Progress
<1>s. AllSeparate(m, new) => AllSeparate(m, doc)
  BY <1>1, <1>3, SeparateBefore DEF AllSeparate
<1>5. ASSUME Distinct(m), AllSeparate(m, new), NEW i \in 1..(n + 1)
      PROVE  Holds(kind, new, m.entries[i], Port(i))
  <2>1. CASE i = n + 1
    BY <1>3, <2>1
  <2>2. CASE i # n + 1
    <3>1. i \in 1..n /\ i \in DOMAIN m.entries /\ m.entries[i] \in Entry(kind)
      BY <1>1, <2>2
    <3>2. Holds(kind, doc, m.entries[i], Port(i))
      BY <1>5, <1>s, <3>1 DEF Progress
    <3>3. Apart(kind, e, m.entries[i]) /\ Separate(kind, new, e, m.entries[i])
      BY <1>1, <1>2, <1>5, <2>2, <3>1 DEF Distinct, AllSeparate, Entries
    <3>4. Port(i) \in Nat
      BY <3>1
    <3>. QED
      BY <1>3, <3>1, <3>2, <3>3, <3>4
  <2>. QED
    BY <2>1, <2>2
<1>. QED
  BY <1>4, <1>5 DEF Progress

LEMMA EditEntryInv ==
    ASSUME DocumentsInv, EditEntry
    PROVE  DocumentsInv'
<1> DEFINE m == Drafted
           e == m.entries[draft.done + 1]
           port == reply.ports[e.allocation]
           docs == Edited(KindOf[m.file], draft.doc, e, port)
<1>1. /\ stage = "planning" /\ draft # NoDraft /\ draft.done < Len(m.entries)
      /\ UNCHANGED <<given, tree, plan, copies, replan, original>>
      /\ DocumentsTypeOK
  BY DEF EditEntry, DocumentsInv
<1>2. CASE Refuse
  <2>1. StageInv'
    BY <1>1, <1>2 DEF Refuse, DocumentsInv, StageInv
  <2>. QED
    BY <1>1, <1>2, <2>1, OnlyTheStage DEF Refuse
<1>3. ASSUME NEW doc \in docs, UNCHANGED stage,
             draft' = [draft EXCEPT !.doc = doc, !.done = @ + 1]
      PROVE  DocumentsInv'
  <2>1. /\ draft.mapping \in ToPlan /\ draft.mapping \in DOMAIN manifest.config
        /\ draft.done \in 0..Len(m.entries) /\ IsDocument(KindOf[m.file], draft.doc)
    BY <1>1 DEF DocumentsTypeOK, ToPlan
  <2>2. /\ m \in Mappings /\ m.file \in File /\ KindOf[m.file] \in Kind
        /\ IsMapping(m) /\ Len(m.entries) \in Nat /\ DOMAIN m.entries = 1..Len(m.entries)
    BY <1>1, <2>1, GivenTyped DEF Drafted
  <2>3. draft.done \in Nat /\ draft.done + 1 \in DOMAIN m.entries
        /\ 1..draft.done \subseteq DOMAIN m.entries
    BY <1>1, <2>1, <2>2
  <2>4. Covered(reply.ports)
    BY <1>1 DEF DocumentsInv, StageInv
  <2>5. \A i \in DOMAIN m.entries : /\ m.entries[i] \in Entry(KindOf[m.file])
                                    /\ m.entries[i] \in Entries(m)
                                    /\ reply.ports[m.entries[i].allocation] \in Nat
    BY <1>1, <2>1, <2>4, GivenTyped DEF Drafted
  <2>6. WellEdited(KindOf[m.file], draft.doc, doc, e, port)
    BY <2>1, <2>2, <2>3, <2>5, EveryEdit
  <2>7. /\ manifest' = manifest /\ reply' = reply /\ Mappings' = Mappings
        /\ tree' = tree /\ plan' = plan /\ replan' = replan /\ stage' = stage
    BY <1>1, <1>3, SameGiven
  <2>8. /\ draft' = [mapping |-> draft.mapping, doc |-> doc, done |-> draft.done + 1]
        /\ Drafted' = m
    <3>1. draft = [mapping |-> draft.mapping, doc |-> draft.doc, done |-> draft.done]
      BY DEF DocumentsInv, DraftInv
    <3>2. draft' = [mapping |-> draft.mapping, doc |-> doc, done |-> draft.done + 1]
      BY <1>3, <3>1
    <3>. QED
      BY <2>7, <3>2 DEF Drafted
  <2>9. DocumentsTypeOK'
    <3>1. ToPlan' = ToPlan
      BY <2>7 DEF ToPlan
    <3>2. IsDocument(KindOf[m.file], doc)
      BY <2>6 DEF WellEdited
    <3>3. draft.done + 1 \in 0..Len(m.entries)
      BY <1>1, <2>2, <2>3
    <3>. QED
      BY <1>1, <2>1, <2>7, <2>8, <3>1, <3>2, <3>3 DEF DocumentsTypeOK, given
  <2>10. StageInv'
    BY <1>1, <2>7, SameGiven DEF DocumentsInv, StageInv
  <2>11. DraftInv'
    <3>1. Progress(Mappings, reply.ports, m, draft.doc, draft.done, tree[m.file])
      BY <1>1 DEF DocumentsInv, DraftInv
    <3>2. IsDocument(KindOf[m.file], Found(tree[m.file]))
      BY <1>1, <2>2, FoundIsDocument DEF DocumentsTypeOK
    <3>3. Progress(Mappings, reply.ports, m, doc, draft.done + 1, tree[m.file])
      BY <1>1, <2>1, <2>2, <2>3, <2>5, <2>6, <3>1, <3>2, OneMoreEntry
    <3>. QED
      BY <2>7, <2>8, <3>3 DEF DraftInv
  <2>12. PlanInv'
    BY <2>7 DEF DocumentsInv, PlanInv
  <2>13. WrittenInv' /\ RollbackRestores'
    BY <1>1, <2>7 DEF WrittenInv, RollbackRestores
  <2>14. ReplanInv'
    <3>1. (FilesOnce' <=> FilesOnce) /\ (EntriesOnce' <=> EntriesOnce)
          /\ (NodesApart' <=> NodesApart)
      BY <1>1, <2>7, SameGiven, SameNodes
    <3>2. ASSUME replan, FilesOnce, EntriesOnce, NodesApart
          PROVE  doc = tree[m.file]
      <4>1. draft.doc = tree[m.file]
        BY <1>1, <3>2 DEF DocumentsInv, ReplanInv
      <4>2. Holds(KindOf[m.file], tree[m.file], e, port)
        BY <2>2, <2>3, <2>5, <3>2 DEF DocumentsInv, ReplanInv
      <4>. QED
        BY <2>6, <4>1, <4>2 DEF WellEdited
    <3>. QED
      BY <2>7, <2>8, <3>1, <3>2 DEF DocumentsInv, ReplanInv
  <2>. QED
    BY <2>9, <2>10, <2>11, <2>12, <2>13, <2>14 DEF DocumentsInv
<1>. QED
  BY <1>2, <1>3 DEF EditEntry

LEMMA PlanFileInv ==
    ASSUME DocumentsInv, PlanFile
    PROVE  DocumentsInv'
<1> DEFINE m == Drafted
           row == [mapping |-> draft.mapping, file |-> m.file,
                   action |-> Action(m.file, draft.doc),
                   before |-> tree[m.file], content |-> draft.doc]
           last == Len(plan) + 1
<1>1. /\ stage = "planning" /\ draft # NoDraft /\ draft.done = Len(m.entries)
      /\ plan' = Append(plan, row) /\ draft' = NoDraft
      /\ UNCHANGED <<given, stage, tree, copies, replan, original>>
      /\ DocumentsTypeOK
  BY DEF PlanFile, DocumentsInv
<1>2. /\ draft.mapping \in ToPlan /\ draft.mapping \in DOMAIN manifest.config
      /\ m = manifest.config[draft.mapping]
      /\ IsDocument(KindOf[m.file], draft.doc)
  BY <1>1 DEF DocumentsTypeOK, ToPlan, Drafted
<1>3. m \in Mappings /\ m.file \in File
  BY <1>1, <1>2, GivenTyped
<1>4. /\ manifest' = manifest /\ reply' = reply /\ Mappings' = Mappings
      /\ tree' = tree /\ replan' = replan /\ stage' = stage
  BY <1>1, SameGiven
<1>5. /\ row.mapping = draft.mapping /\ row.file = m.file
      /\ row.action = Action(m.file, draft.doc)
      /\ row.before = tree[m.file] /\ row.content = draft.doc
  OBVIOUS
<1> HIDE DEF row
<1>6. /\ plan' \in Seq({plan'[i] : i \in DOMAIN plan'})
      /\ DOMAIN plan' = DOMAIN plan \cup {last}
      /\ plan'[last] = row
      /\ \A i \in DOMAIN plan : plan'[i] = plan[i]
  <2> DEFINE T == {plan[i] : i \in DOMAIN plan} \cup {row}
  <2>1. plan \in Seq({plan[i] : i \in DOMAIN plan})
    BY DEF DocumentsInv, PlanInv
  <2>2. plan \in Seq(T)
    BY <2>1
  <2>3. /\ plan' \in Seq(T) /\ DOMAIN plan' = DOMAIN plan \cup {last}
        /\ plan'[last] = row /\ \A i \in DOMAIN plan : plan'[i] = plan[i]
    BY <1>1, <2>2
  <2>4. T = {plan'[i] : i \in DOMAIN plan'}
    BY <2>3
  <2>. QED
    BY <2>3, <2>4
<1>7. \A i \in DOMAIN plan : plan[i].mapping # row.mapping
  BY <1>2, <1>5 DEF ToPlan
<1>8. DocumentsTypeOK'
  <2>1. row.action \in IF row.before = Absent THEN {"will_create"}
                       ELSE {"will_update", "no_change"}
    BY <1>5 DEF Action
  <2>2. \A i \in DOMAIN plan' :
          /\ plan'[i].mapping \in DOMAIN manifest.config
          /\ plan'[i].file = manifest.config[plan'[i].mapping].file
          /\ plan'[i].action \in IF plan'[i].before = Absent THEN {"will_create"}
                                 ELSE {"will_update", "no_change"}
          /\ IsDocument(KindOf[plan'[i].file], plan'[i].content)
    BY <1>1, <1>2, <1>5, <1>6, <2>1 DEF DocumentsTypeOK
  <2>. QED
    BY <1>1, <1>4, <2>2 DEF DocumentsTypeOK, given
<1>9. StageInv'
  BY <1>1, <1>4, SameGiven DEF DocumentsInv, StageInv
<1>10. DraftInv'
  BY <1>1 DEF DraftInv, NoDraft
<1>11. PlanInv'
  <2>1. Progress(Mappings, reply.ports, m, draft.doc, draft.done, tree[m.file])
    BY <1>1 DEF DocumentsInv, DraftInv
  <2>2. \A i, j \in DOMAIN plan' : plan'[i].mapping = plan'[j].mapping => i = j
    BY <1>6, <1>7 DEF DocumentsInv, PlanInv
  <2>3. \A i \in DOMAIN plan' :
          Progress(Mappings, reply.ports, manifest.config[plan'[i].mapping], plan'[i].content,
                   Len(manifest.config[plan'[i].mapping].entries), plan'[i].before)
    BY <1>1, <1>2, <1>5, <1>6, <2>1 DEF DocumentsInv, PlanInv
  <2>4. \A i \in DOMAIN plan' : plan'[i].before = tree[plan'[i].file]
    BY <1>1, <1>5, <1>6 DEF DocumentsInv, PlanInv
  <2>. QED
    BY <1>4, <1>6, <2>2, <2>3, <2>4 DEF PlanInv
<1>12. WrittenInv' /\ RollbackRestores'
  BY <1>1, <1>4 DEF WrittenInv, RollbackRestores
<1>13. ReplanInv'
  <2>1. (FilesOnce' <=> FilesOnce) /\ (EntriesOnce' <=> EntriesOnce)
        /\ (NodesApart' <=> NodesApart)
    BY <1>1, SameGiven, SameNodes
  <2>2. ASSUME replan, FilesOnce, EntriesOnce, NodesApart
        PROVE  \A i \in DOMAIN plan' :
                  plan'[i].action = "no_change" /\ plan'[i].content = tree[plan'[i].file]
    <3>1. tree[m.file] # Absent /\ draft.doc = tree[m.file]
      BY <1>1, <1>3, <2>2 DEF DocumentsInv, ReplanInv
    <3>2. row.action = "no_change" /\ row.content = tree[row.file]
      BY <1>5, <3>1 DEF Action
    <3>. QED
      BY <1>6, <2>2, <3>2 DEF DocumentsInv, ReplanInv
  <2>. QED
    BY <1>1, <1>4, <2>1, <2>2 DEF DocumentsInv, ReplanInv
<1>. QED
  BY <1>8, <1>9, <1>10, <1>11, <1>12, <1>13 DEF DocumentsInv

(* A finite set of positions has a last one: of the positions above each,  *)
(* a smallest set is empty.                                                *)
LEMMA LastExists ==
    ASSUME NEW n \in Nat, NEW s \in SUBSET (1..n), s # {}
    PROVE  LastOf(s) \in s
<1> DEFINE Above(i) == {j \in s : j > i}
           sets == {Above(i) : i \in s}
<1>1. sets \subseteq FiniteSubsetsOf(1..n)
  <2>1. IsFiniteSet(1..n)
    BY FS_Interval
  <2>2. \A i \in s : Above(i) \in SUBSET (1..n)
    OBVIOUS
  <2>. QED
    BY <2>1, <2>2, FS_Subset DEF FiniteSubsetsOf
<1>2. PICK a \in sets : \A b \in sets : <<b, a>> \notin StrictSubsetOrdering(1..n)
  <2>1. sets # {}
    OBVIOUS
  <2>2. IsWellFoundedOn(StrictSubsetOrdering(1..n), FiniteSubsetsOf(1..n))
    BY FS_StrictSubsetOrderingWellFounded
  <2> HIDE DEF sets
  <2>. QED
    BY <1>1, <2>1, <2>2, WFMin
<1>3. PICK i \in s : a = Above(i)
  OBVIOUS
<1>4. ASSUME NEW j \in s, j > i
      PROVE  FALSE
  <2>1. Above(j) \subseteq Above(i) /\ j \in Above(i) /\ j \notin Above(j)
    <3>1. i \in Int /\ j \in Int /\ \A k \in s : k \in Int
      OBVIOUS
    <3>2. \A k \in s : k > j => k > i
      BY <1>4, <3>1
    <3>3. ~(j > j)
      BY <3>1
    <3>. QED
      BY <1>4, <3>2, <3>3
  <2>2. Above(i) \in SUBSET (1..n) /\ Above(j) \in SUBSET (1..n) /\ Above(j) \in sets
    OBVIOUS
  <2> HIDE DEF Above, sets
  <2>3. <<Above(j), Above(i)>> \in StrictSubsetOrdering(1..n)
    BY <2>1, <2>2 DEF StrictSubsetOrdering
  <2>. QED
    BY <1>2, <1>3, <2>2, <2>3
<1>5. \A j \in s : j <= i
  BY <1>4
<1>. QED
  BY <1>5 DEF LastOf

(* The last of some plans is one of them.                                  *)
LEMMA LastPlan ==
    ASSUME DocumentsInv, NEW s \in SUBSET DOMAIN plan, s # {}
    PROVE  LastOf(s) \in s
<1>1. plan \in Seq({plan[i] : i \in DOMAIN plan})
  BY DEF DocumentsInv, PlanInv
<1>2. DOMAIN plan = 1..Len(plan) /\ Len(plan) \in Nat
  BY <1>1
<1>. QED
  BY <1>2, LastExists

LEMMA ApplyPlanInv ==
    ASSUME DocumentsInv, ApplyPlan
    PROVE  DocumentsInv'
<1>1. /\ stage = "planned" /\ ~replan /\ original' = tree /\ stage' = "applied"
      /\ UNCHANGED <<given, draft, plan, replan>>
      /\ DocumentsTypeOK
  BY DEF ApplyPlan, DocumentsInv
<1>2. /\ manifest' = manifest /\ reply' = reply /\ Mappings' = Mappings
      /\ plan' = plan /\ replan' = replan /\ draft' = draft
  BY <1>1, SameGiven
<1>3. /\ tree' = [f \in File |-> tree'[f]]
      /\ \A f \in File :
            \/ tree'[f] = tree[f] /\ PlannedFor(f) = {}
            \/ \E i \in PlannedFor(f) : tree'[f] = plan[i].content
  <2>1. tree' = [f \in File |-> IF PlannedFor(f) = {} THEN tree[f] ELSE Written(f)]
    BY DEF ApplyPlan
  <2>2. \A f \in File : PlannedFor(f) # {} => LastOf(PlannedFor(f)) \in PlannedFor(f)
    BY LastPlan DEF PlannedFor
  <2>. QED
    BY <2>1, <2>2 DEF Written
<1>4. ASSUME BackupsApart, NEW i \in DOMAIN plan
      PROVE  copies'[BackupName[plan[i].file]] = tree[plan[i].file]
  <2> DEFINE n == BackupName[plan[i].file]
  <2>1. \A j \in DOMAIN plan : \E m \in Mappings : m.file = plan[j].file /\ m.file \in File
    BY <1>1, GivenTyped DEF DocumentsTypeOK
  <2>2. n \in CopyNames
    BY <2>1 DEF CopyNames
  <2>3. copies'[n] = IF Copied(n) = {} THEN Absent ELSE tree[plan[LastOf(Copied(n))].file]
    BY <2>2 DEF ApplyPlan
  <2>4. CASE Copied(n) = {}
    BY <2>3, <2>4 DEF Copied
  <2>5. CASE Copied(n) # {}
    <3>1. LastOf(Copied(n)) \in Copied(n)
      BY <2>5, LastPlan DEF Copied
    <3>2. PICK k \in DOMAIN plan : k = LastOf(Copied(n)) /\ BackupName[plan[k].file] = n
      BY <3>1 DEF Copied
    <3>3. plan[k].file = plan[i].file
      BY <1>4, <2>1, <3>2 DEF BackupsApart
    <3>. QED
      BY <2>3, <2>5, <3>2, <3>3
  <2>. QED
    BY <2>4, <2>5
<1>5. DocumentsTypeOK'
  <2>1. IsTree(tree')
    BY <1>1, <1>3 DEF DocumentsTypeOK, IsTree, PlannedFor
  <2>2. copies' = [n \in CopyNames |-> copies'[n]]
    BY DEF ApplyPlan
  <2>3. IsTree(original') /\ draft' = NoDraft
    BY <1>1 DEF DocumentsTypeOK, DocumentsInv, StageInv
  <2>. QED
    BY <1>1, <1>2, <2>1, <2>2, <2>3 DEF DocumentsTypeOK
<1>6. StageInv'
  <2>1. ToPlan' = ToPlan
    BY <1>2 DEF ToPlan
  <2>. QED
    BY <1>1, <1>2, <2>1, SameGiven DEF DocumentsInv, StageInv
<1>7. DraftInv'
  BY <1>1 DEF DocumentsInv, StageInv, DraftInv
<1>8. PlanInv'
  BY <1>1, <1>2 DEF DocumentsInv, PlanInv
<1>9. WrittenInv'
  <2>1. BackupsApart' <=> BackupsApart
    BY <1>1, SameGiven
  <2>2. \A i \in DOMAIN plan : plan[i].before = tree[plan[i].file]
    BY <1>1 DEF DocumentsInv, PlanInv
  <2>. QED
    BY <1>1, <1>2, <1>3, <1>4, <2>1, <2>2 DEF WrittenInv, PlannedFor
<1>10. ReplanInv' /\ RollbackRestores'
  BY <1>1 DEF ReplanInv, RollbackRestores
<1>. QED
  BY <1>5, <1>6, <1>7, <1>8, <1>9, <1>10 DEF DocumentsInv

(* After apply, a file holds what a plan for it has written.               *)
LEMMA AppliedDocument ==
    ASSUME DocumentsInv, stage = "applied", NEW i \in DOMAIN plan
    PROVE  \E j \in DOMAIN plan : plan[j].file = plan[i].file /\ tree[plan[i].file] = plan[j].content
<1>1. plan[i].file \in File
  BY GivenTyped DEF DocumentsInv, DocumentsTypeOK
<1>. QED
  BY <1>1 DEF DocumentsInv, WrittenInv

(* A file that is mapped once has one plan.                                *)
LEMMA OnePlanEach ==
    ASSUME DocumentsInv, FilesOnce, NEW i \in DOMAIN plan, NEW j \in DOMAIN plan,
           plan[i].file = plan[j].file
    PROVE  i = j
<1>1. /\ plan[i].mapping \in DOMAIN manifest.config
      /\ plan[j].mapping \in DOMAIN manifest.config
      /\ plan[i].file = manifest.config[plan[i].mapping].file
      /\ plan[j].file = manifest.config[plan[j].mapping].file
  BY DEF DocumentsInv, DocumentsTypeOK
<1>2. plan[i].mapping = plan[j].mapping
  BY <1>1 DEF FilesOnce
<1>. QED
  BY <1>2 DEF DocumentsInv, PlanInv

(* After apply, every mapped file holds the port of every entry.           *)
LEMMA AppliedHolds ==
    ASSUME DocumentsInv, stage = "applied", FilesOnce, EntriesOnce, NodesApart,
           NEW m \in Mappings
    PROVE  /\ tree[m.file] # Absent
           /\ \A e \in Entries(m) :
                 Holds(KindOf[m.file], tree[m.file], e, reply.ports[e.allocation])
<1>1. PICK k \in DOMAIN manifest.config : m = manifest.config[k]
  BY DEF Mappings
<1>2. DocumentsTypeOK /\ ToPlan = {} /\ ValidConfig
  BY DEF DocumentsInv, StageInv
<1>3. /\ IsMapping(m) /\ m.file \in File /\ KindOf[m.file] \in Kind
      /\ DOMAIN m.entries = 1..Len(m.entries)
  BY <1>1, <1>2, GivenTyped
<1>4. PICK i \in DOMAIN plan : plan[i].mapping = k
  BY <1>1, <1>2 DEF ToPlan
<1>5. plan[i].file = m.file /\ IsDocument(KindOf[m.file], plan[i].content)
  BY <1>1, <1>2, <1>4 DEF DocumentsTypeOK
<1>6. tree[m.file] = plan[i].content
  <2>1. PICK j \in DOMAIN plan : plan[j].file = m.file /\ tree[m.file] = plan[j].content
    BY <1>4, <1>5, AppliedDocument
  <2>2. j = i
    BY <1>5, <2>1, OnePlanEach
  <2>. QED
    BY <2>1, <2>2
<1>7. Distinct(m)
  <2>1. ValidMapping(m)
    BY <1>1, <1>2 DEF ValidConfig
  <2>2. \A a, b \in DOMAIN m.entries :
           SameTarget(KindOf[m.file], m.entries[a], m.entries[b]) => a = b
    BY DEF EntriesOnce
  <2>. QED
    BY <1>3, <2>1, <2>2, ValidIsDistinct
<1>8. Progress(Mappings, reply.ports, m, plan[i].content, Len(m.entries), plan[i].before)
  BY <1>1, <1>4 DEF DocumentsInv, PlanInv
<1>9. \A e \in Entries(m) : \E a \in 1..Len(m.entries) : e = m.entries[a]
  BY <1>3 DEF Entries
<1>10. tree[m.file] # Absent
  BY <1>3, <1>5, <1>6, NoDocumentAssumption
<1>11. AllSeparate(m, plan[i].content)
  BY <1>6, <1>10 DEF NodesApart, AllSeparate, Found
<1>. QED
  BY <1>6, <1>7, <1>8, <1>9, <1>10, <1>11 DEF Progress

LEMMA PlanAgainInv ==
    ASSUME DocumentsInv, PlanAgain
    PROVE  DocumentsInv'
<1>1. /\ stage = "applied" /\ stage' = "loaded" /\ replan' = TRUE /\ plan' = <<>>
      /\ UNCHANGED <<given, tree, draft, copies, original>>
      /\ DocumentsTypeOK
  BY DEF PlanAgain, DocumentsInv
<1>2. /\ manifest' = manifest /\ reply' = reply /\ Mappings' = Mappings
      /\ tree' = tree /\ draft' = NoDraft
  BY <1>1, SameGiven DEF DocumentsInv, StageInv
<1>3. \A i \in DOMAIN plan' : FALSE
  BY <1>1
<1>4. DocumentsTypeOK'
  BY <1>1, <1>2, <1>3 DEF DocumentsTypeOK
<1>5. StageInv'
  BY <1>1, <1>2, SameGiven DEF DocumentsInv, StageInv
<1>6. DraftInv'
  BY <1>2 DEF DraftInv, NoDraft
<1>7. PlanInv'
  BY <1>1, <1>3 DEF PlanInv
<1>8. WrittenInv' /\ RollbackRestores'
  BY <1>1 DEF WrittenInv, RollbackRestores
<1>9. ReplanInv'
  <2>1. (FilesOnce' <=> FilesOnce) /\ (EntriesOnce' <=> EntriesOnce)
        /\ (NodesApart' <=> NodesApart)
    BY <1>1, SameGiven, SameNodes
  <2>2. ASSUME FilesOnce, EntriesOnce, NodesApart, NEW m \in Mappings
        PROVE  /\ tree[m.file] # Absent
               /\ \A e \in Entries(m) :
                     Holds(KindOf[m.file], tree[m.file], e, reply.ports[e.allocation])
    BY <1>1, <2>2, AppliedHolds
  <2>. QED
    BY <1>2, <1>3, <2>1, <2>2 DEF ReplanInv
<1>. QED
  BY <1>4, <1>5, <1>6, <1>7, <1>8, <1>9 DEF DocumentsInv

LEMMA RollbackInv ==
    ASSUME DocumentsInv, Rollback
    PROVE  DocumentsInv'
<1> DEFINE asWritten == \A i \in DOMAIN plan : tree[plan[i].file] = plan[i].content
<1>1. /\ stage = "applied" /\ UNCHANGED <<given, draft, plan, copies, replan, original>>
      /\ DocumentsTypeOK
      /\ \/ /\ asWritten /\ stage' = "rolled_back"
            /\ tree' = [f \in File |-> IF PlannedFor(f) = {} THEN tree[f] ELSE Restored(f)]
         \/ ~asWritten /\ stage' = "stuck" /\ tree' = tree
  BY DEF Rollback, DocumentsInv
<1>2. /\ manifest' = manifest /\ reply' = reply /\ Mappings' = Mappings
      /\ plan' = plan /\ draft' = NoDraft /\ ToPlan' = ToPlan /\ replan' = FALSE
  <2>1. draft = NoDraft /\ replan = FALSE
    BY <1>1 DEF DocumentsInv, StageInv, DocumentsTypeOK
  <2>. QED
    BY <1>1, <2>1, SameGiven DEF ToPlan
<1>3. (FilesOnce' <=> FilesOnce) /\ (BackupsApart' <=> BackupsApart)
  BY <1>1, SameGiven
<1>4. FilesOnce => asWritten
  BY <1>1, AppliedDocument, OnePlanEach
<1>5. BackupsApart /\ stage' = "rolled_back" => tree' = original
  <2>1. SUFFICES ASSUME BackupsApart, stage' = "rolled_back" PROVE tree' = original
    OBVIOUS
  <2>2. tree' = [f \in File |-> IF PlannedFor(f) = {} THEN tree[f] ELSE Restored(f)]
    BY <1>1, <2>1
  <2>3. original = [f \in File |-> original[f]]
    BY <1>1 DEF DocumentsTypeOK, IsTree
  <2>4. ASSUME NEW f \in File
        PROVE  (IF PlannedFor(f) = {} THEN tree[f] ELSE Restored(f)) = original[f]
    BY <1>1, <2>1 DEF DocumentsInv, WrittenInv, PlannedFor, Restored
  <2>. QED
    BY <2>2, <2>3, <2>4
<1>6. DocumentsTypeOK'
  <2>1. BackupsApart \/ stage' # "rolled_back" => IsTree(tree')
    BY <1>1, <1>5 DEF DocumentsTypeOK
  <2>. QED
    BY <1>1, <1>2, <1>3, <2>1 DEF DocumentsTypeOK
<1>7. StageInv'
  BY <1>1, <1>2, SameGiven DEF DocumentsInv, StageInv
<1>8. DraftInv'
  BY <1>2 DEF DraftInv, NoDraft
<1>9. PlanInv'
  BY <1>1, <1>2 DEF DocumentsInv, PlanInv
<1>10. WrittenInv' /\ ReplanInv'
  BY <1>1, <1>2 DEF WrittenInv, ReplanInv
<1>11. RollbackRestores'
  BY <1>1, <1>3, <1>4, <1>5 DEF RollbackRestores
<1>. QED
  BY <1>6, <1>7, <1>8, <1>9, <1>10, <1>11 DEF DocumentsInv

LEMMA DocumentsUnchanged ==
    ASSUME DocumentsInv, UNCHANGED docvars
    PROVE  DocumentsInv'
<1>1. /\ UNCHANGED given /\ manifest' = manifest /\ reply' = reply /\ Mappings' = Mappings
      /\ stage' = stage /\ tree' = tree /\ draft' = draft /\ plan' = plan
      /\ copies' = copies /\ replan' = replan /\ original' = original
  BY SameGiven DEF docvars, given
<1>2. ToPlan' = ToPlan /\ Drafted' = Drafted
  BY <1>1 DEF ToPlan, Drafted
<1>3. DocumentsTypeOK'
  BY <1>1, <1>2, SameGiven DEF DocumentsInv, DocumentsTypeOK
<1>4. StageInv'
  BY <1>1, <1>2, SameGiven DEF DocumentsInv, StageInv
<1>5. DraftInv' /\ PlanInv'
  BY <1>1, <1>2 DEF DocumentsInv, DraftInv, PlanInv
<1>6. WrittenInv' /\ ReplanInv' /\ RollbackRestores'
  BY <1>1, <1>2, SameGiven, SameNodes DEF DocumentsInv, WrittenInv, ReplanInv, RollbackRestores
<1>. QED
  BY <1>3, <1>4, <1>5, <1>6 DEF DocumentsInv

(* Whatever the files, the manifest, the allocation and the limits are,    *)
(* every state of the config commands satisfies the invariant.             *)
THEOREM DocumentsInvariant == DocumentsSpec => []DocumentsInv
<1>1. DocumentsInit => DocumentsInv
  BY DocumentsInitInv
<1>2. DocumentsInv /\ [DocumentsNext]_docvars => DocumentsInv'
  <2> SUFFICES ASSUME DocumentsInv, [DocumentsNext]_docvars PROVE DocumentsInv'
    OBVIOUS
  <2>1. CASE LoadManifest \/ ManifestUnreadable \/ CheckAllocation
             \/ FileUnreadable \/ SavePlan
    BY <2>1, GoingOnInv
  <2>2. CASE OpenFile
    BY <2>2, OpenFileInv
  <2>3. CASE EditEntry
    BY <2>3, EditEntryInv
  <2>4. CASE PlanFile
    BY <2>4, PlanFileInv
  <2>5. CASE ApplyPlan
    BY <2>5, ApplyPlanInv
  <2>6. CASE PlanAgain
    BY <2>6, PlanAgainInv
  <2>7. CASE Rollback
    BY <2>7, RollbackInv
  <2>8. CASE UNCHANGED docvars
    BY <2>8, DocumentsUnchanged
  <2>. QED
    BY <2>1, <2>2, <2>3, <2>4, <2>5, <2>6, <2>7, <2>8 DEF DocumentsNext
<1>. QED
  BY <1>1, <1>2, PTL DEF DocumentsSpec

(* Plans and files keep their types: whatever is edited, a dotenv file     *)
(* stays one, and so does a Compose or a Kubernetes file.                  *)
THEOREM DocumentsTyped == DocumentsSpec => []DocumentsTypeOK
<1>1. DocumentsInv => DocumentsTypeOK
  BY DEF DocumentsInv
<1>. QED
  BY <1>1, DocumentsInvariant, PTL

(* After apply, every place the manifest maps has the allocation's port:   *)
(* for every manifest that validation accepts and that maps no file twice  *)
(* and no place twice, and whatever the files held before, aliases and     *)
(* merge keys included, when no two mapped places are one YAML object.     *)
THEOREM PlacesDelivered == DocumentsSpec => []MappedPlacesDelivered
<1>1. ASSUME DocumentsInv
      PROVE  MappedPlacesDelivered
  <2>1. SUFFICES ASSUME stage = "applied", FilesOnce, EntriesOnce, NodesApart,
                        NEW m \in Mappings, NEW e \in Entries(m)
                 PROVE  Effective(KindOf[m.file], tree[m.file], e) = {reply.ports[e.allocation]}
    BY DEF MappedPlacesDelivered
  <2>2. Holds(KindOf[m.file], tree[m.file], e, reply.ports[e.allocation])
    BY <1>1, <2>1, AppliedHolds
  <2>3. KindOf[m.file] \in Kind
    BY <1>1, GivenTyped DEF DocumentsInv, Mappings
  <2>. QED
    BY <2>2, <2>3, HeldIsEffective
<1>. QED
  BY <1>1, DocumentsInvariant, PTL

(* Apply writes to no file that is not mapped, and in a mapped one nothing *)
(* but the objects of what the mappings mean: of a list or an entry that   *)
(* YAML shares, every place.  Aliases and merges survive, and this holds   *)
(* whatever the manifest maps how often.                                   *)
THEOREM OnlyMappedPlacesChange == DocumentsSpec => []NothingElseChanges
<1>1. ASSUME DocumentsInv
      PROVE  NothingElseChanges
  <2>1. SUFFICES ASSUME stage = "applied", NEW f \in File, tree[f] # original[f]
                 PROVE  /\ \E m \in Mappings : m.file = f
                        /\ OnlyMeantChanged(Mappings, f, Found(original[f]), tree[f])
    BY DEF NothingElseChanges
  <2>2. PICK i \in DOMAIN plan : plan[i].file = f /\ tree[f] = plan[i].content
    BY <1>1, <2>1 DEF DocumentsInv, WrittenInv
  <2> DEFINE m == manifest.config[plan[i].mapping]
  <2>3. m \in Mappings /\ m.file = f
    BY <1>1, <2>2, GivenTyped DEF DocumentsInv, DocumentsTypeOK
  <2>4. plan[i].before = original[f]
    BY <1>1, <2>1, <2>2 DEF DocumentsInv, WrittenInv
  <2>5. Progress(Mappings, reply.ports, m, plan[i].content, Len(m.entries), plan[i].before)
    BY <1>1 DEF DocumentsInv, PlanInv
  <2>. QED
    BY <2>2, <2>3, <2>4, <2>5 DEF Progress
<1>. QED
  BY <1>1, DocumentsInvariant, PTL

(* The plan after apply finds every file as it would write it, when the    *)
(* manifest maps no place twice and no two mapped places are one object.   *)
THEOREM SecondPlanIsEmpty == DocumentsSpec => []PlanIsIdempotent
<1>1. DocumentsInv => PlanIsIdempotent
  BY DEF DocumentsInv, ReplanInv, PlanIsIdempotent
<1>. QED
  BY <1>1, DocumentsInvariant, PTL

(* Rollback recognises what apply has written and leaves the files as they *)
(* were, created files removed, when no file is mapped twice and no two    *)
(* copies share a name.                                                    *)
THEOREM FilesTakenBack == DocumentsSpec => []RollbackRestores
<1>1. DocumentsInv => RollbackRestores
  BY DEF DocumentsInv
<1>. QED
  BY <1>1, DocumentsInvariant, PTL

=============================================================================
