---------------------- MODULE LocalReservationsProofs ----------------------
(***************************************************************************)
(* For any number of processes, ports and projects: the reservation file   *)
(* implements ReservationRegistry, no reservation is lost, and on a        *)
(* machine that has its identity no port is reserved twice.                *)
(***************************************************************************)
EXTENDS LocalReservations, TLAPS

Locked == {"load", "save"}

(* A process that is past get_host_id has a host id, unless its command    *)
(* needs none; a command other than release --id has a project.            *)
WorkOK(s) ==
    /\ s.pc \in {"check", "discover", "wait", "load", "save"} =>
          s.host # NoHost \/ (s.phase = "cmd" /\ s.op.kind = "release_id")
    /\ s.pc # "idle" => s.op.kind = "release_id" \/ s.op.project \in Project

Working == \A p \in Proc : WorkOK(proc[p])

LockHolder == \A p \in Proc : lock = p <=> proc[p].pc \in Locked

IdsUsed ==
    /\ \A r \in file : r.id <= lastId
    /\ \A p \in Proc : proc[p].pc = "save" =>
          \A r \in proc[p].out : r.id <= lastId

(* What the lock's holder is about to save is one operation away from the  *)
(* file as it is, and drops only what its command names.                   *)
SaveIsAStep ==
    \A p \in Proc : proc[p].pc = "save" => Registry!Step(file, proc[p].out)

SaveKeeps ==
    \A p \in Proc : proc[p].pc = "save" =>
        \A r \in file : Kept(r, proc[p].out) \/ Names(p, r)

IInv == TypeOK /\ Working /\ LockHolder /\ IdsUsed /\ SaveIsAStep /\ SaveKeeps

-----------------------------------------------------------------------------
(* The records a process's state is built from have their types.           *)
LEMMA IdleType == Idle \in ProcState /\ WorkOK(Idle) /\ Idle.pc = "idle"
  BY DEF Idle, NoOp, NoSight, ProcState, Command, WorkOK

(* RunCommand and Finish leave a process outside the lock, in good order.  *)
LEMMA RunCommandType ==
    ASSUME NEW s \in ProcState, WorkOK(s), s.pc # "idle"
    PROVE  RunCommand(s) \in ProcState /\ WorkOK(RunCommand(s))
           /\ RunCommand(s).pc \notin Locked
  <1> DEFINE k == IF s.op.kind = "release_id" THEN "wait" ELSE "ident"
             t == [Idle EXCEPT !.pc = k, !.phase = "cmd", !.op = s.op]
  <1>1. s.op \in Command
    BY DEF ProcState
  <1>2. t \in ProcState /\ t.pc = k /\ t.op = s.op /\ t.phase = "cmd"
    BY <1>1, IdleType DEF ProcState
  <1>3. RunCommand(s) = t
    BY DEF RunCommand
  <1> HIDE DEF t
  <1> QED
    BY <1>2, <1>3 DEF WorkOK, Locked

LEMMA FinishType ==
    ASSUME NEW s \in ProcState, WorkOK(s), s.pc # "idle", NEW d
    PROVE  Finish(s, d) \in ProcState /\ WorkOK(Finish(s, d))
           /\ Finish(s, d).pc \notin Locked
  <1> DEFINE op1 == [s.op EXCEPT !.todo = @ \ d]
             t == [Idle EXCEPT !.pc = "ident", !.phase = "cmd", !.op = op1]
  <1>1. CASE Finish(s, d) = RunCommand(s)
    BY <1>1, RunCommandType
  <1>2. CASE Finish(s, d) = Idle
    BY <1>2, IdleType DEF Locked
  <1>3. CASE Finish(s, d) = t /\ s.op.kind = "reserve"
    <2>1. op1 \in Command /\ op1.kind = s.op.kind /\ op1.project = s.op.project
      BY DEF ProcState, Command
    <2>4. s.op.project \in Project
      BY <1>3 DEF WorkOK
    <2> HIDE DEF op1
    <2>5. t \in ProcState /\ t.pc = "ident" /\ t.op = op1
      BY <2>1, IdleType DEF ProcState
    <2> HIDE DEF t
    <2>6. WorkOK(t)
      BY <2>1, <2>4, <2>5 DEF WorkOK
    <2> QED
      BY <1>3, <2>5, <2>6 DEF Locked
  <1> QED
    BY <1>1, <1>2, <1>3 DEF Finish

(* WithHost leads to a step outside the lock, with a host id.              *)
LEMMA WithHostType ==
    ASSUME NEW s \in ProcState, WorkOK(s), s.pc # "idle",
           NEW h \in HostId \cup {Legacy}
    PROVE  WithHost(s, h) \in ProcState /\ WorkOK(WithHost(s, h))
           /\ WithHost(s, h).pc \notin Locked
  <1>1. h # NoHost
    BY HostAssumption
  <1> QED
    BY <1>1 DEF WithHost, ProcState, WorkOK, Locked

-----------------------------------------------------------------------------
(* A step of one process that ends outside the lock and leaves the file    *)
(* alone keeps the invariant.                                              *)
LEMMA Outside ==
    ASSUME IInv, NEW p \in Proc, NEW s \in ProcState, WorkOK(s), s.pc \notin Locked,
           proc' = [proc EXCEPT ![p] = s],
           lock' = IF lock = p THEN NoProc ELSE lock,
           file' = file, lastId' = lastId,
           identity' \in HostId \cup {NoHost}, listener' = listener
    PROVE  IInv'
  <1> USE DEF IInv, TypeOK
  <1>1. /\ \A q \in Proc : q # p => proc'[q] = proc[q]
        /\ proc'[p] = s
        /\ proc' \in [Proc -> ProcState]
    OBVIOUS
  <1>2. TypeOK'
    BY <1>1
  <1>3. Working'
    BY <1>1 DEF Working
  <1>4. LockHolder'
    BY <1>1, ProcAssumption DEF LockHolder, Locked
  <1>5. s.pc # "save"
    BY DEF Locked
  <1>6. IdsUsed'
    BY <1>1, <1>5 DEF IdsUsed
  <1>7. SaveIsAStep'
    <2> SUFFICES ASSUME NEW q \in Proc, proc'[q].pc = "save"
                 PROVE  Registry!Step(file, proc[q].out) /\ proc'[q] = proc[q]
      BY DEF SaveIsAStep, Registry!Step, Registry!Granted, Registry!Dropped,
             Registry!Rehosted, Registry!Moved, Registry!MoveTo, Registry!Claim
    <2> QED
      BY <1>1, <1>5 DEF SaveIsAStep
  <1>8. SaveKeeps'
    BY <1>1, <1>5 DEF SaveKeeps, Kept, Names
  <1> QED
    BY <1>2, <1>3, <1>4, <1>6, <1>7, <1>8

(* A process that holds the lock settles on what to save.                  *)
LEMMA Decided ==
    ASSUME IInv, NEW p \in Proc, proc[p].pc = "load",
           NEW rows \in SUBSET Row, NEW d \in SUBSET Port,
           WillSave(p, rows, d), UNCHANGED <<identity, file, listener>>,
           lastId' \in Nat, lastId <= lastId', \A r \in rows : r.id <= lastId',
           Registry!Step(file, rows), \A r \in file : Kept(r, rows) \/ Names(p, r)
    PROVE  IInv'
  <1> USE DEF IInv, TypeOK
  <1> DEFINE t == [proc[p] EXCEPT !.pc = "save", !.out = rows, !.done = d]
  <1>0. t \in ProcState /\ t.pc = "save" /\ t.out = rows /\ t.op = proc[p].op
        /\ t.phase = proc[p].phase /\ t.host = proc[p].host
    BY DEF ProcState
  <1> HIDE DEF t
  <1>1. proc' = [proc EXCEPT ![p] = t] /\ lock' = lock
    BY DEF WillSave, t
  <1>2. /\ \A q \in Proc : q # p => proc'[q] = proc[q]
        /\ proc'[p] = t
        /\ proc' \in [Proc -> ProcState]
    BY <1>0, <1>1
  <1>3. TypeOK'
    BY <1>1, <1>2
  <1>4. Working'
    BY <1>0, <1>2 DEF Working, WorkOK
  <1>5. LockHolder'
    BY <1>0, <1>1, <1>2 DEF LockHolder, Locked
  <1>6. \A q \in Proc : proc'[q].pc = "save" => q = p
    BY <1>1, <1>2, <1>5 DEF LockHolder, Locked
  <1>7. IdsUsed'
    <2>1. \A r \in file : r \in Row /\ r.id \in Nat
      BY DEF Row, Registry!Claim
    <2> QED
      BY <1>0, <1>2, <1>6, <2>1 DEF IdsUsed
  <1>8. SaveIsAStep'
    BY <1>0, <1>2, <1>6
       DEF SaveIsAStep, Registry!Step, Registry!Granted, Registry!Dropped,
           Registry!Rehosted, Registry!Moved, Registry!MoveTo, Registry!Claim
  <1>9. SaveKeeps'
    BY <1>0, <1>2, <1>6 DEF SaveKeeps, Kept, Names
  <1> QED
    BY <1>3, <1>4, <1>5, <1>7, <1>8, <1>9

(* Leaving the with block without a save.                                  *)
LEMMA Left ==
    ASSUME IInv, NEW p \in Proc, proc[p].pc = "load", NEW d,
           LeaveLock(p, d), UNCHANGED <<identity, file, listener>>
    PROVE  IInv'
  <1>1. lock = p
    BY DEF IInv, LockHolder, Locked
  <1>2. proc[p] \in ProcState /\ WorkOK(proc[p]) /\ proc[p].pc # "idle"
    BY DEF IInv, TypeOK, Working
  <1>3. Finish(proc[p], d) \in ProcState /\ WorkOK(Finish(proc[p], d))
        /\ Finish(proc[p], d).pc \notin Locked
    BY <1>2, FinishType
  <1>4. /\ proc' = [proc EXCEPT ![p] = Finish(proc[p], d)]
        /\ lock' = IF lock = p THEN NoProc ELSE lock
        /\ lastId' = lastId
    BY <1>1 DEF LeaveLock, IInv, TypeOK
  <1>5. identity' \in HostId \cup {NoHost}
    BY DEF IInv, TypeOK
  <1> QED
    BY <1>3, <1>4, <1>5, Outside

(* A new row takes an id no row has, for a port its host has not reserved. *)
LEMMA Created ==
    ASSUME IInv, NEW p \in Proc, proc[p].pc = "load", proc[p].phase = "cmd",
           proc[p].op.kind # "release_id", NEW x \in Port,
           Matching(proc[p].host, x) = {},
           Create(p, x), UNCHANGED <<identity, file, listener>>
    PROVE  IInv'
  <1> DEFINE n == NewRow(p, x)
  <1>1. proc[p] \in ProcState /\ proc[p].op.project \in Project
        /\ proc[p].host \in HostId \cup {Legacy} /\ lastId \in Nat
    BY DEF IInv, TypeOK, Working, WorkOK, ProcState
  <1>2. n \in Row /\ n.id = lastId + 1 /\ n.host = proc[p].host /\ n.port = x
    BY <1>1 DEF NewRow, Row, Registry!Claim
  <1>3. \A r \in file : r \in Row /\ r.id \in Nat /\ r.id <= lastId
    BY DEF IInv, TypeOK, IdsUsed, Row, Registry!Claim
  <1>4. \A r \in file : r.host # n.host \/ r.port # n.port
    BY <1>2 DEF Matching
  <1>5. WillSave(p, file \cup {n}, {x}) /\ lastId' = lastId + 1
    BY DEF Create
  <1> HIDE DEF n
  <1>6. Registry!Granted(file, file \cup {n})
    <2>1. \A s \in file : s.id # n.id /\ <<s.host, s.port>> # <<n.host, n.port>>
      BY <1>1, <1>2, <1>3, <1>4
    <2> QED
      BY <1>2, <2>1 DEF Registry!Granted, Row
  <1>7. Registry!Step(file, file \cup {n})
    BY <1>6 DEF Registry!Step
  <1>8. \A r \in file : Kept(r, file \cup {n})
    BY DEF Kept
  <1>9. file \cup {n} \in SUBSET Row /\ {x} \in SUBSET Port
        /\ lastId' \in Nat /\ lastId <= lastId'
        /\ \A r \in file \cup {n} : r.id <= lastId'
    BY <1>1, <1>2, <1>3, <1>5
  <1> QED
    BY <1>5, <1>7, <1>8, <1>9, Decided

(* A release removes one row, which it names.                              *)
LEMMA Removed ==
    ASSUME IInv, NEW p \in Proc, proc[p].pc = "load", NEW r \in file,
           Names(p, r), WillSave(p, file \ {r}, {}), lastId' = lastId,
           UNCHANGED <<identity, file, listener>>
    PROVE  IInv'
  <1> DEFINE rows == file \ {r}
  <1>1. Registry!Step(file, rows)
    BY DEF Registry!Step, Registry!Dropped
  <1>2. \A s \in file : Kept(s, rows) \/ Names(p, s)
    BY DEF Kept
  <1>3. /\ rows \in SUBSET Row /\ lastId' \in Nat /\ lastId <= lastId'
        /\ \A s \in rows : s.id <= lastId'
    BY DEF IInv, TypeOK, IdsUsed
  <1>4. WillSave(p, rows, {}) /\ {} \in SUBSET Port
    OBVIOUS
  <1> HIDE DEF rows
  <1> QED
    BY <1>1, <1>2, <1>3, <1>4, Decided

(* Refreshing writes the file back as it was.                              *)
LEMMA Refreshed ==
    ASSUME IInv, NEW p \in Proc, proc[p].pc = "load", NEW d \in SUBSET Port,
           WillSave(p, file, d), lastId' = lastId,
           UNCHANGED <<identity, file, listener>>
    PROVE  IInv'
  <1>1. Registry!Step(file, file)
    BY DEF Registry!Step
  <1>2. \A s \in file : Kept(s, file)
    BY DEF Kept
  <1>3. /\ file \in SUBSET Row /\ lastId' \in Nat /\ lastId <= lastId'
        /\ \A s \in file : s.id <= lastId'
    BY DEF IInv, TypeOK, IdsUsed
  <1> QED
    BY <1>1, <1>2, <1>3, Decided

(* The migration only changes host ids.                                    *)
LEMMA Migrated ==
    ASSUME IInv, NEW p \in Proc, proc[p].pc = "load", proc[p].phase = "main",
           WillSave(p, Registry!Moved(proc[p].host, file), {}), lastId' = lastId,
           UNCHANGED <<identity, file, listener>>
    PROVE  IInv'
  <1> DEFINE h == proc[p].host
             rows == Registry!Moved(h, file)
  <1>1. h \in HostId \cup {Legacy}
    BY DEF IInv, TypeOK, Working, WorkOK, ProcState
  <1>2. \A r \in Row : /\ Registry!MoveTo(h, r) \in Row
                       /\ Registry!MoveTo(h, r).id = r.id
                       /\ Registry!MoveTo(h, r).port = r.port
                       /\ Registry!MoveTo(h, r).project = r.project
    BY <1>1 DEF Registry!MoveTo, Row, Registry!Claim
  <1>3. file \in SUBSET Row /\ lastId \in Nat /\ \A r \in file : r.id <= lastId
    BY DEF IInv, TypeOK, IdsUsed
  <1>4. rows \in SUBSET Row
    BY <1>2, <1>3 DEF Registry!Moved
  <1>5. \A r \in rows : r.id <= lastId
    BY <1>2, <1>3 DEF Registry!Moved
  <1>6. \A r \in file : Kept(r, rows)
    BY <1>2, <1>3 DEF Kept, Registry!Moved
  <1>7. Registry!Step(file, rows)
    BY <1>1 DEF Registry!Step, Registry!Rehosted
  <1>8. lastId' \in Nat /\ lastId <= lastId' /\ \A r \in rows : r.id <= lastId'
    BY <1>3, <1>5
  <1> HIDE DEF rows
  <1>9. WillSave(p, rows, {})
    BY DEF rows
  <1> QED
    BY <1>4, <1>6, <1>7, <1>8, <1>9, Decided

-----------------------------------------------------------------------------
(* Under the lock every command decides on a step of the registry.         *)
LEMMA LoadKeeps ==
    ASSUME IInv, NEW p \in Proc, LoadAndDecide(p)
    PROVE  IInv'
  <1> USE DEF LoadAndDecide
  <1>0. proc[p].pc = "load" /\ UNCHANGED <<identity, file, listener>>
    OBVIOUS
  <1>t. proc[p] \in ProcState /\ proc[p].op.todo \in SUBSET Port
    BY DEF IInv, TypeOK, ProcState, Command
  <1>1. CASE Migrate(p)
    <2>1. CASE LeaveLock(p, {})
      BY <1>0, <2>1, Left
    <2>2. CASE WillSave(p, Registry!Moved(proc[p].host, file), {}) /\ UNCHANGED lastId
      BY <1>0, <1>1, <2>2, Migrated DEF Migrate
    <2> QED
      BY <1>1, <2>1, <2>2 DEF Migrate
  <1>2. CASE Reserve(p)
    <2>1. PICK x \in proc[p].op.todo :
              \/ WillSave(p, file, {x}) /\ UNCHANGED lastId
              \/ LeaveLock(p, {x})
              \/ Matching(proc[p].host, x) = {} /\ Create(p, x)
      BY <1>2 DEF Reserve
    <2>2. x \in Port /\ {x} \in SUBSET Port
      BY <1>t
    <2>3. CASE WillSave(p, file, {x}) /\ UNCHANGED lastId
      BY <1>0, <2>2, <2>3, Refreshed
    <2>4. CASE LeaveLock(p, {x})
      BY <1>0, <2>4, Left
    <2>5. CASE Matching(proc[p].host, x) = {} /\ Create(p, x)
      BY <1>0, <1>2, <2>2, <2>5, Created DEF Reserve
    <2> QED
      BY <2>1, <2>3, <2>4, <2>5
  <1>3. CASE RecommendAndReserve(p)
    <2>1. CASE LeaveLock(p, Port)
      BY <1>0, <2>1, Left
    <2>2. CASE \E x \in Port : Matching(proc[p].host, x) = {} /\ Create(p, x)
      BY <1>0, <1>3, <2>2, Created DEF RecommendAndReserve
    <2> QED
      BY <1>3, <2>1, <2>2 DEF RecommendAndReserve
  <1>4. CASE Release(p)
    <2>1. PICK x \in proc[p].op.todo :
              \/ \E r \in FindExact(proc[p].host, x) :
                    /\ r.project = proc[p].op.project
                    /\ WillSave(p, file \ {r}, {}) /\ UNCHANGED lastId
              \/ LeaveLock(p, {x})
      BY <1>4 DEF Release
    <2>2. CASE LeaveLock(p, {x})
      BY <1>0, <2>2, Left
    <2>3. ASSUME NEW r \in FindExact(proc[p].host, x),
                 r.project = proc[p].op.project,
                 WillSave(p, file \ {r}, {}), UNCHANGED lastId
          PROVE  IInv'
      <3>1. r \in file /\ Names(p, r)
        BY <1>4, <2>1, <2>3 DEF FindExact, Matching, Names, Release
      <3> QED
        BY <1>0, <2>3, <3>1, Removed
    <2> QED
      BY <2>1, <2>2, <2>3
  <1>5. CASE ReleaseById(p)
    <2>1. CASE LeaveLock(p, {})
      BY <1>0, <2>1, Left
    <2>2. ASSUME NEW r \in file, r.id = proc[p].op.id,
                 proc[p].op.project \in {NoProject, r.project},
                 WillSave(p, file \ {r}, {}), UNCHANGED lastId
          PROVE  IInv'
      <3>1. Names(p, r)
        BY <1>5, <2>2 DEF Names, ReleaseById
      <3> QED
        BY <1>0, <2>2, <3>1, Removed
    <2> QED
      BY <1>5, <2>1, <2>2 DEF ReleaseById
  <1> QED
    BY <1>1, <1>2, <1>3, <1>4, <1>5

(* The saved list becomes the file.                                        *)
LEMMA SaveKeepsInv ==
    ASSUME IInv, NEW p \in Proc, Save(p)
    PROVE  IInv'
  <1> DEFINE s == Finish(proc[p], proc[p].done)
  <1>1. proc[p] \in ProcState /\ WorkOK(proc[p]) /\ proc[p].pc = "save"
        /\ proc[p].out \in SUBSET Row
    BY DEF IInv, TypeOK, Working, Save, ProcState
  <1>2. s \in ProcState /\ WorkOK(s) /\ s.pc \notin Locked
    BY <1>1, FinishType
  <1>3. lock = p /\ \A q \in Proc : proc[q].pc = "save" => q = p
    BY <1>1 DEF IInv, LockHolder, Locked
  <1>4. /\ proc' = [proc EXCEPT ![p] = s] /\ lock' = NoProc
        /\ file' = proc[p].out /\ UNCHANGED <<identity, lastId, listener>>
    BY DEF Save, IInv, TypeOK
  <1> HIDE DEF s
  <1>5. /\ \A q \in Proc : q # p => proc'[q] = proc[q]
        /\ proc'[p] = s
        /\ proc' \in [Proc -> ProcState]
    BY <1>2, <1>4 DEF IInv, TypeOK
  <1>6. \A q \in Proc : proc'[q].pc # "save"
    BY <1>2, <1>3, <1>5 DEF Locked
  <1>7. TypeOK'
    BY <1>1, <1>4, <1>5 DEF IInv, TypeOK
  <1>8. Working'
    BY <1>2, <1>5 DEF IInv, Working
  <1>9. LockHolder'
    BY <1>2, <1>3, <1>4, <1>5, ProcAssumption DEF IInv, LockHolder, Locked
  <1>10. IdsUsed'
    BY <1>1, <1>4, <1>6 DEF IInv, IdsUsed
  <1>11. SaveIsAStep' /\ SaveKeeps'
    BY <1>6 DEF SaveIsAStep, SaveKeeps
  <1> QED
    BY <1>7, <1>8, <1>9, <1>10, <1>11 DEF IInv

LEMMA AcquireKeeps ==
    ASSUME IInv, NEW p \in Proc, AcquireLock(p)
    PROVE  IInv'
  <1> DEFINE s == [proc[p] EXCEPT !.pc = "load"]
  <1>1. proc[p] \in ProcState /\ WorkOK(proc[p]) /\ proc[p].pc = "wait"
    BY DEF IInv, TypeOK, Working, AcquireLock
  <1>2. s \in ProcState /\ WorkOK(s) /\ s.pc = "load"
    BY <1>1 DEF ProcState, WorkOK
  <1>3. /\ proc' = [proc EXCEPT ![p] = s] /\ lock = NoProc /\ lock' = p
        /\ UNCHANGED <<identity, file, lastId, listener>>
    BY DEF AcquireLock, IInv, TypeOK
  <1> HIDE DEF s
  <1>4. /\ \A q \in Proc : q # p => proc'[q] = proc[q]
        /\ proc'[p] = s
        /\ proc' \in [Proc -> ProcState]
    BY <1>2, <1>3 DEF IInv, TypeOK
  <1>5. \A q \in Proc : proc'[q].pc # "save"
    BY <1>2, <1>3, <1>4, ProcAssumption DEF IInv, LockHolder, Locked
  <1>6. TypeOK'
    BY <1>3, <1>4 DEF IInv, TypeOK
  <1>7. Working'
    BY <1>2, <1>4 DEF IInv, Working
  <1>8. LockHolder'
    BY <1>2, <1>3, <1>4, ProcAssumption DEF IInv, LockHolder, Locked
  <1>9. IdsUsed'
    BY <1>3, <1>5 DEF IInv, IdsUsed
  <1>10. SaveIsAStep' /\ SaveKeeps'
    BY <1>5 DEF SaveIsAStep, SaveKeeps
  <1> QED
    BY <1>6, <1>7, <1>8, <1>9, <1>10 DEF IInv

-----------------------------------------------------------------------------
LEMMA InitHolds == Init => IInv
  <1> SUFFICES ASSUME Init PROVE IInv
    OBVIOUS
  <1> USE DEF Init
  <1>1. \A p \in Proc : proc[p] = Idle
    OBVIOUS
  <1>2. proc \in [Proc -> ProcState]
    BY IdleType
  <1>3. lastId \in Nat /\ \A r \in file : r.id <= lastId
    BY MaxIdAssumption
  <1>4. TypeOK
    BY <1>2, <1>3, InitialAssumption DEF TypeOK, NoSight
  <1>5. Working
    BY <1>1, IdleType DEF Working
  <1>6. LockHolder
    BY <1>1, IdleType, ProcAssumption DEF LockHolder, Locked
  <1>7. IdsUsed /\ SaveIsAStep /\ SaveKeeps
    BY <1>1, <1>3, IdleType DEF IdsUsed, SaveIsAStep, SaveKeeps
  <1> QED
    BY <1>4, <1>5, <1>6, <1>7 DEF IInv

(* Listeners have no part in the invariant beyond their type.              *)
LEMMA ListenerKeeps ==
    ASSUME IInv, listener' \in [Port -> Owner \cup {Nobody}],
           UNCHANGED <<identity, file, lock, lastId, proc>>
    PROVE  IInv'
  <1>1. TypeOK' /\ Working' /\ LockHolder' /\ IdsUsed'
    BY DEF IInv, TypeOK, Working, LockHolder, IdsUsed
  <1>2. SaveIsAStep'
    BY DEF IInv, SaveIsAStep, Registry!Step, Registry!Granted, Registry!Dropped,
           Registry!Rehosted, Registry!Moved, Registry!MoveTo, Registry!Claim
  <1>3. SaveKeeps'
    BY DEF IInv, SaveKeeps, Kept, Names
  <1> QED
    BY <1>1, <1>2, <1>3 DEF IInv

(* Steps of one process outside the lock.                                  *)
LEMMA OutsideSteps ==
    ASSUME IInv, NEW p \in Proc,
           \/ \E op \in Commands : Start(p, op)
           \/ GetHostId(p) \/ CreateIdentity(p) \/ MigrateCheck(p)
           \/ Discover(p) \/ LockTimeout(p) \/ Crash(p)
    PROVE  IInv'
  <1>0. /\ proc[p] \in ProcState /\ WorkOK(proc[p])
        /\ identity \in HostId \cup {NoHost}
        /\ proc \in [Proc -> ProcState]
        /\ lock = p <=> proc[p].pc \in Locked
        /\ listener \in [Port -> Owner \cup {Nobody}]
    BY DEF IInv, TypeOK, Working, LockHolder
  <1>1. ASSUME NEW op \in Commands, Start(p, op)
        PROVE  IInv'
    <2> DEFINE s == [Idle EXCEPT !.pc = "ident", !.op = op]
    <2>1. op \in Command /\ (op.kind = "release_id" \/ op.project \in Project)
      <3>1. lastId \in Nat
        BY DEF IInv, TypeOK
      <3> QED
        BY <1>1, <3>1 DEF Commands, Command
    <2>2. s \in ProcState /\ s.pc = "ident" /\ s.op = op
      BY <2>1, IdleType DEF ProcState
    <2>3. WorkOK(s) /\ s.pc \notin Locked
      <3> HIDE DEF s
      <3> QED BY <2>1, <2>2 DEF WorkOK, Locked
    <2>4. proc' = [proc EXCEPT ![p] = s] /\ lock # p
          /\ UNCHANGED <<identity, file, lock, lastId, listener>>
      BY <1>0, <1>1 DEF Start, Locked
    <2> HIDE DEF s
    <2> QED
      BY <1>0, <2>2, <2>3, <2>4, Outside
  <1>2. CASE GetHostId(p)
    <2>1. proc[p].pc = "ident" /\ lock # p
          /\ UNCHANGED <<identity, file, lock, lastId, listener>>
      BY <1>0, <1>2 DEF GetHostId, Locked
    <2>2. CASE identity = NoHost
      <3> DEFINE s == [proc[p] EXCEPT !.pc = "create"]
      <3>1. s \in ProcState /\ WorkOK(s) /\ s.pc \notin Locked
        BY <1>0, <2>1 DEF ProcState, WorkOK, Locked
      <3>2. proc' = [proc EXCEPT ![p] = s]
        BY <1>0, <1>2, <2>2 DEF GetHostId
      <3> HIDE DEF s
      <3> QED
        BY <1>0, <2>1, <3>1, <3>2, Outside
    <2>3. CASE identity # NoHost
      <3>1. proc' = [proc EXCEPT ![p] = WithHost(proc[p], identity)]
        BY <1>0, <1>2, <2>3 DEF GetHostId
      <3>2. WithHost(proc[p], identity) \in ProcState
            /\ WorkOK(WithHost(proc[p], identity))
            /\ WithHost(proc[p], identity).pc \notin Locked
        BY <1>0, <2>1, <2>3, WithHostType
      <3> QED
        BY <1>0, <2>1, <3>1, <3>2, Outside
    <2> QED
      BY <2>2, <2>3
  <1>3. CASE CreateIdentity(p)
    <2>1. proc[p].pc = "create" /\ lock # p
          /\ UNCHANGED <<file, lock, lastId, listener>>
      BY <1>0, <1>3 DEF CreateIdentity, Locked
    <2>2. PICK h \in HostId \cup {Legacy} :
              proc' = [proc EXCEPT ![p] = WithHost(proc[p], h)]
      BY <1>0, <1>3, UuidAssumption DEF CreateIdentity
    <2>3. identity' \in HostId \cup {NoHost}
      BY <1>0, <1>3, UuidAssumption DEF CreateIdentity
    <2>4. WithHost(proc[p], h) \in ProcState /\ WorkOK(WithHost(proc[p], h))
          /\ WithHost(proc[p], h).pc \notin Locked
      BY <1>0, <2>1, WithHostType
    <2> QED
      BY <2>1, <2>2, <2>3, <2>4, Outside
  <1>4. CASE MigrateCheck(p)
    <2>1. proc[p].pc = "check" /\ lock # p
          /\ UNCHANGED <<identity, file, lock, lastId, listener>>
      BY <1>0, <1>4 DEF MigrateCheck, Locked
    <2> DEFINE s == [proc[p] EXCEPT !.pc = "wait"]
    <2>2. s \in ProcState /\ WorkOK(s) /\ s.pc \notin Locked
      BY <1>0, <2>1 DEF ProcState, WorkOK, Locked
    <2>3. RunCommand(proc[p]) \in ProcState /\ WorkOK(RunCommand(proc[p]))
          /\ RunCommand(proc[p]).pc \notin Locked
      BY <1>0, <2>1, RunCommandType
    <2>4. \/ proc' = [proc EXCEPT ![p] = s]
          \/ proc' = [proc EXCEPT ![p] = RunCommand(proc[p])]
      BY <1>0, <1>4 DEF MigrateCheck
    <2> HIDE DEF s
    <2> QED
      BY <1>0, <2>1, <2>2, <2>3, <2>4, Outside
  <1>5. CASE Discover(p)
    <2> DEFINE s == [proc[p] EXCEPT !.pc = "wait", !.seen = listener]
    <2>1. proc[p].pc = "discover" /\ lock # p
          /\ UNCHANGED <<identity, file, lock, lastId, listener>>
      BY <1>0, <1>5 DEF Discover, Locked
    <2>2. s \in ProcState /\ WorkOK(s) /\ s.pc \notin Locked
      BY <1>0, <2>1 DEF ProcState, WorkOK, Locked
    <2>3. proc' = [proc EXCEPT ![p] = s]
      BY <1>0, <1>5 DEF Discover
    <2> HIDE DEF s
    <2> QED
      BY <1>0, <2>1, <2>2, <2>3, Outside
  <1>6. CASE LockTimeout(p)
    <2>1. proc[p].pc = "wait" /\ lock # p
          /\ UNCHANGED <<identity, file, lock, lastId, listener>>
      BY <1>0, <1>6 DEF LockTimeout, Locked
    <2>2. RunCommand(proc[p]) \in ProcState /\ WorkOK(RunCommand(proc[p]))
          /\ RunCommand(proc[p]).pc \notin Locked
      BY <1>0, <2>1, RunCommandType
    <2>3. \/ proc' = [proc EXCEPT ![p] = Idle]
          \/ proc' = [proc EXCEPT ![p] = RunCommand(proc[p])]
      BY <1>0, <1>6 DEF LockTimeout
    <2>4. Idle.pc \notin Locked
      BY IdleType DEF Locked
    <2> QED
      BY <1>0, <2>1, <2>2, <2>3, <2>4, IdleType, Outside
  <1>7. CASE Crash(p)
    <2>1. /\ proc' = [proc EXCEPT ![p] = Idle]
          /\ lock' = IF lock = p THEN NoProc ELSE lock
          /\ UNCHANGED <<identity, file, lastId, listener>>
      BY <1>7 DEF Crash
    <2>2. Idle.pc \notin Locked
      BY IdleType DEF Locked
    <2> QED
      BY <1>0, <2>1, <2>2, IdleType, Outside
  <1> QED
    BY <1>1, <1>2, <1>3, <1>4, <1>5, <1>6, <1>7

LEMMA StepKeeps == IInv /\ [Next]_vars => IInv'
  <1> SUFFICES ASSUME IInv, [Next]_vars PROVE IInv'
    OBVIOUS
  <1>1. CASE UNCHANGED vars
    <2>1. listener' \in [Port -> Owner \cup {Nobody}]
      BY <1>1 DEF vars, IInv, TypeOK
    <2> QED
      BY <1>1, <2>1, ListenerKeeps DEF vars
  <1>2. ASSUME NEW p \in Proc, LoadAndDecide(p) PROVE IInv'
    BY <1>2, LoadKeeps
  <1>3. ASSUME NEW p \in Proc, Save(p) PROVE IInv'
    BY <1>3, SaveKeepsInv
  <1>4. ASSUME NEW p \in Proc, AcquireLock(p) PROVE IInv'
    BY <1>4, AcquireKeeps
  <1>5. ASSUME NEW x \in Port, Close(x) \/ \E o \in Owner : Listen(x, o)
        PROVE  IInv'
    <2>1. listener' \in [Port -> Owner \cup {Nobody}]
          /\ UNCHANGED <<identity, file, lock, lastId, proc>>
      BY <1>5 DEF Close, Listen, IInv, TypeOK
    <2> QED
      BY <2>1, ListenerKeeps
  <1> QED
    BY <1>1, <1>2, <1>3, <1>4, <1>5, OutsideSteps DEF Next, ProcStep

(* Every reachable state satisfies the inductive invariant.                *)
THEOREM Invariance == Spec => []IInv
  BY InitHolds, StepKeeps, PTL DEF Spec

(* Processes, rows and the lock keep their types, for any constants.       *)
THEOREM TypeCorrect == Spec => []TypeOK
  <1>1. IInv => TypeOK
    BY DEF IInv
  <1> QED
    BY Invariance, <1>1, PTL

(* Only a save changes the file, and it does what was decided under the    *)
(* lock it still holds.                                                    *)
LEMMA FileSteps ==
    ASSUME IInv, [Next]_vars
    PROVE  \/ file' = file
           \/ \E p \in Proc : /\ proc[p].pc = "save" /\ lock = p
                              /\ file' = proc[p].out
  <1>1. CASE UNCHANGED vars
    BY <1>1 DEF vars
  <1>2. ASSUME NEW p \in Proc, Save(p)
        PROVE  proc[p].pc = "save" /\ lock = p /\ file' = proc[p].out
    BY <1>2 DEF Save, IInv, LockHolder, Locked
  <1>3. ASSUME NEW p \in Proc,
               \/ \E op \in Commands : Start(p, op)
               \/ GetHostId(p) \/ CreateIdentity(p) \/ MigrateCheck(p) \/ Discover(p)
               \/ AcquireLock(p) \/ LockTimeout(p) \/ LoadAndDecide(p) \/ Crash(p)
        PROVE  file' = file
    BY <1>3 DEF Start, GetHostId, CreateIdentity, MigrateCheck, Discover,
                AcquireLock, LockTimeout, LoadAndDecide, Crash
  <1>4. ASSUME NEW x \in Port, Close(x) \/ \E o \in Owner : Listen(x, o)
        PROVE  file' = file
    BY <1>4 DEF Close, Listen
  <1> QED
    BY <1>1, <1>2, <1>3, <1>4 DEF Next, ProcStep

(* The reservation file implements the registry: for any number of         *)
(* commands, crashes and lock timeouts, each change of reservations.json   *)
(* is one whole operation on its current content.                          *)
THEOREM FileImplementsRegistry == Spec => FileIsRegistry
  <1>1. Init => Registry!RInit
    BY InitialAssumption DEF Init, Registry!RInit, Row
  <1>2. IInv /\ [Next]_vars => [Registry!RNext]_file
    <2> SUFFICES ASSUME IInv, [Next]_vars PROVE [Registry!RNext]_file
      OBVIOUS
    <2>1. CASE file' = file
      BY <2>1
    <2>2. CASE \E p \in Proc : proc[p].pc = "save" /\ file' = proc[p].out
      BY <2>2 DEF IInv, SaveIsAStep, Registry!RNext
    <2> QED
      BY <2>1, <2>2, FileSteps
  <1> QED
    BY <1>1, <1>2, Invariance, PTL DEF Spec, FileIsRegistry, Registry!RSpec

(* A reservation disappears or changes hands only through a release that   *)
(* names it, whatever runs concurrently and wherever commands die.         *)
THEOREM NoReservationIsLost == Spec => ReservationsSurvive
  <1>1. IInv /\ [Next]_vars =>
          [\A r \in file : Kept(r, file') \/ \E p \in Proc : lock = p /\ Names(p, r)]_vars
    <2> SUFFICES ASSUME IInv, [Next]_vars, NEW r \in file
                 PROVE  Kept(r, file') \/ \E p \in Proc : lock = p /\ Names(p, r)
      OBVIOUS
    <2>1. CASE file' = file
      BY <2>1 DEF Kept
    <2>2. CASE \E p \in Proc : proc[p].pc = "save" /\ lock = p /\ file' = proc[p].out
      BY <2>2 DEF IInv, SaveKeeps
    <2> QED
      BY <2>1, <2>2, FileSteps
  <1> QED
    BY <1>1, Invariance, PTL DEF Spec, ReservationsSurvive

-----------------------------------------------------------------------------
(* One machine, one identity.                                              *)

(* The machine has its identity file, every reservation is under it and    *)
(* no port is reserved twice: what main() establishes once its migration   *)
(* got the lock.                                                           *)
Settled ==
    /\ InitialIdentity # NoHost
    /\ \A r \in InitialFile : r.host = InitialIdentity
    /\ \A r, s \in InitialFile : r.port = s.port => r = s

HereOnly(s) ==
    /\ s.host \in {NoHost, InitialIdentity}
    /\ s.pc # "create"
    /\ s.pc = "save" => \A r \in s.out : r.host = InitialIdentity

(* Nobody works under another identity, and no row is written under one.   *)
OneIdentity ==
    /\ identity = InitialIdentity
    /\ \A r \in file : r.host = InitialIdentity
    /\ \A p \in Proc : HereOnly(proc[p])

(* A process moves on, the others stay where they are.                     *)
LEMMA OneProcess ==
    ASSUME IInv, OneIdentity, NEW p \in Proc, NEW s, HereOnly(s),
           proc' = [proc EXCEPT ![p] = s],
           identity' = identity,
           \A r \in file' : r.host = InitialIdentity
    PROVE  OneIdentity'
  <1>1. \A q \in Proc : proc'[q] = s \/ proc'[q] = proc[q]
    BY DEF IInv, TypeOK
  <1> QED
    BY <1>1 DEF OneIdentity, HereOnly

(* Where a command goes on after a step has forgotten its host and list.   *)
LEMMA FreshIsHere ==
    ASSUME NEW s, NEW d
    PROVE  HereOnly(Idle) /\ HereOnly(RunCommand(s)) /\ HereOnly(Finish(s, d))
  <1>1. Idle.host = NoHost /\ Idle.pc = "idle"
    BY DEF Idle
  <1>2. \A op, pc, ph : LET t == [Idle EXCEPT !.pc = pc, !.phase = ph, !.op = op]
                        IN  t.host = NoHost /\ t.pc = pc
    BY DEF Idle
  <1>3. HereOnly(Idle)
    BY <1>1 DEF HereOnly
  <1>4. HereOnly(RunCommand(s))
    BY <1>2 DEF RunCommand, HereOnly
  <1> QED
    BY <1>2, <1>3, <1>4 DEF Finish, HereOnly

(* What is decided under the lock concerns rows of this identity only.     *)
LEMMA LoadStaysHere ==
    ASSUME Settled, IInv, OneIdentity, NEW p \in Proc, LoadAndDecide(p)
    PROVE  OneIdentity'
  <1>1. /\ proc[p] \in ProcState /\ HereOnly(proc[p]) /\ proc[p].pc = "load"
        /\ WorkOK(proc[p])
        /\ UNCHANGED <<identity, file>>
    BY DEF LoadAndDecide, IInv, TypeOK, Working, OneIdentity
  <1>2. ASSUME NEW rows, NEW d, WillSave(p, rows, d),
               \A r \in rows : r.host = InitialIdentity
        PROVE  OneIdentity'
    <2> DEFINE s == [proc[p] EXCEPT !.pc = "save", !.out = rows, !.done = d]
    <2>1. proc' = [proc EXCEPT ![p] = s]
      BY <1>2 DEF WillSave, IInv, TypeOK
    <2>2. s.pc = "save" /\ s.out = rows /\ s.host = proc[p].host
      BY <1>1 DEF ProcState
    <2>3. HereOnly(s)
      <3> HIDE DEF s
      <3> QED
        BY <1>1, <1>2, <2>2 DEF HereOnly
    <2> HIDE DEF s
    <2> QED
      BY <1>1, <2>1, <2>3, OneProcess DEF OneIdentity
  <1>3. ASSUME NEW d, LeaveLock(p, d)
        PROVE  OneIdentity'
    <2>1. proc' = [proc EXCEPT ![p] = Finish(proc[p], d)]
      BY <1>3 DEF LeaveLock, IInv, TypeOK
    <2> QED
      BY <1>1, <2>1, FreshIsHere, OneProcess DEF OneIdentity
  <1>4. ASSUME NEW x \in Port, Create(p, x), proc[p].phase = "cmd",
               proc[p].op.kind # "release_id"
        PROVE  OneIdentity'
    <2>1. NewRow(p, x).host = InitialIdentity
      BY <1>1, <1>4 DEF NewRow, HereOnly, WorkOK
    <2> QED
      BY <1>2, <1>4, <2>1 DEF Create, OneIdentity
  <1>5. CASE Migrate(p)
    <2>1. InitialIdentity # Legacy
      BY HostAssumption, InitialAssumption DEF Settled
    <2> QED
      BY <1>3, <1>5, <2>1 DEF Migrate, OneIdentity
  <1>6. CASE Reserve(p)
    <2>1. PICK x \in proc[p].op.todo :
             \/ WillSave(p, file, {x})
             \/ LeaveLock(p, {x})
             \/ Create(p, x)
      BY <1>6 DEF Reserve
    <2>2. x \in Port
      BY <1>1 DEF ProcState, Command
    <2> QED
      BY <1>2, <1>3, <1>4, <1>6, <2>1, <2>2 DEF OneIdentity, Reserve
  <1>7. CASE RecommendAndReserve(p)
    BY <1>3, <1>4, <1>7 DEF RecommendAndReserve
  <1>8. CASE Release(p) \/ ReleaseById(p)
    <2>1. \/ \E r : WillSave(p, file \ {r}, {})
          \/ \E d : LeaveLock(p, d)
      BY <1>8 DEF Release, ReleaseById
    <2> QED
      BY <1>2, <1>3, <2>1 DEF OneIdentity
  <1> QED
    BY <1>5, <1>6, <1>7, <1>8 DEF LoadAndDecide

(* The steps outside the lock only ever hand out the one identity.         *)
LEMMA OutsideStaysHere ==
    ASSUME Settled, IInv, OneIdentity, NEW p \in Proc,
           \/ \E op \in Commands : Start(p, op)
           \/ GetHostId(p) \/ CreateIdentity(p) \/ MigrateCheck(p)
           \/ Discover(p) \/ AcquireLock(p) \/ LockTimeout(p) \/ Crash(p)
    PROVE  OneIdentity'
  <1>1. /\ proc[p] \in ProcState /\ HereOnly(proc[p])
        /\ proc \in [Proc -> ProcState]
    BY DEF IInv, TypeOK, OneIdentity
  <1>2. ~CreateIdentity(p)
    BY <1>1 DEF CreateIdentity, HereOnly
  <1>3. UNCHANGED <<identity, file>>
    BY <1>2 DEF Start, GetHostId, MigrateCheck, Discover, AcquireLock,
                LockTimeout, Crash
  <1>4. ASSUME NEW s, HereOnly(s), proc' = [proc EXCEPT ![p] = s]
        PROVE  OneIdentity'
    BY <1>3, <1>4, OneProcess DEF OneIdentity
  <1>5. ASSUME NEW op \in Commands, Start(p, op)
        PROVE  OneIdentity'
    <2> DEFINE s == [Idle EXCEPT !.pc = "ident", !.op = op]
    <2>1. s.host = NoHost /\ s.pc = "ident"
      BY DEF Idle
    <2>2. HereOnly(s)
      <3> HIDE DEF s
      <3> QED
        BY <2>1 DEF HereOnly
    <2> HIDE DEF s
    <2>3. proc' = [proc EXCEPT ![p] = s]
      BY <1>5 DEF Start, s
    <2> QED
      BY <1>4, <2>2, <2>3
  <1>6. CASE GetHostId(p)
    <2>1. proc' = [proc EXCEPT ![p] = WithHost(proc[p], identity)]
      BY <1>1, <1>6 DEF GetHostId, OneIdentity, Settled
    <2>2. /\ WithHost(proc[p], identity).host = identity
          /\ WithHost(proc[p], identity).pc \in {"check", "discover", "wait"}
      BY <1>1 DEF WithHost, ProcState
    <2>3. HereOnly(WithHost(proc[p], identity))
      BY <2>2 DEF HereOnly, OneIdentity
    <2> QED
      BY <1>4, <2>1, <2>3
  <1>7. ASSUME NEW k \in {"wait", "load"}, NEW o \in [Port -> Owner \cup {Nobody}],
               proc' = [proc EXCEPT ![p] = [proc[p] EXCEPT !.pc = k, !.seen = o]]
        PROVE  OneIdentity'
    <2> DEFINE s == [proc[p] EXCEPT !.pc = k, !.seen = o]
    <2>1. s.host = proc[p].host /\ s.pc = k
      BY <1>1 DEF ProcState
    <2>2. HereOnly(s)
      <3> HIDE DEF s
      <3> QED
        BY <1>1, <1>7, <2>1 DEF HereOnly
    <2> HIDE DEF s
    <2> QED
      BY <1>4, <1>7, <2>2 DEF s
  <1>8. CASE MigrateCheck(p) \/ Discover(p) \/ AcquireLock(p)
    <2>1. /\ proc[p].seen \in [Port -> Owner \cup {Nobody}]
          /\ listener \in [Port -> Owner \cup {Nobody}]
          /\ \A k : [proc[p] EXCEPT !.pc = k]
                       = [proc[p] EXCEPT !.pc = k, !.seen = proc[p].seen]
      BY <1>1 DEF ProcState, IInv, TypeOK
    <2>2. CASE MigrateCheck(p)
      <3>1. \/ proc' = [proc EXCEPT ![p] = RunCommand(proc[p])]
            \/ proc' = [proc EXCEPT ![p] = [proc[p] EXCEPT !.pc = "wait"]]
        BY <1>1, <2>2 DEF MigrateCheck
      <3> QED
        BY <1>4, <1>7, <2>1, <3>1, FreshIsHere
    <2>3. CASE Discover(p)
      <3>1. proc' = [proc EXCEPT ![p] = [proc[p] EXCEPT !.pc = "wait", !.seen = listener]]
        BY <1>1, <2>3 DEF Discover
      <3> QED
        BY <1>7, <2>1, <3>1
    <2>4. CASE AcquireLock(p)
      <3>1. proc' = [proc EXCEPT ![p] = [proc[p] EXCEPT !.pc = "load"]]
        BY <1>1, <2>4 DEF AcquireLock
      <3> QED
        BY <1>7, <2>1, <3>1
    <2> QED
      BY <1>8, <2>2, <2>3, <2>4
  <1>9. CASE LockTimeout(p) \/ Crash(p)
    <2>1. \/ proc' = [proc EXCEPT ![p] = RunCommand(proc[p])]
          \/ proc' = [proc EXCEPT ![p] = Idle]
      BY <1>1, <1>9 DEF LockTimeout, Crash
    <2> QED
      BY <1>4, <2>1, FreshIsHere
  <1> QED
    BY <1>2, <1>5, <1>6, <1>8, <1>9

LEMMA SaveStaysHere ==
    ASSUME Settled, IInv, OneIdentity, NEW p \in Proc, Save(p)
    PROVE  OneIdentity'
  <1>1. /\ proc' = [proc EXCEPT ![p] = Finish(proc[p], proc[p].done)]
        /\ file' = proc[p].out /\ identity' = identity
    BY DEF Save, IInv, TypeOK
  <1>2. \A r \in proc[p].out : r.host = InitialIdentity
    BY DEF Save, OneIdentity, HereOnly
  <1> QED
    BY <1>1, <1>2, FreshIsHere, OneProcess

LEMMA StaysHere ==
    ASSUME Settled, IInv, OneIdentity, [Next]_vars
    PROVE  OneIdentity'
  <1>1. CASE UNCHANGED <<identity, file, proc>>
    BY <1>1 DEF OneIdentity, HereOnly
  <1> QED
    BY <1>1, LoadStaysHere, OutsideStaysHere, SaveStaysHere
       DEF Next, ProcStep, Close, Listen, vars

(* One operation of the registry does not put a second row on a port as    *)
(* long as every row is under the same identity.                           *)
LEMMA OperationKeepsPorts ==
    ASSUME Settled, NEW a, NEW b, Registry!Step(a, b),
           \A r \in a \cup b : r.host = InitialIdentity,
           \A r, s \in a : r.port = s.port => r = s,
           a \in SUBSET Row
    PROVE  \A r, s \in b : r.port = s.port => r = s
  <1>1. CASE b = a \/ Registry!Dropped(a, b)
    BY <1>1 DEF Registry!Dropped
  <1>2. CASE Registry!Granted(a, b)
    <2>1. PICK n \in b : /\ \A s \in a : <<s.host, s.port>> # <<n.host, n.port>>
                         /\ b = a \cup {n}
      BY <1>2 DEF Registry!Granted
    <2>2. \A s \in a : s.port # n.port
      BY <2>1
    <2> QED
      BY <2>1, <2>2
  <1>3. CASE Registry!Rehosted(a, b)
    <2>1. InitialIdentity # Legacy
      BY HostAssumption, InitialAssumption DEF Settled
    <2>2. PICK h : b = {Registry!MoveTo(h, r) : r \in a}
      BY <1>3 DEF Registry!Rehosted, Registry!Moved
    <2>3. \A r \in a : Registry!MoveTo(h, r) = r
      BY <2>1 DEF Registry!MoveTo, Row, Registry!Claim
    <2>4. b = a
      BY <2>2, <2>3
    <2> QED
      BY <2>4
  <1> QED
    BY <1>1, <1>2, <1>3 DEF Registry!Step

(* On a machine that has its identity, no port is ever reserved twice,     *)
(* however many commands run, wait, fail or die at the same time.          *)
THEOREM PortsAreReservedOnce == Settled => (Spec => []PortReservedOnce)
  <1> SUFFICES ASSUME Settled PROVE Spec => []PortReservedOnce
    OBVIOUS
  <1> DEFINE Inv == IInv /\ OneIdentity /\ PortReservedOnce
  <1>1. Init => Inv
    <2>1. Init => OneIdentity
      BY FreshIsHere DEF Init, OneIdentity, Settled
    <2>2. Init => PortReservedOnce
      BY DEF Init, Settled, PortReservedOnce
    <2> QED
      BY <2>1, <2>2, InitHolds
  <1>2. Inv /\ [Next]_vars => Inv'
    <2> SUFFICES ASSUME Inv, [Next]_vars PROVE Inv'
      OBVIOUS
    <2>1. OneIdentity' /\ IInv'
      BY StaysHere, StepKeeps
    <2>2. CASE file' = file
      BY <2>1, <2>2 DEF PortReservedOnce
    <2>3. CASE \E p \in Proc : proc[p].pc = "save" /\ file' = proc[p].out
      <3>1. Registry!Step(file, file')
        BY <2>3 DEF IInv, SaveIsAStep
      <3>2. \A r \in file \cup file' : r.host = InitialIdentity
        BY <2>1 DEF OneIdentity
      <3>3. file \in SUBSET Row /\ \A r, s \in file : r.port = s.port => r = s
        BY DEF IInv, TypeOK, PortReservedOnce
      <3>4. \A r, s \in file' : r.port = s.port => r = s
        BY <3>1, <3>2, <3>3, OperationKeepsPorts
      <3> QED
        BY <2>1, <3>4 DEF PortReservedOnce
    <2> QED
      BY <2>2, <2>3, FileSteps
  <1> QED
    BY <1>1, <1>2, PTL DEF Spec

=============================================================================
