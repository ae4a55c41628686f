----------------------- MODULE CentralAllocationProofs -----------------------
(***************************************************************************)
(* Theorems about CentralAllocation for any number of hosts, ports,        *)
(* requests and concurrent transactions.                                   *)
(***************************************************************************)
EXTENDS CentralAllocation, FiniteSetTheorems, TLAPS

(* The invariant behind the host lock: whoever is past AcquireHostLock     *)
(* owns the lock of its host.                                              *)
LockHeld ==
    \A t \in Tx : pc[t] \in {"locked", "resolve"} => lock[job[t].host] = t

(* A bundle starts with nothing claimed.                                   *)
NothingClaimedYet ==
    \A t \in Tx : pc[t] \in {"idle", "wait", "locked"} => claimed[t] = {}

(* While a bundle is being resolved no other bundle gets its ports.        *)
ClaimedUnbooked ==
    \A t \in Tx : pc[t] = "resolve" =>
        \A r \in resv : r.alloc # NoTx /\ r.host = job[t].host
                          => r.port \notin claimed[t]

(* ... and no snapshot reports one of them in use.                         *)
ClaimedUnobserved ==
    \A t \in Tx : pc[t] = "resolve" =>
        claimed[t] \cap observed[job[t].host] = {}

(* A reservation that is about to be inserted names a port.                *)
InsertNamesPort == \A t \in Tx : pc[t] = "insert" => job[t].port \in Port

IInv ==
    /\ TypeOK
    /\ InsertNamesPort
    /\ LockHeld
    /\ NothingClaimedYet
    /\ ClaimedUnbooked
    /\ ClaimedUnobserved
    /\ NoAllocationDoubleBooking

-----------------------------------------------------------------------------

LEMMA DefaultsTyped ==
    /\ NoJob \in Job
    /\ NoAllocation \in AllocationRow
<1>1. AnyHost \in Host
  BY HostAssumption DEF AnyHost
<1>2. AnyBundle \in Bundle
  BY BundleAssumption DEF AnyBundle
<1>3. QED
  BY <1>1, <1>2 DEF NoJob, NoAllocation, Job, AllocationRow, Op

LEMMA FinalLabels == Final \subseteq Label
BY DEF Final, Label

(* Only t's own job may differ after the first step of a request.          *)
JobOnly(t) == job' \in [Tx -> Job] /\ \A u \in Tx : u # t => job'[u] = job[u]

LEMMA JobStays ==
    ASSUME TypeOK, NEW t \in Tx, UNCHANGED job
    PROVE  JobOnly(t)
BY DEF JobOnly, TypeOK

LEMMA JobChanges ==
    ASSUME TypeOK, NEW t \in Tx, NEW j \in Job, job' = [job EXCEPT ![t] = j]
    PROVE  JobOnly(t)
BY DEF JobOnly, TypeOK

(* Giving an answer changes nothing but the label and the lock.            *)
LEMMA AnswerInv ==
    ASSUME IInv, NEW t \in Tx, NEW code \in Final, Answer(t, code), JobOnly(t)
    PROVE  IInv'
<1> USE DEF IInv, Answer, Goto, Unlock, JobOnly
<1>1. TypeOK'
  BY FinalLabels DEF TypeOK
<1>2. InsertNamesPort'
  BY DEF InsertNamesPort, TypeOK, Final
<1>3. LockHeld'
  BY NoTxAssumption DEF LockHeld, TypeOK, Final, Job
<1>4. NothingClaimedYet'
  BY DEF NothingClaimedYet, TypeOK, Final
<1>5. ClaimedUnbooked'
  BY DEF ClaimedUnbooked, TypeOK, Final
<1>6. ClaimedUnobserved'
  BY DEF ClaimedUnobserved, TypeOK, Final
<1>7. NoAllocationDoubleBooking'
  BY DEF NoAllocationDoubleBooking
<1>8. QED
  BY <1>1, <1>2, <1>3, <1>4, <1>5, <1>6, <1>7

(* A request that only moves on to a label outside the locked section.     *)
LEMMA WaitInv ==
    ASSUME IInv, NEW t \in Tx, NEW label \in {"wait", "insert", "release"},
           pc[t] = "idle", Goto(t, label), JobOnly(t),
           label = "insert" => job'[t].port \in Port,
           UNCHANGED <<life, observed, resv, alloc, lock, claimed>>,
           todo' \in [Tx -> Seq(Item)], seen' \in [Tx -> SUBSET Tx]
    PROVE  IInv'
<1> USE DEF IInv, Goto, JobOnly
<1>1. TypeOK'
  BY DEF TypeOK, Label
<1>2. InsertNamesPort'
  BY DEF InsertNamesPort, TypeOK
<1>3. LockHeld'
  BY DEF LockHeld, TypeOK
<1>4. NothingClaimedYet'
  BY DEF NothingClaimedYet, TypeOK
<1>5. ClaimedUnbooked'
  BY DEF ClaimedUnbooked, TypeOK
<1>6. ClaimedUnobserved'
  BY DEF ClaimedUnobserved, TypeOK
<1>7. NoAllocationDoubleBooking'
  BY DEF NoAllocationDoubleBooking
<1>8. QED
  BY <1>1, <1>2, <1>3, <1>4, <1>5, <1>6, <1>7

LEMMA ResolutionsAreFree ==
    ASSUME NEW t \in Tx, NEW item, NEW occupied
    PROVE  Resolutions(t, item, occupied) \subseteq FreePorts(t)
BY DEF Resolutions, Candidates

LEMMA BundleRowsTyped ==
    ASSUME TypeOK, NEW t \in Tx
    PROVE  BundleRows(t) \subseteq Row
BY DEF BundleRows, Row, TypeOK, Job

LEMMA ReservationRowTyped ==
    ASSUME TypeOK, NEW t \in Tx, job[t].port \in Port
    PROVE  ReservationRow(t) \in Row
BY DEF ReservationRow, Row, TypeOK, Job

-----------------------------------------------------------------------------
(* One lemma per action.                                                   *)

LEMMA InitInv == Init => IInv
<1> SUFFICES ASSUME Init PROVE IInv
  OBVIOUS
<1>1. TypeOK
  BY DefaultsTyped DEF Init, TypeOK, Label
<1>2. QED
  BY <1>1 DEF Init, IInv, InsertNamesPort, LockHeld, NothingClaimedYet,
     ClaimedUnbooked, ClaimedUnobserved, NoAllocationDoubleBooking

LEMMA AcquireHostLockInv ==
    ASSUME IInv, NEW t \in Tx, AcquireHostLock(t)
    PROVE  IInv'
<1> USE DEF IInv, AcquireHostLock, Goto
<1>1. TypeOK'
  BY DEF TypeOK, Label, Job
<1>2. InsertNamesPort'
  BY DEF InsertNamesPort, TypeOK
<1>3. LockHeld'
  BY NoTxAssumption DEF LockHeld, TypeOK, Job
<1>4. NothingClaimedYet'
  BY DEF NothingClaimedYet, TypeOK
<1>5. ClaimedUnbooked'
  BY DEF ClaimedUnbooked, TypeOK
<1>6. ClaimedUnobserved'
  BY DEF ClaimedUnobserved, TypeOK
<1>7. NoAllocationDoubleBooking'
  BY DEF NoAllocationDoubleBooking
<1>8. QED
  BY <1>1, <1>2, <1>3, <1>4, <1>5, <1>6, <1>7

LEMMA BeginAllocationInv ==
    ASSUME IInv, NEW t \in Tx, NEW h \in Host, NEW rid \in RequestId \cup {NoId},
           NEW items \in Bundle, BeginAllocation(t, h, rid, items)
    PROVE  IInv'
<1>1. JobOnly(t)
  <2>1. [NoJob EXCEPT !.op = "allocate", !.host = h, !.rid = rid,
                      !.items = items] \in Job
    BY DefaultsTyped DEF Job, Op
  <2>2. QED
    BY <2>1, JobChanges DEF BeginAllocation, IInv
<1>2. CASE \E code \in Final : Answer(t, code)
  BY <1>1, <1>2, AnswerInv
<1>3. CASE /\ pc[t] = "idle"
           /\ Goto(t, "wait")
           /\ todo' = [todo EXCEPT ![t] = items]
           /\ UNCHANGED <<life, observed, resv, alloc, lock, claimed, seen>>
  <2>1. /\ todo' \in [Tx -> Seq(Item)]
        /\ seen' \in [Tx -> SUBSET Tx]
    BY <1>3, BundleAssumption DEF IInv, TypeOK
  <2>2. QED
    BY <1>1, <1>3, <2>1, WaitInv
<1>4. QED
  BY <1>2, <1>3 DEF BeginAllocation, Final

LEMMA EnsureHostAllocatableInv ==
    ASSUME IInv, NEW t \in Tx, EnsureHostAllocatable(t)
    PROVE  IInv'
<1>1. JobOnly(t)
  BY JobStays DEF EnsureHostAllocatable, IInv
<1>2. CASE Answer(t, "failed")
  BY <1>1, <1>2, AnswerInv DEF Final
<1>3. CASE /\ pc[t] = "locked"
           /\ Goto(t, "resolve")
           /\ UNCHANGED <<life, observed, resv, alloc, lock, todo, claimed, seen, job>>
  <2> USE <1>3 DEF IInv, Goto
  <2>1. TypeOK'
    BY DEF TypeOK, Label
  <2>2. InsertNamesPort'
    BY DEF InsertNamesPort, TypeOK
  <2>3. LockHeld'
    BY DEF LockHeld, TypeOK
  <2>4. claimed[t] = {}
    BY DEF NothingClaimedYet
  <2>5. NothingClaimedYet'
    BY DEF NothingClaimedYet, TypeOK
  <2>6. ClaimedUnbooked'
    BY <2>4 DEF ClaimedUnbooked, TypeOK
  <2>7. ClaimedUnobserved'
    BY <2>4 DEF ClaimedUnobserved, TypeOK
  <2>8. NoAllocationDoubleBooking'
    BY DEF NoAllocationDoubleBooking
  <2>9. QED
    BY <2>1, <2>2, <2>3, <2>5, <2>6, <2>7, <2>8
<1>4. QED
  BY <1>2, <1>3 DEF EnsureHostAllocatable

LEMMA ResolveCandidateInv ==
    ASSUME IInv, NEW t \in Tx, ResolveCandidate(t)
    PROVE  IInv'
<1>1. JobOnly(t)
  BY JobStays DEF ResolveCandidate, IInv
<1>2. CASE Answer(t, "failed")
  BY <1>1, <1>2, AnswerInv DEF Final
<1>3. ASSUME NEW p \in FreePorts(t),
             pc[t] = "resolve",
             todo[t] # << >>,
             claimed' = [claimed EXCEPT ![t] = @ \cup {p}],
             todo' = [todo EXCEPT ![t] = Tail(@)],
             UNCHANGED <<life, observed, resv, alloc, lock, pc, seen, job>>
      PROVE  IInv'
  <2> USE <1>3 DEF IInv
  <2>1. TypeOK'
    <3>1. Tail(todo[t]) \in Seq(Item)
      BY DEF TypeOK
    <3>2. QED
      BY <3>1 DEF TypeOK, FreePorts
  <2>2. InsertNamesPort' /\ LockHeld' /\ NoAllocationDoubleBooking'
    BY DEF InsertNamesPort, LockHeld, NoAllocationDoubleBooking
  <2>3. NothingClaimedYet'
    BY DEF NothingClaimedYet, TypeOK
  <2>4. \A r \in resv : r.host = job[t].host => r.port # p
    BY DEF FreePorts, ReservedPorts, RowsOf
  <2>5. ClaimedUnbooked'
    BY <2>4 DEF ClaimedUnbooked, TypeOK
  <2>6. p \notin observed[job[t].host]
    BY DEF FreePorts
  <2>7. ClaimedUnobserved'
    BY <2>6 DEF ClaimedUnobserved, TypeOK
  <2>8. QED
    BY <2>1, <2>2, <2>3, <2>5, <2>7
<1>4. QED
  BY <1>2, <1>3, ResolutionsAreFree DEF ResolveCandidate

LEMMA CommitAllocationInv ==
    ASSUME IInv, NEW t \in Tx, CommitAllocation(t)
    PROVE  IInv'
<1>1. JobOnly(t)
  BY JobStays DEF CommitAllocation, IInv
<1>2. CASE Answer(t, "failed")
  BY <1>1, <1>2, AnswerInv DEF Final
<1>3. CASE /\ pc[t] = "resolve"
           /\ alloc' = [alloc EXCEPT ![t] = [status |-> "active",
                                             host |-> job[t].host,
                                             rid |-> job[t].rid,
                                             items |-> job[t].items]]
           /\ resv' = resv \cup BundleRows(t)
           /\ Goto(t, "ok")
           /\ Unlock(t)
           /\ UNCHANGED <<life, observed, todo, claimed, seen, job>>
  <2> USE <1>3 DEF IInv, Goto, Unlock
  <2>1. TypeOK'
    <3>1. resv' \subseteq Row
      BY BundleRowsTyped DEF TypeOK
    <3>2. alloc' \in [Tx -> AllocationRow]
      BY DEF TypeOK, AllocationRow, Job
    <3>3. QED
      BY <3>1, <3>2 DEF TypeOK, Label, Final
  <2>2. InsertNamesPort'
    BY DEF InsertNamesPort, TypeOK
  <2>3. LockHeld'
    BY NoTxAssumption DEF LockHeld, TypeOK, Job
  <2>4. NothingClaimedYet'
    BY DEF NothingClaimedYet, TypeOK
  <2>5. \A u \in Tx : pc[u] = "resolve" /\ job[u].host = job[t].host => u = t
    BY DEF LockHeld
  <2>6. \A r \in BundleRows(t) : r.host = job[t].host
    BY DEF BundleRows
  <2>7. ClaimedUnbooked'
    BY <2>5, <2>6 DEF ClaimedUnbooked, TypeOK
  <2>8. ClaimedUnobserved'
    BY DEF ClaimedUnobserved, TypeOK
  <2>9. \A r \in resv, q \in BundleRows(t) :
           ~(r.alloc # NoTx /\ r.host = q.host /\ r.port = q.port)
    BY DEF ClaimedUnbooked, BundleRows
  <2>10. \A r, q \in BundleRows(t) : r.port = q.port => r = q
    BY DEF BundleRows
  <2>11. NoAllocationDoubleBooking'
    BY <2>9, <2>10 DEF NoAllocationDoubleBooking
  <2>12. QED
    BY <2>1, <2>2, <2>3, <2>4, <2>7, <2>8, <2>11
<1>4. QED
  BY <1>2, <1>3 DEF CommitAllocation

(* A step of t that only takes rows away, and leaves the locked section if *)
(* it was in it.                                                           *)
LEMMA ShrinkInv ==
    ASSUME IInv, NEW t \in Tx, Goto(t, "ok"), UNCHANGED <<job, claimed, observed, todo, seen>>,
           resv' \subseteq resv,
           alloc' \in [Tx -> AllocationRow],
           life' \in [Host -> {"ABSENT", "ACTIVE", "DECOMMISSIONED"}],
           Unlock(t) \/ UNCHANGED lock
    PROVE  IInv'
<1> USE DEF IInv, Goto, Unlock
<1>1. TypeOK'
  BY DEF TypeOK, Label, Final
<1>2. InsertNamesPort'
  BY DEF InsertNamesPort, TypeOK
<1>3. LockHeld'
  BY NoTxAssumption DEF LockHeld, TypeOK, Job
<1>4. NothingClaimedYet'
  BY DEF NothingClaimedYet, TypeOK
<1>5. ClaimedUnbooked' /\ NoAllocationDoubleBooking'
  BY DEF ClaimedUnbooked, NoAllocationDoubleBooking, TypeOK
<1>6. ClaimedUnobserved'
  BY DEF ClaimedUnobserved, TypeOK
<1>7. QED
  BY <1>1, <1>2, <1>3, <1>4, <1>5, <1>6

LEMMA BeginReleaseInv ==
    ASSUME IInv, NEW t \in Tx, NEW a \in Tx, BeginRelease(t, a)
    PROVE  IInv'
<1>1. JobOnly(t)
  <2>1. [NoJob EXCEPT !.op = "release", !.host = alloc[a].host, !.target = a] \in Job
    BY DefaultsTyped DEF Job, Op, IInv, TypeOK, AllocationRow
  <2>2. QED
    BY <2>1, JobChanges DEF BeginRelease, IInv
<1>2. CASE \E code \in Final : Answer(t, code)
  BY <1>1, <1>2, AnswerInv
<1>3. CASE /\ pc[t] = "idle"
           /\ Goto(t, "wait")
           /\ UNCHANGED <<life, observed, resv, alloc, lock, todo, claimed, seen>>
  BY <1>1, <1>3, WaitInv DEF IInv, TypeOK
<1>4. QED
  BY <1>2, <1>3 DEF BeginRelease, Final

LEMMA CommitReleaseInv ==
    ASSUME IInv, NEW t \in Tx, CommitRelease(t)
    PROVE  IInv'
<1>1. JobOnly(t)
  BY JobStays DEF CommitRelease, IInv
<1>2. CASE Answer(t, "failed")
  BY <1>1, <1>2, AnswerInv DEF Final
<1>3. CASE ~Answer(t, "failed")
  <2>1. alloc' \in [Tx -> AllocationRow]
    <3>1. alloc' = [alloc EXCEPT ![job[t].target].status = "released"]
      BY <1>3 DEF CommitRelease
    <3>2. \A a \in Tx : [alloc[a] EXCEPT !.status = "released"] \in AllocationRow
      BY DEF IInv, TypeOK, AllocationRow
    <3>3. QED
      BY <3>1, <3>2 DEF IInv, TypeOK
  <2>2. resv' \subseteq resv
    BY <1>3 DEF CommitRelease
  <2>3. QED
    BY <1>3, <2>1, <2>2, ShrinkInv DEF CommitRelease, IInv, TypeOK
<1>4. QED
  BY <1>2, <1>3

LEMMA BeginReservationInv ==
    ASSUME IInv, NEW t \in Tx, NEW h \in Host, NEW p \in Port,
           NEW ad \in Addr \cup {NoAddr}, NEW local \in LocalId \cup {NoLocal},
           BeginReservation(t, h, p, ad, local)
    PROVE  IInv'
<1> DEFINE j == [NoJob EXCEPT !.op = "reserve", !.host = h, !.port = p,
                              !.addr = ad, !.local = local]
<1>1. j \in Job /\ j.port = p
  BY DefaultsTyped DEF Job, Op
<1>2. JobOnly(t)
  BY <1>1, JobChanges DEF BeginReservation, IInv
<1>3. job'[t].port \in Port
  BY <1>1 DEF BeginReservation, IInv, TypeOK
<1>4. CASE \E code \in Final : Answer(t, code)
  BY <1>2, <1>4, AnswerInv
<1>5. CASE /\ pc[t] = "idle"
           /\ Goto(t, "insert")
           /\ UNCHANGED <<life, observed, resv, alloc, lock, todo, claimed, seen>>
  BY <1>2, <1>3, <1>5, WaitInv DEF IInv, TypeOK
<1>6. QED
  BY <1>4, <1>5 DEF BeginReservation, Final

(* Rows of single reservations belong to no bundle, so they disturb none   *)
(* of the facts about bundles.                                             *)
LEMMA InsertReservationInv ==
    ASSUME IInv, NEW t \in Tx, InsertReservation(t)
    PROVE  IInv'
<1>1. JobOnly(t)
  BY JobStays DEF InsertReservation, IInv
<1>2. CASE Answer(t, "failed")
  BY <1>1, <1>2, AnswerInv DEF Final
<1>3. CASE /\ pc[t] = "insert"
           /\ resv' = resv \cup {ReservationRow(t)}
           /\ Goto(t, "ok")
           /\ UNCHANGED <<life, observed, alloc, lock, todo, claimed, seen, job>>
  <2> USE <1>3 DEF IInv, Goto
  <2>1. TypeOK'
    <3>1. ReservationRow(t) \in Row
      BY ReservationRowTyped DEF InsertNamesPort
    <3>2. QED
      BY <3>1 DEF TypeOK, Label, Final
  <2>2. InsertNamesPort' /\ LockHeld'
    BY DEF InsertNamesPort, LockHeld, TypeOK
  <2>3. NothingClaimedYet' /\ ClaimedUnobserved'
    BY DEF NothingClaimedYet, ClaimedUnobserved, TypeOK
  <2>4. ReservationRow(t).alloc = NoTx
    BY DEF ReservationRow
  <2>5. ClaimedUnbooked'
    BY <2>4 DEF ClaimedUnbooked, TypeOK
  <2>6. NoAllocationDoubleBooking'
    BY <2>4 DEF NoAllocationDoubleBooking
  <2>7. QED
    BY <2>1, <2>2, <2>3, <2>5, <2>6
<1>4. QED
  BY <1>2, <1>3 DEF InsertReservation

LEMMA BeginIngestInv ==
    ASSUME IInv, NEW t \in Tx, NEW h \in Host, BeginIngest(t, h)
    PROVE  IInv'
<1>1. JobOnly(t)
  <2>1. [NoJob EXCEPT !.op = "ingest", !.host = h] \in Job
    BY DefaultsTyped DEF Job, Op
  <2>2. QED
    BY <2>1, JobChanges DEF BeginIngest, IInv
<1>2. QED
  BY <1>1, WaitInv DEF BeginIngest, IInv, TypeOK

(* The snapshot's transaction owns the host lock, so no bundle of the same *)
(* host is being resolved.                                                 *)
LEMMA CommitIngestInv ==
    ASSUME IInv, NEW t \in Tx, CommitIngest(t)
    PROVE  IInv'
<1>1. JobOnly(t)
  BY JobStays DEF CommitIngest, IInv
<1>2. CASE Answer(t, "failed")
  BY <1>1, <1>2, AnswerInv DEF Final
<1>3. CASE ~Answer(t, "failed")
  <2>1. PICK ports \in SUBSET Port :
           /\ pc[t] = "locked"
           /\ observed' = [observed EXCEPT ![job[t].host] = ports]
           /\ Goto(t, "ok")
           /\ Unlock(t)
           /\ UNCHANGED <<life, resv, alloc, todo, claimed, seen, job>>
    BY <1>3 DEF CommitIngest
  <2> USE <2>1 DEF IInv, Goto, Unlock
  <2>2. TypeOK'
    BY DEF TypeOK, Label, Final
  <2>3. InsertNamesPort' /\ NothingClaimedYet'
    BY DEF InsertNamesPort, NothingClaimedYet, TypeOK
  <2>4. LockHeld'
    BY NoTxAssumption DEF LockHeld, TypeOK, Job
  <2>5. ClaimedUnbooked' /\ NoAllocationDoubleBooking'
    BY DEF ClaimedUnbooked, NoAllocationDoubleBooking, TypeOK
  <2>6. \A u \in Tx : pc[u] = "resolve" => job[u].host # job[t].host
    BY DEF LockHeld
  <2>7. ClaimedUnobserved'
    BY <2>6 DEF ClaimedUnobserved, TypeOK, Job
  <2>8. QED
    BY <2>2, <2>3, <2>4, <2>5, <2>7
<1>4. QED
  BY <1>2, <1>3

LEMMA BeginDecommissionInv ==
    ASSUME IInv, NEW t \in Tx, NEW h \in Host, BeginDecommission(t, h)
    PROVE  IInv'
<1>1. JobOnly(t)
  <2>1. [NoJob EXCEPT !.op = "decommission", !.host = h] \in Job
    BY DefaultsTyped DEF Job, Op
  <2>2. QED
    BY <2>1, JobChanges DEF BeginDecommission, IInv
<1>2. CASE \E code \in Final : Answer(t, code)
  BY <1>1, <1>2, AnswerInv
<1>3. CASE /\ pc[t] = "idle"
           /\ seen' = [seen EXCEPT ![t] = ActiveAllocations(h)]
           /\ Goto(t, "release")
           /\ UNCHANGED <<life, observed, resv, alloc, lock, todo, claimed>>
  <2>1. seen' \in [Tx -> SUBSET Tx]
    BY <1>3 DEF IInv, TypeOK, ActiveAllocations
  <2>2. QED
    BY <1>1, <1>3, <2>1, WaitInv DEF IInv, TypeOK
<1>4. QED
  BY <1>2, <1>3 DEF BeginDecommission, Final

LEMMA CommitDecommissionInv ==
    ASSUME IInv, NEW t \in Tx, CommitDecommission(t)
    PROVE  IInv'
<1>1. JobOnly(t)
  BY JobStays DEF CommitDecommission, IInv
<1>2. CASE Answer(t, "failed")
  BY <1>1, <1>2, AnswerInv DEF Final
<1>3. CASE ~Answer(t, "failed")
  <2>1. alloc' \in [Tx -> AllocationRow]
    <3>1. alloc' = [a \in Tx |-> IF a \in seen[t]
                                 THEN [alloc[a] EXCEPT !.status = "released"]
                                 ELSE alloc[a]]
      BY <1>3 DEF CommitDecommission
    <3>2. \A a \in Tx : [alloc[a] EXCEPT !.status = "released"] \in AllocationRow
      BY DEF IInv, TypeOK, AllocationRow
    <3>3. QED
      BY <3>1, <3>2 DEF IInv, TypeOK
  <2>2. resv' \subseteq resv
    BY <1>3 DEF CommitDecommission
  <2>3. life' \in [Host -> {"ABSENT", "ACTIVE", "DECOMMISSIONED"}]
    BY <1>3 DEF CommitDecommission, IInv, TypeOK
  <2>4. QED
    BY <1>3, <2>1, <2>2, <2>3, ShrinkInv DEF CommitDecommission
<1>4. QED
  BY <1>2, <1>3

(* Steps outside the transactions: rows go away, hosts come and go.        *)
LEMMA RegistryInv ==
    ASSUME IInv, UNCHANGED <<lock, pc, job, todo, claimed, seen>>,
           resv' \subseteq resv,
           alloc' \in [Tx -> AllocationRow],
           life' \in [Host -> {"ABSENT", "ACTIVE", "DECOMMISSIONED"}],
           observed' \in [Host -> SUBSET Port],
           \A h \in Host : observed'[h] \subseteq observed[h]
    PROVE  IInv'
<1> USE DEF IInv
<1>1. TypeOK'
  BY DEF TypeOK
<1>2. InsertNamesPort' /\ LockHeld' /\ NothingClaimedYet'
  BY DEF InsertNamesPort, LockHeld, NothingClaimedYet
<1>3. ClaimedUnbooked' /\ NoAllocationDoubleBooking'
  BY DEF ClaimedUnbooked, NoAllocationDoubleBooking
<1>4. ClaimedUnobserved'
  BY DEF ClaimedUnobserved, TypeOK, Job
<1>5. QED
  BY <1>1, <1>2, <1>3, <1>4

LEMMA RegistryStepInv ==
    ASSUME IInv,
           \/ \E r \in resv : DeleteReservation(r)
           \/ \E h \in Host : ReactivateHost(h) \/ RemoveHostRecord(h) \/ EnrollHost(h)
    PROVE  IInv'
<1>1. ASSUME NEW r \in resv, DeleteReservation(r)
      PROVE  IInv'
  BY <1>1, RegistryInv DEF DeleteReservation, IInv, TypeOK
<1>2. ASSUME NEW h \in Host, ReactivateHost(h) \/ EnrollHost(h)
      PROVE  IInv'
  <2>1. life' \in [Host -> {"ABSENT", "ACTIVE", "DECOMMISSIONED"}]
    BY <1>2 DEF ReactivateHost, EnrollHost, IInv, TypeOK
  <2>2. QED
    BY <1>2, <2>1, RegistryInv DEF ReactivateHost, EnrollHost, IInv, TypeOK
<1>3. ASSUME NEW h \in Host, RemoveHostRecord(h)
      PROVE  IInv'
  <2>1. alloc' \in [Tx -> AllocationRow]
    BY <1>3, DefaultsTyped DEF RemoveHostRecord, IInv, TypeOK
  <2>2. /\ observed' \in [Host -> SUBSET Port]
        /\ \A k \in Host : observed'[k] \subseteq observed[k]
        /\ life' \in [Host -> {"ABSENT", "ACTIVE", "DECOMMISSIONED"}]
    BY <1>3 DEF RemoveHostRecord, IInv, TypeOK
  <2>3. QED
    BY <1>3, <2>1, <2>2, RegistryInv DEF RemoveHostRecord
<1>4. QED
  BY <1>1, <1>2, <1>3

LEMMA NextInv == IInv /\ [Next]_vars => IInv'
<1> SUFFICES ASSUME IInv, [Next]_vars PROVE IInv'
  OBVIOUS
<1>1. ASSUME NEW t \in Tx, Begin(t)
      PROVE  IInv'
  BY <1>1, BeginAllocationInv, BeginReservationInv, BeginIngestInv,
     BeginDecommissionInv DEF Begin
<1>2. ASSUME NEW t \in Tx, Step(t)
      PROVE  IInv'
  BY <1>2, AcquireHostLockInv, EnsureHostAllocatableInv, ResolveCandidateInv,
     CommitAllocationInv, CommitReleaseInv, InsertReservationInv,
     CommitIngestInv, CommitDecommissionInv DEF Step
<1>3. ASSUME NEW t \in Tx, NEW a \in Tx, BeginRelease(t, a)
      PROVE  IInv'
  BY <1>3, BeginReleaseInv
<1>4. CASE UNCHANGED vars
  BY <1>4 DEF vars, IInv, TypeOK, InsertNamesPort, LockHeld, NothingClaimedYet,
     ClaimedUnbooked, ClaimedUnobserved, NoAllocationDoubleBooking
<1>5. QED
  BY <1>1, <1>2, <1>3, <1>4, RegistryStepInv DEF Next

THEOREM Invariance == Spec => []IInv
BY InitInv, NextInv, PTL DEF Spec

-----------------------------------------------------------------------------

(* Type correctness of the registry, for every instance.                   *)
THEOREM TypeCorrect == Spec => []TypeOK
<1>1. IInv => TypeOK
  BY DEF IInv
<1>2. QED
  BY <1>1, Invariance, PTL

(* No port of a host is ever part of two bundles: the host lock of         *)
(* create_allocation is enough, although reservations, deletions and the   *)
(* host lifecycle run beside it without the lock.                          *)
THEOREM BundlesAreDisjoint == Spec => []NoAllocationDoubleBooking
<1>1. IInv => NoAllocationDoubleBooking
  BY DEF IInv
<1>2. QED
  BY <1>1, Invariance, PTL

-----------------------------------------------------------------------------
(* What a step does to the two tables: apart from CommitAllocation no step *)
(* adds an allocation, changes its request_id, or adds a bundle's row.     *)
KeepsAllocations ==
    \A a \in Tx : alloc'[a].status # "none"
                    => alloc[a].status # "none" /\ alloc'[a].rid = alloc[a].rid

AddsNoBundleRow == \A r \in resv' \ resv : r.alloc = NoTx

(* The first step of a request writes no row.                              *)
LEMMA BeginKeepsTables ==
    ASSUME NEW t \in Tx, Begin(t) \/ \E a \in Tx : BeginRelease(t, a)
    PROVE  UNCHANGED <<life, observed, alloc, resv>>
<1>1. ASSUME NEW h, NEW rid, NEW items, BeginAllocation(t, h, rid, items)
      PROVE  UNCHANGED <<life, observed, alloc, resv>>
  BY <1>1 DEF BeginAllocation, Answer
<1>2. ASSUME NEW h, NEW p, NEW ad, NEW local,
             BeginReservation(t, h, p, ad, local)
      PROVE  UNCHANGED <<life, observed, alloc, resv>>
  BY <1>2 DEF BeginReservation, Answer
<1>3. ASSUME NEW h, BeginIngest(t, h) \/ BeginDecommission(t, h)
      PROVE  UNCHANGED <<life, observed, alloc, resv>>
  BY <1>3 DEF BeginIngest, BeginDecommission, Answer
<1>4. ASSUME NEW a, BeginRelease(t, a)
      PROVE  UNCHANGED <<life, observed, alloc, resv>>
  BY <1>4 DEF BeginRelease, Answer
<1>5. QED
  BY <1>1, <1>2, <1>3, <1>4 DEF Begin

LEMMA OtherSteps ==
    ASSUME TypeOK, [Next]_vars, \A t \in Tx : ~CommitAllocation(t)
    PROVE  KeepsAllocations /\ AddsNoBundleRow
<1>1. ASSUME NEW t \in Tx, Begin(t) \/ \E a \in Tx : BeginRelease(t, a)
      PROVE  UNCHANGED <<alloc, resv>>
  BY <1>1, BeginKeepsTables
<1>2. ASSUME NEW t \in Tx,
             AcquireHostLock(t) \/ EnsureHostAllocatable(t) \/ ResolveCandidate(t)
               \/ CommitIngest(t)
      PROVE  UNCHANGED <<alloc, resv>>
  BY <1>2 DEF AcquireHostLock, EnsureHostAllocatable, ResolveCandidate,
     CommitIngest, Answer
<1>3. ASSUME NEW t \in Tx, InsertReservation(t)
      PROVE  KeepsAllocations /\ AddsNoBundleRow
  <2>1. alloc' = alloc /\ resv' \subseteq resv \cup {ReservationRow(t)}
    BY <1>3 DEF InsertReservation, Answer
  <2>2. QED
    BY <2>1 DEF KeepsAllocations, AddsNoBundleRow, ReservationRow
<1>4. ASSUME NEW t \in Tx, CommitRelease(t)
      PROVE  KeepsAllocations /\ AddsNoBundleRow
  <2>1. resv' \subseteq resv
    BY <1>4 DEF CommitRelease, Answer
  <2>2. CASE alloc' = alloc
    BY <2>1, <2>2 DEF KeepsAllocations, AddsNoBundleRow
  <2>3. CASE alloc' # alloc
    <3>1. /\ alloc[job[t].target].status # "none"
          /\ alloc' = [alloc EXCEPT ![job[t].target].status = "released"]
      BY <1>4, <2>3 DEF CommitRelease, Answer
    <3>2. QED
      BY <2>1, <3>1 DEF KeepsAllocations, AddsNoBundleRow, TypeOK, AllocationRow
  <2>4. QED
    BY <2>2, <2>3
<1>5. ASSUME NEW t \in Tx, CommitDecommission(t)
      PROVE  KeepsAllocations /\ AddsNoBundleRow
  <2>1. resv' \subseteq resv
    BY <1>5 DEF CommitDecommission, Answer
  <2>2. CASE alloc' = alloc
    BY <2>1, <2>2 DEF KeepsAllocations, AddsNoBundleRow
  <2>3. CASE alloc' # alloc
    <3>1. /\ \A a \in seen[t] : alloc[a].status # "none"
          /\ alloc' = [a \in Tx |-> IF a \in seen[t]
                                    THEN [alloc[a] EXCEPT !.status = "released"]
                                    ELSE alloc[a]]
      BY <1>5, <2>3 DEF CommitDecommission, Answer
    <3>2. QED
      BY <2>1, <3>1 DEF KeepsAllocations, AddsNoBundleRow, TypeOK, AllocationRow
  <2>4. QED
    BY <2>2, <2>3
<1>6. ASSUME NEW h \in Host, RemoveHostRecord(h)
      PROVE  KeepsAllocations /\ AddsNoBundleRow
  BY <1>6 DEF RemoveHostRecord, KeepsAllocations, AddsNoBundleRow, NoAllocation
<1>7. ASSUME \/ \E r \in resv : DeleteReservation(r)
             \/ \E h \in Host : ReactivateHost(h) \/ EnrollHost(h)
             \/ UNCHANGED vars
      PROVE  KeepsAllocations /\ AddsNoBundleRow
  BY <1>7 DEF DeleteReservation, ReactivateHost, EnrollHost, vars,
     KeepsAllocations, AddsNoBundleRow
<1>8. UNCHANGED <<alloc, resv>> => KeepsAllocations /\ AddsNoBundleRow
  BY DEF KeepsAllocations, AddsNoBundleRow
<1>9. QED
  BY <1>1, <1>2, <1>3, <1>4, <1>5, <1>6, <1>7, <1>8 DEF Next, Step

(* A retried request_id never owns two allocations, whatever overlaps.     *)
THEOREM RequestsAreIdempotent == Spec => []RetryNeverDuplicates
<1>1. Init => RetryNeverDuplicates
  BY DEF Init, RetryNeverDuplicates, NoAllocation
<1>2. ASSUME TypeOK, RetryNeverDuplicates, [Next]_vars
      PROVE  RetryNeverDuplicates'
  <2>1. CASE \A t \in Tx : ~CommitAllocation(t)
    <3>1. KeepsAllocations
      BY <1>2, <2>1, OtherSteps
    <3>2. QED
      BY <1>2, <3>1 DEF KeepsAllocations, RetryNeverDuplicates
  <2>2. ASSUME NEW t \in Tx, CommitAllocation(t)
        PROVE  RetryNeverDuplicates'
    <3>1. CASE alloc' = alloc
      BY <1>2, <3>1 DEF RetryNeverDuplicates
    <3>2. CASE alloc' # alloc
      <4>1. /\ ~RequestIdTaken(job[t].rid)
            /\ alloc' = [alloc EXCEPT ![t] = [status |-> "active",
                                              host |-> job[t].host,
                                              rid |-> job[t].rid,
                                              items |-> job[t].items]]
        BY <2>2, <3>2 DEF CommitAllocation, Answer
      <4>2. QED
        BY <1>2, <4>1 DEF RequestIdTaken, RetryNeverDuplicates, TypeOK
    <3>3. QED
      BY <3>1, <3>2
  <2>3. QED
    BY <2>1, <2>2
<1>3. QED
  BY <1>1, <1>2, TypeCorrect, PTL DEF Spec

(* A bundle is only ever committed on ports the host's latest snapshot     *)
(* does not show in use.                                                   *)
THEOREM AllocationsRespectSnapshots == Spec => CommitAvoidsObserved
<1> DEFINE A == \A r \in resv' \ resv :
                   r.alloc # NoTx => r.port \notin observed[r.host]
<1>1. ASSUME IInv, [Next]_vars
      PROVE  [A]_vars
  <2>1. CASE \A t \in Tx : ~CommitAllocation(t)
    BY <1>1, <2>1, OtherSteps DEF AddsNoBundleRow, IInv
  <2>2. ASSUME NEW t \in Tx, CommitAllocation(t)
        PROVE  A
    <3>1. resv' \subseteq resv \cup BundleRows(t)
      BY <2>2 DEF CommitAllocation, Answer
    <3>2. pc[t] = "resolve"
      BY <2>2 DEF CommitAllocation
    <3>3. \A r \in BundleRows(t) : r.port \in claimed[t] /\ r.host = job[t].host
      BY DEF BundleRows
    <3>4. QED
      BY <1>1, <3>1, <3>2, <3>3 DEF IInv, ClaimedUnobserved
  <2>3. QED
    BY <2>1, <2>2
<1>2. QED
  BY <1>1, Invariance, PTL DEF Spec, CommitAvoidsObserved

-----------------------------------------------------------------------------
(* The host lock.                                                          *)

(* Only the transactions between the two ends of a locked section own a    *)
(* lock, and only that of their host.                                      *)
OwnersWork ==
    \A h \in Host : lock[h] # NoTx =>
        job[lock[h]].host = h /\ pc[lock[h]] \in {"locked", "resolve"}

(* The session ends: no lock names it any more.                            *)
LEMMA UnlockWork ==
    ASSUME TypeOK, OwnersWork, NEW t \in Tx, NEW code, Goto(t, code), Unlock(t),
           \A u \in Tx : u # t => job'[u] = job[u]
    PROVE  OwnersWork'
<1>1. \A h \in Host : lock[h] \in Tx \cup {NoTx} /\ lock'[h] = (IF lock[h] = t THEN NoTx ELSE lock[h])
  BY DEF TypeOK, Unlock
<1>2. \A u \in Tx : u # t => pc'[u] = pc[u]
  BY DEF TypeOK, Goto
<1> QED
  BY <1>1, <1>2 DEF OwnersWork

(* A step of a transaction that owns no lock.                              *)
LEMMA FreeWork ==
    ASSUME TypeOK, OwnersWork, NEW t \in Tx, NEW code, Goto(t, code), UNCHANGED lock,
           pc[t] \notin {"locked", "resolve"}, \A u \in Tx : u # t => job'[u] = job[u]
    PROVE  OwnersWork'
<1>1. \A h \in Host : lock[h] \in Tx \cup {NoTx} /\ lock'[h] = lock[h]
  BY DEF TypeOK
<1>2. \A u \in Tx : u # t => pc'[u] = pc[u]
  BY DEF TypeOK, Goto
<1>3. \A h \in Host : lock[h] # t
  BY NoTxAssumption DEF OwnersWork
<1> QED
  BY <1>1, <1>2, <1>3 DEF OwnersWork

(* The first step of a request, whatever it asks for.                      *)
FirstStep(t) ==
    /\ pc[t] = "idle" /\ \E j : job' = [job EXCEPT ![t] = j]
    /\ \E code : Goto(t, code) /\ (Unlock(t) \/ UNCHANGED lock)

LEMMA BeginIsFirst ==
    ASSUME NEW t \in Tx, Begin(t) \/ \E a \in Tx : BeginRelease(t, a)
    PROVE  FirstStep(t)
<1>1. ASSUME NEW h \in Host, NEW rid, NEW items, BeginAllocation(t, h, rid, items)
      PROVE  FirstStep(t)
  <2>1. pc[t] = "idle" /\ \E j : job' = [job EXCEPT ![t] = j]
    BY <1>1 DEF BeginAllocation
  <2>2. \E code : Goto(t, code) /\ (Unlock(t) \/ UNCHANGED lock)
    BY <1>1 DEF BeginAllocation, Answer
  <2> QED
    BY <2>1, <2>2 DEF FirstStep
<1>2. ASSUME NEW h \in Host, NEW p, NEW ad, NEW local,
             BeginReservation(t, h, p, ad, local)
      PROVE  FirstStep(t)
  <2>1. pc[t] = "idle" /\ \E j : job' = [job EXCEPT ![t] = j]
    BY <1>2 DEF BeginReservation
  <2>2. \E code : Goto(t, code) /\ (Unlock(t) \/ UNCHANGED lock)
    BY <1>2 DEF BeginReservation, Answer
  <2> QED
    BY <2>1, <2>2 DEF FirstStep
<1>3. ASSUME NEW h \in Host, BeginIngest(t, h) \/ BeginDecommission(t, h)
      PROVE  FirstStep(t)
  <2>1. pc[t] = "idle" /\ \E j : job' = [job EXCEPT ![t] = j]
    BY <1>3 DEF BeginIngest, BeginDecommission
  <2>2. \E code : Goto(t, code) /\ (Unlock(t) \/ UNCHANGED lock)
    BY <1>3 DEF BeginIngest, BeginDecommission, Answer
  <2> QED
    BY <2>1, <2>2 DEF FirstStep
<1>4. ASSUME NEW a \in Tx, BeginRelease(t, a)
      PROVE  FirstStep(t)
  <2>1. pc[t] = "idle" /\ \E j : job' = [job EXCEPT ![t] = j]
    BY <1>4 DEF BeginRelease
  <2>2. \E code : Goto(t, code) /\ (Unlock(t) \/ UNCHANGED lock)
    BY <1>4 DEF BeginRelease, Answer
  <2> QED
    BY <2>1, <2>2 DEF FirstStep
<1> QED
  BY <1>1, <1>2, <1>3, <1>4 DEF Begin

LEMMA BeginWork ==
    ASSUME TypeOK, OwnersWork, NEW t \in Tx, Begin(t) \/ \E a \in Tx : BeginRelease(t, a)
    PROVE  OwnersWork'
<1>1. FirstStep(t)
  BY BeginIsFirst
<1>2. \A u \in Tx : u # t => job'[u] = job[u]
  BY <1>1 DEF FirstStep, TypeOK
<1> QED
  BY <1>1, <1>2, UnlockWork, FreeWork DEF FirstStep

LEMMA StepWork ==
    ASSUME TypeOK, OwnersWork, NEW t \in Tx, Step(t)
    PROVE  OwnersWork'
<1>1. UNCHANGED job
  BY DEF Step, AcquireHostLock, EnsureHostAllocatable, ResolveCandidate,
         CommitAllocation, CommitRelease, InsertReservation, CommitIngest,
         CommitDecommission
<1>2. CASE AcquireHostLock(t)
  <2>1. /\ lock' = [lock EXCEPT ![job[t].host] = t] /\ pc' = [pc EXCEPT ![t] = "locked"]
        /\ pc[t] = "wait"
    BY <1>2 DEF AcquireHostLock, Goto
  <2> QED
    BY <1>1, <2>1, NoTxAssumption DEF TypeOK, OwnersWork
<1>3. CASE EnsureHostAllocatable(t) \/ ResolveCandidate(t)
  <2>1. \/ \E code : Answer(t, code)
        \/ /\ UNCHANGED lock /\ pc[t] \in {"locked", "resolve"}
           /\ Goto(t, "resolve") \/ UNCHANGED pc
    BY <1>3 DEF EnsureHostAllocatable, ResolveCandidate
  <2>2. CASE \E code : Answer(t, code)
    BY <1>1, <2>2, UnlockWork DEF Answer
  <2>3. CASE /\ UNCHANGED lock /\ pc[t] \in {"locked", "resolve"}
             /\ Goto(t, "resolve") \/ UNCHANGED pc
    BY <1>1, <2>3 DEF Goto, TypeOK, OwnersWork
  <2> QED
    BY <2>1, <2>2, <2>3
<1>4. CASE CommitAllocation(t) \/ CommitRelease(t) \/ CommitIngest(t)
  <2>1. \E code : Goto(t, code) /\ Unlock(t)
    BY <1>4 DEF CommitAllocation, CommitRelease, CommitIngest, Answer
  <2> QED
    BY <1>1, <2>1, UnlockWork
<1>5. CASE InsertReservation(t) \/ CommitDecommission(t)
  <2>1. /\ pc[t] \in {"insert", "release"}
        /\ \E code : Goto(t, code) /\ (Unlock(t) \/ UNCHANGED lock)
    BY <1>5 DEF InsertReservation, CommitDecommission, Answer
  <2> QED
    BY <1>1, <2>1, UnlockWork, FreeWork
<1> QED
  BY <1>2, <1>3, <1>4, <1>5 DEF Step

(* No way a request can end leaves its host locked (host_lock.py).         *)
THEOREM NoLockIsLeaked == Spec => []LocksHaveWorkers
<1>1. Init => OwnersWork
  BY DEF Init, OwnersWork
<1>2. ASSUME TypeOK, OwnersWork, [Next]_vars
      PROVE  OwnersWork'
  <2>1. CASE \E t \in Tx : Begin(t) \/ Step(t) \/ \E a \in Tx : BeginRelease(t, a)
    BY <1>2, <2>1, BeginWork, StepWork
  <2>2. CASE UNCHANGED <<lock, pc, job>>
    BY <1>2, <2>2 DEF OwnersWork
  <2> QED
    BY <1>2, <2>1, <2>2 DEF Next, vars, DeleteReservation, ReactivateHost,
                            RemoveHostRecord, EnrollHost
<1>3. OwnersWork => LocksHaveWorkers
  BY DEF OwnersWork, LocksHaveWorkers, Final
<1> QED
  BY <1>1, <1>2, <1>3, TypeCorrect, PTL DEF Spec

-----------------------------------------------------------------------------
(* What a transaction keeps to itself.                                     *)

(* A step of t leaves the local state of the other transactions alone.     *)
OthersStay(t) ==
    \A u \in Tx : u # t =>
        /\ pc'[u] = pc[u]
        /\ job'[u] = job[u]
        /\ todo'[u] = todo[u]
        /\ claimed'[u] = claimed[u]
        /\ seen'[u] = seen[u]

LEMMA AnswerStays ==
    ASSUME TypeOK, NEW t \in Tx, NEW code, Answer(t, code),
           \/ UNCHANGED job
           \/ \E j : job' = [job EXCEPT ![t] = j]
    PROVE  OthersStay(t)
BY DEF Answer, Goto, OthersStay, TypeOK

LEMMA BeginStays ==
    ASSUME TypeOK, NEW t \in Tx, Begin(t) \/ \E a \in Tx : BeginRelease(t, a)
    PROVE  OthersStay(t) /\ pc[t] = "idle"
<1>1. ASSUME NEW h \in Host, NEW rid, NEW items, BeginAllocation(t, h, rid, items)
      PROVE  OthersStay(t) /\ pc[t] = "idle"
  <2>1. pc[t] = "idle" /\ \E j : job' = [job EXCEPT ![t] = j]
    BY <1>1 DEF BeginAllocation
  <2>2. CASE \E code : Answer(t, code)
    BY <2>1, <2>2, AnswerStays
  <2>3. CASE /\ Goto(t, "wait")
             /\ todo' = [todo EXCEPT ![t] = items]
             /\ UNCHANGED <<claimed, seen>>
    BY <2>1, <2>3 DEF Goto, OthersStay, TypeOK
  <2> QED
    BY <1>1, <2>2, <2>3, <2>1 DEF BeginAllocation
<1>2. ASSUME NEW h \in Host, NEW p, NEW ad, NEW local,
             BeginReservation(t, h, p, ad, local)
      PROVE  OthersStay(t) /\ pc[t] = "idle"
  <2>1. pc[t] = "idle" /\ \E j : job' = [job EXCEPT ![t] = j]
    BY <1>2 DEF BeginReservation
  <2>2. CASE \E code : Answer(t, code)
    BY <2>1, <2>2, AnswerStays
  <2>3. CASE Goto(t, "insert") /\ UNCHANGED <<todo, claimed, seen>>
    BY <2>1, <2>3 DEF Goto, OthersStay, TypeOK
  <2> QED
    BY <1>2, <2>2, <2>3, <2>1 DEF BeginReservation
<1>3. ASSUME NEW h \in Host, BeginIngest(t, h)
      PROVE  OthersStay(t) /\ pc[t] = "idle"
  BY <1>3 DEF BeginIngest, Goto, OthersStay, TypeOK
<1>4. ASSUME NEW h \in Host, BeginDecommission(t, h)
      PROVE  OthersStay(t) /\ pc[t] = "idle"
  <2>1. pc[t] = "idle" /\ \E j : job' = [job EXCEPT ![t] = j]
    BY <1>4 DEF BeginDecommission
  <2>2. CASE \E code : Answer(t, code)
    BY <2>1, <2>2, AnswerStays
  <2>3. CASE /\ seen' = [seen EXCEPT ![t] = ActiveAllocations(h)]
             /\ Goto(t, "release") /\ UNCHANGED <<todo, claimed>>
    BY <2>1, <2>3 DEF Goto, OthersStay, TypeOK
  <2> QED
    BY <1>4, <2>2, <2>3, <2>1 DEF BeginDecommission
<1>5. ASSUME NEW a \in Tx, BeginRelease(t, a)
      PROVE  OthersStay(t) /\ pc[t] = "idle"
  <2>1. pc[t] = "idle" /\ \E j : job' = [job EXCEPT ![t] = j]
    BY <1>5 DEF BeginRelease
  <2>2. CASE \E code : Answer(t, code)
    BY <2>1, <2>2, AnswerStays
  <2>3. CASE Goto(t, "wait") /\ UNCHANGED <<todo, claimed, seen>>
    BY <2>1, <2>3 DEF Goto, OthersStay, TypeOK
  <2> QED
    BY <1>5, <2>2, <2>3, <2>1 DEF BeginRelease
<1> QED
  BY <1>1, <1>2, <1>3, <1>4, <1>5 DEF Begin

LEMMA StepStays ==
    ASSUME TypeOK, NEW t \in Tx, Step(t)
    PROVE  OthersStay(t) /\ pc[t] \notin Final \cup {"idle"} /\ UNCHANGED job
<1>1. UNCHANGED job
  BY DEF Step, AcquireHostLock, EnsureHostAllocatable, ResolveCandidate,
         CommitAllocation, CommitRelease, InsertReservation, CommitIngest,
         CommitDecommission
<1>2. pc[t] \notin Final \cup {"idle"}
  BY DEF Step, AcquireHostLock, EnsureHostAllocatable, ResolveCandidate,
         CommitAllocation, CommitRelease, InsertReservation, CommitIngest,
         CommitDecommission, Final
<1>3. CASE \E code : Answer(t, code)
  BY <1>1, <1>2, <1>3, AnswerStays
<1>4. CASE /\ \E label : Goto(t, label)
           /\ UNCHANGED <<todo, claimed, seen>>
  BY <1>1, <1>2, <1>4 DEF Goto, OthersStay, TypeOK
<1>5. CASE /\ \E p : claimed' = [claimed EXCEPT ![t] = @ \cup {p}]
           /\ todo' = [todo EXCEPT ![t] = Tail(@)]
           /\ UNCHANGED <<pc, seen>>
  BY <1>1, <1>2, <1>5 DEF OthersStay, TypeOK
<1>6. \/ \E code : Answer(t, code)
      \/ (\E label : Goto(t, label)) /\ UNCHANGED <<todo, claimed, seen>>
      \/ /\ \E p : claimed' = [claimed EXCEPT ![t] = @ \cup {p}]
         /\ todo' = [todo EXCEPT ![t] = Tail(@)]
         /\ UNCHANGED <<pc, seen>>
  BY DEF Step, AcquireHostLock, EnsureHostAllocatable, ResolveCandidate,
         CommitAllocation, CommitRelease, InsertReservation, CommitIngest,
         CommitDecommission
<1> QED
  BY <1>1, <1>2, <1>3, <1>4, <1>5, <1>6

(* A transaction that has ended makes no further step.                     *)
LEMMA EndedStays ==
    ASSUME TypeOK, [Next]_vars, NEW u \in Tx, pc[u] \in Final
    PROVE  pc'[u] \in Final
<1>1. CASE \E t \in Tx : Begin(t) \/ Step(t) \/ \E a \in Tx : BeginRelease(t, a)
  BY <1>1, BeginStays, StepStays DEF OthersStay, Final
<1>2. CASE UNCHANGED pc
  BY <1>2
<1> QED
  BY <1>1, <1>2 DEF Next, vars, DeleteReservation, ReactivateHost,
                    RemoveHostRecord, EnrollHost

-----------------------------------------------------------------------------
(* All or nothing.                                                         *)

(* A request that has not ended has no allocation row and no bundle row.   *)
Uncommitted ==
    \A t \in Tx : pc[t] \notin Final =>
        alloc[t].status = "none" /\ \A r \in resv : r.alloc # t

(* While a bundle is resolved, the items that are no longer to do are as   *)
(* many as the ports claimed: no port serves two items.                    *)
ItemsResolved ==
    \A t \in Tx :
        /\ pc[t] \in {"wait", "locked"} /\ job[t].op = "allocate"
             => todo[t] = job[t].items
        /\ pc[t] = "resolve"
             => /\ IsFiniteSet(claimed[t])
                /\ Cardinality(claimed[t]) + Len(todo[t]) = Len(job[t].items)

LEMMA UncommittedStep ==
    ASSUME IInv, Uncommitted, [Next]_vars
    PROVE  Uncommitted'
<1> USE DEF IInv
<1>1. \A u \in Tx : pc'[u] \notin Final => pc[u] \notin Final
  BY EndedStays
<1>2. CASE \A t \in Tx : ~CommitAllocation(t)
  <2>1. KeepsAllocations /\ AddsNoBundleRow
    BY <1>2, OtherSteps
  <2>2. alloc' \in [Tx -> AllocationRow]
    BY NextInv DEF TypeOK
  <2> QED
    BY <1>1, <2>1, <2>2, NoTxAssumption
       DEF Uncommitted, KeepsAllocations, AddsNoBundleRow
<1>3. ASSUME NEW t \in Tx, CommitAllocation(t)
      PROVE  Uncommitted'
  <2>1. pc'[t] \in Final
    BY <1>3 DEF CommitAllocation, Answer, Goto, Final, TypeOK
  <2>2. \A u \in Tx : u # t => alloc'[u] = alloc[u]
    BY <1>3 DEF CommitAllocation, Answer, TypeOK
  <2>3. \A r \in resv' \ resv : r.alloc = t
    BY <1>3 DEF CommitAllocation, Answer, BundleRows
  <2> QED
    BY <1>1, <2>1, <2>2, <2>3 DEF Uncommitted
<1> QED
  BY <1>2, <1>3

(* One transaction's part of ItemsResolved, in this state and the next.    *)
LEMMA ItemsOfOthers ==
    ASSUME TypeOK, ItemsResolved, NEW t \in Tx, OthersStay(t), NEW u \in Tx, u # t
    PROVE  /\ pc'[u] \in {"wait", "locked"} /\ job'[u].op = "allocate"
                => todo'[u] = job'[u].items
           /\ pc'[u] = "resolve"
                => /\ IsFiniteSet(claimed'[u])
                   /\ Cardinality(claimed'[u]) + Len(todo'[u]) = Len(job'[u].items)
BY DEF OthersStay, ItemsResolved

(* Where the first step of a request leads.                                *)
LEMMA BeginLeads ==
    ASSUME TypeOK, NEW t \in Tx, Begin(t) \/ \E a \in Tx : BeginRelease(t, a)
    PROVE  pc'[t] \in Final \cup {"wait", "insert", "release"}
<1>1. \E code \in Final \cup {"wait", "insert", "release"} : Goto(t, code)
  <2>1. ASSUME NEW h, NEW rid, NEW items, BeginAllocation(t, h, rid, items)
        PROVE  \E code \in Final \cup {"wait"} : Goto(t, code)
    BY <2>1 DEF BeginAllocation, Answer, Final
  <2>2. ASSUME NEW h, NEW p, NEW ad, NEW local,
               BeginReservation(t, h, p, ad, local)
        PROVE  \E code \in Final \cup {"insert"} : Goto(t, code)
    BY <2>2 DEF BeginReservation, Answer, Final
  <2>3. ASSUME NEW h, BeginIngest(t, h) \/ BeginDecommission(t, h)
        PROVE  \E code \in Final \cup {"wait", "release"} : Goto(t, code)
    BY <2>3 DEF BeginIngest, BeginDecommission, Answer, Final
  <2>4. ASSUME NEW a, BeginRelease(t, a)
        PROVE  \E code \in Final \cup {"wait"} : Goto(t, code)
    BY <2>4 DEF BeginRelease, Answer, Final
  <2> QED
    BY <2>1, <2>2, <2>3, <2>4 DEF Begin
<1> QED
  BY <1>1 DEF Goto, TypeOK, Final

LEMMA ItemsResolvedBegin ==
    ASSUME TypeOK, ItemsResolved, NEW t \in Tx,
           Begin(t) \/ \E a \in Tx : BeginRelease(t, a)
    PROVE  ItemsResolved'
<1>1. OthersStay(t)
  BY BeginStays
<1>2. pc'[t] # "resolve" /\ pc'[t] # "locked"
  BY BeginLeads DEF Final
<1>3. pc'[t] = "wait" /\ job'[t].op = "allocate" => todo'[t] = job'[t].items
  <2>1. ASSUME NEW h \in Host, NEW rid \in RequestId \cup {NoId}, NEW items \in Bundle,
               BeginAllocation(t, h, rid, items), pc'[t] = "wait"
        PROVE  todo'[t] = job'[t].items
    <3>1. job'[t].items = items
      BY <2>1 DEF BeginAllocation, TypeOK, NoJob
    <3>2. todo'[t] = items
      BY <2>1 DEF BeginAllocation, TypeOK, Answer, Goto
    <3> QED
      BY <3>1, <3>2
  <2>2. ASSUME NEW h \in Host, NEW p, NEW ad, NEW local,
             BeginReservation(t, h, p, ad, local)
        PROVE  job'[t].op # "allocate"
    BY <2>2 DEF BeginReservation, TypeOK, NoJob
  <2>3. ASSUME NEW h \in Host, BeginIngest(t, h) \/ BeginDecommission(t, h)
        PROVE  job'[t].op # "allocate"
    BY <2>3 DEF BeginIngest, BeginDecommission, TypeOK, NoJob
  <2>4. ASSUME NEW a \in Tx, BeginRelease(t, a)
        PROVE  job'[t].op # "allocate"
    BY <2>4 DEF BeginRelease, TypeOK, NoJob
  <2> QED
    BY <2>1, <2>2, <2>3, <2>4 DEF Begin
<1> QED
  BY <1>1, <1>2, <1>3, ItemsOfOthers DEF ItemsResolved

LEMMA ItemsResolvedStep ==
    ASSUME IInv, ItemsResolved, NEW t \in Tx, Step(t)
    PROVE  ItemsResolved'
<1> USE DEF IInv
<1>1. OthersStay(t) /\ UNCHANGED job
  BY StepStays
<1> DEFINE Mine ==
        /\ pc'[t] \in {"wait", "locked"} /\ job'[t].op = "allocate"
             => todo'[t] = job'[t].items
        /\ pc'[t] = "resolve"
             => /\ IsFiniteSet(claimed'[t])
                /\ Cardinality(claimed'[t]) + Len(todo'[t]) = Len(job'[t].items)
<1>2. ASSUME pc'[t] \in Final \cup {"insert", "release"}
      PROVE  Mine
  BY <1>2 DEF Final
<1>3. ASSUME AcquireHostLock(t)
      PROVE  Mine
  BY <1>1, <1>3 DEF AcquireHostLock, Goto, TypeOK, ItemsResolved
<1>4. ASSUME EnsureHostAllocatable(t) /\ pc'[t] \notin Final
      PROVE  Mine
  <2>1. /\ pc[t] = "locked" /\ job[t].op = "allocate"
        /\ pc'[t] = "resolve" /\ UNCHANGED <<todo, claimed>>
    BY <1>4 DEF EnsureHostAllocatable, Answer, Goto, TypeOK, Final
  <2>2. todo[t] = job[t].items /\ claimed[t] = {}
    BY <2>1 DEF ItemsResolved, NothingClaimedYet
  <2>3. Len(todo[t]) \in Nat
    BY DEF TypeOK
  <2> QED
    BY <1>1, <2>1, <2>2, <2>3, FS_EmptySet
<1>5. ASSUME ResolveCandidate(t) /\ pc'[t] \notin Final
      PROVE  Mine
  <2>1. PICK p \in FreePorts(t) :
           /\ claimed' = [claimed EXCEPT ![t] = @ \cup {p}]
           /\ todo' = [todo EXCEPT ![t] = Tail(@)]
           /\ UNCHANGED pc
    BY <1>5, ResolutionsAreFree DEF ResolveCandidate, Answer, Goto, TypeOK, Final
  <2>2. p \notin claimed[t]
    BY DEF FreePorts
  <2>3. pc[t] = "resolve" /\ todo[t] # << >>
    BY <1>5 DEF ResolveCandidate
  <2>4. /\ IsFiniteSet(claimed[t])
        /\ Cardinality(claimed[t]) + Len(todo[t]) = Len(job[t].items)
    BY <2>3 DEF ItemsResolved
  <2>5. /\ IsFiniteSet(claimed[t] \cup {p})
        /\ Cardinality(claimed[t] \cup {p}) = Cardinality(claimed[t]) + 1
    BY <2>2, <2>4, FS_AddElement
  <2>6. Len(Tail(todo[t])) = Len(todo[t]) - 1 /\ Len(todo[t]) \in Nat
    BY <2>3 DEF TypeOK
  <2>7. claimed'[t] = claimed[t] \cup {p} /\ todo'[t] = Tail(todo[t])
    BY <2>1 DEF TypeOK
  <2>8. Cardinality(claimed[t]) \in Nat
    BY <2>4, FS_CardinalityType
  <2>9. Cardinality(claimed[t] \cup {p}) + Len(Tail(todo[t])) = Len(job[t].items)
    BY <2>4, <2>5, <2>6, <2>8
  <2> QED
    BY <1>1, <2>1, <2>3, <2>5, <2>7, <2>9
<1>6. pc'[t] \in Final \cup {"insert", "release"} \/ AcquireHostLock(t)
        \/ EnsureHostAllocatable(t) \/ ResolveCandidate(t)
  BY DEF Step, CommitAllocation, CommitRelease, InsertReservation, CommitIngest,
         CommitDecommission, Answer, Goto, TypeOK, Final
<1>7. Mine
  BY <1>2, <1>3, <1>4, <1>5, <1>6
<1> QED
  BY <1>1, <1>7, ItemsOfOthers DEF ItemsResolved

LEMMA AllOrNothingInit == Init => Uncommitted /\ ItemsResolved
BY DEF Init, Uncommitted, ItemsResolved, NoAllocation

LEMMA AllOrNothingNext ==
    ASSUME IInv, Uncommitted, ItemsResolved, [Next]_vars
    PROVE  Uncommitted' /\ ItemsResolved'
<1>1. ASSUME \E t \in Tx : Begin(t) \/ Step(t) \/ \E a \in Tx : BeginRelease(t, a)
      PROVE  ItemsResolved'
  BY <1>1, ItemsResolvedBegin, ItemsResolvedStep DEF IInv
<1>2. ASSUME UNCHANGED <<pc, job, todo, claimed>>
      PROVE  ItemsResolved'
  BY <1>2 DEF ItemsResolved
<1>3. ItemsResolved'
  BY <1>1, <1>2 DEF Next, vars, DeleteReservation, ReactivateHost,
                    RemoveHostRecord, EnrollHost
<1> QED
  BY <1>3, UncommittedStep

(* The inductive invariant behind both theorems below.                     *)
BundleInv == IInv /\ Uncommitted /\ ItemsResolved

LEMMA BundleInvariance == Spec => []BundleInv
<1>1. Init => BundleInv
  BY InitInv, AllOrNothingInit DEF BundleInv
<1>2. BundleInv /\ [Next]_vars => BundleInv'
  BY NextInv, AllOrNothingNext DEF BundleInv
<1> QED
  BY <1>1, <1>2, PTL DEF Spec

(* The committed rows are as many as the ports claimed.                    *)
LEMMA BundleRowsCounted ==
    ASSUME NEW t \in Tx, IsFiniteSet(claimed[t])
    PROVE  /\ IsFiniteSet(BundleRows(t))
           /\ Cardinality(BundleRows(t)) = Cardinality(claimed[t])
<1> DEFINE row(p) == [tx |-> t, host |-> job[t].host, port |-> p, addr |-> NoAddr,
                      alloc |-> t, local |-> NoLocal]
           f == [p \in claimed[t] |-> row(p)]
<1>1. f \in Bijection(claimed[t], BundleRows(t))
  <2>1. f \in [claimed[t] -> BundleRows(t)]
    BY DEF BundleRows
  <2>2. \A p, q \in claimed[t] : f[p] = f[q] => p = q
    <3>1. \A p, q \in claimed[t] : row(p) = row(q) => row(p).port = row(q).port
      OBVIOUS
    <3> QED
      BY <3>1
  <2>3. \A r \in BundleRows(t) : \E p \in claimed[t] : f[p] = r
    BY DEF BundleRows
  <2> QED
    BY <2>1, <2>2, <2>3 DEF Bijection, Injection, Surjection, IsInjective
<1> QED
  BY <1>1, FS_Bijection DEF ExistsBijection

(* "ALL SUCCESS or NO RESERVATIONS" of create_allocation: whatever happens *)
(* in between, the rows of a bundle appear in one step, one per item.      *)
THEOREM AllocationIsAtomic == Spec => BundleAllOrNothing
<1> DEFINE A == \A a \in Tx :
                  \/ RowsOfAllocation(a)' \subseteq RowsOfAllocation(a)
                  \/ /\ alloc[a].status = "none"
                     /\ alloc'[a].status = "active"
                     /\ Cardinality(RowsOfAllocation(a)') = Len(alloc'[a].items)
<1>1. ASSUME BundleInv, [Next]_vars
      PROVE  [A]_vars
  <2> USE DEF BundleInv, IInv
  <2>1. CASE \A t \in Tx : ~CommitAllocation(t)
    <3>1. AddsNoBundleRow
      BY <1>1, <2>1, OtherSteps
    <3> QED
      BY <1>1, <3>1, NoTxAssumption DEF AddsNoBundleRow, RowsOfAllocation
  <2>2. ASSUME NEW t \in Tx, CommitAllocation(t)
        PROVE  A
    <3>1. CASE resv' = resv
      BY <3>1 DEF RowsOfAllocation
    <3>2. CASE resv' # resv
      <4>1. /\ pc[t] = "resolve" /\ todo[t] = << >>
            /\ resv' = resv \cup BundleRows(t)
            /\ alloc' = [alloc EXCEPT ![t] = [status |-> "active",
                                              host |-> job[t].host,
                                              rid |-> job[t].rid,
                                              items |-> job[t].items]]
        BY <2>2, <3>2 DEF CommitAllocation, Answer
      <4>2. alloc[t].status = "none" /\ \A r \in resv : r.alloc # t
        BY <1>1, <4>1 DEF Uncommitted, Final
      <4>3. RowsOfAllocation(t)' = BundleRows(t)
        BY <4>1, <4>2 DEF RowsOfAllocation, BundleRows
      <4>4. Cardinality(BundleRows(t)) = Len(job[t].items)
        <5>1. /\ IsFiniteSet(claimed[t])
              /\ Cardinality(claimed[t]) + Len(todo[t]) = Len(job[t].items)
          BY <1>1, <4>1 DEF ItemsResolved
        <5> QED
          BY <4>1, <5>1, BundleRowsCounted, FS_CardinalityType
      <4>5. alloc'[t].status = "active" /\ alloc'[t].items = job[t].items
        BY <1>1, <4>1 DEF TypeOK
      <4>6. \A a \in Tx : a # t => RowsOfAllocation(a)' \subseteq RowsOfAllocation(a)
        BY <4>1 DEF RowsOfAllocation, BundleRows
      <4> QED
        BY <4>2, <4>3, <4>4, <4>5, <4>6
    <3> QED
      BY <3>1, <3>2
  <2> QED
    BY <2>1, <2>2
<1> QED
  BY <1>1, BundleInvariance, PTL DEF Spec, BundleAllOrNothing

-----------------------------------------------------------------------------
(* Released allocations.                                                   *)

(* Every host has at most ReleaseLimit reservation rows: what the listing  *)
(* of a release (reservation_repo.list, limit 1000) takes for granted.     *)
RowsWithinLimit == \A h \in Host : Cardinality(RowsOf(h)) <= ReleaseLimit

(* Rows a transaction is about to release: their allocations have been     *)
(* committed (so a purged one never comes back), and belong to the host    *)
(* whose reservations will be listed.                                      *)
TargetsCommitted ==
    \A t \in Tx :
        /\ pc[t] \in {"wait", "locked"} /\ job[t].op = "release"
             => /\ job[t].target \in Tx
                /\ pc[job[t].target] \in Final
                /\ \/ alloc[job[t].target].status = "none"
                   \/ alloc[job[t].target].host = job[t].host
        /\ pc[t] = "release"
             => \A a \in seen[t] :
                   /\ pc[a] \in Final
                   /\ alloc[a].status = "none" \/ alloc[a].host = job[t].host

(* A bundle's row belongs to an active allocation of the same host.        *)
RowsHaveOwners ==
    \A r \in resv : r.alloc # NoTx =>
        alloc[r.alloc].status = "active" /\ alloc[r.alloc].host = r.host

FiniteTable == IsFiniteSet(resv)

(* Within the limit the listing is complete.                               *)
LEMMA ListedIsComplete ==
    ASSUME FiniteTable, RowsWithinLimit, NEW h \in Host, NEW rows \in Listed(h)
    PROVE  rows = RowsOf(h)
<1>1. IsFiniteSet(RowsOf(h))
  BY FS_Subset DEF FiniteTable, RowsOf
<1>2. Cardinality(RowsOf(h)) \in Nat /\ Cardinality(RowsOf(h)) <= ReleaseLimit
  BY <1>1, FS_CardinalityType DEF RowsWithinLimit
<1> DEFINE n == Cardinality(RowsOf(h))
           pair == {ReleaseLimit, n}
<1>3. Min(pair) = n
  <2> HIDE DEF n
  <2>1. n \in Nat /\ n <= ReleaseLimit /\ ReleaseLimit \in Nat
    BY <1>2, LimitAssumption DEF n
  <2>2. n \in pair /\ \A y \in pair : n <= y
    BY <2>1
  <2>3. \A x \in pair : (\A y \in pair : x <= y) => x = n
    BY <2>1
  <2> QED
    BY <2>2, <2>3 DEF Min
<1>4. rows \subseteq RowsOf(h) /\ Cardinality(rows) = Cardinality(RowsOf(h))
  BY <1>3 DEF Listed
<1> QED
  BY <1>1, <1>4, FS_Subset

LEMMA FiniteTableStep ==
    ASSUME BundleInv, FiniteTable, [Next]_vars
    PROVE  FiniteTable'
<1>1. CASE resv' \subseteq resv
  BY <1>1, FS_Subset DEF FiniteTable
<1>2. ASSUME NEW t \in Tx, CommitAllocation(t)
      PROVE  FiniteTable'
  <2>1. resv' = resv \/ resv' = resv \cup BundleRows(t)
    BY <1>2 DEF CommitAllocation, Answer
  <2>2. IsFiniteSet(BundleRows(t))
    BY <1>2, BundleRowsCounted DEF CommitAllocation, BundleInv, ItemsResolved
  <2> QED
    BY <2>1, <2>2, FS_Union DEF FiniteTable
<1>3. ASSUME NEW t \in Tx, InsertReservation(t)
      PROVE  FiniteTable'
  <2>1. resv' = resv \/ resv' = resv \cup {ReservationRow(t)}
    BY <1>3 DEF InsertReservation, Answer
  <2> QED
    BY <2>1, FS_AddElement DEF FiniteTable
<1>4. ASSUME NEW t \in Tx, Begin(t) \/ \E a \in Tx : BeginRelease(t, a)
      PROVE  resv' = resv
  BY <1>4, BeginKeepsTables
<1>5. ASSUME NEW t \in Tx, Step(t), ~CommitAllocation(t), ~InsertReservation(t)
      PROVE  resv' \subseteq resv
  BY <1>5 DEF Step, AcquireHostLock, EnsureHostAllocatable, ResolveCandidate,
     CommitRelease, CommitIngest, CommitDecommission, Answer
<1>6. ASSUME \/ \E r \in resv : DeleteReservation(r)
             \/ \E h \in Host : ReactivateHost(h) \/ RemoveHostRecord(h) \/ EnrollHost(h)
             \/ UNCHANGED vars
      PROVE  resv' \subseteq resv
  BY <1>6 DEF DeleteReservation, ReactivateHost, RemoveHostRecord, EnrollHost, vars
<1> QED
  BY <1>1, <1>2, <1>3, <1>4, <1>5, <1>6 DEF Next

(* An allocation that has been committed keeps its host until it is purged.*)
LEMMA CommittedKeepsHost ==
    ASSUME BundleInv, [Next]_vars, NEW a \in Tx, pc[a] \in Final,
           NEW h, alloc[a].status = "none" \/ alloc[a].host = h
    PROVE  alloc'[a].status = "none" \/ alloc'[a].host = h
<1> USE DEF BundleInv, IInv
<1>1. CASE \A t \in Tx : ~CommitAllocation(t)
  <2>1. alloc'[a].status # "none" => alloc[a].status # "none"
    BY <1>1, OtherSteps DEF KeepsAllocations
  <2>2. alloc'[a].status # "none" => alloc'[a].host = alloc[a].host
    <3>0. \A row \in AllocationRow : [row EXCEPT !.status = "released"].host = row.host
      BY DEF AllocationRow
    <3>1. ASSUME NEW t \in Tx, Begin(t) \/ \E b \in Tx : BeginRelease(t, b)
          PROVE  alloc' = alloc
      BY <3>1, BeginKeepsTables
    <3>2. ASSUME NEW t \in Tx, Step(t), ~CommitRelease(t), ~CommitDecommission(t)
          PROVE  alloc' = alloc
      BY <1>1, <3>2 DEF Step, AcquireHostLock, EnsureHostAllocatable,
         ResolveCandidate, InsertReservation, CommitIngest, Answer
    <3>3. ASSUME NEW t \in Tx, CommitRelease(t)
          PROVE  alloc'[a].host = alloc[a].host
      <4>1. \/ alloc' = alloc
            \/ alloc' = [alloc EXCEPT ![job[t].target].status = "released"]
        BY <3>3 DEF CommitRelease, Answer
      <4>2. \/ alloc'[a] = alloc[a]
            \/ alloc'[a] = [alloc[a] EXCEPT !.status = "released"]
        BY <4>1 DEF TypeOK
      <4> QED
        BY <3>0, <4>2 DEF TypeOK
    <3>4. ASSUME NEW t \in Tx, CommitDecommission(t)
          PROVE  alloc'[a].host = alloc[a].host
      <4>1. \/ alloc' = alloc
            \/ alloc' = [b \in Tx |-> IF b \in seen[t]
                                      THEN [alloc[b] EXCEPT !.status = "released"]
                                      ELSE alloc[b]]
        BY <3>4 DEF CommitDecommission, Answer
      <4> QED
        BY <3>0, <4>1 DEF TypeOK
    <3>5. ASSUME NEW k \in Host, RemoveHostRecord(k), alloc'[a].status # "none"
          PROVE  alloc'[a].host = alloc[a].host
      BY <3>5 DEF RemoveHostRecord, NoAllocation
    <3>6. ASSUME \/ \E r \in resv : DeleteReservation(r)
                 \/ \E k \in Host : ReactivateHost(k) \/ EnrollHost(k)
                 \/ UNCHANGED vars
          PROVE  alloc' = alloc
      BY <3>6 DEF DeleteReservation, ReactivateHost, EnrollHost, vars
    <3> QED
      BY <3>1, <3>2, <3>3, <3>4, <3>5, <3>6 DEF Next
  <2> QED
    BY <2>1, <2>2
<1>2. ASSUME NEW t \in Tx, CommitAllocation(t)
      PROVE  alloc'[a] = alloc[a]
  <2>1. t # a
    BY <1>2 DEF CommitAllocation, Final
  <2> QED
    BY <1>2, <2>1 DEF CommitAllocation, Answer, TypeOK
<1> QED
  BY <1>1, <1>2

LEMMA ActiveIsCommitted ==
    ASSUME Uncommitted, NEW a \in Tx, alloc[a].status # "none"
    PROVE  pc[a] \in Final
BY DEF Uncommitted

LEMMA TargetsCommittedStep ==
    ASSUME BundleInv, TargetsCommitted, [Next]_vars
    PROVE  TargetsCommitted'
<1> USE DEF BundleInv, IInv
<1> DEFINE Safe(a, h) == /\ pc[a] \in Final
                         /\ alloc[a].status = "none" \/ alloc[a].host = h
           Targets(t) == /\ pc[t] \in {"wait", "locked"} /\ job[t].op = "release"
                              => job[t].target \in Tx /\ Safe(job[t].target, job[t].host)
                         /\ pc[t] = "release"
                              => \A a \in seen[t] : Safe(a, job[t].host)
<1>1. \A a \in Tx : \A h : Safe(a, h) => Safe(a, h)'
  BY CommittedKeepsHost, EndedStays
<1>2. \A t \in Tx : Targets(t)
  BY DEF TargetsCommitted
<1>3. (\A t \in Tx : Targets(t)') => TargetsCommitted'
  BY DEF TargetsCommitted
<1>4. \A t \in Tx : seen[t] \subseteq Tx
  BY DEF TypeOK
<1> HIDE DEF Safe
<1>5. ASSUME NEW t \in Tx,
             pc'[t] = pc[t] /\ job'[t] = job[t] /\ seen'[t] = seen[t]
      PROVE  Targets(t)'
  BY <1>1, <1>2, <1>4, <1>5
<1>6. ASSUME NEW t \in Tx, Begin(t) \/ \E a \in Tx : BeginRelease(t, a)
      PROVE  Targets(t)'
  <2>0. pc'[t] \in Final => Targets(t)'
    BY DEF Final
  <2>1. ASSUME NEW h \in Host, NEW rid, NEW items, BeginAllocation(t, h, rid, items)
        PROVE  Targets(t)'
    <3>1. job'[t].op = "allocate"
      BY <2>1 DEF BeginAllocation, TypeOK, NoJob
    <3>2. pc'[t] # "release"
      BY <2>1 DEF BeginAllocation, TypeOK, Answer, Goto
    <3> QED
      BY <3>1, <3>2
  <2>2. ASSUME NEW h \in Host, NEW p, NEW ad, NEW local,
             BeginReservation(t, h, p, ad, local)
        PROVE  Targets(t)'
    <3>1. job'[t].op = "reserve"
      BY <2>2 DEF BeginReservation, TypeOK, NoJob
    <3>2. pc'[t] # "release"
      BY <2>2 DEF BeginReservation, TypeOK, Answer, Goto
    <3> QED
      BY <3>1, <3>2
  <2>3. ASSUME NEW h \in Host, BeginIngest(t, h)
        PROVE  Targets(t)'
    BY <2>3 DEF BeginIngest, TypeOK, NoJob, Goto
  <2>4. ASSUME NEW h \in Host, BeginDecommission(t, h)
        PROVE  Targets(t)'
    <3>1. CASE \E code \in Final : Answer(t, code)
      BY <2>0, <3>1 DEF Answer, Goto, TypeOK
    <3>2. CASE /\ seen' = [seen EXCEPT ![t] = ActiveAllocations(h)]
               /\ Goto(t, "release")
               /\ UNCHANGED alloc
      <4>1. pc'[t] = "release" /\ seen'[t] = ActiveAllocations(h)
        BY <3>2 DEF Goto, TypeOK
      <4>2. job'[t].host = h
        BY <2>4 DEF BeginDecommission, TypeOK, NoJob
      <4>3. \A a \in ActiveAllocations(h) :
               a \in Tx /\ alloc[a].status # "none" /\ alloc[a].host = h
        BY DEF ActiveAllocations
      <4>4. \A a \in ActiveAllocations(h) : Safe(a, h)
        BY <4>3, ActiveIsCommitted DEF Safe
      <4> QED
        BY <1>1, <4>1, <4>2, <4>3, <4>4
    <3> QED
      BY <2>4, <3>1, <3>2 DEF BeginDecommission, Final
  <2>5. ASSUME NEW a \in Tx, BeginRelease(t, a)
        PROVE  Targets(t)'
    <3>1. CASE \E code \in Final : Answer(t, code)
      BY <2>0, <3>1 DEF Answer, Goto, TypeOK
    <3>2. CASE alloc[a].status = "active" /\ Goto(t, "wait")
      <4>1. pc'[t] = "wait" /\ job'[t].target = a /\ job'[t].host = alloc[a].host
        BY <2>5, <3>2 DEF BeginRelease, Goto, TypeOK, NoJob
      <4>2. Safe(a, alloc[a].host)
        BY <3>2, ActiveIsCommitted DEF Safe
      <4> QED
        BY <1>1, <4>1, <4>2
    <3> QED
      BY <2>5, <3>1, <3>2 DEF BeginRelease, Final
  <2> QED
    BY <1>6, <2>1, <2>2, <2>3, <2>4, <2>5 DEF Begin
<1>7. ASSUME NEW t \in Tx, Step(t)
      PROVE  Targets(t)'
  <2>1. CASE pc'[t] \in Final \cup {"resolve"}
    BY <2>1 DEF Final
  <2>2. CASE AcquireHostLock(t)
    <3>1. pc[t] = "wait" /\ pc'[t] = "locked" /\ job'[t] = job[t]
      BY <2>2 DEF AcquireHostLock, Goto, TypeOK
    <3> QED
      BY <1>1, <1>2, <3>1
  <2>3. pc'[t] \in Final \cup {"resolve"} \/ AcquireHostLock(t)
    BY <1>7 DEF Step, EnsureHostAllocatable, ResolveCandidate, CommitAllocation,
       CommitRelease, InsertReservation, CommitIngest, CommitDecommission,
       Answer, Goto, TypeOK, Final
  <2> QED
    BY <2>1, <2>2, <2>3
<1>8. CASE \E t \in Tx : Begin(t) \/ Step(t) \/ \E a \in Tx : BeginRelease(t, a)
  <2>1. PICK t \in Tx : Begin(t) \/ Step(t) \/ \E a \in Tx : BeginRelease(t, a)
    BY <1>8
  <2>2. OthersStay(t)
    BY <2>1, BeginStays, StepStays
  <2>3. \A u \in Tx : Targets(u)'
    BY <1>5, <1>6, <1>7, <2>1, <2>2 DEF OthersStay
  <2> QED
    BY <1>3, <2>3
<1>9. CASE UNCHANGED <<pc, job, seen>>
  BY <1>3, <1>5, <1>9
<1> QED
  BY <1>8, <1>9 DEF Next, vars, DeleteReservation, ReactivateHost,
                    RemoveHostRecord, EnrollHost

(* What release and decommission take away: all rows of the allocations    *)
(* they release.                                                           *)
LEMMA ReleasedRowsGo ==
    ASSUME BundleInv, FiniteTable, RowsWithinLimit, RowsHaveOwners,
           NEW h \in Host, NEW A \in SUBSET Tx, NEW rows \in Listed(h),
           \A a \in A : alloc[a].host = h,
           resv' = resv \ {r \in rows : r.alloc \in A}
    PROVE  \A r \in resv' : r.alloc \notin A
<1>1. rows = RowsOf(h)
  BY ListedIsComplete
<1>2. \A r \in resv : r.alloc \in A => r.host = h
  BY NoTxAssumption DEF RowsHaveOwners
<1> QED
  BY <1>1, <1>2 DEF RowsOf

LEMMA RowsHaveOwnersStep ==
    ASSUME BundleInv, FiniteTable, RowsWithinLimit, TargetsCommitted,
           RowsHaveOwners, [Next]_vars
    PROVE  RowsHaveOwners'
<1> USE DEF BundleInv, IInv
<1>0. \A r \in resv : r.alloc \in Tx \cup {NoTx} /\ r.host \in Host
  BY DEF TypeOK, Row
<1>1. ASSUME NEW t \in Tx, CommitAllocation(t)
      PROVE  RowsHaveOwners'
  <2>1. CASE UNCHANGED <<alloc, resv>>
    BY <2>1 DEF RowsHaveOwners
  <2>2. CASE /\ pc[t] = "resolve"
             /\ alloc' = [alloc EXCEPT ![t] = [status |-> "active",
                                               host |-> job[t].host,
                                               rid |-> job[t].rid,
                                               items |-> job[t].items]]
             /\ resv' = resv \cup BundleRows(t)
    <3>1. alloc'[t].status = "active" /\ alloc'[t].host = job[t].host
      BY <2>2 DEF TypeOK
    <3>2. \A a \in Tx : a # t => alloc'[a] = alloc[a]
      BY <2>2 DEF TypeOK
    <3>3. \A r \in resv : r.alloc # t
      BY <2>2 DEF Uncommitted, Final
    <3>4. \A r \in BundleRows(t) : r.alloc = t /\ r.host = job[t].host
      BY DEF BundleRows
    <3> QED
      BY <1>0, <2>2, <3>1, <3>2, <3>3, <3>4 DEF RowsHaveOwners
  <2> QED
    BY <1>1, <2>1, <2>2 DEF CommitAllocation, Answer
<1>2. ASSUME NEW t \in Tx, CommitRelease(t)
      PROVE  RowsHaveOwners'
  <2> DEFINE a == job[t].target
  <2>1. CASE UNCHANGED <<alloc, resv>>
    BY <2>1 DEF RowsHaveOwners
  <2>2. CASE ~UNCHANGED <<alloc, resv>>
    <3>1. PICK rows \in Listed(job[t].host) :
             /\ resv' = resv \ {r \in rows : r.alloc = a}
             /\ alloc' = [alloc EXCEPT ![a].status = "released"]
             /\ alloc[a].status # "none"
      BY <1>2, <2>2 DEF CommitRelease, Answer
    <3>2. a \in Tx /\ alloc[a].host = job[t].host
      BY <1>2, <3>1 DEF TargetsCommitted, CommitRelease
    <3>3. resv' = resv \ {r \in rows : r.alloc \in {a}}
      BY <3>1
    <3>4. job[t].host \in Host
      BY DEF TypeOK, Job
    <3>5. \A r \in resv' : r.alloc # a
      <4> HIDE DEF a
      <4>1. {a} \in SUBSET Tx /\ \A b \in {a} : alloc[b].host = job[t].host
        BY <3>2
      <4> QED
        BY <3>3, <3>4, <4>1, ReleasedRowsGo
    <3>6. \A b \in Tx : b # a => alloc'[b] = alloc[b]
      BY <3>1 DEF TypeOK
    <3> QED
      BY <1>0, <3>3, <3>5, <3>6 DEF RowsHaveOwners
  <2> QED
    BY <2>1, <2>2
<1>3. ASSUME NEW t \in Tx, CommitDecommission(t)
      PROVE  RowsHaveOwners'
  <2> DEFINE h == job[t].host
  <2>1. CASE UNCHANGED <<alloc, resv>>
    BY <2>1 DEF RowsHaveOwners
  <2>2. CASE ~UNCHANGED <<alloc, resv>>
    <3>1. PICK rows \in Listed(h) :
             /\ resv' = resv \ {r \in rows : r.alloc \in seen[t]}
             /\ alloc' = [b \in Tx |-> IF b \in seen[t]
                                       THEN [alloc[b] EXCEPT !.status = "released"]
                                       ELSE alloc[b]]
             /\ \A b \in seen[t] : alloc[b].status # "none"
      BY <1>3, <2>2 DEF CommitDecommission, Answer
    <3>2. \A b \in seen[t] : alloc[b].host = h
      BY <1>3, <3>1 DEF TargetsCommitted, CommitDecommission
    <3>3. h \in Host /\ seen[t] \in SUBSET Tx
      BY DEF TypeOK, Job
    <3>4. \A r \in resv' : r.alloc \notin seen[t]
      <4> HIDE DEF h
      <4> QED
        BY <3>1, <3>2, <3>3, ReleasedRowsGo
    <3>5. \A b \in Tx \ seen[t] : alloc'[b] = alloc[b]
      BY <3>1
    <3> QED
      BY <1>0, <3>1, <3>4, <3>5 DEF RowsHaveOwners
  <2> QED
    BY <2>1, <2>2
<1>4. ASSUME NEW h \in Host, RemoveHostRecord(h)
      PROVE  RowsHaveOwners'
  <2>1. \A r \in resv' : r \in resv /\ r.host # h
    BY <1>4 DEF RemoveHostRecord, RowsOf
  <2>2. \A a \in Tx : alloc[a].host # h => alloc'[a] = alloc[a]
    BY <1>4 DEF RemoveHostRecord
  <2> QED
    BY <1>0, <2>1, <2>2 DEF RowsHaveOwners
<1>5. ASSUME NEW t \in Tx, InsertReservation(t)
      PROVE  RowsHaveOwners'
  <2>1. alloc' = alloc /\ resv' \subseteq resv \cup {ReservationRow(t)}
    BY <1>5 DEF InsertReservation, Answer
  <2> QED
    BY <2>1 DEF RowsHaveOwners, ReservationRow
<1>6. ASSUME NEW r \in resv, DeleteReservation(r)
      PROVE  RowsHaveOwners'
  BY <1>6 DEF DeleteReservation, RowsHaveOwners
<1>7. CASE UNCHANGED <<alloc, resv>>
  BY <1>7 DEF RowsHaveOwners
<1>8. ASSUME NEW t \in Tx, Begin(t) \/ \E a \in Tx : BeginRelease(t, a)
      PROVE  UNCHANGED <<alloc, resv>>
  BY <1>8, BeginKeepsTables
<1>9. ASSUME NEW t \in Tx,
             AcquireHostLock(t) \/ EnsureHostAllocatable(t) \/ ResolveCandidate(t)
               \/ CommitIngest(t)
      PROVE  UNCHANGED <<alloc, resv>>
  BY <1>9 DEF AcquireHostLock, EnsureHostAllocatable, ResolveCandidate,
     CommitIngest, Answer
<1>10. ASSUME \E h \in Host : ReactivateHost(h) \/ EnrollHost(h)
       PROVE  UNCHANGED <<alloc, resv>>
  BY <1>10 DEF ReactivateHost, EnrollHost
<1> QED
  BY <1>1, <1>2, <1>3, <1>4, <1>5, <1>6, <1>7, <1>8, <1>9, <1>10
     DEF Next, Step, vars

(* As long as no host has more rows than one listing returns, a released   *)
(* allocation has given back every port, whatever raced with the release   *)
(* (release_allocation, and the host lifecycle's bulk release).            *)
THEOREM ReleaseIsComplete == Spec /\ []RowsWithinLimit => []ReleasedOwnsNothing
<1> DEFINE Inv == BundleInv /\ FiniteTable /\ TargetsCommitted /\ RowsHaveOwners
<1>1. Init => FiniteTable /\ TargetsCommitted /\ RowsHaveOwners
  BY FS_EmptySet DEF Init, FiniteTable, TargetsCommitted, RowsHaveOwners
<1>2. Init => BundleInv
  BY InitInv, AllOrNothingInit DEF BundleInv
<1>3. Inv /\ RowsWithinLimit /\ [Next]_vars => Inv'
  <2>1. BundleInv /\ [Next]_vars => BundleInv'
    BY NextInv, AllOrNothingNext DEF BundleInv
  <2> QED
    BY <2>1, FiniteTableStep, TargetsCommittedStep, RowsHaveOwnersStep
<1>4. Inv => ReleasedOwnsNothing
  BY NoTxAssumption DEF RowsHaveOwners, ReleasedOwnsNothing, RowsOfAllocation
<1> QED
  BY <1>1, <1>2, <1>3, <1>4, PTL DEF Spec

-----------------------------------------------------------------------------
(* The tables implement the ledger.                                        *)

(* f, a sequence of ports, serves the items of t that are resolved: each   *)
(* has a port of its own that it prefers or allows, and these are all the  *)
(* ports claimed.                                                          *)
Picked(t, f) ==
    LET items == job[t].items
    IN  /\ Len(f) + Len(todo[t]) = Len(items)
        /\ \A i \in 1..Len(todo[t]) : todo[t][i] = items[Len(f) + i]
        /\ claimed[t] = {f[i] : i \in 1..Len(f)}
        /\ \A i \in 1..Len(f) : f[i] \in items[i].range \cup {items[i].preferred}
        /\ \A i, j \in 1..Len(f) : f[i] = f[j] => i = j

PortsFit ==
    \A t \in Tx : pc[t] = "resolve" => \E f \in Seq(Port) : Picked(t, f)

(* A bundle's row refers to an allocation of its own host, active or not.  *)
RowsAtHome ==
    \A r \in resv : r.alloc # NoTx =>
        alloc[r.alloc].status # "none" /\ alloc[r.alloc].host = r.host

LEMMA ResolutionsFit ==
    ASSUME NEW t \in Tx, NEW item, NEW occupied
    PROVE  Resolutions(t, item, occupied) \subseteq item.range \cup {item.preferred}
BY DEF Resolutions, Candidates

(* One more item is resolved.                                              *)
LEMMA PickedNext ==
    ASSUME TypeOK, NEW t \in Tx, NEW f \in Seq(Port), Picked(t, f),
           todo[t] # << >>, NEW p \in Port, p \notin claimed[t],
           p \in Head(todo[t]).range \cup {Head(todo[t]).preferred},
           claimed'[t] = claimed[t] \cup {p}, todo'[t] = Tail(todo[t]),
           job'[t] = job[t]
    PROVE  Append(f, p) \in Seq(Port) /\ Picked(t, Append(f, p))'
<1> DEFINE items == job[t].items
           g == Append(f, p)
           n == Len(f)
<1>1. todo[t] \in Seq(Item) /\ items \in Seq(Item) /\ n \in Nat
  BY BundleAssumption DEF TypeOK, Job
<1>2. /\ g \in Seq(Port) /\ Len(g) = n + 1 /\ g[n + 1] = p
      /\ \A i \in 1..n : g[i] = f[i]
  OBVIOUS
<1>3. /\ Len(todo[t]) \in Nat \ {0} /\ Head(todo[t]) = todo[t][1]
      /\ Len(todo'[t]) = Len(todo[t]) - 1
      /\ \A i \in 1..Len(todo'[t]) : todo'[t][i] = todo[t][i + 1]
  BY <1>1
<1>4. /\ n + Len(todo[t]) = Len(items)
      /\ \A i \in 1..Len(todo[t]) : todo[t][i] = items[n + i]
      /\ claimed[t] = {f[i] : i \in 1..n}
      /\ \A i \in 1..n : f[i] \in items[i].range \cup {items[i].preferred}
      /\ \A i, j \in 1..n : f[i] = f[j] => i = j
  BY DEF Picked
<1>5. items' = items
  OBVIOUS
<1>6. Head(todo[t]) = items[n + 1]
  BY <1>3, <1>4
<1> HIDE DEF g, n, items
<1>7. Len(g) + Len(todo'[t]) = Len(items)
  <2>1. PICK k \in Nat, m \in Nat : k = Len(todo[t]) /\ m = Len(items)
    BY <1>1
  <2>2. Len(g) = n + 1 /\ Len(todo'[t]) = k - 1 /\ n + k = m
    BY <1>2, <1>3, <1>4, <2>1
  <2>3. (n + 1) + (k - 1) = m
    BY <1>1, <2>2
  <2> QED
    BY <2>1, <2>2, <2>3
<1>8. \A i \in 1..Len(todo'[t]) : todo'[t][i] = items[Len(g) + i]
  <2> TAKE i \in 1..Len(todo'[t])
  <2>1. i + 1 \in 1..Len(todo[t]) /\ n + (i + 1) = (n + 1) + i
    BY <1>1, <1>3
  <2> QED
    BY <1>2, <1>3, <1>4, <2>1
<1>9. claimed'[t] = {g[i] : i \in 1..Len(g)}
  <2>1. \A i : i \in 1..Len(g) <=> i \in 1..n \/ i = n + 1
    BY <1>1, <1>2
  <2>2. \A q : q \in claimed[t] <=> \E i \in 1..n : q = g[i]
    BY <1>2, <1>4
  <2> QED
    BY <1>2, <2>1, <2>2
<1>10. \A i \in 1..Len(g) : g[i] \in items[i].range \cup {items[i].preferred}
  <2> TAKE i \in 1..Len(g)
  <2>1. i \in 1..n \/ i = n + 1
    BY <1>1, <1>2
  <2> QED
    BY <1>2, <1>4, <1>6, <2>1
<1>11. \A i, j \in 1..Len(g) : g[i] = g[j] => i = j
  <2>1. \A i \in 1..n : g[i] # p
    BY <1>2, <1>4
  <2>2. \A i \in 1..Len(g) : i \in 1..n \/ i = n + 1
    BY <1>1, <1>2
  <2> QED
    BY <1>2, <1>4, <2>1, <2>2
<1>12. items' = items /\ job'[t].items = items
  BY <1>5 DEF items
<1>13. g \in Seq(Port)
  BY <1>2
<1> QED
  BY <1>7, <1>8, <1>9, <1>10, <1>11, <1>12, <1>13 DEF Picked, g

LEMMA PortsFitStep ==
    ASSUME BundleInv, PortsFit, [Next]_vars
    PROVE  PortsFit'
<1> USE DEF BundleInv, IInv
<1> DEFINE Mine(u) == pc'[u] = "resolve" => \E f \in Seq(Port) : Picked(u, f)'
<1>1. ASSUME NEW u \in Tx, pc'[u] = pc[u], job'[u] = job[u], todo'[u] = todo[u],
             claimed'[u] = claimed[u]
      PROVE  Mine(u)
  <2>1. CASE pc'[u] = "resolve"
    <3>1. PICK f \in Seq(Port) : Picked(u, f)
      BY <1>1, <2>1 DEF PortsFit
    <3>2. Picked(u, f)'
      BY <1>1, <3>1 DEF Picked
    <3> QED
      BY <3>2
  <2> QED
    BY <2>1
<1>2. ASSUME NEW t \in Tx, EnsureHostAllocatable(t)
      PROVE  Mine(t)
  <2>1. CASE pc'[t] = "resolve"
    <3>1. /\ pc[t] = "locked" /\ job[t].op = "allocate"
          /\ UNCHANGED <<todo, claimed, job>>
      BY <1>2, <2>1 DEF EnsureHostAllocatable, Answer, Goto, TypeOK
    <3>2. todo[t] = job[t].items /\ claimed[t] = {}
      BY <3>1 DEF ItemsResolved, NothingClaimedYet
    <3>3. << >> \in Seq(Port) /\ Len(<< >>) = 0 /\ Len(todo[t]) \in Nat
      BY DEF TypeOK
    <3>4. Picked(t, << >>)'
      BY <3>1, <3>2, <3>3 DEF Picked
    <3> QED
      BY <3>3, <3>4
  <2> QED
    BY <2>1
<1>3. ASSUME NEW t \in Tx, ResolveCandidate(t)
      PROVE  Mine(t)
  <2>1. CASE pc'[t] = "resolve"
    <3>1. pc[t] = "resolve" /\ todo[t] # << >> /\ UNCHANGED job
      BY <1>3 DEF ResolveCandidate
    <3>2. PICK occupied, p :
             /\ p \in Resolutions(t, Head(todo[t]), occupied)
             /\ claimed' = [claimed EXCEPT ![t] = @ \cup {p}]
             /\ todo' = [todo EXCEPT ![t] = Tail(@)]
      BY <1>3, <2>1 DEF ResolveCandidate, Answer, Goto, TypeOK
    <3>3. p \in Port /\ p \notin claimed[t]
      BY <3>2, ResolutionsAreFree DEF FreePorts
    <3>4. p \in Head(todo[t]).range \cup {Head(todo[t]).preferred}
      BY <3>2, ResolutionsFit
    <3>5. claimed'[t] = claimed[t] \cup {p} /\ todo'[t] = Tail(todo[t])
      BY <3>2 DEF TypeOK
    <3>6. PICK f \in Seq(Port) : Picked(t, f)
      BY <3>1 DEF PortsFit
    <3> QED
      BY <3>1, <3>3, <3>4, <3>5, <3>6, PickedNext
  <2> QED
    BY <2>1
<1>4. ASSUME NEW t \in Tx, Step(t), ~EnsureHostAllocatable(t), ~ResolveCandidate(t)
      PROVE  pc'[t] # "resolve"
  BY <1>4 DEF Step, AcquireHostLock, CommitAllocation, CommitRelease, InsertReservation,
     CommitIngest, CommitDecommission, Answer, Goto, TypeOK
<1>5. ASSUME NEW t \in Tx, Begin(t) \/ \E a \in Tx : BeginRelease(t, a)
      PROVE  pc'[t] # "resolve"
  BY <1>5, BeginLeads DEF Final
<1>6. CASE \E t \in Tx : Begin(t) \/ Step(t) \/ \E a \in Tx : BeginRelease(t, a)
  <2>1. PICK t \in Tx : Begin(t) \/ Step(t) \/ \E a \in Tx : BeginRelease(t, a)
    BY <1>6
  <2>2. OthersStay(t)
    BY <2>1, BeginStays, StepStays
  <2>3. Mine(t)
    BY <1>2, <1>3, <1>4, <1>5, <2>1
  <2>4. \A u \in Tx : u # t => Mine(u)
    BY <1>1, <2>2 DEF OthersStay
  <2> HIDE DEF Mine
  <2>5. \A u \in Tx : Mine(u)
    BY <2>3, <2>4
  <2> QED
    BY <2>5 DEF Mine, PortsFit
<1>7. CASE UNCHANGED <<pc, job, todo, claimed>>
  BY <1>7 DEF PortsFit, Picked
<1> QED
  BY <1>6, <1>7 DEF Next, vars, DeleteReservation, ReactivateHost,
                    RemoveHostRecord, EnrollHost

(* An allocation goes for good only with its host's record.                *)
LEMMA GoneIsPurged ==
    ASSUME TypeOK, [Next]_vars, NEW a \in Tx,
           alloc[a].status # "none", alloc'[a].status = "none"
    PROVE  RemoveHostRecord(alloc[a].host)
<1>0. \A row \in AllocationRow : [row EXCEPT !.status = "released"].status = "released"
  BY DEF AllocationRow
<1>1. alloc'[a] # alloc[a]
  OBVIOUS
<1>2. ASSUME NEW t \in Tx, Begin(t) \/ \E b \in Tx : BeginRelease(t, b)
      PROVE  alloc' = alloc
  BY <1>2, BeginKeepsTables
<1>3. ASSUME NEW t \in Tx, CommitAllocation(t)
      PROVE  alloc'[a].status = "active" \/ alloc'[a] = alloc[a]
  BY <1>3 DEF CommitAllocation, Answer, TypeOK
<1>4. ASSUME NEW t \in Tx, CommitRelease(t)
      PROVE  alloc'[a].status = "released" \/ alloc'[a] = alloc[a]
  <2>1. \/ alloc' = alloc
        \/ alloc' = [alloc EXCEPT ![job[t].target].status = "released"]
    BY <1>4 DEF CommitRelease, Answer
  <2>2. \/ alloc'[a] = alloc[a]
        \/ alloc'[a] = [alloc[a] EXCEPT !.status = "released"]
    BY <2>1 DEF TypeOK
  <2> QED
    BY <1>0, <2>2 DEF TypeOK
<1>5. ASSUME NEW t \in Tx, CommitDecommission(t)
      PROVE  alloc'[a].status = "released" \/ alloc'[a] = alloc[a]
  <2>1. \/ alloc' = alloc
        \/ alloc' = [b \in Tx |-> IF b \in seen[t]
                                  THEN [alloc[b] EXCEPT !.status = "released"]
                                  ELSE alloc[b]]
    BY <1>5 DEF CommitDecommission, Answer
  <2>2. \/ alloc'[a] = alloc[a]
        \/ alloc'[a] = [alloc[a] EXCEPT !.status = "released"]
    BY <2>1
  <2> QED
    BY <1>0, <2>2 DEF TypeOK
<1>6. ASSUME NEW t \in Tx,
             AcquireHostLock(t) \/ EnsureHostAllocatable(t) \/ ResolveCandidate(t)
               \/ InsertReservation(t) \/ CommitIngest(t)
      PROVE  alloc' = alloc
  BY <1>6 DEF AcquireHostLock, EnsureHostAllocatable, ResolveCandidate,
     InsertReservation, CommitIngest, Answer
<1>7. ASSUME \/ \E r \in resv : DeleteReservation(r)
             \/ \E h \in Host : ReactivateHost(h) \/ EnrollHost(h)
             \/ UNCHANGED vars
      PROVE  alloc' = alloc
  BY <1>7 DEF DeleteReservation, ReactivateHost, EnrollHost, vars
<1>8. PICK h \in Host : RemoveHostRecord(h)
  BY <1>1, <1>2, <1>3, <1>4, <1>5, <1>6, <1>7 DEF Next, Step
<1>9. alloc[a].host = h
  BY <1>1, <1>8 DEF RemoveHostRecord
<1> QED
  BY <1>8, <1>9

LEMMA RowsAtHomeStep ==
    ASSUME BundleInv, RowsAtHome, [Next]_vars
    PROVE  RowsAtHome'
<1> SUFFICES ASSUME NEW r \in resv', r.alloc # NoTx
             PROVE  alloc'[r.alloc].status # "none" /\ alloc'[r.alloc].host = r.host
  BY DEF RowsAtHome
<1> USE DEF BundleInv, IInv
<1>1. CASE r \in resv
  <2>1. /\ r.alloc \in Tx /\ alloc[r.alloc].status # "none"
        /\ alloc[r.alloc].host = r.host
    BY <1>1 DEF RowsAtHome, TypeOK, Row
  <2>2. alloc'[r.alloc].status # "none"
    <3>1. RemoveHostRecord(r.host) => r \notin resv'
      BY <1>1 DEF RemoveHostRecord, RowsOf
    <3> QED
      BY <2>1, <3>1, GoneIsPurged
  <2>3. pc[r.alloc] \in Final
    BY <2>1, ActiveIsCommitted
  <2> QED
    BY <2>1, <2>2, <2>3, CommittedKeepsHost
<1>2. CASE r \notin resv
  <2>1. PICK t \in Tx : CommitAllocation(t)
    BY <1>2, OtherSteps DEF AddsNoBundleRow
  <2>2. /\ r \in BundleRows(t)
        /\ alloc' = [alloc EXCEPT ![t] = [status |-> "active",
                                          host |-> job[t].host,
                                          rid |-> job[t].rid,
                                          items |-> job[t].items]]
    BY <1>2, <2>1 DEF CommitAllocation, Answer
  <2>3. r.alloc = t /\ r.host = job[t].host
    BY <2>2 DEF BundleRows
  <2> QED
    BY <2>2, <2>3 DEF TypeOK
<1> QED
  BY <1>1, <1>2

(* What the mapped tables show: who owns which ports.                      *)
LedgerInv == BundleInv /\ TargetsCommitted /\ PortsFit /\ RowsAtHome

LEMMA LedgerInvariance == Spec => []LedgerInv
<1>1. Init => LedgerInv
  BY InitInv, AllOrNothingInit
     DEF Init, LedgerInv, BundleInv, TargetsCommitted, PortsFit, RowsAtHome
<1>2. LedgerInv /\ [Next]_vars => LedgerInv'
  BY NextInv, AllOrNothingNext, TargetsCommittedStep, PortsFitStep, RowsAtHomeStep
     DEF LedgerInv, BundleInv
<1> QED
  BY <1>1, <1>2, PTL DEF Spec

LEMMA GrantKept ==
    ASSUME NEW a \in Tx, alloc'[a] = alloc[a],
           \A r : r.alloc = a => (r \in resv' <=> r \in resv)
    PROVE  Grants'[a] = Grants[a]
<1>1. PortsOf(resv', a) = PortsOf(resv, a)
  BY DEF PortsOf
<1> QED
  BY <1>1 DEF Grants

(* Steps the ledger does not see.                                          *)
LEMMA TablesStay ==
    ASSUME UNCHANGED <<life, observed, alloc, resv>>
    PROVE  UNCHANGED Ledger!lvars
BY DEF Ledger!lvars, Grants, PortsOf

LEMMA LedgerInit == Init => Ledger!LInit
BY DEF Init, NoAllocation, Ledger!LInit, Grants, PortsOf

(* A host appears or comes back.                                           *)
LEMMA WelcomeStep ==
    ASSUME NEW h \in Host, TypeOK, EnrollHost(h) \/ ReactivateHost(h)
    PROVE  Ledger!Welcome(h)
<1>1. UNCHANGED <<observed, alloc, resv>>
  BY DEF EnrollHost, ReactivateHost
<1>2. Grants' = Grants
  BY <1>1 DEF Grants, PortsOf
<1> QED
  BY <1>1, <1>2 DEF Ledger!Welcome, EnrollHost, ReactivateHost

LEMMA PurgeStep ==
    ASSUME LedgerInv, NEW h \in Host, RemoveHostRecord(h)
    PROVE  Ledger!Purge(h)
<1>1. {r \in resv : r.alloc = NoTx}' = {r \in {q \in resv : q.alloc = NoTx} : r.host # h}
  BY DEF RemoveHostRecord, RowsOf
<1>2. ASSUME NEW a \in Tx \ Ledger!Of(h)
      PROVE  Grants'[a] = Grants[a]
  <2>1. ~(alloc[a].status # "none" /\ alloc[a].host = h)
    BY <1>2 DEF Ledger!Of, Grants
  <2>2. alloc'[a] = alloc[a]
    BY <2>1 DEF RemoveHostRecord
  <2>3. \A r \in resv : r.alloc = a => r.host # h
    BY <2>1, NoTxAssumption DEF LedgerInv, RowsAtHome
  <2>4. \A r : r.alloc = a => (r \in resv' <=> r \in resv)
    BY <2>3 DEF RemoveHostRecord, RowsOf
  <2> QED
    BY <2>2, <2>4, GrantKept
<1>3. ASSUME NEW a \in Ledger!Of(h)
      PROVE  Grants'[a].status = "none" /\ Grants'[a].ports = {}
  <2>1. a \in Tx /\ alloc[a].status # "none" /\ alloc[a].host = h
    BY <1>3 DEF Ledger!Of, Grants
  <2>2. alloc'[a].status = "none"
    BY <2>1 DEF RemoveHostRecord, NoAllocation
  <2>3. \A r \in resv' : r.alloc # a
    BY <2>1, NoTxAssumption DEF RemoveHostRecord, RowsOf, LedgerInv, RowsAtHome
  <2>4. PortsOf(resv', a) = {}
    BY <2>3 DEF PortsOf
  <2> QED
    BY <2>1, <2>2, <2>4 DEF Grants
<1>4. DOMAIN Grants' = Tx
  BY DEF Grants
<1> QED
  BY <1>1, <1>2, <1>3, <1>4 DEF Ledger!Purge, RemoveHostRecord

LEMMA ObserveStep ==
    ASSUME TypeOK, NEW t \in Tx, CommitIngest(t)
    PROVE  UNCHANGED Ledger!lvars \/ \E h \in Host : Ledger!Observe(h)
<1>1. CASE Answer(t, "failed")
  BY <1>1, TablesStay DEF Answer
<1>2. CASE ~Answer(t, "failed")
  <2>1. /\ job[t].host \in Host /\ life[job[t].host] # "ABSENT"
        /\ \E ports \in SUBSET Port :
              observed' = [observed EXCEPT ![job[t].host] = ports]
        /\ UNCHANGED <<life, alloc, resv>>
    BY <1>2 DEF CommitIngest, TypeOK, Job
  <2>2. Grants' = Grants
    BY <2>1 DEF Grants, PortsOf
  <2> QED
    BY <2>1, <2>2 DEF Ledger!Observe
<1> QED
  BY <1>1, <1>2

LEMMA ReserveStep ==
    ASSUME IInv, NEW t \in Tx, InsertReservation(t)
    PROVE  UNCHANGED Ledger!lvars \/ Ledger!Reserve
<1> DEFINE row == ReservationRow(t)
           free == {r \in resv : r.alloc = NoTx}
<1>1. CASE Answer(t, "failed")
  BY <1>1, TablesStay DEF Answer
<1>2. CASE ~Answer(t, "failed")
  <2>1. /\ life[job[t].host] # "ABSENT" /\ UniqueBinding({row})
        /\ resv' = resv \cup {row} /\ UNCHANGED <<life, observed, alloc>>
    BY <1>2 DEF InsertReservation
  <2>2. row.alloc = NoTx /\ row.host = job[t].host
    BY DEF ReservationRow
  <2>3. \A q \in free : row.addr # NoAddr =>
           <<q.host, q.port, q.addr>> # <<row.host, row.port, row.addr>>
    BY <2>1 DEF UniqueBinding, Binding, RowsOf
  <2> HIDE DEF row
  <2>4. row \in free' /\ free' = free \cup {row}
    BY <2>1, <2>2
  <2>5. \A a \in Tx : PortsOf(resv', a) = PortsOf(resv, a)
    BY <2>1, <2>2, NoTxAssumption DEF PortsOf
  <2>6. Grants' = Grants
    BY <2>1, <2>5 DEF Grants
  <2> QED
    BY <2>1, <2>2, <2>3, <2>4, <2>6 DEF Ledger!Reserve
<1> QED
  BY <1>1, <1>2

LEMMA DeleteStep ==
    ASSUME LedgerInv, NEW r \in resv, DeleteReservation(r)
    PROVE  Ledger!Delete
<1> DEFINE free == {q \in resv : q.alloc = NoTx}
<1>0. resv' = resv \ {r} /\ UNCHANGED <<life, observed, alloc>>
  BY DEF DeleteReservation
<1>1. CASE r.alloc = NoTx
  <2>1. r \in free /\ free' = free \ {r}
    BY <1>0, <1>1
  <2>2. \A a \in Tx : PortsOf(resv', a) = PortsOf(resv, a)
    BY <1>0, <1>1, NoTxAssumption DEF PortsOf
  <2>3. Grants' = Grants
    BY <1>0, <2>2 DEF Grants
  <2> QED
    BY <1>0, <2>1, <2>3 DEF Ledger!Delete
<1>2. CASE r.alloc # NoTx
  <2> DEFINE a == r.alloc
             p == r.port
  <2>1. a \in Tx /\ r.host = alloc[a].host
    BY <1>2 DEF LedgerInv, BundleInv, IInv, TypeOK, Row, RowsAtHome
  <2>2. p \in PortsOf(resv, a)
    BY DEF PortsOf
  <2>3. free' = free
    BY <1>0, <1>2
  <2>4. \A q \in resv : q.alloc = a /\ q.port = p => q = r
    BY <1>2, <2>1 DEF LedgerInv, BundleInv, IInv, NoAllocationDoubleBooking, RowsAtHome
  <2>5. PortsOf(resv', a) = PortsOf(resv, a) \ {p}
    BY <1>0, <2>4 DEF PortsOf
  <2>6. \A b \in Tx : b # a => Grants'[b] = Grants[b]
    BY <1>0, GrantKept
  <2>7. Grants'[a] = [Grants[a] EXCEPT !.ports = Grants[a].ports \ {p}]
    <3>1. Grants[a] = [status |-> alloc[a].status, host |-> alloc[a].host,
                       rid |-> alloc[a].rid, items |-> alloc[a].items,
                       ports |-> PortsOf(resv, a)]
      BY <2>1 DEF Grants
    <3>2. Grants'[a] = [status |-> alloc[a].status, host |-> alloc[a].host,
                        rid |-> alloc[a].rid, items |-> alloc[a].items,
                        ports |-> PortsOf(resv', a)]
      BY <1>0, <2>1 DEF Grants
    <3> QED
      BY <2>5, <3>1, <3>2
  <2>8. Grants' = [Grants EXCEPT ![a].ports = Grants[a].ports \ {p}]
    <3>1. /\ DOMAIN Grants' = Tx /\ Grants' = [b \in Tx |-> Grants'[b]]
          /\ DOMAIN Grants = Tx /\ Grants = [b \in Tx |-> Grants[b]]
      BY DEF Grants
    <3> QED
      BY <2>1, <2>6, <2>7, <3>1
  <2>9. p \in Grants[a].ports
    BY <2>1, <2>2 DEF Grants
  <2> QED
    BY <1>0, <2>1, <2>3, <2>8, <2>9 DEF Ledger!Delete
<1> QED
  BY <1>1, <1>2

(* The rows of the released allocations A go, as far as they are listed.   *)
LEMMA GiveUpStep ==
    ASSUME LedgerInv, NEW h \in Host, NEW A \in SUBSET Tx, NEW gone \in SUBSET resv,
           \A r \in gone : r.alloc \in A,
           \A a \in A : alloc[a].status # "none" /\ alloc[a].host = h,
           resv' = resv \ gone,
           \A a \in Tx \ A : alloc'[a] = alloc[a],
           \A a \in A : alloc'[a] = [alloc[a] EXCEPT !.status = "released"],
           \/ life' = life
           \/ life[h] # "ABSENT" /\ life' = [life EXCEPT ![h] = "DECOMMISSIONED"],
           UNCHANGED observed
    PROVE  Ledger!GiveUp(h)
<1>1. A \in SUBSET Ledger!Of(h)
  BY DEF Ledger!Of, Grants
<1>2. ASSUME NEW a \in Tx \ A
      PROVE  Grants'[a] = Grants[a]
  BY <1>2, GrantKept
<1>3. ASSUME NEW a \in A
      PROVE  \E left \in SUBSET Grants[a].ports :
                Grants'[a] = [Grants[a] EXCEPT !.status = "released", !.ports = left]
  <2>1. PortsOf(resv', a) \subseteq PortsOf(resv, a)
    BY DEF PortsOf
  <2>2. alloc[a] \in AllocationRow
    BY DEF LedgerInv, BundleInv, IInv, TypeOK
  <2>3. /\ alloc'[a].status = "released" /\ alloc'[a].host = alloc[a].host
        /\ alloc'[a].rid = alloc[a].rid /\ alloc'[a].items = alloc[a].items
    BY <2>2 DEF AllocationRow
  <2>4. Grants'[a] = [status |-> "released", host |-> alloc[a].host, rid |-> alloc[a].rid,
                      items |-> alloc[a].items, ports |-> PortsOf(resv', a)]
    BY <2>3 DEF Grants
  <2>5. Grants[a] = [status |-> alloc[a].status, host |-> alloc[a].host, rid |-> alloc[a].rid,
                     items |-> alloc[a].items, ports |-> PortsOf(resv, a)]
    BY DEF Grants
  <2>6. Grants'[a] = [Grants[a] EXCEPT !.status = "released",
                                      !.ports = PortsOf(resv', a)]
    <3> DEFINE k == [Grants[a] EXCEPT !.status = "released",
                                      !.ports = PortsOf(resv', a)]
    <3>1. /\ k.status = "released" /\ k.ports = PortsOf(resv', a)
          /\ k.host = alloc[a].host /\ k.rid = alloc[a].rid /\ k.items = alloc[a].items
      BY <2>5
    <3>2. k = [x \in {"status", "host", "rid", "items", "ports"} |-> k[x]]
      BY <2>5
    <3> HIDE DEF k
    <3>3. Grants'[a] = k
      BY <2>4, <3>1, <3>2
    <3> QED
      BY <3>3 DEF k
  <2>7. Grants[a].ports = PortsOf(resv, a)
    BY <2>5
  <2>8. PortsOf(resv', a) \in SUBSET Grants[a].ports
    BY <2>1, <2>7
  <2> WITNESS PortsOf(resv', a) \in SUBSET Grants[a].ports
  <2> QED
    BY <2>6
<1>4. {r \in resv : r.alloc = NoTx}' = {r \in resv : r.alloc = NoTx}
  BY NoTxAssumption
<1>5. DOMAIN Grants' = Tx
  BY DEF Grants
<1> QED
  BY <1>1, <1>2, <1>3, <1>4, <1>5 DEF Ledger!GiveUp

LEMMA ReleaseStep ==
    ASSUME LedgerInv, NEW t \in Tx, CommitRelease(t)
    PROVE  UNCHANGED Ledger!lvars \/ \E h \in Host : Ledger!GiveUp(h)
<1> DEFINE a == job[t].target
           h == job[t].host
<1> USE DEF LedgerInv, BundleInv, IInv
<1>1. CASE Answer(t, "failed")
  BY <1>1, TablesStay DEF Answer
<1>2. CASE ~Answer(t, "failed")
  <2>1. PICK rows \in Listed(h) :
           /\ resv' = resv \ {r \in rows : r.alloc = a}
           /\ alloc' = [alloc EXCEPT ![a].status = "released"]
           /\ alloc[a].status # "none" /\ UNCHANGED <<life, observed>>
    BY <1>2 DEF CommitRelease
  <2>2. a \in Tx /\ alloc[a].host = h
    BY <2>1 DEF TargetsCommitted, CommitRelease
  <2>3. h \in Host /\ rows \subseteq resv
    BY <2>1 DEF TypeOK, Job, Listed, RowsOf
  <2>4. /\ \A b \in Tx \ {a} : alloc'[b] = alloc[b]
        /\ \A b \in {a} : alloc'[b] = [alloc[b] EXCEPT !.status = "released"]
    BY <2>1, <2>2 DEF TypeOK
  <2> DEFINE gone == {r \in rows : r.alloc = a}
  <2>5. gone \in SUBSET resv /\ \A r \in gone : r.alloc \in {a}
    BY <2>3
  <2> HIDE DEF a, h, gone
  <2>6. {a} \in SUBSET Tx /\ \A b \in {a} : alloc[b].status # "none" /\ alloc[b].host = h
    BY <2>1, <2>2
  <2>7. resv' = resv \ gone
    BY <2>1 DEF gone
  <2> QED
    BY <2>1, <2>3, <2>4, <2>5, <2>6, <2>7, GiveUpStep
<1> QED
  BY <1>1, <1>2

LEMMA DecommissionStep ==
    ASSUME LedgerInv, NEW t \in Tx, CommitDecommission(t)
    PROVE  UNCHANGED Ledger!lvars \/ \E h \in Host : Ledger!GiveUp(h)
<1> DEFINE h == job[t].host
<1> USE DEF LedgerInv, BundleInv, IInv
<1>1. CASE Answer(t, "failed")
  BY <1>1, TablesStay DEF Answer
<1>2. CASE ~Answer(t, "failed")
  <2>1. /\ pc[t] = "release" /\ UNCHANGED observed
        /\ life[h] # "ABSENT" /\ life' = [life EXCEPT ![h] = "DECOMMISSIONED"]
        /\ \A b \in seen[t] : alloc[b].status # "none"
        /\ alloc' = [b \in Tx |-> IF b \in seen[t]
                                  THEN [alloc[b] EXCEPT !.status = "released"]
                                  ELSE alloc[b]]
    BY <1>2 DEF CommitDecommission
  <2>2. PICK rows \in Listed(h) : resv' = resv \ {r \in rows : r.alloc \in seen[t]}
    BY <1>2 DEF CommitDecommission
  <2>3. h \in Host /\ rows \subseteq resv /\ seen[t] \in SUBSET Tx
    BY <2>2 DEF TypeOK, Job, Listed, RowsOf
  <2>4. \A b \in seen[t] : alloc[b].status # "none" /\ alloc[b].host = h
    BY <2>1 DEF TargetsCommitted
  <2>5. /\ \A b \in Tx \ seen[t] : alloc'[b] = alloc[b]
        /\ \A b \in seen[t] : alloc'[b] = [alloc[b] EXCEPT !.status = "released"]
    BY <2>1, <2>3
  <2> DEFINE gone == {r \in rows : r.alloc \in seen[t]}
  <2>6. gone \in SUBSET resv /\ \A r \in gone : r.alloc \in seen[t]
    BY <2>3
  <2>7. resv' = resv \ gone
    BY <2>2
  <2> HIDE DEF h, gone
  <2> QED
    BY <2>1, <2>3, <2>4, <2>5, <2>6, <2>7, GiveUpStep
<1> QED
  BY <1>1, <1>2

(* The ports picked while the lock was held are still free at the commit.  *)
LEMMA PickedAreFree ==
    ASSUME LedgerInv, NEW t \in Tx, pc[t] = "resolve"
    PROVE  claimed[t] \subseteq Ledger!Free(job[t].host)
<1> DEFINE h == job[t].host
<1> USE DEF LedgerInv, BundleInv, IInv
<1>1. \A p \in claimed[t] : p \in Port /\ p \notin observed[h]
  BY DEF ClaimedUnobserved, TypeOK
<1>2. ASSUME NEW p \in claimed[t], NEW a \in Ledger!Of(h), p \in Grants[a].ports
      PROVE  FALSE
  <2>1. a \in Tx /\ alloc[a].host = h
    BY <1>2 DEF Ledger!Of, Grants
  <2>2. PICK r \in resv : r.alloc = a /\ r.port = p
    BY <1>2, <2>1 DEF Grants, PortsOf
  <2>3. r.alloc # NoTx /\ r.host = h
    BY <2>1, <2>2, NoTxAssumption DEF RowsAtHome
  <2> QED
    BY <2>2, <2>3 DEF ClaimedUnbooked
<1> QED
  BY <1>1, <1>2 DEF Ledger!Free

LEMMA GrantStep ==
    ASSUME LedgerInv, NEW t \in Tx, CommitAllocation(t)
    PROVE  UNCHANGED Ledger!lvars \/ Ledger!Grant(t)
<1> DEFINE h == job[t].host
           rid == job[t].rid
           items == job[t].items
<1> USE DEF LedgerInv, BundleInv, IInv
<1>1. CASE Answer(t, "failed")
  BY <1>1, TablesStay DEF Answer
<1>2. CASE ~Answer(t, "failed")
  <2>1. /\ pc[t] = "resolve" /\ todo[t] = << >>
        /\ ~RequestIdTaken(rid) /\ life[h] # "ABSENT"
        /\ alloc' = [alloc EXCEPT ![t] = [status |-> "active", host |-> h,
                                          rid |-> rid, items |-> items]]
        /\ resv' = resv \cup BundleRows(t)
        /\ UNCHANGED <<life, observed>>
    BY <1>2 DEF CommitAllocation
  <2>2. h \in Host /\ rid \in RequestId \cup {NoId} /\ items \in Bundle
    BY DEF TypeOK, Job
  <2>3. alloc[t].status = "none" /\ \A r \in resv : r.alloc # t
    BY <2>1 DEF Uncommitted, Final
  <2>4. PICK f \in Seq(Port) : Picked(t, f)
    BY <2>1 DEF PortsFit
  <2>5. /\ Len(f) = Len(items) /\ claimed[t] = {f[i] : i \in 1..Len(f)}
        /\ \A i \in 1..Len(f) : f[i] \in items[i].range \cup {items[i].preferred}
        /\ \A i, j \in 1..Len(f) : f[i] = f[j] => i = j
    <3>1. Len(todo[t]) = 0 /\ Len(f) \in Nat
      BY <2>1
    <3>2. Len(f) + Len(todo[t]) = Len(items)
      BY <2>4 DEF Picked
    <3> QED
      BY <2>4, <3>1, <3>2 DEF Picked
  <2>6. DOMAIN items = 1..Len(f)
    BY <2>2, <2>5, BundleAssumption
  <2>7. f \in [DOMAIN items -> Ledger!Free(h)]
    <3>1. \A i \in 1..Len(f) : f[i] \in Ledger!Free(h)
      BY <2>1, <2>5, PickedAreFree
    <3>2. f = [i \in 1..Len(f) |-> f[i]]
      OBVIOUS
    <3> QED
      BY <2>6, <3>1, <3>2
  <2>8. Ledger!Serves(f, items)
    BY <2>5, <2>6 DEF Ledger!Serves
  <2>9. ~Ledger!Used(rid)
    BY <2>1 DEF Ledger!Used, RequestIdTaken, Grants
  <2>10. PortsOf(resv', t) = {f[i] : i \in DOMAIN items}
    <3>1. {r \in resv' : r.alloc = t} = BundleRows(t)
      BY <2>1, <2>3 DEF BundleRows
    <3>2. {r.port : r \in BundleRows(t)} = claimed[t]
      <4>1. \A r \in BundleRows(t) : r.port \in claimed[t]
        BY DEF BundleRows
      <4>2. ASSUME NEW p \in claimed[t]
            PROVE  \E r \in BundleRows(t) : r.port = p
        <5> DEFINE r == [tx |-> t, host |-> job[t].host, port |-> p, addr |-> NoAddr,
                         alloc |-> t, local |-> NoLocal]
        <5>1. r \in BundleRows(t)
          BY DEF BundleRows
        <5>2. r.port = p
          OBVIOUS
        <5> QED
          BY <5>1, <5>2
      <4> QED
        BY <4>1, <4>2
    <3> QED
      BY <2>5, <2>6, <3>1, <3>2 DEF PortsOf
  <2>11. Grants'[t] = Ledger!Bundled(h, rid, items, {f[i] : i \in DOMAIN items})
    <3>1. alloc'[t] = [status |-> "active", host |-> h, rid |-> rid, items |-> items]
      BY <2>1 DEF TypeOK
    <3>2. Grants'[t] = [status |-> "active", host |-> h, rid |-> rid, items |-> items,
                        ports |-> PortsOf(resv', t)]
      BY <3>1 DEF Grants
    <3> QED
      BY <2>10, <3>2 DEF Ledger!Bundled
  <2>12. \A a \in Tx : a # t => Grants'[a] = Grants[a]
    <3>1. \A r \in BundleRows(t) : r.alloc = t
      BY DEF BundleRows
    <3>2. \A a \in Tx : a # t => alloc'[a] = alloc[a]
      BY <2>1 DEF TypeOK
    <3> QED
      BY <2>1, <3>1, <3>2, GrantKept
  <2>13. Grants' = [Grants EXCEPT ![t] =
                      Ledger!Bundled(h, rid, items, {f[i] : i \in DOMAIN items})]
    <3>1. /\ DOMAIN Grants' = Tx /\ Grants' = [b \in Tx |-> Grants'[b]]
          /\ DOMAIN Grants = Tx /\ Grants = [b \in Tx |-> Grants[b]]
      BY DEF Grants
    <3> QED
      BY <2>11, <2>12, <3>1
  <2>14. {r \in resv : r.alloc = NoTx}' = {r \in resv : r.alloc = NoTx}
    BY <2>1, NoTxAssumption DEF BundleRows
  <2>15. Grants[t].status = "none" /\ Grants'[t].status = "active"
    BY <2>3, <2>11 DEF Grants, Ledger!Bundled
  <2> HIDE DEF h, rid, items
  <2> QED
    BY <2>1, <2>2, <2>7, <2>8, <2>9, <2>13, <2>14, <2>15 DEF Ledger!Grant
<1> QED
  BY <1>1, <1>2

LEMMA LedgerStep ==
    ASSUME LedgerInv, [Next]_vars
    PROVE  [Ledger!LNext]_(Ledger!lvars)
<1> USE DEF LedgerInv, BundleInv, IInv
<1>1. ASSUME NEW t \in Tx, Begin(t) \/ \E a \in Tx : BeginRelease(t, a)
      PROVE  UNCHANGED Ledger!lvars
  BY <1>1, BeginKeepsTables, TablesStay
<1>2. ASSUME NEW t \in Tx,
             AcquireHostLock(t) \/ EnsureHostAllocatable(t) \/ ResolveCandidate(t)
      PROVE  UNCHANGED Ledger!lvars
  <2>1. UNCHANGED <<life, observed, alloc, resv>>
    BY <1>2 DEF AcquireHostLock, EnsureHostAllocatable, ResolveCandidate, Answer
  <2> QED
    BY <2>1, TablesStay
<1>3. ASSUME NEW t \in Tx, Step(t)
      PROVE  Ledger!LNext \/ UNCHANGED Ledger!lvars
  BY <1>2, <1>3, GrantStep, ReleaseStep, ReserveStep, ObserveStep, DecommissionStep
     DEF Step, Ledger!LNext
<1>4. ASSUME NEW r \in resv, DeleteReservation(r)
      PROVE  Ledger!LNext
  BY <1>4, DeleteStep DEF Ledger!LNext
<1>5. ASSUME NEW h \in Host, ReactivateHost(h) \/ RemoveHostRecord(h) \/ EnrollHost(h)
      PROVE  Ledger!LNext
  BY <1>5, WelcomeStep, PurgeStep DEF Ledger!LNext
<1>6. CASE UNCHANGED vars
  BY <1>6, TablesStay DEF vars
<1> QED
  BY <1>1, <1>3, <1>4, <1>5, <1>6 DEF Next

(* The handlers implement the ledger: for any number of overlapping        *)
(* requests each commit of create_allocation, release_allocation,          *)
(* create_reservation, ingestion and the host lifecycle changes the tables *)
(* as one whole operation of the ledger does, at the moment it commits,    *)
(* and every other step changes nothing that another request can see.      *)
THEOREM TablesImplementLedger == Spec => TablesAreLedger
BY LedgerInit, LedgerInvariance, LedgerStep, PTL DEF Spec, TablesAreLedger, Ledger!LSpec
=============================================================================
