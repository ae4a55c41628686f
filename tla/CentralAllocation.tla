-------------------------- MODULE CentralAllocation --------------------------
(***************************************************************************)
(* Central's port registry under concurrent requests: allocation bundles,  *)
(* single reservations, snapshot ingestion and the host lifecycle          *)
(* (backend/app/services/allocation_service.py, reservation_service.py,    *)
(* host_lock.py, host_lifecycle_service.py).                               *)
(*                                                                         *)
(* FastAPI runs every handler in a worker thread with its own database     *)
(* session, PostgreSQL at READ COMMITTED.  A request is a transaction t    *)
(* in Tx; its steps are split wherever another transaction's commit can be *)
(* seen: between the reads made before the host lock, the lock, the reads  *)
(* made under it and the final flush-and-commit.  What a transaction has   *)
(* written but not committed is invisible to the others, so flush and      *)
(* commit are one step.  Port stands for a (port, protocol) pair.          *)
(***************************************************************************)
EXTENDS Naturals, Sequences, FiniteSets, FiniteSetsExt

CONSTANTS
    Tx,           \* requests; a request's id also names the rows it inserts
    Host,
    Port,         \* port numbers, searched in ascending order
    RequestId,    \* client supplied idempotency keys
    ItemName,     \* names of the items of a bundle
    Bundle,       \* bundles a client may ask for: sequences of items
    Addr,         \* explicit bind addresses
    LocalId,      \* agents' own reservation ids
    ReleaseLimit, \* rows reservation_repo.list returns to a release (1000)
    ProbeSkips,   \* MAX_PROBE_SKIP_ATTEMPTS
    NoTx, NoId, NoAddr, NoLocal, NoPort

Item == [name: ItemName, preferred: Port \cup {NoPort}, range: SUBSET Port]

ASSUME PortAssumption == Port \subseteq Nat
ASSUME HostAssumption == Host # {}
ASSUME BundleAssumption == Bundle # {} /\ Bundle \subseteq Seq(Item)
ASSUME LimitAssumption == ReleaseLimit \in Nat /\ ProbeSkips \in Nat
ASSUME NoTxAssumption == NoTx \notin Tx
ASSUME NoIdAssumption == NoId \notin RequestId
ASSUME NoAddrAssumption == NoAddr \notin Addr
ASSUME NoLocalAssumption == NoLocal \notin LocalId
ASSUME NoPortAssumption == NoPort \notin Port

VARIABLES
    life,     \* hosts.lifecycle_state, or "ABSENT" when there is no host row
    observed, \* ports with a CurrentPortObservation row, per host
    resv,     \* rows of central_reservations
    alloc,    \* rows of allocations, by the transaction that inserted them
    lock,     \* owner of the advisory lock of each host
    pc,       \* where each transaction is
    job,      \* what each transaction was asked to do
    todo,     \* bundle items not resolved yet
    claimed,  \* ports already resolved for the bundle
    seen      \* allocations a decommission has read as active

vars == <<life, observed, resv, alloc, lock, pc, job, todo, claimed, seen>>

-----------------------------------------------------------------------------
(* The tables.                                                             *)

Row == [tx: Tx, host: Host, port: Port, addr: Addr \cup {NoAddr},
        alloc: Tx \cup {NoTx}, local: LocalId \cup {NoLocal}]

AllocationRow == [status: {"none", "active", "released"}, host: Host,
                  rid: RequestId \cup {NoId}, items: Bundle]

Op == {"none", "allocate", "release", "reserve", "ingest", "decommission"}

Job == [op: Op, host: Host, rid: RequestId \cup {NoId}, items: Bundle,
        port: Port \cup {NoPort}, addr: Addr \cup {NoAddr},
        local: LocalId \cup {NoLocal}, target: Tx \cup {NoTx}]

AnyHost == CHOOSE h \in Host : TRUE
AnyBundle == CHOOSE b \in Bundle : TRUE

NoJob == [op |-> "none", host |-> AnyHost, rid |-> NoId, items |-> AnyBundle,
          port |-> NoPort, addr |-> NoAddr, local |-> NoLocal,
          target |-> NoTx]

NoAllocation == [status |-> "none", host |-> AnyHost, rid |-> NoId,
                 items |-> AnyBundle]

RowsOf(h) == {r \in resv : r.host = h}
RowsOfAllocation(a) == {r \in resv : r.alloc = a}
ReservedPorts(h) == {r.port : r \in RowsOf(h)}

(* get_by_binding: a NULL address is compared with IS NULL.                *)
Binding(h, p, ad) ==
    {r \in RowsOf(h) : r.port = p /\ r.addr = ad}

(* Mutant of Listed: a comparison with NULL loses the bundles' rows.       *)
ListedWithAddress(h) == {{r \in RowsOf(h) : r.addr # NoAddr}}

(* The rows reservation_repo.list(host_id, limit) returns: the lowest      *)
(* ports first, in an unspecified order between rows of the same port.     *)
Listed(h) ==
    {S \in SUBSET RowsOf(h) :
        /\ Cardinality(S) = Min({ReleaseLimit, Cardinality(RowsOf(h))})
        /\ \A r \in S, q \in RowsOf(h) \ S : r.port <= q.port}

(* uq_central_reservation_binding: PostgreSQL treats two NULL addresses    *)
(* as distinct, so only rows with an explicit address can collide.         *)
UniqueBinding(rows) ==
    \A r \in rows : r.addr = NoAddr \/ Binding(r.host, r.port, r.addr) = {}

(* Mutant of RequestIdTaken: a released allocation frees its request_id.   *)
RequestIdInUse(rid) ==
    rid # NoId /\ \E a \in Tx : alloc[a].status = "active" /\ alloc[a].rid = rid

(* uq on allocations.request_id (NULLs distinct), and get_by_request_id.   *)
RequestIdTaken(rid) ==
    rid # NoId /\ \E a \in Tx : alloc[a].status # "none" /\ alloc[a].rid = rid

Init ==
    /\ life \in [Host -> {"ABSENT", "ACTIVE"}]
    /\ observed = [h \in Host |-> {}]
    /\ resv = {}
    /\ alloc = [t \in Tx |-> NoAllocation]
    /\ lock = [h \in Host |-> NoTx]
    /\ pc = [t \in Tx |-> "idle"]
    /\ job = [t \in Tx |-> NoJob]
    /\ todo = [t \in Tx |-> << >>]
    /\ claimed = [t \in Tx |-> {}]
    /\ seen = [t \in Tx |-> {}]

-----------------------------------------------------------------------------
(* Steps every request shares.                                             *)

Goto(t, label) == pc' = [pc EXCEPT ![t] = label]

(* The session ends: commit or rollback frees the advisory lock with it.   *)
Unlock(t) == lock' = [h \in Host |-> IF lock[h] = t THEN NoTx ELSE lock[h]]

(* Mutant of Answer: an error path that keeps the host locked.             *)
AnswerLocked(t, code) ==
    /\ Goto(t, code)
    /\ UNCHANGED <<life, observed, resv, alloc, lock, todo, claimed, seen>>

(* An answer given without writing anything (early return or rollback).    *)
Answer(t, code) ==
    /\ Goto(t, code)
    /\ Unlock(t)
    /\ UNCHANGED <<life, observed, resv, alloc, todo, claimed, seen>>

(* Mutant of AcquireHostLock: the lock is taken without waiting.           *)
SeizeHostLock(t) ==
    /\ pc[t] = "wait"
    /\ lock' = [lock EXCEPT ![job[t].host] = t]
    /\ Goto(t, "locked")
    /\ UNCHANGED <<life, observed, resv, alloc, job, todo, claimed, seen>>

(* pg_advisory_xact_lock(hashtext(host_id)) waits for the current owner.   *)
AcquireHostLock(t) ==
    /\ pc[t] = "wait"
    /\ lock[job[t].host] = NoTx
    /\ lock' = [lock EXCEPT ![job[t].host] = t]
    /\ Goto(t, "locked")
    /\ UNCHANGED <<life, observed, resv, alloc, job, todo, claimed, seen>>

-----------------------------------------------------------------------------
(* create_allocation.                                                      *)

(* _hash_payload: the items are sorted by their names, which are unique in *)
(* a bundle, so the order in which a client lists them does not matter.    *)
PayloadHash(h, items) == <<h, {items[i] : i \in DOMAIN items}>>

(* The idempotency read and the host read, both before the lock.  A known  *)
(* request_id is replayed ("ok") when the payload is the same and refused  *)
(* otherwise.                                                              *)
BeginAllocation(t, h, rid, items) ==
    LET same == \E a \in Tx : /\ alloc[a].status # "none"
                              /\ alloc[a].rid = rid
                              /\ PayloadHash(alloc[a].host, alloc[a].items)
                                   = PayloadHash(h, items)
    IN  /\ pc[t] = "idle"
        /\ job' = [job EXCEPT ![t] = [NoJob EXCEPT !.op = "allocate",
                                        !.host = h, !.rid = rid,
                                        !.items = items]]
        /\ \/ RequestIdTaken(rid) /\ same /\ Answer(t, "ok")
           \/ RequestIdTaken(rid) /\ ~same /\ Answer(t, "failed")
           \/ ~RequestIdTaken(rid) /\ life[h] = "ABSENT" /\ Answer(t, "failed")
           \/ /\ ~RequestIdTaken(rid)
              /\ life[h] # "ABSENT"
              /\ Goto(t, "wait")
              /\ todo' = [todo EXCEPT ![t] = items]
              /\ UNCHANGED <<life, observed, resv, alloc, lock, claimed, seen>>

(* db.refresh(host) and _ensure_host_allocatable under the lock.  Health   *)
(* is a function of the clock and the last heartbeat, so an active host    *)
(* may be HEALTHY or not at any moment.                                    *)
EnsureHostAllocatable(t) ==
    /\ pc[t] = "locked"
    /\ job[t].op = "allocate"
    /\ \/ /\ life[job[t].host] = "ACTIVE"
          /\ Goto(t, "resolve")
          /\ UNCHANGED <<life, observed, resv, alloc, lock, todo, claimed, seen>>
       \/ Answer(t, "failed")
    /\ UNCHANGED job

(* Mutant of FreePorts: ports claimed earlier in the bundle are forgotten. *)
UnreservedPorts(t) ==
    LET h == job[t].host
    IN  Port \ (observed[h] \cup ReservedPorts(h))

(* Ports neither observed, reserved nor claimed earlier in the bundle.     *)
FreePorts(t) ==
    LET h == job[t].host
    IN  Port \ (observed[h] \cup ReservedPorts(h) \cup claimed[t])

(* find_available_port refined by resolve_with_probe_awareness: the lowest *)
(* free port of the range whose fresh probe does not say it is occupied;   *)
(* after ProbeSkips occupied ones the next free port is taken unprobed.    *)
Candidates(t, item, occupied) ==
    LET free == FreePorts(t) \cap item.range
        usable == {p \in free : \/ p \notin occupied
                                \/ Cardinality({q \in free : q < p}) >= ProbeSkips}
    IN  {p \in usable : \A q \in usable : p <= q}

(* _resolve_candidate: the preferred port when it is free and not probed   *)
(* occupied, the search otherwise.  Probe evidence arrives and expires on  *)
(* its own, so the occupied set is any set of ports (RemoteProbe models    *)
(* where it comes from).                                                   *)
Resolutions(t, item, occupied) ==
    IF item.preferred \in FreePorts(t) \ occupied
    THEN {item.preferred}
    ELSE Candidates(t, item, occupied)

ResolveCandidate(t) ==
    /\ pc[t] = "resolve"
    /\ todo[t] # << >>
    /\ \E occupied \in SUBSET Port :
          LET found == Resolutions(t, Head(todo[t]), occupied)
          IN  \/ found = {} /\ Answer(t, "failed")
              \/ \E p \in found :
                    /\ claimed' = [claimed EXCEPT ![t] = @ \cup {p}]
                    /\ todo' = [todo EXCEPT ![t] = Tail(@)]
                    /\ UNCHANGED <<life, observed, resv, alloc, lock, pc, seen>>
    /\ UNCHANGED job

BundleRows(t) ==
    {[tx |-> t, host |-> job[t].host, port |-> p, addr |-> NoAddr,
      alloc |-> t, local |-> NoLocal] : p \in claimed[t]}

(* The allocation row and every reservation row, committed together.  The  *)
(* flushes fail on a request_id another transaction committed meanwhile,   *)
(* on a purged host (foreign key) and on uq_central_reservation_binding.   *)
CommitAllocation(t) ==
    /\ pc[t] = "resolve"
    /\ todo[t] = << >>
    /\ \/ /\ ~RequestIdTaken(job[t].rid)
          /\ life[job[t].host] # "ABSENT"
          /\ UniqueBinding(BundleRows(t))
          /\ alloc' = [alloc EXCEPT ![t] = [status |-> "active",
                                            host |-> job[t].host,
                                            rid |-> job[t].rid,
                                            items |-> job[t].items]]
          /\ resv' = resv \cup BundleRows(t)
          /\ Goto(t, "ok")
          /\ Unlock(t)
          /\ UNCHANGED <<life, observed, todo, claimed, seen>>
       \/ /\ \/ RequestIdTaken(job[t].rid)
             \/ life[job[t].host] = "ABSENT"
             \/ ~UniqueBinding(BundleRows(t))
          /\ Answer(t, "failed")
    /\ UNCHANGED job

-----------------------------------------------------------------------------
(* release_allocation: the status is read before the lock is requested.    *)
BeginRelease(t, a) ==
    /\ pc[t] = "idle"
    /\ job' = [job EXCEPT ![t] = [NoJob EXCEPT !.op = "release",
                                    !.host = alloc[a].host, !.target = a]]
    /\ \/ alloc[a].status = "none" /\ Answer(t, "failed")
       \/ alloc[a].status = "released" /\ Answer(t, "ok")
       \/ /\ alloc[a].status = "active"
          /\ Goto(t, "wait")
          /\ UNCHANGED <<life, observed, resv, alloc, lock, todo, claimed, seen>>

(* The listed rows of the allocation are deleted and the row updated; an   *)
(* UPDATE of a row that Remove Record purged meanwhile fails.              *)
CommitRelease(t) ==
    LET a == job[t].target
    IN  /\ pc[t] = "locked"
        /\ job[t].op = "release"
        /\ \/ alloc[a].status = "none" /\ Answer(t, "failed")
           \/ /\ alloc[a].status # "none"
              /\ \E rows \in Listed(job[t].host) :
                    resv' = resv \ {r \in rows : r.alloc = a}
              /\ alloc' = [alloc EXCEPT ![a].status = "released"]
              /\ Goto(t, "ok")
              /\ Unlock(t)
              /\ UNCHANGED <<life, observed, todo, claimed, seen>>
        /\ UNCHANGED job

-----------------------------------------------------------------------------
(* create_reservation takes no host lock: get_by_binding, then insert.     *)
(* Two rows of the same binding make scalar_one_or_none raise.             *)
BeginReservation(t, h, p, ad, local) ==
    LET existing == Binding(h, p, ad)
        resync == \E r \in existing : existing = {r} /\ r.local = local
                                      /\ local # NoLocal
    IN  /\ pc[t] = "idle"
        /\ job' = [job EXCEPT ![t] = [NoJob EXCEPT !.op = "reserve",
                                        !.host = h, !.port = p, !.addr = ad,
                                        !.local = local]]
        /\ \/ existing # {} /\ resync /\ Answer(t, "ok")
           \/ existing # {} /\ ~resync /\ Answer(t, "failed")
           \/ /\ existing = {}
              /\ Goto(t, "insert")
              /\ UNCHANGED <<life, observed, resv, alloc, lock, todo, claimed, seen>>

ReservationRow(t) ==
    [tx |-> t, host |-> job[t].host, port |-> job[t].port, addr |-> job[t].addr,
     alloc |-> NoTx, local |-> job[t].local]

InsertReservation(t) ==
    /\ pc[t] = "insert"
    /\ \/ /\ life[job[t].host] # "ABSENT"
          /\ UniqueBinding({ReservationRow(t)})
          /\ resv' = resv \cup {ReservationRow(t)}
          /\ Goto(t, "ok")
          /\ UNCHANGED <<life, observed, alloc, lock, todo, claimed, seen>>
       \/ /\ \/ life[job[t].host] = "ABSENT"
             \/ ~UniqueBinding({ReservationRow(t)})
          /\ Answer(t, "failed")
    /\ UNCHANGED job

(* delete_reservation: any row of the host, a bundle's rows included.      *)
DeleteReservation(r) ==
    /\ resv' = resv \ {r}
    /\ UNCHANGED <<life, observed, alloc, lock, pc, job, todo, claimed, seen>>

-----------------------------------------------------------------------------
(* Mutant of BeginIngest: ingestion no longer takes the host lock.         *)
BeginIngestUnlocked(t, h) ==
    /\ pc[t] = "idle"
    /\ job' = [job EXCEPT ![t] = [NoJob EXCEPT !.op = "ingest", !.host = h]]
    /\ Goto(t, "locked")
    /\ UNCHANGED <<life, observed, resv, alloc, lock, todo, claimed, seen>>

(* ingest_snapshot replaces the current observations under the host lock   *)
(* (SnapshotIngestion models how).                                         *)
BeginIngest(t, h) ==
    /\ pc[t] = "idle"
    /\ job' = [job EXCEPT ![t] = [NoJob EXCEPT !.op = "ingest", !.host = h]]
    /\ Goto(t, "wait")
    /\ UNCHANGED <<life, observed, resv, alloc, lock, todo, claimed, seen>>

CommitIngest(t) ==
    /\ pc[t] = "locked"
    /\ job[t].op = "ingest"
    /\ \/ life[job[t].host] = "ABSENT" /\ Answer(t, "failed")
       \/ /\ life[job[t].host] # "ABSENT"
          /\ \E ports \in SUBSET Port :
                observed' = [observed EXCEPT ![job[t].host] = ports]
          /\ Goto(t, "ok")
          /\ Unlock(t)
          /\ UNCHANGED <<life, resv, alloc, todo, claimed, seen>>
    /\ UNCHANGED job

-----------------------------------------------------------------------------
(* The host lifecycle, which never takes the host lock.                    *)

ActiveAllocations(h) ==
    {a \in Tx : alloc[a].status = "active" /\ alloc[a].host = h}

BeginDecommission(t, h) ==
    /\ pc[t] = "idle"
    /\ job' = [job EXCEPT ![t] = [NoJob EXCEPT !.op = "decommission",
                                    !.host = h]]
    /\ \/ life[h] = "ABSENT" /\ Answer(t, "failed")
       \/ life[h] = "DECOMMISSIONED" /\ Answer(t, "ok")
       \/ /\ life[h] = "ACTIVE"
          /\ seen' = [seen EXCEPT ![t] = ActiveAllocations(h)]
          /\ Goto(t, "release")
          /\ UNCHANGED <<life, observed, resv, alloc, lock, todo, claimed>>

(* Only the allocations the transaction has read are released; an UPDATE   *)
(* of a row that was purged meanwhile fails.                               *)
CommitDecommission(t) ==
    LET h == job[t].host
        purged == life[h] = "ABSENT" \/ \E a \in seen[t] : alloc[a].status = "none"
    IN  /\ pc[t] = "release"
        /\ \/ purged /\ Answer(t, "failed")
           \/ /\ ~purged
              /\ life' = [life EXCEPT ![h] = "DECOMMISSIONED"]
              /\ \E rows \in Listed(h) :
                    resv' = resv \ {r \in rows : r.alloc \in seen[t]}
              /\ alloc' = [a \in Tx |-> IF a \in seen[t]
                                        THEN [alloc[a] EXCEPT !.status = "released"]
                                        ELSE alloc[a]]
              /\ Goto(t, "ok")
              /\ UNCHANGED <<observed, lock, todo, claimed, seen>>
        /\ UNCHANGED job

ReactivateHost(h) ==
    /\ life[h] = "DECOMMISSIONED"
    /\ life' = [life EXCEPT ![h] = "ACTIVE"]
    /\ UNCHANGED <<observed, resv, alloc, lock, pc, job, todo, claimed, seen>>

(* Remove Record purges every row that refers to the host.                 *)
RemoveHostRecord(h) ==
    /\ life[h] # "ABSENT"
    /\ life' = [life EXCEPT ![h] = "ABSENT"]
    /\ observed' = [observed EXCEPT ![h] = {}]
    /\ resv' = resv \ RowsOf(h)
    /\ alloc' = [a \in Tx |-> IF alloc[a].status # "none" /\ alloc[a].host = h
                              THEN NoAllocation ELSE alloc[a]]
    /\ UNCHANGED <<lock, pc, job, todo, claimed, seen>>

(* enroll_host creates the host row of an unknown host.                    *)
EnrollHost(h) ==
    /\ life[h] = "ABSENT"
    /\ life' = [life EXCEPT ![h] = "ACTIVE"]
    /\ UNCHANGED <<observed, resv, alloc, lock, pc, job, todo, claimed, seen>>

-----------------------------------------------------------------------------
(* A request arrives.                                                      *)
Begin(t) ==
    \E h \in Host :
        \/ \E rid \in RequestId \cup {NoId}, items \in Bundle :
              BeginAllocation(t, h, rid, items)
        \/ \E p \in Port, ad \in Addr \cup {NoAddr}, local \in LocalId \cup {NoLocal} :
              BeginReservation(t, h, p, ad, local)
        \/ BeginIngest(t, h)
        \/ BeginDecommission(t, h)

(* A request that has arrived makes its next step.                         *)
Step(t) ==
    \/ AcquireHostLock(t)
    \/ EnsureHostAllocatable(t)
    \/ ResolveCandidate(t)
    \/ CommitAllocation(t)
    \/ CommitRelease(t)
    \/ InsertReservation(t)
    \/ CommitIngest(t)
    \/ CommitDecommission(t)

Next ==
    \/ \E t \in Tx : Begin(t) \/ Step(t)
    \/ \E t, a \in Tx : BeginRelease(t, a)
    \/ \E r \in resv : DeleteReservation(r)
    \/ \E h \in Host : ReactivateHost(h) \/ RemoveHostRecord(h) \/ EnrollHost(h)

Spec == Init /\ [][Next]_vars

-----------------------------------------------------------------------------
(* Properties.                                                             *)

Final == {"ok", "failed"}
Label == {"idle", "wait", "locked", "resolve", "insert", "release"} \cup Final

(* The tables and the transactions' local state keep their shape, under    *)
(* every interleaving of the handlers.                                     *)
TypeOK ==
    /\ life \in [Host -> {"ABSENT", "ACTIVE", "DECOMMISSIONED"}]
    /\ observed \in [Host -> SUBSET Port]
    /\ resv \subseteq Row
    /\ alloc \in [Tx -> AllocationRow]
    /\ lock \in [Host -> Tx \cup {NoTx}]
    /\ pc \in [Tx -> Label]
    /\ job \in [Tx -> Job]
    /\ todo \in [Tx -> Seq(Item)]
    /\ claimed \in [Tx -> SUBSET Port]
    /\ seen \in [Tx -> SUBSET Tx]

(* No port of a host belongs to two allocation bundles, however the        *)
(* requests that created them overlapped (allocation_service.py 336-341:   *)
(* an overlapping allocation waits and then sees the committed bundle).    *)
NoAllocationDoubleBooking ==
    \A r, q \in resv :
        /\ r.alloc # NoTx
        /\ q.alloc # NoTx
        /\ r.host = q.host
        /\ r.port = q.port
        => r = q

(* A client that retries with its request_id, even while the first attempt *)
(* is still running, never ends up with two allocations.                   *)
RetryNeverDuplicates ==
    \A a, b \in Tx :
        /\ alloc[a].status # "none"
        /\ alloc[b].status # "none"
        /\ alloc[a].rid # NoId
        /\ alloc[a].rid = alloc[b].rid
        => a = b

(* "ALL SUCCESS or NO RESERVATIONS": the rows of a bundle appear in one    *)
(* step, one per requested item, and only disappear afterwards.            *)
BundleAllOrNothing ==
    [][\A a \in Tx :
          \/ RowsOfAllocation(a)' \subseteq RowsOfAllocation(a)
          \/ /\ alloc[a].status = "none"
             /\ alloc'[a].status = "active"
             /\ Cardinality(RowsOfAllocation(a)') = Len(alloc'[a].items)]_vars

(* Ingestion and allocation of one host are serialised by the host lock:   *)
(* no bundle is committed on a port that the host's current observations   *)
(* show in use, although the ports were picked several steps earlier.      *)
CommitAvoidsObserved ==
    [][\A r \in resv' \ resv :
          r.alloc # NoTx => r.port \notin observed[r.host]]_vars

(* What list_allocations shows: each allocation with its rows' ports.      *)
PortsOf(rows, a) == {r.port : r \in {q \in rows : q.alloc = a}}

Grants ==
    [a \in Tx |-> [status |-> alloc[a].status, host |-> alloc[a].host, rid |-> alloc[a].rid,
                   items |-> alloc[a].items, ports |-> PortsOf(resv, a)]]

Ledger == INSTANCE PortLedger
              WITH Id <- Tx, inUse <- observed, grants <- Grants,
                   singles <- {r \in resv : r.alloc = NoTx}

(* Whatever the handlers' steps and their order, the tables change by one  *)
(* whole operation at a time: a bundle appears at once, with a port for    *)
(* every item that it prefers or allows and that is free at that moment,   *)
(* though it was picked several steps earlier, and once for a request_id.  *)
TablesAreLedger == Ledger!LSpec

(* Every released allocation has given back all of its ports.              *)
ReleasedOwnsNothing ==
    \A a \in Tx : alloc[a].status = "released" => RowsOfAllocation(a) = {}

(* A host stays locked only while the request that locked it is at work:   *)
(* whatever way create_allocation, release_allocation and ingest_snapshot  *)
(* end, their transaction ends with them and the next request gets on.     *)
LocksHaveWorkers ==
    \A h \in Host : lock[h] # NoTx =>
        job[lock[h]].host = h /\ pc[lock[h]] \notin {"idle", "wait"} \cup Final

-----------------------------------------------------------------------------
(* What documents say and the code does not keep.                          *)

(* docs/design/host-decommission-lifecycle.md 38-39: a decommissioned host *)
(* holds no active allocation.                                             *)
DecommissionedHoldsNothing ==
    \A a \in Tx : alloc[a].status = "active"
                    => life[alloc[a].host] # "DECOMMISSIONED"
=============================================================================
