---------------------------- MODULE RemoteProbe ----------------------------
(***************************************************************************)
(* Remote bind probes (backend/app/services/probe_service.py): Central     *)
(* queues a question about a port, the host's agent picks it up on a       *)
(* heartbeat, tries the real bind and reports back, and recommendations    *)
(* use the evidence while it is fresh.                                     *)
(*                                                                         *)
(* A session is one agent process talking to Central: the daemon, or a     *)
(* `portforge central sync` run beside it under the same credential.       *)
(* Central's handlers take no lock here, so each is split at the point     *)
(* between its reads and its commit.  Time is kept as ages that saturate   *)
(* one tick past the limit they are compared with.                         *)
(***************************************************************************)
EXTENDS Naturals, FiniteSets, FiniteSetsExt, Functions

CONSTANTS
    Host,
    Port,
    Contended,    \* the ports that programs on the hosts take and free
    ProbeId,      \* rows of host_probes, numbered in creation order
    Session,      \* agent processes
    HostOf,       \* the host whose credential a session presents
    Tx,           \* recommendations, allocations and verifications in progress
    TTL,          \* remote_probe_ttl_seconds, in ticks
    StaleAfter,   \* host_stale_after_seconds, in ticks
    MaxPending,   \* max_pending_probes_per_host
    MaxDelivered, \* max_probes_delivered_per_heartbeat
    ProbeSkips,   \* MAX_PROBE_SKIP_ATTEMPTS
    NoPort, NoProbe

ASSUME HostAssumption == Host # {}
ASSUME PortAssumption ==
    Port \subseteq Nat /\ NoPort \notin Port /\ Contended \subseteq Port
ASSUME ProbeIdAssumption == ProbeId \subseteq Nat /\ NoProbe \notin ProbeId
ASSUME HostOfAssumption == HostOf \in [Session -> Host]
ASSUME LimitAssumption ==
    /\ TTL \in Nat /\ StaleAfter \in Nat /\ MaxPending \in Nat
    /\ MaxDelivered \in Nat /\ ProbeSkips \in Nat
ASSUME ConcurrencyAssumption ==
    /\ IsFiniteSet(Session) /\ Session # {}
    /\ IsFiniteSet(Tx) /\ Tx # {}

VARIABLES
    probe,   \* the rows of host_probes
    quiet,   \* ticks since each host's last heartbeat
    bound,   \* ports in use on each host
    busyFor, \* ticks since each port was last free on its host
    sess,    \* what each agent session is doing
    tx       \* the transaction of each request that queues probes

vars == <<probe, quiet, bound, busyFor, sess, tx>>

-----------------------------------------------------------------------------
Status == {"none", "PENDING", "DELIVERED", "COMPLETED", "FAILED"}

ProbeRow == [status: Status, host: Host, port: Port \cup {NoPort},
             result: {"none", "free", "occupied"}, age: 0..(TTL + 1)]

SessionState ==
    [pc: {"idle", "claim", "probing", "submit", "write"},
     batch: SUBSET ProbeId, cur: ProbeId \cup {NoProbe},
     answer: {"none", "free", "occupied"}]

(* rows: the ports whose probes are flushed and not committed.             *)
TxState == [host: Host, rows: SUBSET Port]

AnyHost == CHOOSE h \in Host : TRUE
NoRow == [status |-> "none", host |-> AnyHost, port |-> NoPort,
          result |-> "none", age |-> 0]
IdleSession == [pc |-> "idle", batch |-> {}, cur |-> NoProbe, answer |-> "none"]
IdleTx == [host |-> AnyHost, rows |-> {}]

Init ==
    /\ probe = [i \in ProbeId |-> NoRow]
    /\ quiet = [h \in Host |-> 0]
    /\ bound \in [Host -> SUBSET Contended]
    /\ busyFor = [h \in Host |-> [p \in Port |-> 0]]
    /\ sess = [s \in Session |-> IdleSession]
    /\ tx = [t \in Tx |-> IdleTx]

-----------------------------------------------------------------------------
(* Queries.                                                                *)

Rows(h) == {i \in ProbeId : probe[i].status # "none" /\ probe[i].host = h}

(* expires_at >= now.                                                      *)
Unexpired(i) == probe[i].age <= TTL

(* count_active_for_host.                                                  *)
Active(h) ==
    {i \in Rows(h) : probe[i].status \in {"PENDING", "DELIVERED"} /\ Unexpired(i)}

(* list_pending_for_host: the oldest MaxDelivered rows.                    *)
PendingBatch(h) ==
    LET pending == {i \in Rows(h) : probe[i].status = "PENDING" /\ Unexpired(i)}
    IN  {i \in pending : Cardinality({j \in pending : j < i}) < MaxDelivered}

(* find_latest_for_binding, as the empty or a singleton set.               *)
Latest(h, p) ==
    LET rows == {i \in Rows(h) : probe[i].port = p}
    IN  {i \in rows : \A j \in rows : j <= i}

(* Mutant of Classify: a result is trusted however old it is.              *)
ClassifyForever(i) ==
    CASE probe[i].status = "FAILED" -> "unavailable"
      [] probe[i].status = "COMPLETED" /\ probe[i].result = "free"
           -> "verified_free"
      [] probe[i].status = "COMPLETED" /\ probe[i].result = "occupied"
           -> "verified_occupied"
      [] OTHER -> "not_remote_capable"

(* classify_bind_probe: a FAILED probe is unavailable whatever its age.    *)
Classify(i) ==
    CASE probe[i].status = "FAILED" -> "unavailable"
      [] probe[i].status = "COMPLETED" /\ ~Unexpired(i) -> "expired"
      [] probe[i].status = "COMPLETED" /\ Unexpired(i)
           /\ probe[i].result = "free" -> "verified_free"
      [] probe[i].status = "COMPLETED" /\ Unexpired(i)
           /\ probe[i].result # "free" -> "verified_occupied"
      [] OTHER -> "not_remote_capable"

(* get_probe_evidence.                                                     *)
Evidence(h, p) ==
    IF Latest(h, p) = {} THEN "not_remote_capable"
    ELSE Classify(CHOOSE i \in Latest(h, p) : TRUE)

-----------------------------------------------------------------------------
(* Requests that queue probes.  queue_probe flushes and the request        *)
(* commits, so a request sees its own rows and the committed ones.  free   *)
(* is what the registry leaves free.                                       *)

Below(free, p) == {q \in free : q < p}

(* The lowest free port not verified occupied; once ProbeSkips ports have  *)
(* been skipped the loop ends and the next free port is taken unexamined.  *)
Candidate(h, free) ==
    LET usable == {p \in free : \/ Evidence(h, p) # "verified_occupied"
                                \/ Cardinality(Below(free, p)) >= ProbeSkips}
    IN  {p \in usable : Below(usable, p) = {}}

Examined(free, p) == Cardinality(Below(free, p)) < ProbeSkips

(* Mutant of WantsProbe: any healthy host is asked again and again.        *)
WantsProbeAlways(t, h, p) ==
    /\ quiet[h] <= StaleAfter
    /\ p \notin tx[t].rows

(* queue_probe's conditions: a HEALTHY host, no unfinished probe for this  *)
(* binding, and room under the cap.  A request ends before its own rows    *)
(* expire.                                                                 *)
WantsProbe(t, h, p) ==
    /\ quiet[h] <= StaleAfter
    /\ p \notin tx[t].rows /\ Latest(h, p) \cap Active(h) = {}
    /\ Cardinality(Active(h)) + Cardinality(tx[t].rows) < MaxPending

(* The row is flushed by a request that has just begun or has queued       *)
(* others; a call that queues nothing changes nothing.                     *)
QueueProbe(t, h, p) ==
    /\ tx[t].rows # {} => tx[t].host = h
    /\ WantsProbe(t, h, p)
    /\ tx' = [tx EXCEPT ![t] = [host |-> h, rows |-> @.rows \cup {p}]]
    /\ UNCHANGED <<probe, quiet, bound, busyFor, sess>>

(* suggest_port queues one probe, when the port it settled on was examined *)
(* and has no fresh verified_free evidence.                                *)
SuggestPort(t, h, free) ==
    /\ tx[t].rows = {}
    /\ \E p \in free :
          /\ QueueProbe(t, h, p)
          /\ Examined(free, p) /\ p \in Candidate(h, free)
          /\ Evidence(h, p) # "verified_free"

(* _resolve_candidate for one item of create_allocation: a preferred free  *)
(* port of which nothing is known, or the search of suggest_port.  Ports   *)
(* of earlier items are no longer free.  The host's lock, which keeps      *)
(* allocations apart, is left out here: verifications take no lock, and    *)
(* two of them already queue whatever two allocations would.               *)
AllocateItem(t, h, free) ==
    /\ free \cap tx[t].rows = {}
    /\ \E p \in free :
          /\ QueueProbe(t, h, p)
          /\ \/ Evidence(h, p) = "not_remote_capable"
             \/ /\ Examined(free, p) /\ p \in Candidate(h, free)
                /\ Evidence(h, p) # "verified_free"

(* verify_allocation queues one probe for every port of the allocation.    *)
VerifyPort(t, h, p) == QueueProbe(t, h, p)

(* The flushed rows become visible together, with the request's commit.    *)
CommitRequest(t) ==
    LET fresh == {i \in ProbeId : probe[i].status = "none"}
    IN  /\ tx[t].rows # {}
        /\ \E id \in [tx[t].rows -> fresh] :
              /\ IsInjective(id)
              /\ \A i \in fresh \ Range(id), p \in tx[t].rows : id[p] < i
              /\ probe' = [i \in ProbeId |->
                    IF i \notin Range(id) THEN probe[i]
                    ELSE [status |-> "PENDING", host |-> tx[t].host,
                          port |-> CHOOSE p \in tx[t].rows : id[p] = i,
                          result |-> "none", age |-> 0]]
        /\ tx' = [tx EXCEPT ![t] = IdleTx]
        /\ UNCHANGED <<quiet, bound, busyFor, sess>>

(* An allocation that finds no port for an item, or loses one to another   *)
(* request, and a request that dies, takes its probes back.                *)
RollbackRequest(t) ==
    /\ tx[t].rows # {}
    /\ tx' = [tx EXCEPT ![t] = IdleTx]
    /\ UNCHANGED <<probe, quiet, bound, busyFor, sess>>

-----------------------------------------------------------------------------
(* The heartbeat: record_heartbeat commits, then claim_pending_probes.     *)

Heartbeat(s) ==
    LET h == HostOf[s]
    IN  /\ sess[s].pc = "idle"
        /\ quiet' = [quiet EXCEPT ![h] = 0]
        /\ sess' = [sess EXCEPT ![s].batch = PendingBatch(h),
                                ![s].pc = IF PendingBatch(h) = {}
                                          THEN "idle" ELSE "claim"]
        /\ UNCHANGED <<probe, bound, busyFor, tx>>

(* The rows read as PENDING are written as DELIVERED, whatever became of   *)
(* them since.  The response may not reach the agent.                      *)
ClaimPendingProbes(s) ==
    /\ sess[s].pc = "claim"
    /\ probe' = [i \in ProbeId |->
                    IF i \in sess[s].batch
                    THEN [probe[i] EXCEPT !.status = "DELIVERED"]
                    ELSE probe[i]]
    /\ \/ sess' = [sess EXCEPT ![s].pc = "probing"]
       \/ sess' = [sess EXCEPT ![s] = IdleSession]
    /\ UNCHANGED <<quiet, bound, busyFor, tx>>

-----------------------------------------------------------------------------
(* process_pending_probes on the agent, and the result it submits.         *)

(* probe_bind: a free port binds; a used port does not; and when no socket *)
(* can be made or the bind is not permitted the answer is "not available"  *)
(* too.  "none" is the unexpected exception, submitted as available=None.  *)
BindOutcome(h, p) ==
    {"occupied", "none"} \cup (IF p \notin bound[h] THEN {"free"} ELSE {})

(* The entries are taken in the order of the response, oldest first.       *)
ProbeBind(s) ==
    /\ sess[s].pc = "probing"
    /\ \E i \in sess[s].batch :
          /\ \A j \in sess[s].batch : i <= j
          /\ \E a \in BindOutcome(HostOf[s], probe[i].port) :
                sess' = [sess EXCEPT ![s] = [pc |-> "submit", cur |-> i,
                                             batch |-> @.batch \ {i},
                                             answer |-> a]]
    /\ UNCHANGED <<probe, quiet, bound, busyFor, tx>>

(* The session after one result: the next entry, or the end of the cycle.  *)
AfterSubmit(s) ==
    IF sess[s].batch = {} THEN IdleSession
    ELSE [sess[s] EXCEPT !.pc = "probing", !.cur = NoProbe, !.answer = "none"]

Answered(i) == probe[i].status \in {"COMPLETED", "FAILED"}

(* submit_result's reads: an answered probe, or another host's, is left    *)
(* alone.  The agent never retries a request that did not get through.     *)
SubmitResult(s) ==
    /\ sess[s].pc = "submit"
    /\ \/ /\ ~Answered(sess[s].cur)
          /\ probe[sess[s].cur].host = HostOf[s]
          /\ sess' = [sess EXCEPT ![s].pc = "write"]
       \/ sess' = [sess EXCEPT ![s] = AfterSubmit(s)]
    /\ UNCHANGED <<probe, quiet, bound, busyFor, tx>>

(* submit_result's UPDATE.  A FAILED result leaves result_available alone. *)
RecordResult(s) ==
    LET i == sess[s].cur
        failed == sess[s].answer = "none"
    IN  /\ sess[s].pc = "write"
        /\ probe' = [probe EXCEPT
              ![i].status = IF failed THEN "FAILED" ELSE "COMPLETED",
              ![i].result = IF failed THEN @ ELSE sess[s].answer]
        /\ sess' = [sess EXCEPT ![s] = AfterSubmit(s)]
        /\ UNCHANGED <<quiet, bound, busyFor, tx>>

-----------------------------------------------------------------------------
(* The host's own processes, and time.                                     *)

BindPort(h, p) ==
    /\ p \notin bound[h]
    /\ bound' = [bound EXCEPT ![h] = @ \cup {p}]
    /\ UNCHANGED <<probe, quiet, busyFor, sess, tx>>

FreePort(h, p) ==
    /\ p \in bound[h]
    /\ bound' = [bound EXCEPT ![h] = @ \ {p}]
    /\ busyFor' = [busyFor EXCEPT ![h][p] = 0]
    /\ UNCHANGED <<probe, quiet, sess, tx>>

Saturate(n, max) == IF n <= max THEN n + 1 ELSE n

Tick ==
    /\ probe' = [i \in ProbeId |->
                    [probe[i] EXCEPT !.age = IF probe[i].status = "none" THEN 0
                                             ELSE Saturate(@, TTL)]]
    /\ quiet' = [h \in Host |-> Saturate(quiet[h], StaleAfter)]
    /\ busyFor' = [h \in Host |-> [p \in Port |->
                      IF p \in bound[h] THEN Saturate(busyFor[h][p], TTL) ELSE 0]]
    /\ UNCHANGED <<bound, sess, tx>>

-----------------------------------------------------------------------------
Next ==
    \/ \E t \in Tx, h \in Host, free \in SUBSET Port :
          SuggestPort(t, h, free) \/ AllocateItem(t, h, free)
    \/ \E t \in Tx, h \in Host, p \in Port : VerifyPort(t, h, p)
    \/ \E t \in Tx : CommitRequest(t) \/ RollbackRequest(t)
    \/ \E s \in Session : \/ Heartbeat(s)
                          \/ ClaimPendingProbes(s)
                          \/ ProbeBind(s)
                          \/ SubmitResult(s)
                          \/ RecordResult(s)
    \/ \E h \in Host, p \in Contended : BindPort(h, p) \/ FreePort(h, p)
    \/ Tick

Spec == Init /\ [][Next]_vars

-----------------------------------------------------------------------------
(* Rows, sessions and requests keep their types.                           *)
TypeOK ==
    /\ probe \in [ProbeId -> ProbeRow]
    /\ quiet \in [Host -> 0..(StaleAfter + 1)]
    /\ bound \in [Host -> SUBSET Port]
    /\ busyFor \in [Host -> [Port -> 0..(TTL + 1)]]
    /\ sess \in [Session -> SessionState]
    /\ tx \in [Tx -> TxState]

(* A recommendation marked locally_verified is honest: when Central        *)
(* classifies a port verified_free, the port really was free on that host  *)
(* within the probe's lifetime, whatever was delayed, lost, delivered      *)
(* twice or bound since.                                                   *)
VerifiedFreeIsHonest ==
    \A h \in Host, p \in Port :
        Evidence(h, p) = "verified_free" =>
            \E i \in Latest(h, p) : busyFor[h][p] <= probe[i].age
                                    /\ probe[i].age <= TTL

(* The flushed and uncommitted probes of a host, each with its request.    *)
Flushed(h) == {r \in Tx \X Port : tx[r[1]].host = h /\ r[2] \in tx[r[1]].rows}

(* The cap of queue_probe holds for what one request sees.  Requests at    *)
(* the same time do not see each other's rows, so a host can be left with  *)
(* the cap once for each of them; and late delivery marks of the other     *)
(* sessions revive answered probes.  Nothing else exceeds it.              *)
QueueStaysBounded ==
    \A h \in Host :
        Cardinality(Active(h)) + Cardinality(Flushed(h))
            <= MaxPending * Cardinality(Tx)
                 + MaxDelivered * (Cardinality(Session) - 1)

=============================================================================
