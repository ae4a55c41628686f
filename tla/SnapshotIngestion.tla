-------------------------- MODULE SnapshotIngestion --------------------------
(***************************************************************************)
(* One host's scans and what Central makes of them                         *)
(* (agent/portforge_agent/runtime/sync.py, central_sync.py and             *)
(* backend/app/services/ingestion_service.py).                             *)
(*                                                                         *)
(* A sender is a process of the host that reports: the daemon, a           *)
(* `portforge agent sync`, or a `portforge central sync`.  It discovers    *)
(* the host's ports, stamps the result with a time and submits the whole   *)
(* of it.  A sender that stops waiting leaves its request behind, and      *)
(* Central may still handle it, after newer ones.  Ingestion holds the     *)
(* host's advisory lock from its first read to its only commit, so it is   *)
(* one step.                                                               *)
(***************************************************************************)
EXTENDS Naturals, FiniteSets, FiniteSetsExt, Sequences

CONSTANTS
    Sender,
    Early,       \* senders that stamp before they discover: `central sync`
    Binding,     \* (port, protocol, bind address)
    Usage,       \* what can hold a binding on the host
    MaxBatch,    \* max_observations_per_snapshot
    MaxScans,    \* bound: scans begun
    MaxChanges,  \* bound: changes of the host's ports
    MaxRepeats   \* bound: requests delivered a second time

(* An observation of a binding.  process and container are 0 when it has   *)
(* none, and are otherwise numbered in the order of their names.           *)
Row == [source: {"docker", "process"}, process: Nat, pid: Nat, container: Nat]

(* The processes that share a binding, and the container that publishes it *)
(* (0 for none).                                                           *)
Usages == [owners: SUBSET [process: Nat \ {0}, pid: Nat], container: Nat]
Unused == [owners |-> {}, container |-> 0]

ASSUME UsageAssumption ==
    /\ Usage \subseteq Usages
    /\ \A u \in Usage : IsFiniteSet(u.owners)
ASSUME SenderAssumption == Early \subseteq Sender
ASSUME BoundAssumption ==
    /\ MaxBatch \in Nat /\ MaxScans \in Nat
    /\ MaxChanges \in Nat /\ MaxRepeats \in Nat

VARIABLES
    used,      \* what holds each binding of the host now
    changes,   \* how often it changed
    clock,
    sender,    \* what each sender is doing
    begun,     \* scans begun so far
    requests,  \* submissions Central has still to handle
    repeats,   \* requests delivered a second time
    lastScan,  \* hosts.last_scan_observed_at, 0 for NULL
    scans,     \* ids of the scans table
    current,   \* current_port_observations: per binding no row or one
    events,    \* port_observation_events of each binding
    compared,  \* history: the times Central compared with lastScan
    accepted   \* history: the submissions it accepted

vars == <<used, changes, clock, sender, begun, requests,
          repeats, lastScan, scans, current, events, compared, accepted>>

-----------------------------------------------------------------------------
Snapshot == [Binding -> SUBSET Row]
Id == 1..MaxScans

(* busy and whole are history: the bindings in use at the discovery, and   *)
(* whether both collectors worked.                                         *)
Submission == [id: Id, at: Nat, ports: Snapshot, busy: SUBSET Binding, whole: BOOLEAN]
Event == [kind: {"appeared", "changed", "disappeared"}, process: Nat, at: Nat]

(* synced is the time of the last snapshot the sender was told was taken   *)
(* (state.last_sync).                                                      *)
Discovery == [ports: Snapshot, busy: SUBSET Binding, whole: BOOLEAN]

SenderState == [pc: {"idle", "begun", "waiting"}, at: Nat, scan: Discovery,
                id: 0..MaxScans, synced: Nat]

NoScan == [ports |-> [b \in Binding |-> {}], busy |-> {}, whole |-> TRUE]

Init ==
    /\ used \in [Binding -> Usage]
    /\ sender = [s \in Sender |-> [pc |-> "idle", at |-> 0, scan |-> NoScan,
                                   id |-> 0, synced |-> 0]]
    /\ clock = 1
    /\ changes = 0 /\ begun = 0 /\ repeats = 0 /\ lastScan = 0
    /\ requests = {} /\ scans = {} /\ compared = {} /\ accepted = {}
    /\ current = [b \in Binding |-> {}]
    /\ events = [b \in Binding |-> <<>>]

-----------------------------------------------------------------------------
(* discover_all_ports.                                                     *)

FromProcess(o) == [source |-> "process", process |-> o.process,
                   pid |-> o.pid, container |-> 0]
FromDocker(c) == [source |-> "docker", process |-> 0, pid |-> 0, container |-> c]
Merged(c, o) == [FromProcess(o) EXCEPT !.source = "docker", !.container = c]

(* What can be returned for a binding, by which of the two discoveries     *)
(* work.  merge_native_and_docker folds one of the processes into the      *)
(* container's record and drops the others.                                *)
Seen(u, native, docker) ==
    LET owners == IF native THEN u.owners ELSE {}
        visible == docker /\ u.container # 0
    IN  CASE visible /\ owners = {} -> {{FromDocker(u.container)}}
          [] visible /\ owners # {}
               -> {{Merged(u.container, o)} : o \in owners}
          [] OTHER -> {{FromProcess(o) : o \in owners}}

(* A collector that fails is logged and leaves its part out: discover_ports*)
(* and discover_docker_ports return an empty list.                         *)
Found(native, docker) ==
    {ports \in [Binding -> UNION {Seen(used[b], native, docker) : b \in Binding}] :
        \A b \in Binding : ports[b] \in Seen(used[b], native, docker)}

Discoverable ==
    LET busy == {b \in Binding : used[b] # Unused}
    IN  UNION {{[ports |-> ports, busy |-> busy, whole |-> n /\ d] : ports \in Found(n, d)} :
                   n, d \in BOOLEAN}

-----------------------------------------------------------------------------
(* _canonicalize_observations: one observation per binding.                *)

Present(n) == IF n = 0 THEN 0 ELSE 1

(* _observation_sort_key, over the fields an observation has here.         *)
SortKey(o) ==
    <<IF o.source = "docker" THEN 2 ELSE 1, Present(o.process),
      Present(o.container), o.process, o.container, o.pid>>

Outranks(o, p) ==
    LET k == SortKey(o)
        l == SortKey(p)
    IN  \E i \in DOMAIN k : k[i] > l[i] /\ \A j \in 1..(i - 1) : k[j] = l[j]

Best(group) == CHOOSE o \in group : \A p \in group \ {o} : Outranks(o, p)

(* _merge_observation_group: a group of fields the winner lacks altogether *)
(* is taken from the best observation that has it, never field by field.   *)
Merge(group) ==
    LET best == Best(group)
        owned == {o \in group : o.process # 0 \/ o.pid # 0}
        contained == {o \in group : o.container # 0}
        owner == IF best \in owned \/ owned = {} THEN best ELSE Best(owned)
        box == IF best \in contained \/ contained = {} THEN best
               ELSE Best(contained)
    IN  [source |-> best.source, process |-> owner.process,
         pid |-> owner.pid, container |-> box.container]

(* Mutant of RowsOf: duplicates of a binding are stored as they come.      *)
RowsOfRaw(ports) == [b \in Binding |-> ports[b]]

(* Mutant of RowsOf: a binding with several owners is left out.            *)
RowsOfSingle(ports) ==
    [b \in Binding |-> IF Cardinality(ports[b]) = 1 THEN ports[b] ELSE {}]

(* The rows a snapshot stands for.                                         *)
RowsOf(ports) ==
    [b \in Binding |-> IF ports[b] = {} THEN {} ELSE {Merge(ports[b])}]

BatchSize(ports) == MapThenSumSet(LAMBDA b : Cardinality(ports[b]), Binding)

-----------------------------------------------------------------------------
(* The event ingest_snapshot records for a binding, or none.               *)

Only(rows) == CHOOSE r \in rows : TRUE

(* _CHANGE_FIELDS.                                                         *)
Identity(r) == <<r.process, r.container>>

Note(kind, r, at) == <<[kind |-> kind, process |-> r.process, at |-> at]>>

(* Mutant of Happened: a new owner of a known port goes unrecorded.        *)
HappenedQuietly(old, new, at) ==
    CASE old = {} /\ new # {} -> Note("appeared", Only(new), at)
      [] old # {} /\ new = {} -> Note("disappeared", Only(old), at)
      [] OTHER -> <<>>

(* Mutant of Happened: every confirmation of a port is recorded again.     *)
HappenedAlways(old, new, at) ==
    CASE new # {} -> Note("appeared", Only(new), at)
      [] old # {} /\ new = {} -> Note("disappeared", Only(old), at)
      [] OTHER -> <<>>

Happened(old, new, at) ==
    CASE old = {} /\ new # {} -> Note("appeared", Only(new), at)
      [] old # {} /\ new = {} -> Note("disappeared", Only(old), at)
      [] old # {} /\ new # {} /\ Identity(Only(old)) # Identity(Only(new))
           -> Note("changed", Only(new), at)
      [] OTHER -> <<>>

-----------------------------------------------------------------------------
(* The host.                                                               *)

(* Bound: changes that no scan is left to see are not made.                *)
Change(b) ==
    /\ changes < MaxChanges /\ begun < MaxScans
    /\ \E u \in Usage \ {used[b]} : used' = [used EXCEPT ![b] = u]
    /\ changes' = changes + 1
    /\ UNCHANGED <<clock, sender, begun, requests, repeats,
                   lastScan, scans, current, events, compared, accepted>>

(* Time that passes until it is looked at: less than a tick, or one.       *)
Now == {clock, clock + 1}

(* A new scan.  Whatever the sender was at is over: the scan failed, or    *)
(* its client timed out and the daemon captures afresh, its buffered       *)
(* snapshot replaced.  sync_now takes its time first; capture_snapshot     *)
(* discovers first.  The scan's id is a new uuid; here scans are numbered. *)
Begin(s) ==
    /\ begun < MaxScans
    /\ begun' = begun + 1
    /\ \/ /\ s \in Early
          /\ \E t \in Now :
                /\ clock' = t
                /\ sender' = [sender EXCEPT ![s] =
                     [pc |-> "begun", at |-> t, scan |-> NoScan,
                      id |-> begun + 1, synced |-> @.synced]]
       \/ /\ s \notin Early
          /\ \E scan \in Discoverable :
                sender' = [sender EXCEPT ![s] =
                     [pc |-> "begun", at |-> 0, scan |-> scan,
                      id |-> begun + 1, synced |-> @.synced]]
          /\ UNCHANGED clock
    /\ UNCHANGED <<used, changes, requests, repeats, lastScan, scans,
                   current, events, compared, accepted>>

Request(s, t, scan) == [id |-> sender[s].id, at |-> t, ports |-> scan.ports,
                        busy |-> scan.busy, whole |-> scan.whole]

(* What the sender had not done yet, then submit_observations.             *)
Submit(s) ==
    /\ sender[s].pc = "begun"
    /\ \/ /\ s \in Early
          /\ \E scan \in Discoverable : requests' =
                requests \cup {Request(s, sender[s].at, scan)}
          /\ UNCHANGED clock
       \/ /\ s \notin Early
          /\ \E t \in Now :
                /\ clock' = t
                /\ requests' = requests \cup {Request(s, t, sender[s].scan)}
    /\ sender' = [sender EXCEPT ![s].pc = "waiting", ![s].at = 0,
                                ![s].scan = NoScan]
    /\ UNCHANGED <<used, changes, begun, repeats, lastScan, scans,
                   current, events, compared, accepted>>

-----------------------------------------------------------------------------
(* Central: ingest_snapshot, by its outcome.                               *)

(* The answer reaches whoever waits for it, or is lost; only a success     *)
(* counts as a sync.                                                       *)
Hear(m, ok) ==
    \E s \in Sender :
        /\ sender[s].pc = "waiting" /\ sender[s].id = m.id
        /\ sender' = [sender EXCEPT ![s].pc = "idle", ![s].id = 0,
                                    ![s].synced = IF ok THEN m.at ELSE @]

(* The request is used up, or the network delivers it once more.           *)
Answer(m, ok) ==
    /\ Hear(m, ok) \/ UNCHANGED sender
    /\ \/ requests' = requests \ {m} /\ UNCHANGED repeats
       \/ /\ repeats < MaxRepeats
          /\ repeats' = repeats + 1
          /\ UNCHANGED requests
    /\ UNCHANGED <<used, changes, clock, begun>>

(* BatchTooLargeError.                                                     *)
Oversized(m) == BatchSize(m.ports) > MaxBatch

(* Mutant of Stale: only a scan with the very same time is rejected.       *)
StaleIfEqual(m) == lastScan # 0 /\ m.at = lastScan

(* observed_at <= last_scan_observed_at.                                   *)
Stale(m) == lastScan # 0 /\ m.at <= lastScan

RefuseOversized(m) ==
    /\ m \in requests /\ Oversized(m)
    /\ Answer(m, FALSE)
    /\ UNCHANGED <<lastScan, scans, current, events, compared, accepted>>

(* A scan id Central has already accepted.                                 *)
AcceptAgain(m) ==
    /\ m \in requests /\ ~Oversized(m) /\ m.id \in scans
    /\ Answer(m, TRUE)
    /\ UNCHANGED <<lastScan, scans, current, events, compared, accepted>>

RefuseStale(m) ==
    /\ m \in requests /\ ~Oversized(m) /\ m.id \notin scans /\ Stale(m)
    /\ Answer(m, FALSE)
    /\ compared' = compared \cup {m.at}
    /\ UNCHANGED <<lastScan, scans, current, events, accepted>>

Accept(m) ==
    /\ m \in requests /\ ~Oversized(m) /\ m.id \notin scans /\ ~Stale(m)
    /\ Answer(m, TRUE)
    /\ compared' = compared \cup {m.at}
    /\ accepted' = accepted \cup {m}
    /\ current' = RowsOf(m.ports)
    /\ events' = [b \in Binding |->
                    events[b] \o Happened(current[b], RowsOf(m.ports)[b], m.at)]
    /\ scans' = scans \cup {m.id}
    /\ lastScan' = m.at

-----------------------------------------------------------------------------
SenderStep(s) == Begin(s) \/ Submit(s)

CentralStep(m) ==
    RefuseOversized(m) \/ AcceptAgain(m) \/ RefuseStale(m) \/ Accept(m)

Next ==
    \/ \E b \in Binding : Change(b)
    \/ \E s \in Sender : SenderStep(s)
    \/ \E m \in requests : CentralStep(m)

Spec == Init /\ [][Next]_vars

-----------------------------------------------------------------------------
(* Properties.                                                             *)

TypeOK ==
    /\ used \in [Binding -> Usage] /\ clock \in Nat \ {0}
    /\ changes \in 0..MaxChanges /\ repeats \in 0..MaxRepeats
    /\ begun \in 0..MaxScans
    /\ sender \in [Sender -> SenderState]
    /\ requests \subseteq Submission /\ accepted \subseteq Submission
    /\ compared \subseteq Nat
    /\ lastScan \in Nat /\ scans \subseteq Id
    /\ current \in [Binding -> SUBSET Row]
    /\ \A b \in Binding : Cardinality(current[b]) <= 1
    /\ events \in [Binding -> Seq(Event)]

(* However late, reordered or repeated the submissions arrive, the current *)
(* rows are those of the newest snapshot Central has looked at             *)
(* (ingest_snapshot's staleness check, full replacement and single commit).*)
CurrentIsNewest ==
    IF lastScan = 0 THEN compared = {} /\ current = [b \in Binding |-> {}]
    ELSE /\ \A t \in compared : t <= lastScan
         /\ \E m \in accepted : m.at = lastScan /\ current = RowsOf(m.ports)

(* The history of a port tells what holds it now: its last event is a      *)
(* disappearance exactly when it has no row, and otherwise names the       *)
(* process in the row (the events ingest_snapshot derives by comparing     *)
(* the old rows with the snapshot).                                        *)
HistoryExplainsCurrent ==
    \A b \in Binding :
        LET last == events[b][Len(events[b])]
        IN  IF events[b] = <<>> THEN current[b] = {}
            ELSE /\ last.kind = "disappeared" <=> current[b] = {}
                 /\ \A r \in current[b] : r.process = last.process

(* The history of a port is a sequence of lives: it appears only when it   *)
(* was gone, changes or goes only while it is there, and every event is    *)
(* later than the one before.  A repeated or older submission, or a scan   *)
(* that finds nothing new, adds nothing.                                   *)
HistoryIsOrdered ==
    \A b \in Binding : \A i \in DOMAIN events[b] :
        LET e == events[b][i]
            gone == i = 1 \/ events[b][i - 1].kind = "disappeared"
        IN  /\ e.kind = "appeared" <=> gone
            /\ i > 1 => events[b][i - 1].at < e.at

(* Of complete scans a row goes only because the port was free when the    *)
(* snapshot was taken, whatever its owners and however they were merged:   *)
(* a submission is "a complete scan, not an incremental delta"             *)
(* (ingestion_service.py).  One made while a collector failed is           *)
(* submitted alike and takes rows of ports that are in use with it.        *)
OnlyFreePortsDisappear ==
    [][\A b \in Binding : current[b] # {} /\ current'[b] = {} =>
         \E m \in accepted' : m.at = lastScan' /\ (b \in m.busy => ~m.whole)]_vars

(* A sender that believes it is in sync is: Central has taken the snapshot *)
(* it was told was taken, or a later one (flush_snapshot's last_sync).     *)
SyncedIsTaken == \A s \in Sender : sender[s].synced <= lastScan

=============================================================================
