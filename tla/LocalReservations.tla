------------------------- MODULE LocalReservations -------------------------
(***************************************************************************)
(* The agent's own reservations (agent/portforge_agent/reserve_ops.py,     *)
(* recommend.py, reservations/ and identity.py): portforge commands that   *)
(* run at the same time on one machine, read and rewrite reservations.json *)
(* under a file lock, and get killed, fail or time out anywhere.           *)
(*                                                                         *)
(* A process is one command at a time: main() fetches the host identity    *)
(* and migrates old rows (phase "main"), then the command itself runs      *)
(* (phase "cmd").  Only the fields of a reservation that decide ownership  *)
(* are kept, so refreshing one leaves the model's file as it is.           *)
(***************************************************************************)
EXTENDS Naturals, FiniteSets

CONSTANTS
    Proc,
    Port,             \* (port, protocol) pairs; a service type's range
    Project,
    Owner,            \* whom discovery sees behind a listener
    HostId,
    Legacy,
    UuidOf,           \* the UUID a process would generate on first run
    InitialIdentity,  \* the host identity file at the start
    InitialFile,      \* the reservation file at the start
    MaxId,            \* bound on reservations ever created
    NoHost, NoProc, NoProject, Nobody

VARIABLES
    identity,  \* host.json
    file,      \* reservations.json
    lock,      \* holder of the flock on reservations.lock
    lastId,    \* the newest reservation id
    listener,  \* who listens on each port right now
    proc       \* what each process is doing

vars == <<identity, file, lock, lastId, listener, proc>>

(* What the file promises.                                                 *)
Registry == INSTANCE ReservationRegistry WITH claims <- file

Row == Registry!Claim

ASSUME HostAssumption ==
    Legacy \notin HostId /\ NoHost \notin HostId \cup {Legacy}
ASSUME UuidAssumption == UuidOf \in [Proc -> HostId]
ASSUME OwnerAssumption == Nobody \notin Owner
ASSUME ProcAssumption == NoProc \notin Proc
ASSUME ProjectAssumption == NoProject \notin Project
ASSUME InitialAssumption ==
    /\ InitialIdentity \in HostId \cup {NoHost}
    /\ InitialFile \in SUBSET Row
    /\ \A r, s \in InitialFile : r.id = s.id => r = s
ASSUME MaxIdAssumption ==
    MaxId \in Nat /\ \A r \in InitialFile : r.id <= MaxId

-----------------------------------------------------------------------------
Command ==
    [kind: {"reserve", "recommend", "release", "release_id"},
     todo: SUBSET Port,   \* ports still to reserve or release; the range
     project: Project \cup {NoProject},
     id: Nat]

ProcState ==
    [pc: {"idle", "ident", "create", "check", "discover", "wait", "load", "save"},
     phase: {"main", "cmd"},
     op: Command,
     host: HostId \cup {Legacy, NoHost},
     seen: [Port -> Owner \cup {Nobody}],  \* the discovery taken earlier
     out: SUBSET Row,                      \* the list about to be saved
     done: SUBSET Port]                    \* the port that list settles

NoSight == [x \in Port |-> Nobody]
NoOp == [kind |-> "release", todo |-> {}, project |-> NoProject, id |-> 0]
Idle == [pc |-> "idle", phase |-> "main", op |-> NoOp, host |-> NoHost,
         seen |-> NoSight, out |-> {}, done |-> {}]

Init ==
    /\ identity = InitialIdentity
    /\ file = InitialFile
    /\ lock = NoProc
    /\ lastId \in {n \in 0..MaxId : /\ \A r \in InitialFile : r.id <= n
                                    /\ \/ n = 0
                                       \/ \E r \in InitialFile : r.id = n}
    /\ listener = NoSight
    /\ proc = [p \in Proc |-> Idle]

-----------------------------------------------------------------------------
(* Commands.                                                               *)

Creates(op) == op.kind \in {"reserve", "recommend"}

(* What a command line can ask for.  A reserve of several ports is         *)
(* sync_project_reservations; only release --id may omit the project.      *)
Commands ==
    {op \in [kind: {"reserve", "recommend", "release"}, todo: SUBSET Port,
             project: Project, id: {0}] :
        /\ op.todo # {}
        /\ op.kind = "recommend" => op.todo = Port
        /\ op.kind = "release" => Cardinality(op.todo) = 1}
    \cup [kind: {"release_id"}, todo: {{}}, project: Project \cup {NoProject},
          id: 1..lastId]

(* MaxId leaves room for every process to fill every port.                 *)
Start(p, op) ==
    /\ proc[p].pc = "idle"
    /\ Creates(op) => lastId + Cardinality(Proc \X Port) <= MaxId
    /\ proc' = [proc EXCEPT ![p] = [Idle EXCEPT !.pc = "ident", !.op = op]]
    /\ UNCHANGED <<identity, file, lock, lastId, listener>>

(* args.func(args): release --id never asks for the host id.               *)
RunCommand(s) ==
    [Idle EXCEPT !.pc = IF s.op.kind = "release_id" THEN "wait" ELSE "ident",
                 !.phase = "cmd", !.op = s.op]

(* sync_project_reservations goes on with its next entry.                  *)
Finish(s, done) ==
    IF s.phase = "main" THEN RunCommand(s)
    ELSE IF s.op.kind = "reserve" /\ s.op.todo # done
    THEN [Idle EXCEPT !.pc = "ident", !.phase = "cmd",
                      !.op = [s.op EXCEPT !.todo = @ \ done]]
    ELSE Idle

-----------------------------------------------------------------------------
(* get_host_id and get_or_create_host_identity.                            *)

(* Where the caller goes on with the host id it was given.                 *)
WithHost(s, h) ==
    [s EXCEPT !.host = h,
              !.pc = IF s.phase = "main" THEN "check"
                     ELSE IF Creates(s.op) THEN "discover" ELSE "wait"]

(* load_host_identity finds a file, or a new UUID is made.                 *)
GetHostId(p) ==
    /\ proc[p].pc = "ident"
    /\ proc' = [proc EXCEPT ![p] = IF identity = NoHost
                                   THEN [@ EXCEPT !.pc = "create"]
                                   ELSE WithHost(@, identity)]
    /\ UNCHANGED <<identity, file, lock, lastId, listener>>

(* _save_host_identity replaces whatever is there; if the file cannot be   *)
(* written get_host_id falls back to the hostname.                         *)
CreateIdentity(p) ==
    /\ proc[p].pc = "create"
    /\ \/ /\ identity' = UuidOf[p]
          /\ proc' = [proc EXCEPT ![p] = WithHost(@, UuidOf[p])]
       \/ /\ identity' = identity
          /\ proc' = [proc EXCEPT ![p] = WithHost(@, Legacy)]
    /\ UNCHANGED <<file, lock, lastId, listener>>

-----------------------------------------------------------------------------
(* migrate_legacy_reservations, as far as its look without the lock.       *)
MigrateCheck(p) ==
    /\ proc[p].pc = "check"
    /\ proc' = [proc EXCEPT ![p] =
                  IF proc[p].host # Legacy /\ \E r \in file : r.host = Legacy
                  THEN [@ EXCEPT !.pc = "wait"]
                  ELSE RunCommand(@)]
    /\ UNCHANGED <<identity, file, lock, lastId, listener>>

(* discover_all_ports, before the lock is asked for.                       *)
Discover(p) ==
    /\ proc[p].pc = "discover"
    /\ proc' = [proc EXCEPT ![p].pc = "wait", ![p].seen = listener]
    /\ UNCHANGED <<identity, file, lock, lastId, listener>>

-----------------------------------------------------------------------------
(* reservation_lock.                                                       *)

(* Mutant of AcquireLock: the lock is taken whoever holds it.              *)
AcquireAnyway(p) ==
    /\ proc[p].pc = "wait"
    /\ lock' = p
    /\ proc' = [proc EXCEPT ![p].pc = "load"]
    /\ UNCHANGED <<identity, file, lastId, listener>>

AcquireLock(p) ==
    /\ proc[p].pc = "wait"
    /\ lock = NoProc
    /\ lock' = p
    /\ proc' = [proc EXCEPT ![p].pc = "load"]
    /\ UNCHANGED <<identity, file, lastId, listener>>

(* Mutant of LockTimeout: there is no deadline.                            *)
WaitForever(p) == FALSE /\ UNCHANGED vars

(* LockTimeoutError: main() swallows it during the migration and runs the  *)
(* command; in a command it ends the process.                              *)
LockTimeout(p) ==
    /\ proc[p].pc = "wait"
    /\ lock # NoProc
    /\ proc' = [proc EXCEPT ![p] = IF @.phase = "main" THEN RunCommand(@)
                                   ELSE Idle]
    /\ UNCHANGED <<identity, file, lock, lastId, listener>>

-----------------------------------------------------------------------------
(* Under the lock: the file is loaded and the operation decided.           *)

(* Mutant of Matching: rows are still looked up by the hostname.           *)
MatchingHostname(h, x) == {r \in file : r.host = Legacy /\ r.port = x}

Matching(h, x) == {r \in file : r.host = h /\ r.port = x}

(* _find_exact's result, as the empty or a singleton set: the first match. *)
FindExact(h, x) ==
    {r \in Matching(h, x) : \A s \in Matching(h, x) : r.id <= s.id}

(* The list to save, and the port it settles.                              *)
WillSave(p, rows, done) ==
    /\ proc' = [proc EXCEPT ![p].pc = "save", ![p].out = rows, ![p].done = done]
    /\ UNCHANGED lock

(* Nothing to write: the with block is left.                               *)
LeaveLock(p, done) ==
    /\ proc' = [proc EXCEPT ![p] = Finish(@, done)]
    /\ lock' = NoProc
    /\ UNCHANGED lastId

NewRow(p, x) ==
    [id |-> lastId + 1, host |-> proc[p].host, port |-> x,
     project |-> proc[p].op.project]

Create(p, x) ==
    /\ lastId' = lastId + 1
    /\ WillSave(p, file \cup {NewRow(p, x)}, {x})

Migrate(p) ==
    /\ proc[p].phase = "main"
    /\ IF \E r \in file : r.host = Legacy
       THEN WillSave(p, Registry!Moved(proc[p].host, file), {}) /\ UNCHANGED lastId
       ELSE LeaveLock(p, {})

(* reserve, for one of the ports: refreshed for the same project, refused  *)
(* when another project holds it or the listener seen is another's.        *)
Reserve(p) ==
    /\ proc[p].phase = "cmd" /\ proc[p].op.kind = "reserve"
    /\ \E x \in proc[p].op.todo :
          LET existing == FindExact(proc[p].host, x)
              vacant == Matching(proc[p].host, x) = {}
              mine == proc[p].op.project
          IN  \/ /\ \E r \in existing : r.project = mine
                 /\ WillSave(p, file, {x}) /\ UNCHANGED lastId
              \/ /\ \/ \E r \in existing : r.project # mine
                    \/ vacant /\ proc[p].seen[x] \notin {Nobody, mine}
                 /\ LeaveLock(p, {x})
              \/ /\ vacant /\ proc[p].seen[x] \in {Nobody, mine}
                 /\ Create(p, x)

(* Mutant of RecommendAndReserve: only listeners and the bind decide.      *)
RecommendBindable(p) ==
    /\ proc[p].phase = "cmd" /\ proc[p].op.kind = "recommend"
    /\ \/ \E x \in Port : /\ proc[p].seen[x] = Nobody
                          /\ listener[x] = Nobody
                          /\ Create(p, x)
       \/ LeaveLock(p, Port)

(* recommend_and_reserve: the first port of the range that nobody was seen *)
(* on, nobody reserved and that binds.  A lower port may fail to bind for  *)
(* reasons of its own (not permitted, in use for a moment), so any such    *)
(* port may be the first, or none.                                         *)
RecommendAndReserve(p) ==
    /\ proc[p].phase = "cmd" /\ proc[p].op.kind = "recommend"
    /\ \/ \E x \in Port : /\ proc[p].seen[x] = Nobody
                          /\ Matching(proc[p].host, x) = {}
                          /\ listener[x] = Nobody
                          /\ Create(p, x)
       \/ LeaveLock(p, Port)

(* release: absent is success, another project's is refused.               *)
Release(p) ==
    /\ proc[p].phase = "cmd" /\ proc[p].op.kind = "release"
    /\ \E x \in proc[p].op.todo :
          LET existing == {r \in FindExact(proc[p].host, x) :
                              r.project = proc[p].op.project}
          IN  \/ \E r \in existing : WillSave(p, file \ {r}, {}) /\ UNCHANGED lastId
              \/ existing = {} /\ LeaveLock(p, {x})

(* release_by_id: the project is compared only when one is given.          *)
ReleaseById(p) ==
    /\ proc[p].phase = "cmd" /\ proc[p].op.kind = "release_id"
    /\ LET existing == {r \in file : /\ r.id = proc[p].op.id
                                     /\ proc[p].op.project \in {NoProject, r.project}}
       IN  \/ \E r \in existing : WillSave(p, file \ {r}, {}) /\ UNCHANGED lastId
           \/ existing = {} /\ LeaveLock(p, {})

LoadAndDecide(p) ==
    /\ proc[p].pc = "load"
    /\ \/ Migrate(p) \/ Reserve(p) \/ RecommendAndReserve(p)
       \/ Release(p) \/ ReleaseById(p)
    /\ UNCHANGED <<identity, file, listener>>

-----------------------------------------------------------------------------
(* ReservationStore.save replaces the file in one step; then the lock is   *)
(* given back.                                                             *)
Save(p) ==
    /\ proc[p].pc = "save"
    /\ file' = proc[p].out
    /\ lock' = NoProc
    /\ proc' = [proc EXCEPT ![p] = Finish(@, @.done)]
    /\ UNCHANGED <<identity, lastId, listener>>

(* The process is killed, or the save fails and the exception ends it: the *)
(* file stays as it was and the lock goes with the process.                *)
Crash(p) ==
    /\ proc[p].pc # "idle"
    /\ proc' = [proc EXCEPT ![p] = Idle]
    /\ lock' = IF lock = p THEN NoProc ELSE lock
    /\ UNCHANGED <<identity, file, lastId, listener>>

(* Programs on the machine come and go.                                    *)
Listen(x, o) ==
    /\ listener[x] = Nobody
    /\ listener' = [listener EXCEPT ![x] = o]
    /\ UNCHANGED <<identity, file, lock, lastId, proc>>

Close(x) ==
    /\ listener[x] # Nobody
    /\ listener' = [listener EXCEPT ![x] = Nobody]
    /\ UNCHANGED <<identity, file, lock, lastId, proc>>

-----------------------------------------------------------------------------
ProcStep(p) ==
    \/ GetHostId(p) \/ CreateIdentity(p) \/ MigrateCheck(p) \/ Discover(p)
    \/ AcquireLock(p) \/ LockTimeout(p) \/ LoadAndDecide(p) \/ Save(p)

Next ==
    \/ \E p \in Proc : \/ \E op \in Commands : Start(p, op)
                       \/ ProcStep(p)
                       \/ Crash(p)
    \/ \E x \in Port : Close(x) \/ \E o \in Owner : Listen(x, o)

Spec == Init /\ [][Next]_vars

(* A command that is running gets its turn; nobody has to start one.       *)
FairSpec == Spec /\ \A p \in Proc : WF_vars(ProcStep(p))

-----------------------------------------------------------------------------
(* Processes, rows and the lock keep their types.                          *)
TypeOK ==
    /\ identity \in HostId \cup {NoHost}
    /\ file \in SUBSET Row
    /\ lock \in Proc \cup {NoProc}
    /\ lastId \in Nat
    /\ listener \in [Port -> Owner \cup {Nobody}]
    /\ proc \in [Proc -> ProcState]

(* Every command of every process, killed or failing anywhere, acts on the *)
(* reservation file as one whole operation on its current content: no      *)
(* update is lost and no half of one is seen (reservation_lock around      *)
(* load..save, and save's replace).                                        *)
FileIsRegistry == Registry!RSpec

(* A command that removes reservation r: release by its project, or        *)
(* release --id.                                                           *)
Names(p, r) ==
    /\ proc[p].phase = "cmd"
    /\ \/ /\ proc[p].op.kind = "release"
          /\ r.project = proc[p].op.project
          /\ r.port \in proc[p].op.todo
       \/ /\ proc[p].op.kind = "release_id"
          /\ proc[p].op.id = r.id
          /\ proc[p].op.project \in {NoProject, r.project}

Kept(r, rows) ==
    \E s \in rows : s.id = r.id /\ s.port = r.port /\ s.project = r.project

(* A reservation changes hands or disappears only through the release that *)
(* names it, run by the lock's holder; another project's reserve,          *)
(* recommendation, migration or release never costs anyone a reservation.  *)
ReservationsSurvive ==
    [][\A r \in file : Kept(r, file') \/ \E p \in Proc : lock = p /\ Names(p, r)]_vars

(* Two commands never end up with the same port on the same machine.       *)
PortReservedOnce ==
    \A r, s \in file : r.port = s.port => r = s

(* Every command ends: it gets the lock, or gives up after its deadline,   *)
(* however often other commands take the lock.                             *)
CommandsFinish ==
    \A p \in Proc : proc[p].pc # "idle" ~> proc[p].pc = "idle"

=============================================================================
