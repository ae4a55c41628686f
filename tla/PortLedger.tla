----------------------------- MODULE PortLedger -----------------------------
(***************************************************************************)
(* What Central's port registry promises, without requests, transactions,  *)
(* locks or rows: bundles are granted whole, on ports that are free and    *)
(* asked for at that moment, and every other change is one operation, too. *)
(* CentralAllocation is shown to implement it.                             *)
(***************************************************************************)
EXTENDS Naturals, Sequences

CONSTANTS
    Id,         \* allocation ids
    Host, Port,
    RequestId,  \* client supplied idempotency keys
    Bundle,     \* sequences of items, each with a preferred port and a range
    NoId, NoAddr

VARIABLES
    life,     \* each host's lifecycle state, ABSENT when Central has no such host
    inUse,    \* the ports each host has last reported in use
    grants,   \* what each id stands for: nothing, an active bundle or a released one
    singles   \* reservations outside of bundles

lvars == <<life, inUse, grants, singles>>

LInit ==
    /\ life \in [Host -> {"ABSENT", "ACTIVE"}]
    /\ inUse = [h \in Host |-> {}]
    /\ \A a \in Id : grants[a].status = "none" /\ grants[a].ports = {}
    /\ singles = {}

Of(h) == {a \in Id : grants[a].status # "none" /\ grants[a].host = h}
Free(h) == {p \in Port \ inUse[h] : \A a \in Of(h) : p \notin grants[a].ports}

(* A port of its own for every item: the one it prefers or one in range.   *)
Serves(f, items) ==
    /\ \A i \in DOMAIN items : f[i] \in items[i].range \cup {items[i].preferred}
    /\ \A i, j \in DOMAIN items : f[i] = f[j] => i = j

Bundled(h, rid, items, ports) ==
    [status |-> "active", host |-> h, rid |-> rid, items |-> items, ports |-> ports]

Used(rid) == rid # NoId /\ \E a \in Id : grants[a].status # "none" /\ grants[a].rid = rid

(* The whole bundle at once, and once for a request_id.                    *)
Grant(a) ==
    /\ grants[a].status = "none" /\ grants'[a].status = "active"
    /\ \E h \in Host, rid \in RequestId \cup {NoId}, items \in Bundle :
          /\ life[h] # "ABSENT" /\ ~Used(rid)
          /\ \E f \in [DOMAIN items -> Free(h)] :
                /\ Serves(f, items)
                /\ grants' = [grants EXCEPT ![a] =
                                Bundled(h, rid, items, {f[i] : i \in DOMAIN items})]
    /\ UNCHANGED <<life, inUse, singles>>

(* Bundles of one host are released together, with the host or without;    *)
(* an id stays used.  A bundle's ports only go (CentralAllocation says     *)
(* when all of them do, ReleasedOwnsNothing).                              *)
GiveUp(h) ==
    /\ \E S \in SUBSET Of(h) :
          /\ DOMAIN grants' = Id
          /\ \A a \in Id \ S : grants'[a] = grants[a]
          /\ \A a \in S : \E left \in SUBSET grants[a].ports :
                grants'[a] = [grants[a] EXCEPT !.status = "released", !.ports = left]
    /\ life' = life \/ (life[h] # "ABSENT" /\ life' = [life EXCEPT ![h] = "DECOMMISSIONED"])
    /\ UNCHANGED <<inUse, singles>>

(* A reservation for an explicit address excludes a second one for it.     *)
Reserve ==
    /\ \E r \in singles' :
          /\ singles' = singles \cup {r}
          /\ life[r.host] # "ABSENT"
          /\ \A q \in singles : r.addr # NoAddr =>
                <<q.host, q.port, q.addr>> # <<r.host, r.port, r.addr>>
    /\ UNCHANGED <<life, inUse, grants>>

Delete ==
    /\ \/ \E r \in singles : singles' = singles \ {r} /\ UNCHANGED grants
       \/ /\ \E a \in Id : \E p \in grants[a].ports :
                grants' = [grants EXCEPT ![a].ports = grants[a].ports \ {p}]
          /\ UNCHANGED singles
    /\ UNCHANGED <<life, inUse>>

Observe(h) ==
    /\ life[h] # "ABSENT"
    /\ \E ports \in SUBSET Port : inUse' = [inUse EXCEPT ![h] = ports]
    /\ UNCHANGED <<life, grants, singles>>

(* A host appears, comes back, or goes with everything that was its own.   *)
Welcome(h) ==
    /\ life[h] # "ACTIVE"
    /\ life' = [life EXCEPT ![h] = "ACTIVE"]
    /\ UNCHANGED <<inUse, grants, singles>>

Purge(h) ==
    /\ life[h] # "ABSENT"
    /\ life' = [life EXCEPT ![h] = "ABSENT"]
    /\ inUse' = [inUse EXCEPT ![h] = {}]
    /\ singles' = {r \in singles : r.host # h}
    /\ DOMAIN grants' = Id
    /\ \A a \in Id \ Of(h) : grants'[a] = grants[a]
    /\ \A a \in Of(h) : grants'[a].status = "none" /\ grants'[a].ports = {}

LNext ==
    \/ \E a \in Id : Grant(a)
    \/ \E h \in Host : GiveUp(h) \/ Observe(h) \/ Welcome(h) \/ Purge(h)
    \/ Reserve \/ Delete

LSpec == LInit /\ [][LNext]_lvars

=============================================================================
