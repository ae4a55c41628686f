------------------------ MODULE ReservationRegistry ------------------------
(***************************************************************************)
(* What an agent's reservation file promises, without processes, locks or  *)
(* files: a set of claims that changes one whole operation at a time.      *)
(* LocalReservations is shown to implement it.                             *)
(***************************************************************************)
EXTENDS Naturals

CONSTANTS
    Port,     \* (port, protocol) pairs
    Project,
    HostId,   \* persistent host UUIDs
    Legacy    \* the hostname, host_id of Phase 4 reservations

VARIABLE claims

(* A claim; ids grow in creation order, so the file's order is theirs.     *)
Claim == [id: Nat, host: HostId \cup {Legacy}, port: Port, project: Project]

(* The four things an operation may do to the claims.                      *)
Granted(a, b) ==
    \E r \in b : /\ r \in Claim
                 /\ \A s \in a : s.id # r.id /\ <<s.host, s.port>> # <<r.host, r.port>>
                 /\ b = a \cup {r}
Dropped(a, b) == \E r \in a : b = a \ {r}

(* Claims made under the hostname are moved to a host UUID.                *)
MoveTo(h, r) == [r EXCEPT !.host = IF r.host = Legacy THEN h ELSE r.host]
Moved(h, a) == {MoveTo(h, r) : r \in a}
Rehosted(a, b) == \E h \in HostId \cup {Legacy} : b = Moved(h, a)

Step(a, b) == b = a \/ Granted(a, b) \/ Dropped(a, b) \/ Rehosted(a, b)

RInit == claims \in SUBSET Claim
RNext == Step(claims, claims')
RSpec == RInit /\ [][RNext]_claims

=============================================================================
