---------------------------- MODULE HostRegistry ----------------------------
(***************************************************************************)
(* Enrollment, credentials and the life of a host record: the rows of      *)
(* hosts, enrollment_tokens and agent_credentials at Central               *)
(* (backend/app/services/enrollment_service.py, host_service.py,           *)
(* host_lifecycle_service.py, api/hosts.py) and the two files in which a   *)
(* machine keeps its credential (agent/portforge_agent/credentials.py,     *)
(* central_config.py).                                                     *)
(*                                                                         *)
(* Sessions are READ COMMITTED with autoflush off: a handler's reads take  *)
(* no lock, and its first flush locks the rows it writes until its commit. *)
(* Each handler is a step for its reads and a step from that flush to the  *)
(* commit.  A purge deletes the credentials before it reaches the host     *)
(* row, and holds their locks meanwhile.  A request may fail at any time,  *)
(* and then leaves nothing behind.  Central carries a request on whose     *)
(* client has given up, and an installation may run several enroll         *)
(* commands at once.                                                       *)
(***************************************************************************)
EXTENDS Naturals

CONSTANTS
    Host,        \* host UUIDs
    Machine,     \* installations; a cloned one has its original's UUID
    IdentityOf,  \* the UUID in each machine's host.json
    Token,       \* enrollment tokens
    Cred,        \* agent credentials, numbered in order of issue
    Command,     \* enroll commands in progress, each with its request
    Admin,       \* administrators' requests in progress
    NoCred, NoToken, NoHost, NoMachine

ASSUME IdentityAssumption == IdentityOf \in [Machine -> Host]
ASSUME CredAssumption == Cred \subseteq Nat /\ NoCred \notin Cred
ASSUME NoTokenAssumption == NoToken \notin Token
ASSUME NoHostAssumption == NoHost \notin Host
ASSUME NoMachineAssumption == NoMachine \notin Machine

VARIABLES
    host,     \* hosts.lifecycle_state, "none" without a row
    token,    \* enrollment_tokens
    cred,     \* agent_credentials
    admin,    \* what each administrator's request is doing
    cmd,      \* what each enroll command and its request are doing
    hb,       \* the heartbeat each machine has sent
    credFile, \* credentials.json
    confFile, \* central.json
    heal,     \* a credential on its way from central.json to credentials.json
    daemon,   \* the credential a running daemon has read at its start
    raced,    \* history: the last decommission met an enrollment in progress
    dropped   \* history: credentials lost between Central and credentials.json

registry == <<host, token, cred>>
files == <<credFile, confFile, heal, daemon>>
history == <<raced, dropped>>
vars == <<host, token, cred, admin, cmd, hb, credFile, confFile, heal, daemon,
          raced, dropped>>

-----------------------------------------------------------------------------
Life == {"none", "ACTIVE", "DECOMMISSIONED"}

TokenState == {"unminted", "valid", "expired", "consumed"}

(* st is "none" before the row exists and "purged" after Remove Record;    *)
(* revoked_at tells "active" from "revoked".  The rest is history: the     *)
(* token and the machine it was issued for, and the credentials that had   *)
(* been issued when its request read the token.                            *)
Credential == [st: {"none", "active", "revoked", "purged"},
               host: Host \cup {NoHost}, tok: Token \cup {NoToken},
               by: Machine \cup {NoMachine}, before: SUBSET Cred]

(* In "checked" the request is at Central, whether or not the command      *)
(* still waits for its answer.                                             *)
CmdState == [pc: {"idle", "checked", "issued", "second"}, kind: {"agent", "central"},
             on: Machine \cup {NoMachine}, tok: Token \cup {NoToken},
             known: BOOLEAN, before: SUBSET Cred, cred: Cred \cup {NoCred}]

AdminState == [pc: {"idle", "decommission", "reactivate", "purge"},
               host: Host \cup {NoHost}, saw: SUBSET Cred, raced: BOOLEAN]

HeartbeatState == [pc: {"idle", "authenticated", "read"}, known: BOOLEAN]

ConfigState == [enabled: BOOLEAN, tok: Cred \cup {NoCred}]

NoCredential == [st |-> "none", host |-> NoHost, tok |-> NoToken,
                 by |-> NoMachine, before |-> {}]
IdleCmd == [pc |-> "idle", kind |-> "agent", on |-> NoMachine, tok |-> NoToken,
            known |-> FALSE, before |-> {}, cred |-> NoCred]
IdleAdmin == [pc |-> "idle", host |-> NoHost, saw |-> {}, raced |-> FALSE]
IdleHeartbeat == [pc |-> "idle", known |-> FALSE]

Init ==
    /\ host = [h \in Host |-> "none"]
    /\ token = [t \in Token |-> "unminted"]
    /\ cred = [c \in Cred |-> NoCredential]
    /\ admin = [a \in Admin |-> IdleAdmin]
    /\ cmd = [k \in Command |-> IdleCmd]
    /\ hb = [m \in Machine |-> IdleHeartbeat]
    /\ credFile = [m \in Machine |-> NoCred]
    /\ confFile = [m \in Machine |-> [enabled |-> FALSE, tok |-> NoCred]]
    /\ heal = [m \in Machine |-> NoCred]
    /\ daemon = [m \in Machine |-> NoCred]
    /\ raced = [h \in Host |-> FALSE]
    /\ dropped = {}

Active(h) == {c \in Cred : cred[c].st = "active" /\ cred[c].host = h}
Existing == {c \in Cred : cred[c].st # "none"}
Rows(h) == {c \in Cred : cred[c].st \in {"active", "revoked"} /\ cred[c].host = h}

(* The rows a purge in progress has deleted and not committed.             *)
Locked(c) == \E a \in Admin : admin[a].pc = "purge" /\ c \in admin[a].saw

-----------------------------------------------------------------------------
(* Enrollment tokens.                                                      *)

(* mint_enrollment_token: the hash, and an expiry when a TTL is given.     *)
MintEnrollmentToken(t) ==
    /\ token[t] = "unminted"
    /\ token' = [token EXCEPT ![t] = "valid"]
    /\ UNCHANGED <<host, cred, admin, cmd, hb, files, history>>

(* expires_at passes.                                                      *)
TokenExpires(t) ==
    /\ token[t] = "valid"
    /\ token' = [token EXCEPT ![t] = "expired"]
    /\ UNCHANGED <<host, cred, admin, cmd, hb, files, history>>

-----------------------------------------------------------------------------
(* Enrollment: `agent enroll` and `central enroll` call the same endpoint. *)

(* Mutant of Enrollable: a token is looked up and not checked.             *)
EnrollableMinted(t) == token[t] # "unminted"

(* The checks of enroll_host on the token.                                 *)
Enrollable(t) == token[t] = "valid"

(* enroll_host's reads: the token, and the host row with its lifecycle.    *)
(* Every refusal leaves all as it was, the token included.                 *)
EnrollRead(k, m, t, kind) ==
    /\ cmd[k].pc = "idle"
    /\ Enrollable(t)
    /\ host[IdentityOf[m]] # "DECOMMISSIONED"
    /\ cmd' = [cmd EXCEPT ![k] =
                  [pc |-> "checked", kind |-> kind, on |-> m, tok |-> t,
                   known |-> host[IdentityOf[m]] # "none",
                   before |-> Existing, cred |-> NoCred]]
    /\ UNCHANGED <<registry, admin, hb, files, history>>

(* Mutant of Replaced: the new credential is added, the old one kept.      *)
ReplacedNothing(h) == {}

(* replace_credential_for_host revokes the active credential it finds; the *)
(* host row is locked by then.                                             *)
Replaced(h) == Active(h)

Fresh(c) == cred[c].st = "none" /\ \A d \in Cred : cred[d].st = "none" => c <= d

(* The host a command enrolls.                                             *)
Enrolls(k, h) == cmd[k].pc = "checked" /\ IdentityOf[cmd[k].on] = h

(* Mutant of RowWritten: the whole row in memory is written back.          *)
WholeRowWritten(h, known) ==
    /\ known => host[h] # "none"
    /\ host' = [host EXCEPT ![h] = "ACTIVE"]

(* upsert reads the row again unless the session has it.  A new row is     *)
(* ACTIVE; an update leaves lifecycle_state alone, and fails when the row  *)
(* is gone.                                                                *)
RowWritten(h, known) ==
    /\ known => host[h] # "none"
    /\ host' = [host EXCEPT ![h] = IF @ = "none" THEN "ACTIVE" ELSE @]

(* From the upsert of the host row to the commit.                          *)
EnrollCommit(k, c) ==
    LET m == cmd[k].on
        h == IdentityOf[m]
    IN  /\ cmd[k].pc = "checked"
        /\ Fresh(c)
        /\ \A d \in Active(h) : ~Locked(d)
        /\ RowWritten(h, cmd[k].known)
        /\ cred' = [d \in Cred |->
              IF d = c THEN [st |-> "active", host |-> h, tok |-> cmd[k].tok,
                             by |-> m, before |-> cmd[k].before]
              ELSE IF d \in Replaced(h) THEN [cred[d] EXCEPT !.st = "revoked"]
              ELSE cred[d]]
        /\ token' = [token EXCEPT ![cmd[k].tok] = "consumed"]
        /\ cmd' = [cmd EXCEPT ![k].pc = "issued", ![k].cred = c]
        /\ admin' = [a \in Admin |->
                       [admin[a] EXCEPT !.raced = @ \/ admin[a].host = h]]
        /\ UNCHANGED <<hb, files, history>>

(* The request fails: an insert that conflicts with a row that has just    *)
(* appeared, a row that is gone, a deadlock with a purge, a lost           *)
(* connection.                                                             *)
EnrollFails(k) ==
    /\ cmd[k].pc = "checked"
    /\ cmd' = [cmd EXCEPT ![k] = IdleCmd]
    /\ UNCHANGED <<registry, admin, hb, files, history>>

(* save_credential and save_central_config, each with os.replace.  What    *)
(* the older of two commands saves last replaces the newer credential.     *)
SaveCredential(k) ==
    LET m == cmd[k].on
    IN  /\ credFile' = [credFile EXCEPT ![m] = cmd[k].cred]
        /\ dropped' = dropped \cup {d \in {credFile[m]} \ {NoCred} : d > cmd[k].cred}
        /\ UNCHANGED confFile

SaveCentralConfig(k, tok) ==
    /\ confFile' = [confFile EXCEPT ![cmd[k].on] = [enabled |-> TRUE, tok |-> tok]]
    /\ UNCHANGED <<credFile, dropped>>

(* `agent enroll` saves the credential first, `central enroll` the         *)
(* configuration with the credential in it.                                *)
StoreFirst(k) ==
    /\ cmd[k].pc = "issued"
    /\ IF cmd[k].kind = "agent"
       THEN SaveCredential(k)
       ELSE SaveCentralConfig(k, cmd[k].cred)
    /\ cmd' = [cmd EXCEPT ![k].pc = "second"]
    /\ UNCHANGED <<registry, admin, hb, heal, daemon, raced>>

(* Mutant of StoreSecond: `central enroll` leaves credentials.json to the  *)
(* other command.                                                          *)
StoreSecondConfigOnly(k) ==
    /\ cmd[k].pc = "second"
    /\ IF cmd[k].kind = "agent"
       THEN SaveCentralConfig(k, NoCred)
       ELSE UNCHANGED <<credFile, confFile, dropped>>
    /\ cmd' = [cmd EXCEPT ![k] = IdleCmd]
    /\ UNCHANGED <<registry, admin, hb, heal, daemon, raced>>

StoreSecond(k) ==
    /\ cmd[k].pc = "second"
    /\ IF cmd[k].kind = "agent"
       THEN SaveCentralConfig(k, NoCred)
       ELSE SaveCredential(k)
    /\ cmd' = [cmd EXCEPT ![k] = IdleCmd]
    /\ UNCHANGED <<registry, admin, hb, heal, daemon, raced>>

(* The client had given up after its timeout, the reply is lost, a file    *)
(* cannot be written, or the command dies: what Central has issued never   *)
(* reaches credentials.json.                                               *)
EnrollDies(k) ==
    /\ cmd[k].pc \in {"issued", "second"}
    /\ dropped' = IF cmd[k].pc = "issued" \/ cmd[k].kind = "central"
                  THEN dropped \cup {cmd[k].cred} ELSE dropped
    /\ cmd' = [cmd EXCEPT ![k] = IdleCmd]
    /\ UNCHANGED <<registry, admin, hb, files, raced>>

-----------------------------------------------------------------------------
(* The credential on the machine.                                          *)

(* load_credential: credentials.json, then the token in central.json.      *)
LoadCredential(m) == IF credFile[m] # NoCred THEN credFile[m] ELSE confFile[m].tok

(* A command or a starting daemon finds no credentials.json and takes the  *)
(* token of central.json ...                                               *)
BeginHeal(m) ==
    /\ heal[m] = NoCred
    /\ credFile[m] = NoCred
    /\ confFile[m].tok # NoCred
    /\ heal' = [heal EXCEPT ![m] = confFile[m].tok]
    /\ UNCHANGED <<registry, admin, cmd, hb, credFile, confFile, daemon, history>>

(* ... and saves it, over what an enroll command may have saved meanwhile. *)
SaveHealed(m) ==
    /\ heal[m] # NoCred
    /\ credFile' = [credFile EXCEPT ![m] = heal[m]]
    /\ heal' = [heal EXCEPT ![m] = NoCred]
    /\ dropped' = IF credFile[m] \in Cred \ {heal[m]}
                  THEN dropped \cup {credFile[m]} ELSE dropped
    /\ UNCHANGED <<registry, admin, cmd, hb, confFile, daemon, raced>>

(* AgentRuntime reads both files once; without them it exits.              *)
DaemonStart(m) ==
    /\ daemon[m] = NoCred
    /\ confFile[m].enabled
    /\ LoadCredential(m) # NoCred
    /\ daemon' = [daemon EXCEPT ![m] = LoadCredential(m)]
    /\ UNCHANGED <<registry, admin, cmd, hb, credFile, confFile, heal, history>>

DaemonStop(m) ==
    /\ daemon[m] # NoCred
    /\ daemon' = [daemon EXCEPT ![m] = NoCred]
    /\ UNCHANGED <<registry, admin, cmd, hb, credFile, confFile, heal, history>>

(* The credential each of a machine's clients presents: the daemon its     *)
(* own, `agent test` and `agent sync` the one they load, `central sync`    *)
(* the one in central.json.                                                *)
DaemonPresents(m) == {daemon[m]}

CommandPresents(m) == IF confFile[m].enabled THEN {LoadCredential(m)} ELSE {}

SyncPresents(m) == IF confFile[m].enabled THEN {confFile[m].tok} ELSE {}

Presented(m) == DaemonPresents(m) \cup CommandPresents(m) \cup SyncPresents(m)

-----------------------------------------------------------------------------
(* Heartbeats.                                                             *)

(* require_agent accepts an active credential; the handler then compares   *)
(* its host with the one in the request.                                   *)
Authenticated(c, h) == c \in Active(h)

HeartbeatAuth(m) ==
    /\ hb[m].pc = "idle"
    /\ \E c \in Presented(m) : Authenticated(c, IdentityOf[m])
    /\ hb' = [hb EXCEPT ![m].pc = "authenticated"]
    /\ UNCHANGED <<registry, admin, cmd, files, history>>

(* record_heartbeat reads the row and refuses a decommissioned host.       *)
HeartbeatRead(m) ==
    /\ hb[m].pc = "authenticated"
    /\ hb' = [hb EXCEPT ![m] =
                IF host[IdentityOf[m]] = "DECOMMISSIONED" THEN IdleHeartbeat
                ELSE [pc |-> "read", known |-> host[IdentityOf[m]] # "none"]]
    /\ UNCHANGED <<registry, admin, cmd, files, history>>

HeartbeatWrite(m) ==
    /\ hb[m].pc = "read"
    /\ RowWritten(IdentityOf[m], hb[m].known)
    /\ hb' = [hb EXCEPT ![m] = IdleHeartbeat]
    /\ UNCHANGED <<token, cred, admin, cmd, files, history>>

HeartbeatFails(m) ==
    /\ hb[m].pc # "idle"
    /\ hb' = [hb EXCEPT ![m] = IdleHeartbeat]
    /\ UNCHANGED <<registry, admin, cmd, files, history>>

-----------------------------------------------------------------------------
(* Administration.                                                         *)

(* decommission_host's reads: the row and, nothing being flushed yet, the  *)
(* active credential.  A decommissioned host is returned as it is.         *)
DecommissionRead(a, h) ==
    /\ admin[a].pc = "idle"
    /\ host[h] = "ACTIVE"
    /\ admin' = [admin EXCEPT ![a] = [pc |-> "decommission", host |-> h,
                                      saw |-> Active(h), raced |-> FALSE]]
    /\ UNCHANGED <<registry, cmd, hb, files, history>>

(* Mutant of RevokedBy: decommissioning leaves the credential to expire.   *)
RevokedByNothing(a) == {}

(* revoke_active_credential_for_host: the row read before.                 *)
RevokedBy(a) == admin[a].saw

DecommissionCommit(a) ==
    LET h == admin[a].host IN
    /\ admin[a].pc = "decommission"
    /\ host[h] # "none"
    /\ \A c \in admin[a].saw : cred[c].st # "purged" /\ ~Locked(c)
    /\ host' = [host EXCEPT ![h] = "DECOMMISSIONED"]
    /\ cred' = [c \in Cred |-> IF c \in RevokedBy(a)
                               THEN [cred[c] EXCEPT !.st = "revoked"] ELSE cred[c]]
    /\ raced' = [raced EXCEPT ![h] =
                   \/ admin[a].raced
                   \/ \E k \in Command : Enrolls(k, h)]
    /\ admin' = [admin EXCEPT ![a] = IdleAdmin]
    /\ UNCHANGED <<token, cmd, hb, files, dropped>>

(* reactivate_host issues no credential.                                   *)
ReactivateRead(a, h) ==
    /\ admin[a].pc = "idle"
    /\ host[h] = "DECOMMISSIONED"
    /\ admin' = [admin EXCEPT ![a] = [pc |-> "reactivate", host |-> h,
                                      saw |-> {}, raced |-> FALSE]]
    /\ UNCHANGED <<registry, cmd, hb, files, history>>

ReactivateCommit(a) ==
    /\ admin[a].pc = "reactivate"
    /\ host[admin[a].host] # "none"
    /\ host' = [host EXCEPT ![admin[a].host] = "ACTIVE"]
    /\ admin' = [admin EXCEPT ![a] = IdleAdmin]
    /\ UNCHANGED <<token, cred, cmd, hb, files, history>>

(* remove_host_record: the rows that refer to the host, then the host.     *)
PurgeRows(a, h) ==
    /\ admin[a].pc = "idle"
    /\ host[h] # "none"
    /\ \A c \in Rows(h) : ~Locked(c)
    /\ admin' = [admin EXCEPT ![a] = [pc |-> "purge", host |-> h,
                                      saw |-> Rows(h), raced |-> FALSE]]
    /\ UNCHANGED <<registry, cmd, hb, files, history>>

(* Mutant of Unreferenced: no foreign key guards the host row.             *)
UnreferencedAlways(a) == TRUE

(* The foreign key of agent_credentials: no row that the purge has missed. *)
Unreferenced(a) == Rows(admin[a].host) \subseteq admin[a].saw

PurgeCommit(a) ==
    /\ admin[a].pc = "purge"
    /\ Unreferenced(a)
    /\ host' = [host EXCEPT ![admin[a].host] = "none"]
    /\ cred' = [c \in Cred |-> IF c \in admin[a].saw
                               THEN [cred[c] EXCEPT !.st = "purged"] ELSE cred[c]]
    /\ admin' = [admin EXCEPT ![a] = IdleAdmin]
    /\ UNCHANGED <<token, cmd, hb, files, history>>

AdminFails(a) ==
    /\ admin[a].pc # "idle"
    /\ admin' = [admin EXCEPT ![a] = IdleAdmin]
    /\ UNCHANGED <<registry, cmd, hb, files, history>>

-----------------------------------------------------------------------------
EnrollStep(k) ==
    \/ \E m \in Machine, t \in Token, kind \in {"agent", "central"} :
          EnrollRead(k, m, t, kind)
    \/ \E c \in Cred : EnrollCommit(k, c)
    \/ EnrollFails(k)
    \/ StoreFirst(k)
    \/ StoreSecond(k)
    \/ EnrollDies(k)

MachineStep(m) ==
    \/ BeginHeal(m)
    \/ SaveHealed(m)
    \/ DaemonStart(m)
    \/ DaemonStop(m)

HeartbeatStep(m) ==
    \/ HeartbeatAuth(m)
    \/ HeartbeatRead(m)
    \/ HeartbeatWrite(m)
    \/ HeartbeatFails(m)

AdminStep(a) ==
    \/ \E h \in Host : DecommissionRead(a, h)
    \/ DecommissionCommit(a)
    \/ \E h \in Host : ReactivateRead(a, h)
    \/ ReactivateCommit(a)
    \/ \E h \in Host : PurgeRows(a, h)
    \/ PurgeCommit(a)
    \/ AdminFails(a)

Next ==
    \/ \E t \in Token : MintEnrollmentToken(t) \/ TokenExpires(t)
    \/ \E k \in Command : EnrollStep(k)
    \/ \E m \in Machine : MachineStep(m) \/ HeartbeatStep(m)
    \/ \E a \in Admin : AdminStep(a)

Spec == Init /\ [][Next]_vars

-----------------------------------------------------------------------------
(* Types; an enroll command has Central's answer before it writes a file.  *)
TypeOK ==
    /\ host \in [Host -> Life]
    /\ token \in [Token -> TokenState]
    /\ cred \in [Cred -> Credential]
    /\ admin \in [Admin -> AdminState]
    /\ cmd \in [Command -> CmdState]
    /\ \A k \in Command :
          /\ cmd[k].pc # "idle" => cmd[k].on \in Machine
          /\ cmd[k].pc \in {"issued", "second"} => cmd[k].cred \in Cred
    /\ hb \in [Machine -> HeartbeatState]
    /\ credFile \in [Machine -> Cred \cup {NoCred}]
    /\ confFile \in [Machine -> ConfigState]
    /\ heal \in [Machine -> Cred \cup {NoCred}]
    /\ daemon \in [Machine -> Cred \cup {NoCred}]
    /\ raced \in [Host -> BOOLEAN]
    /\ dropped \subseteq Cred

(* A host has at most one active credential, however its enrollments,      *)
(* decommissions and purges overlap: get_active_credential_for_host fails  *)
(* for ever on a host with two.                                            *)
OneActiveCredential ==
    \A c, d \in Cred :
        cred[c].st = "active" /\ cred[d].st = "active" /\ cred[c].host = cred[d].host
        => c = d

(* No credential outlives its host row: an enrollment that overlaps Remove *)
(* Record goes with the record, or keeps it.                               *)
CredentialsHaveHosts ==
    \A c \in Cred : cred[c].st \in {"active", "revoked"} => host[cred[c].host] # "none"

(* A token brings a second credential only to requests that were at        *)
(* Central together: a request that begins after another has consumed its  *)
(* token is refused, whichever command or machine repeats it and whatever  *)
(* became of the first one's answer.  (enroll_host does not lock the       *)
(* token, so requests that overlap can all use it.)                        *)
TokenReplayRefused ==
    \A c, d \in Existing : cred[c].tok = cred[d].tok => d \notin cred[c].before

(* A decommissioned host holds no active credential, unless an enrollment  *)
(* was in progress when it was decommissioned: "No new credential",        *)
(* docs/design/host-decommission-lifecycle.md.                             *)
TombstoneHoldsNoCredential ==
    \A h \in Host : host[h] = "DECOMMISSIONED" /\ ~raced[h] => Active(h) = {}

(* Only Reactivate and Remove Record end a decommission; no enrollment and *)
(* no heartbeat in progress resurrects the host.                           *)
Ends(a, h, to) == admin[a].host = h /\ admin[a].pc = to

DecommissionStands ==
    [][\A h \in Host : host[h] = "DECOMMISSIONED" =>
          \/ host'[h] = "DECOMMISSIONED"
          \/ host'[h] = "ACTIVE" /\ \E a \in Admin : Ends(a, h, "reactivate")
          \/ host'[h] = "none" /\ \E a \in Admin : Ends(a, h, "purge")]_vars

(* Once a machine has no answer left to store, its daemon and its agent    *)
(* commands use its newest credential, whichever of the two enroll         *)
(* commands brought it and in whatever order they write the two files.     *)
(* Excepted is a credential lost to a crash or a lost reply, to a          *)
(* self-healing read, or to an older command of the machine beside it.     *)
Issued(m) == {c \in Existing : cred[c].by = m}

Storing(k, m) == cmd[k].on = m /\ cmd[k].pc \in {"issued", "second"}

NewestCredentialLoaded ==
    \A m \in Machine : (\A k \in Command : ~Storing(k, m)) =>
        \A c \in Issued(m) : (\A d \in Issued(m) : d <= c) /\ c \notin dropped
                             => LoadCredential(m) = c
=============================================================================
