---------------------------- MODULE AgentUpgrade ----------------------------
(***************************************************************************)
(* Agent upgrades of one host: the upgrade rows at Central                 *)
(* (backend/app/services/upgrade_service.py), their delivery on heartbeats *)
(* (backend/app/api/agents.py) and their execution by the daemon           *)
(* (agent/portforge_agent/upgrade/handler.py).                             *)
(*                                                                         *)
(* Handlers take no lock, so each is split between its reads and its       *)
(* commit.  A status report is a request the daemon sends and does not     *)
(* depend on: it may be lost, and it may still be in progress at Central   *)
(* when the daemon, after a timeout, has gone on.                          *)
(***************************************************************************)
EXTENDS Naturals, FiniteSets

CONSTANTS
    UpgradeId,  \* rows of host_upgrades, numbered in creation order
    Version,    \* agent versions, compared as numbers
    RequestId,
    Admin,      \* administrators' requests in progress
    Slot,       \* status reports Central handles at the same time
    NoId, NoUpgrade

ASSUME UpgradeIdAssumption == UpgradeId \subseteq Nat /\ NoUpgrade \notin UpgradeId
ASSUME VersionAssumption == Version \subseteq Nat /\ Version # {}
ASSUME NoIdAssumption == NoId \notin RequestId

VARIABLES
    up,       \* the rows of host_upgrades
    life,     \* hosts.lifecycle_state
    reported, \* hosts.agent_version
    version,  \* the version installed on the host
    agent,    \* what the daemon is doing
    report,   \* status reports on their way
    admin,    \* what each administrator's request is doing
    verified, \* upgrades whose artifact passed the checksum
    intact    \* every artifact installed so far had passed the checksum

vars == <<up, life, reported, version, agent, report, admin, verified, intact>>

-----------------------------------------------------------------------------
Terminal == {"SUCCEEDED", "FAILED", "ROLLED_BACK"}
Pending == {"APPROVED", "WAITING_FOR_AGENT"}

(* _AGENT_STATES_ORDER; FAILED and ROLLED_BACK are outside the order.      *)
Order == [APPROVED |-> 1, WAITING_FOR_AGENT |-> 2, DOWNLOADING |-> 3,
          VERIFYING |-> 4, INSTALLING |-> 5, RESTARTING |-> 6,
          VERIFYING_HEALTH |-> 7, SUCCEEDED |-> 8, FAILED |-> 9,
          ROLLED_BACK |-> 9]

State == DOMAIN Order

(* previous_version and the previous artifact, when the row has them.      *)
Row == [state: State \cup {"none"}, target: Version, prev: Version,
        meta: BOOLEAN, rollback: BOOLEAN, rid: RequestId \cup {NoId}]

AgentState ==
    [pc: {"idle", "validate", "download", "verify", "install", "restart",
          "stopped"},
     up: UpgradeId \cup {NoUpgrade}, allow: BOOLEAN,
     content: {"none", "good", "bad"}]

ReportState == [pc: {"idle", "sent", "write"}, up: UpgradeId \cup {NoUpgrade},
                new: State]

AdminState == [pc: {"idle", "create", "rollback"}, row: Row,
               orig: UpgradeId \cup {NoUpgrade}, mark: BOOLEAN]

AnyVersion == CHOOSE v \in Version : TRUE
NoRow == [state |-> "none", target |-> AnyVersion, prev |-> AnyVersion,
          meta |-> FALSE, rollback |-> FALSE, rid |-> NoId]
IdleAgent == [pc |-> "idle", up |-> NoUpgrade, allow |-> FALSE, content |-> "none"]
IdleReport == [pc |-> "idle", up |-> NoUpgrade, new |-> "FAILED"]
IdleAdmin == [pc |-> "idle", row |-> NoRow, orig |-> NoUpgrade, mark |-> FALSE]

Init ==
    /\ up = [u \in UpgradeId |-> NoRow]
    /\ life = "ACTIVE"
    /\ version \in Version
    /\ reported = version
    /\ agent = IdleAgent
    /\ report = [s \in Slot |-> IdleReport]
    /\ admin = [a \in Admin |-> IdleAdmin]
    /\ verified = {}
    /\ intact = TRUE

Rows == {u \in UpgradeId : up[u].state # "none"}
NonTerminal == {u \in Rows : up[u].state \notin Terminal}
RequestIdTaken(rid) == rid # NoId /\ \E u \in Rows : up[u].rid = rid

(* Mutant of Deliverable: upgrades of a host that was offline are missed.  *)
DeliverableApproved ==
    {u \in Rows : up[u].state = "APPROVED"
                  /\ \A w \in Rows : up[w].state = "APPROVED" => u <= w}

(* get_pending_for_host: the oldest APPROVED or WAITING_FOR_AGENT row.     *)
Deliverable ==
    {u \in Rows : up[u].state \in Pending
                  /\ \A w \in Rows : up[w].state \in Pending => u <= w}

(* The next row to insert; requests are begun while one is left.           *)
Fresh == {u \in UpgradeId \ Rows : \A w \in UpgradeId \ Rows : u <= w}

-----------------------------------------------------------------------------
(* Administration.                                                         *)

(* create_upgrade's checks: an ACTIVE host, no downgrade, no other         *)
(* unfinished upgrade.  A known request_id returns its row.  The row waits *)
(* for an offline agent or not; health is a function of time, and nobody   *)
(* sees the choice before the insert, which makes it.                      *)
BeginCreate(a, target, rid, meta) ==
    /\ admin[a].pc = "idle" /\ Fresh # {}
    /\ life = "ACTIVE"
    /\ ~RequestIdTaken(rid)
    /\ target >= reported
    /\ NonTerminal = {}
    /\ admin' = [admin EXCEPT ![a] =
          [pc |-> "create", orig |-> NoUpgrade, mark |-> FALSE,
           row |-> [state |-> "APPROVED", target |-> target, prev |-> reported,
                    meta |-> meta, rollback |-> FALSE, rid |-> rid]]]
    /\ UNCHANGED <<up, life, reported, version, agent, report, verified, intact>>

(* The insert, refused by uq_host_upgrades_host_request.                   *)
CommitCreate(a) ==
    /\ admin[a].pc = "create"
    /\ \/ /\ ~RequestIdTaken(admin[a].row.rid)
          /\ \E u \in Fresh, s \in Pending :
                up' = [up EXCEPT ![u] = [admin[a].row EXCEPT !.state = s]]
       \/ /\ RequestIdTaken(admin[a].row.rid)
          /\ UNCHANGED up
    /\ admin' = [admin EXCEPT ![a] = IdleAdmin]
    /\ UNCHANGED <<life, reported, version, agent, report, verified, intact>>

(* rollback_upgrade's checks.  get_non_terminal_for_host returns any one   *)
(* unfinished row, and the original itself is no obstacle.                 *)
BeginRollback(a, u) ==
    /\ admin[a].pc = "idle" /\ Fresh # {}
    /\ u \in Rows
    /\ up[u].meta
    /\ life = "ACTIVE"
    /\ NonTerminal = {} \/ u \in NonTerminal
    /\ admin' = [admin EXCEPT ![a] =
          [pc |-> "rollback", orig |-> u,
           mark |-> up[u].state \notin {"FAILED", "ROLLED_BACK"},
           row |-> [state |-> "APPROVED", target |-> up[u].prev, prev |-> reported,
                    meta |-> TRUE, rollback |-> TRUE, rid |-> NoId]]]
    /\ UNCHANGED <<up, life, reported, version, agent, report, verified, intact>>

(* The new row, and the original marked ROLLED_BACK when it had not        *)
(* failed, in one commit.                                                  *)
CommitRollback(a) ==
    LET o == admin[a].orig
    IN  /\ admin[a].pc = "rollback"
        /\ \E u \in Fresh, s \in Pending :
              up' = [w \in UpgradeId |->
                        IF w = u THEN [admin[a].row EXCEPT !.state = s]
                        ELSE IF w = o /\ admin[a].mark
                        THEN [up[w] EXCEPT !.state = "ROLLED_BACK"]
                        ELSE up[w]]
        /\ admin' = [admin EXCEPT ![a] = IdleAdmin]
        /\ UNCHANGED <<life, reported, version, agent, report, verified, intact>>

(* decommission_host: one UPDATE fails every unfinished upgrade.           *)
Decommission ==
    /\ life = "ACTIVE"
    /\ life' = "DECOMMISSIONED"
    /\ up' = [u \in UpgradeId |->
                IF u \in NonTerminal THEN [up[u] EXCEPT !.state = "FAILED"]
                ELSE up[u]]
    /\ UNCHANGED <<reported, version, agent, report, admin, verified, intact>>

Reactivate ==
    /\ life = "DECOMMISSIONED"
    /\ life' = "ACTIVE"
    /\ UNCHANGED <<up, reported, version, agent, report, admin, verified, intact>>

-----------------------------------------------------------------------------
(* Status reports.                                                         *)

(* _report on the agent: the request reaches Central or is lost.           *)
Send(u, new) ==
    \/ \E s \in Slot :
          /\ report[s].pc = "idle"
          /\ report' = [report EXCEPT ![s] = [pc |-> "sent", up |-> u, new |-> new]]
    \/ UNCHANGED report

(* update_upgrade_status: no report on a finished upgrade, FAILED at any   *)
(* time before, any other state only forward.                              *)
Accepts(u, new) ==
    /\ up[u].state \notin Terminal \cup {"none"}
    /\ new = "FAILED" \/ Order[new] > Order[up[u].state]

(* A decommissioned host's credential is revoked.                          *)
ReadReport(s) ==
    /\ report[s].pc = "sent"
    /\ report' = [report EXCEPT ![s] =
                     IF life = "ACTIVE" /\ Accepts(report[s].up, report[s].new)
                     THEN [@ EXCEPT !.pc = "write"] ELSE IdleReport]
    /\ UNCHANGED <<up, life, reported, version, agent, admin, verified, intact>>

WriteReport(s) ==
    /\ report[s].pc = "write"
    /\ up' = [up EXCEPT ![report[s].up].state = report[s].new]
    /\ report' = [report EXCEPT ![s] = IdleReport]
    /\ UNCHANGED <<life, reported, version, agent, admin, verified, intact>>

-----------------------------------------------------------------------------
(* The daemon.                                                             *)

(* The heartbeat records the installed version and delivers the oldest     *)
(* pending upgrade; its response may be lost.  Central allows a downgrade  *)
(* whenever the target is older than the version just reported.            *)
Heartbeat ==
    /\ agent.pc = "idle"
    /\ life = "ACTIVE"
    /\ reported' = version
    /\ \/ \E u \in Deliverable :
             agent' = [pc |-> "validate", up |-> u, content |-> "none",
                       allow |-> up[u].target < version]
       \/ UNCHANGED agent
    /\ UNCHANGED <<up, life, version, report, admin, verified, intact>>

(* A phase ends: the next one is reported and begins, or FAILED is.        *)
Proceed(state, pc) ==
    /\ Send(agent.up, state)
    /\ agent' = [agent EXCEPT !.pc = pc]

(* run_upgrade returns False and the loop goes on.                         *)
GiveUp ==
    /\ Send(agent.up, "FAILED")
    /\ agent' = IdleAgent

(* _validate_payload; the artifact's coordinates may be unacceptable.      *)
ValidatePayload ==
    /\ agent.pc = "validate"
    /\ \/ /\ up[agent.up].target >= version \/ agent.allow
          /\ Proceed("DOWNLOADING", "download")
       \/ GiveUp
    /\ UNCHANGED <<up, life, reported, version, admin, verified, intact>>

(* Mutant of DownloadArtifact: the installation is announced too early.    *)
DownloadAndAnnounce ==
    /\ agent.pc = "download"
    /\ \/ \E c \in {"good", "bad"} :
             /\ Send(agent.up, "INSTALLING")
             /\ agent' = [agent EXCEPT !.pc = "verify", !.content = c]
       \/ GiveUp
    /\ UNCHANGED <<up, life, reported, version, admin, verified, intact>>

(* _download_artifact: what arrives may not be what was published.         *)
DownloadArtifact ==
    /\ agent.pc = "download"
    /\ \/ \E c \in {"good", "bad"} :
             /\ Send(agent.up, "VERIFYING")
             /\ agent' = [agent EXCEPT !.pc = "verify", !.content = c]
       \/ GiveUp
    /\ UNCHANGED <<up, life, reported, version, admin, verified, intact>>

(* _verify_sha256 fails closed.                                            *)
VerifyArtifact ==
    /\ agent.pc = "verify"
    /\ \/ /\ agent.content = "good"
          /\ verified' = verified \cup {agent.up}
          /\ Proceed("INSTALLING", "install")
       \/ /\ agent.content = "bad"
          /\ GiveUp
          /\ UNCHANGED verified
    /\ UNCHANGED <<up, life, reported, version, admin, intact>>

(* _install_wheel, then the report that the service restarts.              *)
InstallWheel ==
    /\ agent.pc = "install"
    /\ \/ /\ version' = up[agent.up].target
          /\ intact' = (intact /\ agent.content = "good")
          /\ Proceed("RESTARTING", "restart")
       \/ /\ GiveUp
          /\ UNCHANGED <<version, intact>>
    /\ UNCHANGED <<up, life, reported, admin, verified>>

RestartService ==
    /\ agent.pc = "restart"
    /\ \/ /\ agent' = [IdleAgent EXCEPT !.pc = "stopped"]
          /\ UNCHANGED report
       \/ GiveUp
    /\ UNCHANGED <<up, life, reported, version, admin, verified, intact>>

(* The service manager starts the daemon again.                            *)
StartService ==
    /\ agent.pc = "stopped"
    /\ agent' = IdleAgent
    /\ UNCHANGED <<up, life, reported, version, report, admin, verified, intact>>

(* The process dies at any moment; nothing about the upgrade is kept.      *)
Crash ==
    /\ agent.pc # "stopped"
    /\ agent' = [IdleAgent EXCEPT !.pc = "stopped"]
    /\ UNCHANGED <<up, life, reported, version, report, admin, verified, intact>>

-----------------------------------------------------------------------------
Daemon == \/ Heartbeat \/ ValidatePayload \/ DownloadArtifact
          \/ VerifyArtifact \/ InstallWheel \/ RestartService \/ StartService

Next ==
    \/ \E a \in Admin, v \in Version, r \in RequestId \cup {NoId}, m \in BOOLEAN :
          BeginCreate(a, v, r, m)
    \/ \E a \in Admin : CommitCreate(a) \/ CommitRollback(a)
    \/ \E a \in Admin, u \in UpgradeId : BeginRollback(a, u)
    \/ Decommission \/ Reactivate
    \/ \E s \in Slot : ReadReport(s) \/ WriteReport(s)
    \/ Daemon
    \/ Crash

Spec == Init /\ [][Next]_vars

(* The daemon loop and Central's handlers run; deliveries get through      *)
(* again and again.  Administrators, crashes and losses are not fair.      *)
FairSpec ==
    /\ Spec
    /\ WF_vars(Daemon)
    /\ SF_vars(Heartbeat /\ agent'.pc = "validate")
    /\ \A s \in Slot : WF_vars(ReadReport(s)) /\ WF_vars(WriteReport(s))

-----------------------------------------------------------------------------
(* Rows, requests, reports and the daemon's state keep their types.        *)
TypeOK ==
    /\ up \in [UpgradeId -> Row]
    /\ life \in {"ACTIVE", "DECOMMISSIONED"}
    /\ reported \in Version
    /\ version \in Version
    /\ agent \in AgentState
    /\ report \in [Slot -> ReportState]
    /\ admin \in [Admin -> AdminState]
    /\ verified \subseteq UpgradeId
    /\ intact \in BOOLEAN

(* What Central shows is never ahead of what the host has done: an upgrade *)
(* is INSTALLING or RESTARTING only after its artifact passed the          *)
(* checksum, whatever was lost, delayed or interleaved on the way.         *)
ProgressIsReal ==
    \A u \in UpgradeId :
        up[u].state \in {"INSTALLING", "RESTARTING"} => u \in verified

(* An artifact that fails the checksum is never installed (fail closed),   *)
(* across crashes, redelivery and rollback.                                *)
CorruptNeverInstalled == intact

(* Two requests with the same request_id never create two upgrades.        *)
RequestIdUnique ==
    \A u, w \in Rows : up[u].rid # NoId /\ up[u].rid = up[w].rid => u = w

(* The report the daemon begins an upgrade with gets through again and     *)
(* again.                                                                  *)
ReportsGetThrough == SF_vars(ValidatePayload /\ report' # report)

PickedUp(u) == agent.up = u \/ up[u].state \notin Pending \/ life # "ACTIVE"

(* The upgrade that is next for an active host reaches the daemon, unless  *)
(* its state changes first.  Two administrators can leave a second pending *)
(* row, and it waits behind the older one, which is delivered again for as *)
(* long as every report about it is lost; once reports get through too,    *)
(* each pending upgrade reaches the daemon.                                *)
PendingIsPickedUp ==
    /\ (Deliverable # {} /\ life = "ACTIVE")
          ~> (agent.up \in Deliverable \/ Deliverable = {} \/ life # "ACTIVE")
    /\ ReportsGetThrough =>
          \A u \in UpgradeId :
             (up[u].state \in Pending /\ life = "ACTIVE") ~> PickedUp(u)

(* Central marks an upgrade SUCCEEDED after the heartbeat that reports the *)
(* expected version.                                                       *)
ReconnectSucceeds ==
    \A u \in UpgradeId :
        (up[u].state = "RESTARTING" /\ up[u].prev < up[u].target
          /\ reported = up[u].target)
            ~> (up[u].state \in Terminal)

=============================================================================
