------------------------- MODULE AgentUpgradeProofs -------------------------
(***************************************************************************)
(* Proofs about AgentUpgrade for any number of upgrades, administrators    *)
(* and reports in progress.  The state Central shows is tied to what the   *)
(* daemon did by following a report from the daemon to the row.            *)
(***************************************************************************)
EXTENDS AgentUpgrade, TLAPS

Busy == {"validate", "download", "verify", "install", "restart"}
Announced == {"INSTALLING", "RESTARTING"}

(* A daemon past the checksum holds a good artifact of a verified upgrade. *)
AgentReal ==
    /\ agent.pc \in Busy => agent.up \in UpgradeId
    /\ agent.pc \in {"install", "restart"} =>
          agent.content = "good" /\ agent.up \in verified

(* A report names a row, and announces only what was verified.             *)
ReportReal ==
    \A s \in Slot : report[s].pc # "idle" =>
        /\ report[s].up \in UpgradeId
        /\ report[s].new \in Announced => report[s].up \in verified
        /\ report[s].pc = "write" => up[report[s].up].state # "none"
        /\ report[s].new # "none"

(* A row about to be inserted is pending; a rollback has no request_id.    *)
AdminReal ==
    \A a \in Admin : admin[a].pc # "idle" =>
        /\ admin[a].row.state \in Pending
        /\ admin[a].pc = "rollback" =>
              /\ admin[a].row.rid = NoId
              /\ admin[a].orig \in UpgradeId
              /\ up[admin[a].orig].state # "none"

IInv == /\ TypeOK /\ AgentReal /\ ReportReal /\ AdminReal
        /\ ProgressIsReal /\ CorruptNeverInstalled /\ RequestIdUnique

USE UpgradeIdAssumption, VersionAssumption, NoIdAssumption

(* The states, listed.                                                     *)
LEMMA States ==
    State = {"APPROVED", "WAITING_FOR_AGENT", "DOWNLOADING", "VERIFYING",
             "INSTALLING", "RESTARTING", "VERIFYING_HEALTH", "SUCCEEDED",
             "FAILED", "ROLLED_BACK"}
BY DEF State, Order

(* The empty records are well typed.                                       *)
LEMMA Idle ==
    /\ NoRow \in Row /\ IdleAgent \in AgentState /\ IdleReport \in ReportState
    /\ IdleAdmin \in AdminState
<1>1. AnyVersion \in Version BY DEF AnyVersion
<1>2. NoRow \in Row BY <1>1 DEF NoRow, Row
<1> QED BY <1>2, States DEF IdleAgent, AgentState, IdleReport, ReportState,
                            IdleAdmin, AdminState

(* Type correctness, element by element.                                   *)
LEMMA Elements ==
    ASSUME TypeOK
    PROVE  /\ \A u \in UpgradeId : up[u] \in Row /\ up[u].target \in Version
           /\ \A s \in Slot : report[s] \in ReportState
           /\ \A a \in Admin : admin[a] \in AdminState /\ admin[a].row \in Row
<1>1. \A u \in UpgradeId : up[u] \in Row BY DEF TypeOK
<1>2. \A s \in Slot : report[s] \in ReportState BY DEF TypeOK
<1>3. \A a \in Admin : admin[a] \in AdminState BY DEF TypeOK
<1> QED BY <1>1, <1>2, <1>3 DEF Row, AdminState

(* Nothing has happened yet.                                               *)
LEMMA InitIInv == Init => IInv
<1> SUFFICES ASSUME Init PROVE IInv OBVIOUS
<1>1. TypeOK BY Idle DEF Init, TypeOK
<1>2. AgentReal BY DEF Init, AgentReal, IdleAgent, Busy
<1>3. ReportReal /\ AdminReal
  BY DEF Init, ReportReal, AdminReal, IdleReport, IdleAdmin
<1>4. ProgressIsReal /\ CorruptNeverInstalled
  BY DEF Init, ProgressIsReal, CorruptNeverInstalled, NoRow
<1>5. RequestIdUnique BY DEF Init, RequestIdUnique, Rows, NoRow
<1> QED BY <1>1, <1>2, <1>3, <1>4, <1>5 DEF IInv

(* Rows that exist keep existing, so a rollback's original stays a row.    *)
LEMMA AdminStays ==
    ASSUME IInv, UNCHANGED admin,
           \A u \in UpgradeId : up[u].state # "none" => up'[u].state # "none"
    PROVE  AdminReal'
BY DEF IInv, AdminReal

(* Administrators read: only their own request changes.                    *)
LEMMA BeginIInv ==
    ASSUME IInv, NEW a \in Admin,
           \/ \E v \in Version, r \in RequestId \cup {NoId}, m \in BOOLEAN :
                 BeginCreate(a, v, r, m)
           \/ \E u \in UpgradeId : BeginRollback(a, u)
    PROVE  IInv'
<1>1. UNCHANGED <<up, life, reported, version, agent, report, verified, intact>>
  BY DEF BeginCreate, BeginRollback
<1>2. PICK new \in AdminState :
         /\ admin' = [admin EXCEPT ![a] = new]
         /\ new.row.state \in Pending
         /\ new.pc = "rollback" => /\ new.row.rid = NoId
                                   /\ new.orig \in UpgradeId
                                   /\ up[new.orig].state # "none"
  <2>1. CASE \E v \in Version, r \in RequestId \cup {NoId}, m \in BOOLEAN :
                BeginCreate(a, v, r, m)
    <3>1. PICK v \in Version, r \in RequestId \cup {NoId}, m \in BOOLEAN :
             admin' = [admin EXCEPT ![a] =
               [pc |-> "create", orig |-> NoUpgrade, mark |-> FALSE,
                row |-> [state |-> "APPROVED", target |-> v, prev |-> reported,
                         meta |-> m, rollback |-> FALSE, rid |-> r]]]
      BY <2>1 DEF BeginCreate
    <3> DEFINE row == [state |-> "APPROVED", target |-> v, prev |-> reported,
                       meta |-> m, rollback |-> FALSE, rid |-> r]
    <3>2. row \in Row BY States DEF Row, Pending, IInv, TypeOK
    <3>3. [pc |-> "create", orig |-> NoUpgrade, mark |-> FALSE, row |-> row]
             \in AdminState
      BY <3>2 DEF AdminState
    <3>4. row.state \in Pending BY DEF Pending
    <3> QED BY <3>1, <3>3, <3>4
  <2>2. CASE \E u \in UpgradeId : BeginRollback(a, u)
    <3>0. PICK u \in UpgradeId : BeginRollback(a, u) BY <2>2
    <3>1. admin' = [admin EXCEPT ![a] =
               [pc |-> "rollback", orig |-> u,
                mark |-> up[u].state \notin {"FAILED", "ROLLED_BACK"},
                row |-> [state |-> "APPROVED", target |-> up[u].prev, prev |-> reported,
                         meta |-> TRUE, rollback |-> TRUE, rid |-> NoId]]]
      BY <3>0 DEF BeginRollback
    <3> DEFINE row == [state |-> "APPROVED", target |-> up[u].prev, prev |-> reported,
                       meta |-> TRUE, rollback |-> TRUE, rid |-> NoId]
               mk == up[u].state \notin {"FAILED", "ROLLED_BACK"}
    <3>2. up[u].prev \in Version BY Elements DEF Row, IInv
    <3>3. row \in Row BY <3>2, States DEF Row, Pending, IInv, TypeOK
    <3>4. mk \in BOOLEAN OBVIOUS
    <3>5. [pc |-> "rollback", orig |-> u, mark |-> mk, row |-> row] \in AdminState
      BY <3>3, <3>4 DEF AdminState
    <3>6. up[u].state # "none" BY <3>0 DEF BeginRollback, Rows
    <3>7. row.state \in Pending BY DEF Pending
    <3> QED BY <3>1, <3>5, <3>6, <3>7
  <2> QED BY <2>1, <2>2
<1>3. TypeOK' BY <1>1, <1>2 DEF IInv, TypeOK
<1>4. AdminReal'
  <2>1. admin'[a] = new /\ \A b \in Admin : b # a => admin'[b] = admin[b]
    BY <1>2 DEF IInv, TypeOK
  <2> QED BY <1>1, <1>2, <2>1 DEF IInv, AdminReal
<1>5. (AgentReal /\ ReportReal)' BY <1>1 DEF IInv, AgentReal, ReportReal
<1>6. (ProgressIsReal /\ CorruptNeverInstalled /\ RequestIdUnique)'
  BY <1>1 DEF IInv, ProgressIsReal, CorruptNeverInstalled, RequestIdUnique, Rows
<1> QED BY <1>3, <1>4, <1>5, <1>6 DEF IInv

(* Administrators commit: the new row is pending and its request_id new.   *)
LEMMA CommitIInv ==
    ASSUME IInv, NEW a \in Admin, CommitCreate(a) \/ CommitRollback(a)
    PROVE  IInv'
<1> DEFINE row == admin[a].row
           New(s) == [row EXCEPT !.state = s]
<1>1. UNCHANGED <<life, reported, version, agent, report, verified, intact>>
      /\ admin' = [admin EXCEPT ![a] = IdleAdmin] /\ admin[a].pc # "idle"
  BY DEF CommitCreate, CommitRollback
<1>2. row \in Row /\ row.state \in Pending
  BY <1>1, Elements DEF IInv, AdminReal
<1>3. \/ UNCHANGED up
      \/ \E u \in UpgradeId, s \in Pending :
            /\ up' \in [UpgradeId -> Row]
            /\ up[u].state = "none" /\ up'[u] = New(s)
            /\ ~RequestIdTaken(row.rid)
            /\ \A w \in UpgradeId : w # u =>
                  /\ up'[w].rid = up[w].rid
                  /\ up'[w].state \in {up[w].state, "ROLLED_BACK"}
                  /\ up[w].state = "none" => up'[w].state = "none"
  <2>1. CASE CommitCreate(a)
    <3>1. CASE UNCHANGED up BY <3>1
    <3>2. CASE ~RequestIdTaken(row.rid)
      <4>1. PICK u \in Fresh, s \in Pending : up' = [up EXCEPT ![u] = New(s)]
        BY <2>1, <3>2 DEF CommitCreate
      <4>2. u \in UpgradeId /\ up[u].state = "none" BY DEF Fresh, Rows
      <4>3. New(s) \in Row BY <1>2, States DEF Row, Pending
      <4>4. up' \in [UpgradeId -> Row] /\ up'[u] = New(s)
            /\ \A w \in UpgradeId : w # u => up'[w] = up[w]
        BY <4>1, <4>2, <4>3 DEF IInv, TypeOK
      <4> QED BY <3>2, <4>2, <4>4
    <3> QED BY <2>1, <3>1, <3>2 DEF CommitCreate
  <2>2. CASE CommitRollback(a)
    <3>1. row.rid = NoId BY <2>2 DEF CommitRollback, IInv, AdminReal
    <3>2. PICK u \in Fresh, s \in Pending :
             up' = [w \in UpgradeId |->
                        IF w = u THEN New(s)
                        ELSE IF w = admin[a].orig /\ admin[a].mark
                        THEN [up[w] EXCEPT !.state = "ROLLED_BACK"]
                        ELSE up[w]]
      BY <2>2 DEF CommitRollback
    <3>3. u \in UpgradeId /\ up[u].state = "none" BY DEF Fresh, Rows
    <3>4. \A w \in UpgradeId : up[w] \in Row /\ [up[w] EXCEPT !.state = "ROLLED_BACK"] \in Row
      BY Elements, States DEF Row, IInv
    <3>10. New(s) \in Row BY <1>2, States DEF Row, Pending
    <3>5. up' \in [UpgradeId -> Row] BY <3>2, <3>4, <3>10
    <3>6. \A w \in UpgradeId : w # u =>
             up'[w] = up[w] \/ (w = admin[a].orig
                                /\ up'[w] = [up[w] EXCEPT !.state = "ROLLED_BACK"])
      BY <3>2
    <3>7. ASSUME NEW w \in UpgradeId, w # u
          PROVE  /\ up'[w].rid = up[w].rid
                 /\ up'[w].state \in {up[w].state, "ROLLED_BACK"}
                 /\ up[w].state = "none" => up'[w].state = "none"
      <4>1. up[w] \in Row BY <3>4
      <4>2. up[w].state = "none" => ~(w = admin[a].orig /\ admin[a].mark)
        BY <3>7, <2>2 DEF CommitRollback, IInv, AdminReal
      <4> QED BY <3>2, <3>7, <4>1, <4>2 DEF Row
    <3>8. up'[u] = New(s) BY <3>2, <3>3
    <3>9. ~RequestIdTaken(row.rid) BY <3>1 DEF RequestIdTaken
    <3> QED BY <3>3, <3>5, <3>7, <3>8, <3>9
  <2> QED BY <2>1, <2>2
<1>4. admin' \in [Admin -> AdminState] BY <1>1, Idle DEF IInv, TypeOK
<1>5. AdminReal'
  <2>1. \A w \in UpgradeId : up[w].state # "none" => up'[w].state # "none"
    BY <1>3
  <2>2. admin'[a].pc = "idle" /\ \A b \in Admin : b # a => admin'[b] = admin[b]
    BY <1>1 DEF IInv, TypeOK, IdleAdmin
  <2> QED BY <2>1, <2>2 DEF IInv, AdminReal
<1>6. AgentReal' /\ CorruptNeverInstalled'
  BY <1>1 DEF IInv, AgentReal, CorruptNeverInstalled
<1>7. CASE UNCHANGED up
  BY <1>1, <1>4, <1>5, <1>6, <1>7
  DEF IInv, TypeOK, ReportReal, ProgressIsReal, RequestIdUnique, Rows
<1>8. CASE ~UNCHANGED up
  <2>1. PICK u \in UpgradeId, s \in Pending :
            /\ up' \in [UpgradeId -> Row]
            /\ up[u].state = "none" /\ up'[u] = New(s)
            /\ ~RequestIdTaken(row.rid)
            /\ \A w \in UpgradeId : w # u =>
                  /\ up'[w].rid = up[w].rid
                  /\ up'[w].state \in {up[w].state, "ROLLED_BACK"}
                  /\ up[w].state = "none" => up'[w].state = "none"
    BY <1>3, <1>8
  <2>6. up'[u].state = s /\ up'[u].rid = row.rid BY <1>2, <2>1 DEF Row
  <2>2. TypeOK' BY <1>1, <1>4, <2>1 DEF IInv, TypeOK
  <2>3. ReportReal'
    BY <1>1, <2>1, <2>6 DEF IInv, ReportReal, Pending
  <2>4. ProgressIsReal'
    BY <1>1, <2>1, <2>6 DEF IInv, ProgressIsReal, Pending
  <2>5. RequestIdUnique'
    <3> HIDE DEF row, New
    <3>1. \A w \in Rows' : w = u \/ (w \in Rows /\ up'[w].rid = up[w].rid)
      BY <2>1 DEF Rows
    <3>2. \A w \in Rows : up[w].rid = row.rid => row.rid = NoId
      BY <2>1 DEF RequestIdTaken
    <3> QED BY <2>6, <3>1, <3>2 DEF IInv, RequestIdUnique
  <2> QED BY <1>5, <1>6, <2>2, <2>3, <2>4, <2>5 DEF IInv
<1> QED BY <1>7, <1>8

(* Decommissioning fails rows and reactivating changes none.               *)
LEMMA LifecycleIInv ==
    ASSUME IInv, Decommission \/ Reactivate
    PROVE  IInv'
<1>1. UNCHANGED <<reported, version, agent, report, admin, verified, intact>>
      /\ life' \in {"ACTIVE", "DECOMMISSIONED"}
  BY DEF Decommission, Reactivate
<1>2. up' \in [UpgradeId -> Row] /\ \A u \in UpgradeId :
         up'[u] = up[u] \/ (up[u].state # "none"
                            /\ up'[u] = [up[u] EXCEPT !.state = "FAILED"])
  <2>1. \A u \in UpgradeId : up[u] \in Row /\ [up[u] EXCEPT !.state = "FAILED"] \in Row
    BY Elements, States DEF Row, IInv
  <2>2. CASE Decommission BY <2>1, <2>2 DEF Decommission, NonTerminal, Rows
  <2>3. CASE Reactivate BY <2>3 DEF Reactivate, IInv, TypeOK
  <2> QED BY <2>2, <2>3
<1>3. \A u \in UpgradeId :
         /\ up'[u].rid = up[u].rid
         /\ up'[u].state \in {up[u].state, "FAILED"}
         /\ up'[u].state = "none" <=> up[u].state = "none"
  BY <1>2, Elements DEF Row, IInv
<1>4. TypeOK' BY <1>1, <1>2 DEF IInv, TypeOK
<1>5. ReportReal' BY <1>1, <1>3 DEF IInv, ReportReal
<1>6. ProgressIsReal' BY <1>1, <1>3 DEF IInv, ProgressIsReal
<1>7. RequestIdUnique' BY <1>3 DEF IInv, RequestIdUnique, Rows
<1>8. (AgentReal /\ AdminReal /\ CorruptNeverInstalled)'
  BY <1>1, <1>3, AdminStays DEF IInv, AgentReal, CorruptNeverInstalled
<1> QED BY <1>4, <1>5, <1>6, <1>7, <1>8 DEF IInv

(* Central handles a report: the row gets a state the report may announce. *)
LEMMA ReportIInv ==
    ASSUME IInv, NEW s \in Slot, ReadReport(s) \/ WriteReport(s)
    PROVE  IInv'
<1> report[s] \in ReportState BY Elements DEF IInv
<1>1. UNCHANGED <<life, reported, version, agent, admin, verified, intact>>
      /\ report[s].pc # "idle" /\ report[s].up \in UpgradeId
  BY DEF ReadReport, WriteReport, IInv, ReportReal
<1>2. (AgentReal /\ CorruptNeverInstalled)'
  BY <1>1 DEF IInv, AgentReal, CorruptNeverInstalled
<1>3. CASE ReadReport(s)
  <2>1. UNCHANGED up BY <1>3 DEF ReadReport
  <2>2. PICK new \in ReportState :
           /\ report' = [report EXCEPT ![s] = new]
           /\ \/ new = IdleReport
              \/ /\ new.up = report[s].up /\ new.new = report[s].new
                 /\ up[report[s].up].state # "none"
    <3>1. [report[s] EXCEPT !.pc = "write"] \in ReportState BY DEF ReportState
    <3>2. \/ report' = [report EXCEPT ![s] = IdleReport]
          \/ /\ report' = [report EXCEPT ![s] = [report[s] EXCEPT !.pc = "write"]]
             /\ up[report[s].up].state # "none"
      BY <1>3 DEF ReadReport, Accepts, IInv, TypeOK
    <3> QED BY <3>1, <3>2, Idle DEF ReportState
  <2>3. TypeOK' BY <1>1, <2>1, <2>2 DEF IInv, TypeOK
  <2>4. ReportReal'
    BY <1>1, <2>1, <2>2 DEF IInv, TypeOK, ReportReal, IdleReport
  <2>5. (ProgressIsReal /\ RequestIdUnique)'
    BY <1>1, <2>1 DEF IInv, ProgressIsReal, RequestIdUnique, Rows
  <2>6. AdminReal' BY <1>1, <2>1, AdminStays
  <2> QED BY <1>2, <2>3, <2>4, <2>5, <2>6 DEF IInv
<1>4. CASE WriteReport(s)
  <2> DEFINE r == report[s]
  <2>1. /\ r.new \in Announced => r.up \in verified
        /\ r.new # "none" /\ r.new \in State /\ up[r.up].state # "none"
    BY <1>1, <1>4 DEF WriteReport, IInv, ReportReal, ReportState
  <2>2. /\ up' = [up EXCEPT ![r.up] = [up[r.up] EXCEPT !.state = r.new]]
        /\ report' = [report EXCEPT ![s] = IdleReport]
    BY <1>1, <1>4 DEF WriteReport, IInv, TypeOK
  <2>3. [up[r.up] EXCEPT !.state = r.new] \in Row
    BY <1>1, <2>1, Elements DEF Row, IInv
  <2>4. \A u \in UpgradeId :
           /\ up'[u].rid = up[u].rid
           /\ up'[u].state = up[u].state \/ (u = r.up /\ up'[u].state = r.new)
    BY <1>1, <2>2, <2>3, Elements DEF IInv, TypeOK, Row
  <2>5. TypeOK' BY <1>1, <2>2, <2>3, Idle DEF IInv, TypeOK
  <2>6. ReportReal'
    BY <1>1, <2>1, <2>2, <2>4 DEF IInv, TypeOK, ReportReal, IdleReport
  <2>7. ProgressIsReal'
    BY <1>1, <2>1, <2>4 DEF IInv, ProgressIsReal, Announced
  <2>8. RequestIdUnique'
    <3>1. \A u \in UpgradeId : up'[u].state = "none" <=> up[u].state = "none"
      BY <2>1, <2>4
    <3>2. Rows' = Rows BY <3>1 DEF Rows
    <3>3. \A u \in Rows : up'[u].rid = up[u].rid BY <2>4 DEF Rows
    <3> QED BY <3>2, <3>3 DEF IInv, RequestIdUnique
  <2>9. AdminReal' BY <1>1, <2>1, <2>4, AdminStays
  <2> QED BY <1>2, <2>5, <2>6, <2>7, <2>8, <2>9 DEF IInv
<1> QED BY <1>3, <1>4

(* What a daemon step must satisfy to preserve the invariant: it leaves    *)
(* Central's rows alone, and what it sends is verified.                    *)
LEMMA DaemonStep ==
    ASSUME IInv, UNCHANGED <<up, life, admin>>,
           reported' \in Version, version' \in Version,
           agent' \in AgentState, verified \subseteq verified',
           verified' \subseteq UpgradeId, intact', AgentReal',
           \/ UNCHANGED report
           \/ \E st \in State : /\ agent.up \in UpgradeId
                                /\ Send(agent.up, st)
                                /\ st \in Announced => agent.up \in verified'
    PROVE  IInv'
<1>1. report' \in [Slot -> ReportState] /\ ReportReal'
  <2>1. CASE UNCHANGED report
    BY <2>1 DEF IInv, TypeOK, ReportReal
  <2>2. CASE ~UNCHANGED report
    <3>1. PICK st \in State, s \in Slot :
             /\ agent.up \in UpgradeId
             /\ st \in Announced => agent.up \in verified'
             /\ report' = [report EXCEPT ![s] =
                              [pc |-> "sent", up |-> agent.up, new |-> st]]
      BY <2>2 DEF Send
    <3>2. [pc |-> "sent", up |-> agent.up, new |-> st] \in ReportState
      BY <3>1 DEF ReportState
    <3>3. report' \in [Slot -> ReportState] BY <3>1, <3>2 DEF IInv, TypeOK
    <3>4. st # "none" BY States
    <3> QED BY <3>1, <3>3, <3>4 DEF IInv, TypeOK, ReportReal
  <2> QED BY <2>1, <2>2
<1>2. TypeOK' BY <1>1 DEF IInv, TypeOK
<1>3. AdminReal' BY DEF IInv, AdminReal
<1>4. ProgressIsReal' BY DEF IInv, ProgressIsReal
<1>5. RequestIdUnique' BY DEF IInv, RequestIdUnique, Rows
<1>6. CorruptNeverInstalled' BY DEF CorruptNeverInstalled
<1> QED BY <1>1, <1>2, <1>3, <1>4, <1>5, <1>6 DEF IInv

(* Each step of the daemon, and its death.                                 *)
LEMMA DaemonIInv ==
    ASSUME IInv, Daemon \/ Crash
    PROVE  IInv'
<1>0. /\ reported \in Version /\ version \in Version /\ agent \in AgentState
      /\ verified \subseteq UpgradeId /\ intact /\ AgentReal
  BY DEF IInv, TypeOK, CorruptNeverInstalled
<1>s. "FAILED" \in State /\ "DOWNLOADING" \in State /\ "VERIFYING" \in State
      /\ "INSTALLING" \in State /\ "RESTARTING" \in State
  BY States
<1>g. ASSUME GiveUp, agent.pc \in Busy
      PROVE  /\ agent' \in AgentState /\ AgentReal'
             /\ agent.up \in UpgradeId /\ Send(agent.up, "FAILED")
  BY <1>0, <1>g, Idle DEF GiveUp, AgentReal, IdleAgent, Busy
<1>1. CASE Heartbeat
  <2>1. agent' \in AgentState /\ AgentReal'
    <3>1. CASE UNCHANGED agent
      BY <3>1, <1>0, <1>1 DEF AgentReal, Heartbeat
    <3>2. CASE ~UNCHANGED agent
      <4>1. PICK u \in UpgradeId :
               agent' = [pc |-> "validate", up |-> u, content |-> "none",
                         allow |-> up[u].target < version]
        BY <1>1, <3>2 DEF Heartbeat, Deliverable, Rows
      <4>2. (up[u].target < version) \in BOOLEAN BY <1>0, Elements DEF IInv
      <4> QED BY <4>1, <4>2 DEF AgentState, AgentReal, Busy
    <3> QED BY <3>1, <3>2
  <2> QED BY <1>0, <1>1, <2>1, DaemonStep DEF Heartbeat
<1>2. CASE ValidatePayload
  <2>1. CASE GiveUp
    BY <1>0, <1>s, <1>2, <2>1, <1>g, DaemonStep DEF ValidatePayload, Busy, Announced
  <2>2. CASE Proceed("DOWNLOADING", "download")
    <3>1. agent' \in AgentState /\ AgentReal' /\ agent.up \in UpgradeId
      BY <1>0, <1>2, <2>2 DEF ValidatePayload, Proceed, AgentState, AgentReal, Busy
    <3> QED BY <1>0, <1>s, <1>2, <2>2, <3>1, DaemonStep
            DEF ValidatePayload, Proceed, Announced
  <2> QED BY <1>2, <2>1, <2>2 DEF ValidatePayload
<1>3. CASE DownloadArtifact
  <2>1. CASE GiveUp
    BY <1>0, <1>s, <1>3, <2>1, <1>g, DaemonStep DEF DownloadArtifact, Busy, Announced
  <2>2. CASE ~GiveUp
    <3>1. agent' \in AgentState /\ AgentReal' /\ agent.up \in UpgradeId
          /\ Send(agent.up, "VERIFYING")
      BY <1>0, <1>3, <2>2 DEF DownloadArtifact, AgentState, AgentReal, Busy
    <3> QED BY <1>0, <1>s, <1>3, <3>1, DaemonStep DEF DownloadArtifact, Announced
  <2> QED BY <2>1, <2>2
<1>4. CASE VerifyArtifact
  <2>1. CASE agent.content = "bad"
    <3>1. GiveUp /\ UNCHANGED verified BY <1>4, <2>1 DEF VerifyArtifact
    <3> QED BY <1>0, <1>s, <1>4, <3>1, <1>g, DaemonStep
            DEF VerifyArtifact, Busy, Announced
  <2>2. CASE agent.content # "bad"
    <3>1. /\ agent.content = "good" /\ verified' = verified \cup {agent.up}
          /\ Proceed("INSTALLING", "install")
      BY <1>4, <2>2 DEF VerifyArtifact
    <3>2. agent' \in AgentState /\ AgentReal' /\ agent.up \in UpgradeId
      BY <1>0, <1>4, <3>1 DEF VerifyArtifact, Proceed, AgentState, AgentReal, Busy
    <3> QED BY <1>0, <1>s, <1>4, <3>1, <3>2, DaemonStep
            DEF VerifyArtifact, Proceed
  <2> QED BY <2>1, <2>2
<1>5. CASE InstallWheel
  <2>1. CASE GiveUp /\ UNCHANGED <<version, intact>>
    BY <1>0, <1>s, <1>5, <2>1, <1>g, DaemonStep DEF InstallWheel, Busy, Announced
  <2>2. CASE ~(GiveUp /\ UNCHANGED <<version, intact>>)
    <3>1. /\ version' = up[agent.up].target
          /\ intact' = (intact /\ agent.content = "good")
          /\ Proceed("RESTARTING", "restart")
      BY <1>5, <2>2 DEF InstallWheel
    <3>2. agent.up \in UpgradeId /\ agent.content = "good" /\ agent.up \in verified
      BY <1>0, <1>5 DEF InstallWheel, AgentReal, Busy
    <3>3. agent' \in AgentState /\ AgentReal'
      BY <1>0, <1>5, <3>1, <3>2
      DEF InstallWheel, Proceed, AgentState, AgentReal, Busy
    <3>4. version' \in Version BY <3>1, <3>2, Elements DEF IInv
    <3>5. intact' BY <1>0, <3>1, <3>2
    <3> QED BY <1>0, <1>s, <1>5, <3>1, <3>2, <3>3, <3>4, <3>5, DaemonStep
            DEF InstallWheel, Proceed
  <2> QED BY <2>1, <2>2
<1>6. CASE RestartService
  <2>1. CASE GiveUp
    BY <1>0, <1>s, <1>6, <2>1, <1>g, DaemonStep DEF RestartService, Busy, Announced
  <2>2. CASE ~GiveUp
    <3>1. agent' \in AgentState /\ AgentReal'
      BY <1>0, <1>6, <2>2 DEF RestartService, IdleAgent, AgentState, AgentReal, Busy
    <3> QED BY <1>0, <1>6, <2>2, <3>1, DaemonStep DEF RestartService
  <2> QED BY <2>1, <2>2
<1>7. CASE StartService
  <2>1. agent' \in AgentState /\ AgentReal'
    BY <1>0, <1>7, Idle DEF StartService, IdleAgent, AgentReal, Busy
  <2> QED BY <1>0, <1>7, <2>1, DaemonStep DEF StartService
<1>8. CASE Crash
  <2>1. agent' \in AgentState /\ AgentReal'
    BY <1>0, <1>8 DEF Crash, IdleAgent, AgentState, AgentReal, Busy
  <2> QED BY <1>0, <1>8, <2>1, DaemonStep DEF Crash
<1> QED BY <1>1, <1>2, <1>3, <1>4, <1>5, <1>6, <1>7, <1>8 DEF Daemon

(* The inductive invariant holds of every reachable state.                 *)
THEOREM Invariance == Spec => []IInv
<1>1. Init => IInv BY InitIInv
<1>2. IInv /\ [Next]_vars => IInv'
  <2> SUFFICES ASSUME IInv, [Next]_vars PROVE IInv' OBVIOUS
  <2>1. CASE \E a \in Admin, v \in Version, r \in RequestId \cup {NoId}, m \in BOOLEAN :
                BeginCreate(a, v, r, m)
    BY <2>1, BeginIInv
  <2>2. CASE \E a \in Admin, u \in UpgradeId : BeginRollback(a, u)
    BY <2>2, BeginIInv
  <2>3. CASE \E a \in Admin : CommitCreate(a) \/ CommitRollback(a)
    BY <2>3, CommitIInv
  <2>4. CASE Decommission \/ Reactivate BY <2>4, LifecycleIInv
  <2>5. CASE \E s \in Slot : ReadReport(s) \/ WriteReport(s)
    BY <2>5, ReportIInv
  <2>6. CASE Daemon \/ Crash BY <2>6, DaemonIInv
  <2>7. CASE UNCHANGED vars
    BY <2>7 DEF vars, IInv, TypeOK, AgentReal, ReportReal, AdminReal,
                ProgressIsReal, CorruptNeverInstalled, RequestIdUnique, Rows
  <2> QED BY <2>1, <2>2, <2>3, <2>4, <2>5, <2>6, <2>7 DEF Next
<1> QED BY <1>1, <1>2, PTL DEF Spec

(* Upgrade rows and the daemon's state keep their types.                   *)
THEOREM TypeCorrect == Spec => []TypeOK
BY Invariance, PTL DEF IInv

(* Central never shows an installation that was not verified.              *)
THEOREM ProgressIsNeverAhead == Spec => []ProgressIsReal
BY Invariance, PTL DEF IInv

(* No artifact is installed without passing the checksum.                  *)
THEOREM InstallFailsClosed == Spec => []CorruptNeverInstalled
BY Invariance, PTL DEF IInv

(* A request_id never creates two upgrades.                                *)
THEOREM RequestsAreIdempotent == Spec => []RequestIdUnique
BY Invariance, PTL DEF IInv

=============================================================================
