----------------------- MODULE SnapshotIngestionProofs -----------------------
(***************************************************************************)
(* Proofs about SnapshotIngestion, for any number of senders, bindings,    *)
(* scans and repeats: Central's current rows are those of the newest       *)
(* snapshot it has compared, no sender believes in a sync that Central has *)
(* not made, the history agrees with the rows, a row goes only with a port *)
(* that was free or a failed collector, and everything keeps its type.     *)
(***************************************************************************)
EXTENDS SnapshotIngestion, FiniteSetTheorems, TLAPS

(* The types the first arguments need; what Merge makes of a group of      *)
(* observations does not matter to them.                                   *)
Typed ==
    /\ used \in [Binding -> Usage]
    /\ clock \in Nat /\ begun \in 0..MaxScans /\ lastScan \in Nat
    /\ sender \in [Sender -> SenderState]
    /\ requests \subseteq Submission
    /\ compared \subseteq Nat /\ scans \subseteq Id

(* 0 stands for no scan, and is never the time of one.                     *)
Timed ==
    /\ clock > 0
    /\ \A s \in Early : sender[s].pc = "begun" => sender[s].at > 0
    /\ \A m \in requests : m.at > 0

(* A scan's id is its own: it is at one sender, or in one request, or      *)
(* already accepted.                                                       *)
IdsUnique ==
    /\ \A s \in Sender : sender[s].id <= begun
    /\ \A m \in requests : m.id <= begun
    /\ \A i \in scans : i <= begun
    /\ \A s \in Sender : sender[s].pc = "begun" =>
          /\ sender[s].id \in Id \ scans
          /\ \A m \in requests : m.id # sender[s].id
          /\ \A u \in Sender \ {s} :
                sender[u].pc = "begun" => sender[u].id # sender[s].id
    /\ \A m, n \in requests : m.id = n.id => m = n

(* What Central has accepted, and may be sent again, is not newer than its *)
(* last scan.                                                              *)
TakenIsOld == \A m \in requests : m.id \in scans => m.at <= lastScan

IInv ==
    Typed /\ Timed /\ IdsUnique /\ TakenIsOld /\ CurrentIsNewest /\ SyncedIsTaken

-----------------------------------------------------------------------------

LEMMA SeenTyped ==
    ASSUME NEW u \in Usage, NEW n \in BOOLEAN, NEW d \in BOOLEAN
    PROVE  Seen(u, n, d) \subseteq SUBSET Row
<1>1. u \in Usages
  BY UsageAssumption
<1>2. \A o \in u.owners : o.process \in Nat /\ o.pid \in Nat
  BY <1>1 DEF Usages
<1>3. u.container \in Nat
  BY <1>1 DEF Usages
<1>4. \A o \in u.owners :
        /\ FromProcess(o) \in Row
        /\ Merged(u.container, o) \in Row
  BY <1>2, <1>3 DEF FromProcess, Merged, Row
<1>5. FromDocker(u.container) \in Row
  BY <1>3 DEF FromDocker, Row
<1> QED
  BY <1>4, <1>5 DEF Seen

LEMMA DiscoverableTyped ==
    ASSUME used \in [Binding -> Usage]
    PROVE  Discoverable \subseteq Discovery
<1> SUFFICES ASSUME NEW scan \in Discoverable
             PROVE  scan \in Discovery
  OBVIOUS
<1> DEFINE busy == {b \in Binding : used[b] # Unused}
<1>1. PICK n \in BOOLEAN, d \in BOOLEAN : \E ports \in Found(n, d) :
        scan = [ports |-> ports, busy |-> busy, whole |-> n /\ d]
  BY DEF Discoverable
<1> PICK ports \in Found(n, d) : scan = [ports |-> ports, busy |-> busy, whole |-> n /\ d]
  BY <1>1
<1>2. ports = [b \in Binding |-> ports[b]]
  BY DEF Found
<1>3. \A b \in Binding : ports[b] \in SUBSET Row
  BY SeenTyped DEF Found
<1>4. ports \in Snapshot
  BY <1>2, <1>3 DEF Snapshot
<1>5. busy \in SUBSET Binding /\ (n /\ d) \in BOOLEAN
  OBVIOUS
<1> HIDE DEF busy
<1> QED
  BY <1>4, <1>5 DEF Discovery

LEMMA NoScanTyped == NoScan \in Discovery
BY DEF NoScan, Discovery, Snapshot

LEMMA InitInv == Init => IInv
<1> SUFFICES ASSUME Init PROVE IInv
  OBVIOUS
<1>1. Typed
  <2>1. sender \in [Sender -> SenderState]
    BY NoScanTyped, BoundAssumption DEF Init, SenderState
  <2> QED
    BY <2>1, BoundAssumption DEF Init, Typed
<1>2. Timed
  BY SenderAssumption DEF Init, Timed
<1>3. IdsUnique /\ TakenIsOld
  BY DEF Init, IdsUnique, TakenIsOld
<1>4. CurrentIsNewest /\ SyncedIsTaken
  BY DEF Init, CurrentIsNewest, SyncedIsTaken
<1> QED
  BY <1>1, <1>2, <1>3, <1>4 DEF IInv

LEMMA ChangeInv ==
    ASSUME IInv, NEW b \in Binding, Change(b)
    PROVE  IInv'
<1>1. used' \in [Binding -> Usage]
  BY DEF IInv, Typed, Change
<1> QED
  BY <1>1 DEF IInv, Typed, Timed, IdsUnique, TakenIsOld, CurrentIsNewest,
              SyncedIsTaken, Change, Submission, Discovery, RowsOf

LEMMA BeginInv ==
    ASSUME IInv, NEW s \in Sender, Begin(s)
    PROVE  IInv'
<1> USE DEF IInv
<1> DEFINE Fresh(t, scan) ==
      [pc |-> "begun", at |-> t, scan |-> scan, id |-> begun + 1,
       synced |-> sender[s].synced]
<1>1. PICK t \in Nat, scan \in Discovery :
        /\ sender' = [sender EXCEPT ![s] = Fresh(t, scan)]
        /\ clock' \in Nat /\ clock' > 0
        /\ s \in Early => t > 0
  <2>1. CASE s \in Early
    <3>1. PICK t \in Now :
            /\ clock' = t
            /\ sender' = [sender EXCEPT ![s] = Fresh(t, NoScan)]
      BY <2>1 DEF Begin, Typed
    <3>2. t \in Nat /\ t > 0
      BY DEF Now, Typed, Timed
    <3> QED
      BY <3>1, <3>2, NoScanTyped
  <2>2. CASE s \notin Early
    <3>1. PICK scan \in Discoverable :
            sender' = [sender EXCEPT ![s] = Fresh(0, scan)]
      BY <2>2 DEF Begin, Typed
    <3>2. clock' = clock
      BY <2>2 DEF Begin
    <3>3. scan \in Discovery
      BY DiscoverableTyped DEF Typed
    <3> QED
      BY <2>2, <3>1, <3>2, <3>3 DEF Typed, Timed
  <2> QED
    BY <2>1, <2>2
<1>2. begun \in Nat /\ begun + 1 \in Id /\ begun' = begun + 1
  BY BoundAssumption DEF Begin, Typed, Id
<1>3. UNCHANGED <<used, requests, lastScan, scans, current, compared, accepted>>
  BY DEF Begin
<1>4. Fresh(t, scan) \in SenderState
  BY <1>2 DEF Typed, SenderState, Id
<1>5. /\ sender' \in [Sender -> SenderState]
      /\ sender'[s] = Fresh(t, scan)
      /\ \A u \in Sender \ {s} : sender'[u] = sender[u]
  BY <1>1, <1>4 DEF Typed
<1>6. Typed'
  BY <1>1, <1>2, <1>3, <1>5 DEF Typed, Id, Submission, Snapshot
<1>7. Timed'
  BY <1>1, <1>3, <1>5, SenderAssumption DEF Timed
<1>8. IdsUnique'
  <2>1. \A u \in Sender : sender[u].id \in Nat
    BY BoundAssumption DEF Typed, SenderState
  <2>2. \A m \in requests : m.id \in Nat
    BY DEF Typed, Submission, Id
  <2>3. \A i \in scans : i \in Nat
    BY DEF Typed, Id
  <2>4. /\ \A u \in Sender : sender'[u].id <= begun'
        /\ \A m \in requests' : m.id <= begun'
        /\ \A i \in scans' : i <= begun'
    BY <1>2, <1>3, <1>5, <2>1, <2>2, <2>3 DEF IdsUnique
  <2>5. /\ begun + 1 \in Id \ scans
        /\ \A m \in requests : m.id # begun + 1
        /\ \A u \in Sender : sender[u].id # begun + 1
    BY <1>2, <2>1, <2>2, <2>3 DEF IdsUnique
  <2>6. \A u \in Sender : sender'[u].pc = "begun" =>
          /\ sender'[u].id \in Id \ scans'
          /\ \A m \in requests' : m.id # sender'[u].id
          /\ \A v \in Sender \ {u} :
                sender'[v].pc = "begun" => sender'[v].id # sender'[u].id
    BY <1>3, <1>5, <2>5 DEF IdsUnique
  <2> QED
    BY <1>3, <2>4, <2>6 DEF IdsUnique
<1>9. TakenIsOld' /\ CurrentIsNewest'
  BY <1>3 DEF TakenIsOld, CurrentIsNewest, RowsOf
<1>10. SyncedIsTaken'
  BY <1>3, <1>5 DEF SyncedIsTaken
<1> QED
  BY <1>6, <1>7, <1>8, <1>9, <1>10

LEMMA SubmitInv ==
    ASSUME IInv, NEW s \in Sender, Submit(s)
    PROVE  IInv'
<1> USE DEF IInv
<1>1. PICK t \in Nat, scan \in Discovery :
        /\ requests' = requests \cup {Request(s, t, scan)}
        /\ t > 0 /\ clock' \in Nat /\ clock' > 0
  <2>1. CASE s \in Early
    <3>1. PICK scan \in Discoverable :
            requests' = requests \cup {Request(s, sender[s].at, scan)}
      BY <2>1 DEF Submit
    <3>2. scan \in Discovery
      BY DiscoverableTyped DEF Typed
    <3>3. sender[s].at \in Nat /\ sender[s].at > 0
      BY <2>1 DEF Submit, Typed, Timed, SenderState
    <3>4. clock' = clock
      BY <2>1 DEF Submit
    <3> QED
      BY <3>1, <3>2, <3>3, <3>4 DEF Typed, Timed
  <2>2. CASE s \notin Early
    <3>1. PICK t \in Now :
            /\ clock' = t
            /\ requests' = requests \cup {Request(s, t, sender[s].scan)}
      BY <2>2 DEF Submit
    <3>2. t \in Nat /\ t > 0
      BY DEF Now, Typed, Timed
    <3>3. sender[s].scan \in Discovery
      BY DEF Typed, SenderState
    <3> QED
      BY <3>1, <3>2, <3>3
  <2> QED
    BY <2>1, <2>2
<1> DEFINE new == Request(s, t, scan)
<1>2. /\ sender[s].pc = "begun"
      /\ sender' = [sender EXCEPT ![s].pc = "waiting", ![s].at = 0,
                                  ![s].scan = NoScan]
      /\ UNCHANGED <<used, begun, lastScan, scans, current, compared, accepted>>
  BY DEF Submit
<1>3. /\ sender' \in [Sender -> SenderState]
      /\ sender'[s].pc = "waiting"
      /\ \A u \in Sender : /\ sender'[u].id = sender[u].id
                           /\ sender'[u].synced = sender[u].synced
      /\ \A u \in Sender \ {s} : sender'[u] = sender[u]
  BY <1>2, NoScanTyped DEF Typed, SenderState
<1>4. new \in Submission /\ new.id = sender[s].id /\ new.at = t
  <2>1. sender[s].id \in Id
    BY <1>2 DEF IdsUnique
  <2> QED
    BY <2>1 DEF Request, Submission, Discovery
<1>5. Typed'
  <2>1. requests' \subseteq Submission
    BY <1>1, <1>4 DEF Typed
  <2> QED
    BY <1>1, <1>2, <1>3, <2>1 DEF Typed, Submission, Snapshot
<1>6. Timed'
  BY <1>1, <1>2, <1>3, <1>4, SenderAssumption DEF Timed
<1>7. IdsUnique'
  <2>1. /\ sender[s].id \in Id \ scans
        /\ \A m \in requests : m.id # sender[s].id
        /\ \A u \in Sender \ {s} :
              sender[u].pc = "begun" => sender[u].id # sender[s].id
    BY <1>2 DEF IdsUnique
  <2>2. \A u \in Sender : sender'[u].pc = "begun" =>
          /\ u # s
          /\ sender'[u].id \in Id \ scans'
          /\ \A m \in requests : m.id # sender'[u].id
          /\ new.id # sender'[u].id
          /\ \A v \in Sender \ {u} :
                sender'[v].pc = "begun" => sender'[v].id # sender'[u].id
    BY <1>2, <1>3, <1>4, <2>1 DEF IdsUnique
  <2>3. \A m, n \in requests' : m.id = n.id => m = n
    BY <1>1, <1>4, <2>1 DEF IdsUnique
  <2>4. /\ \A u \in Sender : sender'[u].id <= begun'
        /\ \A m \in requests' : m.id <= begun'
        /\ \A i \in scans' : i <= begun'
    BY <1>1, <1>2, <1>3, <1>4 DEF IdsUnique
  <2> QED
    BY <1>1, <2>2, <2>3, <2>4 DEF IdsUnique
<1>8. TakenIsOld'
  BY <1>1, <1>2, <1>4 DEF TakenIsOld, IdsUnique
<1>9. CurrentIsNewest' /\ SyncedIsTaken'
  BY <1>2, <1>3 DEF CurrentIsNewest, SyncedIsTaken, RowsOf
<1> QED
  BY <1>5, <1>6, <1>7, <1>8, <1>9

(* What an answer leaves of the invariant, whatever Central made of the    *)
(* request, provided what it calls taken is taken.                         *)
AnswerDone ==
    /\ used' \in [Binding -> Usage]
    /\ clock' \in Nat /\ begun' \in 0..MaxScans
    /\ sender' \in [Sender -> SenderState]
    /\ requests' \subseteq requests /\ requests' \subseteq Submission
    /\ scans' \subseteq Id
    /\ Timed' /\ IdsUnique' /\ SyncedIsTaken'

LEMMA AnswerInv ==
    ASSUME IInv, NEW m \in requests, NEW ok \in BOOLEAN, Answer(m, ok),
           lastScan' \in Nat, lastScan <= lastScan',
           ok => m.at <= lastScan',
           scans' \subseteq scans \cup {m.id}
    PROVE  AnswerDone
<1> USE DEF IInv
<1>1. m \in Submission /\ m.id \in Id /\ m.at \in Nat
  BY DEF Typed, Submission
<1>2. UNCHANGED <<used, clock, begun>> /\ requests' \subseteq requests
  BY DEF Answer
<1>3. /\ sender' \in [Sender -> SenderState]
      /\ \A u \in Sender :
            /\ sender'[u].pc = "begun" => sender'[u] = sender[u]
            /\ sender'[u].id = sender[u].id \/ sender'[u].id = 0
            /\ \/ sender'[u].synced = sender[u].synced
               \/ ok /\ sender'[u].synced = m.at
  <2>1. CASE UNCHANGED sender
    BY <2>1 DEF Typed
  <2>2. CASE Hear(m, ok)
    <3>1. PICK s \in Sender :
            sender' = [sender EXCEPT ![s].pc = "idle", ![s].id = 0,
                                     ![s].synced = IF ok THEN m.at ELSE @]
      BY <2>2 DEF Hear
    <3>2. /\ sender'[s].pc = "idle" /\ sender'[s].id = 0
          /\ sender'[s].synced = IF ok THEN m.at ELSE sender[s].synced
          /\ sender'[s].at = sender[s].at /\ sender'[s].scan = sender[s].scan
          /\ \A u \in Sender \ {s} : sender'[u] = sender[u]
      BY <3>1 DEF Typed, SenderState
    <3>3. sender[s] \in SenderState
      BY DEF Typed
    <3>4. PICK t \in Nat :
            sender' = [sender EXCEPT ![s].pc = "idle", ![s].id = 0,
                                     ![s].synced = t]
      BY <1>1, <3>1, <3>3 DEF SenderState
    <3>5. [sender[s] EXCEPT !.pc = "idle", !.id = 0, !.synced = t]
            \in SenderState
      <4>1. 0 \in 0..MaxScans
        BY BoundAssumption
      <4> HIDE DEF IInv
      <4> QED
        BY <3>3, <4>1 DEF SenderState
    <3>6. sender' \in [Sender -> SenderState]
      BY <3>4, <3>5 DEF Typed
    <3> QED
      BY <3>2, <3>6
  <2> QED
    BY <2>1, <2>2 DEF Answer
<1>4. requests' \subseteq Submission /\ scans' \subseteq Id
  BY <1>1, <1>2 DEF Typed
<1>5. Timed'
  BY <1>2, <1>3, SenderAssumption DEF Timed
<1>6. IdsUnique'
  <2>1. begun \in Nat
    BY BoundAssumption DEF Typed
  <2>2. /\ \A u \in Sender : sender'[u].id <= begun'
        /\ \A n \in requests' : n.id <= begun'
        /\ \A i \in scans' : i <= begun'
    BY <1>2, <1>3, <2>1 DEF IdsUnique
  <2>3. \A u \in Sender : sender'[u].pc = "begun" =>
          /\ sender'[u].id \in Id \ scans'
          /\ \A n \in requests' : n.id # sender'[u].id
          /\ \A v \in Sender \ {u} :
                sender'[v].pc = "begun" => sender'[v].id # sender'[u].id
    BY <1>2, <1>3 DEF IdsUnique
  <2> QED
    BY <1>2, <2>2, <2>3 DEF IdsUnique
<1>7. SyncedIsTaken'
  <2>1. \A u \in Sender : sender[u].synced \in Nat
    BY DEF Typed, SenderState
  <2> QED
    BY <1>1, <1>3, <2>1 DEF Typed, SyncedIsTaken
<1> QED
  BY <1>2, <1>3, <1>4, <1>5, <1>6, <1>7 DEF Typed, AnswerDone

LEMMA RefuseOversizedInv ==
    ASSUME IInv, NEW m \in requests, RefuseOversized(m)
    PROVE  IInv'
<1>1. /\ Answer(m, FALSE)
      /\ UNCHANGED <<lastScan, scans, current, compared, accepted>>
  BY DEF RefuseOversized
<1>2. lastScan \in Nat
  BY DEF IInv, Typed
<1>3. /\ requests' \subseteq requests
      /\ Typed' /\ Timed' /\ IdsUnique' /\ SyncedIsTaken'
  <2>1. /\ lastScan' \in Nat /\ lastScan <= lastScan'
        /\ FALSE => m.at <= lastScan'
        /\ scans' \subseteq scans \cup {m.id}
        /\ FALSE \in BOOLEAN
    BY <1>1, <1>2
  <2>2. AnswerDone
    BY <1>1, <2>1, AnswerInv
  <2> QED
    BY <1>1, <1>2, <2>2 DEF AnswerDone, IInv, Typed
<1>4. TakenIsOld' /\ CurrentIsNewest'
  BY <1>1, <1>3 DEF IInv, TakenIsOld, CurrentIsNewest, RowsOf
<1> QED
  BY <1>3, <1>4 DEF IInv

LEMMA AcceptAgainInv ==
    ASSUME IInv, NEW m \in requests, AcceptAgain(m)
    PROVE  IInv'
<1>1. /\ Answer(m, TRUE)
      /\ UNCHANGED <<lastScan, scans, current, compared, accepted>>
  BY DEF AcceptAgain
<1>2. lastScan \in Nat /\ m.at <= lastScan
  BY DEF AcceptAgain, IInv, Typed, TakenIsOld
<1>3. /\ requests' \subseteq requests
      /\ Typed' /\ Timed' /\ IdsUnique' /\ SyncedIsTaken'
  <2>1. /\ lastScan' \in Nat /\ lastScan <= lastScan'
        /\ TRUE => m.at <= lastScan'
        /\ scans' \subseteq scans \cup {m.id}
        /\ TRUE \in BOOLEAN
    BY <1>1, <1>2
  <2>2. AnswerDone
    BY <1>1, <2>1, AnswerInv
  <2> QED
    BY <1>1, <1>2, <2>2 DEF AnswerDone, IInv, Typed
<1>4. TakenIsOld' /\ CurrentIsNewest'
  BY <1>1, <1>3 DEF IInv, TakenIsOld, CurrentIsNewest, RowsOf
<1> QED
  BY <1>3, <1>4 DEF IInv

LEMMA RefuseStaleInv ==
    ASSUME IInv, NEW m \in requests, RefuseStale(m)
    PROVE  IInv'
<1>1. /\ Answer(m, FALSE)
      /\ lastScan # 0 /\ m.at <= lastScan
      /\ compared' = compared \cup {m.at}
      /\ UNCHANGED <<lastScan, scans, current, accepted>>
  BY DEF RefuseStale, Stale
<1>2. lastScan \in Nat /\ m.at \in Nat
  BY DEF IInv, Typed, Submission
<1>3. /\ requests' \subseteq requests
      /\ Typed' /\ Timed' /\ IdsUnique' /\ SyncedIsTaken'
  <2>1. /\ lastScan' \in Nat /\ lastScan <= lastScan'
        /\ FALSE => m.at <= lastScan'
        /\ scans' \subseteq scans \cup {m.id}
        /\ FALSE \in BOOLEAN
    BY <1>1, <1>2
  <2>2. AnswerDone
    BY <1>1, <2>1, AnswerInv
  <2> QED
    BY <1>1, <1>2, <2>2 DEF AnswerDone, IInv, Typed
<1>4. TakenIsOld'
  BY <1>1, <1>3 DEF IInv, TakenIsOld
<1>5. CurrentIsNewest'
  BY <1>1 DEF IInv, CurrentIsNewest, RowsOf
<1> QED
  BY <1>3, <1>4, <1>5 DEF IInv

LEMMA AcceptInv ==
    ASSUME IInv, NEW m \in requests, Accept(m)
    PROVE  IInv'
<1>1. /\ Answer(m, TRUE)
      /\ ~Stale(m)
      /\ compared' = compared \cup {m.at}
      /\ accepted' = accepted \cup {m}
      /\ current' = RowsOf(m.ports)
      /\ scans' = scans \cup {m.id}
      /\ lastScan' = m.at
  BY DEF Accept
<1>2. lastScan \in Nat /\ m.at \in Nat /\ m.at > 0
  BY DEF IInv, Typed, Timed, Submission
<1>3. lastScan < m.at
  BY <1>1, <1>2 DEF Stale
<1>4. /\ requests' \subseteq requests
      /\ Typed' /\ Timed' /\ IdsUnique' /\ SyncedIsTaken'
  <2>1. compared' \subseteq Nat
    BY <1>1, <1>2 DEF IInv, Typed
  <2>2. /\ lastScan' \in Nat /\ lastScan <= lastScan'
        /\ TRUE => m.at <= lastScan'
        /\ scans' \subseteq scans \cup {m.id}
        /\ TRUE \in BOOLEAN
    BY <1>1, <1>2, <1>3
  <2>3. AnswerDone
    BY <1>1, <2>2, AnswerInv
  <2> QED
    BY <2>1, <2>2, <2>3 DEF AnswerDone, Typed
<1>5. TakenIsOld'
  <2> SUFFICES ASSUME NEW n \in requests', n.id \in scans'
               PROVE  n.at <= lastScan'
    BY DEF TakenIsOld
  <2>1. CASE n.id = m.id
    BY <1>1, <1>2, <1>4, <2>1 DEF IInv, IdsUnique
  <2>2. CASE n.id \in scans
    <3>1. n \in Submission /\ n.at <= lastScan
      BY <1>4, <2>2 DEF IInv, Typed, TakenIsOld
    <3>2. n.at \in Nat
      BY <3>1 DEF Submission
    <3> QED
      BY <1>1, <1>2, <1>3, <3>1, <3>2
  <2> QED
    BY <1>1, <2>1, <2>2
<1>6. CurrentIsNewest'
  <2>1. lastScan' # 0
    BY <1>1, <1>2
  <2>2. \A t \in compared : t \in Nat /\ t <= lastScan
    BY DEF IInv, Typed, CurrentIsNewest
  <2>3. \A t \in compared' : t <= lastScan'
    BY <1>1, <1>2, <1>3, <2>2
  <2>4. \E n \in accepted' : n.at = lastScan' /\ current' = RowsOf(n.ports)
    BY <1>1
  <2> QED
    BY <2>1, <2>3, <2>4 DEF CurrentIsNewest, RowsOf
<1> QED
  BY <1>4, <1>5, <1>6 DEF IInv

LEMMA NextInv == IInv /\ [Next]_vars => IInv'
<1> SUFFICES ASSUME IInv, [Next]_vars PROVE IInv'
  OBVIOUS
<1>1. CASE UNCHANGED vars
  BY <1>1 DEF IInv, Typed, Timed, IdsUnique, TakenIsOld, CurrentIsNewest,
              SyncedIsTaken, vars, Submission, Discovery, RowsOf
<1>2. ASSUME NEW b \in Binding, Change(b) PROVE IInv'
  BY <1>2, ChangeInv
<1>3. ASSUME NEW s \in Sender, SenderStep(s) PROVE IInv'
  BY <1>3, BeginInv, SubmitInv DEF SenderStep
<1>4. ASSUME NEW m \in requests, CentralStep(m) PROVE IInv'
  BY <1>4, RefuseOversizedInv, AcceptAgainInv, RefuseStaleInv, AcceptInv
     DEF CentralStep
<1> QED
  BY <1>1, <1>2, <1>3, <1>4 DEF Next

LEMMA SpecInv == Spec => []IInv
BY InitInv, NextInv, PTL DEF Spec

(* Whatever the senders, delays, losses and repeats, Central's current     *)
(* rows of a host are those of the newest snapshot it has compared         *)
(* (ingest_snapshot's staleness check under the host's advisory lock).     *)
THEOREM NewestWins == Spec => []CurrentIsNewest
<1>1. IInv => CurrentIsNewest
  BY DEF IInv
<1> QED
  BY <1>1, SpecInv, PTL

(* A sender never believes in a sync newer than what Central has taken     *)
(* (flush_snapshot sets last_sync only on an answer that says so).         *)
THEOREM SyncIsReal == Spec => []SyncedIsTaken
<1>1. IInv => SyncedIsTaken
  BY DEF IInv
<1> QED
  BY <1>1, SpecInv, PTL

-----------------------------------------------------------------------------
(* The history.                                                            *)

(* What is known of the history of a port: its last event and its row      *)
(* agree, its events alternate, and none is newer than the last scan.      *)
Explained(h, rows) ==
    IF h = <<>> THEN rows = {}
    ELSE /\ h[Len(h)].kind = "disappeared" <=> rows = {}
         /\ \A r \in rows : r.process = h[Len(h)].process

Ordered(h) ==
    \A i \in DOMAIN h :
        /\ h[i].kind = "appeared" <=> (i = 1 \/ h[i - 1].kind = "disappeared")
        /\ i > 1 => h[i - 1].at < h[i].at

Told(h, rows, last) ==
    /\ \E E : h \in Seq(E)
    /\ Explained(h, rows) /\ Ordered(h)
    /\ \A i \in DOMAIN h : h[i].at \in Nat /\ h[i].at <= last

HistoryInv == \A b \in Binding : Told(events[b], current[b], lastScan)

Single(rows) == rows = {} \/ \E r : rows = {r}

(* The event of a comparison is one, or none because nothing has changed.  *)
LEMMA HappenedIs ==
    ASSUME NEW old, NEW new, NEW at, Single(old), Single(new)
    PROVE  \/ /\ Happened(old, new, at) = <<>>
              /\ old = {} <=> new = {}
              /\ \A r \in old, s \in new : r.process = s.process
           \/ \E e : /\ Happened(old, new, at) = <<e>>
                     /\ e.at = at
                     /\ e.kind = "appeared" <=> old = {}
                     /\ e.kind = "disappeared" <=> new = {}
                     /\ \A s \in new : s.process = e.process
<1>1. \A r \in old : Only(old) = r
  BY DEF Single, Only
<1>2. \A s \in new : Only(new) = s
  BY DEF Single, Only
<1>3. CASE old = {} /\ new = {}
  BY <1>3 DEF Happened
<1>4. CASE old = {} /\ new # {}
  BY <1>2, <1>4 DEF Happened, Note
<1>5. CASE old # {} /\ new = {}
  BY <1>5 DEF Happened, Note
<1>6. CASE old # {} /\ new # {} /\ Identity(Only(old)) # Identity(Only(new))
  BY <1>2, <1>6 DEF Happened, Note
<1>7. CASE old # {} /\ new # {} /\ Identity(Only(old)) = Identity(Only(new))
  <2>1. Only(old).process = Only(new).process
    BY <1>7 DEF Identity
  <2>2. Happened(old, new, at) = <<>>
    BY <1>7 DEF Happened
  <2> QED
    BY <1>1, <1>2, <1>7, <2>1, <2>2
<1> QED
  BY <1>3, <1>4, <1>5, <1>6, <1>7

(* One more comparison, by a newer scan, keeps the history told.           *)
LEMMA ToldOn ==
    ASSUME NEW h, NEW old, NEW new, NEW last \in Nat, NEW at \in Nat, last < at,
           Single(old), Single(new), Told(h, old, last)
    PROVE  Told(h \o Happened(old, new, at), new, at)
<1>1. PICK E : h \in Seq(E)
  BY DEF Told
<1>2. Explained(h, old) /\ Ordered(h)
      /\ \A i \in DOMAIN h : h[i].at \in Nat /\ h[i].at <= last
  BY DEF Told
<1>3. CASE /\ Happened(old, new, at) = <<>>
           /\ old = {} <=> new = {}
           /\ \A r \in old, s \in new : r.process = s.process
  <2>1. h \o <<>> = h
    BY <1>1
  <2>2. Explained(h, new)
    <3>1. CASE h = <<>>
      BY <1>2, <1>3, <3>1 DEF Explained
    <3>2. CASE h # <<>>
      BY <1>2, <1>3, <3>2 DEF Explained
    <3> QED
      BY <3>1, <3>2
  <2>3. \A i \in DOMAIN h : h[i].at \in Nat /\ h[i].at <= at
    BY <1>2
  <2> QED
    BY <1>1, <1>2, <1>3, <2>1, <2>2, <2>3 DEF Told
<1>4. ASSUME NEW e, Happened(old, new, at) = <<e>>, e.at = at,
             e.kind = "appeared" <=> old = {}, e.kind = "disappeared" <=> new = {},
             \A s \in new : s.process = e.process
      PROVE  Told(h \o Happened(old, new, at), new, at)
  <2> DEFINE n == Len(h)
             g == h \o <<e>>
  <2>1. /\ n \in Nat /\ DOMAIN h = 1..n /\ Len(g) = n + 1 /\ DOMAIN g = 1..(n + 1)
        /\ g[n + 1] = e /\ \A i \in 1..n : g[i] = h[i]
        /\ g \in Seq(E \cup {e}) /\ g # <<>>
    BY <1>1
  <2>2. h = <<>> <=> n = 0
    BY <1>1
  <2> HIDE DEF n, g
  <2>3. Explained(g, new)
    BY <1>4, <2>1 DEF Explained
  <2>4. old = {} <=> (n = 0 \/ h[n].kind = "disappeared")
    BY <1>2, <2>2 DEF Explained, n
  <2>5. Ordered(g)
    <3> SUFFICES ASSUME NEW i \in 1..(n + 1)
                 PROVE  /\ g[i].kind = "appeared" <=> (i = 1 \/ g[i - 1].kind = "disappeared")
                        /\ i > 1 => g[i - 1].at < g[i].at
      BY <2>1 DEF Ordered
    <3>1. CASE i = n + 1
      <4>1. n > 0 => n \in 1..n /\ g[n] = h[n] /\ h[n].at \in Nat /\ h[n].at <= last
        BY <1>2, <2>1
      <4>2. i - 1 = n /\ (i = 1 <=> n = 0)
        BY <2>1, <3>1
      <4> QED
        BY <1>4, <2>1, <2>4, <3>1, <4>1, <4>2
    <3>2. CASE i # n + 1
      <4>1. i \in 1..n /\ g[i] = h[i] /\ (i > 1 => i - 1 \in 1..n /\ g[i - 1] = h[i - 1])
        BY <2>1, <3>2
      <4>2. i = 1 \/ i > 1
        OBVIOUS
      <4>3. /\ h[i].kind = "appeared" <=> (i = 1 \/ h[i - 1].kind = "disappeared")
            /\ i > 1 => h[i - 1].at < h[i].at
        BY <1>2, <2>1, <4>1 DEF Ordered
      <4> QED
        BY <4>1, <4>2, <4>3
    <3> QED
      BY <3>1, <3>2
  <2>6. \A i \in DOMAIN g : g[i].at \in Nat /\ g[i].at <= at
    BY <1>2, <1>4, <2>1
  <2>7. Told(g, new, at)
    BY <2>1, <2>3, <2>5, <2>6 DEF Told
  <2> QED
    BY <1>4, <2>7 DEF g
<1> QED
  BY <1>3, <1>4, HappenedIs

(* Central's rows are single, because they are those of some snapshot.     *)
LEMMA RowsSingle ==
    /\ \A p : \A b \in Binding : Single(RowsOf(p)[b])
    /\ IInv => \A b \in Binding : Single(current[b])
<1>1. \A p : \A b \in Binding : Single(RowsOf(p)[b])
  BY DEF RowsOf, Single
<1>2. ASSUME IInv, NEW b \in Binding PROVE Single(current[b])
  <2>1. CASE lastScan = 0
    BY <1>2, <2>1 DEF IInv, CurrentIsNewest, Single
  <2>2. CASE lastScan # 0
    BY <1>1, <1>2, <2>2 DEF IInv, CurrentIsNewest
  <2> QED
    BY <2>1, <2>2
<1> QED
  BY <1>1, <1>2

LEMMA HistoryStep == IInv /\ HistoryInv /\ [Next]_vars => HistoryInv'
<1> SUFFICES ASSUME IInv, HistoryInv, [Next]_vars PROVE HistoryInv'
  OBVIOUS
<1>1. ASSUME NEW m \in requests, Accept(m)
      PROVE  HistoryInv'
  <2>1. lastScan \in Nat /\ m.at \in Nat /\ lastScan < m.at /\ lastScan' = m.at
    BY <1>1 DEF IInv, Typed, Timed, Submission, Accept, Stale
  <2> SUFFICES ASSUME NEW b \in Binding
               PROVE  Told(events'[b], current'[b], lastScan')
    BY DEF HistoryInv
  <2>2. /\ events'[b] = events[b] \o Happened(current[b], RowsOf(m.ports)[b], m.at)
        /\ current'[b] = RowsOf(m.ports)[b]
    BY <1>1 DEF Accept
  <2>3. Single(current[b]) /\ Single(RowsOf(m.ports)[b])
    BY RowsSingle
  <2>4. Told(events[b], current[b], lastScan)
    BY DEF HistoryInv
  <2> DEFINE new == RowsOf(m.ports)[b]
  <2> HIDE DEF new
  <2>5. Single(new) => Told(events[b] \o Happened(current[b], new, m.at), new, m.at)
    BY <2>1, <2>3, <2>4, ToldOn
  <2> QED
    BY <2>1, <2>2, <2>3, <2>5 DEF new
<1>2. CASE UNCHANGED <<events, current, lastScan>>
  BY <1>2 DEF HistoryInv
<1> QED
  BY <1>1, <1>2 DEF Next, vars, Change, SenderStep, Begin, Submit, CentralStep,
                    RefuseOversized, AcceptAgain, RefuseStale

LEMMA HistoryIsTold == Spec => []HistoryInv
<1>1. Init => HistoryInv
  <2>1. <<>> \in Seq({})
    OBVIOUS
  <2> QED
    BY <2>1 DEF Init, HistoryInv, Told, Explained, Ordered
<1> QED
  BY <1>1, HistoryStep, SpecInv, PTL DEF Spec

(* The history of a port tells whether it is in use and by what, however   *)
(* many scans were lost, late or repeated (ingest_snapshot's events).      *)
THEOREM HistoryTellsCurrent == Spec => []HistoryExplainsCurrent
<1>1. HistoryInv => HistoryExplainsCurrent
  BY DEF HistoryInv, Told, Explained, HistoryExplainsCurrent
<1> QED
  BY <1>1, HistoryIsTold, PTL

(* The events of a port alternate and are in the order of their times.     *)
THEOREM HistoryInOrder == Spec => []HistoryIsOrdered
<1>1. HistoryInv => HistoryIsOrdered
  BY DEF HistoryInv, Told, Ordered, HistoryIsOrdered
<1> QED
  BY <1>1, HistoryIsTold, PTL

-----------------------------------------------------------------------------
(* What a snapshot leaves out.                                             *)

(* A scan for which both collectors worked has an observation of every     *)
(* binding that was in use when it was made, and any scan has finitely     *)
(* many.                                                                   *)
Complete(scan) ==
    /\ scan.whole => \A b \in scan.busy : scan.ports[b] # {}
    /\ \A b \in Binding : IsFiniteSet(scan.ports[b])

(* Every scan under way and every submission that carries one is complete, *)
(* or tells that it may not be.                                            *)
ScansAreComplete ==
    /\ \A s \in Sender : Complete(sender[s].scan)
    /\ \A m \in requests : Complete(m)

(* With both collectors at work, a used binding is seen by one of them.    *)
LEMMA UsedIsSeen ==
    ASSUME NEW u \in Usage, u # Unused
    PROVE  \A found \in Seen(u, TRUE, TRUE) : found # {}
<1>1. u \in Usages
  BY UsageAssumption
<1>2. u.owners # {} \/ u.container # 0
  BY <1>1 DEF Usages, Unused
<1>3. CASE u.container # 0 /\ u.owners = {}
  BY <1>3 DEF Seen
<1>4. CASE u.container # 0 /\ u.owners # {}
  BY <1>4 DEF Seen
<1>5. CASE u.container = 0
  <2>1. u.owners # {}
    BY <1>2, <1>5
  <2>2. Seen(u, TRUE, TRUE) = {{FromProcess(o) : o \in u.owners}}
    BY <1>5 DEF Seen
  <2>3. PICK o \in u.owners : TRUE
    BY <2>1
  <2>4. FromProcess(o) \in {FromProcess(p) : p \in u.owners}
    OBVIOUS
  <2> QED
    BY <2>2, <2>4
<1> QED
  BY <1>3, <1>4, <1>5

LEMMA SeenFinite ==
    ASSUME NEW u \in Usage, NEW n \in BOOLEAN, NEW d \in BOOLEAN
    PROVE  \A found \in Seen(u, n, d) : IsFiniteSet(found)
<1> DEFINE owners == IF n THEN u.owners ELSE {}
           listed == {FromProcess(o) : o \in owners}
<1>1. IsFiniteSet(owners)
  BY UsageAssumption, FS_EmptySet
<1>2. IsFiniteSet(listed)
  <2> HIDE DEF owners
  <2> DEFINE f == [o \in owners |-> FromProcess(o)]
  <2>1. f \in Surjection(owners, listed)
    BY DEF Surjection
  <2> HIDE DEF listed, f
  <2> QED
    BY <1>1, <2>1, FS_Surjection
<1>3. \A x : IsFiniteSet({x})
  BY FS_Singleton
<1>4. \A found \in Seen(u, n, d) : found = listed \/ \E x : found = {x}
  <2> DEFINE visible == d /\ u.container # 0
  <2>1. CASE visible /\ owners = {}
    BY <2>1 DEF Seen
  <2>2. CASE visible /\ owners # {}
    BY <2>2 DEF Seen
  <2>3. CASE ~visible
    <3>1. Seen(u, n, d) = {listed}
      BY <2>3 DEF Seen
    <3> QED
      BY <3>1
  <2> QED
    BY <2>1, <2>2, <2>3
<1> HIDE DEF listed
<1> QED
  BY <1>2, <1>3, <1>4

LEMMA DiscoverableComplete ==
    ASSUME used \in [Binding -> Usage], NEW scan \in Discoverable
    PROVE  Complete(scan)
<1> DEFINE busy == {b \in Binding : used[b] # Unused}
<1>1. PICK n \in BOOLEAN, d \in BOOLEAN : \E ports \in Found(n, d) :
        scan = [ports |-> ports, busy |-> busy, whole |-> n /\ d]
  BY DEF Discoverable
<1>2. PICK ports \in Found(n, d) : scan = [ports |-> ports, busy |-> busy, whole |-> n /\ d]
  BY <1>1
<1>3. scan.ports = ports /\ scan.busy = busy /\ scan.whole = (n /\ d)
  BY <1>2
<1>4. ASSUME scan.whole, NEW b \in scan.busy PROVE scan.ports[b] # {}
  <2>1. n = TRUE /\ d = TRUE /\ b \in Binding /\ used[b] # Unused
    BY <1>3, <1>4
  <2>2. ports[b] \in Seen(used[b], TRUE, TRUE)
    BY <2>1 DEF Found
  <2> QED
    BY <1>3, <2>1, <2>2, UsedIsSeen
<1>5. ASSUME NEW b \in Binding PROVE IsFiniteSet(scan.ports[b])
  <2>1. ports[b] \in Seen(used[b], n, d) /\ used[b] \in Usage
    BY DEF Found
  <2> QED
    BY <1>3, <2>1, SeenFinite
<1> QED
  BY <1>4, <1>5 DEF Complete

LEMMA ScansStayComplete == IInv /\ ScansAreComplete /\ [Next]_vars => ScansAreComplete'
<1> SUFFICES ASSUME IInv, ScansAreComplete, [Next]_vars PROVE ScansAreComplete'
  OBVIOUS
<1>0. Complete(NoScan)
  BY FS_EmptySet DEF NoScan, Complete
<1>1. CASE UNCHANGED <<sender, requests>>
  BY <1>1 DEF ScansAreComplete, Complete
<1>2. ASSUME NEW s \in Sender, Begin(s) PROVE ScansAreComplete'
  <2>1. PICK scan : /\ Complete(scan)
                    /\ sender'[s].scan = scan
                    /\ \A u \in Sender \ {s} : sender'[u] = sender[u]
    BY <1>0, <1>2, DiscoverableComplete DEF Begin, IInv, Typed
  <2> QED
    BY <1>2, <2>1 DEF Begin, ScansAreComplete, Complete
<1>3. ASSUME NEW s \in Sender, Submit(s) PROVE ScansAreComplete'
  <2>1. PICK t, scan : /\ Complete(scan)
                       /\ requests' = requests \cup {Request(s, t, scan)}
    BY <1>3, DiscoverableComplete DEF Submit, IInv, Typed, ScansAreComplete
  <2>2. Complete(Request(s, t, scan))
    BY <2>1 DEF Complete, Request
  <2>3. /\ sender'[s].scan = NoScan
        /\ \A u \in Sender \ {s} : sender'[u] = sender[u]
    BY <1>3 DEF Submit, IInv, Typed, SenderState
  <2> QED
    BY <1>0, <2>1, <2>2, <2>3 DEF ScansAreComplete, Complete
<1>4. ASSUME NEW m \in requests, NEW ok, Answer(m, ok) PROVE ScansAreComplete'
  <2>1. requests' \subseteq requests
    BY <1>4 DEF Answer
  <2>2. ASSUME NEW u \in Sender PROVE sender'[u].scan = sender[u].scan
    <3>1. sender \in [Sender -> SenderState]
      BY DEF IInv, Typed
    <3>2. CASE Hear(m, ok)
      <4>1. PICK s \in Sender :
              sender' = [sender EXCEPT ![s].pc = "idle", ![s].id = 0,
                                       ![s].synced = IF ok THEN m.at ELSE @]
        BY <3>2 DEF Hear
      <4>2. sender[s] \in SenderState
        BY <3>1
      <4> QED
        BY <3>1, <4>1, <4>2 DEF SenderState
    <3> QED
      BY <1>4, <3>2 DEF Answer
  <2> QED
    BY <2>1, <2>2 DEF ScansAreComplete, Complete
<1> QED
  BY <1>1, <1>2, <1>3, <1>4
     DEF Next, vars, Change, SenderStep, CentralStep, RefuseOversized, AcceptAgain,
         RefuseStale, Accept

LEMMA ScansComplete == Spec => []ScansAreComplete
<1>1. Init => ScansAreComplete
  <2>1. Complete(NoScan)
    BY FS_EmptySet DEF NoScan, Complete
  <2>2. Init => requests = {} /\ \A s \in Sender : sender[s].scan = NoScan
    BY DEF Init
  <2> QED
    BY <2>1, <2>2 DEF ScansAreComplete, Complete
<1> QED
  BY <1>1, ScansStayComplete, SpecInv, PTL DEF Spec

(* A row goes only with a snapshot that Central takes, and such a snapshot *)
(* misses a binding in use only when a collector had failed.               *)
GoneWasFree ==
    \A b \in Binding : current[b] # {} /\ current'[b] = {} =>
        \E m \in accepted' : m.at = lastScan' /\ (b \in m.busy => ~m.whole)

LEMMA GoneIsFree ==
    ASSUME ScansAreComplete, [Next]_vars
    PROVE  GoneWasFree
<1>1. CASE UNCHANGED current
  BY <1>1 DEF GoneWasFree
<1>2. ASSUME NEW m \in requests, Accept(m) PROVE GoneWasFree
  <2> SUFFICES ASSUME NEW b \in Binding, current'[b] = {}
               PROVE  m \in accepted' /\ m.at = lastScan' /\ (b \in m.busy => ~m.whole)
    BY DEF GoneWasFree
  <2>1. m.ports[b] = {}
    BY <1>2 DEF Accept, RowsOf
  <2> QED
    BY <1>2, <2>1 DEF Accept, ScansAreComplete, Complete
<1> QED
  BY <1>1, <1>2
     DEF Next, vars, Change, SenderStep, Begin, Submit, CentralStep, RefuseOversized,
         AcceptAgain, RefuseStale

(* Central drops a port from complete scans only when nothing held it as   *)
(* the scan was made (ingest_snapshot's full replacement, which takes what *)
(* a snapshot omits for free).                                             *)
THEOREM OnlyFreePortsGo == Spec => OnlyFreePortsDisappear
<1>1. ScansAreComplete /\ [Next]_vars =>
        [\A b \in Binding : current[b] # {} /\ current'[b] = {} =>
           \E m \in accepted' : m.at = lastScan' /\ (b \in m.busy => ~m.whole)]_vars
  BY GoneIsFree DEF GoneWasFree
<1> QED
  BY <1>1, ScansComplete, PTL DEF Spec, OnlyFreePortsDisappear

-----------------------------------------------------------------------------
(* What Merge makes of a group of observations.  _observation_sort_key     *)
(* orders the rows of a binding totally, so a group has a best one.        *)

(* The order of two sort keys, from component i on.                        *)
Above(k, l) ==
    \/ k[1] > l[1]
    \/ k[1] = l[1] /\ k[2] > l[2]
    \/ k[1] = l[1] /\ k[2] = l[2] /\ k[3] > l[3]
    \/ k[1] = l[1] /\ k[2] = l[2] /\ k[3] = l[3] /\ k[4] > l[4]
    \/ k[1] = l[1] /\ k[2] = l[2] /\ k[3] = l[3] /\ k[4] = l[4] /\ k[5] > l[5]
    \/ k[1] = l[1] /\ k[2] = l[2] /\ k[3] = l[3] /\ k[4] = l[4] /\ k[5] = l[5]
       /\ k[6] > l[6]

Key == Nat \X Nat \X Nat \X Nat \X Nat \X Nat

LEMMA AboveIsOrder ==
    ASSUME NEW k \in Key, NEW l \in Key, NEW m \in Key
    PROVE  /\ Above(k, l) /\ Above(l, m) => Above(k, m)
           /\ k = l \/ Above(k, l) \/ Above(l, k)
<1>1. /\ k[1] \in Nat /\ k[2] \in Nat /\ k[3] \in Nat
      /\ k[4] \in Nat /\ k[5] \in Nat /\ k[6] \in Nat
      /\ l[1] \in Nat /\ l[2] \in Nat /\ l[3] \in Nat
      /\ l[4] \in Nat /\ l[5] \in Nat /\ l[6] \in Nat
      /\ m[1] \in Nat /\ m[2] \in Nat /\ m[3] \in Nat
      /\ m[4] \in Nat /\ m[5] \in Nat /\ m[6] \in Nat
  BY DEF Key
<1>2. Above(k, l) /\ Above(l, m) => Above(k, m)
  BY <1>1 DEF Above
<1>3. \/ Above(k, l) \/ Above(l, k)
      \/ /\ k[1] = l[1] /\ k[2] = l[2] /\ k[3] = l[3]
         /\ k[4] = l[4] /\ k[5] = l[5] /\ k[6] = l[6]
  BY <1>1 DEF Above
<1>4. /\ k[1] = l[1] /\ k[2] = l[2] /\ k[3] = l[3]
      /\ k[4] = l[4] /\ k[5] = l[5] /\ k[6] = l[6]
      => k = l
  BY DEF Key
<1> QED
  BY <1>2, <1>3, <1>4

LEMMA OutranksIsAbove ==
    ASSUME NEW o \in Row, NEW p \in Row
    PROVE  /\ SortKey(o) \in Key
           /\ Outranks(o, p) <=> Above(SortKey(o), SortKey(p))
           /\ SortKey(o) = SortKey(p) => o = p
<1>1. SortKey(o) \in Key
  BY DEF SortKey, Key, Row, Present
<1>2. SortKey(o) = SortKey(p) => o = p
  BY DEF SortKey, Row
<1>3. Outranks(o, p) <=> Above(SortKey(o), SortKey(p))
  <2> DEFINE k == SortKey(o)
             l == SortKey(p)
  <2>1. DOMAIN k = 1..6
    BY DEF SortKey
  <2>2. Outranks(o, p) <=> \E i \in 1..6 : k[i] > l[i] /\ \A j \in 1..(i - 1) : k[j] = l[j]
    BY <2>1 DEF Outranks
  <2> HIDE DEF k, l
  <2>3. /\ 1..(1 - 1) = {} /\ 1..(2 - 1) = {1} /\ 1..(3 - 1) = {1, 2}
        /\ 1..(4 - 1) = {1, 2, 3} /\ 1..(5 - 1) = {1, 2, 3, 4}
        /\ 1..(6 - 1) = {1, 2, 3, 4, 5} /\ 1..6 = {1, 2, 3, 4, 5, 6}
    OBVIOUS
  <2>4. (\E i \in 1..6 : k[i] > l[i] /\ \A j \in 1..(i - 1) : k[j] = l[j]) <=> Above(k, l)
    BY <2>3 DEF Above
  <2> QED
    BY <2>2, <2>4 DEF k, l
<1> QED
  BY <1>1, <1>2, <1>3

(* Rows are ordered: two of them compare, and the comparison is transitive.*)
LEMMA OutranksIsOrder ==
    ASSUME NEW o \in Row, NEW p \in Row, NEW q \in Row
    PROVE  /\ Outranks(o, p) /\ Outranks(p, q) => Outranks(o, q)
           /\ o = p \/ Outranks(o, p) \/ Outranks(p, o)
BY OutranksIsAbove, AboveIsOrder

(* The best of a finite group, of which Best is one.  Were there groups    *)
(* without, one of them would have no smaller one within.                  *)
HasBest(group) == \E o \in group : \A p \in group \ {o} : Outranks(o, p)

LEMMA GroupHasBest ==
    ASSUME NEW group \in SUBSET Row, IsFiniteSet(group), group # {}
    PROVE  HasBest(group)
<1> DEFINE bad == {g \in SUBSET group : g # {} /\ ~HasBest(g)}
<1> SUFFICES ASSUME bad # {} PROVE FALSE
  OBVIOUS
<1>1. PICK g \in bad : \A h \in bad : <<h, g>> \notin StrictSubsetOrdering(group)
  <2>1. bad \subseteq FiniteSubsetsOf(group)
    BY FS_Subset DEF FiniteSubsetsOf
  <2>2. IsWellFoundedOn(StrictSubsetOrdering(group), FiniteSubsetsOf(group))
    BY FS_StrictSubsetOrderingWellFounded
  <2> HIDE DEF bad
  <2> QED
    BY <2>1, <2>2, WFMin
<1>2. PICK x \in g : TRUE
  OBVIOUS
<1> DEFINE rest == g \ {x}
<1>3. rest = {} \/ HasBest(rest)
  <2>1. rest \in SUBSET group /\ g \in SUBSET group /\ rest \subseteq g /\ rest # g
    BY <1>2
  <2>2. <<rest, g>> \in StrictSubsetOrdering(group)
    BY <2>1 DEF StrictSubsetOrdering
  <2>3. rest \notin bad
    BY <1>1, <2>2
  <2> QED
    BY <2>1, <2>3
<1>4. CASE rest = {}
  BY <1>2, <1>4 DEF HasBest
<1>5. CASE HasBest(rest)
  <2>1. PICK o \in rest : \A p \in rest \ {o} : Outranks(o, p)
    BY <1>5 DEF HasBest
  <2>2. CASE Outranks(o, x)
    BY <2>1, <2>2 DEF HasBest
  <2>3. CASE Outranks(x, o)
    <3>1. \A p \in rest \ {o} : Outranks(x, p)
      BY <2>1, <2>3, OutranksIsOrder
    <3> QED
      BY <1>2, <2>1, <2>3, <3>1 DEF HasBest
  <2> QED
    BY <2>1, <2>2, <2>3, OutranksIsOrder
<1> QED
  BY <1>3, <1>4, <1>5

LEMMA MergeIsRow ==
    ASSUME NEW group \in SUBSET Row, IsFiniteSet(group), group # {}
    PROVE  Merge(group) \in Row
<1>1. \A g \in SUBSET group : g # {} => Best(g) \in g
  BY GroupHasBest, FS_Subset DEF Best, HasBest
<1> DEFINE best == Best(group)
           owned == {o \in group : o.process # 0 \/ o.pid # 0}
           contained == {o \in group : o.container # 0}
           owner == IF best \in owned \/ owned = {} THEN best ELSE Best(owned)
           box == IF best \in contained \/ contained = {} THEN best ELSE Best(contained)
<1>2. best \in Row /\ owner \in Row /\ box \in Row
  BY <1>1
<1>3. Merge(group) = [source |-> best.source, process |-> owner.process,
                      pid |-> owner.pid, container |-> box.container]
  BY DEF Merge
<1> HIDE DEF best, owner, box
<1> QED
  BY <1>2, <1>3 DEF Row

-----------------------------------------------------------------------------
(* Types.                                                                  *)

LEMMA RowsTyped ==
    ASSUME NEW m \in Submission, Complete(m)
    PROVE  /\ RowsOf(m.ports) \in [Binding -> SUBSET Row]
           /\ \A b \in Binding : Cardinality(RowsOf(m.ports)[b]) <= 1
<1>1. ASSUME NEW b \in Binding
      PROVE  \/ RowsOf(m.ports)[b] = {}
             \/ \E r \in Row : RowsOf(m.ports)[b] = {r}
  <2>1. m.ports[b] \in SUBSET Row /\ IsFiniteSet(m.ports[b])
    BY DEF Complete, Submission, Snapshot
  <2>2. RowsOf(m.ports)[b] = IF m.ports[b] = {} THEN {} ELSE {Merge(m.ports[b])}
    BY DEF RowsOf
  <2> QED
    BY <2>1, <2>2, MergeIsRow
<1>2. RowsOf(m.ports) \in [Binding -> SUBSET Row]
  <2>1. RowsOf(m.ports) = [b \in Binding |-> RowsOf(m.ports)[b]]
    BY DEF RowsOf
  <2>2. \A b \in Binding : RowsOf(m.ports)[b] \in SUBSET Row
    BY <1>1
  <2> QED
    BY <2>1, <2>2
<1>3. Cardinality({}) = 0 /\ \A r \in Row : Cardinality({r}) = 1
  BY FS_EmptySet, FS_Singleton
<1> QED
  BY <1>1, <1>2, <1>3

LEMMA HappenedTyped ==
    ASSUME NEW old \in SUBSET Row, NEW new \in SUBSET Row, NEW at \in Nat
    PROVE  Happened(old, new, at) \in Seq(Event)
<1>1. \A rows \in SUBSET Row : rows # {} => Only(rows) \in Row
  BY DEF Only
<1>2. \A kind \in {"appeared", "changed", "disappeared"}, r \in Row :
        Note(kind, r, at) \in Seq(Event)
  <2> TAKE kind \in {"appeared", "changed", "disappeared"}, r \in Row
  <2>1. [kind |-> kind, process |-> r.process, at |-> at] \in Event
    BY DEF Event, Row
  <2> QED
    BY <2>1 DEF Note
<1>3. <<>> \in Seq(Event)
  OBVIOUS
<1>4. \/ Happened(old, new, at) = <<>>
      \/ new # {} /\ \E kind \in {"appeared", "changed"} :
            Happened(old, new, at) = Note(kind, Only(new), at)
      \/ old # {} /\ Happened(old, new, at) = Note("disappeared", Only(old), at)
  BY DEF Happened
<1> QED
  BY <1>1, <1>2, <1>3, <1>4

LEMMA StepTypes == TypeOK /\ IInv /\ ScansAreComplete /\ [Next]_vars => TypeOK'
<1> SUFFICES ASSUME TypeOK, IInv, ScansAreComplete, [Next]_vars PROVE TypeOK'
  OBVIOUS
<1>0. Typed' /\ Timed'
  BY NextInv DEF IInv
<1> DEFINE Counted == changes' \in 0..MaxChanges /\ repeats' \in 0..MaxRepeats
           Kept == UNCHANGED <<current, events, accepted>>
<1>1. CASE Counted /\ Kept
  BY <1>0, <1>1 DEF TypeOK, Typed, Timed
<1>2. ASSUME NEW b \in Binding, Change(b) PROVE Counted /\ Kept
  BY <1>2, BoundAssumption DEF Change, TypeOK
<1>3. ASSUME NEW s \in Sender, SenderStep(s) PROVE Counted /\ Kept
  BY <1>3 DEF SenderStep, Begin, Submit, TypeOK
<1>4. ASSUME NEW m \in requests, CentralStep(m) PROVE Counted
  <2>1. \E ok \in BOOLEAN : Answer(m, ok)
    BY <1>4 DEF CentralStep, RefuseOversized, AcceptAgain, RefuseStale, Accept
  <2>2. repeats' \in 0..MaxRepeats
    BY <2>1, BoundAssumption DEF Answer, TypeOK
  <2>3. UNCHANGED changes
    BY <2>1 DEF Answer
  <2> QED
    BY <2>2, <2>3 DEF TypeOK
<1>5. ASSUME NEW m \in requests, RefuseOversized(m) \/ AcceptAgain(m) \/ RefuseStale(m)
      PROVE  Kept
  BY <1>5 DEF RefuseOversized, AcceptAgain, RefuseStale
<1>6. ASSUME NEW m \in requests, Accept(m) PROVE TypeOK'
  <2>1. Counted
    BY <1>4, <1>6 DEF CentralStep
  <2>2. m \in Submission /\ Complete(m) /\ m.at \in Nat
    BY DEF IInv, Typed, ScansAreComplete, Submission
  <2>3. /\ current' \in [Binding -> SUBSET Row]
        /\ \A b \in Binding : Cardinality(current'[b]) <= 1
    BY <1>6, <2>2, RowsTyped DEF Accept
  <2>4. accepted' \subseteq Submission
    BY <1>6, <2>2 DEF Accept, TypeOK
  <2>5. events' \in [Binding -> Seq(Event)]
    <3>1. ASSUME NEW b \in Binding
          PROVE  events[b] \o Happened(current[b], current'[b], m.at) \in Seq(Event)
      <4>1. /\ current[b] \in SUBSET Row /\ current'[b] \in SUBSET Row
            /\ events[b] \in Seq(Event)
        BY <2>3 DEF TypeOK
      <4>2. Happened(current[b], current'[b], m.at) \in Seq(Event)
        BY <2>2, <4>1, HappenedTyped
      <4> QED
        BY <4>1, <4>2
    <3>2. events' = [b \in Binding |->
                       events[b] \o Happened(current[b], current'[b], m.at)]
      BY <1>6 DEF Accept
    <3> QED
      BY <3>1, <3>2
  <2> QED
    BY <1>0, <2>1, <2>3, <2>4, <2>5 DEF TypeOK, Typed, Timed
<1>7. CASE UNCHANGED vars
  BY <1>1, <1>7 DEF vars, TypeOK
<1> QED
  BY <1>1, <1>2, <1>3, <1>4, <1>5, <1>6, <1>7 DEF Next, CentralStep

(* Every variable keeps its type; of a binding Central has at most one     *)
(* row, made of what some scan observed (_canonicalize_observations).      *)
THEOREM Types == Spec => []TypeOK
<1>1. Init => TypeOK
  <2>1. Init => Typed /\ Timed
    BY InitInv DEF IInv
  <2>2. Cardinality({}) = 0
    BY FS_EmptySet
  <2> QED
    BY <2>1, <2>2, BoundAssumption DEF Init, TypeOK, Typed, Timed
<1> QED
  BY <1>1, StepTypes, SpecInv, ScansComplete, PTL DEF Spec
=============================================================================
