------------------------- MODULE RemoteProbeProofs -------------------------
(***************************************************************************)
(* Proofs about RemoteProbe, for any number of hosts, ports, probes and    *)
(* agent sessions. Fresh verified_free evidence is honest: the argument    *)
(* follows an answer from the bind attempt to the row; from the moment the *)
(* port was seen free, the port cannot have been busy for longer than the  *)
(* probe is old. And a host's queue is bounded, by counting the unfinished *)
(* probes and those that requests under way have flushed.                  *)
(***************************************************************************)
EXTENDS RemoteProbe, FiniteSetTheorems, TLAPS

(* A port that is free now has not been busy at all.                       *)
FreeIsZero ==
    \A h \in Host : \A p \in Port : p \notin bound[h] => busyFor[h][p] = 0

(* Every row names a port.                                                 *)
RowsNamePort ==
    \A i \in ProbeId : probe[i].status # "none" => probe[i].port \in Port

Owned(s, i) == probe[i].status # "none" /\ probe[i].host = HostOf[s]

(* A session only holds probes of its own host.                            *)
SessionOwns ==
    \A s \in Session :
        /\ \A i \in sess[s].batch : Owned(s, i)
        /\ sess[s].pc \in {"submit", "write"} =>
              sess[s].cur \in ProbeId /\ Owned(s, sess[s].cur)

FreeWithin(i) == busyFor[probe[i].host][probe[i].port] <= probe[i].age

(* A recorded free result is no older than the probe.                      *)
ResultHonest ==
    \A i \in ProbeId :
        probe[i].status # "none" /\ probe[i].result = "free" => FreeWithin(i)

(* So is a free answer on its way to Central.                              *)
AnswerHonest ==
    \A s \in Session :
        sess[s].pc \in {"submit", "write"} /\ sess[s].answer = "free"
            => FreeWithin(sess[s].cur)

IInv == /\ TypeOK /\ FreeIsZero /\ RowsNamePort
        /\ SessionOwns /\ ResultHonest /\ AnswerHonest

USE HostAssumption, PortAssumption, ProbeIdAssumption, HostOfAssumption, LimitAssumption
USE DEF Status

-----------------------------------------------------------------------------
(* Initially there are no rows, no answers and no request.                 *)
LEMMA InitIInv == Init => IInv
<1> SUFFICES ASSUME Init PROVE IInv OBVIOUS
<1>1. AnyHost \in Host BY DEF AnyHost
<1>2. TypeOK
  <2>1. bound \in [Host -> SUBSET Port]
    <3>1. \A h \in Host : bound[h] \subseteq Contended BY DEF Init
    <3> QED BY <3>1 DEF Init
  <2>2. NoRow \in ProbeRow BY <1>1 DEF ProbeRow, NoRow
  <2>3. IdleSession \in SessionState BY DEF SessionState, IdleSession
  <2>4. IdleTx \in TxState BY <1>1 DEF TxState, IdleTx
  <2>5. quiet \in [Host -> 0..(StaleAfter + 1)]
        /\ busyFor \in [Host -> [Port -> 0..(TTL + 1)]]
    BY DEF Init
  <2> QED BY <2>1, <2>2, <2>3, <2>4, <2>5 DEF Init, TypeOK
<1>3. FreeIsZero BY DEF Init, FreeIsZero
<1>4. RowsNamePort BY DEF Init, RowsNamePort, NoRow, IdleTx
<1>5. SessionOwns /\ AnswerHonest
  BY DEF Init, SessionOwns, AnswerHonest, IdleSession
<1>6. ResultHonest BY DEF Init, ResultHonest, NoRow
<1> QED BY <1>2, <1>3, <1>4, <1>5, <1>6 DEF IInv

(* The three kinds of request queue probes in the same way.                *)
LEMMA RequestsQueue ==
    ASSUME NEW t \in Tx, NEW h \in Host,
           \/ \E free \in SUBSET Port : \/ SuggestPort(t, h, free)
                                       \/ AllocateItem(t, h, free)
           \/ \E p \in Port : VerifyPort(t, h, p)
    PROVE  \E p \in Port : QueueProbe(t, h, p)
BY DEF SuggestPort, AllocateItem, VerifyPort, Candidate

(* Queueing a probe only touches its transaction.                          *)
LEMMA QueueIInv ==
    ASSUME IInv, NEW t \in Tx, NEW h \in Host, NEW p \in Port, QueueProbe(t, h, p)
    PROVE  IInv'
<1>1. /\ tx' = [tx EXCEPT ![t] = [host |-> h, rows |-> tx[t].rows \cup {p}]]
      /\ UNCHANGED <<probe, quiet, bound, busyFor, sess>>
  BY DEF QueueProbe, IInv, TypeOK
<1>2. tx[t].rows \cup {p} \in SUBSET Port BY DEF IInv, TypeOK, TxState
<1>3. TypeOK' BY <1>1, <1>2 DEF IInv, TypeOK, TxState
<1>4. (FreeIsZero /\ RowsNamePort /\ SessionOwns /\ ResultHonest /\ AnswerHonest)'
  BY <1>1 DEF IInv, FreeIsZero, RowsNamePort, SessionOwns, Owned, ResultHonest,
              AnswerHonest, FreeWithin
<1> QED BY <1>3, <1>4 DEF IInv

(* What a commit does: it fills rows nobody holds with pending probes of   *)
(* the request's ports, each once.                                         *)
LEMMA CommitFact ==
    ASSUME IInv, NEW t \in Tx, CommitRequest(t)
    PROVE  \E id \in [tx[t].rows -> ProbeId] :
              /\ \A i \in Range(id) : probe[i].status = "none"
              /\ \A i \in ProbeId \ Range(id) : probe'[i] = probe[i]
              /\ \A i \in Range(id) :
                    /\ probe'[i] \in ProbeRow
                    /\ probe'[i].status = "PENDING" /\ probe'[i].result = "none"
                    /\ probe'[i].host = tx[t].host /\ probe'[i].port \in Port
              /\ probe' \in [ProbeId -> ProbeRow]
<1> DEFINE fresh == {i \in ProbeId : probe[i].status = "none"}
           new(id, i) == [status |-> "PENDING", host |-> tx[t].host,
                          port |-> CHOOSE p \in tx[t].rows : id[p] = i,
                          result |-> "none", age |-> 0]
<1>1. PICK id \in [tx[t].rows -> fresh] :
         probe' = [i \in ProbeId |-> IF i \notin Range(id) THEN probe[i]
                                    ELSE new(id, i)]
  BY DEF CommitRequest
<1>2. tx[t] \in TxState /\ probe \in [ProbeId -> ProbeRow]
  BY DEF IInv, TypeOK
<1>3. id \in [tx[t].rows -> ProbeId] /\ Range(id) \subseteq fresh
  BY <1>1 DEF Range
<1>4. ASSUME NEW i \in Range(id) PROVE new(id, i) \in ProbeRow /\ new(id, i).port \in Port
  <2>1. \E p \in tx[t].rows : id[p] = i BY <1>1, <1>4 DEF Range
  <2>2. (CHOOSE p \in tx[t].rows : id[p] = i) \in Port
    BY <1>2, <2>1 DEF TxState
  <2> QED BY <1>2, <2>2 DEF TxState, ProbeRow
<1>5. \A i \in Range(id) : probe'[i] = new(id, i) BY <1>1, <1>3
<1>8. \A i \in Range(id) : /\ new(id, i).status = "PENDING"
                           /\ new(id, i).result = "none"
                           /\ new(id, i).host = tx[t].host
  OBVIOUS
<1>6. \A i \in ProbeId \ Range(id) : probe'[i] = probe[i] BY <1>1
<1>7. probe' \in [ProbeId -> ProbeRow]
  <2>2. probe' = [i \in ProbeId |-> probe'[i]] BY <1>1
  <2> HIDE DEF new
  <2>1. ASSUME NEW i \in ProbeId PROVE probe'[i] \in ProbeRow
    <3>1. CASE i \in Range(id) BY <1>4, <1>5, <3>1
    <3>2. CASE i \notin Range(id) BY <1>2, <1>6, <3>2
    <3> QED BY <3>1, <3>2
  <2> QED BY <2>1, <2>2
<1> HIDE DEF new
<1>9. \A i \in Range(id) : probe[i].status = "none" BY <1>3
<1> QED BY <1>3, <1>4, <1>5, <1>6, <1>7, <1>8, <1>9

(* The commit and the rollback of a request.                               *)
LEMMA CommitIInv ==
    ASSUME IInv, NEW t \in Tx, CommitRequest(t)
    PROVE  IInv'
<1>1. PICK id \in [tx[t].rows -> ProbeId] :
         /\ \A i \in Range(id) : probe[i].status = "none"
         /\ \A i \in ProbeId \ Range(id) : probe'[i] = probe[i]
         /\ \A i \in Range(id) : probe'[i].result = "none" /\ probe'[i].port \in Port
         /\ probe' \in [ProbeId -> ProbeRow]
  BY CommitFact
<1>2. tx' = [tx EXCEPT ![t] = IdleTx] /\ UNCHANGED <<quiet, bound, busyFor, sess>>
  BY DEF CommitRequest
<1>3. TypeOK'
  <2>1. IdleTx \in TxState BY DEF IdleTx, TxState, AnyHost
  <2> QED BY <1>1, <1>2, <2>1 DEF IInv, TypeOK
<1>4. RowsNamePort' BY <1>1 DEF IInv, RowsNamePort
<1>5. SessionOwns' /\ AnswerHonest'
  <2>1. \A s \in Session : sess[s].batch \subseteq ProbeId
    BY DEF IInv, TypeOK, SessionState
  <2>2. \A s \in Session : \A i \in ProbeId : Owned(s, i) =>
           /\ Owned(s, i)'
           /\ FreeWithin(i) => FreeWithin(i)'
    BY <1>1, <1>2 DEF Owned, FreeWithin
  <2> QED BY <1>2, <2>1, <2>2 DEF IInv, SessionOwns, AnswerHonest
<1>6. ResultHonest' BY <1>1, <1>2 DEF IInv, ResultHonest, FreeWithin
<1>7. FreeIsZero' BY <1>2 DEF IInv, FreeIsZero
<1> QED BY <1>3, <1>4, <1>5, <1>6, <1>7 DEF IInv

LEMMA RollbackIInv ==
    ASSUME IInv, NEW t \in Tx, RollbackRequest(t)
    PROVE  IInv'
<1>1. /\ tx' = [tx EXCEPT ![t] = IdleTx]
      /\ UNCHANGED <<probe, quiet, bound, busyFor, sess>>
  BY DEF RollbackRequest
<1>2. IdleTx \in TxState BY DEF IdleTx, TxState, AnyHost
<1>3. TypeOK' BY <1>1, <1>2 DEF IInv, TypeOK
<1>4. (FreeIsZero /\ RowsNamePort /\ SessionOwns /\ ResultHonest /\ AnswerHonest)'
  BY <1>1 DEF IInv, FreeIsZero, RowsNamePort, SessionOwns, Owned, ResultHonest,
              AnswerHonest, FreeWithin
<1> QED BY <1>3, <1>4 DEF IInv

(* Type correctness, element by element.                                   *)
LEMMA Elements ==
    ASSUME TypeOK
    PROVE  /\ \A i \in ProbeId :
                /\ probe[i] \in ProbeRow /\ probe[i].status \in Status
                /\ probe[i].host \in Host /\ probe[i].port \in Port \cup {NoPort}
                /\ probe[i].result \in {"none", "free", "occupied"}
                /\ probe[i].age \in 0..(TTL + 1)
           /\ \A h \in Host : \A p \in Port : busyFor[h][p] \in 0..(TTL + 1)
           /\ \A s \in Session : sess[s] \in SessionState
<1>1. \A i \in ProbeId : probe[i] \in ProbeRow BY DEF TypeOK
<1>2. \A h \in Host : busyFor[h] \in [Port -> 0..(TTL + 1)] BY DEF TypeOK
<1>3. \A s \in Session : sess[s] \in SessionState BY DEF TypeOK
<1> QED BY <1>1, <1>2, <1>3 DEF ProbeRow

(* What a step keeps of every row when it only marks or answers probes.    *)
RowsKept ==
    \A i \in ProbeId :
        /\ probe'[i].status = "none" <=> probe[i].status = "none"
        /\ probe'[i].host = probe[i].host /\ probe'[i].port = probe[i].port
        /\ probe'[i].age = probe[i].age

(* A session that drops probes or keeps the one it is answering stays      *)
(* within its host and stays honest.                                       *)
LEMMA SessionStep ==
    ASSUME IInv, NEW s \in Session, NEW new \in SessionState,
           sess' = [sess EXCEPT ![s] = new],
           new.batch \subseteq sess[s].batch,
           new.pc \in {"submit", "write"} =>
              /\ sess[s].pc \in {"submit", "write"}
              /\ new.cur = sess[s].cur /\ new.answer = sess[s].answer,
           RowsKept, UNCHANGED busyFor
    PROVE  /\ sess' \in [Session -> SessionState]
           /\ SessionOwns' /\ AnswerHonest'
<1>1. sess \in [Session -> SessionState] BY DEF IInv, TypeOK
<1>2. sess' \in [Session -> SessionState] BY <1>1
<1>3. sess'[s] = new /\ \A r \in Session : r # s => sess'[r] = sess[r] BY <1>1
<1>4. \A r \in Session : sess[r].batch \subseteq ProbeId
  BY <1>1 DEF SessionState
<1>5. \A r \in Session : sess'[r].batch \subseteq sess[r].batch BY <1>3
<1>6. \A r \in Session : sess'[r].pc \in {"submit", "write"} =>
         /\ sess[r].pc \in {"submit", "write"}
         /\ sess'[r].cur = sess[r].cur /\ sess'[r].answer = sess[r].answer
  BY <1>3
<1>7. SessionOwns'
  <2>1. ASSUME NEW r \in Session, NEW i \in sess'[r].batch PROVE Owned(r, i)'
    <3>1. i \in ProbeId /\ Owned(r, i)
      BY <1>4, <1>5, <2>1 DEF IInv, SessionOwns
    <3> QED BY <3>1 DEF Owned, RowsKept
  <2>2. ASSUME NEW r \in Session, sess'[r].pc \in {"submit", "write"}
        PROVE  sess'[r].cur \in ProbeId /\ Owned(r, sess[r].cur)'
    <3>1. sess[r].cur \in ProbeId /\ Owned(r, sess[r].cur)
      BY <1>6, <2>2 DEF IInv, SessionOwns
    <3> QED BY <1>6, <2>2, <3>1 DEF Owned, RowsKept
  <2> QED BY <2>1, <2>2, <1>6 DEF SessionOwns, Owned
<1>8. AnswerHonest'
  <2> SUFFICES ASSUME NEW r \in Session, sess'[r].pc \in {"submit", "write"},
                      sess'[r].answer = "free"
               PROVE  FreeWithin(sess[r].cur)'
    BY <1>6 DEF AnswerHonest, FreeWithin
  <2>1. sess[r].cur \in ProbeId /\ FreeWithin(sess[r].cur)
    BY <1>6 DEF IInv, SessionOwns, AnswerHonest
  <2>2. probe'[sess[r].cur].host = probe[sess[r].cur].host
        /\ probe'[sess[r].cur].port = probe[sess[r].cur].port
        /\ probe'[sess[r].cur].age = probe[sess[r].cur].age
    BY <2>1 DEF RowsKept
  <2>3. sess'[r].cur = sess[r].cur BY <1>6
  <2> QED BY <2>1, <2>2, <2>3 DEF FreeWithin
<1> QED BY <1>2, <1>7, <1>8

(* Heartbeats and delivery marks leave hosts, ports, results and ages of   *)
(* the rows alone.                                                         *)
LEMMA DeliverIInv ==
    ASSUME IInv, NEW s \in Session, Heartbeat(s) \/ ClaimPendingProbes(s)
    PROVE  IInv'
<1> sess[s] \in SessionState BY DEF IInv, TypeOK
<1>1. CASE Heartbeat(s)
  <2>1. PendingBatch(HostOf[s]) \subseteq ProbeId
    BY DEF PendingBatch, Rows
  <2>2. \A i \in PendingBatch(HostOf[s]) : Owned(s, i)
    BY DEF PendingBatch, Rows, Owned
  <2>3. PICK pcx \in {"idle", "claim"} :
           sess' = [sess EXCEPT ![s] = [@ EXCEPT !.batch = PendingBatch(HostOf[s]), !.pc = pcx]]
    BY <1>1 DEF Heartbeat, IInv, TypeOK
  <2>4. UNCHANGED <<probe, bound, busyFor, tx>> BY <1>1 DEF Heartbeat
  <2>5. TypeOK'
    <3>1. quiet' \in [Host -> 0..(StaleAfter + 1)]
      BY <1>1 DEF Heartbeat, IInv, TypeOK
    <3>2. [sess[s] EXCEPT !.batch = PendingBatch(HostOf[s]), !.pc = pcx]
             \in SessionState
      BY <2>1 DEF SessionState
    <3>3. sess' \in [Session -> SessionState] BY <2>3, <3>2 DEF IInv, TypeOK
    <3> QED BY <3>1, <3>3, <2>4 DEF IInv, TypeOK
  <2>6. SessionOwns' /\ AnswerHonest'
    BY <2>2, <2>3, <2>4 DEF IInv, TypeOK, SessionState, SessionOwns, Owned,
                            AnswerHonest, FreeWithin
  <2>7. (FreeIsZero /\ RowsNamePort /\ ResultHonest)'
    BY <2>4 DEF IInv, FreeIsZero, RowsNamePort, ResultHonest, FreeWithin
  <2> QED BY <2>5, <2>6, <2>7 DEF IInv
<1>2. CASE ClaimPendingProbes(s)
  <2>1. \A i \in ProbeId :
          /\ probe'[i].status = "none" <=> probe[i].status = "none"
          /\ probe'[i].host = probe[i].host /\ probe'[i].port = probe[i].port
          /\ probe'[i].result = probe[i].result
          /\ probe'[i].age = probe[i].age
    BY <1>2 DEF ClaimPendingProbes, IInv, TypeOK, ProbeRow, SessionOwns, Owned
  <2>2. UNCHANGED <<quiet, bound, busyFor, tx>>
    BY <1>2 DEF ClaimPendingProbes
  <2>3. \/ sess' = [sess EXCEPT ![s].pc = "probing"]
        \/ sess' = [sess EXCEPT ![s] = IdleSession]
    BY <1>2 DEF ClaimPendingProbes
  <2>4. RowsKept BY <2>1 DEF RowsKept
  <2>5. PICK new \in SessionState :
           /\ sess' = [sess EXCEPT ![s] = new]
           /\ new.batch \subseteq sess[s].batch
           /\ new.pc \in {"idle", "probing"}
    <3>1. [sess[s] EXCEPT !.pc = "probing"] \in SessionState
      BY DEF SessionState
    <3>2. IdleSession \in SessionState BY DEF SessionState, IdleSession
    <3> QED BY <2>3, <3>1, <3>2 DEF IdleSession, SessionState
  <2>6. sess' \in [Session -> SessionState] /\ SessionOwns' /\ AnswerHonest'
    BY <2>2, <2>4, <2>5, SessionStep
  <2>8. probe' \in [ProbeId -> ProbeRow]
    <3>1. \A i \in ProbeId : probe[i] \in ProbeRow BY Elements DEF IInv
    <3>2. \A i \in ProbeId : [probe[i] EXCEPT !.status = "DELIVERED"] \in ProbeRow
      BY <3>1 DEF ProbeRow
    <3> QED BY <1>2, <3>1, <3>2 DEF ClaimPendingProbes
  <2>9. TypeOK' BY <2>2, <2>6, <2>8 DEF IInv, TypeOK
  <2>7. (FreeIsZero /\ RowsNamePort /\ ResultHonest)'
    BY <2>1, <2>2 DEF IInv, FreeIsZero, RowsNamePort, ResultHonest, FreeWithin
  <2> QED BY <2>6, <2>7, <2>9 DEF IInv
<1> QED BY <1>1, <1>2

(* The bind attempt: a free answer means the port is free at this moment.  *)
LEMMA ProbeBindIInv ==
    ASSUME IInv, NEW s \in Session, ProbeBind(s)
    PROVE  IInv'
<1> sess[s] \in SessionState BY DEF IInv, TypeOK
<1>0. PICK i \in sess[s].batch :
         \E a \in BindOutcome(HostOf[s], probe[i].port) :
            sess' = [sess EXCEPT ![s] = [pc |-> "submit", cur |-> i,
                                         batch |-> @.batch \ {i}, answer |-> a]]
  BY DEF ProbeBind
<1>1. PICK a \in BindOutcome(HostOf[s], probe[i].port) :
         sess' = [sess EXCEPT ![s] = [pc |-> "submit", cur |-> i,
                                      batch |-> @.batch \ {i}, answer |-> a]]
  BY <1>0
<1>2. UNCHANGED <<probe, quiet, bound, busyFor, tx>> BY DEF ProbeBind
<1>3. i \in ProbeId /\ Owned(s, i) /\ probe[i].port \in Port
  BY DEF SessionState, IInv, SessionOwns, RowsNamePort, Owned
<1>4. a \in {"none", "free", "occupied"} BY DEF BindOutcome
<1>5. a = "free" => FreeWithin(i)
  <2>1. SUFFICES ASSUME a = "free" PROVE FreeWithin(i) OBVIOUS
  <2>2. probe[i].port \notin bound[HostOf[s]] BY <2>1 DEF BindOutcome
  <2>3. busyFor[HostOf[s]][probe[i].port] = 0
    BY <1>3, <2>2 DEF IInv, FreeIsZero
  <2> QED BY <1>3, <2>3 DEF FreeWithin, Owned, IInv, TypeOK, ProbeRow
<1>6. TypeOK' BY <1>1, <1>2, <1>3, <1>4 DEF IInv, TypeOK, SessionState
<1>7. SessionOwns'
  BY <1>1, <1>2, <1>3 DEF IInv, TypeOK, SessionState, SessionOwns, Owned
<1>8. AnswerHonest'
  BY <1>1, <1>2, <1>5 DEF IInv, TypeOK, SessionState, AnswerHonest, FreeWithin
<1>9. (FreeIsZero /\ RowsNamePort /\ ResultHonest)'
  BY <1>2 DEF IInv, FreeIsZero, RowsNamePort, ResultHonest, FreeWithin
<1> QED BY <1>6, <1>7, <1>8, <1>9 DEF IInv

(* A session that goes on with its batch drops the probe it answered.      *)
LEMMA AfterSubmitFact ==
    ASSUME IInv, NEW s \in Session
    PROVE  /\ AfterSubmit(s) \in SessionState
           /\ AfterSubmit(s).batch \subseteq sess[s].batch
           /\ AfterSubmit(s).pc \in {"idle", "probing"}
<1>1. sess[s] \in SessionState BY Elements DEF IInv
<1>2. CASE sess[s].batch = {}
  <2>1. AfterSubmit(s) = IdleSession BY <1>2 DEF AfterSubmit
  <2> QED BY <2>1 DEF IdleSession, SessionState
<1>3. CASE sess[s].batch # {}
  <2>1. AfterSubmit(s) = [sess[s] EXCEPT !.pc = "probing", !.cur = NoProbe,
                                         !.answer = "none"]
    BY <1>3 DEF AfterSubmit
  <2> QED BY <1>1, <2>1 DEF SessionState
<1> QED BY <1>2, <1>3

(* The result that is recorded is the answer the session holds.            *)
LEMMA SubmitIInv ==
    ASSUME IInv, NEW s \in Session, SubmitResult(s) \/ RecordResult(s)
    PROVE  IInv'
<1> sess[s] \in SessionState BY DEF IInv, TypeOK
<1> DEFINE After == AfterSubmit(s)
<1>0. After \in SessionState /\ After.batch \subseteq sess[s].batch
      /\ After.pc \in {"idle", "probing"}
  BY AfterSubmitFact
<1> HIDE DEF After
<1>1. CASE SubmitResult(s)
  <2>1. /\ sess[s].pc = "submit"
        /\ UNCHANGED <<probe, quiet, bound, busyFor, tx>>
        /\ \/ sess' = [sess EXCEPT ![s].pc = "write"]
           \/ sess' = [sess EXCEPT ![s] = After]
    BY <1>1 DEF SubmitResult, After
  <2>2. RowsKept BY <2>1 DEF RowsKept
  <2>3. PICK new \in SessionState :
           /\ sess' = [sess EXCEPT ![s] = new]
           /\ new.batch \subseteq sess[s].batch
           /\ new.pc \in {"submit", "write"} =>
                new.cur = sess[s].cur /\ new.answer = sess[s].answer
    <3>1. [sess[s] EXCEPT !.pc = "write"] \in SessionState BY DEF SessionState
    <3> QED BY <1>0, <2>1, <3>1 DEF SessionState
  <2>4. sess' \in [Session -> SessionState] /\ SessionOwns' /\ AnswerHonest'
    BY <2>1, <2>2, <2>3, SessionStep
  <2>6. TypeOK' BY <2>1, <2>4 DEF IInv, TypeOK
  <2>5. (FreeIsZero /\ RowsNamePort /\ ResultHonest)'
    BY <2>1 DEF IInv, FreeIsZero, RowsNamePort, ResultHonest, FreeWithin
  <2> QED BY <2>4, <2>5, <2>6 DEF IInv
<1>2. CASE RecordResult(s)
  <2> DEFINE i == sess[s].cur
  <2>1. /\ sess[s].pc = "write"
        /\ sess' = [sess EXCEPT ![s] = After]
        /\ UNCHANGED <<quiet, bound, busyFor, tx>>
    BY <1>2 DEF RecordResult, After
  <2>2. i \in ProbeId /\ probe[i].status # "none"
    BY <2>1 DEF IInv, SessionOwns, Owned
  <2>3. \A j \in ProbeId :
          /\ probe'[j].status = "none" <=> probe[j].status = "none"
          /\ probe'[j].host = probe[j].host /\ probe'[j].port = probe[j].port
          /\ probe'[j].age = probe[j].age
          /\ \/ probe'[j].result = probe[j].result
             \/ j = i /\ probe'[j].result = sess[s].answer
    BY <1>2, <2>2 DEF RecordResult, IInv, TypeOK, ProbeRow
  <2>4. RowsKept BY <2>3 DEF RowsKept
  <2>5. sess' \in [Session -> SessionState] /\ SessionOwns' /\ AnswerHonest'
    BY <1>0, <2>1, <2>4, SessionStep
  <2>6. TypeOK'
    <3>1. probe[i] \in ProbeRow /\ sess[s].answer \in {"none", "free", "occupied"}
      BY <2>2 DEF IInv, TypeOK, SessionState
    <3>2. PICK new \in ProbeRow : probe' = [probe EXCEPT ![i] = new]
      <4>1. \A st \in Status, re \in {"none", "free", "occupied"} :
              [probe[i] EXCEPT !.status = st, !.result = re] \in ProbeRow
        BY <3>1 DEF ProbeRow
      <4>2. probe[i].result \in {"none", "free", "occupied"}
        BY <3>1 DEF ProbeRow
      <4>3. \E st \in Status, re \in {"none", "free", "occupied"} :
              probe' = [probe EXCEPT ![i] =
                           [probe[i] EXCEPT !.status = st, !.result = re]]
        BY <1>2, <2>2, <3>1, <4>2 DEF RecordResult, IInv, TypeOK, ProbeRow
      <4> QED BY <4>1, <4>3
    <3>3. probe' \in [ProbeId -> ProbeRow] BY <3>2 DEF IInv, TypeOK
    <3> QED BY <3>3, <2>1, <2>5 DEF IInv, TypeOK
  <2>7. ResultHonest'
    <3>1. sess[s].answer = "free" => FreeWithin(i)
      BY <2>1 DEF IInv, AnswerHonest
    <3> QED BY <3>1, <2>1, <2>2, <2>3 DEF IInv, ResultHonest, FreeWithin
  <2>8. (FreeIsZero /\ RowsNamePort)'
    BY <2>1, <2>3 DEF IInv, FreeIsZero, RowsNamePort
  <2> QED BY <2>5, <2>6, <2>7, <2>8 DEF IInv
<1> QED BY <1>1, <1>2

(* Processes come and go: a port only becomes less busy.                   *)
LEMMA HostIInv ==
    ASSUME IInv, NEW h \in Host, NEW p \in Port, BindPort(h, p) \/ FreePort(h, p)
    PROVE  IInv'
<1>1. UNCHANGED <<probe, quiet, sess, tx>> BY DEF BindPort, FreePort
<1>2. \A g \in Host : \A q \in Port : busyFor'[g][q] <= busyFor[g][q]
  BY DEF BindPort, FreePort, IInv, TypeOK
<1>3. TypeOK'
  <2>1. bound' \in [Host -> SUBSET Port]
    BY DEF BindPort, FreePort, IInv, TypeOK
  <2>2. busyFor' \in [Host -> [Port -> 0..(TTL + 1)]]
    <3>1. CASE BindPort(h, p) BY <3>1 DEF BindPort, IInv, TypeOK
    <3>2. CASE FreePort(h, p)
      <4>1. busyFor[h] \in [Port -> 0..(TTL + 1)] BY DEF IInv, TypeOK
      <4>2. [busyFor[h] EXCEPT ![p] = 0] \in [Port -> 0..(TTL + 1)] BY <4>1
      <4>3. busyFor' = [busyFor EXCEPT ![h] = [busyFor[h] EXCEPT ![p] = 0]]
        BY <3>2 DEF FreePort, IInv, TypeOK
      <4> QED BY <4>2, <4>3 DEF IInv, TypeOK
    <3> QED BY <3>1, <3>2
  <2>3. /\ probe' \in [ProbeId -> ProbeRow] /\ tx' \in [Tx -> TxState]
        /\ quiet' \in [Host -> 0..(StaleAfter + 1)]
        /\ sess' \in [Session -> SessionState]
    BY <1>1 DEF IInv, TypeOK
  <2> QED BY <2>1, <2>2, <2>3 DEF TypeOK
<1>4. FreeIsZero'
  <2> SUFFICES ASSUME NEW g \in Host, NEW q \in Port, q \notin bound'[g]
               PROVE  busyFor'[g][q] = 0
    BY DEF FreeIsZero
  <2>1. busyFor[g] \in [Port -> 0..(TTL + 1)] BY DEF IInv, TypeOK
  <2>2. CASE BindPort(h, p) BY <2>2 DEF BindPort, IInv, TypeOK, FreeIsZero
  <2>3. CASE FreePort(h, p) BY <2>1, <2>3 DEF FreePort, IInv, TypeOK, FreeIsZero
  <2> QED BY <2>2, <2>3
<1>5. RowsNamePort' /\ SessionOwns'
  BY <1>1 DEF IInv, RowsNamePort, SessionOwns, Owned
<1>6. \A i \in ProbeId : probe[i].status # "none" /\ FreeWithin(i) => FreeWithin(i)'
  <2> SUFFICES ASSUME NEW i \in ProbeId, probe[i].status # "none", FreeWithin(i)
               PROVE  FreeWithin(i)'
    OBVIOUS
  <2>1. probe[i].host \in Host /\ probe[i].port \in Port
        /\ probe[i].age \in 0..(TTL + 1)
    BY Elements DEF IInv, RowsNamePort
  <2>2. busyFor[probe[i].host][probe[i].port] \in 0..(TTL + 1)
        /\ busyFor'[probe[i].host][probe[i].port] \in 0..(TTL + 1)
    <3>1. busyFor[probe[i].host] \in [Port -> 0..(TTL + 1)]
          /\ busyFor'[probe[i].host] \in [Port -> 0..(TTL + 1)]
      BY <1>3, <2>1 DEF IInv, TypeOK
    <3> QED BY <2>1, <3>1
  <2>3. busyFor'[probe[i].host][probe[i].port] <= busyFor[probe[i].host][probe[i].port]
    BY <1>2, <2>1
  <2>4. busyFor'[probe[i].host][probe[i].port] <= probe[i].age
    <3>1. TTL + 1 \in Nat BY LimitAssumption
    <3>2. busyFor[probe[i].host][probe[i].port] <= probe[i].age BY DEF FreeWithin
    <3> QED BY <2>1, <2>2, <2>3, <3>1, <3>2
  <2> QED BY <1>1, <2>4 DEF FreeWithin
<1>7. ResultHonest' BY <1>1, <1>6 DEF IInv, ResultHonest
<1>8. AnswerHonest'
  BY <1>1, <1>6 DEF IInv, SessionOwns, Owned, AnswerHonest
<1> QED BY <1>3, <1>4, <1>5, <1>7, <1>8 DEF IInv

(* Time passes: ports and probes age by the same tick.                     *)
LEMMA TickIInv ==
    ASSUME IInv, Tick
    PROVE  IInv'
<1>1. UNCHANGED <<bound, sess, tx>> BY DEF Tick
<1>2. \A i \in ProbeId :
        /\ probe'[i].status = probe[i].status
        /\ probe'[i].host = probe[i].host /\ probe'[i].port = probe[i].port
        /\ probe'[i].result = probe[i].result
        /\ probe[i].status # "none" =>
              probe'[i].age = Saturate(probe[i].age, TTL)
  BY DEF Tick, IInv, TypeOK, ProbeRow
<1>3. \A h \in Host : \A p \in Port :
        /\ busyFor'[h][p] \in 0..(TTL + 1)
        /\ p \in bound[h] => busyFor'[h][p] = Saturate(busyFor[h][p], TTL)
        /\ p \notin bound[h] => busyFor'[h][p] = 0
  BY DEF Tick, IInv, TypeOK, Saturate
<1>4. TypeOK'
  <2>1. probe' \in [ProbeId -> ProbeRow]
    <3>1. \A i \in ProbeId : probe[i] \in ProbeRow /\ probe[i].age \in 0..(TTL + 1)
      BY Elements DEF IInv
    <3>2. \A i \in ProbeId : \A n \in 0..(TTL + 1) :
             [probe[i] EXCEPT !.age = n] \in ProbeRow
      BY <3>1 DEF ProbeRow
    <3>3. \A i \in ProbeId : \E n \in 0..(TTL + 1) :
             probe'[i] = [probe[i] EXCEPT !.age = n]
      <4> SUFFICES ASSUME NEW i \in ProbeId
                   PROVE  \E n \in 0..(TTL + 1) :
                             probe'[i] = [probe[i] EXCEPT !.age = n]
        OBVIOUS
      <4>1. Saturate(probe[i].age, TTL) \in 0..(TTL + 1) BY <3>1 DEF Saturate
      <4>2. 0 \in 0..(TTL + 1) OBVIOUS
      <4>3. \/ probe'[i] = [probe[i] EXCEPT !.age = 0]
            \/ probe'[i] = [probe[i] EXCEPT !.age = Saturate(probe[i].age, TTL)]
        BY <3>1 DEF Tick, ProbeRow
      <4> QED BY <4>1, <4>2, <4>3
    <3>4. probe' = [i \in ProbeId |-> probe'[i]] BY DEF Tick
    <3>5. \A i \in ProbeId : probe'[i] \in ProbeRow BY <3>2, <3>3
    <3> QED BY <3>4, <3>5
  <2>2. quiet' \in [Host -> 0..(StaleAfter + 1)]
    BY DEF Tick, IInv, TypeOK, Saturate
  <2>3. busyFor' \in [Host -> [Port -> 0..(TTL + 1)]]
    BY DEF Tick, IInv, TypeOK, Saturate
  <2> QED BY <1>1, <2>1, <2>2, <2>3 DEF IInv, TypeOK
<1>5. FreeIsZero' BY <1>1, <1>3 DEF FreeIsZero
<1>6. RowsNamePort' BY <1>1, <1>2 DEF IInv, RowsNamePort
<1>7. SessionOwns'
  <2>1. \A s \in Session : sess[s].batch \subseteq ProbeId
    BY Elements DEF IInv, SessionState
  <2>2. \A s \in Session : \A i \in ProbeId : Owned(s, i) => Owned(s, i)'
    BY <1>2 DEF Owned
  <2> QED BY <1>1, <2>1, <2>2 DEF IInv, SessionOwns
<1>8. ASSUME NEW i \in ProbeId, probe[i].status # "none", FreeWithin(i)
      PROVE  FreeWithin(i)'
  <2>1. probe[i].host \in Host /\ probe[i].port \in Port
        /\ probe[i].age \in 0..(TTL + 1)
        /\ busyFor[probe[i].host][probe[i].port] \in 0..(TTL + 1)
    BY <1>8, Elements DEF IInv, RowsNamePort
  <2>2. probe'[i].age = Saturate(probe[i].age, TTL) BY <1>2, <1>8
  <2>3. \/ busyFor'[probe[i].host][probe[i].port] = 0
        \/ busyFor'[probe[i].host][probe[i].port]
             = Saturate(busyFor[probe[i].host][probe[i].port], TTL)
    BY <1>3, <2>1
  <2>4. \A a, b \in 0..(TTL + 1) :
           b <= a => 0 <= Saturate(a, TTL) /\ Saturate(b, TTL) <= Saturate(a, TTL)
    BY LimitAssumption DEF Saturate
  <2>5. busyFor[probe[i].host][probe[i].port] <= probe[i].age BY <1>8 DEF FreeWithin
  <2>6. busyFor'[probe[i].host][probe[i].port] <= Saturate(probe[i].age, TTL)
    BY <2>1, <2>3, <2>4, <2>5
  <2>7. probe'[i].host = probe[i].host /\ probe'[i].port = probe[i].port BY <1>2
  <2> QED BY <2>2, <2>6, <2>7 DEF FreeWithin
<1>9. ResultHonest' BY <1>2, <1>8 DEF IInv, ResultHonest
<1>10. AnswerHonest'
  BY <1>1, <1>8 DEF IInv, SessionOwns, Owned, AnswerHonest
<1> QED BY <1>4, <1>5, <1>6, <1>7, <1>9, <1>10 DEF IInv

(* The inductive invariant holds of every reachable state.                 *)
THEOREM Invariance == Spec => []IInv
<1>1. Init => IInv BY InitIInv
<1>2. IInv /\ [Next]_vars => IInv'
  <2> SUFFICES ASSUME IInv, [Next]_vars PROVE IInv' OBVIOUS
  <2>1. CASE \E t \in Tx, h \in Host :
               \/ \E free \in SUBSET Port : \/ SuggestPort(t, h, free)
                                           \/ AllocateItem(t, h, free)
               \/ \E p \in Port : VerifyPort(t, h, p)
    BY <2>1, RequestsQueue, QueueIInv
  <2>2. CASE \E t \in Tx : CommitRequest(t) \/ RollbackRequest(t)
    BY <2>2, CommitIInv, RollbackIInv
  <2>3. CASE \E s \in Session : Heartbeat(s) \/ ClaimPendingProbes(s)
    BY <2>3, DeliverIInv
  <2>4. CASE \E s \in Session : ProbeBind(s) BY <2>4, ProbeBindIInv
  <2>5. CASE \E s \in Session : SubmitResult(s) \/ RecordResult(s)
    BY <2>5, SubmitIInv
  <2>6. CASE \E h \in Host, p \in Contended : BindPort(h, p) \/ FreePort(h, p)
    BY <2>6, HostIInv
  <2>7. CASE Tick BY <2>7, TickIInv
  <2>8. CASE UNCHANGED vars
    BY <2>8 DEF vars, IInv, TypeOK, FreeIsZero, RowsNamePort, SessionOwns,
                Owned, ResultHonest, AnswerHonest, FreeWithin
  <2> QED BY <2>1, <2>2, <2>3, <2>4, <2>5, <2>6, <2>7, <2>8 DEF Next
<1> QED BY <1>1, <1>2, PTL DEF Spec

(* The rows and sessions keep their types for any constants.               *)
THEOREM TypeCorrect == Spec => []TypeOK
BY Invariance, PTL DEF IInv

(* Fresh verified_free evidence is honest: the port was free on that host  *)
(* within the lifetime of the probe that says so.                          *)
THEOREM EvidenceIsHonest == Spec => []VerifiedFreeIsHonest
<1>1. IInv => VerifiedFreeIsHonest
  <2> SUFFICES ASSUME IInv, NEW h \in Host, NEW p \in Port,
                      Evidence(h, p) = "verified_free"
               PROVE  \E i \in Latest(h, p) : busyFor[h][p] <= probe[i].age
                                              /\ probe[i].age <= TTL
    BY DEF VerifiedFreeIsHonest
  <2>1. Latest(h, p) # {} BY DEF Evidence
  <2>2. PICK i \in Latest(h, p) : Classify(i) = "verified_free"
    BY <2>1 DEF Evidence
  <2>3. i \in ProbeId /\ probe[i].host = h /\ probe[i].port = p
        /\ probe[i].status # "none"
    BY DEF Latest, Rows
  <2>4. probe[i].result = "free" /\ Unexpired(i) BY <2>2 DEF Classify
  <2>5. FreeWithin(i) BY <2>3, <2>4 DEF IInv, ResultHonest
  <2> QED BY <2>3, <2>4, <2>5 DEF FreeWithin, Unexpired
<1> QED BY <1>1, Invariance, PTL

-----------------------------------------------------------------------------
(* The queue of a host.                                                    *)

(* A probe whose delivery mark is still to be written.                     *)
Marked(s) == {i \in sess[s].batch : sess[s].pc = "claim"}

(* The probes that count against the cap now, and those a late delivery    *)
(* mark would bring back.                                                  *)
Live(h) ==
    {i \in Rows(h) : /\ Unexpired(i)
                     /\ \/ probe[i].status \in {"PENDING", "DELIVERED"}
                        \/ \E s \in Session : i \in Marked(s)}

Rank(i, S) == Cardinality({j \in S : j < i})

(* list_pending_for_host's LIMIT, seen from the batch.                     *)
BatchesBounded ==
    \A s \in Session : sess[s].pc = "claim" =>
        /\ IsFiniteSet(sess[s].batch)
        /\ \A i \in sess[s].batch : Rank(i, sess[s].batch) < MaxDelivered

(* What a request has flushed is within the cap it counted against.        *)
RequestsBounded ==
    \A t \in Tx : IsFiniteSet(tx[t].rows) /\ Cardinality(tx[t].rows) <= MaxPending

(* Whoever worked last revives nothing: the session that answered a probe  *)
(* is not about to mark one, and a batch just read holds no answered row.  *)
SomeoneIsCurrent ==
    \E s \in Session : \A i \in Marked(s) : ~Answered(i)

QueueLimit ==
    MaxPending * Cardinality(Tx) + MaxDelivered * (Cardinality(Session) - 1)

LiveIsBounded ==
    \A h \in Host :
        /\ IsFiniteSet(Live(h))
        /\ Cardinality(Live(h)) + Cardinality(Flushed(h)) <= QueueLimit

QueueInv ==
    BatchesBounded /\ RequestsBounded /\ SomeoneIsCurrent /\ LiveIsBounded

LEMMA CountsAreNumbers ==
    /\ Cardinality(Session) \in Nat /\ Cardinality(Session) >= 1
    /\ Cardinality(Tx) \in Nat /\ Cardinality(Tx) >= 1
    /\ MaxDelivered * (Cardinality(Session) - 1) \in Nat
    /\ MaxPending * Cardinality(Tx) \in Nat
    /\ QueueLimit \in Nat
<1>1. Cardinality(Session) \in Nat /\ Cardinality(Session) # 0
  BY ConcurrencyAssumption, FS_CardinalityType, FS_EmptySet
<1>2. Cardinality(Tx) \in Nat /\ Cardinality(Tx) # 0
  BY ConcurrencyAssumption, FS_CardinalityType, FS_EmptySet
<1>3. \A m, n \in Nat : m * n \in Nat
  OBVIOUS
<1>4. MaxDelivered * (Cardinality(Session) - 1) \in Nat
      /\ MaxPending * Cardinality(Tx) \in Nat
  BY <1>1, <1>2, <1>3
<1> QED BY <1>1, <1>2, <1>4 DEF QueueLimit

(* Ranks tell the members of a finite set of numbers apart.                *)
LEMMA RankInjective ==
    ASSUME NEW S \in SUBSET Nat, IsFiniteSet(S), NEW i \in S, NEW j \in S,
           Rank(i, S) = Rank(j, S)
    PROVE  i = j
<1>1. ASSUME NEW a \in S, NEW b \in S, a < b PROVE Rank(a, S) < Rank(b, S)
  <2> DEFINE Lo == {k \in S : k < a}
             Hi == {k \in S : k < b}
  <2>1. IsFiniteSet(Hi) BY FS_Subset
  <2>0. a \in Nat /\ b \in Nat /\ \A k \in S : k < a => k < b
    BY <1>1, S \subseteq Nat
  <2>2. Lo \subseteq Hi BY <2>0
  <2>3. IsFiniteSet(Lo) /\ Cardinality(Lo) <= Cardinality(Hi)
        /\ (Cardinality(Lo) = Cardinality(Hi) => Lo = Hi)
    BY <2>1, <2>2, FS_Subset
  <2>4. Cardinality(Lo) \in Nat /\ Cardinality(Hi) \in Nat
    BY <2>1, <2>3, FS_CardinalityType
  <2>5. Lo # Hi
    <3>1. a \in Hi BY <1>1
    <3>2. a \notin Lo BY <2>0
    <3> QED BY <3>1, <3>2
  <2>6. Cardinality(Lo) < Cardinality(Hi) BY <2>3, <2>4, <2>5
  <2> QED BY <2>6 DEF Rank
<1>2. \A a, b \in S : a < b => Rank(a, S) \in Int /\ Rank(a, S) < Rank(b, S)
  <2>1. \A a \in S : Rank(a, S) \in Nat
    BY FS_Subset, FS_CardinalityType DEF Rank
  <2> QED BY <1>1, <2>1
<1> QED BY <1>2

(* A smaller set gives smaller ranks.                                      *)
LEMMA RankShrinks ==
    ASSUME NEW S, IsFiniteSet(S), NEW T \in SUBSET S, NEW i
    PROVE  Rank(i, T) \in Nat /\ Rank(i, S) \in Nat /\ Rank(i, T) <= Rank(i, S)
<1>1. {j \in T : j < i} \subseteq {j \in S : j < i} OBVIOUS
<1>2. IsFiniteSet({j \in S : j < i}) BY FS_Subset
<1> QED BY <1>1, <1>2, FS_Subset, FS_CardinalityType DEF Rank

(* The answered probes that can come back are in the batches of all but    *)
(* one session, at most MaxDelivered in each.                              *)
LEMMA FewRevivals ==
    ASSUME IInv, BatchesBounded, SomeoneIsCurrent, NEW h \in Host, IsFiniteSet(Live(h))
    PROVE  Cardinality(Live(h)) <=
             Cardinality(Active(h)) + MaxDelivered * (Cardinality(Session) - 1)
<1> DEFINE Back == Live(h) \ Active(h)
           Slots == 0..(MaxDelivered - 1)
<1>1. PICK q \in Session : \A i \in Marked(q) : ~Answered(i)
  BY DEF SomeoneIsCurrent
<1> DEFINE Others == Session \ {q}
           by == [i \in Back |-> CHOOSE s \in Others : i \in Marked(s)]
           f == [i \in Back |-> <<by[i], Rank(i, sess[by[i]].batch)>>]
<1>2. \A i \in Back : by[i] \in Others /\ i \in Marked(by[i])
  <2>1. \A i \in Back : \E s \in Others : i \in Marked(s)
    <3> SUFFICES ASSUME NEW i \in Back PROVE \E s \in Others : i \in Marked(s)
      OBVIOUS
    <3>1. i \in Rows(h) /\ Unexpired(i) /\ i \in ProbeId
          /\ probe[i].status \notin {"none", "PENDING", "DELIVERED"}
      BY DEF Live, Active, Rows
    <3>2. Answered(i) BY <3>1, Elements DEF IInv, Answered
    <3>3. \E s \in Session : i \in Marked(s) BY <3>1 DEF Live
    <3> QED BY <1>1, <3>2, <3>3
  <2> QED BY <2>1
<1>3. \A s \in Session : Marked(s) # {} =>
         /\ sess[s].batch \in SUBSET Nat /\ IsFiniteSet(sess[s].batch)
         /\ \A i \in Marked(s) : i \in sess[s].batch
                                 /\ Rank(i, sess[s].batch) \in Slots
  <2> SUFFICES ASSUME NEW s \in Session, Marked(s) # {}
               PROVE  /\ sess[s].batch \in SUBSET Nat /\ IsFiniteSet(sess[s].batch)
                      /\ \A i \in Marked(s) : i \in sess[s].batch
                                 /\ Rank(i, sess[s].batch) \in Slots
    OBVIOUS
  <2>1. sess[s].batch \in SUBSET ProbeId BY Elements DEF IInv, SessionState
  <2>2. sess[s].pc = "claim" BY DEF Marked
  <2>3. IsFiniteSet(sess[s].batch)
        /\ \A i \in sess[s].batch : Rank(i, sess[s].batch) < MaxDelivered
    BY <2>2 DEF BatchesBounded
  <2>4. \A i \in sess[s].batch : Rank(i, sess[s].batch) \in Nat
    BY <2>3, RankShrinks
  <2>5. \A i \in sess[s].batch : Rank(i, sess[s].batch) \in Slots
    BY <2>3, <2>4
  <2>6. Marked(s) \subseteq sess[s].batch BY DEF Marked
  <2> QED BY <2>1, <2>3, <2>5, <2>6
<1>4. f \in Injection(Back, Others \X Slots)
  <2>1. f \in [Back -> Others \X Slots] BY <1>2, <1>3
  <2>2. ASSUME NEW i \in Back, NEW j \in Back, f[i] = f[j] PROVE i = j
    <3> DEFINE s == by[i]
    <3>0. /\ f[i][1] = by[i] /\ f[i][2] = Rank(i, sess[by[i]].batch)
          /\ f[j][1] = by[j] /\ f[j][2] = Rank(j, sess[by[j]].batch)
      OBVIOUS
    <3> HIDE DEF f, by
    <3>1. by[j] = s /\ Rank(i, sess[s].batch) = Rank(j, sess[s].batch)
      <4>1. by[i] = by[j] /\ Rank(i, sess[by[i]].batch) = Rank(j, sess[by[j]].batch)
        BY <2>2, <3>0, Zenon
      <4> QED BY <4>1, Zenon
    <3>2. s \in Session /\ i \in Marked(s) /\ j \in Marked(s) BY <1>2, <3>1
    <3> HIDE DEF s
    <3> QED BY <1>3, <3>1, <3>2, RankInjective
  <2> HIDE DEF f
  <2> QED BY <2>1, <2>2 DEF Injection, IsInjective
<1> HIDE DEF f, by
<1>5. IsFiniteSet(Others) /\ Cardinality(Others) = Cardinality(Session) - 1
  BY ConcurrencyAssumption, FS_RemoveElement
<1>6. IsFiniteSet(Slots) /\ Cardinality(Slots) = MaxDelivered
  BY FS_Interval
<1>7. /\ IsFiniteSet(Others \X Slots)
      /\ Cardinality(Others \X Slots) = Cardinality(Others) * Cardinality(Slots)
  BY <1>5, <1>6, FS_Product
<1>8. Cardinality(Back) <= (Cardinality(Session) - 1) * MaxDelivered
  BY <1>4, <1>5, <1>6, <1>7, FS_Injection
<1>9. Active(h) \subseteq Live(h) BY DEF Active, Live
<1>10. /\ IsFiniteSet(Active(h)) /\ IsFiniteSet(Back)
       /\ Cardinality(Live(h)) = Cardinality(Active(h)) + Cardinality(Back)
  <2>1. IsFiniteSet(Active(h)) /\ IsFiniteSet(Back) BY <1>9, FS_Subset
  <2>2. Active(h) \cup Back = Live(h) /\ Active(h) \cap Back = {} BY <1>9
  <2>3. Cardinality(Live(h)) = Cardinality(Active(h)) + Cardinality(Back)
                                 - Cardinality({})
    BY <2>1, <2>2, FS_Union
  <2> QED BY <2>1, <2>3, FS_EmptySet, FS_CardinalityType
<1>11. (Cardinality(Session) - 1) * MaxDelivered
         = MaxDelivered * (Cardinality(Session) - 1)
  BY CountsAreNumbers
<1>12. Cardinality(Active(h)) \in Nat /\ Cardinality(Back) \in Nat
  BY <1>10, FS_CardinalityType
<1> DEFINE K == MaxDelivered * (Cardinality(Session) - 1)
<1>13. K \in Nat BY CountsAreNumbers
<1>14. Cardinality(Back) <= K BY <1>8, <1>11
<1> HIDE DEF K, Back
<1>15. Cardinality(Live(h)) <= Cardinality(Active(h)) + K
  BY <1>10, <1>12, <1>13, <1>14
<1> QED BY <1>15 DEF K

(* The flushed probes of some requests are at most the cap for each.       *)
LEMMA FlushedFew ==
    ASSUME IInv, RequestsBounded, NEW h \in Host, NEW T \in SUBSET Tx
    PROVE  LET of == {r \in Flushed(h) : r[1] \in T}
           IN  IsFiniteSet(of) /\ Cardinality(of) <= MaxPending * Cardinality(T)
<1> DEFINE of == {r \in Flushed(h) : r[1] \in T}
           Slots == 0..(MaxPending - 1)
           f == [r \in of |-> <<r[1], Rank(r[2], tx[r[1]].rows)>>]
<1>1. \A r \in of : /\ r = <<r[1], r[2]>> /\ r[1] \in T /\ r[1] \in Tx
                    /\ r[2] \in tx[r[1]].rows
  BY DEF Flushed
<1>2. \A t \in Tx : /\ tx[t].rows \in SUBSET Nat /\ IsFiniteSet(tx[t].rows)
                    /\ \A p \in tx[t].rows : Rank(p, tx[t].rows) \in Slots
  <2> SUFFICES ASSUME NEW t \in Tx
               PROVE  /\ tx[t].rows \in SUBSET Nat /\ IsFiniteSet(tx[t].rows)
                      /\ \A p \in tx[t].rows : Rank(p, tx[t].rows) \in Slots
    OBVIOUS
  <2> DEFINE R == tx[t].rows
  <2>1. R \in SUBSET Nat BY DEF IInv, TypeOK, TxState
  <2>2. /\ IsFiniteSet(R) /\ Cardinality(R) \in Nat
        /\ Cardinality(R) <= MaxPending
    BY FS_CardinalityType DEF RequestsBounded
  <2> HIDE DEF R
  <2>3. ASSUME NEW p \in R PROVE Rank(p, R) \in Slots
    <3> DEFINE Lo == {q \in R : q < p}
    <3>1. Lo \in SUBSET (R \ {p}) BY <2>1
    <3>2. IsFiniteSet(R \ {p}) /\ Cardinality(R \ {p}) = Cardinality(R) - 1
      BY <2>2, FS_RemoveElement
    <3>3. /\ Cardinality(Lo) \in Nat
          /\ Cardinality(Lo) <= Cardinality(R \ {p})
      BY <3>1, <3>2, FS_Subset, FS_CardinalityType
    <3>4. Rank(p, R) = Cardinality(Lo) BY DEF Rank
    <3> QED BY <2>2, <3>2, <3>3, <3>4
  <2> QED BY <2>1, <2>2, <2>3 DEF R
<1>3. f \in Injection(of, T \X Slots)
  <2>1. f \in [of -> T \X Slots] BY <1>1, <1>2
  <2>2. ASSUME NEW r \in of, NEW u \in of, f[r] = f[u] PROVE r = u
    <3>1. r[1] = u[1] /\ Rank(r[2], tx[r[1]].rows) = Rank(u[2], tx[u[1]].rows)
      BY <2>2
    <3>2. r[2] = u[2] BY <1>1, <1>2, <3>1, RankInjective
    <3> QED BY <1>1, <3>1, <3>2
  <2> HIDE DEF f
  <2> QED BY <2>1, <2>2 DEF Injection, IsInjective
<1> HIDE DEF f, of
<1>4. IsFiniteSet(T) /\ Cardinality(T) \in Nat
  BY ConcurrencyAssumption, FS_Subset, FS_CardinalityType
<1>5. IsFiniteSet(Slots) /\ Cardinality(Slots) = MaxPending
  BY FS_Interval
<1>6. IsFiniteSet(T \X Slots) /\ Cardinality(T \X Slots) = Cardinality(T) * MaxPending
  BY <1>4, <1>5, FS_Product
<1>7. IsFiniteSet(of) /\ Cardinality(of) <= Cardinality(T) * MaxPending
  BY <1>3, <1>6, FS_Injection
<1>8. Cardinality(T) * MaxPending = MaxPending * Cardinality(T) BY <1>4
<1> QED BY <1>7, <1>8 DEF of

(* All of them.                                                            *)
LEMMA FlushedFinite ==
    ASSUME IInv, RequestsBounded, NEW h \in Host
    PROVE  IsFiniteSet(Flushed(h)) /\ Cardinality(Flushed(h)) \in Nat
<1>1. Flushed(h) = {r \in Flushed(h) : r[1] \in Tx} BY DEF Flushed
<1>2. IsFiniteSet(Flushed(h)) BY <1>1, FlushedFew
<1> QED BY <1>2, FS_CardinalityType

(* Fewer live probes and fewer flushed ones stay within the limit.         *)
LEMMA LiveShrinks ==
    ASSUME IInv, RequestsBounded, LiveIsBounded,
           \A h \in Host : Live(h)' \subseteq Live(h)
                           /\ Flushed(h)' \subseteq Flushed(h)
    PROVE  LiveIsBounded'
<1> SUFFICES ASSUME NEW h \in Host
             PROVE  /\ IsFiniteSet(Live(h)')
                    /\ Cardinality(Live(h)') + Cardinality(Flushed(h)') <= QueueLimit
  BY DEF LiveIsBounded, QueueLimit
<1>1. IsFiniteSet(Live(h)) /\ IsFiniteSet(Flushed(h))
      /\ Cardinality(Live(h)) + Cardinality(Flushed(h)) <= QueueLimit
  BY FlushedFinite DEF LiveIsBounded
<1>2. /\ IsFiniteSet(Live(h)') /\ Cardinality(Live(h)') <= Cardinality(Live(h))
      /\ IsFiniteSet(Flushed(h)')
      /\ Cardinality(Flushed(h)') <= Cardinality(Flushed(h))
  BY <1>1, FS_Subset
<1>3. /\ Cardinality(Live(h)) \in Nat /\ Cardinality(Live(h)') \in Nat
      /\ Cardinality(Flushed(h)) \in Nat /\ Cardinality(Flushed(h)') \in Nat
  BY <1>1, <1>2, FS_CardinalityType
<1> QED BY <1>1, <1>2, <1>3, CountsAreNumbers

(* A step of a session that leaves its batch unmarked, or fills it with    *)
(* pending probes, revives nothing.                                        *)
LEMMA SessionKeepsQueue ==
    ASSUME IInv, QueueInv, NEW s \in Session, UNCHANGED tx, RowsKept,
           \A r \in Session : r # s => sess'[r] = sess[r],
           \A i \in ProbeId : probe'[i].status \in {"PENDING", "DELIVERED"} =>
              probe[i].status \in {"PENDING", "DELIVERED"} \/ i \in Marked(s),
           \/ sess'[s].pc # "claim"
           \/ /\ \A i \in sess'[s].batch : probe'[i].status = "PENDING"
                                           /\ probe[i].status = "PENDING"
              /\ IsFiniteSet(sess'[s].batch)
              /\ \A i \in sess'[s].batch : Rank(i, sess'[s].batch) < MaxDelivered
    PROVE  QueueInv'
<1>1. BatchesBounded' /\ RequestsBounded'
  BY DEF QueueInv, BatchesBounded, RequestsBounded, Rank
<1>2. SomeoneIsCurrent'
  <2>1. \A i \in Marked(s)' : ~Answered(i)' BY DEF Marked, Answered
  <2> QED BY <2>1 DEF SomeoneIsCurrent
<1>3. LiveIsBounded'
  <2>1. ASSUME NEW h \in Host, NEW i \in Live(h)' PROVE i \in Live(h)
    <3>1. i \in ProbeId /\ i \in Rows(h) /\ Unexpired(i)
      BY DEF Live, Rows, Unexpired, RowsKept
    <3>2. CASE probe'[i].status \in {"PENDING", "DELIVERED"}
      BY <3>1, <3>2 DEF Live
    <3>3. CASE \E r \in Session : i \in Marked(r)'
      BY <3>1, <3>3 DEF Live, Marked
    <3> QED BY <3>2, <3>3 DEF Live
  <2>2. \A h \in Host : Flushed(h)' = Flushed(h) BY DEF Flushed
  <2> QED BY <2>1, <2>2, LiveShrinks DEF QueueInv
<1> QED BY <1>1, <1>2, <1>3 DEF QueueInv

LEMMA HeartbeatQueue ==
    ASSUME IInv, QueueInv, NEW s \in Session, Heartbeat(s)
    PROVE  QueueInv'
<1> DEFINE h == HostOf[s]
           pending == {i \in Rows(h) : probe[i].status = "PENDING" /\ Unexpired(i)}
<1>1. h \in Host OBVIOUS
<1>2. sess \in [Session -> SessionState] BY DEF IInv, TypeOK
<1>3. /\ sess'[s].batch = PendingBatch(h) /\ UNCHANGED <<probe, tx>>
      /\ \A r \in Session : r # s => sess'[r] = sess[r]
  BY <1>2 DEF Heartbeat, SessionState
<1>4. IsFiniteSet(pending)
  <2>1. pending \subseteq Live(h) BY DEF Live
  <2> QED BY <1>1, <2>1, FS_Subset DEF QueueInv, LiveIsBounded
<1>5. PendingBatch(h) = {i \in pending : Rank(i, pending) < MaxDelivered}
  BY DEF PendingBatch, Rank
<1>6. /\ IsFiniteSet(PendingBatch(h))
      /\ \A i \in PendingBatch(h) : /\ probe[i].status = "PENDING"
                                    /\ Rank(i, PendingBatch(h)) < MaxDelivered
  <2>1. PendingBatch(h) \in SUBSET pending BY <1>5
  <2>2. \A i \in PendingBatch(h) :
          /\ Rank(i, pending) < MaxDelivered
          /\ Rank(i, PendingBatch(h)) \in Nat /\ Rank(i, pending) \in Nat
          /\ Rank(i, PendingBatch(h)) <= Rank(i, pending)
    BY <1>4, <1>5, <2>1, RankShrinks
  <2> QED BY <1>4, <2>1, <2>2, FS_Subset
<1>7. RowsKept BY <1>3 DEF RowsKept
<1> HIDE DEF h, pending
<1> QED BY <1>3, <1>6, <1>7, SessionKeepsQueue

LEMMA ClaimQueue ==
    ASSUME IInv, QueueInv, NEW s \in Session, ClaimPendingProbes(s)
    PROVE  QueueInv'
<1>1. \A i \in ProbeId :
        /\ probe'[i].status = "none" <=> probe[i].status = "none"
        /\ probe'[i].host = probe[i].host /\ probe'[i].port = probe[i].port
        /\ probe'[i].age = probe[i].age
        /\ i \notin sess[s].batch => probe'[i].status = probe[i].status
  BY Elements DEF ClaimPendingProbes, IInv, ProbeRow, SessionOwns, Owned
<1>2. RowsKept BY <1>1 DEF RowsKept
<1>3. sess \in [Session -> SessionState] BY DEF IInv, TypeOK
<1>4. sess'[s].pc # "claim" /\ \A r \in Session : r # s => sess'[r] = sess[r]
  BY <1>3 DEF ClaimPendingProbes, IdleSession, SessionState
<1>5. \A i \in sess[s].batch : i \in Marked(s)
  BY DEF ClaimPendingProbes, Marked
<1>6. UNCHANGED tx BY DEF ClaimPendingProbes
<1> QED BY <1>1, <1>2, <1>4, <1>5, <1>6, SessionKeepsQueue

LEMMA AnswerQueue ==
    ASSUME IInv, QueueInv, NEW s \in Session,
           ProbeBind(s) \/ SubmitResult(s) \/ RecordResult(s)
    PROVE  QueueInv'
<1> sess \in [Session -> SessionState] BY DEF IInv, TypeOK
<1>1. UNCHANGED tx BY DEF ProbeBind, SubmitResult, RecordResult
<1>2. AfterSubmit(s).pc \in {"idle", "probing"} BY AfterSubmitFact
<1>3. sess'[s].pc # "claim" /\ \A r \in Session : r # s => sess'[r] = sess[r]
  <2>1. CASE ProbeBind(s) BY <2>1 DEF ProbeBind
  <2>2. CASE SubmitResult(s) BY <2>2, <1>2 DEF SubmitResult, SessionState
  <2>3. CASE RecordResult(s) BY <2>3, <1>2 DEF RecordResult
  <2> QED BY <2>1, <2>2, <2>3
<1>4. RowsKept /\ \A i \in ProbeId : probe'[i].status \in {"PENDING", "DELIVERED"} =>
                                        probe[i].status \in {"PENDING", "DELIVERED"}
  <2>1. CASE UNCHANGED probe BY <2>1 DEF RowsKept
  <2>2. CASE RecordResult(s)
    <3> DEFINE i == sess[s].cur
    <3>1. i \in ProbeId /\ probe[i].status # "none"
      BY <2>2 DEF RecordResult, IInv, SessionOwns, Owned
    <3>2. \A j \in ProbeId :
            /\ probe'[j].host = probe[j].host /\ probe'[j].port = probe[j].port
            /\ probe'[j].age = probe[j].age
            /\ probe'[j].status = IF j # i THEN probe[j].status
                                  ELSE IF sess[s].answer = "none" THEN "FAILED"
                                       ELSE "COMPLETED"
      BY <2>2, <3>1 DEF RecordResult, IInv, TypeOK, ProbeRow
    <3> QED BY <3>1, <3>2 DEF RowsKept
  <2> QED BY <2>1, <2>2 DEF ProbeBind, SubmitResult
<1> QED BY <1>1, <1>3, <1>4, SessionKeepsQueue

(* A request that saw room under the cap for one more probe.               *)
LEMMA QueueProbeQueue ==
    ASSUME IInv, QueueInv, NEW t \in Tx, NEW h \in Host, NEW p \in Port,
           QueueProbe(t, h, p)
    PROVE  QueueInv'
<1> DEFINE own == tx[t].rows
           K == MaxDelivered * (Cardinality(Session) - 1)
<1>1. /\ tx' = [tx EXCEPT ![t] = [host |-> h, rows |-> own \cup {p}]]
      /\ UNCHANGED <<probe, sess>> /\ p \notin own
      /\ own # {} => tx[t].host = h
      /\ Cardinality(Active(h)) + Cardinality(own) < MaxPending
  BY DEF QueueProbe, WantsProbe, IInv, TypeOK
<1>2. tx \in [Tx -> TxState] BY DEF IInv, TypeOK
<1>3. tx'[t] = [host |-> h, rows |-> own \cup {p}]
      /\ \A u \in Tx : u # t => tx'[u] = tx[u]
  BY <1>1, <1>2
<1>4. BatchesBounded' /\ SomeoneIsCurrent'
  BY <1>1 DEF QueueInv, BatchesBounded, SomeoneIsCurrent, Marked, Answered
<1>5. \A k \in Host : Live(k)' = Live(k)
  BY <1>1 DEF Live, Rows, Unexpired, Marked
<1>6. /\ IsFiniteSet(own) /\ IsFiniteSet(Live(h)) /\ IsFiniteSet(Active(h))
      /\ Cardinality(own) \in Nat /\ Cardinality(Active(h)) \in Nat
      /\ Cardinality(Live(h)) \in Nat
      /\ Cardinality(Live(h)) <= Cardinality(Active(h)) + K
  <2>1. IsFiniteSet(own) /\ IsFiniteSet(Live(h))
    BY DEF QueueInv, RequestsBounded, LiveIsBounded
  <2>2. Active(h) \subseteq Live(h) BY DEF Active, Live
  <2>3. Cardinality(Live(h)) <= Cardinality(Active(h)) + K
    BY <2>1, FewRevivals DEF QueueInv
  <2> QED BY <2>1, <2>2, <2>3, FS_Subset, FS_CardinalityType
<1>7. /\ IsFiniteSet(own \cup {p})
      /\ Cardinality(own \cup {p}) = Cardinality(own) + 1
  BY <1>1, <1>6, FS_AddElement
<1>8. RequestsBounded'
  <2>1. Cardinality(own \cup {p}) <= MaxPending BY <1>1, <1>6, <1>7
  <2>2. tx'[t].rows = own \cup {p} BY <1>3
  <2> SUFFICES ASSUME NEW u \in Tx
               PROVE  /\ IsFiniteSet(tx'[u].rows)
                      /\ Cardinality(tx'[u].rows) <= MaxPending
    BY DEF RequestsBounded
  <2> HIDE DEF own
  <2>3. CASE u = t BY <1>7, <2>1, <2>2, <2>3
  <2>4. CASE u # t BY <1>3, <2>4 DEF QueueInv, RequestsBounded
  <2> QED BY <2>3, <2>4
<1>9. ASSUME NEW k \in Host, k # h PROVE Flushed(k)' = Flushed(k)
  <2>1. \A u \in Tx : \A q \in Port :
          tx'[u].host = k /\ q \in tx'[u].rows <=> tx[u].host = k /\ q \in tx[u].rows
    <3>1. ASSUME NEW q \in Port
          PROVE  ~(tx'[t].host = k /\ q \in tx'[t].rows)
                 /\ ~(tx[t].host = k /\ q \in tx[t].rows)
      BY <1>1, <1>3, <1>9
    <3> QED BY <1>3, <3>1
  <2> QED BY <2>1 DEF Flushed
<1>10. Cardinality(Live(h)) + Cardinality(Flushed(h)') <= QueueLimit
  <2> DEFINE Rest == {r \in Flushed(h) : r[1] \in Tx \ {t}}
             Mine == {t} \X (own \cup {p})
  <2>1. Flushed(h)' = Rest \cup Mine
    <3>1. \A q : q \in own \cup {p} => q \in Port
      BY <1>2 DEF TxState
    <3>2. Flushed(h)' = {r \in Tx \X Port : tx'[r[1]].host = h /\ r[2] \in tx'[r[1]].rows}
      BY DEF Flushed
    <3>3. ASSUME NEW r \in Flushed(h)' PROVE r \in Rest \cup Mine
      <4>1. r \in Tx \X Port /\ tx'[r[1]].host = h /\ r[2] \in tx'[r[1]].rows
        BY <3>2, <3>3
      <4>2. CASE r[1] = t BY <1>3, <4>1, <4>2
      <4>3. CASE r[1] # t BY <1>3, <4>1, <4>3 DEF Flushed
      <4> QED BY <4>2, <4>3
    <3>4. ASSUME NEW r \in Rest PROVE r \in Flushed(h)'
      <4>1. /\ r \in Tx \X Port /\ tx[r[1]].host = h
            /\ r[2] \in tx[r[1]].rows /\ r[1] # t
        BY <3>4 DEF Flushed
      <4> QED BY <1>3, <3>2, <4>1
    <3>5. ASSUME NEW r \in Mine PROVE r \in Flushed(h)'
      BY <1>3, <3>1, <3>2, <3>5
    <3> QED BY <3>3, <3>4, <3>5
  <2>2. IsFiniteSet(Rest) /\ Cardinality(Rest) <= MaxPending * Cardinality(Tx \ {t})
    BY FlushedFew DEF QueueInv
  <2>3. Cardinality(Tx \ {t}) = Cardinality(Tx) - 1
    BY ConcurrencyAssumption, FS_RemoveElement
  <2>4. IsFiniteSet(Mine) /\ Cardinality(Mine) = Cardinality(own \cup {p})
    <3>1. IsFiniteSet({t}) /\ Cardinality({t}) = 1 BY FS_Singleton
    <3>2. IsFiniteSet(Mine)
          /\ Cardinality(Mine) = Cardinality({t}) * Cardinality(own \cup {p})
      BY <1>7, <3>1, FS_Product
    <3>3. \A n \in Nat : 1 * n = n OBVIOUS
    <3>4. Cardinality(own \cup {p}) \in Nat BY <1>6, <1>7
    <3> QED BY <3>1, <3>2, <3>3, <3>4
  <2>5. Cardinality(Rest \cup Mine)
           = Cardinality(Rest) + Cardinality(Mine) - Cardinality(Rest \cap Mine)
    BY <2>2, <2>4, FS_Union
  <2>6. /\ Cardinality(Rest) \in Nat /\ Cardinality(Mine) \in Nat
        /\ Cardinality(Rest \cap Mine) \in Nat
    BY <2>2, <2>4, FS_Intersection, FS_CardinalityType
  <2> DEFINE n == Cardinality(Tx)
  <2>7. /\ K \in Nat /\ MaxPending * n \in Nat /\ n \in Nat /\ n >= 1
        /\ QueueLimit = MaxPending * n + K
    BY CountsAreNumbers DEF QueueLimit
  <2>8. MaxPending * (n - 1) = MaxPending * n - MaxPending BY <2>7
  <2>9. Cardinality(Rest) <= MaxPending * n - MaxPending BY <2>2, <2>3, <2>8
  <2>10. Cardinality(Flushed(h)') <= Cardinality(Rest) + Cardinality(own) + 1
    BY <1>6, <1>7, <2>1, <2>4, <2>5, <2>6
  <2>11. Cardinality(Flushed(h)') \in Nat
    BY <2>1, <2>2, <2>4, FS_Union, FS_CardinalityType
  <2> HIDE DEF K, n, Rest, Mine, own
  <2> DEFINE L == Cardinality(Live(h))
             A == Cardinality(Active(h))
             O == Cardinality(own)
             R == Cardinality(Rest)
             F == Cardinality(Flushed(h)')
             M == MaxPending * n
  <2>12. L \in Nat /\ A \in Nat /\ O \in Nat /\ R \in Nat /\ F \in Nat
         /\ M \in Nat /\ K \in Nat
         /\ L <= A + K /\ A + O < MaxPending /\ R <= M - MaxPending
         /\ F <= R + O + 1
    BY <1>1, <1>6, <2>6, <2>7, <2>9, <2>10, <2>11
  <2> HIDE DEF L, A, O, R, F, M
  <2>13. L + F <= M + K BY <2>12
  <2> QED BY <2>7, <2>13 DEF L, F, M
<1>11. LiveIsBounded'
  <2> SUFFICES ASSUME NEW k \in Host
               PROVE  /\ IsFiniteSet(Live(k)')
                      /\ Cardinality(Live(k)') + Cardinality(Flushed(k)') <= QueueLimit
    BY DEF LiveIsBounded, QueueLimit
  <2> QED BY <1>5, <1>6, <1>9, <1>10 DEF QueueInv, LiveIsBounded
<1> QED BY <1>4, <1>8, <1>11 DEF QueueInv

(* A commit turns flushed probes into rows; a rollback drops them.         *)
LEMMA EndRequestQueue ==
    ASSUME IInv, QueueInv, NEW t \in Tx, CommitRequest(t) \/ RollbackRequest(t)
    PROVE  QueueInv'
<1>0. PICK h \in Host : h = tx[t].host BY DEF IInv, TypeOK, TxState
<1> DEFINE Mine == {r \in Flushed(h) : r[1] = t}
<1>1. tx' = [tx EXCEPT ![t] = IdleTx] /\ UNCHANGED sess
  BY DEF CommitRequest, RollbackRequest
<1>2. tx \in [Tx -> TxState] BY DEF IInv, TypeOK
<1>3. tx'[t].rows = {} /\ \A u \in Tx : u # t => tx'[u] = tx[u]
  BY <1>1, <1>2 DEF IdleTx
<1>4. RequestsBounded'
  <2>1. IsFiniteSet({}) /\ Cardinality({}) <= MaxPending BY FS_EmptySet
  <2> SUFFICES ASSUME NEW u \in Tx
               PROVE  /\ IsFiniteSet(tx'[u].rows)
                      /\ Cardinality(tx'[u].rows) <= MaxPending
    BY DEF RequestsBounded
  <2>2. CASE u = t BY <1>3, <2>1, <2>2
  <2>3. CASE u # t BY <1>3, <2>3 DEF QueueInv, RequestsBounded
  <2> QED BY <2>2, <2>3
<1>5. /\ Flushed(h)' = Flushed(h) \ Mine
      /\ \A k \in Host : Flushed(k)' \subseteq Flushed(k)
  <2>1. \A k \in Host : Flushed(k)'
           = {r \in Tx \X Port : tx'[r[1]].host = k /\ r[2] \in tx'[r[1]].rows}
    BY DEF Flushed
  <2>2. \A k \in Host : \A r \in Tx \X Port :
           r \in Flushed(k)' <=> r \in Flushed(k) /\ r[1] # t
    <3> SUFFICES ASSUME NEW k \in Host, NEW r \in Tx \X Port
                 PROVE  r \in Flushed(k)' <=> r \in Flushed(k) /\ r[1] # t
      OBVIOUS
    <3>1. CASE r[1] = t BY <1>3, <2>1, <3>1
    <3>2. CASE r[1] # t BY <1>3, <2>1, <3>2 DEF Flushed
    <3> QED BY <3>1, <3>2
  <2>3. \A k \in Host : Flushed(k) \subseteq Tx \X Port
                        /\ Flushed(k)' \subseteq Tx \X Port
    BY <2>1 DEF Flushed
  <2> QED BY <2>2, <2>3
<1>6. CASE RollbackRequest(t)
  <2>1. UNCHANGED probe BY <1>6 DEF RollbackRequest
  <2>2. BatchesBounded' /\ SomeoneIsCurrent'
    BY <1>1, <2>1 DEF QueueInv, BatchesBounded, SomeoneIsCurrent, Marked,
                      Answered, Rank
  <2>3. \A k \in Host : Live(k)' = Live(k)
    BY <1>1, <2>1 DEF Live, Rows, Unexpired, Marked
  <2> QED BY <1>4, <1>5, <2>2, <2>3, LiveShrinks DEF QueueInv
<1>7. CASE CommitRequest(t)
  <2>1. PICK id \in [tx[t].rows -> ProbeId] :
           /\ \A i \in Range(id) : probe[i].status = "none"
           /\ \A i \in ProbeId \ Range(id) : probe'[i] = probe[i]
           /\ \A i \in Range(id) : probe'[i].status = "PENDING"
                                    /\ probe'[i].host = h
    BY <1>0, <1>7, CommitFact
  <2> DEFINE New == Range(id)
  <2>2. \A s \in Session : sess[s].batch \subseteq ProbeId \ New
    BY <2>1, Elements DEF IInv, SessionOwns, Owned, SessionState
  <2>3. BatchesBounded' /\ SomeoneIsCurrent'
    <3>1. \A s \in Session : Marked(s)' = Marked(s)
                             /\ Marked(s) \subseteq ProbeId \ New
      BY <1>1, <2>2 DEF Marked
    <3>2. \A j \in ProbeId \ New : Answered(j)' = Answered(j)
      BY <2>1 DEF Answered
    <3> QED BY <1>1, <3>1, <3>2
            DEF QueueInv, BatchesBounded, SomeoneIsCurrent, Rank
  <2>4. \A k \in Host : /\ Live(k)' \subseteq Live(k) \cup New
                        /\ k # h => Live(k)' \subseteq Live(k)
    BY <1>1, <2>1 DEF Live, Rows, Unexpired, Marked
  <2>5. IsFiniteSet(Flushed(h)) /\ Cardinality(Flushed(h)) \in Nat
    BY FlushedFinite DEF QueueInv
  <2>6. /\ IsFiniteSet(Mine) /\ IsFiniteSet(New)
        /\ Cardinality(New) <= Cardinality(Mine)
    <3> DEFINE g == [r \in Mine |-> id[r[2]]]
    <3>1. IsFiniteSet(Mine) BY <2>5, FS_Subset
    <3>2. \A r \in Mine : r[2] \in tx[t].rows BY DEF Flushed
    <3>3. \A q \in tx[t].rows : <<t, q>> \in Mine
      BY <1>0, <1>2 DEF Flushed, TxState
    <3>4. g \in Surjection(Mine, New)
      <4>1. g \in [Mine -> New] BY <3>2 DEF Range
      <4>2. \A i \in New : \E r \in Mine : g[r] = i
        <5> SUFFICES ASSUME NEW i \in New PROVE \E r \in Mine : g[r] = i
          OBVIOUS
        <5>1. PICK q \in tx[t].rows : id[q] = i BY DEF Range
        <5>2. <<t, q>> \in Mine BY <3>3
        <5>3. g[<<t, q>>] = i BY <5>1, <5>2
        <5> QED BY <5>2, <5>3
      <4> HIDE DEF g, Mine, New
      <4> QED BY <4>1, <4>2 DEF Surjection
    <3> HIDE DEF g, Mine, New
    <3> QED BY <3>1, <3>4, FS_Surjection
  <2> HIDE DEF New
  <2>7. Cardinality(Flushed(h)') = Cardinality(Flushed(h)) - Cardinality(Mine)
    <3>1. Flushed(h) \cap Mine = Mine OBVIOUS
    <3> QED BY <1>5, <2>5, <3>1, FS_Difference
  <2>8. ASSUME NEW k \in Host
        PROVE  /\ IsFiniteSet(Live(k)')
               /\ Cardinality(Live(k)') + Cardinality(Flushed(k)') <= QueueLimit
    <3>1. /\ IsFiniteSet(Live(k)) /\ IsFiniteSet(Flushed(k))
          /\ Cardinality(Live(k)) \in Nat /\ Cardinality(Flushed(k)) \in Nat
          /\ Cardinality(Live(k)) + Cardinality(Flushed(k)) <= QueueLimit
      BY FlushedFinite, FS_CardinalityType DEF QueueInv, LiveIsBounded
    <3>2. CASE k = h
      <4>1. /\ IsFiniteSet(Live(k) \cup New)
            /\ Cardinality(Live(k) \cup New) = Cardinality(Live(k))
                  + Cardinality(New) - Cardinality(Live(k) \cap New)
        BY <2>6, <3>1, FS_Union
      <4>2. Cardinality(New) \in Nat /\ Cardinality(Live(k) \cap New) \in Nat
            /\ Cardinality(Mine) \in Nat
        BY <2>6, <3>1, FS_Intersection, FS_CardinalityType
      <4>3. /\ IsFiniteSet(Live(k)') /\ Cardinality(Live(k)') \in Nat
            /\ Cardinality(Live(k)') <= Cardinality(Live(k) \cup New)
        BY <2>4, <4>1, FS_Subset, FS_CardinalityType
      <4>4. Cardinality(Flushed(k)') = Cardinality(Flushed(k)) - Cardinality(Mine)
        BY <2>7, <3>2
      <4> HIDE DEF Mine
      <4> QED BY <2>6, <3>1, <4>1, <4>2, <4>3, <4>4, CountsAreNumbers
    <3>3. CASE k # h
      <4>1. Live(k)' \subseteq Live(k) /\ Flushed(k)' \subseteq Flushed(k)
        BY <1>5, <2>4, <3>3
      <4>2. /\ IsFiniteSet(Live(k)') /\ Cardinality(Live(k)') \in Nat
            /\ Cardinality(Live(k)') <= Cardinality(Live(k))
            /\ Cardinality(Flushed(k)') \in Nat
            /\ Cardinality(Flushed(k)') <= Cardinality(Flushed(k))
        BY <3>1, <4>1, FS_Subset, FS_CardinalityType
      <4> QED BY <3>1, <4>2, CountsAreNumbers
    <3> QED BY <3>2, <3>3
  <2>9. LiveIsBounded' BY <2>8 DEF LiveIsBounded, QueueLimit
  <2> QED BY <1>4, <2>3, <2>9 DEF QueueInv
<1> QED BY <1>6, <1>7

LEMMA TickQueue ==
    ASSUME IInv, QueueInv, Tick
    PROVE  QueueInv'
<1>1. UNCHANGED <<sess, tx>> BY DEF Tick
<1>2. \A i \in ProbeId :
        /\ probe'[i].status = probe[i].status /\ probe'[i].host = probe[i].host
        /\ probe[i].status # "none" => probe[i].age <= probe'[i].age
                                       /\ probe'[i].age \in Nat
  <2>1. \A i \in ProbeId : probe[i] \in ProbeRow /\ probe[i].age \in Nat
    BY Elements DEF IInv
  <2> QED BY <2>1 DEF Tick, ProbeRow, Saturate
<1>3. BatchesBounded' /\ SomeoneIsCurrent'
  <2>1. \A s \in Session : Marked(s)' = Marked(s) /\ Marked(s) \subseteq ProbeId
    BY <1>1, Elements DEF Marked, IInv, SessionState
  <2>2. \A j \in ProbeId : Answered(j)' = Answered(j) BY <1>2 DEF Answered
  <2> QED BY <1>1, <2>1, <2>2 DEF QueueInv, BatchesBounded, SomeoneIsCurrent, Rank
<1>6. RequestsBounded' BY <1>1 DEF QueueInv, RequestsBounded
<1>4. ASSUME NEW h \in Host, NEW i \in Live(h)' PROVE i \in Live(h)
  <2>1. i \in ProbeId /\ i \in Rows(h) BY <1>2 DEF Live, Rows
  <2>2. Unexpired(i)
    <3>1. probe[i].age <= probe'[i].age /\ probe'[i].age <= TTL
          /\ probe'[i].age \in Nat /\ probe[i].age \in Nat
      BY <1>2, <2>1, Elements DEF Live, Rows, Unexpired, IInv
    <3> QED BY <3>1 DEF Unexpired
  <2> QED BY <1>1, <1>2, <2>1, <2>2 DEF Live, Marked
<1>5. \A h \in Host : Flushed(h)' = Flushed(h) BY <1>1 DEF Flushed
<1> QED BY <1>3, <1>4, <1>5, <1>6, LiveShrinks DEF QueueInv

(* Programs on the host do not touch the queue.                            *)
LEMMA QueueUntouched ==
    ASSUME QueueInv, UNCHANGED <<probe, sess, tx>>
    PROVE  QueueInv'
BY DEF QueueInv, BatchesBounded, RequestsBounded, SomeoneIsCurrent, LiveIsBounded,
       Marked, Rank, Answered, Live, Rows, Unexpired, Flushed, QueueLimit

LEMMA QueueInit == Init => QueueInv
<1> SUFFICES ASSUME Init PROVE QueueInv OBVIOUS
<1>1. \A h \in Host : Live(h) = {} /\ Flushed(h) = {}
  BY DEF Init, Live, Rows, NoRow, Flushed, IdleTx
<1>2. LiveIsBounded
  <2>1. IsFiniteSet({}) /\ Cardinality({}) = 0 BY FS_EmptySet
  <2>2. 0 + 0 <= QueueLimit BY CountsAreNumbers
  <2> QED BY <1>1, <2>1, <2>2 DEF LiveIsBounded
<1>3. BatchesBounded /\ SomeoneIsCurrent
  BY ConcurrencyAssumption
     DEF Init, IdleSession, BatchesBounded, SomeoneIsCurrent, Marked
<1>4. RequestsBounded
  <2>1. \A t \in Tx : tx[t].rows = {} BY DEF Init, IdleTx
  <2>2. IsFiniteSet({}) /\ Cardinality({}) <= MaxPending BY FS_EmptySet
  <2> QED BY <2>1, <2>2, Zenon DEF RequestsBounded
<1> QED BY <1>2, <1>3, <1>4 DEF QueueInv

(* A host's queue holds at most the cap once for every request under way   *)
(* at the same moment, and what the other sessions of the host's agents    *)
(* bring back, for any number of hosts, requests, ports and sessions.      *)
THEOREM QueueIsBounded == Spec => []QueueStaysBounded
<1>1. Init => IInv /\ QueueInv BY InitIInv, QueueInit
<1>2. IInv /\ QueueInv /\ [Next]_vars => QueueInv'
  <2> SUFFICES ASSUME IInv, QueueInv, [Next]_vars PROVE QueueInv' OBVIOUS
  <2>1. CASE \E t \in Tx, h \in Host :
               \/ \E free \in SUBSET Port : \/ SuggestPort(t, h, free)
                                           \/ AllocateItem(t, h, free)
               \/ \E p \in Port : VerifyPort(t, h, p)
    BY <2>1, RequestsQueue, QueueProbeQueue
  <2>2. CASE \E t \in Tx : CommitRequest(t) \/ RollbackRequest(t)
    BY <2>2, EndRequestQueue
  <2>3. CASE \E s \in Session : \/ Heartbeat(s) \/ ClaimPendingProbes(s)
                                \/ ProbeBind(s) \/ SubmitResult(s) \/ RecordResult(s)
    BY <2>3, HeartbeatQueue, ClaimQueue, AnswerQueue
  <2>4. CASE Tick BY <2>4, TickQueue
  <2>5. CASE \/ \E h \in Host, p \in Contended : BindPort(h, p) \/ FreePort(h, p)
             \/ UNCHANGED vars
    BY <2>5, QueueUntouched DEF BindPort, FreePort, vars
  <2> QED BY <2>1, <2>2, <2>3, <2>4, <2>5 DEF Next
<1>3. IInv /\ QueueInv => QueueStaysBounded
  <2> SUFFICES ASSUME IInv, QueueInv, NEW h \in Host
               PROVE  Cardinality(Active(h)) + Cardinality(Flushed(h)) <= QueueLimit
    BY DEF QueueStaysBounded, QueueLimit
  <2>1. /\ IsFiniteSet(Live(h)) /\ Cardinality(Flushed(h)) \in Nat
        /\ Cardinality(Live(h)) + Cardinality(Flushed(h)) <= QueueLimit
    BY FlushedFinite DEF QueueInv, LiveIsBounded
  <2>2. Active(h) \subseteq Live(h) BY DEF Active, Live
  <2>3. /\ IsFiniteSet(Active(h)) /\ Cardinality(Active(h)) <= Cardinality(Live(h))
    BY <2>1, <2>2, FS_Subset
  <2>4. Cardinality(Active(h)) \in Nat /\ Cardinality(Live(h)) \in Nat
    BY <2>1, <2>3, FS_CardinalityType
  <2> QED BY <2>1, <2>3, <2>4, CountsAreNumbers
<1> QED BY <1>1, <1>2, <1>3, Invariance, PTL DEF Spec

=============================================================================
