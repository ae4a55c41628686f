------------------------- MODULE HostRegistryProofs -------------------------
(***************************************************************************)
(* Proofs about HostRegistry, for any number of hosts, machines, tokens,   *)
(* credentials, commands and administrators: types, one active credential  *)
(* per host, no credential without a host row, no second credential for a  *)
(* token but by requests that overlapped, none on a tombstone that no      *)
(* enrollment overlapped, no resurrection of a decommissioned host, and a  *)
(* machine that loads its newest credential.                               *)
(***************************************************************************)
EXTENDS HostRegistry, TLAPS

(* An issued credential belongs to a host and has used its token up; the   *)
(* pending requests name what they are about, and have read issued         *)
(* credentials only.                                                       *)
References ==
    /\ \A c \in Existing :
          /\ cred[c].host \in Host
          /\ cred[c].tok \in Token
          /\ token[cred[c].tok] = "consumed"
          /\ cred[c].before \subseteq Existing
    /\ \A k \in Command : cmd[k].pc = "checked" => cmd[k].tok \in Token
    /\ \A k \in Command : cmd[k].before \subseteq Existing
    /\ \A a \in Admin : admin[a].pc # "idle" => admin[a].host \in Host
    /\ \A a \in Admin : \A c \in admin[a].saw : cred[c].st # "none"

(* What had been issued when a request read its token was not issued for   *)
(* that token, which was not consumed then.                                *)
TokenStillUnspent ==
    \A k \in Command : cmd[k].pc = "checked" =>
        \A c \in cmd[k].before : cred[c].tok # cmd[k].tok

(* A decommission that no enrollment has overtaken has read every active   *)
(* credential of its host.                                                 *)
DecommissionSeesAll ==
    \A a \in Admin : admin[a].pc = "decommission" /\ ~admin[a].raced
                     => Active(admin[a].host) \subseteq admin[a].saw

(* Nor does an enrollment wait to commit on a tombstone that none had      *)
(* overlapped.                                                             *)
TombstoneIsClosed ==
    \A h \in Host : host[h] = "DECOMMISSIONED" /\ ~raced[h] =>
        \A k \in Command : ~Enrolls(k, h)

IInv ==
    /\ TypeOK /\ References
    /\ OneActiveCredential /\ CredentialsHaveHosts
    /\ TokenStillUnspent /\ TokenReplayRefused
    /\ DecommissionSeesAll /\ TombstoneIsClosed /\ TombstoneHoldsNoCredential

-----------------------------------------------------------------------------
(* Types.                                                                  *)

LEMMA CredentialTyped ==
    ASSUME NEW x \in Credential, NEW s \in {"none", "active", "revoked", "purged"}
    PROVE  [x EXCEPT !.st = s] \in Credential
BY DEF Credential

LEMMA CmdTyped ==
    ASSUME NEW x \in CmdState, NEW p \in {"idle", "checked", "issued", "second"},
           NEW c \in Cred \cup {NoCred}
    PROVE  /\ [x EXCEPT !.pc = p] \in CmdState
           /\ [x EXCEPT !.pc = p, !.cred = c] \in CmdState
BY DEF CmdState

LEMMA HeartbeatTyped ==
    ASSUME NEW x \in HeartbeatState, NEW p \in {"idle", "authenticated", "read"}
    PROVE  [x EXCEPT !.pc = p] \in HeartbeatState
BY DEF HeartbeatState

LEMMA IdleTyped ==
    /\ IdleCmd \in CmdState /\ IdleCmd.pc = "idle"
    /\ IdleAdmin \in AdminState /\ IdleAdmin.pc = "idle" /\ IdleAdmin.saw = {}
    /\ IdleHeartbeat \in HeartbeatState
    /\ NoCredential \in Credential /\ NoCredential.st = "none"
BY DEF IdleCmd, CmdState, IdleAdmin, AdminState, IdleHeartbeat, HeartbeatState,
       NoCredential, Credential

(* The types of the enroll commands, which each action keeps.              *)
CmdOK(c) ==
    /\ c \in [Command -> CmdState]
    /\ \A k \in Command :
          /\ c[k].pc # "idle" => c[k].on \in Machine
          /\ c[k].pc \in {"issued", "second"} => c[k].cred \in Cred

LEMMA CmdKept ==
    ASSUME CmdOK(cmd), NEW k \in Command, NEW x \in CmdState,
           x.pc # "idle" => x.on \in Machine,
           x.pc \in {"issued", "second"} => x.cred \in Cred
    PROVE  CmdOK([cmd EXCEPT ![k] = x])
BY DEF CmdOK

LEMMA InitTypes == Init => TypeOK
BY IdleTyped DEF Init, TypeOK, Life, TokenState, ConfigState

LEMMA TokenTypes ==
    ASSUME TypeOK, NEW t \in Token, MintEnrollmentToken(t) \/ TokenExpires(t)
    PROVE  TypeOK'
BY DEF TypeOK, MintEnrollmentToken, TokenExpires, TokenState, files, history

(* The row an enrollment or a heartbeat writes.                            *)
LEMMA RowTypes ==
    ASSUME host \in [Host -> Life], NEW h \in Host, NEW known, RowWritten(h, known)
    PROVE  /\ host' \in [Host -> Life] /\ host'[h] # "none"
           /\ host[h] = "none" => host'[h] = "ACTIVE"
           /\ host[h] # "none" => host'[h] = host[h]
           /\ \A g \in Host \ {h} : host'[g] = host[g]
BY DEF RowWritten, Life

LEMMA EnrollCommitTypes ==
    ASSUME TypeOK, NEW k \in Command, NEW c \in Cred, EnrollCommit(k, c)
    PROVE  TypeOK'
<1> DEFINE m == cmd[k].on
           h == IdentityOf[m]
<1>m. cmd[k] \in CmdState /\ CmdOK(cmd)
  BY DEF TypeOK, CmdOK
<1>h. m \in Machine /\ h \in Host
  BY IdentityAssumption DEF EnrollCommit, TypeOK
<1>1. host' \in [Host -> Life]
  BY <1>h, RowTypes DEF EnrollCommit, TypeOK
<1>2. token' \in [Token -> TokenState]
  BY DEF EnrollCommit, TypeOK, TokenState
<1>3. cred' \in [Cred -> Credential]
  <2>1. [st |-> "active", host |-> h, tok |-> cmd[k].tok, by |-> m,
         before |-> cmd[k].before] \in Credential
    BY <1>h, <1>m DEF CmdState, Credential
  <2>2. \A d \in Cred : cred[d] \in Credential
    BY DEF TypeOK
  <2>3. \A d \in Cred : [cred[d] EXCEPT !.st = "revoked"] \in Credential
    BY <2>2, CredentialTyped
  <2> QED
    BY <2>1, <2>2, <2>3 DEF EnrollCommit
<1>4. admin' \in [Admin -> AdminState]
  <2>1. ASSUME NEW a \in Admin
        PROVE  [admin[a] EXCEPT !.raced = @ \/ admin[a].host = h] \in AdminState
    <3>1. \A x \in AdminState, b \in BOOLEAN : [x EXCEPT !.raced = b] \in AdminState
      BY DEF AdminState
    <3>2. admin[a] \in AdminState /\ (admin[a].raced \/ admin[a].host = h) \in BOOLEAN
      BY DEF TypeOK
    <3> QED
      BY <3>1, <3>2
  <2> QED
    BY <2>1 DEF EnrollCommit
<1>5. CmdOK(cmd')
  <2> DEFINE x == [cmd[k] EXCEPT !.pc = "issued", !.cred = c]
  <2>1. x \in CmdState /\ x.cred = c /\ x.on = m
    <3>1. x \in CmdState
      BY <1>m, CmdTyped
    <3>2. x.cred = c /\ x.on = m
      BY <1>m DEF CmdState
    <3> QED
      BY <3>1, <3>2
  <2>2. cmd' = [cmd EXCEPT ![k] = x]
    BY DEF EnrollCommit
  <2> HIDE DEF x
  <2> QED
    BY <1>h, <1>m, <2>1, <2>2, CmdKept
<1> QED
  BY <1>1, <1>2, <1>3, <1>4, <1>5 DEF EnrollCommit, TypeOK, CmdOK, files, history

LEMMA EnrollTypes ==
    ASSUME TypeOK, NEW k \in Command, EnrollStep(k)
    PROVE  TypeOK'
<1>m. cmd[k] \in CmdState /\ CmdOK(cmd)
  BY DEF TypeOK, CmdOK
<1>1. ASSUME NEW m \in Machine, NEW t \in Token, NEW kind \in {"agent", "central"},
             EnrollRead(k, m, t, kind)
      PROVE  TypeOK'
  <2> DEFINE x == [pc |-> "checked", kind |-> kind, on |-> m, tok |-> t,
                   known |-> host[IdentityOf[m]] # "none",
                   before |-> Existing, cred |-> NoCred]
  <2>1. x \in CmdState /\ x.pc = "checked" /\ x.on \in Machine
    BY DEF CmdState, Existing
  <2>2. cmd' = [cmd EXCEPT ![k] = x]
    BY <1>1 DEF EnrollRead
  <2> HIDE DEF x
  <2>3. CmdOK(cmd')
    BY <1>m, <2>1, <2>2, CmdKept
  <2> QED
    BY <1>1, <2>3 DEF EnrollRead, TypeOK, CmdOK, registry, files, history
<1>2. ASSUME NEW c \in Cred, EnrollCommit(k, c)
      PROVE  TypeOK'
  BY <1>2, EnrollCommitTypes
<1>i. CmdOK([cmd EXCEPT ![k] = IdleCmd])
  BY <1>m, IdleTyped, CmdKept
<1>3. CASE EnrollFails(k)
  BY <1>3, <1>i DEF EnrollFails, TypeOK, CmdOK, registry, files, history
<1>4. CASE StoreFirst(k) \/ StoreSecond(k)
  <2>1. cmd[k].cred \in Cred /\ cmd[k].on \in Machine
    BY <1>4 DEF StoreFirst, StoreSecond, TypeOK
  <2>2. SaveCredential(k) \/ \E t \in Cred \cup {NoCred} : SaveCentralConfig(k, t)
    BY <1>4, <2>1 DEF StoreFirst, StoreSecond
  <2>3. /\ credFile' \in [Machine -> Cred \cup {NoCred}]
        /\ confFile' \in [Machine -> ConfigState]
        /\ dropped' \subseteq Cred
    <3>1. CASE SaveCredential(k)
      <4>1. credFile[cmd[k].on] \in Cred \cup {NoCred}
        BY <2>1 DEF TypeOK
      <4> QED
        BY <2>1, <3>1, <4>1 DEF SaveCredential, TypeOK
    <3>2. ASSUME NEW t \in Cred \cup {NoCred}, SaveCentralConfig(k, t)
          PROVE  /\ credFile' \in [Machine -> Cred \cup {NoCred}]
                 /\ confFile' \in [Machine -> ConfigState]
                 /\ dropped' \subseteq Cred
      <4>1. [enabled |-> TRUE, tok |-> t] \in ConfigState
        BY DEF ConfigState
      <4> QED
        BY <3>2, <4>1 DEF SaveCentralConfig, TypeOK
    <3> QED
      BY <2>2, <3>1, <3>2
  <2>4. CmdOK(cmd')
    <3> DEFINE x == [cmd[k] EXCEPT !.pc = "second"]
    <3>1. x \in CmdState
      BY <1>m, CmdTyped
    <3>2. x.cred = cmd[k].cred /\ x.on = cmd[k].on
      BY <1>m DEF CmdState
    <3>3. CASE StoreFirst(k)
      <4>1. cmd' = [cmd EXCEPT ![k] = x]
        BY <3>3 DEF StoreFirst
      <4> HIDE DEF x
      <4> QED
        BY <1>m, <2>1, <3>1, <3>2, <4>1, CmdKept
    <3>4. CASE StoreSecond(k)
      BY <1>i, <3>4 DEF StoreSecond
    <3> QED
      BY <1>4, <3>3, <3>4
  <2> QED
    BY <1>4, <2>3, <2>4 DEF StoreFirst, StoreSecond, TypeOK, CmdOK, registry
<1>5. CASE EnrollDies(k)
  <2>1. dropped' \subseteq Cred
    BY <1>5 DEF EnrollDies, TypeOK
  <2> QED
    BY <1>5, <1>i, <2>1 DEF EnrollDies, TypeOK, CmdOK, registry, files
<1> QED
  BY <1>1, <1>2, <1>3, <1>4, <1>5 DEF EnrollStep

LEMMA MachineTypes ==
    ASSUME TypeOK, NEW m \in Machine, MachineStep(m)
    PROVE  TypeOK'
BY DEF MachineStep, BeginHeal, SaveHealed, DaemonStart, DaemonStop, LoadCredential,
       TypeOK, ConfigState, registry, history

LEMMA HeartbeatTypes ==
    ASSUME TypeOK, NEW m \in Machine, HeartbeatStep(m)
    PROVE  TypeOK'
<1>1. hb[m] \in HeartbeatState
  BY DEF TypeOK
<1>2. hb' \in [Machine -> HeartbeatState]
  <2>1. [hb[m] EXCEPT !.pc = "authenticated"] \in HeartbeatState
    BY <1>1, HeartbeatTyped
  <2>2. [pc |-> "read", known |-> host[IdentityOf[m]] # "none"] \in HeartbeatState
    BY DEF HeartbeatState
  <2>3. PICK x \in HeartbeatState : hb' = [hb EXCEPT ![m] = x]
    BY <2>1, <2>2, IdleTyped DEF HeartbeatStep, HeartbeatAuth, HeartbeatRead,
                                 HeartbeatWrite, HeartbeatFails
  <2> QED
    BY <2>3 DEF TypeOK
<1>3. host' \in [Host -> Life]
  <2>1. CASE HeartbeatWrite(m)
    BY <2>1, IdentityAssumption, RowTypes DEF HeartbeatWrite, TypeOK
  <2>2. CASE HeartbeatAuth(m) \/ HeartbeatRead(m) \/ HeartbeatFails(m)
    BY <2>2 DEF HeartbeatAuth, HeartbeatRead, HeartbeatFails, TypeOK, registry
  <2> QED
    BY <2>1, <2>2 DEF HeartbeatStep
<1> QED
  BY <1>2, <1>3 DEF HeartbeatStep, HeartbeatAuth, HeartbeatRead, HeartbeatWrite,
                    HeartbeatFails, TypeOK, registry, files, history

LEMMA AdminTypes ==
    ASSUME TypeOK, NEW a \in Admin, AdminStep(a)
    PROVE  TypeOK'
<1>i. [admin EXCEPT ![a] = IdleAdmin] \in [Admin -> AdminState]
  BY IdleTyped DEF TypeOK
<1>1. ASSUME NEW h \in Host, DecommissionRead(a, h) \/ ReactivateRead(a, h) \/ PurgeRows(a, h)
      PROVE  TypeOK'
  <2>1. \A p \in {"decommission", "reactivate", "purge"}, s \in SUBSET Cred :
           [pc |-> p, host |-> h, saw |-> s, raced |-> FALSE] \in AdminState
    BY DEF AdminState
  <2>2. Active(h) \in SUBSET Cred /\ Rows(h) \in SUBSET Cred /\ {} \in SUBSET Cred
    BY DEF Active, Rows
  <2>3. PICK x \in AdminState : admin' = [admin EXCEPT ![a] = x]
    BY <1>1, <2>1, <2>2 DEF DecommissionRead, ReactivateRead, PurgeRows
  <2> QED
    BY <1>1, <2>3 DEF DecommissionRead, ReactivateRead, PurgeRows, TypeOK,
                      registry, files, history
<1>c. \A c \in Cred, s \in {"revoked", "purged"} : [cred[c] EXCEPT !.st = s] \in Credential
  BY CredentialTyped DEF TypeOK
<1>2. CASE DecommissionCommit(a)
  <2>1. cred' \in [Cred -> Credential]
    BY <1>2, <1>c DEF DecommissionCommit, TypeOK
  <2>2. admin[a].raced \in BOOLEAN
    BY DEF TypeOK, AdminState
  <2>3. raced' \in [Host -> BOOLEAN]
    BY <1>2, <2>2 DEF DecommissionCommit, TypeOK
  <2> QED
    BY <1>2, <1>i, <2>1, <2>3 DEF DecommissionCommit, TypeOK, Life, files
<1>3. CASE ReactivateCommit(a)
  BY <1>i, <1>3 DEF ReactivateCommit, TypeOK, Life, files, history
<1>4. CASE PurgeCommit(a)
  <2>1. cred' \in [Cred -> Credential]
    BY <1>4, <1>c DEF PurgeCommit, TypeOK
  <2> QED
    BY <1>i, <1>4, <2>1 DEF PurgeCommit, TypeOK, Life, files, history
<1>5. CASE AdminFails(a)
  BY <1>i, <1>5 DEF AdminFails, TypeOK, registry, files, history
<1> QED
  BY <1>1, <1>2, <1>3, <1>4, <1>5 DEF AdminStep

LEMMA StepTypes == TypeOK /\ [Next]_vars => TypeOK'
<1> SUFFICES ASSUME TypeOK, [Next]_vars PROVE TypeOK'
  OBVIOUS
<1>1. CASE UNCHANGED vars
  BY <1>1 DEF vars, TypeOK
<1> QED
  BY <1>1, TokenTypes, EnrollTypes, MachineTypes, HeartbeatTypes, AdminTypes DEF Next

-----------------------------------------------------------------------------
(* The invariant.                                                          *)

LEMMA InitInv == Init => IInv
<1> SUFFICES ASSUME Init PROVE IInv
  OBVIOUS
<1>1. TypeOK
  BY InitTypes
<1>2. \A c \in Cred : cred[c].st = "none"
  BY IdleTyped DEF Init
<1>3. \A k \in Command : cmd[k].pc = "idle" /\ cmd[k].before = {}
  BY DEF Init, IdleCmd
<1>4. \A a \in Admin : admin[a].pc = "idle" /\ admin[a].saw = {}
  BY IdleTyped DEF Init
<1>5. \A h \in Host : host[h] = "none"
  BY DEF Init
<1> QED
  BY <1>1, <1>2, <1>3, <1>4, <1>5
     DEF IInv, References, Existing, Enrolls, OneActiveCredential, CredentialsHaveHosts, TokenStillUnspent,
         TokenReplayRefused, DecommissionSeesAll, TombstoneIsClosed,
         TombstoneHoldsNoCredential

(* A step that leaves credentials, hosts, tokens and administrators alone  *)
(* and begins no enrollment keeps the invariant.                           *)
Apart ==
    /\ UNCHANGED <<host, token, cred, admin, raced>>
    /\ \A k \in Command : /\ cmd'[k].pc = "checked" => cmd'[k] = cmd[k]
                          /\ cmd'[k].before \subseteq cmd[k].before

LEMMA ApartInv ==
    ASSUME IInv, TypeOK', Apart
    PROVE  IInv'
BY DEF IInv, Apart, References, OneActiveCredential, CredentialsHaveHosts,
       TokenStillUnspent, TokenReplayRefused, DecommissionSeesAll, TombstoneIsClosed,
       TombstoneHoldsNoCredential, Active, Existing, Enrolls

LEMMA TokenInv ==
    ASSUME IInv, TypeOK', NEW t \in Token, MintEnrollmentToken(t) \/ TokenExpires(t)
    PROVE  IInv'
<1>1. \A u \in Token : token[u] = "consumed" => token'[u] = "consumed"
  BY DEF MintEnrollmentToken, TokenExpires, IInv, TypeOK
<1> QED
  BY <1>1 DEF IInv, References, OneActiveCredential, CredentialsHaveHosts,
       TokenStillUnspent, TokenReplayRefused, DecommissionSeesAll, TombstoneIsClosed,
       TombstoneHoldsNoCredential, Active, Existing, Enrolls, MintEnrollmentToken,
       TokenExpires, files, history

LEMMA EnrollReadInv ==
    ASSUME IInv, TypeOK', NEW k \in Command, NEW m \in Machine, NEW t \in Token,
           NEW kind \in {"agent", "central"}, EnrollRead(k, m, t, kind)
    PROVE  IInv'
<1>1. /\ UNCHANGED <<host, token, cred, admin, raced>>
      /\ token[t] = "valid" /\ host[IdentityOf[m]] # "DECOMMISSIONED"
      /\ cmd'[k].pc = "checked" /\ cmd'[k].tok = t /\ cmd'[k].on = m
      /\ cmd'[k].before = Existing
      /\ \A n \in Command \ {k} : cmd'[n] = cmd[n]
  BY DEF EnrollRead, Enrollable, IInv, TypeOK, registry, history
<1>2. \A c \in Existing : cred[c].tok # t
  BY <1>1 DEF IInv, References
<1>e. Existing' = Existing
  BY <1>1 DEF Existing
<1>3. References'
  BY <1>1, <1>e DEF IInv, References
<1>4. TokenStillUnspent'
  BY <1>1, <1>2 DEF IInv, TokenStillUnspent
<1>5. TombstoneIsClosed'
  BY <1>1 DEF IInv, TombstoneIsClosed, Enrolls
<1> QED
  BY <1>1, <1>e, <1>3, <1>4, <1>5 DEF IInv, OneActiveCredential, CredentialsHaveHosts,
       TokenReplayRefused, DecommissionSeesAll, TombstoneHoldsNoCredential, Active

LEMMA EnrollCommitInv ==
    ASSUME IInv, TypeOK', NEW k \in Command, NEW c \in Cred, EnrollCommit(k, c)
    PROVE  IInv'
<1> DEFINE m == cmd[k].on
           h == IdentityOf[m]
           t == cmd[k].tok
<1>1. /\ h \in Host /\ t \in Token
      /\ cmd[k].pc = "checked" /\ cred[c].st = "none"
      /\ TypeOK
  BY IdentityAssumption DEF EnrollCommit, Fresh, IInv, References, TypeOK
<1>2. /\ cred'[c].st = "active" /\ cred'[c].host = h
      /\ cred'[c].tok = t /\ cred'[c].before = cmd[k].before
  BY DEF EnrollCommit
<1>3. ASSUME NEW d \in Cred \ {c}
      PROVE  /\ cred'[d].host = cred[d].host /\ cred'[d].tok = cred[d].tok
             /\ cred'[d].before = cred[d].before
             /\ cred'[d].st = IF d \in Active(h) THEN "revoked" ELSE cred[d].st
  <2>1. cred'[d] = IF d \in Active(h) THEN [cred[d] EXCEPT !.st = "revoked"] ELSE cred[d]
    BY DEF EnrollCommit, Replaced
  <2>2. cred[d] \in Credential
    BY <1>1 DEF TypeOK
  <2> QED
    BY <2>1, <2>2 DEF Credential
<1>4. token' = [token EXCEPT ![t] = "consumed"] /\ token'[t] = "consumed"
  BY <1>1 DEF EnrollCommit, TypeOK
<1>5. /\ cmd'[k].pc = "issued" /\ cmd'[k].before = cmd[k].before
      /\ \A n \in Command \ {k} : cmd'[n] = cmd[n]
  BY <1>1 DEF EnrollCommit, TypeOK, CmdState
<1>6. ASSUME NEW a \in Admin
      PROVE  /\ admin'[a].pc = admin[a].pc /\ admin'[a].host = admin[a].host
             /\ admin'[a].saw = admin[a].saw
             /\ admin'[a].raced <=> (admin[a].raced \/ admin[a].host = h)
  <2>1. admin'[a] = [admin[a] EXCEPT !.raced = admin[a].raced \/ admin[a].host = h]
    BY DEF EnrollCommit
  <2>2. admin[a] \in AdminState
    BY <1>1 DEF TypeOK
  <2> QED
    BY <2>1, <2>2 DEF AdminState
<1>7. /\ host'[h] # "none" /\ (host[h] = "none" => host'[h] = "ACTIVE")
      /\ (host[h] # "none" => host'[h] = host[h])
      /\ \A g \in Host \ {h} : host'[g] = host[g]
      /\ raced' = raced
  <2>1. RowWritten(h, cmd[k].known) /\ raced' = raced
    BY DEF EnrollCommit, history
  <2>2. host \in [Host -> Life]
    BY <1>1 DEF TypeOK
  <2> HIDE DEF h
  <2> QED
    BY <1>1, <2>1, <2>2, RowTypes
<1>8. ~(host[h] = "DECOMMISSIONED" /\ ~raced[h])
  BY <1>1 DEF IInv, TombstoneIsClosed, Enrolls
<1>o. ASSUME NEW d \in Cred, d # c
      PROVE  /\ cred'[d].st # "none" <=> cred[d].st # "none"
             /\ cred'[d].st \in {"active", "revoked"} => cred[d].st \in {"active", "revoked"}
             /\ cred'[d].st = "active" <=> (cred[d].st = "active" /\ cred[d].host # h)
             /\ cred'[d].host = cred[d].host /\ cred'[d].tok = cred[d].tok
             /\ cred'[d].before = cred[d].before
  <2>1. cred'[d].st = IF d \in Active(h) THEN "revoked" ELSE cred[d].st
    BY <1>3, <1>o
  <2>2. d \in Active(h) <=> cred[d].st = "active" /\ cred[d].host = h
    BY DEF Active
  <2> HIDE DEF h
  <2> QED
    BY <1>3, <1>o, <2>1, <2>2
<1> HIDE DEF m, h, t
<1>e. Existing' = Existing \cup {c} /\ c \notin Existing /\ Existing \subseteq Cred
  <2>1. \A d \in Cred : cred'[d].st # "none" <=> d = c \/ cred[d].st # "none"
    BY <1>2, <1>o
  <2> QED
    BY <1>1, <2>1 DEF Existing
<1>9. \A g \in Host \ {h} : Active(g)' = Active(g)
  <2> SUFFICES ASSUME NEW g \in Host, g # h PROVE Active(g)' = Active(g)
    OBVIOUS
  <2>1. \A d \in Cred : cred'[d].st = "active" /\ cred'[d].host = g
                       <=> cred[d].st = "active" /\ cred[d].host = g
    BY <1>1, <1>2, <1>o
  <2> QED
    BY <2>1 DEF Active
<1>b. /\ \A n \in Command : cmd[n].before \subseteq Existing
      /\ \A d \in Existing : cred[d].before \subseteq Existing
  BY DEF IInv, References
<1>10. References'
  <2>1. \A d \in Existing' :
           cred'[d].host \in Host /\ cred'[d].tok \in Token
           /\ token'[cred'[d].tok] = "consumed"
           /\ cred'[d].before \subseteq Existing'
    <3>1. ASSUME NEW d \in Existing
          PROVE  cred'[d].host \in Host /\ cred'[d].tok \in Token
                 /\ token'[cred'[d].tok] = "consumed"
                 /\ cred'[d].before \subseteq Existing'
      BY <1>1, <1>e, <1>b, <1>o, <1>4 DEF IInv, References, TypeOK
    <3> QED
      BY <1>1, <1>2, <1>4, <1>b, <1>e, <3>1
  <2>2. \A n \in Command : /\ cmd'[n].pc = "checked" => cmd'[n].tok \in Token
                           /\ cmd'[n].before \subseteq Existing'
    BY <1>5, <1>b, <1>e DEF IInv, References
  <2>3. \A a \in Admin : admin'[a].pc # "idle" => admin'[a].host \in Host
    BY <1>6 DEF IInv, References
  <2>4. \A a \in Admin : \A d \in admin'[a].saw : cred'[d].st # "none"
    <3>1. \A a \in Admin : admin[a].saw \subseteq Cred
      BY <1>1 DEF TypeOK, AdminState
    <3> QED
      BY <1>2, <1>o, <1>6, <3>1 DEF IInv, References
  <2> QED
    BY <2>1, <2>2, <2>3, <2>4 DEF References
<1>11. OneActiveCredential'
  BY <1>2, <1>o DEF IInv, OneActiveCredential
<1>12. CredentialsHaveHosts'
  BY <1>2, <1>o, <1>7 DEF IInv, CredentialsHaveHosts, References, Existing
<1>13. TokenStillUnspent'
  <2>1. ASSUME NEW n \in Command, cmd'[n].pc = "checked", NEW d \in cmd'[n].before
        PROVE  cred'[d].tok # cmd'[n].tok
    <3>1. n # k /\ cmd'[n] = cmd[n] BY <1>5, <2>1
    <3>2. d \in Existing /\ d \in Cred /\ d # c BY <1>b, <1>e, <2>1, <3>1
    <3> QED
      BY <1>o, <2>1, <3>1, <3>2 DEF IInv, TokenStillUnspent
  <2> QED
    BY <2>1 DEF TokenStillUnspent
<1>14. TokenReplayRefused'
  <2>1. \A d \in cmd[k].before : cred[d].tok # t
    BY <1>1 DEF IInv, TokenStillUnspent, t
  <2>2. ASSUME NEW d \in Existing', NEW e \in Existing', cred'[d].tok = cred'[e].tok,
               e \in cred'[d].before
        PROVE  FALSE
    <3>1. CASE d = c
      <4>1. e \in cmd[k].before /\ e \in Existing /\ e # c /\ e \in Cred
        BY <1>2, <1>b, <1>e, <2>2, <3>1
      <4> QED
        BY <1>2, <1>o, <2>1, <2>2, <3>1, <4>1
    <3>2. CASE d # c
      <4>1. d \in Existing /\ d \in Cred /\ cred'[d].before = cred[d].before
        BY <1>e, <1>o, <2>2, <3>2
      <4>2. e \in cred[d].before /\ e \in Existing /\ e # c /\ e \in Cred
        BY <1>b, <1>e, <2>2, <4>1
      <4> QED
        BY <1>o, <2>2, <3>2, <4>1, <4>2 DEF IInv, TokenReplayRefused
    <3> QED
      BY <3>1, <3>2
  <2> QED
    BY <2>2 DEF TokenReplayRefused
<1>15. DecommissionSeesAll'
  BY <1>6, <1>9 DEF IInv, DecommissionSeesAll, References
<1>16. TombstoneIsClosed' /\ TombstoneHoldsNoCredential'
  <2>1. \A n \in Command, g \in Host : Enrolls(n, g)' => Enrolls(n, g)
    BY <1>5 DEF Enrolls
  <2> QED
    BY <2>1, <1>7, <1>8, <1>9 DEF IInv, TombstoneIsClosed, TombstoneHoldsNoCredential
<1> QED
  BY <1>10, <1>11, <1>12, <1>13, <1>14, <1>15, <1>16 DEF IInv

LEMMA EnrollInv ==
    ASSUME IInv, TypeOK', NEW k \in Command, EnrollStep(k)
    PROVE  IInv'
<1>t. cmd \in [Command -> CmdState] /\ cmd[k] \in CmdState
  BY DEF IInv, TypeOK
<1>1. CASE EnrollFails(k) \/ StoreFirst(k) \/ StoreSecond(k) \/ EnrollDies(k)
  <2>1. /\ [cmd[k] EXCEPT !.pc = "second"].pc = "second"
        /\ [cmd[k] EXCEPT !.pc = "second"].before = cmd[k].before
        /\ IdleCmd.pc = "idle" /\ IdleCmd.before = {}
    BY <1>t DEF CmdState, IdleCmd
  <2>2. \E x : /\ cmd' = [cmd EXCEPT ![k] = x]
               /\ x.pc # "checked" /\ x.before \subseteq cmd[k].before
    BY <1>1, <2>1 DEF EnrollFails, StoreFirst, StoreSecond, EnrollDies
  <2>3. UNCHANGED <<host, token, cred, admin, raced>>
    BY <1>1 DEF EnrollFails, StoreFirst, StoreSecond, EnrollDies, registry, history
  <2>4. Apart
    BY <1>t, <2>2, <2>3 DEF Apart
  <2> QED
    BY <2>4, ApartInv
<1> QED
  BY <1>1, EnrollReadInv, EnrollCommitInv DEF EnrollStep

LEMMA MachineInv ==
    ASSUME IInv, TypeOK', NEW m \in Machine, MachineStep(m)
    PROVE  IInv'
<1>1. Apart
  BY DEF MachineStep, BeginHeal, SaveHealed, DaemonStart, DaemonStop, Apart, registry,
         history
<1> QED
  BY <1>1, ApartInv

LEMMA HeartbeatInv ==
    ASSUME IInv, TypeOK', NEW m \in Machine, HeartbeatStep(m)
    PROVE  IInv'
<1>1. CASE HeartbeatAuth(m) \/ HeartbeatRead(m) \/ HeartbeatFails(m)
  <2>1. Apart
    BY <1>1 DEF HeartbeatAuth, HeartbeatRead, HeartbeatFails, Apart, registry, files, history
  <2> QED
    BY <2>1, ApartInv
<1>2. CASE HeartbeatWrite(m)
  <2>1. \A g \in Host :
           /\ host[g] # "none" => host'[g] = host[g]
           /\ host[g] = "none" => host'[g] \in {"none", "ACTIVE"}
    BY <1>2, IdentityAssumption, RowTypes DEF HeartbeatWrite, IInv, TypeOK
  <2>2. UNCHANGED <<token, cred, admin, cmd, raced>>
    BY <1>2 DEF HeartbeatWrite, history
  <2>3. CredentialsHaveHosts'
    BY <2>1, <2>2 DEF IInv, CredentialsHaveHosts, References, Existing
  <2> QED
    BY <2>1, <2>2, <2>3 DEF IInv, References, OneActiveCredential, TokenStillUnspent,
         TokenReplayRefused, DecommissionSeesAll, TombstoneIsClosed,
         TombstoneHoldsNoCredential, Active, Existing, Enrolls
<1> QED
  BY <1>1, <1>2 DEF HeartbeatStep

(* What changes when an administrator's request takes a step that leaves   *)
(* credentials and hosts alone.                                            *)
LEMMA AdminReadInv ==
    ASSUME IInv, TypeOK', NEW a \in Admin, NEW x \in AdminState,
           admin' = [admin EXCEPT ![a] = x],
           x.pc # "idle" => x.host \in Host,
           \A c \in x.saw : cred[c].st # "none",
           x.pc = "decommission" => Active(x.host) \subseteq x.saw,
           UNCHANGED <<registry, cmd, hb, files, history>>
    PROVE  IInv'
<1>1. /\ admin'[a] = x /\ \A b \in Admin \ {a} : admin'[b] = admin[b]
      /\ UNCHANGED <<host, token, cred, cmd, raced>>
  BY DEF IInv, TypeOK, registry, history
<1>2. References' /\ DecommissionSeesAll'
  BY <1>1 DEF IInv, References, DecommissionSeesAll, Active, Existing
<1> QED
  BY <1>1, <1>2 DEF IInv, OneActiveCredential, CredentialsHaveHosts, TokenStillUnspent,
         TokenReplayRefused, TombstoneIsClosed, TombstoneHoldsNoCredential, Active,
         Existing, Enrolls

(* A request that commits has ended, and credentials it has read have got  *)
(* status s.                                                               *)
Ending(a, gone, s) ==
    /\ admin' = [admin EXCEPT ![a] = IdleAdmin]
    /\ cred' = [c \in Cred |-> IF c \in gone THEN [cred[c] EXCEPT !.st = s] ELSE cred[c]]
    /\ gone \subseteq admin[a].saw
    /\ UNCHANGED <<token, cmd>>

Marked(a, gone, s) ==
    /\ \A c \in Cred : /\ cred'[c].host = cred[c].host
                       /\ cred'[c].tok = cred[c].tok
                       /\ cred'[c].by = cred[c].by
                       /\ cred'[c].before = cred[c].before
                       /\ cred'[c].st = IF c \in gone THEN s ELSE cred[c].st
    /\ Existing' = Existing
    /\ \A h : Active(h)' = Active(h) \ gone

LEMMA EndingMarks ==
    ASSUME IInv, NEW a \in Admin, NEW gone, NEW s \in {"revoked", "purged"},
           Ending(a, gone, s)
    PROVE  Marked(a, gone, s)
<1>1. \A c \in Cred : cred[c] \in Credential
  BY DEF IInv, TypeOK
<1>2. \A c \in Cred : /\ cred'[c].host = cred[c].host
                      /\ cred'[c].tok = cred[c].tok
                      /\ cred'[c].by = cred[c].by
                      /\ cred'[c].before = cred[c].before
                      /\ cred'[c].st = IF c \in gone THEN s ELSE cred[c].st
  BY <1>1 DEF Ending, Credential
<1>3. Existing' = Existing
  <2>1. \A c \in Cred : cred'[c].st # "none" <=> cred[c].st # "none"
    BY <1>2 DEF Ending, IInv, References
  <2> QED
    BY <2>1 DEF Existing
<1>4. \A h : Active(h)' = Active(h) \ gone
  BY <1>2 DEF Active
<1> QED
  BY <1>2, <1>3, <1>4 DEF Marked

(* The parts such a step keeps whatever it does to the hosts.              *)
LEMMA EndingInv ==
    ASSUME IInv, NEW a \in Admin, NEW gone, NEW s \in {"revoked", "purged"},
           Ending(a, gone, s)
    PROVE  /\ References' /\ OneActiveCredential'
           /\ TokenStillUnspent' /\ TokenReplayRefused' /\ DecommissionSeesAll'
<1>0. Marked(a, gone, s)
  BY EndingMarks
<1>1. UNCHANGED <<token, cmd>>
  BY DEF Ending
<1>2. /\ admin'[a].pc = "idle" /\ admin'[a].saw = {}
      /\ \A b \in Admin \ {a} : admin'[b] = admin[b]
  BY IdleTyped DEF Ending, IInv, TypeOK
<1>3. \A c \in Cred : cred[c].st # "none" => cred'[c].st # "none"
  BY <1>0 DEF Marked, Existing
<1>4. \A b \in Admin : admin[b].saw \subseteq Cred
  BY DEF IInv, TypeOK, AdminState
<1>5. References'
  <2>1. \A c \in Existing : c \in Cred BY DEF Existing
  <2> QED
    BY <1>0, <1>1, <1>2, <1>3, <1>4, <2>1 DEF IInv, References, Marked
<1>6. OneActiveCredential' /\ TokenStillUnspent' /\ TokenReplayRefused'
  <2>1. OneActiveCredential'
    BY <1>0 DEF IInv, OneActiveCredential, Marked
  <2>2. \A c \in Existing : c \in Cred BY DEF Existing
  <2>3. TokenStillUnspent'
    BY <1>0, <1>1, <2>2 DEF IInv, References, TokenStillUnspent, Marked
  <2>4. TokenReplayRefused'
    BY <1>0, <2>2 DEF IInv, TokenReplayRefused, Marked
  <2> QED
    BY <2>1, <2>3, <2>4
<1>7. DecommissionSeesAll'
  BY <1>0, <1>2 DEF IInv, DecommissionSeesAll, Marked
<1> QED
  BY <1>5, <1>6, <1>7

LEMMA DecommissionInv ==
    ASSUME IInv, TypeOK', NEW a \in Admin, DecommissionCommit(a)
    PROVE  IInv'
<1> DEFINE h == admin[a].host
           gone == admin[a].saw
<1>1. Ending(a, gone, "revoked")
  BY DEF DecommissionCommit, RevokedBy, Ending
<1>2. Marked(a, gone, "revoked")
  BY <1>1, EndingMarks
<1>3. /\ h \in Host /\ host[h] # "none"
      /\ host'[h] = "DECOMMISSIONED"
      /\ \A g \in Host \ {h} : host'[g] = host[g] /\ raced'[g] = raced[g]
      /\ cmd' = cmd
  BY DEF DecommissionCommit, IInv, References, TypeOK
<1>4. ~raced'[h] => /\ Active(h) \subseteq gone
                    /\ \A k \in Command : ~Enrolls(k, h)
  <2>1. raced'[h] <=> admin[a].raced \/ \E k \in Command : Enrolls(k, h)
    BY <1>3 DEF DecommissionCommit, IInv, TypeOK
  <2> QED
    BY <2>1 DEF DecommissionCommit, IInv, DecommissionSeesAll
<1> HIDE DEF h, gone
<1>5. TombstoneIsClosed'
  <2>1. \A k \in Command, g \in Host : Enrolls(k, g)' <=> Enrolls(k, g)
    BY <1>3 DEF Enrolls
  <2> QED
    BY <1>3, <1>4, <2>1 DEF IInv, TombstoneIsClosed
<1>6. TombstoneHoldsNoCredential'
  BY <1>2, <1>3, <1>4 DEF IInv, TombstoneHoldsNoCredential, Marked
<1>7. CredentialsHaveHosts'
  <2>1. \A c \in Cred : cred'[c].st \in {"active", "revoked"} =>
           cred[c].st \in {"active", "revoked"}
    <3>1. \A c \in gone : cred[c].st \notin {"none", "purged"}
      BY DEF DecommissionCommit, gone, IInv, References
    <3>2. \A c \in Cred : cred[c].st \in {"none", "active", "revoked", "purged"}
      BY DEF IInv, TypeOK, Credential
    <3> QED
      BY <1>2, <3>1, <3>2 DEF Marked
  <2> QED
    BY <1>2, <1>3, <2>1 DEF IInv, CredentialsHaveHosts, References, Marked, Existing
<1> QED
  BY <1>1, <1>5, <1>6, <1>7, EndingInv DEF IInv

LEMMA PurgeInv ==
    ASSUME IInv, TypeOK', NEW a \in Admin, PurgeCommit(a)
    PROVE  IInv'
<1> DEFINE h == admin[a].host
           gone == admin[a].saw
<1>1. Ending(a, gone, "purged")
  BY DEF PurgeCommit, Ending
<1>2. Marked(a, gone, "purged")
  BY <1>1, EndingMarks
<1>3. /\ h \in Host
      /\ host'[h] = "none"
      /\ \A g \in Host \ {h} : host'[g] = host[g]
      /\ UNCHANGED <<cmd, raced>>
      /\ Rows(h) \subseteq gone
  BY DEF PurgeCommit, Unreferenced, IInv, References, TypeOK, history
<1> HIDE DEF h, gone
<1>4. TombstoneIsClosed' /\ TombstoneHoldsNoCredential'
  BY <1>2, <1>3 DEF IInv, TombstoneIsClosed, TombstoneHoldsNoCredential, Marked, Enrolls
<1>5. CredentialsHaveHosts'
  <2> SUFFICES ASSUME NEW c \in Cred, cred'[c].st \in {"active", "revoked"}
               PROVE  host'[cred'[c].host] # "none"
    BY DEF CredentialsHaveHosts
  <2>1. /\ c \notin gone /\ cred[c].st \in {"active", "revoked"}
        /\ cred'[c].host = cred[c].host
    BY <1>2 DEF Marked
  <2>2. cred[c].host # h
    BY <1>3, <2>1 DEF Rows
  <2>3. cred[c].host \in Host /\ host[cred[c].host] # "none"
    BY <2>1 DEF IInv, CredentialsHaveHosts, References, Existing
  <2> QED
    BY <1>3, <2>1, <2>2, <2>3
<1> QED
  BY <1>1, <1>4, <1>5, EndingInv DEF IInv

LEMMA ReactivateInv ==
    ASSUME IInv, TypeOK', NEW a \in Admin, ReactivateCommit(a)
    PROVE  IInv'
<1>1. /\ admin[a].host \in Host
      /\ host'[admin[a].host] = "ACTIVE"
      /\ \A g \in Host \ {admin[a].host} : host'[g] = host[g]
      /\ UNCHANGED <<token, cred, cmd, raced>>
  BY DEF ReactivateCommit, IInv, References, TypeOK, history
<1>2. /\ admin'[a].pc = "idle" /\ admin'[a].saw = {}
      /\ \A b \in Admin \ {a} : admin'[b] = admin[b]
  BY IdleTyped DEF ReactivateCommit, IInv, TypeOK
<1>3. References' /\ DecommissionSeesAll'
  BY <1>1, <1>2 DEF IInv, References, DecommissionSeesAll, Active, Existing
<1>4. CredentialsHaveHosts'
  BY <1>1 DEF IInv, CredentialsHaveHosts, References, Existing
<1> QED
  BY <1>1, <1>3, <1>4 DEF IInv, OneActiveCredential, TokenStillUnspent,
       TokenReplayRefused, TombstoneIsClosed, TombstoneHoldsNoCredential, Active,
       Existing, Enrolls

LEMMA AdminInv ==
    ASSUME IInv, TypeOK', NEW a \in Admin, AdminStep(a)
    PROVE  IInv'
<1>1. ASSUME NEW h \in Host,
             DecommissionRead(a, h) \/ ReactivateRead(a, h) \/ PurgeRows(a, h)
      PROVE  IInv'
  <2>1. \A p \in {"decommission", "reactivate", "purge"}, s \in SUBSET Cred :
           [pc |-> p, host |-> h, saw |-> s, raced |-> FALSE] \in AdminState
    BY DEF AdminState
  <2>2. /\ Active(h) \in SUBSET Cred /\ Rows(h) \in SUBSET Cred /\ {} \in SUBSET Cred
        /\ \A c \in Active(h) \cup Rows(h) : cred[c].st # "none"
    BY DEF Active, Rows
  <2>3. PICK x \in AdminState :
           /\ admin' = [admin EXCEPT ![a] = x]
           /\ x.host = h /\ \A c \in x.saw : cred[c].st # "none"
           /\ x.pc = "decommission" => x.saw = Active(h)
    BY <1>1, <2>1, <2>2 DEF DecommissionRead, ReactivateRead, PurgeRows
  <2>4. UNCHANGED <<registry, cmd, hb, files, history>>
    BY <1>1 DEF DecommissionRead, ReactivateRead, PurgeRows
  <2> QED
    BY <2>3, <2>4, AdminReadInv
<1>2. CASE AdminFails(a)
  BY <1>2, IdleTyped, AdminReadInv DEF AdminFails
<1> QED
  BY <1>1, <1>2, DecommissionInv, ReactivateInv, PurgeInv DEF AdminStep

LEMMA StepInv == IInv /\ [Next]_vars => IInv'
<1> SUFFICES ASSUME IInv, [Next]_vars PROVE IInv'
  OBVIOUS
<1>1. TypeOK'
  BY StepTypes DEF IInv
<1>2. CASE UNCHANGED vars
  <2>1. Apart
    BY <1>2 DEF vars, Apart
  <2> QED
    BY <1>1, <2>1, ApartInv
<1> QED
  BY <1>1, <1>2, TokenInv, EnrollInv, MachineInv, HeartbeatInv, AdminInv DEF Next

-----------------------------------------------------------------------------
(* What follows.                                                           *)

LEMMA Invariance == Spec => []IInv
<1> QED
  BY InitInv, StepInv, PTL DEF Spec

(* Every variable keeps its type.                                          *)
THEOREM Types == Spec => []TypeOK
<1>1. IInv => TypeOK
  BY DEF IInv
<1> QED
  BY <1>1, Invariance, PTL

(* However enrollments, decommissions and purges overlap, a host never has *)
(* two active credentials (replace_credential_for_host revokes what it     *)
(* finds once the row is locked).                                          *)
THEOREM AtMostOneActive == Spec => []OneActiveCredential
<1>1. IInv => OneActiveCredential
  BY DEF IInv
<1> QED
  BY <1>1, Invariance, PTL

(* No credential outlives its host row, though Remove Record deletes the   *)
(* credentials before it reaches the host.                                 *)
THEOREM NoOrphanCredential == Spec => []CredentialsHaveHosts
<1>1. IInv => CredentialsHaveHosts
  BY DEF IInv
<1> QED
  BY <1>1, Invariance, PTL

(* A token brings a second credential only to requests that were at        *)
(* Central together: one that begins after the first has committed is      *)
(* refused, whichever command repeats it (enroll_host's check and          *)
(* consume_enrollment_token).                                              *)
THEOREM ReplayIsRefused == Spec => []TokenReplayRefused
<1>1. IInv => TokenReplayRefused
  BY DEF IInv
<1> QED
  BY <1>1, Invariance, PTL

(* A decommission that no enrollment overlapped leaves no active           *)
(* credential, and none appears until the host is reactivated.             *)
THEOREM TombstonesAreEmpty == Spec => []TombstoneHoldsNoCredential
<1>1. IInv => TombstoneHoldsNoCredential
  BY DEF IInv
<1> QED
  BY <1>1, Invariance, PTL

(* The update of a host row does not touch its lifecycle state, so no      *)
(* enrollment or heartbeat in progress ends a decommission.                *)
StandsIn(h) ==
    host[h] = "DECOMMISSIONED" =>
          \/ host'[h] = "DECOMMISSIONED"
          \/ host'[h] = "ACTIVE" /\ \E a \in Admin : Ends(a, h, "reactivate")
          \/ host'[h] = "none" /\ \E a \in Admin : Ends(a, h, "purge")

LEMMA StepStands ==
    ASSUME TypeOK, [Next]_vars, NEW h \in Host
    PROVE  StandsIn(h)
<1> SUFFICES ASSUME host[h] = "DECOMMISSIONED"
             PROVE  \/ host'[h] = "DECOMMISSIONED"
                    \/ host'[h] = "ACTIVE" /\ \E a \in Admin : Ends(a, h, "reactivate")
                    \/ host'[h] = "none" /\ \E a \in Admin : Ends(a, h, "purge")
  BY DEF StandsIn
<1>t. host \in [Host -> Life]
  BY DEF TypeOK
<1>0. CASE UNCHANGED host
  BY <1>0
<1>1. ASSUME NEW k \in Command, NEW c \in Cred, EnrollCommit(k, c)
      PROVE  host'[h] = "DECOMMISSIONED"
  BY <1>1, <1>t DEF EnrollCommit, RowWritten
<1>2. ASSUME NEW m \in Machine, HeartbeatWrite(m)
      PROVE  host'[h] = "DECOMMISSIONED"
  BY <1>2, <1>t DEF HeartbeatWrite, RowWritten
<1>3. ASSUME NEW a \in Admin, DecommissionCommit(a)
      PROVE  host'[h] = "DECOMMISSIONED"
  BY <1>3, <1>t DEF DecommissionCommit
<1>4. ASSUME NEW a \in Admin, ReactivateCommit(a)
      PROVE  host'[h] = "DECOMMISSIONED" \/ (host'[h] = "ACTIVE" /\ Ends(a, h, "reactivate"))
  BY <1>4, <1>t DEF ReactivateCommit, Ends
<1>5. ASSUME NEW a \in Admin, PurgeCommit(a)
      PROVE  host'[h] = "DECOMMISSIONED" \/ (host'[h] = "none" /\ Ends(a, h, "purge"))
  BY <1>5, <1>t DEF PurgeCommit, Ends
<1>6. CASE \E t \in Token : MintEnrollmentToken(t) \/ TokenExpires(t)
  BY <1>0, <1>6 DEF MintEnrollmentToken, TokenExpires
<1>7. /\ \A k \in Command : EnrollStep(k) => host'[h] = "DECOMMISSIONED"
      /\ \A m \in Machine : MachineStep(m) \/ HeartbeatStep(m)
                             => host'[h] = "DECOMMISSIONED"
  BY <1>0, <1>1, <1>2
     DEF EnrollStep, MachineStep, HeartbeatStep, EnrollRead, EnrollFails, StoreFirst,
         StoreSecond, EnrollDies, BeginHeal, SaveHealed, DaemonStart, DaemonStop,
         HeartbeatAuth, HeartbeatRead, HeartbeatFails, registry
<1>8. CASE \E a \in Admin : AdminStep(a)
  BY <1>0, <1>3, <1>4, <1>5, <1>8
     DEF AdminStep, DecommissionRead, ReactivateRead, PurgeRows, AdminFails, registry
<1>9. CASE UNCHANGED vars
  BY <1>0, <1>9 DEF vars
<1> QED
  BY <1>6, <1>7, <1>8, <1>9 DEF Next

THEOREM DecommissionsStand == Spec => DecommissionStands
<1>1. TypeOK /\ [Next]_vars =>
        [\A h \in Host : host[h] = "DECOMMISSIONED" =>
            \/ host'[h] = "DECOMMISSIONED"
            \/ host'[h] = "ACTIVE" /\ \E a \in Admin : Ends(a, h, "reactivate")
            \/ host'[h] = "none" /\ \E a \in Admin : Ends(a, h, "purge")]_vars
  BY StepStands DEF StandsIn
<1> QED
  BY <1>1, Types, PTL DEF Spec, DecommissionStands

-----------------------------------------------------------------------------
(* The newest credential of a machine.                                     *)

(* Credentials are issued in the order of their numbers; what an enroll    *)
(* command has received was issued to its machine; and credentials.json    *)
(* has the machine's newest one, unless a command has still to save it or  *)
(* it is lost.  (A command or a heal that saves an older one over it       *)
(* counts as a loss.)                                                      *)
IssuedInOrder ==
    \A c, d \in Cred : cred[c].st # "none" /\ d <= c => cred[d].st # "none"

Newest(m, c) == c \in Issued(m) /\ \A d \in Issued(m) : d <= c

(* Command k of machine m has still to write c to credentials.json.        *)
Awaits(k, m, c) ==
    /\ cmd[k].on = m /\ cmd[k].cred = c
    /\ cmd[k].pc = "issued" \/ (cmd[k].pc = "second" /\ cmd[k].kind = "central")

Held == \A k \in Command : cmd[k].pc \in {"issued", "second"} =>
            cmd[k].cred \in Existing /\ cred[cmd[k].cred].by = cmd[k].on

StoredAt(m) ==
    \A c \in Cred : Newest(m, c) /\ c \notin dropped
                    /\ (\A k \in Command : ~Awaits(k, m, c)) => credFile[m] = c

NewestStored == IssuedInOrder /\ Held /\ \A m \in Machine : StoredAt(m)

(* Nothing but an enrollment's commit issues a credential.                 *)
NoneIssued == \A c \in Cred : /\ cred'[c].by = cred[c].by
                              /\ cred'[c].st = "none" <=> cred[c].st = "none"

LEMMA NoneIssuedKeeps ==
    ASSUME NoneIssued
    PROVE  /\ IssuedInOrder => IssuedInOrder'
           /\ \A m : Issued(m)' = Issued(m)
           /\ \A m, c : Newest(m, c)' <=> Newest(m, c)
<1>1. \A m : Issued(m)' = Issued(m)
  BY DEF NoneIssued, Issued, Existing
<1>2. \A m, c : Newest(m, c)' <=> Newest(m, c)
  BY <1>1 DEF Newest
<1> QED
  BY <1>1, <1>2 DEF NoneIssued, IssuedInOrder

LEMMA OnlyEnrollIssues ==
    ASSUME IInv, [Next]_vars, ~\E k \in Command, c \in Cred : EnrollCommit(k, c)
    PROVE  NoneIssued
<1>1. CASE UNCHANGED cred
  BY <1>1 DEF NoneIssued
<1>2. ASSUME NEW a \in Admin, NEW s \in {"revoked", "purged"},
             Ending(a, admin[a].saw, s)
      PROVE  NoneIssued
  <2>1. Marked(a, admin[a].saw, s)
    BY <1>2, EndingMarks
  <2>2. \A c \in admin[a].saw : cred[c].st # "none"
    BY DEF IInv, References
  <2> QED
    BY <2>1, <2>2 DEF Marked, NoneIssued
<1>3. ASSUME NEW a \in Admin, AdminStep(a) PROVE NoneIssued
  <2>1. DecommissionCommit(a) => Ending(a, admin[a].saw, "revoked")
    BY DEF DecommissionCommit, RevokedBy, Ending
  <2>2. PurgeCommit(a) => Ending(a, admin[a].saw, "purged")
    BY DEF PurgeCommit, Ending
  <2> QED
    BY <1>1, <1>2, <1>3, <2>1, <2>2
       DEF AdminStep, DecommissionRead, ReactivateRead, ReactivateCommit, PurgeRows,
           AdminFails, registry
<1>4. ASSUME NEW k \in Command, EnrollStep(k) PROVE UNCHANGED cred
  BY <1>4 DEF EnrollStep, EnrollRead, EnrollFails, StoreFirst, StoreSecond, EnrollDies,
              registry
<1>5. ASSUME NEW m \in Machine, MachineStep(m) \/ HeartbeatStep(m) PROVE UNCHANGED cred
  BY <1>5 DEF MachineStep, HeartbeatStep, BeginHeal, SaveHealed, DaemonStart, DaemonStop,
              HeartbeatAuth, HeartbeatRead, HeartbeatWrite, HeartbeatFails, registry
<1> QED
  BY <1>1, <1>3, <1>4, <1>5 DEF Next, vars, MintEnrollmentToken, TokenExpires

(* A machine whose file stays keeps its newest credential, if no command   *)
(* that has still to save it gives up without its being lost.              *)
LEMMA FileStays ==
    ASSUME NEW m, StoredAt(m), credFile'[m] = credFile[m], dropped \subseteq dropped',
           \A c : Newest(m, c)' <=> Newest(m, c),
           \A k \in Command, c \in Cred : Awaits(k, m, c) => Awaits(k, m, c)' \/ c \in dropped'
    PROVE  StoredAt(m)'
BY DEF StoredAt

LEMMA EnrollCommitStored ==
    ASSUME IInv, NewestStored, NEW k \in Command, NEW c \in Cred, EnrollCommit(k, c)
    PROVE  NewestStored'
<1> PICK m \in Machine : m = cmd[k].on
  BY DEF EnrollCommit, IInv, TypeOK
<1>0. Cred \subseteq Nat
  BY CredAssumption
<1>1. /\ cred'[c].st = "active" /\ cred'[c].by = m
      /\ \A d \in Cred \ {c} : /\ cred'[d].by = cred[d].by
                               /\ cred'[d].st = "none" <=> cred[d].st = "none"
  <2>1. \A d \in Cred : cred[d] \in Credential
    BY DEF IInv, TypeOK
  <2>2. Replaced(IdentityOf[m]) = Active(IdentityOf[m])
    BY DEF Replaced
  <2>3. /\ cred'[c] = [st |-> "active", host |-> IdentityOf[m], tok |-> cmd[k].tok,
                       by |-> m, before |-> cmd[k].before]
        /\ \A d \in Cred \ {c} :
              cred'[d] = IF d \in Replaced(IdentityOf[m])
                         THEN [cred[d] EXCEPT !.st = "revoked"] ELSE cred[d]
    BY DEF EnrollCommit
  <2>4. \A d \in Replaced(IdentityOf[m]) : cred[d].st = "active"
    BY <2>2 DEF Active
  <2>5. ASSUME NEW d \in Cred \ {c}
        PROVE  /\ cred'[d].by = cred[d].by
               /\ cred'[d].st = "none" <=> cred[d].st = "none"
    <3>1. CASE d \in Replaced(IdentityOf[m])
      <4>1. /\ [cred[d] EXCEPT !.st = "revoked"].by = cred[d].by
            /\ [cred[d] EXCEPT !.st = "revoked"].st = "revoked"
        BY <2>1 DEF Credential
      <4> QED
        BY <2>3, <2>4, <3>1, <4>1
    <3>2. CASE d \notin Replaced(IdentityOf[m])
      BY <2>3, <3>2
    <3> QED
      BY <3>1, <3>2
  <2> QED
    BY <2>3, <2>5
<1>2. cred[c].st = "none" /\ \A d \in Cred : cred[d].st = "none" => c <= d
  BY DEF EnrollCommit, Fresh
<1>3. /\ cmd[k].pc = "checked"
      /\ cmd'[k].pc = "issued" /\ cmd'[k].cred = c /\ cmd'[k].on = m
      /\ \A j \in Command \ {k} : cmd'[j] = cmd[j]
      /\ UNCHANGED <<credFile, dropped>>
  BY DEF EnrollCommit, IInv, TypeOK, CmdState, files, history
<1>4. IssuedInOrder'
  BY <1>0, <1>1, <1>2 DEF NewestStored, IssuedInOrder
<1>5. c \in Issued(m)' /\ \A d \in Existing : d \in Existing' /\ cred'[d].by = cred[d].by
  BY <1>1, <1>2 DEF Issued, Existing
<1>6. Held'
  <2>1. cmd'[k].cred \in Existing' /\ cred'[cmd'[k].cred].by = cmd'[k].on
    BY <1>1, <1>3, <1>5 DEF Issued
  <2>2. ASSUME NEW j \in Command \ {k}, cmd'[j].pc \in {"issued", "second"}
        PROVE  cmd'[j].cred \in Existing' /\ cred'[cmd'[j].cred].by = cmd'[j].on
    BY <1>3, <1>5, <2>2 DEF NewestStored, Held
  <2> QED
    BY <2>1, <2>2 DEF Held
<1>7. StoredAt(m)'
  <2>1. \A d \in Cred : cred[d].st # "none" => d <= c
    BY <1>0, <1>2 DEF NewestStored, IssuedInOrder
  <2>2. \A d \in Issued(m)' : d <= c
    BY <1>0, <1>1, <2>1 DEF Issued, Existing
  <2>3. \A d \in Cred : Newest(m, d)' => d = c
    BY <1>0, <1>5, <2>2 DEF Newest
  <2>4. Awaits(k, m, c)'
    BY <1>3 DEF Awaits
  <2> QED
    BY <2>3, <2>4 DEF StoredAt
<1>8. ASSUME NEW n \in Machine, n # m PROVE StoredAt(n)'
  <2>1. Issued(n)' = Issued(n)
    BY <1>1, <1>2, <1>8 DEF Issued, Existing
  <2>2. \A d : Newest(n, d)' <=> Newest(n, d)
    BY <2>1 DEF Newest
  <2>3. \A j \in Command, d \in Cred : Awaits(j, n, d) => Awaits(j, n, d)'
    BY <1>3 DEF Awaits
  <2> QED
    BY <1>3, <2>2, <2>3, FileStays DEF NewestStored
<1> QED
  BY <1>4, <1>6, <1>7, <1>8 DEF NewestStored

(* Saving a credential saves the newest one or loses it.                   *)
LEMMA SaveStored ==
    ASSUME IInv, NewestStored, NoneIssued, NEW k \in Command,
           cmd[k].pc \in {"issued", "second"}, SaveCredential(k),
           \A j \in Command \ {k} : cmd'[j] = cmd[j]
    PROVE  \A n \in Machine : StoredAt(n)'
<1> PICK m \in Machine : m = cmd[k].on
  BY DEF IInv, TypeOK
<1> PICK x \in Cred : x = cmd[k].cred
  BY DEF IInv, TypeOK
<1>0. Cred \subseteq Nat /\ NoCred \notin Cred
  BY CredAssumption
<1>1. /\ \A n, c : Newest(n, c)' <=> Newest(n, c)
      /\ x \in Issued(m)
  BY NoneIssuedKeeps DEF NewestStored, Held, Issued
<1>2. /\ credFile'[m] = x
      /\ \A n \in Machine \ {m} : credFile'[n] = credFile[n]
      /\ dropped \subseteq dropped'
      /\ \A d \in Cred : credFile[m] = d /\ d > x => d \in dropped'
  BY <1>0 DEF SaveCredential, IInv, TypeOK
<1>3. \A j \in Command, n \in Machine, c \in Cred :
          Awaits(j, n, c) => (n = m /\ c = x) \/ Awaits(j, n, c)'
  BY DEF Awaits
<1>4. StoredAt(m)'
  <2> SUFFICES ASSUME NEW c \in Cred, Newest(m, c), c \notin dropped',
                      \A j \in Command : ~Awaits(j, m, c)', c # x
               PROVE  FALSE
    BY <1>1, <1>2 DEF StoredAt
  <2>1. credFile[m] = c
    BY <1>0, <1>2, <1>3 DEF NewestStored, StoredAt
  <2>2. c > x
    BY <1>0, <1>1 DEF Newest
  <2> QED
    BY <1>2, <2>1, <2>2
<1>5. ASSUME NEW n \in Machine \ {m} PROVE StoredAt(n)'
  BY <1>1, <1>2, <1>3, FileStays DEF NewestStored
<1> QED
  BY <1>4, <1>5

LEMMA CommandStored ==
    ASSUME IInv, NewestStored, NoneIssued, NEW k \in Command, EnrollStep(k),
           ~\E c \in Cred : EnrollCommit(k, c)
    PROVE  Held' /\ \A n \in Machine : StoredAt(n)'
<1>t. cmd \in [Command -> CmdState]
  BY DEF IInv, TypeOK
<1>0. /\ \A n : Issued(n)' = Issued(n)
      /\ \A n, c : Newest(n, c)' <=> Newest(n, c)
      /\ Held /\ \A n \in Machine : StoredAt(n)
  BY NoneIssuedKeeps DEF NewestStored
<1>1. \A j \in Command \ {k} : cmd'[j] = cmd[j]
  BY <1>t DEF EnrollStep, EnrollRead, EnrollFails, StoreFirst, StoreSecond, EnrollDies
<1>2. ASSUME cmd'[k].pc \in {"issued", "second"} =>
               /\ cmd[k].pc \in {"issued", "second"}
               /\ cmd'[k].cred = cmd[k].cred /\ cmd'[k].on = cmd[k].on
      PROVE  Held'
  <2>1. \A c \in Existing : c \in Existing' /\ cred'[c].by = cred[c].by
    BY DEF NoneIssued, Existing
  <2>2. ASSUME NEW j \in Command, cmd'[j].pc \in {"issued", "second"}
        PROVE  cmd'[j].cred \in Existing' /\ cred'[cmd'[j].cred].by = cmd'[j].on
    BY <1>0, <1>1, <1>2, <2>1, <2>2 DEF Held
  <2> QED
    BY <2>2 DEF Held
<1>3. CASE \/ \E m \in Machine, t \in Token, kind \in {"agent", "central"} :
                 EnrollRead(k, m, t, kind)
           \/ EnrollFails(k)
  <2>1. /\ cmd[k].pc \in {"idle", "checked"} /\ cmd'[k].pc \in {"idle", "checked"}
        /\ credFile' = credFile /\ dropped' = dropped
    BY <1>3, <1>t, IdleTyped DEF EnrollRead, EnrollFails, files, history
  <2>2. \A j \in Command, n \in Machine, c \in Cred : Awaits(j, n, c) => Awaits(j, n, c)'
    BY <1>1, <2>1 DEF Awaits
  <2> QED
    BY <1>0, <1>2, <2>1, <2>2, FileStays
<1>4. CASE StoreFirst(k)
  <2>1. /\ cmd[k].pc = "issued" /\ cmd'[k].pc = "second"
        /\ cmd'[k].cred = cmd[k].cred /\ cmd'[k].on = cmd[k].on
        /\ cmd'[k].kind = cmd[k].kind
    BY <1>4, <1>t DEF StoreFirst, CmdState
  <2>2. Held'
    BY <1>2, <2>1
  <2>3. CASE cmd[k].kind = "agent"
    BY <1>1, <1>4, <2>1, <2>2, <2>3, SaveStored DEF StoreFirst
  <2>4. CASE cmd[k].kind # "agent"
    <3>1. credFile' = credFile /\ dropped' = dropped /\ cmd[k].kind = "central"
      BY <1>4, <1>t, <2>4 DEF StoreFirst, SaveCentralConfig, CmdState
    <3>2. \A j \in Command, n \in Machine, c \in Cred : Awaits(j, n, c) => Awaits(j, n, c)'
      BY <1>1, <2>1, <3>1 DEF Awaits
    <3> QED
      BY <1>0, <2>2, <3>1, <3>2, FileStays
  <2> QED
    BY <2>3, <2>4
<1>5. CASE StoreSecond(k)
  <2>1. cmd[k].pc = "second" /\ cmd'[k].pc = "idle"
    BY <1>5, <1>t, IdleTyped DEF StoreSecond
  <2>2. Held'
    BY <1>2, <2>1
  <2>3. CASE cmd[k].kind # "agent"
    BY <1>1, <1>5, <2>1, <2>2, <2>3, SaveStored DEF StoreSecond
  <2>4. CASE cmd[k].kind = "agent"
    <3>1. credFile' = credFile /\ dropped' = dropped
      BY <1>5, <2>4 DEF StoreSecond, SaveCentralConfig
    <3>2. \A j \in Command, n \in Machine, c \in Cred : Awaits(j, n, c) => Awaits(j, n, c)'
      BY <1>1, <2>1, <2>4 DEF Awaits
    <3> QED
      BY <1>0, <2>2, <3>1, <3>2, FileStays
  <2> QED
    BY <2>3, <2>4
<1>6. CASE EnrollDies(k)
  <2>1. /\ cmd[k].pc \in {"issued", "second"} /\ cmd'[k].pc = "idle"
        /\ credFile' = credFile /\ dropped \subseteq dropped'
        /\ cmd[k].pc = "issued" \/ cmd[k].kind = "central" => cmd[k].cred \in dropped'
    BY <1>6, <1>t, IdleTyped DEF EnrollDies, files
  <2>2. \A j \in Command, n \in Machine, c \in Cred :
            Awaits(j, n, c) => Awaits(j, n, c)' \/ c \in dropped'
    BY <1>1, <2>1 DEF Awaits
  <2> QED
    BY <1>0, <1>2, <2>1, <2>2, FileStays
<1> QED
  BY <1>3, <1>4, <1>5, <1>6 DEF EnrollStep

LEMMA MachineStored ==
    ASSUME IInv, NewestStored, NoneIssued, NEW m \in Machine, MachineStep(m)
    PROVE  Held' /\ \A n \in Machine : StoredAt(n)'
<1>0. /\ \A n : Issued(n)' = Issued(n)
      /\ \A n, c : Newest(n, c)' <=> Newest(n, c)
      /\ Held /\ \A n \in Machine : StoredAt(n)
  BY NoneIssuedKeeps DEF NewestStored
<1>1. cmd' = cmd /\ dropped \subseteq dropped'
  BY DEF MachineStep, BeginHeal, SaveHealed, DaemonStart, DaemonStop, history
<1>2. Held'
  BY <1>0, <1>1 DEF Held, NoneIssued, Existing
<1>3. \A j \in Command, n \in Machine, c \in Cred : Awaits(j, n, c) => Awaits(j, n, c)'
  BY <1>1 DEF Awaits
<1>4. CASE SaveHealed(m)
  <2>1. /\ credFile'[m] = heal[m]
        /\ credFile[m] \in Cred \ {heal[m]} => credFile[m] \in dropped'
        /\ \A n \in Machine \ {m} : credFile'[n] = credFile[n]
    BY <1>4 DEF SaveHealed, IInv, TypeOK
  <2>2. StoredAt(m)'
    BY <1>0, <1>1, <1>3, <2>1 DEF StoredAt
  <2> QED
    BY <1>0, <1>1, <1>2, <1>3, <2>1, <2>2, FileStays
<1>5. CASE UNCHANGED credFile
  BY <1>0, <1>1, <1>2, <1>3, <1>5, FileStays
<1> QED
  BY <1>4, <1>5 DEF MachineStep, BeginHeal, DaemonStart, DaemonStop

LEMMA StoredStep == IInv /\ NewestStored /\ [Next]_vars => NewestStored'
<1> SUFFICES ASSUME IInv, NewestStored, [Next]_vars PROVE NewestStored'
  OBVIOUS
<1>1. CASE \E k \in Command, c \in Cred : EnrollCommit(k, c)
  BY <1>1, EnrollCommitStored
<1>2. CASE ~\E k \in Command, c \in Cred : EnrollCommit(k, c)
  <2>1. NoneIssued
    BY <1>2, OnlyEnrollIssues
  <2>2. /\ IssuedInOrder'
        /\ \A n : Issued(n)' = Issued(n)
        /\ \A n, c : Newest(n, c)' <=> Newest(n, c)
    BY <2>1, NoneIssuedKeeps DEF NewestStored
  <2> DEFINE Quiet == UNCHANGED <<cmd, credFile, dropped>>
  <2>3. CASE Quiet
    <3>1. Held'
      BY <2>1, <2>3 DEF NewestStored, Held, NoneIssued, Existing
    <3>2. \A k \in Command, n \in Machine, c \in Cred : Awaits(k, n, c) => Awaits(k, n, c)'
      BY <2>3 DEF Awaits
    <3> QED
      BY <2>2, <2>3, <3>1, <3>2, FileStays DEF NewestStored
  <2>4. ASSUME NEW k \in Command, EnrollStep(k) PROVE NewestStored'
    BY <1>2, <2>1, <2>2, <2>4, CommandStored DEF NewestStored
  <2>5. ASSUME NEW m \in Machine, MachineStep(m) PROVE NewestStored'
    BY <2>1, <2>2, <2>5, MachineStored DEF NewestStored
  <2>6. ASSUME NEW m \in Machine, HeartbeatStep(m) PROVE Quiet
    BY <2>6 DEF HeartbeatStep, HeartbeatAuth, HeartbeatRead, HeartbeatWrite,
                HeartbeatFails, files, history
  <2>7. ASSUME NEW a \in Admin, AdminStep(a) PROVE Quiet
    BY <2>7 DEF AdminStep, DecommissionRead, DecommissionCommit, ReactivateRead,
                ReactivateCommit, PurgeRows, PurgeCommit, AdminFails, files, history
  <2>8. ASSUME NEW t \in Token, MintEnrollmentToken(t) \/ TokenExpires(t) PROVE Quiet
    BY <2>8 DEF MintEnrollmentToken, TokenExpires, files, history
  <2>9. CASE UNCHANGED vars
    BY <2>3, <2>9 DEF vars
  <2> HIDE DEF Quiet
  <2> QED
    BY <2>3, <2>4, <2>5, <2>6, <2>7, <2>8, <2>9 DEF Next
<1> QED
  BY <1>1, <1>2

LEMMA NewestIsStored == Spec => []NewestStored
<1>1. Init => NewestStored
  <2>1. Init => \A c \in Cred : cred[c].st = "none"
    BY DEF Init, NoCredential
  <2>2. Init => \A k \in Command : cmd[k].pc = "idle"
    BY DEF Init, IdleCmd
  <2> QED
    BY <2>1, <2>2 DEF NewestStored, IssuedInOrder, Held, StoredAt, Newest, Issued, Existing
<1> QED
  BY <1>1, StoredStep, Invariance, PTL DEF Spec

(* When no enroll command of a machine has an answer left to store, its    *)
(* commands and its daemon load the newest credential Central has issued   *)
(* to it (save_credential, save_central_config, load_credential), in       *)
(* whatever order the commands before wrote the two files.  Excepted, by   *)
(* the history variable dropped, is a credential whose reply was lost or   *)
(* whose command died before saving it, and one that a self-healing read   *)
(* or an older command has overwritten.                                    *)
THEOREM NewestIsLoaded == Spec => []NewestCredentialLoaded
<1>1. NewestStored => NewestCredentialLoaded
  <2> SUFFICES ASSUME NewestStored, NEW m \in Machine, \A k \in Command : ~Storing(k, m),
                      NEW c \in Issued(m), \A d \in Issued(m) : d <= c, c \notin dropped
               PROVE  LoadCredential(m) = c
    BY DEF NewestCredentialLoaded
  <2>1. c \in Cred
    BY DEF Issued, Existing
  <2>2. credFile[m] = c
    BY <2>1 DEF NewestStored, StoredAt, Storing, Awaits, Newest
  <2>3. c # NoCred
    BY <2>1, CredAssumption
  <2> QED
    BY <2>2, <2>3 DEF LoadCredential
<1> QED
  BY <1>1, NewestIsStored, PTL
=============================================================================
