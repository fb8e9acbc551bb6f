--------------------------- MODULE Services_proofs --------------------------
(***************************************************************************)
(* Theorems about the components of Services, each of its own              *)
(* specification, for any values of the constants.                         *)
(***************************************************************************)
EXTENDS Services, Records_proofs, Clients_proofs, Reads_proofs

-----------------------------------------------------------------------------
(* Admins *)

NotHimself ==
    \A r \in AdminRequest :
        adminRequest[r].pc = "authorised" => adminRequest[r].caller # adminRequest[r].target

AdminsInv == AdminsTypeOK /\ NotHimself /\ AdminRemains

LEMMA WrittenTyped ==
    ASSUME NEW was \in PersonRecord, NEW op \in AdminOps
    PROVE  Written(was, op) \in PersonRecord
BY DEF Written, AdminOps, PersonRecord

LEMMA NoAdminRequestTyped == NoAdminRequest \in AdminRequestRecord
BY AdminsAssumption DEF NoAdminRequest, AdminRequestRecord, AdminOps

LEMMA AdminsInvInit == AdminsInit => AdminsInv
<1> SUFFICES ASSUME AdminsInit PROVE AdminsInv
  OBVIOUS
<1>1. AdminsTypeOK
  <2>1. person \in [Person -> PersonRecord] /\ adminRequest \in [AdminRequest -> AdminRequestRecord]
    BY AdminsAssumption, NoAdminRequestTyped DEF AdminsInit, PersonRecord
  <2>2. {overlapped, inactiveWrote} \subseteq BOOLEAN
    BY DEF AdminsInit
  <2> QED
    BY <2>1, <2>2 DEF AdminsTypeOK
<1>2. NotHimself
  BY DEF AdminsInit, NotHimself, NoAdminRequest
<1>3. person[FirstAdmin] = [there |-> TRUE, admin |-> TRUE, active |-> TRUE]
  BY AdminsAssumption DEF AdminsInit
<1>4. AdminRemains
  BY <1>3, AdminsAssumption DEF AdminRemains, ActingAdmin, IsAdmin
<1> QED
  BY <1>1, <1>2, <1>4 DEF AdminsInv

LEMMA AuthoriseKeeps ==
    ASSUME AdminsInv, NEW r \in AdminRequest, NEW p \in Person, NEW q \in Person,
           NEW byToken \in BOOLEAN, NEW op \in AdminOps, Authorise(r, p, byToken, op, q)
    PROVE  AdminsInv'
<1>1. person[p].active \in BOOLEAN
  BY DEF AdminsInv, AdminsTypeOK, PersonRecord
<1> QED
  BY <1>1 DEF Authorise, LetIn, MayTarget, AdminsInv, AdminsTypeOK, AdminRequestRecord,
              NotHimself, AdminRemains, ActingAdmin, IsAdmin

(* Unless it sets overlapped, a write leaves its caller an admin, and an   *)
(* acting one unless it sets inactiveWrote.                                *)
LEMMA WritePersonKeeps ==
    ASSUME AdminsInv, NEW r \in AdminRequest, WritePerson(r)
    PROVE  AdminsInv'
<1> DEFINE req == adminRequest[r]
<1>1. /\ req.caller \in Person /\ req.target \in Person /\ req.op \in AdminOps
      /\ req.caller # req.target
  BY DEF WritePerson, AdminsInv, AdminsTypeOK, AdminRequestRecord, NotHimself
<1>2. person' \in [Person -> PersonRecord]
  BY <1>1, WrittenTyped DEF WritePerson, AdminsInv, AdminsTypeOK
<1>3. adminRequest' \in [AdminRequest -> AdminRequestRecord] /\ {overlapped, inactiveWrote}' \subseteq BOOLEAN
  BY AdminsAssumption
     DEF WritePerson, AdminsInv, AdminsTypeOK, NoAdminRequest, AdminRequestRecord, AdminOps
<1>4. NotHimself'
  BY DEF WritePerson, AdminsInv, AdminsTypeOK, NotHimself, NoAdminRequest
<1>5. AdminRemains'
  <2>1. person'[req.caller] = person[req.caller]
    BY <1>1 DEF WritePerson, AdminsInv, AdminsTypeOK
  <2>2. CASE ActingAdmin(req.caller)
    BY <1>1, <2>1, <2>2 DEF AdminRemains, ActingAdmin, IsAdmin
  <2>3. CASE IsAdmin(req.caller) /\ ~req.acting
    BY <1>1, <2>1, <2>3 DEF WritePerson, AdminRemains, IsAdmin
  <2>4. CASE ~IsAdmin(req.caller) \/ (req.acting /\ ~ActingAdmin(req.caller))
    BY <2>4 DEF WritePerson, AdminRemains
  <2> QED
    BY <2>2, <2>3, <2>4
<1> QED
  BY <1>2, <1>3, <1>4, <1>5 DEF AdminsInv, AdminsTypeOK

LEMMA AdminRequestFailsKeeps ==
    ASSUME AdminsInv, NEW r \in AdminRequest, AdminRequestFails(r)
    PROVE  AdminsInv'
BY AdminsAssumption
   DEF AdminRequestFails, AdminsInv, AdminsTypeOK, AdminRequestRecord, NoAdminRequest,
       AdminOps, NotHimself, AdminRemains, ActingAdmin, IsAdmin

LEMMA OwnDeletionKeeps ==
    ASSUME AdminsInv, NEW p \in Person, OwnDeletion(p)
    PROVE  AdminsInv'
<1>1. person' \in [Person -> PersonRecord]
  BY WrittenTyped DEF OwnDeletion, AdminsInv, AdminsTypeOK, AdminOps
<1>2. AdminRemains'
  <2>1. \A q \in Person \ {p} : person'[q] = person[q]
    BY DEF OwnDeletion, AdminsInv, AdminsTypeOK
  <2> QED
    BY <2>1 DEF OwnDeletion, AdminsInv, AdminRemains, ActingAdmin, IsAdmin
<1> QED
  BY <1>1, <1>2 DEF OwnDeletion, AdminsInv, AdminsTypeOK, NotHimself

LEMMA AdminsInductive == AdminsInv /\ [AdminsNext]_adminsVars => AdminsInv'
<1> SUFFICES ASSUME AdminsInv, [AdminsNext]_adminsVars PROVE AdminsInv'
  OBVIOUS
<1>1. CASE UNCHANGED adminsVars
  BY <1>1 DEF adminsVars, AdminsInv, AdminsTypeOK, NotHimself, AdminRemains, ActingAdmin, IsAdmin
<1>2. CASE AdminsNext
  BY <1>2, AuthoriseKeeps, WritePersonKeeps, AdminRequestFailsKeeps, OwnDeletionKeeps
     DEF AdminsNext
<1> QED
  BY <1>1, <1>2

(* Requests of admins that do not overlap leave an admin, and one who is   *)
(* active unless a deactivated admin used a token, for any number of       *)
(* users and of requests that were refused or failed between.              *)
THEOREM AdminSafety == AdminsSpec => []AdminRemains
<1>1. AdminsInv => AdminRemains
  BY DEF AdminsInv
<1> QED
  BY <1>1, AdminsInvInit, AdminsInductive, PTL DEF AdminsSpec

-----------------------------------------------------------------------------
(* MailSettings *)

(* The transporter that is kept logs in to the account it is kept under.   *)
KeyNamesLogin == transporter.there => transporter.key = transporter.login

(* A save writes what was merged, never the placeholder.                   *)
Merged == \A s \in Saver : saver[s].pc = "write" => saver[s].password \in Stored

MailInv == MailSettingsTypeOK /\ KeyNamesLogin /\ Merged /\ MailUsesWhatItRead

LEMMA MailRecords ==
    /\ NoSetting \in Setting
    /\ NoTransporter \in [there: BOOLEAN, key: Stored, login: Stored]
    /\ NoSaver \in SaverRecord
    /\ NoMailer \in MailerRecord
BY DEF NoSetting, NoTransporter, NoSaver, NoMailer, Setting, Provider, Stored,
       SaverRecord, MailerRecord

LEMMA MailInvInit == MailSettingsInit => MailInv
BY MailRecords
   DEF MailSettingsInit, MailInv, MailSettingsTypeOK, KeyNamesLogin, Merged,
       MailUsesWhatItRead, NoTransporter, NoSaver, NoMailer

(* A save changes the setting and drops the transporter, no mail.          *)
LEMMA SaverKeeps ==
    ASSUME MailInv, NEW s \in Saver, NEW provider \in Provider,
           NEW password \in Stored \cup {Placeholder},
           \/ BeginSave(s, provider, password)
           \/ MergePassword(s)
           \/ WriteSetting(s)
           \/ InvalidateTransport(s)
           \/ SaveFails(s)
    PROVE  MailInv'
<1> USE DEF MailInv, MailSettingsTypeOK, KeyNamesLogin, Merged, MailUsesWhatItRead
<1>1. CASE BeginSave(s, provider, password)
  BY <1>1 DEF BeginSave, SaverRecord
<1>2. CASE MergePassword(s)
  <2> DEFINE merged == IF saver[s].password = Placeholder THEN appEmail.password
                       ELSE saver[s].password
  <2>1. saver[s] \in SaverRecord /\ appEmail.password \in Stored
    BY DEF Setting
  <2>2. merged \in Stored
    BY <2>1 DEF SaverRecord
  <2>3. /\ saver' = [saver EXCEPT ![s].pc = "write", ![s].password = merged]
        /\ UNCHANGED <<appEmail, transporter, mailer>>
    BY <1>2 DEF MergePassword
  <2> HIDE DEF merged
  <2>4. saver' \in [Saver -> SaverRecord]
    <3>1. [saver[s] EXCEPT !.pc = "write", !.password = merged] \in SaverRecord
      BY <2>1, <2>2 DEF SaverRecord
    <3>2. saver' = [saver EXCEPT ![s] = [saver[s] EXCEPT !.pc = "write", !.password = merged]]
      BY <2>3
    <3> QED
      BY <3>1, <3>2
  <2>5. Merged'
    BY <2>2, <2>3
  <2> QED
    BY <2>3, <2>4, <2>5
<1>3. CASE WriteSetting(s)
  BY <1>3 DEF WriteSetting, SaverRecord, Setting
<1>4. CASE InvalidateTransport(s)
  BY <1>4, MailRecords DEF InvalidateTransport, NoSaver, NoTransporter
<1>5. CASE SaveFails(s)
  BY <1>5, MailRecords DEF SaveFails, NoSaver
<1> QED
  BY <1>1, <1>2, <1>3, <1>4, <1>5

(* Whichever transporter serves was made for the account that was read.    *)
LEMMA SendKeeps ==
    ASSUME MailInv, NEW m \in Mailer, SendViaSmtp(m)
    PROVE  MailInv'
<1> DEFINE cfg == mailer[m].cfg
           chosen == IF TransporterServes(cfg) THEN transporter
                     ELSE [there |-> TRUE, key |-> cfg.password, login |-> cfg.password]
<1>1. cfg \in Setting /\ cfg.password \in Stored
  BY DEF MailInv, MailSettingsTypeOK, MailerRecord, Setting
<1>2. /\ chosen \in [there: BOOLEAN, key: Stored, login: Stored]
      /\ chosen.key = chosen.login /\ chosen.login = cfg.password /\ chosen.login \in Stored
  BY <1>1 DEF MailInv, MailSettingsTypeOK, KeyNamesLogin, TransporterServes
<1>3. /\ transporter' = chosen
      /\ mailer' = [mailer EXCEPT ![m].pc = "sent", ![m].login = chosen.login]
      /\ UNCHANGED <<appEmail, saver>>
  BY DEF SendViaSmtp
<1> HIDE DEF chosen, cfg
<1>4. MailSettingsTypeOK'
  <2>1. [mailer[m] EXCEPT !.pc = "sent", !.login = chosen.login] \in MailerRecord
    <3>1. mailer[m] \in MailerRecord
      BY DEF MailInv, MailSettingsTypeOK
    <3> QED
      BY <1>2, <3>1 DEF MailerRecord
  <2>2. mailer' = [mailer EXCEPT ![m] = [mailer[m] EXCEPT !.pc = "sent", !.login = chosen.login]]
    BY <1>3
  <2> QED
    BY <1>2, <1>3, <2>1, <2>2 DEF MailInv, MailSettingsTypeOK
<1>5. MailUsesWhatItRead'
  BY <1>2, <1>3 DEF cfg, MailInv, MailSettingsTypeOK, MailUsesWhatItRead, MailerRecord
<1>6. KeyNamesLogin' /\ Merged'
  BY <1>2, <1>3 DEF MailInv, KeyNamesLogin, Merged
<1> QED
  BY <1>4, <1>5, <1>6 DEF MailInv

LEMMA MailerKeeps ==
    ASSUME MailInv, NEW m \in Mailer, ReadConfig(m) \/ ReadStatus(m) \/ MailEnds(m)
    PROVE  MailInv'
<1> USE DEF MailInv, MailSettingsTypeOK, KeyNamesLogin, Merged, MailUsesWhatItRead
<1>1. CASE ReadConfig(m)
  BY <1>1, MailRecords DEF ReadConfig, NoMailer, MailerRecord
<1>2. CASE ReadStatus(m)
  BY <1>2, MailRecords DEF ReadStatus, NoMailer, MailerRecord
<1>3. CASE MailEnds(m)
  BY <1>3, MailRecords DEF MailEnds, NoMailer
<1> QED
  BY <1>1, <1>2, <1>3

LEMMA MailInductive == MailInv /\ [MailSettingsNext]_mailVars => MailInv'
<1> SUFFICES ASSUME MailInv, [MailSettingsNext]_mailVars PROVE MailInv'
  OBVIOUS
<1>1. CASE UNCHANGED mailVars
  BY <1>1 DEF mailVars, MailInv, MailSettingsTypeOK, KeyNamesLogin, Merged, MailUsesWhatItRead
<1>2. CASE MailSettingsNext
  <2>1. "smtp" \in Provider /\ Empty \in Stored \cup {Placeholder}
    BY DEF Provider, Stored
  <2> QED
    BY <1>2, <2>1, SaverKeeps, SendKeeps, MailerKeeps DEF MailSettingsNext
<1> QED
  BY <1>1, <1>2

(* A mail logs in to the account of its own reading of the setting, for    *)
(* any number of mails and saves at once.                                  *)
THEOREM MailSafety == MailSettingsSpec => []MailUsesWhatItRead
<1>1. MailInv => MailUsesWhatItRead
  BY DEF MailInv
<1> QED
  BY <1>1, MailInvInit, MailInductive, PTL DEF MailSettingsSpec

-----------------------------------------------------------------------------
(* Quotas *)

(* What a request that was let through will insert fits under the limit it *)
(* read, but for what came since it counted.                               *)
Admissible ==
    \A c \in Claim :
        claim[c].pc = "admitted" /\ claim[c].cap # 0
            => inUse + claim[c].size <= claim[c].cap + claim[c].late

QuotasInv == QuotasTypeOK /\ Admissible

Overshoot ==
    \A c \in Claim :
        /\ claim[c].pc = "admitted" /\ claim[c].cap # 0
        /\ claim'[c].pc = "idle" /\ inUse' > inUse
        => inUse' <= claim[c].cap + claim[c].late

LEMMA NoClaimTyped == NoClaim \in ClaimRecord /\ NoClaim.pc = "idle"
BY QuotasAssumption DEF NoClaim, ClaimRecord

LEMMA ClaimNumbers ==
    ASSUME QuotasTypeOK, NEW c \in Claim
    PROVE  claim[c].size \in Nat /\ claim[c].cap \in Nat /\ claim[c].late \in Nat
<1>1. claim[c].size \in Sizes /\ claim[c].cap \in 0..MaxUse /\ claim[c].late \in 0..MaxUse
  BY DEF QuotasTypeOK, ClaimRecord
<1>2. claim[c].size \in Nat
  BY Zenon, <1>1, QuotasAssumption
<1>3. claim[c].cap \in Nat /\ claim[c].late \in Nat
  BY <1>1
<1> QED
  BY <1>2, <1>3

LEMMA QuotasInvInit == QuotasInit => QuotasInv
BY QuotasAssumption, NoClaimTyped
   DEF QuotasInit, QuotasInv, QuotasTypeOK, Admissible

(* An insert adds what it takes to everyone's account.                     *)
LEMMA InsertedKeeps ==
    ASSUME QuotasInv, NEW n \in Nat, NEW C \in SUBSET Claim, Inserted(n, C)
    PROVE  /\ QuotasInv'
           /\ \A c \in C : claim'[c].pc = claim[c].pc
<1> USE QuotasAssumption
<1>1. ASSUME NEW c \in C, claim[c].pc = "admitted"
      PROVE  /\ claim'[c] = [claim[c] EXCEPT !.late = @ + n]
             /\ claim'[c] \in ClaimRecord
  BY <1>1 DEF Inserted, QuotasInv, QuotasTypeOK, ClaimRecord
<1>2. ASSUME NEW c \in C, claim[c].pc # "admitted"
      PROVE  claim'[c] = claim[c] /\ claim'[c] \in ClaimRecord
  BY <1>2 DEF Inserted, QuotasInv, QuotasTypeOK
<1>3. ASSUME NEW c \in Claim \ C
      PROVE  claim'[c] = NoClaim /\ claim'[c] \in ClaimRecord
  BY <1>3, NoClaimTyped DEF Inserted
<1>4. QuotasTypeOK'
  <2>1. claim' \in [Claim -> ClaimRecord]
    BY <1>1, <1>2, <1>3 DEF Inserted
  <2> QED
    BY <2>1 DEF Inserted, QuotasInv, QuotasTypeOK
<1>5. Admissible'
  <2> SUFFICES ASSUME NEW c \in Claim, claim'[c].pc = "admitted", claim'[c].cap # 0
               PROVE  inUse' + claim'[c].size <= claim'[c].cap + claim'[c].late
    BY DEF Admissible
  <2>1. c \in C /\ claim[c].pc = "admitted"
    BY <1>2, <1>3, NoClaimTyped
  <2>2. /\ claim[c].size \in Nat /\ claim[c].cap \in Nat /\ claim[c].late \in Nat
        /\ inUse \in Nat /\ inUse' = inUse + n
    BY ClaimNumbers DEF QuotasInv, QuotasTypeOK, Inserted
  <2>3. /\ claim'[c].size = claim[c].size /\ claim'[c].cap = claim[c].cap
        /\ claim'[c].late = claim[c].late + n
    <3>1. claim'[c] = [claim[c] EXCEPT !.late = @ + n]
      BY <1>1, <2>1
    <3>2. claim[c] \in ClaimRecord
      BY DEF QuotasInv, QuotasTypeOK
    <3> QED
      BY <3>1, <3>2 DEF ClaimRecord
  <2>4. inUse + claim[c].size <= claim[c].cap + claim[c].late
    BY <2>1, <2>3 DEF QuotasInv, Admissible
  <2> QED
    BY <2>2, <2>3, <2>4
<1>6. ASSUME NEW c \in C PROVE claim'[c].pc = claim[c].pc
  BY <1>1, <1>2 DEF QuotasInv, QuotasTypeOK, ClaimRecord
<1> QED
  BY <1>4, <1>5, <1>6 DEF QuotasInv

LEMMA ClaimStepKeeps ==
    ASSUME QuotasInv, NEW c \in Claim, NEW n \in Sizes,
           ReadQuota(c, n) \/ CheckQuota(c) \/ DropClaim(c)
    PROVE  QuotasInv' /\ inUse' = inUse
<1> USE QuotasAssumption DEF QuotasInv, QuotasTypeOK, Admissible
<1>1. CASE ReadQuota(c, n)
  BY <1>1 DEF ReadQuota, ClaimRecord
<1>2. CASE CheckQuota(c)
  <2>1. claim' = [claim EXCEPT ![c].pc = "admitted"] /\ UNCHANGED <<limit, inUse>>
    BY <1>2 DEF CheckQuota
  <2>2. claim' \in [Claim -> ClaimRecord]
    BY <2>1 DEF ClaimRecord
  <2>3. claim[c].cap # 0 => inUse + claim[c].size <= claim[c].cap + claim[c].late
    BY <1>2 DEF CheckQuota, Fits, ClaimRecord
  <2> QED
    BY <2>1, <2>2, <2>3
<1>3. CASE DropClaim(c)
  BY <1>3, NoClaimTyped DEF DropClaim
<1> QED
  BY <1>1, <1>2, <1>3

(* Of the steps that insert, only its own ends a request, and what it      *)
(* inserts was admissible.                                                 *)
LEMMA QuotasStep ==
    ASSUME QuotasInv, [QuotasNext]_quotasVars
    PROVE  QuotasInv' /\ Overshoot
<1> USE QuotasAssumption
<1>0. inUse \in Nat
  BY DEF QuotasInv, QuotasTypeOK
<1>1. ASSUME NEW n \in 0..MaxUse, SetQuota(n) PROVE QuotasInv' /\ inUse' = inUse
  BY <1>1 DEF SetQuota, QuotasInv, QuotasTypeOK, Admissible
<1>2. ASSUME NEW c \in Claim, InsertClaimed(c) PROVE QuotasInv' /\ Overshoot
  <2>1. claim[c].size \in Nat /\ claim[c].pc = "admitted"
        /\ Inserted(claim[c].size, Claim \ {c})
    BY <1>2 DEF InsertClaimed, QuotasInv, QuotasTypeOK, ClaimRecord
  <2>2. QuotasInv' /\ \A b \in Claim \ {c} : claim'[b].pc = claim[b].pc
    BY <2>1, InsertedKeeps
  <2>3. inUse' = inUse + claim[c].size
    BY <2>1 DEF Inserted
  <2> QED
    BY <2>1, <2>2, <2>3 DEF QuotasInv, Admissible, Overshoot
<1>3. CASE JoinUnchecked
  <2>1. QuotasInv' /\ \A b \in Claim : claim'[b].pc = claim[b].pc
    BY <1>3, InsertedKeeps DEF JoinUnchecked
  <2> QED
    BY <2>1 DEF Overshoot
<1>4. ASSUME NEW n \in Sizes, Shrink(n) PROVE QuotasInv' /\ ~(inUse' > inUse)
  <2>1. n \in Nat \ {0} /\ n <= inUse /\ inUse' = inUse - n /\ UNCHANGED <<limit, claim>>
    BY <1>4 DEF Shrink
  <2>2. inUse' \in 0..MaxUse /\ ~(inUse' > inUse)
    BY <2>1 DEF QuotasInv, QuotasTypeOK
  <2>3. Admissible'
    <3> SUFFICES ASSUME NEW c \in Claim, claim[c].pc = "admitted", claim[c].cap # 0
                 PROVE  inUse - n + claim[c].size <= claim[c].cap + claim[c].late
      BY <2>1 DEF Admissible
    <3>1. claim[c].size \in Nat /\ claim[c].cap \in Nat /\ claim[c].late \in Nat
      BY ClaimNumbers DEF QuotasInv
    <3>2. inUse + claim[c].size <= claim[c].cap + claim[c].late
      BY DEF QuotasInv, Admissible
    <3>3. n \in Nat
      BY <2>1
    <3> QED
      BY <1>0, <3>1, <3>2, <3>3
  <2> QED
    BY <2>1, <2>2, <2>3 DEF QuotasInv, QuotasTypeOK
<1>5. CASE UNCHANGED quotasVars
  BY <1>5 DEF quotasVars, QuotasInv, QuotasTypeOK, Admissible, Overshoot
<1>6. inUse' = inUse => Overshoot
  BY <1>0 DEF Overshoot
<1>7. ~(inUse' > inUse) => Overshoot
  BY DEF Overshoot
<1>8. ASSUME NEW c \in Claim, NEW n \in Sizes, ReadQuota(c, n) PROVE QuotasInv' /\ Overshoot
  BY <1>6, <1>8, ClaimStepKeeps
<1>9. ASSUME NEW c \in Claim, CheckQuota(c) \/ DropClaim(c) PROVE QuotasInv' /\ Overshoot
  BY <1>6, <1>9, ClaimStepKeeps
<1> QED
  BY <1>1, <1>2, <1>3, <1>4, <1>5, <1>6, <1>7, <1>8, <1>9 DEF QuotasNext

(* A quota is overshot by no more than what others inserted between the    *)
(* count of a request and its insert, for any number of requests.          *)
THEOREM QuotaSafety == QuotasSpec => QuotaOvershoot
<1>1. QuotasInv /\ [QuotasNext]_quotasVars => QuotasInv'
  BY QuotasStep
<1>2. QuotasInv /\ [QuotasNext]_quotasVars => [Overshoot]_quotasVars
  BY QuotasStep
<1> QED
  BY <1>1, <1>2, QuotasInvInit, PTL DEF QuotasSpec, QuotaOvershoot, Overshoot

-----------------------------------------------------------------------------
(* Tokens *)

Counted ==
    /\ \A t \in Token : token[t].views + touching[t] + missed[t] = token[t].served
    /\ \A t \in Token : token[t].state = "UNUSED" => token[t].served = 0

InTime ==
    \A v \in Visit :
        visit[v].pc = "load" => /\ visit[v].token \in Token
                                /\ token[visit[v].token].state # "UNUSED"
                                /\ visit[v].date <= token[visit[v].token].expires

TokensInv == TokensTypeOK /\ Counted /\ InTime

LEMMA TokenRecords ==
    /\ NoToken \in TokenRecord /\ NoToken.state = "UNUSED"
    /\ NoToken.views = 0 /\ NoToken.served = 0
    /\ \A e \in Expiries : /\ NewToken(e) \in TokenRecord /\ NewToken(e).views = 0
                           /\ NewToken(e).served = 0 /\ NewToken(e).state = "LIVE"
    /\ NoVisit \in VisitRecord /\ NoVisit.pc = "idle"
BY TokensAssumption
   DEF NoToken, NewToken, TokenRecord, Expiries, Never, NoVisit, VisitRecord

LEMMA TokenNumbers ==
    ASSUME TokensTypeOK, NEW t \in Token
    PROVE  /\ token[t].views \in Nat /\ token[t].served \in Nat /\ token[t].served <= MaxUses
           /\ touching[t] \in Nat /\ missed[t] \in Nat
           /\ token[t].expires \in Nat /\ token[t] \in TokenRecord
BY TokensAssumption DEF TokensTypeOK, TokenRecord, Expiries, Never

LEMMA TokensInvInit == TokensInit => TokensInv
BY TokensAssumption, TokenRecords
   DEF TokensInit, TokensInv, TokensTypeOK, Counted, InTime

(* A row changes in its state, or in views and served, and nothing else.   *)
LEMMA InTimeKept ==
    ASSUME InTime, UNCHANGED visit,
           \A t \in Token : token[t].state # "UNUSED" =>
               token'[t].state # "UNUSED" /\ token'[t].expires = token[t].expires
    PROVE  InTime'
BY DEF InTime

LEMMA CreateTokenKeeps ==
    ASSUME TokensInv, NEW t \in Token, NEW expires \in Expiries, CreateToken(t, expires)
    PROVE  TokensInv'
<1>1. /\ token[t].state = "UNUSED" /\ token' = [token EXCEPT ![t] = NewToken(expires)]
      /\ UNCHANGED <<visit, date, shared, touching, missed>>
  BY DEF CreateToken
<1>2. TokensTypeOK'
  BY <1>1, TokenRecords DEF TokensInv, TokensTypeOK
<1>3. InTime'
  BY <1>1, InTimeKept DEF TokensInv, TokensTypeOK
<1>4. token[t].views + touching[t] + missed[t] = 0
  BY <1>1 DEF TokensInv, Counted
<1>5. touching[t] = 0 /\ missed[t] = 0
  BY <1>4, TokenNumbers DEF TokensInv
<1>6. Counted'
  BY <1>1, <1>5, TokenRecords DEF TokensInv, TokensTypeOK, Counted
<1> QED
  BY <1>2, <1>3, <1>6 DEF TokensInv

LEMMA StatesKeep ==
    ASSUME TokensInv, (\E t \in Token : RevokeToken(t)) \/ DropSharedIssue \/ NextDate
    PROVE  TokensInv'
<1>1. /\ token' \in [Token -> TokenRecord]
      /\ UNCHANGED <<visit, touching, missed>> /\ date' \in 0 .. LastDate /\ shared' \in BOOLEAN
      /\ \A s \in Token :
            /\ token'[s].views = token[s].views /\ token'[s].served = token[s].served
            /\ token'[s].expires = token[s].expires
            /\ (token'[s].state = "UNUSED") <=> (token[s].state = "UNUSED")
  <2>1. CASE \E t \in Token : RevokeToken(t)
    BY <2>1 DEF RevokeToken, LiveToken, TokensInv, TokensTypeOK, TokenRecord
  <2>2. CASE DropSharedIssue
    BY <2>2 DEF DropSharedIssue, LiveToken, TokensInv, TokensTypeOK, TokenRecord
  <2>3. CASE NextDate
    BY <2>3, TokensAssumption DEF NextDate, TokensInv, TokensTypeOK
  <2> QED
    BY <2>1, <2>2, <2>3
<1>2. InTime'
  BY <1>1, InTimeKept DEF TokensInv
<1>3. Counted'
  BY <1>1 DEF TokensInv, Counted
<1> QED
  BY <1>1, <1>2, <1>3 DEF TokensInv, TokensTypeOK

(* A use that is served and one whose trace is written or missed: each     *)
(* moves one unit between two terms of the sum.                            *)
LEMMA ServeOnceKeeps ==
    ASSUME TokensInv, NEW t \in Token, token[t].state # "UNUSED", ServeOnce(t),
           UNCHANGED <<date, shared, missed>>, visit' \in [Visit -> VisitRecord]
    PROVE  TokensTypeOK' /\ Counted' /\ (UNCHANGED visit => InTime')
<1>1. /\ token[t].served < MaxUses
      /\ token' = [token EXCEPT ![t].served = token[t].served + 1]
      /\ touching' = [touching EXCEPT ![t] = touching[t] + 1]
  BY DEF ServeOnce
<1>2. /\ token[t].views \in Nat /\ token[t].served \in Nat /\ touching[t] \in Nat
      /\ missed[t] \in Nat /\ token[t] \in TokenRecord /\ MaxUses \in Nat
  BY TokenNumbers, TokensAssumption DEF TokensInv
<1>3. token[t].views + touching[t] + missed[t] = token[t].served
  BY DEF TokensInv, Counted
<1>4. token[t].served + 1 \in 0 .. MaxUses /\ touching[t] + 1 \in 0 .. MaxUses
  BY <1>1, <1>2, <1>3
<1>5. [token[t] EXCEPT !.served = token[t].served + 1] \in TokenRecord
  BY <1>2, <1>4 DEF TokenRecord
<1>6. token' = [token EXCEPT ![t] = [token[t] EXCEPT !.served = token[t].served + 1]]
  BY <1>1
<1>7. TokensTypeOK'
  BY <1>1, <1>4, <1>5, <1>6 DEF TokensInv, TokensTypeOK
<1>8. Counted'
  BY <1>1, <1>2, <1>3 DEF TokensInv, TokensTypeOK, TokenRecord, Counted
<1>9. \A s \in Token : /\ token'[s].state = token[s].state
                       /\ token'[s].expires = token[s].expires
  BY <1>6, <1>2 DEF TokensInv, TokensTypeOK, TokenRecord
<1>10. UNCHANGED visit => InTime'
  BY <1>9, InTimeKept DEF TokensInv
<1> QED
  BY <1>7, <1>8, <1>10

LEMMA TouchKeeps ==
    ASSUME TokensInv, NEW t \in Token, Touch(t) \/ TouchFails(t)
    PROVE  TokensInv'
<1>1. /\ token[t].views \in Nat /\ token[t].served \in Nat /\ touching[t] \in Nat
      /\ missed[t] \in Nat /\ token[t] \in TokenRecord /\ MaxUses \in Nat
      /\ token[t].served <= MaxUses
  BY TokenNumbers, TokensAssumption DEF TokensInv
<1>2. /\ token[t].views + touching[t] + missed[t] = token[t].served
      /\ touching[t] > 0 /\ touching' = [touching EXCEPT ![t] = touching[t] - 1]
      /\ UNCHANGED <<visit, date, shared>>
  BY DEF TokensInv, Counted, Touch, TouchFails
<1>3. /\ touching[t] - 1 \in 0 .. MaxUses
      /\ token[t].views + 1 \in 0 .. MaxUses /\ missed[t] + 1 \in 0 .. MaxUses
  BY <1>1, <1>2
<1>4. CASE /\ LiveToken(t) /\ UNCHANGED missed
           /\ token' = [token EXCEPT ![t].views = token[t].views + 1]
  <2>1. [token[t] EXCEPT !.views = token[t].views + 1] \in TokenRecord
    BY <1>1, <1>3 DEF TokenRecord
  <2>2. token' = [token EXCEPT ![t] = [token[t] EXCEPT !.views = token[t].views + 1]]
    BY <1>4
  <2>3. TokensTypeOK'
    BY <1>2, <1>3, <1>4, <2>1, <2>2 DEF TokensInv, TokensTypeOK
  <2>4. Counted'
    <3>1. /\ token'[t].views = token[t].views + 1 /\ token'[t].served = token[t].served
          /\ token'[t].state = token[t].state /\ touching'[t] = touching[t] - 1
          /\ missed'[t] = missed[t]
      BY <1>1, <1>2, <1>4, <2>2 DEF TokensInv, TokensTypeOK, TokenRecord
    <3>2. \A s \in Token \ {t} : /\ token'[s] = token[s] /\ touching'[s] = touching[s]
                                 /\ missed'[s] = missed[s]
      BY <1>2, <1>4 DEF TokensInv, TokensTypeOK
    <3> QED
      BY <1>1, <1>2, <3>1, <3>2 DEF TokensInv, Counted
  <2>5. \A s \in Token : /\ token'[s].state = token[s].state
                         /\ token'[s].expires = token[s].expires
    BY <1>1, <2>2 DEF TokensInv, TokensTypeOK, TokenRecord
  <2> QED
    BY <1>2, <2>3, <2>4, <2>5, InTimeKept DEF TokensInv
<1>5. CASE missed' = [missed EXCEPT ![t] = missed[t] + 1] /\ UNCHANGED token
  <2>1. TokensTypeOK'
    BY <1>2, <1>3, <1>5 DEF TokensInv, TokensTypeOK
  <2>2. Counted'
    BY <1>1, <1>2, <1>5 DEF TokensInv, TokensTypeOK, Counted
  <2> QED
    BY <1>2, <1>5, <2>1, <2>2, InTimeKept DEF TokensInv
<1> QED
  BY <1>4, <1>5 DEF Touch, TouchFails

(* A visit starts only with a row that has not expired.                    *)
LEMMA VisitKeeps ==
    ASSUME TokensInv, NEW v \in Visit,
           (\E t \in Token : FindShareToken(v, t)) \/ LoadShared(v) \/ VisitFails(v)
    PROVE  TokensInv'
<1>1. ASSUME NEW t \in Token, FindShareToken(v, t) PROVE TokensInv'
  <2> DEFINE found == [pc |-> "load", token |-> t, date |-> date]
  <2>1. /\ visit' = [visit EXCEPT ![v] = found]
        /\ LiveToken(t) /\ ~Expired(t) /\ UNCHANGED <<token, date, shared, missed, touching>>
    BY <1>1 DEF FindShareToken, StartVisit
  <2>2. date \in Nat /\ date <= LastDate /\ date \in 0 .. LastDate /\ LastDate \in Nat
    BY TokensAssumption DEF TokensInv, TokensTypeOK
  <2>3. date <= token[t].expires /\ token[t].state # "UNUSED"
    BY <2>1, <2>2, TokenNumbers DEF Expired, Never, LiveToken, TokensInv
  <2>4. found \in VisitRecord
    BY <2>2 DEF VisitRecord
  <2>5. InTime'
    BY <2>1, <2>3 DEF TokensInv, TokensTypeOK, InTime
  <2> HIDE DEF found
  <2> QED
    BY <2>1, <2>4, <2>5 DEF TokensInv, TokensTypeOK, Counted
<1>2. ASSUME visit' = [visit EXCEPT ![v] = NoVisit],
             \A s \in Token : token[s].state # "UNUSED" =>
               token'[s].state # "UNUSED" /\ token'[s].expires = token[s].expires
      PROVE  InTime' /\ visit' \in [Visit -> VisitRecord]
  BY <1>2, TokenRecords DEF TokensInv, TokensTypeOK, InTime
<1>3. CASE LoadShared(v)
  <2> DEFINE s == visit[v].token
  <2>1. s \in Token /\ token[s].state # "UNUSED"
    BY <1>3 DEF LoadShared, TokensInv, InTime
  <2>2. /\ ServeOnce(s) /\ visit' = [visit EXCEPT ![v] = NoVisit]
        /\ UNCHANGED <<date, shared, missed>>
    BY <1>3 DEF LoadShared
  <2>3. visit' \in [Visit -> VisitRecord]
    BY <2>2, TokenRecords DEF TokensInv, TokensTypeOK
  <2>4. TokensTypeOK' /\ Counted'
    BY <2>1, <2>2, <2>3, ServeOnceKeeps
  <2>5. \A q \in Token : /\ token'[q].state = token[q].state
                         /\ token'[q].expires = token[q].expires
    BY <2>1, <2>2 DEF ServeOnce, TokensInv, TokensTypeOK, TokenRecord
  <2> QED
    BY <1>2, <2>2, <2>4, <2>5 DEF TokensInv
<1>4. CASE VisitFails(v)
  BY <1>2, <1>4 DEF VisitFails, TokensInv, TokensTypeOK, Counted
<1> QED
  BY <1>1, <1>3, <1>4

LEMMA TokensProcessEndsKeeps ==
    ASSUME TokensInv, TokensProcessEnds
    PROVE  TokensInv'
<1>1. ASSUME NEW t \in Token
      PROVE  /\ touching'[t] = 0 /\ missed'[t] = missed[t] + touching[t]
             /\ missed'[t] \in 0 .. MaxUses
             /\ token[t].views + touching'[t] + missed'[t] = token[t].served
  BY TokenNumbers, TokensAssumption DEF TokensProcessEnds, TokensInv, TokensTypeOK, Counted
<1>2. TokensTypeOK'
  BY <1>1, TokensAssumption, TokenRecords DEF TokensProcessEnds, TokensInv, TokensTypeOK
<1>3. Counted'
  BY <1>1 DEF TokensProcessEnds, TokensInv, Counted
<1>4. InTime'
  BY TokenRecords DEF TokensProcessEnds, InTime
<1> QED
  BY <1>2, <1>3, <1>4 DEF TokensInv

LEMMA TokensInductive == TokensInv /\ [TokensNext]_tokensVars => TokensInv'
<1> SUFFICES ASSUME TokensInv, [TokensNext]_tokensVars PROVE TokensInv'
  OBVIOUS
<1>1. CASE UNCHANGED tokensVars
  BY <1>1 DEF tokensVars, TokensInv, TokensTypeOK, Counted, InTime
<1>2. ASSUME NEW t \in Token, ResolveBearerToken(t) PROVE TokensInv'
  <2>1. /\ ServeOnce(t) /\ UNCHANGED <<visit, date, shared, missed>>
        /\ token[t].state # "UNUSED" /\ visit' \in [Visit -> VisitRecord]
    BY <1>2 DEF ResolveBearerToken, LiveToken, TokensInv, TokensTypeOK
  <2> QED
    BY <2>1, ServeOnceKeeps DEF TokensInv
<1>3. CASE TokensProcessEnds
  BY <1>3, TokensProcessEndsKeeps
<1>4. CASE (\E t \in Token : RevokeToken(t)) \/ DropSharedIssue \/ NextDate
  BY <1>4, StatesKeep
<1>5. ASSUME NEW t \in Token, Touch(t) \/ TouchFails(t) PROVE TokensInv'
  BY <1>5, TouchKeeps
<1>6. ASSUME NEW v \in Visit, NEW t \in Token, FindShareToken(v, t) PROVE TokensInv'
  BY <1>6, VisitKeeps
<1>7. ASSUME NEW v \in Visit, LoadShared(v) \/ VisitFails(v) PROVE TokensInv'
  BY <1>7, VisitKeeps
<1>8. ASSUME NEW t \in Token, NEW expires \in Expiries, CreateToken(t, expires) PROVE TokensInv'
  BY <1>8, CreateTokenKeeps
<1> QED
  BY <1>1, <1>2, <1>3, <1>4, <1>5, <1>6, <1>7, <1>8 DEF TokensNext

-----------------------------------------------------------------------------
(* Pushes *)

OneRow ==
    \A p, q \in PushRow :
        LivePush(p) /\ LivePush(q) /\ pushRow[p].endpoint = pushRow[q].endpoint => p = q

RowsWanted ==
    \A p \in PushRow :
        LivePush(p) => /\ pushRow[p].endpoint \in Endpoint
                       /\ pushRow[p].user \in Subscriber
                       /\ pushRow[p].endpoint \notin expired =>
                              wanted[pushRow[p].endpoint] = pushRow[p].user

WantedHasRow ==
    \A e \in Endpoint \ expired :
        wanted[e] # Nobody => \E p \in PushRow : LivePush(p) /\ pushRow[p].endpoint = e

(* What a delivery has in hand is a row whose endpoint stays what it is,   *)
(* and what it is about to prune was given up.                             *)
InDelivery ==
    \A d \in Delivery :
        /\ \A p \in delivery[d].rows : pushRow[p].state # "UNUSED"
        /\ delivery[d].pc = "prune" => /\ delivery[d].pruned \in PushRow
                                       /\ pushRow[delivery[d].pruned].state # "UNUSED"
                                       /\ pushRow[delivery[d].pruned].endpoint \in expired

PushesInv == PushesTypeOK /\ OneRow /\ RowsWanted /\ WantedHasRow /\ InDelivery

LEMMA PushRecords ==
    /\ NoPushRow \in PushRowRecord /\ NoPushRow.state = "UNUSED"
    /\ NoDelivery \in DeliveryRecord /\ NoDelivery.pc = "idle" /\ NoDelivery.rows = {}
BY DEF NoPushRow, PushRowRecord, NoDelivery, DeliveryRecord

LEMMA PushesInvInit == PushesInit => PushesInv
BY PushRecords
   DEF PushesInit, PushesInv, PushesTypeOK, OneRow, RowsWanted, WantedHasRow, InDelivery,
       LivePush

(* The row of an endpoint changes hands, or there was none.                *)
LEMMA SubscribeKeeps ==
    ASSUME PushesInv, NEW u \in Subscriber, NEW e \in Endpoint, NEW p \in PushRow,
           Subscribe(u, e, p)
    PROVE  PushesInv'
<1> DEFINE row1 == [state |-> "LIVE", endpoint |-> e, user |-> u]
<1>1. /\ e \notin expired
      /\ pushRow' = [pushRow EXCEPT ![p] = row1] /\ wanted' = [wanted EXCEPT ![e] = u]
      /\ UNCHANGED <<delivery, expired>>
  BY DEF Subscribe
<1>2. row1 \in PushRowRecord /\ row1.state = "LIVE" /\ row1.endpoint = e /\ row1.user = u
  BY DEF PushRowRecord
<1>3. \A q \in PushRow \ {p} : ~(LivePush(q) /\ pushRow[q].endpoint = e)
  BY DEF Subscribe, PushesInv, OneRow
<1>4. pushRow[p].state # "UNUSED" => pushRow[p].endpoint = e
  BY DEF Subscribe, LivePush
<1> HIDE DEF row1
<1>5. PushesTypeOK'
  BY <1>1, <1>2 DEF PushesInv, PushesTypeOK
<1>6. /\ pushRow'[p] = row1 /\ \A q \in PushRow \ {p} : pushRow'[q] = pushRow[q]
      /\ wanted'[e] = u /\ \A f \in Endpoint \ {e} : wanted'[f] = wanted[f]
  BY <1>1 DEF PushesInv, PushesTypeOK
<1>7. OneRow'
  BY <1>2, <1>3, <1>6 DEF PushesInv, OneRow, LivePush
<1>8. RowsWanted'
  BY <1>1, <1>2, <1>3, <1>6 DEF PushesInv, RowsWanted, LivePush
<1>9. WantedHasRow'
  <2> SUFFICES ASSUME NEW f \in Endpoint \ expired, wanted'[f] # Nobody
               PROVE  \E q \in PushRow : LivePush(q)' /\ pushRow'[q].endpoint = f
    BY <1>1 DEF WantedHasRow
  <2>1. CASE f = e
    BY <1>2, <1>6, <2>1 DEF LivePush
  <2>2. CASE f # e
    <3>1. PICK q \in PushRow : LivePush(q) /\ pushRow[q].endpoint = f
      BY <1>6, <2>2 DEF PushesInv, WantedHasRow
    <3>2. q # p
      BY <1>4, <2>2, <3>1 DEF LivePush
    <3> QED
      BY <1>6, <3>1, <3>2 DEF LivePush
  <2> QED
    BY <2>1, <2>2
<1>10. InDelivery'
  <2>1. \A q \in PushRow : pushRow[q].state # "UNUSED" =>
            /\ pushRow'[q].state # "UNUSED" /\ pushRow'[q].endpoint = pushRow[q].endpoint
    BY <1>2, <1>4, <1>6
  <2>2. \A d \in Delivery : delivery[d].rows \subseteq PushRow
    BY DEF PushesInv, PushesTypeOK, DeliveryRecord
  <2> QED
    BY <1>1, <2>1, <2>2 DEF PushesInv, InDelivery
<1> QED
  BY <1>5, <1>7, <1>8, <1>9, <1>10 DEF PushesInv

(* A row ends: nobody wants its endpoint any more, or it was given up.     *)
LEMMA EndPushKeeps ==
    ASSUME PushesInv, NEW p \in PushRow, LivePush(p), pushRow' = EndPush(p),
           UNCHANGED expired, wanted' \in [Endpoint -> Subscriber \cup {Nobody}],
           \A e \in Endpoint : e # pushRow[p].endpoint => wanted'[e] = wanted[e],
           pushRow[p].endpoint \in expired \/ wanted'[pushRow[p].endpoint] = Nobody
    PROVE  /\ pushRow' \in [PushRow -> PushRowRecord]
           /\ \A q \in PushRow : pushRow[q].state # "UNUSED" =>
                 pushRow'[q].state # "UNUSED" /\ pushRow'[q].endpoint = pushRow[q].endpoint
           /\ OneRow' /\ RowsWanted' /\ WantedHasRow'
<1>1. /\ pushRow'[p].state = "GONE" /\ pushRow'[p].endpoint = pushRow[p].endpoint
      /\ \A q \in PushRow \ {p} : pushRow'[q] = pushRow[q]
      /\ pushRow' \in [PushRow -> PushRowRecord]
  BY DEF EndPush, PushesInv, PushesTypeOK, PushRowRecord
<1>2. \A q \in PushRow \ {p} : LivePush(q) => pushRow[q].endpoint # pushRow[p].endpoint
  BY DEF PushesInv, OneRow
<1>3. OneRow'
  BY <1>1 DEF PushesInv, OneRow, LivePush
<1>4. RowsWanted'
  BY <1>1, <1>2 DEF PushesInv, RowsWanted, LivePush
<1>5. WantedHasRow'
  <2> SUFFICES ASSUME NEW f \in Endpoint \ expired, wanted'[f] # Nobody
               PROVE  \E q \in PushRow : LivePush(q)' /\ pushRow'[q].endpoint = f
    BY DEF WantedHasRow
  <2>1. f # pushRow[p].endpoint
    OBVIOUS
  <2>2. PICK q \in PushRow : LivePush(q) /\ pushRow[q].endpoint = f
    BY <2>1 DEF PushesInv, WantedHasRow
  <2> QED
    BY <1>1, <2>1, <2>2 DEF LivePush
<1> QED
  BY <1>1, <1>3, <1>4, <1>5

LEMMA UnsubscribeKeeps ==
    ASSUME PushesInv, NEW u \in Subscriber, NEW e \in Endpoint, Unsubscribe(u, e)
    PROVE  PushesInv'
<1>1. PICK p \in RowsOf(u) : pushRow[p].endpoint = e /\ pushRow' = EndPush(p)
  BY DEF Unsubscribe
<1>2. p \in PushRow /\ LivePush(p)
  BY <1>1 DEF RowsOf
<1>3. wanted' = [wanted EXCEPT ![e] = Nobody] /\ UNCHANGED <<delivery, expired>>
  BY DEF Unsubscribe
<1>4. /\ wanted' \in [Endpoint -> Subscriber \cup {Nobody}] /\ wanted'[e] = Nobody
      /\ \A f \in Endpoint : f # e => wanted'[f] = wanted[f]
  BY <1>3 DEF PushesInv, PushesTypeOK
<1>5. /\ pushRow' \in [PushRow -> PushRowRecord]
      /\ \A q \in PushRow : pushRow[q].state # "UNUSED" =>
            pushRow'[q].state # "UNUSED" /\ pushRow'[q].endpoint = pushRow[q].endpoint
      /\ OneRow' /\ RowsWanted' /\ WantedHasRow'
  BY <1>1, <1>2, <1>3, <1>4, EndPushKeeps
<1>6. \A d \in Delivery : delivery[d].rows \subseteq PushRow
  BY DEF PushesInv, PushesTypeOK, DeliveryRecord
<1>7. InDelivery'
  BY <1>3, <1>5, <1>6 DEF PushesInv, InDelivery
<1> QED
  BY <1>3, <1>4, <1>5, <1>7 DEF PushesInv, PushesTypeOK

LEMMA RestTyped ==
    ASSUME PushesInv, NEW d \in Delivery, NEW p
    PROVE  /\ Rest(d, p) \in DeliveryRecord /\ Rest(d, p).pc # "prune"
           /\ Rest(d, p).rows \subseteq delivery[d].rows
BY PushRecords DEF Rest, PushesInv, PushesTypeOK, DeliveryRecord

(* A delivery that only goes on or ends.                                   *)
LEMMA GoesOn ==
    ASSUME PushesInv, NEW d \in Delivery, NEW rec \in DeliveryRecord, rec.pc # "prune",
           \A p \in rec.rows : pushRow[p].state # "UNUSED",
           delivery' = [delivery EXCEPT ![d] = rec], UNCHANGED <<pushRow, expired, wanted>>
    PROVE  PushesInv'
BY DEF PushesInv, PushesTypeOK, OneRow, RowsWanted, WantedHasRow, InDelivery, LivePush

LEMMA DeliveryKeeps ==
    ASSUME PushesInv, NEW d \in Delivery,
           \/ \E u \in Subscriber : DeliverRead(d, u)
           \/ \E p \in PushRow : SendArrives(d, p) \/ SendError(d, p)
           \/ PruneFails(d)
           \/ DeliveryDies(d)
    PROVE  PushesInv'
<1>1. ASSUME NEW u \in Subscriber, DeliverRead(d, u) PROVE PushesInv'
  <2> DEFINE rec == [NoDelivery EXCEPT !.pc = "send", !.user = u, !.rows = RowsOf(u)]
  <2>1. rec \in DeliveryRecord /\ rec.pc = "send" /\ rec.rows = RowsOf(u)
    BY DEF NoDelivery, DeliveryRecord, RowsOf
  <2>2. \A p \in RowsOf(u) : pushRow[p].state # "UNUSED"
    BY DEF RowsOf, LivePush
  <2>3. delivery' = [delivery EXCEPT ![d] = rec] /\ UNCHANGED <<pushRow, expired, wanted>>
    BY <1>1 DEF DeliverRead
  <2> HIDE DEF rec
  <2> QED
    BY <2>1, <2>2, <2>3, GoesOn
<1>2. ASSUME NEW p, delivery' = [delivery EXCEPT ![d] = Rest(d, p)],
             UNCHANGED <<pushRow, expired, wanted>>
      PROVE  PushesInv'
  BY <1>2, RestTyped, GoesOn DEF PushesInv, InDelivery
<1>3. CASE DeliveryDies(d)
  BY <1>3, PushRecords, GoesOn DEF DeliveryDies
<1> QED
  BY <1>1, <1>2, <1>3 DEF SendArrives, SendError, PruneFails

(* Only what was given up is pruned.                                       *)
LEMMA PruneKeeps ==
    ASSUME PushesInv, NEW d \in Delivery, Prune(d) \/ \E p \in PushRow : SendExpired(d, p)
    PROVE  PushesInv'
<1>1. ASSUME NEW p \in PushRow, SendExpired(d, p) PROVE PushesInv'
  <2> DEFINE rec == [delivery[d] EXCEPT !.pc = "prune", !.pruned = p]
  <2>1. /\ rec \in DeliveryRecord /\ rec.pruned = p /\ rec.rows = delivery[d].rows
    BY DEF PushesInv, PushesTypeOK, DeliveryRecord
  <2>2. delivery' = [delivery EXCEPT ![d] = rec] /\ UNCHANGED <<pushRow, expired, wanted>>
    BY <1>1 DEF SendExpired
  <2>3. p \in delivery[d].rows /\ pushRow[p].endpoint \in expired
    BY <1>1 DEF SendExpired, Sending
  <2> HIDE DEF rec
  <2> QED
    BY <2>1, <2>2, <2>3
       DEF PushesInv, PushesTypeOK, OneRow, RowsWanted, WantedHasRow, InDelivery, LivePush
<1>2. CASE Prune(d)
  <2> DEFINE p == delivery[d].pruned
  <2>1. /\ p \in PushRow /\ pushRow[p].state # "UNUSED" /\ pushRow[p].endpoint \in expired
        /\ pushRow' = IF LivePush(p) THEN EndPush(p) ELSE pushRow
        /\ delivery' = [delivery EXCEPT ![d] = Rest(d, p)] /\ UNCHANGED <<expired, wanted>>
    BY <1>2 DEF Prune, PushesInv, InDelivery
  <2>2. /\ pushRow' \in [PushRow -> PushRowRecord]
        /\ \A q \in PushRow : pushRow[q].state # "UNUSED" =>
              pushRow'[q].state # "UNUSED" /\ pushRow'[q].endpoint = pushRow[q].endpoint
        /\ OneRow' /\ RowsWanted' /\ WantedHasRow'
    <3>1. CASE LivePush(p)
      BY <2>1, <3>1, EndPushKeeps DEF PushesInv, PushesTypeOK
    <3>2. CASE ~LivePush(p)
      BY <2>1, <3>2 DEF PushesInv, PushesTypeOK, OneRow, RowsWanted, WantedHasRow, LivePush
    <3> QED
      BY <3>1, <3>2
  <2>3. \A b \in Delivery : delivery'[b].rows \subseteq delivery[b].rows
                            /\ delivery[b].rows \subseteq PushRow
    BY <2>1, RestTyped DEF PushesInv, PushesTypeOK, DeliveryRecord
  <2>4. delivery' \in [Delivery -> DeliveryRecord]
    BY <2>1, RestTyped DEF PushesInv, PushesTypeOK
  <2>5. InDelivery'
    <3>1. ASSUME NEW b \in Delivery, NEW q \in delivery'[b].rows PROVE pushRow'[q].state # "UNUSED"
      BY <2>2, <2>3 DEF PushesInv, InDelivery
    <3>2. ASSUME NEW b \in Delivery, delivery'[b].pc = "prune"
          PROVE  b # d /\ delivery'[b] = delivery[b]
      BY <2>1, <3>2, RestTyped DEF PushesInv, PushesTypeOK
    <3>3. ASSUME NEW b \in Delivery, delivery'[b].pc = "prune"
          PROVE  /\ delivery'[b].pruned \in PushRow /\ pushRow'[delivery'[b].pruned].state # "UNUSED"
                 /\ pushRow'[delivery'[b].pruned].endpoint \in expired'
      <4>1. /\ delivery[b].pruned \in PushRow /\ pushRow[delivery[b].pruned].state # "UNUSED"
            /\ pushRow[delivery[b].pruned].endpoint \in expired
        BY <3>2, <3>3 DEF PushesInv, InDelivery
      <4>2. delivery'[b] = delivery[b] /\ expired' = expired
        BY <2>1, <3>2, <3>3
      <4> QED
        BY <2>2, <4>1, <4>2
    <3> QED
      BY <3>1, <3>3 DEF InDelivery
  <2> QED
    BY <2>1, <2>2, <2>4, <2>5 DEF PushesInv, PushesTypeOK
<1> QED
  BY <1>1, <1>2

LEMMA PushesInductive == PushesInv /\ [PushesNext]_pushesVars => PushesInv'
<1> SUFFICES ASSUME PushesInv, [PushesNext]_pushesVars PROVE PushesInv'
  OBVIOUS
<1> USE DEF PushesInv, PushesTypeOK, OneRow, RowsWanted, WantedHasRow, InDelivery, LivePush
<1>1. CASE UNCHANGED pushesVars
  BY <1>1 DEF pushesVars
<1>2. ASSUME NEW e \in Endpoint, EndpointExpires(e) PROVE PushesInv'
  BY <1>2 DEF EndpointExpires
<1>3. CASE PushesNext
  BY <1>2, <1>3, SubscribeKeeps, UnsubscribeKeeps, DeliveryKeeps, PruneKeeps DEF PushesNext
<1> QED
  BY <1>1, <1>3

LEMMA PushesInvKeeps == PushesInv => SubscriptionsKept
<1> SUFFICES ASSUME PushesInv, NEW e \in Endpoint \ expired
             PROVE  {<<pushRow[p].user, p>> :
                        p \in {q \in PushRow : LivePush(q) /\ pushRow[q].endpoint = e}}
                      \in IF wanted[e] = Nobody THEN {{}}
                          ELSE {{<<wanted[e], p>>} : p \in PushRow}
  BY DEF SubscriptionsKept
<1> DEFINE R == {q \in PushRow : LivePush(q) /\ pushRow[q].endpoint = e}
<1>1. \A q \in R : pushRow[q].user = wanted[e] /\ pushRow[q].user \in Subscriber
  BY DEF PushesInv, RowsWanted
<1>2. CASE wanted[e] = Nobody
  <2>1. R = {}
    BY <1>1, <1>2, PushesAssumption
  <2> QED
    BY <1>2, <2>1
<1>3. CASE wanted[e] # Nobody
  <2>1. PICK p \in PushRow : LivePush(p) /\ pushRow[p].endpoint = e
    BY <1>3 DEF PushesInv, WantedHasRow
  <2>2. R = {p}
    BY <2>1 DEF PushesInv, OneRow
  <2>3. {<<pushRow[q].user, q>> : q \in R} = {<<wanted[e], p>>}
    BY <1>1, <2>2
  <2> QED
    BY <1>3, <2>3
<1> QED
  BY <1>2, <1>3

-----------------------------------------------------------------------------
(* Notifications *)

Untouched(n) == note[n].row = "UNUSED" \/ (LiveNote(n) /\ ~note[n].digested)

(* What the digest has in hand is settled when it is marked.               *)
InHandSettled ==
    /\ digest.eligible \subseteq digest.candidates
    /\ digest.pc \notin {"mail", "mark"} => digest.eligible = {}
    /\ \A n \in digest.candidates : note[n].row # "UNUSED"
    /\ digest.pc = "mail" =>
          \A n \in digest.candidates \ digest.eligible : LiveNote(n) => note[n].unwanted
    /\ digest.pc = "mark" =>
          \A n \in digest.candidates :
              LiveNote(n) => note[n].unwanted \/ mailed[n] > 0

(* A mail without its marks is allowed for, once for each such run.        *)
MailsAllowed ==
    /\ \A n \in Note :
          Untouched(n) /\ ~(digest.pc = "mark" /\ n \in digest.eligible) => mailed[n] <= unmarked
    /\ digest.pc \in {"prefs", "mail"} => \A n \in digest.candidates : mailed[n] <= unmarked

NotificationsInv ==
    NotificationsTypeOK /\ DigestedIsSettled /\ MailedOnce /\ InHandSettled /\ MailsAllowed

LEMMA NoteRecords ==
    /\ \A row1 \in {"UNUSED", "LIVE", "GONE"}, type \in NoteType :
          /\ Blank(row1, type) \in NoteRecord
          /\ Blank(row1, type).row = row1
          /\ ~Blank(row1, type).digested
    /\ NoDigest \in DigestRecord
    /\ NoDigest.pc = "idle" /\ NoDigest.candidates = {} /\ NoDigest.eligible = {}
    /\ NoteType1 \in NoteType
<1>1. NoteType1 \in NoteType
  BY NotificationsAssumption DEF NoteType1
<1> QED
  BY <1>1 DEF Blank, NoteRecord, NoDigest, DigestRecord

LEMMA NotificationsInvInit == NotificationsInit => NotificationsInv
<1> SUFFICES ASSUME NotificationsInit PROVE NotificationsInv
  OBVIOUS
<1>1. /\ \A n \in Note : /\ note[n] \in NoteRecord /\ note[n].row = "UNUSED"
                        /\ ~note[n].digested /\ mailed[n] = 0
      /\ digest.pc = "idle" /\ digest.candidates = {} /\ digest.eligible = {} /\ unmarked = 0
  BY NoteRecords DEF NotificationsInit
<1>2. NotificationsTypeOK
  <2>1. note \in [Note -> NoteRecord]
    BY <1>1 DEF NotificationsInit
  <2>2. mailed \in [Note -> Nat] /\ unmarked \in 0..MaxUnmarked
    BY NotificationsAssumption DEF NotificationsInit
  <2>3. optedIn \in SUBSET NoteType /\ verified \in BOOLEAN /\ digest \in DigestRecord
    BY NoteRecords DEF NotificationsInit
  <2> QED
    BY <2>1, <2>2, <2>3 DEF NotificationsTypeOK
<1>3. DigestedIsSettled /\ MailedOnce
  BY <1>1 DEF DigestedIsSettled, MailedOnce
<1>4. InHandSettled /\ MailsAllowed
  BY <1>1 DEF InHandSettled, MailsAllowed
<1> QED
  BY <1>2, <1>3, <1>4 DEF NotificationsInv

(* Whatever else happens to a notification, it does not become digested,   *)
(* nor new again once it was there.                                        *)
LEMMA NoteChanges ==
    ASSUME NotificationsInv, note' \in [Note -> NoteRecord], verified' \in BOOLEAN,
           optedIn' \in SUBSET NoteType, UNCHANGED <<digest, mailed, unmarked>>,
           \A n \in Note :
              \/ note'[n] = note[n]
              \/ /\ note'[n].row = "LIVE" /\ note[n].row = "LIVE"
                 /\ note'[n].digested = note[n].digested /\ note'[n].unwanted = note[n].unwanted
              \/ note'[n].row = "GONE" /\ ~note'[n].digested
              \/ note[n].row = "UNUSED" /\ note'[n].row = "LIVE" /\ ~note'[n].digested
    PROVE  NotificationsInv'
<1> USE DEF NotificationsInv
<1>1. NotificationsTypeOK'
  BY DEF NotificationsTypeOK
<1>2. DigestedIsSettled' /\ MailedOnce'
  BY DEF DigestedIsSettled, MailedOnce
<1>3. digest.candidates \subseteq Note
  BY DEF NotificationsTypeOK, DigestRecord
<1>4. InHandSettled'
  BY <1>3 DEF InHandSettled, LiveNote
<1>5. MailsAllowed'
  BY DEF MailsAllowed, Untouched, LiveNote
<1> QED
  BY <1>1, <1>2, <1>4, <1>5

LEMMA UserKeeps ==
    ASSUME NotificationsInv,
           \/ \E n \in Note : \/ \E type \in NoteType : Notify(n, type)
                              \/ MarkRead(n) \/ DeleteNote(n) \/ DayPasses(n)
           \/ MarkAllRead \/ VerifyAddress
           \/ \E types \in SUBSET NoteType : UpdatePreferences(types)
    PROVE  NotificationsInv'
<1>1. /\ optedIn \in SUBSET NoteType /\ verified \in BOOLEAN /\ note \in [Note -> NoteRecord]
      /\ \A n \in Note : note[n] \in NoteRecord
  BY DEF NotificationsInv, NotificationsTypeOK
<1>2. ASSUME NEW n \in Note, NEW rec \in NoteRecord, note' = [note EXCEPT ![n] = rec],
             UNCHANGED <<optedIn, verified, digest, mailed, unmarked>>,
             \/ /\ rec.row = "LIVE" /\ note[n].row = "LIVE"
                /\ rec.digested = note[n].digested /\ rec.unwanted = note[n].unwanted
             \/ rec.row = "GONE" /\ ~rec.digested
             \/ note[n].row = "UNUSED" /\ rec.row = "LIVE" /\ ~rec.digested
      PROVE  NotificationsInv'
  <2>1. note' \in [Note -> NoteRecord] /\ note'[n] = rec
        /\ \A k \in Note \ {n} : note'[k] = note[k]
    BY <1>1, <1>2
  <2> QED
    BY <1>1, <1>2, <2>1, NoteChanges
<1>3. ASSUME NEW n \in Note, NEW type \in NoteType, Notify(n, type) PROVE NotificationsInv'
  BY <1>2, <1>3, NoteRecords DEF Notify
<1>4. ASSUME NEW n \in Note, MarkRead(n) PROVE NotificationsInv'
  <2>1. [note[n] EXCEPT !.read = TRUE] \in NoteRecord
    BY <1>1 DEF NoteRecord
  <2>2. note' = [note EXCEPT ![n] = [note[n] EXCEPT !.read = TRUE]]
    BY <1>4 DEF MarkRead
  <2> QED
    BY <1>1, <1>2, <1>4, <2>1, <2>2 DEF MarkRead, LiveNote, NoteRecord
<1>5. ASSUME NEW n \in Note, DayPasses(n) PROVE NotificationsInv'
  <2>1. [note[n] EXCEPT !.recent = FALSE] \in NoteRecord
    BY <1>1 DEF NoteRecord
  <2>2. note' = [note EXCEPT ![n] = [note[n] EXCEPT !.recent = FALSE]]
    BY <1>5 DEF DayPasses
  <2> QED
    BY <1>1, <1>2, <1>5, <2>1, <2>2 DEF DayPasses, LiveNote, NoteRecord
<1>6. ASSUME NEW n \in Note, DeleteNote(n) PROVE NotificationsInv'
  <2>1. note[n].type \in NoteType
    BY <1>1 DEF NoteRecord
  <2> QED
    BY <1>2, <1>6, <2>1, NoteRecords DEF DeleteNote
<1>7. CASE MarkAllRead
  <2>1. \A n \in Note : [note[n] EXCEPT !.read = TRUE] \in NoteRecord
    BY <1>1 DEF NoteRecord
  <2>2. note' \in [Note -> NoteRecord]
    BY <1>1, <1>7, <2>1 DEF MarkAllRead
  <2>3. \A n \in Note :
           \/ note'[n] = note[n]
           \/ /\ note'[n].row = "LIVE" /\ note[n].row = "LIVE"
              /\ note'[n].digested = note[n].digested /\ note'[n].unwanted = note[n].unwanted
    BY <1>1, <1>7 DEF MarkAllRead, LiveNote, NoteRecord
  <2> QED
    BY <1>1, <1>7, <2>2, <2>3, NoteChanges DEF MarkAllRead
<1>8. CASE VerifyAddress \/ \E types \in SUBSET NoteType : UpdatePreferences(types)
  BY <1>1, <1>8, NoteChanges DEF VerifyAddress, UpdatePreferences
<1> QED
  BY <1>3, <1>4, <1>5, <1>6, <1>7, <1>8

LEMMA DigestReadKeeps ==
    ASSUME NotificationsInv, DigestStart \/ DigestRead
    PROVE  NotificationsInv'
<1> USE DEF NotificationsInv, NotificationsTypeOK, DigestedIsSettled, MailedOnce
<1>1. CASE DigestStart
  <2>1. /\ digest' \in DigestRecord /\ digest'.pc = "user"
        /\ digest'.candidates = digest.candidates /\ digest'.eligible = digest.eligible
        /\ digest.pc = "idle" /\ UNCHANGED <<note, optedIn, verified, mailed, unmarked>>
    BY <1>1 DEF DigestStart, DigestRecord
  <2> QED
    BY <2>1 DEF InHandSettled, MailsAllowed, Untouched, LiveNote
<1>2. ASSUME NEW C \in SUBSET {n \in Note : Pending(n)}, digest.pc = "user",
             digest' = [digest EXCEPT !.pc = "prefs", !.candidates = C],
             UNCHANGED <<note, optedIn, verified, mailed, unmarked>>
      PROVE  NotificationsInv'
  <2>1. /\ digest' \in DigestRecord /\ digest'.pc = "prefs"
        /\ digest'.candidates = C /\ digest'.eligible = {}
    BY <1>2 DEF DigestRecord, InHandSettled
  <2> QED
    BY <1>2, <2>1 DEF InHandSettled, MailsAllowed, Untouched, LiveNote, Pending
<1>3. CASE digest' = NoDigest /\ UNCHANGED <<note, optedIn, verified, mailed, unmarked>>
           /\ digest.pc = "user"
  BY <1>3, NoteRecords DEF InHandSettled, MailsAllowed, Untouched, LiveNote
<1> QED
  BY <1>1, <1>2, <1>3 DEF DigestRead

LEMMA DigestPreferencesKeeps ==
    ASSUME NotificationsInv, DigestPreferences
    PROVE  NotificationsInv'
<1>1. /\ digest' \in DigestRecord /\ digest'.pc = (IF Eligible = {} THEN "mark" ELSE "mail")
      /\ digest'.candidates = digest.candidates /\ digest'.eligible = Eligible
      /\ Eligible \subseteq digest.candidates /\ digest.candidates \subseteq Note
      /\ digest.pc = "prefs" /\ digest.eligible = {}
      /\ UNCHANGED <<optedIn, verified, mailed, unmarked>>
  BY DEF DigestPreferences, Eligible, NotificationsInv, NotificationsTypeOK, DigestRecord,
         InHandSettled
<1> DEFINE rec(n) == IF n \in digest.candidates \ Eligible THEN [note[n] EXCEPT !.unwanted = TRUE]
                     ELSE note[n]
<1>7. /\ note' = [n \in Note |-> rec(n)] /\ \A n \in Note : note[n] \in NoteRecord
      /\ \A n \in digest.candidates \ Eligible : rec(n) = [note[n] EXCEPT !.unwanted = TRUE]
      /\ \A n : n \notin digest.candidates \ Eligible => rec(n) = note[n]
  BY DEF DigestPreferences, NotificationsInv, NotificationsTypeOK
<1> HIDE DEF rec
<1>8. ASSUME NEW n \in Note
      PROVE  /\ rec(n) \in NoteRecord
             /\ rec(n).row = note[n].row /\ rec(n).digested = note[n].digested
             /\ note[n].unwanted => rec(n).unwanted
             /\ n \in digest.candidates \ Eligible => rec(n).unwanted
  <2>1. CASE n \in digest.candidates \ Eligible
    <3>1. rec(n) = [note[n] EXCEPT !.unwanted = TRUE] /\ note[n] \in NoteRecord
      BY <1>7, <2>1
    <3> QED
      BY <3>1 DEF NoteRecord
  <2>2. CASE n \notin digest.candidates \ Eligible
    BY <1>7, <2>2
  <2> QED
    BY <2>1, <2>2
<1>2. note' \in [Note -> NoteRecord]
  BY <1>7, <1>8
<1>3. \A n \in Note : /\ note'[n].row = note[n].row /\ note'[n].digested = note[n].digested
                      /\ note[n].unwanted => note'[n].unwanted
                      /\ n \in digest.candidates \ Eligible => note'[n].unwanted
  BY <1>7, <1>8
<1>4. InHandSettled'
  BY <1>1, <1>3 DEF NotificationsInv, InHandSettled, LiveNote
<1>5. MailsAllowed'
  BY <1>1, <1>3 DEF NotificationsInv, MailsAllowed, Untouched, LiveNote
<1>6. DigestedIsSettled' /\ MailedOnce'
  BY <1>1, <1>3 DEF NotificationsInv, DigestedIsSettled, MailedOnce
<1> QED
  BY <1>1, <1>2, <1>4, <1>5, <1>6 DEF NotificationsInv, NotificationsTypeOK

LEMMA DigestMailKeeps ==
    ASSUME NotificationsInv, DigestMail
    PROVE  NotificationsInv'
<1>1. /\ digest' \in DigestRecord /\ digest'.pc = "mark" /\ digest.pc = "mail"
      /\ digest'.candidates = digest.candidates /\ digest'.eligible = digest.eligible
      /\ digest.eligible \subseteq digest.candidates /\ digest.candidates \subseteq Note
      /\ UNCHANGED <<note, optedIn, verified, unmarked>> /\ unmarked \in Nat
  BY NotificationsAssumption
     DEF DigestMail, NotificationsInv, NotificationsTypeOK, DigestRecord, InHandSettled
<1>2. \A n \in Note : /\ mailed[n] \in Nat /\ mailed'[n] \in Nat
                      /\ n \in digest.eligible => mailed'[n] = mailed[n] + 1
                      /\ n \notin digest.eligible => mailed'[n] = mailed[n]
  BY DEF DigestMail, NotificationsInv, NotificationsTypeOK
<1>3. NotificationsTypeOK'
  BY <1>1, <1>2 DEF DigestMail, NotificationsInv, NotificationsTypeOK
<1>4. InHandSettled'
  BY <1>1, <1>2 DEF NotificationsInv, InHandSettled, LiveNote
<1>5. \A n \in digest.eligible : mailed[n] <= unmarked
  BY <1>1 DEF NotificationsInv, MailsAllowed
<1>6. MailsAllowed'
  BY <1>1, <1>2 DEF NotificationsInv, MailsAllowed, Untouched, LiveNote
<1>7. DigestedIsSettled' /\ MailedOnce'
  BY <1>1, <1>2, <1>5 DEF NotificationsInv, DigestedIsSettled, MailedOnce
<1> QED
  BY <1>3, <1>4, <1>6, <1>7 DEF NotificationsInv

LEMMA DigestMarkKeeps ==
    ASSUME NotificationsInv, DigestMark
    PROVE  NotificationsInv'
<1>1. /\ digest' = NoDigest /\ digest.pc = "mark"
      /\ digest.eligible \subseteq digest.candidates
      /\ UNCHANGED <<optedIn, verified, mailed, unmarked>>
  BY DEF DigestMark, NotificationsInv, InHandSettled
<1>2. note' \in [Note -> NoteRecord]
  BY DEF DigestMark, NotificationsInv, NotificationsTypeOK, NoteRecord
<1>3. \A n \in Note :
         /\ note'[n].row = note[n].row /\ note'[n].unwanted = note[n].unwanted
         /\ n \in Marked => note'[n].digested
         /\ n \notin Marked => note'[n].digested = note[n].digested
  BY DEF DigestMark, NotificationsInv, NotificationsTypeOK, NoteRecord
<1>4. InHandSettled'
  BY <1>1, NoteRecords DEF InHandSettled
<1>5. MailsAllowed'
  <2> SUFFICES ASSUME NEW n \in Note, Untouched(n)' PROVE mailed[n] <= unmarked
    BY <1>1, NoteRecords DEF MailsAllowed
  <2>1. \/ Untouched(n) /\ n \notin digest.eligible
        \/ note[n].row = "UNUSED"
    BY <1>1, <1>3 DEF Untouched, LiveNote, Marked
  <2>2. note[n].row = "UNUSED" => n \notin digest.candidates
    BY DEF NotificationsInv, InHandSettled
  <2> QED
    BY <1>1, <2>1, <2>2 DEF NotificationsInv, MailsAllowed, Untouched
<1>6. DigestedIsSettled' /\ MailedOnce'
  BY <1>1, <1>3 DEF NotificationsInv, DigestedIsSettled, MailedOnce, InHandSettled, Marked
<1> QED
  BY <1>1, <1>2, <1>4, <1>5, <1>6, NoteRecords DEF NotificationsInv, NotificationsTypeOK

(* A run that fails after its mail is counted; one that fails before has   *)
(* mailed nothing.                                                         *)
LEMMA DigestFailsKeeps ==
    ASSUME NotificationsInv, DigestFails
    PROVE  NotificationsInv'
<1>1. /\ digest' = NoDigest /\ UNCHANGED <<note, optedIn, verified, mailed>>
      /\ unmarked \in Nat /\ unmarked' \in 0..MaxUnmarked
      /\ \/ unmarked' = unmarked + 1
         \/ unmarked' = unmarked /\ ~(digest.pc = "mark" /\ digest.eligible # {})
  BY NotificationsAssumption DEF DigestFails, NotificationsInv, NotificationsTypeOK
<1>2. \A n \in Note : mailed[n] \in Nat
  BY DEF NotificationsInv, NotificationsTypeOK
<1>3. InHandSettled'
  BY <1>1, NoteRecords DEF InHandSettled
<1>4. MailsAllowed'
  <2> SUFFICES ASSUME NEW n \in Note, Untouched(n) PROVE mailed[n] <= unmarked'
    BY <1>1, NoteRecords DEF MailsAllowed, Untouched, LiveNote
  <2>1. CASE unmarked' = unmarked + 1
    BY <1>1, <1>2, <2>1 DEF NotificationsInv, MailedOnce
  <2>2. CASE unmarked' = unmarked /\ ~(digest.pc = "mark" /\ digest.eligible # {})
    BY <2>2 DEF NotificationsInv, MailsAllowed
  <2> QED
    BY <1>1, <2>1, <2>2
<1>5. DigestedIsSettled' /\ MailedOnce'
  BY <1>1, <1>2 DEF NotificationsInv, DigestedIsSettled, MailedOnce
<1> QED
  BY <1>1, <1>3, <1>4, <1>5, NoteRecords DEF NotificationsInv, NotificationsTypeOK

LEMMA NotificationsInductive ==
    NotificationsInv /\ [NotificationsNext]_notificationsVars => NotificationsInv'
<1> SUFFICES ASSUME NotificationsInv, [NotificationsNext]_notificationsVars
             PROVE  NotificationsInv'
  OBVIOUS
<1>1. CASE UNCHANGED notificationsVars
  BY <1>1 DEF notificationsVars, NotificationsInv, NotificationsTypeOK, DigestedIsSettled,
              MailedOnce, InHandSettled, MailsAllowed, Untouched, LiveNote
<1>2. CASE NotificationsNext
  BY <1>2, UserKeeps, DigestReadKeeps, DigestPreferencesKeeps, DigestMailKeeps,
     DigestMarkKeeps, DigestFailsKeeps
     DEF NotificationsNext
<1> QED
  BY <1>1, <1>2

(* The digest marks nothing that it did not mail or was told not to, and   *)
(* mails nothing twice but for runs that failed between mail and marks,    *)
(* whatever the user does while it runs.                                   *)
THEOREM DigestSafety == NotificationsSpec => []DigestKept
<1>1. NotificationsInv => DigestKept
  BY DEF NotificationsInv, DigestKept
<1> QED
  BY <1>1, NotificationsInvInit, NotificationsInductive, PTL DEF NotificationsSpec

-----------------------------------------------------------------------------
(* The composition: every component behaves in it as it does alone, so     *)
(* what is proved of the one holds in the other.                           *)

LEMMA ServicesStep ==
    ASSUME [ServicesNext]_servicesVars
    PROVE  /\ [NotificationsNext]_notificationsVars
           /\ [FilesNext]_filesVars
           /\ [QuotasNext]_quotasVars
           /\ [NamingNext]_namingVars
           /\ [AdminsNext]_adminsVars
           /\ [CachesNext]_cachesVars
           /\ [MailSettingsNext]_mailVars
           /\ [CreationNext]_creationVars
           /\ [BrowserNext]_browserVars
           /\ [JournalNext]_journalVars
           /\ [TokensNext]_tokensVars
           /\ [PushesNext]_pushesVars
           /\ [PagingNext]_pagingVars
           /\ [StatisticsNext]_statisticsVars
           /\ [SprintChartsNext]_sprintChartsVars
<1>0. CASE UNCHANGED servicesVars
  BY <1>0 DEF servicesVars
<1>1. CASE NotificationsPart
  BY <1>1 DEF NotificationsPart
<1>2. CASE FilesPart
  BY <1>2 DEF FilesPart
<1>3. CASE QuotasPart
  BY <1>3 DEF QuotasPart
<1>4. CASE NamingPart
  BY <1>4 DEF NamingPart
<1>5. CASE AdminsPart
  BY <1>5 DEF AdminsPart
<1>6. CASE CachesPart
  BY <1>6 DEF CachesPart
<1>7. CASE MailSettingsPart
  BY <1>7 DEF MailSettingsPart
<1>8. CASE CreationPart
  BY <1>8 DEF CreationPart
<1>9. CASE BrowserPart
  BY <1>9 DEF BrowserPart
<1>10. CASE JournalPart
  BY <1>10 DEF JournalPart
<1>11. CASE TokensPart
  BY <1>11 DEF TokensPart
<1>12. CASE PushesPart
  BY <1>12 DEF PushesPart
<1>13. CASE PagingPart
  BY <1>13 DEF PagingPart
<1>14. CASE StatisticsPart
  BY <1>14 DEF StatisticsPart
<1>15. CASE SprintChartsPart
  BY <1>15 DEF SprintChartsPart
<1> QED
  BY <1>0, <1>1, <1>2, <1>3, <1>4, <1>5, <1>6, <1>7, <1>8, <1>9, <1>10, <1>11, <1>12, <1>13, <1>14, <1>15
     DEF ServicesNext

(* The services answer next to one another as each does alone.             *)
THEOREM ServicesImplement ==
    ServicesSpec => /\ NotificationsSpec
                    /\ FilesSpec
                    /\ QuotasSpec
                    /\ NamingSpec
                    /\ AdminsSpec
                    /\ CachesSpec
                    /\ MailSettingsSpec
                    /\ CreationSpec
                    /\ BrowserSpec
                    /\ JournalSpec
                    /\ TokensSpec
                    /\ PushesSpec
                    /\ PagingSpec
                    /\ StatisticsSpec
                    /\ SprintChartsSpec
<1>1. ServicesInit => /\ NotificationsInit
                      /\ FilesInit
                      /\ QuotasInit
                      /\ NamingInit
                      /\ AdminsInit
                      /\ CachesInit
                      /\ MailSettingsInit
                      /\ CreationInit
                      /\ BrowserInit
                      /\ JournalInit
                      /\ TokensInit
                      /\ PushesInit
                      /\ PagingInit
                      /\ StatisticsInit
                      /\ SprintChartsInit
  BY DEF ServicesInit
<1> QED
  BY <1>1, ServicesStep, PTL
     DEF ServicesSpec, NotificationsSpec, FilesSpec, QuotasSpec, NamingSpec, AdminsSpec, CachesSpec, MailSettingsSpec, CreationSpec, BrowserSpec, JournalSpec, TokensSpec, PushesSpec, PagingSpec, StatisticsSpec, SprintChartsSpec

(* A working endpoint stays subscribed for who asked last, for any number  *)
(* of rows, of browsers that change hands and of deliveries at a time.     *)
THEOREM SubscriptionsSafety == ServicesSpec => []SubscriptionsKept
BY PushesInvKeeps, ServicesImplement, PushesInvInit, PushesInductive, PTL DEF PushesSpec

(* Every answer that a token opened is counted, on its way to be, or       *)
(* missed.                                                                 *)
THEOREM CountsSafety == ServicesSpec => []UsesCounted
<1>1. TokensInv => UsesCounted
  BY DEF TokensInv, Counted, UsesCounted
<1> QED
  BY <1>1, ServicesImplement, TokensInvInit, TokensInductive, PTL DEF TokensSpec

(* Rows fit together, though the checks were made before the inserts: no   *)
(* two rows have one number or name in a scope, and a reply answers a      *)
(* comment of its own issue, for any number of requests at a time.         *)
THEOREM RowsFitSafety == ServicesSpec => []RowsFit
<1>1. NamingInv /\ CreationInv => RowsFit
  BY DEF NamingInv, CreationInv, NamesHold, RowsFit
<1> QED
  BY <1>1, ServicesImplement, NamingInvInit, NamingInductive, CreationInvInit,
     CreationInductive, PTL
     DEF NamingSpec, CreationSpec

(* What is read in several steps adds up beside the others too: the pages  *)
(* of a list, the reads of an answer, and the charts of a board.           *)
THEOREM ReadsSafety == ServicesSpec => []ReadsAddUp
<1>1. /\ PagingInv => PagesComplete
      /\ StatisticsInv => AnswersComplete
      /\ ChartsInv => ChartsAddUp
  BY AnswersAreComplete, ChartsInvAddsUp DEF PagingInv
<1>2. PagesComplete /\ AnswersComplete /\ ChartsAddUp => ReadsAddUp
  BY DEF ReadsAddUp
<1> QED
  BY <1>1, <1>2, ServicesImplement, PagingInvInit, PagingInductive, StatisticsInvInit,
     StatisticsInductive, ChartsInvInit, ChartsInductive, PTL
     DEF PagingSpec, StatisticsSpec, SprintChartsSpec

PartTyped == part \in Parts

(* Every state that a component reaches is well-typed, whichever it is.    *)
THEOREM ServicesTyped == ServicesSpec => []ServicesTypeOK
<1>1. ServicesSpec => []PartTyped
  <2>1. ServicesInit => PartTyped
    BY DEF ServicesInit, PartTyped
  <2>2. PartTyped /\ [ServicesNext]_servicesVars => PartTyped'
    BY DEF PartTyped, ServicesNext, servicesVars, NotificationsPart, FilesPart, QuotasPart,
           NamingPart, AdminsPart, CachesPart, MailSettingsPart, CreationPart, BrowserPart, JournalPart,
           TokensPart, PushesPart, PagingPart, StatisticsPart, SprintChartsPart
  <2> QED
    BY <2>1, <2>2, PTL DEF ServicesSpec
<1>2. QuotasInv /\ [QuotasNext]_quotasVars => QuotasInv'
  BY QuotasStep
<1>3. /\ NotificationsSpec => []NotificationsInv
      /\ FilesSpec => []FilesInv
      /\ QuotasSpec => []QuotasInv
      /\ NamingSpec => []NamingInv
      /\ AdminsSpec => []AdminsInv
  BY <1>2, NotificationsInvInit, NotificationsInductive, FilesInvInit, FilesInductive,
     QuotasInvInit, NamingInvInit, NamingInductive, AdminsInvInit, AdminsInductive, PTL
     DEF NotificationsSpec, FilesSpec, QuotasSpec, NamingSpec, AdminsSpec
<1>4. /\ CachesSpec => []CachesInv
      /\ MailSettingsSpec => []MailInv
      /\ CreationSpec => []CreationInv
      /\ BrowserSpec => []BrowserInv
      /\ JournalSpec => []JournalInv
  BY CachesInvInit, CachesInductive, MailInvInit, MailInductive, CreationInvInit,
     CreationInductive, BrowserInvInit, BrowserInductive, JournalInvInit, JournalInductive, PTL
     DEF CachesSpec, MailSettingsSpec, CreationSpec, BrowserSpec, JournalSpec
<1>5. /\ TokensSpec => []TokensInv
      /\ PushesSpec => []PushesInv
      /\ PagingSpec => []PagingInv
      /\ StatisticsSpec => []StatisticsInv
      /\ SprintChartsSpec => []ChartsInv
  BY TokensInvInit, TokensInductive, PushesInvInit, PushesInductive, PagingInvInit,
     PagingInductive, StatisticsInvInit, StatisticsInductive, ChartsInvInit, ChartsInductive, PTL
     DEF TokensSpec, PushesSpec, PagingSpec, StatisticsSpec, SprintChartsSpec
<1>6. /\ PartTyped
      /\ NotificationsInv /\ FilesInv /\ QuotasInv /\ NamingInv /\ AdminsInv
      /\ CachesInv /\ MailInv /\ CreationInv /\ BrowserInv /\ JournalInv
      /\ TokensInv /\ PushesInv /\ PagingInv /\ StatisticsInv /\ ChartsInv
      => ServicesTypeOK
  BY DEF PartTyped, NotificationsInv, FilesInv, QuotasInv, NamingInv, AdminsInv, CachesInv,
         MailInv, CreationInv, BrowserInv, JournalInv, TokensInv, PushesInv, PagingInv,
         StatisticsInv, ChartsInv, ServicesTypeOK
<1> QED
  BY <1>1, <1>3, <1>4, <1>5, <1>6, ServicesImplement, PTL
=============================================================================
