----------------------------- MODULE MailSettings ---------------------------
(***************************************************************************)
(* The app.email setting: SettingsService saves it, MailService reads it   *)
(* for every mail and keeps the transporter it made last.  An admin never  *)
(* sees the password; a form that leaves it alone sends a placeholder, and *)
(* the password stored before is put in its place.                         *)
(***************************************************************************)
CONSTANTS
    Password,      \* passwords an admin may type
    Placeholder,   \* __keep__
    Empty,         \* no password
    Saver,         \* saves under way at the same time
    Mailer         \* mails being sent at the same time

ASSUME MailSettingsAssumption ==
    /\ Placeholder \notin Password
    /\ Empty \notin Password \cup {Placeholder}

VARIABLES
    appEmail,     \* the setting: the provider, and the password of the SMTP account
    transporter,  \* smtpCache: the account it was made for, and the one it logs in to
    saver,        \* saver[s]: where that save is
    mailer        \* mailer[m]: where that mail is

mailVars == <<appEmail, transporter, saver, mailer>>

-----------------------------------------------------------------------------
Provider == {"resend", "smtp"}
Stored == Password \cup {Empty}

(* The password stands for host, port, user and password, which are the key. *)
Setting == [provider: Provider, password: Stored]
NoSetting == [provider |-> "resend", password |-> Empty]

SaverRecord ==
    [pc: {"idle", "read", "write", "saved"}, provider: Provider,
     password: Stored \cup {Placeholder}]
MailerRecord ==
    [pc: {"idle", "status", "send", "sent"}, cfg: Setting, login: Stored]

NoSaver == [pc |-> "idle", provider |-> "resend", password |-> Empty]
NoMailer == [pc |-> "idle", cfg |-> NoSetting, login |-> Empty]

MailSettingsTypeOK ==
    /\ appEmail \in Setting
    /\ transporter \in [there: BOOLEAN, key: Stored, login: Stored]
    /\ saver \in [Saver -> SaverRecord]
    /\ mailer \in [Mailer -> MailerRecord]

NoTransporter == [there |-> FALSE, key |-> Empty, login |-> Empty]

MailSettingsInit ==
    /\ appEmail = NoSetting
    /\ transporter = NoTransporter
    /\ saver = [s \in Saver |-> NoSaver]
    /\ mailer = [m \in Mailer |-> NoMailer]

-----------------------------------------------------------------------------
(* setByKey *)

BeginSave(s, provider, password) ==
    /\ saver[s].pc = "idle"
    /\ saver' = [saver EXCEPT ![s] = [pc |-> "read", provider |-> provider, password |-> password]]
    /\ UNCHANGED <<appEmail, transporter, mailer>>

(* mergeAppEmailPassword *)
MergeNothing(s) ==
    /\ saver[s].pc = "read"
    /\ saver' = [saver EXCEPT ![s].pc = "write"]
    /\ UNCHANGED <<appEmail, transporter, mailer>>
MergePassword(s) ==
    /\ saver[s].pc = "read"
    /\ saver' = [saver EXCEPT ![s].pc = "write",
                              ![s].password = IF @ = Placeholder THEN appEmail.password ELSE @]
    /\ UNCHANGED <<appEmail, transporter, mailer>>

WriteSetting(s) ==
    /\ saver[s].pc = "write"
    /\ appEmail' = [provider |-> saver[s].provider, password |-> saver[s].password]
    /\ saver' = [saver EXCEPT ![s].pc = "saved"]
    /\ UNCHANGED <<transporter, mailer>>

InvalidateTransport(s) ==
    /\ saver[s].pc = "saved"
    /\ transporter' = NoTransporter
    /\ saver' = [saver EXCEPT ![s] = NoSaver]
    /\ UNCHANGED <<appEmail, mailer>>

SaveFails(s) ==
    /\ saver[s].pc \in {"read", "write"}
    /\ saver' = [saver EXCEPT ![s] = NoSaver]
    /\ UNCHANGED <<appEmail, transporter, mailer>>

-----------------------------------------------------------------------------
(* send *)

ReadConfig(m) ==
    /\ mailer[m].pc = "idle"
    /\ mailer' = [mailer EXCEPT ![m] = [NoMailer EXCEPT !.pc = "status", !.cfg = appEmail]]
    /\ UNCHANGED <<appEmail, transporter, saver>>

(* getConfigStatus reads the setting again.  By its provider the mail goes, *)
(* with the account of the first reading.                                   *)
ReadStatus(m) ==
    /\ mailer[m].pc = "status"
    /\ mailer' = IF appEmail.provider = "smtp" /\ appEmail.password # Empty
                 THEN [mailer EXCEPT ![m].pc = "send"]
                 ELSE [mailer EXCEPT ![m] = NoMailer]
    /\ UNCHANGED <<appEmail, transporter, saver>>

(* getSmtpTransporter *)
AnyTransporterServes(cfg) == transporter.there
TransporterServes(cfg) == transporter.there /\ transporter.key = cfg.password

SendViaSmtp(m) ==
    LET cfg == mailer[m].cfg
        chosen == IF TransporterServes(cfg)
                  THEN transporter
                  ELSE [there |-> TRUE, key |-> cfg.password, login |-> cfg.password]
    IN  /\ mailer[m].pc = "send"
        /\ transporter' = chosen
        /\ mailer' = [mailer EXCEPT ![m].pc = "sent", ![m].login = chosen.login]
        /\ UNCHANGED <<appEmail, saver>>

MailEnds(m) ==
    /\ mailer[m].pc \in {"send", "sent"}
    /\ mailer' = [mailer EXCEPT ![m] = NoMailer]
    /\ UNCHANGED <<appEmail, transporter, saver>>

-----------------------------------------------------------------------------
MailSettingsNext ==
    \/ \E s \in Saver :
          \/ \E provider \in Provider, password \in Stored \cup {Placeholder} :
                BeginSave(s, provider, password)
          \/ MergePassword(s)
          \/ WriteSetting(s)
          \/ InvalidateTransport(s)
          \/ SaveFails(s)
    \/ \E m \in Mailer :
          \/ ReadConfig(m)
          \/ ReadStatus(m)
          \/ SendViaSmtp(m)
          \/ MailEnds(m)

MailSettingsSpec == MailSettingsInit /\ [][MailSettingsNext]_mailVars

-----------------------------------------------------------------------------
(* A mail logs in to the account that its own reading of the setting named, *)
(* also when a mail that read the setting before a save puts its            *)
(* transporter back after the save dropped it.                              *)
MailUsesWhatItRead ==
    \A m \in Mailer : mailer[m].pc = "sent" => mailer[m].login = mailer[m].cfg.password
=============================================================================
