------------------------------ MODULE Services ------------------------------
(***************************************************************************)
(* The components that answer requests beside boards, memberships, uploads *)
(* and accounts.  As in Jobs they share no state, and a behaviour moves    *)
(* the one that part names.                                                *)
(***************************************************************************)
EXTENDS Notifications, Files, Quotas, Naming, Admins,
        Caches, MailSettings, Creation, Browser, Journal, Tokens, Pushes, Paging,
        Statistics, SprintCharts

VARIABLE part

Parts == {"notifications", "files", "quotas", "naming", "admins", "caches", "mail", "creation", "browser", "journal", "tokens", "pushes", "paging", "statistics", "charts"}

servicesVars == <<part, notificationsVars, filesVars, quotasVars, namingVars, adminsVars,
            cachesVars, mailVars, creationVars, browserVars, journalVars,
            tokensVars, pushesVars, pagingVars, statisticsVars, sprintChartsVars>>

-----------------------------------------------------------------------------
ServicesTypeOK ==
    /\ part \in Parts
    /\ NotificationsTypeOK
    /\ FilesTypeOK
    /\ QuotasTypeOK
    /\ NamingTypeOK
    /\ AdminsTypeOK
    /\ CachesTypeOK
    /\ MailSettingsTypeOK
    /\ CreationTypeOK
    /\ BrowserTypeOK
    /\ JournalTypeOK
    /\ TokensTypeOK
    /\ PushesTypeOK
    /\ PagingTypeOK
    /\ StatisticsTypeOK
    /\ SprintChartsTypeOK

ServicesInit ==
    /\ part \in Parts
    /\ NotificationsInit
    /\ FilesInit
    /\ QuotasInit
    /\ NamingInit
    /\ AdminsInit
    /\ CachesInit
    /\ MailSettingsInit
    /\ CreationInit
    /\ BrowserInit
    /\ JournalInit
    /\ TokensInit
    /\ PushesInit
    /\ PagingInit
    /\ StatisticsInit
    /\ SprintChartsInit

-----------------------------------------------------------------------------
NotificationsPart ==
    /\ part = "notifications"
    /\ NotificationsNext
    /\ UNCHANGED <<part, filesVars, quotasVars, namingVars, adminsVars, cachesVars,
                   mailVars, creationVars, browserVars, journalVars, tokensVars,
                   pushesVars, pagingVars, statisticsVars, sprintChartsVars>>

FilesPart ==
    /\ part = "files"
    /\ FilesNext
    /\ UNCHANGED <<part, notificationsVars, quotasVars, namingVars, adminsVars,
                   cachesVars, mailVars, creationVars, browserVars, journalVars,
                   tokensVars, pushesVars, pagingVars, statisticsVars,
                   sprintChartsVars>>

QuotasPart ==
    /\ part = "quotas"
    /\ QuotasNext
    /\ UNCHANGED <<part, notificationsVars, filesVars, namingVars, adminsVars,
                   cachesVars, mailVars, creationVars, browserVars, journalVars,
                   tokensVars, pushesVars, pagingVars, statisticsVars,
                   sprintChartsVars>>

NamingPart ==
    /\ part = "naming"
    /\ NamingNext
    /\ UNCHANGED <<part, notificationsVars, filesVars, quotasVars, adminsVars,
                   cachesVars, mailVars, creationVars, browserVars, journalVars,
                   tokensVars, pushesVars, pagingVars, statisticsVars,
                   sprintChartsVars>>

AdminsPart ==
    /\ part = "admins"
    /\ AdminsNext
    /\ UNCHANGED <<part, notificationsVars, filesVars, quotasVars, namingVars,
                   cachesVars, mailVars, creationVars, browserVars, journalVars,
                   tokensVars, pushesVars, pagingVars, statisticsVars,
                   sprintChartsVars>>

CachesPart ==
    /\ part = "caches"
    /\ CachesNext
    /\ UNCHANGED <<part, notificationsVars, filesVars, quotasVars, namingVars,
                   adminsVars, mailVars, creationVars, browserVars, journalVars,
                   tokensVars, pushesVars, pagingVars, statisticsVars,
                   sprintChartsVars>>

MailSettingsPart ==
    /\ part = "mail"
    /\ MailSettingsNext
    /\ UNCHANGED <<part, notificationsVars, filesVars, quotasVars, namingVars,
                   adminsVars, cachesVars, creationVars, browserVars, journalVars,
                   tokensVars, pushesVars, pagingVars, statisticsVars,
                   sprintChartsVars>>

CreationPart ==
    /\ part = "creation"
    /\ CreationNext
    /\ UNCHANGED <<part, notificationsVars, filesVars, quotasVars, namingVars,
                   adminsVars, cachesVars, mailVars, browserVars, journalVars,
                   tokensVars, pushesVars, pagingVars, statisticsVars,
                   sprintChartsVars>>

BrowserPart ==
    /\ part = "browser"
    /\ BrowserNext
    /\ UNCHANGED <<part, notificationsVars, filesVars, quotasVars, namingVars,
                   adminsVars, cachesVars, mailVars, creationVars, journalVars,
                   tokensVars, pushesVars, pagingVars, statisticsVars,
                   sprintChartsVars>>

JournalPart ==
    /\ part = "journal"
    /\ JournalNext
    /\ UNCHANGED <<part, notificationsVars, filesVars, quotasVars, namingVars,
                   adminsVars, cachesVars, mailVars, creationVars, browserVars,
                   tokensVars, pushesVars, pagingVars, statisticsVars,
                   sprintChartsVars>>

TokensPart ==
    /\ part = "tokens"
    /\ TokensNext
    /\ UNCHANGED <<part, notificationsVars, filesVars, quotasVars, namingVars,
                   adminsVars, cachesVars, mailVars, creationVars, browserVars,
                   journalVars, pushesVars, pagingVars, statisticsVars,
                   sprintChartsVars>>

PushesPart ==
    /\ part = "pushes"
    /\ PushesNext
    /\ UNCHANGED <<part, notificationsVars, filesVars, quotasVars, namingVars,
                   adminsVars, cachesVars, mailVars, creationVars, browserVars,
                   journalVars, tokensVars, pagingVars, statisticsVars,
                   sprintChartsVars>>

PagingPart ==
    /\ part = "paging"
    /\ PagingNext
    /\ UNCHANGED <<part, notificationsVars, filesVars, quotasVars, namingVars,
                   adminsVars, cachesVars, mailVars, creationVars, browserVars,
                   journalVars, tokensVars, pushesVars, statisticsVars,
                   sprintChartsVars>>

StatisticsPart ==
    /\ part = "statistics"
    /\ StatisticsNext
    /\ UNCHANGED <<part, notificationsVars, filesVars, quotasVars, namingVars,
                   adminsVars, cachesVars, mailVars, creationVars, browserVars,
                   journalVars, tokensVars, pushesVars, pagingVars, sprintChartsVars>>

SprintChartsPart ==
    /\ part = "charts"
    /\ SprintChartsNext
    /\ UNCHANGED <<part, notificationsVars, filesVars, quotasVars, namingVars,
                   adminsVars, cachesVars, mailVars, creationVars, browserVars,
                   journalVars, tokensVars, pushesVars, pagingVars, statisticsVars>>

ServicesNext ==
    \/ NotificationsPart
    \/ FilesPart
    \/ QuotasPart
    \/ NamingPart
    \/ AdminsPart
    \/ CachesPart
    \/ MailSettingsPart
    \/ CreationPart
    \/ BrowserPart
    \/ JournalPart
    \/ TokensPart
    \/ PushesPart
    \/ PagingPart
    \/ StatisticsPart
    \/ SprintChartsPart

ServicesSpec == ServicesInit /\ [][ServicesNext]_servicesVars

-----------------------------------------------------------------------------
(* What rows say of other rows holds: numbers lead to one issue, projects  *)
(* have their board, and replies answer a comment of their own issue,      *)
(* though the checks were made before the inserts.                         *)
RowsFit == NamesHold /\ RepliesInIssue

(* What is read in several steps adds up: pages, the answers made of       *)
(* parallel reads, and the charts of a board.                              *)
ReadsAddUp == PagesComplete /\ AnswersComplete /\ ChartsAddUp
=============================================================================
