-------------------------------- MODULE Copies ------------------------------
(***************************************************************************)
(* The copies of tables that one process keeps in memory: the feature      *)
(* flags, the throttle overrides and the logging configuration.  The first *)
(* two are loaded when a request finds none in force, last for a time, and *)
(* are dropped after a change; the third is always in force, and is read   *)
(* again after a change and every hour.  A load reads the table, and       *)
(* stores what it read later.                                              *)
(***************************************************************************)
EXTENDS Naturals

CONSTANTS
    Copy,         \* copies in use, of those in AllCopies
    Loader,       \* loads under way at the same time
    Changer,      \* admins' requests between their write and what follows it
    MaxVersion    \* bound: changes of a table

AllCopies == {"flags", "overrides", "logging"}

ASSUME CopiesAssumption == Copy \subseteq AllCopies /\ Copy # {} /\ MaxVersion \in Nat

VARIABLES
    version,   \* version[k]: how often the table was changed
    copy,      \* copy[k]: the version that was loaded, and whether it is in force
    loader,    \* loader[l]: where that load is
    changer    \* changer[c]: where that request is

copiesVars == <<version, copy, loader, changer>>

-----------------------------------------------------------------------------
Versions == 0..MaxVersion
AnyCopy == CHOOSE k \in Copy : TRUE

LoaderRecord == [pc: {"idle", "read", "store"}, copy: Copy, version: Versions]
ChangerRecord == [pc: {"idle", "changed"}, copy: Copy]

NoLoader == [pc |-> "idle", copy |-> AnyCopy, version |-> 0]
NoChanger == [pc |-> "idle", copy |-> AnyCopy]

CopiesTypeOK ==
    /\ version \in [Copy -> Versions]
    /\ copy \in [Copy -> [version: Versions, inForce: BOOLEAN]]
    /\ loader \in [Loader -> LoaderRecord]
    /\ changer \in [Changer -> ChangerRecord]

(* Version 0 of the logging configuration is its default. *)
CopiesInit ==
    /\ version = [k \in Copy |-> 0]
    /\ copy = [k \in Copy |-> [version |-> 0, inForce |-> k = "logging"]]
    /\ loader = [l \in Loader |-> NoLoader]
    /\ changer = [c \in Changer |-> NoChanger]

-----------------------------------------------------------------------------
StartsLoad(l, k) == [loader EXCEPT ![l] = [NoLoader EXCEPT !.pc = "read", !.copy = k]]

(* loadFlags, refreshCacheIfStale: none in force *)
LookUp(l, k) ==
    /\ loader[l].pc = "idle"
    /\ ~copy[k].inForce
    /\ loader' = StartsLoad(l, k)
    /\ UNCHANGED <<version, copy, changer>>

(* scheduledRefresh, and onModuleInit *)
RefreshHourly(l) ==
    /\ "logging" \in Copy
    /\ loader[l].pc = "idle"
    /\ loader' = StartsLoad(l, "logging")
    /\ UNCHANGED <<version, copy, changer>>

ReadTable(l) ==
    /\ loader[l].pc = "read"
    /\ loader' = [loader EXCEPT ![l].pc = "store", ![l].version = version[loader[l].copy]]
    /\ UNCHANGED <<version, copy, changer>>

(* The request fails, or goes on without; logging falls back to its default. *)
ReadTableFails(l) ==
    LET k == loader[l].copy
    IN  /\ loader[l].pc = "read"
        /\ copy' = IF k = "logging" THEN [copy EXCEPT ![k].version = 0] ELSE copy
        /\ loader' = [loader EXCEPT ![l] = NoLoader]
        /\ UNCHANGED <<version, changer>>

StoreCopy(l) ==
    /\ loader[l].pc = "store"
    /\ copy' = [copy EXCEPT ![loader[l].copy] = [version |-> loader[l].version, inForce |-> TRUE]]
    /\ loader' = [loader EXCEPT ![l] = NoLoader]
    /\ UNCHANGED <<version, changer>>

(* CACHE_TTL_MS, ACTIVE_CACHE_TTL_MS *)
CopyStays(k) ==
    /\ FALSE
    /\ UNCHANGED copiesVars
CopyRunsOut(k) ==
    /\ k # "logging"
    /\ copy[k].inForce
    /\ copy' = [copy EXCEPT ![k].inForce = FALSE]
    /\ UNCHANGED <<version, loader, changer>>

-----------------------------------------------------------------------------
(* create, update, remove of a flag or override; setByKey *)
Change(c, k) ==
    /\ changer[c].pc = "idle"
    /\ version[k] < MaxVersion
    /\ version' = [version EXCEPT ![k] = @ + 1]
    /\ changer' = [changer EXCEPT ![c] = [pc |-> "changed", copy |-> k]]
    /\ UNCHANGED <<copy, loader>>

(* Another process, or somebody at the table, changed it. *)
ChangeElsewhere(k) ==
    /\ version[k] < MaxVersion
    /\ version' = [version EXCEPT ![k] = @ + 1]
    /\ UNCHANGED <<copy, loader, changer>>

(* invalidateCache *)
DropCopy(c) ==
    /\ changer[c].pc = "changed"
    /\ changer[c].copy # "logging"
    /\ copy' = [copy EXCEPT ![changer[c].copy].inForce = FALSE]
    /\ changer' = [changer EXCEPT ![c] = NoChanger]
    /\ UNCHANGED <<version, loader>>

RefreshCopy(c, l) ==
    /\ changer[c].pc = "changed"
    /\ changer[c].copy = "logging"
    /\ loader[l].pc = "idle"
    /\ loader' = StartsLoad(l, "logging")
    /\ changer' = [changer EXCEPT ![c] = NoChanger]
    /\ UNCHANGED <<version, copy>>

-----------------------------------------------------------------------------
LoaderStep(l) == ReadTable(l) \/ ReadTableFails(l) \/ StoreCopy(l)

CopiesNext ==
    \/ \E l \in Loader :
          \/ \E k \in Copy : LookUp(l, k)
          \/ RefreshHourly(l)
          \/ LoaderStep(l)
    \/ \E k \in Copy : CopyRunsOut(k) \/ ChangeElsewhere(k)
    \/ \E c \in Changer :
          \/ \E k \in Copy : Change(c, k)
          \/ DropCopy(c)
          \/ \E l \in Loader : RefreshCopy(c, l)

(* The same steps, whichever load takes them. *)
ReadSomewhere(k) == \E l \in Loader : ReadTable(l) /\ loader[l].copy = k
StoreSomewhere == \E l \in Loader : StoreCopy(l)
RefreshSomewhere == \E l \in Loader : RefreshHourly(l)

CopiesSpec == CopiesInit /\ [][CopiesNext]_copiesVars

-----------------------------------------------------------------------------
(* A change arrives: a copy that is in force and older than its table does *)
(* not stay so, whatever loads were under way when the table was changed,  *)
(* in whatever order they end, and wherever the change was made.           *)
OutOfDate(k) == copy[k].inForce /\ copy[k].version # version[k]
ChangesArrive == \A k \in Copy : OutOfDate(k) ~> ~OutOfDate(k)
=============================================================================
