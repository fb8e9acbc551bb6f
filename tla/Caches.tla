-------------------------------- MODULE Caches ------------------------------
(***************************************************************************)
(* CacheTagsService and its callers, for one user, workspace and issue:    *)
(* the cached views, the list of keys kept for each tag, wrap() under way, *)
(* and the invalidations that the handlers start after their writes.       *)
(* Every call of the store is a step of its own; what is cached is known   *)
(* only to be stale or not.                                                *)
(***************************************************************************)
EXTENDS Naturals

CONSTANTS
    View,     \* views in use, of those in AllViews
    Filler,   \* calls of wrap() under way at the same time
    Buster,   \* handlers between their write and the end of its invalidations
    Ttl       \* time to live of an entry; a list lives twice as long

AllViews == {"workspaceList", "projectList", "issue", "activity", "appInfo"}

ASSUME CachesAssumption == View \subseteq AllViews /\ View # {} /\ Ttl \in Nat \ {0}

VARIABLES
    cached,    \* cached[v]: the entry of view v
    listed,    \* listed[t]: the keys kept for tag t
    filler,    \* filler[f]: where that call of wrap() is
    buster,    \* buster[b]: where that handler is
    excused    \* views whose entry may outlive a write, for a reason below

cachesVars == <<cached, listed, filler, buster, excused>>

-----------------------------------------------------------------------------
TagsOf(v) ==
    CASE v = "workspaceList" -> {"user", "workspaces"}
      [] v = "projectList"   -> {"workspace", "user"}
      [] v = "issue"         -> {"issue:key"}
      [] v = "activity"      -> {"issue:id"}
      [] v = "appInfo"       -> {"settings"}

Tag == UNION {TagsOf(v) : v \in View}

(* What the handlers change, and the tags they invalidate then.  The list  *)
(* of workspaces shows the name, the owner and the numbers of members and  *)
(* projects of each.                                                       *)
Handlers ==
    {[writes |-> {"workspaceList"}, busts |-> {"user"}],                        \* workspace create
     [writes |-> {"workspaceList"}, busts |-> {"workspace"}],                   \* workspace update
     [writes |-> {"workspaceList", "projectList"}, busts |-> {"workspace", "workspaces"}],  \* delete
     [writes |-> {"workspaceList", "projectList"}, busts |-> {"workspace", "user"}], \* transfer
     [writes |-> {"workspaceList", "projectList"}, busts |-> {"user"}],         \* member add, remove
     [writes |-> {"workspaceList", "projectList"}, busts |-> {}],               \* join by link
     [writes |-> {"workspaceList", "projectList"}, busts |-> {"workspace"}],    \* project create, delete
     [writes |-> {"projectList"}, busts |-> {"workspace"}],                     \* project update, member add
     [writes |-> {"projectList"}, busts |-> {}],                                \* project member remove
     [writes |-> {"issue", "activity"}, busts |-> {"issue:id", "issue:key"}],   \* issue update, move, delete
     [writes |-> {"issue"}, busts |-> {"issue:id", "issue:key"}],               \* star, watch
     [writes |-> {"issue", "activity"}, busts |-> {}],                          \* bulk update, comment
     [writes |-> {"appInfo"}, busts |-> {"settings"}]}                          \* setByKey, uploadAppLogo

Changes ==
    {[writes |-> h.writes \cap View, busts |-> h.busts \cap Tag] :
        h \in {x \in Handlers : x.writes \cap View # {}}}

CachedRecord == [there: BOOLEAN, stale: BOOLEAN, left: 0..Ttl]
ListedRecord == [keys: SUBSET View, left: 0..2 * Ttl]
FillerRecord ==
    [pc: {"idle", "load", "set", "list", "append"}, view: View, stale: BOOLEAN,
     todo: SUBSET Tag, tag: Tag, keys: SUBSET View, overlap: BOOLEAN]
BusterRecord ==
    [pc: {"idle", "read", "entries", "list"}, todo: SUBSET Tag, tag: Tag, keys: SUBSET View]

NotCached == [there |-> FALSE, stale |-> FALSE, left |-> 0]
NotListed == [keys |-> {}, left |-> 0]
AnyTag == CHOOSE t \in Tag : TRUE
NoFiller == [pc |-> "idle", view |-> CHOOSE v \in View : TRUE, stale |-> FALSE,
             todo |-> {}, tag |-> AnyTag, keys |-> {}, overlap |-> FALSE]
NoBuster == [pc |-> "idle", todo |-> {}, tag |-> AnyTag, keys |-> {}]

CachesTypeOK ==
    /\ cached \in [View -> CachedRecord]
    /\ listed \in [Tag -> ListedRecord]
    /\ filler \in [Filler -> FillerRecord]
    /\ buster \in [Buster -> BusterRecord]
    /\ excused \in SUBSET View

CachesInit ==
    /\ cached = [v \in View |-> NotCached]
    /\ listed = [t \in Tag |-> NotListed]
    /\ filler = [f \in Filler |-> NoFiller]
    /\ buster = [b \in Buster |-> NoBuster]
    /\ excused = {}

Filling(f) == filler[f].pc # "idle"
Busting(b) == buster[b].pc # "idle"

(* Two calls get in each other's way when they have a tag in common. *)
Overlapped(T) == {f \in Filler : Filling(f) /\ TagsOf(filler[f].view) \cap T # {}}
Storing(f) == filler[f].pc \in {"load", "set"}
Appending(f) == filler[f].pc \in {"list", "append"}
Disturbed(F, fs) ==
    [f \in Filler |-> IF f \in F /\ Storing(f) THEN [fs[f] EXCEPT !.overlap = TRUE] ELSE fs[f]]
BustsUnderWay(T) == {b \in Buster : buster[b].todo \cap T # {}}

-----------------------------------------------------------------------------
(* wrap *)

BeginFill(f, v) ==
    LET others == Overlapped(TagsOf(v))
    IN  /\ filler[f].pc = "idle"
        /\ ~cached[v].there
        /\ filler' = Disturbed(others,
               [filler EXCEPT ![f] = [NoFiller EXCEPT !.pc = "load", !.view = v,
                    !.overlap = (others # {} \/ BustsUnderWay(TagsOf(v)) # {})]])
        /\ excused' = excused \cup {filler[g].view : g \in {x \in others : Appending(x)}}
        /\ UNCHANGED <<cached, listed, buster>>

LoaderReads(f) ==
    /\ filler[f].pc = "load"
    /\ filler' = [filler EXCEPT ![f].pc = "set", ![f].stale = FALSE]
    /\ UNCHANGED <<cached, listed, buster, excused>>

StoreEntry(f) ==
    LET v == filler[f].view
    IN  /\ filler[f].pc = "set"
        /\ cached' = [cached EXCEPT ![v] = [there |-> TRUE, stale |-> filler[f].stale, left |-> Ttl]]
        /\ excused' = IF filler[f].overlap THEN excused \cup {v} ELSE excused \ {v}
        /\ filler' = [filler EXCEPT ![f] = [NoFiller EXCEPT !.pc = "list", !.view = v, !.todo = TagsOf(v)]]
        /\ UNCHANGED <<listed, buster>>

ReadList(f, t) ==
    /\ filler[f].pc = "list"
    /\ t \in filler[f].todo
    /\ filler' = [filler EXCEPT ![f].pc = "append", ![f].tag = t, ![f].keys = listed[t].keys]
    /\ UNCHANGED <<cached, listed, buster, excused>>

(* A list that has the key already is not written, and lives no longer. *)
AppendKey(f) ==
    LET v == filler[f].view
        t == filler[f].tag
        left == filler[f].todo \ {t}
    IN  /\ filler[f].pc = "append"
        /\ listed' = IF v \in filler[f].keys
                     THEN listed
                     ELSE [listed EXCEPT ![t] = [keys |-> filler[f].keys \cup {v}, left |-> 2 * Ttl]]
        /\ filler' = [filler EXCEPT ![f] = IF left = {}
                                           THEN NoFiller
                                           ELSE [NoFiller EXCEPT !.pc = "list", !.view = v, !.todo = left]]
        /\ UNCHANGED <<cached, buster, excused>>

-----------------------------------------------------------------------------
(* A handler writes, and then invalidates. *)

Outdated(V) ==
    /\ cached' = [v \in View |-> IF v \in V /\ cached[v].there
                                 THEN [cached[v] EXCEPT !.stale = TRUE]
                                 ELSE cached[v]]

Write(b, c) ==
    LET unheard == {v \in c.writes : TagsOf(v) \cap c.busts = {}}
        crossed == Overlapped(c.busts)
        late == {f \in Filler : filler[f].view \in c.writes /\ filler[f].pc = "set"}
        unheardLate == {f \in late : filler[f].view \in unheard}
    IN  /\ buster[b].pc = "idle"
        /\ Outdated(c.writes)
        /\ filler' = Disturbed(crossed \cup unheardLate,
                             [f \in Filler |-> [filler[f] EXCEPT !.stale = @ \/ f \in late]])
        /\ excused' = excused \cup unheard
                      \cup {filler[f].view : f \in {x \in crossed : Appending(x)}}
        /\ buster' = IF c.busts = {}
                     THEN buster
                     ELSE [buster EXCEPT ![b] = [NoBuster EXCEPT !.pc = "read", !.todo = c.busts]]
        /\ UNCHANGED listed

ReadKeys(b, t) ==
    /\ buster[b].pc = "read"
    /\ t \in buster[b].todo
    /\ buster' = [buster EXCEPT ![b].pc = "entries", ![b].tag = t, ![b].keys = listed[t].keys]
    /\ UNCHANGED <<cached, listed, filler, excused>>

ForgetEntries(b) ==
    /\ buster[b].pc = "entries"
    /\ buster' = [buster EXCEPT ![b].pc = "list"]
    /\ UNCHANGED <<cached, listed, filler, excused>>
DropEntries(b) ==
    /\ buster[b].pc = "entries"
    /\ cached' = [v \in View |-> IF v \in buster[b].keys THEN NotCached ELSE cached[v]]
    /\ buster' = [buster EXCEPT ![b].pc = "list"]
    /\ UNCHANGED <<listed, filler, excused>>

DropList(b) ==
    LET left == buster[b].todo \ {buster[b].tag}
    IN  /\ buster[b].pc = "list"
        /\ listed' = [listed EXCEPT ![buster[b].tag] = NotListed]
        /\ buster' = [buster EXCEPT ![b] = IF left = {}
                                           THEN NoBuster
                                           ELSE [NoBuster EXCEPT !.pc = "read", !.todo = left]]
        /\ UNCHANGED <<cached, filler, excused>>

(* A call of the store fails, which is logged only, or the process stops. *)
FillFails(f) ==
    /\ Filling(f)
    /\ excused' = IF Appending(f) THEN excused \cup {filler[f].view} ELSE excused
    /\ filler' = [filler EXCEPT ![f] = NoFiller]
    /\ UNCHANGED <<cached, listed, buster>>

BustFails(b) ==
    /\ Busting(b)
    /\ excused' = excused \cup {v \in View : TagsOf(v) \cap buster[b].todo # {}}
    /\ buster' = [buster EXCEPT ![b] = NoBuster]
    /\ UNCHANGED <<cached, listed, filler>>

(* Time passes: entries and lists run out, each on its own.  An entry that *)
(* was stored again while its list was old outlives the list.              *)
TimePasses ==
    LET older(n) == IF n = 0 THEN 0 ELSE n - 1
        ending == {t \in Tag : listed[t].left = 1}
    IN  /\ cached' = [v \in View |-> IF cached[v].left <= 1
                                     THEN NotCached
                                     ELSE [cached[v] EXCEPT !.left = older(@)]]
        /\ listed' = [t \in Tag |-> IF listed[t].left <= 1
                                    THEN NotListed
                                    ELSE [listed[t] EXCEPT !.left = older(@)]]
        /\ excused' = excused \cup {v \in View : TagsOf(v) \cap ending # {}}
        /\ UNCHANGED <<filler, buster>>

-----------------------------------------------------------------------------
CachesNext ==
    \/ \E f \in Filler :
          \/ \E v \in View : BeginFill(f, v)
          \/ LoaderReads(f)
          \/ StoreEntry(f)
          \/ \E t \in Tag : ReadList(f, t)
          \/ AppendKey(f)
          \/ FillFails(f)
    \/ \E b \in Buster :
          \/ \E c \in Changes : Write(b, c)
          \/ \E t \in Tag : ReadKeys(b, t)
          \/ DropEntries(b)
          \/ DropList(b)
          \/ BustFails(b)
    \/ TimePasses

CachesSpec == CachesInit /\ [][CachesNext]_cachesVars

-----------------------------------------------------------------------------
(* A view that no longer shows what is in the database is about to be      *)
(* dropped, or there is a reason: the write invalidates none of its tags,  *)
(* another call on one of its tags overlapped with its filling, the list   *)
(* of one of its tags ran out before it, or a call of the store failed.    *)
StaleExplained ==
    \A v \in View :
        cached[v].stale => v \in excused \/ BustsUnderWay(TagsOf(v)) # {}
=============================================================================
