------------------------------- MODULE Naming -------------------------------
(***************************************************************************)
(* The names the server makes: the key of a project, unique in its         *)
(* workspace, the slug of a workspace, unique for its owner, and the key   *)
(* of an issue, made of the project's key and counter and unique in the    *)
(* whole installation.  A project or workspace is inserted under one       *)
(* candidate after another until the unique index lets one in; the board   *)
(* of a project is inserted in a call of its own.                          *)
(***************************************************************************)
EXTENDS FiniteSets, Naturals, Sequences

CONSTANTS
    Workspace,    \* the scopes of project keys
    Owner,        \* the scopes of workspace slugs
    Entry,        \* project and workspace row ids
    Issue,        \* issue row ids
    Bases,        \* names as typed or derived: sequences of strings
    Creator,      \* creates and renames under way at the same time
    MaxRetry,     \* MAX_KEY_RETRY, MAX_SLUG_RETRY; bound: fewer in a run
    RandomTails   \* random suffixes; bound: few

ASSUME NamingAssumption ==
    /\ Workspace \cap Owner = {} /\ Workspace \cup Owner # {}
    /\ Entry # {} /\ Bases # {}
    /\ MaxRetry \in Nat \ {0}

VARIABLES
    entry,     \* entry[e]: a Project or Workspace row
    boarded,   \* projects that have their board
    issue,     \* issue[i]: an Issue row
    creator,   \* creator[r]: where request r is
    halfMade   \* projects whose creation ended before the board was there

namingVars == <<entry, boarded, issue, creator, halfMade>>

-----------------------------------------------------------------------------
Scope == Workspace \cup Owner
AnyScope == CHOOSE x \in Scope : TRUE
AnyEntry == CHOOSE e \in Entry : TRUE

(* A suffix is appended to the base: MARK, MARK2, MARK3, ..., MARKXY. *)
Suffixes == 1..(MaxRetry - 1) \cup RandomTails
Names == Bases \cup {Append(b, x) : b \in Bases, x \in Suffixes}

EntryRecord == [row: {"UNUSED", "LIVE", "GONE"}, scope: Scope, name: Names, issueCounter: Nat]

IssueRecord == [row: {"UNUSED", "LIVE", "GONE"}, project: Entry, key: Names, number: Nat]

CreatorRecord ==
    [pc: {"idle", "create", "rename", "board"}, entry: Entry, scope: Scope,
     base: Bases, attempt: 0..MaxRetry]

NoEntry == [row |-> "UNUSED", scope |-> AnyScope, name |-> CHOOSE b \in Bases : TRUE,
            issueCounter |-> 0]
NoIssue == [row |-> "UNUSED", project |-> AnyEntry, key |-> NoEntry.name, number |-> 0]
NoCreator == [pc |-> "idle", entry |-> AnyEntry, scope |-> AnyScope,
              base |-> NoEntry.name, attempt |-> 0]

NamingTypeOK ==
    /\ entry \in [Entry -> EntryRecord]
    /\ boarded \in SUBSET Entry
    /\ issue \in [Issue -> IssueRecord]
    /\ creator \in [Creator -> CreatorRecord]
    /\ halfMade \in SUBSET Entry

NamingInit ==
    /\ entry = [e \in Entry |-> NoEntry]
    /\ boarded = {}
    /\ issue = [i \in Issue |-> NoIssue]
    /\ creator = [r \in Creator |-> NoCreator]
    /\ halfMade = {}

LiveEntry(e) == entry[e].row = "LIVE"
IsProject(e) == LiveEntry(e) /\ entry[e].scope \in Workspace

(* candidateProjectKey, candidateSlug *)
Candidates(base, attempt) ==
    CASE attempt = 0 -> {base}
      [] attempt \in 1..(MaxRetry - 1) -> {Append(base, attempt)}
      [] OTHER -> {Append(base, x) : x \in RandomTails}

NameTaken(e, scope, name) ==
    \E x \in Entry \ {e} : LiveEntry(x) /\ entry[x].scope = scope /\ entry[x].name = name

-----------------------------------------------------------------------------
(* projects.create, workspaces.create, workspaces.update with a name *)

BeginCreate(r, e, scope, base) ==
    /\ creator[r].pc = "idle"
    /\ entry[e].row = "UNUSED"
    /\ \A q \in Creator : creator[q].pc = "idle" \/ creator[q].entry # e
    /\ creator' = [creator EXCEPT ![r] = [pc |-> "create", entry |-> e, scope |-> scope,
                                          base |-> base, attempt |-> 0]]
    /\ UNCHANGED <<entry, boarded, issue, halfMade>>

BeginRename(r, e, base) ==
    /\ creator[r].pc = "idle"
    /\ LiveEntry(e) /\ ~IsProject(e)
    /\ creator' = [creator EXCEPT ![r] = [pc |-> "rename", entry |-> e,
                                          scope |-> entry[e].scope, base |-> base, attempt |-> 0]]
    /\ UNCHANGED <<entry, boarded, issue, halfMade>>

(* The unique index refuses the candidate: the loop takes the next, and    *)
(* gives up after the random one.  A rename is held to the owner of then.  *)
InScope(r) == IF creator[r].pc = "rename" THEN entry[creator[r].entry].scope ELSE creator[r].scope

TryNext(r) ==
    \E name \in Candidates(creator[r].base, creator[r].attempt) :
        /\ creator[r].pc \in {"create", "rename"}
        /\ NameTaken(creator[r].entry, InScope(r), name)
        /\ creator' = [creator EXCEPT ![r] = IF @.attempt < MaxRetry
                                             THEN [@ EXCEPT !.attempt = creator[r].attempt + 1]
                                             ELSE NoCreator]
        /\ UNCHANGED <<entry, boarded, issue, halfMade>>

InsertNamed(r) ==
    LET e == creator[r].entry
        scope == creator[r].scope
    IN  \E name \in Candidates(creator[r].base, creator[r].attempt) :
           /\ creator[r].pc = "create"
           /\ ~NameTaken(e, scope, name)
           /\ entry' = [entry EXCEPT ![e] = [row |-> "LIVE", scope |-> scope, name |-> name,
                                             issueCounter |-> 0]]
           /\ creator' = [creator EXCEPT ![r] = IF scope \in Workspace
                                                THEN [@ EXCEPT !.pc = "board"]
                                                ELSE NoCreator]
           /\ UNCHANGED <<boarded, issue, halfMade>>

WriteName(r) ==
    LET e == creator[r].entry
    IN  \E name \in Candidates(creator[r].base, creator[r].attempt) :
           /\ creator[r].pc = "rename"
           /\ LiveEntry(e)
           /\ ~NameTaken(e, entry[e].scope, name)
           /\ entry' = [entry EXCEPT ![e].name = name]
           /\ creator' = [creator EXCEPT ![r] = NoCreator]
           /\ UNCHANGED <<boarded, issue, halfMade>>

CreateDefaultBoard(r) ==
    /\ creator[r].pc = "board"
    /\ LiveEntry(creator[r].entry)
    /\ boarded' = boarded \cup {creator[r].entry}
    /\ creator' = [creator EXCEPT ![r] = NoCreator]
    /\ UNCHANGED <<entry, issue, halfMade>>

(* A call fails, as it does when the row is gone, or the process stops. *)
CreatorFails(r) ==
    /\ creator[r].pc # "idle"
    /\ halfMade' = IF creator[r].pc = "board" THEN halfMade \cup {creator[r].entry} ELSE halfMade
    /\ creator' = [creator EXCEPT ![r] = NoCreator]
    /\ UNCHANGED <<entry, boarded, issue>>

-----------------------------------------------------------------------------
DeleteEntry(e) ==
    /\ LiveEntry(e)
    /\ entry' = [entry EXCEPT ![e].row = "GONE"]
    /\ boarded' = boarded \ {e}
    /\ issue' = [i \in Issue |-> IF issue[i].row = "LIVE" /\ issue[i].project = e
                                 THEN [issue[i] EXCEPT !.row = "GONE"]
                                 ELSE issue[i]]
    /\ UNCHANGED <<creator, halfMade>>

(* The new owner may have a workspace of that slug: the index refuses it. *)
TransferWorkspace(e, owner) ==
    /\ LiveEntry(e) /\ ~IsProject(e)
    /\ entry[e].scope # owner
    /\ ~NameTaken(e, owner, entry[e].name)
    /\ entry' = [entry EXCEPT ![e].scope = owner]
    /\ UNCHANGED <<boarded, issue, creator, halfMade>>

(* The number of the next issue: the counter is incremented in the         *)
(* transaction, which the key's unique index may still roll back.          *)
NextNumberByCount(e) ==
    1 + Cardinality({i \in Issue : issue[i].row = "LIVE" /\ issue[i].project = e})
NextNumber(e) == entry[e].issueCounter + 1

CreateIssue(e, i) ==
    /\ IsProject(e)
    /\ issue[i].row = "UNUSED"
    /\ \A j \in Issue : issue[j].row = "LIVE" =>
                           <<issue[j].key, issue[j].number>> # <<entry[e].name, NextNumber(e)>>
    /\ entry' = [entry EXCEPT ![e].issueCounter = @ + 1]
    /\ issue' = [issue EXCEPT ![i] = [row |-> "LIVE", project |-> e, key |-> entry[e].name,
                                      number |-> NextNumber(e)]]
    /\ UNCHANGED <<boarded, creator, halfMade>>

DeleteIssueRow(i) ==
    /\ issue[i].row = "LIVE"
    /\ issue' = [issue EXCEPT ![i].row = "GONE"]
    /\ UNCHANGED <<entry, boarded, creator, halfMade>>

-----------------------------------------------------------------------------
CreatorStep(r) ==
    \/ TryNext(r)
    \/ InsertNamed(r)
    \/ WriteName(r)
    \/ CreateDefaultBoard(r)
    \/ CreatorFails(r)

NamingNext ==
    \/ \E r \in Creator, e \in Entry, base \in Bases :
          \/ \E scope \in Scope : BeginCreate(r, e, scope, base)
          \/ BeginRename(r, e, base)
    \/ \E r \in Creator : CreatorStep(r)
    \/ \E e \in Entry :
          \/ DeleteEntry(e)
          \/ \E owner \in Owner : TransferWorkspace(e, owner)
          \/ \E i \in Issue : CreateIssue(e, i)
    \/ \E i \in Issue : DeleteIssueRow(i)

NamingSpec == NamingInit /\ [][NamingNext]_namingVars

-----------------------------------------------------------------------------
(* The number of a deleted issue is not given again in its project, so a   *)
(* link to it does not lead to another issue later.                        *)
NumbersRetired ==
    \A i, j \in Issue :
        i # j /\ issue[i].row # "UNUSED" /\ issue[j].row # "UNUSED"
              /\ issue[i].project = issue[j].project
        => issue[i].number # issue[j].number

(* A project without its board is one that is just being made, or one      *)
(* whose creation failed in between: its issues have no column.            *)
BoardlessExplained ==
    \A e \in Entry :
        IsProject(e) => \/ e \in boarded \cup halfMade
                        \/ \E r \in Creator : creator[r].pc = "board" /\ creator[r].entry = e

NamesHold == NumbersRetired /\ BoardlessExplained
=============================================================================
