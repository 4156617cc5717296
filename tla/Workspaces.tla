---------------------------- MODULE Workspaces ----------------------------
(***************************************************************************)
(* The saved-workspace service of the platform: usecase.Workspaces and     *)
(* usecase.Admin.SetPermissions over the SQLite stores, as the HTTP        *)
(* handlers drive them.  Requests run concurrently, one goroutine each (a  *)
(* slot here).  A handler is a sequence of SQL statements and every        *)
(* statement outside a transaction takes the one pooled connection and     *)
(* gives it back, so two handlers interleave between any two statements.   *)
(* A transaction keeps the connection until it commits or rolls back.      *)
(***************************************************************************)
EXTENDS Integers, Sequences, FiniteSets

CONSTANTS
    Users,          \* accounts
    Admins,         \* the accounts with domain.RoleAdmin
    Operations,     \* every (service, operationId) a request may name
    Catalogue,      \* the ones domain.Catalog exposes
    WorkspaceIds,   \* ids newID("ws") hands out, each at most once
    PanelIds,       \* ids newID("pnl") hands out, each at most once
    Titles,         \* non-empty panel titles a request may carry
    Views,          \* domain.View values a panel may have
    Slots,          \* requests in flight at one time
    Requests,       \* the requests clients send
    None,           \* nothing: no id, no view, an id not handed out
    Gone,           \* the row of a deleted panel
    Absent,         \* a PATCH member the body does not name
    Blank           \* the empty title

MinPanelWidth == 1
MaxPanelWidth == 12
DefaultPanelWidth == 12

(***************************************************************************)
(* Requests.  A title, a width and a view stand for the columns of a panel *)
(* that a person edits: the width for the two sizes that are clamped, the  *)
(* view for the two that may be NULL.                                      *)
(***************************************************************************)
ListRequest   == [kind: {"list"}, user: Users]
CreateRequest == [kind: {"create"}, user: Users]
NamedRequest  == [kind: {"get", "delete"}, user: Users, ws: WorkspaceIds]
AddRequest    == [kind: {"addPanel"}, user: Users, ws: WorkspaceIds, op: Operations,
                  title: Titles \union {Blank}, width: Int, view: Views \union {None}]
PatchRequest  == [kind: {"updatePanel"}, user: Users, ws: WorkspaceIds, panel: PanelIds,
                  title: Titles \union {Blank, Absent}, width: Int \union {Absent},
                  view: Views \union {None, Absent}]
RemoveRequest == [kind: {"deletePanel"}, user: Users, ws: WorkspaceIds, panel: PanelIds]
GrantRequest  == [kind: {"setPermissions"}, user: Users, target: Users,
                  grants: Seq(Operations)]

Request == ListRequest \union CreateRequest \union NamedRequest \union AddRequest
             \union PatchRequest \union RemoveRequest \union GrantRequest

ASSUME AdminsAssumption == Admins \subseteq Users
ASSUME CatalogueAssumption == Catalogue \subseteq Operations
ASSUME RequestsAssumption == Requests \subseteq Request
ASSUME SentinelsAssumption ==
    /\ None \notin Users \union Operations \union Views
    /\ Absent \notin Titles \union Views \union Int \union {None, Blank}
    /\ Blank \notin Titles \union Operations
    /\ None # Gone

PanelRow == [ws: WorkspaceIds, op: Operations, title: Titles \union Operations,
             width: MinPanelWidth .. MaxPanelWidth, view: Views \union {None}]

ASSUME RowAssumption == None \notin PanelRow /\ Gone \notin PanelRow

VARIABLES
    owner,        \* whom each workspace id was handed out to; kept after the row is deleted
    wsRows,       \* ids with a row in table workspaces
    panels,       \* table panels: a row, None before it is inserted, Gone after it is deleted
    permissions,  \* table permissions: the operations each account holds
    pc,           \* the statement each slot runs next
    req,          \* the request each slot serves
    local,        \* what each handler has read or staged so far
    reply,        \* the response, once there is one
    since         \* history: what the caller could call at some moment since the request arrived

vars == <<owner, wsRows, panels, permissions, pc, req, local, reply, since>>
tables == <<owner, wsRows, panels, permissions>>

TxSteps == {"deletePanels", "deleteWorkspace", "commitDelete",
            "clearPermissions", "insertPermission", "commitSet"}
Statements == {"listWorkspaces", "listPanels", "insertWorkspace", "selectWorkspace",
               "selectPanels", "readPermissions", "beginDelete", "checkWorkspace",
               "insertPanel", "updateRow", "reloadPanel", "deletePanelRow", "beginSet"}
Busy == Statements \union TxSteps

Scratch == [owner: Users \union {None}, op: Operations \union {None},
            listed: SUBSET WorkspaceIds, todo: SUBSET WorkspaceIds,
            doomed: SUBSET PanelIds, staged: Seq(Operations)]
NoScratch == [owner |-> None, op |-> None, listed |-> {}, todo |-> {},
              doomed |-> {}, staged |-> << >>]

Statuses == {200, 201, 204, 400, 403, 404, 500}
Reply == [status: Statuses, workspaces: SUBSET WorkspaceIds, panels: SUBSET PanelIds]

Init ==
    /\ owner = [w \in WorkspaceIds |-> None]
    /\ wsRows = {}
    /\ panels = [p \in PanelIds |-> None]
    /\ permissions = [u \in Users |-> {}]
    /\ pc = [r \in Slots |-> "idle"]
    /\ req = [r \in Slots |-> None]
    /\ local = [r \in Slots |-> NoScratch]
    /\ reply = [r \in Slots |-> None]
    /\ since = [r \in Slots |-> {}]

(***************************************************************************)
(* What the code reads.                                                    *)
(***************************************************************************)
Live(p) == panels[p] \notin {None, Gone}
PanelsOf(w) == {p \in PanelIds : Live(p) /\ panels[p].ws = w}

\* catalogFor: an admin's catalogue is the whole one, anybody else's what they hold of it.
Callable(u) == IF u \in Admins THEN Catalogue ELSE permissions[u] \intersect Catalogue

Clamp(v, minimum, maximum) == IF v < minimum THEN minimum ELSE IF v > maximum THEN maximum ELSE v

ClampPanelWidth(width) == Clamp(width, MinPanelWidth, MaxPanelWidth)
NewPanelWidth(width) == ClampPanelWidth(IF width = 0 THEN DefaultPanelWidth ELSE width)
\* Fault: a blank title is stored blank.
TitleAsSent(title, op) == title

StoredTitle(title, op) == IF title = Blank THEN op ELSE title

NewRow(q) == [ws |-> q.ws, op |-> q.op, title |-> StoredTitle(q.title, q.op),
              width |-> NewPanelWidth(q.width), view |-> q.view]

\* Fault: the two states of a view a PATCH may leave out or clear are taken for one.
PatchedRowDroppingView(row, q) ==
    [row EXCEPT !.title = IF q.title = Absent THEN @ ELSE StoredTitle(q.title, row.op),
                !.width = IF q.width = Absent THEN @ ELSE ClampPanelWidth(q.width),
                !.view  = IF q.view = Absent THEN None ELSE q.view]

\* The row after UPDATE panels SET with only the columns the patch names.
PatchedRow(row, q) ==
    [row EXCEPT !.title = IF q.title = Absent THEN @ ELSE StoredTitle(q.title, row.op),
                !.width = IF q.width = Absent THEN @ ELSE ClampPanelWidth(q.width),
                !.view  = IF q.view = Absent THEN @ ELSE q.view]

NamesNothing(q) == q.title = Absent /\ q.width = Absent /\ q.view = Absent

(***************************************************************************)
(* The connection pool: SetMaxOpenConns(1).                                *)
(***************************************************************************)
\* Fault: a transaction's statements run on the pool, each on its own.
HoldsNothing(r) == FALSE

\* Fault: List keeps its rows open while it loads the panels of each.
HoldsRowsToo(r) == pc[r] \in TxSteps \union {"listPanels"}

HoldsConnection(r) == pc[r] \in TxSteps
PoolFree == \A r \in Slots : ~HoldsConnection(r)

\* A statement outside any transaction; one inside runs on the connection it holds.
Statement(r, s) == pc[r] = s /\ PoolFree
TxStatement(r, s) == pc[r] = s

Goto(r, s) == pc' = [pc EXCEPT ![r] = s]

Answer(r, status, ws, ps) ==
    /\ Goto(r, "replied")
    /\ reply' = [reply EXCEPT ![r] = [status |-> status, workspaces |-> ws, panels |-> ps]]
    /\ local' = [local EXCEPT ![r] = NoScratch]

\* Not there and not yours are one answer: 404, or 204 where nothing is left to delete.
AnswerNotFound(r) ==
    Answer(r, IF req[r].kind \in {"delete", "deletePanel"} THEN 204 ELSE 404, {}, {})

(***************************************************************************)
(* A request arrives, past requireSession, with the account it resolved.   *)
(* Ids a request names have been handed out: they are random, so nobody    *)
(* holds one before.  The second guard is the bound of the model: as many  *)
(* creations are admitted as there are ids left.                           *)
(***************************************************************************)
FirstStatement(q) ==
    CASE q.kind = "list"           -> "listWorkspaces"
      [] q.kind = "create"         -> "insertWorkspace"
      [] q.kind = "addPanel"       -> "readPermissions"
      [] q.kind = "setPermissions" -> "beginSet"
      [] OTHER                     -> "selectWorkspace"

Serving(kind) == {r \in Slots : pc[r] \in Busy /\ req[r].kind = kind}

NamesIssuedIds(q) ==
    /\ q.kind \in {"get", "delete", "addPanel", "updatePanel", "deletePanel"} => owner[q.ws] # None
    /\ q.kind \in {"updatePanel", "deletePanel"} => panels[q.panel] # None

IdsLeftFor(q) ==
    /\ q.kind = "create" =>
         Cardinality(Serving("create")) < Cardinality({w \in WorkspaceIds : owner[w] = None})
    /\ q.kind = "addPanel" =>
         Cardinality(Serving("addPanel")) < Cardinality({p \in PanelIds : panels[p] = None})

Arrive(r, q) ==
    /\ pc[r] = "idle"
    /\ NamesIssuedIds(q)
    /\ IdsLeftFor(q)
    /\ Goto(r, FirstStatement(q))
    /\ req' = [req EXCEPT ![r] = q]
    /\ since' = [since EXCEPT ![r] = Callable(q.user)]
    /\ UNCHANGED <<tables, local, reply>>

(***************************************************************************)
(* GET /api/workspaces: the rows, then one SELECT of panels per row.       *)
(***************************************************************************)
ListWorkspaces(r) ==
    /\ Statement(r, "listWorkspaces")
    /\ LET mine == {w \in wsRows : owner[w] = req[r].user}
       IN IF mine = {}
          THEN Answer(r, 200, {}, {})
          ELSE /\ Goto(r, "listPanels")
               /\ local' = [local EXCEPT ![r].listed = mine, ![r].todo = mine]
               /\ UNCHANGED reply
    /\ UNCHANGED <<tables, req, since>>

\* loadPanels of the next workspace; the summary keeps only how many there are.
ListPanels(r) ==
    /\ Statement(r, "listPanels")
    /\ \E w \in local[r].todo :
         IF local[r].todo = {w}
         THEN Answer(r, 200, local[r].listed, {})
         ELSE /\ local' = [local EXCEPT ![r].todo = local[r].todo \ {w}]
              /\ UNCHANGED <<pc, reply>>
    /\ UNCHANGED <<tables, req, since>>

(***************************************************************************)
(* store.Get: two statements, then the owner is compared.                  *)
(***************************************************************************)
SelectWorkspace(r) ==
    /\ Statement(r, "selectWorkspace")
    /\ IF req[r].ws \in wsRows
       THEN /\ Goto(r, "selectPanels")
            /\ local' = [local EXCEPT ![r].owner = owner[req[r].ws]]
            /\ UNCHANGED reply
       ELSE AnswerNotFound(r)
    /\ UNCHANGED <<tables, req, since>>

\* What each handler does once it has the workspace and it is the caller's.
OnOwnWorkspace(r) ==
    LET q == req[r]
    IN \/ q.kind = "get" /\ Answer(r, 200, {q.ws}, PanelsOf(q.ws))
       \/ q.kind = "delete" /\ Goto(r, "beginDelete") /\ UNCHANGED <<local, reply>>
       \/ q.kind = "deletePanel" /\ Goto(r, "deletePanelRow") /\ UNCHANGED <<local, reply>>
       \/ q.kind = "addPanel" /\ Goto(r, "checkWorkspace") /\ UNCHANGED <<local, reply>>
       \/ /\ q.kind = "updatePanel"
          /\ q.panel \in PanelsOf(q.ws)
          /\ Goto(r, "readPermissions")
          /\ local' = [local EXCEPT ![r].op = panels[q.panel].op]
          /\ UNCHANGED reply
       \/ /\ q.kind = "updatePanel"
          /\ q.panel \notin PanelsOf(q.ws)
          /\ AnswerNotFound(r)

\* Fault: the owner is not compared.
SelectPanelsOfAnyone(r) ==
    /\ Statement(r, "selectPanels")
    /\ OnOwnWorkspace(r)
    /\ UNCHANGED <<tables, req, since>>

SelectPanels(r) ==
    /\ Statement(r, "selectPanels")
    /\ IF local[r].owner = req[r].user THEN OnOwnWorkspace(r) ELSE AnswerNotFound(r)
    /\ UNCHANGED <<tables, req, since>>

(***************************************************************************)
(* catalogFor and catalog.Find.  AddPanel asks before it reads the         *)
(* workspace, UpdatePanel after, about the operation the panel was saved   *)
(* with.  An admin's catalogue takes no statement.                         *)
(***************************************************************************)
OperationAsked(r) == IF req[r].kind = "addPanel" THEN req[r].op ELSE local[r].op

\* Fault: the grant is checked when a panel is saved and never again.
ReadPermissionsOnSaveOnly(r) ==
    /\ pc[r] = "readPermissions"
    /\ req[r].user \notin Admins => PoolFree
    /\ IF req[r].kind = "updatePanel" \/ OperationAsked(r) \in Callable(req[r].user)
       THEN /\ Goto(r, IF req[r].kind = "addPanel" THEN "selectWorkspace" ELSE "updateRow")
            /\ UNCHANGED <<local, reply>>
       ELSE Answer(r, 400, {}, {})
    /\ UNCHANGED <<tables, req, since>>

ReadPermissions(r) ==
    /\ pc[r] = "readPermissions"
    /\ req[r].user \notin Admins => PoolFree
    /\ IF OperationAsked(r) \in Callable(req[r].user)
       THEN /\ Goto(r, IF req[r].kind = "addPanel" THEN "selectWorkspace" ELSE "updateRow")
            /\ UNCHANGED <<local, reply>>
       ELSE Answer(r, 400, {}, {})
    /\ UNCHANGED <<tables, req, since>>

(***************************************************************************)
(* POST /api/workspaces.                                                   *)
(***************************************************************************)
InsertWorkspace(r) ==
    /\ Statement(r, "insertWorkspace")
    /\ \E w \in WorkspaceIds :
         /\ owner[w] = None
         /\ owner' = [owner EXCEPT ![w] = req[r].user]
         /\ wsRows' = wsRows \union {w}
         /\ Answer(r, 201, {w}, {})
    /\ UNCHANGED <<panels, permissions, req, since>>

(***************************************************************************)
(* DELETE /api/workspaces/{id}: one transaction.  What it deletes is       *)
(* staged and reaches the tables when it commits.                          *)
(***************************************************************************)
BeginDelete(r) ==
    /\ Statement(r, "beginDelete")
    /\ Goto(r, "deletePanels")
    /\ UNCHANGED <<tables, req, local, reply, since>>

\* Fault: the panels are deleted outside the transaction.
DeletePanelsAtOnce(r) ==
    /\ TxStatement(r, "deletePanels")
    /\ panels' = [p \in PanelIds |-> IF p \in PanelsOf(req[r].ws) THEN Gone ELSE panels[p]]
    /\ Goto(r, "deleteWorkspace")
    /\ UNCHANGED <<owner, wsRows, permissions, req, local, reply, since>>

DeletePanels(r) ==
    /\ TxStatement(r, "deletePanels")
    /\ local' = [local EXCEPT ![r].doomed = PanelsOf(req[r].ws)]
    /\ Goto(r, "deleteWorkspace")
    /\ UNCHANGED <<tables, req, reply, since>>

DeleteWorkspace(r) ==
    /\ TxStatement(r, "deleteWorkspace")
    /\ Goto(r, "commitDelete")
    /\ UNCHANGED <<tables, req, local, reply, since>>

CommitDelete(r) ==
    /\ TxStatement(r, "commitDelete")
    /\ panels' = [p \in PanelIds |-> IF p \in local[r].doomed THEN Gone ELSE panels[p]]
    /\ wsRows' = wsRows \ {req[r].ws}
    /\ Answer(r, 204, {}, {})
    /\ UNCHANGED <<owner, permissions, req, since>>

(***************************************************************************)
(* POST /api/workspaces/{id}/panels: SELECT 1, then INSERT.                *)
(***************************************************************************)
CheckWorkspace(r) ==
    /\ Statement(r, "checkWorkspace")
    /\ IF req[r].ws \in wsRows
       THEN Goto(r, "insertPanel") /\ UNCHANGED <<local, reply>>
       ELSE AnswerNotFound(r)
    /\ UNCHANGED <<tables, req, since>>

InsertPanel(r) ==
    /\ Statement(r, "insertPanel")
    /\ \E p \in PanelIds :
         /\ panels[p] = None
         /\ panels' = [panels EXCEPT ![p] = NewRow(req[r])]
         /\ Answer(r, 201, {}, {p})
    /\ UNCHANGED <<owner, wsRows, permissions, req, since>>

(***************************************************************************)
(* PATCH /api/workspaces/{id}/panels/{panelId}: UPDATE ... WHERE id AND    *)
(* workspace_id, then the row is read back.  A patch that names nothing    *)
(* issues no UPDATE.                                                       *)
(***************************************************************************)
ReadBack(r) ==
    IF req[r].panel \in PanelsOf(req[r].ws)
    THEN Answer(r, 200, {}, {req[r].panel})
    ELSE AnswerNotFound(r)

UpdateRow(r) ==
    LET q == req[r]
    IN /\ Statement(r, "updateRow")
       /\ \/ NamesNothing(q) /\ ReadBack(r) /\ UNCHANGED panels
          \/ /\ ~NamesNothing(q) /\ q.panel \in PanelsOf(q.ws)
             /\ panels' = [panels EXCEPT ![q.panel] = PatchedRow(@, q)]
             /\ Goto(r, "reloadPanel")
             /\ UNCHANGED <<local, reply>>
          \/ /\ ~NamesNothing(q) /\ q.panel \notin PanelsOf(q.ws)
             /\ AnswerNotFound(r)
             /\ UNCHANGED panels
       /\ UNCHANGED <<owner, wsRows, permissions, req, since>>

ReloadPanel(r) ==
    /\ Statement(r, "reloadPanel")
    /\ ReadBack(r)
    /\ UNCHANGED <<tables, req, since>>

(***************************************************************************)
(* DELETE /api/workspaces/{id}/panels/{panelId}.                           *)
(***************************************************************************)
\* Fault: DELETE FROM panels WHERE id = ?, and no more.
DeletePanelRowAnywhere(r) ==
    /\ Statement(r, "deletePanelRow")
    /\ panels' = [p \in PanelIds |-> IF Live(p) /\ p = req[r].panel THEN Gone ELSE panels[p]]
    /\ Answer(r, 204, {}, {})
    /\ UNCHANGED <<owner, wsRows, permissions, req, since>>

DeletePanelRow(r) ==
    /\ Statement(r, "deletePanelRow")
    /\ panels' = [p \in PanelIds |->
                    IF p \in PanelsOf(req[r].ws) /\ p = req[r].panel THEN Gone ELSE panels[p]]
    /\ Answer(r, 204, {}, {})
    /\ UNCHANGED <<owner, wsRows, permissions, req, since>>

(***************************************************************************)
(* PUT /api/users/{id}/permissions: DELETE, one INSERT per permission,     *)
(* COMMIT.  The table's primary key refuses the same permission twice.     *)
(***************************************************************************)
RangeOf(s) == {s[i] : i \in DOMAIN s}

BeginSet(r) ==
    /\ pc[r] = "beginSet"
    /\ \/ req[r].user \notin Admins /\ Answer(r, 403, {}, {})
       \/ /\ req[r].user \in Admins /\ PoolFree
          /\ Goto(r, "clearPermissions")
          /\ UNCHANGED <<local, reply>>
    /\ UNCHANGED <<tables, req, since>>

\* Fault: what was held is deleted outside the transaction.
ClearPermissionsAtOnce(r) ==
    /\ TxStatement(r, "clearPermissions")
    /\ permissions' = [permissions EXCEPT ![req[r].target] = {}]
    /\ Goto(r, IF req[r].grants = << >> THEN "commitSet" ELSE "insertPermission")
    /\ UNCHANGED <<owner, wsRows, panels, req, local, reply, since>>

ClearPermissions(r) ==
    /\ TxStatement(r, "clearPermissions")
    /\ local' = [local EXCEPT ![r].staged = << >>]
    /\ Goto(r, IF req[r].grants = << >> THEN "commitSet" ELSE "insertPermission")
    /\ UNCHANGED <<tables, req, reply, since>>

InsertPermission(r) ==
    LET staged == local[r].staged
        next   == req[r].grants[Len(staged) + 1]
    IN /\ TxStatement(r, "insertPermission")
       /\ \/ next \in RangeOf(staged) /\ Answer(r, 500, {}, {})
          \/ /\ next \notin RangeOf(staged)
             /\ local' = [local EXCEPT ![r].staged = Append(staged, next)]
             /\ Goto(r, IF Len(staged) + 1 = Len(req[r].grants) THEN "commitSet" ELSE "insertPermission")
             /\ UNCHANGED reply
       /\ UNCHANGED <<tables, req, since>>

CommitSet(r) ==
    LET held == RangeOf(local[r].staged)
    IN /\ TxStatement(r, "commitSet")
       /\ permissions' = [permissions EXCEPT ![req[r].target] = held]
       /\ since' = [s \in Slots |->
                      IF pc[s] \in Busy /\ req[s].user = req[r].target
                      THEN since[s] \union (held \intersect Catalogue)
                      ELSE since[s]]
       /\ Answer(r, 204, {}, {})
       /\ UNCHANGED <<owner, wsRows, panels, req>>

(***************************************************************************)
(* What the environment does.  A statement may fail, or the client hang up *)
(* and cancel the context: the handler returns the error, 500, and a       *)
(* transaction rolls back.  The process may die: whatever was not          *)
(* committed is lost, and the tables are what the next start finds.        *)
(***************************************************************************)
Fail(r) ==
    /\ pc[r] \in Busy
    /\ Answer(r, 500, {}, {})
    /\ UNCHANGED <<tables, req, since>>

Close(r) ==
    /\ pc[r] = "replied"
    /\ Goto(r, "idle")
    /\ req' = [req EXCEPT ![r] = None]
    /\ reply' = [reply EXCEPT ![r] = None]
    /\ since' = [since EXCEPT ![r] = {}]
    /\ UNCHANGED <<tables, local>>

Crash ==
    /\ pc' = [r \in Slots |-> "idle"]
    /\ req' = [r \in Slots |-> None]
    /\ local' = [r \in Slots |-> NoScratch]
    /\ reply' = [r \in Slots |-> None]
    /\ since' = [r \in Slots |-> {}]
    /\ UNCHANGED tables

Step(r) ==
    \/ ListWorkspaces(r) \/ ListPanels(r)
    \/ SelectWorkspace(r) \/ SelectPanels(r) \/ ReadPermissions(r)
    \/ InsertWorkspace(r)
    \/ BeginDelete(r) \/ DeletePanels(r) \/ DeleteWorkspace(r) \/ CommitDelete(r)
    \/ CheckWorkspace(r) \/ InsertPanel(r)
    \/ UpdateRow(r) \/ ReloadPanel(r) \/ DeletePanelRow(r)
    \/ BeginSet(r) \/ ClearPermissions(r) \/ InsertPermission(r) \/ CommitSet(r)
    \/ Close(r)

Next ==
    \/ \E r \in Slots, q \in Requests : Arrive(r, q)
    \/ \E r \in Slots : Step(r) \/ Fail(r)
    \/ Crash

\* database/sql hands a freed connection to a waiting request, so a handler
\* that waits again and again is served: strong fairness, one slot at a time.
Fairness == \A r \in Slots : SF_vars(Step(r))

Spec == Init /\ [][Next]_vars
FairSpec == Spec /\ Fairness

-----------------------------------------------------------------------------
(***************************************************************************)
(* Properties.                                                             *)
(***************************************************************************)

\* Every table holds rows of its type - panel sizes the grid can draw and
\* titles that are never blank among them (usecase AddPanel, UpdatePanel) -
\* and every slot is at a step of its handler.
TypeOK ==
    /\ owner \in [WorkspaceIds -> Users \union {None}]
    /\ wsRows \subseteq {w \in WorkspaceIds : owner[w] # None}
    /\ panels \in [PanelIds -> PanelRow \union {None, Gone}]
    /\ permissions \in [Users -> SUBSET Operations]
    /\ pc \in [Slots -> Busy \union {"idle", "replied"}]
    /\ req \in [Slots -> Requests \union {None}]
    /\ local \in [Slots -> Scratch]
    /\ reply \in [Slots -> Reply \union {None}]
    /\ since \in [Slots -> SUBSET Operations]

Steps(r) == pc'[r] # pc[r]
Replies(r) == pc[r] \in Busy /\ pc'[r] = "replied"
WorkspaceOfPanel(p) == IF Live(p) THEN panels[p].ws ELSE panels'[p].ws

\* A response never shows a workspace or a panel of somebody else's, whatever
\* happened between the ownership check and the statement that read it
\* (usecase Workspaces: every method compares Owner once, on a first read).
ReplyShowsOwn ==
    [][\A r \in Slots : Replies(r) =>
         /\ \A w \in reply'[r].workspaces : owner'[w] = req[r].user
         /\ \A p \in reply'[r].panels : owner[panels'[p].ws] = req[r].user]_vars

\* A workspace appears or goes, and a panel is added, changed or removed, only by
\* a request of the workspace's own owner, though the write comes statements
\* after the check and names ids the caller chose.
OnlyOwnerWrites ==
    [][/\ \A w \in WorkspaceIds : (w \in wsRows) # (w \in wsRows') =>
            \E r \in Slots : Steps(r) /\ req[r].user = owner'[w]
       /\ \A p \in PanelIds : panels'[p] # panels[p] =>
            \E r \in Slots : Steps(r) /\ req[r].user = owner[WorkspaceOfPanel(p)]]_vars

\* The step that removes a workspace leaves no panel of it behind, those added
\* while its own transaction was under way included (store.Delete).
DeleteTakesEveryPanel ==
    [][\A w \in wsRows \ wsRows' : (PanelsOf(w) = {})']_vars

\* A panel is saved or changed only over an operation its owner could call at
\* some moment of the request: a permission withdrawn before the request began
\* is never used, whichever of the two the handler reads first (AC-P-107, AC-P-109).
SavedUnderGrant ==
    [][\A p \in PanelIds : panels'[p] # panels[p] /\ panels'[p] # Gone =>
         \E r \in Slots : Steps(r) /\ panels'[p].op \in since[r]]_vars

\* A PATCH writes the columns its body names and no other, so two of them in
\* flight never undo each other; what a panel is of never changes (P11, P13).
PatchWritesNamedColumns ==
    [][\A p \in PanelIds : Live(p) /\ panels'[p] # panels[p] /\ panels'[p] # Gone =>
         /\ panels'[p].ws = panels[p].ws /\ panels'[p].op = panels[p].op
         /\ \E r \in Slots :
              /\ Steps(r) /\ req[r].kind = "updatePanel" /\ req[r].panel = p
              /\ req[r].title = Absent => panels'[p].title = panels[p].title
              /\ req[r].width = Absent => panels'[p].width = panels[p].width
              /\ req[r].view = Absent => panels'[p].view = panels[p].view]_vars

\* What an account holds only ever becomes a whole set an admin asked for: a
\* failed, repeated or interrupted PUT leaves the set that was there (permissions.Set).
GrantsReplacedWhole ==
    [][\A u \in Users : permissions'[u] # permissions[u] =>
         \E r \in Slots :
            /\ Steps(r) /\ req[r].kind = "setPermissions"
            /\ req[r].user \in Admins /\ req[r].target = u
            /\ permissions'[u] = RangeOf(req[r].grants)]_vars

\* The doc of store.AddPanel: it fails "when workspaceID names no workspace,
\* rather than silently storing an orphaned panel".
NoOrphanPanel == \A p \in PanelIds : Live(p) => panels[p].ws \in wsRows

\* Every request is answered: no handler waits for ever for the one connection.
EventuallyReplies == \A r \in Slots : pc[r] \in Busy ~> pc[r] \notin Busy

(***************************************************************************)
(* What people see of the tables: the panels of a workspace that is there. *)
(***************************************************************************)
ShownPanels == {p \in PanelIds : Live(p) /\ panels[p].ws \in wsRows}

Shown == [p \in ShownPanels |-> panels[p]]
Holder == [w \in WorkspaceIds |-> IF owner[w] # None /\ w \notin wsRows THEN Gone ELSE owner[w]]

Registry == INSTANCE WorkspaceRegistry WITH holder <- Holder, shown <- Shown, granted <- permissions

\* The handlers, interleaved statement by statement, implement the registry.
ImplementsRegistry == Registry!Spec
=============================================================================
