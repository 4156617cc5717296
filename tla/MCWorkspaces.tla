--------------------------- MODULE MCWorkspaces ---------------------------
(***************************************************************************)
(* Instances of Workspaces for TLC: the requests each run lets clients     *)
(* send, over the accounts, operations and ids its .cfg gives.             *)
(***************************************************************************)
EXTENDS Workspaces, TLC

CONSTANTS attendance, stock, title, chart

Create == [kind: {"create"}, user: Users]
List   == [kind: {"list"}, user: Users]
Open   == [kind: {"get"}, user: Users, ws: WorkspaceIds]
Remove == [kind: {"delete"}, user: Users, ws: WorkspaceIds]
Save   == [kind: {"addPanel"}, user: Users, ws: WorkspaceIds, op: {attendance},
           title: {Blank}, width: {0}, view: {None}]
Rename == [kind: {"updatePanel"}, user: Users, ws: WorkspaceIds, panel: PanelIds,
           title: {title}, width: {Absent}, view: {Absent}]
Unpin  == [kind: {"deletePanel"}, user: Users, ws: WorkspaceIds, panel: PanelIds]
Grant  == [kind: {"setPermissions"}, user: Users, target: Users,
           grants: {<<attendance>>}]

\* Every handler, from either account, about any workspace and panel: panels of two
\* operations, edited one column or two at a time, while the admin gives, withdraws
\* and repeats the other account's grants.
Saves   == [kind: {"addPanel"}, user: Users, ws: WorkspaceIds, op: Operations,
            title: {Blank}, width: {0}, view: {chart}]
Edits   == [kind: {"updatePanel"}, user: Users, ws: WorkspaceIds, panel: PanelIds,
            title: {title}, width: {Absent}, view: {None, Absent}]
Regrant == [kind: {"setPermissions"}, user: Users, target: Users \ Admins,
            grants: {<< >>, <<attendance>>, <<attendance, attendance>>}]
TenancyRequests == UNION {Create, List, Open, Remove, Saves, Edits, Unpin, Regrant}

\* One account that may do everything: the writes of the registry, and a reader waiting
\* among them for the connection.
RegistryRequests == UNION {Create, List, Remove, Save, Rename, Unpin, Grant}

\* A workspace deleted while a panel is being saved on it.
OrphanRequests == UNION {Create, Remove, Save, Grant}

\* Slots and ids are interchangeable: the requests of a run and every property are
\* closed under renaming them.
SlotsAndIds == Permutations(Slots) \union Permutations(PanelIds) \union Permutations(WorkspaceIds)
============================================================================
