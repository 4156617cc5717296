------------------------- MODULE WorkspaceRegistry -------------------------
(***************************************************************************)
(* What the saved-workspace service promises, each operation in one step:  *)
(* a workspace goes with all its panels and its id never comes back, a     *)
(* panel keeps its workspace and its operation for life, and a person's    *)
(* permissions are replaced as a whole.  Workspaces implements it.         *)
(***************************************************************************)
CONSTANTS Users, Operations, WorkspaceIds, PanelIds, PanelRow, None, Gone

VARIABLES
    holder,     \* who holds each workspace: None before it is made, Gone after
    shown,      \* the panels there are, as a function on their ids
    granted     \* what each account may call

registry == <<holder, shown, granted>>

Init ==
    /\ holder = [w \in WorkspaceIds |-> None]
    /\ shown = [p \in {} |-> None]
    /\ granted = [u \in Users |-> {}]

Without(ids) == [p \in DOMAIN shown \ ids |-> shown[p]]

Create(u, w) ==
    /\ holder[w] = None
    /\ holder' = [holder EXCEPT ![w] = u]
    /\ UNCHANGED <<shown, granted>>

Delete(w) ==
    /\ holder[w] \in Users
    /\ holder' = [holder EXCEPT ![w] = Gone]
    /\ shown' = Without({p \in DOMAIN shown : shown[p].ws = w})
    /\ UNCHANGED granted

Add(p, row) ==
    /\ p \notin DOMAIN shown
    /\ holder[row.ws] \in Users
    /\ shown' = [x \in DOMAIN shown \union {p} |-> IF x = p THEN row ELSE shown[x]]
    /\ UNCHANGED <<holder, granted>>

Change(p, row) ==
    /\ p \in DOMAIN shown
    /\ row.ws = shown[p].ws /\ row.op = shown[p].op
    /\ shown' = [shown EXCEPT ![p] = row]
    /\ UNCHANGED <<holder, granted>>

Remove(p) ==
    /\ p \in DOMAIN shown
    /\ shown' = Without({p})
    /\ UNCHANGED <<holder, granted>>

Grant(u, ops) ==
    /\ granted' = [granted EXCEPT ![u] = ops]
    /\ UNCHANGED <<holder, shown>>

Next ==
    \/ \E w \in WorkspaceIds : Delete(w) \/ \E u \in Users : Create(u, w)
    \/ \E p \in PanelIds :
         Remove(p) \/ \E row \in PanelRow : Add(p, row) \/ Change(p, row)
    \/ \E u \in Users, ops \in SUBSET Operations : Grant(u, ops)

Spec == Init /\ [][Next]_registry
=============================================================================
