------------------------- MODULE WorkspacesProofs -------------------------
(***************************************************************************)
(* Proofs about Workspaces for any number of accounts, ids and slots.      *)
(***************************************************************************)
EXTENDS Workspaces, FiniteSetTheorems, TLAPS

(***************************************************************************)
(* The inductive invariant: which request a slot at each step serves, and  *)
(* what the handler has learned by then that still holds.                  *)
(***************************************************************************)
Named == {"get", "delete", "addPanel", "updatePanel", "deletePanel"}
AddSteps == {"checkWorkspace", "insertPanel"}
UpdateSteps == {"updateRow", "reloadPanel"}
DeleteSteps == {"beginDelete", "deletePanels", "deleteWorkspace", "commitDelete"}
SetSteps == {"beginSet", "clearPermissions", "insertPermission", "commitSet"}

\* The request a slot serves is one whose handler has that step.
ServesOK(r) ==
    /\ pc[r] \in Busy => req[r] \in Requests
    /\ pc[r] \in {"listWorkspaces", "listPanels"} => req[r].kind = "list"
    /\ pc[r] = "insertWorkspace" => req[r].kind = "create"
    /\ pc[r] \in {"selectWorkspace", "selectPanels"} => req[r].kind \in Named
    /\ pc[r] = "readPermissions" => req[r].kind \in {"addPanel", "updatePanel"}
    /\ pc[r] \in AddSteps => req[r].kind = "addPanel"
    /\ pc[r] \in UpdateSteps => req[r].kind = "updatePanel"
    /\ pc[r] = "deletePanelRow" => req[r].kind = "deletePanel"
    /\ pc[r] \in DeleteSteps => req[r].kind = "delete"
    /\ pc[r] \in SetSteps => req[r].kind = "setPermissions"
    /\ pc[r] \in SetSteps \ {"beginSet"} => req[r].user \in Admins
    /\ pc[r] = "insertPermission" => Len(local[r].staged) < Len(req[r].grants)
    /\ pc[r] = "commitSet" => Len(local[r].staged) = Len(req[r].grants)
    /\ pc[r] \in {"insertPermission", "commitSet"} =>
         \A i \in 1 .. Len(local[r].staged) : local[r].staged[i] = req[r].grants[i]

\* Past the comparison of owners the workspace is the caller's.
PastOwnerCheck(r) ==
    \/ pc[r] \in AddSteps \union UpdateSteps \union DeleteSteps \union {"deletePanelRow"}
    \/ pc[r] = "readPermissions" /\ req[r].kind = "updatePanel"

OwnsOK(r) ==
    /\ pc[r] = "selectPanels" => local[r].owner # None /\ owner[req[r].ws] = local[r].owner
    /\ PastOwnerCheck(r) => owner[req[r].ws] = req[r].user
    /\ pc[r] = "listPanels" => \A w \in local[r].listed : owner[w] = req[r].user
    /\ pc[r] \in {"deleteWorkspace", "commitDelete"} => local[r].doomed = PanelsOf(req[r].ws)

\* What the caller may call now is among what they could call since they asked,
\* and past the check the operation of the panel is.
GrantOK(r) ==
    /\ pc[r] \in Busy => Callable(req[r].user) \subseteq since[r]
    /\ pc[r] \in Busy /\ req[r].kind = "addPanel" /\ pc[r] # "readPermissions" =>
         req[r].op \in since[r]
    /\ pc[r] = "updateRow" => local[r].op \in since[r]
    /\ (pc[r] = "readPermissions" /\ req[r].kind = "updatePanel") \/ pc[r] = "updateRow" =>
         panels[req[r].panel] = Gone \/ (Live(req[r].panel) /\ panels[req[r].panel].op = local[r].op)

\* One transaction at a time: the connection is one.
OneHolder ==
    \A r, s \in Slots : HoldsConnection(r) /\ HoldsConnection(s) => r = s

IInv == TypeOK /\ OneHolder /\ \A r \in Slots : ServesOK(r) /\ OwnsOK(r) /\ GrantOK(r)

-----------------------------------------------------------------------------
(***************************************************************************)
(* Lemmas about requests, rows and answers.                                *)
(***************************************************************************)

\* The fields of a request, by its kind.
LEMMA RequestFields ==
    ASSUME NEW q \in Requests
    PROVE  /\ q.user \in Users
           /\ q.kind \in Named => q.ws \in WorkspaceIds
           /\ q.kind = "addPanel" => q \in AddRequest
           /\ q.kind = "updatePanel" => q \in PatchRequest
           /\ q.kind = "deletePanel" => q.panel \in PanelIds
           /\ q.kind = "setPermissions" => q.target \in Users /\ q.grants \in Seq(Operations)
BY RequestsAssumption DEF Request, ListRequest, CreateRequest, NamedRequest, AddRequest,
     PatchRequest, RemoveRequest, GrantRequest, Named

\* Clamping lands between the bounds, whatever width a request carries.
LEMMA ClampBounds ==
    ASSUME NEW width \in Int
    PROVE  /\ ClampPanelWidth(width) \in MinPanelWidth .. MaxPanelWidth
           /\ NewPanelWidth(width) \in MinPanelWidth .. MaxPanelWidth
BY DEF ClampPanelWidth, NewPanelWidth, Clamp, MinPanelWidth, MaxPanelWidth, DefaultPanelWidth

\* What a POST stores is a row of the table.
LEMMA NewRowType ==
    ASSUME NEW q \in AddRequest
    PROVE  NewRow(q) \in PanelRow /\ NewRow(q).ws = q.ws /\ NewRow(q).op = q.op
<1>1. NewPanelWidth(q.width) \in MinPanelWidth .. MaxPanelWidth
  BY ClampBounds DEF AddRequest
<1>2. StoredTitle(q.title, q.op) \in Titles \union Operations
  BY DEF StoredTitle, AddRequest
<1>3. QED
  BY <1>1, <1>2 DEF NewRow, PanelRow, AddRequest

\* What a PATCH leaves is a row of the table, of the same workspace and operation.
LEMMA PatchedRowType ==
    ASSUME NEW q \in PatchRequest, NEW row \in PanelRow
    PROVE  /\ PatchedRow(row, q) \in PanelRow
           /\ PatchedRow(row, q).ws = row.ws /\ PatchedRow(row, q).op = row.op
<1>1. q.width # Absent => ClampPanelWidth(q.width) \in MinPanelWidth .. MaxPanelWidth
  BY ClampBounds DEF PatchRequest
<1>2. q.title # Absent => StoredTitle(q.title, row.op) \in Titles \union Operations
  BY DEF StoredTitle, PatchRequest, PanelRow
<1>3. q.view # Absent => q.view \in Views \union {None}
  BY DEF PatchRequest
<1>4. QED
  BY <1>1, <1>2, <1>3 DEF PatchedRow, PanelRow

\* A live panel has a row.
LEMMA LiveRow ==
    ASSUME TypeOK, NEW p \in PanelIds, Live(p)
    PROVE  panels[p] \in PanelRow
BY DEF TypeOK, Live

\* A handler that notes what it has read keeps the type of what it knows.
LEMMA NoteType ==
    ASSUME TypeOK, NEW r \in Slots, NEW known \in Scratch,
           local' = [local EXCEPT ![r] = known]
    PROVE  local' \in [Slots -> Scratch]
BY DEF TypeOK

\* An answer keeps every slot's types and touches no other slot.
LEMMA AnswerType ==
    ASSUME TypeOK, NEW r \in Slots, NEW status \in Statuses,
           NEW ws \in SUBSET WorkspaceIds, NEW ps \in SUBSET PanelIds,
           Answer(r, status, ws, ps)
    PROVE  /\ pc' \in [Slots -> Busy \union {"idle", "replied"}]
           /\ local' \in [Slots -> Scratch]
           /\ reply' \in [Slots -> Reply \union {None}]
<1>1. NoScratch \in Scratch
  BY DEF NoScratch, Scratch
<1>2. [status |-> status, workspaces |-> ws, panels |-> ps] \in Reply
  BY DEF Reply
<1>3. QED
  BY <1>1, <1>2 DEF Answer, Goto, TypeOK

\* So does the answer that nothing was found.
LEMMA AnswerNotFoundType ==
    ASSUME TypeOK, NEW r \in Slots, AnswerNotFound(r)
    PROVE  /\ pc' \in [Slots -> Busy \union {"idle", "replied"}]
           /\ local' \in [Slots -> Scratch]
           /\ reply' \in [Slots -> Reply \union {None}]
<1>. DEFINE status == IF req[r].kind \in {"delete", "deletePanel"} THEN 204 ELSE 404
<1>1. Answer(r, status, {}, {})
  BY DEF AnswerNotFound
<1>2. status \in Statuses
  BY DEF Statuses
<1>. HIDE DEF status
<1>3. QED
  BY <1>1, <1>2, AnswerType

-----------------------------------------------------------------------------
(***************************************************************************)
(* TypeOK is preserved: what the slots know, then what the tables hold.    *)
(***************************************************************************)
SlotTypes ==
    /\ pc \in [Slots -> Busy \union {"idle", "replied"}]
    /\ req \in [Slots -> Requests \union {None}]
    /\ local \in [Slots -> Scratch]
    /\ reply \in [Slots -> Reply \union {None}]
    /\ since \in [Slots -> SUBSET Operations]

\* An answer keeps them ...
LEMMA AnswerSlots ==
    ASSUME TypeOK, NEW r \in Slots, NEW status \in Statuses,
           NEW ws \in SUBSET WorkspaceIds, NEW ps \in SUBSET PanelIds,
           Answer(r, status, ws, ps), UNCHANGED req, since' \in [Slots -> SUBSET Operations]
    PROVE  SlotTypes'
<1>1. req' \in [Slots -> Requests \union {None}]
  BY DEF TypeOK
<1>2. /\ pc' \in [Slots -> Busy \union {"idle", "replied"}]
      /\ local' \in [Slots -> Scratch]
      /\ reply' \in [Slots -> Reply \union {None}]
  BY AnswerType
<1>3. QED
  BY <1>1, <1>2 DEF SlotTypes

LEMMA AnswerNotFoundSlots ==
    ASSUME TypeOK, NEW r \in Slots, AnswerNotFound(r), UNCHANGED <<req, since>>
    PROVE  SlotTypes'
<1>1. since' \in [Slots -> SUBSET Operations] /\ req' \in [Slots -> Requests \union {None}]
  BY DEF TypeOK
<1>2. QED
  BY <1>1, AnswerNotFoundType DEF SlotTypes

\* ... and so does going on to the next statement.
LEMMA GotoSlots ==
    ASSUME TypeOK, NEW r \in Slots, NEW s \in Busy, Goto(r, s),
           local' \in [Slots -> Scratch], UNCHANGED <<req, reply, since>>
    PROVE  SlotTypes'
<1>1. pc' \in [Slots -> Busy \union {"idle", "replied"}]
  BY DEF TypeOK, Goto
<1>2. reply' \in [Slots -> Reply \union {None}]
  BY DEF TypeOK
<1>3. since' \in [Slots -> SUBSET Operations] /\ req' \in [Slots -> Requests \union {None}]
  BY DEF TypeOK
<1>4. QED
  BY <1>1, <1>2, <1>3 DEF SlotTypes

\* Each handler step keeps the types of what the slots know.
LEMMA StepSlotTypes ==
    ASSUME IInv, NEW r \in Slots, Step(r)
    PROVE  SlotTypes'
<1>. USE DEF IInv
<1>a. UNCHANGED since => since' \in [Slots -> SUBSET Operations]
  BY DEF TypeOK
<1>b. pc[r] \in Busy => req[r] \in Requests
  BY DEF ServesOK
<1>c. Statements \subseteq Busy /\ TxSteps \subseteq Busy
  BY DEF Busy
<1>d. UNCHANGED local => local' \in [Slots -> Scratch]
  BY DEF TypeOK
<1>e. \A s \in {200, 201, 204, 400, 403, 404, 500} : s \in Statuses
  BY DEF Statuses
<1>f. local[r] \in Scratch
  BY DEF TypeOK
<1>1. CASE ListWorkspaces(r)
  <2>. DEFINE mine == {w \in wsRows : owner[w] = req[r].user}
  <2>1. mine \in SUBSET WorkspaceIds
    BY DEF TypeOK
  <2>0. UNCHANGED <<req, since>>
    BY <1>1 DEF ListWorkspaces
  <2>2. CASE mine = {}
    <3>1. Answer(r, 200, {}, {})
      BY <1>1, <2>2 DEF ListWorkspaces
    <3>2. QED
      BY <3>1, <2>0, <1>a, <1>e, AnswerSlots
  <2>3. CASE mine # {}
    <3>1. /\ Goto(r, "listPanels")
          /\ local' = [local EXCEPT ![r].listed = mine, ![r].todo = mine]
          /\ UNCHANGED reply
      BY <1>1, <2>3 DEF ListWorkspaces
    <3>2. local' \in [Slots -> Scratch]
      <4>1. [local[r] EXCEPT !.listed = mine, !.todo = mine] \in Scratch
        BY <1>f, <2>1 DEF Scratch
      <4>2. local' = [local EXCEPT ![r] = [local[r] EXCEPT !.listed = mine, !.todo = mine]]
        BY <3>1
      <4>3. QED
        BY <4>1, <4>2, NoteType
    <3>3. QED
      BY <3>1, <3>2, <2>0, <1>c, GotoSlots DEF Statements
  <2>4. QED
    BY <2>2, <2>3
<1>2. CASE ListPanels(r)
  <2>0. UNCHANGED <<req, since>>
    BY <1>2 DEF ListPanels
  <2>1. PICK w \in local[r].todo :
          IF local[r].todo = {w}
          THEN Answer(r, 200, local[r].listed, {})
          ELSE /\ local' = [local EXCEPT ![r].todo = local[r].todo \ {w}]
               /\ UNCHANGED <<pc, reply>>
    BY <1>2 DEF ListPanels
  <2>2. local[r].listed \in SUBSET WorkspaceIds /\ local[r].todo \in SUBSET WorkspaceIds
    BY <1>f DEF Scratch
  <2>3. CASE local[r].todo = {w}
    BY <2>1, <2>2, <2>3, <2>0, <1>a, <1>e, AnswerSlots
  <2>4. CASE local[r].todo # {w}
    <3>1. local' \in [Slots -> Scratch]
      <4>1. [local[r] EXCEPT !.todo = local[r].todo \ {w}] \in Scratch
        BY <1>f, <2>2 DEF Scratch
      <4>2. local' = [local EXCEPT ![r] = [local[r] EXCEPT !.todo = local[r].todo \ {w}]]
        BY <2>1, <2>4
      <4>3. QED
        BY <4>1, <4>2, NoteType
    <3>2. UNCHANGED <<pc, reply>>
      BY <2>1, <2>4
    <3>3. QED
      BY <2>0, <3>1, <3>2 DEF SlotTypes, TypeOK
  <2>5. QED
    BY <2>3, <2>4
<1>3. CASE SelectWorkspace(r)
  <2>0. UNCHANGED <<req, since>>
    BY <1>3 DEF SelectWorkspace
  <2>1. CASE req[r].ws \in wsRows
    <3>1. /\ Goto(r, "selectPanels")
          /\ local' = [local EXCEPT ![r].owner = owner[req[r].ws]]
          /\ UNCHANGED reply
      BY <1>3, <2>1 DEF SelectWorkspace
    <3>2. owner[req[r].ws] \in Users
      BY <2>1 DEF TypeOK
    <3>3. local' \in [Slots -> Scratch]
      <4>1. [local[r] EXCEPT !.owner = owner[req[r].ws]] \in Scratch
        BY <1>f, <3>2 DEF Scratch
      <4>2. local' = [local EXCEPT ![r] = [local[r] EXCEPT !.owner = owner[req[r].ws]]]
        BY <3>1
      <4>3. QED
        BY <4>1, <4>2, NoteType
    <3>4. QED
      BY <3>1, <3>3, <2>0, <1>c, GotoSlots DEF Statements
  <2>2. CASE req[r].ws \notin wsRows
    <3>1. AnswerNotFound(r)
      BY <1>3, <2>2 DEF SelectWorkspace
    <3>2. QED
      BY <3>1, <2>0, AnswerNotFoundSlots
  <2>3. QED
    BY <2>1, <2>2
<1>4. CASE SelectPanels(r)
  <2>0. UNCHANGED <<req, since>>
    BY <1>4 DEF SelectPanels
  <2>1. pc[r] = "selectPanels"
    BY <1>4 DEF SelectPanels, Statement
  <2>2. req[r] \in Requests /\ req[r].kind \in Named
    BY <2>1, <1>b DEF ServesOK, Busy, Statements
  <2>3. req[r].ws \in WorkspaceIds /\ (req[r].kind = "updatePanel" => req[r].panel \in PanelIds)
    BY <2>2, RequestFields DEF PatchRequest
  <2>4. CASE AnswerNotFound(r)
    BY <2>4, <2>0, AnswerNotFoundSlots
  <2>5. CASE OnOwnWorkspace(r)
    <3>1. CASE Answer(r, 200, {req[r].ws}, PanelsOf(req[r].ws))
      BY <3>1, <2>3, <2>0, <1>a, <1>e, AnswerSlots DEF PanelsOf
    <3>2. CASE \E s \in {"beginDelete", "deletePanelRow", "checkWorkspace"} :
                  Goto(r, s) /\ UNCHANGED <<local, reply>>
      BY <3>2, <2>0, <1>c, <1>d, GotoSlots DEF Statements
    <3>3. CASE /\ req[r].kind = "updatePanel" /\ req[r].panel \in PanelsOf(req[r].ws)
               /\ Goto(r, "readPermissions")
               /\ local' = [local EXCEPT ![r].op = panels[req[r].panel].op]
               /\ UNCHANGED reply
      <4>1. panels[req[r].panel] \in PanelRow
        BY <2>3, <3>3, LiveRow DEF PanelsOf
      <4>2. local' \in [Slots -> Scratch]
        <5>1. [local[r] EXCEPT !.op = panels[req[r].panel].op] \in Scratch
          BY <1>f, <4>1 DEF Scratch, PanelRow
        <5>2. local' = [local EXCEPT ![r] = [local[r] EXCEPT !.op = panels[req[r].panel].op]]
          BY <3>3
        <5>3. QED
          BY <5>1, <5>2, NoteType
      <4>3. QED
        BY <3>3, <4>2, <2>0, <1>c, GotoSlots DEF Statements
    <3>4. QED
      BY <2>5, <2>4, <3>1, <3>2, <3>3 DEF OnOwnWorkspace
  <2>6. QED
    BY <1>4, <2>4, <2>5 DEF SelectPanels
<1>5. CASE ReadPermissions(r)
  <2>0. UNCHANGED <<req, since>>
    BY <1>5 DEF ReadPermissions
  <2>1. CASE Answer(r, 400, {}, {})
    BY <2>1, <2>0, <1>a, <1>e, AnswerSlots
  <2>2. CASE \E s \in {"selectWorkspace", "updateRow"} : Goto(r, s) /\ UNCHANGED <<local, reply>>
    BY <2>2, <2>0, <1>c, <1>d, GotoSlots DEF Statements
  <2>3. QED
    BY <1>5, <2>1, <2>2 DEF ReadPermissions
<1>6. CASE InsertWorkspace(r)
  <2>1. PICK w \in WorkspaceIds : Answer(r, 201, {w}, {})
    BY <1>6 DEF InsertWorkspace
  <2>2. QED
    BY <1>6, <2>1, <1>a, <1>e, AnswerSlots DEF InsertWorkspace
<1>7. CASE BeginDelete(r)
  BY <1>7, <1>c, <1>d, GotoSlots DEF BeginDelete, TxSteps
<1>8. CASE DeletePanels(r)
  <2>1. local' \in [Slots -> Scratch]
    <3>1. [local[r] EXCEPT !.doomed = PanelsOf(req[r].ws)] \in Scratch
      BY <1>f DEF Scratch, PanelsOf
    <3>2. local' = [local EXCEPT ![r] = [local[r] EXCEPT !.doomed = PanelsOf(req[r].ws)]]
      BY <1>8 DEF DeletePanels
    <3>3. QED
      BY <3>1, <3>2, NoteType
  <2>2. QED
    BY <1>8, <2>1, <1>c, GotoSlots DEF DeletePanels, TxSteps
<1>9. CASE DeleteWorkspace(r)
  BY <1>9, <1>c, <1>d, GotoSlots DEF DeleteWorkspace, TxSteps
<1>10. CASE CommitDelete(r)
  BY <1>10, <1>a, <1>e, AnswerSlots DEF CommitDelete
<1>11. CASE CheckWorkspace(r)
  <2>0. UNCHANGED <<req, since>>
    BY <1>11 DEF CheckWorkspace
  <2>1. CASE AnswerNotFound(r)
    BY <2>1, <2>0, AnswerNotFoundSlots
  <2>2. CASE Goto(r, "insertPanel") /\ UNCHANGED <<local, reply>>
    BY <2>2, <2>0, <1>c, <1>d, GotoSlots DEF Statements
  <2>3. QED
    BY <1>11, <2>1, <2>2 DEF CheckWorkspace
<1>12. CASE InsertPanel(r)
  <2>1. PICK p \in PanelIds : Answer(r, 201, {}, {p})
    BY <1>12 DEF InsertPanel
  <2>2. QED
    BY <1>12, <2>1, <1>a, <1>e, AnswerSlots DEF InsertPanel
<1>13. ASSUME pc[r] \in UpdateSteps, ReadBack(r), UNCHANGED <<req, since>> PROVE SlotTypes'
  <2>1. req[r] \in Requests /\ req[r].kind = "updatePanel"
    BY <1>13, <1>b DEF ServesOK, UpdateSteps, Busy, Statements
  <2>2. req[r].panel \in PanelIds
    BY <2>1, RequestFields DEF PatchRequest
  <2>3. CASE Answer(r, 200, {}, {req[r].panel})
    BY <1>13, <2>2, <2>3, <1>a, <1>e, AnswerSlots
  <2>4. CASE AnswerNotFound(r)
    BY <1>13, <2>4, AnswerNotFoundSlots
  <2>5. QED
    BY <1>13, <2>3, <2>4 DEF ReadBack
<1>14. CASE UpdateRow(r)
  <2>0. UNCHANGED <<req, since>>
    BY <1>14 DEF UpdateRow
  <2>1. CASE ReadBack(r)
    BY <1>13, <1>14, <2>1 DEF UpdateRow, Statement, UpdateSteps
  <2>2. CASE Goto(r, "reloadPanel") /\ UNCHANGED <<local, reply>>
    BY <2>2, <2>0, <1>c, <1>d, GotoSlots DEF Statements
  <2>3. CASE AnswerNotFound(r)
    BY <2>3, <2>0, AnswerNotFoundSlots
  <2>4. QED
    BY <1>14, <2>1, <2>2, <2>3 DEF UpdateRow
<1>15. CASE ReloadPanel(r)
  BY <1>13, <1>15 DEF ReloadPanel, Statement, UpdateSteps
<1>16. CASE DeletePanelRow(r)
  BY <1>16, <1>a, <1>e, AnswerSlots DEF DeletePanelRow
<1>17. CASE BeginSet(r)
  <2>0. UNCHANGED <<req, since>>
    BY <1>17 DEF BeginSet
  <2>1. CASE Answer(r, 403, {}, {})
    BY <2>0, <2>1, <1>a, <1>e, AnswerSlots
  <2>2. CASE Goto(r, "clearPermissions") /\ UNCHANGED <<local, reply>>
    BY <2>2, <2>0, <1>c, <1>d, GotoSlots DEF TxSteps
  <2>3. QED
    BY <1>17, <2>1, <2>2 DEF BeginSet
<1>18. CASE ClearPermissions(r)
  <2>1. local' \in [Slots -> Scratch]
    <3>0. << >> \in Seq(Operations)
      OBVIOUS
    <3>1. [local[r] EXCEPT !.staged = << >>] \in Scratch
      BY <1>f, <3>0 DEF Scratch
    <3>2. local' = [local EXCEPT ![r] = [local[r] EXCEPT !.staged = << >>]]
      BY <1>18 DEF ClearPermissions
    <3>3. QED
      BY <3>1, <3>2, NoteType
  <2>2. QED
    BY <1>18, <2>1, <1>c, GotoSlots DEF ClearPermissions, TxSteps
<1>19. CASE InsertPermission(r)
  <2>0. UNCHANGED <<req, since>>
    BY <1>19 DEF InsertPermission
  <2>. DEFINE staged == local[r].staged
              next   == req[r].grants[Len(staged) + 1]
  <2>1. pc[r] = "insertPermission"
    BY <1>19 DEF InsertPermission, TxStatement
  <2>2. req[r].grants \in Seq(Operations) /\ Len(staged) < Len(req[r].grants)
    BY <2>1, <1>b, RequestFields DEF ServesOK, Busy, TxSteps, SetSteps
  <2>3. staged \in Seq(Operations)
    BY <1>f DEF Scratch
  <2>4. next \in Operations
    BY <2>2, <2>3
  <2>5. CASE Answer(r, 500, {}, {})
    BY <2>5, <2>0, <1>a, <1>e, AnswerSlots
  <2>6. CASE /\ local' = [local EXCEPT ![r].staged = Append(staged, next)]
             /\ \E s \in {"commitSet", "insertPermission"} : Goto(r, s)
             /\ UNCHANGED reply
    <3>1. Append(staged, next) \in Seq(Operations)
      BY <2>3, <2>4
    <3>2. local' \in [Slots -> Scratch]
      <4>1. [local[r] EXCEPT !.staged = Append(staged, next)] \in Scratch
        BY <1>f, <3>1 DEF Scratch
      <4>2. local' = [local EXCEPT ![r] = [local[r] EXCEPT !.staged = Append(staged, next)]]
        BY <2>6
      <4>3. QED
        BY <4>1, <4>2, NoteType
    <3>3. QED
      BY <2>6, <3>2, <2>0, <1>c, GotoSlots DEF TxSteps
  <2>7. QED
    BY <1>19, <2>5, <2>6 DEF InsertPermission
<1>20. CASE CommitSet(r)
  <2>1. since' \in [Slots -> SUBSET Operations]
    BY <1>20, CatalogueAssumption DEF CommitSet, TypeOK
  <2>2. QED
    BY <1>20, <1>e, <2>1, AnswerSlots DEF CommitSet
<1>21. CASE Close(r)
  BY <1>21, <1>a, <1>d DEF Close, Goto, SlotTypes, TypeOK
<1>22. QED
  BY <1>1, <1>2, <1>3, <1>4, <1>5, <1>6, <1>7, <1>8, <1>9, <1>10, <1>11, <1>12, <1>14,
     <1>15, <1>16, <1>17, <1>18, <1>19, <1>20, <1>21 DEF Step

TableTypes ==
    /\ owner \in [WorkspaceIds -> Users \union {None}]
    /\ wsRows \subseteq {w \in WorkspaceIds : owner[w] # None}
    /\ panels \in [PanelIds -> PanelRow \union {None, Gone}]
    /\ permissions \in [Users -> SUBSET Operations]

\* Each handler step keeps the types of the tables.
LEMMA StepTableTypes ==
    ASSUME IInv, NEW r \in Slots, Step(r)
    PROVE  TableTypes'
<1>. USE DEF IInv
<1>a. pc[r] \in Busy => req[r] \in Requests
  BY DEF ServesOK
<1>b. CASE UNCHANGED tables
  BY <1>b DEF tables, TableTypes, TypeOK
<1>1. CASE InsertWorkspace(r)
  <2>1. req[r].user \in Users
    BY <1>1, <1>a, RequestFields DEF InsertWorkspace, Statement, Busy, Statements
  <2>2. PICK w \in WorkspaceIds :
          owner' = [owner EXCEPT ![w] = req[r].user] /\ wsRows' = wsRows \union {w}
    BY <1>1 DEF InsertWorkspace
  <2>3. req[r].user # None
    BY <2>1, SentinelsAssumption
  <2>4. owner' \in [WorkspaceIds -> Users \union {None}]
    BY <2>1, <2>2 DEF TypeOK
  <2>5. wsRows' \subseteq {x \in WorkspaceIds : owner'[x] # None}
    BY <2>2, <2>3 DEF TypeOK
  <2>6. QED
    BY <1>1, <2>4, <2>5 DEF InsertWorkspace, TableTypes, TypeOK
<1>2. CASE CommitDelete(r)
  BY <1>2 DEF CommitDelete, TableTypes, TypeOK
<1>3. CASE InsertPanel(r)
  <2>1. req[r] \in AddRequest
    BY <1>3, <1>a, RequestFields DEF InsertPanel, Statement, Busy, Statements, ServesOK, AddSteps
  <2>2. PICK p \in PanelIds : panels' = [panels EXCEPT ![p] = NewRow(req[r])]
    BY <1>3 DEF InsertPanel
  <2>3. panels' \in [PanelIds -> PanelRow \union {None, Gone}]
    BY <2>1, <2>2, NewRowType DEF TypeOK
  <2>4. QED
    BY <1>3, <2>3 DEF InsertPanel, TableTypes, TypeOK
<1>4. CASE UpdateRow(r)
  <2>1. req[r] \in PatchRequest
    BY <1>4, <1>a, RequestFields DEF UpdateRow, Statement, Busy, Statements, ServesOK, UpdateSteps
  <2>2. CASE UNCHANGED panels
    BY <1>4, <2>2 DEF UpdateRow, TableTypes, TypeOK
  <2>3. CASE /\ req[r].panel \in PanelsOf(req[r].ws)
             /\ panels' = [panels EXCEPT ![req[r].panel] = PatchedRow(@, req[r])]
    <3>1. req[r].panel \in PanelIds /\ Live(req[r].panel)
      BY <2>3 DEF PanelsOf
    <3>2. PatchedRow(panels[req[r].panel], req[r]) \in PanelRow
      BY <2>1, <3>1, LiveRow, PatchedRowType
    <3>3. panels' \in [PanelIds -> PanelRow \union {None, Gone}]
      BY <2>3, <3>1, <3>2 DEF TypeOK
    <3>4. QED
      BY <1>4, <3>3 DEF UpdateRow, TableTypes, TypeOK
  <2>4. QED
    BY <1>4, <2>2, <2>3 DEF UpdateRow
<1>5. CASE DeletePanelRow(r)
  BY <1>5 DEF DeletePanelRow, TableTypes, TypeOK
<1>6. CASE CommitSet(r)
  <2>1. req[r].target \in Users
    BY <1>6, <1>a, RequestFields DEF CommitSet, TxStatement, Busy, TxSteps, ServesOK, SetSteps
  <2>2. RangeOf(local[r].staged) \in SUBSET Operations
    <3>1. local[r].staged \in Seq(Operations)
      BY DEF TypeOK, Scratch
    <3>2. QED
      BY <3>1 DEF RangeOf
  <2>3. permissions' \in [Users -> SUBSET Operations]
    BY <1>6, <2>2 DEF CommitSet, TypeOK
  <2>4. QED
    BY <1>6, <2>3 DEF CommitSet, TableTypes, TypeOK
<1>7. QED
  BY <1>b, <1>1, <1>2, <1>3, <1>4, <1>5, <1>6
  DEF Step, ListWorkspaces, ListPanels, SelectWorkspace, SelectPanels, ReadPermissions,
      BeginDelete, DeletePanels, DeleteWorkspace, CheckWorkspace, ReloadPanel, BeginSet,
      ClearPermissions, InsertPermission, Close

\* Every step keeps TypeOK.
LEMMA NextTypeOK ==
    ASSUME IInv, [Next]_vars
    PROVE  TypeOK'
<1>. USE DEF IInv
<1>1. ASSUME SlotTypes', TableTypes' PROVE TypeOK'
  BY <1>1 DEF SlotTypes, TableTypes, TypeOK
<1>b. UNCHANGED tables => TableTypes'
  BY DEF tables, TableTypes, TypeOK
<1>2. ASSUME NEW r \in Slots, NEW q \in Requests, Arrive(r, q) PROVE TypeOK'
  <2>1. pc' \in [Slots -> Busy \union {"idle", "replied"}]
    <3>1. FirstStatement(q) \in Busy
      BY DEF FirstStatement, Busy, Statements
    <3>2. QED
      BY <1>2, <3>1 DEF Arrive, Goto, TypeOK
  <2>2. req' \in [Slots -> Requests \union {None}]
    BY <1>2 DEF Arrive, TypeOK
  <2>3. since' \in [Slots -> SUBSET Operations]
    <3>1. Callable(q.user) \in SUBSET Operations
      BY CatalogueAssumption DEF Callable
    <3>2. QED
      BY <1>2, <3>1 DEF Arrive, TypeOK
  <2>4. UNCHANGED tables /\ local' \in [Slots -> Scratch] /\ reply' \in [Slots -> Reply \union {None}]
    BY <1>2 DEF Arrive, TypeOK
  <2>5. SlotTypes'
    BY <2>1, <2>2, <2>3, <2>4 DEF SlotTypes
  <2>6. QED
    BY <2>4, <2>5, <1>1, <1>b
<1>3. ASSUME NEW r \in Slots, Step(r) PROVE TypeOK'
  BY <1>1, <1>3, StepSlotTypes, StepTableTypes
<1>4. ASSUME NEW r \in Slots, Fail(r) PROVE TypeOK'
  <2>1. SlotTypes'
    <3>1. 500 \in Statuses
      BY DEF Statuses
    <3>2. since' \in [Slots -> SUBSET Operations] /\ UNCHANGED req /\ Answer(r, 500, {}, {})
      BY <1>4 DEF Fail, TypeOK
    <3>3. QED
      BY <3>1, <3>2, AnswerSlots
  <2>2. QED
    BY <1>1, <1>b, <1>4, <2>1 DEF Fail
<1>5. CASE Crash
  <2>1. NoScratch \in Scratch
    BY DEF NoScratch, Scratch
  <2>2. SlotTypes'
    BY <1>5, <2>1 DEF Crash, SlotTypes
  <2>3. QED
    BY <1>1, <1>b, <1>5, <2>2 DEF Crash
<1>6. CASE UNCHANGED vars
  BY <1>6 DEF vars, TypeOK
<1>7. QED
  BY <1>2, <1>3, <1>4, <1>5, <1>6 DEF Next

-----------------------------------------------------------------------------
(***************************************************************************)
(* How the tables may change under a handler's feet.                       *)
(***************************************************************************)

\* An id stays with whom it was handed out to; a row keeps its workspace and its
\* operation until it is gone, for good.
Evolves ==
    /\ \A w \in WorkspaceIds : owner[w] # None => owner'[w] = owner[w]
    /\ \A p \in PanelIds : panels[p] = Gone => panels'[p] = Gone
    /\ \A p \in PanelIds : Live(p) =>
         \/ panels'[p] = Gone
         \/ Live(p)' /\ panels'[p].ws = panels[p].ws /\ panels'[p].op = panels[p].op

LEMMA StepEvolves ==
    ASSUME IInv, NEW r \in Slots, Step(r)
    PROVE  Evolves
<1>. USE DEF IInv
<1>a. CASE UNCHANGED tables
  BY <1>a DEF tables, Evolves, Live
<1>b. CASE UNCHANGED <<owner, panels>>
  BY <1>b DEF Evolves, Live
<1>1. CASE InsertWorkspace(r)
  BY <1>1 DEF InsertWorkspace, Evolves, Live, TypeOK
<1>2. CASE CommitDelete(r)
  BY <1>2 DEF CommitDelete, Evolves, Live
<1>3. CASE InsertPanel(r)
  BY <1>3, RowAssumption, SentinelsAssumption DEF InsertPanel, Evolves, Live, TypeOK
<1>4. CASE UpdateRow(r)
  <2>1. CASE UNCHANGED panels
    BY <1>4, <2>1 DEF UpdateRow, Evolves, Live
  <2>2. CASE /\ req[r].panel \in PanelsOf(req[r].ws)
             /\ panels' = [panels EXCEPT ![req[r].panel] = PatchedRow(@, req[r])]
    <3>1. PICK p \in PanelIds : p = req[r].panel /\ Live(p)
      BY <2>2 DEF PanelsOf
    <3>2. req[r] \in PatchRequest
      BY <1>4, RequestFields DEF UpdateRow, Statement, Busy, Statements, ServesOK, UpdateSteps
    <3>3. PICK row \in PanelRow : /\ row = PatchedRow(panels[p], req[r])
                                  /\ row.ws = panels[p].ws /\ row.op = panels[p].op
      BY <3>1, <3>2, LiveRow, PatchedRowType
    <3>4. panels' = [panels EXCEPT ![p] = row]
      BY <2>2, <3>1, <3>3
    <3>5. \A x \in PanelIds : x # p => panels'[x] = panels[x]
      BY <3>4 DEF TypeOK
    <3>6. panels'[p] = row
      BY <3>1, <3>4 DEF TypeOK
    <3>7. owner' = owner
      BY <1>4 DEF UpdateRow
    <3>8. Live(p)'
      BY <3>3, <3>6, RowAssumption DEF Live
    <3>9. QED
      BY <3>1, <3>3, <3>5, <3>6, <3>7, <3>8 DEF Evolves, Live
  <2>3. QED
    BY <1>4, <2>1, <2>2 DEF UpdateRow
<1>5. CASE DeletePanelRow(r)
  BY <1>5 DEF DeletePanelRow, Evolves, Live
<1>6. CASE CommitSet(r)
  BY <1>6, <1>b DEF CommitSet
<1>7. QED
  BY <1>a, <1>1, <1>2, <1>3, <1>4, <1>5, <1>6
  DEF Step, ListWorkspaces, ListPanels, SelectWorkspace, SelectPanels, ReadPermissions,
      BeginDelete, DeletePanels, DeleteWorkspace, CheckWorkspace, ReloadPanel, BeginSet,
      ClearPermissions, InsertPermission, Close

\* What a step leaves alone of a slot that does not take it.
Bystander(s) ==
    /\ pc'[s] = pc[s] /\ req'[s] = req[s] /\ local'[s] = local[s]
    /\ since[s] \subseteq since'[s]
    /\ pc[s] \in Busy => Callable(req[s].user)' \subseteq since'[s]
    /\ HoldsConnection(s) => UNCHANGED panels

LEMMA BystanderOK ==
    ASSUME IInv, Evolves, NEW s \in Slots, Bystander(s)
    PROVE  ServesOK(s)' /\ OwnsOK(s)' /\ GrantOK(s)'
<1>. USE DEF IInv, Bystander
<1>1. ServesOK(s)'
  BY DEF ServesOK
<1>0. pc[s] \in Busy => req[s] \in Requests
  BY DEF ServesOK
<1>2. OwnsOK(s)'
  <2>1. pc[s] = "selectPanels" => owner'[req[s].ws] = local[s].owner
    <3>1. pc[s] = "selectPanels" => req[s].ws \in WorkspaceIds
      BY <1>0, RequestFields DEF ServesOK, Busy, Statements
    <3>2. QED
      BY <3>1 DEF OwnsOK, Evolves
  <2>2. PastOwnerCheck(s) => owner'[req[s].ws] = req[s].user
    <3>1. PastOwnerCheck(s) => pc[s] \in Busy /\ req[s].kind \in Named
      BY DEF PastOwnerCheck, ServesOK, Busy, Statements, TxSteps, AddSteps, UpdateSteps, DeleteSteps, Named
    <3>2. PastOwnerCheck(s) => req[s].ws \in WorkspaceIds /\ req[s].user # None
      BY <1>0, <3>1, RequestFields, SentinelsAssumption
    <3>3. QED
      BY <3>2 DEF OwnsOK, Evolves
  <2>3. pc[s] = "listPanels" => \A w \in local[s].listed : owner'[w] = req[s].user
    <3>1. pc[s] = "listPanels" => req[s].user # None
      BY <1>0, RequestFields, SentinelsAssumption DEF Busy, Statements
    <3>2. local[s].listed \subseteq WorkspaceIds
      BY DEF TypeOK, Scratch
    <3>3. QED
      BY <3>1, <3>2 DEF OwnsOK, Evolves
  <2>4. pc[s] \in {"deleteWorkspace", "commitDelete"} => local[s].doomed = PanelsOf(req[s].ws)'
    BY DEF OwnsOK, HoldsConnection, TxSteps, PanelsOf, Live
  <2>5. PastOwnerCheck(s)' => PastOwnerCheck(s)
    BY DEF PastOwnerCheck
  <2>6. QED
    BY <2>1, <2>2, <2>3, <2>4, <2>5 DEF OwnsOK
<1>3. GrantOK(s)'
  <2>1. ASSUME (pc[s] = "readPermissions" /\ req[s].kind = "updatePanel") \/ pc[s] = "updateRow"
        PROVE  \/ panels'[req[s].panel] = Gone
               \/ Live(req[s].panel)' /\ panels'[req[s].panel].op = local[s].op
    <3>1. req[s] \in Requests /\ req[s].kind = "updatePanel"
      BY <1>0, <2>1 DEF ServesOK, Busy, Statements, UpdateSteps
    <3>2. req[s].panel \in PanelIds
      BY <3>1, RequestFields DEF PatchRequest
    <3>3. QED
      BY <2>1, <3>2 DEF GrantOK, Evolves
  <2>2. QED
    BY <2>1 DEF GrantOK
<1>4. QED
  BY <1>1, <1>2, <1>3

\* Slots that do not take a step are bystanders of it.
LEMMA StepBystanders ==
    ASSUME IInv, NEW r \in Slots, Step(r), NEW s \in Slots, s # r
    PROVE  Bystander(s)
<1>. USE DEF IInv
<1>1. pc'[s] = pc[s] /\ req'[s] = req[s] /\ local'[s] = local[s]
  <2>1. pc'[s] = pc[s] /\ local'[s] = local[s]
    BY DEF Step, ListWorkspaces, ListPanels, SelectWorkspace, SelectPanels, OnOwnWorkspace,
       ReadPermissions, InsertWorkspace, BeginDelete, DeletePanels, DeleteWorkspace, CommitDelete,
       CheckWorkspace, InsertPanel, UpdateRow, ReloadPanel, ReadBack, DeletePanelRow, BeginSet,
       ClearPermissions, InsertPermission, CommitSet, Close, Answer, AnswerNotFound, Goto, TypeOK
  <2>2. req'[s] = req[s]
    BY DEF Step, ListWorkspaces, ListPanels, SelectWorkspace, SelectPanels,
       ReadPermissions, InsertWorkspace, BeginDelete, DeletePanels, DeleteWorkspace, CommitDelete,
       CheckWorkspace, InsertPanel, UpdateRow, ReloadPanel, DeletePanelRow, BeginSet,
       ClearPermissions, InsertPermission, CommitSet, Close, TypeOK
  <2>3. QED
    BY <2>1, <2>2
<1>2. CASE CommitSet(r)
  <2>1. UNCHANGED panels
    BY <1>2 DEF CommitSet
  <2>. DEFINE held == RangeOf(local[r].staged)
  <2>2. since'[s] = IF pc[s] \in Busy /\ req[s].user = req[r].target
                    THEN since[s] \union (held \intersect Catalogue) ELSE since[s]
    BY <1>2 DEF CommitSet
  <2>3. permissions' = [permissions EXCEPT ![req[r].target] = held]
    BY <1>2 DEF CommitSet
  <2>4. pc[s] \in Busy => Callable(req[s].user) \subseteq since[s] /\ req[s].user \in Users
    BY RequestFields DEF GrantOK, ServesOK
  <2>. HIDE DEF held
  <2>5. pc[s] \in Busy => Callable(req[s].user)' \subseteq since'[s]
    BY <1>1, <2>2, <2>3, <2>4 DEF Callable, TypeOK
  <2>6. QED
    BY <1>1, <2>1, <2>2, <2>5 DEF Bystander
<1>3. CASE ~CommitSet(r)
  <2>1. since'[s] = since[s]
    BY <1>3 DEF Step, ListWorkspaces, ListPanels, SelectWorkspace, SelectPanels,
       ReadPermissions, InsertWorkspace, BeginDelete, DeletePanels, DeleteWorkspace, CommitDelete,
       CheckWorkspace, InsertPanel, UpdateRow, ReloadPanel, DeletePanelRow, BeginSet,
       ClearPermissions, InsertPermission, Close, TypeOK
  <2>2. UNCHANGED permissions
    BY <1>3 DEF Step, ListWorkspaces, ListPanels, SelectWorkspace, SelectPanels,
       ReadPermissions, InsertWorkspace, BeginDelete, DeletePanels, DeleteWorkspace, CommitDelete,
       CheckWorkspace, InsertPanel, UpdateRow, ReloadPanel, DeletePanelRow, BeginSet,
       ClearPermissions, InsertPermission, Close, tables
  <2>3. HoldsConnection(s) => UNCHANGED panels
    <3>0. OneHolder
      OBVIOUS
    <3>1. HoldsConnection(s) => ~PoolFree /\ ~HoldsConnection(r)
      BY ONLY <3>0, s \in Slots, r \in Slots, s # r DEF PoolFree, OneHolder
    <3>2. CommitDelete(r) => HoldsConnection(r)
      BY DEF CommitDelete, TxStatement, HoldsConnection, TxSteps
    <3>3. QED
      BY <1>3, <3>1, <3>2 DEF Step, ListWorkspaces, ListPanels, SelectWorkspace, SelectPanels,
       ReadPermissions, InsertWorkspace, BeginDelete, DeletePanels, DeleteWorkspace,
       CheckWorkspace, InsertPanel, UpdateRow, ReloadPanel, DeletePanelRow, BeginSet,
       ClearPermissions, InsertPermission, Close, tables, Statement
  <2>4. pc[s] \in Busy => Callable(req[s].user)' \subseteq since'[s]
    BY <1>1, <2>1, <2>2 DEF GrantOK, Callable
  <2>5. QED
    BY <1>1, <2>1, <2>3, <2>4 DEF Bystander
<1>4. QED
  BY <1>2, <1>3

-----------------------------------------------------------------------------
(***************************************************************************)
(* The slot that takes the step.                                           *)
(***************************************************************************)
SlotOK(r) == ServesOK(r) /\ OwnsOK(r) /\ GrantOK(r)

\* Nothing is claimed of a slot that has answered, or is free.
LEMMA AtRestOK ==
    ASSUME NEW r \in Slots, pc'[r] \in {"idle", "replied"}
    PROVE  SlotOK(r)'
BY DEF SlotOK, ServesOK, OwnsOK, GrantOK, PastOwnerCheck, Busy, Statements, TxSteps,
   AddSteps, UpdateSteps, DeleteSteps, SetSteps

LEMMA AnsweredOK ==
    ASSUME TypeOK, NEW r \in Slots, NEW status, NEW ws, NEW ps, Answer(r, status, ws, ps)
    PROVE  SlotOK(r)'
<1>1. pc'[r] = "replied"
  BY DEF Answer, Goto, TypeOK
<1>2. QED
  BY <1>1, AtRestOK

LEMMA NotFoundOK ==
    ASSUME TypeOK, NEW r \in Slots, AnswerNotFound(r)
    PROVE  SlotOK(r)'
BY AnsweredOK DEF AnswerNotFound

\* A slot that moves on and keeps what it knows.
MovesOn(r, s) ==
    /\ pc'[r] = s
    /\ req'[r] = req[r] /\ local'[r] = local[r] /\ since'[r] = since[r]
    /\ UNCHANGED <<owner, permissions>>

LEMMA ActorOK ==
    ASSUME IInv, NEW r \in Slots, Step(r)
    PROVE  SlotOK(r)'
<1>. USE DEF IInv
<1>a. ServesOK(r) /\ OwnsOK(r) /\ GrantOK(r)
  OBVIOUS
<1>b. pc[r] \in Busy => req[r] \in Requests
  BY DEF ServesOK
<1>1. CASE ListWorkspaces(r)
  <2>. DEFINE mine == {w \in wsRows : owner[w] = req[r].user}
  <2>1. CASE mine = {}
    BY <1>1, <2>1, AnsweredOK DEF ListWorkspaces
  <2>2. CASE mine # {}
    <3>1. /\ pc[r] = "listWorkspaces" /\ pc'[r] = "listPanels"
          /\ local'[r].listed = mine
          /\ req' = req /\ since' = since /\ owner' = owner /\ permissions' = permissions
      BY <1>1, <2>2 DEF ListWorkspaces, Statement, Goto, tables, TypeOK, Scratch
    <3>2. ServesOK(r)'
      BY <1>a, <3>1 DEF ServesOK, Busy, Statements, AddSteps, UpdateSteps, DeleteSteps, SetSteps
    <3>3. OwnsOK(r)'
      BY <3>1 DEF OwnsOK, PastOwnerCheck, AddSteps, UpdateSteps, DeleteSteps
    <3>4. GrantOK(r)'
      BY <1>a, <3>1 DEF GrantOK, ServesOK, Busy, Statements, Callable
    <3>5. QED
      BY <3>2, <3>3, <3>4 DEF SlotOK
  <2>3. QED
    BY <2>1, <2>2
<1>2. CASE ListPanels(r)
  <2>1. PICK w \in local[r].todo :
          IF local[r].todo = {w}
          THEN Answer(r, 200, local[r].listed, {})
          ELSE /\ local' = [local EXCEPT ![r].todo = local[r].todo \ {w}]
               /\ UNCHANGED <<pc, reply>>
    BY <1>2 DEF ListPanels
  <2>2. CASE local[r].todo = {w}
    BY <2>1, <2>2, AnsweredOK
  <2>3. CASE local[r].todo # {w}
    <3>1. /\ pc[r] = "listPanels" /\ pc' = pc
          /\ local'[r].listed = local[r].listed
          /\ req' = req /\ since' = since /\ owner' = owner /\ permissions' = permissions
      BY <1>2, <2>1, <2>3 DEF ListPanels, Statement, tables, TypeOK, Scratch
    <3>2. ServesOK(r)'
      BY <1>a, <3>1 DEF ServesOK, Busy, Statements, AddSteps, UpdateSteps, DeleteSteps, SetSteps
    <3>3. OwnsOK(r)'
      BY <1>a, <3>1 DEF OwnsOK, PastOwnerCheck, AddSteps, UpdateSteps, DeleteSteps
    <3>4. GrantOK(r)'
      BY <1>a, <3>1 DEF GrantOK, Callable
    <3>5. QED
      BY <3>2, <3>3, <3>4 DEF SlotOK
  <2>4. QED
    BY <2>2, <2>3
<1>3. CASE SelectWorkspace(r)
  <2>1. CASE req[r].ws \notin wsRows
    BY <1>3, <2>1, NotFoundOK DEF SelectWorkspace
  <2>2. CASE req[r].ws \in wsRows
    <3>1. /\ pc[r] = "selectWorkspace" /\ pc'[r] = "selectPanels"
          /\ local'[r].owner = owner[req[r].ws]
          /\ req' = req /\ since' = since /\ owner' = owner /\ permissions' = permissions
      BY <1>3, <2>2 DEF SelectWorkspace, Statement, Goto, tables, TypeOK, Scratch
    <3>2. owner[req[r].ws] # None
      BY <2>2 DEF TypeOK
    <3>3. ServesOK(r)'
      BY <1>a, <3>1 DEF ServesOK, Busy, Statements, AddSteps, UpdateSteps, DeleteSteps, SetSteps
    <3>4. OwnsOK(r)'
      BY <3>1, <3>2 DEF OwnsOK, PastOwnerCheck, AddSteps, UpdateSteps, DeleteSteps
    <3>5. GrantOK(r)'
      BY <1>a, <3>1 DEF GrantOK, Callable, Busy, Statements
    <3>6. QED
      BY <3>3, <3>4, <3>5 DEF SlotOK
  <2>3. QED
    BY <2>1, <2>2
<1>4. CASE SelectPanels(r)
  <2>0. pc[r] = "selectPanels" /\ UNCHANGED <<tables, req, since>>
    BY <1>4 DEF SelectPanels, Statement
  <2>1. CASE AnswerNotFound(r)
    BY <2>1, NotFoundOK
  <2>2. CASE local[r].owner = req[r].user /\ OnOwnWorkspace(r)
    <3>1. CASE Answer(r, 200, {req[r].ws}, PanelsOf(req[r].ws))
      BY <3>1, AnsweredOK
    <3>2. owner[req[r].ws] = req[r].user
      BY <1>a, <2>0, <2>2 DEF OwnsOK
    <3>3. CASE \E k \in {<<"delete", "beginDelete">>, <<"deletePanel", "deletePanelRow">>,
                          <<"addPanel", "checkWorkspace">>} :
                  req[r].kind = k[1] /\ pc'[r] = k[2] /\ local' = local
      <4>1. ServesOK(r)'
        BY <1>a, <2>0, <3>3 DEF ServesOK, Busy, Statements, AddSteps, UpdateSteps, DeleteSteps, SetSteps
      <4>2. OwnsOK(r)'
        BY <2>0, <3>2, <3>3 DEF OwnsOK, tables
      <4>3. GrantOK(r)'
        BY <1>a, <2>0, <3>3 DEF GrantOK, Callable, tables, Busy, Statements
      <4>4. QED
        BY <4>1, <4>2, <4>3 DEF SlotOK
    <3>4. CASE /\ req[r].kind = "updatePanel" /\ req[r].panel \in PanelsOf(req[r].ws)
               /\ pc'[r] = "readPermissions"
               /\ local'[r].op = panels[req[r].panel].op
      <4>1. ServesOK(r)'
        BY <1>a, <2>0, <3>4 DEF ServesOK, Busy, Statements, AddSteps, UpdateSteps, DeleteSteps, SetSteps
      <4>2. OwnsOK(r)'
        BY <2>0, <3>2, <3>4 DEF OwnsOK, tables
      <4>3. GrantOK(r)'
        BY <1>a, <2>0, <3>4 DEF GrantOK, Callable, tables, Busy, Statements, PanelsOf, Live
      <4>4. QED
        BY <4>1, <4>2, <4>3 DEF SlotOK
    <3>5. QED
      BY <2>1, <2>2, <3>1, <3>3, <3>4 DEF OnOwnWorkspace, Goto, TypeOK, Scratch
  <2>3. QED
    BY <1>4, <2>1, <2>2 DEF SelectPanels
<1>5. CASE ReadPermissions(r)
  <2>0. pc[r] = "readPermissions" /\ UNCHANGED <<tables, req, since>>
    BY <1>5 DEF ReadPermissions
  <2>1. CASE Answer(r, 400, {}, {})
    BY <2>1, AnsweredOK
  <2>2. CASE /\ OperationAsked(r) \in Callable(req[r].user)
             /\ pc'[r] = IF req[r].kind = "addPanel" THEN "selectWorkspace" ELSE "updateRow"
             /\ local' = local
    <3>1. OperationAsked(r) \in since[r]
      BY <1>a, <2>0, <2>2 DEF GrantOK, Busy, Statements
    <3>2. ServesOK(r)'
      BY <1>a, <2>0, <2>2 DEF ServesOK, Busy, Statements, AddSteps, UpdateSteps, DeleteSteps, SetSteps, Named
    <3>3. OwnsOK(r)'
      BY <1>a, <2>0, <2>2 DEF OwnsOK, PastOwnerCheck, ServesOK, tables, AddSteps, UpdateSteps, DeleteSteps
    <3>4. GrantOK(r)'
      BY <1>a, <2>0, <2>2, <3>1 DEF GrantOK, Callable, tables, Busy, Statements, OperationAsked, ServesOK, Live
    <3>5. QED
      BY <3>2, <3>3, <3>4 DEF SlotOK
  <2>3. QED
    BY <1>5, <2>1, <2>2 DEF ReadPermissions, Goto, TypeOK
<1>6. CASE InsertWorkspace(r)
  BY <1>6, AnsweredOK DEF InsertWorkspace
<1>7. CASE BeginDelete(r)
  <2>1. pc[r] = "beginDelete" /\ MovesOn(r, "deletePanels")
    BY <1>7 DEF BeginDelete, Statement, Goto, MovesOn, tables, TypeOK
  <2>2. ServesOK(r)' /\ OwnsOK(r)' /\ GrantOK(r)'
    BY <1>a, <2>1 DEF MovesOn, ServesOK, OwnsOK, GrantOK, PastOwnerCheck, Callable, Busy, Statements,
       TxSteps, AddSteps, UpdateSteps, DeleteSteps, SetSteps
  <2>3. QED
    BY <2>2 DEF SlotOK
<1>8. CASE DeletePanels(r)
  <2>1. /\ pc[r] = "deletePanels" /\ pc'[r] = "deleteWorkspace"
        /\ local'[r].doomed = PanelsOf(req[r].ws)
        /\ req' = req /\ since' = since /\ UNCHANGED tables
    BY <1>8 DEF DeletePanels, TxStatement, Goto, TypeOK, Scratch
  <2>2. ServesOK(r)'
    BY <1>a, <2>1 DEF ServesOK, Busy, TxSteps, AddSteps, UpdateSteps, DeleteSteps, SetSteps
  <2>3. OwnsOK(r)'
    BY <1>a, <2>1 DEF OwnsOK, PastOwnerCheck, tables, PanelsOf, Live, DeleteSteps
  <2>4. GrantOK(r)'
    BY <1>a, <2>1 DEF GrantOK, ServesOK, Callable, tables, Busy, TxSteps, DeleteSteps
  <2>5. QED
    BY <2>2, <2>3, <2>4 DEF SlotOK
<1>9. CASE DeleteWorkspace(r)
  <2>1. pc[r] = "deleteWorkspace" /\ MovesOn(r, "commitDelete") /\ UNCHANGED panels
    BY <1>9 DEF DeleteWorkspace, TxStatement, Goto, MovesOn, tables, TypeOK
  <2>2. ServesOK(r)' /\ GrantOK(r)'
    BY <1>a, <2>1 DEF MovesOn, ServesOK, GrantOK, Callable, Busy, Statements,
       TxSteps, AddSteps, UpdateSteps, DeleteSteps, SetSteps
  <2>3. OwnsOK(r)'
    BY <1>a, <2>1 DEF MovesOn, OwnsOK, PastOwnerCheck, DeleteSteps, PanelsOf, Live
  <2>4. QED
    BY <2>2, <2>3 DEF SlotOK
<1>10. CASE CommitDelete(r)
  BY <1>10, AnsweredOK DEF CommitDelete
<1>11. CASE CheckWorkspace(r)
  <2>1. CASE AnswerNotFound(r)
    BY <2>1, NotFoundOK
  <2>2. CASE pc[r] = "checkWorkspace" /\ MovesOn(r, "insertPanel")
    <3>1. ServesOK(r)' /\ OwnsOK(r)' /\ GrantOK(r)'
      BY <1>a, <2>2 DEF MovesOn, ServesOK, OwnsOK, GrantOK, PastOwnerCheck, Callable, Busy, Statements,
         AddSteps, UpdateSteps, DeleteSteps, SetSteps
    <3>2. QED
      BY <3>1 DEF SlotOK
  <2>3. QED
    BY <1>11, <2>1, <2>2 DEF CheckWorkspace, Statement, Goto, MovesOn, tables, TypeOK
<1>12. CASE InsertPanel(r)
  BY <1>12, AnsweredOK DEF InsertPanel
<1>13. ASSUME ReadBack(r) PROVE SlotOK(r)'
  BY <1>13, AnsweredOK, NotFoundOK DEF ReadBack
<1>14. CASE UpdateRow(r)
  <2>1. CASE ReadBack(r)
    BY <2>1, <1>13
  <2>2. CASE AnswerNotFound(r)
    BY <2>2, NotFoundOK
  <2>3. CASE pc[r] = "updateRow" /\ MovesOn(r, "reloadPanel")
    <3>1. ServesOK(r)' /\ OwnsOK(r)' /\ GrantOK(r)'
      BY <1>a, <2>3 DEF MovesOn, ServesOK, OwnsOK, GrantOK, PastOwnerCheck, Callable, Busy, Statements,
         AddSteps, UpdateSteps, DeleteSteps, SetSteps
    <3>2. QED
      BY <3>1 DEF SlotOK
  <2>4. QED
    BY <1>14, <2>1, <2>2, <2>3 DEF UpdateRow, Statement, Goto, MovesOn, TypeOK
<1>15. CASE ReloadPanel(r)
  BY <1>15, <1>13 DEF ReloadPanel
<1>16. CASE DeletePanelRow(r)
  BY <1>16, AnsweredOK DEF DeletePanelRow
<1>17. CASE BeginSet(r)
  <2>1. CASE Answer(r, 403, {}, {})
    BY <2>1, AnsweredOK
  <2>2. CASE pc[r] = "beginSet" /\ req[r].user \in Admins /\ MovesOn(r, "clearPermissions")
    <3>1. ServesOK(r)' /\ OwnsOK(r)' /\ GrantOK(r)'
      BY <1>a, <2>2 DEF MovesOn, ServesOK, OwnsOK, GrantOK, PastOwnerCheck, Callable, Busy, Statements,
         TxSteps, AddSteps, UpdateSteps, DeleteSteps, SetSteps
    <3>2. QED
      BY <3>1 DEF SlotOK
  <2>3. QED
    BY <1>17, <2>1, <2>2 DEF BeginSet, Goto, MovesOn, tables, TypeOK
<1>g. ASSUME pc[r] \in {"clearPermissions", "insertPermission"},
             pc'[r] \in {"insertPermission", "commitSet"}, UNCHANGED <<req, since, tables>>
      PROVE  OwnsOK(r)' /\ GrantOK(r)'
  <2>1. req[r].kind = "setPermissions"
    BY <1>a, <1>g DEF ServesOK, SetSteps
  <2>2. OwnsOK(r)'
    BY <1>g, <2>1 DEF OwnsOK, PastOwnerCheck, AddSteps, UpdateSteps, DeleteSteps
  <2>3. GrantOK(r)'
    BY <1>a, <1>g, <2>1 DEF GrantOK, Callable, tables, Busy, TxSteps
  <2>4. QED
    BY <2>2, <2>3
<1>18. CASE ClearPermissions(r)
  <2>1. /\ pc[r] = "clearPermissions"
        /\ pc'[r] = IF req[r].grants = << >> THEN "commitSet" ELSE "insertPermission"
        /\ local'[r].staged = << >>
        /\ UNCHANGED <<req, since, tables>>
    BY <1>18 DEF ClearPermissions, TxStatement, Goto, TypeOK, Scratch
  <2>2. req[r].kind = "setPermissions" /\ req[r] \in Requests
    BY <1>a, <2>1 DEF ServesOK, SetSteps, Busy, TxSteps
  <2>3. req[r].grants \in Seq(Operations)
    BY <2>2, RequestFields
  <2>4. Len(local'[r].staged) = 0
    BY <2>1
  <2>5. req[r].grants = << >> \/ 0 < Len(req[r].grants)
    BY <2>3
  <2>6. ServesOK(r)'
    BY <2>1, <2>2, <2>4, <2>5 DEF ServesOK, Busy, Statements, TxSteps, AddSteps, UpdateSteps, DeleteSteps, SetSteps
  <2>7. QED
    BY <1>g, <2>1, <2>6 DEF SlotOK
<1>19. CASE InsertPermission(r)
  <2>. DEFINE staged == local[r].staged
              next   == req[r].grants[Len(staged) + 1]
  <2>1. CASE Answer(r, 500, {}, {})
    BY <2>1, AnsweredOK
  <2>2. CASE ~Answer(r, 500, {}, {})
    <3>1. /\ pc[r] = "insertPermission"
          /\ pc'[r] = IF Len(staged) + 1 = Len(req[r].grants) THEN "commitSet" ELSE "insertPermission"
          /\ local'[r].staged = Append(staged, next)
          /\ UNCHANGED <<req, since, tables>>
      BY <1>19, <2>2 DEF InsertPermission, TxStatement, Goto, TypeOK, Scratch
    <3>2. req[r].kind = "setPermissions" /\ req[r] \in Requests
      BY <1>a, <3>1 DEF ServesOK, SetSteps, Busy, TxSteps
    <3>3. req[r].grants \in Seq(Operations) /\ staged \in Seq(Operations)
      BY <3>2, RequestFields DEF TypeOK, Scratch
    <3>4. /\ Len(staged) < Len(req[r].grants)
          /\ \A i \in 1 .. Len(staged) : staged[i] = req[r].grants[i]
      BY <1>a, <3>1 DEF ServesOK
    <3>5. next \in Operations
      BY <3>3, <3>4
    <3>. DEFINE longer == Append(staged, next)
    <3>6. /\ Len(longer) = Len(staged) + 1
          /\ \A i \in 1 .. Len(longer) : longer[i] = req[r].grants[i]
      BY <3>3, <3>4, <3>5
    <3>7. /\ Len(local'[r].staged) <= Len(req[r].grants)
          /\ Len(local'[r].staged) = Len(staged) + 1
          /\ \A i \in 1 .. Len(local'[r].staged) : local'[r].staged[i] = req[r].grants[i]
      BY <3>1, <3>3, <3>4, <3>6
    <3>. HIDE DEF staged, next, longer
    <3>8. ServesOK(r)'
      BY <3>1, <3>2, <3>3, <3>4, <3>7 DEF ServesOK, Busy, Statements, TxSteps, AddSteps, UpdateSteps, DeleteSteps, SetSteps
    <3>9. QED
      BY <1>g, <3>1, <3>8 DEF SlotOK
  <2>3. QED
    BY <2>1, <2>2
<1>20. CASE CommitSet(r)
  BY <1>20, AnsweredOK DEF CommitSet
<1>21. CASE Close(r)
  BY <1>21, AtRestOK DEF Close, Goto, TypeOK
<1>22. QED
  BY <1>1, <1>2, <1>3, <1>4, <1>5, <1>6, <1>7, <1>8, <1>9, <1>10, <1>11, <1>12, <1>14,
     <1>15, <1>16, <1>17, <1>18, <1>19, <1>20, <1>21 DEF Step

\* A slot takes the connection only when nobody holds it.
LEMMA StepOneHolder ==
    ASSUME IInv, NEW r \in Slots, Step(r)
    PROVE  OneHolder'
<1>. USE DEF IInv
<1>1. \A s \in Slots : s # r => pc'[s] = pc[s]
  BY StepBystanders DEF Bystander
<1>2. pc'[r] \in TxSteps => pc[r] \in TxSteps \/ PoolFree
  <2>1. CASE BeginDelete(r) \/ BeginSet(r)
    BY <2>1 DEF BeginDelete, BeginSet, Statement, Goto, Answer, TypeOK, TxSteps
  <2>2. CASE DeletePanels(r) \/ DeleteWorkspace(r) \/ ClearPermissions(r) \/ InsertPermission(r)
                \/ CommitDelete(r) \/ CommitSet(r)
    BY <2>2 DEF DeletePanels, DeleteWorkspace, ClearPermissions, InsertPermission,
       CommitDelete, CommitSet, TxStatement, TxSteps
  <2>3. CASE ReadPermissions(r)
    BY <2>3 DEF ReadPermissions, Goto, Answer, TypeOK, TxSteps
  <2>4. QED
    BY <2>1, <2>2, <2>3 DEF Step, ListWorkspaces, ListPanels, SelectWorkspace, SelectPanels,
       InsertWorkspace, CheckWorkspace, InsertPanel, UpdateRow, ReloadPanel, DeletePanelRow,
       Close, Goto, Answer, TypeOK, TxSteps, Statement
<1>3. QED
  BY <1>1, <1>2 DEF OneHolder, HoldsConnection, PoolFree

THEOREM InitIInv == Init => IInv
<1>1. SUFFICES ASSUME Init PROVE IInv
  OBVIOUS
<1>2. TypeOK
  <2>1. << >> \in Seq(Operations)
    OBVIOUS
  <2>2. NoScratch \in Scratch
    BY <2>1 DEF NoScratch, Scratch
  <2>3. QED
    BY <1>1, <2>2 DEF Init, TypeOK
<1>3. \A r \in Slots : ServesOK(r) /\ OwnsOK(r) /\ GrantOK(r)
  BY <1>1 DEF Init, ServesOK, OwnsOK, GrantOK, PastOwnerCheck, Busy, Statements, TxSteps,
     AddSteps, UpdateSteps, DeleteSteps, SetSteps
<1>4. OneHolder
  BY <1>1 DEF Init, OneHolder, HoldsConnection, TxSteps
<1>5. QED
  BY <1>2, <1>3, <1>4 DEF IInv

\* A slot's OK carries over to the other slots when the tables stand still.
LEMMA QuietBystanders ==
    ASSUME IInv, UNCHANGED tables, NEW s \in Slots,
           pc'[s] = pc[s], req'[s] = req[s], local'[s] = local[s], since'[s] = since[s]
    PROVE  ServesOK(s)' /\ OwnsOK(s)' /\ GrantOK(s)'
<1>1. Evolves
  BY DEF tables, Evolves, Live
<1>2. Bystander(s)
  BY DEF IInv, tables, Bystander, GrantOK, Callable
<1>3. QED
  BY <1>1, <1>2, BystanderOK

THEOREM NextIInv == IInv /\ [Next]_vars => IInv'
<1>1. SUFFICES ASSUME IInv, [Next]_vars PROVE IInv'
  OBVIOUS
<1>. USE DEF IInv
<1>t. TypeOK'
  BY <1>1, NextTypeOK
<1>2. ASSUME NEW r \in Slots, NEW q \in Requests, Arrive(r, q) PROVE IInv'
  <2>1. /\ pc[r] = "idle" /\ pc' = [pc EXCEPT ![r] = FirstStatement(q)]
        /\ req' = [req EXCEPT ![r] = q] /\ since' = [since EXCEPT ![r] = Callable(q.user)]
        /\ UNCHANGED <<tables, local, reply>>
    BY <1>2 DEF Arrive, Goto
  <2>2. pc'[r] = FirstStatement(q) /\ req'[r] = q /\ since'[r] = Callable(q.user)
    BY <2>1, <1>1 DEF TypeOK
  <2>3. /\ q.kind = "list" => FirstStatement(q) = "listWorkspaces"
        /\ q.kind = "create" => FirstStatement(q) = "insertWorkspace"
        /\ q.kind = "addPanel" => FirstStatement(q) = "readPermissions"
        /\ q.kind = "setPermissions" => FirstStatement(q) = "beginSet"
        /\ q.kind \in {"get", "delete", "updatePanel", "deletePanel"} => FirstStatement(q) = "selectWorkspace"
    BY DEF FirstStatement
  <2>4. q.kind \in Named \union {"list", "create", "setPermissions"}
    BY RequestsAssumption DEF Request, ListRequest, CreateRequest, NamedRequest, AddRequest,
       PatchRequest, RemoveRequest, GrantRequest, Named
  <2>5. ServesOK(r)'
    BY <2>2, <2>3, <2>4 DEF ServesOK, Named, Busy, Statements, TxSteps, AddSteps, UpdateSteps,
       DeleteSteps, SetSteps
  <2>6. OwnsOK(r)' /\ GrantOK(r)'
    BY <2>1, <2>2, <2>3, <2>4 DEF OwnsOK, GrantOK, PastOwnerCheck, Named, AddSteps, UpdateSteps,
       DeleteSteps, Callable, tables
  <2>7. \A s \in Slots : s # r => ServesOK(s)' /\ OwnsOK(s)' /\ GrantOK(s)'
    <3>1. \A s \in Slots : s # r =>
             pc'[s] = pc[s] /\ req'[s] = req[s] /\ local'[s] = local[s] /\ since'[s] = since[s]
      BY <2>1, <1>1 DEF TypeOK
    <3>2. QED
      BY <1>1, <2>1, <3>1, QuietBystanders
  <2>8. OneHolder'
    <3>1. pc'[r] \notin TxSteps
      BY <2>2, <2>3, <2>4 DEF Named, TxSteps
    <3>2. QED
      BY <1>1, <2>1, <3>1 DEF OneHolder, HoldsConnection, TypeOK
  <2>9. QED
    BY <1>t, <2>5, <2>6, <2>7, <2>8
<1>3. ASSUME NEW r \in Slots, Step(r) PROVE IInv'
  <2>1. SlotOK(r)'
    BY <1>1, <1>3, ActorOK
  <2>2. \A s \in Slots : s # r => ServesOK(s)' /\ OwnsOK(s)' /\ GrantOK(s)'
    BY <1>1, <1>3, StepEvolves, StepBystanders, BystanderOK
  <2>3. OneHolder'
    BY <1>1, <1>3, StepOneHolder
  <2>4. QED
    BY <1>t, <2>1, <2>2, <2>3 DEF SlotOK
<1>4. ASSUME NEW r \in Slots, Fail(r) PROVE IInv'
  <2>1. Answer(r, 500, {}, {}) /\ UNCHANGED <<tables, req, since>>
    BY <1>4 DEF Fail
  <2>2. SlotOK(r)'
    BY <1>1, <2>1, AnsweredOK
  <2>3. pc'[r] = "replied" /\ \A s \in Slots : s # r => pc'[s] = pc[s] /\ local'[s] = local[s]
    BY <1>1, <2>1 DEF Answer, Goto, TypeOK
  <2>4. \A s \in Slots : s # r => ServesOK(s)' /\ OwnsOK(s)' /\ GrantOK(s)'
    BY <1>1, <2>1, <2>3, QuietBystanders
  <2>5. OneHolder'
    BY <1>1, <2>3 DEF OneHolder, HoldsConnection, TxSteps
  <2>6. QED
    BY <1>t, <2>2, <2>4, <2>5 DEF SlotOK
<1>5. CASE Crash
  <2>1. \A s \in Slots : pc'[s] = "idle"
    BY <1>5 DEF Crash
  <2>2. OneHolder'
    BY <2>1 DEF OneHolder, HoldsConnection, TxSteps
  <2>3. QED
    BY <1>t, <2>1, <2>2, AtRestOK DEF SlotOK
<1>6. CASE UNCHANGED vars
  <2>1. UNCHANGED tables /\ UNCHANGED <<pc, req, local, since>>
    BY <1>6 DEF vars, tables
  <2>2. \A s \in Slots : ServesOK(s)' /\ OwnsOK(s)' /\ GrantOK(s)'
    BY <1>1, <2>1, QuietBystanders
  <2>3. OneHolder'
    BY <1>1, <2>1 DEF OneHolder, HoldsConnection
  <2>4. QED
    BY <1>t, <2>2, <2>3
<1>7. QED
  BY <1>1, <1>2, <1>3, <1>4, <1>5, <1>6 DEF Next

\* In every reachable state the tables and the slots are well typed, at most one
\* transaction is open, and each handler's knowledge still holds.
THEOREM Invariant == Spec => []IInv
BY InitIInv, NextIInv, PTL DEF Spec

\* The type invariant, for any accounts, ids, slots and requests.
THEOREM TypeCorrect == Spec => []TypeOK
<1>1. IInv => TypeOK
  BY DEF IInv
<1>2. QED
  BY Invariant, <1>1, PTL

-----------------------------------------------------------------------------
(***************************************************************************)
(* What steps may never do.                                                *)
(***************************************************************************)

\* The three ways a row of table panels changes.
Adds(r, p) ==
    /\ pc[r] = "insertPanel" /\ panels[p] = None /\ panels'[p] = NewRow(req[r])
Changes(r, p) ==
    /\ pc[r] = "updateRow" /\ req[r].panel = p /\ Live(p) /\ panels[p].ws = req[r].ws
    /\ panels'[p] = PatchedRow(panels[p], req[r])
Removes(r, p) ==
    /\ pc[r] \in {"commitDelete", "deletePanelRow"} /\ Live(p) /\ panels[p].ws = req[r].ws
    /\ panels'[p] = Gone

LEMMA PanelWriter ==
    ASSUME IInv, [Next]_vars, NEW p \in PanelIds, panels'[p] # panels[p]
    PROVE  \E r \in Slots : Steps(r) /\ (Adds(r, p) \/ Changes(r, p) \/ Removes(r, p))
<1>. USE DEF IInv
<1>1. panels' # panels
  OBVIOUS
<1>2. PICK r \in Slots : Step(r)
  BY <1>1 DEF Next, Arrive, Fail, Crash, tables, vars
<1>3. CASE CommitDelete(r)
  <2>1. /\ pc[r] = "commitDelete" /\ pc'[r] = "replied"
        /\ panels' = [x \in PanelIds |-> IF x \in local[r].doomed THEN Gone ELSE panels[x]]
    BY <1>3 DEF CommitDelete, TxStatement, Answer, Goto, TypeOK
  <2>2. local[r].doomed = PanelsOf(req[r].ws)
    BY <2>1 DEF OwnsOK
  <2>3. QED
    BY <2>1, <2>2 DEF PanelsOf, Removes, Steps
<1>4. CASE InsertPanel(r)
  <2>1. PICK x \in PanelIds : panels[x] = None /\ panels' = [panels EXCEPT ![x] = NewRow(req[r])]
    BY <1>4 DEF InsertPanel
  <2>2. pc[r] = "insertPanel" /\ pc'[r] = "replied"
    BY <1>4 DEF InsertPanel, Statement, Answer, Goto, TypeOK
  <2>3. x = p /\ panels'[p] = NewRow(req[r])
    BY <2>1 DEF TypeOK
  <2>4. QED
    BY <2>1, <2>2, <2>3 DEF Adds, Steps
<1>5. CASE UpdateRow(r)
  <2>1. /\ pc[r] = "updateRow" /\ pc'[r] = "reloadPanel"
        /\ req[r].panel \in PanelsOf(req[r].ws)
        /\ panels' = [panels EXCEPT ![req[r].panel] = PatchedRow(@, req[r])]
    BY <1>1, <1>5 DEF UpdateRow, Statement, Goto, TypeOK
  <2>2. req[r].panel = p
    BY <2>1 DEF TypeOK
  <2>3. QED
    BY <2>1, <2>2 DEF TypeOK, PanelsOf, Changes, Steps
<1>6. CASE DeletePanelRow(r)
  <2>1. /\ pc[r] = "deletePanelRow" /\ pc'[r] = "replied"
        /\ panels' = [x \in PanelIds |->
                        IF x \in PanelsOf(req[r].ws) /\ x = req[r].panel THEN Gone ELSE panels[x]]
    BY <1>6 DEF DeletePanelRow, Statement, Answer, Goto, TypeOK
  <2>2. QED
    BY <2>1 DEF PanelsOf, Removes, Steps
<1>7. QED
  BY <1>1, <1>2, <1>3, <1>4, <1>5, <1>6
  DEF Step, ListWorkspaces, ListPanels, SelectWorkspace, SelectPanels, ReadPermissions,
      InsertWorkspace, BeginDelete, DeletePanels, DeleteWorkspace, CheckWorkspace, ReloadPanel,
      BeginSet, ClearPermissions, InsertPermission, CommitSet, Close, tables

\* What is known of the request of a slot about to write a panel.
LEMMA WriterKnows ==
    ASSUME IInv, NEW r \in Slots
    PROVE  /\ pc[r] = "insertPanel" =>
                /\ req[r] \in AddRequest /\ owner[req[r].ws] = req[r].user
                /\ req[r].op \in since[r]
           /\ pc[r] = "updateRow" =>
                /\ req[r] \in PatchRequest /\ req[r].kind = "updatePanel"
                /\ owner[req[r].ws] = req[r].user /\ local[r].op \in since[r]
           /\ pc[r] \in {"commitDelete", "deletePanelRow"} => owner[req[r].ws] = req[r].user
<1>1. ServesOK(r) /\ OwnsOK(r) /\ GrantOK(r)
  BY DEF IInv
<1>2. pc[r] = "insertPanel" => req[r] \in Requests /\ req[r].kind = "addPanel"
  BY <1>1 DEF ServesOK, AddSteps, Busy, Statements
<1>3. pc[r] = "updateRow" => req[r] \in Requests /\ req[r].kind = "updatePanel"
  BY <1>1 DEF ServesOK, UpdateSteps, Busy, Statements
<1>4. QED
  BY <1>1, <1>2, <1>3, RequestFields
  DEF OwnsOK, GrantOK, PastOwnerCheck, AddSteps, UpdateSteps, DeleteSteps, Busy, Statements

\* The patched row is of the workspace and the operation the row was of.
LEMMA ChangedRow ==
    ASSUME IInv, NEW r \in Slots, NEW p \in PanelIds, Changes(r, p)
    PROVE  /\ panels'[p] \in PanelRow /\ panels'[p] # Gone
           /\ panels'[p].ws = panels[p].ws /\ panels'[p].op = panels[p].op
<1>1. panels[p] \in PanelRow /\ req[r] \in PatchRequest
  BY WriterKnows, LiveRow DEF Changes, IInv
<1>2. QED
  BY <1>1, PatchedRowType, RowAssumption DEF Changes

\* Whoever may have called in between, only a request of the owner changes a
\* workspace or its panels.
THEOREM OwnerWrites == Spec => OnlyOwnerWrites
<1>1. ASSUME IInv, [Next]_vars, NEW w \in WorkspaceIds, (w \in wsRows) # (w \in wsRows')
      PROVE  \E r \in Slots : Steps(r) /\ req[r].user = owner'[w]
  <2>0. TypeOK
    BY <1>1 DEF IInv
  <2>1. PICK r \in Slots : Step(r)
    BY <1>1 DEF Next, Arrive, Fail, Crash, tables, vars
  <2>2. CASE InsertWorkspace(r)
    <3>1. PICK x \in WorkspaceIds :
            owner' = [owner EXCEPT ![x] = req[r].user] /\ wsRows' = wsRows \union {x}
      BY <2>2 DEF InsertWorkspace
    <3>2. x = w
      BY <1>1, <3>1
    <3>3. Steps(r)
      BY <2>0, <2>2 DEF InsertWorkspace, Statement, Answer, Goto, TypeOK, Steps
    <3>4. QED
      BY <2>0, <3>1, <3>2, <3>3 DEF TypeOK
  <2>3. CASE CommitDelete(r)
    <3>1. w = req[r].ws /\ owner' = owner
      BY <1>1, <2>3 DEF CommitDelete
    <3>2. Steps(r) /\ pc[r] = "commitDelete"
      BY <2>0, <2>3 DEF CommitDelete, TxStatement, Answer, Goto, TypeOK, Steps
    <3>3. QED
      BY <1>1, <3>1, <3>2, WriterKnows
  <2>4. QED
    BY <1>1, <2>1, <2>2, <2>3
    DEF Step, ListWorkspaces, ListPanels, SelectWorkspace, SelectPanels, ReadPermissions,
        BeginDelete, DeletePanels, DeleteWorkspace, CheckWorkspace, InsertPanel, UpdateRow,
        ReloadPanel, DeletePanelRow, BeginSet, ClearPermissions, InsertPermission, CommitSet,
        Close, tables
<1>2. ASSUME IInv, [Next]_vars, NEW p \in PanelIds, panels'[p] # panels[p]
      PROVE  \E r \in Slots : Steps(r) /\ req[r].user = owner[WorkspaceOfPanel(p)]
  <2>1. PICK r \in Slots : Steps(r) /\ (Adds(r, p) \/ Changes(r, p) \/ Removes(r, p))
    BY <1>2, PanelWriter
  <2>2. CASE Adds(r, p)
    <3>1. WorkspaceOfPanel(p) = req[r].ws
      BY <1>2, <2>2, WriterKnows, NewRowType DEF Adds, WorkspaceOfPanel, Live
    <3>2. QED
      BY <1>2, <2>1, <2>2, <3>1, WriterKnows DEF Adds
  <2>3. CASE Changes(r, p) \/ Removes(r, p)
    BY <1>2, <2>1, <2>3, WriterKnows DEF Changes, Removes, WorkspaceOfPanel
  <2>4. QED
    BY <2>1, <2>2, <2>3
<1>3. IInv /\ [Next]_vars =>
        [/\ \A w \in WorkspaceIds : (w \in wsRows) # (w \in wsRows') =>
               \E r \in Slots : Steps(r) /\ req[r].user = owner'[w]
         /\ \A p \in PanelIds : panels'[p] # panels[p] =>
               \E r \in Slots : Steps(r) /\ req[r].user = owner[WorkspaceOfPanel(p)]]_vars
  BY <1>1, <1>2
<1>4. QED
  BY Invariant, <1>3, PTL DEF Spec, OnlyOwnerWrites

\* No panel is saved or changed over an operation the owner could call at no
\* moment of the request.
THEOREM GrantBeforeSave == Spec => SavedUnderGrant
<1>1. ASSUME IInv, [Next]_vars, NEW p \in PanelIds, panels'[p] # panels[p], panels'[p] # Gone
      PROVE  \E r \in Slots : Steps(r) /\ panels'[p].op \in since[r]
  <2>1. PICK r \in Slots : Steps(r) /\ (Adds(r, p) \/ Changes(r, p) \/ Removes(r, p))
    BY <1>1, PanelWriter
  <2>2. CASE Adds(r, p)
    BY <1>1, <2>1, <2>2, WriterKnows, NewRowType DEF Adds
  <2>3. CASE Changes(r, p)
    <3>1. panels'[p].op = panels[p].op
      BY <1>1, <2>3, ChangedRow
    <3>2. panels[p].op = local[r].op
      BY <1>1, <2>3 DEF Changes, IInv, GrantOK, Live
    <3>3. QED
      BY <1>1, <2>1, <2>3, <3>1, <3>2, WriterKnows DEF Changes
  <2>4. QED
    BY <1>1, <2>1, <2>2, <2>3 DEF Removes
<1>2. IInv /\ [Next]_vars =>
        [\A p \in PanelIds : panels'[p] # panels[p] /\ panels'[p] # Gone =>
            \E r \in Slots : Steps(r) /\ panels'[p].op \in since[r]]_vars
  BY <1>1
<1>3. QED
  BY Invariant, <1>2, PTL DEF Spec, SavedUnderGrant

\* Two PATCHes in flight never undo each other's columns.
THEOREM NoLostColumns == Spec => PatchWritesNamedColumns
<1>. DEFINE Kept(p) ==
        /\ panels'[p].ws = panels[p].ws /\ panels'[p].op = panels[p].op
        /\ \E r \in Slots :
              /\ Steps(r) /\ req[r].kind = "updatePanel" /\ req[r].panel = p
              /\ req[r].title = Absent => panels'[p].title = panels[p].title
              /\ req[r].width = Absent => panels'[p].width = panels[p].width
              /\ req[r].view = Absent => panels'[p].view = panels[p].view
<1>1. ASSUME IInv, [Next]_vars, NEW p \in PanelIds, Live(p), panels'[p] # panels[p], panels'[p] # Gone
      PROVE  Kept(p)
  <2>1. PICK r \in Slots : Steps(r) /\ Changes(r, p)
    BY <1>1, PanelWriter DEF Adds, Removes, Live
  <2>2. panels'[p].ws = panels[p].ws /\ panels'[p].op = panels[p].op
    BY <1>1, <2>1, ChangedRow
  <2>3. req[r].kind = "updatePanel" /\ req[r].panel = p /\ panels[p] \in PanelRow
    BY <1>1, <2>1, WriterKnows, LiveRow DEF Changes, IInv
  <2>4. /\ req[r].title = Absent => panels'[p].title = panels[p].title
        /\ req[r].width = Absent => panels'[p].width = panels[p].width
        /\ req[r].view = Absent => panels'[p].view = panels[p].view
    BY <2>1, <2>3 DEF Changes, PatchedRow, PanelRow
  <2>5. QED
    BY <2>1, <2>2, <2>3, <2>4
<1>2. IInv /\ [Next]_vars =>
        [\A p \in PanelIds : Live(p) /\ panels'[p] # panels[p] /\ panels'[p] # Gone => Kept(p)]_vars
  BY <1>1
<1>3. QED
  BY Invariant, <1>2, PTL DEF Spec, PatchWritesNamedColumns

\* The step that ends a workspace ends every panel it has.
THEOREM DeleteIsWhole == Spec => DeleteTakesEveryPanel
<1>1. ASSUME IInv, [Next]_vars, NEW w \in wsRows \ wsRows'
      PROVE  (PanelsOf(w) = {})'
  <2>1. PICK r \in Slots : Step(r)
    BY <1>1 DEF Next, Arrive, Fail, Crash, tables, vars
  <2>2. CommitDelete(r)
    BY <1>1, <2>1
    DEF Step, ListWorkspaces, ListPanels, SelectWorkspace, SelectPanels, ReadPermissions,
        InsertWorkspace, BeginDelete, DeletePanels, DeleteWorkspace, CheckWorkspace, InsertPanel,
        UpdateRow, ReloadPanel, DeletePanelRow, BeginSet, ClearPermissions, InsertPermission,
        CommitSet, Close, tables
  <2>3. /\ pc[r] = "commitDelete" /\ w = req[r].ws
        /\ panels' = [x \in PanelIds |-> IF x \in local[r].doomed THEN Gone ELSE panels[x]]
    BY <1>1, <2>2 DEF CommitDelete, TxStatement
  <2>4. local[r].doomed = PanelsOf(w)
    BY <1>1, <2>3 DEF IInv, OwnsOK
  <2>5. \A x \in PanelIds : panels'[x] = Gone \/ (panels'[x] = panels[x] /\ x \notin PanelsOf(w))
    BY <2>3, <2>4
  <2>6. QED
    BY <2>5 DEF PanelsOf, Live
<1>2. IInv /\ [Next]_vars => [\A w \in wsRows \ wsRows' : (PanelsOf(w) = {})']_vars
  BY <1>1
<1>3. QED
  BY Invariant, <1>2, PTL DEF Spec, DeleteTakesEveryPanel

\* A permission set changes only to the whole of what an admin asked for.
THEOREM GrantsAreWhole == Spec => GrantsReplacedWhole
<1>1. ASSUME IInv, [Next]_vars, NEW u \in Users, permissions'[u] # permissions[u]
      PROVE  \E r \in Slots :
                /\ Steps(r) /\ req[r].kind = "setPermissions"
                /\ req[r].user \in Admins /\ req[r].target = u
                /\ permissions'[u] = RangeOf(req[r].grants)
  <2>0. TypeOK
    BY <1>1 DEF IInv
  <2>1. PICK r \in Slots : Step(r)
    BY <1>1 DEF Next, Arrive, Fail, Crash, tables, vars
  <2>2. CommitSet(r)
    BY <1>1, <2>1
    DEF Step, ListWorkspaces, ListPanels, SelectWorkspace, SelectPanels, ReadPermissions,
        InsertWorkspace, BeginDelete, DeletePanels, DeleteWorkspace, CommitDelete, CheckWorkspace,
        InsertPanel, UpdateRow, ReloadPanel, DeletePanelRow, BeginSet, ClearPermissions,
        InsertPermission, Close, tables
  <2>3. /\ pc[r] = "commitSet" /\ pc'[r] = "replied"
        /\ permissions' = [permissions EXCEPT ![req[r].target] = RangeOf(local[r].staged)]
    BY <2>0, <2>2 DEF CommitSet, TxStatement, Answer, Goto, TypeOK
  <2>4. req[r].target = u /\ permissions'[u] = RangeOf(local[r].staged)
    BY <1>1, <2>0, <2>3 DEF TypeOK
  <2>5. /\ req[r] \in Requests /\ req[r].kind = "setPermissions" /\ req[r].user \in Admins
        /\ Len(local[r].staged) = Len(req[r].grants)
        /\ \A i \in 1 .. Len(local[r].staged) : local[r].staged[i] = req[r].grants[i]
    BY <1>1, <2>3 DEF IInv, ServesOK, Busy, TxSteps, SetSteps
  <2>6. RangeOf(local[r].staged) = RangeOf(req[r].grants)
    <3>1. local[r].staged \in Seq(Operations) /\ req[r].grants \in Seq(Operations)
      BY <2>0, <2>5, RequestFields DEF TypeOK, Scratch
    <3>2. DOMAIN local[r].staged = 1 .. Len(local[r].staged) /\ DOMAIN req[r].grants = 1 .. Len(req[r].grants)
      BY <3>1
    <3>3. QED
      BY <2>5, <3>2 DEF RangeOf
  <2>7. QED
    BY <2>3, <2>4, <2>5, <2>6 DEF Steps
<1>2. IInv /\ [Next]_vars =>
        [\A u \in Users : permissions'[u] # permissions[u] =>
           \E r \in Slots :
              /\ Steps(r) /\ req[r].kind = "setPermissions"
              /\ req[r].user \in Admins /\ req[r].target = u
              /\ permissions'[u] = RangeOf(req[r].grants)]_vars
  BY <1>1
<1>3. QED
  BY Invariant, <1>2, PTL DEF Spec, GrantsReplacedWhole

\* A response shows only what is the caller's.
THEOREM RepliesShowOwn == Spec => ReplyShowsOwn
<1>. DEFINE Own(r) ==
        /\ \A w \in reply'[r].workspaces : owner'[w] = req[r].user
        /\ \A p \in reply'[r].panels : owner[panels'[p].ws] = req[r].user
<1>1. ASSUME IInv, [Next]_vars, NEW r \in Slots, Replies(r) PROVE Own(r)
  <2>0. TypeOK
    BY <1>1 DEF IInv
  <2>a. ASSUME NEW status, Answer(r, status, {}, {}) PROVE Own(r)
    BY <2>0, <2>a DEF Answer, TypeOK
  <2>b. ASSUME AnswerNotFound(r) PROVE Own(r)
    BY <2>a, <2>b DEF AnswerNotFound
  <2>1. Step(r) \/ Fail(r)
    <3>1. \A s \in Slots : s # r => ~Step(s) /\ ~Fail(s)
      BY <1>1, <2>0, StepBystanders DEF Bystander, Replies, Busy, Statements, TxSteps, Fail, Answer, Goto, TypeOK
    <3>2. \A s \in Slots, q \in Requests : ~Arrive(s, q)
      <4>1. \A q \in Requests : FirstStatement(q) # "replied"
        BY DEF FirstStatement
      <4>2. QED
        BY <1>1, <2>0, <4>1 DEF Replies, Arrive, Goto, TypeOK, Busy, Statements, TxSteps
    <3>3. ~Crash
      BY <1>1 DEF Crash, Replies
    <3>4. QED
      BY <1>1, <3>1, <3>2, <3>3 DEF Next, vars, Replies, Busy, Statements, TxSteps
  <2>2. CASE Fail(r)
    BY <2>2, <2>a DEF Fail
  <2>3. CASE ListWorkspaces(r)
    BY <1>1, <2>0, <2>3, <2>a DEF ListWorkspaces, Replies, Goto, TypeOK
  <2>4. CASE ListPanels(r)
    <3>1. Answer(r, 200, local[r].listed, {}) /\ pc[r] = "listPanels" /\ owner' = owner
      BY <1>1, <2>4 DEF ListPanels, Statement, Replies, Busy, Statements, TxSteps, tables
    <3>2. reply'[r].workspaces = local[r].listed /\ reply'[r].panels = {}
      BY <2>0, <3>1 DEF Answer, TypeOK
    <3>3. QED
      BY <1>1, <3>1, <3>2 DEF IInv, OwnsOK
  <2>5. CASE SelectWorkspace(r)
    BY <1>1, <2>0, <2>5, <2>b DEF SelectWorkspace, Replies, Goto, TypeOK
  <2>6. CASE SelectPanels(r)
    <3>1. CASE AnswerNotFound(r)
      BY <2>b, <3>1
    <3>2. CASE ~AnswerNotFound(r)
      <4>1. /\ pc[r] = "selectPanels" /\ local[r].owner = req[r].user /\ UNCHANGED tables
            /\ Answer(r, 200, {req[r].ws}, PanelsOf(req[r].ws))
        BY <1>1, <2>0, <2>6, <3>2 DEF SelectPanels, Statement, OnOwnWorkspace, Replies, Goto, TypeOK
      <4>2. reply'[r].workspaces = {req[r].ws} /\ reply'[r].panels = PanelsOf(req[r].ws)
        BY <2>0, <4>1 DEF Answer, TypeOK
      <4>3. owner[req[r].ws] = req[r].user
        BY <1>1, <4>1 DEF IInv, OwnsOK
      <4>4. QED
        BY <4>1, <4>2, <4>3 DEF PanelsOf, tables
    <3>3. QED
      BY <3>1, <3>2
  <2>7. CASE ReadPermissions(r)
    BY <1>1, <2>0, <2>7, <2>a DEF ReadPermissions, Replies, Goto, TypeOK
  <2>8. CASE InsertWorkspace(r)
    <3>1. PICK w \in WorkspaceIds :
            owner' = [owner EXCEPT ![w] = req[r].user] /\ Answer(r, 201, {w}, {})
      BY <2>8 DEF InsertWorkspace
    <3>2. reply'[r].workspaces = {w} /\ reply'[r].panels = {} /\ owner'[w] = req[r].user
      BY <2>0, <3>1 DEF Answer, TypeOK
    <3>3. QED
      BY <3>2
  <2>9. CASE BeginDelete(r) \/ DeletePanels(r) \/ DeleteWorkspace(r) \/ ClearPermissions(r)
    BY <1>1, <2>0, <2>9 DEF BeginDelete, DeletePanels, DeleteWorkspace, ClearPermissions, Replies, Goto, TypeOK
  <2>10. CASE CommitDelete(r) \/ DeletePanelRow(r) \/ CommitSet(r)
    BY <2>10, <2>a DEF CommitDelete, DeletePanelRow, CommitSet
  <2>11. CASE CheckWorkspace(r)
    BY <1>1, <2>0, <2>11, <2>b DEF CheckWorkspace, Replies, Goto, TypeOK
  <2>12. CASE InsertPanel(r)
    <3>1. PICK p \in PanelIds :
            panels' = [panels EXCEPT ![p] = NewRow(req[r])] /\ Answer(r, 201, {}, {p})
      BY <2>12 DEF InsertPanel
    <3>2. reply'[r].workspaces = {} /\ reply'[r].panels = {p} /\ panels'[p] = NewRow(req[r])
      BY <2>0, <3>1 DEF Answer, TypeOK
    <3>3. req[r] \in AddRequest /\ owner[req[r].ws] = req[r].user
      BY <1>1, <2>12, WriterKnows DEF InsertPanel, Statement
    <3>4. QED
      BY <3>2, <3>3, NewRowType
  <2>13. ASSUME pc[r] \in UpdateSteps, ReadBack(r), UNCHANGED panels PROVE Own(r)
    <3>1. CASE AnswerNotFound(r)
      BY <2>b, <3>1
    <3>2. CASE req[r].panel \in PanelsOf(req[r].ws) /\ Answer(r, 200, {}, {req[r].panel})
      <4>1. reply'[r].workspaces = {} /\ reply'[r].panels = {req[r].panel}
        BY <2>0, <3>2 DEF Answer, TypeOK
      <4>2. owner[req[r].ws] = req[r].user
        BY <1>1, <2>13 DEF IInv, OwnsOK, PastOwnerCheck
      <4>3. QED
        BY <2>13, <3>2, <4>1, <4>2 DEF PanelsOf
    <3>3. QED
      BY <2>13, <3>1, <3>2 DEF ReadBack
  <2>14. CASE UpdateRow(r)
    <3>1. CASE ReadBack(r) /\ UNCHANGED panels
      BY <2>13, <2>14, <3>1 DEF UpdateRow, Statement, UpdateSteps
    <3>2. CASE AnswerNotFound(r)
      BY <2>b, <3>2
    <3>3. QED
      BY <1>1, <2>0, <2>14, <3>1, <3>2 DEF UpdateRow, Replies, Goto, TypeOK
  <2>15. CASE ReloadPanel(r)
    BY <2>13, <2>15 DEF ReloadPanel, Statement, UpdateSteps, tables
  <2>16. CASE BeginSet(r)
    BY <1>1, <2>0, <2>16, <2>a DEF BeginSet, Replies, Goto, TypeOK
  <2>17. CASE InsertPermission(r)
    BY <1>1, <2>0, <2>17, <2>a DEF InsertPermission, Replies, Goto, TypeOK
  <2>18. CASE Close(r)
    BY <1>1, <2>18 DEF Close, Replies, Busy, Statements, TxSteps
  <2>19. QED
    BY <2>1, <2>2, <2>3, <2>4, <2>5, <2>6, <2>7, <2>8, <2>9, <2>10, <2>11, <2>12, <2>14, <2>15,
       <2>16, <2>17, <2>18 DEF Step
<1>2. IInv /\ [Next]_vars => [\A r \in Slots : Replies(r) => Own(r)]_vars
  BY <1>1
<1>3. QED
  BY Invariant, <1>2, PTL DEF Spec, ReplyShowsOwn

-----------------------------------------------------------------------------
(***************************************************************************)
(* What EventuallyReplies rests on, but for steps being possible.          *)
(***************************************************************************)

\* How many kinds of statement a handler has ahead of it at most, its reply counted.
Rank(r) ==
    CASE pc[r] = "readPermissions" -> IF req[r].kind = "addPanel" THEN 9 ELSE 5
      [] pc[r] = "selectWorkspace" -> 8
      [] pc[r] = "selectPanels" -> 7
      [] pc[r] \in {"beginDelete", "beginSet"} -> 6
      [] pc[r] \in {"deletePanels", "clearPermissions"} -> 5
      [] pc[r] \in {"deleteWorkspace", "insertPermission", "updateRow", "listWorkspaces"} -> 4
      [] pc[r] \in {"commitDelete", "commitSet", "reloadPanel", "listPanels", "checkWorkspace"} -> 3
      [] pc[r] \in {"insertPanel", "insertWorkspace", "deletePanelRow"} -> 2
      [] pc[r] = "replied" -> 1
      [] OTHER -> 0

\* How often the statement of a loop is still to come.
Rounds(r) ==
    CASE pc[r] = "listPanels" -> Cardinality(local[r].todo)
      [] pc[r] = "insertPermission" -> Len(req[r].grants) - Len(local[r].staged)
      [] OTHER -> 0

Nearer(r) ==
    \/ Rank(r)' < Rank(r)
    \/ Rank(r)' = Rank(r) /\ Rounds(r)' < Rounds(r)

\* Every list a handler walks is finite, though nothing bounds the ids there are.
FiniteLists == IsFiniteSet(wsRows) /\ \A r \in Slots : IsFiniteSet(local[r].todo)

LEMMA FiniteListsKept ==
    ASSUME IInv, FiniteLists, [Next]_vars
    PROVE  FiniteLists'
<1>. USE DEF FiniteLists
<1>0. TypeOK
  BY DEF IInv
<1>1. IsFiniteSet(wsRows')
  <2>1. wsRows' \subseteq wsRows \/ \E w : wsRows' = wsRows \union {w}
    <3>1. ASSUME NEW r \in Slots, InsertWorkspace(r) PROVE \E w : wsRows' = wsRows \union {w}
      BY <3>1 DEF InsertWorkspace
    <3>2. ASSUME NEW r \in Slots, CommitDelete(r) PROVE wsRows' \subseteq wsRows
      BY <3>2 DEF CommitDelete
    <3>3. ASSUME NEW r \in Slots, Step(r), ~InsertWorkspace(r), ~CommitDelete(r) PROVE UNCHANGED wsRows
      BY <3>3 DEF Step, tables, ListWorkspaces, ListPanels, SelectWorkspace, SelectPanels,
         ReadPermissions, BeginDelete, DeletePanels, DeleteWorkspace, CheckWorkspace,
         InsertPanel, UpdateRow, ReloadPanel, DeletePanelRow, BeginSet, ClearPermissions, InsertPermission, CommitSet, Close
    <3>4. QED
      BY <3>1, <3>2, <3>3 DEF Next, vars, tables, Arrive, Fail, Crash
  <2>2. QED
    BY <2>1, FS_Subset, FS_AddElement
<1>2. ASSUME NEW s \in Slots PROVE local'[s].todo \subseteq local[s].todo \/ local'[s].todo \subseteq wsRows
  <2>1. ASSUME NEW r \in Slots, Step(r) \/ Fail(r)
        PROVE  local'[s].todo \subseteq local[s].todo \/ local'[s].todo \subseteq wsRows
    <3>1. CASE r # s
      BY <1>0, <2>1, <3>1, StepBystanders DEF Bystander, Fail, Answer, TypeOK
    <3>2. CASE r = s /\ local'[r] = NoScratch
      BY <3>2 DEF NoScratch
    <3>3. CASE r = s /\ UNCHANGED local
      BY <3>3
    <3>4. CASE ListWorkspaces(r) /\ r = s
      BY <1>0, <3>2, <3>4 DEF ListWorkspaces, Answer, TypeOK, Scratch
    <3>5. CASE ListPanels(r) /\ r = s
      BY <1>0, <3>2, <3>5 DEF ListPanels, Answer, TypeOK, Scratch
    <3>6. CASE (SelectWorkspace(r) \/ SelectPanels(r)) /\ r = s
      <4>1. \/ local' = [local EXCEPT ![r] = NoScratch] \/ UNCHANGED local
            \/ \E u : local' = [local EXCEPT ![r].owner = u]
            \/ \E o : local' = [local EXCEPT ![r].op = o]
        BY <3>6 DEF SelectWorkspace, SelectPanels, OnOwnWorkspace, Answer, AnswerNotFound
      <4>2. CASE local' = [local EXCEPT ![r] = NoScratch]
        BY <1>0, <3>2, <3>6, <4>2 DEF TypeOK
      <4>3. ASSUME NEW u, local' = [local EXCEPT ![r].owner = u] PROVE local'[r].todo = local[r].todo
        BY <1>0, <4>3 DEF TypeOK, Scratch
      <4>4. ASSUME NEW o, local' = [local EXCEPT ![r].op = o] PROVE local'[r].todo = local[r].todo
        BY <1>0, <4>4 DEF TypeOK, Scratch
      <4>5. QED
        BY <3>3, <3>6, <4>1, <4>2, <4>3, <4>4
    <3>7. CASE (DeletePanels(r) \/ ClearPermissions(r) \/ InsertPermission(r)) /\ r = s
      <4>1. \/ local' = [local EXCEPT ![r] = NoScratch]
            \/ \E d : local' = [local EXCEPT ![r].doomed = d]
            \/ \E g : local' = [local EXCEPT ![r].staged = g]
        BY <3>7 DEF DeletePanels, ClearPermissions, InsertPermission, Answer
      <4>2. QED
        BY <1>0, <3>2, <3>7, <4>1 DEF TypeOK, Scratch
    <3>8. CASE r = s /\ (ReadPermissions(r) \/ InsertWorkspace(r) \/ BeginDelete(r) \/ DeleteWorkspace(r)
                 \/ CommitDelete(r) \/ CheckWorkspace(r) \/ InsertPanel(r) \/ UpdateRow(r) \/ ReloadPanel(r)
                 \/ DeletePanelRow(r) \/ BeginSet(r) \/ CommitSet(r) \/ Close(r) \/ Fail(r))
      <4>1. local' = [local EXCEPT ![r] = NoScratch] \/ UNCHANGED local
        BY <3>8 DEF ReadPermissions, InsertWorkspace, BeginDelete, DeleteWorkspace, CommitDelete, CheckWorkspace,
           InsertPanel, UpdateRow, ReloadPanel, ReadBack, DeletePanelRow, BeginSet, CommitSet, Close, Fail, Answer,
           AnswerNotFound
      <4>2. QED
        BY <1>0, <3>2, <3>3, <3>8, <4>1 DEF TypeOK
    <3>9. QED
      BY <2>1, <3>1, <3>4, <3>5, <3>6, <3>7, <3>8 DEF Step
  <2>2. CASE Crash
    BY <2>2 DEF Crash, NoScratch
  <2>3. CASE \E r \in Slots, q \in Requests : Arrive(r, q)
    BY <2>3 DEF Arrive
  <2>4. CASE UNCHANGED vars
    BY <2>4 DEF vars
  <2>5. QED
    BY <2>1, <2>2, <2>3, <2>4 DEF Next
<1>3. QED
  BY <1>1, <1>2, FS_Subset

THEOREM ListsAreFinite == Spec => []FiniteLists
<1>1. Init => FiniteLists
  <2>1. ASSUME Init PROVE wsRows = {} /\ \A r \in Slots : local[r].todo = {}
    BY <2>1 DEF Init, NoScratch
  <2>2. IsFiniteSet({})
    BY FS_EmptySet
  <2>3. QED
    BY <2>1, <2>2 DEF FiniteLists
<1>2. IInv /\ FiniteLists /\ [Next]_vars => FiniteLists'
  BY FiniteListsKept
<1>3. QED
  BY <1>1, <1>2, Invariant, PTL DEF Spec

LEMMA MeasureType ==
    ASSUME IInv, FiniteLists, NEW r \in Slots
    PROVE  /\ Rank(r) \in Nat /\ Rounds(r) \in Nat
           /\ pc[r] \in Busy <=> Rank(r) > 1
<1>1. pc[r] \in Busy \union {"idle", "replied"}
  BY DEF IInv, TypeOK
<1>2. Rank(r) \in Nat /\ (pc[r] \in Busy <=> Rank(r) > 1)
  BY <1>1 DEF Rank, Busy, Statements, TxSteps
<1>3. pc[r] = "listPanels" => Cardinality(local[r].todo) \in Nat
  BY FS_CardinalityType DEF FiniteLists
<1>4. pc[r] = "insertPermission" => Len(req[r].grants) - Len(local[r].staged) \in Nat
  <2>1. pc[r] = "insertPermission" => req[r].grants \in Seq(Operations)
    BY RequestFields DEF IInv, ServesOK, SetSteps, GrantRequest, Busy, TxSteps
  <2>2. pc[r] = "insertPermission" => Len(local[r].staged) < Len(req[r].grants)
    BY DEF IInv, ServesOK
  <2>3. local[r].staged \in Seq(Operations)
    BY DEF IInv, TypeOK, Scratch
  <2>4. QED
    BY <2>1, <2>2, <2>3
<1>5. QED
  BY <1>2, <1>3, <1>4 DEF Rounds

\* Whoever steps, a handler that is not done is where it was or nearer to its reply, and its
\* own steps bring it nearer: no interleaving sends one back (the bodies of the handlers).
THEOREM StepsRunOut ==
    Spec => [][\A r \in Slots :
                 /\ Rank(r) \in Nat /\ Rounds(r) \in Nat /\ (pc[r] \in Busy <=> Rank(r) > 1)
                 /\ Step(r) => Nearer(r)
                 /\ pc[r] \in Busy => Nearer(r) \/ UNCHANGED <<Rank(r), Rounds(r)>>]_vars
<1>1. ASSUME IInv, FiniteLists, NEW r \in Slots, Step(r) PROVE Nearer(r)
  <2>0. /\ TypeOK
        /\ ServesOK(r)
    BY <1>1 DEF IInv
  <2>1. req'[r] = req[r] \/ Close(r)
    BY <1>1 DEF Step, ListWorkspaces, ListPanels, SelectWorkspace, SelectPanels,
       ReadPermissions, InsertWorkspace, BeginDelete, DeletePanels, DeleteWorkspace, CommitDelete,
       CheckWorkspace, InsertPanel, UpdateRow, ReloadPanel, DeletePanelRow, BeginSet,
       ClearPermissions, InsertPermission, CommitSet
  <2>2. ASSUME pc[r] \in Busy, pc'[r] = "replied" PROVE Nearer(r)
    BY <2>2 DEF Rank, Nearer, Busy, Statements, TxSteps
  <2>3. ASSUME NEW status, NEW ws, NEW ps, Answer(r, status, ws, ps) PROVE pc'[r] = "replied"
    BY <2>0, <2>3 DEF Answer, Goto, TypeOK
  <2>4. ASSUME NEW s, Goto(r, s) PROVE pc'[r] = s
    BY <2>0, <2>4 DEF Goto, TypeOK
  <2>5. AnswerNotFound(r) => pc'[r] = "replied"
    BY <2>3 DEF AnswerNotFound
  <2>6. ReadBack(r) => pc'[r] = "replied"
    BY <2>3, <2>5 DEF ReadBack
  <2>7. ListWorkspaces(r) => pc[r] = "listWorkspaces" /\ pc'[r] \in {"replied", "listPanels"}
    BY <2>3, <2>4 DEF ListWorkspaces, Statement
  <2>8. CASE ListPanels(r) /\ pc'[r] # "replied"
    <3>1. PICK w \in local[r].todo : local' = [local EXCEPT ![r].todo = local[r].todo \ {w}] /\ UNCHANGED pc
      BY <2>3, <2>8 DEF ListPanels
    <3>2. local'[r].todo = local[r].todo \ {w}
      BY <2>0, <3>1 DEF TypeOK, Scratch
    <3>3. IsFiniteSet(local[r].todo)
      BY <1>1 DEF FiniteLists
    <3>4. Cardinality(local'[r].todo) = Cardinality(local[r].todo) - 1 /\ Cardinality(local[r].todo) \in Nat
      BY <3>2, <3>3, FS_RemoveElement, FS_CardinalityType
    <3>5. pc[r] = "listPanels" /\ pc'[r] = pc[r]
      BY <2>8, <3>1 DEF ListPanels, Statement
    <3>6. Rounds(r)' < Rounds(r)
      BY <3>4, <3>5 DEF Rounds
    <3>7. Rank(r)' = Rank(r)
      BY <3>5 DEF Rank
    <3>8. QED
      BY <3>6, <3>7 DEF Nearer
  <2>9. ListPanels(r) => pc[r] = "listPanels"
    BY DEF ListPanels, Statement
  <2>10. SelectWorkspace(r) => pc[r] = "selectWorkspace" /\ pc'[r] \in {"replied", "selectPanels"}
    BY <2>4, <2>5 DEF SelectWorkspace, Statement
  <2>11. CASE SelectPanels(r) /\ pc'[r] # "replied"
    <3>1. pc[r] = "selectPanels" /\ OnOwnWorkspace(r)
      BY <2>5, <2>11 DEF SelectPanels, Statement
    <3>2. \/ pc'[r] \in {"beginDelete", "deletePanelRow", "checkWorkspace"}
          \/ pc'[r] = "readPermissions" /\ req[r].kind = "updatePanel"
      BY <2>3, <2>4, <2>5, <2>11, <3>1 DEF OnOwnWorkspace
    <3>3. req'[r] = req[r]
      BY <2>11 DEF SelectPanels
    <3>4. QED
      BY <3>1, <3>2, <3>3 DEF Rank, Nearer
  <2>12. SelectPanels(r) => pc[r] = "selectPanels"
    BY DEF SelectPanels, Statement
  <2>13. ReadPermissions(r) => /\ pc[r] = "readPermissions"
                               /\ \/ pc'[r] = "replied"
                                  \/ req[r].kind = "addPanel" /\ pc'[r] = "selectWorkspace"
                                  \/ req[r].kind # "addPanel" /\ pc'[r] = "updateRow"
    BY <2>3, <2>4 DEF ReadPermissions
  <2>14. /\ InsertWorkspace(r) => pc[r] = "insertWorkspace" /\ pc'[r] = "replied"
         /\ InsertPanel(r) => pc[r] = "insertPanel" /\ pc'[r] = "replied"
         /\ DeletePanelRow(r) => pc[r] = "deletePanelRow" /\ pc'[r] = "replied"
         /\ CommitDelete(r) => pc[r] = "commitDelete" /\ pc'[r] = "replied"
         /\ CommitSet(r) => pc[r] = "commitSet" /\ pc'[r] = "replied"
    BY <2>3 DEF InsertWorkspace, InsertPanel, DeletePanelRow, CommitDelete, CommitSet, Statement, TxStatement
  <2>15. /\ BeginDelete(r) => pc[r] = "beginDelete" /\ pc'[r] = "deletePanels"
         /\ DeletePanels(r) => pc[r] = "deletePanels" /\ pc'[r] = "deleteWorkspace"
         /\ DeleteWorkspace(r) => pc[r] = "deleteWorkspace" /\ pc'[r] = "commitDelete"
    BY <2>4 DEF BeginDelete, DeletePanels, DeleteWorkspace, Statement, TxStatement
  <2>16. CheckWorkspace(r) => pc[r] = "checkWorkspace" /\ pc'[r] \in {"replied", "insertPanel"}
    BY <2>4, <2>5 DEF CheckWorkspace, Statement
  <2>17. /\ UpdateRow(r) => pc[r] = "updateRow" /\ pc'[r] \in {"replied", "reloadPanel"}
         /\ ReloadPanel(r) => pc[r] = "reloadPanel" /\ pc'[r] = "replied"
    BY <2>4, <2>5, <2>6 DEF UpdateRow, ReloadPanel, Statement
  <2>18. /\ BeginSet(r) => pc[r] = "beginSet" /\ pc'[r] \in {"replied", "clearPermissions"}
         /\ ClearPermissions(r) => pc[r] = "clearPermissions" /\ pc'[r] \in {"commitSet", "insertPermission"}
    BY <2>3, <2>4 DEF BeginSet, ClearPermissions, TxStatement
  <2>19. CASE InsertPermission(r) /\ pc'[r] # "replied"
    <3>1. /\ pc[r] = "insertPermission"
          /\ \E g : local' = [local EXCEPT ![r].staged = Append(local[r].staged, g)]
          /\ pc'[r] = IF Len(local[r].staged) + 1 = Len(req[r].grants) THEN "commitSet" ELSE "insertPermission"
      BY <2>3, <2>4, <2>19 DEF InsertPermission, TxStatement
    <3>2. local[r].staged \in Seq(Operations) /\ req[r].grants \in Seq(Operations)
      <4>1. req[r] \in Requests /\ req[r].kind = "setPermissions"
        BY <2>0, <3>1 DEF ServesOK, SetSteps, Busy, TxSteps
      <4>2. QED
        BY <2>0, <4>1, RequestFields DEF TypeOK, Scratch
    <3>3. \E g : local'[r].staged = Append(local[r].staged, g)
      BY <2>0, <3>1 DEF TypeOK, Scratch
    <3>4. Len(local'[r].staged) = Len(local[r].staged) + 1
      BY <3>2, <3>3
    <3>5. req'[r] = req[r]
      BY <2>19 DEF InsertPermission
    <3>6. CASE pc'[r] = "insertPermission"
      <4>1. Rounds(r) = Len(req[r].grants) - Len(local[r].staged)
        BY <3>1 DEF Rounds
      <4>2. Rounds(r)' = Len(req[r].grants) - (Len(local[r].staged) + 1)
        BY <3>4, <3>5, <3>6 DEF Rounds
      <4>3. Len(req[r].grants) \in Nat /\ Len(local[r].staged) \in Nat
        BY <3>2
      <4>4. Rounds(r)' < Rounds(r)
        <5>1. \A m, n \in Nat : n - (m + 1) < n - m
          OBVIOUS
        <5>2. Len(req[r].grants) - (Len(local[r].staged) + 1) < Len(req[r].grants) - Len(local[r].staged)
          BY ONLY <4>3, <5>1
        <5>3. QED
          BY ONLY <4>1, <4>2, <5>2
      <4>5. Rank(r)' = Rank(r)
        BY <3>1, <3>6 DEF Rank
      <4>6. QED
        BY <4>4, <4>5 DEF Nearer
    <3>7. CASE pc'[r] = "commitSet"
      BY <3>1, <3>7 DEF Rank, Nearer
    <3>8. QED
      BY <3>1, <3>6, <3>7
  <2>20. InsertPermission(r) => pc[r] = "insertPermission"
    BY DEF InsertPermission, TxStatement
  <2>21. Close(r) => pc[r] = "replied" /\ pc'[r] = "idle"
    BY <2>4 DEF Close
  <2>22. ServesOK(r) /\ pc[r] = "readPermissions" => req[r].kind \in {"addPanel", "updatePanel"}
    BY DEF ServesOK
  <2>23. CASE pc'[r] = "replied"
    BY <1>1, <2>2, <2>7, <2>9, <2>10, <2>12, <2>13, <2>14, <2>15, <2>16, <2>17, <2>18, <2>20, <2>21, <2>23
    DEF Step, Busy, Statements, TxSteps
  <2>24. CASE ReadPermissions(r) /\ pc'[r] # "replied"
    <3>1. req'[r] = req[r]
      BY <2>24 DEF ReadPermissions
    <3>2. QED
      BY <2>0, <2>13, <2>22, <2>24, <3>1 DEF Rank, Nearer
  <2>25. CASE /\ pc'[r] # "replied"
              /\ \/ ListWorkspaces(r) \/ SelectWorkspace(r) \/ BeginDelete(r) \/ DeletePanels(r) \/ DeleteWorkspace(r)
                 \/ CheckWorkspace(r) \/ UpdateRow(r) \/ BeginSet(r) \/ ClearPermissions(r)
    BY <2>7, <2>10, <2>15, <2>16, <2>17, <2>18, <2>25 DEF Rank, Nearer
  <2>26. Close(r) => Nearer(r)
    BY <2>21 DEF Rank, Nearer
  <2>27. QED
    BY <1>1, <2>8, <2>11, <2>14, <2>17, <2>19, <2>23, <2>24, <2>25, <2>26 DEF Step
<1>2. ASSUME IInv, FiniteLists, [Next]_vars, NEW r \in Slots, pc[r] \in Busy
      PROVE  Nearer(r) \/ UNCHANGED <<Rank(r), Rounds(r)>>
  <2>0. TypeOK
    BY <1>2 DEF IInv
  <2>1. CASE Step(r)
    BY <1>1, <1>2, <2>1
  <2>2. CASE Fail(r)
    <3>1. pc'[r] = "replied"
      BY <2>0, <2>2 DEF Fail, Answer, Goto, TypeOK
    <3>2. QED
      BY <1>2, <3>1 DEF Rank, Nearer, Busy, Statements, TxSteps
  <2>3. CASE Crash
    <3>1. pc'[r] = "idle"
      BY <2>3 DEF Crash
    <3>2. QED
      BY <1>2, <3>1 DEF Rank, Nearer, Busy, Statements, TxSteps
  <2>4. CASE UNCHANGED <<pc[r], req[r], local[r]>>
    BY <2>4 DEF Rank, Rounds
  <2>5. ASSUME NEW s \in Slots, s # r, Step(s) \/ Fail(s) PROVE UNCHANGED <<pc[r], req[r], local[r]>>
    BY <1>2, <2>0, <2>5, StepBystanders DEF Bystander, Fail, Answer, Goto, TypeOK
  <2>6. ASSUME NEW s \in Slots, NEW q \in Requests, Arrive(s, q) PROVE UNCHANGED <<pc[r], req[r], local[r]>>
    BY <1>2, <2>0, <2>6 DEF Arrive, Goto, TypeOK, Busy, Statements, TxSteps
  <2>7. QED
    BY <1>2, <2>1, <2>2, <2>3, <2>4, <2>5, <2>6 DEF Next, vars
<1>. DEFINE Good == \A r \in Slots :
                 /\ Rank(r) \in Nat /\ Rounds(r) \in Nat /\ (pc[r] \in Busy <=> Rank(r) > 1)
                 /\ Step(r) => Nearer(r)
                 /\ pc[r] \in Busy => Nearer(r) \/ UNCHANGED <<Rank(r), Rounds(r)>>
<1>3. IInv /\ FiniteLists /\ [Next]_vars => [Good]_vars
  BY <1>1, <1>2, MeasureType
<1>4. QED
  BY <1>3, Invariant, ListsAreFinite, PTL DEF Spec
============================================================================
