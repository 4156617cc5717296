--------------------------- MODULE RegistryProofs ---------------------------
(***************************************************************************)
(* Workspaces implements WorkspaceRegistry: each handler step either       *)
(* leaves what people see of the tables alone or is one operation of the   *)
(* registry.                                                               *)
(***************************************************************************)
EXTENDS WorkspacesProofs

\* Every row is of a workspace that was handed out, deleted since or not.
RowsIssued == \A p \in PanelIds : Live(p) => owner[panels[p].ws] \in Users

LEMMA RowsIssuedStep ==
    ASSUME IInv, RowsIssued, [Next]_vars
    PROVE  RowsIssued'
<1>1. \A w \in WorkspaceIds : owner[w] # None => owner'[w] = owner[w]
  <2>1. CASE \E r \in Slots : Step(r)
    BY <2>1, StepEvolves DEF Evolves
  <2>2. CASE UNCHANGED owner
    BY <2>2
  <2>3. QED
    BY <2>1, <2>2 DEF Next, Arrive, Fail, Crash, tables, vars
<1>2. ASSUME NEW p \in PanelIds, Live(p)' PROVE owner'[panels'[p].ws] \in Users
  <2>1. CASE panels'[p] = panels[p]
    <3>1. panels[p].ws \in WorkspaceIds
      BY <1>2, <2>1, LiveRow DEF Live, IInv, PanelRow
    <3>2. QED
      BY <1>1, <1>2, <2>1, <3>1, SentinelsAssumption DEF RowsIssued, Live
  <2>2. CASE panels'[p] # panels[p]
    <3>1. PICK r \in Slots : Steps(r) /\ (Adds(r, p) \/ Changes(r, p) \/ Removes(r, p))
      BY <2>2, PanelWriter
    <3>2. CASE Adds(r, p)
      <4>1. req[r] \in AddRequest /\ owner[req[r].ws] = req[r].user
        BY <3>2, WriterKnows DEF Adds
      <4>2. req[r].user \in Users /\ req[r].ws \in WorkspaceIds
        BY <4>1 DEF AddRequest
      <4>3. panels'[p].ws = req[r].ws
        BY <3>2, <4>1, NewRowType DEF Adds
      <4>4. QED
        BY <1>1, <4>1, <4>2, <4>3, SentinelsAssumption
    <3>3. CASE Changes(r, p)
      <4>1. panels'[p].ws = panels[p].ws /\ panels[p].ws \in WorkspaceIds /\ Live(p)
        BY <3>3, ChangedRow, LiveRow DEF Changes, IInv, PanelRow
      <4>2. QED
        BY <1>1, <4>1, SentinelsAssumption DEF RowsIssued
    <3>4. QED
      BY <1>2, <3>1, <3>2, <3>3 DEF Removes, Live
  <2>3. QED
    BY <2>1, <2>2
<1>3. QED
  BY <1>2 DEF RowsIssued, Live

MapInv == IInv /\ RowsIssued

THEOREM MapInvariant == Spec => []MapInv
<1>1. Init => RowsIssued
  BY DEF Init, RowsIssued, Live
<1>2. IInv /\ RowsIssued /\ [Next]_vars => RowsIssued'
  BY RowsIssuedStep
<1>3. QED
  BY <1>1, <1>2, InitIInv, NextIInv, PTL DEF Spec, MapInv

\* The tables start as the registry does.
LEMMA InitMaps == Init => Registry!Init
<1>1. SUFFICES ASSUME Init PROVE Registry!Init
  OBVIOUS
<1>2. ShownPanels = {}
  BY <1>1 DEF Init, ShownPanels, Live
<1>3. Shown = [p \in {} |-> None]
  BY <1>2 DEF Shown
<1>4. Holder = [w \in WorkspaceIds |-> None]
  BY <1>1 DEF Init, Holder
<1>5. QED
  BY <1>1, <1>3, <1>4 DEF Init, Registry!Init

\* What people see stands still when the tables do.
LEMMA TablesStutter ==
    ASSUME UNCHANGED tables
    PROVE  UNCHANGED <<Holder, Shown, permissions>>
<1>1. ShownPanels' = ShownPanels
  BY DEF tables, ShownPanels, Live
<1>2. Shown' = Shown
  BY <1>1 DEF tables, Shown
<1>3. Holder' = Holder
  BY DEF tables, Holder
<1>4. QED
  BY <1>2, <1>3 DEF tables

LEMMA CreateMaps ==
    ASSUME MapInv, NEW r \in Slots, InsertWorkspace(r)
    PROVE  Registry!Next
<1>. USE DEF MapInv
<1>1. PICK w \in WorkspaceIds :
        /\ owner[w] = None /\ owner' = [owner EXCEPT ![w] = req[r].user]
        /\ wsRows' = wsRows \union {w}
  BY DEF InsertWorkspace
<1>2. panels' = panels /\ permissions' = permissions /\ pc[r] = "insertWorkspace"
  BY DEF InsertWorkspace, Statement
<1>3. req[r].user \in Users
  BY <1>2, RequestFields DEF IInv, ServesOK, Busy, Statements
<1>4. TypeOK
  BY DEF IInv
<1>5. ShownPanels' = ShownPanels
  BY <1>1, <1>2, SentinelsAssumption DEF RowsIssued, ShownPanels, Live
<1>6. Shown' = Shown
  BY <1>2, <1>5 DEF Shown
<1>7. Holder[w] = None /\ Holder' = [Holder EXCEPT ![w] = req[r].user]
  BY <1>1, <1>3, <1>4, SentinelsAssumption DEF Holder, TypeOK
<1>8. Registry!Create(req[r].user, w)
  BY <1>2, <1>6, <1>7 DEF Registry!Create
<1>9. QED
  BY <1>3, <1>8 DEF Registry!Next

LEMMA DeleteMaps ==
    ASSUME MapInv, NEW r \in Slots, CommitDelete(r)
    PROVE  Registry!Next \/ UNCHANGED <<Holder, Shown, permissions>>
<1>. USE DEF MapInv
<1>1. /\ pc[r] = "commitDelete"
      /\ panels' = [p \in PanelIds |-> IF p \in local[r].doomed THEN Gone ELSE panels[p]]
      /\ wsRows' = wsRows \ {req[r].ws} /\ owner' = owner /\ permissions' = permissions
  BY DEF CommitDelete, TxStatement
<1>2. PICK w \in WorkspaceIds : w = req[r].ws
  <2>1. req[r] \in Requests /\ req[r].kind \in Named
    BY <1>1 DEF IInv, ServesOK, Busy, TxSteps, DeleteSteps, Named
  <2>2. QED
    BY <2>1, RequestFields
<1>3. local[r].doomed = PanelsOf(w)
  BY <1>1, <1>2 DEF IInv, OwnsOK
<1>4. owner[w] \in Users
  <2>1. req[r] \in Requests /\ owner[w] = req[r].user
    BY <1>1, <1>2 DEF IInv, ServesOK, OwnsOK, PastOwnerCheck, DeleteSteps, Busy, TxSteps
  <2>2. QED
    BY <2>1, RequestFields
<1>5. \A p \in PanelIds : panels'[p] = IF p \in PanelsOf(w) THEN Gone ELSE panels[p]
  BY <1>1, <1>3
<1>6. ShownPanels' = {p \in ShownPanels : panels[p].ws # w}
  <2>1. \A p \in PanelIds : Live(p)' <=> Live(p) /\ panels[p].ws # w
    BY <1>5 DEF Live, PanelsOf
  <2>2. \A p \in PanelIds : Live(p)' => panels'[p] = panels[p]
    BY <1>5 DEF Live, PanelsOf
  <2>3. \A p \in PanelIds : p \in ShownPanels' <=> Live(p)' /\ panels'[p].ws \in wsRows'
    BY DEF ShownPanels
  <2>4. \A p \in PanelIds : p \in ShownPanels' <=> p \in ShownPanels /\ panels[p].ws # w
    BY <1>1, <1>2, <2>1, <2>2, <2>3 DEF ShownPanels
  <2>5. ShownPanels' \subseteq PanelIds /\ ShownPanels \subseteq PanelIds
    BY DEF ShownPanels
  <2>6. QED
    BY <2>4, <2>5
<1>7. Shown' = [p \in {x \in ShownPanels : panels[x].ws # w} |-> panels[p]]
  <2>1. \A p \in ShownPanels' : panels'[p] = panels[p]
    BY <1>5, <1>6 DEF ShownPanels, PanelsOf
  <2>2. Shown' = [p \in ShownPanels' |-> panels'[p]]
    BY DEF Shown
  <2>3. QED
    BY <1>6, <2>1, <2>2
<1>8. CASE w \in wsRows
  <2>1. Holder[w] \in Users
    BY <1>4, <1>8, SentinelsAssumption DEF Holder
  <2>2. Holder' = [Holder EXCEPT ![w] = Gone]
    BY <1>1, <1>2, <1>4, SentinelsAssumption DEF Holder
  <2>3. Shown' = Registry!Without({p \in DOMAIN Shown : Shown[p].ws = w})
    <3>1. DOMAIN Shown = ShownPanels /\ \A p \in ShownPanels : Shown[p] = panels[p]
      BY DEF Shown
    <3>2. DOMAIN Shown \ {p \in DOMAIN Shown : Shown[p].ws = w} = {x \in ShownPanels : panels[x].ws # w}
      BY <3>1
    <3>3. QED
      BY <1>7, <3>1, <3>2 DEF Registry!Without
  <2>4. Registry!Delete(w)
    BY <1>1, <2>1, <2>2, <2>3 DEF Registry!Delete
  <2>5. QED
    BY <2>4 DEF Registry!Next
<1>9. CASE w \notin wsRows
  <2>1. Shown' = Shown
    <3>1. {x \in ShownPanels : panels[x].ws # w} = ShownPanels
      BY <1>9 DEF ShownPanels
    <3>2. QED
      BY <1>7, <3>1 DEF Shown
  <2>2. wsRows' = wsRows
    BY <1>1, <1>2, <1>9
  <2>3. Holder' = Holder
    BY <1>1, <2>2 DEF Holder
  <2>4. QED
    BY <1>1, <2>1, <2>3
<1>10. QED
  BY <1>8, <1>9

LEMMA AddMaps ==
    ASSUME MapInv, NEW r \in Slots, InsertPanel(r)
    PROVE  Registry!Next \/ UNCHANGED <<Holder, Shown, permissions>>
<1>. USE DEF MapInv
<1>1. PICK p \in PanelIds : panels[p] = None /\ panels' = [panels EXCEPT ![p] = NewRow(req[r])]
  BY DEF InsertPanel
<1>2. wsRows' = wsRows /\ owner' = owner /\ permissions' = permissions /\ pc[r] = "insertPanel"
  BY DEF InsertPanel, Statement
<1>3. req[r] \in AddRequest /\ owner[req[r].ws] = req[r].user
  BY <1>2, WriterKnows
<1>4. PICK row \in PanelRow : row = NewRow(req[r]) /\ row.ws = req[r].ws
  BY <1>3, NewRowType
<1>5. owner[row.ws] \in Users /\ row.ws \in WorkspaceIds
  BY <1>3, <1>4 DEF AddRequest
<1>6. panels'[p] = row /\ \A x \in PanelIds : x # p => panels'[x] = panels[x]
  BY <1>1, <1>4 DEF IInv, TypeOK
<1>7. row \notin {None, Gone}
  BY RowAssumption
<1>8. Holder' = Holder
  BY <1>2 DEF Holder
<1>9. p \notin ShownPanels
  BY <1>1 DEF ShownPanels, Live
<1>10. CASE row.ws \in wsRows
  <2>1. ShownPanels' = ShownPanels \union {p}
    BY <1>2, <1>6, <1>7, <1>10 DEF ShownPanels, Live
  <2>2. Shown' = [x \in DOMAIN Shown \union {p} |-> IF x = p THEN row ELSE Shown[x]]
    <3>1. DOMAIN Shown = ShownPanels /\ \A x \in ShownPanels : Shown[x] = panels[x]
      BY DEF Shown
    <3>2. \A x \in ShownPanels : x # p => panels'[x] = panels[x]
      BY <1>6 DEF ShownPanels
    <3>3. Shown' = [x \in ShownPanels' |-> panels'[x]]
      BY DEF Shown
    <3>4. QED
      BY <1>6, <2>1, <3>1, <3>2, <3>3
  <2>3. Holder[row.ws] \in Users
    BY <1>5, <1>10 DEF Holder
  <2>4. p \notin DOMAIN Shown
    BY <1>9 DEF Shown
  <2>5. Registry!Add(p, row)
    BY <1>2, <1>8, <2>2, <2>3, <2>4 DEF Registry!Add
  <2>6. QED
    BY <2>5 DEF Registry!Next
<1>11. CASE row.ws \notin wsRows
  <2>1. ShownPanels' = ShownPanels
    BY <1>1, <1>2, <1>6, <1>9, <1>11 DEF ShownPanels, Live
  <2>2. Shown' = Shown
    <3>1. \A x \in ShownPanels : panels'[x] = panels[x]
      BY <1>6, <1>9 DEF ShownPanels
    <3>2. QED
      BY <2>1, <3>1 DEF Shown
  <2>3. QED
    BY <1>2, <1>8, <2>2
<1>12. QED
  BY <1>10, <1>11

LEMMA ChangeMaps ==
    ASSUME MapInv, NEW r \in Slots, UpdateRow(r)
    PROVE  Registry!Next \/ UNCHANGED <<Holder, Shown, permissions>>
<1>. USE DEF MapInv
<1>1. wsRows' = wsRows /\ owner' = owner /\ permissions' = permissions /\ pc[r] = "updateRow"
  BY DEF UpdateRow, Statement
<1>2. CASE UNCHANGED panels
  BY <1>1, <1>2, TablesStutter DEF tables
<1>3. CASE /\ req[r].panel \in PanelsOf(req[r].ws)
           /\ panels' = [panels EXCEPT ![req[r].panel] = PatchedRow(@, req[r])]
  <2>1. PICK p \in PanelIds : p = req[r].panel /\ Live(p)
    BY <1>3 DEF PanelsOf
  <2>2. PICK row \in PanelRow : /\ row = PatchedRow(panels[p], req[r])
                                /\ row.ws = panels[p].ws /\ row.op = panels[p].op
    BY <1>1, <2>1, WriterKnows, LiveRow, PatchedRowType DEF IInv
  <2>3. panels'[p] = row /\ \A x \in PanelIds : x # p => panels'[x] = panels[x]
    BY <1>3, <2>1, <2>2 DEF IInv, TypeOK
  <2>4. row \notin {None, Gone}
    BY RowAssumption
  <2>5. ShownPanels' = ShownPanels
    BY <1>1, <2>1, <2>2, <2>3, <2>4 DEF ShownPanels, Live
  <2>6. Holder' = Holder
    BY <1>1 DEF Holder
  <2>7. DOMAIN Shown = ShownPanels /\ \A x \in ShownPanels : Shown[x] = panels[x]
    BY DEF Shown
  <2>8. Shown' = [x \in ShownPanels |-> panels'[x]]
    BY <2>5 DEF Shown
  <2>9. ShownPanels \subseteq PanelIds
    BY DEF ShownPanels
  <2>10. CASE p \in ShownPanels
    <3>1. Shown' = [Shown EXCEPT ![p] = row]
      BY <2>3, <2>7, <2>8, <2>9, <2>10 DEF Shown
    <3>2. Registry!Change(p, row)
      BY <1>1, <2>2, <2>6, <2>7, <2>10, <3>1 DEF Registry!Change
    <3>3. QED
      BY <3>2 DEF Registry!Next
  <2>11. CASE p \notin ShownPanels
    <3>1. Shown' = Shown
      BY <2>3, <2>8, <2>9, <2>11 DEF Shown
    <3>2. QED
      BY <1>1, <2>6, <3>1
  <2>12. QED
    BY <2>10, <2>11
<1>4. QED
  BY <1>2, <1>3 DEF UpdateRow

LEMMA RemoveMaps ==
    ASSUME MapInv, NEW r \in Slots, DeletePanelRow(r)
    PROVE  Registry!Next \/ UNCHANGED <<Holder, Shown, permissions>>
<1>1. wsRows' = wsRows /\ owner' = owner /\ permissions' = permissions
  BY DEF DeletePanelRow
<1>2. \A x \in PanelIds :
        panels'[x] = IF x \in PanelsOf(req[r].ws) /\ x = req[r].panel THEN Gone ELSE panels[x]
  BY DEF DeletePanelRow
<1>3. Holder' = Holder
  BY <1>1 DEF Holder
<1>4. DOMAIN Shown = ShownPanels /\ \A x \in ShownPanels : Shown[x] = panels[x]
  BY DEF Shown
<1>5. ShownPanels \subseteq PanelIds /\ ShownPanels' \subseteq PanelIds
  BY DEF ShownPanels
<1>6. Shown' = [x \in ShownPanels' |-> panels'[x]]
  BY DEF Shown
<1>7. CASE req[r].panel \in ShownPanels /\ req[r].panel \in PanelsOf(req[r].ws)
  <2>1. PICK p \in PanelIds : p = req[r].panel
    BY <1>5, <1>7
  <2>2. panels'[p] = Gone /\ \A x \in PanelIds : x # p => panels'[x] = panels[x]
    BY <1>2, <1>7, <2>1
  <2>3. ShownPanels' = ShownPanels \ {p}
    BY <1>1, <2>2 DEF ShownPanels, Live
  <2>4. Shown' = [x \in ShownPanels \ {p} |-> panels[x]]
    BY <1>5, <1>6, <2>2, <2>3
  <2>5. Shown' = Registry!Without({p})
    BY <1>4, <2>4 DEF Registry!Without
  <2>6. p \in DOMAIN Shown
    BY <1>4, <1>7, <2>1
  <2>7. Registry!Remove(p)
    BY <1>1, <1>3, <2>5, <2>6 DEF Registry!Remove
  <2>8. QED
    BY <2>7 DEF Registry!Next
<1>8. CASE ~(req[r].panel \in ShownPanels /\ req[r].panel \in PanelsOf(req[r].ws))
  <2>1. \A x \in ShownPanels : panels'[x] = panels[x]
    BY <1>2, <1>5, <1>8
  <2>2. ShownPanels' = ShownPanels
    BY <1>1, <1>2, <1>8 DEF ShownPanels, Live
  <2>3. Shown' = Shown
    BY <1>6, <2>1, <2>2 DEF Shown
  <2>4. QED
    BY <1>1, <1>3, <2>3
<1>9. QED
  BY <1>7, <1>8

LEMMA GrantMaps ==
    ASSUME MapInv, NEW r \in Slots, CommitSet(r)
    PROVE  Registry!Next
<1>. USE DEF MapInv
<1>1. /\ UNCHANGED <<owner, wsRows, panels>> /\ pc[r] = "commitSet"
      /\ permissions' = [permissions EXCEPT ![req[r].target] = RangeOf(local[r].staged)]
  BY DEF CommitSet, TxStatement
<1>2. req[r].target \in Users
  BY <1>1, RequestFields DEF IInv, ServesOK, Busy, TxSteps, SetSteps
<1>3. RangeOf(local[r].staged) \in SUBSET Operations
  <2>1. local[r].staged \in Seq(Operations)
    BY DEF IInv, TypeOK, Scratch
  <2>2. QED
    BY <2>1 DEF RangeOf
<1>4. Shown' = Shown
  <2>1. ShownPanels' = ShownPanels
    BY <1>1 DEF ShownPanels, Live
  <2>2. QED
    BY <1>1, <2>1 DEF Shown
<1>5. Holder' = Holder
  BY <1>1 DEF Holder
<1>6. Registry!Grant(req[r].target, RangeOf(local[r].staged))
  BY <1>1, <1>4, <1>5 DEF Registry!Grant
<1>7. QED
  BY <1>2, <1>3, <1>6 DEF Registry!Next

\* The service, statement by statement and with its crashes, implements the
\* registry in which every operation is one step.
THEOREM Implements == Spec => ImplementsRegistry
<1>1. Init => Registry!Init
  BY InitMaps
<1>2. MapInv /\ [Next]_vars => [Registry!Next]_<<Holder, Shown, permissions>>
  <2>1. SUFFICES ASSUME MapInv, [Next]_vars
                 PROVE  Registry!Next \/ UNCHANGED <<Holder, Shown, permissions>>
    OBVIOUS
  <2>2. CASE UNCHANGED tables
    BY <2>2, TablesStutter
  <2>3. ASSUME NEW r \in Slots, Step(r)
        PROVE  Registry!Next \/ UNCHANGED <<Holder, Shown, permissions>>
    BY <2>1, <2>2, <2>3, CreateMaps, DeleteMaps, AddMaps, ChangeMaps, RemoveMaps, GrantMaps
    DEF Step, ListWorkspaces, ListPanels, SelectWorkspace, SelectPanels, ReadPermissions,
        BeginDelete, DeletePanels, DeleteWorkspace, CheckWorkspace, ReloadPanel, BeginSet,
        ClearPermissions, InsertPermission, Close
  <2>4. QED
    BY <2>1, <2>2, <2>3 DEF Next, Arrive, Fail, Crash, vars, tables
<1>3. QED
  BY <1>1, <1>2, MapInvariant, PTL
  DEF Spec, ImplementsRegistry, Registry!Spec, Registry!registry
=============================================================================
