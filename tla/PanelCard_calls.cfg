SPECIFICATION Spec
CONSTANTS
    MaxCalls = 5
    MaxEdits = 2
    None = None
INVARIANTS
    FormsWaitForAPerson
    LoadsAreOfThePanelDrawn
    SpinnersMeanCalls
    CallsDoNotPileUp
PROPERTY ResultsOutliveFailures
