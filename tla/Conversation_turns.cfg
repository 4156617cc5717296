SPECIFICATION Spec
CONSTANTS
    chat = chat
    workspace = workspace
    op1 = op1
    Keys = {chat, workspace}
    Operations = {op1}
    MaxRequests = 3
    None = None
SYMMETRY Symmetry
INVARIANTS
    TypeOK
    ChipsAnswerOnce
PROPERTIES
    AnswersComeHome
    NothingIsLost
    EndedMeansForgotten
