SPECIFICATION Spec
CONSTANTS
    MaxCalls = 5
    MaxEdits = 2
    None = None
INVARIANT NeverInvokesUnsafe
