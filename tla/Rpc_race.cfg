SPECIFICATION Spec
CONSTANTS
    None = None
    Runner = Runner
    Closer = Closer
    MaxCalls = 5
INVARIANTS AgreedWhenUsable RequestsAreLegal
PROPERTIES CallsKept
CHECK_DEADLOCK FALSE
