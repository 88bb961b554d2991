SPECIFICATION Spec
CONSTANTS
    BufferSize = 2
    SendSpace = 2
    MaxBytes = 4
    MaxSignals = 2
INVARIANT TypeOK
INVARIANT EchoedWhenClosed
PROPERTY CopySpec
PROPERTY SilentClientIsLeft
\* the session ends
CHECK_DEADLOCK FALSE
