SPECIFICATION Spec
CONSTANTS
    Base = 2
    Message <- Messages
    MaxMessages = 3
INVARIANTS
    TypeOK
    NothingHeldBack
    Lossless
PROPERTY
    ImplementsStream
CHECK_DEADLOCK FALSE
