SPECIFICATION Spec
CONSTANTS
    Base = 2
    Message <- Messages
    MaxMessages = 3
INVARIANTS
    TypeOK
    InOrder
    NothingHeldBack
PROPERTY
    ImplementsStream
CHECK_DEADLOCK FALSE
