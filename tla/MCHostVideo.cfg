SPECIFICATION Spec
CONSTANTS
    Thread = {1, 2}
    Openings <- OpeningsUsed
    Later <- LaterUsed
    MaxPictures = 2
    MaxMessages = 4
INVARIANTS
    TypeOK
    HeaderIntact
    WholeStream
    PicturesInOrder
CHECK_DEADLOCK FALSE
