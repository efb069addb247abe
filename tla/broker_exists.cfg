CONSTANTS
    w1 = w1  w2 = w2  box1 = box1  box2 = box2
    Workers <- TwoThreads
    Name <- TwoBoxes
    BadName = BadName
    Requests <- AnyRequest
    MAX_QUEUE_SIZE = 1
    MAX_BOXES = 2
    MAX_OPEN_FILES = 2
    MaxWriters = 1
    MaxWrites = 2
SPECIFICATION Spec
PROPERTY RefusesExistingOnly
CHECK_DEADLOCK FALSE
