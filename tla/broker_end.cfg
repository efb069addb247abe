CONSTANTS
    w1 = w1  w2 = w2  box1 = box1  box2 = box2
    Workers <- TwoThreads
    Name <- TwoBoxes
    BadName = BadName
    Requests <- FewRequests
    MAX_QUEUE_SIZE = 1
    MAX_BOXES = 2
    MAX_OPEN_FILES = 2
    MaxWriters = 1
    MaxWrites = 2
SPECIFICATION FairSpec
PROPERTY RepeatsToTheEnd ComesToRest
CHECK_DEADLOCK FALSE
