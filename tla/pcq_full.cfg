CONSTANTS
    p1 = p1  p2 = p2
    c1 = c1  c2 = c2  c3 = c3
    e1 = e1  e2 = e2
    Garbage = Garbage
    None = None
    Producers <- TwoProducers
    Consumers <- TwoConsumers
    Elem <- TwoElems
    Capacity = 2
SPECIFICATION FairSpec

PROPERTY SleepsUntilSpace
