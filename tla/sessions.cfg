CONSTANTS
    pub1 = pub1  pub2 = pub2  sub1 = sub1  man1 = man1  man2 = man2
    pipe1 = pipe1  pipe2 = pipe2
    Publishers <- TwoPublishers
    Subscribers <- OneSubscriber
    Managers <- TwoManagers
    Pipes <- TwoPipes
    PipeOf <- Given
    MaxBrokers = 2
    PIPE_SIZE = 2
    None = None
SPECIFICATION FairSpec
INVARIANTS TypeOK
PROPERTIES OneChance StrandedForEver 
