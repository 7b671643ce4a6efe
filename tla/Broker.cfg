CONSTANTS
    processing = processing
    completed = completed
    m1 = m1
    m2 = m2
    Consumers = {processing, completed}
    Publishers = {create, complete}
    Boot = Boot
    Messages = {m1, m2}
    QueueOf <- MCQueueOf
    MaxRetries = 2
    MaxFaults = 2
    Null = Null
SPECIFICATION FairSpec
CHECK_DEADLOCK FALSE
INVARIANTS
    TypeOK
    OneConnectionEach
PROPERTIES
    AckedWasHandled
    MessagesSettle
    PublishesSettle
