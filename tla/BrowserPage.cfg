\* Two polls at once; two nodes tested one after the other.
CONSTANTS
    a = a
    b = b
    None = None
    Names <- MCNames
    Subscriptions <- MCSubscriptions
    Delays = {1}
    Slots = {1, 2}
    Concurrency = 1
SPECIFICATION FairSpec
INVARIANTS
    TypeOK
    OneTestPerWorker
PROPERTIES
    TestsEnd
    Converges
