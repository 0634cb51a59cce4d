\* Two saves under way at most; four subscriptions.
CONSTANTS
    a = a
    b = b
    x = x
    None = None
    Nodes <- MCNodes
    Supported <- MCSupported
    Subscriptions <- MCSubscriptions
    Delays = {1, 2}
    MaxSaves = 2
SPECIFICATION Spec
INVARIANTS
    TypeOK
    AnswersWithNode
    FastestAnswers
    CurrentAnswers
    ChoicePersists
