\* Every target under up to two user rules and one subscription rule.
CONSTANTS
    Width = 4
    Groups = 2
    GroupBits = 2
    CnTable4 <- MCTable4
    CnTable6 <- MCTable6
    Labels <- MCLabels
    Domains <- MCDomains
    MultiLabelCn <- MCMultiLabelCn
    Lines <- MCLines
    Targets <- MCTargets
    MaxExtra = 2
    MaxSubscription = 1
SPECIFICATION Spec
INVARIANTS
    ExtraRulesWin
    Cn4Complete
    ListedHostsDirect
\* One decision, then nothing.
CHECK_DEADLOCK FALSE
