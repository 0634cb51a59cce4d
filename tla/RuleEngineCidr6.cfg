\* The IPv6 table alone: no rules, every address.
CONSTANTS
    Width = 4
    Groups = 2
    GroupBits = 2
    CnTable4 <- MCTable4
    CnTable6 <- MCTable6
    Labels <- MCLabels
    Domains <- MCDomains
    MultiLabelCn <- MCMultiLabelCn
    Lines <- MCLines
    Targets <- MCTargets
    MaxExtra = 0
    MaxSubscription = 0
SPECIFICATION Spec
INVARIANT Cn6Complete
CHECK_DEADLOCK FALSE
