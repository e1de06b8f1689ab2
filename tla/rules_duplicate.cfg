SPECIFICATION Spec
CONSTANTS
    Expressions <- MCExpressions
    FilterOf <- MCFilterOf
    Topics <- MCTopics
    CacheCap = 2
    MaxRules = 3
    NoRule = NoRule
    NoAnswer = NoAnswer
INVARIANT RemovedMeansGone
