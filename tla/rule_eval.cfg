SPECIFICATION Spec
CONSTANTS
    Definitions <- MCDefinitions
    Messages <- MCMessages
    Schemas <- MCSchemas
    MaxRules = 2
    Expressions <- MCExpressions
    Height <- MCHeight
    MaxHeight = 3
    MaxDepth = 3
    NoSchema = NoSchema
    NoMessage = NoMessage
    Garbage = Garbage
INVARIANTS TypeOK AnswersAsWritten CountsAddUp FullDecodeAgrees
CHECK_DEADLOCK FALSE
