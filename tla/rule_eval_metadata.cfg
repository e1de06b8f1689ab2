SPECIFICATION Spec
CONSTANTS
    Definitions <- MCDefinitions
    Messages <- MCMessages
    Schemas <- MCSchemas
    MaxRules = 2
    Expressions <- MCExpressions
    Height <- MCHeight
    MaxHeight = 3
    MaxDepth = 3
    NoSchema = NoSchema
    NoMessage = NoMessage
    Garbage = Garbage
INVARIANT MetadataIsAvailable
CHECK_DEADLOCK FALSE
