SPECIFICATION InputSpec
CONSTANT Kind = {"document"}
INVARIANT EveryDocumentLabelled
CHECK_DEADLOCK FALSE
