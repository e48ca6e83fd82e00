SPECIFICATION InputSpec
CONSTANT Kind = {"quoted"}
INVARIANT EveryQuoteLocated
CHECK_DEADLOCK FALSE
