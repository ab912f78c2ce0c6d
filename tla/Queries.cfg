SPECIFICATION Spec
INVARIANTS EveryStrategyIsTheJoin PagesAreTheResult OneReadingPerCursor
CHECK_DEADLOCK FALSE
