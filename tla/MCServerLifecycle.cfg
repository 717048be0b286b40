SPECIFICATION Spec
INVARIANTS TypeOK StopsForCause
PROPERTIES SignalEnds HttpFailureEnds ResubscribesForGood
