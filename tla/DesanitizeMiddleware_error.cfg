\* One response, every interleaving: there is nothing to bound.
SPECIFICATION Spec
CHECK_DEADLOCK FALSE
INVARIANTS
    ErrorMeansFailed
