\* t1 meets errors that say whether the record may have landed; t2 meets any
\* error, and its request may be cancelled inside its own write.
SPECIFICATION TicketSpec
CONSTANTS
    t1 = t1
    t2 = t2
    Requests = {t1, t2}
    SinkErrors <- MCSinkErrors
    Cancellable = {t2}
CHECK_DEADLOCK FALSE
INVARIANTS
    RecordSettled
PROPERTIES
    OutcomeRules
    EveryRecordSettles
    ImplementsOneRecord
