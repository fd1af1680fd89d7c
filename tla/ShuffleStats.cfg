CONSTANTS
    None = None
    Exchanges = {e1, e2}
    MaxBuffered = 1
    MaxReloads = 1
SPECIFICATION StatsFairSpec
INVARIANTS
    TypeOK
    AnswersMatch
    Agreement
    NoStandstill
    StatsAddUp
PROPERTIES
    ImplementsComms
    ExchangesEnd
CHECK_DEADLOCK FALSE
