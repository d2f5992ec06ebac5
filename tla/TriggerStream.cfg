CONSTANTS
    Producers = {p1, p2, p3}
    MaxTriggers = 5
SPECIFICATION Spec
INVARIANTS
    NoLostWakeup
    Conservation
PROPERTIES
    EveryTriggerYields
    ImplementsCounter
