\* Two requests or subscriptions; a source pushes twice.
CONSTANTS
    MaxId = 2
    MaxData = 2
SPECIFICATION Spec
CHECK_DEADLOCK FALSE
INVARIANTS
    NothingLeaks
    StreamsAreWhole
PROPERTIES
    RequestsSettle
