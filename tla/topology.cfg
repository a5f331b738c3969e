CONSTANTS
    c1 = c1
    c2 = c2
    q1 = q1
    q2 = q2
    x = x
    Clients = {c1, c2}
    Queues = {q1, q2}
    Names = {x}
    Types = {"direct", "topic", "fanout"}
    RoutingKeys <- MCKeys
    Patterns <- MCPatterns
    Messages <- MCMessages
    Literals = {"a", "b"}
    Prioritised = {}
    MaxAttempts = 2
    MaxCalls = 4
    MaxLife = 2
SYMMETRY Interchangeable
SPECIFICATION Spec
INVARIANTS KeysExact FanoutRecorded RoutedRight
 
CHECK_DEADLOCK FALSE
