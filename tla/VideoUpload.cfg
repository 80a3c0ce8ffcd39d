\* Two requests and two relays that may fail twice, under fairness.
SPECIFICATION FairSpec
CONSTANTS
    Request = {r1, r2}
    Key = {k1}
    Payload = {p1, p2}
    Relay = {w1, w2}
    Batch = 2
    None = None
    MaxFaults = 2
INVARIANTS
    TypeOK
    Idempotency
    OutboxDelivers
PROPERTIES
    EveryVideoIsAnnounced
    EveryRequestIsAnswered
\* The service is idle once every request is answered and every row is sent.
CHECK_DEADLOCK FALSE
