\* As many requests as two windows let pass; any may fail half way, and one is repeated.
CONSTANTS
    Requests = {q1, q2, q3, q4}
    maxRequests = 2
    window = 3
    MaxRetries = 1
SPECIFICATION Spec
SYMMETRY Symmetry
INVARIANTS
    TypeOK
    LimitHolds
\* The system stops when every request is answered and the counter has expired.
CHECK_DEADLOCK FALSE
