\* Somebody with a valid token connects to a room that exists.
CONSTANTS
    q1 = q1
    q2 = q2
    q3 = q3
    q4 = q4
    alice = alice
    bob = bob
    right = right
    wrong = wrong
    mail = mail
    NoToken = NoToken
    NoEmail = NoEmail
    EmptyCode = EmptyCode
    Requests = {q1, q2, q3, q4}
    Names = {alice, bob}
    Passwords = {right, wrong}
    Emails = {NoEmail, mail}
    Codes = {k1}
    Before <- MCBefore
    Scenarios <- MCScenarios
    MaxAttempts = 2
    MaxFaults = 0
SPECIFICATION Spec
INVARIANT
    ExistingRoomAdmits
\* The system stops when every request is answered and no failure is left.
CHECK_DEADLOCK FALSE
