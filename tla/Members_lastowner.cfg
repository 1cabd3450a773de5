SPECIFICATION MembersSpec
CONSTANTS
    a = a
    b = b
    c = c
    q1 = q1
    q2 = q2
    People = {a, b, c}
    Beginnings <- Settled
    AdminPerson = a
    Guests = {c}
    Requests = {q1, q2}
    InFlight = 2
PROPERTIES
    LastOwnerStays
CHECK_DEADLOCK FALSE
