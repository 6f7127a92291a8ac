SPECIFICATION Spec
CONSTANTS
    a = a
    b = b
    Clients = {a, b}
    Length = 2
    MaxMessages = 2
INVARIANTS
    ClientsFollow
PROPERTIES
    InterruptHonoured
    Answered
