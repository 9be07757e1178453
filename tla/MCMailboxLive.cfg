SPECIFICATION AloneSpec
CONSTANTS
    a = a
    b = b
    c = c
    Senders = {a, b}
    Capacity = 1
    Kinds = {"Queue"}
    MaxIncarnation = 1
    Tasks = {1, 2}
    Trying = {}
    Timed = {}
    Fickle = {}
    DriverDrops = FALSE
PROPERTIES SendsComplete AcceptedLeaves
CHECK_DEADLOCK FALSE
