SPECIFICATION MCSpec
CONSTANTS
    a = a
    b = b
    c = c
    Senders = {a, b, c}
    Capacity = 1
    Kinds = {"Queue", "Latest"}
    MaxIncarnation = 2
    Tasks = {1}
    Trying = {a}
    Timed = {a}
    Fickle = {b}
    DriverDrops = TRUE
ACTION_CONSTRAINT Prompt
INVARIANTS MessagesAccounted ParkedOnlyWhenFull
PROPERTIES ImplementsContract
CHECK_DEADLOCK FALSE
