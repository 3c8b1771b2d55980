CONSTANTS
    Place = {p1}
    Password = {a, b}
    Run = {r1}
    MaxSaves = 2
    MaxFailures = 0
    MaxRekeys = 0
SPECIFICATION Spec
CHECK_DEADLOCK FALSE
PROPERTY PasswordStays
