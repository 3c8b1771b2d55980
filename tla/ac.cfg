CONSTANTS
    Host = {h1}
    Group = {floor, room}
    Cred = {c1, c2}
    Second = c2
    AgentKey = agentkey
    RoomGroup = room
    FloorGroup = floor
    None = none
    Room <- OneRoom
    Floor <- OneFloor
    Scheduled = {}
    Task = {t}
    ByName = FALSE
    MaxDeletes = 1
SPECIFICATION MCSpec
CHECK_DEADLOCK FALSE
PROPERTY AccessAndKeysStay ChangesAreVerified
