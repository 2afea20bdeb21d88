SPECIFICATION LiveSpec
CONSTANTS
    sensor = sensor
    scan = "scan"
    admin = admin
    Peer = {sensor}
    MaxEvents = 2
    Capacity = 1
    Mishaps = {"panic", "hang"}
    Alert <- MCAlert
    Producer = {"consumer", "scan"}
    Subscriber = {admin}
    Slots = 1
    Alarming <- MCAlarming
    TaskAlert <- MCTaskAlert
    Attentive = {admin}
INVARIANTS
    NoGap
    LogFollowsBus
PROPERTIES
    AlarmsAreShown
    EventsInOrder
    EventsAreHandled
CHECK_DEADLOCK FALSE
