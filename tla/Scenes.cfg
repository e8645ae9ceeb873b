SPECIFICATION Spec
CONSTANTS
    menu = menu
    hall = hall
    cave = cave
    NoFile = none
    Files = {menu, hall, cave}
    Main = menu
    SizeOf <- MCSizeOf
    Budget = 2
    Halves = {0, 2}
    MaxRequests = 4
    MaxEdits = 1
    MaxGrowth = 1
INVARIANTS ParkedIsSound SeenWhole
PROPERTIES KeptComesBack OldestGoFirst LastAskedIsShown
CHECK_DEADLOCK FALSE
