SPECIFICATION Spec
CONSTANTS
    Device = {d1, d2}
    Imported = Imported
    Home = Home
    MaxPublishes = 4
    MaxCommands = 4
INVARIANTS
    StripInv
    ConnectedHasTab
    ControllersAreOwned
PROPERTIES
    DismissedStaysClosed
    SelectionIsTheUsers
CHECK_DEADLOCK FALSE
