SPECIFICATION Spec
CONSTANTS
    Clients <- ThreeClients
    FB_COUNT = 1
    BACKLOG = 1
    SOCKETS = 2
INVARIANTS
    TypeOK
    NothingLeaks
PROPERTIES
    LeavingEndsStream
    ConnectingIsAnswered
\* Without its listening socket the server ends, and nothing more happens.
CHECK_DEADLOCK FALSE
