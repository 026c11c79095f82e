CONSTANTS
    MaxClients = 4
    MaxConnects = 3
    MaxDisconnects = 2
SPECIFICATION FairSpec
INVARIANTS TypeOK RestsHonestly
PROPERTIES DisconnectObeyed StopJoins DeadLinkNoticed
CHECK_DEADLOCK FALSE
