SPECIFICATION ServicesSpec
CONSTANTS
    Ids <- MCIds
    Vals <- MCVals
    Pages = 3
    Layouts <- Usual
    Nothing = Nothing
    Lost = Lost
    MaxClients = 2
    Limits <- OneOrTwo
INVARIANTS OneActiveCopy UsedWhileThere ToldInOrder
PROPERTIES ImplementsStore EndedAreFreed
CHECK_DEADLOCK FALSE
