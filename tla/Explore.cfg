CONSTANTS
    blank = blank
    beach = beach
    NoMode = NoMode
    Ids <- MCIds
    Jetty = 2
    Queries <- MCQueries
    Blank = blank
    Hits <- MCHits
    PageSize = 1
SPECIFICATION Spec
INVARIANTS
    TypeOK
    AddressNamesTheSpot
PROPERTIES
    LinkedSpotStays
