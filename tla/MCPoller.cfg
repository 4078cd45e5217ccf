SPECIFICATION Spec
CONSTANTS
    Catalogue <- MCCatalogue
    Pool = 3
    Requested = {5, 10}
    EventCapacity = 1
    MaxEvents = 2
INVARIANT
    TickEndsInBudget
PROPERTIES
    EventsAreTaken
    ReadsAgain
CHECK_DEADLOCK FALSE
