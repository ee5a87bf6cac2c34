\* One zone, two racks, two aisles and a gate, each in a few places.
SPECIFICATION GeometrySpec
CONSTANTS
    ZoneIds = {"z"}
    RackIds = {"r", "q"}
    Aisles = {1, 2, 3}
    Gates = {1}
    Span = 18
    Canvases <- Halls
    Templates <- RackSizes
    ZoneForms <- ZoneAreas
    RackForms <- RackPlaces
    AisleForms <- AisleAreas
    GateForms <- Doors
    DefaultFill = 75
    Shelvings <- Bays
    Boxes <- Cartons
    BoxCounts = {2, 5}
INVARIANTS RulesAreExact WaysAreShortest SavedAccessIsNearest SuggestionsSuffice
CHECK_DEADLOCK FALSE
