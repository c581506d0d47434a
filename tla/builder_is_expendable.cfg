SPECIFICATION BundleSpec
CONSTANTS
    MaxMade = 5
    PartNames <- McPartNames
CHECK_DEADLOCK FALSE
PROPERTIES
    BuilderIsExpendable
