CONSTANTS
    MaxFaults = 1
    MaxVersion = 2
    MaxRelease = 1
    Interval <- MCInterval
    Setups <- MCSetups

SPECIFICATION Spec

PROPERTIES
    PublishedIsDelivered
