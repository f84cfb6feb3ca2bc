\* The order 17 makes 136 points, 17 of them without torsion.  The draws
\* clamp to different scalars.
CONSTANTS
    Order = 17
    Draws = {9, 17}
    Seeds = {3, 77}
    Points <- SomePoints
    Settings <- SomeSettings
    Clock <- Edges
    Uses = 3
SPECIFICATION Spec
INVARIANTS DescriptorsFound AddressIsOneService
CHECK_DEADLOCK FALSE
