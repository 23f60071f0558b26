SPECIFICATION Spec
CONSTANTS
    MaxBuilds = 3
    GatewayErrors = FALSE

PROPERTIES
    ScreenNeverGoesBack
    VerdictIsShown
