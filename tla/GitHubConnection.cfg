SPECIFICATION Spec
CONSTANTS
    OAuthConnections = {c1}
    EnvConnections = {e1}
    Tasks = {t1, t2}
    Codes = {k1, k2}
    NoCode = NoCode
    NoToken = NoToken
    NoTask = NoTask
    MaxGeneration = 2

CHECK_DEADLOCK FALSE
INVARIANTS
    ConnectedHasCredential
    CredentialsAreTheirs
PROPERTIES
    DisconnectIsFinal
    ExchangesSettle
