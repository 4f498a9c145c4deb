CONSTANTS
    MaxId = 120
    MaxWs = 3
SPECIFICATION Spec
INVARIANT WspaceRoundTrip
