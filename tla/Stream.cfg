SPECIFICATION Spec
CONSTANTS
    Settings <- Providers
    MaxChunks = 3
INVARIANTS
    EndsWithOneOutcome
    ShownIsStored
    LlmRequestsBounded
PROPERTIES
    StreamEnds
