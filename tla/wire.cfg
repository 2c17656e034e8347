SPECIFICATION Spec
CONSTANTS
    WordBits = 15
    Int32Bits = 10
    MinSeconds <- FirstSecond
    MaxSeconds = 8000
    NanosPerSecond = 500
    Unmarshal <- UnmarshalAll
    Messages <- SomeMessages
    UnknownFields <- SomeUnknownFields
    Garbage = {0, 4, 10, 127, 128, 255}
    MaxGarbled = 12
INVARIANTS TypeOK MessagesArrive
PROPERTIES ReaderAdvances
CHECK_DEADLOCK FALSE
