SPECIFICATION Spec
CONSTANTS
    Caps = {0, 1}
    MaxInputs = 3
    MaxReplies = 2
    MaxCalls = 1
INVARIANTS
    TranscriptAgrees
    EachMessageOnce
    DeliveredInOrder
