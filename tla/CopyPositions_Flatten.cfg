CONSTANTS
    MaxSize = 1
    MaxEvents = 3
SPECIFICATION Spec
PROPERTY StaysFlat
CHECK_DEADLOCK FALSE
