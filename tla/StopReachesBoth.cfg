CONSTANTS
    MaxParts = 1
    MaxChunk = 2
SPECIFICATION Spec
PROPERTY StopReachesBoth
