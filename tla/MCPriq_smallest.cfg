SPECIFICATION Spec
CONSTANTS
    Keys = {1, 2, 3, 4}
    NoKey = noKey
    MaxUsed = 7
PROPERTY RemovesSmallest
