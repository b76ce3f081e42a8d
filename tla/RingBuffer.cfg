SPECIFICATION Spec
CONSTANTS
  Data = {0, 1, 2}
  Size = 4
PROPERTY ImplementsFifo
