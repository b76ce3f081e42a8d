SPECIFICATION Spec
CONSTANTS
  Capacity = 3
  Leds <- MCLeds
  Keys <- MCKeys
  Tries = 2
  MaxCommands = 1
  MaxTyped = 1
  MaxAccidents = 0
INVARIANTS DeafIsNoticed
