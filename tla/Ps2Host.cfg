SPECIFICATION FairSpec
CONSTANTS
  Capacity = 3
  Leds <- MCLeds
  Keys <- MCKeys
  Tries = 2
  MaxCommands = 1
  MaxTyped = 1
  MaxAccidents = 1
INVARIANTS TypeOK NoAlienCommand LampsFollow AnswersConsumed ReceiverInStep
PROPERTIES CommandEnds
