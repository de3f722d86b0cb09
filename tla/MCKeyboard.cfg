SPECIFICATION Spec
CONSTANTS
  Keys <- MCKeys
  MaxHeld = 1
  MaxWire = 2
INVARIANTS TypeOK InStep
PROPERTIES Translates
