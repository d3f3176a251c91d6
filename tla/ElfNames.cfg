SPECIFICATION Spec
CONSTANTS
  Hexes <- NoInput
  Strings <- NoInput
  Arangeses <- NoInput
  Pubnames <- Ordinary
  NoOffset = NoOffset
  MaxDies = 0
INVARIANTS
  NamesPerUnit
