SPECIFICATION Spec
CONSTANTS
  Hexes <- MCHexes
  Strings <- MCStrings
  Arangeses <- MCArangeses
  Pubnames <- MCPubnames
  NoOffset = NoOffset
  MaxDies = 10
INVARIANTS
  TypeOK
  HexLinesTile
  StringsAreWhole
  DepthIsNesting
  ArangesGrouped
  NamesUnderTheirHeader
