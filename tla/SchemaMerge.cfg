SPECIFICATION Spec
CONSTANTS
  NoBound = NoBound
  s1 = s1
  s2 = s2
  red = red
  blue = blue
  Numbers <- MCNumbers
  Types <- MCTypes
  Names <- MCNames
  Literals <- MCLiterals
  Subs <- MCSubs
  Definitions <- MCDefinitions
CHECK_DEADLOCK FALSE
INVARIANTS
  TypeOK
  NumbersAreExact
  LengthsAndRequiredAreExact
  NumbersNeverLooser
  TypesAreExact
