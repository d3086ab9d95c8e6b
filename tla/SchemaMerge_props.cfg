SPECIFICATION Spec
CONSTANTS
  NoBound = NoBound
  s1 = s1
  s2 = s2
  red = red
  blue = blue
  Numbers <- MCNumbers
  Types <- MCTypes
  Names <- MCNames
  Literals <- MCLiterals
  Subs <- MCSubs
  Definitions <- MCPropsDefinitions
CHECK_DEADLOCK FALSE
INVARIANT PropertiesAreMerged
