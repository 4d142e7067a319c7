SPECIFICATION Spec
CONSTANTS
  Input <- MCInput
  MaxInput = 8
  NoName = NoName
INVARIANTS
  TypeOK
  ScopesNest
  LetsReadOpenLoops
  IndicesInsideLoops
  LocalsDeclaredOnce
  NestingIsText
  AcceptedIsWhole
PROPERTIES
  Terminates
  StepsRunOut
