SPECIFICATION Spec
CONSTANTS
  Texts <- AllTexts
  QuoteLength = 6
  CommentLength = 6
  RoutineLength = 6
  ControlLength = 5
  NameLength = 5
  ParenLength = 5
INVARIANTS
  SplitsAsServer
  NoHiddenControl
  NumbersAsNamed
