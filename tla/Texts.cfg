SPECIFICATION Spec
CONSTANTS
  None = None
  Crash = Crash
  Unset = Unset
  Parts = 2
  PartBits = 2
  BlockSize = 4
  LengthSize = 2
  LowWord = 8
  EnvironmentSize = 70
  MaxVars = 20
  Boundary <- FormBoundary
  Named = "headers"
  WordBits = 4
  LongBits = 7
  Mega = 4
  Methods <- RequestMethods
  Protocol <- RequestProtocol
  MaxHeaders = 2
  ConfigOptions <- ServerOptions
  Builtin <- BuiltinTypes
  PlainText <- Plain
INVARIANTS PathsHold RequestTextsRead OptionsDecide HandedOnExactly
CHECK_DEADLOCK FALSE
