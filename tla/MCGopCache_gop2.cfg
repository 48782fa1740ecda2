CONSTANTS
  GopNum = 2
  MaxGOPCap = 3
  Ids = {1, 2}
  None = None
SPECIFICATION Spec
PROPERTIES ImplementsWindow
