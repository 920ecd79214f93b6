SPECIFICATION Spec
CONSTANTS
  LinkMem = {l1, l2}
  BundMem = {b1, b2}
  Sessions = {tty}
  Web = Web
  None = None
  Freed = Freed
  Privileges = {2}
  Kinds = {"template", "static"}
  GMaxChildren = 1
  MaxChildren = 1
  MaxUp = 1
  MaxCommands = 2
  MaxMsgs = 1
INVARIANTS
  RefsAreHolders
  TablesAreCurrent
  FailsOnlyOnTheDead
CONSTRAINT OneOfAKind
SYMMETRY Symmetry
CHECK_DEADLOCK FALSE
