CONSTANTS
  Collectors = {c1, c2}
  Renderers = {r}
  Old = Old
  NoFile = NoFile
  NoReport = NoReport
  MaxLosses = 1
SPECIFICATION Spec
INVARIANTS HtmlHasItsJson TemporariesAreRemoved
PROPERTIES ImplementsStore
CHECK_DEADLOCK FALSE
