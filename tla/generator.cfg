SPECIFICATION Spec
CONSTANTS
  Files <- MCFiles
  Edits <- MCEdits
  MaxEdits = 2
  Nil = Nil
  item = item
  home = home
  card = card
INVARIANTS
  DeclarationsTakeEffect
  RoutesFit
  GeneratedAsWritten
CHECK_DEADLOCK FALSE
