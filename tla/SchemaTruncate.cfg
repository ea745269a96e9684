SPECIFICATION Spec
CONSTANTS
  tab1 = tab1
  tab2 = tab2
  colA = colA
  colB = colB
  Columns = {colA, colB}
  Values = {1, 2, 3, 4, 5, 6, 7, 8}
  Null = Null
  MaxRows = 3
  Sessions = {s1}
  Tables = {tab1, tab2}
  Statements <- MCStatements
  Existing = {tab1}
  FirstColumns <- MCFirstColumns
  MaxStatements = 2
  MaxOverlap = 2
  MaxFailures = 0
PROPERTY TruncateDoesNotError
CHECK_DEADLOCK FALSE
