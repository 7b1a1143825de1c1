CONSTANTS
  Columns = {1, 2}
  Values = {a, b}
  Tables = {"bets", ""}
  MaxOptions = 5
SPECIFICATION Spec
INVARIANTS MeansTheOptions BuildsWhatIsValid
CHECK_DEADLOCK FALSE
