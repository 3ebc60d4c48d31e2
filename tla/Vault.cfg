\* A secret under two categories; the categories are labels like any other.
CONSTANTS
  a = a  b = b  ab = ab
  Labels = {a, b, ab}
  Values = {"v"}
  Categories <- Slashes
  Blank = "blank"
  Ids = {1, 2, 3}
  Root = 0
  Absent = Absent
  None = None
  Partial = Partial
  MaxChanges = 6
SPECIFICATION Spec
INVARIANTS ReopensAsIs HangsTogether
PROPERTIES RefinesLabelStore
CHECK_DEADLOCK FALSE
