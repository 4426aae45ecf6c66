SPECIFICATION Spec
CONSTANTS
  Ids = {1, 2, 3}
  MaxDegree = 2
  Declared = {{}, {1, 3}}
  Layouts <- MCLayouts
  Families <- MCFamilies
  Submissions <- MCSubmissions
  Explored = {}
  Spellings <- MCSpellings
  MaxNesting = 2
INVARIANT EntriesMerged
CHECK_DEADLOCK FALSE
