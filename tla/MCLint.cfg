SPECIFICATION Spec
CONSTANTS
  Ids = {1, 2, 3}
  MaxDegree = 2
  Declared = {{}, {1, 3}}
  Layouts <- MCLayouts
  Families <- MCFamilies
  Submissions <- MCSubmissions
  Explored <- MCExplored
  Spellings <- MCSpellings
  MaxNesting = 2
INVARIANTS AcceptedConfigRuns ConfigMeansDocument OrderedOnce HiddenExactly CyclesGenuine FindingsExact
CHECK_DEADLOCK FALSE
