SPECIFICATION Spec
CONSTANTS
  Roots = {"a"}
  Paths = {"site", "../page"}
  Upward = {"../page"}
  Sites = {"site"}
  Lengths = {1, 3}
  InitialLengths = {2}
  BufferSize = 2
  OutputSize = 1
  MaxChanges = 3
  Absent = Absent
  Directory = Directory
  None = None
  Unknown = Unknown
INVARIANTS AnswersAreRight NothingStale RunningIsOpen
PROPERTIES AnswerComes
