SPECIFICATION SelectorSpec
CONSTANTS
  Handles = {h1, h2}
  Fields = {"text", "instance"}
  MaxIndex = 1
  Answers <- MCAnswers
  MaxNodes = 6
  MaxSteps = 4
SYMMETRY HandleSymmetry
INVARIANTS WellFormed Separate
PROPERTY SelectorPromise
CHECK_DEADLOCK FALSE
