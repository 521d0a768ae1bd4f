SPECIFICATION Spec
CONSTANTS
  Commands = {"add", "switch"}
  Intervals = {2, 3, 5}
  Lifetimes = {1, 4, 8}
  Timeout = 2
  Never = Never
INVARIANTS
  TypeOK
  CleanLine
  EndsInTime
PROPERTIES
  PollsInTime
