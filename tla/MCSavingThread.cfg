SPECIFICATION Spec
CONSTANTS
  Images = {new_game, played}
  Zeros = new_game
  Builds = {TRUE, FALSE}
  max_actions = 2
  Absent = Absent
  Part = Part
  MaxSignals = 2
INVARIANTS TypeOK NothingForgotten LastImageKept
PROPERTIES SavedEventually
