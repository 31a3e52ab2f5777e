\* A screen of four columns and two rows, a line of three characters.
SPECIFICATION Spec
CHECK_DEADLOCK FALSE
CONSTANTS
  Job = {"j1"}
  Key = {"c", "7", " ", "BS", "NL", "d", "TAB"}
  Plain <- MCPlain
  Shifted <- MCShifted
  LowerCase <- MCLowerCase
  Commands <- MCCommands
  Prompt <- MCPrompt
  SCREEN_WIDTH = 4
  SCREEN_HEIGHT = 2
  Capacity = 1
  BUFFER_LENGTH = 3
  MaxTyped = 4
  MaxPrinted = 1
  Faults = {"full", "nomem"}
INVARIANTS TypeOK LineShown NoStrayCursor StdinUnits
