\* One visit to each page: edits of a file as text and as a form, races of its calls, and calls
\* on the lists racing with their fetches.
SPECIFICATION Spec
CONSTANTS
  File = {f1, f2}
  MaxCalls = 2
  Closed = Closed
  Absent = Absent
  NoForm = NoForm
  Budgets <- MCBudgets
  Word <- MCWord
  NumberWord <- MCNumber
  PortWord <- MCPort
  VolumeWord <- MCVolume
  Command <- MCCommand
  ShortName <- MCShortName
  Stored <- MCStored
  Typed <- MCTyped
  Item = {i1}
  MaxMuts = 2
  MaxPresses <- MCMaxPresses
  MaxChanges <- MCMaxChanges
  Unloaded = Unloaded
  Shut = Shut
  Blank = Blank
CHECK_DEADLOCK FALSE
INVARIANTS IInv FormMatchesText OwnText FormIsStable FormKeepsText DoneIsShown
PROPERTY ButtonsComeBack
