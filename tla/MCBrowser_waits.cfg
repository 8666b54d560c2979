\* A file opened, shown as a form and edited in it: are the paths it waits for read back?
SPECIFICATION Spec
CONSTANTS
  File = {f1, f2}
  MaxCalls = 2
  Closed = Closed
  Absent = Absent
  NoForm = NoForm
  Budgets <- MCBudgets
  Word <- MCWord
  NumberWord <- MCNumber
  PortWord <- MCPort
  VolumeWord <- MCVolume
  Command = {}
  ShortName <- MCShortName
  Stored <- MCStored
  Typed <- MCTyped
  Item = {i1}
  MaxMuts = 2
  MaxPresses <- MCMaxPresses
  MaxChanges <- MCMaxChanges
  Unloaded = Unloaded
  Shut = Shut
  Blank = Blank
CHECK_DEADLOCK FALSE
INVARIANT WaitsComeBack
