\* Two logins, a reload, a connection that breaks and a unit that changes.
SPECIFICATION Spec
CONSTANTS
  MaxToken = 2
  MaxEvents = 3
CHECK_DEADLOCK FALSE
INVARIANTS IInv KeepsTrying NameIsOwn EventShown
PROPERTY Reconnects
