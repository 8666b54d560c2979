\* One login on a page that was loaded without a token.
SPECIFICATION Spec
CONSTANTS
  MaxToken = 1
  MaxEvents = 2
CHECK_DEADLOCK FALSE
PROPERTY LiveAfterLogin
