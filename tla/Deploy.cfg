\* Two requests on one file, two writes that may overlap, calls that were given up on the
\* bus beside those that are waited for, and a systemd that may hang.
SPECIFICATION FairSpec
CONSTANTS
  File = {f1}
  Request = {r1, r2}
  Nobody = Nobody
  MaxWrites = 2
  MaxBus = 0
INVARIANTS StartsWhatItWrote AppliedStays EmptyIsExplained IInv
PROPERTY RequestsEnd
