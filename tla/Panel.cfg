\* Three calls: a message, its confirmation and a spoken one, or any others.
SPECIFICATION Spec
CONSTANTS
  Calls = {c1, c2, c3}
  Offered <- OneOfEach
SYMMETRY CallSymmetry
INVARIANTS
  ChangesAreConfirmedOnce
  BusyTellsWaiting
  MicrophoneIsShown
