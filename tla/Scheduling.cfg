\* Two overlapping requests, of the organizer or another, some for an unsupported
\* duration.
SPECIFICATION Spec
CONSTANTS
  Sessions = {s1, s2}
  Users = {u1, u2}
  MeetingIds = {m1}
  Texts = {t1, t2}
  Keep = Keep
  NoMeeting = NoMeeting
  Disturbed = Disturbed
  Starts = {0, 1}
  Minutes = {0, 1, 2}
  MinimumMinutes = 1
  MaximumMinutes = 1
SYMMETRY Symmetry
INVARIANTS
  UndisturbedIsExact
  AuditAgrees
