\* Two overlapping requests of the organizer: the duration the service validates.
SPECIFICATION Spec
CONSTANTS
  Sessions = {s1, s2}
  Users = {u1}
  MeetingIds = {m1}
  Texts = {t1, t2}
  Keep = Keep
  NoMeeting = NoMeeting
  Disturbed = Disturbed
  Starts = {0, 1}
  Minutes = {0, 1, 2, 3}
  MinimumMinutes = 1
  MaximumMinutes = 2
SYMMETRY Symmetry
INVARIANT
  DurationIsSupported
