\* Two overlapping calls.
SPECIFICATION StoreSpec
CONSTANTS
  organizer = organizer
  guest = guest
  m1 = m1
  m2 = m2
  n1 = n1
  n2 = n2
  Users = {organizer, guest}
  Meetings = {m1}
  Notes = {n1, n2}
  Sessions = {s1, s2}
  Organizer <- OneMeeting
  MeetingOf <- TwoNotes
SYMMETRY SessionSymmetry
INVARIANTS
  StoreTypeOK
  OrganizerStaysActive
  GrantsFollowParticipation
  PendingCallsAreGrounded
  NoSessionsWaitInACircle
PROPERTIES
  RevivalIsDeliberate
  MixingNeedsOverlap
