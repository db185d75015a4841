\* One call at a time over two meetings with a note each; every user organizes
\* one meeting and is a guest of the other.
SPECIFICATION StoreSpec
CONSTANTS
  organizer = organizer
  guest = guest
  m1 = m1
  m2 = m2
  n1 = n1
  n2 = n2
  Users = {organizer, guest}
  Meetings = {m1, m2}
  Notes = {n1, n2}
  Sessions = {s1}
  Organizer <- TwoMeetings
  MeetingOf <- OneNoteEach
INVARIANTS
  NoGrantSurvivesRemoval
  RemovedAtMatchesStatus
PROPERTIES
  GrantLossIsExplained
