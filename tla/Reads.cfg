\* One request that reads, over two overlapping calls that write the guest's rows.
SPECIFICATION Spec
CONSTANTS
  organizer = organizer
  guest = guest
  m1 = m1
  m2 = m2
  n1 = n1
  n2 = n2
  Users = {organizer, guest}
  Meetings = {m1}
  Notes = {n1}
  Sessions = {s1, s2}
  Readers = {r1}
  Organizer <- OneMeeting
  MeetingOf <- OneNote
CONSTRAINTS
  CallsConcernTheGuest
  TranscriptsConcernTheirReaders
SYMMETRY SessionSymmetry
INVARIANTS
  ReleaseIsJustified
  ReleaseIsComplete
