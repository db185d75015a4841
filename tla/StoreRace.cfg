\* Two overlapping calls: the promise that a grant does not outlive a removal.
SPECIFICATION StoreSpec
CONSTANTS
  organizer = organizer
  guest = guest
  m1 = m1
  m2 = m2
  n1 = n1
  n2 = n2
  Users = {organizer, guest}
  Meetings = {m1}
  Notes = {n1}
  Sessions = {s1, s2}
  Organizer <- OneMeeting
  MeetingOf <- OneNote
INVARIANT
  NoGrantSurvivesRemoval
