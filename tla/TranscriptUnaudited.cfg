\* One upload whose audit commit may fail.
SPECIFICATION Spec
CONSTANTS
  organizer = organizer
  guest = guest
  m1 = m1
  unknown = unknown
  Nobody = Nobody
  Empty = Empty
  Blank = Blank
  Users = {organizer, guest}
  MeetingIds = {m1, unknown}
  Contents = {c1, c2}
  Requests = {q1}
  Organizer <- OneMeeting
\* Each request is made once: when all are answered the system is at rest.
CHECK_DEADLOCK FALSE
INVARIANT
  EveryTranscriptIsAudited
