\* One request, while its user's access and the meeting's transcript change.
SPECIFICATION FairSpec
CONSTANTS
  organizer = organizer
  guest = guest
  m1 = m1
  Users = {organizer, guest}
  Meetings = {m1}
  NoMeeting = NoMeeting
  Requests = {r1}
  Organizer <- OneMeeting
CONSTRAINT OnlyGuestsAreGranted
INVARIANTS
  GrantsAreGrounded
  RefusalsAreGrounded
  TrailTellsOutcome
PROPERTIES
  EveryRequestEnds
  KeepsPromises
