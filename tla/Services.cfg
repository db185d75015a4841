\* Sign-in, recording availability, media validation and the seed script.
SPECIFICATION ServicesSpec
CONSTANTS
  p1 = p1
  f1 = f1
  f2 = f2
  None = None
  People = {p1}
  Flows = {f1, f2}
  Browsers = {b1, b2}
  PersonOf <- OnePerson
  organizer = organizer
  guest = guest
  Users <- OrganizerAndGuest
  Owner = organizer
  Requests = {request}
  MaxTime <- LastInstant
  Bought <- SomeMemberships
  Made <- SomeRecordings
  Uploads = {upload1}
  MaxImage = 2
  MaxAudio = 4
  MaxDuration = 2
  MaxChunk = 3
  Media <- SomeMedia
  Runs = {1, 2}
  Demo = 0
CONSTRAINTS
  GuestAsks
  RunsInOrder
CHECK_DEADLOCK FALSE
INVARIANTS
  OneAccountPerPerson
  SessionsBeginHere
  DisablingLasts
  AnswersAreGrounded
  SteadyFactsDecide
  BufferIsBounded
  RepliesAreExact
  TrailTellsVerdict
  NothingTwice
  DoneMeansAll
PROPERTIES
  RerunsAddNothing
