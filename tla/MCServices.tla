----------------------------- MODULE MCServices -----------------------------
(***************************************************************************)
(* Small instances of four components that share no state: SignIn,         *)
(* RecordingAvailability, MediaValidation and SeedDatabase.  What one does *)
(* is nothing to the others, so each is checked alone: at the start one of *)
(* them is taken to work, and the others rest where they begin.            *)
(***************************************************************************)
EXTENDS SignIn, Services, TLC

VARIABLE works

-----------------------------------------------------------------------------
\* Two sign-ins of one person from two browsers, and an administrator.
CONSTANTS p1, f1, f2

OnePerson == [f \in {f1, f2} |-> p1]

-----------------------------------------------------------------------------
\* One request of a guest, while everything it reads changes and a membership
\* ends.
CONSTANTS organizer, guest

LastInstant == 1
Unending == LastInstant + 1
Paid(plan, status, until) == [plan |-> plan, status |-> status, until |-> until]
Recorded(status, plan) == [status |-> status, plan |-> plan]

OrganizerAndGuest == {organizer, guest}
SomeMemberships ==
  {Paid("professional", "active", LastInstant),
   Paid("organization", "active", Unending),
   Paid("organization", "inactive", Unending)}
SomeRecordings ==
  {Recorded("processing", "professional"), Recorded("available", "professional"),
   Recorded("available", "organization")}

ASSUME RecordingConstants

\* The organizer's access never changes, nor is it told from a participant's.
GuestAsks ==
  /\ \A r \in Requests : ask[r].step # "idle" => ask[r].u = guest
  /\ membership[organizer] = NoRow

-----------------------------------------------------------------------------
\* Any one file, an image of two types or a sound, sent in chunks of every size
\* around the limits.
SomeMimes == {"image/jpeg", "image/png", "audio/wav", "other"}
SomeMedia ==
  [safeName : BOOLEAN, extension : {".jpeg", ".png", ".wav", "other"},
   declared : SomeMimes, signature : SomeMimes, duration : {0, 2, 3, 4}]

ASSUME Body!MediaConstants

mediaVars == <<upload, trail>>

-----------------------------------------------------------------------------
\* Two runs of the script, one after the other or at once, each killed anywhere.
ASSUME Seed!SeedConstants

seedVars == <<rows, run, alone>>

\* The runs are alike; they are started in this order.
RunsInOrder == run[1].step = "idle" => run[2].step = "idle"

-----------------------------------------------------------------------------
ServicesInit ==
  /\ works \in {"sign-in", "recording", "media", "seed"}
  /\ Init
  /\ RecordingInit
  /\ Body!Init
  /\ Seed!Init

ServicesNext ==
  /\ \/ works = "sign-in" /\ Next /\ UNCHANGED <<recordingVars, mediaVars, seedVars>>
     \/ works = "recording" /\ RecordingNext /\ UNCHANGED <<vars, mediaVars, seedVars>>
     \/ works = "media" /\ Body!Next /\ UNCHANGED <<vars, recordingVars, seedVars>>
     \/ works = "seed" /\ Seed!Next /\ UNCHANGED <<vars, recordingVars, mediaVars>>
  /\ UNCHANGED works

servicesVars == <<works, vars, recordingVars, mediaVars, seedVars>>

ServicesSpec ==
  /\ ServicesInit
  /\ [][ServicesNext]_servicesVars
=============================================================================
