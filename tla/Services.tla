------------------------------ MODULE Services ------------------------------
(***************************************************************************)
(* Three services that share no state, side by side: RecordingAvailability,*)
(* MediaValidation and SeedDatabase.  What one does is nothing to the      *)
(* others: each has its own specification, and its properties are named    *)
(* here to be checked and proved of it alone.                              *)
(***************************************************************************)
EXTENDS RecordingAvailability

-----------------------------------------------------------------------------
CONSTANTS Uploads, MaxImage, MaxAudio, MaxDuration, MaxChunk, Media
VARIABLES upload, trail

Body == INSTANCE MediaValidation

\* get_bounded_media_body: a body never outgrows the limit by more than a chunk, and
\* what is above the limit is refused without being looked at.
BufferIsBounded == Body!BufferIsBounded

\* MediaValidationPolicy: a medium is validated only if it is right, and refused only
\* for a reason, or for want of an audit row.
RepliesAreExact == Body!RepliesAreExact

\* MediaValidationService: the audit trail tells the verdicts that were told.
TrailTellsVerdict == Body!TrailTellsVerdict

-----------------------------------------------------------------------------
CONSTANTS Runs, Demo
VARIABLES rows, run, alone

Seed == INSTANCE SeedDatabase

\* seed_db.py: runs that follow one another leave nothing twice.
NothingTwice == Seed!NothingTwice

\* seed_db.py: a run that reached its end finds everything there.
DoneMeansAll == Seed!DoneMeansAll

\* seed_db.py: after a finished run the later ones add nothing.
RerunsAddNothing == Seed!RerunsAddNothing
=============================================================================
