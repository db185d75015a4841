------------------------ MODULE MCMeetingScheduling ------------------------
(***************************************************************************)
(* Small instances of MeetingScheduling for TLC.  A quarter of an hour is  *)
(* the unit of time.                                                       *)
(***************************************************************************)
EXTENDS MeetingScheduling, TLC

\* Requests and texts are alike.
Symmetry == Permutations(Sessions) \union Permutations(Texts)
=============================================================================
