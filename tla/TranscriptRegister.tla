------------------------- MODULE TranscriptRegister -------------------------
(***************************************************************************)
(* What creating transcripts promises its callers: a register per meeting  *)
(* that is written once and never again, and answers that agree with it.   *)
(* A caller told "created" wrote the register himself, one told "conflict" *)
(* or "refused" wrote nothing, and only one told "failed" is left to       *)
(* wonder.                                                                 *)
(***************************************************************************)
CONSTANTS Requests, MeetingIds, Contents, Empty

VARIABLES
  register,     \* register[m]: Empty, or who wrote it and what
  outcome       \* outcome[q]: what the request q was told

Outcomes == {"none", "created", "conflict", "refused", "failed"}

Wrote(q, m) == register[m] # Empty /\ register[m].by = q
WroteNothing(q) == \A m \in MeetingIds : ~Wrote(q, m)

Init ==
  /\ register = [m \in MeetingIds |-> Empty]
  /\ outcome = [q \in Requests |-> "none"]

Write(q) ==
  /\ outcome[q] = "none"
  /\ WroteNothing(q)
  /\ \E m \in MeetingIds, c \in Contents :
       /\ register[m] = Empty
       /\ register' = [register EXCEPT ![m] = [by |-> q, content |-> c]]
  /\ UNCHANGED outcome

Tell(q, what) ==
  /\ outcome[q] = "none"
  /\ outcome' = [outcome EXCEPT ![q] = what]
  /\ UNCHANGED register

Created(q) == (\E m \in MeetingIds : Wrote(q, m)) /\ Tell(q, "created")

Conflict(q) ==
  /\ WroteNothing(q)
  /\ \E m \in MeetingIds : register[m] # Empty
  /\ Tell(q, "conflict")

Refuse(q) == WroteNothing(q) /\ Tell(q, "refused")

Fail(q) == Tell(q, "failed")

Next ==
  \E q \in Requests :
    Write(q) \/ Created(q) \/ Conflict(q) \/ Refuse(q) \/ Fail(q)

Spec == Init /\ [][Next]_<<register, outcome>>
=============================================================================
