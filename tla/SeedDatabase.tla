---------------------------- MODULE SeedDatabase ----------------------------
(***************************************************************************)
(* scripts/seed_db.py: each of nine things is looked for and, when it is   *)
(* not there, written and committed on its own; the last three are written *)
(* again when they are there.  A run may die between any two commits and   *)
(* be started again, or be started twice at once.                          *)
(***************************************************************************)
EXTENDS Naturals, FiniteSets

CONSTANTS
  Runs,           \* the times the script is started
  Demo            \* stands for what no run in particular made

VARIABLES
  rows,           \* the demo rows of the database
  run,            \* run[r]: where run r is
  alone           \* history: no run was started while another was running

vars == <<rows, run, alone>>

\* What seed() sees to, in its order.
Items ==
  <<"host", "attendee", "meeting", "participant", "transcript", "note",
    "recording", "host_membership", "attendee_membership">>
Last == 9
ItemNames == {Items[i] : i \in 1..Last}

\* Of these nothing in the schema forbids a second.
Repeatable == {"meeting", "note"}
OfMeeting == {"participant", "transcript", "note", "recording"}

\* These go through save(), which updates a row that is there.
Saved == {"recording", "host_membership", "attendee_membership"}

Meetings == Runs                 \* a meeting goes by the run that made it

\* by: the run that wrote the row last, where that makes it another row.
Rows == [item : ItemNames, of : Meetings \union {Demo}, by : Runs \union {Demo}]

\* What the constants are taken to be.
SeedConstants == Demo \notin Runs

NotStarted == [step |-> "idle", at |-> 1, meeting |-> Demo]

SeedTypeOK ==
  /\ rows \subseteq Rows
  /\ run \in [Runs -> [step : {"idle", "looking", "writing", "updating", "done", "failed", "dead"},
                       at : 1..Last, meeting : Meetings \union {Demo}]]
  /\ alone \in BOOLEAN

Running(r) == run[r].step \in {"looking", "writing", "updating"}
ItemOf(r) == Items[run[r].at]

\* The row r writes for its item.
RowOf(r) ==
  LET item == ItemOf(r) IN
  [item |-> item,
   of |-> IF item = "meeting" THEN r
          ELSE IF item \in OfMeeting THEN run[r].meeting ELSE Demo,
   by |-> IF item \in Repeatable \union Saved THEN r ELSE Demo]

\* The rows that answer r's look: any meeting of the title, any note of the text,
\* or the one row of that user or meeting.
Answering(r) ==
  {row \in rows :
     /\ row.item = ItemOf(r)
     /\ ItemOf(r) \in OfMeeting => row.of = run[r].meeting}

\* Slip: the note is looked for by who wrote it.
PresentByWriter(r) ==
  \E row \in Answering(r) : ItemOf(r) = "note" => row.by = r

Present(r) == Answering(r) # {}

\* Slip: the last two memberships are taken for one.
AdvanceTooFar(q) ==
  IF q.at >= Last - 1 THEN [q EXCEPT !.step = "done"]
  ELSE [q EXCEPT !.step = "looking", !.at = @ + 1]

Advance(q) ==
  IF q.at = Last THEN [q EXCEPT !.step = "done"]
  ELSE [q EXCEPT !.step = "looking", !.at = @ + 1]

Begin(r) ==
  /\ run[r].step = "idle"
  /\ run' = [run EXCEPT ![r].step = "looking"]
  /\ alone' = (alone /\ \A other \in Runs : ~Running(other))
  /\ UNCHANGED rows

\* The meeting of the title that comes first in the host's list is taken.  What
\* save() finds it will update; anything else that is found is left alone.
Look(r) ==
  /\ run[r].step = "looking"
  /\ \/ /\ ~Present(r)
        /\ run' = [run EXCEPT ![r].step = "writing"]
     \/ /\ Present(r) /\ ItemOf(r) \in Saved
        /\ run' = [run EXCEPT ![r].step = "updating"]
     \/ /\ Present(r) /\ ItemOf(r) \notin Saved
        /\ \E row \in Answering(r) :
             run' = [run EXCEPT ![r] =
                       Advance([@ EXCEPT !.meeting =
                                  IF ItemOf(r) = "meeting" THEN row.of
                                  ELSE run[r].meeting])]
  /\ UNCHANGED <<rows, alone>>

\* The INSERT is committed.
Write(r) ==
  /\ run[r].step = "writing"
  /\ ItemOf(r) \in Repeatable \/ ~Present(r)
  /\ rows' = rows \union {RowOf(r)}
  /\ run' = [run EXCEPT ![r] =
               Advance([@ EXCEPT !.meeting =
                          IF ItemOf(r) = "meeting" THEN r ELSE run[r].meeting])]
  /\ UNCHANGED alone

\* save() sets the columns of the row it found, and commits.
Update(r) ==
  /\ run[r].step = "updating"
  /\ rows' = (rows \ Answering(r)) \union {RowOf(r)}
  /\ run' = [run EXCEPT ![r] = Advance(@)]
  /\ UNCHANGED alone

\* Another run was faster: a unique constraint refuses the INSERT and the script
\* ends.  add_participant looks once more, and may find the row and update it.
WriteLate(r) ==
  /\ run[r].step = "writing"
  /\ ItemOf(r) \notin Repeatable /\ Present(r)
  /\ \/ run' = [run EXCEPT ![r].step = "failed"]
     \/ /\ ItemOf(r) = "participant"
        /\ run' = [run EXCEPT ![r] = Advance(@)]
  /\ UNCHANGED <<rows, alone>>

\* The script is killed, or loses the database; what it committed stays.
Die(r) ==
  /\ Running(r)
  /\ run' = [run EXCEPT ![r].step = "dead"]
  /\ UNCHANGED <<rows, alone>>

-----------------------------------------------------------------------------
Init ==
  /\ rows = {}
  /\ run = [r \in Runs |-> NotStarted]
  /\ alone = TRUE

Next ==
  \E r \in Runs :
    Begin(r) \/ Look(r) \/ Write(r) \/ Update(r) \/ WriteLate(r) \/ Die(r)

Spec == Init /\ [][Next]_vars

-----------------------------------------------------------------------------
\* Runs that follow one another, wherever each of them died, leave nothing twice,
\* and none of them is refused by the database.
NothingTwice ==
  alone =>
    /\ \A a, b \in rows : a.item = b.item => a = b
    /\ \A r \in Runs : run[r].step # "failed"

\* A run that reached its end finds all nine things there, those of the meeting all
\* of its own meeting, whatever ran at the same time.
DoneMeansAll ==
  \A r \in Runs :
    run[r].step = "done" =>
      \A item \in ItemNames :
        \E row \in rows :
          /\ row.item = item
          /\ item \in OfMeeting \union {"meeting"} => row.of = run[r].meeting

\* "Idempotently": of runs that follow one another, once one has reached its end the
\* later ones add nothing; only the recording and the memberships are written again,
\* in place.
RerunsAddNothing ==
  [][alone /\ (\E r \in Runs : run[r].step = "done") =>
       /\ {row \in rows : row.item \notin Saved}' = {row \in rows : row.item \notin Saved}
       /\ {row.item : row \in rows}' = {row.item : row \in rows}]_vars
=============================================================================
