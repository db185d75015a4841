------------------------------- MODULE MCPages -------------------------------
(***************************************************************************)
(* Small instances of the two forms of Pages.  Each is checked alone: at   *)
(* the start the user opens one page, and the other rests where it begins. *)
(***************************************************************************)
EXTENDS Pages, TLC

VARIABLE opened

-----------------------------------------------------------------------------
\* A tab whose files are read in any order, another that types, and two calls.
CONSTANTS x1, x2, t1, t2

ASSUME Page!TranscriptPageConstants

\* One file can be read, the other turns out to be no text.
SomeFiles == {[plain |-> TRUE, text |-> x1], [plain |-> TRUE, text |-> NoText]}

\* The second tab is there to compete: its user types.
SecondTabTypes == tab[t2].reading = {}

-----------------------------------------------------------------------------
\* Three submissions of two plans, every answer delayed, failed or lost.
TwoPlans == {"plan1", "plan2"}

ASSUME Scheduler!SchedulerConstants

pageVars == <<register, outcome, carried, tab>>
schedulerVars == <<planned, asked, form, lost>>

\* The calls are alike, in either form.
CallSymmetry == Permutations(Requests) \union Permutations(Submissions)

-----------------------------------------------------------------------------
PagesInit ==
  /\ opened \in {"transcript", "scheduler"}
  /\ Page!Init
  /\ Scheduler!Init
  /\ opened = "transcript" => form.loaded = "plan1"

PagesNext ==
  /\ \/ opened = "transcript" /\ Page!Next /\ UNCHANGED schedulerVars
     \/ opened = "scheduler" /\ Scheduler!Next /\ UNCHANGED pageVars
  /\ UNCHANGED opened

PagesSpec == PagesInit /\ [][PagesNext]_<<opened, pageVars, schedulerVars>>
=============================================================================
