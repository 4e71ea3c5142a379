----------------------------- MODULE HostAnswers -----------------------------
(***************************************************************************)
(* What a Host may rely on: the one agent run behind all its idempotency   *)
(* keys reaches at most one verdict, for good, and every terminal answer   *)
(* given under any key is that verdict - a decision only in reply to the   *)
(* very proposal that was decided.  No threads, no files and no crashes.   *)
(***************************************************************************)
CONSTANTS Key, Proposal, None

VARIABLES
  verdict,   \* None until the run has ended
  answers    \* the terminal answers given so far

answersVars == <<verdict, answers>>

\* Unavailable: the run ended, but not in a way a Host could be told.
Unavailable == [status |-> "unavailable", proposal |-> None]
NoAction == [status |-> "no_action", proposal |-> None]
Outcome  == [status : {"accepted", "rejected"}, proposal : Proposal] \cup {NoAction}

AnswersInit == verdict = None /\ answers = {}

Seal ==
  /\ verdict = None
  /\ verdict' \in Outcome \cup {Unavailable}
  /\ UNCHANGED answers

Answer(k, p) ==
  /\ verdict \in Outcome
  /\ verdict.proposal \in {p, None}
  /\ answers' = answers \cup {[key |-> k, outcome |-> verdict]}
  /\ UNCHANGED verdict

AnswersNext == Seal \/ \E k \in Key, p \in Proposal \cup {None} : Answer(k, p)

AnswersSpec == AnswersInit /\ [][AnswersNext]_answersVars
=============================================================================
