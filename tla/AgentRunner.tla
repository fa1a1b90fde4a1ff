---------------------------- MODULE AgentRunner ----------------------------
(***************************************************************************)
(* What a caller may expect of Move, the call of the interface AgentRunner *)
(* that MatchExec makes once per turn: lines, until the bot is lost; from  *)
(* then on only errors, for the rest of the match. A line that is too long *)
(* is an error to the caller, but the bot is not lost.                     *)
(***************************************************************************)
VARIABLES
  answer,   \* what the last Move returned
  lost      \* Move will not return a line again

avars == <<answer, lost>>

AInit == answer = "none" /\ lost = FALSE

Line    == ~lost /\ answer' \in {"line", "too_long"} /\ lost' \in BOOLEAN
Failure == answer' \in {"timeout", "error"} /\ lost' = TRUE
Loss    == lost' = TRUE /\ UNCHANGED answer

ANext == Line \/ Failure \/ Loss

ASpec == AInit /\ [][ANext]_avars
=============================================================================
