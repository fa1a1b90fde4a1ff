--------------------------- MODULE MatchLifecycle ---------------------------
(***************************************************************************)
(* What the match queue promises of one `matches` row and of the verdict   *)
(* in its event stream, whatever the interleaving of the HTTP handlers,    *)
(* the worker and the shutdown, whatever database call fails and whenever  *)
(* the process dies:                                                       *)
(*   - a row moves queued -> running -> completed | failed and no other    *)
(*     way;                                                                *)
(*   - at most one verdict event (match.completed or match.failed) is      *)
(*     published, and never after the row is terminal;                     *)
(*   - the terminal status is the published verdict, or, when there is no  *)
(*     verdict event, any of the two.                                      *)
(* MatchQueue implements this specification.                               *)
(***************************************************************************)
CONSTANT Match

VARIABLES
  status,    \* [Match -> Status], the status column
  verdict    \* [Match -> Verdict], the verdict event of the match, if any

lvars == <<status, verdict>>

Outcome == {"completed", "failed"}
Status  == {"none", "queued", "running"} \union Outcome
Verdict == {"none"} \union Outcome

LTypeOK == /\ status  \in [Match -> Status]
           /\ verdict \in [Match -> Verdict]

LInit == /\ status  = [m \in Match |-> "none"]
         /\ verdict = [m \in Match |-> "none"]

Create(m) == /\ status[m] = "none"
             /\ status' = [status EXCEPT ![m] = "queued"]
             /\ UNCHANGED verdict

Start(m) == /\ status[m] = "queued"
            /\ status' = [status EXCEPT ![m] = "running"]
            /\ UNCHANGED verdict

Publish(m, o) == /\ status[m] = "running"
                 /\ verdict[m] = "none"
                 /\ verdict' = [verdict EXCEPT ![m] = o]
                 /\ UNCHANGED status

Settle(m, o) == /\ status[m] = "running"
                /\ verdict[m] \in {"none", o}
                /\ status' = [status EXCEPT ![m] = o]
                /\ UNCHANGED verdict

LNext == \E m \in Match : \/ Create(m)
                          \/ Start(m)
                          \/ \E o \in Outcome : Publish(m, o) \/ Settle(m, o)

LSpec == LInit /\ [][LNext]_lvars
=============================================================================
