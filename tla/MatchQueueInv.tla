--------------------------- MODULE MatchQueueInv ---------------------------
(***************************************************************************)
(* The inductive invariant of MatchQueue: what is true of a match wherever *)
(* it is (with its handler, in the channel, with the worker), in addition  *)
(* to the properties of MatchQueue. MatchQueueProofs proves it of every    *)
(* instance.                                                               *)
(***************************************************************************)
EXTENDS MatchQueue

\* Nothing but game events follows match.started.
OpenStream(s) == /\ Len(s) > 0
                 /\ s[1] = "started"
                 /\ \A i \in DOMAIN s : i > 1 => s[i] = "game"

\* A handler that has a row holds it alone, and knows what is in it.
HandlerInv ==
  \A r \in Request :
    /\ pc[r] \in {"idle", "submit"} => status[r] = "none" /\ response[r] = "none"
    /\ pc[r] = "start" => status[r] = "queued"
    /\ pc[r] \in {"idle", "submit", "start", "seq", "insert"} => events[r] = <<>>
    /\ pc[r] = "insert" => hseq[r] = 1
    /\ pc[r] \in {"seq", "insert", "enqueue", "cancelled", "busy"} => status[r] = "running"
    /\ pc[r] \in {"enqueue", "cancelled", "busy"} => events[r] = <<"started">>
    /\ HandlerHolds(r) => response[r] = "none"

\* A job in the channel was given away by its handler and is there once.
QueueInv ==
  /\ \A m \in Request : QueueHolds(m) => /\ pc[m] = "done"
                                         /\ status[m] = "running"
                                         /\ events[m] = <<"started">>
                                         /\ response[m] = "match"
                                         /\ execLog[m] = <<>>
  /\ \A i, j \in DOMAIN jobs : jobs[i] = jobs[j] => i = j

\* The worker's job is in nobody else's hands; its stream is open until the
\* verdict is appended.
WorkerInv ==
  /\ wjob = NoJob <=> wpc \in {"select", "parked", "exited"}
  /\ wjob # NoJob =>
       /\ pc[wjob] = "done" /\ response[wjob] = "match"
       /\ ~QueueHolds(wjob)
       /\ execLog[wjob] = <<>>
       /\ wpc # "render" => status[wjob] = "running"
       /\ wpc \in {"run", "seq", "insert"} => OpenStream(events[wjob])
  /\ wpc \in {"seq", "insert"} => wtype # "started"
  /\ wpc = "insert" => wseq = Len(events[wjob]) + 1
  /\ wpc \in {"settle", "render"} => /\ wtype \in Outcome
                       /\ \/ OpenStream(events[wjob])
                          \/ VerdictOf(events[wjob]) = wtype
  /\ wpc = "render" => \/ faults > 0
                       \/ status[wjob] \in Outcome

\* A rendered log belongs to a match that nobody will write to any more.
LogInv == \A m \in Request :
            execLog[m] # <<>> => execLog[m] = events[m] /\ pc[m] \in {"done", "lost"}

ProcessInv == main = "stopped" => wpc = "exited"

IInv == /\ TypeOK
        /\ HandlerInv
        /\ QueueInv
        /\ WorkerInv
        /\ LogInv
        /\ ProcessInv
        /\ StreamWellFormed
        /\ LiveHasOwner
        /\ ErrorIsFinal
=============================================================================
