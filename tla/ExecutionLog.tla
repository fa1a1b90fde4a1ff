---------------------------- MODULE ExecutionLog ----------------------------
(***************************************************************************)
(* RenderExecutionLog: the text of an execution log, of at most MaxBytes   *)
(* bytes and a marker for what did not fit. A line or block is its length. *)
(***************************************************************************)
EXTENDS Naturals, Sequences

CONSTANTS
  MaxBytes,   \* config.MaxLogBytes; 0 is no limit
  MarkerLen   \* "--- log truncated (n bytes omitted) ---"

ASSUME LogAssumption == MaxBytes \in Nat /\ MarkerLen \in Nat \ {0}

\* What has been written: the bytes of text, the pieces that are in it, the
\* markers; and whether the loop has stopped.
NoText == [len |-> 0, pieces |-> 0, marks |-> 0, stopped |-> FALSE]

Fits(t, size) == MaxBytes = 0 \/ t.len + size <= MaxBytes

\* Slip: the room is looked for before the piece is counted.
WriteOver(t, size) ==
  IF t.stopped THEN t
  ELSE IF Fits(t, 0) THEN [t EXCEPT !.len = @ + size, !.pieces = @ + 1]
  ELSE [t EXCEPT !.len = @ + MarkerLen, !.marks = @ + 1, !.stopped = TRUE]

Write(t, size) ==
  IF t.stopped THEN t
  ELSE IF Fits(t, size) THEN [t EXCEPT !.len = @ + size, !.pieces = @ + 1]
  ELSE [t EXCEPT !.len = @ + MarkerLen, !.marks = @ + 1, !.stopped = TRUE]

\* A loop over the pieces; an agent that wrote nothing has no block.
Loop(start, sizes) ==
  LET after[i \in 0..Len(sizes)] ==
        IF i = 0 THEN start
        ELSE IF sizes[i] = 0 THEN after[i - 1] ELSE Write(after[i - 1], sizes[i])
  IN  after[Len(sizes)]

\* The lines of the events, then the stderr of the agents. A marker stops its
\* own loop only: a short block may follow it.
RenderExecutionLog(lines, blocks) ==
  Loop([Loop(NoText, lines) EXCEPT !.stopped = FALSE], blocks)
=============================================================================
