---------------------------- MODULE MessageQueue ----------------------------
(***************************************************************************)
(* What the message buffer of a goblinMessenger promises (doku/manual.tex, *)
(* "The Message Queue"): it keeps the most recent log entries, at most     *)
(* QSize of them, from the oldest to the newest.  A log entry has a text,  *)
(* which is a sequence of pieces since it can be continued, and the other  *)
(* attributes of the call that created it.                                 *)
(***************************************************************************)
EXTENDS Naturals, Sequences

CONSTANTS QSize,            \* capacity of the buffer
          Pieces            \* what a call of MsgAppend passes

VARIABLE queue              \* the buffered entries, the oldest first

Entry(p) == [text |-> <<p>>, attr |-> p]

Init == queue = <<>>

\* A new entry replaces the oldest one if the buffer is full.
Append1(p) == queue' = Append(IF Len(queue) < QSize THEN queue ELSE Tail(queue), Entry(p))

\* MSG_APPEND continues the newest entry.
Continue(p) ==
  /\ queue # <<>>
  /\ queue' = [queue EXCEPT ![Len(queue)].text = Append(@, p)]

Sweep == queue' = <<>>

Next == Sweep \/ \E p \in Pieces : Append1(p) \/ Continue(p)

Spec == Init /\ [][Next]_queue
=============================================================================
