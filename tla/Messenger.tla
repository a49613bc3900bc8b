----------------------------- MODULE Messenger -----------------------------
(***************************************************************************)
(* The message buffer of shell_src/messenger.cpp: a linked list of slots   *)
(* that log entries are taken from in turn, and the pass of the browser    *)
(* over it (UploadMessages, tcl/mainMessenger.tk).                         *)
(*                                                                         *)
(* A call of a messenger method is one step since it holds msgLock; only   *)
(* MsgClass, MsgHandle, MsgLevel and MsgModule give the lock back before   *)
(* they read, and are two steps.  The four are alike, so one stands for    *)
(* all.  What a writer passes is the number of its call.                   *)
(***************************************************************************)
EXTENDS Naturals, Sequences

CONSTANTS QSize,            \* number of slots
          MaxPieces,        \* bound on the calls of MsgAppend
          Concurrent,       \* somebody writes while the browser reads
          SweepAnyTime      \* a working thread may call Restart: the test
                            \* automation script does

ASSUME SizeType == QSize \in Nat \ {0, 1}
ASSUME BoundType == MaxPieces \in Nat
ASSUME Switches == {Concurrent, SweepAnyTime} \subseteq BOOLEAN

Slots == 0 .. (QSize - 1)
NoSlot == QSize             \* the index that ends lists
Pieces == 1 .. MaxPieces
Nothing == 0                \* the contents of a slot that was never written

VARIABLES
  qText,                    \* text of a slot, as the sequence of its pieces
  qAttr,                    \* qMsg, qHandle, qLevel, qModule of a slot
  qNext,                    \* its successor
  firstEntry, lastEntry,    \* oldest and newest entry
  firstFree,                \* head of the list of free slots
  currentEntry,             \* the browser's pointer
  count,                    \* calls of MsgAppend so far
  rpc,                      \* what UploadMessages does next
  lineText,                 \* the text it has read
  lines,                    \* the lines it has put on the screen
  written                   \* the buffer was written during this pass

buffer == <<qText, qAttr, qNext, firstEntry, lastEntry, firstFree>>
reader == <<rpc, lineText, lines>>

vars == <<buffer, currentEntry, count, reader, written>>

\* Type invariant: indices are slots or NoSlot, and a slot holds what the calls of
\* MsgAppend have passed.
TypeOK ==
  /\ qText \in [Slots -> Seq(Pieces)]
  /\ qAttr \in [Slots -> Pieces \cup {Nothing}]
  /\ qNext \in [Slots -> Slots \cup {NoSlot}]
  /\ {firstEntry, lastEntry, firstFree, currentEntry} \subseteq Slots \cup {NoSlot}
  /\ count \in 0 .. MaxPieces
  /\ rpc \in {"out", "begin", "text", "check", "attr", "eof", "skip"}
  /\ lineText \in Seq(Pieces)
  /\ lines \in Seq([text : Seq(Pieces), attr : Pieces \cup {Nothing}])
  /\ written \in BOOLEAN

-----------------------------------------------------------------------------
\* The constructor, before it writes its own entries.
Init ==
  /\ qText = [i \in Slots |-> <<>>]
  /\ qAttr = [i \in Slots |-> Nothing]
  /\ qNext = [i \in Slots |-> i + 1]
  /\ firstEntry = NoSlot /\ lastEntry = NoSlot /\ currentEntry = NoSlot
  /\ firstFree = 0
  /\ count = 0
  /\ rpc = "out"
  /\ lineText = <<>>
  /\ lines = <<>>
  /\ written = FALSE

\* A writer gets its turn: the master when it does not read, or another thread.
Write == /\ rpc = "out" \/ Concurrent
         /\ count < MaxPieces
         /\ count' = count + 1
         /\ written' = TRUE
         /\ UNCHANGED reader

\* MSG_APPEND: the newest entry is continued.
MsgContinue ==
  /\ Write
  /\ lastEntry # NoSlot
  /\ qText' = [qText EXCEPT ![lastEntry] = Append(@, count + 1)]
  /\ UNCHANGED <<qAttr, qNext, firstEntry, lastEntry, firstFree, currentEntry>>

\* The slot i becomes the newest entry.
Fill(i) ==
  /\ qNext' = IF lastEntry = NoSlot THEN qNext ELSE [qNext EXCEPT ![lastEntry] = i]
  /\ lastEntry' = i
  /\ qText' = [qText EXCEPT ![i] = <<count + 1>>]
  /\ qAttr' = [qAttr EXCEPT ![i] = count + 1]

\* Any other message, or MSG_APPEND to an empty buffer, takes a free slot.
MsgAppend ==
  /\ Write
  /\ firstFree # NoSlot
  /\ Fill(firstFree)
  /\ firstFree' = qNext[firstFree]
  /\ IF lastEntry = NoSlot
     THEN firstEntry' = firstFree /\ currentEntry' = firstFree
     ELSE UNCHANGED <<firstEntry, currentEntry>>

\* Variant: the oldest entry gives its slot but stays the oldest one.
EvictKeepsFirst ==
  /\ Write
  /\ firstFree = NoSlot
  /\ Fill(firstEntry)
  /\ UNCHANGED <<firstEntry, firstFree, currentEntry>>

\* If there is none, the oldest entry gives its slot, wherever the browser is.
MsgAppendEvict ==
  /\ Write
  /\ firstFree = NoSlot
  /\ Fill(firstEntry)
  /\ firstEntry' = qNext[firstEntry]
  /\ UNCHANGED <<firstFree, currentEntry>>

\* Variant: the slots are not linked anew.
SweepLeavesLinks ==
  /\ rpc = "out" \/ SweepAnyTime
  /\ firstEntry' = NoSlot /\ lastEntry' = NoSlot /\ currentEntry' = NoSlot
  /\ firstFree' = 0
  /\ written' = TRUE
  /\ UNCHANGED <<qText, qAttr, qNext, count, reader>>

\* Restart and LoadBuffer begin with it.
SweepBuffer ==
  /\ rpc = "out" \/ SweepAnyTime
  /\ qNext' = [i \in Slots |-> i + 1]
  /\ firstEntry' = NoSlot /\ lastEntry' = NoSlot /\ currentEntry' = NoSlot
  /\ firstFree' = 0
  /\ written' = TRUE
  /\ UNCHANGED <<qText, qAttr, count, reader>>

-----------------------------------------------------------------------------
(* UploadMessages in the modes "partial" and "dynamic".                    *)

EndOfBuffer == currentEntry \in {NoSlot, lastEntry}

\* Variant: the browser goes on where it was.
ResetKeepsPlace ==
  /\ rpc = "out"
  /\ lines' = <<>>
  /\ written' = FALSE
  /\ rpc' = "begin"
  /\ UNCHANGED <<buffer, currentEntry, count, lineText>>

MsgReset ==
  /\ rpc = "out"
  /\ currentEntry' = firstEntry
  /\ lines' = <<>>
  /\ written' = FALSE
  /\ rpc' = "begin"
  /\ UNCHANGED <<buffer, count, lineText>>

\* Nothing is uploaded from an empty buffer, and from one with one entry.
Begin ==
  /\ rpc = "begin"
  /\ rpc' = IF EndOfBuffer THEN "out" ELSE "text"
  /\ UNCHANGED <<buffer, currentEntry, count, lineText, lines, written>>

\* A method rejects the call if the buffer was swept, which ends the pass.
MsgText ==
  /\ rpc = "text"
  /\ \/ /\ currentEntry = NoSlot
        /\ rpc' = "out"
        /\ UNCHANGED lineText
     \/ /\ currentEntry # NoSlot
        /\ lineText' = qText[currentEntry]
        /\ rpc' = "check"
  /\ UNCHANGED <<buffer, currentEntry, count, lines, written>>

CheckAttr ==
  /\ rpc = "check"
  /\ rpc' = IF currentEntry = NoSlot THEN "out" ELSE "attr"
  /\ UNCHANGED <<buffer, currentEntry, count, lineText, lines, written>>

\* The arrays are read without the lock.  If the buffer was swept since the
\* check, the read is past their end and its value is any.
ReadAttr ==
  /\ rpc = "attr"
  /\ \E a \in IF currentEntry = NoSlot THEN Pieces \cup {Nothing}
                                       ELSE {qAttr[currentEntry]} :
       lines' = Append(lines, [text |-> lineText, attr |-> a])
  /\ rpc' = "eof"
  /\ UNCHANGED <<buffer, currentEntry, count, lineText, written>>

\* The loop makes fewer than 2 * QSize turns.
MsgEndOfBuffer ==
  /\ rpc = "eof"
  /\ rpc' = IF EndOfBuffer THEN "out" ELSE "skip"
  /\ UNCHANGED <<buffer, currentEntry, count, lineText, lines, written>>

MsgSkip ==
  /\ rpc = "skip"
  /\ LET next == IF currentEntry = NoSlot THEN NoSlot ELSE qNext[currentEntry]
     IN  \/ /\ next = NoSlot
            /\ rpc' = "out"
            /\ UNCHANGED currentEntry
         \/ /\ next # NoSlot
            /\ currentEntry' = next
            /\ rpc' = IF Len(lines) < 2 * QSize - 1 THEN "text" ELSE "out"
  /\ UNCHANGED <<buffer, count, lineText, lines, written>>

Writer == MsgContinue \/ MsgAppend \/ MsgAppendEvict \/ SweepBuffer

UploadMessages == \/ MsgReset \/ Begin \/ MsgText \/ CheckAttr \/ ReadAttr
                  \/ MsgEndOfBuffer \/ MsgSkip

Next == Writer \/ UploadMessages

Spec == Init /\ [][Next]_vars

-----------------------------------------------------------------------------
\* The number of entries, and the slot of the k-th one: slots are taken by
\* increasing index, and again from the lowest.
Used == IF firstEntry = NoSlot THEN 0 ELSE firstFree
SlotOf(k) == IF firstEntry + k - 1 < QSize THEN firstEntry + k - 1
                                           ELSE firstEntry + k - 1 - QSize

\* The links run through the entries in the order of their age, and from there
\* to the free slots.
ListLinked ==
  /\ firstEntry = NoSlot <=> lastEntry = NoSlot
  /\ Used > 0 => lastEntry = SlotOf(Used)
  /\ \A k \in 1 .. (Used - 1) : qNext[SlotOf(k)] = SlotOf(k + 1)
  /\ \A i \in firstFree .. (QSize - 1) : qNext[i] = i + 1

Entries == [k \in 1 .. Used |->
             [text |-> qText[SlotOf(k)], attr |-> qAttr[SlotOf(k)]]]

\* The buffer implements the queue of the manual, whenever it is read.
Queue == INSTANCE MessageQueue WITH queue <- Entries

ImplementsQueue == Queue!Spec

\* A pass that nobody disturbs shows the whole buffer in order; from a buffer
\* with one entry it shows nothing.
UndisturbedPass ==
  [][rpc \notin {"out", "begin"} /\ rpc' = "out" /\ ~ written => lines = Entries]_vars

\* doku/manual.tex:10608: "Internally, the messenger is thread safe", and
\* 10696: text, class and the others are those "of the currently referenced
\* message".  A line on the screen is one message.
LinesAreMessages == \A k \in 1 .. Len(lines) : lines[k].attr = lines[k].text[1]

\* doku/manual.tex:10691: "If no more unread log entries exist, the flag MsgEOF()
\* becomes true".  When a pass ends at the end of the buffer, the newest entry
\* has been shown.
EofMeansRead ==
  [][rpc = "eof" /\ rpc' = "out" /\ lastEntry # NoSlot =>
       lines[Len(lines)].attr = qAttr[lastEntry]]_vars
=============================================================================
