-------------------------- MODULE Messenger_proofs --------------------------
(***************************************************************************)
(* Proofs about the message buffer for any number of slots and messages:   *)
(* the links run through the entries in the order of their age, and the    *)
(* buffer is the queue of the latest messages.                             *)
(*                                                                         *)
(* ListLinked does not say which slots are in use.  It becomes inductive   *)
(* with the rule that slots are taken by increasing index: as long as one  *)
(* is free, the oldest entry is in slot 0 and those in use end before      *)
(* firstFree; only a full buffer wraps around.                             *)
(***************************************************************************)
EXTENDS Messenger, SequenceTheorems, TLAPS

\* The slots are taken by increasing index.
SlotsInOrder ==
  /\ firstEntry = NoSlot => firstFree = 0
  /\ firstEntry # NoSlot => firstFree > 0
  /\ firstEntry \notin {0, NoSlot} => firstFree = NoSlot

BufferType ==
  /\ qText \in [Slots -> Seq(Pieces)]
  /\ qAttr \in [Slots -> Pieces \cup {Nothing}]
  /\ qNext \in [Slots -> Slots \cup {NoSlot}]
  /\ {firstEntry, lastEntry, firstFree, currentEntry} \subseteq Slots \cup {NoSlot}
  /\ count \in 0 .. MaxPieces

Inv == BufferType /\ SlotsInOrder /\ ListLinked

\* The slots of a buffer whose oldest entry is in slot f are taken in a circle.
Slot(f, k) == IF f + k - 1 < QSize THEN f + k - 1 ELSE f + k - 1 - QSize

LEMMA InitInv == Init => Inv
  BY SizeType, BoundType DEF Init, Inv, BufferType, SlotsInOrder, ListLinked, Used, SlotOf,
     Slots, NoSlot, Pieces, Nothing

\* A free slot is taken behind the entries.
LEMMA AppendInv ==
  ASSUME Inv, MsgAppend
  PROVE  Inv'
<1> USE SizeType, BoundType DEF Slots, NoSlot, Pieces, Nothing
<1>1. firstFree \in Slots
  BY DEF Inv, BufferType, MsgAppend
<1>2. firstFree' = firstFree + 1
  BY <1>1 DEF Inv, ListLinked, MsgAppend
<1>3. firstEntry' = 0
  BY <1>1 DEF Inv, BufferType, SlotsInOrder, ListLinked, MsgAppend
<1>4. lastEntry' = firstFree
  BY DEF MsgAppend, Fill
<1>5. BufferType'
  <2>1. <<count + 1>> \in Seq(Pieces)
    BY DEF Inv, BufferType, MsgAppend, Write
  <2>2. qText' \in [Slots -> Seq(Pieces)]
    BY <1>1, <2>1 DEF Inv, BufferType, MsgAppend, Fill
  <2>3. count' \in 0 .. MaxPieces
    BY DEF Inv, BufferType, MsgAppend, Write
  <2>4. qAttr' \in [Slots -> Pieces \cup {Nothing}]
    BY <1>1 DEF Inv, BufferType, MsgAppend, Fill, Write
  <2>5. qNext' \in [Slots -> Slots \cup {NoSlot}]
    BY <1>1 DEF Inv, BufferType, MsgAppend, Fill
  <2>6. {firstEntry, lastEntry, firstFree, currentEntry}' \subseteq Slots \cup {NoSlot}
    BY <1>1, <1>2, <1>3, <1>4 DEF Inv, BufferType, MsgAppend
  <2> QED
    BY <2>2, <2>3, <2>4, <2>5, <2>6 DEF BufferType
<1>6. SlotsInOrder'
  BY <1>1, <1>2, <1>3 DEF SlotsInOrder
<1>7. Used' = firstFree + 1
  BY <1>1, <1>2, <1>3 DEF Used
<1>8. \A k \in 1 .. Used' : SlotOf(k)' = k - 1
  BY <1>1, <1>3, <1>7 DEF SlotOf
<1>9. ASSUME NEW k \in 1 .. Used' - 1
      PROVE  qNext'[SlotOf(k)'] = SlotOf(k + 1)'
  <2>1. SlotOf(k)' = k - 1 /\ SlotOf(k + 1)' = k
    BY <1>1, <1>7, <1>8
  <2>2. CASE lastEntry = NoSlot
    BY <1>1, <1>7, <2>2 DEF Inv, BufferType, SlotsInOrder, ListLinked
  <2>3. CASE lastEntry # NoSlot
    <3>1. firstEntry = 0 /\ Used = firstFree /\ lastEntry = firstFree - 1
      BY <1>1, <2>3 DEF Inv, BufferType, SlotsInOrder, ListLinked, Used, SlotOf
    <3>2. qNext' = [qNext EXCEPT ![lastEntry] = firstFree]
      BY <2>3 DEF MsgAppend, Fill
    <3>3. CASE k = firstFree
      BY <1>1, <2>1, <3>1, <3>2, <3>3 DEF Inv, BufferType
    <3>4. CASE k # firstFree
      <4>1. k \in 1 .. Used - 1
        BY <1>1, <1>7, <3>1, <3>4
      <4>2. SlotOf(k) = k - 1 /\ SlotOf(k + 1) = k
        BY <1>1, <3>1, <4>1 DEF SlotOf
      <4>3. qNext[k - 1] = k
        BY <4>1, <4>2 DEF Inv, ListLinked
      <4> QED
        BY <1>1, <2>1, <3>1, <3>2, <4>1, <4>3 DEF Inv, BufferType
    <3> QED
      BY <3>3, <3>4
  <2> QED
    BY <2>2, <2>3
<1>10. \A i \in firstFree' .. (QSize - 1) : qNext'[i] = i + 1
  <2> SUFFICES ASSUME NEW i \in firstFree + 1 .. (QSize - 1)
               PROVE  qNext'[i] = i + 1
    BY <1>2
  <2>1. lastEntry = NoSlot \/ lastEntry < firstFree
    BY <1>1 DEF Inv, BufferType, SlotsInOrder, ListLinked, Used, SlotOf
  <2>2. qNext'[i] = qNext[i]
    BY <1>1, <2>1 DEF Inv, BufferType, MsgAppend, Fill
  <2> QED
    BY <1>1, <2>2 DEF Inv, ListLinked
<1>11. ListLinked'
  BY <1>1, <1>3, <1>4, <1>7, <1>8, <1>9, <1>10 DEF ListLinked
<1> QED
  BY <1>5, <1>6, <1>11 DEF Inv

\* A full buffer is a circle, from which the oldest entry is taken.
LEMMA FullBuffer ==
  ASSUME Inv, firstFree = NoSlot
  PROVE  /\ firstEntry \in Slots /\ Used = QSize
         /\ lastEntry = Slot(firstEntry, QSize)
         /\ \A k \in 1 .. QSize : SlotOf(k) = Slot(firstEntry, k)
         /\ \A k \in 1 .. QSize - 1 : qNext[Slot(firstEntry, k)] = Slot(firstEntry, k + 1)
<1> USE SizeType DEF Slots, NoSlot
<1>1. firstEntry \in Slots /\ Used = QSize
  BY DEF Inv, BufferType, SlotsInOrder, Used
<1>2. \A k \in 1 .. QSize : SlotOf(k) = Slot(firstEntry, k)
  BY DEF SlotOf, Slot
<1> QED
  BY <1>1, <1>2 DEF Inv, ListLinked

LEMMA EvictInv ==
  ASSUME Inv, MsgAppendEvict
  PROVE  Inv'
<1> USE SizeType, BoundType DEF Slots, NoSlot, Pieces, Nothing
<1>1. /\ firstFree = NoSlot /\ firstFree' = NoSlot
      /\ firstEntry \in Slots /\ lastEntry \in Slots /\ lastEntry # firstEntry
      /\ lastEntry = Slot(firstEntry, QSize)
  <2>1. firstFree = NoSlot /\ firstFree' = NoSlot
    BY DEF MsgAppendEvict
  <2>2. firstEntry \in Slots /\ lastEntry = Slot(firstEntry, QSize)
    BY <2>1, FullBuffer
  <2> QED
    BY <2>1, <2>2 DEF Slot
<1>2. firstEntry' = Slot(firstEntry, 2)
  <2>1. Slot(firstEntry, 1) = firstEntry
    BY <1>1 DEF Slot
  <2> QED
    BY <1>1, <2>1, FullBuffer DEF MsgAppendEvict
<1>3. firstEntry' \in Slots /\ lastEntry' = firstEntry
  BY <1>1, <1>2 DEF MsgAppendEvict, Fill, Slot
<1>4. qNext' = [qNext EXCEPT ![lastEntry] = firstEntry]
  BY <1>1 DEF MsgAppendEvict, Fill
<1>5. BufferType'
  <2>1. <<count + 1>> \in Seq(Pieces)
    BY DEF Inv, BufferType, MsgAppendEvict, Write
  <2>2. qText' \in [Slots -> Seq(Pieces)]
    BY <1>1, <2>1 DEF Inv, BufferType, MsgAppendEvict, Fill
  <2>3. count' \in 0 .. MaxPieces
    BY DEF Inv, BufferType, MsgAppendEvict, Write
  <2>4. qAttr' \in [Slots -> Pieces \cup {Nothing}]
    BY <1>1 DEF Inv, BufferType, MsgAppendEvict, Fill, Write
  <2>5. qNext' \in [Slots -> Slots \cup {NoSlot}]
    BY <1>1, <1>4 DEF Inv, BufferType
  <2>6. {firstEntry, lastEntry, firstFree, currentEntry}' \subseteq Slots \cup {NoSlot}
    BY <1>1, <1>3 DEF Inv, BufferType, MsgAppendEvict
  <2> QED
    BY <2>2, <2>3, <2>4, <2>5, <2>6 DEF BufferType
<1>6. SlotsInOrder'
  BY <1>1, <1>3 DEF SlotsInOrder
<1>7. Used' = QSize
  BY <1>1, <1>3 DEF Used
<1>8. \A k \in 1 .. QSize - 1 : SlotOf(k)' = Slot(firstEntry, k + 1)
  BY <1>1, <1>2 DEF SlotOf, Slot
<1>9. SlotOf(QSize)' = firstEntry
  BY <1>1, <1>2 DEF SlotOf, Slot
<1>10. ASSUME NEW k \in 1 .. QSize - 1
       PROVE  qNext'[SlotOf(k)'] = SlotOf(k + 1)'
  <2>1. SlotOf(k)' = Slot(firstEntry, k + 1) /\ Slot(firstEntry, k + 1) \in Slots
    BY <1>1, <1>8 DEF Slot
  <2>2. CASE k = QSize - 1
    BY <1>1, <1>4, <1>9, <2>1, <2>2 DEF Inv, BufferType
  <2>3. CASE k # QSize - 1
    <3>1. k + 1 \in 1 .. QSize - 1
      BY <2>3
    <3>2. SlotOf(k + 1)' = Slot(firstEntry, k + 2)
      BY <1>8, <3>1
    <3>3. qNext[Slot(firstEntry, k + 1)] = Slot(firstEntry, k + 2)
      BY <1>1, <3>1, FullBuffer
    <3>4. Slot(firstEntry, k + 1) # lastEntry
      BY <1>1, <3>1 DEF Slot
    <3> QED
      BY <1>4, <2>1, <3>2, <3>3, <3>4 DEF Inv, BufferType
  <2> QED
    BY <2>2, <2>3
<1>11. ListLinked'
  BY <1>1, <1>3, <1>7, <1>9, <1>10 DEF ListLinked
<1> QED
  BY <1>5, <1>6, <1>11 DEF Inv

LEMMA ContinueInv ==
  ASSUME Inv, MsgContinue
  PROVE  Inv'
<1>1. count + 1 \in Pieces /\ count' \in 0 .. MaxPieces
  BY BoundType DEF Inv, BufferType, MsgContinue, Write, Pieces
<1>2. qText' \in [Slots -> Seq(Pieces)]
  <2> DEFINE text == Append(qText[lastEntry], count + 1)
  <2>1. lastEntry \in Slots
    BY DEF Inv, BufferType, MsgContinue
  <2>2. text \in Seq(Pieces)
    BY <1>1, <2>1 DEF Inv, BufferType
  <2>3. qText' = [qText EXCEPT ![lastEntry] = text]
    BY DEF MsgContinue
  <2> QED
    BY <2>2, <2>3 DEF Inv, BufferType
<1> QED
  BY <1>1, <1>2 DEF Inv, BufferType, SlotsInOrder, ListLinked, Used, SlotOf, MsgContinue

LEMMA SweepInv ==
  ASSUME Inv, SweepBuffer
  PROVE  Inv'
<1> USE SizeType DEF Slots, NoSlot
<1>1. BufferType'
  BY DEF Inv, BufferType, SweepBuffer
<1> QED
  BY <1>1 DEF Inv, SlotsInOrder, ListLinked, Used, SweepBuffer

\* The browser moves its own pointer only, and keeps it within the buffer.
LEMMA ReaderInv ==
  ASSUME Inv, UploadMessages
  PROVE  Inv' /\ UNCHANGED buffer
<1>1. UNCHANGED <<buffer, count>>
  BY DEF UploadMessages, MsgReset, Begin, MsgText, CheckAttr, ReadAttr, MsgEndOfBuffer, MsgSkip,
     buffer
<1>2. currentEntry' \in Slots \cup {NoSlot}
  <2>1. CASE MsgReset
    BY <2>1 DEF MsgReset, Inv, BufferType
  <2>2. CASE MsgSkip
    <3>1. CASE currentEntry = NoSlot
      BY <2>2, <3>1 DEF MsgSkip
    <3>2. CASE currentEntry # NoSlot
      <4>1. currentEntry \in Slots /\ qNext[currentEntry] \in Slots \cup {NoSlot}
        BY <3>2 DEF Inv, BufferType
      <4> QED
        BY <2>2, <3>2, <4>1 DEF MsgSkip
    <3> QED
      BY <3>1, <3>2
  <2>3. CASE Begin \/ MsgText \/ CheckAttr \/ ReadAttr \/ MsgEndOfBuffer
    BY <2>3 DEF Begin, MsgText, CheckAttr, ReadAttr, MsgEndOfBuffer, Inv, BufferType
  <2> QED
    BY <2>1, <2>2, <2>3 DEF UploadMessages
<1> QED
  BY <1>1, <1>2 DEF Inv, BufferType, SlotsInOrder, ListLinked, Used, SlotOf, buffer

LEMMA NextInv == Inv /\ [Next]_vars => Inv'
<1> SUFFICES ASSUME Inv, [Next]_vars PROVE Inv'
  OBVIOUS
<1>1. CASE Writer
  BY <1>1, AppendInv, EvictInv, ContinueInv, SweepInv DEF Writer
<1>2. CASE UploadMessages
  BY <1>2, ReaderInv
<1>3. CASE UNCHANGED vars
  BY <1>3 DEF vars, buffer, Inv, BufferType, SlotsInOrder, ListLinked, Used, SlotOf
<1> QED
  BY <1>1, <1>2, <1>3 DEF Next

\* Whatever writers, sweeping threads and the browser do, and for every size
\* of the buffer, the links that MsgSkip follows run through the entries in the
\* order of their age (MsgAppend, SweepBuffer).
THEOREM ListStaysLinked == Spec => []ListLinked
<1>1. Spec => []Inv
  BY InitInv, NextInv, PTL DEF Spec
<1>2. Inv => ListLinked
  BY DEF Inv
<1> QED
  BY <1>1, <1>2, PTL

-----------------------------------------------------------------------------
(* The refinement: every step of the buffer maps to a step of the queue or *)
(* to a stutter, with the entries in the order of their age as the queue.  *)

EntryType == [text : Seq(Pieces), attr : Pieces \cup {Nothing}]

\* What the slots hold.
Table == [i \in Slots |-> [text |-> qText[i], attr |-> qAttr[i]]]

EntriesInSlots ==
  /\ Table \in [Slots -> EntryType]
  /\ Used \in 0 .. QSize
  /\ Entries \in Seq(EntryType)
  /\ Len(Entries) = Used
  /\ \A k \in 1 .. Used : /\ Slot(firstEntry, k) \in Slots
                          /\ Entries[k] = Table[Slot(firstEntry, k)]

LEMMA EntriesType == Inv => EntriesInSlots
<1> SUFFICES ASSUME Inv PROVE EntriesInSlots
  OBVIOUS
<1> USE SizeType DEF Slots, NoSlot
<1>1. Used \in 0 .. QSize
  BY DEF Inv, BufferType, Used
<1>2. ASSUME NEW k \in 1 .. Used
      PROVE  SlotOf(k) = Slot(firstEntry, k) /\ Slot(firstEntry, k) \in Slots
  <2>1. firstEntry \in Slots /\ (firstEntry = 0 \/ firstFree = QSize) /\ Used = firstFree
    BY DEF Inv, BufferType, SlotsInOrder, Used
  <2>2. k \in 1 .. QSize
    BY <1>1
  <2>3. SlotOf(k) = Slot(firstEntry, k)
    BY DEF SlotOf, Slot
  <2>4. CASE firstEntry + k - 1 < QSize
    BY <2>1, <2>2, <2>3, <2>4 DEF Slot
  <2>5. CASE ~ (firstEntry + k - 1 < QSize)
    <3>1. Slot(firstEntry, k) = firstEntry + k - 1 - QSize
      BY <2>5 DEF Slot
    <3> QED
      BY <2>1, <2>2, <2>3, <2>5, <3>1
  <2> QED
    BY <2>4, <2>5
<1>3. Table \in [Slots -> EntryType]
  BY DEF Inv, BufferType, Table, EntryType
<1>4. Entries = [k \in 1 .. Used |-> Table[Slot(firstEntry, k)]]
  BY <1>2 DEF Entries, Table
<1>5. Entries \in [1 .. Used -> EntryType]
  BY <1>2, <1>3, <1>4
<1>6. Entries \in Seq(EntryType) /\ Len(Entries) = Used
  BY <1>1, <1>5
<1> QED
  BY <1>1, <1>2, <1>3, <1>4, <1>6 DEF EntriesInSlots

LEMMA EntriesTypeNext == Inv' => EntriesInSlots'
  BY EntriesType, PTL

\* A new entry holds what the call has passed.
LEMMA FilledEntry ==
  ASSUME Inv, NEW i \in Slots, Fill(i), count < MaxPieces
  PROVE  /\ Table' = [Table EXCEPT ![i] = Queue!Entry(count + 1)]
         /\ Queue!Entry(count + 1) \in EntryType
         /\ count + 1 \in Pieces
<1>1. count + 1 \in Pieces
  BY BoundType DEF Inv, BufferType, Pieces
<1>2. Queue!Entry(count + 1) \in EntryType
  BY <1>1 DEF Queue!Entry, EntryType
<1>3. \A j \in Slots : Table'[j] = [Table EXCEPT ![i] = Queue!Entry(count + 1)][j]
  BY DEF Inv, BufferType, Fill, Table, Queue!Entry
<1>4. DOMAIN Table' = Slots /\ DOMAIN Table = Slots
  BY DEF Table
<1>5. Table' = [j \in Slots |-> Table'[j]]
  BY DEF Table
<1> QED
  BY <1>1, <1>2, <1>3, <1>4, <1>5

LEMMA AppendStep ==
  ASSUME Inv, MsgAppend, Inv'
  PROVE  Queue!Next
<1> USE SizeType, BoundType DEF Slots, NoSlot
<1> DEFINE e == Queue!Entry(count + 1)
<1>1. EntriesInSlots /\ EntriesInSlots'
  BY EntriesType, EntriesTypeNext
<1>2. firstFree \in Slots
  BY DEF Inv, BufferType, MsgAppend
<1>3. firstFree' = firstFree + 1
  BY <1>2 DEF Inv, ListLinked, MsgAppend
<1>4. firstEntry' = 0 /\ firstEntry \in {0, NoSlot}
  BY <1>2 DEF Inv, BufferType, SlotsInOrder, ListLinked, MsgAppend
<1>5. Used = firstFree /\ Used' = firstFree + 1 /\ (Used > 0 => firstEntry = 0)
  BY <1>2, <1>3, <1>4 DEF Inv, SlotsInOrder, Used
<1>6. Table' = [Table EXCEPT ![firstFree] = e] /\ e \in EntryType /\ count + 1 \in Pieces
  BY <1>2, FilledEntry DEF MsgAppend, Write
<1>7. Entries' \in Seq(EntryType) /\ Len(Entries') = Used + 1
  <2>1. Entries' \in Seq(EntryType)
    BY <1>1 DEF EntriesInSlots, EntryType, Pieces, Nothing
  <2> QED
    BY <1>1, <1>5, <2>1 DEF EntriesInSlots
<1>8. Append(Entries, e) \in Seq(EntryType) /\ Len(Append(Entries, e)) = Used + 1
  BY <1>1, <1>6 DEF EntriesInSlots
<1>9. ASSUME NEW k \in 1 .. Used + 1
      PROVE  Entries'[k] = Append(Entries, e)[k]
  <2>1. Entries'[k] = Table'[k - 1]
    BY <1>1, <1>2, <1>4, <1>5 DEF EntriesInSlots, Slot
  <2>2. CASE k = Used + 1
    <3>1. Append(Entries, e)[k] = e
      BY <1>1, <1>6, <2>2 DEF EntriesInSlots
    <3> QED
      BY <1>1, <1>2, <1>5, <1>6, <2>1, <2>2, <3>1 DEF EntriesInSlots
  <2>3. CASE k # Used + 1
    <3>1. k \in 1 .. Used
      BY <1>1, <2>3 DEF EntriesInSlots
    <3>2. Append(Entries, e)[k] = Entries[k]
      BY <1>1, <1>6, <3>1 DEF EntriesInSlots
    <3>3. Entries[k] = Table[k - 1] /\ k - 1 \in Slots /\ k - 1 # firstFree
      BY <1>1, <1>2, <1>5, <3>1 DEF EntriesInSlots, Slot
    <3> QED
      BY <1>1, <1>6, <2>1, <3>2, <3>3 DEF EntriesInSlots
  <2> QED
    BY <2>2, <2>3
<1>10. Entries' = Append(Entries, e)
  BY <1>1, <1>7, <1>8, <1>9, SeqEqual DEF EntriesInSlots
<1>11. Len(Entries) < QSize
  BY <1>1, <1>2, <1>5 DEF EntriesInSlots
<1> QED
  BY <1>6, <1>10, <1>11 DEF Queue!Next, Queue!Append1

LEMMA EvictStep ==
  ASSUME Inv, MsgAppendEvict, Inv'
  PROVE  Queue!Next
<1> USE SizeType, BoundType DEF Slots, NoSlot
<1> DEFINE e == Queue!Entry(count + 1)
           new == Append(Tail(Entries), e)
<1>1. EntriesInSlots /\ EntriesInSlots'
  BY EntriesType, EntriesTypeNext
<1>2. firstFree = NoSlot /\ firstFree' = NoSlot
  BY DEF MsgAppendEvict
<1>3. firstEntry \in Slots /\ Used = QSize
  BY <1>2, FullBuffer
<1>4. firstEntry' = Slot(firstEntry, 2)
  <2>1. Slot(firstEntry, 1) = firstEntry
    BY <1>3 DEF Slot
  <2> QED
    BY <1>2, <1>3, <2>1, FullBuffer DEF MsgAppendEvict
<1>5. firstEntry' \in Slots /\ Used' = QSize
  BY <1>2, <1>3, <1>4 DEF Used, Slot
<1>6. Table' = [Table EXCEPT ![firstEntry] = e] /\ e \in EntryType /\ count + 1 \in Pieces
  BY <1>3, FilledEntry DEF MsgAppendEvict, Write
<1>7. Entries' \in Seq(EntryType) /\ Len(Entries') = QSize
  <2>1. Entries' \in Seq(EntryType)
    BY <1>1 DEF EntriesInSlots, EntryType, Pieces, Nothing
  <2> QED
    BY <1>1, <1>5, <2>1 DEF EntriesInSlots
<1>8. /\ Tail(Entries) \in Seq(EntryType) /\ Len(Tail(Entries)) = QSize - 1
      /\ \A k \in 1 .. QSize - 1 : Tail(Entries)[k] = Entries[k + 1]
  BY <1>1, <1>3 DEF EntriesInSlots
<1>9. new \in Seq(EntryType) /\ Len(new) = QSize
  BY <1>6, <1>8
<1>10. ASSUME NEW k \in 1 .. QSize
       PROVE  Entries'[k] = new[k]
  <2>1. Entries'[k] = Table'[Slot(firstEntry', k)]
    BY <1>1, <1>5 DEF EntriesInSlots
  <2>2. CASE k = QSize
    <3>1. Slot(firstEntry', k) = firstEntry
      BY <1>3, <1>4, <2>2 DEF Slot
    <3>2. new[k] = e
      BY <1>6, <1>8, <2>2
    <3> QED
      BY <1>1, <1>3, <1>6, <2>1, <3>1, <3>2 DEF EntriesInSlots
  <2>3. CASE k # QSize
    <3>1. k \in 1 .. QSize - 1 /\ k + 1 \in 1 .. Used
      BY <1>3, <2>3
    <3>2. new[k] = Entries[k + 1]
      BY <1>6, <1>8, <3>1
    <3>3. Slot(firstEntry', k) = Slot(firstEntry, k + 1) /\ Slot(firstEntry, k + 1) # firstEntry
      BY <1>3, <1>4, <3>1 DEF Slot
    <3>4. Slot(firstEntry, k + 1) \in Slots /\ Entries[k + 1] = Table[Slot(firstEntry, k + 1)]
      BY <1>1, <3>1 DEF EntriesInSlots
    <3> QED
      BY <1>1, <1>6, <2>1, <3>2, <3>3, <3>4 DEF EntriesInSlots
  <2> QED
    BY <2>2, <2>3
<1>11. Entries' = new
  BY <1>7, <1>9, <1>10, SeqEqual
<1>12. ~ (Len(Entries) < QSize)
  BY <1>1, <1>3 DEF EntriesInSlots
<1> QED
  BY <1>6, <1>11, <1>12 DEF Queue!Next, Queue!Append1

LEMMA ContinuedEntry ==
  ASSUME NEW t, NEW a, NEW p
  PROVE  [[text |-> t, attr |-> a] EXCEPT !.text = Append(@, p)]
           = [text |-> Append(t, p), attr |-> a]
  OBVIOUS

LEMMA ContinueStep ==
  ASSUME Inv, MsgContinue, Inv'
  PROVE  Queue!Next
<1> USE SizeType, BoundType DEF Slots, NoSlot
<1> DEFINE new == [Entries EXCEPT ![Len(Entries)].text = Append(@, count + 1)]
           text == Append(qText[lastEntry], count + 1)
<1>1. EntriesInSlots /\ EntriesInSlots'
  BY EntriesType, EntriesTypeNext
<1>2. count + 1 \in Pieces
  BY DEF Inv, BufferType, MsgContinue, Write, Pieces
<1>3. firstEntry' = firstEntry /\ Used' = Used
  BY DEF MsgContinue, Used
<1>4. lastEntry \in Slots /\ firstEntry \in Slots /\ Used \in 1 .. QSize
      /\ lastEntry = Slot(firstEntry, Used)
  <2>1. lastEntry \in Slots /\ firstEntry \in Slots
    BY DEF Inv, BufferType, ListLinked, MsgContinue
  <2>2. Used = firstFree /\ Used \in 1 .. QSize
    BY <2>1 DEF Inv, BufferType, SlotsInOrder, Used
  <2> QED
    BY <2>1, <2>2 DEF Inv, ListLinked, SlotOf, Slot
<1>5. Table' = [Table EXCEPT ![lastEntry] = [text |-> text, attr |-> qAttr[lastEntry]]]
  <2>1. qText' = [qText EXCEPT ![lastEntry] = text] /\ qAttr' = qAttr
    BY DEF MsgContinue
  <2> QED
    BY <1>4, <2>1 DEF Inv, BufferType, Table
<1>6. Entries' \in Seq(EntryType) /\ Len(Entries') = Used
  <2>1. Entries' \in Seq(EntryType)
    BY <1>1 DEF EntriesInSlots, EntryType, Pieces, Nothing
  <2> QED
    BY <1>1, <1>3, <2>1 DEF EntriesInSlots
<1>7. Entries[Used] = [text |-> qText[lastEntry], attr |-> qAttr[lastEntry]]
  <2>1. Entries[Used] = Table[lastEntry]
    BY <1>1, <1>4 DEF EntriesInSlots
  <2> QED
    BY <1>4, <2>1 DEF Table
<1>8. [Entries[Used] EXCEPT !.text = Append(@, count + 1)]
        = [text |-> text, attr |-> qAttr[lastEntry]]
  BY <1>7, ContinuedEntry
<1>9. new = [Entries EXCEPT ![Used] = [text |-> text, attr |-> qAttr[lastEntry]]]
  <2>1. Len(Entries) = Used
    BY <1>1 DEF EntriesInSlots
  <2>2. new = [Entries EXCEPT ![Used] = [Entries[Used] EXCEPT !.text = Append(@, count + 1)]]
    BY <2>1
  <2> QED
    BY <1>8, <2>2
<1>10. [text |-> text, attr |-> qAttr[lastEntry]] \in EntryType
  <2>1. text \in Seq(Pieces)
    BY <1>2, <1>4 DEF Inv, BufferType
  <2> QED
    BY <1>4, <2>1 DEF Inv, BufferType, EntryType
<1>11. new \in Seq(EntryType) /\ Len(new) = Used
  <2>1. Entries \in Seq(EntryType) /\ Len(Entries) = Used /\ Used \in 1 .. Len(Entries)
    BY <1>1, <1>4 DEF EntriesInSlots
  <2> HIDE DEF new, text
  <2> QED
    BY <1>9, <1>10, <2>1, ExceptSeq
<1>12. ASSUME NEW k \in 1 .. Used
       PROVE  Entries'[k] = new[k]
  <2>1. Entries'[k] = Table'[Slot(firstEntry, k)] /\ Slot(firstEntry, k) \in Slots
    BY <1>1, <1>3 DEF EntriesInSlots
  <2>2. DOMAIN Table = Slots /\ DOMAIN Entries = 1 .. Used /\ k \in DOMAIN Entries
    BY <1>1 DEF EntriesInSlots
  <2>3. CASE k = Used
    <3>1. Table'[lastEntry] = [text |-> text, attr |-> qAttr[lastEntry]]
      BY <1>4, <1>5, <2>2
    <3>2. new[k] = [text |-> text, attr |-> qAttr[lastEntry]]
      BY <1>9, <2>2, <2>3
    <3> QED
      BY <1>4, <2>1, <2>3, <3>1, <3>2
  <2>4. CASE k # Used
    <3>1. Slot(firstEntry, k) # lastEntry
      BY <1>4, <2>4 DEF Slot
    <3>2. Entries[k] = Table[Slot(firstEntry, k)]
      BY <1>1 DEF EntriesInSlots
    <3>3. Table'[Slot(firstEntry, k)] = Table[Slot(firstEntry, k)]
      BY <1>5, <2>1, <2>2, <3>1
    <3>4. new[k] = Entries[k]
      BY <1>9, <2>2, <2>4
    <3> QED
      BY <2>1, <3>2, <3>3, <3>4
  <2> QED
    BY <2>3, <2>4
<1>13. Entries' = new
  BY <1>6, <1>11, <1>12, SeqEqual
<1>14. Entries # <<>>
  BY <1>1, <1>4 DEF EntriesInSlots
<1> QED
  BY <1>2, <1>13, <1>14 DEF Queue!Next, Queue!Continue

\* A buffer without entries is the empty queue.
LEMMA EmptyBuffer == Inv /\ firstEntry = NoSlot => Entries = <<>>
<1> SUFFICES ASSUME Inv, firstEntry = NoSlot PROVE Entries = <<>>
  OBVIOUS
<1>1. Entries \in Seq(EntryType) /\ Len(Entries) = 0
  BY EntriesType DEF EntriesInSlots, Used
<1> QED
  BY <1>1, EmptySeq

LEMMA EmptyBufferNext == Inv' /\ firstEntry' = NoSlot => Entries' = <<>>
<1>1. (Inv /\ firstEntry = NoSlot => Entries = <<>>)'
  BY EmptyBuffer, PTL
<1> QED
  BY <1>1 DEF NoSlot

LEMMA StepRefines ==
  ASSUME Inv, [Next]_vars, Inv'
  PROVE  [Queue!Next]_Entries
<1>1. CASE SweepBuffer
  BY <1>1, EmptyBufferNext DEF SweepBuffer, Queue!Next, Queue!Sweep
<1>2. CASE MsgContinue \/ MsgAppend \/ MsgAppendEvict
  BY <1>2, AppendStep, EvictStep, ContinueStep
<1>3. CASE UploadMessages \/ UNCHANGED vars
  <2>1. UNCHANGED buffer
    BY <1>3, ReaderInv DEF vars
  <2>2. Entries' = Entries
    BY <2>1 DEF buffer, Entries, Used, SlotOf
  <2> QED
    BY <2>2
<1> QED
  BY <1>1, <1>2, <1>3 DEF Next, Writer

\* For every size of the buffer and in every interleaving of writers, sweeps
\* and the browser, the ring of slots is the queue of the latest messages that
\* the manual describes (MsgAppend, SweepBuffer).
THEOREM BufferIsQueue == Spec => ImplementsQueue
<1>1. Init => Queue!Init
  <2>1. Init => Inv /\ firstEntry = NoSlot
    BY InitInv DEF Init
  <2> QED
    BY <2>1, EmptyBuffer DEF Queue!Init
<1>2. Inv /\ [Next]_vars /\ Inv' => [Queue!Next]_Entries
  BY StepRefines
<1>3. Spec => []Inv
  BY InitInv, NextInv, PTL DEF Spec
<1> QED
  BY <1>1, <1>2, <1>3, PTL DEF Spec, ImplementsQueue, Queue!Spec
=============================================================================
