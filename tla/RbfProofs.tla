----------------------------- MODULE RbfProofs -----------------------------
(***************************************************************************)
(* The ring of Rbf.tla, for every number of slots and every set of         *)
(* messages: the inductive invariant IInv, what it gives the callback, and *)
(* that the ring implements MessageFifo.                                   *)
(***************************************************************************)
EXTENDS Rbf, SequenceTheorems, TLAPS

\* The successor of an index, without the modulo.
Succ(i) == IF i + 1 < Count THEN i + 1 ELSE 0

\* (i + 1) % count on an index below count is a successor that wraps.
LEMMA ModIsSucc ==
    ASSUME NEW i \in Slots
    PROVE  (i + 1) % Count = Succ(i) /\ Succ(i) \in Slots
<1>1. Count \in Nat /\ Count > 0 /\ i \in Nat /\ i < Count
  BY CountAssumption DEF Slots
<1>2. CASE i + 1 < Count
  BY <1>1, <1>2 DEF Succ, Slots
<1>3. CASE i + 1 = Count
  BY <1>1, <1>3 DEF Succ, Slots
<1> QED
  BY <1>1, <1>2, <1>3

\* rbf_release_buff publishes exactly the slot at w, when one slot is free.
LEMMA PublishedAfterFill ==
    ASSUME TypeOK, TypeOK', r' = r, w' = Succ(w), Succ(w) # r
    PROVE  Published' = Published \cup {w} /\ w \notin Published
  BY CountAssumption DEF TypeOK, Published, Succ, Slots

\* rbf_release_data gives back exactly the slot at r, when there is one.
LEMMA PublishedAfterRelease ==
    ASSUME TypeOK, TypeOK', w' = w, r' = Succ(r), r # w
    PROVE  Published' = Published \ {r} /\ r \in Published
  BY CountAssumption DEF TypeOK, Published, Succ, Slots

LEMMA InitIInv == Init => IInv
  BY CountAssumption, MarkAssumption
  DEF Init, IInv, TypeOK, ProducerOwnsSlot, ConsumerOwnsSlot,
      PublishedWhole, Published, Slots

\* Every step of either side, and every death and start of ntrackd, keeps
\* the inductive invariant.
LEMMA NextIInv == IInv /\ [Next]_vars => IInv'
<1> SUFFICES ASSUME IInv, [Next]_vars PROVE IInv'
  OBVIOUS
<1> USE DEF IInv
<1>0. /\ Count \in Nat /\ Count > 0
      /\ r \in Slots /\ w \in Slots
      /\ (w + 1) % Count = Succ(w) /\ Succ(w) \in Slots
      /\ (r + 1) % Count = Succ(r) /\ Succ(r) \in Slots
      /\ NULL \notin Slots
  <2>1. r \in Slots /\ w \in Slots
    BY DEF TypeOK
  <2>2. NULL \notin Slots /\ Count \in Nat /\ Count > 0
    BY CountAssumption, MarkAssumption DEF Slots
  <2> QED
    BY <2>1, <2>2, ModIsSucc
<1>1. ASSUME NEW m \in Messages, FillBegin(m) PROVE IInv'
  <2>1. TypeOK'
    BY <1>0, <1>1 DEF FillBegin, rbf_get_buff, TypeOK, cvars
  <2>2. ProducerOwnsSlot'
    BY <1>0, <1>1 DEF FillBegin, rbf_get_buff, ProducerOwnsSlot, TypeOK, cvars
  <2>3. ConsumerOwnsSlot' /\ PublishedWhole'
    BY <1>1 DEF FillBegin, ConsumerOwnsSlot, PublishedWhole, Published, cvars
  <2> QED
    BY <2>1, <2>2, <2>3
<1>2. CASE FillFull
  BY <1>2 DEF FillFull, TypeOK, ProducerOwnsSlot, ConsumerOwnsSlot,
              PublishedWhole, Published, cvars
<1>3. CASE CopyBegin
  <2>1. pbuf = w /\ w \notin Published /\ Published' = Published
    BY <1>0, <1>3 DEF CopyBegin, ProducerOwnsSlot, Published, Slots
  <2>2. TypeOK' /\ ProducerOwnsSlot'
    BY <1>3, <2>1 DEF CopyBegin, TypeOK, ProducerOwnsSlot, cvars
  <2>3. ConsumerOwnsSlot'
    BY <1>0, <1>3, <2>1 DEF CopyBegin, ConsumerOwnsSlot, TypeOK, cvars
  <2>4. PublishedWhole'
    BY <1>3, <2>1 DEF CopyBegin, PublishedWhole, Published, TypeOK
  <2> QED
    BY <2>2, <2>3, <2>4
<1>4. CASE CopyEnd
  <2>1. pbuf = w /\ w \notin Published /\ Published' = Published
    BY <1>0, <1>4 DEF CopyEnd, ProducerOwnsSlot, Published, Slots
  <2>2. TypeOK' /\ ProducerOwnsSlot'
    BY <1>4, <2>1 DEF CopyEnd, TypeOK, ProducerOwnsSlot, cvars
  <2>3. ConsumerOwnsSlot'
    BY <1>0, <1>4, <2>1 DEF CopyEnd, ConsumerOwnsSlot, TypeOK, cvars
  <2>4. PublishedWhole'
    BY <1>4, <2>1 DEF CopyEnd, PublishedWhole, Published, TypeOK
  <2> QED
    BY <2>2, <2>3, <2>4
<1>5. CASE FillEnd
  <2>1. r' = r /\ w' = Succ(w) /\ Succ(w) # r /\ slot' = slot
    BY <1>0, <1>5 DEF FillEnd, rbf_release_buff, ProducerOwnsSlot
  <2>2. TypeOK' /\ ProducerOwnsSlot'
    BY <1>0, <1>5, <2>1 DEF FillEnd, TypeOK, ProducerOwnsSlot, cvars
  <2>3. ConsumerOwnsSlot'
    BY <1>5, <2>1 DEF FillEnd, ConsumerOwnsSlot, cvars
  <2>4. PublishedWhole'
    BY <1>5, <2>1, <2>2, PublishedAfterFill
    DEF FillEnd, PublishedWhole, ProducerOwnsSlot
  <2> QED
    BY <2>2, <2>3, <2>4
<1>6. CASE GetData
  BY <1>0, <1>6 DEF GetData, rbf_get_data, TypeOK, ProducerOwnsSlot,
              ConsumerOwnsSlot, PublishedWhole, Published, pvars
<1>7. CASE Callback
  BY <1>0, <1>7 DEF Callback, TypeOK, ProducerOwnsSlot, ConsumerOwnsSlot,
              PublishedWhole, Published, pvars
<1>8. CASE ReleaseData
  <2>1. w' = w /\ r' = Succ(r) /\ r # w /\ slot' = slot
    BY <1>0, <1>8 DEF ReleaseData, rbf_release_data, ConsumerOwnsSlot
  <2>2. TypeOK' /\ ConsumerOwnsSlot'
    BY <1>0, <1>8, <2>1 DEF ReleaseData, TypeOK, ConsumerOwnsSlot, pvars
  <2>3. ProducerOwnsSlot'
    <3>1. Succ(w) # r => Succ(w) # Succ(r)
      BY <1>0, <2>1 DEF Succ, Slots
    <3> QED
      BY <1>0, <1>8, <2>1, <3>1 DEF ReleaseData, ProducerOwnsSlot, pvars
  <2>4. PublishedWhole'
    BY <2>1, <2>2, PublishedAfterRelease DEF PublishedWhole
  <2> QED
    BY <2>2, <2>3, <2>4
<1>9. CASE Kill
  BY <1>9 DEF Kill, TypeOK, ProducerOwnsSlot, ConsumerOwnsSlot,
              PublishedWhole, Published, pvars
<1>10. CASE Start
  BY <1>10 DEF Start, TypeOK, ProducerOwnsSlot, ConsumerOwnsSlot,
               PublishedWhole, Published, pvars
<1>11. CASE UNCHANGED vars
  BY <1>11 DEF vars, TypeOK, ProducerOwnsSlot, ConsumerOwnsSlot,
               PublishedWhole, Published
<1> QED
  BY <1>1, <1>2, <1>3, <1>4, <1>5, <1>6, <1>7, <1>8, <1>9, <1>10, <1>11
  DEF Next, Producer, Consumer

\* The inductive invariant holds in every state of the ring.
THEOREM RbfInvariant == Spec => []IInv
  BY InitIInv, NextIInv, PTL DEF Spec

\* The indices stay inside the block and the locals keep their types: no
\* sequence of fills, polls, kills and starts takes r or w past the last slot.
THEOREM RbfTypeOK == Spec => []TypeOK
<1>1. IInv => TypeOK
  BY DEF IInv
<1> QED
  BY RbfInvariant, <1>1, PTL

\* The kernel never copies into the slot ntrackd's callback works on.
THEOREM RbfNoOverwrite == Spec => []NoOverwrite
<1>1. IInv => NoOverwrite
  BY DEF IInv, NoOverwrite, ProducerOwnsSlot, ConsumerOwnsSlot
<1> QED
  BY RbfInvariant, <1>1, PTL

\* The callback is handed whole messages only.
THEOREM RbfWholeMessages == Spec => []WholeMessages
<1>1. IInv => WholeMessages
  BY CountAssumption DEF IInv, TypeOK, WholeMessages, ConsumerOwnsSlot,
     PublishedWhole, Published, Slots
<1> QED
  BY RbfInvariant, <1>1, PTL

(***************************************************************************)
(* The ring implements the bounded queue.  Publishing is the step that     *)
(* advances w, handling is the callback, finishing the step that advances  *)
(* r; a kill in the middle of a callback abandons the message.             *)
(***************************************************************************)

Contents == Messages \cup {Torn, NULL}

\* Where the published messages lie: Used of them, in the Used slots from r.
LEMMA QueueFacts ==
    ASSUME TypeOK
    PROVE  /\ Used \in 0 .. Count - 1
           /\ Len(Queue) = Used
           /\ Queue \in Seq(Contents)
           /\ \A k \in 0 .. Count - 1 : Ahead(k) \in Slots
           /\ \A k \in 0 .. Used - 1 : Ahead(k) \in Published
           /\ Ahead(Used) = w
<1>1. Used \in 0 .. Count - 1
  BY CountAssumption DEF TypeOK, Used, Slots
<1>2. \A k \in 0 .. Count - 1 : Ahead(k) \in Slots
  BY CountAssumption DEF TypeOK, Ahead, Slots
<1>3. \A k \in 0 .. Used - 1 : Ahead(k) \in Published
  BY CountAssumption DEF TypeOK, Ahead, Slots, Published, Used
<1>4. Ahead(Used) = w
  BY CountAssumption DEF TypeOK, Ahead, Slots, Used
<1>5. \A k \in 1 .. Used : slot[Ahead(k - 1)] \in Contents
  BY <1>1, <1>2, CountAssumption DEF TypeOK, Contents
<1>6. Queue \in Seq(Contents) /\ Len(Queue) = Used
  BY <1>1, <1>5, CountAssumption DEF Queue
<1> QED
  BY <1>1, <1>2, <1>3, <1>4, <1>6

\* Writing the unpublished slot at w leaves the queue alone.
LEMMA QueueKept ==
    ASSUME TypeOK, r' = r, w' = w,
           NEW x, slot' = [slot EXCEPT ![w] = x]
    PROVE  Queue' = Queue
<1>1. Used' = Used /\ w \notin Published /\ w \in Slots
  BY DEF Used, Published, TypeOK, Slots
<1>2. \A k \in 0 .. Used - 1 : Ahead(k)' = Ahead(k) /\ Ahead(k) # w
  BY <1>1, QueueFacts DEF Ahead
<1>3. \A k \in 0 .. Used - 1 : slot'[Ahead(k)] = slot[Ahead(k)]
  BY <1>2, <1>1, QueueFacts DEF TypeOK
<1>4. \A k \in 1 .. Used : k - 1 \in 0 .. Used - 1
  BY QueueFacts
<1>5. \A k \in 1 .. Used : slot'[Ahead(k - 1)'] = slot[Ahead(k - 1)]
  BY <1>2, <1>3, <1>4 DEF Ahead
<1> QED
  BY <1>1, <1>5 DEF Queue

\* Advancing w appends the slot it left.
LEMMA QueueAppend ==
    ASSUME TypeOK, TypeOK', r' = r, w' = Succ(w), Succ(w) # r, slot' = slot
    PROVE  Queue' = Append(Queue, slot[w]) /\ Used < Count - 1
<1>1. Used' = Used + 1 /\ Used < Count - 1
  BY CountAssumption DEF Used, TypeOK, Slots, Succ
<1>2. \A k \in 1 .. Used' : slot'[Ahead(k - 1)'] = slot[Ahead(k - 1)]
  BY DEF Ahead
<1>3. Used \in Nat /\ Ahead(Used) = w /\ Len(Queue) = Used
  BY QueueFacts, CountAssumption
<1>4. Queue' = [k \in 1 .. Used + 1 |-> slot[Ahead(k - 1)]]
  BY <1>1, <1>2 DEF Queue
<1>5. Append(Queue, slot[w])
      = [k \in 1 .. Used + 1 |-> IF k <= Used THEN Queue[k] ELSE slot[w]]
  BY <1>3, QueueFacts
<1>6. \A k \in 1 .. Used + 1 :
        slot[Ahead(k - 1)] = IF k <= Used THEN Queue[k] ELSE slot[w]
  BY <1>3 DEF Queue
<1> QED
  BY <1>1, <1>4, <1>5, <1>6

\* Advancing r drops the oldest message.
LEMMA QueueTail ==
    ASSUME TypeOK, TypeOK', w' = w, r' = Succ(r), r # w, slot' = slot
    PROVE  Queue' = Tail(Queue)
<1>1. Used' = Used - 1 /\ Used > 0
  BY CountAssumption DEF Used, TypeOK, Slots, Succ
<1>2. \A k \in 1 .. Used' : Ahead(k - 1)' = Ahead(k)
  BY <1>1, QueueFacts, CountAssumption DEF Ahead, TypeOK, Slots, Succ
<1>3. Used \in Nat /\ Len(Queue) = Used
  BY QueueFacts, CountAssumption
<1>4. \A k \in 1 .. Used - 1 :
        Queue[k + 1] = slot[Ahead(k)] /\ slot[Ahead(k)] \in Contents
  BY <1>3, QueueFacts, CountAssumption DEF Queue, TypeOK, Contents
<1>5. Queue' = [k \in 1 .. Used - 1 |-> slot[Ahead(k)]]
  BY <1>1, <1>2 DEF Queue
<1>6. /\ Queue' \in Seq(Contents)
      /\ Len(Queue') = Used - 1
      /\ \A k \in 1 .. Used - 1 : Queue'[k] = Queue[k + 1]
  BY <1>1, <1>3, <1>4, <1>5
<1>7. Queue \in Seq(Contents) /\ Queue # <<>>
  BY <1>1, <1>3, QueueFacts
<1>8. /\ Tail(Queue) \in Seq(Contents)
      /\ Len(Tail(Queue)) = Used - 1
      /\ \A k \in 1 .. Used - 1 : Tail(Queue)[k] = Queue[k + 1]
  BY <1>3, <1>7, HeadTailProperties
<1> QED
  BY <1>6, <1>8, SeqEqual

LEMMA InitFifo == Init => Fifo!Init
<1> SUFFICES ASSUME Init PROVE Fifo!Init
  OBVIOUS
<1>1. TypeOK /\ Used = 0
  BY InitIInv DEF Init, IInv, Used
<1>2. Queue \in Seq(Contents) /\ Len(Queue) = 0
  BY <1>1, QueueFacts
<1>3. Queue = <<>>
  BY <1>2
<1> QED
  BY <1>3 DEF Init, Fifo!Init

\* Every step of the ring is a step of the queue or leaves it alone.
LEMMA StepFifo ==
    IInv /\ IInv' /\ [Next]_vars => [Fifo!Next]_<<Queue, got>>
<1> SUFFICES ASSUME IInv, IInv', [Next]_vars
             PROVE  [Fifo!Next]_<<Queue, got>>
  OBVIOUS
<1>0. TypeOK /\ TypeOK' /\ r \in Slots /\ w \in Slots
  BY DEF IInv, TypeOK
<1>k. ASSUME r' = r, w' = w, slot' = slot, got' = got
      PROVE  UNCHANGED <<Queue, got>>
  BY <1>k DEF Queue, Used, Ahead
<1>1. ASSUME NEW m \in Messages, FillBegin(m) PROVE UNCHANGED <<Queue, got>>
  BY <1>1, <1>k DEF FillBegin, cvars
<1>2. CASE FillFull
  BY <1>2, <1>k DEF FillFull, cvars
<1>3. CASE CopyBegin
  <2>1. Queue' = Queue
    BY <1>0, <1>3, QueueKept DEF CopyBegin, IInv, ProducerOwnsSlot
  <2> QED
    BY <1>3, <2>1 DEF CopyBegin, cvars
<1>4. CASE CopyEnd
  <2>1. Queue' = Queue
    BY <1>0, <1>4, QueueKept DEF CopyEnd, IInv, ProducerOwnsSlot
  <2> QED
    BY <1>4, <2>1 DEF CopyEnd, cvars
<1>5. CASE FillEnd
  <2>1. r' = r /\ w' = Succ(w) /\ Succ(w) # r /\ slot' = slot
        /\ slot[w] \in Messages
    BY <1>0, <1>5, ModIsSucc DEF FillEnd, rbf_release_buff, IInv,
       ProducerOwnsSlot
  <2>2. Queue' = Append(Queue, slot[w]) /\ Used < Count - 1
    BY <1>0, <2>1, QueueAppend
  <2>3. Len(Queue) = Used /\ Used \in 0 .. Count - 1
    BY <1>0, QueueFacts
  <2>4. Fifo!Publish
    BY <1>5, <2>1, <2>2, <2>3
    DEF Fifo!Publish, FillEnd, cvars
  <2> QED
    BY <2>4 DEF Fifo!Next
<1>6. CASE GetData
  BY <1>6, <1>k DEF GetData, pvars
<1>7. CASE Callback
  <2>1. Queue' = Queue
    BY <1>7 DEF Callback, Queue, Used, Ahead
  <2>2. cbuf = r /\ r # w /\ got = NULL /\ got' = slot[r]
    BY <1>7 DEF Callback, IInv, ConsumerOwnsSlot
  <2>3. Used \in Nat /\ Used > 0 /\ Ahead(0) = r
    BY <1>0, <2>2, CountAssumption DEF Used, TypeOK, Slots, Ahead
  <2>4. Queue # <<>> /\ Head(Queue) = slot[r]
    <3>1. Queue[1] = slot[Ahead(0)]
      BY <2>3 DEF Queue
    <3>2. Queue \in Seq(Contents) /\ Len(Queue) > 0
      BY <1>0, <2>3, QueueFacts
    <3> QED
      BY <2>3, <3>1, <3>2
  <2>5. Fifo!Handle
    BY <2>1, <2>2, <2>4 DEF Fifo!Handle
  <2> QED
    BY <2>5 DEF Fifo!Next
<1>8. CASE ReleaseData
  <2>1. w' = w /\ r' = Succ(r) /\ r # w /\ slot' = slot
    BY <1>0, <1>8, ModIsSucc DEF ReleaseData, rbf_release_data, IInv,
       ConsumerOwnsSlot
  <2>2. Queue' = Tail(Queue)
    BY <1>0, <2>1, QueueTail
  <2>3. r \in Published
    BY <1>0, <2>1, PublishedAfterRelease
  <2>4. got # NULL
    BY <1>8, <2>3, MarkAssumption DEF ReleaseData, IInv, ConsumerOwnsSlot,
       PublishedWhole
  <2>5. Fifo!Finish
    BY <1>8, <2>2, <2>4 DEF Fifo!Finish, ReleaseData
  <2> QED
    BY <2>5 DEF Fifo!Next
<1>9. CASE Kill
  <2>1. Queue' = Queue /\ got' = NULL
    BY <1>9 DEF Kill, Queue, Used, Ahead
  <2>2. CASE got = NULL
    BY <2>1, <2>2
  <2>3. CASE got # NULL
    BY <2>1, <2>3 DEF Fifo!Next, Fifo!Abandon
  <2> QED
    BY <2>2, <2>3
<1>10. CASE Start
  BY <1>10, <1>k DEF Start, pvars
<1>11. CASE UNCHANGED vars
  BY <1>11, <1>k DEF vars
<1> QED
  BY <1>1, <1>2, <1>3, <1>4, <1>5, <1>6, <1>7, <1>8, <1>9, <1>10, <1>11
  DEF Next, Producer, Consumer

\* The ring is a bounded queue of count - 1 messages: in order, handled
\* before they are taken off, none lost across a restart of ntrackd.
THEOREM RbfImplementsFifo == Spec => RingIsFifo
  BY RbfInvariant, InitFifo, StepFifo, PTL DEF Spec, RingIsFifo, Fifo!Spec
=============================================================================
