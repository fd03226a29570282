--------------------------- MODULE IpcRingProofs ---------------------------
(***************************************************************************)
(* Proofs about the shared-memory ring, for any number of slots, any size  *)
(* of the arena and any number of frames.                                  *)
(***************************************************************************)
EXTENDS IpcRing, FiniteSetTheorems, FunctionTheorems, SequenceTheorems,
        WellFoundedInduction, TLAPS

\* The bytes of a payload in use are its own, and a payload that is no longer
\* in use has been released.
PayloadInv ==
    /\ \A r \in payloads :
         r.active => \A b \in r.handle.offset ..
                            r.handle.offset + r.handle.length - 1 :
                       arena[b] = r.handle.crc
    /\ \A r \in payloads : ~r.active => r.handle.generation \in released

\* The frames between the cursors are in occupied slots, each in its own.
WindowInv ==
    /\ consumer <= producer
    /\ \A i \in SlotIndexes : slots[i].occupied => slots[i].frame \in Frame
    /\ \A k \in consumer .. producer - 1 : slots[k % SlotCount].occupied
    /\ \A j, k \in consumer .. producer - 1 :
         j % SlotCount = k % SlotCount => j = k

\* The inductive invariant.
RingInv ==
    /\ RingTypeOK
    /\ IsFiniteSet(payloads)
    /\ ActivePayloadsAreDisjoint
    /\ PayloadInv
    /\ WindowInv

-----------------------------------------------------------------------------
\* A cursor is reduced to a slot.
LEMMA SlotOfCursor ==
  ASSUME NEW n \in Nat
  PROVE  n % SlotCount \in SlotIndexes
  BY RingConstants, SMT DEF SlotIndexes

LEMMA RingInitial == Init => RingInv
<1> SUFFICES ASSUME Init PROVE RingInv
  OBVIOUS
<1>1. RingTypeOK
  BY RingConstants, EmptySeq DEF Init, RingTypeOK, SlotIndexes, ArenaIndexes
<1>2. IsFiniteSet(payloads)
  BY FS_EmptySet DEF Init
<1>3. ActivePayloadsAreDisjoint /\ PayloadInv
  BY DEF Init, ActivePayloadsAreDisjoint, ActivePayloads, PayloadInv
<1>4. WindowInv
  BY SMT DEF Init, WindowInv, SlotIndexes
<1> QED
  BY <1>1, <1>2, <1>3, <1>4 DEF RingInv

-----------------------------------------------------------------------------
\* Putting a frame in the free slot at the producer cursor keeps the window.
LEMMA PublishWindow ==
  ASSUME RingTypeOK, WindowInv, NEW f \in Frame,
         ~slots[producer % SlotCount].occupied,
         Publish(f), consumer' = consumer
  PROVE  /\ producer' = producer + 1
         /\ producer' \in Nat
         /\ slots' \in [SlotIndexes ->
              [occupied : BOOLEAN, frame : Frame \cup {NoFrame}, generation : Nat]]
         /\ WindowInv'
<1> DEFINE S == [occupied : BOOLEAN, frame : Frame \cup {NoFrame}, generation : Nat]
           p == producer % SlotCount
<1>1. producer \in Nat /\ consumer \in Nat /\ slots \in [SlotIndexes -> S]
  BY DEF RingTypeOK
<1>2. p \in SlotIndexes
  BY <1>1, SlotOfCursor
<1>3. slots' = [slots EXCEPT ![p] = [slots[p] EXCEPT !.occupied = TRUE, !.frame = f]]
  BY <1>1, <1>2 DEF Publish
<1>4. [slots[p] EXCEPT !.occupied = TRUE, !.frame = f] \in S
  BY <1>1, <1>2
<1>5. slots' \in [SlotIndexes -> S]
  BY <1>1, <1>3, <1>4
<1>6. producer' = producer + 1
  BY DEF Publish
<1>7. /\ slots'[p].occupied
      /\ slots'[p].frame = f
      /\ \A i \in SlotIndexes : i # p => slots'[i] = slots[i]
  BY <1>1, <1>2, <1>3
<1>8. \A k \in consumer .. producer - 1 : k % SlotCount \in SlotIndexes
  BY <1>1, SlotOfCursor
<1>9. \A k \in consumer .. producer - 1 : k % SlotCount # p
  BY <1>1 DEF WindowInv
<1>10. \A k \in consumer .. producer' - 1 :
          k = producer \/ k \in consumer .. producer - 1
  BY <1>1, <1>6
<1>11. \A i \in SlotIndexes : slots'[i].occupied => slots'[i].frame \in Frame
  BY <1>7 DEF WindowInv
<1>12. \A k \in consumer .. producer' - 1 : slots'[k % SlotCount].occupied
  BY <1>7, <1>8, <1>9, <1>10 DEF WindowInv
<1>13. \A j, k \in consumer .. producer' - 1 :
          j % SlotCount = k % SlotCount => j = k
  BY <1>9, <1>10 DEF WindowInv
<1>14. consumer <= producer'
  BY <1>1, <1>6 DEF WindowInv
<1> QED
  BY <1>1, <1>5, <1>6, <1>11, <1>12, <1>13, <1>14 DEF WindowInv

LEMMA NewFrameType ==
  ASSUME RingTypeOK, NEW k \in Kinds, offered + 1 \in Requests,
         NEW length \in 1 .. MaxPayload, NEW h \in Handle \cup {NoHandle}
  PROVE  NewFrame(k, offered + 1, length, h) \in Frame
<1>1. nextSequence[k] \in 1 .. offered + 1 /\ offered \in Nat /\ MaxRequests \in Nat
  BY RingConstants DEF RingTypeOK
<1>2. nextSequence[k] \in Requests
  BY <1>1 DEF Requests
<1> QED
  BY <1>2 DEF NewFrame, Frame

LEMMA NextSequencesType ==
  ASSUME RingTypeOK, NEW k \in Kinds
  PROVE  NextSequences(k) \in [Kinds -> 1 .. (offered + 1) + 1]
<1>1. nextSequence \in [Kinds -> 1 .. offered + 1] /\ offered \in Nat
  BY RingConstants DEF RingTypeOK
<1>2. \A j \in Kinds : nextSequence[j] + 1 \in 1 .. (offered + 1) + 1
                      /\ nextSequence[j] \in 1 .. (offered + 1) + 1
  BY <1>1
<1> QED
  BY <1>1, <1>2 DEF NextSequences

LEMMA EnqueueInlineInv ==
  ASSUME RingInv, NEW k \in Kinds, NEW length \in 1 .. MaxPayload,
         EnqueueInline(k, length)
  PROVE  RingInv'
<1> DEFINE f == NewFrame(k, offered + 1, length, NoHandle)
<1>1. f \in Frame
  BY NewFrameType DEF RingInv, EnqueueInline
<1>2. /\ Publish(f)
      /\ ~slots[producer % SlotCount].occupied
      /\ offered' = offered + 1 /\ offered' \in Requests
      /\ nextSequence' = NextSequences(k)
      /\ UNCHANGED <<consumer, arena, payloads, received, released>>
  BY DEF EnqueueInline, Admits
<1>3. /\ producer' \in Nat
      /\ slots' \in [SlotIndexes ->
           [occupied : BOOLEAN, frame : Frame \cup {NoFrame}, generation : Nat]]
      /\ WindowInv'
  BY <1>1, <1>2, PublishWindow DEF RingInv
<1>4. offered' \in 0 .. MaxRequests
  BY <1>2, RingConstants DEF Requests
<1>5. RingTypeOK'
  <2>1. nextSequence' \in [Kinds -> 1 .. offered' + 1]
    BY <1>2, NextSequencesType DEF RingInv
  <2> QED
    BY <1>2, <1>3, <1>4, <2>1 DEF RingInv, RingTypeOK
<1>6. ActivePayloadsAreDisjoint' /\ PayloadInv'
  BY <1>2 DEF RingInv, ActivePayloadsAreDisjoint, ActivePayloads, PayloadInv
<1> QED
  BY <1>2, <1>3, <1>5, <1>6 DEF RingInv

LEMMA EnqueueExhaustedInv ==
  ASSUME RingInv, NEW k \in Kinds, NEW length \in 1 .. MaxPayload,
         EnqueueExhausted(k, length)
  PROVE  RingInv'
<1>1. /\ offered' = offered + 1 /\ offered' \in Requests
      /\ nextSequence' = NextSequences(k)
      /\ UNCHANGED <<producer, consumer, slots, arena, payloads, received,
                     released>>
  BY DEF EnqueueExhausted
<1>2. offered' \in 0 .. MaxRequests
  BY <1>1, RingConstants DEF Requests
<1>3. RingTypeOK'
  <2>1. nextSequence' \in [Kinds -> 1 .. offered' + 1]
    BY <1>1, NextSequencesType DEF RingInv
  <2> QED
    BY <1>1, <1>2, <2>1 DEF RingInv, RingTypeOK
<1>4. ActivePayloadsAreDisjoint' /\ PayloadInv' /\ WindowInv'
  BY <1>1 DEF RingInv, ActivePayloadsAreDisjoint, ActivePayloads, PayloadInv, WindowInv
<1> QED
  BY <1>1, <1>3, <1>4 DEF RingInv

-----------------------------------------------------------------------------
\* The greatest number of a bounded set, for the cursor of the walk.
LEMMA LowestNatural ==
  ASSUME NEW S, S \subseteq Nat, S # {}
  PROVE  \E m \in S : \A n \in S : m <= n
<1> DEFINE less == {ss \in Nat \X Nat : ss[1] < ss[2]}
<1>1. IsWellFoundedOn(less, Nat)
  BY NatLessThanWellFounded DEF OpToRel
<1>2. PICK m \in S : \A n \in S : <<n, m>> \notin less
  <2> HIDE DEF less
  <2> QED
    BY <1>1, WFMin
<1>3. \A n \in S : ~(n < m)
  <2> TAKE n \in S
  <2>1. <<n, m>> \in Nat \X Nat /\ <<n, m>>[1] = n /\ <<n, m>>[2] = m
    OBVIOUS
  <2> QED
    BY <1>2, <2>1
<1> HIDE DEF less
<1> QED
  BY <1>3

LEMMA MaxOfInterval ==
  ASSUME NEW N \in Nat, NEW S, S \subseteq 0 .. N, S # {}
  PROVE  Max(S) \in S /\ \A x \in S : x <= Max(S)
<1> DEFINE T == {N - x : x \in S}
<1>1. \A x \in S : N - x \in Nat /\ x \in Nat
  OBVIOUS
<1>2. PICK m \in T : \A n \in T : m <= n
  <2>1. T \subseteq Nat /\ T # {}
    BY <1>1
  <2> QED
    BY <2>1, LowestNatural
<1>3. PICK x \in S : m = N - x
  BY <1>2
<1>4. \A y \in S : x >= y
  BY <1>1, <1>2, <1>3
<1>5. Max(S) \in S /\ \A y \in S : Max(S) >= y
  BY <1>4 DEF Max
<1> QED
  BY <1>5

LEMMA ActiveFacts ==
  ASSUME RingTypeOK, NEW h \in ActivePayloads
  PROVE  /\ h.offset \in Nat /\ h.length \in Nat /\ h.length >= 1
         /\ h.offset + h.length <= ArenaSize /\ ArenaSize \in Nat
BY RingConstants DEF RingTypeOK, ActivePayloads, PayloadRecord, Handle, ArenaIndexes

\* The cursor is behind every payload it has passed, and at 0 or at the end of
\* one of them.
LEMMA CursorFacts ==
  ASSUME RingTypeOK, NEW H, H \subseteq ActivePayloads
  PROVE  /\ CursorBehind(H) \in Nat
         /\ \A h \in H : h.offset + h.length <= CursorBehind(H)
         /\ CursorBehind(H) = 0 \/ \E h \in H : CursorBehind(H) = h.offset + h.length
<1> DEFINE S == {0} \cup {h.offset + h.length : h \in H}
<1>1. S \subseteq 0 .. ArenaSize /\ S # {} /\ ArenaSize \in Nat
  BY ActiveFacts, RingConstants
<1>2. CursorBehind(H) = Max(S)
  BY DEF CursorBehind
<1>3. Max(S) \in S /\ \A x \in S : x <= Max(S)
  <2> HIDE DEF S
  <2> QED
    BY <1>1, MaxOfInterval
<1>4. Max(S) \in Nat
  BY <1>1, <1>3
<1> QED
  BY <1>2, <1>3, <1>4

\* The walk returns an offset in the arena; the check behind it, that no
\* payload in use is touched.
LEMMA AllocationIsFree ==
  ASSUME RingTypeOK, NEW length \in 1 .. MaxPayload,
         NEW o \in AllocationOffsets(length)
  PROVE  /\ o \in ArenaIndexes
         /\ o + length <= ArenaSize
         /\ \A r \in payloads :
              r.active => ~RangesOverlap(o, length, r.handle.offset, r.handle.length)
<1>1. o \in FindPayloadOffset(length) /\ ~CandidateOverlapsActive(o, length)
  BY DEF AllocationOffsets
<1>2. length \in Nat /\ length >= 1 /\ ArenaSize \in Nat
  BY RingConstants
<1>3. o \in Nat /\ o + length <= ArenaSize
  <2>1. CASE RoomBefore(length) = {}
    BY <1>1, <2>1, CursorFacts DEF FindPayloadOffset
  <2>2. CASE RoomBefore(length) # {}
    <3>1. PICK h \in RoomBefore(length) : o = CursorBehind(SortedBefore(h))
      BY <1>1, <2>2 DEF FindPayloadOffset
    <3>2. h \in ActivePayloads /\ o + length <= h.offset /\ SortedBefore(h) \subseteq ActivePayloads
      BY <3>1 DEF RoomBefore, SortedBefore
    <3>3. o \in Nat
      BY <3>1, <3>2, CursorFacts
    <3> QED
      BY <1>2, <3>2, <3>3, ActiveFacts
  <2> QED
    BY <2>1, <2>2
<1>4. o \in ArenaIndexes
  BY <1>2, <1>3 DEF ArenaIndexes
<1>5. \A r \in payloads :
        r.active => ~RangesOverlap(o, length, r.handle.offset, r.handle.length)
  BY <1>1 DEF CandidateOverlapsActive, ActivePayloads
<1> QED
  BY <1>3, <1>4, <1>5

LEMMA NewHandleType ==
  ASSUME RingInv, NEW k \in Kinds, NEW index \in SlotIndexes,
         NEW length \in 1 .. MaxPayload, NEW o \in ArenaIndexes,
         NEW request \in Requests
  PROVE  NewHandle(k, index, length, o, request) \in Handle
<1>1. NextPayloadGeneration \in Nat \ {0}
  BY FS_CardinalityType DEF RingInv, NextPayloadGeneration
<1>2. slots[index].generation \in Nat
  BY DEF RingInv, RingTypeOK
<1> QED
  BY <1>1, <1>2 DEF NewHandle, Handle

LEMMA EnqueueHandleInv ==
  ASSUME RingInv, NEW k \in Kinds, NEW length \in 1 .. MaxPayload,
         EnqueueHandle(k, length)
  PROVE  RingInv'
<1> DEFINE request == offered + 1
           index == producer % SlotCount
<1>1. PICK o \in AllocationOffsets(length) :
        LET h == NewHandle(k, index, length, o, request)
        IN  /\ Publish(NewFrame(k, request, length, h))
            /\ arena' = Copied(o, length, request)
            /\ payloads' = payloads \cup {[handle |-> h, active |-> TRUE]}
  BY DEF EnqueueHandle
<1> DEFINE h == NewHandle(k, index, length, o, request)
           new == [handle |-> h, active |-> TRUE]
<1>2. /\ request \in Requests
      /\ offered' = request
      /\ ~slots[index].occupied
      /\ nextSequence' = NextSequences(k)
      /\ UNCHANGED <<consumer, received, released>>
  BY DEF EnqueueHandle, Admits
<1>3. index \in SlotIndexes
  BY SlotOfCursor DEF RingInv, RingTypeOK
<1>4. /\ o \in ArenaIndexes
      /\ o + length <= ArenaSize
      /\ \A r \in payloads :
           r.active => ~RangesOverlap(o, length, r.handle.offset, r.handle.length)
  BY AllocationIsFree DEF RingInv
<1>5. h \in Handle
  BY <1>2, <1>3, <1>4, NewHandleType
<1>6. NewFrame(k, request, length, h) \in Frame
  BY <1>2, <1>5, NewFrameType DEF RingInv
<1>7. /\ producer' \in Nat
      /\ slots' \in [SlotIndexes ->
           [occupied : BOOLEAN, frame : Frame \cup {NoFrame}, generation : Nat]]
      /\ WindowInv'
  BY <1>1, <1>2, <1>6, PublishWindow DEF RingInv
<1>8. offered' \in 0 .. MaxRequests
  BY <1>2, RingConstants DEF Requests
<1>9. h.offset = o /\ h.length = length /\ h.crc = request
  BY DEF NewHandle
<1>10. arena' \in [ArenaIndexes -> 0 .. MaxRequests]
  <2>1. request \in 0 .. MaxRequests
    BY <1>2, <1>8
  <2> QED
    BY <1>1, <2>1 DEF RingInv, RingTypeOK, Copied
<1>11. new \in PayloadRecord
  BY <1>5 DEF PayloadRecord
<1>12. payloads' = payloads \cup {new}
  BY <1>1
<1>13. payloads' \subseteq PayloadRecord
  BY <1>11, <1>12 DEF RingInv, RingTypeOK
<1>14. \A r \in payloads' : r.handle.offset + r.handle.length <= ArenaSize
  BY <1>4, <1>9, <1>12 DEF RingInv, RingTypeOK
<1>15. RingTypeOK'
  BY <1>2, <1>7, <1>8, <1>10, <1>13, <1>14, NextSequencesType
  DEF RingInv, RingTypeOK
<1>16. IsFiniteSet(payloads')
  BY <1>12, FS_AddElement DEF RingInv
<1>17. \A r \in payloads : /\ r.handle.offset \in Nat /\ r.handle.length \in Nat
                           /\ r.handle.offset + r.handle.length <= ArenaSize
  BY RingConstants DEF RingInv, RingTypeOK, PayloadRecord, Handle, ArenaIndexes
<1>18. o \in Nat /\ length \in Nat /\ ArenaSize \in Nat
  BY <1>4, RingConstants DEF ArenaIndexes
<1>19. ActivePayloadsAreDisjoint'
  <2> SUFFICES ASSUME NEW g1 \in ActivePayloads', NEW g2 \in ActivePayloads', g1 # g2
               PROVE  ~RangesOverlap(g1.offset, g1.length, g2.offset, g2.length)
    BY DEF ActivePayloadsAreDisjoint
  <2>1. ActivePayloads' \subseteq ActivePayloads \cup {h}
    <3> SUFFICES ASSUME NEW r \in payloads', r.active
                 PROVE  r.handle \in ActivePayloads \cup {h}
      BY DEF ActivePayloads
    <3>1. CASE r \in payloads
      BY <3>1 DEF ActivePayloads
    <3>2. CASE r = new
      BY <3>2
    <3> QED
      BY <3>1, <3>2, <1>12
  <2>2. CASE g1 \in ActivePayloads /\ g2 \in ActivePayloads
    BY <2>2 DEF RingInv, ActivePayloadsAreDisjoint
  <2>3. CASE g1 = h /\ g2 \in ActivePayloads
    BY <2>3, <1>4, <1>9 DEF ActivePayloads
  <2>4. CASE g1 \in ActivePayloads /\ g2 = h
    <3>1. ~RangesOverlap(o, length, g1.offset, g1.length)
      BY <2>4, <1>4 DEF ActivePayloads
    <3>2. g1.offset \in Nat /\ g1.length \in Nat
      BY <2>4, <1>17 DEF ActivePayloads
    <3> QED
      BY <2>4, <3>1, <3>2, <1>9, <1>18 DEF RangesOverlap
  <2>5. CASE g1 = h /\ g2 = h
    BY <2>5
  <2> QED
    BY <2>1, <2>2, <2>3, <2>4, <2>5
<1>20. \A b \in ArenaIndexes :
         arena'[b] = IF o <= b /\ b < o + length THEN request ELSE arena[b]
  BY <1>1 DEF Copied
<1>21. PayloadInv'
  <2>1. ASSUME NEW r \in payloads', r.active,
               NEW b \in r.handle.offset .. r.handle.offset + r.handle.length - 1
        PROVE  arena'[b] = r.handle.crc
    <3>1. CASE r = new
      <4>1. b \in o .. o + length - 1
        BY <3>1, <1>9
      <4>2. b \in ArenaIndexes /\ o <= b /\ b < o + length
        BY <4>1, <1>4, <1>18 DEF ArenaIndexes
      <4> QED
        BY <4>2, <3>1, <1>9, <1>20
    <3>2. CASE r \in payloads
      <4>1. b \in ArenaIndexes
        BY <3>2, <1>17, <1>18 DEF ArenaIndexes
      <4>2. ~RangesOverlap(o, length, r.handle.offset, r.handle.length)
        BY <3>2, <2>1, <1>4
      <4>3. ~(o <= b /\ b < o + length)
        BY <4>2, <2>1, <3>2, <1>17, <1>18 DEF RangesOverlap
      <4>4. arena[b] = r.handle.crc
        BY <2>1, <3>2 DEF RingInv, PayloadInv
      <4> QED
        BY <4>1, <4>3, <4>4, <1>20
    <3> QED
      BY <3>1, <3>2, <1>12
  <2>2. \A r \in payloads' : ~r.active => r.handle.generation \in released'
    BY <1>2, <1>12 DEF RingInv, PayloadInv
  <2> QED
    BY <2>1, <2>2 DEF PayloadInv
<1> QED
  BY <1>7, <1>15, <1>16, <1>19, <1>21 DEF RingInv

-----------------------------------------------------------------------------
\* The consumer takes the oldest frame; the slots behind it keep theirs.
LEMMA DequeueWindow ==
  ASSUME RingInv, Dequeue
  PROVE  /\ consumer < producer
         /\ consumer' = consumer + 1
         /\ ReadIndex \in SlotIndexes
         /\ FrameRead \in Frame
         /\ slots' = [slots EXCEPT ![ReadIndex] = SlotAfterDequeue(slots[ReadIndex])]
         /\ \A k \in consumer + 1 .. producer - 1 :
              /\ k % SlotCount \in SlotIndexes
              /\ k % SlotCount # ReadIndex
              /\ slots'[k % SlotCount] = slots[k % SlotCount]
<1>1. /\ producer \in Nat /\ consumer \in Nat /\ consumer <= producer
      /\ DOMAIN slots = SlotIndexes
  BY DEF RingInv, RingTypeOK, WindowInv
<1>2. consumer < producer
  BY <1>1 DEF Dequeue, readable_slots
<1>3. ReadIndex \in SlotIndexes
  BY <1>1, SlotOfCursor DEF ReadIndex
<1>4. FrameRead \in Frame
  BY <1>3 DEF RingInv, WindowInv, Dequeue, FrameRead
<1>5. slots' = [slots EXCEPT ![ReadIndex] = SlotAfterDequeue(slots[ReadIndex])]
  BY DEF Dequeue
<1>6. \A k \in consumer + 1 .. producer - 1 : k \in Nat /\ k # consumer
  BY <1>1
<1>7. \A k \in consumer + 1 .. producer - 1 : k % SlotCount # ReadIndex
  BY <1>1, <1>2, <1>6 DEF RingInv, WindowInv, ReadIndex
<1>8. \A k \in consumer + 1 .. producer - 1 : k % SlotCount \in SlotIndexes
  BY <1>6, SlotOfCursor
<1>9. \A i \in SlotIndexes : i # ReadIndex => slots'[i] = slots[i]
  BY <1>1, <1>5
<1>10. consumer' = consumer + 1
  BY DEF Dequeue
<1> QED
  BY <1>2, <1>3, <1>4, <1>5, <1>7, <1>8, <1>9, <1>10

LEMMA SlotAfterDequeueType ==
  ASSUME NEW F, NEW s \in [occupied : BOOLEAN, frame : F, generation : Nat]
  PROVE  /\ SlotAfterDequeue(s) \in [occupied : BOOLEAN, frame : F, generation : Nat]
         /\ SlotAfterDequeue(s).occupied = FALSE
<1> DEFINE free == [s EXCEPT !.occupied = FALSE]
<1>1. free \in [occupied : BOOLEAN, frame : F, generation : Nat]
  OBVIOUS
<1>2. free.occupied = FALSE /\ free.generation = s.generation
  OBVIOUS
<1>3. SlotAfterDequeue(s) = [free EXCEPT !.generation = s.generation + 1]
  BY DEF SlotAfterDequeue
<1>4. s.generation + 1 \in Nat
  OBVIOUS
<1> HIDE DEF free
<1> QED
  BY <1>1, <1>2, <1>3, <1>4

LEMMA DequeueInv ==
  ASSUME RingInv, Dequeue
  PROVE  RingInv'
<1> DEFINE S == [occupied : BOOLEAN, frame : Frame \cup {NoFrame}, generation : Nat]
<1>1. /\ consumer < producer
      /\ consumer' = consumer + 1
      /\ ReadIndex \in SlotIndexes
      /\ FrameRead \in Frame
      /\ slots' = [slots EXCEPT ![ReadIndex] = SlotAfterDequeue(slots[ReadIndex])]
      /\ \A k \in consumer + 1 .. producer - 1 :
           /\ k % SlotCount \in SlotIndexes
           /\ slots'[k % SlotCount] = slots[k % SlotCount]
  BY DequeueWindow
<1>2. /\ received' = Append(received, FrameRead)
      /\ UNCHANGED <<producer, nextSequence, arena, payloads, offered, released>>
  BY DEF Dequeue
<1>3. producer \in Nat /\ consumer \in Nat /\ slots \in [SlotIndexes -> S]
  BY DEF RingInv, RingTypeOK
<1>4. /\ SlotAfterDequeue(slots[ReadIndex]) \in S
      /\ ~SlotAfterDequeue(slots[ReadIndex]).occupied
  BY <1>1, <1>3, SlotAfterDequeueType
<1>5. slots' \in [SlotIndexes -> S]
  BY <1>1, <1>3, <1>4
<1>6. received' \in Seq(Frame)
  BY <1>1, <1>2, AppendProperties DEF RingInv, RingTypeOK
<1>7. RingTypeOK'
  BY <1>1, <1>2, <1>3, <1>5, <1>6 DEF RingInv, RingTypeOK
<1>8. ActivePayloadsAreDisjoint' /\ PayloadInv'
  BY <1>2 DEF RingInv, ActivePayloadsAreDisjoint, ActivePayloads, PayloadInv
<1>9. \A i \in SlotIndexes : slots'[i].occupied => slots'[i].frame \in Frame
  BY <1>1, <1>3, <1>4 DEF RingInv, WindowInv
<1>10. \A k \in consumer' .. producer' - 1 : k \in consumer .. producer - 1
  BY <1>1, <1>2, <1>3
<1>11. consumer' <= producer'
  BY <1>1, <1>2, <1>3
<1>12. \A k \in consumer' .. producer' - 1 : slots'[k % SlotCount].occupied
  <2> SUFFICES ASSUME NEW k \in consumer' .. producer' - 1
               PROVE  slots'[k % SlotCount].occupied
    OBVIOUS
  <2>1. slots[k % SlotCount].occupied
    BY <1>10 DEF RingInv, WindowInv
  <2>2. slots'[k % SlotCount] = slots[k % SlotCount]
    BY <1>1, <1>2
  <2> QED
    BY <2>1, <2>2
<1>13. \A j, k \in consumer' .. producer' - 1 :
         j % SlotCount = k % SlotCount => j = k
  BY <1>10 DEF RingInv, WindowInv
<1>14. WindowInv'
  BY <1>9, <1>11, <1>12, <1>13 DEF WindowInv
<1> QED
  BY <1>2, <1>7, <1>8, <1>14 DEF RingInv

-----------------------------------------------------------------------------
\* Each record after a release is one from before it, made inactive or not.
LEMMA ReleasedRecord ==
  ASSUME RingTypeOK, NEW h \in Handle, NEW r \in ReleasedRecords(h)
  PROVE  \E p \in payloads :
           /\ r.handle = p.handle
           /\ r \in PayloadRecord
           /\ IF SamePayloadHandle(p.handle, h) THEN ~r.active ELSE r = p
<1>1. PICK p \in payloads :
        r = IF SamePayloadHandle(p.handle, h) THEN [p EXCEPT !.active = FALSE] ELSE p
  BY DEF ReleasedRecords
<1>2. p \in PayloadRecord
  BY DEF RingTypeOK
<1>3. CASE SamePayloadHandle(p.handle, h)
  <2>1. r = [p EXCEPT !.active = FALSE]
    BY <1>1, <1>3
  <2>2. r.handle = p.handle /\ ~r.active /\ r \in PayloadRecord
    BY <2>1, <1>2 DEF PayloadRecord
  <2> QED
    BY <1>3, <2>2
<1>4. CASE ~SamePayloadHandle(p.handle, h)
  BY <1>1, <1>2, <1>4
<1> QED
  BY <1>3, <1>4

LEMMA ReleasedRecordsFinite ==
  ASSUME IsFiniteSet(payloads), NEW h
  PROVE  IsFiniteSet(ReleasedRecords(h))
<1> DEFINE f == [r \in payloads |->
                   IF SamePayloadHandle(r.handle, h)
                   THEN [r EXCEPT !.active = FALSE] ELSE r]
<1>1. f \in Surjection(payloads, ReleasedRecords(h))
  BY DEF Surjection, ReleasedRecords
<1> QED
  BY <1>1, FS_Surjection

LEMMA ReleaseInv ==
  ASSUME RingInv, NEW q \in payloads, ReleasePayloadHandle(q.handle)
  PROVE  RingInv'
<1> DEFINE h == q.handle
<1>1. /\ payloads' = ReleasedRecords(h)
      /\ released' = released \cup {h.generation}
      /\ UNCHANGED <<producer, consumer, nextSequence, slots, arena, offered,
                     received>>
  BY DEF ReleasePayloadHandle
<1>2. h \in Handle
  BY DEF RingInv, RingTypeOK, PayloadRecord
<1>3. \A r \in payloads' :
        \E p \in payloads :
          /\ r.handle = p.handle
          /\ r \in PayloadRecord
          /\ IF SamePayloadHandle(p.handle, h) THEN ~r.active ELSE r = p
  BY <1>1, <1>2, ReleasedRecord DEF RingInv
<1>4. h.generation \in Nat
  BY <1>2 DEF Handle
<1>5. RingTypeOK'
  BY <1>1, <1>3, <1>4 DEF RingInv, RingTypeOK
<1>6. IsFiniteSet(payloads')
  BY <1>1, ReleasedRecordsFinite DEF RingInv
<1>7. ActivePayloads' \subseteq ActivePayloads
  BY <1>3 DEF ActivePayloads
<1>8. ActivePayloadsAreDisjoint'
  BY <1>7 DEF RingInv, ActivePayloadsAreDisjoint
<1>9. PayloadInv'
  <2> SUFFICES ASSUME NEW r \in payloads'
               PROVE  /\ r.active => \A b \in r.handle.offset ..
                                        r.handle.offset + r.handle.length - 1 :
                                      arena'[b] = r.handle.crc
                      /\ ~r.active => r.handle.generation \in released'
    BY DEF PayloadInv
  <2>1. PICK p \in payloads :
          /\ r.handle = p.handle
          /\ IF SamePayloadHandle(p.handle, h) THEN ~r.active ELSE r = p
    BY <1>3
  <2>2. CASE SamePayloadHandle(p.handle, h)
    BY <2>1, <2>2, <1>1 DEF SamePayloadHandle, SamePayloadIdentity
  <2>3. CASE ~SamePayloadHandle(p.handle, h)
    BY <2>1, <2>3, <1>1 DEF RingInv, PayloadInv
  <2> QED
    BY <2>2, <2>3
<1>10. WindowInv'
  BY <1>1 DEF RingInv, WindowInv
<1> QED
  BY <1>5, <1>6, <1>8, <1>9, <1>10 DEF RingInv

LEMMA RingStutter == ASSUME RingInv, UNCHANGED ringVars PROVE RingInv'
  BY DEF RingInv, RingTypeOK, ActivePayloadsAreDisjoint, ActivePayloads, PayloadInv,
         WindowInv, ringVars

\* The ring keeps its invariant.
THEOREM RingInvariant == Spec => []RingInv
<1>1. RingInv /\ [Next]_ringVars => RingInv'
  <2> SUFFICES ASSUME RingInv, Next PROVE RingInv'
    BY RingStutter
  <2>1. CASE \E k \in Kinds, length \in 1 .. MaxPayload : EnqueueInline(k, length)
    BY <2>1, EnqueueInlineInv
  <2>2. CASE \E k \in Kinds, length \in 1 .. MaxPayload : EnqueueHandle(k, length)
    BY <2>2, EnqueueHandleInv
  <2>3. CASE \E k \in Kinds, length \in 1 .. MaxPayload : EnqueueExhausted(k, length)
    BY <2>3, EnqueueExhaustedInv
  <2>4. CASE Dequeue
    BY <2>4, DequeueInv
  <2>5. CASE \E r \in payloads : ReleasePayloadHandle(r.handle)
    BY <2>5, ReleaseInv
  <2> QED
    BY <2>1, <2>2, <2>3, <2>4, <2>5 DEF Next
<1> QED
  BY <1>1, RingInitial, PTL DEF Spec

-----------------------------------------------------------------------------
\* Payloads in the arena never share a byte, for any size of the arena and any
\* order of allocations and releases (FindPayloadOffset, AllocatePayloadRecord,
\* ReleasePayloadHandle).
THEOREM PayloadsNeverOverlap == Spec => []ActivePayloadsAreDisjoint
<1>1. RingInv => ActivePayloadsAreDisjoint
  BY DEF RingInv
<1> QED
  BY <1>1, RingInvariant, PTL

-----------------------------------------------------------------------------
(* First fit.  With the payloads disjoint, the walk passes them in the order *)
(* of their offsets.                                                         *)

LEMMA FirstPayload ==
  ASSUME RingTypeOK, ActivePayloadsAreDisjoint, NEW H, H \subseteq ActivePayloads, H # {}
  PROVE  \E h \in H : \A g \in H : g = h \/ h.offset < g.offset
<1> DEFINE S == {h.offset : h \in H}
<1>1. S \subseteq Nat /\ S # {}
  BY ActiveFacts
<1>2. PICK m \in S : \A n \in S : m <= n
  BY <1>1, LowestNatural
<1>3. PICK h \in H : m = h.offset
  BY <1>2
<1>4. ASSUME NEW g \in H, g # h PROVE h.offset < g.offset
  <2>1. /\ h.offset \in Nat /\ g.offset \in Nat /\ h.length \in Nat /\ g.length \in Nat
        /\ h.length >= 1 /\ g.length >= 1 /\ h.offset <= g.offset
    BY <1>2, <1>3, ActiveFacts
  <2>2. ~RangesOverlap(g.offset, g.length, h.offset, h.length)
    BY <1>4 DEF ActivePayloadsAreDisjoint
  <2> QED
    BY <2>1, <2>2 DEF RangesOverlap
<1> QED
  BY <1>4

LEMMA SortedByOffset ==
  ASSUME RingTypeOK, ActivePayloadsAreDisjoint, NEW h \in ActivePayloads
  PROVE  /\ SortedBefore(h) = {g \in ActivePayloads : g.offset < h.offset}
         /\ SortedBefore(h) \subseteq ActivePayloads
<1>1. ASSUME NEW g \in ActivePayloads, g.offset = h.offset PROVE ~(g.length < h.length)
  <2>1. /\ h.offset \in Nat /\ g.offset \in Nat /\ h.length \in Nat /\ g.length \in Nat
        /\ h.length >= 1 /\ g.length >= 1
    BY ActiveFacts
  <2>2. g # h => ~RangesOverlap(g.offset, g.length, h.offset, h.length)
    BY DEF ActivePayloadsAreDisjoint
  <2> QED
    BY <1>1, <2>1, <2>2 DEF RangesOverlap
<1> QED
  BY <1>1 DEF SortedBefore

\* Where there is room at d and a payload ends behind d, the walk has room
\* before the first such payload.
LEMMA WalkStops ==
  ASSUME RingTypeOK, ActivePayloadsAreDisjoint, NEW length \in 1 .. MaxPayload, NEW d \in Nat,
         ~CandidateOverlapsActive(d, length),
         NEW g0 \in ActivePayloads, d < g0.offset + g0.length
  PROVE  \E k \in RoomBefore(length) : k.offset <= g0.offset
<1> DEFINE K == {g \in ActivePayloads : d < g.offset + g.length}
<1>1. K \subseteq ActivePayloads /\ g0 \in K
  OBVIOUS
<1>2. PICK k \in K : \A g \in K : g = k \/ k.offset < g.offset
  BY <1>1, FirstPayload
<1>3. /\ k \in ActivePayloads /\ d < k.offset + k.length
      /\ k.offset \in Nat /\ k.length \in Nat /\ g0.offset \in Nat
  BY <1>2, ActiveFacts
<1>4. length \in Nat /\ length >= 1
  BY RingConstants
<1>5. d + length <= k.offset
  <2>1. ~RangesOverlap(d, length, k.offset, k.length)
    BY <1>3 DEF CandidateOverlapsActive
  <2> QED
    BY <1>3, <1>4, <2>1 DEF RangesOverlap
<1>6. ASSUME NEW g \in SortedBefore(k) PROVE g.offset + g.length <= d
  <2>1. g \in ActivePayloads /\ g.offset < k.offset
    BY <1>3, SortedByOffset
  <2>2. g.offset \in Nat /\ g.length \in Nat
    BY <2>1, ActiveFacts
  <2>3. g \notin K
    BY <1>2, <1>3, <2>1, <2>2
  <2> QED
    BY <2>1, <2>2, <2>3
<1>7. CursorBehind(SortedBefore(k)) <= d /\ CursorBehind(SortedBefore(k)) \in Nat
  <2>1. SortedBefore(k) \subseteq ActivePayloads
    BY <1>3, SortedByOffset
  <2> QED
    BY <1>6, <2>1, CursorFacts
<1>8. k \in RoomBefore(length)
  BY <1>3, <1>4, <1>5, <1>7 DEF RoomBefore
<1>9. k.offset <= g0.offset
  BY <1>1, <1>2, <1>3
<1> QED
  BY <1>8, <1>9

LEMMA WalkIsLowest ==
  ASSUME RingTypeOK, ActivePayloadsAreDisjoint, NEW length \in 1 .. MaxPayload,
         NEW c \in FindPayloadOffset(length)
  PROVE  c \in LowestRoom(length)
<1> DEFINE stops == RoomBefore(length)
<1>1. length \in Nat /\ length >= 1 /\ ArenaSize \in Nat
  BY RingConstants
<1>2. PICK H : /\ H \subseteq ActivePayloads /\ c = CursorBehind(H) /\ c + length <= ArenaSize
               /\ \A g \in ActivePayloads \ H : c + length <= g.offset
               /\ \A g \in H, k \in stops : ~(k.offset <= g.offset)
  <2>1. CASE stops = {}
    BY <2>1 DEF FindPayloadOffset
  <2>2. CASE stops # {}
    <3>1. PICK h \in stops : /\ c = CursorBehind(SortedBefore(h))
                             /\ stops \cap SortedBefore(h) = {}
      BY <2>2 DEF FindPayloadOffset
    <3>2. /\ h \in ActivePayloads /\ c + length <= h.offset
          /\ SortedBefore(h) = {g \in ActivePayloads : g.offset < h.offset}
      BY <3>1, SortedByOffset DEF RoomBefore
    <3>3. c \in Nat /\ h.offset \in Nat /\ h.offset <= ArenaSize
      BY <1>1, <3>1, <3>2, CursorFacts, ActiveFacts
    <3>4. c + length <= ArenaSize
      BY <1>1, <3>2, <3>3
    <3>5. ASSUME NEW g \in ActivePayloads, g \notin SortedBefore(h) PROVE c + length <= g.offset
      BY <1>1, <3>2, <3>3, <3>5, ActiveFacts
    <3>6. ASSUME NEW g \in SortedBefore(h), NEW k \in stops, k.offset <= g.offset PROVE FALSE
      <4>1. k \in ActivePayloads /\ g \in ActivePayloads /\ g.offset < h.offset
        BY <3>2, <3>6 DEF RoomBefore
      <4>2. k.offset < h.offset
        BY <3>3, <3>6, <4>1, ActiveFacts
      <4> QED
        BY <3>1, <3>2, <3>6, <4>1, <4>2
    <3> QED
      BY <3>1, <3>2, <3>4, <3>5, <3>6
  <2> QED
    BY <2>1, <2>2
<1>3. /\ c \in Nat /\ \A h \in H : h.offset + h.length <= c
      /\ c = 0 \/ \E h \in H : c = h.offset + h.length
  BY <1>2, CursorFacts
<1>4. ASSUME NEW g \in ActivePayloads PROVE ~RangesOverlap(c, length, g.offset, g.length)
  <2>1. g.offset \in Nat /\ g.length \in Nat
    BY ActiveFacts
  <2>2. g.offset + g.length <= c \/ c + length <= g.offset
    BY <1>2, <1>3
  <2> QED
    BY <1>1, <1>3, <2>1, <2>2 DEF RangesOverlap
<1>5. ASSUME NEW d \in 0 .. c - 1, ~CandidateOverlapsActive(d, length) PROVE FALSE
  <2>1. d \in Nat /\ d < c /\ c # 0
    BY <1>3
  <2>2. PICK g \in H : c = g.offset + g.length
    BY <1>3, <2>1
  <2>3. \E k \in stops : k.offset <= g.offset
    BY <1>2, <1>5, <2>1, <2>2, WalkStops
  <2> QED
    BY <1>2, <2>3
<1>6. c \in 0 .. ArenaSize - length
  BY <1>1, <1>2, <1>3
<1>7. ~CandidateOverlapsActive(c, length)
  BY <1>4 DEF CandidateOverlapsActive
<1> QED
  BY <1>5, <1>6, <1>7 DEF LowestRoom

LEMMA WalkMissesNothing ==
  ASSUME RingTypeOK, ActivePayloadsAreDisjoint, NEW length \in 1 .. MaxPayload,
         NEW o \in LowestRoom(length)
  PROVE  FindPayloadOffset(length) # {}
<1> DEFINE stops == RoomBefore(length)
<1>1. /\ length \in Nat /\ length >= 1 /\ ArenaSize \in Nat
      /\ o \in Nat /\ o + length <= ArenaSize /\ ~CandidateOverlapsActive(o, length)
  BY RingConstants DEF LowestRoom
<1>2. CASE stops # {}
  <2>1. stops \subseteq ActivePayloads
    BY DEF RoomBefore
  <2>2. PICK h \in stops : \A g \in stops : g = h \/ h.offset < g.offset
    BY <1>2, <2>1, FirstPayload
  <2>3. stops \cap SortedBefore(h) = {}
    <3>1. SortedBefore(h) = {g \in ActivePayloads : g.offset < h.offset}
      BY <2>1, <2>2, SortedByOffset
    <3> QED
      BY <2>1, <2>2, <3>1, ActiveFacts
  <2> QED
    BY <1>2, <2>2, <2>3 DEF FindPayloadOffset
<1>3. CASE stops = {}
  <2>1. ASSUME NEW g \in ActivePayloads PROVE g.offset + g.length <= o
    BY <1>1, <1>3, <2>1, WalkStops, ActiveFacts
  <2>2. CursorBehind(ActivePayloads) <= o /\ CursorBehind(ActivePayloads) \in Nat
    BY <1>1, <2>1, CursorFacts
  <2>3. CursorBehind(ActivePayloads) + length <= ArenaSize
    BY <1>1, <2>2
  <2> QED
    BY <1>3, <2>3 DEF FindPayloadOffset
<1> QED
  BY <1>2, <1>3

\* For any size of the arena and any order of allocations and releases, a
\* payload is put at the lowest offset with room and refused only if there is
\* none: the sorted walk of FindPayloadOffset misses no hole, and the overlap
\* check of AllocatePayloadRecord refuses nothing it found.
THEOREM AllocatesFirstFit == Spec => []AllocationIsFirstFit
<1>1. RingInv => AllocationIsFirstFit
  <2> SUFFICES ASSUME RingInv, NEW length \in 1 .. MaxPayload
               PROVE  AllocationOffsets(length) = LowestRoom(length)
    BY DEF AllocationIsFirstFit
  <2>1. RingTypeOK /\ ActivePayloadsAreDisjoint
    BY DEF RingInv
  <2>2. FindPayloadOffset(length) \subseteq LowestRoom(length)
    BY <2>1, WalkIsLowest
  <2>3. AllocationOffsets(length) = FindPayloadOffset(length)
    BY <2>2 DEF AllocationOffsets, LowestRoom
  <2>4. \A o, c \in LowestRoom(length) : o = c
    <3> SUFFICES ASSUME NEW o \in LowestRoom(length), NEW c \in LowestRoom(length) PROVE o = c
      OBVIOUS
    <3>1. /\ o \in Nat /\ c \in Nat
          /\ ~CandidateOverlapsActive(o, length) /\ ~CandidateOverlapsActive(c, length)
          /\ \A d \in 0 .. o - 1 : CandidateOverlapsActive(d, length)
          /\ \A d \in 0 .. c - 1 : CandidateOverlapsActive(d, length)
      BY RingConstants DEF LowestRoom
    <3>2. o \notin 0 .. c - 1 /\ c \notin 0 .. o - 1
      BY <3>1
    <3> QED
      BY <3>1, <3>2
  <2>5. LowestRoom(length) # {} => FindPayloadOffset(length) # {}
    BY <2>1, WalkMissesNothing
  <2> QED
    BY <2>2, <2>3, <2>4, <2>5
<1> QED
  BY <1>1, RingInvariant, PTL

-----------------------------------------------------------------------------
(* Handles.  Generations are never used twice, so a record is told from every *)
(* other by its own, and what was released stays released.                    *)

GenerationInv ==
    /\ \A r \in payloads : /\ r.handle.generation <= Cardinality(payloads)
                           /\ r.active => r.handle.generation \notin released
    /\ \A p, r \in payloads : p.handle.generation = r.handle.generation => p = r
    /\ \A n \in released : n <= Cardinality(payloads)

LEMMA ReleasedRecordsCount ==
  ASSUME RingInv, GenerationInv, NEW h \in Handle
  PROVE  Cardinality(ReleasedRecords(h)) = Cardinality(payloads)
<1> DEFINE f == [r \in payloads |->
                   IF SamePayloadHandle(r.handle, h)
                   THEN [r EXCEPT !.active = FALSE] ELSE r]
<1>1. f \in Surjection(payloads, ReleasedRecords(h))
  BY DEF Surjection, ReleasedRecords
<1>2. \A r \in payloads : f[r].handle = r.handle
  <2>1. \A r \in payloads : r \in PayloadRecord
    BY DEF RingInv, RingTypeOK
  <2> QED
    BY <2>1 DEF PayloadRecord
<1>3. \A p, r \in payloads : f[p] = f[r] => p = r
  <2> HIDE DEF f
  <2>1. ASSUME NEW p \in payloads, NEW r \in payloads, f[p] = f[r] PROVE p = r
    <3>1. p.handle = r.handle
      BY <1>2, <2>1
    <3> QED
      BY <3>1 DEF GenerationInv
  <2> QED
    BY <2>1
<1>4. f \in Injection(payloads, ReleasedRecords(h))
  <2>1. f \in [payloads -> ReleasedRecords(h)]
    BY <1>1 DEF Surjection
  <2> HIDE DEF f
  <2> QED
    BY <1>3, <2>1 DEF Injection, IsInjective
<1> QED
  BY <1>1, <1>4, FS_Surjection DEF RingInv

LEMMA GenerationStep ==
  ASSUME RingInv, GenerationInv, [Next]_ringVars
  PROVE  GenerationInv'
<1>1. Cardinality(payloads) \in Nat /\ released \subseteq Nat
      /\ \A r \in payloads : r \in PayloadRecord /\ r.handle \in Handle /\ r.handle.generation \in Nat
  BY FS_CardinalityType DEF RingInv, RingTypeOK, PayloadRecord, Handle
<1>2. CASE payloads' = payloads /\ released' = released
  BY <1>2 DEF GenerationInv
<1>3. ASSUME NEW k \in Kinds, NEW length \in 1 .. MaxPayload, EnqueueHandle(k, length)
      PROVE  GenerationInv'
  <2>1. PICK o : payloads' = payloads \cup
          {[handle |-> NewHandle(k, producer % SlotCount, length, o, offered + 1), active |-> TRUE]}
    BY <1>3 DEF EnqueueHandle
  <2> DEFINE h == NewHandle(k, producer % SlotCount, length, o, offered + 1)
             new == [handle |-> h, active |-> TRUE]
             n == Cardinality(payloads)
  <2>2. new.handle.generation = n + 1 /\ released' = released
    BY <1>3 DEF EnqueueHandle, NewHandle, NextPayloadGeneration
  <2>3. payloads' = payloads \cup {new}
    BY <2>1
  <2> HIDE DEF h, new
  <2>4. new \notin payloads
    BY <1>1, <2>2 DEF GenerationInv
  <2>5. Cardinality(payloads') = n + 1
    BY <2>3, <2>4, FS_AddElement DEF RingInv
  <2> HIDE DEF n
  <2>6. \A r \in payloads : r.handle.generation <= n
    BY DEF GenerationInv, n
  <2>7. \A r \in payloads : r.handle.generation # n + 1
    BY <1>1, <2>6 DEF n
  <2>8. \A g \in released : g <= n /\ g # n + 1
    BY <1>1 DEF GenerationInv, n
  <2>9. ASSUME NEW r \in payloads'
        PROVE  r.handle.generation <= n + 1 /\ (r.active => r.handle.generation \notin released)
    <3>1. n \in Nat
      BY <1>1 DEF n
    <3>2. CASE r \in payloads
      BY <1>1, <2>6, <3>1, <3>2 DEF GenerationInv
    <3>3. CASE r = new
      BY <2>2, <2>8, <3>1, <3>3
    <3> QED
      BY <2>3, <3>2, <3>3
  <2>10. \A p, r \in payloads' : p.handle.generation = r.handle.generation => p = r
    BY <2>2, <2>3, <2>7 DEF GenerationInv
  <2>11. \A g \in released : g <= n + 1
    BY <1>1, <2>8 DEF n
  <2> QED
    BY <2>2, <2>5, <2>9, <2>10, <2>11 DEF GenerationInv
<1>4. ASSUME NEW q \in payloads, ReleasePayloadHandle(q.handle) PROVE GenerationInv'
  <2> DEFINE h == q.handle
  <2>1. payloads' = ReleasedRecords(h) /\ released' = released \cup {h.generation} /\ h \in Handle
    BY <1>1, <1>4 DEF ReleasePayloadHandle
  <2>2. Cardinality(payloads') = Cardinality(payloads)
    BY <2>1, ReleasedRecordsCount
  <2>3. ASSUME NEW r \in payloads'
        PROVE  \E p \in payloads : /\ r.handle = p.handle
                                   /\ IF SamePayloadHandle(p.handle, h) THEN ~r.active ELSE r = p
    BY <2>1, <2>3, ReleasedRecord DEF RingInv
  <2>4. ASSUME NEW r \in payloads'
        PROVE  /\ r.handle.generation <= Cardinality(payloads)
               /\ r.active => r.handle.generation \notin released'
    <3>1. PICK p \in payloads : /\ r.handle = p.handle
                               /\ IF SamePayloadHandle(p.handle, h) THEN ~r.active ELSE r = p
      BY <2>3
    <3>2. p.handle.generation = h.generation => p = q
      BY DEF GenerationInv
    <3>3. SamePayloadHandle(q.handle, h)
      BY DEF SamePayloadHandle, SamePayloadIdentity
    <3>4. r.active => r = p /\ r.handle.generation # h.generation
      BY <3>1, <3>2, <3>3
    <3> QED
      BY <2>1, <3>1, <3>4 DEF GenerationInv
  <2>5. ASSUME NEW r1 \in payloads', NEW r2 \in payloads',
               r1.handle.generation = r2.handle.generation
        PROVE  r1 = r2
    <3>1. PICK p1 \in payloads :
            r1 = IF SamePayloadHandle(p1.handle, h) THEN [p1 EXCEPT !.active = FALSE] ELSE p1
      BY <2>1 DEF ReleasedRecords
    <3>2. PICK p2 \in payloads :
            r2 = IF SamePayloadHandle(p2.handle, h) THEN [p2 EXCEPT !.active = FALSE] ELSE p2
      BY <2>1 DEF ReleasedRecords
    <3>3. r1.handle = p1.handle /\ r2.handle = p2.handle
      BY <1>1, <3>1, <3>2 DEF PayloadRecord
    <3>4. p1 = p2
      BY <2>5, <3>3 DEF GenerationInv
    <3> QED
      BY <3>1, <3>2, <3>4
  <2>6. \A g \in released' : g <= Cardinality(payloads)
    BY <2>1 DEF GenerationInv
  <2> QED
    BY <2>2, <2>4, <2>5, <2>6 DEF GenerationInv
<1>5. CASE Dequeue \/ \E k \in Kinds, length \in 1 .. MaxPayload :
                        EnqueueInline(k, length) \/ EnqueueExhausted(k, length)
  BY <1>2, <1>5 DEF Dequeue, EnqueueInline, EnqueueExhausted
<1> QED
  BY <1>2, <1>3, <1>4, <1>5 DEF Next, ringVars

\* A handle reads the bytes it was sent with until it is released itself, and
\* nothing afterwards, for any number of slots, payloads and late or repeated
\* releases (ResolveHandle, ReleasePayloadHandle).
THEOREM HandlesResolve == Spec => []HandlesResolveUntilReleased
<1>1. Init => GenerationInv
  BY DEF Init, GenerationInv
<1>2. RingInv /\ GenerationInv => HandlesResolveUntilReleased
  <2> SUFFICES ASSUME RingInv, GenerationInv, NEW r \in payloads
               PROVE  ResolveHandle(r.handle) <=> r.handle.generation \notin released
    BY DEF HandlesResolveUntilReleased
  <2>1. r.active <=> r.handle.generation \notin released
    BY DEF RingInv, PayloadInv, GenerationInv
  <2>2. KnownHandle(r.handle) <=> r.active
    <3>1. r.active => KnownHandle(r.handle)
      BY DEF KnownHandle, ActivePayloads, SamePayloadHandle, SamePayloadIdentity
    <3>2. ASSUME KnownHandle(r.handle) PROVE r.active
      <4>1. PICK p \in payloads : p.active /\ p.handle.generation = r.handle.generation
        BY <3>2 DEF KnownHandle, ActivePayloads, SamePayloadHandle, SamePayloadIdentity
      <4> QED
        BY <4>1 DEF GenerationInv
    <3> QED
      BY <3>1, <3>2
  <2>3. ASSUME r.active PROVE ArenaBytes(r.handle) = {r.handle.crc}
    <3>1. /\ r.handle.offset \in Nat
          /\ r.handle.length \in Nat
          /\ r.handle.length >= 1
      BY RingConstants DEF RingInv, RingTypeOK, PayloadRecord, Handle, ArenaIndexes
    <3>2. r.handle.offset \in r.handle.offset .. r.handle.offset + r.handle.length - 1
      BY <3>1
    <3> QED
      BY <2>3, <3>2 DEF RingInv, PayloadInv, ArenaBytes
  <2> QED
    BY <2>1, <2>2, <2>3 DEF ResolveHandle
<1>3. RingInv /\ GenerationInv /\ [Next]_ringVars => GenerationInv'
  BY GenerationStep
<1> QED
  BY <1>1, <1>2, <1>3, RingInvariant, PTL DEF Spec

-----------------------------------------------------------------------------
(* The ring implements the queue.                                          *)

MessagesInWindow == [n \in 1 .. Len(Window) |-> MessageOf(Window[n])]
MessagesReceived == [n \in 1 .. Len(received) |-> MessageOf(received[n])]

LEMMA SeqOfLength ==
  ASSUME NEW S, NEW n \in Nat, NEW f \in [1 .. n -> S]
  PROVE  f \in Seq(S) /\ Len(f) = n
<1>1. f \in Seq(S)
  BY SeqDef
<1>2. Len(f) \in Nat /\ 1 .. Len(f) = 1 .. n
  BY <1>1, LenProperties
<1> QED
  BY <1>1, <1>2

LEMMA MessageType == \A f \in Frame : MessageOf(f) \in Messages
  BY DEF Frame, MessageOf, Messages

\* The messages in the window, slot by slot.
WindowFacts ==
    /\ producer - consumer \in Nat
    /\ MessagesInWindow \in Seq(Messages)
    /\ Len(MessagesInWindow) = producer - consumer
    /\ \A n \in 1 .. producer - consumer :
         MessagesInWindow[n] = MessageOf(slots[(consumer + n - 1) % SlotCount].frame)

LEMMA WindowMessages == RingInv => WindowFacts
<1> SUFFICES ASSUME RingInv PROVE WindowFacts
  OBVIOUS
<1>1. producer \in Nat /\ consumer \in Nat /\ producer - consumer \in Nat
  BY DEF RingInv, RingTypeOK, WindowInv
<1>2. \A n \in 1 .. producer - consumer :
        /\ consumer + n - 1 \in consumer .. producer - 1
        /\ consumer + n - 1 \in Nat
  BY <1>1
<1>3. \A n \in 1 .. producer - consumer :
        slots[(consumer + n - 1) % SlotCount].frame \in Frame
  BY <1>2, SlotOfCursor DEF RingInv, WindowInv
<1>4. Window \in [1 .. producer - consumer -> Frame]
  BY <1>3 DEF Window, readable_slots
<1>5. Len(Window) = producer - consumer
  BY <1>1, <1>4, SeqOfLength
<1>6. MessagesInWindow \in [1 .. producer - consumer -> Messages]
  BY <1>4, <1>5, MessageType DEF MessagesInWindow
<1>7. \A n \in 1 .. producer - consumer :
        MessagesInWindow[n] = MessageOf(slots[(consumer + n - 1) % SlotCount].frame)
  BY <1>5 DEF MessagesInWindow, Window, readable_slots
<1> QED
  BY <1>1, <1>6, <1>7, SeqOfLength DEF WindowFacts

LEMMA WindowMessagesNext == RingInv' => WindowFacts'
  BY WindowMessages, PTL

\* The messages received so far.
ReceivedFacts ==
    /\ MessagesReceived \in Seq(Messages)
    /\ Len(MessagesReceived) = Len(received)
    /\ \A n \in 1 .. Len(received) : MessagesReceived[n] = MessageOf(received[n])

LEMMA ReceivedMessages == RingInv => ReceivedFacts
<1> SUFFICES ASSUME RingInv PROVE ReceivedFacts
  OBVIOUS
<1>1. received \in Seq(Frame) /\ Len(received) \in Nat
  BY LenProperties DEF RingInv, RingTypeOK
<1>2. MessagesReceived \in [1 .. Len(received) -> Messages]
  BY <1>1, ElementOfSeq, MessageType DEF MessagesReceived
<1> QED
  BY <1>1, <1>2, SeqOfLength DEF MessagesReceived, ReceivedFacts

LEMMA ReceivedMessagesNext == RingInv' => ReceivedFacts'
  BY ReceivedMessages, PTL

\* Whatever is in the ring or was received has an earlier number than the
\* next frame of its kind.
Earlier(f, ns) == f.sequence < ns[f.kind]

SequenceInv ==
    /\ \A i \in SlotIndexes : slots[i].occupied => Earlier(slots[i].frame, nextSequence)
    /\ \A n \in 1 .. Len(received) : Earlier(received[n], nextSequence)

LEMMA SequenceStep ==
  ASSUME RingInv, SequenceInv, [Next]_ringVars
  PROVE  SequenceInv'
<1>1. /\ nextSequence \in [Kinds -> Nat] /\ received \in Seq(Frame) /\ producer \in Nat
      /\ slots \in [SlotIndexes ->
           [occupied : BOOLEAN, frame : Frame \cup {NoFrame}, generation : Nat]]
  BY RingConstants DEF RingInv, RingTypeOK
<1>2. /\ \A i \in SlotIndexes : slots[i].occupied => slots[i].frame \in Frame
      /\ \A n \in 1 .. Len(received) : received[n] \in Frame
      /\ Len(received) \in Nat
  BY <1>1, ElementOfSeq, LenProperties DEF RingInv, WindowInv
<1>3. ASSUME NEW k \in Kinds, nextSequence' = NextSequences(k)
      PROVE  /\ nextSequence'[k] = nextSequence[k] + 1 /\ nextSequence[k] \in Nat
             /\ \A f \in Frame : Earlier(f, nextSequence) => Earlier(f, nextSequence')
  <2>1. /\ nextSequence'[k] = nextSequence[k] + 1 /\ nextSequence[k] \in Nat
        /\ \A j \in Kinds : nextSequence[j] \in Nat /\ nextSequence[j] <= nextSequence'[j]
                           /\ nextSequence'[j] \in Nat
    BY <1>1, <1>3 DEF NextSequences
  <2>2. \A f \in Frame : f.kind \in Kinds /\ f.sequence \in Nat
    BY RingConstants DEF Frame, Requests
  <2> QED
    BY <2>1, <2>2 DEF Earlier
<1>4. ASSUME NEW k \in Kinds, NEW request, NEW length, NEW h, nextSequence' = NextSequences(k),
             received' = received, Publish(NewFrame(k, request, length, h))
      PROVE  SequenceInv'
  <2> DEFINE p == producer % SlotCount
             f == NewFrame(k, request, length, h)
  <2>1. p \in SlotIndexes /\ f.kind = k /\ f.sequence = nextSequence[k]
    BY <1>1, SlotOfCursor DEF NewFrame
  <2>2. slots'[p].frame = f /\ \A i \in SlotIndexes : i # p => slots'[i] = slots[i]
    BY <1>1, <1>4, <2>1 DEF Publish
  <2> HIDE DEF f, p
  <2>3. Earlier(f, nextSequence')
    BY <1>3, <1>4, <2>1 DEF Earlier
  <2>4. \A i \in SlotIndexes : slots'[i].occupied => Earlier(slots'[i].frame, nextSequence')
    BY <1>2, <1>3, <1>4, <2>2, <2>3 DEF SequenceInv
  <2>5. \A n \in 1 .. Len(received) : Earlier(received[n], nextSequence')
    BY <1>2, <1>3, <1>4 DEF SequenceInv
  <2> QED
    BY <1>4, <2>4, <2>5 DEF SequenceInv
<1>5. ASSUME NEW k \in Kinds, NEW length \in 1 .. MaxPayload,
             EnqueueInline(k, length) \/ EnqueueHandle(k, length)
      PROVE  SequenceInv'
  BY <1>4, <1>5 DEF EnqueueInline, EnqueueHandle
<1>6. ASSUME NEW k \in Kinds, NEW length \in 1 .. MaxPayload, EnqueueExhausted(k, length)
      PROVE  SequenceInv'
  <2>1. nextSequence' = NextSequences(k) /\ slots' = slots /\ received' = received
    BY <1>6 DEF EnqueueExhausted
  <2> QED
    BY <1>2, <1>3, <2>1 DEF SequenceInv
<1>7. CASE Dequeue
  <2>1. /\ ReadIndex \in SlotIndexes /\ FrameRead \in Frame
        /\ slots' = [slots EXCEPT ![ReadIndex] = SlotAfterDequeue(slots[ReadIndex])]
        /\ received' = Append(received, FrameRead) /\ nextSequence' = nextSequence
    BY <1>7, DequeueWindow DEF Dequeue
  <2>2. Earlier(FrameRead, nextSequence)
    BY <1>7, <2>1 DEF Dequeue, FrameRead, SequenceInv
  <2>3. /\ ~slots'[ReadIndex].occupied
        /\ \A i \in SlotIndexes : i # ReadIndex => slots'[i] = slots[i]
    BY <1>1, <2>1, SlotAfterDequeueType
  <2>4. \A i \in SlotIndexes : slots'[i].occupied => Earlier(slots'[i].frame, nextSequence)
    BY <2>3 DEF SequenceInv
  <2>5. /\ Len(received') = Len(received) + 1
        /\ \A n \in 1 .. Len(received) : received'[n] = received[n]
        /\ received'[Len(received) + 1] = FrameRead
    BY <1>1, <2>1, AppendProperties
  <2>6. \A n \in 1 .. Len(received') : Earlier(received'[n], nextSequence)
    <3>1. \A n \in 1 .. Len(received') : n = Len(received) + 1 \/ n \in 1 .. Len(received)
      BY <1>2, <2>5
    <3> QED
      BY <2>2, <2>5, <3>1 DEF SequenceInv
  <2> QED
    BY <2>1, <2>4, <2>6 DEF SequenceInv
<1>8. CASE (\E r \in payloads : ReleasePayloadHandle(r.handle)) \/ UNCHANGED ringVars
  BY <1>8 DEF SequenceInv, Earlier, ReleasePayloadHandle, ringVars
<1> QED
  BY <1>5, <1>6, <1>7, <1>8 DEF Next

\* A frame that is published is accepted by the queue.
LEMMA PublishAccepts ==
  ASSUME RingInv, RingInv', SequenceInv, NEW length \in 1 .. MaxPayload,
         NEW f \in Frame, Admits(length), Publish(f), consumer' = consumer,
         received' = received, f.sequence = nextSequence[f.kind]
  PROVE  Queue!Accept(MessageOf(f))
<1> DEFINE m == MessageOf(f)
<1>1. m \in Messages
  BY MessageType
<1>2. /\ producer \in Nat /\ consumer \in Nat /\ SlotCount \in Nat
      /\ DOMAIN slots = SlotIndexes
  BY RingConstants DEF RingInv, RingTypeOK
<1>3. producer' = producer + 1
  BY DEF Publish
<1>4. Len(MessagesInWindow) < SlotCount
  BY <1>2, WindowMessages DEF WindowFacts, Admits, available_slots, readable_slots
<1>5. /\ MessagesInWindow \in Seq(Messages)
      /\ Len(MessagesInWindow) = producer - consumer
      /\ producer - consumer \in Nat
      /\ MessagesInWindow' \in Seq(Messages)
      /\ Len(MessagesInWindow') = producer + 1 - consumer
  <2>1. (producer - consumer)' = producer + 1 - consumer
    BY <1>2, <1>3
  <2>2. /\ MessagesInWindow' \in Seq(Messages)
        /\ Len(MessagesInWindow') = (producer - consumer)'
    BY WindowMessagesNext DEF WindowFacts
  <2> QED
    BY <2>1, <2>2, WindowMessages DEF WindowFacts
<1>6. /\ Append(MessagesInWindow, m) \in Seq(Messages)
      /\ Len(Append(MessagesInWindow, m)) = producer + 1 - consumer
      /\ \A n \in 1 .. producer - consumer :
           Append(MessagesInWindow, m)[n] = MessagesInWindow[n]
      /\ Append(MessagesInWindow, m)[producer + 1 - consumer] = m
  BY <1>1, <1>2, <1>5, AppendProperties
<1>7. /\ producer % SlotCount \in SlotIndexes
      /\ slots'[producer % SlotCount].frame = f
      /\ \A i \in SlotIndexes : i # producer % SlotCount => slots'[i] = slots[i]
  BY <1>2, SlotOfCursor DEF Publish, RingInv, RingTypeOK
<1>8. \A n \in 1 .. producer - consumer :
        slots'[(consumer + n - 1) % SlotCount] = slots[(consumer + n - 1) % SlotCount]
  <2> SUFFICES ASSUME NEW n \in 1 .. producer - consumer
               PROVE  slots'[(consumer + n - 1) % SlotCount] =
                        slots[(consumer + n - 1) % SlotCount]
    OBVIOUS
  <2>1. consumer + n - 1 \in Nat /\ consumer + n - 1 \in consumer .. producer - 1
    BY <1>2
  <2>2. slots[(consumer + n - 1) % SlotCount].occupied
    BY <2>1 DEF RingInv, WindowInv
  <2>3. ~slots[producer % SlotCount].occupied
    BY DEF Admits
  <2>4. (consumer + n - 1) % SlotCount \in SlotIndexes
    BY <2>1, SlotOfCursor
  <2> QED
    BY <2>2, <2>3, <2>4, <1>7
<1>9. \A n \in 1 .. producer + 1 - consumer :
        MessagesInWindow'[n] = MessageOf(slots'[(consumer + n - 1) % SlotCount].frame)
  <2>1. \A n \in 1 .. (producer - consumer)' :
          MessagesInWindow'[n] =
            MessageOf(slots[(consumer + n - 1) % SlotCount].frame)'
    BY WindowMessagesNext DEF WindowFacts
  <2>2. (producer - consumer)' = producer + 1 - consumer
    BY <1>2, <1>3
  <2> QED
    BY <2>1, <2>2 DEF MessageOf
<1>10. \A n \in 1 .. producer + 1 - consumer :
         MessagesInWindow'[n] = Append(MessagesInWindow, m)[n]
  <2> SUFFICES ASSUME NEW n \in 1 .. producer + 1 - consumer
               PROVE  MessagesInWindow'[n] = Append(MessagesInWindow, m)[n]
    OBVIOUS
  <2>1. CASE n = producer + 1 - consumer
    <3>1. consumer + n - 1 = producer
      BY <2>1, <1>2
    <3> QED
      BY <2>1, <3>1, <1>6, <1>7, <1>9
  <2>2. CASE n # producer + 1 - consumer
    <3>1. n \in 1 .. producer - consumer
      BY <2>2, <1>2
    <3> QED
      BY <3>1, <1>6, <1>8, <1>9, WindowMessages DEF WindowFacts
  <2> QED
    BY <2>1, <2>2
<1>11. MessagesInWindow' = Append(MessagesInWindow, m)
  BY <1>5, <1>6, <1>10, SeqEqual
<1>12. MessagesReceived' = MessagesReceived
  BY DEF MessagesReceived, MessageOf
<1>13. m.kind = f.kind /\ m.sequence = nextSequence[f.kind]
  BY DEF MessageOf
<1>14. Queue!Newer(m, MessagesInWindow)
  <2> SUFFICES ASSUME NEW n \in 1 .. producer - consumer, MessagesInWindow[n].kind = m.kind
               PROVE  MessagesInWindow[n].sequence < m.sequence
    BY <1>5 DEF Queue!Newer
  <2> DEFINE i == (consumer + n - 1) % SlotCount
  <2>1. consumer + n - 1 \in Nat /\ consumer + n - 1 \in consumer .. producer - 1
    BY <1>2
  <2>2. i \in SlotIndexes /\ slots[i].occupied
    BY <2>1, SlotOfCursor DEF RingInv, WindowInv
  <2>3. MessagesInWindow[n] = MessageOf(slots[i].frame)
    BY WindowMessages DEF WindowFacts
  <2> HIDE DEF i
  <2>4. slots[i].frame.sequence < nextSequence[slots[i].frame.kind]
    BY <2>2 DEF SequenceInv, Earlier
  <2> QED
    BY <1>13, <2>3, <2>4 DEF MessageOf
<1>15. Queue!Newer(m, MessagesReceived)
  <2> SUFFICES ASSUME NEW n \in 1 .. Len(received), MessagesReceived[n].kind = m.kind
               PROVE  MessagesReceived[n].sequence < m.sequence
    BY ReceivedMessages DEF Queue!Newer, ReceivedFacts
  <2>1. MessagesReceived[n] = MessageOf(received[n])
    BY ReceivedMessages DEF ReceivedFacts
  <2>2. received[n].sequence < nextSequence[received[n].kind]
    BY DEF SequenceInv, Earlier
  <2> QED
    BY <1>13, <2>1, <2>2 DEF MessageOf
<1> QED
  BY <1>4, <1>11, <1>12, <1>14, <1>15 DEF Queue!Accept, MessagesInWindow, MessagesReceived

\* A frame that is dequeued is delivered by the queue.
LEMMA DequeueDelivers ==
  ASSUME RingInv, RingInv', Dequeue
  PROVE  Queue!Deliver
<1> DEFINE W == MessagesInWindow
           R == MessagesReceived
<1>1. /\ producer \in Nat /\ consumer \in Nat
      /\ received \in Seq(Frame) /\ Len(received) \in Nat
  BY LenProperties DEF RingInv, RingTypeOK
<1>2. /\ consumer < producer
      /\ consumer' = consumer + 1
      /\ FrameRead \in Frame
      /\ \A k \in consumer + 1 .. producer - 1 :
           slots'[k % SlotCount] = slots[k % SlotCount]
  BY DequeueWindow
<1>3. producer' = producer /\ received' = Append(received, FrameRead)
  BY DEF Dequeue
<1>4. /\ W \in Seq(Messages)
      /\ Len(W) = producer - consumer
      /\ \A n \in 1 .. producer - consumer :
           W[n] = MessageOf(slots[(consumer + n - 1) % SlotCount].frame)
  BY WindowMessages DEF WindowFacts
<1>5. W # <<>>
  BY <1>1, <1>2, <1>4, EmptySeq
<1>6. /\ Tail(W) \in Seq(Messages)
      /\ Len(Tail(W)) = producer - consumer - 1
      /\ \A n \in 1 .. producer - consumer - 1 : Tail(W)[n] = W[n + 1]
  BY <1>4, <1>5, HeadTailProperties
<1>7. /\ (producer - consumer)' = producer - consumer - 1
      /\ \A n \in 1 .. producer - consumer - 1 :
           (consumer + n - 1)' = consumer + (n + 1) - 1
  BY <1>1, <1>2, <1>3
<1>8. /\ W' \in Seq(Messages)
      /\ Len(W') = producer - consumer - 1
      /\ \A n \in 1 .. producer - consumer - 1 :
           W'[n] = MessageOf(slots'[(consumer + (n + 1) - 1) % SlotCount].frame)
  <2>1. /\ W' \in Seq(Messages)
        /\ Len(W') = (producer - consumer)'
        /\ \A n \in 1 .. (producer - consumer)' :
             W'[n] = MessageOf(slots'[(consumer + n - 1)' % SlotCount].frame)
    BY WindowMessagesNext DEF WindowFacts, MessageOf
  <2> QED
    BY <2>1, <1>7
<1>9. \A n \in 1 .. producer - consumer - 1 : W'[n] = Tail(W)[n]
  <2> SUFFICES ASSUME NEW n \in 1 .. producer - consumer - 1
               PROVE  W'[n] = Tail(W)[n]
    OBVIOUS
  <2>1. /\ consumer + (n + 1) - 1 \in consumer + 1 .. producer - 1
        /\ n + 1 \in 1 .. producer - consumer
    BY <1>1
  <2>2. slots'[(consumer + (n + 1) - 1) % SlotCount] =
          slots[(consumer + (n + 1) - 1) % SlotCount]
    BY <2>1, <1>2
  <2>3. W[n + 1] = MessageOf(slots[(consumer + (n + 1) - 1) % SlotCount].frame)
    BY <2>1, <1>4
  <2> QED
    BY <2>2, <2>3, <1>6, <1>8
<1>10. W' = Tail(W)
  BY <1>6, <1>8, <1>9, SeqEqual
<1>11. Head(W) = MessageOf(FrameRead)
  <2>1. Head(W) = W[1]
    BY <1>4, <1>5
  <2>2. 1 \in 1 .. producer - consumer /\ consumer + 1 - 1 = consumer
    BY <1>1, <1>2
  <2> QED
    BY <2>1, <2>2, <1>4 DEF FrameRead, ReadIndex
<1>12. /\ R \in Seq(Messages)
       /\ Len(R) = Len(received)
       /\ \A n \in 1 .. Len(received) : R[n] = MessageOf(received[n])
  BY ReceivedMessages DEF ReceivedFacts
<1>13. /\ R' \in Seq(Messages)
       /\ Len(R') = Len(received')
       /\ \A n \in 1 .. Len(received') : R'[n] = MessageOf(received'[n])
  BY ReceivedMessagesNext DEF ReceivedFacts, MessageOf
<1>14. /\ Len(received') = Len(received) + 1
       /\ \A n \in 1 .. Len(received) : received'[n] = received[n]
       /\ received'[Len(received) + 1] = FrameRead
  BY <1>1, <1>2, <1>3, AppendProperties
<1>15. MessageOf(FrameRead) \in Messages
  BY <1>2, MessageType
<1>16. /\ Append(R, MessageOf(FrameRead)) \in Seq(Messages)
       /\ Len(Append(R, MessageOf(FrameRead))) = Len(received) + 1
       /\ \A n \in 1 .. Len(received) : Append(R, MessageOf(FrameRead))[n] = R[n]
       /\ Append(R, MessageOf(FrameRead))[Len(received) + 1] = MessageOf(FrameRead)
  BY <1>12, <1>15, AppendProperties
<1>17. \A n \in 1 .. Len(received) + 1 : R'[n] = Append(R, MessageOf(FrameRead))[n]
  <2>1. \A n \in 1 .. Len(received) + 1 :
          n = Len(received) + 1 \/ n \in 1 .. Len(received)
    BY <1>1
  <2> QED
    BY <2>1, <1>12, <1>13, <1>14, <1>16
<1>18. R' = Append(R, Head(W))
  BY <1>11, <1>13, <1>14, <1>16, <1>17, SeqEqual
<1> QED
  BY <1>5, <1>10, <1>18 DEF Queue!Deliver, MessagesInWindow, MessagesReceived

LEMMA QueueStutter ==
  ASSUME UNCHANGED <<producer, consumer, slots, received>>
  PROVE  UNCHANGED Queue!queueVars
<1>1. Window' = Window
  BY DEF Window, readable_slots
<1> QED
  BY <1>1 DEF Queue!queueVars, MessageOf

LEMMA QueueInitial == Init => Queue!Init
<1> SUFFICES ASSUME Init PROVE Queue!Init
  OBVIOUS
<1>1. RingInv
  BY RingInitial
<1>2. MessagesInWindow \in Seq(Messages) /\ Len(MessagesInWindow) = 0
  BY <1>1, WindowMessages DEF WindowFacts, Init
<1>3. MessagesReceived \in Seq(Messages) /\ Len(MessagesReceived) = 0
  BY <1>1, ReceivedMessages, EmptySeq DEF ReceivedFacts, Init
<1>4. MessagesInWindow = <<>> /\ MessagesReceived = <<>>
  BY <1>2, <1>3, EmptySeq
<1> QED
  BY <1>4 DEF Queue!Init, MessagesInWindow, MessagesReceived

\* The ring is a bounded queue for any number of slots: every accepted frame is
\* delivered once, in order and with a greater number than any of its kind
\* before it, whatever numbers were lost to refused frames; what the arena and
\* the handles do is not visible (Enqueue, Dequeue, ReleasePayloadHandle).
THEOREM RingImplementsQueue == Spec => ImplementsQueue
<1>1. RingInv /\ RingInv' /\ SequenceInv /\ [Next]_ringVars => [Queue!Next]_(Queue!queueVars)
  <2> SUFFICES ASSUME RingInv, RingInv', SequenceInv, [Next]_ringVars
               PROVE  Queue!Next \/ UNCHANGED Queue!queueVars
    OBVIOUS
  <2>1. ASSUME NEW length \in 1 .. MaxPayload, NEW f \in Frame,
               Admits(length), Publish(f), consumer' = consumer, received' = received,
               f.sequence = nextSequence[f.kind]
        PROVE  Queue!Next
    <3>1. Queue!Accept(MessageOf(f))
      BY <2>1, PublishAccepts
    <3>2. MessageOf(f) \in Messages
      BY MessageType
    <3> QED
      BY <3>1, <3>2 DEF Queue!Next
  <2>2. ASSUME NEW k \in Kinds, NEW length \in 1 .. MaxPayload, EnqueueInline(k, length)
        PROVE  Queue!Next
    <3>1. NewFrame(k, offered + 1, length, NoHandle) \in Frame
      BY <2>2, NewFrameType DEF RingInv, EnqueueInline
    <3> QED
      BY <2>1, <2>2, <3>1 DEF EnqueueInline, NewFrame
  <2>3. ASSUME NEW k \in Kinds, NEW length \in 1 .. MaxPayload, EnqueueHandle(k, length)
        PROVE  Queue!Next
    <3>1. PICK o \in AllocationOffsets(length) :
            Publish(NewFrame(k, offered + 1, length,
                      NewHandle(k, producer % SlotCount, length, o, offered + 1)))
      BY <2>3 DEF EnqueueHandle
    <3>2. /\ offered + 1 \in Requests
          /\ Admits(length)
          /\ consumer' = consumer /\ received' = received
      BY <2>3 DEF EnqueueHandle
    <3>3. o \in ArenaIndexes
      BY AllocationIsFree DEF RingInv
    <3>4. producer % SlotCount \in SlotIndexes
      BY SlotOfCursor DEF RingInv, RingTypeOK
    <3>5. NewHandle(k, producer % SlotCount, length, o, offered + 1) \in Handle
      BY <3>2, <3>3, <3>4, NewHandleType
    <3>6. NewFrame(k, offered + 1, length,
            NewHandle(k, producer % SlotCount, length, o, offered + 1)) \in Frame
      BY <3>2, <3>5, NewFrameType DEF RingInv
    <3> QED
      BY <2>1, <3>1, <3>2, <3>6 DEF NewFrame
  <2>4. ASSUME NEW k \in Kinds, NEW length \in 1 .. MaxPayload, EnqueueExhausted(k, length)
        PROVE  UNCHANGED Queue!queueVars
    BY <2>4, QueueStutter DEF EnqueueExhausted
  <2>5. CASE Dequeue
    BY <2>5, DequeueDelivers DEF Queue!Next
  <2>6. ASSUME NEW r \in payloads, ReleasePayloadHandle(r.handle)
        PROVE  UNCHANGED Queue!queueVars
    BY <2>6, QueueStutter DEF ReleasePayloadHandle
  <2>7. CASE UNCHANGED ringVars
    BY <2>7, QueueStutter DEF ringVars
  <2> QED
    BY <2>2, <2>3, <2>4, <2>5, <2>6, <2>7 DEF Next
<1>2. Init => SequenceInv
  <2> SUFFICES ASSUME Init PROVE SequenceInv
    OBVIOUS
  <2>1. Len(received) = 0
    BY EmptySeq DEF Init
  <2>2. \A i \in SlotIndexes : ~slots[i].occupied
    BY DEF Init
  <2> QED
    BY <2>1, <2>2 DEF SequenceInv
<1>3. RingInv /\ SequenceInv /\ [Next]_ringVars => SequenceInv'
  BY SequenceStep
<1> QED
  BY <1>1, <1>2, <1>3, QueueInitial, RingInvariant, PTL DEF Spec, ImplementsQueue, Queue!Spec
=============================================================================
