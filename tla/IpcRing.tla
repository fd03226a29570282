------------------------------- MODULE IpcRing -------------------------------
(***************************************************************************)
(* The ring that carries frames between a parser and the server            *)
(* (src/project/src/ipc/shared_memory_ipc_ring.cpp).  A frame takes one of *)
(* SlotCount descriptor slots; a payload of more than MaxInline bytes is   *)
(* put in the arena and named by a handle, which both sides may resolve    *)
(* and release whenever they like, also more than once and too late.       *)
(*                                                                         *)
(*   producer, consumer  cursors, counting up without wrapping             *)
(*   nextSequence        next sequence number, by kind of frame            *)
(*   slots               descriptor slots                                  *)
(*   arena               bytes of the payload arena                        *)
(*   payloads            records of all payloads ever put in the arena     *)
(*   offered             number of frames offered so far                   *)
(*   received            ghost: the frames dequeued                        *)
(*   released            ghost: generations of the payloads released       *)
(*                                                                         *)
(* A payload is its request: every byte of it is the number of the         *)
(* request, which also stands for its checksum.  The cursors, sequences    *)
(* and generations are 64 bits wide and do not wrap in practice.           *)
(***************************************************************************)
EXTENDS Naturals, Sequences, FiniteSetsExt

CONSTANTS
    SlotCount,    \* slot_count
    ArenaSize,    \* payload_capacity
    MaxInline,    \* max_inline_payload_bytes
    MaxPayload,   \* max_payload_bytes
    MaxRequests   \* bound: frames offered to the ring

\* The limits that Create imposes.
ASSUME RingConstants ==
    /\ SlotCount \in Nat \ {0}
    /\ ArenaSize \in Nat \ {0}
    /\ MaxInline \in Nat
    /\ MaxPayload \in Nat
    /\ MaxInline <= MaxPayload
    /\ MaxPayload <= ArenaSize
    /\ MaxRequests \in Nat

VARIABLES producer, consumer, nextSequence, slots, arena, payloads, offered,
          received, released

ringVars == <<producer, consumer, nextSequence, slots, arena, payloads,
              offered, received, released>>

Kinds == {"request", "result"}
SlotIndexes == 0 .. SlotCount - 1
ArenaIndexes == 0 .. ArenaSize - 1
Requests == 1 .. MaxRequests

Handle ==
    [kind : Kinds, slot : SlotIndexes, slotGeneration : Nat,
     generation : Nat \ {0}, offset : ArenaIndexes, length : 1 .. MaxPayload,
     crc : Requests]
NoHandle == [generation |-> 0]
Frame ==
    [kind : Kinds, request : Requests, sequence : Requests,
     length : 1 .. MaxPayload, handle : Handle \cup {NoHandle}]
NoFrame == [request |-> 0]
PayloadRecord == [handle : Handle, active : BOOLEAN]

Init ==
    /\ producer = 0
    /\ consumer = 0
    /\ nextSequence = [k \in Kinds |-> 1]
    /\ slots = [i \in SlotIndexes |->
                  [occupied |-> FALSE, frame |-> NoFrame, generation |-> 1]]
    /\ arena = [b \in ArenaIndexes |-> 0]
    /\ payloads = {}
    /\ offered = 0
    /\ received = <<>>
    /\ released = {}

-----------------------------------------------------------------------------
ActivePayloads == {r.handle : r \in {p \in payloads : p.active}}
RangesOverlap(a, la, b, lb) == a < b + lb /\ b < a + la

CandidateOverlapsActive(offset, length) ==
    \E h \in ActivePayloads : RangesOverlap(offset, length, h.offset, h.length)

\* Mutant: the payloads are walked in the order of their allocation.
SortedBeforeByAge(h) == {g \in ActivePayloads : g.generation < h.generation}

\* The active payloads before h in the walk of FindPayloadOffset, which has
\* them sorted by offset and length.
SortedBefore(h) ==
    {g \in ActivePayloads :
       g.offset < h.offset \/ (g.offset = h.offset /\ g.length < h.length)}

\* The cursor of the walk when it has passed the payloads H.
CursorBehind(H) == Max({0} \cup {h.offset + h.length : h \in H})

\* The payloads that leave room between the cursor and themselves.
RoomBefore(length) ==
    {h \in ActivePayloads : CursorBehind(SortedBefore(h)) + length <= h.offset}

\* The cursor at the first of them or else behind all payloads, if there is
\* room up to the end of the arena.
FindPayloadOffset(length) ==
    LET stops == RoomBefore(length)
    IN  IF stops = {}
        THEN {c \in {CursorBehind(ActivePayloads)} : c + length <= ArenaSize}
        ELSE {CursorBehind(SortedBefore(h)) :
                h \in {g \in stops : stops \cap SortedBefore(g) = {}}}

AllocationOffsets(length) ==
    {o \in FindPayloadOffset(length) : ~CandidateOverlapsActive(o, length)}

NextPayloadGeneration == Cardinality(payloads) + 1

\* AllocatePayloadRecord: the bytes are copied and recorded under a handle.
NewHandle(kind, index, length, offset, request) ==
    [kind |-> kind, slot |-> index, slotGeneration |-> slots[index].generation,
     generation |-> NextPayloadGeneration, offset |-> offset,
     length |-> length, crc |-> request]

Copied(offset, length, request) ==
    [b \in ArenaIndexes |->
       IF offset <= b /\ b < offset + length THEN request ELSE arena[b]]

-----------------------------------------------------------------------------
readable_slots == producer - consumer

available_slots == SlotCount - readable_slots

NewFrame(kind, request, length, handle) ==
    [kind |-> kind, request |-> request, sequence |-> nextSequence[kind],
     length |-> length, handle |-> handle]

\* The frame is put in the slot at the producer cursor.
Publish(frame) ==
    /\ slots' = [slots EXCEPT ![producer % SlotCount].occupied = TRUE,
                              ![producer % SlotCount].frame = frame]
    /\ producer' = producer + 1

NextSequences(kind) == [nextSequence EXCEPT ![kind] = @ + 1]

\* What Enqueue checks before it takes a sequence number.  Authority and
\* kind of the payload are checked too; they change nothing in the ring.
Admits(length) ==
    /\ producer >= consumer /\ readable_slots <= SlotCount
    /\ length \in 1 .. MaxPayload
    /\ available_slots # 0
    /\ ~slots[producer % SlotCount].occupied

\* Enqueue of a frame whose payload travels in the slot.
EnqueueInline(kind, length) ==
    LET request == offered + 1
    IN  /\ request \in Requests
        /\ Admits(length)
        /\ length <= MaxInline
        /\ offered' = request
        /\ Publish(NewFrame(kind, request, length, NoHandle))
        /\ nextSequence' = NextSequences(kind)
        /\ UNCHANGED <<consumer, arena, payloads, received, released>>

\* Enqueue of a frame whose payload goes to the arena.
EnqueueHandle(kind, length) ==
    LET request == offered + 1
        index == producer % SlotCount
    IN  /\ request \in Requests
        /\ Admits(length)
        /\ length > MaxInline
        /\ offered' = request
        /\ \E o \in AllocationOffsets(length) :
             LET h == NewHandle(kind, index, length, o, request)
             IN  /\ Publish(NewFrame(kind, request, length, h))
                 /\ arena' = Copied(o, length, request)
                 /\ payloads' = payloads \cup {[handle |-> h, active |-> TRUE]}
        /\ nextSequence' = NextSequences(kind)
        /\ UNCHANGED <<consumer, received, released>>

\* Enqueue refused for want of arena: the sequence number is gone.
EnqueueExhausted(kind, length) ==
    /\ offered + 1 \in Requests
    /\ Admits(length)
    /\ length > MaxInline
    /\ AllocationOffsets(length) = {}
    /\ offered' = offered + 1
    /\ nextSequence' = NextSequences(kind)
    /\ UNCHANGED <<producer, consumer, slots, arena, payloads, received,
                   released>>

SlotAfterDequeue(slot) ==
    [slot EXCEPT !.occupied = FALSE, !.generation = @ + 1]

ReadIndex == consumer % SlotCount

\* Mutant: the newest frame is read instead of the oldest.
FrameReadNewest == slots[(producer - 1) % SlotCount].frame

FrameRead == slots[ReadIndex].frame

Dequeue ==
    /\ producer >= consumer /\ readable_slots <= SlotCount
    /\ readable_slots # 0
    /\ slots[ReadIndex].occupied
    /\ received' = Append(received, FrameRead)
    /\ slots' = [slots EXCEPT ![ReadIndex] = SlotAfterDequeue(@)]
    /\ consumer' = consumer + 1
    /\ UNCHANGED <<producer, nextSequence, arena, payloads, offered, released>>

-----------------------------------------------------------------------------
SamePayloadIdentity(g, h) ==
    /\ g.slot = h.slot
    /\ g.slotGeneration = h.slotGeneration
    /\ g.generation = h.generation

SamePayloadHandle(g, h) ==
    /\ SamePayloadIdentity(g, h)
    /\ g.kind = h.kind /\ g.offset = h.offset /\ g.length = h.length
    /\ g.crc = h.crc

\* The handles ResolveHandle and ReleasePayloadHandle find a record for.
KnownHandle(h) ==
    \E g \in ActivePayloads : SamePayloadHandle(g, h)

ArenaBytes(h) == {arena[b] : b \in h.offset .. h.offset + h.length - 1}

\* ResolveHandle: the bytes at the handle, if they have its checksum.
ResolveHandle(h) == KnownHandle(h) /\ ArenaBytes(h) = {h.crc}

\* Mutant: the payload of the slot is released, whichever it is.
ReleasedRecordsOfSlot(h) ==
    {IF r.handle.slot = h.slot THEN [r EXCEPT !.active = FALSE] ELSE r :
       r \in payloads}

ReleasedRecords(h) ==
    {IF SamePayloadHandle(r.handle, h) THEN [r EXCEPT !.active = FALSE] ELSE r :
       r \in payloads}

\* ReleasePayloadHandle of a handle that is still active; any other is
\* refused and nothing changes.
ReleasePayloadHandle(h) ==
    /\ KnownHandle(h)
    /\ payloads' = ReleasedRecords(h)
    /\ released' = released \cup {h.generation}
    /\ UNCHANGED <<producer, consumer, nextSequence, slots, arena, offered,
                   received>>

Next ==
    \/ \E k \in Kinds, length \in 1 .. MaxPayload :
         \/ EnqueueInline(k, length)
         \/ EnqueueHandle(k, length)
         \/ EnqueueExhausted(k, length)
    \/ Dequeue
    \/ \E r \in payloads : ReleasePayloadHandle(r.handle)

Spec == Init /\ [][Next]_ringVars

-----------------------------------------------------------------------------
\* Slots, arena and records have their types, and payloads lie in the arena.
RingTypeOK ==
    /\ producer \in Nat
    /\ consumer \in Nat
    /\ nextSequence \in [Kinds -> 1 .. offered + 1]
    /\ slots \in [SlotIndexes ->
         [occupied : BOOLEAN, frame : Frame \cup {NoFrame}, generation : Nat]]
    /\ arena \in [ArenaIndexes -> 0 .. MaxRequests]
    /\ payloads \subseteq PayloadRecord
    /\ \A r \in payloads : r.handle.offset + r.handle.length <= ArenaSize
    /\ offered \in 0 .. MaxRequests
    /\ received \in Seq(Frame)
    /\ released \subseteq Nat

\* Payloads in the arena never share a byte.
ActivePayloadsAreDisjoint ==
    \A g, h \in ActivePayloads :
      g # h => ~RangesOverlap(g.offset, g.length, h.offset, h.length)

LowestRoom(length) ==
    {o \in 0 .. ArenaSize - length :
       /\ ~CandidateOverlapsActive(o, length)
       /\ \A d \in 0 .. o - 1 : CandidateOverlapsActive(d, length)}

\* A payload is put at the lowest offset at which it overlaps no payload in
\* use, and is refused only if there is none, whatever holes the releases have
\* left: the walk of FindPayloadOffset misses no room, and the overlap check
\* after it refuses nothing.
AllocationIsFirstFit ==
    \A length \in 1 .. MaxPayload : AllocationOffsets(length) = LowestRoom(length)

\* A handle reads the bytes it was sent with until it is released itself, and
\* nothing from then on: no release of another payload, no reuse of its slot
\* and no later payload takes them away or brings them back.
HandlesResolveUntilReleased ==
    \A r \in payloads :
      ResolveHandle(r.handle) <=> r.handle.generation \notin released

\* What a frame says to its receiver; the request stands for the payload.
Messages == [kind : Kinds, request : Requests, sequence : Requests]
MessageOf(f) == [kind |-> f.kind, request |-> f.request, sequence |-> f.sequence]

\* The frames in the window, oldest first.
Window ==
    [n \in 1 .. readable_slots |-> slots[(consumer + n - 1) % SlotCount].frame]

Queue == INSTANCE IpcQueue WITH
    Frames <- Messages, Capacity <- SlotCount,
    queue <- [n \in 1 .. Len(Window) |-> MessageOf(Window[n])],
    delivered <- [n \in 1 .. Len(received) |-> MessageOf(received[n])]

\* The ring is a bounded queue: every accepted frame is delivered once and in
\* order, with a greater number than any of its kind before it; releases and
\* refused frames are invisible, but for the numbers the latter used up.
ImplementsQueue == Queue!Spec
=============================================================================
