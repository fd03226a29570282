------------------------------ MODULE IpcQueue ------------------------------
(***************************************************************************)
(* What the shared-memory ring promises its two sides: a bounded queue of  *)
(* frames, delivered once each and in the order they were accepted, which  *)
(* is that of their sequence numbers among the frames of a kind.           *)
(***************************************************************************)
EXTENDS Naturals, Sequences

CONSTANTS Frames, Capacity

VARIABLES queue, delivered

queueVars == <<queue, delivered>>

Init == queue = <<>> /\ delivered = <<>>

Newer(f, s) == \A n \in DOMAIN s : s[n].kind = f.kind => s[n].sequence < f.sequence

Accept(f) ==
    /\ Len(queue) < Capacity
    /\ Newer(f, queue) /\ Newer(f, delivered)
    /\ queue' = Append(queue, f)
    /\ UNCHANGED delivered

Deliver ==
    /\ queue # <<>>
    /\ queue' = Tail(queue)
    /\ delivered' = Append(delivered, Head(queue))

Next == Deliver \/ \E f \in Frames : Accept(f)

Spec == Init /\ [][Next]_queueVars
=============================================================================
