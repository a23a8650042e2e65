------------------------------- MODULE IqRing -------------------------------
(***************************************************************************)
(* The single-producer single-consumer ring of xrcomm_ip_shm_channel.h:    *)
(* the processing core of the platform copies a batch into a slot and      *)
(* publishes it by a release store of head; the secondary reads the slot   *)
(* in place and releases it by a release store of tail.                    *)
(*                                                                         *)
(* Memory accesses are separate steps.  An acquire load may return any     *)
(* value the other side has stored since the last value this side loaded   *)
(* (coherence); seenTail and seenHead remember that value.  Cursors are    *)
(* unsigned and wrap modulo W (2^32 in the code).                          *)
(***************************************************************************)
EXTENDS Integers, Sequences

CONSTANTS Depth,      \* XRCOMM_IQ_RING_DEPTH
          W,          \* number of values of a cursor
          MaxOffers   \* bound on the batches offered to the ring

ASSUME RingAssumption ==
  /\ Depth \in Nat \ {0}
  /\ W \in Nat /\ W > Depth /\ (W % Depth) = 0
  /\ MaxOffers \in Nat

VARIABLES
  head, tail,   \* the shared cursors
  slots,        \* slot -> the batch numbers its payload and its metadata hold
  ppc,          \* producer: "idle", "samples", "meta", "publish"
  offered,      \* number of the batch being or last dispatched
  pushedCount,  \* dispatch.batches_pushed
  droppedCount, \* dispatch.batches_dropped
  cpc,          \* consumer: "idle", "samples", "meta", "consume"
  got,          \* what the consumer has read of the slot it holds
  count,        \* last value xrcomm_iq_ring_count returned
  seenTail,     \* releases the producer's last load of tail covered
  seenHead,     \* publications the consumer's last load of head covered
  accepted,     \* history: batches published, in order
  out           \* history: what the consumer read of each slot it released

ringVars     == <<head, tail, slots>>
producerVars == <<ppc, offered, pushedCount, droppedCount, seenTail, accepted>>
consumerVars == <<cpc, got, count, seenHead, out>>
vars == <<ringVars, producerVars, consumerVars>>

Index == 0 .. (Depth - 1)
Word(b) == [samples |-> b, meta |-> b]   \* a slot holding batch b whole
Minus(x, y) == (x - y) % W               \* unsigned subtraction
SlotOf(cursor) == cursor % Depth         \* cursor & XRCOMM_IQ_RING_MASK

Init ==
  /\ head = 0 /\ tail = 0
  /\ slots = [i \in Index |-> Word(0)]
  /\ ppc = "idle" /\ offered = 0 /\ pushedCount = 0 /\ droppedCount = 0
  /\ cpc = "idle" /\ got = Word(0) /\ count = 0
  /\ seenTail = 0 /\ seenHead = 0
  /\ accepted = <<>> /\ out = <<>>

-----------------------------------------------------------------------------
(* Producer: xrcomm_iq_ring_push, called by ip_shm_dispatch_iq. *)

\* Variant: the consumer releases a slot before it has read it.
EarlyTailLoads == seenTail .. (Len(out) + IF cpc = "idle" THEN 0 ELSE 1)

TailLoads == seenTail .. Len(out)        \* values a load of tail may return

(* The loads of the two cursors find a free slot. *)
PushBegin ==
  /\ ppc = "idle" /\ offered < MaxOffers
  /\ \E n \in TailLoads :
       /\ Minus(head, n % W) < Depth
       /\ seenTail' = n
  /\ offered' = offered + 1
  /\ ppc' = "samples"
  /\ UNCHANGED <<pushedCount, droppedCount, accepted, ringVars, consumerVars>>

(* The ring is full as far as the producer sees: the batch is dropped. *)
PushFull ==
  /\ ppc = "idle" /\ offered < MaxOffers
  /\ \E n \in TailLoads :
       /\ Minus(head, n % W) >= Depth
       /\ seenTail' = n
  /\ offered' = offered + 1
  /\ droppedCount' = droppedCount + 1
  /\ UNCHANGED <<ppc, pushedCount, accepted, ringVars, consumerVars>>

\* Variant: the batch metadata is left as the previous batch of the slot wrote it.
PushSamplesOnly ==
  /\ ppc = "samples"
  /\ slots' = [slots EXCEPT ![SlotOf(head)].samples = offered]
  /\ ppc' = "publish"
  /\ UNCHANGED <<head, tail, offered, pushedCount, droppedCount, seenTail, accepted, consumerVars>>

PushSamples ==
  /\ ppc = "samples"
  /\ slots' = [slots EXCEPT ![SlotOf(head)].samples = offered]
  /\ ppc' = "meta"
  /\ UNCHANGED <<head, tail, offered, pushedCount, droppedCount, seenTail, accepted, consumerVars>>

PushMeta ==
  /\ ppc = "meta"
  /\ slots' = [slots EXCEPT ![SlotOf(head)].meta = offered]
  /\ ppc' = "publish"
  /\ UNCHANGED <<head, tail, offered, pushedCount, droppedCount, seenTail, accepted, consumerVars>>

\* Variant: the head cursor does not wrap.
UnwrappedPushPublish ==
  /\ ppc = "publish"
  /\ head' = head + 1
  /\ accepted' = Append(accepted, offered)
  /\ pushedCount' = pushedCount + 1
  /\ ppc' = "idle"
  /\ UNCHANGED <<tail, slots, offered, droppedCount, seenTail, consumerVars>>

PushPublish ==
  /\ ppc = "publish"
  /\ head' = (head + 1) % W
  /\ accepted' = Append(accepted, offered)
  /\ pushedCount' = pushedCount + 1
  /\ ppc' = "idle"
  /\ UNCHANGED <<tail, slots, offered, droppedCount, seenTail, consumerVars>>

-----------------------------------------------------------------------------
(* Consumer: xrcomm_iq_ring_peek, the reads through the pointer it returns, *)
(* xrcomm_iq_ring_consume and xrcomm_iq_ring_count.                         *)

HeadLoads == seenHead .. Len(accepted)   \* values a load of head may return

\* Variant: the cursors are ordered as if they never wrapped.
OrderedPeekFound ==
  /\ cpc = "idle"
  /\ \E n \in HeadLoads : n % W > tail /\ seenHead' = n
  /\ cpc' = "samples"
  /\ UNCHANGED <<got, count, out, ringVars, producerVars>>

PeekFound ==
  /\ cpc = "idle"
  /\ \E n \in HeadLoads : n % W # tail /\ seenHead' = n
  /\ cpc' = "samples"
  /\ UNCHANGED <<got, count, out, ringVars, producerVars>>

PeekEmpty ==
  /\ cpc = "idle"
  /\ \E n \in HeadLoads : n % W = tail /\ seenHead' = n
  /\ UNCHANGED <<cpc, got, count, out, ringVars, producerVars>>

ReadSamples ==
  /\ cpc = "samples"
  /\ got' = [got EXCEPT !.samples = slots[SlotOf(tail)].samples]
  /\ cpc' = "meta"
  /\ UNCHANGED <<count, seenHead, out, ringVars, producerVars>>

ReadMeta ==
  /\ cpc = "meta"
  /\ got' = [got EXCEPT !.meta = slots[SlotOf(tail)].meta]
  /\ cpc' = "consume"
  /\ UNCHANGED <<count, seenHead, out, ringVars, producerVars>>

\* Variant: the consumer jumps to the newest batch.
SkippingConsume ==
  /\ cpc = "consume"
  /\ tail' = head
  /\ out' = Append(out, got)
  /\ cpc' = "idle"
  /\ UNCHANGED <<head, slots, got, count, seenHead, producerVars>>

Consume ==
  /\ cpc = "consume"
  /\ tail' = (tail + 1) % W
  /\ out' = Append(out, got)
  /\ cpc' = "idle"
  /\ UNCHANGED <<head, slots, got, count, seenHead, producerVars>>

\* Variant: the cursors are subtracted the wrong way round.
SwappedRingCount ==
  /\ \E n \in HeadLoads : count' = Minus(tail, n % W) /\ seenHead' = n
  /\ UNCHANGED <<cpc, got, out, ringVars, producerVars>>

(* The relaxed loads of xrcomm_iq_ring_count, made by the consumer. *)
RingCount ==
  /\ \E n \in HeadLoads : count' = Minus(n % W, tail) /\ seenHead' = n
  /\ UNCHANGED <<cpc, got, out, ringVars, producerVars>>

-----------------------------------------------------------------------------
Producer == PushBegin \/ PushFull \/ PushSamples \/ PushMeta \/ PushPublish
Consumer == PeekFound \/ PeekEmpty \/ ReadSamples \/ ReadMeta \/ Consume \/ RingCount
Next == Producer \/ Consumer
Spec == Init /\ [][Next]_vars

(* A push runs to its end; the consumer keeps polling, and a published head *)
(* becomes visible to it in finite time.                                    *)
Fairness ==
  /\ WF_vars(PushSamples \/ PushMeta \/ PushPublish)
  /\ WF_vars(PeekFound \/ ReadSamples \/ ReadMeta \/ Consume)
FairSpec == Spec /\ Fairness
-----------------------------------------------------------------------------
(* Type invariant. *)
TypeOK ==
  /\ head \in 0 .. (W - 1) /\ tail \in 0 .. (W - 1)
  /\ slots \in [Index -> [samples : Nat, meta : Nat]]
  /\ ppc \in {"idle", "samples", "meta", "publish"}
  /\ offered \in Nat /\ pushedCount \in Nat /\ droppedCount \in Nat
  /\ cpc \in {"idle", "samples", "meta", "consume"}
  /\ got \in [samples : Nat, meta : Nat]
  /\ count \in 0 .. (W - 1)
  /\ seenTail \in Nat /\ seenHead \in Nat
  /\ accepted \in Seq(Nat)
  /\ out \in Seq([samples : Nat, meta : Nat])

(* The slot returned by poll() stays valid until consume(): the producer    *)
(* never writes the slot the consumer is reading.                           *)
HeldSlotNotWritten ==
  (ppc # "idle" /\ cpc # "idle") => SlotOf(head) # SlotOf(tail)

(* The ring never holds more than Depth batches, across cursor wrap, and    *)
(* the producer's count of them covers them all.                            *)
NeverOverfull ==
  /\ Len(out) <= Len(accepted)
  /\ Len(accepted) - seenTail <= Depth - (IF ppc = "idle" THEN 0 ELSE 1)

(* The subscriber receives exactly the accepted batches, whole and in order: *)
(* nothing lost, repeated, reordered or half-written.                        *)
DeliveredInOrder ==
  /\ Len(out) <= Len(accepted)
  /\ \A k \in 1 .. Len(out) : out[k] = Word(accepted[k])

(* ring_count() is a number of batches the ring can hold, across cursor     *)
(* wrap and however late a published head becomes visible.                  *)
CountSane == count \in 0 .. Depth

(* A batch is dropped only when the producer knows of no free slot: Depth   *)
(* batches lie in slots it has not seen released.                           *)
DropOnlyWhenFull ==
  [][droppedCount' # droppedCount => Len(accepted) = seenTail' + Depth]_vars

(* Every published batch is eventually handed to the subscriber. *)
EventuallyDelivered ==
  \A n \in 1 .. MaxOffers : (Len(accepted) >= n) ~> (Len(out) >= n)

-----------------------------------------------------------------------------
(* The ring implements the bounded queue. *)
BatchOf(word) == IF word.samples = word.meta THEN word.meta ELSE 0
Queue == INSTANCE IqQueue WITH
  pending <- ppc # "idle",
  window  <- SubSeq(accepted, seenTail + 1, Len(accepted)),
  taken   <- Len(out) - seenTail,
  out     <- [k \in 1 .. Len(out) |-> BatchOf(out[k])],
  lost    <- droppedCount
QueueSpec == Queue!Spec
=============================================================================
