------------------------------ MODULE IqQueue ------------------------------
(***************************************************************************)
(* What the IQ data plane promises one subscriber: the platform offers     *)
(* numbered batches; a batch is either accepted, and then delivered once   *)
(* and in order, or lost because Depth accepted batches are still owed.    *)
(*                                                                         *)
(* The window holds the accepted batches whose slot the platform has not   *)
(* yet seen released: a slot the subscriber has released can be reused     *)
(* only after the platform notices, so delivery and release are two steps. *)
(***************************************************************************)
EXTENDS Naturals, Sequences

CONSTANTS Depth,      \* batches the window can hold
          MaxOffers   \* bound on the batches offered

VARIABLES
  offered,  \* number of the last batch offered
  pending,  \* the last batch offered is neither accepted nor lost yet
  window,   \* accepted batches whose slot has not been seen released
  taken,    \* how many batches of the window have been delivered
  out,      \* batches delivered so far, in order
  lost      \* number of batches dropped

qvars == <<offered, pending, window, taken, out, lost>>

Init ==
  /\ offered = 0 /\ pending = FALSE
  /\ window = <<>>
  /\ taken = 0
  /\ out = <<>>
  /\ lost = 0

(* A batch is offered and the platform notices k released slots. *)
Offer(k) ==
  /\ ~pending /\ offered < MaxOffers
  /\ k \in 0 .. taken
  /\ Len(window) - k < Depth
  /\ offered' = offered + 1
  /\ pending' = TRUE
  /\ window' = SubSeq(window, k + 1, Len(window))
  /\ taken' = taken - k
  /\ UNCHANGED <<out, lost>>

(* The offered batch enters the window. *)
Accept ==
  /\ pending
  /\ pending' = FALSE
  /\ window' = Append(window, offered)
  /\ UNCHANGED <<offered, taken, out, lost>>

(* The offered batch is dropped: the window is full. *)
Lose ==
  /\ ~pending /\ offered < MaxOffers
  /\ Len(window) = Depth
  /\ offered' = offered + 1
  /\ lost' = lost + 1
  /\ UNCHANGED <<pending, window, taken, out>>

(* The subscriber receives the oldest batch it has not received. *)
Deliver ==
  /\ taken < Len(window)
  /\ taken' = taken + 1
  /\ out' = Append(out, window[taken + 1])
  /\ UNCHANGED <<offered, pending, window, lost>>

Next == (\E k \in 0 .. taken : Offer(k)) \/ Accept \/ Lose \/ Deliver

Spec == Init /\ [][Next]_qvars
=============================================================================
