-------------------------- MODULE IpRegistryProofs --------------------------
(***************************************************************************)
(* The safety of the control plane, for any number of applications, slots  *)
(* and rings.                                                              *)
(*                                                                         *)
(* The argument turns on a stale read.  The poll reads a slot's registered *)
(* and active flags one after the other and acts on them later, while the  *)
(* slot may change hands.  An application clears ring_ready after setting  *)
(* both flags, so a flag it then sees set was set by a poll that opened    *)
(* the ring afterwards; from then on every poll reads both flags set, and  *)
(* none is on its way to closing the slot's ring (Serving).                *)
(***************************************************************************)
EXTENDS IpRegistry, TLAPS

PollStates == {"idle", "reg", "act", "open", "ready", "close", "forget", "unready", "next", "down"}

Flags == registered \in [Slots -> BOOLEAN] /\ active \in [Slots -> BOOLEAN]
         /\ ringReady \in [Slots -> BOOLEAN]
ClientTyped == client \in [Clients -> [pc : ClientStates, slot : Slots, ring : 0 .. MaxRings]]
PollTyped ==
  poll \in [pc : PollStates, slot : Slots, reg : BOOLEAN, act : BOOLEAN, open : Nat]
RingTyped ==
  /\ gRings \in [Slots -> 0 .. MaxRings] /\ name \in [Slots -> 0 .. MaxRings]
  /\ mapped \subseteq 1 .. MaxRings /\ lastRing \in 0 .. MaxRings

(* The ring of a slot, its name and its mapping come and go together, but   *)
(* for the instant between xrcomm_iq_shm_destroy and the cleared pointer.   *)
Forgetting(s) == poll.pc = "forget" /\ poll.slot = s
SlotRing(s) ==
  /\ gRings[s] <= lastRing
  /\ gRings[s] # NoRing /\ ~Forgetting(s) => gRings[s] \in mapped
  /\ Forgetting(s) => name[s] = NoRing /\ gRings[s] \notin mapped
  /\ ~Forgetting(s) => name[s] = gRings[s]
  /\ poll.pc = "down" => gRings[s] = NoRing
  /\ poll.slot = s => /\ poll.pc \in {"open", "unready"} => gRings[s] = NoRing
                      /\ poll.pc \in {"ready", "close", "forget"} => gRings[s] # NoRing
RingInv ==
  /\ \A s \in Slots : SlotRing(s)
  /\ \A s, t \in Slots : s # t /\ gRings[s] # NoRing => gRings[s] # gRings[t]
  /\ \A r \in mapped : r <= lastRing /\ \E s \in Slots : gRings[s] = r

(* A slot has one holder, whose flags are set. *)
Holding == {"port", "channel", "activate", "clear", "wait", "attach", "attached",
            "deactivate", "deregister"}
Holds(c) == client[c].pc \in Holding
HolderInv ==
  /\ \A c \in Clients : Holds(c) => registered[MySlot(c)]
  /\ \A c \in Clients : client[c].pc \in {"clear", "wait", "attach", "attached"} => active[MySlot(c)]
  /\ \A c, d \in Clients : c # d /\ Holds(c) /\ Holds(d) => MySlot(c) # MySlot(d)

(* The poll has read a flag of the slot cleared and will close its ring. *)
Closing(s) ==
  poll.slot = s /\ (poll.pc \in {"close", "forget", "unready"} \/ (poll.pc = "act" /\ ~poll.reg))

(* The slot's ring was opened for the application that waits in it. *)
Served(c) == client[c].pc \in {"attach", "attached"} \/ (At(c, "wait") /\ ringReady[MySlot(c)])
Serving ==
  poll.pc # "down" =>
    \A c \in Clients : Served(c) => gRings[MySlot(c)] # NoRing /\ ~Closing(MySlot(c))

AttachedInv ==
  /\ \A c \in Clients : Attached(c) /\ poll.pc # "down" => client[c].ring = gRings[MySlot(c)]
  /\ OneConsumerPerRing

Typed == Flags /\ ClientTyped /\ PollTyped /\ RingTyped
IInv == Typed /\ RingInv /\ HolderInv /\ Serving /\ AttachedInv

LEMMA Sizes == NumSlots \in Nat \ {0} /\ MaxRings \in Nat /\ 0 \in Slots /\ Slots \subseteq Nat
  BY RegistryAssumption DEF Slots

LEMMA InitHolds == Init => IInv
<1> SUFFICES ASSUME Init PROVE IInv
  OBVIOUS
<1>1. Typed
  <2>1. Flags /\ PollTyped /\ RingTyped
    BY Sizes DEF Init, Flags, PollTyped, PollStates, RingTyped, NoRing
  <2>2. ClientTyped
    BY Sizes DEF Init, ClientTyped, ClientStates, NoRing
  <2> QED BY <2>1, <2>2 DEF Typed
<1>2. RingInv
  BY DEF Init, RingInv, SlotRing, Forgetting, NoRing
<1>3. \A c \in Clients : client[c].pc = "off"
  BY DEF Init
<1>4. HolderInv
  BY <1>3 DEF HolderInv, Holds, Holding
<1>5. Serving /\ AttachedInv
  BY <1>3 DEF Serving, Served, At, AttachedInv, Attached, OneConsumerPerRing
<1> QED BY <1>1, <1>2, <1>4, <1>5 DEF IInv

-----------------------------------------------------------------------------
(* Steps of an application. *)

(* What a step of application c may do: move on to where its slot is not     *)
(* newly served, or change nothing but flags of the slot it holds.           *)
LEMMA ClientStep ==
  ASSUME IInv, NEW c \in Clients, Flags', UNCHANGED <<rings, poll>>,
         NEW rec \in [pc : ClientStates, slot : Slots, ring : 0 .. MaxRings],
         client' = [client EXCEPT ![c] = rec],
         rec.pc \in Holding => /\ Holds(c) => rec.slot = MySlot(c)
                               /\ ~Holds(c) => ~registered[rec.slot]
                               /\ registered'[rec.slot],
         rec.pc \in {"clear", "wait", "attach", "attached"} => active'[rec.slot],
         \A s \in Slots : \/ Holds(c) /\ s = MySlot(c)
                          \/ rec.pc \in Holding /\ s = rec.slot
                          \/ /\ registered'[s] = registered[s] /\ active'[s] = active[s]
                             /\ ringReady'[s] = ringReady[s],
         rec.pc \in {"attach", "attached"} \/ (rec.pc = "wait" /\ ringReady'[rec.slot]) => Served(c),
         rec.pc = "attached" => rec.ring = name[MySlot(c)] /\ rec.ring # NoRing
  PROVE  IInv'
<1>1. /\ gRings' = gRings /\ name' = name /\ mapped' = mapped /\ lastRing' = lastRing /\ poll' = poll
  BY DEF rings
<1>2. client \in [Clients -> [pc : ClientStates, slot : Slots, ring : 0 .. MaxRings]]
  BY DEF IInv, Typed, ClientTyped
<1>3. /\ client' \in [Clients -> [pc : ClientStates, slot : Slots, ring : 0 .. MaxRings]]
      /\ client'[c] = rec /\ \A d \in Clients \ {c} : client'[d] = client[d]
  BY <1>2
<1>4. Typed'
  BY <1>1, <1>3 DEF IInv, Typed, ClientTyped, PollTyped, RingTyped
<1>5. RingInv'
  BY <1>1 DEF IInv, RingInv, SlotRing, Forgetting
<1>6. \A d \in Clients \ {c} : /\ Holds(d)' <=> Holds(d)
                               /\ MySlot(d)' = MySlot(d) /\ MySlot(d) \in Slots
  BY <1>2, <1>3 DEF Holds, MySlot
<1>7. /\ Holds(c)' <=> rec.pc \in Holding
      /\ MySlot(c)' = rec.slot /\ rec.slot \in Slots /\ MySlot(c) \in Slots
  BY <1>2, <1>3 DEF Holds, MySlot
<1>8. ASSUME NEW d \in Clients \ {c}, Holds(d)
      PROVE  /\ Holds(c) => MySlot(c) # MySlot(d)
             /\ rec.pc \in Holding => rec.slot # MySlot(d)
             /\ registered'[MySlot(d)] /\ registered[MySlot(d)]
             /\ active'[MySlot(d)] = active[MySlot(d)]
             /\ ringReady'[MySlot(d)] = ringReady[MySlot(d)]
  <2>1. registered[MySlot(d)] /\ (Holds(c) => MySlot(c) # MySlot(d))
    BY <1>8 DEF IInv, HolderInv
  <2>2. rec.pc \in Holding => rec.slot # MySlot(d)
    BY <2>1
  <2> QED BY <1>6, <2>1, <2>2
<1>9. HolderInv'
  <2>1. ASSUME NEW d \in Clients, Holds(d)' PROVE registered'[MySlot(d)']
    BY <1>3, <1>6, <1>7, <1>8, <2>1
  <2>2. ASSUME NEW d \in Clients, client'[d].pc \in {"clear", "wait", "attach", "attached"}
        PROVE  active'[MySlot(d)']
    <3>1. CASE d = c
      BY <1>3, <1>7, <2>2, <3>1
    <3>2. CASE d # c
      <4>1. client[d].pc \in {"clear", "wait", "attach", "attached"} /\ Holds(d)
        BY <1>3, <2>2, <3>2 DEF Holds, Holding
      <4> QED BY <1>6, <1>8, <3>2, <4>1 DEF IInv, HolderInv
    <3> QED BY <3>1, <3>2
  <2>3. ASSUME NEW d \in Clients, NEW e \in Clients, d # e, Holds(d)', Holds(e)'
        PROVE  MySlot(d)' # MySlot(e)'
    BY <1>6, <1>7, <1>8, <2>3 DEF IInv, HolderInv
  <2> QED BY <2>1, <2>2, <2>3 DEF HolderInv
<1>10. ASSUME NEW d \in Clients \ {c}, Served(d)' PROVE Served(d)
  <2>1. Holds(d)
    BY <1>3, <1>10 DEF Served, At, Holds, Holding
  <2>2. ringReady'[MySlot(d)'] = ringReady[MySlot(d)] /\ client'[d] = client[d]
    BY <1>3, <1>6, <1>8, <2>1
  <2> QED BY <1>10, <2>2 DEF Served, At
<1>11. ASSUME Served(c)' PROVE Served(c) /\ MySlot(c)' = MySlot(c)
  <2>1. rec.pc \in {"attach", "attached"} \/ (rec.pc = "wait" /\ ringReady'[rec.slot])
    BY <1>3, <1>7, <1>11 DEF Served, At
  <2>2. Served(c) /\ rec.pc \in Holding
    BY <2>1 DEF Holding
  <2>3. Holds(c)
    BY <2>2 DEF Served, At, Holds, Holding
  <2> QED BY <1>7, <2>2, <2>3
<1>12. Serving'
  <2>1. ASSUME NEW d \in Clients, Served(d)' PROVE Served(d) /\ MySlot(d)' = MySlot(d)
    BY <1>6, <1>10, <1>11, <2>1
  <2>2. \A s : Closing(s)' <=> Closing(s)
    BY <1>1 DEF Closing
  <2> QED BY <1>1, <2>1, <2>2 DEF IInv, Serving
<1>13. ASSUME rec.pc = "attached"
       PROVE  /\ poll.pc # "down" /\ rec.slot = MySlot(c) /\ rec.ring = gRings[MySlot(c)]
              /\ gRings[MySlot(c)] # NoRing /\ Holds(c)
  <2>1. Served(c) /\ Holds(c) /\ rec.slot = MySlot(c)
    BY <1>13 DEF Served, At, Holds, Holding
  <2>2. name[MySlot(c)] # NoRing
    BY <1>13
  <2>3. name[MySlot(c)] = gRings[MySlot(c)] /\ poll.pc # "down"
    BY <1>7, <2>2 DEF IInv, RingInv, SlotRing, Forgetting
  <2> QED BY <1>13, <2>1, <2>2, <2>3
<1>14. AttachedInv'
  <2>1. ASSUME NEW d \in Clients, Attached(d)', poll'.pc # "down"
        PROVE  client'[d].ring = gRings'[MySlot(d)']
    <3>1. CASE d = c
      BY <1>1, <1>3, <1>7, <1>13, <2>1, <3>1 DEF Attached
    <3>2. CASE d # c
      BY <1>1, <1>3, <1>6, <2>1, <3>2 DEF IInv, AttachedInv, Attached
    <3> QED BY <3>1, <3>2
  <2>2. ASSUME NEW d \in Clients \ {c}, Attached(d), rec.pc = "attached"
        PROVE  client[d].ring # rec.ring
    <3>1. client[d].ring = gRings[MySlot(d)]
      BY <1>13, <2>2 DEF IInv, AttachedInv
    <3>2. Holds(d)
      BY <2>2 DEF Attached, Holds, Holding
    <3>3. MySlot(d) # MySlot(c)
      BY <1>8, <1>13, <2>2, <3>2
    <3> QED BY <1>6, <1>7, <1>13, <2>2, <3>1, <3>3 DEF IInv, RingInv
  <2>3. ASSUME NEW d \in Clients, NEW e \in Clients, d # e, Attached(d)', Attached(e)'
        PROVE  client'[d].ring # client'[e].ring
    <3>1. CASE d = c
      BY <1>3, <2>2, <2>3, <3>1 DEF Attached
    <3>2. CASE e = c
      BY <1>3, <2>2, <2>3, <3>2 DEF Attached
    <3>3. CASE d # c /\ e # c
      BY <1>3, <2>3, <3>3 DEF Attached, IInv, AttachedInv, OneConsumerPerRing
    <3> QED BY <3>1, <3>2, <3>3
  <2> QED BY <2>1, <2>3 DEF AttachedInv, OneConsumerPerRing
<1> QED BY <1>4, <1>5, <1>9, <1>12, <1>14 DEF IInv

-----------------------------------------------------------------------------
LEMMA ClientFields ==
  ASSUME IInv, NEW c \in Clients
  PROVE  /\ client[c] \in [pc : ClientStates, slot : Slots, ring : 0 .. MaxRings]
         /\ client[c].pc \in ClientStates /\ MySlot(c) \in Slots /\ client[c].ring \in 0 .. MaxRings
         /\ client[c].slot = MySlot(c)
         /\ Flags /\ (Holds(c) => registered[MySlot(c)])
  BY DEF IInv, Typed, ClientTyped, MySlot, HolderInv

(* An application moves on in its slot, having changed at most its flags. *)
LEMMA Moves ==
  ASSUME IInv, NEW c \in Clients, Flags', UNCHANGED <<rings, poll>>,
         NEW pc \in ClientStates, Goto(c, pc),
         pc \in Holding => (Holds(c) \/ ~registered[MySlot(c)]) /\ registered'[MySlot(c)],
         pc \in {"clear", "wait", "attach"} => active'[MySlot(c)],
         \A s \in Slots \ {MySlot(c)} :
           registered'[s] = registered[s] /\ active'[s] = active[s] /\ ringReady'[s] = ringReady[s],
         Holds(c) \/ pc \in Holding \/ UNCHANGED <<registered, active, ringReady>>,
         pc = "attach" \/ (pc = "wait" /\ ringReady'[MySlot(c)]) => Served(c),
         pc # "attached"
  PROVE  IInv'
<1> DEFINE rec == [pc |-> pc, slot |-> MySlot(c), ring |-> client[c].ring]
<1>1. /\ rec \in [pc : ClientStates, slot : Slots, ring : 0 .. MaxRings]
      /\ rec.pc = pc /\ rec.slot = MySlot(c) /\ MySlot(c) \in Slots
  BY ClientFields
<1>2. client' = [client EXCEPT ![c] = rec]
  <2>1. PICK g : g = [client[c] EXCEPT !.pc = pc]
    OBVIOUS
  <2>2. g = rec
    BY <2>1, ClientFields
  <2>3. client' = [client EXCEPT ![c] = g]
    BY <2>1 DEF Goto
  <2> QED BY <2>2, <2>3
<1> HIDE DEF rec
<1>3. \A s \in Slots : \/ Holds(c) /\ s = MySlot(c)
                       \/ rec.pc \in Holding /\ s = rec.slot
                       \/ /\ registered'[s] = registered[s] /\ active'[s] = active[s]
                          /\ ringReady'[s] = ringReady[s]
  BY <1>1
<1>4. /\ rec.pc \in Holding => /\ Holds(c) => rec.slot = MySlot(c)
                               /\ ~Holds(c) => ~registered[rec.slot]
                               /\ registered'[rec.slot]
      /\ rec.pc \in {"clear", "wait", "attach", "attached"} => active'[rec.slot]
      /\ rec.pc \in {"attach", "attached"} \/ (rec.pc = "wait" /\ ringReady'[rec.slot]) => Served(c)
      /\ rec.pc # "attached"
  BY <1>1
<1> QED BY <1>1, <1>2, <1>3, <1>4, ClientStep

LEMMA RegisterHolds == ASSUME IInv, NEW c \in Clients, Register(c) PROVE IInv'
<1> USE ClientFields
<1>1. CASE Start(c)
  <2> DEFINE rec == [pc |-> "claim", slot |-> 0, ring |-> NoRing]
  <2>1. rec \in [pc : ClientStates, slot : Slots, ring : 0 .. MaxRings] /\ rec.pc = "claim"
    BY Sizes DEF ClientStates, NoRing
  <2>2. client' = [client EXCEPT ![c] = rec]
    BY <1>1 DEF Start
  <2>3. UNCHANGED <<registered, active, ringReady>> /\ UNCHANGED <<rings, poll>>
    BY <1>1 DEF Start, registry, clientFrame
  <2>4. Flags'
    BY <2>3 DEF Flags
  <2> HIDE DEF rec
  <2>5. rec.pc \notin Holding /\ rec.pc \notin {"clear", "wait", "attach", "attached"}
    BY <2>1 DEF Holding
  <2> QED BY <2>1, <2>2, <2>3, <2>4, <2>5, ClientStep
<1>2. CASE ClaimFree(c)
  <2>1. ~registered[MySlot(c)] /\ registered' = [registered EXCEPT ![MySlot(c)] = TRUE]
        /\ Goto(c, "port") /\ active' = active /\ ringReady' = ringReady /\ UNCHANGED <<rings, poll>>
    BY <1>2 DEF ClaimFree, clientFrame
  <2>2. Flags' /\ registered'[MySlot(c)]
        /\ \A s \in Slots \ {MySlot(c)} : registered'[s] = registered[s]
    BY <2>1 DEF Flags
  <2> QED BY <2>1, <2>2, Moves DEF ClientStates, Holding
<1>3. CASE ClaimTaken(c)
  <2>1. UNCHANGED <<registered, active, ringReady>> /\ UNCHANGED <<rings, poll>>
    BY <1>3 DEF ClaimTaken, registry, clientFrame
  <2>2. Flags'
    BY <2>1 DEF Flags
  <2>3. CASE MySlot(c) + 1 \in Slots
    <3> DEFINE rec == [pc |-> client[c].pc, slot |-> MySlot(c) + 1, ring |-> client[c].ring]
    <3>1. rec \in [pc : ClientStates, slot : Slots, ring : 0 .. MaxRings] /\ rec.pc = "claim"
      BY <1>3, <2>3 DEF ClaimTaken, At
    <3>2. client' = [client EXCEPT ![c] = rec]
      <4>1. PICK g : g = [client[c] EXCEPT !.slot = MySlot(c) + 1]
        OBVIOUS
      <4>2. g = rec
        BY <4>1, ClientFields
      <4>3. client' = [client EXCEPT ![c] = g]
        BY <1>3, <2>3, <4>1 DEF ClaimTaken, MySlot
      <4> QED BY <4>2, <4>3
    <3> HIDE DEF rec
    <3>3. rec.pc \notin Holding /\ rec.pc \notin {"clear", "wait", "attach", "attached"}
      BY <3>1 DEF Holding
    <3> QED BY <2>1, <2>2, <3>1, <3>2, <3>3, ClientStep
  <2>4. CASE MySlot(c) + 1 \notin Slots
    <3>1. Goto(c, "off")
      BY <1>3, <2>4 DEF ClaimTaken
    <3> QED BY <2>1, <2>2, <3>1, Moves DEF ClientStates, Holding
  <2> QED BY <2>3, <2>4
<1>4. ASSUME NEW pc \in {"channel", "activate"}, Goto(c, pc), Holds(c),
             registered' = registered, active' = active, ringReady' = ringReady,
             UNCHANGED <<rings, poll>>
      PROVE  IInv'
  <2>1. Flags' /\ registered'[MySlot(c)]
    BY <1>4 DEF Flags
  <2> QED BY <1>4, <2>1, Moves DEF ClientStates, Holding
<1>5. CASE WritePort(c)
  <2>1. Holds(c)
    BY <1>5 DEF WritePort, At, Holds, Holding
  <2> QED BY <1>4, <1>5, <2>1 DEF WritePort, clientFrame
<1>6. CASE WriteChannel(c)
  <2>1. Holds(c)
    BY <1>6 DEF WriteChannel, At, Holds, Holding
  <2> QED BY <1>4, <1>6, <2>1 DEF WriteChannel, clientFrame
<1>7. CASE Activate(c)
  <2>1. /\ active' = [active EXCEPT ![MySlot(c)] = TRUE] /\ Goto(c, "clear") /\ Holds(c)
        /\ registered' = registered /\ ringReady' = ringReady /\ UNCHANGED <<rings, poll>>
    BY <1>7 DEF Activate, At, Holds, Holding, clientFrame
  <2>2. Flags' /\ active'[MySlot(c)] /\ \A s \in Slots \ {MySlot(c)} : active'[s] = active[s]
    BY <2>1 DEF Flags
  <2> QED BY <2>1, <2>2, Moves DEF ClientStates, Holding
<1>8. CASE ClearReady(c)
  <2>1. /\ ringReady' = [ringReady EXCEPT ![MySlot(c)] = FALSE] /\ Goto(c, "wait") /\ Holds(c)
        /\ registered' = registered /\ active' = active /\ UNCHANGED <<rings, poll>>
        /\ client[c].pc = "clear"
    BY <1>8 DEF ClearReady, At, Holds, Holding, clientFrame
  <2>2. Flags' /\ ~ringReady'[MySlot(c)] /\ active[MySlot(c)]
        /\ \A s \in Slots \ {MySlot(c)} : ringReady'[s] = ringReady[s]
    BY <2>1 DEF Flags, IInv, HolderInv
  <2> QED BY <2>1, <2>2, Moves DEF ClientStates, Holding
<1> QED BY <1>1, <1>2, <1>3, <1>5, <1>6, <1>7, <1>8 DEF Register

(* A step that changes no flag and moves to a state that claims nothing. *)
LEMMA WaitHolds == ASSUME IInv, NEW c \in Clients, Wait(c) PROVE IInv'
<1> USE ClientFields
<1>1. UNCHANGED <<registered, active, ringReady>> /\ UNCHANGED <<rings, poll>>
  BY DEF Wait, SeeReady, Attach, TimeOut, registry, clientFrame
<1>2. Flags'
  BY <1>1 DEF Flags
<1>3. client[c].pc \in {"wait", "attach"} /\ Holds(c) /\ active[MySlot(c)] /\ registered[MySlot(c)]
  BY DEF Wait, SeeReady, Attach, TimeOut, At, Holds, Holding, IInv, HolderInv
<1>4. CASE SeeReady(c)
  <2>1. Served(c) /\ Goto(c, "attach")
    BY <1>4 DEF SeeReady, Served
  <2> QED BY <1>1, <1>2, <1>3, <2>1, Moves DEF ClientStates
<1>5. CASE TimeOut(c)
  BY <1>1, <1>2, <1>3, <1>5, Moves DEF TimeOut, ClientStates
<1>6. CASE Attach(c)
  <2> DEFINE next == IF name[MySlot(c)] = NoRing THEN "deactivate" ELSE "attached"
             rec == [pc |-> next, slot |-> MySlot(c), ring |-> name[MySlot(c)]]
  <2>1. name[MySlot(c)] \in 0 .. MaxRings
    BY DEF IInv, Typed, RingTyped
  <2>2. /\ rec \in [pc : ClientStates, slot : Slots, ring : 0 .. MaxRings]
        /\ rec.pc = next /\ rec.slot = MySlot(c) /\ rec.ring = name[MySlot(c)]
        /\ next \in {"deactivate", "attached"} /\ (next = "attached" => name[MySlot(c)] # NoRing)
    BY <2>1 DEF ClientStates
  <2>3. client' = [client EXCEPT ![c] = rec]
    BY <1>6 DEF Attach
  <2>4. Served(c)
    BY <1>6 DEF Attach, At, Served
  <2> HIDE DEF rec, next
  <2>5. \A s \in Slots : /\ registered'[s] = registered[s] /\ active'[s] = active[s]
                         /\ ringReady'[s] = ringReady[s]
    BY <1>1
  <2> QED BY <1>1, <1>2, <1>3, <2>2, <2>3, <2>4, <2>5, ClientStep
<1> QED BY <1>4, <1>5, <1>6 DEF Wait

LEMMA DepartHolds == ASSUME IInv, NEW c \in Clients, Depart(c) \/ Crash(c) PROVE IInv'
<1> USE ClientFields
<1>1. CASE Leave(c)
  <2>1. /\ Holds(c) /\ Goto(c, "deactivate") /\ UNCHANGED <<registered, active, ringReady>>
        /\ UNCHANGED <<rings, poll>>
    BY <1>1 DEF Leave, Attached, Holds, Holding, registry, clientFrame
  <2>2. Flags'
    BY <2>1 DEF Flags
  <2> QED BY <2>1, <2>2, Moves DEF ClientStates
<1>2. CASE Deactivate(c)
  <2>1. /\ active' = [active EXCEPT ![MySlot(c)] = FALSE] /\ Goto(c, "deregister") /\ Holds(c)
        /\ registered' = registered /\ ringReady' = ringReady /\ UNCHANGED <<rings, poll>>
    BY <1>2 DEF Deactivate, At, Holds, Holding, clientFrame
  <2>2. Flags' /\ \A s \in Slots \ {MySlot(c)} : active'[s] = active[s]
    BY <2>1 DEF Flags
  <2> QED BY <2>1, <2>2, Moves DEF ClientStates
<1>3. CASE Deregister(c)
  <2> DEFINE rec == [pc |-> "off", slot |-> MySlot(c), ring |-> NoRing]
  <2>1. rec \in [pc : ClientStates, slot : Slots, ring : 0 .. MaxRings] /\ rec.pc = "off"
    BY Sizes, ClientFields DEF ClientStates, NoRing
  <2>2. client' = [client EXCEPT ![c] = rec]
    BY <1>3 DEF Deregister
  <2>3. /\ registered' = [registered EXCEPT ![MySlot(c)] = FALSE] /\ Holds(c)
        /\ active' = active /\ ringReady' = ringReady /\ UNCHANGED <<rings, poll>>
    BY <1>3 DEF Deregister, At, Holds, Holding, clientFrame
  <2>4. Flags' /\ \A s \in Slots \ {MySlot(c)} : registered'[s] = registered[s]
    BY <2>3 DEF Flags
  <2> HIDE DEF rec
  <2>5. rec.pc \notin Holding
    BY <2>1 DEF Holding
  <2> QED BY <2>1, <2>2, <2>3, <2>4, <2>5, ClientStep
<1>4. CASE Crash(c)
  <2> DEFINE rec == [pc |-> "crashed", slot |-> MySlot(c), ring |-> NoRing]
  <2>1. rec \in [pc : ClientStates, slot : Slots, ring : 0 .. MaxRings] /\ rec.pc = "crashed"
    BY Sizes, ClientFields DEF ClientStates, NoRing
  <2>2. client' = [client EXCEPT ![c] = rec]
    BY <1>4 DEF Crash
  <2>3. UNCHANGED <<registered, active, ringReady>> /\ UNCHANGED <<rings, poll>>
    BY <1>4 DEF Crash, registry, clientFrame
  <2>4. Flags'
    BY <2>3 DEF Flags
  <2> HIDE DEF rec
  <2>5. rec.pc \notin Holding
    BY <2>1 DEF Holding
  <2> QED BY <2>1, <2>2, <2>3, <2>4, <2>5, ClientStep
<1> QED BY <1>1, <1>2, <1>3, <1>4 DEF Depart

-----------------------------------------------------------------------------
(* Steps of the main loop. *)

(* What a step of the poll may do: leave the rings of served applications    *)
(* open, and not be about to close them.                                     *)
LEMMA PollStep ==
  ASSUME IInv, UNCHANGED <<registered, active, client>>, Flags', PollTyped', RingTyped', RingInv',
         poll.pc # "down",
         \A s \in Slots : gRings[s] # NoRing /\ ~Closing(s) /\ poll'.pc # "down" => gRings'[s] = gRings[s],
         \A c \in Clients : Served(c)' /\ poll'.pc # "down" =>
           gRings'[MySlot(c)] # NoRing /\ ~Closing(MySlot(c))'
  PROVE  IInv'
<1>1. \A c \in Clients : MySlot(c)' = MySlot(c) /\ MySlot(c) \in Slots
  BY DEF IInv, Typed, ClientTyped, MySlot
<1>2. Typed'
  BY DEF IInv, Typed, ClientTyped
<1>3. HolderInv'
  BY <1>1 DEF IInv, HolderInv, Holds
<1>4. Serving'
  BY <1>1 DEF Serving, Closing
<1>5. AttachedInv'
  <2>1. ASSUME NEW c \in Clients, Attached(c)', poll'.pc # "down"
        PROVE  client'[c].ring = gRings'[MySlot(c)']
    <3>1. Attached(c) /\ Served(c)
      BY <2>1 DEF Attached, Served
    <3>2. gRings[MySlot(c)] # NoRing /\ ~Closing(MySlot(c)) /\ client[c].ring = gRings[MySlot(c)]
      BY <3>1 DEF IInv, Serving, AttachedInv
    <3> QED BY <1>1, <2>1, <3>2
  <2>2. OneConsumerPerRing'
    BY DEF IInv, AttachedInv, OneConsumerPerRing, Attached
  <2> QED BY <2>1, <2>2 DEF AttachedInv
<1> QED BY <1>2, <1>3, <1>4, <1>5 DEF IInv

(* Most steps leave the rings alone. *)
LEMMA PollQuiet ==
  ASSUME IInv, UNCHANGED <<registered, active, client>>, Flags', PollTyped',
         gRings' = gRings, name' = name, mapped' = mapped, lastRing' = lastRing,
         poll.pc \notin {"forget", "down"}, poll'.pc \notin {"forget", "down"},
         poll'.pc \in {"open", "unready"} => gRings[poll'.slot] = NoRing,
         poll'.pc \in {"ready", "close"} => gRings[poll'.slot] # NoRing,
         \A c \in Clients : Served(c)' => gRings[MySlot(c)] # NoRing /\ ~Closing(MySlot(c))'
  PROVE  IInv'
<1>1. RingTyped'
  BY DEF IInv, Typed, RingTyped
<1>2. ASSUME NEW s \in Slots PROVE SlotRing(s)'
  <2>1. SlotRing(s)
    BY DEF IInv, RingInv
  <2> QED BY <2>1 DEF SlotRing, Forgetting
<1>3. RingInv'
  BY <1>2 DEF IInv, RingInv
<1> QED BY <1>1, <1>3, PollStep

LEMMA ServedFacts ==
  ASSUME IInv, poll.pc # "down", NEW c \in Clients, Served(c)
  PROVE  /\ gRings[MySlot(c)] # NoRing /\ ~Closing(MySlot(c)) /\ MySlot(c) \in Slots
         /\ registered[MySlot(c)] /\ active[MySlot(c)]
<1>1. Holds(c) /\ client[c].pc \in {"clear", "wait", "attach", "attached"}
  BY DEF Served, At, Holds, Holding
<1> QED BY <1>1 DEF IInv, Typed, ClientTyped, MySlot, Serving, HolderInv

LEMMA ServedFrame ==
  ASSUME UNCHANGED <<client, ringReady>>, NEW c
  PROVE  (Served(c)' <=> Served(c)) /\ MySlot(c)' = MySlot(c)
  BY DEF Served, At, MySlot

LEMMA PollFields ==
  ASSUME IInv
  PROVE  /\ poll \in [pc : PollStates, slot : Slots, reg : BOOLEAN, act : BOOLEAN, open : Nat]
         /\ poll.pc \in PollStates /\ poll.slot \in Slots /\ poll.open \in Nat /\ Flags
  BY DEF IInv, Typed, PollTyped

LEMMA StartHolds == ASSUME IInv, PollStart PROVE IInv'
<1>1. /\ poll'.pc = "reg" /\ poll'.slot = 0 /\ PollTyped' /\ poll.pc = "idle"
  BY PollFields, Sizes DEF PollStart, PollAt, PollTyped, PollStates
<1>2. UNCHANGED <<registered, active, client, ringReady>> /\ UNCHANGED rings
  BY DEF PollStart, pollFrame
<1>3. gRings' = gRings /\ name' = name /\ mapped' = mapped /\ lastRing' = lastRing /\ Flags'
  BY <1>2, PollFields DEF rings, Flags
<1>4. ASSUME NEW c \in Clients, Served(c)' PROVE gRings[MySlot(c)] # NoRing /\ ~Closing(MySlot(c))'
  BY <1>1, <1>2, <1>4, ServedFrame, ServedFacts DEF Closing
<1> QED BY <1>1, <1>2, <1>3, <1>4, PollQuiet

LEMMA ReadRegisteredHolds == ASSUME IInv, PollReadRegistered PROVE IInv'
<1>1. registered[poll.slot] \in BOOLEAN
  BY PollFields DEF Flags
<1>2. /\ poll'.pc = "act" /\ poll'.slot = poll.slot /\ poll'.reg = registered[poll.slot]
      /\ PollTyped' /\ poll.pc = "reg"
  BY <1>1, PollFields DEF PollReadRegistered, PollAt, PollTyped, PollStates
<1>3. UNCHANGED <<registered, active, client, ringReady>> /\ UNCHANGED rings
  BY DEF PollReadRegistered, pollFrame
<1>4. gRings' = gRings /\ name' = name /\ mapped' = mapped /\ lastRing' = lastRing /\ Flags'
  BY <1>3, PollFields DEF rings, Flags
<1>5. ASSUME NEW c \in Clients, Served(c)' PROVE gRings[MySlot(c)] # NoRing /\ ~Closing(MySlot(c))'
  <2>1. gRings[MySlot(c)] # NoRing /\ registered[MySlot(c)] /\ MySlot(c)' = MySlot(c)
    BY <1>2, <1>3, <1>5, ServedFrame, ServedFacts
  <2> QED BY <1>2, <2>1 DEF Closing
<1> QED BY <1>2, <1>3, <1>4, <1>5, PollQuiet

LEMMA ReadActiveHolds == ASSUME IInv, PollReadActive PROVE IInv'
<1> DEFINE in == poll.reg /\ active[poll.slot]
           ring == gRings[poll.slot] # NoRing
<1>1. active[poll.slot] \in BOOLEAN
  BY PollFields DEF Flags
<1>2. PICK pc \in {"open", "close", "next"} :
        /\ poll' = [poll EXCEPT !.act = active[poll.slot], !.pc = pc]
        /\ pc = "open" => ~ring
        /\ pc = "close" => ~in /\ ring
  BY DEF PollReadActive
<1>3. poll'.pc = pc /\ poll'.slot = poll.slot /\ PollTyped' /\ poll.pc = "act"
  BY <1>1, <1>2, PollFields DEF PollReadActive, PollAt, PollTyped, PollStates
<1>4. UNCHANGED <<registered, active, client, ringReady>> /\ UNCHANGED rings
  BY DEF PollReadActive, pollFrame
<1>5. gRings' = gRings /\ name' = name /\ mapped' = mapped /\ lastRing' = lastRing /\ Flags'
  BY <1>4, PollFields DEF rings, Flags
<1>6. ASSUME NEW c \in Clients, Served(c)' PROVE gRings[MySlot(c)] # NoRing /\ ~Closing(MySlot(c))'
  <2>1. /\ gRings[MySlot(c)] # NoRing /\ active[MySlot(c)] /\ ~Closing(MySlot(c))
        /\ MySlot(c)' = MySlot(c)
    BY <1>3, <1>4, <1>6, ServedFrame, ServedFacts
  <2>2. poll.slot = MySlot(c) => in
    BY <1>3, <2>1 DEF Closing
  <2> QED BY <1>2, <1>3, <2>1, <2>2 DEF Closing
<1>7. /\ poll'.pc \in {"open", "unready"} => gRings[poll'.slot] = NoRing
      /\ poll'.pc \in {"ready", "close"} => gRings[poll'.slot] # NoRing
      /\ poll'.pc \notin {"forget", "down"}
  BY <1>2, <1>3
<1> QED BY <1>3, <1>4, <1>5, <1>6, <1>7, PollQuiet

LEMMA SetReadyHolds == ASSUME IInv, PollSetReady PROVE IInv'
<1>1. /\ poll'.pc = "next" /\ poll'.slot = poll.slot /\ PollTyped' /\ poll.pc = "ready"
  BY PollFields DEF PollSetReady, PollGoto, PollAt, PollTyped, PollStates
<1>2. UNCHANGED <<registered, active, client>> /\ UNCHANGED rings
      /\ ringReady' = [ringReady EXCEPT ![poll.slot] = TRUE]
  BY DEF PollSetReady, pollFrame
<1>3. gRings' = gRings /\ name' = name /\ mapped' = mapped /\ lastRing' = lastRing /\ Flags'
  BY <1>2, PollFields DEF rings, Flags
<1>4. gRings[poll.slot] # NoRing
  BY <1>1, PollFields DEF IInv, RingInv, SlotRing
<1>5. ASSUME NEW c \in Clients, Served(c)' PROVE gRings[MySlot(c)] # NoRing /\ ~Closing(MySlot(c))'
  <2>1. ~Closing(MySlot(c))'
    BY <1>1 DEF Closing
  <2>2. CASE MySlot(c) = poll.slot
    BY <1>4, <2>1, <2>2
  <2>3. CASE MySlot(c) # poll.slot
    <3>1. MySlot(c) \in Slots
      BY DEF IInv, Typed, ClientTyped, MySlot
    <3>2. ringReady'[MySlot(c)] = ringReady[MySlot(c)]
      BY <1>2, <2>3, <3>1, PollFields DEF Flags
    <3>3. Served(c)
      BY <1>2, <1>5, <3>2 DEF Served, At, MySlot
    <3> QED BY <1>1, <2>1, <3>3, ServedFacts
  <2> QED BY <2>2, <2>3
<1> QED BY <1>1, <1>2, <1>3, <1>5, PollQuiet

LEMMA ClearReadyHolds == ASSUME IInv, PollClearReady PROVE IInv'
<1>1. /\ poll'.pc = "next" /\ poll'.slot = poll.slot /\ PollTyped' /\ poll.pc = "unready"
  BY PollFields DEF PollClearReady, PollGoto, PollAt, PollTyped, PollStates
<1>2. UNCHANGED <<registered, active, client>> /\ UNCHANGED rings
      /\ ringReady' = [ringReady EXCEPT ![poll.slot] = FALSE]
  BY DEF PollClearReady, pollFrame
<1>3. gRings' = gRings /\ name' = name /\ mapped' = mapped /\ lastRing' = lastRing /\ Flags'
  BY <1>2, PollFields DEF rings, Flags
<1>4. ASSUME NEW c \in Clients, Served(c)' PROVE gRings[MySlot(c)] # NoRing /\ ~Closing(MySlot(c))'
  <2>1. ~Closing(MySlot(c))'
    BY <1>1 DEF Closing
  <2>2. MySlot(c) \in Slots /\ MySlot(c)' = MySlot(c)
    BY <1>2 DEF IInv, Typed, ClientTyped, MySlot
  <2>3. ringReady'[MySlot(c)] => ringReady[MySlot(c)]
    BY <1>2, <2>2, PollFields DEF Flags
  <2>4. Served(c)
    BY <1>2, <1>4, <2>2, <2>3 DEF Served, At
  <2> QED BY <1>1, <2>1, <2>4, ServedFacts
<1> QED BY <1>1, <1>2, <1>3, <1>4, PollQuiet

LEMMA NextSlotHolds == ASSUME IInv, PollNext PROVE IInv'
<1> DEFINE open == poll.open + IF gRings[poll.slot] # NoRing THEN 1 ELSE 0
<1>1. open \in Nat
  BY PollFields
<1>2. /\ poll.pc = "next" /\ UNCHANGED <<registered, active, client, ringReady>>
      /\ gRings' = gRings /\ name' = name /\ mapped' = mapped /\ lastRing' = lastRing
      /\ IF poll.slot + 1 \in Slots
           THEN poll' = [poll EXCEPT !.pc = "reg", !.slot = poll.slot + 1, !.open = open]
           ELSE poll' = [poll EXCEPT !.pc = "idle", !.slot = 0, !.open = 0, !.reg = FALSE, !.act = FALSE]
  BY DEF PollNext, PollAt, pollFrame
<1> HIDE DEF open
<1>3. PollTyped' /\ poll'.pc \in {"reg", "idle"}
  <2>1. CASE poll.slot + 1 \in Slots
    BY <1>1, <1>2, <2>1, PollFields DEF PollTyped, PollStates
  <2>2. CASE poll.slot + 1 \notin Slots
    BY <1>2, <2>2, PollFields, Sizes DEF PollTyped, PollStates
  <2> QED BY <2>1, <2>2
<1>4. Flags'
  BY <1>2, PollFields DEF Flags
<1>5. ASSUME NEW c \in Clients, Served(c)' PROVE gRings[MySlot(c)] # NoRing /\ ~Closing(MySlot(c))'
  BY <1>2, <1>3, <1>5, ServedFrame, ServedFacts DEF Closing
<1> QED BY <1>2, <1>3, <1>4, <1>5, PollQuiet

(* A fresh ring is opened in a slot that had none. *)
LEMMA OpenHolds == ASSUME IInv, PollOpen PROVE IInv'
<1> DEFINE s0 == poll.slot
           r0 == lastRing + 1
<1>1. /\ poll'.pc = "ready" /\ poll'.slot = s0 /\ PollTyped' /\ poll.pc = "open" /\ s0 \in Slots
  BY PollFields DEF PollOpen, PollGoto, PollAt, PollTyped, PollStates
<1>2. /\ gRings \in [Slots -> 0 .. MaxRings] /\ name \in [Slots -> 0 .. MaxRings]
      /\ mapped \subseteq 1 .. MaxRings /\ lastRing \in 0 .. MaxRings
  BY DEF IInv, Typed, RingTyped
<1>3. /\ lastRing < MaxRings /\ lastRing' = r0 /\ mapped' = mapped \cup {r0}
      /\ gRings' = [gRings EXCEPT ![s0] = r0] /\ name' = [name EXCEPT ![s0] = r0]
      /\ UNCHANGED <<registered, active, client, ringReady>>
  BY DEF PollOpen, pollFrame
<1>4. r0 \in 1 .. MaxRings /\ r0 > lastRing /\ NoRing = 0
  BY <1>2, <1>3, Sizes DEF NoRing
<1> HIDE DEF s0, r0
<1>5. /\ gRings'[s0] = r0 /\ name'[s0] = r0
      /\ \A s \in Slots \ {s0} : gRings'[s] = gRings[s] /\ name'[s] = name[s]
  BY <1>1, <1>2, <1>3
<1>6. RingTyped'
  <2>1. r0 \in 0 .. MaxRings
    BY <1>4, Sizes
  <2>2. gRings' \in [Slots -> 0 .. MaxRings] /\ name' \in [Slots -> 0 .. MaxRings]
    BY <1>2, <1>3, <2>1
  <2>3. mapped' \subseteq 1 .. MaxRings
    BY <1>2, <1>3, <1>4
  <2> QED BY <1>3, <2>1, <2>2, <2>3 DEF RingTyped
<1>7. \A s \in Slots : SlotRing(s) /\ gRings[s] \in 0 .. MaxRings
  BY <1>2 DEF IInv, RingInv
<1>8. gRings[s0] = NoRing
  BY <1>1, <1>7 DEF SlotRing, s0
<1>9. ASSUME NEW s \in Slots PROVE SlotRing(s)'
  <2>1. CASE s = s0
    BY <1>1, <1>3, <1>4, <1>5, <2>1 DEF SlotRing, Forgetting
  <2>2. CASE s # s0
    <3>1. gRings'[s] = gRings[s] /\ name'[s] = name[s] /\ gRings[s] <= lastRing'
      BY <1>2, <1>3, <1>4, <1>5, <1>7, <2>2 DEF SlotRing
    <3> QED BY <1>1, <1>3, <1>7, <2>2, <3>1 DEF SlotRing, Forgetting
  <2> QED BY <2>1, <2>2
<1>10. ASSUME NEW s \in Slots, NEW t \in Slots, s # t, gRings'[s] # NoRing PROVE gRings'[s] # gRings'[t]
  <2>1. \A u \in Slots \ {s0} : gRings'[u] # r0
    BY <1>2, <1>4, <1>5, <1>7 DEF SlotRing
  <2> QED BY <1>5, <1>10, <2>1 DEF IInv, RingInv
<1>11. ASSUME NEW r \in mapped' PROVE r <= lastRing' /\ \E s \in Slots : gRings'[s] = r
  <2>1. CASE r = r0
    BY <1>1, <1>3, <1>4, <1>5, <2>1
  <2>2. CASE r # r0
    <3>1. r \in mapped /\ r \in 1 .. MaxRings
      BY <1>2, <1>3, <2>2
    <3>2. PICK s \in Slots : gRings[s] = r
      BY <3>1 DEF IInv, RingInv
    <3>3. s # s0 /\ r <= lastRing
      BY <1>4, <1>8, <3>1, <3>2 DEF IInv, RingInv
    <3> QED BY <1>2, <1>3, <1>4, <1>5, <3>1, <3>2, <3>3
  <2> QED BY <2>1, <2>2
<1>12. RingInv'
  BY <1>9, <1>10, <1>11 DEF RingInv
<1>13. Flags'
  BY <1>3, PollFields DEF Flags
<1>14. \A s \in Slots : gRings[s] # NoRing => gRings'[s] = gRings[s]
  BY <1>5, <1>8
<1>15. ASSUME NEW c \in Clients, Served(c)' PROVE gRings'[MySlot(c)] # NoRing /\ ~Closing(MySlot(c))'
  <2>1. Served(c) /\ MySlot(c)' = MySlot(c)
    BY <1>3, <1>15, ServedFrame
  <2>2. gRings[MySlot(c)] # NoRing /\ MySlot(c) \in Slots
    BY <1>1, <2>1, ServedFacts
  <2> QED BY <1>1, <1>14, <2>1, <2>2 DEF Closing
<1> QED BY <1>1, <1>3, <1>6, <1>12, <1>13, <1>14, <1>15, PollStep

LEMMA OpenFailsHolds == ASSUME IInv, PollOpenFails PROVE IInv'
<1> DEFINE s0 == poll.slot
<1>1. /\ poll'.pc = "next" /\ poll'.slot = s0 /\ PollTyped' /\ poll.pc = "open" /\ s0 \in Slots
  BY PollFields DEF PollOpenFails, PollGoto, PollAt, PollTyped, PollStates
<1>2. /\ name' = [name EXCEPT ![s0] = NoRing] /\ gRings' = gRings /\ mapped' = mapped
      /\ lastRing' = lastRing /\ UNCHANGED <<registered, active, client, ringReady>>
  BY DEF PollOpenFails, pollFrame
<1>3. name \in [Slots -> 0 .. MaxRings]
  BY DEF IInv, Typed, RingTyped
<1>4. \A s \in Slots : SlotRing(s)
  BY DEF IInv, RingInv
<1>5. gRings[s0] = NoRing /\ name[s0] = NoRing
  BY <1>1, <1>4 DEF SlotRing, Forgetting
<1>6. name' = name
  BY <1>2, <1>3, <1>5
<1>7. Flags'
  BY <1>2, PollFields DEF Flags
<1>8. ASSUME NEW c \in Clients, Served(c)' PROVE gRings[MySlot(c)] # NoRing /\ ~Closing(MySlot(c))'
  BY <1>1, <1>2, <1>8, ServedFrame, ServedFacts DEF Closing
<1> QED BY <1>1, <1>2, <1>6, <1>7, <1>8, PollQuiet

(* The ring that is closed belongs to no served application. *)
LEMMA DestroyHolds == ASSUME IInv, PollDestroy PROVE IInv'
<1> DEFINE s0 == poll.slot
<1>1. /\ poll'.pc = "forget" /\ poll'.slot = s0 /\ PollTyped' /\ poll.pc = "close" /\ s0 \in Slots
  BY PollFields DEF PollDestroy, PollGoto, PollAt, PollTyped, PollStates
<1>2. /\ name' = [name EXCEPT ![s0] = NoRing] /\ gRings' = gRings /\ mapped' = mapped \ {gRings[s0]}
      /\ lastRing' = lastRing /\ UNCHANGED <<registered, active, client, ringReady>>
  BY DEF PollDestroy, pollFrame
<1>3. RingTyped'
  <2>1. name \in [Slots -> 0 .. MaxRings] /\ NoRing \in 0 .. MaxRings
    BY Sizes DEF IInv, Typed, RingTyped, NoRing
  <2>2. name' \in [Slots -> 0 .. MaxRings]
    BY <1>2, <2>1
  <2> QED BY <1>2, <2>2 DEF IInv, Typed, RingTyped
<1>4. /\ name'[s0] = NoRing /\ \A s \in Slots \ {s0} : name'[s] = name[s]
  BY <1>1, <1>2 DEF IInv, Typed, RingTyped
<1>5. \A s \in Slots : SlotRing(s)
  BY DEF IInv, RingInv
<1> HIDE DEF s0
<1>6. gRings[s0] # NoRing
  BY <1>1, <1>5 DEF SlotRing, s0
<1>7. ASSUME NEW s \in Slots PROVE SlotRing(s)'
  <2>1. SlotRing(s)
    BY <1>5
  <2>2. CASE s = s0
    BY <1>1, <1>2, <1>4, <1>6, <2>1, <2>2 DEF SlotRing, Forgetting
  <2>3. CASE s # s0
    <3>1. gRings[s] # gRings[s0]
      BY <1>1, <1>6, <2>3 DEF IInv, RingInv
    <3> QED BY <1>1, <1>2, <1>4, <2>1, <2>3, <3>1 DEF SlotRing, Forgetting
  <2> QED BY <2>2, <2>3
<1>8. RingInv'
  BY <1>2, <1>7 DEF IInv, RingInv
<1>9. Flags'
  BY <1>2, PollFields DEF Flags
<1>10. ASSUME NEW c \in Clients, Served(c)' PROVE gRings'[MySlot(c)] # NoRing /\ ~Closing(MySlot(c))'
  <2>1. Served(c) /\ MySlot(c)' = MySlot(c)
    BY <1>2, <1>10, ServedFrame
  <2>2. gRings[MySlot(c)] # NoRing /\ ~Closing(MySlot(c))
    BY <1>1, <2>1, ServedFacts
  <2>3. MySlot(c) # s0
    BY <1>1, <2>2 DEF Closing, s0
  <2> QED BY <1>1, <1>2, <2>1, <2>2, <2>3 DEF Closing
<1> QED BY <1>1, <1>2, <1>3, <1>8, <1>9, <1>10, PollStep

LEMMA ForgetHolds == ASSUME IInv, PollForget PROVE IInv'
<1> DEFINE s0 == poll.slot
<1>1. /\ poll'.pc = "unready" /\ poll'.slot = s0 /\ PollTyped' /\ poll.pc = "forget" /\ s0 \in Slots
  BY PollFields DEF PollForget, PollGoto, PollAt, PollTyped, PollStates
<1>2. /\ gRings' = [gRings EXCEPT ![s0] = NoRing] /\ name' = name /\ mapped' = mapped
      /\ lastRing' = lastRing /\ UNCHANGED <<registered, active, client, ringReady>>
  BY DEF PollForget, pollFrame
<1>3. RingTyped'
  <2>1. gRings \in [Slots -> 0 .. MaxRings] /\ NoRing \in 0 .. MaxRings
    BY Sizes DEF IInv, Typed, RingTyped, NoRing
  <2>2. gRings' \in [Slots -> 0 .. MaxRings]
    BY <1>2, <2>1
  <2> QED BY <1>2, <2>2 DEF IInv, Typed, RingTyped
<1>4. gRings'[s0] = NoRing /\ \A s \in Slots \ {s0} : gRings'[s] = gRings[s]
  BY <1>1, <1>2 DEF IInv, Typed, RingTyped
<1>5. (\A s \in Slots : SlotRing(s)) /\ NoRing <= lastRing
  BY Sizes DEF IInv, RingInv, Typed, RingTyped, NoRing
<1>6. name[s0] = NoRing /\ gRings[s0] \notin mapped
  BY <1>1, <1>5 DEF SlotRing, Forgetting
<1> HIDE DEF s0
<1>7. ASSUME NEW s \in Slots PROVE SlotRing(s)'
  <2>1. SlotRing(s)
    BY <1>5
  <2>2. CASE s = s0
    BY <1>1, <1>2, <1>4, <1>5, <1>6, <2>2 DEF SlotRing, Forgetting
  <2>3. CASE s # s0
    <3>1. ~Forgetting(s) /\ ~Forgetting(s)'
      BY <1>1, <2>3 DEF Forgetting, s0
    <3> QED BY <1>1, <1>2, <1>4, <2>1, <2>3, <3>1 DEF SlotRing
  <2> QED BY <2>2, <2>3
<1>8. RingInv'
  <2>1. ASSUME NEW s \in Slots, NEW t \in Slots, s # t, gRings'[s] # NoRing
        PROVE  gRings'[s] # gRings'[t]
    BY <1>4, <2>1 DEF IInv, RingInv
  <2>2. ASSUME NEW r \in mapped PROVE r <= lastRing /\ \E s \in Slots : gRings'[s] = r
    <3>1. PICK s \in Slots : gRings[s] = r
      BY DEF IInv, RingInv
    <3>2. s # s0
      BY <1>6, <3>1
    <3> QED BY <1>4, <3>1, <3>2 DEF IInv, RingInv
  <2> QED BY <1>2, <1>7, <2>1, <2>2 DEF RingInv
<1>9. Flags'
  BY <1>2, PollFields DEF Flags
<1>10. \A s \in Slots : gRings[s] # NoRing /\ ~Closing(s) => gRings'[s] = gRings[s]
  BY <1>1, <1>4 DEF Closing, s0
<1>11. ASSUME NEW c \in Clients, Served(c)' PROVE gRings'[MySlot(c)] # NoRing /\ ~Closing(MySlot(c))'
  <2>1. Served(c) /\ MySlot(c)' = MySlot(c)
    BY <1>2, <1>11, ServedFrame
  <2>2. gRings[MySlot(c)] # NoRing /\ ~Closing(MySlot(c)) /\ MySlot(c) \in Slots
    BY <1>1, <2>1, ServedFacts
  <2>3. MySlot(c) # s0
    BY <1>1, <2>2 DEF Closing, s0
  <2> QED BY <1>1, <1>10, <2>1, <2>2, <2>3 DEF Closing
<1> QED BY <1>1, <1>2, <1>3, <1>8, <1>9, <1>10, <1>11, PollStep

LEMMA ShutdownHolds == ASSUME IInv, ShutdownAll PROVE IInv'
<1>1. /\ poll'.pc = "down" /\ poll'.slot = poll.slot /\ PollTyped' /\ poll.pc = "idle"
  BY PollFields DEF ShutdownAll, PollGoto, PollAt, PollTyped, PollStates
<1>2. \A s \in Slots : name[s] = gRings[s]
  BY <1>1 DEF IInv, RingInv, SlotRing, Forgetting
<1>3. /\ gRings' = [s \in Slots |-> NoRing] /\ mapped' = {} /\ lastRing' = lastRing
      /\ UNCHANGED <<registered, active, client>>
  BY DEF ShutdownAll, pollFrame
<1>4. name' = [s \in Slots |-> NoRing]
  BY <1>2 DEF ShutdownAll
<1>5. ringReady' \in [Slots -> BOOLEAN]
  <2>1. \A s \in Slots : (IF s \in {t \in Slots : gRings[t] # NoRing} THEN FALSE ELSE ringReady[s]) \in BOOLEAN
    BY PollFields DEF Flags
  <2> QED BY <2>1 DEF ShutdownAll
<1>6. Flags'
  BY <1>3, <1>5, PollFields DEF Flags
<1>7. RingTyped'
  BY <1>3, <1>4, Sizes DEF IInv, Typed, RingTyped, NoRing
<1>8. RingInv'
  BY <1>1, <1>3, <1>4 DEF RingInv, SlotRing, Forgetting, IInv, Typed, RingTyped, NoRing
<1> QED BY <1>1, <1>3, <1>6, <1>7, <1>8, PollStep

-----------------------------------------------------------------------------
(* Steps that concern neither flags nor rings. *)
LEMMA FrameHolds ==
  ASSUME IInv, UNCHANGED <<registered, active, ringReady>>, UNCHANGED rings, UNCHANGED <<client, poll>>
  PROVE  IInv'
<1>1. gRings' = gRings /\ name' = name /\ mapped' = mapped /\ lastRing' = lastRing
  BY DEF rings
<1>2. Typed' /\ RingInv'
  BY <1>1 DEF IInv, Typed, Flags, ClientTyped, PollTyped, RingTyped, RingInv, SlotRing, Forgetting
<1>3. HolderInv'
  BY DEF IInv, HolderInv, Holds, MySlot
<1>4. Serving'
  BY <1>1 DEF IInv, Serving, Served, At, MySlot, Closing
<1>5. AttachedInv'
  BY <1>1 DEF IInv, AttachedInv, Attached, MySlot, OneConsumerPerRing
<1> QED BY <1>2, <1>3, <1>4, <1>5 DEF IInv

LEMMA NextHolds == IInv /\ [Next]_vars => IInv'
<1> SUFFICES ASSUME IInv, [Next]_vars PROVE IInv'
  OBVIOUS
<1>1. ASSUME NEW c \in Clients, Register(c) \/ Wait(c) \/ Depart(c) \/ Crash(c) PROVE IInv'
  BY <1>1, RegisterHolds, WaitHolds, DepartHolds
<1>2. ASSUME NEW c \in Clients, Receive(c) PROVE IInv'
  BY <1>2, FrameHolds DEF Receive, registry
<1>3. CASE Poll
  BY <1>3, StartHolds, ReadRegisteredHolds, ReadActiveHolds, OpenHolds, OpenFailsHolds,
     SetReadyHolds, DestroyHolds, ForgetHolds, ClearReadyHolds, NextSlotHolds DEF Poll
<1>4. CASE ShutdownAll
  BY <1>4, ShutdownHolds
<1>5. CASE Dispatch
  BY <1>5, FrameHolds DEF Dispatch, DispatchBegin, DispatchCheck, DispatchRoute, DispatchPush,
     DispatchFault, dispFrame, registry
<1>6. CASE UNCHANGED vars
  BY <1>6, FrameHolds DEF vars, registry
<1> QED BY <1>1, <1>2, <1>3, <1>4, <1>5, <1>6 DEF Next

(* The slots' holders, rings and the poll's view of them agree in every     *)
(* reachable state.                                                         *)
THEOREM Inductive == Spec => []IInv
<1>1. Init => IInv
  BY InitHolds
<1>2. IInv /\ [Next]_vars => IInv'
  BY NextHolds
<1> QED BY <1>1, <1>2, PTL DEF Spec

(* The rings of xrcomm_iq_ring.h are single-consumer: for any number of     *)
(* applications and slots, no two ever consume from one.                    *)
THEOREM SingleConsumer == Spec => []OneConsumerPerRing
<1>1. IInv => OneConsumerPerRing
  BY DEF IInv, AttachedInv
<1> QED BY <1>1, Inductive, PTL

(* ip_shm_poll_registrations never closes or replaces the ring of an        *)
(* attached application, however stale the flags it acts on.                *)
THEOREM RingStaysOpen == Spec => []AttachedRingOpen
<1>1. IInv => AttachedRingOpen
  <2> SUFFICES ASSUME IInv, NEW c \in Clients, Attached(c), Up
               PROVE  client[c].ring \in mapped /\ client[c].ring = gRings[MySlot(c)]
    BY DEF AttachedRingOpen
  <2>1. poll.pc # "down" /\ Served(c)
    BY DEF Up, Attached, Served
  <2>2. gRings[MySlot(c)] # NoRing /\ ~Closing(MySlot(c)) /\ MySlot(c) \in Slots
    BY <2>1, ServedFacts
  <2>3. ~Forgetting(MySlot(c))
    BY <2>2 DEF Closing, Forgetting
  <2>4. gRings[MySlot(c)] \in mapped
    BY <2>2, <2>3 DEF IInv, RingInv, SlotRing
  <2>5. client[c].ring = gRings[MySlot(c)]
    BY <2>1 DEF IInv, AttachedInv
  <2> QED BY <2>4, <2>5
<1> QED BY <1>1, Inductive, PTL

(* Every ring the platform maps stays reachable through g_iq_rings, whatever *)
(* opens fail and slots change hands.                                        *)
THEOREM NoLeak == Spec => []NoRingLeak
<1>1. IInv => NoRingLeak
  BY DEF IInv, RingInv, NoRingLeak
<1> QED BY <1>1, Inductive, PTL

-----------------------------------------------------------------------------
(* The flag of a waiting application. *)

(* What the poll is about to do that will serve the application in slot s.   *)
Coming(s) ==
  poll.slot = s /\ (poll.pc \in {"ready", "close", "forget"} \/ (poll.pc = "act" /\ ~poll.reg))
LEMMA ErasedForm ==
  ASSUME NEW c
  PROVE  Erased(c) <=> /\ At(c, "wait") /\ gRings[MySlot(c)] # NoRing /\ ~ringReady[MySlot(c)]
                       /\ ~Coming(MySlot(c))
  BY DEF Erased, Coming

(* An application other than the one waiting touches flags of its own slot.  *)
LEMMA OthersKeepFlag ==
  ASSUME IInv, NEW c \in Clients, At(c, "wait"), At(c, "wait")', Erased(c)',
         NEW d \in Clients, Register(d) \/ Wait(d) \/ Depart(d) \/ Crash(d) \/ Receive(d)
  PROVE  Erased(c)
<1>1. gRings' = gRings /\ poll' = poll
  BY DEF Register, Wait, Depart, Start, ClaimFree, ClaimTaken, WritePort, WriteChannel, Activate,
     ClearReady, SeeReady, Attach, TimeOut, Receive, Leave, Deactivate, Deregister, Crash,
     clientFrame, rings
<1>2. client \in [Clients -> [pc : ClientStates, slot : Slots, ring : 0 .. MaxRings]]
  BY DEF IInv, Typed, ClientTyped
<1>3. \/ ringReady' = ringReady
      \/ ClearReady(d)
  BY DEF Register, Wait, Depart, Start, ClaimFree, ClaimTaken, WritePort, WriteChannel, Activate,
     SeeReady, Attach, TimeOut, Receive, Leave, Deactivate, Deregister, Crash, registry
<1>4. client'[c] = client[c] \/ c = d
  BY <1>2 DEF Register, Wait, Depart, Start, ClaimFree, ClaimTaken, WritePort, WriteChannel,
     Activate, ClearReady, SeeReady, Attach, TimeOut, Receive, Leave, Deactivate, Deregister, Crash,
     Goto
<1>5. c # d \/ UNCHANGED client
  <2>1. CASE Receive(d)
    BY <2>1 DEF Receive
  <2>2. CASE Register(d)
    BY <2>2 DEF Register, Start, ClaimFree, ClaimTaken, WritePort, WriteChannel, Activate,
       ClearReady, At
  <2>3. CASE Wait(d)
    BY <1>2, <2>3 DEF Wait, SeeReady, Attach, TimeOut, At, Goto
  <2>4. CASE Depart(d) \/ Crash(d)
    BY <1>2, <2>4 DEF Depart, Leave, Deactivate, Deregister, Crash, Attached, At, Goto
  <2> QED BY <2>1, <2>2, <2>3, <2>4
<1>6. MySlot(c)' = MySlot(c) /\ MySlot(c) \in Slots
  BY <1>2, <1>4, <1>5 DEF MySlot
<1>7. CASE ringReady' = ringReady
  BY <1>1, <1>6, <1>7, ErasedForm DEF Coming, Erased, At
<1>8. CASE ClearReady(d)
  <2>1. Holds(c) /\ Holds(d) /\ c # d
    BY <1>8 DEF Holds, Holding, ClearReady, At
  <2>2. MySlot(c) # MySlot(d)
    BY <2>1 DEF IInv, HolderInv
  <2>3. ringReady'[MySlot(c)] = ringReady[MySlot(c)]
    BY <1>6, <1>8, <2>2 DEF ClearReady, IInv, Typed, Flags
  <2> QED BY <1>1, <1>6, <2>3 DEF Erased, At
<1> QED BY <1>3, <1>7, <1>8

(* The poll sets the flag of every ring it opens, and closes none that a     *)
(* waiting application will not get again.                                   *)
LEMMA PollKeepsFlag ==
  ASSUME IInv, NEW c \in Clients, At(c, "wait"), Poll, Erased(c)'
  PROVE  Erased(c)
<1> DEFINE s == MySlot(c)
<1>1. /\ registered' = registered /\ active' = active /\ client' = client
      /\ MySlot(c)' = s /\ s \in Slots /\ At(c, "wait")'
  BY DEF Poll, PollStart, PollReadRegistered, PollReadActive, PollOpen, PollOpenFails,
     PollSetReady, PollDestroy, PollForget, PollClearReady, PollNext, pollFrame, MySlot, At, IInv,
     Typed, ClientTyped
<1>2. registered[s] /\ active[s]
  BY <1>1 DEF IInv, HolderInv, Holds, Holding, At
<1>3. /\ gRings'[s] # NoRing /\ ~ringReady'[s]
      /\ ~ /\ poll'.slot = s
           /\ poll'.pc \in {"ready", "close", "forget"} \/ (poll'.pc = "act" /\ ~poll'.reg)
  BY <1>1 DEF Erased
<1>4. /\ poll \in [pc : PollStates, slot : Slots, reg : BOOLEAN, act : BOOLEAN, open : Nat]
      /\ Flags /\ gRings \in [Slots -> 0 .. MaxRings] /\ SlotRing(s)
  BY <1>1, PollFields DEF IInv, Typed, RingTyped, RingInv
<1> HIDE DEF s
<1> SUFFICES gRings[s] # NoRing /\ ~ringReady[s] /\ ~Coming(s)
  BY ErasedForm DEF s
<1>5. CASE PollStart \/ PollReadRegistered
  BY <1>2, <1>3, <1>4, <1>5 DEF PollStart, PollReadRegistered, PollAt, rings, Coming
<1>6. CASE PollReadActive
  BY <1>2, <1>3, <1>4, <1>6 DEF PollReadActive, PollAt, rings, Coming
<1>7. CASE PollOpen
  BY <1>1, <1>3, <1>4, <1>7 DEF PollOpen, PollAt, PollGoto, Coming
<1>8. CASE PollOpenFails \/ PollNext
  BY <1>3, <1>4, <1>8 DEF PollOpenFails, PollNext, PollAt, PollGoto, Coming
<1>9. CASE PollSetReady
  BY <1>1, <1>3, <1>4, <1>9 DEF PollSetReady, PollAt, PollGoto, Coming, rings, Flags
<1>10. CASE PollDestroy
  BY <1>3, <1>4, <1>10 DEF PollDestroy, PollAt, PollGoto, Coming
<1>11. CASE PollForget
  BY <1>1, <1>3, <1>4, <1>11 DEF PollForget, PollAt, PollGoto, Coming
<1>12. CASE PollClearReady
  BY <1>1, <1>3, <1>4, <1>12 DEF PollClearReady, PollAt, PollGoto, Coming, rings, Flags, SlotRing
<1> QED BY <1>5, <1>6, <1>7, <1>8, <1>9, <1>10, <1>11, <1>12 DEF Poll

(* A wait that will be served is made one that will not by no step of any    *)
(* party, for any number of applications and slots: the only store that      *)
(* loses a flag is the registration's own (xrcomm_ip_client.h:97).           *)
THEOREM FlagKept == Spec => WaitKeepsFlag
<1>1. ASSUME IInv, [Next]_vars, NEW c \in Clients,
             At(c, "wait"), At(c, "wait")', Erased(c)', Up'
      PROVE  Erased(c)
  <2>1. CASE \E d \in Clients : Register(d) \/ Wait(d) \/ Receive(d) \/ Depart(d) \/ Crash(d)
    BY <1>1, <2>1, OthersKeepFlag
  <2>2. CASE Poll
    BY <1>1, <2>2, PollKeepsFlag
  <2>3. CASE ShutdownAll
    BY <1>1, <2>3, PollFields DEF ShutdownAll, PollGoto, Up
  <2>4. CASE Dispatch
    BY <1>1, <2>4 DEF Dispatch, DispatchBegin, DispatchCheck, DispatchRoute, DispatchPush,
       DispatchFault, dispFrame, registry, rings, Erased, At, MySlot
  <2>5. CASE UNCHANGED vars
    BY <1>1, <2>5 DEF vars, registry, rings, Erased, At, MySlot
  <2> QED BY <1>1, <2>1, <2>2, <2>3, <2>4, <2>5 DEF Next
<1>2. IInv /\ [Next]_vars =>
        [\A c \in Clients :
           (At(c, "wait") /\ At(c, "wait")' /\ Erased(c)' /\ Up') => Erased(c)]_vars
  BY <1>1
<1> QED BY <1>2, Inductive, PTL DEF Spec, WaitKeepsFlag

=============================================================================
