----------------------------- MODULE IpRegistry -----------------------------
(***************************************************************************)
(* The control plane between the platform and its out-of-process IQ        *)
(* applications (xrcomm_ip_shm_channel.h, xrcomm_ip_client.h).             *)
(*                                                                         *)
(*  - an application registers in a slot of the shared registry, waits for *)
(*    ring_ready, attaches to the slot's ring, consumes, and shuts down;   *)
(*    it may time out while waiting, and it may crash anywhere;            *)
(*  - the platform's main loop polls the registry once a second, opens     *)
(*    rings for new applications and closes those of departed ones;        *)
(*  - the platform's processing core dispatches batches to open rings.     *)
(*                                                                         *)
(* Every shared load and store another party can observe is a step.  A     *)
(* ring is the bounded queue of module IqQueue, reduced to the channels of *)
(* the batches it holds.                                                   *)
(***************************************************************************)
EXTENDS Naturals, Sequences

CONSTANTS Clients,     \* application handles
          NumSlots,    \* XRCOMM_IP_MAX_SLOTS
          SubOf,       \* client -> the [port, channel] it registers for
          Channels,    \* logical channels the platform dispatches
          PortOf,      \* channel -> its HSP port
          All,         \* XRCOMM_IP_ALL_CHANNELS
          RingDepth,   \* XRCOMM_IQ_RING_DEPTH
          MaxRings,    \* bound on the rings ever opened
          MaxBatches   \* bound on the batches dispatched

Slots == 0 .. (NumSlots - 1)
NoRing == 0

ASSUME RegistryAssumption ==
  /\ NumSlots \in Nat \ {0} /\ RingDepth \in Nat \ {0}
  /\ MaxRings \in Nat /\ MaxBatches \in Nat
  /\ All \notin Channels
  /\ PortOf \in [Channels -> Nat]
  /\ SubOf \in [Clients -> [port : Nat, channel : Channels \cup {All}]]

VARIABLES
  registered, active, ringReady,  \* the flags of each registry slot
  request,     \* slot -> the [port, channel] written in it
  dropped,     \* slot -> dispatch.batches_dropped
  gRings,      \* slot -> ring the platform has mapped (g_iq_rings), or NoRing
  nOpen,       \* g_iq_ring_n_open
  name,        \* slot -> ring linked under the slot's SHM name, or NoRing
  mapped,      \* rings mapped by the platform
  lastRing,    \* number of rings ever created
  content,     \* ring -> channels of the batches it holds
  client,      \* client -> [pc, slot, ring], see ClientStates
  poll,        \* main loop: [pc, slot, reg, act, open]
  disp,        \* processing core: [pc, slot, channel]
  batches,     \* number of batches dispatched
  fault        \* the processing core has written to an unmapped ring

registry == <<registered, active, ringReady, request>>
rings    == <<gRings, nOpen, name, mapped, lastRing>>
vars == <<registry, dropped, rings, content, client, poll, disp, batches, fault>>

ClientStates == {"off", "claim", "port", "channel", "activate", "clear", "wait",
                 "attach", "attached", "deactivate", "deregister", "crashed"}
Waiting(c)  == client[c].pc \in {"wait", "attach"}
Attached(c) == client[c].pc = "attached"
Up == ~fault /\ poll.pc # "down"

Init ==
  /\ registered = [s \in Slots |-> FALSE] /\ active = [s \in Slots |-> FALSE]
  /\ ringReady = [s \in Slots |-> FALSE]
  /\ request = [s \in Slots |-> [port |-> 0, channel |-> 0]]
  /\ dropped = [s \in Slots |-> 0]
  /\ gRings = [s \in Slots |-> NoRing] /\ nOpen = 0
  /\ name = [s \in Slots |-> NoRing] /\ mapped = {} /\ lastRing = 0
  /\ content = [r \in 1 .. MaxRings |-> <<>>]
  /\ client = [c \in Clients |-> [pc |-> "off", slot |-> 0, ring |-> NoRing]]
  /\ poll = [pc |-> "idle", slot |-> 0, reg |-> FALSE, act |-> FALSE, open |-> 0]
  /\ disp = [pc |-> "idle", slot |-> 0, channel |-> 0]
  /\ batches = 0
  /\ fault = FALSE

-----------------------------------------------------------------------------
(* Application: _xrcomm_ip_client_register, wait_ready, poll, consume,     *)
(* shutdown.                                                               *)

At(c, pc) == client[c].pc = pc
Goto(c, pc) == client' = [client EXCEPT ![c].pc = pc]
MySlot(c) == client[c].slot

clientFrame == <<dropped, rings, content, poll, disp, batches, fault>>

(* Registration attaches to the control plane, which a platform that died   *)
(* leaves behind.                                                           *)
Start(c) ==
  /\ At(c, "off") /\ poll.pc # "down"
  /\ client' = [client EXCEPT ![c] = [pc |-> "claim", slot |-> 0, ring |-> NoRing]]
  /\ UNCHANGED <<registry, clientFrame>>

\* Variant: the claim is a plain store, not a compare-and-swap.
BlindClaimFree(c) ==
  /\ At(c, "claim")
  /\ registered' = [registered EXCEPT ![MySlot(c)] = TRUE]
  /\ Goto(c, "port")
  /\ UNCHANGED <<active, ringReady, request, clientFrame>>

(* The compare-and-swap on registered takes the first free slot. *)
ClaimFree(c) ==
  /\ At(c, "claim") /\ ~registered[MySlot(c)]
  /\ registered' = [registered EXCEPT ![MySlot(c)] = TRUE]
  /\ Goto(c, "port")
  /\ UNCHANGED <<active, ringReady, request, clientFrame>>

ClaimTaken(c) ==
  /\ At(c, "claim") /\ registered[MySlot(c)]
  /\ IF MySlot(c) + 1 \in Slots
       THEN client' = [client EXCEPT ![c].slot = @ + 1]
       ELSE Goto(c, "off")
  /\ UNCHANGED <<registry, clientFrame>>

WritePort(c) ==
  /\ At(c, "port")
  /\ request' = [request EXCEPT ![MySlot(c)].port = SubOf[c].port]
  /\ Goto(c, "channel")
  /\ UNCHANGED <<registered, active, ringReady, clientFrame>>

WriteChannel(c) ==
  /\ At(c, "channel")
  /\ request' = [request EXCEPT ![MySlot(c)].channel = SubOf[c].channel]
  /\ Goto(c, "activate")
  /\ UNCHANGED <<registered, active, ringReady, clientFrame>>

Activate(c) ==
  /\ At(c, "activate")
  /\ active' = [active EXCEPT ![MySlot(c)] = TRUE]
  /\ Goto(c, "clear")
  /\ UNCHANGED <<registered, ringReady, request, clientFrame>>

ClearReady(c) ==
  /\ At(c, "clear")
  /\ ringReady' = [ringReady EXCEPT ![MySlot(c)] = FALSE]
  /\ Goto(c, "wait")
  /\ UNCHANGED <<registered, active, request, clientFrame>>

\* Variant: the ring is attached to without waiting for the flag.
EagerSeeReady(c) == At(c, "wait") /\ Goto(c, "attach") /\ UNCHANGED <<registry, clientFrame>>

(* wait_ready sees ring_ready ... *)
SeeReady(c) ==
  /\ At(c, "wait") /\ ringReady[MySlot(c)]
  /\ Goto(c, "attach")
  /\ UNCHANGED <<registry, clientFrame>>

(* ... and opens the ring by the slot's name; a failed open shuts down. *)
Attach(c) ==
  /\ At(c, "attach")
  /\ client' = [client EXCEPT ![c] =
                 [pc |-> IF name[MySlot(c)] = NoRing THEN "deactivate" ELSE "attached",
                  slot |-> MySlot(c), ring |-> name[MySlot(c)]]]
  /\ UNCHANGED <<registry, clientFrame>>

(* wait_ready times out and the application shuts down. *)
TimeOut(c) ==
  /\ At(c, "wait") /\ ~ringReady[MySlot(c)]
  /\ Goto(c, "deactivate")
  /\ UNCHANGED <<registry, clientFrame>>

(* poll() returns the oldest batch, consume() releases it. *)
Receive(c) ==
  /\ Attached(c) /\ content[client[c].ring] # <<>>
  /\ content' = [content EXCEPT ![client[c].ring] = Tail(@)]
  /\ UNCHANGED <<registry, client, dropped, rings, poll, disp, batches, fault>>

(* The receive loop ends, by a signal or because the pipeline stopped. *)
Leave(c) ==
  /\ Attached(c)
  /\ Goto(c, "deactivate")
  /\ UNCHANGED <<registry, clientFrame>>

Deactivate(c) ==
  /\ At(c, "deactivate")
  /\ active' = [active EXCEPT ![MySlot(c)] = FALSE]
  /\ Goto(c, "deregister")
  /\ UNCHANGED <<registered, ringReady, request, clientFrame>>

(* The slot is given up; the mappings go with it. *)
Deregister(c) ==
  /\ At(c, "deregister")
  /\ registered' = [registered EXCEPT ![MySlot(c)] = FALSE]
  /\ client' = [client EXCEPT ![c] = [pc |-> "off", slot |-> MySlot(c), ring |-> NoRing]]
  /\ UNCHANGED <<active, ringReady, request, clientFrame>>

Crash(c) ==
  /\ client[c].pc \notin {"off", "crashed"}
  /\ client' = [client EXCEPT ![c] = [pc |-> "crashed", slot |-> MySlot(c), ring |-> NoRing]]
  /\ UNCHANGED <<registry, clientFrame>>

-----------------------------------------------------------------------------
(* Main loop: ip_shm_poll_registrations, once a second. *)

pollFrame == <<registered, active, request, dropped, content, client, disp, batches, fault>>
PollGoto(pc) == poll' = [poll EXCEPT !.pc = pc]
PollAt(pc) == ~fault /\ poll.pc = pc

PollStart ==
  /\ PollAt("idle")
  /\ poll' = [poll EXCEPT !.pc = "reg", !.slot = 0, !.open = 0]
  /\ UNCHANGED <<ringReady, rings, pollFrame>>

PollReadRegistered ==
  /\ PollAt("reg")
  /\ poll' = [poll EXCEPT !.pc = "act", !.reg = registered[poll.slot]]
  /\ UNCHANGED <<ringReady, rings, pollFrame>>

\* Variant: a ring is opened whether or not the slot has one.
ReopeningPollReadActive ==
  /\ PollAt("act")
  /\ LET in == poll.reg /\ active[poll.slot]
     IN  poll' = [poll EXCEPT !.act = active[poll.slot],
                    !.pc = IF in THEN "open"
                           ELSE IF gRings[poll.slot] # NoRing THEN "close" ELSE "next"]
  /\ UNCHANGED <<ringReady, rings, pollFrame>>

PollReadActive ==
  /\ PollAt("act")
  /\ LET in == poll.reg /\ active[poll.slot]
         ring == gRings[poll.slot] # NoRing
     IN  poll' = [poll EXCEPT !.act = active[poll.slot],
                    !.pc = CASE in /\ ~ring  -> "open"
                             [] ~in /\ ring  -> "close"
                             [] OTHER        -> "next"]
  /\ UNCHANGED <<ringReady, rings, pollFrame>>

(* xrcomm_iq_shm_create: a zeroed ring replaces any of the same name. *)
PollOpen ==
  /\ PollAt("open") /\ lastRing < MaxRings
  /\ lastRing' = lastRing + 1
  /\ gRings' = [gRings EXCEPT ![poll.slot] = lastRing']
  /\ name' = [name EXCEPT ![poll.slot] = lastRing']
  /\ mapped' = mapped \cup {lastRing'}
  /\ PollGoto("ready")
  /\ UNCHANGED <<ringReady, nOpen, pollFrame>>

(* xrcomm_iq_shm_create fails: the slot is tried again at the next poll. *)
PollOpenFails ==
  /\ PollAt("open")
  /\ name' = [name EXCEPT ![poll.slot] = NoRing]
  /\ PollGoto("next")
  /\ UNCHANGED <<ringReady, gRings, nOpen, mapped, lastRing, pollFrame>>

\* Variant: the application is not told.
SilentPollSetReady == PollAt("ready") /\ PollGoto("next") /\ UNCHANGED <<ringReady, rings, pollFrame>>

PollSetReady ==
  /\ PollAt("ready")
  /\ ringReady' = [ringReady EXCEPT ![poll.slot] = TRUE]
  /\ PollGoto("next")
  /\ UNCHANGED <<rings, pollFrame>>

(* xrcomm_iq_shm_destroy: the ring is unmapped and its name unlinked ... *)
PollDestroy ==
  /\ PollAt("close")
  /\ mapped' = mapped \ {gRings[poll.slot]}
  /\ name' = [name EXCEPT ![poll.slot] = NoRing]
  /\ PollGoto("forget")
  /\ UNCHANGED <<ringReady, gRings, nOpen, lastRing, pollFrame>>

\* Variant: the pointer to the closed ring is kept.
KeepingPollForget == PollAt("forget") /\ PollGoto("unready") /\ UNCHANGED <<ringReady, rings, pollFrame>>

(* ... before the processing core can see that it is gone. *)
PollForget ==
  /\ PollAt("forget")
  /\ gRings' = [gRings EXCEPT ![poll.slot] = NoRing]
  /\ PollGoto("unready")
  /\ UNCHANGED <<ringReady, nOpen, name, mapped, lastRing, pollFrame>>

PollClearReady ==
  /\ PollAt("unready")
  /\ ringReady' = [ringReady EXCEPT ![poll.slot] = FALSE]
  /\ PollGoto("next")
  /\ UNCHANGED <<rings, pollFrame>>

PollNext ==
  /\ PollAt("next")
  /\ LET open == poll.open + IF gRings[poll.slot] # NoRing THEN 1 ELSE 0
     IN  IF poll.slot + 1 \in Slots
           THEN /\ poll' = [poll EXCEPT !.pc = "reg", !.slot = @ + 1, !.open = open]
                /\ UNCHANGED nOpen
           ELSE /\ poll' = [poll EXCEPT !.pc = "idle", !.slot = 0, !.open = 0,
                                        !.reg = FALSE, !.act = FALSE]
                /\ nOpen' = open
  /\ UNCHANGED <<ringReady, gRings, name, mapped, lastRing, pollFrame>>

(* ip_shm_shutdown_all, once the processing core has stopped. *)
ShutdownAll ==
  /\ PollAt("idle") /\ disp.pc = "idle"
  /\ LET open == {s \in Slots : gRings[s] # NoRing}
     IN  /\ ringReady' = [s \in Slots |-> IF s \in open THEN FALSE ELSE ringReady[s]]
         /\ name' = [s \in Slots |-> IF s \in open THEN NoRing ELSE name[s]]
  /\ gRings' = [s \in Slots |-> NoRing]
  /\ mapped' = {} /\ nOpen' = 0
  /\ PollGoto("down")
  /\ UNCHANGED <<lastRing, pollFrame>>

-----------------------------------------------------------------------------
(* Processing core: ip_shm_dispatch_iq for one batch of one channel. *)

dispFrame == <<registry, rings, client, poll>>
DispAt(pc) == Up /\ disp.pc = pc

DispatchBegin ==
  /\ DispAt("idle") /\ nOpen > 0 /\ batches < MaxBatches
  /\ batches' = batches + 1
  /\ \E ch \in Channels : disp' = [pc |-> "check", slot |-> 0, channel |-> ch]
  /\ UNCHANGED <<dispFrame, dropped, content, fault>>

Advance ==
  disp' = IF disp.slot + 1 \in Slots
            THEN [disp EXCEPT !.pc = "check", !.slot = @ + 1]
            ELSE [pc |-> "idle", slot |-> 0, channel |-> 0]

(* The ring pointer is tested ... *)
DispatchCheck ==
  /\ DispAt("check")
  /\ IF gRings[disp.slot] = NoRing THEN Advance ELSE disp' = [disp EXCEPT !.pc = "route"]
  /\ UNCHANGED <<dispFrame, dropped, content, batches, fault>>

Routed(req, ch) == IF req.channel = All THEN req.port = PortOf[ch] ELSE req.channel = ch

(* ... the subscription is read ... *)
DispatchRoute ==
  /\ DispAt("route")
  /\ IF Routed(request[disp.slot], disp.channel)
       THEN disp' = [disp EXCEPT !.pc = "push"] ELSE Advance
  /\ UNCHANGED <<dispFrame, dropped, content, batches, fault>>

(* ... and the batch is pushed through the pointer, read again. *)
DispatchPush ==
  /\ DispAt("push") /\ gRings[disp.slot] \in mapped
  /\ LET r == gRings[disp.slot]
     IN  IF Len(content[r]) < RingDepth
           THEN /\ content' = [content EXCEPT ![r] = Append(@, disp.channel)]
                /\ UNCHANGED dropped
           ELSE /\ dropped' = [dropped EXCEPT ![disp.slot] = @ + 1]
                /\ UNCHANGED content
  /\ Advance
  /\ UNCHANGED <<dispFrame, batches, fault>>

DispatchFault ==
  /\ DispAt("push") /\ gRings[disp.slot] \notin mapped
  /\ fault' = TRUE
  /\ UNCHANGED <<dispFrame, disp, dropped, content, batches>>

-----------------------------------------------------------------------------
Register(c) == Start(c) \/ ClaimFree(c) \/ ClaimTaken(c) \/ WritePort(c) \/ WriteChannel(c)
               \/ Activate(c) \/ ClearReady(c)
Wait(c) == SeeReady(c) \/ Attach(c) \/ TimeOut(c)
Depart(c) == Leave(c) \/ Deactivate(c) \/ Deregister(c)
Poll == PollStart \/ PollReadRegistered \/ PollReadActive \/ PollOpen \/ PollOpenFails
        \/ PollSetReady \/ PollDestroy \/ PollForget \/ PollClearReady \/ PollNext
Dispatch == DispatchBegin \/ DispatchCheck \/ DispatchRoute \/ DispatchPush \/ DispatchFault

Next ==
  \/ \E c \in Clients : Register(c) \/ Wait(c) \/ Receive(c) \/ Depart(c) \/ Crash(c)
  \/ Poll \/ ShutdownAll
  \/ Dispatch

Spec == Init /\ [][Next]_vars

(* The main loop keeps polling and ring creation does not fail for ever; a *)
(* registration runs to its end and a waiting application keeps looking at *)
(* its flag.  Nobody must time out.                                        *)
FairSpec ==
  /\ Spec
  /\ WF_vars(Poll) /\ SF_vars(PollOpen)
  /\ \A c \in Clients : WF_vars(ClearReady(c) \/ SeeReady(c) \/ Attach(c))
-----------------------------------------------------------------------------
(* Type invariant. *)
TypeOK ==
  /\ registered \in [Slots -> BOOLEAN] /\ active \in [Slots -> BOOLEAN]
  /\ ringReady \in [Slots -> BOOLEAN]
  /\ request \in [Slots -> [port : Nat, channel : Channels \cup {All, 0}]]
  /\ dropped \in [Slots -> Nat]
  /\ gRings \in [Slots -> 0 .. MaxRings] /\ name \in [Slots -> 0 .. MaxRings]
  /\ nOpen \in 0 .. NumSlots /\ mapped \subseteq 1 .. MaxRings /\ lastRing \in 0 .. MaxRings
  /\ content \in [1 .. MaxRings -> Seq(Channels)]
  /\ client \in [Clients -> [pc : ClientStates, slot : Slots, ring : 0 .. MaxRings]]
  /\ poll \in [pc : {"idle", "reg", "act", "open", "ready", "close", "forget", "unready",
                      "next", "down"},
               slot : Slots, reg : BOOLEAN, act : BOOLEAN, open : 0 .. NumSlots]
  /\ disp \in [pc : {"idle", "check", "route", "push"}, slot : Slots, channel : Channels \cup {0}]
  /\ batches \in 0 .. MaxBatches
  /\ fault \in BOOLEAN

(* The rings are single-consumer: slot reuse, late polls and time-outs never *)
(* leave two applications consuming from one ring.                           *)
OneConsumerPerRing ==
  \A c, d \in Clients : (c # d /\ Attached(c) /\ Attached(d)) => client[c].ring # client[d].ring

(* The platform never closes or replaces a ring under an attached            *)
(* application: the ring it consumes from is the one batches are pushed to.  *)
AttachedRingOpen ==
  \A c \in Clients : (Attached(c) /\ Up) =>
    /\ client[c].ring \in mapped
    /\ client[c].ring = gRings[MySlot(c)]

(* Every ring the platform has mapped is reachable through g_iq_rings, so    *)
(* that it is closed one day.                                                *)
NoRingLeak == mapped \subseteq {gRings[s] : s \in Slots}

(* ring_ready of a waiting application is lost: its ring is open and the     *)
(* flag down, and the poll is neither about to set it nor to close the ring. *)
Erased(c) ==
  LET s == MySlot(c)
  IN  /\ At(c, "wait") /\ gRings[s] # NoRing /\ ~ringReady[s]
      /\ ~ /\ poll.slot = s
           /\ poll.pc \in {"ready", "close", "forget"} \/ (poll.pc = "act" /\ ~poll.reg)

OutOfRings(s) == gRings[s] = NoRing /\ lastRing = MaxRings

(* Only a registration erases the flag of its own wait: of those waiting,    *)
(* no step of the poll, late as it may be, nor of another application takes  *)
(* one from where it will be served to where it will not.                    *)
WaitKeepsFlag ==
  [][\A c \in Clients :
       (At(c, "wait") /\ At(c, "wait")' /\ Erased(c)' /\ Up') => Erased(c)]_vars

(* A waiting application is served unless it gives up or its flag was erased *)
(* by its own registration (Erased): neither a late poll, a failed creation, *)
(* nor a ring still to be closed for the slot's last tenant loses the flag.  *)
ServedUnlessErased ==
  \A c \in Clients :
    (At(c, "wait") /\ ~Erased(c)) ~> (~At(c, "wait") \/ ~Up \/ OutOfRings(MySlot(c)))

(* The ring of a slot that was given up is closed, unless the slot is taken  *)
(* again first.                                                              *)
DepartedRingCloses ==
  \A s \in Slots :
    (~registered[s] /\ gRings[s] # NoRing) ~> (gRings[s] = NoRing \/ registered[s] \/ ~Up)

-----------------------------------------------------------------------------
(* What the documentation says and the code does not do.                     *)

(* "Closes rings for departed secondaries": the ring of a slot whose holder  *)
(* is gone is closed.                                                        *)
Abandoned(s) ==
  registered[s] /\ \A c \in Clients : MySlot(c) = s => client[c].pc \in {"off", "claim", "crashed"}
CrashedRingCloses ==
  \A s \in Slots : (Abandoned(s) /\ gRings[s] # NoRing) ~> (gRings[s] = NoRing \/ ~Up)

(* "Pushes the already-extracted IQ scratch buffer into each open SHM ring": *)
(* the processing core never writes to a ring that has been closed.          *)
PushesIntoOpenRings == ~fault
=============================================================================
