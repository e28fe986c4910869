----------------------------- MODULE DataPlane ------------------------------
(***************************************************************************)
(* The kick and completion path of one virtio device: the guest's driver    *)
(* publishes chains and writes QUEUE_NOTIFY; the BRISC firmware polls the   *)
(* register and sets the queue's dirty byte (brisc-firmware/virtio.c); the  *)
(* dispatcher thread of the daemon clears the byte, drains the avail ring,  *)
(* posts to the used ring and interrupts (tensix_data_plane.rs,             *)
(* virtio/mod.rs).  The device can be unplugged and plugged in again, the   *)
(* guest can reset it, and the daemon can die and be restarted while        *)
(* firmware and guest run on.                                               *)
(*                                                                         *)
(* A chain is one descriptor, named by its head.  A driver's queue setup is  *)
(* one step (GuestProbe): what can go wrong inside it is not the subject    *)
(* here.  mishap records which of the known windows a behaviour went        *)
(* through, so that properties can say what holds outside of them.          *)
(***************************************************************************)
EXTENDS Integers, Sequences, FiniteSets

CONSTANTS NQ,          \* queues of the device
          RxPolled,    \* queues the RX poll serves: {0} for net and console, else {}
          QueueNum,    \* QUEUE_NUM the guest programmed
          IdxMod,      \* the ring indices are u16: 2^16, a multiple of QueueNum
          MaxPub, MaxRx,                         \* bounds: chains, RX items
          MaxReset, MaxRestart, MaxUnplug, MaxBad \* bounds: the unusual events

ASSUME QueueAssumption ==
  /\ NQ \in Nat \ {0} /\ RxPolled \subseteq 0..(NQ - 1)
  /\ QueueNum \in Nat \ {0} /\ IdxMod \in Nat /\ IdxMod > QueueNum
  /\ IdxMod % QueueNum = 0
  /\ {MaxPub, MaxRx, MaxReset, MaxRestart, MaxUnplug, MaxBad} \subseteq Nat

Queue == 0..(NQ - 1)
Idx == 0..(IdxMod - 1)
Desc == 0..(QueueNum - 1)
Sentinel == -1          \* 0xFFFFFFFF in QUEUE_NOTIFY; also "no queue"

VARIABLES
  drv,        \* the guest's driver is bound
  status,     \* MMIO STATUS: 0, or 1 for DRIVER_OK
  avail, ring, used, usedRing,  \* the rings in guest memory
  reaped,     \* the driver's last_used_idx
  busy,       \* heads the driver has submitted and not got back
  kick,       \* the driver has published and not yet written QUEUE_NOTIFY
  session,    \* number of the probe the rings belong to
  irq,        \* the PLIC has latched the device's interrupt
  notify,     \* MMIO QUEUE_NOTIFY
  dirty,      \* CTRL_OFF_DIRTY
  mask,       \* the slot's bit in CTRL_OFF_ACTIVE_SLOTS
  conf,       \* the queue's shadow holds its ring pointers
  bpc, bq, prevActive, snap,    \* firmware: program counter, the notify value
              \* it read, prev_active, the STATUS snapshot
  reg,        \* Dispatcher.registry holds the slot's RegEntry
  plug,       \* register/unregister has not yet published the active mask
  processed,  \* RegEntry.processed
  lastStatus, seen,             \* last_status, and the value the sweep just read
  dpc, scan, hits, cur, ptr, posted, \* dispatcher: where it is in a pass, the
              \* queue being scanned, the dirty queues found, the queue in
              \* dispatch_chain, the session its pointers are of, posted
  rx,         \* what the device's backing source has for the RX queue
  pubs, rxs, resets, restarts, unplugs, bads,  \* counts, for the bounds
  mishap

guestVars == <<drv, status, avail, ring, reaped, busy, kick, session>>
memVars   == <<used, usedRing, irq>>
briscVars == <<bpc, bq, prevActive, snap>>
regVars   == <<reg, plug>>
passVars  == <<dpc, scan, hits, cur, ptr, posted>>
dispVars  == <<processed, lastStatus, seen, passVars>>
counts    == <<pubs, rxs, resets, restarts, unplugs, bads>>
vars == <<guestVars, memVars, notify, dirty, mask, conf, briscVars, regVars,
          dispVars, rx, counts, mishap>>

Mishap == {"overwritten",   \* a QUEUE_NOTIFY write was lost in the register
           "staleCursor",   \* a session is served from another one's cursor
           "staleMemory",   \* a chain was served from rings already given up
           "midPass",       \* the daemon died between clearing and serving
           "malformed"}     \* a chain was refused

TypeOK ==
  /\ drv \in BOOLEAN /\ status \in {0, 1} /\ session \in 0..(MaxReset + 1)
  /\ avail \in [Queue -> Idx] /\ used \in [Queue -> Idx] /\ reaped \in [Queue -> Idx]
  /\ ring \in [Queue -> [Desc -> Desc]] /\ usedRing \in [Queue -> [Desc -> Desc]]
  /\ busy \in [Queue -> SUBSET Desc] /\ kick \in [Queue -> BOOLEAN]
  /\ irq \in BOOLEAN
  /\ notify \in Queue \cup {Sentinel} /\ dirty \in [Queue -> BOOLEAN]
  /\ mask \in BOOLEAN /\ conf \in BOOLEAN
  /\ bpc \in {"top", "status", "notify", "set", "clear"} /\ bq \in Queue
  /\ prevActive \in BOOLEAN /\ snap \in {0, 1}
  /\ reg \in BOOLEAN /\ plug \in BOOLEAN
  /\ processed \in [Queue -> Idx] /\ lastStatus \in {0, 1} /\ seen \in {0, 1}
  /\ dpc \in {"idle", "scan", "clear", "drain", "rx", "sweep", "apply"}
  /\ scan \in 0..NQ /\ hits \in Seq(Queue) /\ Len(hits) <= NQ
  /\ cur \in Queue \cup {Sentinel} /\ ptr \in 0..(MaxReset + 1) /\ posted \in BOOLEAN
  /\ rx \in 0..MaxRx /\ rxs \in 0..MaxRx /\ pubs \in 0..MaxPub
  /\ resets \in 0..MaxReset /\ restarts \in 0..MaxRestart
  /\ unplugs \in 0..MaxUnplug /\ bads \in 0..MaxBad
  /\ mishap \subseteq Mishap

Zero == [q \in Queue |-> 0]
FreshRing == [q \in Queue |-> [h \in Desc |-> 0]]
\* Mutant: the u16 index does not wrap.
IncUnwrapped(i) == i + 1

Inc(i) == (i + 1) % IdxMod

Init ==
  /\ drv = FALSE /\ status = 0 /\ session = 0
  /\ avail = Zero /\ used = Zero /\ reaped = Zero
  /\ ring = FreshRing /\ usedRing = FreshRing
  /\ busy = [q \in Queue |-> {}] /\ kick = [q \in Queue |-> FALSE] /\ irq = FALSE
  /\ notify = Sentinel /\ dirty = [q \in Queue |-> FALSE] /\ mask = FALSE /\ conf = FALSE
  /\ bpc = "top" /\ bq = 0 /\ prevActive = FALSE /\ snap = 0
  /\ reg = FALSE /\ plug = FALSE
  /\ processed = Zero /\ lastStatus = 0 /\ seen = 0
  /\ dpc = "idle" /\ scan = 0 /\ hits = <<>> /\ cur = Sentinel /\ ptr = 0 /\ posted = FALSE
  /\ rx = 0 /\ rxs = 0 /\ pubs = 0 /\ resets = 0 /\ restarts = 0 /\ unplugs = 0 /\ bads = 0
  /\ mishap = {}
-----------------------------------------------------------------------------
(* The guest's driver (external). *)

\* The cursors that serve the new session are those of an earlier one, unless the
\* status sweep has already read the 0 in between and is about to wipe them.
WipeDue == dpc = "apply" /\ seen = 0 /\ lastStatus # 0
CursorStale == reg /\ processed # Zero /\ ~WipeDue

\* From STATUS = ACKNOWLEDGE to DRIVER_OK: fresh rings, and their pointers captured
\* into the shadow by the firmware's READY handler.
GuestProbe ==
  /\ ~drv /\ mask /\ prevActive
  /\ drv' = TRUE /\ status' = 1 /\ session' = session + 1 /\ conf' = TRUE
  /\ avail' = Zero /\ used' = Zero /\ reaped' = Zero
  /\ ring' = FreshRing /\ usedRing' = FreshRing
  /\ mishap' = IF CursorStale THEN mishap \cup {"staleCursor"} ELSE mishap
  /\ UNCHANGED <<busy, kick, irq, notify, dirty, mask, briscVars, regVars, dispVars, rx, counts>>

GuestPublish(q, h) ==
  /\ drv /\ pubs < MaxPub /\ h \notin busy[q]
  /\ pubs' = pubs + 1
  /\ ring' = [ring EXCEPT ![q][avail[q] % QueueNum] = h]
  /\ avail' = [avail EXCEPT ![q] = Inc(@)]
  /\ busy' = [busy EXCEPT ![q] = @ \cup {h}]
  /\ kick' = [kick EXCEPT ![q] = TRUE]
  /\ UNCHANGED <<drv, status, reaped, session, memVars, notify, dirty, mask, conf, briscVars,
                 regVars, dispVars, rx, rxs, resets, restarts, unplugs, bads, mishap>>

\* The write is lost on the queue's own behalf if the firmware has read the register,
\* set a dirty byte for what it read, and is about to write the sentinel; it
\* loses another queue's write if that one has not been read yet.
GuestKick(q) ==
  /\ kick[q]
  /\ kick' = [kick EXCEPT ![q] = FALSE]
  /\ notify' = q
  /\ mishap' = IF \/ bpc = "clear"
                  \/ bpc = "set" /\ q # bq
                  \/ bpc # "set" /\ notify \notin {Sentinel, q}
               THEN mishap \cup {"overwritten"} ELSE mishap
  /\ UNCHANGED <<drv, status, avail, ring, reaped, busy, session, memVars, dirty, mask, conf,
                 briscVars, regVars, dispVars, rx, counts>>

\* The used entries the driver has not taken yet, oldest first.
Unreaped(q) == {i \in Idx : (i - reaped[q]) % IdxMod < (used[q] - reaped[q]) % IdxMod}

GuestInterrupt ==
  /\ irq /\ irq' = FALSE
  /\ busy' = [q \in Queue |-> busy[q] \ {usedRing[q][i % QueueNum] : i \in Unreaped(q)}]
  /\ reaped' = used
  /\ UNCHANGED <<drv, status, avail, ring, kick, session, used, usedRing, notify, dirty, mask,
                 conf, briscVars, regVars, dispVars, rx, counts, mishap>>

\* vm_reset: STATUS = 0, without waiting for anybody to notice.
GuestReset ==
  /\ drv /\ resets < MaxReset
  /\ drv' = FALSE /\ status' = 0 /\ resets' = resets + 1
  /\ busy' = [q \in Queue |-> {}] /\ kick' = [q \in Queue |-> FALSE] /\ irq' = FALSE
  /\ UNCHANGED <<avail, ring, reaped, session, used, usedRing, notify, dirty, mask, conf,
                 briscVars, regVars, dispVars, rx, pubs, rxs, restarts, unplugs, bads, mishap>>

RxArrives ==
  /\ rxs < MaxRx /\ rxs' = rxs + 1 /\ rx' = rx + 1
  /\ UNCHANGED <<guestVars, memVars, notify, dirty, mask, conf, briscVars, regVars, dispVars,
                 pubs, resets, restarts, unplugs, bads, mishap>>

-----------------------------------------------------------------------------
(* The firmware's main loop. *)

BriscFrame == UNCHANGED <<guestVars, memVars, mask, regVars, dispVars, rx, counts, mishap>>

\* init_device: registers and shadow of the slot are wiped.
init_device == notify' = Sentinel /\ conf' = FALSE

BriscTop ==
  /\ bpc = "top"
  /\ prevActive' = mask
  /\ IF mask /\ ~prevActive THEN init_device /\ snap' = 0 ELSE UNCHANGED <<notify, conf, snap>>
  /\ bpc' = IF mask THEN "status" ELSE "top"
  /\ UNCHANGED <<bq, dirty>> /\ BriscFrame

handle_status_change ==
  /\ bpc = "status" /\ bpc' = "notify"
  /\ IF status # snap /\ status = 0 THEN init_device ELSE UNCHANGED <<notify, conf>>
  /\ snap' = status
  /\ UNCHANGED <<bq, prevActive, dirty>> /\ BriscFrame

ReadNotify ==
  /\ bpc = "notify"
  /\ IF notify # Sentinel THEN bpc' = "set" /\ bq' = notify ELSE bpc' = "top" /\ UNCHANGED bq
  /\ UNCHANGED <<prevActive, snap, notify, dirty, conf>> /\ BriscFrame

handle_queue_notify ==
  /\ bpc = "set" /\ bpc' = "clear"
  /\ dirty' = [dirty EXCEPT ![bq] = TRUE]
  /\ UNCHANGED <<bq, prevActive, snap, notify, conf>> /\ BriscFrame

WriteSentinel ==
  /\ bpc = "clear" /\ bpc' = "top"
  /\ notify' = Sentinel
  /\ UNCHANGED <<bq, prevActive, snap, dirty, conf>> /\ BriscFrame

poll_one_device ==
  \/ handle_status_change \/ ReadNotify \/ handle_queue_notify \/ WriteSentinel

-----------------------------------------------------------------------------
(* Registration: register_slot and unregister_slot take the registry lock, then
   publish the active mask from what the registry holds. *)

DaemonFrame == UNCHANGED <<guestVars, notify, dirty, conf, briscVars>>

\* The dispatcher holds the registry lock through drain_dirty_bitmap and through
\* the RX poll.
RegistryFree == dpc \in {"idle", "sweep", "apply"} \/ (dpc = "rx" /\ cur = Sentinel)

\* RegEntry::new starts every cursor at 0, whatever the rings in guest memory say.
register_slot ==
  /\ ~reg /\ ~plug /\ RegistryFree
  /\ reg' = TRUE /\ plug' = TRUE /\ processed' = Zero
  /\ mishap' = IF drv /\ conf /\ used # Zero THEN mishap \cup {"staleCursor"} ELSE mishap
  /\ UNCHANGED <<memVars, mask, lastStatus, seen, passVars, rx, counts>> /\ DaemonFrame

\* The device object, and what its backing source had queued, is dropped.
unregister_slot ==
  /\ reg /\ ~plug /\ RegistryFree /\ unplugs < MaxUnplug
  /\ reg' = FALSE /\ plug' = TRUE /\ rx' = 0 /\ unplugs' = unplugs + 1
  /\ UNCHANGED <<memVars, mask, dispVars, pubs, rxs, resets, restarts, bads, mishap>>
  /\ DaemonFrame

publish_active_mask ==
  /\ plug /\ plug' = FALSE /\ mask' = reg
  /\ UNCHANGED <<memVars, reg, dispVars, rx, counts, mishap>> /\ DaemonFrame

\* The daemon dies anywhere; its successor adopts the running engine with an empty
\* registry and a dispatcher that has seen no STATUS yet.
Restart ==
  /\ restarts < MaxRestart /\ restarts' = restarts + 1
  /\ reg' = FALSE /\ plug' = FALSE /\ rx' = 0
  /\ processed' = Zero /\ lastStatus' = 0 /\ seen' = 0
  /\ dpc' = "idle" /\ scan' = 0 /\ hits' = <<>> /\ cur' = Sentinel /\ ptr' = 0 /\ posted' = FALSE
  /\ mishap' = IF cur # Sentinel \/ hits # <<>> THEN mishap \cup {"midPass"} ELSE mishap
  /\ UNCHANGED <<memVars, mask, pubs, rxs, resets, unplugs, bads>> /\ DaemonFrame

-----------------------------------------------------------------------------
(* run_poll_loop of the dispatcher. *)

PassFrame == DaemonFrame /\ UNCHANGED <<mask, regVars, pubs, rxs, resets, restarts, unplugs>>
NoServe == UNCHANGED <<memVars, processed, rx, bads, mishap>>

StartPass ==
  /\ dpc = "idle" /\ reg /\ dpc' = "scan" /\ scan' = 0
  /\ UNCHANGED <<lastStatus, seen, hits, cur, ptr, posted>> /\ NoServe /\ PassFrame

\* Reading and clearing a byte are two accesses to L1; the firmware may set it again
\* in between.
ScanDirty ==
  /\ dpc = "scan"
  /\ IF scan = NQ
       THEN dpc' = (IF hits = <<>> THEN "rx" ELSE "drain") /\ UNCHANGED scan
       ELSE IF dirty[scan] THEN dpc' = "clear" /\ UNCHANGED scan
                           ELSE scan' = scan + 1 /\ UNCHANGED dpc
  /\ UNCHANGED <<lastStatus, seen, hits, cur, ptr, posted>> /\ NoServe /\ PassFrame

\* Mutant: the whole bitmap is cleared for the one byte that was read.
ClearsAll ==
  /\ dpc = "clear" /\ dpc' = "scan" /\ scan' = scan + 1
  /\ dirty' = [q \in Queue |-> FALSE]
  /\ hits' = Append(hits, scan)
  /\ UNCHANGED <<lastStatus, seen, cur, ptr, posted>> /\ NoServe
  /\ UNCHANGED <<guestVars, notify, conf, briscVars, mask, regVars,
                 pubs, rxs, resets, restarts, unplugs>>

ClearDirty ==
  /\ dpc = "clear" /\ dpc' = "scan" /\ scan' = scan + 1
  /\ dirty' = [dirty EXCEPT ![scan] = FALSE]
  /\ hits' = Append(hits, scan)
  /\ UNCHANGED <<lastStatus, seen, cur, ptr, posted>> /\ NoServe
  /\ UNCHANGED <<guestVars, notify, conf, briscVars, mask, regVars,
                 pubs, rxs, resets, restarts, unplugs>>

collect_dirty_pairs == StartPass \/ ScanDirty \/ ClearDirty

\* dispatch_chain reads the ring pointers once, on entry.
Enter(q) == /\ cur' = q /\ posted' = FALSE
            /\ ptr' = IF conf THEN session ELSE 0

\* Mutant: no RX poll, the RX queue waits for a kick like any other.
EnterWithoutRxPoll ==
  /\ cur = Sentinel
  /\ \/ dpc = "drain" /\ Enter(Head(hits)) /\ UNCHANGED dpc
     \/ dpc = "rx" /\ dpc' = "sweep" /\ UNCHANGED <<cur, ptr, posted>>
  /\ UNCHANGED <<lastStatus, seen, scan, hits>> /\ NoServe /\ PassFrame

DispatchEnter ==
  /\ cur = Sentinel
  /\ \/ dpc = "drain" /\ Enter(Head(hits)) /\ UNCHANGED dpc
     \/ dpc = "rx" /\ reg /\ 0 \in RxPolled /\ Enter(0) /\ UNCHANGED dpc
     \/ /\ dpc = "rx" /\ (~reg \/ 0 \notin RxPolled)
        /\ dpc' = "sweep" /\ UNCHANGED <<cur, ptr, posted>>
  /\ UNCHANGED <<lastStatus, seen, scan, hits>> /\ NoServe /\ PassFrame

queue_has_data(q) == q \in RxPolled => rx > 0

\* The rings the dispatcher works on are still the driver's.
RingsLive == drv /\ ptr = session

Pending == avail[cur] # processed[cur] /\ queue_has_data(cur)

\* Mutant: the used element is written at the index after the one announced.
UsedSlotOffByOne ==
  /\ cur # Sentinel /\ ptr # 0 /\ RingsLive /\ Pending
  /\ usedRing' = [usedRing EXCEPT ![cur][Inc(used[cur]) % QueueNum] =
                                     ring[cur][processed[cur] % QueueNum]]
  /\ used' = [used EXCEPT ![cur] = Inc(@)]
  /\ processed' = [processed EXCEPT ![cur] = Inc(@)]
  /\ posted' = TRUE
  /\ rx' = IF cur \in RxPolled THEN rx - 1 ELSE rx
  /\ UNCHANGED <<irq, lastStatus, seen, dpc, scan, hits, cur, ptr, bads, mishap>> /\ PassFrame

process_one_chain_for_queue ==
  /\ cur # Sentinel /\ ptr # 0 /\ RingsLive /\ Pending
  /\ usedRing' = [usedRing EXCEPT ![cur][used[cur] % QueueNum] =
                                     ring[cur][processed[cur] % QueueNum]]
  /\ used' = [used EXCEPT ![cur] = Inc(@)]
  /\ processed' = [processed EXCEPT ![cur] = Inc(@)]
  /\ posted' = TRUE
  /\ rx' = IF cur \in RxPolled THEN rx - 1 ELSE rx
  /\ UNCHANGED <<irq, lastStatus, seen, dpc, scan, hits, cur, ptr, bads, mishap>> /\ PassFrame

\* The driver reset the device meanwhile: what is read and written is memory it has
\* taken back, with whatever it now holds.
ServeStale ==
  /\ cur # Sentinel /\ ptr # 0 /\ ~RingsLive
  /\ processed' = [processed EXCEPT ![cur] = Inc(@)]
  /\ posted' = TRUE /\ mishap' = mishap \cup {"staleMemory"}
  /\ UNCHANGED <<memVars, rx, lastStatus, seen, dpc, scan, hits, cur, ptr, bads>> /\ PassFrame

\* Mutant: no interrupt at the end of a drain.
LeaveSilently ==
  /\ cur' = Sentinel /\ ptr' = 0 /\ posted' = FALSE
  /\ irq' = irq
  /\ \/ /\ dpc = "drain" /\ hits' = Tail(hits)
        /\ dpc' = IF Tail(hits) = <<>> THEN "rx" ELSE "drain"
     \/ dpc = "rx" /\ dpc' = "sweep" /\ UNCHANGED hits
  /\ UNCHANGED <<lastStatus, seen, scan, used, usedRing, rx>> /\ PassFrame

\* dispatch_chain returns: one interrupt for all that was posted.
Leave == /\ cur' = Sentinel /\ ptr' = 0 /\ posted' = FALSE
         /\ irq' = (irq \/ posted)
         /\ \/ /\ dpc = "drain" /\ hits' = Tail(hits)
               /\ dpc' = IF Tail(hits) = <<>> THEN "rx" ELSE "drain"
            \/ dpc = "rx" /\ dpc' = "sweep" /\ UNCHANGED hits
         /\ UNCHANGED <<lastStatus, seen, scan, used, usedRing, rx>> /\ PassFrame

\* Mutant: one chain per dirty byte.
DispatchOneChain ==
  /\ cur # Sentinel /\ (ptr # 0 /\ RingsLive => ~Pending \/ posted)
  /\ Leave /\ UNCHANGED <<processed, bads, mishap>>

DispatchEnd ==
  /\ cur # Sentinel /\ (ptr # 0 /\ RingsLive => ~Pending)
  /\ Leave /\ UNCHANGED <<processed, bads, mishap>>

\* A chain with a descriptor outside guest memory: the cursor passes it, nothing is
\* posted, and the drain ends.
ServeMalformed ==
  /\ cur # Sentinel /\ ptr # 0 /\ RingsLive /\ Pending /\ bads < MaxBad
  /\ processed' = [processed EXCEPT ![cur] = Inc(@)]
  /\ bads' = bads + 1 /\ mishap' = mishap \cup {"malformed"}
  /\ Leave

dispatch_chain == \/ DispatchEnter \/ process_one_chain_for_queue \/ ServeStale
                  \/ DispatchEnd \/ ServeMalformed

StatusSweep ==
  /\ dpc = "sweep"
  /\ IF reg THEN dpc' = "apply" /\ seen' = status ELSE dpc' = "idle" /\ UNCHANGED seen
  /\ UNCHANGED <<lastStatus, scan, hits, cur, ptr, posted>> /\ NoServe /\ PassFrame

\* Mutant: the sweep notes the new STATUS and leaves the cursors alone.
SweepKeepsCursor ==
  /\ dpc = "apply" /\ dpc' = "idle"
  /\ lastStatus' = seen
  /\ UNCHANGED <<processed, seen, scan, hits, cur, ptr, posted, memVars, rx, bads, mishap>>
  /\ PassFrame

StatusApply ==
  /\ dpc = "apply" /\ dpc' = "idle"
  /\ processed' = IF reg /\ seen = 0 /\ lastStatus # 0 THEN Zero ELSE processed
  /\ lastStatus' = seen
  /\ UNCHANGED <<seen, scan, hits, cur, ptr, posted, memVars, rx, bads, mishap>> /\ PassFrame

run_poll_loop == collect_dirty_pairs \/ dispatch_chain \/ StatusSweep \/ StatusApply

-----------------------------------------------------------------------------
Firmware == BriscTop \/ poll_one_device

Next ==
  \/ GuestProbe \/ GuestInterrupt \/ GuestReset \/ RxArrives
  \/ \E q \in Queue : GuestKick(q) \/ \E h \in Desc : GuestPublish(q, h)
  \/ Firmware
  \/ register_slot \/ unregister_slot \/ publish_active_mask \/ Restart
  \/ run_poll_loop

Spec == Init /\ [][Next]_vars

\* The firmware and the dispatcher are loops that never wait for anything; a driver
\* that has published writes QUEUE_NOTIFY, and takes its interrupts.
FairSpec == /\ Spec
            /\ WF_vars(Firmware) /\ WF_vars(run_poll_loop)
            /\ WF_vars(publish_active_mask) /\ WF_vars(GuestInterrupt)
            /\ \A q \in Queue : WF_vars(GuestKick(q))

-----------------------------------------------------------------------------
(* Properties. *)

\* The cursor the next dispatch of the queue will start from.
Cursor(q) == IF WipeDue THEN 0 ELSE processed[q]

Mirrors(q) == \A i \in Unreaped(q) :
                /\ usedRing[q][i % QueueNum] = ring[q][i % QueueNum]
                /\ ring[q][i % QueueNum] \in busy[q]

\* process_one_chain_for_queue wraps both rings by queue_num and both indices at
\* 2^16: every completion the driver has yet to take names the chain published
\* at the same index, one it still waits for, and the cursor is where the used
\* index is.  Holds in any session not begun on another session's cursor.
CompletionsInOrder ==
  drv /\ mishap \subseteq {"overwritten", "midPass"} =>
    \A q \in Queue : Mirrors(q) /\ (reg /\ conf => Cursor(q) = used[q])

\* Somebody is going to look at the queue: the driver still has to write
\* QUEUE_NOTIFY, the register or the firmware holds the queue number, its byte
\* is dirty, or the dispatcher has collected it.
Signalled(q) == \/ kick[q]
                \/ notify = q /\ bpc # "clear"
                \/ bpc = "set" /\ bq = q
                \/ dirty[q]
                \/ \E i \in 1..Len(hits) : hits[i] = q
                \/ cur = q

\* collect_dirty_pairs clears a byte before the ring is read: unless a QUEUE_NOTIFY
\* write was lost in the register itself, a chain that nothing has served is
\* always signalled, whatever the firmware, the dispatcher and a hot-plug do.
PendingIsSignalled ==
  mishap = {} /\ drv /\ reg /\ conf =>
    \A q \in Queue \ RxPolled : avail[q] # Cursor(q) => Signalled(q)

\* The RX poll does not depend on QUEUE_NOTIFY: data and a buffer to put it in meet
\* even if every kick of the RX queue was lost.
RxDelivered ==
  (0 \in RxPolled /\ reg /\ conf /\ rx > 0 /\ avail[0] # processed[0]) ~>
    (rx = 0 \/ avail[0] = processed[0] \/ ~reg \/ ~conf)

\* A chain of a TX or block queue comes back to the driver: one kick, one drain and
\* one interrupt per drain are enough, unless a kick was lost in the register.
ChainsComplete ==
  \A q \in Queue \ RxPolled, h \in Desc :
    (h \in busy[q] /\ reg /\ conf) ~> (h \notin busy[q] \/ mishap # {} \/ ~reg \/ ~conf)

-----------------------------------------------------------------------------
(* What comments in the code say of this path, and the code does not do. *)

\* tensix_data_plane.rs, collect_dirty_pairs: no work gets dropped.  virtio.c,
\* poll_one_device: a second QUEUE_NOTIFY before the sentinel write fires.
NoWorkDropped ==
  drv /\ reg /\ conf =>
    \A q \in Queue \ RxPolled : avail[q] # Cursor(q) => Signalled(q)

\* run_poll_loop: after a reset the new session is served from avail.ring[0].
\* tensix_proto.rs: a new daemon delivers no chain its predecessor committed.
CompletionsValid == drv => \A q \in Queue : Mirrors(q)

\* dispatch_chain: the avail ring is drained fully.
DrainsFully ==
  [][cur # Sentinel /\ cur' = Sentinel /\ dpc # "idle" /\ dpc' # "idle" /\ ptr # 0 /\ RingsLive
       => processed'[cur] = avail[cur] \/ ~queue_has_data(cur)]_vars
=============================================================================
