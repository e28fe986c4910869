----------------------------- MODULE Lifecycle ------------------------------
(***************************************************************************)
(* Boot, stop and chip reset of the L2CPUs of one card: the handler threads *)
(* of daemon/server.rs, the main thread's teardown and restart, the slot    *)
(* table and locks of DaemonState (daemon/mod.rs) and SharedChip            *)
(* (shared_chip.rs), against the part of the chip they touch.               *)
(*                                                                         *)
(* epoch counts the board resets the chip has seen.  A host mmap of the     *)
(* chip, an L2Cpu or the engine's, is represented by the epoch it was made  *)
(* in and is dead (its next access is a SIGBUS) once epoch has moved on.    *)
(* NoMap means "no mapping held"; a slot is the epoch of its L2Cpu.         *)
(***************************************************************************)
EXTENDS Integers, FiniteSets

CONSTANTS NCore,      \* L2CPUs on the card
          Rpc,        \* handler threads that may run at the same time
          Main,       \* the thread running serve()
          NoThread,   \* "no owner" of a lock
          MaxOps,     \* bound: RPCs accepted
          MaxReset,   \* bound: board resets
          MaxSession, \* bound: daemon starts
          WarmStart   \* cores already released when the first daemon starts

Core == 0..(NCore - 1)
Thread == Rpc \cup {Main}
NoMap == 0

ASSUME ThreadAssumption ==
  /\ NCore \in Nat \ {0}
  /\ Main \notin Rpc /\ NoThread \notin Thread
  /\ MaxOps \in Nat /\ MaxReset \in Nat /\ MaxSession \in Nat \ {0}
  /\ WarmStart \subseteq Core

VARIABLES
  slot,      \* DaemonState.l2cpus: NoMap for None
  wedged,    \* DaemonState.wedged
  engine,    \* DaemonState.tensix_engine and dispatcher
  chipReset, \* DaemonState.chip_reset_this_session
  shutdown,  \* DaemonState.shutdown
  leaked,    \* mappings kept by chip_console threads whose slot was dropped unjoined
  bootLock,  \* owner of DaemonState.boot_lock
  seqLock,   \* owner of SharedChip.seq_lock
  poisoned,  \* which of the two a panic has poisoned
  innerUp,   \* SharedChip.inner is Some
  epoch, bits, pll, \* the chip: resets so far, L2CPU_RESET release bits, PLL
  cpu,       \* "held", "exec" or "parked", per core
  purg,      \* the PARKED magic in a core's status block
  pc, core, force, map, scan, sibs, busy, rd, \* the threads: see below
  ops, session, cold   \* RPCs so far, daemon starts, was no core released at start

daemonVars == <<slot, wedged, engine, chipReset, shutdown, leaked>>
lockVars   == <<bootLock, seqLock, poisoned>>
chipVars   == <<innerUp, epoch, bits, pll>>
hartVars   == <<cpu, purg>>
localVars  == <<core, force, map, scan, sibs, busy, rd>>
histVars   == <<ops, session, cold>>
vars == <<daemonVars, lockVars, chipVars, hartVars, pc, localVars, histVars>>

\* core[t], force[t]: the request.  map[t]: the L2Cpu Arc on t's stack.  scan[t]:
\* loop index.  sibs[t]: parked siblings still to stop.  busy[t]: a running
\* sibling was seen.  rd[t]: the value of L2CPU_RESET read by the R-M-W.
BootPC == {"meta", "force", "poll", "existing", "teardown", "lock", "flag", "scan",
           "siblings", "engine", "reset", "new", "bringup", "image", "register",
           "x280", "read", "write", "pllup", "install"}
ReleasePC == {"reimage", "clear", "wake"}
StopPC == {"take", "join", "slots", "bits", "idlepll"}
PC == {"idle", "exit"} \cup BootPC \cup ReleasePC \cup StopPC

Map == 0..(MaxReset + 1)

TypeOK ==
  /\ slot \in [Core -> Map] /\ wedged \in [Core -> BOOLEAN] /\ engine \in Map
  /\ chipReset \in BOOLEAN /\ shutdown \in BOOLEAN /\ leaked \subseteq Map
  /\ bootLock \in Thread \cup {NoThread} /\ seqLock \in Thread \cup {NoThread}
  /\ poisoned \subseteq {"boot", "seq"} /\ innerUp \in BOOLEAN
  /\ epoch \in 1..(MaxReset + 1) /\ bits \subseteq Core /\ pll \in {"low", "high"}
  /\ cpu \in [Core -> {"held", "exec", "parked"}] /\ purg \in [Core -> BOOLEAN]
  /\ pc \in [Thread -> PC] /\ core \in [Thread -> Core] /\ force \in [Thread -> BOOLEAN]
  /\ map \in [Thread -> Map] /\ scan \in [Thread -> 0..NCore]
  /\ sibs \in [Thread -> SUBSET Core] /\ busy \in [Thread -> BOOLEAN]
  /\ rd \in [Thread -> SUBSET Core]
  /\ ops \in 0..MaxOps /\ session \in 1..MaxSession /\ cold \in BOOLEAN

-----------------------------------------------------------------------------
(* Start of a daemon. *)

\* probe_initial_chip_state and warm_resume_released, before any request is
\* accepted: a released core whose probe passes is adopted with a fresh mapping,
\* one whose probe fails is marked wedged.  The engine is adopted if its
\* firmware is still there.
WarmResume(e, b) ==
  /\ \E ok \in SUBSET b :
       /\ slot' = [c \in Core |-> IF c \in ok THEN e ELSE NoMap]
       /\ wedged' = [c \in Core |-> c \in b \ ok]
  /\ \/ b # {} /\ engine' = e
     \/ engine' = NoMap
  /\ cold' = (b = {})

FreshThreads ==
  /\ pc' = [t \in Thread |-> "idle"]
  /\ core' = [t \in Thread |-> 0] /\ force' = [t \in Thread |-> FALSE]
  /\ map' = [t \in Thread |-> NoMap] /\ scan' = [t \in Thread |-> 0]
  /\ sibs' = [t \in Thread |-> {}] /\ busy' = [t \in Thread |-> FALSE]
  /\ rd' = [t \in Thread |-> {}]

Init ==
  /\ \E ok \in SUBSET WarmStart :
       /\ slot = [c \in Core |-> IF c \in ok THEN 1 ELSE NoMap]
       /\ wedged = [c \in Core |-> c \in WarmStart \ ok]
  /\ engine \in IF WarmStart = {} THEN {NoMap} ELSE {NoMap, 1}
  /\ chipReset = FALSE /\ shutdown = FALSE /\ leaked = {}
  /\ bootLock = NoThread /\ seqLock = NoThread /\ poisoned = {} /\ innerUp = TRUE
  /\ epoch = 1 /\ bits = WarmStart
  /\ pll = IF WarmStart = {} THEN "low" ELSE "high"
  /\ cpu \in [Core -> {"held", "exec", "parked"}]
  /\ \A c \in Core : (cpu[c] = "held") <=> (c \notin WarmStart)
  /\ purg = [c \in Core |-> cpu[c] = "parked"]
  /\ pc = [t \in Thread |-> "idle"]
  /\ core = [t \in Thread |-> 0] /\ force = [t \in Thread |-> FALSE]
  /\ map = [t \in Thread |-> NoMap] /\ scan = [t \in Thread |-> 0]
  /\ sibs = [t \in Thread |-> {}] /\ busy = [t \in Thread |-> FALSE]
  /\ rd = [t \in Thread |-> {}]
  /\ ops = 0 /\ session = 1 /\ cold = (WarmStart = {})

\* The daemon dies (SIGKILL, chip-fault exit) or has exited, and a new one starts on
\* the chip as it is.
Restart ==
  /\ session < MaxSession
  /\ session' = session + 1
  /\ WarmResume(epoch, bits)
  /\ FreshThreads
  /\ chipReset' = FALSE /\ shutdown' = FALSE /\ leaked' = {}
  /\ bootLock' = NoThread /\ seqLock' = NoThread /\ poisoned' = {} /\ innerUp' = TRUE
  /\ UNCHANGED <<epoch, bits, pll, hartVars, ops>>

-----------------------------------------------------------------------------
(* Steps of a thread.  Goto moves t on and nothing else of the locals. *)

Goto(t, l) == pc' = [pc EXCEPT ![t] = l]

\* The handler returns (Ok or Err alike) and its stack is gone.
Return(t) ==
  /\ Goto(t, "idle")
  /\ map' = [map EXCEPT ![t] = NoMap]
  /\ core' = [core EXCEPT ![t] = 0] /\ force' = [force EXCEPT ![t] = FALSE]
  /\ scan' = [scan EXCEPT ![t] = 0] /\ sibs' = [sibs EXCEPT ![t] = {}]
  /\ busy' = [busy EXCEPT ![t] = FALSE] /\ rd' = [rd EXCEPT ![t] = {}]

SetMap(t, m) == map' = [map EXCEPT ![t] = m]
OtherLocals == <<core, force, scan, sibs, busy, rd>>

Parked(c) == slot[c] # NoMap /\ purg[c]

\* dispatch_boot up to the first slot access.
dispatch_boot(t, c, f) ==
  /\ t \in Rpc /\ pc[t] = "idle" /\ ~shutdown /\ ops < MaxOps
  /\ ops' = ops + 1
  /\ core' = [core EXCEPT ![t] = c] /\ force' = [force EXCEPT ![t] = f]
  /\ Goto(t, "meta")
  /\ UNCHANGED <<daemonVars, lockVars, chipVars, hartVars, map, scan, sibs, busy, rd,
                 session, cold>>

\* read_parked_release_meta: a parked slot takes the release path with a clone of the
\* slot's Arc, unless its status block lacks the release metadata.  The same call,
\* made again after the force-park poll.
read_parked_release_meta(t) ==
  /\ pc[t] \in {"meta", "poll"}
  /\ \/ /\ Parked(core[t])
        /\ SetMap(t, slot[core[t]]) /\ Goto(t, "reimage")
     \/ /\ pc[t] = "meta"
        /\ SetMap(t, NoMap) /\ Goto(t, IF force[t] THEN "force" ELSE "existing")
     \/ /\ pc[t] = "poll" /\ purg[core[t]]
        /\ SetMap(t, NoMap) /\ Goto(t, "existing")
  /\ UNCHANGED <<daemonVars, lockVars, chipVars, hartVars, OtherLocals, histVars>>

\* trigger_force_park_if_available: fire the IPI if the metadata is published, and
\* poll for PARKED with a clone of the Arc and no lock.
trigger_force_park_if_available(t) ==
  /\ pc[t] = "force"
  /\ \/ slot[core[t]] # NoMap /\ SetMap(t, slot[core[t]]) /\ Goto(t, "poll")
     \/ UNCHANGED map /\ Goto(t, "existing")
  /\ UNCHANGED <<daemonVars, lockVars, chipVars, hartVars, OtherLocals, histVars>>

ForceParkTimeout(t) ==
  /\ pc[t] = "poll" /\ ~purg[core[t]]
  /\ Return(t)
  /\ UNCHANGED <<daemonVars, lockVars, chipVars, hartVars, histVars>>

\* dispatch_release: re-image through the cloned Arc, ...
ReleaseReimage(t) ==
  /\ pc[t] = "reimage"
  /\ \/ Goto(t, "clear") /\ UNCHANGED localVars
     \/ Return(t)                                \* kernel file unreadable
  /\ UNCHANGED <<daemonVars, lockVars, chipVars, hartVars, histVars>>

\* ... clear the PARKED magic, ...
ReleaseClear(t) ==
  /\ pc[t] = "clear"
  /\ \/ purg' = [purg EXCEPT ![core[t]] = FALSE] /\ Goto(t, "wake") /\ UNCHANGED localVars
     \/ Return(t) /\ UNCHANGED purg
  /\ UNCHANGED <<daemonVars, lockVars, chipVars, cpu, histVars>>

\* ... and wake hart 0, unless a write fails or its HSM state is not STOPPED.
ReleaseWake(t) ==
  /\ pc[t] = "wake"
  /\ \/ cpu' = [cpu EXCEPT ![core[t]] = IF @ = "parked" THEN "exec" ELSE @]
     \/ UNCHANGED cpu
  /\ Return(t)
  /\ UNCHANGED <<daemonVars, lockVars, chipVars, purg, histVars>>

dispatch_release(t) == ReleaseReimage(t) \/ ReleaseClear(t) \/ ReleaseWake(t)

\* Reject, proceed, or take the slot out and tear it down outside the lock.
handle_existing_slot(t) ==
  /\ pc[t] = "existing"
  /\ \/ /\ slot[core[t]] = NoMap
        /\ Goto(t, "lock") /\ UNCHANGED <<slot, localVars>>
     \/ /\ slot[core[t]] # NoMap /\ ~force[t]
        /\ Return(t) /\ UNCHANGED slot
     \/ /\ slot[core[t]] # NoMap /\ force[t]
        /\ slot' = [slot EXCEPT ![core[t]] = NoMap]
        /\ SetMap(t, slot[core[t]]) /\ Goto(t, "teardown") /\ UNCHANGED OtherLocals
  /\ UNCHANGED <<wedged, engine, chipReset, shutdown, leaked, lockVars, chipVars, hartVars,
                 histVars>>

TearDownPrior(t) ==
  /\ pc[t] = "teardown"
  /\ SetMap(t, NoMap) /\ Goto(t, "lock")
  /\ UNCHANGED <<daemonVars, lockVars, chipVars, hartVars, OtherLocals, histVars>>

-----------------------------------------------------------------------------
(* maybe_opportunistic_reset_board, all of it under boot_lock. *)

Locked(t) == bootLock = t
UnlockBoot == bootLock' = NoThread

TakeBootLock(t) ==
  /\ pc[t] = "lock" /\ bootLock = NoThread
  /\ \/ "boot" \in poisoned /\ Return(t) /\ UNCHANGED bootLock
     \/ "boot" \notin poisoned /\ bootLock' = t /\ Goto(t, "flag") /\ UNCHANGED localVars
  /\ UNCHANGED <<daemonVars, seqLock, poisoned, chipVars, hartVars, histVars>>

\* Mutant: the session flag is not consulted.
ResetFlagIgnored(t) ==
  /\ pc[t] = "flag" /\ Goto(t, "scan") /\ scan' = [scan EXCEPT ![t] = 0]
  /\ UNCHANGED <<daemonVars, lockVars, chipVars, hartVars, core, force, map, sibs, busy, rd,
                 histVars>>

CheckResetFlag(t) ==
  /\ pc[t] = "flag"
  /\ \/ chipReset /\ UnlockBoot /\ Goto(t, "new") /\ UNCHANGED scan
     \/ ~chipReset /\ Goto(t, "scan") /\ scan' = [scan EXCEPT ![t] = 0] /\ UNCHANGED bootLock
  /\ UNCHANGED <<daemonVars, seqLock, poisoned, chipVars, hartVars, core, force, map, sibs,
                 busy, rd, histVars>>


\* One iteration of the sibling loop: the slot's mutex is held for the two reads of
\* its status block only.
ScanSibling(t) ==
  LET i == scan[t] IN
  /\ pc[t] = "scan" /\ i < NCore
  /\ scan' = [scan EXCEPT ![t] = i + 1]
  /\ busy' = [busy EXCEPT ![t] = @ \/ (i # core[t] /\ slot[i] # NoMap /\ ~purg[i])]
  /\ sibs' = [sibs EXCEPT ![t] = IF i # core[t] /\ Parked(i) THEN @ \cup {i} ELSE @]
  /\ UNCHANGED <<daemonVars, lockVars, chipVars, hartVars, pc, core, force, map, rd, histVars>>


ScanDone(t) ==
  /\ pc[t] = "scan" /\ scan[t] = NCore
  /\ \/ busy[t] /\ UnlockBoot /\ Goto(t, "new")
     \/ ~busy[t] /\ Goto(t, "siblings") /\ UNCHANGED bootLock
  /\ UNCHANGED <<daemonVars, seqLock, poisoned, chipVars, hartVars, localVars, histVars>>

\* internal_stop of every parked sibling (steps "take" to "idlepll"), in index order.
StopSibling(t) ==
  /\ pc[t] = "siblings"
  /\ \/ /\ sibs[t] = {} /\ Goto(t, "engine") /\ UNCHANGED <<sibs, scan>>
     \/ \E i \in sibs[t] :
          /\ \A j \in sibs[t] : i <= j
          /\ sibs' = [sibs EXCEPT ![t] = @ \ {i}] /\ scan' = [scan EXCEPT ![t] = i]
          /\ Goto(t, "take")
  /\ UNCHANGED <<daemonVars, lockVars, chipVars, hartVars, core, force, map, busy, rd, histVars>>

DropEngine(t) ==
  /\ pc[t] = "engine"
  /\ engine' = NoMap /\ Goto(t, "reset")
  /\ UNCHANGED <<slot, wedged, chipReset, shutdown, leaked, lockVars, chipVars, hartVars,
                 localVars, histVars>>

\* The PCIe reset holds every core in reset and ends every mapping.
BoardIsReset ==
  /\ epoch <= MaxReset /\ epoch' = epoch + 1
  /\ bits' = {} /\ pll' = "low"
  /\ cpu' = [c \in Core |-> "held"]
  /\ purg' = [c \in Core |-> FALSE]

\* SharedChip::reset_board: inner is None until the reopen has succeeded, so a failure
\* of the ioctl or of the reopen leaves it None.  inner's write lock is held throughout.
reset_board(t) ==
  /\ pc[t] = "reset" /\ UnlockBoot
  /\ \/ /\ BoardIsReset /\ innerUp' = TRUE /\ chipReset' = TRUE
        /\ Goto(t, "new") /\ UNCHANGED localVars
     \/ /\ BoardIsReset /\ innerUp' = FALSE /\ UNCHANGED chipReset /\ Return(t)
     \/ /\ innerUp' = FALSE /\ UNCHANGED <<epoch, bits, pll, hartVars, chipReset>> /\ Return(t)
  /\ UNCHANGED <<slot, wedged, engine, shutdown, leaked, seqLock, poisoned, histVars>>

maybe_opportunistic_reset_board(t) ==
  \/ TakeBootLock(t) \/ CheckResetFlag(t) \/ ScanSibling(t) \/ ScanDone(t)
  \/ StopSibling(t) \/ DropEngine(t) \/ reset_board(t)

-----------------------------------------------------------------------------
(* run_boot_sequence to install_slot_and_reply_ok. *)

\* L2Cpu::new maps the chip through a dup of SharedChip's fd.
NewL2Cpu(t) ==
  /\ pc[t] = "new"
  /\ \/ innerUp /\ SetMap(t, epoch) /\ Goto(t, "bringup") /\ UNCHANGED OtherLocals
     \/ Return(t)
  /\ UNCHANGED <<daemonVars, lockVars, chipVars, hartVars, histVars>>

\* A boot with at least one device brings the engine up or reuses it.
get_or_bring_up_tensix_engine(t) ==
  /\ pc[t] = "bringup"
  /\ \/ Goto(t, "image") /\ UNCHANGED <<engine, localVars>>
     \/ engine = NoMap /\ innerUp /\ engine' = epoch /\ Goto(t, "image") /\ UNCHANGED localVars
     \/ engine = NoMap /\ Return(t) /\ UNCHANGED engine
  /\ UNCHANGED <<slot, wedged, chipReset, shutdown, leaked, lockVars, chipVars, hartVars, histVars>>

\* The image is written over the core's memory; make_slot_from_l2cpu starts the
\* chip_console thread.
LoadImage(t) ==
  /\ pc[t] = "image"
  /\ \/ Goto(t, "register") /\ UNCHANGED localVars
     \/ Return(t)
  /\ UNCHANGED <<daemonVars, lockVars, chipVars, hartVars, histVars>>

\* A failure from here on drops the L2CpuSlot without shutdown(): nobody sets the exit
\* flag of its chip_console thread, which lives on with its clone of the Arc until it
\* finds its input channel disconnected.
Abandon(t) == leaked' = leaked \cup {map[t]} /\ Return(t)

RegisterDevices(t) ==
  /\ pc[t] = "register"
  /\ \/ /\ Goto(t, "x280") /\ purg' = [purg EXCEPT ![core[t]] = FALSE]
        /\ UNCHANGED <<leaked, localVars>>
     \/ Abandon(t) /\ UNCHANGED purg
  /\ UNCHANGED <<slot, wedged, engine, chipReset, shutdown, lockVars, chipVars, cpu, histVars>>

\* SharedChip::reset_x280 under seq_lock.  The PLL accessors panic when inner is None,
\* which poisons the mutex; every later lock().unwrap() panics in turn.
Panic(t) == poisoned' = poisoned \cup {"seq"} /\ seqLock' = NoThread

\* Mutant: the sequence runs without seq_lock.
StepDownUnlocked(t) ==
  /\ pc[t] = "x280" /\ innerUp
  /\ pll' = "low" /\ Goto(t, "read")
  /\ UNCHANGED <<daemonVars, lockVars, innerUp, epoch, bits, hartVars, localVars, histVars>>

StepDown(t) ==
  /\ pc[t] = "x280" /\ seqLock = NoThread
  /\ \/ /\ "seq" \notin poisoned /\ innerUp
        /\ seqLock' = t /\ pll' = "low" /\ Goto(t, "read")
        /\ UNCHANGED <<poisoned, leaked, localVars>>
     \/ ("seq" \in poisoned \/ ~innerUp) /\ Panic(t) /\ Abandon(t) /\ UNCHANGED pll
  /\ UNCHANGED <<slot, wedged, engine, chipReset, shutdown, bootLock, innerUp, epoch, bits,
                 hartVars, histVars>>

\* apply_release_bits: read ...
ReadResetReg(t) ==
  /\ pc[t] = "read"
  /\ \/ /\ innerUp /\ rd' = [rd EXCEPT ![t] = bits] /\ Goto(t, "write")
        /\ UNCHANGED <<core, force, map, scan, sibs, busy, seqLock, leaked>>
     \/ ~innerUp /\ seqLock' = NoThread /\ Abandon(t)
  /\ UNCHANGED <<slot, wedged, engine, chipReset, shutdown, bootLock, poisoned, chipVars,
                 hartVars, histVars>>

\* Mutant: the mask is written instead of OR-ed in.
WriteMaskOnly(t) ==
  /\ pc[t] = "write" /\ innerUp
  /\ bits' = {core[t]}
  /\ cpu' = [c \in Core |-> IF c \notin bits' THEN "held"
                            ELSE IF cpu[c] = "held" THEN "exec" ELSE cpu[c]]
  /\ Goto(t, "pllup")
  /\ UNCHANGED <<daemonVars, lockVars, innerUp, epoch, pll, purg, localVars, histVars>>

\* ... and write back with the core's bit set: a core whose bit rises starts executing,
\* one whose bit falls is held again.
WriteResetReg(t) ==
  /\ pc[t] = "write"
  /\ \/ /\ innerUp /\ bits' = rd[t] \cup {core[t]}
        /\ cpu' = [c \in Core |-> IF c \notin bits' THEN "held"
                                  ELSE IF cpu[c] = "held" THEN "exec" ELSE cpu[c]]
        /\ Goto(t, "pllup") /\ UNCHANGED <<localVars, seqLock, leaked>>
     \/ ~innerUp /\ seqLock' = NoThread /\ Abandon(t) /\ UNCHANGED <<bits, cpu>>
  /\ UNCHANGED <<slot, wedged, engine, chipReset, shutdown, bootLock, poisoned, innerUp, epoch,
                 pll, purg, histVars>>

\* The last PLL step, and configure_prefetchers, which may fail with the core running.
\* With inner gone the readback of L2CPU_RESET returns an error, the PLL panics.
StepUp(t) ==
  /\ pc[t] = "pllup" /\ seqLock' = NoThread
  /\ \/ /\ innerUp /\ pll' = "high" /\ UNCHANGED poisoned
        /\ \/ Goto(t, "install") /\ UNCHANGED <<leaked, localVars>>
           \/ Abandon(t)
     \/ ~innerUp /\ Panic(t) /\ Abandon(t) /\ UNCHANGED pll
     \/ ~innerUp /\ Abandon(t) /\ UNCHANGED <<poisoned, pll>>
  /\ UNCHANGED <<slot, wedged, engine, chipReset, shutdown, bootLock, innerUp, epoch, bits,
                 hartVars, histVars>>

\* The store drops whatever the slot held, without shutdown().
install_slot_and_reply_ok(t) ==
  /\ pc[t] = "install"
  /\ slot' = [slot EXCEPT ![core[t]] = map[t]]
  /\ leaked' = IF slot[core[t]] = NoMap THEN leaked ELSE leaked \cup {slot[core[t]]}
  /\ wedged' = [wedged EXCEPT ![core[t]] = FALSE]
  /\ Return(t)
  /\ UNCHANGED <<engine, chipReset, shutdown, lockVars, chipVars, hartVars, histVars>>

reset_x280(t) == StepDown(t) \/ ReadResetReg(t) \/ WriteResetReg(t) \/ StepUp(t)

run_boot_sequence(t) ==
  \/ NewL2Cpu(t) \/ get_or_bring_up_tensix_engine(t) \/ LoadImage(t) \/ RegisterDevices(t)
  \/ reset_x280(t) \/ install_slot_and_reply_ok(t)

LeakedThreadEnds(m) ==
  /\ m \in leaked /\ leaked' = leaked \ {m}
  /\ UNCHANGED <<slot, wedged, engine, chipReset, shutdown, lockVars, chipVars, hartVars, pc,
                 localVars, histVars>>

-----------------------------------------------------------------------------
(* Teardown: dispatch_stop, the siblings of a reset, and serve()'s last loop.  The
   core being stopped is scan[t]. *)

dispatch_stop(t, c) ==
  /\ t \in Rpc /\ pc[t] = "idle" /\ ~shutdown /\ ops < MaxOps
  /\ ops' = ops + 1
  /\ scan' = [scan EXCEPT ![t] = c] /\ Goto(t, "take")
  /\ UNCHANGED <<daemonVars, lockVars, chipVars, hartVars, core, force, map, sibs, busy, rd,
                 session, cold>>

dispatch_shutdown ==
  /\ ~shutdown /\ pc[Main] = "idle"
  /\ shutdown' = TRUE /\ Goto(Main, "take")
  /\ UNCHANGED <<slot, wedged, engine, chipReset, leaked, lockVars, chipVars, hartVars,
                 localVars, histVars>>

\* The end of internal_stop, in each of its callers.
StopReturns(t) ==
  IF t = Main THEN Goto(t, "exit") /\ UNCHANGED localVars
  ELSE IF Locked(t) THEN Goto(t, "siblings") /\ SetMap(t, NoMap) /\ UNCHANGED OtherLocals
  ELSE Return(t)

TakeSlot(t) ==
  /\ pc[t] = "take"
  /\ \/ /\ scan[t] < NCore /\ slot[scan[t]] # NoMap
        /\ slot' = [slot EXCEPT ![scan[t]] = NoMap]
        /\ SetMap(t, slot[scan[t]]) /\ Goto(t, "join") /\ UNCHANGED OtherLocals
     \/ /\ scan[t] < NCore /\ slot[scan[t]] = NoMap /\ t # Main
        /\ StopReturns(t) /\ UNCHANGED slot
     \/ /\ scan[t] < NCore /\ slot[scan[t]] = NoMap /\ t = Main
        /\ scan' = [scan EXCEPT ![t] = @ + 1]
        /\ UNCHANGED <<slot, pc, core, force, map, sibs, busy, rd>>
     \/ /\ scan[t] = NCore /\ scan' = [scan EXCEPT ![t] = 0] /\ Goto(t, "slots")
        /\ UNCHANGED <<slot, core, force, map, sibs, busy, rd>>
  /\ UNCHANGED <<wedged, engine, chipReset, shutdown, leaked, lockVars, chipVars, hartVars, histVars>>

\* L2CpuSlot::shutdown joins the slot's threads and drops the last Arc.
JoinWorkers(t) ==
  /\ pc[t] = "join"
  /\ SetMap(t, NoMap)
  /\ IF t = Main THEN scan' = [scan EXCEPT ![t] = @ + 1] /\ Goto(t, "take")
                 ELSE scan' = [scan EXCEPT ![t] = 0] /\ Goto(t, "slots")
  /\ UNCHANGED <<daemonVars, lockVars, chipVars, hartVars, core, force, sibs, busy, rd, histVars>>

\* maybe_idle_pll: the slots one mutex at a time, the release bits one read at a time,
\* then the PLL under seq_lock.
CheckSlots(t) ==
  /\ pc[t] = "slots"
  /\ \/ /\ scan[t] < NCore /\ slot[scan[t]] # NoMap /\ StopReturns(t)
     \/ /\ scan[t] < NCore /\ slot[scan[t]] = NoMap
        /\ scan' = [scan EXCEPT ![t] = @ + 1] /\ UNCHANGED <<pc, core, force, map, sibs, busy, rd>>
     \/ /\ scan[t] = NCore /\ scan' = [scan EXCEPT ![t] = 0] /\ Goto(t, "bits")
        /\ UNCHANGED <<core, force, map, sibs, busy, rd>>
  /\ UNCHANGED <<daemonVars, lockVars, chipVars, hartVars, histVars>>

\* Mutant: the loop over the release bits runs one index too far.
CheckBitsOffByOne(t) ==
  /\ pc[t] = "bits"
  /\ \/ scan[t] <= NCore /\ (~innerUp \/ scan[t] \in bits) /\ StopReturns(t)
     \/ /\ scan[t] <= NCore /\ innerUp /\ scan[t] \notin bits
        /\ scan' = [scan EXCEPT ![t] = @ + 1] /\ UNCHANGED <<pc, core, force, map, sibs, busy, rd>>
  /\ UNCHANGED <<daemonVars, lockVars, chipVars, hartVars, histVars>>

CheckBits(t) ==
  /\ pc[t] = "bits"
  /\ \/ scan[t] < NCore /\ (~innerUp \/ scan[t] \in bits) /\ StopReturns(t)
     \/ /\ scan[t] < NCore /\ innerUp /\ scan[t] \notin bits
        /\ scan' = [scan EXCEPT ![t] = @ + 1] /\ UNCHANGED <<pc, core, force, map, sibs, busy, rd>>
     \/ scan[t] = NCore /\ Goto(t, "idlepll") /\ UNCHANGED localVars
  /\ UNCHANGED <<daemonVars, lockVars, chipVars, hartVars, histVars>>

idle_pll(t) ==
  /\ pc[t] = "idlepll" /\ seqLock = NoThread
  /\ \/ /\ "seq" \notin poisoned /\ innerUp /\ pll' = "low"
        /\ StopReturns(t) /\ UNCHANGED <<lockVars>>
     \/ /\ "seq" \in poisoned \/ ~innerUp
        /\ poisoned' = poisoned \cup {"seq"} \cup IF Locked(t) THEN {"boot"} ELSE {}
        /\ bootLock' = IF Locked(t) THEN NoThread ELSE bootLock
        /\ IF t = Main THEN Goto(t, "exit") /\ UNCHANGED localVars ELSE Return(t)
        /\ UNCHANGED <<pll, seqLock>>
  /\ UNCHANGED <<daemonVars, innerUp, epoch, bits, hartVars, histVars>>

maybe_idle_pll(t) == CheckSlots(t) \/ CheckBits(t) \/ idle_pll(t)

internal_stop(t) == TakeSlot(t) \/ JoinWorkers(t) \/ maybe_idle_pll(t)

-----------------------------------------------------------------------------
(* The guests. *)

\* An SBI SRST, or the force-park IPI of a thread in "poll".
GuestParks(c) ==
  /\ cpu[c] = "exec"
  /\ cpu' = [cpu EXCEPT ![c] = "parked"] /\ purg' = [purg EXCEPT ![c] = TRUE]
  /\ UNCHANGED <<daemonVars, lockVars, chipVars, pc, localVars, histVars>>

\* The slot's chip_console thread answers a reboot.
auto_release_for_reboot(c) ==
  /\ Parked(c) /\ cpu[c] = "parked"
  /\ cpu' = [cpu EXCEPT ![c] = "exec"] /\ purg' = [purg EXCEPT ![c] = FALSE]
  /\ UNCHANGED <<daemonVars, lockVars, chipVars, pc, localVars, histVars>>

Step(t) ==
  \/ read_parked_release_meta(t) \/ trigger_force_park_if_available(t) \/ ForceParkTimeout(t)
  \/ dispatch_release(t) \/ handle_existing_slot(t) \/ TearDownPrior(t)
  \/ maybe_opportunistic_reset_board(t) \/ run_boot_sequence(t) \/ internal_stop(t)

Next ==
  \/ \E t \in Rpc, c \in Core : (\E f \in BOOLEAN : dispatch_boot(t, c, f)) \/ dispatch_stop(t, c)
  \/ \E t \in Thread : Step(t)
  \/ \E m \in Map : LeakedThreadEnds(m)
  \/ \E c \in Core : GuestParks(c) \/ auto_release_for_reboot(c)
  \/ dispatch_shutdown \/ Restart

Spec == Init /\ [][Next]_vars

\* Every handler thread is scheduled.
FairSpec == Spec /\ \A t \in Rpc : WF_vars(Step(t))

-----------------------------------------------------------------------------
(* Properties. *)

\* Every host mapping of the chip that a slot, a handler or the engine holds was made
\* after the last board reset; and so was every one that a leaked worker holds.
HeldMappingsLive ==
  /\ \A c \in Core : slot[c] \in {NoMap, epoch}
  /\ \A t \in Thread : map[t] \in {NoMap, epoch}
  /\ engine \in {NoMap, epoch}
LiveMapping == HeldMappingsLive /\ leaked \subseteq {NoMap, epoch}

\* boot_lock and chip_reset_this_session (server.rs maybe_opportunistic_reset_board):
\* in a session that started on a chip with every core in reset, no reset_board ever
\* ends a mapping that is still held, however boots, stops and releases interleave.
ColdMappingSafety == cold => LiveMapping


\* docs/l2cpu-lifecycle.md: "Phase 6's precondition (no Running siblings) is what keeps
\* this safe", in any session.
MappingSafety == LiveMapping

\* The seq_lock read-modify-write of L2CPU_RESET (shared_chip.rs apply_release_bits): a
\* released core is put back into reset by the session's one board reset and by nothing
\* else; in particular no concurrent boot's write drops a sibling's bit.
ReleaseIsFinal == [][bits \subseteq bits' \/ (~chipReset /\ bits' = {} /\ epoch' = epoch + 1)]_vars

\* A slot in the table always stands for a core that is out of reset, so that status,
\* attach and release do not talk to a held core (cold session).
BootedIsReleased == cold => \A c \in Core : slot[c] # NoMap => c \in bits

\* shared_chip.rs PllAccess: "concurrent reset_board mid-reset_x280, which #102's
\* invariants rule out": a thread on its way through reset_x280 never meets a missing
\* inner, whose accessors would panic and poison seq_lock.
ChipOpenInResetX280 ==
  \A t \in Rpc : pc[t] \in {"x280", "read", "write", "pllup"} => innerUp

\* The same in a session that started on a chip with every core in reset.
ColdChipOpenInResetX280 == cold => ChipOpenInResetX280


\* daemon/mod.rs maybe_idle_pll: "Stepping the PLL while a core is mid-execution
\* corrupts its OpenSBI state": it is only stepped down while no core is released.
IdleOnlyWhenHeld == [][\A t \in Thread : idle_pll(t) /\ pll' # pll => bits = {}]_vars

\* docs/l2cpu-lifecycle.md's Stopped row: the core of an empty slot that is not wedged
\* and that no request is working on is "held in reset (`L2CPU_RESET` bit `idx+4` = 0)".
StoppedIsHeld ==
  \A c \in Core : slot[c] = NoMap /\ ~wedged[c] /\ (\A t \in Thread : pc[t] = "idle")
                  => c \notin bits

\* server.rs dispatch_boot: "the same-core case is still serialized by the per-slot
\* `Mutex<Option<L2CpuSlot>>` taken in `handle_existing_slot`".
SameCoreSerialized ==
  \A t, u \in Rpc : t # u /\ pc[t] \in {"image", "register", "x280", "install"}
                         /\ pc[u] \in {"image", "register", "x280", "install"}
                    => core[t] # core[u]
=============================================================================
