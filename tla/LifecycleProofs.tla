-------------------------- MODULE LifecycleProofs ---------------------------
(***************************************************************************)
(* ColdMappingSafety for every number of cores, of handler threads, of      *)
(* requests, resets and daemon starts.  The argument: boot_lock makes the   *)
(* decide-and-reset section exclusive (LockInv); until the flag is set, a   *)
(* session that started cold holds no mapping at all (FreshInv), so the     *)
(* reset that sets it ends none; afterwards nobody passes the flag check.   *)
(***************************************************************************)
EXTENDS Lifecycle, TLAPS

Critical == {"flag", "scan", "siblings", "engine", "reset"}
MainPC == {"idle", "exit"} \cup StopPC

\* Where boot_lock is held, and that its holder past the flag check has seen it clear.
LockInv ==
  /\ bootLock # Main /\ pc[Main] \in MainPC
  /\ \A t \in Thread : pc[t] \in Critical => bootLock = t
  /\ \A t \in Thread : bootLock = t => pc[t] \in Critical \cup StopPC
  /\ \A t \in Thread : bootLock = t /\ pc[t] # "flag" => ~chipReset

\* The steps a thread can be at before the session's first reset.
Early == {"idle", "exit", "meta", "force", "existing", "lock", "take", "slots", "bits",
          "idlepll"} \cup Critical

FreshInv ==
  cold /\ ~chipReset =>
    /\ \A c \in Core : slot[c] = NoMap
    /\ \A t \in Thread : map[t] = NoMap /\ pc[t] \in Early /\ ~busy[t] /\ sibs[t] = {}
    /\ engine = NoMap /\ leaked = {}

\* The core a teardown has taken is one of the cores.
JoinInv == \A t \in Thread : pc[t] = "join" => scan[t] < NCore

IInv == TypeOK /\ JoinInv /\ LockInv /\ FreshInv /\ ColdMappingSafety

-----------------------------------------------------------------------------
(* Type correctness. *)

USE ThreadAssumption DEF NoMap

LEMMA ZeroIsCore == 0 \in Core /\ NCore \in Nat
BY DEF Core

\* Parts of TypeOK about the threads' own state.
LocalType ==
  /\ pc \in [Thread -> PC] /\ core \in [Thread -> Core] /\ force \in [Thread -> BOOLEAN]
  /\ map \in [Thread -> Map] /\ scan \in [Thread -> 0..NCore]
  /\ sibs \in [Thread -> SUBSET Core] /\ busy \in [Thread -> BOOLEAN]
  /\ rd \in [Thread -> SUBSET Core]

\* And the rest of it.
SharedType ==
  /\ slot \in [Core -> Map] /\ wedged \in [Core -> BOOLEAN] /\ engine \in Map
  /\ chipReset \in BOOLEAN /\ shutdown \in BOOLEAN /\ leaked \subseteq Map
  /\ bootLock \in Thread \cup {NoThread} /\ seqLock \in Thread \cup {NoThread}
  /\ poisoned \subseteq {"boot", "seq"} /\ innerUp \in BOOLEAN
  /\ epoch \in 1..(MaxReset + 1) /\ bits \subseteq Core /\ pll \in {"low", "high"}
  /\ cpu \in [Core -> {"held", "exec", "parked"}] /\ purg \in [Core -> BOOLEAN]
  /\ ops \in 0..MaxOps /\ session \in 1..MaxSession /\ cold \in BOOLEAN

LEMMA TypeSplits == TypeOK <=> LocalType /\ SharedType
BY DEF TypeOK, LocalType, SharedType

LEMMA PCMembers == \A l \in BootPC \cup ReleasePC \cup StopPC : l \in PC
BY DEF PC

\* A handler's return resets its own locals only.
LEMMA ReturnType ==
  ASSUME LocalType, NEW t \in Thread, Return(t)
  PROVE  LocalType'
<1>1. "idle" \in PC /\ NoMap \in Map /\ 0 \in Core /\ 0 \in 0..NCore
  BY ZeroIsCore DEF PC, Map
<1>2. pc' \in [Thread -> PC] /\ core' \in [Thread -> Core] /\ map' \in [Thread -> Map]
      /\ scan' \in [Thread -> 0..NCore]
  BY <1>1 DEF LocalType, Return, Goto
<1>3. force' \in [Thread -> BOOLEAN] /\ busy' \in [Thread -> BOOLEAN]
  BY Zenon DEF LocalType, Return
<1>4. sibs' \in [Thread -> SUBSET Core] /\ rd' \in [Thread -> SUBSET Core]
  BY DEF LocalType, Return
<1> QED
  BY <1>2, <1>3, <1>4 DEF LocalType


\* Every step of every thread keeps TypeOK.
LEMMA StepType ==
  ASSUME TypeOK, JoinInv, NEW t \in Thread, Step(t)
  PROVE  TypeOK'
<1> USE DEF daemonVars, lockVars, chipVars, hartVars, localVars, histVars, OtherLocals
<1>0. LocalType /\ SharedType
  BY TypeSplits
<1>a. ASSUME Return(t) PROVE LocalType'
  BY <1>0, <1>a, ReturnType
<1>b. \A l \in PC : Goto(t, l) => pc' \in [Thread -> PC]
  BY <1>0 DEF Goto, LocalType
<1>c. SUFFICES LocalType' /\ SharedType'
  BY DEF TypeOK, LocalType, SharedType
<1>d. ASSUME StopReturns(t) PROVE LocalType'
  <2>1. "exit" \in PC /\ "siblings" \in PC
    BY DEF PC, BootPC
  <2>2. CASE t = Main
    BY <1>d, <1>0, <1>b, <2>1, <2>2 DEF StopReturns, LocalType
  <2>3. CASE t # Main /\ Locked(t)
    BY <1>d, <1>0, <1>b, <2>1, <2>3 DEF StopReturns, LocalType, SetMap, Map
  <2>4. CASE t # Main /\ ~Locked(t)
    BY <1>d, <1>a, <2>4 DEF StopReturns
  <2> QED
    BY <2>2, <2>3, <2>4
<1>e. ASSUME Abandon(t) PROVE leaked' \subseteq Map /\ LocalType'
  BY <1>0, <1>a, <1>e DEF Abandon, LocalType, SharedType
<1>f. NoMap \in Map /\ epoch \in Map
  BY <1>0 DEF SharedType, Map
<1>1. CASE read_parked_release_meta(t)
  <2>1. LocalType'
    BY <1>1, <1>0, <1>a, <1>b, ZeroIsCore, PCMembers
       DEF read_parked_release_meta, LocalType, SharedType, SetMap, Map, BootPC, ReleasePC, StopPC
  <2>2. SharedType'
    BY <1>1, <1>0 DEF read_parked_release_meta, LocalType, SharedType, Map, UnlockBoot
  <2> QED
    BY <2>1, <2>2
<1>2. CASE trigger_force_park_if_available(t)
  <2>1. LocalType'
    BY <1>2, <1>0, <1>a, <1>b, ZeroIsCore, PCMembers
       DEF trigger_force_park_if_available, LocalType, SharedType, SetMap, Map, BootPC, ReleasePC, StopPC
  <2>2. SharedType'
    BY <1>2, <1>0 DEF trigger_force_park_if_available, LocalType, SharedType, Map, UnlockBoot
  <2> QED
    BY <2>1, <2>2
<1>3. CASE ForceParkTimeout(t)
  <2>1. LocalType'
    BY <1>3, <1>0, <1>a, <1>b, ZeroIsCore, PCMembers
       DEF ForceParkTimeout, LocalType, SharedType, SetMap, Map, BootPC, ReleasePC, StopPC
  <2>2. SharedType'
    BY <1>3, <1>0 DEF ForceParkTimeout, LocalType, SharedType, Map, UnlockBoot
  <2> QED
    BY <2>1, <2>2
<1>4. CASE ReleaseReimage(t)
  <2>1. LocalType'
    BY <1>4, <1>0, <1>a, <1>b, ZeroIsCore, PCMembers
       DEF ReleaseReimage, LocalType, SharedType, SetMap, Map, BootPC, ReleasePC, StopPC
  <2>2. SharedType'
    BY <1>4, <1>0 DEF ReleaseReimage, LocalType, SharedType, Map, UnlockBoot
  <2> QED
    BY <2>1, <2>2
<1>5. CASE ReleaseClear(t)
  <2>1. LocalType'
    BY <1>5, <1>0, <1>a, <1>b, ZeroIsCore, PCMembers
       DEF ReleaseClear, LocalType, SharedType, SetMap, Map, BootPC, ReleasePC, StopPC
  <2>2. SharedType'
    BY <1>5, <1>0 DEF ReleaseClear, LocalType, SharedType, Map, UnlockBoot
  <2> QED
    BY <2>1, <2>2
<1>6. CASE ReleaseWake(t)
  <2>1. LocalType'
    BY <1>6, <1>0, <1>a, <1>b, ZeroIsCore, PCMembers
       DEF ReleaseWake, LocalType, SharedType, SetMap, Map, BootPC, ReleasePC, StopPC
  <2>2. SharedType'
    BY <1>6, <1>0 DEF ReleaseWake, LocalType, SharedType, Map, UnlockBoot
  <2> QED
    BY <2>1, <2>2
<1>7. CASE handle_existing_slot(t)
  <2>1. LocalType'
    BY <1>7, <1>0, <1>a, <1>b, ZeroIsCore, PCMembers
       DEF handle_existing_slot, LocalType, SharedType, SetMap, Map, BootPC, ReleasePC, StopPC
  <2>2. SharedType'
    BY <1>7, <1>0 DEF handle_existing_slot, LocalType, SharedType, Map, UnlockBoot
  <2> QED
    BY <2>1, <2>2
<1>8. CASE TearDownPrior(t)
  <2>1. LocalType'
    BY <1>8, <1>0, <1>a, <1>b, ZeroIsCore, PCMembers
       DEF TearDownPrior, LocalType, SharedType, SetMap, Map, BootPC, ReleasePC, StopPC
  <2>2. SharedType'
    BY <1>8, <1>0 DEF TearDownPrior, LocalType, SharedType, Map, UnlockBoot
  <2> QED
    BY <2>1, <2>2
<1>9. CASE TakeBootLock(t)
  <2>1. LocalType'
    BY <1>9, <1>0, <1>a, <1>b, ZeroIsCore, PCMembers
       DEF TakeBootLock, LocalType, SharedType, SetMap, Map, BootPC, ReleasePC, StopPC
  <2>2. SharedType'
    BY <1>9, <1>0 DEF TakeBootLock, LocalType, SharedType, Map, UnlockBoot
  <2> QED
    BY <2>1, <2>2
<1>10. CASE CheckResetFlag(t)
  <2>1. LocalType'
    BY <1>10, <1>0, <1>a, <1>b, ZeroIsCore, PCMembers
       DEF CheckResetFlag, LocalType, SharedType, SetMap, Map, BootPC, ReleasePC, StopPC
  <2>2. SharedType'
    BY <1>10, <1>0 DEF CheckResetFlag, LocalType, SharedType, Map, UnlockBoot
  <2> QED
    BY <2>1, <2>2
<1>11. CASE ScanSibling(t)
  <2>1. LocalType'
    <3>1. scan[t] \in Core /\ scan[t] + 1 \in 0..NCore
      BY <1>11, <1>0 DEF ScanSibling, LocalType, Core
    <3>2. scan' \in [Thread -> 0..NCore] /\ sibs' \in [Thread -> SUBSET Core]
      BY <1>11, <1>0, <3>1 DEF ScanSibling, LocalType
    <3>3. busy' \in [Thread -> BOOLEAN]
      BY <1>11, <1>0, Zenon DEF ScanSibling, LocalType
    <3> QED
      BY <1>11, <1>0, <3>2, <3>3 DEF ScanSibling, LocalType
  <2>2. SharedType'
    BY <1>11, <1>0 DEF ScanSibling, LocalType, SharedType, Map, UnlockBoot
  <2> QED
    BY <2>1, <2>2
<1>12. CASE ScanDone(t)
  <2>1. LocalType'
    BY <1>12, <1>0, <1>a, <1>b, ZeroIsCore, PCMembers
       DEF ScanDone, LocalType, SharedType, SetMap, Map, BootPC, ReleasePC, StopPC
  <2>2. SharedType'
    BY <1>12, <1>0 DEF ScanDone, LocalType, SharedType, Map, UnlockBoot
  <2> QED
    BY <2>1, <2>2
<1>13. CASE StopSibling(t)
  <2>1. LocalType'
    <3>1. CASE sibs[t] = {} /\ Goto(t, "engine") /\ UNCHANGED <<sibs, scan>>
      BY <1>13, <1>0, <1>b, <3>1, PCMembers DEF StopSibling, LocalType, BootPC
    <3>2. ASSUME NEW i \in sibs[t],
                 sibs' = [sibs EXCEPT ![t] = @ \ {i}], scan' = [scan EXCEPT ![t] = i],
                 Goto(t, "take")
          PROVE  LocalType'
      <4>1. i \in 0..NCore
        BY <1>0, <3>2 DEF LocalType, Core
      <4> QED
        BY <1>13, <1>0, <1>b, <3>2, <4>1, PCMembers DEF StopSibling, LocalType, StopPC
    <3> QED
      BY <1>13, <3>1, <3>2 DEF StopSibling
  <2>2. SharedType'
    BY <1>13, <1>0 DEF StopSibling, LocalType, SharedType, Map, UnlockBoot
  <2> QED
    BY <2>1, <2>2
<1>14. CASE DropEngine(t)
  <2>1. LocalType'
    BY <1>14, <1>0, <1>a, <1>b, ZeroIsCore, PCMembers
       DEF DropEngine, LocalType, SharedType, SetMap, Map, BootPC, ReleasePC, StopPC
  <2>2. SharedType'
    BY <1>14, <1>0 DEF DropEngine, LocalType, SharedType, Map, UnlockBoot
  <2> QED
    BY <2>1, <2>2
<1>15. CASE reset_board(t)
  <2>1. LocalType'
    BY <1>15, <1>0, <1>a, <1>b, ZeroIsCore, PCMembers
       DEF reset_board, BoardIsReset, LocalType, SharedType, SetMap, Map, BootPC, ReleasePC, StopPC
  <2>2. SharedType'
    <3>1. epoch' \in 1..(MaxReset + 1) /\ bits' \subseteq Core /\ pll' \in {"low", "high"}
      BY <1>15, <1>0 DEF reset_board, BoardIsReset, SharedType
    <3>2. cpu' \in [Core -> {"held", "exec", "parked"}] /\ purg' \in [Core -> BOOLEAN]
      BY <1>15, <1>0, Zenon DEF reset_board, BoardIsReset, SharedType
    <3>3. innerUp' \in BOOLEAN /\ chipReset' \in BOOLEAN
      BY <1>15, <1>0 DEF reset_board, SharedType
    <3> QED
      BY <1>15, <1>0, <3>1, <3>2, <3>3 DEF reset_board, SharedType, UnlockBoot
  <2> QED
    BY <2>1, <2>2
<1>16. CASE NewL2Cpu(t)
  <2>1. LocalType'
    BY <1>16, <1>0, <1>a, <1>b, ZeroIsCore, PCMembers
       DEF NewL2Cpu, LocalType, SharedType, SetMap, Map, BootPC, ReleasePC, StopPC
  <2>2. SharedType'
    BY <1>16, <1>0 DEF NewL2Cpu, LocalType, SharedType, Map, UnlockBoot
  <2> QED
    BY <2>1, <2>2
<1>17. CASE get_or_bring_up_tensix_engine(t)
  <2>1. LocalType'
    BY <1>17, <1>0, <1>a, <1>b, ZeroIsCore, PCMembers
       DEF get_or_bring_up_tensix_engine, LocalType, SharedType, SetMap, Map, BootPC, ReleasePC, StopPC
  <2>2. SharedType'
    BY <1>17, <1>0 DEF get_or_bring_up_tensix_engine, LocalType, SharedType, Map, UnlockBoot
  <2> QED
    BY <2>1, <2>2
<1>18. CASE LoadImage(t)
  <2>1. LocalType'
    BY <1>18, <1>0, <1>a, <1>b, ZeroIsCore, PCMembers
       DEF LoadImage, LocalType, SharedType, SetMap, Map, BootPC, ReleasePC, StopPC
  <2>2. SharedType'
    BY <1>18, <1>0 DEF LoadImage, LocalType, SharedType, Map, UnlockBoot
  <2> QED
    BY <2>1, <2>2
<1>19. CASE RegisterDevices(t)
  <2>1. LocalType'
    BY <1>19, <1>0, <1>a, <1>b, ZeroIsCore, PCMembers
       DEF RegisterDevices, Abandon, LocalType, SharedType, SetMap, Map, BootPC, ReleasePC, StopPC
  <2>2. SharedType'
    <3>1. leaked' \subseteq Map
      BY <1>19, <1>0, <1>e DEF RegisterDevices, SharedType
    <3>2. purg' \in [Core -> BOOLEAN]
      BY <1>19, <1>0, Zenon DEF RegisterDevices, SharedType
    <3> QED
      BY <1>19, <1>0, <3>1, <3>2 DEF RegisterDevices, SharedType
  <2> QED
    BY <2>1, <2>2
<1>20. CASE StepDown(t)
  <2>1. LocalType'
    BY <1>20, <1>0, <1>a, <1>b, ZeroIsCore, PCMembers
       DEF StepDown, Abandon, Panic, LocalType, SharedType, SetMap, Map, BootPC, ReleasePC, StopPC
  <2>2. SharedType'
    <3>1. leaked' \subseteq Map
      BY <1>20, <1>0, <1>e DEF StepDown, SharedType
    <3>2. poisoned' \subseteq {"boot", "seq"} /\ seqLock' \in Thread \cup {NoThread}
          /\ pll' \in {"low", "high"}
      BY <1>20, <1>0 DEF StepDown, Panic, SharedType
    <3> QED
      BY <1>20, <1>0, <3>1, <3>2 DEF StepDown, SharedType
  <2> QED
    BY <2>1, <2>2
<1>21. CASE ReadResetReg(t)
  <2>1. LocalType'
    BY <1>21, <1>0, <1>a, <1>b, ZeroIsCore, PCMembers
       DEF ReadResetReg, Abandon, LocalType, SharedType, SetMap, Map, BootPC, ReleasePC, StopPC
  <2>2. SharedType'
    <3>1. leaked' \subseteq Map
      BY <1>21, <1>0, <1>e DEF ReadResetReg, SharedType
    <3> QED
      BY <1>21, <1>0, <3>1 DEF ReadResetReg, SharedType
  <2> QED
    BY <2>1, <2>2
<1>22. CASE WriteResetReg(t)
  <2>1. LocalType'
    BY <1>22, <1>0, <1>a, <1>b, ZeroIsCore, PCMembers
       DEF WriteResetReg, Abandon, LocalType, SharedType, SetMap, Map, BootPC, ReleasePC, StopPC
  <2>2. SharedType'
    <3>1. leaked' \subseteq Map
      BY <1>22, <1>0, <1>e DEF WriteResetReg, SharedType
    <3>2. bits' \subseteq Core
      BY <1>22, <1>0 DEF WriteResetReg, SharedType, LocalType
    <3>3. cpu' \in [Core -> {"held", "exec", "parked"}]
      BY <1>22, <1>0 DEF WriteResetReg, SharedType
    <3> QED
      BY <1>22, <1>0, <3>1, <3>2, <3>3 DEF WriteResetReg, SharedType
  <2> QED
    BY <2>1, <2>2
<1>23. CASE StepUp(t)
  <2>1. LocalType'
    BY <1>23, <1>0, <1>a, <1>b, ZeroIsCore, PCMembers
       DEF StepUp, Abandon, Panic, LocalType, SharedType, SetMap, Map, BootPC, ReleasePC, StopPC
  <2>2. SharedType'
    <3>1. leaked' \subseteq Map
      BY <1>23, <1>0, <1>e DEF StepUp, SharedType
    <3>2. poisoned' \subseteq {"boot", "seq"} /\ seqLock' \in Thread \cup {NoThread}
          /\ pll' \in {"low", "high"}
      BY <1>23, <1>0 DEF StepUp, Panic, SharedType
    <3> QED
      BY <1>23, <1>0, <3>1, <3>2 DEF StepUp, SharedType
  <2> QED
    BY <2>1, <2>2
<1>24. CASE install_slot_and_reply_ok(t)
  <2>1. LocalType'
    BY <1>24, <1>0, <1>a, <1>b, ZeroIsCore, PCMembers
       DEF install_slot_and_reply_ok, LocalType, SharedType, SetMap, Map, BootPC, ReleasePC, StopPC
  <2>2. SharedType'
    <3>1. slot' \in [Core -> Map] /\ leaked' \subseteq Map
      BY <1>24, <1>0 DEF install_slot_and_reply_ok, SharedType, LocalType
    <3>2. wedged' \in [Core -> BOOLEAN]
      BY <1>24, <1>0, Zenon DEF install_slot_and_reply_ok, SharedType
    <3> QED
      BY <1>24, <1>0, <3>1, <3>2 DEF install_slot_and_reply_ok, SharedType
  <2> QED
    BY <2>1, <2>2
<1>25. CASE TakeSlot(t)
  <2>1. LocalType'
    <3>1. scan[t] \in 0..NCore /\ (scan[t] < NCore => scan[t] + 1 \in 0..NCore /\ scan[t] \in Core)
      BY <1>0 DEF LocalType, Core
    <3>2. 0 \in 0..NCore /\ "join" \in PC /\ "slots" \in PC
      BY ZeroIsCore DEF PC, StopPC
    <3> QED
      <4>1. CASE StopReturns(t)
        BY <1>d, <4>1
      <4>2. CASE scan[t] < NCore /\ slot[scan[t]] # NoMap /\ ~StopReturns(t)
        BY <1>25, <1>0, <1>b, <3>1, <3>2, <4>2 DEF TakeSlot, LocalType, SharedType, SetMap
      <4>3. CASE ~(scan[t] < NCore /\ slot[scan[t]] # NoMap) /\ ~StopReturns(t)
        BY <1>25, <1>0, <1>b, <3>1, <3>2, <4>3 DEF TakeSlot, LocalType
      <4> QED
        BY <4>1, <4>2, <4>3
  <2>2. SharedType'
    <3>1. slot' \in [Core -> Map]
      BY <1>25, <1>0, <1>f DEF TakeSlot, SharedType
    <3>2. UNCHANGED <<wedged, engine, chipReset, shutdown, leaked, lockVars, chipVars, hartVars, histVars>>
      BY <1>25 DEF TakeSlot
    <3> QED
      BY <1>0, <3>1, <3>2 DEF SharedType
  <2> QED
    BY <2>1, <2>2
<1>26. CASE JoinWorkers(t)
  <2>1. LocalType'
    <3>1. "take" \in PC /\ "slots" \in PC /\ 0 \in 0..NCore
      BY ZeroIsCore DEF PC, StopPC
    <3>2. scan[t] + 1 \in 0..NCore
      BY <1>26, <1>0 DEF JoinWorkers, JoinInv, LocalType
    <3> QED
      BY <1>26, <1>0, <1>b, <1>f, <3>1, <3>2 DEF JoinWorkers, LocalType, SetMap
  <2>2. SharedType'
    BY <1>26, <1>0 DEF JoinWorkers, LocalType, SharedType, Map, UnlockBoot
  <2> QED
    BY <2>1, <2>2
<1>27. CASE CheckSlots(t)
  <2>1. LocalType'
    <3>1. scan[t] \in 0..NCore /\ (scan[t] < NCore => scan[t] + 1 \in 0..NCore)
      BY <1>0 DEF LocalType
    <3>2. 0 \in 0..NCore /\ "bits" \in PC
      BY ZeroIsCore DEF PC, StopPC
    <3> QED
      BY <1>27, <1>0, <1>b, <1>d, <3>1, <3>2 DEF CheckSlots, LocalType
  <2>2. SharedType'
    BY <1>27, <1>0 DEF CheckSlots, StopReturns, LocalType, SharedType, Map, UnlockBoot
  <2> QED
    BY <2>1, <2>2
<1>28. CASE CheckBits(t)
  <2>1. LocalType'
    <3>1. scan[t] \in 0..NCore /\ (scan[t] < NCore => scan[t] + 1 \in 0..NCore)
      BY <1>0 DEF LocalType
    <3>2. 0 \in 0..NCore /\ "idlepll" \in PC
      BY ZeroIsCore DEF PC, StopPC
    <3> QED
      BY <1>28, <1>0, <1>b, <1>d, <3>1, <3>2 DEF CheckBits, LocalType
  <2>2. SharedType'
    BY <1>28, <1>0 DEF CheckBits, StopReturns, LocalType, SharedType, Map, UnlockBoot
  <2> QED
    BY <2>1, <2>2
<1>29. CASE idle_pll(t)
  <2>1. LocalType'
    <3>1. "exit" \in PC
      BY DEF PC
    <3> QED
      BY <1>29, <1>0, <1>a, <1>b, <1>d, <3>1 DEF idle_pll, LocalType
  <2>2. SharedType'
    BY <1>29, <1>0 DEF idle_pll, StopReturns, LocalType, SharedType, Map, UnlockBoot
  <2> QED
    BY <2>1, <2>2
<1> QED
  BY <1>1, <1>2, <1>3, <1>4, <1>5, <1>6, <1>7, <1>8, <1>9, <1>10, <1>11, <1>12, <1>13, <1>14, <1>15, <1>16, <1>17, <1>18, <1>19, <1>20, <1>21, <1>22, <1>23, <1>24, <1>25, <1>26, <1>27, <1>28, <1>29
     DEF Step, dispatch_release, maybe_opportunistic_reset_board, run_boot_sequence, reset_x280,
         internal_stop, maybe_idle_pll

-----------------------------------------------------------------------------
(* The reset section. *)

\* A thread that moves to l keeps LockInv if l is where its hold on boot_lock allows.
LEMMA LockKept ==
  ASSUME LockInv, pc \in [Thread -> PC], NEW t \in Thread, NEW l \in PC, Goto(t, l),
         UNCHANGED <<bootLock, chipReset>>,
         t = Main => l \in MainPC,
         l \in Critical => bootLock = t,
         bootLock = t => l \in Critical \cup StopPC /\ (l # "flag" => ~chipReset)
  PROVE  LockInv'
<1>1. pc'[t] = l /\ \A u \in Thread : u # t => pc'[u] = pc[u]
  BY DEF Goto
<1> QED
  BY <1>1 DEF LockInv, Thread

\* Steps outside the reset section and the teardown neither hold nor take boot_lock.
LEMMA OutsideLock ==
  ASSUME LockInv, pc \in [Thread -> PC], NEW t \in Thread, pc[t] \notin Critical \cup MainPC,
         \E l \in PC \ Critical : Goto(t, l),
         UNCHANGED <<bootLock, chipReset>>
  PROVE  LockInv'
<1>1. t # Main /\ bootLock # t
  BY DEF LockInv, MainPC
<1>2. PICK l \in PC \ Critical : Goto(t, l)
  OBVIOUS
<1> QED
  BY <1>1, <1>2, LockKept

\* A teardown keeps boot_lock if the reset section called it, and nobody else has it.
LEMMA TeardownLock ==
  ASSUME LockInv, pc \in [Thread -> PC], NEW t \in Thread, pc[t] \in StopPC,
         \/ \E l \in StopPC : Goto(t, l)
         \/ StopReturns(t),
         UNCHANGED <<bootLock, chipReset>>
  PROVE  LockInv'
<1>1. pc[t] # "flag" /\ (bootLock = t => ~chipReset)
  BY DEF LockInv, StopPC
<1>2. StopPC \subseteq PC /\ StopPC \subseteq MainPC /\ {"exit", "siblings", "idle"} \subseteq PC
      /\ StopPC \cap Critical = {}
  BY DEF PC, MainPC, BootPC, StopPC, Critical
<1>3. CASE \E l \in StopPC : Goto(t, l)
  BY <1>1, <1>2, <1>3, LockKept
<1>4. CASE StopReturns(t) /\ t = Main
  BY <1>1, <1>2, <1>4, LockKept DEF StopReturns, MainPC, Critical, LockInv
<1>5. CASE StopReturns(t) /\ t # Main /\ Locked(t)
  BY <1>1, <1>2, <1>5, LockKept DEF StopReturns, Critical, Locked
<1>6. CASE StopReturns(t) /\ t # Main /\ ~Locked(t)
  BY <1>1, <1>2, <1>6, LockKept DEF StopReturns, Return, Critical, Locked
<1> QED
  BY <1>3, <1>4, <1>5, <1>6

\* What the end of a handler leaves of its locals, and of the other threads'.
LEMMA ReturnFrame ==
  ASSUME LocalType, NEW t \in Thread, Return(t)
  PROVE  \A u \in Thread : /\ pc'[u] \in {pc[u], "idle"} /\ map'[u] \in {map[u], NoMap}
                           /\ sibs'[u] \subseteq sibs[u] /\ (busy'[u] => busy[u])
                           /\ pc'[u] = "join" => pc[u] = "join" /\ scan'[u] = scan[u]
<1>1. /\ pc'[t] = "idle" /\ map'[t] = NoMap /\ sibs'[t] = {} /\ ~busy'[t]
  BY DEF Return, Goto, LocalType
<1>2. \A u \in Thread : u # t => /\ pc'[u] = pc[u] /\ map'[u] = map[u] /\ sibs'[u] = sibs[u]
                                 /\ busy'[u] = busy[u] /\ scan'[u] = scan[u]
  BY DEF Return, Goto, LocalType
<1> QED
  BY <1>1, <1>2

\* The same for the end of internal_stop.
LEMMA StopReturnsFrame ==
  ASSUME LocalType, NEW t \in Thread, StopReturns(t)
  PROVE  \A u \in Thread : /\ pc'[u] \in {pc[u], "exit", "siblings", "idle"}
                           /\ map'[u] \in {map[u], NoMap}
                           /\ sibs'[u] \subseteq sibs[u] /\ (busy'[u] => busy[u])
                           /\ pc'[u] = "join" => pc[u] = "join" /\ scan'[u] = scan[u]
<1> USE DEF Goto, SetMap, OtherLocals, localVars, LocalType
<1>1. CASE t = Main
  BY <1>1 DEF StopReturns
<1>2. CASE t # Main /\ Locked(t)
  BY <1>2 DEF StopReturns
<1>3. CASE t # Main /\ ~Locked(t)
  BY <1>3, ReturnFrame DEF StopReturns
<1> QED
  BY <1>1, <1>2, <1>3

\* Steps that give mappings up and take none keep both facts about mappings.
LEMMA FreshKept ==
  ASSUME FreshInv, UNCHANGED <<cold, chipReset, slot, engine, leaked>>,
         \A u \in Thread : /\ map'[u] \in {map[u], NoMap} /\ (pc'[u] = pc[u] \/ pc'[u] \in Early)
                           /\ sibs'[u] \subseteq sibs[u] /\ (busy'[u] => busy[u])
  PROVE  FreshInv'
BY DEF FreshInv

LEMMA MapsKept ==
  ASSUME ColdMappingSafety, UNCHANGED <<cold, slot, engine, leaked, epoch>>,
         \A u \in Thread : map'[u] \in {map[u], NoMap}
  PROVE  ColdMappingSafety'
BY DEF ColdMappingSafety, LiveMapping, HeldMappingsLive

\* Every step of every thread keeps the locking discipline, and with it the two facts
\* about mappings.
LEMMA StepSafe ==
  ASSUME IInv, NEW t \in Thread, Step(t)
  PROVE  JoinInv' /\ LockInv' /\ FreshInv' /\ ColdMappingSafety'
<1> USE DEF daemonVars, lockVars, chipVars, hartVars, localVars, histVars, OtherLocals,
            SetMap
<1>0. /\ LocalType /\ JoinInv /\ LockInv /\ FreshInv /\ ColdMappingSafety
      /\ slot \in [Core -> Map] /\ epoch \in Nat \ {0} /\ bootLock \in Thread \cup {NoThread}
      /\ chipReset \in BOOLEAN
  BY TypeSplits DEF IInv, SharedType
<1>a. pc \in [Thread -> PC] /\ (scan[t] < NCore => scan[t] \in Core)
  BY <1>0 DEF LocalType, Core
<1>1. CASE read_parked_release_meta(t)
  <2>1. JoinInv'
    BY <1>1, <1>0 DEF read_parked_release_meta, Parked, Goto, Return, JoinInv, LocalType
  <2>2. LockInv'
    <3>1. pc[t] \notin Critical \cup MainPC
      BY <1>1 DEF read_parked_release_meta, Critical, MainPC, StopPC
    <3>2. \E l \in PC \ Critical : Goto(t, l)
      BY <1>1 DEF read_parked_release_meta, Return, PC, BootPC, ReleasePC, Critical
    <3> QED
      BY <1>1, <1>0, <1>a, <3>1, <3>2, OutsideLock DEF read_parked_release_meta
  <2>3. FreshInv'
    <3>1. CASE slot[core[t]] = NoMap
      <4>1. SetMap(t, NoMap) /\ (Goto(t, "force") \/ Goto(t, "existing")) /\ UNCHANGED OtherLocals
        BY <1>1, <3>1 DEF read_parked_release_meta, Parked
      <4>2. \A u \in Thread : map'[u] \in {map[u], NoMap} /\ (pc'[u] = pc[u] \/ pc'[u] \in Early)
        BY <1>0, <1>a, <4>1 DEF SetMap, Goto, LocalType, Early
      <4> QED
        BY <1>1, <1>0, <4>1, <4>2, FreshKept DEF read_parked_release_meta
    <3>2. CASE slot[core[t]] # NoMap
      <4>1. ~(cold /\ ~chipReset)
        BY <1>0, <3>2 DEF FreshInv, LocalType
      <4> QED
        BY <1>1, <4>1 DEF read_parked_release_meta, FreshInv
    <3> QED
      BY <3>1, <3>2
  <2>4. ColdMappingSafety'
    BY <1>1, <1>0 DEF read_parked_release_meta, Parked, ColdMappingSafety, LiveMapping, HeldMappingsLive, LocalType, Goto, Return
  <2> QED
    BY <2>1, <2>2, <2>3, <2>4
<1>2. CASE trigger_force_park_if_available(t)
  <2>1. JoinInv'
    BY <1>2, <1>0 DEF trigger_force_park_if_available, Goto, Return, JoinInv, LocalType
  <2>2. LockInv'
    <3>1. pc[t] \notin Critical \cup MainPC
      BY <1>2 DEF trigger_force_park_if_available, Critical, MainPC, StopPC
    <3>2. \E l \in PC \ Critical : Goto(t, l)
      BY <1>2 DEF trigger_force_park_if_available, Return, PC, BootPC, ReleasePC, Critical
    <3> QED
      BY <1>2, <1>0, <1>a, <3>1, <3>2, OutsideLock DEF trigger_force_park_if_available
  <2>3. FreshInv'
    BY <1>2, <1>0 DEF trigger_force_park_if_available, FreshInv, LockInv, LocalType, Early, Critical, Goto, Return
  <2>4. ColdMappingSafety'
    BY <1>2, <1>0 DEF trigger_force_park_if_available, ColdMappingSafety, LiveMapping, HeldMappingsLive, LocalType, Goto, Return
  <2> QED
    BY <2>1, <2>2, <2>3, <2>4
<1>3. CASE ForceParkTimeout(t)
  <2>1. JoinInv'
    BY <1>3, <1>0 DEF ForceParkTimeout, Goto, Return, JoinInv, LocalType
  <2>2. LockInv'
    <3>1. pc[t] \notin Critical \cup MainPC
      BY <1>3 DEF ForceParkTimeout, Critical, MainPC, StopPC
    <3>2. \E l \in PC \ Critical : Goto(t, l)
      BY <1>3 DEF ForceParkTimeout, Return, PC, BootPC, ReleasePC, Critical
    <3> QED
      BY <1>3, <1>0, <1>a, <3>1, <3>2, OutsideLock DEF ForceParkTimeout
  <2>3. FreshInv'
    BY <1>3, <1>0 DEF ForceParkTimeout, FreshInv, LockInv, LocalType, Early, Critical, Goto, Return
  <2>4. ColdMappingSafety'
    BY <1>3, <1>0 DEF ForceParkTimeout, ColdMappingSafety, LiveMapping, HeldMappingsLive, LocalType, Goto, Return
  <2> QED
    BY <2>1, <2>2, <2>3, <2>4
<1>4. CASE ReleaseReimage(t)
  <2>1. JoinInv'
    BY <1>4, <1>0 DEF ReleaseReimage, Goto, Return, JoinInv, LocalType
  <2>2. LockInv'
    <3>1. pc[t] \notin Critical \cup MainPC
      BY <1>4 DEF ReleaseReimage, Critical, MainPC, StopPC
    <3>2. \E l \in PC \ Critical : Goto(t, l)
      BY <1>4 DEF ReleaseReimage, Return, PC, BootPC, ReleasePC, Critical
    <3> QED
      BY <1>4, <1>0, <1>a, <3>1, <3>2, OutsideLock DEF ReleaseReimage
  <2>3. FreshInv'
    BY <1>4, <1>0 DEF ReleaseReimage, FreshInv, LockInv, LocalType, Early, Critical, Goto, Return
  <2>4. ColdMappingSafety'
    BY <1>4, <1>0 DEF ReleaseReimage, ColdMappingSafety, LiveMapping, HeldMappingsLive, LocalType, Goto, Return
  <2> QED
    BY <2>1, <2>2, <2>3, <2>4
<1>5. CASE ReleaseClear(t)
  <2>1. JoinInv'
    BY <1>5, <1>0 DEF ReleaseClear, Goto, Return, JoinInv, LocalType
  <2>2. LockInv'
    <3>1. pc[t] \notin Critical \cup MainPC
      BY <1>5 DEF ReleaseClear, Critical, MainPC, StopPC
    <3>2. \E l \in PC \ Critical : Goto(t, l)
      BY <1>5 DEF ReleaseClear, Return, PC, BootPC, ReleasePC, Critical
    <3> QED
      BY <1>5, <1>0, <1>a, <3>1, <3>2, OutsideLock DEF ReleaseClear
  <2>3. FreshInv'
    BY <1>5, <1>0 DEF ReleaseClear, FreshInv, LockInv, LocalType, Early, Critical, Goto, Return
  <2>4. ColdMappingSafety'
    BY <1>5, <1>0 DEF ReleaseClear, ColdMappingSafety, LiveMapping, HeldMappingsLive, LocalType, Goto, Return
  <2> QED
    BY <2>1, <2>2, <2>3, <2>4
<1>6. CASE ReleaseWake(t)
  <2>1. JoinInv'
    BY <1>6, <1>0 DEF ReleaseWake, Goto, Return, JoinInv, LocalType
  <2>2. LockInv'
    <3>1. pc[t] \notin Critical \cup MainPC
      BY <1>6 DEF ReleaseWake, Critical, MainPC, StopPC
    <3>2. \E l \in PC \ Critical : Goto(t, l)
      BY <1>6 DEF ReleaseWake, Return, PC, BootPC, ReleasePC, Critical
    <3> QED
      BY <1>6, <1>0, <1>a, <3>1, <3>2, OutsideLock DEF ReleaseWake
  <2>3. FreshInv'
    BY <1>6, <1>0 DEF ReleaseWake, FreshInv, LockInv, LocalType, Early, Critical, Goto, Return
  <2>4. ColdMappingSafety'
    BY <1>6, <1>0 DEF ReleaseWake, ColdMappingSafety, LiveMapping, HeldMappingsLive, LocalType, Goto, Return
  <2> QED
    BY <2>1, <2>2, <2>3, <2>4
<1>7. CASE handle_existing_slot(t)
  <2>1. JoinInv'
    BY <1>7, <1>0 DEF handle_existing_slot, Goto, Return, JoinInv, LocalType
  <2>2. LockInv'
    <3>1. pc[t] \notin Critical \cup MainPC
      BY <1>7 DEF handle_existing_slot, Critical, MainPC, StopPC
    <3>2. \E l \in PC \ Critical : Goto(t, l)
      BY <1>7 DEF handle_existing_slot, Return, PC, BootPC, ReleasePC, Critical
    <3> QED
      BY <1>7, <1>0, <1>a, <3>1, <3>2, OutsideLock DEF handle_existing_slot
  <2>3. FreshInv'
    <3>1. CASE slot[core[t]] = NoMap
      <4>1. Goto(t, "lock") /\ UNCHANGED <<slot, localVars>>
        BY <1>7, <3>1 DEF handle_existing_slot
      <4> QED
        BY <1>7, <1>0, <1>a, <4>1, FreshKept DEF handle_existing_slot, Goto, Early
    <3>2. CASE slot[core[t]] # NoMap
      <4>1. ~(cold /\ ~chipReset)
        BY <1>0, <3>2 DEF FreshInv, LocalType
      <4> QED
        BY <1>7, <4>1 DEF handle_existing_slot, FreshInv
    <3> QED
      BY <3>1, <3>2
  <2>4. ColdMappingSafety'
    <3>1. \A u \in Thread : map'[u] \in {map[u], NoMap, slot[core[t]]}
      <4>1. CASE Return(t)
        BY <1>0, <4>1, ReturnFrame
      <4>2. CASE UNCHANGED map \/ SetMap(t, slot[core[t]])
        BY <1>0, <4>2 DEF LocalType
      <4> QED
        BY <1>7, <4>1, <4>2 DEF handle_existing_slot
    <3>2. \A c \in Core : slot'[c] \in {slot[c], NoMap}
      BY <1>7, <1>0 DEF handle_existing_slot
    <3>3. core[t] \in Core /\ UNCHANGED <<cold, engine, leaked, epoch>>
      BY <1>7, <1>0 DEF handle_existing_slot, LocalType
    <3> QED
      BY <1>0, <3>1, <3>2, <3>3 DEF ColdMappingSafety, LiveMapping, HeldMappingsLive
  <2> QED
    BY <2>1, <2>2, <2>3, <2>4
<1>8. CASE TearDownPrior(t)
  <2>1. JoinInv'
    BY <1>8, <1>0 DEF TearDownPrior, Goto, Return, JoinInv, LocalType
  <2>2. LockInv'
    <3>1. pc[t] \notin Critical \cup MainPC
      BY <1>8 DEF TearDownPrior, Critical, MainPC, StopPC
    <3>2. \E l \in PC \ Critical : Goto(t, l)
      BY <1>8 DEF TearDownPrior, Return, PC, BootPC, ReleasePC, Critical
    <3> QED
      BY <1>8, <1>0, <1>a, <3>1, <3>2, OutsideLock DEF TearDownPrior
  <2>3. FreshInv'
    BY <1>8, <1>0 DEF TearDownPrior, FreshInv, LockInv, LocalType, Early, Critical, Goto, Return
  <2>4. ColdMappingSafety'
    BY <1>8, <1>0 DEF TearDownPrior, ColdMappingSafety, LiveMapping, HeldMappingsLive, LocalType, Goto, Return
  <2> QED
    BY <2>1, <2>2, <2>3, <2>4
<1>9. CASE TakeBootLock(t)
  <2>1. JoinInv'
    BY <1>9, <1>0 DEF TakeBootLock, Goto, Return, JoinInv, LocalType
  <2>2. LockInv'
    <3>1. t # Main
      BY <1>9, <1>0 DEF TakeBootLock, LockInv, MainPC, StopPC
    <3>2. CASE Return(t) /\ UNCHANGED bootLock
      <4>1. \E l \in PC \ Critical : Goto(t, l)
        BY <3>2 DEF Return, PC, Critical
      <4> QED
        BY <1>9, <1>0, <1>a, <3>2, <4>1, OutsideLock DEF TakeBootLock, Critical, MainPC, StopPC
    <3>3. CASE bootLock' = t /\ Goto(t, "flag")
      <4>1. pc'[t] = "flag" /\ \A u \in Thread : u # t => pc'[u] = pc[u]
        BY <1>a, <3>3 DEF Goto
      <4> QED
        BY <1>9, <1>0, <3>1, <3>3, <4>1 DEF TakeBootLock, LockInv, Critical, Thread
    <3> QED
      BY <1>9, <3>2, <3>3 DEF TakeBootLock
  <2>3. FreshInv'
    <3>1. CASE Return(t)
      BY <1>9, <1>0, <3>1, ReturnFrame, FreshKept DEF TakeBootLock, Early
    <3>2. CASE Goto(t, "flag") /\ UNCHANGED localVars
      BY <1>9, <1>0, <1>a, <3>2, FreshKept DEF TakeBootLock, Goto, Early, Critical
    <3> QED
      BY <1>9, <3>1, <3>2 DEF TakeBootLock
  <2>4. ColdMappingSafety'
    <3>1. CASE Return(t)
      BY <1>9, <1>0, <3>1, ReturnFrame, MapsKept DEF TakeBootLock
    <3>2. CASE UNCHANGED localVars
      BY <1>9, <1>0, <3>2, MapsKept DEF TakeBootLock
    <3> QED
      BY <1>9, <3>1, <3>2 DEF TakeBootLock
  <2> QED
    BY <2>1, <2>2, <2>3, <2>4
<1>10. CASE CheckResetFlag(t)
  <2>1. JoinInv'
    BY <1>10, <1>0 DEF CheckResetFlag, Goto, Return, JoinInv, LocalType
  <2>2. LockInv'
    <3>1. bootLock = t /\ t # Main
      BY <1>10, <1>0 DEF CheckResetFlag, LockInv, Critical
    <3>2. CASE bootLock' = NoThread /\ Goto(t, "new")
      <4>1. pc'[t] = "new" /\ \A u \in Thread : u # t => pc'[u] = pc[u]
        BY <1>a, <3>2 DEF Goto
      <4> QED
        BY <1>10, <1>0, <3>1, <3>2, <4>1 DEF CheckResetFlag, LockInv, Critical, Thread
    <3>3. CASE ~chipReset /\ Goto(t, "scan") /\ UNCHANGED bootLock
      BY <1>10, <1>0, <1>a, <3>1, <3>3, LockKept, PCMembers DEF CheckResetFlag, LockInv, Critical, BootPC
    <3> QED
      BY <1>10, <3>2, <3>3 DEF CheckResetFlag, UnlockBoot
  <2>3. FreshInv'
    BY <1>10, <1>0 DEF CheckResetFlag, FreshInv, LockInv, LocalType, Early, Critical, Goto, Return
  <2>4. ColdMappingSafety'
    BY <1>10, <1>0 DEF CheckResetFlag, ColdMappingSafety, LiveMapping, HeldMappingsLive, LocalType, Goto, Return
  <2> QED
    BY <2>1, <2>2, <2>3, <2>4
<1>11. CASE ScanSibling(t)
  <2>1. JoinInv'
    BY <1>11, <1>0 DEF ScanSibling, Parked, Goto, Return, JoinInv, LocalType
  <2>2. LockInv'
    BY <1>11, <1>0 DEF ScanSibling, Parked, LockInv, LocalType, Critical, MainPC, StopPC, UnlockBoot
  <2>3. FreshInv'
    BY <1>11, <1>0, <1>a DEF ScanSibling, Parked, FreshInv, LocalType
  <2>4. ColdMappingSafety'
    BY <1>11, <1>0 DEF ScanSibling, Parked, ColdMappingSafety, LiveMapping, HeldMappingsLive, LocalType, Goto, Return
  <2> QED
    BY <2>1, <2>2, <2>3, <2>4
<1>12. CASE ScanDone(t)
  <2>1. JoinInv'
    BY <1>12, <1>0 DEF ScanDone, Goto, Return, JoinInv, LocalType
  <2>2. LockInv'
    <3>1. bootLock = t /\ t # Main
      BY <1>12, <1>0 DEF ScanDone, LockInv, Critical
    <3>2. CASE bootLock' = NoThread /\ Goto(t, "new")
      <4>1. pc'[t] = "new" /\ \A u \in Thread : u # t => pc'[u] = pc[u]
        BY <1>a, <3>2 DEF Goto
      <4> QED
        BY <1>12, <1>0, <3>1, <3>2, <4>1 DEF ScanDone, LockInv, Critical, Thread
    <3>3. CASE ~busy[t] /\ Goto(t, "siblings") /\ UNCHANGED bootLock
      BY <1>12, <1>0, <1>a, <3>1, <3>3, LockKept, PCMembers DEF ScanDone, LockInv, Critical, BootPC
    <3> QED
      BY <1>12, <3>2, <3>3 DEF ScanDone, UnlockBoot
  <2>3. FreshInv'
    BY <1>12, <1>0 DEF ScanDone, FreshInv, LockInv, LocalType, Early, Critical, Goto, Return
  <2>4. ColdMappingSafety'
    BY <1>12, <1>0 DEF ScanDone, ColdMappingSafety, LiveMapping, HeldMappingsLive, LocalType, Goto, Return
  <2> QED
    BY <2>1, <2>2, <2>3, <2>4
<1>13. CASE StopSibling(t)
  <2>1. JoinInv'
    BY <1>13, <1>0 DEF StopSibling, Goto, Return, JoinInv, LocalType
  <2>2. LockInv'
    <3>1. bootLock = t /\ t # Main /\ ~chipReset
      BY <1>13, <1>0 DEF StopSibling, LockInv, Critical
    <3>2. Goto(t, "engine") \/ Goto(t, "take")
      BY <1>13 DEF StopSibling
    <3> QED
      BY <1>13, <1>0, <1>a, <3>1, <3>2, LockKept, PCMembers
         DEF StopSibling, Critical, BootPC, StopPC
  <2>3. FreshInv'
    BY <1>13, <1>0 DEF StopSibling, FreshInv, LockInv, LocalType, Early, Critical, Goto, Return
  <2>4. ColdMappingSafety'
    BY <1>13, <1>0 DEF StopSibling, ColdMappingSafety, LiveMapping, HeldMappingsLive, LocalType, Goto, Return
  <2> QED
    BY <2>1, <2>2, <2>3, <2>4
<1>14. CASE DropEngine(t)
  <2>1. JoinInv'
    BY <1>14, <1>0 DEF DropEngine, Goto, Return, JoinInv, LocalType
  <2>2. LockInv'
    <3>1. bootLock = t /\ t # Main /\ ~chipReset
      BY <1>14, <1>0 DEF DropEngine, LockInv, Critical
    <3> QED
      BY <1>14, <1>0, <1>a, <3>1, LockKept, PCMembers DEF DropEngine, Critical, BootPC
  <2>3. FreshInv'
    BY <1>14, <1>0 DEF DropEngine, FreshInv, LockInv, LocalType, Early, Critical, Goto, Return
  <2>4. ColdMappingSafety'
    BY <1>14, <1>0 DEF DropEngine, ColdMappingSafety, LiveMapping, HeldMappingsLive, LocalType, Goto, Return
  <2> QED
    BY <2>1, <2>2, <2>3, <2>4
<1>15. CASE reset_board(t)
  <2>1. JoinInv'
    BY <1>15, <1>0 DEF reset_board, BoardIsReset, Goto, Return, JoinInv, LocalType
  <2>2. LockInv'
    <3>1. bootLock = t /\ t # Main /\ bootLock' = NoThread
      BY <1>15, <1>0 DEF reset_board, LockInv, Critical, UnlockBoot
    <3>2. pc'[t] \in {"new", "idle"} /\ \A u \in Thread : u # t => pc'[u] = pc[u]
      BY <1>15, <1>a DEF reset_board, Return, Goto
    <3> QED
      BY <1>0, <3>1, <3>2 DEF LockInv, Critical, Thread
  <2>3. FreshInv'
    <3>1. CASE chipReset'
      BY <3>1 DEF FreshInv
    <3>2. CASE Return(t)
      BY <1>15, <1>0, <3>2, ReturnFrame DEF reset_board, FreshInv, Early
    <3> QED
      BY <1>15, <3>1, <3>2 DEF reset_board
  <2>4. ColdMappingSafety'
    BY <1>15, <1>0 DEF reset_board, BoardIsReset, Return, Goto, ColdMappingSafety, LiveMapping,
                    HeldMappingsLive, FreshInv, LockInv, Critical, LocalType
  <2> QED
    BY <2>1, <2>2, <2>3, <2>4
<1>16. CASE NewL2Cpu(t)
  <2>1. JoinInv'
    BY <1>16, <1>0 DEF NewL2Cpu, Goto, Return, JoinInv, LocalType
  <2>2. LockInv'
    <3>1. pc[t] \notin Critical \cup MainPC
      BY <1>16 DEF NewL2Cpu, Critical, MainPC, StopPC
    <3>2. \E l \in PC \ Critical : Goto(t, l)
      BY <1>16 DEF NewL2Cpu, Return, PC, BootPC, ReleasePC, Critical
    <3> QED
      BY <1>16, <1>0, <1>a, <3>1, <3>2, OutsideLock DEF NewL2Cpu
  <2>3. FreshInv'
    BY <1>16, <1>0 DEF NewL2Cpu, FreshInv, LockInv, LocalType, Early, Critical, Goto, Return
  <2>4. ColdMappingSafety'
    BY <1>16, <1>0 DEF NewL2Cpu, ColdMappingSafety, LiveMapping, HeldMappingsLive, LocalType, Goto, Return
  <2> QED
    BY <2>1, <2>2, <2>3, <2>4
<1>17. CASE get_or_bring_up_tensix_engine(t)
  <2>1. JoinInv'
    BY <1>17, <1>0 DEF get_or_bring_up_tensix_engine, Goto, Return, JoinInv, LocalType
  <2>2. LockInv'
    <3>1. pc[t] \notin Critical \cup MainPC
      BY <1>17 DEF get_or_bring_up_tensix_engine, Critical, MainPC, StopPC
    <3>2. \E l \in PC \ Critical : Goto(t, l)
      BY <1>17 DEF get_or_bring_up_tensix_engine, Return, PC, BootPC, ReleasePC, Critical
    <3> QED
      BY <1>17, <1>0, <1>a, <3>1, <3>2, OutsideLock DEF get_or_bring_up_tensix_engine
  <2>3. FreshInv'
    BY <1>17, <1>0 DEF get_or_bring_up_tensix_engine, FreshInv, LockInv, LocalType, Early, Critical, Goto, Return
  <2>4. ColdMappingSafety'
    BY <1>17, <1>0 DEF get_or_bring_up_tensix_engine, ColdMappingSafety, LiveMapping, HeldMappingsLive, LocalType, Goto, Return
  <2> QED
    BY <2>1, <2>2, <2>3, <2>4
<1>18. CASE LoadImage(t)
  <2>1. JoinInv'
    BY <1>18, <1>0 DEF LoadImage, Goto, Return, JoinInv, LocalType
  <2>2. LockInv'
    <3>1. pc[t] \notin Critical \cup MainPC
      BY <1>18 DEF LoadImage, Critical, MainPC, StopPC
    <3>2. \E l \in PC \ Critical : Goto(t, l)
      BY <1>18 DEF LoadImage, Return, PC, BootPC, ReleasePC, Critical
    <3> QED
      BY <1>18, <1>0, <1>a, <3>1, <3>2, OutsideLock DEF LoadImage
  <2>3. FreshInv'
    BY <1>18, <1>0 DEF LoadImage, FreshInv, LockInv, LocalType, Early, Critical, Goto, Return
  <2>4. ColdMappingSafety'
    BY <1>18, <1>0 DEF LoadImage, ColdMappingSafety, LiveMapping, HeldMappingsLive, LocalType, Goto, Return
  <2> QED
    BY <2>1, <2>2, <2>3, <2>4
<1>19. CASE RegisterDevices(t)
  <2>1. JoinInv'
    BY <1>19, <1>0 DEF RegisterDevices, Abandon, Goto, Return, JoinInv, LocalType
  <2>2. LockInv'
    <3>1. pc[t] \notin Critical \cup MainPC
      BY <1>19 DEF RegisterDevices, Critical, MainPC, StopPC
    <3>2. \E l \in PC \ Critical : Goto(t, l)
      BY <1>19 DEF RegisterDevices, Abandon, Return, PC, BootPC, ReleasePC, Critical
    <3> QED
      BY <1>19, <1>0, <1>a, <3>1, <3>2, OutsideLock DEF RegisterDevices, Abandon
  <2>3. FreshInv'
    BY <1>19, <1>0 DEF RegisterDevices, Abandon, FreshInv, LockInv, LocalType, Early, Critical, Goto, Return
  <2>4. ColdMappingSafety'
    BY <1>19, <1>0 DEF RegisterDevices, Abandon, ColdMappingSafety, LiveMapping, HeldMappingsLive, LocalType, Goto, Return
  <2> QED
    BY <2>1, <2>2, <2>3, <2>4
<1>20. CASE StepDown(t)
  <2>1. JoinInv'
    BY <1>20, <1>0 DEF StepDown, Abandon, Panic, Goto, Return, JoinInv, LocalType
  <2>2. LockInv'
    <3>1. pc[t] \notin Critical \cup MainPC
      BY <1>20 DEF StepDown, Critical, MainPC, StopPC
    <3>2. \E l \in PC \ Critical : Goto(t, l)
      BY <1>20 DEF StepDown, Abandon, Return, PC, BootPC, ReleasePC, Critical
    <3> QED
      BY <1>20, <1>0, <1>a, <3>1, <3>2, OutsideLock DEF StepDown, Abandon
  <2>3. FreshInv'
    BY <1>20, <1>0 DEF StepDown, Abandon, Panic, FreshInv, LockInv, LocalType, Early, Critical, Goto, Return
  <2>4. ColdMappingSafety'
    BY <1>20, <1>0 DEF StepDown, Abandon, Panic, ColdMappingSafety, LiveMapping, HeldMappingsLive, LocalType, Goto, Return
  <2> QED
    BY <2>1, <2>2, <2>3, <2>4
<1>21. CASE ReadResetReg(t)
  <2>1. JoinInv'
    BY <1>21, <1>0 DEF ReadResetReg, Abandon, Goto, Return, JoinInv, LocalType
  <2>2. LockInv'
    <3>1. pc[t] \notin Critical \cup MainPC
      BY <1>21 DEF ReadResetReg, Critical, MainPC, StopPC
    <3>2. \E l \in PC \ Critical : Goto(t, l)
      BY <1>21 DEF ReadResetReg, Abandon, Return, PC, BootPC, ReleasePC, Critical
    <3> QED
      BY <1>21, <1>0, <1>a, <3>1, <3>2, OutsideLock DEF ReadResetReg, Abandon
  <2>3. FreshInv'
    BY <1>21, <1>0 DEF ReadResetReg, Abandon, FreshInv, LockInv, LocalType, Early, Critical, Goto, Return
  <2>4. ColdMappingSafety'
    BY <1>21, <1>0 DEF ReadResetReg, Abandon, ColdMappingSafety, LiveMapping, HeldMappingsLive, LocalType, Goto, Return
  <2> QED
    BY <2>1, <2>2, <2>3, <2>4
<1>22. CASE WriteResetReg(t)
  <2>1. JoinInv'
    BY <1>22, <1>0 DEF WriteResetReg, Abandon, Goto, Return, JoinInv, LocalType
  <2>2. LockInv'
    <3>1. pc[t] \notin Critical \cup MainPC
      BY <1>22 DEF WriteResetReg, Critical, MainPC, StopPC
    <3>2. \E l \in PC \ Critical : Goto(t, l)
      BY <1>22 DEF WriteResetReg, Abandon, Return, PC, BootPC, ReleasePC, Critical
    <3> QED
      BY <1>22, <1>0, <1>a, <3>1, <3>2, OutsideLock DEF WriteResetReg, Abandon
  <2>3. FreshInv'
    BY <1>22, <1>0 DEF WriteResetReg, Abandon, FreshInv, LockInv, LocalType, Early, Critical, Goto, Return
  <2>4. ColdMappingSafety'
    BY <1>22, <1>0 DEF WriteResetReg, Abandon, ColdMappingSafety, LiveMapping, HeldMappingsLive, LocalType, Goto, Return
  <2> QED
    BY <2>1, <2>2, <2>3, <2>4
<1>23. CASE StepUp(t)
  <2>1. JoinInv'
    BY <1>23, <1>0 DEF StepUp, Abandon, Panic, Goto, Return, JoinInv, LocalType
  <2>2. LockInv'
    <3>1. pc[t] \notin Critical \cup MainPC
      BY <1>23 DEF StepUp, Critical, MainPC, StopPC
    <3>2. \E l \in PC \ Critical : Goto(t, l)
      BY <1>23 DEF StepUp, Abandon, Return, PC, BootPC, ReleasePC, Critical
    <3> QED
      BY <1>23, <1>0, <1>a, <3>1, <3>2, OutsideLock DEF StepUp, Abandon
  <2>3. FreshInv'
    BY <1>23, <1>0 DEF StepUp, Abandon, Panic, FreshInv, LockInv, LocalType, Early, Critical, Goto, Return
  <2>4. ColdMappingSafety'
    BY <1>23, <1>0 DEF StepUp, Abandon, Panic, ColdMappingSafety, LiveMapping, HeldMappingsLive, LocalType, Goto, Return
  <2> QED
    BY <2>1, <2>2, <2>3, <2>4
<1>24. CASE install_slot_and_reply_ok(t)
  <2>1. JoinInv'
    BY <1>24, <1>0 DEF install_slot_and_reply_ok, Goto, Return, JoinInv, LocalType
  <2>2. LockInv'
    <3>1. pc[t] \notin Critical \cup MainPC
      BY <1>24 DEF install_slot_and_reply_ok, Critical, MainPC, StopPC
    <3>2. \E l \in PC \ Critical : Goto(t, l)
      BY <1>24 DEF install_slot_and_reply_ok, Return, PC, BootPC, ReleasePC, Critical
    <3> QED
      BY <1>24, <1>0, <1>a, <3>1, <3>2, OutsideLock DEF install_slot_and_reply_ok
  <2>3. FreshInv'
    BY <1>24, <1>0 DEF install_slot_and_reply_ok, FreshInv, LockInv, LocalType, Early, Critical, Goto, Return
  <2>4. ColdMappingSafety'
    BY <1>24, <1>0 DEF install_slot_and_reply_ok, ColdMappingSafety, LiveMapping, HeldMappingsLive, LocalType, Goto, Return
  <2> QED
    BY <2>1, <2>2, <2>3, <2>4
<1>25. CASE TakeSlot(t)
  <2>1. JoinInv'
    <3>1. CASE StopReturns(t)
      BY <1>0, <3>1, StopReturnsFrame DEF JoinInv
    <3>2. CASE ~StopReturns(t)
      BY <1>25, <1>0, <1>a, <3>2 DEF TakeSlot, Goto, JoinInv, LocalType
    <3> QED
      BY <3>1, <3>2
  <2>2. LockInv'
    <3>1. pc[t] \in StopPC /\ ((\E l \in StopPC : Goto(t, l)) \/ StopReturns(t))
      BY <1>25, <1>a DEF TakeSlot, StopPC, Goto
    <3> QED
      BY <1>25, <1>0, <1>a, <3>1, TeardownLock DEF TakeSlot
  <2>3. FreshInv'
    <3>1. CASE scan[t] < NCore /\ slot[scan[t]] # NoMap
      <4>1. ~(cold /\ ~chipReset)
        BY <1>0, <1>a, <3>1 DEF FreshInv
      <4> QED
        BY <1>25, <4>1 DEF TakeSlot, FreshInv
    <3>2. CASE ~(scan[t] < NCore /\ slot[scan[t]] # NoMap) /\ StopReturns(t)
      BY <1>25, <1>0, <3>2, StopReturnsFrame, FreshKept DEF TakeSlot, Early, Critical
    <3>3. CASE ~(scan[t] < NCore /\ slot[scan[t]] # NoMap) /\ ~StopReturns(t)
      BY <1>25, <1>0, <1>a, <3>3, FreshKept DEF TakeSlot, Goto, Early
    <3> QED
      BY <3>1, <3>2, <3>3
  <2>4. ColdMappingSafety'
    <3>1. \A u \in Thread : map'[u] \in {map[u], NoMap, slot[scan[t]]}
      BY <1>25, <1>0, StopReturnsFrame DEF TakeSlot, LocalType
    <3>2. \A u \in Thread : map'[u] \in {map[u], NoMap} \/ scan[t] \in Core
      BY <1>25, <1>0, <1>a, StopReturnsFrame DEF TakeSlot, LocalType
    <3>3. \A c \in Core : slot'[c] \in {slot[c], NoMap}
      BY <1>25, <1>0 DEF TakeSlot
    <3> QED
      BY <1>25, <1>0, <3>1, <3>2, <3>3 DEF TakeSlot, ColdMappingSafety, LiveMapping, HeldMappingsLive
  <2> QED
    BY <2>1, <2>2, <2>3, <2>4
<1>26. CASE JoinWorkers(t)
  <2>1. JoinInv'
    BY <1>26, <1>0 DEF JoinWorkers, Goto, Return, JoinInv, LocalType
  <2>2. LockInv'
    <3>1. pc[t] \in StopPC /\ ((\E l \in StopPC : Goto(t, l)) \/ StopReturns(t))
      BY <1>26, <1>a DEF JoinWorkers, StopPC, Goto
    <3> QED
      BY <1>26, <1>0, <1>a, <3>1, TeardownLock DEF JoinWorkers
  <2>3. FreshInv'
    BY <1>26, <1>0 DEF JoinWorkers, FreshInv, LockInv, LocalType, Early, Critical, Goto, Return
  <2>4. ColdMappingSafety'
    BY <1>26, <1>0 DEF JoinWorkers, ColdMappingSafety, LiveMapping, HeldMappingsLive, LocalType, Goto, Return
  <2> QED
    BY <2>1, <2>2, <2>3, <2>4
<1>27. CASE CheckSlots(t)
  <2>1. JoinInv'
    BY <1>27, <1>0 DEF CheckSlots, StopReturns, Locked, Goto, Return, JoinInv, LocalType
  <2>2. LockInv'
    <3>1. pc[t] \in StopPC /\ ((\E l \in StopPC : Goto(t, l)) \/ StopReturns(t))
      BY <1>27, <1>a DEF CheckSlots, StopPC, Goto
    <3> QED
      BY <1>27, <1>0, <1>a, <3>1, TeardownLock DEF CheckSlots
  <2>3. FreshInv'
    <3>1. CASE StopReturns(t)
      BY <1>27, <1>0, <3>1, StopReturnsFrame, FreshKept DEF CheckSlots, Early, Critical
    <3>2. CASE ~StopReturns(t)
      BY <1>27, <1>0, <1>a, <3>2, FreshKept DEF CheckSlots, Goto, Early
    <3> QED
      BY <3>1, <3>2
  <2>4. ColdMappingSafety'
    <3>1. CASE StopReturns(t)
      BY <1>27, <1>0, <3>1, StopReturnsFrame, MapsKept DEF CheckSlots
    <3>2. CASE ~StopReturns(t)
      BY <1>27, <1>0, <3>2, MapsKept DEF CheckSlots
    <3> QED
      BY <3>1, <3>2
  <2> QED
    BY <2>1, <2>2, <2>3, <2>4
<1>28. CASE CheckBits(t)
  <2>1. JoinInv'
    BY <1>28, <1>0 DEF CheckBits, StopReturns, Locked, Goto, Return, JoinInv, LocalType
  <2>2. LockInv'
    <3>1. pc[t] \in StopPC /\ ((\E l \in StopPC : Goto(t, l)) \/ StopReturns(t))
      BY <1>28, <1>a DEF CheckBits, StopPC, Goto
    <3> QED
      BY <1>28, <1>0, <1>a, <3>1, TeardownLock DEF CheckBits
  <2>3. FreshInv'
    <3>1. CASE StopReturns(t)
      BY <1>28, <1>0, <3>1, StopReturnsFrame, FreshKept DEF CheckBits, Early, Critical
    <3>2. CASE ~StopReturns(t)
      BY <1>28, <1>0, <1>a, <3>2, FreshKept DEF CheckBits, Goto, Early
    <3> QED
      BY <3>1, <3>2
  <2>4. ColdMappingSafety'
    <3>1. CASE StopReturns(t)
      BY <1>28, <1>0, <3>1, StopReturnsFrame, MapsKept DEF CheckBits
    <3>2. CASE ~StopReturns(t)
      BY <1>28, <1>0, <3>2, MapsKept DEF CheckBits
    <3> QED
      BY <3>1, <3>2
  <2> QED
    BY <2>1, <2>2, <2>3, <2>4
<1>29. CASE idle_pll(t)
  <2>1. JoinInv'
    <3>1. CASE StopReturns(t)
      BY <1>0, <3>1, StopReturnsFrame DEF JoinInv
    <3>2. CASE t = Main /\ Goto(t, "exit") /\ UNCHANGED localVars
      BY <1>0, <3>2 DEF Goto, JoinInv, LocalType
    <3>3. CASE Return(t)
      BY <1>0, <3>3, ReturnFrame DEF JoinInv
    <3> QED
      BY <1>29, <3>1, <3>2, <3>3 DEF idle_pll
  <2>2. LockInv'
    <3>1. CASE StopReturns(t) /\ UNCHANGED lockVars
      BY <1>29, <1>0, <1>a, <3>1, TeardownLock DEF idle_pll, StopPC
    <3>2. CASE /\ bootLock' = IF Locked(t) THEN NoThread ELSE bootLock
               /\ IF t = Main THEN Goto(t, "exit") /\ UNCHANGED localVars ELSE Return(t)
      <4>1. pc'[t] = (IF t = Main THEN "exit" ELSE "idle") /\ bootLock' # t
            /\ \A u \in Thread : u # t => pc'[u] = pc[u]
        BY <1>0, <1>a, <3>2 DEF Return, Goto, Locked, LockInv
      <4>2. \A u \in Thread : bootLock' = u => bootLock = u
        BY <3>2
      <4>3. \A u \in Thread : u # t /\ bootLock = u => bootLock' = u
        BY <3>2 DEF Locked
      <4> QED
        BY <1>29, <1>0, <4>1, <4>2, <4>3 DEF idle_pll, LockInv, Critical, MainPC, Thread
    <3> QED
      BY <1>29, <3>1, <3>2 DEF idle_pll
  <2>3. FreshInv'
    <3>1. \A u \in Thread : /\ pc'[u] \in {pc[u], "exit", "siblings", "idle"}
                            /\ map'[u] \in {map[u], NoMap}
                            /\ sibs'[u] \subseteq sibs[u] /\ (busy'[u] => busy[u])
      <4>1. CASE StopReturns(t)
        BY <1>0, <4>1, StopReturnsFrame
      <4>2. CASE Goto(t, "exit") /\ UNCHANGED localVars
        BY <1>a, <4>2 DEF Goto
      <4>3. CASE Return(t)
        BY <1>0, <4>3, ReturnFrame
      <4> QED
        BY <1>29, <4>1, <4>2, <4>3 DEF idle_pll
    <3> QED
      BY <1>29, <1>0, <3>1 DEF idle_pll, FreshInv, Early, Critical
  <2>4. ColdMappingSafety'
    <3>1. \A u \in Thread : map'[u] \in {map[u], NoMap}
      <4>1. CASE StopReturns(t)
        BY <1>0, <4>1, StopReturnsFrame
      <4>2. CASE UNCHANGED localVars
        BY <4>2
      <4>3. CASE Return(t)
        BY <1>0, <4>3, ReturnFrame
      <4> QED
        BY <1>29, <4>1, <4>2, <4>3 DEF idle_pll
    <3> QED
      BY <1>29, <1>0, <3>1, MapsKept DEF idle_pll
  <2> QED
    BY <2>1, <2>2, <2>3, <2>4
<1> QED
  BY <1>1, <1>2, <1>3, <1>4, <1>5, <1>6, <1>7, <1>8, <1>9, <1>10, <1>11, <1>12, <1>13, <1>14, <1>15, <1>16, <1>17, <1>18, <1>19, <1>20, <1>21, <1>22, <1>23, <1>24, <1>25, <1>26, <1>27, <1>28, <1>29
     DEF Step, dispatch_release, maybe_opportunistic_reset_board, run_boot_sequence, reset_x280,
         internal_stop, maybe_idle_pll

-----------------------------------------------------------------------------
(* The other actions, and the theorems. *)

LEMMA InitIInv == Init => IInv
<1> SUFFICES ASSUME Init PROVE IInv
  OBVIOUS
<1>1. SharedType
  <2>1. slot \in [Core -> Map] /\ engine \in Map
    BY DEF Init, Map
  <2>2. wedged \in [Core -> BOOLEAN]
    <3>1. PICK ok \in SUBSET WarmStart : wedged = [c \in Core |-> c \in WarmStart \ ok]
      BY DEF Init
    <3> QED
      BY <3>1
  <2>3. purg \in [Core -> BOOLEAN]
    BY DEF Init
  <2>4. cold \in BOOLEAN /\ pll \in {"low", "high"} /\ cpu \in [Core -> {"held", "exec", "parked"}]
    BY DEF Init
  <2>5. epoch \in 1..(MaxReset + 1) /\ session \in 1..MaxSession /\ ops \in 0..MaxOps
    BY DEF Init
  <2>6. bits \subseteq Core /\ poisoned = {} /\ leaked = {} /\ bootLock = NoThread
        /\ seqLock = NoThread /\ chipReset = FALSE /\ shutdown = FALSE /\ innerUp = TRUE
    BY DEF Init
  <2> QED
    BY <2>1, <2>2, <2>3, <2>4, <2>5, <2>6 DEF SharedType
<1>2. LocalType
  <2>1. "idle" \in PC /\ NoMap \in Map /\ 0 \in Core /\ 0 \in 0..NCore
    BY ZeroIsCore DEF PC, Map
  <2> QED
    BY <2>1 DEF Init, LocalType
<1>3. \A t \in Thread : pc[t] = "idle" /\ map[t] = NoMap /\ ~busy[t] /\ sibs[t] = {}
  BY DEF Init
<1>4. JoinInv /\ LockInv
  BY <1>3 DEF Init, JoinInv, LockInv, Critical, MainPC, Thread
<1>5. FreshInv
  BY <1>3 DEF Init, FreshInv, Early
<1>6. ColdMappingSafety
  BY <1>3, <1>5 DEF Init, FreshInv, ColdMappingSafety, LiveMapping, HeldMappingsLive
<1> QED
  BY <1>1, <1>2, <1>4, <1>5, <1>6, TypeSplits DEF IInv

LEMMA NextIInv == IInv /\ [Next]_vars => IInv'
<1> SUFFICES ASSUME IInv, [Next]_vars PROVE IInv'
  OBVIOUS
<1> USE DEF daemonVars, lockVars, chipVars, hartVars, localVars, histVars
<1>0. LocalType /\ SharedType /\ JoinInv /\ LockInv /\ FreshInv /\ ColdMappingSafety
  BY TypeSplits DEF IInv
<1>a. SUFFICES LocalType' /\ SharedType' /\ JoinInv' /\ LockInv' /\ FreshInv' /\ ColdMappingSafety'
  BY DEF IInv, TypeOK, LocalType, SharedType
<1>b. pc \in [Thread -> PC] /\ {"meta", "take"} \subseteq PC /\ "meta" \notin Critical
      /\ "take" \notin Critical
  BY <1>0 DEF LocalType, PC, BootPC, StopPC, Critical
<1>1. ASSUME NEW t \in Thread, Step(t) PROVE IInv'
  BY <1>1, StepType, StepSafe DEF IInv
<1>2. ASSUME NEW t \in Rpc, NEW c \in Core, NEW f \in BOOLEAN, dispatch_boot(t, c, f)
      PROVE  IInv'
  <2>0. t \in Thread /\ t # Main /\ bootLock # t
    BY <1>0, <1>2 DEF Thread, dispatch_boot, LockInv, Critical, StopPC
  <2>1. LocalType'
    <3>1. force' \in [Thread -> BOOLEAN]
      BY <1>0, <1>2, Zenon DEF dispatch_boot, LocalType
    <3> QED
      BY <1>0, <1>b, <1>2, <2>0, <3>1 DEF dispatch_boot, LocalType, Goto
  <2>2. SharedType'
    <3>1. ops' \in 0..MaxOps
      <4>1. ops < MaxOps /\ ops' = ops + 1
        BY <1>2 DEF dispatch_boot
      <4>2. ops \in 0..MaxOps
        BY <1>0 DEF SharedType
      <4> QED
        BY <4>1, <4>2
    <3>2. UNCHANGED <<daemonVars, lockVars, chipVars, hartVars, session, cold>>
      BY <1>2 DEF dispatch_boot
    <3> QED
      BY <1>0, <3>1, <3>2 DEF SharedType
  <2>3. JoinInv'
    BY <1>0, <1>2, <2>0 DEF dispatch_boot, JoinInv, Goto, LocalType
  <2>4. LockInv'
    BY <1>0, <1>b, <1>2, <2>0, LockKept DEF dispatch_boot
  <2>5. FreshInv' /\ ColdMappingSafety'
    BY <1>0, <1>2, <2>0 DEF dispatch_boot, Goto, LocalType, FreshInv, Early,
                            ColdMappingSafety, LiveMapping, HeldMappingsLive
  <2> QED
    BY <2>1, <2>2, <2>3, <2>4, <2>5 DEF IInv, TypeOK, LocalType, SharedType
<1>3. ASSUME NEW t \in Rpc, NEW c \in Core, dispatch_stop(t, c) PROVE IInv'
  <2>0. t \in Thread /\ t # Main /\ bootLock # t
    BY <1>0, <1>3 DEF Thread, dispatch_stop, LockInv, Critical, StopPC
  <2>1. LocalType'
    <3>1. c \in 0..NCore
      BY DEF Core
    <3> QED
      BY <1>0, <1>b, <1>3, <2>0, <3>1 DEF dispatch_stop, LocalType, Goto
  <2>2. SharedType'
    <3>1. ops' \in 0..MaxOps
      <4>1. ops < MaxOps /\ ops' = ops + 1
        BY <1>3 DEF dispatch_stop
      <4>2. ops \in 0..MaxOps
        BY <1>0 DEF SharedType
      <4> QED
        BY <4>1, <4>2
    <3>2. UNCHANGED <<daemonVars, lockVars, chipVars, hartVars, session, cold>>
      BY <1>3 DEF dispatch_stop
    <3> QED
      BY <1>0, <3>1, <3>2 DEF SharedType
  <2>3. JoinInv'
    BY <1>0, <1>3, <2>0 DEF dispatch_stop, JoinInv, Goto, LocalType
  <2>4. LockInv'
    BY <1>0, <1>b, <1>3, <2>0, LockKept DEF dispatch_stop
  <2>5. FreshInv' /\ ColdMappingSafety'
    BY <1>0, <1>3, <2>0 DEF dispatch_stop, Goto, LocalType, FreshInv, Early,
                            ColdMappingSafety, LiveMapping, HeldMappingsLive
  <2> QED
    BY <2>1, <2>2, <2>3, <2>4, <2>5 DEF IInv, TypeOK, LocalType, SharedType
<1>4. ASSUME NEW m \in Map, LeakedThreadEnds(m) PROVE IInv'
  BY <1>0, <1>4 DEF LeakedThreadEnds, IInv, TypeOK, LocalType, SharedType, JoinInv, LockInv,
                    FreshInv, ColdMappingSafety, LiveMapping, HeldMappingsLive
<1>5. ASSUME NEW c \in Core, GuestParks(c) \/ auto_release_for_reboot(c) PROVE IInv'
  <2>1. purg' \in [Core -> BOOLEAN]
    BY <1>0, <1>5, Zenon DEF GuestParks, auto_release_for_reboot, SharedType
  <2>2. cpu' \in [Core -> {"held", "exec", "parked"}]
    BY <1>0, <1>5 DEF GuestParks, auto_release_for_reboot, SharedType
  <2>3. UNCHANGED <<daemonVars, lockVars, chipVars, pc, localVars, histVars>>
    BY <1>5 DEF GuestParks, auto_release_for_reboot
  <2> QED
    BY <1>0, <2>1, <2>2, <2>3
       DEF IInv, TypeOK, LocalType, SharedType, JoinInv, LockInv, FreshInv, ColdMappingSafety,
           LiveMapping, HeldMappingsLive
<1>6. CASE dispatch_shutdown
  <2>0. Main \in Thread /\ "take" \in MainPC /\ bootLock # Main
    BY <1>0 DEF Thread, MainPC, StopPC, LockInv
  <2>1. LocalType'
    BY <1>0, <1>b, <1>6, <2>0 DEF dispatch_shutdown, LocalType, Goto
  <2>2. SharedType'
    BY <1>0, <1>6 DEF dispatch_shutdown, SharedType
  <2>3. JoinInv'
    BY <1>0, <1>6, <2>0 DEF dispatch_shutdown, JoinInv, Goto, LocalType
  <2>4. LockInv'
    BY <1>0, <1>b, <1>6, <2>0, LockKept DEF dispatch_shutdown
  <2>5. FreshInv' /\ ColdMappingSafety'
    BY <1>0, <1>6, <2>0 DEF dispatch_shutdown, Goto, LocalType, FreshInv, Early,
                            ColdMappingSafety, LiveMapping, HeldMappingsLive
  <2> QED
    BY <2>1, <2>2, <2>3, <2>4, <2>5 DEF IInv, TypeOK, LocalType, SharedType
<1>7. CASE Restart
  <2>1. LocalType'
    <3>1. "idle" \in PC /\ NoMap \in Map /\ 0 \in Core /\ 0 \in 0..NCore
      BY ZeroIsCore DEF PC, Map
    <3> QED
      BY <1>7, <3>1 DEF Restart, FreshThreads, LocalType
  <2>2. SharedType'
    <3>0. epoch \in Map /\ NoMap \in Map
      BY <1>0 DEF Map, SharedType
    <3>1. slot' \in [Core -> Map] /\ engine' \in Map
      <4>1. PICK ok \in SUBSET bits : slot' = [c \in Core |-> IF c \in ok THEN epoch ELSE NoMap]
        BY <1>7 DEF Restart, WarmResume
      <4>2. engine' \in {epoch, NoMap}
        BY <1>7 DEF Restart, WarmResume
      <4> QED
        BY <3>0, <4>1, <4>2
    <3>2. wedged' \in [Core -> BOOLEAN]
      <4>1. PICK ok \in SUBSET bits : wedged' = [c \in Core |-> c \in bits \ ok]
        BY <1>7 DEF Restart, WarmResume
      <4> QED
        BY <4>1
    <3>3. session' \in 1..MaxSession /\ cold' \in BOOLEAN
      <4>1. session < MaxSession /\ session' = session + 1 /\ cold' = (bits = {})
        BY <1>7 DEF Restart, WarmResume
      <4>2. session \in 1..MaxSession
        BY <1>0 DEF SharedType
      <4> QED
        BY <4>1, <4>2
    <3> QED
      BY <1>0, <1>7, <3>1, <3>2, <3>3 DEF Restart, SharedType
  <2>3. \A t \in Thread : pc'[t] = "idle" /\ map'[t] = NoMap /\ ~busy'[t] /\ sibs'[t] = {}
    BY <1>7 DEF Restart, FreshThreads
  <2>4. JoinInv' /\ LockInv'
    BY <1>7, <2>3 DEF Restart, JoinInv, LockInv, Critical, MainPC, Thread
  <2>5. FreshInv'
    BY <1>7, <2>3 DEF Restart, WarmResume, FreshInv, Early
  <2>6. ColdMappingSafety'
    BY <1>7, <2>3, <2>5 DEF Restart, FreshInv, ColdMappingSafety, LiveMapping, HeldMappingsLive
  <2> QED
    BY <2>1, <2>2, <2>4, <2>5, <2>6 DEF IInv, TypeOK, LocalType, SharedType
<1>8. CASE UNCHANGED vars
  BY <1>0, <1>8 DEF vars, IInv, TypeOK, LocalType, SharedType, JoinInv, LockInv, FreshInv,
                    ColdMappingSafety, LiveMapping, HeldMappingsLive
<1>9. IInv' => LocalType' /\ SharedType' /\ JoinInv' /\ LockInv' /\ FreshInv' /\ ColdMappingSafety'
  BY DEF IInv, TypeOK, LocalType, SharedType
<1> QED
  BY <1>1, <1>2, <1>3, <1>4, <1>5, <1>6, <1>7, <1>8, <1>9 DEF Next

\* Every variable of the boot, stop and reset paths keeps its type.
THEOREM TypeCorrect == Spec => []TypeOK
<1>1. IInv => TypeOK
  BY DEF IInv
<1> QED
  BY <1>1, InitIInv, NextIInv, PTL DEF Spec

\* In a session that started with every core in reset, maybe_opportunistic_reset_board
\* never ends a mapping that a slot, a handler, a leaked worker or the engine holds.
THEOREM ColdMappingsSafe == Spec => []ColdMappingSafety
<1>1. IInv => ColdMappingSafety
  BY DEF IInv
<1> QED
  BY <1>1, InitIInv, NextIInv, PTL DEF Spec
=============================================================================
