-------------------------- MODULE ConsoleHubProofs --------------------------
(***************************************************************************)
(* The writer role of the console, for any number of sessions and any       *)
(* sizes.  OneWriter is not inductive by itself: that ids stay distinct      *)
(* needs every id to be below next_id, and that attach adds a client rather  *)
(* than renaming one needs a session that has not attached to be outside    *)
(* the hub.                                                                *)
(***************************************************************************)
EXTENDS ConsoleHub, TLAPS

HubType ==
  /\ clients \subseteq Session
  /\ isWriter \in [Session -> BOOLEAN]
  /\ id \in [Session -> Nat]
  /\ nextId \in Nat
  /\ pc \in [Session -> PC]

HubInv ==
  /\ HubType
  /\ \A c \in clients : id[c] < nextId
  /\ \A s \in Session : pc[s] \in {"new", "got"} => s \notin clients
  /\ OneWriter

\* Steps that only remove clients, and move sessions to states past the attach,
\* keep the invariant: what every detach, drop and disconnect relies on.
LEMMA ShrinkingHub ==
  ASSUME HubInv,
         clients' \subseteq clients,
         UNCHANGED <<isWriter, id, nextId>>,
         pc' \in [Session -> PC],
         \A s \in Session : pc'[s] \in {"new", "got"} => pc[s] \in {"new", "got"}
  PROVE  HubInv'
<1> USE DEF HubInv, HubType
<1>1. HubType' OBVIOUS
<1>2. (\A c \in clients : id[c] < nextId)' OBVIOUS
<1>3. (\A s \in Session : pc[s] \in {"new", "got"} => s \notin clients)' OBVIOUS
<1>4. OneWriter' BY DEF OneWriter
<1> QED BY <1>1, <1>2, <1>3, <1>4

\* hub.attach: the new client gets a fresh id, and the role only if nobody else
\* keeps it.
LEMMA AttachKeepsInv ==
  ASSUME HubInv, NEW s \in Session, NEW m \in Mode, attach(s, m)
  PROVE  HubInv'
<1> USE DEF HubInv, HubType
<1>1. /\ clients' = clients \cup {s} /\ s \notin clients
      /\ id' = [id EXCEPT ![s] = nextId] /\ nextId' = nextId + 1
      /\ pc' = [pc EXCEPT ![s] = "attached"]
  BY DEF attach
<1>2. isWriter' \in [Session -> BOOLEAN]
  BY Zenon DEF attach, Mode
<1>3. HubType'
  <2>1. id' \in [Session -> Nat] /\ nextId' \in Nat /\ clients' \subseteq Session BY <1>1
  <2>2. pc' \in [Session -> PC] BY <1>1 DEF PC
  <2> QED BY <2>1, <2>2, <1>2
<1>4. (\A c \in clients : id[c] < nextId)' BY <1>1
<1>5. (\A t \in Session : pc[t] \in {"new", "got"} => t \notin clients)' BY <1>1
<1>6. \A c, d \in clients' : id'[c] = id'[d] => c = d BY <1>1 DEF OneWriter
<1>7. \A c \in clients : isWriter'[c] => isWriter[c] /\ m # "takeover"
  BY <1>1 DEF attach
<1>8. isWriter'[s] => m = "takeover" \/ CurrentWriter = {}
  BY DEF attach
<1>9. \A c, d \in clients' : isWriter'[c] /\ isWriter'[d] => c = d
  <2> SUFFICES ASSUME NEW c \in clients', NEW d \in clients', isWriter'[c], isWriter'[d]
               PROVE  c = d
    OBVIOUS
  <2>1. CASE c \in clients /\ d \in clients BY <2>1, <1>7 DEF OneWriter
  <2>2. CASE c = s /\ d \in clients BY <2>2, <1>7, <1>8 DEF CurrentWriter
  <2>3. CASE c \in clients /\ d = s BY <2>3, <1>7, <1>8 DEF CurrentWriter
  <2> QED BY <2>1, <2>2, <2>3, <1>1
<1> QED BY <1>3, <1>4, <1>5, <1>6, <1>9 DEF OneWriter

LEMMA HubStep == HubInv /\ [Next]_vars => HubInv'
<1> SUFFICES ASSUME HubInv, [Next]_vars PROVE HubInv' OBVIOUS
<1> USE DEF hubVars, sessVars
<1>0. pc \in [Session -> PC] BY DEF HubInv, HubType
<1>1. ASSUME NEW s \in Session, NEW m \in Mode, dispatch_attach_console(s, m)
      PROVE  HubInv'
  <2>1. pc' \in [Session -> PC] BY <1>1, <1>0 DEF dispatch_attach_console, PC
  <2>2. /\ UNCHANGED <<clients, isWriter, id, nextId>>
        /\ \A t \in Session : pc'[t] \in {"new", "got"} => pc[t] \in {"new", "got"}
    BY <1>1, <1>0 DEF dispatch_attach_console
  <2> QED BY <2>1, <2>2, ShrinkingHub
<1>2. ASSUME NEW s \in Session, NEW m \in Mode, attach(s, m) PROVE HubInv'
  BY <1>2, AttachKeepsInv
<1>3. ASSUME NEW s \in Session, Detach(s) PROVE HubInv'
  <2>1. /\ clients' \subseteq clients /\ UNCHANGED <<isWriter, id, nextId>>
        /\ pc' = [pc EXCEPT ![s] = "done"]
    BY <1>3 DEF Detach, Without
  <2>2. pc' \in [Session -> PC] BY <2>1, <1>0 DEF PC
  <2>3. \A t \in Session : pc'[t] \in {"new", "got"} => pc[t] \in {"new", "got"}
    BY <2>1, <1>0
  <2> QED BY <2>1, <2>2, <2>3, ShrinkingHub
<1>4. ASSUME NEW s \in Session,
             \/ reply_attached(s) \/ write_scrollback(s) \/ ReplayFails(s)
             \/ spawn_reader(s) \/ PostMortemDone(s) \/ client_reader_main(s)
      PROVE  HubInv'
  <2>1. CASE Detach(s) BY <2>1, <1>3
  <2>2. CASE ~Detach(s)
    <3>1. /\ UNCHANGED <<clients, isWriter, id, nextId>>
          /\ \/ pc' = pc
             \/ \E q \in {"replay", "reader", "forward", "done"} : pc' = [pc EXCEPT ![s] = q]
      BY <2>2, <1>4 DEF reply_attached, write_scrollback, ReplayFails, spawn_reader,
         PostMortemDone, client_reader_main, ReadChunk, ForwardChunk, ReadEof
    <3>2. pc' \in [Session -> PC] BY <3>1, <1>0 DEF PC
    <3>3. \A t \in Session : pc'[t] \in {"new", "got"} => pc[t] \in {"new", "got"}
      BY <3>1, <1>0
    <3> QED BY <3>1, <3>2, <3>3, ShrinkingHub
  <2> QED BY <2>1, <2>2
<1>5. ASSUME NEW k \in 1..MaxChunk, push_chip_output(k) PROVE HubInv'
  <2>1. clients' \subseteq clients /\ UNCHANGED <<isWriter, id, nextId, pc>>
    BY <1>5 DEF push_chip_output
  <2> QED BY <2>1, <1>0, ShrinkingHub
<1>6. CASE internal_stop \/ ParkDisconnect \/ clear_scrollback \/ StopTake
  <2>1. clients' \subseteq clients /\ UNCHANGED <<isWriter, id, nextId, pc>>
    BY <1>6 DEF internal_stop, StopDisconnect, disconnect_all_with_reason, StopTail, StopJoin,
                ParkDisconnect, clear_scrollback, StopTake
  <2> QED BY <2>1, <1>0, ShrinkingHub
<1>7. ASSUME NEW s \in Session, ClientReads(s) \/ ClientTypes(s) \/ ClientCloses(s)
      PROVE  HubInv'
  <2>1. clients' \subseteq clients /\ UNCHANGED <<isWriter, id, nextId, pc>>
    BY <1>7 DEF ClientReads, ClientTypes, ClientCloses
  <2> QED BY <2>1, <1>0, ShrinkingHub
<1>8. CASE UNCHANGED vars
  <2>1. clients' \subseteq clients /\ UNCHANGED <<isWriter, id, nextId, pc>>
    BY <1>8 DEF vars
  <2> QED BY <2>1, <1>0, ShrinkingHub
<1> QED BY <1>1, <1>2, <1>4, <1>5, <1>6, <1>7, <1>8 DEF Next, Handler

LEMMA HubInit == Init => HubInv
BY DEF Init, HubInv, HubType, OneWriter, PC

\* At most one attached client owns the writer role and ids are distinct, whatever
\* the number of sessions: attach, detach and drop in console_hub.rs.
THEOREM OneWriterHolds == Spec => []OneWriter
<1>1. HubInv => OneWriter BY DEF HubInv
<1> QED BY HubInit, HubStep, <1>1, PTL DEF Spec

\* The writer role moves only by an attach: the match on ConsoleMode in
\* ConsoleHub::attach is the only place that changes it.
THEOREM RoleMoves == Spec => RoleMovesByAttachOnly
<1> DEFINE Move == \A c \in clients \cap clients' :
                     /\ isWriter'[c] => isWriter[c]
                     /\ isWriter[c] /\ ~isWriter'[c] =>
                          \E d \in clients' \ clients : isWriter'[d]
<1>1. HubInv /\ [Next]_vars => [Move]_vars
  <2> SUFFICES ASSUME HubInv, Next PROVE Move OBVIOUS
  <2>1. CASE \E s \in Session, m \in Mode : attach(s, m)
    <3> PICK s \in Session, m \in Mode : attach(s, m) BY <2>1
    <3>1. clients' = clients \cup {s} /\ s \notin clients
      BY DEF attach, HubInv
    <3>2. \A c \in clients : /\ isWriter'[c] => isWriter[c]
                             /\ isWriter[c] /\ ~isWriter'[c] => m = "takeover"
      BY <3>1 DEF attach, HubInv, HubType
    <3>3. m = "takeover" => isWriter'[s] BY DEF attach
    <3> QED BY <3>1, <3>2, <3>3
  <2>2. CASE ~ \E s \in Session, m \in Mode : attach(s, m)
    <3>1. UNCHANGED isWriter
      BY <2>2 DEF Next, Handler, hubVars, dispatch_attach_console, Detach, reply_attached,
         write_scrollback, ReplayFails, spawn_reader, PostMortemDone, client_reader_main,
         ReadChunk, ForwardChunk, ReadEof, push_chip_output, internal_stop, StopTail,
         StopDisconnect, ParkDisconnect, disconnect_all_with_reason, StopJoin,
         clear_scrollback, StopTake, ClientReads,
         ClientTypes, ClientCloses
    <3> QED BY <3>1
  <2> QED BY <2>1, <2>2
<1> QED BY HubInit, HubStep, <1>1, PTL DEF Spec, RoleMovesByAttachOnly
=============================================================================
