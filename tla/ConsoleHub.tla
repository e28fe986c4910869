----------------------------- MODULE ConsoleHub -----------------------------
(***************************************************************************)
(* The console of one L2CPU for the life of one slot: the ConsoleHub that   *)
(* fans chip output out to attached clients (daemon/console_hub.rs), the    *)
(* AttachConsole handler and the reader thread it leaves behind             *)
(* (daemon/server.rs), and the part of internal_stop that disconnects the   *)
(* clients and captures the post-mortem tail.                               *)
(*                                                                         *)
(* A chip byte is its sequence number, so a stream can be compared with     *)
(* what the chip produced; Bye stands for the goodbye line.  out[s] is all  *)
(* that was ever written to the daemon end of session s's socketpair, and   *)
(* nread[s] how much of it the client has read: the difference is what sits *)
(* in the socket buffer.  The slot has no virtio-console, the default.      *)
(***************************************************************************)
EXTENDS Integers, Sequences

CONSTANTS Session,     \* AttachConsole requests, one socketpair each
          Scrollback,  \* SCROLLBACK_BYTES
          TailBytes,   \* SHUTDOWN_TAIL_BYTES
          SndBuf,      \* what a socket buffers before send() would block
          MaxChip,     \* bound: bytes the chip produces
          MaxChunk,    \* bound: bytes one push_chip_output carries
          MaxTyped,    \* bound: chunks a client types
          MaxPark      \* bound: times the guest powers off

ASSUME SizesAssumption == /\ Scrollback \in Nat \ {0}
                          /\ TailBytes \in Nat \ {0}
                          /\ SndBuf \in Nat \ {0}
                          /\ MaxChip \in Nat /\ MaxChunk \in Nat /\ MaxTyped \in Nat
                          /\ MaxPark \in Nat

VARIABLES clients,   \* HubState.clients: the sessions whose Client the hub holds
          isWriter,  \* Client.is_writer
          id,        \* Client.id, 0 before the attach
          nextId,    \* HubState.next_id
          scroll,    \* HubState.scrollback
          chip,      \* bytes the chip has produced so far
          pc,        \* where the handler, then the reader thread, of a session is
          snap,      \* the scrollback copy hub.attach returned to the handler
          nsent,     \* how much of it write_scrollback has written
          from,      \* the value of chip when hub.attach returned
          out, nread, \* the socket towards the client
          open,      \* the client still holds its end
          shut,      \* the hub shut the socket down in both directions
          typed,     \* chunks of keystrokes the client may still send
          inbox,     \* chunks the client has sent and the daemon has not read
          input,     \* chunks of each session forwarded to console_input_tx
          parks,     \* times the guest has powered off
          parking,   \* uart_pass has disconnected the clients of a parked guest and
                     \* not yet thrown the scrollback away
          stopPc,    \* progress of internal_stop
          tail       \* DaemonState.shutdown_tails of this core

hubVars  == <<clients, isWriter, id, nextId, scroll>>
sessVars == <<pc, snap, nsent, from>>
sockVars == <<out, nread, open, shut>>
keyVars  == <<typed, inbox, input>>
stopVars == <<parks, parking, stopPc, tail>>
vars == <<hubVars, chip, sessVars, sockVars, keyVars, stopVars>>

Bye == 0
Mode == {"ro", "rw", "takeover"}
\* "got": the handler has cloned the slot's hub; "attached": in the hub, reply
\* not sent; "replay": in write_scrollback; "reader": reader thread in read();
\* "forward": reader has seen it is the writer, bytes not sent yet; "pm": the
\* post-mortem replay; "done": no thread of the daemon serves this session.
PC == {"new", "got", "attached", "replay", "reader", "forward", "pm", "done"}

TypeOK ==
  /\ clients \subseteq Session
  /\ isWriter \in [Session -> BOOLEAN]
  /\ id \in [Session -> Nat]
  /\ nextId \in Nat \ {0}
  /\ scroll \in Seq(Nat) /\ Len(scroll) <= Scrollback
  /\ chip \in 0..MaxChip
  /\ pc \in [Session -> PC]
  /\ snap \in [Session -> Seq(Nat)]
  /\ nsent \in [Session -> Nat]
  /\ from \in [Session -> Nat]
  /\ out \in [Session -> Seq(Nat)]
  /\ nread \in [Session -> Nat]
  /\ \A s \in Session : Len(out[s]) - nread[s] \in 0..SndBuf
  /\ open \in [Session -> BOOLEAN]
  /\ shut \in [Session -> BOOLEAN]
  /\ typed \in [Session -> 0..MaxTyped]
  /\ inbox \in [Session -> 0..MaxTyped]
  /\ input \in [Session -> 0..MaxTyped]
  /\ parks \in 0..MaxPark /\ parking \in BOOLEAN
  /\ stopPc \in {"up", "taken", "disconnected", "captured", "joined"}
  /\ tail \in Seq(Nat) /\ Len(tail) <= TailBytes

-----------------------------------------------------------------------------
\* The last n elements of q: what is left of a VecDeque bounded by pop_front,
\* and what ConsoleHub::tail copies.
LastN(q, n) == SubSeq(q, IF Len(q) > n THEN Len(q) - n + 1 ELSE 1, Len(q))

\* Mutants: the ring is never trimmed, or is trimmed at the wrong end.
Untrimmed(bytes) == scroll \o bytes
TrimsNewest(bytes) == SubSeq(scroll \o bytes, 1, IF Len(scroll \o bytes) > Scrollback
                                                 THEN Scrollback ELSE Len(scroll \o bytes))

AppendScrollback(bytes) == LastN(scroll \o bytes, Scrollback)

CurrentWriter == {c \in clients : isWriter[c]}

\* ConsoleHub::detach: every client with that id leaves.
Without(i) == {c \in clients : id[c] # i}

Room(s) == SndBuf - (Len(out[s]) - nread[s])
Writable(s) == open[s] /\ ~shut[s]

\* The daemon end of the socketpair has two fds: the hub's Client and the
\* handler's / reader's clone.  The hub itself lives as long as the slot, the
\* slot's workers or a session thread hold an Arc to it.
Serving(s) == pc[s] \in {"attached", "replay", "reader", "forward", "pm"}
HubAlive == stopPc # "joined" \/ \E s \in Session : Serving(s)
HubHoldsFd(s) == s \in clients /\ HubAlive
Eof(s) == shut[s] \/ (~HubHoldsFd(s) /\ ~Serving(s))

Init ==
  /\ clients = {} /\ nextId = 1 /\ scroll = <<>> /\ chip = 0
  /\ isWriter = [s \in Session |-> FALSE]
  /\ id = [s \in Session |-> 0]
  /\ pc = [s \in Session |-> "new"]
  /\ snap = [s \in Session |-> <<>>]
  /\ nsent = [s \in Session |-> 0]
  /\ from = [s \in Session |-> 0]
  /\ out = [s \in Session |-> <<>>]
  /\ nread = [s \in Session |-> 0]
  /\ open = [s \in Session |-> TRUE]
  /\ shut = [s \in Session |-> FALSE]
  /\ typed = [s \in Session |-> MaxTyped]
  /\ inbox = [s \in Session |-> 0]
  /\ input = [s \in Session |-> 0]
  /\ parks = 0 /\ parking = FALSE /\ stopPc = "up" /\ tail = <<>>

-----------------------------------------------------------------------------
(* The AttachConsole handler. *)

\* The slot lock is held only to clone the Arcs out of the slot.  Without a slot
\* the request goes to the post-mortem path, which refuses writers and an
\* empty tail.
dispatch_attach_console(s, mode) ==
  /\ pc[s] = "new"
  /\ \/ /\ stopPc = "up"
        /\ pc' = [pc EXCEPT ![s] = "got"]
        /\ UNCHANGED snap
     \/ /\ stopPc # "up" /\ mode = "ro" /\ tail # <<>>
        /\ pc' = [pc EXCEPT ![s] = "pm"]
        /\ snap' = [snap EXCEPT ![s] = tail]
     \/ /\ stopPc # "up" /\ (mode # "ro" \/ tail = <<>>)
        /\ pc' = [pc EXCEPT ![s] = "done"]
        /\ UNCHANGED snap
  /\ UNCHANGED <<hubVars, chip, nsent, from, sockVars, keyVars, stopVars>>

\* Mutants: takeover leaves the old writer its role; takeover takes the role away and
\* then waits its turn for it.
AttachDemotesNobody(s, mode) ==
  /\ pc[s] = "got"
  /\ id' = [id EXCEPT ![s] = nextId]
  /\ nextId' = nextId + 1
  /\ isWriter' = [c \in Session |->
                    CASE c = s -> mode = "takeover" \/ (mode = "rw" /\ CurrentWriter = {})
                      [] c # s -> isWriter[c]]
  /\ clients' = clients \cup {s}
  /\ snap' = [snap EXCEPT ![s] = scroll]
  /\ from' = [from EXCEPT ![s] = chip]
  /\ pc' = [pc EXCEPT ![s] = "attached"]
  /\ UNCHANGED <<scroll, chip, nsent, sockVars, keyVars, stopVars>>

AttachDemotesOnly(s, mode) ==
  /\ pc[s] = "got"
  /\ id' = [id EXCEPT ![s] = nextId]
  /\ nextId' = nextId + 1
  /\ isWriter' = [c \in Session |->
                    CASE c = s -> mode # "ro" /\ CurrentWriter = {}
                      [] c # s -> isWriter[c] /\ ~(mode = "takeover" /\ c \in clients)]
  /\ clients' = clients \cup {s}
  /\ snap' = [snap EXCEPT ![s] = scroll]
  /\ from' = [from EXCEPT ![s] = chip]
  /\ pc' = [pc EXCEPT ![s] = "attached"]
  /\ UNCHANGED <<scroll, chip, nsent, sockVars, keyVars, stopVars>>

attach(s, mode) ==
  /\ pc[s] = "got"
  /\ id' = [id EXCEPT ![s] = nextId]
  /\ nextId' = nextId + 1
  /\ isWriter' = [c \in Session |->
                    CASE c = s -> mode = "takeover" \/ (mode = "rw" /\ CurrentWriter = {})
                      [] c # s -> isWriter[c] /\ ~(mode = "takeover" /\ c \in clients)]
  /\ clients' = clients \cup {s}
  /\ snap' = [snap EXCEPT ![s] = scroll]
  /\ from' = [from EXCEPT ![s] = chip]
  /\ pc' = [pc EXCEPT ![s] = "attached"]
  /\ UNCHANGED <<scroll, chip, nsent, sockVars, keyVars, stopVars>>

Detach(s) == /\ clients' = Without(id[s])
             /\ pc' = [pc EXCEPT ![s] = "done"]
             /\ UNCHANGED <<isWriter, id, nextId, scroll, chip, snap, nsent, from,
                            sockVars, keyVars, stopVars>>

\* write_frame(Attached) and send_fd: on an error the client is detached again
\* and the handler returns.
reply_attached(s) ==
  /\ pc[s] = "attached"
  /\ \/ /\ pc' = [pc EXCEPT ![s] = "replay"]
        /\ UNCHANGED <<hubVars, chip, snap, nsent, from, sockVars, keyVars, stopVars>>
     \/ Detach(s)

\* One write() of write_all: blocks while the buffer is full.
write_scrollback(s) ==
  /\ pc[s] \in {"replay", "pm"} /\ nsent[s] < Len(snap[s])
  /\ Writable(s) /\ Room(s) > 0
  /\ nsent' = [nsent EXCEPT ![s] = @ + 1]
  /\ out' = [out EXCEPT ![s] = Append(@, snap[s][nsent[s] + 1])]
  /\ UNCHANGED <<hubVars, chip, pc, snap, from, nread, open, shut, keyVars, stopVars>>

\* Mutant: a write error is retried.
ReplayRetries(s) == pc[s] = "replay" /\ ~Writable(s) /\ UNCHANGED vars

ReplayFails(s) == pc[s] = "replay" /\ nsent[s] < Len(snap[s]) /\ ~Writable(s) /\ Detach(s)

spawn_reader(s) ==
  /\ pc[s] = "replay" /\ nsent[s] = Len(snap[s])
  /\ pc' = [pc EXCEPT ![s] = "reader"]
  /\ UNCHANGED <<hubVars, chip, snap, nsent, from, sockVars, keyVars, stopVars>>

\* Replay of the tail over, or failed: both ends are shut down.
PostMortemDone(s) ==
  /\ pc[s] = "pm" /\ (nsent[s] = Len(snap[s]) \/ ~Writable(s))
  /\ shut' = [shut EXCEPT ![s] = TRUE]
  /\ pc' = [pc EXCEPT ![s] = "done"]
  /\ UNCHANGED <<hubVars, chip, snap, nsent, from, out, nread, open, keyVars, stopVars>>

-----------------------------------------------------------------------------
(* client_reader_main. *)

\* read() returns a chunk; the writer check decides whether it is forwarded.
ReadChunk(s) ==
  /\ pc[s] = "reader" /\ inbox[s] > 0
  /\ inbox' = [inbox EXCEPT ![s] = @ - 1]
  /\ pc' = [pc EXCEPT ![s] = IF \E c \in CurrentWriter : id[c] = id[s]
                             THEN "forward" ELSE "reader"]
  /\ UNCHANGED <<hubVars, chip, snap, nsent, from, sockVars, typed, input, stopVars>>

\* input_tx.send: fails once the chip-console worker, which owns the receiver,
\* is gone; the thread then returns without detaching.
ForwardChunk(s) ==
  /\ pc[s] = "forward"
  /\ \/ /\ stopPc # "joined"
        /\ input' = [input EXCEPT ![s] = @ + 1]
        /\ pc' = [pc EXCEPT ![s] = "reader"]
     \/ /\ stopPc = "joined"
        /\ pc' = [pc EXCEPT ![s] = "done"]
        /\ UNCHANGED input
  /\ UNCHANGED <<hubVars, chip, snap, nsent, from, sockVars, typed, inbox, stopVars>>


ReadEof(s) ==
  /\ pc[s] = "reader" /\ inbox[s] = 0 /\ (~open[s] \/ shut[s])
  /\ Detach(s)

client_reader_main(s) == ReadChunk(s) \/ ForwardChunk(s) \/ ReadEof(s)

-----------------------------------------------------------------------------
(* The chip-console worker, and internal_stop. *)

Min2(a, b) == IF a < b THEN a ELSE b

\* send_all_dontwait of k bytes: what fits goes out, and the client stays only if
\* all of it did.
Fits(s, k) == Writable(s) /\ Room(s) >= k
Sent(s, bytes) == IF Writable(s) THEN SubSeq(bytes, 1, Min2(Len(bytes), Room(s))) ELSE <<>>

\* Mutant: a client whose send was cut short stays in the fan-out.
PushKeepsPartial(k) ==
  LET bytes == [i \in 1..k |-> chip + i] IN
  /\ stopPc # "joined" /\ chip + k <= MaxChip
  /\ chip' = chip + k
  /\ scroll' = AppendScrollback(bytes)
  /\ out' = [s \in Session |-> IF s \in clients THEN out[s] \o Sent(s, bytes) ELSE out[s]]
  /\ clients' = clients
  /\ UNCHANGED <<isWriter, id, nextId, sessVars, nread, open, shut, keyVars, stopVars>>

push_chip_output(k) ==
  LET bytes == [i \in 1..k |-> chip + i] IN
  /\ stopPc # "joined" /\ chip + k <= MaxChip
  /\ chip' = chip + k
  /\ scroll' = AppendScrollback(bytes)
  /\ out' = [s \in Session |-> IF s \in clients THEN out[s] \o Sent(s, bytes) ELSE out[s]]
  /\ clients' = {s \in clients : Fits(s, k)}
  /\ UNCHANGED <<isWriter, id, nextId, sessVars, nread, open, shut, keyVars, stopVars>>

disconnect_all_with_reason ==
  /\ scroll' = AppendScrollback(<<Bye>>)
  /\ out' = [s \in Session |-> IF s \in clients THEN out[s] \o Sent(s, <<Bye>>) ELSE out[s]]
  /\ shut' = [s \in Session |-> shut[s] \/ s \in clients]
  /\ clients' = {}
  /\ UNCHANGED <<isWriter, id, nextId, chip, sessVars, nread, open, keyVars>>

\* The guest powered off and parked: the clients get their goodbye, and the
\* scrollback of the dead kernel is thrown away under a second lock.  The
\* worker finishes this pass before L2CpuSlot::shutdown can join it.
ParkDisconnect ==
  /\ stopPc # "joined" /\ ~parking /\ parks < MaxPark
  /\ parks' = parks + 1 /\ parking' = TRUE
  /\ disconnect_all_with_reason
  /\ UNCHANGED <<stopPc, tail>>

clear_scrollback ==
  /\ parking /\ parking' = FALSE
  /\ scroll' = <<>>
  /\ UNCHANGED <<clients, isWriter, id, nextId, chip, sessVars, sockVars, keyVars, parks, stopPc, tail>>

StopTake == /\ stopPc = "up" /\ stopPc' = "taken"
            /\ UNCHANGED <<hubVars, chip, sessVars, sockVars, keyVars, parks, parking, tail>>

StopDisconnect == /\ stopPc = "taken" /\ stopPc' = "disconnected"
                  /\ disconnect_all_with_reason
                  /\ UNCHANGED <<parks, parking, tail>>

StopTail == /\ stopPc = "disconnected" /\ stopPc' = "captured"
            /\ tail' = LastN(scroll, TailBytes)
            /\ UNCHANGED <<hubVars, chip, sessVars, sockVars, keyVars, parks, parking>>

\* L2CpuSlot::shutdown joins the workers; nothing produces output afterwards.
StopJoin == /\ stopPc = "captured" /\ ~parking /\ stopPc' = "joined"
            /\ UNCHANGED <<hubVars, chip, sessVars, sockVars, keyVars, parks, parking, tail>>

internal_stop == StopDisconnect \/ StopTail \/ StopJoin

-----------------------------------------------------------------------------
(* The clients (terminal pump). *)

ClientReads(s) ==
  /\ open[s] /\ nread[s] < Len(out[s]) /\ pc[s] \notin {"new", "got", "attached"}
  /\ nread' = [nread EXCEPT ![s] = @ + 1]
  /\ UNCHANGED <<hubVars, chip, sessVars, out, open, shut, keyVars, stopVars>>

ClientTypes(s) ==
  /\ Writable(s) /\ typed[s] > 0 /\ pc[s] \in {"replay", "reader", "forward"}
  /\ typed' = [typed EXCEPT ![s] = @ - 1]
  /\ inbox' = [inbox EXCEPT ![s] = @ + 1]
  /\ UNCHANGED <<hubVars, chip, sessVars, sockVars, input, stopVars>>

\* Ctrl-A x, or the reply of a refused or failed attach.
ClientCloses(s) ==
  /\ open[s] /\ pc[s] \notin {"new", "got"}
  /\ open' = [open EXCEPT ![s] = FALSE]
  /\ UNCHANGED <<hubVars, chip, sessVars, out, nread, shut, keyVars, stopVars>>

-----------------------------------------------------------------------------
Handler(s) ==
  \/ \E m \in Mode : attach(s, m)
  \/ reply_attached(s) \/ write_scrollback(s) \/ ReplayFails(s)
  \/ spawn_reader(s) \/ PostMortemDone(s) \/ client_reader_main(s)

Next ==
  \/ \E s \in Session : \/ \E m \in Mode : dispatch_attach_console(s, m)
                        \/ Handler(s)
                        \/ ClientReads(s) \/ ClientTypes(s) \/ ClientCloses(s)
  \/ \E k \in 1..MaxChunk : push_chip_output(k)
  \/ ParkDisconnect \/ clear_scrollback \/ StopTake \/ internal_stop

Spec == Init /\ [][Next]_vars

\* Threads the daemon has started keep running; a client that holds its end keeps
\* reading.  Operators, the guest and the decision to stop are not fair.
FairSpec == /\ Spec
            /\ \A s \in Session : WF_vars(Handler(s)) /\ WF_vars(ClientReads(s))
            /\ WF_vars(internal_stop) /\ WF_vars(clear_scrollback)

-----------------------------------------------------------------------------
(* Properties. *)

\* ConsoleHub::attach with first-writer-wins, takeover and detach by id: whatever
\* the interleaving of attaches, drops and detaches, at most one attached client
\* owns the writer role, and ids tell the attached clients apart.
OneWriter ==
  /\ \A c, d \in clients : isWriter[c] /\ isWriter[d] => c = d
  /\ \A c, d \in clients : id[c] = id[d] => c = d

\* attach snapshots the scrollback and joins the fan-out under one lock, so the
\* replay and the live stream meet without a gap or a duplicate: what a client
\* was sent live is exactly the chip's output since its attach, all of it
\* while the hub still holds the client, and what it was replayed is a
\* prefix of the snapshot.
StreamComplete ==
  \A s \in Session : pc[s] \in {"attached", "replay", "reader", "forward"} =>
    LET live   == SelectSeq(out[s], LAMBDA b : b > from[s])
        replay == SelectSeq(out[s], LAMBDA b : b \in 1..from[s])
    IN  /\ live = [i \in 1..Len(live) |-> from[s] + i]
        /\ s \in clients => Len(live) = chip - from[s]
        /\ replay = SelectSeq(SubSeq(snap[s], 1, nsent[s]), LAMBDA b : b # Bye)

\* push_chip_output and disconnect_all bound the ring by dropping the oldest bytes:
\* the scrollback is always a contiguous run ending at the newest byte, so no
\* byte in the middle of a replay is ever missing.
ScrollbackContiguous ==
  LET s == SelectSeq(scroll, LAMBDA b : b # Bye)
  IN  s # <<>> => s = [i \in 1..Len(s) |-> chip - Len(s) + i]

\* The role moves only by takeover: a client that stays attached never becomes the
\* writer later (nobody is promoted when the writer leaves), and a writer that
\* stays attached loses the role only to a client that attached in that step.
RoleMovesByAttachOnly ==
  [][\A c \in clients \cap clients' :
        /\ isWriter'[c] => isWriter[c]
        /\ isWriter[c] /\ ~isWriter'[c] =>
              \E d \in clients' \ clients : isWriter'[d]]_vars


\* Every AttachConsole handler finishes: the blocking replay ends because the client
\* reads, closes or is shut down.
ReplayEnds == \A s \in Session : pc[s] \in {"got", "attached", "replay", "pm"} ~>
                                 pc[s] \in {"reader", "forward", "done"}
-----------------------------------------------------------------------------
(* What comments in the code say of the console, and the code does not do. *)

\* console_hub.rs, lines 9 to 11: a client dropped by push_chip_output sees EOF.
DroppedClientSeesEof ==
  \A s \in Session : (pc[s] \in {"reader", "forward"} /\ s \notin clients) ~>
                     (Eof(s) \/ ~open[s])

\* terminal.rs, pump: the first scrollback_bytes read from the fd are the replay.
ReplayComesFirst ==
  \A s \in Session : s \in clients =>
     \A i \in 1..Min2(Len(out[s]), Len(snap[s])) : out[s][i] = snap[s][i]

\* console_hub.rs, disconnect_all_with_reason: after a stop no connected client
\* hangs silently.
StoppedSlotDisconnects ==
  \A s \in Session : (stopPc = "joined" /\ pc[s] = "reader") ~> (Eof(s) \/ ~open[s])

\* console_hub.rs, disconnect_all_with_reason: the tail captured afterwards ends
\* with the goodbye line.
TailEndsWithGoodbye ==
  stopPc \in {"captured", "joined"} => tail # <<>> /\ tail[Len(tail)] = Bye

\* console_hub.rs, header: the reader forwards keystrokes only if the client
\* currently owns the writer role.
OnlyWriterForwards ==
  [][\A s \in Session : input'[s] > input[s] => s \in CurrentWriter]_vars
=============================================================================
