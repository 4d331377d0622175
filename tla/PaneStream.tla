----------------------------- MODULE PaneStream -----------------------------
(***************************************************************************)
(* The output of one daemon-owned pane on its way to the screen:           *)
(*   the PTY reader thread pushes chunks into the pane's buffer and fans   *)
(*   them out to bounded queues (core/supervisor: lib.rs, subscribers.rs); *)
(*   a daemon thread per connection attaches a subscription and drains its *)
(*   queue into frames on the socket (core/daemon/src/server.rs);          *)
(*   the app's reader thread applies the frames to a StreamBuf, dialing    *)
(*   again when a connection ends (app/src-tauri/src/daemon_stream.rs);    *)
(*   the frontend polls that buffer with a byte cursor (lib.rs, main.js).  *)
(*                                                                         *)
(* Two connections exist because the daemon may still serve the one the    *)
(* app has hung up on.  Keepalives, Detach and the stop flag of a closed   *)
(* pane change nothing here.                                               *)
(***************************************************************************)
EXTENDS PaneBuffer, FiniteSets

CONSTANTS
  Conns,       \* connections, used again after both ends are closed
  NoConn,      \* the app's reader has no connection
  SubCapacity, \* DEFAULT_SUB_CAPACITY, in chunks
  MaxChunk,    \* the reader thread's read size
  MaxBytes,    \* bound: bytes the pane ever writes
  MaxBreaks,   \* bound: connections that break by themselves
  MaxReloads   \* bound: reloads of the app's window

ASSUME StreamAssumption ==
  /\ NoConn \notin Conns
  /\ SubCapacity \in Nat \ {0} /\ MaxChunk \in Nat \ {0}
  /\ MaxBytes \in Nat /\ MaxBreaks \in Nat /\ MaxReloads \in Nat
  /\ \A lead \in Leads : lead < MaxBytes => \E e \in lead + 1 .. lead + 4 : e \in Leads

VARIABLES
  buffer,  \* daemon: the pane's PaneBuffer
  alive,   \* daemon: the pane is in the map and its child runs
  eof,     \* daemon: SubscriberSet.dead, the reader thread is gone
  server,  \* daemon, per connection: what its thread does next
  subs,    \* daemon: the registered subscriptions, by connection
  queue,   \* daemon, per connection: chunks fanned out, not yet drained
  wire,    \* per connection: frames sent, not yet read
  peer,    \* per connection: the app's end is open
  reader,  \* app: the reader thread, "idle", "reading" or "dead"
  dialed,  \* app: its connection
  view,    \* app: StreamBuf
  term,    \* frontend: cursor and screen
  reply,   \* frontend: the read in flight, {} or one payload
  breaks, reloads

daemonVars == <<buffer, alive, eof, server, subs, queue>>
connVars == <<server, subs, queue, wire, peer>>
appVars == <<reader, dialed, view>>
uiVars == <<term, reply, reloads>>
vars == <<daemonVars, wire, peer, appVars, uiVars, breaks>>

Unattached == -1   \* StreamBuf.last_total before the first snapshot

Snapshot(b) == [kind |-> "snapshot", from |-> b.base, to |-> End(b)]
Chunk(lo, hi) == [kind |-> "delta", from |-> lo, to |-> hi]
Frame(kind) == [kind |-> kind, from |-> 0, to |-> 0]
Frames == [kind : {"streaming", "refused", "snapshot", "delta", "overflow", "died"},
           from : 0 .. MaxBytes, to : 0 .. MaxBytes]

\* Type invariant: the shape of every variable, no queue longer than its
\* channel, no buffer beyond its cap and the slack compaction leaves.
StreamTypeOK ==
  /\ buffer.base \in 0 .. MaxBytes
  /\ Len(buffer.bytes) <= RetainCap + RetainCap \div 2
  /\ alive \in BOOLEAN /\ eof \in BOOLEAN
  /\ server \in [Conns -> {"free", "request", "gated", "streaming", "classify", "awaiting"}]
  /\ subs \subseteq Conns
  /\ \A c \in Conns : /\ queue[c] \in Seq(Frames) /\ Len(queue[c]) <= SubCapacity
                      /\ wire[c] \in Seq(Frames)
  /\ peer \in [Conns -> BOOLEAN]
  /\ reader \in {"idle", "reading", "dead"}
  /\ dialed \in Conns \cup {NoConn}
  /\ view.last \in 0 .. MaxBytes \cup {Unattached}
  /\ view.genBase \in Nat /\ view.buf.base \in Nat
  /\ Len(view.buf.bytes) <= RetainCap + RetainCap \div 2
  /\ term.consumed \in Nat
  /\ Cardinality(reply) <= 1
  /\ breaks \in 0 .. MaxBreaks /\ reloads \in 0 .. MaxReloads

Init ==
  /\ buffer = EmptyBuffer /\ alive = TRUE /\ eof = FALSE
  /\ server = [c \in Conns |-> "free"]
  /\ subs = {}
  /\ queue = [c \in Conns |-> <<>>] /\ wire = [c \in Conns |-> <<>>]
  /\ peer = [c \in Conns |-> FALSE]
  /\ reader = "idle" /\ dialed = NoConn
  /\ view = [buf |-> EmptyBuffer, genBase |-> 0, last |-> Unattached]
  /\ term = EmptyTerminal /\ reply = {}
  /\ breaks = 0 /\ reloads = 0

-----------------------------------------------------------------------------
(* The pane *)

Full(c) == Len(queue[c]) = SubCapacity

\* Mutant: a full queue loses the chunk, the subscriber stays.
FanoutLossy(n) ==
  /\ ~eof /\ End(buffer) + n <= MaxBytes
  /\ LET from == End(buffer) IN
       /\ buffer' = Push(buffer, Run(from, from + n))
       /\ queue' = [c \in Conns |-> IF c \in subs /\ ~Full(c)
                                      THEN Append(queue[c], Chunk(from, from + n))
                                      ELSE queue[c]]
  /\ UNCHANGED <<alive, eof, server, subs, wire, peer, appVars, uiVars, breaks>>

\* push_and_fanout, under the buffer lock: a subscriber whose queue is full is
\* dropped, what it already holds stays readable.
PushAndFanout(n) ==
  /\ ~eof /\ End(buffer) + n <= MaxBytes
  /\ LET from == End(buffer) IN
       /\ buffer' = Push(buffer, Run(from, from + n))
       /\ queue' = [c \in Conns |-> IF c \in subs /\ ~Full(c)
                                      THEN Append(queue[c], Chunk(from, from + n))
                                      ELSE queue[c]]
  /\ subs' = {c \in subs : ~Full(c)}
  /\ UNCHANGED <<alive, eof, server, wire, peer, appVars, uiVars, breaks>>

\* The child exits, or the reaper or a Close takes the pane out of the map.
PaneExits ==
  /\ alive
  /\ alive' = FALSE
  /\ UNCHANGED <<buffer, eof, connVars, appVars, uiVars, breaks>>

\* Mutant: the reader thread ends without close_all.
EndUnannounced ==
  /\ ~eof
  /\ eof' = TRUE
  /\ UNCHANGED <<buffer, alive, connVars, appVars, uiVars, breaks>>

\* End of file on the PTY: close_all.  It may come before the exit shows.
CloseSubscribers ==
  /\ ~eof
  /\ eof' = TRUE
  /\ subs' = {}
  /\ UNCHANGED <<buffer, alive, server, queue, wire, peer, appVars, uiVars, breaks>>

-----------------------------------------------------------------------------
(* A connection thread of the daemon *)

Send(c, frames) == wire' = [wire EXCEPT ![c] = @ \o frames]
Serve(c, step) == server' = [server EXCEPT ![c] = step]

\* SupRouter::attach: the liveness gate, under the map lock.
AttachGate(c) ==
  /\ server[c] = "request"
  /\ \/ alive /\ Serve(c, "gated") /\ UNCHANGED wire
     \/ ~alive /\ Serve(c, "awaiting") /\ Send(c, <<Frame("refused")>>)
  /\ UNCHANGED <<buffer, alive, eof, subs, queue, peer, appVars, uiVars, breaks>>

\* Mutant: no dead check.
SubscribeUnfenced(c) ==
  /\ server[c] = "gated"
  /\ Serve(c, "streaming")
  /\ subs' = subs \cup {c}
  /\ Send(c, <<Frame("streaming"), Snapshot(buffer)>>)
  /\ UNCHANGED <<buffer, alive, eof, queue, peer, appVars, uiVars, breaks>>

\* subscribe_to: snapshot and registration under the buffer lock, unless the
\* reader thread is gone.
Subscribe(c) ==
  /\ server[c] = "gated"
  /\ \/ /\ ~eof
        /\ Serve(c, "streaming")
        /\ subs' = subs \cup {c}
        /\ Send(c, <<Frame("streaming"), Snapshot(buffer)>>)
     \/ /\ eof
        /\ Serve(c, "awaiting")
        /\ Send(c, <<Frame("refused")>>)
        /\ UNCHANGED subs
  /\ UNCHANGED <<buffer, alive, eof, queue, peer, appVars, uiVars, breaks>>

\* drain_subscriptions: one chunk becomes a frame.
DrainChunk(c) ==
  /\ server[c] = "streaming" /\ queue[c] # <<>>
  /\ Send(c, <<Head(queue[c])>>)
  /\ queue' = [queue EXCEPT ![c] = Tail(@)]
  /\ UNCHANGED <<buffer, alive, eof, server, subs, peer, appVars, uiVars, breaks>>

\* The queue is empty and its sender dropped: first ask the set whether the
\* reader thread is gone.
DrainClosed(c) ==
  /\ server[c] = "streaming" /\ queue[c] = <<>> /\ c \notin subs
  /\ \/ eof /\ Serve(c, "awaiting") /\ Send(c, <<Frame("died")>>)
     \/ ~eof /\ Serve(c, "classify") /\ UNCHANGED wire
  /\ UNCHANGED <<buffer, alive, eof, subs, queue, peer, appVars, uiVars, breaks>>

\* Then ask the map whether the pane lives.
Classify(c) ==
  /\ server[c] = "classify"
  /\ Serve(c, "awaiting")
  /\ Send(c, <<Frame(IF alive THEN "overflow" ELSE "died")>>)
  /\ UNCHANGED <<buffer, alive, eof, subs, queue, peer, appVars, uiVars, breaks>>

\* handle_conn returns: the app hung up, or a write failed.  Dropping the
\* ActiveSub deregisters it; what was sent stays readable.
EndConn(c) ==
  /\ server[c] # "free"
  /\ Serve(c, "free")
  /\ subs' = subs \ {c}
  /\ queue' = [queue EXCEPT ![c] = <<>>]
  /\ UNCHANGED <<buffer, alive, eof, peer, appVars, uiVars>>

\* A connection without a subscription is closed after FAST_OP_TIMEOUT.
PeerGoneOrSilent(c) ==
  /\ ~peer[c] \/ server[c] = "awaiting"
  /\ EndConn(c)
  /\ UNCHANGED <<wire, breaks>>

ConnBreaks(c) ==
  /\ peer[c] /\ breaks < MaxBreaks
  /\ EndConn(c)
  /\ breaks' = breaks + 1
  /\ UNCHANGED wire

-----------------------------------------------------------------------------
(* The app's reader thread *)

\* stream_once: connect and send Attach.
Dial(c) ==
  /\ reader = "idle" /\ server[c] = "free" /\ ~peer[c]
  /\ reader' = "reading" /\ dialed' = c
  /\ Serve(c, "request")
  /\ peer' = [peer EXCEPT ![c] = TRUE]
  /\ UNCHANGED <<buffer, alive, eof, subs, queue, wire, view, uiVars, breaks>>

\* StreamBuf::apply of a snapshot: a new generation begins past every offset
\* the frontend can have read.
ApplySnapshot(f) ==
  view' = [buf |-> Push(EmptyBuffer, Run(f.from, f.to)),
           genBase |-> IF view.last = Unattached THEN 0
                                                 ELSE view.genBase + End(view.buf) + 1,
           last |-> f.to]

Contiguous(f) == view.last \in {Unattached, f.from}

ApplyDeltaFrame(f) ==
  view' = [view EXCEPT !.buf = Push(@, Run(f.from, f.to)), !.last = f.to]

HangUp(next) ==
  /\ reader' = next /\ dialed' = NoConn
  /\ peer' = [peer EXCEPT ![dialed] = FALSE]
  /\ wire' = [wire EXCEPT ![dialed] = <<>>]

KeepReading ==
  /\ wire' = [wire EXCEPT ![dialed] = Tail(@)]
  /\ UNCHANGED <<reader, dialed, peer>>

ReadFrame ==
  /\ reader = "reading" /\ wire[dialed] # <<>>
  /\ LET f == Head(wire[dialed]) IN
       \/ f.kind = "streaming" /\ KeepReading /\ UNCHANGED view
       \/ f.kind = "snapshot" /\ KeepReading /\ ApplySnapshot(f)
       \/ f.kind = "delta" /\ Contiguous(f) /\ KeepReading /\ ApplyDeltaFrame(f)
       \/ f.kind = "delta" /\ ~Contiguous(f) /\ HangUp("idle") /\ UNCHANGED view
       \/ f.kind = "overflow" /\ HangUp("idle") /\ UNCHANGED view
       \/ f.kind \in {"refused", "died"} /\ HangUp("dead") /\ UNCHANGED view
  /\ UNCHANGED <<daemonVars, uiVars, breaks>>

\* Mutant: an ended connection is taken for a dead pane.
ReadEofGivesUp ==
  /\ reader = "reading" /\ wire[dialed] = <<>> /\ server[dialed] = "free"
  /\ HangUp("dead")
  /\ UNCHANGED <<daemonVars, view, uiVars, breaks>>

\* End of file after the last frame: dial again after the backoff.
ReadEof ==
  /\ reader = "reading" /\ wire[dialed] = <<>> /\ server[dialed] = "free"
  /\ HangUp("idle")
  /\ UNCHANGED <<daemonVars, view, uiVars, breaks>>

-----------------------------------------------------------------------------
(* The frontend *)

\* StreamBuf::delta: a cursor from an earlier generation gets the whole window,
\* said to start at genBase even when compaction has moved it past that.
ViewDelta(since) ==
  IF since < view.genBase
    THEN [start |-> view.genBase, bytes |-> view.buf.bytes]
    ELSE LET d == Delta(view.buf, since - view.genBase)
         IN  [start |-> view.genBase + d.start, bytes |-> d.bytes]

\* read_output_delta: one read at a time, by the polling latch.
ReadOutputDelta ==
  /\ reply = {}
  /\ reply' = {DeltaPayload(term.consumed, ViewDelta(term.consumed))}
  /\ UNCHANGED <<daemonVars, wire, peer, appVars, term, reloads, breaks>>

ApplyReply ==
  /\ \E payload \in reply : term' = ApplyDelta(term, payload)
  /\ reply' = {}
  /\ UNCHANGED <<daemonVars, wire, peer, appVars, reloads, breaks>>

\* The window is reloaded: its terminal and the read in flight are lost.
Reload ==
  /\ reloads < MaxReloads
  /\ reloads' = reloads + 1
  /\ term' = EmptyTerminal /\ reply' = {}
  /\ UNCHANGED <<daemonVars, wire, peer, appVars, breaks>>

-----------------------------------------------------------------------------
ServerStep(c) ==
  \/ AttachGate(c) \/ Subscribe(c) \/ DrainChunk(c) \/ DrainClosed(c) \/ Classify(c)
  \/ PeerGoneOrSilent(c)

ReaderStep == (\E c \in Conns : Dial(c)) \/ ReadFrame \/ ReadEof

Next ==
  \/ \E n \in 1 .. MaxChunk : PushAndFanout(n)
  \/ PaneExits \/ CloseSubscribers
  \/ \E c \in Conns : ServerStep(c) \/ ConnBreaks(c)
  \/ ReaderStep
  \/ ReadOutputDelta \/ ApplyReply \/ Reload

Spec == Init /\ [][Next]_vars

\* Each connection thread loops on a 100 ms read timeout, the app's reader on
\* its own thread, the frontend on a 120 ms timer.  Neither the pane nor a
\* failure has to happen.
Fairness ==
  /\ \A c \in Conns : WF_vars(ServerStep(c))
  /\ WF_vars(ReaderStep)
  /\ WF_vars(ReadOutputDelta) /\ WF_vars(ApplyReply)

FairSpec == Spec /\ Fairness

-----------------------------------------------------------------------------
View == INSTANCE OutputView WITH written <- End(buffer), screen <- term.screen

\* Refinement: through overflows, reconnects, compaction, reloads and reads in
\* flight, the screen is one unbroken stretch of the pane's output in whole
\* characters, and its end never goes back (the cursor protocol of
\* StreamBuf::delta, delta_payload and applyDelta).  It is checked without the
\* one sequence that breaks it, a second attach followed by compaction in the
\* app's own buffer: ReplayedOnce shows that one.
ShowsUnbrokenOutput == View!ViewSpec

\* "deltas are contiguous (no gap in a live sub)": the gap check of
\* StreamBuf::apply never fires, a slow subscriber loses its tail, not its
\* middle.
NoGapInLiveSub ==
  reader = "reading" /\ wire[dialed] # <<>> /\ Head(wire[dialed]).kind = "delta"
    => Contiguous(Head(wire[dialed]))

\* No zombie subscription: what is registered has a thread that drains it and
\* a reader thread that will close it (the dead flag of SubscriberSet).
RegisteredIsServed ==
  \A c \in subs : ~eof /\ server[c] = "streaming"

\* A pane whose output ended is reported dead to the app: no attach and no
\* drain can miss the end.
DeathReported == eof ~> reader = "dead"

LastBoundary == CHOOSE e \in Leads : e <= End(buffer) /\ \A x \in Leads : x <= e \/ x > End(buffer)

\* While the pane lives, everything it wrote up to its last whole character is
\* on the screen in the end, whatever overflowed, broke or was reloaded.
CatchesUp == <>[](~alive \/ eof \/ View!ShownEnd = LastBoundary)

\* "A stale frontend cursor always reports truncated (forces exactly one full
\* replay)" (StreamBuf.gen_base): no byte is on the screen twice.
ReplayedOnce ==
  \A i, j \in DOMAIN term.screen : term.screen[i] = term.screen[j] => i = j
=============================================================================
