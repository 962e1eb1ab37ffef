---------------------------- MODULE ClientSession ----------------------------
(***************************************************************************)
(* The client SDK against the control plane: client_sdk/src/               *)
(* client_control.c on one side, the handlers of ControlPlane on the       *)
(* other, and between them one stream socket per client process, with      *)
(* messages in flight in both directions.                                  *)
(*                                                                         *)
(* A process calls wispc_connect(), which sends CONNECT and the first      *)
(* ACTIVATE_REQUEST and reads one reply to each, and then starts the SDK's *)
(* control thread; its render thread calls wispc_publish() meanwhile.  A   *)
(* process may leave or die at any moment, and the server learns of it     *)
(* only when it reads the end of the stream.                               *)
(*                                                                         *)
(* Abstractions.  Every process has a client id of its own, which is also  *)
(* its name here.  Sockets do not lose messages; MaxInFlight bounds the    *)
(* messages of the periodic timers that wait to be read.  A send to a      *)
(* connection that the server has closed has no effect; that it may kill   *)
(* the process (SIGPIPE) is Crash.                                         *)
(***************************************************************************)
EXTENDS ControlPlane

CONSTANTS
  Events,               \* what may happen from outside: see EventKinds
  Renderers,            \* the processes that call wispc_publish()
  MaxInFlight,          \* heartbeats and retries wait for less than this many
  ServerIgnoresSigpipe  \* how the environment started the server

\* A process leaves or dies, cannot attach the ring, an admin asks for a switch,
\* the server is stopped.
EventKinds == {"leave", "crash", "attach", "switch", "shutdown"}

ASSUME EventAssumption == Events \subseteq EventKinds
ASSUME RendererAssumption == Renderers \subseteq ClientIds
ASSUME InFlightAssumption == MaxInFlight \in Nat \ {0}
ASSUME SigpipeAssumption == ServerIgnoresSigpipe \in BOOLEAN

Procs == ClientIds

VARIABLES
  client,   \* the process's _wispc_ctx_t and where its threads are
  net,      \* its connection, seen from both ends
  server    \* "running", "stopped", or "killed" by a signal

allVars == <<cp, client, net, server>>

\* pc is where wispc_connect() or the control thread is; publish is where the
\* render thread is in wispc_publish() and seen the ring's generation it read.
NewProcess ==
  [pc |-> "new", mode |-> FALSE, active |-> FALSE,
   granted_generation |-> 0, publish |-> "out", seen |-> 0, attached |-> TRUE]

\* up and down hold what is in flight; slot is the session the connection has.
NewConnection == [up |-> <<>>, down |-> <<>>, slot |-> None, open |-> FALSE]

InitSession ==
  /\ Init
  /\ client = [p \in Procs |-> NewProcess]
  /\ net = [p \in Procs |-> NewConnection]
  /\ server = "running"

-----------------------------------------------------------------------------
(* The client process, client_control.c *)

Running(p) == client[p].pc = "run"
Gone(p) == client[p].pc = "gone"

\* The server has closed its end and everything it sent was read.
AtEnd(p) == ~ net[p].open /\ net[p].down = <<>>

\* Every message but CONNECT has a payload that no handler looks at, or none.
SendUp(n, p, kind) ==
  IF n[p].open
  THEN [n EXCEPT ![p].up = Append(@, [kind |-> kind, body |-> <<>>])]
  ELSE n

\* wispc_connect() up to the wait for the server's answer.
Connect(p) ==
  /\ client[p].pc = "new"
  /\ server = "running"
  /\ client' = [client EXCEPT ![p].pc = "mode"]
  /\ \E msg \in ConnectMessages :
       /\ msg.client_id = p
       /\ net' = [net EXCEPT ![p].open = TRUE,
                             ![p].up = <<[kind |-> "CONNECT", body |-> msg]>>]
  /\ UNCHANGED <<cp, server>>

Close(p) ==
  /\ client' = [client EXCEPT ![p] = [NewProcess EXCEPT !.pc = "gone"]]
  /\ net' = [net EXCEPT ![p].down = <<>>]

\* The first ACTIVATE_REQUEST, with or without a negotiated mode.
AskFirst(p, n, negotiated) ==
  /\ client' = [client EXCEPT ![p].pc = "grant", ![p].mode = negotiated]
  /\ net' = SendUp(n, p, "ACTIVATE_REQUEST")

\* The answer to CONNECT: a mode, a refusal, or VERSION_MISMATCH.
RecvMode(p) ==
  /\ client[p].pc = "mode"
  /\ net[p].down # <<>>
  /\ LET msg == Head(net[p].down)
         read == [net EXCEPT ![p].down = Tail(@)]
     IN  IF msg.kind = "MODE" /\ msg.arg = 1
         THEN AskFirst(p, read, TRUE)
         ELSE Close(p)
  /\ UNCHANGED <<cp, server>>

\* The connection was closed with no answer, as a full table does.  The code
\* then compares a kind that was never set: it gives up or goes on.
RecvNoMode(p) ==
  /\ client[p].pc = "mode"
  /\ AtEnd(p)
  /\ Close(p) \/ AskFirst(p, net, FALSE)
  /\ UNCHANGED <<cp, server>>

\* wispc_handle_grant(), when the ring and the descriptor are there.
TakeGrant(p, n, generation) ==
  /\ client' = [client EXCEPT ![p].pc = "run",
                              ![p].granted_generation = generation,
                              ![p].active = TRUE]
  /\ net' = SendUp(n, p, "READY_FOR_RT")

\* The answer to the first ACTIVATE_REQUEST: only a grant matters.  A process
\* that cannot attach the ring closes the connection.
RecvFirst(p) ==
  /\ client[p].pc = "grant"
  /\ net[p].down # <<>>
  /\ LET msg == Head(net[p].down)
         read == [net EXCEPT ![p].down = Tail(@)]
     IN  IF msg.kind = "ACTIVATE_GRANT"
         THEN TakeGrant(p, read, msg.arg) \/ Close(p)
         ELSE client' = [client EXCEPT ![p].pc = "run"] /\ net' = read
  /\ UNCHANGED <<cp, server>>

RecvNoFirst(p) ==
  /\ client[p].pc = "grant"
  /\ AtEnd(p)
  /\ client' = [client EXCEPT ![p].pc = "run"]
  /\ UNCHANGED <<cp, net, server>>

\* The control thread reads one message.  A grant it cannot use is dropped: it
\* neither declines nor closes.  (At the end of the stream it goes on as after a
\* timeout: a stuttering step.)
RecvMessage(p) ==
  /\ Running(p)
  /\ net[p].down # <<>>
  /\ LET msg == Head(net[p].down)
         read == [net EXCEPT ![p].down = Tail(@)]
     IN  CASE msg.kind = "ACTIVATE_GRANT" ->
                \/ TakeGrant(p, read, msg.arg)
                \/ /\ "attach" \in Events /\ client' = [client EXCEPT ![p].attached = FALSE]
                   /\ net' = read
           [] msg.kind = "DEACTIVATE" ->
                /\ client' = [client EXCEPT ![p].active = FALSE]
                /\ net' = read
           [] msg.kind = "EVICT_PENDING" ->
                /\ client' = [client EXCEPT ![p].active = FALSE]
                /\ net' = SendUp(read, p, "STOPPED")
           [] OTHER -> net' = read /\ UNCHANGED client
  /\ UNCHANGED <<cp, server>>

MayQueue(p) == net[p].open /\ Len(net[p].up) < MaxInFlight

\* Mutant of Heartbeat: the control thread does not look at active.
HeartbeatMutant(p) ==
  /\ Running(p)
  /\ MayQueue(p)
  /\ net' = SendUp(net, p, "HEARTBEAT")
  /\ UNCHANGED <<cp, client, server>>

\* WISP_CLIENT_HEARTBEAT_MS have passed.
Heartbeat(p) ==
  /\ Running(p)
  /\ client[p].active
  /\ MayQueue(p)
  /\ net' = SendUp(net, p, "HEARTBEAT")
  /\ UNCHANGED <<cp, client, server>>

\* Mutant of RetryActivate: a process that was active once does not ask again.
RetryActivateMutant(p) ==
  /\ Running(p)
  /\ ~ client[p].active
  /\ client[p].granted_generation = 0
  /\ MayQueue(p)
  /\ net' = SendUp(net, p, "ACTIVATE_REQUEST")
  /\ UNCHANGED <<cp, client, server>>

\* WISP_CLIENT_RETRY_ACTIVATE_MS have passed.
RetryActivate(p) ==
  /\ Running(p)
  /\ ~ client[p].active
  /\ MayQueue(p)
  /\ net' = SendUp(net, p, "ACTIVATE_REQUEST")
  /\ UNCHANGED <<cp, client, server>>

\* wispc_publish() reads active, the ring's generation and granted_generation
\* one after the other, and clears active when the last two differ, while the
\* control thread may be handling messages.
Publish(p) ==
  /\ Running(p) /\ p \in Renderers
  /\ \/ /\ client[p].publish = "out"
        /\ client[p].active
        /\ client' = [client EXCEPT ![p].publish = "entered"]
     \/ /\ client[p].publish = "entered"
        /\ client' = [client EXCEPT ![p].publish = "loaded",
                                    ![p].seen = cp.generation]
     \/ /\ client[p].publish = "loaded"
        /\ client' = [client EXCEPT
                        ![p].publish = IF @ = "loaded" /\ client[p].seen
                                            # client[p].granted_generation
                                       THEN "stale" ELSE "out",
                        ![p].seen = 0]
     \/ /\ client[p].publish = "stale"
        /\ client' = [client EXCEPT ![p].publish = "out", ![p].active = FALSE]
  /\ UNCHANGED <<cp, net, server>>

\* wispc_disconnect().
Leave(p) ==
  /\ "leave" \in Events
  /\ Running(p)
  /\ client' = [client EXCEPT ![p] = [NewProcess EXCEPT !.pc = "gone"]]
  /\ net' = SendUp([net EXCEPT ![p].down = <<>>], p, "DISCONNECT")
  /\ UNCHANGED <<cp, server>>

\* The process dies; what it sent stays in the stream.
Crash(p) ==
  /\ "crash" \in Events
  /\ client[p].pc \in {"mode", "grant", "run"}
  /\ Close(p)
  /\ UNCHANGED <<cp, server>>

-----------------------------------------------------------------------------
(* The server: the poll loop of control_plane.c with its sockets *)

\* What a handler sends to the client in slot i.
SentTo(c, i) ==
  LET sent[n \in 0 .. Len(c.out)] ==
        IF n = 0 THEN <<>>
        ELSE IF c.out[n].to # i THEN sent[n - 1]
        ELSE Append(sent[n - 1], [kind |-> c.out[n].kind, arg |-> c.out[n].arg])
  IN  sent[Len(c.out)]

\* A handler writes to a connection whose client has closed it.
WritesToClosed(c) ==
  \E p \in Procs : Gone(p) /\ net[p].slot # None /\ SentTo(c, net[p].slot) # <<>>

\* The connections when the server has ended.
Closed(n) ==
  [p \in Procs |-> [n[p] EXCEPT !.open = FALSE, !.slot = None, !.up = <<>>]]

\* The connections after a handler that leaves c: its messages are on their
\* way, and the sockets of the sessions it removed are closed.
Deliver(n, c) ==
  [p \in Procs |->
     LET i == n[p].slot
     IN  IF i = None
         THEN n[p]
         ELSE [n[p] EXCEPT !.down = IF Gone(p) THEN @ ELSE @ \o SentTo(c, i),
                           !.slot = IF c.slots[i].in_use THEN i ELSE None,
                           !.open = c.slots[i].in_use,
                           !.up = IF c.slots[i].in_use THEN @ ELSE <<>>]]

\* A handler has run on connections n, with one of results; without AllowWrap the
\* bound on the generation stops those that would wrap it.  The default
\* disposition of SIGPIPE ends the process and closes its sockets.
Handle(n, results) ==
  /\ server = "running"
  /\ UNCHANGED client
  /\ \E c \in results :
       /\ AllowWrap \/ c.generation >= cp.generation
       /\ cp' = Sent(c)
       /\ IF ~ ServerIgnoresSigpipe /\ WritesToClosed(c)
          THEN server' = "killed" /\ net' = Closed(n)
          ELSE UNCHANGED server /\ net' = Deliver(n, c)

\* accept(); a connection the table has no room for is closed at once.
AcceptFrom(p) ==
  /\ server = "running"
  /\ net[p].open /\ net[p].slot = None
  /\ LET i == FirstOf({j \in Slots : ~ InUse(cp, j)})
     IN  IF i = None
         THEN net' = [net EXCEPT ![p].open = FALSE, ![p].up = <<>>]
         ELSE net' = [net EXCEPT ![p].slot = i]
  /\ cp' = Sent(table_add(cp))
  /\ UNCHANGED <<client, server>>

\* handle_readable()
Dispatch(i, msg) ==
  CASE msg.kind = "CONNECT" -> {handle_connect(cp, i, msg.body)}
    [] msg.kind = "ACTIVATE_REQUEST" ->
         {handle_activate_request(cp, i, t) : t \in RequestStamps(cp)}
    [] msg.kind = "READY_FOR_RT" -> {handle_ready_for_rt(cp, i)}
    [] msg.kind = "STOPPED" -> {handle_stopped(cp, i)}
    [] msg.kind = "HEARTBEAT" -> {handle_heartbeat(cp, i)}
    [] msg.kind = "DISCONNECT" -> {handle_disconnect(cp, i)}

Serve(p) ==
  /\ net[p].slot # None
  /\ net[p].up # <<>>
  /\ Handle([net EXCEPT ![p].up = Tail(@)],
            Dispatch(net[p].slot, Head(net[p].up)))

\* The end of the stream.
Hangup(p) ==
  /\ net[p].slot # None
  /\ net[p].up = <<>>
  /\ Gone(p)
  /\ Handle(net, {handle_disconnect(cp, net[p].slot)})

Switch(p) == "switch" \in Events /\ Handle(net, {handle_switch_query(cp, p)})

\* The poll loop's deadlines, and time passing towards them.
CheckHeartbeat ==
  /\ cp.active_slot # None
  /\ cp.heartbeat_late
  /\ Handle(net, {heartbeat_timeout(cp)})

CheckGrace ==
  /\ cp.evicting_slot # None
  /\ cp.grace_over
  /\ Handle(net, {grace_deadline(cp)})

TimePasses ==
  /\ server = "running"
  /\ HeartbeatLapse \/ GraceLapse
  /\ UNCHANGED <<client, net, server>>

\* wisps_control_plane_stop() and wisps_control_plane_close(): every socket is
\* closed, without a message.
Shutdown ==
  /\ "shutdown" \in Events
  /\ server = "running"
  /\ server' = "stopped"
  /\ net' = Closed(net)
  /\ cp' = [cp EXCEPT !.slots = [i \in Slots |-> FreeSession],
                      !.active_slot = None,
                      !.evicting_slot = None,
                      !.pending_grant_target = None,
                      !.heartbeat_late = FALSE,
                      !.grace_over = FALSE,
                      !.dp_mode = InitialMode]
  /\ UNCHANGED client

Receive(p) ==
  RecvMode(p) \/ RecvNoMode(p) \/ RecvFirst(p) \/ RecvNoFirst(p) \/ RecvMessage(p)

\* What the poll loop does about a connection; one of them at a time is enabled.
Turn(p) == AcceptFrom(p) \/ Serve(p) \/ Hangup(p)

NextSession ==
  \/ \E p \in Procs :
       \/ Connect(p) \/ Receive(p) \/ Heartbeat(p) \/ RetryActivate(p)
       \/ Publish(p) \/ Leave(p) \/ Crash(p)
       \/ Turn(p) \/ Switch(p)
  \/ CheckHeartbeat
  \/ CheckGrace
  \/ TimePasses
  \/ Shutdown

\* A turn of the control thread: it reads what is there, and asks again when
\* nothing is.
ControlLoop(p) == Receive(p) \/ (net[p].down = <<>> /\ RetryActivate(p))

\* The client whose session is ACTIVE_RT, if it has one, does not regard itself
\* as active: it sends no heartbeat, so the last one grows old.
SilenceLapse ==
  /\ server = "running"
  /\ \E p \in Procs :
       net[p].slot # None /\ net[p].slot = cp.active_slot /\ ~ client[p].active
  /\ HeartbeatLapse
  /\ UNCHANGED <<client, net, server>>

SessionSpec == InitSession /\ [][NextSession]_allVars

\* Every thread keeps running and its timers expire: poll() wakes at least
\* every WISPS_CONTROL_POLL_TIMEOUT_MS and looks at every descriptor, recv() on
\* the client times out after WISP_CLIENT_HEARTBEAT_MS.  No process is assumed to
\* leave or to die, and no heartbeat to be late while they are sent.
FairSessionSpec ==
  /\ SessionSpec
  /\ \A p \in Procs :
       /\ WF_allVars(ControlLoop(p))
       /\ WF_allVars(Turn(p))
  /\ WF_allVars(SilenceLapse \/ CheckHeartbeat)

-----------------------------------------------------------------------------
(* Properties *)

\* Type invariant, and the two ends of every connection agree on which session
\* it has: slots and open connections correspond one to one.
SessionTypeOK ==
  /\ cp \in ControlPlanes /\ cp.out = <<>>
  /\ server = "running" =>
       \A i \in Slots :
         Cardinality({p \in Procs : net[p].slot = i}) = IF InUse(cp, i) THEN 1 ELSE 0
  /\ \A p \in Procs :
       /\ client[p].active => client[p].pc = "run"
       /\ net[p].slot # None => net[p].open

Holds(p, states) == net[p].slot # None /\ cp.slots[net[p].slot].state \in states

InFlight(queue, kinds) == \E k \in DOMAIN queue : queue[k].kind \in kinds

\* A client that believes it is active is right, or the message that will tell it
\* otherwise is on its way: its session is ACTIVE_RT, or in warmup with
\* READY_FOR_RT in flight, or DEACTIVATE or EVICT_PENDING is in its stream.  It
\* also knows its mode, although wispc_connect() goes on when no answer came.
ActiveClientKnown ==
  \A p \in Procs :
    client[p].active /\ server = "running" =>
      /\ client[p].mode
      /\ \/ Holds(p, {"ACTIVE_RT"})
         \/ Holds(p, {"GRANTED_WARMUP"}) /\ InFlight(net[p].up, {"READY_FOR_RT"})
         \/ InFlight(net[p].down, {"DEACTIVATE", "EVICT_PENDING"})

\* At any moment at most one process passes the two tests of wispc_publish(),
\* whatever is still in flight: active, and granted the ring's generation.
OnePublisher ==
  \A p, q \in Procs :
    /\ client[p].active /\ client[p].granted_generation = cp.generation
    /\ client[q].active /\ client[q].granted_generation = cp.generation
    => p = q

\* A client that lost its activation to the render thread's late active = false,
\* and so neither publishes nor heartbeats, does not keep the slot: the server
\* notices the silence, and the client is told or asks again.
LostActivationHeals ==
  \A p \in Renderers :
    Holds(p, {"ACTIVE_RT"}) /\ Running(p) /\ ~ client[p].active
      ~> ~ Holds(p, {"ACTIVE_RT"}) \/ client[p].active

Waiting(p) == Running(p) /\ Holds(p, {"NEGOTIATED"})

\* The SDK's retry makes up for every answer it did not wait for ("the ctrl thread
\* will recover via the periodic retry logic", client_control.c): a free slot
\* does not stay free while clients run whose sessions are not queued.  (A client
\* that was granted the slot and could not attach the ring says nothing, and
\* keeps it.)
RetryTakesFreeSlot ==
  (\E p \in Procs : Waiting(p)) /\ ~ rt_slot_taken(cp)
    ~> \/ \E p \in Procs : client[p].active \/ ~ client[p].attached
       \/ \A p \in Procs : ~ Waiting(p)

\* "The fd is very possibly already dead so both sends may silently fail"
\* (wisps_control_plane_run(), control_plane.c): a client that has gone does not
\* take the server with it.
ServerOutlivesClients == server # "killed"
=============================================================================
