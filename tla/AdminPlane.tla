----------------------------- MODULE AdminPlane -----------------------------
(***************************************************************************)
(* The threads of wisp_server and how they wait for each other: the admin  *)
(* thread (server/src/admin/admin_plane.c), its rendezvous with the        *)
(* control thread (server/src/control/control_query.c), the skeleton of    *)
(* the control thread's poll loop, and the shutdown in main() (server.c).  *)
(*                                                                         *)
(* What a query does to the sessions is in ControlPlane and what the data  *)
(* plane does is in DataPath; here a query is only answered, and the data  *)
(* thread only runs and ends.  The queries live on the admin thread's      *)
(* stack, so a query is named by the admin connection it is made for.      *)
(***************************************************************************)
EXTENDS Integers, Sequences, FiniteSets

CONSTANTS
  Peers,    \* admin connections
  Nobody    \* no connection, no query

ASSUME PeersAssumption == Nobody \notin Peers

VARIABLES
  peer,      \* per admin connection: where it is and what it has sent
  admin,     \* the admin thread: its step and the connection it serves
  chan,      \* wisps_control_query_channel_t: pending query, bytes in the pipe
  query,     \* done flag and lock of the query being waited for
  control,   \* the control thread: its step and the query it has drained
  producer,  \* whether some producer has sent part of a message
  data,      \* the data plane thread
  flags,     \* running flags and stop pipes of the three threads
  main,      \* the main thread
  closed     \* what main() has released

vars == <<peer, admin, chan, query, control, producer, data, flags, main, closed>>

Threads == {"admin", "control", "data"}

\* Mutant of ShutdownOrder: control first.
ShutdownOrderMutant == <<"control", "admin", "data">>

\* The stop order of main().
ShutdownOrder == <<"admin", "control", "data">>

Init ==
  /\ peer = [p \in Peers |-> [at |-> "away", said |-> "nothing"]]
  /\ admin = [phase |-> "top", peer |-> Nobody]
  /\ chan = [pending |-> Nobody, bytes |-> 0]
  /\ query = [done |-> FALSE, locked |-> FALSE]
  /\ control = [phase |-> "top", query |-> Nobody]
  /\ producer = "quiet"
  /\ data = "run"
  /\ flags = [t \in Threads |-> [running |-> TRUE, byte |-> FALSE]]
  /\ main = [phase |-> "sigwait", step |-> 1]
  /\ closed = {}

-----------------------------------------------------------------------------
(* Admin clients and producers *)

PeerConnects(p) ==
  /\ peer[p].at = "away"
  /\ "admin" \notin closed
  /\ peer' = [peer EXCEPT ![p].at = "backlog"]
  /\ UNCHANGED <<admin, chan, query, control, producer, data, flags, main, closed>>

\* A connected peer sends LIST or SWITCH, sends something malformed, or closes.
PeerSpeaks(p) ==
  /\ peer[p] \in [at : {"backlog", "served"}, said : {"nothing"}]
  /\ \E what \in {"request", "junk", "eof"} :
       peer' = [peer EXCEPT ![p].said = what]
  /\ UNCHANGED <<admin, chan, query, control, producer, data, flags, main, closed>>

\* A producer sends part of a message, and later the rest (or closes).
ProducerPauses ==
  /\ producer = "quiet"
  /\ producer' = "partial"
  /\ UNCHANGED <<peer, admin, chan, query, control, data, flags, main, closed>>

ProducerFinishes ==
  /\ producer = "partial"
  /\ producer' = "quiet"
  /\ UNCHANGED <<peer, admin, chan, query, control, data, flags, main, closed>>

-----------------------------------------------------------------------------
(* Admin thread *)

Backlog == {p \in Peers : peer[p].at = "backlog"}

\* while (running)
AdminTop ==
  /\ admin.phase = "top"
  /\ admin' = [admin EXCEPT
                 !.phase = IF flags["admin"].running THEN "poll" ELSE "done"]
  /\ UNCHANGED <<peer, chan, query, control, producer, data, flags, main, closed>>

\* poll() over [listen_fd, stop_read_fd]; the stop pipe is looked at first.
AdminPoll ==
  /\ admin.phase = "poll"
  /\ flags["admin"].byte \/ Backlog # {}
  /\ IF flags["admin"].byte
     THEN /\ admin' = [admin EXCEPT !.phase = "done"]
          /\ UNCHANGED peer
     ELSE \E p \in Backlog :
            /\ peer' = [peer EXCEPT ![p].at = "served"]
            /\ admin' = [phase |-> "recv", peer |-> p]
  /\ UNCHANGED <<chan, query, control, producer, data, flags, main, closed>>

Hangup ==
  /\ peer' = [peer EXCEPT ![admin.peer] = [at |-> "away", said |-> "nothing"]]
  /\ admin' = [phase |-> "top", peer |-> Nobody]

\* The blocking receive of handle_connection(): there is no timeout.  Anything
\* but a well-formed request closes the connection.
AdminRecv ==
  /\ admin.phase = "recv"
  /\ peer[admin.peer].said # "nothing"
  /\ IF peer[admin.peer].said = "request"
     THEN /\ admin' = [admin EXCEPT !.phase = "post"]
          /\ UNCHANGED peer
     ELSE Hangup
  /\ UNCHANGED <<chan, query, control, producer, data, flags, main, closed>>

\* wisps_control_query_submit(), first part: initialise and post the query.
SubmitPost ==
  /\ admin.phase = "post"
  /\ query' = [done |-> FALSE, locked |-> FALSE]
  /\ chan' = [chan EXCEPT !.pending = admin.peer]
  /\ admin' = [admin EXCEPT !.phase = "wake"]
  /\ UNCHANGED <<peer, control, producer, data, flags, main, closed>>

\* Mutant of SubmitWake: no byte is written.
SubmitWakeMutant ==
  /\ admin.phase = "wake"
  /\ admin' = [admin EXCEPT !.phase = "wait"]
  /\ UNCHANGED <<peer, chan, query, control, producer, data, flags, main, closed>>

\* Second part: write the wakeup byte.
SubmitWake ==
  /\ admin.phase = "wake"
  /\ chan' = [chan EXCEPT !.bytes = @ + 1]
  /\ admin' = [admin EXCEPT !.phase = "wait"]
  /\ UNCHANGED <<peer, query, control, producer, data, flags, main, closed>>

\* Third part: pthread_cond_wait() returns with the lock held and done set, and
\* the query goes out of scope once its response is sent.
SubmitReturn ==
  /\ admin.phase = "wait"
  /\ query.done
  /\ ~ query.locked
  /\ admin' = [admin EXCEPT !.phase = "reply"]
  /\ UNCHANGED <<peer, chan, query, control, producer, data, flags, main, closed>>

AdminReply ==
  /\ admin.phase = "reply"
  /\ Hangup
  /\ UNCHANGED <<chan, query, control, producer, data, flags, main, closed>>

-----------------------------------------------------------------------------
(* Control thread *)

\* while (running)
ControlTop ==
  /\ control.phase = "top"
  /\ control' = [control EXCEPT
                   !.phase = IF flags["control"].running THEN "poll" ELSE "done"]
  /\ UNCHANGED <<peer, admin, chan, query, producer, data, flags, main, closed>>

\* poll() returns, after its timeout at the latest; stop comes before the query.
ControlPoll ==
  /\ control.phase = "poll"
  /\ control' = [control EXCEPT
       !.phase = IF flags["control"].byte
                 THEN "done"
                 ELSE IF chan.bytes > 0 THEN "drain" ELSE "serve"]
  /\ UNCHANGED <<peer, admin, chan, query, producer, data, flags, main, closed>>

\* Mutant of QueryDrain: the wakeup byte is left in the pipe.
QueryDrainMutant ==
  /\ control.phase = "drain"
  /\ chan' = [chan EXCEPT !.pending = Nobody]
  /\ control' = [phase |-> IF chan.pending = Nobody THEN "serve" ELSE "complete",
                 query |-> chan.pending]
  /\ UNCHANGED <<peer, admin, query, producer, data, flags, main, closed>>

\* wisps_control_query_channel_drain()
QueryDrain ==
  /\ control.phase = "drain"
  /\ chan' = [pending |-> Nobody, bytes |-> chan.bytes - 1]
  /\ control' = [phase |-> IF chan.pending = Nobody THEN "serve" ELSE "complete",
                 query |-> chan.pending]
  /\ UNCHANGED <<peer, admin, query, producer, data, flags, main, closed>>

\* Mutant of QueryComplete: done is set without the lock.
QueryCompleteMutant ==
  /\ control.phase = "complete"
  /\ query' = [done |-> TRUE, locked |-> FALSE]
  /\ control' = [control EXCEPT !.phase = "unlock"]
  /\ UNCHANGED <<peer, admin, chan, producer, data, flags, main, closed>>

\* The query is answered, then wisps_control_query_complete() locks it, sets
\* done and signals.
QueryComplete ==
  /\ control.phase = "complete"
  /\ query' = [done |-> TRUE, locked |-> TRUE]
  /\ control' = [control EXCEPT !.phase = "unlock"]
  /\ UNCHANGED <<peer, admin, chan, producer, data, flags, main, closed>>

\* The unlock is the last use of the query.
QueryUnlock ==
  /\ control.phase = "unlock"
  /\ query' = [query EXCEPT !.locked = FALSE]
  /\ control' = [phase |-> "serve", query |-> Nobody]
  /\ UNCHANGED <<peer, admin, chan, producer, data, flags, main, closed>>

\* The sockets of the producers: receiving a message that was sent in part blocks
\* until the rest comes.
ControlServe ==
  /\ control.phase = "serve"
  /\ \/ control' = [control EXCEPT !.phase = "scan"]
     \/ /\ producer = "partial"
        /\ control' = [control EXCEPT !.phase = "blocked"]
  /\ UNCHANGED <<peer, admin, chan, query, producer, data, flags, main, closed>>

ControlReceived ==
  /\ control.phase = "blocked"
  /\ producer = "quiet"
  /\ control' = [control EXCEPT !.phase = "scan"]
  /\ UNCHANGED <<peer, admin, chan, query, producer, data, flags, main, closed>>

\* The heartbeat and grace deadline checks.
ControlScan ==
  /\ control.phase = "scan"
  /\ control' = [control EXCEPT !.phase = "top"]
  /\ UNCHANGED <<peer, admin, chan, query, producer, data, flags, main, closed>>

-----------------------------------------------------------------------------
(* Data thread, and main() *)

DataEnds ==
  /\ data = "run"
  /\ ~ flags["data"].running
  /\ flags["data"].byte
  /\ data' = "done"
  /\ UNCHANGED <<peer, admin, chan, query, control, producer, flags, main, closed>>

Ended(t) ==
  CASE t = "admin" -> admin.phase = "done"
    [] t = "control" -> control.phase = "done"
    [] t = "data" -> data = "done"

\* sigwait() returns.
Signal ==
  /\ main.phase = "sigwait"
  /\ main' = [main EXCEPT !.phase = "stop"]
  /\ UNCHANGED <<peer, admin, chan, query, control, producer, data, flags, closed>>

\* wisps_*_plane_stop(): clear the flag, then write the byte.
StopThread ==
  /\ main.phase = "stop"
  /\ flags' = [flags EXCEPT ![ShutdownOrder[main.step]].running = FALSE]
  /\ main' = [main EXCEPT !.phase = "wake"]
  /\ UNCHANGED <<peer, admin, chan, query, control, producer, data, closed>>

WakeThread ==
  /\ main.phase = "wake"
  /\ flags' = [flags EXCEPT ![ShutdownOrder[main.step]].byte = TRUE]
  /\ main' = [main EXCEPT !.phase = "join"]
  /\ UNCHANGED <<peer, admin, chan, query, control, producer, data, closed>>

Joined(t) ==
  /\ closed' = closed \cup {t}
  /\ main' = IF main.step = Len(ShutdownOrder)
             THEN [main EXCEPT !.phase = "release"]
             ELSE [phase |-> "stop", step |-> main.step + 1]
  /\ UNCHANGED <<peer, admin, chan, query, control, producer, data, flags>>

\* Mutant of JoinThread: no pthread_join().
JoinThreadMutant ==
  /\ main.phase = "join"
  /\ Joined(ShutdownOrder[main.step])

\* pthread_join(), then wisps_*_plane_close().
JoinThread ==
  /\ main.phase = "join"
  /\ Ended(ShutdownOrder[main.step])
  /\ Joined(ShutdownOrder[main.step])

\* The query channel, frame_fd and the ring go last.
ReleaseShared ==
  /\ main.phase = "release"
  /\ closed' = closed \cup {"shared"}
  /\ main' = [main EXCEPT !.phase = "exit"]
  /\ UNCHANGED <<peer, admin, chan, query, control, producer, data, flags>>

Admin ==
  \/ AdminTop \/ AdminPoll \/ AdminRecv \/ AdminReply
  \/ SubmitPost \/ SubmitWake \/ SubmitReturn

Control ==
  \/ ControlTop \/ ControlPoll \/ QueryDrain \/ QueryComplete \/ QueryUnlock
  \/ ControlServe \/ ControlReceived \/ ControlScan

Main == StopThread \/ WakeThread \/ JoinThread \/ ReleaseShared

Next ==
  \/ \E p \in Peers : PeerConnects(p) \/ PeerSpeaks(p)
  \/ ProducerPauses
  \/ ProducerFinishes
  \/ Admin
  \/ Control
  \/ DataEnds
  \/ Signal
  \/ Main

Spec == Init /\ [][Next]_vars

\* Every thread of the server that can run does run.
FairSpec ==
  /\ Spec
  /\ WF_vars(Admin)
  /\ WF_vars(Control)
  /\ WF_vars(DataEnds)
  /\ WF_vars(Main)

\* Besides, nobody stays silent for ever in the middle of a message: the server
\* has no receive timeout, so it relies on this.
PatientSpec ==
  /\ FairSpec
  /\ \A p \in Peers : WF_vars(PeerSpeaks(p))
  /\ SF_vars(ControlReceived)
  /\ WF_vars(ProducerFinishes)

-----------------------------------------------------------------------------
(* Properties *)

\* Type invariant; the wakeup pipe never holds more than one byte.
TypeOK ==
  /\ peer \in [Peers -> [at : {"away", "backlog", "served"},
                         said : {"nothing", "request", "junk", "eof"}]]
  /\ admin \in [phase : {"top", "poll", "recv", "post", "wake", "wait", "reply",
                         "done"},
                peer : Peers \cup {Nobody}]
  /\ chan \in [pending : Peers \cup {Nobody}, bytes : 0 .. 1]
  /\ query \in [done : BOOLEAN, locked : BOOLEAN]
  /\ control \in [phase : {"top", "poll", "drain", "complete", "unlock", "serve",
                           "blocked", "scan", "done"},
                  query : Peers \cup {Nobody}]
  /\ producer \in {"quiet", "partial"}
  /\ data \in {"run", "done"}
  /\ flags \in [Threads -> [running : BOOLEAN, byte : BOOLEAN]]
  /\ main \in [phase : {"sigwait", "stop", "wake", "join", "release", "exit"},
               step : 1 .. Len(ShutdownOrder)]
  /\ closed \subseteq Threads \cup {"shared"}

\* The control thread never touches a query that has gone out of scope: while it
\* holds the pointer, the admin thread is inside submit() for that very query.
QueryNotDangling ==
  control.query # Nobody => admin.phase = "wait" /\ admin.peer = control.query

\* "readable exactly when a query is waiting to be drained" (control_query.h), but
\* for the moment between posting the query and writing the byte.
WakeupMatchesQuery ==
  /\ chan.bytes = 1 => chan.pending # Nobody
  /\ chan.pending # Nobody => chan.bytes = 1 \/ admin.phase = "wake"

\* Nothing is released while a thread that uses it may still run.
SharedStateOutlivesThreads ==
  /\ \A t \in Threads \cap closed : Ended(t)
  /\ "shared" \in closed => Threads \subseteq closed

\* A posted query is answered.
QueryAnswered == admin.phase = "wait" ~> admin.phase = "reply"

\* SIGINT or SIGTERM ends the server, whatever the threads are doing: no thread
\* waits for one that main() has already stopped ("safe to stop even mid-drain,
\* since the admin thread is already gone", server.c).
ShutdownCompletes == main.phase = "stop" ~> main.phase = "exit"

\* "periodically calls wisps_session_table_check_heartbeat_timeouts() (every poll()
\* timeout tick) so a dead ACTIVE producer is evicted even if no fd ever becomes
\* readable again" (wisps_control_plane_run(), control_plane.h).
HeartbeatScanRecurs == []<>(control.phase \in {"scan", "done"})
=============================================================================
