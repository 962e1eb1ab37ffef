-------------------------- MODULE AdminPlaneProofs --------------------------
(***************************************************************************)
(* Proofs about AdminPlane, for any number of admin connections: the query *)
(* that the control thread works on is never out of scope, the wakeup byte *)
(* and the posted query come and go together, and main() releases nothing  *)
(* that a running thread uses.                                             *)
(*                                                                         *)
(* The first two rest on one invariant that says where the only query can  *)
(* be: with the admin thread, posted in the channel, with the control      *)
(* thread, or answered.  The third rests on an invariant that relates the  *)
(* progress of main() to what it has released.                             *)
(***************************************************************************)
EXTENDS AdminPlane, TLAPS

\* The steps of handle_connection().
Serving == {"recv", "post", "wake", "wait", "reply"}

\* No query is posted, announced or being worked on.
ChannelClear ==
  chan.pending = Nobody /\ chan.bytes = 0 /\ control.query = Nobody

\* The query of the connection being served is in the channel.
Posted(bytes) ==
  /\ chan.pending = admin.peer
  /\ chan.bytes = bytes
  /\ control.query = Nobody
  /\ ~ query.done

\* The control thread has it.
Taken ==
  /\ chan.pending = Nobody
  /\ chan.bytes = 0
  /\ control.query = admin.peer
  /\ \/ control.phase = "complete" /\ ~ query.done
     \/ control.phase = "unlock" /\ query.done /\ query.locked

\* Where the only query can be, by the step of the admin thread.
QueryPlace ==
  /\ admin.phase \in Serving => admin.peer \in Peers
  /\ admin.phase \notin {"wake", "wait"} => ChannelClear
  /\ admin.phase = "wake" => Posted(0)
  /\ admin.phase = "wait" => Posted(1) \/ Taken \/ (ChannelClear /\ query.done)
  /\ control.query # Nobody <=> control.phase \in {"complete", "unlock"}
  /\ control.phase = "drain" => chan.bytes = 1

\* What main() has released, by its step.
Teardown ==
  /\ \A t \in Threads \cap closed : Ended(t)
  /\ "shared" \in closed => Threads \subseteq closed
  /\ main.phase \in {"release", "exit"} => Threads \subseteq closed
  /\ \A k \in 1 .. 3 : k < main.step => ShutdownOrder[k] \in closed

Inv == TypeOK /\ QueryPlace /\ Teardown

-----------------------------------------------------------------------------

\* main() stops each of the three threads once.
LEMMA OrderFacts ==
  /\ Len(ShutdownOrder) = 3
  /\ \A k \in 1 .. 3 : ShutdownOrder[k] \in Threads
  /\ \A t \in Threads : \E k \in 1 .. 3 : ShutdownOrder[k] = t
<1>1. /\ Len(ShutdownOrder) = 3
      /\ ShutdownOrder[1] = "admin"
      /\ ShutdownOrder[2] = "control"
      /\ ShutdownOrder[3] = "data"
  BY DEF ShutdownOrder
<1>2. /\ \A k \in 1 .. 3 : k = 1 \/ k = 2 \/ k = 3
      /\ 1 \in 1 .. 3 /\ 2 \in 1 .. 3 /\ 3 \in 1 .. 3
  OBVIOUS
<1> QED BY <1>1, <1>2 DEF Threads

\* The invariant holds when the threads start.
LEMMA InitInv == Init => Inv
<1> SUFFICES ASSUME Init PROVE Inv
  OBVIOUS
<1>1. TypeOK
  BY OrderFacts DEF Init, TypeOK
<1>2. QueryPlace
  BY DEF Init, QueryPlace, ChannelClear, Serving
<1>3. Teardown
  BY DEF Init, Teardown
<1> QED BY <1>1, <1>2, <1>3 DEF Inv

\* Clients, producers and main() do not touch the rendezvous.
LEMMA OthersKeepPlace ==
  ASSUME QueryPlace, UNCHANGED <<admin, chan, query, control>>
  PROVE  QueryPlace'
BY DEF QueryPlace, ChannelClear, Posted, Taken

\* Every step of the admin and the control thread leaves the query in one place.
\* The admin thread cannot leave submit() while the control thread has the query:
\* done is only set under the query's lock, and the lock is the last thing freed.
LEMMA PlaceStep == TypeOK /\ QueryPlace /\ [Next]_vars => QueryPlace'
<1> SUFFICES ASSUME TypeOK, QueryPlace, [Next]_vars
             PROVE  QueryPlace'
  OBVIOUS
<1> USE PeersAssumption
<1>1. CASE AdminTop
  BY <1>1 DEF AdminTop, TypeOK, QueryPlace, ChannelClear, Serving
<1>2. CASE AdminPoll
  BY <1>2 DEF AdminPoll, Backlog, TypeOK, QueryPlace, ChannelClear, Serving
<1>3. CASE AdminRecv
  BY <1>3 DEF AdminRecv, Hangup, TypeOK, QueryPlace, ChannelClear, Serving
<1>4. CASE AdminReply
  BY <1>4 DEF AdminReply, Hangup, TypeOK, QueryPlace, ChannelClear, Serving
<1>5. CASE SubmitPost
  BY <1>5 DEF SubmitPost, TypeOK, QueryPlace, ChannelClear, Posted, Serving
<1>6. CASE SubmitWake
  BY <1>6 DEF SubmitWake, TypeOK, QueryPlace, Posted, Serving
<1>7. CASE SubmitReturn
  BY <1>7 DEF SubmitReturn, TypeOK, QueryPlace, ChannelClear, Posted, Taken, Serving
<1>8. CASE ControlTop
  BY <1>8 DEF ControlTop, TypeOK, QueryPlace, ChannelClear, Posted, Taken
<1>9. CASE ControlPoll
  BY <1>9 DEF ControlPoll, TypeOK, QueryPlace, ChannelClear, Posted, Taken
<1>10. CASE QueryDrain
  BY <1>10 DEF QueryDrain, TypeOK, QueryPlace, ChannelClear, Posted, Taken, Serving
<1>11. CASE QueryComplete
  BY <1>11 DEF QueryComplete, TypeOK, QueryPlace, ChannelClear, Posted, Taken, Serving
<1>12. CASE QueryUnlock
  BY <1>12 DEF QueryUnlock, TypeOK, QueryPlace, ChannelClear, Posted, Taken, Serving
<1>13. CASE ControlServe
  BY <1>13 DEF ControlServe, TypeOK, QueryPlace, ChannelClear, Posted, Taken
<1>14. CASE ControlReceived
  BY <1>14 DEF ControlReceived, TypeOK, QueryPlace, ChannelClear, Posted, Taken
<1>15. CASE ControlScan
  BY <1>15 DEF ControlScan, TypeOK, QueryPlace, ChannelClear, Posted, Taken
<1>16. CASE \E p \in Peers : PeerConnects(p) \/ PeerSpeaks(p)
  BY <1>16, OthersKeepPlace DEF PeerConnects, PeerSpeaks
<1>17. CASE ProducerPauses \/ ProducerFinishes
  BY <1>17, OthersKeepPlace DEF ProducerPauses, ProducerFinishes
<1>18. CASE DataEnds \/ Signal \/ Main
  BY <1>18, OthersKeepPlace
     DEF DataEnds, Signal, Main, StopThread, WakeThread, JoinThread, Joined,
         ReleaseShared
<1>19. CASE UNCHANGED vars
  BY <1>19, OthersKeepPlace DEF vars
<1> QED
  BY <1>1, <1>2, <1>3, <1>4, <1>5, <1>6, <1>7, <1>8, <1>9, <1>10, <1>11, <1>12,
     <1>13, <1>14, <1>15, <1>16, <1>17, <1>18, <1>19 DEF Next, Admin, Control

\* The states of the admin connections.
PeerStates == [Peers -> [at : {"away", "backlog", "served"},
                         said : {"nothing", "request", "junk", "eof"}]]

\* Every step keeps the types; a second byte is never written to the wakeup pipe.
LEMMA TypeStep == TypeOK /\ QueryPlace /\ [Next]_vars => TypeOK'
<1> SUFFICES ASSUME TypeOK, QueryPlace, [Next]_vars
             PROVE  TypeOK'
  OBVIOUS
<1>1. CASE AdminTop
  BY <1>1 DEF AdminTop, TypeOK
<1>2. CASE AdminPoll
  <2>1. CASE admin' = [admin EXCEPT !.phase = "done"] /\ UNCHANGED peer
    BY <1>2, <2>1 DEF AdminPoll, TypeOK
  <2>2. CASE \E p \in Peers : /\ peer' = [peer EXCEPT ![p].at = "served"]
                             /\ admin' = [phase |-> "recv", peer |-> p]
    <3>1. PICK p \in Peers : /\ peer' = [peer EXCEPT ![p].at = "served"]
                             /\ admin' = [phase |-> "recv", peer |-> p]
      BY <2>2
    <3>2. peer' \in PeerStates
      BY <3>1 DEF TypeOK, PeerStates
    <3>3. UNCHANGED <<chan, query, control, producer, data, flags, main, closed>>
      BY <1>2 DEF AdminPoll
    <3> QED BY <3>1, <3>2, <3>3 DEF TypeOK, PeerStates
  <2> QED BY <1>2, <2>1, <2>2 DEF AdminPoll, Backlog
<1>3. CASE AdminRecv \/ AdminReply
  <2>1. CASE Hangup /\ UNCHANGED <<chan, query, control, producer, data, flags,
                                   main, closed>>
    <3>1. peer' \in PeerStates
      BY <2>1 DEF Hangup, TypeOK, PeerStates
    <3>2. admin' = [phase |-> "top", peer |-> Nobody]
      BY <2>1 DEF Hangup
    <3> QED BY <2>1, <3>1, <3>2 DEF TypeOK, PeerStates
  <2>2. CASE AdminRecv /\ ~ Hangup
    <3>1. admin' = [admin EXCEPT !.phase = "post"]
      BY <2>2 DEF AdminRecv
    <3>2. UNCHANGED <<peer, chan, query, control, producer, data, flags, main, closed>>
      BY <2>2 DEF AdminRecv
    <3> QED BY <3>1, <3>2 DEF TypeOK
  <2> QED BY <1>3, <2>1, <2>2 DEF AdminRecv, AdminReply
<1>4. CASE SubmitPost \/ SubmitReturn
  <2>1. CASE SubmitPost
    <3>1. /\ admin' = [admin EXCEPT !.phase = "wake"]
          /\ chan' = [chan EXCEPT !.pending = admin.peer]
          /\ query' = [done |-> FALSE, locked |-> FALSE]
      BY <2>1 DEF SubmitPost
    <3>2. UNCHANGED <<peer, control, producer, data, flags, main, closed>>
      BY <2>1 DEF SubmitPost
    <3>3. query' \in [done : BOOLEAN, locked : BOOLEAN]
      BY <3>1
    <3>4. chan' \in [pending : Peers \cup {Nobody}, bytes : 0 .. 1]
      BY <3>1 DEF TypeOK
    <3> QED BY <3>1, <3>2, <3>3, <3>4 DEF TypeOK
  <2>2. CASE SubmitReturn
    BY <2>2 DEF SubmitReturn, TypeOK
  <2> QED BY <1>4, <2>1, <2>2
<1>5. CASE SubmitWake
  BY <1>5 DEF SubmitWake, TypeOK, QueryPlace, Posted
<1>6. CASE ControlTop
  BY <1>6 DEF ControlTop, TypeOK
<1>7. CASE ControlPoll
  BY <1>7 DEF ControlPoll, TypeOK
<1>8. CASE QueryDrain
  BY <1>8 DEF QueryDrain, TypeOK, QueryPlace
<1>9. CASE QueryComplete \/ QueryUnlock
  <2>1. control' \in [phase : {"unlock", "serve"}, query : Peers \cup {Nobody}]
    BY <1>9 DEF QueryComplete, QueryUnlock, TypeOK
  <2>2. query' \in [done : BOOLEAN, locked : BOOLEAN]
    <3>1. [query EXCEPT !.locked = FALSE] \in [done : BOOLEAN, locked : BOOLEAN]
      BY DEF TypeOK
    <3>2. [done |-> TRUE, locked |-> TRUE] \in [done : BOOLEAN, locked : BOOLEAN]
      OBVIOUS
    <3> QED BY <1>9, <3>1, <3>2, Zenon DEF QueryComplete, QueryUnlock
  <2>3. UNCHANGED <<peer, admin, chan, producer, data, flags, main, closed>>
    BY <1>9 DEF QueryComplete, QueryUnlock
  <2> QED BY <2>1, <2>2, <2>3 DEF TypeOK
<1>10. CASE ControlServe \/ ControlReceived \/ ControlScan
  <2>1. PICK ph \in {"scan", "blocked", "top"} :
          control' = [control EXCEPT !.phase = ph]
    BY <1>10 DEF ControlServe, ControlReceived, ControlScan
  <2>2. UNCHANGED <<peer, admin, chan, query, producer, data, flags, main, closed>>
    BY <1>10 DEF ControlServe, ControlReceived, ControlScan
  <2> QED BY <2>1, <2>2 DEF TypeOK
<1>11. CASE \E p \in Peers : PeerConnects(p) \/ PeerSpeaks(p)
  BY <1>11 DEF PeerConnects, PeerSpeaks, TypeOK
<1>12. CASE ProducerPauses \/ ProducerFinishes \/ DataEnds \/ Signal
  BY <1>12 DEF ProducerPauses, ProducerFinishes, DataEnds, Signal, TypeOK
<1>13. CASE StopThread \/ WakeThread
  <2>1. PICK t \in Threads : t = ShutdownOrder[main.step]
    BY OrderFacts DEF TypeOK
  <2>2. \/ flags' = [flags EXCEPT ![t].running = FALSE]
        \/ flags' = [flags EXCEPT ![t].byte = TRUE]
    BY <1>13, <2>1 DEF StopThread, WakeThread
  <2>3. flags' \in [Threads -> [running : BOOLEAN, byte : BOOLEAN]]
    <3> DEFINE F == [running : BOOLEAN, byte : BOOLEAN]
    <3>1. flags \in [Threads -> F] /\ flags[t] \in F
      BY DEF TypeOK
    <3>2. /\ [flags[t] EXCEPT !.running = FALSE] \in F
          /\ [flags[t] EXCEPT !.byte = TRUE] \in F
      BY <3>1
    <3>3. \E f \in F : flags' = [flags EXCEPT ![t] = f]
      BY <2>2, <3>2, Zenon
    <3> HIDE DEF F
    <3>4. flags' \in [Threads -> F]
      BY <3>1, <3>3
    <3> QED BY <3>4 DEF F
  <2>4. main' \in [phase : {"wake", "join"}, step : 1 .. Len(ShutdownOrder)]
    BY <1>13 DEF StopThread, WakeThread, TypeOK
  <2>5. UNCHANGED <<peer, admin, chan, query, control, producer, data, closed>>
    BY <1>13 DEF StopThread, WakeThread
  <2> QED BY <2>3, <2>4, <2>5 DEF TypeOK
<1>14. CASE JoinThread
  BY <1>14, OrderFacts DEF JoinThread, Joined, TypeOK
<1>15. CASE ReleaseShared
  BY <1>15 DEF ReleaseShared, TypeOK
<1>16. CASE UNCHANGED vars
  BY <1>16 DEF vars, TypeOK
<1> QED
  BY <1>1, <1>2, <1>3, <1>4, <1>5, <1>6, <1>7, <1>8, <1>9, <1>10, <1>11, <1>12,
     <1>13, <1>14, <1>15, <1>16 DEF Next, Admin, Control, Main

\* A thread that has ended does not start again.
LEMMA EndIsFinal ==
  ASSUME TypeOK, [Next]_vars, NEW t \in Threads, Ended(t)
  PROVE  Ended(t)'
<1>1. /\ admin.phase = "done" => admin'.phase = "done"
      /\ control.phase = "done" => control'.phase = "done"
      /\ data = "done" => data' = "done"
  BY DEF Next, vars, PeerConnects, PeerSpeaks, ProducerPauses, ProducerFinishes,
         Admin, AdminTop, AdminPoll, AdminRecv, AdminReply, SubmitPost,
         SubmitWake, SubmitReturn, Control, ControlTop, ControlPoll, QueryDrain,
         QueryComplete, QueryUnlock, ControlServe, ControlReceived, ControlScan,
         DataEnds, Signal, Main, StopThread, WakeThread, JoinThread, Joined,
         ReleaseShared
<1>2. CASE t = "admin"
  BY <1>1, <1>2 DEF Ended
<1>3. CASE t = "control"
  BY <1>1, <1>3 DEF Ended
<1>4. CASE t = "data"
  BY <1>1, <1>4 DEF Ended
<1> QED BY <1>2, <1>3, <1>4 DEF Threads

\* A step of main() releases a thread's state only after that thread has ended,
\* and the shared state only after all three.
LEMMA TeardownStep == TypeOK /\ Teardown /\ [Next]_vars => Teardown'
<1> SUFFICES ASSUME TypeOK, Teardown, [Next]_vars
             PROVE  Teardown'
  OBVIOUS
<1>1. \A t \in Threads \cap closed : Ended(t)'
  BY EndIsFinal DEF Teardown
<1>2. CASE UNCHANGED <<main, closed>>
  BY <1>1, <1>2 DEF Teardown
<1>3. CASE UNCHANGED closed /\ main.phase # "exit" /\ main'.step = main.step
           /\ main'.phase \in {"stop", "wake", "join"}
  BY <1>1, <1>3 DEF Teardown
<1>4. CASE JoinThread
  <2>1. PICK t \in Threads : t = ShutdownOrder[main.step]
    BY OrderFacts DEF TypeOK
  <2>2. /\ main.step \in 1 .. 3
        /\ Ended(t)
        /\ closed' = closed \cup {t}
    BY <1>4, <2>1, OrderFacts DEF JoinThread, Joined, TypeOK
  <2>3. \A u \in Threads \cap closed' : Ended(u)'
    BY <1>1, <2>2, EndIsFinal
  <2>4. \/ main.step = 3 /\ main' = [main EXCEPT !.phase = "release"]
        \/ main.step # 3 /\ main' = [phase |-> "stop", step |-> main.step + 1]
    BY <1>4, OrderFacts DEF JoinThread, Joined
  <2>5. \A k \in 1 .. 3 : k < main.step + 1 => ShutdownOrder[k] \in closed'
    BY <2>1, <2>2 DEF Teardown
  <2>6. "shared" \in closed => Threads \subseteq closed
    BY DEF Teardown
  <2>7. "shared" \notin Threads
    BY DEF Threads
  <2>8. \A k \in 1 .. 3 : k < main'.step => ShutdownOrder[k] \in closed'
    BY <2>2, <2>4, <2>5 DEF TypeOK
  <2>9. main.step = 3 => Threads \subseteq closed'
    BY <2>5, OrderFacts
  <2>10. main'.phase \in {"release", "exit"} => Threads \subseteq closed'
    BY <2>4, <2>9 DEF TypeOK
  <2>11. "shared" \in closed' => Threads \subseteq closed'
    BY <2>2, <2>6, <2>7
  <2> QED BY <2>3, <2>8, <2>10, <2>11 DEF Teardown
<1>5. CASE ReleaseShared
  <2>1. /\ Threads \subseteq closed
        /\ closed' = closed \cup {"shared"}
        /\ main'.step = main.step
    BY <1>5 DEF ReleaseShared, Teardown, TypeOK
  <2>2. "shared" \notin Threads
    BY DEF Threads
  <2>3. \A u \in Threads \cap closed' : Ended(u)'
    BY <1>1, <2>1, <2>2
  <2>4. \A k \in 1 .. 3 : k < main'.step => ShutdownOrder[k] \in closed'
    BY <2>1 DEF Teardown
  <2> QED BY <2>1, <2>3, <2>4 DEF Teardown
<1>6. CASE Signal \/ StopThread \/ WakeThread
  BY <1>3, <1>6 DEF Signal, StopThread, WakeThread, TypeOK
<1> QED
  BY <1>2, <1>4, <1>5, <1>6
     DEF Next, vars, PeerConnects, PeerSpeaks, ProducerPauses, ProducerFinishes,
         Admin, AdminTop, AdminPoll, AdminRecv, AdminReply, SubmitPost,
         SubmitWake, SubmitReturn, Control, ControlTop, ControlPoll, QueryDrain,
         QueryComplete, QueryUnlock, ControlServe, ControlReceived, ControlScan,
         DataEnds, Main

-----------------------------------------------------------------------------

\* The inductive invariant holds in every behaviour of the server's threads.
THEOREM Invariance == Spec => []Inv
<1>1. Init => Inv
  BY InitInv
<1>2. Inv /\ [Next]_vars => Inv'
  BY TypeStep, PlaceStep, TeardownStep DEF Inv
<1> QED BY <1>1, <1>2, PTL DEF Spec

\* The types hold for any number of admin connections; in particular the wakeup
\* pipe never holds two bytes, so the write in submit() cannot block.
THEOREM TypeCorrect == Spec => []TypeOK
<1>1. Inv => TypeOK
  BY DEF Inv
<1> QED BY <1>1, Invariance, PTL

\* The control thread never holds a pointer to a query whose stack frame is gone:
\* the admin thread is inside submit() for that very query.
THEOREM QueryInScope == Spec => []QueryNotDangling
<1>1. Inv => QueryNotDangling
  <2> SUFFICES ASSUME Inv, control.query # Nobody
               PROVE  admin.phase = "wait" /\ admin.peer = control.query
    BY DEF QueryNotDangling
  <2> QED BY DEF Inv, QueryPlace, ChannelClear, Posted, Taken
<1> QED BY <1>1, Invariance, PTL

\* The control thread is woken exactly when a query is posted, but for the moment
\* between the post and the write.
THEOREM WakeupExact == Spec => []WakeupMatchesQuery
<1>1. Inv => WakeupMatchesQuery
  BY PeersAssumption
     DEF Inv, TypeOK, QueryPlace, ChannelClear, Posted, Taken, Serving,
         WakeupMatchesQuery
<1> QED BY <1>1, Invariance, PTL

\* main() closes a plane only after its thread has ended, and the query channel,
\* the frame descriptor and the ring only after all three have.
THEOREM ReleaseIsSafe == Spec => []SharedStateOutlivesThreads
<1>1. Inv => SharedStateOutlivesThreads
  BY DEF Inv, Teardown, SharedStateOutlivesThreads
<1> QED BY <1>1, Invariance, PTL
=============================================================================
