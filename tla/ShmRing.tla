------------------------------- MODULE ShmRing -------------------------------
(***************************************************************************)
(* The bookkeeping of the shared frame ring: the inline functions of       *)
(* protocol/include/wisp/wire.h and server/src/shm/server_shm.c.           *)
(*                                                                         *)
(* Each function runs under the ring's robust mutex, so it is one operator *)
(* from ring to ring; only the generation is also read without the mutex.  *)
(* The mutex shows between these steps as free, or as dead when a process  *)
(* died holding it.  Pixels are not part of the ring here: who is writing  *)
(* or reading a buffer is the state of that thread.                        *)
(***************************************************************************)
EXTENDS Integers, FiniteSetsExt

CONSTANTS
  NumBuffers,     \* WISP_NUM_BUFFERS
  MaxGeneration   \* bound on the generation, which is a uint32_t

ASSUME BuffersAssumption == NumBuffers \in Nat /\ NumBuffers > 2
ASSUME MaxGenerationAssumption == MaxGeneration \in Nat \ {0}

Buffers == 0 .. NumBuffers - 1
None == -1
BufferOrNone == Buffers \cup {None}
Generations == 0 .. MaxGeneration

\* wisp_shm_ring_t
Ring ==
  [latest_ready : BufferOrNone, server_locked : BufferOrNone,
   client_locked : BufferOrNone, generation : Generations,
   mutex : {"free", "dead"}]

ring_create ==
  [latest_ready |-> None, server_locked |-> None, client_locked |-> None,
   generation |-> 0, mutex |-> "free"]

\* Mutant of CanLock: a plain mutex, never released by a dead owner.
CanLockMutant(r) == r.mutex = "free"

\* Whether pthread_mutex_lock() returns: the mutex is robust.
CanLock(r) == r.mutex \in {"free", "dead"}

\* wisp_shm_ring_lock(): EOWNERDEAD is answered with pthread_mutex_consistent(),
\* so the section and the unlock that follow leave the mutex free.
ring_lock(r) == [r EXCEPT !.mutex = "free"]

\* The buffers that the producer may take.
Writable(r) == Buffers \ {r.latest_ready, r.server_locked}

\* Mutant of FreeBuffer: the scan numbers the buffers from 1.
FreeBufferMutant(r) == Min((1 .. NumBuffers) \ {r.latest_ready, r.server_locked})

\* The one the scan returns.
FreeBuffer(r) == IF Writable(r) = {} THEN None ELSE Min(Writable(r))

\* The two aborts of wisp_shm_ring_write_slot().
ClaimAborts(r) == r.client_locked # None \/ FreeBuffer(r) = None

\* Mutant of write_slot: the buffer the server reads is not excluded.
write_slotMutant(r) ==
  [ring_lock(r) EXCEPT !.client_locked = Min(Buffers \ {r.latest_ready})]

write_slot(r) == [ring_lock(r) EXCEPT !.client_locked = FreeBuffer(r)]

publish_slot(r, idx) ==
  [ring_lock(r) EXCEPT !.latest_ready = idx, !.client_locked = None]

\* A process dies inside write_slot() or publish_slot(), after the first store.
DieInClaim(r) == [write_slot(r) EXCEPT !.mutex = "dead"]
DieInPublish(r, idx) ==
  [ring_lock(r) EXCEPT !.latest_ready = idx, !.mutex = "dead"]

checkout(r) ==
  IF r.latest_ready = None
  THEN ring_lock(r)
  ELSE [ring_lock(r) EXCEPT !.server_locked = r.latest_ready]

release(r) == [ring_lock(r) EXCEPT !.server_locked = None]

\* Mutant of evict_client: the published frame of the evicted client stays.
evict_clientMutant(r) ==
  [ring_lock(r) EXCEPT !.generation = @ + 1,
                       !.server_locked = None, !.client_locked = None]

\* Callers stay below MaxGeneration.
evict_client(r) ==
  [ring_lock(r) EXCEPT !.generation = @ + 1, !.latest_ready = None,
                       !.server_locked = None, !.client_locked = None]
=============================================================================
