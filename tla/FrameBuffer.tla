---------------------------- MODULE FrameBuffer ----------------------------
(***************************************************************************)
(* The contract of IFrameBuffer (frame-buffer.hpp): a lossy queue between  *)
(* threads.  A push always stores its value, at the price of the oldest    *)
(* ones; a pop takes the oldest value still stored; after Close nothing    *)
(* enters any more and what is stored can still be drained.                *)
(*                                                                         *)
(* A value is the number of the accepted push that brought it.             *)
(***************************************************************************)
EXTENDS Naturals, Sequences

VARIABLES stored,   \* the values a consumer may still get, oldest first
          newest,   \* the number of the last accepted push
          closed

bufferVars == <<stored, newest, closed>>

BufferInit == stored = <<>> /\ newest = 0 /\ closed = FALSE

\* The new value enters; any number of the oldest ones may have to leave.
Store == /\ ~closed
         /\ newest' = newest + 1
         /\ \E kept \in 0..Len(stored) :
              stored' = Append(SubSeq(stored, Len(stored) - kept + 1, Len(stored)),
                               newest')
         /\ UNCHANGED closed

\* The oldest value leaves to a consumer.
Deliver == /\ stored # <<>>
           /\ stored' = Tail(stored)
           /\ UNCHANGED <<newest, closed>>

Shut == closed' = TRUE /\ UNCHANGED <<stored, newest>>

BufferNext == Store \/ Deliver \/ Shut

Contract == BufferInit /\ [][BufferNext]_bufferVars
=============================================================================
