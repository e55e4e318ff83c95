----------------------------- MODULE EventBuffer -----------------------------
(***************************************************************************)
(* What an event ring promises to the rest of EduMPI, without tickets,     *)
(* slots or atomics: a buffer of bounded capacity that takes an event or,  *)
(* only when it is full, refuses it and counts it, and that gives every    *)
(* event it took to the monitor thread.                                    *)
(***************************************************************************)
EXTENDS Integers

CONSTANT Capacity

VARIABLES accepted,   \* events the buffer took
          consumed,   \* events the monitor thread took out
          refused     \* events that were dropped

bufferVars == <<accepted, consumed, refused>>

Init == accepted = 0 /\ consumed = 0 /\ refused = 0

Accept ==
  /\ accepted - consumed < Capacity
  /\ accepted' = accepted + 1
  /\ UNCHANGED <<consumed, refused>>

Refuse ==
  /\ accepted - consumed = Capacity
  /\ refused' = refused + 1
  /\ UNCHANGED <<accepted, consumed>>

Consume ==
  /\ consumed < accepted
  /\ consumed' = consumed + 1
  /\ UNCHANGED <<accepted, refused>>

Next == Accept \/ Refuse \/ Consume

Spec == Init /\ [][Next]_bufferVars
=============================================================================
