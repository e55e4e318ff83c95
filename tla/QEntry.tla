------------------------------- MODULE QEntry -------------------------------
(***************************************************************************)
(* An entry of the event rings (struct qentry, ompi/mpi/c/init.h): what    *)
(* both ring modes and the PMLs read and write of it.                      *)
(***************************************************************************)
EXTENDS Integers

(* The lifecycle word of an entry, (ticket << 2) | state.                  *)
LC(ticket, state) == [ticket |-> ticket, state |-> state]
LCStates == {"NONE", "PENDING", "FINISHING", "ABANDONED"}

(* What matters of a qentry: the call it describes (0: not yet filled in), *)
(* the halves of the end stamp that are not zero, the two request flags,   *)
(* whether the received size is known, and the lifecycle word.             *)
Halves == {"tv_sec", "tv_nsec"}
Entry == [call : Nat, end : SUBSET Halves, pending_request : BOOLEAN,
          request_done : BOOLEAN, recvDatasize : BOOLEAN,
          lifecycle : [ticket : Nat, state : LCStates]]

(* edumpi_entry_reset: everything zero, a new ticket.                      *)
Reset(ticket) == [call |-> 0, end |-> {}, pending_request |-> FALSE,
                  request_done |-> FALSE, recvDatasize |-> FALSE,
                  lifecycle |-> LC(ticket, "NONE")]

entry_complete(e) == e.end # {}
request_ready(e)  == ~e.pending_request \/ e.request_done
=============================================================================
