----------------------------- MODULE MCCommCid ------------------------------
(* Instances of CommCid for TLC. *)
EXTENDS CommCid, TLC
CONSTANTS p1, p2, p3

\* Two creations that meet in two processes, one of which will not be in the
\* first communicator; ids are taken differently everywhere.
MCProcs == {p1, p2, p3}
MCCreations == {1, 2}
MCMembers == (1 :> {p1, p2, p3} @@ 2 :> {p2, p3})
MCGroup == (1 :> {p1, p2} @@ 2 :> {p2, p3})
MCTables ==
    {(p1 :> {0} @@ p2 :> {0, 2} @@ p3 :> {0, 1}),
     (p1 :> {0, 2} @@ p2 :> {0, 1, 3} @@ p3 :> {0, 2})}
=============================================================================
