------------------------------ MODULE CommCid -------------------------------
(* Agreement on the context id (CID) of new communicators, the algorithm of   *)
(* ompi_comm_nextcid_nb that needs no runtime support: the members of the     *)
(* parent propose their lowest free id, take the maximum, test whether it is  *)
(* free everywhere, and start over if not. Several creations run at once, on  *)
(* different parents; their order in a process is kept by                     *)
(* ompi_comm_cid_lowest_id. Each handler runs under ompi_cid_lock (it is put  *)
(* back on the schedule when the lock is taken) and is one action.            *)
EXTENDS Integers, FiniteSetsExt, Sequences

CONSTANTS Procs,
          Creations,   \* communicators being created, numbered by my_id
          Members,     \* Members[c]: processes of the parent of c
          Group,       \* Group[c]: those that will be in c
          Tables,      \* ids in use before, functions from Procs to sets
          MaxCid       \* mca_pml.pml_max_contextid

ASSUME CommCidAssumption ==
    /\ MaxCid \in Nat \ {0} /\ Creations \subseteq Nat /\ IsFiniteSet(Procs)
    /\ Members \in [Creations -> SUBSET Procs]
    /\ Group \in [Creations -> SUBSET Procs]
    /\ \A c \in Creations : Group[c] \subseteq Members[c] /\ Group[c] # {}
    /\ Tables \subseteq [Procs -> SUBSET (0 .. MaxCid - 1)]

Cids == 0 .. MaxCid      \* MaxCid itself stands for "none left"
Free == -1
Other == -2              \* a communicator that existed before
NoId == -3               \* INT64_MAX

VARIABLES
    table,    \* ompi_mpi_communicators: Free, Other, or the creation that
              \* holds the entry (by the sentinel or its communicator)
    lowest,   \* ompi_comm_cid_lowest_id
    ctx,      \* ctx[p][c]: the request's next callback and its context
    coll      \* coll[c][p]: what p gave to the allreduces of c so far

vars == <<table, lowest, ctx, coll>>

Init ==
    /\ \E used \in Tables :
          table = [p \in Procs |-> [i \in Cids |-> IF i \in used[p] THEN Other ELSE Free]]
    /\ lowest = [p \in Procs |-> NoId]
    /\ ctx = [p \in Procs |-> [c \in Creations |->
                 [at |-> "todo", start |-> 0, nextlocal |-> 0, nextcid |-> 0, flag |-> 0]]]
    /\ coll = [c \in Creations |-> [p \in Procs |-> <<>>]]

\* The first id from start on that opal_pointer_array_test_and_set_item gives.
FirstFree(p, start) ==
    LET free == {i \in start .. MaxCid - 1 : table[p][i] = Free}
    IN IF free = {} THEN MaxCid ELSE Min(free)

\* opal_pointer_array_set_item with NULL at i and with the new value at j.
Move(p, i, j, c) ==
    [table EXCEPT ![p] = [k \in Cids |-> IF k = j THEN c ELSE IF k = i THEN Free ELSE @[k]]]

\* The last allreduce p took part in is complete; what each member gave.
Complete(p, c) == \A q \in Members[c] : Len(coll[c][q]) >= Len(coll[c][p])
Given(p, c) == {coll[c][q][Len(coll[c][p])] : q \in Members[c]}

Contribute(p, c, value) == coll' = [coll EXCEPT ![c][p] = Append(@, value)]

-----------------------------------------------------------------------------
\* ompi_comm_nextcid_nb
NextCid(p, c) ==
    /\ p \in Members[c] /\ ctx[p][c].at = "todo"
    /\ ctx' = [ctx EXCEPT ![p][c].at = "getnext", ![p][c].start = FirstFree(p, 0)]
    /\ UNCHANGED <<table, lowest, coll>>

\* A creation with a smaller number goes first.
Waits(p, c) == lowest[p] # NoId /\ lowest[p] < c

\* ompi_comm_allreduce_getnextcid
GetNextCid(p, c) ==
    LET local == IF p \in Group[c] THEN FirstFree(p, ctx[p][c].start) ELSE 0
        out == local = MaxCid
    IN /\ ctx[p][c].at = "getnext" /\ ~Waits(p, c)
       /\ table' = IF p \in Group[c] /\ ~out THEN [table EXCEPT ![p][local] = c] ELSE table
       /\ Contribute(p, c, local)
       /\ lowest' = [lowest EXCEPT ![p] = IF out THEN NoId ELSE c]
       /\ ctx' = [ctx EXCEPT ![p][c].at = IF out THEN "failed" ELSE "checkcid",
                             ![p][c].nextlocal = local]

\* ompi_comm_checkcid
CheckCid_NotFreed(p, c) ==
    LET next == Max(Given(p, c))
        ok == next = ctx[p][c].nextlocal \/ table[p][next] = Free
        flag == IF p \notin Group[c] \/ ok THEN 1 ELSE 0
    IN /\ ctx[p][c].at = "checkcid" /\ Complete(p, c)
       /\ table' = IF p \in Group[c] /\ ok THEN [table EXCEPT ![p][next] = c] ELSE table
       /\ Contribute(p, c, flag)
       /\ ctx' = [ctx EXCEPT ![p][c].at = "check_flag", ![p][c].nextcid = next, ![p][c].flag = flag]
       /\ UNCHANGED lowest
CheckCid_Assumed(p, c) ==
    LET next == Max(Given(p, c))
        local == ctx[p][c].nextlocal
    IN /\ ctx[p][c].at = "checkcid" /\ Complete(p, c)
       /\ table' = IF p \notin Group[c] THEN table ELSE Move(p, local, next, c)
       /\ Contribute(p, c, 1)
       /\ ctx' = [ctx EXCEPT ![p][c].at = "check_flag", ![p][c].nextcid = next, ![p][c].flag = 1]
       /\ UNCHANGED lowest
CheckCid(p, c) ==
    LET next == Max(Given(p, c))
        local == ctx[p][c].nextlocal
        ok == next = local \/ table[p][next] = Free
        flag == IF p \notin Group[c] \/ ok THEN 1 ELSE 0
    IN /\ ctx[p][c].at = "checkcid" /\ Complete(p, c)
       /\ table' = IF p \notin Group[c] THEN table
                   ELSE IF ok THEN Move(p, local, next, c)
                   ELSE [table EXCEPT ![p][local] = Free]
       /\ Contribute(p, c, flag)
       /\ ctx' = [ctx EXCEPT ![p][c].at = "check_flag", ![p][c].nextcid = next, ![p][c].flag = flag]
       /\ UNCHANGED lowest

\* ompi_comm_nextcid_check_flag, everybody agreed. A process outside of the new
\* group takes any id of its own.
Agreed_Proposal(p, c) ==
    LET id == IF p \in Group[c] THEN ctx[p][c].nextlocal ELSE FirstFree(p, ctx[p][c].start)
    IN /\ ctx[p][c].at = "check_flag" /\ Complete(p, c) /\ 0 \notin Given(p, c)
       /\ table' = [table EXCEPT ![p][id] = c]
       /\ lowest' = [lowest EXCEPT ![p] = NoId]
       /\ ctx' = [ctx EXCEPT ![p][c].at = "done", ![p][c].nextcid = id]
       /\ UNCHANGED coll
Agreed_KeepsLowest(p, c) ==
    LET id == IF p \in Group[c] THEN ctx[p][c].nextcid ELSE FirstFree(p, ctx[p][c].start)
    IN /\ ctx[p][c].at = "check_flag" /\ Complete(p, c) /\ 0 \notin Given(p, c)
       /\ table' = [table EXCEPT ![p][id] = c]
       /\ ctx' = [ctx EXCEPT ![p][c].at = "done", ![p][c].nextcid = id]
       /\ UNCHANGED <<lowest, coll>>
Agreed(p, c) ==
    LET id == IF p \in Group[c] THEN ctx[p][c].nextcid ELSE FirstFree(p, ctx[p][c].start)
    IN /\ ctx[p][c].at = "check_flag" /\ Complete(p, c) /\ 0 \notin Given(p, c)
       /\ table' = [table EXCEPT ![p][id] = c]
       /\ lowest' = [lowest EXCEPT ![p] = NoId]
       /\ ctx' = [ctx EXCEPT ![p][c].at = "done", ![p][c].nextcid = id]
       /\ UNCHANGED coll

\* The same, somebody did not: give the id back and try again further up.
Again_AddsUp(p, c) ==
    LET mine == p \in Group[c] /\ ctx[p][c].flag # 0
    IN /\ ctx[p][c].at = "check_flag" /\ Complete(p, c) /\ 0 \in Given(p, c)
       /\ table' = IF mine THEN [table EXCEPT ![p][ctx[p][c].nextcid] = Free] ELSE table
       /\ ctx' = [ctx EXCEPT ![p][c].at = "getnext",
                             ![p][c].start = IF mine THEN @ + ctx[p][c].nextcid + 1 ELSE @]
       /\ UNCHANGED <<lowest, coll>>
Again(p, c) ==
    LET mine == p \in Group[c] /\ ctx[p][c].flag # 0
    IN /\ ctx[p][c].at = "check_flag" /\ Complete(p, c) /\ 0 \in Given(p, c)
       /\ table' = IF mine THEN [table EXCEPT ![p][ctx[p][c].nextcid] = Free] ELSE table
       /\ ctx' = [ctx EXCEPT ![p][c].at = "getnext",
                             ![p][c].start = IF mine THEN ctx[p][c].nextcid + 1 ELSE @]
       /\ UNCHANGED <<lowest, coll>>

\* The communicator is freed, by its processes at different times.
CommFree(p, c) ==
    /\ ctx[p][c].at = "done"
    /\ table' = [table EXCEPT ![p][ctx[p][c].nextcid] = Free]
    /\ ctx' = [ctx EXCEPT ![p][c].at = "freed"]
    /\ UNCHANGED <<lowest, coll>>

Handler(p, c) ==
    NextCid(p, c) \/ GetNextCid(p, c) \/ CheckCid(p, c) \/ Agreed(p, c) \/ Again(p, c)

Ended(p, c) == p \in Members[c] => ctx[p][c].at \in {"done", "freed"}
AllEnded == \A p \in Procs, c \in Creations : Ended(p, c)

Next == \E p \in Procs, c \in Creations : Handler(p, c) \/ CommFree(p, c)

Spec == Init /\ [][Next]_vars

\* opal_progress runs ompi_comm_request_progress, which visits every active
\* request; the parents' allreduces complete once everybody has joined.
FairSpec == Spec /\ \A p \in Procs, c \in Creations : WF_vars(Handler(p, c))

-----------------------------------------------------------------------------
TypeOK ==
    /\ table \in [Procs -> [Cids -> Creations \cup {Free, Other}]]
    /\ lowest \in [Procs -> Creations \cup {NoId}]
    /\ ctx \in [Procs -> [Creations ->
          [at : {"todo", "getnext", "checkcid", "check_flag", "done", "freed", "failed"},
           start : 0 .. MaxCid + 1, nextlocal : Cids, nextcid : Cids, flag : {0, 1}]]]
    /\ coll \in [Creations -> [Procs -> Seq(Cids)]]

\* All processes of a new communicator know it by the same id, however their
\* proposals, retries and other creations are interleaved.
Agreement ==
    \A c \in Creations : \A p, q \in Group[c] :
        ctx[p][c].at \in {"done", "freed"} /\ ctx[q][c].at \in {"done", "freed"}
            => ctx[p][c].nextcid = ctx[q][c].nextcid

\* In every process the entry of a live communicator's id is that communicator:
\* no other creation took the id, freed it or overwrote it, so two live
\* communicators never share one.
OwnId ==
    \A p \in Procs, c \in Creations :
        ctx[p][c].at = "done" /\ ctx[p][c].nextcid < MaxCid => table[p][ctx[p][c].nextcid] = c

\* A creation holds at most one entry of ompi_mpi_communicators, and none
\* when it is not running: no sentinel is left behind by rounds that failed.
NoLeak ==
    \A p \in Procs, c \in Creations :
        LET held == {i \in Cids : table[p][i] = c} IN
        /\ Cardinality(held) <= 1
        /\ ctx[p][c].at \in {"todo", "getnext", "freed", "failed"} => held = {}

\* Every creation ends in every process, whatever ids are taken where and
\* in whatever order the processes get to the creations: the lower number
\* goes first, and a failed round raises the next proposal.
EveryCreationEnds == <>AllEnded

=============================================================================
