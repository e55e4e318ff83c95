------------------------------ MODULE Ob1Match ------------------------------
(* Message matching of the ob1 PML on one communicator of one receiving       *)
(* process: sequence numbers, the list of out-of-sequence fragments, posted   *)
(* receives and probes, cancellation, messages that arrive before their       *)
(* communicator exists, and the assertion that allows overtaking.             *)
(* Every critical section of comm->matching_lock is one action; what a thread *)
(* does after it dropped the lock is another.                                 *)
EXTENDS Integers, FiniteSets, SequencesExt

CONSTANTS NumProcs,   \* peers of the communicator, 0 .. NumProcs - 1
          Traffic,    \* what the peers may send: functions from Procs to
                      \* sequences of tags; negative tags are internal
          Threads,    \* threads that progress the network or post receives
          SeqLimit,   \* 2^16: hdr_seq and expected_sequence are uint16_t
          Bases,      \* sequence numbers with which the observation starts
          Posts,      \* receives and probes the application may start
          MaxRecvs    \* bound: receives and probes

AnySource == -1
AnyTag == -1
Procs == 0 .. NumProcs - 1
Kinds == {"recv", "probe", "mprobe"}

ASSUME Ob1Assumption ==
    /\ NumProcs \in Nat \ {0} /\ SeqLimit \in Nat /\ MaxRecvs \in Nat
    /\ Bases \subseteq 0 .. SeqLimit - 1
    /\ \A f \in Traffic : /\ f \in [Procs -> Seq(Int \ {AnyTag})]
                          /\ \A p \in Procs : Len(f[p]) < SeqLimit
    /\ Posts \subseteq [peer : Procs \cup {AnySource}, tag : Int, kind : Kinds,
                        blocking : BOOLEAN]
    /\ \A post \in Posts : post.kind = "recv" => post.blocking

VARIABLES
    base,         \* sequence number of every peer's first message
    sent,         \* sent[p]: tags of the messages p sends, in order
    wire,         \* messages <<p, n>> that have not arrived, and arrive in any
                  \* order (several BTLs); one sent later is longer under way
    exists,       \* the communicator is instantiated in this process
    pending,      \* mca_pml_ob1.non_existing_communicator_pending
    expected,     \* proc->expected_sequence
    cantMatch,    \* proc->frags_cant_match: a ring of runs, its head first
    unexpected,   \* proc->unexpected_frags
    specific,     \* proc->specific_receives
    wild,         \* comm->wild_receives
    req,          \* all requests, in the order of req_sequence
    thr,          \* what each thread does outside of the matching lock
    overtake,     \* OMPI_COMM_ASSERT_ALLOW_OVERTAKE
    crossed,      \* history: two fragments beyond a rollover were parked
    corrupt       \* history: a request was unlinked that was in no list

vars == <<base, sent, wire, exists, pending, expected, cantMatch, unexpected,
          specific, wild, req, thr, overtake, crossed, corrupt>>

Messages == UNION {{p} \X DOMAIN sent[p] : p \in Procs}
Idle == [at |-> "idle", msg |-> <<0, 0>>, req |-> 0]

\* hdr_seq of the n-th message
HdrSeq(n) == (base + n - 1) % SeqLimit

\* The counting of expected_sequence.
Following_NoWrap(s) == s + 1
Following(s) == (s + 1) % SeqLimit

\* match_incomming, recv_req_match_specific_proc: the tag test
Accepts(r, p, n) ==
    /\ req[r].peer \in {p, AnySource}
    /\ \/ req[r].tag = sent[p][n]
       \/ req[r].tag = AnyTag /\ sent[p][n] >= 0

-----------------------------------------------------------------------------
(* The out-of-sequence list. Horizontally a ring of fragments, vertically     *)
(* below each the run of its direct successors (range); *queue is ring[1].    *)

HeadSeq(ring, i) == HdrSeq(ring[i][1])
Nxt(ring, i) == (i % Len(ring)) + 1
Dist(a, b) == (a - b) % SeqLimit
AbsDiff(a, b) == IF a < b THEN b - a ELSE a - b

\* The loops that look for the fragment after which seq belongs.
Prior(ring, seq) ==
    IF seq < HeadSeq(ring, 1)
    THEN LET Goes(i) == /\ seq < HeadSeq(ring, i)
                        /\ Dist(HeadSeq(ring, Nxt(ring, i)), seq) > Dist(HeadSeq(ring, i), seq)
                        /\ i # 1
         IN Max({i \in DOMAIN ring : ~Goes(i)})
    ELSE LET Goes(i) == /\ seq > HeadSeq(ring, i)
                        /\ seq > HeadSeq(ring, Nxt(ring, i))
                        /\ HeadSeq(ring, i) < HeadSeq(ring, Nxt(ring, i))
         IN Min({i \in DOMAIN ring : ~Goes(i)})

\* merge_ranges: the run at i swallows the next one when that continues it.
\* upper + 1 is computed in int: 65535 is never continued by 0.
Merge(ring, i) ==
    LET j == Nxt(ring, i)
        one == ReplaceAt(ring, i, ring[i] \o ring[j])
    IN IF HdrSeq(Last(ring[i])) + 1 = HeadSeq(ring, j)
       THEN IF j = 1 THEN <<one[i]>> \o SubSeq(one, 2, i - 1)
                     ELSE RemoveAt(one, j)
       ELSE ring

\* Rotate the ring so that its head is the i-th element.
Rotated(ring, i) == SubSeq(ring, i, Len(ring)) \o SubSeq(ring, 1, i - 1)

\* A fragment becomes the head when it is nearer to what is expected.
Closer_Never(seq, exp, head) == FALSE
Closer(seq, exp, head) == seq >= exp /\ AbsDiff(seq, exp) < AbsDiff(head, exp)

AppendToOrdered(ring, n, exp) ==
    IF ring = <<>> THEN <<<<n>>>>
    ELSE LET i == Prior(ring, HdrSeq(n))
             added == InsertAt(ring, i + 1, <<n>>)
         IN CASE HdrSeq(Last(ring[i])) + 1 = HdrSeq(n) ->
                    Merge(ReplaceAt(ring, i, Append(ring[i], n)), i)
              [] Closer(HdrSeq(n), exp, HeadSeq(ring, 1)) -> Merge(Rotated(added, i + 1), 1)
              [] OTHER -> Merge(added, i + 1)

RemoveHead_WholeRun(ring) == Tail(ring)
RemoveHead(ring) ==
    IF Len(ring[1]) = 1 THEN Tail(ring) ELSE ReplaceAt(ring, 1, Tail(ring[1]))

\* Fragments in the list, whatever its shape.
Parked(p) == UNION {ToSet(cantMatch[p][i]) : i \in DOMAIN cantMatch[p]}

-----------------------------------------------------------------------------
Init ==
    /\ base \in Bases
    /\ sent \in Traffic
    /\ wire = Messages
    /\ exists \in BOOLEAN
    /\ pending = <<>>
    /\ expected = [p \in Procs |-> base]
    /\ cantMatch = [p \in Procs |-> <<>>]
    /\ unexpected = [p \in Procs |-> <<>>]
    /\ specific = [p \in Procs |-> <<>>]
    /\ wild = <<>>
    /\ req = <<>>
    /\ thr = [t \in Threads |-> Idle]
    /\ overtake = FALSE
    /\ crossed = FALSE
    /\ corrupt = FALSE

\* get_posted_recv: the specific receives of the peer and the wild ones.
PostedRecvs_SpecificFirst(p) ==
    IF specific[p] # <<>> THEN ToSet(specific[p]) ELSE ToSet(wild)
PostedRecvs(p) == ToSet(specific[p]) \cup ToSet(wild)

\* match_one: posted requests are tried in the order of req_sequence. Probes
\* in front of the first receive are completed and passed over; a matched
\* probe keeps the fragment; a receive goes to the thread, which completes it
\* after the unlock.
MatchOne(t, p, n) ==
    LET fits == {r \in PostedRecvs(p) : Accepts(r, p, n)}
        takers == {r \in fits : req[r].kind # "probe"}
        taker == IF takers = {} THEN 0 ELSE Min(takers)
        done == {r \in fits : req[r].kind = "probe" /\ (r < taker \/ taker = 0)}
                \cup {r \in takers : r = taker /\ req[r].kind = "mprobe"}
        gone == done \cup ({taker} \ {0})
        Stays(r) == r \notin gone
    IN /\ req' = [r \in DOMAIN req |->
                    IF r \in done
                    THEN [req[r] EXCEPT !.state = "complete", !.msg = <<p, n>>]
                    ELSE req[r]]
       /\ specific' = [specific EXCEPT ![p] = SelectSeq(@, Stays)]
       /\ wild' = SelectSeq(wild, Stays)
       /\ unexpected' = IF taker = 0 THEN [unexpected EXCEPT ![p] = Append(@, n)]
                                     ELSE unexpected
       /\ thr' = [thr EXCEPT ![t] =
                    [at |-> "matched", msg |-> <<p, n>>,
                     req |-> IF taker \in done THEN 0 ELSE taker]]

\* The fragment's turn has not come.
OutOfSequence_NoRollover(p, n) ==
    /\ HdrSeq(n) > expected[p]
    /\ ~overtake \/ sent[p][n] < 0
OutOfSequence(p, n) ==
    /\ HdrSeq(n) # expected[p]
    /\ ~overtake \/ sent[p][n] < 0

\* mca_pml_ob1_recv_frag_callback_match (eager) and recv_frag_match: either
\* park the fragment or match it. With overtaking the two differ: only the
\* second always counts expected_sequence up.
RecvFrag(t, p, n, eager) ==
    /\ thr[t] = Idle /\ exists /\ <<p, n>> \in wire
    /\ wire' = wire \ {<<p, n>>}
    /\ \/ /\ OutOfSequence(p, n)
          /\ cantMatch' = [cantMatch EXCEPT ![p] = AppendToOrdered(@, n, expected[p])]
          /\ crossed' = (crossed \/ \E k \in Parked(p) : {HdrSeq(k), HdrSeq(n)} \subseteq 0 .. expected[p])
          /\ UNCHANGED <<expected, unexpected, specific, wild, req, thr>>
       \/ /\ ~OutOfSequence(p, n)
          /\ expected' = [expected EXCEPT ![p] =
                 IF eager /\ overtake /\ sent[p][n] >= 0 THEN @ ELSE Following(@)]
          /\ MatchOne(t, p, n)
          /\ UNCHANGED <<cantMatch, crossed>>
    /\ UNCHANGED <<base, sent, exists, pending, overtake, corrupt>>

\* After the unlock: the data is unpacked and the request completed, unless
\* it is complete already. Then proc->frags_cant_match is read without the lock.
Progress(t) ==
    /\ thr[t].at \in {"matched", "posted"}
    /\ LET r == thr[t].req IN
       req' = IF r = 0 THEN req
              ELSE [req EXCEPT ![r].matched = TRUE, ![r].msg = thr[t].msg,
                               ![r].state = IF @ = "active" THEN "complete" ELSE @]
    /\ thr' = [thr EXCEPT ![t] =
         IF thr[t].at = "matched" /\ cantMatch[thr[t].msg[1]] # <<>>
         THEN [@ EXCEPT !.at = "recheck", !.req = 0] ELSE Idle]
    /\ UNCHANGED <<base, sent, wire, exists, pending, expected, cantMatch, unexpected,
                   specific, wild, overtake, crossed, corrupt>>

\* check_cantmatch_for_match under the lock, and match_this_frag.
Recheck(t) ==
    LET p == thr[t].msg[1]
        found == cantMatch[p] # <<>> /\ HeadSeq(cantMatch[p], 1) = expected[p]
    IN /\ thr[t].at = "recheck"
       /\ \/ /\ found
             /\ cantMatch' = [cantMatch EXCEPT ![p] = RemoveHead(@)]
             /\ expected' = [expected EXCEPT ![p] = Following(@)]
             /\ MatchOne(t, p, cantMatch[p][1][1])
          \/ /\ ~found
             /\ thr' = [thr EXCEPT ![t] = Idle]
             /\ UNCHANGED <<expected, cantMatch, unexpected, specific, wild, req>>
       /\ UNCHANGED <<base, sent, wire, exists, pending, overtake, crossed, corrupt>>

\* ompi_comm_lookup found no communicator; the fragment is appended to the
\* pending list, which no lock protects from add_comm.
LookupFails(t, p, n) ==
    /\ thr[t] = Idle /\ ~exists /\ <<p, n>> \in wire
    /\ wire' = wire \ {<<p, n>>}
    /\ thr' = [thr EXCEPT ![t] = [@ EXCEPT !.at = "lookup", !.msg = <<p, n>>]]
    /\ UNCHANGED <<base, sent, exists, pending, expected, cantMatch, unexpected,
                   specific, wild, req, overtake, crossed, corrupt>>

Park(t) ==
    /\ thr[t].at = "lookup"
    /\ pending' = Append(pending, thr[t].msg)
    /\ thr' = [thr EXCEPT ![t] = Idle]
    /\ UNCHANGED <<base, sent, wire, exists, expected, cantMatch, unexpected,
                   specific, wild, req, overtake, crossed, corrupt>>

\* mca_pml_ob1_add_comm: one pending fragment, then what it makes matchable.
\* With overtaking every fragment is unexpected at once.
Unpark(st, n, allow) ==
    LET Drain(s, k) ==
            IF s.cant # <<>> /\ HeadSeq(s.cant, 1) = s.exp
            THEN [exp |-> Following(s.exp), cant |-> RemoveHead(s.cant),
                  unex |-> Append(s.unex, s.cant[1][1])]
            ELSE s
    IN CASE allow -> [st EXCEPT !.unex = Append(@, n)]
         [] ~allow /\ HdrSeq(n) = st.exp ->
              FoldLeft(Drain, [st EXCEPT !.exp = Following(@), !.unex = Append(@, n)],
                       FlattenSeq(st.cant))
         [] OTHER -> [st EXCEPT !.cant = AppendToOrdered(@, n, st.exp)]

\* allow: the info of the new communicator has mpi_assert_allow_overtaking.
AddComm(allow) ==
    /\ ~exists
    /\ exists' = TRUE /\ overtake' = allow
    /\ LET Of(p) == FoldLeft(LAMBDA st, m : Unpark(st, m[2], allow),
                             [exp |-> expected[p], cant |-> <<>>, unex |-> <<>>],
                             SelectSeq(pending, LAMBDA m : m[1] = p))
       IN /\ expected' = [p \in Procs |-> Of(p).exp]
          /\ cantMatch' = [p \in Procs |-> Of(p).cant]
          /\ unexpected' = [p \in Procs |-> Of(p).unex]
    /\ pending' = <<>>
    /\ UNCHANGED <<base, sent, wire, specific, wild, req, thr, crossed, corrupt>>

\* mca_pml_ob1_recv_req_start: look through the unexpected fragments of the
\* peer, or of any peer (round robin in the code, any order here); without
\* a match the request is queued, unless the probe does not block.
RecvReqStart(t, post) ==
    LET r == Len(req) + 1
        peer == post.peer
        tag == post.tag
        kind == post.kind
        blocking == post.blocking
        new == [peer |-> peer, tag |-> tag, kind |-> kind, matched |-> FALSE,
                state |-> "active", msg |-> <<0, 0>>]
        Fits(p, i) == /\ peer \in {p, AnySource}
                      /\ \/ tag = sent[p][unexpected[p][i]]
                         \/ tag = AnyTag /\ sent[p][unexpected[p][i]] >= 0
        Found(p) == {i \in DOMAIN unexpected[p] : Fits(p, i)}
    IN /\ thr[t] = Idle /\ exists /\ Len(req) < MaxRecvs
       /\ \/ /\ \A p \in Procs : Found(p) = {}
             /\ req' = Append(req, IF blocking THEN new ELSE [new EXCEPT !.state = "missed"])
             /\ specific' = IF blocking /\ peer # AnySource
                            THEN [specific EXCEPT ![peer] = Append(@, r)] ELSE specific
             /\ wild' = IF blocking /\ peer = AnySource THEN Append(wild, r) ELSE wild
             /\ UNCHANGED <<unexpected, thr>>
          \/ \E p \in Procs :
             /\ Found(p) # {}
             /\ LET i == Min(Found(p))
                    m == <<p, unexpected[p][i]>>
                IN /\ req' = Append(req, IF kind = "recv" THEN new
                                ELSE [new EXCEPT !.state = "complete", !.msg = m])
                   /\ unexpected' = IF kind = "probe" THEN unexpected
                                    ELSE [unexpected EXCEPT ![p] = RemoveAt(@, i)]
                   /\ thr' = IF kind = "recv"
                             THEN [thr EXCEPT ![t] = [at |-> "posted", msg |-> m, req |-> r]]
                             ELSE thr
             /\ UNCHANGED <<specific, wild>>
       /\ UNCHANGED <<base, sent, wire, exists, pending, expected, cantMatch,
                      overtake, crossed, corrupt>>

\* mca_pml_ob1_recv_request_cancel. The lock is held, but req_match_received
\* is set only after the matching thread has dropped it: the request may be
\* gone from its list already.
Cancel(t, r) ==
    /\ thr[t] = Idle /\ r \in DOMAIN req /\ req[r].kind = "recv"
    /\ req[r].state = "active" /\ ~req[r].matched
    /\ corrupt' = (corrupt \/ r \notin ToSet(wild) \cup UNION {ToSet(specific[p]) : p \in Procs})
    /\ wild' = Remove(wild, r)
    /\ specific' = [p \in Procs |-> Remove(specific[p], r)]
    /\ req' = [req EXCEPT ![r].state = "cancelled"]
    /\ UNCHANGED <<base, sent, wire, exists, pending, expected, cantMatch, unexpected,
                   thr, overtake, crossed>>

\* mca_pml_ob1_set_allow_overtake. merge_cant_match visits only the peers
\* without parked fragments, so nothing is merged.
SetAllowOvertake ==
    /\ exists /\ ~overtake
    /\ overtake' = TRUE
    /\ UNCHANGED <<base, sent, wire, exists, pending, expected, cantMatch, unexpected,
                   specific, wild, req, thr, crossed, corrupt>>

\* Nothing is said of a process whose lists are damaged.
Next ==
    /\ ~corrupt
    /\ \/ \E t \in Threads, p \in Procs : \E n \in DOMAIN sent[p] :
             \/ \E eager \in BOOLEAN : RecvFrag(t, p, n, eager)
             \/ LookupFails(t, p, n)
       \/ \E t \in Threads : Progress(t) \/ Recheck(t) \/ Park(t)
       \/ \E t \in Threads, post \in Posts : RecvReqStart(t, post)
       \/ \E t \in Threads, r \in 1 .. MaxRecvs : Cancel(t, r)
       \/ \E allow \in BOOLEAN : AddComm(allow)
       \/ SetAllowOvertake

Spec == Init /\ [][Next]_vars

-----------------------------------------------------------------------------
TypeOK ==
    /\ base \in Bases /\ sent \in Traffic /\ wire \subseteq Messages
    /\ exists \in BOOLEAN /\ overtake \in BOOLEAN
    /\ crossed \in BOOLEAN /\ corrupt \in BOOLEAN
    /\ pending \in Seq(Messages) /\ expected \in [Procs -> 0 .. SeqLimit - 1]
    /\ cantMatch \in [Procs -> Seq(Seq(Nat))]
    /\ unexpected \in [Procs -> Seq(Nat)]
    /\ specific \in [Procs -> Seq(DOMAIN req)] /\ wild \in Seq(DOMAIN req)
    /\ req \in Seq([peer : Procs \cup {AnySource}, tag : Int,
                    kind : Kinds, matched : BOOLEAN,
                    state : {"active", "missed", "complete", "cancelled"},
                    msg : Messages \cup {<<0, 0>>}])
    /\ thr \in [Threads -> [at : {"idle", "lookup", "matched", "posted", "recheck"},
                            msg : Messages \cup {<<0, 0>>}, req : 0 .. MaxRecvs]]

\* The requests that took message m (a plain probe takes none).
Takers(m) == {r \in DOMAIN req : req[r].msg = m /\ req[r].kind # "probe"}

\* Places that hold the message m.
Places(m) ==
    LET p == m[1]
        n == m[2]
    IN {<<"wire", 0>> : x \in wire \cap {m}}
       \cup {<<"pending", i>> : i \in {j \in DOMAIN pending : pending[j] = m}}
       \cup {<<"lookup", t>> : t \in {u \in Threads : thr[u].at = "lookup" /\ thr[u].msg = m}}
       \cup {<<"hand", t>> : t \in {u \in Threads : /\ thr[u].at \in {"matched", "posted"}
                                                   /\ thr[u].msg = m /\ thr[u].req # 0}}
       \cup {<<"cant", i>> : i \in {j \in DOMAIN cantMatch[p] : n \in ToSet(cantMatch[p][j])}}
       \cup {<<"unexpected", i>> : i \in {j \in DOMAIN unexpected[p] : unexpected[p][j] = n}}
       \cup {<<"request", r>> : r \in Takers(m)}

\* No message is lost or delivered twice: it is on the wire, in one list, in
\* one thread's hand, or with the one request that took it, whatever order the
\* fragments arrive in and whichever threads match, probe and cancel.
OnePlace == \A m \in Messages : Cardinality(Places(m)) = 1

\* The search for posted receives (match_one) and the search of unexpected
\* fragments (recv_req_start) never miss each other: no queued request would
\* take a fragment of the unexpected list.
NoMissedMatch ==
    \A p \in Procs : \A i \in DOMAIN unexpected[p] :
        \A r \in ToSet(specific[p]) \cup ToSet(wild) : ~Accepts(r, p, unexpected[p][i])

\* MPI's non-overtaking rule. A request that has a message of p was not passed
\* by an earlier message that it would have taken, and has not passed an
\* earlier request that still waits.
NonOvertaking ==
    overtake \/
    \A r \in DOMAIN req : req[r].msg # <<0, 0>> =>
        LET p == req[r].msg[1]
            n == req[r].msg[2]
        IN /\ \A k \in 1 .. n - 1 : Accepts(r, p, k) =>
                  \A place \in Places(<<p, k>>) : place[1] \in {"hand", "request"}
           /\ \A q \in 1 .. r - 1 : q \in ToSet(specific[p]) \cup ToSet(wild) => ~Accepts(q, p, n)

\* A fragment of p whose turn has come is in the out-of-sequence list, and no
\* thread is about to look there: nothing else will.
Stranded(p) ==
    /\ \E n \in Parked(p) : HdrSeq(n) = expected[p]
    /\ \A t \in Threads : thr[t].at \in {"matched", "recheck"} => thr[t].msg[1] # p

\* No fragment is stranded by append_frag_to_ordered_list, by the unlocked look
\* at frags_cant_match or by add_comm, unless fragments beyond a rollover were
\* parked with one another or overtaking was switched on.
NoStranded == crossed \/ overtake \/ \A p \in Procs : ~Stranded(p)

\* What the comment on append_frag_to_ordered_list says: the list copes with
\* the overflow of hdr_seq as long as no two fragments in it have the same one.
RolloverSafe == overtake \/ \A p \in Procs : ~Stranded(p)

=============================================================================
