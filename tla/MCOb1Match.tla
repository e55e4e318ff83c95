----------------------------- MODULE MCOb1Match -----------------------------
(* Instances of Ob1Match for TLC. *)
EXTENDS Ob1Match, TLC
CONSTANTS t1, t2

MCThreads == {t1, t2}
Symm == Permutations(MCThreads)

Recv(peer, tag) == [peer |-> peer, tag |-> tag, kind |-> "recv", blocking |-> TRUE]
Probe(kind, peer, tag, blocking) ==
    [peer |-> peer, tag |-> tag, kind |-> kind, blocking |-> blocking]

\* Two peers; three messages of one of them, so that there are gaps to fill. Parked
\* fragments form a run from base 5 and lie on both sides of the rollover from 6.
MCBases == {5, 6}
MCTraffic == {(0 :> <<0, -10, 0>> @@ 1 :> <<0>>)}
MCPosts == {Recv(0, AnyTag), Recv(AnySource, 0), Recv(0, -10),
            Probe("probe", 0, AnyTag, TRUE), Probe("mprobe", AnySource, AnyTag, TRUE),
            Probe("mprobe", 0, 0, FALSE)}

\* One peer and one thread around the rollover of hdr_seq.
RolloverBases == 4 .. 7
RolloverTraffic == {(0 :> <<0, 0, 0, 0>>)}
RolloverThreads == {t1}
=============================================================================
