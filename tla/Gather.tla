------------------------------- MODULE Gather -------------------------------
(***************************************************************************)
(* What a collecting request over all nodes (fetchSockets, sockets,        *)
(* allRooms) amounts to, without messages: the requester reads its own     *)
(* node, settles how many nodes it needs, each of the other nodes is read  *)
(* at most once, in one step, at a time of its own, and the request ends   *)
(* with exactly as many reads as it needs or not at all.  What it does not *)
(* promise is that the reads are of one instant, or of which nodes.        *)
(***************************************************************************)
EXTENDS Naturals, FiniteSets

CONSTANTS
    Nodes,
    Ids,
    Data        \* what a node can hold

VARIABLES
    local,      \* what each node holds now
    stage,      \* idle, open, needing, done or failed
    need,       \* number of reads the request waits for
    reads       \* the reads: a set of [node, held]

Read(n) == [node |-> n, held |-> local[n]]

Open(i, n) ==
    /\ stage[i] = "idle"
    /\ stage' = [stage EXCEPT ![i] = "open"]
    /\ reads' = [reads EXCEPT ![i] = {Read(n)}]
    /\ UNCHANGED <<local, need>>

Settle(i, k) ==
    /\ stage[i] = "open"
    /\ stage' = [stage EXCEPT ![i] = "needing"]
    /\ need' = [need EXCEPT ![i] = k]
    /\ UNCHANGED <<local, reads>>

Look(i, n) ==
    /\ stage[i] = "needing"
    /\ \A r \in reads[i] : r.node # n
    /\ reads' = [reads EXCEPT ![i] = @ \cup {Read(n)}]
    /\ UNCHANGED <<local, stage, need>>

\* Reads beyond the number needed are dropped.
Done(i) ==
    /\ stage[i] = "needing"
    /\ \E R \in SUBSET reads[i] : /\ Cardinality(R) = need[i]
                                  /\ reads' = [reads EXCEPT ![i] = R]
    /\ stage' = [stage EXCEPT ![i] = "done"]
    /\ UNCHANGED <<local, need>>

\* The nodes change under the requests, and requests fail, at any time.
Change(F) ==
    /\ \A i \in F : stage[i] \in {"open", "needing"}
    /\ local' \in [Nodes -> Data]
    /\ stage' = [i \in Ids |-> IF i \in F THEN "failed" ELSE stage[i]]
    /\ reads' = [i \in Ids |-> IF i \in F THEN {} ELSE reads[i]]
    /\ UNCHANGED need

Init ==
    /\ local \in [Nodes -> Data]
    /\ stage = [i \in Ids |-> "idle"]
    /\ need = [i \in Ids |-> 0]
    /\ reads = [i \in Ids |-> {}]

Next ==
    \/ \E i \in Ids, n \in Nodes : Open(i, n) \/ Look(i, n)
    \/ \E i \in Ids, k \in 1..Cardinality(Nodes) : Settle(i, k)
    \/ \E i \in Ids : Done(i)
    \/ \E F \in SUBSET Ids : Change(F)

Spec == Init /\ [][Next]_<<local, stage, need, reads>>
==============================================================================
