------------------------------ MODULE DhtRouting ------------------------------
(***************************************************************************)
(* The routing table of DhtClient: nodes that contact us or that we hear of  *)
(* enter their bucket, a full bucket of good nodes is defended by a ping to   *)
(* its worst node, timeouts and cleanups remove nodes, a change of our own    *)
(* id rebuilds the table, the good nodes are saved and loaded.  Two threads:  *)
(* the network thread handles a response in several critical sections, the    *)
(* maintenance thread and the searches run in between.                       *)
(*                                                                         *)
(* Abstractions.  Ids have Bits bits.  Round-trip times are left out: any    *)
(* good node may be the worst.  Addresses are left out: the node that         *)
(* answers a ping either has the id that was pinged or another one.          *)
(***************************************************************************)
EXTENDS Integers, Sequences, FiniteSets, SequencesExt

CONSTANTS
    Bits,           \* 8 * NODE_ID_SIZE
    K,              \* K_BUCKET_SIZE
    Ids,            \* ids of other nodes
    Owns,           \* ids this node may have
    MAX_FAIL_COUNT,
    MaxMoves        \* changes of the own id and restarts

ASSUME RoutingAssumption ==
    /\ Bits \in Nat \ {0} /\ K \in Nat \ {0} /\ MAX_FAIL_COUNT \in 1..254
    /\ Ids \subseteq 0..(2^Bits - 1) /\ Owns \subseteq 0..(2^Bits - 1)
    /\ MaxMoves \in Nat

Unpinged == 255
Indexes == 0..(Bits - 1)

VARIABLES
    own,        \* node_id_
    table,      \* routing_table_: per bucket a sequence of nodes
    pings,      \* pending_pings_
    replaced,   \* nodes_being_replaced_
    net,        \* add_node calls the network thread still has to make
    moves

vars == <<own, table, pings, replaced, net, moves>>

-----------------------------------------------------------------------------
\* The position of the first bit in which two ids differ.
get_bucket_index(a, b) ==
    IF a = b THEN Bits - 1
    ELSE CHOOSE i \in Indexes :
            /\ a \div 2^(Bits - i) = b \div 2^(Bits - i)
            /\ a \div 2^(Bits - i - 1) # b \div 2^(Bits - i - 1)

Node(n, fail) == [id |-> n, fail |-> fail]
Good(node) == node.fail = 0
IdsOf(b) == {b[i].id : i \in DOMAIN b}

\* The first position of id n in bucket b, or 0.
Find(b, n) == IF n \in IdsOf(b) THEN CHOOSE i \in DOMAIN b : b[i].id = n /\ \A j \in 1..(i - 1) : b[j].id # n
              ELSE 0

\* The first of the nodes with the most failures.
Stalest(b) == CHOOSE i \in DOMAIN b :
                /\ \A j \in DOMAIN b : b[j].fail <= b[i].fail
                /\ \A j \in 1..(i - 1) : b[j].fail < b[i].fail

SetFail(b, n, fail) == [b EXCEPT ![Find(b, n)].fail = fail]

Init ==
    /\ own \in Owns
    /\ table = [i \in Indexes |-> <<>>]
    /\ pings = {} /\ replaced = {}
    /\ net = <<>> /\ moves = 0

-----------------------------------------------------------------------------
\* add_node, with both mutexes held.

present_if_good(b, n) == Find(b, n) # 0 /\ Good(b[Find(b, n)])

present(b, n) == Find(b, n) # 0

full(b) == Len(b) >= K

has_stale_any(b) == b # <<>>

has_stale(b) == b[Stalest(b)].fail > 0

add_node(n, confirmed) ==
    LET i == get_bucket_index(own, n)
        b == table[i]
        node == Node(n, IF confirmed THEN 0 ELSE Unpinged)
        free == IdsOf(b) \ replaced
    IN  \/ /\ present(b, n)
           /\ table' = IF confirmed THEN [table EXCEPT ![i] = SetFail(b, n, 0)] ELSE table
           /\ UNCHANGED <<pings, replaced>>
        \/ /\ ~present(b, n) /\ ~full(b)
           /\ table' = [table EXCEPT ![i] = Append(b, node)]
           /\ UNCHANGED <<pings, replaced>>
        \/ /\ ~present(b, n) /\ full(b) /\ has_stale(b)
           /\ table' = [table EXCEPT ![i][Stalest(b)] = node]
           /\ UNCHANGED <<pings, replaced>>
        \/ /\ ~present(b, n) /\ full(b) /\ ~has_stale(b)
           /\ IF free = {} THEN UNCHANGED <<pings, replaced>>
              ELSE \E old \in free :
                     /\ pings' = pings \cup {[cand |-> n, old |-> old, index |-> i]}
                     /\ replaced' = replaced \cup {old}
           /\ UNCHANGED table

\* A query came in: its sender contacted us.
handle_query(n) ==
    /\ net = <<>>
    /\ add_node(n, TRUE)
    /\ UNCHANGED <<own, net, moves>>

\* A response came in: then its sender and the nodes it names are added.
Response(n, names) == net' = <<Node(n, 0)>> \o SetToSeq({Node(m, Unpinged) : m \in names})

handle_response(n, names) ==
    /\ net = <<>>
    /\ Response(n, names)
    /\ UNCHANGED <<own, table, pings, replaced, moves>>

response_add ==
    /\ net # <<>>
    /\ add_node(Head(net).id, Good(Head(net)))
    /\ net' = Tail(net)
    /\ UNCHANGED <<own, moves>>

-----------------------------------------------------------------------------
\* Ping verification.

perform_replacement_appends(t, p, fail) ==
    LET w == Find(t[p.index], p.old)
    IN  IF w # 0 THEN [t EXCEPT ![p.index][w] = Node(p.cand, fail)]
        ELSE IF Len(t[p.index]) < K THEN [t EXCEPT ![p.index] = Append(@, Node(p.cand, fail))]
        ELSE t

\* The table with p.old replaced by the candidate, if p.old is still there.
perform_replacement(t, p, fail) ==
    LET w == Find(t[p.index], p.old)
    IN  IF w = 0 THEN t ELSE [t EXCEPT ![p.index][w] = Node(p.cand, fail)]

untrack_leaks(p) == pings' = pings \ {p} /\ UNCHANGED replaced

\* The end of a verification: the entry goes and the old node is free again.
untrack(p) == pings' = pings \ {p} /\ replaced' = replaced \ {p.old}

\* The old node answered: it is good, the candidate is forgotten.
ping_answered(p) ==
    /\ net = <<>>
    /\ table' = IF Find(table[p.index], p.old) = 0 THEN table
                ELSE [table EXCEPT ![p.index] = SetFail(@, p.old, 0)]
    /\ untrack(p)
    /\ Response(p.old, {})
    /\ UNCHANGED <<own, moves>>

\* Another id answered from its address: the candidate comes in as good.
ping_answered_by_other(p, n) ==
    /\ net = <<>> /\ n # p.old
    /\ table' = perform_replacement(table, p, 0)
    /\ untrack(p)
    /\ Response(n, {})
    /\ UNCHANGED <<own, moves>>

\* cleanup_stale_ping_verifications: no answer for 30 s.  The candidate comes in
\* as it was received: unpinged.
cleanup_stale_ping(p) ==
    /\ table' = perform_replacement(table, p, Unpinged)
    /\ untrack(p)
    /\ UNCHANGED <<own, net, moves>>

-----------------------------------------------------------------------------
\* A search request to n timed out; counts above the limit are all alike.
mark_failed(n) ==
    LET i == get_bucket_index(own, n)
        w == Find(table[i], n)
    IN  /\ w # 0
        /\ table[i][w].fail < MAX_FAIL_COUNT
        /\ table' = [table EXCEPT ![i][w].fail = @ + 1]
        /\ UNCHANGED <<own, pings, replaced, net, moves>>

\* Nodes that failed too often go, and of the unpinged ones the old ones.
cleanup_stale_nodes(old) ==
    LET stays(x) == ~(x.fail # Unpinged /\ x.fail >= MAX_FAIL_COUNT)
                    /\ ~(x.fail = Unpinged /\ x.id \in old)
    IN  /\ table' = [i \in Indexes |-> SelectSeq(table[i], stays)]
        /\ UNCHANGED <<own, pings, replaced, net, moves>>

\* Insert each node of l into the bucket it has under id o, where there is room.
Rebucket(o, l) ==
    [i \in Indexes |->
        LET here(x) == get_bucket_index(o, x.id) = i
            b == SelectSeq(l, here)
        IN  SubSeq(b, 1, IF Len(b) < K THEN Len(b) ELSE K)]

AllNodes == FlattenSeq([i \in 1..Bits |-> table[i - 1]])

\* set_external_ip: a new id, the table rebuilt; pending pings keep their index.
set_external_ip(o) ==
    /\ moves < MaxMoves /\ o # own
    /\ own' = o /\ moves' = moves + 1
    /\ table' = Rebucket(o, AllNodes)
    /\ UNCHANGED <<pings, replaced, net>>

\* save_routing_table: the confirmed nodes.
SavedNodes == SelectSeq(AllNodes, Good)

\* load_routing_table: the saved nodes l join the nodes there are; in a full
\* bucket the round-trip times decide which ones stay.
load_routing_table(o, there, l) ==
    LET all == there \o l
        in(i, J) == {j \in J : get_bucket_index(o, all[j].id) = i}
        kept(J) == [j \in 1..Cardinality(J) |-> all[SetToSortSeq(J, <)[j]]]
    IN  \E J \in SUBSET DOMAIN all :
            /\ \A i \in Indexes : LET n == Cardinality(in(i, DOMAIN all))
                                  IN  Cardinality(in(i, J)) = IF n < K THEN n ELSE K
            /\ table' = Rebucket(o, kept(J))

\* stop, which saves the table, and start, which loads it: as a new client with
\* another id and nothing else, or as the one that was stopped, which keeps what
\* it had.
restart(o, same) ==
    /\ net = <<>>
    /\ moves < MaxMoves /\ moves' = moves + 1
    /\ UNCHANGED net
    /\ \/ /\ same /\ o = own
          /\ load_routing_table(own, AllNodes, SavedNodes)
          /\ UNCHANGED <<own, pings, replaced>>
       \/ /\ ~same
          /\ own' = o
          /\ load_routing_table(o, <<>>, SavedNodes)
          /\ pings' = {} /\ replaced' = {}

-----------------------------------------------------------------------------
CleanPing(n) == \E p \in pings : p.old = n /\ cleanup_stale_ping(p)

NeverAnswered(n) == \E i \in Indexes : \E x \in Range(table[i]) : x = Node(n, Unpinged)

Named == {{}} \cup {{n} : n \in Ids}

Next ==
    \/ \E n \in Ids : handle_query(n) \/ mark_failed(n)
    \/ \E n \in Ids, names \in Named : handle_response(n, names)
    \/ response_add
    \/ \E p \in pings : ping_answered(p)
    \/ \E p \in pings, n \in Ids : ping_answered_by_other(p, n)
    \/ \E n \in Ids : CleanPing(n)
    \/ \E old \in SUBSET {n \in Ids : NeverAnswered(n)} : cleanup_stale_nodes(old)
    \/ \E o \in Owns : set_external_ip(o)
    \/ \E o \in Owns, same \in BOOLEAN : restart(o, same)

Spec == Init /\ [][Next]_vars

\* The maintenance thread runs for ever and takes every ping older than 30 s.
FairSpec == Spec /\ \A n \in Ids : WF_vars(CleanPing(n))

-----------------------------------------------------------------------------
\* The state has its type; no bucket holds more than K nodes.
TypeOK ==
    /\ own \in Owns
    /\ \A i \in Indexes :
        /\ Len(table[i]) <= K
        /\ \A x \in Range(table[i]) : x.id \in Ids /\ x.fail \in 0..MAX_FAIL_COUNT \cup {Unpinged}
    /\ pings \subseteq [cand : Ids, old : Ids, index : Indexes]
    /\ replaced \subseteq Ids

\* Every node is in the bucket of its distance, also when our own id changed
\* while pings with the index of the old bucket were pending.
InRightBucket ==
    \A i \in Indexes : \A n \in IdsOf(table[i]) : get_bucket_index(own, n) = i

\* nodes_being_replaced_ names exactly the nodes with a pending ping, each with
\* one: no node is protected from pings for ever, none is pinged twice.
PingsTracked ==
    /\ replaced = {p.old : p \in pings}
    /\ \A p, q \in pings : p.old = q.old => p = q

Twice(n) == Cardinality({<<i, j>> \in Indexes \X (1..K) : j \in DOMAIN table[i] /\ table[i][j].id = n}) > 1

\* An id gets into the table a second time only by a ping verification whose
\* candidate had come in another way meanwhile, or when a client that was
\* stopped is started again and loads the nodes it still has.
DuplicatesExplained ==
    [][\A n \in Ids : ~Twice(n) /\ Twice(n)' =>
            \/ \E p \in pings \ pings' : p.cand = n
            \/ moves' # moves /\ own' = own]_vars

GoodIds(t) == {n \in Ids : \E i \in Indexes : \E x \in Range(t[i]) : x.id = n /\ Good(x)}

\* A good node leaves the table only while it is being pinged, or when our own
\* id changes: neither new contacts nor hearsay displace it.
GoodNodesStay ==
    [][\A n \in GoodIds(table) : n \notin UNION {IdsOf(table'[i]) : i \in Indexes}
            => n \in replaced \/ moves' # moves]_vars

\* Every verification ends, so that its candidate and its old node are settled.
PingsEnd == \A n \in Ids : n \in replaced ~> n \notin replaced

-----------------------------------------------------------------------------
\* What the comments say and the code does not do.

\* "Check if node already exists": an id is in the table once.
NoDuplicates == \A n \in Ids : ~Twice(n)

\* "Check if bucket has space": loading the saved nodes adds no node again.
LoadAddsOnce == [][moves' # moves => \A n \in Ids : Twice(n)' => Twice(n)]_vars
=============================================================================
