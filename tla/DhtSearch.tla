------------------------------ MODULE DhtSearch ------------------------------
(***************************************************************************)
(* The iterative lookup of DhtClient for one info hash: find_peers and      *)
(* announce_peer start or join a search, the network thread handles         *)
(* answers in three critical sections of pending_searches_mutex_, the       *)
(* maintenance thread applies short and full timeouts, cleans node states    *)
(* and drops old searches, the application cancels.                         *)
(*                                                                         *)
(* Abstractions.  Nodes are numbered by their distance to the info hash. An  *)
(* answer names any nodes; one with peers, or with nothing, names none.      *)
(* Transaction ids are unique, so that only an answer to a live transaction  *)
(* reaches a search.  The age of requests and searches is nondeterministic.  *)
(***************************************************************************)
EXTENDS Integers, Sequences, FiniteSets, SequencesExt

CONSTANTS
    N,          \* nodes, 1 is the closest to the info hash
    Table,      \* what find_closest_nodes returns, as a set
    K,          \* K_BUCKET_SIZE
    Alpha,      \* ALPHA
    MaxSearchNodes,
    MaxNodeStates,
    WithToken,  \* nodes that give a write token with their answer
    MaxAnswer,  \* nodes named in one answer
    MaxCalls,   \* calls of find_peers and announce_peer
    None

Nodes == 1..N
Calls == 1..MaxCalls

ASSUME SearchAssumption ==
    /\ N \in Nat /\ Table \subseteq Nodes /\ Table # {} /\ WithToken \subseteq Nodes
    /\ K \in Nat \ {0} /\ Alpha \in Nat \ {0}
    /\ MaxSearchNodes \in Nat \ {0} /\ Cardinality(Table) <= K /\ K <= MaxSearchNodes
    /\ MaxNodeStates \in Nat /\ MaxCalls \in Nat /\ MaxAnswer \in Nat

Flags == {"QUERIED", "SHORT_TIMEOUT", "RESPONDED", "TIMED_OUT", "ABANDONED"}

VARIABLES
    search,     \* the entry of pending_searches_, or None
    tx,         \* transaction_to_search_: the node asked, the search that asked
                \* and how often it had asked that node before
    gen,        \* searches started
    net,        \* the network thread inside handle_krpc_response
    cb,         \* what became of the callback of each call
    ended,      \* how a search completed in the last step, or None
    completed   \* the searches that completed

vars == <<search, tx, gen, net, cb, ended, completed>>

NetIdle == [pc |-> "idle", t |-> None]

Init ==
    /\ search = None
    /\ tx = {}
    /\ gen = 0
    /\ net = NetIdle
    /\ cb = [c \in Calls |-> "unused"]
    /\ ended = None /\ completed = {}

-----------------------------------------------------------------------------
\* Operators on a search s.

\* Apply op to s and each element of l in turn; each result is evaluated once.
InTurn(op(_, _), s, l) ==
    LET f[i \in 0..Len(l)] ==
            IF i = 0 THEN s ELSE CHOOSE r \in {op(x, l[i]) : x \in {f[i - 1]}} : TRUE
    IN  f[Len(l)]

Sorted(S) == SetToSortSeq(S, <)
Has(s, n, f) == f \in s.flags[n]
InFlight(s, n) == Has(s, n, "QUERIED") /\ s.flags[n] \cap {"RESPONDED", "TIMED_OUT"} = {}


\* One request less in the air; a slow node gives its extra slot back.
release_slot(s, n) ==
    [s EXCEPT !.invoke = IF @ > 0 THEN @ - 1 ELSE @,
              !.branch = IF Has(s, n, "SHORT_TIMEOUT") /\ @ > Alpha THEN @ - 1 ELSE @]

mark(s, n, f) == [s EXCEPT !.known = @ \cup {n}, !.flags[n] = @ \cup {f}]

\* The list beyond MaxSearchNodes is dropped, its requests are abandoned.
truncate(s) ==
    LET n == Last(s.list)
        s1 == IF InFlight(s, n) THEN release_slot(s, n) ELSE s
        s2 == IF n \in s.known THEN mark(s1, n, "ABANDONED") ELSE s1
    IN  IF Len(s.list) <= MaxSearchNodes THEN s
        ELSE [s2 EXCEPT !.list = SubSeq(@, 1, MaxSearchNodes)]

\* A node not in node_states yet goes before the first node not closer than it.
add_node_to_search(s, n) ==
    LET closer(x) == x < n
        i == Len(SelectSeq(s.list, closer))
        l == SubSeq(s.list, 1, i) \o <<n>> \o SubSeq(s.list, i + 1, Len(s.list))
    IN  IF n \in s.known THEN s
        ELSE truncate([s EXCEPT !.list = l, !.known = @ \cup {n}, !.flags[n] = {}])

\* add_search_requests: count results and requests in the air from the closest
\* node on, ask nodes while there are free slots.
visit(a, n) ==
    IF a.results >= K \/ Has(a.s, n, "ABANDONED") THEN a
    ELSE IF Has(a.s, n, "RESPONDED") THEN [a EXCEPT !.results = @ + 1]
    ELSE IF Has(a.s, n, "TIMED_OUT") THEN a
    ELSE IF Has(a.s, n, "QUERIED") THEN [a EXCEPT !.flying = @ + 1]
    ELSE IF a.s.invoke >= a.s.branch THEN a
    ELSE [a EXCEPT !.asked = @ \cup {[node |-> n, gen |-> a.s.gen, try |-> a.s.tries[n]]},
                   !.s = [mark(a.s, n, "QUERIED") EXCEPT !.invoke = @ + 1, !.tries[n] = @ + 1]]

requests(s) == InTurn(visit, [s |-> s, results |-> 0, flying |-> 0, asked |-> {}], s.list)


Finishes(r) == (r.results >= K /\ r.flying = 0) \/ r.s.invoke = 0

\* send_announce_to_closest_nodes: the first K that answered and gave a token.
announce_targets(s) ==
    LET ok(n) == n \in s.known /\ Has(s, n, "RESPONDED") /\ n \in s.tokens
        l == SelectSeq(s.list, ok)
    IN  SubSeq(l, 1, IF Len(l) < K THEN Len(l) ELSE K)

\* The step made of it: new transactions, and at the end the announce and the
\* callbacks, which the caller invokes once the lock is released.
add_search_requests(s, txs, unsaved, erase) ==
    IF s.finished
    THEN search' = s /\ tx' = txs /\ UNCHANGED <<cb, completed>> /\ ended' = None
    ELSE \E r \in {requests(s)}, done \in {Finishes(requests(s))} :
             /\ search' = IF done /\ erase THEN None ELSE [r.s EXCEPT !.finished = done]
             /\ tx' = txs \cup r.asked
             /\ cb' = [c \in Calls |-> IF done /\ c \in s.cbs THEN "called" ELSE cb[c]]
             /\ completed' = IF done THEN completed \cup {s.gen} ELSE completed
             /\ ended' = IF done
                         THEN [s |-> r.s, unsaved |-> unsaved,
                               to |-> IF s.announce THEN announce_targets(r.s) ELSE <<>>]
                         ELSE None

-----------------------------------------------------------------------------
\* The application.

\* misapplied is history: the search took an event of another search's request,
\* or a timeout of a request whose answer was being handled.
NewSearch(g, announce, c) ==
    [gen |-> g, announce |-> announce, list |-> Sorted(Table), known |-> {},
     flags |-> [n \in Nodes |-> {}], tries |-> [n \in Nodes |-> 0],
     invoke |-> 0, branch |-> Alpha,
     finished |-> FALSE, cbs |-> {c}, tokens |-> {},
     misapplied |-> FALSE]

start(announce, c) ==
    \E r \in {requests(NewSearch(gen + 1, announce, c))} :
        /\ gen' = gen + 1
        /\ search' = r.s
        /\ tx' = tx \cup r.asked
        /\ cb' = [cb EXCEPT ![c] = "waiting"]
        /\ ended' = None
        /\ UNCHANGED <<net, completed>>

NothingEnds == ended' = None /\ UNCHANGED completed

Settled(c, how) == cb' = [cb EXCEPT ![c] = how] /\ NothingEnds /\ UNCHANGED <<tx, gen, net>>

Unused(c) == cb[c] = "unused" /\ \A d \in 1..(c - 1) : cb[d] # "unused"

\* A search that is under way takes the callback, even one that is finished
\* and about to be erased.
find_peers(c) ==
    /\ Unused(c)
    /\ \/ search = None /\ start(FALSE, c)
       \/ /\ search # None
          /\ search' = [search EXCEPT !.cbs = @ \cup {c}]
          /\ Settled(c, IF search.finished THEN "late" ELSE "waiting")

\* A second announce succeeds without its callback; one during a find fails.
announce_peer(c) ==
    /\ Unused(c)
    /\ \/ search = None /\ start(TRUE, c)
       \/ /\ search # None
          /\ Settled(c, IF search.announce THEN "dropped" ELSE "refused")
          /\ UNCHANGED search

Forsaken(how) == cb' = [c \in Calls |-> IF c \in search.cbs /\ cb[c] = "waiting" THEN how ELSE cb[c]]

\* Every transaction of the info hash goes with the search.
cancel_search ==
    /\ search # None
    /\ Forsaken("cancelled")
    /\ search' = None /\ tx' = {}
    /\ NothingEnds /\ UNCHANGED <<gen, net>>

-----------------------------------------------------------------------------
\* The network thread: handle_krpc_response for the answer to t.

\* handle_get_peers_response_for_search / _with_nodes / _empty_response.
answer(t, names) ==
    LET n == t.node
        s0 == [search EXCEPT !.misapplied = @ \/ t.gen # search.gen]
        s1 == mark(release_slot(s0, n), n, "RESPONDED")
    IN  /\ net.pc = "idle" /\ t \in tx
        /\ net' = [pc |-> "token", t |-> t]
        /\ \/ search = None /\ NothingEnds /\ UNCHANGED <<search, tx, cb>>
           \/ /\ search # None
              /\ \/ /\ Has(search, n, "ABANDONED")
                    /\ search' = mark(s0, n, "RESPONDED")
                    /\ NothingEnds /\ UNCHANGED <<tx, cb>>
                 \/ /\ ~Has(search, n, "ABANDONED") /\ Has(search, n, "RESPONDED")
                    /\ search' = s0
                    /\ NothingEnds /\ UNCHANGED <<tx, cb>>
                 \/ /\ ~Has(search, n, "ABANDONED") /\ ~Has(search, n, "RESPONDED")
                    /\ \E s \in {InTurn(add_node_to_search, s1, Sorted(names))} :
                           add_search_requests(s, tx, n, FALSE)
        /\ UNCHANGED gen

save_write_token_replaces ==
    /\ net.pc = "token"
    /\ net' = [net EXCEPT !.pc = "clean"]
    /\ search' = IF net.t.node \in WithToken /\ net.t \in tx /\ search # None
                 THEN [search EXCEPT !.tokens = {net.t.node}] ELSE search
    /\ NothingEnds /\ UNCHANGED <<tx, gen, cb>>

\* save_write_token: after the search was continued, or finished.
save_write_token ==
    /\ net.pc = "token"
    /\ net' = [net EXCEPT !.pc = "clean"]
    /\ search' = IF net.t.node \in WithToken /\ net.t \in tx /\ search # None
                 THEN [search EXCEPT !.tokens = @ \cup {net.t.node}] ELSE search
    /\ NothingEnds /\ UNCHANGED <<tx, gen, cb>>

\* The finished search and the transaction go.
response_cleanup ==
    /\ net.pc = "clean"
    /\ net' = NetIdle
    /\ search' = IF net.t \in tx /\ search # None /\ search.finished THEN None ELSE search
    /\ tx' = tx \ {net.t}
    /\ NothingEnds /\ UNCHANGED <<gen, cb>>

-----------------------------------------------------------------------------
\* The maintenance thread.

short_timeout(s, t) ==
    IF Has(s, t.node, "ABANDONED") THEN s
    ELSE [mark(s, t.node, "SHORT_TIMEOUT") EXCEPT !.branch = @ + 1]

full_timeout_keeps_slot(s, t) == mark(s, t.node, "TIMED_OUT")

full_timeout(s, t) ==
    IF Has(s, t.node, "ABANDONED") THEN mark(s, t.node, "TIMED_OUT")
    ELSE mark(release_slot(s, t.node), t.node, "TIMED_OUT")

\* Requests older than 2 s (S) and older than 15 s (F), in one critical section.
cleanup_timed_out_search_requests(S, F) ==
    LET s0 == [search EXCEPT !.misapplied =
                   @ \/ \E t \in S \cup F : t.gen # search.gen \/ t = net.t]
        s1 == InTurn(short_timeout, s0, SetToSeq(S))
        live == {t \in S \cup F : ~Has(search, t.node, "ABANDONED")}
        unsaved == IF net.pc = "token" THEN net.t.node ELSE None
    IN  /\ S \cup F # {}
        /\ search # None
        /\ UNCHANGED <<gen, net>>
        /\ \A t \in S : ~Has(search, t.node, "SHORT_TIMEOUT")
        /\ \/ /\ search.finished
              /\ tx' = tx \ F
              /\ NothingEnds /\ UNCHANGED <<search, cb>>
           \/ /\ ~search.finished /\ live = {}
              /\ search' = InTurn(full_timeout, s1, SetToSeq(F)) /\ tx' = tx \ F
              /\ NothingEnds /\ UNCHANGED cb
           \/ /\ ~search.finished /\ live # {}
              /\ \E s \in {InTurn(full_timeout, s1, SetToSeq(F))} :
                     add_search_requests(s, tx \ F, unsaved, TRUE)

\* cleanup_search_node_states: abandoned nodes that nothing is expected of.
cleanup_search_node_states ==
    LET gone == {n \in search.known : Has(search, n, "ABANDONED") /\ ~InFlight(search, n)}
    IN  /\ search # None /\ ~search.finished
        /\ Cardinality(search.known) > MaxNodeStates
        /\ gone # {}
        /\ search' = [search EXCEPT !.known = @ \ gone,
                                    !.flags = [n \in Nodes |-> IF n \in gone THEN {} ELSE @[n]]]
        /\ NothingEnds /\ UNCHANGED <<tx, gen, net, cb>>

\* cleanup_stale_searches: a search older than 5 minutes goes without a word,
\* and so do the transactions that have no search.
cleanup_stale_searches ==
    /\ \/ search # None /\ Forsaken("expired")
       \/ search = None /\ tx # {} /\ UNCHANGED cb
    /\ search' = None /\ tx' = {}
    /\ NothingEnds /\ UNCHANGED <<gen, net>>

-----------------------------------------------------------------------------
NetStep == save_write_token \/ response_cleanup

Timeout == \E F \in SUBSET tx : \E S \in SUBSET (tx \ F) : cleanup_timed_out_search_requests(S, F)

Expiry == \E t \in tx : cleanup_timed_out_search_requests({}, {t})

Answers == {S \in SUBSET Nodes : Cardinality(S) <= MaxAnswer}

Next ==
    \/ \E c \in Calls : find_peers(c) \/ announce_peer(c)
    \/ cancel_search
    \/ \E t \in tx, names \in Answers : answer(t, names)
    \/ NetStep \/ Timeout
    \/ cleanup_search_node_states \/ cleanup_stale_searches

Spec == Init /\ [][Next]_vars

\* Both threads run for ever, and a request that nobody answers gets older than
\* 15 s; nothing makes a node answer.
FairSpec == Spec /\ WF_vars(NetStep) /\ WF_vars(Expiry)
-----------------------------------------------------------------------------
Outcomes == {"unused", "waiting", "late", "dropped", "refused", "called", "cancelled", "expired"}

\* The state has its type; the counters of a search never pass below zero.
TypeOK ==
    /\ search # None =>
        /\ search.invoke \in Nat /\ search.branch \in Nat
        /\ search.known \subseteq Nodes /\ search.tokens \subseteq Nodes
        /\ search.flags \in [Nodes -> SUBSET Flags]
        /\ Len(search.list) <= MaxSearchNodes
    /\ tx \subseteq [node : Nodes, gen : 1..MaxCalls, try : Nat]
    /\ net.pc \in {"idle", "token", "clean"}
    /\ cb \in [Calls -> Outcomes]

Waited(s) == {n \in Nodes : InFlight(s, n) /\ ~Has(s, n, "ABANDONED")}


Answered(s) == SelectSeq(s.list, LAMBDA n : Has(s, n, "RESPONDED"))


\* A completed announce goes to every node of its list that answered with a
\* token, unless K others are closer or that very answer was being handled.
AnnounceReaches ==
    ended # None /\ ~ended.s.misapplied /\ ended.s.announce =>
        \A n \in Range(ended.s.list) \cap WithToken :
            Has(ended.s, n, "RESPONDED") =>
                n \in Range(ended.to) \/ n = ended.unsaved \/ Len(ended.to) = K

\* Requests of an earlier search outlive it only if that search completed: a
\* cancelled or expired search leaves nothing behind for its successor.
OnlyCompletedLeaveRequests ==
    \A t \in tx : search # None => t.gen = search.gen \/ t.gen \in completed

\* A callback accepted by a search that is not over is called, unless the
\* search is cancelled or expires first.
CallbackCalled ==
    \A c \in Calls : cb[c] = "waiting" ~> cb[c] \in {"called", "cancelled", "expired"}

-----------------------------------------------------------------------------
\* What the comments say and the code does not do.

\* "Save write token if present (needed for announce_peer after traversal
\* completes)": every one of the K closest nodes that answered with a token is
\* announced to.  The answer that completes the search has its token saved after
\* the announces went out.
AnnounceReachesAll ==
    ended # None /\ ~ended.s.misapplied /\ ended.s.announce =>
        \A n \in Range(ended.s.list) \cap WithToken :
            Has(ended.s, n, "RESPONDED") => n \in Range(ended.to) \/ Len(ended.to) = K

\* "Requests currently in flight": a search that completes with K answers waits
\* for no node closer than they are.  Requests sent in the same round are not
\* counted, and nodes that no slot was free for are not asked at all.
NoCloserInFlight ==
    ended # None /\ ~ended.s.misapplied /\ Len(Answered(ended.s)) >= K =>
        \A n \in Range(ended.s.list) :
            n < Answered(ended.s)[K] => ended.s.flags[n] \cap {"RESPONDED", "TIMED_OUT", "ABANDONED"} # {}

\* "Check if node already exists in search": no node is in the list twice.
NoNodeTwice == search # None => IsInjective(search.list)

\* The counters are right whatever happens between the critical sections and
\* whichever search asked.
CountsAlwaysInFlight ==
    search # None => search.invoke = Cardinality(Waited(search))

\* "Search already in progress - just add the callback to the list": whoever
\* joins a search is called.
JoinedIsCalled ==
    \A c \in Calls : cb[c] \in {"waiting", "late"} ~> cb[c] \in {"called", "cancelled", "expired"}
=============================================================================
