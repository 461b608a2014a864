------------------------------ MODULE GossipSub ------------------------------
(***************************************************************************)
(* Publish/subscribe over the peer connections: GossipSub on every node, for *)
(* one topic (topics share nothing but peer scores).  A step is one public    *)
(* call, one message handler or one heartbeat, each of which works on         *)
(* topics_ under topics_mutex_.  Connections are reliable and ordered; both   *)
(* ends notice at different times that one is gone, and what is under way is  *)
(* lost with it.                                                            *)
(*                                                                         *)
(* A peer's score falls by 5 with every message the validator rejects, and    *)
(* without two of them it is above the threshold of the mesh (-10); with few  *)
(* of them it is always above those of publishing (-50) and of forwarding     *)
(* (-1000).  Nothing sends IHAVE, so IHAVE and IWANT are left out.            *)
(***************************************************************************)
EXTENDS Integers, Sequences, FiniteSets

CONSTANTS
    Nodes,
    MeshOptimal,  \* config_.mesh_optimal
    MeshHigh,     \* config_.mesh_high
    FanoutSize,   \* config_.fanout_size
    Late,         \* nodes that are connected to nobody at first
    MaxMsgs,      \* bounds: messages published,
    MaxOps,       \* calls of the users and connections made or broken,
    MaxRejects,   \* verdicts of the validators,
    MaxQueue      \* messages under way to a peer when a heartbeat sends more

ASSUME GossipAssumption ==
    /\ IsFiniteSet(Nodes) /\ Late \subseteq Nodes
    /\ MeshOptimal \in Nat /\ FanoutSize \in Nat
    /\ MeshHigh \in Nat /\ MeshOptimal <= MeshHigh
    /\ MaxMsgs \in Nat /\ MaxOps \in Nat /\ MaxRejects \in 0..9 /\ MaxQueue \in Nat

VARIABLES
    peers,       \* validated peers of a node
    running,     \* running_
    subscribed,  \* whether the topic is in subscribed_topics_
    subs,        \* TopicSubscription::subscribers
    mesh,        \* mesh_peers
    fanout,      \* fanout_peers
    cache,       \* message_cache_
    invalid,     \* PeerScore::messages_invalid
    low,         \* peers whose score is below score_threshold_mesh
    chan,        \* messages under way, per ordered pair of nodes
    handed,      \* messages handed to the message handler, in order
    known,       \* history: messages a node published, accepted or refused
    expired,     \* history: nodes whose cache dropped a message
    calm,        \* history: messages since whose publication no mesh changed
    ops, rejects

topic == <<subscribed, subs, mesh, fanout>>
scores == <<invalid, low>>
history == <<known, expired>>
vars == <<peers, running, topic, cache, scores, chan, handed, history, calm, ops, rejects>>

Msgs == 1..MaxMsgs
Pairs == {p \in Nodes \X Nodes : p[1] # p[2]}

Init ==
    /\ peers = [n \in Nodes |-> IF n \in Late THEN {} ELSE (Nodes \ Late) \ {n}]
    /\ running = [n \in Nodes |-> TRUE]
    /\ subscribed = [n \in Nodes |-> FALSE]
    /\ subs = [n \in Nodes |-> {}] /\ mesh = [n \in Nodes |-> {}]
    /\ fanout = [n \in Nodes |-> {}] /\ cache = [n \in Nodes |-> {}]
    /\ invalid = [p \in Pairs |-> 0] /\ low = [n \in Nodes |-> {}]
    /\ chan = [p \in Pairs |-> <<>>]
    /\ handed = [n \in Nodes |-> <<>>]
    /\ known = [n \in Nodes |-> {}] /\ expired = {} /\ calm = Msgs
    /\ ops = 0 /\ rejects = 0

-----------------------------------------------------------------------------
(* Sending.  out[m] are the messages for m; they reach m while it has the
   connection, after those sent before. *)

Control(type) == [type |-> type, id |-> 0]
To(S, msg) == [m \in Nodes |-> IF m \in S THEN <<msg>> ELSE <<>>]
Then(f, g) == [m \in Nodes |-> f[m] \o g[m]]

Send(n, out, chans) ==
    chan' = [p \in Pairs |->
               IF p[1] = n /\ p[2] \in peers[n] /\ n \in peers[p[2]]
               THEN chans[p] \o out[p[2]] ELSE chans[p]]

\* The head of the channel from m is taken; what the handler sends is added.
Receive(n, m, type) == n \in peers[m] /\ m \in peers[n] /\ chan[<<m, n>>] # <<>>
                         /\ Head(chan[<<m, n>>]).type = type
Rest(n, m) == [chan EXCEPT ![<<m, n>>] = Tail(@)]
Nothing == To({}, Control("PRUNE"))

\* PeerScore::update_score of m at n, for a count of invalid messages.
scored(n, m, count) ==
    {low[n] \ {m}} \cup (IF count >= 2 THEN {low[n] \cup {m}} ELSE {})

\* Meshes change only here, so that calm is kept.
SetMesh(n, S) ==
    /\ mesh' = [mesh EXCEPT ![n] = S]
    /\ calm' = IF S = mesh[n] THEN calm ELSE calm \ UNION {known[m] : m \in Nodes}

Call == ops < MaxOps /\ ops' = ops + 1

-----------------------------------------------------------------------------
(* Mesh maintenance. *)

\* random_sample: any subset of the given size, everything if there are fewer.
random_sample(S, count) ==
    IF Cardinality(S) <= count THEN {S}
    ELSE {T \in SUBSET S : Cardinality(T) = count}

\* maintain_mesh: for a mesh M and subscribers S the possible new meshes, with
\* the GRAFT and PRUNE messages that go out.
maintain_mesh(n, M, S) ==
    LET kept == M \ low[n]
        size == Cardinality(kept)
        bye == To(M \cap low[n], Control("PRUNE"))
    IN  IF size < MeshOptimal
        THEN {[mesh |-> kept \cup T, out |-> Then(bye, To(T, Control("GRAFT")))] :
                T \in random_sample((S \ kept) \ low[n], MeshOptimal - size)}
        ELSE {[mesh |-> kept \ T, out |-> Then(bye, To(T, Control("PRUNE")))] :
                T \in IF size > MeshHigh THEN random_sample(kept, size - MeshOptimal)
                                         ELSE {{}}}

-----------------------------------------------------------------------------
(* Calls of the user. *)

subscribe(n) ==
    /\ ~subscribed[n]
    /\ Call
    /\ subscribed' = [subscribed EXCEPT ![n] = TRUE]
    /\ \E r \in maintain_mesh(n, mesh[n], subs[n]) :
         /\ SetMesh(n, r.mesh)
         /\ Send(n, Then(To(peers[n], Control("SUBSCRIBE")), r.out), chan)
    /\ UNCHANGED <<peers, running, subs, fanout, cache, scores, handed, history, rejects>>


unsubscribe(n) ==
    /\ subscribed[n]
    /\ Call
    /\ subscribed' = [subscribed EXCEPT ![n] = FALSE]
    /\ Send(n, Then(To(peers[n], Control("UNSUBSCRIBE")),
                    To(mesh[n], Control("PRUNE"))), chan)
    /\ SetMesh(n, {})
    /\ UNCHANGED <<peers, running, subs, fanout, cache, scores, handed, history, rejects>>

\* publish: to the mesh of a topic one is subscribed to, to the fanout else.
publish(n, id) ==
    /\ running[n]
    /\ UNION {known[m] : m \in Nodes} = 1..(id - 1)     \* ids are unique
    /\ Call
    /\ cache' = [cache EXCEPT ![n] = @ \cup {id}]
    /\ known' = [known EXCEPT ![n] = @ \cup {id}]
    /\ IF subscribed[n]
       THEN Send(n, To(mesh[n], [type |-> "PUBLISH", id |-> id]), chan) /\ UNCHANGED fanout
       ELSE \E T \in random_sample(peers[n] \ fanout[n],
                                   FanoutSize - Cardinality(fanout[n])) :
              /\ fanout' = [fanout EXCEPT ![n] = @ \cup T]
              /\ Send(n, To(fanout[n] \cup T, [type |-> "PUBLISH", id |-> id]), chan)
    /\ UNCHANGED <<peers, running, subscribed, subs, mesh, scores, handed, expired,
                   calm, rejects>>

\* stop: the others are told; the mesh is left as it is.
stop(n) ==
    /\ running[n]
    /\ Call
    /\ running' = [running EXCEPT ![n] = FALSE]
    /\ subscribed' = [subscribed EXCEPT ![n] = FALSE]
    /\ Send(n, To(IF subscribed[n] THEN peers[n] ELSE {}, Control("UNSUBSCRIBE")), chan)
    /\ UNCHANGED <<peers, subs, mesh, fanout, cache, scores, handed, history, calm, rejects>>

-----------------------------------------------------------------------------
(* Message handlers. *)

\* A new subscriber of a topic one is subscribed to: the mesh is looked after.
handle_subscribe(n, m) ==
    LET S == subs[n] \cup {m}
    IN  /\ Receive(n, m, "SUBSCRIBE")
        /\ subs' = [subs EXCEPT ![n] = S]
        /\ \E r \in IF subscribed[n] /\ m \notin subs[n] THEN maintain_mesh(n, mesh[n], S)
                    ELSE {[mesh |-> mesh[n], out |-> Nothing]} :
             SetMesh(n, r.mesh) /\ Send(n, r.out, Rest(n, m))
        /\ UNCHANGED <<peers, running, subscribed, fanout, cache, scores, handed, history,
                       ops, rejects>>

\* The last subscriber takes the record of the topic along (cleanup_topic), and
\* with it mesh and fanout, whoever is in them.
handle_unsubscribe(n, m) ==
    LET S == subs[n] \ {m}
        M == mesh[n] \ {m}
    IN  /\ Receive(n, m, "UNSUBSCRIBE")
        /\ subs' = [subs EXCEPT ![n] = S]
        /\ fanout' = [fanout EXCEPT ![n] = IF S = {} THEN {} ELSE @ \ {m}]
        /\ \E r \in IF subscribed[n] /\ m \in subs[n] /\ m \in mesh[n]
                    THEN maintain_mesh(n, M, S)
                    ELSE {[mesh |-> M, out |-> Nothing]} :
             SetMesh(n, IF S = {} THEN {} ELSE r.mesh) /\ Send(n, r.out, Rest(n, m))
        /\ UNCHANGED <<peers, running, subscribed, cache, scores, handed, history,
                       ops, rejects>>

handle_graft(n, m) ==
    /\ Receive(n, m, "GRAFT")
    /\ \E L \in scored(n, m, invalid[<<n, m>>]) :
         LET ok == subscribed[n] /\ m \notin L
         IN  /\ low' = [low EXCEPT ![n] = L]
             /\ SetMesh(n, IF ok THEN mesh[n] \cup {m} ELSE mesh[n])
             /\ Send(n, IF ok THEN Nothing ELSE To({m}, Control("PRUNE")), Rest(n, m))
    /\ UNCHANGED <<peers, running, subscribed, subs, fanout, cache, invalid, handed,
                   history, ops, rejects>>

handle_prune(n, m) ==
    /\ Receive(n, m, "PRUNE")
    /\ \E L \in scored(n, m, invalid[<<n, m>>]) : low' = [low EXCEPT ![n] = L]
    /\ SetMesh(n, mesh[n] \ {m})
    /\ Send(n, Nothing, Rest(n, m))
    /\ UNCHANGED <<peers, running, subscribed, subs, fanout, cache, invalid, handed,
                   history, ops, rejects>>

\* validate_message says IGNORE or REJECT; then the score of the one that
\* passed the message on falls.
refuse(n, m, id) ==
    /\ rejects < MaxRejects /\ rejects' = rejects + 1
    /\ known' = [known EXCEPT ![n] = @ \cup {id}]
    /\ \/ UNCHANGED scores
       \/ LET count == invalid[<<n, m>>] + 1
          IN  /\ invalid' = [invalid EXCEPT ![<<n, m>>] = count]
              /\ \E L \in scored(n, m, count) : low' = [low EXCEPT ![n] = L]
    /\ Send(n, Nothing, Rest(n, m))
    /\ UNCHANGED <<cache, handed>>

\* (Mutant: a message from another peer of the mesh is taken for a new one.)
handle_publish_again(n, m) ==
    LET id == Head(chan[<<m, n>>]).id
    IN  /\ Receive(n, m, "PUBLISH")
        /\ cache' = [cache EXCEPT ![n] = @ \cup {id}]
        /\ known' = [known EXCEPT ![n] = @ \cup {id}]
        /\ IF subscribed[n]
           THEN /\ handed' = [handed EXCEPT ![n] = Append(@, id)]
                /\ Send(n, IF id \in cache[n] THEN Nothing
                           ELSE To(mesh[n] \ {m}, Head(chan[<<m, n>>])), Rest(n, m))
           ELSE UNCHANGED handed /\ Send(n, Nothing, Rest(n, m))
        /\ UNCHANGED <<peers, running, topic, scores, expired, calm, ops, rejects>>


\* Seen already; refused; accepted: cached, forwarded and handed over.
handle_publish(n, m) ==
    LET id == Head(chan[<<m, n>>]).id
    IN  /\ Receive(n, m, "PUBLISH")
        /\ \/ /\ id \in cache[n]
              /\ Send(n, Nothing, Rest(n, m))
              /\ UNCHANGED <<cache, handed, scores, known, rejects>>
           \/ id \notin cache[n] /\ refuse(n, m, id)
           \/ /\ id \notin cache[n]
              /\ cache' = [cache EXCEPT ![n] = @ \cup {id}]
              /\ known' = [known EXCEPT ![n] = @ \cup {id}]
              /\ IF subscribed[n]
                 THEN /\ Send(n, To(mesh[n] \ {m}, Head(chan[<<m, n>>])), Rest(n, m))
                      /\ handed' = [handed EXCEPT ![n] = Append(@, id)]
                 ELSE Send(n, Nothing, Rest(n, m)) /\ UNCHANGED handed
              /\ \E L \in scored(n, m, invalid[<<n, m>>]) : low' = [low EXCEPT ![n] = L]
              /\ UNCHANGED <<invalid, rejects>>
        /\ UNCHANGED <<peers, running, topic, expired, calm, ops>>

-----------------------------------------------------------------------------
(* The heartbeat, connections. *)

\* process_heartbeat, every second while running_: the mesh is looked
\* after, an old fanout is dropped, scores are computed anew.
heartbeat(n) ==
    /\ running[n]
    /\ \A m \in Nodes \ {n} : Len(chan[<<n, m>>]) <= MaxQueue
    /\ \E L \in SUBSET {m \in peers[n] : invalid[<<n, m>>] >= 2} :
         low' = [low EXCEPT ![n] = L]
    /\ \E r \in IF subscribed[n] THEN maintain_mesh(n, mesh[n], subs[n])
                ELSE {[mesh |-> mesh[n], out |-> Nothing]} :
         SetMesh(n, r.mesh) /\ Send(n, r.out, chan)
    /\ \E F \in IF subscribed[n] THEN {fanout[n]} ELSE {fanout[n], {}} :
         fanout' = [fanout EXCEPT ![n] = F]
    /\ UNCHANGED <<peers, running, subscribed, subs, cache, invalid, handed, history,
                   ops, rejects>>

\* cleanup_message_cache: message_cache_ttl has passed.
expire(n, id) ==
    /\ running[n] /\ id \in cache[n] /\ Call
    /\ cache' = [cache EXCEPT ![n] = @ \ {id}]
    /\ expired' = expired \cup {n}
    /\ UNCHANGED <<peers, running, topic, scores, chan, handed, known, calm, rejects>>

\* A handshake completes on both sides.
handle_peer_connected(n, m) ==
    /\ n # m /\ m \notin peers[n] /\ n \notin peers[m]
    /\ Call
    /\ peers' = [peers EXCEPT ![n] = @ \cup {m}, ![m] = @ \cup {n}]
    /\ invalid' = [invalid EXCEPT ![<<n, m>>] = 0, ![<<m, n>>] = 0]
    /\ UNCHANGED <<running, topic, cache, low, chan, handed, history, calm, rejects>>

\* n notices that the connection to m is gone.
handle_peer_disconnected(n, m) ==
    /\ m \in peers[n]
    /\ IF n \in peers[m] THEN Call ELSE UNCHANGED ops
    /\ peers' = [peers EXCEPT ![n] = @ \ {m}]
    /\ chan' = [chan EXCEPT ![<<n, m>>] = <<>>, ![<<m, n>>] = <<>>]
    /\ subs' = [subs EXCEPT ![n] = @ \ {m}]
    /\ SetMesh(n, mesh[n] \ {m})
    /\ fanout' = [fanout EXCEPT ![n] = @ \ {m}]
    /\ low' = [low EXCEPT ![n] = @ \ {m}]
    /\ UNCHANGED <<running, subscribed, cache, invalid, handed, history, rejects>>

-----------------------------------------------------------------------------
Handle(n, m) ==
    \/ handle_subscribe(n, m) \/ handle_unsubscribe(n, m)
    \/ handle_graft(n, m) \/ handle_prune(n, m) \/ handle_publish(n, m)

Next ==
    \/ \E n \in Nodes : subscribe(n) \/ unsubscribe(n) \/ stop(n) \/ heartbeat(n)
    \/ \E n \in Nodes, id \in Msgs : publish(n, id) \/ expire(n, id)
    \/ \E p \in Pairs : \/ Handle(p[1], p[2])
                        \/ handle_peer_connected(p[1], p[2])
                        \/ handle_peer_disconnected(p[1], p[2])

Spec == Init /\ [][Next]_vars

-----------------------------------------------------------------------------
(* Properties. *)

\* Sets of peers, messages under way and counters have their types; the fanout
\* keeps to fanout_size however often one publishes.
TypeOK ==
    /\ peers \in [Nodes -> SUBSET Nodes]
    /\ running \in [Nodes -> BOOLEAN] /\ subscribed \in [Nodes -> BOOLEAN]
    /\ \A n \in Nodes : subs[n] \cup mesh[n] \cup fanout[n] \cup low[n] \subseteq Nodes \ {n}
    /\ \A n \in Nodes : Cardinality(fanout[n]) <= FanoutSize
    /\ \A n \in Nodes : cache[n] \cup known[n] \subseteq Msgs
    /\ \A p \in Pairs : \A i \in 1..Len(chan[p]) :
         chan[p][i] \in [type : {"SUBSCRIBE", "UNSUBSCRIBE", "GRAFT", "PRUNE"}, id : {0}]
                          \cup [type : {"PUBLISH"}, id : Msgs]

\* Nothing that is sent is still to be handled, and nobody still holds a
\* connection the other end has given up.
Quiet ==
    /\ \A p \in Pairs : chan[p] = <<>>
    /\ \A p \in Pairs : p[1] \in peers[p[2]] <=> p[2] \in peers[p[1]]

\* The handler of a node sees a message once, however many members of the mesh
\* pass it on, as long as the cache remembers it; the publisher never sees it.
HandedOnce ==
    \A n \in Nodes \ expired : \A i, j \in 1..Len(handed[n]) :
        handed[n][i] = handed[n][j] => i = j

\* Peers that are gone are nowhere: not among the subscribers, not in the mesh,
\* not in the fanout.
NoGhosts ==
    \A n \in Nodes : subs[n] \cup mesh[n] \cup fanout[n] \cup low[n] \subseteq peers[n]



\* When nothing is under way, a node knows which of its peers are subscribed.
SubscriptionsKnown ==
    Quiet => \A n \in Nodes : \A m \in peers[n] : subscribed[m] => m \in subs[n]

=============================================================================
