------------------------------- MODULE Storage -------------------------------
(***************************************************************************)
(* The replicated key-value store: StorageManager on every node, with last- *)
(* write-wins resolution, GossipSub for single changes and request/response *)
(* for a full copy.                                                         *)
(*                                                                         *)
(* One step is one public operation or one message handler.  Timestamps are *)
(* readings of local clocks, each ahead of the slowest by a fixed amount.    *)
(* Node identities are numbers because wins_over orders peer ids.  A gossip  *)
(* message reaches any other node at any later time, in any order, more than *)
(* once or never; the sync messages of a connection that breaks are lost.    *)
(***************************************************************************)
EXTENDS Integers, FiniteSets

CONSTANTS
    N,            \* number of nodes
    Keys,
    None,
    Skew,         \* how far a clock may be off
    MaxTime,      \* bounds: the time,
    MaxEvents     \* calls of put, remove, compact, request_sync, and sync
                  \* messages lost with their connection, together

Nodes == 1..N
Vals == 1..MaxEvents    \* contents: every put has one of its own
Stamp == [ts : 0..(MaxTime + Skew), origin : Nodes]
\* A live entry has a content, a tombstone has none.
Entry == [stamp : Stamp, deleted : {FALSE}, val : Vals]
           \cup [stamp : Stamp, deleted : {TRUE}, val : {None}]
SyncStatus == {"NOT_STARTED", "IN_PROGRESS", "COMPLETED", "FAILED"}

ASSUME StorageAssumption ==
    /\ N \in Nat \ {0} /\ Skew \in Nat /\ MaxTime \in Nat
    /\ MaxEvents \in Nat
    /\ None \notin Vals /\ None \notin Entry

VARIABLES
    entries,  \* entries_ of every node: key -> entry or None
    now,      \* the true time
    off,      \* how far the clock of a node is ahead of it
    sent,     \* gossip messages ever published
    seen,     \* gossip messages a node has handled
    sync,     \* sync_status_
    initial,  \* initial_sync_complete_
    net,      \* sync requests and responses in flight
    puts, removes, compacts, syncs, losses   \* calls made, for the bounds

Events == puts + removes + compacts + syncs + losses
counters == <<puts, removes, compacts, syncs, losses>>
vars == <<entries, now, off, sent, seen, sync, initial, net, counters>>

Init ==
    /\ entries = [n \in Nodes |-> [k \in Keys |-> None]]
    /\ now = 0
    /\ off \in [Nodes -> 0..Skew] /\ \E n \in Nodes : off[n] = 0
    /\ sent = {}
    /\ seen = [n \in Nodes |-> {}]
    /\ sync = [n \in Nodes |-> "NOT_STARTED"]
    /\ initial = [n \in Nodes |-> FALSE]
    /\ net = {}
    /\ puts = 0 /\ removes = 0 /\ compacts = 0 /\ syncs = 0 /\ losses = 0

\* Whether a stamp is newer: later, or as late and from a greater peer id.
newer(s, t) == s.ts > t.ts \/ (s.ts = t.ts /\ s.origin > t.origin)

\* (Mutant: no tie-break by peer id.)
wins_over_time_only(e, f) == e.stamp.ts > f.stamp.ts

wins_over(e, f) == newer(e.stamp, f.stamp)

\* An entry is stored over what is there: nothing, or an older entry.
accepted(e, old) == old # None => wins_over(e, old)

get_current_timestamp_ms(n) == now + off[n]

Tick ==
    /\ now < MaxTime
    /\ now' = now + 1
    /\ UNCHANGED <<entries, off, sent, seen, sync, initial, net, counters>>

-----------------------------------------------------------------------------
(* Local operations. *)

Store(n, k, e) == entries' = [entries EXCEPT ![n][k] = e]

\* (Mutant: put does not compare with the existing entry.)
put_always(n, k) ==
    /\ Events < MaxEvents
    /\ puts' = puts + 1
    /\ LET s == [ts |-> get_current_timestamp_ms(n), origin |-> n]
       IN  /\ Store(n, k, [stamp |-> s, deleted |-> FALSE, val |-> puts'])
           /\ sent' = sent \cup {[type |-> "put", key |-> k, stamp |-> s, val |-> puts']}
    /\ UNCHANGED <<now, off, seen, sync, initial, net, removes, compacts, syncs, losses>>

\* put: rejected when the existing entry is as new; published otherwise.
put(n, k) ==
    /\ Events < MaxEvents
    /\ puts' = puts + 1
    /\ LET s == [ts |-> get_current_timestamp_ms(n), origin |-> n]
           e == [stamp |-> s, deleted |-> FALSE, val |-> puts']
       IN  \/ ~accepted(e, entries[n][k]) /\ UNCHANGED <<entries, sent>>
           \/ /\ accepted(e, entries[n][k])
              /\ Store(n, k, e)
              /\ sent' = sent \cup {[type |-> "put", key |-> k, stamp |-> s, val |-> puts']}
    /\ UNCHANGED <<now, off, seen, sync, initial, net, removes, compacts, syncs, losses>>

\* remove: a live entry becomes a tombstone with the stamp of this call.
remove(n, k) ==
    /\ Events < MaxEvents
    /\ removes' = removes + 1
    /\ entries[n][k] # None /\ ~entries[n][k].deleted
    /\ LET s == [ts |-> get_current_timestamp_ms(n), origin |-> n]
       IN  /\ Store(n, k, [stamp |-> s, deleted |-> TRUE, val |-> None])
           /\ sent' = sent \cup {[type |-> "delete", key |-> k, stamp |-> s, val |-> None]}
    /\ UNCHANGED <<now, off, seen, sync, initial, net, puts, compacts, syncs, losses>>

\* compact: every tombstone is dropped.
compact(n) ==
    /\ Events < MaxEvents
    /\ \E k \in Keys : entries[n][k] # None /\ entries[n][k].deleted
    /\ compacts' = compacts + 1
    /\ entries' = [entries EXCEPT ![n] = [k \in Keys |->
                     IF @[k] # None /\ @[k].deleted THEN None ELSE @[k]]]
    /\ UNCHANGED <<now, off, sent, seen, sync, initial, net, puts, removes, syncs, losses>>

-----------------------------------------------------------------------------
(* Messages. *)

\* handle_gossip_message of a put: put_internal without publishing.
handle_gossip_put(n, m) ==
    LET e == [stamp |-> m.stamp, deleted |-> FALSE, val |-> m.val]
    IN  /\ m \in sent /\ m.type = "put" /\ m.stamp.origin # n
        /\ seen' = [seen EXCEPT ![n] = @ \cup {m}]
        /\ IF accepted(e, entries[n][m.key])
           THEN Store(n, m.key, e) ELSE UNCHANGED entries
        /\ UNCHANGED <<now, off, sent, sync, initial, net, counters>>

\* handle_gossip_message of a delete: only a key that is there, only if newer.
handle_gossip_delete(n, m) ==
    /\ m \in sent /\ m.type = "delete" /\ m.stamp.origin # n
    /\ seen' = [seen EXCEPT ![n] = @ \cup {m}]
    /\ IF entries[n][m.key] # None /\ newer(m.stamp, entries[n][m.key].stamp)
       THEN Store(n, m.key, [stamp |-> m.stamp, deleted |-> TRUE, val |-> None])
       ELSE UNCHANGED entries
    /\ UNCHANGED <<now, off, sent, sync, initial, net, counters>>

Request(n, m) == [type |-> "request", from |-> n, to |-> m]

\* on_peer_connected: at most one sync under way, none once one succeeded.
on_peer_connected(n, m) ==
    /\ n # m
    /\ ~initial[n] /\ sync[n] # "IN_PROGRESS"
    /\ sync' = [sync EXCEPT ![n] = "IN_PROGRESS"]
    /\ net' = net \cup {Request(n, m)}
    /\ UNCHANGED <<entries, now, off, sent, seen, initial, counters>>

\* request_sync by the user: no condition but a peer.
request_sync(n, m) ==
    /\ n # m
    /\ Events < MaxEvents
    /\ syncs' = syncs + 1
    /\ sync' = [sync EXCEPT ![n] = "IN_PROGRESS"]
    /\ net' = net \cup {Request(n, m)}
    /\ UNCHANGED <<entries, now, off, sent, seen, initial, puts, removes, compacts, losses>>


\* handle_sync_request: all entries, tombstones included.
handle_sync_request(r) ==
    /\ r \in net /\ r.type = "request"
    /\ net' = (net \ {r}) \cup {[type |-> "response", from |-> r.to, to |-> r.from,
                                 entries |-> entries[r.to]]}
    /\ UNCHANGED <<entries, now, off, sent, seen, sync, initial, counters>>

\* apply_remote_entry for every entry of a response.
apply_remote_entries(old, new) ==
    [k \in Keys |-> IF new[k] # None /\ accepted(new[k], old[k])
                    THEN new[k] ELSE old[k]]

handle_sync_response(r) ==
    /\ r \in net /\ r.type = "response"
    /\ net' = net \ {r}
    /\ entries' = [entries EXCEPT ![r.to] = apply_remote_entries(@, r.entries)]
    /\ sync' = [sync EXCEPT ![r.to] = "COMPLETED"]
    /\ initial' = [initial EXCEPT ![r.to] = TRUE]
    /\ UNCHANGED <<now, off, sent, seen, counters>>

\* A connection breaks and a sync message with it.
Lose(r) ==
    /\ r \in net
    /\ Events < MaxEvents
    /\ losses' = losses + 1
    /\ net' = net \ {r}
    /\ UNCHANGED <<entries, now, off, sent, seen, sync, initial, puts, removes, compacts, syncs>>

Next ==
    \/ Tick
    \/ \E n \in Nodes, k \in Keys :
         put(n, k) \/ remove(n, k)
    \/ \E n \in Nodes : compact(n)
    \/ \E n \in Nodes, m \in sent : handle_gossip_put(n, m) \/ handle_gossip_delete(n, m)
    \/ \E n, m \in Nodes : on_peer_connected(n, m) \/ request_sync(n, m)
    \/ \E r \in net : handle_sync_request(r) \/ handle_sync_response(r) \/ Lose(r)

Spec == Init /\ [][Next]_vars

\* Peers keep connecting, and what is sent over a connection that lasts is
\* handled; nothing obliges the user to call request_sync.
FairSpec ==
    /\ Spec
    /\ \A n \in Nodes : WF_vars(\E m \in Nodes : on_peer_connected(n, m))
    /\ \A n \in Nodes :
         WF_vars(\E r \in net : r.from = n /\ handle_sync_request(r))
    /\ \A n \in Nodes :
         WF_vars(\E r \in net : r.to = n /\ handle_sync_response(r))

-----------------------------------------------------------------------------
(* Properties. *)

\* Entries, stamps, statuses and messages have their types.
TypeOK ==
    /\ entries \in [Nodes -> [Keys -> Entry \cup {None}]]
    /\ now \in 0..MaxTime
    /\ off \in [Nodes -> 0..Skew]
    /\ sent \subseteq [type : {"put", "delete"}, key : Keys, stamp : Stamp,
                       val : Vals \cup {None}]
    /\ \A n \in Nodes : seen[n] \subseteq sent
    /\ sync \in [Nodes -> SyncStatus]
    /\ initial \in [Nodes -> BOOLEAN]
    /\ \A r \in net : r.from \in Nodes /\ r.to \in Nodes

\* Last write wins: a put, a gossip message or a full copy never makes a node
\* give up an entry for an older one.  (remove() does, on a slow clock: it
\* stamps the tombstone without comparing.)
StampsGrow ==
    [][removes' = removes /\ compacts' = compacts =>
         \A n \in Nodes, k \in Keys : entries[n][k] # None =>
            entries'[n][k] # None /\ ~wins_over(entries[n][k], entries'[n][k])]_vars

\* A stamp names one content: two nodes that hold a key with the same stamp
\* hold the same entry, since neither would take the other's.  (A remove in the
\* millisecond of the put it follows has the stamp of that put.)
StampNamesEntry ==
    removes = 0 =>
        \A n, m \in Nodes, k \in Keys :
            entries[n][k] # None /\ entries[m][k] # None
              /\ entries[n][k].stamp = entries[m][k].stamp
            => entries[n][k] = entries[m][k]

AllDelivered == \A n \in Nodes : {m \in sent : m.stamp.origin # n} \subseteq seen[n]

Written(k) == {m \in sent : m.key = k}

\* Once every put has reached every node, all nodes hold the newest one of
\* each key, in whatever order they came.  (Deletes do not converge: one that
\* overtakes its put is dropped.)
Converged ==
    AllDelivered /\ removes = 0 =>
        \A n \in Nodes, k \in Keys : Written(k) # {} =>
            \E m \in Written(k) :
                /\ \A o \in Written(k) : o # m => newer(m.stamp, o.stamp)
                /\ entries[n][k] # None
                /\ entries[n][k].stamp = m.stamp /\ entries[n][k].val = m.val

\* No replication path makes up an entry: what is live was put by some node
\* with that stamp and content, what is a tombstone was removed by one.
EntriesWereWritten ==
    \A n \in Nodes, k \in Keys : entries[n][k] # None =>
        [type |-> IF entries[n][k].deleted THEN "delete" ELSE "put", key |-> k,
         stamp |-> entries[n][k].stamp, val |-> entries[n][k].val] \in sent


=============================================================================
