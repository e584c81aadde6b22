---------------------------- MODULE NodeRegistry ----------------------------
(***************************************************************************)
(* The in-memory registry of nodes (src/nodeRegistry.cpp) as operators on  *)
(* the map m_entries.  Every method runs wholly under m_mutex, so each of  *)
(* them is one atomic step of the thread that calls it; a method that      *)
(* returns a value and changes the map is given as two operators, one for  *)
(* each.                                                                   *)
(*                                                                         *)
(* An entry keeps its status and last_seen_at; bunker_name, ip_address and *)
(* capacity are one opaque value, meta, because the registry only stores   *)
(* and returns them together.                                              *)
(***************************************************************************)
CONSTANTS NodeIds,   \* the non-empty node_id strings
          EmptyId,   \* the empty node_id
          Metas,     \* the metadata a registration can carry
          Instants,  \* the values of last_seen_at
          Epoch      \* a default-constructed time_point

ASSUME RegistryAssumption ==
  /\ EmptyId \notin NodeIds
  /\ Epoch \in Instants

Status == {"ONLINE", "OFFLINE"}

NodeEntry == [status : Status, last_seen_at : Instants, meta : Metas]

\* Every map from some of the node ids to entries.
Registries == UNION {[D -> NodeEntry] : D \in SUBSET NodeIds}

NoEntries == [n \in {} |-> Epoch]
-----------------------------------------------------------------------------
contains(entries, id) == id \in DOMAIN entries

isOnline(entries, id) ==
  contains(entries, id) /\ entries[id].status = "ONLINE"

isOffline(entries, id) ==
  contains(entries, id) /\ entries[id].status = "OFFLINE"

\* What registerNode returns.
registerResult(entries, id) ==
  IF id = EmptyId \/ isOnline(entries, id) THEN "ERR_DUPLICATE" ELSE "OK"

\* The map with the entry of id inserted or replaced.
WithEntry(entries, id, entry) ==
  [n \in DOMAIN entries \cup {id} |-> IF n = id THEN entry ELSE entries[n]]

\* Faulty variant: emplace, which leaves the entry of an OFFLINE node as it is.
registerNodeEmplace(entries, id, entry) ==
  IF contains(entries, id) THEN entries ELSE WithEntry(entries, id, entry)

\* What registerNode leaves behind: a new id is inserted, an OFFLINE one is
\* replaced as a whole (last_seen_at included), an ONLINE one is left alone.
registerNode(entries, id, entry) ==
  IF registerResult(entries, id) = "OK"
  THEN WithEntry(entries, id, [entry EXCEPT !.status = "ONLINE"])
  ELSE entries

\* Faulty variant: the entry is erased.
setOfflineErases(entries, id, now) ==
  [i \in DOMAIN entries \ {id} |-> entries[i]]

\* No test of the current status: an OFFLINE node is stamped again.
setOffline(entries, id, now) ==
  IF id # EmptyId /\ contains(entries, id)
  THEN [entries EXCEPT ![id].status = "OFFLINE", ![id].last_seen_at = now]
  ELSE entries

\* The same test decides the returned flag and the update.
updateLastSeenResult(entries, id) == id # EmptyId /\ isOnline(entries, id)

updateLastSeen(entries, id, now) ==
  IF updateLastSeenResult(entries, id)
  THEN [entries EXCEPT ![id].last_seen_at = now]
  ELSE entries

\* listNodes copies the map under one shared lock; queryNode copies one entry.
listNodes(entries) == entries
=============================================================================
