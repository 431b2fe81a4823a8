----------------------------- MODULE ServerLists -----------------------------
(***************************************************************************)
(* The three lists of project5/server.c together: the request queue, the   *)
(* prefetch queue and the cache.  They meet in getCachedRequest, which     *)
(* looks every request up in the cache as it goes along the queue, with    *)
(* queue_mutex and cache_mutex locked.                                     *)
(***************************************************************************)
EXTENDS HashCache, RequestLists

VARIABLE filename    \* the name in each request, Null while it is not in the queue

serverVars == <<vars, listVars, filename>>

ServerInit == Init /\ ListsInit /\ filename = [r \in Requests |-> Null]

Cached(r) == hash_search(heap, filename[r]) # Null

\* Who has a request that left the queue keeps its name in other variables than these.
Names == [r \in Requests |-> IF where'[r] = "queue" THEN filename[r] ELSE Null]

\* cache_mutex is locked as long as a search goes on.
ServerNext ==
    \/ /\ req = Null
       /\ \E fn \in Files, e \in Cells : Put(e, fn)
       /\ UNCHANGED <<listVars, filename>>
    \/ /\ ~fault
       /\ \/ \E r \in Requests :
                \/ createRequest(r) /\ filename' = Names
                \/ destroyRequest(r) /\ filename' = Names
                \/ prefetch_putRequest(r) /\ filename' = Names
                \/ queue_putRequest(r)
                   /\ \E fn \in Files : filename' = [filename EXCEPT ![r] = fn]
          \/ SearchFirst /\ filename' = Names
          \/ prefetch_getRequest /\ filename' = Names
       /\ UNCHANGED vars
    \/ queue_getRequest /\ Lookup(filename[q_first]) /\ filename' = Names
    \/ SearchHits /\ Cached(req) /\ Lookup(filename[req]) /\ filename' = Names
    \/ SearchMisses /\ ~Cached(req) /\ Lookup(filename[req]) /\ filename' = Names

ServerSpec == ServerInit /\ [][ServerNext]_serverVars
-----------------------------------------------------------------------------
(* Properties *)

ServerTypeOK ==
    /\ TypeOK /\ ListsTypeOK
    /\ filename \in [Requests -> Files \cup {Null}]

\* "the first request/cache_entry pair if such a pair exists ... otherwise ... the first
\* request in the queue" (getCachedRequest): nothing changes under a search that would
\* make it pick another one.
PicksFirstCached ==
    [][\A i \in DOMAIN Queue :
          req # Null /\ where'[Queue[i]] = "worker_thread" =>
              LET cached == {k \in DOMAIN Queue : Cached(Queue[k])}
              IN  i = IF cached = {} THEN 1 ELSE Min(cached)]_serverVars
=============================================================================
