---------------------------- MODULE CacheService ----------------------------
(***************************************************************************)
(* EntryCache as a state machine: what HashCache implements.               *)
(***************************************************************************)
EXTENDS EntryCache

CONSTANT NoName

VARIABLES cache,    \* the entries, oldest first
          found,    \* what was last asked for, and the name of the entry returned
          broken    \* a stale pointer has been followed

Init ==
    /\ cache = <<>>
    /\ found = [asked |-> NoName, got |-> NoName]
    /\ broken = FALSE

Put(fn) ==
    /\ ~broken
    /\ IF EvictsChained(cache)
       THEN broken' = TRUE /\ cache' = cache
       ELSE /\ cache' = PutEntry(cache, [name |-> fn, chained |-> FALSE])
            /\ broken' = broken
    /\ found' = found

Lookup(fn) ==
    LET at == Search(cache, fn)
    IN  /\ ~broken
        /\ found' = [asked |-> fn, got |-> IF at = 0 THEN NoName ELSE cache[at].name]
        /\ UNCHANGED <<cache, broken>>

Next == \E fn \in Files : Put(fn) \/ Lookup(fn)

Spec == Init /\ [][Next]_<<cache, found, broken>>
=============================================================================
