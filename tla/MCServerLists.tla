---------------------------- MODULE MCServerLists ----------------------------
(* The lists of a server with few requests and a cache of three entries, for TLC. *)
EXTENDS ServerLists, MCHashCache

AnyMemory == AnyCell \cup Permutations(Requests)
=============================================================================
