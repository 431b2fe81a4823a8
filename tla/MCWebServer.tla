---------------------------- MODULE MCWebServer ----------------------------
(* Small instances of the web server for TLC. *)
EXTENDS WebServerProperties, TLC

CONSTANTS d1, d2, w1, w2, p1, r1, r2, r3, r4, f1, f2

\* Two names in different buckets.
PerfectHash == f1 :> 0 @@ f2 :> 1

\* Both files there; f1 may be missing, and come and go.
FullTree == {f1 :> 1 @@ f2 :> 2}
ComesAndGoes == {f1 :> n @@ f2 :> 2 : n \in {Absent, 1}}

Interchangeable ==
    Permutations(Dispatchers) \cup Permutations(Workers) \cup Permutations(Requests)
=============================================================================
