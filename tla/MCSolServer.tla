----------------------------- MODULE MCSolServer -----------------------------
(* A small instance of the reference web server for TLC. *)
EXTENDS SolServerProperties, TLC

CONSTANTS d1, d2, w1, w2, r1, r2, r3, r4, root, index, a, b

\* The long name leaves bytes behind that the short ones run into.
NameLength == root :> 1 @@ index :> 3 @@ a :> 2 @@ b :> 2
\* One short name is the beginning of the long one.
OneMore == root :> {} @@ index :> {} @@ a :> {index} @@ b :> {}
FilesPresent == {index, a, b}

Given(D, W, n, caching, entries, asks) ==
    [dispatch |-> D, work |-> W, qlen |-> n, caching |-> caching, entries |-> entries,
     asks |-> asks, left |-> {}]

\* A repeated name between two others tells the order of use from that of loading.
Repeating == r1 :> a @@ r2 :> index @@ r3 :> root @@ r4 :> b
Unruly == r1 :> a @@ r2 :> Silent @@ r3 :> Null @@ r4 :> Bad
Few == r1 :> Other @@ r2 :> a @@ r3 :> a @@ r4 :> Null

SmallStarts ==
    {Given({d1}, {w1, w2}, 2, 2, 2, Repeating),
     Given({d1}, {w1}, 1, 1, 2, Repeating),
     Given({d1, d2}, {w1}, 1, 0, 1, Unruly),
     [Given({d1, d2}, {w1}, 1, 0, 1, Unruly) EXCEPT !.left = {2}],
     Given({d1, d2}, {w1, w2}, 1, 2, 1, Few),
     Given({d1}, {w1}, 0, 2, 1, Few)}
=============================================================================
