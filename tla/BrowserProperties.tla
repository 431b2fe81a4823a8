-------------------------- MODULE BrowserProperties --------------------------
(* What the multi-process browser must keep to. *)
EXTENDS Browser, FiniteSets

Requests ==
    {CreateTab} \cup {NewUri(u, t) : u \in 1..MaxUris, t \in Tabs}
        \cup {TabKilled(c) : c \in Channels}

\* Every variable has a value of its kind, and no pipe holds more than it can.
TypeOK ==
    /\ controller \in {"none", "open", "quitting", "dead"}
    /\ tab \in [Tabs -> {"none", "open", "closed", "dead"}]
    /\ crashed \subseteq Tabs
    /\ \A c \in Channels :
        /\ \A n \in DOMAIN up[c] : up[c][n] \in Requests
        /\ \A n \in DOMAIN down[c] : down[c][n] \in Requests
        /\ Len(up[c]) <= Capacity /\ Len(down[c]) <= Capacity
    /\ kept \in [Tabs -> SUBSET Channels]
    /\ channel_alive \in [Channels -> BOOLEAN]
    /\ router \in {"start", "poll", "killing", "returned", "sigpipe", "double_close"}
    /\ i \in 0..UNRECLAIMED_TAB_COUNTER + 1 /\ at_least_one_alive \in BOOLEAN
    /\ req \in Requests
    /\ current_new_tab_index \in 1..UNRECLAIMED_TAB_COUNTER + 1
    /\ broken \in Channels \cup {-1}
    /\ clicks \in 0..MaxClicks
    /\ target \in Seq(Tabs) /\ Len(target) <= MaxUris
    /\ shown \in [Tabs -> 0..MaxUris]

Pending(pipe, type) == {n \in DOMAIN pipe : pipe[n].type = type}

\* As long as no tab dies on its own, channel_alive is right whenever it matters: a
\* tab is dead only after the router took it off the list, and one that is off the
\* list is dead or has its TAB_KILLED on the way (the exchange of TAB_KILLED between
\* delete_window_cb, poll_children and tab_flow).
AliveIsRight ==
    crashed = {} /\ Routing =>
        \A t \in Tabs :
            /\ tab[t] = "dead" => ~channel_alive[t]
            /\ Living(t) /\ ~channel_alive[t] => Pending(down[t], "TAB_KILLED") # {}

\* The router is ended by SIGPIPE only when a tab died on its own, or when the
\* controller exited before the router had answered its TAB_KILLED.
BrokenOnlyByDeath ==
    router = "sigpipe" =>
        \/ crashed # {}
        \/ broken = 0 /\ controller = "dead" /\ channel_alive[0]

\* No tab without a click: a tab's death on its own makes the router repeat the last
\* request, but without one the tabs and the requests on the way are the clicks.
TabsWereAskedFor ==
    crashed = {} =>
        current_new_tab_index - 1 + Cardinality(Pending(up[0], "CREATE_TAB")) <= clicks

\* A tab renders what was entered for it, and never goes back to an older address,
\* even if the router repeats a request.
UrisInOrder ==
    [][\A t \in Tabs : shown'[t] # shown[t] =>
           shown'[t] > shown[t] /\ target[shown'[t]] = t]_vars

\* An address on its way to an open tab is rendered in it, unless a later one is, the
\* tab is closed, or the router is shutting down or has been ended: no turn of the
\* polling loop loses or starves it, not even when a dead tab's request is repeated.
UriArrives ==
    \A u \in 1..MaxUris : \A t \in Tabs :
        (NewUri(u, t) \in {up[0][n] : n \in DOMAIN up[0]} /\ tab[t] = "open")
            ~> (shown[t] >= u \/ tab[t] # "open" \/ router # "poll")

\* Closing the main window ends every tab (project2/README, ASSUMPTIONS), unless the
\* router is ended first.
ControllerTakesAll ==
    controller = "quitting" ~> \/ \A t \in Tabs : ~Living(t)
                               \/ router \in {"sigpipe", "double_close"}
=============================================================================
