------------------------------- MODULE Browser -------------------------------
(***************************************************************************)
(* The multi-process browser of project2 (browser.c, and the callbacks of  *)
(* wrapper.c): a controller window, one process per tab, and a router that *)
(* polls a pipe from each of them and passes messages on.                  *)
(*                                                                         *)
(* fork_tab keeps the router in the child of fork() and makes its parent   *)
(* the new tab (or the controller), so a tab is the router of before: it   *)
(* keeps the pipe ends the router had open then.  Who still has an end     *)
(* open decides between end of file, EAGAIN and SIGPIPE.                   *)
(***************************************************************************)
EXTENDS Integers, Sequences

CONSTANTS UNRECLAIMED_TAB_COUNTER,
          Capacity,     \* how many requests a pipe holds
          MaxClicks,    \* how often + is clicked
          MaxUris,      \* how many addresses are entered
          MayCrash      \* may a tab die on its own, once?

ASSUME BrowserAssumption ==
    /\ UNRECLAIMED_TAB_COUNTER \in Nat \ {0}
    /\ Capacity \in Nat \ {0}
    /\ MaxClicks \in Nat /\ MaxUris \in Nat /\ MayCrash \in BOOLEAN

Tabs == 1..UNRECLAIMED_TAB_COUNTER
Channels == 0..UNRECLAIMED_TAB_COUNTER    \* the controller's is 0

VARIABLES
    controller,      \* "none", "open", "quitting" or "dead"
    tab,             \* each tab's process: "none", "open", "closed" (its window) or "dead"
    crashed,         \* the tabs that died without being told to
    up,              \* child_to_parent pipes
    down,            \* parent_to_child pipes
    kept,            \* the read ends of up that a tab has left from when it was router
    channel_alive,
    router,          \* "start", "poll", "killing", "returned", or how it came to an end
    i, at_least_one_alive, req, current_new_tab_index,    \* the locals of poll_children
    broken,          \* the channel whose write end got SIGPIPE, -1 if none did
    clicks,          \* how often + was clicked
    target,          \* the tabs the addresses were entered for, in order
    shown            \* the last address each tab rendered, 0 for none

children == <<controller, tab, crashed, kept>>
locals == <<i, at_least_one_alive, req, current_new_tab_index>>
user == <<clicks, target>>
vars == <<children, up, down, channel_alive, router, locals, broken, user, shown>>

CreateTab == [type |-> "CREATE_TAB"]
NewUri(u, t) == [type |-> "NEW_URI_ENTERED", uri |-> u, tab |-> t]
TabKilled(t) == [type |-> "TAB_KILLED", tab |-> t]

Init ==
    /\ controller = "none"
    /\ tab = [t \in Tabs |-> "none"] /\ crashed = {}
    /\ up = [c \in Channels |-> <<>>] /\ down = [c \in Channels |-> <<>>]
    /\ kept = [t \in Tabs |-> {}]
    /\ channel_alive = [c \in Channels |-> FALSE]
    /\ router = "start"
    /\ i = 0 /\ at_least_one_alive = FALSE /\ req = CreateTab
    /\ current_new_tab_index = 1
    /\ broken = -1
    /\ clicks = 0 /\ target = <<>>
    /\ shown = [t \in Tabs |-> 0]
-----------------------------------------------------------------------------
(* The two ends of the pipes *)

Living(c) == IF c = 0 THEN controller \in {"open", "quitting"} ELSE tab[c] \in {"open", "closed"}
Routing == router \in {"poll", "killing"}

\* c's process alone reads down[c]; the router and the tabs that were router since
\* c was made may write it.
Written(c) ==
    \/ Routing
    \/ \E t \in Tabs : t > c /\ Living(t)

\* The router reads up[c] until it closes it, and so could the tabs that kept it.
Readable(c) ==
    \/ Routing /\ channel_alive[c]
    \/ \E t \in Tabs : Living(t) /\ c \in kept[t]

\* Mutant: EAGAIN is not told from a request.
NothingRead(c) == up[c] = <<>>

\* What a read of up[c] gives the router: the next request, -1 and EAGAIN, or 0.
EndOfFile(c) == up[c] = <<>> /\ ~Living(c)
Again(c) == up[c] = <<>> /\ Living(c)

Broken(c) ==
    /\ router' = "sigpipe" /\ broken' = c
    /\ UNCHANGED <<down, channel_alive, i, at_least_one_alive>>

\* write to down[c], with room in the pipe.
Send(c, m) ==
    /\ Len(down[c]) < Capacity
    /\ down' = [down EXCEPT ![c] = Append(@, m)]
-----------------------------------------------------------------------------
(* The router: main, fork_tab and poll_children *)

\* main: the sanity check, then the controller is forked, if it can be.
Main ==
    /\ router = "start"
    /\ \/ /\ UNRECLAIMED_TAB_COUNTER > 1
          /\ controller' = "open" /\ router' = "poll"
          /\ channel_alive' = [channel_alive EXCEPT ![0] = TRUE]
       \/ UNRECLAIMED_TAB_COUNTER > 1
          /\ router' = "poll" /\ UNCHANGED <<controller, channel_alive>>
       \/ UNRECLAIMED_TAB_COUNTER <= 1
          /\ router' = "returned" /\ UNCHANGED <<controller, channel_alive>>
    /\ UNCHANGED <<tab, crashed, kept, up, down, locals, broken, user, shown>>

\* The for loop goes on to the next channel, the do loop round again while any lives.
Advance(alive) ==
    IF i < UNRECLAIMED_TAB_COUNTER
    THEN i' = i + 1 /\ at_least_one_alive' = alive /\ router' = router
    ELSE /\ i' = 0 /\ at_least_one_alive' = FALSE
         /\ router' = IF alive THEN router ELSE "returned"

\* Mutant: one number too many.
RoomForOneMore == current_new_tab_index <= UNRECLAIMED_TAB_COUNTER + 1

RoomForTab == current_new_tab_index <= UNRECLAIMED_TAB_COUNTER

\* CREATE_TAB: the number is used up whether fork_tab succeeds or not.
Create ==
    LET t == current_new_tab_index
    IN  /\ \/ ~RoomForTab
              /\ UNCHANGED <<tab, kept, channel_alive, current_new_tab_index>>
           \/ /\ RoomForTab
              /\ current_new_tab_index' = t + 1
              /\ \/ /\ tab' = [tab EXCEPT ![t] = "open"]
                    /\ kept' = [kept EXCEPT ![t] = {c \in Channels : channel_alive[c]}]
                    /\ channel_alive' = [channel_alive EXCEPT ![t] = TRUE]
                 \/ UNCHANGED <<tab, kept, channel_alive>>
        /\ Advance(TRUE)
        /\ UNCHANGED <<down, broken>>

\* Mutant: the tab behind the one meant is asked whether it lives.
PassUriAskingNext(m) ==
    /\ IF m.tab < UNRECLAIMED_TAB_COUNTER /\ channel_alive[m.tab + 1] /\ Living(m.tab)
       THEN Send(m.tab, m) ELSE UNCHANGED down
    /\ Advance(TRUE)
    /\ UNCHANGED <<channel_alive, broken, tab, kept, current_new_tab_index>>

\* NEW_URI_ENTERED: passed on if the tab is thought alive.
PassUri(m) ==
    /\ \/ /\ ~channel_alive[m.tab]
          /\ Advance(TRUE) /\ UNCHANGED <<down, channel_alive, broken>>
       \/ channel_alive[m.tab] /\ ~Living(m.tab) /\ Broken(m.tab)
       \/ /\ channel_alive[m.tab] /\ Living(m.tab) /\ Send(m.tab, m)
          /\ Advance(TRUE) /\ UNCHANGED <<channel_alive, broken>>
    /\ UNCHANGED <<tab, kept, current_new_tab_index>>

\* Mutant: the tab is told, but stays alive for the router.
KillKeepingAlive(t) ==
    /\ \/ ~Living(t) /\ Broken(t)
       \/ /\ Living(t) /\ Send(t, TabKilled(t))
          /\ IF t = 0 THEN router' = "killing" /\ i' = 1 /\ UNCHANGED at_least_one_alive
                      ELSE Advance(TRUE)
          /\ UNCHANGED <<broken, channel_alive>>
    /\ UNCHANGED <<tab, kept, current_new_tab_index>>

\* TAB_KILLED: the request goes back to the tab, which exits on reading it.  A second
\* close of the same number may hit another channel: what follows is not modelled.
Kill(t) ==
    /\ \/ ~Living(t) /\ Broken(t)
       \/ /\ Living(t) /\ ~channel_alive[t]
          /\ router' = "double_close"
          /\ UNCHANGED <<down, channel_alive, i, at_least_one_alive, broken>>
       \/ /\ Living(t) /\ channel_alive[t] /\ Send(t, TabKilled(t))
          /\ channel_alive' = [channel_alive EXCEPT ![t] = FALSE]
          /\ IF t = 0 THEN router' = "killing" /\ i' = 1 /\ UNCHANGED at_least_one_alive
                      ELSE Advance(TRUE)
          /\ UNCHANGED broken
    /\ UNCHANGED <<tab, kept, current_new_tab_index>>

Handle(m) ==
    \/ m.type = "CREATE_TAB" /\ Create
    \/ m.type = "NEW_URI_ENTERED" /\ PassUri(m)
    \/ m.type = "TAB_KILLED" /\ Kill(m.tab)

\* One turn of the for loop.  read gives 0, not -1, at end of file: the request read
\* last is handled again.
Poll ==
    /\ router = "poll"
    /\ \/ /\ ~channel_alive[i] \/ Again(i)
          /\ Advance(at_least_one_alive \/ channel_alive[i])
          /\ UNCHANGED <<tab, kept, up, down, channel_alive, req,
                         current_new_tab_index, broken>>
       \/ /\ channel_alive[i] /\ EndOfFile(i)
          /\ Handle(req) /\ UNCHANGED <<up, req>>
       \/ /\ channel_alive[i] /\ up[i] # <<>>
          /\ req' = Head(up[i]) /\ up' = [up EXCEPT ![i] = Tail(@)]
          /\ Handle(Head(up[i]))
    /\ UNCHANGED <<controller, crashed, user, shown>>

\* Mutant: the last tab is forgotten.
KillNextButLast ==
    /\ router = "killing" /\ i' = i + 1
    /\ IF i < UNRECLAIMED_TAB_COUNTER /\ channel_alive[i] /\ Living(i)
       THEN /\ Send(i, TabKilled(i)) /\ router' = router
            /\ channel_alive' = [channel_alive EXCEPT ![i] = FALSE]
       ELSE /\ router' = IF i < UNRECLAIMED_TAB_COUNTER THEN router ELSE "returned"
            /\ UNCHANGED <<down, channel_alive>>
    /\ UNCHANGED <<children, up, at_least_one_alive, req, current_new_tab_index, broken,
                   user, shown>>

\* The controller is closed: every tab thought alive is told, then the router returns.
KillNext ==
    /\ router = "killing"
    /\ \/ /\ i \in Tabs /\ channel_alive[i]
          /\ \/ ~Living(i) /\ Broken(i)
             \/ /\ Living(i) /\ Send(i, TabKilled(i))
                /\ channel_alive' = [channel_alive EXCEPT ![i] = FALSE]
                /\ i' = i + 1
                /\ UNCHANGED <<router, at_least_one_alive, broken>>
       \/ /\ i \in Tabs /\ ~channel_alive[i]
          /\ i' = i + 1
          /\ UNCHANGED <<down, channel_alive, router, at_least_one_alive, broken>>
       \/ /\ i \notin Tabs
          /\ router' = "returned"
          /\ UNCHANGED <<down, channel_alive, i, at_least_one_alive, broken>>
    /\ UNCHANGED <<children, up, req, current_new_tab_index, user, shown>>
-----------------------------------------------------------------------------
(* The controller: its callbacks and controller_flow *)

\* write to up[0] by the controller, which ends it if nobody can read; it blocks
\* when the pipe is full.
Report(m, l) ==
    IF Readable(0)
    THEN /\ Len(up[0]) < Capacity
         /\ up' = [up EXCEPT ![0] = Append(@, m)]
         /\ controller' = l
    ELSE controller' = "dead" /\ up' = up

new_tab_created_cb ==
    /\ controller = "open" /\ clicks < MaxClicks
    /\ Report(CreateTab, "open")
    /\ clicks' = clicks + 1
    /\ UNCHANGED <<tab, crashed, kept, down, channel_alive, router, locals, broken,
                   target, shown>>

\* Mutant: the range is that of C arrays.
uri_entered_off_by_one(t) ==
    /\ controller = "open" /\ Len(target) < MaxUris
    /\ t \in 1..UNRECLAIMED_TAB_COUNTER
    /\ target' = Append(target, t)
    /\ Report(NewUri(Len(target'), t - 1), "open")
    /\ UNCHANGED <<tab, crashed, kept, down, channel_alive, router, locals, broken,
                   clicks, shown>>

\* A number out of range is answered with an alert.
uri_entered_cb(t) ==
    /\ controller = "open" /\ Len(target) < MaxUris
    /\ t \in Tabs
    /\ target' = Append(target, t)
    /\ Report(NewUri(Len(target'), t), "open")
    /\ UNCHANGED <<tab, crashed, kept, down, channel_alive, router, locals, broken,
                   clicks, shown>>

\* delete_window_cb of the controller ends gtk_main.
CloseController ==
    /\ controller = "open"
    /\ Report(TabKilled(0), "quitting")
    /\ UNCHANGED <<tab, crashed, kept, down, channel_alive, router, locals, broken,
                   user, shown>>

ExitController ==
    /\ controller = "quitting"
    /\ controller' = "dead"
    /\ UNCHANGED <<tab, crashed, kept, up, down, channel_alive, router, locals, broken,
                   user, shown>>
-----------------------------------------------------------------------------
(* A tab: delete_window_cb and tab_flow *)

\* Mutant: the tab exits at once.
CloseTabAndExit(t) ==
    /\ tab[t] = "open" /\ Len(up[t]) < Capacity
    /\ up' = [up EXCEPT ![t] = Append(@, TabKilled(t))]
    /\ tab' = [tab EXCEPT ![t] = "dead"]
    /\ UNCHANGED <<controller, crashed, kept, down, channel_alive, router, locals,
                   broken, user, shown>>

\* The window goes, the process stays until the router answers.
CloseTab(t) ==
    /\ tab[t] = "open"
    /\ IF Readable(t)
       THEN /\ Len(up[t]) < Capacity
            /\ up' = [up EXCEPT ![t] = Append(@, TabKilled(t))]
            /\ tab' = [tab EXCEPT ![t] = "closed"]
       ELSE tab' = [tab EXCEPT ![t] = "dead"] /\ up' = up
    /\ UNCHANGED <<controller, crashed, kept, down, channel_alive, router, locals,
                   broken, user, shown>>

\* An address for a tab without a window is rendered in a destroyed view, which may
\* end the process.
ReadDown(t) ==
    /\ Living(t) /\ down[t] # <<>>
    /\ down' = [down EXCEPT ![t] = Tail(@)]
    /\ \/ /\ Head(down[t]).type = "TAB_KILLED"
          /\ tab' = [tab EXCEPT ![t] = "dead"]
          /\ UNCHANGED <<crashed, shown>>
       \/ /\ Head(down[t]).type = "NEW_URI_ENTERED"
          /\ shown' = [shown EXCEPT ![t] = Head(down[t]).uri]
          /\ UNCHANGED <<tab, crashed>>
       \/ /\ Head(down[t]).type = "NEW_URI_ENTERED" /\ tab[t] = "closed"
          /\ tab' = [tab EXCEPT ![t] = "dead"] /\ crashed' = crashed \cup {t}
          /\ UNCHANGED shown
    /\ UNCHANGED <<controller, kept, up, channel_alive, router, locals, broken, user>>

\* At end of file read gives 0 and leaves errno alone: the tab exits if some other call
\* set it to anything but EAGAIN, else it polls on for ever.
ExitAtEndOfFile(t) ==
    /\ Living(t) /\ down[t] = <<>> /\ ~Written(t)
    /\ tab' = [tab EXCEPT ![t] = "dead"]
    /\ UNCHANGED <<controller, crashed, kept, up, down, channel_alive, router, locals,
                   broken, user, shown>>

\* The rendering engine takes its process with it.
Crash(t) ==
    /\ Living(t) /\ crashed = {} /\ MayCrash
    /\ tab' = [tab EXCEPT ![t] = "dead"] /\ crashed' = {t}
    /\ UNCHANGED <<controller, kept, up, down, channel_alive, router, locals, broken,
                   user, shown>>

Router == Main \/ Poll \/ KillNext

Next ==
    \/ Router
    \/ new_tab_created_cb \/ CloseController \/ ExitController
    \/ \E t \in Tabs :
        \/ uri_entered_cb(t) \/ CloseTab(t)
        \/ ReadDown(t) \/ ExitAtEndOfFile(t) \/ Crash(t)

Spec == Init /\ [][Next]_vars

\* The processes run; the user and the rendering engine owe nothing.
FairSpec ==
    /\ Spec
    /\ WF_vars(Router) /\ WF_vars(ExitController)
    /\ \A t \in Tabs : WF_vars(ReadDown(t))
=============================================================================
