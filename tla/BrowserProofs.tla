---------------------------- MODULE BrowserProofs ----------------------------
(***************************************************************************)
(* Theorems about the multi-process browser: types, who is alive and who   *)
(* is thought to be, how SIGPIPE can end the router, that tabs were asked  *)
(* for, and the order of addresses.                                        *)
(***************************************************************************)
EXTENDS BrowserProperties, FiniteSetTheorems, SequenceTheorems, TLAPS

(* The inductive invariant *)

PipeType(pipe) ==
    /\ pipe \in [Channels -> Seq(Requests)]
    /\ \A c \in Channels : Len(pipe[c]) <= Capacity

\* TypeOK but for the pipes, and that the loop variable of poll_children is a channel.
Values ==
    /\ controller \in {"none", "open", "quitting", "dead"}
    /\ tab \in [Tabs -> {"none", "open", "closed", "dead"}]
    /\ crashed \subseteq Tabs
    /\ kept \in [Tabs -> SUBSET Channels]
    /\ channel_alive \in [Channels -> BOOLEAN]
    /\ router \in {"start", "poll", "killing", "returned", "sigpipe", "double_close"}
    /\ i \in 0..UNRECLAIMED_TAB_COUNTER + 1 /\ at_least_one_alive \in BOOLEAN
    /\ req \in Requests
    /\ current_new_tab_index \in 1..UNRECLAIMED_TAB_COUNTER + 1
    /\ broken \in Channels \cup {-1}
    /\ clicks \in 0..MaxClicks
    /\ target \in Seq(Tabs) /\ Len(target) <= MaxUris
    /\ shown \in [Tabs -> 0..MaxUris]
    /\ router \in {"start", "poll"} => i \in Channels

TypeInv == Values /\ PipeType(up) /\ PipeType(down)

IsUri(m) == m.type = "NEW_URI_ENTERED"

\* What the controller, a tab, and the router for a tab write.
FromController(pipe) ==
    \A n \in DOMAIN pipe : pipe[n].type = "TAB_KILLED" => pipe[n] = TabKilled(0)
FromTab(pipe, t) == \A n \in DOMAIN pipe : pipe[n] = TabKilled(t)
ForTab(pipe, t) ==
    \A n \in DOMAIN pipe : pipe[n] = TabKilled(t) \/ (IsUri(pipe[n]) /\ pipe[n].tab = t)

\* Who writes what into which pipe, and that a number without a process has none.
PipeInv ==
    /\ FromController(up[0])
    /\ \A t \in Tabs :
        /\ FromTab(up[t], t) /\ ForTab(down[t], t)
        /\ t >= current_new_tab_index => tab[t] = "none"
        /\ tab[t] = "none" => ~channel_alive[t] /\ up[t] = <<>> /\ down[t] = <<>>

\* The controller: it is polled until its TAB_KILLED is read.
ControllerInv ==
    /\ router = "start" =>
          controller = "none" /\ ~channel_alive[0] /\ current_new_tab_index = 1
    /\ router = "poll" =>
        /\ channel_alive[0] <=> controller # "none"
        /\ controller \in {"quitting", "dead"} =>
              \E n \in DOMAIN up[0] : up[0][n] = TabKilled(0)

\* The exchange of TAB_KILLED between a tab and the router.
KillInv ==
    /\ \A t \in Tabs : Pending(down[t], "TAB_KILLED") # {} => ~channel_alive[t]
    /\ crashed = {} /\ router = "poll" =>
        \A t \in Tabs :
            /\ tab[t] = "open" => channel_alive[t]
            /\ up[t] # <<>> => tab[t] = "closed" /\ channel_alive[t] /\ Len(up[t]) = 1

\* m is an address that was entered, for its tab: asked has the tabs in order.
Entered(m, asked) == IsUri(m) => m.uri \in DOMAIN asked /\ asked[m.uri] = m.tab

AllEntered(pipe, asked) == \A n \in DOMAIN pipe : Entered(pipe[n], asked)

\* The addresses in a pipe against one address, and among themselves.
Above(pipe, u) == \A n \in DOMAIN pipe : IsUri(pipe[n]) => u < pipe[n].uri
From(pipe, u) == \A n \in DOMAIN pipe : IsUri(pipe[n]) => u <= pipe[n].uri
UpTo(pipe, u) == \A n \in DOMAIN pipe : IsUri(pipe[n]) => pipe[n].uri <= u
Increasing(pipe) ==
    \A m, n \in DOMAIN pipe :
        m < n /\ IsUri(pipe[m]) /\ IsUri(pipe[n]) => pipe[m].uri < pipe[n].uri
Climbing(pipe) ==
    \A m, n \in DOMAIN pipe :
        m < n /\ IsUri(pipe[m]) /\ IsUri(pipe[n]) => pipe[m].uri <= pipe[n].uri

\* Addresses are entered, passed on and shown in one order: those a tab has before r,
\* the request the router read last, or r itself, and r before those still in the pipe.
InOrder(pipe, r) ==
    /\ Entered(r, target) /\ AllEntered(pipe, target) /\ Increasing(pipe)
    /\ IsUri(r) => Above(pipe, r.uri)
    /\ \A t \in Tabs :
        /\ shown[t] \in 0 .. Len(target) /\ Above(pipe, shown[t])
        /\ AllEntered(down[t], target) /\ Climbing(down[t]) /\ From(down[t], shown[t])
        /\ \A n \in DOMAIN down[t] : IsUri(down[t][n]) => Above(pipe, down[t][n].uri)
        /\ IsUri(r) => shown[t] <= r.uri /\ UpTo(down[t], r.uri)

UriInv == InOrder(up[0], req)

AliveInv == AliveIsRight /\ BrokenOnlyByDeath

BrowserInv ==
    TypeInv /\ PipeInv /\ ControllerInv /\ KillInv /\ AliveInv /\ TabsWereAskedFor /\ UriInv
-----------------------------------------------------------------------------
(* Requests and pipes *)

\* A request is of one of three kinds, and its fields are those of its kind.
LEMMA RequestKinds ==
    ASSUME NEW m \in Requests
    PROVE  /\ m.type \in {"CREATE_TAB", "NEW_URI_ENTERED", "TAB_KILLED"}
           /\ m.type = "CREATE_TAB" => m = CreateTab
           /\ IsUri(m) => m.uri \in 1 .. MaxUris /\ m.tab \in Tabs /\ m = NewUri(m.uri, m.tab)
           /\ m.type = "TAB_KILLED" => m.tab \in Channels /\ m = TabKilled(m.tab)
<1>1. CASE m = CreateTab
  BY <1>1 DEF CreateTab, IsUri
<1>2. CASE \E u \in 1 .. MaxUris, t \in Tabs : m = NewUri(u, t)
  BY <1>2 DEF NewUri, IsUri
<1>3. CASE \E c \in Channels : m = TabKilled(c)
  BY <1>3 DEF TabKilled, IsUri
<1> QED
  BY <1>1, <1>2, <1>3 DEF Requests

\* The requests that the processes write.
LEMMA WrittenRequests ==
    /\ CreateTab \in Requests /\ CreateTab.type = "CREATE_TAB"
    /\ \A u \in 1 .. MaxUris, t \in Tabs :
          /\ NewUri(u, t) \in Requests /\ IsUri(NewUri(u, t))
          /\ NewUri(u, t).uri = u /\ NewUri(u, t).tab = t
    /\ \A c \in Channels :
          /\ TabKilled(c) \in Requests
          /\ TabKilled(c).type = "TAB_KILLED" /\ TabKilled(c).tab = c
<1>1. CreateTab \in Requests /\ CreateTab.type = "CREATE_TAB"
  BY DEF Requests, CreateTab
<1>2. \A u \in 1 .. MaxUris, t \in Tabs : NewUri(u, t) \in Requests
  BY DEF Requests
<1>3. ASSUME NEW u, NEW t
      PROVE  IsUri(NewUri(u, t)) /\ NewUri(u, t).uri = u /\ NewUri(u, t).tab = t
  BY DEF NewUri, IsUri
<1>4. \A c \in Channels : TabKilled(c) \in Requests
  BY DEF Requests
<1>5. ASSUME NEW c
      PROVE  TabKilled(c).type = "TAB_KILLED" /\ TabKilled(c).tab = c
  BY DEF TabKilled
<1> QED
  BY <1>1, <1>2, <1>3, <1>4, <1>5

\* Writing to a pipe puts a request behind the others.
LEMMA WrittenLast ==
    ASSUME NEW S, NEW s \in Seq(S), NEW e \in S
    PROVE  /\ Append(s, e) \in Seq(S) /\ Append(s, e) # <<>>
           /\ Len(Append(s, e)) = Len(s) + 1 /\ Len(s) \in Nat
           /\ DOMAIN s = 1 .. Len(s) /\ DOMAIN Append(s, e) = 1 .. Len(s) + 1
           /\ \A n \in DOMAIN s : Append(s, e)[n] = s[n]
           /\ Append(s, e)[Len(s) + 1] = e
           /\ \A n \in DOMAIN Append(s, e) : n \in DOMAIN s \/ n = Len(s) + 1
OBVIOUS

\* Reading takes the first one.
LEMMA ReadFirst ==
    ASSUME NEW S, NEW s \in Seq(S), s # <<>>
    PROVE  /\ Tail(s) \in Seq(S) /\ Len(Tail(s)) = Len(s) - 1 /\ Len(s) \in Nat
           /\ Head(s) = s[1] /\ Head(s) \in S /\ 1 \in DOMAIN s
           /\ DOMAIN s = 1 .. Len(s) /\ DOMAIN Tail(s) = 1 .. Len(s) - 1
           /\ \A n \in DOMAIN Tail(s) : n + 1 \in DOMAIN s /\ Tail(s)[n] = s[n + 1]
OBVIOUS

\* Nothing is left of a pipe with one request.
LEMMA OnlyOneRead ==
    ASSUME NEW S, NEW s \in Seq(S), Len(s) = 1
    PROVE  Tail(s) = <<>>
<1>1. Tail(s) \in Seq(S) /\ Len(Tail(s)) = 0
  OBVIOUS
<1> QED
  BY <1>1, EmptySeq

\* Tab 0 is the controller.
LEMMA Numbers ==
    /\ 0 \in Channels /\ 0 \notin Tabs /\ Tabs \subseteq Channels
    /\ \A c \in Channels : c # 0 => c \in Tabs
    /\ Channels \subseteq Int
BY BrowserAssumption DEF Channels, Tabs
-----------------------------------------------------------------------------
(* What a step of the router does *)

\* It gives m its turn: a request it has just read, or the one it read before.
Reads(m) ==
    /\ channel_alive[i] /\ req' = m
    /\ \/ EndOfFile(i) /\ m = req /\ up' = up
       \/ /\ up[i] # <<>> /\ m = Head(up[i])
          /\ up' = [up EXCEPT ![i] = Tail(@)]

Goes(r) ==
    /\ i' \in 0 .. UNRECLAIMED_TAB_COUNTER + 1 /\ at_least_one_alive' \in BOOLEAN
    /\ router' \in r /\ (router' = "poll" => i' \in Channels)

Creates ==
    /\ current_new_tab_index \in Tabs
    /\ current_new_tab_index' = current_new_tab_index + 1
    /\ \/ /\ tab' = [tab EXCEPT ![current_new_tab_index] = "open"]
          /\ kept' = [kept EXCEPT ![current_new_tab_index] = {c \in Channels : channel_alive[c]}]
          /\ channel_alive' = [channel_alive EXCEPT ![current_new_tab_index] = TRUE]
       \/ UNCHANGED <<tab, kept, channel_alive>>
    /\ UNCHANGED <<down, broken>> /\ Goes({"poll", "returned"})

Rests(r) ==
    UNCHANGED <<tab, kept, down, channel_alive, current_new_tab_index, broken>> /\ Goes(r)

Forwards(m) ==
    /\ IsUri(m) /\ channel_alive[m.tab] /\ Living(m.tab) /\ Send(m.tab, m)
    /\ UNCHANGED <<tab, kept, channel_alive, current_new_tab_index, broken>>
    /\ Goes({"poll", "returned"})

Breaks(c) ==
    /\ ~Living(c) /\ router' = "sigpipe" /\ broken' = c
    /\ UNCHANGED <<tab, kept, down, channel_alive, current_new_tab_index, i,
                   at_least_one_alive>>

Kills(c, r) ==
    /\ Living(c) /\ channel_alive[c] /\ Send(c, TabKilled(c))
    /\ channel_alive' = [channel_alive EXCEPT ![c] = FALSE]
    /\ UNCHANGED <<tab, kept, current_new_tab_index, broken>> /\ Goes(r)

Handles(m) ==
    \/ m.type # "TAB_KILLED" /\ Rests({"poll", "returned"})
    \/ Rests({"double_close"})
    \/ m = CreateTab /\ Creates
    \/ Forwards(m)
    \/ /\ m.tab \in Channels /\ Breaks(m.tab)
       /\ (IsUri(m) /\ channel_alive[m.tab]) \/ m = TabKilled(m.tab)
    \/ /\ m.tab \in Channels /\ m = TabKilled(m.tab)
       /\ Kills(m.tab, IF m.tab = 0 THEN {"killing"} ELSE {"poll", "returned"})

\* The loop goes on or ends.
LEMMA AdvanceGoes ==
    ASSUME TypeInv, router = "poll", NEW STATE alive, alive \in BOOLEAN, Advance(alive)
    PROVE  Goes({"poll", "returned"})
<1>1. i \in 0 .. UNRECLAIMED_TAB_COUNTER /\ UNRECLAIMED_TAB_COUNTER \in Nat
  BY BrowserAssumption DEF TypeInv, Values, Channels
<1>2. /\ i' \in 0 .. UNRECLAIMED_TAB_COUNTER
      /\ router' \in {"poll", "returned"}
  BY <1>1 DEF Advance
<1>3. at_least_one_alive' \in BOOLEAN
  BY DEF Advance
<1> QED
  BY <1>1, <1>2, <1>3 DEF Goes, Channels

\* What becomes of a request of each kind.
LEMMA HandleCases ==
    ASSUME TypeInv, router = "poll", NEW m \in Requests, Handle(m)
    PROVE  Handles(m)
<1>1. CASE m.type = "CREATE_TAB" /\ Create
  <2>1. m = CreateTab
    BY <1>1, RequestKinds
  <2>2. Goes({"poll", "returned"})
    BY <1>1, AdvanceGoes DEF Create
  <2>3. CASE ~RoomForTab
    BY <1>1, <2>2, <2>3 DEF Create, Handles, Rests
  <2>4. CASE RoomForTab
    <3>1. current_new_tab_index \in Tabs
      BY <2>4, BrowserAssumption DEF RoomForTab, TypeInv, Values, Tabs
    <3> QED
      BY <1>1, <2>1, <2>2, <2>4, <3>1 DEF Create, Creates, Handles
  <2> QED
    BY <2>3, <2>4
<1>2. CASE m.type = "NEW_URI_ENTERED" /\ PassUri(m)
  <2>1. IsUri(m) /\ m.tab \in Channels
    BY <1>2, RequestKinds, Numbers DEF IsUri
  <2>2. CASE ~channel_alive[m.tab] /\ Advance(TRUE) /\ UNCHANGED <<down, channel_alive, broken>>
    <3>1. Goes({"poll", "returned"})
      BY <2>2, AdvanceGoes
    <3> QED
      BY <1>2, <2>2, <3>1 DEF PassUri, Handles, Rests
  <2>3. CASE channel_alive[m.tab] /\ ~Living(m.tab) /\ Broken(m.tab)
    BY <1>2, <2>1, <2>3 DEF PassUri, Handles, Breaks, Broken
  <2>4. CASE /\ channel_alive[m.tab] /\ Living(m.tab) /\ Send(m.tab, m)
             /\ Advance(TRUE) /\ UNCHANGED <<channel_alive, broken>>
    <3>1. Goes({"poll", "returned"})
      BY <2>4, AdvanceGoes
    <3> QED
      BY <1>2, <2>1, <2>4, <3>1 DEF PassUri, Handles, Forwards
  <2> QED
    BY <1>2, <2>2, <2>3, <2>4 DEF PassUri
<1>3. CASE m.type = "TAB_KILLED" /\ Kill(m.tab)
  <2>1. m = TabKilled(m.tab) /\ m.tab \in Channels
    BY <1>3, RequestKinds
  <2>2. CASE ~Living(m.tab) /\ Broken(m.tab)
    BY <1>3, <2>1, <2>2 DEF Kill, Handles, Breaks, Broken
  <2>3. CASE /\ router' = "double_close"
             /\ UNCHANGED <<down, channel_alive, i, at_least_one_alive, broken>>
    <3>1. Goes({"double_close"})
      BY <2>3 DEF Goes, TypeInv, Values
    <3> QED
      BY <1>3, <2>3, <3>1 DEF Kill, Handles, Rests
  <2>4. CASE /\ Living(m.tab) /\ channel_alive[m.tab] /\ Send(m.tab, TabKilled(m.tab))
             /\ channel_alive' = [channel_alive EXCEPT ![m.tab] = FALSE]
             /\ IF m.tab = 0 THEN router' = "killing" /\ i' = 1 /\ UNCHANGED at_least_one_alive
                             ELSE Advance(TRUE)
             /\ UNCHANGED broken
    <3>1. Goes(IF m.tab = 0 THEN {"killing"} ELSE {"poll", "returned"})
      <4>1. CASE m.tab = 0
        BY <2>4, <4>1, BrowserAssumption DEF Goes, TypeInv, Values
      <4>2. CASE m.tab # 0
        BY <2>4, <4>2, AdvanceGoes
      <4> QED
        BY <4>1, <4>2
    <3> QED
      BY <1>3, <2>1, <2>4, <3>1 DEF Kill, Handles, Kills
  <2> QED
    BY <1>3, <2>2, <2>3, <2>4 DEF Kill
<1> QED
  BY <1>1, <1>2, <1>3 DEF Handle

\* One turn of the loop: nothing, or a request is handled.
LEMMA PollCases ==
    ASSUME TypeInv, Poll
    PROVE  /\ router = "poll" /\ i \in Channels
           /\ UNCHANGED <<controller, crashed, user, shown>>
           /\ \/ UNCHANGED <<up, req>> /\ Rests({"poll", "returned"})
              \/ \E m \in Requests : Reads(m) /\ Handles(m)
<1>1. router = "poll" /\ i \in Channels /\ UNCHANGED <<controller, crashed, user, shown>>
  BY DEF Poll, TypeInv, Values
<1>2. CASE /\ Advance(at_least_one_alive \/ channel_alive[i])
           /\ UNCHANGED <<tab, kept, up, down, channel_alive, req,
                         current_new_tab_index, broken>>
  <2>1. at_least_one_alive \in BOOLEAN /\ channel_alive[i] \in BOOLEAN
    BY <1>1 DEF TypeInv, Values
  <2>2. Goes({"poll", "returned"})
    BY <1>1, <1>2, <2>1, AdvanceGoes
  <2> QED
    BY <1>1, <1>2, <2>2 DEF Rests
<1>3. CASE channel_alive[i] /\ EndOfFile(i) /\ Handle(req) /\ UNCHANGED <<up, req>>
  <2>1. req \in Requests
    BY DEF TypeInv, Values
  <2>2. Handles(req)
    BY <1>1, <1>3, <2>1, HandleCases
  <2>3. Reads(req)
    BY <1>3 DEF Reads
  <2> QED
    BY <1>1, <2>1, <2>2, <2>3
<1>4. CASE /\ channel_alive[i] /\ up[i] # <<>>
           /\ req' = Head(up[i]) /\ up' = [up EXCEPT ![i] = Tail(@)]
           /\ Handle(Head(up[i]))
  <2>1. up[i] \in Seq(Requests)
    BY <1>1 DEF TypeInv, PipeType
  <2>2. Head(up[i]) \in Requests
    BY <1>4, <2>1, ReadFirst
  <2>3. Handles(Head(up[i]))
    BY <1>1, <1>4, <2>2, HandleCases
  <2>4. Reads(Head(up[i]))
    BY <1>4 DEF Reads
  <2> QED
    BY <1>1, <2>2, <2>3, <2>4
<1> QED
  BY <1>1, <1>2, <1>3, <1>4 DEF Poll

\* One turn of the loop that ends all tabs.
LEMMA KillNextCases ==
    ASSUME TypeInv, KillNext
    PROVE  /\ router = "killing"
           /\ UNCHANGED <<controller, crashed, user, shown, up, req>>
           /\ \/ Rests({"killing", "returned"})
              \/ i \in Tabs /\ channel_alive[i] /\ Breaks(i)
              \/ i \in Tabs /\ Kills(i, {"killing"})
<1>1. i \in Tabs => i + 1 \in 0 .. UNRECLAIMED_TAB_COUNTER + 1
  BY BrowserAssumption DEF Tabs
<1> QED
  BY <1>1 DEF KillNext, Rests, Breaks, Broken, Kills, Goes, TypeInv, Values, children
\* A step of the router, but for main's.
RouterDoes(m) ==
    /\ UNCHANGED <<controller, crashed, user, shown>>
    /\ \/ router = "poll" /\ UNCHANGED <<up, req>> /\ Rests({"poll", "returned"})
       \/ router = "killing" /\ UNCHANGED <<up, req>> /\ Rests({"killing", "returned"})
       \/ /\ router = "killing" /\ UNCHANGED <<up, req>> /\ i \in Tabs
          /\ (channel_alive[i] /\ Breaks(i)) \/ Kills(i, {"killing"})
       \/ router = "poll" /\ i \in Channels /\ Reads(m) /\ Handles(m)

\* Every step of the router is one of these.
LEMMA RouterCases ==
    ASSUME TypeInv, Poll \/ KillNext
    PROVE  \E m \in Requests : RouterDoes(m)
<1>1. req \in Requests
  BY DEF TypeInv, Values
<1>2. CASE KillNext
  <2>1. RouterDoes(req)
    BY <1>2, KillNextCases DEF RouterDoes
  <2> QED
    BY <1>1, <2>1
<1>3. CASE Poll
  <2>1. CASE UNCHANGED <<up, req>> /\ Rests({"poll", "returned"})
    <3>1. RouterDoes(req)
      BY <1>3, <2>1, PollCases DEF RouterDoes
    <3> QED
      BY <1>1, <3>1
  <2>2. ASSUME NEW m \in Requests, Reads(m), Handles(m)
        PROVE  \E r \in Requests : RouterDoes(r)
    <3>1. RouterDoes(m)
      BY <1>3, <2>2, PollCases DEF RouterDoes
    <3> QED
      BY <3>1
  <2> QED
    BY <1>3, <2>1, <2>2, PollCases
<1> QED
  BY <1>2, <1>3

-----------------------------------------------------------------------------
(* Types *)

\* The invariant has the types that are checked.
LEMMA TypesSuffice == TypeInv => TypeOK
<1> SUFFICES ASSUME TypeInv PROVE TypeOK
  OBVIOUS
<1>1. ASSUME NEW pipe, PipeType(pipe), NEW c \in Channels
      PROVE  Len(pipe[c]) <= Capacity /\ \A n \in DOMAIN pipe[c] : pipe[c][n] \in Requests
  <2>1. pipe[c] \in Seq(Requests) /\ Len(pipe[c]) <= Capacity
    BY <1>1 DEF PipeType
  <2> QED
    BY <2>1
<1>2. PipeType(up) /\ PipeType(down)
  BY DEF TypeInv
<1>3. \A c \in Channels :
        /\ \A n \in DOMAIN up[c] : up[c][n] \in Requests
        /\ \A n \in DOMAIN down[c] : down[c][n] \in Requests
        /\ Len(up[c]) <= Capacity /\ Len(down[c]) <= Capacity
  BY <1>1, <1>2
<1> QED
  BY <1>3 DEF TypeInv, Values, TypeOK

\* Writing where there is room and reading keep what is in the pipes in order.
LEMMA PipeKeepsType ==
    ASSUME NEW pipe, PipeType(pipe), NEW c \in Channels
    PROVE  /\ \A m \in Requests : Len(pipe[c]) < Capacity
                 => PipeType([pipe EXCEPT ![c] = Append(@, m)])
           /\ pipe[c] # <<>> => /\ PipeType([pipe EXCEPT ![c] = Tail(@)])
                                /\ Head(pipe[c]) \in Requests
<1>1. pipe \in [Channels -> Seq(Requests)] /\ pipe[c] \in Seq(Requests)
  BY DEF PipeType
<1>2. \A x \in Channels : Len(pipe[x]) <= Capacity
  BY DEF PipeType
<1>3. Capacity \in Nat
  BY BrowserAssumption
<1>4. ASSUME NEW m \in Requests, Len(pipe[c]) < Capacity
      PROVE  PipeType([pipe EXCEPT ![c] = Append(@, m)])
  <2>1. Append(pipe[c], m) \in Seq(Requests) /\ Len(Append(pipe[c], m)) <= Capacity
    BY <1>1, <1>3, <1>4, WrittenLast
  <2> QED
    BY <1>1, <1>2, <2>1 DEF PipeType
<1>5. ASSUME pipe[c] # <<>>
      PROVE  PipeType([pipe EXCEPT ![c] = Tail(@)]) /\ Head(pipe[c]) \in Requests
  <2>1. Tail(pipe[c]) \in Seq(Requests) /\ Len(Tail(pipe[c])) <= Capacity
        /\ Head(pipe[c]) \in Requests
    BY <1>1, <1>2, <1>3, <1>5, ReadFirst
  <2> QED
    BY <1>1, <1>2, <2>1 DEF PipeType
<1> QED
  BY <1>4, <1>5

\* Whatever the router does with a request, it keeps the types.
LEMMA RouterKeepsTypes ==
    ASSUME TypeInv, NEW m \in Requests,
           \/ Handles(m)
           \/ Rests({"poll", "killing", "returned"})
           \/ i \in Tabs /\ Breaks(i)
           \/ i \in Tabs /\ Kills(i, {"killing"}),
           UNCHANGED <<controller, crashed, clicks, target, shown>>
    PROVE  PipeType(down') /\ (req' \in Requests => Values')
<1> USE DEF TypeInv
<1>1. ASSUME NEW r, r \subseteq {"poll", "killing", "returned", "double_close"}, Goes(r),
             req' \in Requests,
             tab' \in [Tabs -> {"none", "open", "closed", "dead"}],
             kept' \in [Tabs -> SUBSET Channels],
             channel_alive' \in [Channels -> BOOLEAN],
             current_new_tab_index' \in 1 .. UNRECLAIMED_TAB_COUNTER + 1,
             UNCHANGED broken
      PROVE  Values'
  BY <1>1 DEF Goes, Values
<1>2. ASSUME NEW r, r \subseteq {"poll", "killing", "returned", "double_close"}, Rests(r)
      PROVE  PipeType(down') /\ (req' \in Requests => Values')
  <2>1. PipeType(down')
    BY <1>2 DEF Rests
  <2>2. ASSUME req' \in Requests PROVE Values'
    <3>1. /\ Goes(r) /\ UNCHANGED broken
          /\ tab' \in [Tabs -> {"none", "open", "closed", "dead"}]
          /\ kept' \in [Tabs -> SUBSET Channels]
          /\ channel_alive' \in [Channels -> BOOLEAN]
          /\ current_new_tab_index' \in 1 .. UNRECLAIMED_TAB_COUNTER + 1
      BY <1>2 DEF Rests, Values
    <3> QED
      BY <1>1, <1>2, <2>2, <3>1
  <2> QED
    BY <2>1, <2>2
<1>3. ASSUME Creates
      PROVE  PipeType(down') /\ (req' \in Requests => Values')
  <2>1. PipeType(down')
    BY <1>3 DEF Creates
  <2>2. ASSUME req' \in Requests PROVE Values'
    <3>1. /\ Goes({"poll", "returned"}) /\ UNCHANGED broken
          /\ current_new_tab_index' \in 1 .. UNRECLAIMED_TAB_COUNTER + 1
      BY <1>3, BrowserAssumption DEF Creates, Values, Tabs
    <3>2. /\ tab' \in [Tabs -> {"none", "open", "closed", "dead"}]
          /\ channel_alive' \in [Channels -> BOOLEAN]
      BY <1>3, Numbers DEF Creates, Values
    <3>3. kept' \in [Tabs -> SUBSET Channels]
      <4>1. {c \in Channels : channel_alive[c]} \in SUBSET Channels
        OBVIOUS
      <4>2. PICK k \in SUBSET Channels :
               \/ kept' = [kept EXCEPT ![current_new_tab_index] = k]
               \/ kept' = kept
        BY <1>3, <4>1 DEF Creates
      <4> QED
        BY <4>2 DEF Values
    <3> QED
      BY <1>1, <2>2, <3>1, <3>2, <3>3
  <2> QED
    BY <2>1, <2>2
<1>4. ASSUME NEW c \in Channels, Breaks(c)
      PROVE  PipeType(down') /\ (req' \in Requests => Values')
  <2>1. PipeType(down')
    BY <1>4 DEF Breaks
  <2>2. ASSUME req' \in Requests PROVE Values'
    BY <1>4, <2>2 DEF Breaks, Values
  <2> QED
    BY <2>1, <2>2
<1>5. ASSUME Forwards(m)
      PROVE  PipeType(down') /\ (req' \in Requests => Values')
  <2>1. PipeType(down')
    <3>1. m.tab \in Channels
      BY <1>5, RequestKinds, Numbers DEF Forwards
    <3> QED
      BY <1>5, <3>1, PipeKeepsType DEF Forwards, Send
  <2>2. ASSUME req' \in Requests PROVE Values'
    <3>1. /\ Goes({"poll", "returned"}) /\ UNCHANGED broken
          /\ tab' \in [Tabs -> {"none", "open", "closed", "dead"}]
          /\ kept' \in [Tabs -> SUBSET Channels]
          /\ channel_alive' \in [Channels -> BOOLEAN]
          /\ current_new_tab_index' \in 1 .. UNRECLAIMED_TAB_COUNTER + 1
      BY <1>5 DEF Forwards, Values
    <3> QED
      BY <1>1, <2>2, <3>1
  <2> QED
    BY <2>1, <2>2
<1>6. ASSUME NEW c \in Channels, NEW r, Kills(c, r),
             r \subseteq {"poll", "killing", "returned", "double_close"}
      PROVE  PipeType(down') /\ (req' \in Requests => Values')
  <2>1. PipeType(down')
    BY <1>6, PipeKeepsType, WrittenRequests DEF Kills, Send
  <2>2. ASSUME req' \in Requests PROVE Values'
    <3>1. /\ Goes(r) /\ UNCHANGED broken
          /\ tab' \in [Tabs -> {"none", "open", "closed", "dead"}]
          /\ kept' \in [Tabs -> SUBSET Channels]
          /\ channel_alive' \in [Channels -> BOOLEAN]
          /\ current_new_tab_index' \in 1 .. UNRECLAIMED_TAB_COUNTER + 1
      BY <1>6 DEF Kills, Values
    <3> QED
      BY <1>1, <1>6, <2>2, <3>1
  <2> QED
    BY <2>1, <2>2
<1>7. CASE Handles(m)
  BY <1>2, <1>3, <1>4, <1>5, <1>6, <1>7 DEF Handles
<1>8. CASE i \in Tabs /\ Breaks(i)
  BY <1>4, <1>8, Numbers
<1>9. CASE i \in Tabs /\ Kills(i, {"killing"})
  BY <1>6, <1>9, Numbers
<1> QED
  BY <1>2, <1>7, <1>8, <1>9

\* The invariant holds at first and no step of any process breaks it.
LEMMA TypeStep == TypeInv /\ [Next]_vars => TypeInv'
<1> SUFFICES ASSUME TypeInv, [Next]_vars
             PROVE  TypeInv'
  OBVIOUS
<1> USE DEF TypeInv
<1>1. CASE Main
  BY <1>1, Numbers DEF Main, Values, PipeType, locals, user
<1>2. CASE Poll
  <2>1. /\ i \in Channels /\ UNCHANGED <<controller, crashed, user, shown>>
        /\ \/ UNCHANGED <<up, req>> /\ Rests({"poll", "returned"})
           \/ \E m \in Requests : Reads(m) /\ Handles(m)
    BY <1>2, PollCases
  <2>2. UNCHANGED <<controller, crashed, clicks, target, shown>>
    BY <2>1 DEF user
  <2>3. CASE UNCHANGED <<up, req>> /\ Rests({"poll", "returned"})
    <3>1. Rests({"poll", "killing", "returned"})
      BY <2>3 DEF Rests, Goes
    <3>2. req \in Requests /\ req' \in Requests /\ PipeType(up')
      BY <2>3 DEF Values
    <3> QED
      BY <2>2, <3>1, <3>2, RouterKeepsTypes
  <2>4. ASSUME NEW m \in Requests, Reads(m), Handles(m) PROVE TypeInv'
    <3>1. req' \in Requests
      BY <2>4 DEF Reads
    <3>2. PipeType(up')
      BY <2>1, <2>4, PipeKeepsType DEF Reads
    <3> QED
      BY <2>2, <2>4, <3>1, <3>2, RouterKeepsTypes
  <2> QED
    BY <2>1, <2>3, <2>4
<1>3. CASE KillNext
  <2>1. /\ UNCHANGED <<controller, crashed, user, shown, up, req>>
        /\ \/ Rests({"killing", "returned"})
           \/ i \in Tabs /\ Breaks(i)
           \/ i \in Tabs /\ Kills(i, {"killing"})
    BY <1>3, KillNextCases
  <2>2. Rests({"killing", "returned"}) => Rests({"poll", "killing", "returned"})
    BY DEF Rests, Goes
  <2>3. UNCHANGED <<controller, crashed, clicks, target, shown>>
    BY <2>1 DEF user
  <2>4. req \in Requests /\ req' \in Requests /\ PipeType(up')
    BY <2>1 DEF Values
  <2> QED
    BY <2>1, <2>2, <2>3, <2>4, RouterKeepsTypes
<1>4. ASSUME NEW m \in Requests, NEW l \in {"open", "quitting"}, Report(m, l)
      PROVE  PipeType(up') /\ controller' \in {"none", "open", "quitting", "dead"}
  <2>1. Len(up[0]) < Capacity => PipeType([up EXCEPT ![0] = Append(@, m)])
    BY <1>4, PipeKeepsType, Numbers
  <2>2. PipeType(up') /\ controller' \in {"dead", l}
    BY <1>4, <2>1 DEF Report
  <2> QED
    BY <2>2
<1>5. CASE new_tab_created_cb
  BY <1>4, <1>5, WrittenRequests, BrowserAssumption DEF new_tab_created_cb, Values, locals
<1>6. ASSUME NEW t \in Tabs, uri_entered_cb(t) PROVE TypeInv'
  <2>1. target' \in Seq(Tabs) /\ Len(target') \in 1 .. MaxUris
    BY <1>6, WrittenLast, BrowserAssumption DEF uri_entered_cb, Values
  <2>2. NewUri(Len(target'), t) \in Requests
    BY <2>1, WrittenRequests
  <2>3. PipeType(up') /\ controller' \in {"none", "open", "quitting", "dead"}
    BY <1>4, <1>6, <2>2 DEF uri_entered_cb
  <2> QED
    BY <1>6, <2>1, <2>3 DEF uri_entered_cb, Values, locals
<1>7. CASE CloseController
  <2>1. TabKilled(0) \in Requests
    BY WrittenRequests, Numbers
  <2>2. PipeType(up') /\ controller' \in {"none", "open", "quitting", "dead"}
    BY <1>4, <1>7, <2>1 DEF CloseController
  <2> QED
    BY <1>7, <2>2 DEF CloseController, Values, locals, user
<1>8. CASE ExitController
  BY <1>8 DEF ExitController, Values, locals, user
<1>9. ASSUME NEW t \in Tabs, CloseTab(t) PROVE TypeInv'
  <2>1. TabKilled(t) \in Requests /\ t \in Channels
    BY WrittenRequests, Numbers
  <2>2. PipeType(up')
    <3>1. Len(up[t]) < Capacity => PipeType([up EXCEPT ![t] = Append(@, TabKilled(t))])
      BY <2>1, PipeKeepsType
    <3> QED
      BY <1>9, <3>1 DEF CloseTab
  <2>3. tab' \in [Tabs -> {"none", "open", "closed", "dead"}]
    BY <1>9 DEF CloseTab, Values
  <2> QED
    BY <1>9, <2>2, <2>3 DEF CloseTab, Values, locals, user
<1>10. ASSUME NEW t \in Tabs, ReadDown(t) PROVE TypeInv'
  <2>1. down[t] # <<>> /\ t \in Channels
    BY <1>10, Numbers DEF ReadDown
  <2>2. PipeType(down') /\ Head(down[t]) \in Requests
    BY <1>10, <2>1, PipeKeepsType DEF ReadDown
  <2>3. tab' \in [Tabs -> {"none", "open", "closed", "dead"}] /\ crashed' \subseteq Tabs
    BY <1>10 DEF ReadDown, Values
  <2>4. shown' \in [Tabs -> 0 .. MaxUris]
    <3>1. IsUri(Head(down[t])) => Head(down[t]).uri \in 0 .. MaxUris
      BY <2>2, RequestKinds, BrowserAssumption
    <3> QED
      BY <1>10, <3>1 DEF ReadDown, Values, IsUri
  <2> QED
    BY <1>10, <2>2, <2>3, <2>4 DEF ReadDown, Values, locals, user
<1>11. ASSUME NEW t \in Tabs, ExitAtEndOfFile(t) PROVE TypeInv'
  BY <1>11 DEF ExitAtEndOfFile, Values, locals, user
<1>12. ASSUME NEW t \in Tabs, Crash(t) PROVE TypeInv'
  BY <1>12 DEF Crash, Values, locals, user
<1>13. CASE UNCHANGED vars
  BY <1>13 DEF vars, children, locals, user, Values
<1> QED
  BY <1>1, <1>2, <1>3, <1>5, <1>6, <1>7, <1>8, <1>9, <1>10, <1>11, <1>12, <1>13
     DEF Next, Router
-----------------------------------------------------------------------------
(* What is in the pipes *)

\* More requests of the right kind, or fewer, are requests of the right kind.
LEMMA ContentsKept ==
    ASSUME NEW s \in Seq(Requests), NEW t \in Tabs
    PROVE  /\ s # <<>> => /\ FromController(s) => FromController(Tail(s))
                          /\ FromTab(s, t) => FromTab(Tail(s), t)
                          /\ ForTab(s, t) => ForTab(Tail(s), t)
           /\ \A m \in Requests :
                 /\ FromController(s) /\ (m.type = "TAB_KILLED" => m = TabKilled(0))
                       => FromController(Append(s, m))
                 /\ FromTab(s, t) /\ m = TabKilled(t) => FromTab(Append(s, m), t)
                 /\ ForTab(s, t) /\ (m = TabKilled(t) \/ (IsUri(m) /\ m.tab = t))
                       => ForTab(Append(s, m), t)
<1>1. ASSUME s # <<>>
      PROVE  /\ FromController(s) => FromController(Tail(s))
             /\ FromTab(s, t) => FromTab(Tail(s), t)
             /\ ForTab(s, t) => ForTab(Tail(s), t)
  <2>1. \A n \in DOMAIN Tail(s) : n + 1 \in DOMAIN s /\ Tail(s)[n] = s[n + 1]
    BY <1>1, ReadFirst
  <2> QED
    BY <2>1 DEF FromController, FromTab, ForTab
<1>2. ASSUME NEW m \in Requests
      PROVE  /\ FromController(s) /\ (m.type = "TAB_KILLED" => m = TabKilled(0))
                   => FromController(Append(s, m))
             /\ FromTab(s, t) /\ m = TabKilled(t) => FromTab(Append(s, m), t)
             /\ ForTab(s, t) /\ (m = TabKilled(t) \/ (IsUri(m) /\ m.tab = t))
                   => ForTab(Append(s, m), t)
  <2>1. /\ \A n \in DOMAIN Append(s, m) : n \in DOMAIN s \/ n = Len(s) + 1
        /\ \A n \in DOMAIN s : Append(s, m)[n] = s[n]
        /\ Append(s, m)[Len(s) + 1] = m
    BY WrittenLast
  <2> QED
    BY <2>1 DEF FromController, FromTab, ForTab
<1> QED
  BY <1>1, <1>2

\* Reading a pipe keeps what may be in the pipes of the processes.
LEMMA ReadingKeepsPipes ==
    ASSUME TypeInv, PipeInv, i \in Channels, NEW m, Reads(m) \/ up' = up
    PROVE  /\ FromController(up'[0])
           /\ \A t \in Tabs : FromTab(up'[t], t) /\ (up[t] = <<>> => up'[t] = <<>>)
<1>1. CASE up' = up
  BY <1>1 DEF PipeInv
<1>2. CASE Reads(m) /\ up[i] # <<>> /\ up' = [up EXCEPT ![i] = Tail(@)]
  <2>1. up \in [Channels -> Seq(Requests)] /\ up[0] \in Seq(Requests)
    BY Numbers DEF TypeInv, PipeType
  <2>2. FromController(up'[0])
    <3>1. Tabs # {}
      BY BrowserAssumption DEF Tabs
    <3>2. i = 0 => FromController(Tail(up[0]))
      BY <1>2, <2>1, <3>1, ContentsKept DEF PipeInv
    <3> QED
      BY <1>2, <2>1, <3>2, Numbers DEF PipeInv
  <2>3. ASSUME NEW t \in Tabs PROVE FromTab(up'[t], t) /\ (up[t] = <<>> => up'[t] = <<>>)
    <3>1. up[t] \in Seq(Requests) /\ t \in Channels
      BY <2>1, Numbers
    <3>2. i = t => FromTab(Tail(up[t]), t)
      BY <1>2, <3>1, ContentsKept DEF PipeInv
    <3> QED
      BY <1>2, <2>1, <3>1, <3>2 DEF PipeInv
  <2> QED
    BY <2>2, <2>3
<1> QED
  BY <1>1, <1>2 DEF Reads

\* The router writes to living tabs what is for them, and makes tabs from unused numbers.
LEMMA RouterKeepsPipes ==
    ASSUME TypeInv, PipeInv, NEW m \in Requests, RouterDoes(m)
    PROVE  PipeInv'
<1>1. \/ Rests({"poll", "returned"}) \/ Rests({"killing", "returned"})
      \/ (i \in Tabs /\ Breaks(i)) \/ (i \in Tabs /\ Kills(i, {"killing"})) \/ Handles(m)
  BY DEF RouterDoes
<1>2. /\ FromController(up'[0])
      /\ \A t \in Tabs : FromTab(up'[t], t) /\ (up[t] = <<>> => up'[t] = <<>>)
  BY ReadingKeepsPipes DEF RouterDoes, PipeInv
<1>3. /\ down \in [Channels -> Seq(Requests)]
      /\ tab \in [Tabs -> {"none", "open", "closed", "dead"}]
      /\ channel_alive \in [Channels -> BOOLEAN] /\ current_new_tab_index \in Nat
  BY DEF TypeInv, PipeType, Values
<1>4. ASSUME UNCHANGED <<tab, down, channel_alive, current_new_tab_index>>
      PROVE  PipeInv'
  BY <1>2, <1>4 DEF PipeInv
<1>5. ASSUME Creates PROVE PipeInv'
  <2>1. /\ down' = down /\ current_new_tab_index \in Tabs
        /\ current_new_tab_index' = current_new_tab_index + 1
        /\ \A t \in Tabs : \/ t = current_new_tab_index /\ tab'[t] = "open"
                           \/ tab'[t] = tab[t] /\ channel_alive'[t] = channel_alive[t]
        /\ \A t \in Tabs : t # current_new_tab_index => tab'[t] = tab[t]
    BY <1>3, <1>5, Numbers DEF Creates
  <2>2. ASSUME NEW t \in Tabs
        PROVE  /\ t >= current_new_tab_index' => tab'[t] = "none"
               /\ tab'[t] = "none" => ~channel_alive'[t] /\ up'[t] = <<>> /\ down'[t] = <<>>
    BY <1>2, <1>3, <2>1, Numbers DEF PipeInv, Channels, Tabs
  <2>3. \A t \in Tabs : ForTab(down'[t], t)
    BY <2>1 DEF PipeInv
  <2> QED
    BY <1>2, <2>2, <2>3 DEF PipeInv
<1>6. ASSUME NEW c \in Channels, NEW w \in Requests, Living(c), Send(c, w),
             c \in Tabs => w = TabKilled(c) \/ (IsUri(w) /\ w.tab = c),
             UNCHANGED <<tab, current_new_tab_index>>,
             \A t \in Tabs : channel_alive'[t] => channel_alive[t]
      PROVE  PipeInv'
  <2>1. \A t \in Tabs : t # c => down'[t] = down[t]
    BY <1>3, <1>6, Numbers DEF Send
  <2>2. c \in Tabs => tab[c] # "none" /\ down'[c] = Append(down[c], w)
    BY <1>3, <1>6, Numbers DEF Send, Living
  <2>3. ASSUME NEW t \in Tabs PROVE ForTab(down'[t], t)
    <3>1. CASE t = c
      <4>1. ForTab(Append(down[c], w), c)
        BY <1>3, <1>6, <3>1, ContentsKept DEF PipeInv
      <4> QED
        BY <2>2, <3>1, <4>1
    <3> QED
      BY <2>1, <3>1 DEF PipeInv
  <2>4. ASSUME NEW t \in Tabs
        PROVE  /\ t >= current_new_tab_index' => tab'[t] = "none"
               /\ tab'[t] = "none" => ~channel_alive'[t] /\ up'[t] = <<>> /\ down'[t] = <<>>
    BY <1>2, <1>6, <2>1, <2>2 DEF PipeInv
  <2> QED
    BY <1>2, <2>3, <2>4 DEF PipeInv
<1>7. ASSUME Forwards(m) PROVE PipeInv'
  <2>1. m.tab \in Channels /\ IsUri(m)
    BY <1>7, RequestKinds, Numbers DEF Forwards
  <2> QED
    BY <1>6, <1>7, <2>1 DEF Forwards
<1>8. ASSUME NEW c \in Channels, NEW r, Kills(c, r) PROVE PipeInv'
  <2>1. TabKilled(c) \in Requests
    BY WrittenRequests
  <2>2. \A t \in Tabs : channel_alive'[t] => channel_alive[t]
    BY <1>3, <1>8, Numbers DEF Kills
  <2> QED
    BY <1>6, <1>8, <2>1, <2>2 DEF Kills
<1>9. CASE Handles(m)
  BY <1>4, <1>5, <1>7, <1>8, <1>9 DEF Handles, Rests, Breaks
<1>10. CASE \/ Rests({"poll", "returned"}) \/ Rests({"killing", "returned"})
            \/ (i \in Tabs /\ Breaks(i)) \/ (i \in Tabs /\ Kills(i, {"killing"}))
  BY <1>4, <1>8, <1>10, Numbers DEF Rests, Breaks
<1> QED
  BY <1>1, <1>9, <1>10

\* What is in the pipes stays so.
LEMMA PipeStep == TypeInv /\ PipeInv /\ [Next]_vars => PipeInv'
<1> SUFFICES ASSUME TypeInv, PipeInv, [Next]_vars
             PROVE  PipeInv'
  OBVIOUS
<1>1. /\ up \in [Channels -> Seq(Requests)] /\ down \in [Channels -> Seq(Requests)]
      /\ tab \in [Tabs -> {"none", "open", "closed", "dead"}]
      /\ channel_alive \in [Channels -> BOOLEAN] /\ current_new_tab_index \in Nat
  BY DEF TypeInv, PipeType, Values
<1>2. ASSUME UNCHANGED <<up, down, current_new_tab_index>>,
             \A t \in Tabs : /\ channel_alive'[t] = channel_alive[t]
                             /\ tab'[t] = tab[t] \/ (tab[t] # "none" /\ tab'[t] # "none")
      PROVE  PipeInv'
  BY <1>2 DEF PipeInv
<1>3. CASE Main
  BY <1>1, <1>2, <1>3, Numbers DEF Main, locals
<1>4. CASE Poll \/ KillNext
  BY <1>4, RouterCases, RouterKeepsPipes
<1>5. ASSUME NEW m \in Requests, NEW l, Report(m, l),
             m.type = "TAB_KILLED" => m = TabKilled(0),
             UNCHANGED <<down, tab, channel_alive, current_new_tab_index>>
      PROVE  PipeInv'
  <2>1. 1 \in Tabs
    BY BrowserAssumption DEF Tabs
  <2>2. FromController(Append(up[0], m))
    BY <1>1, <1>5, <2>1, Numbers, ContentsKept DEF PipeInv
  <2>3. FromController(up'[0]) /\ \A t \in Tabs : up'[t] = up[t]
    BY <1>1, <1>5, <2>2, Numbers DEF Report, PipeInv
  <2> QED
    BY <1>5, <2>3 DEF PipeInv
<1>6. CASE new_tab_created_cb
  BY <1>5, <1>6, WrittenRequests DEF new_tab_created_cb, locals
<1>7. ASSUME NEW t \in Tabs, uri_entered_cb(t) PROVE PipeInv'
  <2>1. Len(target') \in 1 .. MaxUris
    BY <1>7, WrittenLast, BrowserAssumption DEF uri_entered_cb, TypeInv, Values
  <2>2. NewUri(Len(target'), t) \in Requests /\ IsUri(NewUri(Len(target'), t))
    BY <2>1, WrittenRequests
  <2> QED
    BY <1>5, <1>7, <2>2 DEF uri_entered_cb, locals, IsUri
<1>8. CASE CloseController
  BY <1>5, <1>8, WrittenRequests, Numbers DEF CloseController, locals
<1>9. CASE ExitController
  BY <1>2, <1>9 DEF ExitController, locals
<1>10. ASSUME NEW t \in Tabs, CloseTab(t) PROVE PipeInv'
  <2>1. FromTab(Append(up[t], TabKilled(t)), t)
    BY <1>1, Numbers, WrittenRequests, ContentsKept DEF PipeInv
  <2>2. /\ up'[0] = up[0] /\ FromTab(up'[t], t)
        /\ \A x \in Tabs : x # t => up'[x] = up[x] /\ tab'[x] = tab[x]
        /\ tab[t] # "none" /\ tab'[t] # "none"
    BY <1>1, <1>10, <2>1, Numbers DEF CloseTab, PipeInv
  <2> QED
    BY <1>10, <2>2 DEF CloseTab, PipeInv, locals
<1>11. ASSUME NEW t \in Tabs, ReadDown(t) PROVE PipeInv'
  <2>1. ForTab(Tail(down[t]), t)
    BY <1>1, <1>11, Numbers, ContentsKept DEF ReadDown, PipeInv
  <2>2. /\ up' = up /\ ForTab(down'[t], t)
        /\ \A x \in Tabs : x # t => down'[x] = down[x] /\ tab'[x] = tab[x]
        /\ tab[t] # "none" /\ tab'[t] # "none"
    BY <1>1, <1>11, <2>1, Numbers DEF ReadDown, PipeInv, Living
  <2> QED
    BY <1>11, <2>2 DEF ReadDown, PipeInv, locals
<1>12. ASSUME NEW t \in Tabs, ExitAtEndOfFile(t) PROVE PipeInv'
  BY <1>1, <1>2, <1>12, Numbers DEF ExitAtEndOfFile, locals, Living
<1>13. ASSUME NEW t \in Tabs, Crash(t) PROVE PipeInv'
  BY <1>1, <1>2, <1>13, Numbers DEF Crash, locals, Living
<1>14. CASE UNCHANGED vars
  BY <1>14 DEF vars, children, locals, PipeInv
<1> QED
  BY <1>3, <1>4, <1>6, <1>7, <1>8, <1>9, <1>10, <1>11, <1>12, <1>13, <1>14 DEF Next, Router
-----------------------------------------------------------------------------
(* The controller *)

\* The controller's TAB_KILLED waits for the router as long as it polls.
LEMMA ControllerStep == TypeInv /\ ControllerInv /\ [Next]_vars => ControllerInv'
<1> SUFFICES ASSUME TypeInv, ControllerInv, [Next]_vars
             PROVE  ControllerInv'
  OBVIOUS
<1>1. /\ up \in [Channels -> Seq(Requests)] /\ up[0] \in Seq(Requests)
      /\ channel_alive \in [Channels -> BOOLEAN]
      /\ controller \in {"none", "open", "quitting", "dead"}
  BY Numbers DEF TypeInv, PipeType, Values
<1>2. ASSUME UNCHANGED <<controller, router, current_new_tab_index>>, up'[0] = up[0],
             channel_alive'[0] = channel_alive[0]
      PROVE  ControllerInv'
  BY <1>2 DEF ControllerInv
<1>3. CASE Main
  BY <1>1, <1>3, Numbers DEF Main, ControllerInv, locals
<1>4. ASSUME NEW m \in Requests, RouterDoes(m) PROVE ControllerInv'
  <2>1. router \in {"poll", "killing"} /\ router' # "start" /\ controller' = controller
    BY <1>4 DEF RouterDoes, Handles, Rests, Goes, Creates, Forwards, Kills, Breaks
  <2> SUFFICES ASSUME router' = "poll"
               PROVE  /\ channel_alive'[0] <=> controller' # "none"
                      /\ controller' \in {"quitting", "dead"} =>
                            \E n \in DOMAIN up'[0] : up'[0][n] = TabKilled(0)
    BY <2>1 DEF ControllerInv
  <2>2. router = "poll"
    BY <1>4 DEF RouterDoes, Rests, Goes, Breaks, Kills
  <2>3. CASE UNCHANGED <<up, channel_alive>>
    BY <2>1, <2>2, <2>3 DEF ControllerInv
  <2>4. CASE i \in Channels /\ Reads(m) /\ Handles(m)
    <3>1. m # TabKilled(0)
      BY <2>4, WrittenRequests, Numbers
      DEF Handles, Rests, Goes, Breaks, Kills, Forwards, Creates, IsUri
    <3>2. channel_alive'[0] = channel_alive[0]
      BY <1>1, <2>4, Numbers DEF Handles, Rests, Goes, Breaks, Kills, Forwards, Creates
    <3>3. ASSUME NEW n \in DOMAIN up[0], up[0][n] = TabKilled(0)
          PROVE  \E k \in DOMAIN up'[0] : up'[0][k] = TabKilled(0)
      <4>1. CASE up'[0] = up[0]
        BY <3>3, <4>1
      <4>2. CASE up[0] # <<>> /\ m = Head(up[0]) /\ up'[0] = Tail(up[0])
        <5>1. n # 1
          BY <1>1, <3>1, <3>3, <4>2, ReadFirst
        <5>2. n - 1 \in DOMAIN up'[0] /\ up'[0][n - 1] = up[0][n]
          BY <1>1, <3>3, <4>2, <5>1, ReadFirst
        <5> QED
          BY <3>3, <5>2
      <4> QED
        BY <1>1, <2>4, <4>1, <4>2, Numbers DEF Reads
    <3> QED
      BY <2>1, <2>2, <3>2, <3>3 DEF ControllerInv
  <2> QED
    BY <1>4, <2>2, <2>3, <2>4 DEF RouterDoes, Rests
<1>5. ASSUME NEW m \in Requests, NEW l \in {"open", "quitting"}, Report(m, l),
             controller = "open", l = "quitting" => m = TabKilled(0),
             UNCHANGED <<router, channel_alive, current_new_tab_index>>
      PROVE  ControllerInv'
  <2>1. router = "poll" => Readable(0)
    BY <1>5 DEF ControllerInv, Readable, Routing
  <2>2. ASSUME router = "poll"
        PROVE  /\ controller' = l
               /\ l = "quitting" => \E n \in DOMAIN up'[0] : up'[0][n] = TabKilled(0)
    <3>1. controller' = l /\ up'[0] = Append(up[0], m)
      BY <1>1, <1>5, <2>1, <2>2, Numbers DEF Report
    <3> QED
      BY <1>1, <1>5, <3>1, WrittenLast
  <2> QED
    BY <1>5, <2>2 DEF ControllerInv
<1>6. CASE new_tab_created_cb
  BY <1>5, <1>6, WrittenRequests DEF new_tab_created_cb, locals
<1>7. ASSUME NEW t \in Tabs, uri_entered_cb(t) PROVE ControllerInv'
  <2>1. Len(target') \in 1 .. MaxUris
    BY <1>7, WrittenLast, BrowserAssumption DEF uri_entered_cb, TypeInv, Values
  <2>2. NewUri(Len(target'), t) \in Requests
    BY <2>1, WrittenRequests
  <2> QED
    BY <1>5, <1>7, <2>2 DEF uri_entered_cb, locals
<1>8. CASE CloseController
  BY <1>5, <1>8, WrittenRequests, Numbers DEF CloseController, locals
<1>9. CASE ExitController
  BY <1>9 DEF ExitController, ControllerInv, locals
<1>10. ASSUME NEW t \in Tabs, CloseTab(t) PROVE ControllerInv'
  BY <1>1, <1>2, <1>10, Numbers DEF CloseTab, locals
<1>11. ASSUME NEW t \in Tabs, ReadDown(t) PROVE ControllerInv'
  BY <1>2, <1>11 DEF ReadDown, locals
<1>12. ASSUME NEW t \in Tabs, ExitAtEndOfFile(t) \/ Crash(t) PROVE ControllerInv'
  BY <1>2, <1>12 DEF ExitAtEndOfFile, Crash, locals
<1>13. CASE UNCHANGED vars
  BY <1>2, <1>13 DEF vars, children, locals
<1> QED
  BY <1>3, <1>4, <1>6, <1>7, <1>8, <1>9, <1>10, <1>11, <1>12, <1>13, RouterCases
  DEF Next, Router
-----------------------------------------------------------------------------
(* Who is alive *)

\* What waits in a pipe after something was written to it or read from it.
LEMMA PendingKept ==
    ASSUME NEW s \in Seq(Requests), NEW type
    PROVE  /\ \A m \in Requests :
                 Pending(Append(s, m), type) # {} <=> (Pending(s, type) # {} \/ m.type = type)
           /\ s # <<>> => (Pending(s, type) # {}
                               <=> (Head(s).type = type \/ Pending(Tail(s), type) # {}))
<1>1. ASSUME NEW m \in Requests
      PROVE  Pending(Append(s, m), type) # {} <=> (Pending(s, type) # {} \/ m.type = type)
  <2>1. /\ Len(s) + 1 \in DOMAIN Append(s, m)
        /\ \A n \in DOMAIN Append(s, m) : n \in DOMAIN s \/ n = Len(s) + 1
        /\ \A n \in DOMAIN s : n \in DOMAIN Append(s, m) /\ Append(s, m)[n] = s[n]
        /\ Append(s, m)[Len(s) + 1] = m
    BY WrittenLast
  <2> QED
    BY <2>1 DEF Pending
<1>2. ASSUME s # <<>>
      PROVE  Pending(s, type) # {} <=> (Head(s).type = type \/ Pending(Tail(s), type) # {})
  <2>1. /\ 1 \in DOMAIN s /\ Head(s) = s[1]
        /\ \A n \in DOMAIN Tail(s) : n + 1 \in DOMAIN s /\ Tail(s)[n] = s[n + 1]
        /\ \A n \in DOMAIN s : n # 1 => n - 1 \in DOMAIN Tail(s) /\ Tail(s)[n - 1] = s[n]
    BY <1>2, ReadFirst
  <2>2. ASSUME NEW n \in DOMAIN s, s[n].type = type
        PROVE  Head(s).type = type \/ \E k \in DOMAIN Tail(s) : Tail(s)[k].type = type
    <3>1. CASE n = 1
      BY <2>1, <2>2, <3>1
    <3>2. CASE n # 1
      BY <2>1, <2>2, <3>2
    <3> QED
      BY <3>1, <3>2
  <2>3. ASSUME NEW n \in DOMAIN Tail(s), Tail(s)[n].type = type
        PROVE  \E k \in DOMAIN s : s[k].type = type
    BY <2>1, <2>3
  <2> QED
    BY <2>1, <2>2, <2>3 DEF Pending
<1> QED
  BY <1>1, <1>2

\* As long as no tab died on its own the router never takes an end of file for a
\* request: what it handles is the head of a pipe of a channel in use.
LEMMA NoRepeat ==
    ASSUME TypeInv, PipeInv, ControllerInv, AliveIsRight, crashed = {}, router = "poll",
           i \in Channels, NEW m, Reads(m)
    PROVE  /\ up[i] # <<>> /\ m = Head(up[i]) /\ up' = [up EXCEPT ![i] = Tail(@)]
           /\ i \in Tabs => m = TabKilled(i)
           /\ i = 0 /\ m.type = "TAB_KILLED" => m = TabKilled(0)
<1>1. up[i] \in Seq(Requests) /\ up[0] \in Seq(Requests)
  BY Numbers DEF TypeInv, PipeType
<1>2. channel_alive[i]
  BY DEF Reads
<1>3. ASSUME up[i] = <<>> PROVE Living(i)
  <2>1. CASE i = 0
    <3>1. controller \notin {"none", "quitting", "dead"}
      BY <1>2, <1>3, <2>1 DEF ControllerInv
    <3> QED
      BY <2>1, <3>1 DEF TypeInv, Values, Living
  <2>2. CASE i \in Tabs
    <3>1. tab[i] \notin {"none", "dead"}
      BY <1>2, <2>2 DEF PipeInv, AliveIsRight, Routing
    <3> QED
      BY <2>2, <3>1, Numbers DEF TypeInv, Values, Living
  <2> QED
    BY <2>1, <2>2, Numbers
<1>4. up[i] # <<>> /\ m = Head(up[i]) /\ up' = [up EXCEPT ![i] = Tail(@)]
  BY <1>3 DEF Reads, EndOfFile
<1>5. 1 \in DOMAIN up[i] /\ m = up[i][1]
  BY <1>1, <1>4, ReadFirst
<1>6. i \in Tabs => m = TabKilled(i)
  BY <1>5 DEF PipeInv, FromTab
<1>7. i = 0 /\ m.type = "TAB_KILLED" => m = TabKilled(0)
  BY <1>5 DEF PipeInv, FromController
<1> QED
  BY <1>4, <1>6, <1>7

\* A tab that is told to exit is off the list, whatever the router does.
LEMMA RouterTellsOffList ==
    ASSUME TypeInv, PipeInv, KillInv, NEW m \in Requests, RouterDoes(m), NEW t \in Tabs
    PROVE  /\ Pending(down'[t], "TAB_KILLED") # {} => ~channel_alive'[t]
           /\ Pending(down[t], "TAB_KILLED") # {} => Pending(down'[t], "TAB_KILLED") # {}
           /\ channel_alive[t] /\ ~channel_alive'[t]
                 => /\ Living(t) /\ Pending(down'[t], "TAB_KILLED") # {}
                    /\ router = "poll" => m = TabKilled(t)
           /\ \/ tab'[t] = tab[t] /\ (channel_alive'[t] => channel_alive[t])
              \/ tab[t] = "none" /\ tab'[t] = "open" /\ channel_alive'[t]
<1>1. /\ down \in [Channels -> Seq(Requests)] /\ t \in Channels /\ down[t] \in Seq(Requests)
      /\ tab \in [Tabs -> {"none", "open", "closed", "dead"}]
      /\ channel_alive \in [Channels -> BOOLEAN] /\ current_new_tab_index \in Nat
  BY Numbers DEF TypeInv, PipeType, Values
<1>2. Pending(down[t], "TAB_KILLED") # {} => ~channel_alive[t]
  BY DEF KillInv
<1>3. CASE UNCHANGED <<tab, down, channel_alive>>
  BY <1>2, <1>3
<1>4. CASE Creates
  <2>1. t = current_new_tab_index => tab[t] = "none" /\ down[t] = <<>>
    BY <1>1 DEF PipeInv
  <2>2. down[t] = <<>> => Pending(down[t], "TAB_KILLED") = {}
    BY DEF Pending
  <2>3. /\ down' = down
        /\ \/ tab'[t] = tab[t] /\ channel_alive'[t] = channel_alive[t]
           \/ t = current_new_tab_index /\ tab'[t] = "open" /\ channel_alive'[t] = TRUE
    BY <1>1, <1>4, Numbers DEF Creates
  <2> QED
    BY <1>2, <2>1, <2>2, <2>3
<1>5. CASE Forwards(m)
  <2>1. IsUri(m) /\ m.type # "TAB_KILLED"
    BY <1>5 DEF Forwards, IsUri
  <2>2. down'[t] = down[t] \/ down'[t] = Append(down[t], m)
    BY <1>1, <1>5 DEF Forwards, Send
  <2>3. Pending(down'[t], "TAB_KILLED") # {} <=> Pending(down[t], "TAB_KILLED") # {}
    BY <1>1, <2>1, <2>2, PendingKept
  <2> QED
    BY <1>2, <1>5, <2>3 DEF Forwards
<1>6. ASSUME NEW c \in Channels, NEW r, Kills(c, r), router = "poll" => m = TabKilled(c)
      PROVE  /\ Pending(down'[t], "TAB_KILLED") # {} => ~channel_alive'[t]
             /\ Pending(down[t], "TAB_KILLED") # {} => Pending(down'[t], "TAB_KILLED") # {}
             /\ channel_alive[t] /\ ~channel_alive'[t]
                   => /\ Living(t) /\ Pending(down'[t], "TAB_KILLED") # {}
                      /\ router = "poll" => m = TabKilled(t)
             /\ tab'[t] = tab[t] /\ (channel_alive'[t] => channel_alive[t])
  <2>1. CASE t # c
    <3>1. down'[t] = down[t] /\ channel_alive'[t] = channel_alive[t] /\ tab' = tab
      BY <1>1, <1>6, <2>1 DEF Kills, Send
    <3> QED
      BY <1>2, <3>1
  <2>2. CASE t = c
    <3>1. down'[t] = Append(down[t], TabKilled(t)) /\ ~channel_alive'[t] /\ tab' = tab
          /\ Living(t)
      BY <1>1, <1>6, <2>2 DEF Kills, Send
    <3>2. Pending(down'[t], "TAB_KILLED") # {}
      <4>1. TabKilled(t) \in Requests /\ TabKilled(t).type = "TAB_KILLED"
        BY <1>1, WrittenRequests
      <4>2. Pending(Append(down[t], TabKilled(t)), "TAB_KILLED") # {}
        BY <1>1, <4>1, PendingKept
      <4> QED
        BY <3>1, <4>2
    <3> QED
      BY <1>6, <2>2, <3>1, <3>2
  <2> QED
    BY <2>1, <2>2
<1>7. CASE Handles(m)
  BY <1>3, <1>4, <1>5, <1>6, <1>7 DEF Handles, Rests, Breaks
<1>8. CASE \/ Rests({"poll", "returned"}) \/ Rests({"killing", "returned"})
           \/ (i \in Tabs /\ Breaks(i))
           \/ (router = "killing" /\ i \in Tabs /\ Kills(i, {"killing"}))
  BY <1>3, <1>6, <1>8, Numbers DEF Rests, Breaks
<1> QED
  BY <1>7, <1>8 DEF RouterDoes

\* The exchange of TAB_KILLED goes as it should in every step.
LEMMA KillStep ==
    TypeInv /\ PipeInv /\ ControllerInv /\ KillInv /\ AliveIsRight /\ [Next]_vars => KillInv'
<1> SUFFICES ASSUME TypeInv, PipeInv, ControllerInv, KillInv, AliveIsRight, [Next]_vars
             PROVE  KillInv'
  OBVIOUS
<1> DEFINE Told(t) == Pending(down[t], "TAB_KILLED") # {} => ~channel_alive[t]
           Answers(t) ==
               /\ tab[t] = "open" => channel_alive[t]
               /\ up[t] # <<>> => tab[t] = "closed" /\ channel_alive[t] /\ Len(up[t]) = 1
<1>1. /\ \A t \in Tabs : Told(t)
      /\ crashed = {} /\ router = "poll" => \A t \in Tabs : Answers(t)
  BY DEF KillInv
<1>2. /\ up \in [Channels -> Seq(Requests)] /\ down \in [Channels -> Seq(Requests)]
      /\ tab \in [Tabs -> {"none", "open", "closed", "dead"}]
      /\ channel_alive \in [Channels -> BOOLEAN]
      /\ \A t \in Tabs : t \in Channels /\ up[t] \in Seq(Requests) /\ down[t] \in Seq(Requests)
  BY Numbers DEF TypeInv, PipeType, Values
<1>3. ASSUME \A t \in Tabs : Told(t)',
             crashed' = {} /\ router' = "poll" => \A t \in Tabs : Answers(t)'
      PROVE  KillInv'
  BY <1>3 DEF KillInv
<1>4. ASSUME UNCHANGED <<down, router>>, crashed \subseteq crashed',
             \A t \in Tabs : /\ channel_alive'[t] = channel_alive[t]
                             /\ up'[t] = up[t]
                             /\ tab'[t] \in {tab[t], "dead"}
             , crashed' = {} /\ router = "poll" => tab' = tab
      PROVE  KillInv'
  BY <1>1, <1>3, <1>4
<1>5. CASE Main
  <2>1. \A t \in Tabs : tab[t] = "none"
    BY <1>5 DEF Main, ControllerInv, PipeInv, Tabs
  <2>2. /\ UNCHANGED <<up, down, tab>>
        /\ \A t \in Tabs : channel_alive'[t] = channel_alive[t]
    BY <1>2, <1>5, Numbers DEF Main
  <2>3. \A t \in Tabs : Told(t)' /\ Answers(t)'
    BY <1>1, <2>1, <2>2 DEF PipeInv
  <2> QED
    BY <1>3, <2>3
<1>6. ASSUME NEW m \in Requests, RouterDoes(m) PROVE KillInv'
  <2>1. \A t \in Tabs : Told(t)'
    BY <1>6, RouterTellsOffList
  <2>2. ASSUME crashed' = {}, router' = "poll", NEW t \in Tabs
        PROVE  Answers(t)'
    <3>1. router = "poll" /\ crashed = {}
      BY <1>6, <2>2 DEF RouterDoes, Rests, Goes, Breaks, Kills
    <3>2. Answers(t)
      BY <1>1, <3>1
    <3>3. CASE up' = up
      <4>1. ~(i \in Channels /\ Reads(m))
        <5> SUFFICES ASSUME i \in Channels, Reads(m) PROVE FALSE
          OBVIOUS
        <5>1. up[i] # <<>> /\ up'[i] = Tail(up[i]) /\ up[i] \in Seq(Requests)
          BY <1>2, <3>1, NoRepeat DEF TypeInv, PipeType
        <5>2. Len(up'[i]) = Len(up[i]) - 1 /\ Len(up[i]) \in Nat
          BY <5>1, ReadFirst
        <5> QED
          BY <3>3, <5>2
      <4>2. UNCHANGED <<tab, channel_alive>>
        BY <1>6, <3>1, <4>1 DEF RouterDoes, Rests
      <4> QED
        BY <3>2, <3>3, <4>2
    <3>4. CASE i \in Channels /\ Reads(m) /\ Handles(m)
      <4>1. /\ up[i] # <<>> /\ m = Head(up[i]) /\ up' = [up EXCEPT ![i] = Tail(@)]
            /\ i \in Tabs => m = TabKilled(i)
            /\ i = 0 /\ m.type = "TAB_KILLED" => m = TabKilled(0)
        BY <3>1, <3>4, NoRepeat
      <4>2. /\ \/ tab'[t] = tab[t] /\ (channel_alive'[t] => channel_alive[t])
               \/ tab[t] = "none" /\ tab'[t] = "open" /\ channel_alive'[t]
            /\ channel_alive[t] /\ ~channel_alive'[t] => m = TabKilled(t)
        BY <1>6, <3>1, RouterTellsOffList
      <4>3. CASE i = t
        <5>1. Kills(t, {"poll", "returned"})
          BY <2>2, <3>4, <4>1, <4>3, WrittenRequests, Numbers, <1>2
          DEF Handles, Rests, Goes, Breaks, Forwards, IsUri
        <5>2. tab'[t] = tab[t] /\ tab[t] = "closed" /\ Len(up[t]) = 1
          BY <3>2, <4>1, <4>3, <5>1 DEF Kills
        <5>3. up'[t] = <<>>
          <6>1. Tail(up[t]) = <<>>
            BY <1>2, <5>2, OnlyOneRead
          <6>2. up'[t] = Tail(up[t])
            BY <1>2, <4>1, <4>3
          <6> QED
            BY <6>1, <6>2
        <5> QED
          BY <5>2, <5>3
      <4>4. CASE i # t
        <5>1. up'[t] = up[t]
          BY <1>2, <4>1, <4>4
        <5>2. m # TabKilled(t)
          BY <4>1, <4>4, <3>4, WrittenRequests, Numbers, <1>2
        <5>3. channel_alive[t] => channel_alive'[t]
          BY <4>2, <5>2
        <5>4. tab[t] = "none" => up[t] = <<>>
          BY DEF PipeInv
        <5> QED
          BY <3>2, <4>2, <5>1, <5>3, <5>4
      <4> QED
        BY <4>3, <4>4
    <3> QED
      BY <1>6, <3>1, <3>3, <3>4 DEF RouterDoes
  <2> QED
    BY <1>3, <2>1, <2>2
<1>7. ASSUME NEW m, NEW l, Report(m, l), UNCHANGED <<down, router, crashed, channel_alive, tab>>
      PROVE  KillInv'
  <2>1. \A t \in Tabs : up'[t] = up[t]
    BY <1>2, <1>7, Numbers DEF Report
  <2> QED
    BY <1>4, <1>7, <2>1
<1>8. CASE new_tab_created_cb \/ CloseController \/ \E t \in Tabs : uri_entered_cb(t)
  BY <1>7, <1>8 DEF new_tab_created_cb, CloseController, uri_entered_cb
<1>9. CASE ExitController
  BY <1>4, <1>9 DEF ExitController
<1>10. ASSUME NEW t \in Tabs, CloseTab(t) PROVE KillInv'
  <2>1. \A x \in Tabs : Told(x)'
    BY <1>1, <1>10 DEF CloseTab
  <2>2. ASSUME crashed' = {}, router' = "poll" PROVE \A x \in Tabs : Answers(x)'
    <3>1. crashed = {} /\ router = "poll" /\ tab[t] = "open"
      BY <1>10, <2>2 DEF CloseTab
    <3>2. channel_alive[t] /\ up[t] = <<>> /\ Readable(t)
      BY <1>1, <3>1 DEF Readable, Routing
    <3>3. /\ \A x \in Tabs : x # t => tab'[x] = tab[x] /\ up'[x] = up[x]
          /\ tab'[t] = "closed" /\ up'[t] = Append(up[t], TabKilled(t))
          /\ channel_alive' = channel_alive
      BY <1>2, <1>10, <3>2 DEF CloseTab
    <3>4. Len(up'[t]) = 1
      BY <3>2, <3>3
    <3> QED
      BY <1>1, <3>1, <3>2, <3>3, <3>4
  <2> QED
    BY <1>3, <2>1, <2>2
<1>11. ASSUME NEW t \in Tabs, ReadDown(t) PROVE KillInv'
  <2>1. /\ \A x \in Tabs : x # t => down'[x] = down[x] /\ tab'[x] = tab[x]
        /\ down[t] # <<>> /\ down'[t] = Tail(down[t])
        /\ UNCHANGED <<up, channel_alive, router>>
    BY <1>2, <1>11 DEF ReadDown
  <2>2. Pending(down'[t], "TAB_KILLED") # {} => Pending(down[t], "TAB_KILLED") # {}
    BY <1>2, <2>1, PendingKept
  <2>3. \A x \in Tabs : Told(x)'
    BY <1>1, <2>1, <2>2
  <2>4. ASSUME crashed' = {}, router' = "poll" PROVE \A x \in Tabs : Answers(x)'
    <3>1. crashed = {} /\ \A x \in Tabs : Answers(x)
      BY <1>1, <1>11, <2>1, <2>4 DEF ReadDown
    <3>2. CASE tab' = tab
      BY <2>1, <3>1, <3>2
    <3>3. CASE Head(down[t]).type = "TAB_KILLED" /\ tab'[t] = "dead"
      <4>1. ~channel_alive[t]
        BY <1>1, <1>2, <2>1, <3>3, PendingKept
      <4> QED
        BY <2>1, <3>1, <3>3, <4>1
    <3> QED
      BY <1>2, <1>11, <2>4, <3>2, <3>3 DEF ReadDown
  <2> QED
    BY <1>3, <2>3, <2>4
<1>12. ASSUME NEW t \in Tabs, ExitAtEndOfFile(t) PROVE KillInv'
  <2>1. router # "poll"
    BY <1>12 DEF ExitAtEndOfFile, Written, Routing
  <2>2. \A x \in Tabs : tab'[x] \in {tab[x], "dead"}
    BY <1>2, <1>12 DEF ExitAtEndOfFile
  <2> QED
    BY <1>4, <1>12, <2>1, <2>2 DEF ExitAtEndOfFile
<1>13. ASSUME NEW t \in Tabs, Crash(t) PROVE KillInv'
  <2>1. crashed' # {} /\ crashed \subseteq crashed'
    BY <1>13 DEF Crash
  <2>2. \A x \in Tabs : tab'[x] \in {tab[x], "dead"}
    BY <1>2, <1>13 DEF Crash
  <2> QED
    BY <1>4, <1>13, <2>1, <2>2 DEF Crash
<1>14. CASE UNCHANGED vars
  BY <1>4, <1>14 DEF vars, children
<1> QED
  BY <1>5, <1>6, <1>8, <1>9, <1>10, <1>11, <1>12, <1>13, <1>14, RouterCases
  DEF Next, Router

\* channel_alive stays right wherever the router relies on it.
LEMMA AliveStep ==
    TypeInv /\ PipeInv /\ ControllerInv /\ KillInv /\ AliveIsRight /\ [Next]_vars
        => AliveIsRight'
<1> SUFFICES ASSUME TypeInv, PipeInv, ControllerInv, KillInv, AliveIsRight, [Next]_vars,
                    crashed' = {}, Routing', NEW t \in Tabs
             PROVE  /\ tab'[t] = "dead" => ~channel_alive'[t]
                    /\ Living(t)' /\ ~channel_alive'[t] => Pending(down'[t], "TAB_KILLED") # {}
  BY DEF AliveIsRight
<1>1. /\ up \in [Channels -> Seq(Requests)] /\ down \in [Channels -> Seq(Requests)]
      /\ tab \in [Tabs -> {"none", "open", "closed", "dead"}]
      /\ channel_alive \in [Channels -> BOOLEAN]
      /\ t \in Channels /\ t # 0 /\ down[t] \in Seq(Requests)
  BY Numbers DEF TypeInv, PipeType, Values
<1> DEFINE Right ==
               /\ tab[t] = "dead" => ~channel_alive[t]
               /\ Living(t) /\ ~channel_alive[t] => Pending(down[t], "TAB_KILLED") # {}
<1>2. crashed = {} /\ Routing => Right
  BY DEF AliveIsRight
<1>3. Living(t) <=> tab[t] \in {"open", "closed"}
  BY <1>1 DEF Living
<1>4. Living(t)' <=> tab'[t] \in {"open", "closed"}
  BY <1>1 DEF Living
<1>5. ASSUME crashed = {}, Routing, down' = down, channel_alive'[t] = channel_alive[t],
             \/ tab'[t] = tab[t]
             \/ tab[t] = "open" /\ tab'[t] = "closed"
             \/ tab'[t] = "dead" /\ ~channel_alive[t]
      PROVE  Right'
  BY <1>2, <1>3, <1>4, <1>5
<1>6. CASE Main
  <2>1. tab'[t] = "none"
    BY <1>6 DEF Main, ControllerInv, PipeInv, Tabs
  <2> QED
    BY <1>4, <2>1
<1>7. ASSUME NEW m \in Requests, RouterDoes(m) PROVE Right'
  <2>1. crashed = {} /\ Routing
    BY <1>7 DEF RouterDoes, Routing
  <2>2. /\ Pending(down[t], "TAB_KILLED") # {} => Pending(down'[t], "TAB_KILLED") # {}
        /\ channel_alive[t] /\ ~channel_alive'[t] => Living(t)
        /\ channel_alive[t] /\ ~channel_alive'[t] => Pending(down'[t], "TAB_KILLED") # {}
        /\ \/ tab'[t] = tab[t] /\ (channel_alive'[t] => channel_alive[t])
           \/ tab[t] = "none" /\ tab'[t] = "open" /\ channel_alive'[t]
    BY <1>7, RouterTellsOffList
  <2> QED
    BY <1>2, <1>3, <1>4, <2>1, <2>2
<1>8. CASE new_tab_created_cb \/ CloseController \/ ExitController
           \/ \E x \in Tabs : uri_entered_cb(x)
  <2>1. UNCHANGED <<crashed, router, down, channel_alive, tab>>
    BY <1>8 DEF new_tab_created_cb, CloseController, ExitController, uri_entered_cb
  <2>2. crashed = {} /\ Routing
    BY <2>1 DEF Routing
  <2> QED
    BY <1>5, <2>1, <2>2
<1>9. ASSUME NEW x \in Tabs, CloseTab(x) PROVE Right'
  <2>1. UNCHANGED <<crashed, router, down, channel_alive>>
    BY <1>9 DEF CloseTab
  <2>2. crashed = {} /\ Routing
    BY <2>1 DEF Routing
  <2>3. \/ tab'[t] = tab[t]
        \/ tab[t] = "open" /\ tab'[t] = "closed"
        \/ tab'[t] = "dead" /\ ~channel_alive[t]
    BY <1>1, <1>9, <2>2 DEF CloseTab, Readable
  <2> QED
    BY <1>5, <2>1, <2>2, <2>3
<1>10. ASSUME NEW x \in Tabs, ReadDown(x) PROVE Right'
  <2>1. UNCHANGED <<router, channel_alive>> /\ crashed = {}
    BY <1>10 DEF ReadDown
  <2>2. Routing
    BY <2>1 DEF Routing
  <2>3. CASE x # t
    BY <1>1, <1>2, <1>3, <1>4, <1>10, <2>1, <2>2, <2>3 DEF ReadDown
  <2>4. CASE x = t /\ Head(down[t]).type = "TAB_KILLED" /\ tab'[t] = "dead"
    <3>1. ~channel_alive[t]
      BY <1>1, <1>10, <2>4, PendingKept DEF ReadDown, KillInv
    <3> QED
      BY <1>4, <2>1, <2>4, <3>1
  <2>5. CASE x = t /\ Head(down[t]).type # "TAB_KILLED" /\ tab' = tab
    <3>1. Pending(down[t], "TAB_KILLED") # {} => Pending(down'[t], "TAB_KILLED") # {}
      BY <1>1, <1>10, <2>5, PendingKept DEF ReadDown
    <3> QED
      BY <1>2, <1>3, <1>4, <2>1, <2>2, <2>5, <3>1
  <2> QED
    BY <1>1, <1>10, <2>1, <2>3, <2>4, <2>5 DEF ReadDown
<1>11. ASSUME NEW x \in Tabs, ExitAtEndOfFile(x) PROVE Right'
  BY <1>11 DEF ExitAtEndOfFile, Written, Routing
<1>12. ASSUME NEW x \in Tabs, Crash(x) PROVE Right'
  BY <1>12 DEF Crash
<1>13. CASE UNCHANGED vars
  <2>1. UNCHANGED <<crashed, router, down, channel_alive, tab>>
    BY <1>13 DEF vars, children
  <2>2. crashed = {} /\ Routing
    BY <2>1 DEF Routing
  <2> QED
    BY <1>5, <2>1, <2>2
<1>14. Right'
  BY <1>6, <1>7, <1>8, <1>9, <1>10, <1>11, <1>12, <1>13, RouterCases DEF Next, Router
<1> QED
  BY <1>14

\* A write of the router meets a dead reader only after a death nobody asked for, or as
\* its answer to the controller.
LEMMA BrokenStep ==
    TypeInv /\ PipeInv /\ ControllerInv /\ KillInv /\ AliveIsRight /\ BrokenOnlyByDeath
        /\ [Next]_vars => BrokenOnlyByDeath'
<1> SUFFICES ASSUME TypeInv, PipeInv, ControllerInv, KillInv, AliveIsRight,
                    BrokenOnlyByDeath, [Next]_vars, router' = "sigpipe"
             PROVE  \/ crashed' # {}
                    \/ broken' = 0 /\ controller' = "dead" /\ channel_alive'[0]
  BY DEF BrokenOnlyByDeath
<1>1. crashed # {} => crashed' # {}
  BY DEF Next, Router, Main, Poll, KillNext, new_tab_created_cb, CloseController,
         ExitController, uri_entered_cb, CloseTab, ReadDown, ExitAtEndOfFile, Crash,
         vars, children
<1>2. CASE router = "sigpipe"
  <2>1. crashed # {} \/ (broken = 0 /\ controller = "dead" /\ channel_alive[0])
    BY <1>2 DEF BrokenOnlyByDeath
  <2>2. UNCHANGED <<broken, channel_alive>> /\ (controller = "dead" => controller' = "dead")
    BY <1>2 DEF Next, Router, Main, Poll, KillNext, new_tab_created_cb, CloseController,
         ExitController, uri_entered_cb, CloseTab, ReadDown, ExitAtEndOfFile, Crash,
         vars, children
  <2> QED
    BY <1>1, <2>1, <2>2
<1>3. ASSUME router # "sigpipe", crashed = {}
      PROVE  broken' = 0 /\ controller' = "dead" /\ channel_alive'[0]
  <2>1. Poll \/ KillNext
    BY <1>3 DEF Next, Router, Main, new_tab_created_cb, CloseController,
         ExitController, uri_entered_cb, CloseTab, ReadDown, ExitAtEndOfFile, Crash, vars
  <2>2. PICK m \in Requests : RouterDoes(m)
    BY <2>1, RouterCases
  <2>3. Routing
    BY <2>2 DEF RouterDoes, Routing
  <2>4. \A t \in Tabs : channel_alive[t] => Living(t)
    <3> SUFFICES ASSUME NEW t \in Tabs, channel_alive[t] PROVE Living(t)
      OBVIOUS
    <3>1. tab[t] \notin {"none", "dead"}
      BY <1>3, <2>3 DEF PipeInv, AliveIsRight
    <3> QED
      BY <3>1, Numbers DEF TypeInv, Values, Living
  <2>5. /\ router = "poll" /\ i \in Channels /\ Reads(m) /\ m.tab \in Channels
        /\ Breaks(m.tab) /\ m = TabKilled(m.tab)
    BY <2>2, <2>4, RequestKinds
    DEF RouterDoes, Handles, Rests, Goes, Breaks, Kills, Creates, Forwards
  <2>6. i \notin Tabs
    <3> SUFFICES ASSUME i \in Tabs PROVE FALSE
      OBVIOUS
    <3>1. m = TabKilled(i) /\ up[i] # <<>>
      BY <1>3, <2>5, NoRepeat
    <3>2. m.tab = i /\ tab[i] = "closed"
      BY <1>3, <2>5, <3>1, WrittenRequests DEF KillInv
    <3>3. i # 0 /\ ~Living(i)
      BY <2>5, <3>2, Numbers DEF Breaks
    <3> QED
      BY <3>2, <3>3 DEF Living
  <2>7. m.tab = 0
    <3>1. i = 0 /\ m.type = "TAB_KILLED"
      <4>1. i = 0
        BY <2>5, <2>6, Numbers
      <4>2. TabKilled(m.tab).type = "TAB_KILLED"
        BY <2>5, WrittenRequests
      <4> QED
        BY <2>5, <4>1, <4>2
    <3>2. m = TabKilled(0)
      BY <1>3, <2>5, <3>1, NoRepeat
    <3> QED
      BY <3>2, WrittenRequests, Numbers
  <2>8. channel_alive[0] /\ ~Living(0) /\ controller # "none"
    BY <2>5, <2>6, <2>7, Numbers DEF Reads, Breaks, ControllerInv
  <2>9. controller = "dead"
    BY <2>8 DEF Living, TypeInv, Values
  <2> QED
    BY <2>2, <2>5, <2>7, <2>8, <2>9 DEF Breaks, RouterDoes
<1> QED
  BY <1>1, <1>2, <1>3
-----------------------------------------------------------------------------
(* Tabs and clicks *)

\* One element more or less.
LEMMA OneMoreOrLess ==
    ASSUME NEW S, IsFiniteSet(S), NEW x
    PROVE  /\ Cardinality(S) \in Nat
           /\ Cardinality(S \cup {x}) \in Nat /\ Cardinality(S \cup {x}) <= Cardinality(S) + 1
           /\ IsFiniteSet(S \ {x})
           /\ Cardinality(S \ {x}) \in Nat /\ Cardinality(S \ {x}) <= Cardinality(S)
           /\ x \in S => Cardinality(S \ {x}) < Cardinality(S)
<1>1. Cardinality(S) \in Nat
  BY FS_CardinalityType
<1>2. Cardinality(S \cup {x}) = IF x \in S THEN Cardinality(S) ELSE Cardinality(S) + 1
  BY FS_AddElement
<1>3. /\ IsFiniteSet(S \ {x})
      /\ Cardinality(S \ {x}) = IF x \in S THEN Cardinality(S) - 1 ELSE Cardinality(S)
  BY FS_RemoveElement
<1>4. Cardinality(S \ {x}) \in Nat
  BY <1>3, FS_CardinalityType
<1> QED
  BY <1>1, <1>2, <1>3, <1>4

\* How many requests of a kind wait, after one more or one less.
LEMMA PendingCounted ==
    ASSUME NEW s \in Seq(Requests), NEW type
    PROVE  /\ Cardinality(Pending(s, type)) \in Nat
           /\ \A m \in Requests :
                 /\ Cardinality(Pending(Append(s, m), type)) \in Nat
                 /\ Cardinality(Pending(Append(s, m), type)) <= Cardinality(Pending(s, type)) + 1
                 /\ m.type # type =>
                       Cardinality(Pending(Append(s, m), type)) = Cardinality(Pending(s, type))
           /\ s # <<>> =>
                 /\ Cardinality(Pending(Tail(s), type)) \in Nat
                 /\ Cardinality(Pending(Tail(s), type)) <= Cardinality(Pending(s, type))
                 /\ Head(s).type = type =>
                       Cardinality(Pending(Tail(s), type)) < Cardinality(Pending(s, type))
<1>1. \A q \in Seq(Requests) :
         IsFiniteSet(Pending(q, type)) /\ Cardinality(Pending(q, type)) \in Nat
  <2> SUFFICES ASSUME NEW q \in Seq(Requests)
               PROVE  IsFiniteSet(Pending(q, type)) /\ Cardinality(Pending(q, type)) \in Nat
    OBVIOUS
  <2>1. Pending(q, type) \subseteq 1 .. Len(q) /\ Len(q) \in Nat
    BY DEF Pending
  <2>2. IsFiniteSet(1 .. Len(q))
    BY <2>1, FS_Interval
  <2> QED
    BY <2>1, <2>2, FS_Subset, FS_CardinalityType
<1>2. ASSUME NEW m \in Requests
      PROVE  /\ Cardinality(Pending(Append(s, m), type)) \in Nat
             /\ Cardinality(Pending(Append(s, m), type)) <= Cardinality(Pending(s, type)) + 1
             /\ m.type # type =>
                   Cardinality(Pending(Append(s, m), type)) = Cardinality(Pending(s, type))
  <2>1. /\ Len(s) + 1 \in DOMAIN Append(s, m) /\ Len(s) + 1 \notin DOMAIN s
        /\ \A n \in DOMAIN Append(s, m) : n \in DOMAIN s \/ n = Len(s) + 1
        /\ \A n \in DOMAIN s : n \in DOMAIN Append(s, m) /\ Append(s, m)[n] = s[n]
        /\ Append(s, m)[Len(s) + 1] = m /\ Append(s, m) \in Seq(Requests)
    BY WrittenLast
  <2>2. Pending(Append(s, m), type) =
           IF m.type = type THEN Pending(s, type) \cup {Len(s) + 1} ELSE Pending(s, type)
    BY <2>1 DEF Pending
  <2>3. PICK S, x : S = Pending(s, type) /\ x = Len(s) + 1
    OBVIOUS
  <2>4. IsFiniteSet(S)
    BY <1>1, <2>3
  <2>5. /\ Cardinality(S) \in Nat /\ Cardinality(S \cup {x}) \in Nat
        /\ Cardinality(S \cup {x}) <= Cardinality(S) + 1
    BY <2>4, OneMoreOrLess
  <2>6. PICK T : T = Pending(Append(s, m), type)
    OBVIOUS
  <2>7. CASE m.type # type
    <3>1. T = S
      BY <2>2, <2>3, <2>6, <2>7
    <3> QED
      BY <2>3, <2>5, <2>6, <3>1
  <2>8. CASE m.type = type
    <3>1. T = S \cup {x}
      BY <2>2, <2>3, <2>6, <2>8
    <3>2. Cardinality(T) \in Nat /\ Cardinality(T) <= Cardinality(S) + 1
      BY <2>5, <3>1
    <3> QED
      BY <2>3, <2>6, <2>8, <3>2
  <2> QED
    BY <2>7, <2>8
<1>3. ASSUME s # <<>>
      PROVE  /\ Cardinality(Pending(Tail(s), type)) \in Nat
             /\ Cardinality(Pending(Tail(s), type)) <= Cardinality(Pending(s, type))
             /\ Head(s).type = type =>
                   Cardinality(Pending(Tail(s), type)) < Cardinality(Pending(s, type))
  <2>1. /\ Tail(s) \in Seq(Requests) /\ 1 \in DOMAIN s /\ Head(s) = s[1]
        /\ \A n \in DOMAIN Tail(s) : n + 1 \in DOMAIN s /\ Tail(s)[n] = s[n + 1]
        /\ DOMAIN Tail(s) = 1 .. Len(s) - 1 /\ Len(s) \in Nat
    BY <1>3, ReadFirst
  <2>2. PICK S, T : S = Pending(s, type) /\ T = Pending(Tail(s), type)
    OBVIOUS
  <2>3. IsFiniteSet(S) /\ Cardinality(T) \in Nat
    BY <1>1, <2>1, <2>2
  <2>4. \E f : f \in Injection(T, S \ {1})
    <3>1. \A n \in T : n \in Nat \ {0} /\ n + 1 \in S \ {1}
      BY <2>1, <2>2 DEF Pending
    <3> DEFINE f == [n \in T |-> n + 1]
    <3>2. f \in [T -> S \ {1}]
      BY <3>1
    <3>3. ASSUME NEW n \in T, NEW k \in T, f[n] = f[k] PROVE n = k
      <4>1. n \in Nat /\ k \in Nat /\ n + 1 = k + 1
        BY <3>1, <3>3
      <4> QED
        BY <4>1
    <3>4. f \in Injection(T, S \ {1})
      BY <3>2, <3>3, Zenon DEF Injection, IsInjective
    <3> QED
      BY <3>4, Zenon
  <2>5. /\ IsFiniteSet(S \ {1}) /\ Cardinality(S) \in Nat
        /\ Cardinality(S \ {1}) \in Nat /\ Cardinality(S \ {1}) <= Cardinality(S)
        /\ 1 \in S => Cardinality(S \ {1}) < Cardinality(S)
    BY <2>3, OneMoreOrLess
  <2>6. Cardinality(T) <= Cardinality(S \ {1})
    BY <2>4, <2>5, FS_Injection
  <2>7. Head(s).type = type => 1 \in S
    BY <2>1, <2>2 DEF Pending
  <2>8. /\ Cardinality(T) \in Nat /\ Cardinality(T) <= Cardinality(S)
        /\ Head(s).type = type => Cardinality(T) < Cardinality(S)
    BY <2>3, <2>5, <2>6, <2>7
  <2> QED
    BY <2>2, <2>8
<1> QED
  BY <1>1, <1>2, <1>3

\* Only a click leads to a tab, if none died on its own.
LEMMA AskedStep ==
    TypeInv /\ PipeInv /\ ControllerInv /\ AliveIsRight /\ TabsWereAskedFor /\ [Next]_vars
        => TabsWereAskedFor'
<1> DEFINE Waiting == Cardinality(Pending(up[0], "CREATE_TAB"))
<1> SUFFICES ASSUME TypeInv, PipeInv, ControllerInv, AliveIsRight, TabsWereAskedFor,
                    [Next]_vars, crashed' = {}
             PROVE  current_new_tab_index' - 1 + Waiting' <= clicks'
  BY DEF TabsWereAskedFor
<1>1. crashed = {}
  BY DEF Next, Router, Main, Poll, KillNext, new_tab_created_cb, CloseController,
         ExitController, uri_entered_cb, CloseTab, ReadDown, ExitAtEndOfFile, Crash,
         vars, children
<1>2. /\ up \in [Channels -> Seq(Requests)] /\ up[0] \in Seq(Requests)
      /\ current_new_tab_index \in Nat /\ clicks \in Nat
  BY Numbers, BrowserAssumption DEF TypeInv, PipeType, Values
<1>3. Waiting \in Nat
  BY <1>2, PendingCounted
<1>4. current_new_tab_index - 1 + Waiting <= clicks
  BY <1>1 DEF TabsWereAskedFor
<1>5. ASSUME UNCHANGED <<current_new_tab_index, clicks>>, up'[0] = up[0]
      PROVE  current_new_tab_index' - 1 + Waiting' <= clicks'
  BY <1>4, <1>5
<1>6. CASE Main
  BY <1>5, <1>6 DEF Main, locals, user
<1>7. ASSUME NEW m \in Requests, RouterDoes(m)
      PROVE  current_new_tab_index' - 1 + Waiting' <= clicks'
  <2>1. clicks' = clicks
    BY <1>7 DEF RouterDoes, user
  <2>2. CASE UNCHANGED <<up, current_new_tab_index>>
    BY <1>5, <2>1, <2>2
  <2>3. CASE router = "poll" /\ i \in Channels /\ Reads(m) /\ Handles(m)
    <3>1. /\ up[i] # <<>> /\ m = Head(up[i]) /\ up' = [up EXCEPT ![i] = Tail(@)]
          /\ i \in Tabs => m = TabKilled(i)
      BY <1>1, <2>3, NoRepeat
    <3>2. /\ up[0] # <<>> => Cardinality(Pending(Tail(up[0]), "CREATE_TAB")) \in Nat
          /\ up[0] # <<>> => Cardinality(Pending(Tail(up[0]), "CREATE_TAB")) <= Waiting
          /\ up[0] # <<>> /\ Head(up[0]).type = "CREATE_TAB"
                => Cardinality(Pending(Tail(up[0]), "CREATE_TAB")) < Waiting
      BY <1>2, PendingCounted
    <3>3. Waiting' \in Nat /\ Waiting' <= Waiting
      <4>1. up'[0] = up[0] \/ (up[0] # <<>> /\ up'[0] = Tail(up[0]))
        BY <1>2, <3>1, Numbers
      <4> QED
        BY <1>3, <3>2, <4>1
    <3>4. CASE current_new_tab_index' = current_new_tab_index
      BY <1>2, <1>3, <1>4, <2>1, <3>3, <3>4
    <3>5. CASE m = CreateTab /\ Creates
      <4>1. m.type = "CREATE_TAB" /\ i = 0
        BY <2>3, <3>1, <3>5, Numbers, WrittenRequests
      <4>2. up'[0] = Tail(up[0]) /\ up[0] # <<>> /\ Head(up[0]).type = "CREATE_TAB"
        BY <1>2, <3>1, <4>1, Numbers
      <4>3. Waiting' < Waiting /\ current_new_tab_index' = current_new_tab_index + 1
        BY <3>2, <3>5, <4>2 DEF Creates
      <4> QED
        BY <1>2, <1>3, <1>4, <2>1, <3>3, <4>3
    <3> QED
      BY <2>3, <3>4, <3>5 DEF Handles, Rests, Forwards, Breaks, Kills
  <2> QED
    BY <1>7, <2>2, <2>3 DEF RouterDoes, Rests, Breaks, Kills
<1>8. ASSUME NEW m \in Requests, NEW l, Report(m, l), UNCHANGED current_new_tab_index,
             \/ clicks' = clicks + 1
             \/ clicks' = clicks /\ m.type # "CREATE_TAB"
      PROVE  current_new_tab_index' - 1 + Waiting' <= clicks'
  <2>1. /\ Cardinality(Pending(Append(up[0], m), "CREATE_TAB")) \in Nat
        /\ Cardinality(Pending(Append(up[0], m), "CREATE_TAB")) <= Waiting + 1
        /\ m.type # "CREATE_TAB" =>
              Cardinality(Pending(Append(up[0], m), "CREATE_TAB")) = Waiting
    BY <1>2, PendingCounted
  <2>2. up'[0] = up[0] \/ up'[0] = Append(up[0], m)
    BY <1>2, <1>8, Numbers DEF Report
  <2>3. /\ Waiting' \in Nat /\ Waiting' <= Waiting + 1
        /\ m.type # "CREATE_TAB" => Waiting' = Waiting
    <3>1. CASE up'[0] = up[0]
      <4>1. Waiting' = Waiting
        BY <3>1
      <4> QED
        BY <1>3, <4>1
    <3>2. CASE up'[0] = Append(up[0], m)
      <4>1. Waiting' = Cardinality(Pending(Append(up[0], m), "CREATE_TAB"))
        BY <3>2
      <4> QED
        BY <2>1, <4>1
    <3> QED
      BY <2>2, <3>1, <3>2
  <2> QED
    BY <1>2, <1>3, <1>4, <1>8, <2>3
<1>9. CASE new_tab_created_cb
  BY <1>8, <1>9, WrittenRequests DEF new_tab_created_cb, locals
<1>10. ASSUME NEW t \in Tabs, uri_entered_cb(t)
       PROVE  current_new_tab_index' - 1 + Waiting' <= clicks'
  <2>1. Len(target') \in 1 .. MaxUris
    BY <1>10, WrittenLast, BrowserAssumption DEF uri_entered_cb, TypeInv, Values
  <2>2. /\ NewUri(Len(target'), t) \in Requests
        /\ NewUri(Len(target'), t).type # "CREATE_TAB"
    BY <2>1, WrittenRequests DEF IsUri
  <2> QED
    BY <1>8, <1>10, <2>2 DEF uri_entered_cb, locals
<1>11. CASE CloseController
  <2>1. TabKilled(0) \in Requests /\ TabKilled(0).type # "CREATE_TAB"
    BY WrittenRequests, Numbers
  <2> QED
    BY <1>8, <1>11, <2>1 DEF CloseController, locals, user
<1>12. CASE ExitController
  BY <1>5, <1>12 DEF ExitController, locals, user
<1>13. ASSUME NEW t \in Tabs, CloseTab(t)
       PROVE  current_new_tab_index' - 1 + Waiting' <= clicks'
  <2>1. up'[0] = up[0]
    BY <1>2, <1>13, Numbers DEF CloseTab
  <2> QED
    BY <1>5, <1>13, <2>1 DEF CloseTab, locals, user
<1>14. ASSUME NEW t \in Tabs, ReadDown(t) \/ ExitAtEndOfFile(t) \/ Crash(t)
       PROVE  current_new_tab_index' - 1 + Waiting' <= clicks'
  BY <1>5, <1>14 DEF ReadDown, ExitAtEndOfFile, Crash, locals, user
<1>15. CASE UNCHANGED vars
  BY <1>5, <1>15 DEF vars, locals, user
<1> QED
  BY <1>6, <1>7, <1>9, <1>10, <1>11, <1>12, <1>13, <1>14, <1>15, RouterCases
  DEF Next, Router
-----------------------------------------------------------------------------
(* The order of addresses *)

\* What is said of the addresses in a pipe goes for the rest of it, and the first one is
\* before the others.
LEMMA OrderRead ==
    ASSUME NEW s \in Seq(Requests), s # <<>>, NEW asked
    PROVE  /\ AllEntered(s, asked) => AllEntered(Tail(s), asked) /\ Entered(Head(s), asked)
           /\ Increasing(s) => /\ Increasing(Tail(s))
                               /\ IsUri(Head(s)) => Above(Tail(s), Head(s).uri)
           /\ Climbing(s) => /\ Climbing(Tail(s))
                             /\ IsUri(Head(s)) => From(Tail(s), Head(s).uri)
           /\ \A u :
                 /\ Above(s, u) => Above(Tail(s), u) /\ (IsUri(Head(s)) => u < Head(s).uri)
                 /\ From(s, u) => From(Tail(s), u) /\ (IsUri(Head(s)) => u <= Head(s).uri)
                 /\ UpTo(s, u) => UpTo(Tail(s), u) /\ (IsUri(Head(s)) => Head(s).uri <= u)
<1>1. /\ 1 \in DOMAIN s /\ Head(s) = s[1]
      /\ DOMAIN Tail(s) \subseteq Int
      /\ \A n \in DOMAIN Tail(s) : n + 1 \in DOMAIN s /\ 1 < n + 1 /\ Tail(s)[n] = s[n + 1]
  BY ReadFirst
<1>2. AllEntered(s, asked) => AllEntered(Tail(s), asked) /\ Entered(Head(s), asked)
  BY <1>1 DEF AllEntered
<1>3. ASSUME NEW u
      PROVE  /\ Above(s, u) => Above(Tail(s), u) /\ (IsUri(Head(s)) => u < Head(s).uri)
             /\ From(s, u) => From(Tail(s), u) /\ (IsUri(Head(s)) => u <= Head(s).uri)
             /\ UpTo(s, u) => UpTo(Tail(s), u) /\ (IsUri(Head(s)) => Head(s).uri <= u)
  <2>1. Above(s, u) => Above(Tail(s), u) /\ (IsUri(Head(s)) => u < Head(s).uri)
    BY <1>1 DEF Above
  <2>2. From(s, u) => From(Tail(s), u) /\ (IsUri(Head(s)) => u <= Head(s).uri)
    BY <1>1 DEF From
  <2>3. UpTo(s, u) => UpTo(Tail(s), u) /\ (IsUri(Head(s)) => Head(s).uri <= u)
    BY <1>1 DEF UpTo
  <2> QED
    BY <2>1, <2>2, <2>3
<1>4. ASSUME Increasing(s)
      PROVE  Increasing(Tail(s)) /\ (IsUri(Head(s)) => Above(Tail(s), Head(s).uri))
  <2>1. \A m, n \in DOMAIN Tail(s) : m < n => m + 1 < n + 1
    BY <1>1
  <2>2. Increasing(Tail(s))
    BY <1>1, <1>4, <2>1 DEF Increasing
  <2>3. IsUri(Head(s)) => Above(Tail(s), Head(s).uri)
    BY <1>1, <1>4 DEF Increasing, Above
  <2> QED
    BY <2>2, <2>3
<1>5. ASSUME Climbing(s)
      PROVE  Climbing(Tail(s)) /\ (IsUri(Head(s)) => From(Tail(s), Head(s).uri))
  <2>1. \A m, n \in DOMAIN Tail(s) : m < n => m + 1 < n + 1
    BY <1>1
  <2>2. Climbing(Tail(s))
    BY <1>1, <1>5, <2>1 DEF Climbing
  <2>3. IsUri(Head(s)) => From(Tail(s), Head(s).uri)
    BY <1>1, <1>5 DEF Climbing, From
  <2> QED
    BY <2>2, <2>3
<1> QED
  BY <1>2, <1>3, <1>4, <1>5

\* It goes for the pipe with one more request, if it goes for that request.
LEMMA OrderWritten ==
    ASSUME NEW s \in Seq(Requests), NEW m \in Requests, NEW asked
    PROVE  /\ AllEntered(s, asked) /\ Entered(m, asked) => AllEntered(Append(s, m), asked)
           /\ Increasing(s) /\ (IsUri(m) => \A n \in DOMAIN s : IsUri(s[n]) => s[n].uri < m.uri)
                 => Increasing(Append(s, m))
           /\ Climbing(s) /\ (IsUri(m) => UpTo(s, m.uri)) => Climbing(Append(s, m))
           /\ \A u :
                 /\ Above(s, u) /\ (IsUri(m) => u < m.uri) => Above(Append(s, m), u)
                 /\ From(s, u) /\ (IsUri(m) => u <= m.uri) => From(Append(s, m), u)
                 /\ UpTo(s, u) /\ (IsUri(m) => m.uri <= u) => UpTo(Append(s, m), u)
<1>1. /\ Len(s) \in Nat /\ DOMAIN s = 1 .. Len(s)
      /\ \A n \in DOMAIN Append(s, m) : n \in DOMAIN s \/ n = Len(s) + 1
      /\ \A n \in DOMAIN s : Append(s, m)[n] = s[n]
      /\ Append(s, m)[Len(s) + 1] = m
  BY WrittenLast
<1>2. \A k, n \in DOMAIN Append(s, m) : k < n =>
         k \in DOMAIN s /\ (n \in DOMAIN s \/ n = Len(s) + 1)
  BY <1>1
<1>3. AllEntered(s, asked) /\ Entered(m, asked) => AllEntered(Append(s, m), asked)
  BY <1>1 DEF AllEntered
<1>4. ASSUME NEW u
      PROVE  /\ Above(s, u) /\ (IsUri(m) => u < m.uri) => Above(Append(s, m), u)
             /\ From(s, u) /\ (IsUri(m) => u <= m.uri) => From(Append(s, m), u)
             /\ UpTo(s, u) /\ (IsUri(m) => m.uri <= u) => UpTo(Append(s, m), u)
  BY <1>1 DEF Above, From, UpTo
<1>5. Increasing(s) /\ (IsUri(m) => \A n \in DOMAIN s : IsUri(s[n]) => s[n].uri < m.uri)
         => Increasing(Append(s, m))
  BY <1>1, <1>2 DEF Increasing
<1>6. Climbing(s) /\ (IsUri(m) => UpTo(s, m.uri)) => Climbing(Append(s, m))
  BY <1>1, <1>2 DEF Climbing, UpTo
<1> QED
  BY <1>3, <1>4, <1>5, <1>6

\* The request the router has just read is in the same order as the one before.
LEMMA OrderAfterReading ==
    ASSUME TypeInv, PipeInv, UriInv, i \in Channels, NEW m \in Requests, Reads(m)
    PROVE  InOrder(up'[0], m)
<1>1. up \in [Channels -> Seq(Requests)] /\ up[0] \in Seq(Requests)
  BY Numbers DEF TypeInv, PipeType
<1>2. CASE m = req /\ up' = up
  BY <1>2 DEF UriInv
<1>3. CASE up[i] # <<>> /\ m = Head(up[i]) /\ up' = [up EXCEPT ![i] = Tail(@)]
  <2>1. CASE i \in Tabs
    <3>1. 1 \in DOMAIN up[i] /\ m = up[i][1]
      BY <1>1, <1>3, ReadFirst
    <3>2. m = TabKilled(i)
      BY <2>1, <3>1 DEF PipeInv, FromTab
    <3>3. ~IsUri(m)
      BY <2>1, <3>2, WrittenRequests, Numbers DEF IsUri
    <3>4. up'[0] = up[0]
      BY <1>1, <1>3, <2>1, Numbers
    <3> QED
      BY <3>3, <3>4 DEF UriInv, InOrder, Entered
  <2>2. CASE i = 0
    <3>1. m = Head(up[0]) /\ up[0] # <<>> /\ up'[0] = Tail(up[0])
      BY <1>1, <1>3, <2>2, Numbers
    <3>2. /\ Entered(m, target) /\ AllEntered(Tail(up[0]), target) /\ Increasing(Tail(up[0]))
          /\ IsUri(m) => Above(Tail(up[0]), m.uri)
      BY <1>1, <3>1, OrderRead DEF UriInv, InOrder
    <3>3. \A u : Above(up[0], u) => Above(Tail(up[0]), u) /\ (IsUri(m) => u < m.uri)
      BY <1>1, <3>1, OrderRead
    <3>4. ASSUME NEW t \in Tabs
          PROVE  /\ shown[t] \in 0 .. Len(target) /\ Above(Tail(up[0]), shown[t])
                 /\ AllEntered(down[t], target) /\ Climbing(down[t]) /\ From(down[t], shown[t])
                 /\ \A n \in DOMAIN down[t] :
                       IsUri(down[t][n]) => Above(Tail(up[0]), down[t][n].uri)
                 /\ IsUri(m) => shown[t] <= m.uri /\ UpTo(down[t], m.uri)
      <4>1. /\ shown[t] \in 0 .. Len(target) /\ Above(up[0], shown[t])
            /\ AllEntered(down[t], target) /\ Climbing(down[t]) /\ From(down[t], shown[t])
            /\ \A n \in DOMAIN down[t] : IsUri(down[t][n]) => Above(up[0], down[t][n].uri)
        BY DEF UriInv, InOrder
      <4>2. shown[t] \in Int /\ (IsUri(m) => m.uri \in Int)
        BY <4>1, RequestKinds
      <4>3. \A n \in DOMAIN down[t] : IsUri(down[t][n]) => down[t][n].uri \in Int
        <5>1. down[t] \in Seq(Requests)
          BY Numbers DEF TypeInv, PipeType
        <5>2. \A n \in DOMAIN down[t] : down[t][n] \in Requests
          BY <5>1
        <5> QED
          BY <5>2, RequestKinds
      <4>4. IsUri(m) => shown[t] <= m.uri /\ UpTo(down[t], m.uri)
        BY <3>3, <4>1, <4>2, <4>3 DEF UpTo
      <4> QED
        BY <3>3, <4>1, <4>4
    <3> QED
      BY <3>1, <3>2, <3>4 DEF InOrder
  <2> QED
    BY <2>1, <2>2, Numbers
<1> QED
  BY <1>2, <1>3 DEF Reads

\* Whatever a step of the router does with the request, the order stays.
LEMMA OrderAfterRouting ==
    ASSUME TypeInv, PipeInv, UriInv, NEW m \in Requests, RouterDoes(m)
    PROVE  UriInv'
<1>1. /\ down \in [Channels -> Seq(Requests)] /\ UNCHANGED <<target, shown>>
  BY DEF TypeInv, PipeType, RouterDoes, user
<1>2. InOrder(up'[0], req')
  <2>1. CASE UNCHANGED <<up, req>>
    BY <2>1 DEF UriInv
  <2>2. CASE i \in Channels /\ Reads(m)
    <3>1. InOrder(up'[0], m)
      BY <2>2, OrderAfterReading
    <3> QED
      BY <2>2, <3>1 DEF Reads
  <2> QED
    BY <2>1, <2>2 DEF RouterDoes
<1>3. PICK u0, r : u0 = up'[0] /\ r = req' /\ InOrder(u0, r)
  BY <1>2
<1>4. ASSUME \A t \in Tabs :
                /\ AllEntered(down'[t], target) /\ Climbing(down'[t]) /\ From(down'[t], shown[t])
                /\ \A n \in DOMAIN down'[t] : IsUri(down'[t][n]) => Above(u0, down'[t][n].uri)
                /\ IsUri(r) => UpTo(down'[t], r.uri)
      PROVE  UriInv'
  <2>1. Entered(req', target') /\ AllEntered(up'[0], target')
    BY <1>1, <1>3 DEF InOrder, AllEntered, Entered
  <2>2. \A t \in Tabs : AllEntered(down'[t], target')
    BY <1>1, <1>4 DEF AllEntered, Entered
  <2>3. /\ Increasing(u0) /\ (IsUri(r) => Above(u0, r.uri))
        /\ \A t \in Tabs :
              /\ shown'[t] \in 0 .. Len(target') /\ Above(u0, shown'[t])
              /\ Climbing(down'[t]) /\ From(down'[t], shown'[t])
              /\ \A n \in DOMAIN down'[t] : IsUri(down'[t][n]) => Above(u0, down'[t][n].uri)
              /\ IsUri(r) => shown'[t] <= r.uri /\ UpTo(down'[t], r.uri)
    BY <1>1, <1>3, <1>4 DEF InOrder
  <2> QED
    BY <1>3, <2>1, <2>2, <2>3 DEF InOrder, UriInv
<1>5. CASE down' = down
  BY <1>3, <1>4, <1>5 DEF InOrder
<1>6. ASSUME NEW c \in Channels, NEW w \in Requests, Send(c, w), w = r \/ ~IsUri(w)
      PROVE  UriInv'
  <2>1. ASSUME NEW t \in Tabs
        PROVE  /\ AllEntered(down'[t], target) /\ Climbing(down'[t]) /\ From(down'[t], shown[t])
               /\ \A n \in DOMAIN down'[t] : IsUri(down'[t][n]) => Above(u0, down'[t][n].uri)
               /\ IsUri(r) => UpTo(down'[t], r.uri)
    <3>1. /\ AllEntered(down[t], target) /\ Climbing(down[t]) /\ From(down[t], shown[t])
          /\ \A n \in DOMAIN down[t] : IsUri(down[t][n]) => Above(u0, down[t][n].uri)
          /\ IsUri(r) => shown[t] <= r.uri /\ UpTo(down[t], r.uri) /\ Above(u0, r.uri)
          /\ Entered(r, target)
      BY <1>3 DEF InOrder
    <3>2. CASE t # c
      <4>1. down'[t] = down[t]
        BY <1>1, <1>6, <3>2, Numbers DEF Send
      <4> QED
        BY <3>1, <4>1
    <3>3. CASE t = c
      <4>1. down[t] \in Seq(Requests) /\ down'[t] = Append(down[t], w)
        BY <1>1, <1>6, <3>3 DEF Send
      <4>2. Entered(w, target)
        BY <1>6, <3>1 DEF Entered
      <4>3. IsUri(w) => w.uri \in Int /\ w.uri <= w.uri
        BY RequestKinds
      <4>4. AllEntered(Append(down[t], w), target) /\ Climbing(Append(down[t], w))
        BY <1>6, <3>1, <4>1, <4>2, OrderWritten
      <4>5. From(Append(down[t], w), shown[t])
        BY <1>6, <3>1, <4>1, OrderWritten
      <4>6. IsUri(r) => UpTo(Append(down[t], w), r.uri)
        BY <1>6, <3>1, <4>1, <4>3, OrderWritten
      <4>7. \A n \in DOMAIN Append(down[t], w) :
               IsUri(Append(down[t], w)[n]) => Above(u0, Append(down[t], w)[n].uri)
        <5>1. /\ \A n \in DOMAIN Append(down[t], w) : n \in DOMAIN down[t] \/ n = Len(down[t]) + 1
              /\ \A n \in DOMAIN down[t] : Append(down[t], w)[n] = down[t][n]
              /\ Append(down[t], w)[Len(down[t]) + 1] = w
          BY <4>1, WrittenLast
        <5> QED
          BY <1>6, <3>1, <5>1
      <4> QED
        BY <4>1, <4>4, <4>5, <4>6, <4>7
    <3> QED
      BY <3>2, <3>3
  <2> QED
    BY <1>4, <2>1
<1>7. ASSUME NEW c \in Channels, NEW k, Kills(c, k) PROVE UriInv'
  <2>1. TabKilled(c) \in Requests /\ ~IsUri(TabKilled(c))
    BY WrittenRequests DEF IsUri
  <2> QED
    BY <1>6, <1>7, <2>1 DEF Kills
<1>8. ASSUME Reads(m), Forwards(m) PROVE UriInv'
  <2>1. m.tab \in Channels /\ m = r
    BY <1>3, <1>8, RequestKinds, Numbers DEF Forwards, Reads
  <2> QED
    BY <1>6, <1>8, <2>1 DEF Forwards
<1>9. CASE Reads(m) /\ Handles(m)
  BY <1>5, <1>7, <1>8, <1>9 DEF Handles, Rests, Breaks, Creates
<1>10. CASE \/ Rests({"poll", "returned"}) \/ Rests({"killing", "returned"}) \/ Breaks(i)
            \/ (i \in Tabs /\ Kills(i, {"killing"}))
  BY <1>5, <1>7, <1>10, Numbers DEF Rests, Breaks
<1> QED
  BY <1>9, <1>10 DEF RouterDoes

\* An address entered last is above all others, wherever they are.
LEMMA OrderAfterEntering ==
    ASSUME TypeInv, UriInv, NEW t \in Tabs, uri_entered_cb(t)
    PROVE  UriInv'
<1>1. /\ up \in [Channels -> Seq(Requests)] /\ up[0] \in Seq(Requests)
      /\ target \in Seq(Tabs) /\ target' = Append(target, t) /\ UNCHANGED <<down, req, shown>>
      /\ Len(target') \in 1 .. MaxUris
  BY Numbers, WrittenLast, BrowserAssumption
  DEF TypeInv, PipeType, Values, uri_entered_cb, locals
<1>2. /\ Len(target) \in Nat /\ DOMAIN target = 1 .. Len(target)
      /\ Len(target') = Len(target) + 1 /\ DOMAIN target' = 1 .. Len(target) + 1
      /\ \A n \in DOMAIN target : target'[n] = target[n]
      /\ target'[Len(target) + 1] = t
  BY <1>1, WrittenLast
<1>3. \A m : Entered(m, target) => Entered(m, target') /\ (IsUri(m) => m.uri < Len(target) + 1)
  BY <1>2 DEF Entered
<1>4. PICK m : m = NewUri(Len(target'), t)
  OBVIOUS
<1>5. m \in Requests /\ IsUri(m) /\ m.uri = Len(target) + 1 /\ m.tab = t
  BY <1>1, <1>2, <1>4, WrittenRequests
<1>6. Entered(m, target')
  BY <1>2, <1>5 DEF Entered
<1>7. CASE up'[0] = up[0]
  <2>1. Entered(req', target') /\ AllEntered(up'[0], target')
    BY <1>1, <1>3, <1>7 DEF UriInv, InOrder, AllEntered
  <2>2. \A x \in Tabs : AllEntered(down'[x], target')
    BY <1>1, <1>3 DEF UriInv, InOrder, AllEntered
  <2>3. \A x \in Tabs : shown'[x] \in 0 .. Len(target')
    BY <1>1, <1>2 DEF UriInv, InOrder
  <2> QED
    BY <1>1, <1>7, <2>1, <2>2, <2>3 DEF UriInv, InOrder
<1>8. CASE up'[0] = Append(up[0], m)
  <2>1. \A n \in DOMAIN up[0] : Entered(up[0][n], target)
    BY DEF UriInv, InOrder, AllEntered
  <2>2. Entered(req', target') /\ AllEntered(up'[0], target')
    <3>1. /\ \A n \in DOMAIN Append(up[0], m) : n \in DOMAIN up[0] \/ n = Len(up[0]) + 1
          /\ \A n \in DOMAIN up[0] : Append(up[0], m)[n] = up[0][n]
          /\ Append(up[0], m)[Len(up[0]) + 1] = m
      BY <1>1, <1>5, WrittenLast
    <3>2. \A n \in DOMAIN up'[0] : Entered(up'[0][n], target')
      BY <1>3, <1>6, <1>8, <2>1, <3>1
    <3>3. Entered(req', target')
      BY <1>1, <1>3 DEF UriInv, InOrder, Entered
    <3> QED
      BY <3>2, <3>3 DEF AllEntered
  <2>3. \A x \in Tabs : AllEntered(down'[x], target')
    BY <1>1, <1>3 DEF UriInv, InOrder, AllEntered
  <2>4. \A x \in Tabs : shown'[x] \in 0 .. Len(target') /\ shown[x] < Len(target) + 1
    BY <1>1, <1>2 DEF UriInv, InOrder
  <2>5. Increasing(Append(up[0], m))
    <3>1. \A n \in DOMAIN up[0] : IsUri(up[0][n]) => up[0][n].uri < m.uri
      BY <1>3, <1>5, <2>1
    <3> QED
      BY <1>1, <1>5, <3>1, OrderWritten DEF UriInv, InOrder
  <2>6. \A u : Above(up[0], u) /\ u < Len(target) + 1 => Above(Append(up[0], m), u)
    BY <1>1, <1>5, OrderWritten
  <2>7. IsUri(req) => Above(Append(up[0], m), req.uri)
    BY <1>3, <2>6 DEF UriInv, InOrder
  <2>8. ASSUME NEW x \in Tabs
        PROVE  /\ Above(Append(up[0], m), shown[x])
               /\ \A n \in DOMAIN down[x] :
                     IsUri(down[x][n]) => Above(Append(up[0], m), down[x][n].uri)
    BY <1>3, <2>4, <2>6 DEF UriInv, InOrder, AllEntered
  <2> QED
    BY <1>1, <1>8, <2>2, <2>3, <2>4, <2>5, <2>7, <2>8 DEF UriInv, InOrder
<1> QED
  BY <1>1, <1>4, <1>7, <1>8, Numbers DEF uri_entered_cb, Report

\* A request for another purpose changes nothing in the order.
LEMMA OrderAfterReport ==
    ASSUME TypeInv, UriInv, NEW m \in Requests, ~IsUri(m), NEW l, Report(m, l),
           UNCHANGED <<down, req, target, shown>>
    PROVE  UriInv'
<1>1. up \in [Channels -> Seq(Requests)] /\ up[0] \in Seq(Requests)
  BY Numbers DEF TypeInv, PipeType
<1>2. /\ AllEntered(Append(up[0], m), target) /\ Increasing(Append(up[0], m))
      /\ \A u : Above(up[0], u) => Above(Append(up[0], m), u)
  <2>1. Entered(m, target)
    BY DEF Entered
  <2> QED
    BY <1>1, <2>1, OrderWritten DEF UriInv, InOrder
<1>3. InOrder(Append(up[0], m), req)
  BY <1>2 DEF UriInv, InOrder
<1>4. InOrder(up'[0], req)
  <2>1. up'[0] = up[0] \/ up'[0] = Append(up[0], m)
    BY <1>1, Numbers DEF Report
  <2> QED
    BY <1>3, <2>1 DEF UriInv
<1> QED
  BY <1>4 DEF UriInv, InOrder, AllEntered, Entered

\* A tab that reads an address shows a later one than before, that was entered for it.
LEMMA OrderAfterShowing ==
    ASSUME TypeInv, PipeInv, UriInv, NEW t \in Tabs, ReadDown(t)
    PROVE  /\ UriInv'
           /\ \A x \in Tabs : shown'[x] # shown[x] =>
                 shown'[x] > shown[x] /\ target[shown'[x]] = x
<1>1. /\ down \in [Channels -> Seq(Requests)] /\ t \in Channels
      /\ down[t] \in Seq(Requests) /\ down[t] # <<>>
      /\ down' = [down EXCEPT ![t] = Tail(@)] /\ UNCHANGED <<up, req, target>>
      /\ shown \in [Tabs -> 0 .. MaxUris]
  BY Numbers DEF TypeInv, PipeType, Values, ReadDown, locals, user
<1>2. PICK m : m = Head(down[t])
  OBVIOUS
<1>3. 1 \in DOMAIN down[t] /\ m = down[t][1] /\ m \in Requests
  BY <1>1, <1>2, ReadFirst
<1>4. \/ shown' = shown
      \/ IsUri(m) /\ shown' = [shown EXCEPT ![t] = m.uri]
  BY <1>2 DEF ReadDown, IsUri
<1>5. /\ AllEntered(Tail(down[t]), target) /\ Climbing(Tail(down[t]))
      /\ From(Tail(down[t]), shown[t]) /\ (IsUri(m) => From(Tail(down[t]), m.uri))
      /\ IsUri(req) => UpTo(Tail(down[t]), req.uri)
  BY <1>1, <1>2, OrderRead DEF UriInv, InOrder
<1>6. IsUri(m) => /\ m.uri \in DOMAIN target /\ target[m.uri] = t
                  /\ shown[t] <= m.uri /\ Above(up[0], m.uri)
                  /\ IsUri(req) => m.uri <= req.uri
  <2>1. IsUri(m) => /\ m.uri \in DOMAIN target /\ target[m.uri] = m.tab
                    /\ shown[t] <= m.uri /\ Above(up[0], m.uri)
                    /\ IsUri(req) => m.uri <= req.uri
    BY <1>3 DEF UriInv, InOrder, AllEntered, Entered, From, UpTo
  <2>2. IsUri(m) => m.tab = t
    <3>1. m = TabKilled(t) \/ (IsUri(m) /\ m.tab = t)
      BY <1>3 DEF PipeInv, ForTab
    <3>2. ~IsUri(TabKilled(t))
      BY <1>1, WrittenRequests DEF IsUri
    <3> QED
      BY <3>1, <3>2
  <2> QED
    BY <2>1, <2>2
<1>7. \A n \in DOMAIN Tail(down[t]) :
         IsUri(Tail(down[t])[n]) => Above(up[0], Tail(down[t])[n].uri)
  BY <1>1, <1>3, ReadFirst DEF UriInv, InOrder
<1>8. IsUri(m) => m.uri \in 0 .. Len(target)
  <2>1. target \in Seq(Tabs)
    BY DEF TypeInv, Values
  <2> QED
    BY <1>6, <2>1
<1>9. ASSUME NEW x \in Tabs
      PROVE  /\ shown'[x] \in 0 .. Len(target) /\ Above(up[0], shown'[x])
             /\ AllEntered(down'[x], target) /\ Climbing(down'[x]) /\ From(down'[x], shown'[x])
             /\ \A n \in DOMAIN down'[x] : IsUri(down'[x][n]) => Above(up[0], down'[x][n].uri)
             /\ IsUri(req) => shown'[x] <= req.uri /\ UpTo(down'[x], req.uri)
  <2>1. CASE x # t
    <3>1. down'[x] = down[x] /\ shown'[x] = shown[x]
      BY <1>1, <1>4, <2>1, Numbers
    <3> QED
      BY <3>1 DEF UriInv, InOrder
  <2>2. CASE x = t
    <3>1. down'[x] = Tail(down[t])
      BY <1>1, <2>2
    <3>2. CASE shown'[x] = shown[t]
      BY <1>5, <1>7, <2>2, <3>1, <3>2 DEF UriInv, InOrder
    <3>3. CASE IsUri(m) /\ shown'[x] = m.uri
      BY <1>5, <1>6, <1>7, <1>8, <2>2, <3>1, <3>3
    <3> QED
      BY <1>1, <1>4, <2>2, <3>2, <3>3
  <2> QED
    BY <2>1, <2>2
<1>10. UriInv'
  <2>1. /\ Entered(req', target') /\ AllEntered(up'[0], target')
        /\ \A x \in Tabs : AllEntered(down'[x], target')
    BY <1>1, <1>9 DEF UriInv, InOrder, AllEntered, Entered
  <2> QED
    BY <1>1, <1>9, <2>1 DEF UriInv, InOrder
<1>11. ASSUME NEW x \in Tabs, shown'[x] # shown[x]
       PROVE  shown'[x] > shown[x] /\ target[shown'[x]] = x
  <2>1. x = t /\ IsUri(m) /\ shown'[x] = m.uri
    BY <1>1, <1>4, <1>11
  <2>2. m.uri \in Int /\ shown[t] \in Int
    BY <1>1, <1>8, <2>1
  <2> QED
    BY <1>6, <1>11, <2>1, <2>2
<1> QED
  BY <1>10, <1>11

\* Addresses stay in the order they were entered in.
LEMMA UriStep == TypeInv /\ PipeInv /\ UriInv /\ [Next]_vars => UriInv'
<1> SUFFICES ASSUME TypeInv, PipeInv, UriInv, [Next]_vars
             PROVE  UriInv'
  OBVIOUS
<1>1. ASSUME UNCHANGED <<down, req, target, shown>>, up'[0] = up[0]
      PROVE  UriInv'
  BY <1>1 DEF UriInv, InOrder, AllEntered, Entered
<1>2. CASE Main
  BY <1>1, <1>2 DEF Main, locals, user
<1>3. CASE Poll \/ KillNext
  BY <1>3, RouterCases, OrderAfterRouting
<1>4. CASE new_tab_created_cb
  BY <1>4, OrderAfterReport, WrittenRequests DEF new_tab_created_cb, locals, IsUri
<1>5. CASE CloseController
  <2>1. TabKilled(0) \in Requests /\ ~IsUri(TabKilled(0))
    BY WrittenRequests, Numbers DEF IsUri
  <2> QED
    BY <1>5, <2>1, OrderAfterReport DEF CloseController, locals, user
<1>6. CASE ExitController
  BY <1>1, <1>6 DEF ExitController, locals, user
<1>7. ASSUME NEW t \in Tabs, CloseTab(t) PROVE UriInv'
  <2>1. up'[0] = up[0]
    BY <1>7, Numbers DEF CloseTab, TypeInv, PipeType
  <2> QED
    BY <1>1, <1>7, <2>1 DEF CloseTab, locals, user
<1>8. ASSUME NEW t \in Tabs, ExitAtEndOfFile(t) \/ Crash(t) PROVE UriInv'
  BY <1>1, <1>8 DEF ExitAtEndOfFile, Crash, locals, user
<1>9. CASE UNCHANGED vars
  BY <1>1, <1>9 DEF vars, locals, user
<1> QED
  BY <1>2, <1>3, <1>4, <1>5, <1>6, <1>7, <1>8, <1>9, OrderAfterEntering, OrderAfterShowing
  DEF Next, Router
-----------------------------------------------------------------------------
(* The theorems *)

\* Before main nothing is in a pipe, and no number is in use.
LEMMA BrowserStarts == Init => BrowserInv
<1> SUFFICES ASSUME Init PROVE BrowserInv
  OBVIOUS
<1>1. CreateTab \in Requests /\ ~IsUri(CreateTab)
  BY WrittenRequests DEF IsUri
<1>2. <<>> \in Seq(Requests) /\ Len(<<>>) = 0 /\ <<>> \in Seq(Tabs)
  OBVIOUS
<1>3. TypeInv
  BY <1>1, <1>2, Numbers, BrowserAssumption DEF Init, TypeInv, Values, PipeType
<1>4. up[0] = <<>> /\ \A t \in Tabs : up[t] = <<>> /\ down[t] = <<>> /\ ~channel_alive[t]
  BY Numbers DEF Init
<1>5. PipeInv
  <2>1. \A t : FromController(<<>>) /\ FromTab(<<>>, t) /\ ForTab(<<>>, t)
    BY DEF FromController, FromTab, ForTab
  <2>2. \A t \in Tabs : tab[t] = "none"
    BY DEF Init
  <2> QED
    BY <1>4, <2>1, <2>2 DEF PipeInv
<1>6. ControllerInv
  BY Numbers DEF Init, ControllerInv
<1>7. KillInv
  BY <1>4 DEF Init, KillInv, Pending
<1>8. AliveInv
  BY DEF Init, AliveInv, AliveIsRight, BrokenOnlyByDeath, Routing
<1>9. TabsWereAskedFor
  <2>1. Pending(up[0], "CREATE_TAB") = {}
    BY <1>4 DEF Pending
  <2>2. Cardinality(Pending(up[0], "CREATE_TAB")) = 0
    BY <2>1, FS_EmptySet
  <2> QED
    BY <2>2 DEF Init, TabsWereAskedFor
<1>10. UriInv
  <2>1. Entered(req, target)
    BY <1>1 DEF Init, Entered
  <2>2. AllEntered(<<>>, target) /\ Increasing(<<>>) /\ Climbing(<<>>)
    BY DEF AllEntered, Increasing, Climbing
  <2>3. \A u : Above(<<>>, u) /\ From(<<>>, u)
    BY DEF Above, From
  <2>4. req = CreateTab /\ target = <<>> /\ \A t \in Tabs : shown[t] = 0
    BY DEF Init
  <2> QED
    BY <1>1, <1>2, <1>4, <2>1, <2>2, <2>3, <2>4 DEF UriInv, InOrder
<1> QED
  BY <1>3, <1>5, <1>6, <1>7, <1>8, <1>9, <1>10 DEF BrowserInv

\* No step of any process breaks the invariant.
LEMMA BrowserSteps == BrowserInv /\ [Next]_vars => BrowserInv'
BY TypeStep, PipeStep, ControllerStep, KillStep, AliveStep, BrokenStep, AskedStep, UriStep
DEF BrowserInv, AliveInv

\* The invariant that the theorems rest on holds for every number of tabs, every
\* capacity of the pipes, and whatever the user does.
LEMMA BrowserStaysSo == Spec => []BrowserInv
BY BrowserStarts, BrowserSteps, PTL DEF Spec

\* Every variable keeps a value of its kind and no pipe holds more than it can.
THEOREM TypeCorrect == Spec => []TypeOK
<1>1. BrowserInv => TypeOK
  BY TypesSuffice DEF BrowserInv
<1> QED
  BY <1>1, BrowserStaysSo, PTL

\* The exchange of TAB_KILLED keeps channel_alive right, as long as no tab dies on its
\* own: no tab is dead and still polled, none is forgotten without having been told.
THEOREM AliveStaysRight == Spec => []AliveIsRight
<1>1. BrowserInv => AliveIsRight
  BY DEF BrowserInv, AliveInv
<1> QED
  BY <1>1, BrowserStaysSo, PTL

\* SIGPIPE ends the router only after a tab died on its own, or when the controller
\* exited before it got its answer.
THEOREM RouterBrokenOnlyByDeath == Spec => []BrokenOnlyByDeath
<1>1. BrowserInv => BrokenOnlyByDeath
  BY DEF BrowserInv, AliveInv
<1> QED
  BY <1>1, BrowserStaysSo, PTL

\* As long as no tab dies on its own, tabs and requests on the way are never more than
\* the clicks.
THEOREM TabsStayAskedFor == Spec => []TabsWereAskedFor
<1>1. BrowserInv => TabsWereAskedFor
  BY DEF BrowserInv
<1> QED
  BY <1>1, BrowserStaysSo, PTL

\* No tab ever goes back to an older address, or shows one that was not entered for it,
\* not even when the router repeats a request at the end of a dead tab's pipe.
THEOREM UrisStayInOrder == Spec => UrisInOrder
<1>1. BrowserInv /\ [Next]_vars =>
         [\A t \in Tabs : shown'[t] # shown[t] =>
              shown'[t] > shown[t] /\ target[shown'[t]] = t]_vars
  <2> SUFFICES ASSUME BrowserInv, [Next]_vars, NEW t \in Tabs, shown'[t] # shown[t]
               PROVE  shown'[t] > shown[t] /\ target[shown'[t]] = t
    OBVIOUS
  <2>1. \E x \in Tabs : ReadDown(x)
    BY DEF Next, Router, Main, Poll, KillNext, new_tab_created_cb, CloseController,
           ExitController, uri_entered_cb, CloseTab, ExitAtEndOfFile, Crash, vars
  <2> QED
    BY <2>1, OrderAfterShowing DEF BrowserInv
<1> QED
  BY <1>1, BrowserStaysSo, PTL DEF Spec, UrisInOrder
=============================================================================
