--------------------------- MODULE MessageStreams ---------------------------
(***************************************************************************)
(* The event stream of one assistant message: the generation that writes   *)
(* it, the pump that numbers and retains its events, and the SSE handlers  *)
(* that carry it to the browser tabs watching it.  A tab may lose its      *)
(* connection at any time and comes back with the id of the last event it  *)
(* got; a second tab takes the stream over from the first.                 *)
(*                                                                         *)
(* A tab gets what a handler writes at once, or never if its connection is *)
(* lost: bytes in flight when it drops are the same as bytes written       *)
(* before the handler notices.                                             *)
(***************************************************************************)
EXTENDS Integers, Sequences

CONSTANTS
    Tabs,        \* browser tabs that may watch the message
    MaxConns,    \* bound on the connections that exist at once
    Ring,        \* ringBufferCapacity
    Headroom,    \* live events a subscriber's channel holds (128)
    ProduceCap,  \* capacity of the producer's channel (128)
    MaxEvents,   \* bound on the events of the message
    MaxOpens,    \* bound on a user opening the message in a tab
    MaxDrops     \* bound on lost connections

Conns == 1..MaxConns
None == 0

ASSUME StreamAssumption ==
    /\ None \notin Tabs
    /\ MaxConns \in Nat /\ MaxEvents \in Nat /\ MaxOpens \in Nat /\ MaxDrops \in Nat
    /\ Ring \in Nat \ {0}
    /\ Headroom \in Nat /\ ProduceCap \in Nat

VARIABLES
    produce,     \* messageStream.produce, and whether the generation closed it
    endSent,     \* the id of the stream_end the generation has sent, or 0
    buf,         \* the ring buffer
    nextID,
    closed,      \* messageStream.closed
    subscriber,  \* the connection whose channel the pump feeds
    held,        \* StreamManager.streams still holds the message
    sse,         \* StreamManager.messageSSE: the registered connection
    conn,        \* per connection: its channels and its handler
    tab,         \* per tab: its connection, cursor and what it was sent
    opens,
    drops

generation == <<produce, endSent>>
streamVars == <<produce, endSent, buf, nextID, closed, subscriber, held, sse, conn,
                tab, opens, drops>>

\* Numbered events, and the unnumbered report of a range that cannot be replayed.
Numbered(id, kind) == [id |-> id, kind |-> kind, from |-> 0, to |-> 0]
Gap(from, to) == [id |-> 0, kind |-> "gap", from |-> from, to |-> to]

\* A connection nobody uses.
NoConn == [at |-> "free", tab |-> None, cursor |-> 0, ch |-> <<>>, cap |-> 0, open |-> FALSE,
           closure |-> "none", taken |-> FALSE, wrote |-> "none"]

StreamInit ==
    /\ produce = [q |-> <<>>, open |-> TRUE]
    /\ endSent = 0
    /\ buf = <<>>
    /\ nextID = 1
    /\ closed = FALSE
    /\ subscriber = None
    /\ held = TRUE
    /\ sse = None
    /\ conn = [c \in Conns |-> NoConn]
    /\ tab = [t \in Tabs |-> [at |-> "shut", conn |-> None, cursor |-> 0, got |-> <<>>, told |-> {}]]
    /\ opens = 0
    /\ drops = 0

-----------------------------------------------------------------------------
(* The generation. *)

\* The generation sends an event, and stream_end last; the channel blocks when full.
\* A session broadcast (trySendEnvelope) is such an event when there is room for it,
\* also after the stream_end, and nothing at all when there is not.
Produce(kind) ==
    /\ produce.open
    /\ kind = "end" => endSent = 0
    /\ Len(produce.q) < ProduceCap
    /\ nextID + Len(produce.q) <= MaxEvents
    /\ produce' = [produce EXCEPT !.q = Append(@, kind)]
    /\ endSent' = IF kind = "end" THEN nextID + Len(produce.q) ELSE endSent
    /\ UNCHANGED <<buf, nextID, closed, subscriber, held, sse, conn, tab, opens, drops>>

\* generateResponse closes the channel on its way out.  A turn that never ran closes
\* it without a stream_end.
CloseProduce ==
    /\ produce.open
    /\ produce' = [produce EXCEPT !.open = FALSE]
    /\ UNCHANGED <<endSent, buf, nextID, closed, subscriber, held, sse, conn, tab, opens, drops>>

\* The grace period after the close has passed.
Cleanup ==
    /\ ~produce.open
    /\ held
    /\ held' = FALSE
    /\ UNCHANGED <<generation, buf, nextID, closed, subscriber, sse, conn, tab, opens, drops>>

-----------------------------------------------------------------------------
(* The pump. *)

\* closeSubscriberLocked: the reason is published before EOF.
Closed(r, reason) == [r EXCEPT !.open = FALSE, !.closure = reason]

\* A subscriber that is full silently misses the event.
ForwardDrops(evt) ==
    LET c == subscriber IN
    /\ conn' = IF c # None /\ Len(conn[c].ch) < conn[c].cap
               THEN [conn EXCEPT ![c].ch = Append(@, evt)] ELSE conn
    /\ UNCHANGED subscriber

\* Number the event, retain it, and forward it without blocking: a subscriber whose
\* channel is full is closed, so that its client comes back for a replay.
Forward(evt) ==
    LET c == subscriber IN
    \/ /\ c = None
       /\ UNCHANGED <<conn, subscriber>>
    \/ /\ c # None /\ Len(conn[c].ch) < conn[c].cap
       /\ conn' = [conn EXCEPT ![c].ch = Append(@, evt)]
       /\ UNCHANGED subscriber
    \/ /\ c # None /\ Len(conn[c].ch) >= conn[c].cap
       /\ conn' = [conn EXCEPT ![c] = Closed(@, "slow_consumer")]
       /\ subscriber' = None

\* A ring that holds one event too many.
RetainedOneMore(evt) == Append(IF Len(buf) > Ring THEN Tail(buf) ELSE buf, evt)

Retained(evt) == Append(IF Len(buf) >= Ring THEN Tail(buf) ELSE buf, evt)

Pump ==
    /\ produce.q # <<>>
    /\ LET evt == Numbered(nextID, Head(produce.q)) IN
       /\ buf' = Retained(evt)
       /\ Forward(evt)
    /\ nextID' = nextID + 1
    /\ produce' = [produce EXCEPT !.q = Tail(@)]
    /\ UNCHANGED <<endSent, closed, held, sse, tab, opens, drops>>

\* A pump that forgets its subscriber when the producer closes.
PumpEndsQuietly ==
    /\ ~produce.open /\ produce.q = <<>> /\ ~closed
    /\ closed' = TRUE
    /\ subscriber' = None
    /\ UNCHANGED <<generation, buf, nextID, held, sse, conn, tab, opens, drops>>

\* The producer closed and everything it sent is out.
PumpEnds ==
    /\ ~produce.open /\ produce.q = <<>> /\ ~closed
    /\ closed' = TRUE
    /\ conn' = IF subscriber = None THEN conn
               ELSE [conn EXCEPT ![subscriber] = Closed(@, "producer_closed")]
    /\ subscriber' = None
    /\ UNCHANGED <<generation, buf, nextID, held, sse, tab, opens, drops>>

-----------------------------------------------------------------------------
(* Connecting. *)

\* SubscribeSSETransport holds sseMu from RegisterSSE to subscribeTransport.
sseMu == \E c \in Conns : conn[c].at = "subscribe"

\* RegisterSSE: the registered connection is told of the takeover first.
RegisterSSE(t, c) ==
    /\ held /\ ~sseMu
    /\ conn[c].at = "free" /\ \A d \in 1..(c - 1) : conn[d].at # "free"
    /\ tab' = [tab EXCEPT ![t].at = "linked", ![t].conn = c]
    /\ conn' = [d \in Conns |->
                    IF d = c THEN [NoConn EXCEPT !.at = "subscribe", !.tab = t, !.cursor = tab[t].cursor]
                    ELSE IF d = sse THEN [conn[d] EXCEPT !.taken = TRUE]
                    ELSE conn[d]]
    /\ sse' = c
    /\ UNCHANGED <<generation, buf, nextID, closed, subscriber, held, drops>>

\* What a cursor has missed for good, and what can be replayed to it.
Missed(cursor) ==
    IF cursor > nextID - 1 THEN <<Gap(nextID, cursor)>>
    ELSE IF buf # <<>> /\ cursor < buf[1].id - 1 THEN <<Gap(cursor + 1, buf[1].id - 1)>>
    ELSE <<>>

\* A replay that starts one event early.
ReplayInclusive(cursor) ==
    LET n == CHOOSE n \in 0..Len(buf) : \A i \in DOMAIN buf : buf[i].id >= cursor <=> i > n
    IN  SubSeq(buf, n + 1, Len(buf))

\* The ids of the ring rise: those past the cursor follow the first n, whatever n is.
Replay(cursor) ==
    LET n == CHOOSE n \in 0..Len(buf) : \A i \in DOMAIN buf : buf[i].id > cursor <=> i > n
    IN  SubSeq(buf, n + 1, Len(buf))

\* A channel of fixed size.
CapacityFixed == Headroom

\* A channel for the replay and as many live events, and one more for the report.
Capacity == (IF Len(buf) > Headroom THEN Len(buf) ELSE Headroom) + 1

\* subscribeTransport: the replay is put into the channel under the lock, then the
\* channel becomes the subscriber in place of the previous one.
Subscribe(c) ==
    /\ conn[c].at = "subscribe"
    /\ LET ch == Missed(conn[c].cursor) \o Replay(conn[c].cursor)
           mine == [conn[c] EXCEPT !.at = "serve", !.ch = ch, !.cap = Capacity, !.open = ~closed,
                                   !.closure = IF closed THEN "producer_closed" ELSE "none"]
       IN conn' = [d \in Conns |->
                       IF d = c THEN mine
                       ELSE IF d = subscriber /\ ~closed THEN Closed(conn[d], "session_takeover")
                       ELSE conn[d]]
    /\ subscriber' = IF closed THEN subscriber ELSE c
    /\ UNCHANGED <<generation, buf, nextID, closed, held, sse, tab, opens, drops>>

\* A user opens the message in a tab, also in one that another tab displaced.
OpenTab(t) ==
    /\ opens < MaxOpens
    /\ tab[t].at \in {"shut", "displaced"}
    /\ \E c \in Conns : RegisterSSE(t, c)
    /\ opens' = opens + 1

\* A tab whose connection ended comes back by itself.
Reconnect(t) ==
    /\ tab[t].at = "away"
    /\ \E c \in Conns : RegisterSSE(t, c)
    /\ UNCHANGED opens

\* The stream is gone: the tab reads the stored message instead.
NotFound(t) ==
    /\ ~held
    /\ tab[t].at = "away"
    /\ tab' = [tab EXCEPT ![t].at = "stored"]
    /\ UNCHANGED <<generation, buf, nextID, closed, subscriber, held, sse, conn, opens, drops>>

\* The network drops a tab's connection; its handler has not noticed yet.
Drop(t) ==
    /\ drops < MaxDrops
    /\ tab[t].at = "linked"
    /\ tab' = [tab EXCEPT ![t].at = "away", ![t].conn = None]
    /\ drops' = drops + 1
    /\ UNCHANGED <<generation, buf, nextID, closed, subscriber, held, sse, conn, opens>>

-----------------------------------------------------------------------------
(* The handler of a connection: streamMessageEventsWithKeepalive. *)

Linked(c) == conn[c].tab # None /\ tab[conn[c].tab].conn = c

\* What a tab makes of an event: its id becomes the cursor, a gap is noted.
Receives(r, evt) ==
    [r EXCEPT !.got = IF evt.id > 0 THEN Append(@, evt.id) ELSE @,
              !.cursor = IF evt.id > 0 THEN evt.id ELSE @,
              !.told = @ \cup ((evt.from .. evt.to) \ {0}),
              !.at = IF evt.kind = "end" THEN "done" ELSE @,
              !.conn = IF evt.kind = "end" THEN None ELSE @]

\* The handler's last frame, after which it returns.
LastFrame(c, frame, at) ==
    /\ conn' = [conn EXCEPT ![c].at = "detach", ![c].wrote = frame]
    /\ tab' = IF Linked(c) THEN [tab EXCEPT ![conn[c].tab].at = at, ![conn[c].tab].conn = None] ELSE tab

Carry(c) ==
    LET evt == Head(conn[c].ch)  t == conn[c].tab IN
    /\ conn[c].at = "serve" /\ conn[c].ch # <<>>
    /\ conn' = [conn EXCEPT ![c].ch = Tail(@),
                            ![c].at = IF evt.kind = "end" THEN "detach" ELSE @,
                            ![c].wrote = IF evt.kind = "end" THEN "stream_end" ELSE @]
    /\ tab' = IF Linked(c) THEN [tab EXCEPT ![t] = Receives(@, evt)] ELSE tab
    /\ UNCHANGED <<generation, buf, nextID, closed, subscriber, held, sse, opens, drops>>

\* select may prefer the takeover to events that are ready.
Takeover(c) ==
    /\ conn[c].at = "serve" /\ conn[c].taken
    /\ LastFrame(c, "session_takeover", "displaced")
    /\ UNCHANGED <<generation, buf, nextID, closed, subscriber, held, sse, opens, drops>>

\* An EOF that is reported without looking at the takeover.
EOFFirst(c) ==
    /\ conn[c].at = "serve" /\ conn[c].ch = <<>> /\ ~conn[c].open
    /\ \/ conn[c].closure = "producer_closed" /\ LastFrame(c, "stream_end", "done")
       \/ conn[c].closure # "producer_closed" /\ LastFrame(c, "stream_closed", "away")
    /\ UNCHANGED <<generation, buf, nextID, closed, subscriber, held, sse, opens, drops>>

\* EOF: a takeover is still told first; then the published reason decides.
EOF(c) ==
    /\ conn[c].at = "serve" /\ conn[c].ch = <<>> /\ ~conn[c].open
    /\ \/ conn[c].taken /\ LastFrame(c, "session_takeover", "displaced")
       \/ ~conn[c].taken /\ conn[c].closure = "producer_closed" /\ LastFrame(c, "stream_end", "done")
       \/ ~conn[c].taken /\ conn[c].closure # "producer_closed" /\ LastFrame(c, "stream_closed", "away")
    /\ UNCHANGED <<generation, buf, nextID, closed, subscriber, held, sse, opens, drops>>

\* The request's context is done, or a write to it failed.
HangUp(c) ==
    /\ conn[c].at = "serve" /\ ~Linked(c)
    /\ conn' = [conn EXCEPT ![c].at = "detach"]
    /\ UNCHANGED <<generation, buf, nextID, closed, subscriber, held, sse, tab, opens, drops>>

\* MessageStreamSubscription.Cancel detaches exactly this observer, ...
Detach(c) ==
    /\ conn[c].at = "detach"
    /\ conn' = [conn EXCEPT ![c] = IF subscriber = c
                                   THEN Closed([@ EXCEPT !.at = "unregister"], "observer_detached")
                                   ELSE [@ EXCEPT !.at = "unregister"]]
    /\ subscriber' = IF subscriber = c THEN None ELSE subscriber
    /\ UNCHANGED <<generation, buf, nextID, closed, held, sse, tab, opens, drops>>

\* ... and leaves a successor's registration alone.
UnregisterSSE(c) ==
    /\ conn[c].at = "unregister"
    /\ sse' = IF sse = c THEN None ELSE sse
    /\ conn' = [conn EXCEPT ![c] = NoConn]
    /\ UNCHANGED <<generation, buf, nextID, closed, subscriber, held, tab, opens, drops>>

Serve(c) ==
    Subscribe(c) \/ Carry(c) \/ Takeover(c) \/ EOF(c) \/ HangUp(c) \/ Detach(c) \/ UnregisterSSE(c)

StreamNext ==
    \/ Produce("delta") \/ Produce("end") \/ CloseProduce \/ Cleanup
    \/ Pump \/ PumpEnds
    \/ \E t \in Tabs : OpenTab(t) \/ Reconnect(t) \/ NotFound(t) \/ Drop(t)
    \/ \E c \in Conns : Serve(c)

\* The pump and the handlers are goroutines that only block on each other; a
\* generation ends, and a tab that is away comes back, sooner or later.
StreamFairness ==
    /\ WF_streamVars(CloseProduce) /\ WF_streamVars(Pump) /\ WF_streamVars(PumpEnds)
    /\ \A t \in Tabs : SF_streamVars(Reconnect(t)) /\ WF_streamVars(NotFound(t))
    /\ \A c \in Conns : WF_streamVars(Serve(c))

StreamSpec == StreamInit /\ [][StreamNext]_streamVars /\ StreamFairness

-----------------------------------------------------------------------------
(* Properties. *)

Frame == [id : Nat, kind : {"delta", "end", "gap"}, from : Nat, to : Nat]
Connection ==
    [at : {"free", "subscribe", "serve", "detach", "unregister"}, tab : Tabs \cup {None},
     cursor : Nat, ch : Seq(Frame), cap : Nat, open : BOOLEAN,
     closure : {"none", "slow_consumer", "producer_closed", "session_takeover", "observer_detached"},
     taken : BOOLEAN, wrote : {"none", "session_takeover", "stream_end", "stream_closed"}]
Tab ==
    [at : {"shut", "linked", "away", "displaced", "done", "stored"}, conn : Conns \cup {None},
     cursor : Nat, got : Seq(Nat), told : SUBSET Nat]

\* Every variable has its type.
StreamTypeOK ==
    /\ produce \in [q : Seq({"delta", "end"}), open : BOOLEAN]
    /\ endSent \in Nat
    /\ buf \in Seq(Frame)
    /\ nextID \in Nat \ {0}
    /\ closed \in BOOLEAN
    /\ subscriber \in Conns \cup {None}
    /\ held \in BOOLEAN
    /\ sse \in Conns \cup {None}
    /\ conn \in [Conns -> Connection]
    /\ tab \in [Tabs -> Tab]
    /\ opens \in Nat
    /\ drops \in Nat

\* The events a tab has been sent, and those it has been told it will not be sent.
Accounted(t) == {tab[t].got[i] : i \in DOMAIN tab[t].got} \cup tab[t].told

\* "Silently dropping would lose events to an actively-connected client with no
\* recovery path": whatever connections are lost, overrun or taken over, a tab has
\* received or been told to miss every event up to its cursor, and, when it is told
\* that the stream has ended, every event there was before the end.
NoSilentLoss ==
    \A t \in Tabs :
        /\ 1..tab[t].cursor \subseteq Accounted(t)
        /\ tab[t].at = "done" =>
               \A i \in 1..(nextID - 1) : i \in Accounted(t) \/ (endSent # 0 /\ i > endSent)

\* Replays and live events join without overlap: a tab gets the events in order and
\* none of them twice.
InOrderOnce ==
    \A t \in Tabs : \A i \in DOMAIN tab[t].got : \A j \in 1..(i - 1) : tab[t].got[j] < tab[t].got[i]

\* "A takeover must reach the old browser even when select chooses EOF": a connection
\* replaced by another is never reported as a dropped one, which its tab would answer
\* by taking the stream back.
TakeoverTold ==
    \A c \in Conns : conn[c].closure = "session_takeover" => conn[c].wrote # "stream_closed"

\* The replay is sent under the stream's lock: it never waits for room.
ReplayFits ==
    \A c \in Conns : Len(conn[c].ch) <= conn[c].cap

\* A numbered event, or the report of a gap; the one stream_end has the id it was
\* sent with.
FrameOK(e) ==
    /\ e.id = 0 <=> e.kind = "gap"
    /\ e.id # 0 => e.from = 0 /\ e.to = 0
    /\ e.kind = "end" => e.id = endSent

\* The ring holds the last events, numbered without a gap, and what the producer's
\* channel holds comes after them.
RingOK ==
    /\ Len(buf) <= Ring
    /\ Len(buf) < nextID
    /\ buf = <<>> => nextID = 1
    /\ \A i \in DOMAIN buf : FrameOK(buf[i]) /\ buf[i].id = nextID - 1 - Len(buf) + i
    /\ \A i \in DOMAIN produce.q : produce.q[i] = "end" => endSent = nextID - 1 + i
    /\ closed => ~produce.open /\ produce.q = <<>>

\* A replaced connection knows of its successor, and only an open channel is fed.
ConnOK(c) ==
    /\ Len(conn[c].ch) <= conn[c].cap
    /\ \A i \in DOMAIN conn[c].ch : FrameOK(conn[c].ch[i])
    /\ conn[c].closure = "session_takeover" => conn[c].taken /\ conn[c].wrote # "stream_closed"
    /\ conn[c].closure = "producer_closed" => closed
    /\ conn[c].wrote = "stream_closed" => ~conn[c].open
    /\ conn[c].at \in {"subscribe", "serve"} => conn[c].wrote = "none"
    /\ conn[c].at = "subscribe" => sse = c
    /\ subscriber = c =>
           /\ conn[c].open /\ conn[c].at \in {"serve", "detach"} /\ ~closed
           /\ sse = c \/ conn[c].taken

\* The report that a channel starts with, if it does.
Reports(ch) == IF ch # <<>> /\ ch[1].id = 0 THEN 1 ELSE 0
Reported(ch) == IF ch # <<>> /\ ch[1].id = 0 THEN ch[1].from .. ch[1].to ELSE {}

\* The events after it are numbered from b + 1 on, and where they end.
Chain(ch, b) == \A i \in DOMAIN ch : i > Reports(ch) => ch[i].id = b + i - Reports(ch)
Reach(ch, b) == b + Len(ch) - Reports(ch)

\* What is in the channel of a tab's connection continues what the tab has, and goes
\* on to the last event if the connection is fed, or was to the end.
Continues(t, c) ==
    \E b \in 0..(nextID - 1) :
        /\ tab[t].cursor <= b
        /\ 1..b \subseteq Accounted(t) \cup Reported(conn[c].ch)
        /\ Chain(conn[c].ch, b)
        /\ Reach(conn[c].ch, b) < nextID
        /\ subscriber = c \/ conn[c].closure = "producer_closed" =>
               Reach(conn[c].ch, b) = nextID - 1

TabOK(t) ==
    /\ tab[t].at = "linked" <=> tab[t].conn # None
    /\ tab[t].conn # None =>
           LET c == tab[t].conn IN
           /\ conn[c].tab = t
           /\ conn[c].at \in {"subscribe", "serve"}
           /\ conn[c].at = "subscribe" => conn[c].cursor = tab[t].cursor
           /\ conn[c].at = "serve" => Continues(t, c)
    /\ tab[t].cursor < nextID
    /\ 1..tab[t].cursor \subseteq Accounted(t)
    /\ \A i \in DOMAIN tab[t].got : tab[t].got[i] <= tab[t].cursor
    /\ \A i \in DOMAIN tab[t].got : \A j \in 1..(i - 1) : tab[t].got[j] < tab[t].got[i]
    /\ tab[t].at = "done" =>
           \/ closed /\ 1..(nextID - 1) \subseteq Accounted(t)
           \/ endSent # 0 /\ 1..endSent \subseteq Accounted(t)

\* The inductive invariant of the stream: replay and live events join at one number
\* under the stream's lock, and stay joined whatever is dropped or taken over.
StreamInv ==
    /\ StreamTypeOK
    /\ RingOK
    /\ \A c \in Conns : ConnOK(c)
    /\ \A t \in Tabs : TabOK(t)

\* Every tab is done with the message in the end: it is told of the end or of a
\* takeover, or finds the stream gone and the message stored.
TabsSettle ==
    <>[](\A t \in Tabs : tab[t].at \in {"shut", "displaced", "done", "stored"})
=============================================================================
