---------------------------------- MODULE FanOut -----------------------------------
(***********************************************************************************)
(* The in-process fan-out: core/event_bus.py, core/broadcast.py and the two        *)
(* WebSocket handlers of api/v1/ws.py that read from them.  Messages of a topic    *)
(* are numbered in the order they are published.  Everything runs on one event     *)
(* loop, so an action is what the code does between two awaits.                    *)
(***********************************************************************************)
EXTENDS Integers, Sequences, FiniteSets

CONSTANTS
    Sockets,        \* WebSocket connections
    HubTopics,      \* topics of the BroadcastHub that /feed subscribes to
    BusTopics,      \* topics of the EventBus that /feed subscribes to
    Tick,           \* "market.tick", the bus topic /prices reads
    Slugs,          \* markets a tick can be about
    MarketOf,       \* the slug each socket asks for, should it be a /prices socket
    HubSize,        \* maxsize of a hub queue (32) and of a bus queue (256)
    BusSize,
    MaxPublished    \* per topic, the bound on the messages published on it

ASSUME FanOutAssumption ==
    /\ Tick \in BusTopics
    /\ HubTopics \cap BusTopics = {}
    /\ MarketOf \in [Sockets -> Slugs]
    /\ HubSize \in Nat \ {0} /\ BusSize \in Nat \ {0}
    /\ MaxPublished \in [HubTopics \cup BusTopics -> Nat]

Topics == HubTopics \cup BusTopics

NoSlug == "none"

\* What a message of a topic can be about, as far as any reader looks into it.
About(t) == IF t = Tick THEN Slugs ELSE {NoSlug}

VARIABLES
    published,      \* per topic, what each message is about
    stored,         \* how many ticks have their OddsSnapshot committed
    endpoint,       \* "feed" or "prices": the handler behind each socket
    phase,          \* where the handler of a socket is
    ready,          \* /feed: topics of `done` not handled yet
    sub,            \* per socket and topic, the queue and its getter
    snapshot,       \* /prices: how many ticks the snapshot read had seen
    shown           \* /prices: the newest tick whose price the client has

fanVars == <<published, stored, endpoint, phase, ready, sub, snapshot, shown>>

SizeOf(t) == IF t \in BusTopics THEN BusSize ELSE HubSize

TopicsOf(s) == IF endpoint[s] = "feed" THEN Topics ELSE {Tick}

Live == {"waiting", "sending", "keepalive"}

Subscribed(s, t) == phase[s] \in Live /\ t \in TopicsOf(s)

\* What is waiting for a subscriber, and what it has been given so far.  `getter` is
\* the message its get() task has completed with, 0 while the task still waits.
NewSub(t) ==
    [queue |-> <<>>, getter |-> 0, since |-> Len(published[t]),
     handed |-> 0, last |-> Len(published[t]), dropped |-> 0]

NoSub == [queue |-> <<>>, getter |-> 0, since |-> 0,
          handed |-> 0, last |-> 0, dropped |-> 0]

\* The newest of the first n ticks that is about market m, 0 if none is.
NewestTick(m, n) ==
    CHOOSE i \in 0..n :
        /\ i = 0 \/ published[Tick][i] = m
        /\ \A j \in i + 1..n : published[Tick][j] # m

FanInit ==
    /\ published = [t \in Topics |-> <<>>]
    /\ stored = 0
    /\ endpoint \in [Sockets -> {"feed", "prices"}]
    /\ phase = [s \in Sockets |-> "absent"]
    /\ ready = [s \in Sockets |-> {}]
    /\ sub = [s \in Sockets |-> [t \in Topics |-> NoSub]]
    /\ snapshot = [s \in Sockets |-> 0]
    /\ shown = [s \in Sockets |-> 0]

-------------------------------------------------------------------------------------
(* Publishing.                                                                     *)

\* Mutant: a queue is filled at its head, so it is drained newest first.
DeliveredInFront(t, r, n) ==
    IF Len(r.queue) < SizeOf(t) THEN [r EXCEPT !.queue = <<n>> \o @]
                                ELSE [r EXCEPT !.dropped = @ + 1]

\* Mutant: the bus refuses the new message, as the hub does.
DeliveredUnlessFull(t, r, n) ==
    IF Len(r.queue) < SizeOf(t) THEN [r EXCEPT !.queue = Append(@, n)]
                                ELSE [r EXCEPT !.dropped = @ + 1]

\* A full bus queue drops its oldest message, a full hub queue the new one.
Delivered(t, r, n) ==
    IF Len(r.queue) < SizeOf(t)
    THEN [r EXCEPT !.queue = Append(@, n)]
    ELSE IF t \in BusTopics
         THEN [r EXCEPT !.queue = Append(Tail(@), n), !.dropped = @ + 1]
         ELSE [r EXCEPT !.dropped = @ + 1]

Publish(t, m) ==
    LET n == Len(published[t]) + 1 IN
    /\ n <= MaxPublished[t]
    /\ published' = [published EXCEPT ![t] = Append(@, m)]
    /\ sub' = [s \in Sockets |->
                 [u \in Topics |->
                    IF u = t /\ Subscribed(s, t) THEN Delivered(t, sub[s][t], n)
                                                 ELSE sub[s][u]]]
    /\ UNCHANGED <<stored, endpoint, phase, ready, snapshot, shown>>

\* The pass that published the ticks commits the snapshots it added with them.
StoreSnapshots ==
    /\ stored < Len(published[Tick])
    /\ stored' = Len(published[Tick])
    /\ UNCHANGED <<published, endpoint, phase, ready, sub, snapshot, shown>>

-------------------------------------------------------------------------------------
(* Both handlers.                                                                  *)

\* A get() task that finds its queue non-empty takes the head when the loop runs it.
\* /feed has one such task per topic at all times, /prices only inside wait_for.
Resume(s, t) ==
    LET r == sub[s][t] IN
    /\ Subscribed(s, t)
    /\ endpoint[s] = "feed" \/ phase[s] = "waiting"
    /\ r.getter = 0 /\ r.queue # <<>>
    /\ sub' = [sub EXCEPT ![s][t].getter = Head(r.queue), ![s][t].queue = Tail(r.queue)]
    /\ UNCHANGED <<published, stored, endpoint, phase, ready, snapshot, shown>>

\* A send fails, or the server cancels the handler, whose `finally` unsubscribes.
Disconnect(s) ==
    /\ phase[s] # "absent"
    /\ phase' = [phase EXCEPT ![s] = "absent"]
    /\ ready' = [ready EXCEPT ![s] = {}]
    /\ sub' = [sub EXCEPT ![s] = [t \in Topics |-> NoSub]]
    /\ snapshot' = [snapshot EXCEPT ![s] = 0]
    /\ shown' = [shown EXCEPT ![s] = 0]
    /\ UNCHANGED <<published, stored, endpoint>>

\* The handler takes what the getter of topic t holds.
Taken(r) == [r EXCEPT !.getter = 0, !.handed = @ + 1, !.last = r.getter]

-------------------------------------------------------------------------------------
(* /feed.                                                                          *)

ConnectFeed(s) ==
    /\ endpoint[s] = "feed" /\ phase[s] = "absent"
    /\ phase' = [phase EXCEPT ![s] = "waiting"]
    /\ sub' = [sub EXCEPT ![s] = [t \in Topics |-> NewSub(t)]]
    /\ UNCHANGED <<published, stored, endpoint, ready, snapshot, shown>>

Completed(s) == {t \in Topics : sub[s][t].getter # 0}

\* Mutant: every getter is created anew each turn, as the comment at ws.py:138
\* warns, so what the others had taken is gone.
TakeUpAll(s, t, batch) ==
    /\ sub' = [sub EXCEPT ![s] =
                 [u \in Topics |-> IF u = t THEN Taken(sub[s][t])
                                            ELSE [sub[s][u] EXCEPT !.getter = 0]]]
    /\ ready' = [ready EXCEPT ![s] = {}]
    /\ phase' = [phase EXCEPT ![s] = "sending"]
    /\ UNCHANGED <<published, stored, endpoint, snapshot, shown>>

\* One turn of the loop over `done`, up to the send it awaits: only the getter whose
\* payload was taken is armed again.
TakeUp(s, t, batch) ==
    /\ sub' = [sub EXCEPT ![s][t] = Taken(@)]
    /\ ready' = [ready EXCEPT ![s] = batch \ {t}]
    /\ phase' = [phase EXCEPT ![s] = "sending"]
    /\ UNCHANGED <<published, stored, endpoint, snapshot, shown>>

Wake(s) ==
    /\ endpoint[s] = "feed" /\ phase[s] = "waiting"
    /\ \E t \in Completed(s) : TakeUp(s, t, Completed(s))

SentNext(s) ==
    /\ endpoint[s] = "feed" /\ phase[s] = "sending"
    /\ \E t \in ready[s] : TakeUp(s, t, ready[s])

SentLast(s) ==
    /\ phase[s] \in {"sending", "keepalive"}
    /\ ready[s] = {}
    /\ phase' = [phase EXCEPT ![s] = "waiting"]
    /\ UNCHANGED <<published, stored, endpoint, ready, sub, snapshot, shown>>

KeepAlive(s) ==
    /\ endpoint[s] = "feed" /\ phase[s] = "waiting"
    /\ Completed(s) = {}
    /\ phase' = [phase EXCEPT ![s] = "keepalive"]
    /\ UNCHANGED <<published, stored, endpoint, ready, sub, snapshot, shown>>

-------------------------------------------------------------------------------------
(* /prices.                                                                        *)

\* The newest committed snapshot is read, then accepted and sent, and only then does
\* the handler subscribe.
ReadSnapshot(s) ==
    /\ endpoint[s] = "prices" /\ phase[s] = "absent"
    /\ phase' = [phase EXCEPT ![s] = "snapshot"]
    /\ snapshot' = [snapshot EXCEPT ![s] = stored]
    /\ shown' = [shown EXCEPT ![s] = NewestTick(MarketOf[s], stored)]
    /\ UNCHANGED <<published, stored, endpoint, ready, sub>>

Subscribe(s) ==
    /\ phase[s] = "snapshot"
    /\ phase' = [phase EXCEPT ![s] = "waiting"]
    /\ sub' = [sub EXCEPT ![s][Tick] = NewSub(Tick)]
    /\ UNCHANGED <<published, stored, endpoint, ready, snapshot, shown>>

\* A tick about another market is skipped: /prices waits for the next one.
TakeTick(s) ==
    LET n == sub[s][Tick].getter
        mine == published[Tick][n] = MarketOf[s]
    IN
    /\ endpoint[s] = "prices" /\ phase[s] = "waiting"
    /\ n # 0
    /\ sub' = [sub EXCEPT ![s][Tick] = Taken(@)]
    /\ phase' = [phase EXCEPT ![s] = IF mine THEN "sending" ELSE "waiting"]
    /\ shown' = [shown EXCEPT ![s] = IF mine THEN n ELSE @]
    /\ UNCHANGED <<published, stored, endpoint, ready, snapshot>>

-------------------------------------------------------------------------------------
FanNext ==
    \/ StoreSnapshots
    \/ \E t \in Topics : \E m \in About(t) : Publish(t, m)
    \/ \E s \in Sockets :
          \/ \E t \in Topics : Resume(s, t)
          \/ ConnectFeed(s) \/ Wake(s) \/ SentNext(s) \/ SentLast(s) \/ KeepAlive(s)
          \/ ReadSnapshot(s) \/ Subscribe(s) \/ TakeTick(s)
          \/ Disconnect(s)

FanSpec == FanInit /\ [][FanNext]_fanVars

-------------------------------------------------------------------------------------
(* Properties.                                                                     *)

Sub == [queue : Seq(Nat \ {0}), getter : Nat, since : Nat, handed : Nat, last : Nat,
        dropped : Nat]

\* Queues never outgrow their maxsize, a topic waiting in `done` has a completed
\* getter, and only the handler of a connected /feed has such topics.
FanTypeOK ==
    /\ DOMAIN published = Topics /\ \A t \in Topics : published[t] \in Seq(About(t))
    /\ stored \in 0..Len(published[Tick])
    /\ endpoint \in [Sockets -> {"feed", "prices"}]
    /\ phase \in [Sockets -> Live \cup {"absent", "snapshot"}]
    /\ ready \in [Sockets -> SUBSET Topics]
    /\ sub \in [Sockets -> [Topics -> Sub]]
    /\ snapshot \in [Sockets -> Nat] /\ shown \in [Sockets -> Nat]
    /\ \A s \in Sockets, t \in Topics : Len(sub[s][t].queue) <= SizeOf(t)
    /\ \A s \in Sockets : \A t \in ready[s] :
          endpoint[s] = "feed" /\ phase[s] = "sending" /\ sub[s][t].getter # 0

\* What the subscriber was given last, what its getter holds and what its queue holds
\* are ever newer messages, all published since it subscribed: re-arming a getter
\* while others are still in `done`, and dropping at either end, never reorder or
\* repeat a message.
Ordered(r, n) ==
    /\ r.since <= r.last /\ r.last <= n /\ r.getter <= n
    /\ r.getter # 0 => r.last < r.getter
    /\ \A i \in DOMAIN r.queue : r.last < r.queue[i] /\ r.getter < r.queue[i]
    /\ \A i, j \in DOMAIN r.queue : i < j => r.queue[i] < r.queue[j]
    /\ \A i \in DOMAIN r.queue : r.queue[i] <= n

FeedInOrder ==
    \A s \in Sockets, t \in Topics :
        Subscribed(s, t) => Ordered(sub[s][t], Len(published[t]))

\* No message is lost on the way without being counted: since it subscribed, every
\* message of a topic was handed to the handler, is held by the getter, is queued, or
\* was dropped by a full queue.
Accounted(r, n) ==
    n - r.since =
        r.handed + (IF r.getter = 0 THEN 0 ELSE 1) + Len(r.queue) + r.dropped

EveryMessageAccounted ==
    \A s \in Sockets, t \in Topics :
        Subscribed(s, t) => Accounted(sub[s][t], Len(published[t]))

\* A client of /prices with nothing left to receive shows the newest tick of its
\* market, except in two windows the handler leaves open: the tick was published
\* before the handler subscribed and committed after it read the snapshot, or a full
\* queue of newer ticks, of any market, came after it.
Idle(s) ==
    /\ endpoint[s] = "prices" /\ phase[s] = "waiting"
    /\ sub[s][Tick].getter = 0 /\ sub[s][Tick].queue = <<>>

PricesAreCurrent ==
    \A s \in Sockets :
        LET count == Len(published[Tick])
            newest == NewestTick(MarketOf[s], count)
        IN  Idle(s) =>
              \/ shown[s] = newest
              \/ snapshot[s] < newest /\ newest <= sub[s][Tick].since
              \/ newest + BusSize <= count

=====================================================================================
