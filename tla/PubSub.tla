------------------------------- MODULE PubSub -------------------------------
(***************************************************************************)
(* MiniPubSub of mini_pubsub.py on one topic, with consumers that read     *)
(* through subscribe_iter, and the asynchronous publish of EventBus        *)
(* (event_bus.py), which walks a copy of the handlers and awaits each.     *)
(* The two of the Go runtime follow below.                                 *)
(***************************************************************************)
EXTENDS Integers, Sequences, SequencesExt, FiniteSetsExt, FiniteSets

CONSTANTS Subscriber, ChannelSize, MaxMessages, Handler
ASSUME ChannelAssumption == ChannelSize \in Nat

VARIABLES topic,                     \* the subscribed queues, in order
          queueOf, consumed,         \* per subscriber
          iterAt,                    \* subscriber -> "out", "in" or "left"
          publishedUpTo, heard,      \* heard: what was published while subscribed and not refused
          handlers,                  \* the bus: the handlers, in order
          unsubscribed,              \* handlers whose unsubscribe was called
          busAt, snapshot, busResults
pubsubVars == <<topic, queueOf, consumed, iterAt, publishedUpTo, heard,
                handlers, unsubscribed, busAt, snapshot, busResults>>
busVars == <<handlers, unsubscribed, busAt, snapshot, busResults>>
topicVars == <<topic, queueOf, consumed, iterAt, publishedUpTo, heard>>

PubSubInit ==
  /\ topic = <<>> /\ queueOf = [s \in Subscriber |-> <<>>] /\ consumed = [s \in Subscriber |-> <<>>]
  /\ iterAt = [s \in Subscriber |-> "out"]
  /\ publishedUpTo = 0 /\ heard = [s \in Subscriber |-> <<>>]
  /\ handlers = <<>> /\ unsubscribed = {} /\ busAt = 0 /\ snapshot = <<>> /\ busResults = <<>>

Subscribe(s) ==
  /\ iterAt[s] = "out" /\ iterAt' = [iterAt EXCEPT ![s] = "in"]
  /\ topic' = Append(topic, s)
  /\ UNCHANGED <<queueOf, consumed, publishedUpTo, heard, busVars>>

HasRoom(s) == Len(queueOf[s]) < ChannelSize
Publish ==
  /\ publishedUpTo < MaxMessages
  /\ publishedUpTo' = publishedUpTo + 1
  /\ LET reached == {s \in Subscriber : Contains(topic, s) /\ HasRoom(s)}
     IN  /\ queueOf' = [s \in Subscriber |-> IF s \in reached THEN Append(queueOf[s], publishedUpTo + 1) ELSE queueOf[s]]
         /\ heard' = [s \in Subscriber |-> IF s \in reached THEN Append(heard[s], publishedUpTo + 1) ELSE heard[s]]
  /\ UNCHANGED <<topic, consumed, iterAt, busVars>>

\* One turn of subscribe_iter.  After close the queue of a subscriber fills no more: the
\* iteration waits for ever.
Consume(s) ==
  /\ iterAt[s] = "in" /\ queueOf[s] # <<>>
  /\ consumed' = [consumed EXCEPT ![s] = Append(@, Head(queueOf[s]))]
  /\ queueOf' = [queueOf EXCEPT ![s] = Tail(@)]
  /\ UNCHANGED <<topic, iterAt, publishedUpTo, heard, busVars>>

Unsubscribe(s) ==
  /\ iterAt[s] = "in" /\ iterAt' = [iterAt EXCEPT ![s] = "left"]
  /\ topic' = SelectSeq(topic, LAMBDA q : q # s)
  /\ UNCHANGED <<queueOf, consumed, publishedUpTo, heard, busVars>>

ClosePubSub ==
  /\ topic # <<>> /\ topic' = <<>>
  /\ UNCHANGED <<queueOf, consumed, iterAt, publishedUpTo, heard, busVars>>
----------------------------------------------------------------------------
BusSubscribe(h) ==
  /\ ~Contains(handlers, h) /\ h \notin unsubscribed
  /\ handlers' = Append(handlers, h)
  /\ UNCHANGED <<unsubscribed, busAt, snapshot, busResults, topicVars>>

\* The function subscribe returned; a second call would raise ValueError.
BusUnsubscribe(h) ==
  /\ Contains(handlers, h)
  /\ handlers' = RemoveFirst(handlers, h) /\ unsubscribed' = unsubscribed \cup {h}
  /\ UNCHANGED <<busAt, snapshot, busResults, topicVars>>

\* publish_async starts: list(self._handlers.get(...)).
BusPublish ==
  /\ busAt = 0 /\ handlers # <<>>
  /\ snapshot' = handlers /\ busAt' = 1 /\ busResults' = <<>>
  /\ UNCHANGED <<handlers, unsubscribed, topicVars>>

\* One handler: what it returns or raises goes into the results.
StopAtException(outcome) == IF outcome = "raised" THEN Len(snapshot) + 1 ELSE busAt + 1
GoOn(outcome) == busAt + 1
CallHandler ==
  /\ busAt \in DOMAIN snapshot
  /\ \E outcome \in {"returned", "raised"} :
       /\ busResults' = Append(busResults, <<snapshot[busAt], outcome>>)
       /\ busAt' = GoOn(outcome)
  /\ UNCHANGED <<handlers, unsubscribed, snapshot, topicVars>>

BusPublished ==
  /\ busAt > Len(snapshot) /\ busAt' = 0 /\ snapshot' = <<>> /\ busResults' = <<>>
  /\ UNCHANGED <<handlers, unsubscribed, topicVars>>

TopicNext == (\E s \in Subscriber : Subscribe(s) \/ Consume(s) \/ Unsubscribe(s)) \/ Publish \/ ClosePubSub
BusNext == (\E h \in Handler : BusSubscribe(h) \/ BusUnsubscribe(h)) \/ BusPublish \/ CallHandler \/ BusPublished
PubSubSpec == PubSubInit /\ [][TopicNext \/ BusNext]_pubsubVars
----------------------------------------------------------------------------
\* A slow consumer loses messages only for itself, the newest ones, and only when its queue is
\* full; a handler that raises or leaves during a publication keeps no other from being called.
FanOutIsFair ==
  /\ \A s \in Subscriber : consumed[s] \o queueOf[s] = heard[s] /\ Len(queueOf[s]) <= ChannelSize
  /\ busAt > 0 /\ busAt > Len(snapshot) => [k \in DOMAIN busResults |-> busResults[k][1]] = snapshot
----------------------------------------------------------------------------
(***************************************************************************)
(* The publish and subscribe programs of the Go runtime, chosen by goBus:  *)
(* PubSub of mini_pubsub/impl.go on one topic, and the Broker of           *)
(* sse_server/sse.go with its HTTP handlers.  A step is what is done under *)
(* the mutex, an access to an atomic flag or an operation on a channel.    *)
(* A message is its publisher and a number.  A panic ends the process,     *)
(* except one of an HTTP handler, which net/http recovers.                 *)
(* Nobody calls Unsubscribe twice for one subscriber.  A publication comes *)
(* to its subscribers in any order (the Broker walks a map).  Close's      *)
(* sweep is one step: it holds the lock.  PublishTo needs a channel to     *)
(* send on, which the Broker gives to nobody.                              *)
(***************************************************************************)
CONSTANTS Publisher,
          GoBuffer,         \* the buffer each subscriber of PubSub asks for; 0 is a rendezvous
          BrokerBuffer,     \* 64 in the Broker
          MaxDeliveries     \* bounds publications times subscribers

VARIABLES goBus,
          goTable,      \* the subscribers in the map, guarded by mu
          goSub,        \* where the user of each subscriber is
          goFlagged,    \* subscribers whose closed flag is set
          goShut,       \* subscribers whose channel is closed
          goUnread,     \* how many of the messages in goHeard are still in the channel
          goClosed, goSwept,   \* closed is set; Close has closed what it found
          goPub,        \* the publication each publisher makes, or made last
          goSenders,    \* who is about to send, or blocked: to, msg, and sync for a goroutine
          goCancelled,  \* messages whose context was cancelled before the call returned
          goPanic,
          goHeard,      \* history: what went into each channel, in order
          goDropped,    \* history: what found the channel full, of each publisher's last message
          goLate        \* history: who had passed the check of Subscribe when Close began
goVars == <<goBus, goTable, goSub, goFlagged, goShut, goUnread, goClosed, goSwept, goPub,
            goSenders, goCancelled, goPanic, goHeard, goDropped, goLate>>

GoInit ==
  /\ goBus \in {"pubsub", "broker"}
  /\ goTable = {} /\ goSub = [s \in Subscriber |-> "new"]
  /\ goFlagged = {} /\ goShut = {} /\ goUnread = [s \in Subscriber |-> 0]
  /\ goClosed = FALSE /\ goSwept = FALSE
  /\ goPub = [p \in Publisher |-> [pc |-> "idle", sync |-> FALSE, n |-> 0, copy |-> {}, left |-> {}]]
  /\ goSenders = {} /\ goCancelled = {} /\ goPanic = "none"
  /\ goHeard = [s \in Subscriber |-> <<>>] /\ goDropped = {} /\ goLate = {}

goPublishing == <<goPub, goSenders, goCancelled, goDropped>>
goClosing == <<goClosed, goSwept, goLate>>
goChannels == <<goShut, goUnread, goHeard>>

Message(p) == <<p, goPub[p].n>>
Buffer(s) == IF goBus = "pubsub" THEN GoBuffer[s] ELSE BrokerBuffer

\* The bound: so many publications, for so many subscribers.
Published == MapThenSumSet(LAMBDA p : goPub[p].n, Publisher)
Comers == {s \in Subscriber : goSub[s] # "new"}
Within(publications, comers) == publications <= MaxDeliveries /\ publications * comers <= MaxDeliveries
MayPublish == Within(Published + 1, Cardinality(Comers))
MayCome == Within(Published, Cardinality(Comers) + 1)

GoesTo(s, pc) == goSub' = [goSub EXCEPT ![s] = pc]
Join(s) == goTable' = goTable \cup {s} /\ GoesTo(s, "in")
Leave(s) == goTable' = goTable \ {s} /\ GoesTo(s, "removed")

\* close(ch) panics if the channel is closed.
Shut(S) == IF S \cap goShut = {} THEN goShut' = goShut \cup S /\ UNCHANGED goPanic
                                 ELSE goPanic' = "close" /\ UNCHANGED goShut
----------------------------------------------------------------------------
(* PubSub: Subscribe, Unsubscribe, Close *)

\* The check of the closed flag.
SubscribeChecks(s) ==
  /\ goBus = "pubsub" /\ goSub[s] = "new" /\ MayCome /\ ~goClosed
  /\ GoesTo(s, "adding")
  /\ UNCHANGED <<goBus, goTable, goFlagged, goChannels, goClosing, goPublishing, goPanic>>

SubscribeAdds(s) ==
  /\ goSub[s] = "adding" /\ Join(s)
  /\ UNCHANGED <<goBus, goFlagged, goChannels, goClosing, goPublishing, goPanic>>

\* The consumer may go on reading while Unsubscribe runs and after it.
Reading(s) == goSub[s] = "in" \/ (goBus = "pubsub" /\ goSub[s] \notin {"new", "adding"})
GoConsume(s) ==
  /\ Reading(s) /\ goUnread[s] > 0
  /\ goUnread' = [goUnread EXCEPT ![s] = @ - 1]
  /\ UNCHANGED <<goBus, goTable, goSub, goFlagged, goShut, goHeard, goClosing, goPublishing, goPanic>>

\* Unsubscribe under the lock.
UnsubscribeRemoves(s) ==
  /\ goBus = "pubsub" /\ goSub[s] = "in" /\ Leave(s)
  /\ UNCHANGED <<goBus, goFlagged, goChannels, goClosing, goPublishing, goPanic>>

\* sub.Close()
UnsubscribeFlags(s) ==
  /\ goBus = "pubsub" /\ goSub[s] = "removed"
  /\ goFlagged' = goFlagged \cup {s} /\ GoesTo(s, "flagged")
  /\ UNCHANGED <<goBus, goTable, goChannels, goClosing, goPublishing, goPanic>>

\* The select of Unsubscribe: a message, or the end of a closed channel, is received and the
\* channel is left as it is; otherwise it is going to be closed.  A goroutine of PublishSync
\* may be waiting to hand a message over.
SelectReceives(s) ==
  /\ goSub[s] = "flagged" /\ (goUnread[s] > 0 \/ s \in goShut)
  /\ goUnread' = [goUnread EXCEPT ![s] = IF @ > 0 THEN @ - 1 ELSE 0]
  /\ GoesTo(s, "gone")
  /\ UNCHANGED <<goBus, goTable, goFlagged, goShut, goHeard, goClosing, goPublishing, goPanic>>

SelectMeets(s, x) ==
  /\ goSub[s] = "flagged" /\ x.to = s /\ x.sync /\ Buffer(s) = 0 /\ s \notin goShut
  /\ goSenders' = goSenders \ {x} /\ goHeard' = [goHeard EXCEPT ![s] = Append(@, x.msg)]
  /\ GoesTo(s, "gone")
  /\ UNCHANGED <<goBus, goTable, goFlagged, goShut, goUnread, goClosing, goPub, goCancelled, goDropped, goPanic>>

SelectDefaults(s) ==
  /\ goSub[s] = "flagged" /\ goUnread[s] = 0 /\ s \notin goShut
  /\ GoesTo(s, "closing")
  /\ UNCHANGED <<goBus, goTable, goFlagged, goChannels, goClosing, goPublishing, goPanic>>

UnsubscribeCloses(s) ==
  /\ goSub[s] = "closing" /\ GoesTo(s, "gone") /\ Shut({s})
  /\ UNCHANGED <<goBus, goTable, goFlagged, goUnread, goHeard, goClosing, goPublishing>>

CloseBegins ==
  /\ goBus = "pubsub" /\ ~goClosed /\ goClosed' = TRUE
  /\ goLate' = {s \in Subscriber : goSub[s] = "adding"}
  /\ UNCHANGED <<goBus, goTable, goSub, goFlagged, goChannels, goSwept, goPublishing, goPanic>>

CloseSweeps ==
  /\ goBus = "pubsub" /\ goClosed /\ ~goSwept /\ goSwept' = TRUE
  /\ goTable' = {} /\ goFlagged' = goFlagged \cup goTable /\ Shut(goTable)
  /\ UNCHANGED <<goBus, goSub, goUnread, goHeard, goClosed, goLate, goPublishing>>
----------------------------------------------------------------------------
(* Broker: a handler subscribes, writes and leaves, Close *)

HandlerSubscribes(s) ==
  /\ goBus = "broker" /\ goSub[s] = "new" /\ MayCome /\ Join(s)
  /\ UNCHANGED <<goBus, goFlagged, goChannels, goClosing, goPublishing, goPanic>>

\* Its client is gone, a write fails or the channel is closed: the deferred unsub removes the
\* channel under the lock and then closes it.
HandlerLeaves(s) ==
  /\ goBus = "broker" /\ goSub[s] = "in" /\ Leave(s)
  /\ UNCHANGED <<goBus, goFlagged, goChannels, goClosing, goPublishing, goPanic>>

\* After Close the channel is closed already and the handler panics.
HandlerCloses(s) ==
  /\ goBus = "broker" /\ goSub[s] = "removed" /\ GoesTo(s, "gone") /\ goShut' = goShut \cup {s}
  /\ UNCHANGED <<goBus, goTable, goFlagged, goUnread, goHeard, goClosing, goPublishing, goPanic>>

BrokerCloses ==
  /\ goBus = "broker" /\ ~goClosed /\ goClosed' = TRUE
  /\ goTable' = {} /\ Shut(goTable)
  /\ UNCHANGED <<goBus, goSub, goFlagged, goUnread, goHeard, goSwept, goLate, goPublishing>>
----------------------------------------------------------------------------
(* Publish and PublishSync *)

GoIdle(p) == goPub[p].pc = "idle"
Sending(p) == {x \in goSenders : x.msg = Message(p)}

PublishChecks(p) ==
  /\ goBus = "pubsub" /\ GoIdle(p) /\ MayPublish /\ ~goClosed
  /\ \E sync \in BOOLEAN :
       goPub' = [goPub EXCEPT ![p] = [pc |-> "checked", sync |-> sync, n |-> @.n + 1, copy |-> {}, left |-> {}]]
  /\ goDropped' = {x \in goDropped : x.msg[1] # p}
  /\ UNCHANGED <<goBus, goTable, goSub, goFlagged, goChannels, goClosing, goSenders, goCancelled, goPanic>>

\* The copy of the subscribers, under the read lock.
Walking(n, sync) == [pc |-> "walking", sync |-> sync, n |-> n, copy |-> goTable, left |-> goTable]
PublishCopies(p) ==
  /\ goPub[p].pc = "checked" /\ goPub' = [goPub EXCEPT ![p] = Walking(@.n, @.sync)]
  /\ UNCHANGED <<goBus, goTable, goSub, goFlagged, goChannels, goClosing, goSenders, goCancelled, goDropped, goPanic>>

\* The Broker's Publish, of an event or a heartbeat.
BrokerPublishes(p) ==
  /\ goBus = "broker" /\ GoIdle(p) /\ MayPublish
  /\ goPub' = [goPub EXCEPT ![p] = Walking(@.n + 1, FALSE)]
  /\ goDropped' = {x \in goDropped : x.msg[1] # p}
  /\ UNCHANGED <<goBus, goTable, goSub, goFlagged, goChannels, goClosing, goSenders, goCancelled, goPanic>>

\* Mutant: return where the loop says continue.
ReturnAtFlagged(p, s) == IF s \in goFlagged THEN {} ELSE goPub[p].left \ {s}
Continue(p, s) == goPub[p].left \ {s}

\* sub.closed.Load(): the subscriber is skipped, or sent to.  PublishSync sends from a goroutine
\* of its own and goes on at once.
LookAt(p, s) ==
  /\ goPub[p].pc = "walking" /\ s \in goPub[p].left
  /\ goPub[p].sync \/ Sending(p) = {}
  /\ goPub' = [goPub EXCEPT ![p].left = Continue(p, s)]
  /\ goSenders' = goSenders \cup (IF s \in goFlagged THEN {} ELSE {[to |-> s, msg |-> Message(p), sync |-> goPub[p].sync]})
  /\ UNCHANGED <<goBus, goTable, goSub, goFlagged, goChannels, goClosing, goCancelled, goDropped, goPanic>>

\* A send: into a buffer with room, to a reader that waits, or on a closed channel.
Send(x) ==
  LET s == x.to
      panics == s \in goShut
      enters == goUnread[s] < Buffer(s)
      meets == Buffer(s) = 0 /\ Reading(s)
  IN
  /\ panics \/ enters \/ meets
  /\ goSenders' = goSenders \ {x}
  /\ goPanic' = IF panics THEN "send" ELSE goPanic
  /\ goUnread' = IF enters /\ ~panics THEN [goUnread EXCEPT ![s] = @ + 1] ELSE goUnread
  /\ goHeard' = IF panics THEN goHeard ELSE [goHeard EXCEPT ![s] = Append(@, x.msg)]
  /\ UNCHANGED <<goBus, goTable, goSub, goFlagged, goShut, goClosing, goPub, goCancelled, goDropped>>

\* The default clause of Publish's select; PublishSync has none and blocks.
Drop(x) ==
  /\ ~x.sync /\ x.msg \notin goCancelled
  /\ x.to \notin goShut /\ goUnread[x.to] = Buffer(x.to)
  /\ goSenders' = goSenders \ {x} /\ goDropped' = goDropped \cup {x}
  /\ UNCHANGED <<goBus, goTable, goSub, goFlagged, goChannels, goClosing, goPub, goCancelled, goPanic>>

\* The clause <-ctx.Done(): Publish returns, PublishSync only loses this goroutine.
SendCancelled(x) ==
  /\ x.msg \in goCancelled
  /\ goSenders' = goSenders \ {x}
  /\ goPub' = IF x.sync THEN goPub ELSE [goPub EXCEPT ![x.msg[1]].pc = "idle"]
  /\ UNCHANGED <<goBus, goTable, goSub, goFlagged, goChannels, goClosing, goCancelled, goDropped, goPanic>>

\* The caller's context ends.  The Broker's publications have none.
ContextDone(p) ==
  /\ goBus = "pubsub" /\ Sending(p) # {} /\ goPub[p].pc = "walking" /\ Message(p) \notin goCancelled
  /\ goCancelled' = goCancelled \cup {Message(p)}
  /\ UNCHANGED <<goBus, goTable, goSub, goFlagged, goChannels, goClosing, goPub, goSenders, goDropped, goPanic>>

\* PublishSync waits for its goroutines or for the context, and leaves them behind then.
PublishReturns(p) ==
  /\ goPub[p].pc = "walking" /\ goPub[p].left = {}
  /\ Sending(p) = {} \/ (goPub[p].sync /\ Message(p) \in goCancelled)
  /\ goPub' = [goPub EXCEPT ![p].pc = "idle"]
  /\ UNCHANGED <<goBus, goTable, goSub, goFlagged, goChannels, goClosing, goSenders, goCancelled, goDropped, goPanic>>
----------------------------------------------------------------------------
GoNext ==
  /\ goPanic = "none"
  /\ \/ \E s \in Subscriber :
          \/ SubscribeChecks(s) \/ SubscribeAdds(s) \/ GoConsume(s)
          \/ UnsubscribeRemoves(s) \/ UnsubscribeFlags(s) \/ SelectReceives(s)
          \/ SelectDefaults(s) \/ UnsubscribeCloses(s)
          \/ HandlerSubscribes(s) \/ HandlerLeaves(s) \/ HandlerCloses(s)
     \/ CloseBegins \/ CloseSweeps \/ BrokerCloses
     \/ \E p \in Publisher :
          \/ PublishChecks(p) \/ PublishCopies(p) \/ BrokerPublishes(p)
          \/ (\E s \in Subscriber : LookAt(p, s)) \/ ContextDone(p) \/ PublishReturns(p)
     \/ \E x \in goSenders :
          \/ Send(x) \/ Drop(x) \/ SendCancelled(x) \/ \E s \in Subscriber : SelectMeets(s, x)
GoSpec == GoInit /\ [][GoNext]_goVars
----------------------------------------------------------------------------
\* A subscriber in the map has an open channel: a publication that begins after Unsubscribe or
\* Close has returned cannot panic, only one whose copy is older can.
TableIsOpen == goTable \cap (goShut \cup goFlagged) = {}

\* Unsubscribe and Close never close one channel twice, however they interleave; nor does the
\* Broker's Close close one that a handler closes.
ClosedOnce == goPanic # "close"

\* Whoever is subscribed to a closed PubSub had passed the check before Close began; nobody
\* closes that channel.
OnlyLateJoiners == goBus = "pubsub" /\ goSwept => goTable \subseteq goLate

\* A publication that returned without an error went into the channel of everyone it found
\* subscribed, except those who left and, for Publish, those whose channel was full: nobody
\* loses a message because somebody else is slow, leaves or is closed.
ReachesTheOthers ==
  \A p \in Publisher :
    GoIdle(p) /\ Message(p) \notin goCancelled =>
      \A s \in goPub[p].copy :
        \/ \E k \in DOMAIN goHeard[s] : goHeard[s][k] = Message(p)
        \/ s \in goFlagged
        \/ [to |-> s, msg |-> Message(p), sync |-> FALSE] \in goDropped

\* No message comes twice, and those of one publisher come in order, except that a goroutine
\* which an interrupted PublishSync has left behind may be overtaken.
HeardOnceInOrder ==
  \A s \in Subscriber : \A i, j \in DOMAIN goHeard[s] :
    i < j => LET a == goHeard[s][i] b == goHeard[s][j]
             IN  a # b /\ (a[1] = b[1] => a[2] < b[2] \/ b \in goCancelled)

GoFanOut == TableIsOpen /\ ClosedOnce /\ OnlyLateJoiners /\ ReachesTheOthers /\ HeardOnceInOrder
=============================================================================
