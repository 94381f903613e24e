--------------------------- MODULE RuntimeProofs ---------------------------
(***************************************************************************)
(* The programs of the Go and Python runtimes keep what they promise, for  *)
(* any number of clients, threads, items, tasks, tokens and calls.         *)
(***************************************************************************)
EXTENDS MiniRuntime, ThreadPool, AsyncLimits, Decorators, SentinelQueues, Memoize, FiniteSetTheorems, WellFoundedInduction, TLAPS

-----------------------------------------------------------------------------
(* Go's publish and subscribe programs                                     *)

Messages == Publisher \X Nat
Sends == [to : Subscriber, msg : Messages, sync : BOOLEAN]
GoTypes ==
  /\ goBus \in {"pubsub", "broker"}
  /\ goTable \subseteq Subscriber
  /\ goSub \in [Subscriber -> {"new", "adding", "in", "removed", "flagged", "closing", "gone"}]
  /\ goFlagged \subseteq Subscriber /\ goShut \subseteq Subscriber /\ goLate \subseteq Subscriber
  /\ goClosed \in BOOLEAN /\ goSwept \in BOOLEAN
  /\ goPub \in [Publisher -> [pc : {"idle", "checked", "walking"}, sync : BOOLEAN, n : Nat,
                              copy : SUBSET Subscriber, left : SUBSET Subscriber]]
  /\ goSenders \subseteq Sends /\ goDropped \subseteq Sends
  /\ goCancelled \subseteq Messages
  /\ goPanic \in {"none", "send", "close"}
  /\ goHeard \in [Subscriber -> Seq(Messages)]

-----------------------------------------------------------------------------
(* The subscribers                                                         *)

\* Whoever is in the map is subscribed and open.
Joined == \A s \in goTable : goSub[s] = "in" /\ s \notin goShut \cup goFlagged

\* A channel is open until its user has come, and while Unsubscribe is about to close it.
Open == \A s \in Subscriber :
  /\ goSub[s] \in {"new", "adding"} => s \notin goShut \cup goFlagged
  /\ goSub[s] = "closing" => s \notin goShut

\* Who is about to come after Close began, or has come after its sweep, is late.
Late == goBus = "pubsub" =>
  /\ goClosed => \A s \in Subscriber : goSub[s] = "adding" => s \in goLate
  /\ goSwept => goClosed /\ goTable \subseteq goLate

Users == Joined /\ Open /\ Late /\ goPanic # "close"
users == <<goBus, goTable, goSub, goFlagged, goShut, goClosing>>

-----------------------------------------------------------------------------
(* The messages on their way                                               *)

\* s heard the message.
HeardBy(s, m) == \E k \in DOMAIN goHeard[s] : goHeard[s][k] = m

\* The publication a send belongs to.
Of(x) == goPub[x.msg[1]]

\* One send: it belongs to the publication of its publisher, or to an earlier one that was
\* interrupted, and its subscriber has not heard the message.
SendOfItsPublication(x) ==
  /\ x.msg[2] <= Of(x).n
  /\ x.msg[2] = Of(x).n => x.sync = Of(x).sync
  /\ ~x.sync => Of(x).n = x.msg[2] /\ Of(x).pc = "walking"
  /\ x.msg[2] # Of(x).n \/ Of(x).pc # "walking" => x.msg \in goCancelled
  /\ ~HeardBy(x.to, x.msg)

OneAtATime == \A x, y \in goSenders : ~x.sync /\ x.msg = y.msg => x = y

\* A message that is not sent to s yet is neither heard by it nor on its way to it.
NotYet == \A p \in Publisher, s \in Subscriber :
  goPub[p].pc = "checked" \/ (goPub[p].pc = "walking" /\ s \in goPub[p].left) =>
    ~HeardBy(s, Message(p)) /\ \A x \in Sending(p) : x.to # s

HeardIsPublished == \A s \in Subscriber : \A k \in DOMAIN goHeard[s] :
  goHeard[s][k][2] <= goPub[goHeard[s][k][1]].n

OnTheirWay ==
  /\ \A x \in goSenders : SendOfItsPublication(x)
  /\ OneAtATime /\ NotYet /\ HeardIsPublished /\ HeardOnceInOrder
sends == <<goPub, goSenders, goCancelled, goHeard>>

-----------------------------------------------------------------------------
(* Everybody is reached                                                    *)

Reached(p, s) ==
  \/ HeardBy(s, Message(p))
  \/ s \in goFlagged
  \/ [to |-> s, msg |-> Message(p), sync |-> FALSE] \in goDropped

\* While a publication walks, who is neither reached nor being sent to is left to be looked at.
WillBeReached == goPanic = "none" => \A p \in Publisher :
  goPub[p].pc = "walking" /\ Message(p) \notin goCancelled =>
    \A s \in goPub[p].copy : s \in goPub[p].left \/ Reached(p, s) \/ \E x \in Sending(p) : x.to = s

GoInv == GoTypes /\ Users /\ OnTheirWay /\ WillBeReached /\ ReachesTheOthers

LEMMA GoInitInv == GoInit => GoInv
<1> SUFFICES ASSUME GoInit PROVE GoInv
  OBVIOUS
<1> USE DEF GoInit
<1>1. GoTypes
  <2>1. goHeard \in [Subscriber -> Seq(Messages)]
    OBVIOUS
  <2>2. goPub \in [Publisher -> [pc : {"idle", "checked", "walking"}, sync : BOOLEAN, n : Nat,
                                copy : SUBSET Subscriber, left : SUBSET Subscriber]]
    OBVIOUS
  <2> HIDE DEF GoInit
  <2> QED BY <2>1, <2>2 DEF GoTypes, GoInit
<1>2. Users
  BY DEF Users, Joined, Open, Late
<1>3. OnTheirWay
  BY DEF OnTheirWay, OneAtATime, NotYet, HeardIsPublished, HeardOnceInOrder, HeardBy, Sending
<1>4. WillBeReached /\ ReachesTheOthers
  BY DEF WillBeReached, ReachesTheOthers
<1> QED BY <1>1, <1>2, <1>3, <1>4 DEF GoInv

-----------------------------------------------------------------------------
(* The steps of users and of Close leave the publications as they are      *)

SubscriberStep(s) ==
  \/ SubscribeChecks(s) \/ SubscribeAdds(s) \/ GoConsume(s)
  \/ UnsubscribeRemoves(s) \/ UnsubscribeFlags(s) \/ SelectReceives(s)
  \/ SelectDefaults(s) \/ UnsubscribeCloses(s)
  \/ HandlerSubscribes(s) \/ HandlerLeaves(s) \/ HandlerCloses(s)
CloseStep == CloseBegins \/ CloseSweeps \/ BrokerCloses

LEMMA SubscriberKeepsPublications ==
    ASSUME NEW s \in Subscriber, GoTypes, SubscriberStep(s)
    PROVE  /\ UNCHANGED <<sends, goDropped>> /\ goFlagged \subseteq goFlagged'
           /\ goPanic # "none" => goPanic' # "none"
  BY DEF GoTypes, SubscriberStep, SubscribeChecks, SubscribeAdds, GoConsume, UnsubscribeRemoves,
         UnsubscribeFlags, SelectReceives, SelectDefaults, UnsubscribeCloses, HandlerSubscribes,
         HandlerLeaves, HandlerCloses, sends, goPublishing, goChannels, Shut

LEMMA CloseKeepsPublications ==
    ASSUME GoTypes, CloseStep
    PROVE  /\ UNCHANGED <<sends, goDropped>> /\ goFlagged \subseteq goFlagged'
           /\ goPanic # "none" => goPanic' # "none"
  BY DEF GoTypes, CloseStep, CloseBegins, CloseSweeps, BrokerCloses, sends, goPublishing,
         goChannels, Shut

LEMMA SubscriberKeepsUsers ==
    ASSUME NEW s \in Subscriber, GoTypes, Users, SubscriberStep(s)
    PROVE  /\ goTable' \subseteq Subscriber /\ goFlagged' \subseteq Subscriber
           /\ goShut' \subseteq Subscriber /\ goLate' \subseteq Subscriber
           /\ goSub' \in [Subscriber -> {"new", "adding", "in", "removed", "flagged", "closing", "gone"}]
           /\ goPanic' \in {"none", "send", "close"} /\ UNCHANGED <<goBus, goClosing>>
           /\ Users'
<1> USE DEF GoTypes, Users, Joined, Open, Late, GoesTo, goChannels, goClosing
<1>1. CASE SubscribeChecks(s)
  BY <1>1 DEF SubscribeChecks
<1>2. CASE SubscribeAdds(s)
  BY <1>2 DEF SubscribeAdds, Join
<1>3. CASE GoConsume(s)
  BY <1>3 DEF GoConsume
<1>4. CASE UnsubscribeRemoves(s) \/ HandlerLeaves(s)
  BY <1>4 DEF UnsubscribeRemoves, HandlerLeaves, Leave
<1>5. CASE UnsubscribeFlags(s)
  BY <1>5 DEF UnsubscribeFlags
<1>6. CASE SelectReceives(s)
  BY <1>6 DEF SelectReceives
<1>10. CASE SelectDefaults(s)
  BY <1>10 DEF SelectDefaults
<1>7. CASE UnsubscribeCloses(s)
  BY <1>7 DEF UnsubscribeCloses, Shut
<1>8. CASE HandlerSubscribes(s)
  BY <1>8 DEF HandlerSubscribes, Join
<1>9. CASE HandlerCloses(s)
  BY <1>9 DEF HandlerCloses
<1> QED BY <1>1, <1>2, <1>3, <1>4, <1>5, <1>6, <1>7, <1>8, <1>9, <1>10 DEF SubscriberStep

LEMMA CloseKeepsUsers ==
    ASSUME GoTypes, Users, CloseStep
    PROVE  /\ goTable' \subseteq Subscriber /\ goFlagged' \subseteq Subscriber
           /\ goShut' \subseteq Subscriber /\ goLate' \subseteq Subscriber
           /\ goClosed' \in BOOLEAN /\ goSwept' \in BOOLEAN
           /\ goPanic' \in {"none", "send", "close"} /\ UNCHANGED <<goBus, goSub>>
           /\ Users'
<1> USE DEF GoTypes, Users, Joined, Open, Late, goChannels, Shut
<1>1. CASE CloseBegins
  BY <1>1 DEF CloseBegins
<1>2. CASE CloseSweeps
  BY <1>2 DEF CloseSweeps
<1>3. CASE BrokerCloses
  BY <1>3 DEF BrokerCloses
<1> QED BY <1>1, <1>2, <1>3 DEF CloseStep

\* A step that leaves the publications alone keeps what is said of them.
LEMMA StillOnTheirWay ==
    ASSUME GoInv, UNCHANGED <<sends, goDropped>>, goFlagged \subseteq goFlagged',
           goPanic # "none" => goPanic' # "none"
    PROVE  OnTheirWay' /\ WillBeReached' /\ ReachesTheOthers'
<1> USE DEF sends
<1>1. OnTheirWay'
  BY DEF GoInv, OnTheirWay, OneAtATime, NotYet, HeardIsPublished, HeardOnceInOrder, HeardBy,
         Sending, Message, SendOfItsPublication, Of
<1>2. \A p \in Publisher, s \in Subscriber : Reached(p, s) => Reached(p, s)'
  BY DEF Reached, HeardBy, Message
<1>3. WillBeReached'
  <2> SUFFICES ASSUME goPanic' = "none", NEW p \in Publisher, goPub[p].pc = "walking",
                      Message(p) \notin goCancelled, NEW s \in goPub[p].copy
               PROVE  (s \in goPub[p].left \/ Reached(p, s) \/ \E x \in Sending(p) : x.to = s)'
    BY DEF WillBeReached, Message
  <2>1. s \in Subscriber /\ Sending(p)' = Sending(p)
    BY DEF GoInv, GoTypes, Sending, Message
  <2>2. s \in goPub[p].left \/ Reached(p, s) \/ \E x \in Sending(p) : x.to = s
    BY DEF GoInv, WillBeReached
  <2> QED BY <1>2, <2>1, <2>2
<1>4. ReachesTheOthers'
  BY DEF GoInv, ReachesTheOthers, GoIdle, Message
<1> QED BY <1>1, <1>3, <1>4

-----------------------------------------------------------------------------
(* A publication begins                                                    *)

\* What of the invariant a step about publications alone does not touch.
LEMMA UsersStay ==
    ASSUME GoInv, UNCHANGED users, goPanic' \in {goPanic, "send"}
    PROVE  Users'
  BY DEF GoInv, Users, Joined, Open, Late, users, goClosing

\* The types of a message and of what is sent.
LEMMA SendTypes ==
    ASSUME GoTypes, NEW x \in goSenders
    PROVE  /\ x.to \in Subscriber /\ x.msg \in Messages /\ x.sync \in BOOLEAN
           /\ x.msg[1] \in Publisher /\ x.msg[2] \in Nat
           /\ x = [to |-> x.to, msg |-> x.msg, sync |-> x.sync]
           /\ x.msg = <<x.msg[1], x.msg[2]>>
  BY DEF GoTypes, Sends, Messages

LEMMA HeardTypes ==
    ASSUME GoTypes, NEW s \in Subscriber, NEW k \in DOMAIN goHeard[s]
    PROVE  /\ goHeard[s][k] \in Messages /\ goHeard[s][k][1] \in Publisher /\ goHeard[s][k][2] \in Nat
           /\ goHeard[s][k] = <<goHeard[s][k][1], goHeard[s][k][2]>>
<1>1. goHeard[s] \in Seq(Messages)
  BY DEF GoTypes
<1>2. goHeard[s][k] \in Messages
  BY <1>1
<1> QED BY <1>2 DEF Messages

\* The message that follows the last one of an idle publisher is new to everybody.
LEMMA NextIsNew ==
    ASSUME GoInv, NEW p \in Publisher
    PROVE  /\ \A s \in Subscriber : ~HeardBy(s, <<p, goPub[p].n + 1>>)
           /\ \A x \in goSenders : x.msg # <<p, goPub[p].n + 1>>
<1>1. goPub[p].n \in Nat
  BY DEF GoInv, GoTypes
<1>2. \A s \in Subscriber : ~HeardBy(s, <<p, goPub[p].n + 1>>)
  BY <1>1 DEF GoInv, OnTheirWay, HeardIsPublished, HeardBy
<1>3. \A x \in goSenders : x.msg # <<p, goPub[p].n + 1>>
  BY <1>1, SendTypes DEF GoInv, OnTheirWay, SendOfItsPublication, Of
<1> QED BY <1>2, <1>3

\* PublishChecks and the Broker's Publish go on to the next message.
NewPublication(p, r) ==
  /\ goPub' = [goPub EXCEPT ![p] = r]
  /\ r.n = goPub[p].n + 1 /\ r.copy = r.left
  /\ goDropped' = {x \in goDropped : x.msg[1] # p}
  /\ UNCHANGED <<users, goSenders, goCancelled, goHeard, goPanic>>

LEMMA PublicationBegins ==
    ASSUME GoInv, NEW p \in Publisher, GoIdle(p),
           NEW r \in [pc : {"checked", "walking"}, sync : BOOLEAN, n : Nat,
                      copy : SUBSET Subscriber, left : SUBSET Subscriber],
           NewPublication(p, r)
    PROVE  GoInv'
<1> USE DEF NewPublication, users, goClosing
<1>1. GoTypes'
  BY DEF GoInv, GoTypes
<1>2. Users'
  BY UsersStay
<1>3. \A q \in Publisher : q # p => goPub'[q] = goPub[q] /\ Message(q)' = Message(q)
  BY DEF GoInv, GoTypes, Message
<1>4. goPub'[p] = r /\ Message(p)' = <<p, goPub[p].n + 1>> /\ goPub[p].n \in Nat
  BY DEF GoInv, GoTypes, Message
<1>5. OnTheirWay'
  <2>1. \A x \in goSenders : SendOfItsPublication(x)'
    <3> SUFFICES ASSUME NEW x \in goSenders PROVE SendOfItsPublication(x)'
      OBVIOUS
    <3>1. SendOfItsPublication(x) /\ x.msg[1] \in Publisher /\ x.msg[2] \in Nat
      BY SendTypes DEF GoInv, OnTheirWay
    <3>2. CASE x.msg[1] = p
      BY <3>1, <3>2, <1>4 DEF SendOfItsPublication, Of, GoIdle, HeardBy
    <3>3. CASE x.msg[1] # p
      BY <3>1, <3>3, <1>3 DEF SendOfItsPublication, Of, HeardBy
    <3> QED BY <3>2, <3>3
  <2>2. OneAtATime'
    BY DEF GoInv, OnTheirWay, OneAtATime
  <2>3. NotYet'
    <3> SUFFICES ASSUME NEW q \in Publisher, NEW s \in Subscriber,
                        goPub'[q].pc = "checked" \/ (goPub'[q].pc = "walking" /\ s \in goPub'[q].left)
                 PROVE  (~HeardBy(s, Message(q)) /\ \A x \in Sending(q) : x.to # s)'
      BY DEF NotYet
    <3>1. CASE q = p
      BY <3>1, <1>4, NextIsNew DEF HeardBy, Sending
    <3>2. CASE q # p
      BY <3>2, <1>3 DEF GoInv, OnTheirWay, NotYet, HeardBy, Sending
    <3> QED BY <3>1, <3>2
  <2>4. HeardIsPublished'
    <3> SUFFICES ASSUME NEW s \in Subscriber, NEW k \in DOMAIN goHeard[s]
                 PROVE  goHeard[s][k][2] <= goPub'[goHeard[s][k][1]].n
      BY DEF HeardIsPublished
    <3>1. goHeard[s][k][1] \in Publisher /\ goHeard[s][k][2] \in Nat
      BY HeardTypes DEF GoInv
    <3>2. goHeard[s][k][2] <= goPub[goHeard[s][k][1]].n
      BY DEF GoInv, OnTheirWay, HeardIsPublished
    <3> QED BY <3>1, <3>2, <1>3, <1>4
  <2>5. HeardOnceInOrder'
    BY DEF GoInv, OnTheirWay, HeardOnceInOrder
  <2> QED BY <2>1, <2>2, <2>3, <2>4, <2>5 DEF OnTheirWay
<1>6. \A q \in Publisher, s \in Subscriber : q # p /\ Reached(q, s) => Reached(q, s)'
  BY <1>3 DEF Reached, HeardBy, Message
<1>7. WillBeReached'
  <2> SUFFICES ASSUME goPanic = "none", NEW q \in Publisher, goPub'[q].pc = "walking",
                      Message(q)' \notin goCancelled, NEW s \in goPub'[q].copy
               PROVE  (s \in goPub[q].left \/ Reached(q, s) \/ \E x \in Sending(q) : x.to = s)'
    BY DEF WillBeReached
  <2>1. CASE q = p
    BY <2>1, <1>4
  <2>2. CASE q # p
    <3>1. s \in Subscriber /\ Sending(q)' = Sending(q)
      BY <2>2, <1>3 DEF GoInv, GoTypes, Sending
    <3> QED BY <3>1, <2>2, <1>3, <1>6 DEF GoInv, WillBeReached
  <2> QED BY <2>1, <2>2
<1>8. ReachesTheOthers'
  <2> SUFFICES ASSUME NEW q \in Publisher, GoIdle(q)', Message(q)' \notin goCancelled, NEW s \in goPub'[q].copy
               PROVE  Reached(q, s)'
    BY DEF ReachesTheOthers, Reached, HeardBy
  <2>1. q # p /\ s \in Subscriber
    BY <1>3, <1>4 DEF GoInv, GoTypes, GoIdle
  <2>2. Reached(q, s)
    BY <2>1, <1>3 DEF GoInv, ReachesTheOthers, GoIdle, Reached, HeardBy
  <2> QED BY <2>1, <2>2, <1>6
<1> QED BY <1>1, <1>2, <1>5, <1>7, <1>8 DEF GoInv

LEMMA PublishChecksInv ==
    ASSUME GoInv, NEW p \in Publisher, PublishChecks(p)
    PROVE  GoInv'
<1>1. PICK sync \in BOOLEAN :
        goPub' = [goPub EXCEPT ![p] = [pc |-> "checked", sync |-> sync, n |-> @.n + 1, copy |-> {}, left |-> {}]]
  BY DEF PublishChecks
<1> DEFINE r == [pc |-> "checked", sync |-> sync, n |-> goPub[p].n + 1, copy |-> {}, left |-> {}]
<1>2. goPub[p].n \in Nat
  BY DEF GoInv, GoTypes
<1>3. r \in [pc : {"checked", "walking"}, sync : BOOLEAN, n : Nat,
              copy : SUBSET Subscriber, left : SUBSET Subscriber]
  BY <1>2
<1>4. NewPublication(p, r)
  BY <1>1 DEF NewPublication, PublishChecks, users, goClosing, goChannels
<1>5. GoIdle(p)
  BY DEF PublishChecks
<1> HIDE DEF r
<1> QED BY <1>3, <1>4, <1>5, PublicationBegins

LEMMA BrokerPublishesInv ==
    ASSUME GoInv, NEW p \in Publisher, BrokerPublishes(p)
    PROVE  GoInv'
<1> DEFINE r == Walking(goPub[p].n + 1, FALSE)
<1>1. goPub[p].n \in Nat /\ goTable \subseteq Subscriber
  BY DEF GoInv, GoTypes
<1>2. r \in [pc : {"checked", "walking"}, sync : BOOLEAN, n : Nat,
              copy : SUBSET Subscriber, left : SUBSET Subscriber]
  BY <1>1 DEF Walking
<1>3. NewPublication(p, r)
  BY DEF NewPublication, BrokerPublishes, users, goClosing, goChannels, Walking
<1>4. GoIdle(p)
  BY DEF BrokerPublishes
<1> HIDE DEF r
<1> QED BY <1>2, <1>3, <1>4, PublicationBegins

-----------------------------------------------------------------------------
(* A publication goes on                                                   *)

\* A step of p that changes its record only, not its number or what it asks for.
SamePublication(p) ==
  /\ \A q \in Publisher : q # p => goPub'[q] = goPub[q]
  /\ goPub'[p].n = goPub[p].n /\ goPub'[p].sync = goPub[p].sync
  /\ goPub' \in [Publisher -> [pc : {"idle", "checked", "walking"}, sync : BOOLEAN, n : Nat,
                               copy : SUBSET Subscriber, left : SUBSET Subscriber]]
  /\ UNCHANGED <<users, goPanic, goHeard, goDropped>>

LEMMA SameMessages ==
    ASSUME GoInv, NEW p \in Publisher, SamePublication(p)
    PROVE  /\ \A q \in Publisher : Message(q)' = Message(q)
           /\ \A q \in Publisher, s \in Subscriber : Reached(q, s)' = Reached(q, s)
           /\ HeardIsPublished' /\ Users'
<1>1. \A q \in Publisher : goPub'[q].n = goPub[q].n
  BY DEF SamePublication
<1>2. \A q \in Publisher : Message(q)' = Message(q)
  BY <1>1 DEF Message
<1>3. \A q \in Publisher, s \in Subscriber : Reached(q, s)' = Reached(q, s)
  BY <1>2 DEF Reached, HeardBy, SamePublication, users
<1>4. HeardIsPublished'
  <2> SUFFICES ASSUME NEW s \in Subscriber, NEW k \in DOMAIN goHeard[s]
               PROVE  goHeard[s][k][2] <= goPub'[goHeard[s][k][1]].n
    BY DEF HeardIsPublished, SamePublication
  <2>1. goHeard[s][k][1] \in Publisher
    BY HeardTypes DEF GoInv
  <2> QED BY <1>1, <2>1 DEF GoInv, OnTheirWay, HeardIsPublished
<1>5. Users'
  BY UsersStay DEF SamePublication
<1> QED BY <1>2, <1>3, <1>4, <1>5

LEMMA PublishCopiesInv ==
    ASSUME GoInv, NEW p \in Publisher, PublishCopies(p)
    PROVE  GoInv'
<1>1. /\ goPub[p].pc = "checked"
      /\ goPub' = [goPub EXCEPT ![p] = Walking(goPub[p].n, goPub[p].sync)]
      /\ UNCHANGED <<users, goSenders, goCancelled, goHeard, goDropped, goPanic>>
  BY DEF PublishCopies, users, goClosing, goChannels
<1>2. /\ goPub'[p] = [pc |-> "walking", sync |-> goPub[p].sync, n |-> goPub[p].n, copy |-> goTable, left |-> goTable]
      /\ goTable \subseteq Subscriber
  BY <1>1 DEF GoInv, GoTypes, Walking
<1>3. SamePublication(p)
  BY <1>1, <1>2 DEF GoInv, GoTypes, SamePublication
<1>4. GoTypes'
  BY <1>1, <1>3 DEF GoInv, GoTypes, SamePublication, users, goClosing
<1>5. \A q \in Publisher : Message(q)' = Message(q) /\ Sending(q)' = Sending(q)
  BY <1>1, <1>3, SameMessages DEF Sending
<1>6. OnTheirWay'
  <2>1. \A x \in goSenders : SendOfItsPublication(x)'
    <3> SUFFICES ASSUME NEW x \in goSenders PROVE SendOfItsPublication(x)'
      OBVIOUS
    <3>1. SendOfItsPublication(x) /\ x.msg[1] \in Publisher
      BY SendTypes DEF GoInv, OnTheirWay
    <3> QED BY <1>1, <1>2, <1>3, <3>1 DEF SendOfItsPublication, Of, HeardBy, SamePublication
  <2>2. OneAtATime' /\ HeardOnceInOrder'
    BY <1>1 DEF GoInv, OnTheirWay, OneAtATime, HeardOnceInOrder
  <2>3. NotYet'
    BY <1>1, <1>2, <1>3, <1>5 DEF GoInv, OnTheirWay, NotYet, HeardBy, SamePublication
  <2> QED BY <1>1, <1>3, <2>1, <2>2, <2>3, SameMessages DEF OnTheirWay
<1>7. WillBeReached'
  <2> SUFFICES ASSUME goPanic = "none", NEW q \in Publisher, goPub'[q].pc = "walking",
                      Message(q) \notin goCancelled, NEW s \in goPub'[q].copy
               PROVE  s \in goPub'[q].left \/ Reached(q, s)' \/ \E x \in Sending(q) : x.to = s
    BY <1>1, <1>5 DEF WillBeReached
  <2>1. CASE q = p
    BY <1>2, <2>1
  <2>2. CASE q # p
    <3>1. goPub'[q] = goPub[q] /\ s \in Subscriber
      BY <2>2, <1>3 DEF GoInv, GoTypes, SamePublication
    <3>2. s \in goPub[q].left \/ Reached(q, s) \/ \E x \in Sending(q) : x.to = s
      BY <3>1 DEF GoInv, WillBeReached
    <3> QED BY <1>3, <3>1, <3>2, SameMessages
  <2> QED BY <2>1, <2>2
<1>8. ReachesTheOthers'
  <2> SUFFICES ASSUME NEW q \in Publisher, GoIdle(q)', Message(q) \notin goCancelled, NEW s \in goPub'[q].copy
               PROVE  Reached(q, s)'
    BY <1>1, <1>5 DEF ReachesTheOthers, Reached, HeardBy
  <2>1. q # p /\ goPub'[q] = goPub[q] /\ s \in Subscriber
    BY <1>2, <1>3 DEF GoInv, GoTypes, GoIdle, SamePublication
  <2>2. Reached(q, s)
    BY <2>1 DEF GoInv, ReachesTheOthers, GoIdle, Reached, HeardBy
  <2> QED BY <1>3, <2>1, <2>2, SameMessages
<1> QED BY <1>3, <1>4, <1>6, <1>7, <1>8, SameMessages DEF GoInv

\* What LookAt does with one subscriber.
LEMMA LookAtInv ==
    ASSUME GoInv, NEW p \in Publisher, NEW s \in Subscriber, LookAt(p, s), goPanic = "none"
    PROVE  GoInv'
<1>0. PICK new : new = [to |-> s, msg |-> Message(p), sync |-> goPub[p].sync]
  OBVIOUS
<1>1. /\ goPub[p].pc = "walking" /\ s \in goPub[p].left
      /\ goPub[p].sync \/ Sending(p) = {}
      /\ goPub' = [goPub EXCEPT ![p].left = goPub[p].left \ {s}]
      /\ goSenders' = goSenders \cup (IF s \in goFlagged THEN {} ELSE {new})
      /\ UNCHANGED <<users, goCancelled, goHeard, goDropped, goPanic>>
  BY <1>0 DEF LookAt, Continue, users, goClosing, goChannels
<1>2. /\ goPub'[p].pc = "walking" /\ goPub'[p].left = goPub[p].left \ {s} /\ goPub'[p].copy = goPub[p].copy
      /\ goPub'[p].n = goPub[p].n /\ goPub'[p].sync = goPub[p].sync
      /\ goPub[p].n \in Nat /\ goPub[p].sync \in BOOLEAN /\ Message(p) \in Messages
  BY <1>1 DEF GoInv, GoTypes, Message, Messages
<1>3. SamePublication(p)
  BY <1>1, <1>2 DEF GoInv, GoTypes, SamePublication
<1>4. new \in Sends
  BY <1>0, <1>2 DEF Sends
<1>5. GoTypes'
  <2>1. goSenders' \subseteq Sends
    BY <1>1, <1>4 DEF GoInv, GoTypes
  <2> QED BY <1>1, <1>3, <2>1 DEF GoInv, GoTypes, SamePublication, users, goClosing
<1>6. /\ new.to = s /\ new.msg = Message(p) /\ new.sync = goPub[p].sync
      /\ new.msg[1] = p /\ new.msg[2] = goPub[p].n
  BY <1>0 DEF Message
<1>7. ~HeardBy(s, Message(p)) /\ \A x \in Sending(p) : x.to # s
  BY <1>1 DEF GoInv, OnTheirWay, NotYet
<1>8. \A x \in goSenders : SendOfItsPublication(x)'
  <2> SUFFICES ASSUME NEW x \in goSenders PROVE SendOfItsPublication(x)'
    OBVIOUS
  <2>1. SendOfItsPublication(x) /\ x.msg[1] \in Publisher
    BY SendTypes DEF GoInv, OnTheirWay
  <2> QED BY <1>1, <1>2, <1>3, <2>1 DEF SendOfItsPublication, Of, HeardBy, SamePublication
<1>9. SendOfItsPublication(new)'
  BY <1>1, <1>2, <1>6, <1>7 DEF SendOfItsPublication, Of, HeardBy
<1>10. OneAtATime'
  <2>1. ~goPub[p].sync => \A x \in goSenders : x.msg # Message(p)
    BY <1>1 DEF Sending
  <2>2. goPub[p].sync => \A x \in goSenders : ~x.sync => x.msg # Message(p)
    <3> SUFFICES ASSUME goPub[p].sync, NEW x \in goSenders, ~x.sync, x.msg = Message(p) PROVE FALSE
      OBVIOUS
    <3>1. x.msg[1] = p /\ x.msg[2] = goPub[p].n
      BY DEF Message
    <3> QED BY <3>1 DEF GoInv, OnTheirWay, SendOfItsPublication, Of
  <2> QED BY <1>1, <1>6, <2>1, <2>2 DEF GoInv, OnTheirWay, OneAtATime
<1>11. NotYet'
  <2> SUFFICES ASSUME NEW q \in Publisher, NEW t \in Subscriber,
                      goPub'[q].pc = "checked" \/ (goPub'[q].pc = "walking" /\ t \in goPub'[q].left)
               PROVE  (~HeardBy(t, Message(q)) /\ \A x \in Sending(q) : x.to # t)'
    BY DEF NotYet
  <2>1. ~HeardBy(t, Message(q)) /\ \A x \in Sending(q) : x.to # t
    BY <1>1, <1>2, <1>3 DEF GoInv, OnTheirWay, NotYet, SamePublication
  <2>2. Message(q)' = Message(q)
    BY <1>3, SameMessages
  <2>3. Message(q) = Message(p) => q = p
    BY DEF Message
  <2>4. q = p => t # s
    BY <1>2
  <2> QED BY <1>1, <1>6, <2>1, <2>2, <2>3, <2>4 DEF HeardBy, Sending
<1>12. OnTheirWay'
  <2>1. HeardOnceInOrder'
    BY <1>1 DEF GoInv, OnTheirWay, HeardOnceInOrder
  <2> QED BY <1>1, <1>3, <1>8, <1>9, <1>10, <1>11, <2>1, SameMessages DEF OnTheirWay
<1>13. WillBeReached'
  <2> SUFFICES ASSUME NEW q \in Publisher, goPub'[q].pc = "walking",
                      Message(q) \notin goCancelled, NEW t \in goPub'[q].copy
               PROVE  (t \in goPub[q].left \/ Reached(q, t) \/ \E x \in Sending(q) : x.to = t)'
    BY <1>1, <1>3, SameMessages DEF WillBeReached
  <2>1. t \in Subscriber /\ goPub[q].pc = "walking" /\ t \in goPub[q].copy
    BY <1>1, <1>2, <1>3 DEF GoInv, GoTypes, SamePublication
  <2>2. t \in goPub[q].left \/ Reached(q, t) \/ \E x \in Sending(q) : x.to = t
    BY <2>1 DEF GoInv, WillBeReached
  <2>3. Reached(q, t)' = Reached(q, t) /\ Sending(q) \subseteq Sending(q)'
    BY <1>1, <1>3, <2>1, SameMessages DEF Sending
  <2>4. CASE q = p /\ t = s
    <3>1. CASE s \in goFlagged
      BY <2>3, <2>4, <3>1 DEF Reached
    <3>2. CASE s \notin goFlagged
      BY <1>1, <1>3, <1>6, <2>4, <3>2, SameMessages DEF Sending
    <3> QED BY <3>1, <3>2
  <2>5. CASE ~(q = p /\ t = s)
    BY <1>2, <1>3, <2>2, <2>3, <2>5 DEF SamePublication
  <2> QED BY <2>4, <2>5
<1>14. ReachesTheOthers'
  <2> SUFFICES ASSUME NEW q \in Publisher, GoIdle(q)', Message(q) \notin goCancelled, NEW t \in goPub'[q].copy
               PROVE  Reached(q, t)'
    BY <1>1, <1>3, SameMessages DEF ReachesTheOthers, Reached, HeardBy
  <2>1. q # p /\ goPub'[q] = goPub[q] /\ t \in Subscriber
    BY <1>2, <1>3 DEF GoInv, GoTypes, GoIdle, SamePublication
  <2>2. Reached(q, t)
    BY <2>1 DEF GoInv, ReachesTheOthers, GoIdle, Reached, HeardBy
  <2> QED BY <1>3, <2>1, <2>2, SameMessages
<1> QED BY <1>3, <1>5, <1>12, <1>13, <1>14, SameMessages DEF GoInv

LEMMA ContextDoneInv ==
    ASSUME GoInv, NEW p \in Publisher, ContextDone(p)
    PROVE  GoInv'
<1>1. /\ goCancelled' = goCancelled \cup {Message(p)}
      /\ UNCHANGED <<users, goPub, goSenders, goHeard, goDropped, goPanic>>
  BY DEF ContextDone, users, goClosing, goChannels
<1>2. Message(p) \in Messages
  BY DEF GoInv, GoTypes, Message, Messages
<1>3. GoTypes'
  BY <1>1, <1>2 DEF GoInv, GoTypes, users, goClosing
<1>4. OnTheirWay'
  BY <1>1 DEF GoInv, OnTheirWay, SendOfItsPublication, Of, OneAtATime, NotYet, HeardIsPublished,
              HeardOnceInOrder, HeardBy, Sending, Message
<1>7. \A q \in Publisher : Message(q)' = Message(q) /\ Sending(q)' = Sending(q)
  BY <1>1 DEF Message, Sending
<1>8. \A q \in Publisher, s \in Subscriber : Reached(q, s)' = Reached(q, s)
  BY <1>1, <1>7 DEF Reached, HeardBy, users
<1>5. WillBeReached' /\ ReachesTheOthers'
  <2>1. WillBeReached'
    <3> SUFFICES ASSUME goPanic = "none", NEW q \in Publisher, goPub[q].pc = "walking",
                        Message(q) \notin goCancelled, NEW s \in goPub[q].copy
                 PROVE  s \in goPub[q].left \/ Reached(q, s)' \/ \E x \in Sending(q) : x.to = s
      BY <1>1, <1>7 DEF WillBeReached
    <3> QED BY <1>8 DEF GoInv, GoTypes, WillBeReached
  <2>2. ReachesTheOthers'
    BY <1>1, <1>7 DEF GoInv, ReachesTheOthers, GoIdle, users
  <2> QED BY <2>1, <2>2
<1>6. Users'
  BY <1>1, UsersStay
<1> QED BY <1>3, <1>4, <1>5, <1>6 DEF GoInv

\* A publication is over, and those of its sends that are not have been cancelled.
LEMMA PublicationEnds ==
    ASSUME GoInv, NEW p \in Publisher, goPub[p].pc = "walking",
           goPub' = [goPub EXCEPT ![p].pc = "idle"],
           goSenders' \subseteq goSenders,
           Message(p) \in goCancelled \/ goPub[p].left = {},
           \A q \in Publisher : q # p => Sending(q) \subseteq goSenders',
           \A x \in goSenders' \cap Sending(p) : x.sync,
           Message(p) \in goCancelled \/ Sending(p) = {},
           UNCHANGED <<users, goCancelled, goHeard, goDropped, goPanic>>, goPanic = "none"
    PROVE  GoInv'
<1>1. /\ goPub'[p].pc = "idle" /\ goPub'[p].n = goPub[p].n /\ goPub'[p].sync = goPub[p].sync
      /\ goPub'[p].copy = goPub[p].copy
  BY DEF GoInv, GoTypes
<1>2. SamePublication(p)
  <2>1. goPub' \in [Publisher -> [pc : {"idle", "checked", "walking"}, sync : BOOLEAN, n : Nat,
                                copy : SUBSET Subscriber, left : SUBSET Subscriber]]
    <3>1. [goPub[p] EXCEPT !.pc = "idle"] \in [pc : {"idle", "checked", "walking"}, sync : BOOLEAN, n : Nat,
                                               copy : SUBSET Subscriber, left : SUBSET Subscriber]
      <4>1. goPub[p] \in [pc : {"idle", "checked", "walking"}, sync : BOOLEAN, n : Nat,
                          copy : SUBSET Subscriber, left : SUBSET Subscriber]
        BY DEF GoInv, GoTypes
      <4> QED BY <4>1
    <3>2. goPub' = [goPub EXCEPT ![p] = [goPub[p] EXCEPT !.pc = "idle"]]
      OBVIOUS
    <3> QED BY <3>1, <3>2 DEF GoInv, GoTypes
  <2>2. \A q \in Publisher : q # p => goPub'[q] = goPub[q]
    BY DEF GoInv, GoTypes
  <2> QED BY <1>1, <2>1, <2>2 DEF SamePublication
<1>3. GoTypes'
  BY <1>2 DEF GoInv, GoTypes, SamePublication, users, goClosing
<1>4. \A x \in goSenders' : SendOfItsPublication(x)'
  <2> SUFFICES ASSUME NEW x \in goSenders' PROVE SendOfItsPublication(x)'
    OBVIOUS
  <2>1. SendOfItsPublication(x) /\ x.msg[1] \in Publisher /\ x.msg = <<x.msg[1], x.msg[2]>>
    BY SendTypes DEF GoInv, OnTheirWay
  <2>2. CASE x.msg = Message(p)
    <3>1. x.msg[1] = p /\ x \in Sending(p) /\ x \in goSenders
      BY <2>2 DEF Message, Sending
    <3> QED BY <1>1, <2>1, <2>2, <3>1 DEF SendOfItsPublication, Of, HeardBy
  <2>3. CASE x.msg # Message(p)
    <3>1. x.msg[1] = p => x.msg[2] # goPub[p].n
      BY <2>1, <2>3 DEF Message
    <3> QED BY <1>1, <1>2, <2>1, <2>3, <3>1 DEF SendOfItsPublication, Of, HeardBy, SamePublication
  <2> QED BY <2>2, <2>3
<1>5. OnTheirWay'
  <2>1. OneAtATime' /\ HeardOnceInOrder'
    BY DEF GoInv, OnTheirWay, OneAtATime, HeardOnceInOrder
  <2>2. NotYet'
    <3> SUFFICES ASSUME NEW q \in Publisher, NEW t \in Subscriber,
                        goPub'[q].pc = "checked" \/ (goPub'[q].pc = "walking" /\ t \in goPub'[q].left)
                 PROVE  (~HeardBy(t, Message(q)) /\ \A x \in Sending(q) : x.to # t)'
      BY DEF NotYet
    <3>1. goPub'[q] = goPub[q] /\ Message(q)' = Message(q)
      BY <1>1, <1>2, SameMessages DEF SamePublication
    <3> QED BY <3>1 DEF GoInv, OnTheirWay, NotYet, HeardBy, Sending
  <2> QED BY <1>2, <1>4, <2>1, <2>2, SameMessages DEF OnTheirWay
<1>6. WillBeReached'
  <2> SUFFICES ASSUME NEW q \in Publisher, goPub'[q].pc = "walking",
                      Message(q) \notin goCancelled, NEW s \in goPub'[q].copy
               PROVE  (s \in goPub[q].left \/ Reached(q, s) \/ \E x \in Sending(q) : x.to = s)'
    BY <1>2, SameMessages DEF WillBeReached
  <2>1. q # p /\ goPub'[q] = goPub[q] /\ s \in Subscriber /\ Message(q)' = Message(q)
    BY <1>1, <1>2, SameMessages DEF GoInv, GoTypes, SamePublication
  <2>2. s \in goPub[q].left \/ Reached(q, s) \/ \E x \in Sending(q) : x.to = s
    BY <2>1 DEF GoInv, WillBeReached
  <2>3. Sending(q) \subseteq Sending(q)'
    BY <2>1 DEF Sending
  <2> QED BY <1>2, <2>1, <2>2, <2>3, SameMessages
<1>7. ReachesTheOthers'
  <2> SUFFICES ASSUME NEW q \in Publisher, GoIdle(q)', Message(q) \notin goCancelled, NEW s \in goPub'[q].copy
               PROVE  Reached(q, s)'
    BY <1>2, SameMessages DEF ReachesTheOthers, Reached, HeardBy
  <2>1. s \in Subscriber /\ s \in goPub[q].copy
    BY <1>1, <1>2 DEF GoInv, GoTypes, SamePublication
  <2>2. Reached(q, s)
    <3>1. CASE q = p
      BY <2>1, <3>1 DEF GoInv, WillBeReached
    <3>2. CASE q # p
      BY <1>2, <2>1, <3>2 DEF GoInv, ReachesTheOthers, GoIdle, Reached, HeardBy, SamePublication
    <3> QED BY <3>1, <3>2
  <2> QED BY <1>2, <2>1, <2>2, SameMessages
<1> QED BY <1>2, <1>3, <1>5, <1>6, <1>7, SameMessages DEF GoInv

LEMMA PublishReturnsInv ==
    ASSUME GoInv, NEW p \in Publisher, PublishReturns(p), goPanic = "none"
    PROVE  GoInv'
<1>1. /\ goPub[p].pc = "walking" /\ goPub[p].left = {}
      /\ Sending(p) = {} \/ (goPub[p].sync /\ Message(p) \in goCancelled)
      /\ goPub' = [goPub EXCEPT ![p].pc = "idle"]
      /\ UNCHANGED <<users, goSenders, goCancelled, goHeard, goDropped, goPanic>>
  BY DEF PublishReturns, users, goClosing, goChannels
<1>2. \A x \in Sending(p) : x.sync
  <2> SUFFICES ASSUME NEW x \in Sending(p) PROVE x.sync
    OBVIOUS
  <2>1. x \in goSenders /\ x.msg[1] = p /\ x.msg[2] = goPub[p].n
    BY DEF Sending, Message
  <2> QED BY <1>1, <2>1 DEF GoInv, OnTheirWay, SendOfItsPublication, Of
<1>3. \A q \in Publisher : Sending(q) \subseteq goSenders'
  BY <1>1 DEF Sending
<1> QED BY <1>1, <1>2, <1>3, PublicationEnds

-----------------------------------------------------------------------------
(* A send is over                                                          *)

\* Removing a send keeps what is said of the others.
LEMMA SendEnds ==
    ASSUME GoInv, NEW x \in goSenders, goSenders' = goSenders \ {x},
           UNCHANGED <<goPub, goCancelled, goHeard>>
    PROVE  OnTheirWay'
  BY DEF GoInv, OnTheirWay, OneAtATime, NotYet, HeardIsPublished, HeardOnceInOrder, HeardBy,
         Sending, Message, SendOfItsPublication, Of

LEMMA AppendIs ==
    ASSUME NEW h \in Seq(Messages), NEW m \in Messages
    PROVE  /\ Append(h, m) \in Seq(Messages) /\ Len(h) \in Nat
           /\ DOMAIN h = 1..Len(h) /\ DOMAIN Append(h, m) = 1..(Len(h) + 1)
           /\ \A k \in 1..Len(h) : Append(h, m)[k] = h[k]
           /\ Append(h, m)[Len(h) + 1] = m
  OBVIOUS

\* What HeardOnceInOrder says of two messages.
LEMMA InOrder ==
    ASSUME GoInv, NEW s \in Subscriber, NEW i \in DOMAIN goHeard[s], NEW j \in DOMAIN goHeard[s], i < j
    PROVE  /\ goHeard[s][i] # goHeard[s][j]
           /\ goHeard[s][i][1] = goHeard[s][j][1]
              => goHeard[s][i][2] < goHeard[s][j][2] \/ goHeard[s][j] \in goCancelled
  BY DEF GoInv, OnTheirWay, HeardOnceInOrder

\* A message goes into a channel, or from hand to hand.
HandsOver(x) ==
  /\ goSenders' = goSenders \ {x}
  /\ goHeard' = [goHeard EXCEPT ![x.to] = Append(goHeard[x.to], x.msg)]
  /\ UNCHANGED <<goPub, goCancelled, goDropped, goFlagged, goPanic>>

LEMMA HandsOverInv ==
    ASSUME GoInv, NEW x \in goSenders, HandsOver(x)
    PROVE  /\ goHeard' \in [Subscriber -> Seq(Messages)]
           /\ OnTheirWay' /\ WillBeReached' /\ ReachesTheOthers'
<1>1. /\ x.to \in Subscriber /\ x.msg \in Messages /\ x.sync \in BOOLEAN
      /\ x.msg[1] \in Publisher /\ x.msg[2] \in Nat /\ x.msg = <<x.msg[1], x.msg[2]>>
      /\ SendOfItsPublication(x)
  BY SendTypes DEF GoInv, OnTheirWay
<1> DEFINE h == goHeard[x.to]
<1>2. /\ h \in Seq(Messages) /\ goHeard'[x.to] = Append(h, x.msg)
      /\ \A s \in Subscriber : s # x.to => goHeard'[s] = goHeard[s]
      /\ goHeard \in [Subscriber -> Seq(Messages)]
  BY <1>1 DEF GoInv, GoTypes, HandsOver
<1>14. LET new == goHeard'[x.to]
       IN  /\ DOMAIN h = 1..Len(h) /\ DOMAIN new = 1..(Len(h) + 1) /\ Len(h) \in Nat
           /\ \A k \in 1..Len(h) : new[k] = h[k]
           /\ new[Len(h) + 1] = x.msg
  <2> HIDE DEF h
  <2> QED BY <1>1, <1>2, AppendIs
<1>3. goHeard' \in [Subscriber -> Seq(Messages)]
  BY <1>1, <1>2, AppendIs DEF HandsOver
<1>4. \A s \in Subscriber : \A m : HeardBy(s, m)' <=> HeardBy(s, m) \/ (s = x.to /\ m = x.msg)
  <2> SUFFICES ASSUME NEW s \in Subscriber, NEW m
               PROVE  HeardBy(s, m)' <=> HeardBy(s, m) \/ (s = x.to /\ m = x.msg)
    OBVIOUS
  <2>1. CASE s # x.to
    BY <1>2, <2>1 DEF HeardBy
  <2>2. CASE s = x.to
    <3>1. /\ DOMAIN h = 1..Len(h) /\ DOMAIN goHeard'[s] = 1..(Len(h) + 1) /\ Len(h) \in Nat
          /\ \A k \in 1..Len(h) : goHeard'[s][k] = h[k]
          /\ goHeard'[s][Len(h) + 1] = x.msg
      BY <1>14, <2>2
    <3>2. HeardBy(s, m)' <=> \E k \in 1..(Len(h) + 1) : goHeard'[s][k] = m
      BY <3>1 DEF HeardBy
    <3>3. HeardBy(s, m) <=> \E k \in 1..Len(h) : h[k] = m
      BY <2>2, <3>1 DEF HeardBy
    <3>4. 1..(Len(h) + 1) = (1..Len(h)) \cup {Len(h) + 1}
      BY <3>1
    <3> HIDE DEF h
    <3> QED BY <2>2, <3>1, <3>2, <3>3, <3>4
  <2> QED BY <2>1, <2>2
<1>5. \A y \in goSenders' : y \in goSenders /\ ~(y.to = x.to /\ y.msg = x.msg)
  <2> SUFFICES ASSUME NEW y \in goSenders, y # x, y.to = x.to, y.msg = x.msg PROVE FALSE
    BY DEF HandsOver
  <2>1. /\ y = [to |-> y.to, msg |-> y.msg, sync |-> y.sync] /\ y.sync \in BOOLEAN
        /\ x = [to |-> x.to, msg |-> x.msg, sync |-> x.sync]
    BY SendTypes DEF GoInv
  <2>2. x.sync # y.sync
    BY <2>1
  <2> QED BY <1>1, <2>1, <2>2 DEF GoInv, OnTheirWay, OneAtATime
<1>6. \A y \in goSenders' : SendOfItsPublication(y)'
  <2> SUFFICES ASSUME NEW y \in goSenders' PROVE SendOfItsPublication(y)'
    OBVIOUS
  <2>1. SendOfItsPublication(y) /\ y.to \in Subscriber
    BY <1>5, SendTypes DEF GoInv, OnTheirWay
  <2> QED BY <1>4, <1>5, <2>1 DEF SendOfItsPublication, Of, HandsOver
<1>7. NotYet'
  <2> SUFFICES ASSUME NEW q \in Publisher, NEW t \in Subscriber,
                      goPub[q].pc = "checked" \/ (goPub[q].pc = "walking" /\ t \in goPub[q].left)
               PROVE  ~HeardBy(t, Message(q))' /\ \A y \in Sending(q)' : y.to # t
    BY DEF NotYet, HandsOver, HeardBy, Message
  <2>1. ~HeardBy(t, Message(q)) /\ \A y \in Sending(q) : y.to # t
    BY DEF GoInv, OnTheirWay, NotYet
  <2> QED BY <1>4, <2>1 DEF Sending, HandsOver, Message
<1>8. HeardIsPublished'
  <2> SUFFICES ASSUME NEW s \in Subscriber, NEW k \in DOMAIN goHeard'[s]
               PROVE  goHeard'[s][k][2] <= goPub[goHeard'[s][k][1]].n
    BY DEF HeardIsPublished, HandsOver
  <2>1. PICK m : m = goHeard'[s][k]
    OBVIOUS
  <2>2. HeardBy(s, m) \/ m = x.msg
    BY <1>4, <2>1 DEF HeardBy
  <2> QED BY <1>1, <2>1, <2>2 DEF GoInv, OnTheirWay, HeardIsPublished, HeardBy, SendOfItsPublication, Of
<1>9. HeardOnceInOrder'
  <2> SUFFICES ASSUME NEW s \in Subscriber, NEW i \in DOMAIN goHeard'[s], NEW j \in DOMAIN goHeard'[s], i < j
               PROVE  /\ goHeard'[s][i] # goHeard'[s][j]
                      /\ goHeard'[s][i][1] = goHeard'[s][j][1]
                         => goHeard'[s][i][2] < goHeard'[s][j][2] \/ goHeard'[s][j] \in goCancelled
    BY DEF HeardOnceInOrder, HandsOver
  <2>1. CASE s # x.to
    <3>1. goHeard'[s] = goHeard[s]
      BY <1>2, <2>1
    <3> QED BY <3>1, InOrder
  <2>2. CASE s = x.to
    <3>1. /\ DOMAIN h = 1..Len(h) /\ DOMAIN goHeard'[s] = 1..(Len(h) + 1) /\ Len(h) \in Nat
          /\ \A k \in 1..Len(h) : goHeard'[s][k] = h[k]
          /\ goHeard'[s][Len(h) + 1] = x.msg
      BY <1>14, <2>2
    <3>2. CASE j # Len(h) + 1
      <4>1. i \in DOMAIN h /\ j \in DOMAIN h /\ goHeard'[s][i] = h[i] /\ goHeard'[s][j] = h[j]
        BY <3>1, <3>2
      <4> QED BY <2>2, <4>1, InOrder
    <3>3. CASE j = Len(h) + 1
      <4>1. i \in DOMAIN h /\ goHeard'[s][i] = h[i] /\ goHeard'[s][j] = x.msg
        BY <3>1, <3>3
      <4>2. h[i] # x.msg /\ h[i][2] \in Nat /\ h[i] = <<h[i][1], h[i][2]>>
        BY <1>1, <4>1, HeardTypes DEF GoInv, SendOfItsPublication, HeardBy
      <4>3. h[i][2] <= goPub[h[i][1]].n
        BY <1>1, <4>1 DEF GoInv, OnTheirWay, HeardIsPublished
      <4>4. ASSUME h[i][1] = x.msg[1] PROVE h[i][2] < x.msg[2] \/ x.msg \in goCancelled
        <5>1. h[i][2] # x.msg[2]
          BY <1>1, <4>2, <4>4
        <5> QED BY <1>1, <4>2, <4>3, <4>4, <5>1 DEF SendOfItsPublication, Of
      <4> QED BY <4>1, <4>2, <4>4
    <3> QED BY <3>2, <3>3
  <2> QED BY <2>1, <2>2
<1>10. OneAtATime'
  BY DEF GoInv, OnTheirWay, OneAtATime, HandsOver
<1>11. \A p \in Publisher, s \in Subscriber : Reached(p, s) => Reached(p, s)'
  BY <1>4 DEF Reached, HandsOver, Message, HeardBy
<1>12. WillBeReached'
  <2> SUFFICES ASSUME goPanic = "none", NEW p \in Publisher, goPub[p].pc = "walking",
                      Message(p) \notin goCancelled, NEW s \in goPub[p].copy
               PROVE  (s \in goPub[p].left \/ Reached(p, s) \/ \E y \in Sending(p) : y.to = s)'
    BY DEF WillBeReached, HandsOver, Message
  <2>1. s \in Subscriber /\ Sending(p)' = Sending(p) \ {x} /\ Message(p)' = Message(p)
    BY DEF GoInv, GoTypes, Sending, Message, HandsOver
  <2>2. s \in goPub[p].left \/ Reached(p, s) \/ \E y \in Sending(p) : y.to = s
    BY DEF GoInv, WillBeReached
  <2>3. x \in Sending(p) /\ x.to = s => HeardBy(s, Message(p))'
    BY <1>4, <2>1 DEF Sending
  <2>4. HeardBy(s, Message(p))' => Reached(p, s)'
    BY DEF Reached
  <2> QED BY <1>11, <2>1, <2>2, <2>3, <2>4 DEF HandsOver
<1>13. ReachesTheOthers'
  <2> SUFFICES ASSUME NEW p \in Publisher, GoIdle(p), Message(p) \notin goCancelled, NEW s \in goPub[p].copy
               PROVE  Reached(p, s)'
    BY DEF ReachesTheOthers, Reached, HeardBy, GoIdle, HandsOver, Message
  <2>1. s \in Subscriber /\ Reached(p, s)
    BY DEF GoInv, GoTypes, ReachesTheOthers, Reached, HeardBy
  <2> QED BY <1>11, <2>1
<1> QED BY <1>3, <1>6, <1>7, <1>8, <1>9, <1>10, <1>12, <1>13 DEF OnTheirWay

LEMMA SendInv ==
    ASSUME GoInv, NEW x \in goSenders, Send(x), goPanic = "none"
    PROVE  GoInv'
<1>1. UNCHANGED <<users, goPub, goCancelled, goDropped>> /\ goSenders' = goSenders \ {x}
  BY DEF Send, users, goClosing
<1>2. Users'
  BY <1>1, UsersStay DEF Send
<1>3. CASE x.to \in goShut
  <2>1. goPanic' = "send" /\ UNCHANGED goHeard
    BY <1>3 DEF Send
  <2>2. GoTypes'
    BY <1>1, <2>1 DEF GoInv, GoTypes, users, goClosing
  <2>3. OnTheirWay'
    BY <1>1, <2>1, SendEnds
  <2>4. WillBeReached' /\ ReachesTheOthers'
    BY <1>1, <2>1 DEF GoInv, WillBeReached, ReachesTheOthers, GoIdle, Message, users
  <2> QED BY <1>2, <2>2, <2>3, <2>4 DEF GoInv
<1>4. CASE x.to \notin goShut
  <2>1. HandsOver(x)
    BY <1>1, <1>4 DEF HandsOver, Send, users
  <2>2. GoTypes'
    BY <1>1, <2>1, HandsOverInv DEF GoInv, GoTypes, HandsOver, users, goClosing
  <2> QED BY <1>2, <2>1, <2>2, HandsOverInv DEF GoInv
<1> QED BY <1>3, <1>4

LEMMA SelectMeetsInv ==
    ASSUME GoInv, NEW x \in goSenders, NEW s \in Subscriber, SelectMeets(s, x)
    PROVE  GoInv'
<1>1. /\ x.to = s /\ goSub[s] = "flagged" /\ goSub' = [goSub EXCEPT ![s] = "gone"]
      /\ HandsOver(x)
      /\ UNCHANGED <<goBus, goTable, goFlagged, goShut, goClosed, goSwept, goLate, goPanic>>
  BY DEF SelectMeets, GoesTo, HandsOver, goClosing
<1>2. GoTypes'
  BY <1>1, HandsOverInv DEF GoInv, GoTypes, HandsOver
<1>3. Users'
  BY <1>1 DEF GoInv, GoTypes, Users, Joined, Open, Late
<1> QED BY <1>1, <1>2, <1>3, HandsOverInv DEF GoInv

LEMMA DropInv ==
    ASSUME GoInv, NEW x \in goSenders, Drop(x)
    PROVE  GoInv'
<1>1. /\ UNCHANGED <<users, goPub, goCancelled, goHeard, goPanic>>
      /\ goSenders' = goSenders \ {x} /\ goDropped' = goDropped \cup {x} /\ ~x.sync
  BY DEF Drop, users, goClosing, goChannels
<1>2. x = [to |-> x.to, msg |-> x.msg, sync |-> FALSE]
  BY <1>1, SendTypes DEF GoInv
<1>3. GoTypes' /\ Users' /\ OnTheirWay'
  BY <1>1, UsersStay, SendEnds DEF GoInv, GoTypes, users, goClosing
<1>4. \A p \in Publisher, s \in Subscriber : Reached(p, s) => Reached(p, s)'
  BY <1>1 DEF Reached, HeardBy, Message, users
<1>5. WillBeReached'
  <2> SUFFICES ASSUME goPanic = "none", NEW p \in Publisher, goPub[p].pc = "walking",
                      Message(p) \notin goCancelled, NEW s \in goPub[p].copy
               PROVE  (s \in goPub[p].left \/ Reached(p, s) \/ \E y \in Sending(p) : y.to = s)'
    BY <1>1 DEF WillBeReached, Message
  <2>1. s \in Subscriber /\ Sending(p)' = Sending(p) \ {x} /\ Message(p)' = Message(p)
    BY <1>1 DEF GoInv, GoTypes, Sending, Message
  <2>2. s \in goPub[p].left \/ Reached(p, s) \/ \E y \in Sending(p) : y.to = s
    BY DEF GoInv, WillBeReached
  <2>3. x \in Sending(p) /\ x.to = s => Reached(p, s)'
    BY <1>1, <1>2, <2>1 DEF Sending, Reached
  <2> QED BY <1>1, <1>4, <2>1, <2>2, <2>3
<1>6. ReachesTheOthers'
  BY <1>1 DEF GoInv, ReachesTheOthers, GoIdle, Message, users
<1> QED BY <1>3, <1>5, <1>6 DEF GoInv

LEMMA SendCancelledInv ==
    ASSUME GoInv, NEW x \in goSenders, SendCancelled(x), goPanic = "none"
    PROVE  GoInv'
<1>1. /\ UNCHANGED <<users, goCancelled, goHeard, goDropped, goPanic>>
      /\ goSenders' = goSenders \ {x} /\ x.msg \in goCancelled
      /\ goPub' = IF x.sync THEN goPub ELSE [goPub EXCEPT ![x.msg[1]].pc = "idle"]
  BY DEF SendCancelled, users, goClosing, goChannels
<1>2. x.msg[1] \in Publisher /\ x.msg = <<x.msg[1], x.msg[2]>> /\ SendOfItsPublication(x)
  BY SendTypes DEF GoInv, OnTheirWay
<1>3. CASE x.sync
  <2>1. UNCHANGED goPub
    BY <1>1, <1>3
  <2>2. GoTypes' /\ Users' /\ OnTheirWay'
    BY <1>1, <2>1, UsersStay, SendEnds DEF GoInv, GoTypes, users, goClosing
  <2>3. \A p \in Publisher, s \in Subscriber : Reached(p, s)' = Reached(p, s)
    BY <1>1, <2>1 DEF Reached, HeardBy, Message, users
  <2>4. WillBeReached'
    <3> SUFFICES ASSUME goPanic = "none", NEW p \in Publisher, goPub[p].pc = "walking",
                        Message(p) \notin goCancelled, NEW s \in goPub[p].copy
                 PROVE  (s \in goPub[p].left \/ Reached(p, s) \/ \E y \in Sending(p) : y.to = s)'
      BY <1>1, <2>1 DEF WillBeReached, Message
    <3>1. s \in Subscriber /\ Sending(p)' = Sending(p)
      BY <1>1, <2>1 DEF GoInv, GoTypes, Sending, Message
    <3>2. s \in goPub[p].left \/ Reached(p, s) \/ \E y \in Sending(p) : y.to = s
      BY DEF GoInv, WillBeReached
    <3> QED BY <2>1, <2>3, <3>1, <3>2
  <2>5. ReachesTheOthers'
    BY <1>1, <2>1 DEF GoInv, ReachesTheOthers, GoIdle, Message, users
  <2> QED BY <2>2, <2>4, <2>5 DEF GoInv
<1>4. CASE ~x.sync
  <2> DEFINE p == x.msg[1]
  <2>1. p \in Publisher /\ goPub[p].pc = "walking" /\ Message(p) = x.msg
    BY <1>2, <1>4 DEF SendOfItsPublication, Of, Message
  <2>2. goPub' = [goPub EXCEPT ![p].pc = "idle"]
    BY <1>1, <1>4
  <2>3. goSenders' \cap Sending(p) = {}
    BY <1>1, <1>4, <2>1 DEF GoInv, OnTheirWay, OneAtATime, Sending
  <2>4. \A q \in Publisher : q # p => Sending(q) \subseteq goSenders'
    BY <1>1, <2>1 DEF Sending, Message
  <2> HIDE DEF p
  <2> QED BY <1>1, <2>1, <2>2, <2>3, <2>4, PublicationEnds
<1> QED BY <1>2, <1>3, <1>4, SendTypes DEF GoInv

-----------------------------------------------------------------------------

LEMMA GoNextInv == GoInv /\ [GoNext]_goVars => GoInv'
<1> SUFFICES ASSUME GoInv, [GoNext]_goVars PROVE GoInv'
  OBVIOUS
<1>1. CASE UNCHANGED goVars
  <2>1. GoTypes' /\ Users'
    BY <1>1 DEF GoInv, GoTypes, Users, Joined, Open, Late, goVars
  <2> QED BY <1>1, <2>1, StillOnTheirWay DEF GoInv, goVars, sends
<1>2. ASSUME NEW s \in Subscriber, SubscriberStep(s) PROVE GoInv'
  <2>1. OnTheirWay' /\ WillBeReached' /\ ReachesTheOthers'
    BY <1>2, SubscriberKeepsPublications, StillOnTheirWay DEF GoInv
  <2>2. GoTypes' /\ Users'
    BY <1>2, SubscriberKeepsPublications, SubscriberKeepsUsers DEF GoInv, GoTypes, sends, goClosing
  <2> QED BY <2>1, <2>2 DEF GoInv
<1>3. ASSUME CloseStep PROVE GoInv'
  <2>1. OnTheirWay' /\ WillBeReached' /\ ReachesTheOthers'
    BY <1>3, CloseKeepsPublications, StillOnTheirWay DEF GoInv
  <2>2. GoTypes' /\ Users'
    BY <1>3, CloseKeepsPublications, CloseKeepsUsers DEF GoInv, GoTypes, sends
  <2> QED BY <2>1, <2>2 DEF GoInv
<1>4. ASSUME goPanic = "none", NEW p \in Publisher,
             \/ PublishChecks(p) \/ PublishCopies(p) \/ BrokerPublishes(p)
             \/ (\E s \in Subscriber : LookAt(p, s)) \/ ContextDone(p) \/ PublishReturns(p)
      PROVE  GoInv'
  BY <1>4, PublishChecksInv, PublishCopiesInv, BrokerPublishesInv, LookAtInv, ContextDoneInv, PublishReturnsInv
<1>5. ASSUME goPanic = "none", NEW x \in goSenders,
             Send(x) \/ Drop(x) \/ SendCancelled(x) \/ \E s \in Subscriber : SelectMeets(s, x)
      PROVE  GoInv'
  BY <1>5, SendInv, DropInv, SendCancelledInv, SelectMeetsInv
<1> QED BY <1>1, <1>2, <1>3, <1>4, <1>5 DEF GoNext, SubscriberStep, CloseStep

\* Whatever publishes, subscribes, leaves, closes and gives up, in any order: a subscriber in
\* the map has an open channel, no channel is closed twice, nobody loses a message because of
\* somebody else, and none comes twice or out of order.
THEOREM FanOutHolds == GoSpec => []GoFanOut
<1>1. GoInv => GoFanOut
  <2> SUFFICES ASSUME GoInv PROVE GoFanOut
    OBVIOUS
  <2>1. TableIsOpen
    BY DEF GoInv, Users, Joined, TableIsOpen
  <2>2. ClosedOnce /\ OnlyLateJoiners
    BY DEF GoInv, GoTypes, Users, Late, ClosedOnce, OnlyLateJoiners
  <2>3. ReachesTheOthers /\ HeardOnceInOrder
    BY DEF GoInv, OnTheirWay
  <2> QED BY <2>1, <2>2, <2>3 DEF GoFanOut
<1> QED BY GoInitInv, GoNextInv, <1>1, PTL DEF GoSpec

-----------------------------------------------------------------------------
(* The thread pool *)

\* Threads not started yet, and submits that may still start one.
Unborn == {w \in Worker : worker[w] = "unborn"}
AboutToSubmit == {t \in PoolTask : submitAt[t] = "lock"}

PoolTypes ==
  /\ taskQueue \in Seq(PoolTask) /\ finished \subseteq PoolTask
  /\ worker \in [Worker -> {"unborn", "get", "run", "empty", "gone"}]
  /\ running \in [Worker -> PoolTask \cup {NoTask}]
  /\ submitAt \in [PoolTask -> {"lock", "put", "done"}]
CoreStays == \A w \in Worker : /\ IsCore(w) => worker[w] \in {"get", "run"}
                               /\ worker[w] = "run" => running[w] \in PoolTask

\* Each submit that has not been decided yet finds a thread to start.
ThreadsSuffice == Cardinality(AboutToSubmit) <= Cardinality(Unborn)
PoolInv == PoolTypes /\ CoreStays /\ WorkersCounted /\ ThreadsSuffice

LEMMA PoolIsFinite ==
  /\ Worker \in SUBSET Int /\ IsFiniteSet(Worker) /\ Cardinality(PoolTask) \in Nat
  /\ Cardinality(Worker) = MinWorkers + Cardinality(PoolTask)
  /\ \A S : S \subseteq Worker \/ S \subseteq PoolTask => IsFiniteSet(S) /\ Cardinality(S) \in Nat
<1>1. Cardinality(PoolTask) \in Nat
  BY FS_CardinalityType, PoolAssumption
<1> DEFINE n == MinWorkers + Cardinality(PoolTask)
<1>2. n \in Nat
  BY <1>1, PoolAssumption
<1>3. IsFiniteSet(1..n) /\ Cardinality(1..n) = n
  BY <1>2, FS_Interval
<1>4. Worker = 1..n
  BY DEF Worker
<1> QED BY <1>1, <1>3, <1>4, FS_Subset, FS_CardinalityType, PoolAssumption

\* One more in a finite set, and one less.
LEMMA OneMore ==
  ASSUME NEW S, IsFiniteSet(S), NEW T, NEW x, x \notin S, T = S \cup {x}
  PROVE  Cardinality(T) = Cardinality(S) + 1 /\ Cardinality(S) = Cardinality(T) - 1 /\ Cardinality(S) \in Nat
<1>1. Cardinality(S) \in Nat
  BY FS_CardinalityType
<1>2. Cardinality(S \cup {x}) = Cardinality(S) + 1
  BY FS_AddElement
<1> QED BY <1>1, <1>2

LEMMA PoolInitially == PoolInit => PoolInv
<1> SUFFICES ASSUME PoolInit PROVE PoolInv
  OBVIOUS
<1>1. PoolTypes /\ CoreStays
  BY DEF PoolInit, PoolTypes, CoreStays, IsCore
<1>2. Alive = 1..MinWorkers
  BY PoolIsFinite, PoolAssumption DEF PoolInit, Alive, Worker, IsCore
<1>3. Cardinality(Alive) = MinWorkers
  BY <1>2, FS_Interval, PoolAssumption
<1>4. WorkersCounted
  BY <1>3, PoolAssumption DEF WorkersCounted, PoolInit
<1>5. Unborn = Worker \ Alive /\ Alive \subseteq Worker
  BY DEF PoolInit, Alive, Unborn
<1>6. Cardinality(Unborn) = Cardinality(Worker) - Cardinality(Alive)
  <2>1. Worker \cap Alive = Alive
    BY <1>5
  <2>2. Cardinality(Worker \ Alive) = Cardinality(Worker) - Cardinality(Worker \cap Alive)
    BY PoolIsFinite, FS_Difference
  <2> QED BY <1>5, <2>1, <2>2
<1>7. AboutToSubmit = PoolTask
  BY DEF PoolInit, AboutToSubmit
<1>8. ThreadsSuffice
  BY <1>3, <1>6, <1>7, PoolIsFinite, PoolAssumption DEF ThreadsSuffice
<1> QED BY <1>1, <1>4, <1>8 DEF PoolInv

LEMMA SpawnKeeps ==
  ASSUME PoolInv, NEW t \in PoolTask, SpawnIfBelowMax(t)
  PROVE  PoolInv'
<1>1. AboutToSubmit = AboutToSubmit' \cup {t} /\ t \notin AboutToSubmit' /\ AboutToSubmit' \subseteq PoolTask
  BY DEF SpawnIfBelowMax, AboutToSubmit, PoolInv, PoolTypes
<1>2. Cardinality(AboutToSubmit) = Cardinality(AboutToSubmit') + 1 /\ Cardinality(AboutToSubmit') \in Nat
  BY <1>1, OneMore, PoolIsFinite
<1>3. CASE ~BelowMax(t)
  <2>1. UNCHANGED <<taskQueue, worker, currentWorkers, running, finished>>
    BY <1>3 DEF SpawnIfBelowMax
  <2>2. PoolTypes' /\ CoreStays'
    BY <2>1 DEF SpawnIfBelowMax, PoolInv, PoolTypes, CoreStays
  <2>3. Alive' = Alive /\ Unborn' = Unborn
    BY <2>1 DEF Alive, Unborn
  <2>4. Cardinality(Unborn) \in Nat
    BY PoolIsFinite DEF Unborn
  <2> QED BY <1>2, <2>1, <2>2, <2>3, <2>4 DEF PoolInv, WorkersCounted, ThreadsSuffice
<1>4. CASE BelowMax(t)
  <2> DEFINE new == CHOOSE w \in Worker : worker[w] = "unborn"
  <2>1. \E w \in Worker : worker[w] = "unborn"
    <3>1. Cardinality(Unborn) >= 1
      <4>1. Cardinality(Unborn) \in Nat
        BY PoolIsFinite DEF Unborn
      <4> QED BY <4>1, <1>2 DEF PoolInv, ThreadsSuffice
    <3>2. Unborn # {}
      BY <3>1, FS_EmptySet
    <3> QED BY <3>2 DEF Unborn
  <2>2. new \in Worker /\ worker[new] = "unborn"
    BY <2>1
  <2>3. /\ worker' = [worker EXCEPT ![new] = "get"] /\ currentWorkers' = currentWorkers + 1
        /\ UNCHANGED <<taskQueue, running, finished>>
        /\ submitAt' = [submitAt EXCEPT ![t] = "put"]
    BY <1>4 DEF SpawnIfBelowMax
  <2> HIDE DEF new
  <2>4. PoolTypes' /\ CoreStays'
    BY <2>2, <2>3 DEF PoolInv, PoolTypes, CoreStays, IsCore
  <2>5. /\ Alive' = Alive \cup {new} /\ new \notin Alive /\ Alive \subseteq Worker
        /\ Unborn = Unborn' \cup {new} /\ new \notin Unborn' /\ Unborn' \subseteq Worker
    BY <2>2, <2>3 DEF Alive, Unborn, PoolInv, PoolTypes
  <2>6. Cardinality(Alive') = Cardinality(Alive) + 1 /\ Cardinality(Alive) \in Nat
    BY <2>5, OneMore, PoolIsFinite
  <2>7. Cardinality(Unborn) = Cardinality(Unborn') + 1 /\ Cardinality(Unborn') \in Nat
    BY <2>5, OneMore, PoolIsFinite
  <2>8. WorkersCounted'
    BY <1>4, <2>3, <2>6, PoolAssumption DEF PoolInv, WorkersCounted, BelowMax
  <2>9. ThreadsSuffice'
    BY <1>2, <2>7 DEF PoolInv, ThreadsSuffice
  <2> QED BY <2>4, <2>8, <2>9 DEF PoolInv
<1> QED BY <1>3, <1>4

\* What leaves the threads alive and the submits where they are leaves the counts alone.
LEMMA CountsStay ==
  ASSUME PoolInv, UNCHANGED currentWorkers,
         Alive' = Alive, Unborn' = Unborn, AboutToSubmit' = AboutToSubmit
  PROVE  WorkersCounted' /\ ThreadsSuffice'
BY DEF PoolInv, WorkersCounted, ThreadsSuffice

LEMMA PutKeeps ==
  ASSUME PoolInv, NEW t \in PoolTask, PutTask(t) PROVE PoolInv'
<1>1. PoolTypes' /\ CoreStays'
  BY DEF PutTask, PoolInv, PoolTypes, CoreStays
<1>2. Alive' = Alive /\ Unborn' = Unborn /\ AboutToSubmit' = AboutToSubmit
  BY DEF PutTask, PoolInv, PoolTypes, Alive, Unborn, AboutToSubmit
<1> QED BY <1>1, <1>2, CountsStay DEF PoolInv, PutTask

LEMMA WorkKeeps ==
  ASSUME PoolInv, NEW w \in Worker, GetTask(w) \/ EndTask(w) \/ GetTimesOut(w) PROVE PoolInv'
<1>1. PoolTypes' /\ CoreStays'
  <2>1. CASE GetTask(w)
    <3>1. Head(taskQueue) \in PoolTask /\ Tail(taskQueue) \in Seq(PoolTask)
      BY <2>1 DEF GetTask, PoolInv, PoolTypes
    <3> QED BY <2>1, <3>1 DEF GetTask, PoolInv, PoolTypes, CoreStays
  <2>2. CASE EndTask(w)
    BY <2>2 DEF EndTask, PoolInv, PoolTypes, CoreStays
  <2>3. CASE GetTimesOut(w)
    BY <2>3 DEF GetTimesOut, PoolInv, PoolTypes, CoreStays
  <2> QED BY <2>1, <2>2, <2>3
<1>2. Alive' = Alive /\ Unborn' = Unborn /\ AboutToSubmit' = AboutToSubmit
  BY DEF GetTask, EndTask, GetTimesOut, PoolInv, PoolTypes, Alive, Unborn, AboutToSubmit
<1>3. UNCHANGED currentWorkers
  BY DEF GetTask, EndTask, GetTimesOut
<1> QED BY <1>1, <1>2, <1>3, CountsStay DEF PoolInv

LEMMA ShrinkKeeps ==
  ASSUME PoolInv, NEW w \in Worker, Shrink(w) PROVE PoolInv'
<1>1. PoolTypes' /\ CoreStays'
  BY DEF Shrink, MayShrink, PoolInv, PoolTypes, CoreStays
<1>2. Unborn' = Unborn /\ AboutToSubmit' = AboutToSubmit
  BY DEF Shrink, PoolInv, PoolTypes, Unborn, AboutToSubmit
<1>3. CASE MayShrink(w)
  <2>1. Alive = Alive' \cup {w} /\ w \notin Alive' /\ Alive' \subseteq Worker
    BY <1>3 DEF Shrink, PoolInv, PoolTypes, Alive
  <2>2. Cardinality(Alive) = Cardinality(Alive') + 1 /\ Cardinality(Alive') \in Nat
    BY <2>1, OneMore, PoolIsFinite
  <2>3. WorkersCounted'
    BY <1>3, <2>2, PoolAssumption DEF PoolInv, WorkersCounted, Shrink, MayShrink
  <2> QED BY <1>1, <1>2, <2>3 DEF PoolInv, ThreadsSuffice
<1>4. CASE ~MayShrink(w)
  <2>1. Alive' = Alive /\ UNCHANGED currentWorkers
    BY <1>4 DEF Shrink, PoolInv, PoolTypes, Alive
  <2> QED BY <1>1, <1>2, <2>1, CountsStay DEF PoolInv
<1> QED BY <1>3, <1>4

\* The count of thread_pool.py is right in every state, for any number of tasks and any limits.
THEOREM WorkersAreCounted == PoolSpec => []WorkersCounted
<1>1. PoolInit => PoolInv
  BY PoolInitially
<1>2. PoolInv /\ [PoolNext]_poolVars => PoolInv'
  <2> SUFFICES ASSUME PoolInv, [PoolNext]_poolVars PROVE PoolInv'
    OBVIOUS
  <2>1. CASE UNCHANGED poolVars
    <3>1. Alive' = Alive /\ Unborn' = Unborn /\ AboutToSubmit' = AboutToSubmit
      BY <2>1 DEF poolVars, Alive, Unborn, AboutToSubmit
    <3> QED BY <2>1, <3>1, CountsStay DEF poolVars, PoolInv, PoolTypes, CoreStays
  <2>2. ASSUME NEW t \in PoolTask, SubmitStep(t) PROVE PoolInv'
    BY <2>2, SpawnKeeps, PutKeeps DEF SubmitStep
  <2>3. ASSUME NEW w \in Worker, PoolWorkerStep(w) PROVE PoolInv'
    BY <2>3, WorkKeeps, ShrinkKeeps DEF PoolWorkerStep
  <2> QED BY <2>1, <2>2, <2>3 DEF PoolNext
<1>3. PoolInv => WorkersCounted
  BY DEF PoolInv
<1> QED BY <1>1, <1>2, <1>3, PTL DEF PoolSpec

-----------------------------------------------------------------------------
(* The bounded gather and the token bucket *)

GatherTypes ==
  /\ itemState \in [ItemNo -> {"created", "running", "ok", "error", "timeout"}]
  /\ waiting \in Seq(ItemNo) /\ firstError \in ItemNo \cup {0}

\* Who waits for the semaphore has not run yet and waits once.
WaitOnce == \A i \in 1..Len(waiting) : /\ itemState[waiting[i]] = "created"
                                       /\ \A j \in 1..Len(waiting) : waiting[i] = waiting[j] => i = j
GatherInv == GatherTypes /\ WaitOnce /\ GatherIsBounded

LEMMA GatherInitially == GatherInit => GatherInv
<1> SUFFICES ASSUME GatherInit PROVE GatherInv
  OBVIOUS
<1>1. waiting \in [1..NumItems -> ItemNo] /\ Len(waiting) = NumItems
  BY GatherAssumption DEF GatherInit, ItemNo
<1>2. GatherTypes
  BY <1>1, GatherAssumption DEF GatherInit, GatherTypes, ItemNo
<1>3. WaitOnce
  BY <1>1 DEF GatherInit, WaitOnce, ItemNo
<1>4. Running = {}
  BY DEF GatherInit, Running
<1>5. GatherIsBounded
  BY <1>4, FS_EmptySet, GatherAssumption DEF GatherIsBounded, GatherInit, Pending
<1> QED BY <1>2, <1>3, <1>5 DEF GatherInv

LEMMA RunningIsFinite == \A S : S \subseteq ItemNo => IsFiniteSet(S) /\ Cardinality(S) \in Nat
<1>1. IsFiniteSet(ItemNo)
  BY FS_Interval, GatherAssumption DEF ItemNo
<1> QED BY <1>1, FS_Subset, FS_CardinalityType

LEMMA StartItemKeeps == ASSUME GatherInv, StartItem PROVE GatherInv'
<1> DEFINE x == Head(waiting)
<1>1. waiting # <<>> /\ x \in ItemNo /\ x = waiting[1] /\ itemState[x] = "created" /\ Len(waiting) \in Nat
      /\ 1 \in 1..Len(waiting)
  BY DEF GatherInv, GatherTypes, WaitOnce, StartItem
<1>2. /\ Tail(waiting) \in Seq(ItemNo) /\ Len(Tail(waiting)) = Len(waiting) - 1
      /\ \A i \in 1..(Len(waiting) - 1) : Tail(waiting)[i] = waiting[i + 1]
  BY <1>1 DEF GatherInv, GatherTypes
<1>3. GatherTypes'
  BY <1>1, <1>2 DEF GatherInv, GatherTypes, StartItem
<1>4. WaitOnce'
  <2> SUFFICES ASSUME NEW i \in 1..Len(waiting')
               PROVE  itemState'[waiting'[i]] = "created" /\ \A j \in 1..Len(waiting') : waiting'[i] = waiting'[j] => i = j
    BY DEF WaitOnce
  <2>1. i \in 1..(Len(waiting) - 1) /\ waiting'[i] = waiting[i + 1] /\ i + 1 \in 1..Len(waiting) /\ i \in Nat
    BY <1>1, <1>2 DEF StartItem
  <2>2. waiting[i + 1] # x /\ waiting[i + 1] \in ItemNo /\ itemState[waiting[i + 1]] = "created"
    BY <1>1, <2>1 DEF GatherInv, GatherTypes, WaitOnce
  <2>3. itemState'[waiting'[i]] = "created"
    BY <2>1, <2>2, <1>1 DEF StartItem, GatherInv, GatherTypes
  <2>4. ASSUME NEW j \in 1..Len(waiting'), waiting'[i] = waiting'[j] PROVE i = j
    <3>1. waiting'[j] = waiting[j + 1] /\ j + 1 \in 1..Len(waiting) /\ j \in Nat
      BY <1>1, <1>2 DEF StartItem
    <3>2. waiting[i + 1] = waiting[j + 1]
      BY <2>1, <2>4, <3>1
    <3>3. i + 1 = j + 1
      BY <2>1, <3>1, <3>2 DEF GatherInv, WaitOnce
    <3> QED BY <2>1, <3>1, <3>3
  <2> QED BY <2>3, <2>4
<1>5. Running' = Running \cup {x} /\ x \notin Running /\ Running \subseteq ItemNo
  BY <1>1 DEF StartItem, Running, GatherInv, GatherTypes
<1>6. Cardinality(Running') = Cardinality(Running) + 1 /\ Cardinality(Running) \in Nat
  BY <1>5, RunningIsFinite, FS_AddElement
<1>7. Cardinality(Running') <= GatherLimit
  BY <1>6, GatherAssumption DEF StartItem, Free
<1>8. gathered.results = <<>>
  BY <1>1 DEF GatherInv, GatherIsBounded, Ended
<1>9. GatherIsBounded'
  BY <1>7, <1>8 DEF GatherInv, GatherIsBounded, StartItem
<1> QED BY <1>3, <1>4, <1>9 DEF GatherInv

LEMMA EndItemKeeps ==
  ASSUME GatherInv, NEW n \in ItemNo, NEW how \in {"ok", "error", "timeout"}, EndItem(n, how)
  PROVE  GatherInv'
<1>1. itemState' = [itemState EXCEPT ![n] = how] /\ itemState[n] = "running" /\ UNCHANGED waiting
  BY DEF EndItem
<1>2. GatherTypes'
  BY <1>1 DEF EndItem, GatherInv, GatherTypes
<1>3. WaitOnce'
  <2>1. \A i \in 1..Len(waiting) : waiting[i] \in ItemNo /\ waiting[i] # n
    BY <1>1 DEF GatherInv, GatherTypes, WaitOnce
  <2> QED BY <1>1, <2>1 DEF GatherInv, GatherTypes, WaitOnce
<1>4. Running = Running' \cup {n} /\ n \notin Running' /\ Running' \subseteq ItemNo
  BY <1>1 DEF Running, GatherInv, GatherTypes
<1>5. Cardinality(Running) = Cardinality(Running') + 1 /\ Cardinality(Running') \in Nat
  BY <1>4, RunningIsFinite, FS_AddElement
<1>6. gathered.results = <<>> /\ UNCHANGED gathered
  BY <1>1 DEF GatherInv, GatherIsBounded, Ended, EndItem
<1>7. gathered.raised # 0 => gathered.raised = firstError'
  BY DEF GatherInv, GatherIsBounded, EndItem
<1> QED BY <1>2, <1>3, <1>5, <1>6, <1>7, GatherAssumption DEF GatherInv, GatherIsBounded

LEMMA GatherKeeps == ASSUME GatherInv, Gather PROVE GatherInv'
<1>1. GatherTypes' /\ WaitOnce' /\ Running' = Running
  BY DEF Gather, GatherInv, GatherTypes, WaitOnce, Running
<1>2. GatherIsBounded'
  BY <1>1 DEF Gather, GatherInv, GatherIsBounded, Ended
<1> QED BY <1>1, <1>2 DEF GatherInv

LEMMA GatherNextKeeps == ASSUME GatherInv, [GatherNext]_gatherVars PROVE GatherInv'
<1>1. CASE UNCHANGED gatherVars
  BY <1>1 DEF gatherVars, GatherInv, GatherTypes, WaitOnce, GatherIsBounded, Running, Ended
<1>2. CASE GatherNext
  BY <1>2, StartItemKeeps, EndItemKeeps, GatherKeeps DEF GatherNext, EndSome
<1> QED BY <1>1, <1>2

-----------------------------------------------------------------------------
Bucket == [tokens : 0..Capacity, last : Nat]
Grant == [client : LimitedClient, time : Nat, before : Nat, after : Nat]

BucketTypes ==
  /\ bucketNow \in Nat /\ drawn \in [LimitedClient -> Nat] /\ grants \in Seq(Grant)
  /\ DOMAIN buckets \subseteq LimitedClient
  /\ \A c \in DOMAIN buckets : buckets[c] \in Bucket /\ buckets[c].last <= bucketNow
  /\ wants \in [Waiter -> [client : LimitedClient, tokens : TokenAmounts]]

\* What a client has drawn since a grant, and what is in its bucket, came from the burst and the rate.
TokensAreCovered ==
  \A i \in DOMAIN grants :
    /\ grants[i].client \in DOMAIN buckets
    /\ drawn[grants[i].client] - grants[i].before + buckets[grants[i].client].tokens
         <= Capacity + Rate * (buckets[grants[i].client].last - grants[i].time)
BucketInv == BucketTypes /\ TokensAreCovered /\ WithinRate

LEMMA BucketInitially == BucketInit => BucketInv
BY BucketAssumption DEF BucketInit, BucketInv, BucketTypes, TokensAreCovered, WithinRate

\* The bucket a call finds or makes, filled up to now.
LEMMA FilledUp ==
  ASSUME BucketInv, NEW c \in LimitedClient
  PROVE  LET b == Replenished(GetLimiter(c)) IN
           /\ b \in Bucket /\ b.last = bucketNow
           /\ \A i \in DOMAIN grants : grants[i].client = c =>
                drawn[c] - grants[i].before + b.tokens <= Capacity + Rate * (bucketNow - grants[i].time)
<1> DEFINE b == Replenished(GetLimiter(c))
           l == GetLimiter(c)
<1>1. l \in Bucket /\ l.last <= bucketNow
  BY BucketAssumption DEF BucketInv, BucketTypes, GetLimiter, NewBucket, Bucket
<1>2. bucketNow \in Nat /\ l.last \in Nat /\ l.tokens \in Nat /\ bucketNow - l.last \in Nat
  BY <1>1 DEF BucketInv, BucketTypes, Bucket
<1> DEFINE more == (bucketNow - l.last) * Rate
<1>3. more \in Nat
  BY <1>2, BucketAssumption
<1>4. b = [tokens |-> Smaller(Capacity, l.tokens + more), last |-> bucketNow]
  BY DEF Replenished
<1>5. b \in Bucket /\ b.last = bucketNow /\ b.tokens <= l.tokens + more /\ b.tokens \in Nat
  <2> HIDE DEF l, more
  <2>1. Smaller(Capacity, l.tokens + more) \in 0..Capacity /\ Smaller(Capacity, l.tokens + more) <= l.tokens + more
    BY <1>2, <1>3, BucketAssumption DEF Smaller
  <2> QED BY <1>2, <1>4, <2>1, BucketAssumption DEF Bucket
<1>6. ASSUME NEW i \in DOMAIN grants, grants[i].client = c
      PROVE  drawn[c] - grants[i].before + b.tokens <= Capacity + Rate * (bucketNow - grants[i].time)
  <2>1. c \in DOMAIN buckets /\ l = buckets[c]
    BY <1>6 DEF BucketInv, TokensAreCovered, GetLimiter
  <2>2. drawn[c] - grants[i].before + l.tokens <= Capacity + Rate * (l.last - grants[i].time)
    BY <1>6, <2>1 DEF BucketInv, TokensAreCovered
  <2>3. grants[i] \in Grant /\ drawn[c] \in Nat
    BY DEF BucketInv, BucketTypes
  <2>4. grants[i].before \in Nat /\ grants[i].time \in Nat
    BY <2>3 DEF Grant
  <2> HIDE DEF l, b
  <2> DEFINE t == grants[i].time
             f == grants[i].before
             g == drawn[c]
  <2>5. Rate * (l.last - t) + (bucketNow - l.last) * Rate = Rate * (bucketNow - t)
    <3> HIDE DEF t
    <3>1. l.last \in Int /\ bucketNow \in Int /\ t \in Int /\ Rate \in Int
      BY <1>2, <2>4, BucketAssumption DEF t
    <3> QED BY <3>1
  <2>6. Rate * (l.last - t) \in Int /\ Rate * (bucketNow - t) \in Int
    BY <1>2, <2>4, BucketAssumption
  <2> QED BY <1>2, <1>3, <1>5, <2>2, <2>3, <2>4, <2>5, <2>6, BucketAssumption
<1> QED BY <1>5, <1>6

LEMMA GrantedKeeps ==
  ASSUME BucketInv, NEW c \in LimitedClient, NEW n \in TokenAmounts, Granted(c, n), UNCHANGED <<bucketNow, wants>>
  PROVE  BucketInv'
<1> DEFINE b == Replenished(GetLimiter(c))
           g == [client |-> c, time |-> bucketNow, before |-> drawn[c], after |-> drawn[c] + n]
<1>1. /\ b \in Bucket /\ b.last = bucketNow
      /\ \A i \in DOMAIN grants : grants[i].client = c =>
           drawn[c] - grants[i].before + b.tokens <= Capacity + Rate * (bucketNow - grants[i].time)
  BY FilledUp
<1> HIDE DEF b
<1>2. /\ b.tokens >= n /\ drawn' = [drawn EXCEPT ![c] = @ + n] /\ grants' = Append(grants, g)
      /\ buckets' = [x \in DOMAIN buckets \cup {c} |-> IF x = c THEN [b EXCEPT !.tokens = @ - n] ELSE buckets[x]]
  BY DEF Granted, SetBucket, b
<1>3. n \in Nat /\ drawn[c] \in Nat /\ bucketNow \in Nat /\ g \in Grant /\ b.tokens \in 0..Capacity /\ Capacity \in Nat
  BY <1>1, BucketAssumption DEF BucketInv, BucketTypes, Grant, Bucket
<1>4. [b EXCEPT !.tokens = @ - n] = [tokens |-> b.tokens - n, last |-> bucketNow] /\ b.tokens - n \in 0..Capacity
  BY <1>1, <1>2, <1>3 DEF Bucket
<1>5. /\ DOMAIN buckets' = DOMAIN buckets \cup {c}
      /\ buckets'[c] = [tokens |-> b.tokens - n, last |-> bucketNow]
      /\ \A x \in DOMAIN buckets : x # c => buckets'[x] = buckets[x]
  BY <1>2, <1>4
<1>6. drawn'[c] = drawn[c] + n /\ \A x \in LimitedClient : x # c => drawn'[x] = drawn[x]
  BY <1>2 DEF BucketInv, BucketTypes
<1>7. BucketTypes'
  <2>1. grants' \in Seq(Grant)
    BY <1>2, <1>3 DEF BucketInv, BucketTypes
  <2>2. drawn' \in [LimitedClient -> Nat]
    BY <1>2, <1>3 DEF BucketInv, BucketTypes
  <2>3. ASSUME NEW x \in DOMAIN buckets' PROVE buckets'[x] \in Bucket /\ buckets'[x].last <= bucketNow'
    BY <1>3, <1>4, <1>5 DEF BucketInv, BucketTypes, Bucket
  <2> QED BY <1>5, <2>1, <2>2, <2>3 DEF BucketInv, BucketTypes
<1>8. /\ Len(grants) \in Nat /\ DOMAIN grants = 1..Len(grants) /\ DOMAIN grants' = 1..(Len(grants) + 1)
      /\ \A i \in DOMAIN grants : grants'[i] = grants[i] /\ grants[i] \in Grant
      /\ grants'[Len(grants) + 1] = g
  BY <1>2 DEF BucketInv, BucketTypes
<1> DEFINE last == Len(grants) + 1
\* The grants so far, and the new one, are covered.
<1>9. ASSUME NEW i \in DOMAIN grants', grants'[i].client = c
      PROVE  /\ grants'[i].before \in Nat /\ grants'[i].time \in Nat
             /\ drawn[c] + n - grants'[i].before + (b.tokens - n) <= Capacity + Rate * (bucketNow - grants'[i].time)
  <2>1. CASE i = last
    <3>1. grants'[i].before = drawn[c] /\ grants'[i].time = bucketNow
      BY <1>8, <2>1
    <3>2. Rate * (bucketNow - bucketNow) = 0
      BY <1>3, BucketAssumption
    <3> QED BY <1>3, <3>1, <3>2
  <2>2. CASE i \in DOMAIN grants
    <3>1. grants'[i] = grants[i] /\ grants[i].before \in Nat /\ grants[i].time \in Nat
      BY <1>8, <2>2 DEF Grant
    <3>2. drawn[c] - grants[i].before + b.tokens <= Capacity + Rate * (bucketNow - grants[i].time)
      BY <1>1, <1>9, <2>2, <3>1
    <3>3. Rate * (bucketNow - grants[i].time) \in Int
      BY <1>3, <3>1, BucketAssumption
    <3> QED BY <1>3, <3>1, <3>2, <3>3
  <2> QED BY <1>8, <2>1, <2>2
<1>10. TokensAreCovered'
  <2> SUFFICES ASSUME NEW i \in DOMAIN grants'
               PROVE  /\ grants'[i].client \in DOMAIN buckets'
                      /\ drawn'[grants'[i].client] - grants'[i].before + buckets'[grants'[i].client].tokens
                           <= Capacity + Rate * (buckets'[grants'[i].client].last - grants'[i].time)
    BY DEF TokensAreCovered
  <2>1. CASE grants'[i].client = c
    <3>1. buckets'[c].tokens = b.tokens - n /\ buckets'[c].last = bucketNow
      BY <1>5
    <3>2. c \in DOMAIN buckets' /\ drawn'[c] = drawn[c] + n
      BY <1>5, <1>6
    <3>3. drawn[c] + n - grants'[i].before + (b.tokens - n) <= Capacity + Rate * (bucketNow - grants'[i].time)
      BY <1>9, <2>1
    <3>4. drawn[c] \in Int /\ n \in Int /\ b.tokens \in Int /\ bucketNow \in Int /\ grants'[i].before \in Int
          /\ Rate * (bucketNow - grants'[i].time) \in Int /\ Capacity \in Int
      BY <1>3, <1>9, <2>1, BucketAssumption
    <3> QED BY <2>1, <3>1, <3>2, <3>3, <3>4
  <2>2. CASE grants'[i].client # c
    <3>1. i \in DOMAIN grants /\ grants'[i] = grants[i] /\ grants[i].client \in LimitedClient
      BY <1>8, <2>2 DEF Grant
    <3> QED BY <1>5, <1>6, <2>2, <3>1 DEF BucketInv, TokensAreCovered
  <2> QED BY <2>1, <2>2
<1>11. WithinRate'
  <2> SUFFICES ASSUME NEW i \in DOMAIN grants', NEW j \in DOMAIN grants', i <= j, grants'[i].client = grants'[j].client
               PROVE  grants'[j].after - grants'[i].before <= Capacity + Rate * (grants'[j].time - grants'[i].time)
    BY DEF WithinRate
  <2>1. CASE j \in DOMAIN grants
    BY <1>8, <2>1 DEF BucketInv, WithinRate
  <2>2. CASE j = last
    <3>1. grants'[j].after = drawn[c] + n /\ grants'[j].time = bucketNow /\ grants'[i].client = c
      BY <1>8, <2>2
    <3>2. /\ grants'[i].before \in Nat /\ grants'[i].time \in Nat
          /\ drawn[c] + n - grants'[i].before + (b.tokens - n) <= Capacity + Rate * (bucketNow - grants'[i].time)
      BY <1>9, <3>1
    <3>3. Rate * (bucketNow - grants'[i].time) \in Int
      BY <1>3, <3>2, BucketAssumption
    <3>4. b.tokens - n >= 0 /\ b.tokens \in Int
      BY <1>2, <1>3
    <3> QED BY <1>3, <3>1, <3>2, <3>3, <3>4
  <2> QED BY <1>8, <2>1, <2>2
<1> QED BY <1>7, <1>10, <1>11 DEF BucketInv

LEMMA RefusedKeeps ==
  ASSUME BucketInv, NEW c \in LimitedClient, NEW n \in TokenAmounts, Refused(c, n), UNCHANGED <<bucketNow, wants>>
  PROVE  BucketInv'
<1> DEFINE b == Replenished(GetLimiter(c))
<1>1. /\ b \in Bucket /\ b.last = bucketNow
      /\ \A i \in DOMAIN grants : grants[i].client = c =>
           drawn[c] - grants[i].before + b.tokens <= Capacity + Rate * (bucketNow - grants[i].time)
  BY FilledUp
<1> HIDE DEF b
<1>2. /\ DOMAIN buckets' = DOMAIN buckets \cup {c} /\ buckets'[c] = b
      /\ \A x \in DOMAIN buckets : x # c => buckets'[x] = buckets[x]
      /\ UNCHANGED <<drawn, grants>>
  BY DEF Refused, SetBucket, b
<1>3. BucketTypes'
  BY <1>1, <1>2 DEF BucketInv, BucketTypes
<1>4. TokensAreCovered'
  <2> SUFFICES ASSUME NEW i \in DOMAIN grants
               PROVE  LET x == grants[i].client IN
                        /\ x \in DOMAIN buckets'
                        /\ drawn[x] - grants[i].before + buckets'[x].tokens
                             <= Capacity + Rate * (buckets'[x].last - grants[i].time)
    BY <1>2 DEF TokensAreCovered
  <2>1. CASE grants[i].client = c
    BY <1>1, <1>2, <2>1
  <2>2. CASE grants[i].client # c
    BY <1>2, <2>2 DEF BucketInv, TokensAreCovered
  <2> QED BY <2>1, <2>2
<1>5. WithinRate'
  BY <1>2 DEF BucketInv, WithinRate
<1> QED BY <1>3, <1>4, <1>5 DEF BucketInv

LEMMA BucketStays == ASSUME BucketInv, UNCHANGED <<buckets, wants, drawn, grants>>,
                            bucketNow' \in Nat, bucketNow <= bucketNow' PROVE BucketInv'
<1>1. BucketTypes'
  <2>1. ASSUME NEW c \in DOMAIN buckets PROVE buckets[c].last <= bucketNow'
    <3>1. buckets[c].last \in Nat /\ buckets[c].last <= bucketNow /\ bucketNow \in Nat
      BY DEF BucketInv, BucketTypes, Bucket
    <3> QED BY <3>1
  <2> QED BY <2>1 DEF BucketInv, BucketTypes
<1>2. TokensAreCovered' /\ WithinRate'
  BY DEF BucketInv, TokensAreCovered, WithinRate
<1> QED BY <1>1, <1>2 DEF BucketInv

LEMMA BucketNextKeeps == ASSUME BucketInv, [BucketNext]_bucketVars PROVE BucketInv'
<1>1. bucketNow \in Nat
  BY DEF BucketInv, BucketTypes
<1>2. CASE UNCHANGED bucketVars
  BY <1>1, <1>2, BucketStays DEF bucketVars
<1>3. CASE BucketTick
  BY <1>1, <1>3, BucketStays DEF BucketTick
<1>4. ASSUME NEW c \in LimitedClient, NEW n \in TokenAmounts, Allow(c, n) PROVE BucketInv'
  BY <1>4, GrantedKeeps, RefusedKeeps DEF Allow
<1>5. ASSUME NEW w \in Waiter, TryAgain(w) PROVE BucketInv'
  <2>1. wants[w].client \in LimitedClient /\ wants[w].tokens \in TokenAmounts
    BY DEF BucketInv, BucketTypes
  <2> QED BY <1>5, <2>1, GrantedKeeps, RefusedKeeps DEF TryAgain
<1> QED BY <1>2, <1>3, <1>4, <1>5 DEF BucketNext

\* For any number of items, any limit, rate, capacity and clients, however the coroutines follow
\* each other: no more items run than the limit says, and no client draws more tokens in a time
\* than the burst and the rate give.
THEOREM LimitsHold == LimitsSpec => []WithinLimits
<1>1. GatherInit /\ BucketInit => GatherInv /\ BucketInv
  BY GatherInitially, BucketInitially
<1>2. /\ GatherInv /\ BucketInv
      /\ [(GatherNext /\ UNCHANGED bucketVars) \/ (BucketNext /\ UNCHANGED gatherVars)]_<<gatherVars, bucketVars>>
      => GatherInv' /\ BucketInv'
  BY GatherNextKeeps, BucketNextKeeps
<1>3. GatherInv /\ BucketInv => WithinLimits
  BY DEF GatherInv, BucketInv, WithinLimits
<1> QED BY <1>1, <1>2, <1>3, PTL DEF LimitsSpec

-----------------------------------------------------------------------------
(* The decorators *)

\* Whatever holds of 0, and of n + 1 when it holds of n, holds of every number, < being well-founded.
LEMMA AllNumbers ==
  ASSUME NEW S \in SUBSET Nat, 0 \in S, \A n \in S : n + 1 \in S
  PROVE  S = Nat
<1> DEFINE Less == OpToRel(<, Nat)
<1>1. IsWellFoundedOn(Less, Nat)
  BY NatLessThanWellFounded
<1>2. \A x, y \in Nat : y < x => <<y, x>> \in Less
  BY DEF OpToRel
<1> HIDE DEF Less
<1>3. SUFFICES ASSUME Nat \ S # {} PROVE FALSE
  OBVIOUS
<1>4. PICK x \in Nat \ S : \A y \in Nat \ S : ~(<<y, x>> \in Less)
  BY <1>1, <1>3, WFMin, Zenon
<1>5. x - 1 \in S
  <2>1. x # 0 /\ x - 1 \in Nat /\ x - 1 < x
    OBVIOUS
  <2>2. <<x - 1, x>> \in Less
    BY <1>2, <2>1
  <2> QED BY <1>4, <2>1, <2>2
<1>6. (x - 1) + 1 = x
  OBVIOUS
<1> QED BY <1>5, <1>6

\* A function of the numbers can be given by its first value and the step from each to the next.
Steps(f, V, first, step) == f \in [Nat -> V] /\ f[0] = first /\ \A n \in Nat : f[n + 1] = step[f[n]]
LEMMA StepByStep ==
  ASSUME NEW V, NEW first \in V, NEW step \in [V -> V]
  PROVE  \E f : Steps(f, V, first, step)
<1> DEFINE UpTo(f, n) == f[0] = first /\ \A k \in 1..n : f[k] = step[f[k - 1]]
           S == {n \in Nat : \E f \in [0..n -> V] : UpTo(f, n)}
           Whole(n) == CHOOSE f \in [0..n -> V] : UpTo(f, n)
           F == [n \in Nat |-> Whole(n)[n]]
<1>1. S = Nat
  <2>1. 0 \in S
    <3>1. [i \in 0..0 |-> first] \in [0..0 -> V] /\ UpTo([i \in 0..0 |-> first], 0)
      OBVIOUS
    <3> QED BY <3>1
  <2>2. ASSUME NEW n \in S PROVE n + 1 \in S
    <3>1. PICK f \in [0..n -> V] : UpTo(f, n)
      OBVIOUS
    <3> DEFINE g == [i \in 0..(n + 1) |-> IF i = n + 1 THEN step[f[n]] ELSE f[i]]
    <3>2. g \in [0..(n + 1) -> V]
      <4>1. f[n] \in V /\ step[f[n]] \in V /\ \A i \in 0..n : f[i] \in V
        BY <3>1
      <4>2. \A i \in 0..(n + 1) : i = n + 1 \/ i \in 0..n
        OBVIOUS
      <4> QED BY <4>1, <4>2
    <3>3. UpTo(g, n + 1)
      <4>1. g[0] = first
        BY <3>1
      <4>2. ASSUME NEW k \in 1..(n + 1) PROVE g[k] = step[g[k - 1]]
        <5>1. k - 1 \in 0..n /\ k \in 0..(n + 1) /\ k - 1 # n + 1 /\ k - 1 \in 0..(n + 1)
          OBVIOUS
        <5>2. g[k - 1] = f[k - 1]
          BY <5>1
        <5>3. CASE k = n + 1
          BY <5>1, <5>2, <5>3
        <5>4. CASE k # n + 1
          <6>1. k \in 1..n
            BY <5>4
          <6> QED BY <3>1, <5>1, <5>2, <5>4, <6>1
        <5> QED BY <5>3, <5>4
      <4> QED BY <4>1, <4>2
    <3>4. n + 1 \in Nat
      OBVIOUS
    <3> HIDE DEF g
    <3> QED BY <3>2, <3>3, <3>4
  <2> HIDE DEF S
  <2>3. S \subseteq Nat
    BY DEF S
  <2> QED BY <2>1, <2>2, <2>3, AllNumbers
<1>2. \A n \in Nat : Whole(n) \in [0..n -> V] /\ UpTo(Whole(n), n)
  BY <1>1
<1>3. ASSUME NEW n \in Nat PROVE \A k \in 0..n : Whole(n + 1)[k] = Whole(n)[k]
  <2> DEFINE f == Whole(n)
             g == Whole(n + 1)
             T == {k \in Nat : k <= n => g[k] = f[k]}
  <2>1. UpTo(f, n) /\ UpTo(g, n + 1)
    <3>1. n + 1 \in Nat
      OBVIOUS
    <3> QED BY <1>2, <3>1
  <2> HIDE DEF f, g
  <2>2. 0 \in T
    BY <2>1
  <2>3. ASSUME NEW k \in T PROVE k + 1 \in T
    <3>1. CASE k + 1 <= n
      <4>1. k + 1 \in 1..n /\ k + 1 \in 1..(n + 1) /\ (k + 1) - 1 = k /\ k <= n
        BY <3>1
      <4>2. f[k + 1] = step[f[k]] /\ g[k + 1] = step[g[k]] /\ g[k] = f[k]
        BY <2>1, <4>1
      <4> QED BY <4>2
    <3>2. CASE ~(k + 1 <= n)
      BY <3>2
    <3> QED BY <3>1, <3>2
  <2>4. T = Nat
    <3> HIDE DEF T
    <3>1. T \subseteq Nat
      BY DEF T
    <3> QED BY <2>2, <2>3, <3>1, AllNumbers
  <2>5. \A k \in 0..n : k \in T /\ k <= n
    BY <2>4
  <2>6. \A k \in 0..n : g[k] = f[k]
    BY <2>5
  <2> QED BY <2>6 DEF f, g
<1>4. F[0] = first /\ \A n \in Nat : F[n + 1] = step[F[n]]
  <2>1. Whole(0)[0] = first
    BY <1>2
  <2>2. ASSUME NEW n \in Nat PROVE Whole(n + 1)[n + 1] = step[Whole(n)[n]]
    <3>1. n + 1 \in 1..(n + 1) /\ (n + 1) - 1 = n /\ n + 1 \in Nat /\ n \in 0..n
      OBVIOUS
    <3>2. Whole(n + 1)[n + 1] = step[Whole(n + 1)[n]]
      BY <1>2, <3>1, ZenonT(30)
    <3> QED BY <1>3, <3>1, <3>2
  <2> HIDE DEF Whole
  <2> QED BY <2>1, <2>2
<1>5. F \in [Nat -> V]
  <2> HIDE DEF Whole
  <2>1. \A n \in Nat : Whole(n)[n] \in V
    BY <1>2
  <2> QED BY <2>1
<1> HIDE DEF F
<1> QED BY <1>4, <1>5 DEF Steps

-----------------------------------------------------------------------------
(* Least and greatest numbers, sequences and folds *)

\* A set of numbers has a least element, < being well-founded.
LEMMA LeastIs ==
  ASSUME NEW S \in SUBSET Nat, S # {}
  PROVE  Min(S) \in S /\ \A y \in S : Min(S) <= y
<1> DEFINE Less == OpToRel(<, Nat)
<1>1. IsWellFoundedOn(Less, Nat)
  BY NatLessThanWellFounded
<1>2. \A x, y \in Nat : y < x => <<y, x>> \in Less
  BY DEF OpToRel
<1> HIDE DEF Less
<1>3. PICK x \in S : \A y \in S : ~(<<y, x>> \in Less)
  BY <1>1, WFMin, Zenon
<1>4. ASSUME NEW y \in S PROVE ~(y < x)
  <2>1. x \in Nat /\ y \in Nat
    OBVIOUS
  <2> QED BY <1>2, <1>3, <2>1, Zenon
<1>5. \E m \in S : \A y \in S : m <= y
  BY <1>4, SMT
<1> QED BY <1>5 DEF Min

LEMMA Concatenated ==
  ASSUME NEW S, NEW a \in Seq(S), NEW b \in Seq(S)
  PROVE  /\ a \o b \in Seq(S) /\ Len(a \o b) = Len(a) + Len(b)
         /\ \A i \in 1..Len(a) : (a \o b)[i] = a[i]
         /\ \A i \in 1..Len(b) : (a \o b)[Len(a) + i] = b[i]
OBVIOUS

\* What a sequence is after one of its elements was taken out.
LEMMA RemovedAt ==
  ASSUME NEW S, NEW q \in Seq(S), NEW c \in 1..Len(q)
  PROVE  /\ RemoveAt(q, c) \in Seq(S) /\ Len(RemoveAt(q, c)) = Len(q) - 1
         /\ \A i \in 1..(Len(q) - 1) : RemoveAt(q, c)[i] = IF i < c THEN q[i] ELSE q[i + 1]
<1> DEFINE n == Len(q)
           a == SubSeq(q, 1, c - 1)
           b == SubSeq(q, c + 1, n)
           p == RemoveAt(q, c)
<1>1. a \in Seq(S) /\ Len(a) = c - 1 /\ \A i \in 1..(c - 1) : a[i] = q[i]
  OBVIOUS
<1>2. b \in Seq(S) /\ Len(b) = n - c /\ \A i \in 1..(n - c) : b[i] = q[c + i]
  OBVIOUS
<1>3. p = a \o b
  BY DEF RemoveAt
<1>4. n \in Nat /\ c \in 1..n
  OBVIOUS
<1> HIDE DEF a, b, p, n
<1>5. p \in Seq(S) /\ Len(p) = n - 1
  <2>1. a \o b \in Seq(S) /\ Len(a \o b) = Len(a) + Len(b)
    BY <1>1, <1>2, Concatenated
  <2>2. (c - 1) + (n - c) = n - 1
    BY <1>4
  <2> QED BY <1>1, <1>2, <1>3, <2>1, <2>2
<1>6. ASSUME NEW i \in 1..(n - 1) PROVE p[i] = IF i < c THEN q[i] ELSE q[i + 1]
  <2>1. CASE i < c
    <3>1. i \in 1..Len(a)
      BY <1>1, <1>4, <2>1
    <3>2. p[i] = a[i]
      BY <1>1, <1>2, <1>3, <3>1
    <3> QED BY <1>1, <2>1, <3>1, <3>2
  <2>2. CASE ~(i < c)
    <3>1. Len(a) \in Nat /\ i - Len(a) \in 1..Len(b) /\ Len(a) + (i - Len(a)) = i /\ c + (i - Len(a)) = i + 1
      <4>1. Len(a) = c - 1 /\ Len(b) = n - c /\ n \in Nat /\ c \in 1..n
        BY <1>1, <1>2, <1>4
      <4> HIDE DEF a, b
      <4>2. i \in Int /\ i >= c /\ i <= n - 1
        BY <1>4, <2>2
      <4> QED BY <4>1, <4>2
    <3>2. \A j \in 1..Len(b) : (a \o b)[Len(a) + j] = b[j]
      BY <1>1, <1>2, Concatenated
    <3>3. (a \o b)[Len(a) + (i - Len(a))] = b[i - Len(a)]
      BY <3>1, <3>2
    <3> QED BY <1>2, <1>3, <2>2, <3>1, <3>3
  <2> QED BY <2>1, <2>2
<1> QED BY <1>5, <1>6 DEF p, n

\* What a sequence is after an element was put in.
LEMMA InsertedAt ==
  ASSUME NEW S, NEW q \in Seq(S), NEW c \in 1..Len(q), NEW e \in S
  PROVE  /\ InsertAt(q, c, e) \in Seq(S) /\ Len(InsertAt(q, c, e)) = Len(q) + 1
         /\ \A i \in 1..(Len(q) + 1) :
              InsertAt(q, c, e)[i] = IF i < c THEN q[i] ELSE IF i = c THEN e ELSE q[i - 1]
<1> DEFINE n == Len(q)
           a == SubSeq(q, 1, c - 1) \o <<e>>
           b == SubSeq(q, c, n)
           p == InsertAt(q, c, e)
<1>1. a \in Seq(S) /\ Len(a) = c /\ a[c] = e /\ \A i \in 1..(c - 1) : a[i] = q[i]
  OBVIOUS
<1>2. b \in Seq(S) /\ Len(b) = n - c + 1 /\ \A i \in 1..(n - c + 1) : b[i] = q[c + i - 1]
  OBVIOUS
<1>3. p = a \o b
  BY DEF InsertAt
<1>4. n \in Nat /\ c \in 1..n
  OBVIOUS
<1> HIDE DEF a, b, p, n
<1>5. p \in Seq(S) /\ Len(p) = n + 1
  <2>1. a \o b \in Seq(S) /\ Len(a \o b) = Len(a) + Len(b)
    BY <1>1, <1>2, Concatenated
  <2>2. c + (n - c + 1) = n + 1
    BY <1>4
  <2> QED BY <1>1, <1>2, <1>3, <2>1, <2>2
<1>6. ASSUME NEW i \in 1..(n + 1) PROVE p[i] = IF i < c THEN q[i] ELSE IF i = c THEN e ELSE q[i - 1]
  <2>1. CASE i <= c
    <3>1. i \in 1..Len(a) /\ (i < c => i \in 1..(c - 1))
      BY <1>1, <1>4, <2>1
    <3>2. p[i] = a[i]
      BY <1>1, <1>2, <1>3, <3>1
    <3> QED BY <1>1, <1>4, <2>1, <3>1, <3>2
  <2>2. CASE i > c
    <3>1. /\ Len(a) \in Nat /\ i - Len(a) \in 1..Len(b) /\ Len(a) + (i - Len(a)) = i
          /\ c + (i - Len(a)) - 1 = i - 1 /\ ~(i < c) /\ i # c
      <4>1. Len(a) = c /\ Len(b) = n - c + 1 /\ n \in Nat /\ c \in 1..n
        BY <1>1, <1>2, <1>4
      <4> HIDE DEF a, b
      <4>2. i \in Int /\ i > c /\ i <= n + 1
        BY <1>4, <2>2
      <4> QED BY <4>1, <4>2
    <3>2. (a \o b)[Len(a) + (i - Len(a))] = b[i - Len(a)]
      BY <1>1, <1>2, <3>1, Concatenated
    <3> QED BY <1>2, <1>3, <3>1, <3>2
  <2> QED BY <1>4, <2>1, <2>2
<1> QED BY <1>5, <1>6 DEF p, n


\* Removing an element moves those behind it one place to the front.
LEMMA RemovedIs ==
  ASSUME NEW S, NEW q \in Seq(S), NEW c
  PROVE  \/ RemoveFirst(q, c) = q /\ \A i \in 1..Len(q) : q[i] # c
         \/ \E k \in 1..Len(q) :
              /\ q[k] = c /\ RemoveFirst(q, c) \in Seq(S) /\ Len(RemoveFirst(q, c)) = Len(q) - 1
              /\ \A i \in 1..(Len(q) - 1) : RemoveFirst(q, c)[i] = IF i < k THEN q[i] ELSE q[i + 1]
<1> DEFINE I == {i \in 1..Len(q) : q[i] = c}
           m == Min(I)
<1>1. CASE I = {}
  <2>1. \A i \in 1..Len(q) : q[i] # c
    BY <1>1
  <2>2. RemoveFirst(q, c) = q
    BY <2>1 DEF RemoveFirst
  <2> QED BY <2>1, <2>2
<1>2. CASE I # {}
  <2>1. m \in I
    <3>1. I \in SUBSET Nat
      OBVIOUS
    <3> HIDE DEF I
    <3> QED BY <1>2, <3>1, LeastIs
  <2>2. SelectInSeq(q, LAMBDA v : v = c) = m
    BY <1>2 DEF SelectInSeq
  <2>3. m \in 1..Len(q) /\ q[m] = c
    BY <2>1
  <2> HIDE DEF m, I
  <2>4. RemoveFirst(q, c) = RemoveAt(q, m)
    BY <2>2, <2>3 DEF RemoveFirst
  <2>5. \A k \in 1..Len(q) :
          /\ RemoveAt(q, k) \in Seq(S) /\ Len(RemoveAt(q, k)) = Len(q) - 1
          /\ \A i \in 1..(Len(q) - 1) : RemoveAt(q, k)[i] = IF i < k THEN q[i] ELSE q[i + 1]
    BY RemovedAt
  <2> QED BY <2>3, <2>4, <2>5
<1> QED BY <1>1, <1>2

LEMMA GreatestIs ==
  ASSUME NEW n \in Nat, NEW S \in SUBSET (1..n), S # {}
  PROVE  Max(S) \in S /\ \A y \in S : Max(S) >= y
<1> DEFINE T == {n - x : x \in S}
<1>1. T \in SUBSET Nat /\ T # {}
  <2>1. \A x \in S : n - x \in Nat
    OBVIOUS
  <2> QED BY <2>1
<1>2. Min(T) \in T /\ \A y \in T : Min(T) <= y
  <2> HIDE DEF T
  <2> QED BY <1>1, LeastIs
<1>3. PICK x \in S : Min(T) = n - x
  BY <1>2
<1>4. \A y \in S : x >= y
  <2>1. ASSUME NEW y \in S PROVE x >= y
    <3>1. n - y \in T
      OBVIOUS
    <3>2. n - x <= n - y
      BY <1>2, <1>3, <3>1
    <3> QED BY <3>2
  <2> QED BY <2>1
<1> QED BY <1>4 DEF Max

\* A fold exists: what is chosen from a set is put into what the rest of the set gives.
Chooses(choice, n) ==
  /\ choice \in [SUBSET (1..n) -> Nat]
  /\ \A s \in SUBSET (1..n) : s # {} => choice[s] \in s
IsFold(f, X, n, base, step, choice) ==
  /\ f \in [SUBSET (1..n) -> X] /\ f[{}] = base
  /\ \A s \in SUBSET (1..n) : s # {} => f[s] = step[choice[s]][f[s \ {choice[s]}]]
LEMMA FoldExists ==
  ASSUME NEW X, NEW n \in Nat, NEW base \in X, NEW step \in [1..n -> [X -> X]],
         NEW choice, Chooses(choice, n)
  PROVE  \E f : IsFold(f, X, n, base, step, choice)
<1> USE DEF Chooses
<1> DEFINE D == 1..n
           V == [SUBSET D -> X]
           first == [s \in SUBSET D |-> base]
           Next1(h) == [s \in SUBSET D |-> IF s = {} THEN base ELSE step[choice[s]][h[s \ {choice[s]}]]]
           next == [h \in V |-> Next1(h)]
<1>1. first \in V
  OBVIOUS
<1>2. next \in [V -> V]
  <2>1. ASSUME NEW h \in V PROVE Next1(h) \in V
    <3>1. ASSUME NEW s \in SUBSET D, s # {} PROVE step[choice[s]][h[s \ {choice[s]}]] \in X
      <4>1. choice[s] \in D /\ s \ {choice[s]} \in SUBSET D
        BY <3>1
      <4>2. h[s \ {choice[s]}] \in X /\ step[choice[s]] \in [X -> X]
        BY <4>1
      <4> QED BY <4>2
    <3> QED BY <3>1
  <2> HIDE DEF Next1, V
  <2> QED BY <2>1
<1>3. PICK G : Steps(G, V, first, next)
  <2> HIDE DEF V, first, next
  <2> QED BY <1>1, <1>2, StepByStep
<1>4. /\ G \in [Nat -> V] /\ G[0] = first
      /\ \A m \in Nat : G[m + 1] = Next1(G[m])
  <2>1. G \in [Nat -> V] /\ G[0] = first /\ \A m \in Nat : G[m + 1] = next[G[m]]
    BY <1>3 DEF Steps
  <2> HIDE DEF V, Next1, first
  <2> QED BY <2>1
<1>5. \A s \in SUBSET D : IsFiniteSet(s) /\ Cardinality(s) \in Nat
  <2>1. IsFiniteSet(D)
    BY FS_Interval
  <2> HIDE DEF D
  <2> QED BY <2>1, FS_Subset, FS_CardinalityType
<1> DEFINE f == [s \in SUBSET D |-> G[Cardinality(s)][s]]
<1>6. f \in [SUBSET D -> X]
  <2>1. ASSUME NEW s \in SUBSET D PROVE G[Cardinality(s)][s] \in X
    <3>1. G[Cardinality(s)] \in [SUBSET D -> X]
      BY <1>4, <1>5
    <3> HIDE DEF D
    <3> QED BY <3>1
  <2> QED BY <2>1
<1>7. f[{}] = base
  <2>1. Cardinality({}) = 0 /\ {} \in SUBSET D
    BY FS_EmptySet
  <2>2. f[{}] = first[{}]
    BY <1>4, <2>1
  <2> QED BY <2>1, <2>2
<1>8. ASSUME NEW s \in SUBSET D, s # {} PROVE f[s] = step[choice[s]][f[s \ {choice[s]}]]
  <2> DEFINE r == s \ {choice[s]}
  <2>1. choice[s] \in s /\ r \in SUBSET D
    BY <1>8
  <2>2. Cardinality(r) \in Nat /\ Cardinality(s) = Cardinality(r) + 1
    <3>1. IsFiniteSet(s) /\ Cardinality(s) \in Nat /\ Cardinality(r) \in Nat
      BY <1>5, <2>1
    <3>2. Cardinality(r) = Cardinality(s) - 1
      BY <2>1, <3>1, FS_RemoveElement
    <3> QED BY <3>1, <3>2
  <2>3. G[Cardinality(s)] = Next1(G[Cardinality(r)])
    BY <1>4, <2>2
  <2>4. Next1(G[Cardinality(r)])[s] = step[choice[s]][G[Cardinality(r)][r]]
    BY <1>8
  <2>5. f[s] = G[Cardinality(s)][s] /\ f[r] = G[Cardinality(r)][r]
    BY <2>1
  <2> QED BY <2>3, <2>4, <2>5
<1> HIDE DEF f
<1> QED BY <1>6, <1>7, <1>8 DEF IsFold


\* Two sequences with the same elements are one.
LEMMA SameSequence ==
  ASSUME NEW S, NEW a \in Seq(S), NEW b \in Seq(S), Len(a) = Len(b), \A i \in 1..Len(a) : a[i] = b[i]
  PROVE  a = b
OBVIOUS

LEMMA AppendedLast ==
  ASSUME NEW S, NEW a \in Seq(S), NEW b \in Seq(S), NEW e \in S
  PROVE  a \o Append(b, e) = Append(a \o b, e)
<1> DEFINE l == a \o Append(b, e)
           r == Append(a \o b, e)
<1>1. a \o b \in Seq(S) /\ Append(b, e) \in Seq(S)
  OBVIOUS
<1>2. l \in Seq(S) /\ r \in Seq(S) /\ Len(l) = Len(a) + Len(b) + 1 /\ Len(r) = Len(a) + Len(b) + 1
  BY <1>1
<1>3. ASSUME NEW i \in 1..(Len(a) + Len(b) + 1) PROVE l[i] = r[i]
  BY <1>1
<1> HIDE DEF l, r
<1>4. l = r
  BY <1>2, <1>3, SameSequence
<1> QED BY <1>4 DEF l, r

LEMMA MovedOver ==
  ASSUME NEW S, NEW a \in Seq(S), NEW b \in Seq(S), b # <<>>
  PROVE  Append(a, Head(b)) \o Tail(b) = a \o b
<1> DEFINE l == Append(a, Head(b)) \o Tail(b)
           r == a \o b
<1>1. Append(a, Head(b)) \in Seq(S) /\ Tail(b) \in Seq(S)
  OBVIOUS
<1>2. l \in Seq(S) /\ r \in Seq(S) /\ Len(l) = Len(a) + Len(b) /\ Len(r) = Len(a) + Len(b)
  BY <1>1
<1>3. ASSUME NEW i \in 1..(Len(a) + Len(b)) PROVE l[i] = r[i]
  BY <1>1
<1> HIDE DEF l, r
<1>4. l = r
  BY <1>2, <1>3, SameSequence
<1> QED BY <1>4 DEF l, r

-----------------------------------------------------------------------------
(* The once decorator *)

Inside(c) == callerAt[c] \in {"locked", "call", "store", "flag"}
OnceTypes ==
  /\ called \in BOOLEAN /\ onceLock \in Caller \cup {Unset} /\ executions \in Nat
  /\ callerAt \in [Caller -> {"start", "check", "lock", "locked", "call", "store", "flag", "ended"}]
  /\ got \in [Caller -> Outcome \cup {Unset}]

\* What the first call gave has been stored, or nothing has.
StoredOutcome == /\ firstGave \in Outcome /\ executions = 1
                 /\ IF firstGave = Value THEN result = Value /\ exception = Unset ELSE result = Unset /\ exception = firstGave
NothingStored == result = Unset /\ exception = Unset
OnceInv ==
  /\ OnceTypes
  /\ \A c \in Caller : Inside(c) <=> onceLock = c
  /\ called => StoredOutcome
  /\ ~called /\ (\A c \in Caller : callerAt[c] # "flag") => NothingStored
  /\ ~called /\ (\A c \in Caller : callerAt[c] \notin {"store", "flag"}) => executions = 0
  /\ \A c \in Caller : /\ callerAt[c] \in {"check", "ended"} => called
                       /\ callerAt[c] \in {"call", "store", "flag"} => ~called
                       /\ callerAt[c] = "store" => executions = 1 /\ firstGave \in Outcome
                       /\ callerAt[c] = "flag" => StoredOutcome
                       /\ callerAt[c] = "ended" => got[c] = firstGave

LEMMA OnceInitially == OnceInit => OnceInv
<1> SUFFICES ASSUME OnceInit PROVE OnceInv
  OBVIOUS
<1>1. OnceTypes /\ NothingStored
  BY DEF OnceInit, OnceTypes, NothingStored
<1>2. \A c \in Caller : callerAt[c] = "start" /\ onceLock # c
  BY OnceAssumption DEF OnceInit
<1> QED BY <1>1, <1>2 DEF OnceInit, OnceInv, Inside

LEMMA OnceStepKeeps == ASSUME OnceInv, NEW c \in Caller, OnceStep(c) PROVE OnceInv'
<1> USE DEF OnceInv, Goes
<1>1. CASE ReadCalled(c)
  BY <1>1 DEF ReadCalled, OnceTypes, Inside, StoredOutcome, NothingStored
<1>2. CASE ReadException(c)
  <2>1. exception = Unset => result = firstGave
    BY <1>2, OnceAssumption DEF ReadException, StoredOutcome
  <2>2. result \in Outcome \cup {Unset}
    BY <1>2 DEF ReadException, StoredOutcome, Outcome
  <2> QED BY <1>2, <2>1, <2>2 DEF ReadException, NoException, Ends, OnceTypes, Inside, StoredOutcome, NothingStored
<1>3. CASE TakeOnceLock(c)
  BY <1>3, OnceAssumption DEF TakeOnceLock, OnceTypes, Inside, StoredOutcome, NothingStored
<1>4. CASE CheckAgain(c)
  <2>1. called => (IF exception # Unset THEN exception ELSE result) = firstGave /\ firstGave \in Outcome
    BY OnceAssumption DEF StoredOutcome
  <2> QED BY <1>4, <2>1, OnceAssumption DEF CheckAgain, Ends, OnceTypes, Inside, StoredOutcome, NothingStored
<1>5. CASE CallFunction(c)
  <2>1. \A d \in Caller : d # c => callerAt[d] \notin {"store", "flag", "call"}
    BY <1>5 DEF CallFunction, Inside
  <2> QED BY <1>5, <2>1 DEF CallFunction, OnceTypes, Inside, StoredOutcome, NothingStored
<1>6. CASE StoreOutcome(c)
  <2>1. \A d \in Caller : d # c => callerAt[d] \notin {"store", "flag", "call"}
    BY <1>6 DEF StoreOutcome, Inside
  <2>2. NothingStored /\ ~called
    BY <1>6, <2>1 DEF StoreOutcome
  <2>3. /\ callerAt' = [callerAt EXCEPT ![c] = "flag"] /\ called' = called
        /\ UNCHANGED <<onceLock, got, firstGave, executions>>
    BY <1>6 DEF StoreOutcome, Store
  <2>4. StoredOutcome'
    BY <1>6, <2>2, <2>3 DEF StoreOutcome, Store, StoredOutcome, NothingStored
  <2> QED BY <1>6, <2>1, <2>2, <2>3, <2>4 DEF StoreOutcome, OnceTypes, Inside
<1>7. CASE SetCalled(c)
  <2>1. \A d \in Caller : d # c => callerAt[d] \notin {"store", "flag", "call", "locked"}
    BY <1>7 DEF SetCalled, Inside
  <2>2. StoredOutcome
    BY <1>7 DEF SetCalled
  <2> QED BY <1>7, <2>1, <2>2, OnceAssumption DEF SetCalled, SetFlag, Ends, OnceTypes, Inside, StoredOutcome
<1> QED BY <1>1, <1>2, <1>3, <1>4, <1>5, <1>6, <1>7 DEF OnceStep

LEMMA OnceNextKeeps == ASSUME OnceInv, [OnceNext]_onceVars PROVE OnceInv'
<1>1. CASE UNCHANGED onceVars
  BY <1>1 DEF onceVars, OnceInv, OnceTypes, Inside, StoredOutcome, NothingStored
<1> QED BY <1>1, OnceStepKeeps DEF OnceNext

LEMMA OnceInvImplies == OnceInv => OneRunForAll
<1> SUFFICES ASSUME OnceInv PROVE OneRunForAll
  OBVIOUS
<1>1. executions <= 1
  BY DEF OnceInv, OnceTypes, StoredOutcome
<1> QED BY <1>1, OnceAssumption DEF OnceInv, OneRunForAll, StoredOutcome

-----------------------------------------------------------------------------
(* The retries *)

\* The powers of a number, by induction on how many of them there are.
LEMMA PowerIs ==
  ASSUME NEW base \in Int
  PROVE  Power(base, 0) = 1 /\ \A n \in Nat : Power(base, n) \in Int /\ Power(base, n + 1) = Power(base, n) * base
<1> DEFINE Rule(g) == g = [k \in Nat |-> IF k = 0 THEN 1 ELSE g[k - 1] * base]
           P == CHOOSE g : Rule(g)
<1>1. PICK F \in [Nat -> Int] : F[0] = 1 /\ \A n \in Nat : F[n + 1] = F[n] * base
  <2> DEFINE times == [x \in Int |-> x * base]
  <2>1. times \in [Int -> Int] /\ \A x \in Int : times[x] = x * base
    OBVIOUS
  <2> HIDE DEF times
  <2>2. 1 \in Int
    OBVIOUS
  <2>3. PICK F : Steps(F, Int, 1, times)
    BY <2>1, <2>2, StepByStep, Zenon
  <2>4. \A n \in Nat : F[n + 1] = F[n] * base
    BY <2>1, <2>3 DEF Steps
  <2> QED BY <2>3, <2>4 DEF Steps
<1>2. Rule(F)
  <2>1. \A k \in Nat : k = 0 \/ (k - 1 \in Nat /\ (k - 1) + 1 = k)
    OBVIOUS
  <2> QED BY <1>1, <2>1
<1>3. P = [k \in Nat |-> IF k = 0 THEN 1 ELSE P[k - 1] * base]
  <2>1. Rule(P)
    <3> HIDE DEF Rule
    <3> QED BY <1>2
  <2> HIDE DEF P
  <2> QED BY <2>1
<1>4. \A n \in Nat : Power(base, n) = P[n]
  BY DEF Power
<1> HIDE DEF P
<1>5. P[0] = 1 /\ \A n \in Nat : P[n + 1] = P[n] * base
  BY <1>3
<1>6. {n \in Nat : P[n] \in Int} = Nat
  <2> DEFINE V == {n \in Nat : P[n] \in Int}
  <2>1. V \subseteq Nat /\ 0 \in V /\ \A n \in V : n + 1 \in V
    BY <1>5
  <2> HIDE DEF V
  <2>2. V = Nat
    BY <2>1, AllNumbers
  <2> QED BY <2>2 DEF V
<1> QED BY <1>4, <1>5, <1>6

RetryInv ==
  /\ flavour \in {"decorator", "async", "policy"} /\ retryPolicy \in Policies
  /\ attempt \in Nat \ {0} /\ currentDelay \in Int /\ sleeps \in Seq(Int) /\ Len(sleeps) = attempt - 1
  /\ retryAt \in {"refused", "call", "on_error", "failed", "returned", "raised"}
  \* The delay of the decorators has been multiplied as often as there were waits.
  /\ flavour # "policy" => /\ retryPolicy.max_delay = Unbounded
                           /\ currentDelay = retryPolicy.delay * Power(retryPolicy.backoff, attempt - 1)
  /\ retryAt # "refused" => attempt <= retryPolicy.max_attempts
  /\ retryAt = "raised" /\ failure = "listed" => attempt = retryPolicy.max_attempts
  /\ \A k \in 1..Len(sleeps) : sleeps[k] \in Exponential(k)..(Exponential(k) + retryPolicy.jitter)

LEMMA RetryInitially == RetryInit => RetryInv
<1> SUFFICES ASSUME RetryInit PROVE RetryInv
  OBVIOUS
<1>1. retryPolicy.max_attempts \in Int /\ retryPolicy.delay \in Int /\ retryPolicy.backoff \in Int
  BY RetryAssumption DEF RetryInit, Policies
<1>2. Power(retryPolicy.backoff, 1 - 1) = 1
  <2>1. 1 - 1 = 0
    OBVIOUS
  <2> QED BY <1>1, <2>1, PowerIs
<1>3. retryPolicy.delay * 1 = retryPolicy.delay
  BY <1>1
<1>4. attempt - 1 = 0 /\ currentDelay = retryPolicy.delay * Power(retryPolicy.backoff, attempt - 1)
  BY <1>2, <1>3 DEF RetryInit
<1> QED BY <1>1, <1>4 DEF RetryInit, RetryInv

LEMMA RetryStepKeeps == ASSUME RetryInv, [RetryStep]_retryVars PROVE RetryInv'
<1>1. CASE \/ UNCHANGED retryVars \/ Returns \/ RaisesOther \/ RaisesListed \/ OnError \/ GiveUp
  <2>1. UNCHANGED <<flavour, retryPolicy, attempt, currentDelay, sleeps>>
    BY <1>1 DEF retryVars, Returns, RaisesOther, RaisesListed, OnError, GiveUp
  <2>2. \A k : Exponential(k)' = Exponential(k)
    BY <2>1 DEF Exponential, Capped
  <2>3. /\ retryAt' \in {"refused", "call", "on_error", "failed", "returned", "raised"}
        /\ retryAt' # "refused" => retryAt # "refused"
        /\ retryAt' = "raised" /\ failure' = "listed" => attempt = retryPolicy.max_attempts
    BY <1>1 DEF retryVars, Returns, RaisesOther, RaisesListed, OnError, GiveUp, IsLast, RetryInv
  <2> QED BY <2>1, <2>2, <2>3 DEF RetryInv
<1>2. CASE SleepAndRetry
  <2> DEFINE p == retryPolicy
             a == attempt
  <2>1. /\ UNCHANGED <<flavour, retryPolicy, failure>> /\ retryAt = "failed" /\ a # p.max_attempts
        /\ currentDelay' = currentDelay * p.backoff /\ attempt' = a + 1 /\ retryAt' = "call"
    BY <1>2 DEF SleepAndRetry, IsLast
  <2>2. PICK jitter \in 0..p.jitter : sleeps' = Append(sleeps, SleepTime(jitter))
    BY <1>2 DEF SleepAndRetry
  <2>3. /\ p.max_attempts \in Int /\ p.delay \in Int /\ p.backoff \in Int /\ p.jitter \in Int
        /\ p.max_delay # Unbounded => p.max_delay \in Int
        /\ a \in Nat \ {0} /\ a - 1 \in Nat /\ currentDelay \in Int
    <3>1. p \in Policies
      BY DEF RetryInv
    <3>2. p.max_attempts \in Int /\ p.delay \in Int /\ p.backoff \in Int /\ p.jitter \in Int
      BY <3>1, RetryAssumption DEF Policies
    <3>3. p.max_delay # Unbounded => p.max_delay \in Int
      BY <3>1, RetryAssumption DEF Policies
    <3> QED BY <3>2, <3>3 DEF RetryInv
  <2>4. /\ Power(p.backoff, a - 1) \in Int /\ Power(p.backoff, a) = Power(p.backoff, a - 1) * p.backoff
        /\ Power(p.backoff, a) \in Int
    <3>1. (a - 1) + 1 = a
      BY <2>3
    <3> QED BY <2>3, <3>1, PowerIs
  <2>5. p.delay * Power(p.backoff, a - 1) \in Int
    BY <2>3, <2>4
  <2>6. Exponential(a) \in Int
    BY <2>3, <2>5 DEF Exponential, Capped
  <2>7. SleepTime(jitter) = Exponential(a) + jitter
    <3>1. CASE flavour = "policy"
      BY <3>1 DEF SleepTime, PolicyDelay, Exponential
    <3>2. CASE flavour # "policy"
      BY <3>2 DEF SleepTime, Exponential, Capped, RetryInv
    <3> QED BY <3>1, <3>2
  <2>8. SleepTime(jitter) \in Exponential(a)..(Exponential(a) + p.jitter) /\ SleepTime(jitter) \in Int
    BY <2>2, <2>3, <2>6, <2>7
  <2>9. /\ sleeps' \in Seq(Int) /\ Len(sleeps') = a /\ sleeps'[a] = SleepTime(jitter)
        /\ \A k \in 1..(a - 1) : sleeps'[k] = sleeps[k]
    BY <2>2, <2>3, <2>8 DEF RetryInv
  <2>10. \A k : Exponential(k)' = Exponential(k)
    BY <2>1 DEF Exponential, Capped
  <2>11. \A k \in 1..Len(sleeps') : sleeps'[k] \in Exponential(k)..(Exponential(k) + p.jitter)
    <3> TAKE k \in 1..Len(sleeps')
    <3>1. k = a \/ k \in 1..(a - 1)
      BY <2>3, <2>9
    <3> QED BY <2>8, <2>9, <3>1 DEF RetryInv
  <2>12. currentDelay' \in Int /\ (flavour # "policy" => currentDelay' = p.delay * Power(p.backoff, a))
    <3>1. \A x, y, z \in Int : (x * y) * z = x * (y * z) /\ x * y \in Int
      OBVIOUS
    <3>2. (p.delay * Power(p.backoff, a - 1)) * p.backoff = p.delay * Power(p.backoff, a)
      BY <2>3, <2>4, <3>1
    <3> QED BY <2>1, <2>3, <3>1, <3>2 DEF RetryInv
  <2>13. attempt' \in Nat \ {0} /\ attempt' - 1 = a /\ attempt' <= p.max_attempts
    BY <2>1, <2>3 DEF RetryInv
  <2> QED BY <2>1, <2>9, <2>10, <2>11, <2>12, <2>13 DEF RetryInv
<1> QED BY <1>1, <1>2 DEF RetryStep

LEMMA RetryInvImplies == RetryInv => RetriesAsDocumented
<1> SUFFICES ASSUME RetryInv PROVE RetriesAsDocumented
  OBVIOUS
<1>1. DOMAIN sleeps = 1..Len(sleeps)
  BY DEF RetryInv
<1> QED BY <1>1 DEF RetryInv, RetriesAsDocumented

-----------------------------------------------------------------------------
(* The cached property *)

GetterFrame == [cell : Cell, at : {"lock", "look", "return"}]
PropertyTypes ==
  /\ needs \in [Cell -> Cell \cup {NoCell}] /\ dict \in [Cell -> Nat]
  /\ propertyLock \in [Property -> Reader \cup {Unset}] /\ getting \in [Reader -> Seq(GetterFrame)]
  /\ read \in [Reader -> {<<>>} \cup (Cell \X Nat)] /\ computations \in Nat

\* A call of __get__ past its lock holds it; one that reads another property, or is about to
\* return, has found nothing stored.
WellStacked(r) ==
  \A k \in 1..Len(getting[r]) :
    /\ getting[r][k].at # "lock" => propertyLock[getting[r][k].cell[2]] = r
    /\ k < Len(getting[r]) => getting[r][k].at = "look" /\ dict[getting[r][k].cell] = 0
    /\ getting[r][k].at = "return" => dict[getting[r][k].cell] = 0

\* A lock is held for a call.
LocksAreUsed ==
  \A p \in Property, r \in Reader :
    propertyLock[p] = r => \E k \in 1..Len(getting[r]) : getting[r][k].at # "lock" /\ getting[r][k].cell[2] = p

Stored == {cell \in Cell : dict[cell] # 0}
Accounted ==
  /\ computations = Cardinality(Stored)
  /\ \A r \in Reader : read[r] # <<>> /\ read[r][2] # 0 => dict[read[r][1]] = read[r][2]

\* The calls of a reader go down, in the order of what reads what and in any order of properties.
RanksFall(rank) ==
  \A r \in Reader : \A i, j \in 1..Len(getting[r]) :
    i < j => rank[getting[r][j].cell] < rank[getting[r][i].cell]
PropertiesFall(order) ==
  \A r \in Reader : \A i, j \in 1..Len(getting[r]) :
    i < j => \/ getting[r][j].cell[2] = getting[r][i].cell[2]
             \/ order[getting[r][j].cell[2]] < order[getting[r][i].cell[2]]
StacksFall ==
  /\ \E rank \in Rank : Falls(needs, rank) /\ RanksFall(rank)
  /\ \A order \in Order : Ordered(order) => PropertiesFall(order)

PropertyInv ==
  PropertyTypes /\ (\A r \in Reader : WellStacked(r)) /\ LocksAreUsed /\ Accounted /\ StacksFall

LEMMA CellsAre ==
  /\ IsFiniteSet(Cell) /\ Cardinality(Cell) \in Nat /\ Cardinality(Property) \in Nat /\ NoCell \notin Cell
  /\ \A cell \in Cell : cell[2] \in Property
<1>1. IsFiniteSet(1..NumInstances)
  BY FS_Interval, PropertyAssumption
<1>2. IsFiniteSet(Cell)
  BY <1>1, FS_Product, PropertyAssumption DEF Cell
<1>3. NoCell \notin Cell
  <2>1. \A cell \in Cell : Len(cell) = 2
    BY DEF Cell
  <2>2. Len(NoCell) = 1
    BY DEF NoCell
  <2> QED BY <2>1, <2>2
<1> QED BY <1>2, <1>3, FS_CardinalityType, PropertyAssumption DEF Cell

LEMMA PropertyInitially == PropertyInit => PropertyInv
<1> SUFFICES ASSUME PropertyInit PROVE PropertyInv
  OBVIOUS
<1>1. PropertyTypes
  BY DEF PropertyInit, PropertyTypes, Getters
<1>2. \A r \in Reader : Len(getting[r]) = 0
  BY DEF PropertyInit
<1>3. Stored = {}
  BY DEF PropertyInit, Stored
<1>4. Accounted
  BY <1>3, FS_EmptySet DEF PropertyInit, Accounted
<1>5. StacksFall
  BY <1>2 DEF PropertyInit, Getters, StacksFall, RanksFall, PropertiesFall
<1>6. LocksAreUsed
  BY PropertyAssumption DEF PropertyInit, LocksAreUsed
<1> QED BY <1>1, <1>2, <1>4, <1>5, <1>6 DEF PropertyInv, WellStacked

\* What is on a stack of calls, without the innermost.
LEMMA StackIs ==
  ASSUME PropertyTypes, NEW r \in Reader, getting[r] # <<>>
  PROVE  /\ getting[r] \in Seq(GetterFrame) /\ Len(getting[r]) \in Nat \ {0}
         /\ TopCall(r) = getting[r][Len(getting[r])] /\ TopCall(r) \in GetterFrame
         /\ Outer(r) \in Seq(GetterFrame) /\ Len(Outer(r)) = Len(getting[r]) - 1
         /\ \A k \in 1..(Len(getting[r]) - 1) : Outer(r)[k] = getting[r][k]
<1>1. getting[r] \in Seq(GetterFrame)
  BY DEF PropertyTypes
<1> DEFINE st == getting[r]
<1> HIDE DEF st
<1>2. st \in Seq(GetterFrame) /\ st # <<>>
  BY <1>1 DEF st
<1>3. Len(st) \in Nat \ {0} /\ st[Len(st)] \in GetterFrame
  BY <1>2
<1>4. Len(st) - 1 \in 0..Len(st)
  BY <1>3
<1>5. ASSUME NEW m \in 0..Len(st)
      PROVE  /\ SubSeq(st, 1, m) \in Seq(GetterFrame) /\ Len(SubSeq(st, 1, m)) = m
             /\ \A k \in 1..m : SubSeq(st, 1, m)[k] = st[k]
  BY <1>2, <1>3
<1> QED BY <1>2, <1>3, <1>4, <1>5 DEF st, TopCall, Outer

\* The innermost call goes on to another place.
LEMMA AtIs ==
  ASSUME PropertyTypes, NEW r \in Reader, getting[r] # <<>>, NEW place \in {"lock", "look", "return"},
         NEW st, st = Append(Outer(r), [TopCall(r) EXCEPT !.at = place])
  PROVE  /\ st \in Seq(GetterFrame) /\ Len(st) = Len(getting[r])
         /\ \A k \in 1..Len(st) : st[k].cell = getting[r][k].cell
         /\ \A k \in 1..(Len(st) - 1) : st[k] = getting[r][k]
         /\ st[Len(st)].at = place
<1> DEFINE top == [TopCall(r) EXCEPT !.at = place]
           n == Len(getting[r])
<1>1. /\ n \in Nat \ {0} /\ TopCall(r) = getting[r][n] /\ TopCall(r) \in GetterFrame
      /\ Outer(r) \in Seq(GetterFrame) /\ Len(Outer(r)) = n - 1 /\ \A k \in 1..(n - 1) : Outer(r)[k] = getting[r][k]
  BY StackIs
<1>2. top \in GetterFrame /\ top.cell = TopCall(r).cell /\ top.at = place
  BY <1>1 DEF GetterFrame
<1> HIDE DEF top, n
<1>3. /\ Append(Outer(r), top) \in Seq(GetterFrame) /\ Len(Append(Outer(r), top)) = n
      /\ \A k \in 1..(n - 1) : Append(Outer(r), top)[k] = Outer(r)[k]
      /\ Append(Outer(r), top)[n] = top
  BY <1>1, <1>2
<1>4. st = Append(Outer(r), top)
  BY DEF top
<1>5. \A k \in 1..n : k \in 1..(n - 1) \/ k = n
  BY <1>1
<1> QED BY <1>1, <1>2, <1>3, <1>4, <1>5 DEF n

\* The innermost call returns to the one that made it, if any.
ReturnedStack(r) == IF Outer(r) = <<>> THEN <<>> ELSE [Outer(r) EXCEPT ![Len(Outer(r))].at = "return"]
LEMMA ReturnIs ==
  ASSUME PropertyTypes, NEW r \in Reader, getting[r] # <<>>, NEW st, st = ReturnedStack(r)
  PROVE  /\ st \in Seq(GetterFrame) /\ Len(st) = Len(getting[r]) - 1
         /\ \A k \in 1..Len(st) : st[k].cell = getting[r][k].cell
         /\ \A k \in 1..Len(st) : st[k].at = IF k < Len(st) THEN getting[r][k].at ELSE "return"
         /\ Outer(r) = <<>> <=> Len(getting[r]) = 1
         /\ \A p : p \in StillHeld(Outer(r)) <=> \E k \in 1..Len(st) : st[k].cell[2] = p
<1> DEFINE o == Outer(r)
           n == Len(getting[r])
<1>1. n \in Nat \ {0} /\ o \in Seq(GetterFrame) /\ Len(o) = n - 1 /\ \A k \in 1..(n - 1) : o[k] = getting[r][k]
  BY StackIs
<1> HIDE DEF o, n
<1>2. o = <<>> <=> n = 1
  BY <1>1
<1>3. CASE n = 1
  <2>1. st = <<>> /\ Len(st) = 0 /\ o = <<>>
    BY <1>1, <1>2, <1>3 DEF ReturnedStack, o
  <2>2. StillHeld(o) = {}
    BY <2>1 DEF StillHeld
  <2> QED BY <1>1, <1>2, <1>3, <2>1, <2>2 DEF o, n
<1>4. CASE n # 1
  <2>1. st = [o EXCEPT ![Len(o)].at = "return"]
    BY <1>2, <1>4 DEF ReturnedStack, o
  <2>2. Len(o) \in 1..Len(o) /\ Len(o) \in Nat /\ DOMAIN o = 1..Len(o) /\ \A k \in 1..Len(o) : o[k] \in GetterFrame
    BY <1>1, <1>4
  <2>3. [o[Len(o)] EXCEPT !.at = "return"] \in GetterFrame /\ [o[Len(o)] EXCEPT !.at = "return"].cell = o[Len(o)].cell
        /\ [o[Len(o)] EXCEPT !.at = "return"].at = "return"
    BY <2>2 DEF GetterFrame
  <2>4. st = [o EXCEPT ![Len(o)] = [o[Len(o)] EXCEPT !.at = "return"]]
    BY <2>1
  <2>5. st \in Seq(GetterFrame) /\ Len(st) = Len(o) /\ DOMAIN st = 1..Len(o)
        /\ \A k \in 1..Len(o) : st[k] = IF k = Len(o) THEN [o[Len(o)] EXCEPT !.at = "return"] ELSE o[k]
    <3> DEFINE x == [o[Len(o)] EXCEPT !.at = "return"]
    <3> HIDE DEF x
    <3>1. o \in Seq(GetterFrame) /\ Len(o) \in 1..Len(o) /\ x \in GetterFrame /\ st = [o EXCEPT ![Len(o)] = x]
      BY <1>1, <2>2, <2>3, <2>4 DEF x
    <3>2. st \in Seq(GetterFrame) /\ Len(st) = Len(o) /\ DOMAIN st = 1..Len(o)
      BY <3>1
    <3>3. \A k \in 1..Len(o) : st[k] = IF k = Len(o) THEN x ELSE o[k]
      BY <2>2, <3>1
    <3> QED BY <3>2, <3>3 DEF x
  <2>6. \A k \in 1..Len(o) : st[k].cell = o[k].cell /\ st[k].at = IF k < Len(o) THEN o[k].at ELSE "return"
    <3> TAKE k \in 1..Len(o)
    <3>1. CASE k = Len(o)
      <4>1. st[Len(o)] = [o[Len(o)] EXCEPT !.at = "return"]
        BY <2>2, <2>5
      <4> QED BY <2>3, <3>1, <4>1
    <3>2. CASE k # Len(o)
      <4>1. k < Len(o) /\ st[k] = o[k]
        BY <2>2, <2>5, <3>2
      <4> QED BY <4>1
    <3> QED BY <3>1, <3>2
  <2>7. \A p : p \in StillHeld(o) <=> \E k \in 1..Len(o) : o[k].cell[2] = p
    BY <2>2 DEF StillHeld
  <2>8. \A k \in 1..Len(o) : o[k] = getting[r][k]
    BY <1>1
  <2>9. /\ st \in Seq(GetterFrame) /\ Len(st) = n - 1
        /\ \A k \in 1..Len(st) : st[k].cell = getting[r][k].cell
        /\ \A k \in 1..Len(st) : st[k].at = IF k < Len(st) THEN getting[r][k].at ELSE "return"
    BY <1>1, <2>5, <2>6, <2>8
  <2>10. \A p : p \in StillHeld(o) <=> \E k \in 1..Len(st) : st[k].cell[2] = p
    BY <2>5, <2>6, <2>7
  <2> QED BY <1>2, <2>9, <2>10 DEF o, n
<1> QED BY <1>3, <1>4

\* A stack that is cut, that begins, or that grows by what its top reads keeps falling.
LEMMA StacksKeepFalling ==
  ASSUME PropertyInv, NEW r \in Reader, NEW st \in Seq(GetterFrame), needs' = needs,
         getting' = [getting EXCEPT ![r] = st],
         \/ Len(st) <= 1
         \/ Len(st) <= Len(getting[r]) /\ \A k \in 1..Len(st) : st[k].cell = getting[r][k].cell
         \/ /\ getting[r] # <<>> /\ Len(st) = Len(getting[r]) + 1
            /\ \A k \in 1..Len(getting[r]) : st[k].cell = getting[r][k].cell
            /\ st[Len(st)].cell = needs[TopCall(r).cell] /\ needs[TopCall(r).cell] # NoCell
  PROVE  StacksFall'
<1> DEFINE Cut == Len(st) <= Len(getting[r]) /\ \A k \in 1..Len(st) : st[k].cell = getting[r][k].cell
           Grown == /\ getting[r] # <<>> /\ Len(st) = Len(getting[r]) + 1
                    /\ \A k \in 1..Len(getting[r]) : st[k].cell = getting[r][k].cell
                    /\ st[Len(st)].cell = needs[TopCall(r).cell] /\ needs[TopCall(r).cell] # NoCell
<1>1. getting[r] \in Seq(GetterFrame) /\ Len(getting[r]) \in Nat /\ Len(st) \in Nat /\ needs \in [Cell -> Cell \cup {NoCell}]
  BY DEF PropertyInv, PropertyTypes
<1>2. getting'[r] = st /\ \A s \in Reader : s # r => getting'[s] = getting[s]
  BY DEF PropertyInv, PropertyTypes
<1>3. Grown => /\ Len(getting[r]) \in 1..Len(getting[r])
               /\ TopCall(r).cell = getting[r][Len(getting[r])].cell /\ TopCall(r).cell \in Cell
               /\ \A k \in 1..Len(getting[r]) : getting[r][k].cell \in Cell
  <2> SUFFICES ASSUME Grown PROVE /\ Len(getting[r]) \in 1..Len(getting[r])
               /\ TopCall(r).cell = getting[r][Len(getting[r])].cell /\ TopCall(r).cell \in Cell
               /\ \A k \in 1..Len(getting[r]) : getting[r][k].cell \in Cell
    OBVIOUS
  <2>1. /\ Len(getting[r]) \in Nat \ {0} /\ TopCall(r) = getting[r][Len(getting[r])] /\ TopCall(r) \in GetterFrame
    BY StackIs DEF PropertyInv
  <2>2. \A k \in 1..Len(getting[r]) : getting[r][k] \in GetterFrame
    BY <1>1
  <2> QED BY <2>1, <2>2 DEF GetterFrame
<1>4. ASSUME NEW rank \in Rank, Falls(needs, rank), RanksFall(rank)
      PROVE  \A i, j \in 1..Len(st) : i < j => rank[st[j].cell] < rank[st[i].cell]
  <2> SUFFICES ASSUME NEW i \in 1..Len(st), NEW j \in 1..Len(st), i < j PROVE rank[st[j].cell] < rank[st[i].cell]
    OBVIOUS
  <2>1. CASE Len(st) <= 1
    BY <1>1, <2>1
  <2>2. CASE Cut
    <3>1. i \in 1..Len(getting[r]) /\ j \in 1..Len(getting[r])
      BY <1>1, <2>2
    <3> QED BY <1>4, <2>2, <3>1 DEF RanksFall
  <2>3. CASE Grown
    <3>1. i \in 1..Len(getting[r]) /\ (j \in 1..Len(getting[r]) \/ j = Len(st))
      BY <1>1, <2>3
    <3>2. CASE j \in 1..Len(getting[r])
      BY <1>4, <2>3, <3>1, <3>2 DEF RanksFall
    <3>3. CASE j = Len(st)
      <4> DEFINE n == Len(getting[r])
      <4>1. rank[st[j].cell] < rank[getting[r][n].cell]
        BY <1>1, <1>3, <1>4, <2>3, <3>3 DEF Falls
      <4>2. i = n \/ rank[getting[r][n].cell] < rank[getting[r][i].cell]
        <5>1. i \in 1..n /\ n \in 1..n /\ (i = n \/ i < n)
          BY <1>1, <1>3, <2>3, <3>1
        <5> QED BY <1>4, <5>1 DEF RanksFall
      <4>3. /\ rank[st[j].cell] \in Int /\ rank[getting[r][n].cell] \in Int /\ rank[getting[r][i].cell] \in Int
            /\ st[i].cell = getting[r][i].cell
        <5>1. st[j].cell \in Cell /\ getting[r][n].cell \in Cell /\ getting[r][i].cell \in Cell /\ st[i].cell = getting[r][i].cell
          BY <1>1, <1>3, <2>3, <3>1, <3>3
        <5>2. \A cell \in Cell : rank[cell] \in Int
          BY CellsAre DEF Rank
        <5> QED BY <5>1, <5>2
      <4> QED BY <4>1, <4>2, <4>3, SMTT(30)
    <3> QED BY <3>1, <3>2, <3>3
  <2> QED BY <2>1, <2>2, <2>3
<1>5. ASSUME NEW order \in Order, Ordered(order), PropertiesFall(order)
      PROVE  \A i, j \in 1..Len(st) : i < j => \/ st[j].cell[2] = st[i].cell[2]
                                               \/ order[st[j].cell[2]] < order[st[i].cell[2]]
  <2> SUFFICES ASSUME NEW i \in 1..Len(st), NEW j \in 1..Len(st), i < j
               PROVE  st[j].cell[2] = st[i].cell[2] \/ order[st[j].cell[2]] < order[st[i].cell[2]]
    OBVIOUS
  <2>1. CASE Len(st) <= 1
    BY <1>1, <2>1
  <2>2. CASE Cut
    <3>1. i \in 1..Len(getting[r]) /\ j \in 1..Len(getting[r])
      BY <1>1, <2>2
    <3> QED BY <1>5, <2>2, <3>1 DEF PropertiesFall
  <2>3. CASE Grown
    <3>1. i \in 1..Len(getting[r]) /\ (j \in 1..Len(getting[r]) \/ j = Len(st))
      BY <1>1, <2>3
    <3>2. CASE j \in 1..Len(getting[r])
      BY <1>5, <2>3, <3>1, <3>2 DEF PropertiesFall
    <3>3. CASE j = Len(st)
      <4> DEFINE n == Len(getting[r])
                 low == st[j].cell[2]
                 mid == getting[r][n].cell[2]
                 high == getting[r][i].cell[2]
      <4>1. low = mid \/ order[low] < order[mid]
        BY <1>1, <1>3, <1>5, <2>3, <3>3 DEF Ordered
      <4>2. mid = high \/ order[mid] < order[high]
        BY <1>1, <1>3, <1>5, <2>3, <3>1, SMTT(30) DEF PropertiesFall
      <4>3. low \in Property /\ mid \in Property /\ high \in Property /\ st[i].cell[2] = high
        BY <1>1, <1>3, <2>3, <3>1, <3>3, CellsAre
      <4>4. order[low] \in Int /\ order[mid] \in Int /\ order[high] \in Int
        BY <4>3, CellsAre, SMTT(30) DEF Order
      <4> HIDE DEF low, mid, high
      <4>5. low = high \/ order[low] < order[high]
        BY <4>1, <4>2, <4>4
      <4> QED BY <4>3, <4>5 DEF low
    <3> QED BY <3>1, <3>2, <3>3
  <2> QED BY <2>1, <2>2, <2>3
<1>6. PICK rank \in Rank : Falls(needs, rank) /\ RanksFall(rank)
  BY DEF PropertyInv, StacksFall
<1>7. RanksFall(rank)'
  <2>1. \A i, j \in 1..Len(st) : i < j => rank[st[j].cell] < rank[st[i].cell]
    BY <1>4, <1>6
  <2> HIDE DEF Cut, Grown
  <2>2. ASSUME NEW s \in Reader, NEW i \in 1..Len(getting'[s]), NEW j \in 1..Len(getting'[s]), i < j
        PROVE  rank[getting'[s][j].cell] < rank[getting'[s][i].cell]
    <3>1. CASE s = r
      <4>1. getting'[s] = st
        BY <1>2, <3>1
      <4> QED BY <2>1, <2>2, <4>1
    <3>2. CASE s # r
      <4>1. getting'[s] = getting[s]
        BY <1>2, <3>2
      <4>2. \A k, l \in 1..Len(getting[s]) : k < l => rank[getting[s][l].cell] < rank[getting[s][k].cell]
        BY <1>6 DEF RanksFall
      <4> QED BY <2>2, <4>1, <4>2
    <3> QED BY <3>1, <3>2
  <2> QED BY <2>2, Zenon DEF RanksFall
<1>8. ASSUME NEW order \in Order, Ordered(order)' PROVE PropertiesFall(order)'
  <2>1. Ordered(order) /\ PropertiesFall(order)
    BY <1>8 DEF Ordered, PropertyInv, StacksFall
  <2> QED BY <1>2, <1>5, <2>1 DEF PropertiesFall
<1>9. Falls(needs', rank)
  BY <1>6 DEF Falls
<1> QED BY <1>7, <1>8, <1>9 DEF StacksFall

\* What a step of one reader leaves as it is for the others.
LEMMA OthersStay ==
  ASSUME PropertyInv, NEW r \in Reader, PropertyTypes',
         \A s \in Reader : s # r => getting'[s] = getting[s],
         \A p \in Property : \A s \in Reader : s # r => (propertyLock'[p] = s <=> propertyLock[p] = s),
         \A cell \in Cell : dict'[cell] = dict[cell] \/ propertyLock[cell[2]] = r,
         WellStacked(r)',
         \A p \in Property : propertyLock'[p] = r =>
           \E k \in 1..Len(getting'[r]) : getting'[r][k].at # "lock" /\ getting'[r][k].cell[2] = p
  PROVE  (\A s \in Reader : WellStacked(s)') /\ LocksAreUsed'
<1>1. ASSUME NEW s \in Reader, s # r PROVE WellStacked(s)'
  <2> SUFFICES ASSUME NEW k \in 1..Len(getting[s])
               PROVE  /\ getting[s][k].at # "lock" => propertyLock'[getting[s][k].cell[2]] = s
                      /\ k < Len(getting[s]) => getting[s][k].at = "look" /\ dict'[getting[s][k].cell] = 0
                      /\ getting[s][k].at = "return" => dict'[getting[s][k].cell] = 0
    BY <1>1 DEF WellStacked
  <2>1. getting[s][k].cell \in Cell /\ getting[s][k].cell[2] \in Property
    <3>1. getting[s] \in Seq(GetterFrame)
      BY DEF PropertyInv, PropertyTypes
    <3>2. getting[s][k] \in GetterFrame
      BY <3>1
    <3> QED BY <3>2, CellsAre DEF GetterFrame
  <2>2. /\ getting[s][k].at # "lock" => propertyLock[getting[s][k].cell[2]] = s
        /\ k < Len(getting[s]) => getting[s][k].at = "look" /\ dict[getting[s][k].cell] = 0
        /\ getting[s][k].at = "return" => dict[getting[s][k].cell] = 0
    BY DEF PropertyInv, WellStacked
  <2>3. getting[s][k].at # "lock" => dict'[getting[s][k].cell] = dict[getting[s][k].cell]
    BY <1>1, <2>1, <2>2
  <2> QED BY <1>1, <2>1, <2>2, <2>3
<1>2. LocksAreUsed'
  <2> SUFFICES ASSUME NEW p \in Property, NEW s \in Reader, propertyLock'[p] = s
               PROVE  \E k \in 1..Len(getting'[s]) : getting'[s][k].at # "lock" /\ getting'[s][k].cell[2] = p
    BY DEF LocksAreUsed
  <2>1. CASE s = r
    BY <2>1
  <2>2. CASE s # r
    BY <2>2 DEF PropertyInv, LocksAreUsed
  <2> QED BY <2>1, <2>2
<1> QED BY <1>1, <1>2

LEMMA AccessKeeps == ASSUME PropertyInv, NEW r \in Reader, Access(r) PROVE PropertyInv'
<1>1. PICK cell \in Cell : getting' = [getting EXCEPT ![r] = <<Get(cell)>>]
  BY DEF Access
<1> DEFINE st == <<Get(cell)>>
<1>2. st \in Seq(GetterFrame) /\ Len(st) = 1 /\ st[1] = Get(cell) /\ Get(cell).at = "lock"
  BY DEF Get, GetterFrame
<1> HIDE DEF st
<1>3. getting' = [getting EXCEPT ![r] = st] /\ UNCHANGED <<needs, dict, propertyLock, read, computations>> /\ getting[r] = <<>>
  BY <1>1 DEF Access, st
<1>4. getting'[r] = st /\ (\A s \in Reader : s # r => getting'[s] = getting[s]) /\ PropertyTypes'
  BY <1>2, <1>3 DEF PropertyInv, PropertyTypes
<1>5. StacksFall'
  <2>1. Len(st) <= 1
    BY <1>2
  <2> QED BY <1>2, <1>3, <2>1, StacksKeepFalling
<1>6. WellStacked(r)'
  <2> SUFFICES ASSUME NEW k \in 1..Len(st) PROVE st[k].at = "lock" /\ ~(k < Len(st))
    BY <1>4 DEF WellStacked
  <2>1. k = 1
    BY <1>2
  <2> QED BY <1>2, <2>1
<1>7. \A p \in Property : propertyLock'[p] # r
  <2>1. Len(getting[r]) = 0
    BY <1>3
  <2> QED BY <1>3, <2>1 DEF PropertyInv, LocksAreUsed
<1>8. Accounted'
  BY <1>3 DEF PropertyInv, Accounted, Stored
<1> QED BY <1>3, <1>4, <1>5, <1>6, <1>7, <1>8, OthersStay DEF PropertyInv

LEMMA TakePropertyLockKeeps == ASSUME PropertyInv, NEW r \in Reader, TakePropertyLock(r) PROVE PropertyInv'
<1> DEFINE st == Append(Outer(r), [TopCall(r) EXCEPT !.at = "look"])
           q == TopCall(r).cell[2]
           n == Len(getting[r])
<1>1. /\ getting[r] # <<>> /\ TopCall(r).at = "lock" /\ propertyLock[q] \in {Unset, r}
      /\ propertyLock' = [propertyLock EXCEPT ![q] = r] /\ getting' = [getting EXCEPT ![r] = st]
      /\ UNCHANGED <<needs, dict, read, computations>>
  BY DEF TakePropertyLock, In, At
<1>2. /\ st \in Seq(GetterFrame) /\ Len(st) = n
      /\ \A k \in 1..Len(st) : st[k].cell = getting[r][k].cell
      /\ \A k \in 1..(Len(st) - 1) : st[k] = getting[r][k]
      /\ st[Len(st)].at = "look"
  BY <1>1, AtIs DEF PropertyInv
<1>3. n \in Nat \ {0} /\ TopCall(r) = getting[r][n] /\ TopCall(r).cell \in Cell /\ q \in Property
  <2>1. n \in Nat \ {0} /\ TopCall(r) = getting[r][n] /\ TopCall(r) \in GetterFrame
    BY <1>1, StackIs DEF PropertyInv
  <2> QED BY <2>1, CellsAre DEF GetterFrame
<1> HIDE DEF st, q, n
<1>4. getting'[r] = st /\ (\A s \in Reader : s # r => getting'[s] = getting[s]) /\ PropertyTypes'
  BY <1>1, <1>2, <1>3 DEF PropertyInv, PropertyTypes
<1>5. StacksFall'
  <2>1. Len(st) <= Len(getting[r]) /\ \A k \in 1..Len(st) : st[k].cell = getting[r][k].cell
    BY <1>2, <1>3 DEF n
  <2> QED BY <1>1, <1>2, <2>1, StacksKeepFalling
<1>6. propertyLock'[q] = r /\ \A p \in Property : p # q => propertyLock'[p] = propertyLock[p]
  BY <1>1, <1>3 DEF PropertyInv, PropertyTypes
<1>7. WellStacked(r)'
  <2> SUFFICES ASSUME NEW k \in 1..Len(st)
               PROVE  /\ st[k].at # "lock" => propertyLock'[st[k].cell[2]] = r
                      /\ k < Len(st) => st[k].at = "look" /\ dict[st[k].cell] = 0
                      /\ st[k].at = "return" => dict[st[k].cell] = 0
    BY <1>1, <1>4 DEF WellStacked
  <2>1. CASE k = Len(st)
    BY <1>2, <1>3, <1>6, <2>1 DEF q
  <2>2. CASE k # Len(st)
    <3>1. k \in 1..(Len(st) - 1) /\ k < n /\ k \in 1..n
      BY <1>2, <1>3, <2>2
    <3>2. /\ getting[r][k].at = "look" /\ dict[getting[r][k].cell] = 0 /\ propertyLock[getting[r][k].cell[2]] = r
      BY <3>1 DEF PropertyInv, WellStacked, n
    <3>3. getting[r][k].cell[2] \in Property
      <4>1. getting[r] \in Seq(GetterFrame)
        BY DEF PropertyInv, PropertyTypes
      <4>2. getting[r][k] \in GetterFrame
        BY <3>1, <4>1 DEF n
      <4> QED BY <4>2, CellsAre DEF GetterFrame
    <3> QED BY <1>2, <1>6, <3>1, <3>2, <3>3
  <2> QED BY <2>1, <2>2
<1>8. ASSUME NEW p \in Property, propertyLock'[p] = r
      PROVE  \E k \in 1..Len(st) : st[k].at # "lock" /\ st[k].cell[2] = p
  <2>1. CASE p = q
    BY <1>2, <1>3, <2>1 DEF q
  <2>2. CASE p # q
    <3>1. PICK k \in 1..n : getting[r][k].at # "lock" /\ getting[r][k].cell[2] = p
      BY <1>6, <1>8, <2>2 DEF PropertyInv, LocksAreUsed, n
    <3>2. k # n
      BY <1>1, <1>3, <3>1
    <3> QED BY <1>2, <1>3, <3>1, <3>2
  <2> QED BY <2>1, <2>2
<1>9. Accounted'
  BY <1>1 DEF PropertyInv, Accounted, Stored
<1>10. \A p \in Property : \A s \in Reader : s # r => (propertyLock'[p] = s <=> propertyLock[p] = s)
  BY <1>1, <1>6, PropertyAssumption
<1> QED BY <1>1, <1>4, <1>5, <1>7, <1>8, <1>9, <1>10, OthersStay DEF PropertyInv

\* A call of a reader ends, having stored something for its own cell at most.
LEMMA ReturnKeeps ==
  ASSUME PropertyInv, NEW r \in Reader, getting[r] # <<>>, TopCall(r).at # "lock", NEW number \in Nat, ReturnTo(r, number),
         needs' = needs, PropertyTypes', Accounted',
         \A cell \in Cell : cell # TopCall(r).cell => dict'[cell] = dict[cell]
  PROVE  PropertyInv'
<1> DEFINE st == ReturnedStack(r)
           n == Len(getting[r])
<1>1. /\ getting' = [getting EXCEPT ![r] = st]
      /\ propertyLock' = [p \in Property |-> IF propertyLock[p] = r /\ p \notin StillHeld(Outer(r)) THEN Unset ELSE propertyLock[p]]
  BY DEF ReturnTo, ReturnedStack, Unlocked
<1>2. /\ st \in Seq(GetterFrame) /\ Len(st) = n - 1
      /\ \A k \in 1..Len(st) : st[k].cell = getting[r][k].cell
      /\ \A k \in 1..Len(st) : st[k].at = IF k < Len(st) THEN getting[r][k].at ELSE "return"
      /\ \A p : p \in StillHeld(Outer(r)) <=> \E k \in 1..Len(st) : st[k].cell[2] = p
  BY ReturnIs DEF PropertyInv
<1>3. /\ n \in Nat \ {0} /\ TopCall(r) = getting[r][n] /\ TopCall(r).cell \in Cell /\ TopCall(r).cell[2] \in Property
      /\ \A k \in 1..n : getting[r][k].cell \in Cell /\ getting[r][k].cell[2] \in Property
  <2>1. n \in Nat \ {0} /\ TopCall(r) = getting[r][n] /\ TopCall(r) \in GetterFrame /\ getting[r] \in Seq(GetterFrame)
    BY StackIs DEF PropertyInv
  <2>2. \A k \in 1..n : getting[r][k] \in GetterFrame
    BY <2>1
  <2> QED BY <2>1, <2>2, CellsAre DEF GetterFrame
<1> HIDE DEF st, n
<1>4. getting'[r] = st /\ \A s \in Reader : s # r => getting'[s] = getting[s]
  BY <1>1 DEF PropertyInv, PropertyTypes
<1>5. StacksFall'
  <2>1. Len(st) <= Len(getting[r]) /\ \A k \in 1..Len(st) : st[k].cell = getting[r][k].cell
    BY <1>2, <1>3 DEF n
  <2> QED BY <1>1, <1>2, <2>1, StacksKeepFalling
<1>6. \A k \in 1..(n - 1) : getting[r][k].cell # TopCall(r).cell
  <2>1. PICK rank \in Rank : RanksFall(rank)
    BY DEF PropertyInv, StacksFall
  <2> TAKE k \in 1..(n - 1)
  <2>2. rank[getting[r][n].cell] < rank[getting[r][k].cell]
    BY <1>3, <2>1 DEF RanksFall, n
  <2>3. rank[getting[r][n].cell] \in Int
    BY <1>3, CellsAre DEF Rank
  <2> QED BY <1>3, <2>2, <2>3
<1>7. \A k \in 1..Len(st) : /\ k \in 1..n /\ k \in 1..(n - 1) /\ getting[r][k].at = "look" /\ dict[getting[r][k].cell] = 0
                            /\ propertyLock[getting[r][k].cell[2]] = r
  <2> TAKE k \in 1..Len(st)
  <2>1. k \in 1..n /\ k \in 1..(n - 1) /\ k < n
    BY <1>2, <1>3
  <2> QED BY <2>1 DEF PropertyInv, WellStacked, n
<1>8. WellStacked(r)'
  <2> SUFFICES ASSUME NEW k \in 1..Len(st)
               PROVE  /\ st[k].at # "lock" => propertyLock'[st[k].cell[2]] = r
                      /\ k < Len(st) => st[k].at = "look" /\ dict'[st[k].cell] = 0
                      /\ st[k].at = "return" => dict'[st[k].cell] = 0
    BY <1>4 DEF WellStacked
  <2>1. dict'[st[k].cell] = 0
    BY <1>2, <1>3, <1>6, <1>7
  <2>2. propertyLock'[st[k].cell[2]] = r
    BY <1>1, <1>2, <1>3, <1>7
  <2> QED BY <1>2, <1>7, <2>1, <2>2
<1>9. ASSUME NEW p \in Property, propertyLock'[p] = r
      PROVE  \E k \in 1..Len(st) : st[k].at # "lock" /\ st[k].cell[2] = p
  <2>1. p \in StillHeld(Outer(r))
    BY <1>1, <1>9, PropertyAssumption
  <2>2. PICK k \in 1..Len(st) : st[k].cell[2] = p
    BY <1>2, <2>1
  <2>3. st[k].at # "lock"
    BY <1>2, <1>7
  <2> QED BY <2>2, <2>3
<1>10. \A p \in Property : \A s \in Reader : s # r => (propertyLock'[p] = s <=> propertyLock[p] = s)
  BY <1>1, PropertyAssumption
<1>11. propertyLock[TopCall(r).cell[2]] = r
  BY <1>3 DEF PropertyInv, WellStacked, n
<1>12. \A cell \in Cell : dict'[cell] = dict[cell] \/ propertyLock[cell[2]] = r
  BY <1>11
<1> QED BY <1>4, <1>5, <1>8, <1>9, <1>10, <1>12, OthersStay DEF PropertyInv

LEMMA ReturnTypes ==
  ASSUME PropertyInv, NEW r \in Reader, getting[r] # <<>>, NEW number \in Nat, ReturnTo(r, number),
         needs' = needs, dict' \in [Cell -> Nat], computations' \in Nat
  PROVE  PropertyTypes'
<1>1. ReturnedStack(r) \in Seq(GetterFrame) /\ TopCall(r).cell \in Cell
  BY ReturnIs, StackIs DEF PropertyInv, GetterFrame
<1>2. getting' = [getting EXCEPT ![r] = ReturnedStack(r)] /\ propertyLock' = Unlocked(r, Outer(r))
  BY DEF ReturnTo, ReturnedStack
<1>3. getting' \in [Reader -> Seq(GetterFrame)]
  BY <1>1, <1>2 DEF PropertyInv, PropertyTypes
<1>4. propertyLock' \in [Property -> Reader \cup {Unset}]
  BY <1>2 DEF Unlocked, PropertyInv, PropertyTypes
<1>5. read' \in [Reader -> {<<>>} \cup (Cell \X Nat)]
  BY <1>1 DEF ReturnTo, PropertyInv, PropertyTypes
<1> QED BY <1>3, <1>4, <1>5 DEF PropertyInv, PropertyTypes

\* What a call returns to its reader is what is stored.
LEMMA ReturnReads ==
  ASSUME PropertyInv, NEW r \in Reader, getting[r] # <<>>, NEW number \in Nat, ReturnTo(r, number),
         dict'[TopCall(r).cell] = number,
         \A cell \in Cell : dict[cell] # 0 => dict'[cell] = dict[cell]
  PROVE  \A s \in Reader : read'[s] # <<>> /\ read'[s][2] # 0 => dict'[read'[s][1]] = read'[s][2]
<1> TAKE s \in Reader
<1>1. read[s] \in {<<>>} \cup (Cell \X Nat)
  BY DEF PropertyInv, PropertyTypes
<1>2. CASE read'[s] = read[s]
  <2>1. read[s] # <<>> /\ read[s][2] # 0 => dict[read[s][1]] = read[s][2]
    BY DEF PropertyInv, Accounted
  <2>2. read[s] # <<>> => read[s][1] \in Cell
    BY <1>1
  <2> QED BY <1>2, <2>1, <2>2
<1>3. CASE read'[s] # read[s]
  <2>1. s = r /\ read'[s] = <<TopCall(r).cell, number>>
    BY <1>3 DEF ReturnTo, PropertyInv, PropertyTypes
  <2> QED BY <2>1
<1> QED BY <1>2, <1>3

LEMMA GetterReturnsKeeps == ASSUME PropertyInv, NEW r \in Reader, GetterReturns(r) PROVE PropertyInv'
<1> DEFINE c == TopCall(r).cell
<1>1. /\ getting[r] # <<>> /\ TopCall(r).at = "return" /\ needs' = needs
      /\ computations' = computations + 1 /\ dict' = [dict EXCEPT ![c] = computations + 1] /\ ReturnTo(r, computations + 1)
  BY DEF GetterReturns, In
<1>2. c \in Cell /\ dict[c] = 0
  <2>1. /\ Len(getting[r]) \in Nat \ {0} /\ TopCall(r) = getting[r][Len(getting[r])] /\ TopCall(r) \in GetterFrame
    BY <1>1, StackIs DEF PropertyInv
  <2>2. Len(getting[r]) \in 1..Len(getting[r])
    BY <2>1
  <2> QED BY <1>1, <2>1, <2>2 DEF PropertyInv, WellStacked, GetterFrame
<1>3. computations \in Nat /\ computations + 1 \in Nat /\ computations + 1 # 0 /\ dict \in [Cell -> Nat]
  BY DEF PropertyInv, PropertyTypes
<1> HIDE DEF c
<1>4. dict' \in [Cell -> Nat] /\ dict'[c] = computations + 1 /\ \A cell \in Cell : cell # c => dict'[cell] = dict[cell]
  BY <1>1, <1>2, <1>3
<1>5. PropertyTypes'
  BY <1>1, <1>3, <1>4, ReturnTypes
<1>6. Accounted'
  <2>1. Stored' = Stored \cup {c} /\ c \notin Stored
    BY <1>2, <1>3, <1>4 DEF Stored
  <2>2. IsFiniteSet(Stored)
    BY CellsAre, FS_Subset DEF Stored
  <2>3. Cardinality(Stored') = computations + 1
    BY <2>1, <2>2, FS_AddElement DEF PropertyInv, Accounted
  <2>4. \A s \in Reader : read'[s] # <<>> /\ read'[s][2] # 0 => dict'[read'[s][1]] = read'[s][2]
    BY <1>1, <1>2, <1>3, <1>4, ReturnReads DEF c
  <2> QED BY <1>1, <2>3, <2>4 DEF Accounted
<1> QED BY <1>1, <1>3, <1>4, <1>5, <1>6, ReturnKeeps DEF c

LEMMA LookKeeps == ASSUME PropertyInv, NEW r \in Reader, Look(r) PROVE PropertyInv'
<1> DEFINE c == TopCall(r).cell
           n == Len(getting[r])
<1>1. getting[r] # <<>> /\ TopCall(r).at = "look" /\ UNCHANGED <<needs, dict, computations>>
  BY DEF Look, In
<1>2. /\ n \in Nat \ {0} /\ TopCall(r) = getting[r][n] /\ c \in Cell /\ c[2] \in Property /\ getting[r] \in Seq(GetterFrame)
      /\ \A k \in 1..n : getting[r][k].cell \in Cell /\ getting[r][k].cell[2] \in Property
  <2>1. n \in Nat \ {0} /\ TopCall(r) = getting[r][n] /\ TopCall(r) \in GetterFrame /\ getting[r] \in Seq(GetterFrame)
    BY <1>1, StackIs DEF PropertyInv
  <2>2. \A k \in 1..n : getting[r][k] \in GetterFrame
    BY <2>1
  <2> QED BY <2>1, <2>2, CellsAre DEF GetterFrame
<1>3. /\ dict \in [Cell -> Nat] /\ computations \in Nat /\ needs \in [Cell -> Cell \cup {NoCell}]
      /\ getting \in [Reader -> Seq(GetterFrame)]
  BY DEF PropertyInv, PropertyTypes
<1>4. propertyLock[c[2]] = r
  BY <1>1, <1>2 DEF PropertyInv, WellStacked
<1>5. CASE dict[c] # 0
  <2>1. ReturnTo(r, dict[c]) /\ dict[c] \in Nat
    BY <1>2, <1>3, <1>5 DEF Look
  <2>2. PropertyTypes'
    BY <1>1, <1>3, <2>1, ReturnTypes
  <2>3. \A s \in Reader : read'[s] # <<>> /\ read'[s][2] # 0 => dict'[read'[s][1]] = read'[s][2]
    BY <1>1, <2>1, ReturnReads
  <2>4. Accounted'
    BY <1>1, <2>3 DEF PropertyInv, Accounted, Stored
  <2> QED BY <1>1, <2>1, <2>2, <2>4, ReturnKeeps
<1>6. CASE dict[c] = 0 /\ needs[c] = NoCell
  <2> DEFINE st == Append(Outer(r), [TopCall(r) EXCEPT !.at = "return"])
  <2>1. getting' = [getting EXCEPT ![r] = st] /\ UNCHANGED <<propertyLock, read>>
    BY <1>6 DEF Look, At
  <2>2. /\ st \in Seq(GetterFrame) /\ Len(st) = n
        /\ \A k \in 1..Len(st) : st[k].cell = getting[r][k].cell
        /\ \A k \in 1..(Len(st) - 1) : st[k] = getting[r][k]
        /\ st[Len(st)].at = "return"
    BY <1>1, AtIs DEF PropertyInv
  <2> HIDE DEF st, n, c
  <2>3. getting'[r] = st /\ (\A s \in Reader : s # r => getting'[s] = getting[s]) /\ PropertyTypes'
    BY <1>1, <1>3, <2>1, <2>2 DEF PropertyInv, PropertyTypes
  <2>4. StacksFall'
    <3>1. Len(st) <= Len(getting[r]) /\ \A k \in 1..Len(st) : st[k].cell = getting[r][k].cell
      BY <1>2, <2>2 DEF n
    <3> QED BY <1>1, <2>1, <2>2, <3>1, StacksKeepFalling
  <2>5. WellStacked(r)'
    <3> SUFFICES ASSUME NEW k \in 1..Len(st)
                 PROVE  /\ propertyLock[st[k].cell[2]] = r /\ dict[st[k].cell] = 0
                        /\ k < Len(st) => st[k].at = "look"
      BY <1>1, <2>1, <2>3 DEF WellStacked
    <3>1. CASE k = Len(st)
      BY <1>2, <1>4, <1>6, <2>2, <3>1 DEF c
    <3>2. CASE k # Len(st)
      <4>1. k \in 1..(Len(st) - 1) /\ k < n /\ k \in 1..n
        BY <1>2, <2>2, <3>2
      <4> QED BY <2>2, <4>1 DEF PropertyInv, WellStacked, n
    <3> QED BY <3>1, <3>2
  <2>6. ASSUME NEW p \in Property, propertyLock[p] = r
        PROVE  \E k \in 1..Len(st) : st[k].at # "lock" /\ st[k].cell[2] = p
    <3>1. PICK k \in 1..n : getting[r][k].at # "lock" /\ getting[r][k].cell[2] = p
      BY <2>6 DEF PropertyInv, LocksAreUsed, n
    <3>2. k = n \/ k \in 1..(n - 1)
      BY <1>2
    <3> QED BY <2>2, <3>1, <3>2
  <2>7. Accounted'
    BY <1>1, <2>1 DEF PropertyInv, Accounted, Stored
  <2> QED BY <1>1, <2>1, <2>3, <2>4, <2>5, <2>6, <2>7, OthersStay DEF PropertyInv
<1>7. CASE dict[c] = 0 /\ needs[c] # NoCell
  <2> DEFINE st == Append(getting[r], Get(needs[c]))
  <2>1. getting' = [getting EXCEPT ![r] = st] /\ UNCHANGED <<propertyLock, read>>
    BY <1>3, <1>7 DEF Look
  <2>2. Get(needs[c]) \in GetterFrame /\ Get(needs[c]).at = "lock" /\ Get(needs[c]).cell = needs[c]
    BY <1>2, <1>3, <1>7 DEF Get, GetterFrame
  <2>3. /\ st \in Seq(GetterFrame) /\ Len(st) = n + 1 /\ st[n + 1] = Get(needs[c])
        /\ \A k \in 1..n : st[k] = getting[r][k]
    BY <1>2, <2>2
  <2> HIDE DEF st
  <2>4. getting'[r] = st /\ (\A s \in Reader : s # r => getting'[s] = getting[s]) /\ PropertyTypes'
    BY <1>1, <1>3, <2>1, <2>3 DEF PropertyInv, PropertyTypes
  <2>5. StacksFall'
    <3>1. /\ getting[r] # <<>> /\ Len(st) = Len(getting[r]) + 1
          /\ \A k \in 1..Len(getting[r]) : st[k].cell = getting[r][k].cell
          /\ st[Len(st)].cell = needs[TopCall(r).cell] /\ needs[TopCall(r).cell] # NoCell
      BY <1>1, <1>7, <2>2, <2>3
    <3> QED BY <1>1, <2>1, <2>3, <3>1, StacksKeepFalling
  <2> HIDE DEF n, c
  <2>6. \A k \in 1..Len(st) : k = n + 1 \/ k \in 1..n
    BY <1>2, <2>3
  <2>7. WellStacked(r)'
    <3> SUFFICES ASSUME NEW k \in 1..Len(st)
                 PROVE  /\ st[k].at # "lock" => propertyLock[st[k].cell[2]] = r
                        /\ k < Len(st) => st[k].at = "look" /\ dict[st[k].cell] = 0
                        /\ st[k].at = "return" => dict[st[k].cell] = 0
      BY <1>1, <2>1, <2>4 DEF WellStacked
    <3>1. CASE k = n + 1
      BY <1>2, <2>2, <2>3, <3>1
    <3>2. CASE k = n
      <4>1. st[k] = TopCall(r)
        BY <1>2, <2>3, <3>2
      <4> QED BY <1>1, <1>4, <1>7, <4>1 DEF c
    <3>3. CASE k \in 1..n /\ k # n
      <4>1. k < n
        BY <1>2, <3>3
      <4> QED BY <2>3, <3>3, <4>1 DEF PropertyInv, WellStacked, n
    <3> QED BY <2>6, <3>1, <3>2, <3>3
  <2>8. ASSUME NEW p \in Property, propertyLock[p] = r
        PROVE  \E k \in 1..Len(st) : st[k].at # "lock" /\ st[k].cell[2] = p
    <3>1. PICK k \in 1..n : getting[r][k].at # "lock" /\ getting[r][k].cell[2] = p
      BY <2>8 DEF PropertyInv, LocksAreUsed, n
    <3>2. k \in 1..Len(st)
      BY <1>2, <2>3
    <3> QED BY <2>3, <3>1, <3>2
  <2>9. Accounted'
    BY <1>1, <2>1 DEF PropertyInv, Accounted, Stored
  <2> QED BY <1>1, <2>1, <2>4, <2>5, <2>7, <2>8, <2>9, OthersStay DEF PropertyInv
<1> QED BY <1>5, <1>6, <1>7

LEMMA GetterRaisesKeeps == ASSUME PropertyInv, NEW r \in Reader, GetterRaises(r) PROVE PropertyInv'
<1>1. /\ getting[r] # <<>> /\ getting' = [getting EXCEPT ![r] = <<>>]
      /\ propertyLock' = [p \in Property |-> IF propertyLock[p] = r /\ p \notin StillHeld(<<>>) THEN Unset ELSE propertyLock[p]]
      /\ read' = [read EXCEPT ![r] = <<getting[r][1].cell, 0>>] /\ UNCHANGED <<needs, dict, computations>>
  BY DEF GetterRaises, In, Unlocked
<1>2. getting[r][1].cell \in Cell
  <2>1. getting[r] \in Seq(GetterFrame) /\ 1 \in 1..Len(getting[r])
    BY <1>1, StackIs DEF PropertyInv
  <2>2. getting[r][1] \in GetterFrame
    BY <2>1
  <2> QED BY <2>2 DEF GetterFrame
<1>3. <<>> \in Seq(GetterFrame) /\ Len(<<>>) = 0 /\ StillHeld(<<>>) = {}
  BY DEF StillHeld
<1>4. PropertyTypes'
  BY <1>1, <1>2, <1>3 DEF PropertyInv, PropertyTypes
<1>5. getting'[r] = <<>> /\ \A s \in Reader : s # r => getting'[s] = getting[s]
  BY <1>1 DEF PropertyInv, PropertyTypes
<1>6. StacksFall'
  <2>1. Len(<<>>) <= 1
    BY <1>3
  <2> QED BY <1>1, <1>3, <2>1, StacksKeepFalling
<1>7. WellStacked(r)'
  BY <1>3, <1>5 DEF WellStacked
<1>8. \A p \in Property : propertyLock'[p] # r
  BY <1>1, <1>3, PropertyAssumption
<1>9. \A p \in Property : \A s \in Reader : s # r => (propertyLock'[p] = s <=> propertyLock[p] = s)
  BY <1>1, PropertyAssumption
<1>10. Accounted'
  <2>1. \A s \in Reader : read'[s] = read[s] \/ read'[s][2] = 0
    BY <1>1 DEF PropertyInv, PropertyTypes
  <2> QED BY <1>1, <2>1 DEF PropertyInv, Accounted, Stored
<1> QED BY <1>1, <1>4, <1>5, <1>6, <1>7, <1>8, <1>9, <1>10, OthersStay DEF PropertyInv

LEMMA PropertyNextKeeps == ASSUME PropertyInv, [PropertyNext]_propertyVars PROVE PropertyInv'
<1>1. CASE UNCHANGED propertyVars
  BY <1>1 DEF propertyVars, PropertyInv, PropertyTypes, WellStacked, LocksAreUsed, Accounted, Stored, StacksFall,
              RanksFall, PropertiesFall, Falls, Ordered
<1> QED BY <1>1, AccessKeeps, TakePropertyLockKeeps, LookKeeps, GetterReturnsKeeps, GetterRaisesKeeps DEF PropertyNext

LEMMA PropertyInvImplies == PropertyInv => PropertyComputedOnce
<1> SUFFICES ASSUME PropertyInv PROVE PropertyComputedOnce
  OBVIOUS
<1> DEFINE Computing(r) == {getting[r][k].cell : k \in {k \in DOMAIN getting[r] : getting[r][k].at # "lock"}}
           WaitsFor(r, s) == In(r, "lock") /\ propertyLock[TopCall(r).cell[2]] = s /\ s # r
<1>1. \A r \in Reader : /\ getting[r] \in Seq(GetterFrame) /\ DOMAIN getting[r] = 1..Len(getting[r]) /\ Len(getting[r]) \in Nat
                        /\ \A k \in 1..Len(getting[r]) : getting[r][k] \in GetterFrame
  <2>1. \A r \in Reader : getting[r] \in Seq(GetterFrame)
    BY DEF PropertyInv, PropertyTypes
  <2> QED BY <2>1
<1>2. \A r \in Reader : \A cell \in Computing(r) : cell \in Cell /\ propertyLock[cell[2]] = r
  BY <1>1 DEF PropertyInv, WellStacked, GetterFrame
<1>3. \A r, s \in Reader : r # s => Computing(r) \cap Computing(s) = {}
  BY <1>2
<1>4. ASSUME NEW order \in Order, Ordered(order), NEW r \in Reader, NEW s \in Reader, NEW t \in Reader,
             WaitsFor(r, s), WaitsFor(s, t)
      PROVE  order[TopCall(s).cell[2]] < order[TopCall(r).cell[2]]
  <2> DEFINE p == TopCall(r).cell[2]
             q == TopCall(s).cell[2]
             n == Len(getting[s])
  <2>1. p \in Property /\ q \in Property /\ propertyLock[p] = s /\ propertyLock[q] = t /\ s # t
    BY <1>4, StackIs, CellsAre DEF In, GetterFrame, PropertyInv
  <2>2. n \in Nat \ {0} /\ TopCall(s) = getting[s][n] /\ getting[s][n].at = "lock"
    BY <1>4, StackIs DEF In, PropertyInv
  <2>3. PICK k \in 1..n : getting[s][k].at # "lock" /\ getting[s][k].cell[2] = p
    BY <2>1 DEF PropertyInv, LocksAreUsed
  <2>4. k < n /\ n \in 1..n
    BY <2>2, <2>3
  <2>5. PropertiesFall(order)
    BY <1>4 DEF PropertyInv, StacksFall
  <2>6. q = p \/ order[q] < order[p]
    BY <2>2, <2>3, <2>4, <2>5 DEF PropertiesFall
  <2> QED BY <2>1, <2>6
<1> QED BY <1>3, <1>4 DEF PropertyInv, Accounted, Stored, PropertyComputedOnce

\* The decorators keep their promise for any callers, readers, properties, instances and policies:
\* one run under once, one computation of a cached property per instance with no circle of waiting
\* readers while one order of the properties is kept, and retries that are bounded and exponential.
THEOREM CallsKept == DecoratorsSpec => []CallsAsPromised
<1> DEFINE DecoratorsNext == \/ OnceNext /\ UNCHANGED <<retryVars, propertyVars>>
                             \/ RetryStep /\ UNCHANGED <<onceVars, propertyVars>>
                             \/ PropertyNext /\ UNCHANGED <<onceVars, retryVars>>
           DecoratorsInv == OnceInv /\ RetryInv /\ PropertyInv
<1>1. OnceInit /\ RetryInit /\ PropertyInit => DecoratorsInv
  BY OnceInitially, RetryInitially, PropertyInitially
<1>2. DecoratorsInv /\ [DecoratorsNext]_<<onceVars, retryVars, propertyVars>> => DecoratorsInv'
  BY OnceNextKeeps, RetryStepKeeps, PropertyNextKeeps
<1>3. DecoratorsInv => CallsAsPromised
  BY OnceInvImplies, RetryInvImplies, PropertyInvImplies DEF CallsAsPromised
<1> QED BY <1>1, <1>2, <1>3, PTL DEF DecoratorsSpec

-----------------------------------------------------------------------------
(* Queues that end their workers with sentinels *)

\* What is in a queue, and that no member of T is in it twice.
Queued(q) == {q[i] : i \in 1..Len(q)}
NoTwice(q, T) == \A i, k \in 1..Len(q) : q[i] \in T /\ q[i] = q[k] => i = k

LEMMA PutLast ==
  ASSUME NEW S, NEW T, NEW q \in Seq(S), NEW x \in S, NoTwice(q, T), x \in T => x \notin Queued(q)
  PROVE  /\ Append(q, x) \in Seq(S) /\ Len(Append(q, x)) = Len(q) + 1 /\ Len(q) \in Nat
         /\ \A i \in 1..Len(q) : Append(q, x)[i] = q[i]
         /\ Append(q, x)[Len(q) + 1] = x
         /\ Queued(Append(q, x)) = Queued(q) \cup {x} /\ NoTwice(Append(q, x), T)
<1> DEFINE p == Append(q, x)
           n == Len(q)
<1>1. n \in Nat /\ p \in Seq(S) /\ Len(p) = n + 1 /\ (\A i \in 1..n : p[i] = q[i]) /\ p[n + 1] = x
  OBVIOUS
<1> HIDE DEF p, n
<1>2. \A i \in 1..Len(p) : i = n + 1 \/ i \in 1..n
  BY <1>1
<1>3. Queued(p) = Queued(q) \cup {x}
  <2>1. \A i \in 1..n : i \in 1..Len(p)
    BY <1>1
  <2>2. n + 1 \in 1..Len(p)
    BY <1>1
  <2> QED BY <1>1, <1>2, <2>1, <2>2 DEF Queued, n
<1>4. NoTwice(p, T)
  <2> SUFFICES ASSUME NEW i \in 1..Len(p), NEW k \in 1..Len(p), p[i] \in T, p[i] = p[k] PROVE i = k
    BY DEF NoTwice
  <2>1. CASE i \in 1..n /\ k \in 1..n
    BY <1>1, <2>1 DEF NoTwice, n
  <2>2. CASE i = n + 1 /\ k \in 1..n
    BY <1>1, <2>2 DEF Queued, n
  <2>3. CASE k = n + 1 /\ i \in 1..n
    BY <1>1, <2>3 DEF Queued, n
  <2> QED BY <1>2, <2>1, <2>2, <2>3
<1> QED BY <1>1, <1>3, <1>4 DEF p, n

LEMMA TakeFirst ==
  ASSUME NEW S, NEW T, NEW q \in Seq(S), q # <<>>, NoTwice(q, T)
  PROVE  /\ Tail(q) \in Seq(S) /\ Len(Tail(q)) = Len(q) - 1 /\ Len(q) \in Nat \ {0}
         /\ \A i \in 1..(Len(q) - 1) : Tail(q)[i] = q[i + 1]
         /\ Head(q) = q[1] /\ Head(q) \in S
         /\ Queued(q) = Queued(Tail(q)) \cup {Head(q)} /\ NoTwice(Tail(q), T)
         /\ Head(q) \in T => Head(q) \notin Queued(Tail(q))
<1> DEFINE p == Tail(q)
           n == Len(q)
<1>1. /\ n \in Nat \ {0} /\ p \in Seq(S) /\ Len(p) = n - 1 /\ (\A i \in 1..(n - 1) : p[i] = q[i + 1])
      /\ Head(q) = q[1] /\ Head(q) \in S
  OBVIOUS
<1> HIDE DEF p, n
<1>2. \A i \in 1..Len(p) : i + 1 \in 1..n /\ i + 1 # 1 /\ p[i] = q[i + 1]
  BY <1>1
<1>3. \A k \in 1..n : k = 1 \/ (k - 1 \in 1..Len(p) /\ q[k] = p[k - 1])
  <2> TAKE k \in 1..n
  <2>1. k # 1 => k - 1 \in 1..(n - 1) /\ (k - 1) + 1 = k
    BY <1>1
  <2> QED BY <1>1, <2>1
<1>4. 1 \in 1..n
  BY <1>1
<1>5. Queued(q) = Queued(p) \cup {Head(q)}
  <2>1. \A y \in Queued(p) : y \in Queued(q)
    <3> SUFFICES ASSUME NEW i \in 1..Len(p) PROVE p[i] \in Queued(q)
      BY DEF Queued
    <3>1. i + 1 \in 1..n /\ p[i] = q[i + 1]
      BY <1>2
    <3> QED BY <3>1 DEF Queued, n
  <2>2. \A y \in Queued(q) : y \in Queued(p) \cup {Head(q)}
    <3> SUFFICES ASSUME NEW k \in 1..n PROVE q[k] \in Queued(p) \cup {Head(q)}
      BY DEF Queued, n
    <3> QED BY <1>1, <1>3 DEF Queued
  <2> QED BY <1>1, <1>4, <2>1, <2>2 DEF Queued, n
<1>6. NoTwice(p, T)
  <2> SUFFICES ASSUME NEW i \in 1..Len(p), NEW k \in 1..Len(p), p[i] \in T, p[i] = p[k] PROVE i = k
    BY DEF NoTwice
  <2>1. i + 1 = k + 1
    BY <1>2 DEF NoTwice, n
  <2> QED BY <2>1
<1>7. Head(q) \in T => Head(q) \notin Queued(p)
  BY <1>1, <1>2, <1>4 DEF Queued, NoTwice, n
<1> QED BY <1>1, <1>5, <1>6, <1>7 DEF p, n

-----------------------------------------------------------------------------
(* The producer and its consumers *)

Working == {w \in Consumer : consumerAt[w] = "work"}
ProducerTypes ==
  /\ itemQueue \in Seq(Item \cup {Sentinel}) /\ itemResults \subseteq Item
  /\ consumerAt \in [Consumer -> {"get", "work", "ended", "dead"}] /\ inHand \in [Consumer -> Item \cup {Sentinel}]
  /\ submitState \in [Item -> {"new", "put", "in", "refused"}]
  /\ stopAt \in {"idle", "sentinels", "returned"}
  /\ inBefore \subseteq Item

\* An item is in the queue once or in one worker's hands, and was put there.
ItemsOnce ==
  /\ NoTwice(itemQueue, Item)
  /\ \A w \in Working : /\ inHand[w] \in Item /\ inHand[w] \notin Queued(itemQueue)
                        /\ \A v \in Working : inHand[v] = inHand[w] => v = w
                        /\ submitState[inHand[w]] = "in"
  /\ \A x \in Item : x \in Queued(itemQueue) => submitState[x] = "in"
\* What was put is on its way or done, unless its worker raised.
ItemsKept ==
  \A x \in Item \ raising : submitState[x] = "in" =>
    x \in Queued(itemQueue) \/ x \in itemResults \/ \E w \in Working : inHand[w] = x
\* Sentinels come behind what was there before stop.
SentinelsBehind ==
  /\ stopAt = "idle" => Sentinel \notin Queued(itemQueue)
  /\ stopAt # "idle" => \A x \in inBefore : submitState[x] = "in"
  /\ \A i, k \in 1..Len(itemQueue) : itemQueue[i] \in inBefore /\ itemQueue[k] = Sentinel => i < k
\* Once a worker took a sentinel nothing that came before stop is queued any more.
EndedIsBehind ==
  \A w \in Consumer : consumerAt[w] = "ended" => stopAt # "idle" /\ inBefore \cap Queued(itemQueue) = {}
\* Nobody works after stop has returned.
NobodyAfterwards == stopAt = "returned" => AllGone /\ stopResult = itemResults
ProducerInv ==
  ProducerTypes /\ ItemsOnce /\ ItemsKept /\ SentinelsBehind /\ EndedIsBehind /\ NobodyAfterwards

LEMMA ProducerInitially == ProducerInit => ProducerInv
<1> SUFFICES ASSUME ProducerInit PROVE ProducerInv
  OBVIOUS
<1>1. ProducerTypes
  BY DEF ProducerInit, ProducerTypes
<1>2. Len(itemQueue) = 0 /\ Queued(itemQueue) = {} /\ Working = {}
  BY DEF ProducerInit, Queued, Working
<1>3. \A x \in Item : submitState[x] = "new"
  BY DEF ProducerInit
<1>4. ItemsOnce /\ ItemsKept
  BY <1>2, <1>3 DEF ItemsOnce, ItemsKept, NoTwice
<1>5. SentinelsBehind
  BY <1>2 DEF SentinelsBehind, ProducerInit
<1>6. EndedIsBehind /\ NobodyAfterwards
  BY DEF EndedIsBehind, NobodyAfterwards, ProducerInit
<1> QED BY <1>1, <1>4, <1>5, <1>6 DEF ProducerInv

LEMMA CheckStoppedKeeps == ASSUME ProducerInv, NEW x \in Item, CheckStopped(x) PROVE ProducerInv'
<1>1. UNCHANGED <<itemQueue, itemResults, consumerAt, inHand, stopAt, stopResult, inBefore, raising>>
      /\ submitState[x] = "new" /\ submitState' \in [Item -> {"new", "put", "in", "refused"}]
      /\ \A y \in Item : submitState'[y] = "in" <=> submitState[y] = "in"
  BY DEF CheckStopped, ProducerInv, ProducerTypes
<1>2. Working' = Working /\ Queued(itemQueue)' = Queued(itemQueue)
  BY <1>1 DEF Working, Queued
<1>4. ProducerTypes'
  BY <1>1 DEF ProducerInv, ProducerTypes
<1>5. ItemsOnce' /\ ItemsKept'
  BY <1>1, <1>2 DEF ProducerInv, ItemsOnce, ItemsKept, NoTwice, Working, Queued
<1>6. SentinelsBehind'
  BY <1>1, <1>2 DEF ProducerInv, SentinelsBehind, ProducerTypes
<1>7. EndedIsBehind' /\ NobodyAfterwards'
  BY <1>1, <1>2 DEF ProducerInv, EndedIsBehind, NobodyAfterwards, AllGone
<1> QED BY <1>4, <1>5, <1>6, <1>7 DEF ProducerInv

LEMMA PutItemKeeps == ASSUME ProducerInv, NEW x \in Item, PutItem(x) PROVE ProducerInv'
<1>1. /\ UNCHANGED <<itemResults, consumerAt, inHand, stopAt, stopResult, inBefore, raising>>
      /\ submitState[x] = "put" /\ submitState' = [submitState EXCEPT ![x] = "in"] /\ itemQueue' = Append(itemQueue, x)
  BY DEF PutItem
<1>2. /\ submitState'[x] = "in" /\ \A y \in Item : y # x => submitState'[y] = submitState[y]
      /\ submitState' \in [Item -> {"new", "put", "in", "refused"}]
  BY <1>1 DEF ProducerInv, ProducerTypes
<1>3. x \notin Queued(itemQueue) /\ (\A w \in Working : inHand[w] # x) /\ (stopAt # "idle" => x \notin inBefore)
  BY <1>1 DEF ProducerInv, ItemsOnce, SentinelsBehind
<1>4. /\ itemQueue' \in Seq(Item \cup {Sentinel}) /\ Len(itemQueue') = Len(itemQueue) + 1 /\ Len(itemQueue) \in Nat
      /\ \A i \in 1..Len(itemQueue) : itemQueue'[i] = itemQueue[i]
      /\ itemQueue'[Len(itemQueue) + 1] = x
      /\ Queued(itemQueue') = Queued(itemQueue) \cup {x} /\ NoTwice(itemQueue', Item)
  BY <1>1, <1>3, PutLast DEF ProducerInv, ProducerTypes, ItemsOnce
<1>5. Working' = Working
  BY <1>1 DEF Working
<1>6. ProducerTypes'
  BY <1>1, <1>2, <1>4 DEF ProducerInv, ProducerTypes
<1>8. ItemsOnce'
  BY <1>1, <1>2, <1>3, <1>4, <1>5 DEF ProducerInv, ItemsOnce
<1>9. ItemsKept'
  BY <1>1, <1>2, <1>4, <1>5 DEF ProducerInv, ItemsKept
<1>10. SentinelsBehind'
  <2>1. stopAt # "idle" => \A y \in inBefore : submitState'[y] = "in"
    BY <1>2 DEF ProducerInv, SentinelsBehind, ProducerTypes
  <2>2. stopAt = "idle" => Sentinel \notin Queued(itemQueue')
    BY <1>4, ProducerAssumption DEF ProducerInv, SentinelsBehind
  <2>3. ASSUME NEW i \in 1..Len(itemQueue'), NEW k \in 1..Len(itemQueue'), itemQueue'[i] \in inBefore, itemQueue'[k] = Sentinel
        PROVE  i < k
    <3>1. k \in 1..Len(itemQueue)
      BY <1>4, <2>3, ProducerAssumption
    <3>2. CASE i \in 1..Len(itemQueue)
      BY <1>4, <2>3, <3>1, <3>2 DEF ProducerInv, SentinelsBehind
    <3>3. CASE i = Len(itemQueue) + 1
      <4>1. stopAt = "idle"
        BY <1>3, <1>4, <2>3, <3>3
      <4>2. Sentinel \in Queued(itemQueue)
        BY <1>4, <2>3, <3>1 DEF Queued
      <4> QED BY <4>1, <4>2 DEF ProducerInv, SentinelsBehind
    <3> QED BY <1>4, <3>2, <3>3
  <2> QED BY <1>1, <2>1, <2>2, <2>3 DEF SentinelsBehind
<1>11. EndedIsBehind'
  BY <1>1, <1>3, <1>4 DEF ProducerInv, EndedIsBehind
<1>12. NobodyAfterwards'
  BY <1>1 DEF ProducerInv, NobodyAfterwards, AllGone
<1> QED BY <1>6, <1>8, <1>9, <1>10, <1>11, <1>12 DEF ProducerInv

LEMMA BeginStopKeeps == ASSUME ProducerInv, BeginStop PROVE ProducerInv'
<1>1. /\ UNCHANGED <<itemQueue, itemResults, consumerAt, inHand, submitState, stopResult, raising>>
      /\ stopAt = "idle" /\ stopAt' = "sentinels" /\ inBefore' = {x \in Item : submitState[x] = "in"}
  BY DEF BeginStop
<1>2. Working' = Working /\ Queued(itemQueue)' = Queued(itemQueue)
  BY <1>1 DEF Working, Queued
<1>4. ProducerTypes'
  BY <1>1 DEF ProducerInv, ProducerTypes
<1>5. ItemsOnce' /\ ItemsKept'
  BY <1>1, <1>2 DEF ProducerInv, ItemsOnce, ItemsKept, NoTwice
<1>6. SentinelsBehind'
  BY <1>1, <1>2 DEF ProducerInv, SentinelsBehind, Queued
<1>7. EndedIsBehind' /\ NobodyAfterwards'
  BY <1>1 DEF ProducerInv, EndedIsBehind, NobodyAfterwards
<1> QED BY <1>4, <1>5, <1>6, <1>7 DEF ProducerInv

LEMMA PutSentinelKeeps == ASSUME ProducerInv, PutSentinel PROVE ProducerInv'
<1>1. /\ UNCHANGED <<itemResults, consumerAt, inHand, submitState, stopAt, stopResult, inBefore, raising>>
      /\ stopAt = "sentinels" /\ itemQueue' = Append(itemQueue, Sentinel)
  BY DEF PutSentinel
<1>2. /\ itemQueue' \in Seq(Item \cup {Sentinel}) /\ Len(itemQueue') = Len(itemQueue) + 1 /\ Len(itemQueue) \in Nat
      /\ \A i \in 1..Len(itemQueue) : itemQueue'[i] = itemQueue[i]
      /\ itemQueue'[Len(itemQueue) + 1] = Sentinel
      /\ Queued(itemQueue') = Queued(itemQueue) \cup {Sentinel} /\ NoTwice(itemQueue', Item)
  BY <1>1, ProducerAssumption, PutLast DEF ProducerInv, ProducerTypes, ItemsOnce
<1>3. Working' = Working /\ \A x \in Item : x \in Queued(itemQueue') <=> x \in Queued(itemQueue)
  BY <1>1, <1>2, ProducerAssumption DEF Working
<1>5. ProducerTypes'
  BY <1>1, <1>2 DEF ProducerInv, ProducerTypes
<1>6. ItemsOnce' /\ ItemsKept'
  BY <1>1, <1>2, <1>3 DEF ProducerInv, ItemsOnce, ItemsKept
<1>7. SentinelsBehind'
  <2>1. ASSUME NEW i \in 1..Len(itemQueue'), NEW k \in 1..Len(itemQueue'), itemQueue'[i] \in inBefore, itemQueue'[k] = Sentinel
        PROVE  i < k
    <3>1. i \in 1..Len(itemQueue)
      BY <1>2, <2>1, ProducerAssumption DEF ProducerInv, ProducerTypes
    <3>2. CASE k \in 1..Len(itemQueue)
      BY <1>2, <2>1, <3>1, <3>2 DEF ProducerInv, SentinelsBehind
    <3>3. CASE k = Len(itemQueue) + 1
      BY <1>2, <3>1, <3>3
    <3> QED BY <1>2, <3>2, <3>3
  <2> QED BY <1>1, <2>1 DEF ProducerInv, SentinelsBehind
<1>8. EndedIsBehind'
  BY <1>1, <1>3 DEF ProducerInv, EndedIsBehind, ProducerTypes
<1>9. NobodyAfterwards'
  BY <1>1 DEF ProducerInv, NobodyAfterwards
<1> QED BY <1>5, <1>6, <1>7, <1>8, <1>9 DEF ProducerInv

LEMMA ReturnFromStopKeeps == ASSUME ProducerInv, ReturnFromStop PROVE ProducerInv'
<1>1. /\ UNCHANGED <<itemQueue, itemResults, consumerAt, inHand, submitState, inBefore, raising>>
      /\ stopAt = "sentinels" /\ AllGone /\ stopAt' = "returned" /\ stopResult' = itemResults
  BY DEF ReturnFromStop
<1>2. Working' = Working /\ Queued(itemQueue)' = Queued(itemQueue)
  BY <1>1 DEF Working, Queued
<1>3. ProducerTypes'
  BY <1>1 DEF ProducerInv, ProducerTypes
<1>4. ItemsOnce' /\ ItemsKept'
  BY <1>1, <1>2 DEF ProducerInv, ItemsOnce, ItemsKept, NoTwice
<1>5. SentinelsBehind'
  BY <1>1, <1>2 DEF ProducerInv, SentinelsBehind
<1>6. EndedIsBehind' /\ NobodyAfterwards'
  BY <1>1, <1>2 DEF ProducerInv, EndedIsBehind, NobodyAfterwards, AllGone
<1> QED BY <1>3, <1>4, <1>5, <1>6 DEF ProducerInv

LEMMA GetItemKeeps == ASSUME ProducerInv, NEW w \in Consumer, GetItem(w) PROVE ProducerInv'
<1> DEFINE h == Head(itemQueue)
<1>1. /\ UNCHANGED <<itemResults, submitState, stopAt, stopResult, inBefore, raising>>
      /\ consumerAt[w] = "get" /\ itemQueue # <<>> /\ itemQueue' = Tail(itemQueue)
      /\ inHand' = [inHand EXCEPT ![w] = h]
      /\ consumerAt' = [consumerAt EXCEPT ![w] = IF h = Sentinel THEN "ended" ELSE "work"]
  BY DEF GetItem
<1>2. /\ itemQueue' \in Seq(Item \cup {Sentinel}) /\ Len(itemQueue') = Len(itemQueue) - 1 /\ Len(itemQueue) \in Nat \ {0}
      /\ \A i \in 1..(Len(itemQueue) - 1) : itemQueue'[i] = itemQueue[i + 1]
      /\ h = itemQueue[1] /\ h \in Item \cup {Sentinel}
      /\ Queued(itemQueue) = Queued(itemQueue') \cup {h} /\ NoTwice(itemQueue', Item)
      /\ h \in Item => h \notin Queued(itemQueue')
  <2> DEFINE S == Item \cup {Sentinel}
  <2>1. itemQueue \in Seq(S) /\ NoTwice(itemQueue, Item) /\ itemQueue # <<>>
    BY <1>1 DEF ProducerInv, ProducerTypes, ItemsOnce
  <2> HIDE DEF S
  <2>2. /\ Tail(itemQueue) \in Seq(S) /\ Len(Tail(itemQueue)) = Len(itemQueue) - 1 /\ Len(itemQueue) \in Nat \ {0}
        /\ \A i \in 1..(Len(itemQueue) - 1) : Tail(itemQueue)[i] = itemQueue[i + 1]
        /\ Head(itemQueue) = itemQueue[1] /\ Head(itemQueue) \in S
        /\ Queued(itemQueue) = Queued(Tail(itemQueue)) \cup {Head(itemQueue)} /\ NoTwice(Tail(itemQueue), Item)
        /\ Head(itemQueue) \in Item => Head(itemQueue) \notin Queued(Tail(itemQueue))
    BY <2>1, TakeFirst, ZenonT(30)
  <2> QED BY <1>1, <2>2 DEF S
<1> HIDE DEF h
<1>3. /\ inHand'[w] = h /\ \A v \in Consumer \ {w} : inHand'[v] = inHand[v] /\ consumerAt'[v] = consumerAt[v]
      /\ consumerAt'[w] = IF h = Sentinel THEN "ended" ELSE "work"
  BY <1>1 DEF ProducerInv, ProducerTypes
<1>4. ProducerTypes'
  BY <1>1, <1>2 DEF ProducerInv, ProducerTypes
<1>5. SentinelsBehind'
  <2>1. ASSUME NEW i \in 1..Len(itemQueue'), NEW k \in 1..Len(itemQueue'), itemQueue'[i] \in inBefore, itemQueue'[k] = Sentinel
        PROVE  i < k
    <3>1. i + 1 \in 1..Len(itemQueue) /\ k + 1 \in 1..Len(itemQueue) /\ itemQueue[i + 1] \in inBefore /\ itemQueue[k + 1] = Sentinel
      BY <1>2, <2>1
    <3>2. i + 1 < k + 1
      BY <3>1 DEF ProducerInv, SentinelsBehind
    <3> QED BY <3>2
  <2> QED BY <1>1, <1>2, <2>1 DEF ProducerInv, SentinelsBehind
<1>6. NobodyAfterwards'
  BY <1>1 DEF ProducerInv, NobodyAfterwards, AllGone
<1>7. CASE h = Sentinel
  <2>1. Working' = Working /\ \A v \in Working : v # w /\ inHand'[v] = inHand[v]
    BY <1>1, <1>3, <1>7 DEF Working
  <2>2. \A x \in Item : x \in Queued(itemQueue') <=> x \in Queued(itemQueue)
    BY <1>2, <1>7, ProducerAssumption
  <2>3. ItemsOnce' /\ ItemsKept'
    BY <1>1, <1>2, <2>1, <2>2, SMTT(30) DEF ProducerInv, ProducerTypes, ItemsOnce, ItemsKept
  <2>4. EndedIsBehind'
    <3>1. 1 \in 1..Len(itemQueue) /\ Sentinel \in Queued(itemQueue) /\ itemQueue[1] = Sentinel
      BY <1>2, <1>7
    <3>2. stopAt # "idle"
      BY <3>1 DEF ProducerInv, SentinelsBehind
    <3>3. inBefore \cap Queued(itemQueue) = {}
      <4> SUFFICES ASSUME NEW i \in 1..Len(itemQueue), itemQueue[i] \in inBefore PROVE FALSE
        BY DEF Queued
      <4>1. i < 1
        BY <1>2, <1>7, <3>1 DEF ProducerInv, SentinelsBehind
      <4> QED BY <4>1
    <3> QED BY <1>1, <1>2, <3>2, <3>3 DEF EndedIsBehind
  <2> QED BY <1>4, <1>5, <1>6, <2>3, <2>4 DEF ProducerInv
<1>8. CASE h # Sentinel
  <2>1. h \in Item /\ w \notin Working /\ Working' = Working \cup {w} /\ \A v \in Working : v # w /\ inHand'[v] = inHand[v]
    BY <1>1, <1>2, <1>3, <1>8 DEF Working
  <2>3. submitState[h] = "in" /\ \A v \in Working : inHand[v] # h
    BY <1>2, <2>1 DEF ProducerInv, ItemsOnce
  <2>5. ItemsOnce'
    BY <1>1, <1>2, <1>3, <2>1, <2>3 DEF ProducerInv, ItemsOnce
  <2>6. ItemsKept'
    BY <1>1, <1>2, <1>3, <2>1 DEF ProducerInv, ItemsKept
  <2>7. EndedIsBehind'
    BY <1>1, <1>2, <1>3, <1>8 DEF ProducerInv, EndedIsBehind
  <2> QED BY <1>4, <1>5, <1>6, <2>5, <2>6, <2>7 DEF ProducerInv
<1> QED BY <1>7, <1>8

LEMMA WorkOnItemKeeps == ASSUME ProducerInv, NEW w \in Consumer, WorkOnItem(w) PROVE ProducerInv'
<1> DEFINE x == inHand[w]
<1>1. /\ UNCHANGED <<itemQueue, submitState, stopAt, stopResult, inBefore, raising>>
      /\ consumerAt[w] = "work" /\ inHand' = [inHand EXCEPT ![w] = Sentinel]
      /\ IF x \in raising
         THEN consumerAt' = [consumerAt EXCEPT ![w] = "dead"] /\ UNCHANGED itemResults
         ELSE consumerAt' = [consumerAt EXCEPT ![w] = "get"] /\ itemResults' = itemResults \cup {x}
  BY DEF WorkOnItem
<1>2. /\ w \in Working /\ x \in Item /\ x \notin Queued(itemQueue) /\ submitState[x] = "in"
      /\ \A v \in Working : inHand[v] = x => v = w
  BY <1>1 DEF Working, ProducerInv, ItemsOnce
<1> HIDE DEF x
<1>3. /\ Working' = Working \ {w} /\ (\A v \in Working \ {w} : inHand'[v] = inHand[v]) /\ Queued(itemQueue)' = Queued(itemQueue)
  BY <1>1 DEF ProducerInv, ProducerTypes, Working, Queued
<1>4. ProducerTypes'
  BY <1>1, <1>2 DEF ProducerInv, ProducerTypes
<1>5. ItemsOnce'
  BY <1>1, <1>3 DEF ProducerInv, ItemsOnce, NoTwice
<1>6. ItemsKept'
  BY <1>1, <1>2, <1>3 DEF ProducerInv, ItemsKept, x
<1>7. SentinelsBehind'
  BY <1>1, <1>3 DEF ProducerInv, SentinelsBehind
<1>8. EndedIsBehind' /\ NobodyAfterwards'
  BY <1>1, <1>3 DEF ProducerInv, ProducerTypes, EndedIsBehind, NobodyAfterwards, AllGone
<1> QED BY <1>4, <1>5, <1>6, <1>7, <1>8 DEF ProducerInv

LEMMA ProducerKeeps == ProducerInv /\ ProducerNext => ProducerInv'
BY CheckStoppedKeeps, PutItemKeeps, BeginStopKeeps, PutSentinelKeeps, ReturnFromStopKeeps, GetItemKeeps, WorkOnItemKeeps
   DEF ProducerNext, StopStep, ConsumerStep

-----------------------------------------------------------------------------
(* The task queue and its workers *)

\* Workers that hold a job, and the jobs that are queued or held.
Busy == {w \in QueueWorker : workerAt[w] \in {"handle", "retry"}}
OnTheWay == {j \in Job : j \in Queued(jobQueue) \/ \E w \in Busy : jobInHand[w] = j}

TaskQueueTypes ==
  /\ jobQueue \in Seq(Job \cup {EndMark}) /\ submitted \subseteq Job /\ beforeStop \subseteq submitted
  /\ attempts \in [Job -> Nat]
  /\ workerAt \in [QueueWorker -> {"get", "handle", "retry", "ended"}]
  /\ jobInHand \in [QueueWorker -> Job \cup {EndMark}]
\* What join counts is what is queued or held.
AllCounted == unfinished = Len(jobQueue) + Cardinality(Busy)
\* A job is queued once or held by one worker, and was submitted.
JobsOnce ==
  /\ NoTwice(jobQueue, Job)
  /\ \A w \in Busy : /\ jobInHand[w] \in Job /\ jobInHand[w] \notin Queued(jobQueue)
                     /\ \A v \in Busy : jobInHand[v] = jobInHand[w] => v = w
  /\ OnTheWay \subseteq submitted /\ \A j \in Job \ submitted : attempts[j] = 0
\* A job that is on its way has retries left; otherwise it was handled or used them all up.
JobsKept ==
  \A j \in submitted :
    IF j \in OnTheWay THEN attempts[j] <= MaxRetries
                      ELSE j \in handledJobs \/ (j \in deadLetter /\ attempts[j] = MaxRetries + 1)
JoinSettles ==
  /\ queueStop \in {"marks", "returned"} => beforeStop \cap OnTheWay = {}
  /\ queueStop = "returned" => beforeStop \subseteq handledJobs \cup stopReturned
TaskQueueInv == TaskQueueTypes /\ AllCounted /\ JobsOnce /\ JobsKept /\ JoinSettles

LEMMA BusyIsFinite == IsFiniteSet(Busy) /\ Cardinality(Busy) \in Nat
BY TaskQueueAssumption, FS_Subset, FS_CardinalityType DEF Busy

LEMMA TaskQueueInitially == TaskQueueInit => TaskQueueInv
<1> SUFFICES ASSUME TaskQueueInit PROVE TaskQueueInv
  OBVIOUS
<1>1. Len(jobQueue) = 0 /\ Queued(jobQueue) = {} /\ Busy = {} /\ OnTheWay = {}
  BY DEF TaskQueueInit, Queued, Busy, OnTheWay
<1>2. TaskQueueTypes
  BY DEF TaskQueueInit, TaskQueueTypes
<1>3. AllCounted
  BY <1>1, FS_EmptySet DEF TaskQueueInit, AllCounted
<1>4. JobsOnce /\ JobsKept /\ JoinSettles
  BY <1>1 DEF TaskQueueInit, JobsOnce, JobsKept, JoinSettles, NoTwice
<1> QED BY <1>2, <1>3, <1>4 DEF TaskQueueInv

\* A step that keeps the same jobs on their way settles nothing.
LEMMA SameOnTheWay ==
  ASSUME TaskQueueInv, OnTheWay' = OnTheWay,
         UNCHANGED <<submitted, beforeStop, attempts, handledJobs, deadLetter, queueStop, stopReturned>>
  PROVE  JobsKept' /\ JoinSettles'
BY DEF TaskQueueInv, JobsKept, JoinSettles

LEMMA SubmitJobKeeps == ASSUME TaskQueueInv, NEW j \in Job, SubmitJob(j) PROVE TaskQueueInv'
<1>1. /\ UNCHANGED <<attempts, handledJobs, deadLetter, workerAt, jobInHand, beforeStop, queueStop, stopReturned>>
      /\ j \notin submitted /\ submitted' = submitted \cup {j}
      /\ jobQueue' = Append(jobQueue, j) /\ unfinished' = unfinished + 1
  BY DEF SubmitJob
<1>2. j \notin OnTheWay /\ j \notin Queued(jobQueue) /\ \A w \in Busy : jobInHand[w] # j
  BY <1>1 DEF TaskQueueInv, JobsOnce, OnTheWay
<1>3. /\ jobQueue' \in Seq(Job \cup {EndMark}) /\ Len(jobQueue') = Len(jobQueue) + 1 /\ Len(jobQueue) \in Nat
      /\ Queued(jobQueue') = Queued(jobQueue) \cup {j} /\ NoTwice(jobQueue', Job)
  BY <1>1, <1>2, PutLast DEF TaskQueueInv, TaskQueueTypes, JobsOnce
<1>4. Busy' = Busy /\ OnTheWay' = OnTheWay \cup {j}
  BY <1>1, <1>3 DEF Busy, OnTheWay
<1>5. TaskQueueTypes'
  BY <1>1, <1>3 DEF TaskQueueInv, TaskQueueTypes
<1>6. AllCounted'
  BY <1>1, <1>3, <1>4, BusyIsFinite DEF TaskQueueInv, AllCounted
<1>7. JobsOnce'
  BY <1>1, <1>2, <1>3, <1>4 DEF TaskQueueInv, JobsOnce
<1>8. JoinSettles'
  BY <1>1, <1>4 DEF TaskQueueInv, TaskQueueTypes, JoinSettles
<1>9. JobsKept'
  <2>1. attempts[j] = 0
    BY <1>1 DEF TaskQueueInv, JobsOnce
  <2> QED BY <1>1, <1>4, <2>1, TaskQueueAssumption DEF TaskQueueInv, JobsKept
<1> QED BY <1>5, <1>6, <1>7, <1>8, <1>9 DEF TaskQueueInv

\* A worker that puts its job down: it is free, its job is no longer on its way.
LEMMA PutDown ==
  ASSUME TaskQueueInv, NEW w \in Busy, JobDone(w), UNCHANGED <<jobQueue, jobInHand>>
  PROVE  /\ Busy' = Busy \ {w} /\ OnTheWay' = OnTheWay \ {jobInHand[w]} /\ jobInHand[w] \in OnTheWay
         /\ AllCounted' /\ NoTwice(jobQueue', Job) /\ Queued(jobQueue)' = Queued(jobQueue)
<1>1. w \in QueueWorker /\ workerAt' = [workerAt EXCEPT ![w] = "get"] /\ unfinished' = unfinished - 1
  BY DEF JobDone, Busy
<1>2. Busy' = Busy \ {w}
  BY <1>1 DEF Busy, TaskQueueInv, TaskQueueTypes
<1>3. Queued(jobQueue)' = Queued(jobQueue) /\ Len(jobQueue') = Len(jobQueue)
  BY DEF Queued
<1>4. OnTheWay' = OnTheWay \ {jobInHand[w]} /\ jobInHand[w] \in OnTheWay
  BY <1>2, <1>3 DEF OnTheWay, TaskQueueInv, JobsOnce
<1>5. AllCounted'
  <2>1. Cardinality(Busy) = Cardinality(Busy') + 1 /\ Cardinality(Busy') \in Nat
    <3>1. IsFiniteSet(Busy') /\ w \notin Busy' /\ Busy = Busy' \cup {w}
      BY <1>2, BusyIsFinite, FS_Subset
    <3> QED BY <3>1, FS_AddElement, FS_CardinalityType
  <2>2. Len(jobQueue) \in Nat
    BY DEF TaskQueueInv, TaskQueueTypes
  <2> QED BY <1>1, <1>3, <2>1, <2>2 DEF TaskQueueInv, AllCounted
<1> QED BY <1>2, <1>3, <1>4, <1>5 DEF TaskQueueInv, JobsOnce, NoTwice

LEMMA TakeJobKeeps == ASSUME TaskQueueInv, NEW w \in QueueWorker, TakeJob(w) PROVE TaskQueueInv'
<1> DEFINE h == Head(jobQueue)
<1>1. /\ UNCHANGED <<attempts, handledJobs, deadLetter, submitted, beforeStop, queueStop, stopReturned>>
      /\ workerAt[w] = "get" /\ jobQueue # <<>> /\ jobQueue' = Tail(jobQueue)
      /\ jobInHand' = [jobInHand EXCEPT ![w] = h]
      /\ IF h = EndMark
         THEN workerAt' = [workerAt EXCEPT ![w] = "ended"] /\ unfinished' = unfinished - 1
         ELSE workerAt' = [workerAt EXCEPT ![w] = "handle"] /\ UNCHANGED unfinished
  BY DEF TakeJob
<1>2. /\ jobQueue' \in Seq(Job \cup {EndMark}) /\ Len(jobQueue') = Len(jobQueue) - 1 /\ Len(jobQueue) \in Nat \ {0}
      /\ h \in Job \cup {EndMark} /\ Queued(jobQueue) = Queued(jobQueue') \cup {h} /\ NoTwice(jobQueue', Job)
      /\ h \in Job => h \notin Queued(jobQueue')
  BY <1>1, TakeFirst, ZenonT(30) DEF TaskQueueInv, TaskQueueTypes, JobsOnce
<1> HIDE DEF h
<1>3. /\ jobInHand'[w] = h /\ \A v \in QueueWorker \ {w} : jobInHand'[v] = jobInHand[v] /\ workerAt'[v] = workerAt[v]
      /\ workerAt'[w] = IF h = EndMark THEN "ended" ELSE "handle"
  BY <1>1 DEF TaskQueueInv, TaskQueueTypes
<1>4. TaskQueueTypes'
  BY <1>1, <1>2 DEF TaskQueueInv, TaskQueueTypes
<1>5. w \notin Busy /\ \A v \in Busy : v # w /\ jobInHand'[v] = jobInHand[v]
  BY <1>1, <1>3 DEF Busy
<1>6. CASE h = EndMark
  <2>1. Busy' = Busy
    BY <1>3, <1>5, <1>6 DEF Busy
  <2>2. OnTheWay' = OnTheWay
    BY <1>2, <1>5, <1>6, <2>1, TaskQueueAssumption DEF OnTheWay
  <2>3. AllCounted'
    BY <1>1, <1>2, <1>6, <2>1, BusyIsFinite DEF TaskQueueInv, AllCounted
  <2>4. JobsOnce'
    BY <1>1, <1>2, <1>5, <1>6, <2>1, <2>2 DEF TaskQueueInv, JobsOnce
  <2> QED BY <1>1, <1>4, <2>2, <2>3, <2>4, SameOnTheWay DEF TaskQueueInv
<1>7. CASE h # EndMark
  <2>1. h \in Job /\ Busy' = Busy \cup {w}
    BY <1>2, <1>3, <1>5, <1>7 DEF Busy
  <2>2. OnTheWay' = OnTheWay
    BY <1>2, <1>3, <1>5, <2>1 DEF OnTheWay
  <2>3. AllCounted'
    <3>1. Cardinality(Busy') = Cardinality(Busy) + 1
      BY <1>5, <2>1, BusyIsFinite, FS_AddElement
    <3> QED BY <1>1, <1>2, <1>7, <3>1, BusyIsFinite DEF TaskQueueInv, AllCounted
  <2>4. JobsOnce'
    BY <1>1, <1>2, <1>3, <1>5, <2>1, <2>2 DEF TaskQueueInv, JobsOnce
  <2> QED BY <1>1, <1>4, <2>2, <2>3, <2>4, SameOnTheWay DEF TaskQueueInv
<1> QED BY <1>6, <1>7

LEMMA HandlerReturnsKeeps == ASSUME TaskQueueInv, NEW w \in QueueWorker, HandlerReturns(w) PROVE TaskQueueInv'
<1>1. /\ UNCHANGED <<jobQueue, attempts, deadLetter, jobInHand, submitted, beforeStop, queueStop, stopReturned>>
      /\ w \in Busy /\ JobDone(w) /\ handledJobs' = handledJobs \cup {jobInHand[w]}
  BY DEF HandlerReturns, Busy
<1>2. /\ Busy' = Busy \ {w} /\ OnTheWay' = OnTheWay \ {jobInHand[w]} /\ jobInHand[w] \in OnTheWay
      /\ AllCounted' /\ NoTwice(jobQueue', Job) /\ Queued(jobQueue)' = Queued(jobQueue)
  BY <1>1, PutDown
<1>3. TaskQueueTypes'
  BY <1>1 DEF JobDone, TaskQueueInv, TaskQueueTypes
<1>4. JobsOnce'
  BY <1>1, <1>2 DEF TaskQueueInv, JobsOnce
<1>5. JobsKept' /\ JoinSettles'
  BY <1>1, <1>2 DEF TaskQueueInv, JobsKept, JoinSettles
<1> QED BY <1>2, <1>3, <1>4, <1>5 DEF TaskQueueInv

LEMMA HandlerRaisesKeeps == ASSUME TaskQueueInv, NEW w \in QueueWorker, HandlerRaises(w) PROVE TaskQueueInv'
<1> DEFINE job == jobInHand[w]
<1>1. /\ UNCHANGED <<jobQueue, handledJobs, jobInHand, submitted, beforeStop, queueStop, stopReturned>>
      /\ workerAt[w] = "handle" /\ w \in Busy /\ attempts' = [attempts EXCEPT ![job] = @ + 1]
      /\ IF attempts'[job] <= MaxRetries
         THEN workerAt' = [workerAt EXCEPT ![w] = "retry"] /\ UNCHANGED <<unfinished, deadLetter>>
         ELSE JobDone(w) /\ deadLetter' = deadLetter \cup {job}
  BY DEF HandlerRaises, Busy
<1>2. job \in Job /\ job \in OnTheWay /\ job \in submitted /\ attempts[job] \in Nat /\ attempts[job] <= MaxRetries
  BY <1>1 DEF TaskQueueInv, TaskQueueTypes, JobsOnce, JobsKept, OnTheWay
<1>3. attempts'[job] = attempts[job] + 1 /\ \A j \in Job : j # job => attempts'[j] = attempts[j]
  BY <1>1, <1>2 DEF TaskQueueInv, TaskQueueTypes
<1>4. Queued(jobQueue)' = Queued(jobQueue)
  BY <1>1 DEF Queued
<1>5. TaskQueueTypes'
  BY <1>1, <1>2 DEF JobDone, TaskQueueInv, TaskQueueTypes
<1> HIDE DEF job
<1>6. CASE attempts'[job] <= MaxRetries
  <2>1. Busy' = Busy /\ workerAt' = [workerAt EXCEPT ![w] = "retry"] /\ UNCHANGED <<unfinished, deadLetter>>
    BY <1>1, <1>6 DEF Busy, TaskQueueInv, TaskQueueTypes
  <2>2. OnTheWay' = OnTheWay
    BY <1>1, <1>4, <2>1 DEF OnTheWay
  <2>3. AllCounted'
    BY <1>1, <2>1 DEF TaskQueueInv, AllCounted
  <2>4. JobsOnce'
    BY <1>1, <1>2, <1>3, <1>4, <2>1, <2>2 DEF TaskQueueInv, JobsOnce, NoTwice
  <2>5. JobsKept' /\ JoinSettles'
    BY <1>1, <1>2, <1>3, <1>6, <2>1, <2>2 DEF TaskQueueInv, TaskQueueTypes, JobsKept, JoinSettles
  <2> QED BY <1>5, <2>3, <2>4, <2>5 DEF TaskQueueInv
<1>7. CASE ~ (attempts'[job] <= MaxRetries)
  <2>1. attempts'[job] = MaxRetries + 1 /\ JobDone(w) /\ deadLetter' = deadLetter \cup {job}
    BY <1>1, <1>2, <1>3, <1>7, TaskQueueAssumption
  <2>2. /\ Busy' = Busy \ {w} /\ OnTheWay' = OnTheWay \ {job} /\ AllCounted' /\ NoTwice(jobQueue', Job)
    BY <1>1, <2>1, PutDown DEF job
  <2>3. JobsOnce'
    BY <1>1, <1>2, <1>3, <1>4, <2>2 DEF TaskQueueInv, JobsOnce
  <2>4. JobsKept' /\ JoinSettles'
    BY <1>1, <1>2, <1>3, <2>1, <2>2 DEF TaskQueueInv, TaskQueueTypes, JobsKept, JoinSettles
  <2> QED BY <1>5, <2>2, <2>3, <2>4 DEF TaskQueueInv
<1> QED BY <1>6, <1>7

LEMMA PutBackKeeps == ASSUME TaskQueueInv, NEW w \in QueueWorker, PutBack(w) PROVE TaskQueueInv'
<1> DEFINE job == jobInHand[w]
<1>1. /\ UNCHANGED <<unfinished, attempts, handledJobs, deadLetter, jobInHand, submitted, beforeStop, queueStop, stopReturned>>
      /\ w \in Busy /\ jobQueue' = Append(jobQueue, job) /\ workerAt' = [workerAt EXCEPT ![w] = "get"]
  BY DEF PutBack, Busy
<1>2. job \in Job /\ job \notin Queued(jobQueue) /\ \A v \in Busy : jobInHand[v] = job => v = w
  BY <1>1 DEF TaskQueueInv, JobsOnce
<1> HIDE DEF job
<1>3. /\ jobQueue' \in Seq(Job \cup {EndMark}) /\ Len(jobQueue') = Len(jobQueue) + 1 /\ Len(jobQueue) \in Nat
      /\ Queued(jobQueue') = Queued(jobQueue) \cup {job} /\ NoTwice(jobQueue', Job)
  BY <1>1, <1>2, PutLast DEF TaskQueueInv, TaskQueueTypes, JobsOnce
<1>4. Busy' = Busy \ {w}
  BY <1>1 DEF Busy, TaskQueueInv, TaskQueueTypes
<1>5. OnTheWay' = OnTheWay
  BY <1>1, <1>2, <1>3, <1>4 DEF OnTheWay, job
<1>6. TaskQueueTypes'
  BY <1>1, <1>3 DEF TaskQueueInv, TaskQueueTypes
<1>7. AllCounted'
  <2>1. IsFiniteSet(Busy') /\ w \notin Busy' /\ Busy = Busy' \cup {w}
    BY <1>1, <1>4, BusyIsFinite, FS_Subset
  <2>2. Cardinality(Busy) = Cardinality(Busy') + 1 /\ Cardinality(Busy') \in Nat
    BY <2>1, FS_AddElement, FS_CardinalityType
  <2> QED BY <1>1, <1>3, <2>2 DEF TaskQueueInv, AllCounted
<1>8. JobsOnce'
  BY <1>1, <1>2, <1>3, <1>4, <1>5 DEF TaskQueueInv, JobsOnce
<1> QED BY <1>1, <1>5, <1>6, <1>7, <1>8, SameOnTheWay DEF TaskQueueInv

LEMMA QueueStopStepKeeps == ASSUME TaskQueueInv, QueueStopStep PROVE TaskQueueInv'
<1>1. CASE BeginQueueStop
  <2>1. UNCHANGED <<Busy, OnTheWay, Queued(jobQueue)>>
    BY <1>1 DEF BeginQueueStop, Busy, OnTheWay, Queued
  <2> QED BY <1>1, <2>1 DEF BeginQueueStop, TaskQueueInv, TaskQueueTypes, AllCounted, JobsOnce, JobsKept, JoinSettles, NoTwice
<1>2. CASE QueueJoined
  <2>1. UNCHANGED <<Busy, OnTheWay, Queued(jobQueue)>>
    BY <1>2 DEF QueueJoined, Busy, OnTheWay, Queued
  <2>2. Len(jobQueue) = 0 /\ Cardinality(Busy) = 0
    <3>1. Len(jobQueue) \in Nat /\ unfinished = 0
      BY <1>2 DEF QueueJoined, TaskQueueInv, TaskQueueTypes
    <3> QED BY <3>1, BusyIsFinite DEF TaskQueueInv, AllCounted
  <2>3. OnTheWay = {}
    BY <2>2, BusyIsFinite, FS_EmptySet DEF OnTheWay, Queued
  <2> QED BY <1>2, <2>1, <2>3 DEF QueueJoined, TaskQueueInv, TaskQueueTypes, AllCounted, JobsOnce, JobsKept, JoinSettles, NoTwice
<1>3. CASE PutEndMark
  <2>1. /\ UNCHANGED <<attempts, handledJobs, deadLetter, workerAt, jobInHand, submitted, beforeStop, queueStop, stopReturned>>
        /\ jobQueue' = Append(jobQueue, EndMark) /\ unfinished' = unfinished + 1
    BY <1>3 DEF PutEndMark
  <2>2. /\ jobQueue' \in Seq(Job \cup {EndMark}) /\ Len(jobQueue') = Len(jobQueue) + 1 /\ Len(jobQueue) \in Nat
        /\ Queued(jobQueue') = Queued(jobQueue) \cup {EndMark} /\ NoTwice(jobQueue', Job)
    BY <2>1, TaskQueueAssumption, PutLast DEF TaskQueueInv, TaskQueueTypes, JobsOnce
  <2>3. Busy' = Busy /\ OnTheWay' = OnTheWay
    BY <2>1, <2>2, TaskQueueAssumption DEF Busy, OnTheWay
  <2>4. TaskQueueTypes' /\ AllCounted'
    BY <2>1, <2>2, <2>3, BusyIsFinite DEF TaskQueueInv, TaskQueueTypes, AllCounted
  <2>5. JobsOnce'
    BY <2>1, <2>2, <2>3, TaskQueueAssumption DEF TaskQueueInv, JobsOnce
  <2> QED BY <2>1, <2>3, <2>4, <2>5, SameOnTheWay DEF TaskQueueInv
<1>4. CASE QueueStopReturns
  <2>1. UNCHANGED <<Busy, OnTheWay, Queued(jobQueue)>>
    BY <1>4 DEF QueueStopReturns, Busy, OnTheWay, Queued
  <2>2. JoinSettles'
    BY <1>4, <2>1 DEF QueueStopReturns, TaskQueueInv, TaskQueueTypes, JobsKept, JoinSettles
  <2> QED BY <1>4, <2>1, <2>2 DEF QueueStopReturns, TaskQueueInv, TaskQueueTypes, AllCounted, JobsOnce, JobsKept, NoTwice
<1> QED BY <1>1, <1>2, <1>3, <1>4 DEF QueueStopStep

LEMMA TaskQueueKeeps == TaskQueueInv /\ TaskQueueNext => TaskQueueInv'
BY SubmitJobKeeps, TakeJobKeeps, HandlerReturnsKeeps, HandlerRaisesKeeps, PutBackKeeps, QueueStopStepKeeps
   DEF TaskQueueNext, QueueWorkerStep

\* What stop returned lacks only what is still queued, and only when no worker took a sentinel.
LEMMA ReturnedIsComplete == ProducerInv => StopReturnsAllResults
<1> SUFFICES ASSUME ProducerInv, stopAt = "returned", NEW x \in (inBefore \ raising) \ stopResult
             PROVE  AllDead /\ \E i \in 1..Len(itemQueue) : itemQueue[i] = x
  BY DEF StopReturnsAllResults
<1>1. x \in Item \ raising /\ submitState[x] = "in" /\ x \notin itemResults /\ AllGone
  BY DEF ProducerInv, ProducerTypes, SentinelsBehind, NobodyAfterwards
<1>2. Working = {}
  BY <1>1 DEF AllGone, Working
<1>3. x \in Queued(itemQueue)
  BY <1>1, <1>2 DEF ProducerInv, ItemsKept
<1>4. \A w \in Consumer : consumerAt[w] # "ended"
  BY <1>3 DEF ProducerInv, EndedIsBehind
<1> QED BY <1>1, <1>3, <1>4 DEF AllGone, AllDead, Queued

LEMMA QueuesStopComplete == ProducerInv /\ TaskQueueInv => StopsAreComplete
BY ReturnedIsComplete
   DEF TaskQueueInv, TaskQueueTypes, JobsKept, JoinSettles, StopsAreComplete, StopSettlesEveryJob

\* Both stops are complete, whatever the items, the workers and the queue's size, and however many
\* items raise: what stop returns has a result for every item that was queued before it and did
\* not raise, as long as one worker lived to take a sentinel (the sentinels come behind the items),
\* and otherwise lacks only what is still queued; every job submitted before stop was handled or is
\* a dead letter that used up its retries (join counts what workers hold and put back).
THEOREM StopsComplete == QueuesSpec => []StopsAreComplete
<1>1. QueuesSpec => [](ProducerInv /\ TaskQueueInv)
  <2>1. ProducerInit /\ TaskQueueInit => ProducerInv /\ TaskQueueInv
    BY ProducerInitially, TaskQueueInitially
  <2>2. ProducerInv /\ UNCHANGED pcVars => ProducerInv'
    BY DEF pcVars, ProducerInv, ProducerTypes, ItemsOnce, ItemsKept, SentinelsBehind, EndedIsBehind, NobodyAfterwards,
           AllGone, Working, NoTwice, Queued
  <2>3. TaskQueueInv /\ UNCHANGED tqVars => TaskQueueInv'
    BY DEF tqVars, TaskQueueInv, TaskQueueTypes, AllCounted, JobsOnce, JobsKept, JoinSettles, Busy, OnTheWay, NoTwice, Queued
  <2>4. ProducerInv /\ TaskQueueInv
        /\ [(ProducerNext /\ UNCHANGED tqVars) \/ (TaskQueueNext /\ UNCHANGED pcVars)]_<<pcVars, tqVars>>
        => (ProducerInv /\ TaskQueueInv)'
    BY <2>2, <2>3, ProducerKeeps, TaskQueueKeeps
  <2> QED BY <2>1, <2>4, PTL DEF QueuesSpec
<1> QED BY <1>1, QueuesStopComplete, PTL

-----------------------------------------------------------------------------
(* The memoized function *)

\* Fibonacci's function, of which two values in a row are a step.
LEMMA FibIs == /\ Fib[0] = 0 /\ Fib[1] = 1 /\ \A n \in Nat : Fib[n] \in Nat
               /\ \A n \in Nat : n >= 2 => Fib[n] = Fib[n - 1] + Fib[n - 2]
<1> DEFINE Rule(g) == g = [n \in Nat |-> IF n < 2 THEN n ELSE g[n - 1] + g[n - 2]]
           Pairs == Nat \X Nat
<1>1. PICK G \in [Nat -> Pairs] : G[0] = <<0, 1>> /\ \A n \in Nat : G[n + 1] = <<G[n][2], G[n][1] + G[n][2]>>
  <2> DEFINE next == [p \in Pairs |-> <<p[2], p[1] + p[2]>>]
  <2>1. next \in [Pairs -> Pairs] /\ \A p \in Pairs : next[p] = <<p[2], p[1] + p[2]>>
    OBVIOUS
  <2> HIDE DEF next
  <2>2. <<0, 1>> \in Pairs
    OBVIOUS
  <2> HIDE DEF Pairs
  <2>3. PICK G : Steps(G, Pairs, <<0, 1>>, next)
    BY <2>1, <2>2, StepByStep, Zenon
  <2>4. \A n \in Nat : G[n] \in Pairs
    BY <2>3 DEF Steps
  <2>5. \A n \in Nat : G[n + 1] = <<G[n][2], G[n][1] + G[n][2]>>
    BY <2>1, <2>3, <2>4 DEF Steps
  <2> QED BY <2>3, <2>5 DEF Steps
<1> DEFINE F == [n \in Nat |-> G[n][1]]
<1>2. F[0] = 0 /\ F[1] = 1 /\ F \in [Nat -> Nat] /\ \A n \in Nat : n >= 2 => F[n] = F[n - 1] + F[n - 2]
  <2>1. \A n \in Nat : G[n][1] \in Nat /\ G[n][2] \in Nat /\ F[n] = G[n][1] /\ n + 1 \in Nat
    <3>1. \A n \in Nat : G[n] \in Nat \X Nat
      BY <1>1
    <3>2. \A p \in Nat \X Nat : p[1] \in Nat /\ p[2] \in Nat
      OBVIOUS
    <3> QED BY <3>1, <3>2
  <2> HIDE DEF F
  <2>2. \A n \in Nat : G[n + 1][1] = G[n][2] /\ G[n + 1][2] = G[n][1] + G[n][2]
    <3> TAKE n \in Nat
    <3>1. G[n + 1] = <<G[n][2], G[n][1] + G[n][2]>>
      BY <1>1
    <3> QED BY <3>1
  <2>3. F[0] = 0 /\ F[1] = 1
    <3>1. G[0] = <<0, 1>>
      BY <1>1
    <3>2. G[0][1] = 0 /\ G[0][2] = 1
      BY <3>1
    <3>3. G[0 + 1][1] = G[0][2]
      BY <2>2
    <3> QED BY <2>1, <3>2, <3>3
  <2>4. ASSUME NEW n \in Nat, n >= 2 PROVE F[n] = F[n - 1] + F[n - 2]
    <3>1. n - 2 \in Nat /\ n - 1 \in Nat /\ (n - 2) + 1 = n - 1 /\ (n - 1) + 1 = n
      BY <2>4
    <3>2. G[n - 1][1] = G[n - 2][2] /\ G[n - 1][2] = G[n - 2][1] + G[n - 2][2] /\ G[n][1] = G[n - 1][2]
      BY <2>2, <3>1
    <3> QED BY <2>1, <3>1, <3>2
  <2>5. F \in [Nat -> Nat]
    BY <2>1 DEF F
  <2> QED BY <2>3, <2>4, <2>5
<1> HIDE DEF F
<1>3. Rule(F)
  <2>1. \A n \in Nat : n < 2 => n = 0 \/ n = 1
    OBVIOUS
  <2>2. \A n \in Nat : ~(n < 2) => n >= 2
    OBVIOUS
  <2>3. F = [n \in Nat |-> F[n]]
    BY <1>2
  <2>4. \A n \in Nat : F[n] = IF n < 2 THEN n ELSE F[n - 1] + F[n - 2]
    BY <1>2, <2>1, <2>2
  <2> QED BY <2>3, <2>4
<1>4. Fib = [n \in Nat |-> IF n < 2 THEN n ELSE Fib[n - 1] + Fib[n - 2]]
  <2>1. Rule(CHOOSE g : Rule(g))
    <3> HIDE DEF Rule
    <3> QED BY <1>3
  <2> QED BY <2>1 DEF Fib
<1>5. \A n \in Nat : Fib[n] = IF n < 2 THEN n ELSE Fib[n - 1] + Fib[n - 2]
  BY <1>4
<1>6. \A n \in Nat : Fib[n] \in Nat /\ Fib[n + 1] \in Nat
  <2> DEFINE S == {n \in Nat : Fib[n] \in Nat /\ Fib[n + 1] \in Nat}
  <2>1. 0 \in S
    BY <1>5
  <2>2. ASSUME NEW n \in S PROVE n + 1 \in S
    <3>1. n + 1 \in Nat /\ (n + 1) + 1 \in Nat /\ ~((n + 1) + 1 < 2) /\ ((n + 1) + 1) - 1 = n + 1 /\ ((n + 1) + 1) - 2 = n
      OBVIOUS
    <3>2. Fib[(n + 1) + 1] = Fib[n + 1] + Fib[n]
      BY <1>5, <3>1
    <3> QED BY <3>1, <3>2
  <2> HIDE DEF S
  <2>3. S \subseteq Nat
    BY DEF S
  <2>4. S = Nat
    BY <2>1, <2>2, <2>3, AllNumbers
  <2> QED BY <2>4 DEF S
<1>7. Fib[0] = 0 /\ Fib[1] = 1
  BY <1>5
<1>8. \A n \in Nat : n >= 2 => Fib[n] = Fib[n - 1] + Fib[n - 2]
  BY <1>5
<1> QED BY <1>6, <1>7, <1>8

Frames == [n : Nat, at : {"lookup", "compute", "first", "second", "third", "store"}, sum : Nat]
\* How far a body is tells what it has summed up.
Summed(f) ==
  /\ f.at \in {"lookup", "compute", "first"} => f.sum = 0
  /\ f.at \in {"first", "second", "third"} => f.n >= 2
  /\ f.at \in {"second", "third"} => f.sum = Fib[f.n - 1]
  /\ f.at = "store" => f.sum = Fib[f.n]
\* A frame that waits has called for the argument of the frame above it.
CallOf(f, g) == (f.at = "first" /\ g.n = f.n - 1) \/ (f.at = "third" /\ g.n = f.n - 2)
GoesOn(f) == f.at \in {"lookup", "compute", "second", "store"}
GoodStack(s) ==
  /\ s \in Seq(Frames)
  /\ \A i \in 1..Len(s) : Summed(s[i])
  /\ \A i \in 1..Len(s) : IF i = Len(s) THEN GoesOn(s[i]) ELSE CallOf(s[i], s[i + 1])

MemoHolds ==
  /\ memoOrder \in Seq(Nat) /\ Len(memoOrder) <= MemoSize
  /\ DOMAIN memo = ToSet(memoOrder) /\ \A k \in DOMAIN memo : memo[k] = Fib[k]
StacksCompute ==
  /\ asked \in [MemoThread -> FibArgs]
  /\ stack \in [MemoThread -> Seq(Frames)] /\ answer \in [MemoThread -> Int]
  /\ \A t \in MemoThread : /\ GoodStack(stack[t])
                           /\ IF stack[t] = <<>> THEN answer[t] = Fib[asked[t]] ELSE stack[t][1].n = asked[t]
MemoInv == MemoHolds /\ StacksCompute

LEMMA FrameWith ==
  ASSUME NEW f \in Frames, NEW x, NEW a
  PROVE  [f EXCEPT !.sum = x, !.at = a] = [n |-> f.n, at |-> a, sum |-> x]
<1> DEFINE g == [f EXCEPT !.sum = x]
           h == [g EXCEPT !.at = a]
<1>1. DOMAIN f = {"n", "at", "sum"}
  BY DEF Frames
<1>2. DOMAIN g = {"n", "at", "sum"} /\ g.n = f.n /\ g.sum = x
  BY <1>1
<1>3. [f EXCEPT !.sum = x, !.at = a] = h
  OBVIOUS
<1> HIDE DEF g
<1>4. DOMAIN h = {"n", "at", "sum"} /\ h.n = f.n /\ h.sum = x /\ h.at = a /\ h = [i \in {"n", "at", "sum"} |-> h[i]]
  BY <1>2
<1> HIDE DEF h
<1>5. h = [n |-> f.n, at |-> a, sum |-> x]
  BY <1>4
<1> QED BY <1>3, <1>5

\* The top frame goes on by itself.
LEMMA TopChanges ==
  ASSUME NEW s, GoodStack(s), s # <<>>, NEW f \in Frames, f.n = s[Len(s)].n, Summed(f), GoesOn(f)
  PROVE  GoodStack([s EXCEPT ![Len(s)] = f]) /\ [s EXCEPT ![Len(s)] = f] # <<>>
         /\ [s EXCEPT ![Len(s)] = f][1].n = s[1].n
<1> DEFINE u == [s EXCEPT ![Len(s)] = f]
           l == Len(s)
<1>1. l \in Nat \ {0} /\ u \in Seq(Frames) /\ Len(u) = l /\ u[l] = f /\ \A i \in 1..l : i # l => u[i] = s[i]
  BY DEF GoodStack
<1>2. (\A i \in 1..l : Summed(s[i])) /\ \A i \in 1..l : IF i = l THEN GoesOn(s[i]) ELSE CallOf(s[i], s[i + 1])
  BY DEF GoodStack
<1> HIDE DEF u
<1>3. f.n = s[l].n
  OBVIOUS
<1> HIDE DEF l
<1>4. \A i \in 1..l : u[i].n = s[i].n
  BY <1>1, <1>3
<1>5. ASSUME NEW i \in 1..l, i # l PROVE CallOf(u[i], u[i + 1])
  <2>1. i + 1 \in 1..l /\ u[i] = s[i]
    BY <1>1, <1>5
  <2>2. u[i + 1].n = s[i + 1].n /\ CallOf(s[i], s[i + 1])
    BY <1>2, <1>4, <1>5, <2>1
  <2> QED BY <2>1, <2>2 DEF CallOf
<1>6. \A i \in 1..l : Summed(u[i])
  BY <1>1, <1>2
<1>7. GoesOn(u[l])
  BY <1>1
<1>8. GoodStack(u)
  BY <1>1, <1>5, <1>6, <1>7 DEF GoodStack
<1>9. u[1].n = s[1].n /\ u # <<>>
  BY <1>1, <1>4
<1> QED BY <1>8, <1>9 DEF u, l

\* The top frame calls the wrapper for an argument.
LEMMA FrameCalls ==
  ASSUME NEW s, GoodStack(s), s # <<>>, NEW f \in Frames, f.n = s[Len(s)].n, Summed(f),
         NEW m \in Nat, CallOf(f, Frame(m))
  PROVE  /\ GoodStack(Append([s EXCEPT ![Len(s)] = f], Frame(m))) /\ Append([s EXCEPT ![Len(s)] = f], Frame(m)) # <<>>
         /\ Append([s EXCEPT ![Len(s)] = f], Frame(m))[1].n = s[1].n
<1> DEFINE u == [s EXCEPT ![Len(s)] = f]
           v == Append(u, Frame(m))
           l == Len(s)
<1>1. l \in Nat \ {0} /\ u \in Seq(Frames) /\ Len(u) = l /\ u[l] = f /\ \A i \in 1..l : i # l => u[i] = s[i]
  BY DEF GoodStack
<1>2. (\A i \in 1..l : Summed(s[i])) /\ \A i \in 1..l : IF i = l THEN GoesOn(s[i]) ELSE CallOf(s[i], s[i + 1])
  BY DEF GoodStack
<1>3. f.n = s[l].n
  OBVIOUS
<1>4. Frame(m) \in Frames /\ Summed(Frame(m)) /\ GoesOn(Frame(m))
  BY DEF Frame, Frames, Summed, GoesOn
<1> HIDE DEF u, l
<1>5. v \in Seq(Frames) /\ Len(v) = l + 1 /\ v[l + 1] = Frame(m) /\ v # <<>> /\ \A i \in 1..l : v[i] = u[i]
  BY <1>1, <1>4
<1> HIDE DEF v
<1>6. \A i \in 1..l : u[i].n = s[i].n
  BY <1>1, <1>3
<1>7. ASSUME NEW i \in 1..(l + 1) PROVE Summed(v[i])
  <2>1. i = l + 1 \/ i \in 1..l
    BY <1>1
  <2> QED BY <1>1, <1>2, <1>4, <1>5, <2>1
<1>8. ASSUME NEW i \in 1..l PROVE CallOf(v[i], v[i + 1])
  <2>1. CASE i = l
    BY <1>1, <1>5, <2>1
  <2>2. CASE i # l
    <3>1. i + 1 \in 1..l /\ u[i] = s[i] /\ v[i] = u[i] /\ v[i + 1] = u[i + 1]
      BY <1>1, <1>5, <2>2
    <3>2. u[i + 1].n = s[i + 1].n /\ CallOf(s[i], s[i + 1])
      BY <1>2, <1>6, <2>2, <3>1
    <3> QED BY <3>1, <3>2 DEF CallOf
  <2> QED BY <2>1, <2>2
<1>9. \A i \in 1..(l + 1) : IF i = l + 1 THEN GoesOn(v[i]) ELSE CallOf(v[i], v[i + 1])
  <2>1. \A i \in 1..(l + 1) : i = l + 1 \/ i \in 1..l
    BY <1>1
  <2> QED BY <1>4, <1>5, <1>8, <2>1
<1>10. GoodStack(v)
  BY <1>5, <1>7, <1>9 DEF GoodStack
<1>11. v[1].n = s[1].n
  BY <1>1, <1>5, <1>6
<1> QED BY <1>5, <1>10, <1>11 DEF u, v, l

\* A result is added to the frame that called, which goes on.
LEMMA ResultReturns ==
  ASSUME NEW t \in MemoThread, StacksCompute, stack[t] # <<>>, NEW r \in Nat, r = Fib[Top(t).n], Return(t, r), UNCHANGED asked
  PROVE  StacksCompute'
<1> DEFINE s == stack[t]
           l == Len(s)
           rest == Front(s)
<1>1. s \in Seq(Frames) /\ l \in Nat \ {0} /\ Top(t) = s[l] /\ GoodStack(s) /\ s[1].n = asked[t]
  BY DEF StacksCompute, Top, Last
<1>2. rest \in Seq(Frames) /\ Len(rest) = l - 1 /\ \A i \in 1..(l - 1) : rest[i] = s[i]
  BY <1>1 DEF Front
<1>3. (\A i \in 1..l : Summed(s[i])) /\ \A i \in 1..l : IF i = l THEN GoesOn(s[i]) ELSE CallOf(s[i], s[i + 1])
  BY <1>1 DEF GoodStack
<1>4. stack \in [MemoThread -> Seq(Frames)] /\ answer \in [MemoThread -> Int]
      /\ \A u \in MemoThread : /\ GoodStack(stack[u])
                               /\ IF stack[u] = <<>> THEN answer[u] = Fib[asked[u]] ELSE stack[u][1].n = asked[u]
      /\ asked' = asked /\ asked \in [MemoThread -> FibArgs]
  BY DEF StacksCompute
<1>5. IF rest = <<>>
      THEN stack' = [stack EXCEPT ![t] = <<>>] /\ answer' = [answer EXCEPT ![t] = r]
      ELSE /\ stack' = [stack EXCEPT ![t] = [rest EXCEPT ![Len(rest)] = Resumed(rest[Len(rest)], r)]]
           /\ UNCHANGED answer
  BY DEF Return
<1>6. CASE rest = <<>>
  <2>1. l = 1 /\ r = Fib[asked[t]]
    BY <1>1, <1>2, <1>6
  <2>2. stack' \in [MemoThread -> Seq(Frames)] /\ answer' \in [MemoThread -> Int]
        /\ stack'[t] = <<>> /\ answer'[t] = r /\ \A u \in MemoThread : u # t => stack'[u] = stack[u] /\ answer'[u] = answer[u]
    <3>1. stack' = [stack EXCEPT ![t] = <<>>] /\ answer' = [answer EXCEPT ![t] = r]
      BY <1>5, <1>6
    <3>2. <<>> \in Seq(Frames) /\ r \in Int
      OBVIOUS
    <3> QED BY <1>4, <3>1, <3>2
  <2>3. GoodStack(<<>>)
    BY DEF GoodStack
  <2> QED BY <1>4, <2>1, <2>2, <2>3 DEF StacksCompute
<1>7. CASE rest # <<>>
  <2> DEFINE k == l - 1
             g == [n |-> s[k].n, at |-> IF s[k].at = "first" THEN "second" ELSE "store", sum |-> s[k].sum + r]
             new == [rest EXCEPT ![k] = g]
  <2>1. k \in 1..(l - 1) /\ k \in 1..l /\ k + 1 = l /\ k # l /\ Len(rest) = k /\ rest[k] = s[k] /\ s[k] \in Frames /\ k \in DOMAIN rest
    BY <1>1, <1>2, <1>7, SMTT(30)
  <2>2. CallOf(s[k], s[l]) /\ Summed(s[k])
    BY <1>3, <2>1
  <2>3. /\ s[k].n \in Nat /\ s[k].sum \in Nat /\ s[k] = [n |-> s[k].n, at |-> s[k].at, sum |-> s[k].sum]
    BY <2>1 DEF Frames
  <2>4. Resumed(rest[Len(rest)], r) = g
    <3>1. Resumed(s[k], r) = [s[k] EXCEPT !.sum = s[k].sum + r, !.at = IF s[k].at = "first" THEN "second" ELSE "store"]
      BY <2>1, <2>3 DEF Resumed
    <3> QED BY <2>1, <3>1, FrameWith
  <2>5. g \in Frames /\ g.n = s[k].n /\ GoesOn(g)
    BY <2>3 DEF Frames, GoesOn
  <2>6. Summed(g)
    <3>1. r = Fib[s[l].n]
      BY <1>1
    <3>2. CASE s[k].at = "first" /\ s[l].n = s[k].n - 1
      BY <2>2, <2>3, <3>1, <3>2 DEF Summed
    <3>3. CASE s[k].at = "third" /\ s[l].n = s[k].n - 2
      <4>1. s[k].n >= 2 /\ s[k].sum = Fib[s[k].n - 1]
        BY <2>2, <3>3 DEF Summed
      <4>2. Fib[s[k].n] = Fib[s[k].n - 1] + Fib[s[k].n - 2]
        BY <2>3, <4>1, FibIs
      <4>3. Fib[s[k].n] = s[k].sum + r
        BY <3>1, <3>3, <4>1, <4>2
      <4> QED BY <3>3, <4>3 DEF Summed
    <3> QED BY <2>2, <3>2, <3>3 DEF CallOf
  <2> HIDE DEF g
  <2>7. new \in Seq(Frames) /\ Len(new) = k /\ new[k] = g /\ \A i \in 1..k : i # k => new[i] = s[i]
    BY <1>2, <2>1, <2>5
  <2> HIDE DEF new
  <2>8. \A i \in 1..k : new[i].n = s[i].n
    BY <2>5, <2>7
  <2>9. GoodStack(new)
    <3>1. ASSUME NEW i \in 1..k PROVE Summed(new[i]) /\ (IF i = k THEN GoesOn(new[i]) ELSE CallOf(new[i], new[i + 1]))
      <4>1. CASE i = k
        BY <2>5, <2>6, <2>7, <4>1
      <4>2. CASE i # k
        <5>1. i \in 1..l /\ i # l /\ i + 1 \in 1..k /\ new[i] = s[i]
          <6>1. i + 1 \in 1..k /\ i \in 1..l /\ i # l
            BY <2>1, <4>2
          <6> QED BY <2>7, <4>2, <6>1
        <5>2. new[i + 1].n = s[i + 1].n /\ CallOf(s[i], s[i + 1]) /\ Summed(s[i])
          BY <1>3, <2>8, <5>1
        <5> QED BY <4>2, <5>1, <5>2 DEF CallOf
      <4> QED BY <4>1, <4>2
    <3> QED BY <2>7, <3>1 DEF GoodStack
  <2>10. new[1].n = asked[t] /\ new # <<>>
    <3>1. 1 \in 1..k
      BY <2>1
    <3> QED BY <1>1, <2>7, <2>8, <3>1
  <2>11. stack' = [stack EXCEPT ![t] = new] /\ UNCHANGED answer
    BY <1>5, <1>7, <2>1, <2>4 DEF new
  <2>12. stack' \in [MemoThread -> Seq(Frames)] /\ stack'[t] = new /\ \A u \in MemoThread : u # t => stack'[u] = stack[u]
    BY <1>4, <2>7, <2>11
  <2> QED BY <1>4, <2>9, <2>10, <2>11, <2>12 DEF StacksCompute
<1> QED BY <1>6, <1>7

\* Moved to the end a key is there once more or as often as it was.
LEMMA RecentKeeps ==
  ASSUME memoOrder \in Seq(Nat), NEW k \in Nat
  PROVE  /\ Recent(k) \in Seq(Nat) /\ ToSet(Recent(k)) = ToSet(memoOrder) \cup {k}
         /\ Len(Recent(k)) <= Len(memoOrder) + 1 /\ (k \in ToSet(memoOrder) => Len(Recent(k)) = Len(memoOrder))
<1> DEFINE q == memoOrder
           n == Len(q)
           at == {i \in DOMAIN q : q[i] = k}
<1>1. n \in Nat /\ DOMAIN q = 1..n
  OBVIOUS
<1>2. CASE at = {}
  <2>1. Recent(k) = Append(q, k)
    BY <1>2 DEF Recent
  <2>2. Append(q, k) \in Seq(Nat) /\ Len(Append(q, k)) = n + 1 /\ DOMAIN Append(q, k) = 1..(n + 1)
        /\ Append(q, k)[n + 1] = k /\ \A i \in 1..n : Append(q, k)[i] = q[i]
    OBVIOUS
  <2>3. ToSet(Append(q, k)) = ToSet(q) \cup {k}
    <3>1. \A i \in 1..(n + 1) : i = n + 1 \/ i \in 1..n
      OBVIOUS
    <3>2. n + 1 \in 1..(n + 1) /\ \A i \in 1..n : i \in 1..(n + 1)
      OBVIOUS
    <3> QED BY <1>1, <2>2, <3>1, <3>2 DEF ToSet
  <2>4. k \notin ToSet(q)
    BY <1>2 DEF ToSet
  <2>5. Len(Recent(k)) = n + 1
    BY <2>1, <2>2
  <2>6. Len(Recent(k)) <= n + 1
    BY <1>1, <2>5
  <2> QED BY <2>1, <2>2, <2>3, <2>4, <2>6
<1>3. CASE at # {}
  <2> DEFINE c == CHOOSE i \in at : TRUE
             p == RemoveAt(q, c)
  <2>1. c \in 1..n /\ q[c] = k /\ Recent(k) = Append(p, k)
    BY <1>3 DEF Recent
  <2> HIDE DEF c
  <2>2. /\ p \in Seq(Nat) /\ Len(p) = n - 1
        /\ \A i \in 1..(n - 1) : p[i] = IF i < c THEN q[i] ELSE q[i + 1]
    <3>1. \A k1 \in 1..Len(q) :
            /\ RemoveAt(q, k1) \in Seq(Nat) /\ Len(RemoveAt(q, k1)) = Len(q) - 1
            /\ \A i \in 1..(Len(q) - 1) : RemoveAt(q, k1)[i] = IF i < k1 THEN q[i] ELSE q[i + 1]
      BY RemovedAt
    <3> QED BY <2>1, <3>1
  <2> HIDE DEF p
  <2>3. Append(p, k) \in Seq(Nat) /\ Len(Append(p, k)) = n /\ DOMAIN Append(p, k) = 1..n
        /\ Append(p, k)[n] = k /\ \A i \in 1..(n - 1) : Append(p, k)[i] = p[i]
    BY <2>1, <2>2
  <2>4. ToSet(Append(p, k)) = ToSet(q) \cup {k}
    <3> DEFINE e == Append(p, k)
    <3> HIDE DEF e
    <3>1. ASSUME NEW i \in 1..n PROVE e[i] \in ToSet(q) \cup {k}
      <4>1. CASE i = n
        BY <2>3, <4>1 DEF e
      <4>2. CASE i # n
        <5>1. i \in 1..(n - 1) /\ i + 1 \in 1..n
          BY <4>2
        <5>2. e[i] = q[i] \/ e[i] = q[i + 1]
          BY <2>2, <2>3, <5>1 DEF e
        <5> QED BY <1>1, <5>1, <5>2 DEF ToSet
      <4> QED BY <4>1, <4>2
    <3>2. ASSUME NEW i \in 1..n PROVE q[i] \in ToSet(e)
      <4>1. CASE i = c
        <5>1. n \in 1..n
          BY <2>1
        <5> QED BY <2>1, <2>3, <4>1, <5>1 DEF ToSet, e
      <4>2. CASE i < c
        <5>1. i \in 1..(n - 1)
          BY <2>1, <4>2
        <5>2. e[i] = q[i]
          BY <2>2, <2>3, <4>2, <5>1 DEF e
        <5> QED BY <2>3, <5>2 DEF ToSet, e
      <4>3. CASE i > c
        <5>1. i - 1 \in 1..(n - 1) /\ ~(i - 1 < c) /\ (i - 1) + 1 = i /\ i - 1 \in 1..n
          BY <2>1, <4>3
        <5>2. e[i - 1] = q[i]
          BY <2>2, <2>3, <5>1 DEF e
        <5> QED BY <2>3, <5>1, <5>2 DEF ToSet, e
      <4> QED BY <2>1, <4>1, <4>2, <4>3
    <3>3. k \in ToSet(e)
      <4>1. n \in 1..n
        BY <2>1
      <4> QED BY <2>3, <4>1 DEF ToSet, e
    <3>4. \A y \in ToSet(e) : y \in ToSet(q) \cup {k}
      BY <2>3, <3>1 DEF ToSet, e
    <3>5. \A y \in ToSet(q) : y \in ToSet(e)
      BY <1>1, <3>2 DEF ToSet
    <3> QED BY <3>3, <3>4, <3>5 DEF e
  <2> QED BY <2>1, <2>3, <2>4
<1> QED BY <1>2, <1>3

LEMMA TailIsIn ==
  ASSUME NEW q \in Seq(Nat), q # <<>>
  PROVE  Tail(q) \in Seq(Nat) /\ Len(Tail(q)) = Len(q) - 1 /\ ToSet(Tail(q)) \subseteq ToSet(q)
<1>1. Tail(q) \in Seq(Nat) /\ Len(Tail(q)) = Len(q) - 1 /\ Len(q) \in Nat /\ \A i \in 1..(Len(q) - 1) : Tail(q)[i] = q[i + 1]
  OBVIOUS
<1>2. DOMAIN q = 1..Len(q) /\ DOMAIN Tail(q) = 1..(Len(q) - 1)
  BY <1>1
<1>3. ASSUME NEW i \in 1..(Len(q) - 1) PROVE Tail(q)[i] \in ToSet(q)
  <2>1. i + 1 \in 1..Len(q) /\ Tail(q)[i] = q[i + 1]
    BY <1>1
  <2> QED BY <1>2, <2>1 DEF ToSet
<1> QED BY <1>1, <1>2, <1>3 DEF ToSet

LEMMA MemoInitially == MemoInit => MemoInv
<1> SUFFICES ASSUME MemoInit PROVE MemoInv
  OBVIOUS
<1>1. MemoHolds
  <2>1. memo = <<>> /\ memoOrder = <<>>
    BY DEF MemoInit
  <2>2. memoOrder \in Seq(Nat) /\ Len(memoOrder) = 0 /\ DOMAIN memo = {} /\ ToSet(memoOrder) = {}
    BY <2>1 DEF ToSet
  <2> QED BY <2>2, MemoAssumption DEF MemoHolds
<1>2. StacksCompute
  <2>1. asked \in [MemoThread -> FibArgs] /\ stack = [t \in MemoThread |-> <<Frame(asked[t])>>]
        /\ answer = [t \in MemoThread |-> -1]
    BY DEF MemoInit, NoAnswer
  <2>2. ASSUME NEW n \in FibArgs
        PROVE  <<Frame(n)>> \in Seq(Frames) /\ GoodStack(<<Frame(n)>>) /\ <<Frame(n)>> # <<>> /\ <<Frame(n)>>[1].n = n
    <3>1. Frame(n) \in Frames /\ Summed(Frame(n)) /\ GoesOn(Frame(n)) /\ Frame(n).n = n
      BY MemoAssumption DEF Frame, Frames, Summed, GoesOn
    <3>2. <<Frame(n)>> \in Seq(Frames) /\ Len(<<Frame(n)>>) = 1 /\ <<Frame(n)>>[1] = Frame(n)
      BY <3>1
    <3> QED BY <3>1, <3>2 DEF GoodStack
  <2>3. \A t \in MemoThread : asked[t] \in FibArgs /\ stack[t] = <<Frame(asked[t])>>
    BY <2>1
  <2>4. stack \in [MemoThread -> Seq(Frames)] /\ answer \in [MemoThread -> Int]
    <3>1. \A t \in MemoThread : stack[t] \in Seq(Frames)
      BY <2>2, <2>3
    <3>2. DOMAIN stack = MemoThread /\ stack = [t \in MemoThread |-> stack[t]] /\ answer \in [MemoThread -> Int]
      BY <2>1
    <3> QED BY <3>1, <3>2
  <2> QED BY <2>1, <2>2, <2>3, <2>4 DEF StacksCompute
<1> QED BY <1>1, <1>2 DEF MemoInv

\* A step of one thread that leaves it a good stack for its argument.
LEMMA StackChanges ==
  ASSUME StacksCompute, NEW t \in MemoThread, NEW s, GoodStack(s), s # <<>>, s[1].n = asked[t],
         stack' = [stack EXCEPT ![t] = s], UNCHANGED <<asked, answer>>
  PROVE  StacksCompute'
<1>1. s \in Seq(Frames)
  BY DEF GoodStack
<1>2. stack' \in [MemoThread -> Seq(Frames)] /\ stack'[t] = s /\ \A u \in MemoThread : u # t => stack'[u] = stack[u]
  BY <1>1 DEF StacksCompute
<1> QED BY <1>2 DEF StacksCompute

LEMMA TopFrame ==
  ASSUME StacksCompute, NEW t \in MemoThread, stack[t] # <<>>
  PROVE  /\ GoodStack(stack[t]) /\ Len(stack[t]) \in Nat \ {0} /\ Top(t) = stack[t][Len(stack[t])]
         /\ stack[t][1].n = asked[t] /\ Top(t) \in Frames /\ Summed(Top(t)) /\ GoesOn(Top(t))
         /\ Top(t).n \in Nat /\ Top(t).sum \in Nat
<1>1. GoodStack(stack[t]) /\ stack[t] \in Seq(Frames) /\ stack[t][1].n = asked[t]
  BY DEF StacksCompute
<1>2. Top(t) = stack[t][Len(stack[t])] /\ Len(stack[t]) \in Nat \ {0} /\ Top(t) \in Frames
  BY <1>1 DEF Top, Last
<1>3. Summed(Top(t)) /\ GoesOn(Top(t))
  BY <1>1, <1>2 DEF GoodStack
<1>4. Top(t).n \in Nat /\ Top(t).sum \in Nat
  BY <1>2 DEF Frames
<1> QED BY <1>1, <1>2, <1>3, <1>4

LEMMA LookupKeeps == ASSUME MemoInv, NEW t \in MemoThread, Lookup(t) PROVE MemoInv'
<1> DEFINE f == Top(t)
           l == Len(stack[t])
<1>1. StacksCompute /\ MemoHolds /\ stack[t] # <<>> /\ f.at = "lookup" /\ UNCHANGED <<memo, asked>>
  BY DEF MemoInv, Lookup
<1>2. /\ GoodStack(stack[t]) /\ l \in Nat \ {0} /\ f = stack[t][l]
      /\ stack[t][1].n = asked[t] /\ f \in Frames /\ Summed(f) /\ f.n \in Nat /\ f.sum \in Nat
  BY <1>1, TopFrame
<1>3. CASE f.n \in DOMAIN memo
  <2>1. Return(t, memo[f.n]) /\ memoOrder' = Recent(f.n)
    BY <1>3 DEF Lookup
  <2>2. memo[f.n] = Fib[f.n] /\ memo[f.n] \in Nat
    BY <1>1, <1>2, <1>3, FibIs DEF MemoHolds
  <2>3. StacksCompute'
    BY <1>1, <2>1, <2>2, ResultReturns
  <2>4. MemoHolds'
    <3>1. /\ Recent(f.n) \in Seq(Nat) /\ ToSet(Recent(f.n)) = ToSet(memoOrder) \cup {f.n}
          /\ (f.n \in ToSet(memoOrder) => Len(Recent(f.n)) = Len(memoOrder))
      BY <1>1, <1>2, RecentKeeps DEF MemoHolds
    <3>2. f.n \in ToSet(memoOrder)
      BY <1>1, <1>3 DEF MemoHolds
    <3>3. ToSet(memoOrder') = ToSet(memoOrder) /\ Len(memoOrder') = Len(memoOrder) /\ memoOrder' \in Seq(Nat)
      BY <2>1, <3>1, <3>2
    <3> QED BY <1>1, <3>3 DEF MemoHolds
  <2> QED BY <2>3, <2>4 DEF MemoInv
<1>4. CASE f.n \notin DOMAIN memo
  <2> DEFINE g == [n |-> f.n, at |-> "compute", sum |-> f.sum]
  <2>1. stack' = [stack EXCEPT ![t][l].at = "compute"] /\ UNCHANGED <<memoOrder, answer>>
    BY <1>4 DEF Lookup
  <2>2. g \in Frames /\ g.n = f.n /\ Summed(g) /\ GoesOn(g)
    BY <1>1, <1>2 DEF Frames, Summed, GoesOn
  <2>3. [stack[t] EXCEPT ![l].at = "compute"] = [stack[t] EXCEPT ![l] = g]
    BY <1>2 DEF Frames
  <2>4. stack' = [stack EXCEPT ![t] = [stack[t] EXCEPT ![l] = g]]
    BY <2>1, <2>3
  <2> HIDE DEF g
  <2>5. StacksCompute'
    <3>1. GoodStack([stack[t] EXCEPT ![l] = g]) /\ [stack[t] EXCEPT ![l] = g] # <<>> /\ [stack[t] EXCEPT ![l] = g][1].n = asked[t]
      BY <1>1, <1>2, <2>2, TopChanges
    <3> QED BY <1>1, <2>1, <2>4, <3>1, StackChanges
  <2> QED BY <1>1, <2>1, <2>5 DEF MemoInv, MemoHolds
<1> QED BY <1>3, <1>4

LEMMA ComputeKeeps == ASSUME MemoInv, NEW t \in MemoThread, Compute(t) PROVE MemoInv'
<1> DEFINE f == Top(t)
           l == Len(stack[t])
<1>1. StacksCompute /\ MemoHolds /\ stack[t] # <<>> /\ UNCHANGED <<memo, memoOrder, asked, answer>>
  BY DEF MemoInv, Compute
<1>2. /\ GoodStack(stack[t]) /\ l \in Nat \ {0} /\ f = stack[t][l]
      /\ stack[t][1].n = asked[t] /\ f \in Frames /\ Summed(f) /\ f.n \in Nat /\ f.sum \in Nat
  BY <1>1, TopFrame
<1>3. SUFFICES StacksCompute'
  BY <1>1 DEF MemoInv, MemoHolds
<1>4. CASE f.at = "compute" /\ f.n < 2 /\ stack' = [stack EXCEPT ![t][l] = [f EXCEPT !.sum = f.n, !.at = "store"]]
  <2> DEFINE g == [n |-> f.n, at |-> "store", sum |-> f.n]
  <2>1. g \in Frames /\ g.n = f.n /\ GoesOn(g)
    BY <1>2 DEF Frames, GoesOn
  <2>2. Summed(g)
    <3>1. f.n = 0 \/ f.n = 1
      BY <1>2, <1>4
    <3>2. Fib[f.n] = f.n
      BY <3>1, FibIs
    <3> QED BY <3>2 DEF Summed
  <2>3. stack' = [stack EXCEPT ![t] = [stack[t] EXCEPT ![l] = g]]
    <3>1. [f EXCEPT !.sum = f.n, !.at = "store"] = g
      BY <1>2, FrameWith
    <3> QED BY <1>4, <3>1
  <2> HIDE DEF g
  <2>4. GoodStack([stack[t] EXCEPT ![l] = g]) /\ [stack[t] EXCEPT ![l] = g] # <<>> /\ [stack[t] EXCEPT ![l] = g][1].n = asked[t]
    BY <1>1, <1>2, <2>1, <2>2, TopChanges
  <2> QED BY <1>1, <2>3, <2>4, StackChanges
<1>5. ASSUME NEW a \in {"first", "third"}, NEW m \in Nat,
             stack' = [stack EXCEPT ![t] = Append([stack[t] EXCEPT ![l].at = a], Frame(m))],
             f.at = IF a = "first" THEN "compute" ELSE "second", f.n >= 2,
             m = IF a = "first" THEN f.n - 1 ELSE f.n - 2
      PROVE  StacksCompute'
  <2> DEFINE g == [n |-> f.n, at |-> a, sum |-> f.sum]
  <2>1. g \in Frames /\ g.n = f.n /\ Summed(g) /\ CallOf(g, Frame(m))
    BY <1>2, <1>5 DEF Frames, Summed, CallOf, Frame
  <2>2. [stack[t] EXCEPT ![l].at = a] = [stack[t] EXCEPT ![l] = g]
    BY <1>2 DEF Frames
  <2> HIDE DEF g
  <2> DEFINE s == Append([stack[t] EXCEPT ![l] = g], Frame(m))
  <2>3. GoodStack(s) /\ s # <<>> /\ s[1].n = asked[t]
    BY <1>1, <1>2, <2>1, FrameCalls
  <2>4. stack' = [stack EXCEPT ![t] = s]
    BY <1>5, <2>2
  <2> HIDE DEF s
  <2> QED BY <1>1, <2>3, <2>4, StackChanges
<1>6. CASE f.at = "compute" /\ f.n >= 2 /\ stack' = [stack EXCEPT ![t] = Append([@ EXCEPT ![l].at = "first"], Frame(f.n - 1))]
  <2>1. f.n - 1 \in Nat /\ stack' = [stack EXCEPT ![t] = Append([stack[t] EXCEPT ![l].at = "first"], Frame(f.n - 1))]
    BY <1>2, <1>6
  <2> QED BY <1>5, <1>6, <2>1
<1>7. CASE f.at = "second" /\ stack' = [stack EXCEPT ![t] = Append([@ EXCEPT ![l].at = "third"], Frame(f.n - 2))]
  <2>1. f.n >= 2
    BY <1>2, <1>7 DEF Summed
  <2>2. f.n - 2 \in Nat /\ stack' = [stack EXCEPT ![t] = Append([stack[t] EXCEPT ![l].at = "third"], Frame(f.n - 2))]
    BY <1>2, <1>7, <2>1
  <2> QED BY <1>5, <1>7, <2>1, <2>2
<1> QED BY <1>4, <1>6, <1>7 DEF Compute

LEMMA StoreResultKeeps == ASSUME MemoInv, NEW t \in MemoThread, StoreResult(t) PROVE MemoInv'
<1> DEFINE f == Top(t)
           k == f.n
           kept == Trimmed(Recent(k))
<1>1. /\ StacksCompute /\ MemoHolds /\ stack[t] # <<>> /\ f.at = "store" /\ Return(t, f.sum) /\ UNCHANGED asked
      /\ memoOrder' = kept /\ memo' = [x \in ToSet(kept) |-> IF x = k THEN f.sum ELSE memo[x]]
  BY DEF MemoInv, StoreResult
<1>2. Summed(f) /\ k \in Nat /\ f.sum \in Nat
  BY <1>1, TopFrame
<1>3. f.sum = Fib[k]
  BY <1>1, <1>2 DEF Summed
<1>4. StacksCompute'
  BY <1>1, <1>2, <1>3, ResultReturns
<1>5. memoOrder \in Seq(Nat) /\ Len(memoOrder) <= MemoSize /\ DOMAIN memo = ToSet(memoOrder) /\ \A x \in DOMAIN memo : memo[x] = Fib[x]
  BY <1>1 DEF MemoHolds
<1>6. /\ Recent(k) \in Seq(Nat) /\ ToSet(Recent(k)) = ToSet(memoOrder) \cup {k}
      /\ Len(Recent(k)) <= Len(memoOrder) + 1
  BY <1>2, <1>5, RecentKeeps
<1>7. kept \in Seq(Nat) /\ Len(kept) <= MemoSize /\ ToSet(kept) \subseteq ToSet(memoOrder) \cup {k}
  <2> DEFINE q == Recent(k)
  <2>1. Len(q) \in Nat /\ Len(memoOrder) \in Nat
    BY <1>5, <1>6
  <2> HIDE DEF q, k
  <2>2. CASE Len(q) > MemoSize
    <3>1. q # <<>> /\ Trimmed(q) = Tail(q)
      BY <2>1, <2>2, MemoAssumption DEF Trimmed
    <3>2. Tail(q) \in Seq(Nat) /\ Len(Tail(q)) = Len(q) - 1 /\ ToSet(Tail(q)) \subseteq ToSet(q)
      BY <1>6, <3>1, TailIsIn DEF q
    <3> QED BY <1>5, <1>6, <2>1, <3>1, <3>2, MemoAssumption DEF q
  <2>3. CASE ~(Len(q) > MemoSize)
    <3>1. Trimmed(q) = q
      BY <2>3 DEF Trimmed
    <3> QED BY <1>6, <2>1, <2>3, <3>1, MemoAssumption DEF q
  <2> QED BY <2>2, <2>3
<1> HIDE DEF kept, k, f
<1>8. MemoHolds'
  <2>1. DOMAIN memo' = ToSet(kept) /\ \A x \in ToSet(kept) : memo'[x] = IF x = k THEN f.sum ELSE memo[x]
    BY <1>1
  <2>2. \A x \in ToSet(kept) : memo'[x] = Fib[x]
    BY <1>3, <1>5, <1>7, <2>1
  <2> QED BY <1>1, <1>7, <2>1, <2>2 DEF MemoHolds
<1> QED BY <1>4, <1>8 DEF MemoInv

\* Every result in the cache and every thread's answer is the function's, whatever the other
\* threads store and evict while one computes: a frame has summed what its place in the body
\* says, and waits for the frame above it.
THEOREM MemoIsTheFunction == MemoSpec => []MemoIsTransparent
<1>1. MemoInv /\ [MemoNext]_memoVars => MemoInv'
  <2>1. MemoInv /\ UNCHANGED memoVars => MemoInv'
    BY DEF memoVars, MemoInv, MemoHolds, StacksCompute
  <2> QED BY <2>1, LookupKeeps, ComputeKeeps, StoreResultKeeps DEF MemoNext, CallStep
<1>2. MemoInv => MemoIsTransparent
  BY DEF MemoInv, MemoHolds, StacksCompute, MemoIsTransparent
<1> QED BY MemoInitially, <1>1, <1>2, PTL DEF MemoSpec
----------------------------------------------------------------------------
(* The scheduler of Python *)

ScheduleTypes ==
  /\ schedNow \in Nat \ {0} /\ turnNow \in Nat
  /\ tasks \in Seq(Scheduled) /\ nextRun \in [Scheduled -> Nat] /\ runs \in [Scheduled -> Nat]
  /\ loopAt = "coro" => current \in Scheduled /\ turnNow > 0 /\ Known(current)

\* The list is sorted by the times of its tasks, none is in it twice, and the one whose
\* coroutine runs is not in it.
Sorted(list, at) == \A i, k \in 1..Len(list) : i < k => at[list[i]] <= at[list[k]]
EachOnce(list) == \A i, k \in 1..Len(list) : list[i] = list[k] => i = k
ListOfKnown ==
  \A i \in 1..Len(tasks) : Known(tasks[i]) /\ (loopAt = "coro" => tasks[i] # current)
ScheduleInv == ScheduleTypes /\ Sorted(tasks, nextRun) /\ EachOnce(tasks) /\ ListOfKnown

\* A task that enters the list comes behind those that are due when it is and before the others.
LEMMA EnterKeeps ==
  ASSUME tasks \in Seq(Scheduled), nextRun \in [Scheduled -> Nat], Sorted(tasks, nextRun), EachOnce(tasks),
         NEW t \in Scheduled, \A i \in 1..Len(tasks) : tasks[i] # t, NEW time \in Nat, Enter(t, time)
  PROVE  /\ tasks' \in Seq(Scheduled) /\ nextRun' \in [Scheduled -> Nat]
         /\ nextRun'[t] = time /\ \A u \in Scheduled : u # t => nextRun'[u] = nextRun[u]
         /\ Sorted(tasks', nextRun') /\ EachOnce(tasks')
         /\ \A i \in 1..Len(tasks') : tasks'[i] = t \/ \E k \in 1..Len(tasks) : tasks'[i] = tasks[k]
<1> DEFINE n == Len(tasks)
           I == {i \in 1..Len(tasks) : nextRun[tasks[i]] > time}
           c == IF I = {} THEN n + 1 ELSE Min(I)
<1>1. n \in Nat /\ \A i \in 1..n : tasks[i] \in Scheduled /\ nextRun[tasks[i]] \in Nat
  OBVIOUS
<1>2. nextRun' = [nextRun EXCEPT ![t] = time] /\ tasks' = IF I = {} THEN Append(tasks, t) ELSE InsertAt(tasks, Min(I), t)
  <2>1. \A i \in I : i # 0
    BY <1>1
  <2>2. I # {} => Min(I) \in I
    <3>1. I \subseteq Nat
      BY <1>1
    <3> HIDE DEF I
    <3> QED BY <3>1, LeastIs
  <2>3. SelectInSeq(tasks, LAMBDA x : nextRun[x] > time) = IF I # {} THEN Min(I) ELSE 0
    BY DEF SelectInSeq
  <2>4. nextRun' = [nextRun EXCEPT ![t] = time] /\ tasks' = SortedIn(t, time)
    BY DEF Enter
  <2> HIDE DEF I
  <2> QED BY <2>1, <2>2, <2>3, <2>4 DEF SortedIn
<1>3. /\ c \in 1..(n + 1)
      /\ \A i \in 1..n : i < c => nextRun[tasks[i]] <= time
      /\ \A i \in 1..n : i >= c => nextRun[tasks[i]] > time
  <2>1. CASE I = {}
    <3>1. c = n + 1 /\ \A i \in 1..n : ~(nextRun[tasks[i]] > time)
      BY <2>1
    <3>2. \A i \in 1..n : i < n + 1 /\ nextRun[tasks[i]] <= time
      BY <1>1, <3>1
    <3> HIDE DEF c, I
    <3> QED BY <1>1, <3>1, <3>2
  <2>2. CASE I # {}
    <3>1. I \subseteq Nat
      BY <1>1
    <3>2. Min(I) \in I /\ \A i \in I : Min(I) <= i
      <4> HIDE DEF I
      <4> QED BY <2>2, <3>1, LeastIs
    <3>3. c = Min(I) /\ c \in 1..n /\ nextRun[tasks[c]] > time
      BY <2>2, <3>2
    <3>4. ASSUME NEW i \in 1..n, i < c PROVE ~(nextRun[tasks[i]] > time)
      <4>1. i \in I => c <= i
        BY <3>2, <3>3
      <4>2. i \notin I
        <5> HIDE DEF I, c
        <5> QED BY <1>1, <3>3, <3>4, <4>1
      <4> QED BY <4>2
    <3>5. ASSUME NEW i \in 1..n, i >= c PROVE nextRun[tasks[c]] <= nextRun[tasks[i]]
      <4> HIDE DEF c, I
      <4>1. CASE i = c
        BY <1>1, <4>1
      <4>2. CASE i # c
        <5>1. c < i /\ c \in 1..n
          BY <1>1, <3>3, <3>5, <4>2
        <5> QED BY <5>1 DEF Sorted
      <4> QED BY <4>1, <4>2
    <3> HIDE DEF c, I
    <3> QED BY <1>1, <3>3, <3>4, <3>5
  <2> QED BY <2>1, <2>2
<1>4. /\ tasks' \in Seq(Scheduled) /\ Len(tasks') = n + 1
      /\ \A i \in 1..(n + 1) : tasks'[i] = IF i < c THEN tasks[i] ELSE IF i = c THEN t ELSE tasks[i - 1]
  <2>1. CASE I = {}
    BY <1>1, <1>2, <2>1
  <2>2. CASE I # {}
    <3>1. Min(I) \in 1..n
      <4>1. I \subseteq Nat /\ I \subseteq 1..n
        BY <1>1
      <4> HIDE DEF I
      <4> QED BY <2>2, <4>1, LeastIs
    <3>2. c \in 1..Len(tasks) /\ tasks' = InsertAt(tasks, c, t)
      BY <1>2, <2>2, <3>1
    <3> HIDE DEF I, c, n, Sorted, EachOnce
    <3>3. /\ tasks' \in Seq(Scheduled) /\ Len(tasks') = Len(tasks) + 1
          /\ \A i \in 1..(Len(tasks) + 1) : tasks'[i] = IF i < c THEN tasks[i] ELSE IF i = c THEN t ELSE tasks[i - 1]
      <4>1. tasks \in Seq(Scheduled)
        OBVIOUS
      <4> DEFINE q == tasks
      <4>2. q \in Seq(Scheduled) /\ c \in 1..Len(q)
        BY <3>2, <4>1
      <4> HIDE DEF q
      <4>3. /\ InsertAt(q, c, t) \in Seq(Scheduled) /\ Len(InsertAt(q, c, t)) = Len(q) + 1
            /\ \A i \in 1..(Len(q) + 1) :
                 InsertAt(q, c, t)[i] = IF i < c THEN q[i] ELSE IF i = c THEN t ELSE q[i - 1]
        BY <4>2, InsertedAt
      <4> QED BY <3>2, <4>3 DEF q
    <3>4. Len(tasks) = n
      BY DEF n
    <3> QED BY <3>3, <3>4
  <2> QED BY <2>1, <2>2
<1> HIDE DEF c, n, I
<1>5. /\ nextRun' \in [Scheduled -> Nat] /\ nextRun'[t] = time
      /\ \A u \in Scheduled : u # t => nextRun'[u] = nextRun[u]
  BY <1>2
\* Where each element comes from.
<1>6. ASSUME NEW i \in 1..(n + 1)
      PROVE  \/ i < c /\ i \in 1..n /\ tasks'[i] = tasks[i] /\ nextRun'[tasks'[i]] = nextRun[tasks[i]]
             \/ i = c /\ tasks'[i] = t /\ nextRun'[tasks'[i]] = time
             \/ i > c /\ i - 1 \in 1..n /\ i - 1 >= c /\ tasks'[i] = tasks[i - 1]
                /\ nextRun'[tasks'[i]] = nextRun[tasks[i - 1]]
  <2>1. CASE i < c
    <3>1. i \in 1..n /\ tasks'[i] = tasks[i]
      BY <1>1, <1>3, <1>4, <2>1
    <3>2. tasks[i] # t /\ tasks[i] \in Scheduled
      BY <1>1, <3>1 DEF n
    <3> QED BY <1>5, <2>1, <3>1, <3>2
  <2>2. CASE i = c
    BY <1>3, <1>4, <1>5, <2>2
  <2>3. CASE i > c
    <3>1. i - 1 \in 1..n /\ i - 1 >= c /\ tasks'[i] = tasks[i - 1]
      BY <1>1, <1>3, <1>4, <2>3
    <3>2. tasks[i - 1] # t /\ tasks[i - 1] \in Scheduled
      BY <1>1, <3>1 DEF n
    <3> QED BY <1>5, <2>3, <3>1, <3>2
  <2> QED BY <1>3, <2>1, <2>2, <2>3
<1>7. \A i, k \in 1..n : i < k => nextRun[tasks[i]] <= nextRun[tasks[k]]
  BY DEF Sorted, n
<1>8. Sorted(tasks', nextRun')
  <2>1. ASSUME NEW i \in 1..(n + 1), NEW k \in 1..(n + 1), i < k
        PROVE  nextRun'[tasks'[i]] <= nextRun'[tasks'[k]]
    <3>1. CASE i < c /\ k < c
      BY <1>1, <1>3, <1>6, <1>7, <2>1, <3>1
    <3>2. CASE i < c /\ k = c
      BY <1>1, <1>3, <1>6, <2>1, <3>2
    <3>3. CASE i < c /\ k > c
      <4>1. nextRun'[tasks'[i]] = nextRun[tasks[i]] /\ nextRun'[tasks'[k]] = nextRun[tasks[k - 1]]
            /\ i \in 1..n /\ k - 1 \in 1..n /\ k - 1 >= c
        BY <1>3, <1>6, <3>3
      <4>2. nextRun[tasks[i]] <= time /\ time < nextRun[tasks[k - 1]]
        BY <1>3, <3>3, <4>1
      <4> QED BY <1>1, <4>1, <4>2
    <3>4. CASE i = c /\ k > c
      BY <1>1, <1>3, <1>6, <2>1, <3>4
    <3>5. CASE i > c /\ k > c
      <4>1. nextRun'[tasks'[i]] = nextRun[tasks[i - 1]] /\ nextRun'[tasks'[k]] = nextRun[tasks[k - 1]]
            /\ i - 1 \in 1..n /\ k - 1 \in 1..n /\ i - 1 < k - 1
        BY <1>3, <1>6, <2>1, <3>5
      <4> QED BY <1>1, <1>7, <4>1
    <3> QED BY <1>3, <2>1, <3>1, <3>2, <3>3, <3>4, <3>5
  <2> QED BY <1>4, <2>1 DEF Sorted
<1>9. EachOnce(tasks')
  <2>1. ASSUME NEW i \in 1..(n + 1), NEW k \in 1..(n + 1), tasks'[i] = tasks'[k] PROVE i = k
    <3>1. \A x, y \in 1..n : tasks[x] = tasks[y] => x = y
      BY DEF EachOnce, n
    <3>2. \A x \in 1..n : tasks[x] # t
      BY DEF n
    <3> QED BY <1>3, <1>6, <2>1, <3>1, <3>2
  <2> QED BY <1>4, <2>1 DEF EachOnce
<1>10. \A i \in 1..Len(tasks') : tasks'[i] = t \/ \E k \in 1..Len(tasks) : tasks'[i] = tasks[k]
  BY <1>4, <1>6 DEF n
<1> QED BY <1>4, <1>5, <1>8, <1>9, <1>10

LEMMA ScheduleInitially == SchedulerInit => ScheduleInv
BY DEF SchedulerInit, ScheduleInv, ScheduleTypes, Sorted, EachOnce, ListOfKnown

LEMMA ScheduleKeeps == ASSUME ScheduleInv, NEW t \in Scheduled, Schedule(t) PROVE ScheduleInv'
<1> USE DEF ScheduleInv, ScheduleTypes, Known
<1>1. PICK d \in RunDelays : Enter(t, schedNow + IF IntervalOf[t] = 0 THEN d ELSE IntervalOf[t])
  BY DEF Schedule
<1> DEFINE time == schedNow + IF IntervalOf[t] = 0 THEN d ELSE IntervalOf[t]
<1>2. time \in Nat \ {0}
  BY PySchedulerAssumption
<1>3. Enter(t, time)
  BY <1>1
<1> HIDE DEF time
<1>4. ~Known(t) /\ UNCHANGED <<schedNow, loopAt, turnNow, current, runs>>
  BY DEF Schedule
<1>5. \A i \in 1..Len(tasks) : tasks[i] # t
  BY <1>4 DEF ListOfKnown
<1>6. /\ tasks' \in Seq(Scheduled) /\ nextRun' \in [Scheduled -> Nat]
      /\ nextRun'[t] = time /\ \A u \in Scheduled : u # t => nextRun'[u] = nextRun[u]
      /\ Sorted(tasks', nextRun') /\ EachOnce(tasks')
      /\ \A i \in 1..Len(tasks') : tasks'[i] = t \/ \E k \in 1..Len(tasks) : tasks'[i] = tasks[k]
  BY <1>2, <1>3, <1>5, EnterKeeps
<1>7. ScheduleTypes'
  BY <1>4, <1>6
<1>8. ListOfKnown'
  <2>1. \A k \in 1..Len(tasks) : tasks[k] \in Scheduled /\ Known(tasks[k]) /\ (loopAt = "coro" => tasks[k] # current)
    BY DEF ListOfKnown
  <2>2. loopAt = "coro" => current # t
    BY <1>4
  <2>3. ASSUME NEW i \in 1..Len(tasks') PROVE nextRun'[tasks'[i]] > 0 /\ (loopAt' = "coro" => tasks'[i] # current')
    <3>1. CASE tasks'[i] = t
      <4>1. nextRun'[tasks'[i]] > 0
        BY <1>2, <1>6, <3>1
      <4> QED BY <1>4, <2>2, <3>1, <4>1
    <3>2. CASE \E k \in 1..Len(tasks) : tasks'[i] = tasks[k]
      <4>1. PICK k \in 1..Len(tasks) : tasks'[i] = tasks[k]
        BY <3>2
      <4>2. nextRun'[tasks'[i]] = nextRun[tasks[k]]
        BY <1>5, <1>6, <2>1, <4>1
      <4>3. nextRun'[tasks'[i]] > 0
        BY <2>1, <4>2
      <4>4. loopAt' = "coro" => tasks'[i] # current'
        BY <1>4, <2>1, <4>1
      <4> QED BY <4>3, <4>4
    <3> QED BY <1>6, <3>1, <3>2
  <2> QED BY <2>3 DEF ListOfKnown
<1> QED BY <1>6, <1>7, <1>8

\* The list without its first task.
LEMMA RestOfList ==
  ASSUME ScheduleInv, tasks # <<>>
  PROVE  /\ Tail(tasks) \in Seq(Scheduled) /\ tasks[1] \in Scheduled /\ Known(tasks[1])
         /\ Sorted(Tail(tasks), nextRun) /\ EachOnce(Tail(tasks))
         /\ \A i \in 1..Len(Tail(tasks)) : Known(Tail(tasks)[i]) /\ Tail(tasks)[i] # tasks[1]
<1>1. /\ Tail(tasks) \in Seq(Scheduled) /\ Len(tasks) \in Nat \ {0} /\ Len(Tail(tasks)) = Len(tasks) - 1
      /\ \A i \in 1..(Len(tasks) - 1) : i + 1 \in 1..Len(tasks) /\ Tail(tasks)[i] = tasks[i + 1]
  BY DEF ScheduleInv, ScheduleTypes
<1>2. 1 \in 1..Len(tasks) /\ tasks[1] \in Scheduled
  BY <1>1 DEF ScheduleInv, ScheduleTypes
<1> QED BY <1>1, <1>2 DEF ScheduleInv, Sorted, EachOnce, ListOfKnown

LEMMA LoopTurnKeeps == ASSUME ScheduleInv, LoopTurn PROVE ScheduleInv'
<1>1. loopAt = "turn" /\ UNCHANGED <<schedNow, nextRun>>
  BY DEF LoopTurn
<1>2. CASE UNCHANGED <<tasks, turnNow, current, runs>> /\ loopAt' = "wait"
  BY <1>1, <1>2 DEF ScheduleInv, ScheduleTypes, Sorted, EachOnce, ListOfKnown, Known
<1>3. CASE tasks # <<>> /\ tasks' = Tail(tasks) /\ UNCHANGED <<loopAt, turnNow, current, runs>>
  BY <1>1, <1>3, RestOfList DEF ScheduleInv, ScheduleTypes, ListOfKnown, Known
<1>4. CASE /\ tasks # <<>> /\ tasks' = Tail(tasks) /\ current' = tasks[1] /\ turnNow' = schedNow
           /\ runs' = [runs EXCEPT ![tasks[1]] = @ + 1] /\ loopAt' = "coro"
  BY <1>1, <1>4, RestOfList DEF ScheduleInv, ScheduleTypes, ListOfKnown, Known
<1> QED BY <1>2, <1>3, <1>4 DEF LoopTurn, WaitUntil

LEMMA CoroEndsKeeps == ASSUME ScheduleInv, CoroEnds PROVE ScheduleInv'
<1> USE DEF ScheduleInv, ScheduleTypes, Known
<1>1. /\ loopAt = "coro" /\ loopAt' = "turn" /\ UNCHANGED <<schedNow, turnNow, runs>>
      /\ current \in Scheduled /\ turnNow > 0
  BY DEF CoroEnds
<1>2. CASE UNCHANGED <<tasks, nextRun>>
  BY <1>1, <1>2 DEF Sorted, EachOnce, ListOfKnown
<1>3. CASE Enter(current, turnNow + IntervalOf[current])
  <2> DEFINE time == turnNow + IntervalOf[current]
  <2>1. time \in Nat /\ time > 0
    BY <1>1, PySchedulerAssumption
  <2>2. Enter(current, time)
    BY <1>3
  <2> HIDE DEF time
  <2>3. \A i \in 1..Len(tasks) : tasks[i] # current
    BY <1>1 DEF ListOfKnown
  <2>4. /\ tasks' \in Seq(Scheduled) /\ nextRun' \in [Scheduled -> Nat]
        /\ nextRun'[current] = time /\ \A u \in Scheduled : u # current => nextRun'[u] = nextRun[u]
        /\ Sorted(tasks', nextRun') /\ EachOnce(tasks')
        /\ \A i \in 1..Len(tasks') : tasks'[i] = current \/ \E k \in 1..Len(tasks) : tasks'[i] = tasks[k]
    BY <1>1, <2>1, <2>2, <2>3, EnterKeeps
  <2>5. \A k \in 1..Len(tasks) : tasks[k] \in Scheduled /\ Known(tasks[k])
    BY DEF ListOfKnown
  <2>6. ListOfKnown'
    BY <1>1, <2>1, <2>3, <2>4, <2>5, ZenonT(30) DEF ListOfKnown
  <2> QED BY <1>1, <2>4, <2>6
<1> QED BY <1>2, <1>3 DEF CoroEnds

LEMMA SchedulerNextKeeps == ScheduleInv /\ [SchedulerNext]_schedVars => ScheduleInv'
<1> SUFFICES ASSUME ScheduleInv, [SchedulerNext]_schedVars PROVE ScheduleInv'
  OBVIOUS
<1>1. ASSUME NEW t \in Scheduled, Schedule(t) PROVE ScheduleInv'
  BY <1>1, ScheduleKeeps
<1>2. CASE LoopTurn
  BY <1>2, LoopTurnKeeps
<1>3. CASE CoroEnds
  BY <1>3, CoroEndsKeeps
<1>4. CASE UNCHANGED schedVars \/ (\E t \in Scheduled : CancelTask(t)) \/ WaitIsOver \/ Stop \/ SchedulerTick
  <2>1. /\ UNCHANGED <<tasks, nextRun, turnNow, runs>> /\ schedNow' \in Nat \ {0}
        /\ (loopAt' = "coro" => loopAt = "coro" /\ current' = current)
    BY <1>4 DEF schedVars, CancelTask, WaitIsOver, Stop, SchedulerTick, ScheduleInv, ScheduleTypes
  <2> QED BY <2>1 DEF ScheduleInv, ScheduleTypes, Sorted, EachOnce, ListOfKnown, Known
<1> QED BY <1>1, <1>2, <1>3, <1>4 DEF SchedulerNext

\* Only a turn of the loop starts a coroutine: that of the first task of the list, before which
\* nothing in the list is due.
LEMMA TheEarliestIsStarted ==
  ASSUME ScheduleInv, [SchedulerNext]_schedVars, NEW t \in Scheduled, runs'[t] > runs[t]
  PROVE  /\ nextRun[t] <= schedNow /\ t \notin cancelled /\ ~stopEvent
         /\ \A i \in DOMAIN tasks : nextRun[t] <= nextRun[tasks[i]]
<1>1. runs \in [Scheduled -> Nat] /\ tasks \in Seq(Scheduled) /\ nextRun \in [Scheduled -> Nat]
  BY DEF ScheduleInv, ScheduleTypes
<1>2. runs' # runs
  BY <1>1
<1>3. LoopTurn
  BY <1>2 DEF SchedulerNext, schedVars, Schedule, CancelTask, WaitIsOver, CoroEnds, Stop, SchedulerTick
<1>4. /\ ~stopEvent /\ tasks # <<>> /\ ~IsCancelled(tasks[1]) /\ nextRun[tasks[1]] <= schedNow
      /\ runs' = [runs EXCEPT ![tasks[1]] = @ + 1]
  BY <1>2, <1>3 DEF LoopTurn, WaitUntil
<1>5. t = tasks[1]
  BY <1>1, <1>4
<1>6. DOMAIN tasks = 1..Len(tasks) /\ Len(tasks) \in Nat /\ 1 \in 1..Len(tasks)
  BY <1>1, <1>4
<1>7. ASSUME NEW i \in 1..Len(tasks) PROVE nextRun[tasks[1]] <= nextRun[tasks[i]]
  BY <1>1, <1>6 DEF ScheduleInv, Sorted
<1> QED BY <1>4, <1>5, <1>6, <1>7 DEF IsCancelled

\* EarliestDueRuns for any tasks, intervals, delays and bounds: a task that is started is due,
\* not cancelled and the earliest of the list, whatever was scheduled, cancelled or put back
\* while the coroutines ran.
THEOREM EarliestIsRun == PySchedulerSpec => EarliestDueRuns
<1>1. SchedulerInit => ScheduleInv
  BY ScheduleInitially
<1>2. ScheduleInv /\ [SchedulerNext]_schedVars => ScheduleInv'
  BY SchedulerNextKeeps
<1>3. ScheduleInv /\ [SchedulerNext]_schedVars =>
        [\A t \in Scheduled : runs'[t] > runs[t] =>
           /\ nextRun[t] <= schedNow /\ t \notin cancelled /\ ~stopEvent
           /\ \A i \in DOMAIN tasks : nextRun[t] <= nextRun[tasks[i]]]_schedVars
  BY TheEarliestIsStarted
<1> QED BY <1>1, <1>2, <1>3, PTL DEF PySchedulerSpec, EarliestDueRuns
----------------------------------------------------------------------------
(* The event stream of Python *)

NoneTwice(list) == \A i, k \in 1..Len(list) : list[i] = list[k] => i = k
\* What is left of a list in which some elements were removed.
LeftOf(p, q) ==
  /\ p \in Seq(Client) /\ NoneTwice(p)
  /\ \A i \in 1..Len(p) : \E k \in 1..Len(q) : p[i] = q[k]

LEMMA RemovedIsLeft ==
  ASSUME NEW q \in Seq(Client), NoneTwice(q), NEW c \in Client
  PROVE  LeftOf(Removed(q, c), q)
<1> USE DEF Removed
<1>1. CASE Removed(q, c) = q
  BY <1>1 DEF LeftOf
<1>2. CASE \E k \in 1..Len(q) :
              /\ q[k] = c /\ Removed(q, c) \in Seq(Client) /\ Len(Removed(q, c)) = Len(q) - 1
              /\ \A i \in 1..(Len(q) - 1) : Removed(q, c)[i] = IF i < k THEN q[i] ELSE q[i + 1]
  <2> DEFINE p == Removed(q, c)
             n == Len(q)
  <2>1. PICK k \in 1..n : /\ p \in Seq(Client) /\ Len(p) = n - 1
                          /\ \A i \in 1..(n - 1) : p[i] = IF i < k THEN q[i] ELSE q[i + 1]
    BY <1>2
  <2>2. n \in Nat /\ \A i, j \in 1..n : q[i] = q[j] => i = j
    BY DEF NoneTwice
  <2> HIDE DEF p, n
  <2>3. ASSUME NEW i \in 1..(n - 1)
        PROVE  \E j \in 1..n : p[i] = q[j] /\ IF i < k THEN j = i ELSE j = i + 1
    <3>1. i \in 1..n /\ i + 1 \in 1..n
      BY <2>2
    <3> QED BY <2>1, <3>1
  <2>4. ASSUME NEW i \in 1..(n - 1), NEW j \in 1..(n - 1), p[i] = p[j] PROVE i = j
    BY <2>2, <2>3, <2>4
  <2> QED BY <2>1, <2>3, <2>4 DEF LeftOf, NoneTwice, p, n
<1> QED BY <1>1, <1>2, RemovedIs

\* So does removing one client after the other.
LEMMA RemovedAllIsLeft ==
  ASSUME NEW q \in Seq(Client), NoneTwice(q), NEW gone \in Seq(Client)
  PROVE  LeftOf(FoldLeft(Removed, q, gone), q)
<1> DEFINE n == Len(gone)
           D == DOMAIN gone
           X == {p \in Seq(Client) : LeftOf(p, q)}
           Iter(f) == f = [s \in SUBSET D |-> IF s = {} THEN q ELSE Removed(f[s \ {Max(s)}], gone[Max(s)])]
           iter == CHOOSE f : Iter(f)
<1>1. n \in Nat /\ D = 1..n
  OBVIOUS
<1>2. FoldLeft(Removed, q, gone) = iter[D]
  BY DEF FoldLeft, MapThenFoldSet
<1>3. q \in X
  BY DEF LeftOf
<1>4. ASSUME NEW p \in X, NEW c \in Client PROVE Removed(p, c) \in X
  <2>1. LeftOf(Removed(p, c), p)
    BY RemovedIsLeft DEF LeftOf
  <2> QED BY <2>1 DEF LeftOf
<1> DEFINE step == [i \in 1..n |-> [p \in X |-> Removed(p, gone[i])]]
           choice == [s \in SUBSET (1..n) |-> IF s = {} THEN 0 ELSE Max(s)]
<1>5. step \in [1..n -> [X -> X]]
  <2>1. \A i \in 1..n : gone[i] \in Client
    BY <1>1
  <2> HIDE DEF X
  <2> QED BY <1>4, <2>1
<1>6. ASSUME NEW s \in SUBSET (1..n), s # {} PROVE Max(s) \in s
  BY <1>1, <1>6, GreatestIs
<1>7. choice \in [SUBSET (1..n) -> Nat] /\ \A s \in SUBSET (1..n) : s # {} => choice[s] \in s
  <2>1. ASSUME NEW s \in SUBSET (1..n), s # {} PROVE Max(s) \in Nat
    <3> HIDE DEF n, choice, step, X
    <3>1. Max(s) \in 1..n
      BY <1>6, <2>1
    <3> QED BY <1>1, <3>1
  <2>2. \A s \in SUBSET (1..n) : (IF s = {} THEN 0 ELSE Max(s)) \in Nat
    BY <2>1
  <2>3. \A s \in SUBSET (1..n) : s # {} => choice[s] = Max(s)
    OBVIOUS
  <2> HIDE DEF n
  <2> QED BY <1>6, <2>2, <2>3
<1>8. PICK f : IsFold(f, X, n, q, step, choice)
  <2> HIDE DEF X, step, choice, n
  <2>1. n \in Nat /\ q \in X /\ step \in [1..n -> [X -> X]]
    BY <1>1, <1>3, <1>5
  <2>2. Chooses(choice, n)
    BY <1>7 DEF Chooses
  <2> QED BY <2>1, <2>2, FoldExists
<1>9. Iter(f)
  <2> USE DEF IsFold
  <2>1. ASSUME NEW s \in SUBSET (1..n), s # {} PROVE f[s] = Removed(f[s \ {Max(s)}], gone[Max(s)])
    <3>1. choice[s] = Max(s) /\ Max(s) \in 1..n /\ s \ {Max(s)} \in SUBSET (1..n)
      BY <1>6, <2>1
    <3>2. f[s \ {Max(s)}] \in X
      BY <1>8, <3>1
    <3> HIDE DEF X, choice
    <3>3. step[Max(s)][f[s \ {Max(s)}]] = Removed(f[s \ {Max(s)}], gone[Max(s)])
      BY <3>1, <3>2
    <3>4. f[s] = step[choice[s]][f[s \ {choice[s]}]]
      BY <1>8, <2>1
    <3> QED BY <3>1, <3>3, <3>4
  <2> HIDE DEF n, X, step, choice
  <2>2. f = [s \in SUBSET (1..n) |-> f[s]] /\ \A s \in SUBSET (1..n) : f[s] = IF s = {} THEN q ELSE Removed(f[s \ {Max(s)}], gone[Max(s)])
    BY <1>8, <2>1
  <2> HIDE DEF D
  <2> QED BY <1>1, <2>2
<1>10. Iter(iter)
  <2> HIDE DEF Iter
  <2> QED BY <1>9
\* The list after the first k of them.
<1> DEFINE S == {k \in Nat : k <= n => iter[1..k] \in X}
<1>11. S = Nat
  <2> HIDE DEF X, iter
  <2>1. 0 \in S
    <3>1. 1..0 = {} /\ {} \in SUBSET D
      OBVIOUS
    <3>2. iter[{}] = q
      BY <1>10, <3>1
    <3> QED BY <1>3, <3>1, <3>2
  <2>2. ASSUME NEW k \in S, k + 1 <= n PROVE iter[1..(k + 1)] \in X
    <3> DEFINE s == 1..(k + 1)
    <3>1. s \in SUBSET (1..n) /\ s # {} /\ k + 1 \in s /\ \A y \in s : y <= k + 1
      <4>1. k \in Nat /\ k + 1 <= n /\ n \in Nat
        BY <1>1, <2>2
      <4> HIDE DEF n
      <4>2. \A y \in 1..(k + 1) : y \in 1..n /\ y <= k + 1
        BY <4>1
      <4>3. k + 1 \in 1..(k + 1)
        BY <4>1
      <4> QED BY <4>2, <4>3
    <3>2. Max(s) = k + 1
      <4>1. Max(s) \in s /\ \A y \in s : Max(s) >= y
        BY <1>1, <3>1, GreatestIs
      <4>2. Max(s) <= k + 1 /\ Max(s) >= k + 1 /\ Max(s) \in Nat
        BY <3>1, <4>1
      <4> HIDE DEF s
      <4> QED BY <4>2
    <3>3. s \ {k + 1} = 1..k
      OBVIOUS
    <3> HIDE DEF s
    <3>4. iter[s] = Removed(iter[s \ {Max(s)}], gone[Max(s)])
      BY <1>1, <1>10, <3>1
    <3>5. iter[1..k] \in X /\ gone[k + 1] \in Client
      BY <1>1, <2>2, <3>1
    <3> QED BY <1>4, <3>2, <3>3, <3>4, <3>5 DEF s
  <2>3. ASSUME NEW k \in S PROVE k + 1 \in S
    <3>1. k + 1 \in Nat
      OBVIOUS
    <3>2. k + 1 <= n => iter[1..(k + 1)] \in X
      BY <2>2
    <3> QED BY <3>1, <3>2
  <2>4. S \subseteq Nat
    OBVIOUS
  <2> HIDE DEF S
  <2> QED BY <2>1, <2>3, <2>4, AllNumbers
<1>12. iter[D] \in X
  <2> HIDE DEF X, iter
  <2>1. n \in S
    BY <1>1, <1>11
  <2> QED BY <1>1, <2>1
<1> QED BY <1>2, <1>12

StreamTypes ==
  /\ clients \in Seq(Client) /\ dead \in Seq(Client) /\ broker \in Seq(Nat)
  /\ published \in Nat /\ event \in Nat /\ index \in Nat
  /\ handlerAt \in [Client -> {"new", "read", "ended"}] /\ received \in [Client -> Seq(Nat)]
  /\ (dispatchAt = "drain" => writer \in Client /\ index > 0)

\* A client is in the list at most once, and never before its handler has put it there.
ClientsOnce == NoneTwice(clients) /\ \A i \in 1..Len(clients) : handlerAt[clients[i]] # "new"

\* The events wait in their order, behind the one that is being dispatched.
EventsWait ==
  /\ event <= published
  /\ \A i \in 1..Len(broker) : event < broker[i] /\ broker[i] <= published
  /\ \A i, k \in 1..Len(broker) : i < k => broker[i] < broker[k]

\* Nobody is ahead of it, and those the walk has still before it have not got it.
NobodyIsAhead == \A c \in Client : \A k \in 1..Len(received[c]) : received[c][k] <= event
StillToCome ==
  dispatchAt = "drain" =>
    \A i \in 1..Len(clients) : i >= index =>
      \A k \in 1..Len(received[clients[i]]) : received[clients[i]][k] < event
NothingSent == \A c \in Client : handlerAt[c] = "new" => received[c] = <<>>
StreamInv ==
  StreamTypes /\ ClientsOnce /\ EventsWait /\ NobodyIsAhead /\ StillToCome /\ NothingSent /\ EventsInOrder

LEMMA StreamInitially == SseInit => StreamInv
BY DEF SseInit, StreamInv, StreamTypes, ClientsOnce, NoneTwice, EventsWait, NobodyIsAhead, StillToCome, NothingSent, EventsInOrder

LEMMA BroadcastKeeps == ASSUME StreamInv, Broadcast PROVE StreamInv'
<1> USE DEF StreamInv
<1>1. /\ published' = published + 1 /\ broker' = Append(broker, published + 1)
      /\ UNCHANGED <<clients, handlerAt, lost, dispatchAt, event, writer, index, dead, received, leaked>>
  BY DEF Broadcast
<1>2. /\ broker' \in Seq(Nat) /\ Len(broker') = Len(broker) + 1 /\ Len(broker) \in Nat
      /\ broker'[Len(broker) + 1] = published + 1 /\ \A i \in 1..Len(broker) : broker'[i] = broker[i]
      /\ \A i \in 1..Len(broker') : i \in 1..Len(broker) \/ i = Len(broker) + 1
  BY <1>1 DEF StreamTypes
<1>3. published' \in Nat /\ published \in Nat /\ event \in Nat /\ event' = event
  BY <1>1 DEF StreamTypes
<1>4. EventsWait'
  <2>1. ASSUME NEW i \in 1..Len(broker') PROVE event < broker'[i] /\ broker'[i] <= published'
    <3>1. CASE i \in 1..Len(broker)
      <4>1. event < broker[i] /\ broker[i] <= published /\ broker[i] \in Nat
        BY <3>1 DEF EventsWait, StreamTypes
      <4>2. broker'[i] = broker[i] /\ published' = published + 1
        BY <1>1, <1>2, <3>1
      <4> QED BY <1>3, <4>1, <4>2
    <3>2. CASE i = Len(broker) + 1
      BY <1>1, <1>2, <1>3, <3>2 DEF EventsWait
    <3> QED BY <1>2, <3>1, <3>2
  <2>2. ASSUME NEW i \in 1..Len(broker'), NEW k \in 1..Len(broker'), i < k PROVE broker'[i] < broker'[k]
    <3>1. i \in 1..Len(broker)
      BY <1>2, <2>2
    <3>2. broker[i] <= published /\ broker[i] \in Nat /\ broker'[i] = broker[i]
      <4>1. broker[i] \in Nat
        BY <3>1 DEF StreamTypes
      <4> QED BY <1>2, <3>1, <4>1 DEF EventsWait
    <3>3. CASE k \in 1..Len(broker)
      BY <1>2, <2>2, <3>1, <3>3 DEF EventsWait
    <3>4. CASE k = Len(broker) + 1
      BY <1>2, <1>3, <3>2, <3>4
    <3> QED BY <1>2, <3>3, <3>4
  <2>3. event' <= published'
    BY <1>1, <1>3 DEF EventsWait
  <2> QED BY <1>3, <2>1, <2>2, <2>3 DEF EventsWait
<1>5. StreamTypes'
  BY <1>1, <1>2, <1>3 DEF StreamTypes
<1>6. (ClientsOnce /\ NobodyIsAhead /\ StillToCome /\ NothingSent /\ EventsInOrder)'
  BY <1>1 DEF ClientsOnce, NoneTwice, NobodyIsAhead, StillToCome, NothingSent, EventsInOrder
<1> QED BY <1>4, <1>5, <1>6

LEMMA HandleClientKeeps == ASSUME StreamInv, NEW c \in Client, HandleClient(c) PROVE StreamInv'
<1> USE DEF StreamInv
<1>1. /\ handlerAt[c] = "new" /\ handlerAt' = [handlerAt EXCEPT ![c] = "read"] /\ clients' = Append(clients, c)
      /\ UNCHANGED <<broker, published, lost, dispatchAt, event, writer, index, dead, received, leaked>>
  BY DEF HandleClient, Appended
<1>2. /\ clients' \in Seq(Client) /\ Len(clients') = Len(clients) + 1 /\ Len(clients) \in Nat
      /\ clients'[Len(clients) + 1] = c /\ \A i \in 1..Len(clients) : clients'[i] = clients[i] /\ clients[i] \in Client
      /\ \A i \in 1..Len(clients') : i \in 1..Len(clients) \/ i = Len(clients) + 1
  BY <1>1 DEF StreamTypes
<1>3. \A i \in 1..Len(clients) : clients[i] # c
  BY <1>1 DEF ClientsOnce
<1>4. ClientsOnce'
  <2>1. NoneTwice(clients')
    BY <1>2, <1>3 DEF ClientsOnce, NoneTwice
  <2>2. \A d \in Client : handlerAt'[d] # "new" \/ (d # c /\ handlerAt'[d] = handlerAt[d])
    BY <1>1 DEF StreamTypes
  <2>3. handlerAt'[c] = "read"
    BY <1>1 DEF StreamTypes
  <2> QED BY <1>2, <2>1, <2>2, <2>3 DEF ClientsOnce
<1>5. StreamTypes'
  BY <1>1, <1>2 DEF StreamTypes
<1>6. (EventsWait /\ NobodyIsAhead /\ NothingSent /\ EventsInOrder)'
  BY <1>1 DEF EventsWait, NobodyIsAhead, NothingSent, EventsInOrder, StreamTypes
\* A new client has been sent nothing.
<1>7. StillToCome'
  BY <1>1, <1>2 DEF StillToCome, NothingSent
<1> QED BY <1>4, <1>5, <1>6, <1>7

LEMMA EndOfClientKeeps == ASSUME StreamInv, NEW c \in Client, EndOfClient(c) PROVE StreamInv'
<1> USE DEF StreamInv
<1>1. /\ handlerAt[c] = "read" /\ handlerAt' = [handlerAt EXCEPT ![c] = "ended"] /\ clients' = Removed(clients, c)
      /\ UNCHANGED <<broker, published, lost, dispatchAt, event, writer, index, dead, received>>
  BY DEF EndOfClient
<1>2. LeftOf(clients', clients)
  BY <1>1, RemovedIsLeft DEF StreamTypes, ClientsOnce
<1>3. StreamTypes'
  BY <1>1, <1>2 DEF StreamTypes, LeftOf
<1>4. ClientsOnce'
  <2>1. \A d \in Client : handlerAt'[d] = "new" => handlerAt[d] = "new"
    BY <1>1 DEF StreamTypes
  <2>2. ASSUME NEW i \in 1..Len(clients') PROVE clients'[i] \in Client /\ handlerAt[clients'[i]] # "new"
    <3>1. PICK k \in 1..Len(clients) : clients'[i] = clients[k]
      BY <1>2 DEF LeftOf
    <3>2. clients'[i] \in Client
      BY <1>2 DEF LeftOf
    <3> QED BY <3>1, <3>2 DEF ClientsOnce
  <2> QED BY <1>2, <2>1, <2>2 DEF ClientsOnce, LeftOf
\* Whoever is at the index or behind it was so before.
<1>5. StillToCome'
  <2>1. ASSUME NEW i \in 1..Len(clients'), i >= index
        PROVE  \E k \in 1..Len(clients) : k >= index /\ clients'[i] = clients[k]
    <3>1. CASE clients' = clients
      BY <2>1, <3>1
    <3>2. CASE \E k \in 1..Len(clients) :
                  /\ Len(clients') = Len(clients) - 1
                  /\ \A j \in 1..(Len(clients) - 1) : clients'[j] = IF j < k THEN clients[j] ELSE clients[j + 1]
      <4>1. Len(clients) \in Nat /\ Len(clients') = Len(clients) - 1 /\ index \in Nat
        BY <3>2 DEF StreamTypes
      <4>2. i \in 1..(Len(clients) - 1) /\ i \in 1..Len(clients) /\ i + 1 \in 1..Len(clients) /\ i + 1 >= index
        BY <2>1, <4>1
      <4>3. clients'[i] = clients[i] \/ clients'[i] = clients[i + 1]
        BY <3>2, <4>2
      <4> QED BY <2>1, <4>2, <4>3
    <3>3. clients \in Seq(Client)
      BY DEF StreamTypes
    <3>4. clients' = RemoveFirst(clients, c)
      BY <1>1 DEF Removed
    <3>5. \/ RemoveFirst(clients, c) = clients
          \/ \E k \in 1..Len(clients) :
               /\ Len(RemoveFirst(clients, c)) = Len(clients) - 1
               /\ \A j \in 1..(Len(clients) - 1) :
                    RemoveFirst(clients, c)[j] = IF j < k THEN clients[j] ELSE clients[j + 1]
      BY <3>3, RemovedIs
    <3> QED BY <3>1, <3>2, <3>4, <3>5
  <2> QED BY <1>1, <2>1 DEF StillToCome
<1>6. (EventsWait /\ NobodyIsAhead /\ NothingSent /\ EventsInOrder)'
  BY <1>1 DEF EventsWait, NobodyIsAhead, NothingSent, EventsInOrder, StreamTypes
<1> QED BY <1>3, <1>4, <1>5, <1>6

LEMMA RemoveDeadIsLeft ==
  ASSUME clients \in Seq(Client), NoneTwice(clients), NEW gone \in Seq(Client), RemoveDead(gone)
  PROVE  LeftOf(clients', clients) /\ dispatchAt' \in {"get", "crashed"}
<1>1. CASE \A k \in DOMAIN gone : Contains(clients, gone[k])
  BY <1>1, RemovedAllIsLeft DEF RemoveDead
<1>2. CASE ~(\A k \in DOMAIN gone : Contains(clients, gone[k]))
  <2> DEFINE I == {i \in 1..Len(gone) : ~Contains(clients, gone[i])}
             m == SelectInSeq(gone, LAMBDA c : ~Contains(clients, c))
  <2>1. m \in 1..Len(gone)
    <3>1. I \in SUBSET Nat /\ I # {} /\ I \subseteq 1..Len(gone)
      BY <1>2
    <3>2. m = Min(I)
      BY <3>1 DEF SelectInSeq
    <3> HIDE DEF I, m
    <3>3. Min(I) \in I
      BY <3>1, LeastIs
    <3> QED BY <3>1, <3>2, <3>3
  <2>2. clients' = FoldLeft(Removed, clients, SubSeq(gone, 1, m - 1)) /\ dispatchAt' = "crashed"
    BY <1>2 DEF RemoveDead
  <2> HIDE DEF m
  <2>3. SubSeq(gone, 1, m - 1) \in Seq(Client)
    BY <2>1
  <2> QED BY <2>2, <2>3, RemovedAllIsLeft
<1> QED BY <1>1, <1>2

\* A turn of the walk, with an event that is new to all those who are still before it.
LEMMA TurnKeeps ==
  ASSUME StreamTypes, ClientsOnce, NothingSent, EventsInOrder, UNCHANGED handlerAt, event' \in Nat,
         \A c \in Client : \A k \in 1..Len(received[c]) : received[c][k] <= event',
         NEW i \in Nat \ {0}, NEW gone \in Seq(Client), Turn(i, gone),
         \A j \in 1..Len(clients) : j >= i => \A k \in 1..Len(received[clients[j]]) : received[clients[j]][k] < event'
  PROVE  /\ clients' \in Seq(Client) /\ dead' \in Seq(Client) /\ index' \in Nat
         /\ received' \in [Client -> Seq(Nat)] /\ (dispatchAt' = "drain" => writer' \in Client /\ index' > 0)
         /\ ClientsOnce' /\ NobodyIsAhead' /\ StillToCome' /\ NothingSent' /\ EventsInOrder'
<1> USE DEF StreamTypes
<1>1. ASSUME i > Len(clients), RemoveDead(gone), UNCHANGED <<writer, index, dead, received>>
      PROVE  /\ clients' \in Seq(Client) /\ dead' \in Seq(Client) /\ index' \in Nat
             /\ received' \in [Client -> Seq(Nat)] /\ (dispatchAt' = "drain" => writer' \in Client /\ index' > 0)
             /\ ClientsOnce' /\ NobodyIsAhead' /\ StillToCome' /\ NothingSent' /\ EventsInOrder'
  <2>1. LeftOf(clients', clients) /\ dispatchAt' \in {"get", "crashed"}
    BY <1>1, RemoveDeadIsLeft DEF ClientsOnce
  <2>2. ClientsOnce'
    <3>1. ASSUME NEW j \in 1..Len(clients') PROVE handlerAt'[clients'[j]] # "new"
      <4>1. PICK k \in 1..Len(clients) : clients'[j] = clients[k]
        BY <2>1 DEF LeftOf
      <4> QED BY <4>1 DEF ClientsOnce
    <3> QED BY <2>1, <3>1 DEF LeftOf, ClientsOnce
  <2>3. (NobodyIsAhead /\ NothingSent /\ EventsInOrder)'
    BY <1>1 DEF NobodyIsAhead, NothingSent, EventsInOrder
  <2> QED BY <1>1, <2>1, <2>2, <2>3 DEF LeftOf, StillToCome
<1>2. ASSUME /\ i <= Len(clients) /\ writer' = clients[i] /\ index' = i + 1 /\ dead' = gone
             /\ received' = IF clients[i] \in lost THEN received
                            ELSE [received EXCEPT ![clients[i]] = Append(@, event')]
             /\ dispatchAt' = "drain" /\ UNCHANGED clients
      PROVE  /\ clients' \in Seq(Client) /\ dead' \in Seq(Client) /\ index' \in Nat
             /\ received' \in [Client -> Seq(Nat)] /\ (dispatchAt' = "drain" => writer' \in Client /\ index' > 0)
             /\ ClientsOnce' /\ NobodyIsAhead' /\ StillToCome' /\ NothingSent' /\ EventsInOrder'
  <2> DEFINE c == clients[i]
  <2>1. i \in 1..Len(clients) /\ c \in Client /\ \A j \in 1..Len(clients) : clients[j] \in Client
    BY <1>2
  <2>2. clients' = clients /\ dead' \in Seq(Client) /\ index' = i + 1 /\ index' \in Nat /\ index' > 0 /\ writer' \in Client
    BY <1>2, <2>1
  <2>3. ClientsOnce'
    BY <1>2 DEF ClientsOnce, NoneTwice
  <2>4. \A j \in 1..Len(clients) : j >= i + 1 => clients[j] # c
    BY <2>1 DEF ClientsOnce, NoneTwice
  <2>5. CASE received' = received
    <3>1. (NobodyIsAhead /\ NothingSent /\ EventsInOrder)'
      BY <2>5 DEF NobodyIsAhead, NothingSent, EventsInOrder
    <3>2. StillToCome'
      <4>1. \A j \in 1..Len(clients) : j >= i + 1 => j >= i
        OBVIOUS
      <4> QED BY <2>2, <2>5, <4>1 DEF StillToCome
    <3> QED BY <2>2, <2>3, <2>5, <3>1, <3>2
  <2>6. CASE received' = [received EXCEPT ![c] = Append(@, event')]
    <3> DEFINE old == received[c]
               new == received'[c]
    <3>1. /\ received' \in [Client -> Seq(Nat)] /\ old \in Seq(Nat) /\ new = Append(old, event')
          /\ \A d \in Client : d # c => received'[d] = received[d]
      BY <2>1, <2>6
    <3>2. /\ Len(old) \in Nat /\ Len(new) = Len(old) + 1 /\ new[Len(old) + 1] = event'
          /\ \A k \in 1..Len(old) : new[k] = old[k] /\ old[k] \in Nat
          /\ \A k \in 1..Len(new) : k \in 1..Len(old) \/ k = Len(old) + 1
      <4> HIDE DEF old, new
      <4>1. old \in Seq(Nat) /\ event' \in Nat /\ new = Append(old, event')
        BY <3>1
      <4>2. Len(old) \in Nat /\ Len(new) = Len(old) + 1 /\ new[Len(old) + 1] = event'
        BY <4>1
      <4>3. \A k \in 1..Len(old) : new[k] = old[k] /\ old[k] \in Nat
        BY <4>1
      <4> QED BY <4>2, <4>3
    <3>3. \A k \in 1..Len(old) : old[k] < event'
      BY <2>1
    <3> HIDE DEF old, new, c
    <3>4. NobodyIsAhead'
      <4>1. ASSUME NEW d \in Client, NEW k \in 1..Len(received'[d]) PROVE received'[d][k] <= event'
        <5>1. CASE d = c
          <6>1. new[k] <= event'
            <7>1. k \in 1..Len(new)
              BY <4>1, <5>1 DEF new
            <7>2. CASE k \in 1..Len(old)
              <8>1. new[k] = old[k] /\ old[k] \in Nat /\ old[k] < event'
                BY <3>2, <3>3, <7>2
              <8> QED BY <8>1
            <7>3. CASE k = Len(old) + 1
              BY <3>2, <7>3
            <7> QED BY <3>2, <7>1, <7>2, <7>3
          <6> QED BY <5>1, <6>1 DEF new
        <5>2. CASE d # c
          BY <3>1, <5>2
        <5> QED BY <5>1, <5>2
      <4> QED BY <4>1 DEF NobodyIsAhead
    <3>5. EventsInOrder'
      <4>1. ASSUME NEW d \in Client, NEW k \in 1..(Len(received'[d]) - 1) PROVE received'[d][k] < received'[d][k + 1]
        <5>1. CASE d = c
          <6>1. k \in 1..Len(old) /\ (k + 1 \in 1..Len(old) \/ k + 1 = Len(old) + 1)
            BY <3>2, <4>1, <5>1, SMTT(30) DEF new
          <6>2. CASE k + 1 \in 1..Len(old)
            <7>1. k \in 1..(Len(old) - 1)
              BY <3>2, <6>1, <6>2
            <7>2. old[k] < old[k + 1]
              BY <2>1, <7>1 DEF EventsInOrder, old, c
            <7>3. new[k] = old[k] /\ new[k + 1] = old[k + 1]
              BY <3>2, <6>1, <6>2
            <7> QED BY <5>1, <7>2, <7>3 DEF new
          <6>3. CASE k + 1 = Len(old) + 1
            <7>1. new[k] < new[k + 1]
              BY <3>2, <3>3, <6>1, <6>3
            <7> QED BY <5>1, <7>1 DEF new
          <6> QED BY <6>1, <6>2, <6>3
        <5>2. CASE d # c
          BY <3>1, <5>2 DEF EventsInOrder
        <5> QED BY <5>1, <5>2
      <4> QED BY <4>1 DEF EventsInOrder
    <3>6. StillToCome'
      <4>1. ASSUME NEW j \in 1..Len(clients), j >= i + 1, NEW k \in 1..Len(received'[clients[j]])
            PROVE  received'[clients[j]][k] < event'
        <5>1. clients[j] # c /\ clients[j] \in Client
          BY <2>1, <2>4, <4>1
        <5>2. received'[clients[j]] = received[clients[j]] /\ j >= i
          BY <3>1, <4>1, <5>1, SMTT(30)
        <5> QED BY <4>1, <5>2
      <4> QED BY <2>2, <4>1 DEF StillToCome
    <3>7. NothingSent'
      <4>1. handlerAt[c] # "new"
        BY <2>1 DEF ClientsOnce, c
      <4> QED BY <3>1, <4>1 DEF NothingSent
    <3> QED BY <2>2, <2>3, <3>1, <3>4, <3>5, <3>6, <3>7
  <2> QED BY <1>2, <2>5, <2>6
<1> QED BY <1>1, <1>2 DEF Turn

LEMMA GetEventKeeps == ASSUME StreamInv, GetEvent PROVE StreamInv'
<1> USE DEF StreamInv
<1>1. /\ broker # <<>> /\ event' = Head(broker) /\ broker' = Tail(broker) /\ Turn(1, <<>>)
      /\ UNCHANGED <<published, handlerAt, lost, leaked>>
  BY DEF GetEvent
<1>2. /\ Len(broker) \in Nat \ {0} /\ event' = broker[1] /\ event' \in Nat /\ event \in Nat /\ 1 \in 1..Len(broker)
      /\ broker' \in Seq(Nat) /\ Len(broker') = Len(broker) - 1
      /\ \A i \in 1..Len(broker') : broker'[i] = broker[i + 1] /\ i + 1 \in 1..Len(broker)
  BY <1>1 DEF StreamTypes
<1>3. event < event' /\ event' <= published
  BY <1>2 DEF EventsWait
<1>4. EventsWait'
  <2>1. \A i \in 1..Len(broker') : event' < broker'[i] /\ broker'[i] <= published
    <3>1. ASSUME NEW i \in 1..Len(broker') PROVE event' < broker'[i] /\ broker'[i] <= published
      <4>1. broker'[i] = broker[i + 1] /\ i + 1 \in 1..Len(broker) /\ 1 < i + 1
        BY <1>2
      <4> QED BY <1>2, <4>1 DEF EventsWait
    <3> QED BY <3>1
  <2>2. \A i, k \in 1..Len(broker') : i < k => broker'[i] < broker'[k]
    <3>1. ASSUME NEW i \in 1..Len(broker'), NEW k \in 1..Len(broker'), i < k PROVE broker'[i] < broker'[k]
      <4>1. /\ broker'[i] = broker[i + 1] /\ i + 1 \in 1..Len(broker)
            /\ broker'[k] = broker[k + 1] /\ k + 1 \in 1..Len(broker) /\ i + 1 < k + 1
        BY <1>2, <3>1
      <4> QED BY <4>1 DEF EventsWait
    <3> QED BY <3>1
  <2> QED BY <1>1, <1>3, <2>1, <2>2 DEF EventsWait
<1>5. \A c \in Client : \A k \in 1..Len(received[c]) : received[c][k] < event' /\ received[c][k] <= event'
  <2>1. ASSUME NEW c \in Client, NEW k \in 1..Len(received[c]) PROVE received[c][k] < event' /\ received[c][k] <= event'
    <3>1. received[c][k] \in Nat /\ received[c][k] <= event
      BY DEF StreamTypes, NobodyIsAhead
    <3> QED BY <1>2, <1>3, <3>1
  <2> QED BY <2>1
<1>6. \A j \in 1..Len(clients) : clients[j] \in Client
  BY DEF StreamTypes
<1>7. /\ clients' \in Seq(Client) /\ dead' \in Seq(Client) /\ index' \in Nat
      /\ received' \in [Client -> Seq(Nat)] /\ (dispatchAt' = "drain" => writer' \in Client /\ index' > 0)
      /\ ClientsOnce' /\ NobodyIsAhead' /\ StillToCome' /\ NothingSent' /\ EventsInOrder'
  <2>1. <<>> \in Seq(Client)
    OBVIOUS
  <2>2. 1 \in Nat \ {0}
    OBVIOUS
  <2>3. \A c \in Client : \A k \in 1..Len(received[c]) : received[c][k] <= event'
    BY <1>5
  <2>4. \A j \in 1..Len(clients) : j >= 1 => \A k \in 1..Len(received[clients[j]]) : received[clients[j]][k] < event'
    BY <1>5, <1>6
  <2> QED BY <1>1, <1>2, <2>1, <2>2, <2>3, <2>4, TurnKeeps
<1> QED BY <1>1, <1>2, <1>4, <1>7 DEF StreamTypes

LEMMA DrainedKeeps == ASSUME StreamInv, Drained PROVE StreamInv'
<1> USE DEF StreamInv
<1> DEFINE gone == IF writer \in lost THEN Append(dead, writer) ELSE dead
<1>1. /\ dispatchAt = "drain" /\ event' = event /\ Turn(index, gone)
      /\ UNCHANGED <<broker, published, handlerAt, lost, leaked>>
  BY DEF Drained
<1>2. gone \in Seq(Client)
  BY <1>1 DEF StreamTypes
<1>3. event' \in Nat /\ index \in Nat \ {0}
  BY <1>1 DEF StreamTypes
<1> HIDE DEF gone
<1>4. \A c \in Client : \A k \in 1..Len(received[c]) : received[c][k] <= event'
  BY <1>1 DEF NobodyIsAhead
<1>5. \A j \in 1..Len(clients) : j >= index => \A k \in 1..Len(received[clients[j]]) : received[clients[j]][k] < event'
  BY <1>1 DEF StillToCome
<1>6. /\ clients' \in Seq(Client) /\ dead' \in Seq(Client) /\ index' \in Nat
      /\ received' \in [Client -> Seq(Nat)] /\ (dispatchAt' = "drain" => writer' \in Client /\ index' > 0)
      /\ ClientsOnce' /\ NobodyIsAhead' /\ StillToCome' /\ NothingSent' /\ EventsInOrder'
  BY <1>1, <1>2, <1>3, <1>4, <1>5, TurnKeeps
<1>7. EventsWait'
  BY <1>1 DEF EventsWait
<1> QED BY <1>1, <1>3, <1>6, <1>7 DEF StreamTypes

LEMMA StreamKeeps == StreamInv /\ [SseNext]_sseVars => StreamInv'
<1> SUFFICES ASSUME StreamInv, [SseNext]_sseVars PROVE StreamInv'
  OBVIOUS
<1>1. ASSUME NEW c \in Client, LoseConnection(c) PROVE StreamInv'
  BY <1>1 DEF LoseConnection, StreamInv, StreamTypes, ClientsOnce, NoneTwice, EventsWait,
              NobodyIsAhead, StillToCome, NothingSent, EventsInOrder
<1>2. CASE UNCHANGED sseVars
  BY <1>2 DEF sseVars, StreamInv, StreamTypes, ClientsOnce, NoneTwice, EventsWait,
              NobodyIsAhead, StillToCome, NothingSent, EventsInOrder
<1> QED BY <1>1, <1>2, BroadcastKeeps, GetEventKeeps, DrainedKeeps, HandleClientKeeps, EndOfClientKeeps DEF SseNext
----------------------------------------------------------------------------
(* The topic and the event bus of Python *)

TopicTypes ==
  /\ publishedUpTo \in Nat /\ queueOf \in [Subscriber -> Seq(Nat)]
  /\ consumed \in [Subscriber -> Seq(Nat)] /\ heard \in [Subscriber -> Seq(Nat)]

\* What a subscriber has read and what waits for it are what it was sent.
NothingIsLost == \A s \in Subscriber : consumed[s] \o queueOf[s] = heard[s] /\ Len(queueOf[s]) <= ChannelSize

\* A publication has been to the handlers of its copy, up to the one it has come to.
BusTypes ==
  /\ handlers \in Seq(Handler) /\ snapshot \in Seq(Handler) /\ busAt \in Nat
  /\ busResults \in Seq(Handler \X {"returned", "raised"})
BusFollowsCopy ==
  busAt > 0 => /\ Len(busResults) = busAt - 1 /\ busAt <= Len(snapshot) + 1
               /\ \A k \in 1..Len(busResults) : busResults[k][1] = snapshot[k]
TopicInv == TopicTypes /\ NothingIsLost /\ BusTypes /\ BusFollowsCopy

LEMMA TopicInitially == PubSubInit => TopicInv
BY ChannelAssumption DEF PubSubInit, TopicInv, TopicTypes, NothingIsLost, BusTypes, BusFollowsCopy

LEMMA PublishKeeps == ASSUME TopicTypes, NothingIsLost, Publish PROVE TopicTypes' /\ NothingIsLost'
<1> USE DEF TopicTypes
<1> DEFINE next == publishedUpTo + 1
<1>1. PICK reached \in SUBSET Subscriber :
        /\ \A s \in reached : HasRoom(s)
        /\ queueOf' = [s \in Subscriber |-> IF s \in reached THEN Append(queueOf[s], next) ELSE queueOf[s]]
        /\ heard' = [s \in Subscriber |-> IF s \in reached THEN Append(heard[s], next) ELSE heard[s]]
  BY DEF Publish
<1>2. publishedUpTo' = next /\ next \in Nat /\ consumed' = consumed
  BY DEF Publish
<1> HIDE DEF next
<1>3. ASSUME NEW s \in Subscriber
      PROVE  /\ queueOf'[s] \in Seq(Nat) /\ heard'[s] \in Seq(Nat)
             /\ consumed[s] \o queueOf'[s] = heard'[s] /\ Len(queueOf'[s]) <= ChannelSize
  <2>1. /\ queueOf[s] \in Seq(Nat) /\ heard[s] \in Seq(Nat) /\ consumed[s] \in Seq(Nat)
        /\ consumed[s] \o queueOf[s] = heard[s] /\ Len(queueOf[s]) <= ChannelSize
    BY DEF NothingIsLost
  <2>2. CASE s \in reached
    <3>1. queueOf'[s] = Append(queueOf[s], next) /\ heard'[s] = Append(heard[s], next)
      BY <1>1, <2>2
    <3>2. Len(queueOf[s]) < ChannelSize
      BY <1>1, <2>2 DEF HasRoom
    <3>3. Len(Append(queueOf[s], next)) = Len(queueOf[s]) + 1 /\ Len(queueOf[s]) \in Nat
      BY <1>2, <2>1
    <3>4. Append(queueOf[s], next) \in Seq(Nat) /\ Append(heard[s], next) \in Seq(Nat)
      BY <1>2, <2>1
    <3>5. consumed[s] \o Append(queueOf[s], next) = Append(consumed[s] \o queueOf[s], next)
      <4>1. \A a, b \in Seq(Nat), e \in Nat : a \o Append(b, e) = Append(a \o b, e)
        BY AppendedLast, SMTT(30)
      <4> QED BY <1>2, <2>1, <4>1
    <3> QED BY <2>1, <3>1, <3>2, <3>3, <3>4, <3>5, ChannelAssumption
  <2>3. CASE s \notin reached
    BY <1>1, <2>1, <2>3
  <2> QED BY <2>2, <2>3
<1>4. DOMAIN queueOf' = Subscriber /\ DOMAIN heard' = Subscriber
  BY <1>1
<1>5. queueOf' \in [Subscriber -> Seq(Nat)] /\ heard' \in [Subscriber -> Seq(Nat)]
  BY <1>1, <1>2, <1>3
<1> QED BY <1>2, <1>3, <1>5 DEF NothingIsLost

LEMMA ConsumeKeeps == ASSUME TopicTypes, NothingIsLost, NEW s \in Subscriber, Consume(s) PROVE TopicTypes' /\ NothingIsLost'
<1> USE DEF TopicTypes
<1>1. /\ queueOf[s] # <<>> /\ consumed' = [consumed EXCEPT ![s] = Append(@, Head(queueOf[s]))]
      /\ queueOf' = [queueOf EXCEPT ![s] = Tail(@)] /\ UNCHANGED <<publishedUpTo, heard>>
  BY DEF Consume
<1>2. /\ queueOf[s] \in Seq(Nat) /\ heard[s] \in Seq(Nat) /\ consumed[s] \in Seq(Nat)
      /\ consumed[s] \o queueOf[s] = heard[s] /\ Len(queueOf[s]) <= ChannelSize
  BY DEF NothingIsLost
<1>3. /\ Tail(queueOf[s]) \in Seq(Nat) /\ Append(consumed[s], Head(queueOf[s])) \in Seq(Nat)
      /\ Len(Tail(queueOf[s])) = Len(queueOf[s]) - 1 /\ Len(queueOf[s]) \in Nat
  BY <1>1, <1>2
<1>4. Append(consumed[s], Head(queueOf[s])) \o Tail(queueOf[s]) = consumed[s] \o queueOf[s]
  BY <1>1, <1>2, MovedOver
<1>5. /\ queueOf' \in [Subscriber -> Seq(Nat)] /\ consumed' \in [Subscriber -> Seq(Nat)]
      /\ queueOf'[s] = Tail(queueOf[s]) /\ consumed'[s] = Append(consumed[s], Head(queueOf[s]))
      /\ \A r \in Subscriber : r # s => queueOf'[r] = queueOf[r] /\ consumed'[r] = consumed[r]
  BY <1>1, <1>3
<1>6. Len(queueOf'[s]) <= ChannelSize
  BY <1>2, <1>3, <1>5, ChannelAssumption
<1>7. NothingIsLost'
  BY <1>1, <1>2, <1>4, <1>5, <1>6 DEF NothingIsLost
<1> QED BY <1>1, <1>5, <1>7

LEMMA TopicKeeps == ASSUME TopicInv, TopicNext PROVE TopicInv'
<1> USE DEF TopicInv
<1>1. BusTypes' /\ BusFollowsCopy'
  <2>1. UNCHANGED busVars
    BY DEF TopicNext, Subscribe, Consume, Unsubscribe, Publish, ClosePubSub
  <2> QED BY <2>1 DEF busVars, BusTypes, BusFollowsCopy
<1>2. ASSUME NEW s \in Subscriber, Subscribe(s) \/ Unsubscribe(s) PROVE TopicTypes' /\ NothingIsLost'
  BY <1>2 DEF Subscribe, Unsubscribe, TopicTypes, NothingIsLost
<1>3. CASE ClosePubSub
  <2>1. UNCHANGED <<queueOf, consumed, publishedUpTo, heard>>
    BY <1>3 DEF ClosePubSub
  <2> QED BY <1>1, <2>1 DEF TopicTypes, NothingIsLost
<1> QED BY <1>1, <1>2, <1>3, PublishKeeps, ConsumeKeeps DEF TopicNext

LEMMA BusKeeps == ASSUME TopicInv, BusNext PROVE TopicInv'
<1> USE DEF TopicInv
<1>1. TopicTypes' /\ NothingIsLost'
  <2>1. UNCHANGED topicVars
    BY DEF BusNext, BusSubscribe, BusUnsubscribe, BusPublish, CallHandler, BusPublished
  <2> QED BY <2>1 DEF topicVars, TopicTypes, NothingIsLost
<1>2. ASSUME NEW h \in Handler, BusSubscribe(h) PROVE BusTypes' /\ BusFollowsCopy'
  BY <1>2 DEF BusSubscribe, BusTypes, BusFollowsCopy
<1>3. ASSUME NEW h \in Handler, BusUnsubscribe(h) PROVE BusTypes' /\ BusFollowsCopy'
  <2>1. handlers \in Seq(Handler) /\ handlers' = RemoveFirst(handlers, h) /\ UNCHANGED <<busAt, snapshot, busResults>>
    BY <1>3 DEF BusUnsubscribe, BusTypes
  <2>2. RemoveFirst(handlers, h) \in Seq(Handler)
    BY <2>1, RemovedIs
  <2> QED BY <1>1, <2>1, <2>2 DEF BusTypes, BusFollowsCopy
<1>4. CASE BusPublish
  <2>1. handlers' = handlers /\ snapshot' = handlers /\ busAt' = 1 /\ busResults' = <<>>
    BY <1>4 DEF BusPublish
  <2>2. busResults' \in Seq(Handler \X {"returned", "raised"}) /\ Len(busResults') = 0 /\ busAt' \in Nat
        /\ handlers \in Seq(Handler) /\ Len(handlers) \in Nat
    BY <2>1 DEF BusTypes
  <2> QED BY <1>1, <2>1, <2>2 DEF BusTypes, BusFollowsCopy
<1>5. CASE BusPublished
  <2>1. handlers' = handlers /\ snapshot' = <<>> /\ busAt' = 0 /\ busResults' = <<>>
    BY <1>5 DEF BusPublished
  <2>2. busResults' \in Seq(Handler \X {"returned", "raised"}) /\ snapshot' \in Seq(Handler) /\ busAt' \in Nat /\ ~(busAt' > 0)
    BY <2>1
  <2> QED BY <1>1, <2>1, <2>2 DEF BusTypes, BusFollowsCopy
<1>6. CASE CallHandler
  <2>1. PICK outcome \in {"returned", "raised"} :
          busResults' = Append(busResults, <<snapshot[busAt], outcome>>) /\ busAt' = busAt + 1
    BY <1>6 DEF CallHandler, GoOn
  <2>2. /\ busAt \in 1..Len(snapshot) /\ snapshot[busAt] \in Handler /\ Len(busResults) = busAt - 1 /\ UNCHANGED <<snapshot, handlers>>
        /\ snapshot \in Seq(Handler) /\ Len(snapshot) \in Nat /\ busAt \in Nat
        /\ \A k \in 1..Len(busResults) : busResults[k][1] = snapshot[k]
    BY <1>6 DEF CallHandler, BusTypes, BusFollowsCopy
  <2> DEFINE r == <<snapshot[busAt], outcome>>
  <2>3. r \in Handler \X {"returned", "raised"} /\ r[1] = snapshot[busAt]
    BY <2>2
  <2> HIDE DEF r
  <2>4. /\ busResults' \in Seq(Handler \X {"returned", "raised"}) /\ Len(busResults') = busAt
        /\ \A k \in 1..Len(busResults') : busResults'[k] = IF k = busAt THEN r ELSE busResults[k]
    <3>1. busResults' = Append(busResults, r) /\ busResults \in Seq(Handler \X {"returned", "raised"})
      BY <2>1 DEF r, BusTypes
    <3> QED BY <2>2, <2>3, <3>1
  <2>5. \A k \in 1..Len(busResults') : busResults'[k][1] = snapshot[k]
    <3>1. ASSUME NEW k \in 1..Len(busResults') PROVE busResults'[k][1] = snapshot[k]
      <4>1. k = busAt \/ k \in 1..Len(busResults)
        BY <2>2, <2>4
      <4> QED BY <2>2, <2>3, <2>4, <4>1
    <3> QED BY <3>1
  <2>6. busAt' - 1 = busAt /\ busAt' <= Len(snapshot) + 1 /\ busAt' \in Nat
    BY <2>1, <2>2
  <2>7. BusTypes'
    BY <2>2, <2>4, <2>6 DEF BusTypes
  <2>8. Len(busResults') = busAt' - 1 /\ snapshot' = snapshot
    BY <2>2, <2>4, <2>6
  <2> QED BY <1>1, <2>5, <2>6, <2>7, <2>8 DEF BusFollowsCopy
<1> QED BY <1>1, <1>2, <1>3, <1>4, <1>5, <1>6 DEF BusNext

LEMMA FanOutKeeps == TopicInv /\ [TopicNext \/ BusNext]_pubsubVars => TopicInv'
<1>1. TopicInv /\ UNCHANGED pubsubVars => TopicInv'
  BY DEF pubsubVars, TopicInv, TopicTypes, NothingIsLost, BusTypes, BusFollowsCopy
<1> QED BY <1>1, TopicKeeps, BusKeeps

LEMMA FanOutInvImplies == TopicInv => FanOutIsFair
<1> SUFFICES ASSUME TopicInv PROVE FanOutIsFair
  OBVIOUS
<1> USE DEF TopicInv
<1>1. ASSUME busAt > 0, busAt > Len(snapshot) PROVE [k \in DOMAIN busResults |-> busResults[k][1]] = snapshot
  <2>1. /\ Len(busResults) = Len(snapshot) /\ Len(snapshot) \in Nat
        /\ \A k \in 1..Len(busResults) : busResults[k][1] = snapshot[k]
    BY <1>1 DEF BusFollowsCopy, BusTypes
  <2>2. DOMAIN busResults = 1..Len(snapshot)
    BY <2>1 DEF BusTypes
  <2>3. snapshot = [k \in 1..Len(snapshot) |-> snapshot[k]]
    BY DEF BusTypes
  <2> QED BY <2>1, <2>2, <2>3
<1> QED BY <1>1 DEF FanOutIsFair, NothingIsLost

----------------------------------------------------------------------------
(* The events of the agent runtime *)

Report == [type : {"start", "done", "error"}, tool : ToolName, depth : Nat]
AgentTypes ==
  /\ calls \in Seq([tool : ToolName, timeout : BOOLEAN])
  /\ emitted \in [DOMAIN Listeners -> Seq(Report)]

\* The start i belongs to depth d and what comes after it up to k leaves that depth alone.
LastStart(trace, i, d, k) ==
  /\ i \in 1..(k - 1) /\ Opens(trace, i) /\ trace[i].depth = d
  /\ \A j \in (i + 1)..(k - 1) : Opens(trace, j) => trace[j].depth # d

EndsOf(trace) == {k \in DOMAIN trace : ~Opens(trace, k)}
EndsFollowStarts(trace) ==
  \A k \in EndsOf(trace) : \E i \in 1..Len(trace) : LastStart(trace, i, trace[k].depth, k) /\ trace[i].tool = trace[k].tool
\* Every run of the stack has its start, behind which nothing started beside it.
StackIsOpen(trace) ==
  \A d \in 1..Depth : \E i \in 1..Len(trace) : LastStart(trace, i, d - 1, Len(trace) + 1) /\ trace[i].tool = calls[d].tool
Balanced(trace) == Len(trace) = 2 * Cardinality(EndsOf(trace)) + Depth
AgentInv ==
  /\ AgentTypes
  /\ \A l \in DOMAIN Listeners : /\ EndsFollowStarts(emitted[l]) /\ StackIsOpen(emitted[l]) /\ Balanced(emitted[l])
                                 /\ emitted[l] = emitted[1]

LEMMA EndsAreFinite ==
  ASSUME NEW trace \in Seq(Report)
  PROVE  IsFiniteSet(EndsOf(trace)) /\ Cardinality(EndsOf(trace)) \in Nat /\ Len(trace) + 1 \notin EndsOf(trace)
<1>1. IsFiniteSet(1..Len(trace)) /\ EndsOf(trace) \subseteq 1..Len(trace)
  BY FS_Interval DEF EndsOf
<1> QED BY <1>1, FS_Subset, FS_CardinalityType

LEMMA AgentInitially == AgentInit => AgentInv
<1> SUFFICES ASSUME AgentInit PROVE AgentInv
  OBVIOUS
<1>1. calls = <<>> /\ emitted = [l \in DOMAIN Listeners |-> <<>>]
  BY DEF AgentInit
<1>2. AgentTypes
  BY <1>1 DEF AgentTypes
<1>3. ASSUME NEW l \in DOMAIN Listeners
      PROVE  EndsFollowStarts(emitted[l]) /\ StackIsOpen(emitted[l]) /\ Balanced(emitted[l]) /\ emitted[l] = emitted[1]
  <2>1. 1 \in DOMAIN Listeners
    BY ListenersAssumption
  <2>2. emitted[l] = <<>> /\ emitted[1] = <<>>
    BY <1>1, <2>1
  <2>3. EndsOf(<<>>) = {} /\ Depth = 0
    BY <1>1 DEF EndsOf, Depth
  <2>4. Len(<<>>) = 0 /\ Cardinality({}) = 0
    BY FS_EmptySet
  <2>5. EndsFollowStarts(<<>>)
    BY <2>3 DEF EndsFollowStarts
  <2>6. StackIsOpen(<<>>)
    BY <2>3 DEF StackIsOpen
  <2>7. Balanced(<<>>)
    <3>1. 2 * 0 + 0 = 0
      OBVIOUS
    <3> QED BY <2>3, <2>4, <3>1 DEF Balanced
  <2> QED BY <2>2, <2>5, <2>6, <2>7
<1> QED BY <1>2, <1>3 DEF AgentInv

\* What is known of a trace is known of it when a report is added: where its ends started.
LEMMA EndsStay ==
  ASSUME NEW trace \in Seq(Report), EndsFollowStarts(trace), NEW r \in Report, NEW k \in EndsOf(trace)
  PROVE  \E i \in 1..Len(Append(trace, r)) :
           /\ LastStart(Append(trace, r), i, Append(trace, r)[k].depth, k)
           /\ Append(trace, r)[i].tool = Append(trace, r)[k].tool
<1> DEFINE more == Append(trace, r)
<1>1. /\ Len(trace) \in Nat /\ Len(more) = Len(trace) + 1 /\ \A j \in 1..Len(trace) : more[j] = trace[j] /\ j \in 1..Len(more)
  OBVIOUS
<1> HIDE DEF more
<1>2. k \in 1..Len(trace)
  BY DEF EndsOf
<1>3. PICK i \in 1..Len(trace) : LastStart(trace, i, trace[k].depth, k) /\ trace[i].tool = trace[k].tool
  BY DEF EndsFollowStarts
<1>4. \A j \in 1..(k - 1) : j \in 1..Len(trace)
  BY <1>1, <1>2
<1>5. \A j \in (i + 1)..(k - 1) : j \in 1..(k - 1)
  BY <1>3 DEF LastStart
<1>6. LastStart(more, i, more[k].depth, k)
  BY <1>1, <1>2, <1>3, <1>4, <1>5 DEF LastStart, Opens
<1>7. more[i].tool = more[k].tool /\ i \in 1..Len(more)
  BY <1>1, <1>2, <1>3
<1> QED BY <1>6, <1>7 DEF more

LEMMA RunToolKeeps ==
  ASSUME AgentInv, NEW name \in ToolName, NEW timeout \in BOOLEAN, RunTool(name, timeout) PROVE AgentInv'
<1> USE DEF AgentInv, AgentTypes
<1> DEFINE r == [type |-> "start", tool |-> name, depth |-> Depth]
           n == Depth
<1>1. /\ emitted' = [l \in DOMAIN Listeners |-> Append(emitted[l], r)]
      /\ calls' = Append(calls, [tool |-> name, timeout |-> timeout])
  BY DEF RunTool, Emit, ToAll
<1>2. n \in Nat /\ r \in Report /\ r.type = "start" /\ r.tool = name /\ r.depth = n
  BY DEF Report, Depth
<1>3. /\ calls' \in Seq([tool : ToolName, timeout : BOOLEAN]) /\ Depth' = n + 1 /\ calls'[n + 1].tool = name
      /\ \A d \in 1..n : calls'[d] = calls[d]
  BY <1>1 DEF Depth
<1> HIDE DEF r, n
<1>4. AgentTypes'
  BY <1>1, <1>2, <1>3
<1>5. ASSUME NEW l \in DOMAIN Listeners
      PROVE  /\ EndsFollowStarts(emitted[l])' /\ StackIsOpen(emitted[l])' /\ Balanced(emitted[l])'
             /\ emitted'[l] = emitted'[1]
  <2> DEFINE trace == emitted[l]
             more == emitted'[l]
  <2>1. /\ trace \in Seq(Report) /\ more = Append(trace, r) /\ EndsFollowStarts(trace)
        /\ \A d \in 1..n : \E i \in 1..Len(trace) : LastStart(trace, i, d - 1, Len(trace) + 1) /\ trace[i].tool = calls[d].tool
        /\ Len(trace) = 2 * Cardinality(EndsOf(trace)) + n
    BY <1>1 DEF StackIsOpen, Balanced, n
  <2> HIDE DEF trace, more
  <2>2. /\ Len(trace) \in Nat /\ Len(more) = Len(trace) + 1 /\ more[Len(trace) + 1] = r /\ DOMAIN more = 1..(Len(trace) + 1)
        /\ DOMAIN trace = 1..Len(trace) /\ \A j \in 1..Len(trace) : more[j] = trace[j] /\ j \in 1..Len(more)
    BY <1>2, <2>1
  <2>3. EndsOf(more) = EndsOf(trace)
    <3>1. \A k \in 1..(Len(trace) + 1) : ~Opens(more, k) <=> k \in 1..Len(trace) /\ ~Opens(trace, k)
      BY <1>2, <2>2 DEF Opens
    <3> QED BY <2>2, <3>1 DEF EndsOf
  <2>4. EndsFollowStarts(more)
    <3>1. ASSUME NEW k \in EndsOf(trace)
          PROVE  \E i \in 1..Len(more) : LastStart(more, i, more[k].depth, k) /\ more[i].tool = more[k].tool
      BY <1>2, <2>1, EndsStay
    <3> QED BY <2>3, <3>1 DEF EndsFollowStarts
  <2>5. ASSUME NEW d \in 1..(n + 1)
        PROVE  \E i \in 1..Len(more) : LastStart(more, i, d - 1, Len(more) + 1) /\ more[i].tool = calls'[d].tool
    <3>1. CASE d = n + 1
      <4>1. LastStart(more, Len(trace) + 1, n, Len(more) + 1)
        BY <1>2, <2>2 DEF LastStart, Opens
      <4>2. d - 1 = n /\ Len(trace) + 1 \in 1..Len(more)
        BY <1>2, <2>2, <3>1
      <4> QED BY <1>2, <1>3, <2>2, <3>1, <4>1, <4>2
    <3>2. CASE d \in 1..n
      <4>1. PICK i \in 1..Len(trace) : LastStart(trace, i, d - 1, Len(trace) + 1) /\ trace[i].tool = calls[d].tool
        BY <2>1, <3>2
      <4>2. ASSUME NEW j \in (i + 1)..Len(more), Opens(more, j) PROVE more[j].depth # d - 1
        <5>1. CASE j = Len(trace) + 1
          BY <1>2, <2>2, <3>2, <5>1
        <5>2. CASE j # Len(trace) + 1
          <6>1. j \in 1..Len(trace) /\ j \in (i + 1)..((Len(trace) + 1) - 1)
            BY <2>2, <4>2, <5>2
          <6> QED BY <2>2, <4>1, <4>2, <6>1 DEF LastStart, Opens
        <5> QED BY <5>1, <5>2
      <4>3. i \in 1..Len(more) /\ more[i] = trace[i] /\ (Len(more) + 1) - 1 = Len(more)
        BY <2>2
      <4>4. LastStart(more, i, d - 1, Len(more) + 1)
        BY <4>1, <4>2, <4>3 DEF LastStart, Opens
      <4> QED BY <1>3, <3>2, <4>1, <4>3, <4>4
    <3> QED BY <1>2, <3>1, <3>2
  <2>6. Balanced(emitted[l])'
    BY <1>2, <1>3, <2>1, <2>2, <2>3, EndsAreFinite, SMTT(30) DEF Balanced, more
  <2>7. StackIsOpen(emitted[l])' /\ EndsFollowStarts(emitted[l])'
    BY <1>3, <2>4, <2>5 DEF StackIsOpen, more
  <2>8. emitted'[l] = emitted'[1]
    <3>1. 1 \in DOMAIN Listeners
      BY ListenersAssumption
    <3> QED BY <1>1, <3>1
  <2> QED BY <2>6, <2>7, <2>8
<1> QED BY <1>4, <1>5

LEMMA EndRunKeeps ==
  ASSUME AgentInv, calls # <<>>, NEW type \in {"done", "error"}, EndRun(type) PROVE AgentInv'
<1> USE DEF AgentInv, AgentTypes
<1> DEFINE name == Current.tool
           n == Depth - 1
           r == [type |-> type, tool |-> name, depth |-> n]
<1>1. /\ emitted' = [l \in DOMAIN Listeners |-> Append(emitted[l], r)]
      /\ calls' = SubSeq(calls, 1, n)
  BY DEF EndRun, Emit, ToAll
<1>2. n \in Nat /\ Depth = n + 1 /\ name \in ToolName /\ calls[n + 1].tool = name
  <2>1. Len(calls) \in Nat \ {0} /\ calls[Len(calls)] \in [tool : ToolName, timeout : BOOLEAN]
    <3>1. calls \in Seq([tool : ToolName, timeout : BOOLEAN])
      OBVIOUS
    <3> HIDE DEF AgentInv, AgentTypes, n, name, r
    <3>2. Len(calls) \in Nat /\ Len(calls) # 0
      BY <3>1
    <3>3. Len(calls) \in 1..Len(calls)
      BY <3>2
    <3>4. \A S : \A q \in Seq(S) : \A m \in 1..Len(q) : q[m] \in S
      OBVIOUS
    <3>5. calls[Len(calls)] \in [tool : ToolName, timeout : BOOLEAN]
      BY <3>1, <3>3, <3>4
    <3> QED BY <3>2, <3>5
  <2>2. n = Len(calls) - 1 /\ name = calls[Len(calls)].tool
    BY DEF Depth, Current
  <2> HIDE DEF n, name
  <2>3. n \in Nat /\ n + 1 = Len(calls)
    BY <2>1, <2>2
  <2> QED BY <2>1, <2>2, <2>3 DEF Depth
<1>3. r \in Report /\ r.type # "start" /\ r.tool = name /\ r.depth = n
  BY <1>2 DEF Report
<1>4. /\ calls' \in Seq([tool : ToolName, timeout : BOOLEAN]) /\ Depth' = n
      /\ \A d \in 1..n : calls'[d] = calls[d]
  <2> HIDE DEF n, name, r
  <2>1. n \in 0..Len(calls) /\ calls' = SubSeq(calls, 1, n)
    BY <1>1, <1>2 DEF Depth
  <2>2. \A m \in 0..Len(calls) :
          /\ SubSeq(calls, 1, m) \in Seq([tool : ToolName, timeout : BOOLEAN]) /\ Len(SubSeq(calls, 1, m)) = m
          /\ \A d \in 1..m : SubSeq(calls, 1, m)[d] = calls[d]
    <3>1. calls \in Seq([tool : ToolName, timeout : BOOLEAN])
      OBVIOUS
    <3> HIDE DEF AgentInv, AgentTypes
    <3>2. \A S : \A q \in Seq(S) : \A m \in 0..Len(q) :
            SubSeq(q, 1, m) \in Seq(S) /\ Len(SubSeq(q, 1, m)) = m /\ \A d \in 1..m : SubSeq(q, 1, m)[d] = q[d]
      OBVIOUS
    <3> QED BY <3>1, <3>2
  <2> QED BY <2>1, <2>2 DEF Depth
<1> HIDE DEF r, n, name
<1>5. AgentTypes'
  BY <1>1, <1>3, <1>4
<1>6. ASSUME NEW l \in DOMAIN Listeners
      PROVE  /\ EndsFollowStarts(emitted[l])' /\ StackIsOpen(emitted[l])' /\ Balanced(emitted[l])'
             /\ emitted'[l] = emitted'[1]
  <2> DEFINE trace == emitted[l]
             more == emitted'[l]
  <2>1. /\ trace \in Seq(Report) /\ more = Append(trace, r) /\ EndsFollowStarts(trace)
        /\ \A d \in 1..(n + 1) : \E i \in 1..Len(trace) : LastStart(trace, i, d - 1, Len(trace) + 1) /\ trace[i].tool = calls[d].tool
        /\ Len(trace) = 2 * Cardinality(EndsOf(trace)) + n + 1
    <3>1. trace \in Seq(Report) /\ more = Append(trace, r) /\ EndsFollowStarts(trace)
      BY <1>1
    <3>2. StackIsOpen(trace) /\ Balanced(trace)
      OBVIOUS
    <3> HIDE DEF trace, more
    <3>3. Len(trace) \in Nat /\ Cardinality(EndsOf(trace)) \in Nat
      BY <3>1, EndsAreFinite
    <3> QED BY <1>2, <3>1, <3>2, <3>3, SMTT(30) DEF StackIsOpen, Balanced
  <2> HIDE DEF trace, more
  <2>2. /\ Len(trace) \in Nat /\ Len(more) = Len(trace) + 1 /\ more[Len(trace) + 1] = r /\ DOMAIN more = 1..(Len(trace) + 1)
        /\ DOMAIN trace = 1..Len(trace) /\ \A j \in 1..Len(trace) : more[j] = trace[j] /\ j \in 1..Len(more)
    BY <1>3, <2>1
  <2>3. EndsOf(more) = EndsOf(trace) \cup {Len(trace) + 1}
    <3>1. \A k \in 1..(Len(trace) + 1) : ~Opens(more, k) <=> (k \in 1..Len(trace) /\ ~Opens(trace, k)) \/ k = Len(trace) + 1
      BY <1>3, <2>2 DEF Opens
    <3>2. Len(trace) + 1 \in 1..(Len(trace) + 1)
      BY <2>2
    <3> QED BY <2>2, <3>1, <3>2 DEF EndsOf
\* The run that ends is the last one that started at its depth.
  <2>4. \E i \in 1..Len(more) : LastStart(more, i, n, Len(trace) + 1) /\ more[i].tool = name
    <3>1. n + 1 \in 1..(n + 1) /\ (n + 1) - 1 = n
      BY <1>2
    <3>2. PICK i \in 1..Len(trace) : LastStart(trace, i, n, Len(trace) + 1) /\ trace[i].tool = name
      BY <1>2, <2>1, <3>1
    <3>3. \A j \in (i + 1)..((Len(trace) + 1) - 1) : j \in 1..Len(trace)
      BY <2>2
    <3>4. LastStart(more, i, n, Len(trace) + 1)
      BY <2>2, <3>2, <3>3 DEF LastStart, Opens
    <3> QED BY <2>2, <3>2, <3>4
  <2>5. EndsFollowStarts(more)
    <3>1. ASSUME NEW k \in EndsOf(trace)
          PROVE  \E i \in 1..Len(more) : LastStart(more, i, more[k].depth, k) /\ more[i].tool = more[k].tool
      BY <1>3, <2>1, EndsStay
    <3> QED BY <1>3, <2>2, <2>3, <2>4, <3>1 DEF EndsFollowStarts
  <2>6. ASSUME NEW d \in 1..n
        PROVE  \E i \in 1..Len(more) : LastStart(more, i, d - 1, Len(more) + 1) /\ more[i].tool = calls'[d].tool
    <3>1. PICK i \in 1..Len(trace) : LastStart(trace, i, d - 1, Len(trace) + 1) /\ trace[i].tool = calls[d].tool
      <4>1. d \in 1..(n + 1)
        BY <1>2
      <4> QED BY <2>1, <4>1
    <3>2. ASSUME NEW j \in (i + 1)..Len(more), Opens(more, j) PROVE more[j].depth # d - 1
      <4>1. CASE j = Len(trace) + 1
        BY <1>3, <2>2, <3>2, <4>1 DEF Opens
      <4>2. CASE j # Len(trace) + 1
        <5>1. j \in 1..Len(trace) /\ j \in (i + 1)..((Len(trace) + 1) - 1)
          BY <2>2, <3>2, <4>2
        <5> QED BY <2>2, <3>1, <3>2, <5>1 DEF LastStart, Opens
      <4> QED BY <4>1, <4>2
    <3>3. i \in 1..Len(more) /\ more[i] = trace[i] /\ (Len(more) + 1) - 1 = Len(more)
      BY <2>2
    <3>4. LastStart(more, i, d - 1, Len(more) + 1)
      BY <3>1, <3>2, <3>3 DEF LastStart, Opens
    <3> QED BY <1>4, <3>1, <3>3, <3>4
  <2>7. Balanced(emitted[l])'
    <3>1. IsFiniteSet(EndsOf(trace)) /\ Cardinality(EndsOf(trace)) \in Nat /\ Len(trace) + 1 \notin EndsOf(trace)
      BY <2>1, EndsAreFinite
    <3>2. Cardinality(EndsOf(more)) = Cardinality(EndsOf(trace)) + 1
      BY <2>3, <3>1, FS_AddElement
    <3>3. Len(more) = 2 * Cardinality(EndsOf(more)) + n
      BY <1>2, <2>1, <2>2, <3>1, <3>2
    <3> QED BY <1>4, <3>3 DEF Balanced, more
  <2>8. StackIsOpen(emitted[l])' /\ EndsFollowStarts(emitted[l])'
    BY <1>4, <2>5, <2>6 DEF StackIsOpen, more
  <2>9. emitted'[l] = emitted'[1]
    <3>1. 1 \in DOMAIN Listeners
      BY ListenersAssumption
    <3> QED BY <1>1, <3>1
  <2> QED BY <2>7, <2>8, <2>9
<1> QED BY <1>5, <1>6

LEMMA AgentKeeps == AgentInv /\ [AgentNext]_agentVars => AgentInv'
<1> SUFFICES ASSUME AgentInv, [AgentNext]_agentVars PROVE AgentInv'
  OBVIOUS
<1>1. CASE UNCHANGED <<calls, emitted>>
  BY <1>1 DEF AgentInv, AgentTypes, EndsFollowStarts, StackIsOpen, Balanced, Depth
<1>2. ASSUME NEW name \in ToolName, NEW timeout \in BOOLEAN, RunTool(name, timeout) PROVE AgentInv'
  BY <1>2, RunToolKeeps
<1>3. ASSUME NEW type \in {"done", "error"}, HandlerEnds(type) PROVE AgentInv'
  BY <1>3, EndRunKeeps DEF HandlerEnds
<1>4. ASSUME NEW name \in ToolName PROVE RegisterTwice(name) \/ RunUnknown(name) \/ (\E kind \in {"sync", "async"} : Register(name, kind))
                                          => UNCHANGED <<calls, emitted>>
  BY DEF RegisterTwice, RunUnknown, Refuse, Register
<1> QED BY <1>1, <1>2, <1>3, <1>4 DEF AgentNext, NestedRun, agentVars

LEMMA AgentInvImplies == AgentInv => EventsNest
<1> SUFFICES ASSUME AgentInv, NEW l \in DOMAIN Listeners
             PROVE  /\ \A k \in EndsOf(emitted[l]) : emitted[l][StartOf(emitted[l], k)].tool = emitted[l][k].tool
                    /\ Len(emitted[l]) = 2 * Cardinality(EndsOf(emitted[l])) + Depth
                    /\ emitted[l] = emitted[1]
  BY DEF EventsNest, EndsOf
<1> DEFINE trace == emitted[l]
<1>1. ASSUME NEW k \in EndsOf(trace) PROVE trace[StartOf(trace, k)].tool = trace[k].tool
  <2>1. PICK i \in 1..Len(trace) : LastStart(trace, i, trace[k].depth, k) /\ trace[i].tool = trace[k].tool
    BY DEF AgentInv, EndsFollowStarts
  <2> DEFINE s == StartOf(trace, k)
  <2>2. k \in Nat
    BY DEF EndsOf, AgentInv, AgentTypes
  <2> HIDE DEF trace
  <2>3. LastStart(trace, s, trace[k].depth, k)
    BY <2>1 DEF StartOf, LastStart
  <2> HIDE DEF s
  <2>4. s = i
    BY <2>1, <2>2, <2>3 DEF LastStart
  <2> QED BY <2>1, <2>4 DEF s
<1> QED BY <1>1 DEF AgentInv, Balanced

----------------------------------------------------------------------------
\* ListenersHearInOrder for any clients, subscribers, handlers, publishers, listeners and
\* bounds: however connections are lost, subscribers leave, handlers raise and runs nest, what
\* a listener got is in order and whole.
THEOREM ListenersHear == ListenersSpec => []ListenersHearInOrder
<1>1. SseInit => StreamInv
  BY StreamInitially
<1>2. StreamInv /\ [SseNext]_sseVars => StreamInv'
  BY StreamKeeps
<1>3. PubSubInit => TopicInv
  BY TopicInitially
<1>4. TopicInv /\ [TopicNext \/ BusNext]_pubsubVars => TopicInv'
  BY FanOutKeeps
<1>5. AgentInit => AgentInv
  BY AgentInitially
<1>6. AgentInv /\ [AgentNext]_agentVars => AgentInv'
  BY AgentKeeps
<1>7. GoSpec => []GoFanOut
  BY FanOutHolds
<1>8. StreamInv /\ TopicInv /\ AgentInv /\ GoFanOut => ListenersHearInOrder
  BY FanOutInvImplies, AgentInvImplies DEF StreamInv, ListenersHearInOrder
<1> QED BY <1>1, <1>2, <1>3, <1>4, <1>5, <1>6, <1>7, <1>8, PTL DEF ListenersSpec, SseSpec, PubSubSpec, AgentSpec
----------------------------------------------------------------------------
(* The router *)

RouteOf == [method : Method, path : RoutePaths, handler : RouteHandler]

RouterTypes ==
  routes \in Seq(RouteOf) /\ added \in Seq(RouteOf) /\ middlewares \in Seq(MiddlewareName)

\* The dict has the key of every call of add, in the order in which the keys came first, each
\* with the handler of the last call with it.
EveryKeyIsKept == \A k \in 1..Len(added) : \E i \in 1..Len(routes) : SameKey(added[k], routes[i])
InOrderOfFirstUse ==
  \A i, j \in 1..Len(routes) :
    i < j => \E k \in 1..Len(added) : /\ SameKey(added[k], routes[i])
                                     /\ \A m \in 1..Len(added) : SameKey(added[m], routes[j]) => k < m
LastHandlerIsKept ==
  \A i \in 1..Len(routes) :
    \E k \in 1..Len(added) : /\ SameKey(added[k], routes[i]) /\ added[k].handler = routes[i].handler
                            /\ \A j \in 1..Len(added) : SameKey(added[j], routes[i]) => j <= k
RouterInv == RouterTypes /\ EveryKeyIsKept /\ InOrderOfFirstUse /\ LastHandlerIsKept

LEMMA RouterInitially == RouterInit => RouterInv
BY DEF RouterInit, RouterInv, RouterTypes, EveryKeyIsKept, InOrderOfFirstUse, LastHandlerIsKept

\* Keys are compared as such: equal to a third, equal to each other.
LEMMA KeysAreEqual ==
  /\ \A a : SameKey(a, a)
  /\ \A a, b : SameKey(a, b) => SameKey(b, a)
  /\ \A a, b, c : SameKey(a, b) /\ SameKey(b, c) => SameKey(a, c)
BY DEF SameKey

LEMMA AddRouteKeeps ==
  ASSUME RouterInv, NEW route \in RouteOf, AddRoute(route)
  PROVE  RouterInv'
<1> DEFINE n == Len(routes)
           last == Len(added) + 1
           known == \E k \in DOMAIN routes : SameKey(routes[k], route)
<1>1. RouterTypes /\ EveryKeyIsKept /\ InOrderOfFirstUse /\ LastHandlerIsKept
  BY DEF RouterInv
<1>2. routes' = DictSet(route) /\ added' = Append(added, route) /\ middlewares' = middlewares
  BY DEF AddRoute
<1>3. /\ added' \in Seq(RouteOf) /\ Len(added') = last /\ Len(added) = last - 1 /\ DOMAIN added' = 1..last /\ DOMAIN added = 1..(last - 1) /\ added'[last] = route
      /\ \A k \in 1..(last - 1) : added'[k] = added[k] /\ last \in Nat \ {0}
      /\ n \in Nat /\ DOMAIN routes = 1..n
  BY <1>1, <1>2 DEF RouterTypes
<1>4. last \in Nat \ {0}
  BY <1>1 DEF RouterTypes
<1> HIDE DEF last
<1>7. /\ \A k \in 1..(last - 1) : \E i \in 1..n : SameKey(added[k], routes[i])
      /\ \A i, j \in 1..n :
           i < j => \E k \in 1..(last - 1) : /\ SameKey(added[k], routes[i])
                                             /\ \A m \in 1..(last - 1) : SameKey(added[m], routes[j]) => k < m
      /\ \A i \in 1..n :
           \E k \in 1..(last - 1) : /\ SameKey(added[k], routes[i]) /\ added[k].handler = routes[i].handler
                                    /\ \A j \in 1..(last - 1) : SameKey(added[j], routes[i]) => j <= k
  BY <1>1, <1>3, Zenon DEF EveryKeyIsKept, InOrderOfFirstUse, LastHandlerIsKept
<1>5. CASE known
  <2>1. routes' = [k \in DOMAIN routes |-> IF SameKey(routes[k], route) THEN route ELSE routes[k]]
    BY <1>2, <1>5 DEF DictSet
  <2>2. routes' \in Seq(RouteOf) /\ DOMAIN routes' = 1..n /\ Len(routes') = n
    <3>1. \A k \in 1..n : routes'[k] \in RouteOf
      BY <1>1, <1>3, <2>1 DEF RouterTypes
    <3>2. routes' = [k \in 1..n |-> routes'[k]]
      BY <1>3, <2>1
    <3> HIDE DEF n
    <3>3. routes' \in Seq(RouteOf)
      BY <1>3, <3>1, <3>2
    <3> QED BY <1>3, <3>2, <3>3
  <2>3. \A k \in 1..n : /\ SameKey(routes'[k], routes[k])
                        /\ routes'[k].handler = IF SameKey(routes[k], route) THEN route.handler ELSE routes[k].handler
    BY <1>3, <2>1 DEF SameKey
  <2> HIDE DEF n
  <2>4. EveryKeyIsKept'
    <3>1. ASSUME NEW k \in 1..last PROVE \E i \in 1..n : SameKey(added'[k], routes'[i])
      <4>1. CASE k = last
        <5>1. PICK i \in 1..n : SameKey(routes[i], route)
          BY <1>3, <1>5
        <5>2. SameKey(added'[k], routes'[i])
          BY <1>3, <2>3, <4>1, <5>1 DEF SameKey
        <5> QED BY <2>2, <5>2
      <4>2. CASE k # last
        <5>1. k \in 1..(last - 1) /\ added'[k] = added[k]
          BY <1>3, <1>4, <3>1, <4>2
        <5>2. PICK i \in 1..n : SameKey(added[k], routes[i])
          BY <1>7, <5>1
        <5>3. SameKey(added'[k], routes'[i])
          BY <2>3, <5>1, <5>2 DEF SameKey
        <5> QED BY <2>2, <5>3
      <4> QED BY <4>1, <4>2
    <3> QED BY <1>3, <2>2, <3>1, Zenon DEF EveryKeyIsKept
  <2>5. InOrderOfFirstUse'
    <3>1. ASSUME NEW i \in 1..n, NEW j \in 1..n, i < j
          PROVE  \E k \in 1..last : /\ SameKey(added'[k], routes'[i])
                                    /\ \A m \in 1..last : SameKey(added'[m], routes'[j]) => k < m
      <4>1. PICK k \in 1..(last - 1) : /\ SameKey(added[k], routes[i])
                                       /\ \A m \in 1..(last - 1) : SameKey(added[m], routes[j]) => k < m
        BY <1>7, <3>1
      <4>2. k \in 1..last /\ k < last /\ SameKey(added'[k], routes'[i])
        BY <1>3, <1>4, <2>3, <4>1 DEF SameKey
      <4>3. ASSUME NEW m \in 1..last, SameKey(added'[m], routes'[j]) PROVE k < m
        <5>1. CASE m = last
          BY <4>2, <5>1
        <5>2. CASE m # last
          <6>1. m \in 1..(last - 1)
            BY <1>4, <5>2
          <6>2. SameKey(added[m], routes[j])
            BY <1>3, <2>3, <4>3, <6>1 DEF SameKey
          <6> QED BY <4>1, <6>1, <6>2
        <5> QED BY <5>1, <5>2
      <4> QED BY <1>3, <4>2, <4>3
    <3> QED BY <1>3, <2>2, <3>1, Zenon DEF InOrderOfFirstUse
  <2>6. LastHandlerIsKept'
    <3>1. ASSUME NEW i \in 1..n
          PROVE  \E k \in 1..last : /\ SameKey(added'[k], routes'[i]) /\ added'[k].handler = routes'[i].handler
                                    /\ \A j \in 1..last : SameKey(added'[j], routes'[i]) => j <= k
      <4>1. CASE SameKey(routes[i], route)
        <5>1. SameKey(added'[last], routes'[i]) /\ added'[last].handler = routes'[i].handler
          BY <1>3, <2>3, <4>1 DEF SameKey
        <5>2. last \in 1..last /\ \A j \in 1..last : j <= last
          BY <1>4
        <5> QED BY <5>1, <5>2
      <4>2. CASE ~SameKey(routes[i], route)
        <5>1. PICK k \in 1..(last - 1) : /\ SameKey(added[k], routes[i]) /\ added[k].handler = routes[i].handler
                                         /\ \A j \in 1..(last - 1) : SameKey(added[j], routes[i]) => j <= k
          BY <1>7
        <5>2. k \in 1..last /\ SameKey(added'[k], routes'[i]) /\ added'[k].handler = routes'[i].handler
          BY <1>3, <1>4, <2>3, <4>2, <5>1 DEF SameKey
        <5>3. ASSUME NEW j \in 1..last, SameKey(added'[j], routes'[i]) PROVE j <= k
          <6>1. j # last
            BY <1>3, <2>3, <4>2, <5>3 DEF SameKey
          <6>2. j \in 1..(last - 1)
            BY <1>4, <6>1
          <6>3. SameKey(added[j], routes[i])
            BY <1>3, <2>3, <5>3, <6>2 DEF SameKey
          <6> QED BY <5>1, <6>2, <6>3
        <5> QED BY <5>2, <5>3
      <4> QED BY <4>1, <4>2
    <3> QED BY <1>3, <2>2, <3>1, Zenon DEF LastHandlerIsKept
  <2> QED BY <1>1, <1>2, <1>3, <2>2, <2>4, <2>5, <2>6 DEF RouterInv, RouterTypes
<1>6. CASE ~known
  <2>1. routes' = Append(routes, route)
    BY <1>2, <1>6 DEF DictSet
  <2>2. /\ routes' \in Seq(RouteOf) /\ DOMAIN routes' = 1..(n + 1) /\ Len(routes') = n + 1 /\ routes'[n + 1] = route
        /\ \A k \in 1..n : routes'[k] = routes[k]
    BY <1>1, <1>3, <2>1 DEF RouterTypes
  <2>3. \A k \in 1..n : ~SameKey(routes[k], route)
    BY <1>3, <1>6
  <2> HIDE DEF n
  <2>4. \A k \in 1..(last - 1) : ~SameKey(added[k], route)
    <3>1. ASSUME NEW k \in 1..(last - 1), SameKey(added[k], route) PROVE FALSE
      <4>1. PICK i \in 1..n : SameKey(added[k], routes[i])
        BY <1>7
      <4> QED BY <2>3, <3>1, <4>1 DEF SameKey
    <3> QED BY <3>1
  <2>5. /\ n + 1 \in 1..(n + 1) /\ \A i \in 1..(n + 1) : i = n + 1 \/ i \in 1..n
        /\ \A i \in 1..n : i \in 1..(n + 1)
        /\ last \in 1..last /\ \A k \in 1..last : k = last \/ k \in 1..(last - 1)
        /\ \A k \in 1..(last - 1) : k \in 1..last /\ k < last
    BY <1>3, <1>4
  <2>6. EveryKeyIsKept'
    <3>1. ASSUME NEW k \in 1..last PROVE \E i \in 1..(n + 1) : SameKey(added'[k], routes'[i])
      <4>1. CASE k = last
        <5>1. SameKey(added'[k], routes'[n + 1])
          BY <1>3, <2>2, <4>1, KeysAreEqual
        <5> QED BY <2>5, <5>1
      <4>2. CASE k # last
        <5>1. k \in 1..(last - 1)
          BY <2>5, <4>2
        <5>2. PICK i \in 1..n : SameKey(added[k], routes[i])
          BY <1>7, <5>1
        <5> QED BY <1>3, <2>2, <2>5, <5>1, <5>2
      <4> QED BY <4>1, <4>2
    <3> QED BY <1>3, <2>2, <3>1, Zenon DEF EveryKeyIsKept
  <2>7. InOrderOfFirstUse'
    <3>1. ASSUME NEW i \in 1..(n + 1), NEW j \in 1..(n + 1), i < j
          PROVE  \E k \in 1..last : /\ SameKey(added'[k], routes'[i])
                                    /\ \A m \in 1..last : SameKey(added'[m], routes'[j]) => k < m
      <4>1. i \in 1..n
        BY <1>3, <3>1
      <4>2. CASE j = n + 1
        <5>1. PICK k \in 1..(last - 1) : SameKey(added[k], routes[i])
          BY <1>7, <4>1
        <5>2. ASSUME NEW m \in 1..last, SameKey(added'[m], routes'[j]) PROVE k < m
          <6>1. m = last
            BY <1>3, <2>2, <2>4, <2>5, <4>2, <5>2
          <6> QED BY <2>5, <6>1
        <5> QED BY <1>3, <2>2, <2>5, <4>1, <5>1, <5>2
      <4>3. CASE j # n + 1
        <5>1. j \in 1..n
          BY <2>5, <4>3
        <5>2. PICK k \in 1..(last - 1) : /\ SameKey(added[k], routes[i])
                                         /\ \A m \in 1..(last - 1) : SameKey(added[m], routes[j]) => k < m
          BY <1>7, <3>1, <4>1, <5>1
        <5>3. ASSUME NEW m \in 1..last, SameKey(added'[m], routes'[j]) PROVE k < m
          <6>1. CASE m = last
            BY <2>5, <6>1
          <6>2. CASE m # last
            BY <1>3, <2>2, <2>5, <5>1, <5>2, <5>3, <6>2
          <6> QED BY <6>1, <6>2
        <5> QED BY <1>3, <2>2, <2>5, <4>1, <5>2, <5>3
      <4> QED BY <4>2, <4>3
    <3>2. \A i, j \in 1..(n + 1) :
             i < j => \E k \in 1..last : /\ SameKey(added'[k], routes'[i])
                                         /\ \A m \in 1..last : SameKey(added'[m], routes'[j]) => k < m
      BY <3>1
    <3>3. Len(routes') = n + 1 /\ Len(added') = last
      BY <1>3, <2>2
    <3> QED BY <3>2, <3>3, Zenon DEF InOrderOfFirstUse
  <2>8. LastHandlerIsKept'
    <3>1. ASSUME NEW i \in 1..(n + 1)
          PROVE  \E k \in 1..last : /\ SameKey(added'[k], routes'[i]) /\ added'[k].handler = routes'[i].handler
                                    /\ \A j \in 1..last : SameKey(added'[j], routes'[i]) => j <= k
      <4>1. CASE i = n + 1
        <5>1. SameKey(added'[last], routes'[i]) /\ added'[last].handler = routes'[i].handler
          BY <1>3, <2>2, <4>1, KeysAreEqual
        <5>2. last \in 1..last /\ \A j \in 1..last : j <= last
          BY <1>4
        <5> QED BY <5>1, <5>2
      <4>2. CASE i # n + 1
        <5>1. i \in 1..n /\ routes'[i] = routes[i]
          BY <2>2, <2>5, <4>2
        <5>2. PICK k \in 1..(last - 1) : /\ SameKey(added[k], routes[i]) /\ added[k].handler = routes[i].handler
                                         /\ \A j \in 1..(last - 1) : SameKey(added[j], routes[i]) => j <= k
          BY <1>7, <5>1
        <5>3. ASSUME NEW j \in 1..last, SameKey(added'[j], routes'[i]) PROVE j <= k
          <6>1. CASE j = last
            BY <1>3, <2>3, <5>1, <5>3, <6>1, KeysAreEqual
          <6>2. CASE j # last
            BY <1>3, <2>5, <5>1, <5>2, <5>3, <6>2
          <6> QED BY <6>1, <6>2
        <5> QED BY <1>3, <2>5, <5>1, <5>2, <5>3
      <4> QED BY <4>1, <4>2
    <3> QED BY <1>3, <2>2, <3>1, Zenon DEF LastHandlerIsKept
  <2> QED BY <1>1, <1>2, <1>3, <2>2, <2>6, <2>7, <2>8 DEF RouterInv, RouterTypes
<1> QED BY <1>5, <1>6

LEMMA RouterNextKeeps == ASSUME RouterInv, [RouterNext]_routerVars PROVE RouterInv'
<1> USE DEF RouterInv, RouterTypes, EveryKeyIsKept, InOrderOfFirstUse, LastHandlerIsKept
<1>1. CASE UNCHANGED routerVars
  BY <1>1 DEF routerVars
<1>2. ASSUME NEW m \in Method, NEW p \in RoutePaths, NEW h \in RouteHandler,
             AddRoute([method |-> m, path |-> p, handler |-> h])
      PROVE  RouterInv'
  <2>1. [method |-> m, path |-> p, handler |-> h] \in RouteOf
    BY DEF RouteOf
  <2> HIDE DEF RouterInv
  <2> QED BY <1>2, <2>1, AddRouteKeeps
<1>3. ASSUME NEW m \in MiddlewareName, Use(m) PROVE RouterInv'
  BY <1>3 DEF Use
<1>4. ASSUME NEW m \in Method, NEW p \in RequestPaths, NEW json \in BOOLEAN, Dispatch(m, p, json) PROVE RouterInv'
  BY <1>4 DEF Dispatch
<1> HIDE DEF RouterInv
<1> QED BY <1>1, <1>2, <1>3, <1>4 DEF RouterNext

\* What a chain of middlewares leaves: on the way in the names from the first to the last, then
\* the handler, on the way out the names from the last to the first.
Traced(trace, names, handler) ==
  LET n == Len(names)
  IN  /\ Len(trace) = 4 * n + 2 /\ trace[2 * n + 2] = handler
      /\ \A k \in 1..n : /\ trace[2 * k - 1] = "in" /\ trace[2 * k] = names[k]
                         /\ trace[4 * n + 3 - 2 * k] = "out" /\ trace[4 * n + 4 - 2 * k] = names[k]

TraceItems == {"in", "out", "handler"} \cup MiddlewareName \cup RouteHandler

\* One more middleware around a chain.
LEMMA WrappedOnce ==
  ASSUME NEW names \in Seq(MiddlewareName), NEW m \in MiddlewareName, NEW handler \in RouteHandler,
         NEW inner \in Seq(TraceItems), Traced(inner, names, handler)
  PROVE  LET outer == <<"in", m>> \o inner \o <<"out", m>>
         IN  outer \in Seq(TraceItems) /\ Traced(outer, <<m>> \o names, handler)
<1> DEFINE n == Len(names)
           front == <<"in", m>>
           back == <<"out", m>>
           mid == front \o inner
           outer == mid \o back
           all == <<m>> \o names
<1>1. n \in Nat /\ Len(inner) = 4 * n + 2
  BY DEF Traced
<1>2. /\ front \in Seq(TraceItems) /\ Len(front) = 2 /\ front[1] = "in" /\ front[2] = m
      /\ back \in Seq(TraceItems) /\ Len(back) = 2 /\ back[1] = "out" /\ back[2] = m
      /\ <<m>> \in Seq(MiddlewareName) /\ Len(<<m>>) = 1 /\ <<m>>[1] = m
  BY DEF TraceItems
<1> HIDE DEF front, back
<1>3. /\ mid \in Seq(TraceItems) /\ Len(mid) = 4 * n + 4
      /\ \A i \in 1..2 : mid[i] = front[i]
      /\ \A i \in 1..(4 * n + 2) : mid[2 + i] = inner[i]
  <2>1. /\ mid \in Seq(TraceItems) /\ Len(mid) = Len(front) + Len(inner)
        /\ \A i \in 1..Len(front) : mid[i] = front[i]
        /\ \A i \in 1..Len(inner) : mid[Len(front) + i] = inner[i]
    <3>1. front \in Seq(TraceItems) /\ inner \in Seq(TraceItems)
      BY <1>2
    <3> QED BY <3>1, Concatenated
  <2> HIDE DEF mid, n
  <2>2. Len(front) = 2 /\ 2 + (4 * n + 2) = 4 * n + 4
    BY <1>1, <1>2
  <2> QED BY <1>1, <2>1, <2>2
<1> HIDE DEF mid
<1>4. /\ outer \in Seq(TraceItems) /\ Len(outer) = 4 * n + 6
      /\ \A i \in 1..(4 * n + 4) : outer[i] = mid[i]
      /\ \A i \in 1..2 : outer[4 * n + 4 + i] = back[i]
  <2>1. /\ outer \in Seq(TraceItems) /\ Len(outer) = Len(mid) + Len(back)
        /\ \A i \in 1..Len(mid) : outer[i] = mid[i]
        /\ \A i \in 1..Len(back) : outer[Len(mid) + i] = back[i]
    <3>1. mid \in Seq(TraceItems) /\ back \in Seq(TraceItems)
      BY <1>2, <1>3
    <3> QED BY <3>1, Concatenated
  <2> HIDE DEF outer, n
  <2>2. Len(back) = 2 /\ (4 * n + 4) + 2 = 4 * n + 6 /\ Len(mid) = 4 * n + 4
    BY <1>1, <1>2, <1>3
  <2> QED BY <1>1, <2>1, <2>2
<1>5. /\ all \in Seq(MiddlewareName) /\ Len(all) = n + 1 /\ all[1] = m
      /\ \A i \in 1..n : all[1 + i] = names[i]
  <2>1. /\ all \in Seq(MiddlewareName) /\ Len(all) = 1 + n
        /\ \A i \in 1..1 : all[i] = <<m>>[i]
        /\ \A i \in 1..n : all[1 + i] = names[i]
    BY <1>2, Concatenated
  <2> HIDE DEF all, n
  <2> QED BY <1>1, <1>2, <2>1
<1> HIDE DEF outer, all
<1>6. outer[1] = "in" /\ outer[2] = m
  <2>1. 1 \in 1..2 /\ 2 \in 1..2 /\ 1 \in 1..(4 * n + 4) /\ 2 \in 1..(4 * n + 4)
    BY <1>1
  <2> QED BY <1>2, <1>3, <1>4, <2>1
<1>7. outer[4 * n + 5] = "out" /\ outer[4 * n + 6] = m
  <2>1. 1 \in 1..2 /\ 2 \in 1..2 /\ 4 * n + 4 + 1 = 4 * n + 5 /\ 4 * n + 4 + 2 = 4 * n + 6
    BY <1>1
  <2> QED BY <1>2, <1>4, <2>1
<1>8. ASSUME NEW i \in 1..(4 * n + 2) PROVE outer[2 + i] = inner[i]
  <2>1. 2 + i \in 1..(4 * n + 4)
    BY <1>1
  <2> QED BY <1>3, <1>4, <2>1
<1>9. outer[2 * (n + 1) + 2] = handler
  <2>1. 2 * n + 2 \in 1..(4 * n + 2) /\ 2 * (n + 1) + 2 = 2 + (2 * n + 2)
    BY <1>1
  <2>2. inner[2 * n + 2] = handler
    BY DEF Traced
  <2> QED BY <1>8, <2>1, <2>2
<1>10. ASSUME NEW k \in 1..(n + 1)
       PROVE  /\ outer[2 * k - 1] = "in" /\ outer[2 * k] = all[k]
              /\ outer[4 * (n + 1) + 3 - 2 * k] = "out" /\ outer[4 * (n + 1) + 4 - 2 * k] = all[k]
  <2>1. CASE k = 1
    <3>1. 2 * k - 1 = 1 /\ 2 * k = 2 /\ 4 * (n + 1) + 3 - 2 * k = 4 * n + 5 /\ 4 * (n + 1) + 4 - 2 * k = 4 * n + 6
      BY <1>1, <2>1
    <3> QED BY <1>5, <1>6, <1>7, <2>1, <3>1
  <2>2. CASE k # 1
    <3>1. PICK j \in 1..n : k = 1 + j
      <4>1. k - 1 \in 1..n /\ k = 1 + (k - 1)
        BY <1>1, <2>2
      <4> QED BY <4>1
    <3>2. /\ 2 * j - 1 \in 1..(4 * n + 2) /\ 2 * j \in 1..(4 * n + 2)
          /\ 4 * n + 3 - 2 * j \in 1..(4 * n + 2) /\ 4 * n + 4 - 2 * j \in 1..(4 * n + 2)
          /\ 2 * k - 1 = 2 + (2 * j - 1) /\ 2 * k = 2 + 2 * j
          /\ 4 * (n + 1) + 3 - 2 * k = 2 + (4 * n + 3 - 2 * j) /\ 4 * (n + 1) + 4 - 2 * k = 2 + (4 * n + 4 - 2 * j)
      BY <1>1, <3>1
    <3>3. /\ inner[2 * j - 1] = "in" /\ inner[2 * j] = names[j]
          /\ inner[4 * n + 3 - 2 * j] = "out" /\ inner[4 * n + 4 - 2 * j] = names[j]
      BY DEF Traced
    <3>4. all[k] = names[j]
      BY <1>5, <3>1
    <3>5. outer[2 * k - 1] = inner[2 * j - 1] /\ outer[2 * k] = inner[2 * j]
      BY <1>8, <3>2
    <3>6. outer[4 * (n + 1) + 3 - 2 * k] = inner[4 * n + 3 - 2 * j] /\ outer[4 * (n + 1) + 4 - 2 * k] = inner[4 * n + 4 - 2 * j]
      BY <1>8, <3>2
    <3> QED BY <3>3, <3>4, <3>5, <3>6
  <2> QED BY <2>1, <2>2
<1>11. 4 * n + 6 = 4 * (n + 1) + 2
  BY <1>1
<1>12. Traced(outer, all, handler)
  BY <1>4, <1>5, <1>9, <1>10, <1>11 DEF Traced
<1> QED BY <1>4, <1>12 DEF outer, mid, front, back, all

\* The names from the j-th on.
LastNames(names, j) == SubSeq(names, j, Len(names))

LEMMA OneNameMore ==
  ASSUME NEW names \in Seq(MiddlewareName), NEW j \in 1..Len(names)
  PROVE  /\ LastNames(names, j + 1) \in Seq(MiddlewareName) /\ names[j] \in MiddlewareName
         /\ LastNames(names, j) = <<names[j]>> \o LastNames(names, j + 1)
<1> DEFINE n == Len(names)
           rest == LastNames(names, j + 1)
           l == LastNames(names, j)
           r == <<names[j]>> \o rest
<1>1. n \in Nat /\ names[j] \in MiddlewareName
  OBVIOUS
<1>2. rest \in Seq(MiddlewareName) /\ Len(rest) = n - j /\ \A i \in 1..(n - j) : rest[i] = names[j + i]
  BY DEF LastNames
<1>3. l \in Seq(MiddlewareName) /\ Len(l) = n - j + 1 /\ \A i \in 1..(n - j + 1) : l[i] = names[j + i - 1]
  BY DEF LastNames
<1>4. <<names[j]>> \in Seq(MiddlewareName) /\ Len(<<names[j]>>) = 1 /\ <<names[j]>>[1] = names[j]
  BY <1>1
<1> HIDE DEF rest, l
<1>5. /\ r \in Seq(MiddlewareName) /\ Len(r) = n - j + 1
      /\ \A i \in 1..1 : r[i] = <<names[j]>>[i]
      /\ \A i \in 1..(n - j) : r[1 + i] = rest[i]
  <2>1. /\ r \in Seq(MiddlewareName) /\ Len(r) = Len(<<names[j]>>) + Len(rest)
        /\ \A i \in 1..Len(<<names[j]>>) : r[i] = <<names[j]>>[i]
        /\ \A i \in 1..Len(rest) : r[Len(<<names[j]>>) + i] = rest[i]
    <3>1. <<names[j]>> \in Seq(MiddlewareName) /\ rest \in Seq(MiddlewareName)
      BY <1>2, <1>4
    <3> QED BY <3>1, Concatenated
  <2> HIDE DEF r, n
  <2> QED BY <1>1, <1>2, <1>4, <2>1
<1> HIDE DEF r, n
<1>6. ASSUME NEW i \in 1..(n - j + 1) PROVE l[i] = r[i]
  <2>1. CASE i = 1
    BY <1>1, <1>3, <1>4, <1>5, <2>1
  <2>2. CASE i # 1
    <3>1. i - 1 \in 1..(n - j) /\ 1 + (i - 1) = i /\ j + (i - 1) = j + i - 1
      BY <1>1, <2>2
    <3> QED BY <1>2, <1>3, <1>5, <3>1
  <2> QED BY <2>1, <2>2
<1>7. l = r
  BY <1>3, <1>5, <1>6, SameSequence
<1> QED BY <1>1, <1>2, <1>7 DEF l, r, rest

\* So does the whole chain, which is built from the last middleware to the first.
LEMMA WrapIs ==
  ASSUME middlewares \in Seq(MiddlewareName), NEW handler \in RouteHandler
  PROVE  Traced(Wrap(handler), middlewares, handler)
<1> DEFINE n == Len(middlewares)
           D == DOMAIN middlewares
           X == Seq(TraceItems)
           base == <<"handler", handler>>
           Around(m, inner) == <<"in", m>> \o inner \o <<"out", m>>
           Iter(f) == f = [s \in SUBSET D |-> IF s = {} THEN base ELSE Around(middlewares[Min(s)], f[s \ {Min(s)}])]
           iter == CHOOSE f : Iter(f)
<1>1. n \in Nat /\ D = 1..n /\ \A i \in 1..n : middlewares[i] \in MiddlewareName
  OBVIOUS
<1>2. Wrap(handler) = iter[D]
  BY DEF Wrap, FoldRight, MapThenFoldSet
<1>3. base \in X
  BY DEF TraceItems
<1>4. ASSUME NEW m \in MiddlewareName, NEW inner \in X PROVE Around(m, inner) \in X
  <2>1. <<"in", m>> \in X /\ <<"out", m>> \in X
    BY DEF TraceItems
  <2>2. <<"in", m>> \o inner \in X
    BY <2>1, Concatenated
  <2> QED BY <2>1, <2>2, Concatenated
<1> DEFINE step == [i \in 1..n |-> [p \in X |-> Around(middlewares[i], p)]]
           choice == [s \in SUBSET (1..n) |-> IF s = {} THEN 0 ELSE Min(s)]
<1>5. step \in [1..n -> [X -> X]]
  <2> HIDE DEF X, Around
  <2> QED BY <1>1, <1>4
<1>6. ASSUME NEW s \in SUBSET (1..n), s # {} PROVE Min(s) \in s /\ \A y \in s : Min(s) <= y
  BY <1>1, <1>6, LeastIs
<1>7. choice \in [SUBSET (1..n) -> Nat] /\ \A s \in SUBSET (1..n) : s # {} => choice[s] \in s
  <2>1. ASSUME NEW s \in SUBSET (1..n), s # {} PROVE Min(s) \in Nat
    <3> HIDE DEF n, choice, step, X
    <3>1. Min(s) \in 1..n
      BY <1>6, <2>1
    <3> QED BY <1>1, <3>1
  <2>2. \A s \in SUBSET (1..n) : (IF s = {} THEN 0 ELSE Min(s)) \in Nat
    BY <2>1
  <2>3. \A s \in SUBSET (1..n) : s # {} => choice[s] = Min(s)
    OBVIOUS
  <2> HIDE DEF n
  <2> QED BY <1>6, <2>2, <2>3
<1>8. PICK f : IsFold(f, X, n, base, step, choice)
  <2> HIDE DEF X, step, choice, n, base
  <2>1. n \in Nat /\ base \in X /\ step \in [1..n -> [X -> X]]
    BY <1>1, <1>3, <1>5
  <2>2. Chooses(choice, n)
    BY <1>7 DEF Chooses
  <2> QED BY <2>1, <2>2, FoldExists
<1>9. Iter(f)
  <2> USE DEF IsFold
  <2> HIDE DEF Around, base
  <2>1. ASSUME NEW s \in SUBSET (1..n), s # {} PROVE f[s] = Around(middlewares[Min(s)], f[s \ {Min(s)}])
    <3>1. choice[s] = Min(s) /\ Min(s) \in 1..n /\ s \ {Min(s)} \in SUBSET (1..n)
      BY <1>6, <2>1
    <3>2. f[s \ {Min(s)}] \in X
      BY <1>8, <3>1
    <3> HIDE DEF X, choice
    <3>3. step[Min(s)][f[s \ {Min(s)}]] = Around(middlewares[Min(s)], f[s \ {Min(s)}])
      BY <3>1, <3>2
    <3>4. f[s] = step[choice[s]][f[s \ {choice[s]}]]
      BY <1>8, <2>1
    <3> QED BY <3>1, <3>3, <3>4
  <2> HIDE DEF n, X, step, choice
  <2>2. /\ f = [s \in SUBSET (1..n) |-> f[s]]
        /\ \A s \in SUBSET (1..n) : f[s] = IF s = {} THEN base ELSE Around(middlewares[Min(s)], f[s \ {Min(s)}])
    BY <1>8, <2>1
  <2> HIDE DEF D
  <2> QED BY <1>1, <2>2
<1>10. Iter(iter)
  <2> HIDE DEF Iter
  <2> QED BY <1>9
\* The chain around the last k of them.
<1> DEFINE Inner(k) == iter[(n - k + 1)..n]
           Good(k) == Inner(k) \in X /\ Traced(Inner(k), LastNames(middlewares, n - k + 1), handler)
           S == {k \in Nat : k <= n => Good(k)}
<1>11. S = Nat
  <2> HIDE DEF X, iter, Around
  <2>1. Good(0)
    <3>1. (n - 0 + 1)..n = {} /\ {} \in SUBSET D
      BY <1>1
    <3>2. Inner(0) = base
      BY <1>10, <3>1
    <3>3. LastNames(middlewares, n - 0 + 1) \in Seq(MiddlewareName) /\ Len(LastNames(middlewares, n - 0 + 1)) = 0
      BY <1>1 DEF LastNames
    <3>4. Traced(base, LastNames(middlewares, n - 0 + 1), handler)
      <4>1. Len(base) = 2 /\ base[2] = handler
        OBVIOUS
      <4> HIDE DEF base, n
      <4> QED BY <3>3, <4>1 DEF Traced
    <3> QED BY <1>3, <3>2, <3>4
  <2>2. ASSUME NEW k \in S, k + 1 <= n PROVE Good(k + 1)
    <3> DEFINE s == (n - (k + 1) + 1)..n
               j == n - k
    <3>1. j \in 1..n /\ j + 1 = n - k + 1 /\ n - (k + 1) + 1 = j /\ k \in Nat /\ k <= n
      BY <1>1, <2>2
    <3>2. s = j..n /\ s \in SUBSET (1..n) /\ j \in s /\ \A y \in s : j <= y
      <4> HIDE DEF n, j
      <4>1. \A y \in j..n : y \in 1..n /\ j <= y
        BY <1>1, <3>1
      <4>2. j \in j..n /\ s = j..n
        BY <1>1, <3>1
      <4> QED BY <4>1, <4>2
    <3>3. Min(s) = j
      <4>1. Min(s) \in s /\ \A y \in s : Min(s) <= y
        BY <1>6, <3>2
      <4>2. Min(s) <= j /\ j <= Min(s) /\ Min(s) \in 1..n
        BY <3>2, <4>1
      <4> HIDE DEF s, n, j
      <4> QED BY <3>1, <4>2
    <3>4. s \ {j} = (n - k + 1)..n
      <4> HIDE DEF n, j
      <4> QED BY <1>1, <3>1, <3>2
    <3>5. Inner(k) \in X /\ Traced(Inner(k), LastNames(middlewares, j + 1), handler)
      BY <3>1
    <3>6. Inner(k + 1) = Around(middlewares[j], Inner(k))
      <4>1. Inner(k + 1) = iter[s] /\ Inner(k) = iter[s \ {j}]
        BY <3>4
      <4>2. iter[s] = Around(middlewares[Min(s)], iter[s \ {Min(s)}])
        BY <1>1, <1>10, <3>2
      <4> QED BY <3>3, <4>1, <4>2
    <3>7. /\ LastNames(middlewares, j + 1) \in Seq(MiddlewareName) /\ middlewares[j] \in MiddlewareName
          /\ LastNames(middlewares, j) = <<middlewares[j]>> \o LastNames(middlewares, j + 1)
      BY <3>1, OneNameMore
    <3> HIDE DEF Inner, s, j, n
    <3>8. Around(middlewares[j], Inner(k)) \in X /\ Traced(Around(middlewares[j], Inner(k)), LastNames(middlewares, j), handler)
      <4> DEFINE w == Inner(k)
      <4>1. w \in Seq(TraceItems) /\ Traced(w, LastNames(middlewares, j + 1), handler)
        BY <3>5 DEF X
      <4> HIDE DEF w
      <4>2. /\ <<"in", middlewares[j]>> \o w \o <<"out", middlewares[j]>> \in Seq(TraceItems)
            /\ Traced(<<"in", middlewares[j]>> \o w \o <<"out", middlewares[j]>>,
                      <<middlewares[j]>> \o LastNames(middlewares, j + 1), handler)
        BY <3>7, <4>1, WrappedOnce
      <4> QED BY <3>7, <4>2 DEF X, Around, w
    <3> QED BY <3>1, <3>6, <3>8
  <2>3. ASSUME NEW k \in S PROVE k + 1 \in S
    <3>1. k + 1 \in Nat
      OBVIOUS
    <3> HIDE DEF Good
    <3>2. k + 1 <= n => Good(k + 1)
      BY <2>2
    <3> QED BY <3>1, <3>2
  <2>4. S \subseteq Nat
    OBVIOUS
  <2>5. 0 \in S
    <3> HIDE DEF Good
    <3> QED BY <2>1
  <2> HIDE DEF S
  <2> QED BY <2>3, <2>4, <2>5, AllNumbers
<1>12. Traced(iter[D], middlewares, handler)
  <2> HIDE DEF X, iter
  <2>1. n \in S
    BY <1>1, <1>11
  <2>2. Good(n)
    BY <1>1, <2>1
  <2>3. n - n + 1 = 1 /\ LastNames(middlewares, 1) = middlewares
    <3>1. n - n + 1 = 1
      BY <1>1
    <3>2. LastNames(middlewares, 1) = SubSeq(middlewares, 1, Len(middlewares))
      BY DEF LastNames
    <3> QED BY <3>1, <3>2
  <2> QED BY <1>1, <2>2, <2>3
<1> QED BY <1>2, <1>12

\* Routes with the same key match the same requests.
Matches(route, method, request) == route.method = method /\ PathMatches(route.path, request)

\* The route a request finds is the one whose key came first of those that match, and its handler
\* the last that key was given.
LEMMA FoundIs ==
  ASSUME RouterInv, NEW method, NEW request
  PROVE  IF Match(method, request) = 0 THEN Matching(method, request) = {}
         ELSE /\ Matching(method, request) # {} /\ Match(method, request) \in 1..Len(routes)
              /\ routes[Match(method, request)].handler = LastFor(FirstPath(Matching(method, request)))
<1> DEFINE S == Matching(method, request)
           I == {i \in 1..Len(routes) : Matches(routes[i], method, request)}
           found == Match(method, request)
<1>1. /\ Len(routes) \in Nat /\ Len(added) \in Nat /\ DOMAIN added = 1..Len(added)
      /\ EveryKeyIsKept /\ InOrderOfFirstUse /\ LastHandlerIsKept
  BY DEF RouterInv, RouterTypes
<1>2. found = IF I # {} THEN Min(I) ELSE 0
  BY DEF Match, SelectInSeq, Matches
<1>3. S = {k \in 1..Len(added) : Matches(added[k], method, request)}
  BY <1>1 DEF Matching, Matches
<1>4. \A a, b : SameKey(a, b) => (Matches(a, method, request) <=> Matches(b, method, request))
  BY DEF SameKey, Matches
<1> HIDE DEF Matches
<1>5. CASE I = {}
  <2>1. ASSUME NEW k \in S PROVE FALSE
    <3>1. PICK i \in 1..Len(routes) : SameKey(added[k], routes[i])
      BY <1>1, <1>3 DEF EveryKeyIsKept
    <3> QED BY <1>3, <1>4, <1>5, <3>1
  <2> QED BY <1>2, <1>5, <2>1
<1>6. CASE I # {}
  <2>1. I \in SUBSET Nat
    BY <1>1
  <2>2. found \in I /\ \A i \in I : found <= i
    <3> HIDE DEF I, found
    <3> QED BY <1>2, <1>6, <2>1, LeastIs
  <2>3. found \in 1..Len(routes) /\ Matches(routes[found], method, request) /\ found # 0
    BY <1>1, <2>2
  <2> HIDE DEF found, S
  <2>4. PICK last \in 1..Len(added) : /\ SameKey(added[last], routes[found]) /\ added[last].handler = routes[found].handler
                                      /\ \A j \in 1..Len(added) : SameKey(added[j], routes[found]) => j <= last
    BY <1>1, <2>3, Zenon DEF LastHandlerIsKept
  <2>5. last \in S /\ S # {} /\ S \in SUBSET Nat
    BY <1>1, <1>3, <1>4, <2>3, <2>4
  <2> DEFINE first == CHOOSE k \in S : \A j \in S : k <= j
  <2>6. first \in S /\ \A j \in S : first <= j
    <3>1. \E k \in S : \A j \in S : k <= j
      BY <2>5, LeastIs
    <3> QED BY <3>1, Zenon
  <2>7. FirstPath(S) = added[first]
    BY DEF FirstPath
  <2> HIDE DEF first
  <2>8. SameKey(added[first], routes[found])
    <3>1. first \in 1..Len(added) /\ Matches(added[first], method, request)
      BY <1>3, <2>6
    <3>2. PICK i \in 1..Len(routes) : SameKey(added[first], routes[i])
      BY <1>1, <3>1 DEF EveryKeyIsKept
    <3>3. i \in I /\ found <= i
      BY <1>4, <2>2, <3>1, <3>2
    <3>4. ASSUME found < i PROVE FALSE
      <4>1. PICK k \in 1..Len(added) : /\ SameKey(added[k], routes[found])
                                       /\ \A m \in 1..Len(added) : SameKey(added[m], routes[i]) => k < m
        BY <1>1, <2>3, <3>2, <3>4, Zenon DEF InOrderOfFirstUse
      <4>2. k < first /\ k \in S
        BY <1>3, <1>4, <2>3, <3>1, <3>2, <4>1
      <4> QED BY <1>1, <2>6, <3>1, <4>1, <4>2
    <3>5. found = i
      BY <1>1, <2>3, <3>2, <3>3, <3>4
    <3> QED BY <3>2, <3>5
  <2>9. LastFor(added[first]) = routes[found].handler
    <3> DEFINE Is(k) == /\ SameKey(added[k], added[first])
                        /\ \A j \in DOMAIN added : SameKey(added[j], added[first]) => j <= k
               chosen == CHOOSE k \in DOMAIN added : Is(k)
    <3>1. \A k : SameKey(added[k], added[first]) <=> SameKey(added[k], routes[found])
      BY <2>8, KeysAreEqual, Zenon
    <3>2. last \in DOMAIN added /\ Is(last)
      BY <1>1, <2>4, <3>1
    <3>3. chosen \in DOMAIN added /\ Is(chosen)
      <4> HIDE DEF Is
      <4> QED BY <3>2, Zenon
    <3> HIDE DEF chosen
    <3>4. chosen <= last /\ last <= chosen
      BY <1>1, <2>4, <3>1, <3>2, <3>3
    <3>5. chosen = last
      BY <1>1, <3>2, <3>3, <3>4
    <3>6. LastFor(added[first]) = added[chosen].handler
      BY DEF LastFor, chosen
    <3> QED BY <2>4, <3>5, <3>6
  <2> QED BY <2>3, <2>5, <2>7, <2>9 DEF S, found
<1> QED BY <1>5, <1>6

\* RouterAnswers in any state, for any step.
RightAnswer ==
  response' # response /\ response'.status # 400 =>
     LET S == Matching(response'.method, response'.path)
         n == Len(middlewares)
         trace == response'.trace
     IN  IF S = {} THEN response'.status = 404
         ELSE /\ trace[2 * n + 2] = LastFor(FirstPath(S))
              /\ \A k \in 1..n : /\ trace[2 * k - 1] = "in" /\ trace[2 * k] = middlewares[k]
                                 /\ trace[4 * n + 3 - 2 * k] = "out"
                                 /\ trace[4 * n + 4 - 2 * k] = middlewares[k]

LEMMA RouterStepAnswers == ASSUME RouterInv, [RouterNext]_routerVars PROVE RightAnswer
<1> SUFFICES ASSUME response' # response, response'.status # 400
             PROVE  LET S == Matching(response'.method, response'.path)
                        n == Len(middlewares)
                        trace == response'.trace
                    IN  IF S = {} THEN response'.status = 404
                        ELSE /\ trace[2 * n + 2] = LastFor(FirstPath(S))
                             /\ \A k \in 1..n : /\ trace[2 * k - 1] = "in" /\ trace[2 * k] = middlewares[k]
                                                /\ trace[4 * n + 3 - 2 * k] = "out"
                                                /\ trace[4 * n + 4 - 2 * k] = middlewares[k]
  BY DEF RightAnswer
<1>1. PICK method \in Method, request \in RequestPaths, json \in BOOLEAN : Dispatch(method, request, json)
  BY DEF RouterNext, routerVars, AddRoute, Use
<1> DEFINE found == Match(method, request)
           handler == routes[found].handler
<1>2. json
  BY <1>1 DEF Dispatch
<1>3. response' = IF found = 0 THEN [status |-> 404, method |-> method, path |-> request, trace |-> <<>>]
                  ELSE [status |-> 200, method |-> method, path |-> request, trace |-> Wrap(handler)]
  BY <1>1, <1>2 DEF Dispatch
<1>4. CASE found = 0
  <2>1. Matching(method, request) = {}
    BY <1>4, FoundIs
  <2> QED BY <1>3, <1>4, <2>1
<1>5. CASE found # 0
  <2>1. /\ Matching(method, request) # {} /\ found \in 1..Len(routes)
        /\ handler = LastFor(FirstPath(Matching(method, request)))
    BY <1>5, FoundIs
  <2>2. handler \in RouteHandler /\ middlewares \in Seq(MiddlewareName)
    <3>1. routes \in Seq(RouteOf)
      BY DEF RouterInv, RouterTypes
    <3>2. routes[found] \in RouteOf
      BY <2>1, <3>1
    <3> QED BY <3>2 DEF RouteOf, RouterInv, RouterTypes
  <2> HIDE DEF found, handler
  <2>3. Traced(Wrap(handler), middlewares, handler)
    BY <2>2, WrapIs
  <2>4. response'.method = method /\ response'.path = request /\ response'.trace = Wrap(handler)
    BY <1>3, <1>5
  <2> QED BY <2>1, <2>3, <2>4 DEF Traced
<1> QED BY <1>4, <1>5

\* A dispatch answers with the route registered first of those that match, with its last handler,
\* inside the middlewares, for any methods, paths, handlers, middlewares and number of routes.
THEOREM RouterGivesTheRightAnswer == RouterSpec => RouterAnswers
<1>1. RouterInit => RouterInv
  BY RouterInitially
<1>2. RouterInv /\ [RouterNext]_routerVars => RouterInv'
  BY RouterNextKeeps
<1>3. RouterInv /\ [RouterNext]_routerVars => [RightAnswer]_routerVars
  BY RouterStepAnswers
<1>4. RouterSpec => [][RightAnswer]_routerVars
  BY <1>1, <1>2, <1>3, PTL DEF RouterSpec
<1> QED BY <1>4 DEF RouterAnswers, RightAnswer
=============================================================================
