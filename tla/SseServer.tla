------------------------------ MODULE SseServer ------------------------------
(***************************************************************************)
(* SSEServer of sse_server.py: _dispatch walks the list of clients and     *)
(* awaits between two of them, while the handlers of the clients append    *)
(* and remove.  The walk is an index into the list that is changing under  *)
(* it.  Heartbeats are events like others.                                 *)
(***************************************************************************)
EXTENDS Integers, Sequences, SequencesExt

CONSTANTS Client, MaxEvents

VARIABLES clients, broker, published,
          handlerAt,                       \* client -> where _handle_client is
          lost,                            \* clients whose connection is gone
          dispatchAt, event, writer, index, dead,  \* _dispatch: its place and its locals
          received, leaked                 \* leaked: writers that were never closed
sseVars == <<clients, broker, published, handlerAt, lost, dispatchAt, event, writer, index, dead, received, leaked>>

SseInit ==
  /\ clients = <<>> /\ broker = <<>> /\ published = 0
  /\ handlerAt = [c \in Client |-> "new"] /\ lost = {}
  /\ dispatchAt = "get" /\ event = 0 /\ writer = 0 /\ index = 0 /\ dead = <<>>
  /\ received = [c \in Client |-> <<>>] /\ leaked = {}

Broadcast ==
  /\ published < MaxEvents
  /\ published' = published + 1
  /\ broker' = Append(broker, published + 1)
  /\ UNCHANGED <<clients, handlerAt, lost, dispatchAt, event, writer, index, dead, received, leaked>>

Appended(c) == Append(clients, c)
HandleClient(c) ==
  /\ handlerAt[c] = "new"
  /\ handlerAt' = [handlerAt EXCEPT ![c] = "read"]
  /\ clients' = Appended(c)
  /\ UNCHANGED <<broker, published, lost, dispatchAt, event, writer, index, dead, received, leaked>>

LoseConnection(c) ==
  /\ handlerAt[c] = "read" /\ c \notin lost
  /\ lost' = lost \cup {c}
  /\ UNCHANGED <<clients, broker, published, handlerAt, dispatchAt, event, writer, index, dead, received, leaked>>

Removed(list, c) == RemoveFirst(list, c)

\* readline returned nothing.  When _dispatch removed the writer before, remove raises
\* ValueError and the writer is not closed.
EndOfClient(c) ==
  /\ handlerAt[c] = "read" /\ c \in lost
  /\ handlerAt' = [handlerAt EXCEPT ![c] = "ended"]
  /\ clients' = Removed(clients, c)
  /\ leaked' = IF Contains(clients, c) THEN leaked ELSE leaked \cup {c}
  /\ UNCHANGED <<broker, published, lost, dispatchAt, event, writer, index, dead, received>>

\* The loop over the dead writers has no await.  The handler may have removed one of them:
\* ValueError ends the task, the writers before it are gone.
RemoveDead(gone) ==
  IF \A k \in DOMAIN gone : Contains(clients, gone[k])
  THEN clients' = FoldLeft(Removed, clients, gone) /\ dispatchAt' = "get"
  ELSE LET first == SelectInSeq(gone, LAMBDA c : ~Contains(clients, c))
       IN  clients' = FoldLeft(Removed, clients, SubSeq(gone, 1, first - 1)) /\ dispatchAt' = "crashed"

\* _dispatch from one await to the next: a turn of the loop up to its drain, or the end of the walk.
Turn(i, gone) ==
  \/ /\ i <= Len(clients)
     /\ writer' = clients[i] /\ index' = i + 1 /\ dead' = gone
     /\ received' = IF clients[i] \in lost THEN received
                    ELSE [received EXCEPT ![clients[i]] = Append(@, event')]
     /\ dispatchAt' = "drain"
     /\ UNCHANGED clients
  \/ /\ i > Len(clients)
     /\ RemoveDead(gone)
     /\ UNCHANGED <<writer, index, dead, received>>

GetEvent ==
  /\ dispatchAt = "get" /\ broker # <<>>
  /\ event' = Head(broker) /\ broker' = Tail(broker)
  /\ Turn(1, <<>>)
  /\ UNCHANGED <<published, handlerAt, lost, leaked>>

\* drain comes back, or raises when the connection was lost by then.
Drained ==
  /\ dispatchAt = "drain" /\ event' = event
  /\ Turn(index, IF writer \in lost THEN Append(dead, writer) ELSE dead)
  /\ UNCHANGED <<broker, published, handlerAt, lost, leaked>>

SseNext == \/ Broadcast \/ GetEvent \/ Drained
           \/ \E c \in Client : HandleClient(c) \/ LoseConnection(c) \/ EndOfClient(c)
SseSpec == SseInit /\ [][SseNext]_sseVars
----------------------------------------------------------------------------
\* However the list changes during the walk, a client gets no event twice and none out of
\* order.  (It can miss one: a removal before the index moves it past the next client.)
EventsInOrder == \A c \in Client : \A k \in 1..(Len(received[c]) - 1) : received[c][k] < received[c][k + 1]

\* A client that goes away is detected and the others are served on: the dispatcher outlives
\* it.  The code's answer is no.
DispatcherSurvives == dispatchAt # "crashed"
=============================================================================
