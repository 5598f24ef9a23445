-------------------------------- MODULE SseHub --------------------------------
(***************************************************************************)
(* Live updates (internal/sse/hub.go): publishers, which are handlers and  *)
(* workers, put messages into the buffered channels of the streams of a    *)
(* ticket's watchers and assignee; each stream is a handler that writes    *)
(* what it receives to its client until the client goes or the server      *)
(* shuts down (cmd/servicedesk/main.go:172-185).                           *)
(*                                                                         *)
(* The critical sections of subscribe and cancel are one action each,      *)
(* possible while the mutex is free; Publish holds it over one send per    *)
(* channel.                                                                *)
(***************************************************************************)
EXTENDS Naturals, Sequences, FiniteSets

CONSTANTS
  Viewers,      \* users with a stream
  Streams,      \* requests to /events, a channel each
  UserOf,       \* [Streams -> Viewers]
  Publishers,   \* goroutines that publish
  Nobody,       \* no publisher holds the mutex
  Capacity,     \* of a channel, 16 in the code
  MaxMessages   \* bound on publications

ASSUME HubAssumption ==
  /\ UserOf \in [Streams -> Viewers]
  /\ Nobody \notin Publishers
  /\ Capacity \in Nat \ {0} /\ MaxMessages \in Nat

VARIABLES
  stage,        \* [Streams -> how far the handler is]
  subscribers,  \* the streams in the map
  buffer,       \* [Streams -> the channel's messages, by publication]
  last,         \* [Streams -> the last message taken from the channel]
  closed,       \* channels that are closed
  client,       \* [Streams -> what the other end does]
  pub,          \* [Publishers -> what it is doing]
  mutex,        \* the publisher that holds it
  published,    \* messages so far
  closing       \* has Hub.Close been called?

stream == <<stage, buffer, last>>
hubVars == <<stage, subscribers, buffer, last, closed, client, pub, mutex, published, closing>>

Stages == {"new", "open", "writing", "left", "cancelled", "done"}
Message == Nat \ {0}
Publisher == [pc : {"idle", "asked", "sending"}, to : SUBSET Viewers, todo : SUBSET Streams]
IdlePublisher == [pc |-> "idle", to |-> {}, todo |-> {}]

HubInit ==
  /\ stage = [s \in Streams |-> "new"]
  /\ subscribers = {}
  /\ buffer = [s \in Streams |-> <<>>]
  /\ last = [s \in Streams |-> 0]
  /\ closed = {}
  /\ client = [s \in Streams |-> "reading"]
  /\ pub = [p \in Publishers |-> IdlePublisher]
  /\ mutex = Nobody
  /\ published = 0
  /\ closing = FALSE

-----------------------------------------------------------------------------
(* Handler: subscribe, under the mutex.                                   *)
Subscribe(s) ==
  /\ stage[s] = "new" /\ mutex = Nobody
  /\ stage' = [stage EXCEPT ![s] = "open"]
  /\ subscribers' = subscribers \union {s}
  /\ UNCHANGED <<buffer, last, closed, client, pub, mutex, published, closing>>

(* The select: a message, ...                                             *)
Receive(s) ==
  /\ stage[s] = "open" /\ buffer[s] # <<>>
  /\ stage' = [stage EXCEPT ![s] = "writing"]
  /\ last' = [last EXCEPT ![s] = Head(buffer[s])]
  /\ buffer' = [buffer EXCEPT ![s] = Tail(@)]
  /\ UNCHANGED <<subscribers, closed, client, pub, mutex, published, closing>>

(* ... the ticker, ...                                                    *)
KeepAlive(s) ==
  /\ stage[s] = "open"
  /\ stage' = [stage EXCEPT ![s] = "writing"]
  /\ UNCHANGED <<subscribers, buffer, last, closed, client, pub, mutex, published, closing>>

(* cancel closes the channel before it takes the mutex.                    *)
LeaveFaulty(s) ==
  /\ stage[s] = "open" /\ (client[s] = "gone" \/ closing)
  /\ stage' = [stage EXCEPT ![s] = "left"]
  /\ closed' = closed \union {s}
  /\ UNCHANGED <<subscribers, buffer, last, client, pub, mutex, published, closing>>

(* The closing case of the select is gone.                                 *)
LeaveOpenFaulty(s) ==
  /\ stage[s] = "open" /\ client[s] = "gone"
  /\ stage' = [stage EXCEPT ![s] = "left"]
  /\ UNCHANGED <<subscribers, buffer, last, closed, client, pub, mutex, published, closing>>

(* ... the request's context or the closing channel.                      *)
Leave(s) ==
  /\ stage[s] = "open" /\ (client[s] = "gone" \/ closing)
  /\ stage' = [stage EXCEPT ![s] = "left"]
  /\ UNCHANGED <<subscribers, buffer, last, closed, client, pub, mutex, published, closing>>

(* Fprintf and Flush return: the client took it, or the connection is gone. *)
Written(s) ==
  /\ stage[s] = "writing" /\ client[s] # "stalled"
  /\ stage' = [stage EXCEPT ![s] = "open"]
  /\ UNCHANGED <<subscribers, buffer, last, closed, client, pub, mutex, published, closing>>

(* cancel: out of the map under the mutex, ...                            *)
Unsubscribe(s) ==
  /\ stage[s] = "left" /\ mutex = Nobody
  /\ stage' = [stage EXCEPT ![s] = "cancelled"]
  /\ subscribers' = subscribers \ {s}
  /\ UNCHANGED <<buffer, last, closed, client, pub, mutex, published, closing>>

(* ... and closed without it.                                             *)
CloseChannel(s) ==
  /\ stage[s] = "cancelled"
  /\ stage' = [stage EXCEPT ![s] = "done"]
  /\ closed' = closed \union {s}
  /\ UNCHANGED <<subscribers, buffer, last, client, pub, mutex, published, closing>>

(* The other end of the connection: it may stop reading, read on, or go.  *)
ClientMoves(s) ==
  /\ client[s] # "gone"
  /\ \E c \in {"reading", "stalled", "gone"} \ {client[s]} :
       client' = [client EXCEPT ![s] = c]
  /\ UNCHANGED <<stream, subscribers, closed, pub, mutex, published, closing>>

-----------------------------------------------------------------------------
(* Publish: watchers and assignee are read, whoever they are by now, ...  *)
Recipients(p) ==
  /\ pub[p].pc = "idle"
  /\ published + Cardinality({q \in Publishers : pub[q].pc = "asked"}) < MaxMessages
  /\ \E us \in SUBSET Viewers :
       pub' = [pub EXCEPT ![p] = [pc |-> "asked", to |-> us, todo |-> {}]]
  /\ UNCHANGED <<stream, subscribers, closed, client, mutex, published, closing>>

(* A publisher does not wait for the mutex.                                *)
LockFaulty(p) ==
  /\ pub[p].pc = "asked"
  /\ mutex' = p
  /\ published' = published + 1
  /\ pub' = [pub EXCEPT ![p].pc = "sending",
                        ![p].todo = {s \in subscribers : UserOf[s] \in pub[p].to}]
  /\ UNCHANGED <<stream, subscribers, closed, client, closing>>

(* ... the mutex is taken, ...                                            *)
Lock(p) ==
  /\ pub[p].pc = "asked" /\ mutex = Nobody
  /\ mutex' = p
  /\ published' = published + 1
  /\ pub' = [pub EXCEPT ![p].pc = "sending",
                        ![p].todo = {s \in subscribers : UserOf[s] \in pub[p].to}]
  /\ UNCHANGED <<stream, subscribers, closed, client, closing>>

(* ... and each channel gets the message if it has room for it.           *)
Deliver(s) ==
  IF Len(buffer[s]) < Capacity THEN [buffer EXCEPT ![s] = Append(@, published)] ELSE buffer

(* The default case of the send is gone: it waits for room.                *)
SendFaulty(p) ==
  /\ pub[p].pc = "sending"
  /\ \E s \in pub[p].todo :
       /\ Len(buffer[s]) < Capacity
       /\ buffer' = [buffer EXCEPT ![s] = Append(@, published)]
       /\ pub' = [pub EXCEPT ![p].todo = @ \ {s}]
  /\ UNCHANGED <<stage, last, subscribers, closed, client, mutex, published, closing>>

Send(p) ==
  /\ pub[p].pc = "sending"
  /\ \E s \in pub[p].todo :
       /\ buffer' = Deliver(s)
       /\ pub' = [pub EXCEPT ![p].todo = @ \ {s}]
  /\ UNCHANGED <<stage, last, subscribers, closed, client, mutex, published, closing>>

Unlock(p) ==
  /\ pub[p].pc = "sending" /\ pub[p].todo = {}
  /\ mutex' = Nobody
  /\ pub' = [pub EXCEPT ![p] = IdlePublisher]
  /\ UNCHANGED <<stream, subscribers, closed, client, published, closing>>

(* Hub.Close, called once, before the drain.                              *)
Close ==
  /\ ~closing
  /\ closing' = TRUE
  /\ UNCHANGED <<stream, subscribers, closed, client, pub, mutex, published>>

(* The handler and the publisher on their own; HubNext adds the choices.  *)
Serve(s) == Written(s) \/ Unsubscribe(s) \/ CloseChannel(s)
Publish(p) == Lock(p) \/ Send(p) \/ Unlock(p)

HubNext ==
  \/ \E s \in Streams :
       \/ Subscribe(s) \/ Receive(s) \/ KeepAlive(s) \/ Leave(s)
       \/ Serve(s) \/ ClientMoves(s)
  \/ \E p \in Publishers : Recipients(p) \/ Publish(p)
  \/ Close

HubSpec == HubInit /\ [][HubNext]_hubVars

(* Goroutines run, and get the mutex when it stays free (as publications   *)
(* are bounded it does).  A select that finds the same case ready again    *)
(* and again takes it at last, as it picks among the ready at random.      *)
FairSpec ==
  /\ HubSpec
  /\ \A s \in Streams : WF_hubVars(Serve(s)) /\ SF_hubVars(Leave(s))
  /\ \A p \in Publishers : WF_hubVars(Publish(p))

-----------------------------------------------------------------------------
(* Every variable keeps its type, and no buffer outgrows its channel.      *)
HubTypeOK ==
  /\ stage \in [Streams -> Stages]
  /\ subscribers \subseteq Streams
  /\ buffer \in [Streams -> Seq(Message)]
  /\ \A s \in Streams : Len(buffer[s]) <= Capacity
  /\ last \in [Streams -> Nat]
  /\ closed \subseteq Streams
  /\ client \in [Streams -> {"reading", "stalled", "gone"}]
  /\ pub \in [Publishers -> Publisher]
  /\ mutex \in Publishers \union {Nobody}
  /\ published \in Nat
  /\ closing \in BOOLEAN

(* No publisher is about to send on a closed channel, which would panic,   *)
(* though channels are closed outside the mutex (hub.go:58-67, :83-92).    *)
NoSendOnClosed ==
  \A p \in Publishers : pub[p].todo \intersect closed = {}

(* A stream sees messages in the order in which they were published and    *)
(* none twice, with gaps where it was too slow (hub.go:83-92, :126-130).   *)
InOrder ==
  \A s \in Streams :
    /\ \A i \in 1 .. Len(buffer[s]) : last[s] < buffer[s][i]
    /\ \A i, j \in 1 .. Len(buffer[s]) : i < j => buffer[s][i] < buffer[s][j]

(* Publishing returns, whatever the streams' clients do: nobody waits for  *)
(* a slow consumer (hub.go:87-91).                                         *)
PublishReturns ==
  \A p \in Publishers : pub[p].pc # "idle" ~> pub[p].pc = "idle"

(* Once the hub is closed every stream ends and leaves the map, unless its *)
(* handler is stuck in a write to a client that does not read              *)
(* (hub.go:40-44).                                                         *)
Drains ==
  \A s \in Streams :
    closing /\ stage[s] # "new" ~> stage[s] = "done" \/ client[s] = "stalled"
=============================================================================
