------------------------ MODULE MessageCenter_proofs ------------------------
(***************************************************************************)
(* Proofs about MessageCenter, for any clients, messages and pipes.        *)
(*                                                                         *)
(* The IDs: the listener numbers the clients in the order it accepts them, *)
(* so there are as many IDs as receivers were asked for, and every message *)
(* and response carries one that the map knows, next to the right client.  *)
(* The two pipes between listener and application: the application never   *)
(* makes two responses of one message, and the listener looks for one      *)
(* after each message it forwards, so what is between the two is never     *)
(* more than a pipe holds and two messages.                                *)
(*                                                                         *)
(* The way up: the pipe and the hand of the listener, the pipe and the     *)
(* hand of each receiver, and the socket hold the messages of a client in  *)
(* the order it wrote them, after the last one the application has seen.   *)
(* No process drops one unless somebody has left or was disconnected.  The *)
(* way back is the same for responses, which answer what was seen, in its  *)
(* order.                                                                  *)
(***************************************************************************)
EXTENDS MessageCenterProperties, SequenceTheorems, FiniteSetTheorems, TLAPS

Known(i, c) == i \in DOMAIN clientMap /\ clientMap[i] = c

(* Messages and responses that name the right client.                      *)
Sent(c)    == {m \in Message : m.from = c}
Entry      == {e \in [id : IDs, msg : Message] : Known(e.id, e.msg.from)}
Reply      == {r \in Response : Known(r.id, r.to)}
ReplyTo(c) == {r \in Reply : r.to = c}

Queues == {f \in [Clients -> Seq(Message)] :
              \A c \in Clients : f[c] \in Seq(Sent(c))}

(* The processes and the client map.                                       *)
Plain ==
    /\ client \in [Clients -> {"out", "in", "left"}]
    /\ receiver \in [Clients -> {"none", "refused", "reads", "polls", "ended"}]
    /\ stopping \in [Clients -> BOOLEAN]
    /\ listener \in {"accepts", "forwards", "returns"}
    /\ working \subseteq Clients /\ unnoticed \subseteq Clients
    /\ pendingExit \subseteq Clients
    /\ clientMap \in [DOMAIN clientMap -> Clients]
    /\ sent \in [Clients -> 0 .. MaxSends]

Begun(c) == receiver[c] \in {"reads", "polls", "ended"}
Spawned == {c \in Clients : receiver[c] # "none"}
MapInv  == /\ lastID = Cardinality(Spawned)
           /\ DOMAIN clientMap \subseteq 1 .. lastID
           /\ \A c \in working : Begun(c)
           /\ \A c \in Clients :
                 Begun(c) => \E i \in DOMAIN clientMap : clientMap[i] = c

UpInv == /\ toServer \in Queues /\ up \in Queues
         /\ held \in [Clients -> AtMostOne(Message)]
         /\ \A c \in Clients : held[c] \in AtMostOne(Sent(c))
         /\ upHand \in AtMostOne(Entry) /\ upApp \in Seq(Entry)
         /\ got \in [Clients -> 0 .. MaxSends]

DownInv == /\ down \in [Clients -> Seq(Response)]
           /\ \A c \in Clients : down[c] \in Seq(ReplyTo(c))
           /\ downHand \in AtMostOne(Reply) /\ downApp \in Seq(Reply)
           /\ app \in AtMostOne(Reply)
           /\ answered \in [Clients -> 0 .. MaxSends]

(* Messages and responses between the listener and the application.        *)
InTransit == Len(upApp) + Len(upHand) + Len(downApp) + Len(app)
Traffic   == /\ Len(upApp) <= PipeCapacity
             /\ InTransit <= PipeCapacity + 2
             /\ listener # "returns" => InTransit <= PipeCapacity + 1

IInv == Plain /\ MapInv /\ UpInv /\ DownInv

USE CenterAssumption
-----------------------------------------------------------------------------
(* Sequences over a larger set, and the pieces of one.                     *)
LEMMA SeqGrows ==
    ASSUME NEW S, NEW T, S \subseteq T
    PROVE  Seq(S) \subseteq Seq(T) /\ AtMostOne(S) \subseteq AtMostOne(T)
  BY DEF AtMostOne

LEMMA OneOrNone ==
    ASSUME NEW S, NEW x \in S
    PROVE  <<x>> \in AtMostOne(S) /\ <<>> \in AtMostOne(S)
  BY DEF AtMostOne

LEMMA ClientCount ==
    ASSUME Plain
    PROVE  /\ Cardinality(Clients) \in Nat /\ IsFiniteSet(Spawned)
           /\ Cardinality(Spawned) \in 0 .. Cardinality(Clients)
           /\ \A c \in Clients \ Spawned :
                 /\ Cardinality(Spawned \cup {c}) = Cardinality(Spawned) + 1
                 /\ Cardinality(Spawned) + 1 \in 1 .. Cardinality(Clients)
<1>1. Spawned \subseteq Clients
  BY DEF Spawned
<1>2. IsFiniteSet(Spawned) /\ Cardinality(Spawned) \in Nat
      /\ Cardinality(Clients) \in Nat /\ Cardinality(Spawned) <= Cardinality(Clients)
  BY <1>1, FS_Subset, FS_CardinalityType
<1>3. ASSUME NEW c \in Clients \ Spawned
      PROVE  /\ Cardinality(Spawned \cup {c}) = Cardinality(Spawned) + 1
             /\ Cardinality(Spawned \cup {c}) <= Cardinality(Clients)
  <2>1. Spawned \cup {c} \subseteq Clients
    BY <1>1
  <2> QED
    BY <1>2, <2>1, FS_AddElement, FS_Subset
<1> QED
  BY <1>2, <1>3

LEMMA TypesFollow == IInv => TypeOK
<1> SUFFICES ASSUME IInv PROVE TypeOK
  OBVIOUS
<1>1. lastID \in 0 .. Cardinality(Clients) /\ DOMAIN clientMap \subseteq IDs
  BY ClientCount DEF IInv, MapInv, IDs
<1>2. Entry \subseteq [id : IDs, msg : Message] /\ Reply \subseteq Response
  BY DEF Entry, Reply
<1>3. /\ upHand \in AtMostOne([id : IDs, msg : Message])
      /\ upApp \in Seq([id : IDs, msg : Message])
      /\ downHand \in AtMostOne(Response) /\ downApp \in Seq(Response)
      /\ app \in AtMostOne(Response)
  BY <1>2, SeqGrows DEF IInv, UpInv, DownInv
<1>4. clientMap \in UNION {[S -> Clients] : S \in SUBSET IDs}
  BY <1>1 DEF IInv, Plain
<1> QED
  BY <1>1, <1>3, <1>4 DEF IInv, Plain, UpInv, DownInv, Queues, TypeOK

-----------------------------------------------------------------------------
(* What may be done to the queues of the clients.                          *)
LEMMA QueuePut ==
    ASSUME NEW q \in Queues, NEW c \in Clients, NEW m \in Sent(c)
    PROVE  Put(q, c, m) \in Queues
<1>1. Append(q[c], m) \in Seq(Sent(c)) /\ Append(q[c], m) \in Seq(Message)
  BY AppendProperties DEF Queues, Sent
<1> QED
  BY <1>1 DEF Queues, Put

LEMMA QueueTake ==
    ASSUME NEW q \in Queues, NEW c \in Clients, q[c] # <<>>
    PROVE  Take(q, c) \in Queues /\ Head(q[c]) \in Sent(c)
<1>1. /\ Head(q[c]) \in Sent(c)
      /\ Tail(q[c]) \in Seq(Sent(c)) /\ Tail(q[c]) \in Seq(Message)
  BY HeadTailProperties DEF Queues
<1> QED
  BY <1>1 DEF Queues, Take

LEMMA QueueCut ==
    ASSUME NEW q \in Queues, NEW c \in Clients, NEW k \in 1 .. Len(q[c])
    PROVE  /\ [q EXCEPT ![c] = SubSeq(@, k + 1, Len(@))] \in Queues
           /\ [q EXCEPT ![c] = <<>>] \in Queues
           /\ q[c][1] \in Sent(c) /\ q[c][k] \in Sent(c)
<1>1. q[c] \in Seq(Sent(c)) /\ q[c] \in Seq(Message)
  BY DEF Queues
<1>2. k + 1 \in 1 .. Len(q[c]) + 1 /\ Len(q[c]) \in Nat /\ 1 \in 1 .. Len(q[c])
  BY <1>1, LenProperties
<1>3. /\ SubSeq(q[c], k + 1, Len(q[c])) \in Seq(Sent(c))
      /\ SubSeq(q[c], k + 1, Len(q[c])) \in Seq(Message)
  BY <1>1, <1>2, SubSeqProperties
<1>4. q[c][1] \in Sent(c) /\ q[c][k] \in Sent(c)
  BY <1>1, <1>2, ElementOfSeq
<1>5. <<>> \in Seq(Sent(c)) /\ <<>> \in Seq(Message)
  OBVIOUS
<1> QED
  BY <1>3, <1>4, <1>5 DEF Queues

(* Without a new client the IDs mean what they meant.                      *)
LEMMA SameIDs ==
    ASSUME clientMap' = clientMap
    PROVE  /\ Entry' = Entry /\ Reply' = Reply
           /\ \A c \in Clients : ReplyTo(c)' = ReplyTo(c)
  BY DEF Entry, Reply, ReplyTo, Known

-----------------------------------------------------------------------------
(***************************************************************************)
(* The processes and the map.  Only a new receiver changes the map, and    *)
(* the other steps end a receiver or leave it one.                         *)
(***************************************************************************)
LEMMA SpawnKeepsMap ==
    ASSUME Plain, MapInv, NEW c \in Clients, SpawnReceiver(c)
    PROVE  /\ Plain' /\ MapInv'
           /\ \A i \in DOMAIN clientMap : i \in DOMAIN clientMap'
                                         /\ clientMap'[i] = clientMap[i]
<1>1. /\ receiver[c] = "none" /\ c \notin Spawned /\ lastID' = lastID + 1
      /\ lastID = Cardinality(Spawned) /\ lastID \in Nat
      /\ DOMAIN clientMap \subseteq 1 .. lastID
  BY ClientCount DEF SpawnReceiver, Waiting, Spawned, MapInv
<1>2. PICK r \in {"reads", "ended", "refused"} :
         /\ receiver' = [receiver EXCEPT ![c] = r]
         /\ r # "refused" => clientMap' = Mapped(c) /\ working' = working \cup {c}
         /\ r = "refused" => clientMap' = clientMap /\ working' = working
  BY DEF SpawnReceiver, ReceiverEnds
<1>3. Spawned' = Spawned \cup {c}
  BY <1>2 DEF Spawned, Plain
<1>4. lastID' = Cardinality(Spawned')
  BY <1>1, <1>3, ClientCount
<1>5. Plain'
  BY <1>1, <1>2 DEF Plain, SpawnReceiver, Mapped, clientVars
<1>6. /\ \A i \in DOMAIN clientMap : /\ i \in DOMAIN clientMap'
                                      /\ clientMap'[i] = clientMap[i]
      /\ DOMAIN clientMap' \subseteq 1 .. lastID'
  <2>1. CASE clientMap' = clientMap
    BY <1>1, <2>1
  <2>2. CASE clientMap' = Mapped(c)
    <3>1. lastID + 1 \notin DOMAIN clientMap /\ lastID + 1 \in 1 .. lastID + 1
          /\ 1 .. lastID \subseteq 1 .. lastID + 1
      BY <1>1
    <3>2. /\ DOMAIN clientMap' = DOMAIN clientMap \cup {lastID + 1}
          /\ \A i \in DOMAIN clientMap : i # lastID + 1 =>
                clientMap'[i] = clientMap[i]
      BY <2>2 DEF Mapped
    <3> QED
      BY <1>1, <3>1, <3>2
  <2> QED
    BY <1>2, <2>1, <2>2
<1>7. ASSUME NEW d \in Clients, Begun(d)'
      PROVE  \E i \in DOMAIN clientMap' : clientMap'[i] = d
  <2>1. CASE d # c
    BY <1>2, <1>6, <1>7, <2>1 DEF Plain, MapInv, Begun
  <2>2. CASE d = c /\ clientMap' = Mapped(c)
    BY <2>2 DEF Mapped
  <2>3. CASE d = c /\ receiver'[c] = "refused"
    BY <1>7, <2>3 DEF Begun
  <2> QED
    BY <1>2, <2>1, <2>2, <2>3 DEF Plain
<1>8. \A d \in working' : Begun(d)'
  BY <1>1, <1>2 DEF Plain, MapInv, Begun
<1> QED
  BY <1>4, <1>5, <1>6, <1>7, <1>8 DEF MapInv

LEMMA MapRests ==
    ASSUME Plain, MapInv, Plain', UNCHANGED <<lastID, clientMap>>,
           working' \subseteq working,
           \A c \in Clients : receiver'[c] = receiver[c] \/ (Begun(c) /\ Begun(c)')
    PROVE  MapInv'
<1>1. Spawned' = Spawned
  BY DEF Spawned, Begun
<1> QED
  BY <1>1 DEF MapInv, Begun, Plain

LEMMA NextMap ==
    ASSUME IInv, [Next]_vars
    PROVE  /\ Plain' /\ MapInv'
           /\ \A i \in DOMAIN clientMap : i \in DOMAIN clientMap'
                                         /\ clientMap'[i] = clientMap[i]
<1> USE DEF IInv
<1>1. ASSUME NEW c \in Clients, SpawnReceiver(c)
      PROVE  /\ Plain' /\ MapInv'
             /\ \A i \in DOMAIN clientMap : i \in DOMAIN clientMap'
                                           /\ clientMap'[i] = clientMap[i]
  BY <1>1, SpawnKeepsMap
<1> SUFFICES ASSUME \A c \in Clients : ~SpawnReceiver(c)
             PROVE  Plain' /\ MapInv' /\ clientMap' = clientMap
  BY <1>1
<1>2. ASSUME NEW c \in Clients, ClientStep(c)
      PROVE  Plain' /\ UNCHANGED <<lastID, clientMap, receiver, working>>
  <2>1. UNCHANGED <<lastID, clientMap, receiver, working, stopping, listener,
                    unnoticed, pendingExit>>
    BY <1>2 DEF ClientStep, Connect, Write, Leave, receiverVars, listenerVars,
                managerVars
  <2>2. client' \in [Clients -> {"out", "in", "left"}]
    BY <1>2 DEF ClientStep, Connect, Write, Leave, Plain
  <2>3. sent' \in [Clients -> 0 .. MaxSends]
    <3>1. sent[c] < MaxSends => sent[c] + 1 \in 0 .. MaxSends
      BY DEF Plain
    <3> QED
      BY <1>2, <3>1 DEF ClientStep, Connect, Write, Leave, Plain
  <2> QED
    BY <2>1, <2>2, <2>3 DEF Plain
<1>3. ASSUME NEW c \in Clients, ReceiverStep(c)
      PROVE  /\ Plain' /\ UNCHANGED <<lastID, clientMap, working>>
             /\ Begun(c) /\ Begun(c)'
             /\ \A d \in Clients : d # c => receiver'[d] = receiver[d]
  <2>1. PICK r \in {"reads", "polls", "ended"} :
           receiver' = [receiver EXCEPT ![c] = r]
    BY <1>3 DEF ReceiverStep, ReadSocket, PassToListener, ReadPipe, ReceiverEnds,
                receiverVars, Plain
  <2>2. receiver[c] \in {"reads", "polls"}
    BY <1>3 DEF ReceiverStep, ReadSocket, PassToListener, ReadPipe
  <2>3. UNCHANGED <<client, sent, stopping, listener, working, unnoticed,
                    pendingExit, clientMap, lastID>>
    BY <1>3 DEF ReceiverStep, ReadSocket, PassToListener, ReadPipe, clientVars,
                listenerVars, managerVars
  <2> QED
    BY <2>1, <2>2, <2>3 DEF Plain, Begun
<1>4. ASSUME NEW c \in Clients, Reap(c)
      PROVE  Plain' /\ UNCHANGED <<lastID, clientMap, receiver>>
             /\ working' \subseteq working
  BY <1>4 DEF Reap, Plain, clientVars, receiverVars, listenerVars
<1>5. CASE ReturnResponse
  <2>1. UNCHANGED <<client, sent, lastID, clientMap, working, unnoticed>>
        /\ listener' = "accepts"
    BY <1>5 DEF ReturnResponse, clientVars
  <2>2. \/ UNCHANGED <<receiver, stopping, pendingExit>>
        \/ /\ downApp # <<>>
           /\ Stopped(clientMap[Head(downApp).id])
    BY <1>5 DEF ReturnResponse
  <2>3. ASSUME downApp # <<>>, NEW c, c = clientMap[Head(downApp).id], Stopped(c)
        PROVE  Plain' /\ MapInv'
    <3>1. c \in Clients
      <4>1. Head(downApp) \in Reply
        BY <2>3, HeadTailProperties DEF DownInv
      <4> QED
        BY <2>3, <4>1 DEF Reply, Known, Plain
    <3>2. /\ stopping' \in [Clients -> BOOLEAN] /\ pendingExit' \subseteq Clients
          /\ receiver' = receiver
             \/ (c \in working /\ receiver' = [receiver EXCEPT ![c] = "ended"]
                  /\ held[c] # <<>>)
      BY <2>3, <3>1 DEF Stopped, ReceiverEnds, Plain
    <3>3. Plain'
      BY <2>1, <3>1, <3>2 DEF Plain
    <3>4. \A d \in Clients : receiver'[d] = receiver[d] \/ (Begun(d) /\ Begun(d)')
      BY <3>1, <3>2 DEF Plain, MapInv, Begun
    <3> QED
      BY <2>1, <3>3, <3>4, MapRests
  <2>4. ASSUME UNCHANGED <<receiver, stopping, pendingExit>> PROVE Plain' /\ MapInv'
    <3>1. Plain'
      BY <2>1, <2>4 DEF Plain
    <3> QED
      BY <2>1, <2>4, <3>1, MapRests
  <2> QED
    BY <2>1, <2>2, <2>3, <2>4
<1>6. CASE NoConnection \/ NothingToForward \/ PassToApplication \/ PassToReceiver
           \/ (\E c \in Clients : Forward(c)) \/ AppStep \/ UNCHANGED vars
  <2>1. UNCHANGED <<client, sent, receiver, stopping, working, unnoticed,
                    pendingExit, lastID, clientMap>>
        /\ listener' \in {listener, "forwards", "returns"}
    BY <1>6 DEF NoConnection, NothingToForward, PassToApplication, PassToReceiver,
       Forward, Forwarded, AppStep, GetNextMessage, SendResponse, vars, clientVars,
       receiverVars, listenerVars, managerVars
  <2>2. Plain'
    BY <2>1 DEF Plain
  <2> QED
    BY <2>1, <2>2, MapRests
<1> QED
  BY <1>2, <1>3, <1>4, <1>5, <1>6, MapRests DEF Next, ListenerStep

-----------------------------------------------------------------------------
(***************************************************************************)
(* The way up.  IDs already given keep their meaning, so it is enough that *)
(* a step puts nothing wrong into a buffer for the IDs as they were.       *)
(***************************************************************************)
LEMMA IDsStay ==
    ASSUME \A i \in DOMAIN clientMap : i \in DOMAIN clientMap'
                                      /\ clientMap'[i] = clientMap[i]
    PROVE  /\ Entry \subseteq Entry' /\ Reply \subseteq Reply'
           /\ \A c \in Clients : ReplyTo(c) \subseteq ReplyTo(c)'
  BY DEF Entry, Reply, ReplyTo, Known

UpNext == /\ toServer' \in Queues /\ up' \in Queues
          /\ held' \in [Clients -> AtMostOne(Message)]
          /\ \A c \in Clients : held'[c] \in AtMostOne(Sent(c))
          /\ upHand' \in AtMostOne(Entry) /\ upApp' \in Seq(Entry)
          /\ got' \in [Clients -> 0 .. MaxSends]

LEMMA ReceivedIsSent ==
    ASSUME UpInv, NEW c \in Clients, NEW k \in 1 .. Len(toServer[c])
    PROVE  Received(c, k) \in Sent(c)
<1>1. toServer[c][1] \in Sent(c) /\ toServer[c][k] \in Sent(c)
  BY QueueCut DEF UpInv
<1> QED
  BY <1>1 DEF Received, Sent, Message

LEMMA ForwardedEntry ==
    ASSUME Plain, MapInv, UpInv, NEW c \in working, up[c] # <<>>
    PROVE  [id |-> IDOf(c), msg |-> Head(up[c])] \in Entry
<1>1. Head(up[c]) \in Message /\ Head(up[c]).from = c
  BY QueueTake DEF UpInv, Sent, Plain
<1>2. \E i \in DOMAIN clientMap : clientMap[i] = c
  BY DEF MapInv, Plain
<1>3. IDOf(c) \in DOMAIN clientMap /\ clientMap[IDOf(c)] = c
  BY <1>2 DEF IDOf
<1>4. IDOf(c) \in IDs
  BY <1>3, ClientCount DEF MapInv, IDs
<1> QED
  BY <1>1, <1>3, <1>4 DEF Entry, Known

LEMMA UpKeeps ==
    ASSUME IInv, [Next]_vars
    PROVE  UpNext
<1> USE DEF IInv
<1>1. ASSUME NEW c \in Clients, Write(c) PROVE UpNext
  <2>1. [from |-> c, first |-> sent[c] + 1, last |-> sent[c] + 1] \in Sent(c)
    <3>1. sent[c] + 1 \in Number
      BY <1>1 DEF Write, Number, Plain
    <3> QED
      BY <3>1 DEF Sent, Message
  <2> QED
    BY <1>1, <2>1, QueuePut DEF Write, UpInv, UpNext, receiverVars, handVars, appVars
<1>2. ASSUME NEW c \in Clients, Leave(c) PROVE UpNext
  <2>1. [toServer EXCEPT ![c] = <<>>] \in Queues
    <3>1. <<>> \in Seq(Sent(c)) /\ <<>> \in Seq(Message)
      OBVIOUS
    <3> QED
      BY <3>1 DEF UpInv, Queues
  <2> QED
    BY <1>2, <2>1 DEF Leave, UpInv, UpNext, receiverVars, handVars, appVars
<1>3. ASSUME NEW c \in Clients, ReadSocket(c) PROVE UpNext
  <2>1. UNCHANGED <<upHand, upApp, got>>
    BY <1>3 DEF ReadSocket, handVars, appVars
  <2>2. ASSUME NEW k \in 1 .. Len(toServer[c]), WriteUp(c, Received(c, k)),
               toServer' = [toServer EXCEPT ![c] = SubSeq(@, k + 1, Len(@))]
        PROVE  UpNext
    <3>1. toServer' \in Queues
      BY <2>2, QueueCut DEF UpInv
    <3>2. Received(c, k) \in Sent(c) /\ Received(c, k) \in Message
      BY ReceivedIsSent DEF Sent
    <3>3. up' \in Queues
      BY <2>2, <3>2, QueuePut DEF WriteUp, UpInv
    <3>4. /\ held' \in [Clients -> AtMostOne(Message)]
          /\ \A d \in Clients : held'[d] \in AtMostOne(Sent(d))
      BY <2>2, <3>2 DEF WriteUp, UpInv, AtMostOne
    <3> QED
      BY <2>1, <3>1, <3>3, <3>4 DEF UpNext, UpInv
  <2>3. ASSUME UNCHANGED <<toServer, held, up>> PROVE UpNext
    BY <2>1, <2>3 DEF UpInv, UpNext
  <2> QED
    BY <1>3, <2>2, <2>3 DEF ReadSocket
<1>4. ASSUME NEW c \in Clients, PassToListener(c) PROVE UpNext
  <2>1. held[c][1] \in Sent(c)
    BY <1>4 DEF PassToListener, UpInv, AtMostOne
  <2>2. up' \in Queues
    BY <1>4, <2>1, QueuePut DEF PassToListener, UpInv
  <2>3. /\ held' \in [Clients -> AtMostOne(Message)]
        /\ \A d \in Clients : held'[d] \in AtMostOne(Sent(d))
    BY <1>4 DEF PassToListener, UpInv, AtMostOne
  <2> QED
    BY <1>4, <2>2, <2>3 DEF PassToListener, UpInv, UpNext, handVars, appVars
<1>5. ASSUME NEW c \in Clients, Forward(c) PROVE UpNext
  <2>1. UNCHANGED <<toServer, held, got>>
    BY <1>5 DEF Forward, receiverVars, appVars
  <2>2. CASE up[c] = <<>>
    BY <1>5, <2>1, <2>2 DEF Forward, UpInv, UpNext
  <2>3. CASE up[c] # <<>>
    <3>1. PICK e \in Entry : WriteToApplication(e)
      BY <1>5, <2>3, ForwardedEntry DEF Forward, Ready
    <3>2. up' \in Queues
      BY <1>5, <2>3, QueueTake DEF Forward, UpInv
    <3>3. upHand' \in AtMostOne(Entry) /\ upApp' \in Seq(Entry)
      <4>1. Append(upApp, e) \in Seq(Entry) /\ <<e>> \in AtMostOne(Entry)
        BY <3>1, AppendProperties, OneOrNone DEF UpInv
      <4> QED
        BY <3>1, <4>1 DEF WriteToApplication, UpInv
    <3> QED
      BY <2>1, <3>2, <3>3 DEF UpInv, UpNext
  <2> QED
    BY <2>2, <2>3
<1>6. CASE PassToApplication
  <2>1. upHand[1] \in Entry
    BY <1>6 DEF PassToApplication, UpInv, AtMostOne
  <2>2. upApp' \in Seq(Entry) /\ upHand' \in AtMostOne(Entry)
    BY <1>6, <2>1, AppendProperties DEF PassToApplication, UpInv, AtMostOne
  <2> QED
    BY <1>6, <2>2 DEF PassToApplication, UpInv, UpNext, receiverVars, appVars
<1>7. ASSUME NEW c \in Clients, Reap(c) PROVE UpNext
  BY <1>7 DEF Reap, UpInv, UpNext, AtMostOne, receiverVars, appVars
<1>8. CASE GetNextMessage
  <2>1. Head(upApp) \in Entry /\ Tail(upApp) \in Seq(Entry)
    BY <1>8, HeadTailProperties DEF GetNextMessage, UpInv
  <2>2. Head(upApp).msg \in Message /\ Head(upApp).msg.last \in 0 .. MaxSends
    BY <2>1 DEF Entry, Message, Number
  <2>3. got' \in [Clients -> 0 .. MaxSends]
    BY <1>8, <2>2 DEF GetNextMessage, UpInv
  <2> QED
    BY <1>8, <2>1, <2>3 DEF GetNextMessage, UpInv, UpNext, receiverVars, handVars
<1>9. ASSUME UNCHANGED <<toServer, up, held, upHand, upApp, got>> PROVE UpNext
  BY <1>9 DEF UpInv, UpNext
<1>10. ASSUME NEW c \in Clients, Connect(c) \/ ReadPipe(c) \/ SpawnReceiver(c)
       PROVE  UpNext
  BY <1>9, <1>10 DEF Connect, ReadPipe, SpawnReceiver, receiverVars, handVars, appVars
<1>11. CASE NoConnection \/ NothingToForward \/ ReturnResponse \/ PassToReceiver
            \/ SendResponse \/ UNCHANGED vars
  BY <1>9, <1>11 DEF NoConnection, NothingToForward, ReturnResponse, PassToReceiver,
     SendResponse, vars, receiverVars, handVars, appVars
<1> QED
  BY <1>1, <1>2, <1>3, <1>4, <1>5, <1>6, <1>7, <1>8, <1>10, <1>11
     DEF Next, ClientStep, ReceiverStep, ListenerStep, AppStep

-----------------------------------------------------------------------------
(***************************************************************************)
(* The way down.                                                           *)
(***************************************************************************)
DownNext == /\ down' \in [Clients -> Seq(Response)]
            /\ \A c \in Clients : down'[c] \in Seq(ReplyTo(c))
            /\ downHand' \in AtMostOne(Reply) /\ downApp' \in Seq(Reply)
            /\ app' \in AtMostOne(Reply)
            /\ answered' \in [Clients -> 0 .. MaxSends]

LEMMA DownPut ==
    ASSUME DownInv, NEW r \in Reply, down' = Put(down, clientMap[r.id], r)
    PROVE  /\ down' \in [Clients -> Seq(Response)]
           /\ \A c \in Clients : down'[c] \in Seq(ReplyTo(c))
<1>1. clientMap[r.id] = r.to /\ r.to \in Clients /\ r \in ReplyTo(r.to)
      /\ r \in Response
  BY DEF Reply, ReplyTo, Response, Known
<1>2. /\ Append(down[r.to], r) \in Seq(ReplyTo(r.to))
      /\ Append(down[r.to], r) \in Seq(Response)
  BY <1>1, AppendProperties DEF DownInv
<1> QED
  BY <1>1, <1>2 DEF DownInv, Put

LEMMA DownKeeps ==
    ASSUME IInv, [Next]_vars
    PROVE  DownNext
<1> USE DEF IInv
<1>1. ASSUME NEW c \in Clients, ReadPipe(c) PROVE DownNext
  <2>1. UNCHANGED <<downHand, downApp, app>>
    BY <1>1 DEF ReadPipe, handVars, appVars
  <2>2. ASSUME UNCHANGED <<answered, down>> PROVE DownNext
    BY <2>1, <2>2 DEF DownInv, DownNext
  <2>3. ASSUME down[c] # <<>>, down' = Take(down, c), AnswerClient(c) PROVE DownNext
    <3>1. /\ Head(down[c]) \in Response /\ Tail(down[c]) \in Seq(Response)
          /\ Tail(down[c]) \in Seq(ReplyTo(c))
      BY <2>3, HeadTailProperties DEF DownInv
    <3>2. Head(down[c]).n \in 0 .. MaxSends
      BY <3>1 DEF Response, Number
    <3>3. /\ down' \in [Clients -> Seq(Response)]
          /\ \A d \in Clients : down'[d] \in Seq(ReplyTo(d))
      BY <2>3, <3>1 DEF DownInv, Take
    <3>4. answered' \in [Clients -> 0 .. MaxSends]
      BY <2>3, <3>2 DEF AnswerClient, DownInv
    <3> QED
      BY <2>1, <3>3, <3>4 DEF DownInv, DownNext
  <2> QED
    BY <1>1, <2>2, <2>3 DEF ReadPipe
<1>2. CASE ReturnResponse
  <2>1. UNCHANGED <<app, answered>>
    BY <1>2 DEF ReturnResponse, appVars, clientVars
  <2>2. ASSUME downApp = <<>> \/ Head(downApp).kind = "disconnect" PROVE DownNext
    <3>1. UNCHANGED <<down, downHand>>
      BY <1>2, <2>2 DEF ReturnResponse
    <3>2. downApp' \in Seq(Reply)
      BY <1>2, <2>2, HeadTailProperties DEF ReturnResponse, DownInv
    <3> QED
      BY <2>1, <3>1, <3>2 DEF DownInv, DownNext
  <2>3. ASSUME downApp # <<>>, Head(downApp).kind # "disconnect" PROVE DownNext
    <3>1. PICK r \in Reply : WriteDown(r)
      BY <1>2, <2>3, HeadTailProperties DEF ReturnResponse, DownInv
    <3>2. downApp' \in Seq(Reply)
      BY <1>2, <2>3, HeadTailProperties DEF ReturnResponse, DownInv
    <3>3. /\ UNCHANGED down \/ down' = Put(down, clientMap[r.id], r)
          /\ UNCHANGED downHand \/ downHand' = <<r>>
      BY <3>1 DEF WriteDown
    <3>4. downHand' \in AtMostOne(Reply)
      BY <3>3 DEF DownInv, AtMostOne
    <3> QED
      BY <2>1, <3>2, <3>3, <3>4, DownPut DEF DownInv, DownNext
  <2> QED
    BY <2>2, <2>3
<1>3. CASE PassToReceiver
  <2>1. downHand[1] \in Reply
    BY <1>3 DEF PassToReceiver, DownInv, AtMostOne
  <2>2. UNCHANGED down \/ down' = Put(down, clientMap[downHand[1].id], downHand[1])
    BY <1>3 DEF PassToReceiver
  <2>3. /\ down' \in [Clients -> Seq(Response)]
        /\ \A c \in Clients : down'[c] \in Seq(ReplyTo(c))
    BY <2>1, <2>2, DownPut DEF DownInv
  <2> QED
    BY <1>3, <2>3 DEF PassToReceiver, DownInv, DownNext, AtMostOne, appVars, clientVars
<1>4. ASSUME NEW c \in Clients, Reap(c) PROVE DownNext
  BY <1>4 DEF Reap, DownInv, DownNext, AtMostOne, appVars, clientVars
<1>5. CASE GetNextMessage
  <2>1. UNCHANGED <<down, downHand, answered>>
    BY <1>5 DEF GetNextMessage, clientVars, handVars
  <2>2. PICK e \in Entry : e = Head(upApp)
    BY <1>5, HeadTailProperties DEF GetNextMessage, UpInv
  <2>3. ASSUME NEW k \in {"answer", "disconnect"}
        PROVE  [kind |-> k, id |-> e.id, to |-> e.msg.from, n |-> e.msg.last] \in Reply
    BY DEF Entry, Reply, Response, Message, Known
  <2>4. \/ UNCHANGED <<downApp, app>>
        \/ \E r \in Reply : WriteToListener(r)
    BY <1>5, <2>2, <2>3 DEF GetNextMessage
  <2>5. downApp' \in Seq(Reply) /\ app' \in AtMostOne(Reply)
    <3>1. ASSUME NEW r \in Reply, WriteToListener(r)
          PROVE  downApp' \in Seq(Reply) /\ app' \in AtMostOne(Reply)
      <4>1. Append(downApp, r) \in Seq(Reply) /\ <<r>> \in AtMostOne(Reply)
        BY <3>1, AppendProperties, OneOrNone DEF DownInv
      <4> QED
        BY <3>1, <4>1 DEF WriteToListener, DownInv
    <3> QED
      BY <2>4, <3>1 DEF DownInv
  <2> QED
    BY <2>1, <2>5 DEF DownInv, DownNext
<1>6. CASE SendResponse
  <2>1. app[1] \in Reply
    BY <1>6 DEF SendResponse, DownInv, AtMostOne
  <2>2. downApp' \in Seq(Reply) /\ app' \in AtMostOne(Reply)
    BY <1>6, <2>1, AppendProperties DEF SendResponse, DownInv, AtMostOne
  <2> QED
    BY <1>6, <2>2 DEF SendResponse, DownInv, DownNext, clientVars, handVars
<1>7. ASSUME UNCHANGED <<down, downHand, downApp, app, answered>> PROVE DownNext
  BY <1>7 DEF DownInv, DownNext
<1>8. ASSUME NEW c \in Clients, ClientStep(c) \/ ReadSocket(c) \/ PassToListener(c)
                                \/ SpawnReceiver(c) \/ Forward(c)
      PROVE  DownNext
  BY <1>7, <1>8 DEF ClientStep, Connect, Write, Leave, ReadSocket, PassToListener,
     SpawnReceiver, Forward, clientVars, handVars, appVars
<1>9. CASE NoConnection \/ NothingToForward \/ PassToApplication \/ UNCHANGED vars
  BY <1>7, <1>9 DEF NoConnection, NothingToForward, PassToApplication, vars,
     clientVars, handVars, appVars
<1> QED
  BY <1>1, <1>2, <1>3, <1>4, <1>5, <1>6, <1>8, <1>9
     DEF Next, ReceiverStep, ListenerStep, AppStep

LEMMA NextInv == IInv /\ [Next]_vars => IInv'
<1> SUFFICES ASSUME IInv, [Next]_vars PROVE IInv'
  OBVIOUS
<1>1. /\ Entry \subseteq Entry' /\ Reply \subseteq Reply'
      /\ \A c \in Clients : ReplyTo(c) \subseteq ReplyTo(c)'
  BY NextMap, IDsStay
<1>2. UpInv'
  <2>1. Seq(Entry) \subseteq Seq(Entry') /\ AtMostOne(Entry) \subseteq AtMostOne(Entry')
    BY <1>1, SeqGrows
  <2> QED
    BY <2>1, UpKeeps DEF UpInv, UpNext
<1>3. DownInv'
  <2>1. Seq(Reply) \subseteq Seq(Reply') /\ AtMostOne(Reply) \subseteq AtMostOne(Reply')
    BY <1>1, SeqGrows
  <2>2. \A c \in Clients : Seq(ReplyTo(c)) \subseteq Seq(ReplyTo(c)')
    BY <1>1, SeqGrows
  <2> QED
    BY <2>1, <2>2, DownKeeps DEF DownInv, DownNext
<1> QED
  BY <1>2, <1>3, NextMap DEF IInv

LEMMA InitInv == Init => IInv
<1> SUFFICES ASSUME Init PROVE IInv
  OBVIOUS
<1>1. Spawned = {} /\ Cardinality(Spawned) = 0
  BY FS_EmptySet DEF Init, Spawned
<1>2. DOMAIN clientMap = {}
  BY DEF Init
<1>3. Plain
  BY <1>2 DEF Init, Plain
<1>4. MapInv
  BY <1>1, <1>2 DEF Init, MapInv, Begun
<1>5. \A c \in Clients : <<>> \in Seq(Sent(c)) /\ <<>> \in Seq(Message)
                        /\ <<>> \in Seq(ReplyTo(c)) /\ <<>> \in Seq(Response)
  OBVIOUS
<1>6. UpInv
  <2>1. toServer \in Queues /\ up \in Queues
    BY <1>5 DEF Init, Queues
  <2>2. upHand \in AtMostOne(Entry) /\ upApp \in Seq(Entry)
    BY DEF Init, AtMostOne
  <2>3. /\ held \in [Clients -> AtMostOne(Message)]
        /\ \A c \in Clients : held[c] \in AtMostOne(Sent(c))
    BY DEF Init, AtMostOne
  <2> QED
    BY <2>1, <2>2, <2>3 DEF Init, UpInv
<1>7. DownInv
  BY <1>5 DEF Init, DownInv, AtMostOne
<1> QED
  BY <1>3, <1>4, <1>6, <1>7 DEF IInv

(* The inductive invariant: there are as many IDs as receivers were asked  *)
(* for, every receiver that came to be has one, and whatever is on its way *)
(* is with the ID of the client it comes from or goes to.                  *)
THEOREM IDsCorrect == Spec => []IInv
  BY InitInv, NextInv, PTL DEF Spec

(* TypeOK: every variable keeps its type.                                  *)
THEOREM TypeCorrect == Spec => []TypeOK
  BY IDsCorrect, TypesFollow, PTL

-----------------------------------------------------------------------------
(***************************************************************************)
(* Between the listener and the application.                               *)
(***************************************************************************)
LEMMA Counts ==
    ASSUME IInv
    PROVE  /\ Len(upApp) \in Nat /\ Len(downApp) \in Nat
           /\ Len(upHand) \in 0 .. 1 /\ Len(app) \in 0 .. 1
           /\ (upHand = <<>> <=> Len(upHand) = 0) /\ (app = <<>> <=> Len(app) = 0)
           /\ PipeCapacity \in Nat \ {0}
           /\ InTransit \in Nat
<1>1. Len(upApp) \in Nat /\ Len(downApp) \in Nat
  BY LenProperties DEF IInv, UpInv, DownInv
<1>2. Len(upHand) \in 0 .. 1 /\ (upHand = <<>> <=> Len(upHand) = 0)
  BY DEF IInv, UpInv, AtMostOne
<1>3. Len(app) \in 0 .. 1 /\ (app = <<>> <=> Len(app) = 0)
  BY DEF IInv, DownInv, AtMostOne
<1> QED
  BY <1>1, <1>2, <1>3 DEF InTransit

LEMMA CountsNext ==
    ASSUME IInv'
    PROVE  /\ Len(upApp') \in Nat /\ Len(downApp') \in Nat
           /\ Len(upHand') \in 0 .. 1 /\ Len(app') \in 0 .. 1
           /\ InTransit' \in Nat
<1>1. Len(upApp') \in Nat /\ Len(downApp') \in Nat
  BY LenProperties DEF IInv, UpInv, DownInv
<1>2. Len(upHand') \in 0 .. 1
  BY DEF IInv, UpInv, AtMostOne
<1>3. Len(app') \in 0 .. 1
  BY DEF IInv, DownInv, AtMostOne
<1> QED
  BY <1>1, <1>2, <1>3 DEF InTransit

LEMMA InitTraffic == Init => Traffic
  BY DEF Init, Traffic, InTransit

LEMMA NextTraffic == IInv /\ IInv' /\ Traffic /\ [Next]_vars => Traffic'
<1> SUFFICES ASSUME IInv, IInv', Traffic, [Next]_vars PROVE Traffic'
  OBVIOUS
<1>1. ASSUME NEW c \in Clients, Forward(c) PROVE Traffic'
  <2>1. listener = "forwards" /\ listener' = "returns" /\ upHand = <<>>
        /\ UNCHANGED <<downApp, app>>
    BY <1>1 DEF Forward, Forwarded, AtTask, HandsFree, appVars
  <2>2. ASSUME UNCHANGED <<upApp, upHand>> PROVE Traffic'
    BY <2>1, <2>2, Counts DEF Traffic, InTransit
  <2>3. ASSUME NEW e, WriteToApplication(e) PROVE Traffic'
    <3>1. \/ Len(upApp) < PipeCapacity /\ Len(upApp') = Len(upApp) + 1
             /\ Len(upHand') = Len(upHand)
          \/ Len(upApp') = Len(upApp) /\ Len(upHand') = 1
      BY <2>3 DEF WriteToApplication, HasRoom, IInv, UpInv
    <3>2. Len(upHand) = 0 /\ Len(downApp') = Len(downApp) /\ Len(app') = Len(app)
      BY <2>1, Counts
    <3>3. InTransit <= PipeCapacity + 1 /\ Len(upApp) <= PipeCapacity
      BY <2>1 DEF Traffic
    <3>4. Len(upApp') <= PipeCapacity
      BY <3>1, <3>3, Counts, CountsNext
    <3>5. Len(upApp') + Len(upHand') = Len(upApp) + 1
      <4>1. CASE Len(upApp') = Len(upApp) + 1 /\ Len(upHand') = Len(upHand)
        BY <3>2, <4>1, Counts
      <4>2. CASE Len(upApp') = Len(upApp) /\ Len(upHand') = 1
        BY <4>2, Counts
      <4> QED
        BY <3>1, <4>1, <4>2
    <3>6. InTransit = Len(upApp) + Len(downApp) + Len(app)
      BY <3>2, Counts DEF InTransit
    <3>7. InTransit' = Len(upApp) + 1 + Len(downApp) + Len(app)
      BY <3>2, <3>5, Counts, CountsNext DEF InTransit
    <3>8. InTransit' <= PipeCapacity + 2
      BY <3>3, <3>6, <3>7, Counts
    <3> QED
      BY <2>1, <3>4, <3>8 DEF Traffic
  <2> QED
    BY <1>1, <2>2, <2>3 DEF Forward
<1>2. CASE PassToApplication
  <2>1. Len(upHand) = 1 /\ upHand' = <<>> /\ UNCHANGED <<downApp, app, listener>>
        /\ Len(upApp) < PipeCapacity
    BY <1>2, Counts DEF PassToApplication, HasRoom, listenerVars, appVars
  <2>2. Len(upApp') = Len(upApp) + 1
    BY <1>2 DEF PassToApplication, IInv, UpInv
  <2> QED
    BY <2>1, <2>2, Counts DEF Traffic, InTransit
<1>3. CASE ReturnResponse
  <2>1. listener = "returns" /\ listener' = "accepts" /\ upHand = <<>>
        /\ UNCHANGED <<upApp, upHand, app>>
    BY <1>3 DEF ReturnResponse, AtTask, HandsFree, appVars
  <2>2. CASE downApp = <<>>
    <3>1. downApp' = downApp /\ Len(downApp) = 0
      BY <1>3, <2>2 DEF ReturnResponse
    <3>2. InTransit = Len(upApp) + Len(app) /\ InTransit' = InTransit
      BY <2>1, <3>1, Counts DEF InTransit
    <3>3. Len(upApp) <= PipeCapacity
      BY DEF Traffic
    <3>4. InTransit <= PipeCapacity + 1 /\ InTransit <= PipeCapacity + 2
      <4>1. PICK a \in 0 .. 1 : a = Len(app)
        BY Counts
      <4>2. PICK u \in Nat : u = Len(upApp)
        BY Counts
      <4>3. InTransit = u + a /\ u <= PipeCapacity /\ PipeCapacity \in Nat
        BY <3>2, <3>3, <4>1, <4>2, Counts
      <4>4. u + a <= PipeCapacity + 1 /\ u + a <= PipeCapacity + 2
        BY <4>3
      <4> QED
        BY <4>3, <4>4
    <3> QED
      BY <2>1, <3>2, <3>3, <3>4 DEF Traffic
  <2>3. CASE downApp # <<>>
    <3>1. Len(downApp') = Len(downApp) - 1
      BY <1>3, <2>3, HeadTailProperties DEF ReturnResponse, IInv, DownInv
    <3>2. /\ Len(upApp') = Len(upApp) /\ Len(upHand') = Len(upHand)
          /\ Len(app') = Len(app)
      BY <2>1
    <3>3. InTransit <= PipeCapacity + 2 /\ Len(upApp) <= PipeCapacity
      BY DEF Traffic
    <3>4. InTransit' <= PipeCapacity + 1 /\ Len(upApp') <= PipeCapacity
      BY <3>1, <3>2, <3>3, Counts, CountsNext DEF InTransit
    <3>5. InTransit' <= PipeCapacity + 2
      BY <3>4, Counts, CountsNext
    <3> QED
      BY <3>4, <3>5 DEF Traffic
  <2> QED
    BY <2>2, <2>3
<1>4. CASE GetNextMessage
  <2>1. Len(upApp') = Len(upApp) - 1 /\ app = <<>> /\ UNCHANGED <<upHand, listener>>
    BY <1>4, HeadTailProperties DEF GetNextMessage, IInv, UpInv, listenerVars, handVars
  <2>2. \/ UNCHANGED <<downApp, app>>
        \/ \E r : WriteToListener(r)
    BY <1>4 DEF GetNextMessage
  <2>3. Len(downApp') + Len(app') <= Len(downApp) + 1
    <3>1. ASSUME NEW r, WriteToListener(r)
          PROVE  Len(downApp') + Len(app') = Len(downApp) + 1
      <4>1. downApp \in Seq(Reply)
        BY DEF IInv, DownInv
      <4>2. CASE HasRoom(downApp)
        <5>1. downApp' = Append(downApp, r) /\ app' = app
          BY <3>1, <4>2 DEF WriteToListener
        <5>2. Len(downApp') = Len(downApp) + 1
          BY <4>1, <5>1
        <5> QED
          BY <2>1, <5>1, <5>2, Counts
      <4>3. CASE ~HasRoom(downApp)
        <5>1. app' = <<r>> /\ downApp' = downApp
          BY <3>1, <4>3 DEF WriteToListener
        <5> QED
          BY <5>1, Counts
      <4> QED
        BY <4>2, <4>3
    <3> QED
      BY <2>1, <2>2, <3>1, Counts
  <2> QED
    BY <2>1, <2>3, Counts DEF Traffic, InTransit
<1>5. CASE SendResponse
  <2>1. Len(app) = 1 /\ app' = <<>> /\ UNCHANGED <<upApp, upHand, listener>>
    BY <1>5, Counts DEF SendResponse, listenerVars, handVars
  <2>2. Len(downApp') = Len(downApp) + 1
    BY <1>5 DEF SendResponse, IInv, DownInv
  <2> QED
    BY <2>1, <2>2, Counts DEF Traffic, InTransit
<1>6. ASSUME NEW c \in Clients, Reap(c) PROVE Traffic'
  <2>1. UNCHANGED <<upApp, downApp, app, listener>> /\ Len(upHand') <= Len(upHand)
    BY <1>6, Counts DEF Reap, listenerVars, appVars
  <2> QED
    BY <2>1, Counts DEF Traffic, InTransit
<1>7. CASE NoConnection \/ NothingToForward \/ \E c \in Clients : SpawnReceiver(c)
  <2>1. UNCHANGED <<upApp, upHand, downApp, app>> /\ listener # "returns"
    BY <1>7 DEF NoConnection, NothingToForward, SpawnReceiver, AtTask, handVars, appVars
  <2> QED
    BY <2>1, Counts DEF Traffic, InTransit
<1>8. ASSUME UNCHANGED <<upApp, upHand, downApp, app, listener>> PROVE Traffic'
  BY <1>8 DEF Traffic, InTransit
<1>9. ASSUME NEW c \in Clients, ClientStep(c) \/ ReceiverStep(c) PROVE Traffic'
  BY <1>8, <1>9 DEF ClientStep, Connect, Write, Leave, ReceiverStep, ReadSocket,
     PassToListener, ReadPipe, listenerVars, handVars, appVars
<1>10. CASE PassToReceiver \/ UNCHANGED vars
  BY <1>8, <1>10 DEF PassToReceiver, vars, listenerVars, handVars, appVars
<1> QED
  BY <1>1, <1>2, <1>3, <1>4, <1>5, <1>6, <1>7, <1>9, <1>10
     DEF Next, ListenerStep, AppStep

(* Traffic: between the listener and the application there are never more  *)
(* messages than one pipe holds and two.                                   *)
THEOREM TrafficBounded == Spec => []Traffic
<1>1. IInv /\ Traffic /\ [Next]_vars => IInv' /\ Traffic'
  BY NextInv, NextTraffic
<1>2. Spec => [](IInv /\ Traffic)
  BY <1>1, InitInv, InitTraffic, PTL DEF Spec
<1> QED
  BY <1>2, PTL

(* NeverBothBlocked: of the listener and the application one can write.    *)
THEOREM NeverBothBlockedCorrect == Spec => []NeverBothBlocked
<1>1. IInv /\ Traffic => NeverBothBlocked
  BY Counts DEF Traffic, InTransit, NeverBothBlocked, Blocked, HasRoom
<1> QED
  BY <1>1, IDsCorrect, TrafficBounded, PTL

-----------------------------------------------------------------------------
(***************************************************************************)
(* Messages in their order.  What a receiver holds continues the pipe it   *)
(* writes to, and so does what the listener holds: of the five buffers on  *)
(* the way up there remain three, and a write that was blocked and goes on *)
(* changes none of them.                                                   *)
(***************************************************************************)
Aloft == upApp \o upHand
Joined(u, h) == [c \in Clients |-> u[c] \o h[c]]
Held  == Joined(up, held)
Taken == [c \in Clients |-> sent[c] - Len(toServer[c])]

Item    == [id : IDs, msg : Message]
Counter == [Clients -> 0 .. MaxSends]

(* x: what is between listener and application; y: between each receiver   *)
(* and the listener; g: the last message of each client the application    *)
(* has seen; t: the last one its receiver has read.                        *)
Within(m, g, t) == g[m.from] < m.first /\ m.first <= m.last /\ m.last <= t[m.from]
Flow(x, y, g, t) ==
    /\ \A i \in DOMAIN x : Within(x[i].msg, g, t)
    /\ \A i, j \in DOMAIN x :
          i < j /\ x[i].msg.from = x[j].msg.from => x[i].msg.last < x[j].msg.first
    /\ \A c \in Clients : \A i \in DOMAIN y[c] : Within(y[c][i], g, t)
    /\ \A c \in Clients : \A i, j \in DOMAIN y[c] :
          i < j => y[c][i].last < y[c][j].first
    /\ \A c \in Clients : \A i \in DOMAIN x, j \in DOMAIN y[c] :
          x[i].msg.from = c => x[i].msg.last < y[c][j].first
    /\ \A c \in Clients : g[c] <= t[c]

In(n, m) == m.first <= n /\ n <= m.last
Covers(x, y, c, n) == \/ \E i \in DOMAIN x : x[i].msg.from = c /\ In(n, x[i].msg)
                      \/ \E i \in DOMAIN y[c] : In(n, y[c][i])
Covered(x, y, g, t) ==
    \A c \in Clients : \A n \in Nat : g[c] < n /\ n <= t[c] => Covers(x, y, c, n)

(* What is in the socket are single messages, the last ones written.       *)
SocketInv ==
    \A c \in Clients :
        /\ Len(toServer[c]) <= sent[c]
        /\ \A i \in DOMAIN toServer[c] :
              /\ toServer[c][i].first = sent[c] - Len(toServer[c]) + i
              /\ toServer[c][i].last = sent[c] - Len(toServer[c]) + i

Quiet    == \A d \in Clients : receiver[d] # "ended" /\ client[d] # "left"
FlowInv  == SocketInv /\ Flow(Aloft, Held, got, Taken)
CoverInv == Quiet => Covered(Aloft, Held, got, Taken)

(* Where the elements are after a step.                                    *)
LEMMA Positions ==
    ASSUME NEW S, NEW s \in Seq(S)
    PROVE  /\ DOMAIN s = 1 .. Len(s) /\ Len(s) \in Nat
           /\ \A i \in DOMAIN s : s[i] \in S /\ i \in Nat
  BY LenProperties, ElementOfSeq

LEMMA AtAppend ==
    ASSUME NEW S, NEW s \in Seq(S), NEW e \in S
    PROVE  /\ Append(s, e) \in Seq(S)
           /\ \A i \in DOMAIN Append(s, e) :
                 \/ i \in DOMAIN s /\ Append(s, e)[i] = s[i]
                 \/ i = Len(s) + 1 /\ Append(s, e)[i] = e
           /\ \A i \in DOMAIN s : i \in DOMAIN Append(s, e) /\ i < Len(s) + 1
                                  /\ Append(s, e)[i] = s[i]
           /\ Len(s) + 1 \in DOMAIN Append(s, e)
           /\ Append(s, e)[Len(s) + 1] = e
<1>1. Append(s, e) \in Seq(S) /\ DOMAIN Append(s, e) = 1 .. Len(s) + 1
      /\ DOMAIN s = 1 .. Len(s) /\ Len(s) \in Nat
  BY Positions, AppendProperties
<1>2. Append(s, e)[Len(s) + 1] = e /\ \A i \in 1 .. Len(s) : Append(s, e)[i] = s[i]
  BY AppendProperties
<1> QED
  BY <1>1, <1>2

LEMMA AtTail ==
    ASSUME NEW S, NEW s \in Seq(S), s # <<>>
    PROVE  /\ Tail(s) \in Seq(S) /\ Head(s) \in S /\ Head(s) = s[1]
           /\ 1 \in DOMAIN s
           /\ \A i \in DOMAIN Tail(s) : /\ i \in Nat /\ i + 1 \in DOMAIN s /\ 1 < i + 1
                                        /\ Tail(s)[i] = s[i + 1]
           /\ \A i \in DOMAIN s : \/ i = 1
                                  \/ i - 1 \in DOMAIN Tail(s) /\ Tail(s)[i - 1] = s[i]
<1>1. /\ Tail(s) \in Seq(S) /\ Head(s) \in S /\ Len(Tail(s)) = Len(s) - 1
      /\ \A i \in 1 .. Len(Tail(s)) : Tail(s)[i] = s[i + 1]
  BY HeadTailProperties
<1>2. DOMAIN s = 1 .. Len(s) /\ Len(s) \in Nat /\ DOMAIN Tail(s) = 1 .. Len(Tail(s))
  BY <1>1, Positions
<1>3. Len(s) # 0
  BY EmptySeq
<1>4. Head(s) = s[1]
  OBVIOUS
<1> QED
  BY <1>1, <1>2, <1>3, <1>4

LEMMA FlowNumbers ==
    ASSUME NEW x \in Seq(Item), NEW y \in Queues,
           NEW g \in Counter, NEW t \in Counter
    PROVE  /\ \A i \in DOMAIN x : /\ x[i].msg \in Message /\ x[i].msg.from \in Clients
                                  /\ x[i].msg.first \in Nat /\ x[i].msg.last \in Nat
                                  /\ i \in Nat
           /\ \A c \in Clients : \A i \in DOMAIN y[c] :
                 /\ y[c][i] \in Message /\ y[c][i].from = c
                 /\ y[c][i].first \in Nat /\ y[c][i].last \in Nat /\ i \in Nat
           /\ \A c \in Clients : g[c] \in Nat /\ t[c] \in Nat
<1>1. \A m \in Message : m.from \in Clients /\ m.first \in Nat /\ m.last \in Nat
  BY DEF Message, Number
<1>2. \A i \in DOMAIN x : x[i] \in Item /\ i \in Nat
  BY Positions
<1>3. ASSUME NEW c \in Clients, NEW i \in DOMAIN y[c]
      PROVE  y[c][i] \in Sent(c) /\ i \in Nat
  BY Positions DEF Queues
<1>4. \A c \in Clients : g[c] \in Nat /\ t[c] \in Nat
  BY DEF Counter
<1> QED
  BY <1>1, <1>2, <1>3, <1>4 DEF Item, Sent

(* A receiver reads the messages after the last one it has read.           *)
LEMMA FlowRead ==
    ASSUME NEW x \in Seq(Item), NEW y \in Queues,
           NEW g \in Counter, NEW t \in Counter, NEW u \in Counter,
           NEW c \in Clients, NEW m \in Sent(c), Flow(x, y, g, t),
           m.first = t[c] + 1, m.first <= m.last,
           u = [t EXCEPT ![c] = m.last]
    PROVE  /\ Flow(x, Put(y, c, m), g, u)
           /\ Covered(x, y, g, t) => Covered(x, Put(y, c, m), g, u)
<1> DEFINE z == Put(y, c, m)
<1>1. y[c] \in Seq(Sent(c)) /\ z = [y EXCEPT ![c] = Append(y[c], m)]
      /\ z \in Queues
  BY QueuePut DEF Queues, Put
<1>2. z[c] = Append(y[c], m) /\ \A d \in Clients : d # c => z[d] = y[d]
  BY <1>1 DEF Queues
<1>3. u[c] = m.last /\ \A d \in Clients : d # c => u[d] = t[d]
  BY DEF Counter
<1>4. m \in Message /\ m.from = c
  BY DEF Sent
<1>5. /\ \A i \in DOMAIN z[c] : \/ i \in DOMAIN y[c] /\ z[c][i] = y[c][i]
                                \/ i = Len(y[c]) + 1 /\ z[c][i] = m
      /\ \A i \in DOMAIN y[c] : i \in DOMAIN z[c] /\ i < Len(y[c]) + 1
                                /\ z[c][i] = y[c][i]
      /\ Len(y[c]) + 1 \in DOMAIN z[c] /\ z[c][Len(y[c]) + 1] = m
  BY <1>1, <1>2, AtAppend
<1> HIDE DEF z
<1> USE FlowNumbers
<1>6. t[c] < u[c] /\ t[c] < m.first /\ g[c] <= t[c] /\ \A d \in Clients : t[d] <= u[d]
  <2>1. m.first \in Nat /\ m.last \in Nat
    BY <1>4 DEF Message, Number
  <2>2. g[c] <= t[c] /\ \A d \in Clients : t[d] \in Nat /\ g[d] \in Nat
    BY DEF Flow, Counter
  <2> QED
    BY <1>3, <2>1, <2>2
<1>7. ASSUME NEW n, Within(n, g, t), n \in Message PROVE Within(n, g, u)
  <2>1. n.from \in Clients /\ n.first \in Nat /\ n.last \in Nat
    BY <1>7 DEF Message, Number
  <2>2. u[n.from] \in Nat /\ t[n.from] \in Nat /\ t[n.from] <= u[n.from]
    BY <1>6, <2>1 DEF Counter
  <2> QED
    BY <1>7, <2>1, <2>2 DEF Within
<1>8. Within(m, g, u)
  <2>1. m.first \in Nat /\ m.last \in Nat /\ g[c] \in Nat /\ t[c] \in Nat
    BY <1>4 DEF Message, Number, Counter
  <2> QED
    BY <1>3, <1>4, <1>6, <2>1 DEF Within
<1>9. \A i \in DOMAIN x : Within(x[i].msg, g, u)
  BY <1>7 DEF Flow
<1>10. \A d \in Clients : \A i \in DOMAIN z[d] : Within(z[d][i], g, u)
  <2>1. ASSUME NEW d \in Clients, NEW i \in DOMAIN y[d] PROVE Within(y[d][i], g, u)
    <3>1. Within(y[d][i], g, t) /\ y[d][i] \in Message
      BY DEF Flow
    <3> QED
      BY <1>7, <3>1
  <2>2. \A i \in DOMAIN z[c] : Within(z[c][i], g, u)
    BY <1>5, <1>8, <2>1
  <2> QED
    BY <1>2, <2>1, <2>2
<1>11. ASSUME NEW d \in Clients, NEW i \in DOMAIN z[d], NEW j \in DOMAIN z[d], i < j
       PROVE  z[d][i].last < z[d][j].first
  <2>1. CASE d # c
    BY <1>2, <1>11, <2>1 DEF Flow
  <2>2. CASE d = c /\ j \in DOMAIN y[c]
    <3>1. i \in DOMAIN y[c]
      BY <1>5, <1>11, <2>2
    <3> QED
      BY <1>5, <1>11, <2>2, <3>1 DEF Flow
  <2>3. CASE d = c /\ j = Len(y[c]) + 1
    <3>1. i \in DOMAIN y[c] /\ z[c][i] = y[c][i] /\ z[c][j] = m
      BY <1>5, <1>11, <2>3
    <3>2. y[c][i].last <= t[c]
      BY <3>1 DEF Flow, Within
    <3> QED
      BY <1>6, <2>3, <3>1, <3>2, <1>4 DEF Message, Number
  <2> QED
    BY <1>5, <2>1, <2>2, <2>3
<1>12. ASSUME NEW d \in Clients, NEW i \in DOMAIN x, NEW j \in DOMAIN z[d],
              x[i].msg.from = d
       PROVE  x[i].msg.last < z[d][j].first
  <2>1. CASE d # c \/ j \in DOMAIN y[c]
    BY <1>2, <1>5, <1>12, <2>1 DEF Flow
  <2>2. CASE d = c /\ z[d][j] = m
    <3>1. x[i].msg.last <= t[c]
      BY <1>12, <2>2 DEF Flow, Within
    <3> QED
      BY <1>6, <2>2, <3>1, <1>4 DEF Message, Number
  <2> QED
    BY <1>5, <2>1, <2>2
<1>13. \A d \in Clients : g[d] <= u[d]
  BY <1>6 DEF Flow, Counter
<1>14. Flow(x, z, g, u)
  BY <1>9, <1>10, <1>11, <1>12, <1>13 DEF Flow
<1>15. ASSUME Covered(x, y, g, t), NEW d \in Clients, NEW n \in Nat, g[d] < n, n <= u[d]
       PROVE  Covers(x, z, d, n)
  <2>1. CASE n <= t[d]
    <3>1. Covers(x, y, d, n)
      BY <1>15, <2>1 DEF Covered
    <3> QED
      BY <1>2, <1>5, <3>1 DEF Covers
  <2>2. CASE ~(n <= t[d])
    <3>1. d = c /\ In(n, m)
      BY <1>3, <1>15, <2>2 DEF In
    <3> QED
      BY <1>5, <3>1 DEF Covers
  <2> QED
    BY <2>1, <2>2
<1> QED
  BY <1>14, <1>15 DEF Covered, z

(* A client breaks the connection: nobody will read what is in its socket. *)
LEMMA FlowBroken ==
    ASSUME NEW x \in Seq(Item), NEW y \in Queues,
           NEW g \in Counter, NEW t \in Counter, NEW u \in Counter,
           Flow(x, y, g, t), \A c \in Clients : t[c] <= u[c]
    PROVE  Flow(x, y, g, u)
<1> USE FlowNumbers
<1>1. ASSUME NEW n \in Message, Within(n, g, t) PROVE Within(n, g, u)
  <2>1. n.from \in Clients /\ n.first \in Nat /\ n.last \in Nat
    BY DEF Message, Number
  <2>2. u[n.from] \in Nat /\ t[n.from] \in Nat /\ t[n.from] <= u[n.from]
    BY <2>1 DEF Counter
  <2> QED
    BY <1>1, <2>1, <2>2 DEF Within
<1>2. \A i \in DOMAIN x : Within(x[i].msg, g, u)
  BY <1>1 DEF Flow
<1>3. \A c \in Clients : \A i \in DOMAIN y[c] : Within(y[c][i], g, u)
  BY <1>1 DEF Flow
<1>4. \A c \in Clients : g[c] <= u[c]
  BY DEF Flow, Counter
<1> QED
  BY <1>2, <1>3, <1>4 DEF Flow

(* The listener takes a message from a receiver's pipe.                    *)
LEMMA FlowForward ==
    ASSUME NEW x \in Seq(Item), NEW y \in Queues,
           NEW g \in Counter, NEW t \in Counter, NEW c \in Clients, NEW e \in Item,
           Flow(x, y, g, t), y[c] # <<>>, e.msg = Head(y[c])
    PROVE  /\ Flow(Append(x, e), Take(y, c), g, t)
           /\ Covered(x, y, g, t) => Covered(Append(x, e), Take(y, c), g, t)
<1> DEFINE z == Take(y, c)
           w == Append(x, e)
<1>1. y[c] \in Seq(Sent(c)) /\ z = [y EXCEPT ![c] = Tail(y[c])] /\ z \in Queues
      /\ w \in Seq(Item)
  BY QueueTake, AppendProperties DEF Queues, Take
<1>2. z[c] = Tail(y[c]) /\ \A d \in Clients : d # c => z[d] = y[d]
  BY <1>1 DEF Queues
<1>3. /\ \A i \in DOMAIN w : \/ i \in DOMAIN x /\ w[i] = x[i]
                             \/ i = Len(x) + 1 /\ w[i] = e
      /\ \A i \in DOMAIN x : i \in DOMAIN w /\ i < Len(x) + 1 /\ w[i] = x[i]
      /\ Len(x) + 1 \in DOMAIN w /\ w[Len(x) + 1] = e
  BY AtAppend
<1>4. /\ 1 \in DOMAIN y[c] /\ e.msg = y[c][1]
      /\ \A i \in DOMAIN z[c] : /\ i \in Nat /\ i + 1 \in DOMAIN y[c] /\ 1 < i + 1
                                /\ z[c][i] = y[c][i + 1]
      /\ \A i \in DOMAIN y[c] : \/ i = 1
                                \/ i - 1 \in DOMAIN z[c] /\ z[c][i - 1] = y[c][i]
  <2>1. PICK q \in Seq(Sent(c)) : q = y[c]
    BY <1>1
  <2>2. /\ 1 \in DOMAIN q /\ Head(q) = q[1]
        /\ \A i \in DOMAIN Tail(q) : /\ i \in Nat /\ i + 1 \in DOMAIN q /\ 1 < i + 1
                                     /\ Tail(q)[i] = q[i + 1]
        /\ \A i \in DOMAIN q : \/ i = 1
                               \/ i - 1 \in DOMAIN Tail(q) /\ Tail(q)[i - 1] = q[i]
    BY <2>1, AtTail
  <2> QED
    BY <1>2, <2>1, <2>2
<1> HIDE DEF z, w
<1>5. e.msg.from = c /\ Within(e.msg, g, t) /\ e.msg.last \in Nat
  BY <1>4, FlowNumbers DEF Flow
<1>6. \A i \in DOMAIN w : Within(w[i].msg, g, t)
  BY <1>3, <1>5 DEF Flow
<1>7. ASSUME NEW i \in DOMAIN w, NEW j \in DOMAIN w, i < j,
             w[i].msg.from = w[j].msg.from
      PROVE  w[i].msg.last < w[j].msg.first
  <2>1. i \in DOMAIN x /\ w[i] = x[i]
    BY <1>1, <1>3, <1>7, Positions
  <2>2. CASE j \in DOMAIN x /\ w[j] = x[j]
    BY <1>7, <2>1, <2>2 DEF Flow
  <2>3. CASE w[j] = e
    BY <1>4, <1>5, <1>7, <2>1, <2>3 DEF Flow
  <2> QED
    BY <1>3, <2>2, <2>3
<1>8. ASSUME NEW d \in Clients, NEW i \in DOMAIN z[d] PROVE Within(z[d][i], g, t)
  <2>1. \A k \in DOMAIN y[d] : Within(y[d][k], g, t)
    BY DEF Flow
  <2>2. CASE d = c
    BY <1>4, <2>1, <2>2
  <2>3. CASE d # c
    BY <1>2, <2>1, <2>3
  <2> QED
    BY <2>2, <2>3
<1>9. ASSUME NEW d \in Clients, NEW i \in DOMAIN z[d], NEW j \in DOMAIN z[d], i < j
      PROVE  z[d][i].last < z[d][j].first
  <2>1. CASE d # c
    BY <1>2, <1>9, <2>1 DEF Flow
  <2>2. CASE d = c
    <3>1. i + 1 \in DOMAIN y[c] /\ j + 1 \in DOMAIN y[c] /\ i + 1 < j + 1
      BY <1>4, <1>9, <2>2
    <3>2. y[c][i + 1].last < y[c][j + 1].first
      BY <3>1 DEF Flow
    <3> QED
      BY <1>4, <2>2, <3>2
  <2> QED
    BY <2>1, <2>2
<1>10. ASSUME NEW d \in Clients, NEW i \in DOMAIN w, NEW j \in DOMAIN z[d],
              w[i].msg.from = d
       PROVE  w[i].msg.last < z[d][j].first
  <2>1. CASE i \in DOMAIN x /\ w[i] = x[i]
    <3>1. \A k \in DOMAIN y[d] : x[i].msg.last < y[d][k].first
      BY <1>10, <2>1 DEF Flow
    <3>2. CASE d = c
      BY <1>4, <2>1, <3>1, <3>2
    <3>3. CASE d # c
      BY <1>2, <2>1, <3>1, <3>3
    <3> QED
      BY <3>2, <3>3
  <2>2. CASE w[i] = e
    <3>1. d = c /\ j + 1 \in DOMAIN y[c] /\ 1 < j + 1 /\ z[d][j] = y[c][j + 1]
      BY <1>4, <1>5, <1>10, <2>2
    <3>2. y[c][1].last < y[c][j + 1].first
      BY <1>4, <3>1 DEF Flow
    <3> QED
      BY <1>4, <2>2, <3>1, <3>2
  <2> QED
    BY <1>3, <2>1, <2>2
<1>11. Flow(w, z, g, t)
  BY <1>6, <1>7, <1>8, <1>9, <1>10 DEF Flow
<1>12. ASSUME NEW d \in Clients, NEW n \in Nat, Covers(x, y, d, n)
       PROVE  Covers(w, z, d, n)
  <2>1. ASSUME NEW i \in DOMAIN x, x[i].msg.from = d, In(n, x[i].msg)
        PROVE  Covers(w, z, d, n)
    BY <1>3, <2>1 DEF Covers
  <2>2. ASSUME NEW i \in DOMAIN y[d], In(n, y[d][i]) PROVE Covers(w, z, d, n)
    <3>1. CASE d # c
      BY <1>2, <2>2, <3>1 DEF Covers
    <3>2. CASE d = c /\ i = 1
      BY <1>3, <1>4, <1>5, <2>2, <3>2 DEF Covers
    <3>3. CASE d = c /\ i # 1
      BY <1>4, <2>2, <3>3 DEF Covers
    <3> QED
      BY <3>1, <3>2, <3>3
  <2> QED
    BY <1>12, <2>1, <2>2 DEF Covers
<1> QED
  BY <1>11, <1>12 DEF Covered, w, z

(* The application takes a message: the next one of its client.            *)
LEMMA FlowGet ==
    ASSUME NEW x \in Seq(Item), NEW y \in Queues,
           NEW g \in Counter, NEW t \in Counter, NEW h \in Counter,
           Flow(x, y, g, t), x # <<>>,
           h = [g EXCEPT ![Head(x).msg.from] = Head(x).msg.last]
    PROVE  /\ g[Head(x).msg.from] < Head(x).msg.last
           /\ Flow(Tail(x), y, h, t)
           /\ Covered(x, y, g, t) => Covered(Tail(x), y, h, t)
<1> DEFINE w == Tail(x)
           m == Head(x).msg
           c == Head(x).msg.from
<1>1. /\ w \in Seq(Item) /\ 1 \in DOMAIN x /\ m = x[1].msg /\ c = m.from
      /\ \A i \in DOMAIN w : /\ i \in Nat /\ i + 1 \in DOMAIN x /\ 1 < i + 1
                             /\ w[i] = x[i + 1]
      /\ \A i \in DOMAIN x : \/ i = 1
                             \/ i - 1 \in DOMAIN w /\ w[i - 1] = x[i]
  BY AtTail
<1>2. m.first \in Nat /\ m.last \in Nat /\ c \in Clients /\ m \in Message
  BY <1>1, FlowNumbers
<1>3. h = [g EXCEPT ![c] = m.last]
  OBVIOUS
<1> HIDE DEF w, m, c
<1>4. h[c] = m.last /\ \A d \in Clients : d # c => h[d] = g[d]
  BY <1>2, <1>3 DEF Counter
<1>5. g[c] < m.first /\ m.first <= m.last /\ m.last <= t[c]
  BY <1>1 DEF Flow, Within
<1>6. g[c] < m.last /\ g[c] \in Nat
  BY <1>2, <1>5 DEF Counter
<1>7. ASSUME NEW i \in DOMAIN w PROVE Within(w[i].msg, h, t)
  <2>1. Within(x[i + 1].msg, g, t) /\ x[i + 1].msg.from \in Clients
    BY <1>1, FlowNumbers DEF Flow
  <2>2. CASE x[i + 1].msg.from = c
    <3>1. x[1].msg.last < x[i + 1].msg.first
      BY <1>1, <2>2 DEF Flow
    <3> QED
      BY <1>1, <1>4, <2>1, <2>2, <3>1 DEF Within
  <2>3. CASE x[i + 1].msg.from # c
    BY <1>1, <1>4, <2>1, <2>3 DEF Within
  <2> QED
    BY <2>2, <2>3
<1>8. ASSUME NEW i \in DOMAIN w, NEW j \in DOMAIN w, i < j,
             w[i].msg.from = w[j].msg.from
      PROVE  w[i].msg.last < w[j].msg.first
  <2>1. i + 1 \in DOMAIN x /\ j + 1 \in DOMAIN x /\ i + 1 < j + 1
    BY <1>1, <1>8
  <2>2. x[i + 1].msg.last < x[j + 1].msg.first
    BY <1>1, <1>8, <2>1 DEF Flow
  <2> QED
    BY <1>1, <2>2
<1>9. ASSUME NEW d \in Clients, NEW i \in DOMAIN y[d] PROVE Within(y[d][i], h, t)
  <2>1. Within(y[d][i], g, t) /\ y[d][i].from = d
    BY FlowNumbers DEF Flow
  <2>2. CASE d = c
    <3>1. x[1].msg.last < y[d][i].first
      BY <1>1, <2>2 DEF Flow
    <3> QED
      BY <1>1, <1>4, <2>1, <2>2, <3>1 DEF Within
  <2>3. CASE d # c
    BY <1>4, <2>1, <2>3 DEF Within
  <2> QED
    BY <2>2, <2>3
<1>10. \A d \in Clients : \A i \in DOMAIN w, j \in DOMAIN y[d] :
          w[i].msg.from = d => w[i].msg.last < y[d][j].first
  BY <1>1 DEF Flow
<1>11. \A d \in Clients : h[d] <= t[d]
  BY <1>4, <1>5 DEF Flow
<1>12. Flow(w, y, h, t)
  <2>1. \A d \in Clients : \A i, j \in DOMAIN y[d] :
           i < j => y[d][i].last < y[d][j].first
    BY DEF Flow
  <2> QED
    BY <1>7, <1>8, <1>9, <1>10, <1>11, <2>1 DEF Flow
<1>13. ASSUME Covered(x, y, g, t), NEW d \in Clients, NEW n \in Nat, h[d] < n, n <= t[d]
       PROVE  Covers(w, y, d, n)
  <2>1. g[d] < n
    <3>1. g[d] \in Nat /\ h[d] \in Nat /\ g[d] <= h[d]
      BY <1>4, <1>6, <1>2 DEF Counter
    <3> QED
      BY <1>13, <3>1
  <2>2. Covers(x, y, d, n)
    BY <1>13, <2>1 DEF Covered
  <2>3. ASSUME NEW i \in DOMAIN x, x[i].msg.from = d, In(n, x[i].msg)
        PROVE  Covers(w, y, d, n)
    <3>1. i # 1
      BY <1>1, <1>2, <1>4, <1>13, <2>3 DEF In
    <3> QED
      BY <1>1, <2>3, <3>1 DEF Covers
  <2>4. ASSUME NEW i \in DOMAIN y[d], In(n, y[d][i]) PROVE Covers(w, y, d, n)
    BY <2>4 DEF Covers
  <2> QED
    BY <2>2, <2>3, <2>4 DEF Covers
<1> QED
  BY <1>6, <1>12, <1>13 DEF Covered, w, m, c

(* The listener drops the message it could not write.                      *)
LEMMA FlowCut ==
    ASSUME NEW x \in Seq(Item), NEW y, NEW g, NEW t, NEW e \in Item,
           Flow(Append(x, e), y, g, t)
    PROVE  Flow(x, y, g, t)
<1> DEFINE w == Append(x, e)
<1>1. \A i \in DOMAIN x : i \in DOMAIN w /\ w[i] = x[i]
  BY AtAppend
<1>2. Flow(w, y, g, t)
  OBVIOUS
<1> HIDE DEF w
<1>3. \A i \in DOMAIN x : Within(x[i].msg, g, t)
  BY <1>1, <1>2 DEF Flow
<1>4. \A i, j \in DOMAIN x :
         i < j /\ x[i].msg.from = x[j].msg.from => x[i].msg.last < x[j].msg.first
  BY <1>1, <1>2 DEF Flow
<1>5. \A c \in Clients : \A i \in DOMAIN x, j \in DOMAIN y[c] :
         x[i].msg.from = c => x[i].msg.last < y[c][j].first
  BY <1>1, <1>2 DEF Flow
<1> QED
  BY <1>2, <1>3, <1>4, <1>5 DEF Flow

-----------------------------------------------------------------------------
(***************************************************************************)
(* What the steps do to the three buffers.                                 *)
(***************************************************************************)
LEMMA JoinHand ==
    ASSUME NEW S, NEW s \in Seq(S), NEW h \in AtMostOne(S)
    PROVE  /\ s \o h \in Seq(S)
           /\ h = <<>> => s \o h = s
           /\ h # <<>> => h[1] \in S /\ s \o h = Append(s, h[1])
<1>1. CASE h = <<>>
  BY <1>1, ConcatEmptySeq
<1>2. CASE h # <<>>
  <2>1. PICK x \in S : h = <<x>>
    BY <1>2 DEF AtMostOne
  <2>2. h[1] = x
    BY <2>1
  <2>3. Append(s, x) = s \o <<x>> /\ Append(s, x) \in Seq(S)
    BY AppendIsConcat, AppendProperties
  <2> QED
    BY <1>2, <2>1, <2>2, <2>3
<1> QED
  BY <1>1, <1>2

LEMMA TailJoin ==
    ASSUME NEW S, NEW s \in Seq(S), NEW h \in AtMostOne(S), s # <<>>
    PROVE  /\ s \o h # <<>> /\ Head(s \o h) = Head(s)
           /\ Tail(s) \o h = Tail(s \o h)
<1>1. Tail(s) \in Seq(S)
  BY HeadTailProperties
<1>2. CASE h = <<>>
  BY <1>1, <1>2, JoinHand
<1>3. CASE h # <<>>
  <2>1. h[1] \in S /\ s \o h = Append(s, h[1]) /\ Tail(s) \o h = Append(Tail(s), h[1])
    BY <1>1, <1>3, JoinHand
  <2>2. Append(s, h[1]) # <<>>
    BY <2>1, AppendProperties
  <2> QED
    BY <2>1, <2>2, HeadTailAppend
<1> QED
  BY <1>2, <1>3

LEMMA HeldQueues ==
    ASSUME NEW u \in Queues, NEW h \in [Clients -> AtMostOne(Message)],
           \A c \in Clients : h[c] \in AtMostOne(Sent(c))
    PROVE  Joined(u, h) \in Queues
<1>1. ASSUME NEW c \in Clients
      PROVE  u[c] \o h[c] \in Seq(Sent(c)) /\ u[c] \o h[c] \in Seq(Message)
  BY JoinHand DEF Queues
<1> QED
  BY <1>1 DEF Queues, Joined

LEMMA TakenCounts ==
    ASSUME NEW q \in Queues, NEW s \in Counter, \A c \in Clients : Len(q[c]) <= s[c]
    PROVE  /\ [c \in Clients |-> s[c] - Len(q[c])] \in Counter
           /\ \A c \in Clients : Len(q[c]) \in Nat /\ s[c] \in Nat
<1>1. MaxSends \in Nat
  OBVIOUS
<1>2. ASSUME NEW c \in Clients
      PROVE  s[c] - Len(q[c]) \in 0 .. MaxSends /\ Len(q[c]) \in Nat /\ s[c] \in Nat
  <2>1. Len(q[c]) \in Nat /\ s[c] \in 0 .. MaxSends
    BY LenProperties DEF Queues, Counter
  <2> QED
    BY <1>1, <2>1
<1> QED
  BY <1>2 DEF Counter

LEMMA Ways ==
    ASSUME IInv, SocketInv
    PROVE  /\ Aloft \in Seq(Item) /\ Held \in Queues
           /\ got \in Counter /\ Taken \in Counter /\ sent \in Counter
           /\ \A c \in Clients : Len(toServer[c]) \in Nat /\ sent[c] \in Nat
<1>1. Entry \subseteq Item
  BY DEF Entry, Item
<1>2. Aloft \in Seq(Item)
  <2>1. upApp \in Seq(Item) /\ upHand \in AtMostOne(Item)
    BY <1>1, SeqGrows DEF IInv, UpInv
  <2> QED
    BY <2>1, JoinHand DEF Aloft
<1>3. Held \in Queues
  BY HeldQueues DEF Held, IInv, UpInv
<1>4. sent \in Counter /\ got \in Counter
  BY DEF IInv, Plain, UpInv, Counter
<1> QED
  BY <1>2, <1>3, <1>4, TakenCounts DEF IInv, UpInv, SocketInv, Taken

LEMMA NextQuiet ==
    ASSUME IInv, [Next]_vars
    PROVE  Quiet' => Quiet
<1>1. \A d \in Clients : client[d] = "left" => client'[d] = "left"
  <2>1. ASSUME NEW c \in Clients, ClientStep(c)
        PROVE  client' = client \/ (client[c] # "left"
                 /\ \E v \in {"in", "left"} : client' = [client EXCEPT ![c] = v])
    BY <2>1 DEF ClientStep, Connect, Write, Leave
  <2>2. UNCHANGED client \/ \E c \in Clients : ClientStep(c)
    BY DEF Next, ReceiverStep, ReadSocket, PassToListener, ReadPipe, Reap, ListenerStep,
       NoConnection, SpawnReceiver, NothingToForward, Forward, PassToApplication,
       ReturnResponse, PassToReceiver, AppStep, GetNextMessage, SendResponse, vars,
       clientVars
  <2> QED
    BY <2>1, <2>2 DEF IInv, Plain
<1>2. \A d \in Clients : receiver[d] = "ended" => receiver'[d] = "ended"
  <2>1. ASSUME NEW c \in Clients, ReceiverStep(c) \/ SpawnReceiver(c)
        PROVE  receiver[c] # "ended"
               /\ \E v : receiver' = [receiver EXCEPT ![c] = v]
    <3>1. receiver[c] # "ended"
      BY <2>1 DEF ReceiverStep, ReadSocket, PassToListener, ReadPipe, SpawnReceiver,
         Runs, Waiting
    <3>2. receiver = [receiver EXCEPT ![c] = receiver[c]]
      BY DEF IInv, Plain
    <3> QED
      BY <2>1, <3>1, <3>2 DEF ReceiverStep, ReadSocket, PassToListener, ReadPipe,
         SpawnReceiver, ReceiverEnds
  <2>2. CASE ReturnResponse
    <3>1. receiver' = receiver \/ \E c : receiver' = [receiver EXCEPT ![c] = "ended"]
      BY <2>2 DEF ReturnResponse, Stopped, ReceiverEnds
    <3> QED
      BY <3>1 DEF IInv, Plain
  <2>3. \/ UNCHANGED receiver \/ ReturnResponse
        \/ \E c \in Clients : ReceiverStep(c) \/ SpawnReceiver(c)
    BY DEF Next, ClientStep, Connect, Write, Leave, Reap, ListenerStep, NoConnection,
       NothingToForward, Forward, PassToApplication, PassToReceiver, AppStep,
       GetNextMessage, SendResponse, vars, receiverVars
  <2>4. ASSUME NEW c \in Clients, ReceiverStep(c) \/ SpawnReceiver(c),
               NEW d \in Clients, receiver[d] = "ended"
        PROVE  receiver'[d] = "ended"
    BY <2>1, <2>4 DEF IInv, Plain
  <2> QED
    BY <2>2, <2>3, <2>4
<1> QED
  BY <1>1, <1>2 DEF Quiet

LEMMA SameWays ==
    ASSUME FlowInv, CoverInv, SocketInv', Quiet' => Quiet,
           Aloft' = Aloft, Held' = Held, Taken' = Taken, got' = got
    PROVE  FlowInv' /\ CoverInv'
<1>1. Flow(Aloft', Held', got', Taken')
  BY DEF FlowInv
<1>2. Quiet' => Covered(Aloft', Held', got', Taken')
  BY DEF CoverInv
<1> QED
  BY <1>1, <1>2 DEF FlowInv, CoverInv

LEMMA SameSocket ==
    ASSUME SocketInv, UNCHANGED <<toServer, sent>>
    PROVE  SocketInv' /\ Taken' = Taken
  BY DEF SocketInv, Taken

LEMMA WriteFlow ==
    ASSUME IInv, FlowInv, NEW c \in Clients, Write(c)
    PROVE  SocketInv' /\ Taken' = Taken
<1> DEFINE m == [from |-> c, first |-> sent[c] + 1, last |-> sent[c] + 1]
           s == toServer[c]
<1>1. /\ sent' = [sent EXCEPT ![c] = sent[c] + 1]
      /\ toServer' = [toServer EXCEPT ![c] = Append(s, m)]
      /\ sent[c] + 1 \in Number
  BY DEF Write, Put, IInv, Plain, Number
<1>2. m \in Sent(c) /\ m.first = sent[c] + 1 /\ m.last = sent[c] + 1
  BY <1>1 DEF Sent, Message
<1>3. s \in Seq(Sent(c)) /\ toServer \in [Clients -> Seq(Message)]
      /\ sent \in [Clients -> 0 .. MaxSends]
  BY DEF IInv, UpInv, Queues, Plain
<1> HIDE DEF m, s
<1>4. sent'[c] = sent[c] + 1 /\ toServer'[c] = Append(s, m)
      /\ \A d \in Clients : d # c => sent'[d] = sent[d] /\ toServer'[d] = toServer[d]
  BY <1>1, <1>3
<1>5. Len(Append(s, m)) = Len(s) + 1 /\ Len(s) \in Nat /\ Append(s, m) \in Seq(Sent(c))
  BY <1>2, <1>3, AppendProperties, LenProperties
<1>6. sent[c] \in Nat /\ Len(s) <= sent[c]
      /\ \A i \in DOMAIN s : /\ s[i].first = sent[c] - Len(s) + i
                             /\ s[i].last = sent[c] - Len(s) + i
  BY <1>3 DEF FlowInv, SocketInv, s
<1>7. ASSUME NEW i \in DOMAIN Append(s, m)
      PROVE  /\ Append(s, m)[i].first = (sent[c] + 1) - (Len(s) + 1) + i
             /\ Append(s, m)[i].last = (sent[c] + 1) - (Len(s) + 1) + i
  <2>1. \/ i \in DOMAIN s /\ Append(s, m)[i] = s[i]
        \/ i = Len(s) + 1 /\ Append(s, m)[i] = m
    BY <1>2, <1>3, AtAppend
  <2>2. i \in Nat
    BY <1>5, Positions
  <2> QED
    BY <1>2, <1>5, <1>6, <2>1, <2>2
<1>8. SocketInv'
  <2>1. ASSUME NEW d \in Clients, d # c
        PROVE  /\ Len(toServer'[d]) <= sent'[d]
               /\ \A i \in DOMAIN toServer'[d] :
                     /\ toServer'[d][i].first = sent'[d] - Len(toServer'[d]) + i
                     /\ toServer'[d][i].last = sent'[d] - Len(toServer'[d]) + i
    BY <1>4, <2>1 DEF FlowInv, SocketInv
  <2>2. Len(toServer'[c]) <= sent'[c]
    BY <1>4, <1>5, <1>6
  <2>3. \A i \in DOMAIN toServer'[c] :
                     /\ toServer'[c][i].first = sent'[c] - Len(toServer'[c]) + i
                     /\ toServer'[c][i].last = sent'[c] - Len(toServer'[c]) + i
    BY <1>4, <1>5, <1>7
  <2> QED
    BY <2>1, <2>2, <2>3 DEF SocketInv
<1>9. ASSUME NEW d \in Clients PROVE sent'[d] - Len(toServer'[d]) = sent[d] - Len(toServer[d])
  <2>1. CASE d = c
    BY <1>4, <1>5, <1>6, <2>1 DEF s
  <2>2. CASE d # c
    BY <1>4, <2>2
  <2> QED
    BY <2>1, <2>2
<1> QED
  BY <1>8, <1>9 DEF Taken

LEMMA LeaveFlow ==
    ASSUME IInv, IInv', FlowInv, NEW c \in Clients, Leave(c)
    PROVE  FlowInv' /\ ~Quiet'
<1>1. client'[c] = "left" /\ UNCHANGED <<Aloft, Held, got, sent>>
  BY DEF Leave, IInv, Plain, Aloft, Held, receiverVars, handVars, appVars
<1>2. CASE toServer' = toServer
  <2>1. SocketInv' /\ Taken' = Taken
    BY <1>1, <1>2, SameSocket DEF FlowInv
  <2>2. Flow(Aloft', Held', got', Taken')
    BY <1>1, <2>1 DEF FlowInv
  <2> QED
    BY <1>1, <2>1, <2>2 DEF FlowInv, Quiet
<1>3. CASE toServer' = [toServer EXCEPT ![c] = <<>>]
  <2>1. toServer'[c] = <<>> /\ \A d \in Clients : d # c => toServer'[d] = toServer[d]
    BY <1>3 DEF IInv, UpInv, Queues
  <2>2. SocketInv'
    <3>1. sent[c] \in Nat /\ DOMAIN <<>> = {} /\ Len(<<>>) = 0
      BY DEF IInv, Plain
    <3> QED
      BY <1>1, <2>1, <3>1 DEF FlowInv, SocketInv
  <2>3. \A d \in Clients : Taken[d] <= Taken'[d]
    <3>1. \A d \in Clients : Len(toServer[d]) \in Nat /\ sent[d] \in Nat
      BY Ways DEF FlowInv
    <3>2. Taken[c] <= Taken'[c]
      BY <1>1, <2>1, <3>1 DEF Taken
    <3>3. \A d \in Clients : d # c => Taken[d] = Taken'[d] /\ Taken[d] \in Int
      BY <1>1, <2>1, <3>1 DEF Taken
    <3> QED
      BY <3>2, <3>3
  <2>4. Aloft \in Seq(Item) /\ Held \in Queues /\ got \in Counter /\ Taken \in Counter
    BY Ways DEF FlowInv
  <2>5. Taken' \in Counter
    <3>1. sent' \in Counter /\ toServer' \in Queues
      BY DEF IInv, Plain, UpInv, Counter
    <3>2. \A d \in Clients : Len(toServer'[d]) <= sent'[d]
      BY <2>2 DEF SocketInv
    <3> QED
      BY <3>1, <3>2, TakenCounts DEF Taken
  <2>6. Flow(Aloft', Held', got', Taken')
    BY <1>1, <2>3, <2>4, <2>5, FlowBroken DEF FlowInv
  <2> QED
    BY <1>1, <2>2, <2>6 DEF FlowInv, Quiet
<1> QED
  BY <1>2, <1>3 DEF Leave

(* Writing to a pipe, or holding what does not fit, adds it at the end.    *)
LEMMA HeldPut ==
    ASSUME NEW u \in Queues, NEW v \in Queues,
           NEW h \in [Clients -> AtMostOne(Message)],
           NEW k \in [Clients -> AtMostOne(Message)],
           \A d \in Clients : h[d] \in AtMostOne(Sent(d)),
           NEW c \in Clients, NEW m \in Sent(c), h[c] = <<>>,
           \/ v = Put(u, c, m) /\ k = h
           \/ v = u /\ k = [h EXCEPT ![c] = <<m>>]
    PROVE  Joined(v, k) = Put(Joined(u, h), c, m)
<1>1. u[c] \in Seq(Sent(c)) /\ u[c] \o h[c] = u[c]
  BY JoinHand DEF Queues
<1>2. v[c] \o k[c] = Append(u[c], m)
  <2>1. CASE v = Put(u, c, m) /\ k = h
    <3>1. v[c] = Append(u[c], m) /\ k[c] = <<>> /\ Append(u[c], m) \in Seq(Sent(c))
      BY <1>1, <2>1, AppendProperties DEF Put, Queues
    <3> QED
      BY <3>1, ConcatEmptySeq
  <2>2. CASE v = u /\ k = [h EXCEPT ![c] = <<m>>]
    <3>1. v[c] = u[c] /\ k[c] = <<m>>
      BY <2>2
    <3> QED
      BY <1>1, <3>1, AppendIsConcat
  <2> QED
    BY <2>1, <2>2
<1>3. ASSUME NEW d \in Clients, d # c PROVE v[d] = u[d] /\ k[d] = h[d]
  BY <1>3 DEF Put, Queues
<1> QED
  BY <1>1, <1>2, <1>3 DEF Put, Joined

LEMMA ReadFlow ==
    ASSUME IInv, IInv', FlowInv, CoverInv, Quiet' => Quiet,
           NEW c \in Clients, ReadSocket(c)
    PROVE  FlowInv' /\ CoverInv'
<1>1. UNCHANGED <<Aloft, got, sent>> /\ held[c] = <<>>
  BY DEF ReadSocket, Runs, Aloft, handVars, appVars, clientVars
<1>2. CASE UNCHANGED <<toServer, held, up>>
  <2>1. Held' = Held
    BY <1>2 DEF Held
  <2> QED
    BY <1>1, <1>2, <2>1, SameSocket, SameWays DEF FlowInv
<1>3. ASSUME NEW k \in 1 .. Len(toServer[c]), WriteUp(c, Received(c, k)),
             toServer' = [toServer EXCEPT ![c] = SubSeq(@, k + 1, Len(@))]
      PROVE  FlowInv' /\ CoverInv'
  <2> DEFINE s == toServer[c]
             r == SubSeq(s, k + 1, Len(s))
             m == Received(c, k)
  <2>1. s \in Seq(Sent(c)) /\ Len(s) \in Nat /\ DOMAIN s = 1 .. Len(s)
    BY Positions DEF IInv, UpInv, Queues
  <2>2. sent[c] \in Nat /\ Len(s) <= sent[c]
        /\ \A i \in DOMAIN s : /\ s[i].first = sent[c] - Len(s) + i
                               /\ s[i].last = sent[c] - Len(s) + i
    BY DEF FlowInv, SocketInv, IInv, Plain
  <2>3. m \in Sent(c) /\ m.first = s[1].first /\ m.last = s[k].last
    BY ReceivedIsSent DEF IInv, Received
  <2>4. /\ toServer'[c] = r
        /\ \A d \in Clients : d # c => toServer'[d] = toServer[d]
    BY <1>3 DEF IInv, UpInv, Queues
  <2>5. /\ Len(r) = Len(s) - k /\ r \in Seq(Sent(c))
        /\ \A i \in 1 .. Len(s) - k : r[i] = s[k + i]
    <3>1. \A i \in k + 1 .. Len(s) : s[i] \in Sent(c)
      BY <2>1, ElementOfSeq
    <3>2. k + 1 \in Int /\ Len(s) \in Int /\ k \in Int
      BY <2>1
    <3>3. /\ r \in Seq(Sent(c))
          /\ Len(r) = IF k + 1 <= Len(s) THEN Len(s) - (k + 1) + 1 ELSE 0
          /\ \A i \in 1 .. Len(s) - (k + 1) + 1 : r[i] = s[k + 1 + i - 1]
      BY <3>1, <3>2, SubSeqProperties
    <3>4. Len(r) = Len(s) - k
      BY <2>1, <3>3
    <3>5. ASSUME NEW i \in 1 .. Len(s) - k PROVE r[i] = s[k + i]
      <4>1. i \in 1 .. Len(s) - (k + 1) + 1 /\ k + 1 + i - 1 = k + i
        BY <2>1, <3>5
      <4> QED
        BY <3>3, <4>1
    <3> QED
      BY <3>3, <3>4, <3>5
  <2> HIDE DEF s, r, m
  <2>6. k \in 1 .. Len(s)
    BY DEF s
  <2>7. ASSUME NEW i \in DOMAIN r
        PROVE  /\ r[i].first = sent[c] - Len(r) + i
               /\ r[i].last = sent[c] - Len(r) + i
    <3>1. i \in 1 .. Len(s) - k /\ k + i \in DOMAIN s
      BY <2>1, <2>5, <2>6, <2>7, Positions
    <3> QED
      BY <2>1, <2>2, <2>5, <2>6, <3>1
  <2>8. SocketInv'
    <3>1. ASSUME NEW d \in Clients, d # c
          PROVE  /\ Len(toServer'[d]) <= sent'[d]
                 /\ \A i \in DOMAIN toServer'[d] :
                       /\ toServer'[d][i].first = sent'[d] - Len(toServer'[d]) + i
                       /\ toServer'[d][i].last = sent'[d] - Len(toServer'[d]) + i
      BY <1>1, <2>4, <3>1 DEF FlowInv, SocketInv
    <3>2. Len(r) <= sent[c]
      BY <2>1, <2>2, <2>5, <2>6
    <3> QED
      BY <1>1, <2>4, <2>7, <3>1, <3>2 DEF SocketInv
  <2>9. Taken' = [Taken EXCEPT ![c] = m.last] /\ Taken[c] = sent[c] - Len(s)
        /\ m.first = Taken[c] + 1 /\ m.first <= m.last
    <3>1. m.first = sent[c] - Len(s) + 1 /\ m.last = sent[c] - Len(s) + k
      BY <2>1, <2>2, <2>3, <2>6
    <3>2. Taken[c] = sent[c] - Len(s)
      BY DEF Taken, s
    <3>3. Taken'[c] = sent[c] - (Len(s) - k)
      BY <1>1, <2>4, <2>5 DEF Taken
    <3>4. Taken'[c] = m.last
      BY <2>1, <2>2, <2>6, <3>1, <3>3
    <3>5. \A d \in Clients : d # c => Taken'[d] = Taken[d]
      BY <1>1, <2>4 DEF Taken
    <3>6. Taken' = [Taken EXCEPT ![c] = m.last]
      BY <3>4, <3>5 DEF Taken
    <3>7. m.first = Taken[c] + 1 /\ m.first <= m.last
      BY <2>1, <2>2, <2>6, <3>1, <3>2
    <3> QED
      BY <3>2, <3>6, <3>7
  <2>10. Held' = Put(Held, c, m)
    <3>1. \/ up' = Put(up, c, m) /\ held' = held
          \/ up' = up /\ held' = [held EXCEPT ![c] = <<m>>]
      BY <1>3 DEF WriteUp, m
    <3>2. up \in Queues /\ up' \in Queues /\ held \in [Clients -> AtMostOne(Message)]
          /\ held' \in [Clients -> AtMostOne(Message)]
          /\ \A d \in Clients : held[d] \in AtMostOne(Sent(d))
      BY DEF IInv, UpInv
    <3>3. Joined(up', held') = Put(Joined(up, held), c, m)
      BY <1>1, <2>3, <3>1, <3>2, HeldPut
    <3> QED
      BY <3>3 DEF Held
  <2>11. Aloft \in Seq(Item) /\ Held \in Queues /\ got \in Counter /\ Taken \in Counter
    BY Ways DEF FlowInv
  <2>12. Taken' \in Counter
    <3>1. sent' \in Counter /\ toServer' \in Queues
      BY DEF IInv, Plain, UpInv, Counter
    <3>2. \A d \in Clients : Len(toServer'[d]) <= sent'[d]
      BY <2>8 DEF SocketInv
    <3> QED
      BY <3>1, <3>2, TakenCounts DEF Taken
  <2>13. Flow(Aloft, Held, got, Taken)
    BY DEF FlowInv
  <2>14. /\ Flow(Aloft, Put(Held, c, m), got, Taken')
         /\ Covered(Aloft, Held, got, Taken) =>
               Covered(Aloft, Put(Held, c, m), got, Taken')
    BY <2>3, <2>9, <2>11, <2>12, <2>13, FlowRead
  <2> QED
    BY <1>1, <2>8, <2>10, <2>14 DEF FlowInv, CoverInv
<1> QED
  BY <1>2, <1>3 DEF ReadSocket

LEMMA PassedUp ==
    ASSUME IInv, NEW c \in Clients, PassToListener(c)
    PROVE  UNCHANGED <<Held, Aloft, got, toServer, sent>>
<1>1. up[c] \in Seq(Sent(c)) /\ held[c] \in AtMostOne(Sent(c)) /\ held[c] # <<>>
  BY DEF IInv, UpInv, Queues, PassToListener
<1>2. /\ up' = [up EXCEPT ![c] = Append(up[c], held[c][1])]
      /\ held' = [held EXCEPT ![c] = <<>>]
  BY DEF PassToListener, Put
<1>3. /\ up'[c] = Append(up[c], held[c][1]) /\ held'[c] = <<>>
      /\ \A d \in Clients : d # c => up'[d] = up[d] /\ held'[d] = held[d]
  BY <1>2 DEF IInv, UpInv, Queues
<1>4. held[c][1] \in Sent(c) /\ up[c] \o held[c] = Append(up[c], held[c][1])
  BY <1>1, JoinHand
<1>5. Append(up[c], held[c][1]) \in Seq(Sent(c))
  BY <1>1, <1>4, AppendProperties
<1>6. up'[c] \o held'[c] = up[c] \o held[c]
  BY <1>3, <1>4, <1>5, ConcatEmptySeq
<1>7. Held' = Held
  BY <1>3, <1>6 DEF Held, Joined
<1> QED
  BY <1>7 DEF PassToListener, Aloft, handVars, appVars, clientVars

LEMMA PassedOn ==
    ASSUME IInv, PassToApplication
    PROVE  UNCHANGED <<Held, Aloft, got, toServer, sent>>
<1>1. upApp \in Seq(Entry) /\ upHand \in AtMostOne(Entry) /\ upHand # <<>>
  BY DEF IInv, UpInv, PassToApplication
<1>2. upHand[1] \in Entry /\ Aloft = Append(upApp, upHand[1])
  BY <1>1, JoinHand DEF Aloft
<1>3. Append(upApp, upHand[1]) \in Seq(Entry)
  BY <1>1, <1>2, AppendProperties
<1>4. Aloft' = Append(upApp, upHand[1])
  BY <1>3, ConcatEmptySeq DEF Aloft, PassToApplication
<1> QED
  BY <1>2, <1>4 DEF PassToApplication, Held, receiverVars, appVars, clientVars

LEMMA ForwardFlow ==
    ASSUME IInv, FlowInv, CoverInv, Quiet' => Quiet, NEW c \in Clients, Forward(c)
    PROVE  FlowInv' /\ CoverInv'
<1>1. UNCHANGED <<toServer, sent, got, held>> /\ upHand = <<>> /\ c \in working
  BY DEF Forward, AtTask, HandsFree, Ready, receiverVars, appVars, clientVars
<1>2. SocketInv' /\ Taken' = Taken
  BY <1>1, SameSocket DEF FlowInv
<1>3. CASE up[c] = <<>>
  <2>1. UNCHANGED <<Held, Aloft>>
    BY <1>1, <1>3 DEF Forward, Held, Aloft
  <2> QED
    BY <1>1, <1>2, <2>1, SameWays
<1>4. CASE up[c] # <<>>
  <2>1. PICK e \in Entry : /\ e.msg = Head(up[c]) /\ WriteToApplication(e)
                           /\ up' = Take(up, c)
    <3>1. [id |-> IDOf(c), msg |-> Head(up[c])] \in Entry
      BY <1>1, <1>4, ForwardedEntry DEF IInv
    <3> QED
      BY <1>4, <3>1 DEF Forward
  <2>2. upApp \in Seq(Entry) /\ Append(upApp, e) \in Seq(Entry)
    BY AppendProperties DEF IInv, UpInv
  <2>3. Aloft = upApp /\ Aloft' = Append(Aloft, e)
    <3>1. Aloft = upApp
      BY <1>1, <2>2, ConcatEmptySeq DEF Aloft
    <3>2. CASE upApp' = Append(upApp, e) /\ upHand' = upHand
      BY <1>1, <2>2, <3>1, <3>2, ConcatEmptySeq DEF Aloft
    <3>3. CASE upHand' = <<e>> /\ upApp' = upApp
      BY <2>2, <3>1, <3>3, AppendIsConcat DEF Aloft
    <3> QED
      BY <2>1, <3>1, <3>2, <3>3 DEF WriteToApplication
  <2>4. Held[c] # <<>> /\ Head(Held[c]) = Head(up[c]) /\ Held' = Take(Held, c)
    <3>1. up[c] \in Seq(Sent(c)) /\ held[c] \in AtMostOne(Sent(c))
      BY DEF IInv, UpInv, Queues
    <3>2. /\ up[c] \o held[c] # <<>> /\ Head(up[c] \o held[c]) = Head(up[c])
          /\ Tail(up[c]) \o held[c] = Tail(up[c] \o held[c])
      BY <1>4, <3>1, TailJoin
    <3>3. up'[c] = Tail(up[c]) /\ \A d \in Clients : d # c => up'[d] = up[d]
      BY <2>1 DEF Take, IInv, UpInv, Queues
    <3>4. \A d \in Clients : Held'[d] = IF d = c THEN Tail(Held[d]) ELSE Held[d]
      BY <1>1, <3>2, <3>3 DEF Held, Joined
    <3>5. Held' = [d \in Clients |-> Held'[d]] /\ Held = [d \in Clients |-> Held[d]]
      BY DEF Held, Joined
    <3>6. Take(Held, c) = [Held EXCEPT ![c] = Tail(Held[c])]
      BY DEF Take
    <3>7. Held' = Take(Held, c)
      BY <3>4, <3>5, <3>6
    <3> QED
      BY <3>2, <3>7 DEF Held, Joined
  <2>5. Aloft \in Seq(Item) /\ Held \in Queues /\ got \in Counter /\ Taken \in Counter
        /\ e \in Item
    BY Ways DEF FlowInv, Entry, Item
  <2>6. Flow(Aloft, Held, got, Taken)
    BY DEF FlowInv
  <2>7. /\ Flow(Append(Aloft, e), Take(Held, c), got, Taken)
        /\ Covered(Aloft, Held, got, Taken) =>
              Covered(Append(Aloft, e), Take(Held, c), got, Taken)
    BY <2>1, <2>4, <2>5, <2>6, FlowForward
  <2> QED
    BY <1>1, <1>2, <2>3, <2>4, <2>7 DEF FlowInv, CoverInv
<1> QED
  BY <1>3, <1>4

LEMMA GetFlow ==
    ASSUME IInv, IInv', FlowInv, CoverInv, Quiet' => Quiet, GetNextMessage
    PROVE  /\ FlowInv' /\ CoverInv'
           /\ Head(upApp) \in Entry
           /\ got[Head(upApp).msg.from] < Head(upApp).msg.last
<1>1. UNCHANGED <<toServer, sent, Held, upHand>> /\ upApp # <<>>
      /\ upApp' = Tail(upApp)
      /\ got' = [got EXCEPT ![Head(upApp).msg.from] = Head(upApp).msg.last]
  BY DEF GetNextMessage, receiverVars, clientVars, handVars, Held
<1>2. SocketInv' /\ Taken' = Taken
  BY <1>1, SameSocket DEF FlowInv
<1>3. upApp \in Seq(Entry) /\ upHand \in AtMostOne(Entry) /\ Head(upApp) \in Entry
  BY <1>1, HeadTailProperties DEF IInv, UpInv
<1>4. Aloft # <<>> /\ Head(Aloft) = Head(upApp) /\ Aloft' = Tail(Aloft)
  BY <1>1, <1>3, TailJoin DEF Aloft
<1>5. Aloft \in Seq(Item) /\ Held \in Queues /\ got \in Counter /\ Taken \in Counter
  BY Ways DEF FlowInv
<1>6. got' \in Counter
  BY DEF IInv, UpInv, Counter
<1>7. Flow(Aloft, Held, got, Taken)
  BY DEF FlowInv
<1>8. /\ got[Head(Aloft).msg.from] < Head(Aloft).msg.last
      /\ Flow(Tail(Aloft), Held, got', Taken)
      /\ Covered(Aloft, Held, got, Taken) => Covered(Tail(Aloft), Held, got', Taken)
  BY <1>1, <1>4, <1>5, <1>6, <1>7, FlowGet
<1>9. FlowInv' /\ CoverInv'
  BY <1>1, <1>2, <1>4, <1>8 DEF FlowInv, CoverInv
<1> QED
  BY <1>3, <1>4, <1>8, <1>9

LEMMA ReapFlow ==
    ASSUME IInv, FlowInv, Quiet' => Quiet, NEW c \in Clients, Reap(c)
    PROVE  FlowInv' /\ CoverInv'
<1>1. UNCHANGED <<toServer, sent, Held, upApp, got>> /\ ~Quiet
      /\ upHand' \in {upHand, <<>>}
  BY DEF Reap, receiverVars, clientVars, appVars, Held, Quiet
<1>2. SocketInv' /\ Taken' = Taken
  BY <1>1, SameSocket DEF FlowInv
<1>3. Flow(Aloft', Held, got, Taken)
  <2>1. CASE upHand' = upHand
    BY <1>1, <2>1 DEF Aloft, FlowInv
  <2>2. CASE upHand # <<>> /\ upHand' = <<>>
    <3>1. upApp \in Seq(Entry) /\ upHand \in AtMostOne(Entry)
      BY DEF IInv, UpInv
    <3>2. upHand[1] \in Entry /\ Aloft = Append(upApp, upHand[1])
      BY <2>2, <3>1, JoinHand DEF Aloft
    <3>3. Aloft' = upApp
      BY <1>1, <2>2, <3>1, ConcatEmptySeq DEF Aloft
    <3>4. upApp \in Seq(Item) /\ upHand[1] \in Item
      <4>1. Entry \subseteq Item
        BY DEF Entry, Item
      <4> QED
        BY <3>1, <3>2, <4>1, SeqGrows
    <3>5. Flow(Append(upApp, upHand[1]), Held, got, Taken)
      BY <3>2 DEF FlowInv
    <3> QED
      BY <3>3, <3>4, <3>5, FlowCut
  <2> QED
    BY <1>1, <2>1, <2>2
<1> QED
  BY <1>1, <1>2, <1>3 DEF FlowInv, CoverInv

(* Every step keeps what is on the way up in its order and, while nobody   *)
(* has left, whole.                                                        *)
LEMMA NextFlow ==
    IInv /\ IInv' /\ FlowInv /\ CoverInv /\ [Next]_vars => FlowInv' /\ CoverInv'
<1> SUFFICES ASSUME IInv, IInv', FlowInv, CoverInv, [Next]_vars
             PROVE  FlowInv' /\ CoverInv'
  OBVIOUS
<1>1. Quiet' => Quiet
  BY NextQuiet
<1>2. ASSUME UNCHANGED <<Held, Aloft, got, toServer, sent>> PROVE FlowInv' /\ CoverInv'
  BY <1>1, <1>2, SameSocket, SameWays DEF FlowInv
<1>3. ASSUME NEW c \in Clients, Write(c) PROVE FlowInv' /\ CoverInv'
  <2>1. UNCHANGED <<Held, Aloft, got>>
    BY <1>3 DEF Write, Held, Aloft, receiverVars, handVars, appVars
  <2> QED
    BY <1>1, <1>3, <2>1, WriteFlow, SameWays
<1>4. ASSUME NEW c \in Clients, Leave(c) PROVE FlowInv' /\ CoverInv'
  BY <1>4, LeaveFlow DEF CoverInv
<1>5. ASSUME NEW c \in Clients, ReceiverStep(c) PROVE FlowInv' /\ CoverInv'
  <2>1. CASE ReadSocket(c)
    BY <1>1, <2>1, ReadFlow
  <2>2. CASE PassToListener(c)
    BY <1>2, <2>2, PassedUp
  <2>3. CASE ReadPipe(c)
    BY <1>2, <2>3 DEF ReadPipe, Held, Aloft, handVars, appVars
  <2> QED
    BY <1>5, <2>1, <2>2, <2>3 DEF ReceiverStep
<1>6. ASSUME NEW c \in Clients, Reap(c) \/ Forward(c) PROVE FlowInv' /\ CoverInv'
  BY <1>1, <1>6, ReapFlow, ForwardFlow
<1>7. CASE PassToApplication
  BY <1>2, <1>7, PassedOn
<1>8. CASE GetNextMessage
  BY <1>1, <1>8, GetFlow
<1>9. ASSUME NEW c \in Clients, Connect(c) \/ SpawnReceiver(c)
      PROVE  FlowInv' /\ CoverInv'
  BY <1>2, <1>9 DEF Connect, SpawnReceiver, Held, Aloft, receiverVars, handVars,
     appVars, clientVars
<1>10. CASE NoConnection \/ NothingToForward \/ ReturnResponse \/ PassToReceiver
            \/ SendResponse \/ UNCHANGED vars
  BY <1>2, <1>10 DEF NoConnection, NothingToForward, ReturnResponse, PassToReceiver,
     SendResponse, vars, Held, Aloft, receiverVars, handVars, appVars, clientVars
<1> QED
  BY <1>3, <1>4, <1>5, <1>6, <1>7, <1>8, <1>9, <1>10
     DEF Next, ClientStep, ListenerStep, AppStep

LEMMA InitFlow == Init => FlowInv /\ CoverInv
<1> SUFFICES ASSUME Init PROVE FlowInv /\ CoverInv
  OBVIOUS
<1>1. Aloft = <<>> /\ \A c \in Clients : Held[c] = <<>>
  <2>1. <<>> \o <<>> = <<>>
    BY ConcatEmptySeq, <<>> \in Seq({})
  <2> QED
    BY <2>1 DEF Init, Aloft, Held, Joined
<1>2. \A c \in Clients : got[c] = 0 /\ sent[c] = 0 /\ toServer[c] = <<>> /\ Taken[c] = 0
  BY DEF Init, Taken
<1>3. SocketInv
  BY <1>2 DEF SocketInv
<1>4. Flow(Aloft, Held, got, Taken)
  BY <1>1, <1>2 DEF Flow
<1>5. Covered(Aloft, Held, got, Taken)
  BY <1>2 DEF Covered
<1> QED
  BY <1>3, <1>4, <1>5 DEF FlowInv, CoverInv

-----------------------------------------------------------------------------
(***************************************************************************)
(* The whole way of a client's messages, as the properties see it.         *)
(***************************************************************************)
LEMMA ThreeParts ==
    ASSUME NEW S, NEW x \in Seq(S), NEW y \in Seq(S), NEW z \in Seq(S),
           NEW w, w = (x \o y) \o z
    PROVE  /\ Len(x) \in Nat /\ Len(y) \in Nat
           /\ \A i \in DOMAIN w :
                 /\ i \in Nat
                 /\ \/ i \in DOMAIN x /\ w[i] = x[i]
                    \/ /\ i > Len(x) /\ i - Len(x) \in DOMAIN y
                       /\ w[i] = y[i - Len(x)]
                    \/ /\ i > Len(x) + Len(y) /\ i - Len(x) - Len(y) \in DOMAIN z
                       /\ w[i] = z[i - Len(x) - Len(y)]
           /\ \A i \in DOMAIN x : i \in DOMAIN w /\ i <= Len(x) /\ w[i] = x[i]
           /\ \A i \in DOMAIN y : /\ i + Len(x) \in DOMAIN w
                                  /\ i + Len(x) <= Len(x) + Len(y)
                                  /\ w[i + Len(x)] = y[i]
           /\ \A i \in DOMAIN z : /\ i + Len(x) + Len(y) \in DOMAIN w
                                  /\ w[i + Len(x) + Len(y)] = z[i]
<1> DEFINE v == x \o y
<1>1. /\ v \in Seq(S) /\ Len(v) = Len(x) + Len(y)
      /\ \A i \in 1 .. Len(x) + Len(y) :
            v[i] = IF i <= Len(x) THEN x[i] ELSE y[i - Len(x)]
  BY ConcatProperties
<1>2. /\ v \o z \in Seq(S) /\ Len(v \o z) = Len(v) + Len(z)
      /\ \A i \in 1 .. Len(v) + Len(z) :
            (v \o z)[i] = IF i <= Len(v) THEN v[i] ELSE z[i - Len(v)]
  BY <1>1, ConcatProperties
<1>3. w = v \o z
  OBVIOUS
<1> HIDE DEF v
<1>4. /\ DOMAIN x = 1 .. Len(x) /\ Len(x) \in Nat /\ DOMAIN y = 1 .. Len(y) /\ Len(y) \in Nat
      /\ DOMAIN z = 1 .. Len(z) /\ Len(z) \in Nat /\ DOMAIN w = 1 .. Len(w) /\ Len(w) \in Nat
  BY <1>2, <1>3, Positions
<1>5. Len(w) = Len(x) + Len(y) + Len(z)
  BY <1>1, <1>2, <1>3
<1>6. \A i \in 1 .. Len(x) : w[i] = x[i]
  BY <1>1, <1>2, <1>3, <1>4
<1>7. \A i \in 1 .. Len(y) : w[i + Len(x)] = y[i]
  BY <1>1, <1>2, <1>3, <1>4
<1>8. \A i \in 1 .. Len(z) : w[i + Len(x) + Len(y)] = z[i]
  <2>1. ASSUME NEW i \in 1 .. Len(z) PROVE w[i + Len(v)] = z[i]
    BY <1>1, <1>2, <1>3, <1>4
  <2> QED
    BY <1>1, <1>4, <2>1
<1>9. ASSUME NEW i \in DOMAIN w
      PROVE  /\ i \in Nat
             /\ \/ i \in DOMAIN x /\ w[i] = x[i]
                \/ i > Len(x) /\ i - Len(x) \in DOMAIN y /\ w[i] = y[i - Len(x)]
                \/ /\ i > Len(x) + Len(y) /\ i - Len(x) - Len(y) \in DOMAIN z
                   /\ w[i] = z[i - Len(x) - Len(y)]
  <2>1. CASE i <= Len(x)
    BY <1>4, <1>6, <2>1
  <2>2. CASE i > Len(x) /\ i <= Len(x) + Len(y)
    <3>1. i - Len(x) \in 1 .. Len(y) /\ (i - Len(x)) + Len(x) = i
      BY <1>4, <2>2
    <3> QED
      BY <1>4, <1>7, <2>2, <3>1
  <2>3. CASE i > Len(x) + Len(y)
    <3>1. /\ i - Len(x) - Len(y) \in 1 .. Len(z)
          /\ (i - Len(x) - Len(y)) + Len(x) + Len(y) = i
      BY <1>4, <1>5, <2>3
    <3> QED
      BY <1>4, <1>8, <2>3, <3>1
  <2> QED
    BY <1>4, <2>1, <2>2, <2>3
<1>10. \A i \in DOMAIN x : i \in DOMAIN w /\ i <= Len(x) /\ w[i] = x[i]
  BY <1>4, <1>5, <1>6
<1>11. \A i \in DOMAIN y : /\ i + Len(x) \in DOMAIN w
                           /\ i + Len(x) <= Len(x) + Len(y)
                           /\ w[i + Len(x)] = y[i]
  BY <1>4, <1>5, <1>7
<1>12. \A i \in DOMAIN z : /\ i + Len(x) + Len(y) \in DOMAIN w
                           /\ w[i + Len(x) + Len(y)] = z[i]
  BY <1>4, <1>5, <1>8
<1> QED
  BY <1>4, <1>9, <1>10, <1>11, <1>12

LEMMA UpwardParts ==
    ASSUME IInv, SocketInv, NEW c \in Clients
    PROVE  /\ \A i \in DOMAIN Upward(c) :
                 /\ i \in Nat
                 /\ \/ /\ i \in DOMAIN Aloft
                       /\ Upward(c)[i] = Aloft[i].msg
                    \/ /\ i > Len(Aloft) /\ i - Len(Aloft) \in DOMAIN Held[c]
                       /\ Upward(c)[i] = Held[c][i - Len(Aloft)]
                    \/ /\ i > Len(Aloft) + Len(Held[c])
                       /\ i - Len(Aloft) - Len(Held[c]) \in DOMAIN toServer[c]
                       /\ Upward(c)[i] = toServer[c][i - Len(Aloft) - Len(Held[c])]
           /\ Len(Aloft) \in Nat /\ Len(Held[c]) \in Nat
           /\ \A i \in DOMAIN Aloft : /\ i \in DOMAIN Upward(c) /\ i <= Len(Aloft)
                                      /\ Upward(c)[i] = Aloft[i].msg
           /\ \A i \in DOMAIN Held[c] :
                 /\ i + Len(Aloft) \in DOMAIN Upward(c)
                 /\ i + Len(Aloft) <= Len(Aloft) + Len(Held[c])
                 /\ Upward(c)[i + Len(Aloft)] = Held[c][i]
           /\ \A i \in DOMAIN toServer[c] :
                 /\ i + Len(Aloft) + Len(Held[c]) \in DOMAIN Upward(c)
                 /\ Upward(c)[i + Len(Aloft) + Len(Held[c])] = toServer[c][i]
<1> DEFINE x == Messages(Aloft)
<1>1. x \in Seq(Message) /\ DOMAIN x = DOMAIN Aloft /\ Len(x) = Len(Aloft)
      /\ \A i \in DOMAIN Aloft : x[i] = Aloft[i].msg
  <2>1. Aloft \in Seq(Item) /\ DOMAIN Aloft = 1 .. Len(Aloft) /\ Len(Aloft) \in Nat
        /\ \A i \in DOMAIN Aloft : Aloft[i] \in Item
    BY Ways, Positions
  <2>2. x \in [1 .. Len(Aloft) -> Message]
    BY <2>1 DEF Messages, Item
  <2>3. x \in Seq(Message)
    BY <2>1, <2>2, SeqDef
  <2>4. DOMAIN x = 1 .. Len(Aloft) /\ DOMAIN x = 1 .. Len(x) /\ Len(x) \in Nat
    BY <2>2, <2>3, Positions
  <2>5. Len(x) = Len(Aloft)
    BY <2>3, <2>2, <2>1, LenProperties
  <2> QED
    BY <2>1, <2>3, <2>4, <2>5 DEF Messages
<1>2. Held[c] \in Seq(Message) /\ toServer[c] \in Seq(Message)
  BY Ways DEF Queues, IInv, UpInv
<1>3. Upward(c) = (x \o Held[c]) \o toServer[c]
  BY DEF Upward, Aloft, Held, Joined
<1> DEFINE y == Held[c]
           z == toServer[c]
           w == Upward(c)
<1> HIDE DEF x, y, z, w
<1>4. x \in Seq(Message) /\ y \in Seq(Message) /\ z \in Seq(Message)
      /\ w = (x \o y) \o z
  BY <1>1, <1>2, <1>3 DEF y, z, w
<1>5. /\ Len(x) \in Nat /\ Len(y) \in Nat
      /\ \A i \in DOMAIN w :
            /\ i \in Nat
            /\ \/ i \in DOMAIN x /\ w[i] = x[i]
               \/ i > Len(x) /\ i - Len(x) \in DOMAIN y /\ w[i] = y[i - Len(x)]
               \/ /\ i > Len(x) + Len(y) /\ i - Len(x) - Len(y) \in DOMAIN z
                  /\ w[i] = z[i - Len(x) - Len(y)]
  BY <1>4, ThreeParts
<1>6. /\ \A i \in DOMAIN x : i \in DOMAIN w /\ i <= Len(x) /\ w[i] = x[i]
      /\ \A i \in DOMAIN y : /\ i + Len(x) \in DOMAIN w
                             /\ i + Len(x) <= Len(x) + Len(y)
                             /\ w[i + Len(x)] = y[i]
      /\ \A i \in DOMAIN z : /\ i + Len(x) + Len(y) \in DOMAIN w
                             /\ w[i + Len(x) + Len(y)] = z[i]
  BY <1>4, ThreeParts
<1>7. \A i \in DOMAIN w :
         /\ i \in Nat
         /\ \/ i \in DOMAIN Aloft /\ w[i] = Aloft[i].msg
            \/ i > Len(x) /\ i - Len(x) \in DOMAIN y /\ w[i] = y[i - Len(x)]
            \/ /\ i > Len(x) + Len(y) /\ i - Len(x) - Len(y) \in DOMAIN z
               /\ w[i] = z[i - Len(x) - Len(y)]
  BY <1>1, <1>5
<1>8. \A i \in DOMAIN Aloft : i \in DOMAIN w /\ i <= Len(x) /\ w[i] = Aloft[i].msg
  BY <1>1, <1>6
<1>9. Len(x) = Len(Aloft)
  BY <1>1
<1> QED
  BY <1>5, <1>6, <1>7, <1>8, <1>9 DEF y, z, w

(* What the socket of a client holds has not been taken from it.           *)
LEMMA SocketNumbers ==
    ASSUME IInv, SocketInv, NEW c \in Clients, NEW i \in DOMAIN toServer[c]
    PROVE  /\ toServer[c][i].from = c /\ Taken[c] \in Nat /\ sent[c] \in Nat
           /\ toServer[c][i].first = Taken[c] + i /\ toServer[c][i].last = Taken[c] + i
           /\ i \in Nat \ {0} /\ Taken[c] + i <= sent[c]
<1>1. toServer[c][i] \in Sent(c) /\ i \in 1 .. Len(toServer[c])
  BY Positions DEF IInv, UpInv, Queues
<1>2. Len(toServer[c]) \in Nat /\ sent[c] \in Nat /\ Len(toServer[c]) <= sent[c]
      /\ Taken[c] = sent[c] - Len(toServer[c])
  BY Ways DEF SocketInv, Taken
<1>3. toServer[c][i].first = Taken[c] + i /\ toServer[c][i].last = Taken[c] + i
  BY <1>2 DEF SocketInv
<1> QED
  BY <1>1, <1>2, <1>3 DEF Sent

LEMMA FlowOrders == IInv /\ FlowInv => NeverBackwards
<1> SUFFICES ASSUME IInv, FlowInv, NEW c \in Clients, NEW i \in Incoming(c)
             PROVE  /\ got[c] < Upward(c)[i].first
                    /\ \A j \in Incoming(c) :
                          i < j => Upward(c)[i].last < Upward(c)[j].first
  BY DEF NeverBackwards
<1> DEFINE a == Len(Aloft)
           b == Len(Held[c])
           w == Upward(c)
           y == Held[c]
           z == toServer[c]
           InX(k) == /\ k \in DOMAIN Aloft /\ k <= a
                     /\ w[k] = Aloft[k].msg /\ Aloft[k].msg.from = c
           InY(k) == k > a /\ k - a \in DOMAIN y /\ w[k] = y[k - a]
                     /\ k <= a + b
           InZ(k) == k > a + b /\ k - a - b \in DOMAIN z /\ w[k] = z[k - a - b]
<1>1. SocketInv /\ Flow(Aloft, Held, got, Taken)
  BY DEF FlowInv
<1>2. a \in Nat /\ b \in Nat /\ Aloft \in Seq(Item) /\ Held \in Queues
      /\ got \in Counter /\ Taken \in Counter
  BY <1>1, UpwardParts, Ways
<1>3. got[c] \in Nat /\ Taken[c] \in Nat /\ got[c] <= Taken[c]
      /\ \A d \in Clients : got[d] \in Nat /\ Taken[d] \in Nat
  BY <1>1, <1>2 DEF Counter, Flow
<1>4. ASSUME NEW k \in Incoming(c) PROVE k \in Nat /\ (InX(k) \/ InY(k) \/ InZ(k))
  <2>1. k \in DOMAIN w /\ w[k].from = c
    BY DEF Incoming
  <2>2. /\ k \in Nat
        /\ \/ k \in DOMAIN Aloft /\ w[k] = Aloft[k].msg
           \/ k > a /\ k - a \in DOMAIN y /\ w[k] = y[k - a]
           \/ k > a + b /\ k - a - b \in DOMAIN z /\ w[k] = z[k - a - b]
    BY <1>1, <2>1, UpwardParts
  <2>3. CASE k \in DOMAIN Aloft /\ w[k] = Aloft[k].msg
    <3>1. k <= a
      BY <1>2, <2>3, Positions
    <3> QED
      BY <2>1, <2>2, <2>3, <3>1
  <2>4. CASE k > a /\ k - a \in DOMAIN y /\ w[k] = y[k - a]
    <3>1. y \in Seq(Sent(c))
      BY <1>2 DEF Queues
    <3>2. k - a <= b
      BY <2>4, <3>1, Positions
    <3> QED
      BY <1>2, <2>2, <2>4, <3>2
  <2> QED
    BY <2>2, <2>3, <2>4
<1>5. ASSUME NEW k, InX(k) \/ InY(k)
      PROVE  Within(w[k], got, Taken) /\ w[k].from = c
             /\ w[k].first \in Nat /\ w[k].last \in Nat
  <2>1. CASE InX(k)
    <3>1. Within(Aloft[k].msg, got, Taken)
      BY <1>1, <2>1 DEF Flow
    <3> QED
      BY <1>2, <2>1, <3>1, FlowNumbers
  <2>2. CASE InY(k)
    <3>1. Within(y[k - a], got, Taken)
      BY <1>1, <2>2 DEF Flow
    <3>2. y[k - a].from = c /\ y[k - a].first \in Nat /\ y[k - a].last \in Nat
      BY <1>2, <2>2, FlowNumbers
    <3> QED
      BY <2>2, <3>1, <3>2
  <2> QED
    BY <1>5, <2>1, <2>2
<1>6. ASSUME NEW k, InZ(k)
      PROVE  /\ w[k].first = Taken[c] + (k - a - b) /\ w[k].last = Taken[c] + (k - a - b)
             /\ k - a - b \in Nat \ {0}
  BY <1>1, <1>6, SocketNumbers
<1> HIDE DEF a, b, w, y, z, InX, InY, InZ
<1>7. got[c] < w[i].first
  <2>1. CASE InX(i) \/ InY(i)
    BY <1>5, <2>1 DEF Within
  <2>2. CASE InZ(i)
    BY <1>3, <1>6, <2>2
  <2> QED
    BY <1>4, <2>1, <2>2
<1>8. ASSUME NEW j \in Incoming(c), i < j PROVE w[i].last < w[j].first
  <2>1. i \in Nat /\ j \in Nat
    BY <1>4
  <2>2. CASE InX(i) /\ InX(j)
    BY <1>1, <1>8, <2>2 DEF Flow, InX
  <2>3. CASE InX(i) /\ InY(j)
    BY <1>1, <2>3 DEF Flow, InX, InY, y
  <2>4. CASE (InX(i) \/ InY(i)) /\ InZ(j)
    <3>1. w[i].last <= Taken[c] /\ w[i].last \in Nat
      BY <1>5, <2>4 DEF Within
    <3> QED
      BY <1>3, <1>6, <2>4, <3>1
  <2>5. CASE InY(i) /\ InY(j)
    <3>1. i - a < j - a /\ i - a \in DOMAIN y /\ j - a \in DOMAIN y
          /\ w[i] = y[i - a] /\ w[j] = y[j - a]
      BY <1>2, <1>8, <2>1, <2>5 DEF InY
    <3>2. \A p, q \in DOMAIN y : p < q => y[p].last < y[q].first
      BY <1>1 DEF Flow, y
    <3> QED
      BY <3>1, <3>2
  <2>6. CASE InZ(i) /\ InZ(j)
    <3>1. i - a - b < j - a - b
      BY <1>2, <1>8, <2>1
    <3> QED
      BY <1>3, <1>6, <2>6, <3>1
  <2>7. ~(InX(j) /\ ~InX(i)) /\ ~(InY(j) /\ InZ(i))
    BY <1>2, <1>4, <1>8, <2>1 DEF InX, InY, InZ
  <2> QED
    BY <1>4, <2>2, <2>3, <2>4, <2>5, <2>6, <2>7
<1> QED
  BY <1>7, <1>8 DEF w

LEMMA CoverWhole == IInv /\ FlowInv /\ CoverInv => NothingLost
<1> SUFFICES ASSUME IInv, FlowInv, CoverInv, Quiet, NEW c \in Clients
             PROVE  UNION {Upward(c)[i].first .. Upward(c)[i].last : i \in Incoming(c)}
                       = got[c] + 1 .. sent[c]
  BY DEF NothingLost, Quiet
<1>1. SocketInv /\ Flow(Aloft, Held, got, Taken) /\ Covered(Aloft, Held, got, Taken)
  BY DEF FlowInv, CoverInv
<1>2. Aloft \in Seq(Item) /\ Held \in Queues /\ got \in Counter /\ Taken \in Counter
      /\ got[c] \in Nat /\ Taken[c] \in Nat /\ sent[c] \in Nat
      /\ Len(toServer[c]) \in Nat /\ Taken[c] = sent[c] - Len(toServer[c])
  BY <1>1, Ways DEF Taken, Counter
<1> DEFINE w == Upward(c)
           z == toServer[c]
           a == Len(Aloft)
           b == Len(Held[c])
<1>3. ASSUME NEW i \in Incoming(c), NEW n \in w[i].first .. w[i].last
      PROVE  n \in got[c] + 1 .. sent[c]
  <2>1. i \in DOMAIN w /\ w[i].from = c
    BY DEF Incoming
  <2>2. ASSUME NEW m \in Message, w[i] = m, m.from = c, Within(m, got, Taken)
        PROVE  n \in got[c] + 1 .. sent[c]
    <3>1. m.first \in Nat /\ m.last \in Nat
      BY DEF Message, Number
    <3>2. got[c] < m.first /\ m.last <= Taken[c] /\ Taken[c] <= sent[c]
      BY <1>2, <2>2 DEF Within
    <3>3. n \in m.first .. m.last
      BY <1>3, <2>2
    <3> QED
      BY <1>2, <3>1, <3>2, <3>3
  <2>3. CASE i \in DOMAIN Aloft /\ w[i] = Aloft[i].msg
    <3>1. Aloft[i].msg \in Message /\ Within(Aloft[i].msg, got, Taken)
      BY <1>1, <1>2, <2>3, FlowNumbers DEF Flow
    <3> QED
      BY <2>1, <2>2, <2>3, <3>1
  <2>4. CASE i - a \in DOMAIN Held[c] /\ w[i] = Held[c][i - a]
    <3>1. Held[c][i - a] \in Message /\ Within(Held[c][i - a], got, Taken)
      BY <1>1, <1>2, <2>4, FlowNumbers DEF Flow
    <3> QED
      BY <2>1, <2>2, <2>4, <3>1
  <2>5. CASE i - a - b \in DOMAIN z /\ w[i] = z[i - a - b]
    <3>1. /\ w[i].first = Taken[c] + (i - a - b) /\ w[i].last = Taken[c] + (i - a - b)
          /\ i - a - b \in Nat \ {0} /\ Taken[c] + (i - a - b) <= sent[c]
      BY <1>1, <2>5, SocketNumbers
    <3>2. n = Taken[c] + (i - a - b)
      BY <1>2, <1>3, <3>1
    <3>3. got[c] <= Taken[c]
      BY <1>1 DEF Flow
    <3> QED
      BY <1>2, <3>1, <3>2, <3>3
  <2> QED
    BY <1>1, <2>1, <2>3, <2>4, <2>5, UpwardParts
<1>4. ASSUME NEW n \in got[c] + 1 .. sent[c]
      PROVE  \E i \in Incoming(c) : n \in w[i].first .. w[i].last
  <2>1. n \in Nat /\ got[c] < n /\ n <= sent[c]
    BY <1>2
  <2>2. CASE n <= Taken[c]
    <3>1. Covers(Aloft, Held, c, n)
      BY <1>1, <2>1, <2>2 DEF Covered
    <3>2. ASSUME NEW i \in DOMAIN Aloft, Aloft[i].msg.from = c, In(n, Aloft[i].msg)
          PROVE  \E k \in Incoming(c) : n \in w[k].first .. w[k].last
      <4>1. i \in DOMAIN w /\ w[i] = Aloft[i].msg
        BY <1>1, UpwardParts
      <4>2. Aloft[i].msg.first \in Nat /\ Aloft[i].msg.last \in Nat
        BY <1>2, FlowNumbers
      <4>3. i \in Incoming(c) /\ n \in w[i].first .. w[i].last
        BY <2>1, <3>2, <4>1, <4>2 DEF Incoming, In
      <4> QED
        BY <4>3
    <3>3. ASSUME NEW i \in DOMAIN Held[c], In(n, Held[c][i])
          PROVE  \E k \in Incoming(c) : n \in w[k].first .. w[k].last
      <4>1. i + a \in DOMAIN w /\ w[i + a] = Held[c][i]
        BY <1>1, UpwardParts
      <4>2. Held[c][i].first \in Nat /\ Held[c][i].last \in Nat /\ Held[c][i].from = c
        BY <1>2, FlowNumbers
      <4>3. i + a \in Incoming(c) /\ n \in w[i + a].first .. w[i + a].last
        BY <2>1, <3>3, <4>1, <4>2 DEF Incoming, In
      <4> QED
        BY <4>3
    <3> QED
      BY <3>1, <3>2, <3>3 DEF Covers
  <2>3. CASE Taken[c] < n
    <3>1. PICK i \in DOMAIN z : i = n - Taken[c]
      <4>1. DOMAIN z = 1 .. Len(z)
        BY Positions DEF IInv, UpInv, Queues
      <4>2. n - Taken[c] \in 1 .. Len(z)
        BY <1>2, <2>1, <2>3
      <4> QED
        BY <4>1, <4>2
    <3>2. z[i].first = n /\ z[i].last = n /\ z[i].from = c
      <4>1. /\ z[i].first = Taken[c] + i /\ z[i].last = Taken[c] + i
            /\ z[i].from = c /\ i \in Nat
        BY <1>1, SocketNumbers
      <4> QED
        BY <1>2, <2>1, <3>1, <4>1
    <3>3. i + a + b \in DOMAIN w /\ w[i + a + b] = z[i]
      BY <1>1, UpwardParts
    <3>4. i + a + b \in Incoming(c) /\ n \in w[i + a + b].first .. w[i + a + b].last
      BY <2>1, <3>2, <3>3 DEF Incoming
    <3> QED
      BY <3>4
  <2> QED
    BY <1>2, <2>1, <2>2, <2>3
<1> HIDE DEF w
<1>5. UNION {w[i].first .. w[i].last : i \in Incoming(c)} = got[c] + 1 .. sent[c]
  BY <1>3, <1>4
<1> QED
  BY <1>5 DEF w

(* The inductive invariant of the way up: what the receivers have taken    *)
(* from the sockets is in its order on the way, after what the application *)
(* has seen, and it is all of it as long as nobody has left.               *)
THEOREM FlowCorrect == Spec => [](FlowInv /\ CoverInv)
<1>1. IInv /\ FlowInv /\ CoverInv /\ [Next]_vars => (IInv /\ FlowInv /\ CoverInv)'
  BY NextInv, NextFlow
<1>2. Init => IInv /\ FlowInv /\ CoverInv
  BY InitInv, InitFlow
<1> QED
  BY <1>1, <1>2, PTL DEF Spec

(* NeverBackwards: the application never sees a message twice or before an *)
(* older one of the same client, whoever leaves or is interrupted.         *)
THEOREM NeverBackwardsCorrect == Spec => []NeverBackwards
  BY IDsCorrect, FlowCorrect, FlowOrders, PTL

(* NothingLost: as long as nobody has left, what a client has written and  *)
(* the application has not seen is in the buffers on the way.              *)
THEOREM NothingLostCorrect == Spec => []NothingLost
  BY IDsCorrect, FlowCorrect, CoverWhole, PTL

-----------------------------------------------------------------------------
(***************************************************************************)
(* Responses in their order.  v: what is between the listener and each     *)
(* receiver; w: between the application and the listener; a: the last      *)
(* message each client has been answered; g: the last one of each client   *)
(* the application has seen.                                               *)
(***************************************************************************)
To(c) == {r \in Response : r.to = c}
Returns == {f \in [Clients -> Seq(Response)] : \A c \in Clients : f[c] \in Seq(To(c))}

Addressed(h) == [c \in Clients |-> IF h # <<>> /\ h[1].to = c THEN h ELSE <<>>]
Near    == Joined(down, Addressed(downHand))
Answers == downApp \o app

Back(v, w, a, g) ==
    /\ \A i \in DOMAIN w : a[w[i].to] < w[i].n /\ w[i].n <= g[w[i].to]
    /\ \A i, j \in DOMAIN w : i < j /\ w[i].to = w[j].to => w[i].n < w[j].n
    /\ \A c \in Clients : a[c] <= g[c]
    /\ \A c \in Clients : \A i \in DOMAIN v[c] : a[c] < v[c][i].n /\ v[c][i].n <= g[c]
    /\ \A c \in Clients : \A i, j \in DOMAIN v[c] : i < j => v[c][i].n < v[c][j].n
    /\ \A c \in Clients : \A i \in DOMAIN v[c], j \in DOMAIN w :
          w[j].to = c => v[c][i].n < w[j].n

BackInv == Back(Near, Answers, answered, got)

LEMMA BackNumbers ==
    ASSUME NEW v \in Returns, NEW w \in Seq(Response),
           NEW a \in Counter, NEW g \in Counter
    PROVE  /\ \A i \in DOMAIN w : w[i].to \in Clients /\ w[i].n \in Nat /\ i \in Nat
           /\ \A c \in Clients : \A i \in DOMAIN v[c] :
                 v[c][i].to = c /\ v[c][i].n \in Nat /\ i \in Nat
           /\ \A c \in Clients : a[c] \in Nat /\ g[c] \in Nat
<1>1. \A r \in Response : r.to \in Clients /\ r.n \in Nat
  BY DEF Response, Number
<1>2. \A i \in DOMAIN w : w[i] \in Response /\ i \in Nat
  BY Positions
<1>3. ASSUME NEW c \in Clients, NEW i \in DOMAIN v[c]
      PROVE  v[c][i] \in To(c) /\ i \in Nat
  BY Positions DEF Returns
<1>4. \A c \in Clients : a[c] \in Nat /\ g[c] \in Nat
  BY DEF Counter
<1> QED
  BY <1>1, <1>2, <1>3, <1>4 DEF To

LEMMA ReturnPut ==
    ASSUME NEW v \in Returns, NEW c \in Clients, NEW r \in To(c)
    PROVE  Put(v, c, r) \in Returns
<1>1. Append(v[c], r) \in Seq(To(c)) /\ Append(v[c], r) \in Seq(Response)
  BY AppendProperties DEF Returns, To
<1> QED
  BY <1>1 DEF Returns, Put

(* A receiver takes a response; its client may or may not have been there. *)
LEMMA BackTake ==
    ASSUME NEW v \in Returns, NEW w \in Seq(Response),
           NEW a \in Counter, NEW g \in Counter, NEW b \in Counter,
           NEW c \in Clients, Back(v, w, a, g), v[c] # <<>>,
           b = a \/ b = [a EXCEPT ![c] = Head(v[c]).n]
    PROVE  Back(Take(v, c), w, b, g)
<1> DEFINE u == Take(v, c)
<1>1. v[c] \in Seq(To(c)) /\ u = [v EXCEPT ![c] = Tail(v[c])]
  BY DEF Returns, Take
<1>2. u[c] = Tail(v[c]) /\ \A d \in Clients : d # c => u[d] = v[d]
  BY <1>1 DEF Returns
<1>3. /\ 1 \in DOMAIN v[c] /\ Head(v[c]) = v[c][1]
      /\ \A i \in DOMAIN u[c] : /\ i \in Nat /\ i + 1 \in DOMAIN v[c] /\ 1 < i + 1
                                /\ u[c][i] = v[c][i + 1]
  <2>1. PICK q \in Seq(To(c)) : q = v[c]
    BY <1>1
  <2>2. /\ 1 \in DOMAIN q /\ Head(q) = q[1]
        /\ \A i \in DOMAIN Tail(q) : /\ i \in Nat /\ i + 1 \in DOMAIN q /\ 1 < i + 1
                                     /\ Tail(q)[i] = q[i + 1]
    BY <2>1, AtTail
  <2> QED
    BY <1>2, <2>1, <2>2
<1> HIDE DEF u
<1>4. /\ \A d \in Clients : d # c => b[d] = a[d]
      /\ b[c] \in {a[c], v[c][1].n} /\ a[c] < v[c][1].n /\ v[c][1].n <= g[c]
      /\ a[c] \in Nat /\ v[c][1].n \in Nat /\ g[c] \in Nat
  BY <1>3, BackNumbers DEF Back, Counter
<1>5. b[c] <= v[c][1].n /\ b[c] <= g[c] /\ b[c] \in Nat
  BY <1>4
<1>6. ASSUME NEW i \in DOMAIN w PROVE b[w[i].to] < w[i].n /\ w[i].n <= g[w[i].to]
  <2>1. a[w[i].to] < w[i].n /\ w[i].n <= g[w[i].to] /\ w[i].to \in Clients
        /\ w[i].n \in Nat
    BY BackNumbers DEF Back
  <2>2. CASE w[i].to = c
    <3>1. v[c][1].n < w[i].n
      BY <1>3, <2>2 DEF Back
    <3> QED
      BY <1>4, <1>5, <2>1, <2>2, <3>1
  <2> QED
    BY <1>4, <2>1, <2>2
<1>7. ASSUME NEW d \in Clients, NEW i \in DOMAIN u[d]
      PROVE  b[d] < u[d][i].n /\ u[d][i].n <= g[d]
  <2>1. CASE d = c
    <3>1. v[c][1].n < v[c][i + 1].n /\ v[c][i + 1].n <= g[c]
          /\ v[c][i + 1].n \in Nat
      BY <1>3, <2>1, BackNumbers DEF Back
    <3> QED
      BY <1>3, <1>4, <1>5, <2>1, <3>1
  <2>2. CASE d # c
    BY <1>2, <1>4, <2>2 DEF Back
  <2> QED
    BY <2>1, <2>2
<1>8. ASSUME NEW d \in Clients, NEW i \in DOMAIN u[d], NEW j \in DOMAIN u[d], i < j
      PROVE  u[d][i].n < u[d][j].n
  <2>1. CASE d = c
    <3>1. i + 1 \in DOMAIN v[c] /\ j + 1 \in DOMAIN v[c] /\ i + 1 < j + 1
      BY <1>3, <1>8, <2>1
    <3>2. v[c][i + 1].n < v[c][j + 1].n
      BY <3>1 DEF Back
    <3> QED
      BY <1>3, <2>1, <3>2
  <2>2. CASE d # c
    BY <1>2, <1>8, <2>2 DEF Back
  <2> QED
    BY <2>1, <2>2
<1>9. ASSUME NEW d \in Clients, NEW i \in DOMAIN u[d], NEW j \in DOMAIN w, w[j].to = d
      PROVE  u[d][i].n < w[j].n
  <2>1. \A k \in DOMAIN v[d] : v[d][k].n < w[j].n
    BY <1>9 DEF Back
  <2>2. CASE d = c
    BY <1>3, <2>1, <2>2
  <2>3. CASE d # c
    BY <1>2, <2>1, <2>3
  <2> QED
    BY <2>2, <2>3
<1>10. \A d \in Clients : b[d] <= g[d]
  BY <1>4, <1>5 DEF Back
<1>11. \A i, j \in DOMAIN w : i < j /\ w[i].to = w[j].to => w[i].n < w[j].n
  BY DEF Back
<1>12. Back(u, w, b, g)
  BY <1>6, <1>7, <1>8, <1>9, <1>10, <1>11 DEF Back
<1> QED
  BY <1>12 DEF u

(* The listener takes a response, and passes it on or drops it.            *)
LEMMA BackPut ==
    ASSUME NEW v \in Returns, NEW w \in Seq(Response),
           NEW a \in Counter, NEW g \in Counter, Back(v, w, a, g), w # <<>>
    PROVE  /\ Back(v, Tail(w), a, g)
           /\ Back(Put(v, Head(w).to, Head(w)), Tail(w), a, g)
<1> DEFINE x == Tail(w)
           r == Head(w)
           c == Head(w).to
           u == Put(v, c, r)
<1>1. /\ x \in Seq(Response) /\ 1 \in DOMAIN w /\ r = w[1] /\ c = r.to
      /\ \A i \in DOMAIN x : /\ i \in Nat /\ i + 1 \in DOMAIN w /\ 1 < i + 1
                             /\ x[i] = w[i + 1]
  BY AtTail
<1>2. c \in Clients /\ r \in Response /\ r \in To(c)
  <2>1. r \in Response
    BY HeadTailProperties
  <2> QED
    BY <2>1 DEF To, Response
<1> HIDE DEF x, r, c
<1>3. v[c] \in Seq(To(c)) /\ u = [v EXCEPT ![c] = Append(v[c], r)]
  BY <1>2 DEF Returns, Put
<1>4. u[c] = Append(v[c], r) /\ \A d \in Clients : d # c => u[d] = v[d]
  BY <1>2, <1>3 DEF Returns
<1>5. /\ \A i \in DOMAIN u[c] : \/ i \in DOMAIN v[c] /\ u[c][i] = v[c][i]
                                \/ i = Len(v[c]) + 1 /\ u[c][i] = r
      /\ \A i \in DOMAIN v[c] : i < Len(v[c]) + 1
  BY <1>2, <1>3, <1>4, AtAppend
<1> HIDE DEF u
<1>6. \A i \in DOMAIN x : a[x[i].to] < x[i].n /\ x[i].n <= g[x[i].to]
  BY <1>1 DEF Back
<1>7. ASSUME NEW i \in DOMAIN x, NEW j \in DOMAIN x, i < j, x[i].to = x[j].to
      PROVE  x[i].n < x[j].n
  <2>1. i + 1 \in DOMAIN w /\ j + 1 \in DOMAIN w /\ i + 1 < j + 1
    BY <1>1, <1>7
  <2>2. w[i + 1].n < w[j + 1].n
    BY <1>1, <1>7, <2>1 DEF Back
  <2> QED
    BY <1>1, <2>2
<1>8. \A d \in Clients : \A i \in DOMAIN v[d], j \in DOMAIN x :
         x[j].to = d => v[d][i].n < x[j].n
  BY <1>1 DEF Back
<1>9. Back(v, x, a, g)
  BY <1>6, <1>7, <1>8 DEF Back
<1>10. ASSUME NEW d \in Clients, NEW i \in DOMAIN u[d]
       PROVE  a[d] < u[d][i].n /\ u[d][i].n <= g[d]
  <2>1. a[c] < r.n /\ r.n <= g[c]
    BY <1>1 DEF Back
  <2>2. CASE d = c
    BY <1>5, <2>1, <2>2 DEF Back
  <2>3. CASE d # c
    BY <1>4, <2>3 DEF Back
  <2> QED
    BY <2>2, <2>3
<1>11. ASSUME NEW d \in Clients, NEW i \in DOMAIN u[d], NEW j \in DOMAIN u[d], i < j
       PROVE  u[d][i].n < u[d][j].n
  <2>1. CASE d # c
    BY <1>4, <1>11, <2>1 DEF Back
  <2>2. CASE d = c /\ j \in DOMAIN v[c] /\ u[c][j] = v[c][j]
    <3>1. i \in DOMAIN v[c] /\ u[c][i] = v[c][i]
      BY <1>3, <1>5, <1>11, <2>2, Positions
    <3> QED
      BY <1>11, <2>2, <3>1 DEF Back
  <2>3. CASE d = c /\ j = Len(v[c]) + 1 /\ u[c][j] = r
    <3>1. i \in DOMAIN v[c] /\ u[c][i] = v[c][i]
      BY <1>5, <1>11, <2>3
    <3>2. v[c][i].n < w[1].n
      BY <1>1, <1>2, <3>1 DEF Back
    <3> QED
      BY <1>1, <2>3, <3>1, <3>2
  <2> QED
    BY <1>5, <2>1, <2>2, <2>3
<1>12. ASSUME NEW d \in Clients, NEW i \in DOMAIN u[d], NEW j \in DOMAIN x, x[j].to = d
       PROVE  u[d][i].n < x[j].n
  <2>1. \A k \in DOMAIN v[d] : v[d][k].n < x[j].n
    BY <1>8, <1>12
  <2>2. CASE d = c /\ u[c][i] = r
    <3>1. w[1].n < w[j + 1].n
      BY <1>1, <1>12, <2>2 DEF Back
    <3> QED
      BY <1>1, <2>2, <3>1
  <2> QED
    BY <1>4, <1>5, <2>1, <2>2
<1>13. \A d \in Clients : a[d] <= g[d]
  BY DEF Back
<1>14. Back(u, x, a, g)
  BY <1>6, <1>7, <1>10, <1>11, <1>12, <1>13 DEF Back
<1> QED
  BY <1>9, <1>14 DEF u, x, r, c

(* A response the listener was writing is dropped.                         *)
LEMMA BackCut ==
    ASSUME NEW v \in Returns, NEW w, NEW a, NEW g, NEW c \in Clients, NEW r \in To(c),
           Back(Put(v, c, r), w, a, g)
    PROVE  Back(v, w, a, g)
<1> DEFINE u == Put(v, c, r)
<1>1. v[c] \in Seq(To(c)) /\ u = [v EXCEPT ![c] = Append(v[c], r)]
  BY DEF Returns, Put
<1>2. u[c] = Append(v[c], r) /\ \A d \in Clients : d # c => u[d] = v[d]
  BY <1>1 DEF Returns
<1>3. \A i \in DOMAIN v[c] : i \in DOMAIN u[c] /\ u[c][i] = v[c][i]
  BY <1>1, <1>2, AtAppend
<1>4. \A d \in Clients : \A i \in DOMAIN v[d] : i \in DOMAIN u[d] /\ u[d][i] = v[d][i]
  BY <1>2, <1>3
<1>5. Back(u, w, a, g)
  OBVIOUS
<1> HIDE DEF u
<1>6. \A d \in Clients : \A i \in DOMAIN v[d] : a[d] < v[d][i].n /\ v[d][i].n <= g[d]
  BY <1>4, <1>5 DEF Back
<1>7. ASSUME NEW d \in Clients, NEW i \in DOMAIN v[d], NEW j \in DOMAIN v[d], i < j
      PROVE  v[d][i].n < v[d][j].n
  <2>1. u[d][i].n < u[d][j].n
    BY <1>4, <1>5, <1>7 DEF Back
  <2> QED
    BY <1>4, <2>1
<1>8. ASSUME NEW d \in Clients, NEW i \in DOMAIN v[d], NEW j \in DOMAIN w, w[j].to = d
      PROVE  v[d][i].n < w[j].n
  <2>1. u[d][i].n < w[j].n
    BY <1>4, <1>5, <1>8 DEF Back
  <2> QED
    BY <1>4, <2>1
<1>9. /\ \A i \in DOMAIN w : a[w[i].to] < w[i].n /\ w[i].n <= g[w[i].to]
      /\ \A i, j \in DOMAIN w : i < j /\ w[i].to = w[j].to => w[i].n < w[j].n
      /\ \A d \in Clients : a[d] <= g[d]
  BY <1>5 DEF Back
<1> QED
  BY <1>6, <1>7, <1>8, <1>9 DEF Back

(* The application has seen a message and may respond to it.               *)
LEMMA BackNew ==
    ASSUME NEW v \in Returns, NEW w \in Seq(Response),
           NEW a \in Counter, NEW g \in Counter, NEW h \in Counter,
           NEW c \in Clients, NEW r \in To(c), Back(v, w, a, g),
           g[c] < r.n, h = [g EXCEPT ![c] = r.n]
    PROVE  Back(v, w, a, h) /\ Back(v, Append(w, r), a, h)
<1> DEFINE x == Append(w, r)
<1>1. r \in Response /\ r.to = c /\ r.n \in Nat
  BY DEF To, Response, Number
<1>2. h[c] = r.n /\ \A d \in Clients : d # c => h[d] = g[d]
  BY DEF Counter
<1>3. /\ \A i \in DOMAIN x : \/ i \in DOMAIN w /\ x[i] = w[i]
                             \/ i = Len(w) + 1 /\ x[i] = r
      /\ \A i \in DOMAIN w : i < Len(w) + 1
      /\ x \in Seq(Response)
  BY <1>1, AtAppend
<1> HIDE DEF x
<1>4. \A d \in Clients : g[d] \in Nat /\ h[d] \in Nat /\ g[d] <= h[d] /\ a[d] \in Nat
                         /\ a[d] <= g[d]
  <2>1. \A d \in Clients : g[d] \in Nat /\ h[d] \in Nat /\ a[d] \in Nat /\ a[d] <= g[d]
    BY BackNumbers DEF Back
  <2>2. g[c] <= h[c]
    BY <1>1, <1>2, <2>1
  <2> QED
    BY <1>2, <2>1, <2>2
<1>5. \A d \in Clients : a[d] <= h[d]
  BY <1>4
<1>6. ASSUME NEW i \in DOMAIN w PROVE a[w[i].to] < w[i].n /\ w[i].n <= h[w[i].to]
  <2>1. a[w[i].to] < w[i].n /\ w[i].n <= g[w[i].to] /\ w[i].to \in Clients
        /\ w[i].n \in Nat
    BY BackNumbers DEF Back
  <2> QED
    BY <1>4, <2>1
<1>7. ASSUME NEW d \in Clients, NEW i \in DOMAIN v[d]
      PROVE  a[d] < v[d][i].n /\ v[d][i].n <= h[d]
  <2>1. a[d] < v[d][i].n /\ v[d][i].n <= g[d] /\ v[d][i].n \in Nat
    BY BackNumbers DEF Back
  <2> QED
    BY <1>4, <2>1
<1>8. /\ \A i, j \in DOMAIN w : i < j /\ w[i].to = w[j].to => w[i].n < w[j].n
      /\ \A d \in Clients : \A i, j \in DOMAIN v[d] : i < j => v[d][i].n < v[d][j].n
      /\ \A d \in Clients : \A i \in DOMAIN v[d], j \in DOMAIN w :
            w[j].to = d => v[d][i].n < w[j].n
  BY DEF Back
<1>9. Back(v, w, a, h)
  BY <1>5, <1>6, <1>7, <1>8 DEF Back
<1>10. \A i \in DOMAIN x : a[x[i].to] < x[i].n /\ x[i].n <= h[x[i].to]
  <2>1. a[c] < r.n /\ r.n <= h[c]
    BY <1>1, <1>2, <1>4
  <2> QED
    BY <1>1, <1>3, <1>6, <2>1
<1>11. ASSUME NEW i \in DOMAIN x, NEW j \in DOMAIN x, i < j, x[i].to = x[j].to
       PROVE  x[i].n < x[j].n
  <2>1. i \in DOMAIN w /\ x[i] = w[i]
    BY <1>3, <1>11, Positions
  <2>2. CASE x[j] = r
    <3>1. w[i].n <= g[c] /\ w[i].n \in Nat
      BY <1>1, <1>11, <2>1, <2>2, BackNumbers DEF Back
    <3> QED
      BY <1>1, <1>4, <2>1, <2>2, <3>1
  <2>3. CASE j \in DOMAIN w /\ x[j] = w[j]
    BY <1>8, <1>11, <2>1, <2>3
  <2> QED
    BY <1>3, <2>2, <2>3
<1>12. ASSUME NEW d \in Clients, NEW i \in DOMAIN v[d], NEW j \in DOMAIN x, x[j].to = d
       PROVE  v[d][i].n < x[j].n
  <2>1. CASE x[j] = r
    <3>1. v[d][i].n <= g[d] /\ v[d][i].n \in Nat /\ d = c
      BY <1>1, <1>12, <2>1, BackNumbers DEF Back
    <3> QED
      BY <1>1, <1>4, <2>1, <3>1
  <2>2. CASE j \in DOMAIN w /\ x[j] = w[j]
    BY <1>8, <1>12, <2>2
  <2> QED
    BY <1>3, <2>1, <2>2
<1>13. Back(v, x, a, h)
  BY <1>5, <1>7, <1>8, <1>10, <1>11, <1>12 DEF Back
<1> QED
  BY <1>9, <1>13 DEF x

-----------------------------------------------------------------------------
(* What the listener holds is the last response on its way to its client.  *)
LEMMA NearOne ==
    ASSUME NEW d \in Returns
    PROVE  /\ Joined(d, Addressed(<<>>)) = d
           /\ \A r \in Response : Joined(d, Addressed(<<r>>)) = Put(d, r.to, r)
<1>1. \A c \in Clients : d[c] \in Seq(Response) /\ d[c] \o <<>> = d[c]
  BY ConcatEmptySeq DEF Returns
<1>2. d = [c \in Clients |-> d[c]]
  BY DEF Returns
<1>3. Joined(d, Addressed(<<>>)) = d
  BY <1>1, <1>2 DEF Joined, Addressed
<1>4. ASSUME NEW r \in Response PROVE Joined(d, Addressed(<<r>>)) = Put(d, r.to, r)
  <2>1. r.to \in Clients /\ d[r.to] \o <<r>> = Append(d[r.to], r)
    BY <1>1, AppendIsConcat DEF Response
  <2>2. <<r>> # <<>> /\ <<r>>[1] = r
    OBVIOUS
  <2>3. \A c \in Clients : Addressed(<<r>>)[c] = IF r.to = c THEN <<r>> ELSE <<>>
    BY <2>2 DEF Addressed
  <2>4. \A c \in Clients : d[c] \o Addressed(<<r>>)[c]
                              = IF c = r.to THEN Append(d[r.to], r) ELSE d[c]
    BY <1>1, <2>1, <2>3
  <2>5. Put(d, r.to, r) = [c \in Clients |-> IF c = r.to THEN Append(d[r.to], r) ELSE d[c]]
    BY <1>2, <2>1 DEF Put
  <2> QED
    BY <2>4, <2>5 DEF Joined
<1> QED
  BY <1>3, <1>4

LEMMA WaysBack ==
    ASSUME IInv
    PROVE  /\ down \in Returns /\ Near \in Returns
           /\ downApp \in Seq(Response) /\ app \in AtMostOne(Response)
           /\ Answers \in Seq(Response)
           /\ downHand = <<>> \/ \E r \in Response : downHand = <<r>>
           /\ answered \in Counter /\ got \in Counter
           /\ \A r \in Reply : clientMap[r.id] = r.to /\ r \in To(r.to) /\ r \in Response
           /\ \A c \in Clients : Addressed(downHand)[c] \in AtMostOne(To(c))
<1>1. Reply \subseteq Response /\ \A c \in Clients : ReplyTo(c) \subseteq To(c)
  BY DEF Reply, ReplyTo, To
<1>2. down \in Returns
  <2>1. \A c \in Clients : down[c] \in Seq(To(c))
    BY <1>1, SeqGrows DEF IInv, DownInv
  <2> QED
    BY <2>1 DEF Returns, IInv, DownInv
<1>3. downApp \in Seq(Response) /\ app \in AtMostOne(Response)
      /\ downHand \in AtMostOne(Response)
  BY <1>1, SeqGrows DEF IInv, DownInv
<1>4. Answers \in Seq(Response)
  BY <1>3, JoinHand DEF Answers
<1>5. downHand = <<>> \/ \E r \in Response : downHand = <<r>>
  BY <1>3 DEF AtMostOne
<1>6. Near \in Returns
  <2>1. ASSUME NEW r \in Response PROVE Put(down, r.to, r) \in Returns
    <3>1. r.to \in Clients /\ r \in To(r.to)
      BY DEF To, Response
    <3> QED
      BY <1>2, <3>1, ReturnPut
  <2> QED
    BY <1>2, <1>5, <2>1, NearOne DEF Near
<1>7. \A c \in Clients : Addressed(downHand)[c] \in AtMostOne(To(c))
  <2>1. CASE downHand = <<>>
    BY <2>1 DEF Addressed, AtMostOne
  <2>2. ASSUME NEW r \in Response, downHand = <<r>>, NEW c \in Clients
        PROVE  Addressed(downHand)[c] \in AtMostOne(To(c))
    <3>1. downHand # <<>> /\ downHand[1] = r
      BY <2>2
    <3>2. CASE r.to = c
      <4>1. r \in To(c) /\ Addressed(downHand)[c] = <<r>>
        BY <2>2, <3>1, <3>2 DEF Addressed, To
      <4> QED
        BY <4>1, OneOrNone
    <3>3. CASE r.to # c
      BY <3>1, <3>3 DEF Addressed, AtMostOne
    <3> QED
      BY <3>2, <3>3
  <2> QED
    BY <1>5, <2>1, <2>2
<1>8. \A r \in Reply : clientMap[r.id] = r.to /\ r \in To(r.to) /\ r \in Response
  BY DEF Reply, Known, To
<1>9. answered \in Counter /\ got \in Counter
  BY DEF IInv, UpInv, DownInv, Counter
<1> QED
  BY <1>2, <1>3, <1>4, <1>5, <1>6, <1>7, <1>8, <1>9

LEMMA PipeBack ==
    ASSUME IInv, IInv', BackInv, NEW c \in Clients, ReadPipe(c)
    PROVE  BackInv'
<1>1. UNCHANGED <<downHand, Answers, got>>
  BY DEF ReadPipe, Answers, handVars, appVars
<1>2. CASE UNCHANGED <<answered, down>>
  BY <1>1, <1>2 DEF BackInv, Near
<1>3. CASE down[c] # <<>> /\ down' = Take(down, c) /\ AnswerClient(c)
  <2>1. down[c] \in Seq(To(c)) /\ Addressed(downHand)[c] \in AtMostOne(To(c))
    BY WaysBack DEF Returns
  <2>2. /\ Near[c] # <<>> /\ Head(Near[c]) = Head(down[c])
        /\ Tail(down[c]) \o Addressed(downHand)[c] = Tail(Near[c])
    BY <1>3, <2>1, TailJoin DEF Near, Joined
  <2>3. down'[c] = Tail(down[c]) /\ \A d \in Clients : d # c => down'[d] = down[d]
    BY <1>3 DEF Take, IInv, DownInv
  <2>4. \A d \in Clients : Near'[d] = IF d = c THEN Tail(Near[d]) ELSE Near[d]
    BY <1>1, <2>2, <2>3 DEF Near, Joined
  <2>5. Near' = [d \in Clients |-> Near'[d]] /\ Near = [d \in Clients |-> Near[d]]
    BY DEF Near, Joined
  <2>6. Near' = Take(Near, c)
    BY <2>4, <2>5 DEF Take
  <2>7. answered' = answered \/ answered' = [answered EXCEPT ![c] = Head(Near[c]).n]
    BY <1>3, <2>2 DEF AnswerClient
  <2>8. answered' \in Counter
    BY DEF IInv, DownInv, Counter
  <2>9. Back(Near, Answers, answered, got)
    BY DEF BackInv
  <2>10. Back(Take(Near, c), Answers, answered', got)
    BY <2>2, <2>7, <2>8, <2>9, WaysBack, BackTake
  <2> QED
    BY <1>1, <2>6, <2>10 DEF BackInv
<1> QED
  BY <1>2, <1>3 DEF ReadPipe

LEMMA ReturnBack ==
    ASSUME IInv, BackInv, ReturnResponse
    PROVE  BackInv'
<1>1. UNCHANGED <<app, answered, got>> /\ downHand = <<>>
  BY DEF ReturnResponse, AtTask, HandsFree, clientVars, appVars
<1>2. Near = down
  BY <1>1, WaysBack, NearOne DEF Near
<1>3. CASE downApp = <<>>
  <2>1. UNCHANGED <<downApp, down, downHand>>
    BY <1>3 DEF ReturnResponse
  <2> QED
    BY <1>1, <2>1 DEF BackInv, Near, Answers
<1>4. CASE downApp # <<>>
  <2> DEFINE r == Head(downApp)
  <2>1. downApp' = Tail(downApp) /\ r \in Reply
    BY <1>4, HeadTailProperties DEF ReturnResponse, IInv, DownInv
  <2>2. Answers # <<>> /\ Head(Answers) = r /\ Answers' = Tail(Answers)
    BY <1>1, <1>4, <2>1, WaysBack, TailJoin DEF Answers
  <2>3. \/ UNCHANGED <<down, downHand>>
        \/ down' = Put(down, r.to, r) /\ UNCHANGED downHand
        \/ UNCHANGED down /\ downHand' = <<r>>
    <3>1. r.kind = "disconnect" \/ r.kind # "disconnect"
      OBVIOUS
    <3>2. clientMap[r.id] = r.to
      BY <2>1, WaysBack
    <3>3. CASE r.kind = "disconnect"
      BY <1>4, <3>3 DEF ReturnResponse
    <3>4. CASE r.kind # "disconnect"
      <4>1. WriteDown(r)
        BY <1>4, <3>4 DEF ReturnResponse
      <4>2. \/ UNCHANGED <<down, downHand>>
            \/ down' = Put(down, clientMap[r.id], r) /\ UNCHANGED downHand
            \/ UNCHANGED down /\ downHand' = <<r>>
        BY <4>1 DEF WriteDown
      <4> QED
        BY <3>2, <4>2
    <3> QED
      BY <3>3, <3>4
  <2> HIDE DEF r
  <2>4. r \in Response /\ r.to \in Clients /\ r \in To(r.to)
    BY <2>1, WaysBack DEF Response
  <2>5. Near' \in {Near, Put(Near, r.to, r)}
    <3>1. CASE UNCHANGED <<down, downHand>>
      BY <3>1 DEF Near
    <3>2. CASE down' = Put(down, r.to, r) /\ UNCHANGED downHand
      <4>1. Put(down, r.to, r) \in Returns
        BY <2>4, WaysBack, ReturnPut
      <4> QED
        BY <1>1, <1>2, <3>2, <4>1, NearOne DEF Near
    <3>3. CASE UNCHANGED down /\ downHand' = <<r>>
      BY <1>2, <2>4, <3>3, WaysBack, NearOne DEF Near
    <3> QED
      BY <2>3, <3>1, <3>2, <3>3
  <2>6. Back(Near, Answers, answered, got)
    BY DEF BackInv
  <2>7. /\ Back(Near, Tail(Answers), answered, got)
        /\ Back(Put(Near, r.to, r), Tail(Answers), answered, got)
    BY <2>2, <2>6, WaysBack, BackPut
  <2> QED
    BY <1>1, <2>2, <2>5, <2>7 DEF BackInv
<1> QED
  BY <1>3, <1>4

(* The response in the listener's hand goes into the pipe or nowhere.      *)
LEMMA HandBack ==
    ASSUME IInv, BackInv, downHand # <<>>, UNCHANGED <<Answers, answered, got>>,
           downHand' = <<>>,
           down' = down \/ down' = Put(down, downHand[1].to, downHand[1])
    PROVE  BackInv'
<1>1. PICK r \in Response : downHand = <<r>>
  BY WaysBack
<1>2. downHand[1] = r /\ r.to \in Clients /\ r \in To(r.to)
  BY <1>1 DEF To, Response
<1>3. down \in Returns /\ Put(down, r.to, r) \in Returns
  BY <1>2, WaysBack, ReturnPut
<1>4. Near = Put(down, r.to, r)
  BY <1>1, <1>3, NearOne DEF Near
<1>5. Near' = down'
  BY <1>2, <1>3, NearOne DEF Near
<1>6. Back(Put(down, r.to, r), Answers, answered, got)
  BY <1>4 DEF BackInv
<1>7. Back(down, Answers, answered, got)
  BY <1>2, <1>3, <1>6, BackCut
<1> QED
  BY <1>2, <1>5, <1>6, <1>7 DEF BackInv

LEMMA GetBack ==
    ASSUME IInv, IInv', FlowInv, CoverInv, Quiet' => Quiet, BackInv, GetNextMessage
    PROVE  BackInv'
<1> DEFINE e == Head(upApp)
           c == e.msg.from
<1>1. e \in Entry /\ got[c] < e.msg.last
  BY GetFlow
<1>2. /\ UNCHANGED <<down, downHand, answered>> /\ app = <<>>
      /\ got' = [got EXCEPT ![c] = e.msg.last]
      /\ \/ UNCHANGED <<downApp, app>>
         \/ \E k \in {"answer", "disconnect"} :
               WriteToListener([kind |-> k, id |-> e.id, to |-> c, n |-> e.msg.last])
  BY DEF GetNextMessage, clientVars, handVars
<1>3. c \in Clients /\ got' \in Counter
  BY <1>1 DEF Entry, Message, IInv, UpInv, Counter
<1>4. ASSUME NEW k \in {"answer", "disconnect"}
      PROVE  /\ [kind |-> k, id |-> e.id, to |-> c, n |-> e.msg.last] \in To(c)
             /\ [kind |-> k, id |-> e.id, to |-> c, n |-> e.msg.last].n = e.msg.last
  BY <1>1 DEF Entry, Message, Response, To
<1> HIDE DEF e, c
<1>5. Back(Near, Answers, answered, got)
  BY DEF BackInv
<1>6. ASSUME NEW r \in To(c), r.n = e.msg.last
      PROVE  /\ Back(Near, Answers, answered, got')
             /\ Back(Near, Append(Answers, r), answered, got')
  BY <1>1, <1>2, <1>3, <1>5, <1>6, WaysBack, BackNew
<1>7. CASE UNCHANGED <<downApp, app>>
  BY <1>2, <1>4, <1>6, <1>7 DEF BackInv, Near, Answers
<1>8. ASSUME NEW r \in To(c), r.n = e.msg.last, WriteToListener(r) PROVE BackInv'
  <2>1. Answers = downApp /\ downApp \in Seq(Response) /\ r \in Response
    BY <1>2, WaysBack, ConcatEmptySeq DEF Answers, To
  <2>2. Answers' = Append(Answers, r)
    <3>1. CASE downApp' = Append(downApp, r) /\ app' = app
      <4>1. Append(downApp, r) \in Seq(Response)
        BY <2>1, AppendProperties
      <4> QED
        BY <1>2, <2>1, <3>1, <4>1, ConcatEmptySeq DEF Answers
    <3>2. CASE app' = <<r>> /\ downApp' = downApp
      BY <2>1, <3>2, AppendIsConcat DEF Answers
    <3> QED
      BY <1>8, <3>1, <3>2 DEF WriteToListener
  <2>3. Near' = Near
    BY <1>2 DEF Near
  <2> QED
    BY <1>2, <1>6, <1>8, <2>2, <2>3 DEF BackInv
<1> QED
  BY <1>2, <1>4, <1>7, <1>8

LEMMA SendBack ==
    ASSUME IInv, SendResponse
    PROVE  Answers' = Answers
<1>1. app # <<>> /\ app \in AtMostOne(Response) /\ downApp \in Seq(Response)
      /\ downApp' = Append(downApp, app[1]) /\ app' = <<>>
  BY WaysBack DEF SendResponse
<1>2. app[1] \in Response /\ Answers = Append(downApp, app[1])
  BY <1>1, JoinHand DEF Answers
<1>3. Append(downApp, app[1]) \in Seq(Response)
  BY <1>1, <1>2, AppendProperties
<1> QED
  BY <1>1, <1>2, <1>3, ConcatEmptySeq DEF Answers

LEMMA NextBack ==
    IInv /\ IInv' /\ FlowInv /\ CoverInv /\ BackInv /\ [Next]_vars => BackInv'
<1> SUFFICES ASSUME IInv, IInv', FlowInv, CoverInv, BackInv, [Next]_vars
             PROVE  BackInv'
  OBVIOUS
<1>1. ASSUME UNCHANGED <<down, downHand, Answers, answered, got>> PROVE BackInv'
  BY <1>1 DEF BackInv, Near
<1>2. ASSUME NEW c \in Clients, ReadPipe(c) PROVE BackInv'
  BY <1>2, PipeBack
<1>3. CASE ReturnResponse
  BY <1>3, ReturnBack
<1>4. CASE PassToReceiver
  <2>1. downHand # <<>> /\ downHand[1] \in Reply
    BY <1>4 DEF PassToReceiver, IInv, DownInv, AtMostOne
  <2>2. clientMap[downHand[1].id] = downHand[1].to
    BY <2>1, WaysBack
  <2>3. /\ UNCHANGED <<Answers, answered, got>> /\ downHand' = <<>>
        /\ down' = down \/ down' = Put(down, downHand[1].to, downHand[1])
    BY <1>4, <2>2 DEF PassToReceiver, Answers, clientVars, appVars
  <2> QED
    BY <2>1, <2>3, HandBack
<1>5. ASSUME NEW c \in Clients, Reap(c) PROVE BackInv'
  <2>1. UNCHANGED <<down, Answers, answered, got>>
        /\ (downHand' = downHand \/ (downHand # <<>> /\ downHand' = <<>>))
    <3>1. UNCHANGED <<down, downApp, app, answered, got>>
      BY <1>5 DEF Reap, clientVars, appVars
    <3>2. downHand' = downHand \/ (downHand # <<>> /\ downHand' = <<>>)
      BY <1>5 DEF Reap
    <3> QED
      BY <3>1, <3>2 DEF Answers
  <2> QED
    BY <1>1, <2>1, HandBack
<1>6. CASE GetNextMessage
  BY <1>6, GetBack, NextQuiet
<1>7. CASE SendResponse
  BY <1>1, <1>7, SendBack DEF SendResponse, clientVars, handVars
<1>8. ASSUME NEW c \in Clients, ClientStep(c) \/ ReadSocket(c) \/ PassToListener(c)
                                \/ SpawnReceiver(c) \/ Forward(c)
      PROVE  BackInv'
  BY <1>1, <1>8 DEF ClientStep, Connect, Write, Leave, ReadSocket, PassToListener,
     SpawnReceiver, Forward, Answers, clientVars, handVars, appVars
<1>9. CASE NoConnection \/ NothingToForward \/ PassToApplication \/ UNCHANGED vars
  BY <1>1, <1>9 DEF NoConnection, NothingToForward, PassToApplication, vars,
     Answers, clientVars, handVars, appVars
<1> QED
  BY <1>2, <1>3, <1>4, <1>5, <1>6, <1>7, <1>8, <1>9
     DEF Next, ReceiverStep, ListenerStep, AppStep

LEMMA InitBack == Init => BackInv
<1> SUFFICES ASSUME Init PROVE BackInv
  OBVIOUS
<1>1. Answers = <<>> /\ \A c \in Clients : Near[c] = <<>>
  <2>1. <<>> \o <<>> = <<>>
    BY ConcatEmptySeq, <<>> \in Seq({})
  <2> QED
    BY <2>1 DEF Init, Answers, Near, Joined, Addressed
<1>2. \A c \in Clients : got[c] = 0 /\ answered[c] = 0
  BY DEF Init
<1> QED
  BY <1>1, <1>2 DEF BackInv, Back

LEMMA AtFront ==
    ASSUME NEW S, NEW s \in Seq(S), NEW t \in Seq(S), NEW k \in DOMAIN s
    PROVE  k \in DOMAIN (s \o t) /\ (s \o t)[k] = s[k]
<1>1. /\ s \o t \in Seq(S) /\ Len(s \o t) = Len(s) + Len(t)
      /\ \A i \in 1 .. Len(s) + Len(t) :
            (s \o t)[i] = IF i <= Len(s) THEN s[i] ELSE t[i - Len(s)]
  BY ConcatProperties
<1>2. DOMAIN s = 1 .. Len(s) /\ Len(s) \in Nat /\ Len(t) \in Nat
      /\ DOMAIN (s \o t) = 1 .. Len(s \o t)
  BY <1>1, Positions
<1> QED
  BY <1>1, <1>2

(* The whole way of the responses to a client.                             *)
LEMMA BackOrders == IInv /\ BackInv => AnswersToTheirClient
<1> SUFFICES ASSUME IInv, BackInv PROVE AnswersToTheirClient
  OBVIOUS
<1>1. ASSUME NEW i \in DOMAIN upApp PROVE clientMap[upApp[i].id] = upApp[i].msg.from
  <2>1. upApp[i] \in Entry
    BY Positions DEF IInv, UpInv
  <2> QED
    BY <2>1 DEF Entry, Known
<1>2. ASSUME NEW c \in Clients, NEW i \in DOMAIN down[c] PROVE down[c][i].to = c
  <2>1. down[c] \in Seq(To(c))
    BY WaysBack DEF Returns
  <2> QED
    BY <2>1, Positions DEF To
<1>3. ASSUME NEW c \in Clients, NEW i \in Outgoing(c)
      PROVE  /\ answered[c] < Downward(c)[i].n /\ Downward(c)[i].n <= got[c]
             /\ \A j \in Outgoing(c) : i < j => Downward(c)[i].n < Downward(c)[j].n
  <2> DEFINE s == down[c]
             p == Len(s)
             q == Len(downHand)
             w == Downward(c)
             InN(k) == \E m \in DOMAIN Near[c] :
                          w[k] = Near[c][m] /\ m = k /\ k <= p + q
             InA(k) == /\ k > p + q /\ k - p - q \in DOMAIN Answers
                       /\ w[k] = Answers[k - p - q] /\ w[k].to = c
  <2>1. s \in Seq(Response) /\ downHand \in Seq(Response) /\ Answers \in Seq(Response)
        /\ w = (s \o downHand) \o Answers
    <3>1. s \in Seq(Response) /\ Answers \in Seq(Response)
      BY WaysBack DEF Returns
    <3>2. downHand \in Seq(Response)
      <4>1. <<>> \in Seq(Response) /\ \A r \in Response : <<r>> \in Seq(Response)
        OBVIOUS
      <4> QED
        BY <4>1, WaysBack
    <3>3. w = (s \o downHand) \o Answers
      BY DEF Downward, Answers
    <3> QED
      BY <3>1, <3>2, <3>3
  <2>2. Back(Near, Answers, answered, got)
    BY DEF BackInv
  <2>3. ASSUME NEW k \in Outgoing(c) PROVE k \in Nat /\ (InN(k) \/ InA(k))
    <3>1. k \in DOMAIN w /\ w[k].to = c
      BY DEF Outgoing
    <3>2. /\ k \in Nat /\ p \in Nat /\ q \in Nat
          /\ \/ k \in DOMAIN s /\ w[k] = s[k]
             \/ k > p /\ k - p \in DOMAIN downHand /\ w[k] = downHand[k - p]
             \/ /\ k > p + q /\ k - p - q \in DOMAIN Answers
                /\ w[k] = Answers[k - p - q]
      <4> HIDE DEF s, w
      <4> QED
        BY <2>1, <3>1, ThreeParts
    <3>3. Near[c] = s \o Addressed(downHand)[c] /\ s \in Seq(Response)
          /\ DOMAIN s = 1 .. p
      BY <2>1, Positions DEF Near, Joined
    <3>4. CASE k \in DOMAIN s /\ w[k] = s[k]
      <4>1. k \in DOMAIN Near[c] /\ Near[c][k] = s[k]
        <5>1. Addressed(downHand)[c] \in Seq(Response)
          BY <2>1 DEF Addressed
        <5> HIDE DEF s
        <5>2. k \in DOMAIN (s \o Addressed(downHand)[c])
              /\ (s \o Addressed(downHand)[c])[k] = s[k]
          BY <3>3, <3>4, <5>1, AtFront
        <5> QED
          BY <3>3, <5>2
      <4>2. k <= p + q
        BY <3>2, <3>3, <3>4
      <4> QED
        BY <3>2, <3>4, <4>1, <4>2
    <3>5. CASE k > p /\ k - p \in DOMAIN downHand /\ w[k] = downHand[k - p]
      <4>1. PICK r \in Response : downHand = <<r>>
        BY <3>5, WaysBack
      <4>2. k = p + 1 /\ w[k] = r /\ q = 1
        BY <3>2, <3>5, <4>1
      <4>3. Addressed(downHand)[c] = <<r>>
        BY <3>1, <4>1, <4>2 DEF Addressed
      <4>4. Near[c] = Append(s, r)
        BY <3>3, <4>3, AppendIsConcat
      <4>5. p + 1 \in DOMAIN Near[c] /\ Near[c][p + 1] = r
        BY <2>1, <4>4, AtAppend
      <4> QED
        BY <3>2, <4>2, <4>5
    <3> QED
      BY <3>1, <3>2, <3>4, <3>5
  <2>4. p \in Nat /\ q \in Nat
    BY <2>1, LenProperties
  <2> HIDE DEF s, p, q, w
  <2>5. answered[c] < w[i].n /\ w[i].n <= got[c]
    BY <2>2, <2>3 DEF Back
  <2>6. ASSUME NEW j \in Outgoing(c), i < j PROVE w[i].n < w[j].n
    <3>1. i \in Nat /\ j \in Nat
      BY <2>3
    <3>2. CASE InN(i) /\ InN(j)
      BY <2>2, <2>6, <3>2 DEF Back
    <3>3. CASE InN(i) /\ InA(j)
      BY <2>2, <3>3 DEF Back
    <3>4. CASE InA(i) /\ InA(j)
      <4>1. i - p - q < j - p - q
        BY <2>4, <2>6, <3>1
      <4> QED
        BY <2>2, <3>4, <4>1 DEF Back
    <3>5. ~(InA(i) /\ InN(j))
      BY <2>4, <2>6, <3>1
    <3> QED
      BY <2>3, <3>2, <3>3, <3>4, <3>5
  <2> QED
    BY <2>5, <2>6 DEF w
<1> QED
  BY <1>1, <1>2, <1>3 DEF AnswersToTheirClient

(* The responses to a client are on their way in the order of the messages *)
(* they answer, which the application has seen.                            *)
THEOREM BackCorrect == Spec => []BackInv
<1>1. /\ IInv /\ FlowInv /\ CoverInv /\ BackInv /\ [Next]_vars
      => (IInv /\ FlowInv /\ CoverInv /\ BackInv)'
  BY NextInv, NextFlow, NextBack
<1>2. Init => IInv /\ FlowInv /\ CoverInv /\ BackInv
  BY InitInv, InitFlow, InitBack
<1> QED
  BY <1>1, <1>2, PTL DEF Spec

(* AnswersToTheirClient: a client is answered about its own messages only, *)
(* each at most once and in their order, under the ID it was given.        *)
THEOREM AnswersToTheirClientCorrect == Spec => []AnswersToTheirClient
  BY IDsCorrect, BackCorrect, BackOrders, PTL
=============================================================================
