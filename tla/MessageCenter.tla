--------------------------- MODULE MessageCenter ---------------------------
(***************************************************************************)
(* Process::MessageCenter: the application, the listener process it forks  *)
(* (be_process_mclistener.cpp) and one receiver process per connected      *)
(* client (be_process_mcreceiver.cpp).  Messages go from a client's socket *)
(* to its receiver, through a pipe to the listener, through a pipe to the  *)
(* application; answers go the same way back.  The listener has one        *)
(* thread and turns between its three tasks.                               *)
(*                                                                         *)
(* The k-th message a client writes is the number k.  recv() returns what  *)
(* has arrived, so what the receiver sends on as one message may be        *)
(* several: [from, first, last].  A message with its length is one element *)
(* of a pipe.  The bytes of an answer, and the client ID that the listener *)
(* leaves in front of them (112 - 113), are left out.                      *)
(***************************************************************************)
EXTENDS Integers, Sequences, FiniteSets

CONSTANTS Clients,     \* clients, each of which connects at most once
          MaxSends,    \* bound: messages a client writes
          PipeCapacity \* messages a pipe holds before write() blocks

ASSUME CenterAssumption == /\ IsFiniteSet(Clients)
                           /\ MaxSends \in Nat
                           /\ PipeCapacity \in Nat \ {0}

VARIABLES
    client,      \* "out", "in" (connected) or "left" (socket closed)
    toServer,    \* socket, from each client
    receiver,    \* where the receiver of each client is
    held,        \* the message a receiver is writing to the listener
    stopping,    \* _stopRequested of each receiver
    up, down,    \* pipes from and to each receiver
    listener,    \* the listener's next task
    working,     \* receivers its ForkManager believes to be working
    unnoticed,   \* receivers that ended before the manager knew their PID
    pendingExit, \* receivers it has asked to stop
    lastID,      \* CLIENT_ID
    clientMap,   \* _clientMap: client by ID
    upHand,      \* the message the listener is writing to the application
    downHand,    \* the answer the listener is writing to a receiver
    upApp,       \* pipe from the listener to the application
    downApp,     \* pipe from the application to the listener
    app,         \* the response the application is writing
    sent,        \* messages each client has written
    got,         \* last message of each client the application has seen
    answered     \* last message each client has been sent an answer to

clientVars   == <<client, sent, answered>>
receiverVars == <<receiver, held, stopping>>
listenerVars == <<listener, unnoticed, lastID, clientMap>>
managerVars  == <<working, pendingExit>>
handVars     == <<upHand, downHand>>
appVars      == <<app, got>>
vars == <<clientVars, toServer, receiverVars, up, down,
          listenerVars, managerVars, handVars, upApp, downApp, appVars>>

IDs      == 1 .. Cardinality(Clients)
Number   == 1 .. MaxSends
Message  == [from : Clients, first : Number, last : Number]
Response == [kind : {"answer", "disconnect"}, id : IDs, to : Clients,
             n : Number]
AtMostOne(S) == {<<>>} \cup {<<x>> : x \in S}

TypeOK ==
    /\ client \in [Clients -> {"out", "in", "left"}]
    /\ toServer \in [Clients -> Seq(Message)]
    /\ receiver \in [Clients -> {"none", "refused", "reads", "polls", "ended"}]
    /\ held \in [Clients -> AtMostOne(Message)]
    /\ stopping \in [Clients -> BOOLEAN]
    /\ up \in [Clients -> Seq(Message)] /\ down \in [Clients -> Seq(Response)]
    /\ listener \in {"accepts", "forwards", "returns"}
    /\ working \subseteq Clients /\ unnoticed \subseteq Clients
    /\ pendingExit \subseteq Clients
    /\ lastID \in 0 .. Cardinality(Clients)
    /\ clientMap \in UNION {[S -> Clients] : S \in SUBSET IDs}
    /\ upHand \in AtMostOne([id : IDs, msg : Message])
    /\ downHand \in AtMostOne(Response)
    /\ upApp \in Seq([id : IDs, msg : Message]) /\ downApp \in Seq(Response)
    /\ app \in AtMostOne(Response)
    /\ sent \in [Clients -> 0 .. MaxSends] /\ got \in [Clients -> 0 .. MaxSends]
    /\ answered \in [Clients -> 0 .. MaxSends]

(* The listener has been started and listens.                              *)
Init ==
    /\ client = [c \in Clients |-> "out"]
    /\ toServer = [c \in Clients |-> <<>>] 
    /\ receiver = [c \in Clients |-> "none"]
    /\ held = [c \in Clients |-> <<>>]
    /\ stopping = [c \in Clients |-> FALSE]
    /\ up = [c \in Clients |-> <<>>] /\ down = up
    /\ listener = "accepts" /\ unnoticed = {}
    /\ working = {} /\ pendingExit = {}
    /\ lastID = 0 /\ clientMap = <<>>
    /\ upHand = <<>> /\ downHand = <<>>
    /\ upApp = <<>> /\ downApp = <<>> /\ app = <<>>
    /\ sent = [c \in Clients |-> 0] /\ got = sent /\ answered = sent

HasRoom(pipe) == Len(pipe) < PipeCapacity
Put(pipes, c, m) == [pipes EXCEPT ![c] = Append(@, m)]
Peek(pipes, c)   == pipes                                       \* a mistake
Take(pipes, c)   == [pipes EXCEPT ![c] = Tail(@)]

-----------------------------------------------------------------------------
(***************************************************************************)
(* A client: any program that writes to the socket.  One that closes it    *)
(* with answers unread resets the connection, and what it wrote last may   *)
(* be lost.  It need not read its answers: a socket does not fill here.    *)
(***************************************************************************)
Connect(c) ==
    /\ client[c] = "out"
    /\ client' = [client EXCEPT ![c] = "in"]
    /\ UNCHANGED <<sent, answered, toServer, receiverVars, up, down,
                   listenerVars, managerVars, handVars, upApp, downApp, appVars>>

Write(c) ==
    /\ client[c] = "in" /\ sent[c] < MaxSends
    /\ sent' = [sent EXCEPT ![c] = @ + 1]
    /\ toServer' = Put(toServer, c, [from |-> c, first |-> sent[c] + 1,
                                                 last |-> sent[c] + 1])
    /\ UNCHANGED <<client, answered, receiverVars, up, down,
                   listenerVars, managerVars, handVars, upApp, downApp, appVars>>

Leave(c) ==
    /\ client[c] = "in"
    /\ client' = [client EXCEPT ![c] = "left"]
    /\ \/ toServer' = toServer
       \/ answered[c] > 0 /\ toServer' = [toServer EXCEPT ![c] = <<>>]
    /\ UNCHANGED <<sent, answered, receiverVars, up, down,
                   listenerVars, managerVars, handVars, upApp, downApp, appVars>>

-----------------------------------------------------------------------------
(***************************************************************************)
(* MessageCenterReceiver::workerMain().  The check for a request to stop   *)
(* at the end of the loop is part of the step before it; a receiver asked  *)
(* to stop does not look at the pipe (be_process_worker.cpp, 124).         *)
(***************************************************************************)
Runs(c)     == receiver[c] \in {"reads", "polls"} /\ held[c] = <<>>
Idle(c)     == toServer[c] = <<>> /\ client[c] # "left"
HungUp(c)   == toServer[c] = <<>> /\ client[c] = "left"

ReceiverEnds(c) == receiver' = [receiver EXCEPT ![c] = "ended"]

(* sendMessageToManager() and its like: write what is given, or hold it    *)
(* while the pipe is full.                                                 *)
DropIfFull(c, m) == /\ UNCHANGED held                           \* a mistake
                    /\ up' = IF HasRoom(up[c]) THEN Put(up, c, m) ELSE up
WriteUp(c, m) == IF HasRoom(up[c])
                 THEN up' = Put(up, c, m) /\ UNCHANGED held
                 ELSE held' = [held EXCEPT ![c] = <<m>>] /\ UNCHANGED up

(* One recv(): any part of what has come in.                               *)
Received(c, k) == [from |-> c, first |-> toServer[c][1].first,
                   last |-> toServer[c][k].last]

ReadSocket(c) ==
    /\ Runs(c) /\ receiver[c] = "reads"
    /\ \/ /\ Idle(c)
          /\ receiver' = [receiver EXCEPT ![c] = "polls"]
          /\ UNCHANGED <<toServer, held, up>>
       \/ /\ HungUp(c)
          /\ ReceiverEnds(c)
          /\ UNCHANGED <<toServer, held, up>>
       \/ \E k \in 1 .. Len(toServer[c]) :
          /\ WriteUp(c, Received(c, k))
          /\ toServer' = [toServer EXCEPT ![c] = SubSeq(@, k + 1, Len(@))]
          /\ receiver' = [receiver EXCEPT ![c] = "polls"]
    /\ UNCHANGED <<clientVars, stopping, down,
                   listenerVars, managerVars, handVars, upApp, downApp, appVars>>

(* write() was blocked and goes on.                                        *)
PassToListener(c) ==
    /\ receiver[c] = "polls" /\ held[c] # <<>> /\ HasRoom(up[c])
    /\ up' = Put(up, c, held[c][1])
    /\ held' = [held EXCEPT ![c] = <<>>]
    /\ UNCHANGED <<clientVars, toServer, receiver, stopping, down,
                   listenerVars, managerVars, handVars, upApp, downApp, appVars>>

(* A client that has gone takes the answer or breaks the connection.       *)
AnswerClient(c) ==
    \/ answered' = [answered EXCEPT ![c] = Head(down[c]).n]
    \/ client[c] = "left" /\ UNCHANGED answered

ReadPipe(c) ==
    /\ Runs(c) /\ receiver[c] = "polls"
    /\ \/ /\ stopping[c]
          /\ ReceiverEnds(c)
          /\ UNCHANGED <<answered, down>>
       \/ /\ ~stopping[c] /\ down[c] = <<>>
          /\ receiver' = [receiver EXCEPT ![c] = "reads"]
          /\ UNCHANGED <<answered, down>>
       \/ /\ ~stopping[c] /\ down[c] # <<>>
          /\ down' = Take(down, c)
          /\ AnswerClient(c)
          /\ \/ receiver' = [receiver EXCEPT ![c] = "reads"]
             \/ client[c] = "left" /\ ReceiverEnds(c)
    /\ UNCHANGED <<client, sent, toServer, held, stopping, up,
                   listenerVars, managerVars, handVars, upApp, downApp, appVars>>

-----------------------------------------------------------------------------
(***************************************************************************)
(* MessageCenterListener::workerMain(): accept a connection, forward one   *)
(* message to the application, return one response to a client.            *)
(***************************************************************************)
HandsFree == upHand = <<>> /\ downHand = <<>>
AtTask(t) == listener = t /\ HandsFree
Waiting   == {c \in Clients : client[c] # "out" /\ receiver[c] = "none"}

WaitsInAccept == FALSE                                          \* a mistake
NoConnection ==
    /\ AtTask("accepts") /\ Waiting = {}
    /\ listener' = "forwards"
    /\ UNCHANGED <<clientVars, toServer, receiverVars, up, down,
                   unnoticed, lastID, clientMap, managerVars, handVars,
                   upApp, downApp, appVars>>

(* The map entry of a new client.                                          *)
MappedBefore(c) == [i \in DOMAIN clientMap \cup {lastID} |->     \* a mistake
                       IF i = lastID THEN c ELSE clientMap[i]]
Mapped(c) == [i \in DOMAIN clientMap \cup {lastID + 1} |->
                 IF i = lastID + 1 THEN c ELSE clientMap[i]]

(* spawnReceiver().  Without a child nobody closes the client's socket.    *)
(* The receiver of a client that has closed its socket already may end     *)
(* before startWorker() has entered its PID: nobody notices, see module    *)
(* ForkManager.                                                            *)
SpawnReceiver(c) ==
    /\ AtTask("accepts") /\ c \in Waiting
    /\ listener' = "forwards"
    /\ lastID' = lastID + 1
    /\ \/ /\ receiver' = [receiver EXCEPT ![c] = "reads"]
          /\ clientMap' = Mapped(c)
          /\ working' = working \cup {c}
          /\ UNCHANGED unnoticed
       \/ /\ HungUp(c)
          /\ ReceiverEnds(c)
          /\ clientMap' = Mapped(c)
          /\ working' = working \cup {c}
          /\ unnoticed' = unnoticed \cup {c}
       \/ /\ receiver' = [receiver EXCEPT ![c] = "refused"]
          /\ UNCHANGED <<clientMap, working, unnoticed>>
    /\ UNCHANGED <<clientVars, toServer, held, stopping, up, down,
                   pendingExit, handVars, upApp, downApp, appVars>>

(* Manager::waitForMessage(): a pipe that is at its end is ready, too.     *)
Ready == {c \in working \ pendingExit : up[c] # <<>> \/ receiver[c] = "ended"}

(* The ID whose map entry is the sender.                                   *)
FirstID(c) == CHOOSE i \in DOMAIN clientMap : TRUE                \* a mistake
IDOf(c) == CHOOSE i \in DOMAIN clientMap : clientMap[i] = c

NothingToForward ==
    /\ AtTask("forwards") /\ Ready = {}
    /\ listener' = "returns"
    /\ UNCHANGED <<clientVars, toServer, receiverVars, up, down,
                   unnoticed, lastID, clientMap, managerVars, handVars,
                   upApp, downApp, appVars>>

WriteToApplication(e) == IF HasRoom(upApp)
                         THEN upApp' = Append(upApp, e) /\ UNCHANGED upHand
                         ELSE upHand' = <<e>> /\ UNCHANGED upApp

(* One message in each turn of the loop.                                   *)
ForwardsMore == listener' = "forwards"                          \* a mistake
Forwarded    == listener' = "returns"

(* At the end of a pipe readPipe() throws and the loop goes on.            *)
Forward(c) ==
    /\ AtTask("forwards") /\ c \in Ready
    /\ Forwarded
    /\ IF up[c] = <<>> THEN UNCHANGED <<up, upHand, upApp>>
       ELSE /\ WriteToApplication([id |-> IDOf(c), msg |-> Head(up[c])])
            /\ up' = Take(up, c)
    /\ UNCHANGED <<clientVars, toServer, receiverVars, down,
                   unnoticed, lastID, clientMap, managerVars, downHand,
                   downApp, appVars>>

PassToApplication ==
    /\ upHand # <<>> /\ HasRoom(upApp)
    /\ upApp' = Append(upApp, upHand[1])
    /\ upHand' = <<>>
    /\ UNCHANGED <<clientVars, toServer, receiverVars, up, down,
                   listenerVars, managerVars, downHand, downApp, appVars>>

(* stopWorker(): SIGUSR1 ends a receiver that is blocked in write(), whose *)
(* EINTR becomes an exception; any other one has it in _stopRequested.     *)
StoppedSilently(c) == /\ pendingExit' = pendingExit \cup {c}     \* a mistake
                      /\ UNCHANGED <<stopping, receiver>>
Stopped(c) ==
    /\ pendingExit' = pendingExit \cup {c}
    /\ IF c \in working
       THEN /\ stopping' = [stopping EXCEPT ![c] = TRUE]
            /\ IF held[c] # <<>> /\ ~HasRoom(up[c])
               THEN ReceiverEnds(c) ELSE UNCHANGED receiver
       ELSE UNCHANGED <<stopping, receiver>>

(* sendMessageToWorker(): nobody reads the pipe of a receiver that ended,  *)
(* writing to it is an exception.                                          *)
WriteDown(r) ==
    LET c == clientMap[r.id]
    IN  CASE receiver[c] = "ended" -> UNCHANGED <<down, downHand>>
          [] receiver[c] # "ended" /\ HasRoom(down[c]) ->
               down' = Put(down, c, r) /\ UNCHANGED downHand
          [] OTHER -> downHand' = <<r>> /\ UNCHANGED down

ReturnResponse ==
    /\ AtTask("returns")
    /\ listener' = "accepts"
    /\ \/ /\ downApp = <<>>
          /\ UNCHANGED <<downApp, down, downHand, receiver, stopping,
                         pendingExit>>
       \/ /\ downApp # <<>> /\ Head(downApp).kind = "disconnect"
          /\ downApp' = Tail(downApp)
          /\ Stopped(clientMap[Head(downApp).id])
          /\ UNCHANGED <<down, downHand>>
       \/ /\ downApp # <<>> /\ Head(downApp).kind = "answer"
          /\ downApp' = Tail(downApp)
          /\ WriteDown(Head(downApp))
          /\ UNCHANGED <<receiver, stopping, pendingExit>>
    /\ UNCHANGED <<clientVars, toServer, held, up,
                   unnoticed, lastID, clientMap, working, upHand,
                   upApp, appVars>>

(* A blocked write() goes on, or fails: the receiver has ended.            *)
PassToReceiver ==
    /\ downHand # <<>>
    /\ LET c == clientMap[downHand[1].id]
       IN  \/ /\ receiver[c] = "ended"
              /\ UNCHANGED down
           \/ /\ receiver[c] # "ended" /\ HasRoom(down[c])
              /\ down' = Put(down, c, downHand[1])
    /\ downHand' = <<>>
    /\ UNCHANGED <<clientVars, toServer, receiverVars, up,
                   listenerVars, managerVars, upHand, upApp, downApp, appVars>>

(* ForkManager::reap().  SIGCHLD comes without SA_RESTART: a write() that  *)
(* is blocked fails, writePipe() throws, and what was being written is     *)
(* dropped.                                                                *)
Blocked(hand, pipe) == hand # <<>> /\ ~HasRoom(pipe)

Reap(c) ==
    /\ receiver[c] = "ended" /\ c \in working \ unnoticed
    /\ working' = working \ {c}
    /\ upHand' = IF Blocked(upHand, upApp) THEN <<>> ELSE upHand
    /\ downHand' = IF /\ downHand # <<>>
                      /\ Blocked(downHand, down[clientMap[downHand[1].id]])
                   THEN <<>> ELSE downHand
    /\ UNCHANGED <<clientVars, toServer, receiverVars, up, down,
                   listenerVars, pendingExit, upApp, downApp, appVars>>

-----------------------------------------------------------------------------
(***************************************************************************)
(* The application: getNextMessage(), then sendResponse(),                 *)
(* disconnectClient() or nothing.                                          *)
(***************************************************************************)
WriteToListener(r) == IF HasRoom(downApp)
                      THEN downApp' = Append(downApp, r) /\ UNCHANGED app
                      ELSE app' = <<r>> /\ UNCHANGED downApp

GetNextMessage ==
    /\ app = <<>> /\ upApp # <<>>
    /\ LET e == Head(upApp)
       IN  /\ got' = [got EXCEPT ![e.msg.from] = e.msg.last]
           /\ \/ UNCHANGED <<downApp, app>>
              \/ \E k \in {"answer", "disconnect"} :
                 WriteToListener([kind |-> k, id |-> e.id, to |-> e.msg.from,
                                  n |-> e.msg.last])
    /\ upApp' = Tail(upApp)
    /\ UNCHANGED <<clientVars, toServer, receiverVars, up, down,
                   listenerVars, managerVars, handVars>>

SendResponse ==
    /\ app # <<>> /\ HasRoom(downApp)
    /\ downApp' = Append(downApp, app[1])
    /\ app' = <<>>
    /\ UNCHANGED <<clientVars, toServer, receiverVars, up, down,
                   listenerVars, managerVars, handVars, upApp, got>>

-----------------------------------------------------------------------------
ClientStep(c)   == Connect(c) \/ Write(c) \/ Leave(c)
ReceiverStep(c) == ReadSocket(c) \/ PassToListener(c) \/ ReadPipe(c)
ListenerStep    == \/ NoConnection \/ \E c \in Clients : SpawnReceiver(c)
                   \/ NothingToForward \/ \E c \in Clients : Forward(c)
                   \/ PassToApplication \/ ReturnResponse \/ PassToReceiver
AppStep         == GetNextMessage \/ SendResponse

Next == \/ \E c \in Clients : ClientStep(c) \/ ReceiverStep(c) \/ Reap(c)
        \/ ListenerStep \/ AppStep

Spec == Init /\ [][Next]_vars

(* Every process of the message center is scheduled, signals arrive and    *)
(* the application keeps reading.  Clients may do nothing.                 *)
Fairness == /\ \A c \in Clients : WF_vars(ReceiverStep(c)) /\ WF_vars(Reap(c))
            /\ WF_vars(ListenerStep)
            /\ WF_vars(AppStep)

FairSpec == Spec /\ Fairness
=============================================================================
