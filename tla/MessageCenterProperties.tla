---------------------- MODULE MessageCenterProperties ----------------------
(***************************************************************************)
(* What the message center owes an application and its clients.            *)
(***************************************************************************)
EXTENDS MessageCenter

(* What is between client c and the application, the oldest first: the     *)
(* pipe to the application and the listener's hand, which hold messages of *)
(* other clients, too, then the pipe from its receiver, the receiver's     *)
(* hand and the socket.                                                    *)
Messages(pipe) == [i \in DOMAIN pipe |-> pipe[i].msg]
Upward(c)   == Messages(upApp \o upHand) \o (up[c] \o held[c]) \o toServer[c]
Incoming(c) == {i \in DOMAIN Upward(c) : Upward(c)[i].from = c}

(* The responses on their way to client c, and to others, oldest first.    *)
Downward(c) == (down[c] \o downHand) \o (downApp \o app)
Outgoing(c) == {i \in DOMAIN Downward(c) : Downward(c)[i].to = c}

(* As long as nobody has left, of every message a client has written and   *)
(* the application has not seen there is one in the buffers on the way,    *)
(* and nothing else: no step between two buffers drops it.                 *)
NothingLost ==
    (\A d \in Clients : receiver[d] # "ended" /\ client[d] # "left") =>
        \A c \in Clients :
            UNION {Upward(c)[i].first .. Upward(c)[i].last : i \in Incoming(c)}
                = got[c] + 1 .. sent[c]

(* Whoever leaves, is disconnected or interrupted: of the five buffers     *)
(* none overtakes another and no message is in two of them, so that the    *)
(* application never sees a message twice or before an older one of the    *)
(* same client.                                                            *)
NeverBackwards ==
    \A c \in Clients : \A i \in Incoming(c) :
        /\ got[c] < Upward(c)[i].first
        /\ \A j \in Incoming(c) :
              i < j => Upward(c)[i].last < Upward(c)[j].first

(* A client is answered about its own messages only, each at most once and *)
(* in their order, and the ID in front of a message or a response is the   *)
(* one of the client it came from or goes to (be_process_messagecenter.h:  *)
(* clientID is the "ID of the client that sent the message").              *)
AnswersToTheirClient ==
    /\ \A i \in DOMAIN upApp : clientMap[upApp[i].id] = upApp[i].msg.from
    /\ \A c \in Clients :
        /\ \A i \in DOMAIN down[c] : down[c][i].to = c
        /\ \A i \in Outgoing(c) :
            /\ answered[c] < Downward(c)[i].n /\ Downward(c)[i].n <= got[c]
            /\ \A j \in Outgoing(c) :
                  i < j => Downward(c)[i].n < Downward(c)[j].n

(* The two pipes between listener and application never fill up on both   *)
(* of them: as the listener looks for a response after every message it    *)
(* forwards, and the application has at most one response to each, one of  *)
(* the two can always write (be_process_mclistener.cpp, 66 - 114).         *)
NeverBothBlocked == ~(Blocked(upHand, upApp) /\ Blocked(app, downApp))

(* While no receiver ends, the application gets every message of every     *)
(* client that has been accepted and that it has not disconnected.         *)
MessagesArrive ==
    <>[](\/ \E d \in Clients : receiver[d] = "ended"
         \/ \A c \in Clients :
              receiver[c] \in {"reads", "polls"} /\ c \notin pendingExit
                  => got[c] = sent[c])

(* A client the application disconnects loses its receiver, unless that is *)
(* stuck: it filled the pipe that the listener, having asked it to stop,   *)
(* does not read any more (be_process_manager.cpp, 115 - 117).             *)
DisconnectEnds ==
    <>[](\A c \in pendingExit : receiver[c] = "ended" \/ ~HasRoom(up[c]))
=============================================================================
