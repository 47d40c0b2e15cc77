---------------------- MODULE PackageWorkersProperties ----------------------
(***************************************************************************)
(* What the pipes between a receiver and its workers are for.              *)
(***************************************************************************)
EXTENDS PackageWorkers

(* The parts of a package a worker has still to read, and those of them    *)
(* the receiver has still to write.                                        *)
Due(w) == CASE wpc[w] = "wait"  -> <<"Continue", "Count", "Data">>
            [] wpc[w] = "count" -> <<"Count", "Data">>
            [] wpc[w] = "data"  -> <<"Data">>
            [] OTHER            -> <<>>

Unsent(w) == IF chosen # w THEN <<>>
             ELSE CASE rpc = "command" -> <<"Continue", "Count", "Data">>
                    [] rpc = "count"   -> <<"Count", "Data">>
                    [] rpc = "data"    -> <<"Data">>
                    [] OTHER           -> <<>>

OnItsWay(w) == toW[w] \o Unsent(w)

(* The two ends of a pipe agree on the package between them: a worker that *)
(* lives either has nothing coming, or exactly the parts it will read next,*)
(* in their order.  The protocol has no tags: a part lost, doubled or sent *)
(* to a worker that is not reading would be taken for another part         *)
(* (workerMain(), 205 - 219, reads a count out of whatever comes second).  *)
PartsMatch ==
    \A w \in Workers : Alive(w) =>
        OnItsWay(w) = Due(w) \/ (OnItsWay(w) = <<>> /\ wpc[w] = "wait")

(* A worker waits for a package only while the receiver has its request to *)
(* read, or is giving it one, or has asked it to stop; and while there is  *)
(* a receiver it never has two requests under way, nor one with a package. *)
OneRequestAtATime ==
    \A w \in Workers : Alive(w) /\ rpc # "over" =>
        /\ Len(toM[w]) =< 1
        /\ toM[w] # <<>> => wpc[w] = "wait" /\ OnItsWay(w) = <<>>
        /\ wpc[w] = "wait" =>
             toM[w] # <<>> \/ OnItsWay(w) # <<>> \/ stop[w]

(* Stopping a worker costs no package: shutdown() stops a worker after it  *)
(* has spoken, so one that gives up waiting has nothing in its pipe and is *)
(* sent nothing (be_mpi_receiver.cpp, 628 - 647).                          *)
StopCostsNoPackage == \A w \in Workers : stop[w] => OnItsWay(w) = <<>>

(* The receiver is done with every package in hand: it finds a worker for  *)
(* it, or learns that none is left, or that it should stop trying.         *)
DeliveryEnds == rpc = "deliver" ~> rpc # "deliver"

(* A receiver that shuts down ends, and so does every worker, also those   *)
(* that the loop in shutdown() did not stop: the pipes close behind the    *)
(* receiver, from the worker forked last to the one forked first.          *)
AllEnd == rpc = "shutdown" ~> (rpc = "over" /\ \A w \in Workers : ~Alive(w))
=============================================================================
