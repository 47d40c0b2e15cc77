---------------------------- MODULE MPIConversation ----------------------------
(***************************************************************************)
(* The conversation between the distributor and one receiver, as the set   *)
(* of joint states it may be in while no package processor asks for the    *)
(* job to end (TerminateJob breaks the pairing of requests and replies).   *)
(* It is the invariant behind RepliesPaired, ShutdownHearsActiveOnly and   *)
(* NoPackageToLeaver: each of the comments in distributeWork() about       *)
(* keeping send and receive pairs in sync is one of its cases.             *)
(***************************************************************************)
EXTENDS MPIJobProperties

(* The distributor is to receive from r / has an Irecv posted for it.      *)
Expected(r)  == r \in awaited \/ r \in active
Listening(r) == r \in posted \/ r \in batch

(* What r has said that rank 0 did not receive: nothing, or one report,    *)
(* behind the OK that answers the start message.                           *)
Quiet(r)   == toD[r] = IF r \in awaited THEN <<"OK">> ELSE <<>>
Says(r, s) == toD[r] = IF r \in awaited THEN <<"OK", s>> ELSE <<s>>

Unstarted(r) ==
    /\ dpc \in {"restore", "failed", "barrier1"}
    /\ At(r, "barrier1")
    /\ toD[r] = <<>> /\ toR[r] = <<>>

Starting(r) ==
    /\ dpc = "sendStart"
    /\ toR[r] = <<>>
    /\ \/ At(r, "opening") /\ toD[r] = <<>>
       \/ At(r, "crashed") /\ toD[r] = <<"Failed">>

Opening(r) ==
    /\ At(r, "opening")
    /\ r \in awaited
    /\ toD[r] = <<>> /\ toR[r] = <<Command("Continue")>>

Crashed(r) ==
    /\ At(r, "crashed")
    /\ r \notin active
    /\ toR[r] = <<Command("Continue")>>
    /\ toD[r] = IF r \in awaited THEN <<"Failed">> ELSE <<>>

Ready(r) == At(r, "ready") /\ Expected(r) /\ Quiet(r) /\ toR[r] = <<>>

Asks(r) == At(r, "asking") /\ Expected(r) /\ Says(r, "OK") /\ toR[r] = <<>>

Answered(r) ==
    /\ At(r, "asking")
    /\ r \notin awaited
    /\ toD[r] = <<>>
    /\ \E m \in Message :
         /\ toR[r] = <<m>>
         /\ \/ m.cmd = "Continue" /\ Listening(r)
            \/ /\ m = Command("Ignore")
               /\ r \in active /\ ~Listening(r) /\ dpc # "recvStart"
            \/ m.cmd \in ExitConditions /\ m.pkg = {} /\ r \notin active

Delivers(r) ==
    /\ At(r, "deliver") /\ Listening(r)
    /\ toD[r] = <<>> /\ toR[r] = <<>>

Leaves(r) ==
    /\ rpc[r] \in {"stopping", "barrier2"}
    /\ toR[r] = <<>>
    /\ Expected(r)
    /\ \/ \E s \in Departed : Says(r, s)
       \/ r \in awaited /\ toD[r] = <<"Failed">>

(* A task whose report crossed the shutdown is sent a command that nobody  *)
(* will read.                                                              *)
Unread(r) ==
    \/ toR[r] = <<>>
    \/ \E c \in ExitConditions : toR[r] = <<Command(c)>>

Gone(r) ==
    /\ rpc[r] \in {"stopping", "barrier2"}
    /\ ~Expected(r)
    /\ toD[r] = <<>> /\ Unread(r)

Ends(r) ==
    /\ dpc \in {"final", "done"}
    /\ Unread(r)
    /\ \/ At(r, "final") /\ toD[r] = <<>>
       \/ At(r, "done") /\ Len(toD[r]) =< 1

Talk(r) ==
    \/ Unstarted(r) \/ Starting(r) \/ Ends(r)
    \/ /\ dpc \notin {"restore", "failed", "barrier1", "sendStart", "final",
                      "done"}
       /\ \/ Opening(r) \/ Crashed(r) \/ Ready(r) \/ Asks(r) \/ Answered(r)
          \/ Delivers(r) \/ Leaves(r) \/ Gone(r)

(* What the distributor keeps of its tasks at each place of its program.   *)
TasksKept ==
    /\ dpc # "recvStart" => awaited = {}
    /\ dpc # "distribute" => batch = {}
    /\ dpc \notin {"distribute", "oob", "drain"} => posted = {}
    /\ dpc \notin {"recvStart", "distribute", "oob", "drain", "shutdown"}
         => active = {}
    /\ awaited \cap active = {} /\ posted \cap batch = {}
    /\ posted \cup batch \subseteq active

(* A package is only in the hands of a receiver that is giving it out.     *)
PackageHeld == \A r \in Receivers : pkg[r] # {} => At(r, "deliver")

(* The final messages rank 0 counted are the ones it received.             *)
FinalsCounted ==
    /\ dpc \notin {"final", "done"} => finals = 0
    /\ dpc \in {"final", "done"} =>
         finals = Cardinality({r \in Receivers : At(r, "done") /\ toD[r] = <<>>})
    /\ dpc = "done" => finals = FinalsDue

Conversation == /\ \A r \in Receivers : Talk(r)
                /\ TasksKept /\ PackageHeld /\ FinalsCounted
=============================================================================
