------------------------ MODULE MPIConversation_proofs ------------------------
(***************************************************************************)
(* Proofs that the distributor and its receivers keep to the conversation  *)
(* of module MPIConversation, and so that requests and replies stay        *)
(* paired, shutdown() hears only tasks it has to dismiss, no package goes  *)
(* to a receiver that left, and rank 0 receives every final message.       *)
(*                                                                         *)
(* Assumed: no package processor throws TerminateJob.  With it a receiver  *)
(* reports twice before it is answered, and none of this holds.            *)
(***************************************************************************)
EXTENDS MPIConversation, MPIJob_proofs, FiniteSetTheorems, SequenceTheorems

(* Short sequences: what Append, Head and Tail make of them.               *)
LEMMA ShortSequences ==
    ASSUME NEW S, NEW x \in S, NEW y \in S
    PROVE  /\ Append(<<>>, x) = <<x>> /\ Append(<<x>>, y) = <<x, y>>
           /\ Head(<<x>>) = x /\ Tail(<<x>>) = <<>>
           /\ Head(<<x, y>>) = x /\ Tail(<<x, y>>) = <<y>>
           /\ <<x>> # <<>> /\ <<x, y>> # <<>>
           /\ Len(<<>>) = 0 /\ Len(<<x>>) = 1 /\ Len(<<x, y>>) = 2
<1>1. Append(<<>>, x) = <<x>>
  OBVIOUS
<1>2. Append(<<x>>, y) = <<x, y>>
  <2>1. <<x>> \in Seq(S) /\ <<x, y>> \in Seq(S)
    OBVIOUS
  <2>2. Append(<<x>>, y) \in Seq(S) /\ Len(Append(<<x>>, y)) = 2
    BY <2>1
  <2>3. Append(<<x>>, y)[1] = x /\ Append(<<x>>, y)[2] = y
    BY <2>1
  <2>4. Len(<<x, y>>) = 2 /\ <<x, y>>[1] = x /\ <<x, y>>[2] = y
    OBVIOUS
  <2>5. \A s, t \in Seq(S) :
          Len(s) = 2 /\ Len(t) = 2 /\ s[1] = t[1] /\ s[2] = t[2] => s = t
    BY SeqEqual
  <2> QED
    BY <2>1, <2>2, <2>3, <2>4, <2>5
<1>3. Head(<<x>>) = x /\ Head(<<x, y>>) = x
  OBVIOUS
<1>4. Tail(<<x>>) = <<>>
  OBVIOUS
<1>5. Tail(<<x, y>>) = <<y>>
  OBVIOUS
<1>6. <<x>> # <<>> /\ <<x, y>> # <<>>
  OBVIOUS
<1>7. Len(<<>>) = 0 /\ Len(<<x>>) = 1 /\ Len(<<x, y>>) = 2
  OBVIOUS
<1> QED
  BY <1>1, <1>2, <1>3, <1>4, <1>5, <1>6, <1>7

(* The same for reports, with their types.                                 *)
LEMMA ReportSequences ==
    \A x, y \in TaskStatus :
        /\ Append(<<>>, x) = <<x>> /\ Append(<<x>>, y) = <<x, y>>
        /\ Head(<<x>>) = x /\ Tail(<<x>>) = <<>>
        /\ Head(<<x, y>>) = x /\ Tail(<<x, y>>) = <<y>>
        /\ <<x>> # <<>> /\ <<x, y>> # <<>>
        /\ Len(<<>>) = 0 /\ Len(<<x>>) = 1
BY ShortSequences

(* The same for commands.                                                  *)
LEMMA CommandSequences ==
    \A m \in Message : /\ Append(<<>>, m) = <<m>>
                       /\ Head(<<m>>) = m /\ Tail(<<m>>) = <<>>
                       /\ <<m>> # <<>> /\ Len(<<>>) = 0 /\ Len(<<m>>) = 1
BY ShortSequences

(* The reports there are, and how distributeWork() sorts them.             *)
LEMMA ReportsKnown ==
    {"OK", "Failed", "Exit", "RequestJobTermination"} \subseteq TaskStatus
    /\ Departed = {"Exit", "Failed"} /\ Departed \subseteq TaskStatus
    /\ WantsWork = {"OK"}
BY DEF TaskStatus, Departed, WantsWork

(* The commands there are: none but Continue carries a package.            *)
LEMMA CommandsKnown ==
    /\ \A c \in TaskCommand : Command(c) \in Message /\ Command(c).cmd = c
                              /\ Command(c).pkg = {}
    /\ "Continue" \in TaskCommand /\ "Ignore" \in TaskCommand
    /\ ExitConditions \subseteq TaskCommand
    /\ "Continue" \notin ExitConditions /\ "Ignore" \notin ExitConditions
BY MessageType DEF Command, TaskCommand, ExitConditions

(* What one step may leave alone of what r and the distributor share.      *)
Untouched(r) ==
    /\ rpc'[r] = rpc[r] /\ toD'[r] = toD[r] /\ toR'[r] = toR[r]
    /\ (r \in awaited') = (r \in awaited) /\ (r \in active') = (r \in active)
    /\ (r \in posted' \/ r \in batch') = (r \in posted \/ r \in batch)

Working == {"distribute", "oob", "drain", "shutdown", "barrier2"}

(* A step that does not touch r keeps its conversation.                    *)
LEMMA UntouchedTalk ==
    ASSUME NEW r \in Receivers, Talk(r), Untouched(r),
           dpc' = dpc \/ (dpc \in Working /\ dpc' \in Working)
    PROVE  Talk(r)'
BY ZenonT(60)
   DEF Talk, Untouched, Unstarted, Starting, Ends, Opening, Crashed, Ready, Asks,
       Answered, Delivers, Leaves, Gone, Expected, Listening, Quiet, Says, Unread,
       At, Working

(* The states of the conversation in which rank 0 has something to hear.   *)
LEMMA HeardTalk ==
    ASSUME NEW r \in Receivers, Talk(r), Heard(r),
           dpc \notin {"sendStart", "final", "done"}
    PROVE  \/ Crashed(r) /\ r \in awaited
           \/ Ready(r) /\ r \in awaited
           \/ Asks(r) \/ Leaves(r)
BY ReportsKnown, ReportSequences
   DEF Talk, Heard, Unstarted, Starting, Ends, Opening, Crashed, Ready, Asks, Answered, Delivers,
       Leaves, Gone, Expected, Quiet, Says

-----------------------------------------------------------------------------
(***************************************************************************)
(* The distributor's steps, one receiver's side of each.                   *)
(***************************************************************************)
(* The reply to the start message is received.                             *)
LEMMA RecvStartTalk ==
    ASSUME TypeOK, TasksKept, NEW r \in Receivers, Talk(r), DRecvStart(r)
    PROVE  Talk(r)'
<1> USE DEF TypeOK, TasksKept, Consume
<1>1. /\ r \in awaited /\ r \notin awaited' /\ dpc = "recvStart" /\ dpc' = dpc
      /\ toD'[r] = Tail(toD[r]) /\ rpc'[r] = rpc[r] /\ toR' = toR
      /\ r \in active' <=> Head(toD[r]) = "OK"
  BY DEF DRecvStart, recvVars
<1>2. \/ Crashed(r) \/ Ready(r) \/ Asks(r) \/ Leaves(r)
  BY HeardTalk DEF DRecvStart
<1>3. CASE Crashed(r)
  BY <1>1, <1>3, ReportSequences, ReportsKnown DEF Crashed, Talk, At
<1>4. CASE Ready(r)
  BY <1>1, <1>4, ReportSequences, ReportsKnown DEF Ready, Talk, At, Quiet, Expected
<1>5. CASE Asks(r)
  BY <1>1, <1>5, ReportSequences, ReportsKnown DEF Asks, Talk, At, Says, Expected
<1>6. CASE Leaves(r)
  <2>1. CASE toD[r] = <<"Failed">>
    BY <1>1, <1>6, <2>1, ReportSequences, ReportsKnown DEF Leaves, Gone, Talk, At, Unread, Expected
  <2>2. ASSUME NEW s \in Departed, Says(r, s) PROVE Talk(r)'
    BY <1>1, <1>6, <2>2, ReportSequences, ReportsKnown DEF Leaves, Talk, At, Says, Expected
  <2> QED
    BY <1>6, <2>1, <2>2 DEF Leaves
<1> QED
  BY <1>2, <1>3, <1>4, <1>5, <1>6

(* In distributeWork() a report that is handled comes from a task that     *)
(* asks, or leaves; nothing is owed to the start message any more.         *)
LEMMA HandledTalk ==
    ASSUME TypeOK, TasksKept, NEW r \in Receivers, Talk(r), NEW s, Handles(r, s)
    PROVE  /\ r \in batch /\ r \notin posted /\ r \in active /\ r \notin awaited
           /\ dpc = "distribute" /\ toR[r] = <<>>
           /\ toD'[r] = <<>> /\ r \notin batch'
           /\ \/ Asks(r) /\ Head(toD[r]) = "OK"
              \/ Leaves(r) /\ Head(toD[r]) \in Departed
<1>1. r \in batch /\ r \notin posted /\ r \in active /\ r \notin awaited /\ dpc = "distribute"
  BY DEF Handles, TasksKept
<1>2. Asks(r) \/ Leaves(r)
  BY <1>1, HeardTalk DEF Handles
<1>3. CASE Asks(r)
  BY <1>1, <1>3, ReportSequences, ReportsKnown DEF Asks, Says, Handles, Consume, TypeOK
<1>4. CASE Leaves(r)
  BY <1>1, <1>4, ReportSequences, ReportsKnown DEF Leaves, Says, Handles, Consume, TypeOK
<1> QED
  BY <1>1, <1>2, <1>3, <1>4 DEF Handles

(* A task that leaves is gone, and owed no answer.                         *)
LEMMA TaskGoneTalk ==
    ASSUME TypeOK, TasksKept, NEW r \in Receivers, Talk(r), DTaskGone(r)
    PROVE  Talk(r)'
<1>1. Leaves(r) /\ toD'[r] = <<>> /\ toR[r] = <<>> /\ r \notin awaited /\ dpc = "distribute"
  BY HandledTalk, ReportsKnown DEF DTaskGone, Handles
<1>2. rpc'[r] = rpc[r] /\ toR' = toR /\ awaited' = awaited /\ active' = active \ {r} /\ dpc' = dpc
  BY DEF DTaskGone, recvVars
<1> QED
  BY <1>1, <1>2 DEF Talk, Leaves, Gone, Unread, Expected

(* A task told to Ignore is not listened to again.                         *)
LEMMA IgnoreTalk ==
    ASSUME TypeOK, TasksKept, NEW r \in Receivers, Talk(r), DIgnore(r)
    PROVE  Talk(r)'
<1>1. /\ Asks(r) /\ toD'[r] = <<>> /\ toR[r] = <<>> /\ r \notin awaited /\ r \in active
      /\ dpc = "distribute" /\ r \notin posted /\ r \notin batch'
  BY HandledTalk, ReportsKnown DEF DIgnore, Handles
<1>2. /\ rpc'[r] = rpc[r] /\ awaited' = awaited /\ active' = active /\ posted' = posted
      /\ dpc' = dpc /\ toR'[r] = Append(toR[r], Command("Ignore"))
  BY DEF DIgnore, recvVars, SendTo, TypeOK
<1>3. toR'[r] = <<Command("Ignore")>> /\ Command("Ignore") \in Message
  BY <1>1, <1>2, CommandSequences, CommandsKnown
<1>4. Answered(r)'
  BY <1>1, <1>2, <1>3 DEF Asks, Answered, Listening, At
<1> QED
  BY <1>1, <1>2, <1>4 DEF Talk

(* A task sent a package is listened to again.                             *)
LEMMA SendPackageTalk ==
    ASSUME TypeOK, TasksKept, NEW r \in Receivers, Talk(r), DSendPackage(r),
           PackageElements \subseteq Records
    PROVE  Talk(r)'
<1> DEFINE m == [cmd |-> "Continue", pkg |-> PackageElements]
<1>1. /\ Asks(r) /\ toD'[r] = <<>> /\ toR[r] = <<>> /\ r \notin awaited /\ dpc = "distribute"
  BY HandledTalk, ReportsKnown DEF DSendPackage, Handles
<1>2. /\ rpc'[r] = rpc[r] /\ awaited' = awaited /\ posted' = posted \cup {r}
      /\ dpc' = dpc /\ toR'[r] = Append(toR[r], m)
  BY DEF DSendPackage, recvVars, SendTo, TypeOK
<1>3. m \in Message /\ m.cmd = "Continue"
  BY MessageType
<1> HIDE DEF m
<1>4. toR'[r] = <<m>>
  BY <1>1, <1>2, <1>3, CommandSequences
<1>5. Answered(r)'
  BY <1>1, <1>2, <1>3, <1>4 DEF Asks, Answered, Listening, At
<1> QED
  BY <1>1, <1>2, <1>5 DEF Talk

(* The drain answers a task that asks with Ignore, and lets a leaver go.   *)
LEMMA DrainTalk ==
    ASSUME TypeOK, TasksKept, NEW r \in Receivers, Talk(r), DDrain(r)
    PROVE  Talk(r)'
<1>1. /\ r \in posted /\ r \in active /\ r \notin awaited /\ batch = {}
      /\ dpc = "drain" /\ dpc' = dpc /\ awaited' = awaited /\ batch' = batch
      /\ posted' = posted \ {r} /\ rpc'[r] = rpc[r]
  BY DEF DDrain, TasksKept, recvVars
<1>2. Asks(r) \/ Leaves(r)
  BY <1>1, HeardTalk DEF DDrain
<1>3. CASE Asks(r)
  <2>1. Head(toD[r]) = "OK" /\ toD'[r] = <<>>
    BY <1>1, <1>3, ReportSequences, ReportsKnown DEF Asks, Says, DDrain, Consume, TypeOK
  <2>2. active' = active /\ toR'[r] = Append(toR[r], Command("Ignore"))
    BY <2>1, ReportsKnown DEF DDrain, SendTo, TypeOK
  <2>3. toR'[r] = <<Command("Ignore")>> /\ Command("Ignore") \in Message
    BY <1>3, <2>2, CommandSequences, CommandsKnown DEF Asks
  <2>4. Answered(r)'
    BY <1>1, <1>3, <2>1, <2>2, <2>3 DEF Asks, Answered, Listening, At
  <2> QED
    BY <1>1, <2>4 DEF Talk
<1>4. CASE Leaves(r)
  <2>1. Head(toD[r]) \in Departed /\ toD'[r] = <<>>
    BY <1>1, <1>4, ReportSequences, ReportsKnown DEF Leaves, Says, DDrain, Consume, TypeOK
  <2>2. active' = active \ {r} /\ toR' = toR
    BY <2>1 DEF DDrain
  <2>3. Gone(r)'
    BY <1>1, <1>4, <2>1, <2>2 DEF Leaves, Gone, Unread, Expected
  <2> QED
    BY <1>1, <2>3 DEF Talk
<1> QED
  BY <1>2, <1>3, <1>4

(* shutdown() answers whatever an active task says with its one command.   *)
LEMMA DismissTalk ==
    ASSUME TypeOK, TasksKept, NEW r \in Receivers, Talk(r), DDismiss(r)
    PROVE  Talk(r)'
<1>1. /\ r \notin awaited /\ dpc = "shutdown" /\ dpc' = dpc /\ awaited' = awaited
      /\ active' = active \ {r} /\ rpc'[r] = rpc[r]
      /\ posted = {} /\ batch = {} /\ posted' = posted /\ batch' = batch
      /\ exitCmd \in ExitConditions
  BY DEF DDismiss, TasksKept, recvVars, TypeOK
<1>2. Asks(r) \/ Leaves(r)
  BY <1>1, HeardTalk DEF DDismiss
<1>3. toD'[r] = <<>>
  BY <1>1, <1>2, ReportSequences, ReportsKnown DEF Asks, Leaves, Says, DDismiss, Consume, TypeOK
<1>4. toR'[r] = <<Command(exitCmd)>> /\ Command(exitCmd) \in Message
  <2>1. toR'[r] = Append(toR[r], Command(exitCmd)) /\ toR[r] = <<>>
    BY <1>2 DEF DDismiss, SendTo, TypeOK, Asks, Leaves
  <2> QED
    BY <1>1, <2>1, CommandSequences, CommandsKnown
<1>5. CASE Asks(r)
  <2>1. Answered(r)'
    BY <1>1, <1>3, <1>4, <1>5, CommandsKnown DEF Asks, Answered, At
  <2> QED
    BY <1>1, <2>1 DEF Talk
<1>6. CASE Leaves(r)
  <2>1. Gone(r)'
    BY <1>1, <1>3, <1>4, <1>6 DEF Leaves, Gone, Unread, Expected
  <2> QED
    BY <1>1, <2>1 DEF Talk
<1> QED
  BY <1>2, <1>5, <1>6

-----------------------------------------------------------------------------
(***************************************************************************)
(* The receiver's steps.  Each leaves the distributor's lists alone.       *)
(***************************************************************************)
(* A receiver that cannot open its Logsheet reports, and dies.             *)
LEMMA OpenFailsTalk ==
    ASSUME TypeOK, TasksKept, NEW r \in Receivers, Talk(r), ROpenFails(r)
    PROVE  Talk(r)'
<1>1. /\ toD'[r] = Append(toD[r], "Failed") /\ toR' = toR /\ rpc'[r] = "crashed"
      /\ dpc' = dpc /\ active' = active /\ awaited' = awaited
  BY DEF ROpenFails, Report, GoTo, distVars, TypeOK
<1>2. Starting(r) \/ Opening(r)
  BY DEF Talk, ROpenFails, At, Unstarted, Ends, Crashed, Ready, Asks, Answered,
         Delivers, Leaves, Gone
<1>3. toD[r] = <<>>
  BY <1>2 DEF Starting, Opening, ROpenFails, At
<1>4. toD'[r] = <<"Failed">>
  BY <1>1, <1>3, ReportSequences, ReportsKnown
<1>5. CASE Starting(r)
  BY <1>1, <1>4, <1>5 DEF Starting, Talk, At
<1>6. CASE Opening(r) /\ ~Starting(r)
  <2>1. dpc \notin {"restore", "failed", "barrier1", "sendStart", "final", "done"}
    BY <1>6 DEF Talk, Unstarted, Ends, Opening, At
  <2>2. r \in awaited /\ r \notin active
    BY <1>6 DEF Opening, TasksKept
  <2> QED
    BY <1>1, <1>4, <1>6, <2>1, <2>2 DEF Opening, Crashed, Talk, At
<1> QED
  BY <1>2, <1>5, <1>6

(* The start message is answered once.                                     *)
LEMMA StartTalk ==
    ASSUME TypeOK, NEW r \in Receivers, Talk(r), RStart(r) \/ RStartFails(r)
    PROVE  Talk(r)'
<1>1. /\ dpc' = dpc /\ active' = active /\ awaited' = awaited
      /\ At(r, "opening") /\ toR[r] # <<>> /\ toR'[r] = Tail(toR[r])
      /\ \/ toD'[r] = Append(toD[r], "OK") /\ rpc'[r] = "ready"
         \/ toD'[r] = Append(toD[r], "Failed") /\ rpc'[r] = "stopping"
  BY DEF RStart, RStartFails, Report, TakeReply, GoTo, distVars, TypeOK
<1>2. Opening(r) /\ dpc \notin {"restore", "failed", "barrier1", "sendStart", "final", "done"}
  BY <1>1 DEF Talk, At, Unstarted, Starting, Ends, Crashed, Ready, Asks, Answered,
              Delivers, Leaves, Gone
<1>3. toR'[r] = <<>>
  BY <1>1, <1>2, CommandSequences, CommandsKnown DEF Opening
<1>5. \/ toD'[r] = <<"OK">> /\ rpc'[r] = "ready"
      \/ toD'[r] = <<"Failed">> /\ rpc'[r] = "stopping"
  <2>1. \A s \in TaskStatus : toD'[r] = Append(toD[r], s) => toD'[r] = <<s>>
    BY <1>2, ReportSequences DEF Opening
  <2> QED
    BY <1>1, <2>1, ReportsKnown
<1>4. Ready(r)' \/ Leaves(r)'
  BY <1>1, <1>2, <1>3, <1>5 DEF Opening, Ready, Leaves, Expected, Quiet, At
<1> QED
  BY <1>1, <1>2, <1>4 DEF Talk

(* The top of the request loop: the task leaves, or asks for a package.    *)
LEMMA RequestTalk ==
    ASSUME TypeOK, NEW r \in Receivers, Talk(r), RExit(r) \/ RAsk(r)
    PROVE  Talk(r)'
<1>1. /\ dpc' = dpc /\ active' = active /\ awaited' = awaited /\ toR' = toR
      /\ At(r, "ready")
      /\ \/ toD'[r] = Append(toD[r], "OK") /\ rpc'[r] = "asking"
         \/ toD'[r] = Append(toD[r], "Exit") /\ rpc'[r] = "stopping"
  BY DEF RExit, RAsk, Report, GoTo, distVars, TypeOK
<1>2. Ready(r) /\ dpc \notin {"restore", "failed", "barrier1", "sendStart", "final", "done"}
  BY <1>1 DEF Talk, At, Unstarted, Starting, Ends, Opening, Crashed, Asks, Answered,
              Delivers, Leaves, Gone
<1>3. ASSUME NEW s \in TaskStatus, toD'[r] = Append(toD[r], s) PROVE Says(r, s)'
  <2>1. "OK" \in TaskStatus
    BY ReportsKnown
  <2>2. CASE r \in awaited
    BY <1>1, <1>2, <1>3, <2>1, <2>2, ReportSequences DEF Ready, Quiet, Says
  <2>3. CASE r \notin awaited
    BY <1>1, <1>2, <1>3, <2>3, ReportSequences DEF Ready, Quiet, Says
  <2> QED
    BY <2>2, <2>3
<1>4. Asks(r)' \/ Leaves(r)'
  BY <1>1, <1>2, <1>3, ReportsKnown DEF Ready, Asks, Leaves, Expected, At
<1> QED
  BY <1>1, <1>2, <1>4 DEF Talk

(* The answer to a request is taken.                                       *)
LEMMA ReplyTalk ==
    ASSUME TypeOK, TasksKept, NEW r \in Receivers, Talk(r), RReply(r)
    PROVE  Talk(r)'
<1>1. /\ dpc' = dpc /\ active' = active /\ awaited' = awaited /\ toD' = toD
      /\ posted' = posted /\ batch' = batch
      /\ At(r, "asking") /\ toR[r] # <<>> /\ toR'[r] = Tail(toR[r])
      /\ rpc'[r] = IF Head(toR[r]).cmd = "Ignore" THEN "ready"
                   ELSE IF Head(toR[r]).cmd = "Continue" THEN "deliver" ELSE "stopping"
  BY DEF RReply, TakeReply, GoTo, distVars, TypeOK
<1>2. Answered(r) /\ dpc \notin {"restore", "failed", "barrier1", "sendStart", "final", "done"}
  BY <1>1 DEF Talk, At, Unstarted, Starting, Ends, Opening, Crashed, Ready, Asks,
              Delivers, Leaves, Gone
<1>3. PICK m \in Message :
        /\ toR[r] = <<m>>
        /\ \/ m.cmd = "Continue" /\ Listening(r)
           \/ /\ m = Command("Ignore")
              /\ r \in active /\ ~Listening(r) /\ dpc # "recvStart"
           \/ m.cmd \in ExitConditions /\ m.pkg = {} /\ r \notin active
  BY <1>2 DEF Answered
<1>4. Head(toR[r]) = m /\ toR'[r] = <<>>
  BY <1>1, <1>3, CommandSequences
<1>5. toD'[r] = <<>> /\ r \notin awaited'
  BY <1>1, <1>2 DEF Answered
<1>6. CASE m.cmd = "Continue" /\ Listening(r)
  BY <1>1, <1>2, <1>4, <1>5, <1>6 DEF Talk, Delivers, Listening, At
<1>7. CASE m = Command("Ignore") /\ r \in active
  BY <1>1, <1>2, <1>4, <1>5, <1>7, CommandsKnown DEF Talk, Ready, Expected, Quiet, At
<1>8. CASE m.cmd \in ExitConditions /\ r \notin active
  BY <1>1, <1>2, <1>4, <1>5, <1>8, CommandsKnown DEF Talk, Gone, Expected, Unread
<1> QED
  BY <1>3, <1>6, <1>7, <1>8

(* A receiver with a package in hand is one the distributor listens to: it *)
(* gives the package out, drops it, or finds that it has no worker left.   *)
LEMMA DeliverTalk ==
    ASSUME TypeOK, TasksKept, NEW r \in Receivers, Talk(r),
           RDeliveryFails(r) \/ RDrop(r) \/ RHandOver(r)
    PROVE  Talk(r)'
<1>1. /\ dpc' = dpc /\ active' = active /\ awaited' = awaited /\ toR' = toR
      /\ At(r, "deliver")
      /\ \/ toD'[r] = toD[r] /\ rpc'[r] = "ready"
         \/ toD'[r] = Append(toD[r], "Failed") /\ rpc'[r] = "stopping"
  BY DEF RDeliveryFails, RDrop, RHandOver, Delivering, Report, GoTo, distVars, TypeOK
<1>2. Delivers(r) /\ dpc \notin {"restore", "failed", "barrier1", "sendStart", "final", "done"}
  BY <1>1 DEF Talk, At, Unstarted, Starting, Ends, Opening, Crashed, Ready, Asks, Answered,
              Leaves, Gone
<1>3. r \in active /\ r \notin awaited
  BY <1>2 DEF Delivers, Listening, TasksKept
<1>4. Ready(r)' \/ Leaves(r)'
  BY <1>1, <1>2, <1>3, ReportSequences, ReportsKnown
     DEF Delivers, Ready, Leaves, Expected, Quiet, Says, At
<1> QED
  BY <1>1, <1>2, <1>4 DEF Talk

(* Stopping the workers says nothing to the distributor.                   *)
LEMMA StopWorkersTalk ==
    ASSUME TypeOK, NEW r \in Receivers, Talk(r), RStopWorkers(r)
    PROVE  Talk(r)'
<1>1. /\ dpc' = dpc /\ active' = active /\ awaited' = awaited /\ toR' = toR /\ toD' = toD
      /\ At(r, "stopping") /\ rpc'[r] = "barrier2"
  BY DEF RStopWorkers, GoTo, distVars, TypeOK
<1>2. /\ Leaves(r) \/ Gone(r)
      /\ dpc \notin {"restore", "failed", "barrier1", "sendStart", "final", "done"}
  BY <1>1 DEF Talk, At, Unstarted, Starting, Ends, Opening, Crashed, Ready, Asks, Answered,
              Delivers
<1> QED
  BY <1>1, <1>2 DEF Talk, Leaves, Gone, Expected, Says, Unread

(* The final message: one per receiver, behind nothing.                    *)
LEMMA FinalTalk ==
    ASSUME TypeOK, NEW r \in Receivers, Talk(r), RFinal(r) \/ DFinal(r)
    PROVE  Talk(r)' /\ dpc \in {"final", "done"} /\ dpc' = dpc
<1>1. CASE RFinal(r)
  <2>1. /\ dpc' = dpc /\ toR' = toR /\ At(r, "final") /\ rpc'[r] = "done"
        /\ toD'[r] = Append(toD[r], status[r]) /\ status[r] \in TaskStatus
    BY <1>1 DEF RFinal, Report, GoTo, distVars, TypeOK
  <2>2. Ends(r) /\ toD[r] = <<>>
    BY <2>1 DEF Talk, At, Unstarted, Starting, Ends, Opening, Crashed, Ready, Asks, Answered,
                Delivers, Leaves, Gone
  <2>3. Len(toD'[r]) = 1
    BY <2>1, <2>2, ReportSequences
  <2> QED
    BY <2>1, <2>2, <2>3 DEF Talk, Ends, Unread, At
<1>2. CASE DFinal(r)
  <2>1. /\ dpc = "final" /\ dpc' = dpc /\ toR' = toR /\ rpc' = rpc /\ toD[r] # <<>>
        /\ toD'[r] = Tail(toD[r]) /\ toD[r] \in Seq(TaskStatus)
    BY <1>2 DEF DFinal, Heard, Consume, recvVars, TypeOK
  <2>2. Ends(r) /\ At(r, "done") /\ Len(toD[r]) =< 1
    BY <2>1 DEF Talk, Unstarted, Starting, Ends
  <2>3. Len(toD'[r]) =< 1
    BY <2>1, <2>2
  <2> QED
    BY <2>1, <2>2, <2>3 DEF Talk, Ends, Unread, At
<1> QED
  BY <1>1, <1>2

(* A package holds records of the store: the chunk stops at its end.       *)
LEMMA PackageInStore ==
    ASSUME TypeInv
    PROVE  PackageElements \subseteq Records
<1>1. /\ cursor \in Nat /\ remaining \in Nat /\ cursor >= 1
      /\ cursor + remaining =< NumRecords + 1
  BY RecordStoreAssumption DEF TypeInv, TypeOK, SourceTypeOK, SourceInv
<1>2. KeyCount \in Nat /\ KeyCount =< remaining
  BY <1>1, RecordStoreAssumption DEF KeyCount
<1> QED
  BY <1>1, <1>2, RecordStoreAssumption DEF PackageElements, Records

-----------------------------------------------------------------------------
(***************************************************************************)
(* Every step keeps every receiver to its side of the conversation: a step *)
(* of, or about, one receiver does not touch the others.                   *)
(***************************************************************************)
LEMMA NextTalk ==
    ASSUME "Terminate" \notin Faults, TypeInv, Conversation, [Next]_vars
    PROVE  \A r \in Receivers : Talk(r)'
<1> USE DEF TypeInv, Conversation, TypeOK, TasksKept
<1>o. ASSUME NEW r \in Receivers, Talk(r)', dpc' = dpc,
             \A s \in Receivers \ {r} : Untouched(s)
      PROVE  \A s \in Receivers : Talk(s)'
  BY <1>o, UntouchedTalk
<1>s. ASSUME \A r \in Receivers : Untouched(r),
             dpc' = dpc \/ (dpc \in Working /\ dpc' \in Working)
      PROVE  \A r \in Receivers : Talk(r)'
  BY <1>s, UntouchedTalk
<1>1. ASSUME NextJob PROVE \A r \in Receivers : Talk(r)'
  BY <1>1 DEF NextJob, StartLocation, Talk, Unstarted, At
<1>2. ASSUME DRestore PROVE \A r \in Receivers : Talk(r)'
  BY <1>2 DEF DRestore, recvVars, Talk, Unstarted, Starting, Ends, At
<1>3. ASSUME Barrier1 PROVE \A r \in Receivers : Talk(r)'
  BY <1>3 DEF Barrier1, Talk, Unstarted, Starting, Ends, At
<1>4. ASSUME DSendStart PROVE \A r \in Receivers : Talk(r)'
  <2> SUFFICES ASSUME NEW r \in Receivers PROVE Talk(r)'
    OBVIOUS
  <2>1. /\ dpc = "sendStart" /\ dpc' = "recvStart" /\ awaited' = Receivers /\ active' = active
        /\ toR'[r] = Append(toR[r], Command("Continue")) /\ toD' = toD /\ rpc' = rpc
    BY <1>4 DEF DSendStart, recvVars
  <2>2. Starting(r)
    BY <2>1 DEF Talk, Unstarted, Ends
  <2>3. toR'[r] = <<Command("Continue")>> /\ active = {}
    BY <2>1, <2>2, CommandSequences, CommandsKnown DEF Starting
  <2> QED
    BY <2>1, <2>2, <2>3 DEF Starting, Talk, Opening, Crashed, At
<1>5. ASSUME NEW r \in Receivers, DRecvStart(r) PROVE \A s \in Receivers : Talk(s)'
  <2>1. \A s \in Receivers \ {r} : Untouched(s)
    BY <1>5 DEF DRecvStart, Untouched, recvVars, Consume
  <2>2. dpc' = dpc
    BY <1>5 DEF DRecvStart
  <2> QED
    BY <1>5, <1>o, <2>1, <2>2, RecvStartTalk
<1>6. ASSUME DStarted PROVE \A r \in Receivers : Talk(r)'
  <2> SUFFICES ASSUME NEW r \in Receivers PROVE Talk(r)'
    OBVIOUS
  <2>1. /\ dpc = "recvStart" /\ dpc' \in {"drain", "distribute"} /\ awaited' = awaited
        /\ active' = active /\ posted' = active /\ toR' = toR /\ toD' = toD /\ rpc' = rpc
        /\ posted = {} /\ batch = {}
    BY <1>6 DEF DStarted, recvVars
  <2> QED
    BY <2>1 DEF Talk, Unstarted, Starting, Ends, Opening, Crashed, Ready, Asks, Answered,
                Delivers, Leaves, Gone, Expected, Listening, Quiet, Says, Unread, At
<1>7. ASSUME DTestsome PROVE \A r \in Receivers : Talk(r)'
  <2>1. \A r \in Receivers : Untouched(r)
    BY <1>7 DEF DTestsome, InLoop, Untouched, recvVars
  <2> QED
    BY <1>7, <1>s, <2>1 DEF DTestsome
<1>8. ASSUME NEW r \in Receivers, DTaskGone(r) PROVE \A s \in Receivers : Talk(s)'
  <2>1. \A s \in Receivers \ {r} : Untouched(s)
    BY <1>8 DEF DTaskGone, Handles, Untouched, recvVars, Consume
  <2>2. dpc' = dpc
    BY <1>8 DEF DTaskGone
  <2> QED
    BY <1>8, <1>o, <2>1, <2>2, TaskGoneTalk
<1>9. ASSUME NEW r \in Receivers, DTaskTerminates(r) PROVE FALSE
  BY <1>9, HandledTalk, ReportsKnown DEF DTaskTerminates, Handles
<1>10. ASSUME NEW r \in Receivers, DIgnore(r) PROVE \A s \in Receivers : Talk(s)'
  <2>1. \A s \in Receivers \ {r} : Untouched(s)
    BY <1>10 DEF DIgnore, Handles, Untouched, recvVars, Consume, SendTo
  <2>2. dpc' = dpc
    BY <1>10 DEF DIgnore
  <2> QED
    BY <1>10, <1>o, <2>1, <2>2, IgnoreTalk
<1>11. ASSUME NEW r \in Receivers, DSendPackage(r) PROVE \A s \in Receivers : Talk(s)'
  <2>1. \A s \in Receivers \ {r} : Untouched(s)
    BY <1>11 DEF DSendPackage, Handles, Untouched, recvVars, Consume, SendTo
  <2>2. dpc' = dpc
    BY <1>11 DEF DSendPackage
  <2>3. PackageElements \subseteq Records
    BY PackageInStore
  <2> QED
    BY <1>11, <1>o, <2>1, <2>2, <2>3, SendPackageTalk
<1>12. ASSUME DLeaveLoop \/ DSendOOB \/ DBeginShutdown \/ DArrive
       PROVE  \A r \in Receivers : Talk(r)'
  <2>1. \A r \in Receivers : Untouched(r)
    BY <1>12 DEF DLeaveLoop, DSendOOB, DBeginShutdown, DArrive, Untouched, recvVars
  <2>2. dpc \in Working /\ dpc' \in Working
    BY <1>12 DEF DLeaveLoop, InLoop, DSendOOB, DBeginShutdown, DArrive, Working
  <2> QED
    BY <1>s, <2>1, <2>2
<1>13. ASSUME NEW r \in Receivers, DDrain(r) PROVE \A s \in Receivers : Talk(s)'
  <2>1. \A s \in Receivers \ {r} : Untouched(s)
    BY <1>13 DEF DDrain, Untouched, recvVars, Consume, SendTo
  <2>2. dpc' = dpc
    BY <1>13 DEF DDrain
  <2> QED
    BY <1>13, <1>o, <2>1, <2>2, DrainTalk
<1>14. ASSUME NEW r \in Receivers, DDismiss(r) PROVE \A s \in Receivers : Talk(s)'
  <2>1. \A s \in Receivers \ {r} : Untouched(s)
    BY <1>14 DEF DDismiss, Untouched, recvVars, Consume, SendTo
  <2>2. dpc' = dpc
    BY <1>14 DEF DDismiss
  <2> QED
    BY <1>14, <1>o, <2>1, <2>2, DismissTalk
<1>15. ASSUME Barrier2 PROVE \A r \in Receivers : Talk(r)'
  <2> SUFFICES ASSUME NEW r \in Receivers PROVE Talk(r)'
    OBVIOUS
  <2>1. /\ dpc = "barrier2" /\ dpc' = "final" /\ At(r, "barrier2") /\ rpc'[r] = "final"
        /\ toD' = toD /\ toR' = toR /\ ~Expected(r)
    BY <1>15 DEF Barrier2, Expected
  <2>2. Gone(r)
    BY <2>1 DEF Talk, At, Unstarted, Starting, Ends, Opening, Crashed, Ready, Asks, Answered,
                Delivers, Leaves
  <2> QED
    BY <2>1, <2>2 DEF Gone, Talk, Ends, Unread, At
<1>16. ASSUME NEW r \in Receivers, DFinal(r) \/ RFinal(r) PROVE \A s \in Receivers : Talk(s)'
  <2>1. \A s \in Receivers \ {r} : Untouched(s)
    BY <1>16 DEF DFinal, RFinal, Untouched, recvVars, distVars, Consume, Report, GoTo
  <2> QED
    BY <1>16, <1>o, <2>1, FinalTalk
<1>17. ASSUME DEnd PROVE \A r \in Receivers : Talk(r)'
  BY <1>17 DEF DEnd, recvVars, Talk, Unstarted, Starting, Ends, Unread, At
<1>18. ASSUME NEW r \in Receivers,
              \/ ROpenFails(r) \/ RStartFails(r) \/ RStart(r) \/ RExit(r) \/ RAsk(r)
              \/ RReply(r) \/ RDeliveryFails(r) \/ RDrop(r) \/ RHandOver(r) \/ RStopWorkers(r)
       PROVE  \A s \in Receivers : Talk(s)'
  <2>1. dpc' = dpc
    BY <1>18 DEF ROpenFails, RStartFails, RStart, RExit, RAsk, RReply, RDeliveryFails, RDrop,
                 RHandOver, RStopWorkers, distVars
  <2>2. ASSUME NEW s \in Receivers \ {r} PROVE Untouched(s)
    BY <1>18 DEF ROpenFails, RStartFails, RStart, RExit, RAsk, RReply, RDeliveryFails, RDrop,
                 RHandOver, RStopWorkers, distVars, Untouched, Report, TakeReply, GoTo
  <2>3. Talk(r)'
    BY <1>18, OpenFailsTalk, StartTalk, RequestTalk, ReplyTalk, DeliverTalk, StopWorkersTalk
  <2> QED
    BY <1>o, <2>1, <2>2, <2>3
<1>19. ASSUME NEW r \in Receivers, RTerminate(r) PROVE FALSE
  BY <1>19 DEF RTerminate
<1>20. ASSUME \/ SignalD \/ UNCHANGED vars
              \/ \E r \in Receivers : SignalR(r) \/ RWorkerStops(r)
       PROVE  \A r \in Receivers : Talk(r)'
  <2>1. dpc' = dpc /\ \A r \in Receivers : Untouched(r)
    BY <1>20 DEF SignalD, SignalR, RWorkerStops, vars, distVars, recvVars, Untouched
  <2> QED
    BY <1>s, <2>1
<1> HIDE DEF TypeInv, Conversation, TypeOK, TasksKept
<1> QED
  BY <1>1, <1>2, <1>3, <1>4, <1>5, <1>6, <1>7, <1>8, <1>9, <1>10, <1>11, <1>12, <1>13,
     <1>14, <1>15, <1>16, <1>17, <1>18, <1>19, <1>20
     DEF Next, DistributorStep, ReceiverStep, FaultStep, Environment, Resume, Crash, Over

-----------------------------------------------------------------------------
(* What rank 0 keeps of its tasks fits the place it is at.                 *)
LEMMA NextTasksKept ==
    ASSUME TypeOK, TasksKept, [Next]_vars
    PROVE  TasksKept'
<1> USE DEF TypeOK, TasksKept, distVars
<1>1. ASSUME NextJob PROVE TasksKept'
  BY <1>1 DEF NextJob, StartLocation
<1>2. ASSUME \/ DRestore \/ Barrier1 \/ DSendStart \/ DStarted \/ DTestsome \/ DLeaveLoop
             \/ DSendOOB \/ DBeginShutdown \/ DArrive \/ Barrier2 \/ DEnd
      PROVE  TasksKept'
  BY <1>2 DEF DRestore, Barrier1, DSendStart, DStarted, DTestsome, InLoop, DLeaveLoop, DSendOOB,
              DBeginShutdown, Drained, DArrive, Barrier2, DEnd
<1>3. ASSUME NEW r \in Receivers,
             \/ DRecvStart(r) \/ DTaskGone(r) \/ DTaskTerminates(r) \/ DIgnore(r)
             \/ DSendPackage(r) \/ DDrain(r) \/ DDismiss(r) \/ DFinal(r)
      PROVE  TasksKept'
  <2>1. CASE DRecvStart(r)
    BY <2>1 DEF DRecvStart
  <2>2. CASE DTaskGone(r)
    BY <2>2 DEF DTaskGone, Handles
  <2>3. CASE DTaskTerminates(r)
    BY <2>3 DEF DTaskTerminates, Handles
  <2>4. CASE DIgnore(r)
    BY <2>4 DEF DIgnore, Handles
  <2>5. CASE DSendPackage(r)
    BY <2>5 DEF DSendPackage, Handles
  <2>6. CASE DDrain(r)
    BY <2>6 DEF DDrain
  <2>7. CASE DDismiss(r)
    BY <2>7 DEF DDismiss
  <2>8. CASE DFinal(r)
    BY <2>8 DEF DFinal
  <2> QED
    BY <1>3, <2>1, <2>2, <2>3, <2>4, <2>5, <2>6, <2>7, <2>8
<1>4. ASSUME \/ SignalD \/ UNCHANGED vars
             \/ \E r \in Receivers : ReceiverStep(r) \/ FaultStep(r) \/ SignalR(r)
      PROVE  UNCHANGED <<dpc, active, awaited, posted, batch>>
  BY <1>4 DEF SignalD, SignalR, vars, ReceiverStep, FaultStep, ROpenFails, RStartFails, RStart,
              RExit, RAsk, RReply, RDeliveryFails, RDrop, RHandOver, RTerminate, RWorkerStops,
              RStopWorkers, RFinal
<1> QED
  BY <1>1, <1>2, <1>3, <1>4 DEF Next, DistributorStep, Environment, Resume, Crash, Over

(* A receiver holds a package only between its reply and its hand-over.    *)
LEMMA NextPackageHeld ==
    ASSUME TypeOK, \A r \in Receivers : Talk(r), PackageHeld, [Next]_vars
    PROVE  PackageHeld'
<1> USE DEF TypeOK, recvVars
<1>1. ASSUME NextJob PROVE PackageHeld'
  BY <1>1 DEF NextJob, PackageHeld
<1>2. ASSUME NEW r \in Receivers, RReply(r) PROVE PackageHeld'
  <2>1. Answered(r)
    BY <1>2 DEF RReply, Talk, At, Unstarted, Starting, Ends, Opening, Crashed, Ready, Asks,
                Delivers, Leaves, Gone
  <2>2. PICK m \in Message : toR[r] = <<m>> /\ (m.cmd = "Continue" \/ m.pkg = {})
    BY <2>1 DEF Answered, Command
  <2>3. Head(toR[r]) = m
    BY <2>2, CommandSequences
  <2>4. pkg'[r] # {} => rpc'[r] = "deliver"
    BY <1>2, <2>2, <2>3 DEF RReply, GoTo
  <2>5. \A s \in Receivers \ {r} : pkg'[s] = pkg[s] /\ rpc'[s] = rpc[s]
    BY <1>2 DEF RReply, GoTo
  <2> QED
    BY <2>4, <2>5 DEF PackageHeld, At
<1>3. ASSUME NEW r \in Receivers, RDeliveryFails(r) \/ RDrop(r) \/ RHandOver(r) \/ RTerminate(r)
      PROVE  PackageHeld'
  <2>1. pkg' = [pkg EXCEPT ![r] = {}] /\ \A s \in Receivers \ {r} : rpc'[s] = rpc[s]
    BY <1>3 DEF RDeliveryFails, RDrop, RHandOver, RTerminate, LoseP, GoTo
  <2> QED
    BY <2>1 DEF PackageHeld, At
<1>4. ASSUME NEW r \in Receivers,
             \/ ROpenFails(r) \/ RStartFails(r) \/ RStart(r) \/ RExit(r) \/ RAsk(r)
             \/ RStopWorkers(r) \/ RFinal(r)
      PROVE  PackageHeld'
  <2>1. pkg' = pkg /\ rpc[r] # "deliver" /\ \A s \in Receivers \ {r} : rpc'[s] = rpc[s]
    BY <1>4 DEF ROpenFails, RStartFails, RStart, RExit, RAsk, RStopWorkers, RFinal, GoTo, At
  <2> QED
    BY <2>1 DEF PackageHeld, At
<1>5. ASSUME Barrier1 \/ Barrier2 PROVE PackageHeld'
  BY <1>5 DEF Barrier1, Barrier2, PackageHeld, At
<1>6. ASSUME \/ DRestore \/ DSendStart \/ DStarted \/ DTestsome \/ DLeaveLoop
             \/ DSendOOB \/ DBeginShutdown \/ DArrive \/ DEnd \/ SignalD \/ UNCHANGED vars
             \/ \E r \in Receivers :
                   \/ DRecvStart(r) \/ DTaskGone(r) \/ DTaskTerminates(r) \/ DIgnore(r)
                   \/ DSendPackage(r) \/ DDrain(r) \/ DDismiss(r) \/ DFinal(r)
                   \/ RWorkerStops(r) \/ SignalR(r)
      PROVE  UNCHANGED <<pkg, rpc>>
  BY <1>6 DEF DRestore, DSendStart, DStarted, DTestsome, DLeaveLoop, DSendOOB, DBeginShutdown,
              DArrive, DEnd, SignalD, vars, DRecvStart, DTaskGone, DTaskTerminates, DIgnore,
              DSendPackage, DDrain, DDismiss, DFinal, RWorkerStops, SignalR
<1>7. UNCHANGED <<pkg, rpc>> => PackageHeld'
  BY DEF PackageHeld, At
<1> QED
  BY <1>1, <1>2, <1>3, <1>4, <1>5, <1>6, <1>7
     DEF Next, DistributorStep, ReceiverStep, FaultStep, Environment, Resume, Crash, Over

(* The receivers whose final message rank 0 has received.                  *)
Closed == {r \in Receivers : At(r, "done") /\ toD[r] = <<>>}

(* Rank 0 counts each final message once, and no other message.            *)
LEMMA NextFinalsCounted ==
    ASSUME TypeOK, TasksKept, \A r \in Receivers : Talk(r), FinalsCounted, [Next]_vars
    PROVE  FinalsCounted'
<1> USE DEF TypeOK
<1> DEFINE Last == {"final", "done"}
<1>0. FinalsCounted = (/\ dpc \notin Last => finals = 0
                       /\ dpc \in Last => finals = Cardinality(Closed)
                       /\ dpc = "done" => finals = FinalsDue)
  BY DEF FinalsCounted, Closed
<1>1. ASSUME finals' = 0, dpc' \notin Last PROVE FinalsCounted'
  BY <1>1 DEF FinalsCounted
<1>2. ASSUME finals' = finals, Closed' = Closed, dpc' = dpc PROVE FinalsCounted'
  BY <1>0, <1>2 DEF FinalsCounted, Closed, FinalsDue
<1>3. ASSUME NextJob PROVE FinalsCounted'
  BY <1>1, <1>3 DEF NextJob, StartLocation
<1>4. ASSUME \/ DRestore \/ Barrier1 \/ DSendStart \/ DStarted \/ DTestsome \/ DLeaveLoop
             \/ DSendOOB \/ DBeginShutdown \/ DArrive
             \/ \E r \in Receivers : \/ DRecvStart(r) \/ DTaskGone(r) \/ DTaskTerminates(r)
                                     \/ DIgnore(r) \/ DSendPackage(r) \/ DDrain(r) \/ DDismiss(r)
      PROVE  FinalsCounted'
  <2>1. finals' = finals /\ dpc \notin Last /\ dpc' \notin Last
    BY <1>4 DEF DRestore, Barrier1, DSendStart, DStarted, DTestsome, InLoop, DLeaveLoop,
                DSendOOB, DBeginShutdown, DArrive, DRecvStart, DTaskGone, DTaskTerminates,
                DIgnore, DSendPackage, DDrain, DDismiss, Handles
  <2> QED
    BY <1>0, <1>1, <2>1
<1>5. ASSUME Barrier2 PROVE FinalsCounted'
  <2>1. dpc' = "final" /\ finals' = finals /\ finals = 0 /\ Closed' = {}
    BY <1>0, <1>5 DEF Barrier2, Closed, At
  <2> QED
    BY <2>1, FS_EmptySet DEF FinalsCounted, Closed
<1>6. ASSUME NEW r \in Receivers, DFinal(r) PROVE FinalsCounted'
  <2>1. /\ dpc = "final" /\ dpc' = dpc /\ rpc' = rpc /\ finals' = finals + 1
        /\ toD[r] # <<>> /\ toD' = [toD EXCEPT ![r] = Tail(@)]
    BY <1>6 DEF DFinal, Heard, Consume, recvVars
  <2>2. At(r, "done") /\ Len(toD[r]) =< 1
    BY <2>1 DEF Talk, Unstarted, Starting, Ends
  <2>3. Tail(toD[r]) = <<>>
    BY <2>1, <2>2
  <2>4. Closed' = Closed \cup {r} /\ r \notin Closed
    BY <2>1, <2>2, <2>3 DEF Closed, At
  <2>5. IsFiniteSet(Closed)
    BY JobAssumption, FS_Subset DEF Closed
  <2>6. Cardinality(Closed') = Cardinality(Closed) + 1
    BY <2>4, <2>5, FS_AddElement
  <2> QED
    BY <1>0, <2>1, <2>6 DEF FinalsCounted, Closed
<1>7. ASSUME DEnd PROVE FinalsCounted'
  <2>1. dpc = "final" /\ dpc' = "done" /\ finals' = finals /\ finals = FinalsDue
        /\ rpc' = rpc /\ toD' = toD
    BY <1>7 DEF DEnd, recvVars
  <2> QED
    BY <1>0, <2>1 DEF FinalsCounted, Closed, FinalsDue, At
<1>8. ASSUME NEW r \in Receivers, RFinal(r) PROVE FinalsCounted'
  <2>1. /\ finals' = finals /\ dpc' = dpc /\ rpc[r] = "final"
        /\ rpc' = [rpc EXCEPT ![r] = "done"] /\ toD' = [toD EXCEPT ![r] = Append(@, status[r])]
    BY <1>8 DEF RFinal, Report, GoTo, distVars, At
  <2>2. toD'[r] # <<>>
    <3>1. toD[r] = <<>>
      BY <2>1 DEF Talk, At, Unstarted, Starting, Ends, Opening, Crashed, Ready, Asks,
                  Answered, Delivers, Leaves, Gone
    <3> QED
      BY <2>1, <3>1, ReportSequences
  <2>3. Closed' = Closed
    BY <2>1, <2>2 DEF Closed, At
  <2> QED
    BY <1>2, <2>1, <2>3
<1>9. ASSUME NEW r \in Receivers,
             \/ ROpenFails(r) \/ RStartFails(r) \/ RStart(r) \/ RExit(r) \/ RAsk(r)
             \/ RReply(r) \/ RDeliveryFails(r) \/ RDrop(r) \/ RHandOver(r) \/ RTerminate(r)
             \/ RStopWorkers(r)
      PROVE  FinalsCounted'
  <2>1. finals' = finals /\ dpc' = dpc
    BY <1>9 DEF ROpenFails, RStartFails, RStart, RExit, RAsk, RReply, RDeliveryFails, RDrop,
                RHandOver, RTerminate, RStopWorkers, distVars
  <2>2. rpc[r] \in {"opening", "ready", "asking", "deliver", "stopping"}
    BY <1>9 DEF ROpenFails, RStartFails, RStart, RExit, RAsk, RReply, RDeliveryFails, RDrop,
                RHandOver, RTerminate, RStopWorkers, Delivering, At
  <2>3. dpc \notin Last
    BY <2>2 DEF Talk, Unstarted, Starting, Ends, At
  <2> QED
    BY <1>0, <1>1, <2>1, <2>3
<1>10. ASSUME \/ SignalD \/ UNCHANGED vars
              \/ \E r \in Receivers : SignalR(r) \/ RWorkerStops(r)
       PROVE  FinalsCounted'
  <2>1. UNCHANGED <<finals, dpc, rpc, toD>>
    BY <1>10 DEF SignalD, SignalR, RWorkerStops, vars, distVars, recvVars
  <2> QED
    BY <1>2, <2>1 DEF Closed, At
<1> QED
  BY <1>3, <1>4, <1>5, <1>6, <1>7, <1>8, <1>9, <1>10
     DEF Next, DistributorStep, ReceiverStep, FaultStep, Environment, Resume, Crash, Over

-----------------------------------------------------------------------------
(***************************************************************************)
(* Every job keeps to the conversation: whatever signals, failing starts,  *)
(* lost workers and crashes, for any number of receivers and records.      *)
(***************************************************************************)
THEOREM ConversationKept ==
    ASSUME "Terminate" \notin Faults
    PROVE  Spec => [](TypeInv /\ Conversation)
<1>1. Init => TypeInv /\ Conversation
  <2> SUFFICES ASSUME Init PROVE Conversation
    BY InitTypeInv
  <2>1. dpc \in {"restore", "barrier1"}
    BY DEF Init, StartLocation
  <2>2. \A r \in Receivers : Talk(r)
    BY <2>1 DEF Init, Talk, Unstarted, At
  <2>3. TasksKept /\ PackageHeld /\ FinalsCounted
    BY <2>1 DEF Init, TasksKept, PackageHeld, FinalsCounted
  <2> QED
    BY <2>2, <2>3 DEF Conversation
<1>2. TypeInv /\ Conversation /\ [Next]_vars => (TypeInv /\ Conversation)'
  <2> SUFFICES ASSUME TypeInv, Conversation, [Next]_vars
               PROVE  TypeInv' /\ Conversation'
    OBVIOUS
  <2>1. TypeInv' /\ TypeOK
    BY NextTypeInv DEF TypeInv
  <2>2. (\A r \in Receivers : Talk(r))'
    BY NextTalk
  <2>3. TasksKept' /\ PackageHeld' /\ FinalsCounted'
    BY <2>1, NextTasksKept, NextPackageHeld, NextFinalsCounted DEF Conversation
  <2> QED
    BY <2>1, <2>2, <2>3 DEF Conversation
<1> QED
  BY <1>1, <1>2, PTL DEF Spec

(* A receiver that asks is always answered exactly once.                   *)
THEOREM PairedReplies ==
    ASSUME "Terminate" \notin Faults
    PROVE  Spec => []RepliesPaired
<1>1. ASSUME TypeInv, Conversation PROVE RepliesPaired
  <2> SUFFICES ASSUME NEW r \in Receivers, At(r, "asking")
               PROVE  Len(toD[r]) + Len(toR[r]) = IF r \in awaited THEN 2 ELSE 1
    BY DEF RepliesPaired
  <2>1. Asks(r) \/ Answered(r)
    BY <1>1 DEF Conversation, Talk, At, Unstarted, Starting, Ends, Opening, Crashed, Ready,
                Delivers, Leaves, Gone
  <2>2. Len(<<>>) = 0 /\ Len(<<"OK">>) = 1 /\ Len(<<"OK", "OK">>) = 2
    BY ShortSequences
  <2>3. CASE Asks(r)
    BY <2>2, <2>3 DEF Asks, Says
  <2>4. CASE Answered(r)
    <3>1. Len(toR[r]) = 1
      BY <2>4, CommandSequences DEF Answered
    <3> QED
      BY <2>2, <2>4, <3>1 DEF Answered
  <2> QED
    BY <2>1, <2>3, <2>4
<1> QED
  BY <1>1, ConversationKept, PTL

(* What shutdown() receives comes from a task it still has to dismiss.     *)
THEOREM ShutdownHears ==
    ASSUME "Terminate" \notin Faults
    PROVE  Spec => []ShutdownHearsActiveOnly
<1>1. ASSUME Conversation PROVE ShutdownHearsActiveOnly
  <2> SUFFICES ASSUME dpc = "shutdown", NEW r \in Receivers, Heard(r) PROVE r \in active
    BY <1>1 DEF ShutdownHearsActiveOnly, Conversation, TasksKept
  <2>1. r \notin awaited /\ Talk(r)
    BY <1>1 DEF Conversation, TasksKept
  <2>2. Asks(r) \/ Leaves(r)
    BY <2>1, HeardTalk
  <2> QED
    BY <2>1, <2>2 DEF Asks, Leaves, Expected
<1> QED
  BY <1>1, ConversationKept, PTL

(* A receiver that has left its request loop is sent no package.           *)
THEOREM NoPackageLost ==
    ASSUME "Terminate" \notin Faults
    PROVE  Spec => []NoPackageToLeaver
<1>1. ASSUME TypeInv, Conversation PROVE NoPackageToLeaver
  <2> SUFFICES ASSUME NEW r \in Receivers, rpc[r] \in LeftLoop
               PROVE  Carried(r) = {}
    BY DEF NoPackageToLeaver
  <2>1. pkg[r] = {}
    BY <1>1 DEF Conversation, PackageHeld, At, LeftLoop
  <2>2. Unread(r)
    BY <1>1 DEF Conversation, Talk, LeftLoop, At, Unstarted, Starting, Ends, Opening, Crashed,
                Ready, Asks, Answered, Delivers, Leaves, Gone, Unread
  <2>3. ASSUME NEW i \in 1 .. Len(toR[r]) PROVE toR[r][i].pkg = {}
    <3>1. PICK c \in ExitConditions : toR[r] = <<Command(c)>>
      BY <2>2, <2>3 DEF Unread
    <3>2. i = 1
      BY <3>1
    <3> QED
      BY <3>1, <3>2, CommandsKnown
  <2> QED
    BY <2>1, <2>3 DEF Carried
<1> QED
  BY <1>1, ConversationKept, PTL

(* Rank 0 ends a job with the final message of every receiver received.    *)
THEOREM FinalsReceived ==
    ASSUME "Terminate" \notin Faults
    PROVE  Spec => []FinalMessagesReceived
<1>1. ASSUME Conversation PROVE FinalMessagesReceived
  <2> SUFFICES ASSUME JobOver PROVE \A r \in Receivers : toD[r] = <<>>
    BY DEF FinalMessagesReceived
  <2>1. Cardinality(Closed) = Cardinality(Receivers) /\ Closed \subseteq Receivers
    BY <1>1 DEF JobOver, Conversation, FinalsCounted, FinalsDue, Closed
  <2>2. Closed = Receivers
    BY <2>1, JobAssumption, FS_Subset
  <2> QED
    BY <2>2 DEF Closed
<1> QED
  BY <1>1, ConversationKept, PTL

-----------------------------------------------------------------------------
(***************************************************************************)
(* Proofs that a clean exit costs no package, and that a job that runs to  *)
(* its end without an exit condition has handed out the whole store.  Both *)
(* are about records that nobody would miss: rank 0 counts a package as    *)
(* distributed as soon as it is made.  The assumption is needed here too:  *)
(* the report of a processor that throws may be overtaken by the end of    *)
(* the job, and the package refused with it is lost without an exit        *)
(* condition.                                                              *)
(***************************************************************************)

(***************************************************************************)
(* A package is only dropped in a hurry: its receiver has been told to     *)
(* leave quickly, or says at its end that it failed.  Nobody takes a       *)
(* Failed back, because who reports it has left the request loop.          *)
(***************************************************************************)
DroppedInHurry ==
    dropped # {} =>
        \E r \in Receivers : HurriedExit(rflags[r]) \/ status[r] = "Failed"
FailedLeft == \A r \in Receivers : status[r] = "Failed" => rpc[r] \in LeftLoop

HurryInv == DroppedInHurry /\ FailedLeft

(* Flags are only added within a job, and so is a Failed status.           *)
LEMMA HurryStays ==
    ASSUME HurryInv, dropped' = dropped, FailedLeft',
           \A r \in Receivers : rflags[r] \subseteq rflags'[r],
           \A r \in Receivers : status[r] = "Failed" => status'[r] = "Failed"
    PROVE  HurryInv'
BY DEF HurryInv, DroppedInHurry, HurriedExit

(* Every step but a worker's request to end the job keeps HurryInv.        *)
LEMMA NextHurry ==
    ASSUME "Terminate" \notin Faults, TypeOK, TypeOK', HurryInv, [Next]_vars
    PROVE  HurryInv'
<1>1. ASSUME NextJob PROVE HurryInv'
  BY <1>1 DEF NextJob, HurryInv, DroppedInHurry, FailedLeft
<1>2. ASSUME UNCHANGED <<dropped, status, rflags, rpc>> PROVE HurryInv'
  BY <1>2 DEF HurryInv, DroppedInHurry, FailedLeft, HurriedExit
<1>3. ASSUME \/ DRestore \/ DSendStart \/ DStarted \/ DTestsome \/ DLeaveLoop
             \/ DSendOOB \/ DBeginShutdown \/ DArrive \/ DEnd \/ SignalD
             \/ UNCHANGED vars
      PROVE  UNCHANGED <<dropped, status, rflags, rpc>>
  BY <1>3 DEF DRestore, DSendStart, DStarted, DTestsome, DLeaveLoop, DSendOOB,
     DBeginShutdown, DArrive, DEnd, SignalD, vars, recvVars, flagVars, fateVars
<1>4. ASSUME NEW r \in Receivers,
             \/ DRecvStart(r) \/ DTaskGone(r) \/ DTaskTerminates(r) \/ DIgnore(r)
             \/ DSendPackage(r) \/ DDrain(r) \/ DDismiss(r) \/ DFinal(r)
             \/ RWorkerStops(r)
      PROVE  UNCHANGED <<dropped, status, rflags, rpc>>
  BY <1>4 DEF DRecvStart, DTaskGone, DTaskTerminates, DIgnore, DSendPackage, DDrain,
     DDismiss, DFinal, RWorkerStops, recvVars, flagVars, fateVars
<1>5. ASSUME Barrier1 \/ Barrier2 PROVE HurryInv'
  <2>1. FailedLeft' /\ UNCHANGED <<dropped, status, rflags>>
    BY <1>5 DEF Barrier1, Barrier2, At, HurryInv, FailedLeft, LeftLoop, flagVars, fateVars
  <2> QED
    BY <2>1, HurryStays
<1>6. ASSUME NEW r \in Receivers,
             \/ ROpenFails(r) \/ RStart(r) \/ RAsk(r) \/ RReply(r) \/ RHandOver(r)
             \/ RStopWorkers(r) \/ RFinal(r)
      PROVE  HurryInv'
  <2>1. UNCHANGED <<dropped, status, rflags>>
    BY <1>6 DEF ROpenFails, RStart, RAsk, RReply, RHandOver, RStopWorkers, RFinal,
       flagVars, fateVars
  <2>2. /\ \A s \in Receivers \ {r} : rpc'[s] = rpc[s]
        /\ rpc[r] \in LeftLoop => rpc'[r] \in LeftLoop
    BY <1>6 DEF ROpenFails, RStart, RAsk, RReply, RHandOver, RStopWorkers, RFinal,
       GoTo, At, Delivering, LeftLoop, TypeOK
  <2>3. FailedLeft'
    BY <2>1, <2>2 DEF HurryInv, FailedLeft
  <2> QED
    BY <2>1, <2>3, HurryStays
<1>7. ASSUME NEW r \in Receivers, RStartFails(r) \/ RExit(r) PROVE HurryInv'
  <2>1. UNCHANGED <<dropped, rflags>>
    BY <1>7 DEF RStartFails, RExit, flagVars, fateVars
  <2>2. /\ \A s \in Receivers \ {r} : rpc'[s] = rpc[s] /\ status'[s] = status[s]
        /\ rpc[r] \notin LeftLoop /\ rpc'[r] \in LeftLoop
    BY <1>7 DEF RStartFails, RExit, GoTo, At, LeftLoop, TypeOK
  <2>3. FailedLeft' /\ status[r] # "Failed"
    BY <2>2 DEF HurryInv, FailedLeft
  <2> QED
    BY <2>1, <2>2, <2>3, HurryStays
<1>8. ASSUME NEW r \in Receivers, RDeliveryFails(r) PROVE HurryInv'
  <2>1. /\ \A s \in Receivers \ {r} : rpc'[s] = rpc[s] /\ status'[s] = status[s]
        /\ rpc'[r] \in LeftLoop /\ status'[r] = "Failed"
    BY <1>8 DEF RDeliveryFails, GoTo, LeftLoop, TypeOK
  <2> QED
    BY <2>1 DEF HurryInv, FailedLeft, DroppedInHurry
<1>9. ASSUME NEW r \in Receivers, RDrop(r) PROVE HurryInv'
  <2>1. HurriedExit(rflags'[r])
    BY <1>9 DEF RDrop, HurriedExit, TypeOK
  <2>2. /\ \A s \in Receivers \ {r} : rpc'[s] = rpc[s]
        /\ rpc[r] \notin LeftLoop /\ status' = status
    BY <1>9 DEF RDrop, Delivering, At, GoTo, LeftLoop, TypeOK
  <2> QED
    BY <2>1, <2>2 DEF HurryInv, FailedLeft, DroppedInHurry
<1>10. ASSUME NEW r \in Receivers, SignalR(r) PROVE HurryInv'
  <2>1. UNCHANGED <<dropped, status, rpc>>
    BY <1>10 DEF SignalR, recvVars, fateVars
  <2>2. \A s \in Receivers : rflags[s] \subseteq rflags'[s]
    BY <1>10 DEF SignalR, TypeOK
  <2> QED
    BY <2>1, <2>2, HurryStays DEF HurryInv, FailedLeft
<1> QED
  BY <1>1, <1>2, <1>3, <1>4, <1>5, <1>6, <1>7, <1>8, <1>9, <1>10
     DEF Next, DistributorStep, ReceiverStep, FaultStep, Environment, Resume, Crash,
         Over, RTerminate

(***************************************************************************)
(* SIGQUIT, the clean exit, loses no package: every one that was sent is   *)
(* given to a worker, unless a receiver fails or a stronger signal comes.  *)
(***************************************************************************)
THEOREM CleanExitCorrect ==
    ASSUME "Terminate" \notin Faults
    PROVE  Spec => []CleanExitKeepsPackages
<1>1. Init => TypeInv /\ HurryInv
  <2> SUFFICES ASSUME Init PROVE HurryInv
    BY InitTypeInv
  <2> QED
    BY DEF Init, HurryInv, DroppedInHurry, FailedLeft
<1>2. TypeInv /\ HurryInv /\ [Next]_vars => (TypeInv /\ HurryInv)'
  BY NextTypeInv, NextHurry DEF TypeInv
<1>3. HurryInv => CleanExitKeepsPackages
  BY DEF HurryInv, DroppedInHurry, CleanExitKeepsPackages, HurriedExit
<1> QED
  BY <1>1, <1>2, <1>3, PTL DEF Spec

-----------------------------------------------------------------------------
(***************************************************************************)
(* The first job, which begins at the start of the store: its cursor and   *)
(* its count agree, whatever can be read, and what is behind the cursor is *)
(* with a worker, on its way to one, or was withheld or dropped.           *)
(***************************************************************************)
OnItsWay(x) == \E r \in Receivers : \E i \in Slots(r) : x \in Parcel(r, i)

FirstJob ==
    job = 1 => /\ dpc \notin Early
               /\ cursor + remaining = NumRecords + 1
               /\ \A x \in Readable : x < cursor =>
                    x \in handed \cup withheld \cup dropped \/ OnItsWay(x)

OnlyReadable ==
    /\ handed \subseteq Readable
    /\ \A r \in Receivers : \A i \in Slots(r) : Parcel(r, i) \subseteq Readable

AccountedInv == job # 0 /\ FirstJob /\ OnlyReadable

(* A message is added behind the packages that are under way.              *)
LEMMA AddParcel ==
    ASSUME TypeOK, NEW r \in Receivers, NEW m \in Message, SendTo(r, m), pkg' = pkg
    PROVE  /\ \A s \in Receivers : \A i \in Slots(s) :
                i \in Slots(s)' /\ Parcel(s, i)' = Parcel(s, i)
           /\ \E i \in Slots(r)' : Parcel(r, i)' = m.pkg
<1>1. /\ toR[r] \in Seq(Message) /\ Len(toR[r]) \in Nat
      /\ toR' = [toR EXCEPT ![r] = Append(toR[r], m)]
  BY DEF TypeOK, SendTo
<1>2. /\ toR'[r] = Append(toR[r], m) /\ Len(toR'[r]) = Len(toR[r]) + 1
      /\ \A s \in Receivers \ {r} : toR'[s] = toR[s]
  BY <1>1 DEF TypeOK
<1>3. /\ \A i \in 1 .. Len(toR[r]) : toR'[r][i] = toR[r][i]
      /\ toR'[r][Len(toR[r]) + 1] = m
  BY <1>1, <1>2
<1>4. /\ Len(toR[r]) + 1 \in 0 .. Len(toR'[r])
      /\ \A i \in 0 .. Len(toR[r]) : i \in 0 .. Len(toR'[r])
      /\ \A i \in 0 .. Len(toR[r]) : i = 0 \/ i \in 1 .. Len(toR[r])
  BY <1>1, <1>2
<1>5. \A i \in Slots(r) : i \in Slots(r)' /\ Parcel(r, i)' = Parcel(r, i)
  BY <1>3, <1>4 DEF Slots, Parcel
<1>6. \A s \in Receivers \ {r} : \A i \in Slots(s) :
        i \in Slots(s)' /\ Parcel(s, i)' = Parcel(s, i)
  BY <1>2 DEF Slots, Parcel
<1>7. \E i \in Slots(r)' : Parcel(r, i)' = m.pkg
  <2>1. PICK i \in 0 .. Len(toR'[r]) : i = Len(toR[r]) + 1
    BY <1>4
  <2> QED
    BY <1>1, <1>3, <2>1 DEF Slots, Parcel
<1> QED
  BY <1>5, <1>6, <1>7

(* A step that moves packages, without making one, loses sight of none.    *)
LEMMA AccountedStays ==
    ASSUME AccountedInv, job' = job, cursor' = cursor, remaining' = remaining,
           dpc \in Early <=> dpc' \in Early, handed' \subseteq Readable,
           handed \cup withheld \cup dropped \subseteq handed' \cup withheld' \cup dropped',
           \A r \in Receivers : \A i \in Slots(r)' : Parcel(r, i)' \subseteq Readable,
           \A r \in Receivers : \A i \in Slots(r) : \A x \in Parcel(r, i) :
               x \in handed' \cup dropped' \/ OnItsWay(x)'
    PROVE  AccountedInv'
BY DEF AccountedInv, FirstJob, OnlyReadable, OnItsWay

(* The same, for a step that leaves every package where it is.             *)
LEMMA AccountedAlone ==
    ASSUME AccountedInv, dpc \in Early <=> dpc' \in Early,
           UNCHANGED <<job, cursor, remaining, handed, withheld, dropped, toR, pkg>>
    PROVE  AccountedInv'
BY DEF AccountedInv, FirstJob, OnlyReadable, OnItsWay, Slots, Parcel

(* A command without a package is no package.                              *)
LEMMA AccountedCommand ==
    ASSUME TypeOK, AccountedInv, dpc' = dpc,
           UNCHANGED <<job, cursor, remaining, handed, withheld, dropped, pkg>>,
           NEW r \in Receivers, NEW c \in TaskCommand, SendTo(r, Command(c))
    PROVE  AccountedInv'
<1>1. Command(c) \in Message /\ Command(c).pkg = {}
  BY MessageType DEF Command
<1>2. \A s \in Receivers : \A i \in Slots(s)' :
        \/ Parcel(s, i)' = {}
        \/ i \in Slots(s) /\ Parcel(s, i)' = Parcel(s, i)
  BY <1>1, SendParcels
<1>3. \A s \in Receivers : \A i \in Slots(s) :
        i \in Slots(s)' /\ Parcel(s, i)' = Parcel(s, i)
  BY <1>1, AddParcel
<1>4. \A s \in Receivers : \A i \in Slots(s)' : Parcel(s, i)' \subseteq Readable
  BY <1>2 DEF AccountedInv, OnlyReadable
<1>5. \A s \in Receivers : \A i \in Slots(s) : \A x \in Parcel(s, i) : OnItsWay(x)'
  BY <1>3 DEF OnItsWay
<1> QED
  BY <1>4, <1>5, AccountedStays DEF AccountedInv, OnlyReadable

(* The package made by createWorkPackage(): all it takes off the store.    *)
LEMMA PackageMade ==
    ASSUME TypeInv, CreateWorkPackage
    PROVE  /\ cursor' + remaining' = cursor + remaining
           /\ PackageElements \subseteq Readable
           /\ \A x \in Readable : x < cursor' => x < cursor \/ x \in PackageElements
BY RecordStoreAssumption
   DEF TypeInv, TypeOK, SourceTypeOK, SourceInv, CreateWorkPackage, PackageElements,
       KeyCount, Readable, Records

(* A package that was dropped or handed over is accounted for.             *)
LEMMA AccountedGiven ==
    ASSUME TypeOK, AccountedInv, NEW r \in Receivers,
           pkg' = [pkg EXCEPT ![r] = {}],
           UNCHANGED <<job, dpc, cursor, remaining, withheld, toR>>,
           \/ handed' = handed \cup pkg[r] /\ dropped' = dropped
           \/ dropped' = dropped \cup pkg[r] /\ handed' = handed
    PROVE  AccountedInv'
<1>1. 0 \in Slots(r) /\ Parcel(r, 0) = pkg[r]
  BY DEF Slots, Parcel, TypeOK
<1>2. \A s \in Receivers : \A i \in Slots(s) :
        /\ i \in Slots(s)'
        /\ \/ Parcel(s, i)' = Parcel(s, i)
           \/ Parcel(s, i) = pkg[r] /\ Parcel(s, i)' = {}
  BY DEF Slots, Parcel, TypeOK
<1>3. Slots(r)' = Slots(r) /\ \A s \in Receivers : Slots(s)' = Slots(s)
  BY DEF Slots
<1>4. handed' \subseteq Readable
  BY <1>1 DEF AccountedInv, OnlyReadable
<1>5. \A s \in Receivers : \A i \in Slots(s)' : Parcel(s, i)' \subseteq Readable
  BY <1>2, <1>3 DEF AccountedInv, OnlyReadable
<1>6. \A s \in Receivers : \A i \in Slots(s) : \A x \in Parcel(s, i) :
        x \in handed' \cup dropped' \/ OnItsWay(x)'
  BY <1>2 DEF OnItsWay
<1> QED
  BY <1>4, <1>5, <1>6, AccountedStays

(* A reply taken by a receiver without a package leaves none behind.       *)
LEMMA AccountedTaken ==
    ASSUME TypeOK, AccountedInv, NEW r \in Receivers, toR[r] # <<>>, TakeReply(r),
           pkg[r] = {},
           \/ pkg' = [pkg EXCEPT ![r] = Head(toR[r]).pkg]
           \/ pkg' = pkg /\ Head(toR[r]).pkg = {},
           UNCHANGED <<job, dpc, cursor, remaining, handed, withheld, dropped>>
    PROVE  AccountedInv'
<1>1. /\ \A s \in Receivers \ {r} : Slots(s)' = Slots(s) /\ \A i \in Slots(s) :
           i # 0 => Parcel(s, i)' = Parcel(s, i)
      /\ \A i \in Slots(r)' : i + 1 \in Slots(r)
      /\ \A i \in Slots(r)' \ {0} : Parcel(r, i)' = Parcel(r, i + 1)
      /\ Head(toR[r]).pkg = Parcel(r, 1)
  BY TakeParcels
<1>2. /\ \A s \in Receivers \ {r} : Parcel(s, 0)' = Parcel(s, 0)
      /\ Parcel(r, 0)' = Parcel(r, 1)
      /\ Parcel(r, 0) = {}
  BY <1>1 DEF Parcel, TypeOK
<1>3. /\ Len(toR[r]) \in Nat \ {0} /\ Slots(r) = 0 .. Len(toR[r])
      /\ Slots(r)' = 0 .. Len(toR[r]) - 1
  BY DEF Slots, TakeReply, TypeOK
<1>4. \A s \in Receivers : \A i \in Slots(s)' : Parcel(s, i)' \subseteq Readable
  <2> SUFFICES ASSUME NEW s \in Receivers, NEW i \in Slots(s)'
               PROVE  Parcel(s, i)' \subseteq Readable
    OBVIOUS
  <2>1. CASE s # r
    BY <1>1, <1>2, <2>1 DEF AccountedInv, OnlyReadable
  <2>2. CASE s = r
    <3>1. i + 1 \in Slots(r) /\ Parcel(r, i)' = Parcel(r, i + 1)
      BY <1>1, <1>2, <2>2 DEF Slots
    <3> QED
      BY <2>2, <3>1 DEF AccountedInv, OnlyReadable
  <2> QED
    BY <2>1, <2>2
<1>5. ASSUME NEW s \in Receivers, NEW i \in Slots(s), NEW x \in Parcel(s, i)
      PROVE  OnItsWay(x)'
  <2>1. CASE s # r
    <3>1. i \in Slots(s)' /\ Parcel(s, i)' = Parcel(s, i)
      BY <1>1, <1>2, <2>1
    <3> QED
      BY <1>5, <3>1 DEF OnItsWay
  <2>2. CASE s = r
    <3>1. i # 0
      BY <1>2, <1>5, <2>2
    <3>2. i - 1 \in Slots(r)' /\ i \in Nat
      BY <1>3, <2>2, <3>1
    <3>3. Parcel(r, i - 1)' = Parcel(r, i)
      <4>1. CASE i = 1
        BY <1>2, <4>1
      <4>2. CASE i # 1
        <5>1. i - 1 \in Slots(r)' \ {0} /\ (i - 1) + 1 = i
          BY <3>2, <4>2
        <5>2. Parcel(r, i - 1)' = Parcel(r, (i - 1) + 1)
          BY <1>1, <5>1
        <5> QED
          BY <5>1, <5>2
      <4> QED
        BY <4>1, <4>2
    <3> QED
      BY <1>5, <2>2, <3>2, <3>3 DEF OnItsWay
  <2> QED
    BY <2>1, <2>2
<1> QED
  BY <1>4, <1>5, AccountedStays DEF AccountedInv, OnlyReadable

(* Every step keeps the account of the first job.                          *)
LEMMA NextAccounted ==
    ASSUME "Terminate" \notin Faults, TypeInv, TypeInv', Conversation, AccountedInv,
           [Next]_vars
    PROVE  AccountedInv'
<1>a. TypeOK /\ PackageHeld /\ \A r \in Receivers : Talk(r)
  BY DEF TypeInv, Conversation
<1>1. ASSUME NextJob PROVE AccountedInv'
  <2>1. job' # 0 /\ job' # 1
    BY <1>1, <1>a DEF NextJob, AccountedInv, TypeOK
  <2>2. OnlyReadable'
    BY <1>1 DEF NextJob, OnlyReadable, Slots, Parcel
  <2> QED
    BY <2>1, <2>2 DEF AccountedInv, FirstJob
<1>2. ASSUME DRestore PROVE AccountedInv'
  <2>1. job' = job /\ job # 1
    BY <1>2 DEF DRestore, jobVars, AccountedInv, FirstJob, Early
  <2>2. OnlyReadable'
    BY <1>2 DEF DRestore, recvVars, fateVars, AccountedInv, OnlyReadable, Slots, Parcel
  <2> QED
    BY <2>1, <2>2 DEF AccountedInv, FirstJob
<1>3. ASSUME DSendStart PROVE AccountedInv'
  <2>1. UNCHANGED <<job, cursor, remaining, handed, withheld, dropped, pkg>>
    BY <1>3 DEF DSendStart, sourceVars, recvVars, jobVars, fateVars
  <2>2. ASSUME NEW s \in Receivers
        PROVE  toR[s] = <<>> /\ toR'[s] = <<Command("Continue")>>
    <3>1. Starting(s) /\ toR'[s] = Append(toR[s], Command("Continue"))
      BY <1>3, <1>a DEF DSendStart, Talk, Unstarted, Ends
    <3> QED
      BY <3>1, CommandSequences, CommandsKnown DEF Starting
  <2>3. \A s \in Receivers : /\ Slots(s) = {0} /\ Slots(s)' = {0, 1}
                             /\ Parcel(s, 0)' = Parcel(s, 0) /\ Parcel(s, 1)' = {}
    <3> SUFFICES ASSUME NEW s \in Receivers
                 PROVE  /\ Slots(s) = {0} /\ Slots(s)' = {0, 1}
                        /\ Parcel(s, 0)' = Parcel(s, 0) /\ Parcel(s, 1)' = {}
      OBVIOUS
    <3>1. Len(toR[s]) = 0 /\ Len(toR'[s]) = 1
      BY <2>2, CommandSequences, CommandsKnown
    <3>2. toR'[s][1].pkg = {}
      BY <2>2, CommandsKnown
    <3> QED
      BY <2>1, <3>1, <3>2 DEF Slots, Parcel
  <2>4. \A s \in Receivers : \A i \in Slots(s)' : Parcel(s, i)' \subseteq Readable
    BY <2>3 DEF AccountedInv, OnlyReadable
  <2>5. \A s \in Receivers : \A i \in Slots(s) : \A x \in Parcel(s, i) : OnItsWay(x)'
    BY <2>3 DEF OnItsWay
  <2>6. dpc \notin Early /\ dpc' \notin Early
    BY <1>3 DEF DSendStart, Early
  <2> QED
    BY <2>1, <2>4, <2>5, <2>6, AccountedStays DEF AccountedInv, OnlyReadable
<1>4. ASSUME NEW r \in Receivers, DIgnore(r) PROVE AccountedInv'
  <2>1. /\ UNCHANGED <<job, dpc, handed, dropped, pkg>>
        /\ withheld' = withheld \cup PackageElements
        /\ SendTo(r, Command("Ignore")) /\ CreateWorkPackage
    BY <1>4 DEF DIgnore, recvVars, jobVars
  <2>2. PICK c \in Message : c.pkg = {} /\ SendTo(r, c)
    BY <2>1, CommandsKnown
  <2>3. \A s \in Receivers : \A i \in Slots(s)' :
          \/ Parcel(s, i)' = {}
          \/ i \in Slots(s) /\ Parcel(s, i)' = Parcel(s, i)
    BY <1>a, <2>1, <2>2, SendParcels
  <2>4. \A x : OnItsWay(x) => OnItsWay(x)'
    BY <1>a, <2>1, <2>2, AddParcel DEF OnItsWay
  <2>5. OnlyReadable'
    BY <2>1, <2>3 DEF AccountedInv, OnlyReadable
  <2>6. FirstJob'
    BY <2>1, <2>4, PackageMade DEF AccountedInv, FirstJob
  <2> QED
    BY <2>1, <2>5, <2>6 DEF AccountedInv
<1>5. ASSUME NEW r \in Receivers, DSendPackage(r) PROVE AccountedInv'
  <2> DEFINE m == [cmd |-> "Continue", pkg |-> PackageElements]
  <2>1. /\ UNCHANGED <<job, dpc, handed, withheld, dropped, pkg>>
        /\ SendTo(r, m) /\ CreateWorkPackage
    BY <1>5 DEF DSendPackage, recvVars, jobVars, fateVars
  <2>2. PackageElements \subseteq Readable
    BY <2>1, PackageMade
  <2>3. m \in Message /\ m.pkg = PackageElements
    BY <2>2, MessageType DEF Readable
  <2> HIDE DEF m
  <2>4. \A s \in Receivers : \A i \in Slots(s)' :
          \/ Parcel(s, i)' = PackageElements
          \/ i \in Slots(s) /\ Parcel(s, i)' = Parcel(s, i)
    BY <1>a, <2>1, <2>3, SendParcels
  <2>5. \A x : OnItsWay(x) \/ x \in PackageElements => OnItsWay(x)'
    BY <1>a, <2>1, <2>3, AddParcel DEF OnItsWay
  <2>6. OnlyReadable'
    BY <2>1, <2>2, <2>4 DEF AccountedInv, OnlyReadable
  <2>7. FirstJob'
    BY <2>1, <2>5, PackageMade DEF AccountedInv, FirstJob
  <2> QED
    BY <2>1, <2>6, <2>7 DEF AccountedInv
<1>6. ASSUME NEW r \in Receivers, DDrain(r) \/ DDismiss(r) PROVE AccountedInv'
  <2>1. UNCHANGED <<job, dpc, cursor, remaining, handed, withheld, dropped, pkg>>
    BY <1>6 DEF DDrain, DDismiss, sourceVars, recvVars, jobVars, fateVars
  <2>2. UNCHANGED toR \/ \E c \in TaskCommand : SendTo(r, Command(c))
    BY <1>6, <1>a DEF DDrain, DDismiss, TaskCommand, TypeOK
  <2> QED
    BY <1>a, <2>1, <2>2, AccountedCommand, AccountedAlone
<1>7. ASSUME NEW r \in Receivers, RStartFails(r) \/ RStart(r) \/ RReply(r) PROVE AccountedInv'
  <2>1. /\ toR[r] # <<>> /\ TakeReply(r)
        /\ UNCHANGED <<job, dpc, cursor, remaining, handed, withheld, dropped>>
    BY <1>7 DEF RStartFails, RStart, RReply, distVars, sourceVars, jobVars, fateVars
  <2>2. pkg[r] = {}
    BY <1>7, <1>a DEF RStartFails, RStart, RReply, At, PackageHeld
  <2>3. \/ pkg' = [pkg EXCEPT ![r] = Head(toR[r]).pkg]
        \/ pkg' = pkg /\ Head(toR[r]).pkg = {}
    <3>1. CASE RReply(r)
      BY <3>1 DEF RReply
    <3>2. CASE RStartFails(r) \/ RStart(r)
      <4>1. At(r, "opening") /\ pkg' = pkg
        BY <3>2 DEF RStartFails, RStart
      <4>2. Opening(r)
        BY <1>a, <2>1, <4>1 DEF Talk, At, Unstarted, Starting, Ends, Opening, Crashed, Ready,
           Asks, Answered, Delivers, Leaves, Gone
      <4> QED
        BY <4>1, <4>2, CommandsKnown DEF Opening, TaskCommand
    <3> QED
      BY <1>7, <3>1, <3>2
  <2> QED
    BY <1>a, <2>1, <2>2, <2>3, AccountedTaken
<1>8. ASSUME NEW r \in Receivers, RDeliveryFails(r) \/ RDrop(r) \/ RHandOver(r)
      PROVE  AccountedInv'
  <2>1. /\ pkg' = [pkg EXCEPT ![r] = {}]
        /\ UNCHANGED <<job, dpc, cursor, remaining, withheld, toR>>
        /\ \/ handed' = handed \cup pkg[r] /\ dropped' = dropped
           \/ dropped' = dropped \cup pkg[r] /\ handed' = handed
    BY <1>8 DEF RDeliveryFails, RDrop, RHandOver, LoseP, distVars, sourceVars, jobVars
  <2> QED
    BY <1>a, <2>1, AccountedGiven
<1> DEFINE Alone == /\ UNCHANGED <<job, cursor, remaining, handed, withheld, dropped, toR, pkg>>
                    /\ dpc \in Early <=> dpc' \in Early
<1>9. ASSUME Barrier1 \/ DStarted \/ DTestsome \/ DLeaveLoop \/ DSendOOB \/ DBeginShutdown
             \/ DArrive \/ Barrier2 \/ DEnd \/ SignalD \/ UNCHANGED vars
      PROVE  Alone
  BY <1>9 DEF Barrier1, DStarted, DTestsome, DLeaveLoop, InLoop, DSendOOB, DBeginShutdown, DArrive,
     Barrier2, DEnd, SignalD, vars, distVars, sourceVars, recvVars, jobVars, fateVars, Early
<1>10. ASSUME NEW r \in Receivers,
              DRecvStart(r) \/ DTaskGone(r) \/ DTaskTerminates(r) \/ DFinal(r)
              \/ ROpenFails(r) \/ RExit(r) \/ RAsk(r) \/ RWorkerStops(r)
              \/ RStopWorkers(r) \/ RFinal(r) \/ SignalR(r)
       PROVE  Alone
  BY <1>10 DEF DRecvStart, DTaskGone, DTaskTerminates, DFinal, ROpenFails, RExit, RAsk,
     RWorkerStops, RStopWorkers, RFinal, SignalR, distVars, sourceVars, recvVars, jobVars, fateVars
<1>11. Alone => AccountedInv'
  BY AccountedAlone
<1> HIDE DEF Alone
<1> QED
  BY <1>1, <1>2, <1>3, <1>4, <1>5, <1>6, <1>7, <1>8, <1>9, <1>10, <1>11
     DEF Next, DistributorStep, ReceiverStep, FaultStep, Environment, Resume, Crash, Over, RTerminate

-----------------------------------------------------------------------------
(***************************************************************************)
(* Why the loop of distributeWork() is left while no exit condition is     *)
(* set: the store is exhausted, or every receiver has left.  A receiver    *)
(* that keeps its OK until the end was dismissed by shutdown(), which is   *)
(* the only place exit commands come from.                                 *)
(***************************************************************************)
Dismissing  == {"shutdown", "barrier2", "final", "done"}
Finished(r) == At(r, "crashed") \/ (rpc[r] \in LeftLoop /\ status[r] \in Departed)

(* In the first job the distributor ends its work when none is left.       *)
SourceEmptied ==
    /\ withheld # {} => dflags # {}
    /\ job = 1 /\ ~haveWork /\ dflags = {} => remaining = 0

ExitsSent ==
    dpc \notin Dismissing =>
        \A r \in Receivers :
            At(r, "asking") /\ toR[r] # <<>> => Head(toR[r]).cmd \notin ExitConditions
LeaversSay ==
    dpc \notin Dismissing => \A r \in Receivers : rpc[r] \in LeftLoop => Finished(r)
NobodyLeft ==
    dpc \in Later /\ haveWork /\ dflags = {} => \A r \in Receivers : Finished(r)

LeaversInv == ExitsSent /\ LeaversSay /\ NobodyLeft

(* No chunk of the store is made up of unreadable records alone.           *)
NoEmptyChunk ==
    \A x \in Records : \E k \in Readable : x =< k /\ k < x + ChunkSize

(* Every step keeps the reasons.                                           *)
LEMMA NextEmptied ==
    ASSUME NoEmptyChunk, TypeInv, AccountedInv, SourceEmptied, [Next]_vars
    PROVE  SourceEmptied'
<1>1. ASSUME NextJob PROVE SourceEmptied'
  <2>1. job' # 1 /\ withheld' = {}
    BY <1>1 DEF NextJob, AccountedInv, TypeInv, TypeOK
  <2> QED
    BY <2>1 DEF SourceEmptied
<1>2. ASSUME DRestore PROVE SourceEmptied'
  BY <1>2 DEF DRestore, SourceEmptied, AccountedInv, FirstJob, Early, flagVars, jobVars,
     fateVars
<1>3. ASSUME NEW r \in Receivers, DIgnore(r) PROVE SourceEmptied'
  <2>1. /\ job' = job /\ dflags' = dflags
        /\ withheld' = withheld \cup PackageElements
        /\ CreateWorkPackage /\ (PackageElements = {} \/ dflags # {})
    BY <1>3 DEF DIgnore, flagVars, jobVars
  <2>2. ASSUME dflags = {}, job = 1 PROVE remaining' = 0
    <3>1. PackageElements = {}
      BY <2>1, <2>2
    <3>2. /\ remaining \in Nat /\ cursor \in Nat \ {0} /\ ChunkSize \in Nat \ {0}
          /\ NumRecords \in Nat /\ cursor + remaining = NumRecords + 1
      BY <2>2, RecordStoreAssumption DEF TypeInv, TypeOK, SourceTypeOK, AccountedInv, FirstJob
    <3>3. KeyCount = 0
      <4> SUFFICES ASSUME KeyCount # 0 PROVE FALSE
        OBVIOUS
      <4>1. cursor \in Records
        BY <3>2 DEF KeyCount, Records
      <4>2. PICK k \in Readable : cursor =< k /\ k < cursor + ChunkSize
        BY <4>1 DEF NoEmptyChunk
      <4> QED
        BY <3>1, <3>2, <4>1, <4>2 DEF PackageElements, KeyCount, Readable, Records
    <3> QED
      BY <2>1, <3>2, <3>3 DEF CreateWorkPackage, KeyCount
  <2> QED
    BY <2>1, <2>2 DEF SourceEmptied
<1>4. ASSUME NEW r \in Receivers, DSendPackage(r) PROVE SourceEmptied'
  <2>1. remaining = 0 => remaining' = 0
    <3>1. remaining' = remaining - KeyCount
      BY <1>4 DEF DSendPackage, CreateWorkPackage
    <3>2. remaining = 0 => KeyCount = 0
      BY RecordStoreAssumption DEF KeyCount
    <3> QED
      BY <3>1, <3>2
  <2>2. UNCHANGED <<job, dflags, haveWork, withheld>>
    BY <1>4 DEF DSendPackage, flagVars, jobVars, fateVars
  <2> QED
    BY <2>1, <2>2 DEF SourceEmptied
<1> DEFINE Kept == UNCHANGED <<job, withheld, haveWork, remaining>> /\ dflags \subseteq dflags'
<1>5. Kept => SourceEmptied'
  BY DEF SourceEmptied
<1>6. ASSUME Barrier1 \/ DSendStart \/ DStarted \/ DTestsome \/ DLeaveLoop \/ DSendOOB
             \/ DBeginShutdown \/ DArrive \/ Barrier2 \/ DEnd \/ SignalD \/ UNCHANGED vars
      PROVE  Kept
  BY <1>6 DEF Barrier1, DSendStart, DStarted, DTestsome, DLeaveLoop, InLoop, DSendOOB,
     DBeginShutdown, DArrive, Barrier2, DEnd, SignalD, vars, distVars, sourceVars, flagVars,
     jobVars, fateVars
<1>7. ASSUME NEW r \in Receivers,
             \/ DRecvStart(r) \/ DTaskGone(r) \/ DTaskTerminates(r) \/ DDrain(r)
             \/ DDismiss(r) \/ DFinal(r) \/ SignalR(r) \/ ReceiverStep(r) \/ FaultStep(r)
      PROVE  Kept
  BY <1>7 DEF DRecvStart, DTaskGone, DTaskTerminates, DDrain, DDismiss, DFinal, SignalR,
     ReceiverStep, FaultStep, ROpenFails, RStartFails, RStart, RExit, RAsk, RReply,
     RDeliveryFails, RDrop, RHandOver, RTerminate, RWorkerStops, RStopWorkers, RFinal,
     distVars, sourceVars, flagVars, jobVars, fateVars
<1> HIDE DEF Kept
<1> QED
  BY <1>1, <1>2, <1>3, <1>4, <1>5, <1>6, <1>7
     DEF Next, DistributorStep, Environment, Resume, Crash, Over

(* Receivers leave, and nobody who left comes back.                        *)
LEMMA LeaversStay ==
    ASSUME LeaversInv, dpc \in Dismissing => dpc' \in Dismissing,
           dpc' \in Later => dpc \in Later, haveWork' => haveWork, dflags \subseteq dflags',
           \A r \in Receivers : Finished(r) => Finished(r)',
           \A r \in Receivers :
               rpc'[r] \in LeftLoop => \/ rpc[r] \in LeftLoop \/ Finished(r)'
                                       \/ dpc \in Dismissing,
           \A r \in Receivers :
               At(r, "asking")' /\ toR'[r] # <<>> =>
                   \/ Head(toR'[r]).cmd \notin ExitConditions \/ dpc' \in Dismissing
                   \/ At(r, "asking") /\ toR'[r] = toR[r]
    PROVE  LeaversInv'
<1>1. ExitsSent'
  BY DEF LeaversInv, ExitsSent
<1>2. LeaversSay'
  BY DEF LeaversInv, LeaversSay
<1>3. NobodyLeft'
  BY DEF LeaversInv, NobodyLeft
<1> QED
  BY <1>1, <1>2, <1>3 DEF LeaversInv

(* The distributor's own steps leave the receivers where they are.         *)
LEMMA LeaversAlone ==
    ASSUME LeaversInv, dpc \in Dismissing => dpc' \in Dismissing,
           dpc' \in Later => dpc \in Later, haveWork' => haveWork, dflags \subseteq dflags',
           UNCHANGED <<rpc, status>>,
           \A r \in Receivers :
               \/ toR'[r] = toR[r]
               \/ At(r, "asking") =>
                    Head(toR'[r]).cmd \notin ExitConditions \/ dpc' \in Dismissing
    PROVE  LeaversInv'
<1>1. \A r \in Receivers : At(r, "asking")' => At(r, "asking")
  BY DEF At
<1>2. \A r \in Receivers : /\ Finished(r) => Finished(r)'
                           /\ rpc'[r] \in LeftLoop => rpc[r] \in LeftLoop
  BY DEF Finished, At
<1> QED
  BY <1>1, <1>2, LeaversStay

(* A receiver's own step does not concern the others.                      *)
LEMMA LeaversOne ==
    ASSUME LeaversInv, UNCHANGED <<dpc, haveWork, dflags>>, NEW r \in Receivers,
           \A s \in Receivers \ {r} :
               rpc'[s] = rpc[s] /\ status'[s] = status[s] /\ toR'[s] = toR[s],
           Finished(r) => Finished(r)',
           rpc'[r] \in LeftLoop => Finished(r)' \/ rpc[r] \in LeftLoop \/ dpc \in Dismissing,
           At(r, "asking")' => toR'[r] = <<>>
    PROVE  LeaversInv'
<1>1. \A s \in Receivers : Finished(s) => Finished(s)'
  BY DEF Finished, At
<1>2. \A s \in Receivers :
        At(s, "asking")' /\ toR'[s] # <<>> => At(s, "asking") /\ toR'[s] = toR[s]
  BY DEF At
<1> QED
  BY <1>1, <1>2, LeaversStay

(* When the distributor has no task left, every receiver has left.         *)
LEMMA NoTasks ==
    ASSUME Conversation, LeaversInv, dpc \in {"recvStart", "distribute"},
           awaited = {}, active = {}
    PROVE  \A r \in Receivers : Finished(r)
<1> SUFFICES ASSUME NEW r \in Receivers PROVE Finished(r)
  OBVIOUS
<1>1. posted = {} /\ batch = {} /\ ~Expected(r) /\ ~Listening(r) /\ Talk(r)
  BY DEF Conversation, TasksKept, Expected, Listening
<1>2. dpc \notin Dismissing
  BY DEF Dismissing
<1>3. Crashed(r) \/ Answered(r) \/ Gone(r)
  BY <1>1 DEF Talk, Unstarted, Starting, Ends, Opening, Ready, Asks, Delivers, Leaves, Expected
<1>4. CASE Crashed(r)
  BY <1>4 DEF Crashed, Finished
<1>5. CASE Gone(r)
  BY <1>2, <1>5 DEF Gone, LeftLoop, LeaversInv, LeaversSay
<1>6. CASE Answered(r)
  <2>1. PICK m \in Message :
          /\ toR[r] = <<m>>
          /\ \/ m.cmd = "Continue" /\ Listening(r)
             \/ m = Command("Ignore") /\ r \in active
             \/ m.cmd \in ExitConditions
    BY <1>6 DEF Answered
  <2>2. Head(toR[r]) = m /\ toR[r] # <<>>
    BY <2>1, CommandSequences
  <2>3. m.cmd \notin ExitConditions
    BY <1>2, <1>6, <2>2 DEF Answered, LeaversInv, ExitsSent
  <2> QED
    BY <1>1, <2>1, <2>3
<1> QED
  BY <1>3, <1>4, <1>5, <1>6

(* A command that does not dismiss leaves no exit command at the head.     *)
LEMMA SendsNoExit ==
    ASSUME TypeOK, LeaversInv, dpc \notin Dismissing, NEW r \in Receivers,
           NEW m \in Message, m.cmd \notin ExitConditions, SendTo(r, m)
    PROVE  \A s \in Receivers :
             \/ toR'[s] = toR[s]
             \/ At(s, "asking") => Head(toR'[s]).cmd \notin ExitConditions
<1>1. \A s \in Receivers \ {r} : toR'[s] = toR[s]
  BY DEF SendTo, TypeOK
<1>2. toR[r] \in Seq(Message) /\ toR'[r] = Append(toR[r], m)
  BY DEF SendTo, TypeOK
<1>3. Head(toR'[r]) = IF toR[r] = <<>> THEN m ELSE Head(toR[r])
  BY <1>2, HeadTailAppend
<1>4. At(r, "asking") => Head(toR'[r]).cmd \notin ExitConditions
  BY <1>3 DEF LeaversInv, ExitsSent
<1> QED
  BY <1>1, <1>4

(* Every step keeps what is said of those who left.                        *)
LEMMA NextLeavers ==
    ASSUME "Terminate" \notin Faults, TypeInv, Conversation, LeaversInv, [Next]_vars
    PROVE  LeaversInv'
<1>a. TypeOK /\ TasksKept /\ \A r \in Receivers : Talk(r)
  BY DEF TypeInv, Conversation
<1>1. ASSUME NextJob PROVE LeaversInv'
  BY <1>1 DEF NextJob, StartLocation, LeaversInv, ExitsSent, LeaversSay, NobodyLeft, Finished,
     At, LeftLoop, Later
<1>2. ASSUME Barrier1 PROVE LeaversInv'
  BY <1>2 DEF Barrier1, LeaversInv, ExitsSent, LeaversSay, NobodyLeft, At, LeftLoop, Later
<1>3. ASSUME Barrier2 PROVE LeaversInv'
  <2>1. /\ dpc = "barrier2" /\ dpc' = "final"
        /\ \A r \in Receivers : rpc[r] = "barrier2" /\ rpc'[r] = "final"
        /\ UNCHANGED <<status, haveWork, dflags>>
    BY <1>3 DEF Barrier2, At, flagVars
  <2> QED
    BY <2>1, LeaversStay DEF Dismissing, Later, LeftLoop, Finished, At
<1>4. ASSUME DSendStart PROVE LeaversInv'
  <2>1. \A r \in Receivers : ~At(r, "asking")
    BY <1>4, <1>a DEF DSendStart, Talk, Unstarted, Starting, Ends, At
  <2> QED
    BY <1>4, <2>1, LeaversAlone DEF DSendStart, recvVars, flagVars, Dismissing, Later
<1>5. ASSUME DStarted PROVE LeaversInv'
  <2>1. dpc' = "drain" => \A r \in Receivers : Finished(r)
    BY <1>5, NoTasks DEF DStarted
  <2>2. /\ UNCHANGED <<rpc, status, toR>> /\ dpc \notin Dismissing
        /\ dpc' \in {"drain", "distribute"}
    BY <1>5 DEF DStarted, recvVars, Dismissing
  <2>3. \A r \in Receivers : Finished(r)' <=> Finished(r)
    BY <2>2 DEF Finished, At
  <2> QED
    BY <2>1, <2>2, <2>3 DEF LeaversInv, ExitsSent, LeaversSay, NobodyLeft, Later, At
<1>6. ASSUME DLeaveLoop PROVE LeaversInv'
  <2>1. /\ UNCHANGED <<rpc, status, toR, haveWork, dflags>>
        /\ dpc = "distribute" /\ dpc' = "oob"
        /\ ~haveWork \/ active = {} \/ dflags # {}
    BY <1>6 DEF DLeaveLoop, InLoop, LeaveLoop, recvVars, flagVars
  <2>2. awaited = {}
    BY <1>a, <2>1 DEF TasksKept
  <2>3. haveWork /\ dflags = {} => \A r \in Receivers : Finished(r)
    BY <2>1, <2>2, NoTasks
  <2>4. \A r \in Receivers : Finished(r)' <=> Finished(r)
    BY <2>1 DEF Finished, At
  <2> QED
    BY <2>1, <2>3, <2>4 DEF LeaversInv, ExitsSent, LeaversSay, NobodyLeft, Dismissing, At
<1>7. ASSUME DRestore \/ DTestsome \/ DSendOOB \/ DBeginShutdown \/ DArrive \/ DEnd \/ SignalD
             \/ UNCHANGED vars
      PROVE  LeaversInv'
  <2>1. /\ UNCHANGED <<rpc, status, toR, haveWork>> /\ dflags \subseteq dflags'
        /\ dpc \in Dismissing => dpc' \in Dismissing
        /\ dpc' \in Later => dpc \in Later
    BY <1>7 DEF DRestore, DTestsome, DSendOOB, DBeginShutdown, DArrive, DEnd, SignalD, vars,
       recvVars, flagVars, distVars, Dismissing, Later
  <2> QED
    BY <2>1, LeaversAlone
<1>8. ASSUME NEW r \in Receivers,
             DRecvStart(r) \/ DTaskGone(r) \/ DTaskTerminates(r) \/ DFinal(r)
             \/ RWorkerStops(r) \/ SignalR(r)
      PROVE  LeaversInv'
  <2>1. UNCHANGED <<dpc, rpc, status, toR, haveWork>> /\ dflags \subseteq dflags'
    BY <1>8 DEF DRecvStart, DTaskGone, DTaskTerminates, DFinal, RWorkerStops, SignalR,
       recvVars, flagVars, distVars
  <2> QED
    BY <2>1, LeaversAlone
<1>9. ASSUME NEW r \in Receivers, DIgnore(r) \/ DSendPackage(r) \/ DDrain(r) PROVE LeaversInv'
  <2>1. /\ UNCHANGED <<dpc, rpc, status, dflags>> /\ (haveWork' => haveWork)
        /\ dpc \in {"distribute", "drain"}
    BY <1>9 DEF DIgnore, DSendPackage, DDrain, Handles, recvVars, flagVars
  <2>2. \/ toR' = toR
        \/ \E m \in Message : m.cmd \notin ExitConditions /\ SendTo(r, m)
    <3>1. Command("Ignore") \in Message /\ Command("Ignore").cmd = "Ignore"
      BY CommandsKnown
    <3>2. PackageElements \subseteq Records
          => [cmd |-> "Continue", pkg |-> PackageElements] \in Message
      BY MessageType
    <3>3. CASE DSendPackage(r)
      <4>1. PackageElements \subseteq Records
        BY <3>3, PackageMade DEF DSendPackage, Readable
      <4> QED
        BY <3>2, <3>3, <4>1, CommandsKnown DEF DSendPackage
    <3> QED
      BY <1>9, <3>1, <3>3, CommandsKnown DEF DIgnore, DDrain
  <2>3. dpc \notin Dismissing
    BY <2>1 DEF Dismissing
  <2>4. \A s \in Receivers :
          \/ toR'[s] = toR[s]
          \/ At(s, "asking") => Head(toR'[s]).cmd \notin ExitConditions
    BY <1>a, <2>2, <2>3, SendsNoExit
  <2> QED
    BY <2>1, <2>4, LeaversAlone
<1>10. ASSUME NEW r \in Receivers, DDismiss(r) PROVE LeaversInv'
  <2>1. UNCHANGED <<dpc, rpc, status, dflags, haveWork>> /\ dpc' \in Dismissing
    BY <1>10 DEF DDismiss, recvVars, flagVars, Dismissing
  <2> QED
    BY <2>1, LeaversAlone
<1>11. ASSUME NEW r \in Receivers,
              ROpenFails(r) \/ RStartFails(r) \/ RStart(r) \/ RExit(r) \/ RAsk(r)
              \/ RDeliveryFails(r) \/ RDrop(r) \/ RHandOver(r) \/ RStopWorkers(r) \/ RFinal(r)
       PROVE  LeaversInv'
  <2>1. /\ UNCHANGED <<dpc, haveWork, dflags>>
        /\ \A s \in Receivers \ {r} :
             rpc'[s] = rpc[s] /\ status'[s] = status[s] /\ toR'[s] = toR[s]
    BY <1>11, <1>a DEF ROpenFails, RStartFails, RStart, RExit, RAsk, RDeliveryFails, RDrop,
       RHandOver, RStopWorkers, RFinal, GoTo, TakeReply, distVars, flagVars, TypeOK
  <2>2. /\ Finished(r) => Finished(r)'
        /\ rpc'[r] \in LeftLoop => Finished(r)' \/ rpc[r] \in LeftLoop
    BY <1>11, <1>a DEF ROpenFails, RStartFails, RStart, RExit, RAsk, RDeliveryFails, RDrop,
       RHandOver, RStopWorkers, RFinal, GoTo, Delivering, At, Finished, LeftLoop, Departed, TypeOK
  <2>3. At(r, "asking")' => toR'[r] = <<>>
    <3>1. At(r, "asking")' => RAsk(r)
      BY <1>11, <1>a DEF ROpenFails, RStartFails, RStart, RExit, RDeliveryFails, RDrop,
         RHandOver, RStopWorkers, RFinal, GoTo, At, TypeOK
    <3>2. ASSUME RAsk(r) PROVE toR'[r] = <<>>
      <4>1. Ready(r)
        BY <1>a, <3>2 DEF RAsk, Talk, At, Unstarted, Starting, Ends, Opening, Crashed, Asks,
           Answered, Delivers, Leaves, Gone
      <4> QED
        BY <3>2, <4>1 DEF RAsk, Ready
    <3> QED
      BY <3>1, <3>2
  <2> QED
    BY <2>1, <2>2, <2>3, LeaversOne
<1>12. ASSUME NEW r \in Receivers, RReply(r) PROVE LeaversInv'
  <2>1. /\ UNCHANGED <<dpc, haveWork, dflags, status>> /\ At(r, "asking") /\ toR[r] # <<>>
        /\ \A s \in Receivers \ {r} : rpc'[s] = rpc[s] /\ toR'[s] = toR[s]
        /\ rpc'[r] = IF Head(toR[r]).cmd = "Ignore" THEN "ready"
                     ELSE IF Head(toR[r]).cmd = "Continue" THEN "deliver" ELSE "stopping"
    BY <1>12, <1>a DEF RReply, GoTo, TakeReply, distVars, flagVars, TypeOK
  <2>2. Head(toR[r]).cmd \in TaskCommand
    <3>1. toR[r] \in Seq(Message)
      BY <1>a DEF TypeOK
    <3>2. Head(toR[r]) \in Message
      BY <2>1, <3>1
    <3> QED
      BY <3>2 DEF Message
  <2>3. rpc'[r] \in LeftLoop => dpc \in Dismissing
    BY <2>1, <2>2 DEF TaskCommand, LeaversInv, ExitsSent, LeftLoop
  <2>4. ~Finished(r) /\ ~At(r, "asking")'
    BY <2>1 DEF Finished, At, LeftLoop
  <2> QED
    BY <2>1, <2>3, <2>4, LeaversOne
<1> QED
  BY <1>1, <1>2, <1>3, <1>4, <1>5, <1>6, <1>7, <1>8, <1>9, <1>10, <1>11, <1>12
     DEF Next, DistributorStep, ReceiverStep, FaultStep, Environment, Resume, Crash, Over,
         RTerminate

(***************************************************************************)
(* A job that ends without an exit condition, without dropping a package   *)
(* and with a receiver that was dismissed in order, has handed every       *)
(* readable record to a worker: for any number of receivers and records,   *)
(* as long as no whole chunk is unreadable.                                *)
(***************************************************************************)
THEOREM CompletedCorrect ==
    ASSUME "Terminate" \notin Faults, NoEmptyChunk
    PROVE  Spec => []CompletedJobHandedAll
<1> DEFINE IInv == TypeInv /\ Conversation /\ AccountedInv /\ SourceEmptied /\ LeaversInv
<1>1. Init => AccountedInv /\ SourceEmptied /\ LeaversInv
  <2> SUFFICES ASSUME Init PROVE AccountedInv /\ SourceEmptied /\ LeaversInv
    OBVIOUS
  <2>1. dpc = "barrier1"
    BY DEF Init, StartLocation, NoFile
  <2>2. \A r \in Receivers : \A i \in Slots(r) : Parcel(r, i) = {}
    BY DEF Init, Slots, Parcel
  <2>3. AccountedInv
    BY <2>1, <2>2, RecordStoreAssumption
       DEF Init, SourceInit, AccountedInv, FirstJob, OnlyReadable, Early, Readable, Records
  <2>4. SourceEmptied
    BY DEF Init, SourceEmptied
  <2>5. LeaversInv
    BY <2>1 DEF Init, LeaversInv, ExitsSent, LeaversSay, NobodyLeft, Later, LeftLoop, At
  <2> QED
    BY <2>3, <2>4, <2>5
<1>2. /\ (TypeInv /\ Conversation) /\ (TypeInv /\ Conversation)'
      /\ AccountedInv /\ SourceEmptied /\ LeaversInv /\ [Next]_vars
      => (AccountedInv /\ SourceEmptied /\ LeaversInv)'
  BY NextAccounted, NextEmptied, NextLeavers
<1>3. ASSUME IInv PROVE CompletedJobHandedAll
  <2> SUFFICES ASSUME JobOver, job = 1, dflags = {}, dropped = {},
                      NEW r \in Receivers, status[r] = "OK"
               PROVE  handed = Readable
    BY DEF CompletedJobHandedAll
  <2>1. dpc = "done" /\ \A s \in Receivers : rpc[s] = "done"
    BY DEF JobOver, At
  <2>2. remaining = 0
    <3>1. ~Finished(r)
      BY <2>1 DEF Finished, At, Departed
    <3>2. ~haveWork
      BY <1>3, <2>1, <3>1 DEF LeaversInv, NobodyLeft, Later
    <3> QED
      BY <1>3, <3>2 DEF SourceEmptied
  <2>3. \A x \in Readable : x < cursor
    BY <1>3, <2>2, RecordStoreAssumption
       DEF AccountedInv, FirstJob, TypeInv, TypeOK, SourceTypeOK, Readable, Records
  <2>4. ASSUME NEW s \in Receivers, NEW i \in Slots(s) PROVE Parcel(s, i) = {}
    <3>1. pkg[s] = {} /\ Unread(s)
      BY <1>3, <2>1 DEF Conversation, PackageHeld, Talk, At, Unstarted, Starting, Ends, Opening,
         Crashed, Ready, Asks, Answered, Delivers, Leaves, Gone, Unread
    <3>2. CASE i = 0
      BY <3>1, <3>2 DEF Parcel
    <3>3. CASE i # 0
      <4>1. i \in 1 .. Len(toR[s])
        BY <1>3, <3>3 DEF Slots, TypeInv, TypeOK
      <4>2. PICK c \in ExitConditions : toR[s] = <<Command(c)>>
        BY <3>1, <4>1 DEF Unread
      <4>3. i = 1
        BY <4>1, <4>2
      <4> QED
        BY <3>3, <4>2, <4>3, CommandsKnown DEF Parcel
    <3> QED
      BY <3>2, <3>3
  <2>5. withheld = {}
    BY <1>3 DEF SourceEmptied
  <2> QED
    BY <1>3, <2>3, <2>4, <2>5 DEF AccountedInv, FirstJob, OnlyReadable, OnItsWay
<1>4. Spec => [](TypeInv /\ Conversation)
  BY ConversationKept
<1> QED
  BY <1>1, <1>2, <1>3, <1>4, PTL DEF Spec
=============================================================================
