------------------------------ MODULE RecordJob ------------------------------
(***************************************************************************)
(* What an MPI job, and the jobs that resume it, do with the records of a  *)
(* store, whoever carries them and whatever is said on the way: records    *)
(* are taken off the store in its order, each by one carrier; what was     *)
(* taken is carried, processed, withheld or dropped and never comes back   *)
(* into this job; a checkpoint covers what was taken and nothing that was  *)
(* not, or it cannot be restored; and it stays if the job saved it.        *)
(***************************************************************************)
EXTENDS Naturals

CONSTANTS Carriers,   \* who takes packages to workers
          Records,    \* the records of the store, numbers in its order
          Readable    \* those that can be read

VARIABLES
    stage,      \* "starting" where a checkpoint is to be restored first,
                \* "giving" out records, "closing" when no more are taken
    ahead,      \* the records still to be taken off the store
    carried,    \* the records each carrier has for a worker
    processed,  \* the records this job gave to a worker
    withheld,   \* the records it took off the store for nobody
    dropped,    \* the records carriers did not give to a worker
    settled,    \* the records given to workers by the jobs it resumes
    file,       \* whether there is a checkpoint file
    covered,    \* the records a job that restores it does not take
    saved       \* whether this job saved it

fates == <<carried, processed, withheld, dropped>>
books == <<settled, file, covered, saved>>
vars  == <<stage, ahead, fates, books>>

Nobody == [r \in Carriers |-> {}]

Init ==
    /\ stage = "giving" /\ ahead = Records
    /\ carried = Nobody
    /\ processed = {} /\ withheld = {} /\ dropped = {}
    /\ settled = {} /\ file \in BOOLEAN /\ covered = {} /\ saved = FALSE

\* The next records of the store, in its order.
Take(S) ==
    /\ stage = "giving"
    /\ \A x \in S : \A y \in ahead \ S : x < y
    /\ ahead' = ahead \ S

Give(r, S) ==
    /\ Take(S)
    /\ carried' = [carried EXCEPT ![r] = @ \cup (S \cap Readable)]
    /\ UNCHANGED <<stage, processed, withheld, dropped, books>>

Withhold(S) ==
    /\ Take(S)
    /\ withheld' = withheld \cup (S \cap Readable)
    /\ UNCHANGED <<stage, carried, processed, dropped, books>>

\* A carrier is rid of a package, and is so for good.
HandOver(r, P) ==
    /\ carried' = [carried EXCEPT ![r] = @ \ P]
    /\ processed' = processed \cup P
    /\ UNCHANGED <<stage, ahead, withheld, dropped, books>>

Drop(r, P) ==
    /\ carried' = [carried EXCEPT ![r] = @ \ P]
    /\ dropped' = dropped \cup P
    /\ UNCHANGED <<stage, ahead, processed, withheld, books>>

Taken == processed \cup withheld \cup dropped
           \cup UNION {carried[r] : r \in Carriers}

\* Nothing is taken any more.  A checkpoint saved now covers what is not
\* ahead; it is no checkpoint if this job took nothing.
Close ==
    /\ stage = "giving" /\ stage' = "closing"
    /\ \/ UNCHANGED <<file, covered, saved>>
       \/ /\ file' = TRUE /\ saved' = TRUE
          /\ covered' \subseteq Records \ ahead
          /\ \/ Taken = {} /\ covered' = {}
             \/ Readable \ ahead \subseteq covered'
    /\ UNCHANGED <<ahead, fates, settled>>

\* The file goes when the job was not interrupted.
Finish ==
    /\ stage = "closing" /\ ~saved
    /\ file' = FALSE /\ covered' = {}
    /\ UNCHANGED <<stage, ahead, fates, settled, saved>>

\* The next job, after the end of this one or at any point before it.  The
\* records this one handed out are settled if its checkpoint is there.
Restart ==
    /\ stage' = IF file THEN "starting" ELSE "giving"
    /\ ahead' = Records
    /\ carried' = Nobody
    /\ processed' = {} /\ withheld' = {} /\ dropped' = {} /\ saved' = FALSE
    /\ IF file
         THEN /\ settled' = IF saved THEN settled \cup processed ELSE settled
              /\ UNCHANGED <<file, covered>>
         ELSE settled' = {} /\ covered' = {} /\ file' \in BOOLEAN

Restore ==
    /\ stage = "starting" /\ covered # {}
    /\ stage' = "giving"
    /\ ahead' = ahead \ covered
    /\ UNCHANGED <<fates, books>>

Next ==
    \/ \E S \in SUBSET ahead :
          Withhold(S) \/ \E r \in Carriers : Give(r, S)
    \/ \E r \in Carriers : \E P \in SUBSET carried[r] :
          HandOver(r, P) \/ Drop(r, P)
    \/ Close \/ Finish \/ Restart \/ Restore

Spec == Init /\ [][Next]_vars
=============================================================================
