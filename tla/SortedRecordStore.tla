------------------------- MODULE SortedRecordStore -------------------------
(***************************************************************************)
(* What a record store that keeps its records sorted promises its clients  *)
(* about keys and sequencing, when an operation may fail part of the way:  *)
(* insert() and remove() answer by what the store has; only the key an     *)
(* operation failed on may come or go by the failure; a sequence returns   *)
(* its records in ascending order, those it began with as long as they     *)
(* stay, and of those inserted meanwhile none behind what it returned,     *)
(* unless an insertion sets it back: the first one after the sequence came *)
(* to its end by a removal, or after the store was empty.                  *)
(***************************************************************************)
EXTENDS Integers

CONSTANT Keys

VARIABLES
    live,       \* the keys of the records in the store
    torn,       \* keys an operation failed on part of the way
    mode,       \* "closed", "ReadWrite" or "ReadOnly"
    begun,      \* whether a sequence is in progress
    left,       \* the keys it has still to return, all of them if not begun
    given,      \* those it has returned or was set past
    loose,      \* whether the next insertion may set a sequence back
    answer      \* what the last step returned or threw

vars == <<live, torn, mode, begun, left, given, loose, answer>>

Says(out) == answer' = [out |-> out, keys |-> {}]
SaysKey(out, k) == answer' = [out |-> out, keys |-> {k}]

Refused(out) ==
    Says(out) /\ UNCHANGED <<live, torn, mode, begun, left, given, loose>>

\* A store just created.
Init ==
    /\ live = {} /\ torn = {} /\ mode = "ReadWrite"
    /\ begun = FALSE /\ left = {} /\ given = {} /\ loose = TRUE
    /\ answer = [out |-> "created", keys |-> {}]

\* k is in the store from now on.  A sequence that has not begun will return
\* it; one in progress may come to any record it had missed, but never goes
\* back, and misses none that it had still to return.
Joins(k) ==
    /\ live' = live \cup {k}
    /\ left \subseteq left' /\ left' \subseteq live'
    /\ \A j \in left' \ left : \A g \in given' : g < j
    /\ ~begun => left' = live'
    /\ UNCHANGED <<mode, begun>>

\* A sequence that is set back may return again what it has returned.
SetsBack == loose' = FALSE /\ given' = IF loose THEN {} ELSE given

Insert(k) ==
    /\ mode = "ReadWrite"
    /\ \/ /\ SaysKey("inserted", k)
          /\ k \notin live
          /\ Joins(k) /\ SetsBack
          /\ UNCHANGED torn
       \/ Refused("exists") /\ k \in live
       \/ /\ Says("exists")     \* for parts a failure left behind
          /\ k \in torn \ live
          /\ Joins(k)
          /\ UNCHANGED <<torn, given, loose>>
       \/ /\ Says("failed")
          /\ k \notin live
          /\ Joins(k)
          /\ torn' = torn \cup {k}
          /\ UNCHANGED <<given, loose>>
       \/ Refused("failed")

Leaves(k) ==
    /\ k \in live
    /\ live' = live \ {k}
    /\ left' = left \ {k} /\ given' = given \ {k}
    /\ loose' \in {loose, loose \/ ~begun \/ left' = {}}
    /\ UNCHANGED <<mode, begun>>

Remove(k) ==
    /\ mode = "ReadWrite"
    /\ \/ Refused("absent") /\ k \notin live
       \/ Says("removed") /\ Leaves(k) /\ UNCHANGED torn
       \/ Says("failed") /\ Leaves(k) /\ torn' = torn \cup {k}
       \/ Refused("failed") /\ k \in live

RefusedReadOnly == mode = "ReadOnly" /\ Refused("readonly")

\* sequence() from the cursor or, when asked to start, from the first key.
Sequence(start) ==
    LET ahead == IF start THEN live ELSE left
    IN  /\ mode # "closed"
        /\ \/ Refused("ended") /\ ahead = {}
           \/ \E k \in ahead :
                 /\ SaysKey("key", k)
                 /\ \A j \in ahead : k <= j
                 /\ left' = ahead \ {k}
                 /\ given' = (IF start THEN {} ELSE given) \cup {k}
                 /\ begun' = TRUE
                 /\ UNCHANGED <<live, torn, mode, loose>>

SetCursorAtKey(k) ==
    /\ mode # "closed"
    /\ \/ Refused("absent") /\ k \notin live
       \/ /\ SaysKey("aimed", k)
          /\ k \in live
          /\ left' = {j \in live : j >= k} /\ given' = live \ left'
          /\ begun' = TRUE
          /\ UNCHANGED <<live, torn, mode, loose>>

Open(m) ==
    /\ mode = "closed" /\ mode' = m
    /\ Says("opened")
    /\ begun' = FALSE /\ left' = live /\ given' = {} /\ loose' = (live = {})
    /\ UNCHANGED <<live, torn>>

Close ==
    /\ mode # "closed" /\ mode' = "closed"
    /\ Says("closed")
    /\ UNCHANGED <<live, torn, begun, left, given, loose>>

\* Nothing is promised of a sequence in progress.
Move ==
    /\ mode = "ReadWrite"
    /\ Says("moved")
    /\ left' \subseteq live /\ given' = {} /\ loose' = (live = {})
    /\ ~begun => left' = live
    /\ UNCHANGED <<live, torn, mode, begun>>

Next ==
    \/ \E k \in Keys : Insert(k) \/ Remove(k) \/ SetCursorAtKey(k)
    \/ RefusedReadOnly
    \/ \E start \in BOOLEAN : Sequence(start)
    \/ \E m \in {"ReadWrite", "ReadOnly"} : Open(m)
    \/ Close \/ Move

Spec == Init /\ [][Next]_vars
=============================================================================
