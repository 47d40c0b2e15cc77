---------------------------- MODULE RecordStore ----------------------------
(***************************************************************************)
(* What a record store promises its clients about keys, sequencing and     *)
(* durability (be_io_recordstore.h), for any implementation: keys keep     *)
(* the order they were first inserted in, a removed one is skipped, and a  *)
(* kill leaves the store as it was at some moment since the last sync(),   *)
(* or nothing if it comes while the store is being saved.                  *)
(* The bytes of the records are not part of this module.                   *)
(***************************************************************************)
EXTENDS Naturals, Sequences

CONSTANTS
    Keys,
    ForgetsAim          \* whether a cursor set before the first sequence()
                        \* may be forgotten

VARIABLES
    current,    \* [exists, order, live]: the store as its client sees it
    survivors,  \* the contents a kill may leave behind
    mode,       \* "closed", "ReadWrite", "ReadOnly", or "saving": inside
                \* sync() or the destructor of a writable store
    next,       \* where sequence() continues in the order, or Ended
    answer      \* what the last step returned or threw

vars == <<current, survivors, mode, next, answer>>

Ended == 0

Nothing == [exists |-> FALSE, order |-> <<>>, live |-> {}]
Store(order, live) == [exists |-> TRUE, order |-> order, live |-> live]
Empty == Store(<<>>, {})

Says(out) == answer' = [out |-> out, keys |-> {}]
SaysKey(out, k) == answer' = [out |-> out, keys |-> {k}]

\* A store just created: until its first sync() a kill leaves nothing usable.
Init ==
    /\ current = Empty
    /\ survivors = {Nothing, Empty}
    /\ mode = "ReadWrite"
    /\ next = 1
    /\ answer = [out |-> "created", keys |-> {}]

Placed(k) == \E i \in DOMAIN current.order : current.order[i] = k

Changes(c) ==
    /\ current' = c
    /\ survivors' = survivors \cup {c}
    /\ UNCHANGED <<mode, next>>

Refused(out) == Says(out) /\ UNCHANGED <<current, survivors, mode, next>>

Insert(k) ==
    /\ mode = "ReadWrite"
    /\ \/ Refused("exists") /\ k \in current.live
       \/ /\ Says("inserted")
          /\ k \notin current.live
          /\ Changes(Store(IF Placed(k) THEN current.order
                           ELSE Append(current.order, k),
                           current.live \cup {k}))

Remove(k) ==
    /\ mode = "ReadWrite"
    /\ \/ Refused("absent") /\ k \notin current.live
       \/ /\ Says("removed")
          /\ k \in current.live
          /\ Changes(Store(current.order, current.live \ {k}))

RefusedReadOnly == mode = "ReadOnly" /\ Refused("readonly")

IsIdle == mode \in {"ReadWrite", "ReadOnly"}

LivePlaces == {i \in DOMAIN current.order : current.order[i] \in current.live}

\* sequence() from the cursor or, when asked to start, from the first key.
Sequence(start) ==
    LET from == IF start THEN 1 ELSE next
        ahead == {i \in LivePlaces : from # Ended /\ i >= from}
    IN  /\ IsIdle
        /\ \/ /\ Says("ended")
              /\ ahead = {}
              /\ next' = IF next = 1 THEN 1 ELSE Ended
           \/ \E i \in ahead :
                 /\ SaysKey("key", current.order[i])
                 /\ \A j \in ahead : i <= j
                 /\ next' = i + 1
        /\ UNCHANGED <<current, survivors, mode>>

\* "Key will be the first record returned from the next call to sequence()";
\* next = 1 before the first call.
SetCursorAtKey(k) ==
    /\ IsIdle
    /\ \/ /\ Says("absent")
          /\ k \notin current.live
          /\ UNCHANGED next
       \/ /\ SaysKey("aimed", k)
          /\ k \in current.live
          /\ \/ \E i \in DOMAIN current.order :
                   current.order[i] = k /\ next' = i
             \/ ForgetsAim /\ next = 1 /\ UNCHANGED next
    /\ UNCHANGED <<current, survivors, mode>>

\* The operating system may write what it was given, at any time; reading
\* changes nothing and may bring that about.
Settle ==
    /\ Says("settled")
    /\ survivors' \subseteq survivors
    /\ current \in survivors'
    /\ UNCHANGED <<current, mode, next>>

\* The control file is rewritten, and for a moment there is none: a kill may
\* leave nothing, even of a store that was synced before.
SaveBegins ==
    /\ Says("saving")
    /\ mode = "ReadWrite"
    /\ mode' = "saving"
    /\ survivors' \subseteq survivors \cup {Nothing}
    /\ current \in survivors'
    /\ UNCHANGED <<current, next>>

\* sync(), and the destructor: the store as it is now is on the disk.
Sync ==
    /\ Says("synced")
    /\ mode \in {"saving", "ReadOnly"}
    /\ mode' = IF mode = "saving" THEN "ReadWrite" ELSE mode
    /\ survivors' = {current}
    /\ UNCHANGED <<current, next>>

Close ==
    /\ Says("closed")
    /\ mode \in {"saving", "ReadOnly"}
    /\ survivors' = {current}
    /\ mode' = "closed"
    /\ next' = 1
    /\ UNCHANGED current

Kill ==
    /\ Says("killed")
    /\ mode # "closed"
    /\ current' \in survivors
    /\ survivors' = {current'}
    /\ mode' = "closed"
    /\ next' = 1

Open(m) ==
    /\ mode = "closed"
    /\ \/ Says("opened") /\ current.exists /\ mode' = m
       \/ Says("failed") /\ ~current.exists /\ UNCHANGED mode
    /\ UNCHANGED <<current, survivors, next>>

\* Drops the places of removed keys; the others keep their order.
Vacuum ==
    /\ Says("vacuumed")
    /\ mode = "closed"
    /\ current'.exists = current.exists /\ current'.live = current.live
    /\ \E from \in [DOMAIN current'.order -> LivePlaces] :
          /\ \A i \in LivePlaces : \E n \in DOMAIN from : from[n] = i
          /\ \A m, n \in DOMAIN from : m < n => from[m] < from[n]
          /\ \A n \in DOMAIN from : current'.order[n] = current.order[from[n]]
    /\ survivors' = {current'}
    /\ UNCHANGED <<mode, next>>

Next ==
    \/ \E k \in Keys : Insert(k) \/ Remove(k) \/ SetCursorAtKey(k)
    \/ RefusedReadOnly
    \/ \E start \in BOOLEAN : Sequence(start)
    \/ Settle \/ SaveBegins \/ Sync \/ Close \/ Kill \/ Vacuum
    \/ \E m \in {"ReadWrite", "ReadOnly"} : Open(m)

Spec == Init /\ [][Next]_vars
=============================================================================
