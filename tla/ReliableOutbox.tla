--------------------------- MODULE ReliableOutbox ---------------------------
(***************************************************************************)
(* What Process B's outbox promises for a reading once it is durable: it    *)
(* stays until the backend has handled it for good, or it is parked for     *)
(* ever after repeated refusals, and then it is never posted again.  A      *)
(* reading that has left never comes back.                                  *)
(***************************************************************************)
CONSTANT Reading

VARIABLES
  status,   \* status[r]: how far r has got
  handled   \* readings the backend accepted or skipped for good

vars == <<status, handled>>

Status == {"new", "stored", "settled", "parked"}

Init == status = [r \in Reading |-> "new"] /\ handled = {}

\* The backend handles readings, possibly again, but none that is parked.
Handle ==
  /\ \E S \in SUBSET Reading :
       /\ \A r \in S : status[r] # "parked"
       /\ handled' = handled \cup S
  /\ UNCHANGED status

\* One commit may store, settle and park several readings at once.
MayBecome(r, old, new) ==
  \/ new = old
  \/ old = "new" /\ new \in {"stored", "parked"}
  \/ old = "stored" /\ new = "parked"
  \/ old \in {"new", "stored"} /\ new = "settled" /\ r \in handled

Advance ==
  /\ \E next \in [Reading -> Status] :
       /\ \A r \in Reading : MayBecome(r, status[r], next[r])
       /\ status' = next
  /\ UNCHANGED handled

Next == Handle \/ Advance

Spec == Init /\ [][Next]_vars
=============================================================================
