---------------------------- MODULE WakeDelivery ----------------------------
(***************************************************************************)
(* What Process B's poller promises for the backend's commands: delivery at *)
(* most once.  A command waits at the backend until an answer takes it, for *)
(* good or not; an answer is over before the next one; what it carries is   *)
(* forwarded to Process A then or never, and only a wake is forwarded.      *)
(***************************************************************************)
CONSTANTS
  Command,  \* the commands the backend's users give
  Wake      \* those that are forwarded

VARIABLES
  stage,    \* stage[c]: how far c has got
  woken     \* the wakes forwarded by the last step that could forward any

vars == <<stage, woken>>

Stage == {"new", "queued", "carried", "delivered", "dropped"}

Init == stage = [c \in Command |-> "new"] /\ woken = {}

Issue ==
  /\ \E c \in Command :
       stage[c] = "new" /\ stage' = [stage EXCEPT ![c] = "queued"]
  /\ UNCHANGED woken

\* The backend hands out some of its commands in an answer that arrives, or in
\* one that does not.
HandOut ==
  /\ \A c \in Command : stage[c] # "carried"
  /\ \E taken \in SUBSET Command, to \in {"carried", "dropped"} :
       /\ \A c \in taken : stage[c] = "queued"
       /\ stage' = [c \in Command |-> IF c \in taken THEN to ELSE stage[c]]
  /\ woken' = {}

\* The answer is handled, or the process has ended.  What the backend kept may
\* have been in the answer as well.
Handle ==
  /\ woken' \subseteq {c \in Wake : stage[c] \in {"queued", "carried"}}
  /\ stage' = [c \in Command |->
                 IF stage[c] # "carried" THEN stage[c]
                 ELSE IF c \in woken' THEN "delivered" ELSE "dropped"]

Next == Issue \/ HandOut \/ Handle

Spec == Init /\ [][Next]_vars
=============================================================================
