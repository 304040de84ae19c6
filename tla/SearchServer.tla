----------------------------- MODULE SearchServer -----------------------------
(***************************************************************************)
(* What the driver-search scheduler promises, without threads, timers or   *)
(* dialogs: a counter with one clerk.  A request may wait, it is served     *)
(* alone, and it is served at most once; the clerk may also turn it away.   *)
(***************************************************************************)
EXTENDS Naturals

CONSTANT Requests

VARIABLES
  waiting,  \* requests that asked and were not served yet
  serving,  \* the request being served, if any
  retired   \* requests served or turned away

serverVars == <<waiting, serving, retired>>

Init == waiting = {} /\ serving = {} /\ retired = {}

Fresh(r) == r \notin waiting \cup serving \cup retired

Ask(r) ==
  /\ Fresh(r)
  /\ waiting' = waiting \cup {r}
  /\ UNCHANGED <<serving, retired>>

Serve(r) ==
  /\ r \in waiting \/ Fresh(r)
  /\ serving = {}
  /\ serving' = {r}
  /\ waiting' = waiting \ {r}
  /\ UNCHANGED retired

Finish(r) ==
  /\ serving = {r}
  /\ serving' = {}
  /\ retired' = retired \cup {r}
  /\ UNCHANGED waiting

\* Several at once when the queue is cleared.
TurnAway(S) ==
  /\ \A r \in S : r \in waiting \/ Fresh(r)
  /\ waiting' = waiting \ S
  /\ retired' = retired \cup S
  /\ UNCHANGED serving

Next ==
  \/ \E r \in Requests : Ask(r) \/ Serve(r) \/ Finish(r)
  \/ \E S \in SUBSET Requests : TurnAway(S)

Spec == Init /\ [][Next]_serverVars
=============================================================================
