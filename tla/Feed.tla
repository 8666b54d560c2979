-------------------------------- MODULE Feed --------------------------------
(***************************************************************************)
(* What the WebSocket hub promises a browser: a live feed.  Messages have  *)
(* one order for everybody.  A subscriber enters at some point of that     *)
(* order and from there on is shown every message, each once and in order, *)
(* until it leaves; it is never shown one that was not published.          *)
(***************************************************************************)
EXTENDS Naturals, Sequences

CONSTANTS Subscriber

VARIABLES
  log,    \* number of messages published so far
  place,  \* where a subscriber is: "outside", "inside", "left"
  start,  \* the message after which a subscriber entered
  seen    \* what a subscriber has been shown

feedVars == <<log, place, start, seen>>

FeedTypeOK ==
  /\ log \in Nat
  /\ place \in [Subscriber -> {"outside", "inside", "left"}]
  /\ start \in [Subscriber -> Nat]
  /\ seen \in [Subscriber -> Seq(Nat)]

Init ==
  /\ log = 0
  /\ place = [s \in Subscriber |-> "outside"]
  /\ start = [s \in Subscriber |-> 0]
  /\ seen = [s \in Subscriber |-> <<>>]

Publish ==
  /\ log' = log + 1
  /\ UNCHANGED <<place, start, seen>>

\* Messages published but not yet handed out may or may not be shown.
Enter(s) ==
  /\ place[s] = "outside"
  /\ place' = [place EXCEPT ![s] = "inside"]
  /\ \E n \in 0 .. log : start' = [start EXCEPT ![s] = n]
  /\ UNCHANGED <<log, seen>>

\* The message a subscriber is to be shown next.
Upcoming(s) == start[s] + Len(seen[s]) + 1

Show(s) ==
  /\ place[s] = "inside"
  /\ Upcoming(s) <= log
  /\ seen' = [seen EXCEPT ![s] = Append(@, Upcoming(s))]
  /\ UNCHANGED <<log, place, start>>

Leave(s) ==
  /\ place[s] = "inside"
  /\ place' = [place EXCEPT ![s] = "left"]
  /\ UNCHANGED <<log, start, seen>>

Next == Publish \/ \E s \in Subscriber : Enter(s) \/ Show(s) \/ Leave(s)

Spec == Init /\ [][Next]_feedVars
=============================================================================
