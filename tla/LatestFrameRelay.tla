--------------------------- MODULE LatestFrameRelay ---------------------------
(***************************************************************************)
(* What the ICU-facing side of the bridge promises to its clients, with    *)
(* no word about sockets, callbacks or fragments: a relay of the latest    *)
(* frame.  Frames are numbered in the order in which they are published.   *)
(* A client that joins sees only frames published from then on, each at    *)
(* most once and in order; it may miss frames that were superseded before  *)
(* it could take them, but while it stays it eventually catches up with    *)
(* the newest.                                                             *)
(***************************************************************************)
EXTENDS Naturals, Sequences

CONSTANT Client      \* the clients of the relay

VARIABLES latest,      \* the number of the newest frame, 0 before the first
          live,        \* FALSE when there is no frame to hand out
          up,          \* the clients that are connected
          joined,      \* joined[c]: the newest frame when c connected
          inbox        \* inbox[c]: what c has received since it connected

vars == <<latest, live, up, joined, inbox>>

\* The newest frame a client has seen, or could not see.
Seen(c) == IF inbox[c] = <<>> THEN joined[c] ELSE inbox[c][Len(inbox[c])]

Init ==
  /\ latest = 0
  /\ live = FALSE
  /\ up = {}
  /\ joined = [c \in Client |-> 0]
  /\ inbox = [c \in Client |-> <<>>]

Publish ==
  /\ latest' = latest + 1
  /\ live' = TRUE
  /\ UNCHANGED <<up, joined, inbox>>

\* An empty frame takes the newest one away without putting another in place.
Clear ==
  /\ live' = FALSE
  /\ UNCHANGED <<latest, up, joined, inbox>>

Join(c) ==
  /\ c \notin up
  /\ up' = up \cup {c}
  /\ joined' = [joined EXCEPT ![c] = latest]
  /\ inbox' = [inbox EXCEPT ![c] = <<>>]
  /\ UNCHANGED <<latest, live>>

Leave(c) ==
  /\ c \in up
  /\ up' = up \ {c}
  /\ UNCHANGED <<latest, live, joined, inbox>>

\* There is something for c to receive.
Behind(c) == c \in up /\ live /\ Seen(c) < latest

Deliver(c) ==
  /\ Behind(c)
  /\ inbox' = [inbox EXCEPT ![c] = Append(@, latest)]
  /\ UNCHANGED <<latest, live, up, joined>>

Next ==
  \/ Publish
  \/ Clear
  \/ \E c \in Client : Join(c) \/ Leave(c) \/ Deliver(c)

Safety == Init /\ [][Next]_vars

\* A client does not stay behind for ever: it is served, or it goes.
Fairness == \A c \in Client : WF_vars(Behind(c) /\ (Deliver(c) \/ Leave(c)))

Spec == Safety /\ Fairness
=============================================================================
