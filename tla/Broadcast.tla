----------------------------- MODULE Broadcast ------------------------------
(***************************************************************************)
(* What the chat promises its users: a line that somebody types is shown   *)
(* to its author and at most once to everybody else, and to everybody      *)
(* unless a neighbour was given up or the line was taken for another one.  *)
(***************************************************************************)
EXTENDS Sequences, SequencesExt

CONSTANTS Peers, Lines

VARIABLES
  said,   \* the lines typed so far
  shown,  \* peer -> the lines on its screen, in order
  cut     \* a line may not reach everybody

broadcastVars == <<said, shown, cut>>

BroadcastInit ==
  /\ said = {}
  /\ shown = [p \in Peers |-> <<>>]
  /\ cut = FALSE

Say(p, m) ==
  /\ m \notin said
  /\ said' = said \cup {m}
  /\ shown' = [shown EXCEPT ![p] = Append(@, m)]
  /\ cut' \in {cut, TRUE}

Show(p, m) ==
  /\ m \in said
  /\ m \notin ToSet(shown[p])
  /\ shown' = [shown EXCEPT ![p] = Append(@, m)]
  /\ UNCHANGED <<said, cut>>

Cut == cut' = TRUE /\ UNCHANGED <<said, shown>>

BroadcastNext ==
  \/ \E p \in Peers, m \in Lines : Say(p, m) \/ Show(p, m)
  \/ Cut

BroadcastSafety == BroadcastInit /\ [][BroadcastNext]_broadcastVars

\* A line that is not shown to somebody is not left at that, unless cut.
BroadcastSpec ==
  /\ BroadcastSafety
  /\ \A p \in Peers, m \in Lines : WF_broadcastVars(~cut /\ Show(p, m))
=============================================================================
