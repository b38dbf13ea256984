--------------------------- MODULE MCConnections ---------------------------
(***************************************************************************)
(* Instances of Connections and of WorldState for TLC in one run.  They    *)
(* share no state, so a behaviour is of one of them (part), and the other  *)
(* stays where it began.                                                   *)
(***************************************************************************)
EXTENDS Connections, WorldState, TLC

CONSTANTS a1, a2, a3

VARIABLE part

\* a1 and a2 share a host, and all hosts a /16.
MCHost == [p \in Peers |-> IF p = a3 THEN "h2" ELSE "h1"]
MCNet == [h \in Hosts |-> "net"]

\* Two saved scores at a time, and no points while somebody is banned.
Bounded ==
    /\ Len(savedscores) <= 2
    /\ bans # <<>> =>
          /\ Len(savedscores) <= 1
          /\ \A p \in Points : Copies(clients, savedscores, p) = 0

Symmetry == Permutations(Slots) \cup Permutations(Names) \cup Permutations({a1, a2})

MCInit == part \in {"connections", "world"} /\ Init /\ WorldInit
MCNext ==
    \/ part = "connections" /\ Next /\ UNCHANGED <<part, worldVars>>
    \/ part = "world" /\ WorldNext /\ UNCHANGED <<part, vars>>
MCSpec == MCInit /\ [][MCNext]_<<part, vars, worldVars>>

\* The variables of both parts are well-typed.
PartsTypeOK == TypeOK /\ WorldTypeOK
=============================================================================
