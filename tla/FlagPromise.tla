---------------------------- MODULE FlagPromise ----------------------------
(***************************************************************************)
(* What the flag modes promise the players, without messages, timers or    *)
(* slots: each of two flags is in its base, carried, on the ground or idle; *)
(* it travels only by way of a carrier, never from one carrier straight to *)
(* the next; and it is carried by one who is present and carries no other. *)
(***************************************************************************)
EXTENDS Naturals

CONSTANTS Players, Nobody

VARIABLES
    where,    \* where[f]: "base", "carried", "ground" or "idle"
    carrier,  \* carrier[f]: a player, or Nobody
    present   \* the players who live in the game

promiseVars == <<where, carrier, present>>

TwoFlags == {0, 1}

\* A carried flag and its carrier, as every state shows them.
Honest(w, c, p) ==
    /\ \A f \in TwoFlags : IF w[f] = "carried" THEN c[f] \in p ELSE c[f] = Nobody
    /\ c[0] = c[1] => c[0] = Nobody

Begin ==
    /\ where \in [TwoFlags -> {"base", "idle"}]
    /\ carrier = [f \in TwoFlags |-> Nobody]
    /\ present = {}

Rest(f) == where'[f] = where[f] /\ carrier'[f] = carrier[f]
Take(f) == /\ where[f] \in {"base", "ground"} /\ where'[f] = "carried"
           /\ carrier'[f] \in present
Leave(f) == where[f] = "carried" /\ where'[f] # "carried"
Return(f) == where[f] = "ground" /\ where'[f] = "base"
\* Of two flags one goes idle as the other becomes active.
Swap(f) == where[f] = "idle" /\ where'[f] = "base" /\ where'[1 - f] = "idle"

\* The players come and go, live and die; each flag makes one legal move.
Play ==
    /\ present' \in SUBSET Players
    /\ \A f \in TwoFlags : Rest(f) \/ Take(f) \/ Leave(f) \/ Return(f) \/ Swap(f)
    /\ Honest(where', carrier', present')

NewGame ==
    /\ present' \in SUBSET Players
    /\ where' \in [TwoFlags -> {"base", "idle"}]
    /\ carrier' = [f \in TwoFlags |-> Nobody]

Promise == Begin /\ [][Play \/ NewGame]_promiseVars
=============================================================================
