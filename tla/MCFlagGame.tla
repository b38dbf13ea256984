----------------------------- MODULE MCFlagGame -----------------------------
(* Instances of FlagGame for TLC: limits in ticks, the symmetry of slots and a *)
(* view without the data that nothing can read any more.                       *)
EXTENDS FlagGame, TLC

\* One tick more than zero is too long: a timer may fire at the first tick after it was
\* set, and every handler may still come between.
MCDropLimit == [m \in {"ctf", "htf"} |-> 0]

\* Everything process() passes on, and what a client of the mode has a use for.
AnyMessage == {"PICKUP", "STEAL", "DROP", "RETURN", "SCORE", "NUM"}
MCAnyMessages == [m \in Modes |-> AnyMessage]
MCModeMessages == [m \in Modes |-> IF m \in {"ktf", "tktf"} THEN {"STEAL", "DROP"}
                                   ELSE {"PICKUP", "STEAL", "DROP", "SCORE"}]

\* Nobody walks up to a flag: what is carried was forced on a client by the server.
MCDropOnly == [m \in Modes |-> {"DROP"}]

\* The slots are interchangeable but for addclient taking the first empty one.
SlotSymmetry == Permutations(Clients)

\* What is left in an empty slot is overwritten by addclient, a carrier is read while
\* the flag is stolen, and no guard reads positions or the points of the last step.
LiveSlot(c) ==
    IF conn[c] = "empty" /\ zombie # c THEN <<>> ELSE <<team[c], life[c], pending[c]>>
LiveFlag(f) ==
    <<flag[f].state, flag[f].age, IF flag[f].state = "STOLEN" THEN flag[f].actor_cn ELSE NoClient>>
LiveView == <<mode, loaded, running, conn, zombie,
              [c \in Clients |-> LiveSlot(c)], [f \in Flags |-> LiveFlag(f)]>>

\* The same for the temporal properties, which do look at the points.
PaidView == <<LiveView, gain>>
=============================================================================
