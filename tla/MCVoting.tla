------------------------------ MODULE MCVoting ------------------------------
(* Instances of Voting for TLC: peers of one or two hosts, and a view without what is left *)
(* in empty slots.                                                         *)
EXTENDS Voting, TLC

CONSTANTS a1, a2, a3

\* a1 and a2 share a host.
MCHost == [a \in Addrs |-> IF a = a3 THEN "h2" ELSE "h1"]

SlotSymmetry == Permutations(Clients)

LiveSlot(c) ==
    IF valid_client(world, c)
    THEN <<world.conn[c], addr[c], world.role[c], world.vote[c], world.team[c],
           world.rested[c], c \in cast>>
    ELSE <<>>
LiveView == <<curvote, map_queued, [c \in Clients |-> LiveSlot(c)],
              world.bans, world.nextmap, world.forced, world.interm>>
=============================================================================
