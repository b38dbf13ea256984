------------------------------- MODULE MCLive -------------------------------
(***************************************************************************)
(* Instances of Voting and of Teams for TLC in one run, for what has to    *)
(* happen in the end.  They share no state, so a behaviour is of one of    *)
(* them (part), and the other stays where it began.                        *)
(***************************************************************************)
EXTENDS MCVoting, Teams

VARIABLE part

liveVars == <<part, vars, teamVars>>

LiveInit == part \in {"votes", "teams"} /\ Init /\ TeamsInit
LiveNext ==
    \/ part = "votes" /\ Next /\ UNCHANGED <<part, teamVars>>
    \/ part = "teams" /\ TeamsNext /\ UNCHANGED <<part, vars>>

\* Fairness and TeamsFairness, each of the part that runs.
LiveSpec ==
    /\ LiveInit /\ [][LiveNext]_liveVars
    /\ WF_vars(part = "votes" /\ Tick) /\ WF_vars(part = "votes" /\ VoteSlice)
    /\ WF_teamVars(part = "teams" /\ SliceRefills)
    /\ WF_teamVars(part = "teams" /\ GetsOverdue)
=============================================================================
