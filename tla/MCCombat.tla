------------------------------ MODULE MCCombat ------------------------------
(***************************************************************************)
(* Instances of Combat and of Items for TLC in one run.  They share no     *)
(* state, so a behaviour is of one of them (part), and the other stays     *)
(* where it began.  In a behaviour of Combat the client uses guns and      *)
(* kills itself, or it uses grenades: both fill queues, but they have      *)
(* little else in common.                                                  *)
(***************************************************************************)
EXTENDS Combat, Items, TLC

VARIABLE part

\* The first client fights, the second is fought.  (What one client's queue does to another is
\* done by hits; so one queue is enough, as long as its owner can be hit by itself.)
MCSends == <<{"SHOT", "THROW", "EXPLODE", "SUICIDE"}, {}>>

MCAdd == [k \in Kinds |-> 1]
MCMost == [k \in Kinds |-> 2]
MCSpawnTimes == ("gun" :> {1, 2}) @@ ("grenade" :> {2})

allVars == <<part, vars, itemVars>>
MCInit ==
    /\ part \in {"guns", "grenades", "items"}
    /\ Init /\ ItemsInit /\ (part # "items" => ~m_lss)
MCNext ==
    \/ /\ \/ part = "guns" /\ SendGuns
          \/ part = "grenades" /\ SendGrenades
          \/ part # "items" /\ SendNoEvent
       /\ UNCHANGED <<part, itemVars>>
    \/ part = "items" /\ ItemsNext /\ UNCHANGED <<part, vars>>

\* As in FairSpec: a loop that has begun goes on.
MCSpec == MCInit /\ [][MCNext]_allVars /\ WF_vars(part # "items" /\ RunEvents)

\* The part that runs has well-typed variables.
PartsTypeOK == IF part = "items" THEN ItemsTypeOK ELSE TypeOK
=============================================================================
