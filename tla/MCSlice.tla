------------------------------ MODULE MCSlice ------------------------------
(***************************************************************************)
(* Four parts of the server slice for TLC in one run.  They share no       *)
(* state, so a behaviour is of one of them (part), and the others stay     *)
(* where they began: the run explores their sum, not their product.        *)
(***************************************************************************)
EXTENDS LuaTimers, Arena, GameCycle, Guns

CONSTANTS i1, i2, m1, m2, m3, pistol, rifle, knife

VARIABLE part

MCPeriod == (i1 :> 1) @@ (i2 :> 2)

\* Rotations in which no line fits some number of players, in which lines are skipped, and of which
\* one is shorter than the other.
MCRotations ==
    LET line(map, least, most, skip, ok) ==
            [mapname |-> map, minplayer |-> least, maxplayer |-> most, skiplines |-> skip, usable |-> ok]
    IN {<<line(m1, 2, 0, 0, TRUE), line(m2, 0, 1, 1, TRUE), line(m1, 0, 0, 0, FALSE), line(m3, 2, 2, 5, TRUE)>>,
        <<line(m2, 0, 1, 0, TRUE), line(m1, 3, 0, 0, TRUE)>>}

MCDelay == (pistol :> 2) @@ (rifle :> 3) @@ (knife :> 1)
MCReload == (pistol :> 1) @@ (rifle :> 2) @@ (knife :> 0)

vars == <<part, timerVars, arenaVars, cycleVars, gunVars>>

Parts == {"timers", "arena", "cycle", "guns"}

Init ==
    /\ part \in Parts
    /\ TimersInit
    /\ ArenaInit /\ (part # "arena" => m_teammode = FALSE)
    /\ CycleInit /\ (part # "cycle" => Len(configsets) = 2)
    /\ GunsInit

TimersStep == part = "timers" /\ TimersNext /\ UNCHANGED <<part, arenaVars, cycleVars, gunVars>>
ArenaStep == part = "arena" /\ ArenaNext /\ UNCHANGED <<part, timerVars, cycleVars, gunVars>>
CycleStep == part = "cycle" /\ CycleNext /\ UNCHANGED <<part, timerVars, arenaVars, gunVars>>
GunsStep == part = "guns" /\ GunsNext /\ UNCHANGED <<part, timerVars, arenaVars, cycleVars>>
Next == TimersStep \/ ArenaStep \/ CycleStep \/ GunsStep

\* TimersFairness, ArenaFairness and CycleFairness, each when its part runs.
FairSpec ==
    /\ Init /\ [][Next]_vars
    /\ WF_timerVars(part = "timers" /\ Elapse) /\ WF_timerVars(part = "timers" /\ BeginTick)
    /\ WF_timerVars(part = "timers" /\ (NextTimer \/ EndTick))
    /\ WF_arenaVars(part = "arena" /\ EndRound) /\ WF_arenaVars(part = "arena" /\ NewRound)
    /\ WF_arenaVars(part = "arena" /\ CountDown)
    /\ WF_cycleVars(part = "cycle" /\ ClockPasses) /\ WF_cycleVars(part = "cycle" /\ IntermissionPasses)
    /\ WF_cycleVars(part = "cycle" /\ SameTime /\ game.forceintermission)

\* The part that runs has well-typed variables.
SliceTypeOK ==
    CASE part = "timers" -> TimersTypeOK
      [] part = "arena" -> RoundTypeOK
      [] part = "cycle" -> CycleTypeOK
      [] part = "guns" -> GunsTypeOK
=============================================================================
