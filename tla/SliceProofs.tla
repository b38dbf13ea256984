----------------------------- MODULE SliceProofs -----------------------------
(***************************************************************************)
(* Theorems about the four parts of the server slice that MCSlice          *)
(* composes, for all values of their constants: the rounds of the arena    *)
(* modes, the waits of guns, the cycle of games, and the timers of Lua     *)
(* scripts; and then about the composition.                                *)
(***************************************************************************)
EXTENDS MCSlice, Loops

-----------------------------------------------------------------------------
(***************************************************************************)
(* ARENA: types, and one life a round, for any number of players.          *)
(*                                                                         *)
(* The argument.  A spawn state is given in three places: with a new       *)
(* round; when a client reports the right map; and by updateclientteam,    *)
(* where it comes to nothing, for it is asked for while the client is      *)
(* still a spectator.  The second needs freshgame, which is gone as soon   *)
(* as a player has lived in the game (NoSecondStart).                      *)
(***************************************************************************)

\* Who has the right map, or has been given a spawn state, is not owed one any more.
NoSecondStart(p) == p.freshgame => ~p.isonrightmap /\ ~p.lived

\* What every operation keeps true of a player.
PlayerOK(p) ==
    /\ p \in PlayerStates
    /\ team_isspectator(p) => p.state # "alive" /\ ~p.lastspawn
    /\ p.is # "authed" => team_isspectator(p)
    /\ NoSecondStart(p)

ArenaInv ==
    /\ player \in [Players -> PlayerStates] /\ \A c \in Players : PlayerOK(player[c])
    /\ m_teammode \in BOOLEAN /\ interm \in BOOLEAN
    /\ arenaround \in {"fought", "won", "due"}

-----------------------------------------------------------------------------
(* The functions that spawn and kill.                                      *)

\* A forced death leaves no life and no spawn state.
LEMMA ForcedDeath ==
  ASSUME NEW p, PlayerOK(p)
  PROVE  /\ PlayerOK(forcedeath(p)) /\ ~forcedeath(p).lastspawn /\ forcedeath(p).state = "dead"
         /\ forcedeath(p).team = p.team
  BY DEF PlayerOK, PlayerStates, forcedeath, Respawned, team_isspectator, NoSecondStart

\* A spawn state is for players that are not owed one besides.
LEMMA SpawnState ==
  ASSUME NEW p, PlayerOK(p), ~p.freshgame
  PROVE  PlayerOK(sendspawn(p))
  BY DEF PlayerOK, PlayerStates, sendspawn, Respawned, team_isspectator, NoSecondStart

\* A change of team gives nobody a spawn state.
LEMMA ChangeOfTeam ==
  ASSUME NEW p, PlayerOK(p), p.is = "authed", NEW team \in ActiveTeams \cup {"spect"}
  PROVE  /\ PlayerOK(updateclientteam(p, team))
         /\ updateclientteam(p, team).lastspawn => p.lastspawn
<1> DEFINE q == forcedeath(p)
<1>0. PlayerOK(q) /\ ~q.lastspawn /\ q.is = "authed"
  BY ForcedDeath DEF forcedeath, Respawned, PlayerOK, PlayerStates
<1> HIDE DEF q
<1>1. CASE team = "spect"
  <2>1. updateclientteam(p, team) = [q EXCEPT !.team = team, !.state = "spectate"]
    BY <1>1 DEF updateclientteam, q
  <2> QED  BY <1>0, <1>1, <2>1 DEF PlayerOK, PlayerStates, team_isspectator, NoSecondStart
<1>2. CASE team \in ActiveTeams /\ team_isspectator(p)
  <2>1. sendspawn(p) = p
    BY <1>2 DEF sendspawn
  <2>2. updateclientteam(p, team) = [p EXCEPT !.team = team, !.state = p.state]
    BY <1>2, <2>1 DEF updateclientteam, ActiveTeams
  <2> QED  BY <1>2, <2>2 DEF PlayerOK, PlayerStates, ActiveTeams, team_isspectator, NoSecondStart
<1>3. CASE team \in ActiveTeams /\ ~team_isspectator(p)
  <2>1. updateclientteam(p, team) = [q EXCEPT !.team = team, !.state = q.state]
    BY <1>3 DEF updateclientteam, ActiveTeams, q
  <2> QED  BY <1>0, <1>3, <2>1 DEF PlayerOK, PlayerStates, ActiveTeams, team_isspectator, NoSecondStart
<1> QED  BY <1>1, <1>2, <1>3

\* Who changes the map has no life, and is owed one only with a new game.
LEMMA NewMap ==
  ASSUME NEW p, PlayerOK(p), NEW getmap \in BOOLEAN, getmap \/ ~p.lived
  PROVE  /\ PlayerOK(mapchange(p, getmap)) /\ ~mapchange(p, getmap).lastspawn
         /\ mapchange(p, getmap).state = "dead"
  BY DEF PlayerOK, PlayerStates, mapchange, Respawned, team_isspectator, NoSecondStart

-----------------------------------------------------------------------------
(* The steps.  OneLife is the body of OneLifePerRound.                     *)

OneLife(c) ==
    player[c].lived /\ ~player[c].lastspawn /\ player'[c].lastspawn =>
        NewRound \/ numclients < 2

\* The steps of one player: it is left in order, and alone gets a spawn state.
LEMMA OnePlayer ==
  ASSUME ArenaInv, NEW c \in Players, NEW p, Becomes(c, p), Same, PlayerOK(p),
         player[c].lived /\ ~player[c].lastspawn /\ p.lastspawn => numclients < 2
  PROVE  ArenaInv' /\ \A d \in Players : OneLife(d)
<1>1. player' = [player EXCEPT ![c] = p]
  BY DEF Becomes
<1>2. p \in PlayerStates
  BY DEF PlayerOK
<1>3. player' \in [Players -> PlayerStates] /\ \A d \in Players : PlayerOK(player'[d])
  BY <1>1, <1>2 DEF ArenaInv
<1> QED  BY <1>1, <1>3 DEF ArenaInv, Same, OneLife

LEMMA ArenaSteps ==
  ASSUME ArenaInv, ArenaNext
  PROVE  ArenaInv' /\ \A d \in Players : OneLife(d)
<1>0. /\ player \in [Players -> PlayerStates] /\ \A c \in Players : PlayerOK(player[c])
      /\ \A c \in Players : player[c] \in PlayerStates
  BY DEF ArenaInv
<1> DEFINE Kept(p, c) == /\ PlayerOK(p)
                         /\ player[c].lived /\ ~player[c].lastspawn /\ p.lastspawn => numclients < 2
<1> DEFINE Done == ArenaInv' /\ \A d \in Players : OneLife(d)
<1>1. ASSUME NEW c \in Players, NEW p, Becomes(c, p), Same, Kept(p, c) PROVE Done
  BY <1>1, OnePlayer
<1> HIDE DEF Done
<1>2. ASSUME NEW c \in Players, Enter(c) PROVE Done
  <2> DEFINE p == [Nobody EXCEPT !.is = "connected", !.state = "spectate"]
  <2>1. Kept(p, c)
    BY DEF Nobody, PlayerOK, PlayerStates, team_isspectator, NoSecondStart
  <2> QED  BY <1>1, <1>2, <2>1 DEF Enter
<1>3. ASSUME NEW c \in Players, Join(c) PROVE Done
  <2> DEFINE p == [player[c] EXCEPT !.is = "authed", !.team = "spect"]
  <2>1. Kept(p, c)
    BY <1>0, <1>3 DEF Join, PlayerOK, PlayerStates, team_isspectator, NoSecondStart
  <2> QED  BY <1>1, <1>3, <2>1 DEF Join
<1>4. ASSUME NEW c \in Players, Leave(c) PROVE Done
  <2>1. Kept(Nobody, c)
    BY DEF Nobody, PlayerOK, PlayerStates, team_isspectator, NoSecondStart
  <2> QED  BY <1>1, <1>4, <2>1 DEF Leave
<1>5. ASSUME NEW c \in Players, MapIdent(c) PROVE Done
  <2> DEFINE p == [player[c] EXCEPT !.isonrightmap = TRUE, !.freshgame = FALSE]
  <2>1. PlayerOK(p) /\ ~p.freshgame /\ player[c].is = "authed"
    BY <1>0, <1>5 DEF MapIdent, PlayerOK, PlayerStates, team_isspectator, NoSecondStart
  <2>2. /\ p.lastspawn = player[c].lastspawn /\ p.team = player[c].team /\ p.lived = player[c].lived
        /\ player[c].freshgame => ~player[c].lived
    BY <1>0 DEF PlayerOK, PlayerStates, NoSecondStart
  <2>3. Same
    BY <1>5 DEF MapIdent
  <2>4. CASE Becomes(c, p)
    BY <1>1, <2>1, <2>2, <2>3, <2>4
  <2>5. ASSUME ~team_isspectator(player[c]), player[c].freshgame \/ numclients < 2, Becomes(c, sendspawn(p))
        PROVE Done
    <3>1. PlayerOK(sendspawn(p))
      BY <2>1, SpawnState
    <3> QED  BY <1>1, <2>2, <2>3, <2>5, <3>1
  <2>6. ASSUME numclients < 2, NEW team \in ActiveTeams, Becomes(c, sendspawn([p EXCEPT !.team = team])) PROVE Done
    <3> DEFINE r == [p EXCEPT !.team = team]
    <3>1. PlayerOK(r) /\ ~r.freshgame
      BY <2>1 DEF PlayerOK, PlayerStates, ActiveTeams, team_isspectator, NoSecondStart
    <3>2. PlayerOK(sendspawn(r))
      BY <3>1, SpawnState
    <3> QED  BY <1>1, <2>3, <2>6, <3>2
  <2>7. team_isspectator(p) <=> team_isspectator(player[c])
    BY <2>2 DEF team_isspectator
  <2> HIDE DEF Kept
  <2> QED  BY <1>5, <2>4, <2>5, <2>6, <2>7 DEF MapIdent
<1>6. ASSUME NEW c \in Players, WrongMap(c) PROVE Done
  <2>1. Kept(forcedeath(player[c]), c)
    BY <1>0, ForcedDeath
  <2> QED  BY <1>1, <1>6, <2>1 DEF WrongMap
<1>7. ASSUME NEW c \in Players, NEW team \in ActiveTeams \cup {"spect"}, SwitchTeam(c, team) \/ ForceTeam(c, team)
      PROVE Done
  <2>1. /\ player[c].is = "authed" /\ Becomes(c, updateclientteam(player[c], team)) /\ Same
    BY <1>7 DEF SwitchTeam, ForceTeam
  <2>2. Kept(updateclientteam(player[c], team), c)
    BY <1>0, <2>1, ChangeOfTeam
  <2> QED  BY <1>1, <2>1, <2>2
<1>8. ASSUME NEW c \in Players, Spawn(c) PROVE Done
  <2> DEFINE p == [player[c] EXCEPT !.lastspawn = FALSE, !.state = "alive"]
  <2>1. Kept(p, c)
    BY <1>0, <1>8 DEF Spawn, PlayerOK, PlayerStates, team_isspectator, NoSecondStart
  <2> QED  BY <1>1, <1>8, <2>1 DEF Spawn
<1>9. ASSUME NEW c \in Players, Die(c) PROVE Done
  <2> DEFINE p == [player[c] EXCEPT !.state = "dead", !.recent = TRUE]
  <2>1. Kept(p, c)
    BY <1>0 DEF PlayerOK, PlayerStates, team_isspectator, NoSecondStart
  <2> QED  BY <1>1, <1>9, <2>1 DEF Die
<1>10. ASSUME NEW c \in Players, FetchMap(c) PROVE Done
  <2> DEFINE q == mapchange(player[c], TRUE)
             p == [q EXCEPT !.team = "spect"]
  <2>1. PlayerOK(q) /\ ~q.lastspawn /\ q.state = "dead"
    BY <1>0, NewMap
  <2> HIDE DEF q
  <2>2. Kept(p, c)
    BY <2>1 DEF PlayerOK, PlayerStates, team_isspectator, NoSecondStart
  <2> QED  BY <1>1, <1>10, <2>2 DEF FetchMap, q
<1>11. ASSUME NEW c \in Players, Forget(c) PROVE Done
  <2> DEFINE p == [player[c] EXCEPT !.recent = FALSE]
  <2>1. Kept(p, c)
    BY <1>0 DEF PlayerOK, PlayerStates, team_isspectator, NoSecondStart
  <2> QED  BY <1>1, <1>11, <2>1 DEF Forget
<1>12. CASE StartGame
  <2>1. PICK side \in [Players -> ActiveTeams] :
          player' = [c \in Players |->
                LET p == [player[c] EXCEPT !.team = IF m_teammode' /\ Active(c) THEN side[c] ELSE @,
                                           !.lived = FALSE]
                IN IF p.is = "empty" THEN p ELSE mapchange(p, FALSE)]
    BY <1>12 DEF StartGame
  <2>2. ASSUME NEW c \in Players PROVE PlayerOK(player'[c]) /\ OneLife(c)
    <3> DEFINE team == IF m_teammode' /\ Active(c) THEN side[c] ELSE player[c].team
               p == [player[c] EXCEPT !.team = team, !.lived = FALSE]
    <3>1. player'[c] = IF p.is = "empty" THEN p ELSE mapchange(p, FALSE)
      BY <2>1
    <3>2. PlayerOK(player[c]) /\ side[c] \in ActiveTeams
      BY <1>0
    <3>3. PlayerOK(p) /\ ~p.lived /\ p.lastspawn = player[c].lastspawn
      BY <3>2 DEF Active, PlayerOK, PlayerStates, ActiveTeams, team_isspectator, NoSecondStart
    <3>4. PlayerOK(mapchange(p, FALSE)) /\ ~mapchange(p, FALSE).lastspawn
      BY <3>3, NewMap
    <3> QED  BY <3>1, <3>3, <3>4 DEF OneLife
  <2>3. player' \in [Players -> PlayerStates]
    BY <2>1, <2>2 DEF PlayerOK
  <2> QED  BY <1>12, <2>2, <2>3 DEF StartGame, ArenaInv, Done
<1>13. CASE ResetIfEmpty \/ Intermission \/ CountDown \/ EndRound
  BY <1>13 DEF ResetIfEmpty, Intermission, CountDown, EndRound, ArenaInv, OneLife, Done
<1>14. CASE NewRound
  <2>1. player' = [c \in Players |-> IF Active(c) THEN sendspawn(player[c]) ELSE [player[c] EXCEPT !.lived = FALSE]]
    BY <1>14 DEF NewRound
  <2>2. ASSUME NEW c \in Players PROVE PlayerOK(player'[c])
    <3>1. CASE Active(c)
      <4>1. ~player[c].freshgame
        BY <1>0, <3>1 DEF Active, PlayerOK, NoSecondStart
      <4> QED  BY <1>0, <2>1, <3>1, <4>1, SpawnState
    <3>2. CASE ~Active(c)
      BY <1>0, <2>1, <3>2 DEF PlayerOK, PlayerStates, team_isspectator, NoSecondStart
    <3> QED  BY <3>1, <3>2
  <2>3. player' \in [Players -> PlayerStates]
    BY <2>1, <2>2 DEF PlayerOK
  <2> QED  BY <1>14, <2>2, <2>3 DEF NewRound, ArenaInv, OneLife, Done
<1>17. CASE StartSilently
  <2>1. player' = [c \in Players |-> [player[c] EXCEPT !.recent = player[c].is # "empty"]]
    BY <1>17 DEF StartSilently
  <2>2. ASSUME NEW c \in Players PROVE PlayerOK(player'[c]) /\ OneLife(c)
    <3> DEFINE recently == player[c].is # "empty"
               p == [player[c] EXCEPT !.recent = recently]
    <3>1. recently \in BOOLEAN /\ player'[c] = p /\ PlayerOK(player[c])
      BY <1>0, <2>1
    <3> HIDE DEF recently
    <3>2. PlayerOK(p) /\ p.lastspawn = player[c].lastspawn
      BY <3>1 DEF PlayerOK, PlayerStates, team_isspectator, NoSecondStart
    <3> QED  BY <3>1, <3>2 DEF OneLife
  <2>3. player' \in [Players -> PlayerStates]
    BY <2>1, <2>2 DEF PlayerOK
  <2> QED  BY <1>17, <2>2, <2>3 DEF StartSilently, ArenaInv, Done
<1> HIDE DEF Kept
<1>15. CASE \E c \in Players : \/ Enter(c) \/ Join(c) \/ Leave(c) \/ MapIdent(c) \/ WrongMap(c) \/ Spawn(c)
                             \/ Die(c) \/ FetchMap(c) \/ Forget(c)
  BY <1>2, <1>3, <1>4, <1>5, <1>6, <1>8, <1>9, <1>10, <1>11, <1>15 DEF Done
<1>16. CASE \E c \in Players : \E team \in ActiveTeams \cup {"spect"} : SwitchTeam(c, team) \/ ForceTeam(c, team)
  BY <1>7, <1>16 DEF Done
<1> QED  BY <1>12, <1>13, <1>14, <1>15, <1>16, <1>17 DEF ArenaNext

LEMMA ArenaInvariant == ArenaSpec => []ArenaInv
<1>1. ArenaInit => ArenaInv
  <2>1. PlayerOK(Nobody)
    BY DEF Nobody, PlayerOK, PlayerStates, team_isspectator, NoSecondStart
  <2>2. Nobody \in PlayerStates
    BY <2>1 DEF PlayerOK
  <2> QED  BY <2>1, <2>2 DEF ArenaInit, ArenaInv
<1>2. ArenaInv /\ [ArenaNext]_arenaVars => ArenaInv'
  <2>1. ASSUME ArenaInv, UNCHANGED arenaVars PROVE ArenaInv'
    BY <2>1 DEF ArenaInv, arenaVars
  <2> QED  BY <2>1, ArenaSteps
<1> QED  BY <1>1, <1>2, PTL DEF ArenaSpec

-----------------------------------------------------------------------------
\* The players and the round are what arenacheck expects; whoever watches has neither a life nor a spawn
\* state that could be answered.
THEOREM RoundTypeCorrect == ArenaSpec => []RoundTypeOK
<1>1. ArenaInv => RoundTypeOK
  BY DEF ArenaInv, RoundTypeOK, PlayerOK
<1> QED  BY <1>1, ArenaInvariant, PTL

\* Whoever had a spawn state gets no other before the next round or game, whatever it does with teams and
\* maps, unless it is alone on the server.
THEOREM OneLifeARound == ArenaSpec => OneLifePerRound
<1> DEFINE Body == \A c \in Players :
             player[c].lived /\ ~player[c].lastspawn /\ player'[c].lastspawn => NewRound \/ numclients < 2
<1>1. ArenaInv /\ [ArenaNext]_arenaVars => [Body]_arenaVars
  BY ArenaSteps DEF OneLife
<1> QED  BY <1>1, ArenaInvariant, PTL DEF ArenaSpec, OneLifePerRound

-----------------------------------------------------------------------------
(* Why nobody is kept waiting (the part of NobodyKeptWaiting that is not   *)
(* about fairness).  While somebody waits, the next look of arenacheck at  *)
(* the round ends it, and nothing sets the round back without giving those *)
(* who wait a game or, for the time of a death, a reason to wait.          *)

RoundGoesOn(c) ==
    KeptWaiting(c) =>
       /\ arenaround = "fought" =>
             /\ ~interm /\ ~TwoSides /\ \E d \in Players : Waits(d)
             /\ \A d \in Players : Waits(d) => ~player[d].recent
       /\ KeptWaiting(c)' => arenaround' = arenaround \/ EndRound \/ CountDown

LEMMA WaitingIsSeen ==
  ASSUME ArenaInv, NEW c \in Players, KeptWaiting(c), arenaround = "fought"
  PROVE  /\ ~interm /\ ~TwoSides /\ \E d \in Players : Waits(d)
         /\ \A d \in Players : Waits(d) => ~player[d].recent
<1>1. player[c] \in PlayerStates
  BY DEF ArenaInv
<1>2. Waits(c)
  BY <1>1 DEF KeptWaiting, Waits, PlayerStates
<1> QED  BY <1>2 DEF KeptWaiting

LEMMA RoundsGoOn == ArenaInv /\ [ArenaNext]_arenaVars => [\A c \in Players : RoundGoesOn(c)]_arenaVars
<1> SUFFICES ASSUME ArenaInv, ArenaNext, NEW c \in Players, KeptWaiting(c), KeptWaiting(c)'
             PROVE  arenaround' = arenaround \/ EndRound \/ CountDown
  BY WaitingIsSeen DEF RoundGoesOn
<1>1. player[c] \in PlayerStates /\ Active(c) /\ Active(c)' /\ ~player'[c].lastspawn
  BY DEF ArenaInv, KeptWaiting
<1>2. ASSUME Same PROVE arenaround' = arenaround
  BY <1>2 DEF Same
<1>3. ASSUME NewRound PROVE FALSE
  <2>1. player'[c] = sendspawn(player[c])
    BY <1>1, <1>3 DEF NewRound
  <2> QED  BY <1>1, <2>1 DEF sendspawn, Respawned, PlayerStates, Active, ActiveTeams, team_isspectator
<1>4. ASSUME StartGame PROVE FALSE
  <2>1. PICK side \in [Players -> ActiveTeams] :
          player' = [d \in Players |->
                LET p == [player[d] EXCEPT !.team = IF m_teammode' /\ Active(d) THEN side[d] ELSE @,
                                           !.lived = FALSE]
                IN IF p.is = "empty" THEN p ELSE mapchange(p, FALSE)]
    BY <1>4 DEF StartGame
  <2> DEFINE team == IF m_teammode' /\ Active(c) THEN side[c] ELSE player[c].team
             p == [player[c] EXCEPT !.team = team, !.lived = FALSE]
  <2>2. p.is = player[c].is /\ player'[c] = IF p.is = "empty" THEN p ELSE mapchange(p, FALSE)
    BY <1>1, <2>1 DEF PlayerStates
  <2>3. DOMAIN p = DOMAIN player[c] /\ player[c].is = "authed" /\ "isonrightmap" \in DOMAIN p
    BY <1>1 DEF PlayerStates, Active
  <2> HIDE DEF p
  <2>4. mapchange(p, FALSE).isonrightmap = FALSE
    BY <2>3 DEF mapchange, Respawned
  <2> QED  BY <1>1, <2>2, <2>3, <2>4 DEF Active
<1>5. ASSUME StartSilently PROVE FALSE
  <2>1. player'[c] = [player[c] EXCEPT !.recent = player[c].is # "empty"] /\ arenaround' = "fought"
    BY <1>5 DEF StartSilently
  <2>2. player'[c].recent
    BY <1>1, <2>1 DEF PlayerStates, Active
  <2> QED  BY <2>1, <2>2 DEF KeptWaiting
<1>6. ASSUME ResetIfEmpty PROVE FALSE
  BY <1>1, <1>6 DEF ResetIfEmpty, Active
<1>7. ASSUME NEW d \in Players,
             Enter(d) \/ Join(d) \/ Leave(d) \/ MapIdent(d) \/ WrongMap(d) \/ Spawn(d) \/ Die(d) \/ FetchMap(d)
             \/ Forget(d) \/ \E team \in ActiveTeams \cup {"spect"} : SwitchTeam(d, team) \/ ForceTeam(d, team)
      PROVE  Same
  BY <1>7 DEF Enter, Join, Leave, MapIdent, WrongMap, Spawn, Die, FetchMap, Forget, SwitchTeam, ForceTeam
<1>8. CASE Intermission
  BY <1>8 DEF Intermission
<1> QED  BY <1>2, <1>3, <1>4, <1>5, <1>6, <1>7, <1>8 DEF ArenaNext

\* While a player waits with one side at most alive and no death just now, the slice that looks at the round
\* ends it, and the round only goes on, from fought to won and from won to due, until the new round or game
\* that ends the waiting: no change of teams, map, game or time sets it back.
THEOREM WaitingRoundsGoOn == ArenaSpec => [][\A c \in Players : RoundGoesOn(c)]_arenaVars
BY RoundsGoOn, ArenaInvariant, PTL DEF ArenaSpec

-----------------------------------------------------------------------------
(***************************************************************************)
(* GUNS: a gun is ready exactly when its own shots and reloads allow it,   *)
(* for any guns and delays.  What makes it inductive is that the wait of   *)
(* every gun, relative to the last shot of any, ends at the time that the  *)
(* gun itself has to wait until, or has ended before the last shot.        *)
(***************************************************************************)

WaitOK(g) == gunwait[g] = IF until[g] > lastshot THEN until[g] - lastshot ELSE 0

GunsInv == GunsTypeOK /\ \A g \in Guns : WaitOK(g)

-----------------------------------------------------------------------------
(* The helpers.                                                            *)

LEMMA DelayNat == ASSUME NEW g \in Guns PROVE delay(g) \in Nat
BY GunsAssumption, SMT DEF delay, Second

LEMMA SecondNat == ASSUME GunsTypeOK PROVE Second \in Nat
BY DEF GunsTypeOK, Second

\* The waits that are left at a time are those until the same moments.
LEMMA LeftIsTheSame ==
    ASSUME GunsInv, NEW t \in lastevent..gamemillis
    PROVE  /\ t \in Nat /\ LeftAt(t) \in [Guns -> Nat]
           /\ \A g \in Guns : LeftAt(t)[g] = IF until[g] > t THEN until[g] - t ELSE 0
<1>1. lastshot \in Nat /\ lastevent \in Nat /\ gamemillis \in Nat /\ lastshot <= lastevent /\ t \in Nat /\ lastshot <= t
    BY GunTimesAssumption DEF GunsInv, GunsTypeOK
<1>2. ASSUME NEW g \in Guns
      PROVE  /\ gunwait[g] \in Nat /\ until[g] \in Nat
             /\ gunwait[g] = IF until[g] > lastshot THEN until[g] - lastshot ELSE 0
    BY DEF GunsInv, GunsTypeOK, WaitOK
<1>3. ASSUME NEW g \in Guns
      PROVE  /\ LeftAt(t)[g] = IF until[g] > t THEN until[g] - t ELSE 0
             /\ LeftAt(t)[g] \in Nat
    BY <1>1, <1>2 DEF LeftAt
<1>4. LeftAt(t) \in [Guns -> Nat]
    BY <1>3 DEF LeftAt
<1> QED BY <1>1, <1>3, <1>4

-----------------------------------------------------------------------------
(* Each step keeps the invariant.                                          *)

LEMMA WaitsForgotten == ASSUME respawn, GunsTypeOK, gamemillis' \in 0..MaxTime, lastevent' \in 0..MaxTime,
                           alive' \in BOOLEAN
                    PROVE  GunsInv'
BY GunTimesAssumption DEF respawn, NoWaits, GunsInv, GunsTypeOK, WaitOK

LEMMA GunShoots == ASSUME GunsInv, NEW g \in Guns, NEW t \in 0..MaxTime, Shoots(g, t) PROVE GunsInv'
<1>1. /\ t \in lastevent..gamemillis /\ lastevent' = t /\ alive' = alive /\ gamemillis' = gamemillis
      /\ gunwait' = [LeftAt(t) EXCEPT ![g] = delay(g)] /\ lastshot' = t
      /\ akimbomillis' = Second /\ until' = [until EXCEPT ![g] = t + delay(g)]
    BY DEF Shoots, Event
<1>2. /\ t \in Nat /\ LeftAt(t) \in [Guns -> Nat] /\ delay(g) \in Nat
      /\ \A h \in Guns : LeftAt(t)[h] = IF until[h] > t THEN until[h] - t ELSE 0
    BY <1>1, LeftIsTheSame, DelayNat
<1>3. until \in [Guns -> Nat] /\ t \in 0..gamemillis
    BY <1>1, GunTimesAssumption DEF GunsInv, GunsTypeOK
<1>4. GunsTypeOK'
    BY <1>1, <1>2, <1>3, SecondNat DEF GunsInv, GunsTypeOK
<1>5. ASSUME NEW h \in Guns PROVE WaitOK(h)'
    <2>1. CASE h = g
        BY <2>1, <1>1, <1>2, <1>3 DEF WaitOK
    <2>2. CASE h # g
        BY <2>2, <1>1, <1>2, <1>3 DEF WaitOK
    <2> QED BY <2>1, <2>2
<1> QED BY <1>4, <1>5 DEF GunsInv

LEMMA GunReloads == ASSUME GunsInv, NEW g \in Guns, NEW t \in 0..MaxTime, Reloads(g, t) PROVE GunsInv'
<1> DEFINE more == (IF until[g] > t THEN until[g] ELSE t) + reloadtime[g]
<1>1. /\ t \in lastevent..gamemillis /\ lastevent' = t /\ alive' = alive /\ gamemillis' = gamemillis
      /\ akimbomillis' = Second /\ until' = [until EXCEPT ![g] = more]
    BY DEF Reloads, Event
<1>2. /\ t \in Nat /\ LeftAt(t) \in [Guns -> Nat] /\ reloadtime[g] \in Nat
      /\ \A h \in Guns : LeftAt(t)[h] = IF until[h] > t THEN until[h] - t ELSE 0
    BY <1>1, LeftIsTheSame, GunsAssumption
<1>3. /\ until \in [Guns -> Nat] /\ gunwait \in [Guns -> Nat] /\ gamemillis \in 0..MaxTime
      /\ lastevent \in 0..MaxTime /\ lastshot \in 0..lastevent /\ t \in 0..gamemillis /\ lastshot <= t
      /\ lastshot \in 0..t
    BY <1>1, GunTimesAssumption DEF GunsInv, GunsTypeOK
<1>4. \A h \in Guns : gunwait[h] = IF until[h] > lastshot THEN until[h] - lastshot ELSE 0
    BY DEF GunsInv, WaitOK
<1>5. more \in Nat
    BY <1>2, <1>3
<1>6. CASE gunwait[g] # 0 /\ t - lastshot < gunwait[g]
    <2>1. gunwait' = [gunwait EXCEPT ![g] = @ + reloadtime[g]] /\ lastshot' = lastshot
        BY <1>6 DEF Reloads
    <2>2. GunsTypeOK'
        BY <1>1, <1>2, <1>3, <1>5, <2>1, SecondNat DEF GunsInv, GunsTypeOK
    <2>3. ASSUME NEW h \in Guns PROVE WaitOK(h)'
        <3>1. CASE h = g
            <4>1. until[g] > t /\ gunwait[g] = until[g] - lastshot
                BY <1>2, <1>3, <1>4, <1>6
            <4> QED BY <3>1, <4>1, <1>1, <1>2, <1>3, <1>5, <2>1 DEF WaitOK
        <3>2. CASE h # g
            BY <3>2, <1>1, <1>3, <1>4, <2>1 DEF WaitOK
        <3> QED BY <3>1, <3>2
    <2> QED BY <2>2, <2>3 DEF GunsInv
<1>7. CASE ~(gunwait[g] # 0 /\ t - lastshot < gunwait[g])
    <2>1. gunwait' = [LeftAt(t) EXCEPT ![g] = @ + reloadtime[g]] /\ lastshot' = t
        BY <1>7 DEF Reloads
    <2>2. GunsTypeOK'
        BY <1>1, <1>2, <1>3, <1>5, <2>1, SecondNat DEF GunsInv, GunsTypeOK
    <2>3. ASSUME NEW h \in Guns PROVE WaitOK(h)'
        <3>1. CASE h = g
            BY <3>1, <1>1, <1>2, <1>3, <1>5, <2>1 DEF WaitOK
        <3>2. CASE h # g
            BY <3>2, <1>1, <1>2, <1>3, <2>1 DEF WaitOK
        <3> QED BY <3>1, <3>2
    <2> QED BY <2>2, <2>3 DEF GunsInv
<1> QED BY <1>6, <1>7

\* Steps that leave the waits alone.
LEMMA WaitsStay ==
    ASSUME GunsInv, UNCHANGED <<gunwait, lastshot, until>>, akimbomillis' \in Nat, alive' \in BOOLEAN,
           gamemillis' \in 0..MaxTime, lastevent' \in lastevent..MaxTime
    PROVE  GunsInv'
<1>1. lastevent' \in 0..MaxTime /\ lastshot' \in 0..lastevent'
    BY GunTimesAssumption DEF GunsInv, GunsTypeOK
<1> QED BY <1>1 DEF GunsInv, GunsTypeOK, WaitOK

LEMMA GunsInvariance == GunsInv /\ [GunsNext]_gunVars => GunsInv'
<1> SUFFICES ASSUME GunsInv, [GunsNext]_gunVars PROVE GunsInv'
    OBVIOUS
<1>1. /\ gamemillis \in 0..MaxTime /\ lastevent \in 0..MaxTime /\ alive \in BOOLEAN
      /\ akimbomillis \in Nat /\ GunsTypeOK /\ MaxTime \in Nat
    BY GunTimesAssumption DEF GunsInv, GunsTypeOK
<1>2. CASE Elapses
    BY <1>1, <1>2, WaitsStay DEF Elapses
<1>3. CASE LifeChanges
    BY <1>1, <1>3, WaitsStay DEF LifeChanges
<1>4. CASE Respawns
    BY <1>1, <1>4, WaitsForgotten DEF Respawns
<1>5. CASE FetchesMap
    <2>1. respawn /\ alive' = FALSE /\ lastevent' = 0 /\ gamemillis' = gamemillis
        BY <1>5 DEF FetchesMap
    <2>2. lastevent' \in 0..MaxTime /\ gamemillis' \in 0..MaxTime
        BY <1>1, <2>1
    <2>3. alive' \in BOOLEAN
        BY <2>1, Zenon
    <2> QED BY <1>1, <2>1, <2>2, <2>3, WaitsForgotten
<1>6. CASE GameStarts
    BY <1>1, <1>6, WaitsForgotten DEF GameStarts
<1>7. ASSUME NEW t \in 0..MaxTime, TakesSecond(t) PROVE GunsInv'
    BY <1>1, <1>7, WaitsStay, GunTimesAssumption DEF TakesSecond, Event
<1>8. ASSUME NEW t \in 0..MaxTime, Passes(t) PROVE GunsInv'
    BY <1>1, <1>8, WaitsStay, SecondNat DEF Passes, Event
<1>9. CASE UNCHANGED gunVars
    BY <1>1, <1>9, WaitsStay DEF gunVars
<1>10. CASE StartsSilently
    <2>1. UNCHANGED <<gunwait, lastshot, until>> /\ akimbomillis' \in Nat
        BY <1>1, <1>10 DEF StartsSilently
    <2>2. alive' \in BOOLEAN
        BY <1>10, Zenon DEF StartsSilently
    <2>3. gamemillis' \in 0..MaxTime /\ lastevent' \in lastevent..MaxTime
        BY <1>1, <1>10 DEF StartsSilently
    <2> QED BY <2>1, <2>2, <2>3, WaitsStay
<1> QED BY <1>2, <1>3, <1>4, <1>5, <1>6, <1>7, <1>8, <1>9, <1>10, GunShoots, GunReloads DEF GunsNext

LEMMA GunsBegin == GunsInit => GunsInv
<1> SUFFICES ASSUME GunsInit PROVE GunsInv
    OBVIOUS
<1>1. GunsTypeOK
    <2>1. gunwait \in [Guns -> Nat] /\ until \in [Guns -> Nat]
        BY DEF GunsInit, NoWaits
    <2>2. alive \in BOOLEAN
        BY Zenon DEF GunsInit
    <2>3. /\ akimbomillis \in Nat /\ gamemillis \in 0..MaxTime /\ lastevent \in 0..MaxTime
          /\ lastshot \in 0..lastevent
        BY GunTimesAssumption DEF GunsInit
    <2> QED BY <2>1, <2>2, <2>3 DEF GunsTypeOK
<1>2. ASSUME NEW g \in Guns PROVE WaitOK(g)
    BY DEF GunsInit, NoWaits, WaitOK
<1> QED BY <1>1, <1>2 DEF GunsInv

-----------------------------------------------------------------------------
(* The theorems.                                                           *)

\* The times of shots, events and the clock stay in their order, and no wait is ever negative
\* (shotevent and reloadevent subtract).
THEOREM WaitsTypeCorrect == GunsSpec => []GunsTypeOK
<1>1. GunsInv => GunsTypeOK
    BY DEF GunsInv
<1> QED BY GunsBegin, GunsInvariance, <1>1, PTL DEF GunsSpec

\* Shots and reloads of other guns, deaths and new games change nothing about when a gun may shoot.
THEOREM GunsReadyInTime == GunsSpec => []GunsAreReady
<1>1. GunsInv => GunsAreReady
    <2> SUFFICES ASSUME GunsInv, NEW g \in Guns, NEW t \in lastevent..gamemillis
                 PROVE  Waited(g, t) <=> t >= until[g]
        BY DEF GunsAreReady
    <2>1. /\ lastshot \in Nat /\ t \in Nat /\ lastshot <= t
          /\ until[g] \in Nat /\ gunwait[g] = IF until[g] > lastshot THEN until[g] - lastshot ELSE 0
        BY GunTimesAssumption DEF GunsInv, GunsTypeOK, WaitOK
    <2> QED BY <2>1 DEF Waited
<1> QED BY GunsBegin, GunsInvariance, <1>1, PTL DEF GunsSpec

-----------------------------------------------------------------------------
(***************************************************************************)
(* GAME CYCLE: for every rotation, however often it is replaced, and       *)
(* every number of players the line chosen fits them if any line does;     *)
(* and a map that was voted for the next game is played next.              *)
(***************************************************************************)

-----------------------------------------------------------------------------
(* Arithmetic.                                                             *)

\* The remainders of the numbers in the first four rounds.
LEMMA Remainders ==
  ASSUME NEW c \in Nat \ {0}, NEW r \in 0..c - 1
  PROVE  r % c = r /\ (r + c) % c = r /\ (r + 2 * c) % c = r /\ (r + 3 * c) % c = r
<1>1. r % c = r
  OBVIOUS
<1>2. (r + c) % c = r
  OBVIOUS
<1>3. (r + 2 * c) % c = r
  OBVIOUS
<1>4. (r + 3 * c) % c = r
  OBVIOUS
<1>5. QED
  BY <1>1, <1>2, <1>3, <1>4

LEMMA RemainderType ==
  ASSUME NEW c \in Nat \ {0}, NEW k \in Nat
  PROVE  k % c \in 0..c - 1
  OBVIOUS

\* Wherever a loop begins, each of its rounds comes to every number.
LEMMA RoundsComplete ==
  ASSUME NEW c \in Nat \ {0}, NEW a \in 0..c - 1, NEW j \in 0..c - 1
  PROVE  \E i \in 0..c - 1 : (a + i) % c = j /\ (a + (i + c)) % c = j /\ (a + (i + 2 * c)) % c = j
<1>1. CASE j >= a
  <2> DEFINE i == j - a
  <2>1. i \in 0..c - 1 /\ a + i = j /\ a + (i + c) = j + c /\ a + (i + 2 * c) = j + 2 * c
    BY <1>1
  <2>2. QED
    BY <2>1, Remainders
<1>2. CASE j < a
  <2> DEFINE i == j + c - a
  <2>1. i \in 0..c - 1 /\ a + i = j + c /\ a + (i + c) = j + 2 * c /\ a + (i + 2 * c) = j + 3 * c
    BY <1>2
  <2>2. QED
    BY <2>1, Remainders
<1>3. QED
  BY <1>1, <1>2

-----------------------------------------------------------------------------
(* The rotation.                                                           *)

LEMMA RotationIsSequence ==
  ASSUME configsets \in Rotations
  PROVE  /\ configsets \in Seq(Configsets) /\ csl \in Nat \ {0} /\ DOMAIN configsets = 1..csl
         /\ \A i \in 1..csl : configsets[i] \in Configsets
         /\ \E i \in 1..csl : configsets[i].usable
  BY RotationsAssumption DEF csl

\* Where the loop begins.
First == LET skipped == curcfgset + (IF curcfgset \in DOMAIN configsets THEN configsets[curcfgset].skiplines ELSE 0)
         IN IF skipped + 1 > csl THEN 1 ELSE skipped + 1

LEMMA LineOfTurn ==
  ASSUME configsets \in Rotations, curcfgset \in Nat
  PROVE  /\ First \in 1..csl
         /\ \A i \in Nat : Line(i) = ((First - 1 + i) % csl) + 1 /\ Line(i) \in 1..csl
<1>1. First \in 1..csl
  <2> DEFINE more == IF curcfgset \in DOMAIN configsets THEN configsets[curcfgset].skiplines ELSE 0
  <2>1. more \in Nat
    BY RotationIsSequence DEF Configsets
  <2>2. First = IF curcfgset + more + 1 > csl THEN 1 ELSE curcfgset + more + 1
    BY DEF First
  <2>3. csl \in Nat \ {0}
    BY RotationIsSequence
  <2> HIDE DEF more
  <2>4. QED
    BY <2>1, <2>2, <2>3
<1>2. \A i \in Nat : Line(i) = ((First - 1 + i) % csl) + 1
  BY DEF Line, First
<1>3. ASSUME NEW i \in Nat PROVE ((First - 1 + i) % csl) + 1 \in 1..csl
  <2>1. First - 1 + i \in Nat /\ csl \in Nat \ {0}
    BY <1>1, RotationIsSequence
  <2>2. (First - 1 + i) % csl \in 0..csl - 1
    BY <2>1, RemainderType
  <2>3. QED
    BY <2>1, <2>2
<1>4. QED
  BY <1>1, <1>2, <1>3

\* Each round of the loop comes to every line.
LEMMA EveryLineHasItsTurn ==
  ASSUME configsets \in Rotations, curcfgset \in Nat, NEW j \in 1..csl
  PROVE  \E i \in 0..csl - 1 : Line(i) = j /\ Line(i + csl) = j /\ Line(i + 2 * csl) = j
<1> DEFINE first == First - 1
           last == j - 1
<1>0. csl \in Nat \ {0} /\ First \in 1..csl
  BY RotationIsSequence, LineOfTurn
<1>1. csl \in Nat \ {0} /\ first \in 0..csl - 1 /\ last \in 0..csl - 1 /\ last + 1 = j
  BY <1>0
<1> HIDE DEF last
<1>2. PICK i \in 0..csl - 1 : /\ (first + i) % csl = last
                              /\ (first + (i + csl)) % csl = last
                              /\ (first + (i + 2 * csl)) % csl = last
  <2> HIDE DEF first
  <2>1. \A c \in Nat \ {0} : \A a, t \in 0..c - 1 :
           \E i \in 0..c - 1 : (a + i) % c = t /\ (a + (i + c)) % c = t /\ (a + (i + 2 * c)) % c = t
    BY RoundsComplete
  <2> QED  BY <1>1, <2>1, Zenon
<1>3. i \in Nat /\ i + csl \in Nat /\ i + 2 * csl \in Nat
  BY <1>1
<1>4. /\ Line(i) = ((first + i) % csl) + 1
      /\ Line(i + csl) = ((first + (i + csl)) % csl) + 1
      /\ Line(i + 2 * csl) = ((first + (i + 2 * csl)) % csl) + 1
  BY <1>3, LineOfTurn
<1>5. QED
  BY <1>1, <1>2, <1>4

\* The line chosen is that of the first turn that suits; there is one in the third round at the latest.
LEMMA ChosenTurn ==
  ASSUME configsets \in Rotations, curcfgset \in Nat, n \in Nat
  PROVE  \E k \in 0..3 * csl : /\ next_line(n) = Line(k) /\ Suits(k, n)
                                /\ \A i \in 0..3 * csl : Suits(i, n) => k <= i
<1> DEFINE turns == {i \in 0..3 * csl : Suits(i, n)}
<1>1. csl \in Nat \ {0}
  BY RotationIsSequence
<1>2. PICK j \in 1..csl : configsets[j].usable
  BY RotationIsSequence
<1>3. PICK i \in 0..csl - 1 : Line(i + 2 * csl) = j
  BY EveryLineHasItsTurn
<1>4. i + 2 * csl \in 0..3 * csl /\ i + 2 * csl >= csl /\ i + 2 * csl >= 2 * csl
  BY <1>1
<1>5. Suits(i + 2 * csl, n)
  BY <1>2, <1>3, <1>4 DEF Suits
<1>6. turns \subseteq Nat /\ turns # {}
  BY <1>1, <1>4, <1>5
<1>7. Min(turns) \in turns /\ \A y \in turns : Min(turns) <= y
  BY <1>6, MinOfNaturals
<1>8. next_line(n) = Line(Min(turns))
  BY DEF next_line
<1>9. QED
  BY <1>7, <1>8

\* Whatever state the rotation is in.
LEMMA ChosenLineFits ==
  ASSUME configsets \in Rotations, curcfgset \in Nat, n \in Nat
  PROVE  RotationFits
<1> DEFINE chosen == configsets[next_line(n)]
           lines == {configsets[i] : i \in DOMAIN configsets}
           usable == {c \in lines : c.usable}
           Small(c) == c.maxplayer = 0 \/ n <= c.maxplayer
<1>1. csl \in Nat \ {0} /\ DOMAIN configsets = 1..csl
  BY RotationIsSequence
<1>2. PICK k \in 0..3 * csl : /\ next_line(n) = Line(k) /\ Suits(k, n)
                              /\ \A i \in 0..3 * csl : Suits(i, n) => k <= i
  BY ChosenTurn
<1>3. k \in Nat /\ next_line(n) \in 1..csl
  BY <1>1, <1>2, LineOfTurn
<1>4. chosen \in usable
  BY <1>1, <1>2, <1>3 DEF Suits
<1>5. ASSUME NEW j \in 1..csl, configsets[j].usable, Fits(configsets[j], n)
      PROVE  Fits(chosen, n)
  <2>1. PICK i \in 0..csl - 1 : Line(i) = j
    BY EveryLineHasItsTurn
  <2>2. i \in 0..3 * csl /\ Suits(i, n)
    BY <1>1, <1>5, <2>1 DEF Suits, Fits
  <2>3. k < csl /\ ~(k >= csl) /\ ~(k >= 2 * csl)
    BY <1>1, <1>2, <2>2
  <2>4. QED
    BY <1>2, <2>3 DEF Suits, Fits
<1>6. ASSUME NEW j \in 1..csl, configsets[j].usable, Small(configsets[j])
      PROVE  Small(chosen)
  <2>1. PICK i \in 0..csl - 1 : Line(i + csl) = j
    BY EveryLineHasItsTurn
  <2>2. i + csl \in 0..3 * csl /\ i + csl >= csl
    BY <1>1
  <2>3. Suits(i + csl, n)
    BY <1>6, <2>1, <2>2 DEF Suits
  <2>4. ~(k >= 2 * csl)
    BY <1>1, <1>2, <2>2, <2>3
  <2>5. QED
    BY <1>2, <2>4 DEF Suits
<1>7. (\E c \in usable : Fits(c, n)) => Fits(chosen, n)
  BY <1>1, <1>5
<1>8. (\E c \in usable : Small(c)) => Small(chosen)
  BY <1>1, <1>6
<1>9. QED
  BY <1>4, <1>7, <1>8 DEF RotationFits
-----------------------------------------------------------------------------
(* The inductive invariant: a promise is what nextmapname says, and while  *)
(* no game has begun there is nobody to vote, so nothing is promised.      *)

PollOK == poll \in {NoPoll} \cup [map : Maps, queue : BOOLEAN]
PromiseOK == game.promise # NoMap => game.nextmapname = game.promise
NobodyPromised ==
    /\ n = 0 => poll = NoPoll
    /\ game.smapname = NoMap => poll = NoPoll /\ game.promise = NoMap

CycleInv == CycleTypeOK /\ PollOK /\ PromiseOK /\ NobodyPromised

\* A game that begins.
LEMMA GameBegins ==
  ASSUME NEW map \in Maps \cup {NoMap}
  PROVE  /\ resetserver(map) \in Games
         /\ resetserver(map).smapname = map /\ resetserver(map).promise = NoMap
         /\ resetserver(map).nextmapname = NoMap /\ resetserver(map).interm = "no"
  BY DEF resetserver, Games

LEMMA NextLineThere ==
  ASSUME configsets \in Rotations, curcfgset \in Nat, n \in Nat
  PROVE  next_line(n) \in Nat /\ configsets[next_line(n)].mapname \in Maps
<1>1. PICK k \in 0..3 * csl : next_line(n) = Line(k)
  BY ChosenTurn
<1>2. csl \in Nat /\ \A i \in 1..csl : configsets[i] \in Configsets
  BY RotationIsSequence
<1>3. k \in Nat
  BY <1>2
<1>4. next_line(n) \in 1..csl
  BY <1>1, <1>3, LineOfTurn
<1>5. QED
  BY <1>2, <1>4 DEF Configsets

LEMMA NextOfAnother ==
  ASSUME configsets \in Rotations, curcfgset \in Nat, NEW line \in GetNext
  PROVE  line \in Nat /\ configsets[line].mapname \in Maps
<1> USE RotationIsSequence
<1> DEFINE At(k) == ((curcfgset - 1 + k) % csl) + 1
           others == {k \in 1..csl - 1 : configsets[At(k)].mapname # configsets[curcfgset].mapname}
<1>1. line \in 1..csl
  <2>1. CASE curcfgset \notin DOMAIN configsets
    BY <2>1 DEF GetNext
  <2>2. CASE curcfgset \in DOMAIN configsets /\ others = {}
    <3>1. line = curcfgset
      BY <2>2 DEF GetNext
    <3>2. QED
      BY <2>2, <3>1
  <2>3. CASE curcfgset \in DOMAIN configsets /\ others # {}
    <3>1. line = At(Min(others))
      BY <2>3 DEF GetNext
    <3>2. others \subseteq Nat
      OBVIOUS
    <3>3. Min(others) \in Nat
      BY <2>3, <3>2, MinOfNaturals
    <3>4. curcfgset - 1 + Min(others) \in Nat
      BY <2>3, <3>3
    <3>5. (curcfgset - 1 + Min(others)) % csl \in 0..csl - 1
      BY <3>4, RemainderType
    <3>6. QED
      BY <3>1, <3>5
  <2>4. QED
    BY <2>1, <2>2, <2>3
<1>2. QED
  BY <1>1 DEF Configsets

\* What a passed vote makes of the game.
LEMMA VotePerforms ==
  ASSUME NEW g \in Games, NEW p \in [map : Maps, queue : BOOLEAN], g.interm # "no" => ~g.running,
         g.promise # NoMap => g.nextmapname = g.promise
  PROVE  LET h == Performed(g, p)
         IN /\ h \in Games /\ (h.interm # "no" => ~h.running)
            /\ h.promise # NoMap => h.nextmapname = h.promise
            /\ h.smapname = NoMap => g.smapname = NoMap
<1>1. CASE p.queue
  BY <1>1 DEF Performed, Games
<1>2. CASE ~p.queue /\ n > 2 /\ Timed(g) /\ (g.clock # "early" \/ DemoInterm)
  BY <1>2 DEF Performed, Games
<1>3. CASE ~p.queue /\ ~(n > 2 /\ Timed(g) /\ (g.clock # "early" \/ DemoInterm))
  <2>1. Performed(g, p) = resetserver(p.map) /\ p.map \in Maps /\ p.map # NoMap
    BY <1>3, MapsAssumption DEF Performed
  <2>2. QED
    BY <2>1, GameBegins
<1>4. QED
  BY <1>1, <1>2, <1>3

LEMMA CheckKeeps ==
  ASSUME NEW g \in Games, g.interm # "no" => ~g.running
  PROVE  LET h == checkintermission(g)
         IN /\ h \in Games /\ (h.interm # "no" => ~h.running)
            /\ h.smapname = g.smapname /\ h.nextmapname = g.nextmapname /\ h.promise = g.promise
  BY DEF checkintermission, Games

\* What follows is what was promised.
LEMMA FollowsAsPromised ==
  ASSUME CycleTypeOK, NEW h \in Games, h.promise # NoMap => h.nextmapname = h.promise
  PROVE  /\ \E map \in Maps : Following(h).game = resetserver(map)
         /\ Following(h).line \in Nat
         /\ h.promise # NoMap => Following(h).game.smapname = h.promise
<1>1. configsets \in Rotations /\ curcfgset \in Nat /\ n \in Nat
  BY CycleBoundsAssumption DEF CycleTypeOK
<1>2. CASE h.nextmapname # NoMap
  <2>1. Following(h).game = resetserver(h.nextmapname) /\ Following(h).line = curcfgset
    BY <1>2 DEF Following
  <2>2. h.nextmapname \in Maps
    BY <1>2 DEF Games
  <2>3. QED
    BY <1>1, <2>1, <2>2, GameBegins
<1>3. CASE h.nextmapname = NoMap
  <2>1. /\ Following(h).game = resetserver(configsets[next_line(n)].mapname)
        /\ Following(h).line = next_line(n)
    BY <1>3 DEF Following
  <2>2. QED
    BY <1>1, <1>3, <2>1, NextLineThere
<1>4. QED
  BY <1>2, <1>3

\* A slice keeps the game or begins another one, as promised.
LEMMA SliceKeeps ==
  ASSUME CycleInv, NEW clock \in {"early", "late", "over"}, NEW stage \in {"no", "wait", "past"},
         stage # "no" => game.interm # "no", Slice(clock, stage)
  PROVE  /\ CycleInv'
         /\ (game.promise # NoMap /\ game'.promise # game.promise) =>
               (game'.smapname = game.promise \/ n = 0)
<1> DEFINE g == [game EXCEPT !.clock = clock, !.interm = stage]
           past(h) == h.interm = "past"
<1>1. /\ g \in Games /\ (g.interm # "no" => ~g.running) /\ g.smapname = game.smapname
      /\ g.nextmapname = game.nextmapname /\ g.promise = game.promise
  BY DEF CycleInv, CycleTypeOK, Games
<1>2. \E h \in {g, checkintermission(g)} :
        /\ curcfgset' = IF past(h) THEN Following(h).line ELSE curcfgset
        /\ map_queued' = (map_queued /\ ~past(h))
        /\ game' = IF n = 0 THEN resetserver(NoMap) ELSE IF past(h) THEN Following(h).game ELSE h
        /\ n' = n /\ configsets' = configsets /\ poll' = poll
  <2>1. PICK check \in BOOLEAN :
          LET h == IF check THEN checkintermission(g) ELSE g
          IN /\ curcfgset' = IF past(h) THEN Following(h).line ELSE curcfgset
             /\ map_queued' = (map_queued /\ ~past(h))
             /\ game' = IF n = 0 THEN resetserver(NoMap) ELSE IF past(h) THEN Following(h).game ELSE h
             /\ n' = n /\ configsets' = configsets /\ poll' = poll
    BY Zenon DEF Slice
  <2>2. CASE check = TRUE
    BY <2>1, <2>2
  <2>3. CASE check = FALSE
    BY <2>1, <2>3
  <2>4. QED
    BY <2>1, <2>2, <2>3
<1> PICK h \in {g, checkintermission(g)} :
        /\ curcfgset' = IF past(h) THEN Following(h).line ELSE curcfgset
        /\ map_queued' = (map_queued /\ ~past(h))
        /\ game' = IF n = 0 THEN resetserver(NoMap) ELSE IF past(h) THEN Following(h).game ELSE h
        /\ n' = n /\ configsets' = configsets /\ poll' = poll
  BY <1>2
<1>3. /\ h \in Games /\ (h.interm # "no" => ~h.running) /\ h.smapname = game.smapname
      /\ h.nextmapname = game.nextmapname /\ h.promise = game.promise
  BY <1>1, CheckKeeps
<1>4. h.promise # NoMap => h.nextmapname = h.promise
  BY <1>3 DEF CycleInv, PromiseOK
<1>5. PICK map \in Maps :
        /\ Following(h).game = resetserver(map) /\ Following(h).line \in Nat
        /\ h.promise # NoMap => Following(h).game.smapname = h.promise
  BY <1>3, <1>4, FollowsAsPromised DEF CycleInv
<1>6. map # NoMap
  BY MapsAssumption
<1>7. /\ game' \in Games /\ (game'.interm # "no" => ~game'.running)
      /\ game'.promise # NoMap => game'.nextmapname = game'.promise
      /\ game'.smapname = NoMap => n = 0 \/ game.smapname = NoMap
      /\ game'.promise # NoMap => game'.promise = game.promise /\ n # 0
  <2>1. CASE n = 0
    BY <1>2, <2>1, GameBegins
  <2>2. CASE n # 0 /\ past(h)
    BY <1>2, <1>5, <1>6, <2>2, GameBegins
  <2>3. CASE n # 0 /\ ~past(h)
    BY <1>2, <1>3, <1>4, <2>3
  <2>4. QED
    BY <2>1, <2>2, <2>3
<1>8. CycleTypeOK'
  BY <1>2, <1>5, <1>7 DEF CycleInv, CycleTypeOK
<1>9. PollOK' /\ PromiseOK' /\ NobodyPromised'
  BY <1>2, <1>7 DEF CycleInv, PollOK, PromiseOK, NobodyPromised
<1>10. ASSUME game.promise # NoMap, game'.promise # game.promise, n # 0
       PROVE  game'.smapname = game.promise
  BY <1>2, <1>3, <1>5, <1>10
<1>11. QED
  BY <1>8, <1>9, <1>10 DEF CycleInv
-----------------------------------------------------------------------------
(* The other steps, and the theorems.                                      *)

\* What a step must not do to a promise.
KeepsPromise ==
    game.promise # NoMap /\ game'.promise # game.promise =>
       game'.smapname = game.promise \/ PassVote \/ CallNext(TRUE) \/ n = 0

LEMMA NoPollIsAPoll == NoPoll \in [map : Maps \cup {NoMap}, queue : BOOLEAN]
  BY DEF NoPoll

LEMMA CycleBegins == CycleInit => CycleInv
<1> SUFFICES ASSUME CycleInit PROVE CycleInv
  OBVIOUS
<1>1. /\ resetserver(NoMap) \in Games /\ resetserver(NoMap).promise = NoMap
      /\ resetserver(NoMap).interm = "no"
  BY GameBegins
<1>2. CycleTypeOK
  <2>1. n \in 0..MaxClients /\ configsets \in Rotations /\ curcfgset \in Nat
    BY CycleBoundsAssumption DEF CycleInit
  <2>2. game \in Games /\ game.interm = "no"
    BY <1>1 DEF CycleInit
  <2>3. map_queued \in BOOLEAN /\ poll \in [map : Maps \cup {NoMap}, queue : BOOLEAN]
    BY NoPollIsAPoll DEF CycleInit
  <2>4. QED
    BY <2>1, <2>2, <2>3 DEF CycleTypeOK
<1>3. PollOK /\ PromiseOK /\ NobodyPromised
  BY <1>1 DEF CycleInit, PollOK, PromiseOK, NobodyPromised
<1>4. QED
  BY <1>2, <1>3 DEF CycleInv

\* Clients come and go.
LEMMA NumbersChange ==
  ASSUME CycleInv, Arrive \/ Depart
  PROVE  CycleInv' /\ game' = game
<1>1. n' \in 0..MaxClients /\ game' = game /\ configsets' = configsets
      /\ curcfgset' = curcfgset /\ map_queued' = map_queued /\ poll' \in {poll, NoPoll}
  BY CycleBoundsAssumption DEF CycleInv, CycleTypeOK, Arrive, Depart
<1>2. n' = 0 => poll' = NoPoll
  BY CycleBoundsAssumption DEF CycleInv, CycleTypeOK, Arrive, Depart
<1>3. CycleTypeOK'
  BY <1>1, NoPollIsAPoll DEF CycleInv, CycleTypeOK
<1>4. PollOK' /\ PromiseOK' /\ NobodyPromised'
  BY <1>1, <1>2 DEF CycleInv, PollOK, PromiseOK, NobodyPromised
<1>5. QED
  BY <1>1, <1>3, <1>4 DEF CycleInv

\* The rotation begins a game.
LEMMA WelcomeKeeps ==
  ASSUME CycleInv, Welcome
  PROVE  CycleInv' /\ game.promise = NoMap
<1> DEFINE map == configsets[next_line(n)].mapname
<1>1. n \in Nat /\ n # 0 /\ configsets \in Rotations /\ curcfgset \in Nat
  BY CycleBoundsAssumption DEF CycleInv, CycleTypeOK, Welcome
<1>2. map \in Maps /\ next_line(n) \in Nat
  BY <1>1, NextLineThere
<1>3. game' = resetserver(map) /\ curcfgset' = next_line(n) /\ n' = n
      /\ configsets' = configsets /\ map_queued' = map_queued /\ poll' = poll
  BY DEF Welcome
<1>4. /\ game' \in Games /\ game'.promise = NoMap /\ game'.interm = "no" /\ game'.smapname # NoMap
  BY <1>2, <1>3, GameBegins, MapsAssumption
<1>5. CycleTypeOK'
  BY <1>2, <1>3, <1>4 DEF CycleInv, CycleTypeOK
<1>6. PollOK' /\ PromiseOK' /\ NobodyPromised' /\ game.promise = NoMap
  BY <1>1, <1>3, <1>4 DEF CycleInv, PollOK, PromiseOK, NobodyPromised, Welcome
<1>7. QED
  BY <1>5, <1>6 DEF CycleInv

LEMMA CallVoteKeeps ==
  ASSUME CycleInv, NEW map \in Maps, NEW queue \in BOOLEAN, CallVote(map, queue)
  PROVE  CycleInv' /\ game' = game
<1>1. CycleTypeOK'
  BY DEF CycleInv, CycleTypeOK, CallVote
<1>2. PollOK' /\ PromiseOK' /\ NobodyPromised'
  BY DEF CycleInv, CycleTypeOK, PollOK, PromiseOK, NobodyPromised, CallVote
<1>3. QED
  BY <1>1, <1>2 DEF CycleInv, CallVote

LEMMA CallNextKeeps ==
  ASSUME CycleInv, NEW starts \in BOOLEAN, CallNext(starts)
  PROVE  CycleInv' /\ (game' = game \/ CallNext(TRUE))
<1>1. n \in Nat /\ n # 0 /\ configsets \in Rotations /\ curcfgset \in Nat /\ game.smapname # NoMap
  BY CycleBoundsAssumption DEF CycleInv, CycleTypeOK, CallNext
<1>2. PICK line \in (IF starts THEN {next_line(n)} ELSE GetNext) :
        /\ curcfgset' = line
        /\ game' = IF starts THEN resetserver(configsets[line].mapname) ELSE game
        /\ poll' \in {poll} \cup (IF poll = NoPoll
                                 THEN {[map |-> configsets[line].mapname, queue |-> FALSE]} ELSE {})
  BY DEF CallNext
<1>3. line \in Nat /\ configsets[line].mapname \in Maps
  BY <1>1, <1>2, NextLineThere, NextOfAnother
<1>4. n' = n /\ configsets' = configsets /\ map_queued' = map_queued
  BY DEF CallNext
<1>5. /\ game' \in Games /\ (game'.interm # "no" => ~game'.running) /\ game'.smapname # NoMap
      /\ game'.promise # NoMap => game'.nextmapname = game'.promise
  <2>1. CASE starts
    BY <1>2, <1>3, <2>1, GameBegins, MapsAssumption
  <2>2. CASE ~starts
    BY <1>1, <1>2, <2>2 DEF CycleInv, CycleTypeOK, PromiseOK
  <2>3. QED
    BY <2>1, <2>2
<1>6. poll' = poll \/ poll' = [map |-> configsets[line].mapname, queue |-> FALSE]
  BY <1>2
<1>7. CycleTypeOK'
  <2>1. poll \in [map : Maps \cup {NoMap}, queue : BOOLEAN]
    BY DEF CycleInv, CycleTypeOK
  <2>2. [map |-> configsets[line].mapname, queue |-> FALSE] \in [map : Maps \cup {NoMap}, queue : BOOLEAN]
    BY <1>3
  <2>3. poll' \in [map : Maps \cup {NoMap}, queue : BOOLEAN]
    BY <1>6, <2>1, <2>2
  <2>4. QED
    BY <1>2, <1>3, <1>4, <1>5, <2>3 DEF CycleInv, CycleTypeOK
<1>8. PollOK' /\ PromiseOK' /\ NobodyPromised'
  <2>1. [map |-> configsets[line].mapname, queue |-> FALSE] \in [map : Maps, queue : BOOLEAN]
    BY <1>3
  <2>2. PollOK'
    BY <1>6, <2>1 DEF CycleInv, PollOK
  <2>3. QED
    BY <1>1, <1>4, <1>5, <2>2 DEF CycleInv, PromiseOK, NobodyPromised
<1>9. game' = game \/ CallNext(TRUE)
  <2>1. CASE starts = TRUE
    BY <2>1
  <2>2. CASE starts = FALSE
    BY <1>2, <2>2
  <2>3. QED
    BY <2>1, <2>2
<1>10. QED
  BY <1>7, <1>8, <1>9 DEF CycleInv

LEMMA VoteKeeps ==
  ASSUME CycleInv, PassVote \/ FailVote
  PROVE  CycleInv' /\ (game' = game \/ PassVote)
<1>1. CASE PassVote
  <2>1. poll \in [map : Maps, queue : BOOLEAN] /\ game \in Games /\ game.smapname # NoMap
    BY <1>1 DEF CycleInv, CycleTypeOK, PollOK, NobodyPromised, PassVote
  <2>2. /\ game' = Performed(game, poll) /\ poll' = NoPoll /\ n' = n
        /\ configsets' = configsets /\ curcfgset' = curcfgset /\ map_queued' = map_queued
    BY <1>1 DEF PassVote
  <2>3. /\ game' \in Games /\ (game'.interm # "no" => ~game'.running) /\ game'.smapname # NoMap
        /\ game'.promise # NoMap => game'.nextmapname = game'.promise
    BY <2>1, <2>2, VotePerforms DEF CycleInv, CycleTypeOK, PromiseOK
  <2>4. CycleTypeOK'
    BY <2>2, <2>3 DEF CycleInv, CycleTypeOK, NoPoll
  <2>5. PollOK' /\ PromiseOK' /\ NobodyPromised'
    BY <2>2, <2>3 DEF PollOK, PromiseOK, NobodyPromised
  <2>6. QED
    BY <1>1, <2>4, <2>5 DEF CycleInv
<1>2. CASE FailVote
  <2>1. CycleTypeOK'
    BY <1>2 DEF CycleInv, CycleTypeOK, FailVote, NoPoll
  <2>2. PollOK' /\ PromiseOK' /\ NobodyPromised' /\ game' = game
    BY <1>2 DEF CycleInv, PollOK, PromiseOK, NobodyPromised, FailVote
  <2>3. QED
    BY <2>1, <2>2 DEF CycleInv
<1>3. QED
  BY <1>1, <1>2

LEMMA RereadKeeps ==
  ASSUME CycleInv, Reread
  PROVE  CycleInv' /\ game' = game
  BY DEF CycleInv, CycleTypeOK, PollOK, PromiseOK, NobodyPromised, Reread

LEMMA TimeKeeps ==
  ASSUME CycleInv, ClockPasses \/ IntermissionPasses \/ SameTime
  PROVE  CycleInv' /\ ((game.promise # NoMap /\ game'.promise # game.promise) =>
                     (game'.smapname = game.promise \/ n = 0))
<1>1. game.clock \in {"early", "late", "over"} /\ game.interm \in {"no", "wait", "past"}
  BY DEF CycleInv, CycleTypeOK, Games
<1>2. CASE game.clock = "early" /\ Slice("late", game.interm)
  BY <1>1, <1>2, SliceKeeps
<1>3. CASE game.clock = "late" /\ Slice("over", game.interm)
  BY <1>1, <1>3, SliceKeeps
<1>4. CASE IntermissionPasses
  BY <1>1, <1>4, SliceKeeps DEF IntermissionPasses
<1>5. CASE SameTime
  BY <1>1, <1>5, SliceKeeps DEF SameTime
<1>6. QED
  BY <1>2, <1>3, <1>4, <1>5 DEF ClockPasses

LEMMA CycleSteps ==
  ASSUME CycleInv, [CycleNext]_cycleVars
  PROVE  CycleInv' /\ KeepsPromise
<1>1. CASE Arrive \/ Depart
  BY <1>1, NumbersChange DEF KeepsPromise
<1>2. CASE Welcome
  BY <1>2, WelcomeKeeps DEF KeepsPromise
<1>3. CASE \E map \in Maps, queue \in BOOLEAN : CallVote(map, queue)
  BY <1>3, CallVoteKeeps DEF KeepsPromise
<1>4. CASE \E starts \in BOOLEAN : CallNext(starts)
  BY <1>4, CallNextKeeps DEF KeepsPromise
<1>5. CASE PassVote \/ FailVote
  BY <1>5, VoteKeeps DEF KeepsPromise
<1>6. CASE ClockPasses \/ IntermissionPasses \/ SameTime
  BY <1>6, TimeKeeps DEF KeepsPromise
<1>7. CASE Reread
  BY <1>7, RereadKeeps DEF KeepsPromise
<1>8. CASE UNCHANGED cycleVars
  BY <1>8 DEF cycleVars, CycleInv, CycleTypeOK, PollOK, PromiseOK, NobodyPromised, KeepsPromise
<1>9. QED
  BY <1>1, <1>2, <1>3, <1>4, <1>5, <1>6, <1>7, <1>8 DEF CycleNext

LEMMA CycleInvariant == CycleSpec => []CycleInv
<1>1. CycleInit => CycleInv
  BY CycleBegins
<1>2. CycleInv /\ [CycleNext]_cycleVars => CycleInv'
  BY CycleSteps
<1>3. QED
  BY <1>1, <1>2, PTL DEF CycleSpec

\* Every state of the cycle of games is well-typed, and no game runs in an intermission.
THEOREM CycleTypeCorrect == CycleSpec => []CycleTypeOK
<1>1. CycleInv => CycleTypeOK
  BY DEF CycleInv
<1>2. QED
  BY <1>1, CycleInvariant, PTL

\* The rotation always has a line for the players that are there: for every rotation file, also one that
\* changes, any number of lines to skip, and any number of players.
THEOREM RotationAlwaysFits == CycleSpec => []RotationFits
<1>1. CycleInv => RotationFits
  BY ChosenLineFits, CycleBoundsAssumption DEF CycleInv, CycleTypeOK
<1>2. QED
  BY <1>1, CycleInvariant, PTL

\* What was voted for the next game is played next, with the exceptions that PromisedIsPlayed names.
THEOREM PromisesKept == CycleSpec => PromisedIsPlayed
<1>1. CycleInv /\ [CycleNext]_cycleVars =>
        [game.promise # NoMap /\ game'.promise # game.promise =>
           \/ game'.smapname = game.promise
           \/ PassVote \/ CallNext(TRUE) \/ n = 0]_cycleVars
  BY CycleSteps DEF KeepsPromise
<1>2. QED
  BY <1>1, CycleInvariant, PTL DEF CycleSpec, PromisedIsPlayed

-----------------------------------------------------------------------------
(* Why the next game comes (the part of NextGameComes that is not about    *)
(* fairness): between two games the clock and the intermission only go on, *)
(* whatever votes do.                                                      *)

\* A game whose time is over is in its intermission already.
OverEnded == Timed(game) /\ game.clock = "over" => game.interm # "no"

GameGoesOn ==
    \/ game' = resetserver(game'.smapname)
    \/ /\ ~IntermissionPasses /\ game'.smapname = game.smapname
       /\ game'.clock = game.clock \/ <<game.clock, game'.clock>> \in {<<"early", "late">>, <<"late", "over">>}
       /\ game.interm # "no" => game'.interm = game.interm
       /\ game.forceintermission /\ (ClockPasses \/ SameTime) => game'.interm # "no"

\* The check at the end of a minute, or of a forced one.
LEMMA CheckEnds ==
  ASSUME NEW g \in Games
  PROVE  LET h == checkintermission(g)
         IN /\ h \in Games /\ h.smapname = g.smapname /\ h.clock = g.clock
            /\ g.interm # "no" => h.interm = g.interm
            /\ g.clock = "over" \/ g.forceintermission => h.interm # "no"
  BY DEF checkintermission, Games

\* A slice, with the time that has passed.
LEMMA SliceGoesOn ==
  ASSUME CycleInv, OverEnded, NEW clock \in {"early", "late", "over"}, NEW stage \in {"no", "wait", "past"},
         Slice(clock, stage)
  PROVE  \/ game' = resetserver(game'.smapname)
         \/ /\ stage # "past" /\ game'.smapname = game.smapname /\ game'.clock = clock
            /\ stage # "no" => game'.interm = stage
            /\ game.forceintermission => game'.interm # "no"
            /\ Timed(game) /\ clock # game.clock /\ clock = "over" => game'.interm # "no"
<1> DEFINE g == [game EXCEPT !.clock = clock, !.interm = stage]
<1>1. /\ g \in Games /\ g.smapname = game.smapname /\ g.clock = clock /\ g.interm = stage
      /\ g.forceintermission = game.forceintermission
  BY DEF CycleInv, CycleTypeOK, Games
<1>2. PICK check \in BOOLEAN :
        LET h == IF check THEN checkintermission(g) ELSE g
        IN /\ game.forceintermission \/ (Timed(game) /\ clock # game.clock /\ clock = "over") => check
           /\ game' = IF n = 0 THEN resetserver(NoMap) ELSE IF h.interm = "past" THEN Following(h).game ELSE h
  BY Zenon DEF Slice
<1> HIDE DEF g
<1> DEFINE h == IF check THEN checkintermission(g) ELSE g
<1>3. game' = IF n = 0 THEN resetserver(NoMap) ELSE IF h.interm = "past" THEN Following(h).game ELSE h
  BY <1>2
<1>4. /\ h \in Games /\ h.smapname = g.smapname /\ h.clock = g.clock
      /\ g.interm # "no" => h.interm = g.interm
      /\ check /\ (g.clock = "over" \/ g.forceintermission) => h.interm # "no"
  BY <1>1, CheckEnds
<1> HIDE DEF h
<1>5. \A map : resetserver(map).smapname = map
  BY DEF resetserver
<1>6. Following(h).game = resetserver(Following(h).game.smapname)
  BY <1>5 DEF Following
<1>7. CASE n = 0 \/ h.interm = "past"
  BY <1>3, <1>5, <1>6, <1>7
<1>8. CASE ~(n = 0 \/ h.interm = "past")
  BY <1>1, <1>2, <1>3, <1>4, <1>8
<1> QED  BY <1>7, <1>8

LEMMA GamesGoOn ==
  ASSUME CycleInv, OverEnded, CycleNext
  PROVE  GameGoesOn /\ OverEnded'
<1>0. game \in Games
  BY DEF CycleInv, CycleTypeOK
<1> DEFINE Begun == game' = resetserver(game'.smapname)
<1>1. ASSUME Begun PROVE GameGoesOn /\ OverEnded'
  <2>1. game'.clock = "early"
    BY <1>1 DEF resetserver
  <2> QED  BY <1>1, <2>1 DEF GameGoesOn, OverEnded
<1>2. \A map : resetserver(map).smapname = map
  BY DEF resetserver
<1>3. ASSUME game' = game, ~ClockPasses, ~SameTime, ~IntermissionPasses PROVE GameGoesOn /\ OverEnded'
  BY <1>3 DEF GameGoesOn, OverEnded, Timed
<1>4. CASE IntermissionPasses
  <2>1. Slice(game.clock, "past")
    BY <1>4 DEF IntermissionPasses
  <2>2. Begun
    BY <1>0, <2>1, SliceGoesOn DEF Games
  <2> QED  BY <1>1, <2>2
<1>5. ASSUME ~IntermissionPasses, NEW clock \in {"early", "late", "over"}, Slice(clock, game.interm),
             clock = game.clock \/ <<game.clock, clock>> \in {<<"early", "late">>, <<"late", "over">>}
      PROVE  GameGoesOn /\ OverEnded'
  <2>1. CASE Begun
    BY <1>1, <2>1
  <2>2. CASE ~Begun
    <3>1. /\ game'.smapname = game.smapname /\ game'.clock = clock
          /\ game.interm # "no" => game'.interm = game.interm
          /\ game.forceintermission => game'.interm # "no"
          /\ Timed(game) /\ clock # game.clock /\ clock = "over" => game'.interm # "no"
      BY <1>0, <1>5, <2>2, SliceGoesOn DEF Games
    <3> QED  BY <1>5, <3>1 DEF GameGoesOn, OverEnded, Timed
  <2> QED  BY <2>1, <2>2
<1>6. CASE (ClockPasses \/ SameTime) /\ ~IntermissionPasses
  BY <1>0, <1>5, <1>6 DEF ClockPasses, SameTime, Games
<1>7. CASE ~(ClockPasses \/ SameTime \/ IntermissionPasses)
  <2>1. CASE Arrive \/ Depart \/ FailVote \/ Reread \/ \E map \in Maps, queue \in BOOLEAN : CallVote(map, queue)
    <3>1. game' = game
      BY <2>1 DEF Arrive, Depart, FailVote, Reread, CallVote
    <3> QED  BY <1>3, <1>7, <3>1
  <2>2. CASE Welcome
    BY <1>1, <1>2, <2>2 DEF Welcome
  <2>3. ASSUME NEW starts \in BOOLEAN, CallNext(starts) PROVE GameGoesOn /\ OverEnded'
    <3>1. game' = game \/ Begun
      BY <1>2, <2>3 DEF CallNext
    <3> QED  BY <1>1, <1>3, <1>7, <3>1
  <2>4. CASE PassVote
    <3>1. CASE poll.queue \/ (n > 2 /\ Timed(game) /\ (game.clock # "early" \/ DemoInterm))
      <4>1. /\ game'.smapname = game.smapname /\ game'.clock = game.clock /\ game'.interm = game.interm
        BY <1>0, <2>4, <3>1 DEF PassVote, Performed, Games
      <4> QED  BY <1>7, <4>1 DEF GameGoesOn, OverEnded, Timed
    <3>2. CASE ~(poll.queue \/ (n > 2 /\ Timed(game) /\ (game.clock # "early" \/ DemoInterm)))
      <4>1. game' = resetserver(poll.map)
        BY <2>4, <3>2 DEF PassVote, Performed
      <4> QED  BY <1>1, <1>2, <4>1
    <3> QED  BY <3>1, <3>2
  <2> QED  BY <1>7, <2>1, <2>2, <2>3, <2>4 DEF CycleNext
<1> QED  BY <1>4, <1>6, <1>7

\* Until the next game begins, the clock and the intermission only go on: a game whose time is over is in its
\* intermission, the next slice after a vote has forced one begins it, nothing takes it back, and when it has
\* passed another game begins, or the server is empty and reset.
THEOREM NothingHoldsTheGameOff == CycleSpec => []OverEnded /\ [][GameGoesOn]_cycleVars
<1>1. CycleInit => OverEnded
  BY DEF CycleInit, OverEnded, resetserver
<1>2. CycleInv /\ OverEnded /\ [CycleNext]_cycleVars => OverEnded' /\ [GameGoesOn]_cycleVars
  <2>1. ASSUME OverEnded, UNCHANGED cycleVars PROVE OverEnded'
    BY <2>1 DEF cycleVars, OverEnded, Timed
  <2> QED  BY <2>1, GamesGoOn
<1> QED  BY <1>1, <1>2, CycleInvariant, PTL DEF CycleSpec

-----------------------------------------------------------------------------
(***************************************************************************)
(* TIMERS: a tick of tmr_tick is whole, for any timers, whatever their     *)
(* handlers create and remove.  Removal moves timers to other places and   *)
(* looks at some of them only (RemovedAt); that it takes exactly what it   *)
(* should as long as numbers are not shared is shown turn by turn.         *)
(***************************************************************************)

-----------------------------------------------------------------------------
(* Removing timers.                                                        *)

Distinct(ts) == \A a, b \in DOMAIN ts : ts[a].key = ts[b].key => a = b
OwnIds(ts) == \A a, b \in DOMAIN ts : ts[a].id = ts[b].id => a = b

\* r has some of the timers of ts, in any order.
Reduced(r, ts) ==
    /\ r \in Seq(Timers) /\ Len(r) <= Len(ts)
    /\ \A a \in DOMAIN r : \E b \in DOMAIN ts : r[a] = ts[b]
    /\ Distinct(ts) => Distinct(r)
    /\ OwnIds(ts) => OwnIds(r)

LEMMA ReducedTwice ==
    ASSUME NEW r, NEW q, NEW ts \in Seq(Timers), Reduced(q, ts), Reduced(r, q)
    PROVE  Reduced(r, ts)
<1>1. Len(r) <= Len(ts)
    BY DEF Reduced
<1>2. \A a \in DOMAIN r : \E b \in DOMAIN ts : r[a] = ts[b]
    BY DEF Reduced
<1> QED BY <1>1, <1>2 DEF Reduced

\* The timers of r stand no higher than in ts, and those with a number in ids stand lower.
Sinks(r, ts, ids) ==
    Distinct(ts) => \A a \in DOMAIN r, b \in DOMAIN ts :
        r[a].key = ts[b].key => a <= b /\ (ts[b].id \in ids => a < b)

LEMMA SinksTwice ==
    ASSUME NEW r, NEW q \in Seq(Timers), NEW ts \in Seq(Timers), Reduced(q, ts), Reduced(r, q),
           NEW ids, NEW more, Sinks(q, ts, ids), Sinks(r, q, more)
    PROVE  Sinks(r, ts, ids \cup more)
<1> SUFFICES ASSUME Distinct(ts), NEW a \in DOMAIN r, NEW b \in DOMAIN ts, r[a].key = ts[b].key
             PROVE  a <= b /\ (ts[b].id \in ids \cup more => a < b)
    BY DEF Sinks
<1>1. PICK c \in DOMAIN q : r[a] = q[c]
    BY DEF Reduced
<1>2. q[c] = ts[b]
    <2>1. PICK d \in DOMAIN ts : q[c] = ts[d]
        BY DEF Reduced
    <2>2. ts[d].key = ts[b].key
        BY <1>1, <2>1
    <2>3. d = b
        BY <2>2 DEF Distinct
    <2> QED BY <2>1, <2>3
<1>3. c <= b /\ (ts[b].id \in ids => c < b)
    BY <1>2 DEF Sinks
<1>4. a <= c /\ (ts[b].id \in more => a < c)
    BY <1>1, <1>2 DEF Sinks, Reduced
<1>5. a \in Nat /\ b \in Nat /\ c \in Nat
    BY DEF Reduced
<1> QED BY <1>3, <1>4, <1>5

TakenOut(ts, i) == Front([ts EXCEPT ![i] = Last(ts)])

LEMMA TakingOut ==
    ASSUME NEW ts \in Seq(Timers), NEW i \in DOMAIN ts, NEW r, r = TakenOut(ts, i)
    PROVE  /\ r \in Seq(Timers) /\ DOMAIN r = 1..Len(ts) - 1 /\ Len(r) = Len(ts) - 1
           /\ \A j \in 1..Len(ts) - 1 : r[j] = IF j = i THEN ts[Len(ts)] ELSE ts[j]
<1> DEFINE size == Len(ts)
           u == [ts EXCEPT ![i] = ts[size]]
<1>1. size \in Nat /\ DOMAIN ts = 1..size /\ size \in 1..size /\ ts[size] \in Timers
    OBVIOUS
<1>2. u \in Seq(Timers) /\ Len(u) = size /\ \A j \in 1..size : u[j] = IF j = i THEN ts[size] ELSE ts[j]
    BY <1>1
<1>3. r = SubSeq(u, 1, Len(u) - 1)
    BY DEF TakenOut, Front, Last
<1> HIDE DEF u
<1>4. r = SubSeq(u, 1, size - 1)
    BY <1>2, <1>3
<1>5. r \in Seq(Timers) /\ Len(r) = size - 1 /\ \A j \in 1..size - 1 : r[j] = u[j]
    <2>1. SubSeq(u, 1, size - 1) \in Seq(Timers) /\ Len(SubSeq(u, 1, size - 1)) = size - 1
        BY <1>1, <1>2
    <2>2. \A j \in 1..size - 1 : SubSeq(u, 1, size - 1)[j] = u[j]
        BY <1>1, <1>2
    <2> QED BY <1>4, <2>1, <2>2
<1>6. ASSUME NEW j \in 1..size - 1 PROVE r[j] = IF j = i THEN ts[size] ELSE ts[j]
    <2>1. j \in 1..size
        BY <1>1
    <2> QED BY <2>1, <1>2, <1>5
<1>7. DOMAIN r = 1..size - 1
    BY <1>5
<1>8. r \in Seq(Timers) /\ DOMAIN r = 1..size - 1 /\ Len(r) = size - 1
    BY <1>5, <1>7
<1> QED BY <1>6, <1>8

\* tmr_remove, one turn of its loop.
LEMMA RemovingAt ==
    ASSUME NEW ts \in Seq(Timers), NEW i \in Nat \ {0}, NEW id,
           NEW r, r = RemovedAt(ts, i, id)
    PROVE  /\ Reduced(r, ts)
           /\ OwnIds(ts) /\ (\A a \in DOMAIN ts : ts[a].id = id => a >= i) =>
                  \A a \in DOMAIN r : r[a].id = id => a > i
           /\ \A a \in DOMAIN r : \E b \in DOMAIN ts :
                  r[a] = ts[b] /\ a <= b /\ ~(b = i /\ ts[b].id = id)
<1> DEFINE size == Len(ts)
<1>1. size \in Nat /\ DOMAIN ts = 1..size
    OBVIOUS
<1>2. CASE i <= size /\ ts[i].id = id
    <2>1. i \in 1..size /\ size \in 1..size
        BY <1>1, <1>2
    <2>2. /\ r \in Seq(Timers) /\ DOMAIN r = 1..size - 1 /\ Len(r) = size - 1
          /\ \A j \in 1..size - 1 : r[j] = IF j = i THEN ts[size] ELSE ts[j]
        <3>1. r = TakenOut(ts, i)
            BY <1>2 DEF RemovedAt, TakenOut
        <3>2. i \in DOMAIN ts
            BY <1>1, <2>1
        <3> QED BY <3>1, <3>2, TakingOut
    <2> DEFINE from(j) == IF j = i THEN size ELSE j
    <2>3. \A j \in 1..size - 1 : from(j) \in 1..size /\ r[j] = ts[from(j)]
        BY <1>1, <2>1, <2>2
    <2>4. \A j, k \in 1..size - 1 : from(j) = from(k) => j = k
        BY <1>1
    <2> HIDE DEF from
    <2>5. /\ \A a \in DOMAIN r : \E b \in DOMAIN ts : r[a] = ts[b]
          /\ Distinct(ts) => Distinct(r)
          /\ OwnIds(ts) => OwnIds(r)
        <3>1. \A a \in DOMAIN r : from(a) \in DOMAIN ts /\ r[a] = ts[from(a)]
            BY <1>1, <2>2, <2>3
        <3>2. \A a, b \in DOMAIN r : from(a) = from(b) => a = b
            BY <2>2, <2>4
        <3>3. Distinct(ts) => Distinct(r)
            BY <3>1, <3>2 DEF Distinct
        <3>4. OwnIds(ts) => OwnIds(r)
            BY <3>1, <3>2 DEF OwnIds
        <3> QED BY <3>1, <3>3, <3>4
    <2>6. ASSUME OwnIds(ts), NEW a \in DOMAIN r, r[a].id = id PROVE a > i
        <3>1. a \in 1..size - 1 /\ from(a) \in 1..size /\ ts[from(a)].id = ts[i].id
            BY <1>2, <2>2, <2>3, <2>6
        <3>2. from(a) = i
            BY <1>1, <2>1, <2>6, <3>1 DEF OwnIds
        <3>3. CASE a = i
            <4>1. size = i
                BY <3>2, <3>3 DEF from
            <4> QED BY <4>1, <1>1, <3>1, <3>3
        <3>4. CASE a # i
            BY <3>2, <3>4 DEF from
        <3> QED BY <3>3, <3>4
    <2>7. Reduced(r, ts)
        BY <1>1, <2>2, <2>5 DEF Reduced
    <2>8. ASSUME NEW a \in DOMAIN r PROVE from(a) \in DOMAIN ts /\ r[a] = ts[from(a)] /\ a <= from(a) /\ from(a) # i
        <3>1. a \in 1..size - 1 /\ from(a) \in DOMAIN ts /\ r[a] = ts[from(a)]
            BY <1>1, <2>2, <2>3
        <3>2. a <= from(a) /\ from(a) # i
            BY <1>1, <2>1, <3>1 DEF from
        <3> QED BY <3>1, <3>2
    <2> QED BY <2>6, <2>7, <2>8
<1>3. CASE ~(i <= size /\ ts[i].id = id)
    <2>1. r = ts
        BY <1>3 DEF RemovedAt
    <2>2. Reduced(r, ts)
        BY <1>1, <2>1 DEF Reduced
    <2>3. ASSUME \A a \in DOMAIN ts : ts[a].id = id => a >= i, NEW a \in DOMAIN r, r[a].id = id PROVE a > i
        BY <1>1, <1>3, <2>1, <2>3
    <2>4. ASSUME NEW a \in DOMAIN r PROVE a \in DOMAIN ts /\ r[a] = ts[a] /\ a <= a /\ ~(a = i /\ ts[a].id = id)
        BY <1>1, <1>3, <2>1
    <2> QED BY <2>2, <2>3, <2>4
<1> QED BY <1>2, <1>3

\* tmr_remove takes timers away, and if no other timer has the number of one, it takes that one.
LEMMA RemovingFrom ==
    ASSUME NEW ts \in Seq(Timers), NEW id \in TimerIds, NEW r, r = Without(id)[ts]
    PROVE  /\ Reduced(r, ts)
           /\ OwnIds(ts) => \A a \in DOMAIN r : r[a].id # id
           /\ Sinks(r, ts, {id})
<1> DEFINE size == Len(ts)
           S == Seq(Timers)
           removed == CHOOSE f : f = [i \in 0..size |-> IF i = 0 THEN ts ELSE RemovedAt(f[i - 1], i, id)]
           step == [i \in 1..size |-> [q \in S |-> RemovedAt(q, i, id)]]
<1>1. size \in Nat /\ DOMAIN ts = 1..size
    OBVIOUS
<1>2. r = removed[size]
    BY Zenon DEF Without
<1>3. \A q \in S : \A i \in 1..size : RemovedAt(q, i, id) \in S
    BY RemovingAt DEF Reduced
<1>4. \E f \in [0..size -> S] : f = [i \in 0..size |-> IF i = 0 THEN ts ELSE RemovedAt(f[i - 1], i, id)]
    <2>1. step \in [1..size -> [S -> S]]
        BY <1>3
    <2> HIDE DEF S, step
    <2>2. ts \in S
        BY DEF S
    <2>3. PICK f \in [0..size -> S] : Steps(f, ts, size, step)
        BY <1>1, <2>1, <2>2, Iterated
    <2>4. ASSUME NEW i \in 0..size PROVE f[i] = IF i = 0 THEN ts ELSE RemovedAt(f[i - 1], i, id)
        <3>1. CASE i = 0
            BY <2>3, <3>1 DEF Steps
        <3>2. CASE i # 0
            <4>1. i \in 1..size /\ i - 1 \in 0..size
                BY <1>1, <3>2
            <4>2. f[i - 1] \in S
                BY <4>1
            <4> QED BY <2>3, <3>2, <4>1, <4>2 DEF step, Steps
        <3> QED BY <3>1, <3>2
    <2>5. f = [i \in 0..size |-> f[i]]
        OBVIOUS
    <2>6. f = [i \in 0..size |-> IF i = 0 THEN ts ELSE RemovedAt(f[i - 1], i, id)]
        BY <2>4, <2>5
    <2> QED BY <2>6
<1>5. removed = [i \in 0..size |-> IF i = 0 THEN ts ELSE RemovedAt(removed[i - 1], i, id)]
    BY <1>4, Zenon
<1> HIDE DEF removed, step, S
<1> DEFINE Good(q, i) ==
             /\ Reduced(q, ts)
             /\ OwnIds(ts) => \A a \in DOMAIN q : q[a].id = id => a > i
             /\ Distinct(ts) => \A a \in DOMAIN q, b \in DOMAIN ts :
                    q[a].key = ts[b].key => a <= b /\ (ts[b].id = id /\ b <= i => a < b)
           G == {i \in 0..size : Good(removed[i], i)}
<1>6. 0 \in G
    <2>1. removed[0] = ts
        BY <1>1, <1>5
    <2>2. Good(ts, 0)
        BY <1>1 DEF Reduced, Distinct
    <2> QED BY <1>1, <2>1, <2>2
<1>7. ASSUME NEW i \in 1..size, i - 1 \in G PROVE i \in G
    <2>1. i \in 0..size /\ i # 0 /\ i - 1 \in 0..size /\ i \in Nat \ {0}
        BY <1>1
    <2>2. removed[i] = RemovedAt(removed[i - 1], i, id)
        BY <2>1, <1>5
    <2> DEFINE q == removed[i - 1]
               p == removed[i]
    <2>3. Good(q, i - 1) /\ q \in Seq(Timers) /\ p = RemovedAt(q, i, id)
        BY <1>7, <2>2 DEF Reduced
    <2> HIDE DEF q, p
    <2>4. /\ Reduced(p, q)
          /\ OwnIds(q) /\ (\A a \in DOMAIN q : q[a].id = id => a >= i) =>
                  \A a \in DOMAIN p : p[a].id = id => a > i
          /\ \A a \in DOMAIN p : \E c \in DOMAIN q : p[a] = q[c] /\ a <= c /\ ~(c = i /\ q[c].id = id)
        BY <2>1, <2>3, RemovingAt
    <2>5. Reduced(p, ts)
        BY <2>3, <2>4, ReducedTwice
    <2>6. ASSUME OwnIds(ts) PROVE \A a \in DOMAIN p : p[a].id = id => a > i
        <3>1. OwnIds(q)
            BY <2>3, <2>6 DEF Reduced
        <3>2. \A a \in DOMAIN q : a \in Nat
            BY <2>3
        <3>3. \A a \in DOMAIN q : q[a].id = id => a >= i
            BY <2>1, <2>3, <2>6, <3>2
        <3> QED BY <2>4, <3>1, <3>3
    <2>7. ASSUME Distinct(ts), NEW a \in DOMAIN p, NEW b \in DOMAIN ts, p[a].key = ts[b].key
          PROVE  a <= b /\ (ts[b].id = id /\ b <= i => a < b)
        <3>1. PICK c \in DOMAIN q : p[a] = q[c] /\ a <= c /\ ~(c = i /\ q[c].id = id)
            BY <2>4
        <3>2. q[c] = ts[b]
            BY <2>3, <2>7, <3>1 DEF Reduced, Distinct
        <3>3. c <= b /\ (ts[b].id = id /\ b <= i - 1 => c < b)
            BY <2>3, <2>7, <3>2
        <3>4. a \in Nat /\ b \in Nat /\ c \in Nat
            BY <2>3, <2>5 DEF Reduced
        <3> QED BY <2>1, <3>1, <3>2, <3>3, <3>4
    <2> QED BY <2>1, <2>5, <2>6, <2>7 DEF p
<1>8. Good(r, size)
    <2>1. 0..size \subseteq G
        <3> HIDE DEF G
        <3> QED BY <1>1, <1>6, <1>7, UpTo
    <2> QED BY <1>1, <1>2, <2>1
<1>9. \A a \in DOMAIN r : a \in 1..Len(r) /\ Len(r) <= size /\ Len(r) \in Nat
    BY <1>8 DEF Reduced
<1>10. \A a \in DOMAIN r : ~(a > size)
    BY <1>1, <1>9
<1>11. \A b \in DOMAIN ts : b <= size
    BY <1>1
<1>12. Sinks(r, ts, {id})
    BY <1>8, <1>11 DEF Sinks
<1> QED BY <1>8, <1>10, <1>12

\* The end of tmr_tick: one number after the other.
LEMMA RemovingAll ==
    ASSUME NEW ts \in Seq(Timers), NEW ids \in Seq(TimerIds), NEW r, r = WithoutAll(ids, ts)
    PROVE  /\ Reduced(r, ts)
           /\ OwnIds(ts) => \A a \in DOMAIN r : r[a].id \notin ToSet(ids)
           /\ Sinks(r, ts, ToSet(ids))
<1> DEFINE size == Len(ids)
           S == Seq(Timers)
           rest == CHOOSE f : f = [i \in 0..size |-> IF i = 0 THEN ts ELSE Without(ids[i])[f[i - 1]]]
           step == [i \in 1..size |-> [q \in S |-> Without(ids[i])[q]]]
<1>1. size \in Nat /\ DOMAIN ids = 1..size /\ \A i \in 1..size : ids[i] \in TimerIds
    OBVIOUS
<1>2. r = rest[size]
    BY Zenon DEF WithoutAll
<1>3. \A q \in S : \A i \in 1..size : Without(ids[i])[q] \in S
    BY <1>1, RemovingFrom DEF Reduced
<1>4. \E f \in [0..size -> S] : f = [i \in 0..size |-> IF i = 0 THEN ts ELSE Without(ids[i])[f[i - 1]]]
    <2>1. step \in [1..size -> [S -> S]]
        BY <1>3
    <2> HIDE DEF S, step
    <2>2. ts \in S
        BY DEF S
    <2>3. PICK f \in [0..size -> S] : Steps(f, ts, size, step)
        BY <1>1, <2>1, <2>2, Iterated
    <2>4. ASSUME NEW i \in 0..size PROVE f[i] = IF i = 0 THEN ts ELSE Without(ids[i])[f[i - 1]]
        <3>1. CASE i = 0
            BY <2>3, <3>1 DEF Steps
        <3>2. CASE i # 0
            <4>1. i \in 1..size /\ i - 1 \in 0..size
                BY <1>1, <3>2
            <4>2. f[i - 1] \in S
                BY <4>1
            <4> QED BY <2>3, <3>2, <4>1, <4>2 DEF step, Steps
        <3> QED BY <3>1, <3>2
    <2>5. f = [i \in 0..size |-> f[i]]
        OBVIOUS
    <2>6. f = [i \in 0..size |-> IF i = 0 THEN ts ELSE Without(ids[i])[f[i - 1]]]
        BY <2>4, <2>5
    <2> QED BY <2>6
<1>5. rest = [i \in 0..size |-> IF i = 0 THEN ts ELSE Without(ids[i])[rest[i - 1]]]
    BY <1>4, Zenon
<1> HIDE DEF rest, step, S
<1> DEFINE Good(q, i) ==
             /\ Reduced(q, ts)
             /\ OwnIds(ts) => \A a \in DOMAIN q : \A k \in 1..i : q[a].id # ids[k]
             /\ Sinks(q, ts, {ids[k] : k \in 1..i})
           G == {i \in 0..size : Good(rest[i], i)}
<1>6. 0 \in G
    <2>1. rest[0] = ts
        BY <1>1, <1>5
    <2>2. Good(ts, 0)
        BY DEF Reduced, Sinks, Distinct
    <2> QED BY <1>1, <2>1, <2>2
<1>7. ASSUME NEW i \in 1..size, i - 1 \in G PROVE i \in G
    <2>1. i \in 0..size /\ i # 0 /\ i - 1 \in 0..size /\ i \in Nat \ {0} /\ ids[i] \in TimerIds
        BY <1>1
    <2>2. rest[i] = Without(ids[i])[rest[i - 1]]
        BY <2>1, <1>5
    <2> DEFINE q == rest[i - 1]
               p == rest[i]
    <2>3. Good(q, i - 1) /\ q \in Seq(Timers) /\ p = Without(ids[i])[q]
        BY <1>7, <2>2 DEF Reduced
    <2> HIDE DEF q, p
    <2>4. /\ Reduced(p, q)
          /\ OwnIds(q) => \A a \in DOMAIN p : p[a].id # ids[i]
          /\ Sinks(p, q, {ids[i]})
        BY <2>1, <2>3, RemovingFrom
    <2>5. Reduced(p, ts)
        BY <2>3, <2>4, ReducedTwice
    <2>6. ASSUME OwnIds(ts), NEW a \in DOMAIN p, NEW k \in 1..i PROVE p[a].id # ids[k]
        <3>1. OwnIds(q)
            BY <2>3, <2>6 DEF Reduced
        <3>2. CASE k = i
            BY <2>4, <3>1, <3>2
        <3>3. CASE k # i
            <4>1. k \in 1..i - 1
                BY <2>1, <3>3
            <4>2. PICK b \in DOMAIN q : p[a] = q[b]
                BY <2>4 DEF Reduced
            <4> QED BY <2>3, <2>6, <4>1, <4>2
        <3> QED BY <3>2, <3>3
    <2>7. Sinks(p, ts, {ids[k] : k \in 1..i})
        <3>1. {ids[k] : k \in 1..i} = {ids[k] : k \in 1..i - 1} \cup {ids[i]}
            BY <2>1
        <3>2. Sinks(p, ts, {ids[k] : k \in 1..i - 1} \cup {ids[i]})
            BY <2>3, <2>4, SinksTwice
        <3> QED BY <3>1, <3>2
    <2> QED BY <2>1, <2>5, <2>6, <2>7 DEF p
<1>8. Good(r, size)
    <2>1. 0..size \subseteq G
        <3> HIDE DEF G
        <3> QED BY <1>1, <1>6, <1>7, UpTo
    <2> HIDE DEF Good
    <2>2. size \in G
        BY <1>1, <2>1
    <2> QED BY <1>2, <2>2
<1>9. ToSet(ids) = {ids[k] : k \in 1..size}
    BY <1>1 DEF ToSet
<1> QED BY <1>8, <1>9

-----------------------------------------------------------------------------
(* The inductive invariant of the timers: no two have one key, or - while  *)
(* none has shared its number - one number, the ones that wait to be       *)
(* created included; and of those that the loop has passed, the due ones   *)
(* have fired.                                                             *)

IdsIn(ts) == {ts[i].id : i \in DOMAIN ts}

KeysApart ==
    Distinct(timers) /\ Distinct(timersToCreate) /\ KeysIn(timers) \cap KeysIn(timersToCreate) = {}
IdsApart ==
    ~shared => OwnIds(timers) /\ OwnIds(timersToCreate) /\ IdsIn(timers) \cap IdsIn(timersToCreate) = {}
Between == running = 0 => timersToCreate = <<>> /\ timersToRemove = <<>> /\ fired = <<>>
FiredSoFar ==
    /\ IsInjective(fired)
    /\ \A k \in DOMAIN fired : \E i \in 1..running : fired[k] = timers[i].key
    /\ \A i \in 1..running : timers[i].left = 0 => timers[i].key \in ToSet(fired)

TimersInv ==
    /\ TimersTypeOK
    /\ Len(timers) + Len(timersToCreate) <= MaxTimers
    /\ KeysApart /\ IdsApart /\ Between /\ FiredSoFar

\* One array after another.
LEMMA Joined ==
    ASSUME NEW s \in Seq(Timers), NEW t \in Seq(Timers), NEW q, q = s \o t
    PROVE  /\ q \in Seq(Timers) /\ Len(q) = Len(s) + Len(t)
           /\ KeysIn(q) = KeysIn(s) \cup KeysIn(t) /\ IdsIn(q) = IdsIn(s) \cup IdsIn(t)
           /\ Distinct(s) /\ Distinct(t) /\ KeysIn(s) \cap KeysIn(t) = {} => Distinct(q)
           /\ OwnIds(s) /\ OwnIds(t) /\ IdsIn(s) \cap IdsIn(t) = {} => OwnIds(q)
<1> DEFINE m == Len(s)
           size == Len(t)
<1>1. m \in Nat /\ size \in Nat /\ DOMAIN s = 1..m /\ DOMAIN t = 1..size
    OBVIOUS
<1>2. /\ q \in Seq(Timers) /\ Len(q) = m + size /\ DOMAIN q = 1..m + size
      /\ \A i \in 1..m + size : q[i] = IF i <= m THEN s[i] ELSE t[i - m]
    OBVIOUS
<1> HIDE DEF m, size
<1>3. \A i \in DOMAIN q : \/ i \in DOMAIN s /\ q[i] = s[i]
                          \/ i > m /\ i - m \in DOMAIN t /\ q[i] = t[i - m]
    BY <1>1, <1>2
<1>4. \A i \in DOMAIN s : i \in DOMAIN q /\ q[i] = s[i]
    BY <1>1, <1>2
<1>5. \A i \in DOMAIN t : m + i \in DOMAIN q /\ q[m + i] = t[i]
    BY <1>1, <1>2
<1>6. KeysIn(q) = KeysIn(s) \cup KeysIn(t)
    <2>1. KeysIn(q) \subseteq KeysIn(s) \cup KeysIn(t)
        BY <1>3 DEF KeysIn
    <2>2. KeysIn(s) \subseteq KeysIn(q)
        BY <1>4 DEF KeysIn
    <2>3. KeysIn(t) \subseteq KeysIn(q)
        BY <1>5 DEF KeysIn
    <2> QED BY <2>1, <2>2, <2>3
<1>7. IdsIn(q) = IdsIn(s) \cup IdsIn(t)
    <2>1. IdsIn(q) \subseteq IdsIn(s) \cup IdsIn(t)
        BY <1>3 DEF IdsIn
    <2>2. IdsIn(s) \subseteq IdsIn(q)
        BY <1>4 DEF IdsIn
    <2>3. IdsIn(t) \subseteq IdsIn(q)
        BY <1>5 DEF IdsIn
    <2> QED BY <2>1, <2>2, <2>3
<1>8. ASSUME Distinct(s), Distinct(t), KeysIn(s) \cap KeysIn(t) = {}, NEW a \in DOMAIN q, NEW b \in DOMAIN q,
             q[a].key = q[b].key
      PROVE  a = b
    <2>1. a \in Int /\ b \in Int /\ m \in Int
        BY <1>1, <1>2
    <2>2. ~\E i \in DOMAIN s, k \in DOMAIN t : s[i].key = t[k].key
        BY <1>8 DEF KeysIn
    <2>3. CASE a \in DOMAIN s /\ q[a] = s[a]
        <3>1. b \in DOMAIN s /\ q[b] = s[b]
            BY <1>3, <1>8, <2>2, <2>3
        <3> QED BY <1>8, <2>3, <3>1 DEF Distinct
    <2>4. CASE a > m /\ a - m \in DOMAIN t /\ q[a] = t[a - m]
        <3>1. b > m /\ b - m \in DOMAIN t /\ q[b] = t[b - m]
            BY <1>3, <1>8, <2>2, <2>4
        <3>2. t[a - m].key = t[b - m].key
            BY <1>8, <2>4, <3>1
        <3>3. a - m = b - m
            BY <1>8, <2>4, <3>1, <3>2, Zenon DEF Distinct
        <3> QED BY <2>1, <3>3
    <2> QED BY <1>3, <2>3, <2>4
<1>9. ASSUME OwnIds(s), OwnIds(t), IdsIn(s) \cap IdsIn(t) = {}, NEW a \in DOMAIN q, NEW b \in DOMAIN q,
             q[a].id = q[b].id
      PROVE  a = b
    <2>1. a \in Int /\ b \in Int /\ m \in Int
        BY <1>1, <1>2
    <2>2. ~\E i \in DOMAIN s, k \in DOMAIN t : s[i].id = t[k].id
        BY <1>9 DEF IdsIn
    <2>3. CASE a \in DOMAIN s /\ q[a] = s[a]
        <3>1. b \in DOMAIN s /\ q[b] = s[b]
            BY <1>3, <1>9, <2>2, <2>3
        <3> QED BY <1>9, <2>3, <3>1 DEF OwnIds
    <2>4. CASE a > m /\ a - m \in DOMAIN t /\ q[a] = t[a - m]
        <3>1. b > m /\ b - m \in DOMAIN t /\ q[b] = t[b - m]
            BY <1>3, <1>9, <2>2, <2>4
        <3>2. t[a - m].id = t[b - m].id
            BY <1>9, <2>4, <3>1
        <3>3. a - m = b - m
            BY <1>9, <2>4, <3>1, <3>2, Zenon DEF OwnIds
        <3> QED BY <2>1, <3>3
    <2> QED BY <1>3, <2>3, <2>4
<1>10. /\ Distinct(s) /\ Distinct(t) /\ KeysIn(s) \cap KeysIn(t) = {} => Distinct(q)
       /\ OwnIds(s) /\ OwnIds(t) /\ IdsIn(s) \cap IdsIn(t) = {} => OwnIds(q)
    BY <1>8, <1>9 DEF Distinct, OwnIds
<1> QED BY <1>2, <1>6, <1>7, <1>10 DEF m, size

\* What an array with some of the timers has.
LEMMA ReducedHas ==
    ASSUME NEW r, NEW ts, Reduced(r, ts)
    PROVE  KeysIn(r) \subseteq KeysIn(ts) /\ IdsIn(r) \subseteq IdsIn(ts)
BY DEF Reduced, KeysIn, IdsIn

\* There is a key for one more timer.
LEMMA FreshKey ==
    ASSUME NEW s \in Seq(Timers), NEW t \in Seq(Timers), Len(s) + Len(t) < MaxTimers
    PROVE  \E k \in Keys : k \notin KeysIn(s) \cup KeysIn(t)
<1> DEFINE q == s \o t
           size == Len(q)
           f == [k \in Keys |-> CHOOSE i \in 1..size : q[i].key = k]
<1> SUFFICES ASSUME \A k \in Keys : k \in KeysIn(s) \cup KeysIn(t) PROVE FALSE
    OBVIOUS
<1>1. q \in Seq(Timers) /\ size = Len(s) + Len(t) /\ KeysIn(q) = KeysIn(s) \cup KeysIn(t)
    BY Joined
<1>2. size \in Nat /\ DOMAIN q = 1..size
    BY <1>1
<1> HIDE DEF q, size
<1>3. \A k \in Keys : \E i \in 1..size : q[i].key = k
    BY <1>1, <1>2 DEF KeysIn
<1>4. f \in [Keys -> 1..size] /\ \A k \in Keys : q[f[k]].key = k
    BY <1>3
<1>5. /\ IsFiniteSet(Keys) /\ IsFiniteSet(1..size) /\ Cardinality(1..size) = size /\ Cardinality(Keys) = MaxTimers
    <2>1. 1 \in Int /\ size \in Int /\ MaxTimers \in Int
        BY <1>2, TimerBoundsAssumption
    <2>2. IsFiniteSet(1..size) /\ Cardinality(1..size) = IF 1 > size THEN 0 ELSE size - 1 + 1
        BY <2>1, FS_Interval, Zenon
    <2>3. IsFiniteSet(1..MaxTimers) /\ Cardinality(1..MaxTimers) = IF 1 > MaxTimers THEN 0 ELSE MaxTimers - 1 + 1
        BY <2>1, FS_Interval, Zenon
    <2> QED BY <2>2, <2>3, <1>2, TimerBoundsAssumption DEF Keys
<1> HIDE DEF f
<1>6. \E x, y \in Keys : x # y /\ f[x] = f[y]
    BY <1>1, <1>4, <1>5, FS_PigeonHole
<1> QED BY <1>4, <1>6

-----------------------------------------------------------------------------
(* Each step of the timers.                                                *)

\* A timer that is created has a key of its own.
LEMMA Creating ==
    ASSUME TimersInv, NEW id \in TimerIds, NEW once \in BOOLEAN, tmr_create(id, once)
    PROVE  TimersInv'
<1> DEFINE key == CHOOSE k \in Keys : k \notin KeysIn(timers) \cup KeysIn(timersToCreate)
           t == [key |-> key, id |-> id, once |-> once, left |-> Period[id]]
<1>1. /\ Len(timers) + Len(timersToCreate) < MaxTimers
      /\ shared' = (shared \/ Shares(t, timers) \/ Shares(t, timersToCreate))
      /\ IF running # 0 THEN timersToCreate' = <<t>> \o timersToCreate /\ timers' = timers
         ELSE timers' = Append(timers, t) /\ timersToCreate' = timersToCreate
      /\ timersToRemove' = timersToRemove /\ running' = running /\ fired' = fired
    BY DEF tmr_create
<1>2. /\ timers \in Seq(Timers) /\ timersToCreate \in Seq(Timers) /\ TimersTypeOK
      /\ shared \in BOOLEAN /\ KeysApart /\ IdsApart /\ Between /\ FiredSoFar
    BY DEF TimersInv, TimersTypeOK
<1>3. key \in Keys /\ key \notin KeysIn(timers) /\ key \notin KeysIn(timersToCreate)
    BY <1>1, <1>2, FreshKey
<1> HIDE DEF key
<1>4. t \in Timers /\ t.key = key
    <2>1. Period[id] \in Nat
        BY PeriodsAssumption
    <2> QED BY <1>3, <2>1 DEF Timers
<1>5. /\ ~shared' => ~shared /\ t.id \notin IdsIn(timers) /\ t.id \notin IdsIn(timersToCreate)
      /\ shared' \in BOOLEAN
    BY <1>1, <1>2 DEF Shares, IdsIn
<1> HIDE DEF t
<1> DEFINE u == <<t>>
<1>6. /\ u \in Seq(Timers) /\ Len(u) = 1 /\ Distinct(u) /\ OwnIds(u)
      /\ KeysIn(u) = {key} /\ IdsIn(u) = {t.id}
    BY <1>4 DEF Distinct, OwnIds, KeysIn, IdsIn
<1> HIDE DEF u
<1>7. CASE running # 0
    <2> DEFINE q == u \o timersToCreate
    <2>a. q = u \o timersToCreate
        OBVIOUS
    <2> HIDE DEF q
    <2>0. /\ KeysIn(u) \cap KeysIn(timersToCreate) = {}
          /\ t.id \notin IdsIn(timersToCreate) => IdsIn(u) \cap IdsIn(timersToCreate) = {}
        BY <1>3, <1>6
    <2>b. /\ q \in Seq(Timers) /\ Len(q) = Len(u) + Len(timersToCreate)
          /\ KeysIn(q) = KeysIn(u) \cup KeysIn(timersToCreate) /\ IdsIn(q) = IdsIn(u) \cup IdsIn(timersToCreate)
          /\ Distinct(u) /\ Distinct(timersToCreate) /\ KeysIn(u) \cap KeysIn(timersToCreate) = {} => Distinct(q)
          /\ OwnIds(u) /\ OwnIds(timersToCreate) /\ IdsIn(u) \cap IdsIn(timersToCreate) = {} => OwnIds(q)
        <3>1. u \in Seq(Timers) /\ timersToCreate \in Seq(Timers)
            BY <1>2, <1>6
        <3> QED BY <3>1, <2>a, Joined, Zenon
    <2>1. /\ q \in Seq(Timers) /\ Len(q) = 1 + Len(timersToCreate)
          /\ KeysIn(q) = {key} \cup KeysIn(timersToCreate) /\ IdsIn(q) = {t.id} \cup IdsIn(timersToCreate)
          /\ Distinct(timersToCreate) => Distinct(q)
          /\ OwnIds(timersToCreate) /\ t.id \notin IdsIn(timersToCreate) => OwnIds(q)
        BY <1>6, <2>0, <2>b
    <2>2. timersToCreate' = q /\ timers' = timers
        BY <1>1, <1>7 DEF q, u
    <2>3. KeysApart'
        BY <1>2, <1>3, <2>1, <2>2 DEF KeysApart
    <2>4. IdsApart'
        BY <1>2, <1>5, <2>1, <2>2 DEF IdsApart
    <2>5. TimersTypeOK'
        BY <1>1, <1>2, <1>5, <2>1, <2>2 DEF TimersTypeOK
    <2>6. Between' /\ FiredSoFar'
        BY <1>1, <1>2, <1>7, <2>2 DEF Between, FiredSoFar
    <2>7. Len(timers') + Len(timersToCreate') <= MaxTimers'
        BY <1>1, <1>2, <2>1, <2>2, TimerBoundsAssumption
    <2> QED BY <2>3, <2>4, <2>5, <2>6, <2>7 DEF TimersInv
<1>8. CASE running = 0
    <2> DEFINE q == timers \o u
    <2>a. q = timers \o u
        OBVIOUS
    <2> HIDE DEF q
    <2>0. /\ KeysIn(timers) \cap KeysIn(u) = {}
          /\ t.id \notin IdsIn(timers) => IdsIn(timers) \cap IdsIn(u) = {}
        BY <1>3, <1>6
    <2>b. /\ q \in Seq(Timers) /\ Len(q) = Len(timers) + Len(u)
          /\ KeysIn(q) = KeysIn(timers) \cup KeysIn(u) /\ IdsIn(q) = IdsIn(timers) \cup IdsIn(u)
          /\ Distinct(timers) /\ Distinct(u) /\ KeysIn(timers) \cap KeysIn(u) = {} => Distinct(q)
          /\ OwnIds(timers) /\ OwnIds(u) /\ IdsIn(timers) \cap IdsIn(u) = {} => OwnIds(q)
        <3>1. u \in Seq(Timers) /\ timers \in Seq(Timers)
            BY <1>2, <1>6
        <3> QED BY <3>1, <2>a, Joined, Zenon
    <2>1. /\ q \in Seq(Timers) /\ Len(q) = Len(timers) + 1
          /\ KeysIn(q) = KeysIn(timers) \cup {key} /\ IdsIn(q) = IdsIn(timers) \cup {t.id}
          /\ Distinct(timers) => Distinct(q)
          /\ OwnIds(timers) /\ t.id \notin IdsIn(timers) => OwnIds(q)
        BY <1>6, <2>0, <2>b
    <2>2. timers' = q /\ timersToCreate' = timersToCreate
        <3>1. Append(timers, t) = timers \o u
            BY <1>2, <1>4 DEF u
        <3> QED BY <1>1, <1>8, <3>1 DEF q
    <2>3. timersToCreate = <<>> /\ fired = <<>>
        BY <1>2, <1>8 DEF Between
    <2>4. KeysApart'
        BY <1>2, <1>3, <2>1, <2>2 DEF KeysApart
    <2>5. IdsApart'
        BY <1>2, <1>5, <2>1, <2>2 DEF IdsApart
    <2>6. TimersTypeOK'
        <3>1. running' \in 0..Len(timers')
            BY <1>1, <1>8, <2>1, <2>2, <1>2
        <3> QED BY <1>1, <1>2, <1>5, <2>1, <2>2, <3>1 DEF TimersTypeOK
    <2>7. Between' /\ FiredSoFar'
        BY <1>1, <1>2, <1>8, <2>2, <2>3 DEF Between, FiredSoFar
    <2>8. Len(timers') + Len(timersToCreate') <= MaxTimers'
        BY <1>1, <1>2, <2>1, <2>2, TimerBoundsAssumption
    <2> QED BY <2>4, <2>5, <2>6, <2>7, <2>8 DEF TimersInv
<1> QED BY <1>7, <1>8

\* As long as timers keep their places, keys and numbers.
LEMMA SameTimers ==
    ASSUME NEW s \in Seq(Timers), NEW r \in Seq(Timers), Len(r) = Len(s),
           \A i \in 1..Len(s) : r[i].key = s[i].key /\ r[i].id = s[i].id
    PROVE  /\ KeysIn(r) = KeysIn(s) /\ IdsIn(r) = IdsIn(s)
           /\ Distinct(s) => Distinct(r)
           /\ OwnIds(s) => OwnIds(r)
<1>1. DOMAIN r = DOMAIN s /\ \A i \in DOMAIN s : r[i].key = s[i].key /\ r[i].id = s[i].id
    OBVIOUS
<1>2. KeysIn(r) = KeysIn(s)
    BY <1>1 DEF KeysIn
<1>3. IdsIn(r) = IdsIn(s)
    BY <1>1 DEF IdsIn
<1>4. Distinct(s) => Distinct(r)
    BY <1>1, Zenon DEF Distinct
<1>5. OwnIds(s) => OwnIds(r)
    BY <1>1, Zenon DEF OwnIds
<1> QED BY <1>2, <1>3, <1>4, <1>5

\* Time that passes.
LEMMA Elapsing ==
    ASSUME TimersInv, Elapse
    PROVE  TimersInv'
<1>1. /\ timers \in Seq(Timers) /\ timersToCreate \in Seq(Timers) /\ TimersTypeOK
      /\ KeysApart /\ IdsApart /\ Between /\ FiredSoFar
    BY DEF TimersInv, TimersTypeOK
<1>2. running = 0 /\ UNCHANGED <<timersToCreate, timersToRemove, running, fired, shared>>
    BY DEF Elapse
<1>3. /\ timers' \in Seq(Timers) /\ Len(timers') = Len(timers)
      /\ \A i \in 1..Len(timers) : timers'[i].key = timers[i].key /\ timers'[i].id = timers[i].id
    <2> DEFINE size == Len(timers)
               later(t) == [t EXCEPT !.left = IF @ > 0 THEN @ - 1 ELSE 0]
    <2>1. size \in Nat /\ DOMAIN timers = 1..size /\ \A i \in 1..size : timers[i] \in Timers
        BY <1>1
    <2>2. \A t \in Timers : later(t) \in Timers /\ later(t).key = t.key /\ later(t).id = t.id
        BY DEF Timers
    <2>3. timers' = [i \in 1..size |-> later(timers[i])]
        BY <2>1 DEF Elapse
    <2> HIDE DEF size, later
    <2>4. timers' \in [1..size -> Timers]
        BY <2>1, <2>2, <2>3
    <2>5. \A i \in 1..size : timers'[i].key = timers[i].key /\ timers'[i].id = timers[i].id
        BY <2>1, <2>2, <2>3
    <2>6. timers' \in Seq(Timers) /\ Len(timers') = size
        BY <2>1, <2>4
    <2> QED BY <2>5, <2>6 DEF size
<1>4. /\ KeysIn(timers') = KeysIn(timers) /\ IdsIn(timers') = IdsIn(timers)
      /\ Distinct(timers) => Distinct(timers')
      /\ OwnIds(timers) => OwnIds(timers')
    BY <1>1, <1>3, SameTimers
<1>5. TimersTypeOK'
    <2>1. running' \in 0..Len(timers')
        BY <1>1, <1>2, <1>3
    <2> QED BY <1>1, <1>2, <1>3, <2>1 DEF TimersTypeOK
<1>6. KeysApart' /\ IdsApart' /\ Between'
    BY <1>1, <1>2, <1>4 DEF KeysApart, IdsApart, Between
<1>7. FiredSoFar'
    <2>1. fired = <<>> /\ IsInjective(fired)
        BY <1>1, <1>2 DEF Between, FiredSoFar
    <2> QED BY <1>2, <2>1 DEF FiredSoFar
<1>8. Len(timers') + Len(timersToCreate') <= MaxTimers'
    BY <1>2, <1>3 DEF TimersInv
<1> QED BY <1>5, <1>6, <1>7, <1>8 DEF TimersInv

\* The handler of the next timer that is due has not been called in this tick.
LEMMA Firing ==
    ASSUME TimersInv, NEW i \in NextDue(running), Fire(i)
    PROVE  TimersInv'
<1> DEFINE size == Len(timers)
           t == [timers[i] EXCEPT !.left = IF timers[i].once THEN 0 ELSE Period[timers[i].id]]
<1>1. /\ timers \in Seq(Timers) /\ timersToCreate \in Seq(Timers) /\ TimersTypeOK
      /\ timersToRemove \in Seq(TimerIds) /\ fired \in Seq(Keys)
      /\ KeysApart /\ IdsApart /\ Between /\ FiredSoFar
    BY DEF TimersInv, TimersTypeOK
<1>2. size \in Nat /\ DOMAIN timers = 1..size /\ running \in 0..size /\ \A j \in 1..size : timers[j] \in Timers
    BY <1>1 DEF TimersTypeOK
<1>3. /\ i \in 1..size /\ i > running /\ timers[i].left = 0
      /\ \A j \in running + 1..i - 1 : timers[j].left # 0
    <2>1. /\ i \in DOMAIN timers /\ i > running /\ Due(i) /\ \A k \in running + 1..i - 1 : ~Due(k)
        BY DEF NextDue
    <2>2. \A j \in running + 1..i - 1 : j \in 1..size
        BY <1>2, <2>1
    <2> QED BY <1>2, <2>1, <2>2 DEF Due
<1>4. /\ timers' = [timers EXCEPT ![i] = t]
      /\ timersToRemove' = IF timers[i].once THEN <<timers[i].id>> \o timersToRemove
                           ELSE timersToRemove
      /\ fired' = Append(fired, timers[i].key) /\ running' = i
      /\ timersToCreate' = timersToCreate /\ shared' = shared
    BY DEF Fire
<1>5. timers[i] \in Timers /\ timers[i].key \in Keys /\ timers[i].id \in TimerIds /\ timers[i].once \in BOOLEAN
    BY <1>2, <1>3 DEF Timers
<1>6. t \in Timers /\ t.key = timers[i].key /\ t.id = timers[i].id
    <2>1. Period[timers[i].id] \in Nat
        BY <1>5, PeriodsAssumption
    <2> QED BY <1>5, <2>1 DEF Timers
<1> HIDE DEF size, t
<1>7. /\ timers' \in Seq(Timers) /\ Len(timers') = size
      /\ timers'[i] = t /\ \A j \in 1..size : j # i => timers'[j] = timers[j]
    BY <1>1, <1>2, <1>3, <1>4, <1>6 DEF size
<1>8. \A j \in 1..size : timers'[j].key = timers[j].key /\ timers'[j].id = timers[j].id
    BY <1>6, <1>7
<1>9. /\ KeysIn(timers') = KeysIn(timers) /\ IdsIn(timers') = IdsIn(timers)
      /\ Distinct(timers) => Distinct(timers')
      /\ OwnIds(timers) => OwnIds(timers')
    BY <1>1, <1>7, <1>8, SameTimers DEF size
<1>10. KeysApart' /\ IdsApart'
    BY <1>1, <1>4, <1>9 DEF KeysApart, IdsApart
<1>11. Between'
    BY <1>3, <1>4 DEF Between
<1>12. TimersTypeOK'
    <2>1. timersToRemove' \in Seq(TimerIds)
        <3>1. <<timers[i].id>> \o timersToRemove \in Seq(TimerIds)
            BY <1>1, <1>5
        <3> QED BY <1>1, <1>4, <3>1
    <2>2. fired' \in Seq(Keys)
        BY <1>1, <1>4, <1>5
    <2>3. running' \in 0..Len(timers')
        BY <1>2, <1>3, <1>4, <1>7
    <2> QED BY <1>1, <1>4, <1>7, <2>1, <2>2, <2>3 DEF TimersTypeOK
<1> DEFINE m == Len(fired)
<1>13. /\ m \in Nat /\ DOMAIN fired = 1..m /\ DOMAIN fired' = 1..m + 1
       /\ \A k \in 1..m : fired'[k] = fired[k]
       /\ fired'[m + 1] = timers[i].key
    BY <1>1, <1>4, <1>5
<1> HIDE DEF m
<1>14. \A k \in 1..m : \E j \in 1..running : fired[k] = timers[j].key
    BY <1>1, <1>13 DEF FiredSoFar
<1>15. \A k \in 1..m : fired[k] # timers[i].key
    <2> SUFFICES ASSUME NEW k \in 1..m, fired[k] = timers[i].key PROVE FALSE
        OBVIOUS
    <2>1. PICK j \in 1..running : fired[k] = timers[j].key
        BY <1>14
    <2>2. j \in 1..size /\ j # i
        BY <1>2, <1>3
    <2> QED BY <1>1, <1>2, <1>3, <2>1, <2>2 DEF KeysApart, Distinct
<1>16. FiredSoFar'
    <2>1. IsInjective(fired')
        <3>1. \A a, b \in 1..m : fired[a] = fired[b] => a = b
            BY <1>1, <1>13 DEF FiredSoFar, IsInjective
        <3>2. \A a \in 1..m + 1 : a \in 1..m \/ a = m + 1
            BY <1>13
        <3>3. \A a, b \in 1..m + 1 : fired'[a] = fired'[b] => a = b
            BY <3>1, <3>2, <1>13, <1>15
        <3> QED BY <3>3, <1>13 DEF IsInjective
    <2>2. ASSUME NEW k \in DOMAIN fired' PROVE \E j \in 1..running' : fired'[k] = timers'[j].key
        <3>1. CASE k = m + 1
            <4>1. i \in 1..running' /\ i \in 1..size
                BY <1>3, <1>4
            <4> QED BY <3>1, <4>1, <1>13, <1>8
        <3>2. CASE k # m + 1
            <4>1. k \in 1..m
                BY <1>13, <3>2
            <4>2. PICK j \in 1..running : fired[k] = timers[j].key
                BY <1>14, <4>1
            <4>3. j \in 1..running' /\ j \in 1..size
                BY <1>2, <1>3, <1>4
            <4> QED BY <4>1, <4>2, <4>3, <1>8, <1>13
        <3> QED BY <3>1, <3>2
    <2>3. ASSUME NEW j \in 1..running', timers'[j].left = 0 PROVE timers'[j].key \in ToSet(fired')
        <3>1. \A k \in DOMAIN fired' : fired'[k] \in ToSet(fired')
            BY DEF ToSet
        <3>2. j \in 1..i /\ j \in 1..size /\ j \in Nat /\ i \in Nat /\ running \in Nat
            BY <1>2, <1>3, <1>4
        <3>3. CASE j = i
            BY <3>1, <3>3, <1>6, <1>7, <1>13
        <3>4. CASE j <= running
            <4>1. j \in 1..running /\ timers[j].left = 0 /\ timers'[j].key = timers[j].key
                BY <3>2, <3>4, <1>3, <1>7, <2>3
            <4>2. timers[j].key \in ToSet(fired)
                BY <4>1, <1>1 DEF FiredSoFar
            <4>3. PICK k \in 1..m : fired[k] = timers[j].key
                BY <4>2, <1>13 DEF ToSet
            <4>4. k \in DOMAIN fired' /\ fired'[k] = timers[j].key
                BY <4>3, <1>13
            <4> QED BY <3>1, <4>1, <4>4
        <3>5. CASE j > running /\ j # i
            <4>1. j \in running + 1..i - 1
                BY <3>2, <3>5
            <4> QED BY <4>1, <1>3, <1>7, <2>3, <3>2, <3>5
        <3> QED BY <3>2, <3>3, <3>4, <3>5
    <2> QED BY <2>1, <2>2, <2>3 DEF FiredSoFar
<1>17. Len(timers') + Len(timersToCreate') <= MaxTimers'
    BY <1>4, <1>7 DEF TimersInv, size
<1> QED BY <1>10, <1>11, <1>12, <1>16, <1>17 DEF TimersInv

\* Timers that are removed, outside the loop and in it.
LEMMA Taking ==
    ASSUME TimersInv, NEW id \in TimerIds, tmr_remove(id)
    PROVE  TimersInv'
<1>1. /\ timers \in Seq(Timers) /\ timersToCreate \in Seq(Timers) /\ TimersTypeOK
      /\ timersToRemove \in Seq(TimerIds)
      /\ KeysApart /\ IdsApart /\ Between /\ FiredSoFar
    BY DEF TimersInv, TimersTypeOK
<1>2. /\ timersToCreate' = timersToCreate /\ running' = running /\ fired' = fired /\ shared' = shared
      /\ IF running # 0 THEN timersToRemove' = <<id>> \o timersToRemove /\ timers' = timers
         ELSE timers' = Without(id)[timers] /\ timersToRemove' = timersToRemove
    BY DEF tmr_remove
<1>3. CASE running # 0
    <2>1. timersToRemove' \in Seq(TimerIds)
        <3>1. <<id>> \o timersToRemove \in Seq(TimerIds)
            BY <1>1
        <3> QED BY <1>2, <1>3, <3>1
    <2>2. TimersTypeOK'
        BY <1>1, <1>2, <1>3, <2>1 DEF TimersTypeOK
    <2>3. KeysApart' /\ IdsApart' /\ Between' /\ FiredSoFar'
        BY <1>1, <1>2, <1>3 DEF KeysApart, IdsApart, Between, FiredSoFar
    <2> QED BY <1>2, <1>3, <2>2, <2>3 DEF TimersInv
<1>4. CASE running = 0
    <2>1. Reduced(timers', timers)
        BY <1>1, <1>2, <1>4, RemovingFrom
    <2>2. /\ timers' \in Seq(Timers) /\ Len(timers') <= Len(timers)
          /\ Distinct(timers) => Distinct(timers')
          /\ OwnIds(timers) => OwnIds(timers')
        BY <2>1 DEF Reduced
    <2>3. KeysIn(timers') \subseteq KeysIn(timers) /\ IdsIn(timers') \subseteq IdsIn(timers)
        BY <2>1, ReducedHas
    <2>4. KeysApart' /\ IdsApart' /\ Between'
        BY <1>1, <1>2, <1>4, <2>2, <2>3 DEF KeysApart, IdsApart, Between
    <2>5. FiredSoFar'
        <3>1. fired = <<>> /\ IsInjective(fired)
            BY <1>1, <1>4 DEF Between, FiredSoFar
        <3> QED BY <1>2, <1>4, <3>1 DEF FiredSoFar
    <2>6. TimersTypeOK'
        <3>1. running' \in 0..Len(timers')
            BY <1>2, <1>4, <2>2
        <3> QED BY <1>1, <1>2, <1>4, <2>2, <3>1 DEF TimersTypeOK
    <2>7. Len(timers') + Len(timersToCreate') <= MaxTimers'
        <3>1. Len(timers') \in Nat /\ Len(timers) \in Nat /\ Len(timersToCreate) \in Nat
            BY <1>1, <2>2
        <3>2. Len(timers) + Len(timersToCreate) <= MaxTimers /\ MaxTimers \in Nat
            BY TimerBoundsAssumption DEF TimersInv
        <3>3. Len(timers') + Len(timersToCreate) <= MaxTimers
            BY <2>2, <3>1, <3>2
        <3> QED BY <1>2, <3>3
    <2> QED BY <2>4, <2>5, <2>6, <2>7 DEF TimersInv
<1> QED BY <1>3, <1>4

\* If the loop finds no other timer that is due, there is none.
LEMMA NoneDue ==
    ASSUME NEW i \in Nat, NextDue(i) = {}, timers \in Seq(Timers), NEW j \in DOMAIN timers, j > i
    PROVE  timers[j].left # 0
<1> DEFINE D == {k \in DOMAIN timers : k > i /\ Due(k)}
<1> SUFFICES ASSUME timers[j].left = 0 PROVE FALSE
    OBVIOUS
<1>1. \A k \in DOMAIN timers : k \in Nat
    OBVIOUS
<1>2. j \in D
    BY DEF Due
<1>3. PICK k \in D : \A l \in D : k <= l
    BY <1>1, <1>2, MinOfNaturals
<1>4. k \in DOMAIN timers /\ k > i /\ Due(k) /\ \A l \in DOMAIN timers : l > i /\ Due(l) => k <= l
    BY <1>3
<1>5. \A l \in i + 1..k - 1 : ~Due(l)
    BY <1>1, <1>4 DEF Due
<1> QED BY <1>4, <1>5 DEF NextDue

\* What the end of the loop leaves.
LEMMA Ending ==
    ASSUME TimersInv, EndTick
    PROVE  /\ TimersInv'
           /\ IsInjective(fired)
           /\ \A i \in DOMAIN timers : timers[i].left = 0 => timers[i].key \in ToSet(fired)
           /\ KeysIn(timersToCreate) \subseteq KeysIn(timers')
           /\ ~shared => \A i \in DOMAIN timers : timers[i].id \in ToSet(timersToRemove) =>
                 timers[i].key \notin KeysIn(timers')
<1> DEFINE r == WithoutAll(timersToRemove, timers)
<1>1. /\ timers \in Seq(Timers) /\ timersToCreate \in Seq(Timers) /\ TimersTypeOK
      /\ timersToRemove \in Seq(TimerIds) /\ running \in 0..Len(timers) /\ shared \in BOOLEAN
      /\ KeysApart /\ IdsApart /\ Between /\ FiredSoFar
    BY DEF TimersInv, TimersTypeOK
<1>2. /\ running # 0 /\ NextDue(running) = {}
      /\ timers' = r \o timersToCreate
      /\ timersToRemove' = <<>> /\ timersToCreate' = <<>>
      /\ running' = 0 /\ fired' = <<>> /\ shared' = shared
    BY DEF EndTick, Applied
<1>3. /\ Reduced(r, timers)
      /\ OwnIds(timers) => \A a \in DOMAIN r : r[a].id \notin ToSet(timersToRemove)
    BY <1>1, RemovingAll
<1> HIDE DEF r
<1>4. /\ r \in Seq(Timers) /\ Len(r) <= Len(timers)
      /\ \A a \in DOMAIN r : \E b \in DOMAIN timers : r[a] = timers[b]
      /\ Distinct(timers) => Distinct(r)
      /\ OwnIds(timers) => OwnIds(r)
    BY <1>3 DEF Reduced
<1>5. KeysIn(r) \subseteq KeysIn(timers) /\ IdsIn(r) \subseteq IdsIn(timers)
    BY <1>3, ReducedHas
<1>6. /\ timers' \in Seq(Timers) /\ Len(timers') = Len(r) + Len(timersToCreate)
      /\ KeysIn(timers') = KeysIn(r) \cup KeysIn(timersToCreate)
      /\ IdsIn(timers') = IdsIn(r) \cup IdsIn(timersToCreate)
      /\ Distinct(r) /\ Distinct(timersToCreate) /\ KeysIn(r) \cap KeysIn(timersToCreate) = {} => Distinct(timers')
      /\ OwnIds(r) /\ OwnIds(timersToCreate) /\ IdsIn(r) \cap IdsIn(timersToCreate) = {} => OwnIds(timers')
    <2> DEFINE q == timers'
    <2>1. q = r \o timersToCreate
        BY <1>2
    <2> HIDE DEF q
    <2>3. r \in Seq(Timers) /\ timersToCreate \in Seq(Timers)
        BY <1>1, <1>4
    <2>2. /\ q \in Seq(Timers) /\ Len(q) = Len(r) + Len(timersToCreate)
          /\ KeysIn(q) = KeysIn(r) \cup KeysIn(timersToCreate) /\ IdsIn(q) = IdsIn(r) \cup IdsIn(timersToCreate)
          /\ Distinct(r) /\ Distinct(timersToCreate) /\ KeysIn(r) \cap KeysIn(timersToCreate) = {} => Distinct(q)
          /\ OwnIds(r) /\ OwnIds(timersToCreate) /\ IdsIn(r) \cap IdsIn(timersToCreate) = {} => OwnIds(q)
        BY <2>1, <2>3, Joined, Zenon
    <2> QED BY <2>2 DEF q
<1>7. KeysApart'
    <2>1. Distinct(<<>>) /\ KeysIn(<<>>) = {}
        BY DEF Distinct, KeysIn
    <2>2. Distinct(timers')
        BY <1>1, <1>4, <1>5, <1>6 DEF KeysApart
    <2> QED BY <1>2, <2>1, <2>2 DEF KeysApart
<1>8. IdsApart'
    <2>1. OwnIds(<<>>) /\ IdsIn(<<>>) = {}
        BY DEF OwnIds, IdsIn
    <2>2. ASSUME ~shared PROVE OwnIds(timers')
        BY <1>1, <1>4, <1>5, <1>6, <2>2 DEF IdsApart
    <2> QED BY <1>2, <2>1, <2>2 DEF IdsApart
<1>9. IsInjective(<<>>)
    BY DEF IsInjective
<1>10. Between' /\ FiredSoFar'
    BY <1>2, <1>9 DEF Between, FiredSoFar
<1>11. TimersTypeOK'
    <2>1. running' \in 0..Len(timers')
        BY <1>2, <1>6
    <2>2. <<>> \in Seq(Timers) /\ <<>> \in Seq(TimerIds) /\ <<>> \in Seq(Keys)
        OBVIOUS
    <2> QED BY <1>1, <1>2, <1>6, <2>1, <2>2 DEF TimersTypeOK
<1>12. Len(timers') + Len(timersToCreate') <= MaxTimers'
    <2>1. Len(timers) \in Nat /\ Len(r) \in Nat /\ Len(timersToCreate) \in Nat /\ Len(<<>>) = 0
        BY <1>1, <1>4
    <2>2. Len(timers) + Len(timersToCreate) <= MaxTimers /\ MaxTimers \in Nat
        BY TimerBoundsAssumption DEF TimersInv
    <2>3. Len(r) + Len(timersToCreate) + 0 <= MaxTimers
        BY <1>4, <2>1, <2>2
    <2> QED BY <1>2, <1>6, <2>1, <2>3
<1>13. ASSUME NEW i \in DOMAIN timers, timers[i].left = 0 PROVE timers[i].key \in ToSet(fired)
    <2>1. i \in Nat /\ i >= 1 /\ running \in Nat
        BY <1>1
    <2>2. ~(i > running)
        BY <1>1, <1>2, <1>13, <2>1, NoneDue
    <2>3. i \in 1..running
        BY <2>1, <2>2
    <2> QED BY <1>1, <1>13, <2>3 DEF FiredSoFar
<1>14. ASSUME ~shared, NEW i \in DOMAIN timers, timers[i].id \in ToSet(timersToRemove),
              timers[i].key \in KeysIn(timers')
       PROVE  FALSE
    <2>1. timers[i].key \in KeysIn(timers)
        BY DEF KeysIn
    <2>2. timers[i].key \in KeysIn(r)
        BY <1>1, <1>6, <1>14, <2>1 DEF KeysApart
    <2>3. PICK a \in DOMAIN r : r[a].key = timers[i].key
        BY <2>2 DEF KeysIn
    <2>4. PICK b \in DOMAIN timers : r[a] = timers[b]
        BY <1>4
    <2>5. b = i
        BY <1>1, <2>3, <2>4 DEF KeysApart, Distinct
    <2> QED BY <1>1, <1>3, <1>14, <2>4, <2>5 DEF IdsApart
<1>15. KeysIn(timersToCreate) \subseteq KeysIn(timers') /\ IsInjective(fired)
    BY <1>1, <1>6 DEF FiredSoFar
<1>16. TimersInv'
    BY <1>7, <1>8, <1>10, <1>11, <1>12 DEF TimersInv
<1>17. ~shared => \A i \in DOMAIN timers : timers[i].id \in ToSet(timersToRemove) =>
           timers[i].key \notin KeysIn(timers')
    BY <1>14
<1> QED BY <1>13, <1>15, <1>16, <1>17

LEMMA TimersBegin == TimersInit => TimersInv
<1> SUFFICES ASSUME TimersInit PROVE TimersInv
    OBVIOUS
<1>1. /\ timers = <<>> /\ timersToCreate = <<>> /\ timersToRemove = <<>>
      /\ running = 0 /\ fired = <<>> /\ shared = FALSE
    BY DEF TimersInit
<1>2. /\ <<>> \in Seq(Timers) /\ <<>> \in Seq(TimerIds) /\ <<>> \in Seq(Keys) /\ Len(<<>>) = 0
      /\ Distinct(<<>>) /\ OwnIds(<<>>) /\ KeysIn(<<>>) = {} /\ IdsIn(<<>>) = {} /\ IsInjective(<<>>)
    BY DEF Distinct, OwnIds, KeysIn, IdsIn, IsInjective
<1>3. TimersTypeOK
    <2>1. 0 \in 0..Len(<<>>) /\ FALSE \in BOOLEAN
        BY <1>2
    <2> QED BY <1>1, <1>2, <2>1, Zenon DEF TimersTypeOK
<1>5. Len(timers) + Len(timersToCreate) <= MaxTimers
    BY <1>1, <1>2, TimerBoundsAssumption
<1>4. KeysApart /\ IdsApart /\ Between /\ FiredSoFar
    BY <1>1, <1>2 DEF KeysApart, IdsApart, Between, FiredSoFar
<1> QED BY <1>3, <1>4, <1>5 DEF TimersInv

LEMMA Reloading ==
    ASSUME TimersInv, Reload
    PROVE  TimersInv'
<1>1. /\ timers' = <<>> /\ timersToCreate' = <<>> /\ timersToRemove' = <<>>
      /\ running' = 0 /\ fired' = <<>> /\ shared' = FALSE
    BY DEF TimersInv, Between, Reload
<1>2. /\ <<>> \in Seq(Timers) /\ <<>> \in Seq(TimerIds) /\ <<>> \in Seq(Keys) /\ Len(<<>>) = 0
      /\ Distinct(<<>>) /\ OwnIds(<<>>) /\ KeysIn(<<>>) = {} /\ IdsIn(<<>>) = {} /\ IsInjective(<<>>)
    BY DEF Distinct, OwnIds, KeysIn, IdsIn, IsInjective
<1>3. TimersTypeOK'
    <2>1. 0 \in 0..Len(<<>>) /\ FALSE \in BOOLEAN
        BY <1>2
    <2> QED BY <1>1, <1>2, <2>1, Zenon DEF TimersTypeOK
<1>5. Len(timers') + Len(timersToCreate') <= MaxTimers'
    BY <1>1, <1>2, TimerBoundsAssumption
<1>4. KeysApart' /\ IdsApart' /\ Between' /\ FiredSoFar'
    BY <1>1, <1>2 DEF KeysApart, IdsApart, Between, FiredSoFar
<1> QED BY <1>3, <1>4, <1>5 DEF TimersInv

LEMMA TimersInvariance == TimersInv /\ [TimersNext]_timerVars => TimersInv'
<1> SUFFICES ASSUME TimersInv, [TimersNext]_timerVars PROVE TimersInv'
    OBVIOUS
<1>1. CASE Elapse
    BY <1>1, Elapsing
<1>2. CASE BeginTick
    <2>1. PICK i \in NextDue(running) : Fire(i)
        BY <1>2 DEF BeginTick
    <2> QED BY <2>1, Firing
<1>3. CASE NextTimer
    <2>1. PICK i \in NextDue(running) : Fire(i)
        BY <1>3 DEF NextTimer
    <2> QED BY <2>1, Firing
<1>4. CASE EndTick
    BY <1>4, Ending
<1>5. CASE Reload
    BY <1>5, Reloading
<1>6. ASSUME NEW id \in TimerIds, tmr_remove(id) PROVE TimersInv'
    BY <1>6, Taking
<1>7. ASSUME NEW id \in TimerIds, NEW once \in BOOLEAN, tmr_create(id, once) PROVE TimersInv'
    BY <1>7, Creating
<1>8. CASE UNCHANGED timerVars
    <2>1. /\ timers' = timers /\ timersToCreate' = timersToCreate /\ timersToRemove' = timersToRemove
          /\ running' = running /\ fired' = fired /\ shared' = shared
        BY <1>8 DEF timerVars
    <2>2. TimersTypeOK' /\ KeysApart' /\ IdsApart'
        BY <2>1, Zenon DEF TimersInv, TimersTypeOK, KeysApart, IdsApart
    <2>3. Between' /\ FiredSoFar'
        BY <2>1, Zenon DEF TimersInv, Between, FiredSoFar
    <2>4. Len(timers') + Len(timersToCreate') <= MaxTimers'
        BY <2>1 DEF TimersInv
    <2> QED BY <2>2, <2>3, <2>4 DEF TimersInv
<1> QED BY <1>1, <1>2, <1>3, <1>4, <1>5, <1>6, <1>7, <1>8 DEF TimersNext

LEMMA TimersInvariant == TimersSpec => []TimersInv
BY TimersBegin, TimersInvariance, PTL DEF TimersSpec

\* The timers and the two lists of tmr_tick stay arrays of timers, whatever handlers do to them while
\* the loop runs.
THEOREM TimersTypeCorrect == TimersSpec => []TimersTypeOK
<1>1. TimersInv => TimersTypeOK
    BY DEF TimersInv
<1> QED BY <1>1, TimersInvariant, PTL

\* TickIsWhole: a tick of tmr_tick fires each timer that was due once, and what its handlers created and
\* removed takes effect when it is over.
THEOREM TicksAreWhole == TimersSpec => TickIsWhole
<1>1. TimersInv /\ [TimersNext]_timerVars =>
          [EndTick =>
             /\ IsInjective(fired)
             /\ \A i \in DOMAIN timers : timers[i].left = 0 => timers[i].key \in ToSet(fired)
             /\ KeysIn(timersToCreate) \subseteq KeysIn(timers')
             /\ ~shared => \A i \in DOMAIN timers : timers[i].id \in ToSet(timersToRemove) =>
                   timers[i].key \notin KeysIn(timers')]_timerVars
    BY Ending
<1> QED BY <1>1, TimersInvariant, PTL DEF TimersSpec, TickIsWhole

-----------------------------------------------------------------------------
(***************************************************************************)
(* Why a timer that is to fire once leaves the array (the part of OnceEnds *)
(* that is not about fairness).  The removal by number may take another    *)
(* timer in its place, and move it to where the walk has been; but it      *)
(* never moves a timer up, and one that has fired does not stay where it   *)
(* was.  Its place is finite, and it is due in each later tick.            *)
(***************************************************************************)

\* While the loop runs, the numbers of the once-timers it has fired wait to be removed.
Listed ==
    \A k \in 1..running : timers[k].once /\ timers[k].left = 0 => timers[k].id \in ToSet(timersToRemove)

LEMMA ListedFirst ==
    ASSUME NEW s \in Seq(TimerIds), NEW id \in TimerIds
    PROVE  ToSet(<<id>> \o s) = {id} \cup ToSet(s)
<1> DEFINE q == <<id>> \o s
<1>1. Len(q) = Len(s) + 1 /\ q[1] = id /\ \A i \in 1..Len(s) : q[i + 1] = s[i]
    OBVIOUS
<1>2. q \in Seq(TimerIds) /\ Len(s) \in Nat
    OBVIOUS
<1>3. \A j \in 1..Len(q) : j = 1 \/ (j - 1 \in 1..Len(s) /\ q[j] = s[j - 1])
    BY <1>1, <1>2
<1>4. \A i \in 1..Len(s) : i + 1 \in 1..Len(q)
    BY <1>1, <1>2
<1>5. 1 \in 1..Len(q) /\ DOMAIN q = 1..Len(q) /\ DOMAIN s = 1..Len(s)
    BY <1>1, <1>2
<1> HIDE DEF q
<1>6. ToSet(q) = {id} \cup ToSet(s)
    BY <1>1, <1>3, <1>4, <1>5 DEF ToSet
<1> QED BY <1>6 DEF q

\* The loop steps over no timer that is due.
LEMMA FiringLists ==
    ASSUME TimersInv, Listed, NEW i \in NextDue(running), Fire(i)
    PROVE  Listed'
<1>1. /\ timers \in Seq(Timers) /\ timersToRemove \in Seq(TimerIds) /\ running \in Nat
      /\ i \in DOMAIN timers /\ i \in Nat /\ \A k \in running + 1..i - 1 : k \in DOMAIN timers /\ timers[k].left # 0
    BY DEF TimersInv, TimersTypeOK, NextDue, Due
<1>2. /\ \A k \in DOMAIN timers : k # i => timers'[k] = timers[k]
      /\ timers'[i].id = timers[i].id /\ timers'[i].once = timers[i].once /\ timers[i].id \in TimerIds
      /\ timersToRemove' = IF timers[i].once THEN <<timers[i].id>> \o timersToRemove ELSE timersToRemove
      /\ running' = i
    <2>1. timers[i] \in Timers /\ timers' = [timers EXCEPT ![i].left = IF timers[i].once THEN 0 ELSE Period[timers[i].id]]
        BY <1>1 DEF Fire
    <2>2. \A k \in DOMAIN timers : k # i => timers'[k] = timers[k]
        BY <1>1, <2>1
    <2>3. timers'[i] = [timers[i] EXCEPT !.left = IF timers[i].once THEN 0 ELSE Period[timers[i].id]]
        BY <1>1, <2>1
    <2>4. timers'[i].id = timers[i].id /\ timers'[i].once = timers[i].once /\ timers[i].id \in TimerIds
        BY <2>1, <2>3 DEF Timers
    <2> QED BY <2>2, <2>4 DEF Fire
<1>3. /\ ToSet(timersToRemove) \subseteq ToSet(timersToRemove')
      /\ timers[i].once => timers[i].id \in ToSet(timersToRemove')
    BY <1>1, <1>2, ListedFirst
<1>4. ASSUME NEW k \in 1..i, timers'[k].once, timers'[k].left = 0 PROVE timers'[k].id \in ToSet(timersToRemove')
    <2>1. k \in DOMAIN timers
        BY <1>1
    <2>2. CASE k = i
        BY <1>2, <1>3, <1>4, <2>2
    <2>3. CASE k # i
        <3>1. timers'[k] = timers[k] /\ k \in 1..running
            BY <1>1, <1>2, <1>4, <2>1, <2>3
        <3> QED BY <1>3, <1>4, <3>1 DEF Listed
    <2> QED BY <2>2, <2>3
<1> QED BY <1>2, <1>4 DEF Listed

LEMMA ListedInvariance == TimersInv /\ Listed /\ [TimersNext]_timerVars => Listed'
<1> SUFFICES ASSUME TimersInv, Listed, [TimersNext]_timerVars PROVE Listed'
    OBVIOUS
<1>1. CASE BeginTick \/ NextTimer
    BY <1>1, FiringLists DEF BeginTick, NextTimer
<1>2. CASE EndTick \/ Reload \/ Elapse
    <2>1. running' = 0
        BY <1>2 DEF EndTick, Reload, Elapse
    <2> QED BY <2>1 DEF Listed
<1>3. CASE running = 0 /\ \E id \in TimerIds : tmr_remove(id) \/ \E once \in BOOLEAN : tmr_create(id, once)
    <2>1. running' = 0
        BY <1>3 DEF tmr_remove, tmr_create
    <2> QED BY <2>1 DEF Listed
<1>4. ASSUME running # 0, NEW id \in TimerIds, NEW once \in BOOLEAN, tmr_create(id, once) PROVE Listed'
    BY <1>4 DEF tmr_create, Listed
<1>5. ASSUME running # 0, NEW id \in TimerIds, tmr_remove(id) PROVE Listed'
    <2>1. /\ timers' = timers /\ running' = running /\ timersToRemove' = <<id>> \o timersToRemove
          /\ timersToRemove \in Seq(TimerIds)
        BY <1>5 DEF tmr_remove, TimersInv, TimersTypeOK
    <2>2. ToSet(timersToRemove) \subseteq ToSet(timersToRemove')
        BY <2>1, ListedFirst
    <2> QED BY <2>1, <2>2 DEF Listed
<1>6. CASE UNCHANGED timerVars
    BY <1>6 DEF timerVars, Listed
<1> QED BY <1>1, <1>2, <1>3, <1>4, <1>5, <1>6 DEF TimersNext

\* No timer of the array is moved up, and what has fired and is to fire once moves down, or is gone.
Sinking ==
    \A a \in DOMAIN timers', b \in DOMAIN timers : timers'[a].key = timers[b].key =>
        a <= b /\ (EndTick /\ timers[b].once /\ timers[b].left = 0 => a < b)

LEMMA EndTickSinks ==
    ASSUME TimersInv, Listed, EndTick
    PROVE  Sinking
<1> DEFINE r == WithoutAll(timersToRemove, timers)
           q == timers'
<1> SUFFICES ASSUME NEW a \in DOMAIN q, NEW b \in DOMAIN timers, q[a].key = timers[b].key
             PROVE  a <= b /\ (timers[b].once /\ timers[b].left = 0 => a < b)
    BY DEF Sinking
<1>1. /\ timers \in Seq(Timers) /\ timersToCreate \in Seq(Timers) /\ timersToRemove \in Seq(TimerIds)
      /\ running \in Nat /\ KeysApart
      /\ NextDue(running) = {} /\ q = r \o timersToCreate
    BY DEF TimersInv, TimersTypeOK, EndTick, Applied
<1>2. Reduced(r, timers) /\ Sinks(r, timers, ToSet(timersToRemove))
    BY <1>1, RemovingAll
<1> HIDE DEF r, q
<1>3. r \in Seq(Timers)
    BY <1>2 DEF Reduced
<1>4. a \in DOMAIN r /\ q[a] = r[a]
    <2>1. a \in 1..Len(r) + Len(timersToCreate)
        BY <1>1, <1>3
    <2>2. CASE a \in 1..Len(r)
        BY <1>1, <1>3, <2>2
    <2>3. CASE a \notin 1..Len(r)
        <3>1. a - Len(r) \in DOMAIN timersToCreate /\ q[a] = timersToCreate[a - Len(r)]
            BY <1>1, <1>3, <2>1, <2>3
        <3>2. q[a].key \in KeysIn(timersToCreate) /\ q[a].key \in KeysIn(timers)
            BY <3>1 DEF KeysIn
        <3> QED BY <1>1, <3>2 DEF KeysApart
    <2> QED BY <2>2, <2>3
<1>5. a <= b /\ (timers[b].id \in ToSet(timersToRemove) => a < b)
    BY <1>1, <1>2, <1>4 DEF Sinks, KeysApart
<1>6. timers[b].once /\ timers[b].left = 0 => timers[b].id \in ToSet(timersToRemove)
    <2>1. b \in Nat /\ b >= 1
        BY <1>1
    <2>2. b > running => timers[b].left # 0
        BY <1>1, <2>1, NoneDue
    <2> QED BY <1>1, <2>1, <2>2 DEF Listed
<1> QED BY <1>5, <1>6

LEMMA StepsSink == TimersInv /\ Listed /\ [TimersNext]_timerVars => [Sinking]_timerVars
<1> SUFFICES ASSUME TimersInv, Listed, TimersNext PROVE Sinking
    OBVIOUS
<1>1. timers \in Seq(Timers) /\ Distinct(timers)
    BY DEF TimersInv, TimersTypeOK, KeysApart
<1>2. \A b \in DOMAIN timers : b \in Nat
    BY <1>1
<1>3. ASSUME DOMAIN timers' = DOMAIN timers, \A b \in DOMAIN timers : timers'[b].key = timers[b].key, ~EndTick
      PROVE  Sinking
    BY <1>1, <1>2, <1>3 DEF Sinking, Distinct
<1>4. CASE Elapse
    <2>1. running = 0 /\ \A b \in DOMAIN timers : timers[b] \in Timers
        BY <1>1, <1>4 DEF Elapse
    <2>2. DOMAIN timers' = DOMAIN timers /\ \A b \in DOMAIN timers : timers'[b].key = timers[b].key
        BY <1>4, <2>1 DEF Elapse, Timers
    <2> QED BY <1>3, <2>1, <2>2 DEF EndTick
<1>5. ASSUME NEW i \in NextDue(running), Fire(i) PROVE Sinking
    <2>1. i \in DOMAIN timers /\ timers[i] \in Timers /\ running' # 0
        BY <1>1, <1>2, <1>5 DEF NextDue, Fire
    <2>2. DOMAIN timers' = DOMAIN timers /\ \A b \in DOMAIN timers : timers'[b].key = timers[b].key
        BY <1>5, <2>1 DEF Fire, Timers
    <2> QED BY <1>3, <2>1, <2>2 DEF EndTick
<1>6. CASE EndTick
    BY <1>6, EndTickSinks
<1>7. CASE Reload
    BY <1>7 DEF Reload, Sinking
<1>8. ASSUME NEW id \in TimerIds, tmr_remove(id) PROVE Sinking
    <2>1. CASE running # 0
        <3>1. timers' = timers /\ running' # 0
            BY <1>8, <2>1 DEF tmr_remove
        <3> QED BY <1>3, <3>1 DEF EndTick
    <2>2. CASE running = 0
        <3>1. Sinks(timers', timers, {id}) /\ ~EndTick
            BY <1>1, <1>8, <2>2, RemovingFrom DEF tmr_remove, EndTick
        <3> QED BY <1>1, <3>1 DEF Sinks, Sinking
    <2> QED BY <2>1, <2>2
<1>9. ASSUME NEW id \in TimerIds, NEW once \in BOOLEAN, tmr_create(id, once) PROVE Sinking
    <2>1. CASE running # 0
        <3>1. timers' = timers /\ running' # 0
            BY <1>9, <2>1 DEF tmr_create
        <3> QED BY <1>3, <3>1 DEF EndTick
    <2>2. CASE running = 0
        <3> DEFINE key == CHOOSE k \in Keys : k \notin KeysIn(timers) \cup KeysIn(timersToCreate)
                   t == [key |-> key, id |-> id, once |-> once, left |-> Period[id]]
        <3>1. timers' = Append(timers, t) /\ ~EndTick
            BY <1>9, <2>2 DEF tmr_create, EndTick
        <3>2. key \notin KeysIn(timers)
            <4>1. \E k \in Keys : k \notin KeysIn(timers) \cup KeysIn(timersToCreate)
                BY <1>9, FreshKey DEF tmr_create, TimersInv, TimersTypeOK
            <4> QED BY <4>1
        <3>3. t.key = key
            OBVIOUS
        <3> HIDE DEF t, key
        <3>4. \A a \in DOMAIN timers' : IF a \in DOMAIN timers THEN timers'[a] = timers[a] ELSE timers'[a] = t
            BY <1>1, <3>1
        <3>5. \A b \in DOMAIN timers : timers[b].key # key
            BY <3>2 DEF KeysIn
        <3> QED BY <1>1, <1>2, <3>1, <3>3, <3>4, <3>5 DEF Sinking, Distinct
    <2> QED BY <2>1, <2>2
<1> QED BY <1>4, <1>5, <1>6, <1>7, <1>8, <1>9 DEF TimersNext, BeginTick, NextTimer

\* Nothing moves a timer up the array; and when a tick is over, each timer that was to fire once and has fired is
\* gone, or stands lower than before, whatever others with its number the removal has taken in its place.
THEOREM OnceTimersSink == TimersSpec => [][Sinking]_timerVars
<1>1. TimersInit => Listed
    BY DEF TimersInit, Listed
<1>2. TimersSpec => []Listed
    BY <1>1, ListedInvariance, TimersInvariant, PTL DEF TimersSpec
<1> QED BY <1>2, StepsSink, TimersInvariant, PTL DEF TimersSpec

-----------------------------------------------------------------------------
(***************************************************************************)
(* THE SLICE: the composition does what its parts do.                      *)
(***************************************************************************)

\* What MCSlice lets happen is, for the variables of each part, what that part's specification allows, so
\* the theorems above are about the composition, too.
THEOREM SliceIsItsParts == FairSpec => TimersSpec /\ ArenaSpec /\ CycleSpec /\ GunsSpec
<1>1. Init => TimersInit /\ ArenaInit /\ CycleInit /\ GunsInit
    BY DEF Init
<1>2. [Next]_vars => [TimersNext]_timerVars
    BY DEF Next, vars, TimersStep, ArenaStep, CycleStep, GunsStep
<1>3. [Next]_vars => [ArenaNext]_arenaVars
    BY DEF Next, vars, TimersStep, ArenaStep, CycleStep, GunsStep
<1>4. [Next]_vars => [CycleNext]_cycleVars
    BY DEF Next, vars, TimersStep, ArenaStep, CycleStep, GunsStep
<1>5. [Next]_vars => [GunsNext]_gunVars
    BY DEF Next, vars, TimersStep, ArenaStep, CycleStep, GunsStep
<1> QED BY <1>1, <1>2, <1>3, <1>4, <1>5, PTL DEF FairSpec, TimersSpec, ArenaSpec, CycleSpec, GunsSpec

\* The variables of the part of the slice that runs are well-typed.
THEOREM SliceTypeCorrect == FairSpec => []SliceTypeOK
<1>1. Init => part \in Parts
    BY DEF Init
<1>2. part \in Parts /\ [Next]_vars => (part \in Parts)'
    BY DEF Next, vars, TimersStep, ArenaStep, CycleStep, GunsStep
<1>3. FairSpec => [](part \in Parts)
    BY <1>1, <1>2, PTL DEF FairSpec
<1>4. part \in Parts /\ TimersTypeOK /\ RoundTypeOK /\ CycleTypeOK /\ GunsTypeOK => SliceTypeOK
    BY Zenon DEF Parts, SliceTypeOK
<1> QED
    BY <1>3, <1>4, SliceIsItsParts, TimersTypeCorrect, RoundTypeCorrect, CycleTypeCorrect, WaitsTypeCorrect, PTL
=============================================================================
