------------------------------- MODULE Arena -------------------------------
(***************************************************************************)
(* The rounds of the arena modes (survivor, last swiss standing, one shot  *)
(* one kill, and their team variants; server.cpp).  Who dies waits for the *)
(* next round.  arenacheck, once a slice, ends the round when only one     *)
(* side is left, and starts the next five seconds later by giving every    *)
(* player a spawn state, which the client answers with SV_SPAWN.  Joining, *)
(* loading the map, changing teams, fetching the map, and the start of a   *)
(* game all change who takes part.  Mastermode is open, autoteam off; the  *)
(* bots of a local server are left out.                                    *)
(***************************************************************************)
EXTENDS Naturals, FiniteSets

CONSTANT Players       \* the indices of clients

VARIABLES
    player,       \* per client, what arenacheck looks at
    m_teammode,   \* do the players of a team win together
    arenaround,   \* "fought" (0 in the code), "won" until five seconds later it is "due"
    interm        \* intermission

arenaVars == <<player, m_teammode, arenaround, interm>>

ActiveTeams == {"cla", "rvsf"}

\* lastspawn: a spawn state was sent and not answered (lastspawn >= 0); recent: lastdeath is less than
\* half a second ago.  lived (history): a spawn state was given in this round.
PlayerStates ==
    [is : {"empty", "connected", "authed"}, team : ActiveTeams \cup {"spect"},
     state : {"alive", "dead", "spectate"}, isonrightmap : BOOLEAN, freshgame : BOOLEAN,
     lastspawn : BOOLEAN, recent : BOOLEAN, lived : BOOLEAN]

team_isspectator(p) == p.team = "spect"
numclients == Cardinality({c \in Players : player[c].is # "empty"})
Active(c) == player[c].is = "authed" /\ player[c].isonrightmap /\ player[c].team \in ActiveTeams

\* Nobody who watches has a life, or one ahead.
RoundTypeOK ==
    /\ player \in [Players -> PlayerStates]
    /\ m_teammode \in BOOLEAN /\ interm \in BOOLEAN
    /\ arenaround \in {"fought", "won", "due"}
    /\ \A c \in Players : team_isspectator(player[c]) => player[c].state # "alive" /\ ~player[c].lastspawn

\* How arenacheck counts: those alive, and those whose wait is a reason to end the round.
Alive(c) == Active(c) /\ player[c].state = "alive"
Waits_Bug(c) == Active(c) /\ ~player[c].lastspawn /\ player[c].state = "dead"
Waits(c) == Active(c) /\ ~player[c].lastspawn /\ player[c].state \in {"dead", "spectate"}
TwoSides ==
    \E c, d \in Players : /\ c # d /\ Alive(c) /\ Alive(d)
                          /\ m_teammode => player[c].team # player[d].team

-----------------------------------------------------------------------------
(* clientstate and the functions that spawn and kill.                      *)

Respawned(p) == [p EXCEPT !.lastspawn = FALSE, !.recent = FALSE]
forcedeath(p) == [Respawned(p) EXCEPT !.state = "dead"]

sendspawn(p) ==
    IF team_isspectator(p) THEN p
    ELSE [Respawned(p) EXCEPT !.lastspawn = TRUE, !.lived = TRUE]

\* client::mapchange; getmap leaves the permission to spawn at once as it was.
mapchange(p, getmap) ==
    [Respawned(p) EXCEPT !.state = "dead", !.isonrightmap = FALSE, !.freshgame = IF getmap THEN @ ELSE TRUE]

\* updateclientteam, after the wish was accepted: the spawn state is for the old team, so one who watched
\* gets none.
updateclientteam_Bug(p, team) ==
    LET q == IF team = "spect" \/ ~team_isspectator(p) THEN forcedeath(p) ELSE p
        r == [q EXCEPT !.team = team]
        s == IF team # "spect" /\ team_isspectator(p) THEN sendspawn(r) ELSE r
    IN IF team = "spect" THEN [s EXCEPT !.state = "spectate"] ELSE s
updateclientteam(p, team) ==
    LET q == IF team = "spect" \/ ~team_isspectator(p) THEN forcedeath(p) ELSE p
        r == IF team # "spect" /\ team_isspectator(p) THEN sendspawn(q) ELSE q
    IN [r EXCEPT !.team = team, !.state = IF team = "spect" THEN "spectate" ELSE @]

-----------------------------------------------------------------------------
Nobody == [is |-> "empty", team |-> "spect", state |-> "dead", isonrightmap |-> FALSE,
           freshgame |-> FALSE, lastspawn |-> FALSE, recent |-> FALSE, lived |-> FALSE]

ArenaInit ==
    /\ player = [c \in Players |-> Nobody]
    /\ m_teammode \in BOOLEAN
    /\ arenaround = "fought" /\ interm = FALSE

Becomes(c, p) == player' = [player EXCEPT ![c] = p]
Same == UNCHANGED <<m_teammode, arenaround, interm>>

\* A client connects (reset), and later is let in (sendwelcome puts it among the spectators).
Enter(c) ==
    /\ player[c].is = "empty"
    /\ Becomes(c, [Nobody EXCEPT !.is = "connected", !.state = "spectate"]) /\ Same
Join(c) ==
    /\ player[c].is = "connected"
    /\ Becomes(c, [player[c] EXCEPT !.is = "authed", !.team = "spect"]) /\ Same

\* disconnect_client.
Leave(c) == player[c].is # "empty" /\ Becomes(c, Nobody) /\ Same

\* SV_MAPIDENT: who has the right map is spawned if the game is fresh or nobody else is there.
MapIdent(c) ==
    /\ player[c].is = "authed"
    /\ LET p == [player[c] EXCEPT !.isonrightmap = TRUE, !.freshgame = FALSE]
       IN IF team_isspectator(p)
          THEN IF numclients < 2 THEN \E team \in ActiveTeams : Becomes(c, sendspawn([p EXCEPT !.team = team]))
                                 ELSE Becomes(c, p)
          ELSE Becomes(c, IF player[c].freshgame \/ numclients < 2 THEN sendspawn(p) ELSE p)
    /\ Same
WrongMap(c) == player[c].is = "authed" /\ Becomes(c, forcedeath(player[c])) /\ Same

\* SV_SWITCHTEAM, and SV_TRYSPAWN of one who watches; the server may refuse more than is said here.
SwitchTeam(c, team) ==
    /\ player[c].is = "authed" /\ player[c].team # team
    /\ team \in ActiveTeams /\ ~m_teammode => player[c].state # "alive"
    /\ Becomes(c, updateclientteam(player[c], team)) /\ Same

\* A vote forces a team, or teams are balanced: this may force a player to where it is.
ForceTeam(c, team) ==
    /\ player[c].is = "authed"
    /\ player[c].team # team \/ Active(c)
    /\ Becomes(c, updateclientteam(player[c], team)) /\ Same

\* SV_SPAWN with the lifesequence of the spawn state sent last.
Spawn(c) ==
    /\ player[c].is = "authed" /\ player[c].lastspawn
    /\ Becomes(c, [player[c] EXCEPT !.lastspawn = FALSE, !.state = "alive"]) /\ Same

\* serverdamage: shots hit the living; a suicide is not even asked for that.
Die(c) ==
    /\ player[c].is = "authed"
    /\ Becomes(c, [player[c] EXCEPT !.state = "dead", !.recent = TRUE]) /\ Same

\* SV_RECVMAP.
FetchMap(c) ==
    /\ player[c].is = "authed"
    /\ Becomes(c, [mapchange(player[c], TRUE) EXCEPT !.team = "spect"]) /\ Same

\* startgame: everybody is dead and may spawn at once; teams may be shuffled.
StartGame ==
    /\ \E c \in Players : player[c].is # "empty"
    /\ m_teammode' \in BOOLEAN
    /\ \E side \in [Players -> ActiveTeams] :
          player' = [c \in Players |->
                LET p == [player[c] EXCEPT !.team = IF m_teammode' /\ Active(c) THEN side[c] ELSE @,
                                           !.lived = FALSE]
                IN IF p.is = "empty" THEN p ELSE mapchange(p, FALSE)]
    /\ arenaround' = "fought" /\ interm' = FALSE

\* startgame without notify, from a call for the next map ("+1"): the round is fought again, nobody gets
\* another life, and with gamemillis back at 0 every death is less than half a second ago.
StartSilently ==
    /\ \E c \in Players : player[c].is = "authed"
    /\ m_teammode' \in BOOLEAN /\ arenaround' = "fought" /\ interm' = FALSE
    /\ player' = [c \in Players |-> [player[c] EXCEPT !.recent = player[c].is # "empty"]]

\* resetserverifempty, and the game the next client starts.
ResetIfEmpty ==
    /\ \A c \in Players : player[c].is = "empty"
    /\ m_teammode' \in BOOLEAN /\ arenaround' = "fought" /\ interm' = FALSE
    /\ UNCHANGED player

\* checkintermission, and time.
Intermission == ~interm /\ interm' = TRUE /\ UNCHANGED <<player, m_teammode, arenaround>>
CountDown == arenaround = "won" /\ arenaround' = "due" /\ UNCHANGED <<player, m_teammode, interm>>
Forget(c) == player[c].recent /\ Becomes(c, [player[c] EXCEPT !.recent = FALSE]) /\ Same

\* arenacheck: a new round.
NewRound ==
    /\ ~interm /\ arenaround = "due" /\ \E c \in Players : Active(c)
    /\ player' = [c \in Players |->
                    IF Active(c) THEN sendspawn(player[c]) ELSE [player[c] EXCEPT !.lived = FALSE]]
    /\ arenaround' = "fought"
    /\ UNCHANGED <<m_teammode, interm>>

\* arenacheck: the end of a round.
EndRound ==
    /\ ~interm /\ arenaround = "fought" /\ ~TwoSides
    /\ \E c \in Players : Waits(c)
    /\ \A c \in Players : Waits(c) => ~player[c].recent
    /\ arenaround' = "won"
    /\ UNCHANGED <<player, m_teammode, interm>>

ArenaNext ==
    \/ \E c \in Players : \/ Enter(c) \/ Join(c) \/ Leave(c) \/ MapIdent(c) \/ WrongMap(c) \/ Spawn(c)
                          \/ Die(c) \/ FetchMap(c) \/ Forget(c)
                          \/ \E team \in ActiveTeams \cup {"spect"} : SwitchTeam(c, team) \/ ForceTeam(c, team)
    \/ StartGame \/ StartSilently \/ ResetIfEmpty \/ Intermission \/ CountDown \/ NewRound \/ EndRound

ArenaSpec == ArenaInit /\ [][ArenaNext]_arenaVars

\* Slices and time go on.
ArenaFairness ==
    /\ WF_arenaVars(EndRound) /\ WF_arenaVars(NewRound) /\ WF_arenaVars(CountDown)

-----------------------------------------------------------------------------
(* Properties.                                                             *)

\* One life a round: whoever had a spawn state gets no other until the next round or game, whatever it
\* does with teams and maps, unless it is alone on the server.
OneLifePerRound ==
    [][\A c \in Players :
          player[c].lived /\ ~player[c].lastspawn /\ player'[c].lastspawn =>
             NewRound \/ numclients < 2]_arenaVars

\* Nobody is kept waiting: a player that waits, with one side at most alive and no death just now (unless
\* the round is over already, when this does not matter), gets a spawn state with the next round.
KeptWaiting(c) ==
    /\ Active(c) /\ player[c].state # "alive" /\ ~player[c].lastspawn /\ ~interm
    /\ arenaround = "fought" => ~TwoSides /\ \A d \in Players : ~player[d].recent
NobodyKeptWaiting == \A c \in Players : []<>~KeptWaiting(c)
=============================================================================
