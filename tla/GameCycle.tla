----------------------------- MODULE GameCycle -----------------------------
(***************************************************************************)
(* Which game comes after which: the clock, the intermission, votes for a  *)
(* map - now, by a forced intermission, or for the next game - and the map *)
(* rotation (serverfiles.h), which is read again while games go on.  Modes *)
(* go with maps: on a map of CoopMaps the game is coopedit, which has no   *)
(* clock.  How a vote is decided is in module Voting; here it passes or    *)
(* fails.                                                                  *)
(***************************************************************************)
EXTENDS Integers, Sequences, FiniteSetsExt

CONSTANTS
    Maps, CoopMaps,
    NoMap,         \* an empty map name
    Rotations,     \* what may be in the file of the rotation
    MaxClients,    \* bound: clients
    DemoInterm     \* scl.demo_interm

\* A line of the rotation.  usable: the map is there and satisfies mapisok.
Configsets == [mapname : Maps, minplayer : Nat, maxplayer : Nat, skiplines : Nat, usable : BOOLEAN]

\* Without a usable line the server gives up ("maprot unusable").
ASSUME RotationsAssumption ==
    \A r \in Rotations : r \in Seq(Configsets) /\ \E i \in DOMAIN r : r[i].usable
ASSUME MapsAssumption == NoMap \notin Maps /\ CoopMaps \subseteq Maps
ASSUME CycleBoundsAssumption == MaxClients \in Nat /\ DemoInterm \in BOOLEAN

VARIABLES
    n,             \* numclients()
    game,          \* the current game and what is to follow, see Games
    configsets,    \* the rotation
    curcfgset,     \* its line that was used last; 0 is -1 in the code
    map_queued,
    poll           \* the pending vote on a map

cycleVars == <<n, game, configsets, curcfgset, map_queued, poll>>

NoPoll == [map |-> NoMap, queue |-> FALSE]

\* clock: gamemillis up to a quarter of gamelimit, up to gamelimit, and after that; running: minremain > 0;
\* interm: none, the ten seconds, and past them.  promise (history): what a vote has chosen for the next game.
Games == [smapname : Maps \cup {NoMap}, clock : {"early", "late", "over"}, running : BOOLEAN,
          interm : {"no", "wait", "past"}, nextmapname : Maps \cup {NoMap}, forceintermission : BOOLEAN,
          promise : Maps \cup {NoMap}]

CycleTypeOK ==
    /\ n \in 0..MaxClients
    /\ game \in Games
    /\ configsets \in Rotations /\ curcfgset \in Nat
    /\ map_queued \in BOOLEAN
    /\ poll \in [map : Maps \cup {NoMap}, queue : BOOLEAN]
    /\ game.interm # "no" => ~game.running

Timed(g) == g.smapname \notin CoopMaps

-----------------------------------------------------------------------------
(* The rotation.                                                           *)

csl == Len(configsets)

Fits(c, players) == players >= c.minplayer /\ (c.maxplayer = 0 \/ players <= c.maxplayer)

\* servermaprot::next: the line at turn i of the loop, which begins behind the current one and the lines
\* it skips.  A stale curcfgset is no harm here.
Line(i) ==
    LET skipped == curcfgset + (IF curcfgset \in DOMAIN configsets THEN configsets[curcfgset].skiplines ELSE 0)
        first == IF skipped + 1 > csl THEN 1 ELSE skipped + 1
    IN ((first - 1 + i) % csl) + 1

\* In the first round both limits count, in the second only maxplayer.
Suits_Bug(i, players) ==
    LET c == configsets[Line(i)]
    IN /\ c.usable
       /\ players >= c.minplayer \/ i >= csl
       /\ c.maxplayer = 0 \/ players <= c.maxplayer \/ i >= csl
Suits(i, players) ==
    LET c == configsets[Line(i)]
    IN /\ c.usable
       /\ players >= c.minplayer \/ i >= csl
       /\ c.maxplayer = 0 \/ players <= c.maxplayer \/ i >= 2 * csl

next_line(players) == Line(Min({i \in 0..3 * csl : Suits(i, players)}))

\* servermaprot::get_next: the next line with another map.  With a curcfgset beyond a rotation that became
\* shorter it compares with what lies behind the array.
GetNext ==
    IF curcfgset \notin DOMAIN configsets THEN DOMAIN configsets
    ELSE LET At(k) == ((curcfgset - 1 + k) % csl) + 1
             others == {k \in 1..csl - 1 : configsets[At(k)].mapname # configsets[curcfgset].mapname}
         IN {IF others = {} THEN curcfgset ELSE At(Min(others))}

-----------------------------------------------------------------------------
(* Games.                                                                  *)

\* resetserver, which startgame calls first.
resetserver(map) ==
    [smapname |-> map, clock |-> "early", running |-> TRUE, interm |-> "no", nextmapname |-> NoMap,
     forceintermission |-> FALSE, promise |-> NoMap]

checkintermission_Bug(g) ==
    LET over == g.clock = "over" \/ g.forceintermission
    IN [g EXCEPT !.running = @ /\ ~over, !.interm = IF g.running /\ ~over THEN @ ELSE "wait",
                 !.forceintermission = FALSE]
checkintermission(g) ==
    LET over == g.clock = "over" \/ g.forceintermission
    IN [g EXCEPT !.running = @ /\ ~over,
                 !.interm = IF @ = "no" /\ ~(g.running /\ ~over) THEN "wait" ELSE @,
                 !.forceintermission = FALSE]

\* mapaction::perform.
Performed(g, p) ==
    IF p.queue
    THEN [g EXCEPT !.nextmapname = p.map, !.promise = p.map]
    ELSE IF n > 2 /\ Timed(g) /\ (g.clock # "early" \/ DemoInterm)
    THEN [g EXCEPT !.nextmapname = p.map, !.promise = p.map, !.forceintermission = TRUE]
    ELSE resetserver(p.map)

\* The game that follows an intermission, with the line of the rotation used last.
Following_Bug(g) ==
    IF map_queued THEN [game |-> resetserver(g.nextmapname), line |-> curcfgset]
    ELSE [game |-> resetserver(configsets[next_line(n)].mapname), line |-> next_line(n)]
Following(g) ==
    IF g.nextmapname # NoMap THEN [game |-> resetserver(g.nextmapname), line |-> curcfgset]
    ELSE [game |-> resetserver(configsets[next_line(n)].mapname), line |-> next_line(n)]

-----------------------------------------------------------------------------
CycleInit ==
    /\ n = 0 /\ game = resetserver(NoMap)
    /\ configsets \in Rotations /\ curcfgset = 0
    /\ map_queued = FALSE /\ poll = NoPoll

\* ENet connects a client.
Arrive == n < MaxClients /\ n' = n + 1 /\ UNCHANGED <<game, configsets, curcfgset, map_queued, poll>>

\* welcomepacket for a client that is let in.
Welcome ==
    /\ n > 0 /\ game.smapname = NoMap
    /\ game' = resetserver(configsets[next_line(n)].mapname)
    /\ curcfgset' = next_line(n)
    /\ UNCHANGED <<n, configsets, map_queued, poll>>

\* disconnect_client.  The vote ends with its owner at the latest.
Depart ==
    /\ n > 0
    /\ n' = n - 1
    /\ poll' \in (IF n = 1 THEN {NoPoll} ELSE {poll, NoPoll})
    /\ UNCHANGED <<game, configsets, curcfgset, map_queued>>

\* SV_CALLVOTE for a map.  For the next game (queue) it is accepted only once.
CallVote(map, queue) ==
    /\ game.smapname # NoMap /\ n > 0 /\ poll = NoPoll
    /\ queue => ~map_queued
    /\ poll' = [map |-> map, queue |-> queue]
    /\ map_queued' = (map_queued \/ queue)
    /\ UNCHANGED <<n, game, configsets, curcfgset>>

\* SV_CALLVOTE for "+1", whether accepted or not.  To find out which map this is, the rotation goes on to it;
\* with a mode other than 0 this starts the game, before any vote and without telling the clients.
CallNext(starts) ==
    /\ game.smapname # NoMap /\ n > 0
    /\ \E line \in (IF starts THEN {next_line(n)} ELSE GetNext) :
          LET map == configsets[line].mapname
          IN /\ curcfgset' = line
             /\ game' = IF starts THEN resetserver(map) ELSE game
             /\ poll' \in {poll} \cup (IF poll = NoPoll THEN {[map |-> map, queue |-> FALSE]} ELSE {})
    /\ UNCHANGED <<n, configsets, map_queued>>

PassVote ==
    /\ poll # NoPoll
    /\ game' = Performed(game, poll) /\ poll' = NoPoll
    /\ UNCHANGED <<n, configsets, curcfgset, map_queued>>
FailVote ==
    /\ poll # NoPoll
    /\ poll' = NoPoll
    /\ UNCHANGED <<n, game, configsets, curcfgset, map_queued>>

\* serverslice, once the time is clock and interm: the check once a minute or when forced (games last whole
\* minutes), the end of the intermission, and the reset of an empty server.
Slice(clock, interm) ==
    \E check \in BOOLEAN :
      LET g == [game EXCEPT !.clock = clock, !.interm = interm]
          h == IF check THEN checkintermission(g) ELSE g
          past == h.interm = "past"
      IN /\ game.forceintermission \/ (Timed(game) /\ clock # game.clock /\ clock = "over") => check
         /\ check => Timed(game) \/ game.forceintermission
         /\ curcfgset' = IF past THEN Following(h).line ELSE curcfgset
         /\ map_queued' = (map_queued /\ ~past)
         /\ game' = IF n = 0 THEN resetserver(NoMap) ELSE IF past THEN Following(h).game ELSE h
         /\ UNCHANGED <<n, configsets, poll>>

\* Time passes before a slice, or not enough to matter.
ClockPasses ==
    \/ game.clock = "early" /\ Slice("late", game.interm)
    \/ game.clock = "late" /\ Slice("over", game.interm)
IntermissionPasses == game.interm = "wait" /\ Slice(game.clock, "past")
SameTime == Slice(game.clock, game.interm)

\* rereadcfgs, once a minute.
Reread ==
    /\ configsets' \in Rotations
    /\ UNCHANGED <<n, game, curcfgset, map_queued, poll>>

CycleNext ==
    \/ Arrive \/ Welcome \/ Depart
    \/ \E map \in Maps, queue \in BOOLEAN : CallVote(map, queue)
    \/ \E starts \in BOOLEAN : CallNext(starts)
    \/ PassVote \/ FailVote
    \/ ClockPasses \/ IntermissionPasses \/ SameTime
    \/ Reread

CycleSpec == CycleInit /\ [][CycleNext]_cycleVars

\* Slices follow each other and time passes.
CycleFairness ==
    /\ WF_cycleVars(ClockPasses) /\ WF_cycleVars(IntermissionPasses)
    /\ WF_cycleVars(SameTime /\ game.forceintermission)

-----------------------------------------------------------------------------
(* Properties.                                                             *)

\* What the rotation would choose now fits the number of players, if any line does; if none does, it
\* exceeds no maxplayer, if that can be had: whatever line was the last, however many it skips, and
\* though the file has changed since.
RotationFits ==
    LET chosen == configsets[next_line(n)]
        usable == {c \in {configsets[i] : i \in DOMAIN configsets} : c.usable}
        Small(c) == c.maxplayer = 0 \/ n <= c.maxplayer
    IN /\ chosen \in usable
       /\ (\E c \in usable : Fits(c, n)) => Fits(chosen, n)
       /\ (\E c \in usable : Small(c)) => Small(chosen)

\* A map that was voted for the next game is played next, through queued and forced votes in any order and
\* clocks that run out meanwhile.  It is forgotten only if a later vote chooses otherwise, if somebody as much as
\* calls a vote for "+1", or if the server becomes empty.
PromisedIsPlayed ==
    [][game.promise # NoMap /\ game'.promise # game.promise =>
          \/ game'.smapname = game.promise
          \/ PassVote \/ CallNext(TRUE) \/ n = 0]_cycleVars

\* When its time is over, or in an intermission, a game is followed by another: votes that force an
\* intermission again and again cannot hold it off.
NextGameComes ==
    (Timed(game) /\ game.clock = "over") \/ game.interm # "no" ~> game.clock = "early" /\ game.interm = "no"
=============================================================================
