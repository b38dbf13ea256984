------------------------------- MODULE Teams -------------------------------
(***************************************************************************)
(* The sizes of teams (server.cpp).  Players choose a team, or the server  *)
(* does when they spawn; refillteams evens out teams of different sizes,   *)
(* balanceteams those of different strength; votes shuffle and force.  In  *)
(* a match there are spectators with a side, and a team may have a size.   *)
(*                                                                         *)
(* There are two counts of a team: numteamclients (wishes, spawns, match   *)
(* sizes) counts those on the right map, refillteams everybody.  Scores    *)
(* and chance, which choose among players and teams, are left open, and so *)
(* is whether a wish is granted when the rules of sizes do not forbid it   *)
(* (who was forced once, or lives, or died just now, is refused).          *)
(***************************************************************************)
EXTENDS Naturals, FiniteSets

CONSTANTS
    Cns,            \* the slots of clients
    TeamSizes,      \* what an admin sets matchteamsize to; 0 is no limit
    ForcedTeams     \* the teams that votes force somebody to

ASSUME CnsAssumption == IsFiniteSet(Cns)
ASSUME TeamSizesAssumption == TeamSizes \subseteq Nat

VARIABLES
    member,         \* member[c]: is (empty, connected, authed), team, onmap (the right one), flag (it has one)
    gamekind,       \* one of GameKinds, what refillteams asks of the mode: no teams, teams, teams in rounds
    autoteam,
    mastermode,     \* "match" or "open" (or private, which is the same to teams but for balanceteams)
    matchteamsize,
    overdue,        \* the teams have been uneven for so long that players are moved (lasttime_eventeams)
    balance         \* lastbalance: "due", "done" just now, or "rests" since (for two minutes at least)

teamVars == <<member, gamekind, autoteam, mastermode, matchteamsize, overdue, balance>>

Sides == {"cla", "rvsf"}
SideSpectators == {"cla_spect", "rvsf_spect"}
TeamNames == Sides \cup SideSpectators \cup {"spect"}

\* forceteamaction::isvalid asks whether there is such a team.
ASSUME ForcedTeamsAssumption == ForcedTeams \subseteq TeamNames

GameKinds == {"ffa", "team", "arena"}

TeamMode == gamekind # "ffa"
Opposite(side) == IF side = "cla" THEN "rvsf" ELSE "cla"
\* team_base: those who only watch count as CLA.
Base(team) == IF team \in {"rvsf", "rvsf_spect"} THEN "rvsf" ELSE "cla"
Spectator(side) == IF side = "cla" THEN "cla_spect" ELSE "rvsf_spect"

Present(ms) == {c \in Cns : ms[c].is # "empty"}
\* numteamclients, which may leave out one client.
OnMap(ms, side) == {c \in Cns : ms[c].is = "authed" /\ ms[c].onmap /\ ms[c].team = side}
numteamclients(ms, side, c) == Cardinality(OnMap(ms, side) \ {c})
\* refillteams' count.
Team(ms, side) == {c \in Cns : ms[c].is = "authed" /\ ms[c].team = side}

MatchLimit == mastermode = "match" /\ matchteamsize > 0

-----------------------------------------------------------------------------
(* Changes of team.                                                        *)

\* updateclientteam, once the change is accepted: whoever changes drops its flag, and a player that is put
\* where it was dies and drops it as well.
Moved(ms, c, team) == [ms EXCEPT ![c].team = team, ![c].flag = FALSE]

\* updateclientteam, TEAM_ANYACTIVE: the side that one who watches is given.
SidesFor(ms, c) ==
    LET cla == numteamclients(ms, "cla", c)
        rvsf == numteamclients(ms, "rvsf", c)
    IN IF mastermode = "match" /\ ms[c].team # "spect" THEN {Base(ms[c].team)}
       ELSE IF autoteam /\ cla # rvsf THEN {IF cla < rvsf THEN "cla" ELSE "rvsf"}
       ELSE Sides

PlayerWish_Bug(ms, c, team) ==
    /\ MatchLimit /\ TeamMode /\ team # "spect" => Base(team) = Base(ms[c].team)
    /\ team \in Sides /\ TeamMode =>
          IF mastermode = "match" THEN matchteamsize > 0 => numteamclients(ms, team, c) <= matchteamsize
          ELSE autoteam => numteamclients(ms, team, c) <= numteamclients(ms, Opposite(team), c)
\* updateclientteam, FTR_PLAYERWISH: the rules a wish has to keep.
PlayerWish(ms, c, team) ==
    /\ MatchLimit /\ TeamMode /\ team # "spect" => Base(team) = Base(ms[c].team)
    /\ team \in Sides /\ TeamMode =>
          IF mastermode = "match" THEN matchteamsize > 0 => numteamclients(ms, team, c) < matchteamsize
          ELSE autoteam => numteamclients(ms, team, c) <= numteamclients(ms, Opposite(team), c)
\* There are spectators with a side in team matches only.
Wished(team) == IF team \in Sides \/ (mastermode = "match" /\ TeamMode) THEN team ELSE "spect"

\* canspawn, but for times.
MaySpawn(ms, c) ==
    /\ ms[c].is = "authed" /\ ms[c].onmap
    /\ MatchLimit =>
          CASE ms[c].team \in Sides -> TRUE
            [] ms[c].team = "spect" -> FALSE
            [] OTHER -> TeamMode /\ numteamclients(ms, Base(ms[c].team), c) < matchteamsize

-----------------------------------------------------------------------------
(* Several clients at a time.                                              *)

Greater(m, n) == IF m < n THEN n ELSE m

\* shuffleteams: active players on the right map are put on sides of so many players at most.
Shuffled(ms, limit) ==
    LET those == {c \in Cns : ms[c].onmap /\ ms[c].team \in Sides}
        sides == {s \in SUBSET those : \A t \in {s, those \ s} : Cardinality(t) <= limit}
    IN {[c \in Cns |-> IF c \in those
                       THEN [ms[c] EXCEPT !.team = IF c \in s THEN "cla" ELSE "rvsf", !.flag = FALSE]
                       ELSE ms[c]] : s \in sides}
\* The random shuffle of the first two minutes stops at half of all clients, the later one takes turns.
HalfOf(n) == (n + 1) \div 2
Shuffleable(ms) == Cardinality({c \in Cns : ms[c].onmap /\ ms[c].team \in Sides})
Turns(ms) == Shuffled(ms, HalfOf(Shuffleable(ms)))
Random(ms) == Shuffled(ms, Greater(Cardinality(Present(ms)) \div 2, HalfOf(Shuffleable(ms))))

\* balanceteams, which is never due in the first two minutes: nothing, a shuffle, one to the weaker team
\* if that is not the larger one, or an exchange.
Balanced(ms) ==
    LET free(side) == {c \in Team(ms, side) : ~ms[c].flag}
        larger(side) == Cardinality(Team(ms, side)) > Cardinality(Team(ms, Opposite(side)))
    IN IF mastermode = "match" \/ Cardinality(Present(ms)) < 3 THEN {ms}
       ELSE {ms} \cup Turns(ms)
            \cup (UNION {{Moved(ms, c, Opposite(side)) : c \in free(side)} : side \in {s \in Sides : larger(s)}})
            \cup {Moved(Moved(ms, x[1], "rvsf"), x[2], "cla") : x \in free("cla") \X free("rvsf")}

\* What refillteams looks at: the difference of sizes, and who of the larger team can be moved.
Larger(ms) == IF Cardinality(Team(ms, "rvsf")) > Cardinality(Team(ms, "cla")) THEN "rvsf" ELSE "cla"
Difference(ms) == Cardinality(Team(ms, Larger(ms))) - Cardinality(Team(ms, Opposite(Larger(ms))))
Moveable(ms) == {c \in Team(ms, Larger(ms)) : ~ms[c].flag}

Evened_Bug(ms, now) ==
    LET diff == Difference(ms)
        all == Cardinality(Team(ms, "cla") \cup Team(ms, "rvsf"))
        wanted == (diff - 1) \div 2
        least == IF wanted < Cardinality(Moveable(ms)) THEN wanted ELSE Cardinality(Moveable(ms))
    IN IF diff > 1 /\ (now \/ overdue \/ diff > 2 + all \div 10)
       THEN {[c \in Cns |-> IF c \in picked THEN [ms[c] EXCEPT !.team = Opposite(Larger(ms))] ELSE ms[c]] :
             picked \in {s \in SUBSET Moveable(ms) : Cardinality(s) = least}}
       ELSE {ms}
\* refillteams, first half: so many players of the larger team are moved that the sizes differ by
\* one at most, as far as there are some without a flag.
Evened(ms, now) ==
    LET diff == Difference(ms)
        all == Cardinality(Team(ms, "cla") \cup Team(ms, "rvsf"))
        wanted == diff \div 2
        least == IF wanted < Cardinality(Moveable(ms)) THEN wanted ELSE Cardinality(Moveable(ms))
    IN IF diff > 1 /\ (now \/ overdue \/ diff > 2 + all \div 10)
       THEN {[c \in Cns |-> IF c \in picked THEN [ms[c] EXCEPT !.team = Opposite(Larger(ms))] ELSE ms[c]] :
             picked \in {s \in SUBSET Moveable(ms) : Cardinality(s) = least}}
       ELSE {ms}

\* refillteams.  With even teams it balances them when that is due; a game may be too near its end.
Refills(now) ==
    \E es \in Evened(member, now) :
        LET even == Difference(es) < 2
        IN /\ overdue' = (overdue /\ ~even)
           /\ \/ even /\ balance = "due" /\ balance' = "done" /\ member' \in Balanced(es)
              \/ balance' = (IF balance = "done" /\ (even \/ overdue) THEN "rests" ELSE balance) /\ member' = es

-----------------------------------------------------------------------------
(* Handlers.                                                               *)

NoMember == [is |-> "empty", team |-> "spect", onmap |-> FALSE, flag |-> FALSE]

TeamsInit ==
    /\ member = [c \in Cns |-> NoMember]
    /\ gamekind = "team" /\ autoteam = TRUE
    /\ mastermode = "open" /\ matchteamsize = 0
    /\ overdue = FALSE /\ balance = "rests"

Rules == <<gamekind, autoteam, mastermode, matchteamsize>>
Clocks == <<overdue, balance>>
MembersBecome(ms) == member' = ms /\ UNCHANGED <<Rules, Clocks>>
IsIn(c) == member[c].is = "authed"

Appears(c) ==
    /\ member[c].is = "empty"
    /\ MembersBecome([member EXCEPT ![c] = [NoMember EXCEPT !.is = "connected"]])

\* SV_CONNECT, with welcomepacket.  (It would give the side back to a player that comes back to a match, but
\* its sc is never set.)
IsLetIn(c) ==
    /\ member[c].is = "connected"
    /\ MembersBecome([member EXCEPT ![c].is = "authed", ![c].team = "spect"])

Goes(c) == member[c].is # "empty" /\ MembersBecome([member EXCEPT ![c] = NoMember])

\* SV_MAPIDENT with the right map.  Who is alone is put into the game.
HasMap(c) ==
    /\ IsIn(c)
    /\ LET ms == [member EXCEPT ![c].onmap = TRUE]
       IN IF ms[c].team \notin Sides /\ Cardinality(Present(ms)) < 2 /\ mastermode # "match"
          THEN \E side \in SidesFor(ms, c) : MembersBecome(Moved(ms, c, side))
          ELSE MembersBecome(ms)

\* SV_RECVMAP: mapchange, and sendwelcome, which puts c among the spectators.
GetsMap(c) == IsIn(c) /\ MembersBecome([member EXCEPT ![c] = [NoMember EXCEPT !.is = "authed"]])

\* SV_SWITCHTEAM.
WantsTeam(c, team) ==
    /\ IsIn(c) /\ member[c].team # team
    /\ PlayerWish(member, c, team)
    /\ MembersBecome(Moved(member, c, Wished(team)))

\* SV_TRYSPAWN of one who watches.
WantsSpawn(c) ==
    /\ IsIn(c) /\ member[c].team \notin Sides /\ MaySpawn(member, c)
    /\ \E side \in SidesFor(member, c) :
          PlayerWish(member, c, side) /\ MembersBecome(Moved(member, c, side))

\* A flag is taken, and lost.  There are two.
TakesAFlag(c) ==
    /\ IsIn(c) /\ member[c].onmap /\ member[c].team \in Sides /\ gamekind = "team"
    /\ ~member[c].flag /\ Cardinality({d \in Cns : member[d].flag}) < 2
    /\ MembersBecome([member EXCEPT ![c].flag = TRUE])
LosesFlag(c) == member[c].flag /\ MembersBecome([member EXCEPT ![c].flag = FALSE])

\* forceteamaction.  (On a client that is not let in yet it does not last.)
ForcedTo(c, team) ==
    /\ IsIn(c) /\ member[c].team # team
    /\ MembersBecome(Moved(member, c, team))

\* autoteamaction.
VoteAutoteam(enable) ==
    /\ autoteam' = enable
    /\ IF TeamMode /\ enable /\ mastermode # "match" THEN Refills(TRUE) ELSE UNCHANGED <<member, Clocks>>
    /\ UNCHANGED <<gamekind, mastermode, matchteamsize>>

\* shuffleteamaction, which is not valid in other modes, also when it passes.
VoteShuffle == TeamMode /\ \E ms \in Random(member) : MembersBecome(ms)

\* changematchteamsize, with the size that is set: the last ones of a team that is too large have to watch.
\* (Which of them: those with the highest slots.  Here it is any.)
Shrunk(ms, size) ==
    LET removed == {s \in SUBSET (OnMap(ms, "cla") \cup OnMap(ms, "rvsf")) : \A side \in Sides :
                       LET number == Cardinality(OnMap(ms, side))
                       IN Cardinality(OnMap(ms, side) \ s) = IF size < number THEN size ELSE number}
    IN IF size = 0 \/ ~TeamMode THEN {ms}
       ELSE {[c \in Cns |-> IF c \in s THEN [ms[c] EXCEPT !.team = Spectator(@), !.flag = FALSE] ELSE ms[c]] :
             s \in removed}

\* The admin sets the size of teams in a match.
SetTeamSize(size) ==
    /\ mastermode = "match"
    /\ matchteamsize' = size
    /\ \E ms \in Shrunk(member, size) : member' = ms
    /\ UNCHANGED <<gamekind, autoteam, mastermode, Clocks>>

\* changemastermode.
VoteMastermode(m) ==
    /\ mastermode # m /\ mastermode' = m
    /\ IF m = "match" THEN \E ms \in Shrunk(member, matchteamsize) : member' = ms
       ELSE member' = [c \in Cns |-> IF IsIn(c) /\ member[c].team \in SideSpectators
                                     THEN [member[c] EXCEPT !.team = "spect"] ELSE member[c]]
    /\ UNCHANGED <<gamekind, autoteam, matchteamsize, Clocks>>

\* startgame: teams are shuffled after a game without them, else evened out; then nobody has the map.
Begins(kind) ==
    /\ Present(member) # {}
    /\ gamekind' = kind /\ overdue' = FALSE /\ balance' = "done"
    /\ LET unflagged == [c \in Cns |-> [member[c] EXCEPT !.flag = FALSE]]
       IN \E ms \in IF kind = "ffa" THEN {unflagged}
                    ELSE IF ~TeamMode THEN Random(unflagged)
                    ELSE IF autoteam /\ mastermode # "match" THEN Evened(unflagged, TRUE)
                    ELSE {unflagged} :
             member' = [c \in Cns |-> [ms[c] EXCEPT !.onmap = FALSE]]
    /\ UNCHANGED <<autoteam, mastermode, matchteamsize>>

\* startgame without notify, from a call for the next map ("+1"): flags are back, everybody stays where it is.
BeginsSilently(kind) ==
    /\ \E c \in Cns : IsIn(c)
    /\ gamekind' = kind /\ overdue' = FALSE /\ balance' = "done"
    /\ member' = [c \in Cns |-> [member[c] EXCEPT !.flag = FALSE]]
    /\ UNCHANGED <<autoteam, mastermode, matchteamsize>>

\* resetserverifempty.
ResetsIfEmpty ==
    /\ Present(member) = {}
    /\ gamekind' = "team" /\ autoteam' = TRUE /\ mastermode' = "open" /\ matchteamsize' = 0
    /\ UNCHANGED <<member, Clocks>>

\* refillteams does nothing in a match.
Timely(now) == autoteam /\ mastermode # "match" /\ UNCHANGED Rules /\ Refills(now)

\* serverslice, every five seconds.
Refilling == autoteam /\ gamekind = "team" /\ mastermode # "match"
SliceRefills == Refilling /\ Timely(FALSE)
\* arenacheck, at the end of a round.
RoundRefills == gamekind = "arena" /\ Timely(TRUE)

\* Time passes while slices refill teams: they are uneven for long; two minutes are over since a balance.
GetsOverdue ==
    /\ Refilling /\ ~overdue /\ Difference(member) > 1
    /\ overdue' = TRUE
    /\ UNCHANGED <<member, Rules, balance>>
BalanceGetsDue ==
    /\ autoteam /\ mastermode # "match" /\ balance = "rests"
    /\ balance' = "due"
    /\ UNCHANGED <<member, Rules, overdue>>
\* Time passes while they do not.
Rests == ~Refilling /\ balance = "done" /\ balance' = "rests" /\ UNCHANGED <<member, Rules, overdue>>

TeamsNext ==
    \/ \E c \in Cns :
          \/ Appears(c) \/ IsLetIn(c) \/ Goes(c) \/ HasMap(c) \/ GetsMap(c)
          \/ WantsSpawn(c) \/ TakesAFlag(c) \/ LosesFlag(c)
          \/ \E team \in TeamNames : WantsTeam(c, team)
          \/ \E team \in ForcedTeams : ForcedTo(c, team)
    \/ \E enable \in BOOLEAN : VoteAutoteam(enable)
    \/ \E m \in {"open", "match"} : VoteMastermode(m)
    \/ \E size \in TeamSizes : SetTeamSize(size)
    \/ \E kind \in GameKinds : Begins(kind) \/ BeginsSilently(kind)
    \/ VoteShuffle \/ ResetsIfEmpty
    \/ SliceRefills \/ RoundRefills \/ GetsOverdue \/ BalanceGetsDue \/ Rests

TeamsSpec == TeamsInit /\ [][TeamsNext]_teamVars

\* Slices follow each other and time passes.
TeamsFairness == WF_teamVars(SliceRefills) /\ WF_teamVars(GetsOverdue)

-----------------------------------------------------------------------------
(* Properties.                                                             *)

\* In a match no team grows beyond its size by wishes, spawns, votes on rules and new games in any order,
\* but only when somebody is forced or shuffled into it - or, as places are not kept for players
\* that load the map, when one of them comes to a team that was filled up meanwhile.
MatchSizesHold ==
    [][\A side \in Sides \ ForcedTeams :
          /\ mastermode' = "match" /\ matchteamsize' > 0 /\ gamekind' # "ffa"
          /\ Cardinality(OnMap(member', side)) > matchteamsize'
          /\ Cardinality(OnMap(member', side)) > Cardinality(OnMap(member, side))
          => VoteShuffle \/ \E c \in Cns : HasMap(c) /\ member[c].team = side]_teamVars

\* refillteams has something to do.
Uneven ==
    /\ autoteam /\ gamekind = "team" /\ mastermode = "open"
    /\ Difference(member) > 1 /\ Moveable(member) # {}
\* With autoteam, in a mode without rounds, teams do not differ by two players or more for ever as
\* long as somebody can be moved, whatever players wish, votes shuffle and balanceteams exchanges -
\* unless clients silently start one game after another.
TeamsEvenOut ==
    <>[]Uneven => []<><<\E kind \in GameKinds : BeginsSilently(kind)>>_teamVars
=============================================================================
