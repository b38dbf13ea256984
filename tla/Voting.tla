------------------------------- MODULE Voting -------------------------------
(***************************************************************************)
(* Votes and the admin role: the one vote in progress (curvote), the       *)
(* ballots kept in the clients, and every handler that calls, answers,     *)
(* re-evaluates, ends or deletes a vote - among them connects, disconnects *)
(* and role changes, which evaluate the vote on the way.  A passed vote    *)
(* acts at once, inside the handler that decided it: it may disconnect a   *)
(* client, promote one, move one, or set, force or start the next game.    *)
(*                                                                         *)
(* A slot of clients may change hands while a vote about it is pending.    *)
(* addr tells the peers apart; two peers may share a host.                 *)
(*                                                                         *)
(* evaluate() is called from the middle of other handlers, so its effects  *)
(* are written as functions of a world, the record of what it reads and    *)
(* writes.  Lua hooks are taken to be absent.  Names ending in _Bug are    *)
(* mistaken variants of the definition after them, see FlagGame.           *)
(***************************************************************************)
EXTENDS Protocol, FiniteSets

CONSTANTS
    Clients,      \* the slots of the vector clients
    Addrs,        \* peer addresses
    Hosts,        \* the hosts they are on
    Host,         \* [Addrs -> Hosts]
    NoVote,       \* curvote == NULL
    VoteTypes,    \* the kinds of votes that are called
    AdminTypes,   \* those that only an admin may call (roleconf)
    Teams,        \* the teams that occur
    MinTime,      \* ticks until a large minority can carry a vote (10 s)
    LifeTime,     \* ticks a vote is alive (30 s)
    Crowd         \* totalclients has to exceed this for that (4)

Kinds == {"kick", "ban", "giveadmin", "forceteam", "map", "nextmap", "rembans"}

ASSUME SlotsAssumption == IsFiniteSet(Clients)
ASSUME PeersAssumption == Host \in [Addrs -> Hosts]
ASSUME VoteTeamsAssumption == Teams \subseteq TeamNums /\ TEAM_SPECT \in Teams
ASSUME VoteTypesAssumption == VoteTypes \subseteq Kinds /\ AdminTypes \subseteq Kinds
ASSUME VoteTimesAssumption ==
    MinTime \in Nat /\ LifeTime \in Nat /\ MinTime < LifeTime /\ Crowd \in Nat

VARIABLES
    curvote,    \* the vote in progress or just ended, or NoVote
    addr,       \* addr[c]: the peer of slot c, kept when the slot is emptied
    cast,       \* history: who answered the vote in progress
    map_queued, \* the flag of that name
    world       \* what evaluate() reads and writes, see below

vars == <<curvote, addr, cast, map_queued, world>>

Ballots == {"NEUTRAL", "YES", "NO"}

\* The votes.  named is playeraction::address, by (not in the code) the peer that called.
Votes == [type : VoteTypes, owner : Clients, by : Addrs, target : Clients, named : Addrs,
          wasvalid : BOOLEAN, team : Teams, age : 0..LifeTime, result : Ballots]

ASSUME NoVoteAssumption == NoVote \notin Votes

Worlds == [conn : [Clients -> {"empty", "connecting", "playing"}],
           role : [Clients -> {"DEFAULT", "ADMIN"}],
           vote : [Clients -> Ballots],     \* client::vote
           team : [Clients -> Teams],
           rested : [Clients -> BOOLEAN],   \* lastvotecall is 0 or a minute ago
           bans : [Hosts -> BOOLEAN],       \* bans of type BAN_VOTE
           nextmap : BOOLEAN,               \* nextmapname[0]
           forced : BOOLEAN,                \* forceintermission
           interm : BOOLEAN]                \* interm # 0

-----------------------------------------------------------------------------
(* Clients.                                                                *)

valid_client(w, c) == w.conn[c] # "empty"
numclients(w) == Cardinality({c \in Clients : valid_client(w, c)})

\* The slots with this peer.  findcnbyaddress returns the first of them.
WithAddress(w, a) == {c \in Clients : valid_client(w, c) /\ addr[c] = a}

\* client::zap.
Zapped(w, c) == [w EXCEPT !.conn[c] = "empty", !.role[c] = "DEFAULT"]

Promoted_Bug(w, c) == [w EXCEPT !.role[c] = "ADMIN"]
\* changeclientrole to admin: there is one admin at a time.
Promoted(w, c) ==
    [w EXCEPT !.role = [d \in Clients |-> IF d = c THEN "ADMIN" ELSE "DEFAULT"]]

\* startgame, as far as it matters here: the next map is forgotten - but not map_queued.
GameStarted(w) == [w EXCEPT !.nextmap = FALSE, !.forced = FALSE, !.interm = FALSE]

-----------------------------------------------------------------------------
(* A vote: serveraction and voteinfo.                                      *)

Pending(v) == v # NoVote /\ v.result = "NEUTRAL"

IsBoot(type) == type \in {"kick", "ban"}

\* playeraction::isvalid.
Touchable(w, c) == valid_client(w, c) /\ w.role[c] # "ADMIN"

\* serveraction::isvalid.  A kick or ban called with a reason stays valid for ever.
ActionValid(v, w) ==
    CASE IsBoot(v.type) -> v.wasvalid \/ Touchable(w, v.target)
      [] v.type = "giveadmin" -> Touchable(w, v.target)
      [] v.type = "forceteam" -> valid_client(w, v.target) /\ v.team # w.team[v.target]
      [] OTHER -> TRUE

Kicked_Bug(v, w) == {Zapped(w, v.target)}
\* kickaction and banaction act on the address, not on the slot.
Kicked(v, w) ==
    IF WithAddress(w, v.named) = {} THEN {w}
    ELSE {Zapped(IF v.type = "ban" THEN [w EXCEPT !.bans[Host[v.named]] = TRUE] ELSE w, c) :
             c \in WithAddress(w, v.named)}

\* serveraction::perform: the worlds it may lead to.  A map vote ends a running game
\* that is old enough by an intermission, any other game at once.
Performed(v, w) ==
    CASE IsBoot(v.type) -> Kicked(v, w)
      [] v.type = "giveadmin" -> {Promoted(w, v.target)}
      [] v.type = "forceteam" -> {[w EXCEPT !.team[v.target] = v.team]}
      [] v.type = "nextmap" -> {[w EXCEPT !.nextmap = TRUE]}
      [] v.type = "map" ->
            {GameStarted(w)} \cup
            (IF numclients(w) > 2 THEN {[w EXCEPT !.nextmap = TRUE, !.forced = TRUE]} ELSE {})
      [] v.type = "rembans" -> {[w EXCEPT !.bans = [h \in Hosts |-> FALSE]]}

Cleared(w) == [w EXCEPT !.vote = [c \in Clients |-> "NEUTRAL"]]

\* voteinfo::end: the result is set before the action, whose own calls of evaluate() then
\* find the vote decided; the ballots are cleared last.
End(v, w, result) ==
    LET r == IF ActionValid(v, w) THEN result ELSE "NO"
        passed == [w EXCEPT !.rested[v.owner] = @ \/ valid_client(w, v.owner)]
    IN  {[v |-> [v EXCEPT !.result = r], w |-> Cleared(u)] :
            u \in IF r = "YES" THEN Performed(v, passed) ELSE {w}}

Tally(w, b) == Cardinality({c \in Clients : valid_client(w, c) /\ w.vote[c] = b})

AdminVotes(w, b) == \E c \in Clients : w.role[c] = "ADMIN" /\ w.vote[c] = b

\* A boot needs the host of the target to be the one that was named.
boot_condition(v, w) ==
    IsBoot(v.type) => valid_client(w, v.target) /\ Host[addr[v.target]] = Host[v.named]

yes_condition(v, w) ==
    LET total == numclients(w)
    IN  \/ v.age > MinTime /\ 100 * (Tally(w, "YES") - Tally(w, "NO")) > 34 * total
           /\ total > Crowd
        \/ 100 * Tally(w, "YES") > 51 * total

no_condition_Bug(v, w, forceend) ==
    \/ ~valid_client(w, v.owner)
    \/ Tally(w, "NO") >= Tally(w, "YES") + Tally(w, "NEUTRAL")
    \/ AdminVotes(w, "NO")
no_condition(v, w, forceend) ==
    \/ forceend
    \/ ~valid_client(w, v.owner)
    \/ Tally(w, "NO") >= Tally(w, "YES") + Tally(w, "NEUTRAL")
    \/ AdminVotes(w, "NO")

Decide(v, w, forceend) ==
    IF /\ yes_condition(v, w) \/ w.role[v.owner] = "ADMIN" \/ AdminVotes(w, "YES")
       /\ boot_condition(v, w)
    THEN End(v, w, "YES")
    ELSE IF no_condition(v, w, forceend) \/ (v.age > MinTime /\ ~boot_condition(v, w))
         THEN End(v, w, "NO")
         ELSE {[v |-> v, w |-> w]}

Evaluated_Bug(v, w, forceend) ==
    IF v = NoVote THEN {[v |-> v, w |-> w]}
    ELSE IF ~ActionValid(v, w) THEN End(v, w, "NO") ELSE Decide(v, w, forceend)
\* "if(curvote) curvote->evaluate(forceend)": a vote that was decided stays so.  After the
\* end of an invalid vote the code goes on; it can only end it with NO once more.
Evaluated(v, w, forceend) ==
    IF ~Pending(v) THEN {[v |-> v, w |-> w]}
    ELSE IF ~ActionValid(v, w) THEN End(v, w, "NO") ELSE Decide(v, w, forceend)

\* The handler ends in one of these outcomes.
Becomes(outcomes) == \E o \in outcomes : curvote' = o.v /\ world' = o.w

-----------------------------------------------------------------------------
Init ==
    /\ curvote = NoVote /\ cast = {} /\ map_queued = FALSE
    /\ addr \in [Clients -> Addrs]
    /\ world \in [conn : {[c \in Clients |-> "empty"]},
                  role : {[c \in Clients |-> "DEFAULT"]},
                  vote : {[c \in Clients |-> "NEUTRAL"]},
                  team : {[c \in Clients |-> TEAM_SPECT]},
                  rested : {[c \in Clients |-> TRUE]},
                  bans : {[h \in Hosts |-> FALSE]}, nextmap : {FALSE}, forced : {FALSE}, interm : {FALSE}]

\* A peer takes an empty slot.  A peer that was restarted may be there twice.
Connect(c, a) ==
    /\ ~valid_client(world, c)
    /\ Cardinality(WithAddress(world, a)) < 2
    /\ addr' = [addr EXCEPT ![c] = a]
    /\ world' = [world EXCEPT !.conn[c] = "connecting", !.role[c] = "DEFAULT",
                              !.vote[c] = "NEUTRAL", !.rested[c] = TRUE,
                              !.team[c] = TEAM_SPECT]
    /\ cast' = cast \ {c}
    /\ UNCHANGED <<curvote, map_queued>>

\* The disconnect of a duplicate connection during SV_CONNECT, if there is one.
WithoutDuplicate(v, w, c) ==
    LET dups == WithAddress(w, addr[c]) \ {c}
    IN  IF dups = {} THEN {[v |-> v, w |-> w]}
        ELSE UNION {Evaluated(v, Zapped(w, d), FALSE) : d \in dups}

\* SV_CONNECT is accepted, with the admin password or without.  The game the first
\* client starts is NextGame.
Welcome(c, admin) ==
    /\ world.conn[c] = "connecting"
    /\ world.bans[Host[addr[c]]] => admin
    /\ \E o \in WithoutDuplicate(curvote, [world EXCEPT !.conn[c] = "playing",
                                                        !.team[c] = TEAM_SPECT], c) :
         Becomes(IF admin /\ valid_client(o.w, c)
                 THEN Evaluated(o.v, [Promoted(o.w, c) EXCEPT !.bans[Host[addr[c]]] = FALSE], FALSE)
                 ELSE {o})
    /\ UNCHANGED <<addr, cast, map_queued>>

\* The slot is emptied, the vote not looked at.
Disconnect_Bug(c) ==
    /\ valid_client(world, c)
    /\ world' = Zapped(world, c)
    /\ UNCHANGED <<curvote, addr, cast, map_queued>>
\* disconnect_client, for whatever reason.
Disconnect(c) ==
    /\ valid_client(world, c)
    /\ Becomes(Evaluated(curvote, Zapped(world, c), FALSE))
    /\ UNCHANGED <<addr, cast, map_queued>>

\* SV_SETADMIN: the role is claimed with the password or given back.  A claim without a
\* password changes nothing, but evaluates the vote too.
SetAdmin(c, claim, password) ==
    /\ world.conn[c] = "playing"
    /\ IF claim THEN password => world.role[c] # "ADMIN"
                ELSE ~password /\ world.role[c] = "ADMIN"
    /\ Becomes(Evaluated(curvote,
                         IF claim /\ password THEN Promoted(world, c)
                         ELSE IF claim THEN world ELSE [world EXCEPT !.role[c] = "DEFAULT"],
                         FALSE))
    /\ UNCHANGED <<addr, cast, map_queued>>

\* The arguments a type of vote has; the others are given one value.
Argument(type, c, target, reason, t) ==
    /\ type \in {"map", "nextmap", "rembans"} => target = c
    /\ type # "forceteam" => t = TEAM_SPECT
    /\ reason => IsBoot(type)

\* SV_CALLVOTE, accepted.  Whether nvotes, VOTEE_WEAK or a disabled type refuses a call is
\* left open, and a refused call changes nothing else.
CallVote(c, type, target, reason, t) ==
    LET v == [type |-> type, owner |-> c, by |-> addr[c], target |-> target,
              named |-> addr[target], team |-> t, age |-> 0, result |-> "NEUTRAL",
              wasvalid |-> IsBoot(type) /\ reason /\ Touchable(world, target)]
    IN  /\ world.conn[c] = "playing"
        /\ Argument(type, c, target, reason, t)
        /\ ActionValid(v, world)
        /\ IsBoot(type) => target # c
        /\ type \in AdminTypes => world.role[c] = "ADMIN"
        /\ ~Pending(curvote)
        /\ type = "nextmap" => ~map_queued
        /\ world.rested[c] \/ world.role[c] = "ADMIN" \/ numclients(world) = 1
        /\ curvote' = v
        /\ map_queued' = (map_queued \/ type = "nextmap")
        /\ world' \in {[w EXCEPT !.rested[c] = FALSE] :
                         w \in {world} \cup (IF type = "map" THEN {GameStarted(world)} ELSE {})}
        /\ cast' = {}
        /\ UNCHANGED addr

\* A call for the next map of the rotation ("+1") with a mode that is not 0 starts that game to
\* find out which map it is, even if the call is refused then.
CallStartsGame(c) ==
    /\ world.conn[c] = "playing"
    /\ world' = GameStarted(world)
    /\ UNCHANGED <<curvote, addr, cast, map_queued>>

\* SV_VOTE.  svote does not ask whether the vote was decided already.
Vote(c, b) ==
    /\ curvote # NoVote /\ world.conn[c] = "playing"
    /\ world.vote[c] = "NEUTRAL"
    /\ cast' = IF Pending(curvote) THEN cast \cup {c} ELSE cast
    /\ Becomes(Evaluated(curvote, [world EXCEPT !.vote[c] = b], FALSE))
    /\ UNCHANGED <<addr, map_queued>>

\* The team of a client changes for a reason of its own.
ChangeTeam(c, t) ==
    /\ valid_client(world, c) /\ t # world.team[c]
    /\ world' = [world EXCEPT !.team[c] = t]
    /\ UNCHANGED <<curvote, addr, cast, map_queued>>

\* The vote outlives its time.
Tick_Bug ==
    /\ Pending(curvote) /\ curvote.age <= LifeTime
    /\ curvote' = [curvote EXCEPT !.age = @ + 1]
    /\ UNCHANGED <<addr, cast, map_queued, world>>
\* servmillis advances: the vote gets older.
Tick ==
    /\ Pending(curvote) /\ curvote.age < LifeTime
    /\ curvote' = [curvote EXCEPT !.age = @ + 1]
    /\ UNCHANGED <<addr, cast, map_queued, world>>

\* The minute after a call is over, or a ban is.
Expire ==
    \/ /\ \E c \in Clients : ~world.rested[c] /\ world' = [world EXCEPT !.rested[c] = TRUE]
       /\ UNCHANGED <<curvote, addr, cast, map_queued>>
    \/ /\ \E h \in Hosts : world.bans[h] /\ world' = [world EXCEPT !.bans[h] = FALSE]
       /\ UNCHANGED <<curvote, addr, cast, map_queued>>

\* The block of serverslice about curvote, when it has something to do: isalive() is over
\* or the vote was decided.
VoteSlice ==
    /\ curvote # NoVote
    /\ curvote.age = LifeTime \/ ~Pending(curvote)
    /\ \E o \in Evaluated(curvote, world, TRUE) :
         /\ curvote' = IF Pending(o.v) THEN o.v ELSE NoVote
         /\ world' = o.w
    /\ UNCHANGED <<addr, cast, map_queued>>

\* checkintermission: the time is up, or a vote wants the game to end.
GameOver ==
    /\ ~world.interm \/ world.forced
    /\ world' = [world EXCEPT !.interm = TRUE, !.forced = FALSE]
    /\ UNCHANGED <<curvote, addr, cast, map_queued>>

\* The intermission ends with the next map or the rotation.
NextGame ==
    /\ world.interm
    /\ world' = GameStarted(world)
    /\ map_queued' = FALSE
    /\ UNCHANGED <<curvote, addr, cast>>

\* resetserverifempty.
ResetIfEmpty ==
    /\ \A c \in Clients : ~valid_client(world, c)
    /\ world' = GameStarted(world)
    /\ UNCHANGED <<curvote, addr, cast, map_queued>>

Next ==
    \/ \E c \in Clients : \/ \E a \in Addrs : Connect(c, a)
                          \/ \E admin \in BOOLEAN : Welcome(c, admin)
                          \/ Disconnect(c)
                          \/ \E claim, password \in BOOLEAN : SetAdmin(c, claim, password)
                          \/ \E b \in {"YES", "NO"} : Vote(c, b)
                          \/ \E t \in Teams : ChangeTeam(c, t)
                          \/ CallStartsGame(c)
    \/ \E c, target \in Clients, type \in VoteTypes, reason \in BOOLEAN, t \in Teams :
          CallVote(c, type, target, reason, t)
    \/ Tick \/ Expire \/ VoteSlice \/ GameOver \/ NextGame \/ ResetIfEmpty

\* serverslice comes round for ever, and time passes.
Fairness == WF_vars(Tick) /\ WF_vars(VoteSlice)

Spec == Init /\ [][Next]_vars
FairSpec == Spec /\ Fairness

-----------------------------------------------------------------------------
(* Properties.                                                             *)

\* Types of the state.
TypeOK ==
    /\ curvote \in Votes \cup {NoVote}
    /\ addr \in [Clients -> Addrs]
    /\ cast \subseteq Clients
    /\ map_queued \in BOOLEAN
    /\ world \in Worlds

\* A pending vote belongs to a client that is there, and it is the one that called it, not
\* the next one in the slot: evaluate() reads clients[owner] and its role unchecked.
OwnerPresent ==
    Pending(curvote) => /\ world.conn[curvote.owner] = "playing"
                        /\ addr[curvote.owner] = curvote.by

\* adminvote is the ballot of the last admin in the list, which is right if there is one.
OneAdmin ==
    /\ Cardinality({c \in Clients : world.role[c] = "ADMIN"}) <= 1
    /\ \A c \in Clients : world.role[c] = "ADMIN" => valid_client(world, c)

\* As long as every ballot was cast on this vote, no majority and no admin's veto waits to
\* be noticed: whatever tips the balance - a ballot, somebody who leaves, a new admin -
\* evaluates the vote in the same step.  (A boot may wait for its target.)
MajorityActs ==
    (/\ Pending(curvote) /\ ~IsBoot(curvote.type)
     /\ {c \in Clients : valid_client(world, c) /\ world.vote[c] # "NEUTRAL"} \subseteq cast)
    => LET total == numclients(world)
       IN  /\ 100 * Tally(world, "YES") <= 51 * total
           /\ 2 * Tally(world, "NO") < total
           /\ ~AdminVotes(world, "NO") /\ ~AdminVotes(world, "YES")

Passes == Pending(curvote) /\ curvote' # NoVote /\ curvote'.result = "YES"
Gone == {c \in Clients : valid_client(world, c) /\ ~valid_client(world', c)}

\* What a vote does, it does to the peer it was called on, though slots change hands while
\* it is pending.  (A disconnect that decides a vote is the end of its own client, too.  And who
\* comes in with the admin password may decide a vote for another admin by the disconnect of its
\* duplicate, and takes the role from it in the same handler.)
OnlyTheNamed ==
    [][Passes => LET named == {c \in Clients : addr[c] = curvote.named}
                 IN  /\ curvote.type = "giveadmin" =>
                            \A c \in Clients : world'.role[c] = "ADMIN" => c \in named \/ Welcome(c, TRUE)
                     /\ curvote.type = "forceteam" =>
                            \A c \in Clients : world'.team[c] # world.team[c] =>
                               c \in named \/ world.conn[c] = "connecting"
                     /\ (\E c \in Clients : \/ \E b \in {"YES", "NO"} : Vote(c, b)
                                            \/ \E claim, password \in BOOLEAN : SetAdmin(c, claim, password))
                        => Gone \subseteq named]_vars

\* A vote that was decided is never decided again, although its own action - a kick, a
\* promotion - evaluates it, and so do all later events until the slice deletes it.
ResultStands ==
    [][curvote # NoVote /\ ~Pending(curvote) =>
          \/ curvote' \in {curvote, NoVote}
          \/ Pending(curvote') /\ curvote'.age = 0]_vars

\* Every vote comes to an end.
VoteEnds == []<>~Pending(curvote)

\* "already voted" is only said to those who answered this vote.  Not so: an answer that
\* arrives between the end of a vote and the slice that deletes it stays in the client.
FreshBallots ==
    Pending(curvote) =>
        \A c \in Clients : valid_client(world, c) /\ world.vote[c] # "NEUTRAL" => c \in cast

\* Actions cannot be done on admins.  Not so: a kick with a reason stays valid when its
\* target becomes the admin.
AdminsUntouched ==
    [][Passes /\ curvote.type \in {"kick", "ban"} /\ valid_client(world, curvote.target)
           /\ (\E c \in Clients \ {curvote.target} : \E b \in {"YES", "NO"} : Vote(c, b))
       => world.role[curvote.target] # "ADMIN"]_vars

\* A vote for a next map is refused with "the next map/mode is already set" only if it is.
\* Not so: map_queued is set when such a vote is called, and stays when it fails.
QueuedMapIsSet == map_queued /\ ~Pending(curvote) => world.nextmap
=============================================================================
