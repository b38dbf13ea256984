# A verification project for the aclua 1.2 server

aclua is a dedicated server for the game AssaultCube with a Lua interface. Its core is one thread:
`serverslice()` (src/src/server.cpp:4085) runs for ever; it processes timers and queued game events,
then takes the network events one by one - a connect, a packet (`process()`, 2762) or a disconnect -
and finally broadcasts what happened. There are no locks to get wrong, but the state is a set of global
variables (`clients`, `sflaginfos`, `curvote`, `nextmapname`, ...) which *every* handler may touch, and
handlers call each other: a ballot ends a vote, the vote kicks a client, the disconnect drops a flag and
evaluates the vote again. What is hard to test is the order in which such handlers meet, with slots of
`clients` that change hands in between. The models are about that.

## Inventory

| Component | State | Operations | Hard behaviour | What makes it correct |
|---|---|---|---|---|
| Flag modes (server.cpp:855-1184) | `sflaginfos[2]`: state, carrier, time, place | `flagaction`, `sdropflag`, `resetflag`, `htf_forceflag`, slice timers | every way to die, move, leave or reload must separate a client from its flag; the rest of a packet is handled after its sender was disconnected; two flags in one event | a carrier is present, alive, on the right side and carries one flag; flags come home |
| Votes and admin (server.cpp:2190-2432, serveractions.h) | `curvote`, `client::vote`, `role`, `lastvotecall`, `map_queued` | call, ballot, evaluate, end, slice; role changes | `evaluate` is called from connects, disconnects and role changes, and re-entered by the action it performs; slots change hands while a vote is pending | a decided vote stays so; it hits whom it named; its owner is its caller; it ends |
| Connections, authentication, bans (2151-2165, 2464-2900, 3904-3941) | `clients`, `bans`, `isauthed` | connect, SV_CONNECT, disconnect, ban | duplicates of a peer, reuse of slots, expired bans | one live slot per peer, no banned player |
| Saved scores (303-331, 2594; server.h:164-209) | `savedscores`, scores in `clientstate` | find, save, restore | two connections of one player; a map download in between | a score belongs to one connection and is not lost |
| Teams and spawns (1639-1960) | `team`, `forced`, sizes | `updateclientteam`, `canspawn`, refill, balance, shuffle | several moves within one loop that counted before | sizes stay within the rules |
| Game cycle (1962-2097, 3918-3941, 4148-4163; serverfiles.h) | mode, map, clock, intermission, next map | start, intermission, vote, reset | a vote, the clock and the last disconnect end a game in any order | one next game, with the map that was set |
| Weapons and events (serverevents.h, 1520-1617, 3249-3321) | event queues, ammo, wait times, grenades | queue, process, damage | events are processed later than they were sent, on slots that moved on; queue limits | a hit hits the life it was aimed at; ammo is never negative |
| Items and arena rounds (1252-1319, 1454-1518) | `sents`, `arenaround` | pick up, respawn, round check | two pickups in a slice; the last opponent leaves | one owner per item; a round ends |
| World state (84-212) | `worldstates`, use counts | build, clean | callbacks of ENet free a shared buffer | a buffer lives as long as its packets |
| Lua timers (lua_tmr_library.cpp) | timers, deferred lists | create, after, remove, tick | handlers change the list that is being walked | a tick fires each timer that was due, once; what fires once leaves |
| Lua hooks (lua.cpp) | - | hooks around every handler | scripts may do anything | out of scope |

The rest - demos, chat and spam, anti-cheat and points, wire encoding, configuration files, master
servers, streams, crypto, process control, vendored libraries - is listed with reasons in PROJECT.json.

How they interact: `process()` and `serverslice()` call everything. `disconnect_client` is the busiest
crossing: it drops a flag, saves a score, empties the slot and evaluates the vote. `updateclientteam` is
called by players, votes, balancing and the start of a game, and drops flags. `startgame` resets flags,
next map, teams and lives. Votes call all three.

## Modules

| Module | Models |
|---|---|
| Protocol | the small enumerations and macros of entity.h and protocol.h |
| FlagGame | the flag modes |
| FlagPromise | what the flag modes promise to players: the abstract specification FlagGame implements |
| Voting | votes, ballots, the admin role, and the slots they refer to |
| Connections | who gets in, bans, seats, and where every point of the score table ends up |
| WorldState | the shared buffers of the broadcast |
| Combat | the queues of game events, hits, grenades, kicks in the middle of a queue |
| Guns | the waits of guns through shots, reloads and lives |
| Items | items, magazines and stocks |
| Arena | the rounds of the arena modes |
| GameCycle | clock, intermission, votes for maps, rotation |
| LuaTimers | the timers of Lua scripts |
| Teams | the sizes of teams: wishes, spawns, matches, evening out |
| MCFlagGame, MCVoting, MCLive, MCConnections, MCCombat, MCSlice | instances for TLC |
| FlagGameProofs, VotingProofs, ConnectionsProofs, WorldStateProofs, TeamsProofs | theorems and their proofs, about the module of that name |
| CombatProofs, SliceProofs | theorems and their proofs: Combat and Items; LuaTimers, Arena, GameCycle and Guns |
| Loops | lemmas about loops: least numbers, induction up to a number, the states a loop passes |

Each action is one handler, or one block of `serverslice`, from beginning to end: nothing runs in
between. `startgame` in the flag modes, for instance, resets flags *and* moves players *and* kills everybody.
Two loops are taken in steps, because handlers change what they walk over: `processevents` in Combat and
`tmr_tick` in LuaTimers. While one of them is under way nothing else of its module runs.

How the modules meet: an event that crosses components is in each module what it does to that module's state.
`startgame` resets flags (FlagGame), lives and rounds (Arena), waits (Guns), items (Items), queues (Combat), scores
(Connections) and the next map (GameCycle); a disconnect drops flags, saves a score, decides a vote, leaves a round. What
one module needs of another is open in it: FlagGame does not ask whether a shot had a round in the magazine, Combat
does not ask where the target stood. Where components really act within each other, they are in one module:
a team killer's kick decides a vote that starts the next game in the middle of `processevents` (Combat), and a kick
by vote evaluates the vote that is being carried out (Voting).

**A silent start.** A call of a vote for the map "+1" asks the rotation for its next line (3675) with `notify` false. With
a mode other than 0 in the message this already *starts* that game, whether or not the vote is ever decided, and tells
no client. Flags, spectators and scores of clients stay as they are; the clock, the items, the saved scores and the next map do not.
So there is `StartSilently` in FlagGame, Arena, Combat, Connections and Guns, `BeginsSilently` in Teams, an alternative of `NewGame` in Items, and
`CallStartsGame`/`CallNext` in Voting and GameCycle. The clock being set back, events older than the last one are
dropped, and every death counts as recent, until the clock has caught up.

### FlagGame

State: `flag[f]` is the entry of `sflaginfos` (its `lastupdate` as an age in ticks, its `pos` as the one bit
whether it is a place on the map); `conn`, `team` and `life` are `type`/`isauthed`, `team` and
`state.state` of the clients; `pending` is `lastspawn >= 0`; `placed` tells whether `o` was set since the
last `respawn()`; `running` is `minremain > 0`; `loaded` is `smapname[0]`. `zombie` is the sender of a packet
whose loop goes on after a disconnect of that sender: `process()` (2907) does not look at `type`
again, so all handlers have to be harmless on an empty slot. `gain` is a history variable, the flag
points of the last step.

`FlagAction` is `flagaction` branch by branch, as a function of the flags, because other handlers call it
in their middle (`serverdamage` calls it for the victim and then, if a team killer is banned, for the
killer). The actions are the messages that matter (SV_SWITCHTEAM, SV_TRYSPAWN, SV_MAPIDENT, SV_SPAWN,
SV_POS, SV_EDITMODE, SV_RECVMAP, SV_FLAGACTION), connect, welcome and disconnect, a death, a move by the
server, the flag block of the slice, the intermission, the start of a game and the reset of an empty server.

Left open (nondeterministic): the outcome of distance checks; whether a wish is granted
by the rules of spawns and team sizes; who is moved, who is hit. A duplicate connection and a full
server disconnect somebody within the handler of another's SV_CONNECT: here that is a `Disconnect`
followed by the `Welcome`, which adds a state in between and removes none.

FlagPromise says what a player may rely on: a flag is in its base, carried, on the ground or idle; it
never passes from one carrier straight to the next, goes to the base from the ground, a carrier
is present and carries one flag. `KeepsPromise` is that specification under the mapping
`where`, `carrier`, `present` at the end of FlagGame.

### Voting

`evaluate()` is called from the middle of other handlers, so everything it reads and writes is the
record `world`, and `Evaluated(v, w, forceend)` gives the set of outcomes `[v, w]` of an evaluation of
vote `v` in `w`. `End` is `voteinfo::end` in the order of the code: the action is checked, the result stored,
the action performed - its inner calls of `evaluate()` find a decided vote, so they do nothing -
and the ballots cleared. `Decide` holds the three conditions under the names of the macros.

`addr[c]` is the peer of a slot, kept when the slot is emptied, as the code keeps `peer->address`;
`Host` maps peers to hosts, because a kick is checked against the host and carried out against
the address. `by` (in a vote) and `cast` are history variables: the peer that called the vote, and who
answered it. Both are used in properties only. A peer may be in two slots, until SV_CONNECT removes the older.

A map vote on a running game either starts the next game or forces an intermission; which one depends on
the clock, which is left open, as is the end of a game (`GameOver`). Refusals that depend on kill ratios or
on the number of calls (VOTEE_WEAK, `nvotes`) are left open: they change nothing else. Votes for master mode, autoteam,
shuffling, demos and the server description share `voteinfo` and touch nothing a vote reads.

A Lua hook may veto or do anything, `Lua_endVote` included (it calls `end()` on a vote that may be decided already).

### Connections

State: `clients`, `savedscores`, `mastermode`, `bans`. A score is the set of points in it, and each point is made once, so
that doubling and loss can be told. `Join` is the whole decision of SV_CONNECT: the ban is looked up, a reconnecting
player of a match is recognised, passwords lift bans or make room in a full server, duplicates of the peer are
removed, the score is restored - in this order. Whether a name or a password is on a list is an input. `Left`, `Saved` and `Restored`
are `disconnect_client`, `savedscore::save` and `restorescore`, on tables `[cs, saved]`, because handlers do
several of them in a row.

Bans all last equally long, so those that are expired are the first of the list. `GetBanType` is the loop that removes
an expired ban and goes on through the reference to the removed place: the vector has moved the next ban into that place, so
it is the next one's host and type that are looked at - or, if nothing moved in, the removed ban's own.

### WorldState

`Build` is `buildworldstate` for both channels: the chunks are gathered in one buffer, it is doubled, and each receiver gets the
window behind its own chunk. A packet is a window of a buffer (offset, length), `worldstates[id].uses` the counter;
ENet (`src/enet`) destroys packets one by one (`Delivered`) or, as it resets the queues of a peer, all at once (`PeerGone`,
and `Leaves` by `enet_peer_disconnect`), and calls back (`Cleaned`). Its protocol is not modelled. `old` marks what a client before this one
in the slot has left behind. Two world states may be on the way at once.

### Combat

State: `world` is what an event reads and changes - slots, lives and life sequences, queues, lists of grenades - and `pc` where
`processevents` is: a client and, within a shot, a hit. Times of events are abstracted: an event at the head is due, not
yet due, or too old. A member of a queue is a record with the union's type; the dummy that `addevent` hands out
when the queue is full is the event that does not arrive, while its hits may. `over`, `renewed` and `of` are
history. `young` is the first 300 ms of a game, in which `isalive` holds of everybody, since `lastdeath` is 0. Neither
SV_TRYSPAWN nor `sendspawn` looks whether the client is dead, so `Respawn` does not either. What is in an emptied slot
and not read again is set to one value.

A kick in the middle of a queue may decide a vote (`Left`), which then starts a game, kicks another client, or forces teams: by
`forceteam`, `shuffleteams`, `autoteam` or a change of master mode, where any of those who are there may be forced to die
(`ForcedDead`). Other votes change nothing here. Clients are taken to name only lives that have begun: a hit is on the present
life of its target or on the one before (`HitsOf`), since a client learns the number of a life from SV_SPAWN, which the server
passes on. A client that guesses the number of a later life is not modelled.

### Guns

`gunwait` is relative to `lastshot`, the last shot of *any* gun; every shot and reload rebases all of them. `until` is
history: what each gun's own shots and reloads alone say. Each event takes the time its client gives it, not before
the event before it and not after `gamemillis`. The test for SV_PRIMARYWEAP (3128) can never be true, so there is no action for it.

### Items

`sents` with the time until an item lies there again, `mag` and `ammo` per kind, and history: what a client was given, and how often
each item was taken since the last start. `ItemsGrow` is `checkitemspawns`, `AllFresh` what a new game does, `NewRound`
puts all items forward by a minute. Of the arena modes only last swiss standing has items (`m_lss`), all of them grenades; in
survivor (`m_lms`), where there are none, `spawnstate` gives two grenades to `ammo`, while throwing needs them in `mag`. Health, armour and the second pistol as items are left out.

### Arena

Per client what `arenacheck` looks at; `arenaround` is "fought" (0), "won", and "due" once the five seconds are over. `recent` is
`lastdeath` less than half a second ago. `freshgame` and `isonrightmap` decide whether a client gets a spawn state when it reports the
right map. `updateclientteam` asks for a spawn state while the client still is a spectator, which `sendspawn`
refuses: changing teams gives no life. `lived` is history.

### GameCycle

A map stands for map and mode. `Slice` is what the slice does in its order: the clock, the check once a minute, the forced check,
the end of an intermission. `next_line` is the loop over the rotation, three rounds that give up `minplayer` in the second
and everything but usability in the third, written as the least index of a turn whose line suits; `GetNext` adds
the lines to skip. The file may be read again at any time (`Reread`); `read()` empties the rotation before `load()`, and a file
without a usable line ends the server, so it has one. Game limits are whole minutes, hence the check that notices the end comes at
the end. `promise` is history: what the last vote has chosen for the next game.

### LuaTimers

The array `timers`, the two deferred lists, and the index of the timer whose handler runs. `Fire` is one handler: it may put a
creation, some removals, or both on the lists, which `EndTick` applies in the code's order: first removals by number, in which
the one that moves into a removed place is skipped, then creations. `key` tells timers apart whatever numbers
scripts give them. A once-timer that shares its number may therefore fire again: its removal may hit the other.

### Teams

`member[c]` is a client's connection, team, whether it has the right map, and whether it has a flag. The two counts of a team
are kept apart: `numteamclients` leaves out who is still loading the map, `refillteams` does not. `PlayerWish` holds the rules of
sizes of `updateclientteam`, `SidesFor` its choice of a side, `MaySpawn` is `canspawn` without times. `Refills` is `refillteams` with
`balanceteams` behind it. Functions that move several clients (`Shuffled`, `Balanced`, `Evened`, `Shrunk`) give the set of
their outcomes, as which player fits best depends on scores. `overdue` and `balance` are `lasttime_eventeams` and
`lastbalance` as far as they matter: since `balanceteams` waits for two minutes at least after it has done
something, slices without it come in between (`BalanceGetsDue`, `Rests`). Coop editing, where everybody always has the right map, is
left out; `private` is `open`, except that `balanceteams` does nothing then. `welcomepacket` would give a returning player of a
match its side back, but its `sc` is never set, so everybody begins as a plain spectator.

### Conventions

`X_Bug` is the definition `X` with a plausible mistake. Such definitions are in no model: PROJECT.json pairs each
property with one, to see that the property would notice.

Map entries name the main lines of a definition; where a handler is spread, its symbol names the other lines.

Lua hooks are taken to be absent everywhere.

## Runs

| Run | Checks | Instance | Distinct states |
|---|---|---|---|
| flags | TypeOK, CarrierInPlay, CarrierSide, OneActiveFlag; KeepsPromise | 2 clients, teams CLA, RVSF, SPECT, ctf + htf + tktf, all of SV_FLAGACTION | 0.16 million |
| flags_live | DroppedComesHome, KeeperIsPaid, HuntedFlagIsOut | 2 clients, one side, htf + ktf | 40 k |
| flags_place | DroppedOnMap, violated | htf; the clients only drop | - |
| votes | TypeOK, OwnerPresent, OneAdmin, MajorityActs; ResultStands | 3 slots, 2 peers on one host, kick and giveadmin | 0.43 million |
| votes_named | OnlyTheNamed | 2 slots, 2 peers on one host, ban, giveadmin, forceteam | 0.98 million |
| votes_live | VoteEnds | 2 slots, 1 peer, ban, map, nextmap, rembans | 0.46 million, together with |
| | MatchSizesHold, TeamsEvenOut | 3 clients, match sizes 0 (no limit) and 1, players forced to RVSF | |
| votes_ballots, votes_queue, votes_admins | FreshBallots, QueuedMapIsSet, AdminsUntouched, all violated | 2 or 3 slots | - |
| connections | SeatsHold, OnlyTwinsDouble, LostOnlyInShadow, BansHold | 3 slots for 2 seats, 3 peers on 2 hosts in one /16, 2 names, 1 point, 2 bans | 0.20 million, together with |
| | BuffersInUse, EverybodyElse, NothingLost | 2 slots, 2 world states on the way | |
| combat | QueuesSound, HitsTheLifeAimedAt, NoExplosionWithoutThrow, SliceEnds | 2 clients, queue limit 2, 2 hits, a list of 1 grenade with 2 in the air; the sender uses guns and kills itself, or uses grenades | 0.59 million, together with |
| | SuppliesAccounted | 2 clients, one item, a box or (in lss) grenades, clock to 2, 2 rounds given | |
| slice | TickIsWhole, OnceEnds | 2 numbers with periods 1 and 2, 3 timers, 2 removals | 0.18 million, together with |
| | OneLifePerRound, NobodyKeptWaiting | 2 players, team and other modes | |
| | RotationFits, PromisedIsPlayed, NextGameComes | 3 maps, one of them coop, 2 rotations, 3 clients | |
| | GunsAreReady | 3 guns, one without a magazine, clock to 4 | |

The runs votes_live, connections, combat and slice hold several modules that share no state. A behaviour is of one `part`, the variables of the others
stay where they began: TLC explores the sum of the parts, not their product. The type
invariants of the parts are collected in PartsTypeOK and SliceTypeOK; Voting's is checked in votes; that of Teams,
`TeamsInv`, is stated and proved in TeamsProofs.

**Bounds.** Time is counted in ticks, and the limits are 0 ticks (age > 0 fires) with `MaxAge = 1` in the flag
modes, `MinTime = 0` and `LifeTime = 1` for votes: a timer may fire one tick after it was set and everything may
happen before and after. A larger limit only repeats the states between. Two clients are
enough for the flag modes since no handler relates more than two (a victim and a killer, or a client and
the carrier of the other flag), and there are two flags; the proofs below do not depend on it. Votes need a
caller, a target and a third party, hence three slots where a majority matters, and two peers so that a slot
can change hands. `Crowd` is lowered from 4 to 2, so that the condition for large minorities is reached.

Connections: three slots are two seats and the one in which a newcomer waits; the three peers are two of one host and one
elsewhere; a point is told from another only by where it is, so one is enough, and `Bounded` keeps at most two saved
scores, and the part with bans apart from that with points (the list of bans does not depend on scores, and a ban's
disconnect saves one like any other). Combat: a queue of two
overflows with the second event or its hits, a list of one grenade with the second; a behaviour of it sends shots and suicides, or
throws and explosions (`part` again), since what the two kinds of event share is the queue, and either kind fills it - queues with both
kinds are left to the proofs, which are about `Combat` as it is; the first client has a queue and
both may be hit, by themselves too; `MaxLife` is 1, so a target is at most once spawned again. Items: a slice takes up to 2 of
the clock, so an item may be back at once, just in time or late; `MaxGiven` caps a history counter. LuaTimers: three timers are
the one that is removed, the one that moves into its place, and one more. Arena: two players are two sides, one
side, or one who is alone. GameCycle: the rotations are such that lines are skipped, that for some number of players no line fits,
and that one is shorter than the other when it is read anew; three clients take every line in and out of its limits.
Teams: three clients make teams that differ by two and three, and a team of one is
exceeded by the second; votes force players to one side only, so that MatchSizesHold can tell the other one, and wishes fill both.
Guns: delays of 1 to 3 in a clock of 4, so that waits overlap and end in between; `MaxWait` keeps reloads from piling up.

**Symmetry and views.** Slots are interchangeable in what the models say, except that `addclient` takes the
first free one and `findcnbyaddress` finds the first: the models let any of them be taken, which makes the set of
behaviours symmetric and larger. The runs with liveness use no symmetry. `LiveView` drops what no guard and no
checked property reads: the remains in empty slots, the carrier of a flag that is not carried, and the
history `gain` and `placed` where no property looks at them (`PaidView` keeps `gain`).

**Fairness.** `serverslice` comes round for ever, so `Tick` (the clock), `FlagTimers` and `VoteSlice` are weakly
fair, and so is the start of the next game after an intermission, which the slice does by itself when the time
is up. So are the other blocks of the slice: the turns of `processevents` and `tmr_tick` (handlers return), the
passing of time of timers and of the game's clock, the two halves of `arenacheck`, the forced check of the intermission, and the evening out of teams, which
the slice comes to every five seconds (`SliceRefills`; `GetsOverdue` is the time it waits). Nothing is
assumed of clients: they may stay silent, leave, or send for ever. (An intermission does
not last: `gamemillis > interm` becomes true.)

In a run of several parts each of these is stated of the part it belongs to, when that is the one that runs (`part = ... /\ A`): the
others stand still.

What that leaves to clients is in the properties. `HuntedFlagIsOut` excludes that silent starts follow each other for
ever, since each resets the flags; so does `TeamsEvenOut`, since each puts back the clock by which teams are uneven for long. `NobodyKeptWaiting` is about players that are not kept waiting by a death less than half a
second ago: SV_SUICIDE does not look whether its sender is dead already, and each one sets `lastdeath` anew, so that a dead client can
postpone the end of a round as long as it likes.

**Messages.** In `flags` every action `process()` passes on is sent in every mode, also those no game client
sends (the test is `action > FA_NUM`, so FA_NUM itself gets through and only sets the timer). In `flags_live`
clients send what a client has a use for in that mode, without SV_EDITMODE: a client that keeps sending
FA_NUM sets the timer of a flag for ever, and the three liveness properties do not hold against that.

### What the violated properties show

- `DroppedOnMap`: a client that `htf_forceflag` makes carry the flag may not have sent a position since its spawn;
  dropped, the flag lies at the marker (-1e10, ...), which `flagdistance` takes for "position unknown, do not check".
- `FreshBallots`: an answer between the end of a vote and its deletion stays with the client. It counts in the next vote.
- `AdminsUntouched`: a kick called with a reason stays valid for ever, also when its target has become the admin.
- `QueuedMapIsSet`: `map_queued` is set by the call of a vote for the next map; if it fails, later calls are refused.

### What the exceptions in properties show

Several properties hold with an exception that is a behaviour of the code worth knowing:

- `OnlyTwinsDouble`: `findscore` takes the score of a connection that is still there and has the newcomer's name and
  host, so two players behind one address can double a score by taking one name.
- `LostOnlyInShadow`: SV_RECVMAP saves the score, zeroes the client and restores nothing; when the client leaves, the
  zero overwrites what was saved. So does a change of name, or a twin.
- `OnlyTheNamed`: who comes in with the admin password is admin whatever is voted. This can be in the same handler in
  which a vote gives the role to the client it named: SV_CONNECT disconnects an older connection of that peer, which decides the
  vote, and then makes the newcomer admin. That takes four slots, and was found by the proof, not by the run of two.
- `BansHold`: an expired ban may still turn away a player, once, because of the reference in `getbantype`.
- `HitsTheLifeAimedAt`: a life sequence starts from 0 again when a slot is reset, so a hit may harm its next client.
- `TickIsWhole`: what is removed is gone only while no two timers share a number.
- `MatchSizesHold`: a player that loads the map does not count, so its place in a team may be taken meanwhile, and then the team
  is too large. And who changes from RVSF to the plain spectators may come back as CLA, since `team_base` takes
  those for CLA, though a comment (1691) says that sides cannot be switched.
- `PromisedIsPlayed`: calling a vote for "+1" takes back what was voted before, without a ballot.

## Proofs

Every safety invariant and every action property of the passing runs is a theorem, and so is the refinement
`KeepsPromise`: for every value of the constants that satisfies the named assumptions of the modules. These are weak: slots are
a finite set, hosts are given to peers, limits and times are numbers, the teams of a mode are among the teams.
Where a bound caps a counter (`MaxBans`, `MaxTimers`, `MaxTime`), it is any number.
TLC was asked about each inductive invariant first.

None of the properties is inductive by itself, for one reason: it holds between handlers, and handlers call each other. So
most invariants are stated of a value (a vote and a world, a table of clients, a queue), not of the variables, and can be said
of the values in the middle of a handler. The lemmas follow the calls: what one function preserves, then a handler, one
lemma per action, then `Inductive` (the step) and `Invariant` (the behaviours).

**FlagGameProofs** (`TypeCorrect`, `CarriersArePresent`, `CarriersAreOnTheRightSide`, `OneFlagIsActive`).
That a dying client leaves its flag needs that `sdropflag` finds it,
hence that the client carries one flag only, hence `CarrierSide`; that needs the shape of the flags in keep the flag,
where both flags may be carried by anybody but one of them is idle. And the messages of a packet whose sender is gone must not hand it a flag:
`ZombieGone` (such a sender's slot is empty, so `deadactor` is true) and `Newcomers` (a client that is still connecting is
not alive, so that the server never makes it carry a flag).
The inductive invariant is

    IInv == TypeOK /\ FlagsOK(flag) /\ Newcomers /\ ZombieGone

where `FlagsOK(fs)` collects the three properties as a predicate of the flags. Each branch of `FlagAction`
preserves `FlagsOK`; `sdropflag` and `resetflag` preserve it and leave the client without a flag; a change of
team or life that follows preserves it for a client without flags.

The same module proves the refinement (`FlagsKeepTheirPromise`: FlagGame implements FlagPromise). The invariant above says that what the
mapping shows is `Honest`. Each handler then either only takes flags away (`Loses`), and such moves compose
(`LossesCompose`: a victim's death and the killer's ban within one handler are one step outside), or makes one move per flag
(`Legal`), a message or a timer. Both are steps `Play` of the promise, and the start of a game is `NewGame`.

`DroppedFlagsLieStill` is about a flag on the ground: `sdropflag`, `resetflag` and whatever is done to the other flag leave
it alone (`SeparationsLieStill`, `OthersLieStill`: the flag that is carried is not the one that lies there), and a message either takes it away or leaves it as it is, except
for FA_NUM, which only sets back its time. So it gets older, and the slice takes it away (`SliceLiesStill`, `SliceNeverDrops`: the loop body of
the other flag does not drop it again).

**VotingProofs** (`VotesTypeCorrect`, `OwnersStay`, `NeverTwoAdmins`, `MajoritiesAct`, `ResultsStand`, `VotesHitTheNamed`, `VotesOnlyAge`). The parts of the invariant
`InOrder`: the world has one admin, who is there (`WorldOK`); a pending vote's owner is the connection that called it; and
while all ballots that count were cast on this vote, no majority and no veto is unnoticed (`Undecided`). What keeps it is
that every handler that changes who counts evaluates the vote, and that what is still pending after `evaluate()` is
open (`StillOpen`). Tallies are cardinalities, so the set of slots is assumed finite.
That a vote hits whom it named (`OnlyTheNamed`) needs more, `NamedThere`: the target of a pending vote that changes a role or a team
is still in its slot and is the peer it was called on, because `evaluate()` rejects the vote as soon as the slot empties.
`VotesOnlyAge`: an evaluation leaves a vote as it is or decides it (`SameOrDecided`), inner calls included, so that a vote
only gets older, and a forced one leaves none pending (`ForcedEnd`).

**ConnectionsProofs** (`ConnectionsTypeCorrect`, `SeatsAreKept`, `TwinsDouble`, `ScoresReturn`, `BansAreKept`; `PartsOfConnections`, `BothTypesCorrect`). The invariant:

    ConnInv == TableOK(Table) /\ SeatsApart(clients) /\ mastermode \in Modes
               /\ bans \in Seq(Bans) /\ Len(bans) <= MaxBans /\ Aged(bans)

`SeatsApart` does not say that seats are respected, which depends on the limit in force, but that no two clients that are in are the
same peer. SV_CONNECT removes duplicates one after the other, each with a disconnect that saves a score; `Departed` says what the clients and
the saved scores are after all of them, by induction over the loop. A point has places, the clients and the saved scores that have it: whoever leaves moves its points to one
place (`PlacesMove`), a newcomer's score is taken from one place or copied from a twin (`Restoring`), and what departures have
overwritten on the way was there at the beginning (`Origins`). For bans, `Aged` says that the expired come first, so that one number,
how many have expired, tells what the loop of `getbantype` removes and which ban it reads through the reference.

**WorldStateProofs** (`WorldTypeCorrect`, `BuffersStayInUse`, `EverybodyGetsTheRest`, `NothingGetsLost`).

    WorldInv == WorldTypeOK /\ IsFiniteSet(packets) /\ Unmixed /\ BuffersInUse /\ EverybodyElse

The senders are put in the buffer in the order of their slots. The place of a sender is the number of senders up to it:
that is strictly increasing, hence one-to-one and onto, hence the window of a client in the doubled buffer has each other sender exactly once.
`Unmixed`: what is left in a slot of the client before is marked as old until the slot's own client sends.

**CombatProofs** (`CombatTypeCorrect`, `HitsStayWithTheirEvent`, `NoHitOnALaterLife`, `GrenadesExplodeOnce`, `EachTurnGoesOn`; `ItemsTypeCorrect`,
`NothingForNothing`; `FightsAreTheirParts`, `PartsTypeCorrect`). `CombatInv` says of each queue that hits stand behind an event they can belong to, at most `MaxHits` in a run
(`HitsBehind`, `RunsEnd`), that no hit is aimed at a life that has not begun (`NotAhead`), that a grenade is
in the list no more often than it is in the air, and of `processevents` in the middle of a shot that the shot and the hits it has looked at
are still at the head of the queue (`AtHit`), even when the kick of a team killer has started a game or emptied the queue's own slot.
That `processevents` ends rests on a measure (`EachTurnGoesOn`): it comes to a later client, or the queue of the one it is at gets shorter, or
it looks at the next hit of the event at its head; and no event of a turn makes any queue longer (`NoLonger`), though kicks and new games
empty some.
Items keep two accounts, `Has` of a client's rounds and `PaidFor` of an item: the times it was taken, times the shortest time it
takes to come back, are at most the time that has passed plus what is left until it lies there again.

**SliceProofs.** Four modules that share a composed specification; `SliceIsItsParts` says that its behaviours are behaviours of
the four, and `SliceTypeCorrect` follows.

- Arena (`RoundTypeCorrect`, `OneLifeARound`, `WaitingRoundsGoOn`). `NoSecondStart`: whoever has the right map or has lived is not owed a start any
  more. While somebody waits, the guard of `EndRound` holds of a round that is fought, and the round only goes on: a new game
  takes the right map from everybody, and a silent start makes every death a recent one, so both end the waiting as the property means it.
- GameCycle (`CycleTypeCorrect`, `RotationAlwaysFits`, `PromisesKept`, `NothingHoldsTheGameOff`). The choice of the loop is a least turn, whose existence is
  well-foundedness of the naturals; remainders show that each round visits every line, so a line that suits in an
  earlier round comes before any of a later one. For promises: the map that is set for the next game is the promised
  one, and a pending vote or a forced intermission does not change it. For the end of a game: between two games the clock and the
  intermission only go on, a game whose time is over is in its intermission (`OverEnded`, inductive because the slice that finds the time
  over checks at once), and a slice past the intermission starts another.
- Guns (`WaitsTypeCorrect`, `GunsReadyInTime`). `gunwait[g] = max(until[g] - lastshot, 0)` for every gun.
- LuaTimers (`TimersTypeCorrect`, `TicksAreWhole`, `OnceTimersSink`). `TimersInv` says of the array and the list of creations that no two timers have one
  key (`KeysApart`), nor one number unless scripts have shared numbers (`IdsApart`); that between ticks the lists are empty (`Between`); and that in a
  tick exactly those that were due up to the running one have fired, once (`FiredSoFar`). `Ending` follows the removals one by one: each is a walk over an array that gets shorter, in which what moves into a
  removed place is skipped. A timer never moves up in such a walk, and one with the number that is removed does not stay where it was
  (`Sinks`); since what has fired and is to fire once is on the list of numbers (`Listed`), its place gets lower with each tick in which it is due, until it is gone.

**TeamsProofs** (`TeamsTypeCorrect`, `SizesHoldInMatches`, `LiveIsItsParts`). `TeamsInv`: types, and who is not let in yet is a spectator without map and flag.
With it, `MatchSizesHold` is a property of the steps: a team of a match grows by a wish or a spawn of one client, which was
counted before, or by one of the exceptions the property names; every other step leaves a team as it is or takes players from it.

**Loops.** The induction theorems of the library take a predicate as a parameter, which the installed provers cannot instantiate.
A loop is therefore a recursive function of the number of turns. That this function exists (`Iterated`), and that what
holds at 0 and from each turn to the next holds up to n (`UpTo`), follow from the well-foundedness of the naturals.

**Liveness.** Fairness needs ENABLED, which the prover cannot treat, so the nine liveness properties stay with TLC. Of six of them
the other half of the argument is proved: that what the fair steps bring nearer, no other step takes back.

| Property | Theorem | What only goes on |
|---|---|---|
| DroppedComesHome | DroppedFlagsLieStill | the age of a flag on the ground |
| VoteEnds | VotesOnlyAge | the age of a vote |
| SliceEnds | EachTurnGoesOn | the client, its queue, the hit |
| OnceEnds | OnceTimersSink | the place of a timer in the array |
| NobodyKeptWaiting | WaitingRoundsGoOn | fought, won, due |
| NextGameComes | NothingHoldsTheGameOff | the clock and the intermission |

**Compositions.** `SliceIsItsParts`, `PartsOfConnections`, `FightsAreTheirParts` and `LiveIsItsParts` say that a behaviour of an instance with several
parts is, for the variables of each part, a behaviour of that part's specification; so what is proved of the parts holds of what TLC runs.

Only model-checked: the liveness properties, and the four violated ones, for which TLC gives the behaviours.

## Plan

Done: all modules above, theorems for all their safety and action properties, for the compositions, and for the safety side of six
liveness properties. Left:

1. Items of health, armour and the second pistol, with the damage they absorb.
2. The safety side of the other three liveness properties (`KeeperIsPaid`, `HuntedFlagIsOut`, `TeamsEvenOut`), in which the measure is
   spread over two timers or over the sizes of teams.

## Not modelled

Positions and physics, points and medals, texts and their encoding, files, the demo recorder, master servers, Lua
hooks and, but for the life of ENet's packets in WorldState, all vendored code: see the notes in PROJECT.json. Most of the repository's lines are third-party code
(ENet, LuaJIT, Lanes, SDL and GL headers, GeoIP tables) or the parts of the client that the server shares headers with. Lua hooks
may end a vote with `end()` although it is decided, or close a state whose timers still exist; what a script does is open.
