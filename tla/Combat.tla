------------------------------- MODULE Combat -------------------------------
(***************************************************************************)
(* Shots, explosions and deaths.  Messages put game events into the queue  *)
(* of their sender; processevents runs the queues once a slice, client by  *)
(* client, event by event and hit by hit.  By then targets have died, come *)
(* back, or left their slot to somebody else; and an event may undo the    *)
(* client it belongs to: a team killer is kicked, the kick decides a vote, *)
(* and the vote starts the next game, all within one call of serverdamage. *)
(*                                                                         *)
(* processevents is one handler, taken here in steps: while pc is not Idle *)
(* nothing else runs.  The times of events are abstracted: an event at the *)
(* head of a queue is due, not yet due, or too old to count.  Whether a    *)
(* shot is accepted also depends on magazines and the waits of guns, which *)
(* are left open: PassEvent stands for a refusal.                          *)
(***************************************************************************)
EXTENDS Protocol, FiniteSets, SequencesExt

CONSTANTS
    NumClients,   \* the slots of clients are 1..NumClients
    QueueLimit,   \* a queue of more events than this takes no more (100)
    MaxGrenades,  \* the size of clientstate::grenades (8)
    Ids,          \* the numbers clients give to their grenades
    Sends,        \* [Clients -> the types of events they send]
    MaxHits,      \* bound: hits of one event
    MaxLife,      \* bound: lifesequence
    MaxAir        \* bound: grenades of a client in the air with one number

Clients == 1..NumClients

ASSUME SlotsAssumption == NumClients \in Nat \ {0}
ASSUME SendersAssumption == DOMAIN Sends = Clients
ASSUME LimitsAssumption == QueueLimit \in Nat /\ MaxGrenades \in Nat \ {0}
ASSUME CombatBoundsAssumption == MaxHits \in Nat /\ MaxLife \in Nat /\ MaxAir \in Nat

VARIABLES
    world,  \* what an event reads and changes, see Worlds
    pc,     \* where processevents is
    harm    \* history: the hits that did damage in the last step

vars == <<world, pc, harm>>

\* A hit names a slot and a life.  Not in the code: the event it was sent with (of), and what has
\* become of the target since, spawned again (over) or its slot reset (renewed).
Hits == [type : {"HIT"}, target : Clients, life : -1..MaxLife, of : {"SHOT", "EXPLODE"},
         over : BOOLEAN, renewed : BOOLEAN]
Events == [type : {"SHOT", "SUICIDE"}] \cup [type : {"THROW", "EXPLODE"}, id : Ids]
Timed(e) == e.type # "SUICIDE"

Worlds == [conn : [Clients -> {"empty", "in"}],
           state : [Clients -> {"ALIVE", "DYING", "DEAD"}],   \* DYING: dead for DEATHMILLIS at most
           life : [Clients -> -1..MaxLife],                   \* lifesequence
           awaiting : [Clients -> BOOLEAN],                   \* lastspawn >= 0
           grenades : [Clients -> Seq(Ids)],
           queue : [Clients -> Seq(Events \cup Hits)],
           young : BOOLEAN,                                   \* gamemillis <= DEATHMILLIS
           air : [Clients -> [Ids -> Int]]]                   \* history: throws less explosions

\* who's queue is run, and which of the hits behind the event at its head comes next (0: the event itself).
Idle == [who |-> 0, hit |-> 0]

TypeOK ==
    /\ world \in Worlds
    /\ pc \in [who : 0..NumClients, hit : 0..MaxHits + 1]
    /\ harm \in SUBSET Hits

-----------------------------------------------------------------------------
(* Queues and grenades.                                                    *)

\* client::addevent, once for an event and once for each of its hits: when the queue is full they go
\* into a dummy.
addevents(q, e, hits) ==
    LET room == QueueLimit + 1 - Len(q)
    IN IF room <= 0 THEN q ELSE q \o SubSeq(<<e>> \o hits, 1, Min({room, 1 + Len(hits)}))

\* Whoever died less than DEATHMILLIS ago still counts as alive; and as lastdeath is 0 for those who have
\* not died, so does everybody in the first moments of a game.
isalive(w, c) == w.state[c] \in {"ALIVE", "DYING"} \/ w.young

IsHit(q, i) == i \in DOMAIN q /\ q[i].type = "HIT"

\* Removing from an empty vector leaves it with a length of -1 and what it held before.
Rubble(c) == <<[type |-> "HIT", target |-> c, life |-> -1, of |-> "SHOT",
                over |-> FALSE, renewed |-> FALSE]>>

\* clearevent: the head of the queue goes, and the hits behind it.
Cleared(w, c) ==
    LET q == w.queue[c]
        next == {i \in 2..Len(q) : q[i].type # "HIT"}
    IN [w EXCEPT !.queue[c] = IF q = <<>> THEN Rubble(c)
                              ELSE IF next = {} THEN <<>> ELSE SubSeq(q, Min(next), Len(q))]

\* projectilestate::add starts from an empty list when the list is full; remove puts the last
\* grenade in the place of the one that goes.
Added(gs, id) == IF Len(gs) >= MaxGrenades THEN <<id>> ELSE Append(gs, id)
Removed_Bug(gs, id) ==
    LET i == Min({i \in DOMAIN gs : gs[i] = id})
    IN [gs EXCEPT ![i] = gs[Len(gs)]]
Removed(gs, id) ==
    LET i == Min({i \in DOMAIN gs : gs[i] = id})
    IN Front([gs EXCEPT ![i] = Last(gs)])

-----------------------------------------------------------------------------
(* Lives.                                                                  *)

\* History: the hits on the slots cs that are queued anywhere, marked.
Marked(h, cs, over, renewed) ==
    IF h.type = "HIT" /\ h.target \in cs
    THEN [h EXCEPT !.over = @ \/ over, !.renewed = @ \/ renewed] ELSE h
MarkAll(w, cs, over, renewed) ==
    [d \in Clients |-> [i \in DOMAIN w.queue[d] |-> Marked(w.queue[d][i], cs, over, renewed)]]

\* client::mapchange of the clients cs, with the forcedeath or the reset that goes with it.
MapChanged(w, cs) ==
    LET Anew(f, with) == [c \in Clients |-> IF c \in cs THEN with ELSE f[c]]
    IN [w EXCEPT !.state = Anew(@, "DEAD"), !.life = Anew(@, -1), !.awaiting = Anew(@, FALSE),
                 !.grenades = Anew(@, <<>>), !.queue = Anew(MarkAll(w, cs, TRUE, TRUE), <<>>),
                 !.air = Anew(@, [id \in Ids |-> 0])]
MapChange(w, c) == MapChanged(w, {c})

\* sendspawn.  The life begins with the answer to it, but it is counted here; lastdeath is forgotten.
Sendspawn(w, c) ==
    [w EXCEPT !.queue = MarkAll(w, {c}, TRUE, FALSE), !.life[c] = @ + 1, !.awaiting[c] = TRUE,
              !.state[c] = IF @ = "DYING" THEN "DEAD" ELSE @]

GameStarted_Bug(w) == MapChanged([w EXCEPT !.young = TRUE], Clients)
\* startgame: the clients that are there start anew.
GameStarted(w) == MapChanged([w EXCEPT !.young = TRUE], {c \in Clients : w.conn[c] = "in"})

\* zap: the slot is marked empty; its state and its queue stay.  Nothing reads them before
\* client::reset, so they go at once here, except for the client whose queue is being run.
Zapped(w, c) == [(IF c = pc.who THEN w ELSE MapChange(w, c)) EXCEPT !.conn[c] = "empty"]

\* forcedeath of the clients cs: lastspawn and lastdeath are reset.
ForcedDead(w, cs) ==
    [w EXCEPT !.state = [c \in Clients |-> IF c \in cs THEN "DEAD" ELSE @[c]],
              !.awaiting = [c \in Clients |-> IF c \in cs THEN FALSE ELSE @[c]]]

\* disconnect_client.  The client is a voice less, so a pending vote may be decided: to start another
\* game, to kick somebody else, or to force, shuffle or even out teams, in which anybody may die.  A
\* spectator who is forced to play gets no life of it: sendspawn refuses, its team is set after that.
Left(w, c) ==
    LET gone == Zapped(w, c)
        present == {d \in Clients : gone.conn[d] = "in"}
    IN {gone, GameStarted(gone)} \cup {Zapped(gone, d) : d \in present}
          \cup {ForcedDead(gone, cs) : cs \in SUBSET present}

\* serverdamage: the target survives or dies; if it was in the team of the actor, that may
\* be one too many.
Damaged(w, target, actor) ==
    LET dead == [w EXCEPT !.state[target] = "DYING"]
    IN {w, dead} \cup (IF target # actor /\ w.conn[actor] = "in" THEN Left(dead, actor) ELSE {})

Killed(w, c) == [w EXCEPT !.state[c] = "DYING"]

-----------------------------------------------------------------------------
Init ==
    /\ world = [conn |-> [c \in Clients |-> "empty"], state |-> [c \in Clients |-> "DEAD"],
                life |-> [c \in Clients |-> -1], awaiting |-> [c \in Clients |-> FALSE],
                grenades |-> [c \in Clients |-> <<>>], queue |-> [c \in Clients |-> <<>>], young |-> TRUE,
                air |-> [c \in Clients |-> [id \in Ids |-> 0]]]
    /\ pc = Idle
    /\ harm = {}

\* What is not part of processevents happens between two calls of it.
Handled(w) == pc = Idle /\ world' = w /\ harm' = {} /\ UNCHANGED pc

\* addclient, client::reset.
Connect(c) ==
    /\ world.conn[c] = "empty"
    /\ Handled([MapChange(world, c) EXCEPT !.conn[c] = "in"])

Disconnect(c) ==
    /\ world.conn[c] = "in"
    /\ \E w \in Left(world, c) : Handled(w)

\* SV_RECVMAP.
ReceiveMap(c) ==
    /\ world.conn[c] = "in"
    /\ Handled(MapChange(world, c))

StartGame == Handled(GameStarted(world))

\* startgame without notify, from a call for the next map ("+1"): nobody starts anew, but the clock does,
\* so every death becomes a recent one.
StartSilently(deaths) ==
    /\ \E c \in Clients : world.conn[c] = "in"
    /\ deaths \subseteq {c \in Clients : world.conn[c] = "in" /\ world.state[c] = "DEAD"}
    /\ Handled([world EXCEPT !.young = TRUE,
                 !.state = [c \in Clients |-> IF c \in deaths THEN "DYING" ELSE @[c]]])

\* SV_TRYSPAWN and what else gives a life by sendspawn: the right map, a round of an arena.  None asks
\* whether the client is alive.
Respawn(c) ==
    /\ world.conn[c] = "in" /\ world.life[c] < MaxLife
    /\ Handled(Sendspawn(world, c))

\* SV_SPAWN, the answer.
Spawn(c) ==
    /\ world.conn[c] = "in" /\ world.awaiting[c]
    /\ Handled([world EXCEPT !.state[c] = "ALIVE", !.awaiting[c] = FALSE])

\* forcedeath, from a change of team or a wrong map; a vote that shuffles teams forces one after the other.
ForceDeath(c) == world.conn[c] = "in" /\ Handled(ForcedDead(world, {c}))

\* More than DEATHMILLIS pass, since the beginning of the game and since a death.
GameGoesOn == world.young /\ Handled([world EXCEPT !.young = FALSE])
Tick(c) ==
    /\ world.state[c] = "DYING" /\ ~world.young
    /\ Handled([world EXCEPT !.state[c] = "DEAD"])

Queue(c, e, hits) ==
    /\ world.conn[c] = "in" /\ e.type \in Sends[c]
    /\ Handled([world EXCEPT !.queue[c] = addevents(@, e, hits)])

\* The hits a client sends: on lives that have begun, the present one or the one before it.
HitsOf(type) ==
    {[type |-> "HIT", target |-> t, life |-> world.life[t] - over, of |-> type,
      over |-> over = 1, renewed |-> FALSE] : t \in Clients, over \in {0, 1}}
HitLists(type) ==
    UNION {[1..n -> {h \in HitsOf(type) : h.life >= 0}] : n \in 0..MaxHits}

\* SV_SHOOT with a gun and with a grenade, SV_EXPLODE, SV_SUICIDE.  SV_RELOAD and SV_AKIMBO take
\* a place in the queue as an explosion that is not accepted does, and change nothing here.
Shoot(c) == \E hits \in HitLists("SHOT") : Queue(c, [type |-> "SHOT"], hits)
Throw(c) == \E id \in Ids : Queue(c, [type |-> "THROW", id |-> id], <<>>)
Explode(c) ==
    \E id \in Ids : \E hits \in HitLists("EXPLODE") : Queue(c, [type |-> "EXPLODE", id |-> id], hits)
Suicide(c) == Queue(c, [type |-> "SUICIDE"], <<>>)

-----------------------------------------------------------------------------
(* processevents.                                                          *)

who == pc.who
Mine == world.queue[who]

NextWho_Bug(c) == c + 1
NextWho(c) == LET later == {d \in Clients : d > c /\ world.conn[d] = "in"}
              IN IF later = {} THEN 0 ELSE Min(later)
At(c, hit) == pc' = [who |-> c, hit |-> hit]
Harmless == harm' = {}

BeginEvents ==
    /\ pc = Idle
    /\ NextWho(0) # 0 /\ At(NextWho(0), 0)
    /\ Harmless /\ UNCHANGED world

\* The loop over the events of a client does not ask again whether its slot is empty.
AtHead(type) == who # 0 /\ pc.hit = 0 /\ Mine # <<>> /\ Head(Mine).type = type

\* The queue is empty or waits for its time.
NextClient ==
    /\ who # 0 /\ pc.hit = 0
    /\ Mine # <<>> => Timed(Head(Mine))
    /\ At(NextWho(who), 0)
    /\ world' = IF world.conn[who] = "in" THEN world ELSE MapChange(world, who)
    /\ Harmless

\* An event that comes to nothing: older than lastevent, refused, or of no interest here.
PassEvent ==
    /\ who # 0 /\ pc.hit = 0 /\ Mine # <<>> /\ Timed(Head(Mine))
    /\ world' = Cleared(world, who)
    /\ Harmless /\ UNCHANGED pc

\* suicideevent: serverdamage whatever the state of the client is.
ProcessSuicide ==
    /\ AtHead("SUICIDE")
    /\ world' = Cleared(Killed(world, who), who)
    /\ Harmless /\ UNCHANGED pc

\* shotevent with a grenade.
ProcessThrow ==
    /\ AtHead("THROW") /\ isalive(world, who)
    /\ LET id == Head(Mine).id
       IN /\ world.air[who][id] < MaxAir
          /\ world' = Cleared([world EXCEPT !.grenades[who] = Added(@, id),
                                            !.air[who][id] = @ + 1], who)
    /\ Harmless /\ UNCHANGED pc

\* shotevent with any other gun: its hits are next.
ProcessShot ==
    /\ AtHead("SHOT") /\ isalive(world, who)
    /\ At(who, 1)
    /\ Harmless /\ UNCHANGED world

\* explodeevent: the grenade must be one that was thrown, by whomever it is that sits there now.
ProcessExplode ==
    /\ AtHead("EXPLODE")
    /\ LET id == Head(Mine).id
       IN /\ id \in ToSet(world.grenades[who])
          /\ world' = [world EXCEPT !.grenades[who] = Removed(@, id), !.air[who][id] = @ - 1]
    /\ At(who, 1)
    /\ Harmless

Hittable_Bug(i) ==
    LET h == Mine[i] IN world.conn[h.target] = "in" /\ world.state[h.target] = "ALIVE"
\* A hit counts if its target lives the life it names; an explosion hits each target once.
Hittable(i) ==
    LET h == Mine[i]
    IN /\ world.conn[h.target] = "in" /\ world.state[h.target] = "ALIVE"
       /\ h.life = world.life[h.target]
       /\ Head(Mine).type = "EXPLODE" => \A j \in 2..i - 1 : Mine[j].target # h.target

\* The next hit of the event at the head: it does damage or is passed over (too far off, too many rays).
ProcessHit ==
    /\ who # 0 /\ pc.hit > 0 /\ IsHit(Mine, pc.hit + 1)
    /\ At(who, pc.hit + 1)
    /\ LET h == Mine[pc.hit + 1]
       IN \/ Harmless /\ UNCHANGED world
          \/ /\ Hittable(pc.hit + 1)
             /\ world' \in Damaged(world, h.target, who)
             /\ harm' = {h}

HitsDone_Bug ==
    /\ who # 0 /\ pc.hit > 0 /\ ~IsHit(Mine, pc.hit + 1)
    /\ At(who, 0)
    /\ Harmless /\ UNCHANGED world
\* No more hits: the event is removed with them.
HitsDone ==
    /\ who # 0 /\ pc.hit > 0 /\ ~IsHit(Mine, pc.hit + 1)
    /\ world' = Cleared(world, who)
    /\ At(who, 0)
    /\ Harmless

RunEvents ==
    \/ NextClient \/ PassEvent \/ ProcessSuicide \/ ProcessThrow
    \/ ProcessShot \/ ProcessExplode \/ ProcessHit \/ HitsDone

\* Messages with events, and everything else.
SendGuns == \E c \in Clients : Shoot(c) \/ Suicide(c)
SendGrenades == \E c \in Clients : Throw(c) \/ Explode(c)
SendNoEvent ==
    \/ \E c \in Clients :
          \/ Connect(c) \/ Disconnect(c) \/ ReceiveMap(c) \/ Tick(c)
          \/ Respawn(c) \/ Spawn(c) \/ ForceDeath(c)
    \/ StartGame \/ GameGoesOn \/ \E deaths \in SUBSET Clients : StartSilently(deaths)
    \/ BeginEvents \/ RunEvents

Next == SendGuns \/ SendGrenades \/ SendNoEvent

Spec == Init /\ [][Next]_vars

\* A loop that has begun goes on.
FairSpec == Spec /\ WF_vars(RunEvents)

-----------------------------------------------------------------------------
(* Properties.                                                             *)

\* Hits are behind the event they were sent with, and none is at the head of a queue, where
\* processevents would read its target for a time (both are members of one union): neither a full
\* queue nor a game that starts while the queue is run leaves a hit without its event.
QueuesSound ==
    \A c \in Clients : \A i \in DOMAIN world.queue[c] : world.queue[c][i].type = "HIT" =>
        /\ i > 1
        /\ LET h == world.queue[c][i]
               e == world.queue[c][i - 1]
           IN IF e.type = "HIT" THEN e.of = h.of ELSE e.type = h.of

\* A hit does not harm a target that was spawned again since it was sent, however late it is
\* processed.  Slots that were reset meanwhile - somebody else, a download of the map - count
\* their lives anew, so of those it cannot be said.
HitsTheLifeAimedAt == \A h \in harm : h.over => h.renewed

\* A grenade explodes once for each time it was thrown, though the list of those in the air starts
\* anew when it is full, and numbers are used again.
NoExplosionWithoutThrow == \A c \in Clients, id \in Ids : world.air[c][id] >= 0

\* Every call of processevents comes to an end, whatever its events undo: each turn of the loop takes an
\* event or a hit further, or leaves the client.
SliceEnds == []<>(pc = Idle)
=============================================================================
