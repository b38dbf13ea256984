-------------------------------- MODULE Items --------------------------------
(***************************************************************************)
(* The items of a map and the rounds that clients get from them            *)
(* (server.cpp, entity.h).  There are items for a gun with magazines and   *)
(* grenades, which are carried like rounds in a magazine.  The shots of a  *)
(* client are those that Guns and Combat let through; here it is enough    *)
(* that one may come at any time.  Time is that of the server's slices.    *)
(*                                                                         *)
(* Of the arena modes only last swiss standing has items, all grenades.    *)
(* Health, armour and the second pistol go the same way and are left out.  *)
(***************************************************************************)
EXTENDS Integers, FiniteSets

CONSTANTS
    Cls,           \* the clients
    Entities,      \* the items of the map
    Boxes,         \* those for the gun; the others are grenades
    Size,          \* rounds in a magazine
    Start,         \* rounds of the gun at the start of a life
    Add, Most,     \* what an item adds at most, and how much one can have: [Kinds -> Nat]
    SpawnTimes,    \* [Kinds -> SUBSET Nat]: of spawntime, for few and for many players
    RoundTime,     \* what a new round puts the items forward (60000)
    MaxDiff,       \* bound: how long a slice takes
    MaxTime,       \* bound: the clock of a game
    MaxGiven       \* bound: the rounds given to a client in a life

Kinds == {"gun", "grenade"}

ASSUME ItemsAssumption ==
    /\ Boxes \subseteq Entities /\ Size \in Nat \ {0} /\ Start \in Nat
    /\ Add \in [Kinds -> Nat \ {0}] /\ Most \in [Kinds -> Nat \ {0}]
    /\ Size <= Start /\ Start - Size <= Most["gun"]
ASSUME ItemTimesAssumption ==
    /\ SpawnTimes \in [Kinds -> SUBSET (Nat \ {0})] /\ \A k \in Kinds : SpawnTimes[k] # {}
    /\ RoundTime \in Nat /\ \A k \in Kinds : \A t \in SpawnTimes[k] : t <= RoundTime
    /\ MaxDiff \in Nat \ {0} /\ MaxTime \in Nat /\ MaxGiven \in Nat

VARIABLES
    m_lss,           \* the mode of this game
    sents,           \* the items: spawned and spawntime
    items_blocked,   \* between the end of a round and the next one
    ammo, mag,       \* rounds, per client and kind
    state,           \* ALIVE or DEAD (or a spectator)
    gamemillis,
    given,           \* history: the rounds that each client was given in this life and has not shot
    taken,           \* history: how often each item was taken since all of them lay there
    since            \* history: when that was

itemVars == <<m_lss, sents, items_blocked, ammo, mag, state, gamemillis, given, taken, since>>

Rounds == [Cls -> [Kinds -> Nat]]
ItemsTypeOK ==
    /\ m_lss \in BOOLEAN /\ items_blocked \in BOOLEAN
    /\ sents \in [Entities -> [spawned : BOOLEAN, spawntime : Nat]]
    /\ ammo \in Rounds /\ mag \in Rounds /\ given \in Rounds
    /\ state \in [Cls -> {"ALIVE", "DEAD"}] 
    /\ gamemillis \in 0..MaxTime /\ since \in 0..gamemillis
    /\ taken \in [Entities -> Nat]

kind(e) == IF e \in Boxes /\ ~m_lss THEN "gun" ELSE "grenade"
NoRounds == [k \in Kinds |-> 0]

\* playerstate::spawnstate: what a life begins with.
SpawnAmmo(lss) == [NoRounds EXCEPT !["gun"] = IF lss THEN 0 ELSE Start - Size]
SpawnMag(lss) == [NoRounds EXCEPT !["gun"] = IF lss THEN 0 ELSE Size]
SpawnGiven(lss) == [NoRounds EXCEPT !["gun"] = IF lss THEN 0 ELSE Start]

\* checkitemspawns(diff), but for who is told.
Grown_Bug(se, diff) ==
    IF se.spawntime = 0 THEN se
    ELSE IF se.spawntime < diff THEN [spawned |-> TRUE, spawntime |-> 0]
    ELSE [se EXCEPT !.spawntime = @ - diff]
Grown(se, diff) ==
    IF se.spawntime = 0 THEN se
    ELSE IF se.spawntime <= diff THEN [spawned |-> TRUE, spawntime |-> 0]
    ELSE [se EXCEPT !.spawntime = @ - diff]

Lowest(m, n) == IF m < n THEN m ELSE n

-----------------------------------------------------------------------------
AllLie == [e \in Entities |-> [spawned |-> TRUE, spawntime |-> 0]]
NoRoundsAtAll == [c \in Cls |-> NoRounds]

ItemsInit ==
    /\ m_lss \in BOOLEAN /\ items_blocked = FALSE
    /\ sents = AllLie
    /\ ammo = NoRoundsAtAll /\ mag = NoRoundsAtAll /\ given = NoRoundsAtAll
    /\ state = [c \in Cls |-> "DEAD"]
    /\ gamemillis = 0 /\ since = 0 /\ taken = [e \in Entities |-> 0]

\* startgame.  When a rotation starts a game silently, the clients keep what they have.
AllFresh ==
    /\ ammo' = NoRoundsAtAll /\ mag' = NoRoundsAtAll /\ given' = NoRoundsAtAll
    /\ state' = [c \in Cls |-> "DEAD"]
NewGame ==
    /\ m_lss' \in BOOLEAN /\ items_blocked' = FALSE
    /\ sents' = AllLie /\ taken' = [e \in Entities |-> 0]
    /\ gamemillis' = 0 /\ since' = 0
    /\ AllFresh \/ UNCHANGED <<ammo, mag, given, state>>

\* A slice that takes a while.
ItemsGrow(diff) ==
    /\ gamemillis + diff <= MaxTime
    /\ gamemillis' = gamemillis + diff
    /\ sents' = [e \in Entities |-> Grown(sents[e], diff)]
    /\ UNCHANGED <<m_lss, items_blocked, ammo, mag, state, given, taken, since>>

\* arenacheck: a round is won, and the next one begins for the clients cs that are on the map and
\* in a team, whatever has become of the others.
RoundWon ==
    /\ m_lss /\ ~items_blocked
    /\ items_blocked' = TRUE
    /\ UNCHANGED <<m_lss, sents, ammo, mag, state, gamemillis, given, taken, since>>

NewRound(cs) ==
    /\ m_lss /\ items_blocked
    /\ items_blocked' = FALSE
    /\ sents' = [e \in Entities |-> Grown(sents[e], RoundTime)]
    /\ taken' = [e \in Entities |-> 0] /\ since' = gamemillis
    /\ ammo' = [c \in Cls |-> IF c \in cs THEN SpawnAmmo(m_lss) ELSE ammo[c]]
    /\ mag' = [c \in Cls |-> IF c \in cs THEN SpawnMag(m_lss) ELSE mag[c]]
    /\ given' = [c \in Cls |-> IF c \in cs THEN SpawnGiven(m_lss) ELSE given[c]]
    /\ UNCHANGED <<m_lss, state, gamemillis>>

\* sendspawn: a life is offered, whatever the client has and is.  (Who gets one is a matter of Arena.)
Offered(c) ==
    /\ ammo' = [ammo EXCEPT ![c] = SpawnAmmo(m_lss)] /\ mag' = [mag EXCEPT ![c] = SpawnMag(m_lss)]
    /\ given' = [given EXCEPT ![c] = SpawnGiven(m_lss)]
    /\ UNCHANGED <<m_lss, sents, items_blocked, state, gamemillis, taken, since>>

\* SV_SPAWN, once a life has been offered.
Spawns(c) ==
    /\ state[c] = "DEAD" /\ state' = [state EXCEPT ![c] = "ALIVE"]
    /\ UNCHANGED <<m_lss, sents, items_blocked, ammo, mag, gamemillis, given, taken, since>>

\* serverdamage, which leaves the rounds to who is dead, and forcedeath, which does not (nor does a
\* new client in the slot, or a map download).
LosesLife(c) ==
    /\ state[c] = "ALIVE" /\ state' = [state EXCEPT ![c] = "DEAD"]
    /\ UNCHANGED <<m_lss, sents, items_blocked, ammo, mag, gamemillis, given, taken, since>>
Forced(c) ==
    /\ state' = [state EXCEPT ![c] = "DEAD"]
    /\ ammo' = [ammo EXCEPT ![c] = NoRounds] /\ mag' = [mag EXCEPT ![c] = NoRounds]
    /\ given' = [given EXCEPT ![c] = NoRounds]
    /\ UNCHANGED <<m_lss, sents, items_blocked, gamemillis, taken, since>>

\* playerstate::canpickup and pickup: boxes fill the stock, grenades are held at once; in last swiss
\* standing there are two in one.
canpickup(c, k) == (IF k = "gun" THEN ammo[c][k] ELSE mag[c][k]) < Most[k]
Times == IF m_lss THEN 2 ELSE 1
pickup(c, k) ==
    LET more(n) == Lowest(n + Times * Add[k], Most[k])
    IN /\ IF k = "gun" THEN ammo' = [ammo EXCEPT ![c][k] = more(@)] /\ UNCHANGED mag
                       ELSE mag' = [mag EXCEPT ![c][k] = more(@)] /\ UNCHANGED ammo
       /\ given' = [given EXCEPT ![c][k] = @ + Times * Add[k]]

\* serverpickup, for an event of c.  (free_items also makes c wait for its ping, which is open.)
serverpickup(c, e) ==
    /\ sents[e].spawned
    /\ state[c] = "ALIVE" /\ canpickup(c, kind(e)) /\ ~(m_lss /\ items_blocked)
    /\ given[c][kind(e)] < MaxGiven
    /\ pickup(c, kind(e))
    /\ \E t \in SpawnTimes[kind(e)] : sents' = [sents EXCEPT ![e] = [spawned |-> FALSE, spawntime |-> t]]
    /\ taken' = [taken EXCEPT ![e] = @ + 1]
    /\ UNCHANGED <<m_lss, items_blocked, state, gamemillis, since>>

\* shotevent and reloadevent.
Shot(c, k) ==
    /\ mag[c][k] > 0
    /\ mag' = [mag EXCEPT ![c][k] = @ - 1] /\ given' = [given EXCEPT ![c][k] = @ - 1]
    /\ UNCHANGED <<m_lss, sents, items_blocked, ammo, state, gamemillis, taken, since>>
Reloaded(c) ==
    LET n == Lowest(ammo[c]["gun"], Size - mag[c]["gun"])
    IN /\ n > 0
       /\ mag' = [mag EXCEPT ![c]["gun"] = @ + n] /\ ammo' = [ammo EXCEPT ![c]["gun"] = @ - n]
       /\ UNCHANGED <<m_lss, sents, items_blocked, state, gamemillis, given, taken, since>>

ItemsNext ==
    \/ NewGame \/ RoundWon
    \/ \E diff \in 1..MaxDiff : ItemsGrow(diff)
    \/ \E cs \in SUBSET Cls : NewRound(cs)
    \/ \E c \in Cls :
          \/ Offered(c) \/ Spawns(c) \/ LosesLife(c) \/ Forced(c) \/ Reloaded(c)
          \/ \E k \in Kinds : Shot(c, k)
          \/ \E e \in Entities : serverpickup(c, e)

ItemsSpec == ItemsInit /\ [][ItemsNext]_itemVars

-----------------------------------------------------------------------------
(* Properties.                                                             *)

Shortest(e) == CHOOSE t \in SpawnTimes[kind(e)] : \A u \in SpawnTimes[kind(e)] : t <= u

\* Nobody has more rounds than a life began with and items gave it.  Two clients do not take the same item: between
\* two takings is the time it needs to come back, in which it is on its way; and a game or a round begins with all
\* items in their places.
SuppliesAccounted ==
    /\ \A c \in Cls, k \in Kinds :
          /\ mag[c][k] + ammo[c][k] <= given[c][k]
          /\ ammo[c][k] <= Most[k] /\ mag[c][k] <= IF k = "gun" THEN Size ELSE Most[k]
    /\ \A e \in Entities :
          /\ sents[e].spawned <=> sents[e].spawntime = 0
          /\ taken[e] = 0 => sents[e].spawned
          /\ (taken[e] - 1) * Shortest(e) <= gamemillis - since
=============================================================================
