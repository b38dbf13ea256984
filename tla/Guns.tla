-------------------------------- MODULE Guns --------------------------------
(***************************************************************************)
(* How long the guns of a client have to wait between shots                *)
(* (serverevents.h).  gunwait is kept relative to lastshot, the last shot  *)
(* of any gun, so each shot and each reload sets the waits of all of them  *)
(* anew.  Events carry a time of the client's (t): not before that of the  *)
(* event before, nor after the server's gamemillis, which a new game sets  *)
(* back to 0.  Whether there are rounds to shoot or to load is left open.  *)
(***************************************************************************)
EXTENDS Integers

CONSTANTS
    Guns,          \* 0..NUMGUNS-1
    Pistol,
    Reloadable,    \* the guns one can reload: not the knife, not grenades
    attackdelay,   \* [Guns -> milliseconds]
    reloadtime,
    AkimboTime,    \* how long a second pistol lasts (30000)
    MaxTime,       \* bound: the clock
    MaxWait        \* bound: how long a gun may wait already to be reloaded

ASSUME GunsAssumption ==
    /\ Pistol \in Guns /\ Reloadable \subseteq Guns
    /\ attackdelay \in [Guns -> Nat] /\ reloadtime \in [Guns -> Nat]
ASSUME GunTimesAssumption == AkimboTime \in Nat /\ MaxTime \in Nat /\ MaxWait \in Nat

VARIABLES
    gunwait, lastshot,
    akimbomillis,  \* when the second pistol goes, 0 without
    alive,         \* isalive(gamemillis), so for a moment after a death, too
    gamemillis,
    lastevent,     \* the time of the last event that was taken from the queue
    until          \* history: when each gun may shoot again, by its own shots and reloads alone

gunVars == <<gunwait, lastshot, akimbomillis, alive, gamemillis, lastevent, until>>

GunsTypeOK ==
    /\ gunwait \in [Guns -> Nat] /\ until \in [Guns -> Nat]
    /\ alive \in BOOLEAN
    /\ akimbomillis \in Nat
    /\ gamemillis \in 0..MaxTime /\ lastevent \in 0..MaxTime /\ lastshot \in 0..lastevent

NoWaits == [g \in Guns |-> 0]

\* playerstate::respawn, clientstate::respawn.
respawn == gunwait' = NoWaits /\ lastshot' = 0 /\ akimbomillis' = 0 /\ until' = NoWaits

\* The waits that are left at time t.
LeftAt_Bug(t) == gunwait
LeftAt(t) ==
    [g \in Guns |-> IF gunwait[g] > t - lastshot THEN gunwait[g] - (t - lastshot) ELSE 0]

Waited(g, t) == t - lastshot >= gunwait[g]

-----------------------------------------------------------------------------
GunsInit ==
    /\ gunwait = NoWaits /\ lastshot = 0 /\ akimbomillis = 0 /\ alive = FALSE
    /\ gamemillis = 0 /\ lastevent = 0
    /\ until = NoWaits

Elapses ==
    /\ gamemillis < MaxTime /\ gamemillis' = gamemillis + 1
    /\ UNCHANGED <<gunwait, lastshot, akimbomillis, alive, lastevent, until>>

\* SV_SPAWN, or a death a while ago.
LifeChanges ==
    /\ alive' = ~alive
    /\ UNCHANGED <<gunwait, lastshot, akimbomillis, gamemillis, lastevent, until>>

\* sendspawn, which leaves state as it is, and forcedeath.
Respawns == respawn /\ alive' \in {alive, FALSE} /\ UNCHANGED <<gamemillis, lastevent>>

\* client::mapchange: for a download of the map (SV_RECVMAP), or with a new game, in whose first
\* moments the dead count as alive.
FetchesMap == respawn /\ alive' = FALSE /\ lastevent' = 0 /\ UNCHANGED gamemillis
GameStarts == respawn /\ alive' = TRUE /\ lastevent' = 0 /\ gamemillis' = 0

\* startgame without notify, from a call for the next map ("+1"): only the clock starts anew, so for
\* as long as the game before has lasted, events are dropped for being older than the last one.
StartsSilently == gamemillis' = 0 /\ alive' = TRUE /\ UNCHANGED <<gunwait, lastshot, akimbomillis, lastevent, until>>

\* processevents: the second pistol goes before the queue is run; a timed event is taken when its time
\* has come, unless it is older than the one before it.
Second == IF akimbomillis < gamemillis THEN 0 ELSE akimbomillis
Event(t) == t \in lastevent..gamemillis /\ lastevent' = t /\ UNCHANGED <<alive, gamemillis>>

delay(g) == IF g = Pistol /\ Second > gamemillis THEN attackdelay[g] \div 2 ELSE attackdelay[g]

\* shotevent.
Shoots(g, t) ==
    /\ Event(t)
    /\ alive /\ Waited(g, t)
    /\ gunwait' = [LeftAt(t) EXCEPT ![g] = delay(g)] /\ lastshot' = t
    /\ akimbomillis' = Second
    /\ until' = [until EXCEPT ![g] = t + delay(g)]

\* reloadevent: a gun that still waits, waits that much longer.
Reloads(g, t) ==
    /\ Event(t)
    /\ alive /\ g \in Reloadable /\ gunwait[g] <= MaxWait
    /\ IF gunwait[g] # 0 /\ t - lastshot < gunwait[g]
       THEN gunwait' = [gunwait EXCEPT ![g] = @ + reloadtime[g]] /\ UNCHANGED lastshot
       ELSE gunwait' = [LeftAt(t) EXCEPT ![g] = @ + reloadtime[g]] /\ lastshot' = t
    /\ akimbomillis' = Second
    /\ until' = [until EXCEPT ![g] = (IF @ > t THEN @ ELSE t) + reloadtime[g]]

\* akimboevent.
TakesSecond(t) ==
    /\ Event(t)
    /\ alive /\ Second = 0
    /\ akimbomillis' = t + AkimboTime
    /\ UNCHANGED <<gunwait, lastshot, until>>

\* An event that is refused, or of no interest here.
Passes(t) == Event(t) /\ akimbomillis' = Second /\ UNCHANGED <<gunwait, lastshot, until>>

GunsNext ==
    \/ Elapses \/ LifeChanges \/ Respawns \/ FetchesMap \/ GameStarts \/ StartsSilently
    \/ \E t \in 0..MaxTime :
          \/ TakesSecond(t) \/ Passes(t)
          \/ \E g \in Guns : Shoots(g, t) \/ Reloads(g, t)

GunsSpec == GunsInit /\ [][GunsNext]_gunVars

-----------------------------------------------------------------------------
(* Properties.                                                             *)

\* Whatever the other guns did meanwhile, and whatever lives and games have ended, a gun may shoot exactly when its
\* own last shot and its reloads allow it, at any time that an event may still have.
GunsAreReady == \A g \in Guns : \A t \in lastevent..gamemillis : Waited(g, t) <=> t >= until[g]
=============================================================================
