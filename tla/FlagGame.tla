------------------------------ MODULE FlagGame ------------------------------
(***************************************************************************)
(* The flag modes of the server (capture the flag, hunt the flag, keep the *)
(* flag, team keep the flag): the two entries of sflaginfos, and every     *)
(* handler through which a client gains, loses or is separated from a      *)
(* flag - its own messages, its death, a team change, a map download, a    *)
(* disconnect, the timers of the server slice and the start of a game.     *)
(*                                                                         *)
(* The server is one thread: a message handler or a block of serverslice   *)
(* runs to its end before the next one, so each is one action.  What is    *)
(* left open: positions (a distance check may go either way), the spawn    *)
(* and team-size rules (a wish may be granted or refused) and which member *)
(* of a team the server moves.  Time is counted in ticks.                  *)
(*                                                                         *)
(* A definition whose name ends in _Bug is no part of the model: it is the *)
(* definition after it with a plausible mistake, used to see that a        *)
(* property notices that mistake.                                          *)
(***************************************************************************)
EXTENDS Protocol

CONSTANTS
    Clients,       \* the slots of the vector clients, named by their number
    NoClient,      \* the client number -1
    Teams,         \* the teams that occur
    Modes,         \* the modes the games are played in
    FlagMessages,  \* [mode -> the actions clients put into SV_FLAGACTION]
    EditMessages,  \* the arguments clients put into SV_EDITMODE
    DropLimit,     \* [mode -> ticks a dropped flag may lie]
    HtfBaseLimit,  \* ticks an htf flag may stay in its base
    KtfHoldLimit,  \* ticks a ktf carrier holds the flag for one point
    MaxAge         \* ages are not told apart from here on

ASSUME ClientsAssumption == Clients # {} /\ NoClient \notin Clients
ASSUME TeamsAssumption == Teams \subseteq TeamNums /\ TEAM_SPECT \in Teams
ASSUME ModesAssumption == Modes \subseteq {"none", "ctf", "htf", "ktf", "tktf"}
ASSUME MessagesAssumption ==
    /\ FlagMessages \in [Modes -> SUBSET {"PICKUP", "STEAL", "DROP", "LOST",
                                         "RETURN", "SCORE", "NUM"}]
    /\ EditMessages \subseteq BOOLEAN
ASSUME LimitsAssumption ==
    /\ HtfBaseLimit \in Nat /\ KtfHoldLimit \in Nat
    /\ DropLimit \in [{"ctf", "htf"} -> Nat]
    /\ MaxAge \in Nat
    /\ MaxAge > HtfBaseLimit /\ MaxAge > KtfHoldLimit
    /\ MaxAge > DropLimit["ctf"] /\ MaxAge > DropLimit["htf"]

VARIABLES
    mode,      \* gamemode, as far as m_flags and m_teammode see it
    loaded,    \* smapname[0]: a game was started since the server was empty
    running,   \* minremain > 0
    conn,      \* conn[c]: "empty", "connecting" (not authenticated) or "playing"
    zombie,    \* the client whose packet is still read after it was disconnected
    team,      \* team[c]
    life,      \* life[c]: clientstate::state
    pending,   \* pending[c]: lastspawn >= 0, a spawn state was sent
    placed,    \* placed[c]: a position arrived since the last respawn
    flag,      \* sflaginfos
    gain       \* gain[c]: change of flagscore in the last step

vars == <<mode, loaded, running, conn, zombie, team, life, pending, placed, flag, gain>>

Flags == {0, 1}
FlagStates == {"INBASE", "STOLEN", "DROPPED", "IDLE"}

m_ktf == mode \in {"ktf", "tktf"}
m_flags == mode # "none"
m_teammode == mode # "ktf"

NoGain == [c \in Clients |-> 0]
Points(c, n) == [NoGain EXCEPT ![c] = n]

-----------------------------------------------------------------------------
(* sflaginfo: state, actor_cn (kept when the flag leaves its carrier), age *)
(* (gamemillis - lastupdate) and onmap (pos is a place on the map).        *)

valid_client(c) == c \in Clients /\ conn[c] # "empty"

deadactor(c) == ~valid_client(c) \/ life[c] # "ALIVE" \/ team_isspect(team[c])

Carries(fs, f, c) == fs[f].state = "STOLEN" /\ fs[f].actor_cn = c

\* A flag record whose lastupdate is now.
Fresh(st, c, place) == [state |-> st, actor_cn |-> c, age |-> 0, onmap |-> place]

Touched(fs, f) == [fs EXCEPT ![f] = Fresh(@.state, @.actor_cn, @.onmap)]
InBase(fs, f) == [fs EXCEPT ![f] = Fresh("INBASE", @.actor_cn, @.onmap)]
Taken(fs, f, c) == [fs EXCEPT ![f] = Fresh("STOLEN", c, @.onmap)]
Dropped(fs, f, c) == [fs EXCEPT ![f] = Fresh("DROPPED", @.actor_cn, placed[c])]
Idled_Bug(fs, f) == [fs EXCEPT ![f] = Fresh("IDLE", @.actor_cn, @.onmap)]
\* Keep the flag: the flag goes idle and the other one becomes active.
Idled(fs, f) ==
    [g \in Flags |-> IF g = f THEN Fresh("IDLE", fs[g].actor_cn, fs[g].onmap)
                    ELSE [state |-> "INBASE", actor_cn |-> fs[g].actor_cn,
                          age |-> fs[g].age, onmap |-> fs[g].onmap]]

\* The flag a client may carry away: in ctf the other side's, in htf its own.
TakesFlag(c) == IF mode = "ctf" THEN Other(team_base(team[c])) ELSE team_base(team[c])

CanTake_Bug(fs, f, action, c, near) ==
    /\ ~deadactor(c) /\ near
    /\ fs[f].state # "IDLE"
    /\ m_ktf \/ TakesFlag(c) = f

CanTake(fs, f, action, c, near) ==
    /\ ~deadactor(c)
    /\ fs[f].state = (IF action = "STEAL" THEN "INBASE" ELSE "DROPPED")
    /\ near
    /\ m_ktf \/ TakesFlag(c) = f

CanScore(fs, f, c, near) ==
    /\ valid_client(c) /\ near
    /\ IF mode = "ctf" THEN Carries(fs, f, c) /\ fs[Other(f)].state = "INBASE"
                       ELSE fs[f].state = "DROPPED"

\* The points of FA_SCORE.  The hunter of htf gets nothing while its own flag
\* is not carried, and double if it carries that flag itself.
ScorePoints(fs, f, c) ==
    IF mode = "ctf" THEN 1
    ELSE IF fs[Other(f)].state # "STOLEN" THEN 0
    ELSE IF fs[Other(f)].actor_cn = c THEN 2 ELSE 1

\* Keep the flag pays the carrier only while it plays.
CanBePaid(fs, f) ==
    fs[f].state = "STOLEN" /\ ~deadactor(fs[f].actor_cn)

\* flagaction: the flags after an action.  near is the outcome of flagdistance.
\* An action the switch does not handle still sets lastupdate.
FlagAction(fs, f, action, actor, near) ==
    LET c == IF action = "LOST" /\ actor = NoClient THEN fs[f].actor_cn ELSE actor
    IN IF ~m_ktf
       THEN CASE action \in {"PICKUP", "STEAL"} ->
                   IF CanTake(fs, f, action, c, near) THEN Taken(fs, f, c) ELSE fs
              [] action \in {"LOST", "DROP"} ->
                   IF Carries(fs, f, c) THEN Dropped(fs, f, c) ELSE fs
              [] action = "RETURN" ->
                   IF mode = "ctf" /\ fs[f].state = "DROPPED" THEN InBase(fs, f) ELSE fs
              [] action = "SCORE" ->
                   IF CanScore(fs, f, c, near) THEN InBase(fs, f) ELSE fs
              [] action = "RESET" -> InBase(fs, f)
              [] OTHER -> Touched(fs, f)
       ELSE CASE action = "STEAL" ->
                   IF CanTake(fs, f, action, c, near) THEN Taken(fs, f, c) ELSE fs
              [] action = "SCORE" ->
                   IF c # NoClient \/ fs[f].state # "STOLEN" THEN fs
                   ELSE IF CanBePaid(fs, f) THEN Touched(fs, f) ELSE Idled(fs, f)
              [] action \in {"LOST", "DROP"} ->
                   IF Carries(fs, f, c) THEN Idled(fs, f) ELSE fs
              [] action = "RESET" -> Idled(fs, f)
              [] OTHER -> Touched(fs, f)

\* The points flagaction adds to flagscore.
FlagGain(fs, f, action, actor, near) ==
    IF action # "SCORE" THEN NoGain
    ELSE IF m_ktf
         THEN IF actor = NoClient /\ CanBePaid(fs, f) THEN Points(fs[f].actor_cn, 1) ELSE NoGain
         ELSE IF CanScore(fs, f, actor, near) THEN Points(actor, ScorePoints(fs, f, actor))
              ELSE NoGain

\* clienthasflag: the flags with the carrier c; the code returns the first.
CarriedBy(fs, c) ==
    IF m_flags /\ valid_client(c) THEN {f \in Flags : Carries(fs, f, c)} ELSE {}
clienthasflag(fs, c) == IF 0 \in CarriedBy(fs, c) THEN 0 ELSE 1

sdropflag(fs, c) ==
    IF CarriedBy(fs, c) = {} THEN fs
    ELSE FlagAction(fs, clienthasflag(fs, c), "LOST", c, FALSE)

resetflag(fs, c) ==
    IF CarriedBy(fs, c) = {} THEN fs
    ELSE FlagAction(fs, clienthasflag(fs, c), "RESET", NoClient, FALSE)

\* ctfreset for a game in mode m: keep the flag starts with one flag idle.
ResetFlags(m) ==
    {[f \in Flags |-> [state |-> IF f \in idle THEN "IDLE" ELSE "INBASE",
                       actor_cn |-> NoClient, age |-> 0, onmap |-> flag[f].onmap]] :
        idle \in IF m \in {"ktf", "tktf"} THEN {{0}, {1}} ELSE {{}}}

-----------------------------------------------------------------------------
(* Connections.                                                            *)

\* The packet loop of process() goes on after some disconnects of its sender.
Speaks(c) == conn[c] = "playing" \/ zombie = c
PacketOf(c) == zombie' = IF zombie = c THEN c ELSE NoClient
PacketEnds == zombie' = NoClient

Init ==
    /\ mode = "none" /\ loaded = FALSE /\ running = TRUE
    /\ conn = [c \in Clients |-> "empty"] /\ zombie = NoClient
    /\ team = [c \in Clients |-> TEAM_SPECT]
    /\ life = [c \in Clients |-> "DEAD"]
    /\ pending = [c \in Clients |-> FALSE]
    /\ placed = [c \in Clients |-> FALSE]
    /\ flag = [f \in Flags |-> [state |-> "INBASE", actor_cn |-> NoClient,
                                age |-> 0, onmap |-> FALSE]]
    /\ gain = NoGain

\* ENET_EVENT_TYPE_CONNECT: an empty slot is reset and taken.
Connect(c) ==
    /\ conn[c] = "empty"
    /\ conn' = [conn EXCEPT ![c] = "connecting"]
    /\ team' = [team EXCEPT ![c] = TEAM_SPECT]
    /\ life' = [life EXCEPT ![c] = "SPECTATE"]
    /\ pending' = [pending EXCEPT ![c] = FALSE]
    /\ placed' = [placed EXCEPT ![c] = FALSE]
    /\ gain' = NoGain /\ PacketEnds
    /\ UNCHANGED <<mode, loaded, running, flag>>

\* SV_CONNECT is accepted.  The welcome of the first client on an empty server
\* starts a game (startgame without notify: nobody plays yet).
Welcome(c) ==
    /\ conn[c] = "connecting"
    /\ conn' = [conn EXCEPT ![c] = "playing"]
    /\ team' = [team EXCEPT ![c] = TEAM_SPECT]
    /\ IF loaded THEN UNCHANGED <<mode, flag, running>>
                 ELSE /\ mode' \in Modes
                      /\ flag' \in ResetFlags(mode')
                      /\ running' = TRUE
    /\ loaded' = TRUE
    /\ gain' = NoGain /\ PacketEnds
    /\ UNCHANGED <<life, pending, placed>>

\* The slot is zapped first: clienthasflag finds no valid client any more.
Disconnect_Bug(c, midpacket) ==
    /\ conn[c] # "empty"
    /\ midpacket => conn[c] = "playing"
    /\ conn' = [conn EXCEPT ![c] = "empty"]
    /\ zombie' = IF midpacket THEN c ELSE NoClient
    /\ gain' = NoGain
    /\ UNCHANGED <<mode, loaded, running, team, life, pending, placed, flag>>

\* disconnect_client: the flag is lost, then the slot is zapped.  midpacket says
\* that the client's own packet caused it and has more messages.
Disconnect(c, midpacket) ==
    /\ conn[c] # "empty"
    /\ midpacket => conn[c] = "playing"
    /\ flag' = sdropflag(flag, c)
    /\ conn' = [conn EXCEPT ![c] = "empty"]
    /\ zombie' = IF midpacket THEN c ELSE NoClient
    /\ gain' = NoGain
    /\ UNCHANGED <<mode, loaded, running, team, life, pending, placed>>

-----------------------------------------------------------------------------
(* Team changes and spawns.                                                *)

\* Only forcedeath takes the flag.
ChangeTeam_Bug(c, t, ftr) ==
    LET dies == /\ ftr # "INFO"
                /\ team_isspect(t) \/ (team_isactive(t) /\ team_isactive(team[c]))
    IN  /\ flag' = IF dies THEN sdropflag(flag, c) ELSE flag
        /\ team' = [team EXCEPT ![c] = t]
        /\ life' = [life EXCEPT ![c] = IF team_isspect(t) THEN "SPECTATE"
                                       ELSE IF dies THEN "DEAD" ELSE @]
        /\ pending' = [pending EXCEPT ![c] = @ /\ ~dies]
        /\ placed' = [placed EXCEPT ![c] = @ /\ ~dies]

\* The effects of updateclientteam once the change is granted.  Its sendspawn has none:
\* the client is still in its old, spectating team then.
ChangeTeam(c, t, ftr) ==
    LET dropped == IF team[c] # t THEN sdropflag(flag, c) ELSE flag
        dies == /\ ftr # "INFO"
                /\ team_isspect(t) \/ (team_isactive(t) /\ team_isactive(team[c]))
    IN  /\ flag' = IF dies THEN sdropflag(dropped, c) ELSE dropped
        /\ team' = [team EXCEPT ![c] = t]
        /\ life' = [life EXCEPT ![c] = IF team_isspect(t) THEN "SPECTATE"
                                       ELSE IF dies THEN "DEAD" ELSE @]
        /\ pending' = [pending EXCEPT ![c] = @ /\ ~dies]
        /\ placed' = [placed EXCEPT ![c] = @ /\ ~dies]

\* SV_SWITCHTEAM, granted.
SwitchTeam(c, t) ==
    /\ Speaks(c) /\ valid_client(c) /\ t # team[c]
    /\ ChangeTeam(c, t, "PLAYERWISH")
    /\ gain' = NoGain /\ PacketOf(c)
    /\ UNCHANGED <<mode, loaded, running, conn>>

\* One updateclientteam of shuffleteams, refillteams, balanceteams, of a change of
\* master mode or match team size, or of a passed forceteam vote.
MoveClient(c, t, ftr) ==
    /\ conn[c] # "empty"
    /\ t # team[c] \/ ftr = "AUTOTEAM"
    /\ ftr = "AUTOTEAM" => team_isactive(t) /\ team_isactive(team[c])
    /\ ChangeTeam(c, t, ftr)
    /\ gain' = NoGain /\ PacketEnds
    /\ UNCHANGED <<mode, loaded, running, conn>>

\* TEAM_ANYACTIVE: the teams it may be resolved to.
AnyActive_Bug == {6}
AnyActive == {t \in Teams : team_isactive(t)}

\* SV_TRYSPAWN and SV_MAPIDENT for the right map: a spectator may be moved to an
\* active team (without a death), then the spawn state may be sent.
SpawnRequest(c) ==
    /\ Speaks(c)
    /\ \E t \in {team[c]} \cup
                (IF valid_client(c) /\ team_isspect(team[c]) THEN AnyActive ELSE {}),
          sendspawn \in BOOLEAN :
         /\ sendspawn => ~team_isspect(t)
         /\ flag' = IF t # team[c] THEN sdropflag(flag, c) ELSE flag
         /\ team' = [team EXCEPT ![c] = t]
         /\ pending' = [pending EXCEPT ![c] = @ \/ sendspawn]
         /\ placed' = [placed EXCEPT ![c] = @ /\ ~sendspawn]
    /\ gain' = NoGain /\ PacketOf(c)
    /\ UNCHANGED <<mode, loaded, running, conn, life>>

\* SV_MAPIDENT for a wrong map: forcedeath.
WrongMap(c) ==
    /\ Speaks(c)
    /\ flag' = sdropflag(flag, c)
    /\ life' = [life EXCEPT ![c] = "DEAD"]
    /\ pending' = [pending EXCEPT ![c] = FALSE]
    /\ placed' = [placed EXCEPT ![c] = FALSE]
    /\ gain' = NoGain /\ PacketOf(c)
    /\ UNCHANGED <<mode, loaded, running, conn, team>>

\* SV_SPAWN answers the last spawn state.
Spawn(c) ==
    /\ Speaks(c) /\ pending[c] /\ life[c] # "EDITING"
    /\ pending' = [pending EXCEPT ![c] = FALSE]
    /\ life' = [life EXCEPT ![c] = "ALIVE"]
    /\ gain' = NoGain /\ PacketOf(c)
    /\ UNCHANGED <<mode, loaded, running, conn, team, placed, flag>>

\* SV_POS and SV_POSC: a position from a client, whatever its life state.
Position(c) ==
    /\ Speaks(c)
    /\ placed' = [placed EXCEPT ![c] = TRUE]
    /\ gain' = NoGain /\ PacketOf(c)
    /\ UNCHANGED <<mode, loaded, running, conn, team, life, pending, flag>>

\* SV_EDITMODE is taken in every mode and every life state.
EditMode(c, val) ==
    /\ Speaks(c)
    /\ life' = [life EXCEPT ![c] = IF val THEN "EDITING" ELSE "ALIVE"]
    /\ gain' = NoGain /\ PacketOf(c)
    /\ UNCHANGED <<mode, loaded, running, conn, team, pending, placed, flag>>

\* SV_RECVMAP: the flag goes home, then mapchange(true) and a second welcome.
ReceiveMap(c) ==
    /\ Speaks(c) /\ loaded
    /\ flag' = resetflag(flag, c)
    /\ life' = [life EXCEPT ![c] = "DEAD"]
    /\ pending' = [pending EXCEPT ![c] = FALSE]
    /\ placed' = [placed EXCEPT ![c] = FALSE]
    /\ team' = [team EXCEPT ![c] = IF valid_client(c) THEN TEAM_SPECT ELSE @]
    /\ gain' = NoGain /\ PacketOf(c)
    /\ UNCHANGED <<mode, loaded, running, conn>>

\* SV_FLAGACTION.
SentActions == IF mode \in Modes THEN FlagMessages[mode] ELSE {}
FlagMessage(c, f, action, near) ==
    /\ Speaks(c) /\ m_flags
    /\ flag' = FlagAction(flag, f, action, c, near)
    /\ gain' = FlagGain(flag, f, action, c, near)
    /\ PacketOf(c)
    /\ UNCHANGED <<mode, loaded, running, conn, team, life, pending, placed>>

-----------------------------------------------------------------------------
(* The server slice.                                                       *)

\* serverdamage with a deadly outcome: target dies by its own hand (actor = target,
\* in any life state) or by a hit on a living one.  A team killer may be kicked or
\* banned at once, after the victim's flag was dealt with.
Death(target, actor, punished) ==
    LET tk == target # actor /\ m_teammode /\ team[target] = team[actor]
        held == CarriedBy(flag, target)
        action == IF mode = "htf" \/ (mode = "ctf" /\ ~tk) THEN "LOST" ELSE "RESET"
        after == IF held = {} THEN flag
                 ELSE FlagAction(flag, clienthasflag(flag, target), action, NoClient, FALSE)
    IN  /\ running /\ conn[target] = "playing" /\ conn[actor] = "playing"
        /\ target # actor => life[target] = "ALIVE"
        /\ punished => tk
        /\ life' = [life EXCEPT ![target] = "DEAD"]
        /\ flag' = IF punished THEN sdropflag(after, actor) ELSE after
        /\ conn' = IF punished THEN [conn EXCEPT ![actor] = "empty"] ELSE conn
        /\ gain' = IF (tk \/ target = actor) /\ mode \in {"htf", "ktf", "tktf"} /\ held # {}
                   THEN Points(actor, -1) ELSE NoGain
        /\ PacketEnds
        /\ UNCHANGED <<mode, loaded, running, team, pending, placed>>

\* gamemillis advances.
Tick ==
    /\ \E f \in Flags : flag[f].age < MaxAge
    /\ flag' = [f \in Flags |->
                 [flag[f] EXCEPT !.age = IF @ < MaxAge THEN @ + 1 ELSE @]]
    /\ gain' = NoGain /\ PacketEnds
    /\ UNCHANGED <<mode, loaded, running, conn, team, life, pending, placed>>

DropExpired_Bug(fs, f) ==
    IF mode = "ctf" /\ fs[f].state = "DROPPED" /\ fs[f].age > DropLimit[mode]
    THEN FlagAction(fs, f, "RESET", NoClient, FALSE) ELSE fs
\* A dropped flag that nobody fetched goes home.
DropExpired(fs, f) ==
    IF ~m_ktf /\ fs[f].state = "DROPPED" /\ fs[f].age > DropLimit[mode]
    THEN FlagAction(fs, f, "RESET", NoClient, FALSE) ELSE fs

htf_forceflag_Bug(fs, f) == {Touched(fs, f)}
\* htf_forceflag: one of the healthiest living clients of the side has to carry the
\* flag; without one only the timer starts again.
htf_forceflag(fs, f) ==
    LET alive == {c \in Clients : conn[c] # "empty" /\ life[c] = "ALIVE" /\ team_base(team[c]) = f}
    IN  IF alive = {} THEN {Touched(fs, f)} ELSE {Taken(fs, f, c) : c \in alive}

\* The loop body for flag f; SliceGain is what it adds to the scores.
PaysNow_Bug(fs, f) == mode = "tktf" /\ fs[f].state = "STOLEN" /\ fs[f].age > KtfHoldLimit
PaysNow(fs, f) == m_ktf /\ fs[f].state = "STOLEN" /\ fs[f].age > KtfHoldLimit
SliceFlag(fs, f) ==
    LET fs1 == DropExpired(fs, f)
    IN  IF mode = "htf" /\ fs1[f].state = "INBASE" /\ fs1[f].age > HtfBaseLimit
        THEN htf_forceflag(fs1, f)
        ELSE {IF PaysNow(fs1, f) THEN FlagAction(fs1, f, "SCORE", NoClient, FALSE) ELSE fs1}
SliceGain(fs, f) ==
    IF PaysNow(fs, f) THEN FlagGain(fs, f, "SCORE", NoClient, FALSE) ELSE NoGain

\* ktfflagingame looks at each flag right after that flag's loop body.
InGame(fs, f) == fs[f].state \in {"INBASE", "STOLEN"}

FlagTimers ==
    /\ running /\ m_flags
    /\ \E fs0 \in SliceFlag(flag, 0) : \E fs1 \in SliceFlag(fs0, 1) : \E pick \in Flags :
         /\ flag' = IF m_ktf /\ ~InGame(fs0, 0) /\ ~InGame(fs1, 1)
                    THEN FlagAction(fs1, pick, "RESET", NoClient, FALSE) ELSE fs1
         /\ gain' = [c \in Clients |-> SliceGain(flag, 0)[c] + SliceGain(fs0, 1)[c]]
    /\ PacketEnds
    /\ UNCHANGED <<mode, loaded, running, conn, team, life, pending, placed>>

\* checkintermission: the game is over, the flags are left as they are.
Intermission ==
    /\ running /\ loaded
    /\ running' = FALSE
    /\ gain' = NoGain /\ PacketEnds
    /\ UNCHANGED <<mode, loaded, conn, team, life, pending, placed, flag>>

\* startgame (from the end of the intermission or a passed vote): flags are reset,
\* some players change sides, every client is dead until it has the map.
StartGame(m) ==
    /\ loaded
    /\ mode' = m /\ running' = TRUE
    /\ flag' \in ResetFlags(m)
    /\ \E moved \in SUBSET {c \in Clients : conn[c] # "empty" /\ team_isactive(team[c])} :
         team' = [c \in Clients |-> IF c \in moved THEN Other(team[c]) ELSE team[c]]
    /\ life' = [c \in Clients |-> IF conn[c] # "empty" THEN "DEAD" ELSE life[c]]
    /\ pending' = [c \in Clients |-> conn[c] = "empty" /\ pending[c]]
    /\ placed' = [c \in Clients |-> conn[c] = "empty" /\ placed[c]]
    /\ gain' = NoGain /\ PacketEnds
    /\ UNCHANGED <<loaded, conn>>

\* SV_CALLVOTE for the next map of the rotation ("+1"), with a mode other than 0: to find out
\* which map that is, the rotation starts its game (startgame without notify), so the clients
\* play on where they are.
StartSilently(c, m) ==
    /\ Speaks(c) /\ loaded
    /\ mode' = m /\ running' = TRUE
    /\ flag' \in ResetFlags(m)
    /\ gain' = NoGain /\ PacketOf(c)
    /\ UNCHANGED <<loaded, conn, team, life, pending, placed>>

\* resetserverifempty.
ResetIfEmpty ==
    /\ \A c \in Clients : conn[c] = "empty"
    /\ mode' = "none" /\ loaded' = FALSE /\ running' = TRUE
    /\ flag' \in ResetFlags("none")
    /\ gain' = NoGain /\ PacketEnds
    /\ UNCHANGED <<conn, team, life, pending, placed>>

Message(c) ==
    \/ \E t \in Teams : SwitchTeam(c, t)
    \/ SpawnRequest(c)
    \/ WrongMap(c)
    \/ Spawn(c)
    \/ Position(c)
    \/ \E val \in EditMessages : EditMode(c, val)
    \/ ReceiveMap(c)
    \/ \E f \in Flags, action \in SentActions, near \in BOOLEAN :
          FlagMessage(c, f, action, near)
    \/ \E m \in Modes : StartSilently(c, m)

Next ==
    \/ \E c \in Clients : Connect(c) \/ Welcome(c) \/ Message(c)
    \/ \E c \in Clients, midpacket \in BOOLEAN : Disconnect(c, midpacket)
    \/ \E c \in Clients, t \in Teams, ftr \in {"AUTOTEAM", "SILENTFORCE"} : MoveClient(c, t, ftr)
    \/ \E target, actor \in Clients, punished \in BOOLEAN : Death(target, actor, punished)
    \/ Tick
    \/ FlagTimers
    \/ Intermission
    \/ \E m \in Modes : StartGame(m)
    \/ ResetIfEmpty

\* serverslice comes round for ever: time passes, a slice looks at the timers, and an
\* intermission ends with the next game.  Nothing is assumed of the clients.
Fairness ==
    /\ WF_vars(Tick)
    /\ WF_vars(FlagTimers)
    /\ WF_vars(~running /\ \E m \in Modes : StartGame(m))

Spec == Init /\ [][Next]_vars
FairSpec == Spec /\ Fairness

-----------------------------------------------------------------------------
(* Properties.                                                             *)

FlagRecords == [state : FlagStates, actor_cn : Clients \cup {NoClient},
                age : 0..MaxAge, onmap : BOOLEAN]

\* Types of the state.
TypeOK ==
    /\ mode \in Modes \cup {"none"} /\ loaded \in BOOLEAN /\ running \in BOOLEAN
    /\ conn \in [Clients -> {"empty", "connecting", "playing"}]
    /\ zombie \in Clients \cup {NoClient}
    /\ team \in [Clients -> TeamNums]
    /\ life \in [Clients -> LifeStates]
    /\ pending \in [Clients -> BOOLEAN]
    /\ placed \in [Clients -> BOOLEAN]
    /\ flag \in [Flags -> FlagRecords]
    /\ gain \in [Clients -> -1..2]

\* A stolen flag is with somebody who is there and lives: whatever way a client
\* dies, changes team, reloads the map, is kicked or leaves - and whatever the
\* rest of its last packet says - the flag leaves it in the same step, and the
\* next owner of the slot does not inherit it.
CarrierInPlay ==
    \A f \in Flags : flag[f].state = "STOLEN" =>
        /\ flag[f].actor_cn \in Clients
        /\ conn[flag[f].actor_cn] = "playing"
        /\ life[flag[f].actor_cn] \in {"ALIVE", "EDITING"}

\* In ctf a flag is carried by the other side, in htf by its own, although sides
\* are changed by wish, by force, by votes and between games.  So nobody carries
\* two flags, which clienthasflag (it finds the first) and with it every
\* separation of a client from its flag rely on.
CarrierSide ==
    ~m_ktf => \A f \in Flags : flag[f].state = "STOLEN" => TakesFlag(flag[f].actor_cn) = f

\* Keep the flag: one flag is idle, the other one in its base or carried, after every
\* slice, although the loop shows its watchdog no active flag when a payment swaps them
\* between its two looks; the other modes idle no flag.
OneActiveFlag ==
    IF m_ktf
    THEN \E f \in Flags : flag[f].state = "IDLE" /\ InGame(flag, Other(f))
    ELSE \A f \in Flags : flag[f].state # "IDLE"

\* What the players see of this is FlagPromise: no step moves a flag in a way the
\* rules do not have, not even one that deals with a death, a kick and both flags.
where == [f \in Flags |-> CASE flag[f].state = "INBASE" -> "base"
                          [] flag[f].state = "STOLEN" -> "carried"
                          [] flag[f].state = "DROPPED" -> "ground"
                          [] OTHER -> "idle"]
carrier == [f \in Flags |-> IF flag[f].state = "STOLEN" THEN flag[f].actor_cn ELSE NoClient]
present == {c \in Clients : conn[c] = "playing" /\ life[c] \in {"ALIVE", "EDITING"}}

Promised == INSTANCE FlagPromise WITH Players <- Clients, Nobody <- NoClient

\* Every behaviour of the handlers is one FlagPromise allows.
KeepsPromise == Promised!Promise

\* A dropped flag lies where its carrier stood, so that flagdistance can check who picks
\* it up.  Not so: a client that was made to carry the flag of htf may drop it before
\* its first position after the spawn has arrived.
DroppedOnMap == \A f \in Flags : flag[f].state = "DROPPED" => flag[f].onmap

\* A flag left on the ground goes back or is fetched, whoever comes and goes.
DroppedComesHome ==
    \A f \in Flags : []<>(flag[f].state # "DROPPED")

\* Who keeps the flag in ktf is paid again and again, unless it loses the flag.
KeeperIsPaid ==
    \A c \in Clients : \A f \in Flags : []<>(m_ktf /\ Carries(flag, f, c) => gain[c] = 1)

\* Hunt the flag: a flag does not stay in its base while its side has a living member - unless
\* clients silently start one game after another, which sets its timer anew each time.
StaysIn(f) ==
    /\ mode = "htf" /\ flag[f].state = "INBASE"
    /\ \E c \in Clients : conn[c] = "playing" /\ life[c] = "ALIVE" /\ team[c] = f
HuntedFlagIsOut ==
    \A f \in Flags : <>[]StaysIn(f) => []<><<\E c \in Clients, m \in Modes : StartSilently(c, m)>>_vars
=============================================================================
