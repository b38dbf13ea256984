---------------------------- MODULE Connections ----------------------------
(***************************************************************************)
(* Who gets into the server and with which score: the slots of clients,    *)
(* bans, the seats of a full server, and the scores that are saved when a  *)
(* client leaves and handed to whoever comes back with its name and host.  *)
(*                                                                         *)
(* A score is the set of points in it, each made once, so that a point     *)
(* that is copied or gets lost can be told.  Names on the white- and       *)
(* blacklist and the server password decide whether SV_CONNECT is refused; *)
(* that is an input of Join.                                               *)
(***************************************************************************)
EXTENDS Naturals, Sequences, FiniteSetsExt, SequencesExt

CONSTANTS
    Slots,        \* the slots of clients that the peers of the ENet host can fill
    MaxClients,   \* scl.maxclients, one less
    Peers,        \* addresses, host and port
    NoPeer,       \* none
    Hosts,        \* the hosts they are on
    Host,         \* [Peers -> Hosts]
    Net,          \* the /16 a host is in
    Names,        \* the names players give themselves
    Points,       \* what can be scored
    MaxBans       \* bound: how many bans are on the list at a time

ASSUME SeatsAssumption == MaxClients \in Nat \ {0} /\ IsFiniteSet(Slots)
                          /\ Cardinality(Slots) = MaxClients + 1
ASSUME AddressesAssumption == NoPeer \notin Peers /\ Host \in [Peers -> Hosts] /\ DOMAIN Net = Hosts
ASSUME BansAssumption == MaxBans \in Nat

VARIABLES
    clients,      \* the vector of that name
    savedscores,  \* the sequence of scores left behind
    mastermode,   \* open, private or match
    bans          \* the sequence of bans, the oldest first

vars == <<clients, savedscores, mastermode, bans>>

Modes == {"OPEN", "PRIVATE", "MATCH"}
Bans == [host : Hosts, type : {"VOTE", "AUTO"}, expired : BOOLEAN]
Saves == [name : Names, host : Hosts, score : SUBSET Points, valid : BOOLEAN]
Unnamed == ""
Client == [conn : {"empty", "connecting", "authed"}, peer : Peers \cup {NoPeer},
           name : Names \cup {Unnamed}, score : SUBSET Points]

\* A slot of type ST_EMPTY.  What else is left in it is not read before addclient resets it.
Free == [conn |-> "empty", peer |-> NoPeer, name |-> Unnamed, score |-> {}]

TypeOK ==
    /\ clients \in [Slots -> Client]
    /\ savedscores \in Seq(Saves)
    /\ mastermode \in Modes
    /\ bans \in Seq(Bans) /\ Len(bans) <= MaxBans

valid_client(cs, c) == cs[c].conn # "empty"
Authed(cs) == {c \in Slots : cs[c].conn = "authed"}
HostOf(cs, c) == Host[cs[c].peer]
numnonlocalclients == Cardinality({c \in Slots : valid_client(clients, c)})

-----------------------------------------------------------------------------
(* Saved scores.  Handlers save and restore in their middle, so these are  *)
(* functions of a table [cs, saved] of the clients and the saved scores.   *)

Table == [cs |-> clients, saved |-> savedscores]

\* findscore: does a saved score belong to this name and host?  In a match any host of
\* the /16 will do.
Belongs(sc, name, host) ==
    /\ sc.name = name
    /\ IF mastermode = "MATCH" THEN Net[sc.host] = Net[host] ELSE sc.host = host

\* findscore: the saved scores of client c, of which it takes the first.
SavedOf(t, c) == {i \in DOMAIN t.saved : Belongs(t.saved[i], t.cs[c].name, HostOf(t.cs, c))}

\* findscore: live clients that pass for an earlier connection of c.
Twins(cs, c) == {d \in Authed(cs) \ {c} : cs[d].name = cs[c].name /\ HostOf(cs, d) = HostOf(cs, c)}

\* savedscore::save on findscore(c, true).
Saved(t, c) ==
    LET found == SavedOf(t, c)
        new == [name |-> t.cs[c].name, host |-> HostOf(t.cs, c),
                score |-> t.cs[c].score, valid |-> TRUE]
        first == CHOOSE i \in found : \A j \in found : i <= j
    IN [t EXCEPT !.saved = IF found = {} THEN Append(@, new)
                           ELSE [@ EXCEPT ![first].score = new.score, ![first].valid = TRUE]]

Left_Bug(t, c) == [Saved(t, c) EXCEPT !.cs[c] = Free]
\* disconnect_client: whoever got the welcome leaves a score behind.
Left(t, c) ==
    [(IF t.cs[c].conn = "authed" THEN Saved(t, c) ELSE t) EXCEPT !.cs[c] = Free]

\* restorescore: the tables that may come of it.  The score of a twin is copied, a saved one
\* moves - if it is still valid.
Restored(t, c) ==
    LET found == SavedOf(t, c)
        first == CHOOSE i \in found : \A j \in found : i <= j
    IN CASE Twins(t.cs, c) # {} -> {[t EXCEPT !.cs[c].score = t.cs[d].score] : d \in Twins(t.cs, c)}
         [] Twins(t.cs, c) = {} /\ found # {} /\ t.saved[first].valid ->
               {[t EXCEPT !.cs[c].score = t.saved[first].score,
                          !.saved[first].score = {}, !.saved[first].valid = FALSE]}
         [] OTHER -> {t}

-----------------------------------------------------------------------------
(* Bans.  All last equally long, so the expired ones are the oldest.       *)

Expired == Cardinality({i \in DOMAIN bans : bans[i].expired})

Hits_Bug(h) == {i \in Expired + 2..Len(bans) : bans[i].host = h}
\* getbantype.  The loop removes expired bans as it comes to them, and then looks through a
\* reference to where the ban was.  That is the next ban by now, expired or not - or, if
\* there is none, the one that was just removed.
Hits(h) ==
    {i \in (IF Expired > 0 THEN 2..Len(bans) + 1 ELSE DOMAIN bans) :
        bans[IF i > Len(bans) THEN Len(bans) ELSE i].host = h}

GetBanType(h) ==
    LET hit == Min(Hits(h))
    IN IF Hits(h) = {} THEN [type |-> "NONE", left |-> SubSeq(bans, Expired + 1, Len(bans))]
       ELSE [type |-> bans[IF hit > Len(bans) THEN Len(bans) ELSE hit].type,
             left |-> SubSeq(bans, (IF hit <= Expired THEN hit - 1 ELSE Expired) + 1, Len(bans))]

\* The first ban of a host taken off the list bs.
Unbanned(bs, h) ==
    LET on == {i \in DOMAIN bs : bs[i].host = h}
    IN IF on = {} THEN bs
       ELSE SubSeq(bs, 1, Min(on) - 1) \o SubSeq(bs, Min(on) + 1, Len(bs))

-----------------------------------------------------------------------------
Init ==
    /\ clients = [c \in Slots |-> Free]
    /\ savedscores = <<>>
    /\ mastermode = "OPEN"
    /\ bans = <<>>

Becomes(t) == clients' = t.cs /\ savedscores' = t.saved

\* ENET_EVENT_TYPE_CONNECT: addclient resets a free slot.
Connect(c, p) ==
    /\ ~valid_client(clients, c)
    /\ clients' = [clients EXCEPT ![c] =
                     [conn |-> "connecting", peer |-> p, name |-> Unnamed, score |-> {}]]
    /\ UNCHANGED <<savedscores, mastermode, bans>>

\* disconnect_client, for whatever reason: the peer, a kick, a timeout.
Disconnect(c) ==
    /\ valid_client(clients, c)
    /\ Becomes(Left(Table, c))
    /\ UNCHANGED <<mastermode, bans>>

\* addban.
Ban(c, type) ==
    /\ valid_client(clients, c)
    /\ Len(bans) < MaxBans
    /\ bans' = Append(bans, [host |-> HostOf(clients, c), type |-> type, expired |-> FALSE])
    /\ Becomes(Left(Table, c))
    /\ UNCHANGED mastermode

\* Time passes: servmillis gets past the end of the oldest ban.
BanExpires ==
    /\ Expired < Len(bans)
    /\ bans' = [bans EXCEPT ![Expired + 1].expired = TRUE]
    /\ UNCHANGED <<clients, savedscores, mastermode>>

\* removebansaction.
RemoveBans ==
    /\ bans' = <<>>
    /\ UNCHANGED <<clients, savedscores, mastermode>>

Duplicates_Bug(cs, c) == {d \in Twins(cs, c) : cs[d].peer = cs[c].peer}
\* SV_CONNECT, the duplicates: other connections of the same peer.
Duplicates(cs, c) == {d \in Slots \ {c} : valid_client(cs, d) /\ cs[d].peer = cs[c].peer}
WithoutDuplicates(t, c) ==
    LET ds == SetToSeq(Duplicates(t.cs, c))
        rest[i \in 0..Len(ds)] == IF i = 0 THEN t ELSE Left(rest[i - 1], ds[i])
    IN rest[Len(ds)]

Admitted_Bug(t, c, crowded) ==
    UNION {{WithoutDuplicates(u, c) : u \in Restored(r, c)} : r \in
        (IF crowded THEN {Left(t, d) : d \in {d \in Slots \ {c} : valid_client(t.cs, d)}} ELSE {t})}
\* SV_CONNECT once isauthed is set: if need be somebody makes room, duplicates are removed,
\* and only then the score is restored.
Admitted(t, c, crowded) ==
    UNION {Restored(WithoutDuplicates(r, c), c) : r \in
        (IF crowded THEN {Left(t, d) : d \in {d \in Slots \ {c} : valid_client(t.cs, d)}} ELSE {t})}

full_Bug == numnonlocalclients - 1 > MaxClients
\* SV_CONNECT, srvfull.  The newcomer counts itself.
full == numnonlocalclients > MaxClients
private == mastermode \in {"PRIVATE", "MATCH"}

Wishes == {"player", "listed", "deban", "admin"}

\* SV_CONNECT: client c gives the name n.  It is refused in any case ("listed": a name or a server password
\* that is not accepted), brings a password that lifts its ban or makes it admin, or neither.
Join(c, n, wish) ==
    /\ clients[c].conn = "connecting"
    /\ LET named == [Table EXCEPT !.cs[c].name = n]
           host == HostOf(clients, c)
           ban == GetBanType(host)
           banned == ban.type # "NONE"
           reconnects == /\ mastermode = "MATCH" /\ ~banned
                         /\ Twins(named.cs, c) \cup SavedOf(named, c) # {}
           password == /\ ~reconnects
                       /\ wish = "admin" \/ (wish = "deban" /\ banned /\ ~full /\ ~private)
           welcome == wish \in {"player", "deban"} /\ ~private /\ ~full /\ ~banned
       IN /\ bans' = IF password /\ ban.type = "VOTE" THEN Unbanned(ban.left, host) ELSE ban.left
          /\ \/ /\ reconnects \/ password \/ welcome
                /\ \E t \in Admitted([named EXCEPT !.cs[c].conn = "authed"], c, password /\ full) :
                      Becomes(t)
             \/ /\ ~(reconnects \/ password \/ welcome)
                /\ Becomes(Left(named, c))
    /\ UNCHANGED mastermode

\* A frag, a flag, a medal: whatever adds to a score.
Score(c, p) ==
    /\ clients[c].conn = "authed"
    /\ \A d \in Authed(clients) : p \notin clients[d].score
    /\ \A i \in DOMAIN savedscores : ~(savedscores[i].valid /\ p \in savedscores[i].score)
    /\ clients' = [clients EXCEPT ![c].score = @ \cup {p}]
    /\ UNCHANGED <<savedscores, mastermode, bans>>

\* SV_SWITCHNAME.  The name may be on the blacklist, or the change be one too many.
SwitchName(c, n) ==
    /\ clients[c].conn = "authed"
    /\ LET renamed == [Table EXCEPT !.cs[c].name = n]
       IN Becomes(renamed) \/ Becomes(Left(renamed, c))
    /\ UNCHANGED <<mastermode, bans>>

ReceiveMap_Bug(c) ==
    /\ clients[c].conn = "authed"
    /\ clients' = [clients EXCEPT ![c].score = {}]
    /\ UNCHANGED <<savedscores, mastermode, bans>>
\* SV_RECVMAP: the score is saved, and the client starts from nothing.
ReceiveMap(c) ==
    /\ clients[c].conn = "authed"
    /\ Becomes([Saved(Table, c) EXCEPT !.cs[c].score = {}])
    /\ UNCHANGED <<mastermode, bans>>

\* changemastermode, by a vote or an admin.
ChangeMasterMode(m) ==
    /\ mastermode' = m
    /\ UNCHANGED <<clients, savedscores, bans>>

\* resetserver: what the saved scores become, depending on the mode.  (What is in an invalid
\* one is not read again.)
Forgotten == IF mastermode = "PRIVATE"
             THEN [i \in DOMAIN savedscores |->
                     [savedscores[i] EXCEPT !.score = {}, !.valid = FALSE]]
             ELSE <<>>

\* startgame: everybody starts from nothing.
StartGame ==
    /\ savedscores' = Forgotten
    /\ clients' = [c \in Slots |-> IF valid_client(clients, c)
                                   THEN [clients[c] EXCEPT !.score = {}] ELSE clients[c]]
    /\ UNCHANGED <<mastermode, bans>>

\* startgame without notify, from a call for the next map ("+1"): the clients keep their scores.
StartSilently ==
    /\ Authed(clients) # {}
    /\ savedscores' = Forgotten
    /\ UNCHANGED <<clients, mastermode, bans>>

\* resetserverifempty.
ResetIfEmpty ==
    /\ \A c \in Slots : ~valid_client(clients, c)
    /\ savedscores' = Forgotten
    /\ mastermode' = "OPEN"
    /\ UNCHANGED <<clients, bans>>

Message(c) ==
    \/ \E n \in Names : SwitchName(c, n) \/ (\E wish \in Wishes : Join(c, n, wish))
    \/ \E p \in Points : Score(c, p)
    \/ ReceiveMap(c)

Next ==
    \/ \E c \in Slots :
          \/ \E p \in Peers : Connect(c, p)
          \/ Disconnect(c)
          \/ \E type \in {"VOTE", "AUTO"} : Ban(c, type)
          \/ Message(c)
    \/ BanExpires \/ RemoveBans \/ StartGame \/ StartSilently \/ ResetIfEmpty
    \/ \E m \in Modes : ChangeMasterMode(m)

Spec == Init /\ [][Next]_vars

-----------------------------------------------------------------------------
(* Properties.                                                             *)

\* A peer has one seat: its older connection goes when the newer one is let in, in whatever order they
\* connected, renamed and authenticated.  And at most MaxClients are in, and not one more
\* than were already, except for former players that come back to a match: the seat in which the
\* newcomer waits counts.
SeatsHold ==
    [][/\ \A c, d \in Authed(clients') : clients'[c].peer = clients'[d].peer => c = d
       /\ (mastermode # "MATCH" /\ Cardinality(Authed(clients')) > MaxClients) =>
             Cardinality(Authed(clients')) <= Cardinality(Authed(clients))]_vars

\* Where a point is: with a client or in a saved score that can still be restored.
With(cs, p) == {c \in Authed(cs) : p \in cs[c].score}
In(saved, p) == {i \in DOMAIN saved : saved[i].valid /\ p \in saved[i].score}
Copies(cs, saved, p) == Cardinality(With(cs, p)) + Cardinality(In(saved, p))

\* findscore hands a reconnecting client the score of a connection that is not gone yet.  A
\* point is doubled in no other way: the step lets in a client whose name and host a
\* client of another peer, which stays, has; an older connection of the same peer has left its
\* score before.
OnlyTwinsDouble ==
    [][\A p \in Points :
          Copies(clients', savedscores', p) > Copies(clients, savedscores, p)
              /\ Copies(clients, savedscores, p) > 0 =>
             \E c \in Authed(clients') \ Authed(clients) :
                \E d \in With(clients, p) \cap Twins(clients', c) :
                   clients[d].peer # clients'[c].peer]_vars

\* The saved scores, and those of others, that client c overwrites if it leaves with the name n.
Shadowed(c, n) ==
    UNION ({sc.score : sc \in {sc \in ToSet(savedscores) :
              sc.valid /\ Belongs(sc, n, HostOf(clients, c))}} \cup
           {clients[d].score : d \in {d \in Authed(clients) \ {c} :
              Belongs([name |-> clients[d].name, host |-> HostOf(clients, d)],
                      n, HostOf(clients, c))}})

\* A game's points do not get lost, with one exception: what is saved under a name and host while
\* a client that passes for the same player is in - after a download of the map, a change of name,
\* or with twins - is overwritten when that client leaves.
LostOnlyInShadow ==
    [][\A p \in Points :
          Copies(clients, savedscores, p) > 0 /\ Copies(clients', savedscores', p) = 0 =>
             \/ StartGame \/ StartSilently \/ ResetIfEmpty
             \/ \E c \in Authed(clients), n \in Names :
                   (n = clients[c].name \/ SwitchName(c, n)) /\ p \in Shadowed(c, n)]_vars

\* Whoever was banned stays out until the ban has expired, if it has no password: an
\* expired ban before it on the list, or a seat in a match, does not let it in.  And an expired ban
\* turns a player away once at most: whoever is refused by nothing else takes one off the list.
BansHold ==
    [][\A c \in Slots, n \in Names : Join(c, n, "player") =>
          LET mine == {i \in DOMAIN bans : bans[i].host = HostOf(clients, c)}
              refused == c \notin Authed(clients')
          IN /\ (\E i \in mine : ~bans[i].expired) => refused
             /\ refused /\ mastermode = "OPEN" /\ numnonlocalclients <= MaxClients
                   /\ (\A i \in mine : bans[i].expired) => Len(bans') < Len(bans)]_vars
=============================================================================
