----------------------------- MODULE WorldState -----------------------------
(***************************************************************************)
(* The broadcast of positions and messages (server.cpp).  buildworldstate  *)
(* gathers what the clients have sent since the last one in one buffer per *)
(* channel, writes the buffer a second time behind itself, and sends to    *)
(* each client the window that begins behind its own chunk: everything but *)
(* what it sent itself, without a copy.  The packets point into the        *)
(* buffer, so ENet tells by a callback that one is destroyed and the last  *)
(* one frees the buffer.                                                   *)
(*                                                                         *)
(* A chunk stands for all a client has sent on a channel.  Of ENet, which  *)
(* the repository carries in src/enet, this is the life of packets:        *)
(* enet_peer_send refuses when the peer is not connected, packets are      *)
(* destroyed one by one as they are sent, dropped or acknowledged, and all *)
(* of a peer at once when its queues are reset.                            *)
(***************************************************************************)
EXTENDS Naturals, FiniteSets, SequencesExt

CONSTANTS
    Cns,          \* the indices of clients, their slots
    MaxStates     \* bound: world states whose packets are on the way

ASSUME CnsAssumption == Cns \subseteq Nat /\ IsFiniteSet(Cns)
ASSUME StatesAssumption == MaxStates \in Nat \ {0}

VARIABLES
    slot,         \* per client: what it is, what waits to be broadcast, is its peer gone
    worldstates,  \* the world states in use: id |-> buffers and uses
    packets       \* packets that ENet holds, each a window of a buffer

worldVars == <<slot, worldstates, packets>>

Channels == {"positions", "messages"}

\* old (not in the code): what a client before this one in the slot has left.
SlotData == [Channels -> {"none", "own", "old"}]
SlotStates == [is : {"empty", "connected", "authed"}, data : SlotData, gone : BOOLEAN]
Chunks == [from : Cns, old : BOOLEAN]
Packets == [to : Cns, ws : 1..MaxStates, chan : Channels, offset : Nat, length : Nat,
            others : SUBSET Cns]      \* others is history: whose chunks there were

WorldTypeOK ==
    /\ slot \in [Cns -> SlotStates]
    /\ DOMAIN worldstates \subseteq 1..MaxStates
    /\ \A id \in DOMAIN worldstates : worldstates[id] \in
          [uses : Nat \ {0}, positions : Seq(Chunks), messages : Seq(Chunks)]
    /\ packets \subseteq Packets
    /\ \A c \in Cns : slot[c].is = "empty" => ~slot[c].gone

Receivers == {c \in Cns : slot[c].is = "authed"}
Senders(ch) == {c \in Receivers : slot[c].data[ch] # "none"}

\* Where the chunk of a client is: the chunks of all clients are in the order of their slots.
Position(c, ch) == Cardinality({d \in Senders(ch) : d <= c})
Gathered(ch) ==
    [i \in 1..Cardinality(Senders(ch)) |->
        LET c == CHOOSE d \in Senders(ch) : Position(d, ch) = i
        IN [from |-> c, old |-> slot[c].data[ch] = "old"]]
\* The buffer is written twice.
Doubled(s) == s \o s

\* Where the window of a client begins and how long it is: behind its own chunk, if it has one.
WindowOf(c, ch) ==
    IF c \in Senders(ch) THEN [offset |-> Position(c, ch), length |-> Cardinality(Senders(ch)) - 1]
                         ELSE [offset |-> 0, length |-> Cardinality(Senders(ch))]

\* Who is sent a packet: enet_peer_send takes it only for a connected peer.
Gets_Bug(c, ch) == /\ c \in Receivers /\ ~slot[c].gone /\ c \in Senders(ch)
                   /\ WindowOf(c, ch).length > 0
Gets(c, ch) == c \in Receivers /\ ~slot[c].gone /\ WindowOf(c, ch).length > 0

\* What a packet carries.
Content(p) ==
    LET buffer == Doubled(worldstates[p.ws][p.chan])
    IN SubSeq(buffer, p.offset + 1, p.offset + p.length)

-----------------------------------------------------------------------------
WorldInit ==
    /\ slot = [c \in Cns |-> [is |-> "empty", data |-> [ch \in Channels |-> "none"], gone |-> FALSE]]
    /\ worldstates = [id \in {} |-> 0]
    /\ packets = {}

\* client::reset, for a new client in the slot.
NoData_Bug(data) == [data EXCEPT !["messages"] = "none"]
NoData(data) == [ch \in Channels |-> "none"]
Arrives(c) ==
    /\ slot[c].is = "empty"
    /\ slot' = [slot EXCEPT ![c] = [is |-> "connected", data |-> NoData(@.data), gone |-> FALSE]]
    /\ UNCHANGED <<worldstates, packets>>

Authenticates(c) ==
    /\ slot[c].is = "connected"
    /\ slot' = [slot EXCEPT ![c].is = "authed"]
    /\ UNCHANGED <<worldstates, packets>>

\* SV_POS overwrites the position, the other messages are appended (QUEUE_MSG).
Sends(c, ch) ==
    /\ slot[c].is = "authed" /\ ~slot[c].gone
    /\ slot' = [slot EXCEPT ![c].data[ch] = "own"]
    /\ UNCHANGED <<worldstates, packets>>

\* serverdamage: the position of a client that dies is not broadcast.
Dies(c) ==
    /\ slot[c].is = "authed"
    /\ slot' = [slot EXCEPT ![c].data["positions"] = "none"]
    /\ UNCHANGED <<worldstates, packets>>

\* cleanworldstate, for every packet of ps that ENet destroys.
Cleaned(ps) ==
    LET Left(id) == worldstates[id].uses - Cardinality({p \in ps : p.ws = id})
    IN [id \in {i \in DOMAIN worldstates : Left(i) > 0} |->
           [worldstates[id] EXCEPT !.uses = Left(id)]]

Destroyed(ps) == worldstates' = Cleaned(ps) /\ packets' = packets \ ps
\* enet_peer_reset_queues: all that waits in the queues of a peer.
PacketsTo(c) == {p \in packets : p.to = c}

\* A packet has been sent, dropped by the throttle, or acknowledged: nobody refers to it any more.
Delivered(p) == Destroyed({p}) /\ UNCHANGED slot

\* ENet gives a peer up, as the client asks for it or after a timeout: its queues are reset at once, and
\* the server is told by an event that may come later.
PeerGone(c) ==
    /\ slot[c].is # "empty" /\ ~slot[c].gone
    /\ slot' = [slot EXCEPT ![c].gone = TRUE]
    /\ Destroyed(PacketsTo(c))

\* disconnect_client, by the server or when the event comes: zap keeps what was to be broadcast.
Leaves(c) ==
    /\ slot[c].is # "empty"
    /\ slot' = [slot EXCEPT ![c] =
                  [is |-> "empty", gone |-> FALSE,
                   data |-> [ch \in Channels |-> IF @.data[ch] = "none" THEN "none" ELSE "old"]]]
    /\ Destroyed(PacketsTo(c))

\* buildworldstate: every packet that ENet takes counts as a use of the two buffers.
Mail == {x \in Cns \X Channels : Gets(x[1], x[2])}
Uses_Bug == Cardinality({x[1] : x \in Mail})
Uses == Cardinality(Mail)
Packet(id, c, ch) ==
    [to |-> c, ws |-> id, chan |-> ch, offset |-> WindowOf(c, ch).offset,
     length |-> WindowOf(c, ch).length, others |-> Senders(ch) \ {c}]

Build ==
    /\ \E c \in Cns : slot[c].is # "empty"
    /\ \E id \in 1..MaxStates :
          /\ id \notin DOMAIN worldstates /\ \A j \in 1..id - 1 : j \in DOMAIN worldstates
          /\ LET ws == [uses |-> Uses, positions |-> Gathered("positions"),
                        messages |-> Gathered("messages")]
             IN worldstates' = [j \in DOMAIN worldstates \cup (IF Uses = 0 THEN {} ELSE {id}) |->
                                   IF j = id THEN ws ELSE worldstates[j]]
          /\ packets' = packets \cup {Packet(id, x[1], x[2]) : x \in Mail}
    /\ slot' = [c \in Cns |-> IF c \in Receivers
                                THEN [slot[c] EXCEPT !.data = [ch \in Channels |-> "none"]]
                                ELSE slot[c]]

WorldNext ==
    \/ \E c \in Cns : \/ Arrives(c) \/ Authenticates(c) \/ Dies(c) \/ PeerGone(c) \/ Leaves(c)
                        \/ \E ch \in Channels : Sends(c, ch)
    \/ \E p \in packets : Delivered(p)
    \/ Build

WorldSpec == WorldInit /\ [][WorldNext]_worldVars

-----------------------------------------------------------------------------
(* Properties.                                                             *)

\* No packet points into memory that was freed or beyond the end of a buffer, and a world state counts
\* exactly the packets that ENet still holds: else it would be freed early or never.
BuffersInUse ==
    /\ \A p \in packets : /\ p.ws \in DOMAIN worldstates
                          /\ p.offset + p.length <= 2 * Len(worldstates[p.ws][p.chan])
    /\ \A id \in DOMAIN worldstates : worldstates[id].uses = Cardinality({p \in packets : p.ws = id})

\* A packet carries what each of the others has sent, once, and nothing of its receiver, nor of a
\* client that had one of the slots before.
EverybodyElse ==
    \A p \in packets : p.ws \in DOMAIN worldstates =>
        /\ Len(Content(p)) = Cardinality(p.others)
        /\ ToSet(Content(p)) = {[from |-> c, old |-> FALSE] : c \in p.others}

\* What a client has sent reaches everybody with the next world state, unless it dies or leaves before
\* or the receiver's peer is gone.
NothingLost ==
    [][Build => \A c, d \in Cns, ch \in Channels :
          c \in Senders(ch) /\ d \in Receivers \ {c} /\ ~slot[d].gone =>
             \E p \in packets' \ packets :
                p.to = d /\ p.chan = ch /\ \E i \in DOMAIN Content(p)' : Content(p)'[i].from = c]_worldVars
=============================================================================
