----------------------------- MODULE VotingProofs -----------------------------
(***************************************************************************)
(* Proofs about Voting for any number of slots, peers and hosts, and any   *)
(* kinds of votes: types, one admin, the owner of a vote, and the          *)
(* noticing of majorities.                                                 *)
(*                                                                         *)
(* The argument.  Handlers change the world and call evaluate() on it.     *)
(* Whatever its outcome, the world stays in order (WorldOK).  A vote that  *)
(* is still pending after it is untouched, has its owner there, and has    *)
(* neither a majority nor an admin's veto (StillOpen); and a handler that  *)
(* does not evaluate the vote leaves the ballots that count as they were.  *)
(***************************************************************************)
EXTENDS Voting, FiniteSetTheorems, TLAPS

\* One admin, and it is there.
AdminThere(w) ==
    /\ \A c, d \in Clients : w.role[c] = "ADMIN" /\ w.role[d] = "ADMIN" => c = d
    /\ \A c \in Clients : w.role[c] = "ADMIN" => valid_client(w, c)

WorldOK(w) == w \in Worlds /\ AdminThere(w)

VoteOK(v) == v \in Votes \cup {NoVote}

\* What MajorityActs says once every ballot counts.
Undecided(w) ==
    /\ 100 * Tally(w, "YES") <= 51 * numclients(w)
    /\ 2 * Tally(w, "NO") < numclients(w)
    /\ ~AdminVotes(w, "NO") /\ ~AdminVotes(w, "YES")

\* What evaluate() leaves open.
StillOpen(v, w) ==
    /\ valid_client(w, v.owner)
    /\ ~IsBoot(v.type) => Undecided(w)

\* The invariant of a vote, a world, the peers of the slots and the answers to the vote.
InOrder(v, w, peers, voted) ==
    /\ VoteOK(v) /\ WorldOK(w)
    /\ Pending(v) => w.conn[v.owner] = "playing" /\ peers[v.owner] = v.by
    /\ (/\ Pending(v) /\ ~IsBoot(v.type)
        /\ {c \in Clients : valid_client(w, c) /\ w.vote[c] # "NEUTRAL"} \subseteq voted)
       => Undecided(w)

IInv ==
    /\ InOrder(curvote, world, addr, cast)
    /\ addr \in [Clients -> Addrs] /\ cast \subseteq Clients /\ map_queued \in BOOLEAN

-----------------------------------------------------------------------------
(* The world stays in order.                                               *)

LEMMA ZappedOK ==
  ASSUME NEW w, WorldOK(w), NEW c \in Clients
  PROVE  /\ WorldOK(Zapped(w, c))
         /\ Zapped(w, c).conn = [w.conn EXCEPT ![c] = "empty"]
<1>1. /\ Zapped(w, c) \in Worlds
      /\ Zapped(w, c).conn = [w.conn EXCEPT ![c] = "empty"]
      /\ Zapped(w, c).role = [w.role EXCEPT ![c] = "DEFAULT"]
  BY DEF WorldOK, Worlds, Zapped
<1>2. w.role \in [Clients -> {"DEFAULT", "ADMIN"}] /\ DOMAIN w.conn = Clients
  BY DEF WorldOK, Worlds
<1>3. \A d \in Clients : Zapped(w, c).role[d] = "ADMIN" =>
          d # c /\ w.role[d] = "ADMIN" /\ Zapped(w, c).conn[d] = w.conn[d]
  BY <1>1, <1>2
<1>4. AdminThere(Zapped(w, c))
  BY <1>3 DEF WorldOK, AdminThere, valid_client
<1> QED  BY <1>1, <1>4 DEF WorldOK

LEMMA PromotedOK ==
  ASSUME NEW w, WorldOK(w), NEW c \in Clients, valid_client(w, c)
  PROVE  WorldOK(Promoted(w, c)) /\ Promoted(w, c).conn = w.conn
  BY DEF WorldOK, AdminThere, Worlds, Promoted, valid_client

\* Only connections and roles matter for who is admin.
LEMMA SameRoles ==
  ASSUME NEW w, WorldOK(w), NEW u \in Worlds, u.conn = w.conn, u.role = w.role
  PROVE  WorldOK(u)
  BY DEF WorldOK, AdminThere, valid_client

LEMMA GameStartedOK ==
  ASSUME NEW w, WorldOK(w)
  PROVE  WorldOK(GameStarted(w)) /\ GameStarted(w).conn = w.conn
<1>1. GameStarted(w) \in Worlds
  BY DEF WorldOK, Worlds, GameStarted
<1>2. GameStarted(w).conn = w.conn /\ GameStarted(w).role = w.role
  BY DEF WorldOK, Worlds, GameStarted
<1> QED  BY <1>1, <1>2, SameRoles

LEMMA KickedOK ==
  ASSUME NEW v \in Votes, NEW w, WorldOK(w), NEW u \in Kicked(v, w)
  PROVE  WorldOK(u)
<1> DEFINE banned == [w EXCEPT !.bans[Host[v.named]] = TRUE]
<1>1. u = w \/ \E c \in Clients : u = Zapped(w, c) \/ u = Zapped(banned, c)
  BY DEF Kicked, WithAddress
<1>2. /\ banned \in Worlds
      /\ banned.conn = w.conn /\ banned.role = w.role
  BY PeersAssumption DEF WorldOK, Worlds, Votes
<1>3. WorldOK(banned)
  BY <1>2, SameRoles
<1> HIDE DEF banned
<1>4. \A c \in Clients : WorldOK(Zapped(w, c)) /\ WorldOK(Zapped(banned, c))
  BY <1>3, ZappedOK
<1> QED  BY <1>1, <1>4

LEMMA ValidMeans ==
  ASSUME NEW v, NEW w
  PROVE  /\ IsBoot(v.type) => (ActionValid(v, w) <=> v.wasvalid \/ Touchable(w, v.target))
         /\ v.type = "giveadmin" => (ActionValid(v, w) <=> Touchable(w, v.target))
         /\ v.type = "forceteam" =>
               (ActionValid(v, w) <=> valid_client(w, v.target) /\ v.team # w.team[v.target])
         /\ v.type \notin {"kick", "ban", "giveadmin", "forceteam"} => ActionValid(v, w)
<1>1. IsBoot(v.type) => (ActionValid(v, w) <=> v.wasvalid \/ Touchable(w, v.target))
  BY Zenon DEF ActionValid, IsBoot
<1>2. v.type = "giveadmin" => (ActionValid(v, w) <=> Touchable(w, v.target))
  BY Zenon DEF ActionValid, IsBoot
<1>3. v.type = "forceteam" =>
         (ActionValid(v, w) <=> valid_client(w, v.target) /\ v.team # w.team[v.target])
  BY Zenon DEF ActionValid, IsBoot
<1>4. v.type \notin {"kick", "ban", "giveadmin", "forceteam"} => ActionValid(v, w)
  BY Zenon DEF ActionValid, IsBoot
<1> QED  BY <1>1, <1>2, <1>3, <1>4

\* A vote that passes is a valid one, so its action finds its target there.
LEMMA PerformedOK ==
  ASSUME NEW v \in Votes, NEW w, WorldOK(w), ActionValid(v, w), NEW u \in Performed(v, w)
  PROVE  WorldOK(u)
<1>1. v.type \in Kinds /\ v.target \in Clients /\ v.team \in Teams
  BY VoteTypesAssumption DEF Votes
<1>2. CASE IsBoot(v.type)
  <2>1. Performed(v, w) = Kicked(v, w)
    BY <1>2, Zenon DEF Performed, IsBoot
  <2> QED  BY <2>1, KickedOK
<1>3. CASE v.type = "giveadmin"
  <2>1. Performed(v, w) = {Promoted(w, v.target)}
    BY <1>3, Zenon DEF Performed, IsBoot
  <2>2. Touchable(w, v.target)
    BY <1>3, ValidMeans
  <2> QED  BY <1>1, <2>1, <2>2, PromotedOK DEF Touchable
<1>4. CASE v.type = "forceteam"
  <2> DEFINE n == [w EXCEPT !.team[v.target] = v.team]
  <2>1. Performed(v, w) = {n}
    BY <1>4, Zenon DEF Performed, IsBoot
  <2>2. n \in Worlds /\ n.conn = w.conn /\ n.role = w.role
    BY <1>1 DEF WorldOK, Worlds
  <2> QED  BY <2>1, <2>2, SameRoles
<1>5. CASE v.type = "nextmap"
  <2> DEFINE n == [w EXCEPT !.nextmap = TRUE]
  <2>1. Performed(v, w) = {n}
    BY <1>5, Zenon DEF Performed, IsBoot
  <2>2. n \in Worlds /\ n.conn = w.conn /\ n.role = w.role
    BY <1>1 DEF WorldOK, Worlds
  <2> QED  BY <2>1, <2>2, SameRoles
<1>6. CASE v.type = "map"
  <2> DEFINE n == [w EXCEPT !.nextmap = TRUE, !.forced = TRUE]
  <2>1. Performed(v, w) = {GameStarted(w)} \cup (IF numclients(w) > 2 THEN {n} ELSE {})
    BY <1>6, Zenon DEF Performed, IsBoot
  <2>2. n \in Worlds /\ n.conn = w.conn /\ n.role = w.role
    BY DEF WorldOK, Worlds
  <2>3. WorldOK(n) /\ WorldOK(GameStarted(w))
    BY <2>2, SameRoles, GameStartedOK
  <2> HIDE DEF n
  <2> QED  BY <2>1, <2>3
<1>7. CASE v.type = "rembans"
  <2> DEFINE n == [w EXCEPT !.bans = [h \in Hosts |-> FALSE]]
  <2>1. Performed(v, w) = {n}
    BY <1>7, Zenon DEF Performed, IsBoot
  <2>2. n \in Worlds /\ n.conn = w.conn /\ n.role = w.role
    BY <1>1 DEF WorldOK, Worlds
  <2> QED  BY <2>1, <2>2, SameRoles
<1> QED  BY <1>1, <1>2, <1>3, <1>4, <1>5, <1>6, <1>7 DEF Kinds, IsBoot

LEMMA ClearedOK ==
  ASSUME NEW w, WorldOK(w)
  PROVE  WorldOK(Cleared(w))
<1>1. Cleared(w) \in Worlds /\ Cleared(w).conn = w.conn /\ Cleared(w).role = w.role
  BY DEF WorldOK, Worlds, Cleared, Ballots
<1> QED  BY <1>1, SameRoles

\* Who called a vote that passes may call again at once, which makes no difference to its action.
LEMMA RestedOK ==
  ASSUME NEW v \in Votes, NEW w, WorldOK(w), NEW passed,
         passed = [w EXCEPT !.rested[v.owner] = @ \/ valid_client(w, v.owner)]
  PROVE  /\ WorldOK(passed) /\ (ActionValid(v, w) => ActionValid(v, passed))
         /\ passed.conn = w.conn /\ passed.team = w.team
<1>1. v.owner \in Clients
  BY DEF Votes
<1>2. /\ passed \in Worlds /\ passed.conn = w.conn /\ passed.role = w.role
      /\ passed.team = w.team
  BY <1>1 DEF WorldOK, Worlds
<1>3. ASSUME ActionValid(v, w) PROVE ActionValid(v, passed)
  <2>1. \A c : Touchable(w, c) = Touchable(passed, c) /\ valid_client(w, c) = valid_client(passed, c)
    BY <1>2 DEF Touchable, valid_client
  <2>2. CASE v.type \in {"kick", "ban", "giveadmin"}
    BY <1>3, <2>1, <2>2, ValidMeans DEF IsBoot
  <2>3. CASE v.type = "forceteam"
    BY <1>2, <1>3, <2>1, <2>3, ValidMeans
  <2>4. CASE v.type \notin {"kick", "ban", "giveadmin", "forceteam"}
    BY <2>4, ValidMeans
  <2> QED  BY <2>2, <2>3, <2>4
<1> QED  BY <1>2, <1>3, SameRoles

\* The end of a vote decides it.
LEMMA EndOK ==
  ASSUME NEW v \in Votes, NEW w, WorldOK(w), NEW result \in {"YES", "NO"},
         NEW o \in End(v, w, result)
  PROVE  o.v \in Votes /\ o.v.result # "NEUTRAL" /\ WorldOK(o.w)
<1> DEFINE r == IF ActionValid(v, w) THEN result ELSE "NO"
           passed == [w EXCEPT !.rested[v.owner] = @ \/ valid_client(w, v.owner)]
           ended == [v EXCEPT !.result = r]
<1>1. PICK u \in (IF r = "YES" THEN Performed(v, passed) ELSE {w}) :
        o = [v |-> ended, w |-> Cleared(u)]
  BY DEF End
<1>2. /\ ended \in Votes /\ ended.result # "NEUTRAL"
  BY DEF Votes, Ballots
<1>3. WorldOK(passed) /\ (ActionValid(v, w) => ActionValid(v, passed))
  BY RestedOK
<1> HIDE DEF ended, passed
<1>4. WorldOK(u)
  BY <1>1, <1>3, PerformedOK
<1> QED  BY <1>1, <1>2, <1>4, ClearedOK

-----------------------------------------------------------------------------
(* Counting.                                                               *)

LEMMA DisjointUnion ==
  ASSUME NEW S, IsFiniteSet(S), NEW T, IsFiniteSet(T), S \cap T = {}
  PROVE  IsFiniteSet(S \cup T) /\ Cardinality(S \cup T) = Cardinality(S) + Cardinality(T)
<1>1. /\ IsFiniteSet(S \cup T)
      /\ Cardinality(S \cup T) = Cardinality(S) + Cardinality(T) - Cardinality(S \cap T)
  BY FS_Union
<1>2. Cardinality(S \cap T) = 0
  BY FS_EmptySet
<1>3. Cardinality(S) \in Nat /\ Cardinality(T) \in Nat
  BY FS_CardinalityType
<1> QED  BY <1>1, <1>2, <1>3

LEMMA Counts ==
  ASSUME NEW w \in Worlds
  PROVE  /\ numclients(w) \in Nat /\ \A b : Tally(w, b) \in Nat
         /\ numclients(w) = Tally(w, "YES") + Tally(w, "NO") + Tally(w, "NEUTRAL")
<1> DEFINE all == {c \in Clients : valid_client(w, c)}
           of(b) == {c \in Clients : valid_client(w, c) /\ w.vote[c] = b}
           yesno == of("YES") \cup of("NO")
<1>1. \A T \in SUBSET Clients : IsFiniteSet(T) /\ Cardinality(T) \in Nat
  BY SlotsAssumption, FS_Subset, FS_CardinalityType
<1>2. all \in SUBSET Clients /\ \A b : of(b) \in SUBSET Clients
  OBVIOUS
<1>3. /\ all = yesno \cup of("NEUTRAL")
      /\ of("YES") \cap of("NO") = {} /\ yesno \cap of("NEUTRAL") = {}
  <2>1. \A c \in Clients : w.vote[c] \in {"YES", "NO", "NEUTRAL"}
    BY DEF Worlds, Ballots
  <2> QED  BY <2>1
<1>4. \A b : Tally(w, b) = Cardinality(of(b))
  BY DEF Tally
<1>5. numclients(w) = Cardinality(all)
  BY DEF numclients
<1>6. \A b : IsFiniteSet(of(b)) /\ Cardinality(of(b)) \in Nat
  BY <1>1, <1>2
<1> HIDE DEF all, of
<1>7. /\ IsFiniteSet(yesno)
      /\ Cardinality(yesno) = Cardinality(of("YES")) + Cardinality(of("NO"))
  BY <1>3, <1>6, DisjointUnion
<1> HIDE DEF yesno
<1>8. Cardinality(yesno \cup of("NEUTRAL")) = Cardinality(yesno) + Cardinality(of("NEUTRAL"))
  BY <1>3, <1>6, <1>7, DisjointUnion
<1> QED  BY <1>1, <1>2, <1>3, <1>4, <1>5, <1>6, <1>7, <1>8

-----------------------------------------------------------------------------
(* evaluate().                                                             *)

\* A vote that neither side has decided.
LEMMA NoOneWon ==
  ASSUME NEW v \in Votes, NEW w, WorldOK(w), NEW forceend,
         ~(/\ yes_condition(v, w) \/ w.role[v.owner] = "ADMIN" \/ AdminVotes(w, "YES")
           /\ boot_condition(v, w)),
         ~no_condition(v, w, forceend)
  PROVE  StillOpen(v, w)
<1>1. valid_client(w, v.owner) /\ ~AdminVotes(w, "NO")
  BY DEF no_condition
<1>2. ASSUME ~IsBoot(v.type) PROVE Undecided(w)
  <2>1. ~yes_condition(v, w) /\ ~AdminVotes(w, "YES")
    BY <1>2 DEF boot_condition
  <2>2. ~(100 * Tally(w, "YES") > 51 * numclients(w))
    BY <2>1 DEF yes_condition
  <2>3. ~(Tally(w, "NO") >= Tally(w, "YES") + Tally(w, "NEUTRAL"))
    BY DEF no_condition
  <2>4. /\ numclients(w) \in Nat
        /\ Tally(w, "YES") \in Nat /\ Tally(w, "NO") \in Nat /\ Tally(w, "NEUTRAL") \in Nat
        /\ numclients(w) = Tally(w, "YES") + Tally(w, "NO") + Tally(w, "NEUTRAL")
    BY Counts DEF WorldOK
  <2>5. 100 * Tally(w, "YES") <= 51 * numclients(w) /\ 2 * Tally(w, "NO") < numclients(w)
    BY <2>2, <2>3, <2>4
  <2> QED  BY <1>1, <2>1, <2>5 DEF Undecided
<1> QED  BY <1>1, <1>2 DEF StillOpen

\* Whatever evaluate() does, the world stays in order; a vote that stays pending is the same,
\* in the same world.
LEMMA EvaluatedOK ==
  ASSUME NEW v, VoteOK(v), NEW w, WorldOK(w), NEW forceend, NEW o \in Evaluated(v, w, forceend)
  PROVE  /\ VoteOK(o.v) /\ WorldOK(o.w)
         /\ Pending(o.v) => Pending(v) /\ o.v = v /\ o.w = w /\ StillOpen(v, w)
         /\ ~Pending(v) => o.v = v /\ o.w = w
<1>1. CASE ~Pending(v)
  BY <1>1 DEF Evaluated
<1>2. CASE Pending(v)
  <2>1. v \in Votes
    BY <1>2 DEF VoteOK, Pending
  <2>2. CASE o \in End(v, w, "NO") \cup End(v, w, "YES")
    <3>1. o.v \in Votes /\ o.v.result # "NEUTRAL" /\ WorldOK(o.w)
      BY <2>1, <2>2, EndOK
    <3> QED  BY <1>2, <3>1 DEF VoteOK, Pending
  <2>3. CASE o \notin End(v, w, "NO") \cup End(v, w, "YES")
    <3>1. o \in Decide(v, w, forceend)
      BY <1>2, <2>3 DEF Evaluated
    <3>2. /\ o = [v |-> v, w |-> w]
          /\ ~(/\ yes_condition(v, w) \/ w.role[v.owner] = "ADMIN" \/ AdminVotes(w, "YES")
               /\ boot_condition(v, w))
          /\ ~no_condition(v, w, forceend)
      BY <2>3, <3>1 DEF Decide
    <3>3. StillOpen(v, w)
      BY <2>1, <3>2, NoOneWon
    <3> QED  BY <1>2, <3>2, <3>3
  <2> QED  BY <2>2, <2>3
<1> QED  BY <1>1, <1>2

-----------------------------------------------------------------------------
(* From order to order.                                                    *)

LEMMA OwnersAreClients ==
  ASSUME NEW v, VoteOK(v), Pending(v)
  PROVE  v \in Votes /\ v.owner \in Clients
  BY DEF VoteOK, Pending, Votes

\* A handler that evaluates the vote.
LEMMA EvaluatedInOrder ==
  ASSUME NEW v, VoteOK(v), NEW w, WorldOK(w), NEW peers, NEW voted, NEW forceend,
         Pending(v) /\ valid_client(w, v.owner) =>
            w.conn[v.owner] = "playing" /\ peers[v.owner] = v.by,
         NEW o \in Evaluated(v, w, forceend)
  PROVE  InOrder(o.v, o.w, peers, voted)
  BY EvaluatedOK DEF InOrder, StillOpen

LEMMA SameBallots ==
  ASSUME NEW w, NEW u, \A c \in Clients : valid_client(u, c) <=> valid_client(w, c),
         u.vote = w.vote, u.role = w.role
  PROVE  /\ {c \in Clients : valid_client(u, c) /\ u.vote[c] # "NEUTRAL"}
               = {c \in Clients : valid_client(w, c) /\ w.vote[c] # "NEUTRAL"}
         /\ Undecided(w) <=> Undecided(u)
<1>1. numclients(u) = numclients(w)
  <2>1. {c \in Clients : valid_client(u, c)} = {c \in Clients : valid_client(w, c)}
    OBVIOUS
  <2> QED  BY <2>1 DEF numclients
<1>2. \A b : Tally(u, b) = Tally(w, b)
  <2>1. \A b : {c \in Clients : valid_client(u, c) /\ u.vote[c] = b}
                  = {c \in Clients : valid_client(w, c) /\ w.vote[c] = b}
    OBVIOUS
  <2> QED  BY <2>1 DEF Tally
<1>3. \A b : AdminVotes(u, b) <=> AdminVotes(w, b)
  BY DEF AdminVotes
<1> QED  BY <1>1, <1>2, <1>3 DEF Undecided

\* A handler that leaves connections, roles and ballots alone, or lets a client in.
LEMMA QuietInOrder ==
  ASSUME NEW v, NEW w, NEW u, NEW peers, NEW voted, InOrder(v, w, peers, voted), u \in Worlds,
         \A c \in Clients : valid_client(u, c) <=> valid_client(w, c),
         \A c \in Clients : w.conn[c] = "playing" => u.conn[c] = "playing",
         u.vote = w.vote, u.role = w.role
  PROVE  InOrder(v, u, peers, voted)
<1>1. WorldOK(u)
  BY DEF InOrder, WorldOK, AdminThere
<1>2. Pending(v) => u.conn[v.owner] = "playing" /\ peers[v.owner] = v.by
  BY OwnersAreClients DEF InOrder
<1> QED  BY <1>1, <1>2, SameBallots DEF InOrder

-----------------------------------------------------------------------------
(* The invariant, action by action.                                        *)

LEMMA InitOK == Init => IInv
<1> SUFFICES ASSUME Init PROVE IInv
  OBVIOUS
<1> DEFINE nobody == [c \in Clients |-> "empty"]
           norole == [c \in Clients |-> "DEFAULT"]
           noballot == [c \in Clients |-> "NEUTRAL"]
           noteam == [c \in Clients |-> TEAM_SPECT]
           norest == [c \in Clients |-> TRUE]
           noban == [h \in Hosts |-> FALSE]
<1>0. /\ nobody \in [Clients -> {"empty", "connecting", "playing"}]
      /\ norole \in [Clients -> {"DEFAULT", "ADMIN"}]
      /\ noballot \in [Clients -> Ballots] /\ noteam \in [Clients -> Teams]
      /\ norest \in [Clients -> BOOLEAN] /\ noban \in [Hosts -> BOOLEAN]
      /\ \A c \in Clients : norole[c] # "ADMIN"
  BY VoteTeamsAssumption DEF Ballots
<1>1. world \in [conn : {nobody}, role : {norole}, vote : {noballot}, team : {noteam},
                rested : {norest}, bans : {noban}, nextmap : {FALSE}, forced : {FALSE},
                interm : {FALSE}]
  BY DEF Init
<1> HIDE DEF nobody, norole, noballot, noteam, norest, noban
<1>2. WorldOK(world)
  BY <1>0, <1>1 DEF WorldOK, AdminThere, Worlds
<1>3. ~Pending(curvote) /\ VoteOK(curvote)
  BY DEF Init, Pending, VoteOK
<1> QED  BY <1>2, <1>3 DEF Init, IInv, InOrder

\* A newcomer has no ballot yet.
LEMMA ConnectOK ==
  ASSUME IInv, NEW c \in Clients, NEW a \in Addrs, Connect(c, a)
  PROVE  IInv'
<1> DEFINE w == world
           u == world'
<1>1. /\ WorldOK(w) /\ w \in Worlds /\ ~valid_client(w, c)
      /\ u = [w EXCEPT !.conn[c] = "connecting", !.role[c] = "DEFAULT",
                       !.vote[c] = "NEUTRAL", !.rested[c] = TRUE, !.team[c] = TEAM_SPECT]
  BY DEF IInv, InOrder, WorldOK, Connect
<1>2. /\ u \in Worlds
      /\ u.conn = [w.conn EXCEPT ![c] = "connecting"]
      /\ u.role = [w.role EXCEPT ![c] = "DEFAULT"]
      /\ u.vote = [w.vote EXCEPT ![c] = "NEUTRAL"]
  BY <1>1, VoteTeamsAssumption DEF Worlds, Ballots
<1>3. /\ w.conn \in [Clients -> {"empty", "connecting", "playing"}]
      /\ w.role \in [Clients -> {"DEFAULT", "ADMIN"}] /\ w.vote \in [Clients -> Ballots]
  BY <1>1 DEF Worlds
<1> HIDE DEF w, u
<1>4. /\ valid_client(u, c) /\ u.vote[c] = "NEUTRAL" /\ u.role[c] = "DEFAULT"
      /\ \A d \in Clients \ {c} : /\ valid_client(u, d) <=> valid_client(w, d)
                                /\ u.conn[d] = w.conn[d]
                                /\ u.vote[d] = w.vote[d] /\ u.role[d] = w.role[d]
  BY <1>2, <1>3 DEF valid_client
<1>5. WorldOK(u)
  BY <1>1, <1>2, <1>4 DEF WorldOK, AdminThere
<1>6. numclients(u) = numclients(w) + 1 /\ numclients(w) \in Nat
  <2> DEFINE all == {d \in Clients : valid_client(w, d)}
  <2>1. {d \in Clients : valid_client(u, d)} = all \cup {c} /\ c \notin all
    BY <1>1, <1>4
  <2>2. IsFiniteSet(all)
    BY SlotsAssumption, FS_Subset
  <2> HIDE DEF all
  <2>3. Cardinality(all \cup {c}) = Cardinality(all) + 1
    BY <2>1, <2>2, FS_AddElement
  <2>4. Cardinality(all) \in Nat
    BY <2>2, FS_CardinalityType
  <2> QED  BY <2>1, <2>3, <2>4 DEF numclients, all
<1>7. ASSUME NEW b \in {"YES", "NO"} PROVE Tally(u, b) = Tally(w, b) /\ Tally(w, b) \in Nat
  <2>1. {d \in Clients : valid_client(u, d) /\ u.vote[d] = b}
           = {d \in Clients : valid_client(w, d) /\ w.vote[d] = b}
    BY <1>1, <1>4
  <2> QED  BY <1>1, <2>1, Counts DEF Tally
<1>8. \A b : AdminVotes(u, b) => AdminVotes(w, b)
  BY <1>4 DEF AdminVotes
<1>9. Undecided(w) => Undecided(u)
  BY <1>6, <1>7, <1>8 DEF Undecided
<1>10. {d \in Clients : valid_client(u, d) /\ u.vote[d] # "NEUTRAL"}
         = {d \in Clients : valid_client(w, d) /\ w.vote[d] # "NEUTRAL"}
  BY <1>1, <1>4
<1>11. InOrder(curvote, w, addr, cast)
  BY DEF IInv, w
<1>12. addr' = [addr EXCEPT ![c] = a] /\ cast' = cast \ {c} /\ curvote' = curvote
       /\ map_queued' = map_queued /\ addr \in [Clients -> Addrs] /\ cast \subseteq Clients
       /\ map_queued \in BOOLEAN
  BY DEF Connect, IInv
<1>13. Pending(curvote) => u.conn[curvote.owner] = "playing" /\ addr'[curvote.owner] = curvote.by
  <2> SUFFICES ASSUME Pending(curvote)
               PROVE  u.conn[curvote.owner] = "playing" /\ addr'[curvote.owner] = curvote.by
    OBVIOUS
  <2>1. curvote.owner \in Clients /\ w.conn[curvote.owner] = "playing"
        /\ addr[curvote.owner] = curvote.by
    BY <1>11, OwnersAreClients DEF InOrder
  <2>2. curvote.owner # c
    BY <1>1, <2>1 DEF valid_client
  <2> QED  BY <1>4, <1>12, <2>1, <2>2
<1>14. InOrder(curvote, u, addr', cast')
  BY <1>5, <1>9, <1>10, <1>11, <1>12, <1>13 DEF InOrder
<1> QED  BY <1>12, <1>14 DEF IInv, u

LEMMA BecomesOK ==
  ASSUME IInv, NEW outcomes, Becomes(outcomes), addr' = addr, cast' \subseteq Clients,
         map_queued' \in BOOLEAN, \A o \in outcomes : InOrder(o.v, o.w, addr, cast')
  PROVE  IInv'
  BY DEF Becomes, IInv

\* A handler of which the vote sees nothing.
LEMMA UnseenOK ==
  ASSUME IInv, curvote' = curvote, addr' = addr, cast' = cast, map_queued' \in BOOLEAN,
         world' \in Worlds, world'.conn = world.conn, world'.vote = world.vote,
         world'.role = world.role
  PROVE  IInv'
<1>1. InOrder(curvote, world', addr, cast)
  BY QuietInOrder DEF IInv, valid_client
<1> QED  BY <1>1 DEF IInv

\* Emptying a slot, and evaluating the vote after it.
LEMMA ZapInOrder ==
  ASSUME NEW v, NEW w, NEW peers, NEW voted, InOrder(v, w, peers, voted), NEW c \in Clients,
         NEW forceend, NEW o \in Evaluated(v, Zapped(w, c), forceend)
  PROVE  InOrder(o.v, o.w, peers, voted)
<1>1. VoteOK(v) /\ WorldOK(w) /\ WorldOK(Zapped(w, c))
  BY ZappedOK DEF InOrder
<1>2. /\ Zapped(w, c).conn = [w.conn EXCEPT ![c] = "empty"]
      /\ w.conn \in [Clients -> {"empty", "connecting", "playing"}]
  BY <1>1, ZappedOK DEF WorldOK, Worlds
<1>3. Pending(v) /\ valid_client(Zapped(w, c), v.owner) =>
         Zapped(w, c).conn[v.owner] = "playing" /\ peers[v.owner] = v.by
  BY <1>1, <1>2, OwnersAreClients DEF InOrder, valid_client
<1> QED  BY <1>1, <1>3, EvaluatedInOrder

LEMMA DisconnectOK ==
  ASSUME IInv, NEW c \in Clients, Disconnect(c)
  PROVE  IInv'
  BY ZapInOrder, BecomesOK DEF IInv, Disconnect

LEMMA WelcomeOK ==
  ASSUME IInv, NEW c \in Clients, NEW admin \in BOOLEAN, Welcome(c, admin)
  PROVE  IInv'
<1> DEFINE w == [world EXCEPT !.conn[c] = "playing", !.team[c] = TEAM_SPECT]
<1>1. world \in Worlds /\ InOrder(curvote, world, addr, cast)
  BY DEF IInv, InOrder, WorldOK
<1>2. /\ w \in Worlds
      /\ w.conn = [world.conn EXCEPT ![c] = "playing"]
      /\ w.vote = world.vote /\ w.role = world.role
  BY <1>1, VoteTeamsAssumption DEF Worlds
<1>3. world.conn \in [Clients -> {"empty", "connecting", "playing"}]
      /\ world.conn[c] = "connecting"
  BY <1>1 DEF Worlds, Welcome
<1>4. PICK o \in WithoutDuplicate(curvote, w, c) :
        Becomes(IF admin /\ valid_client(o.w, c)
                THEN Evaluated(o.v, [Promoted(o.w, c) EXCEPT !.bans[Host[addr[c]]] = FALSE], FALSE)
                ELSE {o})
  BY DEF Welcome
<1> HIDE DEF w
<1>5. InOrder(curvote, w, addr, cast)
  BY <1>1, <1>2, <1>3, QuietInOrder DEF valid_client
<1>6. InOrder(o.v, o.w, addr, cast)
  <2>1. CASE o = [v |-> curvote, w |-> w]
    BY <1>5, <2>1
  <2>2. CASE \E d \in Clients : o \in Evaluated(curvote, Zapped(w, d), FALSE)
    BY <1>5, <2>2, ZapInOrder
  <2> QED  BY <1>4, <2>1, <2>2 DEF WithoutDuplicate, WithAddress
<1>7. ASSUME valid_client(o.w, c),
             NEW e \in Evaluated(o.v, [Promoted(o.w, c) EXCEPT !.bans[Host[addr[c]]] = FALSE], FALSE)
      PROVE  InOrder(e.v, e.w, addr, cast)
  <2> DEFINE q == Promoted(o.w, c)
             u == [q EXCEPT !.bans[Host[addr[c]]] = FALSE]
  <2>1. WorldOK(q) /\ q.conn = o.w.conn
    BY <1>6, <1>7, PromotedOK DEF InOrder
  <2> HIDE DEF q
  <2>2. u \in Worlds /\ u.conn = q.conn /\ u.role = q.role
    BY <2>1 DEF WorldOK, Worlds
  <2>3. WorldOK(u) /\ u.conn = o.w.conn
    BY <2>1, <2>2, SameRoles
  <2>4. e \in Evaluated(o.v, u, FALSE)
    BY <1>7 DEF q
  <2> HIDE DEF u
  <2>5. /\ VoteOK(o.v)
        /\ Pending(o.v) => u.conn[o.v.owner] = "playing" /\ addr[o.v.owner] = o.v.by
    BY <1>6, <2>3 DEF InOrder
  <2> QED  BY <2>3, <2>4, <2>5, EvaluatedInOrder
<1>8. addr' = addr /\ cast' = cast /\ map_queued' = map_queued
      /\ cast \subseteq Clients /\ map_queued \in BOOLEAN
  BY DEF Welcome, IInv
<1> QED  BY <1>4, <1>6, <1>7, <1>8, BecomesOK

LEMMA SetAdminOK ==
  ASSUME IInv, NEW c \in Clients, NEW claim \in BOOLEAN, NEW password \in BOOLEAN,
         SetAdmin(c, claim, password)
  PROVE  IInv'
<1> DEFINE w == IF claim /\ password THEN Promoted(world, c)
                ELSE IF claim THEN world ELSE [world EXCEPT !.role[c] = "DEFAULT"]
<1>1. InOrder(curvote, world, addr, cast) /\ WorldOK(world) /\ world.conn[c] = "playing"
  BY DEF IInv, InOrder, SetAdmin
<1>2. WorldOK(w) /\ w.conn = world.conn
  <2>1. WorldOK(Promoted(world, c)) /\ Promoted(world, c).conn = world.conn
    BY <1>1, PromotedOK DEF valid_client
  <2>2. /\ WorldOK([world EXCEPT !.role[c] = "DEFAULT"])
        /\ [world EXCEPT !.role[c] = "DEFAULT"].conn = world.conn
    <3> DEFINE u == [world EXCEPT !.role[c] = "DEFAULT"]
    <3>1. world \in Worlds /\ AdminThere(world)
      BY <1>1 DEF WorldOK
    <3>2. u \in Worlds /\ u.conn = world.conn /\ u.role = [world.role EXCEPT ![c] = "DEFAULT"]
      BY <3>1 DEF Worlds
    <3>3. \A d \in Clients : u.role[d] = "ADMIN" => world.role[d] = "ADMIN"
      BY <3>1, <3>2 DEF Worlds
    <3> HIDE DEF u
    <3>4. AdminThere(u)
      BY <3>1, <3>2, <3>3 DEF AdminThere, valid_client
    <3>5. WorldOK(u) /\ u.conn = world.conn
      BY <3>2, <3>4 DEF WorldOK
    <3> QED  BY <3>5 DEF u
  <2> QED  BY <1>1, <2>1, <2>2
<1>3. /\ Becomes(Evaluated(curvote, w, FALSE))
      /\ addr' = addr /\ cast' \subseteq Clients /\ map_queued' \in BOOLEAN
  BY DEF SetAdmin, IInv
<1> HIDE DEF w
<1>4. PICK o \in Evaluated(curvote, w, FALSE) : curvote' = o.v /\ world' = o.w
  BY <1>3 DEF Becomes
<1>5. /\ VoteOK(curvote)
      /\ Pending(curvote) => w.conn[curvote.owner] = "playing" /\ addr[curvote.owner] = curvote.by
  BY <1>1, <1>2 DEF InOrder
<1>6. InOrder(o.v, o.w, addr, cast')
  BY <1>2, <1>5, EvaluatedInOrder
<1> QED  BY <1>3, <1>4, <1>6 DEF IInv

LEMMA VoteStepOK ==
  ASSUME IInv, NEW c \in Clients, NEW b \in {"YES", "NO"}, Vote(c, b)
  PROVE  IInv'
<1> DEFINE w == [world EXCEPT !.vote[c] = b]
<1>1. InOrder(curvote, world, addr, cast) /\ WorldOK(world)
  BY DEF IInv, InOrder
<1>2. w \in Worlds /\ w.conn = world.conn /\ w.role = world.role
  BY <1>1 DEF WorldOK, Worlds, Ballots
<1>3. /\ Becomes(Evaluated(curvote, w, FALSE))
      /\ addr' = addr /\ cast' \subseteq Clients /\ map_queued' \in BOOLEAN
  BY DEF Vote, IInv
<1> HIDE DEF w
<1>4. WorldOK(w)
  BY <1>1, <1>2, SameRoles
<1>5. PICK o \in Evaluated(curvote, w, FALSE) : curvote' = o.v /\ world' = o.w
  BY <1>3 DEF Becomes
<1>6. /\ VoteOK(curvote)
      /\ Pending(curvote) => w.conn[curvote.owner] = "playing" /\ addr[curvote.owner] = curvote.by
  BY <1>1, <1>2 DEF InOrder
<1>7. InOrder(o.v, o.w, addr, cast')
  BY <1>2, <1>4, <1>6, EvaluatedInOrder
<1> QED  BY <1>3, <1>5, <1>7 DEF IInv

LEMMA NewVote ==
  ASSUME IInv, NEW c \in Clients, NEW type \in VoteTypes, NEW target \in Clients,
         NEW reason \in BOOLEAN, NEW t \in Teams, CallVote(c, type, target, reason, t)
  PROVE  /\ curvote' \in Votes /\ curvote'.owner = c /\ curvote'.by = addr[c]
         /\ curvote'.result = "NEUTRAL" /\ curvote'.age = 0
<1> DEFINE valid == IsBoot(type) /\ reason /\ Touchable(world, target)
<1>1. curvote' = [type |-> type, owner |-> c, by |-> addr[c], target |-> target,
                  named |-> addr[target], team |-> t, age |-> 0, result |-> "NEUTRAL",
                  wasvalid |-> valid]
  BY DEF CallVote
<1>2. valid \in BOOLEAN /\ addr \in [Clients -> Addrs]
  BY DEF IInv
<1> HIDE DEF valid
<1> QED  BY <1>1, <1>2, VoteTimesAssumption DEF Votes, Ballots

\* A vote is called by a client that is there, and nobody's ballot of before counts: if all
\* who have one answered this vote, nobody has one.
LEMMA CallVoteOK ==
  ASSUME IInv, NEW c \in Clients, NEW type \in VoteTypes, NEW target \in Clients,
         NEW reason \in BOOLEAN, NEW t \in Teams, CallVote(c, type, target, reason, t)
  PROVE  IInv'
<1>0. PICK w \in {world, GameStarted(world)} : world' = [w EXCEPT !.rested[c] = FALSE]
  BY DEF CallVote
<1> DEFINE u == [w EXCEPT !.rested[c] = FALSE]
<1>1. /\ WorldOK(world) /\ world \in Worlds /\ addr \in [Clients -> Addrs]
      /\ world.conn[c] = "playing"
  BY DEF IInv, InOrder, WorldOK, CallVote
<1>2. world' = u /\ cast' = {} /\ addr' = addr
  BY <1>0 DEF CallVote
<1>3. map_queued' \in BOOLEAN
  BY DEF CallVote
<1>4. /\ u \in Worlds /\ u.conn = world.conn /\ u.role = world.role
      /\ u.vote = world.vote
  BY <1>1 DEF Worlds, GameStarted
<1> HIDE DEF u
<1>5. curvote' \in Votes /\ curvote'.owner = c /\ curvote'.by = addr[c]
  BY NewVote
<1>6. WorldOK(u)
  BY <1>1, <1>4, SameRoles
<1>7. ASSUME {d \in Clients : valid_client(u, d) /\ u.vote[d] # "NEUTRAL"} \subseteq {}
      PROVE  Undecided(u)
  <2>1. \A d \in Clients : valid_client(u, d) => u.vote[d] = "NEUTRAL"
    BY <1>7
  <2>2. ASSUME NEW b \in {"YES", "NO"} PROVE Tally(u, b) = 0
    <3>1. {d \in Clients : valid_client(u, d) /\ u.vote[d] = b} = {}
      BY <2>1
    <3> QED  BY <3>1, FS_EmptySet DEF Tally
  <2>3. numclients(u) \in Nat /\ numclients(u) # 0
    <3> DEFINE all == {d \in Clients : valid_client(u, d)}
    <3>1. c \in all
      BY <1>1, <1>4 DEF valid_client
    <3>2. IsFiniteSet(all)
      BY SlotsAssumption, FS_Subset
    <3>3. numclients(u) = Cardinality(all)
      BY DEF numclients
    <3> HIDE DEF all
    <3> QED  BY <3>1, <3>2, <3>3, FS_EmptySet, FS_CardinalityType
  <2>4. ~AdminVotes(u, "NO") /\ ~AdminVotes(u, "YES")
    BY <1>6, <2>1 DEF AdminVotes, WorldOK, AdminThere
  <2> QED  BY <2>2, <2>3, <2>4 DEF Undecided
<1>8. InOrder(curvote', u, addr, {})
  BY <1>1, <1>4, <1>5, <1>6, <1>7 DEF InOrder, VoteOK
<1> QED  BY <1>1, <1>2, <1>3, <1>8 DEF IInv

LEMMA ChangeTeamOK ==
  ASSUME IInv, NEW c \in Clients, NEW t \in Teams, ChangeTeam(c, t)
  PROVE  IInv'
<1>1. /\ world' \in Worlds /\ world'.conn = world.conn
      /\ world'.vote = world.vote /\ world'.role = world.role
  BY DEF IInv, InOrder, WorldOK, Worlds, ChangeTeam
<1>2. map_queued' \in BOOLEAN
  BY DEF IInv, ChangeTeam
<1> QED  BY <1>1, <1>2, UnseenOK DEF ChangeTeam

LEMMA TickOK ==
  ASSUME IInv, Tick
  PROVE  IInv'
<1>1. /\ InOrder(curvote, world, addr, cast) /\ Pending(curvote) /\ curvote.age < LifeTime
      /\ curvote' = [curvote EXCEPT !.age = @ + 1]
  BY DEF IInv, Tick
<1>2. curvote \in Votes
  BY <1>1, OwnersAreClients DEF InOrder
<1>3. /\ curvote' \in Votes /\ curvote'.type = curvote.type /\ curvote'.by = curvote.by
      /\ curvote'.owner = curvote.owner
  BY <1>1, <1>2, VoteTimesAssumption DEF Votes
<1>4. InOrder(curvote', world, addr, cast)
  BY <1>1, <1>3 DEF InOrder, VoteOK
<1> QED  BY <1>4 DEF IInv, Tick

LEMMA ExpireOK ==
  ASSUME IInv, Expire
  PROVE  IInv'
<1>1. world \in Worlds
  BY DEF IInv, InOrder, WorldOK
<1>2. \/ \E c \in Clients : world' = [world EXCEPT !.rested[c] = TRUE]
      \/ \E h \in Hosts : world' = [world EXCEPT !.bans[h] = FALSE]
  BY DEF Expire
<1>3. /\ world' \in Worlds /\ world'.conn = world.conn
      /\ world'.vote = world.vote /\ world'.role = world.role
  <2>1. CASE \E c \in Clients : world' = [world EXCEPT !.rested[c] = TRUE]
    <3>1. PICK c \in Clients : world' = [world EXCEPT !.rested[c] = TRUE]
      BY <2>1
    <3> QED  BY <1>1, <3>1 DEF Worlds
  <2>2. CASE \E h \in Hosts : world' = [world EXCEPT !.bans[h] = FALSE]
    <3>1. PICK h \in Hosts : world' = [world EXCEPT !.bans[h] = FALSE]
      BY <2>2
    <3> QED  BY <1>1, <3>1 DEF Worlds
  <2> QED  BY <1>2, <2>1, <2>2
<1>4. map_queued' \in BOOLEAN
  BY DEF IInv, Expire
<1> QED  BY <1>3, <1>4, UnseenOK DEF Expire

LEMMA VoteSliceOK ==
  ASSUME IInv, VoteSlice
  PROVE  IInv'
<1>1. InOrder(curvote, world, addr, cast)
  BY DEF IInv
<1>2. PICK o \in Evaluated(curvote, world, TRUE) :
        curvote' = (IF Pending(o.v) THEN o.v ELSE NoVote) /\ world' = o.w
  BY DEF VoteSlice
<1>3. InOrder(o.v, o.w, addr, cast)
  <2>1. /\ VoteOK(curvote) /\ WorldOK(world)
        /\ Pending(curvote) =>
              world.conn[curvote.owner] = "playing" /\ addr[curvote.owner] = curvote.by
    BY <1>1 DEF InOrder
  <2> QED  BY <2>1, EvaluatedInOrder
<1>4. InOrder(curvote', world', addr, cast)
  BY <1>2, <1>3 DEF InOrder, VoteOK, Pending
<1> QED  BY <1>4 DEF IInv, VoteSlice

\* The ends of games are not seen by a vote.
LEMMA GamesOK ==
  ASSUME IInv, GameOver \/ NextGame \/ ResetIfEmpty \/ \E c \in Clients : CallStartsGame(c)
  PROVE  IInv'
<1>1. world \in Worlds
  BY DEF IInv, InOrder, WorldOK
<1>2. world' = [world EXCEPT !.interm = TRUE, !.forced = FALSE] \/ world' = GameStarted(world)
  BY DEF GameOver, NextGame, ResetIfEmpty, CallStartsGame
<1>3. /\ world' \in Worlds /\ world'.conn = world.conn
      /\ world'.vote = world.vote /\ world'.role = world.role
  BY <1>1, <1>2 DEF Worlds, GameStarted
<1>4. map_queued' \in BOOLEAN
  BY DEF IInv, GameOver, NextGame, ResetIfEmpty, CallStartsGame
<1> QED  BY <1>3, <1>4, UnseenOK DEF GameOver, NextGame, ResetIfEmpty, CallStartsGame

-----------------------------------------------------------------------------
(* The theorems.                                                           *)

LEMMA Inductive == IInv /\ [Next]_vars => IInv'
<1> SUFFICES ASSUME IInv, [Next]_vars PROVE IInv'
  OBVIOUS
<1>1. CASE UNCHANGED vars
  BY <1>1 DEF vars, IInv
<1>2. CASE Next
  BY <1>2, ConnectOK, WelcomeOK, DisconnectOK, SetAdminOK, VoteStepOK, ChangeTeamOK, CallVoteOK,
     TickOK, ExpireOK, VoteSliceOK, GamesOK DEF Next
<1> QED  BY <1>1, <1>2

LEMMA Invariant == Spec => []IInv
  BY InitOK, Inductive, PTL DEF Spec

\* The state has its types, whatever votes are called and whatever they do.
THEOREM VotesTypeCorrect == Spec => []TypeOK
<1>1. IInv => TypeOK
  BY DEF IInv, InOrder, VoteOK, WorldOK, TypeOK
<1> QED  BY <1>1, Invariant, PTL

\* evaluate() never reads the owner of a vote from a slot that its caller has left.
THEOREM OwnersStay == Spec => []OwnerPresent
<1>1. IInv => OwnerPresent
  BY DEF IInv, InOrder, OwnerPresent
<1> QED  BY <1>1, Invariant, PTL

\* There is one admin at most, and it is connected: passwords, votes and disconnects never
\* make two.
THEOREM NeverTwoAdmins == Spec => []OneAdmin
<1>1. ASSUME IInv PROVE OneAdmin
  <2> DEFINE admins == {c \in Clients : world.role[c] = "ADMIN"}
  <2>1. AdminThere(world)
    BY <1>1 DEF IInv, InOrder, WorldOK
  <2>2. admins = {} \/ \E c \in Clients : admins = {c}
    BY <2>1 DEF AdminThere
  <2>3. Cardinality(admins) \in {0, 1}
    <3> HIDE DEF admins
    <3> QED  BY <2>2, FS_EmptySet, FS_Singleton
  <2> QED  BY <2>1, <2>3 DEF OneAdmin, AdminThere
<1> QED  BY <1>1, Invariant, PTL

\* No majority and no veto waits to be noticed, whatever step made it.
THEOREM MajoritiesAct == Spec => []MajorityActs
<1>1. IInv => MajorityActs
  BY DEF IInv, InOrder, MajorityActs, Undecided
<1> QED  BY <1>1, Invariant, PTL

\* What evaluates a vote that was decided leaves it as it is.
LEMMA DecidedStays ==
  ASSUME NEW v, ~Pending(v), NEW w, NEW forceend, NEW o \in Evaluated(v, w, forceend)
  PROVE  o.v = v
  BY DEF Evaluated

LEMMA OnlyOutcome ==
  ASSUME NEW v, NEW outcomes, \A o \in outcomes : o.v = v, Becomes(outcomes)
  PROVE  curvote' = v
  BY DEF Becomes

\* A vote that was decided is never decided again, by its own action or by any later event.
THEOREM ResultsStand == Spec => ResultStands
<1> DEFINE Stands == curvote # NoVote /\ ~Pending(curvote) =>
                        \/ curvote' \in {curvote, NoVote}
                        \/ Pending(curvote') /\ curvote'.age = 0
<1>1. ASSUME IInv, Next PROVE Stands
  <2> SUFFICES ASSUME curvote # NoVote, ~Pending(curvote)
               PROVE  \/ curvote' \in {curvote, NoVote}
                      \/ Pending(curvote') /\ curvote'.age = 0
    OBVIOUS
  <2>1. ASSUME NEW c \in Clients, NEW admin, Welcome(c, admin) PROVE curvote' = curvote
    <3> DEFINE w == [world EXCEPT !.conn[c] = "playing", !.team[c] = TEAM_SPECT]
    <3>1. PICK o \in WithoutDuplicate(curvote, w, c) :
            Becomes(IF admin /\ valid_client(o.w, c)
                    THEN Evaluated(o.v, [Promoted(o.w, c) EXCEPT !.bans[Host[addr[c]]] = FALSE], FALSE)
                    ELSE {o})
      BY <2>1 DEF Welcome
    <3> HIDE DEF w
    <3>2. o.v = curvote
      <4>1. CASE o = [v |-> curvote, w |-> w]
        BY <4>1
      <4>2. CASE \E d \in Clients : o \in Evaluated(curvote, Zapped(w, d), FALSE)
        BY <4>2, DecidedStays
      <4> QED  BY <3>1, <4>1, <4>2 DEF WithoutDuplicate, WithAddress
    <3> DEFINE u == [Promoted(o.w, c) EXCEPT !.bans[Host[addr[c]]] = FALSE]
    <3>3. Becomes(IF admin /\ valid_client(o.w, c) THEN Evaluated(curvote, u, FALSE) ELSE {o})
      BY <3>1, <3>2
    <3> HIDE DEF u
    <3>4. \A e \in Evaluated(curvote, u, FALSE) : e.v = curvote
      BY DecidedStays
    <3> QED  BY <3>2, <3>3, <3>4, OnlyOutcome
  <2>2. ASSUME NEW w, Becomes(Evaluated(curvote, w, FALSE)) PROVE curvote' = curvote
    <3>1. \A o \in Evaluated(curvote, w, FALSE) : o.v = curvote
      BY DecidedStays
    <3> QED  BY <2>2, <3>1, OnlyOutcome
  <2>3. ASSUME NEW c \in Clients, Disconnect(c) PROVE curvote' = curvote
    BY <2>2, <2>3 DEF Disconnect
  <2>4. ASSUME NEW c \in Clients, NEW claim, NEW password, SetAdmin(c, claim, password)
        PROVE  curvote' = curvote
    BY <2>2, <2>4 DEF SetAdmin
  <2>5. ASSUME NEW c \in Clients, NEW b, Vote(c, b) PROVE curvote' = curvote
    BY <2>2, <2>5 DEF Vote
  <2>6. ASSUME NEW c \in Clients, NEW target \in Clients, NEW type \in VoteTypes,
               NEW reason \in BOOLEAN, NEW t \in Teams, CallVote(c, type, target, reason, t)
        PROVE  Pending(curvote') /\ curvote'.age = 0
    <3>1. curvote' \in Votes /\ curvote'.result = "NEUTRAL" /\ curvote'.age = 0
      BY <1>1, <2>6, NewVote
    <3> QED  BY <3>1, NoVoteAssumption DEF Pending
  <2>7. ASSUME VoteSlice PROVE curvote' \in {curvote, NoVote}
    <3>1. PICK o \in Evaluated(curvote, world, TRUE) :
            curvote' = (IF Pending(o.v) THEN o.v ELSE NoVote)
      BY <2>7 DEF VoteSlice
    <3>2. o.v = curvote
      BY DecidedStays
    <3> QED  BY <3>1, <3>2
  <2> QED  BY <1>1, <2>1, <2>3, <2>4, <2>5, <2>6, <2>7
           DEF Next, Connect, ChangeTeam, Tick, Expire, GameOver, NextGame, ResetIfEmpty,
               CallStartsGame
<1>2. IInv /\ [Next]_vars => [Stands]_vars
  BY <1>1
<1> QED  BY <1>2, Invariant, PTL DEF Spec, ResultStands

-----------------------------------------------------------------------------
(***************************************************************************)
(* Why votes come to an end (the part of VoteEnds that is not about        *)
(* fairness).  As long as a vote is pending nothing is changed of it but   *)
(* its age, and that grows; and the block of the slice, which has its turn *)
(* when the vote is old enough or decided, always deletes it.              *)
(***************************************************************************)

\* What becomes of vote v when it is evaluated: nothing, or a result.
SameOrDecided(v, u) == u = v \/ (Pending(v) /\ \E r \in {"YES", "NO"} : u = [v EXCEPT !.result = r])

LEMMA EndDecides ==
  ASSUME NEW v, NEW w, NEW result \in {"YES", "NO"}, NEW o \in End(v, w, result)
  PROVE  \E r \in {"YES", "NO"} : o.v = [v EXCEPT !.result = r]
  BY DEF End

LEMMA EvaluatedSame ==
  ASSUME NEW v, NEW w, NEW forceend, NEW o \in Evaluated(v, w, forceend)
  PROVE  SameOrDecided(v, o.v)
<1>1. CASE ~Pending(v)
  BY <1>1, DecidedStays DEF SameOrDecided
<1>2. CASE Pending(v) /\ o \in End(v, w, "NO")
  BY <1>2, EndDecides DEF SameOrDecided
<1>3. CASE Pending(v) /\ o \in End(v, w, "YES")
  BY <1>3, EndDecides DEF SameOrDecided
<1>4. CASE Pending(v) /\ o \in {[v |-> v, w |-> w]}
  BY <1>4 DEF SameOrDecided
<1> QED  BY <1>1, <1>2, <1>3, <1>4 DEF Evaluated, Decide

LEMMA BecomesSame ==
  ASSUME NEW v, NEW outcomes, \A o \in outcomes : SameOrDecided(v, o.v), Becomes(outcomes)
  PROVE  SameOrDecided(v, curvote')
  BY DEF Becomes

LEMMA TwiceSame ==
  ASSUME NEW u, NEW v, NEW w, u \in Votes \cup {NoVote}, SameOrDecided(u, v), SameOrDecided(v, w)
  PROVE  SameOrDecided(u, w)
<1>1. CASE v = u \/ w = v
  BY <1>1
<1>2. CASE v # u
  <2>1. PICK r \in {"YES", "NO"} : v = [u EXCEPT !.result = r] /\ Pending(u)
    BY <1>2 DEF SameOrDecided
  <2>2. v.result = r
    BY <2>1 DEF Pending, Votes
  <2> QED  BY <1>1, <2>2 DEF SameOrDecided, Pending
<1> QED  BY <1>1, <1>2

LEMMA WelcomeSame ==
  ASSUME IInv, NEW c \in Clients, NEW admin, Welcome(c, admin)
  PROVE  SameOrDecided(curvote, curvote')
<1> DEFINE w == [world EXCEPT !.conn[c] = "playing", !.team[c] = TEAM_SPECT]
<1>1. PICK o \in WithoutDuplicate(curvote, w, c) :
        Becomes(IF admin /\ valid_client(o.w, c)
                THEN Evaluated(o.v, [Promoted(o.w, c) EXCEPT !.bans[Host[addr[c]]] = FALSE], FALSE)
                ELSE {o})
  BY DEF Welcome
<1> HIDE DEF w
<1>2. SameOrDecided(curvote, o.v)
  <2>1. CASE o = [v |-> curvote, w |-> w]
    BY <2>1 DEF SameOrDecided
  <2>2. CASE \E d \in Clients : o \in Evaluated(curvote, Zapped(w, d), FALSE)
    BY <2>2, EvaluatedSame
  <2> QED  BY <1>1, <2>1, <2>2 DEF WithoutDuplicate, WithAddress
<1> DEFINE u == [Promoted(o.w, c) EXCEPT !.bans[Host[addr[c]]] = FALSE]
<1>3. Becomes(IF admin /\ valid_client(o.w, c) THEN Evaluated(o.v, u, FALSE) ELSE {o})
  BY <1>1
<1> HIDE DEF u
<1>4. SameOrDecided(o.v, curvote')
  <2>1. \A e \in Evaluated(o.v, u, FALSE) : SameOrDecided(o.v, e.v)
    BY EvaluatedSame
  <2>2. \A e \in {o} : SameOrDecided(o.v, e.v)
    BY DEF SameOrDecided
  <2> QED  BY <1>3, <2>1, <2>2, BecomesSame
<1>5. curvote \in Votes \cup {NoVote}
  BY DEF IInv, InOrder, VoteOK
<1> QED  BY <1>2, <1>4, <1>5, TwiceSame

\* "evaluate(true)": there is no third way out of it.
LEMMA ForcedEnd ==
  ASSUME NEW v \in Votes, NEW w, NEW o \in Evaluated(v, w, TRUE)
  PROVE  ~Pending(o.v)
<1>1. CASE ~Pending(v)
  BY <1>1, DecidedStays
<1>2. CASE Pending(v)
  <2>1. o \in End(v, w, "NO") \/ o \in End(v, w, "YES")
    BY <1>2 DEF Evaluated, Decide, no_condition
  <2>2. PICK r \in {"YES", "NO"} : o.v = [v EXCEPT !.result = r]
    BY <2>1, EndDecides
  <2> QED  BY <2>2 DEF Votes, Pending
<1> QED  BY <1>1, <1>2

\* A pending vote stays as it was called, whatever its target, its owner and the other clients do: it
\* only gets older, is decided, or is deleted by the slice when its time is up.
StaysOrAges ==
    Pending(curvote) =>
        \/ SameOrDecided(curvote, curvote')
        \/ Tick /\ curvote' = [curvote EXCEPT !.age = @ + 1]
        \/ VoteSlice /\ curvote.age = LifeTime /\ curvote' = NoVote

\* Nothing sets back the age of a vote, and what the slice finds too old or decided is gone afterwards.
THEOREM VotesOnlyAge == Spec => [][StaysOrAges /\ (VoteSlice => curvote' = NoVote)]_vars
<1>1. ASSUME IInv, VoteSlice PROVE curvote' = NoVote
  <2>1. PICK o \in Evaluated(curvote, world, TRUE) :
          curvote' = (IF Pending(o.v) THEN o.v ELSE NoVote)
    BY <1>1 DEF VoteSlice
  <2>2. curvote \in Votes
    BY <1>1 DEF VoteSlice, IInv, InOrder, VoteOK
  <2> QED  BY <2>1, <2>2, ForcedEnd
<1>2. ASSUME IInv, Next PROVE StaysOrAges
  <2> SUFFICES ASSUME Pending(curvote),
                      ~(Tick /\ curvote' = [curvote EXCEPT !.age = @ + 1]),
                      ~(VoteSlice /\ curvote.age = LifeTime /\ curvote' = NoVote)
               PROVE  SameOrDecided(curvote, curvote')
    BY DEF StaysOrAges
  <2>1. ASSUME NEW w, Becomes(Evaluated(curvote, w, FALSE)) PROVE SameOrDecided(curvote, curvote')
    <3>1. \A o \in Evaluated(curvote, w, FALSE) : SameOrDecided(curvote, o.v)
      BY EvaluatedSame
    <3> QED  BY <2>1, <3>1, BecomesSame
  <2>2. ASSUME NEW c \in Clients, Disconnect(c) PROVE SameOrDecided(curvote, curvote')
    BY <2>1, <2>2 DEF Disconnect
  <2>3. ASSUME NEW c \in Clients, NEW claim, NEW password, SetAdmin(c, claim, password)
        PROVE  SameOrDecided(curvote, curvote')
    BY <2>1, <2>3 DEF SetAdmin
  <2>4. ASSUME NEW c \in Clients, NEW b, Vote(c, b) PROVE SameOrDecided(curvote, curvote')
    BY <2>1, <2>4 DEF Vote
  <2>5. ASSUME NEW c \in Clients, NEW target \in Clients, NEW type \in VoteTypes,
               NEW reason \in BOOLEAN, NEW t \in Teams, CallVote(c, type, target, reason, t)
        PROVE  FALSE
    BY <2>5 DEF CallVote
  <2>6. ~VoteSlice
    BY <1>1, <1>2 DEF VoteSlice
  <2>7. CASE curvote' = curvote
    BY <2>7 DEF SameOrDecided
  <2> QED  BY <1>2, <2>2, <2>3, <2>4, <2>5, <2>6, <2>7, WelcomeSame
           DEF Next, Connect, ChangeTeam, Tick, Expire, GameOver, NextGame, ResetIfEmpty, CallStartsGame
<1>3. IInv /\ [Next]_vars => [StaysOrAges /\ (VoteSlice => curvote' = NoVote)]_vars
  BY <1>1, <1>2
<1> QED  BY <1>3, Invariant, PTL DEF Spec

-----------------------------------------------------------------------------
(* Whom a vote hits.                                                       *)

\* A pending vote about one client has that client still in its slot: whoever leaves ends the vote,
\* so nobody else can have taken the slot.
NamedThere(v, w, peers) ==
    Pending(v) /\ v.type \in {"giveadmin", "forceteam"} =>
        valid_client(w, v.target) /\ peers[v.target] = v.named

\* What evaluate() leaves pending is valid, so its target is there.
LEMMA EvaluatedNamed ==
  ASSUME NEW v, VoteOK(v), NEW w, WorldOK(w), NEW u, NEW peers, NamedThere(v, u, peers),
         NEW forceend, NEW o \in Evaluated(v, w, forceend)
  PROVE  NamedThere(o.v, o.w, peers)
<1> SUFFICES ASSUME Pending(o.v), o.v.type \in {"giveadmin", "forceteam"}
             PROVE  valid_client(o.w, o.v.target) /\ peers[o.v.target] = o.v.named
  BY DEF NamedThere
<1>1. Pending(v) /\ o.v = v /\ o.w = w
  BY EvaluatedOK
<1>2. ActionValid(v, w)
  <2>1. ASSUME ~ActionValid(v, w) PROVE o \in End(v, w, "NO")
    BY <1>1, <2>1 DEF Evaluated
  <2>2. v \in Votes
    BY <1>1 DEF VoteOK, Pending
  <2>3. o \notin End(v, w, "NO")
    <3>1. o.v.result = "NEUTRAL"
      BY DEF Pending
    <3> QED  BY <2>2, <3>1, EndOK
  <2> QED  BY <2>1, <2>3
<1>3. valid_client(w, v.target)
  BY <1>1, <1>2, ValidMeans DEF Touchable
<1>4. peers[v.target] = v.named
  BY <1>1 DEF NamedThere
<1> QED  BY <1>1, <1>3, <1>4

\* The invariant with it.
NamedInv == IInv /\ NamedThere(curvote, world, addr)

LEMMA NamedInit == Init => NamedInv
<1>1. Init => NamedThere(curvote, world, addr)
  BY DEF Init, NamedThere, Pending
<1> QED  BY <1>1, InitOK DEF NamedInv

LEMMA NamedWelcome ==
  ASSUME NamedInv, NEW c \in Clients, NEW admin \in BOOLEAN, Welcome(c, admin)
  PROVE  NamedThere(curvote', world', addr)
<1> DEFINE w == [world EXCEPT !.conn[c] = "playing", !.team[c] = TEAM_SPECT]
<1>1. InOrder(curvote, world, addr, cast) /\ world \in Worlds
  BY DEF NamedInv, IInv, InOrder, WorldOK
<1>2. /\ w \in Worlds
      /\ w.conn = [world.conn EXCEPT ![c] = "playing"]
      /\ w.vote = world.vote /\ w.role = world.role
  BY <1>1, VoteTeamsAssumption DEF Worlds
<1>3. world.conn \in [Clients -> {"empty", "connecting", "playing"}]
      /\ world.conn[c] = "connecting"
  BY <1>1 DEF Worlds, Welcome
<1>4. PICK o \in WithoutDuplicate(curvote, w, c) :
        Becomes(IF admin /\ valid_client(o.w, c)
                THEN Evaluated(o.v, [Promoted(o.w, c) EXCEPT !.bans[Host[addr[c]]] = FALSE], FALSE)
                ELSE {o})
  BY DEF Welcome
<1> HIDE DEF w
<1>5. InOrder(curvote, w, addr, cast)
  BY <1>1, <1>2, <1>3, QuietInOrder DEF valid_client
<1>6. InOrder(o.v, o.w, addr, cast) /\ NamedThere(o.v, o.w, addr)
  <2>1. CASE o = [v |-> curvote, w |-> w]
    <3>1. Pending(curvote) => curvote.target \in Clients
      BY <1>1 DEF InOrder, VoteOK, Pending, Votes
    <3>2. NamedThere(curvote, w, addr)
      BY <1>2, <1>3, <3>1 DEF NamedInv, NamedThere, valid_client
    <3> QED  BY <1>5, <2>1, <3>2
  <2>2. CASE \E d \in Clients : o \in Evaluated(curvote, Zapped(w, d), FALSE)
    <3>1. PICK d \in Clients : o \in Evaluated(curvote, Zapped(w, d), FALSE)
      BY <2>2
    <3>2. VoteOK(curvote) /\ WorldOK(Zapped(w, d))
      BY <1>5, ZappedOK DEF InOrder
    <3>3. NamedThere(o.v, o.w, addr)
      BY <3>1, <3>2, EvaluatedNamed DEF NamedInv
    <3> QED  BY <1>5, <3>1, <3>3, ZapInOrder
  <2> QED  BY <1>4, <2>1, <2>2 DEF WithoutDuplicate, WithAddress
<1>7. ASSUME valid_client(o.w, c),
             NEW e \in Evaluated(o.v, [Promoted(o.w, c) EXCEPT !.bans[Host[addr[c]]] = FALSE], FALSE)
      PROVE  NamedThere(e.v, e.w, addr)
  <2> DEFINE q == Promoted(o.w, c)
             u == [q EXCEPT !.bans[Host[addr[c]]] = FALSE]
  <2>1. WorldOK(q)
    BY <1>6, <1>7, PromotedOK DEF InOrder
  <2> HIDE DEF q
  <2>2. u \in Worlds /\ u.conn = q.conn /\ u.role = q.role
    BY <2>1 DEF WorldOK, Worlds
  <2>3. WorldOK(u)
    BY <2>1, <2>2, SameRoles
  <2>4. e \in Evaluated(o.v, u, FALSE)
    BY <1>7 DEF q
  <2> HIDE DEF u
  <2>5. VoteOK(o.v)
    BY <1>6 DEF InOrder
  <2> QED  BY <1>6, <2>3, <2>4, <2>5, EvaluatedNamed
<1> QED  BY <1>4, <1>6, <1>7 DEF Becomes

LEMMA NamedSetAdmin ==
  ASSUME NamedInv, NEW c \in Clients, NEW claim \in BOOLEAN, NEW password \in BOOLEAN,
         SetAdmin(c, claim, password)
  PROVE  NamedThere(curvote', world', addr)
<1> DEFINE w == IF claim /\ password THEN Promoted(world, c)
                ELSE IF claim THEN world ELSE [world EXCEPT !.role[c] = "DEFAULT"]
<1>1. VoteOK(curvote) /\ WorldOK(world) /\ world.conn[c] = "playing"
  BY DEF NamedInv, IInv, InOrder, SetAdmin
<1>2. WorldOK(w)
  <2>1. WorldOK(Promoted(world, c))
    BY <1>1, PromotedOK DEF valid_client
  <2>2. WorldOK([world EXCEPT !.role[c] = "DEFAULT"])
    BY <1>1 DEF WorldOK, AdminThere, Worlds, valid_client
  <2> QED  BY <1>1, <2>1, <2>2
<1>3. Becomes(Evaluated(curvote, w, FALSE))
  BY DEF SetAdmin
<1> HIDE DEF w
<1>4. PICK o \in Evaluated(curvote, w, FALSE) : curvote' = o.v /\ world' = o.w
  BY <1>3 DEF Becomes
<1> QED  BY <1>1, <1>2, <1>4, EvaluatedNamed DEF NamedInv

LEMMA NamedVoteStep ==
  ASSUME NamedInv, NEW c \in Clients, NEW b \in {"YES", "NO"}, Vote(c, b)
  PROVE  NamedThere(curvote', world', addr)
<1> DEFINE w == [world EXCEPT !.vote[c] = b]
<1>1. VoteOK(curvote) /\ WorldOK(world)
  BY DEF NamedInv, IInv, InOrder
<1>2. w \in Worlds /\ w.conn = world.conn /\ w.role = world.role
  BY <1>1 DEF WorldOK, Worlds, Ballots
<1>3. Becomes(Evaluated(curvote, w, FALSE))
  BY DEF Vote
<1> HIDE DEF w
<1>4. WorldOK(w)
  BY <1>1, <1>2, SameRoles
<1>5. PICK o \in Evaluated(curvote, w, FALSE) : curvote' = o.v /\ world' = o.w
  BY <1>3 DEF Becomes
<1> QED  BY <1>1, <1>4, <1>5, EvaluatedNamed DEF NamedInv

\* A call names the peer that is in the slot, and is not valid for an empty one.
LEMMA NamedCall ==
  ASSUME NamedInv, NEW c \in Clients, NEW type \in VoteTypes, NEW target \in Clients,
         NEW reason \in BOOLEAN, NEW t \in Teams, CallVote(c, type, target, reason, t)
  PROVE  NamedThere(curvote', world', addr)
<1> DEFINE valid == IsBoot(type) /\ reason /\ Touchable(world, target)
           v == [type |-> type, owner |-> c, by |-> addr[c], target |-> target,
                 named |-> addr[target], team |-> t, age |-> 0, result |-> "NEUTRAL",
                 wasvalid |-> valid]
<1>1. curvote' = v /\ ActionValid(v, world)
  BY DEF CallVote
<1>2. v.type = type /\ v.target = target /\ v.named = addr[target]
  OBVIOUS
<1>3. world'.conn = world.conn
  <2>1. world \in Worlds
    BY DEF NamedInv, IInv, InOrder, WorldOK
  <2>2. PICK w \in {world, GameStarted(world)} : world' = [w EXCEPT !.rested[c] = FALSE]
    BY Zenon DEF CallVote
  <2> QED  BY <2>1, <2>2 DEF GameStarted, Worlds
<1> HIDE DEF v
<1>4. v.type \in {"giveadmin", "forceteam"} => valid_client(world, v.target)
  BY <1>1, ValidMeans DEF Touchable
<1> QED  BY <1>1, <1>2, <1>3, <1>4 DEF NamedThere, valid_client

\* A handler that leaves the vote alone, and everybody who is there.
LEMMA NamedUnseen ==
  ASSUME NamedInv, curvote' = curvote, \A c \in Clients :
            valid_client(world, c) => valid_client(world', c) /\ addr'[c] = addr[c]
  PROVE  NamedThere(curvote', world', addr')
<1>1. Pending(curvote) => curvote.target \in Clients
  BY DEF NamedInv, IInv, InOrder, VoteOK, Pending, Votes
<1> QED  BY <1>1 DEF NamedInv, NamedThere

LEMMA NamedInductive == NamedInv /\ [Next]_vars => NamedInv'
<1> SUFFICES ASSUME NamedInv, [Next]_vars PROVE NamedThere(curvote', world', addr')
  BY Inductive DEF NamedInv
<1>1. VoteOK(curvote) /\ WorldOK(world) /\ world \in Worlds /\ addr \in [Clients -> Addrs]
  BY DEF NamedInv, IInv, InOrder, WorldOK
<1>2. CASE UNCHANGED vars
  BY <1>2, NamedUnseen DEF vars
<1>3. ASSUME NEW c \in Clients, NEW a \in Addrs, Connect(c, a)
      PROVE  NamedThere(curvote', world', addr')
  <2>1. /\ curvote' = curvote /\ ~valid_client(world, c)
        /\ \A d \in Clients \ {c} : addr'[d] = addr[d] /\ world'.conn[d] = world.conn[d]
    BY <1>1, <1>3 DEF Connect, Worlds
  <2> QED  BY <2>1, NamedUnseen DEF valid_client
<1>4. ASSUME NEW c \in Clients, Disconnect(c) PROVE NamedThere(curvote', world', addr')
  <2>1. PICK o \in Evaluated(curvote, Zapped(world, c), FALSE) : curvote' = o.v /\ world' = o.w
    BY <1>4 DEF Disconnect, Becomes
  <2>2. WorldOK(Zapped(world, c)) /\ addr' = addr
    BY <1>1, <1>4, ZappedOK DEF Disconnect
  <2> QED  BY <1>1, <2>1, <2>2, EvaluatedNamed DEF NamedInv
<1>5. ASSUME NEW c \in Clients, NEW t \in Teams, ChangeTeam(c, t)
      PROVE  NamedThere(curvote', world', addr')
  BY <1>1, <1>5, NamedUnseen DEF ChangeTeam, Worlds, valid_client
<1>6. ASSUME \E c \in Clients : CallStartsGame(c) PROVE NamedThere(curvote', world', addr')
  <2>1. curvote' = curvote /\ addr' = addr /\ world' = GameStarted(world)
    BY <1>6 DEF CallStartsGame
  <2> QED  BY <1>1, <2>1, GameStartedOK, NamedUnseen DEF valid_client
<1>7. ASSUME Tick PROVE NamedThere(curvote', world', addr')
  <2>1. /\ world' = world /\ addr' = addr /\ curvote' = [curvote EXCEPT !.age = @ + 1]
        /\ Pending(curvote) /\ curvote \in Votes
    BY <1>1, <1>7 DEF Tick, VoteOK, Pending
  <2>2. /\ curvote'.type = curvote.type /\ curvote'.target = curvote.target
        /\ curvote'.named = curvote.named
    BY <2>1 DEF Votes
  <2> QED  BY <2>1, <2>2 DEF NamedInv, NamedThere
<1>8. ASSUME Expire PROVE NamedThere(curvote', world', addr')
  <2>1. curvote' = curvote /\ addr' = addr /\ world'.conn = world.conn
    BY <1>1, <1>8 DEF Expire, Worlds
  <2> QED  BY <2>1, NamedUnseen DEF valid_client
<1>9. ASSUME VoteSlice PROVE NamedThere(curvote', world', addr')
  <2>1. PICK o \in Evaluated(curvote, world, TRUE) :
          curvote' = (IF Pending(o.v) THEN o.v ELSE NoVote) /\ world' = o.w /\ addr' = addr
    BY <1>9 DEF VoteSlice
  <2>2. NamedThere(o.v, o.w, addr)
    BY <1>1, EvaluatedNamed DEF NamedInv
  <2> QED  BY <2>1, <2>2 DEF NamedThere, Pending
<1>10. ASSUME GameOver \/ NextGame \/ ResetIfEmpty PROVE NamedThere(curvote', world', addr')
  <2>1. /\ curvote' = curvote /\ addr' = addr
        /\ world' = [world EXCEPT !.interm = TRUE, !.forced = FALSE] \/ world' = GameStarted(world)
    BY <1>10 DEF GameOver, NextGame, ResetIfEmpty
  <2>2. world'.conn = world.conn
    BY <1>1, <2>1, GameStartedOK DEF Worlds
  <2> QED  BY <2>1, <2>2, NamedUnseen DEF valid_client
<1>11. ASSUME NEW c \in Clients, NEW admin \in BOOLEAN, Welcome(c, admin)
       PROVE  NamedThere(curvote', world', addr')
  <2>1. addr' = addr
    BY <1>11 DEF Welcome
  <2> QED  BY <1>11, <2>1, NamedWelcome
<1>12. ASSUME NEW c \in Clients, NEW claim \in BOOLEAN, NEW password \in BOOLEAN,
              SetAdmin(c, claim, password)
       PROVE  NamedThere(curvote', world', addr')
  <2>1. addr' = addr
    BY <1>12 DEF SetAdmin
  <2> QED  BY <1>12, <2>1, NamedSetAdmin
<1>13. ASSUME NEW c \in Clients, NEW b \in {"YES", "NO"}, Vote(c, b)
       PROVE  NamedThere(curvote', world', addr')
  <2>1. addr' = addr
    BY <1>13 DEF Vote
  <2> QED  BY <1>13, <2>1, NamedVoteStep
<1>14. ASSUME NEW c \in Clients, NEW target \in Clients, NEW type \in VoteTypes,
              NEW reason \in BOOLEAN, NEW t \in Teams, CallVote(c, type, target, reason, t)
       PROVE  NamedThere(curvote', world', addr')
  <2>1. addr' = addr
    BY <1>14 DEF CallVote
  <2> QED  BY <1>14, <2>1, NamedCall
<1> QED  BY <1>2, <1>3, <1>4, <1>5, <1>6, <1>7, <1>8, <1>9, <1>10, <1>11, <1>12, <1>13, <1>14
         DEF Next

LEMMA NamedInvariant == Spec => []NamedInv
  BY NamedInit, NamedInductive, PTL DEF Spec

\* What the action of a vote may do, for the types that are about one client.
Hits(v, w, u) ==
    /\ v.type = "giveadmin" => \A c \in Clients : u.role[c] = "ADMIN" => c = v.target
    /\ v.type = "forceteam" => \A c \in Clients : u.team[c] # w.team[c] => c = v.target
    /\ \A c \in Clients : valid_client(w, c) /\ ~valid_client(u, c) => addr[c] = v.named

\* A kick empties a slot of the peer that was named.
LEMMA KickedHits ==
  ASSUME NEW v \in Votes, IsBoot(v.type), NEW w \in Worlds, NEW u \in Kicked(v, w)
  PROVE  Hits(v, w, u)
<1> DEFINE banned == [w EXCEPT !.bans[Host[v.named]] = TRUE]
<1>1. v.type \notin {"giveadmin", "forceteam"}
  BY DEF IsBoot
<1>2. banned.conn = w.conn /\ banned \in Worlds
  BY PeersAssumption DEF Worlds, Votes
<1>3. u = w \/ \E c \in WithAddress(w, v.named) : u = Zapped(w, c) \/ u = Zapped(banned, c)
  BY DEF Kicked
<1> HIDE DEF banned
<1>4. ASSUME NEW c \in WithAddress(w, v.named), u = Zapped(w, c) \/ u = Zapped(banned, c)
      PROVE  addr[c] = v.named /\ \A d \in Clients \ {c} : u.conn[d] = w.conn[d]
  <2>1. PICK x \in {w, banned} : u = Zapped(x, c) /\ x \in Worlds /\ x.conn = w.conn
    BY <1>2, <1>4
  <2>2. u.conn = [w.conn EXCEPT ![c] = "empty"] /\ c \in Clients /\ addr[c] = v.named
    BY <2>1 DEF Zapped, Worlds, WithAddress
  <2> QED  BY <2>2 DEF Worlds
<1>5. \A c \in Clients : valid_client(w, c) /\ ~valid_client(u, c) => addr[c] = v.named
  BY <1>3, <1>4 DEF valid_client
<1> QED  BY <1>1, <1>5 DEF Hits

LEMMA PerformedHits ==
  ASSUME NEW v \in Votes, NEW w \in Worlds, NEW u \in Performed(v, w)
  PROVE  Hits(v, w, u)
<1>1. v.type \in Kinds /\ v.target \in Clients /\ v.team \in Teams
  BY VoteTypesAssumption DEF Votes
<1>2. CASE IsBoot(v.type)
  <2>1. Performed(v, w) = Kicked(v, w)
    BY <1>2, Zenon DEF Performed, IsBoot
  <2> QED  BY <1>2, <2>1, KickedHits
<1>3. CASE v.type = "giveadmin"
  <2>1. Performed(v, w) = {Promoted(w, v.target)}
    BY <1>3, Zenon DEF Performed, IsBoot
  <2>2. /\ u.conn = w.conn
        /\ u.role = [d \in Clients |-> IF d = v.target THEN "ADMIN" ELSE "DEFAULT"]
    BY <2>1 DEF Promoted, Worlds
  <2> QED  BY <1>3, <2>2 DEF Hits, valid_client
<1>4. CASE v.type = "forceteam"
  <2>1. Performed(v, w) = {[w EXCEPT !.team[v.target] = v.team]}
    BY <1>4, Zenon DEF Performed, IsBoot
  <2>2. u.conn = w.conn /\ u.team = [w.team EXCEPT ![v.target] = v.team]
    BY <2>1 DEF Worlds
  <2>3. w.team \in [Clients -> Teams]
    BY DEF Worlds
  <2> QED  BY <1>1, <1>4, <2>2, <2>3 DEF Hits, valid_client
<1>5. CASE v.type \in {"nextmap", "map", "rembans"}
  <2>1. u.conn = w.conn
    <3>1. CASE v.type = "nextmap"
      <4>1. Performed(v, w) = {[w EXCEPT !.nextmap = TRUE]}
        BY <3>1, Zenon DEF Performed, IsBoot
      <4> QED  BY <4>1 DEF Worlds
    <3>2. CASE v.type = "map"
      <4> DEFINE n == [w EXCEPT !.nextmap = TRUE, !.forced = TRUE]
      <4>1. Performed(v, w) = {GameStarted(w)} \cup (IF numclients(w) > 2 THEN {n} ELSE {})
        BY <3>2, Zenon DEF Performed, IsBoot
      <4>2. n.conn = w.conn /\ GameStarted(w).conn = w.conn
        BY DEF Worlds, GameStarted
      <4> HIDE DEF n
      <4> QED  BY <4>1, <4>2
    <3>3. CASE v.type = "rembans"
      <4>1. Performed(v, w) = {[w EXCEPT !.bans = [h \in Hosts |-> FALSE]]}
        BY <3>3, Zenon DEF Performed, IsBoot
      <4> QED  BY <4>1 DEF Worlds
    <3> QED  BY <1>5, <3>1, <3>2, <3>3
  <2> QED  BY <1>5, <2>1 DEF Hits, valid_client
<1> QED  BY <1>1, <1>2, <1>3, <1>4, <1>5 DEF Kinds, IsBoot

\* What evaluate() does when it decides a vote: nothing, or what the action of the vote does.
LEMMA EndHits ==
  ASSUME NEW v \in Votes, NEW w, WorldOK(w), NEW result \in {"YES", "NO"}, NEW o \in End(v, w, result)
  PROVE  /\ o.v.result = "YES" => Hits(v, w, o.w)
         /\ o.v.result # "YES" =>
               \A c \in Clients : valid_client(w, c) => valid_client(o.w, c)
<1> DEFINE r == IF ActionValid(v, w) THEN result ELSE "NO"
           passed == [w EXCEPT !.rested[v.owner] = @ \/ valid_client(w, v.owner)]
           ended == [v EXCEPT !.result = r]
<1>1. PICK u \in (IF r = "YES" THEN Performed(v, passed) ELSE {w}) :
        o = [v |-> ended, w |-> Cleared(u)]
  BY DEF End
<1>2. ended.result = r
  BY DEF Votes
<1>3. /\ WorldOK(passed) /\ (ActionValid(v, w) => ActionValid(v, passed))
      /\ passed.conn = w.conn /\ passed.team = w.team
  BY RestedOK
<1> HIDE DEF passed, ended
<1>4. ASSUME r = "YES" PROVE Hits(v, w, o.w)
  <2>1. u \in Performed(v, passed)
    BY <1>1, <1>4
  <2>2. Hits(v, passed, u)
    BY <1>3, <2>1, PerformedHits DEF WorldOK
  <2>3. o.w = [u EXCEPT !.vote = [c \in Clients |-> "NEUTRAL"]]
    BY <1>1 DEF Cleared
  <2>4. u \in Worlds
    BY <1>3, <1>4, <2>1, PerformedOK DEF WorldOK
  <2>5. o.w.conn = u.conn /\ o.w.role = u.role /\ o.w.team = u.team
    BY <2>3, <2>4 DEF Worlds
  <2> QED  BY <1>3, <2>2, <2>5 DEF Hits, valid_client
<1>5. ASSUME r # "YES" PROVE \A c \in Clients : valid_client(w, c) => valid_client(o.w, c)
  <2>1. o.w = Cleared(w)
    BY <1>1, <1>5
  <2> QED  BY <2>1 DEF Cleared, Worlds, WorldOK, valid_client
<1> QED  BY <1>1, <1>2, <1>4, <1>5

LEMMA EvaluatedHits ==
  ASSUME NEW v, VoteOK(v), Pending(v), NEW w, WorldOK(w), NEW forceend,
         NEW o \in Evaluated(v, w, forceend), o.v.result = "YES"
  PROVE  Hits(v, w, o.w)
<1>1. v \in Votes /\ v.result # "YES"
  BY DEF VoteOK, Pending
<1>2. o \in End(v, w, "NO") \cup End(v, w, "YES")
  <2>1. o = [v |-> v, w |-> w] \/ o \in End(v, w, "NO") \cup End(v, w, "YES")
    BY DEF Evaluated, Decide
  <2> QED  BY <1>1, <2>1
<1> QED  BY <1>1, <1>2, EndHits

\* What is decided does not get undecided.
LEMMA NotYetPassed ==
  ASSUME NEW v, NEW w, NEW forceend, NEW o \in Evaluated(v, w, forceend), ~Pending(v)
  PROVE  o.v = v /\ o.w = w
  BY DEF Evaluated

\* What OnlyTheNamed says of a step, but for kicks.
HitsNamed ==
    LET named == {c \in Clients : addr[c] = curvote.named}
    IN  /\ curvote.type = "giveadmin" =>
               \A c \in Clients : world'.role[c] = "ADMIN" => c \in named \/ Welcome(c, TRUE)
        /\ curvote.type = "forceteam" =>
               \A c \in Clients : world'.team[c] # world.team[c] =>
                  c \in named \/ world.conn[c] = "connecting"

\* A handler that changes no teams before it evaluates the vote.
LEMMA PassesOK ==
  ASSUME NamedInv, Passes, NEW w, WorldOK(w), NEW forceend, NEW o \in Evaluated(curvote, w, forceend),
         curvote' = o.v, world' = o.w,
         \A c \in Clients : w.team[c] = world.team[c] \/ world.conn[c] = "connecting"
  PROVE  HitsNamed
<1>1. VoteOK(curvote) /\ Pending(curvote) /\ o.v.result = "YES" /\ curvote \in Votes
  BY DEF NamedInv, IInv, InOrder, Passes, VoteOK, Pending
<1>2. Hits(curvote, w, world')
  BY <1>1, EvaluatedHits
<1>3. curvote.target \in Clients
  BY <1>1 DEF Votes
<1>4. curvote.type \in {"giveadmin", "forceteam"} => addr[curvote.target] = curvote.named
  BY <1>1 DEF NamedInv, NamedThere
<1> QED  BY <1>2, <1>3, <1>4 DEF Hits, HitsNamed

\* Who comes in may end a vote by the disconnect of its duplicate, and be promoted after that.
LEMMA PassesByWelcome ==
  ASSUME NamedInv, Passes, NEW c \in Clients, NEW admin \in BOOLEAN, Welcome(c, admin)
  PROVE  HitsNamed
<1> DEFINE w == [world EXCEPT !.conn[c] = "playing", !.team[c] = TEAM_SPECT]
<1>1. InOrder(curvote, world, addr, cast) /\ world \in Worlds /\ Pending(curvote)
  BY DEF NamedInv, IInv, InOrder, WorldOK, Passes
<1>2. /\ w \in Worlds
      /\ w.conn = [world.conn EXCEPT ![c] = "playing"]
      /\ w.vote = world.vote /\ w.role = world.role
      /\ w.team = [world.team EXCEPT ![c] = TEAM_SPECT]
  BY <1>1, VoteTeamsAssumption DEF Worlds
<1>3. /\ world.conn \in [Clients -> {"empty", "connecting", "playing"}]
      /\ world.conn[c] = "connecting"
  BY <1>1 DEF Worlds, Welcome
<1>4. PICK o \in WithoutDuplicate(curvote, w, c) :
        Becomes(IF admin /\ valid_client(o.w, c)
                THEN Evaluated(o.v, [Promoted(o.w, c) EXCEPT !.bans[Host[addr[c]]] = FALSE], FALSE)
                ELSE {o})
  BY DEF Welcome
<1> HIDE DEF w
<1>5. InOrder(curvote, w, addr, cast) /\ WorldOK(w) /\ VoteOK(curvote)
  BY <1>1, <1>2, <1>3, QuietInOrder DEF valid_client, InOrder
<1>6. \A d \in Clients : w.team[d] = world.team[d] \/ world.conn[d] = "connecting"
  BY <1>1, <1>2, <1>3 DEF Worlds
<1> DEFINE q == Promoted(o.w, c)
           u == [q EXCEPT !.bans[Host[addr[c]]] = FALSE]
<1>7. CASE o = [v |-> curvote, w |-> w]
  <2>1. ~(curvote' = o.v)
    BY <1>7 DEF Passes, Pending
  <2>2. valid_client(o.w, c) /\ Becomes(Evaluated(curvote, u, FALSE)) /\ o.w = w
    BY <1>4, <1>7, <2>1 DEF Becomes
  <2>3. PICK e \in Evaluated(curvote, u, FALSE) : curvote' = e.v /\ world' = e.w
    BY <2>2 DEF Becomes
  <2>4. WorldOK(q) /\ q.team = w.team
    BY <1>5, <2>2, PromotedOK DEF Promoted, WorldOK, Worlds
  <2> HIDE DEF q
  <2>5. u \in Worlds /\ u.conn = q.conn /\ u.role = q.role /\ u.team = q.team
    BY <2>4 DEF WorldOK, Worlds
  <2> HIDE DEF u
  <2>6. WorldOK(u) /\ \A d \in Clients : u.team[d] = world.team[d] \/ world.conn[d] = "connecting"
    BY <1>6, <2>4, <2>5, SameRoles
  <2> QED  BY <2>3, <2>6, PassesOK
<1>8. ASSUME NEW d \in Clients, o \in Evaluated(curvote, Zapped(w, d), FALSE) PROVE HitsNamed
  <2> DEFINE z == Zapped(w, d)
  <2>1. WorldOK(z) /\ z.team = w.team
    BY <1>5, ZappedOK DEF Zapped, WorldOK, Worlds
  <2>2. \A e \in Clients : z.team[e] = world.team[e] \/ world.conn[e] = "connecting"
    BY <1>6, <2>1
  <2> HIDE DEF z
  <2>3. o \in Evaluated(curvote, z, FALSE)
    BY <1>8 DEF z
  <2>4. CASE curvote' = o.v /\ world' = o.w
    BY <2>1, <2>2, <2>3, <2>4, PassesOK
  <2>5. CASE ~(curvote' = o.v /\ world' = o.w)
    <3>1. admin /\ valid_client(o.w, c) /\ Becomes(Evaluated(o.v, u, FALSE))
      BY <1>4, <2>5 DEF Becomes
    <3>2. PICK e \in Evaluated(o.v, u, FALSE) : curvote' = e.v /\ world' = e.w
      BY <3>1 DEF Becomes
    <3>3. InOrder(o.v, o.w, addr, cast)
      BY <1>5, <1>8, ZapInOrder
    <3>4. WorldOK(q) /\ q.team = o.w.team /\ q.role = [x \in Clients |-> IF x = c THEN "ADMIN" ELSE "DEFAULT"]
      BY <3>1, <3>3, PromotedOK DEF Promoted, InOrder, WorldOK, Worlds
    <3> HIDE DEF q
    <3>5. u \in Worlds /\ u.conn = q.conn /\ u.role = q.role /\ u.team = q.team
      BY <3>4 DEF WorldOK, Worlds
    <3> HIDE DEF u
    <3>6. CASE Pending(o.v)
      \* The duplicate's leaving decided nothing, so the new admin did.
      <4>1. o.v = curvote /\ o.w = z
        <5>1. VoteOK(curvote) /\ WorldOK(z)
          BY <1>5, <2>1
        <5>2. Pending(o.v) => Pending(curvote) /\ o.v = curvote /\ o.w = z /\ StillOpen(curvote, z)
          BY <2>3, <5>1, EvaluatedOK
        <5> QED  BY <3>6, <5>2
      <4>2. WorldOK(u) /\ \A x \in Clients : u.team[x] = world.team[x] \/ world.conn[x] = "connecting"
        BY <2>2, <3>4, <3>5, <4>1, SameRoles
      <4> QED  BY <3>2, <4>1, <4>2, PassesOK
    <3>7. CASE ~Pending(o.v)
      <4>1. curvote' = o.v /\ world' = u
        BY <3>2, <3>7, NotYetPassed
      <4>2. o.v.result = "YES" /\ Hits(curvote, z, o.w)
        BY <1>1, <1>5, <2>1, <2>3, <4>1, EvaluatedHits DEF Passes
      <4>3. curvote.target \in Clients
        BY <1>1, <1>5 DEF VoteOK, Pending, Votes
      <4>4. curvote.type = "forceteam" => addr[curvote.target] = curvote.named
        BY <1>1 DEF NamedInv, NamedThere
      <4>5. \A x \in Clients : world'.role[x] = "ADMIN" => x = c
        BY <3>4, <3>5, <4>1
      <4>6. Welcome(c, TRUE)
        BY <3>1
      <4>7. curvote.type = "giveadmin" => \A x \in Clients : world'.role[x] = "ADMIN" => Welcome(x, TRUE)
        BY <4>5, <4>6
      <4>8. curvote.type = "forceteam" => \A x \in Clients : world'.team[x] # z.team[x] => x = curvote.target
        BY <3>4, <3>5, <4>1, <4>2 DEF Hits
      <4> QED  BY <2>2, <4>3, <4>4, <4>7, <4>8 DEF HitsNamed
    <3> QED  BY <3>6, <3>7
  <2> QED  BY <2>4, <2>5
<1> QED  BY <1>4, <1>7, <1>8 DEF WithoutDuplicate, WithAddress

\* A ballot or a change of the admin empties no slot, but the vote that it decides may.
LEMMA GoneIsNamed ==
  ASSUME NamedInv, Passes, NEW w, WorldOK(w), w.conn = world.conn,
         NEW o \in Evaluated(curvote, w, FALSE), curvote' = o.v, world' = o.w
  PROVE  Gone \subseteq {c \in Clients : addr[c] = curvote.named}
<1>1. VoteOK(curvote) /\ Pending(curvote) /\ o.v.result = "YES"
  BY DEF NamedInv, IInv, InOrder, Passes
<1>2. Hits(curvote, w, world')
  BY <1>1, EvaluatedHits
<1> QED  BY <1>2 DEF Hits, Gone, valid_client

\* Whatever a vote that passes does, it does to the peer it was called on, though half a minute
\* has passed since and slots have changed hands.
THEOREM VotesHitTheNamed == Spec => OnlyTheNamed
<1> DEFINE named == {c \in Clients : addr[c] = curvote.named}
           voted == \E c \in Clients : \/ \E b \in {"YES", "NO"} : Vote(c, b)
                                       \/ \E claim, password \in BOOLEAN : SetAdmin(c, claim, password)
           Body == Passes => /\ curvote.type = "giveadmin" =>
                                   \A c \in Clients : world'.role[c] = "ADMIN" => c \in named \/ Welcome(c, TRUE)
                             /\ curvote.type = "forceteam" =>
                                   \A c \in Clients : world'.team[c] # world.team[c] =>
                                      c \in named \/ world.conn[c] = "connecting"
                             /\ voted => Gone \subseteq named
<1>1. ASSUME NamedInv, Next, Passes PROVE HitsNamed /\ (voted => Gone \subseteq named)
  <2>1. VoteOK(curvote) /\ WorldOK(world) /\ world \in Worlds /\ Pending(curvote) /\ curvote \in Votes
    BY <1>1 DEF NamedInv, IInv, InOrder, WorldOK, Passes, VoteOK, Pending
  <2>2. curvote' # curvote /\ ~Pending(curvote') /\ curvote' # NoVote
    BY <1>1 DEF Passes, Pending
  <2>3. ASSUME NEW c \in Clients, NEW b \in {"YES", "NO"}, Vote(c, b)
        PROVE  HitsNamed /\ Gone \subseteq named
    <3> DEFINE w == [world EXCEPT !.vote[c] = b]
    <3>1. w \in Worlds /\ w.conn = world.conn /\ w.role = world.role /\ w.team = world.team
      BY <2>1 DEF Worlds, Ballots
    <3>2. Becomes(Evaluated(curvote, w, FALSE))
      BY <2>3 DEF Vote
    <3> HIDE DEF w
    <3>3. WorldOK(w)
      BY <2>1, <3>1, SameRoles
    <3>4. PICK o \in Evaluated(curvote, w, FALSE) : curvote' = o.v /\ world' = o.w
      BY <3>2 DEF Becomes
    <3>5. HitsNamed
      BY <1>1, <3>1, <3>3, <3>4, PassesOK
    <3>6. Gone \subseteq named
      BY <1>1, <3>1, <3>3, <3>4, GoneIsNamed
    <3> QED  BY <3>5, <3>6
  <2>4. ASSUME NEW c \in Clients, NEW claim \in BOOLEAN, NEW password \in BOOLEAN,
               SetAdmin(c, claim, password)
        PROVE  HitsNamed /\ Gone \subseteq named
    <3> DEFINE w == IF claim /\ password THEN Promoted(world, c)
                    ELSE IF claim THEN world ELSE [world EXCEPT !.role[c] = "DEFAULT"]
    <3>1. Becomes(Evaluated(curvote, w, FALSE)) /\ valid_client(world, c)
      BY <2>4 DEF SetAdmin, valid_client
    <3>2. WorldOK(w) /\ w.conn = world.conn /\ w.team = world.team
      <4>1. /\ WorldOK(Promoted(world, c)) /\ Promoted(world, c).conn = world.conn
            /\ Promoted(world, c).team = world.team
        BY <2>1, <3>1, PromotedOK DEF Promoted, Worlds
      <4>2. /\ WorldOK([world EXCEPT !.role[c] = "DEFAULT"])
            /\ [world EXCEPT !.role[c] = "DEFAULT"].conn = world.conn
            /\ [world EXCEPT !.role[c] = "DEFAULT"].team = world.team
        BY <2>1 DEF WorldOK, AdminThere, Worlds, valid_client
      <4> QED  BY <2>1, <4>1, <4>2
    <3> HIDE DEF w
    <3>3. PICK o \in Evaluated(curvote, w, FALSE) : curvote' = o.v /\ world' = o.w
      BY <3>1 DEF Becomes
    <3>4. HitsNamed
      BY <1>1, <3>2, <3>3, PassesOK
    <3>5. Gone \subseteq named
      BY <1>1, <3>2, <3>3, GoneIsNamed
    <3> QED  BY <3>4, <3>5
  <2>5. voted => Gone \subseteq named
    BY <2>3, <2>4
  <2>6. ASSUME NEW c \in Clients, Disconnect(c) PROVE HitsNamed
    <3>1. WorldOK(Zapped(world, c)) /\ Zapped(world, c).team = world.team
      BY <2>1, ZappedOK DEF Zapped, Worlds
    <3>2. PICK o \in Evaluated(curvote, Zapped(world, c), FALSE) : curvote' = o.v /\ world' = o.w
      BY <2>6 DEF Disconnect, Becomes
    <3> QED  BY <1>1, <3>1, <3>2, PassesOK
  <2>7. ASSUME NEW c \in Clients, NEW admin \in BOOLEAN, Welcome(c, admin) PROVE HitsNamed
    BY <1>1, <2>7, PassesByWelcome
  <2>8. ASSUME Tick PROVE FALSE
    <3>1. curvote'.result = "NEUTRAL"
      BY <2>1, <2>8 DEF Tick, Pending, Votes
    <3> QED  BY <2>2, <3>1 DEF Pending
  <2>9. ~VoteSlice
    BY <2>2 DEF VoteSlice
  <2>10. \A c, target \in Clients, type \in VoteTypes, reason \in BOOLEAN, t \in Teams :
            ~CallVote(c, type, target, reason, t)
    BY <2>1 DEF CallVote
  <2>11. HitsNamed
    BY <1>1, <2>2, <2>3, <2>4, <2>6, <2>7, <2>8, <2>9, <2>10
       DEF Next, Connect, ChangeTeam, CallStartsGame, Expire, GameOver, NextGame, ResetIfEmpty
  <2> QED  BY <2>5, <2>11
<1>2. ASSUME NamedInv, [Next]_vars PROVE [Body]_vars
  <2>1. CASE Next
    BY <1>1, <1>2, <2>1 DEF HitsNamed
  <2> QED  BY <1>2, <2>1
<1> HIDE DEF Body
<1>3. Spec => [][Body]_vars
  BY <1>2, NamedInvariant, PTL DEF Spec
<1>4. [][Body]_vars <=> OnlyTheNamed
  BY PTL DEF Body, OnlyTheNamed
<1> QED  BY <1>3, <1>4, PTL
=============================================================================
