----------------------------- MODULE TeamsProofs -----------------------------
(***************************************************************************)
(* Proofs about Teams for any number of clients, any sizes an admin sets   *)
(* and any teams that votes force players to: types, and the sizes of      *)
(* teams in matches.                                                       *)
(*                                                                         *)
(* The argument.  A step that lets a team of a match grow is a wish or a   *)
(* spawn of one client, which was counted before (PlayerWish); all others  *)
(* leave a team as it is or take players from it, but for the exceptions   *)
(* that the property names.                                                *)
(***************************************************************************)
EXTENDS MCLive, FiniteSetTheorems, TLAPS

Members == [is : {"empty", "connected", "authed"}, team : TeamNames, onmap : BOOLEAN, flag : BOOLEAN]
Tables == [Cns -> Members]

\* Types, and nobody who is not let in yet has a team, the map or a flag.
TeamsInv ==
    /\ member \in Tables
    /\ gamekind \in GameKinds /\ autoteam \in BOOLEAN
    /\ mastermode \in {"open", "match"} /\ matchteamsize \in Nat
    /\ overdue \in BOOLEAN /\ balance \in {"due", "done", "rests"}
    /\ \A c \in Cns : member[c].is # "authed" =>
          member[c].team = "spect" /\ ~member[c].onmap /\ ~member[c].flag

\* What a table of clients is to satisfy, in the middle of a handler.
Fresh(ms) == \A c \in Cns : ms[c].is # "authed" => ms[c].team = "spect" /\ ~ms[c].onmap /\ ~ms[c].flag
TableOK(ms) == ms \in Tables /\ Fresh(ms)

-----------------------------------------------------------------------------
(* Tables stay in order.                                                   *)

LEMMA MembersAre ==
  ASSUME NEW x
  PROVE  x \in Members => /\ x.is \in {"empty", "connected", "authed"} /\ x.team \in TeamNames
                          /\ x.onmap \in BOOLEAN /\ x.flag \in BOOLEAN
  BY DEF Members

\* A client that is let in gets another team, map or flag.
LEMMA Changed ==
  ASSUME NEW ms, TableOK(ms), NEW ns, NEW picked \in SUBSET Cns,
         \A c \in picked : ms[c].is = "authed",
         ns \in [Cns -> Members],
         \A c \in picked : ns[c].is = "authed",
         \A c \in Cns \ picked : ns[c] = ms[c]
  PROVE  TableOK(ns)
  BY DEF TableOK, Fresh, Tables

LEMMA MovedOK ==
  ASSUME NEW ms, TableOK(ms), NEW c \in Cns, ms[c].is = "authed", NEW team \in TeamNames
  PROVE  TableOK(Moved(ms, c, team))
<1>1. ms \in [Cns -> Members]
  BY DEF TableOK, Tables
<1>2. Moved(ms, c, team) = [ms EXCEPT ![c] = [ms[c] EXCEPT !.team = team, !.flag = FALSE]]
  BY <1>1 DEF Moved, Members
<1>3. [ms[c] EXCEPT !.team = team, !.flag = FALSE] \in Members
  BY <1>1 DEF Members
<1>4. [ms[c] EXCEPT !.team = team, !.flag = FALSE].is = "authed"
  BY <1>1 DEF Members
<1>5. Moved(ms, c, team) \in [Cns -> Members]
  BY <1>1, <1>2, <1>3
<1> DEFINE ns == Moved(ms, c, team)
<1>6. \A d \in Cns \ {c} : ns[d] = ms[d]
  BY <1>1, <1>2
<1>7. ns[c] = [ms[c] EXCEPT !.team = team, !.flag = FALSE]
  BY <1>1, <1>2
<1>8. ns \in [Cns -> Members] /\ \A d \in {c} : ns[d].is = "authed"
  BY <1>4, <1>5, <1>7
<1> HIDE DEF ns
<1>9. TableOK(ns)
  <2>1. {c} \in SUBSET Cns /\ \A d \in {c} : ms[d].is = "authed"
    OBVIOUS
  <2> QED  BY <1>6, <1>8, <2>1, Changed
<1> QED  BY <1>9 DEF ns

LEMMA ShuffledOK ==
  ASSUME NEW ms, TableOK(ms), NEW limit, NEW ns \in Shuffled(ms, limit)
  PROVE  TableOK(ns)
<1> DEFINE those == {c \in Cns : ms[c].onmap /\ ms[c].team \in Sides}
<1>1. ms \in [Cns -> Members] /\ Fresh(ms)
  BY DEF TableOK, Tables
<1>2. PICK s \in SUBSET those :
        ns = [c \in Cns |-> IF c \in those
                            THEN [ms[c] EXCEPT !.team = IF c \in s THEN "cla" ELSE "rvsf", !.flag = FALSE]
                            ELSE ms[c]]
  BY DEF Shuffled
<1>3. \A c \in those : ms[c].is = "authed"
  BY <1>1 DEF Fresh
<1>4. \A c \in those : [ms[c] EXCEPT !.team = IF c \in s THEN "cla" ELSE "rvsf", !.flag = FALSE] \in Members
                       /\ [ms[c] EXCEPT !.team = IF c \in s THEN "cla" ELSE "rvsf", !.flag = FALSE].is = ms[c].is
  BY <1>1 DEF Members, TeamNames, Sides
<1>5. those \in SUBSET Cns
  OBVIOUS
<1> HIDE DEF those
<1>6. ns \in [Cns -> Members]
  BY <1>1, <1>2, <1>4
<1>7. /\ \A c \in those : ns[c].is = "authed"
      /\ \A c \in Cns \ those : ns[c] = ms[c]
  BY <1>2, <1>3, <1>4, <1>5
<1> QED  BY <1>3, <1>5, <1>6, <1>7, Changed

LEMMA EvenedOK ==
  ASSUME NEW ms, TableOK(ms), NEW now, NEW ns \in Evened(ms, now)
  PROVE  TableOK(ns)
<1>1. ms \in [Cns -> Members] /\ Fresh(ms)
  BY DEF TableOK, Tables
<1>2. ns = ms \/ \E picked \in SUBSET Moveable(ms) :
        ns = [c \in Cns |-> IF c \in picked THEN [ms[c] EXCEPT !.team = Opposite(Larger(ms))] ELSE ms[c]]
  BY DEF Evened
<1>3. ASSUME NEW picked \in SUBSET Moveable(ms),
             ns = [c \in Cns |-> IF c \in picked THEN [ms[c] EXCEPT !.team = Opposite(Larger(ms))] ELSE ms[c]]
      PROVE  TableOK(ns)
  <2>1. Opposite(Larger(ms)) \in TeamNames
    BY DEF Opposite, TeamNames, Sides
  <2>2. \A c \in picked : c \in Cns /\ ms[c].is = "authed"
    BY DEF Moveable, Team
  <2>3. \A c \in picked : [ms[c] EXCEPT !.team = Opposite(Larger(ms))] \in Members
                          /\ [ms[c] EXCEPT !.team = Opposite(Larger(ms))].is = ms[c].is
    BY <1>1, <2>1, <2>2 DEF Members
  <2>4. ns \in [Cns -> Members]
    BY <1>1, <1>3, <2>2, <2>3
  <2>5. /\ \A c \in picked : ns[c].is = "authed"
        /\ \A c \in Cns \ picked : ns[c] = ms[c]
    BY <1>3, <2>2, <2>3
  <2>6. picked \in SUBSET Cns
    BY <2>2
  <2> QED  BY <2>2, <2>4, <2>5, <2>6, Changed
<1> QED  BY <1>2, <1>3

LEMMA BalancedOK ==
  ASSUME NEW ms, TableOK(ms), NEW ns \in Balanced(ms)
  PROVE  TableOK(ns)
<1> DEFINE free(side) == {c \in Team(ms, side) : ~ms[c].flag}
           larger(side) == Cardinality(Team(ms, side)) > Cardinality(Team(ms, Opposite(side)))
           given == UNION {{Moved(ms, c, Opposite(side)) : c \in free(side)} : side \in {s \in Sides : larger(s)}}
           swapped == {Moved(Moved(ms, x[1], "rvsf"), x[2], "cla") : x \in free("cla") \X free("rvsf")}
<1>0. ns \in {ms} \cup Turns(ms) \cup given \cup swapped
  <2>1. Balanced(ms) = IF mastermode = "match" \/ Cardinality(Present(ms)) < 3 THEN {ms}
                       ELSE {ms} \cup Turns(ms) \cup given \cup swapped
    BY DEF Balanced
  <2> HIDE DEF given, swapped
  <2> QED  BY <2>1
<1>1. \/ ns = ms \/ ns \in Turns(ms)
      \/ \E side \in Sides : \E c \in Team(ms, side) : ns = Moved(ms, c, Opposite(side))
      \/ \E x \in free("cla") \X free("rvsf") : ns = Moved(Moved(ms, x[1], "rvsf"), x[2], "cla")
  <2>1. ASSUME ns \in given
        PROVE  \E side \in Sides : \E c \in Team(ms, side) : ns = Moved(ms, c, Opposite(side))
    <3> HIDE DEF larger
    <3> QED  BY <2>1, Zenon
  <2>2. ASSUME ns \in swapped
        PROVE  \E x \in free("cla") \X free("rvsf") : ns = Moved(Moved(ms, x[1], "rvsf"), x[2], "cla")
    BY <2>2, Zenon
  <2> HIDE DEF given, swapped
  <2> QED  BY <1>0, <2>1, <2>2, Zenon
<1>2. \A side, c : c \in Team(ms, side) => c \in Cns /\ ms[c].is = "authed"
  BY DEF Team
<1>3. "cla" \in TeamNames /\ "rvsf" \in TeamNames /\ \A side : Opposite(side) \in TeamNames
  BY DEF TeamNames, Sides, Opposite
<1>4. ASSUME NEW side \in Sides, NEW c \in Team(ms, side), ns = Moved(ms, c, Opposite(side))
      PROVE  TableOK(ns)
  BY <1>2, <1>3, <1>4, MovedOK
<1>5. ASSUME NEW c \in Team(ms, "cla"), NEW d \in Team(ms, "rvsf"),
             ns = Moved(Moved(ms, c, "rvsf"), d, "cla")
      PROVE  TableOK(ns)
  <2> DEFINE m == Moved(ms, c, "rvsf")
  <2>1. c # d /\ c \in Cns /\ d \in Cns /\ ms[c].is = "authed" /\ ms[d].is = "authed"
    BY DEF Team
  <2>2. TableOK(m) /\ m[d] = ms[d]
    <3>1. "rvsf" \in TeamNames
      BY <1>3
    <3>2. TableOK(m) /\ \A e \in Cns \ {c} : m[e] = ms[e]
      <4>1. TableOK(m)
        BY <2>1, <3>1, MovedOK
      <4>2. \A e \in Cns \ {c} : m[e] = ms[e]
        BY <2>1 DEF TableOK, Tables, Moved
      <4> QED  BY <4>1, <4>2
    <3> QED  BY <2>1, <3>2
  <2>3. ns = Moved(m, d, "cla")
    BY <1>5
  <2> HIDE DEF m
  <2> QED  BY <1>3, <2>1, <2>2, <2>3, MovedOK
<1> QED  BY <1>1, <1>4, <1>5, ShuffledOK DEF Turns

LEMMA ShrunkOK ==
  ASSUME NEW ms, TableOK(ms), NEW size, NEW ns \in Shrunk(ms, size)
  PROVE  /\ TableOK(ns)
         /\ \A side \in Sides : OnMap(ns, side) \subseteq OnMap(ms, side)
<1>1. ms \in [Cns -> Members] /\ Fresh(ms)
  BY DEF TableOK, Tables
<1>2. ns = ms \/ \E s \in SUBSET (OnMap(ms, "cla") \cup OnMap(ms, "rvsf")) :
        ns = [c \in Cns |-> IF c \in s THEN [ms[c] EXCEPT !.team = Spectator(@), !.flag = FALSE] ELSE ms[c]]
  BY DEF Shrunk
<1>3. ASSUME NEW s \in SUBSET (OnMap(ms, "cla") \cup OnMap(ms, "rvsf")),
             ns = [c \in Cns |-> IF c \in s THEN [ms[c] EXCEPT !.team = Spectator(@), !.flag = FALSE] ELSE ms[c]]
      PROVE  /\ TableOK(ns)
             /\ \A side \in Sides : OnMap(ns, side) \subseteq OnMap(ms, side)
  <2> DEFINE x(c) == [ms[c] EXCEPT !.team = Spectator(@), !.flag = FALSE]
  <2>1. \A team : Spectator(team) \in TeamNames /\ Spectator(team) \notin Sides
    BY DEF Spectator, TeamNames, Sides, SideSpectators
  <2>2. \A c \in s : c \in Cns /\ ms[c].is = "authed"
    BY DEF OnMap
  <2>3. \A c \in s : x(c) \in Members /\ x(c).is = ms[c].is /\ x(c).team \notin Sides
    BY <1>1, <2>1, <2>2 DEF Members
  <2>4. /\ \A c \in s : ns[c] = x(c)
        /\ \A c \in Cns \ s : ns[c] = ms[c]
    BY <1>3, <2>2
  <2>5. ns \in [Cns -> Members]
    BY <1>1, <1>3, <2>2, <2>3
  <2> HIDE DEF x
  <2>6. s \in SUBSET Cns /\ \A c \in s : ns[c].is = "authed"
    BY <2>2, <2>3, <2>4
  <2>7. TableOK(ns)
    BY <2>2, <2>4, <2>5, <2>6, Changed
  <2>8. ASSUME NEW side \in Sides, NEW c \in OnMap(ns, side) PROVE c \in OnMap(ms, side)
    <3>1. c \in Cns \ s
      BY <2>3, <2>4, <2>8 DEF OnMap
    <3> QED  BY <2>4, <2>8, <3>1 DEF OnMap
  <2> QED  BY <2>7, <2>8
<1> QED  BY <1>2, <1>3

\* A client that moves joins a side by itself, and leaves its own.
LEMMA MovedCounts ==
  ASSUME NEW ms, TableOK(ms), NEW c \in Cns, ms[c].is = "authed", NEW team \in TeamNames, NEW side
  PROVE  /\ OnMap(Moved(ms, c, team), side) \subseteq OnMap(ms, side) \cup {c}
         /\ team # side => OnMap(Moved(ms, c, team), side) \subseteq OnMap(ms, side)
<1>1. ms \in [Cns -> Members]
  BY DEF TableOK, Tables
<1>2. ASSUME NEW d \in OnMap(Moved(ms, c, team), side), d # c PROVE d \in OnMap(ms, side)
  <2>1. d \in Cns /\ Moved(ms, c, team)[d] = ms[d]
    BY <1>1, <1>2 DEF Moved, OnMap
  <2> QED  BY <1>2, <2>1 DEF OnMap
<1>3. c \in OnMap(Moved(ms, c, team), side) => team = side
  <2>1. Moved(ms, c, team)[c].team = team
    BY <1>1 DEF Moved, Members
  <2> QED  BY <2>1 DEF OnMap
<1> QED  BY <1>2, <1>3

LEMMA CountsAreNat ==
  ASSUME NEW ms, NEW side, NEW c
  PROVE  /\ IsFiniteSet(OnMap(ms, side)) /\ IsFiniteSet(OnMap(ms, side) \ {c})
         /\ Cardinality(OnMap(ms, side)) \in Nat /\ numteamclients(ms, side, c) \in Nat
         /\ Cardinality(OnMap(ms, side) \cup {c}) <= numteamclients(ms, side, c) + 1
<1>1. IsFiniteSet(OnMap(ms, side))
  BY CnsAssumption, FS_Subset DEF OnMap
<1>2. IsFiniteSet(OnMap(ms, side) \ {c})
  BY <1>1, FS_Subset
<1> DEFINE rest == OnMap(ms, side) \ {c}
<1>3. Cardinality(rest \cup {c}) = Cardinality(rest) + 1
  <2>1. c \notin rest
    OBVIOUS
  <2> HIDE DEF rest
  <2>2. IsFiniteSet(rest)
    BY <1>2 DEF rest
  <2>3. Cardinality(rest \cup {c}) = IF c \in rest THEN Cardinality(rest) ELSE Cardinality(rest) + 1
    BY <2>2, FS_AddElement
  <2> QED  BY <2>1, <2>3
<1>4. rest \cup {c} = OnMap(ms, side) \cup {c}
  OBVIOUS
<1>5. Cardinality(OnMap(ms, side)) \in Nat /\ Cardinality(rest) \in Nat
  BY <1>1, <1>2, FS_CardinalityType
<1>6. Cardinality(OnMap(ms, side) \cup {c}) = numteamclients(ms, side, c) + 1
  BY <1>3, <1>4 DEF numteamclients
<1>7. numteamclients(ms, side, c) \in Nat
  BY <1>5 DEF numteamclients
<1> HIDE DEF rest
<1> QED  BY <1>1, <1>2, <1>5, <1>6, <1>7

-----------------------------------------------------------------------------
(* The invariant, handler by handler.                                      *)

LEMMA TeamsBegin == TeamsInit => TeamsInv
<1> SUFFICES ASSUME TeamsInit PROVE TeamsInv
  OBVIOUS
<1>1. NoMember \in Members
  BY DEF NoMember, Members, TeamNames
<1> QED  BY <1>1 DEF TeamsInit, TeamsInv, Tables, GameKinds, NoMember

LEMMA InvIs == TeamsInv => TableOK(member)
  BY DEF TeamsInv, TableOK, Fresh

\* A handler that leaves rules and clocks alone.
LEMMA BecomeOK ==
  ASSUME TeamsInv, NEW ms, TableOK(ms), MembersBecome(ms)
  PROVE  TeamsInv'
  BY DEF TeamsInv, TableOK, Fresh, MembersBecome, Rules, Clocks

LEMMA ComingAndGoing ==
  ASSUME TeamsInv, NEW c \in Cns, Appears(c) \/ IsLetIn(c) \/ Goes(c) \/ GetsMap(c)
  PROVE  TeamsInv'
<1>1. TableOK(member)
  BY InvIs
<1>2. PICK x : /\ MembersBecome([member EXCEPT ![c] = x]) /\ x \in Members
               /\ x.is # "authed" => x.team = "spect" /\ ~x.onmap /\ ~x.flag
  <2>1. NoMember \in Members /\ NoMember.team = "spect" /\ ~NoMember.onmap /\ ~NoMember.flag
    BY DEF NoMember, Members, TeamNames
  <2>2. CASE Appears(c)
    <3> DEFINE x == [NoMember EXCEPT !.is = "connected"]
    <3>1. MembersBecome([member EXCEPT ![c] = x])
      BY <2>2 DEF Appears
    <3>2. x \in Members /\ x.team = "spect" /\ ~x.onmap /\ ~x.flag
      BY <2>1 DEF Members, NoMember
    <3> HIDE DEF x
    <3> QED  BY <3>1, <3>2
  <2>3. CASE IsLetIn(c)
    <3> DEFINE x == [member[c] EXCEPT !.is = "authed", !.team = "spect"]
    <3>1. member \in [Cns -> Members]
      BY <1>1 DEF TableOK, Tables
    <3>2. [member EXCEPT ![c].is = "authed", ![c].team = "spect"] = [member EXCEPT ![c] = x]
      BY <3>1 DEF Members
    <3>3. x \in Members /\ x.is = "authed"
      BY <3>1 DEF Members, TeamNames
    <3> HIDE DEF x
    <3> QED  BY <2>3, <3>2, <3>3 DEF IsLetIn
  <2>4. CASE Goes(c)
    BY <2>1, <2>4 DEF Goes
  <2>5. CASE GetsMap(c)
    <3> DEFINE x == [NoMember EXCEPT !.is = "authed"]
    <3>1. MembersBecome([member EXCEPT ![c] = x])
      BY <2>5 DEF GetsMap
    <3>2. x \in Members /\ x.team = "spect" /\ ~x.onmap /\ ~x.flag
      BY <2>1 DEF Members, NoMember
    <3> HIDE DEF x
    <3> QED  BY <3>1, <3>2
  <2> QED  BY <2>2, <2>3, <2>4, <2>5
<1> DEFINE ms == [member EXCEPT ![c] = x]
<1>3. TableOK(ms)
  BY <1>1, <1>2 DEF TableOK, Tables, Fresh
<1> HIDE DEF ms
<1>4. MembersBecome(ms)
  BY <1>2 DEF ms
<1> QED  BY <1>3, <1>4, BecomeOK

\* The map and flags of a client that is let in.
LEMMA SetOK ==
  ASSUME NEW ms, TableOK(ms), NEW c \in Cns, ms[c].is = "authed", NEW b \in BOOLEAN
  PROVE  /\ TableOK([ms EXCEPT ![c].onmap = b]) /\ TableOK([ms EXCEPT ![c].flag = b])
         /\ [ms EXCEPT ![c].onmap = b][c].is = "authed"
<1>1. ms \in [Cns -> Members] /\ Fresh(ms)
  BY DEF TableOK, Tables
<1>2. [ms EXCEPT ![c].onmap = b] \in [Cns -> Members] /\ [ms EXCEPT ![c].flag = b] \in [Cns -> Members]
  BY <1>1 DEF Members
<1>3. [ms EXCEPT ![c].onmap = b][c].is = "authed" /\ [ms EXCEPT ![c].flag = b][c].is = "authed"
  BY <1>1 DEF Members
<1>4. \A d \in Cns \ {c} : [ms EXCEPT ![c].onmap = b][d] = ms[d] /\ [ms EXCEPT ![c].flag = b][d] = ms[d]
  BY <1>1
<1>5. Fresh([ms EXCEPT ![c].onmap = b]) /\ Fresh([ms EXCEPT ![c].flag = b])
  BY <1>1, <1>3, <1>4 DEF Fresh
<1> QED  BY <1>2, <1>3, <1>5 DEF TableOK, Tables

LEMMA SidesAreTeams ==
  ASSUME NEW ms, NEW c, NEW side \in SidesFor(ms, c)
  PROVE  side \in Sides /\ side \in TeamNames
  BY DEF SidesFor, Base, Sides, TeamNames

LEMMA PlayingOK ==
  ASSUME TeamsInv, NEW c \in Cns,
         HasMap(c) \/ WantsSpawn(c) \/ TakesAFlag(c) \/ LosesFlag(c)
  PROVE  TeamsInv'
<1>1. TableOK(member)
  BY InvIs
<1>2. ASSUME HasMap(c) PROVE \E ms : TableOK(ms) /\ MembersBecome(ms)
  <2> DEFINE ms == [member EXCEPT ![c].onmap = TRUE]
  <2>1. member[c].is = "authed" /\ TableOK(ms) /\ ms[c].is = "authed"
    <3>1. member[c].is = "authed"
      BY <1>2 DEF HasMap, IsIn
    <3> QED  BY <1>1, <3>1, SetOK
  <2>2. MembersBecome(ms) \/ \E side \in SidesFor(ms, c) : MembersBecome(Moved(ms, c, side))
    BY <1>2 DEF HasMap
  <2> HIDE DEF ms
  <2>3. \A side \in SidesFor(ms, c) : TableOK(Moved(ms, c, side))
    BY <2>1, SidesAreTeams, MovedOK
  <2> QED  BY <2>1, <2>2, <2>3
<1>3. ASSUME WantsSpawn(c) PROVE \E ms : TableOK(ms) /\ MembersBecome(ms)
  <2>1. member[c].is = "authed" /\ \E side \in SidesFor(member, c) : MembersBecome(Moved(member, c, side))
    BY <1>3 DEF WantsSpawn, IsIn
  <2> QED  BY <1>1, <2>1, SidesAreTeams, MovedOK
<1>4. ASSUME TakesAFlag(c) \/ LosesFlag(c) PROVE \E ms : TableOK(ms) /\ MembersBecome(ms)
  <2>1. PICK b \in BOOLEAN : MembersBecome([member EXCEPT ![c].flag = b])
    BY <1>4 DEF TakesAFlag, LosesFlag
  <2>2. member[c].is = "authed"
    BY <1>1, <1>4 DEF TakesAFlag, LosesFlag, IsIn, TableOK, Fresh
  <2> QED  BY <1>1, <2>1, <2>2, SetOK
<1> QED  BY <1>2, <1>3, <1>4, BecomeOK

LEMMA TeamChangesOK ==
  ASSUME TeamsInv, NEW c \in Cns, NEW team \in TeamNames, WantsTeam(c, team) \/ ForcedTo(c, team)
  PROVE  TeamsInv'
<1>1. TableOK(member) /\ member[c].is = "authed"
  BY InvIs DEF WantsTeam, ForcedTo, IsIn
<1>2. Wished(team) \in TeamNames
  BY DEF Wished, TeamNames
<1>3. TableOK(Moved(member, c, team)) /\ TableOK(Moved(member, c, Wished(team)))
  BY <1>1, <1>2, MovedOK
<1>4. MembersBecome(Moved(member, c, team)) \/ MembersBecome(Moved(member, c, Wished(team)))
  BY DEF WantsTeam, ForcedTo
<1> QED  BY <1>3, <1>4, BecomeOK

LEMMA RefillsOK ==
  ASSUME TeamsInv, NEW now, Refills(now)
  PROVE  TableOK(member') /\ overdue' \in BOOLEAN /\ balance' \in {"due", "done", "rests"}
<1>1. PICK es \in Evened(member, now) :
        LET even == Difference(es) < 2
        IN /\ overdue' = (overdue /\ ~even)
           /\ \/ even /\ balance = "due" /\ balance' = "done" /\ member' \in Balanced(es)
              \/ balance' = (IF balance = "done" /\ (even \/ overdue) THEN "rests" ELSE balance) /\ member' = es
  BY DEF Refills
<1>2. TableOK(es)
  BY InvIs, EvenedOK
<1>3. TableOK(member')
  BY <1>1, <1>2, BalancedOK
<1>4. overdue' \in BOOLEAN /\ balance' \in {"due", "done", "rests"}
  BY <1>1 DEF TeamsInv
<1> QED  BY <1>3, <1>4

\* Everything but the rules.
LEMMA RulesStay ==
  ASSUME TeamsInv, TableOK(member'), overdue' \in BOOLEAN, balance' \in {"due", "done", "rests"},
         gamekind' \in GameKinds, autoteam' \in BOOLEAN, mastermode' \in {"open", "match"},
         matchteamsize' \in Nat
  PROVE  TeamsInv'
  BY DEF TeamsInv, TableOK, Fresh

LEMMA VotesOK ==
  ASSUME TeamsInv,
         \/ \E enable \in BOOLEAN : VoteAutoteam(enable)
         \/ \E m \in {"open", "match"} : VoteMastermode(m)
         \/ \E size \in TeamSizes : SetTeamSize(size)
         \/ VoteShuffle
  PROVE  TeamsInv'
<1>1. TableOK(member)
  BY InvIs
<1>2. ASSUME NEW enable \in BOOLEAN, VoteAutoteam(enable) PROVE TeamsInv'
  <2>1. /\ gamekind' = gamekind /\ mastermode' = mastermode /\ matchteamsize' = matchteamsize
        /\ autoteam' \in BOOLEAN
        /\ Refills(TRUE) \/ (member' = member /\ overdue' = overdue /\ balance' = balance)
    BY <1>2 DEF VoteAutoteam, Clocks
  <2>2. TableOK(member') /\ overdue' \in BOOLEAN /\ balance' \in {"due", "done", "rests"}
    BY <1>1, <2>1, RefillsOK DEF TeamsInv
  <2>3. gamekind' \in GameKinds /\ mastermode' \in {"open", "match"} /\ matchteamsize' \in Nat
    BY <2>1 DEF TeamsInv
  <2> QED  BY <2>1, <2>2, <2>3, RulesStay
<1>3. ASSUME NEW m \in {"open", "match"}, VoteMastermode(m) PROVE TeamsInv'
  <2>1. TableOK(member')
    <3>1. CASE m = "match"
      BY <1>1, <1>3, <3>1, ShrunkOK DEF VoteMastermode
    <3>2. CASE m # "match"
      <4> DEFINE picked == {c \in Cns : IsIn(c) /\ member[c].team \in SideSpectators}
      <4>1. member' = [c \in Cns |-> IF IsIn(c) /\ member[c].team \in SideSpectators
                                     THEN [member[c] EXCEPT !.team = "spect"] ELSE member[c]]
        BY <1>3, <3>2 DEF VoteMastermode
      <4>2. member \in [Cns -> Members]
        BY <1>1 DEF TableOK, Tables
      <4>3. \A c \in Cns : /\ [member[c] EXCEPT !.team = "spect"] \in Members
                           /\ [member[c] EXCEPT !.team = "spect"].is = member[c].is
        BY <4>2 DEF Members, TeamNames
      <4>4. member' \in [Cns -> Members]
        BY <4>1, <4>2, <4>3
      <4>5. /\ \A c \in picked : member[c].is = "authed" /\ member'[c].is = "authed"
            /\ \A c \in Cns \ picked : member'[c] = member[c]
        BY <4>1, <4>3 DEF IsIn
      <4>6. picked \in SUBSET Cns
        OBVIOUS
      <4> HIDE DEF picked
      <4> QED  BY <1>1, <4>4, <4>5, <4>6, Changed
    <3> QED  BY <3>1, <3>2
  <2>2. /\ gamekind' = gamekind /\ autoteam' = autoteam /\ matchteamsize' = matchteamsize
        /\ overdue' = overdue /\ balance' = balance /\ mastermode' = m
    BY <1>3 DEF VoteMastermode, Clocks
  <2>3. /\ gamekind' \in GameKinds /\ autoteam' \in BOOLEAN /\ matchteamsize' \in Nat
        /\ overdue' \in BOOLEAN /\ balance' \in {"due", "done", "rests"}
    BY <2>2 DEF TeamsInv
  <2> QED  BY <2>1, <2>2, <2>3, RulesStay
<1>4. ASSUME NEW size \in TeamSizes, SetTeamSize(size) PROVE TeamsInv'
  <2>1. TableOK(member')
    BY <1>1, <1>4, ShrunkOK DEF SetTeamSize
  <2>2. /\ gamekind' = gamekind /\ autoteam' = autoteam /\ matchteamsize' \in Nat
        /\ overdue' = overdue /\ balance' = balance /\ mastermode' = mastermode
    BY <1>4, TeamSizesAssumption DEF SetTeamSize, Clocks
  <2>3. /\ gamekind' \in GameKinds /\ autoteam' \in BOOLEAN /\ mastermode' \in {"open", "match"}
        /\ overdue' \in BOOLEAN /\ balance' \in {"due", "done", "rests"}
    BY <2>2 DEF TeamsInv
  <2> QED  BY <2>1, <2>2, <2>3, RulesStay
<1>5. ASSUME VoteShuffle PROVE TeamsInv'
  <2>1. PICK ms \in Random(member) : MembersBecome(ms)
    BY <1>5 DEF VoteShuffle
  <2>2. TableOK(ms)
    BY <1>1, ShuffledOK DEF Random
  <2> QED  BY <2>1, <2>2, BecomeOK
<1> QED  BY <1>2, <1>3, <1>4, <1>5

\* A game that starts takes the flags, and with notify the map, from everybody.
LEMMA TakenOK ==
  ASSUME NEW ms, TableOK(ms)
  PROVE  /\ TableOK([c \in Cns |-> [ms[c] EXCEPT !.flag = FALSE]])
         /\ TableOK([c \in Cns |-> [ms[c] EXCEPT !.onmap = FALSE]])
<1>1. ms \in [Cns -> Members] /\ Fresh(ms)
  BY DEF TableOK, Tables
<1>2. \A c \in Cns : /\ [ms[c] EXCEPT !.flag = FALSE] \in Members
                     /\ [ms[c] EXCEPT !.onmap = FALSE] \in Members
                     /\ [ms[c] EXCEPT !.flag = FALSE].is = ms[c].is
                     /\ [ms[c] EXCEPT !.onmap = FALSE].is = ms[c].is
                     /\ [ms[c] EXCEPT !.flag = FALSE].team = ms[c].team
                     /\ [ms[c] EXCEPT !.onmap = FALSE].team = ms[c].team
                     /\ [ms[c] EXCEPT !.flag = FALSE].onmap = ms[c].onmap
                     /\ ~[ms[c] EXCEPT !.onmap = FALSE].onmap
                     /\ [ms[c] EXCEPT !.onmap = FALSE].flag = ms[c].flag
                     /\ ~[ms[c] EXCEPT !.flag = FALSE].flag
  BY <1>1 DEF Members
<1> DEFINE x(c) == [ms[c] EXCEPT !.flag = FALSE]
           y(c) == [ms[c] EXCEPT !.onmap = FALSE]
<1>3. \A c \in Cns : /\ x(c) \in Members /\ x(c).is = ms[c].is /\ x(c).team = ms[c].team
                     /\ x(c).onmap = ms[c].onmap /\ ~x(c).flag
  BY <1>2
<1>4. \A c \in Cns : /\ y(c) \in Members /\ y(c).is = ms[c].is /\ y(c).team = ms[c].team
                     /\ y(c).flag = ms[c].flag /\ ~y(c).onmap
  BY <1>2
<1> HIDE DEF x, y
<1>5. TableOK([c \in Cns |-> x(c)])
  BY <1>1, <1>3 DEF TableOK, Tables, Fresh
<1>6. TableOK([c \in Cns |-> y(c)])
  BY <1>1, <1>4 DEF TableOK, Tables, Fresh
<1> QED  BY <1>5, <1>6 DEF x, y

LEMMA GamesOK ==
  ASSUME TeamsInv, \/ \E kind \in GameKinds : Begins(kind) \/ BeginsSilently(kind)
                   \/ ResetsIfEmpty
  PROVE  TeamsInv'
<1>1. TableOK(member)
  BY InvIs
<1> DEFINE unflagged == [c \in Cns |-> [member[c] EXCEPT !.flag = FALSE]]
<1>2. TableOK(unflagged)
  BY <1>1, TakenOK
<1>3. ASSUME NEW kind \in GameKinds, Begins(kind) PROVE TeamsInv'
  <2>1. /\ gamekind' = kind /\ overdue' = FALSE /\ balance' = "done"
        /\ autoteam' = autoteam /\ mastermode' = mastermode /\ matchteamsize' = matchteamsize
        /\ \E ms \in IF kind = "ffa" THEN {unflagged}
                     ELSE IF ~TeamMode THEN Random(unflagged)
                     ELSE IF autoteam /\ mastermode # "match" THEN Evened(unflagged, TRUE)
                     ELSE {unflagged} :
              member' = [c \in Cns |-> [ms[c] EXCEPT !.onmap = FALSE]]
    BY <1>3 DEF Begins
  <2> HIDE DEF unflagged
  <2>2. PICK ms \in {unflagged} \cup Random(unflagged) \cup Evened(unflagged, TRUE) :
          member' = [c \in Cns |-> [ms[c] EXCEPT !.onmap = FALSE]]
    BY <2>1
  <2>3. TableOK(ms)
    BY <1>2, <2>2, ShuffledOK, EvenedOK DEF Random
  <2>4. TableOK(member')
    BY <2>2, <2>3, TakenOK
  <2>5. /\ gamekind' \in GameKinds /\ autoteam' \in BOOLEAN /\ mastermode' \in {"open", "match"}
        /\ matchteamsize' \in Nat /\ overdue' \in BOOLEAN /\ balance' \in {"due", "done", "rests"}
    BY <2>1 DEF TeamsInv
  <2> QED  BY <2>4, <2>5, RulesStay
<1>4. ASSUME NEW kind \in GameKinds, BeginsSilently(kind) PROVE TeamsInv'
  <2>1. /\ gamekind' = kind /\ overdue' = FALSE /\ balance' = "done" /\ member' = unflagged
        /\ autoteam' = autoteam /\ mastermode' = mastermode /\ matchteamsize' = matchteamsize
    BY <1>4 DEF BeginsSilently
  <2>2. /\ gamekind' \in GameKinds /\ autoteam' \in BOOLEAN /\ mastermode' \in {"open", "match"}
        /\ matchteamsize' \in Nat /\ overdue' \in BOOLEAN /\ balance' \in {"due", "done", "rests"}
    BY <2>1 DEF TeamsInv
  <2> HIDE DEF unflagged
  <2> QED  BY <1>2, <2>1, <2>2, RulesStay
<1>5. ASSUME ResetsIfEmpty PROVE TeamsInv'
  BY <1>5 DEF ResetsIfEmpty, Clocks, TeamsInv, GameKinds
<1> QED  BY <1>3, <1>4, <1>5

LEMMA TimePasses ==
  ASSUME TeamsInv, SliceRefills \/ RoundRefills \/ GetsOverdue \/ BalanceGetsDue \/ Rests
  PROVE  TeamsInv'
<1>1. ASSUME NEW now, Timely(now) PROVE TeamsInv'
  <2>1. /\ TableOK(member') /\ overdue' \in BOOLEAN /\ balance' \in {"due", "done", "rests"}
    BY <1>1, RefillsOK DEF Timely
  <2>2. /\ gamekind' \in GameKinds /\ autoteam' \in BOOLEAN /\ mastermode' \in {"open", "match"}
        /\ matchteamsize' \in Nat
    BY <1>1 DEF Timely, Rules, TeamsInv
  <2> QED  BY <2>1, <2>2, RulesStay
<1>2. ASSUME GetsOverdue \/ BalanceGetsDue \/ Rests PROVE TeamsInv'
  BY <1>2 DEF GetsOverdue, BalanceGetsDue, Rests, Rules, TeamsInv
<1> QED  BY <1>1, <1>2 DEF SliceRefills, RoundRefills

LEMMA TeamsInductive == TeamsInv /\ [TeamsNext]_teamVars => TeamsInv'
<1> SUFFICES ASSUME TeamsInv, [TeamsNext]_teamVars PROVE TeamsInv'
  OBVIOUS
<1>1. CASE UNCHANGED teamVars
  BY <1>1 DEF teamVars, TeamsInv
<1>2. ASSUME NEW c \in Cns, NEW team \in ForcedTeams, ForcedTo(c, team) PROVE TeamsInv'
  <2>1. team \in TeamNames
    BY ForcedTeamsAssumption
  <2> QED  BY <1>2, <2>1, TeamChangesOK
<1>3. CASE TeamsNext
  BY <1>2, <1>3, ComingAndGoing, PlayingOK, TeamChangesOK, VotesOK, GamesOK, TimePasses DEF TeamsNext
<1> QED  BY <1>1, <1>3

\* Clients, rules and clocks keep their types, and nobody who is not let in has a team, the map or a flag.
THEOREM TeamsTypeCorrect == TeamsSpec => []TeamsInv
  BY TeamsBegin, TeamsInductive, PTL DEF TeamsSpec

-----------------------------------------------------------------------------
(* The sizes of teams in matches.                                          *)

\* A side has grown beyond its size.
Outgrows(side) ==
    /\ mastermode' = "match" /\ matchteamsize' > 0 /\ gamekind' # "ffa"
    /\ Cardinality(OnMap(member', side)) > matchteamsize'
    /\ Cardinality(OnMap(member', side)) > Cardinality(OnMap(member, side))

LEMMA SubsetsDoNotOutgrow ==
  ASSUME NEW side, OnMap(member', side) \subseteq OnMap(member, side)
  PROVE  ~Outgrows(side)
<1> DEFINE old == OnMap(member, side)
           new == OnMap(member', side)
<1>1. IsFiniteSet(old)
  BY CountsAreNat
<1>2. new \subseteq old
  OBVIOUS
<1> HIDE DEF old, new
<1>3. Cardinality(new) <= Cardinality(old) /\ Cardinality(new) \in Nat /\ Cardinality(old) \in Nat
  BY <1>1, <1>2, FS_Subset, FS_CardinalityType
<1>4. ~(Cardinality(new) > Cardinality(old))
  BY <1>3
<1> QED  BY <1>4 DEF Outgrows, old, new

LEMMA SameDoNotOutgrow ==
  ASSUME NEW side, \A c \in Cns : /\ member'[c].is = member[c].is /\ member'[c].team = member[c].team
                                  /\ member'[c].onmap => member[c].onmap
  PROVE  ~Outgrows(side)
<1>1. OnMap(member', side) \subseteq OnMap(member, side)
  BY DEF OnMap
<1> QED  BY <1>1, SubsetsDoNotOutgrow

\* A client whose wish for a side is granted had been left out of the count.
LEMMA WishesFit ==
  ASSUME TeamsInv, NEW c \in Cns, member[c].is = "authed", NEW team \in TeamNames, NEW side \in Sides,
         team = side => PlayerWish(member, c, side),
         member' = Moved(member, c, team), UNCHANGED Rules
  PROVE  ~Outgrows(side)
<1>1. TableOK(member)
  BY InvIs
<1>2. CASE team # side
  <2>1. OnMap(member', side) \subseteq OnMap(member, side)
    BY <1>1, <1>2, MovedCounts
  <2> QED  BY <2>1, SubsetsDoNotOutgrow
<1>3. CASE team = side
  <2> SUFFICES ASSUME mastermode' = "match", matchteamsize' > 0, gamekind' # "ffa",
                      Cardinality(OnMap(member', side)) > matchteamsize'
               PROVE  FALSE
    BY DEF Outgrows
  <2>1. mastermode = "match" /\ matchteamsize > 0 /\ TeamMode /\ matchteamsize' = matchteamsize
        /\ matchteamsize \in Nat
    BY DEF Rules, TeamMode, TeamsInv
  <2>2. numteamclients(member, side, c) < matchteamsize
    BY <1>3, <2>1 DEF PlayerWish
  <2>3. OnMap(member', side) \subseteq OnMap(member, side) \cup {c}
    BY <1>1, MovedCounts
  <2> DEFINE new == OnMap(member', side)
             all == OnMap(member, side) \cup {c}
             count == numteamclients(member, side, c)
  <2>4. IsFiniteSet(all) /\ Cardinality(all) <= count + 1 /\ count \in Nat
    <3>1. IsFiniteSet(OnMap(member, side)) /\ Cardinality(all) <= count + 1 /\ count \in Nat
      BY CountsAreNat
    <3>2. IsFiniteSet(OnMap(member, side) \cup {c})
      BY <3>1, FS_AddElement
    <3> QED  BY <3>1, <3>2
  <2>5. new \subseteq all /\ count < matchteamsize
    BY <2>2, <2>3
  <2> HIDE DEF new, all, count
  <2>6. Cardinality(new) <= Cardinality(all) /\ Cardinality(new) \in Nat /\ Cardinality(all) \in Nat
    BY <2>4, <2>5, FS_Subset, FS_CardinalityType
  <2>7. Cardinality(new) <= matchteamsize
    BY <2>1, <2>4, <2>5, <2>6
  <2>8. Cardinality(new) > matchteamsize
    BY <2>1 DEF new
  <2> QED  BY <2>1, <2>6, <2>7, <2>8
<1> QED  BY <1>2, <1>3

\* Players who come, go, and ask for a side.
LEMMA ClientsFit ==
  ASSUME TeamsInv, NEW side \in Sides, NEW c \in Cns,
         \/ Appears(c) \/ IsLetIn(c) \/ Goes(c) \/ GetsMap(c) \/ WantsSpawn(c)
         \/ TakesAFlag(c) \/ LosesFlag(c)
         \/ HasMap(c) /\ member[c].team # side
         \/ \E team \in TeamNames : WantsTeam(c, team)
         \/ \E team \in ForcedTeams : ForcedTo(c, team) /\ team # side
  PROVE  ~Outgrows(side)
<1>1. TableOK(member) /\ member \in [Cns -> Members]
  BY InvIs DEF TableOK, Tables
<1>2. ASSUME Appears(c) \/ IsLetIn(c) \/ Goes(c) \/ GetsMap(c) PROVE ~Outgrows(side)
  <2>1. \A d \in Cns \ {c} : member'[d] = member[d]
    BY <1>1, <1>2 DEF Appears, IsLetIn, Goes, GetsMap, MembersBecome
  <2>2. ~member'[c].onmap
    BY <1>1, <1>2 DEF Appears, IsLetIn, Goes, GetsMap, MembersBecome, NoMember, Members, TableOK, Fresh
  <2>3. OnMap(member', side) \subseteq OnMap(member, side)
    BY <2>1, <2>2 DEF OnMap
  <2> QED  BY <2>3, SubsetsDoNotOutgrow
<1>3. ASSUME TakesAFlag(c) \/ LosesFlag(c) PROVE ~Outgrows(side)
  <2>1. \A d \in Cns : /\ member'[d].is = member[d].is /\ member'[d].team = member[d].team
                       /\ member'[d].onmap = member[d].onmap
    BY <1>1, <1>3 DEF TakesAFlag, LosesFlag, MembersBecome, Members
  <2> QED  BY <2>1, SameDoNotOutgrow
<1>4. ASSUME NEW s \in SidesFor(member, c), WantsSpawn(c), PlayerWish(member, c, s),
             MembersBecome(Moved(member, c, s))
      PROVE  ~Outgrows(side)
  <2>1. member[c].is = "authed" /\ s \in TeamNames
    BY <1>4, SidesAreTeams DEF WantsSpawn, IsIn
  <2> QED  BY <1>4, <2>1, WishesFit DEF MembersBecome
<1>5. ASSUME NEW team \in TeamNames, WantsTeam(c, team) PROVE ~Outgrows(side)
  <2>1. /\ member[c].is = "authed" /\ PlayerWish(member, c, team)
        /\ member' = Moved(member, c, Wished(team)) /\ UNCHANGED Rules
    BY <1>5 DEF WantsTeam, IsIn, MembersBecome
  <2>2. Wished(team) \in TeamNames /\ (Wished(team) = side => team = side)
    BY DEF Wished, TeamNames, Sides
  <2> QED  BY <2>1, <2>2, WishesFit
<1>6. ASSUME NEW team \in ForcedTeams, ForcedTo(c, team), team # side PROVE ~Outgrows(side)
  <2>1. /\ member[c].is = "authed" /\ team \in TeamNames
        /\ member' = Moved(member, c, team) /\ UNCHANGED Rules
    BY <1>6, ForcedTeamsAssumption DEF ForcedTo, IsIn, MembersBecome
  <2> QED  BY <1>6, <2>1, WishesFit
<1>7. ASSUME HasMap(c), member[c].team # side PROVE ~Outgrows(side)
  <2> DEFINE ms == [member EXCEPT ![c].onmap = TRUE]
  <2>1. CASE member' = ms
    <3>1. /\ \A d \in Cns \ {c} : member'[d] = member[d]
          /\ member'[c].team = member[c].team
      BY <1>1, <2>1 DEF Members
    <3>2. OnMap(member', side) \subseteq OnMap(member, side)
      BY <1>7, <3>1 DEF OnMap
    <3> QED  BY <3>2, SubsetsDoNotOutgrow
  <2>2. CASE member' # ms
    <3>1. mastermode # "match" /\ mastermode' = mastermode
      BY <1>7, <2>2 DEF HasMap, MembersBecome, Rules
    <3> QED  BY <3>1 DEF Outgrows
  <2> QED  BY <2>1, <2>2
<1>8. ASSUME WantsSpawn(c) PROVE ~Outgrows(side)
  <2>1. PICK s \in SidesFor(member, c) : PlayerWish(member, c, s) /\ MembersBecome(Moved(member, c, s))
    BY <1>8 DEF WantsSpawn
  <2> QED  BY <1>4, <1>8, <2>1
<1> QED  BY <1>2, <1>3, <1>5, <1>6, <1>7, <1>8

\* Votes on rules, new games and the slice.
LEMMA RulesFit ==
  ASSUME TeamsInv, NEW side \in Sides,
         \/ \E enable \in BOOLEAN : VoteAutoteam(enable)
         \/ \E m \in {"open", "match"} : VoteMastermode(m)
         \/ \E size \in TeamSizes : SetTeamSize(size)
         \/ \E kind \in GameKinds : Begins(kind) \/ BeginsSilently(kind)
         \/ ResetsIfEmpty \/ SliceRefills \/ RoundRefills \/ GetsOverdue \/ BalanceGetsDue \/ Rests
  PROVE  ~Outgrows(side)
<1>1. TableOK(member) /\ member \in [Cns -> Members]
  BY InvIs DEF TableOK, Tables
<1>2. ASSUME mastermode' # "match" \/ member' = member PROVE ~Outgrows(side)
  <2>1. member' = member => OnMap(member', side) \subseteq OnMap(member, side)
    OBVIOUS
  <2> QED  BY <1>2, <2>1, SubsetsDoNotOutgrow DEF Outgrows
<1>3. ASSUME NEW ms, TableOK(ms), NEW size, member' \in Shrunk(member, size) PROVE ~Outgrows(side)
  BY <1>1, <1>3, ShrunkOK, SubsetsDoNotOutgrow
<1>4. ASSUME NEW enable \in BOOLEAN, VoteAutoteam(enable) PROVE ~Outgrows(side)
  BY <1>2, <1>4 DEF VoteAutoteam
<1>5. ASSUME NEW m \in {"open", "match"}, VoteMastermode(m) PROVE ~Outgrows(side)
  BY <1>1, <1>2, <1>3, <1>5 DEF VoteMastermode
<1>6. ASSUME NEW size \in TeamSizes, SetTeamSize(size) PROVE ~Outgrows(side)
  BY <1>1, <1>3, <1>6 DEF SetTeamSize
<1>7. ASSUME NEW kind \in GameKinds, Begins(kind) PROVE ~Outgrows(side)
  <2>1. PICK ms : member' = [c \in Cns |-> [ms[c] EXCEPT !.onmap = FALSE]] /\ TableOK(ms)
    <3> DEFINE unflagged == [c \in Cns |-> [member[c] EXCEPT !.flag = FALSE]]
    <3>1. TableOK(unflagged)
      BY <1>1, TakenOK
    <3> HIDE DEF unflagged
    <3>2. PICK ms \in {unflagged} \cup Random(unflagged) \cup Evened(unflagged, TRUE) :
            member' = [c \in Cns |-> [ms[c] EXCEPT !.onmap = FALSE]]
      BY <1>7 DEF Begins, unflagged
    <3>3. TableOK(ms)
      BY <3>1, <3>2, ShuffledOK, EvenedOK DEF Random
    <3> QED  BY <3>2, <3>3
  <2>2. \A c \in Cns : ~member'[c].onmap
    BY <2>1 DEF TableOK, Tables, Members
  <2>3. OnMap(member', side) \subseteq OnMap(member, side)
    BY <2>2 DEF OnMap
  <2> QED  BY <2>3, SubsetsDoNotOutgrow
<1>8. ASSUME NEW kind \in GameKinds, BeginsSilently(kind) PROVE ~Outgrows(side)
  <2>1. \A c \in Cns : /\ member'[c].is = member[c].is /\ member'[c].team = member[c].team
                       /\ member'[c].onmap = member[c].onmap
    BY <1>1, <1>8 DEF BeginsSilently, Members
  <2> QED  BY <2>1, SameDoNotOutgrow
<1>9. ASSUME ResetsIfEmpty \/ SliceRefills \/ RoundRefills \/ GetsOverdue \/ BalanceGetsDue \/ Rests
      PROVE  ~Outgrows(side)
  BY <1>2, <1>9 DEF ResetsIfEmpty, SliceRefills, RoundRefills, Timely, Rules, GetsOverdue,
                    BalanceGetsDue, Rests
<1> QED  BY <1>4, <1>5, <1>6, <1>7, <1>8, <1>9

\* In a match no side grows beyond its size, unless players are forced or shuffled into it, or one of
\* its players, who was not counted meanwhile, comes back with the map.
THEOREM SizesHoldInMatches == TeamsSpec => MatchSizesHold
<1> DEFINE Body == \A side \in Sides \ ForcedTeams :
                      /\ mastermode' = "match" /\ matchteamsize' > 0 /\ gamekind' # "ffa"
                      /\ Cardinality(OnMap(member', side)) > matchteamsize'
                      /\ Cardinality(OnMap(member', side)) > Cardinality(OnMap(member, side))
                      => VoteShuffle \/ \E c \in Cns : HasMap(c) /\ member[c].team = side
<1>1. ASSUME TeamsInv, TeamsNext PROVE Body
  <2> SUFFICES ASSUME NEW side \in Sides \ ForcedTeams, ~VoteShuffle,
                      \A c \in Cns : HasMap(c) => member[c].team # side
               PROVE  ~Outgrows(side)
    BY DEF Outgrows
  <2> QED  BY <1>1, ClientsFit, RulesFit DEF TeamsNext
<1>2. TeamsInv /\ [TeamsNext]_teamVars => [Body]_teamVars
  BY <1>1
<1> HIDE DEF Body
<1>3. TeamsSpec => [][Body]_teamVars
  BY <1>2, TeamsBegin, TeamsInductive, PTL DEF TeamsSpec
<1>4. [][Body]_teamVars <=> MatchSizesHold
  BY PTL DEF Body, MatchSizesHold
<1> QED  BY <1>3, <1>4, PTL

-----------------------------------------------------------------------------
(* The composition with votes.                                             *)

\* A behaviour of the composition in which votes come to an end and teams even out is a behaviour of
\* both parts: the theorems about them hold of it.
THEOREM LiveIsItsParts == LiveSpec => Spec /\ TeamsSpec
<1>1. LiveInit => Init /\ TeamsInit
    BY DEF LiveInit
<1>2. [LiveNext]_liveVars => [Next]_vars /\ [TeamsNext]_teamVars
    BY DEF LiveNext, liveVars
<1> QED BY <1>1, <1>2, PTL DEF LiveSpec, Spec, TeamsSpec
=============================================================================
