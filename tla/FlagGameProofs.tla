--------------------------- MODULE FlagGameProofs ---------------------------
(***************************************************************************)
(* Proofs about FlagGame for any number of slots, any limits and any       *)
(* messages: types, and the separation of clients and flags.               *)
(*                                                                         *)
(* The argument.  A set of flags is in order (FlagsOK) if every carrier    *)
(* fits its flag and the idle flags are those of the mode.  flagaction     *)
(* keeps flags in order; sdropflag and resetflag also take c's flag away   *)
(* and give nobody one.  A handler that changes conn, life or team of a    *)
(* client does it only after such a separation, so the other carriers fit  *)
(* as before.  That a first-found flag is the only one (clienthasflag)     *)
(* follows from order itself.                                              *)
(***************************************************************************)
EXTENDS FlagGame, TLAPS

\* c may carry flag f.
Fits(f, c) ==
    /\ c \in Clients
    /\ conn[c] = "playing"
    /\ life[c] \in {"ALIVE", "EDITING"}
    /\ ~m_ktf => TakesFlag(c) = f

\* The idle flags of the mode.
Shape(fs) ==
    /\ m_ktf => \E f \in Flags : fs[f].state = "IDLE" /\ InGame(fs, Other(f))
    /\ ~m_ktf => \A f \in Flags : fs[f].state # "IDLE"
    /\ mode = "none" => \A f \in Flags : fs[f].state = "INBASE"

FlagsOK(fs) ==
    /\ fs \in [Flags -> FlagRecords]
    /\ Shape(fs)
    /\ \A f \in Flags : fs[f].state = "STOLEN" => Fits(f, fs[f].actor_cn)

\* Who is not authenticated has not spawned.
Newcomers == \A c \in Clients : conn[c] = "connecting" => life[c] \in {"SPECTATE", "DEAD"}

\* The rest of a packet is read for a slot that nobody has taken yet.
ZombieGone == zombie \in Clients => conn[zombie] = "empty"

IInv == TypeOK /\ FlagsOK(flag) /\ Newcomers /\ ZombieGone

-----------------------------------------------------------------------------
(* The flag operators.                                                     *)

\* What each update does to the flag itself and to the other one.
LEMMA Updates ==
  ASSUME NEW fs \in [Flags -> FlagRecords], NEW f \in Flags, NEW c \in Clients,
         placed \in [Clients -> BOOLEAN]
  PROVE  /\ Touched(fs, f) \in [Flags -> FlagRecords]
         /\ \A g \in Flags : /\ Touched(fs, f)[g].state = fs[g].state
                            /\ Touched(fs, f)[g].actor_cn = fs[g].actor_cn
         /\ InBase(fs, f) \in [Flags -> FlagRecords]
         /\ InBase(fs, f)[f].state = "INBASE" /\ InBase(fs, f)[Other(f)] = fs[Other(f)]
         /\ Taken(fs, f, c) \in [Flags -> FlagRecords]
         /\ Taken(fs, f, c)[f].state = "STOLEN" /\ Taken(fs, f, c)[f].actor_cn = c
         /\ Taken(fs, f, c)[Other(f)] = fs[Other(f)]
         /\ Dropped(fs, f, c) \in [Flags -> FlagRecords]
         /\ Dropped(fs, f, c)[f].state = "DROPPED" /\ Dropped(fs, f, c)[Other(f)] = fs[Other(f)]
         /\ Idled(fs, f) \in [Flags -> FlagRecords]
         /\ Idled(fs, f)[f].state = "IDLE" /\ Idled(fs, f)[Other(f)].state = "INBASE"
<1> USE LimitsAssumption DEF Flags, Other, FlagRecords, FlagStates, Fresh
<1>0. 0 \in 0..MaxAge
  OBVIOUS
<1>1. Touched(fs, f) \in [Flags -> FlagRecords]
  BY <1>0 DEF Touched
<1>2. \A g \in Flags : /\ Touched(fs, f)[g].state = fs[g].state
                     /\ Touched(fs, f)[g].actor_cn = fs[g].actor_cn
  BY DEF Touched
<1>3. /\ InBase(fs, f) \in [Flags -> FlagRecords]
      /\ InBase(fs, f)[f].state = "INBASE" /\ InBase(fs, f)[Other(f)] = fs[Other(f)]
  BY <1>0 DEF InBase
<1>4. /\ Taken(fs, f, c) \in [Flags -> FlagRecords]
      /\ Taken(fs, f, c)[f].state = "STOLEN" /\ Taken(fs, f, c)[f].actor_cn = c
      /\ Taken(fs, f, c)[Other(f)] = fs[Other(f)]
  BY <1>0 DEF Taken
<1>5. /\ Dropped(fs, f, c) \in [Flags -> FlagRecords]
      /\ Dropped(fs, f, c)[f].state = "DROPPED" /\ Dropped(fs, f, c)[Other(f)] = fs[Other(f)]
  BY <1>0 DEF Dropped
<1>6. /\ Idled(fs, f) \in [Flags -> FlagRecords]
      /\ Idled(fs, f)[f].state = "IDLE" /\ Idled(fs, f)[Other(f)].state = "INBASE"
  BY <1>0 DEF Idled
<1> QED  BY <1>1, <1>2, <1>3, <1>4, <1>5, <1>6

LEMMA TwoFlags ==
  ASSUME NEW f \in Flags, NEW g \in Flags
  PROVE  Other(f) \in Flags /\ (g = f \/ g = Other(f)) /\ Other(f) # f /\ Other(Other(f)) = f
  BY DEF Flags, Other

\* Each update keeps flags in order, in the modes that make it.
LEMMA UpdatesKeepOrder ==
  ASSUME NEW fs, FlagsOK(fs), NEW f \in Flags, NEW c \in Clients, TypeOK, m_flags
  PROVE  /\ FlagsOK(Touched(fs, f))
         /\ ~m_ktf => FlagsOK(InBase(fs, f)) /\ FlagsOK(Dropped(fs, f, c))
         /\ m_ktf => FlagsOK(Idled(fs, f))
         /\ Fits(f, c) /\ (m_ktf => fs[f].state = "INBASE") => FlagsOK(Taken(fs, f, c))
<1> DEFINE h == Other(f)
           t == Touched(fs, f)
           b == InBase(fs, f)
           k == Taken(fs, f, c)
           d == Dropped(fs, f, c)
           i == Idled(fs, f)
<1>1. /\ fs \in [Flags -> FlagRecords] /\ Shape(fs)
      /\ \A g \in Flags : fs[g].state = "STOLEN" => Fits(g, fs[g].actor_cn)
  BY DEF FlagsOK
<1>2. /\ {t, b, k, d, i} \subseteq [Flags -> FlagRecords]
      /\ \A g \in Flags : t[g].state = fs[g].state /\ t[g].actor_cn = fs[g].actor_cn
      /\ b[f].state = "INBASE" /\ b[h] = fs[h]
      /\ k[f].state = "STOLEN" /\ k[f].actor_cn = c /\ k[h] = fs[h]
      /\ d[f].state = "DROPPED" /\ d[h] = fs[h]
      /\ i[f].state = "IDLE" /\ i[h].state = "INBASE"
  <2>1. fs \in [Flags -> FlagRecords] /\ placed \in [Clients -> BOOLEAN]
    BY <1>1 DEF TypeOK
  <2>2. \A g \in Flags : t[g].state = fs[g].state /\ t[g].actor_cn = fs[g].actor_cn
    BY <2>1, Updates
  <2>3. t \in [Flags -> FlagRecords] /\ b \in [Flags -> FlagRecords] /\ k \in [Flags -> FlagRecords]
    BY <2>1, Updates
  <2>4. d \in [Flags -> FlagRecords] /\ i \in [Flags -> FlagRecords]
    BY <2>1, Updates
  <2>5. /\ b[f].state = "INBASE" /\ b[h] = fs[h]
        /\ k[f].state = "STOLEN" /\ k[f].actor_cn = c /\ k[h] = fs[h]
    BY <2>1, Updates
  <2>6. /\ d[f].state = "DROPPED" /\ d[h] = fs[h]
        /\ i[f].state = "IDLE" /\ i[h].state = "INBASE"
    BY <2>1, Updates
  <2> HIDE DEF t, b, k, d, i
  <2> QED  BY <2>2, <2>3, <2>4, <2>5, <2>6
<1>3. h \in Flags /\ h # f /\ Other(h) = f /\ \A g \in Flags : g = f \/ g = h
  BY TwoFlags
<1> HIDE DEF h, t, b, k, d, i
<1>4. FlagsOK(t)
  <2>1. Shape(t)
    BY <1>1, <1>2, <1>3 DEF Shape, InGame, Flags, Other
  <2> QED  BY <1>1, <1>2, <2>1 DEF FlagsOK
<1>5. ASSUME ~m_ktf PROVE FlagsOK(b) /\ FlagsOK(d)
  <2>1. Shape(b) /\ Shape(d)
    BY <1>1, <1>2, <1>3, <1>5 DEF Shape, m_flags
  <2> QED  BY <1>1, <1>2, <1>3, <2>1 DEF FlagsOK
<1>6. ASSUME m_ktf PROVE FlagsOK(i)
  <2>1. Shape(i)
    BY <1>1, <1>2, <1>3, <1>6 DEF Shape, InGame, m_flags, h
  <2> QED  BY <1>1, <1>2, <1>3, <2>1 DEF FlagsOK
<1>7. ASSUME Fits(f, c), m_ktf => fs[f].state = "INBASE" PROVE FlagsOK(k)
  <2>1. Shape(k)
    <3>1. CASE m_ktf
      <4>1. PICK g \in Flags : fs[g].state = "IDLE" /\ InGame(fs, Other(g))
        BY <1>1, <3>1 DEF Shape
      <4>2. g = h /\ Other(g) = f
        BY <1>3, <1>7, <3>1, <4>1
      <4> QED  BY <1>2, <1>3, <3>1, <4>1, <4>2 DEF Shape, InGame, m_flags
    <3>2. CASE ~m_ktf
      BY <1>1, <1>2, <1>3, <3>2 DEF Shape, m_flags
    <3> QED  BY <3>1, <3>2
  <2> QED  BY <1>1, <1>2, <1>3, <1>7, <2>1 DEF FlagsOK
<1> QED  BY <1>4, <1>5, <1>6, <1>7 DEF t, b, k, d, i

\* Whoever may take a flag may carry it.
LEMMA TakerFits ==
  ASSUME NEW fs, NEW f \in Flags, NEW c, NEW action, NEW near, TypeOK, Newcomers,
         CanTake(fs, f, action, c, near)
  PROVE  Fits(f, c) /\ c \in Clients
  BY DEF CanTake, deadactor, valid_client, Fits, TypeOK, Newcomers

\* flagaction keeps flags in order, whatever it is asked to do and by whom.
LEMMA FlagActionKeepsOrder ==
  ASSUME NEW fs, FlagsOK(fs), NEW f \in Flags, NEW action, NEW actor, NEW near,
         TypeOK, Newcomers, m_flags
  PROVE  FlagsOK(FlagAction(fs, f, action, actor, near))
<1> DEFINE c == IF action = "LOST" /\ actor = NoClient THEN fs[f].actor_cn ELSE actor
           r == FlagAction(fs, f, action, actor, near)
<1>1. /\ FlagsOK(Touched(fs, f))
      /\ ~m_ktf => FlagsOK(InBase(fs, f))
      /\ m_ktf => FlagsOK(Idled(fs, f))
  BY UpdatesKeepOrder, ClientsAssumption
<1>2. CanTake(fs, f, action, c, near) /\ (m_ktf => action = "STEAL") => FlagsOK(Taken(fs, f, c))
  <2>1. CanTake(fs, f, action, c, near) => c \in Clients /\ Fits(f, c)
    BY TakerFits
  <2>2. CanTake(fs, f, action, c, near) /\ action = "STEAL" => fs[f].state = "INBASE"
    BY DEF CanTake
  <2> HIDE DEF c
  <2> QED  BY <2>1, <2>2, UpdatesKeepOrder
<1>3. Carries(fs, f, c) /\ ~m_ktf => FlagsOK(Dropped(fs, f, c))
  <2>1. Carries(fs, f, c) => c \in Clients
    BY DEF FlagsOK, Carries, Fits
  <2> HIDE DEF c
  <2> QED  BY <2>1, UpdatesKeepOrder
<1>4. CASE m_ktf
  <2>1. \/ r \in {fs, Touched(fs, f), Idled(fs, f)}
        \/ action = "STEAL" /\ CanTake(fs, f, action, c, near) /\ r = Taken(fs, f, c)
    <3>1. CASE action = "STEAL"
      BY <1>4, <3>1 DEF FlagAction
    <3>2. CASE action = "SCORE"
      BY <1>4, <3>2 DEF FlagAction
    <3>3. CASE action \in {"LOST", "DROP"}
      BY <1>4, <3>3 DEF FlagAction
    <3>4. CASE action = "RESET"
      BY <1>4, <3>4 DEF FlagAction
    <3>5. CASE action \notin {"STEAL", "SCORE", "LOST", "DROP", "RESET"}
      <4>1. r = Touched(fs, f)
        BY <1>4, <3>5, Zenon DEF FlagAction
      <4> QED  BY <4>1
    <3> QED  BY <3>1, <3>2, <3>3, <3>4, <3>5
  <2> HIDE DEF c, r
  <2>2. FlagsOK(r)
    BY <1>1, <1>2, <1>4, <2>1
  <2> QED  BY <2>2 DEF r
<1>5. CASE ~m_ktf
  <2>1. \/ r \in {fs, Touched(fs, f), InBase(fs, f)}
        \/ CanTake(fs, f, action, c, near) /\ r = Taken(fs, f, c)
        \/ Carries(fs, f, c) /\ r = Dropped(fs, f, c)
    <3>1. CASE action \in {"PICKUP", "STEAL"}
      BY <1>5, <3>1 DEF FlagAction
    <3>2. CASE action \in {"LOST", "DROP"}
      BY <1>5, <3>2 DEF FlagAction
    <3>3. CASE action \in {"RETURN", "SCORE", "RESET"}
      BY <1>5, <3>3 DEF FlagAction
    <3>4. CASE action \notin {"PICKUP", "STEAL", "LOST", "DROP", "RETURN", "SCORE", "RESET"}
      <4>1. r = Touched(fs, f)
        BY <1>5, <3>4, Zenon DEF FlagAction
      <4> QED  BY <4>1
    <3> QED  BY <3>1, <3>2, <3>3, <3>4
  <2> HIDE DEF c, r
  <2>2. FlagsOK(r)
    BY <1>1, <1>2, <1>3, <1>5, <2>1
  <2> QED  BY <2>2 DEF r
<1> QED  BY <1>4, <1>5

-----------------------------------------------------------------------------
(* Separating a client from its flag.                                      *)

\* new has no flag with c, and no carrier that was not one in old.
KeptBy(old, new, c) ==
    /\ \A f \in Flags : ~Carries(new, f, c)
    /\ \A f \in Flags : new[f].state = "STOLEN" =>
          old[f].state = "STOLEN" /\ new[f].actor_cn = old[f].actor_cn

Separates(old, new, c) == FlagsOK(new) /\ KeptBy(old, new, c)

\* In orderly flags a client carries one flag at most: in keep the flag the other one is
\* idle, in the other modes each flag has its own side's or the other side's carriers.
LEMMA OneFlagPerCarrier ==
  ASSUME NEW fs, FlagsOK(fs), NEW c, NEW f \in Flags, NEW g \in Flags,
         Carries(fs, f, c), Carries(fs, g, c)
  PROVE  f = g
<1>1. CASE m_ktf
  BY <1>1 DEF FlagsOK, Shape, Carries, Flags, Other
<1>2. CASE ~m_ktf
  BY <1>2 DEF FlagsOK, Fits, Carries
<1> QED  BY <1>1, <1>2

\* The client that carries a flag is a valid one, so clienthasflag sees it.
LEMMA CarrierIsFound ==
  ASSUME NEW fs, FlagsOK(fs), NEW c, CarriedBy(fs, c) = {}
  PROVE  \A f \in Flags : ~Carries(fs, f, c)
  BY DEF FlagsOK, Shape, Fits, Carries, CarriedBy, valid_client, m_flags

LEMMA FoundFlag ==
  ASSUME NEW fs, FlagsOK(fs), NEW c, CarriedBy(fs, c) # {}
  PROVE  /\ clienthasflag(fs, c) \in Flags /\ Carries(fs, clienthasflag(fs, c), c)
         /\ m_flags /\ c \in Clients /\ c # NoClient
  BY ClientsAssumption DEF clienthasflag, CarriedBy, Flags, valid_client

\* Both separations only turn the found flag, or in keep the flag both, to a state that is
\* not STOLEN.
LEMMA Separated ==
  ASSUME NEW fs, FlagsOK(fs), NEW c, TypeOK, Newcomers
  PROVE  Separates(fs, sdropflag(fs, c), c) /\ Separates(fs, resetflag(fs, c), c)
<1>1. CASE CarriedBy(fs, c) = {}
  <2>1. \A f \in Flags : ~Carries(fs, f, c)
    BY <1>1, CarrierIsFound
  <2> QED  BY <1>1, <2>1 DEF sdropflag, resetflag, Separates, KeptBy
<1>2. CASE CarriedBy(fs, c) # {}
  <2> DEFINE f == clienthasflag(fs, c)
             d == Dropped(fs, f, c)
             i == Idled(fs, f)
             b == InBase(fs, f)
  <2>1. /\ f \in Flags /\ Carries(fs, f, c) /\ m_flags /\ c \in Clients /\ c # NoClient
    BY <1>2, FoundFlag
  <2>2. /\ ~m_ktf => sdropflag(fs, c) = d /\ resetflag(fs, c) = b
        /\ m_ktf => sdropflag(fs, c) = i /\ resetflag(fs, c) = i
    BY <1>2, <2>1 DEF sdropflag, resetflag, FlagAction
  <2>3. FlagsOK(sdropflag(fs, c)) /\ FlagsOK(resetflag(fs, c))
    <3>1. FlagsOK(FlagAction(fs, f, "LOST", c, FALSE))
      BY <2>1, FlagActionKeepsOrder
    <3>2. FlagsOK(FlagAction(fs, f, "RESET", NoClient, FALSE))
      BY <2>1, FlagActionKeepsOrder
    <3> QED  BY <1>2, <3>1, <3>2 DEF sdropflag, resetflag
  <2>4. /\ d[f].state = "DROPPED" /\ b[f].state = "INBASE" /\ i[f].state = "IDLE"
        /\ d[Other(f)] = fs[Other(f)] /\ b[Other(f)] = fs[Other(f)]
        /\ i[Other(f)].state = "INBASE"
    BY <2>1, Updates DEF FlagsOK, TypeOK
  <2>5. \A g \in Flags : g = f \/ (g = Other(f) /\ ~Carries(fs, g, c))
    BY <2>1, TwoFlags, OneFlagPerCarrier
  <2> HIDE DEF f, d, i, b
  <2>6. KeptBy(fs, d, c) /\ KeptBy(fs, b, c) /\ KeptBy(fs, i, c)
    BY <2>4, <2>5 DEF KeptBy, Carries
  <2> QED  BY <2>2, <2>3, <2>6 DEF Separates
<1> QED  BY <1>1, <1>2

-----------------------------------------------------------------------------
(* From flags in order in this state to flags in order in the next.        *)

\* A step leaves the flags in order if it leaves every carrier as it was.
LEMMA CarriersUndisturbed ==
  ASSUME FlagsOK(flag'), mode' = mode,
         \A f \in Flags : flag'[f].state = "STOLEN" =>
            /\ conn'[flag'[f].actor_cn] = conn[flag'[f].actor_cn]
            /\ team'[flag'[f].actor_cn] = team[flag'[f].actor_cn]
            /\ life'[flag'[f].actor_cn] \in {"ALIVE", "EDITING"}
  PROVE  FlagsOK(flag)'
<1> DEFINE fs == flag'
<1>1. fs \in [Flags -> FlagRecords] /\ Shape(fs)
  BY DEF FlagsOK
<1>2. Shape(flag)'
  BY <1>1 DEF Shape, m_ktf, InGame
<1>3. ASSUME NEW f \in Flags, fs[f].state = "STOLEN" PROVE Fits(f, flag[f].actor_cn)'
  <2>1. Fits(f, fs[f].actor_cn)
    BY <1>3 DEF FlagsOK
  <2> QED  BY <1>3, <2>1 DEF Fits, TakesFlag, m_ktf
<1> QED  BY <1>1, <1>2, <1>3 DEF FlagsOK

\* c, the only client that changes, has been separated from its flag.
LEMMA SeparatedUndisturbed ==
  ASSUME NEW c, Separates(flag, flag', c), FlagsOK(flag), mode' = mode,
         \A d \in Clients : d # c =>
            conn'[d] = conn[d] /\ team'[d] = team[d] /\ life'[d] = life[d]
  PROVE  FlagsOK(flag)'
<1>1. FlagsOK(flag')
  BY DEF Separates
<1>2. ASSUME NEW f \in Flags, flag'[f].state = "STOLEN"
      PROVE  /\ flag'[f].actor_cn \in Clients \ {c}
             /\ life[flag'[f].actor_cn] \in {"ALIVE", "EDITING"}
  <2>1. Fits(f, flag'[f].actor_cn)
    BY <1>1, <1>2 DEF FlagsOK
  <2>2. ~Carries(flag', f, c)
    BY DEF Separates, KeptBy
  <2> QED  BY <1>2, <2>1, <2>2 DEF Fits, Carries
<1> QED  BY <1>1, <1>2, CarriersUndisturbed

\* A game that starts has nobody with a flag.
LEMMA ResetFlagsInOrder ==
  ASSUME NEW m \in Modes \cup {"none"}, mode' = m, flag \in [Flags -> FlagRecords],
         flag' \in ResetFlags(m)
  PROVE  FlagsOK(flag)'
<1>1. PICK idle \in IF m \in {"ktf", "tktf"} THEN {{0}, {1}} ELSE {{}} :
        flag' = [f \in Flags |-> [state |-> IF f \in idle THEN "IDLE" ELSE "INBASE",
                       actor_cn |-> NoClient, age |-> 0, onmap |-> flag[f].onmap]]
  BY DEF ResetFlags
<1>2. flag' \in [Flags -> FlagRecords]
  BY <1>1, LimitsAssumption DEF FlagRecords, FlagStates
<1>3. \A f \in Flags : flag'[f].state \in {"IDLE", "INBASE"}
  BY <1>1
<1>4. Shape(flag)'
  <2>1. CASE m \in {"ktf", "tktf"}
    <3>1. PICK g \in Flags : idle = {g}
      BY <1>1, <2>1 DEF Flags
    <3>2. flag'[g].state = "IDLE" /\ flag'[Other(g)].state = "INBASE" /\ g \in Flags
      BY <1>1, <3>1, TwoFlags
    <3> QED  BY <2>1, <3>2 DEF Shape, m_ktf, InGame
  <2>2. CASE m \notin {"ktf", "tktf"}
    <3>1. \A f \in Flags : flag'[f].state = "INBASE"
      BY <1>1, <2>2
    <3> QED  BY <2>2, <3>1 DEF Shape, m_ktf
  <2> QED  BY <2>1, <2>2
<1> QED  BY <1>2, <1>3, <1>4 DEF FlagsOK

-----------------------------------------------------------------------------
(* The invariant, action by action.                                        *)

\* Every carrier is a living, authenticated client.
LEMMA Carriers ==
  ASSUME FlagsOK(flag), NEW f \in Flags, flag[f].state = "STOLEN"
  PROVE  /\ flag[f].actor_cn \in Clients /\ conn[flag[f].actor_cn] = "playing"
         /\ life[flag[f].actor_cn] \in {"ALIVE", "EDITING"}
  BY DEF FlagsOK, Fits

LEMMA NoPoints == NoGain \in [Clients -> -1..2]
  BY DEF NoGain

\* Who sends a message is playing, or its slot is empty.
LEMMA Speakers ==
  ASSUME IInv, NEW c \in Clients, Speaks(c)
  PROVE  conn[c] # "connecting"
  BY DEF IInv, ZombieGone, Speaks

LEMMA InitOK == Init => IInv
<1> SUFFICES ASSUME Init PROVE IInv
  OBVIOUS
<1>1. /\ flag \in [Flags -> FlagRecords] /\ \A f \in Flags : flag[f].state = "INBASE"
  BY LimitsAssumption DEF Init, FlagRecords, FlagStates
<1>2. TypeOK
  <2>1. mode \in Modes \cup {"none"} /\ zombie \in Clients \cup {NoClient}
    BY DEF Init
  <2>2. loaded \in BOOLEAN /\ running \in BOOLEAN
    BY Zenon DEF Init
  <2>3. /\ conn \in [Clients -> {"empty", "connecting", "playing"}]
        /\ team \in [Clients -> TeamNums] /\ life \in [Clients -> LifeStates]
    BY DEF Init, TeamNums, TEAM_SPECT, LifeStates
  <2>4. pending \in [Clients -> BOOLEAN] /\ placed \in [Clients -> BOOLEAN]
    BY DEF Init
  <2> QED  BY <1>1, <2>1, <2>2, <2>3, <2>4, NoPoints DEF Init, TypeOK
<1>3. FlagsOK(flag)
  BY <1>1 DEF Init, FlagsOK, Shape, m_ktf
<1> QED  BY <1>2, <1>3, ClientsAssumption DEF Init, IInv, Newcomers, ZombieGone

LEMMA ConnectOK ==
  ASSUME IInv, NEW c \in Clients, Connect(c)
  PROVE  IInv'
<1>1. FlagsOK(flag)'
  BY Carriers, CarriersUndisturbed DEF IInv, TypeOK, Connect
<1>2. TypeOK'
  BY <1>1 DEF IInv, TypeOK, Connect, PacketEnds, NoGain, FlagsOK, TeamNums, TEAM_SPECT, LifeStates
<1>3. Newcomers' /\ ZombieGone'
  BY ClientsAssumption DEF IInv, TypeOK, Newcomers, ZombieGone, Connect, PacketEnds
<1> QED  BY <1>1, <1>2, <1>3 DEF IInv

LEMMA WelcomeOK ==
  ASSUME IInv, NEW c \in Clients, Welcome(c)
  PROVE  IInv'
<1>1. FlagsOK(flag)'
  <2>1. CASE loaded
    BY <2>1, Carriers, CarriersUndisturbed DEF IInv, TypeOK, Welcome
  <2>2. CASE ~loaded
    BY <2>2, ResetFlagsInOrder DEF IInv, TypeOK, Welcome
  <2> QED  BY <2>1, <2>2
<1>2. TypeOK'
  <2>1. mode' \in Modes \cup {"none"} /\ zombie' \in Clients \cup {NoClient}
    BY DEF IInv, TypeOK, Welcome, PacketEnds
  <2>2. loaded' \in BOOLEAN /\ running' \in BOOLEAN
    BY DEF IInv, TypeOK, Welcome
  <2>3. /\ conn' \in [Clients -> {"empty", "connecting", "playing"}]
        /\ team' \in [Clients -> TeamNums]
    BY DEF IInv, TypeOK, Welcome, TeamNums, TEAM_SPECT
  <2> QED  BY <1>1, <2>1, <2>2, <2>3, NoPoints DEF IInv, TypeOK, Welcome, FlagsOK
<1>3. Newcomers' /\ ZombieGone'
  BY ClientsAssumption DEF IInv, TypeOK, Newcomers, ZombieGone, Welcome, PacketEnds
<1> QED  BY <1>1, <1>2, <1>3 DEF IInv

LEMMA DisconnectOK ==
  ASSUME IInv, NEW c \in Clients, NEW midpacket \in BOOLEAN, Disconnect(c, midpacket)
  PROVE  IInv'
<1>1. FlagsOK(flag)'
  BY Separated, SeparatedUndisturbed DEF IInv, TypeOK, Disconnect
<1>2. TypeOK'
  BY <1>1 DEF IInv, TypeOK, Disconnect, NoGain, FlagsOK
<1>3. Newcomers' /\ ZombieGone'
  BY ClientsAssumption DEF IInv, TypeOK, Newcomers, ZombieGone, Disconnect
<1> QED  BY <1>1, <1>2, <1>3 DEF IInv

\* A change of team separates a client from its flag, by the change or by the death.
LEMMA ChangeTeamOK ==
  ASSUME IInv, NEW c \in Clients, NEW t \in Teams, NEW ftr, ftr # "INFO",
         ChangeTeam(c, t, ftr), conn' = conn, mode' = mode, loaded' = loaded,
         running' = running, gain' = NoGain, zombie' = zombie \/ zombie' = NoClient,
         t # team[c] \/ (team_isactive(t) /\ team_isactive(team[c]))
  PROVE  IInv'
<1> DEFINE dropped == IF team[c] # t THEN sdropflag(flag, c) ELSE flag
           dies == /\ ftr # "INFO"
                   /\ team_isspect(t) \/ (team_isactive(t) /\ team_isactive(team[c]))
<1>0. t \in TeamNums
  BY TeamsAssumption
<1>1. /\ flag' = IF dies THEN sdropflag(dropped, c) ELSE dropped
      /\ team' = [team EXCEPT ![c] = t]
      /\ life' = [life EXCEPT ![c] = IF team_isspect(t) THEN "SPECTATE"
                                     ELSE IF dies THEN "DEAD" ELSE @]
      /\ pending' = [pending EXCEPT ![c] = @ /\ ~dies]
      /\ placed' = [placed EXCEPT ![c] = @ /\ ~dies]
  BY DEF ChangeTeam
<1>2. team[c] # t \/ dies
  OBVIOUS
<1>3. FlagsOK(dropped) /\ (team[c] # t => Separates(flag, dropped, c))
  BY Separated DEF IInv, Separates
<1> HIDE DEF dropped, dies
<1>4. Separates(flag, flag', c)
  <2>1. CASE dies
    <3>1. Separates(dropped, sdropflag(dropped, c), c)
      BY <1>3, Separated DEF IInv
    <3> QED  BY <1>1, <1>3, <2>1, <3>1 DEF Separates, KeptBy, dropped
  <2>2. CASE ~dies
    BY <1>1, <1>2, <1>3, <2>2
  <2> QED  BY <2>1, <2>2
<1>5. FlagsOK(flag)'
  BY <1>1, <1>4, SeparatedUndisturbed DEF IInv, TypeOK
<1>6. TypeOK'
  <2>1. dies \in BOOLEAN
    BY DEF dies
  <2>2. pending' \in [Clients -> BOOLEAN] /\ placed' \in [Clients -> BOOLEAN]
    BY <1>1, <2>1 DEF IInv, TypeOK
  <2>3. life' \in [Clients -> LifeStates] /\ team' \in [Clients -> TeamNums]
    BY <1>0, <1>1 DEF IInv, TypeOK, LifeStates
  <2> QED  BY <1>5, <2>2, <2>3 DEF IInv, TypeOK, FlagsOK, NoGain
<1>7. Newcomers' /\ ZombieGone'
  BY <1>1, ClientsAssumption DEF IInv, TypeOK, Newcomers, ZombieGone
<1> QED  BY <1>5, <1>6, <1>7 DEF IInv

LEMMA SwitchTeamOK ==
  ASSUME IInv, NEW c \in Clients, NEW t \in Teams, SwitchTeam(c, t)
  PROVE  IInv'
  BY ChangeTeamOK DEF SwitchTeam, PacketOf, IInv, TypeOK

LEMMA MoveClientOK ==
  ASSUME IInv, NEW c \in Clients, NEW t \in Teams, NEW ftr \in {"AUTOTEAM", "SILENTFORCE"},
         MoveClient(c, t, ftr)
  PROVE  IInv'
  BY ChangeTeamOK DEF MoveClient, PacketEnds

LEMMA SpawnRequestOK ==
  ASSUME IInv, NEW c \in Clients, SpawnRequest(c)
  PROVE  IInv'
<1>1. PICK t \in {team[c]} \cup
                 (IF valid_client(c) /\ team_isspect(team[c]) THEN AnyActive ELSE {}),
           sendspawn \in BOOLEAN :
        /\ flag' = IF t # team[c] THEN sdropflag(flag, c) ELSE flag
        /\ team' = [team EXCEPT ![c] = t]
        /\ pending' = [pending EXCEPT ![c] = @ \/ sendspawn]
        /\ placed' = [placed EXCEPT ![c] = @ /\ ~sendspawn]
  BY DEF SpawnRequest
<1>2. t \in TeamNums
  BY TeamsAssumption DEF IInv, TypeOK, AnyActive
<1>3. FlagsOK(flag)'
  <2>1. CASE t # team[c]
    BY <1>1, <2>1, Separated, SeparatedUndisturbed DEF IInv, TypeOK, SpawnRequest
  <2>2. CASE t = team[c]
    BY <1>1, <2>2, Carriers, CarriersUndisturbed DEF IInv, TypeOK, SpawnRequest
  <2> QED  BY <2>1, <2>2
<1>4. TypeOK'
  <2>1. pending' \in [Clients -> BOOLEAN] /\ placed' \in [Clients -> BOOLEAN]
    BY <1>1 DEF IInv, TypeOK
  <2>2. team' \in [Clients -> TeamNums] /\ zombie' \in Clients \cup {NoClient}
    BY <1>1, <1>2 DEF IInv, TypeOK, SpawnRequest, PacketOf
  <2> QED  BY <1>3, <2>1, <2>2, NoPoints DEF IInv, TypeOK, SpawnRequest, FlagsOK
<1>5. Newcomers' /\ ZombieGone'
  BY ClientsAssumption DEF IInv, TypeOK, Newcomers, ZombieGone, SpawnRequest, PacketOf
<1> QED  BY <1>3, <1>4, <1>5 DEF IInv

LEMMA WrongMapOK ==
  ASSUME IInv, NEW c \in Clients, WrongMap(c)
  PROVE  IInv'
<1>1. FlagsOK(flag)'
  BY Separated, SeparatedUndisturbed DEF IInv, TypeOK, WrongMap
<1>2. TypeOK'
  BY <1>1, NoPoints DEF IInv, TypeOK, WrongMap, FlagsOK, PacketOf, LifeStates
<1>3. Newcomers' /\ ZombieGone'
  BY ClientsAssumption DEF IInv, TypeOK, Newcomers, ZombieGone, WrongMap, PacketOf
<1> QED  BY <1>1, <1>2, <1>3 DEF IInv

LEMMA SpawnOK ==
  ASSUME IInv, NEW c \in Clients, Spawn(c)
  PROVE  IInv'
<1>1. FlagsOK(flag)'
  BY Carriers, CarriersUndisturbed DEF IInv, TypeOK, Spawn
<1>2. TypeOK'
  BY <1>1, NoPoints DEF IInv, TypeOK, Spawn, FlagsOK, PacketOf, LifeStates
<1>3. Newcomers' /\ ZombieGone'
  BY ClientsAssumption, Speakers DEF IInv, TypeOK, Newcomers, ZombieGone, Spawn, PacketOf
<1> QED  BY <1>1, <1>2, <1>3 DEF IInv

LEMMA PositionOK ==
  ASSUME IInv, NEW c \in Clients, Position(c)
  PROVE  IInv'
<1>1. FlagsOK(flag)'
  BY Carriers, CarriersUndisturbed DEF IInv, TypeOK, Position
<1>2. TypeOK'
  BY <1>1, NoPoints DEF IInv, TypeOK, Position, FlagsOK, PacketOf
<1>3. Newcomers' /\ ZombieGone'
  BY ClientsAssumption DEF IInv, TypeOK, Newcomers, ZombieGone, Position, PacketOf
<1> QED  BY <1>1, <1>2, <1>3 DEF IInv

LEMMA EditModeOK ==
  ASSUME IInv, NEW c \in Clients, NEW val \in EditMessages, EditMode(c, val)
  PROVE  IInv'
<1>1. FlagsOK(flag)'
  BY Carriers, CarriersUndisturbed DEF IInv, TypeOK, EditMode
<1>2. TypeOK'
  BY <1>1, NoPoints DEF IInv, TypeOK, EditMode, FlagsOK, PacketOf, LifeStates
<1>3. Newcomers' /\ ZombieGone'
  BY ClientsAssumption, Speakers DEF IInv, TypeOK, Newcomers, ZombieGone, EditMode, PacketOf
<1> QED  BY <1>1, <1>2, <1>3 DEF IInv

LEMMA ReceiveMapOK ==
  ASSUME IInv, NEW c \in Clients, ReceiveMap(c)
  PROVE  IInv'
<1>1. FlagsOK(flag)'
  BY Separated, SeparatedUndisturbed DEF IInv, TypeOK, ReceiveMap
<1>2. TypeOK'
  <2>1. team' \in [Clients -> TeamNums] /\ life' \in [Clients -> LifeStates]
    BY DEF IInv, TypeOK, ReceiveMap, TeamNums, TEAM_SPECT, LifeStates
  <2>2. pending' \in [Clients -> BOOLEAN] /\ placed' \in [Clients -> BOOLEAN]
    BY DEF IInv, TypeOK, ReceiveMap
  <2> QED  BY <1>1, <2>1, <2>2, NoPoints DEF IInv, TypeOK, ReceiveMap, FlagsOK, PacketOf
<1>3. Newcomers' /\ ZombieGone'
  BY ClientsAssumption DEF IInv, TypeOK, Newcomers, ZombieGone, ReceiveMap, PacketOf
<1> QED  BY <1>1, <1>2, <1>3 DEF IInv

\* Who scores gets one point or two.
LEMMA GainBounds ==
  ASSUME NEW fs, NEW f \in Flags, NEW action, NEW actor, NEW near
  PROVE  /\ FlagGain(fs, f, action, actor, near) \in [Clients -> 0..2]
         /\ m_ktf => FlagGain(fs, f, action, actor, near) \in [Clients -> 0..1]
<1>1. /\ NoGain \in [Clients -> 0..1]
      /\ \A c, n : n \in 0..1 => Points(c, n) \in [Clients -> 0..1]
      /\ \A c, n : n \in 0..2 => Points(c, n) \in [Clients -> 0..2]
  <2>1. NoGain \in [Clients -> 0..1] /\ NoGain \in [Clients -> 0..2]
    BY DEF NoGain
  <2>2. ASSUME NEW c, NEW n \in 0..1 PROVE Points(c, n) \in [Clients -> 0..1]
    BY <2>1 DEF Points
  <2>3. ASSUME NEW c, NEW n \in 0..2 PROVE Points(c, n) \in [Clients -> 0..2]
    BY <2>1 DEF Points
  <2> QED  BY <2>1, <2>2, <2>3
<1>2. ScorePoints(fs, f, actor) \in 0..2 /\ 1 \in 0..1
  BY DEF ScorePoints
<1>3. [Clients -> 0..1] \subseteq [Clients -> 0..2]
  OBVIOUS
<1> QED  BY <1>1, <1>2, <1>3 DEF FlagGain

LEMMA FlagMessageOK ==
  ASSUME IInv, NEW c \in Clients, NEW f \in Flags, NEW action, NEW near \in BOOLEAN,
         FlagMessage(c, f, action, near)
  PROVE  IInv'
<1>1. FlagsOK(flag')
  BY FlagActionKeepsOrder DEF IInv, FlagMessage
<1>2. FlagsOK(flag)'
  <2>1. \A g \in Flags : flag'[g].state = "STOLEN" =>
           life[flag'[g].actor_cn] \in {"ALIVE", "EDITING"}
    BY <1>1 DEF FlagsOK, Fits
  <2> QED  BY <1>1, <2>1, CarriersUndisturbed DEF FlagMessage
<1>3. TypeOK'
  <2>1. gain' \in [Clients -> -1..2]
    BY GainBounds DEF FlagMessage
  <2> QED  BY <1>2, <2>1 DEF IInv, TypeOK, FlagMessage, FlagsOK, PacketOf
<1>4. Newcomers' /\ ZombieGone'
  BY ClientsAssumption DEF IInv, TypeOK, Newcomers, ZombieGone, FlagMessage, PacketOf
<1> QED  BY <1>2, <1>3, <1>4 DEF IInv

\* A death takes the flag of the target, and the kick of a team killer its own.
LEMMA DeathOK ==
  ASSUME IInv, NEW target \in Clients, NEW actor \in Clients, NEW punished \in BOOLEAN,
         Death(target, actor, punished)
  PROVE  IInv'
<1> DEFINE tk == target # actor /\ m_teammode /\ team[target] = team[actor]
           held == CarriedBy(flag, target)
           action == IF mode = "htf" \/ (mode = "ctf" /\ ~tk) THEN "LOST" ELSE "RESET"
           after == IF held = {} THEN flag
                    ELSE FlagAction(flag, clienthasflag(flag, target), action, NoClient, FALSE)
<1>1. /\ flag' = IF punished THEN sdropflag(after, actor) ELSE after
      /\ conn' = IF punished THEN [conn EXCEPT ![actor] = "empty"] ELSE conn
      /\ life' = [life EXCEPT ![target] = "DEAD"]
      /\ punished => target # actor
      /\ UNCHANGED <<mode, team, loaded, running, pending, placed>> /\ zombie' = NoClient
  BY DEF Death, PacketEnds
<1>2. after = sdropflag(flag, target) \/ after = resetflag(flag, target)
  <2>1. CASE held = {}
    BY <2>1 DEF sdropflag
  <2>2. CASE held # {}
    <3> DEFINE f == clienthasflag(flag, target)
    <3>1. Carries(flag, f, target) /\ target # NoClient
      BY <2>2, FoundFlag DEF IInv
    <3>2. FlagAction(flag, f, "LOST", NoClient, FALSE) = FlagAction(flag, f, "LOST", target, FALSE)
      BY <3>1 DEF FlagAction, Carries
    <3> QED  BY <2>2, <3>2 DEF sdropflag, resetflag
  <2> QED  BY <2>1, <2>2
<1>3. Separates(flag, after, target)
  BY <1>2, Separated DEF IInv
<1> HIDE DEF after
<1>4. /\ Separates(flag, flag', target)
      /\ punished => \A f \in Flags : ~Carries(flag', f, actor)
  <2>1. CASE punished
    <3>1. Separates(after, sdropflag(after, actor), actor)
      BY <1>3, Separated DEF IInv, Separates
    <3> QED  BY <1>1, <1>3, <2>1, <3>1 DEF Separates, KeptBy, Carries
  <2>2. CASE ~punished
    BY <1>1, <1>3, <2>2
  <2> QED  BY <2>1, <2>2
<1>5. FlagsOK(flag)'
  <2>1. FlagsOK(flag')
    BY <1>4 DEF Separates
  <2>2. ASSUME NEW f \in Flags, flag'[f].state = "STOLEN"
        PROVE  /\ flag'[f].actor_cn \in Clients \ {target}
               /\ punished => flag'[f].actor_cn # actor
               /\ life[flag'[f].actor_cn] \in {"ALIVE", "EDITING"}
    <3>1. Fits(f, flag'[f].actor_cn)
      BY <2>1, <2>2 DEF FlagsOK
    <3> QED  BY <1>4, <2>2, <3>1 DEF Fits, Separates, KeptBy, Carries
  <2>3. ASSUME NEW f \in Flags, flag'[f].state = "STOLEN"
        PROVE  /\ conn'[flag'[f].actor_cn] = conn[flag'[f].actor_cn]
               /\ life'[flag'[f].actor_cn] \in {"ALIVE", "EDITING"}
    BY <1>1, <2>2, <2>3 DEF IInv, TypeOK
  <2> QED  BY <1>1, <2>1, <2>3, CarriersUndisturbed
<1>6. TypeOK'
  <2>1. gain' \in [Clients -> -1..2]
    BY NoPoints DEF Death, Points
  <2>2. /\ life' \in [Clients -> LifeStates]
        /\ conn' \in [Clients -> {"empty", "connecting", "playing"}]
    BY <1>1 DEF IInv, TypeOK, LifeStates
  <2> QED  BY <1>1, <1>5, <2>1, <2>2 DEF IInv, TypeOK, FlagsOK
<1>7. Newcomers' /\ ZombieGone'
  BY <1>1, ClientsAssumption DEF IInv, TypeOK, Newcomers, ZombieGone
<1> QED  BY <1>5, <1>6, <1>7 DEF IInv

LEMMA TickOK ==
  ASSUME IInv, Tick
  PROVE  IInv'
<1>1. flag' \in [Flags -> FlagRecords]
  <2>1. \A f \in Flags : [flag[f] EXCEPT !.age = IF @ < MaxAge THEN @ + 1 ELSE @] \in FlagRecords
    BY LimitsAssumption DEF IInv, TypeOK, FlagRecords
  <2> QED  BY <2>1 DEF Tick
<1>2. \A f \in Flags : flag'[f].state = flag[f].state /\ flag'[f].actor_cn = flag[f].actor_cn
  BY DEF IInv, TypeOK, FlagRecords, Tick
<1>3. FlagsOK(flag')
  <2>1. Shape(flag')
    BY <1>2 DEF IInv, FlagsOK, Shape, InGame, Flags, Other
  <2> QED  BY <1>1, <1>2, <2>1 DEF IInv, FlagsOK
<1>4. FlagsOK(flag)'
  BY <1>2, <1>3, Carriers, CarriersUndisturbed DEF IInv, Tick
<1>5. TypeOK'
  BY <1>1, NoPoints DEF IInv, TypeOK, Tick, PacketEnds
<1>6. Newcomers' /\ ZombieGone'
  BY ClientsAssumption DEF IInv, Newcomers, ZombieGone, Tick, PacketEnds
<1> QED  BY <1>4, <1>5, <1>6 DEF IInv

\* The loop body of the slice keeps flags in order: who is forced to carry a flag of htf
\* is of its side and has been welcomed.
LEMMA SliceKeepsOrder ==
  ASSUME TypeOK, Newcomers, m_flags, NEW fs, FlagsOK(fs), NEW f \in Flags,
         NEW after \in SliceFlag(fs, f)
  PROVE  FlagsOK(after)
<1> DEFINE fs1 == DropExpired(fs, f)
<1>1. FlagsOK(fs1)
  BY FlagActionKeepsOrder DEF DropExpired
<1> HIDE DEF fs1
<1>2. CASE mode = "htf" /\ fs1[f].state = "INBASE" /\ fs1[f].age > HtfBaseLimit
  <2>1. after \in htf_forceflag(fs1, f)
    BY <1>2 DEF SliceFlag, fs1
  <2>2. CASE after = Touched(fs1, f)
    BY <1>1, <2>2, UpdatesKeepOrder, ClientsAssumption
  <2>3. CASE after # Touched(fs1, f)
    <3>1. PICK c \in Clients : /\ conn[c] # "empty" /\ life[c] = "ALIVE"
                               /\ team_base(team[c]) = f /\ after = Taken(fs1, f, c)
      BY <2>1, <2>3 DEF htf_forceflag
    <3>2. Fits(f, c) /\ ~m_ktf
      BY <1>2, <3>1 DEF Fits, TakesFlag, TypeOK, Newcomers, m_ktf
    <3> QED  BY <1>1, <3>1, <3>2, UpdatesKeepOrder
  <2> QED  BY <2>2, <2>3
<1>3. CASE ~(mode = "htf" /\ fs1[f].state = "INBASE" /\ fs1[f].age > HtfBaseLimit)
  <2>1. after = fs1 \/ after = FlagAction(fs1, f, "SCORE", NoClient, FALSE)
    BY <1>3 DEF SliceFlag, fs1
  <2> QED  BY <1>1, <2>1, FlagActionKeepsOrder
<1> QED  BY <1>2, <1>3

LEMMA FlagTimersOK ==
  ASSUME IInv, FlagTimers
  PROVE  IInv'
<1>1. PICK fs0 \in SliceFlag(flag, 0) : \E fs1 \in SliceFlag(fs0, 1) : \E pick \in Flags :
        /\ flag' = IF m_ktf /\ ~InGame(fs0, 0) /\ ~InGame(fs1, 1)
                   THEN FlagAction(fs1, pick, "RESET", NoClient, FALSE) ELSE fs1
        /\ gain' = [c \in Clients |-> SliceGain(flag, 0)[c] + SliceGain(fs0, 1)[c]]
  BY DEF FlagTimers
<1>2. PICK fs1 \in SliceFlag(fs0, 1), pick \in Flags :
        /\ flag' = IF m_ktf /\ ~InGame(fs0, 0) /\ ~InGame(fs1, 1)
                   THEN FlagAction(fs1, pick, "RESET", NoClient, FALSE) ELSE fs1
        /\ gain' = [c \in Clients |-> SliceGain(flag, 0)[c] + SliceGain(fs0, 1)[c]]
  BY <1>1
<1>3. 0 \in Flags /\ 1 \in Flags /\ m_flags
  BY DEF Flags, FlagTimers
<1>4. FlagsOK(fs0)
  BY <1>3, SliceKeepsOrder DEF IInv
<1>5. FlagsOK(fs1)
  BY <1>3, <1>4, SliceKeepsOrder DEF IInv
<1>6. FlagsOK(flag')
  BY <1>2, <1>3, <1>5, FlagActionKeepsOrder DEF IInv
<1>7. FlagsOK(flag)'
  <2>1. \A g \in Flags : flag'[g].state = "STOLEN" =>
           life[flag'[g].actor_cn] \in {"ALIVE", "EDITING"}
    BY <1>6 DEF FlagsOK, Fits
  <2> QED  BY <1>6, <2>1, CarriersUndisturbed DEF FlagTimers
<1>8. TypeOK'
  <2>1. \A fs : \A f \in Flags : SliceGain(fs, f) \in [Clients -> 0..1]
    <3>1. NoGain \in [Clients -> 0..1]
      BY DEF NoGain
    <3> QED  BY <3>1, GainBounds DEF SliceGain, PaysNow
  <2>2. gain' \in [Clients -> -1..2]
    <3> DEFINE a == SliceGain(flag, 0)
               b == SliceGain(fs0, 1)
    <3>1. a \in [Clients -> 0..1] /\ b \in [Clients -> 0..1]
      BY <1>3, <2>1
    <3> HIDE DEF a, b
    <3>2. \A c \in Clients : a[c] + b[c] \in -1..2
      BY <3>1
    <3> QED  BY <1>2, <3>2 DEF a, b
  <2> QED  BY <1>7, <2>2 DEF IInv, TypeOK, FlagTimers, FlagsOK, PacketEnds
<1>9. Newcomers' /\ ZombieGone'
  BY ClientsAssumption DEF IInv, Newcomers, ZombieGone, FlagTimers, PacketEnds
<1> QED  BY <1>7, <1>8, <1>9 DEF IInv

LEMMA IntermissionOK ==
  ASSUME IInv, Intermission
  PROVE  IInv'
<1>1. FlagsOK(flag)'
  BY Carriers, CarriersUndisturbed DEF IInv, Intermission
<1>2. TypeOK'
  BY <1>1, NoPoints DEF IInv, TypeOK, Intermission, PacketEnds
<1>3. Newcomers' /\ ZombieGone'
  BY ClientsAssumption DEF IInv, Newcomers, ZombieGone, Intermission, PacketEnds
<1> QED  BY <1>1, <1>2, <1>3 DEF IInv

LEMMA StartGameOK ==
  ASSUME IInv, NEW m \in Modes, StartGame(m)
  PROVE  IInv'
<1>1. FlagsOK(flag)'
  BY ResetFlagsInOrder DEF IInv, TypeOK, StartGame
<1>2. TypeOK'
  <2>1. team' \in [Clients -> TeamNums]
    BY DEF IInv, TypeOK, StartGame, Other, team_isactive, TeamNums, TEAM_CLA, TEAM_RVSF
  <2>2. life' \in [Clients -> LifeStates]
    BY DEF IInv, TypeOK, StartGame, LifeStates
  <2>3. pending' \in [Clients -> BOOLEAN] /\ placed' \in [Clients -> BOOLEAN]
    BY DEF IInv, TypeOK, StartGame
  <2>4. running' \in BOOLEAN /\ mode' \in Modes \cup {"none"}
    BY DEF StartGame
  <2> QED  BY <1>1, <2>1, <2>2, <2>3, <2>4, NoPoints
           DEF IInv, TypeOK, StartGame, FlagsOK, PacketEnds
<1>3. Newcomers' /\ ZombieGone'
  BY ClientsAssumption DEF IInv, Newcomers, ZombieGone, StartGame, PacketEnds
<1> QED  BY <1>1, <1>2, <1>3 DEF IInv

LEMMA StartSilentlyOK ==
  ASSUME IInv, NEW c \in Clients, NEW m \in Modes, StartSilently(c, m)
  PROVE  IInv'
<1>1. FlagsOK(flag)'
  BY ResetFlagsInOrder DEF IInv, TypeOK, StartSilently
<1>2. TypeOK'
  <2>1. running' \in BOOLEAN /\ mode' \in Modes \cup {"none"}
    BY DEF StartSilently
  <2> QED  BY <1>1, <2>1, NoPoints DEF IInv, TypeOK, StartSilently, FlagsOK, PacketOf
<1>3. Newcomers' /\ ZombieGone'
  BY ClientsAssumption DEF IInv, TypeOK, Newcomers, ZombieGone, StartSilently, PacketOf
<1> QED  BY <1>1, <1>2, <1>3 DEF IInv

LEMMA ResetIfEmptyOK ==
  ASSUME IInv, ResetIfEmpty
  PROVE  IInv'
<1>1. FlagsOK(flag)'
  BY ResetFlagsInOrder DEF IInv, TypeOK, ResetIfEmpty
<1>2. TypeOK'
  <2>1. running' \in BOOLEAN /\ loaded' \in BOOLEAN /\ mode' \in Modes \cup {"none"}
    BY DEF ResetIfEmpty
  <2> QED  BY <1>1, <2>1, NoPoints DEF IInv, TypeOK, ResetIfEmpty, FlagsOK, PacketEnds
<1>3. Newcomers' /\ ZombieGone'
  BY ClientsAssumption DEF IInv, Newcomers, ZombieGone, ResetIfEmpty, PacketEnds
<1> QED  BY <1>1, <1>2, <1>3 DEF IInv

-----------------------------------------------------------------------------
(* The theorems.                                                           *)

LEMMA Inductive == IInv /\ [Next]_vars => IInv'
<1> SUFFICES ASSUME IInv, [Next]_vars PROVE IInv'
  OBVIOUS
<1>1. ASSUME NEW c \in Clients, Message(c) PROVE IInv'
  BY <1>1, SwitchTeamOK, SpawnRequestOK, WrongMapOK, SpawnOK, PositionOK, EditModeOK,
     ReceiveMapOK, FlagMessageOK, StartSilentlyOK DEF Message
<1>2. ASSUME NEW c \in Clients, Connect(c) \/ Welcome(c) PROVE IInv'
  BY <1>2, ConnectOK, WelcomeOK
<1>3. CASE UNCHANGED vars
  <2>1. /\ UNCHANGED <<mode, loaded, running, conn, zombie, team>>
        /\ UNCHANGED <<life, pending, placed, flag, gain>>
    BY <1>3 DEF vars
  <2>2. FlagsOK(flag)'
    BY <2>1, Carriers, CarriersUndisturbed DEF IInv
  <2>3. TypeOK' /\ Newcomers' /\ ZombieGone'
    BY <2>1 DEF IInv, TypeOK, Newcomers, ZombieGone
  <2> QED  BY <2>2, <2>3 DEF IInv
<1> QED  BY <1>1, <1>2, <1>3, DisconnectOK, MoveClientOK, DeathOK, TickOK, FlagTimersOK,
            IntermissionOK, StartGameOK, ResetIfEmptyOK DEF Next

LEMMA Invariant == Spec => []IInv
  BY InitOK, Inductive, PTL DEF Spec

\* The state has its types in every reachable state of every server.
THEOREM TypeCorrect == Spec => []TypeOK
<1>1. IInv => TypeOK
  BY DEF IInv
<1> QED  BY <1>1, Invariant, PTL

\* No flag is ever with a client that is dead, spectating or gone, whatever its last packet
\* held and in whatever order deaths, kicks, team changes and downloads come.
THEOREM CarriersArePresent == Spec => []CarrierInPlay
<1>1. IInv => CarrierInPlay
  BY Carriers DEF IInv, CarrierInPlay
<1> QED  BY <1>1, Invariant, PTL

\* Every carrier is on the side its flag has to be with, through team changes of all kinds.
THEOREM CarriersAreOnTheRightSide == Spec => []CarrierSide
<1>1. IInv => CarrierSide
  BY DEF IInv, FlagsOK, Fits, CarrierSide
<1> QED  BY <1>1, Invariant, PTL

\* Keep the flag always has one flag to fight for, and the other modes never lose one.
THEOREM OneFlagIsActive == Spec => []OneActiveFlag
<1>1. IInv => OneActiveFlag
  BY DEF IInv, FlagsOK, Shape, OneActiveFlag
<1> QED  BY <1>1, Invariant, PTL

-----------------------------------------------------------------------------
(***************************************************************************)
(*                                THE PROMISE                              *)
(* The flag modes keep their promise: FlagGame implements FlagPromise, for *)
(* any clients, teams, modes, messages and limits.                         *)
(*                                                                         *)
(* The argument.  Every handler is a composition of flag actions that only *)
(* take flags away from clients (Loses), followed or preceded by nothing,  *)
(* or a message or timer in which each flag makes one move (Legal).  Both  *)
(* show outside as moves of FlagPromise, and the invariant above says that *)
(* the carriers are honest ones.                                           *)
(***************************************************************************)


Shows(old, new, f) ==
    new[f].state = old[f].state /\ (old[f].state = "STOLEN" => new[f].actor_cn = old[f].actor_cn)
Taking(old, new, f) == old[f].state \in {"INBASE", "DROPPED"} /\ new[f].state = "STOLEN"
Leaving(old, new, f) == old[f].state = "STOLEN" /\ new[f].state # "STOLEN"
Returning(old, new, f) == old[f].state = "DROPPED" /\ new[f].state = "INBASE"
Swapping(old, new, f) ==
    old[f].state = "IDLE" /\ new[f].state = "INBASE" /\ new[Other(f)].state = "IDLE"

\* Flags are only taken away from clients.
Loses(old, new) ==
    \A f \in Flags : Shows(old, new, f) \/ Leaving(old, new, f) \/ Swapping(old, new, f)

\* Each flag makes one move.
Legal(old, new) ==
    \A f \in Flags : \/ Shows(old, new, f) \/ Leaving(old, new, f) \/ Swapping(old, new, f)
                     \/ Taking(old, new, f) \/ Returning(old, new, f)

-----------------------------------------------------------------------------
(* From moves of flags to steps of the promise.                            *)

\* What the players see of a state that is in order.
LEMMA Appearance ==
  ASSUME IInv
  PROVE  /\ Promised!Honest(where, carrier, present)
         /\ present \in SUBSET Clients
<1>1. ASSUME NEW f \in Flags PROVE IF where[f] = "carried" THEN carrier[f] \in present ELSE carrier[f] = NoClient
  BY Carriers DEF IInv, TypeOK, FlagRecords, FlagStates, where, carrier, present
<1>2. ASSUME carrier[0] = carrier[1], carrier[0] # NoClient PROVE FALSE
  <2>1. 0 \in Flags /\ 1 \in Flags
    BY DEF Flags
  <2>2. Carries(flag, 0, carrier[0]) /\ Carries(flag, 1, carrier[0])
    BY <1>2, <2>1 DEF carrier, Carries
  <2> QED  BY <2>1, <2>2, OneFlagPerCarrier DEF IInv
<1> QED  BY <1>1, <1>2 DEF Promised!Honest, Promised!TwoFlags, Flags, present

\* A step in which each flag makes a legal move, and is taken by one who was present.
LEMMA LegalIsPlay ==
  ASSUME IInv, IInv', Legal(flag, flag'),
         \A f \in Flags : Taking(flag, flag', f) => flag'[f].actor_cn \in present
  PROVE  Promised!Play
<1>1. Promised!Honest(where', carrier', present') /\ present' \in SUBSET Clients
  <2>1. Promised!Honest(where, carrier, present)' /\ (present \in SUBSET Clients)'
    BY Appearance, PTL
  <2> QED  BY <2>1 DEF Promised!Honest, Promised!TwoFlags
<1>2. ASSUME NEW f \in Promised!TwoFlags
      PROVE  \/ Promised!Rest(f) \/ Promised!Take(f) \/ Promised!Leave(f)
             \/ Promised!Return(f) \/ Promised!Swap(f)
  <2>1. f \in Flags /\ Other(f) \in Flags /\ Other(f) = 1 - f
    BY DEF Promised!TwoFlags, Flags, Other
  <2>2. flag[f].state \in FlagStates /\ flag'[f].state \in FlagStates
    BY <2>1 DEF IInv, TypeOK, FlagRecords
  <2>3. CASE Shows(flag, flag', f)
    BY <2>1, <2>2, <2>3 DEF Shows, Promised!Rest, where, carrier
  <2>4. CASE Leaving(flag, flag', f)
    BY <2>1, <2>2, <2>4 DEF Leaving, Promised!Leave, where, FlagStates
  <2>5. CASE Swapping(flag, flag', f)
    BY <2>1, <2>2, <2>5 DEF Swapping, Promised!Swap, where
  <2>6. CASE Taking(flag, flag', f)
    BY <2>1, <2>2, <2>6 DEF Taking, Promised!Take, where, carrier
  <2>7. CASE Returning(flag, flag', f)
    BY <2>1, <2>2, <2>7 DEF Returning, Promised!Return, where
  <2> QED  BY <2>1, <2>3, <2>4, <2>5, <2>6, <2>7 DEF Legal
<1> QED  BY <1>1, <1>2 DEF Promised!Play

LEMMA LosesIsPlay ==
  ASSUME IInv, IInv', Loses(flag, flag')
  PROVE  Promised!Play
<1>1. Legal(flag, flag') /\ \A f \in Flags : ~Taking(flag, flag', f)
  BY DEF Loses, Legal, Shows, Leaving, Swapping, Taking
<1> QED  BY <1>1, LegalIsPlay

\* A game that starts.
LEMMA ResetIsNewGame ==
  ASSUME IInv, IInv', NEW m, flag' \in ResetFlags(m)
  PROVE  Promised!NewGame
<1>1. \A f \in Flags : flag'[f].state \in {"INBASE", "IDLE"}
  BY DEF ResetFlags
<1>2. /\ where' \in [Promised!TwoFlags -> {"base", "idle"}]
      /\ carrier' = [f \in Promised!TwoFlags |-> NoClient]
  BY <1>1 DEF where, carrier, Promised!TwoFlags, Flags
<1>3. present' \in SUBSET Clients
  BY DEF present
<1> QED  BY <1>2, <1>3 DEF Promised!NewGame

-----------------------------------------------------------------------------
(* The moves of the flag operators.                                        *)

\* Two losses in one handler are one.
LEMMA LossesCompose ==
  ASSUME NEW a, NEW b, NEW c, Loses(a, b), Loses(b, c)
  PROVE  Loses(a, c)
<1> SUFFICES ASSUME NEW f \in Flags
             PROVE  Shows(a, c, f) \/ Leaving(a, c, f) \/ Swapping(a, c, f)
  BY DEF Loses
<1>1. f \in Flags /\ Other(f) \in Flags /\ Other(Other(f)) = f
  BY TwoFlags
<1> QED  BY <1>1 DEF Loses, Shows, Leaving, Swapping

LEMMA SeparationLoses ==
  ASSUME NEW fs, FlagsOK(fs), NEW c, TypeOK, Newcomers
  PROVE  Loses(fs, sdropflag(fs, c)) /\ Loses(fs, resetflag(fs, c))
<1>1. CASE CarriedBy(fs, c) = {}
  BY <1>1 DEF sdropflag, resetflag, Loses, Shows
<1>2. CASE CarriedBy(fs, c) # {}
  <2> DEFINE f == clienthasflag(fs, c)
             d == Dropped(fs, f, c)
             i == Idled(fs, f)
             b == InBase(fs, f)
  <2>1. /\ f \in Flags /\ Carries(fs, f, c) /\ m_flags /\ c \in Clients /\ c # NoClient
    BY <1>2, FoundFlag
  <2>2. /\ ~m_ktf => sdropflag(fs, c) = d /\ resetflag(fs, c) = b
        /\ m_ktf => sdropflag(fs, c) = i /\ resetflag(fs, c) = i
    BY <1>2, <2>1 DEF sdropflag, resetflag, FlagAction
  <2>3. /\ d[f].state = "DROPPED" /\ b[f].state = "INBASE" /\ i[f].state = "IDLE"
        /\ d[Other(f)] = fs[Other(f)] /\ b[Other(f)] = fs[Other(f)]
        /\ i[Other(f)].state = "INBASE"
    BY <2>1, Updates DEF FlagsOK, TypeOK
  <2>4. \A g \in Flags : g = f \/ g = Other(f)
    BY <2>1, TwoFlags
  <2>5. Other(Other(f)) = f
    BY <2>1, TwoFlags
  <2>6. m_ktf => fs[Other(f)].state = "IDLE"
    BY <2>1, <2>4 DEF FlagsOK, Shape, Carries
  <2>7. fs[f].state = "STOLEN"
    BY <2>1 DEF Carries
  <2> HIDE DEF f, d, i, b
  <2>8. Loses(fs, d) /\ Loses(fs, b)
    BY <2>3, <2>4, <2>7 DEF Loses, Shows, Leaving
  <2>9. m_ktf => Loses(fs, i)
    BY <2>3, <2>4, <2>5, <2>6, <2>7 DEF Loses, Leaving, Swapping
  <2> QED  BY <2>2, <2>8, <2>9
<1> QED  BY <1>1, <1>2

\* What a message or a payment makes of the flag it names.
LEMMA ActionOutcomes ==
  ASSUME NEW fs, FlagsOK(fs), NEW f \in Flags, NEW c, NEW near,
         NEW action \in {"PICKUP", "STEAL", "DROP", "LOST", "RETURN", "SCORE", "NUM"},
         c = NoClient => action = "SCORE"
  PROVE  LET r == FlagAction(fs, f, action, c, near)
         IN  \/ r \in {fs, Touched(fs, f)}
             \/ CanTake(fs, f, action, c, near) /\ r = Taken(fs, f, c)
             \/ ~m_ktf /\ Carries(fs, f, c) /\ r = Dropped(fs, f, c)
             \/ m_ktf /\ fs[f].state = "STOLEN" /\ r = Idled(fs, f)
             \/ ~m_ktf /\ fs[f].state \in {"DROPPED", "STOLEN"} /\ r = InBase(fs, f)
<1>1. CASE action \in {"PICKUP", "STEAL"}
  <2>1. CASE m_ktf /\ action = "PICKUP"
    <3>1. FlagAction(fs, f, action, c, near) = Touched(fs, f)
      BY <2>1, Zenon DEF FlagAction
    <3> QED  BY <3>1
  <2>2. CASE ~(m_ktf /\ action = "PICKUP")
    BY <1>1, <2>2 DEF FlagAction
  <2> QED  BY <2>1, <2>2
<1>2. CASE action \in {"LOST", "DROP"}
  BY <1>2 DEF FlagAction, Carries
<1>3. CASE action = "SCORE"
  BY <1>3 DEF FlagAction, CanScore, Carries
<1>4. CASE action = "RETURN"
  <2>1. CASE m_ktf
    <3>1. FlagAction(fs, f, action, c, near) = Touched(fs, f)
      BY <1>4, <2>1, Zenon DEF FlagAction
    <3> QED  BY <3>1
  <2>2. CASE ~m_ktf
    BY <1>4, <2>2 DEF FlagAction
  <2> QED  BY <2>1, <2>2
<1>5. CASE action = "NUM"
  <2>1. FlagAction(fs, f, action, c, near) = Touched(fs, f)
    BY <1>5, Zenon DEF FlagAction
  <2> QED  BY <2>1
<1> QED  BY <1>1, <1>2, <1>3, <1>4, <1>5

LEMMA TouchShows ==
  ASSUME NEW fs, FlagsOK(fs), NEW f \in Flags, TypeOK
  PROVE  Loses(fs, Touched(fs, f)) /\ \A g \in Flags : Shows(fs, Touched(fs, f), g)
<1> DEFINE t == Touched(fs, f)
<1>1. \A g \in Flags : t[g].state = fs[g].state /\ t[g].actor_cn = fs[g].actor_cn
  <2>1. PICK c : c \in Clients
    BY ClientsAssumption
  <2> QED  BY <2>1, Updates DEF FlagsOK, TypeOK
<1> HIDE DEF t
<1>2. \A g \in Flags : Shows(fs, t, g)
  BY <1>1 DEF Shows
<1>3. Loses(fs, t)
  BY <1>2 DEF Loses
<1> QED  BY <1>2, <1>3 DEF t

LEMMA IdledStates ==
  ASSUME NEW fs, FlagsOK(fs), NEW f \in Flags, TypeOK
  PROVE  Idled(fs, f)[f].state = "IDLE" /\ Idled(fs, f)[Other(f)].state = "INBASE"
  BY Updates, ClientsAssumption DEF FlagsOK, TypeOK

\* In keep the flag a carried flag that goes idle makes the other one active.
LEMMA IdlingLoses ==
  ASSUME NEW fs, FlagsOK(fs), NEW f \in Flags, TypeOK, m_ktf, fs[f].state = "STOLEN"
  PROVE  Loses(fs, Idled(fs, f))
<1> DEFINE i == Idled(fs, f)
<1>1. i[f].state = "IDLE" /\ i[Other(f)].state = "INBASE"
  BY IdledStates
<1>2. /\ Other(f) \in Flags /\ Other(Other(f)) = f
      /\ \A g \in Flags : g = f \/ g = Other(f)
  BY TwoFlags
<1>3. fs[Other(f)].state = "IDLE"
  BY <1>2 DEF FlagsOK, Shape
<1> HIDE DEF i
<1>4. Loses(fs, i)
  BY <1>1, <1>2, <1>3 DEF Loses, Leaving, Swapping
<1> QED  BY <1>4 DEF i

\* A flag that goes home, falls to the ground or is taken leaves the other one alone.
LEMMA OneFlagMoves ==
  ASSUME NEW fs, FlagsOK(fs), NEW f \in Flags, NEW c \in Clients, TypeOK
  PROVE  /\ fs[f].state \in {"DROPPED", "STOLEN"} => Legal(fs, InBase(fs, f))
         /\ fs[f].state = "STOLEN" => Legal(fs, Dropped(fs, f, c))
         /\ fs[f].state \in {"INBASE", "DROPPED"} => Legal(fs, Taken(fs, f, c))
         /\ \A g \in Flags : Taking(fs, Taken(fs, f, c), g) => g = f
         /\ \A g \in Flags : ~Taking(fs, InBase(fs, f), g) /\ ~Taking(fs, Dropped(fs, f, c), g)
         /\ \A new \in {InBase(fs, f), Dropped(fs, f, c), Taken(fs, f, c)} :
               Shows(fs, new, Other(f))
<1> DEFINE b == InBase(fs, f)
           d == Dropped(fs, f, c)
           k == Taken(fs, f, c)
<1>1. /\ b[f].state = "INBASE" /\ b[Other(f)] = fs[Other(f)]
      /\ d[f].state = "DROPPED" /\ d[Other(f)] = fs[Other(f)]
      /\ k[f].state = "STOLEN" /\ k[Other(f)] = fs[Other(f)]
  BY Updates DEF FlagsOK, TypeOK
<1>2. Other(f) \in Flags /\ \A g \in Flags : g = f \/ g = Other(f)
  BY TwoFlags
<1> HIDE DEF b, d, k
<1>3. /\ Shows(fs, b, Other(f)) /\ Shows(fs, d, Other(f)) /\ Shows(fs, k, Other(f))
      /\ fs[f].state \in {"DROPPED", "STOLEN"} => Returning(fs, b, f) \/ Leaving(fs, b, f)
      /\ fs[f].state = "STOLEN" => Leaving(fs, d, f)
      /\ fs[f].state \in {"INBASE", "DROPPED"} => Taking(fs, k, f)
      /\ ~Taking(fs, b, f) /\ ~Taking(fs, d, f)
  BY <1>1 DEF Shows, Returning, Leaving, Taking
<1>4. \A new : Shows(fs, new, Other(f)) => ~Taking(fs, new, Other(f))
  BY DEF Shows, Taking
<1>5. /\ fs[f].state \in {"DROPPED", "STOLEN"} => Legal(fs, b)
      /\ fs[f].state = "STOLEN" => Legal(fs, d)
      /\ fs[f].state \in {"INBASE", "DROPPED"} => Legal(fs, k)
  BY <1>2, <1>3 DEF Legal
<1>6. /\ \A g \in Flags : Taking(fs, k, g) => g = f
      /\ \A g \in Flags : ~Taking(fs, b, g) /\ ~Taking(fs, d, g)
      /\ \A new \in {b, d, k} : Shows(fs, new, Other(f))
  BY <1>2, <1>3, <1>4
<1> QED  BY <1>5, <1>6 DEF b, d, k

-----------------------------------------------------------------------------
(* The steps.                                                              *)

LEMMA FlagMessagePlays ==
  ASSUME IInv, IInv', NEW c \in Clients, NEW f \in Flags, NEW action \in SentActions,
         NEW near \in BOOLEAN, FlagMessage(c, f, action, near)
  PROVE  Promised!Play
<1>1. action \in {"PICKUP", "STEAL", "DROP", "LOST", "RETURN", "SCORE", "NUM"}
  BY MessagesAssumption DEF SentActions
<1>2. flag' = FlagAction(flag, f, action, c, near) /\ c # NoClient
  BY ClientsAssumption DEF FlagMessage
<1>3. TypeOK /\ FlagsOK(flag) /\ Newcomers
  BY DEF IInv
<1>4. \/ flag' \in {flag, Touched(flag, f)}
      \/ CanTake(flag, f, action, c, near) /\ flag' = Taken(flag, f, c)
      \/ ~m_ktf /\ Carries(flag, f, c) /\ flag' = Dropped(flag, f, c)
      \/ m_ktf /\ flag[f].state = "STOLEN" /\ flag' = Idled(flag, f)
      \/ ~m_ktf /\ flag[f].state \in {"DROPPED", "STOLEN"} /\ flag' = InBase(flag, f)
  BY <1>1, <1>2, <1>3, ActionOutcomes
<1>5. CASE flag' \in {flag, Touched(flag, f)}
  <2>1. Loses(flag, flag')
    BY <1>3, <1>5, TouchShows DEF Loses, Shows
  <2> QED  BY <2>1, LosesIsPlay
<1>6. CASE CanTake(flag, f, action, c, near) /\ flag' = Taken(flag, f, c)
  <2>1. flag[f].state \in {"INBASE", "DROPPED"}
    BY <1>6 DEF CanTake
  <2>2. Fits(f, c)
    BY <1>3, <1>6, TakerFits
  <2>3. c \in present /\ flag'[f].actor_cn = c
    BY <1>3, <1>6, <2>2, Updates DEF Fits, present, FlagsOK, TypeOK
  <2>4. Legal(flag, flag') /\ \A g \in Flags : Taking(flag, flag', g) => g = f
    BY <1>3, <1>6, <2>1, OneFlagMoves
  <2> QED  BY <2>3, <2>4, LegalIsPlay
<1>7. CASE \/ ~m_ktf /\ Carries(flag, f, c) /\ flag' = Dropped(flag, f, c)
           \/ ~m_ktf /\ flag[f].state \in {"DROPPED", "STOLEN"} /\ flag' = InBase(flag, f)
  <2>1. Legal(flag, flag') /\ \A g \in Flags : ~Taking(flag, flag', g)
    BY <1>3, <1>7, OneFlagMoves DEF Carries
  <2> QED  BY <2>1, LegalIsPlay
<1>8. CASE m_ktf /\ flag[f].state = "STOLEN" /\ flag' = Idled(flag, f)
  BY <1>3, <1>8, IdlingLoses, LosesIsPlay
<1> QED  BY <1>4, <1>5, <1>6, <1>7, <1>8

LEMMA DeathPlays ==
  ASSUME IInv, IInv', NEW target \in Clients, NEW actor \in Clients, NEW punished \in BOOLEAN,
         Death(target, actor, punished)
  PROVE  Promised!Play
<1> DEFINE tk == target # actor /\ m_teammode /\ team[target] = team[actor]
           held == CarriedBy(flag, target)
           action == IF mode = "htf" \/ (mode = "ctf" /\ ~tk) THEN "LOST" ELSE "RESET"
           after == IF held = {} THEN flag
                    ELSE FlagAction(flag, clienthasflag(flag, target), action, NoClient, FALSE)
<1>1. flag' = IF punished THEN sdropflag(after, actor) ELSE after
  BY DEF Death
<1>2. after = sdropflag(flag, target) \/ after = resetflag(flag, target)
  <2>1. CASE held = {}
    BY <2>1 DEF sdropflag
  <2>2. CASE held # {}
    <3> DEFINE f == clienthasflag(flag, target)
    <3>1. Carries(flag, f, target) /\ target # NoClient
      BY <2>2, FoundFlag DEF IInv
    <3>2. FlagAction(flag, f, "LOST", NoClient, FALSE) = FlagAction(flag, f, "LOST", target, FALSE)
      BY <3>1 DEF FlagAction, Carries
    <3> QED  BY <2>2, <3>2 DEF sdropflag, resetflag
  <2> QED  BY <2>1, <2>2
<1>3. Loses(flag, after) /\ FlagsOK(after)
  BY <1>2, SeparationLoses, Separated DEF IInv, Separates
<1> HIDE DEF after
<1>4. Loses(after, sdropflag(after, actor))
  BY <1>3, SeparationLoses DEF IInv
<1>5. Loses(flag, flag')
  BY <1>1, <1>3, <1>4, LossesCompose
<1> QED  BY <1>5, LosesIsPlay

LEMMA ChangeTeamPlays ==
  ASSUME IInv, IInv', NEW c, NEW t, NEW ftr, ChangeTeam(c, t, ftr)
  PROVE  Promised!Play
<1> DEFINE dropped == IF team[c] # t THEN sdropflag(flag, c) ELSE flag
<1>1. flag' \in {dropped, sdropflag(dropped, c)}
  BY DEF ChangeTeam
<1>2. Loses(flag, flag)
  BY DEF Loses, Shows
<1>3. Loses(flag, dropped) /\ FlagsOK(dropped)
  BY <1>2, SeparationLoses, Separated DEF IInv, Separates
<1> HIDE DEF dropped
<1>4. Loses(dropped, sdropflag(dropped, c))
  BY <1>3, SeparationLoses DEF IInv
<1>5. Loses(flag, flag')
  BY <1>1, <1>3, <1>4, LossesCompose
<1> QED  BY <1>5, LosesIsPlay

\* The loop body for a flag, in the modes in which the flags are independent.
LEMMA SliceMovesOne ==
  ASSUME TypeOK, Newcomers, m_flags, ~m_ktf, NEW fs, FlagsOK(fs), NEW f \in Flags,
         NEW after \in SliceFlag(fs, f)
  PROVE  /\ Shows(fs, after, Other(f))
         /\ \/ Shows(fs, after, f) \/ Returning(fs, after, f)
            \/ Taking(fs, after, f) /\ after[f].actor_cn \in present
<1> DEFINE fs1 == DropExpired(fs, f)
<1>1. FlagsOK(fs1)
  BY FlagActionKeepsOrder DEF DropExpired
<1>2. fs1 = fs \/ (fs[f].state = "DROPPED" /\ fs1 = InBase(fs, f))
  <2>1. FlagAction(fs, f, "RESET", NoClient, FALSE) = InBase(fs, f)
    BY DEF FlagAction
  <2> QED  BY <2>1 DEF DropExpired
<1>3. Shows(fs, fs1, Other(f)) /\ (Shows(fs, fs1, f) \/ Returning(fs, fs1, f))
  <2>1. CASE fs1 = fs
    BY <2>1 DEF Shows
  <2>2. CASE fs[f].state = "DROPPED" /\ fs1 = InBase(fs, f)
    <3>1. InBase(fs, f)[f].state = "INBASE" /\ InBase(fs, f)[Other(f)] = fs[Other(f)]
      BY Updates, ClientsAssumption DEF FlagsOK, TypeOK
    <3> QED  BY <2>2, <3>1 DEF Shows, Returning
  <2> QED  BY <1>2, <2>1, <2>2
<1>4. ~PaysNow(fs1, f)
  BY DEF PaysNow
<1>5. \/ after = fs1
      \/ after = Touched(fs1, f)
      \/ \E c \in Clients : /\ fs1[f].state = "INBASE" /\ conn[c] # "empty" /\ life[c] = "ALIVE"
                            /\ after = Taken(fs1, f, c)
  BY <1>4 DEF SliceFlag, htf_forceflag
<1> HIDE DEF fs1
<1>6. CASE after = fs1
  BY <1>3, <1>6
<1>7. CASE after = Touched(fs1, f)
  <2>1. Shows(fs1, after, f) /\ Shows(fs1, after, Other(f))
    BY <1>1, <1>7, TouchShows, TwoFlags
  <2> QED  BY <1>3, <2>1 DEF Shows, Returning
<1>8. ASSUME NEW c \in Clients, fs1[f].state = "INBASE", conn[c] # "empty", life[c] = "ALIVE",
             after = Taken(fs1, f, c)
      PROVE  Shows(fs, after, Other(f)) /\ Taking(fs, after, f) /\ after[f].actor_cn \in present
  <2>1. /\ after[f].state = "STOLEN" /\ after[f].actor_cn = c
        /\ after[Other(f)] = fs1[Other(f)]
    BY <1>1, <1>8, Updates DEF FlagsOK, TypeOK
  <2>2. c \in present
    BY <1>8 DEF present, Newcomers, TypeOK
  <2> QED  BY <1>3, <1>8, <2>1, <2>2 DEF Shows, Returning, Taking
<1> QED  BY <1>5, <1>6, <1>7, <1>8

\* The loop body for a flag of keep the flag: a payment, or the carrier loses the flag.
LEMMA SlicePaysOrIdles ==
  ASSUME TypeOK, Newcomers, m_ktf, NEW fs, FlagsOK(fs), NEW f \in Flags,
         NEW after \in SliceFlag(fs, f)
  PROVE  /\ FlagsOK(after)
         /\ \/ \A g \in Flags : Shows(fs, after, g)
            \/ /\ fs[f].state = "STOLEN" /\ after[f].state = "IDLE"
               /\ after[Other(f)].state = "INBASE"
<1>1. FlagsOK(after)
  BY SliceKeepsOrder DEF m_ktf, m_flags
<1>2. after = fs \/ after = FlagAction(fs, f, "SCORE", NoClient, FALSE)
  BY DEF SliceFlag, DropExpired, m_ktf
<1>3. CASE after = fs
  BY <1>1, <1>3 DEF Shows
<1>4. CASE after = FlagAction(fs, f, "SCORE", NoClient, FALSE)
  <2>1. after \in {fs, Touched(fs, f)} \/ (fs[f].state = "STOLEN" /\ after = Idled(fs, f))
    BY <1>4 DEF FlagAction
  <2>2. Idled(fs, f)[f].state = "IDLE" /\ Idled(fs, f)[Other(f)].state = "INBASE"
    BY IdledStates
  <2>3. \A g \in Flags : Shows(fs, fs, g) /\ Shows(fs, Touched(fs, f), g)
    BY TouchShows DEF Shows
  <2> QED  BY <1>1, <2>1, <2>2, <2>3
<1> QED  BY <1>2, <1>3, <1>4

LEMMA FlagTimersPlays ==
  ASSUME IInv, IInv', FlagTimers
  PROVE  Promised!Play
<1>1. PICK fs0 \in SliceFlag(flag, 0) : \E fs1 \in SliceFlag(fs0, 1) : \E pick \in Flags :
        flag' = IF m_ktf /\ ~InGame(fs0, 0) /\ ~InGame(fs1, 1)
                THEN FlagAction(fs1, pick, "RESET", NoClient, FALSE) ELSE fs1
  BY DEF FlagTimers
<1>2. PICK fs1 \in SliceFlag(fs0, 1), pick \in Flags :
        flag' = IF m_ktf /\ ~InGame(fs0, 0) /\ ~InGame(fs1, 1)
                THEN FlagAction(fs1, pick, "RESET", NoClient, FALSE) ELSE fs1
  BY <1>1
<1>3. /\ 0 \in Flags /\ 1 \in Flags /\ Other(0) = 1 /\ Other(1) = 0
      /\ \A f \in Flags : f = 0 \/ f = 1
      /\ m_flags /\ TypeOK /\ Newcomers /\ FlagsOK(flag)
  BY DEF Flags, Other, FlagTimers, IInv
<1>4. FlagsOK(fs0) /\ FlagsOK(fs1)
  BY <1>3, SliceKeepsOrder
<1>5. CASE ~m_ktf
  <2>1. flag' = fs1
    BY <1>2, <1>5
  <2>2. /\ Shows(flag, fs0, 1)
        /\ \/ Shows(flag, fs0, 0) \/ Returning(flag, fs0, 0)
           \/ Taking(flag, fs0, 0) /\ fs0[0].actor_cn \in present
    BY <1>3, <1>5, SliceMovesOne
  <2>3. /\ Shows(fs0, fs1, 0)
        /\ \/ Shows(fs0, fs1, 1) \/ Returning(fs0, fs1, 1)
           \/ Taking(fs0, fs1, 1) /\ fs1[1].actor_cn \in present
    BY <1>3, <1>4, <1>5, SliceMovesOne
  <2>4. \/ Shows(flag, fs1, 0) \/ Returning(flag, fs1, 0)
        \/ Taking(flag, fs1, 0) /\ fs1[0].actor_cn \in present
    BY <2>2, <2>3 DEF Shows, Returning, Taking
  <2>5. \/ Shows(flag, fs1, 1) \/ Returning(flag, fs1, 1)
        \/ Taking(flag, fs1, 1) /\ fs1[1].actor_cn \in present
    BY <2>2, <2>3 DEF Shows, Returning, Taking
  <2>6. \A f \in Flags : Shows(flag, fs1, f) \/ Returning(flag, fs1, f) => ~Taking(flag, fs1, f)
    BY DEF Shows, Returning, Taking
  <2>7. Legal(flag, fs1)
    BY <1>3, <2>4, <2>5 DEF Legal
  <2>8. \A f \in Flags : Taking(flag, fs1, f) => fs1[f].actor_cn \in present
    BY <1>3, <2>4, <2>5, <2>6
  <2> QED  BY <2>1, <2>7, <2>8, LegalIsPlay
<1>6. CASE m_ktf
  <2>1. \/ \A g \in Flags : Shows(flag, fs0, g)
        \/ flag[0].state = "STOLEN" /\ fs0[0].state = "IDLE" /\ fs0[1].state = "INBASE"
    BY <1>3, <1>6, SlicePaysOrIdles
  <2>2. \/ \A g \in Flags : Shows(fs0, fs1, g)
        \/ fs0[1].state = "STOLEN" /\ fs1[1].state = "IDLE" /\ fs1[0].state = "INBASE"
    BY <1>3, <1>4, <1>6, SlicePaysOrIdles
  <2>3. \/ flag[0].state = "IDLE" /\ InGame(flag, 1)
        \/ flag[1].state = "IDLE" /\ InGame(flag, 0)
    BY <1>3, <1>6 DEF FlagsOK, Shape
  <2>4. CASE ~InGame(fs0, 0) /\ ~InGame(fs1, 1)
    <3>1. /\ fs0[0].state = "IDLE" /\ InGame(fs0, 1)
      BY <1>3, <1>4, <1>6, <2>4 DEF FlagsOK, Shape, InGame
    <3>2. fs0[1].state = "STOLEN"
      BY <1>3, <2>2, <2>4, <3>1 DEF Shows, InGame
    <3>3. flag[0].state = "IDLE" /\ flag[1].state = "STOLEN"
      BY <1>3, <2>1, <3>1, <3>2 DEF Shows
    <3>4. flag' = Idled(fs1, pick)
      BY <1>2, <1>6, <2>4 DEF FlagAction
    <3>5. flag'[pick].state = "IDLE" /\ flag'[Other(pick)].state = "INBASE"
      BY <1>3, <1>4, <3>4, IdledStates
    <3>6. CASE pick = 0
      BY <1>3, <3>3, <3>5, <3>6, LosesIsPlay DEF Loses, Shows, Leaving
    <3>7. CASE pick = 1
      BY <1>3, <3>3, <3>5, <3>7, LosesIsPlay DEF Loses, Swapping, Leaving
    <3> QED  BY <1>3, <3>6, <3>7
  <2>5. CASE ~(~InGame(fs0, 0) /\ ~InGame(fs1, 1))
    <3>1. flag' = fs1
      BY <1>2, <2>5
    <3>2. Loses(flag, fs0)
      BY <1>3, <2>1, <2>3 DEF Loses, Shows, Leaving, Swapping, InGame
    <3>3. Loses(fs0, fs1)
      <4>1. CASE \A g \in Flags : Shows(fs0, fs1, g)
        BY <4>1 DEF Loses
      <4>2. CASE fs0[1].state = "STOLEN" /\ fs1[1].state = "IDLE" /\ fs1[0].state = "INBASE"
        <5>1. fs0[0].state = "IDLE"
          BY <1>3, <1>4, <1>6, <4>2 DEF FlagsOK, Shape
        <5> QED  BY <1>3, <4>2, <5>1 DEF Loses, Leaving, Swapping
      <4> QED  BY <2>2, <4>1, <4>2
    <3> QED  BY <3>1, <3>2, <3>3, LossesCompose, LosesIsPlay
  <2> QED  BY <2>4, <2>5
<1> QED  BY <1>5, <1>6

LEMMA MessagePlays ==
  ASSUME IInv, IInv', NEW c \in Clients, Message(c)
  PROVE  Promised!Play \/ Promised!NewGame
<1>1. CASE \E t \in Teams : SwitchTeam(c, t)
  BY <1>1, ChangeTeamPlays DEF SwitchTeam
<1>2. CASE SpawnRequest(c) \/ WrongMap(c) \/ ReceiveMap(c)
  <2>1. flag' \in {flag, sdropflag(flag, c), resetflag(flag, c)}
    BY <1>2 DEF SpawnRequest, WrongMap, ReceiveMap
  <2>2. Loses(flag, flag')
    BY <2>1, SeparationLoses DEF IInv, Loses, Shows
  <2> QED  BY <2>2, LosesIsPlay
<1>3. CASE Spawn(c) \/ Position(c) \/ \E val \in EditMessages : EditMode(c, val)
  BY <1>3, LosesIsPlay DEF Spawn, Position, EditMode, Loses, Shows
<1>4. CASE \E f \in Flags, action \in SentActions, near \in BOOLEAN :
              FlagMessage(c, f, action, near)
  BY <1>4, FlagMessagePlays
<1>5. CASE \E m \in Modes : StartSilently(c, m)
  BY <1>5, ResetIsNewGame DEF StartSilently
<1> QED  BY <1>1, <1>2, <1>3, <1>4, <1>5 DEF Message

LEMMA ConnectionsPlay ==
  ASSUME IInv, IInv', NEW c \in Clients,
         Connect(c) \/ Welcome(c) \/ \E midpacket \in BOOLEAN : Disconnect(c, midpacket)
  PROVE  Promised!Play \/ Promised!NewGame
<1>1. CASE Connect(c) \/ (Welcome(c) /\ loaded)
  BY <1>1, LosesIsPlay DEF Connect, Welcome, Loses, Shows
<1>2. CASE Welcome(c) /\ ~loaded
  BY <1>2, ResetIsNewGame DEF Welcome
<1>3. CASE \E midpacket \in BOOLEAN : Disconnect(c, midpacket)
  BY <1>3, SeparationLoses, LosesIsPlay DEF Disconnect, IInv
<1> QED  BY <1>1, <1>2, <1>3

\* Neither the clock nor the end of a game moves a flag.
LEMMA TimePlays ==
  ASSUME IInv, IInv', Tick \/ Intermission \/ UNCHANGED vars
  PROVE  Promised!Play
<1>1. CASE Tick
  <2>1. \A f \in Flags : flag'[f].state = flag[f].state /\ flag'[f].actor_cn = flag[f].actor_cn
    BY <1>1 DEF IInv, TypeOK, FlagRecords, Tick
  <2> QED  BY <2>1, LosesIsPlay DEF Loses, Shows
<1>2. CASE Intermission \/ UNCHANGED vars
  BY <1>2, LosesIsPlay DEF Intermission, vars, Loses, Shows
<1> QED  BY <1>1, <1>2

LEMMA StepsPlay == IInv /\ IInv' /\ [Next]_vars => Promised!Play \/ Promised!NewGame
<1> SUFFICES ASSUME IInv, IInv', [Next]_vars PROVE Promised!Play \/ Promised!NewGame
  OBVIOUS
<1>1. ASSUME NEW m \in Modes, StartGame(m) PROVE Promised!NewGame
  BY <1>1, ResetIsNewGame DEF StartGame
<1>2. ASSUME ResetIfEmpty PROVE Promised!NewGame
  BY <1>2, ResetIsNewGame DEF ResetIfEmpty
<1>3. ASSUME NEW c \in Clients, NEW t \in Teams, NEW ftr, MoveClient(c, t, ftr)
      PROVE  Promised!Play
  BY <1>3, ChangeTeamPlays DEF MoveClient
<1> QED  BY <1>1, <1>2, <1>3, MessagePlays, ConnectionsPlay, DeathPlays, FlagTimersPlays,
            TimePlays DEF Next

LEMMA InitBegins == Init => Promised!Begin
<1> SUFFICES ASSUME Init PROVE Promised!Begin
  OBVIOUS
<1>1. \A f \in Flags : flag[f].state = "INBASE"
  BY DEF Init
<1>2. where = [f \in Flags |-> "base"] /\ carrier = [f \in Flags |-> NoClient]
  BY <1>1 DEF where, carrier
<1>3. present = {}
  BY DEF Init, present
<1> QED  BY <1>2, <1>3 DEF Promised!Begin, Promised!TwoFlags, Flags

\* What players see of the flags is what the rules allow, through every interleaving of
\* messages, deaths, kicks, downloads, timers and games: a flag travels only with a present
\* carrier, leaves it for the ground, its base or the idle state, and never goes straight
\* from one carrier to the next.
THEOREM FlagsKeepTheirPromise == Spec => KeepsPromise
<1>1. IInv /\ IInv' /\ [Next]_vars => [Promised!Play \/ Promised!NewGame]_(Promised!promiseVars)
  BY StepsPlay
<1> QED  BY <1>1, InitBegins, Invariant, PTL DEF Spec, KeepsPromise, Promised!Promise

-----------------------------------------------------------------------------
(***************************************************************************)
(* Why dropped flags come home (the part of DroppedComesHome that is not   *)
(* about fairness).  A flag on the ground lies where it was dropped and    *)
(* its time runs, whatever becomes of clients and of the other flag, and   *)
(* the first slice that finds it there for too long takes it away.  What   *)
(* could set its time back is only a message with an action that           *)
(* flagaction does not know: it does nothing else, but sets lastupdate.    *)
(***************************************************************************)

Known == {"PICKUP", "STEAL", "LOST", "DROP", "RETURN", "SCORE", "RESET"}

\* What is done to a flag that is carried changes no flag that lies on the ground.
LEMMA OthersLieStill ==
  ASSUME NEW fs, FlagsOK(fs), NEW f \in Flags, fs[f].state = "DROPPED", NEW g \in Flags, fs[g].state = "STOLEN"
  PROVE  \A action, c : FlagAction(fs, g, action, c, FALSE)[f] = fs[f]
<1>1. g # f /\ ~m_ktf
  BY DEF FlagsOK, Shape, InGame, Flags, Other
<1>2. \A u : [fs EXCEPT ![g] = u][f] = fs[f]
  BY <1>1 DEF FlagsOK
<1> TAKE action, c
<1> QED  BY <1>1, <1>2 DEF FlagAction, Taken, Dropped, InBase, Touched

\* Neither sdropflag nor resetflag does.
LEMMA SeparationsLieStill ==
  ASSUME NEW fs, FlagsOK(fs), TypeOK, NEW f \in Flags, fs[f].state = "DROPPED", NEW c
  PROVE  sdropflag(fs, c)[f] = fs[f] /\ resetflag(fs, c)[f] = fs[f]
<1>1. CASE CarriedBy(fs, c) = {}
  BY <1>1 DEF sdropflag, resetflag
<1>2. CASE CarriedBy(fs, c) # {}
  <2> DEFINE g == clienthasflag(fs, c)
  <2>1. g \in Flags /\ fs[g].state = "STOLEN"
    BY <1>2, FoundFlag DEF Carries
  <2>2. /\ sdropflag(fs, c) = FlagAction(fs, g, "LOST", c, FALSE)
        /\ resetflag(fs, c) = FlagAction(fs, g, "RESET", NoClient, FALSE)
    BY <1>2 DEF sdropflag, resetflag
  <2> HIDE DEF g
  <2>3. \A action, d : FlagAction(fs, g, action, d, FALSE)[f] = fs[f]
    BY <2>1, OthersLieStill
  <2> QED  BY <2>2, <2>3
<1> QED  BY <1>1, <1>2

\* What any action makes of flag f, on the ground before and after it.
LEMMA ActionsLieStill ==
  ASSUME NEW fs, FlagsOK(fs), TypeOK, NEW f \in Flags, fs[f].state = "DROPPED", NEW g \in Flags,
         NEW action, NEW c, NEW near, FlagAction(fs, g, action, c, near)[f].state = "DROPPED"
  PROVE  \/ FlagAction(fs, g, action, c, near)[f] = fs[f]
         \/ f = g /\ action \notin Known
<1>1. ~m_ktf /\ fs \in [Flags -> FlagRecords]
  BY DEF FlagsOK, Shape, InGame, Flags, Other
<1>2. CASE g # f
  <2>1. \A u : [fs EXCEPT ![g] = u][f] = fs[f]
    BY <1>1, <1>2
  <2> QED  BY <1>1, <2>1 DEF FlagAction, Taken, Dropped, InBase, Touched
<1>3. CASE g = f
  <2>1. \A u : [fs EXCEPT ![f] = u][f] = u
    BY <1>1
  <2>2. \A d : ~Carries(fs, f, d)
    BY DEF Carries
  <2> QED  BY <1>1, <1>3, <2>1, <2>2 DEF FlagAction, Taken, InBase, Fresh, Known
<1> QED  BY <1>2, <1>3

\* A flag that is on the ground before and after a step.
LiesStill(f) ==
  flag[f].state = "DROPPED" /\ flag'[f].state = "DROPPED" =>
     \/ flag'[f] = flag[f]
     \/ Tick /\ flag'[f] = [flag[f] EXCEPT !.age = IF @ < MaxAge THEN @ + 1 ELSE @]
     \/ \E c \in Clients, near \in BOOLEAN : FlagMessage(c, f, "NUM", near)

LEMMA TeamsLieStill ==
  ASSUME IInv, NEW f \in Flags, flag[f].state = "DROPPED", NEW c, NEW t, NEW ftr, ChangeTeam(c, t, ftr)
  PROVE  flag'[f] = flag[f]
<1> DEFINE dropped == IF team[c] # t THEN sdropflag(flag, c) ELSE flag
<1>1. flag' = sdropflag(dropped, c) \/ flag' = dropped
  BY DEF ChangeTeam
<1>2. FlagsOK(dropped) /\ dropped[f] = flag[f]
  BY SeparationsLieStill, Separated DEF IInv, Separates
<1> HIDE DEF dropped
<1> QED  BY <1>1, <1>2, SeparationsLieStill DEF IInv

LEMMA DeathLiesStill ==
  ASSUME IInv, NEW f \in Flags, flag[f].state = "DROPPED",
         NEW target \in Clients, NEW actor \in Clients, NEW punished \in BOOLEAN, Death(target, actor, punished)
  PROVE  flag'[f] = flag[f]
<1> DEFINE tk == target # actor /\ m_teammode /\ team[target] = team[actor]
           g == clienthasflag(flag, target)
           action == IF mode = "htf" \/ (mode = "ctf" /\ ~tk) THEN "LOST" ELSE "RESET"
           after == IF CarriedBy(flag, target) = {} THEN flag
                    ELSE FlagAction(flag, g, action, NoClient, FALSE)
<1>1. flag' = sdropflag(after, actor) \/ flag' = after
  BY DEF Death
<1>2. FlagsOK(after) /\ after[f] = flag[f]
  <2>1. CASE CarriedBy(flag, target) = {}
    BY <2>1 DEF IInv
  <2>2. CASE CarriedBy(flag, target) # {}
    <3>1. g \in Flags /\ flag[g].state = "STOLEN" /\ m_flags
      BY <2>2, FoundFlag DEF IInv, Carries
    <3>2. after = FlagAction(flag, g, action, NoClient, FALSE)
      BY <2>2
    <3> HIDE DEF g, action, after
    <3>3. \A any, d : FlagAction(flag, g, any, d, FALSE)[f] = flag[f]
      BY <3>1, OthersLieStill DEF IInv
    <3>4. FlagsOK(FlagAction(flag, g, action, NoClient, FALSE))
      BY <3>1, FlagActionKeepsOrder DEF IInv
    <3> QED  BY <3>2, <3>3, <3>4
  <2> QED  BY <2>1, <2>2
<1> HIDE DEF after
<1> QED  BY <1>1, <1>2, SeparationsLieStill DEF IInv

\* The loop body of the slice, for either flag.
LEMMA SliceLiesStill ==
  ASSUME TypeOK, Newcomers, NEW fs, FlagsOK(fs), NEW f \in Flags, fs[f].state = "DROPPED", NEW g \in Flags,
         NEW after \in SliceFlag(fs, g), after[f].state = "DROPPED"
  PROVE  after[f] = fs[f] /\ (g = f => ~(fs[f].age > DropLimit[mode]))
<1> DEFINE fs1 == DropExpired(fs, g)
<1>1. ~m_ktf /\ fs \in [Flags -> FlagRecords]
  BY DEF FlagsOK, Shape, InGame, Flags, Other
<1>2. /\ fs1[f] = IF g = f /\ fs[f].age > DropLimit[mode] THEN Fresh("INBASE", fs[f].actor_cn, fs[f].onmap) ELSE fs[f]
      /\ DOMAIN fs1 = Flags
  BY <1>1 DEF DropExpired, FlagAction, InBase
<1>3. after[f] = fs1[f]
  <2>1. after \in htf_forceflag(fs1, g) \/ after = fs1
    BY <1>1 DEF SliceFlag, PaysNow
  <2>2. CASE after = fs1
    BY <2>2
  <2>3. CASE mode = "htf" /\ fs1[g].state = "INBASE" /\ after \in htf_forceflag(fs1, g)
    <3> HIDE DEF fs1
    <3>1. \E u : after = [fs1 EXCEPT ![g] = u]
      BY <2>3 DEF htf_forceflag, Touched, Taken
    <3>2. g = f => fs1[f].state = "INBASE"
      BY <2>3
    <3>3. CASE g # f
      BY <1>2, <3>1, <3>3
    <3>4. CASE g = f
      <4>1. after[f].state \in {"INBASE", "STOLEN"}
        BY <1>2, <2>3, <3>2, <3>4 DEF htf_forceflag, Touched, Taken, Fresh
      <4> QED  BY <4>1
    <3> QED  BY <3>3, <3>4
  <2> QED  BY <1>1, <2>1, <2>2, <2>3 DEF SliceFlag, PaysNow
<1> QED  BY <1>2, <1>3 DEF Fresh

\* A slice puts no flag on the ground.
LEMMA SliceNeverDrops ==
  ASSUME ~m_ktf, NEW fs \in [Flags -> FlagRecords], NEW f \in Flags, fs[f].state # "DROPPED", NEW g \in Flags,
         NEW after \in SliceFlag(fs, g)
  PROVE  after[f].state # "DROPPED"
<1> DEFINE fs1 == DropExpired(fs, g)
<1>1. fs1 \in [Flags -> FlagRecords] /\ fs1[f].state # "DROPPED"
  BY LimitsAssumption DEF DropExpired, FlagAction, InBase, Fresh, FlagRecords, FlagStates
<1>2. after = fs1 \/ after = Touched(fs1, g) \/ \E c \in Clients : after = Taken(fs1, g, c)
  BY DEF SliceFlag, PaysNow, htf_forceflag
<1> HIDE DEF fs1
<1> QED  BY <1>1, <1>2 DEF Touched, Taken, Fresh

LEMMA FlagTimersLieStill ==
  ASSUME IInv, NEW f \in Flags, flag[f].state = "DROPPED", FlagTimers, flag'[f].state = "DROPPED"
  PROVE  flag'[f] = flag[f] /\ ~(flag[f].age > DropLimit[mode])
<1>0. PICK fs0 \in SliceFlag(flag, 0) : \E fs1 \in SliceFlag(fs0, 1), pick \in Flags :
        flag' = IF m_ktf /\ ~InGame(fs0, 0) /\ ~InGame(fs1, 1)
                THEN FlagAction(fs1, pick, "RESET", NoClient, FALSE) ELSE fs1
  BY DEF FlagTimers
<1>1. PICK fs1 \in SliceFlag(fs0, 1), pick \in Flags :
        flag' = IF m_ktf /\ ~InGame(fs0, 0) /\ ~InGame(fs1, 1)
                THEN FlagAction(fs1, pick, "RESET", NoClient, FALSE) ELSE fs1
  BY <1>0
<1>2. 0 \in Flags /\ 1 \in Flags /\ m_flags /\ f \in {0, 1}
  BY DEF Flags, FlagTimers
<1>3. ~m_ktf
  BY DEF IInv, FlagsOK, Shape, InGame, Flags, Other
<1>4. flag' = fs1 /\ FlagsOK(fs0)
  BY <1>1, <1>2, <1>3, SliceKeepsOrder DEF IInv
<1>5. TypeOK /\ Newcomers /\ FlagsOK(flag) /\ fs0 \in [Flags -> FlagRecords] /\ fs1[f].state = "DROPPED"
  BY <1>4 DEF IInv, FlagsOK
<1>6. fs0[f].state = "DROPPED"
  <2>1. CASE fs0[f].state # "DROPPED"
    <3>1. fs1[f].state # "DROPPED"
      BY <1>2, <1>3, <1>5, <2>1, SliceNeverDrops
    <3> QED  BY <1>5, <3>1
  <2> QED  BY <2>1
<1>7. fs0[f] = flag[f] /\ (f = 0 => ~(flag[f].age > DropLimit[mode]))
  BY <1>2, <1>5, <1>6, SliceLiesStill
<1>8. fs1[f] = fs0[f] /\ (f = 1 => ~(fs0[f].age > DropLimit[mode]))
  BY <1>2, <1>4, <1>5, <1>6, SliceLiesStill
<1> QED  BY <1>2, <1>4, <1>7, <1>8

\* A message: only the action that flagaction does not know touches a flag on the ground and leaves it there.
LEMMA MessagesLieStill ==
  ASSUME IInv, NEW f \in Flags, flag[f].state = "DROPPED", flag'[f].state = "DROPPED", NEW c \in Clients, Message(c)
  PROVE  LiesStill(f)
<1>1. ASSUME NEW t, SwitchTeam(c, t) PROVE flag'[f] = flag[f]
  BY <1>1, TeamsLieStill DEF SwitchTeam
<1>2. CASE SpawnRequest(c)
  <2>1. flag' = sdropflag(flag, c) \/ flag' = flag
    BY <1>2 DEF SpawnRequest
  <2> QED  BY <2>1, SeparationsLieStill DEF IInv, LiesStill
<1>3. CASE WrongMap(c) \/ ReceiveMap(c)
  BY <1>3, SeparationsLieStill DEF IInv, WrongMap, ReceiveMap, LiesStill
<1>4. ASSUME NEW g \in Flags, NEW action \in SentActions, NEW near \in BOOLEAN, FlagMessage(c, g, action, near)
      PROVE  LiesStill(f)
  <2>1. flag' = FlagAction(flag, g, action, c, near)
    BY <1>4 DEF FlagMessage
  <2>2. flag'[f] = flag[f] \/ (f = g /\ action \notin Known)
    BY <2>1, ActionsLieStill DEF IInv
  <2>3. action \notin Known => action = "NUM"
    BY MessagesAssumption DEF SentActions, Known
  <2> QED  BY <1>4, <2>2, <2>3 DEF LiesStill
<1>5. ASSUME NEW m, StartSilently(c, m) PROVE FALSE
  BY <1>5 DEF StartSilently, ResetFlags
<1> QED  BY <1>1, <1>2, <1>3, <1>4, <1>5 DEF Message, Spawn, Position, EditMode, LiesStill

\* A dropped flag lies where it is and its time is not set back - but by a message with FA_NUM, which
\* process() lets through - and a slice that finds it there for too long does not leave it there.
THEOREM DroppedFlagsLieStill ==
  Spec => [][\A f \in Flags : /\ LiesStill(f)
                              /\ FlagTimers /\ flag[f].state = "DROPPED" /\ flag[f].age > DropLimit[mode]
                                    => flag'[f].state # "DROPPED"]_vars
<1> DEFINE Step(f) == /\ LiesStill(f)
                      /\ FlagTimers /\ flag[f].state = "DROPPED" /\ flag[f].age > DropLimit[mode]
                            => flag'[f].state # "DROPPED"
<1>1. ASSUME IInv, Next, NEW f \in Flags PROVE Step(f)
  <2>1. FlagTimers /\ flag[f].state = "DROPPED" /\ flag[f].age > DropLimit[mode] => flag'[f].state # "DROPPED"
    BY <1>1, FlagTimersLieStill
  <2>2. SUFFICES ASSUME flag[f].state = "DROPPED", flag'[f].state = "DROPPED" PROVE LiesStill(f)
    BY <2>1 DEF LiesStill
  <2>3. ASSUME NEW c \in Clients, Welcome(c) PROVE flag'[f] = flag[f]
    BY <2>2, <2>3 DEF Welcome, ResetFlags
  <2>4. ASSUME NEW c \in Clients, NEW midpacket, Disconnect(c, midpacket) PROVE flag'[f] = flag[f]
    BY <1>1, <2>2, <2>4, SeparationsLieStill DEF Disconnect, IInv
  <2>5. ASSUME NEW c \in Clients, NEW t, NEW ftr, MoveClient(c, t, ftr) PROVE flag'[f] = flag[f]
    BY <1>1, <2>2, <2>5, TeamsLieStill DEF MoveClient
  <2>6. ASSUME NEW target \in Clients, NEW actor \in Clients, NEW punished \in BOOLEAN, Death(target, actor, punished)
        PROVE  flag'[f] = flag[f]
    BY <1>1, <2>2, <2>6, DeathLiesStill
  <2>7. CASE Tick
    BY <2>7 DEF Tick, LiesStill
  <2>8. CASE FlagTimers
    BY <1>1, <2>2, <2>8, FlagTimersLieStill DEF LiesStill
  <2>9. ASSUME NEW m, StartGame(m) PROVE FALSE
    BY <2>2, <2>9 DEF StartGame, ResetFlags
  <2>10. CASE ResetIfEmpty
    BY <2>2, <2>10 DEF ResetIfEmpty, ResetFlags
  <2> QED  BY <1>1, <2>2, <2>3, <2>4, <2>5, <2>6, <2>7, <2>8, <2>9, <2>10, MessagesLieStill
           DEF Next, Connect, Intermission, LiesStill
<1>2. IInv /\ [Next]_vars => [\A f \in Flags : Step(f)]_vars
  BY <1>1
<1> QED  BY <1>2, Invariant, PTL DEF Spec
=============================================================================
