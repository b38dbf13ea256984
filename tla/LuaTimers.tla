----------------------------- MODULE LuaTimers -----------------------------
(***************************************************************************)
(* The timers of Lua scripts (lua_tmr_library.cpp).  tmr_tick walks the    *)
(* array of timers once a slice and calls the handlers of those that are   *)
(* due.  A handler may create and remove timers, its own among them: while *)
(* the loop runs this is put on two lists, which are applied at its end.   *)
(* Timers are removed by their number, which scripts choose and may share. *)
(***************************************************************************)
EXTENDS Naturals, FiniteSets, SequencesExt

CONSTANTS
    TimerIds,    \* the numbers scripts give to timers
    Period,      \* [TimerIds -> milliseconds, in slices]
    MaxTimers,   \* bound: timers that exist or wait to be created
    MaxCalls     \* bound: removals that wait

ASSUME PeriodsAssumption == Period \in [TimerIds -> Nat \ {0}]
ASSUME TimerBoundsAssumption == MaxTimers \in Nat /\ MaxCalls \in Nat

VARIABLES
    timers,          \* the array; left is endpoint - servmillis, or 0 when that is past
    timersToCreate,  \* what handlers have created, the latest first
    timersToRemove,  \* numbers to remove, the latest first
    running,         \* the index of the timer whose handler runs, 0 outside the loop
    fired,           \* history: the timers that fired in this tick, in order
    shared           \* history: two timers have had one number

timerVars == <<timers, timersToCreate, timersToRemove, running, fired, shared>>

\* key (not in the code) tells timers apart, whatever their numbers.
Keys == 1..MaxTimers
Timers == [key : Keys, id : TimerIds, once : BOOLEAN, left : Nat]

TimersTypeOK ==
    /\ timers \in Seq(Timers) /\ timersToCreate \in Seq(Timers)
    /\ timersToRemove \in Seq(TimerIds)
    /\ running \in 0..Len(timers)
    /\ fired \in Seq(Keys)
    /\ shared \in BOOLEAN

KeysIn(ts) == {ts[i].key : i \in DOMAIN ts}

Due(i) == i \in DOMAIN timers /\ timers[i].left = 0
NextDue(i) == {j \in DOMAIN timers : j > i /\ Due(j) /\ \A k \in i + 1..j - 1 : ~Due(k)}

\* The loop that removes all timers with a number: the last one takes the place of each - and is not
\* looked at there.
RemovedAt(ts, i, id) ==
    IF i <= Len(ts) /\ ts[i].id = id THEN Front([ts EXCEPT ![i] = Last(ts)]) ELSE ts

Without(id) == [ts \in Seq(Timers) |->
    LET removed[i \in 0..Len(ts)] == IF i = 0 THEN ts ELSE RemovedAt(removed[i - 1], i, id)
    IN removed[Len(ts)]]

\* One number after the other.
WithoutAll(ids, ts) ==
    LET rest[k \in 0..Len(ids)] == IF k = 0 THEN ts ELSE Without(ids[k])[rest[k - 1]]
    IN rest[Len(ids)]

Shares(t, ts) == \E i \in DOMAIN ts : ts[i].id = t.id

-----------------------------------------------------------------------------
TimersInit ==
    /\ timers = <<>> /\ timersToCreate = <<>> /\ timersToRemove = <<>>
    /\ running = 0 /\ fired = <<>> /\ shared = FALSE

\* servmillis goes on.
Elapse ==
    /\ running = 0
    /\ \E i \in DOMAIN timers : timers[i].left > 0
    /\ timers' = [i \in DOMAIN timers |->
                    [timers[i] EXCEPT !.left = IF @ > 0 THEN @ - 1 ELSE 0]]
    /\ UNCHANGED <<timersToCreate, timersToRemove, running, fired, shared>>

\* tmr_create and tmr_after, from a handler of a timer or from elsewhere.
tmr_create(id, once) ==
    /\ Len(timers) + Len(timersToCreate) < MaxTimers
    /\ LET key == CHOOSE k \in Keys : k \notin KeysIn(timers) \cup KeysIn(timersToCreate)
           t == [key |-> key, id |-> id, once |-> once, left |-> Period[id]]
       IN /\ shared' = (shared \/ Shares(t, timers) \/ Shares(t, timersToCreate))
             /\ IF running # 0
                THEN timersToCreate' = <<t>> \o timersToCreate /\ UNCHANGED timers
                ELSE timers' = Append(timers, t) /\ UNCHANGED timersToCreate
    /\ UNCHANGED <<timersToRemove, running, fired>>

tmr_remove_Bug(id) ==
    /\ timers' = Without(id)[timers]
    /\ UNCHANGED <<timersToCreate, timersToRemove, running, fired, shared>>
\* tmr_remove.
tmr_remove(id) ==
    /\ IF running # 0
       THEN /\ Len(timersToRemove) < MaxCalls
            /\ timersToRemove' = <<id>> \o timersToRemove /\ UNCHANGED timers
       ELSE timers' = Without(id)[timers] /\ UNCHANGED timersToRemove
    /\ UNCHANGED <<timersToCreate, running, fired, shared>>

\* tmr_tick, the loop: timer i is due, and its handler is called.
Fire_Bug(i) ==
    /\ timers' = [timers EXCEPT ![i].left = IF timers[i].once THEN 0 ELSE Period[timers[i].id]]
    /\ fired' = Append(fired, timers[i].key)
    /\ running' = i
    /\ UNCHANGED <<timersToCreate, timersToRemove, shared>>
Fire(i) ==
    /\ timers' = [timers EXCEPT ![i].left = IF timers[i].once THEN 0 ELSE Period[timers[i].id]]
    /\ timersToRemove' = IF timers[i].once THEN <<timers[i].id>> \o timersToRemove
                         ELSE timersToRemove
    /\ fired' = Append(fired, timers[i].key)
    /\ running' = i
    /\ UNCHANGED <<timersToCreate, shared>>

BeginTick == running = 0 /\ \E i \in NextDue(0) : Fire(i)
NextTimer == running # 0 /\ \E i \in NextDue(running) : Fire(i)

\* tmr_tick, after the loop: first the removals, then the creations.
Applied_Bug(ts, remove, create) == WithoutAll(remove, ts \o create)
Applied(ts, remove, create) == WithoutAll(remove, ts) \o create
EndTick ==
    /\ running # 0 /\ NextDue(running) = {}
    /\ timers' = Applied(timers, timersToRemove, timersToCreate)
    /\ timersToRemove' = <<>> /\ timersToCreate' = <<>>
    /\ running' = 0 /\ fired' = <<>>
    /\ UNCHANGED shared

\* tmr_free, with a reload of the scripts.
Reload ==
    /\ running = 0
    /\ timers' = <<>> /\ shared' = FALSE
    /\ UNCHANGED <<timersToCreate, timersToRemove, running, fired>>

TimersNext ==
    \/ Elapse \/ BeginTick \/ NextTimer \/ EndTick \/ Reload
    \/ \E id \in TimerIds : tmr_remove(id) \/ \E once \in BOOLEAN : tmr_create(id, once)

TimersSpec == TimersInit /\ [][TimersNext]_timerVars

\* Time passes and slices follow each other; handlers return.
TimersFairness ==
    WF_timerVars(Elapse) /\ WF_timerVars(BeginTick) /\ WF_timerVars(NextTimer \/ EndTick)

-----------------------------------------------------------------------------
(* Properties.                                                             *)

\* Whatever handlers create and remove, a tick fires every timer that was due at its beginning, those
\* that were removed by the handlers before them included, and none twice.  What they changed takes effect
\* when the tick is over: timers they created are there, also if one with its number was removed in
\* the same tick, which is how scripts restart a timer; and as long as no two timers have had one
\* number, a timer that was removed, or fired once, is gone.
TickIsWhole ==
    [][EndTick =>
         /\ IsInjective(fired)
         /\ \A i \in DOMAIN timers : timers[i].left = 0 => timers[i].key \in ToSet(fired)
         /\ KeysIn(timersToCreate) \subseteq KeysIn(timers')
         /\ ~shared => \A i \in DOMAIN timers : timers[i].id \in ToSet(timersToRemove) =>
               timers[i].key \notin KeysIn(timers')]_timerVars

\* A timer that is to fire once leaves the array in the end, though the removal by number may take away
\* another one in its place.
OnceEnds ==
    \A key \in Keys : []<>~\E i \in DOMAIN timers : timers[i].key = key /\ timers[i].once
=============================================================================
