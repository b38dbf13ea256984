------------------------------ MODULE Protocol ------------------------------
(***************************************************************************)
(* The small enumerations and macros of protocol.h, entity.h and server.h  *)
(* that every component of the server uses: teams and life states.             *)
(***************************************************************************)
EXTENDS Integers

\* TEAM_CLA .. TEAM_SPECT: bit 0 is the side, the rest says how far from play.
TEAM_CLA == 0
TEAM_RVSF == 1
TEAM_CLA_SPECT == 2
TEAM_RVSF_SPECT == 3
TEAM_SPECT == 4
TeamNums == 0..4

\* (t) & 1: the side a team belongs to. TEAM_SPECT counts as side 0.
team_base(t) == IF t \in {TEAM_RVSF, TEAM_RVSF_SPECT} THEN 1 ELSE 0

team_isactive(t) == t \in {TEAM_CLA, TEAM_RVSF}
team_isspect(t) == t \in {TEAM_CLA_SPECT, TEAM_RVSF_SPECT, TEAM_SPECT}

\* The other of two sides (or of two flags, which carry the number of a side).
Other(f) == 1 - f

\* The members of CS_* that the server ever assigns.
LifeStates == {"ALIVE", "DEAD", "EDITING", "SPECTATE"}
=============================================================================
