---------------------------- MODULE SessionReports ----------------------------
(***************************************************************************)
(* What users are told of their sessions, in the states of                 *)
(* ConnectionSessions: getConnectionStats aggregates in SQL, and           *)
(* getConnectionSessions computes the same durations in TypeScript.  Both  *)
(* stretch a stored duration to the last instant known of the session;     *)
(* SQL rounds that to whole seconds and TypeScript floors it.  Here one    *)
(* unit of time is a second, and `half` says whether the last instant lies *)
(* half a second after the one of the row.                                 *)
(***************************************************************************)
EXTENDS ConnectionSessions, FiniteSets

Halves == {0, 1}
HalfSeconds(last, half) == 2 * (last - row.start) + half

-----------------------------------------------------------------------------
(* getConnectionStats                                                      *)

\* COALESCE(session_end, heartbeat_timestamp, updated_at); every writer sets the
\* heartbeat.
BugHeartbeatFirst == row.seen
StatsLast == IF row.end # NoTime THEN row.end ELSE row.seen

\* EXTRACT(EPOCH FROM ...)::int rounds.
EffectiveDuration(half) ==
  Larger(row.duration, (HalfSeconds(StatsLast, half) + 1) \div 2)

\* Count, sum and maximum over the rows of a user, of which there is one at most,
\* and the same by platform.
Stats(u, half) ==
  LET mine == row.exists /\ row.user = u
      d    == IF mine THEN EffectiveDuration(half) ELSE 0
  IN  [sessions |-> IF mine THEN 1 ELSE 0, total |-> d, max |-> d,
       platforms |-> [p \in IF mine THEN {row.platform} ELSE {} |-> d]]

-----------------------------------------------------------------------------
(* getConnectionSessions                                                   *)

ListedLast == IF row.end # NoTime THEN row.end ELSE row.seen
ListedDuration(half) ==
  Larger(row.duration, Larger(0, HalfSeconds(ListedLast, half) \div 2))

\* The durations of a user's history.
Listed(u, half) == IF row.exists /\ row.user = u THEN {ListedDuration(half)} ELSE {}

-----------------------------------------------------------------------------
(* Properties                                                              *)

\* connection.service.ts:499 "Keep history consistent with stats": whatever
\* uploads, replays and the cron job left in the row, the history lists what the
\* statistics count, each duration the same but for the rounding of half a
\* second, and a closed session with the duration that is stored, so that
\* later heartbeats do not change it.
ReportsAgree ==
  \A u \in Users, half \in Halves :
    /\ Stats(u, half).sessions = Cardinality(Listed(u, half))
    /\ \A d \in Listed(u, half) :
         /\ Stats(u, half).total - d \in Halves
         /\ Stats(u, half).platforms[row.platform] = Stats(u, half).max
         /\ row.end # NoTime => d = row.duration
=============================================================================
