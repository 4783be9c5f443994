------------------------- MODULE ConnectionSessions -------------------------
(***************************************************************************)
(* One row of connection_sessions, identified by its clientSessionId, and  *)
(* the three things that write it:                                         *)
(*   - uploads: VpnSessionService.upsertSession, called by the extension   *)
(*     and by its retries.  It reads, merges and writes in one transaction *)
(*     at PostgreSQL's default isolation (READ COMMITTED), so the read     *)
(*     takes no lock; the write holds the row lock until the commit, so    *)
(*     write, duration update and commit are one step;                     *)
(*   - records: ConnectionService.recordSession, two independent           *)
(*     statements with no transaction;                                     *)
(*   - the cron job closeStaleOpenSessions, one statement.                 *)
(* Rows with different ids never interact.  Instants are natural numbers;  *)
(* the client's are whatever its clock says, the server's are `now`.       *)
(* Free text and telemetry columns, and termination_reason, which is       *)
(* written along with session_end, are left out.                           *)
(***************************************************************************)
EXTENDS Integers

CONSTANTS
  Users,
  Uploads,      \* workers carrying upsertSession calls
  Records,      \* workers carrying recordSession calls
  Starts,       \* the startAt values that clients send for this id
  MaxTime,      \* bound: the latest instant a client reports
  Stale,        \* VPN_SESSION_STALE_MINUTES, in clock units
  NoTime,       \* SQL NULL in a timestamp column
  NoUser        \* SQL NULL in user_id

ASSUME ConstantsOK ==
  /\ MaxTime \in Nat /\ Stale \in Nat \ {0} /\ Starts \subseteq 0..MaxTime
  /\ NoTime \notin Nat /\ NoUser \notin Users
  /\ Uploads \cap Records = {}

Horizon == MaxTime + Stale + 1   \* bound: where the model's clock stops

VARIABLES
  row,        \* the row, absent while row.exists is FALSE
  upload,     \* the transaction each upload worker has open
  record,     \* the call each record worker is in
  gone,       \* users whose account was deleted
  silent,     \* the clients have stopped sending
  now         \* the server's clock

vars == <<row, upload, record, gone, silent, now>>

Instants   == 0..MaxTime
EventTypes == {"start", "heartbeat", "end"}
SentTypes  == {"START", "HEARTBEAT", "END", "OTHER"}   \* dto.event_type, any string
Platforms  == {"ios_extension", "app"}

Rows == [exists : BOOLEAN, user : Users \cup {NoUser}, platform : Platforms,
         start : Nat, end : Nat \cup {NoTime}, seen : Nat, duration : Nat,
         event : EventTypes]

NoRow == [exists |-> FALSE, user |-> NoUser, platform |-> "ios_extension",
          start |-> 0, end |-> NoTime, seen |-> 0, duration |-> 0,
          event |-> "start"]

\* What an upload's transaction is about to write, merged from its dto and
\* the row it read.
UploadCalls == [open : BOOLEAN, user : Users \cup {NoUser}, start : Nat, seen : Nat,
                end : Nat \cup {NoTime}, event : EventTypes]
RecordCalls == [at : {"idle", "upsert", "counters"}, user : Users \cup {NoUser},
                event : EventTypes, start : Nat, end : Nat \cup {NoTime},
                duration : Nat]

NoUpload == [open |-> FALSE, user |-> NoUser, start |-> 0, seen |-> 0,
             end |-> NoTime, event |-> "start"]
NoRecord == [at |-> "idle", user |-> NoUser, event |-> "start", start |-> 0,
             end |-> NoTime, duration |-> 0]

TypeOK ==
  /\ row \in Rows
  /\ upload \in [Uploads -> UploadCalls]
  /\ record \in [Records -> RecordCalls]
  /\ gone \in SUBSET Users
  /\ silent \in BOOLEAN
  /\ now \in Nat

\* The id is new, or belongs to a row whose owner deleted the account.
Init ==
  /\ row = NoRow
  /\ upload = [w \in Uploads |-> NoUpload]
  /\ record = [w \in Records |-> NoRecord]
  /\ gone = {} /\ silent = FALSE /\ now = 0

Larger(a, b) == IF a >= b THEN a ELSE b
Span(start, end) == Larger(0, end - start)

\* The row with the columns an UPDATE may change.
Updated(seen, end, event, user, duration) ==
  [row EXCEPT !.seen = seen, !.end = end, !.event = event, !.user = user,
              !.duration = duration]

-----------------------------------------------------------------------------
(* VpnSessionService.upsertSession                                         *)

MergedSeen(seen) == IF row.exists THEN Larger(row.seen, seen) ELSE seen

\* Close once: an end already stored is not widened by a replay.
MergedEnd(end) == IF row.end # NoTime THEN row.end ELSE end

\* A reason without an end leaves the event of a closed row alone.
BugHeartbeatReopens(end, reason) == IF end # NoTime THEN "end" ELSE "heartbeat"
MergedEvent(end, reason) ==
  IF end # NoTime THEN "end"
  ELSE IF ~row.exists THEN "start"
  ELSE IF row.event = "end" \/ (reason /\ row.end # NoTime) THEN row.event
  ELSE "heartbeat"

\* Validate the dto, open the transaction, read the row and merge.  A row of
\* another user ends the call with a conflict.
UploadRead(w) ==
  /\ ~upload[w].open /\ ~silent
  /\ \E u \in Users \ gone, start \in Starts, seen \in Instants,
        end \in Instants \cup {NoTime}, reason \in BOOLEAN :
       /\ seen >= start
       /\ end # NoTime => end >= start
       /\ row.user \in {u, NoUser}
       /\ upload' = [upload EXCEPT ![w] =
            [open |-> TRUE, user |-> u, start |-> start, seen |-> MergedSeen(seen),
             end |-> MergedEnd(end), event |-> MergedEvent(end, reason)]]
  /\ UNCHANGED <<row, record, gone, silent, now>>

BugDurationFromSeen(c, start) == IF c.end = NoTime THEN 0 ELSE Span(c.seen, c.end)
DerivedDuration(c, start) == IF c.end = NoTime THEN 0 ELSE Span(start, c.end)

CreatedByUpload(c) ==
  [exists |-> TRUE, user |-> c.user, platform |-> "ios_extension", start |-> c.start,
   end |-> c.end, seen |-> c.seen, duration |-> DerivedDuration(c, c.start),
   event |-> c.event]

BugUpdateTakesOwner(c) == c.user
OwnerAfterUpdate(c) == row.user

UpdatedByUpload(c) ==
  Updated(c.seen, c.end, c.event, OwnerAfterUpdate(c),
          Larger(row.duration, DerivedDuration(c, row.start)))

\* INSERT ... ON CONFLICT DO UPDATE, the duration update, and the commit.
\* Inserting the row of a deleted user breaks the foreign key.
UploadWrite(w) ==
  LET c == upload[w] IN
    /\ c.open
    /\ row.exists \/ c.user \notin gone
    /\ row' = IF row.exists THEN UpdatedByUpload(c) ELSE CreatedByUpload(c)
    /\ upload' = [upload EXCEPT ![w] = NoUpload]
    /\ UNCHANGED <<record, gone, silent, now>>

\* The transaction fails or its process dies: rolled back.
UploadAborts(w) ==
  /\ upload[w].open
  /\ upload' = [upload EXCEPT ![w] = NoUpload]
  /\ UNCHANGED <<row, record, gone, silent, now>>

-----------------------------------------------------------------------------
(* ConnectionService.recordSession                                         *)

\* The event column is an enum; an unknown event_type counts as a heartbeat.
BugNoDefault(e) == CASE e = "START" -> "start" [] e = "END" -> "end" [] OTHER -> e
StoredEvent(e) ==
  CASE e = "START" -> "start" [] e = "END" -> "end" [] OTHER -> "heartbeat"

\* Compute the payload, then await the server location.  An END without a
\* session_end ends now.  The controller requires a signed-in user.
RecordBegin(w) ==
  /\ record[w].at = "idle" /\ ~silent
  /\ \E u \in Users \ gone, type \in SentTypes, start \in Starts,
        duration \in Instants, sent \in Instants \cup {NoTime} :
       record' = [record EXCEPT ![w] =
         [at |-> "upsert", user |-> u, event |-> StoredEvent(type), start |-> start,
          end |-> IF sent = NoTime /\ type = "END" THEN now ELSE sent,
          duration |-> duration]]
  /\ UNCHANGED <<row, upload, gone, silent, now>>

CreatedByRecord(c) ==
  [exists |-> TRUE, user |-> c.user, platform |-> "app", start |-> c.start,
   end |-> c.end, seen |-> now, duration |-> c.duration, event |-> c.event]

UpdatedByRecord(c) ==
  Updated(now, IF c.event = "end" THEN c.end ELSE row.end, c.event, row.user, row.duration)

RecordUpsert(w) ==
  LET c == record[w] IN
    /\ c.at = "upsert"
    /\ row.exists \/ c.user \notin gone
    /\ row' = IF row.exists THEN UpdatedByRecord(c) ELSE CreatedByRecord(c)
    /\ record' = [record EXCEPT ![w].at = "counters"]
    /\ UNCHANGED <<upload, gone, silent, now>>

BugLastDuration(c) == c.duration
GreatestDuration(c) == Larger(row.duration, c.duration)
CoalescedUser(c) == IF row.user = NoUser THEN c.user ELSE row.user

RecordCounters(w) ==
  LET c == record[w] IN
    /\ c.at = "counters"
    /\ CoalescedUser(c) \notin gone
    /\ row' = Updated(row.seen, row.end, row.event, CoalescedUser(c), GreatestDuration(c))
    /\ record' = [record EXCEPT ![w] = NoRecord]
    /\ UNCHANGED <<upload, gone, silent, now>>

\* Any statement fails: caught and answered success: false; what an earlier
\* statement wrote stays.
RecordFails(w) ==
  /\ record[w].at # "idle"
  /\ record' = [record EXCEPT ![w] = NoRecord]
  /\ UNCHANGED <<row, upload, gone, silent, now>>

-----------------------------------------------------------------------------
(* The cron job, account deletion, the clients and the clock               *)

OpenExtensionRow == row.exists /\ row.end = NoTime /\ row.platform = "ios_extension"
BugOnlyHeartbeats == OpenExtensionRow /\ row.event = "heartbeat" /\ row.seen < now - Stale
IsStale == OpenExtensionRow /\ row.seen < now - Stale

CloseStale ==
  /\ IsStale
  /\ row' = Updated(row.seen, row.seen, "end", row.user,
                    Larger(row.duration, row.seen - row.start))
  /\ UNCHANGED <<upload, record, gone, silent, now>>

\* ON DELETE SET NULL
DeleteUser(u) ==
  /\ u \notin gone
  /\ gone' = gone \cup {u}
  /\ row' = IF row.user = u
            THEN Updated(row.seen, row.end, row.event, NoUser, row.duration)
            ELSE row
  /\ UNCHANGED <<upload, record, silent, now>>

ClientsStop == ~silent /\ silent' = TRUE /\ UNCHANGED <<row, upload, record, gone, now>>

Tick == now < Horizon /\ now' = now + 1 /\ UNCHANGED <<row, upload, record, gone, silent>>

-----------------------------------------------------------------------------
Next ==
  \/ \E w \in Uploads : UploadRead(w) \/ UploadWrite(w) \/ UploadAborts(w)
  \/ \E w \in Records : \/ RecordBegin(w) \/ RecordUpsert(w)
                        \/ RecordCounters(w) \/ RecordFails(w)
  \/ CloseStale
  \/ \E u \in Users : DeleteUser(u)
  \/ ClientsStop
  \/ Tick

Spec == Init /\ [][Next]_vars

\* The cron job keeps running, time passes, and every transaction ends.
Fairness ==
  /\ WF_vars(CloseStale) /\ WF_vars(Tick)
  /\ \A w \in Uploads : WF_vars(UploadWrite(w) \/ UploadAborts(w))

FairSpec == Spec /\ Fairness

-----------------------------------------------------------------------------
(* Properties                                                              *)

\* A session says it ended exactly when it has an end instant, whatever
\* uploads overlap and whenever the cron job runs (uploads and cron only).
EndEventMatchesEnd == row.event = "end" <=> row.end # NoTime

\* The stored duration of a closed session covers its span: the analytics
\* duration is never shorter than end - start (uploads and cron only).
DurationCoversSpan ==
  row.end # NoTime => row.duration >= row.end - row.start

\* The counters never regress, although recordSession and upsertSession
\* interleave and events arrive out of order (connection.service.ts:169).
DurationNeverRegresses == [][row'.duration >= row.duration]_vars

\* A row with an owner keeps it: only deleting the account releases it.
OwnerIsKept ==
  [][row.user # NoUser => row'.user = row.user \/ row.user \in gone']_vars

\* vpn-session.service.ts:27 "lastSeenAt only moves forward (monotonic)".
LastSeenMovesForward == [][row'.seen >= row.seen]_vars

\* vpn-session.service.ts:28 "never cleared back to open".
EndNeverCleared == [][row.end # NoTime => row'.end # NoTime]_vars

\* A session whose client has gone silent is eventually closed for good,
\* even if an overlapping upload reopened it after the cron job closed it.
SilentSessionsClose ==
  <>[](silent /\ row.exists /\ row.platform = "ios_extension" => row.end # NoTime)

=============================================================================
