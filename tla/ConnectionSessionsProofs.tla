---------------------- MODULE ConnectionSessionsProofs ----------------------
(***************************************************************************)
(* Proofs about ConnectionSessions, for any users, workers and bounds.     *)
(*                                                                         *)
(* The owner and the duration need only that an absent row is empty.  The  *)
(* agreement of the event with the end instant also needs it of what every *)
(* open transaction is about to write, since a stale merge may overwrite   *)
(* the row; it holds of the extension's traffic, where recordSession does  *)
(* not write the row (Records = {}).                                       *)
(***************************************************************************)
EXTENDS SessionReports, FiniteSetTheorems, TLAPS

\* An absent row is empty, and a recordSession that has upserted has its row.
AbsentIsEmpty ==
  /\ ~row.exists => row = NoRow
  /\ \A w \in Records : record[w].at = "counters" => row.exists

WillMatch == \A w \in Uploads :
  upload[w].open => (upload[w].event = "end" <=> upload[w].end # NoTime)

UploadsIInv == /\ TypeOK /\ AbsentIsEmpty /\ WillMatch
               /\ EndEventMatchesEnd /\ DurationCoversSpan

USE ConstantsOK

LEMMA LargerNat == \A a, b \in Int : /\ Larger(a, b) \in Int
                                     /\ Larger(a, b) >= a /\ Larger(a, b) >= b
                                     /\ a \in Nat => Larger(a, b) \in Nat
                                     /\ Larger(a, b) \in {a, b}
  BY DEF Larger

LEMMA SpanNat == \A start, end \in Nat : Span(start, end) \in Nat /\ Span(start, end) >= end - start
  BY LargerNat DEF Span

LEMMA NoRowType == NoRow \in Rows
  BY DEF NoRow, Rows, EventTypes, Platforms

LEMMA NoCallType == NoUpload \in UploadCalls /\ NoRecord \in RecordCalls
  BY DEF NoUpload, UploadCalls, NoRecord, RecordCalls, EventTypes

LEMMA RowFields ==
  ASSUME row \in Rows
  PROVE  /\ row.start \in Nat /\ row.seen \in Nat /\ row.duration \in Nat
         /\ row.end \in Nat \cup {NoTime} /\ row.user \in Users \cup {NoUser}
         /\ row.event \in EventTypes /\ row.exists \in BOOLEAN
  BY DEF Rows

LEMMA TypeInit == Init => TypeOK /\ AbsentIsEmpty
<1> SUFFICES ASSUME Init PROVE TypeOK /\ AbsentIsEmpty
  OBVIOUS
<1>1. row \in Rows
  BY NoRowType DEF Init
<1>2. upload \in [Uploads -> UploadCalls]
  BY NoCallType DEF Init
<1>3. record \in [Records -> RecordCalls]
  BY NoCallType DEF Init
<1>4. QED
  BY <1>1, <1>2, <1>3 DEF Init, TypeOK, AbsentIsEmpty, NoRecord

LEMMA TypeUpload ==
  ASSUME TypeOK, AbsentIsEmpty, NEW w \in Uploads,
         UploadRead(w) \/ UploadWrite(w) \/ UploadAborts(w)
  PROVE  TypeOK' /\ AbsentIsEmpty'
<1>t. /\ row \in Rows /\ upload \in [Uploads -> UploadCalls]
      /\ record \in [Records -> RecordCalls]
  BY DEF TypeOK
<1>1. CASE UploadRead(w)
  <2>1. PICK u \in Users \ gone, start \in Starts, seen \in Instants,
             end \in Instants \cup {NoTime}, reason \in BOOLEAN :
          upload' = [upload EXCEPT ![w] =
            [open |-> TRUE, user |-> u, start |-> start, seen |-> MergedSeen(seen),
             end |-> MergedEnd(end), event |-> MergedEvent(end, reason)]]
    BY <1>1 DEF UploadRead
  <2>2. MergedSeen(seen) \in Nat
    <3>1. seen \in Nat /\ row.seen \in Nat
      BY <1>t DEF Rows, Instants
    <3>2. QED
      BY <3>1 DEF MergedSeen, Larger
  <2>3. MergedEnd(end) \in Nat \cup {NoTime}
    BY <1>t DEF MergedEnd, Rows, Instants
  <2>4. MergedEvent(end, reason) \in EventTypes
    BY <1>t DEF MergedEvent, EventTypes, Rows
  <2>5. start \in Nat
    BY DEF Instants
  <2>6. upload' \in [Uploads -> UploadCalls]
    BY <1>t, <2>1, <2>2, <2>3, <2>4, <2>5 DEF UploadCalls
  <2>7. QED
    BY <1>1, <2>6 DEF UploadRead, TypeOK, AbsentIsEmpty
<1>2. CASE UploadWrite(w)
  <2> DEFINE c == upload[w]
  <2>1. c \in UploadCalls
    BY <1>t
  <2>2. \A start \in Nat : DerivedDuration(c, start) \in Nat
    BY <2>1, SpanNat DEF DerivedDuration, UploadCalls
  <2>3. CreatedByUpload(c) \in Rows /\ CreatedByUpload(c).exists
    BY <2>1, <2>2 DEF CreatedByUpload, Rows, UploadCalls, Platforms
  <2>4. UpdatedByUpload(c) \in Rows /\ (row.exists => UpdatedByUpload(c).exists)
    <3>1. row.start \in Nat /\ row.duration \in Nat
      BY <1>t DEF Rows
    <3>2. Larger(row.duration, DerivedDuration(c, row.start)) \in Nat
      <4>1. DerivedDuration(c, row.start) \in Nat
        BY <3>1, <2>2
      <4>2. QED
        BY <3>1, <4>1 DEF Larger
    <3>3. c.seen \in Nat /\ c.end \in Nat \cup {NoTime} /\ c.event \in EventTypes
      BY <2>1 DEF UploadCalls
    <3>4. row.user \in Users \cup {NoUser}
      BY <1>t DEF Rows
    <3> DEFINE d == Larger(row.duration, DerivedDuration(c, row.start))
    <3>5. /\ Updated(c.seen, c.end, c.event, row.user, d) \in Rows
          /\ Updated(c.seen, c.end, c.event, row.user, d).exists = row.exists
      <4> HIDE DEF d, c
      <4>1. d \in Nat
        BY <3>2 DEF d
      <4>2. QED
        BY <1>t, <3>3, <3>4, <4>1 DEF Updated, Rows
    <3>6. QED
      BY <3>5 DEF UpdatedByUpload, OwnerAfterUpdate
  <2>5. row' \in Rows /\ row'.exists
    BY <1>2, <2>3, <2>4 DEF UploadWrite
  <2>6. upload' \in [Uploads -> UploadCalls]
    BY <1>2, <1>t, NoCallType DEF UploadWrite
  <2>7. QED
    BY <1>2, <2>5, <2>6 DEF UploadWrite, TypeOK, AbsentIsEmpty
<1>3. CASE UploadAborts(w)
  BY <1>3, <1>t, NoCallType DEF UploadAborts, TypeOK, AbsentIsEmpty
<1>4. QED
  BY <1>1, <1>2, <1>3

LEMMA TypeRecord ==
  ASSUME TypeOK, AbsentIsEmpty, NEW w \in Records,
         RecordBegin(w) \/ RecordUpsert(w) \/ RecordCounters(w) \/ RecordFails(w)
  PROVE  TypeOK' /\ AbsentIsEmpty'
<1>t. /\ row \in Rows /\ record \in [Records -> RecordCalls] /\ now \in Nat
      /\ record[w] \in RecordCalls
  BY DEF TypeOK
<1>1. CASE RecordBegin(w)
  <2>1. PICK u \in Users \ gone, type \in SentTypes, start \in Starts,
             duration \in Instants, sent \in Instants \cup {NoTime} :
          record' = [record EXCEPT ![w] =
            [at |-> "upsert", user |-> u, event |-> StoredEvent(type), start |-> start,
             end |-> IF sent = NoTime /\ type = "END" THEN now ELSE sent,
             duration |-> duration]]
    BY <1>1 DEF RecordBegin
  <2>2. StoredEvent(type) \in EventTypes
    BY DEF StoredEvent, EventTypes
  <2>3. (IF sent = NoTime /\ type = "END" THEN now ELSE sent) \in Nat \cup {NoTime}
    BY <1>t DEF Instants
  <2>4. start \in Nat /\ duration \in Nat
    BY DEF Instants
  <2>5. record' \in [Records -> RecordCalls]
    BY <1>t, <2>1, <2>2, <2>3, <2>4 DEF RecordCalls
  <2>6. QED
    BY <1>1, <2>5 DEF RecordBegin, TypeOK, AbsentIsEmpty
<1>2. CASE RecordUpsert(w)
  <2> DEFINE c == record[w]
  <2>1. CreatedByRecord(c) \in Rows /\ CreatedByRecord(c).exists
    BY <1>t DEF CreatedByRecord, Rows, RecordCalls, Platforms
  <2>2. UpdatedByRecord(c) \in Rows /\ (row.exists => UpdatedByRecord(c).exists)
    <3> DEFINE e == IF c.event = "end" THEN c.end ELSE row.end
    <3>1. /\ e \in Nat \cup {NoTime} /\ c.event \in EventTypes
          /\ row.user \in Users \cup {NoUser} /\ row.duration \in Nat
      BY <1>t DEF Rows, RecordCalls
    <3>2. /\ Updated(now, e, c.event, row.user, row.duration) \in Rows
          /\ Updated(now, e, c.event, row.user, row.duration).exists = row.exists
      <4> HIDE DEF e, c
      <4>1. QED
        BY <1>t, <3>1 DEF Updated, Rows
    <3>3. QED
      BY <3>2 DEF UpdatedByRecord
  <2>3. row' \in Rows /\ row'.exists
    BY <1>2, <2>1, <2>2 DEF RecordUpsert
  <2>4. record' \in [Records -> RecordCalls]
    BY <1>2, <1>t DEF RecordUpsert, RecordCalls
  <2>5. QED
    BY <1>2, <2>3, <2>4 DEF RecordUpsert, TypeOK, AbsentIsEmpty
<1>3. CASE RecordCounters(w)
  <2> DEFINE c == record[w]
             u == CoalescedUser(c)
             d == GreatestDuration(c)
  <2>1. u \in Users \cup {NoUser}
    BY <1>t DEF CoalescedUser, Rows, RecordCalls
  <2>2. d \in Nat
    <3>1. row.duration \in Nat /\ c.duration \in Nat
      BY <1>t DEF Rows, RecordCalls
    <3>2. QED
      BY <3>1 DEF GreatestDuration, Larger
  <2>3. /\ Updated(row.seen, row.end, row.event, u, d) \in Rows
        /\ Updated(row.seen, row.end, row.event, u, d).exists = row.exists
    <3>1. row.seen \in Nat /\ row.end \in Nat \cup {NoTime} /\ row.event \in EventTypes
      BY <1>t DEF Rows
    <3> HIDE DEF u, d
    <3>2. QED
      BY <1>t, <2>1, <2>2, <3>1 DEF Updated, Rows
  <2>4. row' = Updated(row.seen, row.end, row.event, u, d)
    BY <1>3 DEF RecordCounters
  <2>5. record' \in [Records -> RecordCalls]
    BY <1>3, <1>t, NoCallType DEF RecordCounters
  <2>6. row.exists
    BY <1>3 DEF RecordCounters, AbsentIsEmpty
  <2>7. QED
    BY <1>3, <2>3, <2>4, <2>5, <2>6 DEF RecordCounters, TypeOK, AbsentIsEmpty
<1>4. CASE RecordFails(w)
  <2>1. record' \in [Records -> RecordCalls]
    BY <1>4, <1>t, NoCallType DEF RecordFails
  <2>2. \A v \in Records : record'[v].at = "counters" => record[v].at = "counters"
    BY <1>4, <1>t DEF RecordFails, NoRecord
  <2>3. QED
    BY <1>4, <2>1, <2>2 DEF RecordFails, TypeOK, AbsentIsEmpty
<1>5. QED
  BY <1>1, <1>2, <1>3, <1>4

LEMMA TypeCloseStale ==
  ASSUME TypeOK, AbsentIsEmpty, CloseStale
  PROVE  TypeOK' /\ AbsentIsEmpty'
<1>1. row \in Rows /\ row.exists
  BY DEF TypeOK, CloseStale, IsStale, OpenExtensionRow
<1> DEFINE d == Larger(row.duration, row.seen - row.start)
<1>2. /\ row.seen \in Nat /\ row.start \in Nat /\ row.duration \in Nat
      /\ row.user \in Users \cup {NoUser} /\ "end" \in EventTypes
  BY <1>1 DEF Rows, EventTypes
<1>3. d \in Nat
  BY <1>2 DEF Larger
<1>4. row' = Updated(row.seen, row.seen, "end", row.user, d)
  BY DEF CloseStale
<1>5. row' \in Rows /\ row'.exists
  <2> HIDE DEF d
  <2>1. QED
    BY <1>1, <1>2, <1>3, <1>4 DEF Updated, Rows
<1>6. QED
  BY <1>5 DEF CloseStale, TypeOK, AbsentIsEmpty

LEMMA TypeDeleteUser ==
  ASSUME TypeOK, AbsentIsEmpty, NEW u \in Users, DeleteUser(u)
  PROVE  TypeOK' /\ AbsentIsEmpty'
<1>1. row \in Rows
  BY DEF TypeOK
<1>2. CASE row.user = u
  <2>1. row.exists
    BY <1>2, ConstantsOK DEF AbsentIsEmpty, NoRow
  <2>2. row' = Updated(row.seen, row.end, row.event, NoUser, row.duration)
    BY <1>2 DEF DeleteUser
  <2>3. row' \in Rows /\ row'.exists
    BY <1>1, <2>1, <2>2 DEF Updated, Rows
  <2>4. QED
    BY <2>3 DEF DeleteUser, TypeOK, AbsentIsEmpty
<1>3. CASE row.user # u
  BY <1>3 DEF DeleteUser, TypeOK, AbsentIsEmpty
<1>4. QED
  BY <1>2, <1>3

LEMMA TypeStep == TypeOK /\ AbsentIsEmpty /\ [Next]_vars => TypeOK' /\ AbsentIsEmpty'
<1> SUFFICES ASSUME TypeOK, AbsentIsEmpty, [Next]_vars PROVE TypeOK' /\ AbsentIsEmpty'
  OBVIOUS
<1>1. ASSUME NEW w \in Uploads, UploadRead(w) \/ UploadWrite(w) \/ UploadAborts(w)
      PROVE  TypeOK' /\ AbsentIsEmpty'
  BY <1>1, TypeUpload
<1>2. ASSUME NEW w \in Records,
             RecordBegin(w) \/ RecordUpsert(w) \/ RecordCounters(w) \/ RecordFails(w)
      PROVE  TypeOK' /\ AbsentIsEmpty'
  BY <1>2, TypeRecord
<1>3. CASE CloseStale
  BY <1>3, TypeCloseStale
<1>4. ASSUME NEW u \in Users, DeleteUser(u) PROVE TypeOK' /\ AbsentIsEmpty'
  BY <1>4, TypeDeleteUser
<1>5. CASE ClientsStop
  BY <1>5 DEF ClientsStop, TypeOK, AbsentIsEmpty
<1>6. CASE Tick
  <2>1. now' \in Nat
    BY <1>6 DEF Tick, TypeOK
  <2>2. QED
    BY <1>6, <2>1 DEF Tick, TypeOK, AbsentIsEmpty
<1>7. CASE UNCHANGED vars
  BY <1>7 DEF vars, TypeOK, AbsentIsEmpty
<1>8. QED
  BY <1>1, <1>2, <1>3, <1>4, <1>5, <1>6, <1>7 DEF Next

LEMMA TypeInvariant == Spec => [](TypeOK /\ AbsentIsEmpty)
BY TypeInit, TypeStep, PTL DEF Spec

\* Every column of the row, and every call in flight, keeps its type: the
\* event column never holds a string the enum does not have.
THEOREM TypeCorrect == Spec => []TypeOK
BY TypeInvariant, PTL

-----------------------------------------------------------------------------
(* The duration and the owner, whatever uploads, records, deletions and    *)
(* cron runs interleave                                                    *)

LEMMA UpdatedFields ==
  ASSUME row \in Rows
  PROVE  \A seen, end, event, user, duration :
           /\ Updated(seen, end, event, user, duration).exists = row.exists
           /\ Updated(seen, end, event, user, duration).start = row.start
           /\ Updated(seen, end, event, user, duration).seen = seen
           /\ Updated(seen, end, event, user, duration).end = end
           /\ Updated(seen, end, event, user, duration).event = event
           /\ Updated(seen, end, event, user, duration).user = user
           /\ Updated(seen, end, event, user, duration).duration = duration
  BY DEF Rows, Updated

LEMMA DerivedIsNat ==
  ASSUME TypeOK, NEW w \in Uploads, NEW start \in Nat
  PROVE  DerivedDuration(upload[w], start) \in Nat
<1>1. upload[w].end \in Nat \cup {NoTime}
  BY DEF TypeOK, UploadCalls
<1>2. QED
  BY <1>1, SpanNat DEF DerivedDuration

LEMMA DurationStep ==
  TypeOK /\ AbsentIsEmpty /\ [Next]_vars => row'.duration >= row.duration
<1> SUFFICES ASSUME TypeOK, AbsentIsEmpty, [Next]_vars
             PROVE  row'.duration >= row.duration
  OBVIOUS
<1>t. row \in Rows /\ record \in [Records -> RecordCalls]
  BY DEF TypeOK
<1>n. row.duration \in Nat /\ row.seen \in Nat /\ row.start \in Nat
  BY <1>t, RowFields
<1>1. ASSUME NEW w \in Uploads, UploadWrite(w) PROVE row'.duration >= row.duration
  <2> DEFINE c == upload[w]
  <2>1. CASE row.exists
    <3> DEFINE d == Larger(row.duration, DerivedDuration(c, row.start))
    <3>1. row'.duration = d
      <4>1. row' = Updated(c.seen, c.end, c.event, row.user, d)
        BY <1>1, <2>1 DEF UploadWrite, UpdatedByUpload, OwnerAfterUpdate
      <4> HIDE DEF c, d
      <4>2. QED
        BY <1>t, <4>1, UpdatedFields
    <3>2. DerivedDuration(c, row.start) \in Nat
      BY <1>n, DerivedIsNat
    <3>3. QED
      BY <1>n, <3>1, <3>2 DEF Larger
  <2>2. CASE ~row.exists
    <3>1. c.start \in Nat
      BY DEF TypeOK, UploadCalls
    <3>2. row'.duration = DerivedDuration(c, c.start) /\ row.duration = 0
      BY <1>1, <2>2 DEF UploadWrite, CreatedByUpload, AbsentIsEmpty, NoRow
    <3>3. QED
      BY <3>1, <3>2, DerivedIsNat
  <2>3. QED
    BY <2>1, <2>2
<1>2. ASSUME NEW w \in Records, RecordUpsert(w) PROVE row'.duration >= row.duration
  <2>1. CASE row.exists
    <3> DEFINE e == IF record[w].event = "end" THEN record[w].end ELSE row.end
    <3>1. row' = Updated(now, e, record[w].event, row.user, row.duration)
      BY <1>2, <2>1 DEF RecordUpsert, UpdatedByRecord
    <3> HIDE DEF e
    <3>2. QED
      BY <1>t, <1>n, <3>1, UpdatedFields
  <2>2. CASE ~row.exists
    <3>1. row'.duration = record[w].duration /\ row.duration = 0
      BY <1>2, <2>2 DEF RecordUpsert, CreatedByRecord, AbsentIsEmpty, NoRow
    <3>2. record[w].duration \in Nat
      BY <1>t DEF RecordCalls
    <3>3. QED
      BY <3>1, <3>2
  <2>3. QED
    BY <2>1, <2>2
<1>3. ASSUME NEW w \in Records, RecordCounters(w) PROVE row'.duration >= row.duration
  <2>1. row'.duration = Larger(row.duration, record[w].duration)
    BY <1>3, <1>t, UpdatedFields DEF RecordCounters, GreatestDuration
  <2>2. record[w].duration \in Nat
    BY <1>t DEF RecordCalls
  <2>3. QED
    BY <1>n, <2>1, <2>2 DEF Larger
<1>4. CASE CloseStale
  <2>1. row'.duration = Larger(row.duration, row.seen - row.start)
    BY <1>4, <1>t, UpdatedFields DEF CloseStale
  <2>2. QED
    BY <1>n, <2>1 DEF Larger
<1>5. ASSUME NEW u \in Users, DeleteUser(u) PROVE row'.duration >= row.duration
  BY <1>5, <1>t, <1>n, UpdatedFields DEF DeleteUser
<1>6. ASSUME row' = row PROVE row'.duration >= row.duration
  BY <1>6, <1>n
<1>7. QED
  BY <1>1, <1>2, <1>3, <1>4, <1>5, <1>6
  DEF Next, vars, UploadRead, UploadAborts, RecordBegin, RecordFails, ClientsStop, Tick

\* No step of any of the three writers lowers the stored duration.
THEOREM DurationNeverRegressesHolds == Spec => DurationNeverRegresses
BY TypeInvariant, DurationStep, PTL DEF Spec, DurationNeverRegresses

OwnerKept == row.user # NoUser => row'.user = row.user \/ row.user \in gone'

LEMMA OwnerStep == TypeOK /\ AbsentIsEmpty /\ [Next]_vars => OwnerKept
<1> SUFFICES ASSUME TypeOK, AbsentIsEmpty, [Next]_vars, row.user # NoUser
             PROVE  row'.user = row.user \/ row.user \in gone'
  BY DEF OwnerKept
<1>t. row \in Rows /\ row.exists
  BY DEF TypeOK, AbsentIsEmpty, NoRow
<1>1. ASSUME NEW w \in Uploads, UploadWrite(w) PROVE row'.user = row.user
  <2> DEFINE c == upload[w]
             d == Larger(row.duration, DerivedDuration(c, row.start))
  <2>1. row' = Updated(c.seen, c.end, c.event, row.user, d)
    BY <1>1, <1>t DEF UploadWrite, UpdatedByUpload, OwnerAfterUpdate
  <2> HIDE DEF c, d
  <2>2. QED
    BY <1>t, <2>1 DEF Updated, Rows
<1>2. ASSUME NEW w \in Records, RecordUpsert(w) PROVE row'.user = row.user
  <2> DEFINE e == IF record[w].event = "end" THEN record[w].end ELSE row.end
  <2>1. row' = Updated(now, e, record[w].event, row.user, row.duration)
    BY <1>2, <1>t DEF RecordUpsert, UpdatedByRecord
  <2> HIDE DEF e
  <2>2. QED
    BY <1>t, <2>1 DEF Updated, Rows
<1>3. ASSUME NEW w \in Records, RecordCounters(w) PROVE row'.user = row.user
  BY <1>3, <1>t DEF RecordCounters, CoalescedUser, Updated, Rows
<1>4. CASE CloseStale
  BY <1>4, <1>t DEF CloseStale, Updated, Rows
<1>5. ASSUME NEW u \in Users, DeleteUser(u)
      PROVE  row'.user = row.user \/ row.user \in gone'
  BY <1>5 DEF DeleteUser
<1>6. QED
  BY <1>1, <1>2, <1>3, <1>4, <1>5
  DEF Next, vars, UploadRead, UploadAborts, RecordBegin, RecordFails, ClientsStop, Tick

\* A row with an owner never passes to another user: a stale upload of user B
\* that raced user A's creation writes into A's row, but leaves it to A.
THEOREM OwnerIsKeptHolds == Spec => OwnerIsKept
BY TypeInvariant, OwnerStep, PTL DEF Spec, OwnerIsKept, OwnerKept

-----------------------------------------------------------------------------
(* The extension's traffic: uploads and the cron job                       *)

LEMMA UploadsInit == Init => UploadsIInv
<1> SUFFICES ASSUME Init PROVE UploadsIInv
  OBVIOUS
<1>1. WillMatch
  BY DEF Init, WillMatch, NoUpload
<1>2. EndEventMatchesEnd /\ DurationCoversSpan
  BY DEF Init, NoRow, EndEventMatchesEnd, DurationCoversSpan
<1>3. QED
  BY <1>1, <1>2, TypeInit DEF UploadsIInv

\* The merge of a stale read still agrees with itself: a stored end makes the
\* merged event "end", and no end makes it anything else.
LEMMA MergeAgrees ==
  ASSUME UploadsIInv, NEW end \in Instants \cup {NoTime}, NEW reason \in BOOLEAN
  PROVE  MergedEvent(end, reason) = "end" <=> MergedEnd(end) # NoTime
BY DEF UploadsIInv, MergedEvent, MergedEnd, EndEventMatchesEnd, AbsentIsEmpty, NoRow

\* The three conjuncts that a step on the extension's traffic must keep.
RowAgrees == EndEventMatchesEnd /\ DurationCoversSpan

LEMMA UploadStep ==
  ASSUME UploadsIInv, NEW w \in Uploads,
         UploadRead(w) \/ UploadWrite(w) \/ UploadAborts(w)
  PROVE  WillMatch' /\ RowAgrees'
<1>t. /\ TypeOK /\ row \in Rows /\ upload \in [Uploads -> UploadCalls]
      /\ WillMatch /\ RowAgrees
  BY DEF UploadsIInv, TypeOK, RowAgrees
<1>1. CASE UploadRead(w)
  <2>1. PICK u \in Users \ gone, start \in Starts, seen \in Instants,
             end \in Instants \cup {NoTime}, reason \in BOOLEAN :
          upload' = [upload EXCEPT ![w] =
            [open |-> TRUE, user |-> u, start |-> start, seen |-> MergedSeen(seen),
             end |-> MergedEnd(end), event |-> MergedEvent(end, reason)]]
    BY <1>1 DEF UploadRead
  <2>2. MergedEvent(end, reason) = "end" <=> MergedEnd(end) # NoTime
    BY MergeAgrees
  <2>3. WillMatch'
    BY <1>t, <2>1, <2>2 DEF WillMatch
  <2>4. QED
    BY <1>1, <1>t, <2>3 DEF UploadRead, RowAgrees, EndEventMatchesEnd, DurationCoversSpan
<1>2. CASE UploadWrite(w)
  <2> DEFINE c == upload[w]
             d == Larger(row.duration, DerivedDuration(c, row.start))
  <2>1. WillMatch' /\ (c.event = "end" <=> c.end # NoTime)
    BY <1>2, <1>t DEF UploadWrite, WillMatch, NoUpload
  <2>2. c.end \in Nat \cup {NoTime} /\ c.start \in Nat
    BY <1>t DEF UploadCalls
  <2>3. \A start \in Nat : c.end # NoTime => DerivedDuration(c, start) >= c.end - start
    BY <2>2, SpanNat DEF DerivedDuration
  <2>4. CASE row.exists
    <3>1. row.duration \in Nat /\ row.start \in Nat
      BY <1>t, RowFields
    <3>2. DerivedDuration(c, row.start) \in Nat
      BY <1>t, <3>1, DerivedIsNat
    <3>3. c.end # NoTime => d >= c.end - row.start
      BY <2>2, <2>3, <3>1, <3>2 DEF Larger
    <3>4. row' = Updated(c.seen, c.end, c.event, row.user, d)
      BY <1>2, <2>4 DEF UploadWrite, UpdatedByUpload, OwnerAfterUpdate
    <3>5. /\ row'.end = c.end /\ row'.event = c.event
          /\ row'.start = row.start /\ row'.duration = d
      <4> HIDE DEF c, d
      <4>1. QED
        BY <1>t, <3>4 DEF Updated, Rows
    <3>6. QED
      BY <2>1, <3>3, <3>5 DEF RowAgrees, EndEventMatchesEnd, DurationCoversSpan
  <2>5. CASE ~row.exists
    <3>1. /\ row'.end = c.end /\ row'.event = c.event /\ row'.start = c.start
          /\ row'.duration = DerivedDuration(c, c.start)
      BY <1>2, <2>5 DEF UploadWrite, CreatedByUpload
    <3>2. QED
      BY <2>1, <2>2, <2>3, <3>1 DEF RowAgrees, EndEventMatchesEnd, DurationCoversSpan
  <2>6. QED
    BY <2>1, <2>4, <2>5
<1>3. CASE UploadAborts(w)
  BY <1>3, <1>t
  DEF UploadAborts, NoUpload, WillMatch, RowAgrees, EndEventMatchesEnd, DurationCoversSpan
<1>4. QED
  BY <1>1, <1>2, <1>3

LEMMA UploadsStep ==
  Records = {} /\ UploadsIInv /\ [Next]_vars => UploadsIInv'
<1> SUFFICES ASSUME Records = {}, UploadsIInv, [Next]_vars PROVE UploadsIInv'
  OBVIOUS
<1>t. row \in Rows /\ WillMatch /\ RowAgrees /\ TypeOK' /\ AbsentIsEmpty'
  BY TypeStep DEF UploadsIInv, TypeOK, RowAgrees
<1>s. SUFFICES WillMatch' /\ RowAgrees'
  BY <1>t DEF UploadsIInv, RowAgrees
<1>1. ASSUME NEW w \in Uploads, UploadRead(w) \/ UploadWrite(w) \/ UploadAborts(w)
      PROVE  WillMatch' /\ RowAgrees'
  BY <1>1, UploadStep
<1>2. CASE CloseStale
  <2> DEFINE d == Larger(row.duration, row.seen - row.start)
  <2>1. row.duration \in Nat /\ row.seen \in Nat /\ row.start \in Nat
    BY <1>t, RowFields
  <2>2. d >= row.seen - row.start
    BY <2>1 DEF Larger
  <2>3. row' = Updated(row.seen, row.seen, "end", row.user, d)
    BY <1>2 DEF CloseStale
  <2>4. /\ row'.end = row.seen /\ row'.event = "end"
        /\ row'.start = row.start /\ row'.duration = d
    <3> HIDE DEF d
    <3>1. QED
      BY <1>t, <2>3 DEF Updated, Rows
  <2>5. RowAgrees'
    BY <2>1, <2>2, <2>4 DEF RowAgrees, EndEventMatchesEnd, DurationCoversSpan
  <2>6. QED
    BY <1>2, <1>t, <2>5 DEF CloseStale, WillMatch
<1>3. ASSUME NEW u \in Users, DeleteUser(u) PROVE WillMatch' /\ RowAgrees'
  <2>1. /\ row'.end = row.end /\ row'.event = row.event
        /\ row'.start = row.start /\ row'.duration = row.duration
    BY <1>3, <1>t DEF DeleteUser, Updated, Rows
  <2>2. QED
    BY <1>3, <1>t, <2>1
    DEF DeleteUser, WillMatch, RowAgrees, EndEventMatchesEnd, DurationCoversSpan
<1>4. ASSUME UNCHANGED <<row, upload>> PROVE WillMatch' /\ RowAgrees'
  BY <1>4, <1>t DEF WillMatch, RowAgrees, EndEventMatchesEnd, DurationCoversSpan
<1>5. QED
  BY <1>1, <1>2, <1>3, <1>4 DEF Next, vars, ClientsStop, Tick

\* On the extension's traffic a session says it ended exactly when it has an
\* end instant, however many stale merges overlap.
THEOREM EndEventMatchesEndHolds ==
  ASSUME Records = {} PROVE Spec => []EndEventMatchesEnd
<1>1. UploadsIInv => EndEventMatchesEnd
  BY DEF UploadsIInv
<1>2. UploadsIInv /\ [Next]_vars => UploadsIInv'
  BY UploadsStep
<1>3. QED
  BY <1>1, <1>2, UploadsInit, PTL DEF Spec

\* On the extension's traffic the stored duration of a closed session covers
\* the span from its start to its end.
THEOREM DurationCoversSpanHolds ==
  ASSUME Records = {} PROVE Spec => []DurationCoversSpan
<1>1. UploadsIInv => DurationCoversSpan
  BY DEF UploadsIInv
<1>2. UploadsIInv /\ [Next]_vars => UploadsIInv'
  BY UploadsStep
<1>3. QED
  BY <1>1, <1>2, UploadsInit, PTL DEF Spec

-----------------------------------------------------------------------------
(* The reports                                                             *)

\* Half a unit rounded is half a unit floored, or one more.
LEMMA RoundedIsFlooredOrMore ==
  ASSUME NEW d \in Nat, NEW n \in Int, NEW half \in Halves
  PROVE  /\ Larger(d, (2 * n + half + 1) \div 2) - Larger(d, Larger(0, (2 * n + half) \div 2))
              \in Halves
         /\ d >= n => Larger(d, Larger(0, (2 * n + half) \div 2)) = d
<1>1. half \in {0, 1}
  BY DEF Halves
<1>2. (2 * n + half) \div 2 = n
  BY <1>1, SMT
<1>3. (2 * n + half + 1) \div 2 = n + half
  BY <1>1, SMT
<1>4. QED
  BY <1>1, <1>2, <1>3 DEF Larger, Halves

\* getConnectionStats and getConnectionSessions agree on every session of the
\* extension's traffic, up to the rounding of half a second, and on the stored
\* duration of a closed one.
THEOREM ReportsAgreeHolds ==
  ASSUME Records = {} PROVE Spec => []ReportsAgree
<1>1. UploadsIInv => ReportsAgree
  <2> SUFFICES ASSUME UploadsIInv, NEW u \in Users, NEW half \in Halves
               PROVE  /\ Stats(u, half).sessions = Cardinality(Listed(u, half))
                      /\ \A d \in Listed(u, half) :
                           /\ Stats(u, half).total - d \in Halves
                           /\ Stats(u, half).platforms[row.platform] = Stats(u, half).max
                           /\ row.end # NoTime => d = row.duration
    BY DEF ReportsAgree
  <2>1. row.start \in Nat /\ row.seen \in Nat /\ row.duration \in Nat
        /\ row.end \in Nat \cup {NoTime}
    BY RowFields DEF UploadsIInv, TypeOK
  <2>2. PICK n \in Int : n = StatsLast - row.start
    BY <2>1 DEF StatsLast
  <2>3. HalfSeconds(StatsLast, half) = 2 * n + half /\ ListedLast = StatsLast
    BY <2>2 DEF HalfSeconds, StatsLast, ListedLast
  <2>4. row.end # NoTime => row.duration >= n
    BY <2>1, <2>2 DEF StatsLast, UploadsIInv, DurationCoversSpan
  <2>5. /\ EffectiveDuration(half) - ListedDuration(half) \in Halves
        /\ row.end # NoTime => ListedDuration(half) = row.duration
    BY <2>1, <2>2, <2>3, <2>4, RoundedIsFlooredOrMore DEF EffectiveDuration, ListedDuration
  <2>6. CASE row.exists /\ row.user = u
    <3>1. Listed(u, half) = {ListedDuration(half)}
      BY <2>6 DEF Listed
    <3>2. /\ Stats(u, half).sessions = 1
          /\ Stats(u, half).total = EffectiveDuration(half)
          /\ Stats(u, half).platforms[row.platform] = Stats(u, half).max
      BY <2>6 DEF Stats
    <3>3. QED
      BY <2>5, <3>1, <3>2, FS_Singleton
  <2>7. CASE ~(row.exists /\ row.user = u)
    BY <2>7, FS_EmptySet DEF Listed, Stats
  <2>8. QED
    BY <2>6, <2>7
<1>2. UploadsIInv /\ [Next]_vars => UploadsIInv'
  BY UploadsStep
<1>3. QED
  BY <1>1, <1>2, UploadsInit, PTL DEF Spec
=============================================================================
