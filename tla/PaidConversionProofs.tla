------------------------- MODULE PaidConversionProofs -------------------------
(***************************************************************************)
(* Proofs about PaidConversion, for any workers and any purchases: its     *)
(* notices implement NoticeLog.                                            *)
(***************************************************************************)
EXTENDS PaidConversion, TLAPS

\* The inductive invariant.
NoticeInv == ConversionConstants /\ NoticeTypeOK /\ HolderOwnsKey

Notices == [at : {"idle", "check", "send", "release"}, key : Keys \cup {None}]

LEMMA InvHoldsInitially == ConversionConstants /\ NoticeInit => NoticeInv
  <1>1. SUFFICES ASSUME ConversionConstants, NoticeInit PROVE NoticeInv  OBVIOUS
  <1>2. NoticeTypeOK  BY <1>1 DEF NoticeInit, NoticeTypeOK, Quiet
  <1>3. HolderOwnsKey
    BY <1>1 DEF ConversionConstants, NoticeInit, HolderOwnsKey, IdleHasNoKey,
                KeyIsClaimed, KeyIsAlone, ToldIsKept, Quiet
  <1>4. QED  BY <1>1, <1>2, <1>3 DEF NoticeInv

\* A worker that holds a key holds one of the keys.
LEMMA HolderHasKey ==
  ASSUME NoticeInv, NEW w \in Workers, notice[w].at # "idle"
  PROVE  /\ notice[w] \in Notices /\ notice[w].key \in Keys
         /\ notice[w].key \in claimed \ told
  BY DEF NoticeInv, NoticeTypeOK, Notices, HolderOwnsKey, IdleHasNoKey, KeyIsClaimed

LEMMA AcquireKeepsInv ==
  ASSUME NoticeInv, NEW w \in Workers, NEW k \in Keys, NEW first \in {"check", "send"},
         Acquire(w, k, first)
  PROVE  NoticeInv'
  <1>1. CASE k \in claimed
    BY <1>1 DEF Acquire, Acquirable, NoticeInv, NoticeTypeOK, HolderOwnsKey, IdleHasNoKey,
                KeyIsClaimed, KeyIsAlone, ToldIsKept
  <1>2. CASE k \notin claimed
    <2> DEFINE x == [at |-> first, key |-> k]
    <2>1. /\ claimed' = claimed \cup {k} /\ told' = told /\ posted' = posted
          /\ notice' = [notice EXCEPT ![w] = x]
      BY <1>2 DEF Acquire, Acquirable
    <2>2. x \in Notices /\ x.at = first /\ x.key = k  BY DEF Notices
    <2>3. notice \in [Workers -> Notices]  BY DEF NoticeInv, NoticeTypeOK, Notices
    <2>4. NoticeTypeOK'
      BY <2>1, <2>2, <2>3 DEF NoticeInv, NoticeTypeOK, Notices
    <2>5. \A v \in Workers : notice'[v] = IF v = w THEN x ELSE notice[v]
      BY <2>1, <2>3
    <2>6. \A v \in Workers : notice[v].key # k
      BY <1>2 DEF ConversionConstants, NoticeInv, HolderOwnsKey, KeyIsClaimed
    <2>7. k \notin told  BY <1>2 DEF NoticeInv, HolderOwnsKey, ToldIsKept
    <2> HIDE DEF x
    <2>8. IdleHasNoKey'
      BY <2>2, <2>5 DEF ConversionConstants, NoticeInv, HolderOwnsKey, IdleHasNoKey
    <2>9. KeyIsClaimed'
      BY <2>1, <2>2, <2>5, <2>7 DEF NoticeInv, HolderOwnsKey, KeyIsClaimed
    <2>10. KeyIsAlone'
      BY <2>2, <2>5, <2>6 DEF NoticeInv, HolderOwnsKey, KeyIsAlone
    <2>11. ToldIsKept'  BY <2>1 DEF NoticeInv, HolderOwnsKey, ToldIsKept
    <2>12. QED  BY <2>4, <2>8, <2>9, <2>10, <2>11 DEF NoticeInv, HolderOwnsKey
  <1>3. QED  BY <1>1, <1>2

\* A worker goes on with the key it holds.
LEMMA GoOnKeepsInv ==
  ASSUME NoticeInv, NEW w \in Workers, notice[w].at # "idle",
         NEW to \in {"check", "send", "release"}, NoticeGoto(w, to),
         UNCHANGED <<claimed, told>>, posted' \in [Keys -> Nat]
  PROVE  NoticeInv'
  <1>1. notice \in [Workers -> Notices]  BY DEF NoticeInv, NoticeTypeOK, Notices
  <1>2. \A v \in Workers : /\ notice'[v].key = notice[v].key
                           /\ notice'[v].at = IF v = w THEN to ELSE notice[v].at
    BY <1>1 DEF NoticeGoto, Notices
  <1>3. NoticeTypeOK'
    <2>1. notice' \in [Workers -> Notices]  BY <1>1 DEF NoticeGoto, Notices
    <2>2. QED  BY <2>1 DEF NoticeInv, NoticeTypeOK, Notices
  <1>4. IdleHasNoKey'  BY <1>2 DEF NoticeInv, HolderOwnsKey, IdleHasNoKey
  <1>5. KeyIsClaimed'  BY <1>2 DEF NoticeInv, HolderOwnsKey, KeyIsClaimed
  <1>6. KeyIsAlone'    BY <1>2 DEF NoticeInv, HolderOwnsKey, KeyIsAlone
  <1>7. ToldIsKept'    BY DEF NoticeInv, HolderOwnsKey, ToldIsKept
  <1>8. QED  BY <1>3, <1>4, <1>5, <1>6, <1>7 DEF NoticeInv, HolderOwnsKey

\* A worker lets go of its key: it leaves the row, or deletes it untold, or has
\* told it.
LEMMA EndKeepsInv ==
  ASSUME NoticeInv, NEW w \in Workers, notice[w].at # "idle", NoticeEnd(w),
         \/ UNCHANGED <<claimed, told>>
         \/ claimed' = claimed \ {notice[w].key} /\ UNCHANGED told
         \/ told' = told \cup {notice[w].key} /\ UNCHANGED claimed,
         posted' \in [Keys -> Nat]
  PROVE  NoticeInv'
  <1>1. notice \in [Workers -> Notices]  BY DEF NoticeInv, NoticeTypeOK, Notices
  <1>2. PICK k \in Keys : k = notice[w].key /\ k \in claimed \ told
    BY HolderHasKey
  <1>3. \A v \in Workers : notice'[v] = IF v = w THEN Quiet ELSE notice[v]
    BY <1>1 DEF NoticeEnd
  <1>4. Quiet.at = "idle" /\ Quiet.key = None /\ Quiet \in Notices  BY DEF Quiet, Notices
  <1>5. \A v \in Workers : v # w => notice[v].key # k
    BY <1>2 DEF ConversionConstants, NoticeInv, HolderOwnsKey, KeyIsAlone
  <1>6. told \in SUBSET Keys /\ claimed \in SUBSET Keys  BY DEF NoticeInv, NoticeTypeOK
  <1>7. \/ UNCHANGED <<claimed, told>>
        \/ claimed' = claimed \ {k} /\ UNCHANGED told
        \/ told' = told \cup {k} /\ UNCHANGED claimed
    BY <1>2
  <1>8. NoticeTypeOK'
    <2>1. notice' \in [Workers -> Notices]  BY <1>1, <1>4 DEF NoticeEnd
    <2>2. QED  BY <1>6, <1>7, <2>1 DEF NoticeTypeOK, Notices
  <1>9. IdleHasNoKey'  BY <1>3, <1>4 DEF NoticeInv, HolderOwnsKey, IdleHasNoKey
  <1>10. KeyIsClaimed'
    BY <1>3, <1>4, <1>5, <1>7 DEF NoticeInv, HolderOwnsKey, KeyIsClaimed
  <1>11. KeyIsAlone'  BY <1>3, <1>4 DEF NoticeInv, HolderOwnsKey, KeyIsAlone
  <1>12. ToldIsKept'
    BY <1>2, <1>7 DEF NoticeInv, HolderOwnsKey, ToldIsKept
  <1>13. QED  BY <1>8, <1>9, <1>10, <1>11, <1>12 DEF NoticeInv, HolderOwnsKey

\* One more message counts as a number.
LEMMA ReachedIsNat ==
  ASSUME NoticeInv, NEW k \in Keys, Reached(k)
  PROVE  posted' \in [Keys -> Nat]
  BY DEF NoticeInv, NoticeTypeOK, Reached

LEMMA StepKeepsInv == NoticeInv /\ [NoticeNext]_noticeVars => NoticeInv'
  <1> SUFFICES ASSUME NoticeInv, [NoticeNext]_noticeVars PROVE NoticeInv'  OBVIOUS
  <1>1. ASSUME NEW w \in Workers, NEW k \in Keys, NEW first \in {"check", "send"},
               Acquire(w, k, first)
        PROVE  NoticeInv'
    BY <1>1, AcquireKeepsInv
  <1>2. posted \in [Keys -> Nat]  BY DEF NoticeInv, NoticeTypeOK
  <1>3. ASSUME NEW w \in Workers, CheckTrial(w) PROVE NoticeInv'
    <2>1. PICK to \in {"send", "release"} : NoticeGoto(w, to)  BY <1>3 DEF CheckTrial
    <2>2. notice[w].at # "idle" /\ UNCHANGED <<claimed, told, posted>>  BY <1>3 DEF CheckTrial
    <2>3. QED  BY <1>2, <2>1, <2>2, GoOnKeepsInv
  <1>4. ASSUME NEW w \in Workers, Refused(w) PROVE NoticeInv'
    BY <1>2, <1>4, GoOnKeepsInv DEF Refused
  <1>5. ASSUME NEW w \in Workers, AnswerLost(w) PROVE NoticeInv'
    BY <1>5, HolderHasKey, ReachedIsNat, GoOnKeepsInv DEF AnswerLost
  <1>6. ASSUME NEW w \in Workers, Sent(w) PROVE NoticeInv'
    BY <1>6, HolderHasKey, ReachedIsNat, EndKeepsInv DEF Sent, AfterSend
  <1>7. ASSUME NEW w \in Workers, Release(w) \/ NoticeDies(w) PROVE NoticeInv'
    BY <1>2, <1>7, EndKeepsInv DEF Release, NoticeDies
  <1>8. CASE UNCHANGED noticeVars
    BY <1>8 DEF noticeVars, NoticeInv, NoticeTypeOK, HolderOwnsKey, IdleHasNoKey,
                KeyIsClaimed, KeyIsAlone, ToldIsKept
  <1>9. QED  BY <1>1, <1>3, <1>4, <1>5, <1>6, <1>7, <1>8 DEF NoticeNext, NoticeStep

\* The notices of the service keep their types.
THEOREM NoticeTypeCorrect == ConversionConstants /\ NoticeSpec => []NoticeTypeOK
  BY InvHoldsInitially, StepKeepsInv, PTL DEF NoticeSpec, NoticeInv

\* A worker that sends or gives back a notice owns its row, alone; what was
\* told keeps its row.
THEOREM HolderOwns == ConversionConstants /\ NoticeSpec => []HolderOwnsKey
  BY InvHoldsInitially, StepKeepsInv, PTL DEF NoticeSpec, NoticeInv

-----------------------------------------------------------------------------
(* The refinement: which step of the log each step of a worker is.         *)

Logged == <<[k \in Keys |-> LogEntry(k)], posted>>

\* The entry of one key moves; those of the others stay.
LEMMA MoveOfOne ==
  ASSUME NEW k \in Keys, NEW from, NEW to,
         LogEntry(k) = from, LogEntry(k)' = to,
         \A j \in Keys : j # k => LogEntry(j)' = LogEntry(j)
  PROVE  Log!Move(k, from, to)
  BY DEF Log!Move

LEMMA AcquireTakes ==
  ASSUME NoticeInv, NEW w \in Workers, NEW k \in Keys, NEW first \in {"check", "send"},
         Acquire(w, k, first)
  PROVE  Log!Take(k) \/ UNCHANGED Logged
  <1>1. CASE k \in claimed
    BY <1>1 DEF Acquire, Acquirable, Logged, LogEntry, Telling
  <1>2. CASE k \notin claimed
    <2>1. /\ claimed' = claimed \cup {k} /\ told' = told /\ posted' = posted
          /\ notice' = [notice EXCEPT ![w] = [at |-> first, key |-> k]]
      BY <1>2 DEF Acquire, Acquirable
    <2>2. notice \in [Workers -> Notices]  BY DEF NoticeInv, NoticeTypeOK, Notices
    <2>3. \A v \in Workers : notice'[v] = IF v = w THEN [at |-> first, key |-> k] ELSE notice[v]
      BY <2>1, <2>2
    <2>4. k \notin told /\ \A v \in Workers : notice[v].key # k
      BY <1>2 DEF ConversionConstants, NoticeInv, HolderOwnsKey, KeyIsClaimed, ToldIsKept
    <2>5. notice[w].at = "idle"  BY DEF Acquire
    <2>6. LogEntry(k) = "open" /\ LogEntry(k)' = "taken"
      BY <2>1, <2>3, <2>4 DEF LogEntry, Telling
    <2>7. \A j \in Keys : j # k => Telling(j)' = Telling(j)
      BY <2>3, <2>5 DEF Telling
    <2>8. \A j \in Keys : j # k => LogEntry(j)' = LogEntry(j)  BY <2>1, <2>7 DEF LogEntry
    <2>9. QED  BY <2>1, <2>6, <2>8, MoveOfOne DEF Log!Take, Log!NoMessage
  <1>3. QED  BY <1>1, <1>2

\* What a worker that may still send its notice, and then stops, makes of it.
LEMMA TellingEnds ==
  ASSUME NoticeInv, NEW w \in Workers, notice[w].at \in {"check", "send"},
         \/ NoticeGoto(w, "release") \/ NoticeEnd(w)
  PROVE  \E k \in Keys :
           /\ k = notice[w].key /\ k \notin told
           /\ Telling(k) /\ ~Telling(k)'
           /\ \A j \in Keys : j # k => Telling(j)' = Telling(j)
  <1>1. notice \in [Workers -> Notices]  BY DEF NoticeInv, NoticeTypeOK, Notices
  <1>2. PICK k \in Keys : k = notice[w].key /\ k \notin told  BY HolderHasKey
  <1>3. \A v \in Workers : v # w => notice'[v] = notice[v] /\ notice[v].key # k
    BY <1>1, <1>2 DEF NoticeGoto, NoticeEnd, ConversionConstants, NoticeInv, HolderOwnsKey,
                      KeyIsAlone
  <1>4. notice'[w].at \in {"release", "idle"}
    BY <1>1 DEF NoticeGoto, NoticeEnd, Quiet, Notices
  <1>5. Telling(k)  BY <1>2 DEF Telling
  <1>6. ~Telling(k)'  BY <1>3, <1>4 DEF Telling
  <1>7. \A j \in Keys : j # k => Telling(j)' = Telling(j)
    BY <1>2, <1>3, <1>4 DEF Telling
  <1>8. QED  BY <1>2, <1>5, <1>6, <1>7

LEMMA SentTells ==
  ASSUME NoticeInv, NEW w \in Workers, Sent(w)
  PROVE  \E k \in Keys : Log!Tell(k)
  <1>1. NoticeEnd(w) /\ notice[w].at = "send"  BY DEF Sent, AfterSend
  <1>2. PICK k \in Keys :
          /\ k = notice[w].key /\ k \notin told
          /\ Telling(k) /\ ~Telling(k)'
          /\ \A j \in Keys : j # k => Telling(j)' = Telling(j)
    BY <1>1, TellingEnds
  <1>3. told' = told \cup {k} /\ Log!Message(k)  BY <1>2 DEF Sent, Reached, Log!Message
  <1>4. LogEntry(k) = "taken" /\ LogEntry(k)' = "told"
    BY <1>2, <1>3 DEF LogEntry
  <1>5. \A j \in Keys : j # k => LogEntry(j)' = LogEntry(j)
    BY <1>2, <1>3 DEF LogEntry
  <1>6. QED  BY <1>3, <1>4, <1>5, MoveOfOne DEF Log!Tell

\* A worker stops untold: the notice is given back, or its message got through.
LEMMA StopOpens ==
  ASSUME NoticeInv, NEW w \in Workers, notice[w].at \in {"check", "send"},
         NoticeGoto(w, "release") \/ NoticeEnd(w), told' = told
  PROVE  \E k \in Keys : k = notice[w].key /\ Log!Move(k, "taken", "open")
  <1>1. PICK k \in Keys :
          /\ k = notice[w].key /\ k \notin told
          /\ Telling(k) /\ ~Telling(k)'
          /\ \A j \in Keys : j # k => Telling(j)' = Telling(j)
    BY TellingEnds
  <1>2. LogEntry(k) = "taken" /\ LogEntry(k)' = "open"  BY <1>1 DEF LogEntry
  <1>3. \A j \in Keys : j # k => LogEntry(j)' = LogEntry(j)  BY <1>1 DEF LogEntry
  <1>4. QED  BY <1>1, <1>2, <1>3, MoveOfOne

\* A worker that may no longer send its notice, or goes on to send it, leaves
\* the log alone.
LEMMA OthersStutter ==
  ASSUME NoticeInv, NEW w \in Workers, UNCHANGED <<told, posted>>,
         \/ notice[w].at = "release" /\ NoticeEnd(w)
         \/ notice[w].at = "check" /\ NoticeGoto(w, "send")
  PROVE  UNCHANGED Logged
  <1>1. notice \in [Workers -> Notices]  BY DEF NoticeInv, NoticeTypeOK, Notices
  <1>2. \A j \in Keys : Telling(j)' = Telling(j)
    BY <1>1 DEF NoticeEnd, NoticeGoto, Quiet, Telling, Notices
  <1>3. QED  BY <1>2 DEF Logged, LogEntry

LEMMA StepIsLogStep == NoticeInv /\ [NoticeNext]_noticeVars => [Log!Next]_Logged
  <1> SUFFICES ASSUME NoticeInv, [NoticeNext]_noticeVars
               PROVE  Log!Next \/ UNCHANGED Logged
    OBVIOUS
  <1>1. ASSUME NEW w \in Workers, NEW k \in Keys, NEW first \in {"check", "send"},
               Acquire(w, k, first)
        PROVE  Log!Next \/ UNCHANGED Logged
    BY <1>1, AcquireTakes DEF Log!Next
  <1>2. ASSUME NEW w \in Workers, CheckTrial(w)
        PROVE  Log!Next \/ UNCHANGED Logged
    <2>1. CASE NoticeGoto(w, "send")  BY <1>2, <2>1, OthersStutter DEF CheckTrial
    <2>2. CASE NoticeGoto(w, "release")
      BY <1>2, <2>2, StopOpens DEF CheckTrial, Log!Next, Log!GiveBack, Log!NoMessage
    <2>3. QED  BY <1>2, <2>1, <2>2 DEF CheckTrial
  <1>3. ASSUME NEW w \in Workers, Sent(w) PROVE Log!Next
    BY <1>3, SentTells DEF Log!Next
  <1>4. ASSUME NEW w \in Workers, Refused(w) PROVE Log!Next
    BY <1>4, StopOpens DEF Refused, Log!Next, Log!GiveBack, Log!NoMessage
  <1>5. ASSUME NEW w \in Workers, AnswerLost(w) PROVE Log!Next
    BY <1>5, StopOpens DEF AnswerLost, Reached, Log!Next, Log!Lose, Log!Message
  <1>6. ASSUME NEW w \in Workers, Release(w) PROVE UNCHANGED Logged
    BY <1>6, OthersStutter DEF Release
  <1>7. ASSUME NEW w \in Workers, NoticeDies(w) PROVE Log!Next \/ UNCHANGED Logged
    <2>1. CASE notice[w].at = "release"  BY <1>7, <2>1, OthersStutter DEF NoticeDies
    <2>2. CASE notice[w].at \in {"check", "send"}
      BY <1>7, <2>2, StopOpens DEF NoticeDies, Log!Next, Log!GiveBack, Log!NoMessage
    <2>3. QED  BY <1>7, <2>1, <2>2 DEF NoticeDies, NoticeInv, NoticeTypeOK
  <1>8. CASE UNCHANGED noticeVars
    BY <1>8 DEF noticeVars, Logged, LogEntry, Telling
  <1>9. QED
    BY <1>1, <1>2, <1>3, <1>4, <1>5, <1>6, <1>7, <1>8 DEF NoticeNext, NoticeStep

\* However the workers race, die, lose answers or repeat, no purchase has two
\* notices at a time, every message is of a notice of its own, and none follows
\* one that Slack has acknowledged.
THEOREM NoticesImplementLog == ConversionConstants /\ NoticeSpec => ImplementsLog
  <1>1. NoticeInit => Log!Init
    BY DEF NoticeInit, Log!Init, LogEntry, Telling, Quiet
  <1>2. [Log!Next]_Logged => [Log!Next]_Log!logVars
    BY DEF Logged, Log!logVars
  <1>3. QED
    BY <1>1, <1>2, InvHoldsInitially, StepKeepsInv, StepIsLogStep, PTL
    DEF NoticeSpec, ImplementsLog, Log!Spec
=============================================================================
