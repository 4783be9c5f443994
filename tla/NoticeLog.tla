------------------------------- MODULE NoticeLog -------------------------------
(***************************************************************************)
(* What a Slack channel is promised about paid conversions and the starts  *)
(* of trials.  Nobody is telling a notice, or one is about to, or Slack    *)
(* has acknowledged it; that is final.  Every message comes from a telling *)
(* of its own.  One whose answer is lost may be followed by another, so a  *)
(* notice can reach the channel more than once: the log promises that      *)
(* there are no two tellings at a time, and none after an acknowledgement. *)
(***************************************************************************)
EXTENDS Naturals

CONSTANT Keys        \* purchases by their dedupe key, users with a trial

VARIABLES
  log,        \* where the telling of each of them stands
  messages    \* messages about each of them that reached the channel

logVars == <<log, messages>>

Init ==
  /\ log = [k \in Keys |-> "open"]
  /\ messages = [k \in Keys |-> 0]

Move(k, from, to) == log[k] = from /\ log' = [log EXCEPT ![k] = to]
Message(k) == messages' = [messages EXCEPT ![k] = @ + 1]
NoMessage  == UNCHANGED messages

Take(k)     == Move(k, "open", "taken") /\ NoMessage
GiveBack(k) == Move(k, "taken", "open") /\ NoMessage
Lose(k)     == Move(k, "taken", "open") /\ Message(k)
Tell(k)     == Move(k, "taken", "told") /\ Message(k)

Next == \E k \in Keys : Take(k) \/ GiveBack(k) \/ Lose(k) \/ Tell(k)

Spec == Init /\ [][Next]_logVars
=============================================================================
