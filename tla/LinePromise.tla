----------------------------- MODULE LinePromise -----------------------------
(***************************************************************************)
(* What the notifier promises to the sketch, without headers, pieces and   *)
(* sockets: calls are made one after the other; the message of a call      *)
(* reaches the server at most once, and only while the call is on; a call  *)
(* that is refused has sent nothing and never will have; and success is    *)
(* reported for an accepted message, unless the answer to an earlier call  *)
(* was still to come when this one connected.  Of a message that is too    *)
(* long only the first part is sent.                                       *)
(***************************************************************************)
EXTENDS Integers, Sequences

CONSTANT Long  \* the calls whose messages are too long

VARIABLES
  stage,     \* idle, connecting, talking to the server, or crashed
  call,      \* the number of the current or last call
  clean,     \* this call connected, and nothing was owed to an earlier one
  pending,   \* the calls whose messages the server has still to judge
  owed,      \* verdicts are on their way
  accepted,  \* the calls whose messages the server accepted
  result     \* what the calls so far returned

vars == <<stage, call, clean, pending, owed, accepted, result>>

Init ==
  /\ stage = "idle" /\ call = 0 /\ clean = TRUE
  /\ pending = {} /\ owed = FALSE /\ accepted = {}
  /\ result = <<>>

Return(status) ==
  /\ result' = Append(result, status)
  /\ stage' = "idle"

Begin ==
  /\ stage = "idle"
  /\ call' = call + 1
  /\ stage' = "connecting"
  /\ UNCHANGED <<clean, pending, owed, accepted, result>>

\* A call without anything to send says what it likes, or crashes.
SendNothing ==
  /\ stage = "idle"
  /\ call' = call + 1
  /\ clean' = FALSE
  /\ \/ \E status \in {"SentCompleted", "SentFailed", "ConnectionFailed", "Refused"} : Return(status)
     \/ stage' = "crashed" /\ UNCHANGED result
  /\ UNCHANGED <<pending, owed, accepted>>

\* What the server has not judged is forgotten with the old connection.
NewConnection == clean' = TRUE /\ pending' = {} /\ owed' = FALSE

Connect ==
  /\ stage = "connecting"
  /\ stage' = "talking"
  /\ \/ clean' = (pending = {} /\ ~owed) /\ UNCHANGED <<pending, owed>>
     \/ NewConnection
  /\ UNCHANGED <<call, accepted, result>>

FailToConnect ==
  /\ stage = "connecting"
  /\ NewConnection
  /\ Return("Refused")
  /\ UNCHANGED <<call, accepted>>

NotSent == call \notin pending \cup accepted

GiveUp ==
  /\ stage = "talking" /\ NotSent
  /\ Return("Refused")
  /\ UNCHANGED <<call, clean, pending, owed, accepted>>

SendMessage ==
  /\ stage = "talking" /\ NotSent
  /\ pending' = pending \cup {call}
  /\ UNCHANGED <<stage, call, clean, owed, accepted, result>>

Succeed ==
  /\ stage = "talking"
  /\ clean => call \in accepted
  /\ Return("SentCompleted")
  /\ UNCHANGED <<call, clean, pending, owed, accepted>>

FailToSend ==
  /\ stage = "talking"
  /\ Return("SentFailed")
  /\ UNCHANGED <<call, clean, pending, owed, accepted>>

Crash ==
  /\ stage = "talking"
  /\ stage' = "crashed"
  /\ UNCHANGED <<call, clean, pending, owed, accepted, result>>

\* The server judges each message once ...
Judge ==
  /\ \E c \in pending \ (accepted \cup Long) :
       /\ pending' = pending \ {c}
       /\ accepted' \in {accepted, accepted \cup {c}}
  /\ owed' = TRUE
  /\ UNCHANGED <<stage, call, clean, result>>

\* ... and one that is too long not before a later call; it may then take the
\* messages of later calls for its rest.
Misjudge ==
  /\ \E c \in (pending \ accepted) \cap Long :
       /\ c < call
       /\ pending' \in SUBSET (pending \ {c})
       /\ accepted' \in {accepted, accepted \cup {c}}
  /\ owed' = TRUE
  /\ UNCHANGED <<stage, call, clean, result>>

Deliver ==
  /\ owed' = FALSE
  /\ UNCHANGED <<stage, call, clean, pending, accepted, result>>

Lose ==
  /\ pending' = {} /\ owed' \in {owed, FALSE}
  /\ UNCHANGED <<stage, call, clean, accepted, result>>

Next ==
  \/ Begin \/ SendNothing \/ Connect \/ FailToConnect \/ GiveUp \/ SendMessage
  \/ Succeed \/ FailToSend \/ Crash \/ Judge \/ Misjudge \/ Deliver \/ Lose

Spec == Init /\ [][Next]_vars

=============================================================================
