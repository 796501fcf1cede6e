---------------------------- MODULE RequestReply ----------------------------
(***********************************************************************************)
(* What messaging.Sender promises its callers (sender.go, the comment on           *)
(* the interface): every Send ends at most once, with an answer or with a          *)
(* failure; it puts its CCR on the wire at most once; and the answer it            *)
(* returns is one the OCS gave to that very request.                               *)
(***********************************************************************************)
CONSTANT Sends

VARIABLES
  written,  \* requests put on the wire
  replied,  \* requests the OCS has answered
  result    \* what each Send returned

vars == <<written, replied, result>>

Init ==
  /\ written = {}
  /\ replied = {}
  /\ result = [q \in Sends |-> "none"]

Write(q) ==
  /\ result[q] = "none" /\ q \notin written
  /\ written' = written \cup {q}
  /\ UNCHANGED <<replied, result>>

Reply(q) ==
  /\ q \in written
  /\ replied' = replied \cup {q}
  /\ UNCHANGED <<written, result>>

Answer(q) ==
  /\ result[q] = "none" /\ q \in replied
  /\ result' = [result EXCEPT ![q] = "answer"]
  /\ UNCHANGED <<written, replied>>

Fail(q) ==
  /\ result[q] = "none"
  /\ result' = [result EXCEPT ![q] = "failed"]
  /\ UNCHANGED <<written, replied>>

Next == \E q \in Sends : Write(q) \/ Reply(q) \/ Answer(q) \/ Fail(q)

Spec == Init /\ [][Next]_vars
=============================================================================
