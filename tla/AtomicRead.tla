----------------------------- MODULE AtomicRead -----------------------------
(***************************************************************************)
(* What a read command promises its client: one answer, which is either    *)
(* the complete set of matching rows or an error, and an error only after  *)
(* the context was cancelled or something failed.                          *)
(***************************************************************************)
EXTENDS Naturals

CONSTANTS MaxRows, Matching

VARIABLES total, cancelled, failed, result, reply

vars == <<total, cancelled, failed, result, reply>>

Init ==
  /\ total \in 0..MaxRows
  /\ cancelled = FALSE
  /\ failed = FALSE
  /\ result = {}
  /\ reply = "none"

Cancel ==
  /\ ~cancelled
  /\ cancelled' = TRUE
  /\ UNCHANGED <<total, failed, result, reply>>

Fail ==
  /\ failed' = TRUE
  /\ UNCHANGED <<total, cancelled, result, reply>>

AnswerRows ==
  /\ reply = "none"
  /\ reply' = "ok"
  /\ result' = (1..total) \cap Matching
  /\ UNCHANGED <<total, cancelled, failed>>

AnswerError ==
  /\ reply = "none"
  /\ failed' \in {failed, TRUE}
  /\ cancelled \/ failed'
  /\ reply' = "error"
  /\ UNCHANGED <<total, cancelled, result>>

Next == Cancel \/ Fail \/ AnswerRows \/ AnswerError

Spec == Init /\ [][Next]_vars
=============================================================================
