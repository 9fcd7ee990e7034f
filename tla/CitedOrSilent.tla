--------------------------- MODULE CitedOrSilent ---------------------------
(***************************************************************************)
(* "Cited or silent": what an agent may rely on when it asks for an        *)
(* answer.  The evidence is fixed before the generator is asked, contains  *)
(* nothing that must not be quoted, and is not changed afterwards; the     *)
(* generator is asked only about evidence that needs no human review, and  *)
(* an answer is given only by a generator that was asked.  ContextPack     *)
(* implements this module.                                                 *)
(***************************************************************************)
CONSTANT Chunks

VARIABLES
  quotable,  \* the chunks that may be quoted
  stage,     \* how far the request has got
  evidence,  \* the chunks handed out with the reply
  review     \* whether a human has to look at it

promise == <<quotable, stage, evidence, review>>

Init ==
  /\ quotable \in SUBSET Chunks
  /\ stage = "asked" /\ evidence = {} /\ review = FALSE

Move(from, to) == stage = from /\ stage' = to /\ UNCHANGED <<quotable, evidence, review>>

(* No evidence is a case for a human, too.                                 *)
Pack ==
  /\ stage = "asked" /\ stage' = "packed"
  /\ evidence' \in SUBSET quotable
  /\ review' \in BOOLEAN
  /\ evidence' = {} => review'
  /\ UNCHANGED quotable

Show   == Move("asked", "shown")
Ask    == ~review /\ Move("packed", "generating")
Refuse == review /\ Move("packed", "refused")
Answer == Move("generating", "answered")
Fail   == Move("asked", "failed") \/ Move("generating", "failed")

(* The generator says nothing: that is for a human, too.                   *)
Decline ==
  /\ stage = "generating" /\ stage' = "refused" /\ review' = TRUE
  /\ UNCHANGED <<quotable, evidence>>

Next == Show \/ Pack \/ Ask \/ Refuse \/ Decline \/ Answer \/ Fail

Spec == Init /\ [][Next]_promise
=============================================================================
