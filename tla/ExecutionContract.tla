--------------------------- MODULE ExecutionContract ------------------------
(***************************************************************************)
(* What Accelerator::execute promises the program that calls it, whatever  *)
(* happens in between: calls are taken one at a time, each is answered at  *)
(* most once and in order, with one bit string for every function it was   *)
(* given, or the process ends.                                             *)
(***************************************************************************)
EXTENDS Sequences

CONSTANT Batches   \* the non-empty sequences of functions a caller may pass

VARIABLES
  phase,     \* "idle", "running" or "ended"
  request,   \* the functions of the execute() in progress
  answered   \* per finished execute(): its functions, number of bit strings

contractVars == <<phase, request, answered>>

Init ==
  /\ phase = "idle"
  /\ request = <<>>
  /\ answered = <<>>

Submit ==
  /\ phase = "idle"
  /\ phase' = "running"
  /\ request' \in Batches
  /\ UNCHANGED answered

Answer ==
  /\ phase = "running"
  /\ phase' = "idle"
  /\ request' = <<>>
  /\ answered' = Append(answered, [functions |-> request, strings |-> Len(request)])

EndProcess ==
  /\ phase # "ended"
  /\ phase' = "ended"
  /\ UNCHANGED <<request, answered>>

Next == Submit \/ Answer \/ EndProcess

Spec == Init /\ [][Next]_contractVars
=============================================================================
