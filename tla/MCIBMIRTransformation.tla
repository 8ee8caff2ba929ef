----------------------- MODULE MCIBMIRTransformation ------------------------
(***************************************************************************)
(* Programs of two kernels, the second of which may call the first.        *)
(***************************************************************************)
EXTENDS IBMIRTransformation

MCGates == {"H", "X"}
MCQubits == 0..2
MCCouplers == {<<0, 1>>, <<1, 2>>}

X(q) == Enabled("X", <<q>>)
CNOT(a, b) == Enabled("CNOT", <<a, b>>)
Disabled(inst) == [inst EXCEPT !.enabled = FALSE]
FunctionOf(body) == [op |-> "Function", bits |-> <<>>, enabled |-> TRUE, body |-> body]

(* Two kernels of the given instructions; at `call` the second calls the   *)
(* first instead.                                                          *)
TwoKernels(first, second, call) ==
  LET m == Len(first) + 1
      body == [i \in DOMAIN second |-> IF i = call THEN m ELSE m + i]
  IN  [instructions |-> first \o <<FunctionOf([i \in DOMAIN first |-> i])>>
                          \o second \o <<FunctionOf(body)>>,
       kernels |-> <<m, m + Len(second) + 1>>]

Leaves == {X(1), CNOT(0, 1), CNOT(1, 0), CNOT(2, 1), Disabled(CNOT(1, 2))}
UpTo(n) == UNION {[1..i -> Leaves] : i \in 0..n}

(* A third gate of the second kernel shows what went wrong before it.      *)
AllPrograms ==
  {TwoKernels(first, second, call) : first \in UpTo(2), second \in UpTo(2), call \in 0..2}
    \union {TwoKernels(<<X(0)>>, second, call) : second \in [1..3 -> Leaves], call \in 0..3}

Calls == {TwoKernels(<<X(0), X(1)>>, <<X(2), CNOT(1, 0)>>, 1)}
=============================================================================
