------------------------------ MODULE ParseTree -----------------------------
(***************************************************************************)
(* Contexts of the parse tree, compiler/generated/OQASM2Parser.cpp, what   *)
(* the listener's callbacks read of them, and the callbacks of a walk.     *)
(***************************************************************************)
EXTENDS OQASMToXACCListener, SequencesExt, FiniteSetsExt

(* What callbacks ask of a context *)

(* The elements of s at some places, in their order *)
ElementsAt(s, places) ==
    FlattenSeq([i \in DOMAIN s |-> IF i \in places THEN <<s[i]>> ELSE <<>>])

PlacesOf(context, rule) ==
    {i \in DOMAIN context.children : context.children[i].rule = rule}
ChildrenOf(context, rule) == ElementsAt(context.children, PlacesOf(context, rule))
FirstChild(context, rule) ==
    IF PlacesOf(context, rule) = {} THEN NoNode
    ELSE context.children[Min(PlacesOf(context, rule))]

IntOf(argument) ==
    LET int == FirstChild(argument, "INT") IN IF int = NoNode THEN NoNode ELSE int.text[1]

NameOf(context) == FirstChild(context, "id").text[1]

\* Variant: qubits and bits without an index are passed over.
IndexedOnly(context) ==
    LET arguments == ChildrenOf(context, "gatearg")
        ints == [i \in DOMAIN arguments |-> IntOf(arguments[i])]
    IN  SelectSeq(ints, LAMBDA int : int # NoNode)

IntsOf(context) ==
    LET arguments == ChildrenOf(context, "gatearg") IN
    [i \in DOMAIN arguments |-> IntOf(arguments[i])]

(* The texts of parameters or expressions *)
TextsIn(contexts) == [i \in DOMAIN contexts |-> contexts[i].text]

TextsOf(context) ==
    LET list == FirstChild(context, "explist") IN
    IF list = NoNode THEN NoNode ELSE TextsIn(ChildrenOf(list, "exp"))

(* for callbacks that read no name *)
AnyName == CHOOSE name \in Names : TRUE

Callback(on, name, ints, texts) ==
    <<[on |-> on, name |-> name, ints |-> ints, texts |-> texts]>>

(* enterRule and exitRule of the contexts whose callbacks are overridden; *)
(* OQASM2BaseListener's own do nothing.                                   *)
Entered(context) ==
    IF context.rule # "xacckernel" THEN <<>>
    ELSE LET typed == ChildrenOf(context, "typedparam") IN
         Callback("enterXacckernel", NameOf(context), <<>>,
            TextsIn([i \in DOMAIN typed |-> FirstChild(typed[i], "param")]))

Exited(context) ==
    CASE context.rule = "xacckernel" ->
            Callback("exitXacckernel", NameOf(context), <<>>, NoNode)
      [] context.rule = "kernelcall" ->
            Callback("exitKernelcall", NameOf(context), <<>>, NoNode)
      [] context.rule = "U" ->
            Callback("exitU", AnyName, IntsOf(context), TextsOf(context))
      [] context.rule = "CX" ->
            Callback("exitCX", AnyName, IntsOf(context), NoNode)
      [] context.rule = "UserDefGate" ->
            Callback("exitUserDefGate", NameOf(FirstChild(context, "gatename")),
                     IntsOf(FirstChild(context, "gatearglist")), TextsOf(context))
      [] context.rule = "measure" ->
            Callback("exitMeasure", AnyName, IntsOf(context), NoNode)
      [] OTHER -> <<>>

-----------------------------------------------------------------------------
Token(token) ==
    [rule |-> token.type, text |-> <<token.text>>, children |-> <<>>, walk |-> <<>>]

(* A context: its text is that of the tokens below it, its walk the callbacks *)
(* ParseTreeWalker::walk makes at it and below it.                            *)
Context(rule, children) ==
    LET context == [rule |-> rule, children |-> children] IN
    [rule |-> rule, children |-> children,
     text |-> FlattenSeq([i \in DOMAIN children |-> children[i].text]),
     walk |-> Entered(context) \o FlattenSeq([i \in DOMAIN children |-> children[i].walk])
                \o Exited(context)]
=============================================================================
