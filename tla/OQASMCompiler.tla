--------------------------- MODULE OQASMCompiler ---------------------------
(***************************************************************************)
(* OQASMCompiler::compile: the parser over a text, then the listener over  *)
(* the tree.  What was parsed and what is made of it stay apart until the  *)
(* tree is complete, so a text with a syntax error makes no kernel.        *)
(***************************************************************************)
EXTENDS OQASM2Parser

CONSTANTS Texts     \* OpenQASM sources, as tokens with the characters between them

compilerVars == <<stream, input, stack, tree, status, walk, kernels, functions, curFunc, ir>>

(* OQASM2Lexer skips white space.  A character no token begins with is reported *)
(* by the lexer's own error listener, which compile leaves in place, and        *)
(* skipped too.                                                                 *)
Skipped == {"WS", "unknown"}
Tokens(text) == ElementsAt(text, {i \in DOMAIN text : text[i].type \notin Skipped})

(* Literals, identifiers and integers are those of the vocabulary *)
ASSUME SourcesAssumption ==
    /\ Names # {}
    /\ Texts \subseteq Seq([type : TokenTypes \cup Skipped, text : Words])
    /\ \A text \in Texts : \A i \in DOMAIN text :
        /\ text[i].type = "ID" => text[i].text \in Names
        /\ text[i].type = "INT" => text[i].text \in Numerals

-----------------------------------------------------------------------------
Parse == status = "ready" /\ ParserNext /\ UNCHANGED listenerVars

\* Variant: ANTLR recovers, and the tree keeps the kernels before the error.
Recovered ==
    /\ Unexpected /\ status = "ready"
    /\ stack' = <<>>
    /\ tree' = Context("xaccsrc", stack[1].children)
    /\ UNCHANGED <<stream, input, listenerVars>>

(* OQASMErrorListener::syntaxError *)
RefuseSource == syntaxError /\ NoTree

WalkTree ==
    /\ status = "ready" /\ stack = <<>>
    /\ status' = "walking"
    /\ walk' = tree.walk
    /\ UNCHANGED <<kernels, functions, curFunc, ir, parserVars>>

TakeCallback == (Listen \/ Return) /\ UNCHANGED parserVars

Init == ListenerInit /\ \E text \in Texts : ParserInit(Tokens(text))

Next == Parse \/ RefuseSource \/ WalkTree \/ TakeCallback

Spec == Init /\ [][Next]_compilerVars

(* compile is one call on one thread: it goes on as long as it can *)
FairSpec == Spec /\ WF_compilerVars(Next)

-----------------------------------------------------------------------------
(* Kernels are made only of a source that was read through: every token of it is *)
(* in the tree, in its place, but for a rest that does not begin a kernel, which *)
(* xaccsrc leaves unread without an error (xaccsrc, :66-95; compile, :58-73).    *)
KernelsOfWholeSource ==
    kernels # <<>> \/ ir # <<>> =>
        /\ tree.text \o TextsIn(input) = TextsIn(stream)
        /\ input = <<>> \/ Head(input).type # "'__qpu__'"
=============================================================================
