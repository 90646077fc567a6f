------------------------------ MODULE Compiled ------------------------------
(***************************************************************************)
(* The machine of Unwind with the code that CodeGen emits for programs,    *)
(* and what these programs mean.                                           *)
(***************************************************************************)
EXTENDS CodeGen, Structured, StackMapOf, StackMaps

CONSTANTS
    Source,         \* Source[p]: the program of that name
    Emitted         \* Emitted[p]: its code, CompiledSource in the configurations

(* The instructions of function f of program p.                            *)
CompiledSource ==
    LET programs == Source
    IN [p \in DOMAIN programs |-> Compile(programs[p])]
Programs == Emitted

(* What they leave on the stack.                                           *)
StackMapsOf ==
    LET code == Programs
    IN [p \in DOMAIN code |-> [f \in DOMAIN code[p] |-> StackMap(code[p][f])]]

(* Code and Shape in the configurations.  TLC evaluates Programs and       *)
(* StackMapsOf once, but what replaces a constant at each use: so these    *)
(* only name them.                                                         *)
CodeOf == Programs
ShapeOf == StackMapsOf

(* The programs whose code fits, found once.                               *)
Fitting == {p \in DOMAIN Code : FitsMachine(p)}

-----------------------------------------------------------------------------
(* Properties.                                                             *)

(* The compiler emits code that fits the machine: at each instruction the  *)
(* words of the frame are the same whatever way leads there, and those the *)
(* instruction needs.                                                      *)
CodeFits == prog \in Fitting

(* The run makes the choices the source has, in its order: the stack       *)
(* machine implements the statements.                                      *)
RunsAsWritten ==
    LET c == Run(Source[prog], trace)
    IN /\ c.how # "wrong"
       /\ m.status \in {"halt", "finished"} => c.how # "pending" /\ c.rest = <<>>

(* The caller gets the exception the program ends with and the value its   *)
(* return statement set, not those of a statement in between.              *)
ResultAsWritten ==
    m.status = "finished" =>
        LET c == Run(Source[prog], trace)
        IN /\ m.exception = IF c.how = "throw" THEN c.kind ELSE NoException
           /\ c.how = "return" => m.ret = "value"
=============================================================================
