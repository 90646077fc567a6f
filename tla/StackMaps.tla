----------------------------- MODULE StackMaps -----------------------------
(***************************************************************************)
(* Code that fits the machine: what the proofs about Unwind ask of the     *)
(* instructions, whatever compiler wrote them.                             *)
(*                                                                         *)
(* A stack map says which words the frame of a function has before each of *)
(* its instructions: its return address, what EnterFunc pushed, then the   *)
(* words of the nests.  Fits looks at one instruction and its          *)
(* successors at a time, as the verifier of a byte code does.              *)
(***************************************************************************)
EXTENDS Unwind, Frames

CONSTANT
    Shape   \* Shape[p][f][q].words: the frame before the instruction q, for
            \* every q that is ever reached; .caught: m.exception is the
            \* exception a catch clause is about to test

(* The frame has its head and does not end with an object without chain.   *)
Settled(W) == Len(W) >= 4 /\ W[Len(W)].is # "object"

Tries(W) == {j \in DOMAIN W : W[j].is = "xp"}

FinallyOnTop(W) ==
    LET n == Len(W)
    IN /\ n >= 14 /\ W[n - 5].is = "xp"
       /\ \A i \in 1 .. 5 : W[n - 5 + i] = SavedWords[i]

-----------------------------------------------------------------------------
(* The instruction q of function f of program p, and where it may go.      *)

(* Execution goes on at q with the words W; only there where the exception *)
(* still is in m.exception may q take it from there.                       *)
Goes(p, f, q, W, caught) ==
    /\ q \in DOMAIN Shape[p][f]
    /\ Shape[p][f][q].words = W
    /\ Shape[p][f][q].caught => caught

(* The words above the first k are freed, none of them in the middle of an *)
(* object and its chain, none of them a handler or what a finally saved.   *)
Frees(p, f, q, W, k, caught) ==
    /\ k \in 4 .. Len(W)
    /\ \A j \in k + 1 .. Len(W) : W[j].is \in {"number", "object", "chain", "thrown"}
    /\ k < Len(W) => W[k + 1].is # "chain"
    /\ Goes(p, f, q, SubSeq(W, 1, k), caught)

(* The words at a local variable. *)
Local(W, n, kinds) ==
    LET j == n + 4
    IN /\ j >= 4 /\ j + Len(kinds) <= Len(W)
       /\ \A k \in DOMAIN kinds : W[j + k].is = kinds[k]

(* EnterTry: the handlers take over with the descriptor on top, finally    *)
(* with what CallFinally saves.                                            *)
Handles(p, f, W, h, g) ==
    /\ h # NoHandler => h \in DOMAIN Shape[p][f] /\ Shape[p][f][h].words = W
    /\ g # NoHandler => Goes(p, f, g, W \o SavedWords, FALSE)

(* The uppermost descriptor of the frame is at its word j.                 *)
Uppermost(W, j) == j \in Tries(W) /\ \A k \in Tries(W) : k <= j

(* What the machine takes for granted at an instruction holds there, and   *)
(* what the instruction leaves is what its successors take for granted.    *)
Fits(p, f, q) ==
    LET i == Code[p][f][q]
        W == Shape[p][f][q].words
        n == Len(W)
        Leaves(V) == Goes(p, f, q + 1, V, FALSE)
        Jumps == Frees(p, f, i.to, W, n - i.n, FALSE)
    IN /\ i.op = "EnterFunc" => W = ReturnAddress /\ Leaves(FrameHead)
       /\ i.op = "LeaveFunc" =>
            /\ n >= 4 /\ \A j \in 5 .. n : W[j].is \in {"number", "object", "chain", "thrown"}
            /\ Settled(W) /\ Leaves(ReturnAddress)
       /\ i.op = "Return" => W = ReturnAddress
       /\ i.op = "Call" =>
            /\ Settled(W) /\ Leaves(W)
            /\ i.to \in DOMAIN Code[p] /\ Goes(p, i.to, 1, ReturnAddress, FALSE)
       /\ i.op = "LoadHandler" => Settled(W) /\ Leaves(Append(W, Word("handler", i.to)))
       /\ i.op = "LoadFinally" => Settled(W) /\ Leaves(Append(W, Word("finally", i.to)))
       /\ i.op = "EnterTry" =>
            LET V == W \o <<Plain("code"), Plain("fp"), Plain("xp")>>
            IN /\ n >= 6 /\ W[n - 1].is = "handler" /\ W[n].is = "finally"
               /\ Leaves(V) /\ Handles(p, f, V, W[n - 1].v, W[n].v)
       /\ i.op = "CallFinally" =>
            /\ Settled(W)
            /\ \E j \in DOMAIN W : Uppermost(W, j) /\ Leaves(SubSeq(W, 1, j - 5))
       /\ i.op = "RetFinally" => FinallyOnTop(W)
       /\ i.op = "LeaveFinally" => FinallyOnTop(W) /\ Leaves(SubSeq(W, 1, n - 10))
       /\ i.op = "LoadThrown" => Settled(W) /\ Leaves(Append(W, Exception))
       /\ i.op = "Throw" => n >= 5 /\ W[n] = Exception /\ Settled(SubSeq(W, 1, n - 1))
       /\ i.op = "LoadException" =>
            /\ Settled(W) /\ Shape[p][f][q].caught
            /\ Goes(p, f, q + 1, Append(W, Exception), TRUE)
       /\ i.op = "CastObject" =>
            /\ n >= 5 /\ W[n] = Exception /\ Settled(SubSeq(W, 1, n - 1))
            /\ Leaves(Append(SubSeq(W, 1, n - 1), Plain("object")))
            /\ Frees(p, f, i.to, W, n - i.n, Shape[p][f][q].caught)
       /\ i.op = "ClearException" => n >= 4 /\ Leaves(W)
       /\ i.op = "NewObject" => Settled(W) /\ Leaves(W \o Pair(Linked))
       /\ i.op = "PushObjChain" =>
            n >= 5 /\ W[n].is = "object" /\ Leaves(Append(W, Word("chain", Linked)))
       /\ i.op = "AllocStack" =>
            Settled(W) /\ Leaves(W \o IF i.n = 1 THEN <<Plain("number")>> ELSE Pair(Unlinked))
       /\ i.op = "MakeObjChain" =>
            /\ n >= 6 /\ W[n] = Word("chain", Unlinked) /\ i.n + 5 = n
            /\ Leaves([W EXCEPT ![n] = Word("chain", Linked)])
       /\ i.op = "StoreLocal" =>
            /\ Local(W, i.n, ReleaserDesc) /\ W[i.n + 6].v = Linked
            /\ Leaves(W)
       /\ i.op = "Synchronize" =>
            Settled(W) /\ Local(W, i.n, <<"object">>) /\ Leaves(W \o Pair(Either))
       /\ i.op = "FreeStack" => Settled(W) /\ Frees(p, f, q + 1, W, n - i.n, FALSE)
       /\ i.op = "FreeStackLocal" => Settled(W) /\ Frees(p, f, q + 1, W, 4 + i.n, FALSE)
       /\ i.op = "Jump" => Settled(W) /\ Jumps
       /\ i.op \in {"JumpNonConditional", "JumpConditional"} =>
            Settled(W) /\ Leaves(W) /\ Jumps
       /\ i.op = "LoadValue" => Settled(W) /\ Leaves(Append(W, Plain("number")))
       /\ i.op = "JumpNonEqual" =>
            Settled(W) /\ i.at[2] \in Nat /\ Local(W, i.at[2], <<"number">>) /\ Leaves(W) /\ Jumps
       /\ i.op = "SetRetValue" => n >= 4 /\ Leaves(W)
       /\ i.op = "CallNative" =>
            /\ Settled(W) /\ Leaves(W)
            /\ i.n = n - 4 /\ i.nest = {j - 9 : j \in Tries(W)}

(* The frame begins with a return address, and then its head.              *)
Framed(W) == W = ReturnAddress \/ (Len(W) >= 4 /\ SubSeq(W, 1, 4) = FrameHead)

(* The functions of program p fit the machine; an exception is an object,  *)
(* not null.                                                               *)
FitsMachine(p) ==
    /\ NoException \notin Thrown
    /\ NoCode \notin DOMAIN Code[p] /\ DOMAIN Shape[p] = DOMAIN Code[p]
    /\ 1 \in DOMAIN Code[p] /\ Goes(p, 1, 1, ReturnAddress, FALSE)
    /\ \A f \in DOMAIN Code[p] : DOMAIN Shape[p][f] \subseteq DOMAIN Code[p][f]
    /\ \A f \in DOMAIN Code[p] : \A q \in DOMAIN Shape[p][f] :
            /\ q \in Nat /\ Code[p][f][q].n \in Nat
            /\ Shape[p][f][q].words \in Seq(MapWords) /\ Framed(Shape[p][f][q].words)
            /\ Fits(p, f, q)
=============================================================================
