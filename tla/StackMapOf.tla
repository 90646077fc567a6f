----------------------------- MODULE StackMapOf -----------------------------
(***************************************************************************)
(* The stack maps of code: what the instructions leave, followed from the  *)
(* first one on.  Where two ways meet, Fits of StackMaps compares.         *)
(***************************************************************************)
EXTENDS Frames, TLC

Place(q, W, caught) == [at |-> q, words |-> W, caught |-> caught]
FirstWords(W, k) == SubSeq(W, 1, IF k < 0 THEN 0 ELSE IF k > Len(W) THEN Len(W) ELSE k)

After(code, place) ==
    LET i == code[place.at]
        W == place.words
        n == Len(W)
        next == place.at + 1
        To(V) == <<Place(next, V, FALSE)>>
        jump == Place(i.to, FirstWords(W, n - i.n), FALSE)
        tries == {j \in DOMAIN W : W[j].is = "xp"}
        last == CHOOSE j \in tries : \A k \in tries : k <= j
    IN CASE i.op = "EnterFunc" -> To(FrameHead)
         [] i.op = "LeaveFunc" -> To(ReturnAddress)
         [] i.op \in {"Return", "RetFinally", "Throw"} -> <<>>
         [] i.op = "LoadHandler" -> To(Append(W, Word("handler", i.to)))
         [] i.op = "LoadFinally" -> To(Append(W, Word("finally", i.to)))
         [] i.op = "EnterTry" ->
                LET V == W \o <<Plain("code"), Plain("fp"), Plain("xp")>>
                IN To(V) \o <<Place(W[n - 1].v, V, TRUE),
                                 Place(W[n].v, V \o SavedWords, FALSE)>>
         [] i.op = "CallFinally" ->
                To(IF tries = {} THEN <<>> ELSE SubSeq(W, 1, last - 5))
         [] i.op = "LeaveFinally" -> To(FirstWords(W, n - 10))
         [] i.op = "LoadThrown" -> To(Append(W, Exception))
         [] i.op = "LoadException" -> <<Place(next, Append(W, Exception), place.caught)>>
         [] i.op = "CastObject" ->
                To(Append(FirstWords(W, n - 1), Plain("object")))
                \o <<[jump EXCEPT !.caught = place.caught]>>
         [] i.op = "NewObject" -> To(W \o Pair(Linked))
         [] i.op = "PushObjChain" -> To(Append(W, Word("chain", Linked)))
         [] i.op = "AllocStack" ->
                To(W \o IF i.n = 1 THEN <<Plain("number")>> ELSE Pair(Unlinked))
         [] i.op = "MakeObjChain" -> To(Append(FirstWords(W, n - 1), Word("chain", Linked)))
         [] i.op = "Synchronize" -> To(W \o Pair(Either))
         [] i.op = "FreeStack" -> To(FirstWords(W, n - i.n))
         [] i.op = "FreeStackLocal" -> To(FirstWords(W, 4 + i.n))
         [] i.op = "Jump" -> <<jump>>
         [] i.op \in {"JumpNonConditional", "JumpConditional", "JumpNonEqual"} ->
                To(W) \o <<jump>>
         [] i.op = "LoadValue" -> To(Append(W, Plain("number")))
         [] OTHER -> To(W)

RECURSIVE Maps(_, _, _)
Maps(code, known, places) ==
    IF places = <<>> THEN known
    ELSE LET place == Head(places)
         IN IF place.at \in DOMAIN known \/ place.at \notin DOMAIN code
            THEN Maps(code, known, Tail(places))
            ELSE Maps(code,
                      known @@ (place.at :> [words |-> place.words, caught |-> place.caught]),
                      After(code, place) \o Tail(places))

StackMap(code) == Maps(code, <<>>, <<Place(1, ReturnAddress, FALSE)>>)
=============================================================================
