---------------------------- MODULE Structured -----------------------------
(***************************************************************************)
(* What the statements of a program mean, without stack, jump or handler:  *)
(* the specification of the code LCompiler emits and LContext executes.    *)
(*                                                                         *)
(* Run replays a trace of the choices made (did the native function throw, *)
(* did the loop turn again, what is the value of the switch) and says how  *)
(* the program completes: it goes on to the next statement, it leaves by   *)
(* break, continue, goto, return or throw, it is pending where the trace   *)
(* ends, or it is wrong where the trace has an event the program does not  *)
(* have there.                                                             *)
(***************************************************************************)
EXTENDS Integers, Sequences

Completion(how, kind, rest) == [how |-> how, kind |-> kind, rest |-> rest]

(* The completion is final whatever encloses the statement. *)
Stuck(c) == c.how \in {"pending", "wrong"}

(* The next event, which has to be one of the statement. *)
Event(id, trace, After(_)) ==
    IF trace = <<>> THEN Completion("pending", "", <<>>)
    ELSE IF Head(trace).at # id THEN Completion("wrong", "", trace)
    ELSE After(Head(trace).what)

RECURSIVE Exec(_, _, _, _), ExecList(_, _, _, _, _), ExecLoop(_, _, _, _),
          ExecBody(_, _, _, _)

(* The statements from the i-th on; a goto goes on at its label, if it is  *)
(* one of this list.                                                       *)
ExecList(program, ss, i, id, trace) ==
    IF i > Len(ss) THEN Completion("next", "", trace)
    ELSE LET c == Exec(program, ss[i], Append(id, i), trace)
             labels == {j \in DOMAIN ss : ss[j].k = "label" /\ ss[j].name = c.kind}
         IN IF c.how = "next" THEN ExecList(program, ss, i + 1, id, c.rest)
            ELSE IF c.how = "goto" /\ labels # {}
            THEN ExecList(program, ss, CHOOSE j \in labels : TRUE, id, c.rest)
            ELSE c

(* A turn of a loop, and what follows it. *)
ExecBody(program, s, id, trace) ==
    LET c == ExecList(program, s.body, 1, Append(id, 1), trace)
    IN IF c.how \in {"next", "continue"}
       THEN IF s.k = "forever" THEN ExecBody(program, s, id, c.rest)
            ELSE ExecLoop(program, s, id, c.rest)
       ELSE IF c.how = "break" THEN Completion("next", "", c.rest)
       ELSE c

(* The condition of a loop. *)
ExecLoop(program, s, id, trace) ==
    Event(id, trace, LAMBDA what :
        IF what = "exit" THEN Completion("next", "", Tail(trace))
        ELSE ExecBody(program, s, id, Tail(trace)))

ExecIf(program, s, id, trace) ==
    Event(id, trace, LAMBDA what :
        IF what = "turn" THEN ExecList(program, s.body, 1, id \o <<1>>, Tail(trace))
        ELSE ExecList(program, s.otherwise, 1, id \o <<2>>, Tail(trace)))

(* The statements behind the label that the value has. *)
ExecSwitch(program, s, id, trace) ==
    LET Labels(what) ==
            {i \in DOMAIN s.body : s.body[i].k = "case" /\ s.body[i].value = what}
        defaults == {i \in DOMAIN s.body : s.body[i].k = "default"}
        From(is) == CHOOSE i \in is : \A j \in is : i <= j
        Start(what) ==
            IF Labels(what) # {} THEN From(Labels(what))
            ELSE IF defaults # {} THEN From(defaults)
            ELSE Len(s.body) + 1
    IN Event(id, trace, LAMBDA what :
            LET c == ExecList(program, s.body, Start(what), Append(id, 1), Tail(trace))
            IN IF c.how = "break" THEN Completion("next", "", c.rest) ELSE c)

(* The first catch clause that takes the exception runs. *)
ExecCatch(program, s, id, body) ==
    LET takes == {i \in DOMAIN s.catches : s.catches[i].type \in {"any", body.kind}}
        first == CHOOSE i \in takes : \A j \in takes : i <= j
    IN IF body.how = "throw" /\ takes # {}
       THEN ExecList(program, s.catches[first].body, 1, id \o <<1, first>>, body.rest)
       ELSE body

(* The finally block runs however the rest completes, and only replaces    *)
(* that completion by one that leaves the block.                           *)
ExecTry(program, s, id, trace) ==
    LET body == ExecList(program, s.body, 1, id \o <<0>>, trace)
        caught == ExecCatch(program, s, id, body)
        last == ExecList(program, s.finally, 1, id \o <<2>>, caught.rest)
    IN IF Stuck(caught) THEN caught
       ELSE IF last.how = "next" THEN [caught EXCEPT !.rest = last.rest]
       ELSE last

Exec(program, s, id, trace) ==
    CASE s.k \in {"number", "object", "label", "case", "default"} -> Completion("next", "", trace)
      [] s.k = "expression" ->
            Event(id, trace, LAMBDA what :
                IF what = "done" THEN Completion("next", "", Tail(trace))
                ELSE Completion("throw", what, Tail(trace)))
      [] s.k = "throw" ->
            Event(id, trace, LAMBDA what : Completion("throw", what, Tail(trace)))
      [] s.k \in {"break", "continue", "return"} -> Completion(s.k, "", trace)
      [] s.k = "goto" -> Completion("goto", s.name, trace)
      [] s.k \in {"block", "synchronized", "with"} ->
            ExecList(program, s.body, 1, Append(id, 1), trace)
      [] s.k \in {"for", "for each", "while"} -> ExecLoop(program, s, id, trace)
      [] s.k \in {"do", "forever"} -> ExecBody(program, s, id, trace)
      [] s.k = "if" -> ExecIf(program, s, id, trace)
      [] s.k = "switch" -> ExecSwitch(program, s, id, trace)
      [] s.k = "try" -> ExecTry(program, s, id, trace)
      [] s.k = "call" ->
            LET c == ExecList(program, program[s.func], 1, <<s.func>>, trace)
            IN IF c.how = "return" THEN [c EXCEPT !.how = "next"] ELSE c

Run(program, trace) == ExecList(program, program[1], 1, <<1>>, trace)
=============================================================================
