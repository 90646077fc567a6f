----------------------------- MODULE TasksProof -----------------------------
(***************************************************************************)
(* The properties of Tasks, for any number of tasks and OS threads and any    *)
(* depth of runs inside runs: that an abort is final whatever other threads   *)
(* and finalizers do (AbortIsFinal); that finish() ends a task that is begun   *)
(* once (FinishEndsOrLost); that a task begun once and driven by one thread    *)
(* ends with the result of its function (ResultOfFunction).                   *)
(***************************************************************************)
EXTENDS Tasks, TLAPS

PCs == {"check", "lock", "loop", "core", "free", "back", "end", "flag"}
Signals == {"no", "break", "throw", "abort"}
Outcomes == {"none", "pending", "returned", "thrown", "aborted"}

(* Where a call of AsyncRun holds m_mutexRun. *)
Holding == {"loop", "core", "free", "back", "end"}

Typed ==
    /\ TaskTypeOK
    /\ signal \in [Tasks -> Signals]
    /\ interrupt \in [Tasks -> BOOLEAN]
    /\ result \in [Tasks -> [value : {"nothing", "native", "returned"}, exception : BOOLEAN]]
    /\ finished \in [Tasks -> BOOLEAN]
    /\ outcome \in [Tasks -> Outcomes]
    /\ lost \in [Tasks -> BOOLEAN]

(* One OS thread at a time runs a context. *)
Holds(d, t) == \E i \in DOMAIN calls[d] : calls[d][i].of = t /\ calls[d][i].pc \in Holding
Mutex == \A d, e \in Drivers, t \in Tasks : Holds(d, t) /\ Holds(e, t) => d = e

(* The C++ stack of d: the call below one of a task is executing script, and the one *)
(* below a finalizer is releasing an object of the same context.                     *)
StackOK(d) ==
    /\ \A i \in DOMAIN calls[d] :
        /\ Begun(calls[d][i].of)
        /\ i < Len(calls[d]) => calls[d][i].pc \in {"core", "free", "end"}
        /\ calls[d][i].by = "finalizer" => i > 1 /\ calls[d][i].pc \in Holding \cup {"lock"}
    /\ \A i \in 1 .. Len(calls[d]) - 1 :
        IF calls[d][i + 1].by = "finalizer"
        THEN /\ calls[d][i + 1].of = calls[d][i].of
             /\ calls[d][i].pc \in {"free", "end"}
             /\ calls[d][i].pc = "free" => calls[d][i + 1].save.status = "running"
        ELSE calls[d][i].pc = "core"

(* The innermost call of d: script is executed with m_status running, and a          *)
(* finalizer that ends leaves m_interrupt set.                                       *)
RunOK(d) == calls[d] # <<>> =>
    LET f == Inner(d)
        t == f.of
        c == context[t]
    IN  /\ f.pc = "core" => interrupt[t] \/ c.status = "running"
        /\ f.pc = "free" => c.status = "running"
        /\ f.by = "finalizer" =>
            /\ f.pc \in {"lock", "loop", "back"} =>
                interrupt[t] \/ (signal[t] = "no" /\ IsRunning(c) /\ c.code # "none")
            /\ f.pc = "loop" => interrupt[t] \/ c.status = "running"
            /\ f.pc = "end" => interrupt[t]

(* Outside its run a context has no code. *)
Idling(t) ==
    /\ before[t].code = "none"
    /\ ~Begun(t) => context[t].code = "none"

(* The function of the task could go on in the state c. *)
Live(c) == c.code \in {"function", "leaving"} /\ c.status # "aborted"

(* The i-th call of d is a finalizer of t. *)
Finalizes(d, i, t) == calls[d][i].of = t /\ calls[d][i].by = "finalizer"

(* Once t is aborted, each state in which its function could go on lies below an      *)
(* aborted one, or the signal to abort waits for it.                                 *)
AbortKnown(t) == outcome[t] = "aborted" /\ ~lost[t] =>
    /\ \A d \in Drivers : \A i \in DOMAIN calls[d] :
        /\ Finalizes(d, i, t) /\ Live(calls[d][i].save)
        /\ \A j \in DOMAIN calls[d] :
               Finalizes(d, j, t) /\ j > i => calls[d][j].save.status # "aborted"
        /\ context[t].status # "aborted"
        => signal[t] = "abort"
    /\ Live(context[t]) => signal[t] = "abort" /\ interrupt[t]
    /\ \A d \in Drivers : IsIn(d, "loop") /\ Inner(d).of = t => ~Live(context[t])

AbortInv ==
    /\ Typed /\ Mutex
    /\ \A d \in Drivers : StackOK(d) /\ RunOK(d)
    /\ \A t \in Tasks : Idling(t) /\ AbortKnown(t)

-----------------------------------------------------------------------------
(* The C++ stack. *)

(* The stack of d. *)
LEMMA StackFacts ==
    ASSUME TaskTypeOK, NEW d \in Drivers
    PROVE  /\ calls[d] \in Seq(CallFrames) /\ Len(calls[d]) \in Nat
           /\ DOMAIN calls[d] = 1 .. Len(calls[d])
           /\ \A i \in 1 .. Len(calls[d]) : calls[d][i] \in CallFrames
           /\ calls[d] # <<>> <=> Len(calls[d]) > 0
           /\ calls[d] # <<>> => /\ Inner(d) = calls[d][Len(calls[d])]
                                 /\ Len(calls[d]) \in 1 .. Len(calls[d])
                                 /\ Inner(d) \in CallFrames /\ Inner(d).of \in Tasks
<1>1. calls[d] \in Seq(CallFrames)
  BY DEF TaskTypeOK
<1>2. /\ Len(calls[d]) \in Nat /\ DOMAIN calls[d] = 1 .. Len(calls[d])
      /\ \A i \in 1 .. Len(calls[d]) : calls[d][i] \in CallFrames
      /\ calls[d] # <<>> <=> Len(calls[d]) > 0
  BY <1>1
<1>3. calls[d] # <<>> => Inner(d) = calls[d][Len(calls[d])] /\ Len(calls[d]) \in 1 .. Len(calls[d])
  BY <1>2 DEF Inner, Last
<1>4. calls[d] # <<>> => Inner(d) \in CallFrames /\ Inner(d).of \in Tasks
  BY <1>2, <1>3 DEF CallFrames
<1>5. QED
  BY <1>1, <1>2, <1>3, <1>4

(* The fields of a call. *)
LEMMA FrameFacts ==
    ASSUME NEW f \in CallFrames
    PROVE  /\ f.of \in Tasks /\ f.by \in {"proceed", "finish", "finalizer"}
           /\ f.pc \in PCs /\ f.save \in States
           /\ \A pc \in PCs : /\ [f EXCEPT !.pc = pc] \in CallFrames
                              /\ [f EXCEPT !.pc = pc].of = f.of
                              /\ [f EXCEPT !.pc = pc].by = f.by
                              /\ [f EXCEPT !.pc = pc].save = f.save
                              /\ [f EXCEPT !.pc = pc].pc = pc
  BY DEF CallFrames, PCs

(* The stacks after d has gone to pc. *)
GoneTo(d, pc) ==
    /\ calls' \in [Drivers -> Seq(CallFrames)]
    /\ \A e \in Drivers \ {d} : calls'[e] = calls[e]
    /\ Len(calls'[d]) = Len(calls[d]) /\ DOMAIN calls'[d] = 1 .. Len(calls[d])
    /\ \A i \in 1 .. Len(calls[d]) :
        /\ calls'[d][i].of = calls[d][i].of /\ calls'[d][i].by = calls[d][i].by
        /\ calls'[d][i].save = calls[d][i].save
        /\ calls'[d][i].pc = IF i = Len(calls[d]) THEN pc ELSE calls[d][i].pc
    /\ Inner(d)' = calls'[d][Len(calls[d])] /\ calls'[d] # <<>>

(* The innermost call of d goes to pc. *)
LEMMA GoToStack ==
    ASSUME TaskTypeOK, NEW d \in Drivers, calls[d] # <<>>, NEW pc \in PCs, calls' = GoTo(d, pc)
    PROVE  GoneTo(d, pc)
<1>  DEFINE n == Len(calls[d])
            f == [calls[d][n] EXCEPT !.pc = pc]
            s == [calls[d] EXCEPT ![n] = f]
<1>1. /\ calls[d] \in Seq(CallFrames) /\ n \in Nat /\ n \in 1 .. n /\ DOMAIN calls[d] = 1 .. n
      /\ \A i \in 1 .. n : calls[d][i] \in CallFrames
  BY StackFacts
<1>2. /\ f \in CallFrames /\ f.of = calls[d][n].of /\ f.by = calls[d][n].by
      /\ f.save = calls[d][n].save /\ f.pc = pc
  BY <1>1, FrameFacts
<1>  HIDE DEF f
<1>3. s \in Seq(CallFrames) /\ Len(s) = n /\ s[n] = f /\ \A i \in 1 .. n - 1 : s[i] = calls[d][i]
  <2>1. s \in [1 .. n -> CallFrames]
    BY <1>1, <1>2
  <2>2. QED
    BY <1>1, <2>1
<1>4. calls' = [calls EXCEPT ![d] = s]
  BY DEF GoTo, f
<1>  HIDE DEF s
<1>5. calls'[d] = s /\ calls' \in [Drivers -> Seq(CallFrames)]
      /\ \A e \in Drivers \ {d} : calls'[e] = calls[e]
  BY <1>3, <1>4 DEF TaskTypeOK
<1>6. Inner(d)' = s[n] /\ DOMAIN s = 1 .. n /\ s # <<>>
  BY <1>1, <1>3, <1>5 DEF Inner, Last
<1>7. QED
  BY <1>1, <1>2, <1>3, <1>5, <1>6 DEF GoneTo

(* The stacks after d has called AsyncRun by f, from a frame that is at pc then. *)
Pushed(d, f, pc) ==
    /\ calls' \in [Drivers -> Seq(CallFrames)]
    /\ \A e \in Drivers \ {d} : calls'[e] = calls[e]
    /\ Len(calls'[d]) = Len(calls[d]) + 1 /\ DOMAIN calls'[d] = 1 .. Len(calls[d]) + 1
    /\ \A i \in 1 .. Len(calls[d]) :
        /\ calls'[d][i].of = calls[d][i].of /\ calls'[d][i].by = calls[d][i].by
        /\ calls'[d][i].save = calls[d][i].save
        /\ calls'[d][i].pc = IF i = Len(calls[d]) THEN pc ELSE calls[d][i].pc
    /\ calls'[d][Len(calls[d]) + 1] = f /\ Inner(d)' = f /\ calls'[d] # <<>>

(* d calls AsyncRun. *)
LEMMA PushStack ==
    ASSUME TaskTypeOK, NEW d \in Drivers, NEW f \in CallFrames,
           calls' = [calls EXCEPT ![d] = Append(@, f)]
    PROVE  Pushed(d, f, Inner(d).pc)
<1>  DEFINE n == Len(calls[d])
            s == Append(calls[d], f)
<1>1. calls[d] \in Seq(CallFrames) /\ n \in Nat /\ DOMAIN calls[d] = 1 .. n
  BY StackFacts
<1>2. /\ s \in Seq(CallFrames) /\ Len(s) = n + 1 /\ s[n + 1] = f
      /\ \A i \in 1 .. n : s[i] = calls[d][i]
  BY <1>1
<1>3. calls[d] # <<>> => Inner(d) = calls[d][n]
  BY StackFacts
<1>  HIDE DEF s
<1>4. calls'[d] = s /\ calls' \in [Drivers -> Seq(CallFrames)]
      /\ \A e \in Drivers \ {d} : calls'[e] = calls[e]
  BY <1>2 DEF TaskTypeOK, s
<1>5. Inner(d)' = f /\ DOMAIN s = 1 .. n + 1 /\ s # <<>>
  BY <1>1, <1>2, <1>4 DEF Inner, Last
<1>6. \A i \in 1 .. n : i = n => calls[d][i].pc = Inner(d).pc
  BY <1>1, StackFacts
<1>7. QED
  BY <1>1, <1>2, <1>4, <1>5, <1>6 DEF Pushed

(* The stacks after the innermost call of d has returned. *)
Popped(d) ==
    /\ calls' \in [Drivers -> Seq(CallFrames)]
    /\ \A e \in Drivers \ {d} : calls'[e] = calls[e]
    /\ Len(calls'[d]) = Len(calls[d]) - 1 /\ DOMAIN calls'[d] = 1 .. Len(calls[d]) - 1
    /\ \A i \in 1 .. Len(calls[d]) - 1 : calls'[d][i] = calls[d][i]
    /\ calls'[d] # <<>> <=> Len(calls[d]) > 1
    /\ calls'[d] # <<>> => Inner(d)' = calls[d][Len(calls[d]) - 1]

(* The innermost call of d returns. *)
LEMMA PopStack ==
    ASSUME TaskTypeOK, NEW d \in Drivers, calls[d] # <<>>,
           calls' = [calls EXCEPT ![d] = Front(calls[d])]
    PROVE  Popped(d) /\ calls'[d] = Front(calls[d])
<1>  DEFINE n == Len(calls[d])
            s == Front(calls[d])
<1>1. calls[d] \in Seq(CallFrames) /\ n \in Nat /\ n > 0 /\ DOMAIN calls[d] = 1 .. n
  BY StackFacts
<1>2. /\ s \in Seq(CallFrames) /\ Len(s) = n - 1
      /\ \A i \in 1 .. n - 1 : s[i] = calls[d][i]
  BY <1>1 DEF Front
<1>  HIDE DEF s
<1>3. calls'[d] = s /\ calls' \in [Drivers -> Seq(CallFrames)]
      /\ \A e \in Drivers \ {d} : calls'[e] = calls[e]
  BY <1>2 DEF TaskTypeOK, s
<1>4. DOMAIN s = 1 .. n - 1 /\ (s # <<>> <=> n > 1)
  BY <1>1, <1>2
<1>5. s # <<>> => Inner(d)' = calls[d][n - 1]
  BY <1>1, <1>2, <1>3, <1>4 DEF Inner, Last
<1>6. QED
  BY <1>1, <1>2, <1>3, <1>4, <1>5 DEF Popped, s

(* The stacks after an object that was released has called its finalizer. *)
LEMMA FinalizerStack ==
    ASSUME TaskTypeOK, NEW d \in Drivers, calls[d] # <<>>, NEW f \in CallFrames,
           calls' = [calls EXCEPT ![d] = Append(Releasing(d), f)]
    PROVE  Pushed(d, f, IF Inner(d).pc = "core" THEN "free" ELSE Inner(d).pc)
<1>  DEFINE n == Len(calls[d])
            pc == IF Inner(d).pc = "core" THEN "free" ELSE Inner(d).pc
            g == [calls[d][n] EXCEPT !.pc = pc]
            r == [calls[d] EXCEPT ![n] = g]
            s == Append(r, f)
<1>1. /\ calls[d] \in Seq(CallFrames) /\ n \in Nat /\ n \in 1 .. n /\ DOMAIN calls[d] = 1 .. n
      /\ \A i \in 1 .. n : calls[d][i] \in CallFrames
      /\ Inner(d) = calls[d][n]
  BY StackFacts
<1>2. pc \in PCs
  <2>1. Inner(d).pc \in PCs
    BY <1>1, FrameFacts
  <2>2. QED
    BY <2>1 DEF PCs
<1>3. /\ g \in CallFrames /\ g.of = calls[d][n].of /\ g.by = calls[d][n].by
      /\ g.save = calls[d][n].save /\ g.pc = pc
  <2>  HIDE DEF pc
  <2>1. QED
    BY <1>1, <1>2, FrameFacts
<1>4. calls' = [calls EXCEPT ![d] = s]
  <2>1. Releasing(d) = r
    BY <1>1 DEF Releasing
  <2>  HIDE DEF r
  <2>2. QED
    BY <2>1
<1>  HIDE DEF g
<1>5. r \in Seq(CallFrames) /\ Len(r) = n /\ r[n] = g /\ \A i \in 1 .. n - 1 : r[i] = calls[d][i]
  <2>1. r \in [1 .. n -> CallFrames]
    BY <1>1, <1>3
  <2>2. QED
    BY <1>1, <2>1
<1>  HIDE DEF r
<1>6. /\ s \in Seq(CallFrames) /\ Len(s) = n + 1 /\ s[n + 1] = f /\ s[n] = g
      /\ \A i \in 1 .. n - 1 : s[i] = calls[d][i]
  BY <1>1, <1>5
<1>  HIDE DEF s, pc
<1>7. calls'[d] = s /\ calls' \in [Drivers -> Seq(CallFrames)]
      /\ \A e \in Drivers \ {d} : calls'[e] = calls[e]
  BY <1>4, <1>6 DEF TaskTypeOK
<1>8. Inner(d)' = f /\ DOMAIN s = 1 .. n + 1 /\ s # <<>>
  <2>1. DOMAIN s = 1 .. n + 1 /\ s # <<>>
    BY <1>1, <1>6
  <2>2. Inner(d)' = s[Len(s)]
    BY <1>7 DEF Inner, Last
  <2>3. QED
    BY <1>6, <2>1, <2>2
<1>9. Pushed(d, f, pc)
  <2>1. \A i \in 1 .. n : i = n \/ i \in 1 .. n - 1
    BY <1>1
  <2>2. \A i \in 1 .. n :
          /\ s[i].of = calls[d][i].of /\ s[i].by = calls[d][i].by
          /\ s[i].save = calls[d][i].save
          /\ s[i].pc = IF i = n THEN pc ELSE calls[d][i].pc
    <3>1. ASSUME NEW i \in 1 .. n - 1 PROVE s[i] = calls[d][i] /\ i # n
      BY <1>1, <1>6, <3>1
    <3>2. QED
      BY <1>3, <1>6, <2>1, <3>1
  <2>3. Len(s) = n + 1 /\ s[n + 1] = f /\ s # <<>> /\ DOMAIN s = 1 .. n + 1
    BY <1>6, <1>8
  <2>4. QED
    BY <1>7, <1>8, <2>2, <2>3 DEF Pushed
<1>10. QED
  BY <1>9 DEF pc

-----------------------------------------------------------------------------
(* What a step leaves of AbortInv. *)

(* The step does not run the context of u: another thread may be running it. *)
Calm(u) ==
    /\ context'[u].status = context[u].status /\ context'[u].code = context[u].code
    /\ interrupt[u] => interrupt'[u]
    /\ signal'[u] = signal[u] \/ (interrupt'[u] /\ (signal[u] = "abort" => signal'[u] = "abort"))
    /\ outcome'[u] = outcome[u] /\ lost'[u] = lost[u] /\ before'[u] = before[u]

(* The step lets the function of u not go on where it could not before. *)
Quiet(u) ==
    /\ lost[u] => lost'[u]
    /\ outcome'[u] = "aborted" /\ ~lost'[u] => outcome[u] = "aborted" /\ ~lost[u]
    /\ context'[u].status # "aborted" => context[u].status # "aborted"
    /\ Live(context'[u]) => Live(context[u]) /\ (interrupt[u] => interrupt'[u])
    /\ signal[u] = "abort" => signal'[u] = "abort"

(* An abort of u, of a task that is not begun again, is not forgotten. *)
AbortPasses(u) == Begun(u) /\ Renewed = {} =>
    /\ lost[u] => lost'[u]
    /\ signal[u] = "abort" =>
           signal'[u] = "abort" \/ lost'[u] \/ context'[u].status = "aborted"
    /\ context[u].status = "aborted" => context'[u].status = "aborted" \/ signal'[u] = "abort"

(* The run of the function of t is aborted, or will be when a finalizer ends. *)
Doomed(t) ==
    \/ context[t].status = "aborted"
    \/ \E d \in Drivers : \E i \in DOMAIN calls[d] :
           Finalizes(d, i, t) /\ calls[d][i].save.status = "aborted"

(* What a step of d leaves of the calls and of the aborts that are known. *)
Effects(d) ==
    /\ \A e \in Drivers \ {d} : calls'[e] = calls[e]
    /\ \A i \in DOMAIN calls'[d] : i < Len(calls'[d]) =>
           /\ i \in DOMAIN calls[d]
           /\ calls'[d][i].of = calls[d][i].of /\ calls'[d][i].by = calls[d][i].by
           /\ calls'[d][i].pc = calls[d][i].pc \/ calls[d][i].pc = "core"
    /\ \A u \in Tasks :
           /\ Calm(u) \/ ~Locked(d, u)
           /\ Begun(u) /\ Renewed = {} =>
                 /\ lost[u] => lost'[u]
                 /\ signal[u] = "abort" =>
                        signal'[u] = "abort" \/ lost'[u] \/ context'[u].status = "aborted"
                 /\ Doomed(u) => Doomed(u)' \/ signal'[u] = "abort"

(* The finalizers of u are the same. *)
SameSaves(u) == \A e \in Drivers :
    /\ \A i \in DOMAIN calls[e] : Finalizes(e, i, u) =>
           i \in DOMAIN calls'[e] /\ Finalizes(e, i, u)'
    /\ \A i \in DOMAIN calls'[e] : Finalizes(e, i, u)' =>
           /\ i \in DOMAIN calls[e] /\ Finalizes(e, i, u)
           /\ calls'[e][i].save = calls[e][i].save

(* A context that is left alone is quiet. *)
LEMMA CalmIsQuiet == \A u : Calm(u) => Quiet(u)
  BY DEF Calm, Quiet, Live

(* A quiet step forgets no abort. *)
LEMMA QuietPasses == \A u : Quiet(u) => AbortPasses(u)
  BY DEF Quiet, AbortPasses

(* A run of u that is aborted stays so, or the signal tells the run around it. *)
LEMMA DoomKept ==
    ASSUME NEW u \in Tasks, AbortPasses(u), SameSaves(u), Begun(u), Renewed = {}, Doomed(u)
    PROVE  Doomed(u)' \/ signal'[u] = "abort"
<1>1. CASE context[u].status = "aborted"
  BY <1>1 DEF AbortPasses, Doomed
<1>2. CASE \E d \in Drivers : \E i \in DOMAIN calls[d] :
               Finalizes(d, i, u) /\ calls[d][i].save.status = "aborted"
  <2>1. PICK d \in Drivers : \E i \in DOMAIN calls[d] :
               Finalizes(d, i, u) /\ calls[d][i].save.status = "aborted"
    BY <1>2
  <2>2. PICK i \in DOMAIN calls[d] :
               Finalizes(d, i, u) /\ calls[d][i].save.status = "aborted"
    BY <2>1
  <2>3. i \in DOMAIN calls'[d] /\ Finalizes(d, i, u)' /\ calls'[d][i].save = calls[d][i].save
    BY <2>2 DEF SameSaves
  <2>4. QED
    BY <2>2, <2>3 DEF Doomed
<1>3. QED
  BY <1>1, <1>2 DEF Doomed

(* A quiet step leaves what is known of an abort. *)
LEMMA KnownKept ==
    ASSUME NEW u \in Tasks, AbortKnown(u), Quiet(u), SameSaves(u),
           \A e \in Drivers : IsIn(e, "loop")' /\ Inner(e)'.of = u =>
               \/ IsIn(e, "loop") /\ Inner(e).of = u
               \/ ~Live(context'[u])
               \/ ~(outcome'[u] = "aborted" /\ ~lost'[u])
    PROVE  AbortKnown(u)'
<1>  SUFFICES ASSUME outcome'[u] = "aborted", ~lost'[u]
              PROVE  /\ \A e \in Drivers : \A i \in DOMAIN calls'[e] :
                          /\ Finalizes(e, i, u)' /\ Live(calls'[e][i].save)
                          /\ \A j \in DOMAIN calls'[e] : Finalizes(e, j, u)' /\ j > i =>
                                 calls'[e][j].save.status # "aborted"
                          /\ context'[u].status # "aborted"
                          => signal'[u] = "abort"
                     /\ Live(context'[u]) => signal'[u] = "abort" /\ interrupt'[u]
                     /\ \A e \in Drivers :
                          IsIn(e, "loop")' /\ Inner(e)'.of = u => ~Live(context'[u])
  BY DEF AbortKnown, Live
<1>1. outcome[u] = "aborted" /\ ~lost[u]
  BY DEF Quiet
<1>2. ASSUME NEW e \in Drivers, NEW i \in DOMAIN calls'[e],
             Finalizes(e, i, u)', Live(calls'[e][i].save),
             \A j \in DOMAIN calls'[e] : Finalizes(e, j, u)' /\ j > i =>
                 calls'[e][j].save.status # "aborted",
             context'[u].status # "aborted"
      PROVE  signal'[u] = "abort"
  <2>1. i \in DOMAIN calls[e] /\ Finalizes(e, i, u) /\ calls'[e][i].save = calls[e][i].save
    BY <1>2 DEF SameSaves
  <2>2. \A j \in DOMAIN calls[e] : Finalizes(e, j, u) /\ j > i =>
            calls[e][j].save.status # "aborted"
    BY <1>2 DEF SameSaves
  <2>3. context[u].status # "aborted"
    BY <1>2 DEF Quiet
  <2>4. signal[u] = "abort"
    BY <1>1, <1>2, <2>1, <2>2, <2>3 DEF AbortKnown
  <2>5. QED
    BY <2>4 DEF Quiet
<1>3. Live(context'[u]) => signal'[u] = "abort" /\ interrupt'[u]
  BY <1>1 DEF AbortKnown, Quiet
<1>4. ASSUME NEW e \in Drivers, IsIn(e, "loop")', Inner(e)'.of = u PROVE ~Live(context'[u])
  BY <1>1, <1>4 DEF AbortKnown, Quiet
<1>5. QED
  BY <1>2, <1>3, <1>4

(* The calls of other threads, and the tasks that nobody runs. *)
LEMMA OthersKept ==
    ASSUME AbortInv, NEW d \in Drivers, Typed',
           \A e \in Drivers \ {d} : calls'[e] = calls[e],
           \A u \in Tasks : Calm(u) \/ ~Locked(d, u),
           \A u \in Tasks : Holds(d, u)' => Holds(d, u) \/ ~Locked(d, u),
           \A u \in Tasks : Begun(u) => Begun(u)',
           StackOK(d)', RunOK(d)'
    PROVE  Mutex' /\ \A e \in Drivers : StackOK(e)' /\ RunOK(e)'
<1>1. \A e \in Drivers \ {d}, u \in Tasks : Holds(e, u)' <=> Holds(e, u)
  BY DEF Holds
<1>2. \A e \in Drivers \ {d}, u \in Tasks : Holds(e, u) => Locked(d, u)
  BY DEF Holds, Locked, Holding
<1>3. Mutex'
  <2>1. ASSUME NEW e \in Drivers, NEW g \in Drivers, NEW u \in Tasks, Holds(e, u)', Holds(g, u)'
        PROVE  e = g
    <3>1. CASE e # d /\ g # d
      BY <1>1, <2>1, <3>1 DEF AbortInv, Mutex
    <3>2. CASE e = d /\ g # d
      BY <1>1, <1>2, <2>1, <3>2 DEF AbortInv, Mutex
    <3>3. CASE e # d /\ g = d
      BY <1>1, <1>2, <2>1, <3>3 DEF AbortInv, Mutex
    <3>4. QED
      BY <3>1, <3>2, <3>3
  <2>2. QED
    BY <2>1 DEF Mutex
<1>4. ASSUME NEW e \in Drivers \ {d} PROVE StackOK(e)' /\ RunOK(e)'
  <2>1. calls'[e] = calls[e] /\ StackOK(e) /\ RunOK(e) /\ TaskTypeOK
    BY DEF AbortInv, Typed
  <2>2. StackOK(e)'
    <3>1. \A i \in DOMAIN calls[e] : calls[e][i].of \in Tasks
      BY <2>1, StackFacts, FrameFacts
    <3>2. QED
      BY <2>1, <3>1 DEF StackOK
  <2>3. RunOK(e)'
    <3>  SUFFICES ASSUME calls[e] # <<>> PROVE RunOK(e)'
      BY <2>1 DEF RunOK
    <3>  DEFINE f == Inner(e)
                t == f.of
                n == Len(calls[e])
    <3>1. /\ n \in Nat /\ n > 0 /\ f = calls[e][n] /\ n \in DOMAIN calls[e] /\ t \in Tasks
          /\ f \in CallFrames /\ Inner(e)' = f /\ DOMAIN calls[e] = 1 .. n
      BY <2>1, StackFacts DEF Inner
    <3>2. f.pc \in Holding \/ f.by = "finalizer" => Holds(e, t)
      <4>1. CASE f.pc \in Holding
        BY <3>1, <4>1 DEF Holds
      <4>2. CASE f.by = "finalizer"
        <5>1. n > 1
          BY <2>1, <3>1, <4>2 DEF StackOK
        <5>2. n - 1 \in 1 .. n - 1 /\ n - 1 \in DOMAIN calls[e] /\ (n - 1) + 1 = n
          BY <3>1, <5>1
        <5>3. calls[e][n - 1].of = t /\ calls[e][n - 1].pc \in {"free", "end"}
          BY <2>1, <3>1, <4>2, <5>2 DEF StackOK
        <5>4. QED
          BY <5>2, <5>3 DEF Holds, Holding
      <4>3. QED
        BY <4>1, <4>2
    <3>3. CASE f.pc \in Holding \/ f.by = "finalizer"
      <4>1. Calm(t)
        BY <1>2, <3>1, <3>2, <3>3
      <4>2. QED
        BY <2>1, <3>1, <4>1 DEF RunOK, Calm, IsRunning
    <3>4. CASE ~(f.pc \in Holding \/ f.by = "finalizer")
      BY <2>1, <3>1, <3>4 DEF RunOK, Holding
    <3>5. QED
      BY <3>3, <3>4
  <2>4. QED
    BY <2>2, <2>3
<1>5. QED
  BY <1>3, <1>4

(* Who runs a context: the thread inside of it, and the one inside of its finalizer. *)
LEMMA HeldFacts ==
    ASSUME TaskTypeOK, Mutex, NEW d \in Drivers, StackOK(d)
    PROVE  /\ \A u \in Tasks : Holds(d, u) => ~Locked(d, u)
           /\ calls[d] # <<>> /\ (Inner(d).pc \in Holding \/ Inner(d).by = "finalizer") =>
                  Holds(d, Inner(d).of) /\ ~Locked(d, Inner(d).of)
           /\ \A u \in Tasks : \A i \in DOMAIN calls[d] : Finalizes(d, i, u) => Holds(d, u)
<1>1. ASSUME NEW u \in Tasks, Holds(d, u) PROVE ~Locked(d, u)
  BY <1>1 DEF Locked, Holds, Holding, Mutex
<1>2. ASSUME NEW u \in Tasks, NEW i \in DOMAIN calls[d], Finalizes(d, i, u) PROVE Holds(d, u)
  <2>1. DOMAIN calls[d] = 1 .. Len(calls[d]) /\ Len(calls[d]) \in Nat /\ i > 1
    BY <1>2, StackFacts DEF StackOK, Finalizes
  <2>2. i - 1 \in DOMAIN calls[d] /\ i - 1 \in 1 .. Len(calls[d]) - 1 /\ (i - 1) + 1 = i
    BY <2>1
  <2>3. calls[d][i - 1].of = u /\ calls[d][i - 1].pc \in {"free", "end"}
    BY <1>2, <2>2 DEF StackOK, Finalizes
  <2>4. QED
    BY <2>2, <2>3 DEF Holds, Holding
<1>3. ASSUME calls[d] # <<>>, Inner(d).pc \in Holding \/ Inner(d).by = "finalizer"
      PROVE  Holds(d, Inner(d).of)
  <2>1. /\ Len(calls[d]) \in DOMAIN calls[d] /\ Inner(d) = calls[d][Len(calls[d])]
        /\ Inner(d).of \in Tasks
    BY <1>3, StackFacts
  <2>2. CASE Inner(d).pc \in Holding
    BY <2>1, <2>2 DEF Holds
  <2>3. CASE Inner(d).by = "finalizer"
    BY <1>2, <2>1, <2>3 DEF Finalizes
  <2>4. QED
    BY <1>3, <2>2, <2>3
<1>4. calls[d] # <<>> => Inner(d).of \in Tasks
  BY StackFacts
<1>5. QED
  BY <1>1, <1>2, <1>3, <1>4

(* The innermost call of d where it was, and its context calm. *)
LEMMA RunKept ==
    ASSUME TaskTypeOK, NEW d \in Drivers, RunOK(d), calls'[d] = calls[d],
           calls[d] # <<>> => Calm(Inner(d).of)
    PROVE  RunOK(d)'
<1>  SUFFICES ASSUME calls[d] # <<>> PROVE RunOK(d)'
  BY DEF RunOK
<1>1. Inner(d)' = Inner(d)
  BY DEF Inner
<1>2. QED
  BY <1>1 DEF RunOK, Calm, IsRunning

(* A step that leaves the stacks alone. *)
LEMMA SameKeeps ==
    ASSUME AbortInv, NEW d \in Drivers, Typed', calls' = calls,
           \A u \in Tasks : Calm(u) \/ ~Locked(d, u),
           \A u \in Tasks : Begun(u) => Begun(u)',
           RunOK(d)', \A u \in Tasks : Idling(u)',
           \A u \in Tasks : Quiet(u) \/ (AbortKnown(u)' /\ AbortPasses(u))
    PROVE  AbortInv' /\ Effects(d)
<1>1. TaskTypeOK /\ StackOK(d)
  BY DEF AbortInv, Typed
<1>2. StackOK(d)'
  <2>1. \A i \in DOMAIN calls[d] : calls[d][i].of \in Tasks
    BY <1>1, StackFacts, FrameFacts
  <2>2. QED
    BY <1>1, <2>1 DEF StackOK
<1>3. Mutex' /\ \A e \in Drivers : StackOK(e)' /\ RunOK(e)'
  <2>1. \A u \in Tasks : Holds(d, u)' => Holds(d, u)
    BY DEF Holds
  <2>2. QED
    BY <1>2, <2>1, OthersKept
<1>4. \A u \in Tasks : SameSaves(u) /\ AbortPasses(u)
  BY QuietPasses DEF SameSaves, Finalizes
<1>5. ASSUME NEW u \in Tasks, Quiet(u) PROVE AbortKnown(u)'
  <2>1. SameSaves(u)
    BY <1>4
  <2>2. \A e \in Drivers : IsIn(e, "loop")' /\ Inner(e)'.of = u => IsIn(e, "loop") /\ Inner(e).of = u
    BY DEF IsIn, Inner
  <2>3. AbortKnown(u)
    BY DEF AbortInv
  <2>4. QED
    BY <1>5, <2>1, <2>2, <2>3, KnownKept
<1>6. AbortInv'
  BY <1>3, <1>5 DEF AbortInv
<1>7. Effects(d)
  BY <1>4, DoomKept DEF Effects, AbortPasses
<1>8. QED
  BY <1>6, <1>7

(* A step that goes on in the innermost call. *)
LEMMA GoToKeeps ==
    ASSUME AbortInv, NEW d \in Drivers, Typed', calls[d] # <<>>, NEW pc \in PCs, GoneTo(d, pc),
           pc \in Holding => ~Locked(d, Inner(d).of),
           Inner(d).by = "finalizer" => pc \in Holding \cup {"lock"},
           \A u \in Tasks : Calm(u) \/ ~Locked(d, u),
           \A u \in Tasks : Begun(u) => Begun(u)',
           RunOK(d)', \A u \in Tasks : Idling(u)',
           \A u \in Tasks :
               \/ /\ Quiet(u)
                  /\ u = Inner(d).of /\ pc = "loop" =>
                         ~Live(context'[u]) \/ ~(outcome'[u] = "aborted" /\ ~lost'[u])
               \/ AbortKnown(u)' /\ AbortPasses(u)
    PROVE  AbortInv' /\ Effects(d)
<1>  DEFINE n == Len(calls[d])
<1>1. TaskTypeOK /\ StackOK(d)
  BY DEF AbortInv, Typed
<1>2. /\ n \in Nat /\ DOMAIN calls[d] = 1 .. n /\ n \in 1 .. n /\ Inner(d) = calls[d][n]
      /\ \A i \in 1 .. n : calls[d][i].of \in Tasks
  BY <1>1, StackFacts, FrameFacts
<1>3. /\ Len(calls'[d]) = n /\ DOMAIN calls'[d] = 1 .. n
      /\ \A i \in 1 .. n :
            /\ calls'[d][i].of = calls[d][i].of /\ calls'[d][i].by = calls[d][i].by
            /\ calls'[d][i].save = calls[d][i].save
            /\ calls'[d][i].pc = IF i = n THEN pc ELSE calls[d][i].pc
  BY DEF GoneTo
<1>4. StackOK(d)'
  <2>1. ASSUME NEW i \in 1 .. n
        PROVE  /\ Begun(calls[d][i].of)'
               /\ i < n => calls'[d][i].pc \in {"core", "free", "end"}
               /\ calls'[d][i].by = "finalizer" =>
                      i > 1 /\ calls'[d][i].pc \in Holding \cup {"lock"}
    <3>1. /\ Begun(calls[d][i].of)
          /\ i < n => calls[d][i].pc \in {"core", "free", "end"}
          /\ calls[d][i].by = "finalizer" => i > 1 /\ calls[d][i].pc \in Holding \cup {"lock"}
      BY <1>1, <1>2 DEF StackOK
    <3>2. calls'[d][i].of = calls[d][i].of /\ calls[d][i].of \in Tasks
      BY <1>2, <1>3
    <3>3. Begun(calls[d][i].of)'
      BY <3>1, <3>2 DEF Begun
    <3>4. QED
      BY <1>2, <1>3, <3>1, <3>3
  <2>2. ASSUME NEW i \in 1 .. n - 1
        PROVE  IF calls'[d][i + 1].by = "finalizer"
               THEN /\ calls'[d][i + 1].of = calls'[d][i].of
                    /\ calls'[d][i].pc \in {"free", "end"}
                    /\ calls'[d][i].pc = "free" => calls'[d][i + 1].save.status = "running"
               ELSE calls'[d][i].pc = "core"
    <3>1. i \in 1 .. n /\ i + 1 \in 1 .. n /\ i # n
      BY <1>2
    <3>2. QED
      BY <1>1, <1>3, <3>1 DEF StackOK
  <2>3. Len(calls'[d]) = n /\ DOMAIN calls'[d] = 1 .. n
    BY <1>3
  <2>  HIDE DEF n
  <2>4. QED
    BY <2>1, <2>2, <2>3 DEF StackOK
<1>5. Mutex' /\ \A e \in Drivers : StackOK(e)' /\ RunOK(e)'
  <2>1. \A u \in Tasks : Holds(d, u)' => Holds(d, u) \/ ~Locked(d, u)
    BY <1>2, <1>3 DEF Holds
  <2>2. \A e \in Drivers \ {d} : calls'[e] = calls[e]
    BY DEF GoneTo
  <2>3. QED
    BY <1>4, <2>1, <2>2, OthersKept
<1>6. ASSUME NEW u \in Tasks PROVE SameSaves(u)
  <2>1. ASSUME NEW e \in Drivers
        PROVE  /\ \A i \in DOMAIN calls[e] : Finalizes(e, i, u) =>
                      i \in DOMAIN calls'[e] /\ Finalizes(e, i, u)'
               /\ \A i \in DOMAIN calls'[e] : Finalizes(e, i, u)' =>
                      /\ i \in DOMAIN calls[e] /\ Finalizes(e, i, u)
                      /\ calls'[e][i].save = calls[e][i].save
    <3>1. CASE e = d
      BY <1>2, <1>3, <3>1 DEF Finalizes
    <3>2. CASE e # d
      <4>1. calls'[e] = calls[e]
        BY <3>2 DEF GoneTo
      <4>2. QED
        BY <4>1 DEF Finalizes
    <3>3. QED
      BY <3>1, <3>2
  <2>2. QED
    BY <2>1 DEF SameSaves
<1>7. ASSUME NEW u \in Tasks, Quiet(u),
             u = Inner(d).of /\ pc = "loop" =>
                 ~Live(context'[u]) \/ ~(outcome'[u] = "aborted" /\ ~lost'[u])
      PROVE  AbortKnown(u)'
  <2>1. SameSaves(u)
    BY <1>6
  <2>2. ASSUME NEW e \in Drivers, IsIn(e, "loop")', Inner(e)'.of = u
        PROVE  \/ IsIn(e, "loop") /\ Inner(e).of = u
               \/ ~Live(context'[u])
               \/ ~(outcome'[u] = "aborted" /\ ~lost'[u])
    <3>1. CASE e = d
      <4>1. Inner(d)'.pc = pc /\ Inner(d)'.of = Inner(d).of
        BY <1>2, <1>3 DEF GoneTo
      <4>2. QED
        BY <1>7, <2>2, <3>1, <4>1 DEF IsIn
    <3>2. CASE e # d
      <4>1. calls'[e] = calls[e]
        BY <3>2 DEF GoneTo
      <4>2. QED
        BY <2>2, <4>1 DEF IsIn, Inner
    <3>3. QED
      BY <3>1, <3>2
  <2>3. AbortKnown(u)
    BY DEF AbortInv
  <2>4. QED
    BY <1>7, <2>1, <2>2, <2>3, KnownKept
<1>8. AbortInv'
  BY <1>5, <1>7 DEF AbortInv
<1>9. Effects(d)
  <2>1. \A i \in DOMAIN calls'[d] : i < Len(calls'[d]) =>
            /\ i \in DOMAIN calls[d]
            /\ calls'[d][i].of = calls[d][i].of /\ calls'[d][i].by = calls[d][i].by
            /\ calls'[d][i].pc = calls[d][i].pc
    BY <1>2, <1>3
  <2>2. \A u \in Tasks : AbortPasses(u)
    BY CalmIsQuiet, QuietPasses
  <2>3. \A e \in Drivers \ {d} : calls'[e] = calls[e]
    BY DEF GoneTo
  <2>4. QED
    BY <1>6, <2>1, <2>2, <2>3, DoomKept DEF Effects, AbortPasses
<1>10. QED
  BY <1>8, <1>9

(* A call of AsyncRun for a task, by a native function of the script of d. *)
LEMMA PushKeeps ==
    ASSUME AbortInv, NEW d \in Drivers, Typed', NEW f \in CallFrames, Pushed(d, f, Inner(d).pc),
           f.pc = "check", f.by # "finalizer", Begun(f.of),
           calls[d] # <<>> => Inner(d).pc = "core",
           outcome' = outcome, \A u \in Tasks : Calm(u) /\ Idling(u)'
    PROVE  AbortInv' /\ Effects(d)
<1>  DEFINE n == Len(calls[d])
<1>1. TaskTypeOK /\ StackOK(d)
  BY DEF AbortInv, Typed
<1>2. /\ n \in Nat /\ DOMAIN calls[d] = 1 .. n
      /\ \A i \in 1 .. n : calls[d][i].of \in Tasks
      /\ n > 0 => Inner(d) = calls[d][n] /\ calls[d][n].pc = "core"
  <2>1. n \in Nat /\ DOMAIN calls[d] = 1 .. n /\ \A i \in 1 .. n : calls[d][i].of \in Tasks
    BY <1>1, StackFacts, FrameFacts
  <2>2. n > 0 => Inner(d) = calls[d][n] /\ calls[d][n].pc = "core"
    BY <1>1, StackFacts
  <2>3. QED
    BY <2>1, <2>2
<1>3. /\ Len(calls'[d]) = n + 1 /\ DOMAIN calls'[d] = 1 .. n + 1
      /\ calls'[d][n + 1] = f /\ f.pc = "check" /\ f.by # "finalizer" /\ f.of \in Tasks
      /\ \A i \in 1 .. n :
            /\ calls'[d][i].of = calls[d][i].of /\ calls'[d][i].by = calls[d][i].by
            /\ calls'[d][i].save = calls[d][i].save
            /\ calls'[d][i].pc = calls[d][i].pc
  <2>1. \A i \in 1 .. n : i = n => Inner(d).pc = calls[d][i].pc
    BY <1>2
  <2>2. QED
    BY <2>1, FrameFacts DEF Pushed
<1>4. StackOK(d)'
  <2>1. ASSUME NEW i \in 1 .. n + 1
        PROVE  /\ Begun(calls[d][i].of)'
               /\ i < n + 1 => calls'[d][i].pc \in {"core", "free", "end"}
               /\ calls'[d][i].by = "finalizer" =>
                      i > 1 /\ calls'[d][i].pc \in Holding \cup {"lock"}
    <3>1. CASE i = n + 1
      BY <1>2, <1>3, <3>1 DEF Begun
    <3>2. CASE i # n + 1
      <4>1. i \in 1 .. n
        BY <1>2, <3>2
      <4>2. Begun(calls[d][i].of)'
        <5>1. Begun(calls[d][i].of)
          BY <1>1, <1>2, <4>1 DEF StackOK
        <5>2. QED
          BY <1>3, <4>1, <5>1 DEF Begun
      <4>3. calls'[d][i].pc \in {"core", "free", "end"}
        <5>1. i = n \/ i < n
          BY <1>2, <4>1
        <5>2. i = n => calls[d][i].pc = "core"
          BY <1>2, <4>1
        <5>3. i < n => calls[d][i].pc \in {"core", "free", "end"}
          BY <1>1, <1>2, <4>1 DEF StackOK
        <5>4. QED
          BY <1>3, <4>1, <5>1, <5>2, <5>3
      <4>4. calls'[d][i].by = "finalizer" => i > 1 /\ calls'[d][i].pc \in Holding \cup {"lock"}
        BY <1>1, <1>2, <1>3, <4>1 DEF StackOK
      <4>5. QED
        BY <4>2, <4>3, <4>4
    <3>3. QED
      BY <3>1, <3>2
  <2>2. ASSUME NEW i \in 1 .. n
        PROVE  IF calls'[d][i + 1].by = "finalizer"
               THEN /\ calls'[d][i + 1].of = calls'[d][i].of
                    /\ calls'[d][i].pc \in {"free", "end"}
                    /\ calls'[d][i].pc = "free" => calls'[d][i + 1].save.status = "running"
               ELSE calls'[d][i].pc = "core"
    <3>1. CASE i = n
      BY <1>2, <1>3, <3>1
    <3>2. CASE i # n
      <4>1. i \in 1 .. n - 1 /\ i \in 1 .. n /\ i + 1 \in 1 .. n
        BY <1>2, <3>2
      <4>2. IF calls[d][i + 1].by = "finalizer"
            THEN /\ calls[d][i + 1].of = calls[d][i].of
                 /\ calls[d][i].pc \in {"free", "end"}
                 /\ calls[d][i].pc = "free" => calls[d][i + 1].save.status = "running"
            ELSE calls[d][i].pc = "core"
        BY <1>1, <4>1 DEF StackOK
      <4>3. /\ calls'[d][i].of = calls[d][i].of /\ calls'[d][i].pc = calls[d][i].pc
            /\ calls'[d][i + 1].of = calls[d][i + 1].of
            /\ calls'[d][i + 1].by = calls[d][i + 1].by
            /\ calls'[d][i + 1].save = calls[d][i + 1].save
        BY <1>3, <4>1
      <4>4. QED
        BY <4>2, <4>3
    <3>3. QED
      BY <3>1, <3>2
  <2>3. Len(calls'[d]) = n + 1 /\ DOMAIN calls'[d] = 1 .. n + 1 /\ 1 .. (n + 1) - 1 = 1 .. n
    BY <1>2, <1>3
  <2>  HIDE DEF n
  <2>4. QED
    BY <2>1, <2>2, <2>3 DEF StackOK
<1>5. RunOK(d)'
  <2>1. Inner(d)' = f
    BY DEF Pushed
  <2>2. QED
    BY <2>1, <1>3 DEF RunOK
<1>6. Mutex' /\ \A e \in Drivers : StackOK(e)' /\ RunOK(e)'
  <2>1. ASSUME NEW u \in Tasks, Holds(d, u)' PROVE Holds(d, u)
    <3>1. PICK i \in 1 .. n + 1 : calls'[d][i].of = u /\ calls'[d][i].pc \in Holding
      BY <1>3, <2>1 DEF Holds
    <3>2. i # n + 1
      BY <1>3, <3>1 DEF Holding
    <3>3. i \in 1 .. n
      BY <1>2, <3>2
    <3>4. QED
      BY <1>2, <1>3, <3>1, <3>3 DEF Holds
  <2>2. /\ \A e \in Drivers \ {d} : calls'[e] = calls[e]
        /\ \A u \in Tasks : Begun(u) => Begun(u)'
    BY DEF Pushed, Begun
  <2>3. QED
    BY <1>4, <1>5, <2>1, <2>2, OthersKept
<1>7. ASSUME NEW u \in Tasks PROVE SameSaves(u)
  <2>1. ASSUME NEW e \in Drivers
        PROVE  /\ \A i \in DOMAIN calls[e] : Finalizes(e, i, u) =>
                      i \in DOMAIN calls'[e] /\ Finalizes(e, i, u)'
               /\ \A i \in DOMAIN calls'[e] : Finalizes(e, i, u)' =>
                      /\ i \in DOMAIN calls[e] /\ Finalizes(e, i, u)
                      /\ calls'[e][i].save = calls[e][i].save
    <3>1. CASE e = d
      <4>1. ASSUME NEW i \in 1 .. n + 1, calls'[d][i].by = "finalizer" PROVE i \in 1 .. n
        BY <1>2, <1>3, <4>1
      <4>2. \A i \in 1 .. n : i \in 1 .. n + 1
        BY <1>2
      <4>3. QED
        BY <1>2, <1>3, <3>1, <4>1, <4>2 DEF Finalizes
    <3>2. CASE e # d
      <4>1. calls'[e] = calls[e]
        BY <3>2 DEF Pushed
      <4>2. QED
        BY <4>1 DEF Finalizes
    <3>3. QED
      BY <3>1, <3>2
  <2>2. QED
    BY <2>1 DEF SameSaves
<1>8. ASSUME NEW u \in Tasks PROVE AbortKnown(u)'
  <2>1. SameSaves(u)
    BY <1>7
  <2>2. ASSUME NEW e \in Drivers, IsIn(e, "loop")', Inner(e)'.of = u
        PROVE  IsIn(e, "loop") /\ Inner(e).of = u
    <3>1. e # d
      BY <1>3, <2>2 DEF IsIn, Pushed
    <3>2. calls'[e] = calls[e]
      BY <3>1 DEF Pushed
    <3>3. QED
      BY <2>2, <3>2 DEF IsIn, Inner
  <2>3. AbortKnown(u) /\ Quiet(u)
    BY CalmIsQuiet DEF AbortInv
  <2>4. QED
    BY <2>1, <2>2, <2>3, KnownKept
<1>9. AbortInv'
  BY <1>6, <1>8 DEF AbortInv
<1>10. Effects(d)
  <2>1. \A i \in DOMAIN calls'[d] : i < Len(calls'[d]) =>
            /\ i \in DOMAIN calls[d]
            /\ calls'[d][i].of = calls[d][i].of /\ calls'[d][i].by = calls[d][i].by
            /\ calls'[d][i].pc = calls[d][i].pc
    <3>1. ASSUME NEW i \in 1 .. n + 1, i < n + 1 PROVE i \in 1 .. n
      BY <1>2, <3>1
    <3>2. QED
      BY <1>2, <1>3, <3>1
  <2>2. \A u \in Tasks : AbortPasses(u)
    BY CalmIsQuiet, QuietPasses
  <2>3. \A e \in Drivers \ {d} : calls'[e] = calls[e]
    BY DEF Pushed
  <2>4. QED
    BY <1>7, <2>1, <2>2, <2>3, DoomKept DEF Effects, AbortPasses
<1>11. QED
  BY <1>9, <1>10

(* The end of a call of AsyncRun for a task: its native function returns to the script *)
(* of d.                                                                             *)
LEMMA PopKeeps ==
    ASSUME AbortInv, NEW d \in Drivers, Typed', calls[d] # <<>>, Popped(d),
           Inner(d).by # "finalizer", outcome' = outcome, \A u \in Tasks : Calm(u) /\ Idling(u)',
           calls'[d] # <<>> => interrupt'[Inner(d)'.of] \/ context[Inner(d)'.of].status = "running"
    PROVE  AbortInv' /\ Effects(d)
<1>  DEFINE n == Len(calls[d])
<1>1. TaskTypeOK /\ StackOK(d)
  BY DEF AbortInv, Typed
<1>2. /\ n \in Nat /\ DOMAIN calls[d] = 1 .. n /\ n \in 1 .. n
      /\ \A i \in 1 .. n : calls[d][i].of \in Tasks
      /\ calls[d][n].by # "finalizer" /\ Inner(d) = calls[d][n]
  BY <1>1, StackFacts, FrameFacts
<1>3. /\ Len(calls'[d]) = n - 1 /\ DOMAIN calls'[d] = 1 .. n - 1
      /\ \A i \in 1 .. n - 1 : calls'[d][i] = calls[d][i]
  BY DEF Popped
<1>4. StackOK(d)'
  <2>1. ASSUME NEW i \in 1 .. n - 1
        PROVE  /\ Begun(calls[d][i].of)'
               /\ calls'[d][i].pc \in {"core", "free", "end"}
               /\ calls'[d][i].by = "finalizer" =>
                      i > 1 /\ calls'[d][i].pc \in Holding \cup {"lock"}
    <3>1. i \in 1 .. n /\ i < n
      BY <1>2
    <3>2. Begun(calls[d][i].of)'
      BY <1>1, <1>2, <1>3, <3>1 DEF StackOK, Begun
    <3>3. QED
      BY <1>1, <1>2, <1>3, <3>1, <3>2 DEF StackOK
  <2>2. ASSUME NEW i \in 1 .. (n - 1) - 1
        PROVE  IF calls'[d][i + 1].by = "finalizer"
               THEN /\ calls'[d][i + 1].of = calls'[d][i].of
                    /\ calls'[d][i].pc \in {"free", "end"}
                    /\ calls'[d][i].pc = "free" => calls'[d][i + 1].save.status = "running"
               ELSE calls'[d][i].pc = "core"
    <3>1. i \in 1 .. n - 1 /\ i + 1 \in 1 .. n - 1
      BY <1>2
    <3>2. QED
      BY <1>1, <1>3, <3>1 DEF StackOK
  <2>3. Len(calls'[d]) = n - 1 /\ DOMAIN calls'[d] = 1 .. n - 1
    BY <1>3
  <2>  HIDE DEF n
  <2>4. QED
    BY <2>1, <2>2, <2>3 DEF StackOK
<1>5. RunOK(d)'
  <2>  SUFFICES ASSUME calls'[d] # <<>> PROVE RunOK(d)'
    BY DEF RunOK
  <2>1. n > 1 /\ Inner(d)' = calls[d][n - 1]
    BY DEF Popped
  <2>2. n - 1 \in 1 .. n - 1 /\ (n - 1) + 1 = n
    BY <1>2, <2>1
  <2>3. calls[d][n - 1].pc = "core" /\ calls[d][n - 1].of \in Tasks
    BY <1>1, <1>2, <2>2 DEF StackOK
  <2>4. interrupt'[Inner(d)'.of] \/ context'[Inner(d)'.of].status = "running"
    BY <2>1, <2>3 DEF Calm
  <2>5. QED
    BY <2>1, <2>3, <2>4 DEF RunOK
<1>6. Mutex' /\ \A e \in Drivers : StackOK(e)' /\ RunOK(e)'
  <2>1. ASSUME NEW u \in Tasks, Holds(d, u)' PROVE Holds(d, u)
    <3>1. PICK i \in 1 .. n - 1 : calls'[d][i].of = u /\ calls'[d][i].pc \in Holding
      BY <1>3, <2>1 DEF Holds
    <3>2. i \in 1 .. n
      BY <1>2
    <3>3. QED
      BY <1>2, <1>3, <3>1, <3>2 DEF Holds
  <2>2. /\ \A e \in Drivers \ {d} : calls'[e] = calls[e]
        /\ \A u \in Tasks : Begun(u) => Begun(u)'
    BY DEF Popped, Begun
  <2>3. QED
    BY <1>4, <1>5, <2>1, <2>2, OthersKept
<1>7. ASSUME NEW u \in Tasks PROVE SameSaves(u)
  <2>1. ASSUME NEW e \in Drivers
        PROVE  /\ \A i \in DOMAIN calls[e] : Finalizes(e, i, u) =>
                      i \in DOMAIN calls'[e] /\ Finalizes(e, i, u)'
               /\ \A i \in DOMAIN calls'[e] : Finalizes(e, i, u)' =>
                      /\ i \in DOMAIN calls[e] /\ Finalizes(e, i, u)
                      /\ calls'[e][i].save = calls[e][i].save
    <3>1. CASE e = d
      <4>1. ASSUME NEW i \in 1 .. n, calls[d][i].by = "finalizer" PROVE i \in 1 .. n - 1
        BY <1>2, <4>1
      <4>2. \A i \in 1 .. n - 1 : i \in 1 .. n
        BY <1>2
      <4>3. QED
        BY <1>2, <1>3, <3>1, <4>1, <4>2 DEF Finalizes
    <3>2. CASE e # d
      <4>1. calls'[e] = calls[e]
        BY <3>2 DEF Popped
      <4>2. QED
        BY <4>1 DEF Finalizes
    <3>3. QED
      BY <3>1, <3>2
  <2>2. QED
    BY <2>1 DEF SameSaves
<1>8. ASSUME NEW u \in Tasks PROVE AbortKnown(u)'
  <2>1. SameSaves(u)
    BY <1>7
  <2>2. ASSUME NEW e \in Drivers, IsIn(e, "loop")', Inner(e)'.of = u
        PROVE  IsIn(e, "loop") /\ Inner(e).of = u
    <3>1. e # d
      <4>1. SUFFICES ASSUME e = d PROVE FALSE
        OBVIOUS
      <4>2. calls'[d] # <<>> /\ Inner(d)' = calls[d][n - 1] /\ n > 1
        BY <2>2, <4>1 DEF IsIn, Popped
      <4>3. n - 1 \in 1 .. n - 1 /\ n - 1 \in 1 .. n /\ n - 1 < n
        BY <1>2, <4>2
      <4>4. calls[d][n - 1].pc \in {"core", "free", "end"}
        BY <1>1, <1>2, <4>3 DEF StackOK
      <4>5. QED
        BY <2>2, <4>1, <4>2, <4>4 DEF IsIn
    <3>2. calls'[e] = calls[e]
      BY <3>1 DEF Popped
    <3>3. QED
      BY <2>2, <3>2 DEF IsIn, Inner
  <2>3. AbortKnown(u) /\ Quiet(u)
    BY CalmIsQuiet DEF AbortInv
  <2>4. QED
    BY <2>1, <2>2, <2>3, KnownKept
<1>9. AbortInv'
  BY <1>6, <1>8 DEF AbortInv
<1>10. Effects(d)
  <2>1. \A i \in DOMAIN calls'[d] : i < Len(calls'[d]) =>
            /\ i \in DOMAIN calls[d]
            /\ calls'[d][i].of = calls[d][i].of /\ calls'[d][i].by = calls[d][i].by
            /\ calls'[d][i].pc = calls[d][i].pc
    <3>1. \A i \in 1 .. n - 1 : i \in 1 .. n
      BY <1>2
    <3>2. QED
      BY <1>2, <1>3, <3>1
  <2>2. \A u \in Tasks : AbortPasses(u)
    BY CalmIsQuiet, QuietPasses
  <2>3. \A e \in Drivers \ {d} : calls'[e] = calls[e]
    BY DEF Popped
  <2>4. QED
    BY <1>7, <2>1, <2>2, <2>3, DoomKept DEF Effects, AbortPasses
<1>11. QED
  BY <1>9, <1>10

-----------------------------------------------------------------------------
(* The actions. *)

(* The fields of a state of a context. *)
LEMMA StateFacts ==
    ASSUME NEW c \in States
    PROVE  /\ c.status \in {"aborted", "halt", "running", "awaiting"}
           /\ c.code \in {"none", "function", "leaving", "finalizer"}
           /\ c.value \in {"nothing", "native", "returned"} /\ c.exception \in BOOLEAN
  BY DEF States

(* SetInterruptSignal leaves the context calm. *)
LEMMA SignalledFacts ==
    ASSUME Typed, NEW t \in Tasks, NEW s \in Signals, Signalled(t, s)
    PROVE  /\ signal' \in [Tasks -> Signals] /\ interrupt' \in [Tasks -> BOOLEAN]
           /\ \A u \in Tasks :
                /\ interrupt[u] => interrupt'[u]
                /\ \/ signal'[u] = signal[u]
                   \/ interrupt'[u] /\ (signal[u] = "abort" => signal'[u] = "abort")
           /\ interrupt'[t]
<1>1. Stronger(signal[t], s) \in Signals /\ (signal[t] = "abort" => Stronger(signal[t], s) = "abort")
  BY DEF Typed, Signals, Stronger
<1>2. /\ signal' = [signal EXCEPT ![t] = Stronger(signal[t], s)]
      /\ interrupt' = [interrupt EXCEPT ![t] = TRUE]
  BY DEF Signalled
<1>3. QED
  BY <1>1, <1>2 DEF Typed

(* The native function of a Task returns to the script of d. *)
LEMMA ReturnFacts ==
    ASSUME Typed, NEW cs \in Seq(CallFrames), NEW value \in BOOLEAN,
           context' = WithValue(cs, value, context), interrupt' = Interrupts(cs, context)
    PROVE  /\ context' \in [Tasks -> States] /\ interrupt' \in [Tasks -> BOOLEAN]
           /\ \A u \in Tasks :
                /\ context'[u].status = context[u].status /\ context'[u].code = context[u].code
                /\ context'[u].exception = context[u].exception
                /\ interrupt[u] => interrupt'[u]
           /\ cs # <<>> => interrupt'[Last(cs).of] \/ context[Last(cs).of].status = "running"
<1>1. cs # <<>> => Last(cs) \in CallFrames /\ Last(cs).of \in Tasks
  <2>1. cs # <<>> => Len(cs) \in 1 .. Len(cs) /\ Last(cs) = cs[Len(cs)]
    BY DEF Last
  <2>2. QED
    BY <2>1, FrameFacts
<1>2. /\ context' \in [Tasks -> States]
      /\ \A u \in Tasks :
            /\ context'[u].status = context[u].status /\ context'[u].code = context[u].code
            /\ context'[u].exception = context[u].exception
  <2>1. CASE cs = <<>> \/ ~value
    BY <2>1 DEF WithValue, Typed, TaskTypeOK
  <2>2. CASE ~(cs = <<>> \/ ~value)
    <3>  DEFINE t == Last(cs).of
                c == [context[t] EXCEPT !.value = "native"]
    <3>1. t \in Tasks /\ context[t] \in States
      BY <1>1, <2>2 DEF Typed, TaskTypeOK
    <3>2. /\ c \in States /\ c.status = context[t].status /\ c.code = context[t].code
          /\ c.exception = context[t].exception
      BY <3>1 DEF States
    <3>3. context' = [context EXCEPT ![t] = c]
      BY <2>2 DEF WithValue
    <3>  HIDE DEF c
    <3>4. QED
      BY <3>1, <3>2, <3>3 DEF Typed, TaskTypeOK
  <2>3. QED
    BY <2>1, <2>2
<1>3. /\ interrupt' \in [Tasks -> BOOLEAN]
      /\ \A u \in Tasks : interrupt'[u] <=>
            interrupt[u] \/ (cs # <<>> /\ Last(cs).of = u /\ context[u].status # "running")
  BY DEF Interrupts, Typed
<1>4. QED
  BY <1>1, <1>2, <1>3

(* begin *)
LEMMA BeginKeeps ==
    ASSUME AbortInv, NEW d \in Drivers, NEW t \in Tasks, BeginTask(d, t)
    PROVE  AbortInv' /\ Effects(d)
<1>  DEFINE c == [context[t] EXCEPT !.status = "running", !.code = "function",
                                    !.exception = FALSE]
<1>1. Typed /\ TaskTypeOK /\ context[t] \in States /\ RunOK(d)
  BY DEF AbortInv, Typed, TaskTypeOK
<1>2. c \in States /\ c.status = "running" /\ c.code = "function"
  BY <1>1 DEF States
<1>3. context' = [context EXCEPT ![t] = c]
  BY DEF BeginTask, ResetState
<1>  HIDE DEF c
<1>4. /\ context' \in [Tasks -> States] /\ context'[t] = c
      /\ \A u \in Tasks \ {t} : context'[u] = context[u]
  BY <1>1, <1>2, <1>3 DEF TaskTypeOK
<1>5. /\ signal' = [signal EXCEPT ![t] = "no"] /\ finished' = [finished EXCEPT ![t] = FALSE]
      /\ before' = [before EXCEPT ![t] = context[t]]
      /\ outcome' = [outcome EXCEPT ![t] = "pending"] /\ lost' = [lost EXCEPT ![t] = FALSE]
      /\ interrupt' = interrupt /\ result' = result /\ calls' = calls
      /\ ~Locked(d, t) /\ (~Begun(t) \/ (context[t].code = "none" /\ Renewed # {}))
  BY DEF BeginTask, ResetState
<1>6. Typed'
  BY <1>1, <1>4, <1>5 DEF Typed, TaskTypeOK, Signals, Outcomes
<1>7. \A u \in Tasks \ {t} : Calm(u)
  BY <1>1, <1>4, <1>5 DEF Calm, Typed, TaskTypeOK
<1>8. outcome'[t] = "pending" /\ before'[t] = context[t]
  BY <1>1, <1>5 DEF Typed, TaskTypeOK
<1>9. \A u \in Tasks : Begun(u) => Begun(u)'
  BY <1>7, <1>8 DEF Begun, Calm
<1>10. RunOK(d)'
  <2>1. CASE calls[d] # <<>> /\ Inner(d).of = t
    <3>1. Inner(d)' = Inner(d) /\ Inner(d).pc = "core"
      BY <1>5, <2>1 DEF Inner, BeginTask, Executes, Script, IsIn
    <3>2. QED
      BY <1>2, <1>4, <2>1, <3>1 DEF RunOK
  <2>2. CASE ~(calls[d] # <<>> /\ Inner(d).of = t)
    <3>1. calls[d] # <<>> => Inner(d).of \in Tasks \ {t}
      BY <1>1, <2>2, StackFacts
    <3>2. QED
      BY <1>1, <1>5, <1>7, <3>1, RunKept
  <2>3. QED
    BY <2>1, <2>2
<1>11. ASSUME NEW u \in Tasks PROVE Idling(u)'
  <2>1. Idling(u)
    BY DEF AbortInv
  <2>2. CASE u = t
    BY <1>5, <1>8, <2>1, <2>2 DEF Idling, Begun
  <2>3. CASE u # t
    BY <1>7, <2>1, <2>3 DEF Idling, Begun, Calm
  <2>4. QED
    BY <2>2, <2>3
<1>12. \A u \in Tasks : Quiet(u) \/ (AbortKnown(u)' /\ AbortPasses(u))
  <2>1. AbortKnown(t)' /\ AbortPasses(t)
    BY <1>5, <1>8 DEF AbortKnown, AbortPasses
  <2>2. QED
    BY <1>7, <2>1, CalmIsQuiet
<1>13. \A u \in Tasks : Calm(u) \/ ~Locked(d, u)
  BY <1>5, <1>7
<1>14. QED
  BY <1>5, <1>6, <1>9, <1>10, <1>11, <1>12, <1>13, SameKeeps

(* throw *)
LEMMA ThrowIntoKeeps ==
    ASSUME AbortInv, NEW d \in Drivers, NEW t \in Tasks, ThrowInto(d, t)
    PROVE  AbortInv' /\ Effects(d)
<1>1. Typed /\ TaskTypeOK /\ context[t] \in States /\ RunOK(d)
  BY DEF AbortInv, Typed, TaskTypeOK
<1>2. /\ before' = before /\ result' = result /\ finished' = finished /\ calls' = calls
      /\ outcome' = outcome /\ lost' = lost
  BY DEF ThrowInto
<1>3. Typed' /\ \A u \in Tasks : Calm(u)
  <2>1. CASE Signalled(t, "throw") /\ context' = context
    <3>1. /\ signal' \in [Tasks -> Signals] /\ interrupt' \in [Tasks -> BOOLEAN]
          /\ \A u \in Tasks :
                /\ interrupt[u] => interrupt'[u]
                /\ \/ signal'[u] = signal[u]
                   \/ interrupt'[u] /\ (signal[u] = "abort" => signal'[u] = "abort")
      BY <1>1, <2>1, SignalledFacts DEF Signals
    <3>2. QED
      BY <1>1, <1>2, <2>1, <3>1 DEF Typed, TaskTypeOK, Calm
  <2>2. CASE context' = [context EXCEPT ![t].exception = TRUE] /\ signal' = signal /\ interrupt' = interrupt
    <3>  DEFINE c == [context[t] EXCEPT !.exception = TRUE]
    <3>1. c \in States /\ c.status = context[t].status /\ c.code = context[t].code
      BY <1>1 DEF States
    <3>2. context' = [context EXCEPT ![t] = c]
      BY <2>2
    <3>  HIDE DEF c
    <3>3. QED
      BY <1>1, <1>2, <2>2, <3>1, <3>2 DEF Typed, TaskTypeOK, Calm
  <2>3. QED
    BY <2>1, <2>2 DEF ThrowInto
<1>4. calls[d] # <<>> => Inner(d).of \in Tasks
  BY <1>1, StackFacts
<1>5. RunOK(d)'
  BY <1>1, <1>2, <1>3, <1>4, RunKept
<1>6. \A u \in Tasks : Idling(u)' /\ (Begun(u) => Begun(u)')
  BY <1>2, <1>3 DEF AbortInv, Idling, Begun, Calm
<1>7. QED
  BY <1>2, <1>3, <1>5, <1>6, CalmIsQuiet, SameKeeps

(* The script that d executes calls a native function. *)
LEMMA ScriptFacts ==
    ASSUME AbortInv, NEW d \in Drivers, Script(d), calls[d] # <<>>
    PROVE  /\ Inner(d).of \in Tasks /\ Inner(d).pc = "core" /\ ~interrupt[Inner(d).of]
           /\ context[Inner(d).of] \in States /\ context[Inner(d).of].status = "running"
           /\ ~Locked(d, Inner(d).of)
           /\ Begun(Inner(d).of)
<1>1. Typed /\ TaskTypeOK /\ Mutex /\ StackOK(d) /\ RunOK(d)
  BY DEF AbortInv, Typed
<1>2. Inner(d).of \in Tasks /\ Inner(d).pc = "core" /\ ~interrupt[Inner(d).of]
  BY <1>1, StackFacts DEF Script, IsIn
<1>3. context[Inner(d).of] \in States /\ context[Inner(d).of].status = "running"
  BY <1>1, <1>2 DEF TaskTypeOK, RunOK
<1>4. ~Locked(d, Inner(d).of)
  BY <1>1, <1>2, HeldFacts DEF Holding
<1>5. Begun(Inner(d).of)
  <2>1. Inner(d) = calls[d][Len(calls[d])] /\ Len(calls[d]) \in DOMAIN calls[d]
    BY <1>1, StackFacts
  <2>2. QED
    BY <1>1, <2>1 DEF StackOK
<1>6. QED
  BY <1>2, <1>3, <1>4, <1>5

(* proceed and finish *)
LEMMA CallKeeps ==
    ASSUME AbortInv, NEW d \in Drivers, NEW t \in Tasks,
           ProceedTask(d, t) \/ FinishTask(d, t)
    PROVE  AbortInv' /\ Effects(d)
<1>1. Typed /\ TaskTypeOK /\ Begun(t) /\ Executes(d)
  BY DEF AbortInv, Typed, ProceedTask, FinishTask
<1>2. /\ context' = context /\ before' = before /\ result' = result /\ finished' = finished
      /\ outcome' = outcome /\ lost' = lost
  BY DEF ProceedTask, FinishTask
<1>3. /\ signal' \in [Tasks -> Signals] /\ interrupt' \in [Tasks -> BOOLEAN]
      /\ \A u \in Tasks :
            /\ interrupt[u] => interrupt'[u]
            /\ \/ signal'[u] = signal[u]
               \/ interrupt'[u] /\ (signal[u] = "abort" => signal'[u] = "abort")
  <2>1. CASE ProceedTask(d, t)
    BY <1>1, <2>1 DEF ProceedTask, Typed
  <2>2. CASE FinishTask(d, t)
    <3>1. Signalled(t, "abort")
      BY <2>2 DEF FinishTask
    <3>2. QED
      BY <1>1, <3>1, SignalledFacts DEF Signals
  <2>3. QED
    BY <2>1, <2>2
<1>4. \A u \in Tasks : Calm(u) /\ Idling(u)'
  BY <1>2, <1>3 DEF Calm, AbortInv, Idling, Begun
<1>5. PICK f \in CallFrames : /\ f.pc = "check" /\ f.by # "finalizer" /\ f.of = t
                              /\ calls' = [calls EXCEPT ![d] = Append(@, f)]
  <2>1. PICK by \in {"proceed", "finish"} : calls' = Into(d, t, by, "check")
    BY DEF ProceedTask, FinishTask
  <2>  DEFINE f == [of |-> t, by |-> by, pc |-> "check", save |-> NewContext("halt")]
  <2>2. f \in CallFrames
    BY DEF CallFrames, NewContext, States
  <2>3. f.pc = "check" /\ f.by # "finalizer" /\ f.of = t
    OBVIOUS
  <2>4. calls' = [calls EXCEPT ![d] = Append(@, f)]
    BY <2>1 DEF Into
  <2>  HIDE DEF f
  <2>5. QED
    BY <2>2, <2>3, <2>4
<1>6. Pushed(d, f, Inner(d).pc)
  BY <1>1, <1>5, PushStack
<1>7. Typed'
  BY <1>1, <1>2, <1>3, <1>6 DEF Typed, TaskTypeOK, Pushed
<1>8. calls[d] # <<>> => Inner(d).pc = "core"
  BY <1>1 DEF Executes, Script, IsIn
<1>9. QED
  BY <1>1, <1>2, <1>4, <1>5, <1>6, <1>7, <1>8, PushKeeps

(* A call for a task returns to the script around it. *)
LEMMA ReturnKeeps ==
    ASSUME AbortInv, NEW d \in Drivers, calls[d] # <<>>, Inner(d).by # "finalizer",
           calls' = [calls EXCEPT ![d] = Front(calls[d])],
           context' = WithValue(Front(calls[d]), Inner(d).by = "proceed", context),
           interrupt' = Interrupts(Front(calls[d]), context),
           signal' = signal, before' = before, outcome' = outcome, lost' = lost, Typed'
    PROVE  AbortInv' /\ Effects(d)
<1>1. Typed /\ TaskTypeOK
  BY DEF AbortInv, Typed
<1>2. Popped(d) /\ calls'[d] = Front(calls[d])
  BY <1>1, PopStack
<1>3. Front(calls[d]) \in Seq(CallFrames)
  BY <1>2 DEF Popped
<1>4. /\ \A u \in Tasks :
            /\ context'[u].status = context[u].status /\ context'[u].code = context[u].code
            /\ interrupt[u] => interrupt'[u]
      /\ Front(calls[d]) # <<>> => \/ interrupt'[Last(Front(calls[d])).of]
                                   \/ context[Last(Front(calls[d])).of].status = "running"
  <2>  DEFINE value == Inner(d).by = "proceed"
  <2>1. value \in BOOLEAN
    OBVIOUS
  <2>2. context' = WithValue(Front(calls[d]), value, context)
    OBVIOUS
  <2>  HIDE DEF value
  <2>3. QED
    BY <1>1, <1>3, <2>1, <2>2, ReturnFacts
<1>5. \A u \in Tasks : Calm(u) /\ Idling(u)'
  BY <1>4 DEF Calm, AbortInv, Idling, Begun
<1>6. calls'[d] # <<>> => interrupt'[Inner(d)'.of] \/ context[Inner(d)'.of].status = "running"
  BY <1>2, <1>4 DEF Inner
<1>7. QED
  BY <1>2, <1>5, <1>6, PopKeeps

(* What a call that returns leaves well typed. *)
LEMMA ReturnTyped ==
    ASSUME Typed, NEW d \in Drivers, calls[d] # <<>>,
           calls' = [calls EXCEPT ![d] = Front(calls[d])],
           context' = WithValue(Front(calls[d]), Inner(d).by = "proceed", context),
           interrupt' = Interrupts(Front(calls[d]), context)
    PROVE  /\ context' \in [Tasks -> States] /\ interrupt' \in [Tasks -> BOOLEAN]
           /\ calls' \in [Drivers -> Seq(CallFrames)]
<1>1. Popped(d) /\ calls'[d] = Front(calls[d])
  BY PopStack DEF Typed
<1>2. Front(calls[d]) \in Seq(CallFrames) /\ calls' \in [Drivers -> Seq(CallFrames)]
  BY <1>1 DEF Popped
<1>  DEFINE value == Inner(d).by = "proceed"
<1>3. value \in BOOLEAN /\ context' = WithValue(Front(calls[d]), value, context)
  OBVIOUS
<1>  HIDE DEF value
<1>4. context' \in [Tasks -> States] /\ interrupt' \in [Tasks -> BOOLEAN]
  BY <1>2, <1>3, ReturnFacts
<1>5. QED
  BY <1>2, <1>4

(* The innermost call of d is at pc. *)
LEMMA InnerFacts ==
    ASSUME AbortInv, NEW d \in Drivers, NEW pc \in PCs, IsIn(d, pc)
    PROVE  /\ Typed /\ TaskTypeOK /\ Mutex /\ StackOK(d) /\ RunOK(d)
           /\ calls[d] # <<>> /\ Inner(d) \in CallFrames /\ Inner(d).of \in Tasks
           /\ Inner(d).pc = pc
           /\ context[Inner(d).of] \in States /\ Begun(Inner(d).of)
           /\ Inner(d).by = "finalizer" => pc \in Holding \cup {"lock"}
           /\ pc \in Holding \/ Inner(d).by = "finalizer" => ~Locked(d, Inner(d).of)
<1>1. /\ Typed /\ TaskTypeOK /\ Mutex /\ StackOK(d) /\ RunOK(d)
      /\ calls[d] # <<>> /\ Inner(d).pc = pc
  BY DEF AbortInv, Typed, IsIn
<1>2. /\ Inner(d) \in CallFrames /\ Inner(d).of \in Tasks
      /\ Inner(d) = calls[d][Len(calls[d])] /\ Len(calls[d]) \in DOMAIN calls[d]
  BY <1>1, StackFacts
<1>3. context[Inner(d).of] \in States
  BY <1>1, <1>2 DEF TaskTypeOK
<1>4. Begun(Inner(d).of) /\ (Inner(d).by = "finalizer" => pc \in Holding \cup {"lock"})
  BY <1>1, <1>2 DEF StackOK
<1>5. pc \in Holding \/ Inner(d).by = "finalizer" => ~Locked(d, Inner(d).of)
  BY <1>1, HeldFacts
<1>6. QED
  BY <1>1, <1>2, <1>3, <1>4, <1>5

(* AsyncProceed looks at m_flagFinished. *)
LEMMA CheckKeeps ==
    ASSUME AbortInv, NEW d \in Drivers, Check(d)
    PROVE  AbortInv' /\ Effects(d)
<1>1. IsIn(d, "check") /\ "check" \in PCs /\ "lock" \in PCs
  BY DEF Check, PCs
<1>2. /\ Typed /\ TaskTypeOK /\ calls[d] # <<>> /\ Inner(d).by # "finalizer"
  BY <1>1, InnerFacts DEF Holding
<1>3. /\ signal' = signal /\ before' = before /\ result' = result /\ finished' = finished
      /\ outcome' = outcome /\ lost' = lost
  BY DEF Check
<1>4. CASE finished[Inner(d).of]
  <2>1. /\ calls' = [calls EXCEPT ![d] = Front(calls[d])]
        /\ context' = WithValue(Front(calls[d]), Inner(d).by = "proceed", context)
        /\ interrupt' = Interrupts(Front(calls[d]), context)
    BY <1>4 DEF Check
  <2>2. Typed'
    BY <1>2, <1>3, <2>1, ReturnTyped DEF Typed, TaskTypeOK
  <2>3. QED
    BY <1>2, <1>3, <2>1, <2>2, ReturnKeeps
<1>5. CASE ~finished[Inner(d).of]
  <2>1. calls' = GoTo(d, "lock") /\ context' = context /\ interrupt' = interrupt
    BY <1>5 DEF Check
  <2>2. GoneTo(d, "lock")
    BY <1>1, <1>2, <2>1, GoToStack
  <2>3. Typed'
    BY <1>2, <1>3, <2>1, <2>2 DEF Typed, TaskTypeOK, GoneTo
  <2>4. \A u \in Tasks : Calm(u) /\ Idling(u)' /\ (Begun(u) => Begun(u)')
    BY <1>3, <2>1 DEF Calm, AbortInv, Idling, Begun
  <2>5. RunOK(d)'
    <3>1. Inner(d)'.by # "finalizer" /\ Inner(d)'.pc = "lock"
      BY <1>2, <2>2, StackFacts DEF GoneTo
    <3>2. QED
      BY <3>1 DEF RunOK
  <2>6. QED
    BY <1>1, <1>2, <2>2, <2>3, <2>4, <2>5, CalmIsQuiet, GoToKeeps DEF Holding
<1>6. QED
  BY <1>4, <1>5

(* OnFinished *)
LEMMA FlagKeeps ==
    ASSUME AbortInv, NEW d \in Drivers, Flag(d)
    PROVE  AbortInv' /\ Effects(d)
<1>1. IsIn(d, "flag") /\ "flag" \in PCs
  BY DEF Flag, PCs
<1>2. /\ Typed /\ TaskTypeOK /\ calls[d] # <<>> /\ Inner(d).by # "finalizer"
  BY <1>1, InnerFacts DEF Holding
<1>3. /\ signal' = signal /\ before' = before /\ result' = result
      /\ outcome' = outcome /\ lost' = lost
      /\ finished' = [finished EXCEPT ![Inner(d).of] = TRUE]
      /\ calls' = [calls EXCEPT ![d] = Front(calls[d])]
      /\ context' = WithValue(Front(calls[d]), Inner(d).by = "proceed", context)
      /\ interrupt' = Interrupts(Front(calls[d]), context)
  BY DEF Flag
<1>4. Typed'
  BY <1>2, <1>3, ReturnTyped DEF Typed, TaskTypeOK
<1>5. QED
  BY <1>2, <1>3, <1>4, ReturnKeeps

(* The innermost call after a step within it. *)
LEMMA GoneFacts ==
    ASSUME TaskTypeOK, NEW d \in Drivers, calls[d] # <<>>, NEW pc \in PCs, GoneTo(d, pc)
    PROVE  /\ Inner(d)'.pc = pc /\ Inner(d)'.of = Inner(d).of /\ Inner(d)'.by = Inner(d).by
           /\ Inner(d)'.save = Inner(d).save
  BY StackFacts DEF GoneTo

(* The instruction that has released objects ends. *)
LEMMA EndInstructionKeeps ==
    ASSUME AbortInv, NEW d \in Drivers, EndInstruction(d)
    PROVE  AbortInv' /\ Effects(d)
<1>1. IsIn(d, "free") /\ "free" \in PCs /\ "core" \in PCs
  BY DEF EndInstruction, PCs
<1>2. /\ Typed /\ TaskTypeOK /\ RunOK(d) /\ calls[d] # <<>> /\ Inner(d).pc = "free"
      /\ ~Locked(d, Inner(d).of)
  BY <1>1, InnerFacts DEF Holding
<1>3. /\ context' = context /\ signal' = signal /\ interrupt' = interrupt /\ before' = before
      /\ result' = result /\ finished' = finished /\ outcome' = outcome /\ lost' = lost
      /\ calls' = GoTo(d, "core")
  BY DEF EndInstruction
<1>4. GoneTo(d, "core")
  BY <1>1, <1>2, <1>3, GoToStack
<1>5. Typed'
  BY <1>2, <1>3, <1>4 DEF Typed, TaskTypeOK, GoneTo
<1>6. \A u \in Tasks : Calm(u) /\ Idling(u)' /\ (Begun(u) => Begun(u)')
  BY <1>3 DEF Calm, AbortInv, Idling, Begun
<1>7. RunOK(d)'
  <2>1. Inner(d)'.pc = "core" /\ Inner(d)'.of = Inner(d).of
    BY <1>1, <1>2, <1>4, GoneFacts
  <2>2. context[Inner(d).of].status = "running"
    BY <1>2 DEF RunOK
  <2>3. QED
    BY <1>3, <2>1, <2>2 DEF RunOK
<1>8. QED
  BY <1>1, <1>2, <1>4, <1>5, <1>6, <1>7, CalmIsQuiet, GoToKeeps DEF Holding

(* The head of the loop *)
LEMMA LoopKeeps ==
    ASSUME AbortInv, NEW d \in Drivers, Loop(d)
    PROVE  AbortInv' /\ Effects(d)
<1>0. PICK t \in Tasks : t = Inner(d).of
  BY InnerFacts DEF Loop, PCs
<1>  DEFINE runs == context[t].status = "running" /\ context[t].code # "none"
            pc == IF runs THEN "core" ELSE "back"
<1>1. IsIn(d, "loop") /\ "loop" \in PCs /\ pc \in PCs /\ pc \in Holding /\ pc # "loop"
  BY DEF Loop, PCs, Holding
<1>2. /\ Typed /\ TaskTypeOK /\ RunOK(d) /\ calls[d] # <<>> /\ Inner(d).pc = "loop"
      /\ ~Locked(d, t) /\ t \in Tasks /\ context[t] \in States /\ AbortKnown(t)
  BY <1>0, <1>1, InnerFacts DEF Holding, AbortInv
<1>3. /\ signal' = signal /\ before' = before /\ result' = result
      /\ finished' = finished /\ outcome' = outcome /\ lost' = lost
      /\ calls' = GoTo(d, pc)
      /\ runs => context' = context /\ interrupt' = [interrupt EXCEPT ![t] = FALSE]
      /\ ~runs => /\ interrupt' = interrupt
                  /\ context' = IF context[t].status = "running"
                                THEN [context EXCEPT ![t].status = "halt"] ELSE context
  BY <1>0 DEF Loop
<1>  HIDE DEF pc
<1>4. GoneTo(d, pc)
  BY <1>1, <1>2, <1>3, GoToStack
<1>5. /\ context' \in [Tasks -> States] /\ \A u \in Tasks \ {t} : context'[u] = context[u]
      /\ runs => context'[t] = context[t] /\ ~interrupt'[t]
      /\ ~runs => /\ context'[t].code = context[t].code /\ context'[t].status # "running"
                  /\ context'[t].status = "aborted" <=> context[t].status = "aborted"
  <2>  DEFINE c == [context[t] EXCEPT !.status = "halt"]
  <2>1. c \in States /\ c.code = context[t].code /\ c.status = "halt"
    BY <1>2 DEF States
  <2>2. context' = context \/ context' = [context EXCEPT ![t] = c]
    BY <1>3
  <2>3. ~runs /\ context[t].status = "running" => context' = [context EXCEPT ![t] = c]
    BY <1>3
  <2>4. runs \/ context[t].status # "running" => context' = context
    BY <1>3
  <2>5. runs => ~interrupt'[t]
    BY <1>2, <1>3 DEF Typed
  <2>  HIDE DEF c
  <2>6. QED
    BY <1>2, <2>1, <2>2, <2>3, <2>4, <2>5 DEF TaskTypeOK
<1>6. /\ interrupt' \in [Tasks -> BOOLEAN]
      /\ \A u \in Tasks \ {t} : interrupt'[u] = interrupt[u]
      /\ ~runs => interrupt'[t] = interrupt[t]
  <2>1. CASE runs
    BY <1>2, <1>3, <2>1 DEF Typed
  <2>2. CASE ~runs
    BY <1>2, <1>3, <2>2 DEF Typed
  <2>3. QED
    BY <2>1, <2>2
<1>7. Typed'
  BY <1>2, <1>3, <1>4, <1>5, <1>6 DEF Typed, TaskTypeOK, GoneTo
<1>8. \A u \in Tasks \ {t} : Calm(u)
  BY <1>3, <1>5, <1>6 DEF Calm
<1>9. \A u \in Tasks : Idling(u)' /\ (Begun(u) => Begun(u)')
  <2>1. \A u \in Tasks : context'[u].code = context[u].code
    BY <1>5
  <2>2. QED
    BY <1>3, <2>1 DEF AbortInv, Idling, Begun
<1>10. RunOK(d)'
  <2>1. Inner(d)'.pc = pc /\ Inner(d)'.of = t /\ Inner(d)'.by = Inner(d).by
    BY <1>0, <1>1, <1>2, <1>4, GoneFacts
  <2>2. CASE runs
    <3>1. pc = "core" /\ context'[t].status = "running"
      BY <1>5, <2>2 DEF pc
    <3>2. QED
      BY <2>1, <3>1 DEF RunOK
  <2>3. CASE ~runs
    <3>1. pc = "back"
      BY <2>3 DEF pc
    <3>2. Inner(d).by = "finalizer" => interrupt'[t]
      BY <1>0, <1>2, <1>6, <2>3 DEF RunOK
    <3>3. QED
      BY <2>1, <3>1, <3>2 DEF RunOK
  <2>4. QED
    BY <2>2, <2>3
<1>11. Quiet(t) \/ (AbortKnown(t)' /\ AbortPasses(t))
  <2>1. CASE outcome[t] = "aborted" /\ ~lost[t]
    <3>1. ~Live(context[t])
      BY <1>0, <1>1, <1>2, <2>1 DEF AbortKnown
    <3>2. QED
      BY <1>3, <1>5, <3>1 DEF Quiet, Live
  <2>2. CASE ~(outcome[t] = "aborted" /\ ~lost[t])
    BY <1>3, <1>5, <2>2 DEF AbortKnown, AbortPasses
  <2>3. QED
    BY <2>1, <2>2
<1>12. \A u \in Tasks : Quiet(u) \/ (AbortKnown(u)' /\ AbortPasses(u))
  BY <1>8, <1>11, CalmIsQuiet
<1>13. \A u \in Tasks : Calm(u) \/ ~Locked(d, u)
  BY <1>2, <1>8
<1>14. QED
  BY <1>0, <1>1, <1>2, <1>4, <1>7, <1>9, <1>10, <1>12, <1>13, GoToKeeps

(* AsyncRun returns. *)
LEMMA BackKeeps ==
    ASSUME AbortInv, NEW d \in Drivers, Back(d)
    PROVE  AbortInv' /\ Effects(d)
<1>1. PICK t \in Tasks : t = Inner(d).of
  BY InnerFacts DEF Back, PCs
<1>2. IsIn(d, "back") /\ "back" \in PCs
  BY DEF Back, PCs
<1>3. /\ Typed /\ TaskTypeOK /\ RunOK(d) /\ calls[d] # <<>> /\ Inner(d).pc = "back"
      /\ ~Locked(d, t) /\ context[t] \in States
  BY <1>1, <1>2, InnerFacts DEF Holding
<1>4. /\ signal' = signal /\ before' = before
      /\ finished' = finished /\ outcome' = outcome /\ lost' = lost
  BY DEF Back
<1>5. ASSUME NEW pc \in {"end", "lock"}, calls' = GoTo(d, pc), context' = context,
             interrupt' = interrupt,
             result' \in [Tasks -> [value : {"nothing", "native", "returned"}, exception : BOOLEAN]],
             IF pc = "end" THEN ~IsRunning(context[t])
             ELSE IsRunning(context[t])
      PROVE  AbortInv' /\ Effects(d)
  <2>1. pc \in PCs /\ pc # "loop" /\ (Inner(d).by = "finalizer" => pc \in Holding \cup {"lock"})
    BY DEF PCs, Holding
  <2>2. GoneTo(d, pc)
    BY <1>3, <1>5, <2>1, GoToStack
  <2>3. Typed'
    BY <1>3, <1>4, <1>5, <2>2 DEF Typed, TaskTypeOK, GoneTo
  <2>4. \A u \in Tasks : Calm(u) /\ Idling(u)' /\ (Begun(u) => Begun(u)')
    BY <1>4, <1>5 DEF Calm, AbortInv, Idling, Begun
  <2>5. RunOK(d)'
    <3>1. Inner(d)'.pc = pc /\ Inner(d)'.of = t /\ Inner(d)'.by = Inner(d).by
      BY <1>1, <1>3, <2>1, <2>2, GoneFacts
    <3>2. Inner(d).by = "finalizer" =>
            interrupt[t] \/ (signal[t] = "no" /\ IsRunning(context[t]) /\ context[t].code # "none")
      BY <1>1, <1>3 DEF RunOK
    <3>3. QED
      BY <1>4, <1>5, <3>1, <3>2 DEF RunOK, IsRunning
  <2>6. QED
    BY <1>1, <1>3, <2>1, <2>2, <2>3, <2>4, <2>5, CalmIsQuiet, GoToKeeps
<1>6. CASE ~IsRunning(context[t])
  <2>1. /\ calls' = GoTo(d, "end") /\ context' = context /\ interrupt' = interrupt
        /\ result' = IF Inner(d).by = "finalizer" THEN result
                     ELSE [result EXCEPT ![t] = [value |-> context[t].value,
                                                 exception |-> context[t].exception]]
    BY <1>1, <1>6 DEF Back
  <2>2. [value |-> context[t].value, exception |-> context[t].exception] \in
            [value : {"nothing", "native", "returned"}, exception : BOOLEAN]
    BY <1>3, StateFacts
  <2>3. result' \in [Tasks -> [value : {"nothing", "native", "returned"}, exception : BOOLEAN]]
    BY <1>3, <2>1, <2>2 DEF Typed
  <2>4. QED
    BY <1>5, <1>6, <2>1, <2>3
<1>7. CASE IsRunning(context[t]) /\ Inner(d).by = "finalizer"
  <2>1. calls' = GoTo(d, "lock") /\ context' = context /\ interrupt' = interrupt /\ result' = result
    BY <1>1, <1>7 DEF Back
  <2>2. QED
    BY <1>3, <1>5, <1>7, <2>1 DEF Typed
<1>8. CASE IsRunning(context[t]) /\ Inner(d).by # "finalizer"
  <2>1. /\ calls' = [calls EXCEPT ![d] = Front(calls[d])] /\ result' = result
        /\ context' = WithValue(Front(calls[d]), Inner(d).by = "proceed", context)
        /\ interrupt' = Interrupts(Front(calls[d]), context)
    BY <1>1, <1>8 DEF Back
  <2>2. Typed'
    BY <1>3, <1>4, <2>1, ReturnTyped DEF Typed, TaskTypeOK
  <2>3. QED
    BY <1>3, <1>4, <1>8, <2>1, <2>2, ReturnKeeps
<1>9. QED
  BY <1>6, <1>7, <1>8

(* RestoreContextState *)
LEMMA RestoreFacts ==
    ASSUME Typed, NEW t \in Tasks, NEW c \in States, RestoreContextState(t, c)
    PROVE  /\ context' \in [Tasks -> States] /\ signal' \in [Tasks -> Signals]
           /\ context'[t] = c
           /\ signal'[t] = IF context[t].status = "aborted" THEN "abort" ELSE signal[t]
           /\ \A u \in Tasks \ {t} : context'[u] = context[u] /\ signal'[u] = signal[u]
<1>1. /\ context' = [context EXCEPT ![t] = c]
      /\ signal' = signal \/ signal' = [signal EXCEPT ![t] = "abort"]
      /\ context[t].status = "aborted" => signal' = [signal EXCEPT ![t] = "abort"]
      /\ context[t].status # "aborted" => signal' = signal
  BY DEF RestoreContextState
<1>2. QED
  BY <1>1 DEF Typed, TaskTypeOK, Signals

(* The function of a task has ended. *)
LEMMA EndKeeps ==
    ASSUME AbortInv, NEW d \in Drivers, FinishFunctionResult(d), Inner(d).by # "finalizer"
    PROVE  AbortInv' /\ Effects(d)
<1>1. PICK t \in Tasks : t = Inner(d).of
  BY InnerFacts DEF FinishFunctionResult, PCs
<1>2. IsIn(d, "end") /\ "end" \in PCs /\ "flag" \in PCs
  BY DEF FinishFunctionResult, PCs
<1>3. /\ Typed /\ TaskTypeOK /\ RunOK(d) /\ calls[d] # <<>> /\ Inner(d).pc = "end"
      /\ ~Locked(d, t) /\ AbortKnown(t) /\ Idling(t) /\ Begun(t)
  BY <1>1, <1>2, InnerFacts DEF Holding, AbortInv
<1>4. /\ RestoreContextState(t, before[t]) /\ calls' = GoTo(d, "flag")
      /\ interrupt' = interrupt /\ before' = before /\ result' = result
      /\ finished' = finished /\ outcome' = outcome /\ lost' = lost
  BY <1>1 DEF FinishFunctionResult
<1>5. before[t] \in States /\ before[t].code = "none"
  BY <1>3 DEF TaskTypeOK, Idling
<1>6. /\ context' \in [Tasks -> States] /\ signal' \in [Tasks -> Signals]
      /\ context'[t].code = "none"
      /\ signal'[t] = IF context[t].status = "aborted" THEN "abort" ELSE signal[t]
      /\ \A u \in Tasks \ {t} : context'[u] = context[u] /\ signal'[u] = signal[u]
  BY <1>3, <1>4, <1>5, RestoreFacts
<1>7. GoneTo(d, "flag")
  BY <1>2, <1>3, <1>4, GoToStack
<1>8. Typed'
  BY <1>3, <1>4, <1>6, <1>7 DEF Typed, TaskTypeOK, GoneTo
<1>9. \A u \in Tasks \ {t} : Calm(u)
  BY <1>4, <1>6 DEF Calm
<1>10. \A u \in Tasks : Idling(u)' /\ (Begun(u) => Begun(u)')
  BY <1>3, <1>4, <1>6 DEF AbortInv, Idling, Begun
<1>11. RunOK(d)'
  <2>1. Inner(d)'.pc = "flag" /\ Inner(d)'.by # "finalizer"
    BY <1>2, <1>3, <1>7, GoneFacts
  <2>2. QED
    BY <2>1 DEF RunOK
<1>12. Quiet(t) \/ (AbortKnown(t)' /\ AbortPasses(t))
  <2>1. CASE context[t].status = "aborted"
    BY <1>4, <1>6, <2>1 DEF AbortKnown, Live, AbortPasses
  <2>2. CASE context[t].status # "aborted"
    BY <1>4, <1>6, <2>2 DEF Quiet, Live
  <2>3. QED
    BY <2>1, <2>2
<1>13. \A u \in Tasks : Quiet(u) \/ (AbortKnown(u)' /\ AbortPasses(u))
  BY <1>9, <1>12, CalmIsQuiet
<1>14. \A u \in Tasks : Calm(u) \/ ~Locked(d, u)
  BY <1>3, <1>9
<1>15. QED
  BY <1>1, <1>2, <1>3, <1>7, <1>8, <1>10, <1>11, <1>13, <1>14, GoToKeeps DEF Holding

(* A finalizer has ended: the state of the run around it comes back. *)
LEMMA FinalizedKeeps ==
    ASSUME AbortInv, NEW d \in Drivers, FinishFunctionResult(d), Inner(d).by = "finalizer"
    PROVE  AbortInv' /\ Effects(d)
<1>1. PICK t \in Tasks : t = Inner(d).of
  BY InnerFacts DEF FinishFunctionResult, PCs
<1>  DEFINE n == Len(calls[d])
            c == Inner(d).save
<1>2. IsIn(d, "end") /\ "end" \in PCs
  BY DEF FinishFunctionResult, PCs
<1>3. /\ Typed /\ TaskTypeOK /\ Mutex /\ StackOK(d) /\ RunOK(d) /\ calls[d] # <<>>
      /\ Inner(d).pc = "end" /\ ~Locked(d, t) /\ AbortKnown(t) /\ Idling(t) /\ Begun(t)
      /\ c \in States
  BY <1>1, <1>2, InnerFacts, FrameFacts DEF Holding, AbortInv
<1>4. /\ RestoreContextState(t, c) /\ calls' = [calls EXCEPT ![d] = Front(calls[d])]
      /\ interrupt' = interrupt /\ before' = before /\ result' = result
      /\ finished' = finished /\ outcome' = outcome /\ lost' = lost
  BY <1>1 DEF FinishFunctionResult
<1>5. Popped(d)
  BY <1>3, <1>4, PopStack
<1>6. /\ n \in Nat /\ DOMAIN calls[d] = 1 .. n /\ n \in 1 .. n
      /\ \A i \in 1 .. n : calls[d][i].of \in Tasks
      /\ Inner(d) = calls[d][n]
  BY <1>3, StackFacts, FrameFacts
<1>7. /\ n > 1 /\ n - 1 \in 1 .. n /\ n - 1 \in 1 .. n - 1
      /\ calls[d][n - 1].of = t /\ calls[d][n - 1].pc \in {"free", "end"}
      /\ calls[d][n - 1].pc = "free" => c.status = "running"
  <2>1. n > 1
    BY <1>3, <1>6 DEF StackOK
  <2>2. n - 1 \in 1 .. n /\ n - 1 \in 1 .. n - 1 /\ (n - 1) + 1 = n
    BY <1>6, <2>1
  <2>3. QED
    BY <1>1, <1>3, <1>6, <2>1, <2>2 DEF StackOK
<1>8. /\ Len(calls'[d]) = n - 1 /\ DOMAIN calls'[d] = 1 .. n - 1
      /\ \A i \in 1 .. n - 1 : calls'[d][i] = calls[d][i]
      /\ calls'[d] # <<>> /\ Inner(d)' = calls[d][n - 1]
      /\ calls' \in [Drivers -> Seq(CallFrames)]
      /\ \A e \in Drivers \ {d} : calls'[e] = calls[e]
  BY <1>5, <1>7 DEF Popped
<1>9. interrupt[t] /\ interrupt'[t]
  BY <1>1, <1>3, <1>4 DEF RunOK
<1>10. /\ context' \in [Tasks -> States] /\ signal' \in [Tasks -> Signals]
       /\ context'[t] = c
       /\ signal'[t] = IF context[t].status = "aborted" THEN "abort" ELSE signal[t]
       /\ \A u \in Tasks \ {t} : context'[u] = context[u] /\ signal'[u] = signal[u]
  <2>  HIDE DEF c
  <2>1. QED
    BY <1>3, <1>4, RestoreFacts
<1>11. Typed'
  BY <1>3, <1>4, <1>8, <1>10 DEF Typed, TaskTypeOK
<1>12. \A u \in Tasks \ {t} : Calm(u)
  BY <1>4, <1>10 DEF Calm
<1>13. \A u \in Tasks : Idling(u)' /\ (Begun(u) => Begun(u)')
  <2>1. Begun(t)'
    BY <1>3, <1>4 DEF Begun
  <2>2. QED
    BY <1>3, <1>4, <1>10, <2>1 DEF AbortInv, Idling, Begun
<1>14. RunOK(d)'
  <2>1. Inner(d)'.pc = "free" => context'[t].status = "running"
    BY <1>7, <1>8, <1>10
  <2>2. Inner(d)'.of = t /\ Inner(d)'.pc \in {"free", "end"}
    BY <1>7, <1>8
  <2>3. QED
    BY <1>9, <2>1, <2>2 DEF RunOK
<1>15. StackOK(d)'
  <2>1. ASSUME NEW i \in 1 .. n - 1
        PROVE  /\ Begun(calls[d][i].of)'
               /\ calls'[d][i].pc \in {"core", "free", "end"}
               /\ calls'[d][i].by = "finalizer" =>
                      i > 1 /\ calls'[d][i].pc \in Holding \cup {"lock"}
    <3>1. i \in 1 .. n /\ i < n
      BY <1>6
    <3>2. Begun(calls[d][i].of)'
      BY <1>3, <1>4, <1>6, <1>8, <3>1 DEF StackOK, Begun
    <3>3. QED
      BY <1>3, <1>6, <1>8, <3>1, <3>2 DEF StackOK
  <2>2. ASSUME NEW i \in 1 .. (n - 1) - 1
        PROVE  IF calls'[d][i + 1].by = "finalizer"
               THEN /\ calls'[d][i + 1].of = calls'[d][i].of
                    /\ calls'[d][i].pc \in {"free", "end"}
                    /\ calls'[d][i].pc = "free" => calls'[d][i + 1].save.status = "running"
               ELSE calls'[d][i].pc = "core"
    <3>1. i \in 1 .. n - 1 /\ i + 1 \in 1 .. n - 1
      BY <1>6
    <3>2. QED
      BY <1>3, <1>8, <3>1 DEF StackOK
  <2>3. Len(calls'[d]) = n - 1 /\ DOMAIN calls'[d] = 1 .. n - 1
    BY <1>8
  <2>  HIDE DEF n, c
  <2>4. QED
    BY <2>1, <2>2, <2>3 DEF StackOK
<1>16. Mutex' /\ \A e \in Drivers : StackOK(e)' /\ RunOK(e)'
  <2>1. ASSUME NEW u \in Tasks, Holds(d, u)' PROVE Holds(d, u)
    <3>1. PICK i \in 1 .. n - 1 : calls'[d][i].of = u /\ calls'[d][i].pc \in Holding
      BY <1>8, <2>1 DEF Holds
    <3>2. i \in 1 .. n
      BY <1>6
    <3>3. QED
      BY <1>6, <1>8, <3>1, <3>2 DEF Holds
  <2>2. \A u \in Tasks : Calm(u) \/ ~Locked(d, u)
    BY <1>3, <1>12
  <2>3. QED
    BY <1>8, <1>11, <1>13, <1>14, <1>15, <2>1, <2>2, OthersKept
<1>17. \A e \in Drivers, u \in Tasks :
           IsIn(e, "loop")' /\ Inner(e)'.of = u => e # d /\ IsIn(e, "loop") /\ Inner(e).of = u
  <2>1. ~IsIn(d, "loop")'
    BY <1>7, <1>8 DEF IsIn
  <2>2. QED
    BY <1>8, <2>1 DEF IsIn, Inner
<1>18. ASSUME NEW u \in Tasks \ {t} PROVE SameSaves(u)
  <2>1. ASSUME NEW i \in 1 .. n, calls[d][i].of = u PROVE i \in 1 .. n - 1
    BY <1>1, <1>6, <2>1
  <2>2. \A i \in 1 .. n - 1 : i \in 1 .. n
    BY <1>6
  <2>3. \A i \in DOMAIN calls[d] : Finalizes(d, i, u) =>
            i \in DOMAIN calls'[d] /\ Finalizes(d, i, u)'
    BY <1>6, <1>8, <2>1 DEF Finalizes
  <2>4. \A i \in DOMAIN calls'[d] : Finalizes(d, i, u)' =>
            /\ i \in DOMAIN calls[d] /\ Finalizes(d, i, u)
            /\ calls'[d][i].save = calls[d][i].save
    BY <1>6, <1>8, <2>2 DEF Finalizes
  <2>5. QED
    BY <1>8, <2>3, <2>4 DEF SameSaves, Finalizes
<1>19. ASSUME NEW u \in Tasks \ {t} PROVE AbortKnown(u)'
  <2>1. AbortKnown(u) /\ Quiet(u)
    BY <1>12, CalmIsQuiet DEF AbortInv
  <2>2. QED
    BY <1>17, <1>18, <2>1, KnownKept
<1>20. AbortKnown(t)'
  <2>  SUFFICES ASSUME outcome[t] = "aborted", ~lost[t]
                PROVE  /\ \A e \in Drivers : \A i \in DOMAIN calls'[e] :
                            /\ Finalizes(e, i, t)' /\ Live(calls'[e][i].save)
                            /\ \A j \in DOMAIN calls'[e] : Finalizes(e, j, t)' /\ j > i =>
                                   calls'[e][j].save.status # "aborted"
                            /\ c.status # "aborted"
                            => signal'[t] = "abort"
                       /\ Live(c) => signal'[t] = "abort"
                       /\ \A e \in Drivers : ~(IsIn(e, "loop")' /\ Inner(e)'.of = t)
    BY <1>4, <1>9, <1>10 DEF AbortKnown, Live
  <2>1. Finalizes(d, n, t) /\ \A j \in 1 .. n : ~(j > n)
    BY <1>1, <1>6 DEF Finalizes
  <2>2. Live(c) => signal'[t] = "abort"
    BY <1>3, <1>6, <1>10, <2>1 DEF AbortKnown
  <2>3. ASSUME NEW e \in Drivers, NEW i \in DOMAIN calls'[e],
               Finalizes(e, i, t)', Live(calls'[e][i].save),
               \A j \in DOMAIN calls'[e] : Finalizes(e, j, t)' /\ j > i =>
                   calls'[e][j].save.status # "aborted",
               c.status # "aborted", context[t].status # "aborted"
        PROVE  signal[t] = "abort"
    <3>1. CASE e = d
      <4>1. i \in 1 .. n /\ calls[d][i] = calls'[d][i]
        BY <1>6, <1>8, <2>3, <3>1
      <4>2. \A j \in 1 .. n : Finalizes(d, j, t) /\ j > i => calls[d][j].save.status # "aborted"
        <5>1. ASSUME NEW j \in 1 .. n, Finalizes(d, j, t), j > i, j # n
              PROVE  calls[d][j].save.status # "aborted"
          <6>1. j \in 1 .. n - 1
            BY <1>6, <5>1
          <6>2. QED
            BY <1>8, <2>3, <3>1, <5>1, <6>1 DEF Finalizes
        <5>2. QED
          BY <1>6, <2>3, <5>1
      <4>3. QED
        BY <1>3, <1>6, <2>3, <3>1, <4>1, <4>2 DEF AbortKnown, Finalizes
    <3>2. CASE e # d
      <4>1. calls'[e] = calls[e]
        BY <1>8, <3>2
      <4>2. /\ i \in DOMAIN calls[e] /\ Finalizes(e, i, t) /\ Live(calls[e][i].save)
            /\ \A j \in DOMAIN calls[e] : Finalizes(e, j, t) /\ j > i =>
                   calls[e][j].save.status # "aborted"
        BY <2>3, <4>1 DEF Finalizes
      <4>3. QED
        BY <1>3, <2>3, <4>2 DEF AbortKnown
    <3>3. QED
      BY <3>1, <3>2
  <2>4. ASSUME NEW e \in Drivers, IsIn(e, "loop")', Inner(e)'.of = t PROVE FALSE
    <3>1. e # d /\ Inner(e).pc = "loop" /\ Inner(e).of = t /\ calls[e] # <<>>
      BY <1>17, <2>4 DEF IsIn
    <3>2. Inner(e) = calls[e][Len(calls[e])] /\ Len(calls[e]) \in DOMAIN calls[e]
      BY <1>3, <3>1, StackFacts
    <3>3. Locked(d, t)
      BY <3>1, <3>2 DEF Locked
    <3>4. QED
      BY <1>3, <3>3
  <2>5. QED
    BY <1>10, <2>2, <2>3, <2>4
<1>21. AbortPasses(t)
  BY <1>4, <1>10 DEF AbortPasses
<1>22. ASSUME Doomed(t) PROVE Doomed(t)' \/ signal'[t] = "abort"
  <2>1. CASE context[t].status = "aborted"
    BY <1>10, <2>1
  <2>2. CASE \E e \in Drivers : \E i \in DOMAIN calls[e] :
                 Finalizes(e, i, t) /\ calls[e][i].save.status = "aborted"
    <3>1. PICK e \in Drivers : \E i \in DOMAIN calls[e] :
                 Finalizes(e, i, t) /\ calls[e][i].save.status = "aborted"
      BY <2>2
    <3>2. PICK i \in DOMAIN calls[e] :
                 Finalizes(e, i, t) /\ calls[e][i].save.status = "aborted"
      BY <3>1
    <3>3. CASE e = d /\ i = n
      BY <1>6, <1>10, <3>2, <3>3 DEF Doomed
    <3>4. CASE ~(e = d /\ i = n)
      <4>1. i \in DOMAIN calls'[e] /\ calls'[e][i] = calls[e][i]
        BY <1>6, <1>8, <3>2, <3>4
      <4>2. QED
        BY <3>2, <4>1 DEF Doomed, Finalizes
    <3>5. QED
      BY <3>3, <3>4
  <2>3. QED
    BY <1>22, <2>1, <2>2 DEF Doomed
<1>23. AbortInv'
  BY <1>11, <1>13, <1>16, <1>19, <1>20 DEF AbortInv
<1>24. Effects(d)
  <2>1. \A i \in DOMAIN calls'[d] : i < Len(calls'[d]) =>
            /\ i \in DOMAIN calls[d]
            /\ calls'[d][i].of = calls[d][i].of /\ calls'[d][i].by = calls[d][i].by
            /\ calls'[d][i].pc = calls[d][i].pc
    <3>1. \A i \in 1 .. n - 1 : i \in 1 .. n
      BY <1>6
    <3>2. QED
      BY <1>6, <1>8, <3>1
  <2>2. ASSUME NEW u \in Tasks
        PROVE  /\ Calm(u) \/ ~Locked(d, u)
               /\ Begun(u) /\ Renewed = {} =>
                     /\ lost[u] => lost'[u]
                     /\ signal[u] = "abort" =>
                            signal'[u] = "abort" \/ lost'[u] \/ context'[u].status = "aborted"
                     /\ Doomed(u) => Doomed(u)' \/ signal'[u] = "abort"
    <3>1. CASE u = t
      BY <1>3, <1>21, <1>22, <3>1 DEF AbortPasses
    <3>2. CASE u # t
      BY <1>12, <1>18, <3>2, CalmIsQuiet, QuietPasses, DoomKept DEF AbortPasses
    <3>3. QED
      BY <3>1, <3>2
  <2>3. QED
    BY <1>8, <2>1, <2>2 DEF Effects
<1>25. QED
  BY <1>23, <1>24

(* ProcessSignal, after m_signal has been taken, with the context locked. *)
LEMMA SignalKeeps ==
    ASSUME AbortInv, NEW d \in Drivers, IsIn(d, "lock") \/ IsIn(d, "core"),
           NEW t \in Tasks, t = Inner(d).of, NEW going \in SUBSET {"loop", "back"},
           ProcessSignal(d, t, going), signal' = [signal EXCEPT ![t] = "no"],
           interrupt' = interrupt, before' = before, result' = result,
           finished' = finished, lost' = lost,
           ~Locked(d, t), IsIn(d, "core") => interrupt[t]
    PROVE  AbortInv' /\ Effects(d)
<1>1. PICK q \in {"lock", "core"} : IsIn(d, q) /\ q \in PCs
  BY DEF PCs
<1>2. /\ Typed /\ TaskTypeOK /\ RunOK(d) /\ calls[d] # <<>> /\ Inner(d).pc = q
      /\ AbortKnown(t) /\ Idling(t) /\ Begun(t) /\ context[t] \in States
      /\ Inner(d) \in CallFrames
  BY <1>1, InnerFacts DEF AbortInv
<1>3. /\ "loop" \in PCs \cap Holding /\ "back" \in PCs \cap Holding
      /\ "throw" # "abort" /\ "break" # "abort"
  BY DEF PCs, Holding
<1>4. signal[t] # "no" /\ Inner(d).by = "finalizer" => interrupt[t]
  BY <1>1, <1>2 DEF RunOK, IsIn
<1>5. /\ signal' \in [Tasks -> Signals] /\ signal'[t] = "no"
      /\ \A u \in Tasks \ {t} : signal'[u] = signal[u]
  BY <1>2 DEF Typed, Signals
<1>6. ASSUME NEW pc \in {"loop", "back"}, calls' = GoTo(d, pc), signal[t] # "no",
             context' \in [Tasks -> States], outcome' \in [Tasks -> Outcomes],
             \A u \in Tasks \ {t} : context'[u] = context[u] /\ outcome'[u] = outcome[u],
             outcome'[t] # "none",
             \/ AbortKnown(t)' /\ AbortPasses(t)
             \/ /\ Quiet(t)
                /\ ~Live(context'[t]) \/ outcome'[t] # "aborted" \/ lost'[t]
      PROVE  AbortInv' /\ Effects(d)
  <2>1. GoneTo(d, pc) /\ pc \in PCs /\ pc \in Holding
    BY <1>2, <1>3, <1>6, GoToStack
  <2>2. Typed'
    BY <1>2, <1>5, <1>6, <2>1 DEF Typed, TaskTypeOK, GoneTo
  <2>3. \A u \in Tasks \ {t} : Calm(u)
    BY <1>5, <1>6 DEF Calm
  <2>4. \A u \in Tasks : Idling(u)' /\ (Begun(u) => Begun(u)')
    <3>1. Idling(t)' /\ Begun(t)'
      BY <1>2, <1>6 DEF Idling, Begun
    <3>2. ASSUME NEW u \in Tasks \ {t} PROVE Idling(u)' /\ (Begun(u) => Begun(u)')
      BY <1>6 DEF AbortInv, Idling, Begun
    <3>3. QED
      BY <3>1, <3>2
  <2>5. RunOK(d)'
    <3>1. Inner(d)'.pc = pc /\ Inner(d)'.of = t /\ Inner(d)'.by = Inner(d).by
      BY <1>2, <2>1, GoneFacts
    <3>2. QED
      BY <1>4, <1>6, <3>1 DEF RunOK
  <2>6. \A u \in Tasks : Calm(u) \/ ~Locked(d, u)
    BY <2>3
  <2>7. \A u \in Tasks :
            \/ /\ Quiet(u)
               /\ u = Inner(d).of /\ pc = "loop" =>
                      ~Live(context'[u]) \/ ~(outcome'[u] = "aborted" /\ ~lost'[u])
            \/ AbortKnown(u)' /\ AbortPasses(u)
    <3>1. ASSUME NEW u \in Tasks \ {t} PROVE Quiet(u) /\ u # Inner(d).of
      BY <2>3, CalmIsQuiet
    <3>2. QED
      BY <1>6, <3>1
  <2>8. QED
    BY <1>2, <2>1, <2>2, <2>4, <2>5, <2>6, <2>7, GoToKeeps
<1>7. CASE signal[t] = "abort"
  <2>  DEFINE c == [context[t] EXCEPT !.status = "aborted", !.value = "nothing"]
  <2>1. c \in States /\ c.status = "aborted"
    BY <1>2 DEF States
  <2>2. /\ context' = [context EXCEPT ![t] = c] /\ calls' = GoTo(d, "back")
        /\ outcome' = [outcome EXCEPT ![t] = "aborted"]
    BY <1>7 DEF ProcessSignal
  <2>  HIDE DEF c
  <2>3. /\ context' \in [Tasks -> States] /\ outcome' \in [Tasks -> Outcomes]
        /\ \A u \in Tasks \ {t} : context'[u] = context[u] /\ outcome'[u] = outcome[u]
        /\ context'[t].status = "aborted" /\ outcome'[t] = "aborted"
    BY <1>2, <2>1, <2>2 DEF Typed, TaskTypeOK, Outcomes
  <2>4. AbortKnown(t)' /\ AbortPasses(t)
    BY <2>3 DEF AbortKnown, Live, AbortPasses
  <2>5. QED
    BY <1>6, <1>7, <2>2, <2>3, <2>4
<1>8. CASE signal[t] = "throw"
  <2>1. PICK c \in Thrown(context[t]) :
            /\ context' = [context EXCEPT ![t] = c]
            /\ outcome' = IF c.status = "halt" /\ context[t].code \in {"function", "leaving"}
                             /\ outcome[t] = "pending"
                          THEN [outcome EXCEPT ![t] = "thrown"] ELSE outcome
    BY <1>8 DEF ProcessSignal
  <2>2. PICK pc \in going : calls' = GoTo(d, pc)
    BY <1>8 DEF ProcessSignal
  <2>3. c \in States /\ (Live(c) => Live(context[t]))
        /\ (c.status # "aborted" => context[t].status # "aborted")
    BY <1>2 DEF Thrown, States, Live, IsRunning
  <2>4. /\ context' \in [Tasks -> States] /\ outcome' \in [Tasks -> Outcomes]
        /\ \A u \in Tasks \ {t} : context'[u] = context[u] /\ outcome'[u] = outcome[u]
        /\ context'[t] = c /\ (outcome'[t] = outcome[t] \/ outcome'[t] = "thrown")
    BY <1>2, <2>1, <2>3 DEF Typed, TaskTypeOK, Outcomes
  <2>5. CASE outcome'[t] = "aborted" /\ ~lost'[t]
    <3>1. outcome[t] = "aborted" /\ ~lost[t]
      BY <2>4, <2>5
    <3>2. ~Live(context'[t])
      BY <1>2, <1>8, <2>3, <2>4, <3>1 DEF AbortKnown
    <3>3. Quiet(t)
      BY <1>8, <2>3, <2>4, <3>1, <3>2 DEF Quiet
    <3>4. QED
      BY <1>2, <1>6, <1>8, <2>2, <2>4, <3>2, <3>3 DEF Begun
  <2>6. CASE ~(outcome'[t] = "aborted" /\ ~lost'[t])
    <3>1. AbortKnown(t)' /\ AbortPasses(t)
      BY <1>8, <2>3, <2>4, <2>6 DEF AbortKnown, AbortPasses
    <3>2. QED
      BY <1>2, <1>6, <1>8, <2>2, <2>4, <3>1 DEF Begun
  <2>7. QED
    BY <2>5, <2>6
<1>9. CASE signal[t] = "break"
  <2>1. calls' = GoTo(d, "back") /\ context' = context /\ outcome' = outcome
    BY <1>9 DEF ProcessSignal
  <2>2. CASE outcome[t] = "aborted" /\ ~lost[t]
    <3>1. ~Live(context'[t])
      BY <1>2, <1>9, <2>1, <2>2 DEF AbortKnown
    <3>2. Quiet(t)
      BY <1>9, <2>1, <2>2, <3>1 DEF Quiet
    <3>3. QED
      BY <1>2, <1>6, <1>9, <2>1, <3>1, <3>2 DEF Begun, Typed, TaskTypeOK
  <2>3. CASE ~(outcome[t] = "aborted" /\ ~lost[t])
    <3>1. AbortKnown(t)' /\ AbortPasses(t)
      BY <1>9, <2>1, <2>3 DEF AbortKnown, AbortPasses
    <3>2. QED
      BY <1>2, <1>6, <1>9, <2>1, <3>1 DEF Begun, Typed, TaskTypeOK
  <2>4. QED
    BY <2>2, <2>3
<1>10. QED
  BY <1>7, <1>8, <1>9 DEF ProcessSignal

(* AsyncRun takes the lock. *)
LEMMA EnterKeeps ==
    ASSUME AbortInv, NEW d \in Drivers, Enter(d)
    PROVE  AbortInv' /\ Effects(d)
<1>1. IsIn(d, "lock") /\ "lock" \in PCs /\ "loop" \in PCs /\ "back" \in PCs
      /\ "loop" \in Holding /\ "back" \in Holding
  BY DEF Enter, PCs, Holding
<1>2. PICK t \in Tasks : t = Inner(d).of
  BY <1>1, InnerFacts
<1>3. /\ signal' = [signal EXCEPT ![t] = "no"] /\ interrupt' = interrupt /\ before' = before
      /\ result' = result /\ finished' = finished /\ lost' = lost /\ ~Locked(d, t)
  BY <1>2 DEF Enter
<1>4. /\ Typed /\ TaskTypeOK /\ RunOK(d) /\ calls[d] # <<>> /\ Inner(d).pc = "lock"
      /\ AbortKnown(t) /\ context[t] \in States
  BY <1>1, <1>2, InnerFacts DEF AbortInv
<1>5. CASE ProcessSignal(d, t, {"loop"})
  <2>1. {"loop"} \in SUBSET {"loop", "back"} /\ ~IsIn(d, "core")
    BY <1>4 DEF IsIn
  <2>2. QED
    BY <1>1, <1>2, <1>3, <1>5, <2>1, SignalKeeps
<1>6. CASE signal[t] = "no" /\ outcome' = outcome
           /\ \/ /\ context[t].status = "awaiting"
                 /\ calls' = GoTo(d, "back") /\ UNCHANGED context
              \/ /\ calls' = GoTo(d, "loop")
                 /\ context' = IF context[t].status = "awaiting"
                               THEN [context EXCEPT ![t].status = "running"] ELSE context
  <2>  DEFINE c == [context[t] EXCEPT !.status = "running"]
  <2>1. c \in States /\ c.code = context[t].code /\ c.status = "running"
    BY <1>4 DEF States
  <2>2. PICK pc \in {"loop", "back"} : /\ calls' = GoTo(d, pc)
                                       /\ pc = "back" => context' = context
                                       /\ pc = "loop" => context' =
                                            IF context[t].status = "awaiting"
                                            THEN [context EXCEPT ![t] = c] ELSE context
    BY <1>6
  <2>  HIDE DEF c
  <2>3. GoneTo(d, pc) /\ pc \in PCs /\ pc \in Holding
    BY <1>1, <1>4, <2>2, GoToStack
  <2>4. /\ context' \in [Tasks -> States]
        /\ \A u \in Tasks \ {t} : context'[u] = context[u]
        /\ context'[t].code = context[t].code
        /\ pc = "back" => context'[t].status = context[t].status
        /\ pc = "loop" => context'[t].status = IF context[t].status = "awaiting" THEN "running"
                                               ELSE context[t].status
    BY <1>4, <2>1, <2>2 DEF TaskTypeOK
  <2>5. signal' = signal
    BY <1>3, <1>4, <1>6 DEF Typed
  <2>6. Typed'
    BY <1>3, <1>4, <1>6, <2>3, <2>4, <2>5 DEF Typed, TaskTypeOK, GoneTo
  <2>7. \A u \in Tasks \ {t} : Calm(u)
    BY <1>3, <1>6, <2>4, <2>5 DEF Calm
  <2>8. \A u \in Tasks : Idling(u)' /\ (Begun(u) => Begun(u)')
    <3>1. \A u \in Tasks : context'[u].code = context[u].code
      BY <2>4
    <3>2. QED
      BY <1>3, <1>6, <3>1 DEF AbortInv, Idling, Begun
  <2>9. RunOK(d)'
    <3>1. Inner(d)'.pc = pc /\ Inner(d)'.of = t /\ Inner(d)'.by = Inner(d).by
      BY <1>2, <1>4, <2>3, GoneFacts
    <3>2. Inner(d).by = "finalizer" =>
            interrupt[t] \/ (signal[t] = "no" /\ IsRunning(context[t]) /\ context[t].code # "none")
      BY <1>2, <1>4 DEF RunOK
    <3>3. QED
      BY <1>3, <2>2, <2>4, <2>5, <3>1, <3>2 DEF RunOK, IsRunning
  <2>10. Quiet(t)
    BY <1>3, <1>6, <2>2, <2>4, <2>5 DEF Quiet, Live
  <2>11. outcome[t] = "aborted" /\ ~lost[t] => ~Live(context'[t])
    BY <1>4, <1>6, <2>2, <2>4 DEF AbortKnown, Live
  <2>12. \A u \in Tasks : /\ Quiet(u)
                          /\ u = Inner(d).of /\ pc = "loop" =>
                                ~Live(context'[u]) \/ ~(outcome'[u] = "aborted" /\ ~lost'[u])
    <3>1. ASSUME NEW u \in Tasks \ {t} PROVE Quiet(u) /\ u # Inner(d).of
      BY <1>2, <2>7, CalmIsQuiet
    <3>2. QED
      BY <1>3, <1>6, <2>10, <2>11, <3>1
  <2>13. \A u \in Tasks : Calm(u) \/ ~Locked(d, u)
    BY <1>3, <2>7
  <2>14. QED
    BY <1>2, <1>3, <1>4, <2>3, <2>6, <2>8, <2>9, <2>12, <2>13, GoToKeeps
<1>7. QED
  BY <1>2, <1>5, <1>6 DEF Enter

(* RunCoreLoop returns. *)
LEMMA LeaveCoreKeeps ==
    ASSUME AbortInv, NEW d \in Drivers, LeaveCore(d)
    PROVE  AbortInv' /\ Effects(d)
<1>1. IsIn(d, "core") /\ "core" \in PCs /\ "loop" \in PCs /\ "back" \in PCs
      /\ "core" \in Holding /\ "loop" \in Holding /\ "back" \in Holding
  BY DEF LeaveCore, PCs, Holding
<1>2. PICK t \in Tasks : t = Inner(d).of
  BY <1>1, InnerFacts
<1>3. /\ signal' = [signal EXCEPT ![t] = "no"] /\ interrupt' = interrupt /\ before' = before
      /\ result' = result /\ finished' = finished /\ lost' = lost /\ interrupt[t]
  BY <1>2 DEF LeaveCore
<1>4. /\ Typed /\ TaskTypeOK /\ RunOK(d) /\ calls[d] # <<>> /\ Inner(d).pc = "core"
      /\ AbortKnown(t) /\ ~Locked(d, t)
  BY <1>1, <1>2, InnerFacts DEF AbortInv
<1>5. CASE ProcessSignal(d, t, {"loop", "back"})
  <2>1. {"loop", "back"} \in SUBSET {"loop", "back"}
    OBVIOUS
  <2>2. QED
    BY <1>1, <1>2, <1>3, <1>4, <1>5, <2>1, SignalKeeps
<1>6. CASE signal[t] = "no" /\ outcome' = outcome /\ context' = context
           /\ \E pc \in {"loop", "back"} : calls' = GoTo(d, pc)
  <2>1. PICK pc \in {"loop", "back"} : calls' = GoTo(d, pc)
    BY <1>6
  <2>2. GoneTo(d, pc) /\ pc \in PCs /\ pc \in Holding
    BY <1>1, <1>4, <2>1, GoToStack
  <2>3. signal' = signal
    BY <1>3, <1>4, <1>6 DEF Typed
  <2>4. Typed'
    BY <1>3, <1>4, <1>6, <2>2, <2>3 DEF Typed, TaskTypeOK, GoneTo
  <2>5. \A u \in Tasks : Calm(u) /\ Idling(u)' /\ (Begun(u) => Begun(u)')
    BY <1>3, <1>6, <2>3 DEF Calm, AbortInv, Idling, Begun
  <2>6. RunOK(d)'
    <3>1. Inner(d)'.pc = pc /\ Inner(d)'.of = t
      BY <1>2, <1>4, <2>2, GoneFacts
    <3>2. QED
      BY <1>3, <3>1 DEF RunOK
  <2>7. outcome[t] = "aborted" /\ ~lost[t] => ~Live(context'[t])
    BY <1>4, <1>6 DEF AbortKnown
  <2>8. \A u \in Tasks : /\ Quiet(u)
                         /\ u = Inner(d).of /\ pc = "loop" =>
                                ~Live(context'[u]) \/ ~(outcome'[u] = "aborted" /\ ~lost'[u])
    BY <1>2, <1>3, <1>6, <2>5, <2>7, CalmIsQuiet
  <2>9. QED
    BY <1>2, <1>4, <2>2, <2>4, <2>5, <2>6, <2>8, GoToKeeps
<1>7. QED
  BY <1>2, <1>5, <1>6 DEF LeaveCore

(* Steps of the script that d executes, within its context. *)
LEMMA ScriptKeeps ==
    ASSUME AbortInv, NEW d \in Drivers, Script(d), calls[d] # <<>>,
           NEW t \in Tasks, t = Inner(d).of, NEW c \in States, context' = [context EXCEPT ![t] = c],
           c.status # "aborted", Live(c) => Live(context[t]),
           interrupt' = [interrupt EXCEPT ![t] = TRUE] \/ (interrupt' = interrupt /\ c.status = "running"),
           outcome' = outcome \/ outcome' = [outcome EXCEPT ![t] = "returned"]
                              \/ outcome' = [outcome EXCEPT ![t] = "thrown"],
           signal' = signal, before' = before, result' = result, finished' = finished,
           calls' = calls, lost' = lost
    PROVE  AbortInv' /\ Effects(d)
<1>1. /\ Typed /\ TaskTypeOK /\ Inner(d).pc = "core" /\ ~interrupt[t]
      /\ context[t].status = "running" /\ ~Locked(d, t) /\ Begun(t) /\ Idling(t)
  BY ScriptFacts DEF AbortInv, Typed
<1>2. /\ context' \in [Tasks -> States] /\ context'[t] = c
      /\ \A u \in Tasks \ {t} : context'[u] = context[u]
  BY <1>1 DEF TaskTypeOK
<1>3. /\ interrupt' \in [Tasks -> BOOLEAN]
      /\ \A u \in Tasks : interrupt[u] => interrupt'[u]
      /\ interrupt'[t] \/ c.status = "running"
  BY <1>1 DEF Typed
<1>4. /\ outcome' \in [Tasks -> Outcomes]
      /\ \A u \in Tasks \ {t} : outcome'[u] = outcome[u]
      /\ outcome'[t] = outcome[t] \/ outcome'[t] \in {"returned", "thrown"}
  BY <1>1 DEF Typed, Outcomes
<1>5. Typed'
  BY <1>1, <1>2, <1>3, <1>4 DEF Typed, TaskTypeOK
<1>6. \A u \in Tasks \ {t} : Calm(u)
  BY <1>2, <1>3, <1>4 DEF Calm
<1>7. Quiet(t)
  BY <1>1, <1>2, <1>3, <1>4 DEF Quiet
<1>8. \A u \in Tasks : Idling(u)' /\ (Begun(u) => Begun(u)')
  <2>1. Idling(t)' /\ Begun(t)'
    BY <1>1, <1>4 DEF Idling, Begun
  <2>2. ASSUME NEW u \in Tasks \ {t} PROVE Idling(u)' /\ (Begun(u) => Begun(u)')
    BY <1>2, <1>4 DEF AbortInv, Idling, Begun
  <2>3. QED
    BY <2>1, <2>2
<1>9. RunOK(d)'
  <2>1. Inner(d)' = Inner(d)
    BY DEF Inner
  <2>2. QED
    BY <1>1, <1>2, <1>3, <2>1 DEF RunOK
<1>10. \A u \in Tasks : (Calm(u) \/ ~Locked(d, u)) /\ Quiet(u)
  BY <1>1, <1>6, <1>7, CalmIsQuiet
<1>11. QED
  BY <1>5, <1>8, <1>9, <1>10, SameKeeps

(* The script of a context goes on. *)
LEMMA RunScriptKeeps ==
    ASSUME AbortInv, NEW d \in Drivers,
           Pause(d) \/ Await(d) \/ Rest(d) \/ SetRetValue(d) \/ ReturnFromRun(d) \/ ThrowFromRun(d)
    PROVE  AbortInv' /\ Effects(d)
<1>1. Script(d) /\ calls[d] # <<>>
  BY DEF Pause, Await, Rest, SetRetValue, ReturnFromRun, ThrowFromRun, Executes
<1>2. PICK t \in Tasks : t = Inner(d).of
  BY <1>1, ScriptFacts
<1>3. /\ Typed /\ TaskTypeOK /\ Inner(d).pc = "core" /\ ~interrupt[t] /\ RunOK(d)
      /\ context[t] \in States /\ context[t].status = "running"
  BY <1>1, <1>2, ScriptFacts DEF AbortInv, Typed
<1>4. CASE Pause(d)
  <2>1. context' = [context EXCEPT ![t] = context[t]]
    BY <1>3, <1>4 DEF Pause, TaskTypeOK
  <2>2. QED
    BY <1>1, <1>2, <1>3, <1>4, <2>1, ScriptKeeps DEF Pause, Interrupt
<1>5. CASE Await(d)
  <2>  DEFINE c == [context[t] EXCEPT !.status = "awaiting"]
  <2>1. c \in States /\ c.status # "aborted" /\ (Live(c) => Live(context[t]))
    BY <1>3 DEF States, Live
  <2>2. /\ context' = [context EXCEPT ![t] = c] /\ interrupt' = [interrupt EXCEPT ![t] = TRUE]
        /\ signal' = signal /\ before' = before /\ result' = result /\ finished' = finished
        /\ calls' = calls /\ outcome' = outcome /\ lost' = lost
    BY <1>2, <1>5 DEF Await, Interrupt
  <2>  HIDE DEF c
  <2>3. QED
    BY <1>1, <1>2, <2>1, <2>2, ScriptKeeps
<1>6. CASE Rest(d)
  <2>1. /\ signal' \in [Tasks -> Signals] /\ interrupt' \in [Tasks -> BOOLEAN]
        /\ \A u \in Tasks :
              /\ interrupt[u] => interrupt'[u]
              /\ \/ signal'[u] = signal[u]
                 \/ interrupt'[u] /\ (signal[u] = "abort" => signal'[u] = "abort")
    BY <1>2, <1>3, <1>6, SignalledFacts DEF Rest, Signals
  <2>2. /\ context' = context /\ before' = before /\ result' = result /\ finished' = finished
        /\ calls' = calls /\ outcome' = outcome /\ lost' = lost
    BY <1>6 DEF Rest
  <2>3. Typed' /\ \A u \in Tasks : Calm(u) /\ Idling(u)' /\ (Begun(u) => Begun(u)')
    BY <1>3, <2>1, <2>2 DEF Typed, TaskTypeOK, Calm, AbortInv, Idling, Begun
  <2>4. RunOK(d)'
    BY <1>2, <1>3, <2>2, <2>3, RunKept
  <2>5. QED
    BY <2>2, <2>3, <2>4, CalmIsQuiet, SameKeeps
<1>7. CASE SetRetValue(d)
  <2>  DEFINE c == [context[t] EXCEPT !.code = "leaving", !.value = "returned"]
  <2>1. c \in States /\ c.status = "running" /\ (Live(c) => Live(context[t]))
    BY <1>2, <1>3, <1>7 DEF States, Live, SetRetValue
  <2>2. /\ context' = [context EXCEPT ![t] = c] /\ interrupt' = interrupt
        /\ signal' = signal /\ before' = before /\ result' = result /\ finished' = finished
        /\ calls' = calls /\ outcome' = outcome /\ lost' = lost
    BY <1>2, <1>7 DEF SetRetValue
  <2>  HIDE DEF c
  <2>3. QED
    BY <1>1, <1>2, <2>1, <2>2, ScriptKeeps
<1>8. CASE ReturnFromRun(d)
  <2>  DEFINE c == [context[t] EXCEPT !.code = "none"]
  <2>1. c \in States /\ c.status # "aborted" /\ (Live(c) => Live(context[t]))
    BY <1>3 DEF States, Live
  <2>2. /\ context' = [context EXCEPT ![t] = c] /\ interrupt' = [interrupt EXCEPT ![t] = TRUE]
        /\ signal' = signal /\ before' = before /\ result' = result /\ finished' = finished
        /\ calls' = calls /\ lost' = lost
        /\ outcome' = outcome \/ outcome' = [outcome EXCEPT ![t] = "returned"]
    BY <1>2, <1>8 DEF ReturnFromRun, Interrupt, Ends
  <2>  HIDE DEF c
  <2>3. QED
    BY <1>1, <1>2, <2>1, <2>2, ScriptKeeps
<1>9. CASE ThrowFromRun(d)
  <2>  DEFINE c == [context[t] EXCEPT !.status = "halt", !.exception = TRUE]
  <2>1. c \in States /\ c.status # "aborted" /\ (Live(c) => Live(context[t]))
    BY <1>3 DEF States, Live
  <2>2. /\ context' = [context EXCEPT ![t] = c] /\ interrupt' = [interrupt EXCEPT ![t] = TRUE]
        /\ signal' = signal /\ before' = before /\ result' = result /\ finished' = finished
        /\ calls' = calls /\ lost' = lost
        /\ outcome' = outcome \/ outcome' = [outcome EXCEPT ![t] = "thrown"]
    BY <1>2, <1>9 DEF ThrowFromRun, Interrupt, Ends
  <2>  HIDE DEF c
  <2>3. QED
    BY <1>1, <1>2, <2>1, <2>2, ScriptKeeps
<1>10. QED
  BY <1>4, <1>5, <1>6, <1>7, <1>8, <1>9

(* An object is released: the run of its finalizer begins. *)
LEMMA FinalizerKeeps ==
    ASSUME AbortInv, NEW d \in Drivers, InvokeFinalizer(d)
    PROVE  AbortInv' /\ Effects(d)
<1>1. PICK q \in {"end", "free", "core"} :
          IsIn(d, q) /\ q \in PCs /\ q \in Holding /\ (q = "core" => Script(d))
  BY DEF InvokeFinalizer, Script, PCs, Holding
<1>2. PICK t \in Tasks : t = Inner(d).of
  BY <1>1, InnerFacts
<1>  DEFINE n == Len(calls[d])
            f == [of |-> t, by |-> "finalizer", pc |-> "lock", save |-> context[t]]
            pc == IF Inner(d).pc = "core" THEN "free" ELSE Inner(d).pc
            c == [context[t] EXCEPT !.status = "running", !.code = "finalizer",
                                    !.exception = FALSE]
<1>3. /\ Typed /\ TaskTypeOK /\ Mutex /\ StackOK(d) /\ RunOK(d) /\ calls[d] # <<>>
      /\ Inner(d).pc = q /\ ~Locked(d, t) /\ Begun(t) /\ context[t] \in States /\ AbortKnown(t)
      /\ Idling(t) /\ Inner(d) \in CallFrames
  BY <1>1, <1>2, InnerFacts DEF AbortInv
<1>4. f \in CallFrames
  BY <1>3 DEF CallFrames
<1>5. c \in States /\ c.status = "running" /\ c.code = "finalizer"
  BY <1>3 DEF States
<1>6. /\ calls' = [calls EXCEPT ![d] = Append(Releasing(d), f)]
      /\ context' = [context EXCEPT ![t] = c] /\ signal' = [signal EXCEPT ![t] = "no"]
      /\ lost' = IF signal[t] = "abort" THEN [lost EXCEPT ![t] = TRUE] ELSE lost
      /\ interrupt' = interrupt /\ before' = before /\ result' = result
      /\ finished' = finished /\ outcome' = outcome
  BY <1>2 DEF InvokeFinalizer, ResetState
<1>7. /\ pc \in {"free", "end"} /\ (pc = "free" => context[t].status = "running")
      /\ f.of = t /\ f.by = "finalizer" /\ f.pc = "lock" /\ f.save = context[t]
  <2>1. q = "core" => context[t].status = "running"
    BY <1>1, <1>2, <1>3, ScriptFacts
  <2>2. q = "free" => context[t].status = "running"
    BY <1>2, <1>3 DEF RunOK
  <2>3. QED
    BY <1>3, <2>1, <2>2
<1>  HIDE DEF f, c
<1>8. Pushed(d, f, pc)
  BY <1>3, <1>4, <1>6, FinalizerStack
<1>  HIDE DEF pc
<1>9. /\ n \in Nat /\ DOMAIN calls[d] = 1 .. n /\ n \in 1 .. n /\ calls[d][n].of = t
      /\ \A i \in 1 .. n : calls[d][i].of \in Tasks
      /\ Inner(d) = calls[d][n]
  BY <1>2, <1>3, StackFacts, FrameFacts
<1>10. /\ Len(calls'[d]) = n + 1 /\ DOMAIN calls'[d] = 1 .. n + 1
       /\ calls'[d][n + 1] = f /\ Inner(d)' = f
       /\ \A i \in 1 .. n :
             /\ calls'[d][i].of = calls[d][i].of /\ calls'[d][i].by = calls[d][i].by
             /\ calls'[d][i].save = calls[d][i].save
             /\ calls'[d][i].pc = IF i = n THEN pc ELSE calls[d][i].pc
       /\ calls' \in [Drivers -> Seq(CallFrames)]
       /\ \A e \in Drivers \ {d} : calls'[e] = calls[e]
  BY <1>8 DEF Pushed
<1>11. /\ context' \in [Tasks -> States] /\ context'[t] = c
       /\ signal' \in [Tasks -> Signals] /\ signal'[t] = "no"
       /\ lost' \in [Tasks -> BOOLEAN] /\ (signal[t] = "abort" => lost'[t])
       /\ (signal[t] # "abort" => lost' = lost)
       /\ \A u \in Tasks \ {t} :
             context'[u] = context[u] /\ signal'[u] = signal[u] /\ lost'[u] = lost[u]
  BY <1>3, <1>5, <1>6 DEF Typed, TaskTypeOK, Signals
<1>12. Typed'
  BY <1>3, <1>6, <1>10, <1>11 DEF Typed, TaskTypeOK
<1>13. \A u \in Tasks \ {t} : Calm(u)
  BY <1>6, <1>11 DEF Calm
<1>14. \A u \in Tasks : Idling(u)' /\ (Begun(u) => Begun(u)')
  <2>1. Idling(t)' /\ Begun(t)'
    BY <1>3, <1>6 DEF Idling, Begun
  <2>2. ASSUME NEW u \in Tasks \ {t} PROVE Idling(u)' /\ (Begun(u) => Begun(u)')
    BY <1>6, <1>11 DEF AbortInv, Idling, Begun
  <2>3. QED
    BY <2>1, <2>2
<1>15. RunOK(d)'
  BY <1>5, <1>7, <1>10, <1>11 DEF RunOK, IsRunning
<1>16. StackOK(d)'
  <2>1. ASSUME NEW i \in 1 .. n + 1
        PROVE  /\ Begun(calls[d][i].of)'
               /\ i < n + 1 => calls'[d][i].pc \in {"core", "free", "end"}
               /\ calls'[d][i].by = "finalizer" =>
                      i > 1 /\ calls'[d][i].pc \in Holding \cup {"lock"}
    <3>1. CASE i = n + 1
      <4>1. Begun(calls[d][i].of)'
        BY <1>3, <1>6, <1>7, <1>10, <3>1 DEF Begun
      <4>2. QED
        BY <1>7, <1>9, <1>10, <3>1, <4>1
    <3>2. CASE i # n + 1
      <4>1. i \in 1 .. n
        BY <1>9, <3>2
      <4>2. Begun(calls[d][i].of)'
        <5>1. Begun(calls[d][i].of)
          BY <1>3, <1>9, <4>1 DEF StackOK
        <5>2. QED
          BY <1>6, <1>10, <4>1, <5>1 DEF Begun
      <4>3. /\ i < n => calls[d][i].pc \in {"core", "free", "end"}
            /\ calls[d][i].by = "finalizer" => i > 1 /\ calls[d][i].pc \in Holding \cup {"lock"}
        BY <1>3, <1>9, <4>1 DEF StackOK
      <4>4. i # n => i < n
        BY <1>9, <4>1
      <4>5. QED
        BY <1>7, <1>10, <4>1, <4>2, <4>3, <4>4 DEF Holding
    <3>3. QED
      BY <3>1, <3>2
  <2>2. ASSUME NEW i \in 1 .. n
        PROVE  IF calls'[d][i + 1].by = "finalizer"
               THEN /\ calls'[d][i + 1].of = calls'[d][i].of
                    /\ calls'[d][i].pc \in {"free", "end"}
                    /\ calls'[d][i].pc = "free" => calls'[d][i + 1].save.status = "running"
               ELSE calls'[d][i].pc = "core"
    <3>1. CASE i = n
      BY <1>7, <1>9, <1>10, <3>1
    <3>2. CASE i # n
      <4>1. i \in 1 .. n - 1 /\ i \in 1 .. n /\ i + 1 \in 1 .. n
        BY <1>9, <3>2
      <4>2. QED
        BY <1>3, <1>10, <3>2, <4>1 DEF StackOK
    <3>3. QED
      BY <3>1, <3>2
  <2>3. Len(calls'[d]) = n + 1 /\ DOMAIN calls'[d] = 1 .. n + 1 /\ 1 .. (n + 1) - 1 = 1 .. n
    BY <1>9, <1>10
  <2>  HIDE DEF n
  <2>4. QED
    BY <2>1, <2>2, <2>3 DEF StackOK
<1>17. Mutex' /\ \A e \in Drivers : StackOK(e)' /\ RunOK(e)'
  <2>1. ASSUME NEW u \in Tasks, Holds(d, u)' PROVE Holds(d, u) \/ ~Locked(d, u)
    <3>1. PICK i \in 1 .. n + 1 : calls'[d][i].of = u /\ calls'[d][i].pc \in Holding
      BY <1>10, <2>1 DEF Holds
    <3>2. i # n + 1
      BY <1>7, <1>10, <3>1 DEF Holding
    <3>3. i \in 1 .. n
      BY <1>9, <3>2
    <3>4. QED
      BY <1>3, <1>9, <1>10, <3>1, <3>3 DEF Holds
  <2>2. \A u \in Tasks : Calm(u) \/ ~Locked(d, u)
    BY <1>3, <1>13
  <2>3. QED
    BY <1>10, <1>12, <1>14, <1>15, <1>16, <2>1, <2>2, OthersKept
<1>18. \A e \in Drivers, u \in Tasks :
           IsIn(e, "loop")' /\ Inner(e)'.of = u => e # d /\ IsIn(e, "loop") /\ Inner(e).of = u
  <2>1. ~IsIn(d, "loop")'
    BY <1>7, <1>10 DEF IsIn
  <2>2. QED
    BY <1>10, <2>1 DEF IsIn, Inner
<1>19. ASSUME NEW u \in Tasks \ {t} PROVE SameSaves(u)
  <2>1. ASSUME NEW i \in 1 .. n + 1, calls'[d][i].of = u PROVE i \in 1 .. n
    BY <1>7, <1>9, <1>10, <2>1
  <2>2. \A i \in 1 .. n : i \in 1 .. n + 1
    BY <1>9
  <2>3. \A i \in DOMAIN calls[d] : Finalizes(d, i, u) =>
            i \in DOMAIN calls'[d] /\ Finalizes(d, i, u)'
    BY <1>9, <1>10, <2>2 DEF Finalizes
  <2>4. \A i \in DOMAIN calls'[d] : Finalizes(d, i, u)' =>
            /\ i \in DOMAIN calls[d] /\ Finalizes(d, i, u)
            /\ calls'[d][i].save = calls[d][i].save
    BY <1>9, <1>10, <2>1 DEF Finalizes
  <2>5. QED
    BY <1>10, <2>3, <2>4 DEF SameSaves, Finalizes
<1>20. ASSUME NEW u \in Tasks \ {t} PROVE AbortKnown(u)'
  <2>1. AbortKnown(u) /\ Quiet(u)
    BY <1>13, CalmIsQuiet DEF AbortInv
  <2>2. QED
    BY <1>18, <1>19, <2>1, KnownKept
<1>21. AbortKnown(t)'
  <2>  SUFFICES ASSUME outcome[t] = "aborted", ~lost'[t]
                PROVE  /\ \A e \in Drivers : \A i \in DOMAIN calls'[e] :
                            ~ (/\ Finalizes(e, i, t)' /\ Live(calls'[e][i].save)
                               /\ \A j \in DOMAIN calls'[e] : Finalizes(e, j, t)' /\ j > i =>
                                      calls'[e][j].save.status # "aborted")
                       /\ \A e \in Drivers : ~(IsIn(e, "loop")' /\ Inner(e)'.of = t)
    BY <1>5, <1>6, <1>11 DEF AbortKnown, Live
  <2>1. signal[t] # "abort" /\ ~lost[t] /\ ~Live(context[t])
    BY <1>3, <1>11 DEF AbortKnown
  <2>2. ASSUME NEW e \in Drivers, NEW i \in DOMAIN calls'[e],
               Finalizes(e, i, t)', Live(calls'[e][i].save),
               \A j \in DOMAIN calls'[e] : Finalizes(e, j, t)' /\ j > i =>
                   calls'[e][j].save.status # "aborted"
        PROVE  FALSE
    <3>1. e = d
      <4>1. SUFFICES ASSUME e # d PROVE FALSE
        OBVIOUS
      <4>2. calls'[e] = calls[e]
        BY <1>10, <4>1
      <4>3. i \in DOMAIN calls[e] /\ Finalizes(e, i, t)
        BY <2>2, <4>2 DEF Finalizes
      <4>4. StackOK(e)
        BY DEF AbortInv
      <4>5. Holds(e, t)
        BY <1>3, <4>3, <4>4, HeldFacts
      <4>6. Locked(d, t)
        BY <4>1, <4>5 DEF Holds, Locked, Holding
      <4>7. QED
        BY <1>3, <4>6
    <3>2. i # n + 1
      BY <1>7, <1>10, <2>1, <2>2, <3>1
    <3>3. i \in 1 .. n /\ n + 1 \in 1 .. n + 1 /\ n + 1 > i
      BY <1>9, <1>10, <2>2, <3>1, <3>2
    <3>4. context[t].status # "aborted"
      <4>1. \A j \in DOMAIN calls'[d] :
                calls'[d][j].of = t /\ calls'[d][j].by = "finalizer" /\ j > i =>
                    calls'[d][j].save.status # "aborted"
        BY <2>2, <3>1 DEF Finalizes
      <4>2. calls'[d][n + 1] = f /\ n + 1 \in DOMAIN calls'[d] /\ n + 1 > i
        BY <1>10, <3>3
      <4>3. calls'[d][n + 1].save.status # "aborted"
        BY <1>7, <4>1, <4>2
      <4>4. QED
        BY <1>7, <4>2, <4>3
    <3>5. Finalizes(d, i, t) /\ Live(calls[d][i].save)
      BY <1>10, <2>2, <3>1, <3>3 DEF Finalizes
    <3>6. \A j \in 1 .. n : Finalizes(d, j, t) /\ j > i => calls[d][j].save.status # "aborted"
      <4>1. ASSUME NEW j \in 1 .. n, Finalizes(d, j, t), j > i
            PROVE  calls[d][j].save.status # "aborted"
        <5>1. j \in 1 .. n + 1
          BY <1>9
        <5>2. Finalizes(d, j, t)'
          BY <1>10, <4>1 DEF Finalizes
        <5>3. QED
          BY <1>10, <2>2, <3>1, <4>1, <5>1, <5>2
      <4>2. QED
        BY <4>1
    <3>7. QED
      BY <1>3, <1>9, <2>1, <3>3, <3>4, <3>5, <3>6 DEF AbortKnown
  <2>3. ASSUME NEW e \in Drivers, IsIn(e, "loop")', Inner(e)'.of = t PROVE FALSE
    <3>1. e # d /\ Inner(e).pc = "loop" /\ Inner(e).of = t /\ calls[e] # <<>>
      BY <1>18, <2>3 DEF IsIn
    <3>2. Inner(e) = calls[e][Len(calls[e])] /\ Len(calls[e]) \in DOMAIN calls[e]
      BY <1>3, <3>1, StackFacts
    <3>3. Locked(d, t)
      BY <3>1, <3>2 DEF Locked
    <3>4. QED
      BY <1>3, <3>3
  <2>4. QED
    BY <2>2, <2>3
<1>22. ASSUME Doomed(t) PROVE Doomed(t)'
  <2>1. CASE context[t].status = "aborted"
    <3>1. /\ n + 1 \in DOMAIN calls'[d] /\ calls'[d][n + 1].of = t
          /\ calls'[d][n + 1].by = "finalizer" /\ calls'[d][n + 1].save.status = "aborted"
      BY <1>7, <1>9, <1>10, <2>1
    <3>2. QED
      BY <3>1 DEF Doomed, Finalizes
  <2>2. CASE \E e \in Drivers : \E i \in DOMAIN calls[e] :
                 Finalizes(e, i, t) /\ calls[e][i].save.status = "aborted"
    <3>1. PICK e \in Drivers : \E i \in DOMAIN calls[e] :
                 Finalizes(e, i, t) /\ calls[e][i].save.status = "aborted"
      BY <2>2
    <3>2. PICK i \in DOMAIN calls[e] :
                 Finalizes(e, i, t) /\ calls[e][i].save.status = "aborted"
      BY <3>1
    <3>3. i \in DOMAIN calls'[e] /\ calls'[e][i].of = calls[e][i].of
          /\ calls'[e][i].by = calls[e][i].by /\ calls'[e][i].save = calls[e][i].save
      <4>1. CASE e = d
        BY <1>9, <1>10, <3>2, <4>1
      <4>2. CASE e # d
        BY <1>10, <3>2, <4>2
      <4>3. QED
        BY <4>1, <4>2
    <3>4. QED
      BY <3>2, <3>3 DEF Doomed, Finalizes
  <2>3. QED
    BY <1>22, <2>1, <2>2 DEF Doomed
<1>23. AbortInv'
  BY <1>12, <1>14, <1>17, <1>20, <1>21 DEF AbortInv
<1>24. Effects(d)
  <2>1. ASSUME NEW i \in DOMAIN calls'[d], i < Len(calls'[d])
        PROVE  /\ i \in DOMAIN calls[d]
               /\ calls'[d][i].of = calls[d][i].of /\ calls'[d][i].by = calls[d][i].by
               /\ calls'[d][i].pc = calls[d][i].pc \/ calls[d][i].pc = "core"
    <3>1. i \in 1 .. n
      BY <1>9, <1>10, <2>1
    <3>2. i = n => pc = calls[d][i].pc \/ calls[d][i].pc = "core"
      BY <1>9 DEF pc
    <3>3. QED
      BY <1>9, <1>10, <3>1, <3>2
  <2>2. ASSUME NEW u \in Tasks
        PROVE  /\ Calm(u) \/ ~Locked(d, u)
               /\ Begun(u) /\ Renewed = {} =>
                     /\ lost[u] => lost'[u]
                     /\ signal[u] = "abort" =>
                            signal'[u] = "abort" \/ lost'[u] \/ context'[u].status = "aborted"
                     /\ Doomed(u) => Doomed(u)' \/ signal'[u] = "abort"
    <3>1. CASE u = t
      <4>1. lost[t] => lost'[t]
        BY <1>3, <1>6 DEF Typed
      <4>2. QED
        BY <1>3, <1>11, <1>22, <3>1, <4>1
    <3>2. CASE u # t
      BY <1>13, <1>19, <3>2, CalmIsQuiet, QuietPasses, DoomKept DEF AbortPasses
    <3>3. QED
      BY <3>1, <3>2
  <2>3. QED
    BY <1>10, <2>1, <2>2 DEF Effects
<1>25. QED
  BY <1>23, <1>24

-----------------------------------------------------------------------------
(* Abort. *)

(* A step of d. *)
TaskStep(d) == AsyncRun(d) \/ RunScript(d) \/ TaskMethod(d)

(* Every step keeps AbortInv. *)
LEMMA StepKeeps ==
    ASSUME AbortInv, NEW d \in Drivers, TaskStep(d)
    PROVE  AbortInv' /\ Effects(d)
<1>1. CASE AsyncRun(d)
  <2>1. CASE FinishFunctionResult(d)
    BY <2>1, EndKeeps, FinalizedKeeps
  <2>2. QED
    BY <1>1, <2>1, CheckKeeps, EnterKeeps, LoopKeeps, LeaveCoreKeeps, BackKeeps, FlagKeeps
    DEF AsyncRun
<1>2. CASE RunScript(d)
  BY <1>2, RunScriptKeeps, FinalizerKeeps, EndInstructionKeeps DEF RunScript
<1>3. CASE TaskMethod(d)
  BY <1>3, BeginKeeps, CallKeeps, ThrowIntoKeeps DEF TaskMethod
<1>4. QED
  BY <1>1, <1>2, <1>3 DEF TaskStep

(* AbortInv is inductive ... *)
LEMMA AbortStep == AbortInv /\ [TaskNext]_taskVars => AbortInv'
<1>  SUFFICES ASSUME AbortInv, [TaskNext]_taskVars PROVE AbortInv'
  OBVIOUS
<1>1. CASE TaskNext
  <2>1. PICK d \in Drivers : TaskStep(d)
    BY <1>1 DEF TaskNext, TaskStep
  <2>2. QED
    BY <2>1, StepKeeps
<1>2. CASE UNCHANGED taskVars
  <2>1. /\ context' = context /\ signal' = signal /\ interrupt' = interrupt /\ before' = before
        /\ result' = result /\ finished' = finished /\ calls' = calls /\ outcome' = outcome
        /\ lost' = lost
    BY <1>2 DEF taskVars
  <2>2. Typed' /\ Mutex'
    BY <2>1 DEF AbortInv, Typed, TaskTypeOK, Mutex, Holds
  <2>3. \A d \in Drivers : StackOK(d)' /\ RunOK(d)'
    BY <2>1 DEF AbortInv, StackOK, RunOK, Begun, Inner
  <2>4. \A t \in Tasks : Idling(t)' /\ AbortKnown(t)'
    BY <2>1 DEF AbortInv, Idling, Begun, AbortKnown, Finalizes, IsIn, Inner
  <2>5. QED
    BY <2>2, <2>3, <2>4 DEF AbortInv
<1>3. QED
  BY <1>1, <1>2

(* ... and holds at the start. *)
LEMMA AbortStart == TaskInit => AbortInv
<1>  SUFFICES ASSUME TaskInit PROVE AbortInv
  OBVIOUS
<1>1. \A d \in Drivers : calls[d] = <<>>
  BY DEF TaskInit
<1>2. \A t \in Tasks : /\ context[t].code = "none" /\ before[t].code = "none"
                       /\ outcome[t] = "none" /\ context[t] \in States
  BY DEF TaskInit, NewContext, States
<1>3. Typed
  <2>1. context \in [Tasks -> States] /\ before \in [Tasks -> States]
    BY <1>2 DEF TaskInit
  <2>2. calls \in [Drivers -> Seq(CallFrames)]
    BY DEF TaskInit
  <2>3. QED
    BY <2>1, <2>2 DEF TaskInit, Typed, TaskTypeOK, Signals, Outcomes
<1>4. \A d \in Drivers : StackOK(d) /\ RunOK(d) /\ DOMAIN calls[d] = {} /\ ~IsIn(d, "loop")
  BY <1>1 DEF StackOK, RunOK, IsIn
<1>5. Mutex
  BY <1>4 DEF Mutex, Holds
<1>6. \A t \in Tasks : Idling(t) /\ AbortKnown(t)
  BY <1>2, <1>4 DEF Idling, AbortKnown, Begun
<1>7. QED
  BY <1>3, <1>4, <1>5, <1>6 DEF AbortInv

(* Whoever runs the contexts, and however deep: the stacks, the lock of a context and *)
(* what is known of an aborted one stay in order.                                     *)
THEOREM AbortInvariant == TaskSpec => []AbortInv
  BY AbortStart, AbortStep, PTL DEF TaskSpec

(* The function of a task that has been aborted does not execute another instruction, *)
(* unless a second finalizer has cleared the signal: whatever other threads do, and   *)
(* however the runs lie inside one another.                                          *)
THEOREM AbortStays == TaskSpec => []AbortIsFinal
<1>1. AbortInv => AbortIsFinal
  <2>  SUFFICES ASSUME AbortInv, NEW d \in Drivers, calls[d] # <<>>, Script(d),
                       NEW t \in Tasks, t = Inner(d).of,
                       context[t].code \in {"function", "leaving"},
                       outcome[t] = "aborted", ~lost[t]
                PROVE  FALSE
    BY ScriptFacts DEF AbortIsFinal
  <2>1. ~interrupt[t] /\ context[t].status = "running" /\ AbortKnown(t)
    BY ScriptFacts DEF AbortInv
  <2>2. QED
    BY <2>1 DEF AbortKnown, Live
<1>2. QED
  BY <1>1, AbortInvariant, PTL

-----------------------------------------------------------------------------
(* Finish. *)

(* The call f of d, made by finish(): until the run of the task is over, a signal to *)
(* abort waits for the task, or its run is aborted by then and d waits for the lock; *)
(* the task's own function is not executed by f.                                    *)
FinishFrame(d, f) == f.by = "finish" =>
    \/ lost[f.of]
    \/ /\ f.pc \in {"check", "lock"} =>
             signal[f.of] = "abort" \/ (Doomed(f.of) /\ ~Holds(d, f.of))
       /\ f.pc = "loop" => context[f.of].status = "aborted"
       /\ f.pc = "back" => ~IsRunning(context[f.of])
       /\ f.pc \notin {"core", "free"}

FinishOK(d) == \A i \in DOMAIN calls[d] : FinishFrame(d, calls[d][i])

(* finish() returns with the task finished. *)
Ended(d) == Len(calls'[d]) < Len(calls[d]) /\ Inner(d).by = "finish" =>
    finished'[Inner(d).of] \/ lost[Inner(d).of]

FinishInv == AbortInv /\ \A d \in Drivers : FinishOK(d)

(* The calls of finish() of other threads. *)
LEMMA OthersFinish ==
    ASSUME FinishInv, AbortInv', Renewed = {}, NEW d \in Drivers, Effects(d),
           NEW e \in Drivers, e # d
    PROVE  FinishOK(e)'
<1>1. /\ calls'[e] = calls[e] /\ TaskTypeOK /\ StackOK(e) /\ FinishOK(e)
  BY DEF Effects, FinishInv, AbortInv, Typed
<1>  SUFFICES ASSUME NEW i \in DOMAIN calls[e], NEW t \in Tasks, t = calls[e][i].of,
                     calls[e][i].by = "finish", ~lost'[t],
                     NEW pc \in PCs, pc = calls[e][i].pc
              PROVE  /\ pc \in {"check", "lock"} =>
                          signal'[t] = "abort" \/ (Doomed(t)' /\ ~Holds(e, t)')
                     /\ pc = "loop" => context'[t].status = "aborted"
                     /\ pc = "back" => ~IsRunning(context'[t])
                     /\ pc \notin {"core", "free"}
  <2>1. \A i \in DOMAIN calls[e] : /\ calls[e][i].of \in Tasks /\ calls[e][i].pc \in PCs
                                   /\ calls'[e][i] = calls[e][i]
    BY <1>1, StackFacts, FrameFacts
  <2>2. DOMAIN calls'[e] = DOMAIN calls[e]
    BY <1>1
  <2>3. QED
    BY <2>1, <2>2 DEF FinishOK, FinishFrame, IsRunning
<1>2. Begun(t)
  BY <1>1 DEF StackOK
<1>3. /\ Calm(t) \/ ~Locked(d, t)
      /\ lost[t] => lost'[t]
      /\ signal[t] = "abort" => signal'[t] = "abort" \/ context'[t].status = "aborted"
      /\ Doomed(t) => Doomed(t)' \/ signal'[t] = "abort"
  BY <1>2 DEF Effects
<1>4. /\ pc \in {"check", "lock"} => signal[t] = "abort" \/ (Doomed(t) /\ ~Holds(e, t))
      /\ pc = "loop" => context[t].status = "aborted"
      /\ pc = "back" => ~IsRunning(context[t])
      /\ pc \notin {"core", "free"}
  BY <1>1, <1>3 DEF FinishOK, FinishFrame
<1>5. /\ Holds(e, t) => Locked(d, t)
      /\ Holds(e, t)' => Holds(e, t)
  BY <1>1 DEF Holds, Locked, Holding
<1>6. CASE pc \in {"check", "lock"} /\ signal[t] = "abort"
  <2>1. CASE Calm(t)
    BY <1>6, <2>1 DEF Calm
  <2>2. CASE ~Locked(d, t)
    BY <1>3, <1>5, <1>6, <2>2 DEF Doomed
  <2>3. QED
    BY <1>3, <2>1, <2>2
<1>7. CASE pc \in {"check", "lock"} /\ signal[t] # "abort"
  BY <1>3, <1>4, <1>5, <1>7
<1>8. CASE pc \in {"loop", "back"}
  <2>1. Holds(e, t)
    BY <1>8 DEF Holds, Holding
  <2>2. Calm(t)
    BY <1>3, <1>5, <2>1
  <2>3. QED
    BY <1>4, <1>8, <2>2 DEF Calm, IsRunning
<1>9. CASE pc \notin {"check", "lock", "loop", "back"}
  BY <1>4, <1>9
<1>10. QED
  BY <1>6, <1>7, <1>8, <1>9

(* The calls of finish() of d itself: those below the innermost one. *)
LEMMA OwnFinish ==
    ASSUME FinishInv, AbortInv', Renewed = {}, NEW d \in Drivers, Effects(d),
           calls'[d] # <<>> => FinishFrame(d, Inner(d))'
    PROVE  FinishOK(d)'
<1>1. TaskTypeOK /\ TaskTypeOK' /\ StackOK(d) /\ StackOK(d)' /\ FinishOK(d)
  BY DEF FinishInv, AbortInv, Typed
<1>  SUFFICES ASSUME NEW i \in DOMAIN calls'[d] PROVE FinishFrame(d, calls[d][i])'
  BY DEF FinishOK
<1>  DEFINE n == Len(calls'[d])
<1>2. /\ n \in Nat /\ DOMAIN calls'[d] = 1 .. n
      /\ calls'[d] # <<>> /\ Inner(d)' = calls'[d][n]
  <2>1. n \in Nat /\ DOMAIN calls'[d] = 1 .. n /\ (calls'[d] # <<>> <=> n > 0)
    BY <1>1 DEF TaskTypeOK
  <2>2. calls'[d] # <<>>
    BY <2>1
  <2>3. Inner(d)' = calls'[d][n]
    BY DEF Inner, Last
  <2>4. QED
    BY <2>1, <2>2, <2>3
<1>3. CASE i = n
  BY <1>2, <1>3
<1>4. CASE i # n
  <2>1. i < n
    BY <1>2, <1>4
  <2>2. /\ i \in DOMAIN calls[d]
        /\ calls'[d][i].of = calls[d][i].of /\ calls'[d][i].by = calls[d][i].by
        /\ calls'[d][i].pc = calls[d][i].pc \/ calls[d][i].pc = "core"
    BY <2>1 DEF Effects
  <2>3. calls'[d][i].pc \in {"core", "free", "end"}
    BY <1>1, <2>1 DEF StackOK
  <2>4. calls[d][i].of \in Tasks /\ Begun(calls[d][i].of)
    BY <1>1, <2>2, StackFacts, FrameFacts DEF StackOK
  <2>5. lost[calls[d][i].of] => lost'[calls[d][i].of]
    BY <2>4 DEF Effects
  <2>6. FinishFrame(d, calls[d][i])
    BY <1>1, <2>2 DEF FinishOK
  <2>7. QED
    BY <2>2, <2>3, <2>5, <2>6 DEF FinishFrame
<1>5. QED
  BY <1>3, <1>4

(* Of a call of finish() inside of its run: the abort was lost, or the run has ended. *)
LEMMA LostOrEnded ==
    ASSUME FinishInv, Renewed = {}, NEW d \in Drivers, Effects(d),
           NEW i \in DOMAIN calls[d], calls[d][i].pc \in {"core", "free", "end"},
           calls[d][i].by = "finish"
    PROVE  lost'[calls[d][i].of] \/ calls[d][i].pc = "end"
<1>1. TaskTypeOK /\ StackOK(d) /\ FinishFrame(d, calls[d][i])
  BY DEF FinishInv, FinishOK, AbortInv, Typed
<1>2. calls[d][i].of \in Tasks /\ Begun(calls[d][i].of)
  BY <1>1, StackFacts, FrameFacts DEF StackOK
<1>3. lost[calls[d][i].of] => lost'[calls[d][i].of]
  BY <1>2 DEF Effects
<1>4. QED
  BY <1>1, <1>3 DEF FinishFrame

(* A call returns to one that executes script, or ends. *)
LEMMA FinishPops ==
    ASSUME FinishInv, Renewed = {}, NEW d \in Drivers, Effects(d), calls[d] # <<>>,
           calls' = [calls EXCEPT ![d] = Front(calls[d])]
    PROVE  calls'[d] # <<>> => FinishFrame(d, Inner(d))'
<1>  SUFFICES ASSUME calls'[d] # <<>> PROVE FinishFrame(d, Inner(d))'
  OBVIOUS
<1>1. /\ Typed /\ TaskTypeOK /\ StackOK(d)
      /\ Len(calls[d]) \in Nat /\ DOMAIN calls[d] = 1 .. Len(calls[d])
  BY StackFacts DEF FinishInv, AbortInv, Typed
<1>2. Popped(d)
  BY <1>1, PopStack
<1>3. PICK i \in DOMAIN calls[d] : i < Len(calls[d]) /\ Inner(d)' = calls[d][i]
  <2>1. Len(calls[d]) > 1 /\ Inner(d)' = calls[d][Len(calls[d]) - 1]
    BY <1>2 DEF Popped
  <2>2. Len(calls[d]) - 1 \in DOMAIN calls[d] /\ Len(calls[d]) - 1 < Len(calls[d])
    BY <1>1, <2>1
  <2>3. QED
    BY <2>1, <2>2
<1>4. calls[d][i].pc \in {"core", "free", "end"}
  BY <1>1, <1>3 DEF StackOK
<1>5. QED
  BY <1>3, <1>4, LostOrEnded DEF FinishFrame

(* The call that finish() makes, up to the lock. *)
LEMMA FinishWaits ==
    ASSUME FinishInv, Renewed = {}, NEW d \in Drivers, Effects(d),
           Check(d) \/ (\E t \in Tasks : ProceedTask(d, t) \/ FinishTask(d, t))
    PROVE  (calls'[d] # <<>> => FinishFrame(d, Inner(d))') /\ Ended(d)
<1>1. Typed /\ TaskTypeOK /\ StackOK(d) /\ AbortInv
  BY DEF FinishInv, AbortInv, Typed
<1>2. CASE Check(d)
  <2>1. IsIn(d, "check") /\ "check" \in PCs /\ "lock" \in PCs
    BY <1>2 DEF Check, PCs
  <2>2. PICK t \in Tasks : t = Inner(d).of
    BY <1>1, <2>1, InnerFacts
  <2>3. /\ calls[d] # <<>> /\ Inner(d).pc = "check" /\ Begun(t)
        /\ Inner(d) = calls[d][Len(calls[d])] /\ Len(calls[d]) \in DOMAIN calls[d]
        /\ Len(calls[d]) \in Nat /\ DOMAIN calls[d] = 1 .. Len(calls[d])
    BY <1>1, <2>1, <2>2, InnerFacts, StackFacts
  <2>4. CASE finished[t]
    <3>1. calls' = [calls EXCEPT ![d] = Front(calls[d])]
      BY <1>2, <2>2, <2>4 DEF Check
    <3>2. finished'[t]
      BY <1>2, <2>2, <2>4 DEF Check
    <3>3. QED
      BY <2>2, <2>3, <3>1, <3>2, FinishPops DEF Ended
  <2>5. CASE ~finished[t]
    <3>1. calls' = GoTo(d, "lock") /\ signal' = signal
      BY <1>2, <2>2, <2>5 DEF Check
    <3>2. GoneTo(d, "lock")
      BY <1>1, <2>1, <2>3, <3>1, GoToStack
    <3>3. Inner(d)'.pc = "lock" /\ Inner(d)'.of = t /\ Inner(d)'.by = Inner(d).by
      BY <1>1, <2>1, <2>2, <2>3, <3>2, GoneFacts
    <3>4. Holds(d, t)' => Holds(d, t)
      BY <2>3, <3>2 DEF GoneTo, Holds, Holding
    <3>5. /\ Doomed(t) => Doomed(t)' \/ signal'[t] = "abort"
          /\ lost[t] => lost'[t]
      BY <2>3 DEF Effects
    <3>6. FinishFrame(d, Inner(d))
      BY <2>3 DEF FinishInv, FinishOK
    <3>7. QED
      BY <2>2, <2>3, <3>1, <3>2, <3>3, <3>4, <3>5, <3>6 DEF FinishFrame, Ended, GoneTo
  <2>6. QED
    BY <2>4, <2>5
<1>3. ASSUME NEW t \in Tasks, NEW by \in {"proceed", "finish"}, calls' = Into(d, t, by, "check"),
             by = "finish" => signal'[t] = "abort"
      PROVE  FinishFrame(d, Inner(d))' /\ Ended(d)
  <2>  DEFINE f == [of |-> t, by |-> by, pc |-> "check", save |-> NewContext("halt")]
  <2>1. f \in CallFrames /\ f.of = t /\ f.by = by /\ f.pc = "check"
    BY DEF CallFrames, NewContext, States
  <2>2. calls' = [calls EXCEPT ![d] = Append(@, f)]
    BY <1>3 DEF Into
  <2>  HIDE DEF f
  <2>3. Inner(d)' = f /\ Len(calls'[d]) = Len(calls[d]) + 1 /\ Len(calls[d]) \in Nat
    BY <1>1, <2>1, <2>2, PushStack, StackFacts DEF Pushed
  <2>4. QED
    BY <1>3, <2>1, <2>3 DEF FinishFrame, Ended
<1>4. ASSUME NEW t \in Tasks, FinishTask(d, t) PROVE FinishFrame(d, Inner(d))' /\ Ended(d)
  <2>1. signal' = [signal EXCEPT ![t] = Stronger(signal[t], "abort")]
    BY <1>4 DEF FinishTask, Signalled
  <2>2. Stronger(signal[t], "abort") = "abort"
    BY <1>1 DEF Typed, Signals, Stronger
  <2>3. signal'[t] = "abort"
    BY <1>1, <2>1, <2>2 DEF Typed
  <2>4. QED
    BY <1>3, <1>4, <2>3 DEF FinishTask
<1>5. ASSUME NEW t \in Tasks, ProceedTask(d, t) PROVE FinishFrame(d, Inner(d))' /\ Ended(d)
  BY <1>3, <1>5 DEF ProceedTask
<1>6. QED
  BY <1>2, <1>4, <1>5

(* The run that finish() makes. *)
LEMMA FinishRuns ==
    ASSUME FinishInv, Renewed = {}, NEW d \in Drivers, Effects(d), Enter(d) \/ Loop(d)
    PROVE  FinishFrame(d, Inner(d))' /\ Ended(d)
<1>1. PICK q \in {"lock", "loop"} : IsIn(d, q) /\ q \in PCs
  BY DEF Enter, Loop, PCs
<1>2. PICK t \in Tasks : t = Inner(d).of
  BY <1>1, InnerFacts DEF FinishInv
<1>3. /\ Typed /\ TaskTypeOK /\ Mutex /\ StackOK(d) /\ calls[d] # <<>> /\ Inner(d).pc = q
      /\ Begun(t) /\ context[t] \in States
  BY <1>1, <1>2, InnerFacts DEF FinishInv
<1>4. "loop" \in PCs /\ "back" \in PCs /\ "core" \in PCs
  BY DEF PCs
<1>5. ASSUME NEW pc \in {"loop", "back", "core"}, calls' = GoTo(d, pc),
             Inner(d).by = "finish" /\ ~lost[t] =>
                 context'[t].status = "aborted" /\ pc # "core"
      PROVE  FinishFrame(d, Inner(d))' /\ Ended(d)
  <2>1. GoneTo(d, pc) /\ pc \in PCs
    BY <1>3, <1>4, <1>5, GoToStack
  <2>2. Inner(d)'.pc = pc /\ Inner(d)'.of = t /\ Inner(d)'.by = Inner(d).by
    BY <1>2, <1>3, <2>1, GoneFacts
  <2>3. lost[t] => lost'[t]
    BY <1>3 DEF Effects
  <2>4. Len(calls'[d]) = Len(calls[d]) /\ Len(calls[d]) \in Nat
    BY <1>3, <2>1, StackFacts DEF GoneTo
  <2>5. QED
    BY <1>5, <2>2, <2>3, <2>4 DEF FinishFrame, IsRunning, Ended
<1>6. FinishFrame(d, Inner(d))
  <2>1. Inner(d) = calls[d][Len(calls[d])] /\ Len(calls[d]) \in DOMAIN calls[d]
    BY <1>3, StackFacts
  <2>2. QED
    BY <2>1 DEF FinishInv, FinishOK
<1>7. CASE Loop(d)
  <2>1. Inner(d).by = "finish" /\ ~lost[t] => context[t].status = "aborted"
    BY <1>2, <1>6, <1>7 DEF FinishFrame, Loop, IsIn
  <2>2. \E pc \in {"back", "core"} :
           /\ calls' = GoTo(d, pc)
           /\ context[t].status = "aborted" => context' = context /\ pc = "back"
    BY <1>2, <1>7 DEF Loop
  <2>3. QED
    BY <1>5, <2>1, <2>2
<1>8. CASE Enter(d)
  <2>1. ~Locked(d, t) /\ Inner(d).pc = "lock"
    BY <1>2, <1>8 DEF Enter, IsIn
  <2>2. Inner(d).by = "finish" /\ ~lost[t] /\ signal[t] # "abort" => context[t].status = "aborted"
    <3>  SUFFICES ASSUME Doomed(t), ~Holds(d, t) PROVE context[t].status = "aborted"
      BY <1>2, <1>6, <2>1 DEF FinishFrame
    <3>1. ASSUME NEW e \in Drivers, NEW i \in DOMAIN calls[e], Finalizes(e, i, t) PROVE FALSE
      <4>1. StackOK(e)
        BY DEF FinishInv, AbortInv
      <4>2. Holds(e, t)
        BY <1>3, <3>1, <4>1, HeldFacts
      <4>3. e # d
        BY <4>2
      <4>4. QED
        BY <2>1, <4>2, <4>3 DEF Holds, Locked, Holding
    <3>2. QED
      BY <3>1 DEF Doomed
  <2>3. CASE signal[t] = "abort"
    <3>1. /\ context' = [context EXCEPT ![t].status = "aborted", ![t].value = "nothing"]
          /\ calls' = GoTo(d, "back")
      BY <1>2, <1>8, <2>3 DEF Enter, ProcessSignal
    <3>  DEFINE c == [context[t] EXCEPT !.status = "aborted", !.value = "nothing"]
    <3>2. c.status = "aborted" /\ context' = [context EXCEPT ![t] = c]
      BY <1>3, <3>1 DEF States
    <3>  HIDE DEF c
    <3>3. context'[t].status = "aborted"
      BY <1>3, <3>2 DEF TaskTypeOK
    <3>4. QED
      BY <1>5, <3>1, <3>3
  <2>4. CASE signal[t] # "abort"
    <3>1. \E pc \in {"loop", "back"} :
             /\ calls' = GoTo(d, pc)
             /\ context[t].status = "aborted" => context'[t].status = "aborted"
      <4>1. CASE ProcessSignal(d, t, {"loop"})
        <5>1. CASE signal[t] = "throw"
          <6>1. PICK c \in Thrown(context[t]) : context' = [context EXCEPT ![t] = c]
            BY <4>1, <5>1 DEF ProcessSignal
          <6>2. context'[t] = c
            BY <1>3, <6>1 DEF TaskTypeOK
          <6>3. context[t].status = "aborted" => c.status = "aborted"
            BY <1>3, <6>1 DEF Thrown, States, IsRunning
          <6>4. calls' = GoTo(d, "loop")
            BY <4>1, <5>1 DEF ProcessSignal
          <6>5. QED
            BY <6>2, <6>3, <6>4
        <5>2. CASE signal[t] # "throw"
          BY <2>4, <4>1, <5>2 DEF ProcessSignal
        <5>3. QED
          BY <5>1, <5>2
      <4>2. CASE ~ProcessSignal(d, t, {"loop"})
        <5>1. \/ calls' = GoTo(d, "back") /\ context' = context
              \/ /\ calls' = GoTo(d, "loop")
                 /\ context[t].status # "awaiting" => context' = context
          BY <1>2, <1>8, <4>2 DEF Enter
        <5>2. QED
          BY <5>1
      <4>3. QED
        BY <4>1, <4>2
    <3>2. QED
      BY <1>5, <2>2, <2>4, <3>1
  <2>5. QED
    BY <2>3, <2>4
<1>9. QED
  BY <1>7, <1>8

(* The other steps of AsyncRun. *)
LEMMA FinishReturns ==
    ASSUME FinishInv, Renewed = {}, NEW d \in Drivers, Effects(d),
           \/ LeaveCore(d) \/ Back(d) \/ FinishFunctionResult(d) \/ Flag(d)
           \/ EndInstruction(d)
    PROVE  (calls'[d] # <<>> => FinishFrame(d, Inner(d))') /\ Ended(d)
<1>1. PICK q \in {"core", "back", "end", "flag", "free"} : IsIn(d, q) /\ q \in PCs
  BY DEF LeaveCore, Back, FinishFunctionResult, Flag, EndInstruction, PCs
<1>2. PICK t \in Tasks : t = Inner(d).of
  BY <1>1, InnerFacts DEF FinishInv
<1>3. /\ Typed /\ TaskTypeOK /\ StackOK(d) /\ calls[d] # <<>> /\ Inner(d).pc = q
      /\ Begun(t) /\ (q = "flag" => Inner(d).by # "finalizer")
      /\ Len(calls[d]) \in Nat /\ Len(calls[d]) \in DOMAIN calls[d]
      /\ Inner(d) = calls[d][Len(calls[d])]
  BY <1>1, <1>2, InnerFacts, StackFacts DEF FinishInv, Holding
<1>4. FinishFrame(d, Inner(d))
  BY <1>3 DEF FinishInv, FinishOK
<1>5. Inner(d).by = "finish" /\ q \in {"core", "free"} => lost'[t]
  BY <1>2, <1>3, LostOrEnded
<1>6. ASSUME NEW pc \in PCs, calls' = GoTo(d, pc),
             \/ q \in {"core", "free"} \/ pc \in {"end", "flag"} \/ Inner(d).by # "finish"
      PROVE  FinishFrame(d, Inner(d))' /\ Ended(d)
  <2>1. GoneTo(d, pc)
    BY <1>3, <1>6, GoToStack
  <2>2. Inner(d)'.pc = pc /\ Inner(d)'.of = t /\ Inner(d)'.by = Inner(d).by
    BY <1>2, <1>3, <2>1, GoneFacts
  <2>3. Ended(d)
    BY <1>3, <2>1 DEF Ended, GoneTo
  <2>4. QED
    BY <1>5, <1>6, <2>2, <2>3 DEF FinishFrame
<1>7. ASSUME calls' = [calls EXCEPT ![d] = Front(calls[d])],
             Inner(d).by = "finish" => finished'[t] \/ lost[t]
      PROVE  (calls'[d] # <<>> => FinishFrame(d, Inner(d))') /\ Ended(d)
  BY <1>2, <1>3, <1>7, FinishPops DEF Ended
<1>8. CASE LeaveCore(d)
  <2>1. PICK pc \in {"loop", "back"} : calls' = GoTo(d, pc)
    BY <1>8 DEF LeaveCore, ProcessSignal
  <2>2. q = "core" /\ pc \in PCs
    BY <1>3, <1>8 DEF LeaveCore, IsIn, PCs
  <2>3. QED
    BY <1>6, <2>1, <2>2
<1>9. CASE Back(d)
  <2>1. q = "back"
    BY <1>3, <1>9 DEF Back, IsIn
  <2>2. CASE ~IsRunning(context[t])
    BY <1>2, <1>6, <1>9, <2>2 DEF Back, PCs
  <2>3. CASE IsRunning(context[t]) /\ Inner(d).by = "finalizer"
    BY <1>2, <1>6, <1>9, <2>3 DEF Back, PCs
  <2>4. CASE IsRunning(context[t]) /\ Inner(d).by # "finalizer"
    <3>1. calls' = [calls EXCEPT ![d] = Front(calls[d])]
      BY <1>2, <1>9, <2>4 DEF Back
    <3>2. Inner(d).by = "finish" => lost[t]
      BY <1>2, <1>3, <1>4, <2>1, <2>4 DEF FinishFrame
    <3>3. QED
      BY <1>7, <3>1, <3>2
  <2>5. QED
    BY <2>2, <2>3, <2>4
<1>10. CASE FinishFunctionResult(d)
  <2>1. CASE Inner(d).by = "finalizer"
    BY <1>7, <1>10, <2>1 DEF FinishFunctionResult
  <2>2. CASE Inner(d).by # "finalizer"
    BY <1>6, <1>10, <2>2 DEF FinishFunctionResult, PCs
  <2>3. QED
    BY <2>1, <2>2
<1>11. CASE Flag(d)
  <2>1. calls' = [calls EXCEPT ![d] = Front(calls[d])] /\ finished' = [finished EXCEPT ![t] = TRUE]
    BY <1>2, <1>11 DEF Flag
  <2>2. finished'[t]
    BY <1>3, <2>1 DEF Typed
  <2>3. QED
    BY <1>7, <2>1, <2>2
<1>12. CASE EndInstruction(d)
  <2>1. q = "free" /\ calls' = GoTo(d, "core") /\ "core" \in PCs
    BY <1>3, <1>12 DEF EndInstruction, IsIn, PCs
  <2>2. QED
    BY <1>6, <2>1
<1>13. QED
  BY <1>8, <1>9, <1>10, <1>11, <1>12

(* Script, within a run or outside. *)
LEMMA FinishScript ==
    ASSUME FinishInv, Renewed = {}, NEW d \in Drivers, Effects(d),
           \/ Pause(d) \/ Await(d) \/ Rest(d) \/ SetRetValue(d) \/ ReturnFromRun(d)
           \/ ThrowFromRun(d) \/ InvokeFinalizer(d)
           \/ \E t \in Tasks : BeginTask(d, t) \/ ThrowInto(d, t)
    PROVE  (calls'[d] # <<>> => FinishFrame(d, Inner(d))') /\ Ended(d)
<1>1. Typed /\ TaskTypeOK /\ AbortInv
  BY DEF FinishInv, AbortInv, Typed
<1>2. CASE InvokeFinalizer(d)
  <2>1. PICK q \in {"end", "free", "core"} : IsIn(d, q) /\ q \in PCs
    BY <1>2 DEF InvokeFinalizer, Script, PCs
  <2>2. PICK t \in Tasks : t = Inner(d).of
    BY <1>1, <2>1, InnerFacts
  <2>  DEFINE f == [of |-> t, by |-> "finalizer", pc |-> "lock", save |-> context[t]]
  <2>3. /\ calls[d] # <<>> /\ Len(calls[d]) \in Nat /\ context[t] \in States
    BY <1>1, <2>1, <2>2, InnerFacts, StackFacts
  <2>4. f \in CallFrames /\ f.by = "finalizer"
    BY <2>3 DEF CallFrames
  <2>5. calls' = [calls EXCEPT ![d] = Append(Releasing(d), f)]
    BY <1>2, <2>2 DEF InvokeFinalizer
  <2>  HIDE DEF f
  <2>6. Inner(d)' = f /\ Len(calls'[d]) = Len(calls[d]) + 1
    BY <1>1, <2>3, <2>4, <2>5, FinalizerStack DEF Pushed
  <2>7. QED
    BY <2>3, <2>4, <2>6 DEF FinishFrame, Ended
<1>3. CASE ~InvokeFinalizer(d)
  <2>1. calls' = calls /\ Script(d)
    BY <1>3 DEF Pause, Await, Rest, SetRetValue, ReturnFromRun, ThrowFromRun, BeginTask,
                ThrowInto, Executes
  <2>2. Ended(d)
    BY <1>1, <2>1, StackFacts DEF Ended
  <2>3. ASSUME calls[d] # <<>> PROVE FinishFrame(d, Inner(d))'
    <3>1. /\ Inner(d) = calls[d][Len(calls[d])] /\ Len(calls[d]) \in DOMAIN calls[d]
          /\ Inner(d).pc = "core"
      BY <1>1, <2>1, <2>3, StackFacts, ScriptFacts
    <3>2. Inner(d)' = Inner(d)
      BY <2>1 DEF Inner
    <3>3. Inner(d).by = "finish" => lost'[Inner(d).of]
      BY <3>1, LostOrEnded
    <3>4. QED
      BY <3>2, <3>3 DEF FinishFrame
  <2>4. QED
    BY <2>1, <2>2, <2>3
<1>4. QED
  BY <1>2, <1>3

(* Every step keeps FinishInv, and finish() returns with the task finished. *)
LEMMA FinishStep ==
    ASSUME FinishInv, Renewed = {}, NEW d \in Drivers, TaskStep(d)
    PROVE  /\ FinishInv'
           /\ \A e \in Drivers : Ended(e)
<1>1. AbortInv' /\ Effects(d)
  BY StepKeeps DEF FinishInv
<1>2. (calls'[d] # <<>> => FinishFrame(d, Inner(d))') /\ Ended(d)
  BY <1>1, FinishWaits, FinishRuns, FinishReturns, FinishScript
  DEF TaskStep, AsyncRun, RunScript, TaskMethod
<1>3. FinishOK(d)'
  BY <1>1, <1>2, OwnFinish
<1>4. ASSUME NEW e \in Drivers, e # d PROVE FinishOK(e)' /\ Ended(e)
  <2>1. FinishOK(e)'
    BY <1>1, <1>4, OthersFinish
  <2>2. calls'[e] = calls[e] /\ Len(calls[e]) \in Nat
    BY <1>1, <1>4, StackFacts DEF Effects, FinishInv, AbortInv, Typed
  <2>3. QED
    BY <2>1, <2>2 DEF Ended
<1>5. QED
  BY <1>1, <1>2, <1>3, <1>4 DEF FinishInv

(* When finish() returns, the task has finished, unless a finalizer has cleared the    *)
(* signal to abort: for every task that is begun once, whatever threads proceed it or   *)
(* finish it, too, at the same time or from inside of its own run.                     *)
THEOREM FinishEnds ==
    ASSUME Renewed = {}
    PROVE  TaskSpec => FinishEndsOrLost
<1>1. TaskInit => FinishInv
  <2>1. TaskInit => \A d \in Drivers : DOMAIN calls[d] = {}
    BY DEF TaskInit
  <2>2. QED
    BY <2>1, AbortStart DEF FinishInv, FinishOK
<1>2. FinishInv /\ [TaskNext]_taskVars => FinishInv'
  <2>  SUFFICES ASSUME FinishInv, [TaskNext]_taskVars PROVE FinishInv'
    OBVIOUS
  <2>1. CASE TaskNext
    <3>1. PICK d \in Drivers : TaskStep(d)
      BY <2>1 DEF TaskNext, TaskStep
    <3>2. QED
      BY <3>1, FinishStep
  <2>2. CASE UNCHANGED taskVars
    <3>1. AbortInv'
      BY AbortStep DEF FinishInv
    <3>2. \A d \in Drivers : FinishOK(d)'
      BY <2>2 DEF FinishInv, FinishOK, FinishFrame, Doomed, Holds, Finalizes, IsRunning, taskVars
    <3>3. QED
      BY <3>1, <3>2 DEF FinishInv
  <2>3. QED
    BY <2>1, <2>2
<1>3. FinishInv /\ [TaskNext]_taskVars =>
      [\A d \in Drivers : Len(calls'[d]) < Len(calls[d]) /\ Inner(d).by = "finish" =>
           finished'[Inner(d).of] \/ lost[Inner(d).of]]_taskVars
  <2>  SUFFICES ASSUME FinishInv, TaskNext
                PROVE  \A d \in Drivers : Ended(d)
    BY DEF Ended
  <2>1. PICK d \in Drivers : TaskStep(d)
    BY DEF TaskNext, TaskStep
  <2>2. QED
    BY <2>1, FinishStep
<1>4. QED
  BY <1>1, <1>2, <1>3, PTL DEF TaskSpec, FinishEndsOrLost

-----------------------------------------------------------------------------
(* The result of the function, of a task that is begun once and driven by Main. *)

(* The i-th call of Main is one of proceed() for t. *)
Base(i, t) == calls[Main][i].of = t /\ calls[Main][i].by = "proceed"

(* An object is being released in the context of t. *)
Released(t) == \E j \in DOMAIN calls[Main] : Finalizes(Main, j, t)

(* The function of t has called a native function, which comes back to it. *)
Calling(t) == context[t].code = "function" /\ outcome[t] = "pending"

(* The state x is that of the function of t, and tells how it has ended. *)
OfFunction(t, x) ==
    /\ x.code # "finalizer"
    /\ x.code = "leaving" => x.value = "returned"
    /\ outcome[t] = "returned" => x.value = "returned" /\ x.code = "none"
    /\ outcome[t] = "thrown" => x.exception /\ ~IsRunning(x)

(* m_state.valRet and m_state.exception tell it. *)
Told(t) ==
    /\ outcome[t] = "returned" => result[t].value = "returned"
    /\ outcome[t] = "thrown" => result[t].exception

(* The call i of proceed() for t is the lowest one of t.  A call above it comes back  *)
(* to the function, or to the release of an object; when the function has left the    *)
(* loop, its result has been taken.                                                  *)
BaseOK(i, t) ==
    /\ \A j \in DOMAIN calls[Main] : j < i => calls[Main][j].of # t
    /\ Released(t) => calls[Main][i].pc \in {"free", "end"}
    /\ calls[Main][i].pc # "check" => ~finished[t]
    /\ calls[Main][i].pc \in {"end", "flag"} => Told(t)
    /\ calls[Main][i].pc = "core" => interrupt[t] \/ context[t].code # "none"
    /\ calls[Main][i].pc = "core" /\ i < Len(calls[Main]) => Calling(t)
    /\ calls[Main][i].pc = "free" /\ ~Released(t) => context[t].code # "none"

(* What the finalizer j of t has saved: the state of the function, or that of another *)
(* finalizer.                                                                        *)
SaveOK(j, t) ==
    /\ calls[Main][j - 1].by = "proceed" /\ calls[Main][j - 1].pc = "free" =>
           OfFunction(t, calls[Main][j].save) /\ calls[Main][j].save.code # "none"
    /\ calls[Main][j - 1].by = "finalizer" => calls[Main][j].save.code \in {"finalizer", "none"}
    /\ context[t].code \in {"finalizer", "none"}

(* No finalizer of t is being run, and no run of t is being ended. *)
Plain(t) == \A j \in DOMAIN calls[Main] : calls[Main][j].of = t =>
    calls[Main][j].by # "finalizer" /\ calls[Main][j].pc \notin {"end", "flag"}

Ran(t) == outcome[t] # "aborted" =>
    /\ \A i \in DOMAIN calls[Main] : calls[Main][i].of = t /\ calls[Main][i].by = "finish" =>
           calls[Main][i].pc \in {"check", "lock"}
    /\ \A i \in DOMAIN calls[Main] : Base(i, t) => BaseOK(i, t)
    /\ \A j \in DOMAIN calls[Main] : Finalizes(Main, j, t) => SaveOK(j, t)
    /\ finished[t] => Told(t)
    /\ Plain(t) /\ ~finished[t] => OfFunction(t, context[t])

(* Main alone runs the tasks, and the abort of finish() is seen by its own run. *)
MainAlone ==
    /\ \A d \in Drivers : d # Main => calls[d] = <<>>
    /\ \A i \in DOMAIN calls[Main] :
           calls[Main][i].by = "finish" /\ calls[Main][i].pc \in {"check", "lock"} =>
               signal[calls[Main][i].of] = "abort"

ResultInv == AbortInv /\ MainAlone /\ \A t \in Tasks : Ran(t)

(* The stacks of a step that leaves them as they are. *)
LEMMA SameGone ==
    ASSUME TaskTypeOK, NEW d \in Drivers, calls[d] # <<>>, calls' = calls
    PROVE  GoneTo(d, Inner(d).pc)
<1>1. Inner(d) = calls[d][Len(calls[d])] /\ DOMAIN calls[d] = 1 .. Len(calls[d]) /\ calls[d] # <<>>
  BY StackFacts
<1>2. Inner(d)' = Inner(d)
  BY DEF Inner
<1>3. calls' \in [Drivers -> Seq(CallFrames)]
  BY DEF TaskTypeOK
<1>4. QED
  BY <1>1, <1>2, <1>3 DEF GoneTo

(* The step leaves the runs of u where they are. *)
IsRun(i, u) == i \in DOMAIN calls[Main] /\ calls[Main][i].of = u /\ calls[Main][i].by # "finish"
SameRuns(u) ==
    /\ \A i \in DOMAIN calls'[Main] : IsRun(i, u)' => IsRun(i, u)
    /\ \A i \in DOMAIN calls[Main] : IsRun(i, u) =>
        /\ IsRun(i, u)'
        /\ calls'[Main][i].by = calls[Main][i].by /\ calls'[Main][i].save = calls[Main][i].save
        /\ calls[Main][i].by = "proceed" => calls'[Main][i].pc = calls[Main][i].pc

(* A step after which the calls of finish() for u wait, and a run of u that comes to *)
(* lie below another one has called a native function.                              *)
Waiting(u) ==
    /\ \A i \in DOMAIN calls'[Main] : calls'[Main][i].of = u /\ calls'[Main][i].by = "finish" =>
           calls'[Main][i].pc \in {"check", "lock"}
    /\ \A i \in DOMAIN calls[Main] :
           Base(i, u) /\ calls[Main][i].pc = "core" /\ i < Len(calls'[Main]) =>
               i < Len(calls[Main]) \/ Calling(u)

(* A step leaves a task that it does not run the state its function ended with. *)
LEMMA RanKept ==
    ASSUME AbortInv, AbortInv', NEW u \in Tasks, Ran(u), outcome[u] # "aborted",
           outcome'[u] = outcome[u], result'[u] = result[u], finished'[u] = finished[u],
           SameRuns(u), Waiting(u),
           \/ context'[u].code = context[u].code /\ (interrupt[u] => interrupt'[u])
           \/ context'[u].code \in {"finalizer", "none"} /\ Released(u),
           Plain(u) /\ ~finished[u] => OfFunction(u, context[u])'
    PROVE  Ran(u)'
<1>1. /\ Main \in Drivers /\ StackOK(Main)' /\ StackOK(Main)
      /\ DOMAIN calls[Main] = 1 .. Len(calls[Main]) /\ Len(calls[Main]) \in Nat
      /\ DOMAIN calls'[Main] = 1 .. Len(calls'[Main]) /\ Len(calls'[Main]) \in Nat
  <2>1. Main \in Drivers /\ TaskTypeOK /\ TaskTypeOK'
    BY TasksAssumption DEF AbortInv, Typed
  <2>2. StackOK(Main)' /\ StackOK(Main)
    BY <2>1 DEF AbortInv
  <2>3. DOMAIN calls[Main] = 1 .. Len(calls[Main]) /\ Len(calls[Main]) \in Nat
    BY <2>1, StackFacts
  <2>4. calls'[Main] \in Seq(CallFrames)
    BY <2>1 DEF TaskTypeOK
  <2>5. QED
    BY <2>1, <2>2, <2>3, <2>4
<1>2. Released(u)' <=> Released(u)
  <2>1. ASSUME NEW j \in DOMAIN calls[Main], Finalizes(Main, j, u)
        PROVE  j \in DOMAIN calls'[Main] /\ Finalizes(Main, j, u)'
    BY <2>1 DEF Finalizes, SameRuns, IsRun
  <2>2. ASSUME NEW j \in DOMAIN calls'[Main], Finalizes(Main, j, u)'
        PROVE  j \in DOMAIN calls[Main] /\ Finalizes(Main, j, u)
    BY <2>2 DEF Finalizes, SameRuns, IsRun
  <2>3. Released(u) => Released(u)'
    BY <2>1 DEF Released
  <2>4. Released(u)' => Released(u)
    <3>1. SUFFICES ASSUME NEW j \in DOMAIN calls'[Main], Finalizes(Main, j, u)' PROVE Released(u)
      BY DEF Released
    <3>2. QED
      BY <2>2, <3>1 DEF Released
  <2>5. QED
    BY <2>3, <2>4
<1>3. Told(u)' <=> Told(u)
  BY DEF Told
<1>4. Plain(u)' => Plain(u)
  <2>1. ASSUME Plain(u)', NEW j \in DOMAIN calls[Main], calls[Main][j].of = u
        PROVE  calls[Main][j].by # "finalizer" /\ calls[Main][j].pc \notin {"end", "flag"}
    <3>1. CASE calls[Main][j].by = "finish"
      BY <2>1, <3>1 DEF Ran
    <3>2. CASE calls[Main][j].by # "finish"
      <4>1. /\ j \in DOMAIN calls'[Main] /\ calls'[Main][j].of = u
            /\ calls'[Main][j].by = calls[Main][j].by
            /\ calls[Main][j].by = "proceed" => calls'[Main][j].pc = calls[Main][j].pc
        BY <2>1, <3>2 DEF SameRuns, IsRun
      <4>2. calls'[Main][j].by # "finalizer" /\ calls'[Main][j].pc \notin {"end", "flag"}
        BY <2>1, <4>1 DEF Plain
      <4>3. calls[Main][j].by \in {"proceed", "finish", "finalizer"}
        BY <1>1, StackFacts, FrameFacts DEF AbortInv, Typed
      <4>4. QED
        BY <3>2, <4>1, <4>2, <4>3
    <3>3. QED
      BY <3>1, <3>2
  <2>2. QED
    BY <2>1 DEF Plain
<1>5. \A i \in DOMAIN calls'[Main] : calls'[Main][i].of = u /\ calls'[Main][i].by = "finish" =>
          calls'[Main][i].pc \in {"check", "lock"}
  BY DEF Waiting
<1>6. ASSUME NEW i \in DOMAIN calls'[Main], Base(i, u)'
      PROVE  BaseOK(i, u)'
  <2>1. /\ i \in DOMAIN calls[Main] /\ Base(i, u) /\ BaseOK(i, u)
        /\ calls'[Main][i].pc = calls[Main][i].pc
    BY <1>6 DEF SameRuns, IsRun, Base, Ran
  <2>2. \A j \in DOMAIN calls'[Main] : j < i => calls'[Main][j].of # u
    <3>1. SUFFICES ASSUME NEW j \in DOMAIN calls'[Main], j < i, calls'[Main][j].of = u PROVE FALSE
      OBVIOUS
    <3>2. CASE calls'[Main][j].by = "finish"
      <4>1. calls'[Main][j].pc \in {"check", "lock"}
        BY <1>5, <3>1, <3>2
      <4>2. j < Len(calls'[Main])
        BY <1>1, <1>6, <3>1
      <4>3. calls'[Main][j].pc \in {"core", "free", "end"}
        BY <1>1, <3>1, <4>2 DEF StackOK
      <4>4. QED
        BY <4>1, <4>3
    <3>3. CASE calls'[Main][j].by # "finish"
      <4>1. j \in DOMAIN calls[Main] /\ calls[Main][j].of = u
        BY <3>1, <3>3 DEF SameRuns, IsRun
      <4>2. QED
        BY <2>1, <3>1, <4>1 DEF BaseOK
    <3>4. QED
      BY <3>2, <3>3
  <2>3. calls'[Main][i].pc = "core" => interrupt'[u] \/ context'[u].code # "none"
    BY <2>1 DEF BaseOK
  <2>4. calls'[Main][i].pc = "core" /\ i < Len(calls'[Main]) => Calling(u)'
    <3>1. SUFFICES ASSUME calls'[Main][i].pc = "core", i < Len(calls'[Main])
                   PROVE  Calling(u)'
      OBVIOUS
    <3>2. Calling(u) /\ ~Released(u)
      BY <2>1, <3>1 DEF Waiting, BaseOK
    <3>3. QED
      BY <3>2 DEF Calling
  <2>5. calls'[Main][i].pc = "free" /\ ~Released(u)' => context'[u].code # "none"
    BY <1>2, <2>1 DEF BaseOK
  <2>6. /\ Released(u)' => calls'[Main][i].pc \in {"free", "end"}
        /\ calls'[Main][i].pc # "check" => ~finished'[u]
        /\ calls'[Main][i].pc \in {"end", "flag"} => Told(u)'
    BY <1>2, <1>3, <2>1 DEF BaseOK
  <2>7. QED
    BY <2>2, <2>3, <2>4, <2>5, <2>6 DEF BaseOK
<1>7. ASSUME NEW j \in DOMAIN calls'[Main], Finalizes(Main, j, u)'
      PROVE  SaveOK(j, u)'
  <2>1. /\ j \in DOMAIN calls[Main] /\ Finalizes(Main, j, u) /\ SaveOK(j, u)
        /\ calls'[Main][j].save = calls[Main][j].save
    BY <1>7 DEF SameRuns, IsRun, Finalizes, Ran
  <2>2. /\ j \in Nat /\ j - 1 \in DOMAIN calls'[Main] /\ calls'[Main][j - 1].of = u
        /\ j - 1 \in 1 .. Len(calls'[Main]) - 1
    <3>1. j > 1 /\ j \in 1 .. Len(calls'[Main])
      BY <1>1, <1>7 DEF StackOK, Finalizes
    <3>2. PICK k \in 1 .. Len(calls'[Main]) - 1 : k + 1 = j
      <4>1. j - 1 \in 1 .. Len(calls'[Main]) - 1 /\ (j - 1) + 1 = j
        BY <1>1, <3>1
      <4>2. QED
        BY <4>1
    <3>3. calls'[Main][k + 1].by = "finalizer" /\ calls'[Main][k + 1].of = u
      BY <1>7, <3>2 DEF Finalizes
    <3>4. calls'[Main][k].of = u
      BY <1>1, <3>3 DEF StackOK
    <3>5. QED
      BY <1>1, <3>2, <3>4
  <2>  PICK k \in Nat : k = j - 1
    BY <2>2
  <2>3. calls'[Main][k].by # "finish" =>
          /\ k \in DOMAIN calls[Main] /\ calls[Main][k].by = calls'[Main][k].by
          /\ calls'[Main][k].by = "proceed" => calls'[Main][k].pc = calls[Main][k].pc
    BY <2>2 DEF SameRuns, IsRun
  <2>4. calls'[Main][k].by = "proceed" /\ calls'[Main][k].pc = "free" =>
            OfFunction(u, calls[Main][j].save) /\ calls[Main][j].save.code # "none"
    BY <2>1, <2>3 DEF SaveOK
  <2>5. ASSUME NEW x, OfFunction(u, x)
        PROVE  OfFunction(u, x)'
    BY <2>5 DEF OfFunction, IsRunning
  <2>6. calls'[Main][k].by = "finalizer" => calls[Main][j].save.code \in {"finalizer", "none"}
    BY <2>1, <2>3 DEF SaveOK
  <2>7. context'[u].code \in {"finalizer", "none"}
    BY <2>1 DEF SaveOK
  <2>8. QED
    BY <2>1, <2>4, <2>5, <2>6, <2>7 DEF SaveOK, OfFunction
<1>8. finished'[u] => Told(u)'
  BY <1>3 DEF Ran
<1>9. Plain(u)' /\ ~finished'[u] => OfFunction(u, context[u])'
  BY <1>4
<1>10. QED
  BY <1>5, <1>6, <1>7, <1>8, <1>9 DEF Ran

(* A step of the innermost run of Main, one of proceed(). *)
LEMMA BaseRan ==
    ASSUME AbortInv, calls[Main] # <<>>, NEW t \in Tasks, t = Inner(Main).of, Ran(t),
           Inner(Main).by = "proceed", outcome[t] # "aborted", NEW pc \in PCs, GoneTo(Main, pc),
           pc # "check" => ~finished'[t],
           finished'[t] \/ pc \in {"end", "flag"} => Told(t)',
           pc \notin {"end", "flag"} /\ ~finished'[t] => OfFunction(t, context[t])',
           pc = "core" => interrupt'[t] \/ context'[t].code # "none",
           pc = "free" => context'[t].code # "none"
    PROVE  Ran(t)'
<1>  PICK n \in Nat : n = Len(calls[Main])
  BY StackFacts, TasksAssumption DEF AbortInv, Typed
<1>1. /\ Main \in Drivers /\ TaskTypeOK /\ DOMAIN calls[Main] = 1 .. n /\ n \in 1 .. n
      /\ Inner(Main) = calls[Main][n]
  BY StackFacts, TasksAssumption DEF AbortInv, Typed
<1>2. BaseOK(n, t)
  BY <1>1 DEF Ran, Base
<1>3. /\ Len(calls'[Main]) = n /\ DOMAIN calls'[Main] = 1 .. n
      /\ \A i \in 1 .. n : /\ calls'[Main][i].of = calls[Main][i].of
                           /\ calls'[Main][i].by = calls[Main][i].by
      /\ calls'[Main][n].pc = pc
  BY <1>1 DEF GoneTo
<1>4. \A i \in DOMAIN calls'[Main] : calls'[Main][i].of = t => i = n /\ calls'[Main][i].by = "proceed"
  <2>1. SUFFICES ASSUME NEW i \in 1 .. n, calls'[Main][i].of = t PROVE i = n
    BY <1>1, <1>3
  <2>2. ~(i < n)
    BY <1>1, <1>2, <1>3, <2>1 DEF BaseOK
  <2>3. QED
    BY <2>1, <2>2
<1>5. ~Released(t)' /\ \A j \in DOMAIN calls'[Main] : ~Finalizes(Main, j, t)'
  BY <1>4 DEF Released, Finalizes
<1>6. BaseOK(n, t)'
  <2>1. \A j \in DOMAIN calls'[Main] : j < n => calls'[Main][j].of # t
    BY <1>4
  <2>2. QED
    BY <1>3, <1>5, <2>1 DEF BaseOK
<1>7. Plain(t)' => pc \notin {"end", "flag"}
  BY <1>1, <1>3 DEF Plain
<1>8. QED
  BY <1>3, <1>4, <1>5, <1>6, <1>7 DEF Ran, Base

(* No call of Main is one for t. *)
LEMMA RestRan ==
    ASSUME NEW t \in Tasks,
           \A i \in DOMAIN calls'[Main] : calls'[Main][i].of # t,
           finished'[t] => Told(t)',
           ~finished'[t] => OfFunction(t, context[t])'
    PROVE  Ran(t)'
<1>1. \A i \in DOMAIN calls'[Main] : ~Base(i, t)' /\ ~Finalizes(Main, i, t)'
  BY DEF Base, Finalizes
<1>2. QED
  BY <1>1 DEF Ran

(* A step that moves the innermost run, seen from a task that is not proceeded by it. *)
LEMMA GoneRan ==
    ASSUME AbortInv, AbortInv', calls[Main] # <<>>, NEW u \in Tasks, Ran(u),
           NEW pc \in PCs, GoneTo(Main, pc),
           Inner(Main).of = u => \/ Inner(Main).by = "finalizer"
                                 \/ Inner(Main).by = "finish" /\ pc \in {"check", "lock"},
           outcome'[u] = outcome[u], result'[u] = result[u], finished'[u] = finished[u],
           \/ context'[u].code = context[u].code /\ (interrupt[u] => interrupt'[u])
           \/ context'[u].code \in {"finalizer", "none"} /\ Released(u),
           Released(u) \/ (Plain(u) /\ ~finished[u] => OfFunction(u, context[u])')
    PROVE  Ran(u)'
<1>  SUFFICES ASSUME outcome[u] # "aborted" PROVE Ran(u)'
  BY DEF Ran
<1>  PICK n \in Nat : n = Len(calls[Main])
  BY StackFacts, TasksAssumption DEF AbortInv, Typed
<1>1. /\ Main \in Drivers /\ TaskTypeOK /\ DOMAIN calls[Main] = 1 .. n /\ n \in 1 .. n
      /\ Inner(Main) = calls[Main][n] /\ StackOK(Main)
  BY StackFacts, TasksAssumption DEF AbortInv, Typed
<1>2. /\ Len(calls'[Main]) = n /\ DOMAIN calls'[Main] = 1 .. n
      /\ \A i \in 1 .. n : /\ calls'[Main][i].of = calls[Main][i].of
                           /\ calls'[Main][i].by = calls[Main][i].by
                           /\ calls'[Main][i].save = calls[Main][i].save
                           /\ i # n => calls'[Main][i].pc = calls[Main][i].pc
      /\ calls'[Main][n].pc = pc
  BY <1>1 DEF GoneTo
<1>3. \A i \in 1 .. n : Base(i, u) => i # n
  BY <1>1 DEF Base
<1>4. SameRuns(u)
  <2>1. ASSUME NEW i \in 1 .. n, calls[Main][i].of = u, calls[Main][i].by = "proceed"
        PROVE  calls'[Main][i].pc = calls[Main][i].pc
    BY <1>2, <1>3, <2>1 DEF Base
  <2>2. QED
    BY <1>1, <1>2, <2>1 DEF SameRuns, IsRun
<1>5. Waiting(u)
  <2>1. ASSUME NEW i \in 1 .. n, calls'[Main][i].of = u, calls'[Main][i].by = "finish"
        PROVE  calls'[Main][i].pc \in {"check", "lock"}
    BY <1>1, <1>2, <2>1 DEF Ran
  <2>2. QED
    BY <1>1, <1>2, <2>1 DEF Waiting
<1>6. Released(u) => ~Plain(u)
  BY DEF Released, Plain, Finalizes
<1>7. QED
  BY <1>4, <1>5, <1>6, RanKept

(* What is known of the innermost call of Main, of a task that is not aborted. *)
LEMMA InnerRan ==
    ASSUME AbortInv, calls[Main] # <<>>, NEW t \in Tasks, t = Inner(Main).of, Ran(t),
           outcome[t] # "aborted"
    PROVE  /\ Inner(Main).by = "proceed" =>
               /\ BaseOK(Len(calls[Main]), t) /\ ~Released(t)
               /\ \A i \in DOMAIN calls[Main] : calls[Main][i].of = t => i = Len(calls[Main])
               /\ Inner(Main).pc \notin {"end", "flag"} => Plain(t)
           /\ Inner(Main).by = "finalizer" =>
               /\ Released(t) /\ context[t].code \in {"finalizer", "none"}
           /\ Inner(Main).by = "finish" => Inner(Main).pc \in {"check", "lock"}
<1>  PICK n \in Nat : n = Len(calls[Main])
  BY StackFacts, TasksAssumption DEF AbortInv, Typed
<1>1. /\ Main \in Drivers /\ DOMAIN calls[Main] = 1 .. n /\ n \in 1 .. n
      /\ Inner(Main) = calls[Main][n]
  BY StackFacts, TasksAssumption DEF AbortInv, Typed
<1>2. ASSUME Inner(Main).by = "proceed"
      PROVE  /\ BaseOK(n, t) /\ ~Released(t)
             /\ \A i \in DOMAIN calls[Main] : calls[Main][i].of = t => i = n
             /\ Inner(Main).pc \notin {"end", "flag"} => Plain(t)
  <2>1. BaseOK(n, t)
    BY <1>1, <1>2 DEF Ran, Base
  <2>2. ASSUME NEW i \in 1 .. n, calls[Main][i].of = t PROVE i = n
    <3>1. ~(i < n)
      BY <1>1, <2>1, <2>2 DEF BaseOK
    <3>2. QED
      BY <3>1
  <2>3. ~Released(t)
    BY <1>1, <1>2, <2>2 DEF Released, Finalizes
  <2>4. Inner(Main).pc \notin {"end", "flag"} => Plain(t)
    BY <1>1, <1>2, <2>2 DEF Plain
  <2>5. QED
    BY <1>1, <2>1, <2>2, <2>3, <2>4
<1>3. ASSUME Inner(Main).by = "finalizer"
      PROVE  Released(t) /\ context[t].code \in {"finalizer", "none"}
  <2>1. Finalizes(Main, n, t) /\ n \in DOMAIN calls[Main]
    BY <1>1, <1>3 DEF Finalizes
  <2>2. SaveOK(n, t)
    BY <2>1 DEF Ran
  <2>3. QED
    BY <2>1, <2>2 DEF Released, SaveOK
<1>4. Inner(Main).by = "finish" => Inner(Main).pc \in {"check", "lock"}
  BY <1>1 DEF Ran
<1>5. QED
  BY <1>2, <1>3, <1>4

(* The function of a task calls a native function. *)
LEMMA CallsNative ==
    ASSUME AbortInv, calls[Main] # <<>>, NEW t \in Tasks, t = Inner(Main).of, Ran(t),
           outcome[t] # "aborted", Inner(Main).by = "proceed", Executes(Main)
    PROVE  Calling(t)
<1>1. /\ Inner(Main).pc = "core" /\ ~interrupt[t] /\ context[t].status = "running" /\ Begun(t)
      /\ context[t] \in States /\ Main \in Drivers
  BY ScriptFacts, TasksAssumption DEF Executes
<1>2. BaseOK(Len(calls[Main]), t) /\ Plain(t)
  BY <1>1, InnerRan
<1>3. Inner(Main) = calls[Main][Len(calls[Main])] /\ outcome[t] \in Outcomes
  BY <1>1, StackFacts DEF AbortInv, Typed
<1>4. context[t].code # "none" /\ ~finished[t]
  BY <1>1, <1>2, <1>3 DEF BaseOK
<1>5. OfFunction(t, context[t])
  BY <1>2, <1>4 DEF Ran
<1>6. context[t].code = "function"
  BY <1>1, <1>4, <1>5, StateFacts DEF OfFunction, Executes
<1>7. outcome[t] = "pending"
  BY <1>1, <1>3, <1>5, <1>6 DEF OfFunction, IsRunning, Outcomes, Begun
<1>8. QED
  BY <1>6, <1>7 DEF Calling

(* Main calls AsyncRun for another task than u, or finish() of u. *)
LEMMA CallRan ==
    ASSUME AbortInv, AbortInv', Executes(Main), NEW u \in Tasks, Ran(u), NEW f \in CallFrames,
           Pushed(Main, f, Inner(Main).pc), f.of = u => f.by = "finish" /\ f.pc = "check",
           context'[u] = context[u], interrupt[u] => interrupt'[u],
           outcome'[u] = outcome[u], result'[u] = result[u], finished'[u] = finished[u]
    PROVE  Ran(u)'
<1>  SUFFICES ASSUME outcome[u] # "aborted" PROVE Ran(u)'
  BY DEF Ran
<1>  PICK n \in Nat : n = Len(calls[Main])
  BY StackFacts, TasksAssumption DEF AbortInv, Typed
<1>1. /\ Main \in Drivers /\ TaskTypeOK /\ DOMAIN calls[Main] = 1 .. n
      /\ calls[Main] # <<>> <=> n > 0
      /\ calls[Main] # <<>> => Inner(Main) = calls[Main][n] /\ n \in 1 .. n
  BY StackFacts, TasksAssumption DEF AbortInv, Typed
<1>2. /\ Len(calls'[Main]) = n + 1 /\ DOMAIN calls'[Main] = 1 .. n + 1
      /\ \A i \in 1 .. n : /\ calls'[Main][i].of = calls[Main][i].of
                           /\ calls'[Main][i].by = calls[Main][i].by
                           /\ calls'[Main][i].save = calls[Main][i].save
                           /\ calls'[Main][i].pc = calls[Main][i].pc
      /\ calls'[Main][n + 1] = f
  <2>1. ASSUME NEW i \in 1 .. n
        PROVE  calls'[Main][i].pc = calls[Main][i].pc
    <3>1. i = n => calls[Main][i] = Inner(Main)
      BY <1>1
    <3>2. QED
      BY <2>1, <3>1 DEF Pushed
  <2>2. QED
    BY <2>1 DEF Pushed
<1>3. \A i \in 1 .. n + 1 : i \in 1 .. n \/ i = n + 1
  OBVIOUS
<1>4. SameRuns(u)
  <2>1. ASSUME NEW i \in 1 .. n + 1, IsRun(i, u)' PROVE i \in 1 .. n
    BY <1>2, <1>3, <2>1 DEF IsRun
  <2>2. \A i \in DOMAIN calls'[Main] : IsRun(i, u)' => IsRun(i, u)
    <3>1. ASSUME NEW i \in 1 .. n + 1, IsRun(i, u)' PROVE IsRun(i, u)
      BY <1>1, <1>2, <2>1, <3>1 DEF IsRun
    <3>2. QED
      BY <1>2, <3>1
  <2>3. \A i \in 1 .. n : i \in 1 .. n + 1
    OBVIOUS
  <2>4. QED
    BY <1>1, <1>2, <2>2, <2>3 DEF SameRuns, IsRun
<1>5. Waiting(u)
  <2>1. ASSUME NEW i \in 1 .. n + 1, calls'[Main][i].of = u, calls'[Main][i].by = "finish"
        PROVE  calls'[Main][i].pc \in {"check", "lock"}
    <3>1. CASE i \in 1 .. n
      <4>1. calls[Main][i].of = u /\ calls[Main][i].by = "finish"
        BY <1>2, <2>1, <3>1
      <4>2. calls[Main][i].pc \in {"check", "lock"}
        BY <1>1, <3>1, <4>1 DEF Ran
      <4>3. QED
        BY <1>2, <3>1, <4>2
    <3>2. CASE i = n + 1
      BY <1>2, <2>1, <3>2
    <3>3. QED
      BY <1>3, <3>1, <3>2
  <2>2. ASSUME NEW i \in 1 .. n, Base(i, u), ~(i < n)
        PROVE  Calling(u)
    <3>1. i = n /\ calls[Main] # <<>>
      BY <1>1, <2>2
    <3>2. u = Inner(Main).of /\ Inner(Main).by = "proceed"
      BY <1>1, <2>2, <3>1 DEF Base
    <3>3. QED
      BY <3>1, <3>2, CallsNative
  <2>3. QED
    BY <1>1, <1>2, <2>1, <2>2 DEF Waiting
<1>6. Plain(u) /\ ~finished[u] => OfFunction(u, context[u])'
  BY DEF Ran, OfFunction, IsRunning
<1>7. QED
  BY <1>4, <1>5, <1>6, RanKept

(* Main proceeds t, which none of its calls runs. *)
LEMMA NewRan ==
    ASSUME AbortInv, NEW t \in Tasks, Ran(t), NEW f \in CallFrames,
           Pushed(Main, f, Inner(Main).pc), f.of = t, f.by = "proceed", f.pc = "check",
           ~OnStack(Main, t), context'[t] = context[t],
           outcome'[t] = outcome[t], result'[t] = result[t], finished'[t] = finished[t]
    PROVE  Ran(t)'
<1>  SUFFICES ASSUME outcome[t] # "aborted" PROVE Ran(t)'
  BY DEF Ran
<1>  PICK n \in Nat : n = Len(calls[Main])
  BY StackFacts, TasksAssumption DEF AbortInv, Typed
<1>1. /\ Main \in Drivers /\ TaskTypeOK /\ DOMAIN calls[Main] = 1 .. n
  BY StackFacts, TasksAssumption DEF AbortInv, Typed
<1>2. /\ Len(calls'[Main]) = n + 1 /\ DOMAIN calls'[Main] = 1 .. n + 1
      /\ \A i \in 1 .. n : calls'[Main][i].of = calls[Main][i].of
      /\ calls'[Main][n + 1] = f
  BY DEF Pushed
<1>3. \A i \in 1 .. n : calls[Main][i].of # t
  BY <1>1 DEF OnStack
<1>4. \A i \in DOMAIN calls'[Main] : calls'[Main][i].of = t => i = n + 1
  <2>1. \A i \in 1 .. n + 1 : i \in 1 .. n \/ i = n + 1
    OBVIOUS
  <2>2. QED
    BY <1>2, <1>3, <2>1
<1>5. ~Released(t)' /\ \A j \in DOMAIN calls'[Main] : ~Finalizes(Main, j, t)'
  BY <1>2, <1>4 DEF Released, Finalizes
<1>6. ASSUME NEW i \in DOMAIN calls'[Main], Base(i, t)' PROVE BaseOK(i, t)'
  <2>1. i = n + 1
    BY <1>4, <1>6 DEF Base
  <2>2. \A j \in DOMAIN calls'[Main] : j < n + 1 => calls'[Main][j].of # t
    BY <1>4
  <2>3. QED
    BY <1>2, <1>5, <2>1, <2>2 DEF BaseOK
<1>7. Plain(t)
  BY <1>1, <1>3 DEF Plain
<1>8. (finished[t] => Told(t)') /\ (~finished[t] => OfFunction(t, context[t])')
  BY <1>7 DEF Ran, Told, OfFunction, IsRunning
<1>9. QED
  BY <1>2, <1>4, <1>5, <1>6, <1>8 DEF Ran

(* The innermost call of Main, which is not a run of u, returns. *)
LEMMA PoppedRuns ==
    ASSUME AbortInv, calls[Main] # <<>>, Popped(Main), NEW u \in Tasks, Ran(u),
           outcome[u] # "aborted", ~IsRun(Len(calls[Main]), u)
    PROVE  SameRuns(u) /\ Waiting(u)
<1>  PICK n \in Nat : n = Len(calls[Main])
  BY StackFacts, TasksAssumption DEF AbortInv, Typed
<1>1. DOMAIN calls[Main] = 1 .. n
  BY StackFacts, TasksAssumption DEF AbortInv, Typed
<1>2. /\ Len(calls'[Main]) = n - 1 /\ DOMAIN calls'[Main] = 1 .. n - 1
      /\ \A i \in 1 .. n - 1 : calls'[Main][i] = calls[Main][i]
  BY DEF Popped
<1>3. \A i \in 1 .. n - 1 : i \in DOMAIN calls[Main]
  BY <1>1
<1>4. ASSUME NEW i \in DOMAIN calls[Main], IsRun(i, u) PROVE i \in 1 .. n - 1
  <2>1. i # n
    BY <1>4
  <2>2. QED
    BY <1>1, <2>1
<1>5. SameRuns(u)
  <2>1. ASSUME NEW i \in DOMAIN calls[Main], IsRun(i, u)
        PROVE  /\ IsRun(i, u)'
               /\ calls'[Main][i].by = calls[Main][i].by /\ calls'[Main][i].save = calls[Main][i].save
               /\ calls[Main][i].by = "proceed" => calls'[Main][i].pc = calls[Main][i].pc
    BY <1>2, <1>4, <2>1 DEF IsRun
  <2>2. ASSUME NEW i \in DOMAIN calls'[Main], IsRun(i, u)' PROVE IsRun(i, u)
    BY <1>2, <1>3, <2>2 DEF IsRun
  <2>3. QED
    BY <2>1, <2>2 DEF SameRuns
<1>6. Waiting(u)
  <2>1. \A i \in DOMAIN calls[Main] : i < n - 1 => i < n
    BY <1>1
  <2>2. QED
    BY <1>2, <1>3, <2>1 DEF Waiting, Ran
<1>7. QED
  BY <1>5, <1>6

(* The innermost call of Main, of proceed() or finish(), returns. *)
LEMMA ReturnRan ==
    ASSUME AbortInv, AbortInv', calls[Main] # <<>>, Inner(Main).by # "finalizer",
           calls' = [calls EXCEPT ![Main] = Front(calls[Main])],
           context' = WithValue(Front(calls[Main]), Inner(Main).by = "proceed", context),
           interrupt' = Interrupts(Front(calls[Main]), context),
           NEW u \in Tasks, Ran(u), outcome'[u] = outcome[u], result'[u] = result[u],
           IF Inner(Main).of = u /\ Inner(Main).by = "proceed"
           THEN IF finished'[u] THEN Told(u)'
                ELSE ~finished[u] /\ Inner(Main).pc \notin {"end", "flag"}
           ELSE finished'[u] = finished[u]
    PROVE  Ran(u)'
<1>  SUFFICES ASSUME outcome[u] # "aborted" PROVE Ran(u)'
  BY DEF Ran
<1>  PICK n \in Nat : n = Len(calls[Main])
  BY StackFacts, TasksAssumption DEF AbortInv, Typed
<1>1. /\ Main \in Drivers /\ TaskTypeOK /\ Typed /\ DOMAIN calls[Main] = 1 .. n /\ n \in 1 .. n
      /\ Inner(Main) = calls[Main][n] /\ Inner(Main) \in CallFrames /\ Inner(Main).of \in Tasks
      /\ calls[Main] \in Seq(CallFrames) /\ StackOK(Main)
  BY StackFacts, TasksAssumption DEF AbortInv, Typed
<1>2. /\ Popped(Main) /\ calls'[Main] = Front(calls[Main])
  BY <1>1, PopStack
<1>3. /\ Len(calls'[Main]) = n - 1 /\ DOMAIN calls'[Main] = 1 .. n - 1
      /\ \A i \in 1 .. n - 1 : calls'[Main][i] = calls[Main][i]
      /\ calls'[Main] # <<>> <=> n > 1
  BY <1>2 DEF Popped
<1>4. calls'[Main] \in Seq(CallFrames)
  BY <1>1, <1>2 DEF AbortInv, Typed, TaskTypeOK
<1>5. /\ context'[u].status = context[u].status /\ context'[u].code = context[u].code
      /\ context'[u].exception = context[u].exception /\ (interrupt[u] => interrupt'[u])
  BY <1>1, <1>2, <1>4, ReturnFacts
<1>6. ASSUME n > 1
      PROVE  /\ n - 1 \in 1 .. n - 1 /\ n - 1 \in DOMAIN calls[Main]
             /\ Last(Front(calls[Main])) = calls[Main][n - 1]
             /\ calls[Main][n - 1].pc = "core"
  <2>1. n - 1 \in 1 .. n - 1
    BY <1>6
  <2>2. Last(Front(calls[Main])) = calls[Main][n - 1]
    BY <1>2, <1>3, <2>1 DEF Last
  <2>3. calls[Main][(n - 1) + 1] = Inner(Main)
    BY <1>1
  <2>4. calls[Main][n - 1].pc = "core"
    BY <1>1, <2>1, <2>3 DEF StackOK
  <2>5. QED
    BY <1>1, <2>1, <2>2, <2>4
<1>7. \/ context'[u] = context[u]
      \/ Inner(Main).by = "proceed" /\ n > 1 /\ calls[Main][n - 1].of = u
  <2>1. CASE ~(Inner(Main).by = "proceed" /\ n > 1)
    BY <1>2, <1>3, <2>1 DEF WithValue
  <2>2. CASE n > 1 /\ calls[Main][n - 1].of # u
    BY <1>1, <1>6, <2>2 DEF WithValue, Typed, TaskTypeOK
  <2>3. QED
    BY <2>1, <2>2
<1>8. CASE Inner(Main).of = u /\ Inner(Main).by = "proceed"
  <2>1. \A i \in DOMAIN calls[Main] : calls[Main][i].of = u => i = n
    BY <1>8, InnerRan
  <2>2. \A i \in DOMAIN calls'[Main] : calls'[Main][i].of # u
    <3>1. \A i \in 1 .. n - 1 : i # n /\ i \in DOMAIN calls[Main]
      BY <1>1
    <3>2. QED
      BY <1>3, <2>1, <3>1
  <2>3. context'[u] = context[u]
    <3>1. CASE n > 1
      <4>1. n - 1 # n /\ n - 1 \in DOMAIN calls[Main]
        BY <1>6, <3>1
      <4>2. QED
        BY <1>7, <2>1, <4>1
    <3>2. QED
      BY <1>7, <3>1
  <2>4. ~finished'[u] => OfFunction(u, context[u])'
    <3>1. SUFFICES ASSUME ~finished'[u] PROVE OfFunction(u, context[u])'
      OBVIOUS
    <3>2. ~finished[u] /\ Plain(u)
      BY <1>8, <3>1, InnerRan
    <3>3. QED
      BY <2>3, <3>2 DEF Ran, OfFunction, IsRunning
  <2>5. finished'[u] => Told(u)'
    BY <1>8
  <2>6. QED
    BY <2>2, <2>4, <2>5, RestRan
<1>9. CASE ~(Inner(Main).of = u /\ Inner(Main).by = "proceed")
  <2>1. ~IsRun(n, u)
    BY <1>1, <1>9, FrameFacts DEF IsRun
  <2>2. SameRuns(u) /\ Waiting(u)
    BY <1>2, <2>1, PoppedRuns
  <2>3. Plain(u) /\ ~finished[u] => OfFunction(u, context[u])'
    <3>1. SUFFICES ASSUME Plain(u), ~finished[u] PROVE OfFunction(u, context[u])'
      OBVIOUS
    <3>2. OfFunction(u, context[u])
      BY <3>1 DEF Ran
    <3>3. CASE context'[u] = context[u]
      BY <3>2, <3>3 DEF OfFunction, IsRunning
    <3>4. CASE Inner(Main).by = "proceed" /\ n > 1 /\ calls[Main][n - 1].of = u
      <4>1. n - 1 \in DOMAIN calls[Main] /\ calls[Main][n - 1].pc = "core" /\ n - 1 < n
        BY <1>6, <3>4
      <4>  PICK m \in Nat : m = n - 1
        <5>1. n - 1 \in Nat
          BY <3>4
        <5>2. QED
          BY <5>1
      <4>2. calls[Main][m].by \in {"proceed", "finish", "finalizer"}
        BY <1>1, <4>1, StackFacts, FrameFacts
      <4>3. calls[Main][m].by # "finish"
        BY <3>4, <4>1 DEF Ran
      <4>4. calls[Main][m].by # "finalizer"
        BY <3>1, <3>4, <4>1 DEF Plain
      <4>5. BaseOK(m, u)
        BY <3>4, <4>1, <4>2, <4>3, <4>4 DEF Ran, Base
      <4>6. Calling(u)
        BY <4>1, <4>5 DEF BaseOK
      <4>7. QED
        BY <1>5, <4>6 DEF Calling, OfFunction
    <3>5. QED
      BY <1>7, <3>3, <3>4
  <2>4. finished'[u] = finished[u]
    BY <1>9
  <2>5. context'[u].code = context[u].code /\ (interrupt[u] => interrupt'[u])
    BY <1>5
  <2>6. QED
    BY <2>2, <2>3, <2>4, <2>5, RanKept
<1>10. QED
  BY <1>8, <1>9

(* An object that is released calls its finalizer. *)
LEMMA FinalizerRan ==
    ASSUME AbortInv, AbortInv', InvokeFinalizer(Main), \A v \in Tasks : Ran(v), NEW u \in Tasks
    PROVE  Ran(u)'
<1>  PICK n \in Nat : n = Len(calls[Main])
  BY StackFacts, TasksAssumption DEF AbortInv, Typed
<1>  PICK t \in Tasks : t = Inner(Main).of
  BY StackFacts, TasksAssumption DEF AbortInv, Typed, InvokeFinalizer, IsIn
<1>  DEFINE f == [of |-> t, by |-> "finalizer", pc |-> "lock", save |-> context[t]]
<1>1. calls[Main] # <<>> /\ Inner(Main).pc \in {"end", "free", "core"}
  BY DEF InvokeFinalizer, IsIn, Script
<1>2. /\ Main \in Drivers /\ TaskTypeOK /\ Typed /\ DOMAIN calls[Main] = 1 .. n /\ n \in 1 .. n
      /\ Inner(Main) = calls[Main][n] /\ Inner(Main) \in CallFrames
  BY <1>1, StackFacts, TasksAssumption DEF AbortInv, Typed
<1>3. context[t] \in States /\ f \in CallFrames
  BY <1>2 DEF Typed, TaskTypeOK, CallFrames
<1>4. calls' = [calls EXCEPT ![Main] = Append(Releasing(Main), f)]
  BY DEF InvokeFinalizer
<1>  HIDE DEF f
<1>5. Pushed(Main, f, IF Inner(Main).pc = "core" THEN "free" ELSE Inner(Main).pc)
  BY <1>1, <1>2, <1>3, <1>4, FinalizerStack
<1>6. /\ Len(calls'[Main]) = n + 1 /\ DOMAIN calls'[Main] = 1 .. n + 1
      /\ \A i \in 1 .. n : /\ calls'[Main][i].of = calls[Main][i].of
                           /\ calls'[Main][i].by = calls[Main][i].by
                           /\ calls'[Main][i].save = calls[Main][i].save
                           /\ i # n => calls'[Main][i].pc = calls[Main][i].pc
      /\ calls'[Main][n].pc = IF calls[Main][n].pc = "core" THEN "free" ELSE calls[Main][n].pc
      /\ calls'[Main][n + 1] = f
  BY <1>2, <1>5 DEF Pushed
<1>7. /\ \A i \in 1 .. n + 1 : i \in 1 .. n \/ i = n + 1
      /\ \A i \in 1 .. n : i \in 1 .. n + 1
  OBVIOUS
<1>8. /\ calls'[Main][n + 1].of = t /\ calls'[Main][n + 1].by = "finalizer"
      /\ calls'[Main][n + 1].save = context[t]
  BY <1>6 DEF f
<1>9. /\ interrupt' = interrupt /\ outcome' = outcome /\ result' = result /\ finished' = finished
      /\ context'[t].code = "finalizer" /\ \A v \in Tasks \ {t} : context'[v] = context[v]
  BY <1>2, <1>3 DEF InvokeFinalizer, ResetState, Typed, TaskTypeOK, States
<1>10. CASE u # t
  <2>  SUFFICES ASSUME outcome[u] # "aborted" PROVE Ran(u)'
    BY <1>9 DEF Ran
  <2>1. \A i \in 1 .. n : calls[Main][i].of = u => calls'[Main][i].pc = calls[Main][i].pc
    BY <1>2, <1>6, <1>10
  <2>2. ASSUME NEW i \in 1 .. n + 1, calls'[Main][i].of = u
        PROVE  i \in 1 .. n
    BY <1>7, <1>8, <1>10, <2>2
  <2>3. SameRuns(u)
    <3>1. ASSUME NEW i \in 1 .. n + 1, IsRun(i, u)' PROVE IsRun(i, u)
      BY <1>2, <1>6, <2>2, <3>1 DEF IsRun
    <3>2. ASSUME NEW i \in 1 .. n, IsRun(i, u)
          PROVE  /\ IsRun(i, u)'
                 /\ calls'[Main][i].by = calls[Main][i].by /\ calls'[Main][i].save = calls[Main][i].save
                 /\ calls[Main][i].by = "proceed" => calls'[Main][i].pc = calls[Main][i].pc
      BY <1>6, <1>7, <2>1, <3>2 DEF IsRun
    <3>3. QED
      BY <1>2, <1>6, <3>1, <3>2 DEF SameRuns
  <2>4. Waiting(u)
    <3>1. ASSUME NEW i \in 1 .. n + 1, calls'[Main][i].of = u, calls'[Main][i].by = "finish"
          PROVE  calls'[Main][i].pc \in {"check", "lock"}
      <4>1. i \in 1 .. n
        BY <2>2, <3>1
      <4>2. QED
        BY <1>2, <1>6, <2>1, <3>1, <4>1 DEF Ran
    <3>2. \A i \in 1 .. n : Base(i, u) => i < n
      BY <1>2, <1>10 DEF Base
    <3>3. QED
      BY <1>2, <1>6, <3>1, <3>2 DEF Waiting
  <2>5. Plain(u) /\ ~finished[u] => OfFunction(u, context[u])'
    BY <1>9, <1>10 DEF Ran, OfFunction, IsRunning
  <2>6. context'[u].code = context[u].code /\ (interrupt[u] => interrupt'[u])
    BY <1>9, <1>10
  <2>7. QED
    BY <1>9, <2>3, <2>4, <2>5, <2>6, RanKept
<1>11. CASE u = t
  <2>  SUFFICES ASSUME outcome[t] # "aborted" PROVE Ran(t)'
    BY <1>9, <1>11 DEF Ran
  <2>1. /\ Inner(Main).by = "proceed" =>
            /\ BaseOK(n, t) /\ ~Released(t)
            /\ \A i \in DOMAIN calls[Main] : calls[Main][i].of = t => i = n
            /\ Inner(Main).pc \notin {"end", "flag"} => Plain(t)
        /\ Inner(Main).by = "finalizer" => Released(t) /\ context[t].code \in {"finalizer", "none"}
    BY <1>1, InnerRan
  <2>2. calls[Main][n].by \in {"proceed", "finalizer"}
    <3>1. Inner(Main).by # "finish"
      BY <1>1, InnerRan
    <3>2. QED
      BY <1>2, <3>1, FrameFacts
  <2>3. Released(t)' /\ ~Plain(t)'
    <3>1. n + 1 \in DOMAIN calls'[Main] /\ Finalizes(Main, n + 1, t)'
      BY <1>6, <1>8 DEF Finalizes
    <3>2. QED
      BY <3>1 DEF Released, Plain, Finalizes
  <2>4. Told(t)' <=> Told(t)
    BY <1>9 DEF Told
  <2>5. ASSUME NEW i \in 1 .. n + 1, calls'[Main][i].of = t, calls'[Main][i].by = "finish"
        PROVE  calls'[Main][i].pc \in {"check", "lock"}
    <3>1. i \in 1 .. n
      BY <1>7, <1>8, <2>5
    <3>2. i # n
      BY <1>6, <2>2, <2>5, <3>1
    <3>3. QED
      BY <1>2, <1>6, <2>5, <3>1, <3>2 DEF Ran
  <2>6. ASSUME NEW i \in 1 .. n + 1, Base(i, t)'
        PROVE  BaseOK(i, t)'
    <3>1. i \in 1 .. n
      BY <1>7, <1>8, <2>6 DEF Base
    <3>2. Base(i, t) /\ BaseOK(i, t)
      BY <1>2, <1>6, <2>6, <3>1 DEF Base, Ran
    <3>3. /\ calls'[Main][i].pc \in {"free", "end"} /\ ~finished[t]
          /\ calls'[Main][i].pc = "end" => Told(t)
      <4>1. CASE i = n
        BY <1>1, <1>2, <1>6, <3>1, <3>2, <4>1 DEF BaseOK
      <4>2. CASE i # n
        <5>1. Released(t)
          BY <1>2, <2>1, <2>2, <3>1, <3>2, <4>2 DEF Base
        <5>2. QED
          BY <1>6, <3>1, <3>2, <4>2, <5>1 DEF BaseOK
      <4>3. QED
        BY <4>1, <4>2
    <3>4. \A j \in DOMAIN calls'[Main] : j < i => calls'[Main][j].of # t
      <4>1. ASSUME NEW j \in 1 .. n + 1, j < i PROVE calls'[Main][j].of # t
        <5>1. j \in 1 .. n
          BY <3>1, <4>1
        <5>2. QED
          BY <1>2, <1>6, <3>2, <4>1, <5>1 DEF BaseOK
      <4>2. QED
        BY <1>6, <4>1
    <3>5. QED
      BY <1>9, <2>3, <2>4, <3>3, <3>4 DEF BaseOK
  <2>7. ASSUME NEW j \in 1 .. n + 1, Finalizes(Main, j, t)'
        PROVE  SaveOK(j, t)'
    <3>1. CASE j = n + 1
      <4>1. j - 1 = n
        BY <3>1
      <4>2. ASSUME calls'[Main][n].by = "proceed", calls'[Main][n].pc = "free"
            PROVE  OfFunction(t, context[t]) /\ context[t].code # "none"
        <5>1. Inner(Main).by = "proceed" /\ Inner(Main).pc \in {"core", "free"}
          BY <1>1, <1>2, <1>6, <4>2
        <5>2. BaseOK(n, t) /\ ~Released(t) /\ Plain(t)
          BY <2>1, <5>1
        <5>3. Inner(Main).pc = "core" => ~interrupt[t]
          BY DEF InvokeFinalizer, IsIn, Script
        <5>4. context[t].code # "none" /\ ~finished[t]
          BY <1>2, <5>1, <5>2, <5>3 DEF BaseOK
        <5>5. QED
          BY <5>2, <5>4 DEF Ran
      <4>3. calls'[Main][n].by = "finalizer" => context[t].code \in {"finalizer", "none"}
        BY <1>2, <1>6, <2>1
      <4>4. OfFunction(t, context[t]) => OfFunction(t, calls[Main][n + 1].save)'
        BY <1>8, <1>9 DEF OfFunction, IsRunning
      <4>5. QED
        BY <1>8, <1>9, <3>1, <4>1, <4>2, <4>3, <4>4 DEF SaveOK
    <3>2. CASE j \in 1 .. n
      <4>1. Finalizes(Main, j, t) /\ SaveOK(j, t) /\ calls'[Main][j].save = calls[Main][j].save
        BY <1>2, <1>6, <2>7, <3>2 DEF Finalizes, Ran
      <4>2. j - 1 \in 1 .. n /\ j - 1 # n
        <5>1. j > 1
          BY <1>2, <3>2, <4>1 DEF AbortInv, StackOK, Finalizes
        <5>2. QED
          BY <3>2, <5>1
      <4>3. calls'[Main][j - 1].by = calls[Main][j - 1].by
            /\ calls'[Main][j - 1].pc = calls[Main][j - 1].pc
        BY <1>6, <4>2
      <4>4. OfFunction(t, calls[Main][j].save) => OfFunction(t, calls[Main][j].save)'
        BY <1>9, <4>1 DEF OfFunction, IsRunning
      <4>5. QED
        BY <1>9, <4>1, <4>3, <4>4 DEF SaveOK
    <3>3. QED
      BY <1>7, <3>1, <3>2
  <2>8. finished'[t] => Told(t)'
    BY <1>9, <2>4 DEF Ran
  <2>9. QED
    BY <1>6, <2>3, <2>5, <2>6, <2>7, <2>8 DEF Ran
<1>12. QED
  BY <1>10, <1>11

(* A finalizer ends. *)
LEMMA FinalizedRan ==
    ASSUME AbortInv, AbortInv', FinishFunctionResult(Main), Inner(Main).by = "finalizer",
           \A v \in Tasks : Ran(v), NEW u \in Tasks
    PROVE  Ran(u)'
<1>  PICK n \in Nat : n = Len(calls[Main])
  BY StackFacts, TasksAssumption DEF AbortInv, Typed
<1>  PICK t \in Tasks : t = Inner(Main).of
  BY StackFacts, TasksAssumption DEF AbortInv, Typed, FinishFunctionResult, IsIn
<1>1. /\ Main \in Drivers /\ TaskTypeOK /\ Typed /\ DOMAIN calls[Main] = 1 .. n /\ n \in 1 .. n
      /\ Inner(Main) = calls[Main][n] /\ Inner(Main) \in CallFrames /\ calls[Main] # <<>>
      /\ StackOK(Main)
  BY StackFacts, TasksAssumption DEF AbortInv, Typed, FinishFunctionResult, IsIn
<1>  PICK c \in States : c = Inner(Main).save
  BY <1>1, FrameFacts
<1>2. /\ RestoreContextState(t, c) /\ calls' = [calls EXCEPT ![Main] = Front(calls[Main])]
      /\ interrupt' = interrupt /\ outcome' = outcome /\ result' = result /\ finished' = finished
  BY DEF FinishFunctionResult
<1>3. context'[t] = c /\ \A v \in Tasks \ {t} : context'[v] = context[v]
  BY <1>1, <1>2, RestoreFacts
<1>4. Popped(Main)
  BY <1>1, <1>2, PopStack
<1>5. /\ Len(calls'[Main]) = n - 1 /\ DOMAIN calls'[Main] = 1 .. n - 1
      /\ \A i \in 1 .. n - 1 : calls'[Main][i] = calls[Main][i]
  BY <1>4 DEF Popped
<1>6. CASE u # t
  <2>  SUFFICES ASSUME outcome[u] # "aborted" PROVE Ran(u)'
    BY <1>2 DEF Ran
  <2>1. ~IsRun(n, u)
    BY <1>1, <1>6 DEF IsRun
  <2>2. SameRuns(u) /\ Waiting(u)
    BY <1>1, <1>4, <2>1, PoppedRuns
  <2>3. Plain(u) /\ ~finished[u] => OfFunction(u, context[u])'
    BY <1>2, <1>3, <1>6 DEF Ran, OfFunction, IsRunning
  <2>4. context'[u].code = context[u].code /\ (interrupt[u] => interrupt'[u])
    BY <1>2, <1>3, <1>6
  <2>5. QED
    BY <1>2, <2>2, <2>3, <2>4, RanKept
<1>7. CASE u = t
  <2>  SUFFICES ASSUME outcome[t] # "aborted" PROVE Ran(t)'
    BY <1>2, <1>7 DEF Ran
  <2>1. SaveOK(n, t)
    BY <1>1 DEF Ran, Finalizes
  <2>2. n - 1 \in 1 .. n - 1 /\ n > 1
    BY <1>1 DEF StackOK
  <2>  PICK m \in 1 .. n - 1 : m = n - 1
    BY <2>2
  <2>3. m \in DOMAIN calls[Main] /\ m + 1 = n /\ n - 1 = m
    BY <1>1
  <2>4. calls[Main][m].of = t /\ calls[Main][m].pc \in {"free", "end"}
    <3>1. calls[Main][m + 1] = Inner(Main)
      BY <1>1, <2>3
    <3>2. QED
      BY <1>1, <3>1 DEF StackOK
  <2>5. calls[Main][m].by \in {"proceed", "finalizer"}
    <3>1. calls[Main][m].by # "finish"
      BY <2>3, <2>4 DEF Ran
    <3>2. QED
      BY <1>1, <2>3, <3>1, StackFacts, FrameFacts
  <2>6. /\ calls[Main][m].by = "proceed" /\ calls[Main][m].pc = "free" =>
               OfFunction(t, c) /\ c.code # "none"
        /\ calls[Main][m].by = "finalizer" => c.code \in {"finalizer", "none"}
    BY <1>1, <2>1, <2>3 DEF SaveOK
  <2>7. \A i \in 1 .. n - 1 : i \in DOMAIN calls[Main] /\ (i = m \/ i < m)
    BY <1>1, <2>3
  <2>8. Told(t)' <=> Told(t)
    BY <1>2 DEF Told
  <2>9. finished'[t] => Told(t)'
    BY <1>2, <2>8 DEF Ran
  <2>10. \A i \in DOMAIN calls'[Main] : calls'[Main][i].of = t /\ calls'[Main][i].by = "finish" =>
            calls'[Main][i].pc \in {"check", "lock"}
    BY <1>5, <2>7 DEF Ran
  <2>11. CASE calls[Main][m].by = "proceed"
    <3>1. BaseOK(m, t)
      BY <2>3, <2>4, <2>11 DEF Ran, Base
    <3>2. \A i \in DOMAIN calls'[Main] : calls'[Main][i].of = t => i = m
      BY <1>5, <2>7, <3>1 DEF BaseOK
    <3>3. calls'[Main][m] = calls[Main][m] /\ m \in DOMAIN calls'[Main]
      BY <1>5
    <3>4. ~Released(t)' /\ \A j \in DOMAIN calls'[Main] : ~Finalizes(Main, j, t)'
      BY <2>11, <3>2, <3>3 DEF Released, Finalizes
    <3>5. BaseOK(m, t)'
      <4>1. \A j \in DOMAIN calls'[Main] : j < m => calls'[Main][j].of # t
        BY <3>2
      <4>2. calls'[Main][m].pc \in {"free", "end"} /\ ~finished'[t]
        BY <1>2, <2>4, <3>1, <3>3 DEF BaseOK
      <4>3. calls'[Main][m].pc = "end" => Told(t)'
        BY <2>8, <3>1, <3>3 DEF BaseOK
      <4>4. calls'[Main][m].pc = "free" => context'[t].code # "none"
        BY <1>3, <2>6, <2>11, <3>3
      <4>5. QED
        BY <3>4, <4>1, <4>2, <4>3, <4>4 DEF BaseOK
    <3>6. Plain(t)' => OfFunction(t, context[t])'
      <4>1. SUFFICES ASSUME Plain(t)' PROVE OfFunction(t, context[t])'
        OBVIOUS
      <4>2. calls[Main][m].pc = "free"
        BY <2>4, <3>3, <4>1 DEF Plain
      <4>3. OfFunction(t, c)
        BY <2>6, <2>11, <4>2
      <4>4. QED
        BY <1>2, <1>3, <4>3 DEF OfFunction, IsRunning
    <3>7. \A i \in DOMAIN calls'[Main] : Base(i, t)' => BaseOK(i, t)'
      <4>1. SUFFICES ASSUME NEW i \in DOMAIN calls'[Main], Base(i, t)' PROVE BaseOK(i, t)'
        OBVIOUS
      <4>2. i = m
        BY <3>2, <4>1 DEF Base
      <4>3. QED
        BY <3>5, <4>2
    <3>8. QED
      BY <2>9, <2>10, <3>4, <3>6, <3>7 DEF Ran
  <2>12. CASE calls[Main][m].by = "finalizer"
    <3>1. Released(t) /\ Released(t)' /\ ~Plain(t)'
      <4>1. m \in DOMAIN calls'[Main] /\ Finalizes(Main, m, t) /\ Finalizes(Main, m, t)'
        BY <1>5, <2>4, <2>12 DEF Finalizes
      <4>2. QED
        BY <2>3, <4>1 DEF Released, Plain, Finalizes
    <3>2. ASSUME NEW i \in 1 .. n - 1, Base(i, t)'
          PROVE  BaseOK(i, t)'
      <4>1. i \in DOMAIN calls[Main] /\ calls'[Main][i] = calls[Main][i]
        BY <1>5, <2>7
      <4>2. BaseOK(i, t)
        BY <3>2, <4>1 DEF Ran, Base
      <4>3. \A j \in 1 .. n - 1 : j < i => calls'[Main][j].of # t
        BY <1>5, <2>7, <4>2 DEF BaseOK
      <4>4. QED
        BY <1>2, <1>5, <2>8, <3>1, <4>1, <4>2, <4>3 DEF BaseOK
    <3>3. ASSUME NEW j \in 1 .. n - 1, Finalizes(Main, j, t)'
          PROVE  SaveOK(j, t)'
      <4>1. j \in DOMAIN calls[Main] /\ calls'[Main][j] = calls[Main][j]
        BY <1>5, <2>7
      <4>2. SaveOK(j, t) /\ j > 1
        BY <1>1, <3>3, <4>1 DEF Ran, Finalizes, StackOK
      <4>3. calls'[Main][j - 1] = calls[Main][j - 1]
        <5>1. j - 1 \in 1 .. n - 1
          BY <4>2
        <5>2. QED
          BY <1>5, <5>1
      <4>4. context'[t].code \in {"finalizer", "none"}
        BY <1>3, <2>6, <2>12
      <4>5. OfFunction(t, calls[Main][j].save) => OfFunction(t, calls[Main][j].save)'
        BY <1>2, <4>1 DEF OfFunction, IsRunning
      <4>6. QED
        BY <4>1, <4>2, <4>3, <4>4, <4>5 DEF SaveOK
    <3>4. QED
      BY <1>5, <2>9, <2>10, <3>1, <3>2, <3>3 DEF Ran
  <2>13. QED
    BY <2>5, <2>11, <2>12
<1>8. QED
  BY <1>6, <1>7

(* The function of a task before its innermost run goes on. *)
LEMMA BaseState ==
    ASSUME AbortInv, calls[Main] # <<>>, NEW t \in Tasks, t = Inner(Main).of, Ran(t),
           outcome[t] # "aborted", Inner(Main).by = "proceed", Inner(Main).pc \notin {"end", "flag"}
    PROVE  /\ Inner(Main).pc # "check" => ~finished[t]
           /\ ~finished[t] => OfFunction(t, context[t])
           /\ Inner(Main).pc = "core" => interrupt[t] \/ context[t].code # "none"
           /\ Inner(Main).pc = "free" => context[t].code # "none"
<1>1. Inner(Main) = calls[Main][Len(calls[Main])]
  BY StackFacts, TasksAssumption DEF AbortInv, Typed
<1>2. BaseOK(Len(calls[Main]), t) /\ ~Released(t) /\ Plain(t)
  BY InnerRan
<1>3. QED
  BY <1>1, <1>2 DEF BaseOK, Ran

(* The innermost run of Main, of t, goes to pc: what it may do to t. *)
Moved(t, pc) == outcome[t] # "aborted" /\ outcome'[t] # "aborted" =>
    /\ Inner(Main).by = "proceed" =>
        /\ ~finished[t]
        /\ pc \in {"end", "flag"} => Told(t)'
        /\ pc \notin {"end", "flag"} => OfFunction(t, context[t])'
        /\ pc = "core" => interrupt'[t] \/ context'[t].code # "none"
        /\ pc = "free" => context'[t].code # "none"
    /\ Inner(Main).by = "finalizer" =>
        /\ outcome'[t] = outcome[t] /\ result'[t] = result[t]
        /\ context'[t].code \in {"finalizer", "none"}
    /\ Inner(Main).by = "finish" =>
        /\ pc = "lock" /\ outcome'[t] = outcome[t] /\ result'[t] = result[t]
        /\ context'[t] = context[t] /\ interrupt'[t] = interrupt[t]

(* It leaves the other tasks alone. *)
OthersRest(t) ==
    /\ finished' = finished
    /\ \A v \in Tasks \ {t} :
           /\ outcome'[v] = outcome[v] /\ result'[v] = result[v]
           /\ context'[v] = context[v] /\ interrupt'[v] = interrupt[v]
    /\ outcome[t] = "aborted" => outcome'[t] = "aborted"

(* The innermost call of Main goes to pc. *)
LEMMA MoveRan ==
    ASSUME AbortInv, AbortInv', calls[Main] # <<>>, NEW t \in Tasks, t = Inner(Main).of,
           NEW pc \in PCs \ {"check"}, GoneTo(Main, pc), \A v \in Tasks : Ran(v),
           OthersRest(t), Moved(t, pc), NEW u \in Tasks
    PROVE  Ran(u)'
<1>1. Inner(Main).by \in {"proceed", "finish", "finalizer"} /\ pc \in PCs
  BY StackFacts, FrameFacts, TasksAssumption DEF AbortInv, Typed
<1>2. ASSUME NEW v \in Tasks, context'[v] = context[v], outcome'[v] = outcome[v]
      PROVE  Released(v) \/ (Plain(v) /\ ~finished[v] => OfFunction(v, context[v])') \/ outcome[v] = "aborted"
  BY <1>2 DEF Ran, OfFunction, IsRunning
<1>3. CASE u # t
  <2>  SUFFICES ASSUME outcome[u] # "aborted" PROVE Ran(u)'
    BY <1>3 DEF Ran, OthersRest
  <2>1. Released(u) \/ (Plain(u) /\ ~finished[u] => OfFunction(u, context[u])')
    BY <1>2, <1>3 DEF OthersRest
  <2>2. context'[u].code = context[u].code /\ (interrupt[u] => interrupt'[u])
    BY <1>3 DEF OthersRest
  <2>3. outcome'[u] = outcome[u] /\ result'[u] = result[u] /\ finished'[u] = finished[u]
    BY <1>3 DEF OthersRest
  <2>4. QED
    BY <1>1, <1>3, <2>1, <2>2, <2>3, GoneRan
<1>4. CASE u = t
  <2>  SUFFICES ASSUME outcome[t] # "aborted", outcome'[t] # "aborted" PROVE Ran(t)'
    BY <1>4 DEF Ran, OthersRest
  <2>1. CASE Inner(Main).by = "proceed"
    <3>1. pc \notin {"end", "flag"} /\ ~finished'[t] => OfFunction(t, context[t])'
      BY <2>1 DEF Moved
    <3>2. /\ ~finished'[t]
          /\ pc \in {"end", "flag"} => Told(t)'
          /\ pc = "core" => interrupt'[t] \/ context'[t].code # "none"
          /\ pc = "free" => context'[t].code # "none"
      BY <2>1 DEF Moved, OthersRest
    <3>3. QED
      BY <1>1, <2>1, <3>1, <3>2, BaseRan
  <2>2. CASE Inner(Main).by = "finalizer"
    <3>1. Released(t)
      BY <2>2, InnerRan
    <3>2. /\ outcome'[t] = outcome[t] /\ result'[t] = result[t] /\ finished'[t] = finished[t]
          /\ context'[t].code \in {"finalizer", "none"}
      BY <2>2 DEF Moved, OthersRest
    <3>3. QED
      BY <1>1, <2>2, <3>1, <3>2, GoneRan
  <2>3. CASE Inner(Main).by = "finish"
    <3>1. /\ outcome'[t] = outcome[t] /\ result'[t] = result[t] /\ finished'[t] = finished[t]
          /\ context'[t].code = context[t].code /\ (interrupt[t] => interrupt'[t])
          /\ pc \in {"check", "lock"} /\ context'[t] = context[t]
      BY <2>3 DEF Moved, OthersRest
    <3>2. Released(t) \/ (Plain(t) /\ ~finished[t] => OfFunction(t, context[t])')
      BY <1>2, <3>1
    <3>3. QED
      BY <1>1, <2>3, <3>1, <3>2, GoneRan
  <2>4. QED
    BY <1>1, <2>1, <2>2, <2>3
<1>5. QED
  BY <1>3, <1>4

(* The stacks are left as they are. *)
LEMMA StayRan ==
    ASSUME AbortInv, AbortInv', NEW u \in Tasks, Ran(u), calls' = calls,
           outcome'[u] = outcome[u], result'[u] = result[u], finished'[u] = finished[u],
           context'[u].code = context[u].code, context'[u].status = context[u].status,
           context'[u].value = context[u].value, context[u].exception => context'[u].exception,
           interrupt[u] => interrupt'[u]
    PROVE  Ran(u)'
<1>  SUFFICES ASSUME outcome[u] # "aborted" PROVE Ran(u)'
  BY DEF Ran
<1>1. SameRuns(u)
  BY DEF SameRuns, IsRun
<1>2. Waiting(u)
  BY DEF Waiting, Ran
<1>3. Plain(u) /\ ~finished[u] => OfFunction(u, context[u])'
  BY DEF Ran, OfFunction, IsRunning
<1>4. QED
  BY <1>1, <1>2, <1>3, RanKept

(* A call of finish() that waits is that of a signal to abort. *)
InnerAlone ==
    calls[Main] # <<>> /\ Inner(Main).by = "finish" /\ Inner(Main).pc \in {"check", "lock"} =>
        signal[Inner(Main).of] = "abort"

(* The abort of finish() waits for its call ... *)
LEMMA AloneFacts ==
    ASSUME AbortInv, MainAlone
    PROVE  InnerAlone
<1>1. calls[Main] # <<>> => /\ Len(calls[Main]) \in DOMAIN calls[Main]
                            /\ Inner(Main) = calls[Main][Len(calls[Main])]
  BY StackFacts, TasksAssumption DEF AbortInv, Typed
<1>2. QED
  BY <1>1 DEF MainAlone, InnerAlone

(* ... and the innermost call is the only one that waits. *)
LEMMA AloneKept ==
    ASSUME AbortInv', MainAlone, \A e \in Drivers \ {Main} : calls'[e] = calls[e], InnerAlone'
    PROVE  MainAlone'
<1>  PICK s \in Seq(CallFrames) : s = calls'[Main]
  BY TasksAssumption DEF AbortInv, Typed, TaskTypeOK
<1>1. Main \in Drivers /\ StackOK(Main)'
  BY TasksAssumption DEF AbortInv
<1>2. s # <<>> => Inner(Main)' = s[Len(s)]
  BY DEF Inner, Last
<1>3. ASSUME NEW i \in DOMAIN s, s[i].by = "finish", s[i].pc \in {"check", "lock"}
      PROVE  signal'[s[i].of] = "abort"
  <2>1. DOMAIN s = 1 .. Len(s) /\ Len(s) \in Nat /\ s # <<>>
    BY <1>3
  <2>2. i < Len(s) => s[i].pc \in {"core", "free", "end"}
    BY <1>1, <1>3 DEF StackOK
  <2>3. i = Len(s)
    BY <1>3, <2>1, <2>2
  <2>4. QED
    BY <1>2, <1>3, <2>1, <2>3 DEF InnerAlone
<1>4. \A e \in Drivers : e # Main => calls'[e] = <<>>
  BY DEF MainAlone
<1>5. QED
  BY <1>3, <1>4 DEF MainAlone

(* throw, of any thread *)
LEMMA ThrowRan ==
    ASSUME ResultInv, AbortInv', NEW d \in Drivers, NEW t \in Tasks, ThrowInto(d, t)
    PROVE  (\A u \in Tasks : Ran(u)') /\ InnerAlone'
<1>1. /\ calls' = calls /\ outcome' = outcome /\ result' = result /\ finished' = finished
      /\ AbortInv /\ Typed /\ \A u \in Tasks : Ran(u)
  BY DEF ThrowInto, ResultInv, AbortInv
<1>2. CASE Signalled(t, "throw") /\ context' = context
  <2>1. \A u \in Tasks : (interrupt[u] => interrupt'[u]) /\ (signal[u] = "abort" => signal'[u] = "abort")
    BY <1>1, <1>2, SignalledFacts DEF Signals
  <2>2. ASSUME NEW u \in Tasks PROVE Ran(u)'
    BY <1>1, <1>2, <2>1, StayRan
  <2>3. InnerAlone'
    <3>1. InnerAlone /\ (calls[Main] # <<>> => Inner(Main).of \in Tasks)
      BY <1>1, AloneFacts, StackFacts, TasksAssumption DEF ResultInv, Typed
    <3>2. QED
      BY <1>1, <2>1, <3>1 DEF InnerAlone, Inner
  <2>4. QED
    BY <2>2, <2>3
<1>3. CASE context' = [context EXCEPT ![t].exception = TRUE] /\ signal' = signal /\ interrupt' = interrupt
  <2>1. context \in [Tasks -> States]
    BY <1>1 DEF Typed, TaskTypeOK
  <2>2. ASSUME NEW u \in Tasks
        PROVE  /\ context'[u].code = context[u].code /\ context'[u].status = context[u].status
               /\ context'[u].value = context[u].value
               /\ context[u].exception => context'[u].exception
    BY <1>3, <2>1 DEF States
  <2>3. ASSUME NEW u \in Tasks PROVE Ran(u)'
    BY <1>1, <1>3, <2>2, StayRan
  <2>4. InnerAlone'
    BY <1>1, <1>3, AloneFacts DEF ResultInv, InnerAlone, Inner
  <2>5. QED
    BY <2>3, <2>4
<1>4. QED
  BY <1>2, <1>3 DEF ThrowInto

(* begin, of a task that is new *)
LEMMA BeginRan ==
    ASSUME ResultInv, AbortInv', Renewed = {}, NEW t \in Tasks, BeginTask(Main, t)
    PROVE  (\A u \in Tasks : Ran(u)') /\ InnerAlone'
<1>1. /\ calls' = calls /\ result' = result /\ interrupt' = interrupt
      /\ ~Begun(t) /\ AbortInv /\ Typed /\ Main \in Drivers /\ \A u \in Tasks : Ran(u)
  BY TasksAssumption DEF BeginTask, ResultInv, AbortInv
<1>2. /\ finished'[t] = FALSE /\ outcome'[t] = "pending" /\ context'[t].code = "function"
      /\ \A u \in Tasks \ {t} : /\ finished'[u] = finished[u] /\ outcome'[u] = outcome[u]
                                /\ context'[u] = context[u]
  BY <1>1 DEF BeginTask, ResetState, Typed, TaskTypeOK, States
<1>3. ASSUME NEW u \in Tasks, u # t PROVE Ran(u)'
  BY <1>1, <1>2, <1>3, StayRan
<1>4. Ran(t)'
  <2>1. \A i \in DOMAIN calls'[Main] : calls'[Main][i].of # t
    BY <1>1 DEF AbortInv, StackOK
  <2>2. ~finished'[t] => OfFunction(t, context[t])'
    BY <1>2 DEF OfFunction
  <2>3. QED
    BY <1>2, <2>1, <2>2, RestRan
<1>5. InnerAlone'
  <2>1. calls[Main] = <<>> \/ Inner(Main).pc = "core"
    BY DEF BeginTask, Executes, Script, IsIn
  <2>2. QED
    BY <1>1, <2>1 DEF InnerAlone, Inner
<1>6. QED
  BY <1>3, <1>4, <1>5

(* proceed and finish of a task *)
LEMMA CallsRan ==
    ASSUME ResultInv, AbortInv', Shared = {}, NEW t \in Tasks,
           ProceedTask(Main, t) \/ FinishTask(Main, t)
    PROVE  (\A u \in Tasks : Ran(u)') /\ InnerAlone'
<1>1. AbortInv /\ Typed /\ TaskTypeOK /\ Main \in Drivers /\ \A u \in Tasks : Ran(u)
  BY TasksAssumption DEF ResultInv, AbortInv, Typed
<1>  PICK by \in {"proceed", "finish"} :
        /\ calls' = Into(Main, t, by, "check")
        /\ by = "proceed" => ~OnStack(Main, t) /\ interrupt' = interrupt
        /\ by = "finish" => Signalled(t, "abort")
  BY DEF ProceedTask, FinishTask
<1>2. Executes(Main) /\ context' = context /\ outcome' = outcome /\ result' = result
      /\ finished' = finished
  BY DEF ProceedTask, FinishTask
<1>  DEFINE f == [of |-> t, by |-> by, pc |-> "check", save |-> NewContext("halt")]
<1>3. f \in CallFrames
  BY DEF CallFrames, NewContext, States
<1>4. calls' = [calls EXCEPT ![Main] = Append(@, f)] /\ f.of = t /\ f.by = by /\ f.pc = "check"
  BY DEF Into
<1>  HIDE DEF f
<1>5. Pushed(Main, f, Inner(Main).pc)
  BY <1>1, <1>3, <1>4, PushStack
<1>6. \A u \in Tasks : interrupt[u] => interrupt'[u]
  BY <1>1, SignalledFacts DEF Signals
<1>7. ASSUME NEW u \in Tasks PROVE Ran(u)'
  <2>1. CASE u = t /\ by = "proceed"
    BY <1>1, <1>2, <1>3, <1>4, <1>5, <2>1, NewRan
  <2>2. CASE ~(u = t /\ by = "proceed")
    <3>1. f.of = u => f.by = "finish" /\ f.pc = "check"
      BY <1>4, <2>2
    <3>2. QED
      BY <1>1, <1>2, <1>3, <1>5, <1>6, <3>1, CallRan
  <2>3. QED
    BY <2>1, <2>2
<1>8. InnerAlone'
  <2>1. Inner(Main)' = f
    BY <1>5 DEF Pushed
  <2>2. by = "finish" => signal'[t] = "abort"
    <3>1. signal[t] \in Signals
      BY <1>1 DEF Typed
    <3>2. Stronger(signal[t], "abort") = "abort"
      BY <3>1 DEF Signals, Stronger
    <3>3. QED
      BY <1>1, <3>2 DEF Signalled, Typed
  <2>3. QED
    BY <1>4, <2>1, <2>2 DEF InnerAlone
<1>9. QED
  BY <1>7, <1>8

(* The innermost call of Main goes to pc. *)
LEMMA MoveAlone ==
    ASSUME AbortInv, calls[Main] # <<>>, NEW pc \in PCs, GoneTo(Main, pc),
           pc \in {"check", "lock"} /\ Inner(Main).by = "finish" => signal'[Inner(Main).of] = "abort"
    PROVE  InnerAlone'
<1>1. Inner(Main)'.pc = pc /\ Inner(Main)'.of = Inner(Main).of /\ Inner(Main)'.by = Inner(Main).by
  BY GoneFacts, TasksAssumption DEF AbortInv, Typed
<1>2. QED
  BY <1>1 DEF InnerAlone

(* The innermost call of Main returns. *)
LEMMA PopAlone ==
    ASSUME AbortInv, calls[Main] # <<>>, Popped(Main)
    PROVE  InnerAlone'
<1>  PICK n \in Nat : n = Len(calls[Main])
  BY StackFacts, TasksAssumption DEF AbortInv, Typed
<1>1. /\ Main \in Drivers /\ StackOK(Main) /\ DOMAIN calls[Main] = 1 .. n
  BY StackFacts, TasksAssumption DEF AbortInv, Typed
<1>2. ASSUME calls'[Main] # <<>> PROVE Inner(Main)'.pc \in {"core", "free", "end"}
  <2>1. n > 1 /\ Inner(Main)' = calls[Main][n - 1]
    BY <1>2 DEF Popped
  <2>2. n - 1 \in DOMAIN calls[Main] /\ n - 1 < n
    BY <1>1, <2>1
  <2>3. QED
    BY <1>1, <2>1, <2>2 DEF StackOK
<1>3. QED
  BY <1>2 DEF InnerAlone

(* AsyncProceed looks at m_flagFinished. *)
LEMMA CheckRan ==
    ASSUME ResultInv, AbortInv', Check(Main)
    PROVE  (\A u \in Tasks : Ran(u)') /\ InnerAlone'
<1>  PICK t : t = Inner(Main).of
  OBVIOUS
<1>1. /\ AbortInv /\ Typed /\ TaskTypeOK /\ Main \in Drivers /\ calls[Main] # <<>>
      /\ t \in Tasks /\ Inner(Main).pc = "check" /\ Inner(Main).by # "finalizer"
      /\ \A u \in Tasks : Ran(u)
  BY InnerFacts, TasksAssumption DEF Check, ResultInv, PCs, Holding
<1>2. /\ signal' = signal /\ result' = result /\ finished' = finished /\ outcome' = outcome
  BY DEF Check
<1>3. CASE finished[t]
  <2>1. /\ calls' = [calls EXCEPT ![Main] = Front(calls[Main])]
        /\ context' = WithValue(Front(calls[Main]), Inner(Main).by = "proceed", context)
        /\ interrupt' = Interrupts(Front(calls[Main]), context)
    BY <1>3 DEF Check
  <2>2. ASSUME NEW u \in Tasks PROVE Ran(u)'
    <3>1. CASE outcome[u] = "aborted"
      BY <1>2, <3>1 DEF Ran
    <3>2. CASE outcome[u] # "aborted"
      <4>1. Told(u)' <=> Told(u)
        BY <1>2 DEF Told
      <4>2. Inner(Main).of = u => finished'[u] /\ Told(u)'
        BY <1>1, <1>2, <1>3, <3>2, <4>1 DEF Ran
      <4>3. outcome'[u] = outcome[u] /\ result'[u] = result[u] /\ finished'[u] = finished[u]
        BY <1>2
      <4>4. IF Inner(Main).of = u /\ Inner(Main).by = "proceed"
            THEN IF finished'[u] THEN Told(u)'
                 ELSE ~finished[u] /\ Inner(Main).pc \notin {"end", "flag"}
            ELSE finished'[u] = finished[u]
        BY <4>2, <4>3
      <4>5. QED
        BY <1>1, <2>1, <4>3, <4>4, ReturnRan
    <3>3. QED
      BY <3>1, <3>2
  <2>3. InnerAlone'
    BY <1>1, <2>1, PopStack, PopAlone
  <2>4. QED
    BY <2>2, <2>3
<1>4. CASE ~finished[t]
  <2>1. calls' = GoTo(Main, "lock") /\ context' = context /\ interrupt' = interrupt
    BY <1>4 DEF Check
  <2>2. GoneTo(Main, "lock") /\ "lock" \in PCs
    BY <1>1, <2>1, GoToStack DEF PCs
  <2>3. ASSUME outcome[t] # "aborted", Inner(Main).by = "proceed"
        PROVE  OfFunction(t, context[t])'
    <3>1. OfFunction(t, context[t])
      BY <1>1, <1>4, <2>3, BaseState
    <3>2. QED
      BY <1>2, <2>1, <3>1 DEF OfFunction, IsRunning
  <2>4. Moved(t, "lock") /\ OthersRest(t)
    BY <1>1, <1>2, <1>4, <2>1, <2>3 DEF Moved, OthersRest
  <2>5. ASSUME NEW u \in Tasks PROVE Ran(u)'
    BY <1>1, <2>2, <2>4, MoveRan
  <2>6. InnerAlone'
    <3>1. Inner(Main).by = "finish" => signal[t] = "abort"
      BY <1>1, AloneFacts DEF InnerAlone, ResultInv
    <3>2. QED
      BY <1>1, <1>2, <2>2, <3>1, MoveAlone
  <2>7. QED
    BY <2>5, <2>6
<1>5. QED
  BY <1>3, <1>4

(* A run processes a signal. *)
LEMMA SignalRan ==
    ASSUME ResultInv, AbortInv', IsIn(Main, "lock") \/ IsIn(Main, "core"),
           NEW t \in Tasks, t = Inner(Main).of, NEW going \in SUBSET {"loop", "back"},
           ProcessSignal(Main, t, going),
           interrupt' = interrupt, result' = result, finished' = finished
    PROVE  (\A u \in Tasks : Ran(u)') /\ InnerAlone'
<1>1. /\ AbortInv /\ Typed /\ TaskTypeOK /\ Main \in Drivers /\ calls[Main] # <<>>
      /\ Inner(Main).pc \in {"lock", "core"} /\ \A u \in Tasks : Ran(u)
  BY TasksAssumption DEF ResultInv, AbortInv, Typed, IsIn
<1>2. context \in [Tasks -> States] /\ outcome \in [Tasks -> Outcomes] /\ context[t] \in States
  BY <1>1 DEF Typed, TaskTypeOK
<1>3. PICK pc \in {"loop", "back"} : calls' = GoTo(Main, pc)
  BY DEF ProcessSignal
<1>4. pc \in PCs \ {"check"} /\ GoneTo(Main, pc)
  BY <1>1, <1>3, GoToStack DEF PCs
<1>5. ASSUME outcome[t] # "aborted", Inner(Main).by = "proceed"
      PROVE  ~finished[t] /\ OfFunction(t, context[t])
  BY <1>1, <1>5, BaseState
<1>6. ASSUME outcome[t] # "aborted", Inner(Main).by = "finish"
      PROVE  signal[t] = "abort"
  <2>1. Inner(Main).pc = "lock"
    BY <1>1, <1>6, InnerRan
  <2>2. QED
    BY <1>1, <1>6, <2>1, AloneFacts DEF ResultInv, InnerAlone
<1>7. ASSUME outcome[t] # "aborted", Inner(Main).by = "finalizer"
      PROVE  context[t].code \in {"finalizer", "none"}
  BY <1>1, <1>7, InnerRan
<1>8. Moved(t, pc) /\ OthersRest(t)
  <2>1. CASE /\ signal[t] = "abort"
             /\ context' = [context EXCEPT ![t].status = "aborted", ![t].value = "nothing"]
             /\ outcome' = [outcome EXCEPT ![t] = "aborted"]
    BY <1>2, <2>1 DEF Moved, OthersRest
  <2>2. CASE /\ signal[t] = "throw"
             /\ \E c \in Thrown(context[t]) :
                   /\ context' = [context EXCEPT ![t] = c]
                   /\ outcome' = IF c.status = "halt" /\ context[t].code \in {"function", "leaving"}
                                    /\ outcome[t] = "pending"
                                 THEN [outcome EXCEPT ![t] = "thrown"] ELSE outcome
    <3>1. PICK c \in Thrown(context[t]) :
                   /\ context' = [context EXCEPT ![t] = c]
                   /\ outcome' = IF c.status = "halt" /\ context[t].code \in {"function", "leaving"}
                                    /\ outcome[t] = "pending"
                                 THEN [outcome EXCEPT ![t] = "thrown"] ELSE outcome
      BY <2>2
    <3>2. \/ /\ IsRunning(context[t]) /\ context[t].code # "none" /\ c.status = "running"
             /\ c.code = IF context[t].code = "leaving" THEN "function" ELSE context[t].code
          \/ /\ IsRunning(context[t]) /\ context[t].code # "none" /\ c.status = "halt"
             /\ c.code = context[t].code /\ c.value = context[t].value /\ c.exception
          \/ /\ ~(IsRunning(context[t]) /\ context[t].code # "none") /\ c.exception
             /\ c.code = context[t].code /\ c.value = context[t].value
             /\ c.status = context[t].status
      BY <1>2 DEF Thrown, States
    <3>3. context'[t] = c /\ OthersRest(t)
      BY <1>2, <3>1 DEF OthersRest
    <3>4. ASSUME outcome[t] # "aborted", Inner(Main).by = "proceed"
          PROVE  OfFunction(t, context[t])'
      <4>1. OfFunction(t, context[t])
        BY <1>5, <3>4
      <4>2. outcome'[t] = IF c.status = "halt" /\ context[t].code \in {"function", "leaving"}
                             /\ outcome[t] = "pending"
                          THEN "thrown" ELSE outcome[t]
        BY <1>2, <3>1
      <4>3. context[t].code \in {"none", "function", "leaving", "finalizer"}
        BY <1>2, StateFacts
      <4>4. CASE /\ IsRunning(context[t]) /\ context[t].code # "none" /\ c.status = "running"
                 /\ c.code = IF context[t].code = "leaving" THEN "function" ELSE context[t].code
        <5>1. outcome'[t] = outcome[t] /\ outcome[t] \notin {"returned", "thrown"}
          BY <4>1, <4>2, <4>4 DEF OfFunction
        <5>2. c.code = "function"
          BY <4>1, <4>3, <4>4 DEF OfFunction
        <5>3. QED
          BY <3>3, <5>1, <5>2 DEF OfFunction
      <4>5. CASE /\ IsRunning(context[t]) /\ context[t].code # "none" /\ c.status = "halt"
                 /\ c.code = context[t].code /\ c.value = context[t].value /\ c.exception
        BY <3>3, <4>1, <4>2, <4>5 DEF OfFunction, IsRunning
      <4>6. CASE /\ ~(IsRunning(context[t]) /\ context[t].code # "none") /\ c.exception
                 /\ c.code = context[t].code /\ c.value = context[t].value
                 /\ c.status = context[t].status
        BY <3>3, <4>1, <4>2, <4>6 DEF OfFunction, IsRunning
      <4>7. QED
        BY <3>2, <4>4, <4>5, <4>6
    <3>5. ASSUME outcome[t] # "aborted", Inner(Main).by = "finalizer"
          PROVE  outcome'[t] = outcome[t] /\ context'[t].code \in {"finalizer", "none"}
      BY <1>7, <3>1, <3>2, <3>3, <3>5
    <3>6. outcome[t] # "aborted" => Inner(Main).by # "finish"
      BY <1>6, <2>2
    <3>7. Moved(t, pc)
      BY <1>3, <1>5, <3>4, <3>5, <3>6 DEF Moved
    <3>8. QED
      BY <3>3, <3>7
  <2>3. CASE signal[t] = "break" /\ context' = context /\ outcome' = outcome
    <3>1. OfFunction(t, context[t]) => OfFunction(t, context[t])'
      BY <2>3 DEF OfFunction, IsRunning
    <3>2. outcome[t] # "aborted" => Inner(Main).by # "finish"
      BY <1>6, <2>3
    <3>3. QED
      BY <1>3, <1>5, <1>7, <2>3, <3>1, <3>2 DEF Moved, OthersRest
  <2>4. QED
    BY <2>1, <2>2, <2>3 DEF ProcessSignal
<1>9. ASSUME NEW u \in Tasks PROVE Ran(u)'
  BY <1>1, <1>4, <1>8, MoveRan
<1>10. InnerAlone'
  BY <1>1, <1>3, <1>4, MoveAlone
<1>11. QED
  BY <1>9, <1>10

(* AsyncRun takes the lock. *)
LEMMA EnterRan ==
    ASSUME ResultInv, AbortInv', Enter(Main)
    PROVE  (\A u \in Tasks : Ran(u)') /\ InnerAlone'
<1>  PICK t : t = Inner(Main).of
  OBVIOUS
<1>1. /\ AbortInv /\ Typed /\ TaskTypeOK /\ Main \in Drivers /\ calls[Main] # <<>>
      /\ t \in Tasks /\ Inner(Main).pc = "lock" /\ IsIn(Main, "lock")
      /\ \A u \in Tasks : Ran(u)
  BY InnerFacts, TasksAssumption DEF Enter, ResultInv, PCs
<1>2. interrupt' = interrupt /\ result' = result /\ finished' = finished
  BY DEF Enter
<1>3. CASE ProcessSignal(Main, t, {"loop"})
  <2>1. {"loop"} \in SUBSET {"loop", "back"}
    OBVIOUS
  <2>2. QED
    BY <1>1, <1>2, <1>3, <2>1, SignalRan
<1>4. CASE /\ signal[t] = "no"
           /\ \/ /\ context[t].status = "awaiting"
                 /\ calls' = GoTo(Main, "back") /\ UNCHANGED context
              \/ /\ calls' = GoTo(Main, "loop")
                 /\ context' = IF context[t].status = "awaiting"
                               THEN [context EXCEPT ![t].status = "running"] ELSE context
           /\ UNCHANGED outcome
  <2>1. PICK pc \in {"loop", "back"} : calls' = GoTo(Main, pc)
    BY <1>4
  <2>2. pc \in PCs \ {"check"} /\ GoneTo(Main, pc)
    BY <1>1, <2>1, GoToStack DEF PCs
  <2>3. context[t] \in States /\ context \in [Tasks -> States]
    BY <1>1 DEF Typed, TaskTypeOK
  <2>4. /\ \A u \in Tasks \ {t} : context'[u] = context[u]
        /\ context'[t].code = context[t].code /\ context'[t].value = context[t].value
        /\ context'[t].exception = context[t].exception
        /\ IsRunning(context'[t]) <=> IsRunning(context[t])
    BY <1>4, <2>3 DEF States, IsRunning
  <2>5. outcome[t] # "aborted" => Inner(Main).by # "finish"
    BY <1>1, <1>4, AloneFacts DEF ResultInv, InnerAlone
  <2>6. ASSUME outcome[t] # "aborted", Inner(Main).by = "proceed"
        PROVE  ~finished[t] /\ OfFunction(t, context[t])'
    <3>1. ~finished[t] /\ OfFunction(t, context[t])
      BY <1>1, <2>6, BaseState
    <3>2. outcome' = outcome
      BY <1>4
    <3>3. QED
      BY <2>4, <3>1, <3>2 DEF OfFunction
  <2>7. outcome[t] # "aborted" /\ Inner(Main).by = "finalizer" => context[t].code \in {"finalizer", "none"}
    BY <1>1, InnerRan
  <2>8. Moved(t, pc) /\ OthersRest(t)
    BY <1>2, <1>4, <2>1, <2>4, <2>5, <2>6, <2>7 DEF Moved, OthersRest
  <2>9. ASSUME NEW u \in Tasks PROVE Ran(u)'
    BY <1>1, <2>2, <2>8, MoveRan
  <2>10. InnerAlone'
    BY <1>1, <2>1, <2>2, MoveAlone
  <2>11. QED
    BY <2>9, <2>10
<1>5. QED
  BY <1>3, <1>4 DEF Enter

(* RunCoreLoop returns. *)
LEMMA LeaveCoreRan ==
    ASSUME ResultInv, AbortInv', LeaveCore(Main)
    PROVE  (\A u \in Tasks : Ran(u)') /\ InnerAlone'
<1>  PICK t : t = Inner(Main).of
  OBVIOUS
<1>1. /\ AbortInv /\ Typed /\ TaskTypeOK /\ Main \in Drivers /\ calls[Main] # <<>>
      /\ t \in Tasks /\ Inner(Main).pc = "core" /\ IsIn(Main, "core")
      /\ \A u \in Tasks : Ran(u)
  BY InnerFacts, TasksAssumption DEF LeaveCore, ResultInv, PCs
<1>2. interrupt' = interrupt /\ result' = result /\ finished' = finished
  BY DEF LeaveCore
<1>3. CASE ProcessSignal(Main, t, {"loop", "back"})
  BY <1>1, <1>2, <1>3, SignalRan
<1>4. CASE /\ \E pc \in {"loop", "back"} : calls' = GoTo(Main, pc)
           /\ context' = context /\ outcome' = outcome
  <2>1. PICK pc \in {"loop", "back"} : calls' = GoTo(Main, pc)
    BY <1>4
  <2>2. pc \in PCs \ {"check"} /\ GoneTo(Main, pc)
    BY <1>1, <2>1, GoToStack DEF PCs
  <2>3. ASSUME outcome[t] # "aborted", Inner(Main).by = "proceed"
        PROVE  ~finished[t] /\ OfFunction(t, context[t])'
    <3>1. ~finished[t] /\ OfFunction(t, context[t])
      BY <1>1, <2>3, BaseState
    <3>2. QED
      BY <1>4, <3>1 DEF OfFunction, IsRunning
  <2>4. outcome[t] # "aborted" => /\ Inner(Main).by # "finish"
                                  /\ Inner(Main).by = "finalizer" => context[t].code \in {"finalizer", "none"}
    BY <1>1, InnerRan
  <2>5. Moved(t, pc) /\ OthersRest(t)
    BY <1>2, <1>4, <2>1, <2>3, <2>4 DEF Moved, OthersRest
  <2>6. ASSUME NEW u \in Tasks PROVE Ran(u)'
    BY <1>1, <2>2, <2>5, MoveRan
  <2>7. InnerAlone'
    BY <1>1, <2>1, <2>2, MoveAlone
  <2>8. QED
    BY <2>6, <2>7
<1>5. QED
  BY <1>3, <1>4 DEF LeaveCore

(* The head of the loop *)
LEMMA LoopRan ==
    ASSUME ResultInv, AbortInv', Loop(Main)
    PROVE  (\A u \in Tasks : Ran(u)') /\ InnerAlone'
<1>  PICK t : t = Inner(Main).of
  OBVIOUS
<1>1. /\ AbortInv /\ Typed /\ TaskTypeOK /\ Main \in Drivers /\ calls[Main] # <<>>
      /\ t \in Tasks /\ Inner(Main).pc = "loop" /\ \A u \in Tasks : Ran(u)
  BY InnerFacts, TasksAssumption DEF Loop, ResultInv, PCs
<1>2. result' = result /\ finished' = finished /\ outcome' = outcome
  BY DEF Loop
<1>3. context[t] \in States /\ context \in [Tasks -> States] /\ interrupt \in [Tasks -> BOOLEAN]
  BY <1>1 DEF Typed, TaskTypeOK
<1>4. PICK pc \in {"core", "back"} : calls' = GoTo(Main, pc) /\ (pc = "core" => context[t].code # "none")
  BY DEF Loop
<1>5. pc \in PCs \ {"check"} /\ GoneTo(Main, pc)
  BY <1>1, <1>4, GoToStack DEF PCs
<1>6. /\ \A u \in Tasks \ {t} : context'[u] = context[u] /\ interrupt'[u] = interrupt[u]
      /\ context'[t].code = context[t].code /\ context'[t].value = context[t].value
      /\ context'[t].exception = context[t].exception
      /\ IsRunning(context'[t]) => IsRunning(context[t])
  BY <1>3 DEF Loop, States, IsRunning
<1>7. ASSUME outcome[t] # "aborted", Inner(Main).by = "proceed"
      PROVE  ~finished[t] /\ OfFunction(t, context[t])'
  <2>1. ~finished[t] /\ OfFunction(t, context[t])
    BY <1>1, <1>7, BaseState
  <2>2. QED
    BY <1>2, <1>6, <2>1 DEF OfFunction
<1>8. outcome[t] # "aborted" => /\ Inner(Main).by # "finish"
                                /\ Inner(Main).by = "finalizer" => context[t].code \in {"finalizer", "none"}
  BY <1>1, InnerRan
<1>9. Moved(t, pc) /\ OthersRest(t)
  BY <1>2, <1>4, <1>6, <1>7, <1>8 DEF Moved, OthersRest
<1>10. ASSUME NEW u \in Tasks PROVE Ran(u)'
  BY <1>1, <1>5, <1>9, MoveRan
<1>11. InnerAlone'
  BY <1>1, <1>4, <1>5, MoveAlone
<1>12. QED
  BY <1>10, <1>11

(* AsyncRun returns: the result is that of the function. *)
LEMMA BackRan ==
    ASSUME ResultInv, AbortInv', Back(Main)
    PROVE  (\A u \in Tasks : Ran(u)') /\ InnerAlone'
<1>  PICK t : t = Inner(Main).of
  OBVIOUS
<1>1. /\ AbortInv /\ Typed /\ TaskTypeOK /\ Main \in Drivers /\ calls[Main] # <<>>
      /\ t \in Tasks /\ Inner(Main).pc = "back" /\ \A u \in Tasks : Ran(u)
  BY InnerFacts, TasksAssumption DEF Back, ResultInv, PCs
<1>2. finished' = finished /\ outcome' = outcome
  BY DEF Back
<1>3. outcome[t] # "aborted" => /\ Inner(Main).by # "finish"
                                /\ Inner(Main).by = "finalizer" => context[t].code \in {"finalizer", "none"}
  BY <1>1, InnerRan
<1>4. ASSUME outcome[t] # "aborted", Inner(Main).by = "proceed"
      PROVE  ~finished[t] /\ OfFunction(t, context[t])
  BY <1>1, <1>4, BaseState
<1>5. CASE ~IsRunning(context[t])
  <2>1. /\ calls' = GoTo(Main, "end") /\ context' = context /\ interrupt' = interrupt
        /\ result' = IF Inner(Main).by = "finalizer" THEN result
                     ELSE [result EXCEPT ![t] = [value |-> context[t].value,
                                                 exception |-> context[t].exception]]
    BY <1>5 DEF Back
  <2>2. GoneTo(Main, "end") /\ "end" \in PCs \ {"check"}
    BY <1>1, <2>1, GoToStack DEF PCs
  <2>3. /\ \A u \in Tasks \ {t} : result'[u] = result[u]
        /\ Inner(Main).by # "finalizer" =>
               result'[t].value = context[t].value /\ result'[t].exception = context[t].exception
    BY <1>1, <2>1 DEF Typed
  <2>4. ASSUME outcome[t] # "aborted", Inner(Main).by = "proceed"
        PROVE  Told(t)'
    BY <1>2, <1>4, <2>3, <2>4 DEF OfFunction, Told
  <2>5. Moved(t, "end") /\ OthersRest(t)
    BY <1>2, <1>3, <1>4, <2>1, <2>3, <2>4 DEF Moved, OthersRest
  <2>6. ASSUME NEW u \in Tasks PROVE Ran(u)'
    BY <1>1, <2>2, <2>5, MoveRan
  <2>7. InnerAlone'
    BY <1>1, <2>2, MoveAlone
  <2>8. QED
    BY <2>6, <2>7
<1>6. CASE IsRunning(context[t]) /\ Inner(Main).by = "finalizer"
  <2>1. /\ calls' = GoTo(Main, "lock") /\ context' = context /\ interrupt' = interrupt
        /\ result' = result
    BY <1>6 DEF Back
  <2>2. GoneTo(Main, "lock") /\ "lock" \in PCs \ {"check"}
    BY <1>1, <2>1, GoToStack DEF PCs
  <2>3. Moved(t, "lock") /\ OthersRest(t)
    BY <1>2, <1>3, <1>6, <2>1 DEF Moved, OthersRest
  <2>4. ASSUME NEW u \in Tasks PROVE Ran(u)'
    BY <1>1, <2>2, <2>3, MoveRan
  <2>5. InnerAlone'
    BY <1>1, <1>6, <2>2, MoveAlone
  <2>6. QED
    BY <2>4, <2>5
<1>7. CASE IsRunning(context[t]) /\ Inner(Main).by # "finalizer"
  <2>1. /\ calls' = [calls EXCEPT ![Main] = Front(calls[Main])] /\ result' = result
        /\ context' = WithValue(Front(calls[Main]), Inner(Main).by = "proceed", context)
        /\ interrupt' = Interrupts(Front(calls[Main]), context)
    BY <1>7 DEF Back
  <2>2. ASSUME NEW u \in Tasks PROVE Ran(u)'
    <3>1. CASE outcome[u] = "aborted"
      BY <1>2, <3>1 DEF Ran
    <3>2. CASE outcome[u] # "aborted"
      <4>1. outcome'[u] = outcome[u] /\ result'[u] = result[u] /\ finished'[u] = finished[u]
        BY <1>2, <2>1
      <4>2. Inner(Main).of = u /\ Inner(Main).by = "proceed" => ~finished[u]
        BY <1>4, <3>2
      <4>3. IF Inner(Main).of = u /\ Inner(Main).by = "proceed"
            THEN IF finished'[u] THEN Told(u)'
                 ELSE ~finished[u] /\ Inner(Main).pc \notin {"end", "flag"}
            ELSE finished'[u] = finished[u]
        BY <1>1, <4>1, <4>2
      <4>4. QED
        BY <1>1, <1>7, <2>1, <4>1, <4>3, ReturnRan
    <3>3. QED
      BY <3>1, <3>2
  <2>3. InnerAlone'
    BY <1>1, <2>1, PopStack, PopAlone
  <2>4. QED
    BY <2>2, <2>3
<1>8. QED
  BY <1>5, <1>6, <1>7

(* The context that was saved is restored. *)
LEMMA EndRan ==
    ASSUME ResultInv, AbortInv', FinishFunctionResult(Main)
    PROVE  (\A u \in Tasks : Ran(u)') /\ InnerAlone'
<1>  PICK t : t = Inner(Main).of
  OBVIOUS
<1>1. /\ AbortInv /\ Typed /\ TaskTypeOK /\ Main \in Drivers /\ calls[Main] # <<>>
      /\ t \in Tasks /\ Inner(Main).pc = "end" /\ \A u \in Tasks : Ran(u)
  BY InnerFacts, TasksAssumption DEF FinishFunctionResult, ResultInv, PCs
<1>2. CASE Inner(Main).by = "finalizer"
  <2>1. calls' = [calls EXCEPT ![Main] = Front(calls[Main])]
    BY <1>2 DEF FinishFunctionResult
  <2>2. InnerAlone'
    BY <1>1, <2>1, PopStack, PopAlone
  <2>3. ASSUME NEW u \in Tasks PROVE Ran(u)'
    BY <1>1, <1>2, FinalizedRan
  <2>4. QED
    BY <2>2, <2>3
<1>3. CASE Inner(Main).by # "finalizer"
  <2>1. /\ calls' = GoTo(Main, "flag") /\ RestoreContextState(t, before[t])
        /\ interrupt' = interrupt /\ outcome' = outcome /\ result' = result /\ finished' = finished
    BY <1>3 DEF FinishFunctionResult
  <2>2. GoneTo(Main, "flag") /\ "flag" \in PCs \ {"check"}
    BY <1>1, <2>1, GoToStack DEF PCs
  <2>3. before[t] \in States
    BY <1>1 DEF Typed, TaskTypeOK
  <2>4. \A u \in Tasks \ {t} : context'[u] = context[u]
    BY <1>1, <2>1, <2>3, RestoreFacts
  <2>5. ASSUME outcome[t] # "aborted", Inner(Main).by = "proceed"
        PROVE  ~finished[t] /\ Told(t)'
    <3>1. BaseOK(Len(calls[Main]), t) /\ Inner(Main) = calls[Main][Len(calls[Main])]
      BY <1>1, <2>5, InnerRan, StackFacts
    <3>2. QED
      BY <1>1, <2>1, <3>1 DEF BaseOK, Told
  <2>6. outcome[t] # "aborted" => Inner(Main).by # "finish"
    BY <1>1, InnerRan
  <2>7. Moved(t, "flag") /\ OthersRest(t)
    BY <1>3, <2>1, <2>4, <2>5, <2>6 DEF Moved, OthersRest
  <2>8. ASSUME NEW u \in Tasks PROVE Ran(u)'
    BY <1>1, <2>2, <2>7, MoveRan
  <2>9. InnerAlone'
    BY <1>1, <2>2, MoveAlone
  <2>10. QED
    BY <2>8, <2>9
<1>4. QED
  BY <1>2, <1>3

(* OnFinished *)
LEMMA FlagRan ==
    ASSUME ResultInv, AbortInv', Flag(Main)
    PROVE  (\A u \in Tasks : Ran(u)') /\ InnerAlone'
<1>  PICK t : t = Inner(Main).of
  OBVIOUS
<1>1. /\ AbortInv /\ Typed /\ TaskTypeOK /\ Main \in Drivers /\ calls[Main] # <<>>
      /\ t \in Tasks /\ Inner(Main).pc = "flag" /\ Inner(Main).by # "finalizer"
      /\ \A u \in Tasks : Ran(u)
  BY InnerFacts, TasksAssumption DEF Flag, ResultInv, PCs, Holding
<1>2. /\ calls' = [calls EXCEPT ![Main] = Front(calls[Main])]
      /\ context' = WithValue(Front(calls[Main]), Inner(Main).by = "proceed", context)
      /\ interrupt' = Interrupts(Front(calls[Main]), context)
      /\ outcome' = outcome /\ result' = result
  BY DEF Flag
<1>3. finished'[t] /\ \A u \in Tasks \ {t} : finished'[u] = finished[u]
  BY <1>1 DEF Flag, Typed
<1>4. ASSUME NEW u \in Tasks PROVE Ran(u)'
  <2>1. CASE outcome[u] = "aborted"
    BY <1>2, <2>1 DEF Ran
  <2>2. CASE outcome[u] # "aborted"
    <3>1. outcome'[u] = outcome[u] /\ result'[u] = result[u]
      BY <1>2
    <3>2. Inner(Main).of = u => Inner(Main).by = "proceed" /\ Told(u)'
      <4>1. SUFFICES ASSUME Inner(Main).of = u PROVE Inner(Main).by = "proceed" /\ Told(u)'
        OBVIOUS
      <4>2. Inner(Main).by = "proceed"
        <5>1. Inner(Main).by # "finish" /\ Inner(Main).by \in {"proceed", "finish", "finalizer"}
          BY <1>1, <2>2, <4>1, InnerRan, StackFacts, FrameFacts
        <5>2. QED
          BY <1>1, <5>1
      <4>3. BaseOK(Len(calls[Main]), u) /\ Inner(Main) = calls[Main][Len(calls[Main])]
        BY <1>1, <2>2, <4>1, <4>2, InnerRan, StackFacts
      <4>4. QED
        BY <1>1, <1>2, <4>2, <4>3 DEF BaseOK, Told
    <3>3. IF Inner(Main).of = u /\ Inner(Main).by = "proceed"
          THEN IF finished'[u] THEN Told(u)'
               ELSE ~finished[u] /\ Inner(Main).pc \notin {"end", "flag"}
          ELSE finished'[u] = finished[u]
      BY <1>3, <3>2
    <3>4. QED
      BY <1>1, <1>2, <3>1, <3>3, ReturnRan
  <2>3. QED
    BY <2>1, <2>2
<1>5. InnerAlone'
  BY <1>1, <1>2, PopStack, PopAlone
<1>6. QED
  BY <1>4, <1>5

(* The instruction that has released objects ends. *)
LEMMA InstructionRan ==
    ASSUME ResultInv, AbortInv', EndInstruction(Main)
    PROVE  (\A u \in Tasks : Ran(u)') /\ InnerAlone'
<1>  PICK t : t = Inner(Main).of
  OBVIOUS
<1>1. /\ AbortInv /\ Typed /\ TaskTypeOK /\ Main \in Drivers /\ calls[Main] # <<>>
      /\ t \in Tasks /\ Inner(Main).pc = "free" /\ \A u \in Tasks : Ran(u)
  BY InnerFacts, TasksAssumption DEF EndInstruction, ResultInv, PCs
<1>2. /\ calls' = GoTo(Main, "core") /\ context' = context /\ interrupt' = interrupt
      /\ result' = result /\ finished' = finished /\ outcome' = outcome
  BY DEF EndInstruction
<1>3. GoneTo(Main, "core") /\ "core" \in PCs \ {"check"}
  BY <1>1, <1>2, GoToStack DEF PCs
<1>4. ASSUME outcome[t] # "aborted", Inner(Main).by = "proceed"
      PROVE  ~finished[t] /\ OfFunction(t, context[t])' /\ context[t].code # "none"
  <2>1. ~finished[t] /\ OfFunction(t, context[t]) /\ context[t].code # "none"
    BY <1>1, <1>4, BaseState
  <2>2. QED
    BY <1>2, <2>1 DEF OfFunction, IsRunning
<1>5. outcome[t] # "aborted" => /\ Inner(Main).by # "finish"
                                /\ Inner(Main).by = "finalizer" => context[t].code \in {"finalizer", "none"}
  BY <1>1, InnerRan
<1>6. Moved(t, "core") /\ OthersRest(t)
  BY <1>2, <1>4, <1>5 DEF Moved, OthersRest
<1>7. ASSUME NEW u \in Tasks PROVE Ran(u)'
  BY <1>1, <1>3, <1>6, MoveRan
<1>8. InnerAlone'
  BY <1>1, <1>3, MoveAlone
<1>9. QED
  BY <1>7, <1>8

(* The script of a task does something to its own context. *)
LEMMA OwnRan ==
    ASSUME ResultInv, AbortInv', Script(Main), calls[Main] # <<>>,
           NEW t \in Tasks, t = Inner(Main).of, calls' = calls, result' = result, OthersRest(t),
           outcome[t] # "aborted" /\ Inner(Main).by = "proceed" =>
               OfFunction(t, context[t])' /\ (interrupt'[t] \/ context'[t].code # "none"),
           outcome[t] # "aborted" /\ Inner(Main).by = "finalizer" =>
               outcome'[t] = outcome[t] /\ context'[t].code \in {"finalizer", "none"}
    PROVE  (\A u \in Tasks : Ran(u)') /\ InnerAlone'
<1>1. /\ AbortInv /\ TaskTypeOK /\ Main \in Drivers /\ Inner(Main).pc = "core"
      /\ "core" \in PCs \ {"check"} /\ \A u \in Tasks : Ran(u)
  BY ScriptFacts, TasksAssumption DEF ResultInv, AbortInv, Typed, PCs
<1>2. GoneTo(Main, "core")
  BY <1>1, SameGone
<1>3. outcome[t] # "aborted" /\ Inner(Main).by = "proceed" => ~finished[t]
  BY <1>1, BaseState
<1>4. outcome[t] # "aborted" => Inner(Main).by # "finish"
  BY <1>1, InnerRan
<1>5. Moved(t, "core")
  BY <1>3, <1>4 DEF Moved
<1>6. ASSUME NEW u \in Tasks PROVE Ran(u)'
  BY <1>1, <1>2, <1>5, MoveRan
<1>7. InnerAlone'
  BY <1>1, <1>2, MoveAlone
<1>8. QED
  BY <1>6, <1>7

(* The script of a context goes on, returns or throws. *)
LEMMA ScriptRan ==
    ASSUME ResultInv, AbortInv',
           \/ Pause(Main) \/ Await(Main) \/ Rest(Main) \/ SetRetValue(Main)
           \/ ReturnFromRun(Main) \/ ThrowFromRun(Main)
    PROVE  (\A u \in Tasks : Ran(u)') /\ InnerAlone'
<1>  PICK t : t = Inner(Main).of
  OBVIOUS
<1>1. /\ Script(Main) /\ calls[Main] # <<>> /\ calls' = calls /\ result' = result
      /\ finished' = finished
  BY DEF Pause, Await, Rest, SetRetValue, ReturnFromRun, ThrowFromRun, Executes
<1>2. /\ AbortInv /\ Typed /\ Main \in Drivers /\ t \in Tasks /\ Inner(Main).pc = "core"
      /\ ~interrupt[t] /\ context[t] \in States /\ context[t].status = "running" /\ Begun(t)
      /\ \A u \in Tasks : Ran(u)
  BY <1>1, ScriptFacts, TasksAssumption DEF ResultInv, AbortInv
<1>3. /\ context \in [Tasks -> States] /\ interrupt \in [Tasks -> BOOLEAN]
      /\ outcome \in [Tasks -> Outcomes]
  BY <1>2 DEF Typed, TaskTypeOK
<1>4. ASSUME outcome[t] # "aborted", Inner(Main).by = "proceed"
      PROVE  /\ OfFunction(t, context[t]) /\ context[t].code \in {"function", "leaving"}
             /\ outcome[t] = "pending"
  <2>1. OfFunction(t, context[t]) /\ context[t].code # "none"
    BY <1>1, <1>2, <1>4, BaseState
  <2>2. context[t].code \in {"function", "leaving"}
    BY <1>2, <2>1, StateFacts DEF OfFunction
  <2>3. outcome[t] \in Outcomes /\ outcome[t] # "none"
    BY <1>2, <1>3 DEF Begun
  <2>4. outcome[t] \notin {"returned", "thrown"}
    BY <1>2, <2>1, <2>2 DEF OfFunction, IsRunning
  <2>5. QED
    BY <1>4, <2>1, <2>2, <2>3, <2>4 DEF Outcomes
<1>5. outcome[t] # "aborted" /\ Inner(Main).by = "finalizer" => context[t].code \in {"finalizer", "none"}
  BY <1>1, <1>2, InnerRan
<1>6. CASE Pause(Main) \/ Rest(Main)
  <2>1. /\ context' = context /\ outcome' = outcome
        /\ \A u \in Tasks : interrupt[u] => interrupt'[u]
    BY <1>3, <1>6 DEF Pause, Rest, Interrupt, Signalled
  <2>2. ASSUME NEW u \in Tasks PROVE Ran(u)'
    BY <1>1, <1>2, <2>1, StayRan
  <2>3. InnerAlone'
    BY <1>1, <1>2 DEF InnerAlone, Inner
  <2>4. QED
    BY <2>2, <2>3
<1>7. CASE Await(Main)
  <2>1. /\ outcome' = outcome /\ interrupt'[t] /\ context'[t].code = context[t].code
        /\ \A u \in Tasks \ {t} : context'[u] = context[u] /\ interrupt'[u] = interrupt[u]
    BY <1>2, <1>3, <1>7 DEF Await, Interrupt, States
  <2>2. OthersRest(t)
    BY <1>1, <2>1 DEF OthersRest
  <2>3. context'[t].value = context[t].value
    BY <1>2, <1>3, <1>7 DEF Await, States
  <2>4. outcome[t] # "aborted" /\ Inner(Main).by = "proceed" => OfFunction(t, context[t])'
    BY <1>4, <2>1, <2>3 DEF OfFunction
  <2>5. QED
    BY <1>1, <1>2, <1>5, <2>1, <2>2, <2>4, OwnRan
<1>8. CASE SetRetValue(Main)
  <2>1. /\ outcome' = outcome /\ interrupt' = interrupt /\ context[t].code = "function"
        /\ context'[t].code = "leaving" /\ context'[t].value = "returned"
        /\ \A u \in Tasks \ {t} : context'[u] = context[u]
    BY <1>2, <1>3, <1>8 DEF SetRetValue, States
  <2>2. OthersRest(t)
    BY <1>1, <2>1 DEF OthersRest
  <2>3. outcome[t] # "aborted" /\ Inner(Main).by = "proceed" => OfFunction(t, context[t])'
    BY <1>4, <2>1 DEF OfFunction
  <2>4. QED
    BY <1>1, <1>2, <1>5, <2>1, <2>2, <2>3, OwnRan
<1>9. CASE ReturnFromRun(Main)
  <2>1. /\ interrupt'[t] /\ context'[t].code = "none" /\ context'[t].value = context[t].value
        /\ context[t].code \in {"leaving", "finalizer"} /\ Ends(t, "returned")
        /\ \A u \in Tasks \ {t} : context'[u] = context[u] /\ interrupt'[u] = interrupt[u]
    BY <1>2, <1>3, <1>9 DEF ReturnFromRun, Interrupt, States
  <2>2. OthersRest(t) /\ (outcome[t] = "pending" /\ context[t].code = "leaving" => outcome'[t] = "returned")
        /\ (context[t].code \notin {"function", "leaving"} => outcome' = outcome)
    <3>1. \/ outcome' = outcome
          \/ outcome' = [outcome EXCEPT ![t] = "returned"] /\ outcome[t] = "pending"
      BY <2>1 DEF Ends
    <3>2. outcome[t] = "pending" /\ context[t].code = "leaving" => outcome' = [outcome EXCEPT ![t] = "returned"]
      BY <2>1 DEF Ends
    <3>3. context[t].code \notin {"function", "leaving"} => outcome' = outcome
      BY <2>1 DEF Ends
    <3>4. OthersRest(t)
      BY <1>1, <1>2, <1>3, <2>1, <3>1 DEF OthersRest
    <3>5. outcome[t] = "pending" /\ context[t].code = "leaving" => outcome'[t] = "returned"
      BY <1>2, <1>3, <3>2
    <3>6. QED
      BY <3>3, <3>4, <3>5
  <2>3. ASSUME outcome[t] # "aborted", Inner(Main).by = "proceed"
        PROVE  OfFunction(t, context[t])'
    <3>1. context[t].code = "leaving" /\ outcome'[t] = "returned" /\ context[t].value = "returned"
      BY <1>4, <2>1, <2>2, <2>3 DEF OfFunction
    <3>2. QED
      BY <2>1, <3>1 DEF OfFunction
  <2>4. outcome[t] # "aborted" /\ Inner(Main).by = "finalizer" => outcome'[t] = outcome[t]
    BY <1>5, <2>2
  <2>5. QED
    BY <1>1, <1>2, <2>1, <2>2, <2>3, <2>4, OwnRan
<1>10. CASE ThrowFromRun(Main)
  <2>1. /\ interrupt'[t] /\ context'[t].code = context[t].code /\ context'[t].exception
        /\ context'[t].status = "halt" /\ context[t].code # "leaving" /\ Ends(t, "thrown")
        /\ \A u \in Tasks \ {t} : context'[u] = context[u] /\ interrupt'[u] = interrupt[u]
    BY <1>2, <1>3, <1>10 DEF ThrowFromRun, Interrupt, States, Executes
  <2>2. OthersRest(t) /\ (outcome[t] = "pending" /\ context[t].code = "function" => outcome'[t] = "thrown")
        /\ (context[t].code \notin {"function", "leaving"} => outcome' = outcome)
    <3>1. \/ outcome' = outcome
          \/ outcome' = [outcome EXCEPT ![t] = "thrown"] /\ outcome[t] = "pending"
      BY <2>1 DEF Ends
    <3>2. outcome[t] = "pending" /\ context[t].code = "function" => outcome' = [outcome EXCEPT ![t] = "thrown"]
      BY <2>1 DEF Ends
    <3>3. context[t].code \notin {"function", "leaving"} => outcome' = outcome
      BY <2>1 DEF Ends
    <3>4. OthersRest(t)
      BY <1>1, <1>2, <1>3, <2>1, <3>1 DEF OthersRest
    <3>5. outcome[t] = "pending" /\ context[t].code = "function" => outcome'[t] = "thrown"
      BY <1>2, <1>3, <3>2
    <3>6. QED
      BY <3>3, <3>4, <3>5
  <2>3. ASSUME outcome[t] # "aborted", Inner(Main).by = "proceed"
        PROVE  OfFunction(t, context[t])'
    <3>1. context[t].code = "function" /\ outcome'[t] = "thrown"
      BY <1>4, <2>1, <2>2, <2>3
    <3>2. QED
      BY <2>1, <3>1 DEF OfFunction, IsRunning
  <2>4. outcome[t] # "aborted" /\ Inner(Main).by = "finalizer" =>
            outcome'[t] = outcome[t] /\ context'[t].code \in {"finalizer", "none"}
    BY <1>5, <2>1, <2>2
  <2>5. QED
    BY <1>1, <1>2, <2>1, <2>2, <2>3, <2>4, OwnRan
<1>11. QED
  BY <1>6, <1>7, <1>8, <1>9, <1>10

(* The finalizer that is called is the innermost call. *)
LEMMA FinalizerAlone ==
    ASSUME AbortInv, InvokeFinalizer(Main)
    PROVE  InnerAlone'
<1>  PICK t \in Tasks : t = Inner(Main).of
  BY StackFacts, TasksAssumption DEF AbortInv, Typed, InvokeFinalizer, IsIn
<1>  DEFINE f == [of |-> t, by |-> "finalizer", pc |-> "lock", save |-> context[t]]
<1>1. TaskTypeOK /\ Main \in Drivers /\ calls[Main] # <<>> /\ context[t] \in States
  BY TasksAssumption DEF AbortInv, Typed, TaskTypeOK, InvokeFinalizer, IsIn
<1>2. f \in CallFrames /\ f.by = "finalizer"
  BY <1>1 DEF CallFrames
<1>3. calls' = [calls EXCEPT ![Main] = Append(Releasing(Main), f)]
  BY DEF InvokeFinalizer
<1>  HIDE DEF f
<1>4. Inner(Main)' = f
  BY <1>1, <1>2, <1>3, FinalizerStack DEF Pushed
<1>5. QED
  BY <1>2, <1>4 DEF InnerAlone

(* A step of d. *)
LEMMA RanStep ==
    ASSUME ResultInv, Shared = {}, Renewed = {}, NEW d \in Drivers, TaskStep(d)
    PROVE  ResultInv'
<1>1. AbortInv' /\ Effects(d)
  BY StepKeeps DEF ResultInv
<1>2. ASSUME d # Main
      PROVE  calls' = calls /\ \E t \in Tasks : ThrowInto(d, t)
  <2>1. calls[d] = <<>>
    BY <1>2 DEF ResultInv, MainAlone
  <2>2. ~AsyncRun(d)
    BY <2>1 DEF AsyncRun, Check, Enter, Loop, LeaveCore, Back, FinishFunctionResult, Flag, IsIn
  <2>3. ~RunScript(d)
    BY <2>1 DEF RunScript, Pause, Await, Rest, SetRetValue, ReturnFromRun, ThrowFromRun,
                InvokeFinalizer, EndInstruction, IsIn
  <2>4. \A t \in Tasks : ~BeginTask(d, t) /\ ~ProceedTask(d, t) /\ ~FinishTask(d, t)
    BY <1>2 DEF BeginTask, ProceedTask, FinishTask
  <2>5. QED
    BY <2>2, <2>3, <2>4 DEF TaskStep, TaskMethod, ThrowInto
<1>3. (\A u \in Tasks : Ran(u)') /\ InnerAlone'
  <2>1. CASE \E t \in Tasks : ThrowInto(d, t)
    BY <1>1, <2>1, ThrowRan
  <2>2. CASE d = Main /\ ~\E t \in Tasks : ThrowInto(d, t)
    <3>1. CASE AsyncRun(Main)
      BY <1>1, <3>1, CheckRan, EnterRan, LoopRan, LeaveCoreRan, BackRan, EndRan, FlagRan DEF AsyncRun
    <3>2. CASE InvokeFinalizer(Main)
      BY <1>1, <3>2, FinalizerRan, FinalizerAlone DEF ResultInv
    <3>3. CASE RunScript(Main) /\ ~InvokeFinalizer(Main)
      BY <1>1, <3>3, ScriptRan, InstructionRan DEF RunScript
    <3>4. CASE TaskMethod(Main)
      BY <1>1, <2>2, <3>4, BeginRan, CallsRan DEF TaskMethod
    <3>5. QED
      BY <2>2, <3>1, <3>2, <3>3, <3>4 DEF TaskStep
  <2>3. QED
    BY <1>2, <2>1, <2>2
<1>4. MainAlone'
  <2>1. \A e \in Drivers \ {Main} : calls'[e] = calls[e]
    <3>1. CASE d = Main
      BY <1>1, <3>1 DEF Effects
    <3>2. QED
      BY <1>2, <3>1
  <2>2. QED
    BY <1>1, <1>3, <2>1, AloneKept DEF ResultInv
<1>5. QED
  BY <1>1, <1>3, <1>4 DEF ResultInv

(* The value and the exception of a finished task are those its function ended with,   *)
(* whatever finalizers, signals and runs of other tasks came between, of tasks that are *)
(* begun once and driven by one thread.                                               *)
THEOREM ResultStays ==
    ASSUME Shared = {}, Renewed = {}
    PROVE  TaskSpec => []ResultOfFunction
<1>1. TaskInit => ResultInv
  <2>  SUFFICES ASSUME TaskInit PROVE ResultInv
    OBVIOUS
  <2>1. /\ \A d \in Drivers : calls[d] = <<>> /\ DOMAIN calls[d] = {}
        /\ \A t \in Tasks : outcome[t] = "none" /\ finished[t] = FALSE /\ context[t].code = "none"
    BY DEF TaskInit, NewContext
  <2>2. Main \in Drivers
    BY TasksAssumption
  <2>3. MainAlone /\ \A t \in Tasks : Ran(t)
    BY <2>1, <2>2 DEF MainAlone, Ran, OfFunction
  <2>4. QED
    BY <2>3, AbortStart DEF ResultInv
<1>2. ResultInv /\ [TaskNext]_taskVars => ResultInv'
  <2>  SUFFICES ASSUME ResultInv, [TaskNext]_taskVars PROVE ResultInv'
    OBVIOUS
  <2>1. CASE TaskNext
    <3>1. PICK d \in Drivers : TaskStep(d)
      BY <2>1 DEF TaskNext, TaskStep
    <3>2. QED
      BY <3>1, RanStep
  <2>2. CASE UNCHANGED taskVars
    <3>1. /\ context' = context /\ signal' = signal /\ interrupt' = interrupt
          /\ result' = result /\ finished' = finished /\ calls' = calls /\ outcome' = outcome
      BY <2>2 DEF taskVars
    <3>2. AbortInv' /\ \A u \in Tasks : Ran(u)
      BY <2>2, AbortStep DEF ResultInv
    <3>3. ASSUME NEW u \in Tasks PROVE Ran(u)'
      BY <3>1, <3>2, StayRan DEF ResultInv
    <3>4. MainAlone'
      BY <3>1 DEF ResultInv, MainAlone
    <3>5. QED
      BY <3>2, <3>3, <3>4 DEF ResultInv
  <2>3. QED
    BY <2>1, <2>2
<1>3. ResultInv => ResultOfFunction
  BY DEF ResultInv, Ran, Told, ResultOfFunction
<1>4. QED
  BY <1>1, <1>2, <1>3, PTL DEF TaskSpec
=============================================================================
