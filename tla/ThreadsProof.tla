---------------------------- MODULE ThreadsProof ----------------------------
(***************************************************************************)
(* Proofs about Threads, for any number of threads and any script.  What is   *)
(* proved of the list and the counts ends where finish() meets a begin()        *)
(* (early): from there on, nothing but the types is known.                     *)
(***************************************************************************)
EXTENDS Threads, FiniteSetTheorems, WellFoundedInduction, TLAPS

Begins == {"begin1", "begin2", "begin3"}
Holds == {"force", "check", "block", "asleep", "release"}

(* The flags of a thread and its OS thread agree. *)
Life(t) ==
    /\ os[t] # "none" => ~async[t]
    /\ async[t] => finished[t] \/ Beginning(t)
    /\ os[t] \in {"check", "run", "over", "flag"} => ~finished[t]
    /\ os[t] = "ended" => finished[t]
    /\ t \in running <=> os[t] \in {"check", "run"} \/ Beginning(t)

(* Who is inside a native function, and on which object. *)
Actor(a) ==
    /\ call[a].op \in Begins => /\ os[call[a].of] = "none" /\ ~finished[call[a].of]
                                /\ async[call[a].of] <=> call[a].op = "begin1"
    /\ call[a].op \notin {"finish2", "finish3"}
    /\ a \in Threads /\ call[a].op # "none" =>
           os[a] = "run" \/ (os[a] = "check" /\ call[a].op = "wait")
    /\ call[a].op \notin {"none", "join"} =>
           call[a].of \in known \/ (a = Main /\ killer = "check" /\ victim = call[a].of)
    /\ call[a].op = "join" =>
           /\ call[a].of \notin known \cup freed /\ os[call[a].of] \in {"flag", "ended"}
           /\ ~(victim = call[a].of /\ killer \in Holds \cup {"join"})

(* One actor begins a thread, and one deletes it. *)
Single == \A a, b \in Actors :
    call[a].of = call[b].of /\ (\/ call[a].op \in Begins /\ call[b].op \in Begins
                                \/ call[a].op = "join" /\ call[b].op = "join") => a = b

(* The host inside TerminateAllThreads. *)
HostInv ==
    /\ killer # "script" =>
           \/ call[Main].op = "none"
           \/ killer = "check" /\ call[Main].op = "finish" /\ call[Main].of = victim
    /\ killer \in Holds \cup {"join"} =>
           victim \in Threads /\ (os[victim] # "none" \/ Spawning(victim))
    /\ killer = "release" => finished[victim]
    /\ killer = "join" => victim \notin known \cup freed /\ os[victim] = "ended"

(* Nothing refers to an object that has been deleted. *)
Gone(t) == t \in freed =>
    /\ t \notin known /\ ~Held(t) /\ os[t] \in {"none", "ended"}
    /\ \A a \in Actors : call[a].of # t

One(b) == IF b THEN 1 ELSE 0
Counted(t) == refs[t] = One(t \in known) + One(Attached(t)) + One(Held(t))

(* The links run both ways, ... *)
Links ==
    /\ first # NoThread => prev[first] = NoThread
    /\ \A t \in Threads :
        /\ Attached(t) <=> first = t \/ prev[t] # NoThread
        /\ prev[t] # NoThread => next[prev[t]] = t
        /\ next[t] # NoThread => prev[next[t]] = t
        /\ ~Attached(t) => next[t] = NoThread

(* ... and never in a circle. *)
Acyclic == \E rank \in [Threads -> Nat] :
    \A t \in Threads : prev[t] # NoThread => rank[prev[t]] < rank[t]

(* TerminateAllThreads has returned: nothing runs. *)
Quiet == killer = "done" => running = {} /\ \A a \in Actors : call[a] = Idle

(* What holds as long as finish() has met no begin(), ... *)
IInv == /\ TypeOK
        /\ \A t \in Threads : Life(t) /\ Gone(t) /\ Counted(t)
        /\ \A a \in Actors : Actor(a)
        /\ Single /\ HostInv /\ Links /\ Acyclic /\ Quiet

(* ... with the thread that has joined itself, if one has: nothing refers to it. *)
Orphan == fault => \E t \in Threads \ known :
    os[t] = "flag" /\ ~Held(t) /\ \A a \in Actors : call[a].of # t

(* The host is inside the loop with a thread. *)
HasVictim == killer \in Holds \cup {"join"} => victim \in Threads

(* The inductive invariant *)
EarlyInv == TypeOK /\ HasVictim /\ (early \/ (IInv /\ Orphan))

-----------------------------------------------------------------------------
(* Facts about the state functions. *)

(* A call is a native function and the object it was called on. *)
LEMMA CallFields ==
    ASSUME TypeOK, NEW a \in Actors
    PROVE  /\ call[a] \in Calls
           /\ call[a].op \in Ops \cup {"none"} /\ call[a].of \in Threads \cup {NoThread}
           /\ call[a].op # "none" => call[a].of \in Threads
           /\ call[a].op = "none" <=> call[a] = Idle
           /\ \A t \in Threads : call[a].of = t => call[a].op # "none"
<1>1. call[a] \in Calls
  BY DEF TypeOK
<1>2. CASE call[a] = Idle
  BY <1>2, ThreadsAssumption DEF Idle, Ops, Calls
<1>3. CASE call[a] \in [op : Ops, of : Threads]
  BY <1>3, ThreadsAssumption DEF Idle, Ops, Calls
<1>4. QED
  BY <1>1, <1>2, <1>3 DEF Calls

(* m_countRef as RefsCounted states it. *)
LEMMA CountedIs ==
    ASSUME NEW p \in BOOLEAN, NEW q \in BOOLEAN, NEW r \in BOOLEAN,
           NEW S, S = {h \in {"script", "list", "host"} :
            \/ h = "script" /\ p
            \/ h = "list" /\ q
            \/ h = "host" /\ r}
    PROVE  Cardinality(S) = One(p) + One(q) + One(r)
<1>1. PICK A : A = IF p THEN {"script"} ELSE {}
  OBVIOUS
<1>2. PICK B : B = IF q THEN A \cup {"list"} ELSE A
  OBVIOUS
<1>3. S = IF r THEN B \cup {"host"} ELSE B
  BY <1>1, <1>2
<1>4. IsFiniteSet(A) /\ Cardinality(A) = One(p) /\ One(p) \in Nat /\ "list" \notin A
  BY <1>1, FS_EmptySet, FS_AddElement DEF One
<1>5. IsFiniteSet(B) /\ Cardinality(B) = One(p) + One(q) /\ "host" \notin B
  BY <1>1, <1>2, <1>4, FS_AddElement DEF One
<1>6. CASE r
  <2>1. S = B \cup {"host"}
    BY <1>3, <1>6
  <2>2. Cardinality(S) = Cardinality(B) + 1
    BY <1>5, <2>1, FS_AddElement
  <2>3. QED
    BY <1>5, <1>6, <2>2 DEF One
<1>7. CASE ~r
  <2>1. S = B
    BY <1>3, <1>7
  <2>2. QED
    BY <1>4, <1>5, <1>7, <2>1 DEF One
<1>8. QED
  BY <1>6, <1>7

-----------------------------------------------------------------------------
(* One lemma for each kind of step: it preserves IInv. *)

(* A step that attaches and detaches nothing keeps the list in order. *)
LEMMA LinksFrame ==
    ASSUME Links, Acyclic, UNCHANGED list, \A t \in Threads : (Attached(t)' <=> Attached(t))
    PROVE  Links' /\ Acyclic'
<1>1. Links'
  BY DEF Links, list
<1>2. Acyclic'
  BY DEF Acyclic, list
<1>3. QED
  BY <1>1, <1>2

(* An actor enters or leaves a native function that changes no list. *)
LEMMA QuietCall ==
    ASSUME IInv, NEW a \in Actors, NEW x \in Calls, call' = [call EXCEPT ![a] = x],
           signal' \in [Threads -> {"no", "throw", "abort"}],
           UNCHANGED <<list, refs, known, freed, async, finished, running, os, killer, victim, fault, early>>,
           x.op \in {"none", "finish", "throw", "wait"},
           call[a].op \in {"none", "finish", "throw", "wait"},
           x.op # "none" => /\ x.of \in known /\ killer # "done"
                            /\ a = Main => killer = "script"
                            /\ a \in Threads => os[a] = "run"
    PROVE  IInv'
<1>1. /\ call' \in [Actors -> Calls] /\ call'[a] = x
      /\ \A b \in Actors \ {a} : call'[b] = call[b]
  BY DEF IInv, TypeOK
<1>2. \A t \in Threads : (Beginning(t)' <=> Beginning(t)) /\ (Spawning(t)' <=> Spawning(t))
  BY <1>1 DEF Beginning, Spawning, In
<1>3. \A t \in Threads : (Attached(t)' <=> Attached(t)) /\ (Held(t)' <=> Held(t))
  BY <1>2 DEF Attached, Held
<1>4. TypeOK'
  BY <1>1 DEF IInv, TypeOK, list
<1>5. \A t \in Threads : Life(t)' /\ Counted(t)'
  BY <1>2, <1>3 DEF IInv, Life, Counted, One
<1>6. \A t \in Threads : Gone(t)'
  <2>1. x.op = "none" => x.of = NoThread
    BY ThreadsAssumption DEF Calls, Idle, Ops
  <2>2. QED
    BY <1>1, <1>3, <2>1, ThreadsAssumption DEF IInv, Gone
<1>7. \A b \in Actors : Actor(b)'
  BY <1>1 DEF IInv, Actor, Begins, Holds
<1>8. Single' /\ HostInv'
  <2>1. Single'
    BY <1>1 DEF IInv, Single, Begins
  <2>2. HostInv'
    BY <1>1, <1>2 DEF IInv, HostInv, Holds, list
  <2>3. QED
    BY <2>1, <2>2
<1>9. Links' /\ Acyclic'
  BY <1>3, LinksFrame DEF IInv
<1>10. Quiet'
  <2>1. x.op = "none" => x = Idle
    BY DEF Calls, Ops
  <2>2. QED
    BY <1>1, <2>1 DEF IInv, Quiet
<1>11. QED
  BY <1>4, <1>5, <1>6, <1>7, <1>8, <1>9, <1>10 DEF IInv

(* What an actor that runs script can rely on. *)
LEMMA RunsIs ==
    ASSUME IInv, NEW a \in Actors, Runs(a)
    PROVE  /\ call[a].op = "none" /\ killer # "done" /\ (a = Main => killer = "script")
           /\ a \in Threads => os[a] = "run" /\ a \in running
<1>1. Main \notin Threads
  BY ThreadsAssumption
<1>2. QED
  BY <1>1 DEF IInv, Runs, Idle, Quiet

(* begin: the context starts, or the function has no body. *)
LEMMA BeginAsyncStep ==
    ASSUME IInv, NEW a \in Actors, NEW t \in Threads, BeginAsync(a, t)
    PROVE  IInv'
<1>1. /\ TypeOK /\ os[t] = "none" /\ ~Beginning(t) /\ t \in known
      /\ call[a].op = "none" /\ killer # "done" /\ (a = Main => killer = "script")
      /\ a \in Threads => os[a] = "run" /\ a \in running
      /\ UNCHANGED <<list, refs, known, freed, os, killer, victim, fault, early>>
      /\ async' = [async EXCEPT ![t] = TRUE]
  <2>1. Runs(a)
    BY DEF BeginAsync
  <2>2. /\ call[a].op = "none" /\ killer # "done" /\ (a = Main => killer = "script")
        /\ a \in Threads => os[a] = "run" /\ a \in running
    BY <2>1, RunsIs
  <2>3. QED
    BY <2>2 DEF IInv, BeginAsync
<1>2. ~Attached(t)
  BY <1>1 DEF Attached, Spawning, Beginning, In
<1>3. \A b \in Actors : call[b].of = t => call[b].op \in {"finish", "throw", "wait", "none"}
  <2>1. ASSUME NEW b \in Actors, call[b].of = t
        PROVE  call[b].op \in {"finish", "throw", "wait", "none"}
    <3>1. call[b].op \notin {"begin1", "begin2", "begin3", "finish2", "finish3"}
      BY <1>1, <2>1 DEF IInv, Actor, Beginning
    <3>2. call[b].op # "join"
      BY <1>1, <2>1 DEF IInv, Actor
    <3>3. QED
      BY <1>1, <3>1, <3>2, CallFields DEF Ops
  <2>2. QED
    BY <2>1
<1>4. CASE /\ finished' = [finished EXCEPT ![t] = FALSE]
           /\ signal' = [signal EXCEPT ![t] = "no"]
           /\ running' = running \cup {t}
           /\ call' = [call EXCEPT ![a] = [op |-> "begin1", of |-> t]]
  <2>1. /\ call'[a] = [op |-> "begin1", of |-> t] /\ call' \in [Actors -> Calls]
        /\ \A b \in Actors \ {a} : call'[b] = call[b]
    BY <1>1, <1>4 DEF TypeOK, Calls, Ops
  <2>2. /\ Beginning(t)'
        /\ \A u \in Threads \ {t} : (Beginning(u)' <=> Beginning(u))
        /\ \A u \in Threads : (Spawning(u)' <=> Spawning(u)) /\ (Held(u)' <=> Held(u))
    BY <1>1, <2>1 DEF Beginning, Spawning, In, Held
  <2>3. \A u \in Threads : (Attached(u)' <=> Attached(u))
    BY <1>1, <1>4, <2>2 DEF Attached, TypeOK
  <2>4. TypeOK'
    BY <1>1, <1>4, <2>1 DEF TypeOK, list
  <2>5. \A u \in Threads : Life(u)' /\ Counted(u)'
    BY <1>1, <1>2, <1>4, <2>2, <2>3 DEF IInv, Life, Counted, One, TypeOK
  <2>6. \A u \in Threads : Gone(u)'
    BY <1>1, <2>1, <2>2 DEF IInv, Gone
  <2>7. \A b \in Actors : Actor(b)'
    BY <1>1, <1>3, <1>4, <2>1 DEF IInv, Actor, Begins, Holds, TypeOK
  <2>8. Single'
    BY <1>3, <2>1 DEF IInv, Single, Begins
  <2>9. HostInv'
    <3>1. ~Spawning(t)
      BY <1>1 DEF Beginning, Spawning, In
    <3>2. QED
      BY <1>1, <1>4, <2>1, <2>2, <3>1, ThreadsAssumption DEF IInv, HostInv, Holds, TypeOK
  <2>10. Links' /\ Acyclic'
    BY <1>1, <2>3, LinksFrame DEF IInv
  <2>11. QED
    BY <1>1, <2>4, <2>5, <2>6, <2>7, <2>8, <2>9, <2>10 DEF IInv, Quiet
<1>5. CASE finished' = [finished EXCEPT ![t] = TRUE] /\ UNCHANGED <<signal, running, call>>
  <2>1. \A u \in Threads : /\ (Beginning(u)' <=> Beginning(u)) /\ (Spawning(u)' <=> Spawning(u))
                           /\ (Held(u)' <=> Held(u))
    BY <1>1, <1>5 DEF Beginning, Spawning, In, Held
  <2>2. \A u \in Threads : (Attached(u)' <=> Attached(u))
    BY <1>1, <1>5, <2>1 DEF Attached, TypeOK
  <2>3. TypeOK'
    BY <1>1, <1>5 DEF TypeOK, list
  <2>4. \A u \in Threads : Life(u)' /\ Counted(u)' /\ Gone(u)'
    BY <1>1, <1>2, <1>5, <2>1, <2>2 DEF IInv, Life, Counted, One, TypeOK, Gone
  <2>5. \A b \in Actors : Actor(b)'
    BY <1>1, <1>3, <1>5 DEF IInv, Actor, Begins, Holds, TypeOK
  <2>6. Single' /\ HostInv'
    BY <1>1, <1>5, <2>1 DEF IInv, Single, HostInv, Holds, TypeOK
  <2>7. Links' /\ Acyclic'
    BY <1>1, <2>2, LinksFrame DEF IInv
  <2>8. QED
    BY <1>1, <1>5, <2>3, <2>4, <2>5, <2>6, <2>7 DEF IInv, Quiet
<1>6. QED
  BY <1>4, <1>5 DEF BeginAsync

(* A step from one phase of begin to the next, as far as the calls are concerned. *)
LEMMA PhaseOfBegin ==
    ASSUME IInv, NEW a \in Actors, NEW o \in {"begin1", "begin2", "begin3"}, In(a, o),
           NEW t, t = call[a].of
    PROVE  /\ t \in Threads /\ os[t] = "none" /\ ~finished[t] /\ (async[t] <=> o = "begin1")
           /\ Beginning(t) /\ t \in running /\ t \in known
           /\ a = Main => killer = "script"
           /\ a \in Threads => os[a] = "run" /\ a # t
           /\ (o = "begin3" <=> Spawning(t)) /\ (Attached(t) <=> o = "begin3") /\ t \notin freed
           /\ \A b \in Actors \ {a} : call[b].of = t =>
                  call[b].op \notin Begins /\ call[b].op # "join"
<1>1. TypeOK /\ call[a].op = o /\ Actor(a) /\ HostInv
  BY DEF IInv, In
<1>2. t \in Threads
  BY <1>1, CallFields
<1>3. /\ os[t] = "none" /\ ~finished[t] /\ (async[t] <=> o = "begin1")
      /\ a \in Threads => os[a] = "run"
  BY <1>1 DEF Actor, Begins
<1>4. Beginning(t) /\ t \in running
  BY <1>1, <1>2 DEF IInv, Life, Beginning
<1>5. a = Main => killer = "script"
  BY <1>1 DEF HostInv
<1>6. t \in known /\ t \notin freed
  BY <1>1, <1>2, <1>5 DEF IInv, Actor, Gone
<1>7. \A b \in Actors \ {a} : call[b].of = t => call[b].op \notin Begins /\ call[b].op # "join"
  <2>1. \A b \in Actors \ {a} : call[b].of = t => call[b].op \notin Begins
    BY <1>1 DEF IInv, Single, Begins
  <2>2. \A b \in Actors \ {a} : call[b].of = t => call[b].op # "join"
    BY <1>6 DEF IInv, Actor
  <2>3. QED
    BY <2>1, <2>2
<1>8. o = "begin3" <=> Spawning(t)
  BY <1>1, <1>7 DEF Spawning, In, Begins
<1>9. Attached(t) <=> o = "begin3"
  BY <1>3, <1>8 DEF Attached
<1>10. QED
  BY <1>2, <1>3, <1>4, <1>5, <1>6, <1>7, <1>8, <1>9

(* m_flagAsync = false. *)
LEMMA ClearAsyncStep ==
    ASSUME IInv, NEW a \in Actors, ClearAsync(a), NEW t, t = call[a].of
    PROVE  IInv'
<1>1. /\ TypeOK /\ In(a, "begin1") /\ call' = [call EXCEPT ![a].op = "begin2"]
      /\ async' = [async EXCEPT ![t] = FALSE]
      /\ UNCHANGED <<list, refs, known, freed, finished, signal, running, os, killer, victim, fault, early>>
  BY DEF IInv, ClearAsync, Goes
<1>2. /\ t \in Threads /\ os[t] = "none" /\ ~finished[t] /\ t \in known
      /\ a = Main => killer = "script"
      /\ a \in Threads => os[a] = "run" /\ a # t
      /\ ~Attached(t) /\ ~Spawning(t) /\ Beginning(t)
      /\ \A b \in Actors \ {a} : call[b].of = t =>
             call[b].op \notin Begins /\ call[b].op # "join"
  BY <1>1, PhaseOfBegin
<1>3. /\ call'[a] = [op |-> "begin2", of |-> t] /\ call' \in [Actors -> Calls]
      /\ \A b \in Actors \ {a} : call'[b] = call[b]
  BY <1>1, <1>2, CallFields DEF TypeOK, Calls, Ops, In, Idle
<1>4. \A u \in Threads : /\ (Beginning(u)' <=> Beginning(u)) /\ (Spawning(u)' <=> Spawning(u))
                         /\ (Held(u)' <=> Held(u))
  BY ZenonT(30), <1>1, <1>3 DEF Beginning, Spawning, In, Held
<1>5. \A u \in Threads : (Attached(u)' <=> Attached(u))
  BY <1>1, <1>4 DEF Attached
<1>6. TypeOK'
  BY <1>1, <1>3 DEF TypeOK, list
<1>7. \A u \in Threads : Life(u)' /\ Counted(u)'
  BY <1>1, <1>2, <1>4, <1>5 DEF IInv, Life, Counted, One, TypeOK
<1>8. \A u \in Threads : Gone(u)'
  BY <1>1, <1>2, <1>3, <1>4 DEF IInv, Gone
<1>9. \A b \in Actors : Actor(b)'
  BY <1>1, <1>2, <1>3 DEF IInv, Actor, Begins, Holds, TypeOK
<1>10. Single' /\ HostInv'
  BY <1>1, <1>2, <1>3, <1>4 DEF IInv, Single, Begins, HostInv, Holds
<1>11. Links' /\ Acyclic'
  BY <1>1, <1>5, LinksFrame DEF IInv
<1>12. Quiet'
  BY <1>1 DEF IInv, Quiet, In, Idle
<1>13. QED
  BY <1>6, <1>7, <1>8, <1>9, <1>10, <1>11, <1>12 DEF IInv

(* The OS thread of t starts. *)
LEMMA SpawnStep ==
    ASSUME IInv, NEW a \in Actors, Spawn(a), NEW t, t = call[a].of
    PROVE  IInv'
<1>1. /\ TypeOK /\ In(a, "begin3") /\ call' = [call EXCEPT ![a] = Idle]
      /\ os' = [os EXCEPT ![t] = "check"]
      /\ UNCHANGED <<list, refs, known, freed, flags, running, killer, victim, fault, early>>
  BY DEF IInv, Spawn, Returns
<1>2. /\ t \in Threads /\ os[t] = "none" /\ ~finished[t] /\ t \in known /\ ~async[t]
      /\ a = Main => killer = "script"
      /\ a \in Threads => os[a] = "run" /\ a # t
      /\ Attached(t) /\ t \in running /\ t \notin freed
      /\ \A b \in Actors \ {a} : call[b].of = t =>
             call[b].op \notin Begins /\ call[b].op # "join"
  BY <1>1, PhaseOfBegin
<1>3. /\ call'[a] = Idle /\ call' \in [Actors -> Calls]
      /\ \A b \in Actors \ {a} : call'[b] = call[b]
      /\ Idle.op = "none" /\ \A u \in Threads : Idle.of # u
  BY <1>1, ThreadsAssumption DEF TypeOK, Calls, Idle
<1>4. /\ \A u \in Threads \ {t} : (Beginning(u)' <=> Beginning(u)) /\ (Spawning(u)' <=> Spawning(u))
      /\ ~Beginning(t)' /\ \A u \in Threads : (Held(u)' <=> Held(u))
  BY <1>1, <1>2, <1>3 DEF Beginning, Spawning, In, Held, Begins
<1>5. \A u \in Threads : (Attached(u)' <=> Attached(u))
  <2>1. Attached(t)'
    BY <1>1, <1>2 DEF Attached, TypeOK, flags
  <2>2. \A u \in Threads \ {t} : (Attached(u)' <=> Attached(u))
    BY <1>1, <1>4 DEF Attached, TypeOK, flags
  <2>3. QED
    BY <1>2, <2>1, <2>2
<1>6. TypeOK'
  BY <1>1, <1>3 DEF TypeOK, list, flags, OsStates
<1>7. \A u \in Threads : Life(u)' /\ Counted(u)'
  BY <1>1, <1>2, <1>4, <1>5 DEF IInv, Life, Counted, One, TypeOK, flags
<1>8. \A u \in Threads : Gone(u)'
  BY <1>1, <1>2, <1>3, <1>4 DEF IInv, Gone, TypeOK
<1>9. \A b \in Actors : Actor(b)'
  <2>1. call[t].op = "none"
    BY <1>2 DEF IInv, Actor, Actors
  <2>2. QED
    BY <1>1, <1>2, <1>3, <2>1 DEF IInv, Actor, Begins, Holds, TypeOK, flags
<1>10. Single' /\ HostInv'
  <2>1. Single'
    BY <1>3 DEF IInv, Single, Begins
  <2>2. HostInv'
    BY <1>1, <1>2, <1>3, <1>4 DEF IInv, HostInv, Holds, TypeOK, flags
  <2>3. QED
    BY <2>1, <2>2
<1>11. Links' /\ Acyclic'
  BY <1>1, <1>5, LinksFrame DEF IInv
<1>12. Quiet'
  BY <1>1, <1>3 DEF IInv, Quiet
<1>13. QED
  BY <1>6, <1>7, <1>8, <1>9, <1>10, <1>11, <1>12 DEF IInv

(* The head of the list gets a new neighbour. *)
LEMMA AttachLinks ==
    ASSUME IInv, NEW t \in Threads, ~Attached(t), AttachThread(t), Attached(t)',
           \A u \in Threads \ {t} : (Attached(u)' <=> Attached(u))
    PROVE  Links' /\ Acyclic'
<1>1. /\ first' = t /\ next' = [next EXCEPT ![t] = first]
      /\ prev' = [u \in Threads |-> IF u = t THEN NoThread ELSE IF u = first THEN t ELSE prev[u]]
  BY DEF AttachThread
<1>2. TypeOK /\ Links /\ t # NoThread /\ first # t /\ prev[t] = NoThread /\ next[t] = NoThread
  BY ThreadsAssumption DEF IInv, Links
<1>3. /\ \A u \in Threads \ {t} : next'[u] = next[u] /\ (u # first => prev'[u] = prev[u])
      /\ next'[t] = first /\ prev'[t] = NoThread /\ (first # NoThread => prev'[first] = t)
  BY <1>1, <1>2 DEF TypeOK
<1>4. \A u \in Threads : /\ first # u => prev[u] # t /\ next[u] # t
                         /\ next[u] # NoThread => next[u] # first
  BY <1>2, ThreadsAssumption DEF Links, TypeOK
<1>5. Links'
  BY <1>1, <1>2, <1>3, <1>4 DEF Links, TypeOK
<1>6. PICK rank \in [Threads -> Nat] :
          \A u \in Threads : prev[u] # NoThread => rank[prev[u]] < rank[u]
  BY DEF IInv, Acyclic
<1>7. PICK r : r = [u \in Threads |-> IF u = t THEN 0 ELSE rank[u] + 1]
  OBVIOUS
<1>8. r \in [Threads -> Nat]
  BY <1>6, <1>7
<1>9. \A u \in Threads : prev'[u] # NoThread => r[prev'[u]] < r[u]
  BY <1>1, <1>2, <1>3, <1>4, <1>6, <1>7 DEF TypeOK
<1>10. QED
  BY <1>5, <1>8, <1>9 DEF Acyclic

(* The list takes its reference. *)
LEMMA AttachStep ==
    ASSUME IInv, NEW a \in Actors, Attach(a), NEW t, t = call[a].of
    PROVE  IInv'
<1>1. /\ TypeOK /\ In(a, "begin2") /\ call' = [call EXCEPT ![a].op = "begin3"]
      /\ AttachThread(t) /\ refs' = [refs EXCEPT ![t] = @ + 1]
      /\ UNCHANGED <<known, freed, flags, running, os, killer, victim, fault, early>>
  BY DEF IInv, Attach, Goes, AttachThread
<1>2. /\ t \in Threads /\ os[t] = "none" /\ ~finished[t] /\ t \in known /\ ~async[t]
      /\ a = Main => killer = "script"
      /\ a \in Threads => os[a] = "run" /\ a # t
      /\ ~Attached(t) /\ Beginning(t) /\ t \in running /\ t \notin freed
      /\ \A b \in Actors \ {a} : call[b].of = t =>
             call[b].op \notin Begins /\ call[b].op # "join"
  BY <1>1, PhaseOfBegin
<1>3. /\ call'[a] = [op |-> "begin3", of |-> t] /\ call' \in [Actors -> Calls]
      /\ \A b \in Actors \ {a} : call'[b] = call[b]
  BY <1>1, <1>2, CallFields DEF TypeOK, Calls, Ops, In, Idle
<1>4. /\ \A u \in Threads : (Beginning(u)' <=> Beginning(u)) /\ (Held(u)' <=> Held(u))
      /\ \A u \in Threads \ {t} : (Spawning(u)' <=> Spawning(u))
      /\ Spawning(t)'
  BY ZenonT(30), <1>1, <1>2, <1>3 DEF Beginning, Spawning, In, Held
<1>5. /\ Attached(t)' /\ \A u \in Threads \ {t} : (Attached(u)' <=> Attached(u))
  BY <1>1, <1>4 DEF Attached, flags
<1>6. TypeOK'
  BY <1>1, <1>2, <1>3, ThreadsAssumption DEF TypeOK, flags, AttachThread
<1>7. \A u \in Threads : Life(u)'
  BY <1>1, <1>2, <1>4, <1>5 DEF IInv, Life, TypeOK, flags
<1>8. \A u \in Threads : Counted(u)'
  <2>1. Counted(t)'
    BY <1>1, <1>2, <1>4, <1>5 DEF IInv, Counted, One, TypeOK
  <2>2. \A u \in Threads \ {t} : Counted(u)'
    BY <1>1, <1>2, <1>4, <1>5 DEF IInv, Counted, One, TypeOK
  <2>3. QED
    BY <2>1, <2>2
<1>9. \A u \in Threads : Gone(u)'
  BY <1>1, <1>2, <1>3, <1>4 DEF IInv, Gone
<1>10. \A b \in Actors : Actor(b)'
  BY <1>1, <1>2, <1>3 DEF IInv, Actor, Begins, Holds, TypeOK, flags
<1>11. Single' /\ HostInv'
  <2>1. Single'
    BY <1>2, <1>3 DEF IInv, Single, Begins
  <2>2. HostInv'
    BY <1>1, <1>2, <1>3, <1>4 DEF IInv, HostInv, Holds, flags
  <2>3. QED
    BY <2>1, <2>2
<1>12. Links' /\ Acyclic'
  BY <1>1, <1>2, <1>5, AttachLinks
<1>13. Quiet'
  BY <1>1 DEF IInv, Quiet, In, Idle
<1>14. QED
  BY <1>6, <1>7, <1>8, <1>9, <1>10, <1>11, <1>12, <1>13 DEF IInv

-----------------------------------------------------------------------------
(* The OS thread of an object. *)

(* A step of the OS thread of t that leaves the list alone. *)
LEMMA OsStep ==
    ASSUME IInv, NEW t \in Threads, os[t] \in {"check", "run"}, NEW x \in {"check", "run", "over"},
           os' = [os EXCEPT ![t] = x],
           running' = (IF x = "over" THEN running \ {t} ELSE running),
           \/ x # "over" /\ call' = call
           \/ x = "over" /\ call' = [call EXCEPT ![t] = Idle],
           call[t].op \in {"none", "wait"},
           UNCHANGED <<list, refs, known, freed, flags, killer, victim, fault, early>>
    PROVE  IInv'
<1>1. /\ TypeOK /\ ~finished[t] /\ ~async[t] /\ t \in running /\ Attached(t) /\ t \notin freed
      /\ t # Main /\ t \in Actors
  BY ThreadsAssumption DEF IInv, Life, Attached, Gone, Actors
<1>2. /\ call' \in [Actors -> Calls] /\ \A b \in Actors \ {t} : call'[b] = call[b]
      /\ call'[t] = call[t] \/ call'[t] = Idle
      /\ x = "over" => call'[t] = Idle
      /\ Idle.op = "none" /\ \A u \in Threads : Idle.of # u
  BY <1>1, ThreadsAssumption DEF TypeOK, Calls, Idle
<1>3. \A u \in Threads : /\ (Beginning(u)' <=> Beginning(u)) /\ (Held(u)' <=> Held(u))
                         /\ (Spawning(u)' <=> Spawning(u))
  <2>1. call[t].op \notin Begins /\ call'[t].op \notin Begins
    BY <1>2 DEF Begins
  <2>2. QED
    BY <1>2, <2>1 DEF Beginning, Spawning, In, Held, Begins
<1>4. \A u \in Threads : (Attached(u)' <=> Attached(u))
  BY <1>1, <1>3 DEF Attached, TypeOK, flags
<1>5. TypeOK'
  BY <1>1, <1>2 DEF TypeOK, list, flags, OsStates
<1>6. ~Beginning(t)
  BY <1>1 DEF IInv, Actor, Begins, Beginning
<1>7. \A u \in Threads : Life(u)'
  BY <1>1, <1>3, <1>4, <1>6 DEF IInv, Life, TypeOK, flags
<1>8. \A u \in Threads : Counted(u)' /\ Gone(u)'
  <2>1. \A u \in Threads : Counted(u)'
    BY <1>3, <1>4 DEF IInv, Counted, One
  <2>2. \A u \in Threads : Gone(u)'
    BY <1>1, <1>2, <1>3 DEF IInv, Gone, TypeOK
  <2>3. QED
    BY <2>1, <2>2
<1>9. \A b \in Actors : Actor(b)'
  <2>1. Actor(t)'
    BY <1>1, <1>2 DEF IInv, Actor, Begins, Holds, TypeOK, flags
  <2>2. \A b \in Actors \ {t} : Actor(b)'
    BY <1>1, <1>2 DEF IInv, Actor, Begins, Holds, TypeOK, flags
  <2>3. QED
    BY <2>1, <2>2
<1>10. Single' /\ HostInv'
  <2>1. Single'
    BY <1>2 DEF IInv, Single, Begins
  <2>2. call'[Main] = call[Main]
    BY <1>1, <1>2 DEF Actors
  <2>3. \A u \in Threads : os'[u] = os[u] \/ (os'[u] # "none" /\ u = t)
    BY <1>1 DEF TypeOK
  <2>4. HostInv'
    BY <1>1, <1>3, <2>2, <2>3 DEF IInv, HostInv, Holds, flags
  <2>5. QED
    BY <2>1, <2>4
<1>11. Links' /\ Acyclic'
  BY <1>4, LinksFrame DEF IInv
<1>12. Quiet'
  BY <1>1 DEF IInv, Quiet
<1>13. QED
  BY <1>5, <1>7, <1>8, <1>9, <1>10, <1>11, <1>12 DEF IInv

(* The neighbours of a removed thread are linked to each other. *)
LEMMA DetachLinks ==
    ASSUME IInv, NEW t \in Threads, Attached(t), ~Attached(t)',
           first' = (IF prev[t] = NoThread THEN next[t] ELSE first),
           next' = NextWithout(t), prev' = PrevWithout(t),
           \A u \in Threads \ {t} : (Attached(u)' <=> Attached(u))
    PROVE  Links' /\ Acyclic'
<1>1. /\ TypeOK /\ Links /\ NoThread \notin Threads
      /\ (first = t \/ prev[t] # NoThread) /\ (first # NoThread => prev[first] = NoThread)
  BY ThreadsAssumption DEF IInv, Links
<1>2. PICK p, n : p = prev[t] /\ n = next[t]
  OBVIOUS
<1>3. /\ next'[t] = NoThread /\ prev'[t] = NoThread
      /\ \A u \in Threads \ {t} : /\ next'[u] = (IF u = p THEN n ELSE next[u])
                                  /\ prev'[u] = (IF u = n THEN p ELSE prev[u])
      /\ p \in Threads \cup {NoThread} /\ n \in Threads \cup {NoThread}
      /\ first' = IF p = NoThread THEN n ELSE first
  BY <1>1, <1>2 DEF NextWithout, PrevWithout, TypeOK
<1>4. /\ p # NoThread => next[p] = t
      /\ n # NoThread => prev[n] = t
      /\ \A u \in Threads : next[u] = t => u = p
      /\ \A u \in Threads : prev[u] = t => u = n
      /\ p = t <=> n = t
  BY <1>1, <1>2 DEF Links, TypeOK
<1>5. p = NoThread => first = t
  BY <1>1, <1>2
<1>6. p # NoThread => first # t
  BY <1>1, <1>2
<1>7. first' # NoThread => prev'[first'] = NoThread
  <2>1. CASE p = NoThread
    BY <1>1, <1>3, <1>4, <2>1
  <2>2. CASE p # NoThread
    BY <1>1, <1>3, <1>4, <1>6, <2>2 DEF TypeOK
  <2>3. QED
    BY <2>1, <2>2
<1>8. ASSUME NEW u \in Threads
      PROVE  /\ Attached(u)' <=> first' = u \/ prev'[u] # NoThread
             /\ prev'[u] # NoThread => next'[prev'[u]] = u
             /\ next'[u] # NoThread => prev'[next'[u]] = u
             /\ ~Attached(u)' => next'[u] = NoThread
  <2>1. CASE u = t
    BY <1>1, <1>3, <1>4, <1>6, <2>1
  <2>2. CASE u # t
    <3>1. /\ Attached(u) <=> first = u \/ prev[u] # NoThread
          /\ prev[u] # NoThread => next[prev[u]] = u
          /\ next[u] # NoThread => prev[next[u]] = u
          /\ ~Attached(u) => next[u] = NoThread
          /\ Attached(u)' <=> Attached(u)
      BY <1>1, <2>2 DEF Links
    <3>2. Attached(u)' <=> first' = u \/ prev'[u] # NoThread
      BY <1>1, <1>3, <1>4, <1>5, <2>2, <3>1
    <3>3. prev'[u] # NoThread => next'[prev'[u]] = u
      <4>1. CASE u = n
        BY <1>1, <1>3, <1>4, <2>2, <4>1
      <4>2. CASE u # n
        BY <1>1, <1>3, <1>4, <2>2, <3>1, <4>2 DEF TypeOK
      <4>3. QED
        BY <4>1, <4>2
    <3>4. next'[u] # NoThread => prev'[next'[u]] = u
      <4>1. CASE u = p
        BY <1>1, <1>3, <1>4, <2>2, <4>1
      <4>2. CASE u # p
        BY <1>1, <1>3, <1>4, <2>2, <3>1, <4>2 DEF TypeOK
      <4>3. QED
        BY <4>1, <4>2
    <3>5. ~Attached(u)' => next'[u] = NoThread
      BY <1>1, <1>3, <1>4, <2>2, <3>1
    <3>6. QED
      BY <3>2, <3>3, <3>4, <3>5
  <2>3. QED
    BY <2>1, <2>2
<1>9. Links'
  BY <1>7, <1>8 DEF Links
<1>10. PICK rank \in [Threads -> Nat] :
          \A u \in Threads : prev[u] # NoThread => rank[prev[u]] < rank[u]
  BY DEF IInv, Acyclic
<1>11. ASSUME NEW u \in Threads, prev'[u] # NoThread PROVE rank[prev'[u]] < rank[u]
  <2>1. CASE u = n
    <3>1. u # t /\ prev'[u] = p /\ p \in Threads /\ prev[u] = t
      BY <1>1, <1>3, <1>4, <1>11, <2>1
    <3>2. rank[p] < rank[t] /\ rank[t] < rank[u]
      BY <1>1, <1>2, <1>10, <3>1
    <3>3. rank[p] \in Nat /\ rank[t] \in Nat /\ rank[u] \in Nat
      BY <1>10, <3>1
    <3>4. QED
      BY <3>1, <3>2, <3>3
  <2>2. CASE u # n
    BY <1>3, <1>10, <1>11, <2>2
  <2>3. QED
    BY <2>1, <2>2
<1>12. Acyclic'
  BY <1>10, <1>11 DEF Acyclic
<1>13. QED
  BY <1>9, <1>12

(* OnFinished: the list gives its reference back.  If it was the last one, the thread *)
(* joins itself.                                                                     *)
LEMMA OnFinishedStep ==
    ASSUME IInv, NEW t \in Threads, OnFinished(t)
    PROVE  IInv' /\ Orphan'
<1>1. /\ TypeOK /\ os[t] = "over" /\ ~async[t] /\ ~finished[t] /\ Attached(t)
      /\ t \notin freed /\ ~Spawning(t) /\ ~Beginning(t) /\ t # Main /\ t \in Actors
      /\ call[t].op = "none" /\ t \notin running
  <2>1. os[t] = "over"
    BY DEF OnFinished
  <2>2. ~Beginning(t)
    BY <2>1 DEF IInv, Actor, Begins, Beginning
  <2>3. ~Spawning(t)
    BY <2>2 DEF Beginning, Spawning, In
  <2>4. TypeOK /\ ~async[t] /\ ~finished[t] /\ Attached(t) /\ t # Main /\ t \in Actors
    BY <2>1, ThreadsAssumption DEF IInv, Life, Attached, Actors
  <2>5. t \notin freed /\ t \notin running
    BY <2>1, <2>2, <2>4 DEF IInv, Life, Gone
  <2>6. call[t].op = "none"
    BY <2>1, <2>4 DEF IInv, Actor
  <2>7. QED
    BY <2>1, <2>2, <2>3, <2>4, <2>5, <2>6
<1>2. /\ DetachThread(t, t) /\ os' = [os EXCEPT ![t] = "flag"]
      /\ UNCHANGED <<known, flags, running, call, killer, victim, early>>
  BY <1>1 DEF OnFinished, LeaveList
<1>3. refs[t] = One(t \in known) + 1 + One(Held(t)) /\ refs[t] \in Nat
  BY <1>1 DEF IInv, Counted, One
<1>4. /\ refs' = [refs EXCEPT ![t] = @ - 1] /\ freed' = freed /\ fault' = (refs[t] = 1)
  BY <1>2 DEF DetachThread
<1>5. \A u \in Threads : /\ (Beginning(u)' <=> Beginning(u)) /\ (Held(u)' <=> Held(u))
                         /\ (Spawning(u)' <=> Spawning(u))
  BY <1>2 DEF Beginning, Spawning, In, Held
<1>6. ~Attached(t)' /\ \A u \in Threads \ {t} : (Attached(u)' <=> Attached(u))
  BY <1>1, <1>2, <1>5 DEF Attached, TypeOK, flags
<1>7. /\ first' = (IF prev[t] = NoThread THEN next[t] ELSE first)
      /\ next' = NextWithout(t) /\ prev' = PrevWithout(t)
  BY <1>2 DEF DetachThread
<1>8. Links' /\ Acyclic'
  BY <1>1, <1>6, <1>7, DetachLinks
<1>9. TypeOK'
  <2>1. /\ first' \in Threads \cup {NoThread} /\ refs' \in [Threads -> Int]
    BY <1>1, <1>3, <1>4, <1>7 DEF TypeOK
  <2>2. /\ prev' \in [Threads -> Threads \cup {NoThread}]
        /\ next' \in [Threads -> Threads \cup {NoThread}]
    BY <1>1, <1>7 DEF TypeOK, PrevWithout, NextWithout
  <2>3. QED
    BY <1>1, <1>2, <1>4, <2>1, <2>2 DEF TypeOK, flags, OsStates
<1>10. \A u \in Threads : Life(u)'
  BY <1>1, <1>2, <1>5, <1>6 DEF IInv, Life, TypeOK, flags
<1>11. \A u \in Threads : Counted(u)'
  BY <1>1, <1>2, <1>4, <1>5, <1>6 DEF IInv, Counted, One, TypeOK
<1>12. \A u \in Threads : Gone(u)'
  BY <1>1, <1>2, <1>4, <1>5 DEF IInv, Gone, TypeOK
<1>13. \A b \in Actors : Actor(b)'
  BY <1>1, <1>2, <1>4 DEF IInv, Actor, Begins, Holds, TypeOK, flags
<1>14. Single' /\ HostInv'
  <2>1. Single'
    BY <1>2 DEF IInv, Single, Begins
  <2>2. \A u \in Threads : os'[u] = os[u] \/ (os'[u] = "flag" /\ u = t)
    BY <1>1, <1>2 DEF TypeOK
  <2>3. HostInv'
    BY <1>1, <1>2, <1>4, <1>5, <2>2 DEF IInv, HostInv, Holds, flags
  <2>4. QED
    BY <2>1, <2>3
<1>15. Quiet'
  BY <1>2 DEF IInv, Quiet
<1>16. ASSUME fault'
       PROVE  t \notin known' /\ os'[t] = "flag" /\ ~Held(t)' /\ \A a \in Actors : call'[a].of # t
  <2>1. t \notin known /\ ~Held(t)
    <3>1. refs[t] = 1
      BY <1>4, <1>16, Zenon
    <3>2. One(t \in known) = 0 /\ One(Held(t)) = 0
      BY <1>3, <3>1 DEF One
    <3>3. QED
      BY <3>2 DEF One
  <2>2. ASSUME NEW a \in Actors, call[a].of = t PROVE FALSE
    <3>1. call[a].op # "none" /\ Actor(a) /\ HostInv
      BY <1>1, <2>2, CallFields DEF IInv
    <3>2. call[a].op = "join"
      BY <2>1, <2>2, <3>1 DEF Actor, Held
    <3>3. QED
      BY <1>1, <2>2, <3>1, <3>2 DEF Actor
  <2>3. QED
    BY <1>1, <1>2, <1>5, <2>1, <2>2 DEF TypeOK
<1>17. QED
  BY <1>8, <1>9, <1>10, <1>11, <1>12, <1>13, <1>14, <1>15, <1>16 DEF IInv, Orphan

(* m_flagFinished is set, and the host woken if it sleeps. *)
LEMMA FlagStep ==
    ASSUME IInv, NEW t \in Threads, Flag(t)
    PROVE  IInv'
<1>1. /\ TypeOK /\ os[t] = "flag" /\ ~Spawning(t) /\ ~Beginning(t) /\ ~async[t] /\ ~finished[t]
      /\ t # Main /\ t \in Actors /\ ~Attached(t)
  <2>1. os[t] = "flag"
    BY DEF Flag
  <2>2. ~Beginning(t)
    BY <2>1 DEF IInv, Actor, Begins, Beginning
  <2>3. ~Spawning(t)
    BY <2>2 DEF Beginning, Spawning, In
  <2>4. QED
    BY <2>1, <2>2, <2>3, ThreadsAssumption DEF IInv, Life, Actors, Attached
<1>2. /\ os' = [os EXCEPT ![t] = "ended"] /\ finished' = [finished EXCEPT ![t] = TRUE]
      /\ killer' = (IF killer = "asleep" /\ victim = t THEN "check" ELSE killer)
      /\ UNCHANGED <<list, refs, known, freed, async, signal, running, call, victim, fault, early>>
  BY DEF Flag, SetFinished
<1>3. killer' = killer \/ (killer = "asleep" /\ killer' = "check" /\ call[Main].op = "none")
  BY <1>2 DEF IInv, HostInv
<1>4. \A u \in Threads : /\ (Beginning(u)' <=> Beginning(u)) /\ (Held(u)' <=> Held(u))
                         /\ (Spawning(u)' <=> Spawning(u))
  BY <1>2, <1>3 DEF Beginning, Spawning, In, Held
<1>5. /\ os'[t] = "ended" /\ finished'[t]
      /\ \A u \in Threads \ {t} : os'[u] = os[u] /\ finished'[u] = finished[u]
  BY <1>1, <1>2 DEF TypeOK
<1>6. \A u \in Threads : (Attached(u)' <=> Attached(u))
  BY <1>1, <1>4, <1>5 DEF Attached
<1>7. TypeOK'
  BY <1>1, <1>2 DEF TypeOK, list, OsStates, KillerStates
<1>8. \A u \in Threads : Life(u)' /\ Counted(u)' /\ Gone(u)'
  <2>1. \A u \in Threads : Life(u)'
    BY <1>1, <1>2, <1>4, <1>5, <1>6 DEF IInv, Life
  <2>2. \A u \in Threads : Counted(u)' /\ Gone(u)'
    BY <1>1, <1>2, <1>4, <1>5, <1>6 DEF IInv, Counted, One, Gone
  <2>3. QED
    BY <2>1, <2>2
<1>9. \A b \in Actors : Actor(b)'
  <2>1. ASSUME NEW b \in Actors PROVE Actor(b)'
    <3>1. Actor(b) /\ call'[b] = call[b] /\ (call[b].op # "none" => call[b].of \in Threads)
      BY <1>1, <1>2, CallFields DEF IInv
    <3>2. b \in Threads /\ call[b].op # "none" => b # t
      BY <1>1, <3>1 DEF Actor
    <3>3. QED
      BY <1>1, <1>2, <1>3, <1>5, <3>1, <3>2 DEF Actor, Begins, Holds, Ops
  <2>2. QED
    BY <2>1
<1>10. Single' /\ HostInv'
  <2>1. Single'
    BY <1>2 DEF IInv, Single, Begins
  <2>2. HostInv'
    BY <1>1, <1>2, <1>3, <1>4, <1>5 DEF IInv, HostInv, Holds
  <2>3. QED
    BY <2>1, <2>2
<1>11. Links' /\ Acyclic'
  BY <1>2, <1>6, LinksFrame DEF IInv
<1>12. Quiet'
  BY <1>2, <1>3 DEF IInv, Quiet
<1>13. QED
  BY <1>7, <1>8, <1>9, <1>10, <1>11, <1>12 DEF IInv

-----------------------------------------------------------------------------
(* The last variable that refers to an object. *)

(* Nobody but the host has anything to do with t when its last variable goes. *)
LEMMA DropIs ==
    ASSUME IInv, NEW a \in Actors, NEW t \in Threads, Drop(a, t)
    PROVE  /\ ~Beginning(t) /\ ~Spawning(t) /\ t \in known /\ t \notin freed
           /\ refs[t] = 1 + One(Attached(t)) + One(Held(t))
           /\ \A b \in Actors : call[b].of = t =>
                  b = Main /\ call[b].op = "finish" /\ killer = "check" /\ victim = t
           /\ killer = "join" => victim # t
           /\ ~Attached(t) => os[t] \in {"none", "flag", "ended"}
<1>1. /\ TypeOK /\ t \in known
      /\ \A b \in Actors : call[b].of = t => b = Main /\ killer # "script"
  BY DEF IInv, Drop
<1>2. ASSUME NEW b \in Actors, call[b].of = t
      PROVE  b = Main /\ call[b].op = "finish" /\ killer = "check" /\ victim = t
  BY <1>1, <1>2, CallFields DEF IInv, HostInv
<1>3. ~Beginning(t) /\ ~Spawning(t)
  BY <1>2 DEF Beginning, Spawning, In
<1>4. os[t] \in OsStates
  BY <1>1 DEF TypeOK
<1>5. ~Attached(t) => os[t] \in {"none", "flag", "ended"}
  BY <1>4 DEF IInv, Life, Attached, OsStates
<1>6. QED
  BY <1>1, <1>2, <1>3, <1>5 DEF IInv, HostInv, Gone, Counted, One

(* The object is dropped, deleted at once, or deleted after a join. *)
LEMMA DropStep ==
    ASSUME IInv, NEW a \in Actors, NEW t \in Threads, Drop(a, t)
    PROVE  IInv'
<1>1. /\ ~Beginning(t) /\ ~Spawning(t) /\ t \in known /\ t \notin freed
      /\ refs[t] = 1 + One(Attached(t)) + One(Held(t))
      /\ \A b \in Actors : call[b].of = t =>
             b = Main /\ call[b].op = "finish" /\ killer = "check" /\ victim = t
      /\ killer = "join" => victim # t
      /\ ~Attached(t) => os[t] \in {"none", "flag", "ended"}
  BY DropIs
<1>2. /\ TypeOK /\ known' = known \ {t} /\ refs' = [refs EXCEPT ![t] = @ - 1]
      /\ UNCHANGED <<list, flags, running, os, killer, victim, fault, early>>
      /\ Runs(a) /\ NoThread \notin Threads
  BY ThreadsAssumption DEF IInv, Drop
<1>3. /\ call[a].op = "none" /\ killer # "done" /\ (a = Main => killer = "script")
      /\ a \in Threads => os[a] = "run" /\ a \in running
  BY <1>2, RunsIs
<1>4. /\ refs' \in [Threads -> Int] /\ refs'[t] = One(Attached(t)) + One(Held(t))
      /\ \A u \in Threads \ {t} : refs'[u] = refs[u]
  BY <1>1, <1>2 DEF TypeOK, One
<1>5. PICK x \in Calls, F \in SUBSET {t} :
        /\ call' = [call EXCEPT ![a] = x] /\ freed' = freed \cup F
        /\ \/ x = call[a] /\ (F = {} \/ (os[t] = "none" /\ ~Held(t)))
           \/ x = [op |-> "join", of |-> t] /\ os[t] \in {"flag", "ended"} /\ F = {} /\ ~Held(t)
  <2>1. refs[t] > 1 \/ (~Held(t) /\ ~Attached(t))
    BY <1>1 DEF One
  <2>2. [op |-> "join", of |-> t] \in Calls /\ call[a] \in Calls
        /\ call = [call EXCEPT ![a] = call[a]]
    BY <1>2 DEF Calls, Ops, TypeOK
  <2>3. CASE refs[t] > 1
    <3>1. call' = call /\ freed' = freed \cup {}
      BY <2>3 DEF Drop
    <3>2. QED
      BY <2>2, <3>1
  <2>4. CASE ~(refs[t] > 1) /\ os[t] = "none"
    <3>1. call' = call /\ freed' = freed \cup {t}
      BY <2>4 DEF Drop
    <3>2. QED
      BY <2>1, <2>2, <2>4, <3>1
  <2>5. CASE ~(refs[t] > 1) /\ os[t] # "none"
    <3>1. call' = [call EXCEPT ![a] = [op |-> "join", of |-> t]] /\ freed' = freed \cup {}
      BY <2>5 DEF Drop
    <3>2. QED
      BY <1>1, <2>1, <2>2, <2>5, <3>1
  <2>6. QED
    BY <2>3, <2>4, <2>5
<1>6. /\ call' \in [Actors -> Calls] /\ call'[a] = x
      /\ \A b \in Actors \ {a} : call'[b] = call[b]
      /\ x.op \in {"none", "join"} /\ (x.op = "join" => x.of = t)
      /\ x.op = "none" => x = call[a]
  BY <1>2, <1>3, <1>5 DEF TypeOK
<1>7. \A u \in Threads : /\ (Beginning(u)' <=> Beginning(u)) /\ (Held(u)' <=> Held(u))
                         /\ (Spawning(u)' <=> Spawning(u))
  BY <1>2, <1>3, <1>6 DEF Beginning, Spawning, In, Held
<1>8. \A u \in Threads : (Attached(u)' <=> Attached(u))
  BY <1>2, <1>7 DEF Attached, flags
<1>9. TypeOK'
  BY <1>2, <1>4, <1>5, <1>6 DEF TypeOK, list, flags
<1>10. \A u \in Threads : Life(u)' /\ Counted(u)'
  <2>1. \A u \in Threads : Life(u)'
    BY <1>1, <1>2, <1>7, <1>8 DEF IInv, Life, flags
  <2>2. Counted(t)'
    BY <1>1, <1>2, <1>4, <1>7, <1>8 DEF Counted, One
  <2>3. \A u \in Threads \ {t} : Counted(u)'
    BY <1>2, <1>4, <1>7, <1>8 DEF IInv, Counted, One
  <2>4. QED
    BY <2>1, <2>2, <2>3
<1>11. \A u \in Threads : Gone(u)'
  <2>1. ASSUME NEW u \in Threads, u \in freed'
        PROVE  u \notin known' /\ ~Held(u)' /\ os'[u] \in {"none", "ended"}
               /\ \A b \in Actors : call'[b].of # u
    <3>1. CASE u = t
      <4>1. x = call[a] /\ os[t] = "none" /\ ~Held(t)
        BY <1>1, <1>5, <2>1, <3>1
      <4>2. \A b \in Actors : call[b].of # t
        BY <1>1, <4>1 DEF Held
      <4>3. QED
        BY <1>2, <1>6, <1>7, <3>1, <4>1, <4>2
    <3>2. CASE u # t
      <4>1. u \in freed
        BY <1>5, <2>1, <3>2
      <4>2. \A b \in Actors : call'[b].of # u
        BY <1>3, <1>5, <1>6, <3>2, <4>1 DEF IInv, Gone
      <4>3. QED
        BY <1>2, <1>7, <4>1, <4>2 DEF IInv, Gone
    <3>3. QED
      BY <3>1, <3>2
  <2>2. QED
    BY <2>1 DEF Gone
<1>12. \A b \in Actors : Actor(b)'
  <2>1. Actor(a)'
    <3>1. CASE x.op = "none"
      BY <1>6, <3>1 DEF Actor, Begins
    <3>2. CASE x.op = "join"
      <4>1. x = [op |-> "join", of |-> t] /\ os[t] \in {"flag", "ended"} /\ ~Held(t) /\ freed' = freed
        BY <1>3, <1>5, <3>2
      <4>2. ~(victim = t /\ killer \in Holds \cup {"join"})
        BY <1>1, <4>1 DEF Held, Holds
      <4>3. QED
        BY <1>1, <1>2, <1>3, <1>6, <4>1, <4>2 DEF Actor, Begins, flags
    <3>3. QED
      BY <1>6, <3>1, <3>2
  <2>2. ASSUME NEW b \in Actors \ {a} PROVE Actor(b)'
    <3>1. Actor(b) /\ call'[b] = call[b]
      BY <1>6 DEF IInv
    <3>2. call[b].op = "join" => call[b].of # t
      BY <1>1
    <3>3. QED
      BY <1>1, <1>2, <1>5, <3>1, <3>2 DEF Actor, flags
  <2>3. QED
    BY <2>1, <2>2
<1>13. Single' /\ HostInv'
  <2>1. Single'
    BY <1>1, <1>6 DEF IInv, Single, Begins
  <2>2. HostInv'
    BY <1>1, <1>2, <1>3, <1>5, <1>6, <1>7 DEF IInv, HostInv, Holds, flags
  <2>3. QED
    BY <2>1, <2>2
<1>14. Links' /\ Acyclic'
  BY <1>2, <1>8, LinksFrame DEF IInv
<1>15. Quiet'
  BY <1>2, <1>3 DEF Quiet
<1>16. QED
  BY <1>9, <1>10, <1>11, <1>12, <1>13, <1>14, <1>15 DEF IInv

(* The destructor has joined the OS thread. *)
LEMMA JoinedStep ==
    ASSUME IInv, NEW a \in Actors, Joined(a), NEW t, t = call[a].of
    PROVE  IInv'
<1>1. /\ TypeOK /\ call[a].op = "join" /\ os[t] = "ended" /\ freed' = freed \cup {t}
      /\ call' = [call EXCEPT ![a] = Idle]
      /\ UNCHANGED <<list, refs, known, flags, running, os, killer, victim, fault, early>>
  BY DEF IInv, Joined, In, Returns
<1>2. /\ t \in Threads /\ t \notin known \cup freed
      /\ ~(victim = t /\ killer \in Holds \cup {"join"})
  BY <1>1, CallFields DEF IInv, Actor
<1>3. \A b \in Actors \ {a} : call[b].of # t
  <2>1. ASSUME NEW b \in Actors \ {a}, call[b].of = t PROVE FALSE
    <3>1. call[b].op # "none" /\ call[b].op # "join"
      BY <1>1, <1>2, <2>1, CallFields DEF IInv, Single
    <3>2. t \in known \/ (killer = "check" /\ victim = t)
      BY <2>1, <3>1 DEF IInv, Actor
    <3>3. QED
      BY <1>2, <3>2 DEF Holds
  <2>2. QED
    BY <2>1
<1>4. /\ call' \in [Actors -> Calls] /\ call'[a] = Idle /\ Idle.op = "none"
      /\ \A b \in Actors \ {a} : call'[b] = call[b]
      /\ \A u \in Threads : Idle.of # u
  BY <1>1, ThreadsAssumption DEF TypeOK, Calls, Idle
<1>5. \A u \in Threads : /\ (Beginning(u)' <=> Beginning(u)) /\ (Held(u)' <=> Held(u))
                         /\ (Spawning(u)' <=> Spawning(u))
  BY <1>1, <1>4 DEF Beginning, Spawning, In, Held
<1>6. \A u \in Threads : (Attached(u)' <=> Attached(u))
  BY <1>1, <1>5 DEF Attached, flags
<1>7. TypeOK'
  BY <1>1, <1>2, <1>4 DEF TypeOK, list, flags
<1>8. \A u \in Threads : Life(u)' /\ Counted(u)'
  BY <1>1, <1>5, <1>6 DEF IInv, Life, Counted, One, flags
<1>9. \A u \in Threads : Gone(u)'
  <2>1. Gone(t)'
    BY <1>1, <1>2, <1>3, <1>4, <1>5 DEF Gone, Held, Holds
  <2>2. \A u \in Threads \ {t} : Gone(u)'
    BY <1>1, <1>4, <1>5 DEF IInv, Gone
  <2>3. QED
    BY <2>1, <2>2
<1>10. \A b \in Actors : Actor(b)'
  <2>1. Actor(a)'
    BY <1>4 DEF Actor, Begins
  <2>2. \A b \in Actors \ {a} : Actor(b)'
    BY <1>1, <1>3, <1>4 DEF IInv, Actor, flags
  <2>3. QED
    BY <2>1, <2>2
<1>11. Single' /\ HostInv'
  <2>1. Single'
    BY <1>4 DEF IInv, Single, Begins
  <2>2. HostInv'
    BY <1>1, <1>2, <1>4, <1>5 DEF IInv, HostInv, Holds, flags
  <2>3. QED
    BY <2>1, <2>2
<1>12. Links' /\ Acyclic'
  BY <1>1, <1>6, LinksFrame DEF IInv
<1>13. Quiet'
  BY <1>1, <1>4 DEF IInv, Quiet
<1>14. QED
  BY <1>7, <1>8, <1>9, <1>10, <1>11, <1>12, <1>13 DEF IInv

-----------------------------------------------------------------------------
(* The host inside TerminateAllThreads. *)

(* A step of the host that changes no object: of the calls, the list and the *)
(* objects nothing changes but the reference it holds.                       *)
LEMMA HostFrame ==
    ASSUME IInv, UNCHANGED <<list, known, freed, flags, running, os, call, fault, early>>
    PROVE  /\ \A t \in Threads : /\ (Beginning(t)' <=> Beginning(t))
                                 /\ (Spawning(t)' <=> Spawning(t))
                                 /\ (Attached(t)' <=> Attached(t))
                                 /\ Life(t)'
           /\ Single' /\ Links' /\ Acyclic'
<1>1. \A t \in Threads : (Beginning(t)' <=> Beginning(t)) /\ (Spawning(t)' <=> Spawning(t))
  BY DEF Beginning, Spawning, In
<1>2. \A t \in Threads : (Attached(t)' <=> Attached(t))
  BY <1>1 DEF Attached, flags
<1>3. \A t \in Threads : Life(t)'
  BY <1>1, <1>2 DEF IInv, Life, flags
<1>4. Single'
  BY DEF IInv, Single
<1>5. Links' /\ Acyclic'
  BY <1>2, LinksFrame DEF IInv
<1>6. QED
  BY <1>1, <1>2, <1>3, <1>4, <1>5

(* When the list is empty, no thread is attached, ... *)
LEMMA NoneAttached ==
    ASSUME TypeOK, Links, Acyclic, first = NoThread
    PROVE  \A t \in Threads : ~Attached(t)
<1>1. SUFFICES ASSUME NEW t \in Threads, Attached(t) PROVE FALSE
  OBVIOUS
<1>2. PICK rank \in [Threads -> Nat] :
          \A u \in Threads : prev[u] # NoThread => rank[prev[u]] < rank[u]
  BY DEF Acyclic
<1>3. PICK T \in SUBSET Nat : T = {rank[u] : u \in {v \in Threads : Attached(v)}}
  <2>1. {rank[u] : u \in {v \in Threads : Attached(v)}} \in SUBSET Nat
    BY <1>2
  <2>2. QED
    BY <2>1
<1>4. PICK m \in T : \A y \in T : ~(<<y, m>> \in OpToRel(<, Nat))
  <2>1. T # {}
    BY <1>1, <1>3
  <2>2. QED
    BY <2>1, WFMin, NatLessThanWellFounded
<1>5. \A y \in T : ~(y < m)
  BY <1>4 DEF OpToRel
<1>6. PICK u \in Threads : Attached(u) /\ rank[u] = m
  BY <1>3, <1>4
<1>7. prev[u] \in Threads /\ Attached(prev[u]) /\ rank[prev[u]] < rank[u]
  <2>1. prev[u] # NoThread /\ next[prev[u]] = u /\ prev[u] \in Threads
    BY <1>6, ThreadsAssumption DEF Links, TypeOK
  <2>2. Attached(prev[u])
    BY <1>6, <2>1, ThreadsAssumption DEF Links
  <2>3. QED
    BY <1>2, <1>6, <2>1, <2>2
<1>8. rank[prev[u]] \in T
  BY <1>3, <1>7
<1>9. QED
  BY <1>5, <1>6, <1>7, <1>8

(* ... so that, when the host meets it, all is quiet. *)
LEMMA QuietWhenEmpty ==
    ASSUME IInv, killer = "lock", first = NoThread
    PROVE  running = {} /\ \A a \in Actors : call[a] = Idle
<1>1. \A t \in Threads : ~Attached(t)
  BY NoneAttached DEF IInv
<1>2. \A t \in Threads : os[t] \notin {"check", "run"}
  BY <1>1 DEF IInv, Life, Attached
<1>3. ASSUME NEW a \in Actors PROVE call[a] = Idle
  <2>1. call[a].op = "none"
    <3>1. CASE a = Main
      BY <3>1 DEF IInv, HostInv
    <3>2. CASE a \in Threads
      BY <1>2, <3>2 DEF IInv, Actor
    <3>3. QED
      BY <3>1, <3>2 DEF Actors
  <2>2. QED
    BY <2>1, CallFields DEF IInv
<1>4. ASSUME NEW t \in running PROVE FALSE
  <2>1. t \in Threads
    BY DEF IInv, TypeOK
  <2>2. Beginning(t)
    BY <1>2, <2>1 DEF IInv, Life
  <2>3. QED
    BY <1>3, <2>2 DEF Beginning, Idle
<1>5. QED
  BY <1>3, <1>4

(* The host calls TerminateAllThreads. *)
LEMMA TerminateStep ==
    ASSUME IInv, Terminate
    PROVE  IInv'
<1>1. /\ TypeOK /\ killer = "script" /\ killer' = "lock" /\ call[Main] = Idle
      /\ UNCHANGED <<list, refs, known, freed, flags, running, os, call, victim, fault, early>>
  BY DEF IInv, Terminate, Runs
<1>2. /\ \A t \in Threads : (Attached(t)' <=> Attached(t)) /\ (Held(t)' <=> Held(t)) /\ Life(t)'
      /\ Single' /\ Links' /\ Acyclic'
  BY <1>1, HostFrame DEF Held
<1>3. TypeOK'
  BY <1>1 DEF TypeOK, list, flags, KillerStates
<1>4. \A t \in Threads : Counted(t)' /\ Gone(t)'
  BY <1>1, <1>2 DEF IInv, Counted, One, Gone
<1>5. \A a \in Actors : Actor(a)'
  BY <1>1 DEF IInv, Actor, Holds, flags
<1>6. HostInv' /\ Quiet'
  BY <1>1 DEF IInv, HostInv, Holds, Idle, Quiet
<1>7. QED
  BY <1>2, <1>3, <1>4, <1>5, <1>6 DEF IInv

(* The host takes the head of the list, with a reference, or returns. *)
LEMMA NextVictimStep ==
    ASSUME IInv, NextVictim, NEW h, h = first
    PROVE  IInv'
<1>1. /\ TypeOK /\ killer = "lock" /\ victim' = first
      /\ UNCHANGED <<list, known, freed, flags, running, os, call, fault, early>>
      /\ call[Main].op = "none" /\ \A t \in Threads : ~Held(t)
  BY DEF IInv, NextVictim, HostInv, Held
<1>2. /\ \A t \in Threads : /\ (Attached(t)' <=> Attached(t)) /\ Life(t)'
                            /\ (Spawning(t)' <=> Spawning(t))
      /\ Single' /\ Links' /\ Acyclic'
  BY <1>1, HostFrame
<1>3. CASE first = NoThread
  <2>1. killer' = "done" /\ refs' = refs
    BY <1>3 DEF NextVictim
  <2>2. \A t \in Threads : ~Held(t)'
    BY <2>1 DEF Held
  <2>3. TypeOK'
    BY <1>1, <2>1 DEF TypeOK, list, flags, KillerStates
  <2>4. \A t \in Threads : Counted(t)' /\ Gone(t)'
    BY <1>1, <1>2, <2>1, <2>2 DEF IInv, Counted, One, Gone
  <2>5. \A a \in Actors : Actor(a)'
    BY <1>1, <2>1 DEF IInv, Actor, Holds, flags
  <2>6. HostInv' /\ Quiet'
    BY <1>1, <1>3, <2>1, QuietWhenEmpty DEF IInv, HostInv, Holds, Quiet
  <2>7. QED
    BY <1>2, <2>3, <2>4, <2>5, <2>6 DEF IInv
<1>4. CASE first # NoThread
  <2>1. killer' = "force" /\ refs' = [refs EXCEPT ![h] = @ + 1]
    BY <1>4 DEF NextVictim
  <2>2. h \in Threads /\ Attached(h)
    BY <1>1, <1>4 DEF IInv, TypeOK, Links
  <2>3. /\ os[h] \in {"check", "run", "over"} \/ (Spawning(h) /\ os[h] = "none")
        /\ h \notin freed
    BY <2>2 DEF IInv, Attached, Spawning, In, Actor, Begins, Gone
  <2>4. Held(h)' /\ \A t \in Threads \ {h} : ~Held(t)'
    BY <1>1, <2>1 DEF Held
  <2>5. /\ refs' \in [Threads -> Int] /\ refs'[h] = refs[h] + 1
        /\ \A t \in Threads \ {h} : refs'[t] = refs[t]
    BY <1>1, <2>1, <2>2 DEF TypeOK
  <2>6. TypeOK'
    BY <1>1, <2>1, <2>5 DEF TypeOK, list, flags, KillerStates
  <2>7. \A t \in Threads : Counted(t)'
    <3>1. Counted(h)'
      BY <1>1, <1>2, <2>2, <2>4, <2>5 DEF IInv, Counted, One
    <3>2. \A t \in Threads \ {h} : Counted(t)'
      BY <1>1, <1>2, <2>4, <2>5 DEF IInv, Counted, One
    <3>3. QED
      BY <3>1, <3>2
  <2>8. \A t \in Threads : Gone(t)'
    BY <1>1, <2>3, <2>4 DEF IInv, Gone
  <2>9. \A a \in Actors : Actor(a)'
    BY <1>1, <2>1, <2>3 DEF IInv, Actor, Holds, flags
  <2>10. HostInv' /\ Quiet'
    BY <1>1, <1>2, <2>1, <2>2, <2>3 DEF IInv, HostInv, Holds, Quiet
  <2>11. QED
    BY <1>2, <2>6, <2>7, <2>8, <2>9, <2>10 DEF IInv
<1>5. QED
  BY <1>3, <1>4

(* The host sends interruptAbort to the thread, unless it has finished. *)
LEMMA ForceVictimStep ==
    ASSUME IInv, ForceVictim
    PROVE  IInv'
<1>1. /\ TypeOK /\ killer = "force" /\ killer' = "check" /\ call[Main].op = "none"
      /\ victim \in Threads /\ (os[victim] # "none" \/ Spawning(victim)) /\ Held(victim)
      /\ UNCHANGED <<list, refs, known, freed, async, finished, running, os, victim, fault, early>>
  BY DEF IInv, ForceVictim, HostInv, Holds, Held
<1>2. victim \notin freed
  BY <1>1 DEF IInv, Gone
<1>3. /\ call' \in [Actors -> Calls] /\ \A b \in Actors \ {Main} : call'[b] = call[b]
      /\ call'[Main] = call[Main] \/ call'[Main] = [op |-> "finish", of |-> victim]
      /\ signal' \in [Threads -> {"no", "throw", "abort"}]
  <2>1. CASE finished[victim]
    BY <1>1, <2>1 DEF ForceVictim, TypeOK
  <2>2. CASE ~finished[victim]
    BY <1>1, <2>2 DEF ForceVictim, ForceTermination, TypeOK, Calls, Ops, Actors
  <2>3. QED
    BY <2>1, <2>2
<1>4. \A t \in Threads : /\ (Beginning(t)' <=> Beginning(t)) /\ (Held(t)' <=> Held(t))
                         /\ (Spawning(t)' <=> Spawning(t))
  BY <1>1, <1>3 DEF Beginning, Spawning, In, Held
<1>5. \A t \in Threads : (Attached(t)' <=> Attached(t))
  BY <1>1, <1>4 DEF Attached
<1>6. TypeOK'
  BY <1>1, <1>3 DEF TypeOK, list, KillerStates
<1>7. \A t \in Threads : Life(t)' /\ Counted(t)' /\ Gone(t)'
  BY <1>1, <1>2, <1>3, <1>4, <1>5 DEF IInv, Life, Counted, One, Gone
<1>8. \A b \in Actors : Actor(b)'
  BY <1>1, <1>2, <1>3, ThreadsAssumption DEF IInv, Actor, Begins, Holds
<1>9. Single' /\ HostInv'
  <2>1. Single'
    BY <1>1, <1>3 DEF IInv, Single, Begins
  <2>2. HostInv'
    BY <1>1, <1>3, <1>4 DEF IInv, HostInv, Holds
  <2>3. QED
    BY <2>1, <2>2
<1>10. Links' /\ Acyclic'
  BY <1>1, <1>5, LinksFrame DEF IInv
<1>11. QED
  BY <1>1, <1>6, <1>7, <1>8, <1>9, <1>10 DEF IInv, Quiet

(* The host waits: a step between two places of WaitForThread. *)
LEMMA WaitStep ==
    ASSUME IInv, CheckVictim \/ FallAsleep
    PROVE  IInv'
<1>1. /\ TypeOK /\ killer \in {"check", "block"} /\ call[Main].op = "none"
      /\ killer' \in {"release", "block", "asleep"} /\ (killer' = "release" => finished[victim])
      /\ UNCHANGED <<list, refs, known, freed, flags, running, os, call, victim, fault, early>>
  BY DEF IInv, CheckVictim, FallAsleep, HostInv, Idle
<1>2. /\ \A t \in Threads : /\ (Attached(t)' <=> Attached(t)) /\ (Held(t)' <=> Held(t)) /\ Life(t)'
                            /\ (Spawning(t)' <=> Spawning(t))
      /\ Single' /\ Links' /\ Acyclic'
  BY <1>1, HostFrame DEF Held
<1>3. TypeOK'
  BY <1>1 DEF TypeOK, list, flags, KillerStates
<1>4. \A t \in Threads : Counted(t)' /\ Gone(t)'
  BY <1>1, <1>2 DEF IInv, Counted, One, Gone
<1>5. \A a \in Actors : Actor(a)'
  BY <1>1 DEF IInv, Actor, Holds, flags
<1>6. HostInv' /\ Quiet'
  BY <1>1, <1>2 DEF IInv, HostInv, Holds, Quiet, flags
<1>7. QED
  BY <1>2, <1>3, <1>4, <1>5, <1>6 DEF IInv

(* The host gives its reference back. *)
LEMMA ReleaseStep ==
    ASSUME IInv, ReleaseVictim, NEW v, v = victim
    PROVE  IInv'
<1>1. /\ TypeOK /\ killer = "release" /\ call[Main].op = "none" /\ finished[victim]
      /\ victim \in Threads /\ (os[victim] # "none" \/ Spawning(victim)) /\ Held(victim)
      /\ refs' = [refs EXCEPT ![victim] = @ - 1]
      /\ killer' = (IF refs[victim] = 1 THEN "join" ELSE "lock")
      /\ UNCHANGED <<list, known, freed, flags, running, os, call, victim, fault, early>>
  BY DEF IInv, ReleaseVictim, HostInv, Holds, Held
<1>2. /\ \A t \in Threads : /\ (Attached(t)' <=> Attached(t)) /\ Life(t)'
                            /\ (Spawning(t)' <=> Spawning(t))
      /\ Single' /\ Links' /\ Acyclic'
  BY <1>1, HostFrame
<1>3. \A t \in Threads : ~Held(t)' /\ (Held(t) <=> t = victim)
  BY <1>1 DEF Held
<1>4. refs[victim] = 1 + One(victim \in known) + One(Attached(victim)) /\ victim \notin freed
  BY <1>1 DEF IInv, Counted, One, Gone
<1>5. refs[victim] = 1 => victim \notin known /\ os[victim] = "ended"
  <2>1. refs[victim] = 1 => victim \notin known /\ ~Attached(victim)
    BY <1>4 DEF One
  <2>2. ~Attached(victim) => os[victim] # "none"
    BY <1>1 DEF Attached
  <2>3. os[victim] \in OsStates /\ os[victim] \notin {"check", "run", "over", "flag"}
    BY <1>1 DEF IInv, TypeOK, Life
  <2>4. QED
    BY <2>1, <2>2, <2>3 DEF OsStates
<1>6. /\ refs' \in [Threads -> Int] /\ refs'[victim] = refs[victim] - 1
      /\ \A t \in Threads \ {victim} : refs'[t] = refs[t]
  BY <1>1, <1>4 DEF TypeOK, One
<1>7. TypeOK'
  BY <1>1, <1>6 DEF TypeOK, list, flags, KillerStates
<1>8. \A t \in Threads : Counted(t)' /\ Gone(t)'
  <2>1. Counted(v)'
    BY <1>1, <1>2, <1>3, <1>4, <1>6 DEF Counted, One
  <2>2. \A t \in Threads \ {v} : Counted(t)'
    BY <1>1, <1>2, <1>3, <1>6 DEF IInv, Counted, One
  <2>3. \A t \in Threads : Gone(t)'
    BY <1>1, <1>3 DEF IInv, Gone
  <2>4. QED
    BY <2>1, <2>2, <2>3
<1>9. \A a \in Actors : Actor(a)'
  BY <1>1 DEF IInv, Actor, Holds, flags
<1>10. HostInv' /\ Quiet'
  BY <1>1, <1>4, <1>5 DEF IInv, HostInv, Holds, Quiet, flags
<1>11. QED
  BY <1>2, <1>7, <1>8, <1>9, <1>10 DEF IInv

(* It was the last one: the host has joined the OS thread. *)
LEMMA JoinStep ==
    ASSUME IInv, JoinVictim
    PROVE  IInv'
<1>1. /\ TypeOK /\ killer = "join" /\ call[Main].op = "none" /\ victim \in Threads
      /\ victim \notin known \cup freed /\ os[victim] = "ended" /\ \A t \in Threads : ~Held(t)
      /\ freed' = freed \cup {victim} /\ killer' = "lock"
      /\ UNCHANGED <<list, refs, known, flags, running, os, call, victim, fault, early>>
  BY DEF IInv, JoinVictim, HostInv, Holds, Held
<1>2. \A t \in Threads : /\ (Beginning(t)' <=> Beginning(t)) /\ (Spawning(t)' <=> Spawning(t))
                         /\ ~Held(t)'
  BY <1>1 DEF Beginning, Spawning, In, Held
<1>3. \A t \in Threads : (Attached(t)' <=> Attached(t))
  BY <1>1, <1>2 DEF Attached, flags
<1>4. \A a \in Actors : call[a].of # victim
  <2>1. SUFFICES ASSUME NEW a \in Actors, call[a].of = victim PROVE FALSE
    OBVIOUS
  <2>2. call[a].op # "none" /\ call[a].op # "join"
    BY <1>1, <2>1, CallFields DEF IInv, Actor
  <2>3. QED
    BY <1>1, <2>1, <2>2 DEF IInv, Actor
<1>5. TypeOK'
  BY <1>1 DEF TypeOK, list, flags, KillerStates
<1>6. \A t \in Threads : Life(t)' /\ Counted(t)' /\ Gone(t)'
  BY <1>1, <1>2, <1>3, <1>4 DEF IInv, Life, Counted, One, Gone, flags
<1>7. \A a \in Actors : Actor(a)'
  BY <1>1, <1>4 DEF IInv, Actor, Holds, flags
<1>8. Single' /\ HostInv' /\ Quiet'
  BY <1>1 DEF IInv, Single, HostInv, Holds, Quiet
<1>9. Links' /\ Acyclic'
  BY <1>1, <1>3, LinksFrame DEF IInv
<1>10. QED
  BY <1>5, <1>6, <1>7, <1>8, <1>9 DEF IInv

-----------------------------------------------------------------------------
(* The invariant. *)

(* What scripts do with a thread. *)
LEMMA ScriptStep ==
    ASSUME IInv, NEW a \in Actors, Script(a)
    PROVE  IInv'
<1>1. PICK t \in Threads : BeginAsync(a, t) \/ Finish(a, t) \/ Throw(a, t) \/ WaitFor(a, t)
                           \/ Drop(a, t)
  BY DEF Script
<1>2. CASE BeginAsync(a, t)
  BY <1>2, BeginAsyncStep
<1>3. CASE Drop(a, t)
  BY <1>3, DropStep
<1>4. CASE Finish(a, t) \/ Throw(a, t) \/ WaitFor(a, t)
  <2>1. /\ call[a].op = "none" /\ killer # "done" /\ (a = Main => killer = "script")
        /\ a \in Threads => os[a] = "run"
    BY <1>4, RunsIs DEF Finish, Throw, WaitFor
  <2>2. PICK o \in {"finish", "throw", "wait"} :
          call' = [call EXCEPT ![a] = [op |-> o, of |-> t]]
    BY <1>4 DEF Finish, ForceTermination, Throw, WaitFor
  <2>3. /\ t \in known
        /\ UNCHANGED <<list, refs, known, freed, async, finished, running, os, killer, victim, fault, early>>
    BY <1>4 DEF Finish, Throw, WaitFor, flags
  <2>4. signal' \in [Threads -> {"no", "throw", "abort"}]
    BY <1>4 DEF IInv, TypeOK, Finish, ForceTermination, Throw, WaitFor, flags
  <2>5. PICK x \in Calls : x = [op |-> o, of |-> t]
    BY DEF Calls, Ops
  <2>6. x.op = o /\ x.of = t /\ call' = [call EXCEPT ![a] = x]
    BY <2>2, <2>5
  <2>7. QED
    BY <2>1, <2>3, <2>4, <2>6, QuietCall
<1>5. QED
  BY <1>1, <1>2, <1>3, <1>4

(* An actor leaves a native function that changes at most a signal. *)
LEMMA ReturnStep ==
    ASSUME IInv, ~early', NEW a \in Actors, FinishProceed(a) \/ Thrown(a) \/ WaitedFor(a)
                                   \/ (a \in Threads /\ Catch(a))
    PROVE  IInv'
<1>1. /\ TypeOK /\ call[a].op \in {"none", "finish", "throw", "wait"}
      /\ call' = [call EXCEPT ![a] = Idle]
      /\ UNCHANGED <<list, refs, known, freed, async, finished, running, os, killer, victim, fault, early>>
  BY DEF IInv, Actor, FinishProceed, Thrown, WaitedFor, Catch, Returns, In, flags
<1>2. signal' \in [Threads -> {"no", "throw", "abort"}]
  BY <1>1 DEF TypeOK, FinishProceed, Thrown, WaitedFor, Catch, flags
<1>3. Idle \in Calls /\ Idle.op = "none"
  BY DEF Calls, Idle
<1>4. QED
  BY <1>1, <1>2, <1>3, QuietCall

(* The OS thread of t: a slice, its end, the end of the function. *)
LEMMA SliceStep ==
    ASSUME IInv, NEW t \in Threads,
           Slice(t) \/ Yield(t) \/ Return(t) \/ Abort(t) \/ EndAgain(t)
    PROVE  IInv'
<1>1. /\ os[t] \in {"check", "run"} /\ t \in Actors /\ ~finished[t] /\ t \in running
      /\ call[t].op \in {"none", "wait"}
  <2>1. os[t] \in {"check", "run"} /\ t \in Actors /\ ~finished[t] /\ t \in running
    BY DEF IInv, Life, Actors, Slice, Yield, Return, Abort, EndAgain
  <2>2. os[t] = "check" => call[t].op \in {"none", "wait"}
    BY <2>1 DEF IInv, Actor
  <2>3. QED
    BY <2>1, <2>2 DEF Slice, Yield, Return, Abort, EndAgain, Idle
<1>2. CASE Slice(t) \/ Yield(t)
  <2>1. PICK x \in {"check", "run"} : os' = [os EXCEPT ![t] = x]
    BY <1>1, <1>2 DEF Slice, Yield
  <2>2. UNCHANGED <<list, refs, known, freed, flags, running, call, killer, victim, fault, early>>
    BY <1>2 DEF Slice, Yield
  <2>3. QED
    BY <1>1, <2>1, <2>2, OsStep
<1>3. CASE Return(t) \/ Abort(t) \/ EndAgain(t)
  <2>1. FinishFunction(t)
    BY <1>3 DEF Return, Abort, EndAgain
  <2>2. /\ os' = [os EXCEPT ![t] = "over"] /\ running' = running \ {t}
        /\ call' = [call EXCEPT ![t] = Idle]
        /\ UNCHANGED <<list, refs, known, freed, flags, killer, victim, fault, early>>
    BY <2>1 DEF FinishFunction, Returns
  <2>3. QED
    BY <1>1, <2>2, OsStep
<1>4. QED
  BY <1>2, <1>3

(* No thread has begun. *)
LEMMA InitInvariant ==
    ASSUME Init
    PROVE  IInv
<1>1. Idle \in Calls /\ Idle.op = "none" /\ \A t \in Threads : Idle.of # t
  BY ThreadsAssumption DEF Calls, Idle
<1>2. \A t \in Threads : ~Beginning(t) /\ ~Spawning(t) /\ ~Attached(t) /\ ~Held(t)
  BY <1>1 DEF Init, Beginning, Spawning, In, Attached, Held
<1>3. TypeOK
  <2>1. refs \in [Threads -> Int] /\ call \in [Actors -> Calls] /\ early \in BOOLEAN
    <3>1. \A t \in Threads : 1 \in Int
      OBVIOUS
    <3>2. QED
      BY <1>1, <3>1, Zenon DEF Init
  <2>2. QED
    BY <2>1 DEF Init, TypeOK, OsStates, KillerStates
<1>4. \A t \in Threads : Life(t) /\ Gone(t) /\ Counted(t)
  BY <1>1, <1>2 DEF Init, Life, Gone, Counted, One
<1>5. \A a \in Actors : Actor(a)
  BY <1>1 DEF Init, Actor, Begins
<1>6. Single /\ HostInv /\ Quiet
  BY <1>1 DEF Init, Single, Begins, HostInv, Holds, Quiet, Actors
<1>7. Links
  BY <1>2, ThreadsAssumption DEF Init, Links
<1>8. Acyclic
  <2>1. [t \in Threads |-> 0] \in [Threads -> Nat]
    OBVIOUS
  <2>2. \A t \in Threads : prev[t] = NoThread
    BY DEF Init
  <2>3. QED
    BY <2>1, <2>2 DEF Acyclic
<1>9. QED
  BY <1>3, <1>4, <1>5, <1>6, <1>7, <1>8 DEF IInv

(* A reference more or less. *)
LEMMA RefsType ==
    ASSUME NEW r \in [Threads -> Int], NEW t
    PROVE  /\ [r EXCEPT ![t] = @ + 1] \in [Threads -> Int]
           /\ [r EXCEPT ![t] = @ - 1] \in [Threads -> Int]
<1>1. ASSUME t \in Threads PROVE r[t] \in Int /\ r[t] + 1 \in Int /\ r[t] - 1 \in Int
  BY <1>1
<1>2. CASE t \in Threads
  BY <1>1, <1>2
<1>3. CASE t \notin Threads
  BY <1>3
<1>4. QED
  BY <1>2, <1>3

(* The types hold whatever has happened, ... *)
LEMMA TypeStep ==
    ASSUME TypeOK, HasVictim, [Next]_vars
    PROVE  TypeOK'
<1>1. /\ Idle \in Calls
      /\ \A t \in Threads, o \in Ops : [op |-> o, of |-> t] \in Calls
  BY DEF Calls
<1>2. ASSUME NEW a \in Actors, call[a].op # "none"
      PROVE  /\ call[a].of \in Threads
             /\ \A o \in Ops : [call EXCEPT ![a].op = o] \in [Actors -> Calls]
  <2>1. call[a] \in [op : Ops, of : Threads]
    BY <1>2 DEF TypeOK, Calls, Idle
  <2>2. QED
    BY <2>1 DEF TypeOK, Calls
<1>3. ASSUME NEW a \in Actors, Script(a) PROVE TypeOK'
  <2>1. PICK t \in Threads : BeginAsync(a, t) \/ Finish(a, t) \/ Throw(a, t) \/ WaitFor(a, t)
                             \/ Drop(a, t)
    BY <1>3 DEF Script
  <2>2. CASE BeginAsync(a, t)
    BY <1>1, <2>2 DEF TypeOK, BeginAsync, list, Ops
  <2>3. CASE Finish(a, t) \/ Throw(a, t) \/ WaitFor(a, t)
    BY <1>1, <2>3 DEF TypeOK, Finish, ForceTermination, Throw, WaitFor, list, flags, Ops
  <2>4. CASE Drop(a, t)
    <3>1. /\ known' \subseteq Threads /\ freed' \subseteq Threads /\ call' \in [Actors -> Calls]
      BY <1>1, <2>4 DEF TypeOK, Drop, Ops
    <3>2. refs' \in [Threads -> Int]
      BY <2>4, RefsType DEF TypeOK, Drop
    <3>3. QED
      BY <2>4, <3>1, <3>2 DEF TypeOK, Drop, list, flags
  <2>5. QED
    BY <2>1, <2>2, <2>3, <2>4
<1>4. ASSUME NEW a \in Actors, Begin(a) PROVE TypeOK'
  <2>1. CASE ClearAsync(a)
    BY <1>2, <2>1 DEF TypeOK, ClearAsync, In, Goes, list, Ops
  <2>2. CASE Attach(a)
    <3>1. call[a].of \in Threads /\ call' \in [Actors -> Calls]
      BY <1>2, <2>2 DEF Attach, In, Goes, Ops
    <3>2. /\ first' \in Threads /\ refs' \in [Threads -> Int]
          /\ prev' \in [Threads -> Threads \cup {NoThread}]
          /\ next' \in [Threads -> Threads \cup {NoThread}]
      BY <2>2, <3>1 DEF TypeOK, Attach, AttachThread
    <3>3. QED
      BY <2>2, <3>1, <3>2 DEF TypeOK, Attach, flags
  <2>3. CASE Spawn(a)
    BY <1>1, <2>3 DEF TypeOK, Spawn, Returns, list, flags, OsStates
  <2>4. QED
    BY <1>4, <2>1, <2>2, <2>3 DEF Begin
<1>5. ASSUME NEW a \in Actors, NEW t \in Threads, LeaveList(a, t)
      PROVE  /\ first' \in Threads \cup {NoThread} /\ refs' \in [Threads -> Int]
             /\ prev' \in [Threads -> Threads \cup {NoThread}]
             /\ next' \in [Threads -> Threads \cup {NoThread}]
             /\ freed' \subseteq Threads /\ fault' \in BOOLEAN
  <2>1. CASE async[t]
    BY <1>5, <2>1 DEF TypeOK, LeaveList, list
  <2>2. CASE ~async[t]
    BY <1>5, <2>2 DEF TypeOK, LeaveList, DetachThread, NextWithout, PrevWithout
  <2>3. QED
    BY <2>1, <2>2
<1>6. ASSUME NEW a \in Actors, Completes(a) PROVE TypeOK'
  <2>1. CASE FinishProceed(a)
    <3>1. /\ call' \in [Actors -> Calls] /\ running' \subseteq Threads /\ early' \in BOOLEAN
      BY <1>1, <1>2, <2>1 DEF TypeOK, FinishProceed, Returns, Goes, In, Ops
    <3>2. QED
      BY <2>1, <3>1 DEF TypeOK, FinishProceed, list, flags
  <2>2. CASE FinishLeaveList(a)
    <3>1. call[a].of \in Threads /\ call' \in [Actors -> Calls]
      BY <1>2, <2>2 DEF FinishLeaveList, In, Goes, Ops
    <3>2. LeaveList(a, call[a].of)
      BY <2>2 DEF FinishLeaveList
    <3>3. QED
      BY <1>5, <2>2, <3>1, <3>2 DEF TypeOK, FinishLeaveList, flags
  <2>3. CASE FinishFlag(a)
    BY <1>1, <2>3 DEF TypeOK, FinishFlag, SetFinished, Returns, list, KillerStates
  <2>4. CASE Thrown(a) \/ WaitedFor(a)
    BY <1>1, <2>4 DEF TypeOK, Thrown, WaitedFor, Returns, list, flags
  <2>5. CASE Joined(a)
    BY <1>1, <1>2, <2>5 DEF TypeOK, Joined, In, Returns, list, flags
  <2>6. QED
    BY <1>4, <1>6, <2>1, <2>2, <2>3, <2>4, <2>5 DEF Completes, Finishing
<1>7. ASSUME NEW t \in Threads, Loop(t) \/ Yield(t) \/ Return(t) \/ Abort(t) \/ Catch(t)
      PROVE  TypeOK'
  <2>1. t \in Actors
    BY DEF Actors
  <2>2. CASE Slice(t) \/ Yield(t)
    BY <2>2 DEF TypeOK, Slice, Yield, list, flags, OsStates
  <2>3. CASE EndAgain(t) \/ Return(t) \/ Abort(t)
    BY <1>1, <2>3 DEF TypeOK, EndAgain, Return, Abort, FinishFunction, Returns, list, flags, OsStates
  <2>4. CASE OnFinished(t)
    <3>1. LeaveList(t, t) /\ os' = [os EXCEPT ![t] = "flag"]
      BY <2>4 DEF OnFinished
    <3>2. QED
      BY <1>5, <2>1, <2>4, <3>1 DEF TypeOK, OnFinished, flags, OsStates
  <2>5. CASE Flag(t)
    BY <2>5 DEF TypeOK, Flag, SetFinished, list, OsStates, KillerStates
  <2>6. CASE Catch(t)
    BY <1>1, <2>6 DEF TypeOK, Catch, Returns, list
  <2>7. QED
    BY <1>7, <2>2, <2>3, <2>4, <2>5, <2>6 DEF Loop
<1>8. CASE Terminate \/ TerminateAllThreads
  <2>1. CASE Terminate
    BY <2>1 DEF TypeOK, Terminate, list, flags, KillerStates
  <2>2. CASE NextVictim
    BY <2>2 DEF TypeOK, NextVictim, list, flags, KillerStates
  <2>3. CASE ForceVictim
    <3>1. Main \in Actors /\ (call' = call \/ call' = [call EXCEPT ![Main] = [op |-> "finish", of |-> victim]])
      BY <2>3 DEF ForceVictim, ForceTermination, Actors
    <3>2. victim \in Threads
      BY <2>3 DEF HasVictim, Holds, ForceVictim
    <3>3. QED
      BY <1>1, <2>3, <3>1, <3>2 DEF TypeOK, ForceVictim, ForceTermination, list, KillerStates, Ops
  <2>4. CASE CheckVictim \/ FallAsleep
    BY <2>4 DEF TypeOK, CheckVictim, FallAsleep, list, flags, KillerStates
  <2>5. CASE ReleaseVictim
    <3>1. refs' \in [Threads -> Int]
      BY <2>5, RefsType DEF TypeOK, ReleaseVictim
    <3>2. QED
      BY <2>5, <3>1 DEF TypeOK, ReleaseVictim, list, flags, KillerStates
  <2>6. CASE JoinVictim
    <3>1. victim \in Threads
      BY <2>6 DEF HasVictim, Holds, JoinVictim
    <3>2. QED
      BY <2>6, <3>1 DEF TypeOK, JoinVictim, list, flags, KillerStates
  <2>7. QED
    BY <1>8, <2>1, <2>2, <2>3, <2>4, <2>5, <2>6 DEF TerminateAllThreads
<1>9. CASE UNCHANGED vars
  BY <1>9 DEF TypeOK, vars
<1>10. QED
  BY <1>3, <1>6, <1>7, <1>8, <1>9 DEF Next

(* ... and so does that the host has a victim. *)
LEMMA VictimStep ==
    ASSUME TypeOK, HasVictim, [Next]_vars
    PROVE  HasVictim'
<1>1. ASSUME UNCHANGED <<killer, victim>> PROVE HasVictim'
  BY <1>1 DEF HasVictim
<1>2. ASSUME NEW a \in Actors, Script(a) \/ Completes(a) PROVE HasVictim'
  <2>1. UNCHANGED <<killer, victim>> \/ FinishFlag(a)
    BY <1>2 DEF Script, BeginAsync, Finish, Throw, WaitFor, Drop, Completes, Begin, ClearAsync,
                Attach, Spawn, Finishing, FinishProceed, FinishLeaveList, Thrown, WaitedFor, Joined
  <2>2. CASE FinishFlag(a)
    BY <2>2 DEF FinishFlag, SetFinished, HasVictim, Holds
  <2>3. QED
    BY <1>1, <2>1, <2>2
<1>3. ASSUME NEW t \in Threads, Loop(t) \/ Yield(t) \/ Return(t) \/ Abort(t) \/ Catch(t)
      PROVE  HasVictim'
  <2>1. UNCHANGED <<killer, victim>> \/ Flag(t)
    BY <1>3 DEF Loop, Slice, EndAgain, OnFinished, Yield, Return, Abort, Catch, FinishFunction
  <2>2. CASE Flag(t)
    BY <2>2 DEF Flag, SetFinished, HasVictim, Holds
  <2>3. QED
    BY <1>1, <2>1, <2>2
<1>4. CASE NextVictim
  BY <1>4 DEF NextVictim, HasVictim, Holds, TypeOK
<1>5. CASE Terminate \/ ForceVictim \/ CheckVictim \/ FallAsleep \/ ReleaseVictim \/ JoinVictim
  BY <1>5 DEF Terminate, ForceVictim, CheckVictim, FallAsleep, ReleaseVictim, JoinVictim,
              HasVictim, Holds
<1>6. CASE UNCHANGED vars
  BY <1>1, <1>6 DEF vars
<1>7. QED
  BY <1>2, <1>3, <1>4, <1>5, <1>6 DEF Next, TerminateAllThreads

(* Every step preserves the invariant, unless finish() meets a begin(). *)
LEMMA NextInvariant ==
    ASSUME IInv, Next, ~early'
    PROVE  IInv' /\ Orphan'
<1>1. ASSUME NEW a \in Actors, Script(a) PROVE IInv' /\ fault' = fault
  <2>1. fault' = fault
    BY <1>1 DEF Script, BeginAsync, Finish, Throw, WaitFor, Drop
  <2>2. QED
    BY <1>1, <2>1, ScriptStep
<1>2. ASSUME NEW a \in Actors, Completes(a) PROVE IInv' /\ fault' = fault
  <2>1. call[a].op \notin {"finish2", "finish3"}
    BY DEF IInv, Actor
  <2>2. ~FinishLeaveList(a) /\ ~FinishFlag(a)
    BY <2>1 DEF FinishLeaveList, FinishFlag, In
  <2>3. fault' = fault
    BY <1>2, <2>2 DEF Completes, Begin, Finishing, ClearAsync, Attach, Spawn, FinishProceed,
                      Thrown, WaitedFor, Joined
  <2>4. CASE ClearAsync(a)
    BY <2>3, <2>4, ClearAsyncStep
  <2>5. CASE Attach(a)
    BY <2>3, <2>5, AttachStep
  <2>6. CASE Spawn(a)
    BY <2>3, <2>6, SpawnStep
  <2>7. CASE Joined(a)
    BY <2>3, <2>7, JoinedStep
  <2>8. CASE FinishProceed(a) \/ Thrown(a) \/ WaitedFor(a)
    BY <2>3, <2>8, ReturnStep
  <2>9. QED
    BY <1>2, <2>2, <2>4, <2>5, <2>6, <2>7, <2>8 DEF Completes, Begin, Finishing
<1>3. ASSUME NEW t \in Threads, Loop(t) \/ Yield(t) \/ Return(t) \/ Abort(t) \/ Catch(t)
      PROVE  IInv' /\ (fault' = fault \/ Orphan')
  <2>1. CASE Slice(t) \/ EndAgain(t) \/ Yield(t) \/ Return(t) \/ Abort(t)
    <3>1. fault' = fault
      BY <2>1 DEF Slice, EndAgain, Yield, Return, Abort, FinishFunction
    <3>2. QED
      BY <2>1, <3>1, SliceStep
  <2>2. CASE OnFinished(t)
    BY <2>2, OnFinishedStep
  <2>3. CASE Flag(t)
    BY <2>3, FlagStep DEF Flag
  <2>4. CASE Catch(t)
    BY <2>4, ReturnStep DEF Actors, Catch
  <2>5. QED
    BY <1>3, <2>1, <2>2, <2>3, <2>4 DEF Loop
<1>4. ASSUME Terminate PROVE IInv' /\ fault' = fault
  BY <1>4, TerminateStep DEF Terminate
<1>5. ASSUME TerminateAllThreads PROVE IInv' /\ fault' = fault
  <2>1. fault' = fault
    BY <1>5 DEF TerminateAllThreads, NextVictim, ForceVictim, CheckVictim, FallAsleep,
                ReleaseVictim, JoinVictim
  <2>2. IInv'
    BY <1>5, NextVictimStep, ForceVictimStep, WaitStep, ReleaseStep, JoinStep
       DEF TerminateAllThreads
  <2>3. QED
    BY <2>1, <2>2
<1>6. ~fault
  BY DEF Next
<1>7. IInv' /\ (fault' = fault \/ Orphan')
  BY <1>1, <1>2, <1>3, <1>4, <1>5 DEF Next
<1>8. QED
  BY <1>6, <1>7 DEF Orphan

(* finish() that has met a begin() is never forgotten. *)
LEMMA EarlyStays ==
    ASSUME early, [Next]_vars
    PROVE  early'
<1>1. ASSUME NEW a \in Actors, Script(a) \/ Completes(a) PROVE early'
  BY <1>1 DEF Script, BeginAsync, Finish, Throw, WaitFor, Drop, Completes, Begin, ClearAsync,
              Attach, Spawn, Finishing, FinishProceed, FinishLeaveList, FinishFlag, Thrown,
              WaitedFor, Joined
<1>2. ASSUME NEW t \in Threads, Loop(t) \/ Yield(t) \/ Return(t) \/ Abort(t) \/ Catch(t)
      PROVE  early'
  BY <1>2 DEF Loop, Slice, EndAgain, OnFinished, Flag, Yield, Return, Abort, Catch, FinishFunction
<1>3. CASE Terminate \/ TerminateAllThreads
  BY <1>3 DEF Terminate, TerminateAllThreads, NextVictim, ForceVictim, CheckVictim, FallAsleep,
              ReleaseVictim, JoinVictim
<1>4. CASE UNCHANGED vars
  BY <1>4 DEF vars
<1>5. QED
  BY <1>1, <1>2, <1>3, <1>4 DEF Next

(* A step that changes nothing. *)
LEMMA StutterInvariant ==
    ASSUME IInv, Orphan, UNCHANGED vars
    PROVE  IInv' /\ Orphan'
<1>1. /\ \A t \in Threads : /\ (Beginning(t)' <=> Beginning(t)) /\ (Spawning(t)' <=> Spawning(t))
                            /\ (Attached(t)' <=> Attached(t)) /\ Life(t)' /\ (Held(t)' <=> Held(t))
      /\ Single' /\ Links' /\ Acyclic'
  BY HostFrame DEF vars, list, flags, Held
<1>2. /\ TypeOK'
      /\ \A t \in Threads : Gone(t)' /\ Counted(t)'
  BY <1>1 DEF IInv, TypeOK, vars, Gone, Counted, One
<1>3. (\A a \in Actors : Actor(a)') /\ HostInv' /\ Quiet' /\ Orphan'
  BY <1>1 DEF IInv, Actor, vars, HostInv, Quiet, Orphan
<1>4. QED
  BY <1>1, <1>2, <1>3 DEF IInv

LEMMA Invariance == Spec => []EarlyInv
<1>1. Init => EarlyInv
  BY InitInvariant DEF EarlyInv, IInv, Init, Orphan, HasVictim, Holds
<1>2. EarlyInv /\ [Next]_vars => EarlyInv'
  <2>1. SUFFICES ASSUME EarlyInv, [Next]_vars, ~early' PROVE IInv' /\ Orphan'
    BY TypeStep, VictimStep DEF EarlyInv
  <2>2. IInv /\ Orphan
    BY <2>1, EarlyStays DEF EarlyInv
  <2>3. CASE Next
    BY <2>1, <2>2, <2>3, NextInvariant
  <2>4. CASE UNCHANGED vars
    BY <2>2, <2>4, StutterInvariant
  <2>5. QED
    BY <2>1, <2>3, <2>4
<1>3. QED
  BY <1>1, <1>2, PTL DEF Spec

-----------------------------------------------------------------------------
(* Every variable keeps its type. *)
THEOREM ThreadsTypeCorrect == Spec => []TypeOK
<1>1. EarlyInv => TypeOK
  BY DEF EarlyInv
<1>2. QED
  BY <1>1, Invariance, PTL

(* AttachThread and DetachThread keep the list of the machine: it holds the threads   *)
(* that have begun and not ended, linked both ways, as long as finish() does not meet  *)
(* a begin() whose m_flagAsync it takes for that of a Task.                            *)
THEOREM ListIsKept == Spec => []ListHoldsAttached
<1>1. EarlyInv => ListHoldsAttached
  BY DEF EarlyInv, IInv, Links, ListHoldsAttached
<1>2. QED
  BY <1>1, Invariance, PTL

(* AddRef and ReleaseRef of variables, list and host balance, under the same          *)
(* condition: an object is deleted when nothing refers to it, and its OS thread has    *)
(* ended.                                                                            *)
THEOREM CountsAreExact == Spec => []RefsCounted
<1>1. EarlyInv => RefsCounted
  <2>1. SUFFICES ASSUME IInv, NEW t \in Threads
                 PROVE  /\ refs[t] = Cardinality({h \in {"script", "list", "host"} :
                                \/ h = "script" /\ t \in known
                                \/ h = "list" /\ Attached(t)
                                \/ h = "host" /\ Held(t)})
                        /\ t \in freed => /\ refs[t] = 0
                                          /\ os[t] \in {"none", "ended"}
                                          /\ \A a \in Actors : call[a].of # t
    BY DEF RefsCounted, EarlyInv
  <2>2. (t \in known) \in BOOLEAN /\ Attached(t) \in BOOLEAN /\ Held(t) \in BOOLEAN
    BY DEF Attached, Held
  <2>3. Cardinality({h \in {"script", "list", "host"} :
                         \/ h = "script" /\ t \in known
                         \/ h = "list" /\ Attached(t)
                         \/ h = "host" /\ Held(t)})
        = One(t \in known) + One(Attached(t)) + One(Held(t))
    BY <2>2, CountedIs
  <2>4. Counted(t) /\ Gone(t)
    BY <2>1 DEF IInv
  <2>5. t \in freed => ~Attached(t)
    BY <2>4 DEF Gone, Attached, Spawning
  <2>6. QED
    BY <2>3, <2>4, <2>5 DEF Counted, Gone, One
<1>2. QED
  BY <1>1, Invariance, PTL

(* TerminateAllThreads returns only when nothing of the machine runs any more, under  *)
(* the same condition.                                                               *)
THEOREM TerminationLeavesQuiet == Spec => []QuietAfterTermination
<1>1. EarlyInv => QuietAfterTermination
  BY DEF EarlyInv, IInv, Quiet, QuietAfterTermination
<1>2. QED
  BY <1>1, Invariance, PTL

(* A thread that WaitForThread has seen finished has left the list, under the same    *)
(* condition.                                                                        *)
THEOREM WaitedHasLeft == Spec => []WaitedIsDetached
<1>1. EarlyInv => WaitedIsDetached
  <2>1. SUFFICES ASSUME IInv, killer = "release"
                 PROVE  first # victim /\ prev[victim] = NoThread
    BY DEF WaitedIsDetached, EarlyInv
  <2>2. victim \in Threads /\ finished[victim]
    BY <2>1 DEF IInv, HostInv, Holds
  <2>3. ~Spawning(victim)
    BY <2>1, <2>2 DEF IInv, Actor, Begins, Spawning, In
  <2>4. ~Attached(victim)
    BY <2>2, <2>3 DEF Attached
  <2>5. QED
    BY <2>1, <2>2, <2>4 DEF IInv, Links
<1>2. QED
  BY <1>1, Invariance, PTL

(* An OS thread deletes the object it belongs to, and joins itself, only when no        *)
(* variable, no native function and no host refers to it: whoever holds a reference     *)
(* keeps the process from this end.                                                    *)
THEOREM OnlyOrphansJoinThemselves == Spec => []SelfJoinIsOrphan
<1>1. EarlyInv => SelfJoinIsOrphan
  BY DEF EarlyInv, Orphan, SelfJoinIsOrphan
<1>2. QED
  BY <1>1, Invariance, PTL
=============================================================================
