---------------------------- MODULE LibraryProof ----------------------------
(***************************************************************************)
(* The properties of two classes of the library.  Maps, for any number of  *)
(* threads, names and values, if scripts remove and assign under           *)
(* synchronized (Orderly).  Dates, for every year.                         *)
(***************************************************************************)
EXTENDS Maps, Calendar, TLAPS

(* What scripts have to do; with an empty Exclusive both properties fail. *)
Removing == {"removeAt", "removeAs"}
Orderly == Removing \cup {"assign"} \subseteq Exclusive

(* The index x names each of n elements once, and nothing else. *)
Match(x, n) ==
    /\ x \in [Names -> 0 .. n]
    /\ \A i \in 1 .. n : \E m \in Names : x[m] = i
    /\ \A m, k \in Names : x[m] = x[k] /\ x[m] # 0 => m = k

Phases == {"start", "locked", "take", "erase", "renumber", "clear", "names", "elements"}

MapTypeOK ==
    /\ array \in Seq(Values)
    /\ index \in [Names -> Nat]
    /\ mtxMap \in Clients \cup {Null}
    /\ request \in [Clients -> Calls \cup {Idle}]
    /\ phase \in [Clients -> Phases]
    /\ found \in [Clients -> Nat]
    /\ out = [t \in Clients |-> out[t]]

(* The position a thread in removeAt or removeAs has to work on. *)
Sought(t) == IF request[t].op = "removeAs" THEN index[request[t].name] ELSE request[t].pos

(* What a thread knows in each phase of its operation. *)
ClientInv(t) ==
    /\ request[t] = Idle => phase[t] = "start"
    /\ phase[t] = "locked" =>
        /\ mtxMap = t
        /\ request[t].op \in {"set", "get", "clone"}
        /\ request[t].op # "clone" => found[t] = index[request[t].name]
    /\ phase[t] \in {"take", "erase"} =>
        request[t].op \in Removing /\ found[t] = Sought(t) /\ found[t] \in 1 .. Len(array)
    /\ phase[t] = "erase" => out[t] = array[found[t]]
    /\ phase[t] = "renumber" =>
        request[t].op \in Removing /\ found[t] \in 1 .. Len(array) + 1
    /\ phase[t] \in {"clear", "names", "elements"} => request[t].op = "assign"
    /\ phase[t] = "elements" => index = Indexes(request[t].to)
    /\ request[t] # Idle /\ phase[t] \notin {"erase", "renumber"} => out[t] = Null

(* A thread in an exclusive operation is alone. *)
Alone(t) == request[t] # Idle /\ request[t].op \in Exclusive =>
    \A u \in Clients \ {t} : request[u] = Idle

(* The names fit the elements; while one is being removed, those before. *)
IndexFits ==
    /\ (\A t \in Clients : ~Busy(t)) => Match(index, Len(array))
    /\ \A t \in Clients : phase[t] = "renumber" => Match(index, Len(array) + 1)

MapInv ==
    /\ MapTypeOK
    /\ \A t \in Clients : ClientInv(t) /\ Alone(t)
    /\ IndexFits

-----------------------------------------------------------------------------
(* The operators of Maps. *)

(* A sequence over E. *)
LEMMA SeqFacts ==
    ASSUME NEW E, NEW s \in Seq(E)
    PROVE  /\ Len(s) \in Nat /\ DOMAIN s = 1 .. Len(s) /\ s \in [1 .. Len(s) -> E]
           /\ \A i \in 1 .. Len(s) : s[i] \in E
  OBVIOUS

(* One element of it changed. *)
LEMMA SeqChanged ==
    ASSUME NEW E, NEW s \in Seq(E), NEW i \in 1 .. Len(s), NEW e \in E
    PROVE  /\ [s EXCEPT ![i] = e] \in Seq(E)
           /\ Len([s EXCEPT ![i] = e]) = Len(s)
<1>1. s \in [1 .. Len(s) -> E] /\ Len(s) \in Nat
  OBVIOUS
<1>2. [s EXCEPT ![i] = e] \in [1 .. Len(s) -> E]
  BY <1>1
<1>3. QED
  BY <1>1, <1>2

(* The fields of a call, by its operation. *)
LEMMA CallFacts ==
    ASSUME NEW r \in Calls
    PROVE  /\ r.op \in Ops
           /\ r.op \in {"set", "get", "find", "removeAs"} => r.name \in Names
           /\ r.op \in {"keyAt", "getAt", "removeAt", "setAt"} => r.pos \in 1 .. MaxSize
           /\ r.op \in {"set", "setAt"} => r.value \in Values
           /\ r.op = "assign" => r.to \in Contents
  BY DEF Calls, Ops

(* A new name is put behind the others. *)
LEMMA MatchAppend ==
    ASSUME NEW n \in Nat, NEW x, Match(x, n), NEW m \in Names, x[m] = 0
    PROVE  Match([x EXCEPT ![m] = n + 1], n + 1)
<1>  DEFINE y == [x EXCEPT ![m] = n + 1]
<1>1. x \in [Names -> 0 .. n]
  BY DEF Match
<1>2. /\ y \in [Names -> 0 .. n + 1] /\ y[m] = n + 1
      /\ \A k \in Names \ {m} : y[k] = x[k] /\ y[k] # n + 1
  BY <1>1
<1>3. ASSUME NEW i \in 1 .. n + 1 PROVE \E k \in Names : y[k] = i
  <2>1. CASE i = n + 1
    BY <1>2, <2>1
  <2>2. CASE i # n + 1
    <3>1. i \in 1 .. n
      BY <2>2
    <3>2. PICK k \in Names : x[k] = i
      BY <3>1 DEF Match
    <3>3. QED
      BY <1>2, <3>1, <3>2
  <2>3. QED
    BY <2>1, <2>2
<1>4. ASSUME NEW k \in Names, NEW l \in Names, y[k] = y[l], y[k] # 0 PROVE k = l
  BY <1>2, <1>4 DEF Match
<1>5. QED
  BY <1>2, <1>3, <1>4 DEF Match

(* RemoveElementAt: the names behind the removed one move up. *)
LEMMA MatchRemoved ==
    ASSUME NEW n \in Nat, NEW x, Match(x, n + 1), NEW i \in 1 .. n + 1
    PROVE  Match(Renumbered(x, i), n)
<1>  DEFINE y == Renumbered(x, i)
<1>1. x \in [Names -> 0 .. n + 1]
  BY DEF Match
<1>2. ASSUME NEW m \in Names
      PROVE  /\ y[m] = IF x[m] = i THEN 0 ELSE IF x[m] > i THEN x[m] - 1 ELSE x[m]
             /\ x[m] \in 0 .. n + 1 /\ y[m] \in 0 .. n
  BY <1>1 DEF Renumbered
<1>3. y \in [Names -> 0 .. n]
  BY <1>2 DEF Renumbered
<1>4. ASSUME NEW j \in 1 .. n PROVE \E m \in Names : y[m] = j
  <2>1. CASE j < i
    <3>1. PICK m \in Names : x[m] = j
      BY DEF Match
    <3>2. QED
      BY <1>2, <2>1, <3>1
  <2>2. CASE j >= i
    <3>1. j + 1 \in 1 .. n + 1
      OBVIOUS
    <3>2. PICK m \in Names : x[m] = j + 1
      BY <3>1 DEF Match
    <3>3. QED
      BY <1>2, <2>2, <3>2
  <2>3. QED
    BY <2>1, <2>2
<1>5. ASSUME NEW m \in Names, NEW k \in Names, y[m] = y[k], y[m] # 0 PROVE m = k
  <2>1. x[m] = x[k] /\ x[m] # 0
    BY <1>2, <1>5
  <2>2. QED
    BY <2>1 DEF Match
<1>6. QED
  BY <1>3, <1>4, <1>5 DEF Match

(* CloneMap: the index of another map fits its elements. *)
LEMMA MatchIndexes ==
    ASSUME NEW d \in Contents
    PROVE  /\ d \in Seq([name : Names, value : Values])
           /\ Match(Indexes(d), Len(d))
           /\ \A i \in 1 .. Len(d) : Indexes(d)[d[i].name] = i
<1>1. /\ d \in Seq([name : Names, value : Values])
      /\ \A i, j \in DOMAIN d : d[i].name = d[j].name => i = j
  BY MapsAssumption
<1>2. /\ DOMAIN d = 1 .. Len(d) /\ Len(d) \in Nat
      /\ \A i \in 1 .. Len(d) : d[i].name \in Names
  <2>1. \A i \in 1 .. Len(d) : d[i] \in [name : Names, value : Values]
    BY <1>1, SeqFacts
  <2>2. QED
    BY <1>1, <2>1, SeqFacts
<1>3. ASSUME NEW n \in Names
      PROVE  \/ Indexes(d)[n] = 0 /\ \A i \in DOMAIN d : d[i].name # n
             \/ Indexes(d)[n] \in DOMAIN d /\ d[Indexes(d)[n]].name = n
  BY DEF Indexes
<1>4. Indexes(d) \in [Names -> 0 .. Len(d)]
  BY <1>2, <1>3 DEF Indexes
<1>5. \A i \in 1 .. Len(d) : Indexes(d)[d[i].name] = i
  BY <1>1, <1>2, <1>3
<1>6. \A m, k \in Names : Indexes(d)[m] = Indexes(d)[k] /\ Indexes(d)[m] # 0 => m = k
  BY <1>3
<1>7. QED
  BY <1>1, <1>2, <1>4, <1>5, <1>6 DEF Match

-----------------------------------------------------------------------------
(* The invariant. *)

(* While t is in an operation no other thread is half-way through an exclusive one. *)
LEMMA OthersWait ==
    ASSUME Orderly, MapInv, NEW t \in Clients, request[t] # Idle, NEW u \in Clients \ {t}
    PROVE  /\ phase[u] \in {"start", "locked"} /\ ~Busy(u)
           /\ request[u] # Idle => request[u].op \notin Exclusive
           /\ request[u] # Idle => request[t].op \notin Exclusive
<1>1. request[u] # Idle => request[u].op \notin Exclusive /\ request[t].op \notin Exclusive
  BY DEF MapInv, Alone
<1>2. phase[u] \in Phases /\ ClientInv(u)
  BY DEF MapInv, MapTypeOK
<1>3. phase[u] \in {"start", "locked"}
  BY <1>1, <1>2 DEF ClientInv, Orderly, Removing, Phases
<1>4. QED
  BY <1>1, <1>3 DEF Busy

(* A step of a thread within its operation keeps MapInv if it keeps the lock of the *)
(* others, its own part and the match.                                              *)
LEMMA StepKeeps ==
    ASSUME Orderly, MapInv, NEW t \in Clients, request[t] # Idle,
           request' = [request EXCEPT ![t] = request'[t]],
           phase' = [phase EXCEPT ![t] = phase'[t]],
           found' = [found EXCEPT ![t] = found'[t]],
           out' = [out EXCEPT ![t] = out'[t]],
           request'[t] \in {request[t], Idle}, phase'[t] \in Phases, found'[t] \in Nat,
           array' \in Seq(Values), index' \in [Names -> Nat], mtxMap' \in {mtxMap, t, Null},
           mtxMap \in Clients \ {t} => mtxMap' = mtxMap /\ index' = index,
           ClientInv(t)',
           ~Busy(t)' => Match(index', Len(array')),
           phase'[t] = "renumber" => Match(index', Len(array') + 1)
    PROVE  MapInv'
<1>1. MapTypeOK /\ request'[t] \in Calls \cup {Idle}
  BY DEF MapInv, MapTypeOK
<1>2. MapTypeOK'
  BY <1>1 DEF MapTypeOK
<1>3. \A u \in Clients \ {t} : /\ request'[u] = request[u] /\ phase'[u] = phase[u]
                               /\ found'[u] = found[u] /\ out'[u] = out[u]
  BY <1>1 DEF MapTypeOK
<1>4. ASSUME NEW u \in Clients \ {t} PROVE ClientInv(u)' /\ ~Busy(u)'
  <2>1. phase[u] \in {"start", "locked"}
    BY OthersWait
  <2>2. ClientInv(u)
    BY DEF MapInv
  <2>3. CASE phase[u] = "locked"
    <3>1. mtxMap = u /\ mtxMap' = u /\ index' = index
      BY <2>2, <2>3 DEF ClientInv
    <3>2. QED
      BY <1>3, <2>2, <2>3, <3>1 DEF ClientInv, Busy
  <2>4. CASE phase[u] = "start"
    BY <1>3, <2>2, <2>4 DEF ClientInv, Busy
  <2>5. QED
    BY <2>1, <2>3, <2>4
<1>5. ASSUME NEW u \in Clients PROVE Alone(u)'
  <2>1. CASE u = t
    BY <1>3, <2>1, OthersWait DEF Alone
  <2>2. CASE u # t
    BY <1>3, <2>2, OthersWait DEF Alone
  <2>3. QED
    BY <2>1, <2>2
<1>6. IndexFits'
  BY <1>4 DEF IndexFits, Busy
<1>7. QED
  BY <1>2, <1>4, <1>5, <1>6 DEF MapInv

(* What MapInv says of a thread that is in phase s of an operation in ops. *)
LEMMA Acting ==
    ASSUME Orderly, MapInv, NEW t \in Clients, NEW s, NEW ops, In(t, s, ops)
    PROVE  /\ request[t] # Idle /\ request[t] \in Calls /\ request[t].op \in ops
           /\ phase[t] = s /\ ClientInv(t) /\ MapTypeOK
           /\ Len(array) \in Nat /\ DOMAIN array = 1 .. Len(array)
           /\ s \notin {"renumber", "clear", "names", "elements"} => Match(index, Len(array))
           /\ s = "renumber" => Match(index, Len(array) + 1)
<1>1. /\ request[t] # Idle /\ request[t] \in Calls /\ request[t].op \in ops
      /\ phase[t] = s /\ ClientInv(t) /\ MapTypeOK
      /\ Len(array) \in Nat /\ DOMAIN array = 1 .. Len(array)
  BY SeqFacts DEF MapInv, MapTypeOK, In
<1>2. ASSUME s \notin {"renumber", "clear", "names", "elements"} PROVE Match(index, Len(array))
  <2>1. \A u \in Clients : ~Busy(u)
    BY <1>1, <1>2, OthersWait DEF Busy
  <2>2. QED
    BY <2>1 DEF MapInv, IndexFits
<1>3. s = "renumber" => Match(index, Len(array) + 1)
  BY <1>1 DEF MapInv, IndexFits
<1>4. QED
  BY <1>1, <1>2, <1>3

(* The steps that return. *)
LEMMA GivesKeeps ==
    ASSUME Orderly, MapInv, NEW t \in Clients, request[t] # Idle, NEW v, Gives(t, v),
           array' \in Seq(Values), index' \in [Names -> Nat], mtxMap' \in {mtxMap, t, Null},
           mtxMap \in Clients \ {t} => mtxMap' = mtxMap /\ index' = index,
           Match(index', Len(array'))
    PROVE  MapInv'
<1>1. MapTypeOK
  BY DEF MapInv
<1>2. request'[t] = Idle /\ phase'[t] = "start" /\ found'[t] = 0 /\ out'[t] = v
  BY <1>1 DEF Gives, MapTypeOK
<1>3. /\ request' = [request EXCEPT ![t] = request'[t]]
      /\ phase' = [phase EXCEPT ![t] = phase'[t]]
      /\ found' = [found EXCEPT ![t] = found'[t]]
      /\ out' = [out EXCEPT ![t] = out'[t]]
  BY <1>2 DEF Gives
<1>4. ClientInv(t)' /\ phase'[t] \in Phases /\ phase'[t] # "renumber"
  BY <1>2 DEF ClientInv, Phases
<1>5. QED
  BY <1>2, <1>3, <1>4, StepKeeps

(* The steps that go on. *)
LEMMA GoesKeeps ==
    ASSUME Orderly, MapInv, NEW t \in Clients, request[t] # Idle,
           NEW s \in Phases, NEW i \in Nat, Goes(t, s, i),
           array' \in Seq(Values), index' \in [Names -> Nat], mtxMap' \in {mtxMap, t, Null},
           mtxMap \in Clients \ {t} => mtxMap' = mtxMap /\ index' = index,
           phase'[t] = s /\ found'[t] = i => ClientInv(t)',
           s \notin {"renumber", "clear", "names", "elements"} => Match(index', Len(array')),
           s = "renumber" => Match(index', Len(array') + 1)
    PROVE  MapInv'
<1>1. MapTypeOK
  BY DEF MapInv
<1>2. request' = request /\ phase'[t] = s /\ found'[t] = i /\ out' = out
  BY <1>1 DEF Goes, MapTypeOK
<1>3. /\ request' = [request EXCEPT ![t] = request'[t]]
      /\ phase' = [phase EXCEPT ![t] = phase'[t]]
      /\ found' = [found EXCEPT ![t] = found'[t]]
      /\ out' = [out EXCEPT ![t] = out'[t]]
  BY <1>1, <1>2 DEF Goes, MapTypeOK
<1>4. ~Busy(t)' => s \notin {"renumber", "clear", "names", "elements"}
  BY <1>2 DEF Busy
<1>5. QED
  BY <1>2, <1>3, <1>4, StepKeeps

(* The steps that read, and return. *)
LEMMA ReadsKeep ==
    ASSUME Orderly, MapInv, NEW t \in Clients,
           \/ Find(t) \/ KeyAt(t) \/ GetElementAs(t) \/ CloneObject(t)
           \/ GetElementAt(t) \/ Size(t)
    PROVE  MapInv'
<1>1. PICK s \in {"start", "locked"} : \E ops :
        /\ In(t, s, ops) /\ UNCHANGED <<array, index>>
        /\ \/ s = "start" /\ UNCHANGED mtxMap
           \/ s = "locked" /\ mtxMap' = Null
  BY DEF Find, KeyAt, GetElementAs, CloneObject, GetElementAt, Size
<1>2. PICK v : Gives(t, v)
  BY DEF Find, KeyAt, GetElementAs, CloneObject, GetElementAt, Size
<1>3. /\ request[t] # Idle /\ Match(index, Len(array)) /\ MapTypeOK
      /\ s = "locked" => mtxMap = t
  BY <1>1, Acting DEF ClientInv
<1>4. QED
  BY <1>1, <1>2, <1>3, GivesKeeps DEF MapTypeOK

(* SetElementAs: the element replaces that of its name, or is appended. *)
LEMMA SetElementAsKeeps ==
    ASSUME Orderly, MapInv, NEW t \in Clients, SetElementAs(t)
    PROVE  MapInv'
<1>  DEFINE r == request[t]
<1>1. In(t, "locked", {"set"}) /\ Gives(t, Null) /\ mtxMap' = Null
  BY DEF SetElementAs
<1>2. /\ r # Idle /\ Match(index, Len(array)) /\ MapTypeOK /\ Len(array) \in Nat
      /\ DOMAIN array = 1 .. Len(array)
      /\ mtxMap = t /\ r.name \in Names /\ r.value \in Values /\ found[t] = index[r.name]
  BY <1>1, Acting, CallFacts DEF ClientInv
<1>3. index \in [Names -> Nat] /\ array \in Seq(Values) /\ found[t] \in 0 .. Len(array)
  BY <1>2 DEF MapTypeOK, Match
<1>4. CASE found[t] # 0
  <2>1. array' = [array EXCEPT ![found[t]] = r.value] /\ index' = index
    BY <1>2, <1>3, <1>4 DEF SetElementAs
  <2>2. array' \in Seq(Values) /\ Len(array') = Len(array)
    BY <1>2, <1>3, <1>4, <2>1, SeqChanged
  <2>3. QED
    BY <1>1, <1>2, <1>3, <2>1, <2>2, GivesKeeps
<1>5. CASE found[t] = 0
  <2>1. /\ array' = Append(array, r.value)
        /\ index' = [index EXCEPT ![r.name] = Len(array) + 1]
    BY <1>2, <1>3, <1>5 DEF SetElementAs
  <2>2. array' \in Seq(Values) /\ Len(array') = Len(array) + 1
    BY <1>2, <1>3, <2>1
  <2>3. Match(index', Len(array'))
    BY <1>2, <1>5, <2>1, <2>2, MatchAppend
  <2>4. index' \in [Names -> Nat]
    BY <1>2, <1>3, <2>1
  <2>5. QED
    BY <1>1, <1>2, <2>2, <2>3, <2>4, GivesKeeps
<1>6. QED
  BY <1>4, <1>5

(* SetElementAt: an element is replaced by position. *)
LEMMA SetElementAtKeeps ==
    ASSUME Orderly, MapInv, NEW t \in Clients, SetElementAt(t)
    PROVE  MapInv'
<1>  DEFINE r == request[t]
<1>1. In(t, "start", {"setAt"}) /\ Gives(t, Null) /\ UNCHANGED <<index, mtxMap>>
  BY DEF SetElementAt
<1>2. /\ r # Idle /\ Match(index, Len(array)) /\ MapTypeOK /\ r.value \in Values
      /\ r.pos \in Int
  BY <1>1, Acting, CallFacts, MapsAssumption
<1>3. index \in [Names -> Nat] /\ array \in Seq(Values)
  BY <1>2 DEF MapTypeOK
<1>4. array' \in Seq(Values) /\ Len(array') = Len(array)
  BY <1>2, <1>3, SeqChanged, SeqFacts DEF SetElementAt
<1>5. QED
  BY <1>1, <1>2, <1>3, <1>4, GivesKeeps

(* LookUp and the first steps of removing. *)
LEMMA LookUpKeeps ==
    ASSUME Orderly, MapInv, NEW t \in Clients, LookUp(t)
    PROVE  MapInv'
<1>  DEFINE i == IF request[t].op = "clone" THEN 0 ELSE index[request[t].name]
<1>1. /\ In(t, "start", {"set", "get", "clone"}) /\ mtxMap = Null /\ mtxMap' = t
      /\ Goes(t, "locked", i) /\ UNCHANGED <<array, index>>
  BY DEF LookUp
<1>2. /\ request[t] # Idle /\ Match(index, Len(array)) /\ MapTypeOK /\ ClientInv(t)
      /\ phase[t] = "start" /\ request[t].op \in {"set", "get", "clone"}
      /\ request[t].op # "clone" => request[t].name \in Names
  BY <1>1, Acting, CallFacts
<1>3. i \in Nat /\ array \in Seq(Values) /\ index \in [Names -> Nat]
  BY <1>2 DEF MapTypeOK
<1>4. phase'[t] = "locked" /\ found'[t] = i => ClientInv(t)'
  BY <1>1, <1>2 DEF ClientInv, Goes
<1>5. mtxMap \notin Clients
  BY <1>1, MapsAssumption
<1>6. QED
  BY <1>1, <1>2, <1>3, <1>4, <1>5, GoesKeeps DEF Phases

LEMMA FindToRemoveKeeps ==
    ASSUME Orderly, MapInv, NEW t \in Clients, FindToRemove(t) \/ CheckToRemove(t)
    PROVE  MapInv'
<1>1. PICK op \in Removing : In(t, "start", {op}) /\ UNCHANGED <<array, index, mtxMap>>
  BY DEF FindToRemove, CheckToRemove, Removing
<1>2. /\ request[t] # Idle /\ Match(index, Len(array)) /\ MapTypeOK /\ ClientInv(t)
      /\ phase[t] = "start" /\ request[t].op = op /\ Len(array) \in Nat
      /\ DOMAIN array = 1 .. Len(array)
      /\ op = "removeAs" => request[t].name \in Names
  BY <1>1, Acting, CallFacts DEF Removing
<1>3. array \in Seq(Values) /\ index \in [Names -> Nat]
  BY <1>2 DEF MapTypeOK
<1>4. CASE Gives(t, Null)
  BY <1>1, <1>2, <1>3, <1>4, GivesKeeps
<1>5. CASE ~Gives(t, Null)
  <2>1. /\ Goes(t, "take", Sought(t))
        /\ Sought(t) \in 1 .. Len(array)
    <3>1. CASE FindToRemove(t)
      <4>1. op = "removeAs"
        BY <1>1, <1>2, <3>1 DEF FindToRemove, In, Removing
      <4>2. index[request[t].name] \in 0 .. Len(array)
        BY <1>2, <4>1 DEF Match
      <4>3. QED
        BY <1>2, <1>5, <3>1, <4>1, <4>2 DEF FindToRemove, Sought
    <3>2. CASE CheckToRemove(t)
      BY <1>1, <1>2, <1>5, <3>2 DEF CheckToRemove, Sought, In, Removing
    <3>3. QED
      BY <3>1, <3>2
  <2>2. phase'[t] = "take" /\ found'[t] = Sought(t) => ClientInv(t)'
    BY <1>1, <1>2, <2>1 DEF ClientInv, Goes, Sought
  <2>3. QED
    BY <1>1, <1>2, <1>3, <2>1, <2>2, GoesKeeps DEF Phases
<1>6. QED
  BY <1>4, <1>5

(* TakeOut: the position is still the one that was found. *)
LEMMA TakeOutKeeps ==
    ASSUME Orderly, MapInv, NEW t \in Clients, TakeOut(t)
    PROVE  MapInv'
<1>1. In(t, "take", Removing) /\ UNCHANGED <<array, index, mtxMap, request, found>>
  BY DEF TakeOut, Removing
<1>2. /\ request[t] # Idle /\ Match(index, Len(array)) /\ MapTypeOK /\ ClientInv(t)
      /\ phase[t] = "take" /\ DOMAIN array = 1 .. Len(array)
  BY <1>1, Acting
<1>3. /\ phase'[t] = "erase" /\ out'[t] = array[found[t]]
      /\ phase' = [phase EXCEPT ![t] = phase'[t]]
      /\ out' = [out EXCEPT ![t] = out'[t]]
  BY <1>2 DEF TakeOut, MapTypeOK, ElementAt, ClientInv
<1>4. ClientInv(t)'
  BY <1>1, <1>2, <1>3 DEF ClientInv, Sought
<1>5. QED
  BY <1>1, <1>2, <1>3, <1>4, StepKeeps DEF MapTypeOK, Phases

(* Erase: the array has one element less than the index. *)
LEMMA EraseKeeps ==
    ASSUME Orderly, MapInv, NEW t \in Clients, Erase(t)
    PROVE  MapInv'
<1>1. /\ In(t, "erase", Removing) /\ Goes(t, "renumber", found[t])
      /\ UNCHANGED <<index, mtxMap>>
  BY DEF Erase, Removing
<1>2. /\ request[t] # Idle /\ Match(index, Len(array)) /\ MapTypeOK /\ ClientInv(t)
      /\ phase[t] = "erase" /\ request[t].op \in Removing
      /\ Len(array) \in Nat /\ DOMAIN array = 1 .. Len(array)
  BY <1>1, Acting
<1>3. found[t] \in 1 .. Len(array) /\ array \in Seq(Values) /\ index \in [Names -> Nat]
  BY <1>2 DEF ClientInv, MapTypeOK
<1>4. array' \in Seq(Values) /\ Len(array') = Len(array) - 1
  <2>1. Len(array) - 1 \in Nat
    BY <1>2, <1>3
  <2>2. array' \in [1 .. Len(array) - 1 -> Values]
    BY <1>2, <1>3 DEF Erase
  <2>3. QED
    BY <2>1, <2>2
<1>5. phase'[t] = "renumber" /\ found'[t] = found[t] => ClientInv(t)'
  BY <1>1, <1>2, <1>3, <1>4 DEF ClientInv, Goes
<1>6. QED
  BY <1>1, <1>2, <1>3, <1>4, <1>5, GoesKeeps DEF Phases

(* RemoveElementAt: the names fit the elements again. *)
LEMMA RemoveElementAtKeeps ==
    ASSUME Orderly, MapInv, NEW t \in Clients, RemoveElementAt(t)
    PROVE  MapInv'
<1>1. /\ In(t, "renumber", Removing) /\ mtxMap = Null /\ Gives(t, out[t])
      /\ UNCHANGED <<array, mtxMap>> /\ index' = Renumbered(index, found[t])
  BY DEF RemoveElementAt, Removing
<1>2. /\ request[t] # Idle /\ Match(index, Len(array) + 1) /\ MapTypeOK /\ ClientInv(t)
      /\ phase[t] = "renumber" /\ Len(array) \in Nat
  BY <1>1, Acting
<1>3. found[t] \in 1 .. Len(array) + 1 /\ array \in Seq(Values)
  BY <1>2 DEF ClientInv, MapTypeOK
<1>4. Match(index', Len(array))
  BY <1>1, <1>2, <1>3, MatchRemoved
<1>5. index' \in [Names -> Nat]
  BY <1>2, <1>4 DEF Match
<1>6. mtxMap \notin Clients
  BY <1>1, MapsAssumption
<1>7. QED
  BY <1>1, <1>2, <1>3, <1>4, <1>5, <1>6, GivesKeeps

(* The parts of := from another map. *)
LEMMA AssignKeeps ==
    ASSUME Orderly, MapInv, NEW t \in Clients,
           ClearArray(t) \/ ClearMap(t) \/ CloneMap(t) \/ CloneArray(t)
    PROVE  MapInv'
<1>  DEFINE d == request[t].to
<1>1. \E s : In(t, s, {"assign"})
  BY DEF ClearArray, ClearMap, CloneMap, CloneArray
<1>2. /\ request[t] # Idle /\ MapTypeOK /\ ClientInv(t) /\ request[t].op = "assign"
      /\ d \in Contents
  BY <1>1, Acting, CallFacts
<1>3. /\ array \in Seq(Values) /\ index \in [Names -> Nat]
      /\ d \in Seq([name : Names, value : Values])
      /\ Match(Indexes(d), Len(d)) /\ Len(d) \in Nat /\ DOMAIN d = 1 .. Len(d)
      /\ \A i \in 1 .. Len(d) : d[i] \in [name : Names, value : Values]
  <2>1. array \in Seq(Values) /\ index \in [Names -> Nat]
    BY <1>2 DEF MapTypeOK
  <2>2. d \in Seq([name : Names, value : Values]) /\ Match(Indexes(d), Len(d))
    BY <1>2, MatchIndexes
  <2>  HIDE DEF d
  <2>3. QED
    BY <2>1, <2>2, SeqFacts
<1>4. ASSUME NEW s \in {"clear", "names", "elements"}, request' = request, out' = out,
             phase[t] # "erase", phase[t] # "renumber",
             s = "elements" => index' = Indexes(d), phase'[t] = s
      PROVE  ClientInv(t)'
  <2>1. request'[t] = request[t] /\ request[t] # Idle /\ request[t].op = "assign" /\ phase'[t] = s
    BY <1>2, <1>4
  <2>2. out'[t] = Null /\ s \notin {"start", "locked", "take", "erase", "renumber"}
    BY <1>2, <1>4 DEF ClientInv
  <2>3. s = "elements" => index' = Indexes(request'[t].to)
    BY <1>4, <2>1
  <2>4. QED
    BY <2>1, <2>2, <2>3 DEF ClientInv
<1>5. CASE ClearArray(t)
  <2>1. /\ Goes(t, "clear", 0) /\ UNCHANGED <<index, mtxMap>> /\ phase[t] = "start"
    BY <1>5 DEF ClearArray, In
  <2>2. array' \in Seq(Values)
    BY <1>5 DEF ClearArray
  <2>3. phase'[t] = "clear" => ClientInv(t)'
    BY <1>4, <2>1 DEF Goes
  <2>4. QED
    BY <1>2, <1>3, <2>1, <2>2, <2>3, GoesKeeps DEF Phases
<1>6. CASE ClearMap(t)
  <2>1. /\ Goes(t, "names", 0) /\ UNCHANGED <<array, mtxMap>> /\ phase[t] = "clear"
        /\ mtxMap = Null /\ index' = [n \in Names |-> 0]
    BY <1>6 DEF ClearMap, In
  <2>2. mtxMap \notin Clients
    BY <2>1, MapsAssumption
  <2>3. phase'[t] = "names" => ClientInv(t)'
    BY <1>4, <2>1 DEF Goes
  <2>4. QED
    BY <1>2, <1>3, <2>1, <2>2, <2>3, GoesKeeps DEF Phases
<1>7. CASE CloneMap(t)
  <2>1. /\ Goes(t, "elements", 0) /\ UNCHANGED <<array, mtxMap>> /\ phase[t] = "names"
        /\ mtxMap = Null /\ index' = Indexes(d)
    BY <1>7 DEF CloneMap, In
  <2>2. mtxMap \notin Clients /\ index' \in [Names -> Nat]
    BY <1>3, <2>1, MapsAssumption DEF Match
  <2>3. phase'[t] = "elements" => ClientInv(t)'
    BY <1>4, <2>1 DEF Goes
  <2>4. QED
    BY <1>2, <1>3, <2>1, <2>2, <2>3, GoesKeeps DEF Phases
<1>8. CASE CloneArray(t)
  <2>1. /\ Gives(t, Null) /\ UNCHANGED <<index, mtxMap>> /\ phase[t] = "elements"
        /\ array' = [i \in DOMAIN d |-> d[i].value]
    BY <1>8 DEF CloneArray, In
  <2>2. array' \in [1 .. Len(d) -> Values] /\ Len(d) \in Nat
    BY <1>3, <2>1
  <2>3. array' \in Seq(Values) /\ Len(array') = Len(d)
    BY <2>2
  <2>4. index = Indexes(d)
    BY <1>2, <2>1 DEF ClientInv
  <2>5. QED
    BY <1>2, <1>3, <2>1, <2>3, <2>4, GivesKeeps
<1>9. QED
  BY <1>5, <1>6, <1>7, <1>8

(* A call: an exclusive operation waits until the others have returned. *)
LEMMA InvokeKeeps ==
    ASSUME Orderly, MapInv, NEW t \in Clients, NEW r \in Calls, Invoke(t, r)
    PROVE  MapInv'
<1>1. MapTypeOK /\ ClientInv(t) /\ request[t] = Idle /\ phase[t] = "start"
  BY DEF MapInv, Invoke, ClientInv
<1>2. /\ request'[t] = r /\ out'[t] = Null /\ r # Idle
      /\ UNCHANGED <<array, index, mtxMap, phase, found>>
      /\ \A u \in Clients \ {t} : request'[u] = request[u] /\ out'[u] = out[u]
  BY <1>1, MapsAssumption DEF Invoke, MapTypeOK
<1>3. MapTypeOK'
  BY <1>1 DEF Invoke, MapTypeOK
<1>4. \A u \in Clients : ClientInv(u)'
  <2>1. ClientInv(t)'
    BY <1>1, <1>2 DEF ClientInv
  <2>2. ASSUME NEW u \in Clients \ {t} PROVE ClientInv(u)'
    BY <1>2 DEF MapInv, ClientInv, Sought
  <2>3. QED
    BY <2>1, <2>2
<1>5. \A u \in Clients : Alone(u)'
  BY <1>1, <1>2 DEF MapInv, Alone, Invoke
<1>6. IndexFits'
  BY <1>2 DEF MapInv, IndexFits, Busy
<1>7. QED
  BY <1>3, <1>4, <1>5, <1>6 DEF MapInv

-----------------------------------------------------------------------------
LEMMA MapInitInv == MapInit => MapInv
<1>  SUFFICES ASSUME MapInit PROVE MapInv
  OBVIOUS
<1>1. MapTypeOK
  BY DEF MapInit, MapTypeOK, Phases
<1>2. \A t \in Clients : ClientInv(t) /\ Alone(t) /\ ~Busy(t)
  BY DEF MapInit, ClientInv, Alone, Busy
<1>3. Match(index, Len(array))
  BY DEF MapInit, Match
<1>4. QED
  BY <1>1, <1>2, <1>3 DEF MapInv, IndexFits, Busy, MapInit

LEMMA MapNextInv == Orderly /\ MapInv /\ [MapNext]_mapVars => MapInv'
<1>  SUFFICES ASSUME Orderly, MapInv, [MapNext]_mapVars PROVE MapInv'
  OBVIOUS
<1>1. ASSUME NEW t \in Clients, MapStep(t) PROVE MapInv'
  BY <1>1, ReadsKeep, SetElementAsKeeps, SetElementAtKeeps, LookUpKeeps, FindToRemoveKeeps,
     TakeOutKeeps, EraseKeeps, RemoveElementAtKeeps, AssignKeeps DEF MapStep
<1>2. ASSUME NEW t \in Clients, NEW r \in Calls, Invoke(t, r) PROVE MapInv'
  BY <1>2, InvokeKeeps
<1>3. CASE UNCHANGED mapVars
  BY <1>3 DEF mapVars, MapInv, MapTypeOK, ClientInv, Alone, IndexFits, Busy, Sought
<1>4. QED
  BY <1>1, <1>2, <1>3 DEF MapNext

(* The state of the map and of its clients in every reachable state. *)
THEOREM MapInvariant == ASSUME Orderly PROVE MapSpec => []MapInv
  BY MapInitInv, MapNextInv, PTL DEF MapSpec

(* Between removing and assigning, every element has exactly one name and every name *)
(* one element.                                                                      *)
THEOREM NamesFit == ASSUME Orderly PROVE MapSpec => []NamesMatchElements
<1>1. ASSUME MapInv PROVE NamesMatchElements
  <2>  SUFFICES ASSUME \A t \in Clients : ~Busy(t)
                PROVE  /\ \A n \in Names : index[n] \in 0 .. Len(array)
                       /\ \A i \in DOMAIN array :
                              \E n \in Names : {m \in Names : index[m] = i} = {n}
    BY DEF NamesMatchElements
  <2>1. Match(index, Len(array)) /\ DOMAIN array = 1 .. Len(array) /\ Len(array) \in Nat
    BY <1>1, SeqFacts DEF MapInv, IndexFits, MapTypeOK
  <2>2. ASSUME NEW i \in DOMAIN array
        PROVE  \E n \in Names : {m \in Names : index[m] = i} = {n}
    <3>1. PICK n \in Names : index[n] = i
      BY <2>1 DEF Match
    <3>2. {m \in Names : index[m] = i} = {n}
      BY <2>1, <3>1 DEF Match
    <3>3. QED
      BY <3>2
  <2>3. QED
    BY <2>1, <2>2 DEF Match
<1>2. QED
  BY <1>1, MapInvariant, PTL

-----------------------------------------------------------------------------
(* The entries of the dictionary that an array and an index stand for. *)

Entry == [name : Names, value : Values]

(* The name of a position. *)
LEMMA NameOfIs ==
    ASSUME NEW n \in Nat, NEW x, Match(x, n), NEW i \in Nat \ {0}
    PROVE  /\ i \in 1 .. n => NameOf(x, i) \in Names /\ x[NameOf(x, i)] = i
           /\ \A m \in Names : x[m] = i => NameOf(x, i) = m
           /\ i \notin 1 .. n => NameOf(x, i) = Null
<1>1. i \in 1 .. n <=> \E m \in Names : x[m] = i
  BY DEF Match
<1>2. \A m \in Names : x[m] = i => NameOf(x, i) = m
  BY DEF Match, NameOf
<1>3. QED
  BY <1>1, <1>2 DEF NameOf

(* A list of entries is the dictionary if it has the elements and the index has *)
(* its names.                                                                   *)
LEMMA EntriesAre ==
    ASSUME NEW a \in Seq(Values), NEW x, Match(x, Len(a)),
           NEW d, d \in [1 .. Len(a) -> Entry],
           \A i \in 1 .. Len(a) : d[i].value = a[i] /\ x[d[i].name] = i
    PROVE  Entries(a, x) = d
<1>1. Len(a) \in Nat /\ DOMAIN a = 1 .. Len(a)
  BY SeqFacts
<1>2. ASSUME NEW i \in 1 .. Len(a) PROVE [name |-> NameOf(x, i), value |-> a[i]] = d[i]
  <2>1. d[i] = [name |-> d[i].name, value |-> d[i].value] /\ d[i].name \in Names
    BY DEF Entry
  <2>2. NameOf(x, i) = d[i].name
    BY <1>1, <2>1, NameOfIs
  <2>3. QED
    BY <2>1, <2>2
<1>3. QED
  BY <1>1, <1>2 DEF Entries

(* The dictionary has the elements, in order, and finds each name where the index does. *)
LEMMA EntriesFacts ==
    ASSUME NEW a \in Seq(Values), NEW x, Match(x, Len(a)), NEW d, d = Entries(a, x)
    PROVE  /\ d \in [1 .. Len(a) -> Entry] /\ d \in Seq(Entry) /\ Len(d) = Len(a)
           /\ \A i \in 1 .. Len(a) : d[i].value = a[i] /\ x[d[i].name] = i
           /\ \A m \in Names : Dictionary!Position(d, m) = x[m]
           /\ \A i : Dictionary!ValueAt(d, i) = IF i \in DOMAIN a THEN a[i] ELSE Null
           /\ \A i \in Nat \ {0} : Dictionary!NameAt(d, i) = NameOf(x, i)
<1>1. Len(a) \in Nat /\ DOMAIN a = 1 .. Len(a) /\ \A i \in 1 .. Len(a) : a[i] \in Values
  BY SeqFacts
<1>2. ASSUME NEW i \in 1 .. Len(a)
      PROVE  /\ d[i].value = a[i] /\ d[i].name = NameOf(x, i) /\ x[d[i].name] = i
             /\ d[i].name \in Names /\ d[i] \in Entry
  BY <1>1, NameOfIs DEF Entries, Entry
<1>3. DOMAIN d = 1 .. Len(a) /\ d \in [1 .. Len(a) -> Entry]
  BY <1>1, <1>2 DEF Entries
<1>4. d \in Seq(Entry) /\ Len(d) = Len(a)
  BY <1>1, <1>3
<1>5. ASSUME NEW m \in Names PROVE Dictionary!Position(d, m) = x[m]
  <2>1. x[m] \in 0 .. Len(a)
    BY DEF Match
  <2>2. \A i \in 1 .. Len(a) : d[i].name = m <=> x[m] = i
    BY <1>1, <1>2, NameOfIs
  <2>3. QED
    BY <1>1, <1>3, <2>1, <2>2 DEF Dictionary!Position
<1>6. \A i : Dictionary!ValueAt(d, i) = IF i \in DOMAIN a THEN a[i] ELSE Null
  BY <1>1, <1>2, <1>3 DEF Dictionary!ValueAt
<1>7. \A i \in Nat \ {0} : Dictionary!NameAt(d, i) = NameOf(x, i)
  BY <1>1, <1>2, <1>3, NameOfIs DEF Dictionary!NameAt
<1>8. QED
  BY <1>2, <1>3, <1>4, <1>5, <1>6, <1>7

(* Appending an element and its name. *)
LEMMA EntriesAppended ==
    ASSUME NEW a \in Seq(Values), NEW x, Match(x, Len(a)),
           NEW m \in Names, x[m] = 0, NEW v \in Values
    PROVE  Entries(Append(a, v), [x EXCEPT ![m] = Len(a) + 1])
               = Append(Entries(a, x), [name |-> m, value |-> v])
<1>  DEFINE d == Entries(a, x)
            b == Append(a, v)
            y == [x EXCEPT ![m] = Len(a) + 1]
            e == Append(d, [name |-> m, value |-> v])
<1>1. /\ Len(a) \in Nat /\ b \in Seq(Values) /\ Len(b) = Len(a) + 1
      /\ b[Len(a) + 1] = v /\ \A i \in 1 .. Len(a) : b[i] = a[i]
  OBVIOUS
<1>2. /\ d \in [1 .. Len(a) -> Entry] /\ d \in Seq(Entry) /\ Len(d) = Len(a)
      /\ \A i \in 1 .. Len(a) : d[i].value = a[i] /\ x[d[i].name] = i
  BY EntriesFacts
<1>3. Match(y, Len(b))
  BY <1>1, MatchAppend
<1>4. /\ e \in Seq(Entry) /\ Len(e) = Len(a) + 1
      /\ e[Len(a) + 1] = [name |-> m, value |-> v] /\ \A i \in 1 .. Len(a) : e[i] = d[i]
  <2>1. [name |-> m, value |-> v] \in Entry
    BY DEF Entry
  <2>2. QED
    BY <1>1, <1>2, <2>1
<1>5. y[m] = Len(a) + 1 /\ \A k \in Names \ {m} : y[k] = x[k]
  BY DEF Match
<1>6. ASSUME NEW i \in 1 .. Len(b) PROVE e[i].value = b[i] /\ y[e[i].name] = i
  <2>1. CASE i = Len(a) + 1
    BY <1>1, <1>4, <1>5, <2>1
  <2>2. CASE i # Len(a) + 1
    <3>1. i \in 1 .. Len(a)
      BY <1>1, <2>2
    <3>2. d[i].name \in Names \ {m}
      BY <1>1, <1>2, <3>1 DEF Entry
    <3>3. QED
      BY <1>1, <1>2, <1>4, <1>5, <3>1, <3>2
  <2>3. QED
    BY <2>1, <2>2
<1>7. e \in [1 .. Len(b) -> Entry]
  <2>1. e \in Seq(Entry) /\ Len(e) = Len(b)
    BY <1>1, <1>4
  <2>  HIDE DEF e
  <2>2. QED
    BY <2>1, SeqFacts
<1>  HIDE DEF b, y, e
<1>8. Entries(b, y) = e
  BY <1>1, <1>3, <1>6, <1>7, EntriesAre
<1>9. QED
  BY <1>8 DEF b, y, e

(* The dictionary with another value at a position. *)
Changed(d, i, v) == [d EXCEPT ![i].value = v]

(* Changing an element. *)
LEMMA EntriesChanged ==
    ASSUME NEW a \in Seq(Values), NEW x, Match(x, Len(a)), NEW i \in 1 .. Len(a),
           NEW b \in Seq(Values), Len(b) = Len(a),
           \A j \in 1 .. Len(a) \ {i} : b[j] = a[j]
    PROVE  Entries(b, x) = Changed(Entries(a, x), i, b[i])
<1>  DEFINE d == Entries(a, x)
            e == [d EXCEPT ![i].value = b[i]]
<1>1. Len(a) \in Nat /\ DOMAIN a = 1 .. Len(a) /\ b[i] \in Values
  BY SeqFacts
<1>2. /\ d \in [1 .. Len(a) -> Entry]
      /\ \A j \in 1 .. Len(a) : d[j].value = a[j] /\ x[d[j].name] = j
  BY EntriesFacts
<1>3. e \in [1 .. Len(a) -> Entry]
  BY <1>2 DEF Entry
<1>4. ASSUME NEW j \in 1 .. Len(a) PROVE e[j].value = b[j] /\ x[e[j].name] = j
  BY <1>1, <1>2 DEF Entry
<1>  HIDE DEF e
<1>5. Entries(b, x) = e
  BY <1>1, <1>3, <1>4, EntriesAre
<1>6. QED
  BY <1>5 DEF e, Changed

(* Removing an element and renumbering the names. *)
LEMMA EntriesRemoved ==
    ASSUME NEW a \in Seq(Values), NEW x, Match(x, Len(a)), NEW i \in 1 .. Len(a)
    PROVE  Entries([j \in 1 .. Len(a) - 1 |-> IF j < i THEN a[j] ELSE a[j + 1]], Renumbered(x, i))
               = Dictionary!Without(Entries(a, x), i)
<1>  DEFINE d == Entries(a, x)
            n == Len(a) - 1
            b == [j \in 1 .. n |-> IF j < i THEN a[j] ELSE a[j + 1]]
            y == Renumbered(x, i)
            e == Dictionary!Without(d, i)
<1>1. /\ Len(a) \in Nat /\ DOMAIN a = 1 .. Len(a) /\ n \in Nat /\ Len(a) = n + 1
      /\ \A j \in 1 .. Len(a) : a[j] \in Values
  BY SeqFacts
<1>2. /\ d \in [1 .. n + 1 -> Entry] /\ Len(d) = Len(a)
      /\ \A j \in 1 .. n + 1 : d[j].value = a[j] /\ x[d[j].name] = j /\ d[j].name \in Names
  <2>  HIDE DEF d
  <2>1. /\ d \in [1 .. Len(a) -> Entry] /\ Len(d) = Len(a)
        /\ \A j \in 1 .. Len(a) : d[j].value = a[j] /\ x[d[j].name] = j
    BY EntriesFacts DEF d
  <2>2. 1 .. Len(a) = 1 .. n + 1
    BY <1>1
  <2>3. \A j \in 1 .. n + 1 : d[j].name \in Names
    BY <2>1, <2>2 DEF Entry
  <2>4. QED
    BY <2>1, <2>2, <2>3
<1>3. b \in Seq(Values) /\ Len(b) = n
  <2>1. b \in [1 .. n -> Values]
    BY <1>1
  <2>2. QED
    BY <1>1, <2>1
<1>4. Match(y, n)
  BY <1>1, MatchRemoved
<1>5. /\ e \in [1 .. n -> Entry]
      /\ \A j \in 1 .. n : e[j] = IF j < i THEN d[j] ELSE d[j + 1]
  <2>1. e = [j \in 1 .. n |-> IF j < i THEN d[j] ELSE d[j + 1]]
    BY <1>2 DEF Dictionary!Without
  <2>  HIDE DEF d, e, y, b
  <2>2. \A j \in 1 .. n : j \in 1 .. n + 1 /\ j + 1 \in 1 .. n + 1
    BY <1>1
  <2>3. \A j \in 1 .. n : (IF j < i THEN d[j] ELSE d[j + 1]) \in Entry
    BY <1>2, <2>2
  <2>4. QED
    BY <2>1, <2>3
<1>6. ASSUME NEW j \in 1 .. n PROVE e[j].value = b[j] /\ y[e[j].name] = j
  <2>1. CASE j < i
    BY <1>1, <1>2, <1>5, <2>1 DEF Renumbered
  <2>2. CASE ~(j < i)
    BY <1>1, <1>2, <1>5, <2>2 DEF Renumbered
  <2>3. QED
    BY <2>1, <2>2
<1>  HIDE DEF b, y, e, n, d
<1>7. Entries(b, y) = e
  <2>1. /\ Match(y, Len(b)) /\ e \in [1 .. Len(b) -> Entry]
        /\ \A j \in 1 .. Len(b) : e[j].value = b[j] /\ y[e[j].name] = j
    BY <1>3, <1>4, <1>5, <1>6
  <2>2. QED
    BY <1>3, <2>1, EntriesAre
<1>8. QED
  BY <1>7 DEF b, y, e, n, d

(* The elements and the names of another map. *)
LEMMA EntriesCloned ==
    ASSUME NEW d \in Contents
    PROVE  Entries([i \in DOMAIN d |-> d[i].value], Indexes(d)) = d
<1>  DEFINE a == [i \in DOMAIN d |-> d[i].value]
<1>1. /\ d \in Seq(Entry) /\ Match(Indexes(d), Len(d)) /\ Len(d) \in Nat
      /\ DOMAIN d = 1 .. Len(d) /\ \A i \in 1 .. Len(d) : d[i] \in Entry
      /\ \A i \in 1 .. Len(d) : Indexes(d)[d[i].name] = i
  BY MatchIndexes, SeqFacts DEF Entry
<1>2. d \in [1 .. Len(d) -> Entry]
  BY <1>1
<1>3. a \in [1 .. Len(d) -> Values] /\ Len(d) \in Nat
  BY <1>1 DEF Entry
<1>4. a \in Seq(Values) /\ Len(a) = Len(d)
  BY <1>3
<1>5. QED
  BY <1>1, <1>2, <1>4, EntriesAre

-----------------------------------------------------------------------------
(* The refinement: each step is one of Dictionary, or leaves its variables alone. *)

(* The dictionary, by the phase of the only thread that may be busy. *)
LEMMA DictNow ==
    ASSUME Orderly, MapInv, NEW t \in Clients, request[t] # Idle
    PROVE  /\ ~Busy(t) => Dict = Entries(array, index)
           /\ phase[t] = "renumber" => Dict = Entries(array, Renumbered(index, found[t]))
           /\ phase[t] \in {"clear", "names", "elements"} => Dict = request[t].to
<1>1. \A u \in Clients \ {t} : ~Busy(u) /\ phase[u] # "renumber"
  BY OthersWait
<1>2. ASSUME phase[t] = "renumber" PROVE Dict = Entries(array, Renumbered(index, found[t]))
  <2>1. (CHOOSE u \in Clients : phase[u] = "renumber") = t
    BY <1>1, <1>2
  <2>2. QED
    BY <1>2, <2>1 DEF Dict
<1>3. ASSUME phase[t] \in {"clear", "names", "elements"} PROVE Dict = request[t].to
  <2>1. Busy(t) /\ ~ \E u \in Clients : phase[u] = "renumber"
    BY <1>1, <1>3 DEF Busy
  <2>2. (CHOOSE u \in Clients : Busy(u)) = t
    BY <1>1, <2>1
  <2>3. QED
    BY <2>1, <2>2 DEF Dict
<1>4. ASSUME ~Busy(t) PROVE Dict = Entries(array, index)
  BY <1>1, <1>4 DEF Dict, Busy
<1>5. QED
  BY <1>2, <1>3, <1>4

(* The same after a step of t. *)
LEMMA DictNext ==
    ASSUME Orderly, MapInv, NEW t \in Clients, request[t] # Idle,
           phase' = [phase EXCEPT ![t] = phase'[t]]
    PROVE  /\ ~Busy(t)' => Dict' = Entries(array', index')
           /\ phase'[t] = "renumber" => Dict' = Entries(array', Renumbered(index', found'[t]))
           /\ phase'[t] \in {"clear", "names", "elements"} => Dict' = request'[t].to
<1>1. \A u \in Clients \ {t} : ~Busy(u)' /\ phase'[u] # "renumber"
  BY OthersWait DEF Busy, MapInv, MapTypeOK
<1>2. ASSUME phase'[t] = "renumber" PROVE Dict' = Entries(array', Renumbered(index', found'[t]))
  <2>1. (CHOOSE u \in Clients : phase'[u] = "renumber") = t
    BY <1>1, <1>2
  <2>2. QED
    BY <1>2, <2>1 DEF Dict, Entries, Renumbered
<1>3. ASSUME phase'[t] \in {"clear", "names", "elements"} PROVE Dict' = request'[t].to
  <2>1. Busy(t)' /\ ~ \E u \in Clients : phase'[u] = "renumber"
    BY <1>1, <1>3 DEF Busy
  <2>2. (CHOOSE u \in Clients : Busy(u)') = t
    BY <1>1, <2>1
  <2>3. QED
    BY <2>1, <2>2 DEF Dict
<1>4. ASSUME ~Busy(t)' PROVE Dict' = Entries(array', index')
  BY <1>1, <1>4 DEF Dict, Busy, Entries
<1>5. QED
  BY <1>2, <1>3, <1>4

(* What a step of t does to the calls and the answers. *)
LEMMA AskedNext ==
    ASSUME MapInv, NEW t \in Clients,
           request' = [request EXCEPT ![t] = request'[t]],
           phase' = [phase EXCEPT ![t] = phase'[t]],
           out' = [out EXCEPT ![t] = out'[t]]
    PROVE  /\ Asked' = [Asked EXCEPT ![t] = IF Busy(t)' THEN Idle ELSE request'[t]]
           /\ Answered' = [Answered EXCEPT ![t] = IF phase'[t] = "erase" THEN Null ELSE out'[t]]
<1>1. \A u \in Clients \ {t} : request'[u] = request[u] /\ phase'[u] = phase[u] /\ out'[u] = out[u]
  BY DEF MapInv, MapTypeOK
<1>2. Asked' = [Asked EXCEPT ![t] = IF Busy(t)' THEN Idle ELSE request'[t]]
  BY <1>1 DEF Asked, Busy
<1>3. Answered' = [Answered EXCEPT ![t] = IF phase'[t] = "erase" THEN Null ELSE out'[t]]
  BY <1>1 DEF Answered
<1>4. QED
  BY <1>2, <1>3

(* A step of t that changes neither the dictionary nor what t has called and got. *)
LEMMA Stutters ==
    ASSUME MapInv, NEW t \in Clients, Dict' = Dict,
           request' = [request EXCEPT ![t] = request'[t]],
           phase' = [phase EXCEPT ![t] = phase'[t]],
           out' = [out EXCEPT ![t] = out'[t]],
           \/ Busy(t) /\ (Busy(t)' \/ request'[t] = Idle)
           \/ ~Busy(t) /\ ~Busy(t)' /\ request'[t] = request[t],
           (IF phase'[t] = "erase" THEN Null ELSE out'[t])
               = (IF phase[t] = "erase" THEN Null ELSE out[t])
    PROVE  UNCHANGED Dictionary!dictVars
<1>1. Asked' = [Asked EXCEPT ![t] = Asked[t]]
  BY AskedNext DEF Asked
<1>2. Answered' = [Answered EXCEPT ![t] = Answered[t]]
  BY AskedNext DEF Answered
<1>3. Asked' = Asked /\ Answered' = Answered
  BY <1>1, <1>2 DEF Asked, Answered
<1>4. QED
  BY <1>3 DEF Dictionary!dictVars

(* A step of t by which its operation takes effect. *)
LEMMA Takes ==
    ASSUME MapInv, NEW t \in Clients, request[t] # Idle, ~Busy(t),
           request' = [request EXCEPT ![t] = request'[t]],
           phase' = [phase EXCEPT ![t] = phase'[t]],
           out' = [out EXCEPT ![t] = out'[t]],
           Busy(t)' \/ request'[t] = Idle, phase'[t] # "erase",
           Dict' = Dictionary!After(Dict, request[t]),
           out'[t] = Dictionary!Answer(Dict, request[t])
    PROVE  Dictionary!TakeEffect(t)
<1>1. Asked[t] = request[t]
  BY DEF Asked
<1>2. Asked' = [Asked EXCEPT ![t] = Idle]
  BY AskedNext
<1>3. Answered' = [Answered EXCEPT ![t] = Dictionary!Answer(Dict, Asked[t])]
  BY <1>1, AskedNext
<1>4. QED
  BY <1>1, <1>2, <1>3 DEF Dictionary!TakeEffect

(* The facts the steps outside removing and assigning share: the dictionary they *)
(* work on, and how it answers.                                                  *)
LEMMA Works ==
    ASSUME Orderly, MapInv, NEW t \in Clients, NEW s \in {"start", "locked", "take", "erase"},
           NEW ops, In(t, s, ops)
    PROVE  /\ Dict = Entries(array, index)
           /\ array \in Seq(Values) /\ Match(index, Len(array)) /\ ~Busy(t)
           /\ Len(array) \in Nat /\ DOMAIN array = 1 .. Len(array)
           /\ Dict \in Seq(Entry) /\ DOMAIN Dict = DOMAIN array /\ Len(Dict) = Len(array)
           /\ \A m \in Names : Dictionary!Position(Dict, m) = index[m]
           /\ \A i : Dictionary!ValueAt(Dict, i) = ElementAt(i)
           /\ \A i \in 1 .. MaxSize : Dictionary!NameAt(Dict, i) = NameOf(index, i)
<1>1. /\ request[t] # Idle /\ ~Busy(t) /\ Match(index, Len(array)) /\ array \in Seq(Values)
      /\ Len(array) \in Nat /\ DOMAIN array = 1 .. Len(array)
  BY Acting DEF Busy, MapTypeOK
<1>2. Dict = Entries(array, index)
  BY <1>1, DictNow
<1>3. \A i \in 1 .. MaxSize : i \in Nat \ {0}
  BY MapsAssumption
<1>4. QED
  BY <1>1, <1>2, <1>3, EntriesFacts DEF ElementAt

(* A step that returns. *)
LEMMA Returns ==
    ASSUME MapInv, NEW t \in Clients, NEW v, Gives(t, v)
    PROVE  /\ request'[t] = Idle /\ phase'[t] = "start" /\ out'[t] = v /\ ~Busy(t)'
           /\ request' = [request EXCEPT ![t] = request'[t]]
           /\ phase' = [phase EXCEPT ![t] = phase'[t]]
           /\ out' = [out EXCEPT ![t] = out'[t]]
<1>1. request'[t] = Idle /\ phase'[t] = "start" /\ out'[t] = v
  BY DEF Gives, MapInv, MapTypeOK
<1>2. QED
  BY <1>1 DEF Gives, Busy

(* A step that goes on. *)
LEMMA GoesOn ==
    ASSUME MapInv, NEW t \in Clients, NEW s, NEW i, Goes(t, s, i)
    PROVE  /\ request' = request /\ phase'[t] = s /\ found'[t] = i /\ out' = out
           /\ Busy(t)' <=> s \in {"renumber", "clear", "names", "elements"}
           /\ request' = [request EXCEPT ![t] = request'[t]]
           /\ phase' = [phase EXCEPT ![t] = phase'[t]]
           /\ out' = [out EXCEPT ![t] = out'[t]]
<1>1. request' = request /\ phase'[t] = s /\ found'[t] = i /\ out' = out
  BY DEF Goes, MapInv, MapTypeOK
<1>2. QED
  BY <1>1 DEF Goes, Busy, MapInv, MapTypeOK

(* An operation whose last step takes effect. *)
LEMMA ReturnTakes ==
    ASSUME Orderly, MapInv, NEW t \in Clients, NEW s \in {"start", "locked", "take", "erase"},
           NEW ops, In(t, s, ops), Gives(t, Dictionary!Answer(Dict, request[t])),
           Entries(array', index') = Dictionary!After(Dict, request[t])
    PROVE  Dictionary!TakeEffect(t)
<1>1. request[t] # Idle /\ ~Busy(t)
  BY Acting, Works
<1>2. Dict' = Entries(array', index')
  BY <1>1, Returns, DictNext
<1>3. QED
  BY <1>1, <1>2, Returns, Takes

(* The operations that read: what they return is what the dictionary answers. *)
LEMMA ReadsTake ==
    ASSUME Orderly, MapInv, NEW t \in Clients,
           \/ Find(t) \/ KeyAt(t) \/ GetElementAs(t) \/ CloneObject(t)
           \/ GetElementAt(t) \/ Size(t)
    PROVE  Dictionary!TakeEffect(t)
<1>  DEFINE r == request[t]
<1>1. PICK s \in {"start", "locked"} : \E ops :
        In(t, s, ops) /\ UNCHANGED <<array, index>>
  BY DEF Find, KeyAt, GetElementAs, CloneObject, GetElementAt, Size
<1>2. r \in Calls /\ r.op \in {"find", "keyAt", "get", "clone", "getAt", "size"}
  BY <1>1, Acting DEF Find, KeyAt, GetElementAs, CloneObject, GetElementAt, Size, In
<1>3. Entries(array', index') = Dictionary!After(Dict, r)
  <2>1. Dict = Entries(array, index)
    BY <1>1, Works
  <2>2. Dictionary!After(Dict, r) = Dict
    BY <1>2 DEF Dictionary!After
  <2>3. QED
    BY <1>1, <2>1, <2>2
<1>4. Gives(t, Dictionary!Answer(Dict, r))
  <2>1. CASE Find(t)
    <3>1. r.op = "find" /\ r.name \in Names
      BY <1>2, <2>1, CallFacts DEF Find, In
    <3>2. Dictionary!Answer(Dict, r) = index[r.name]
      BY <1>1, <3>1, Works DEF Dictionary!Answer
    <3>3. QED
      BY <2>1, <3>2 DEF Find
  <2>2. CASE KeyAt(t)
    <3>1. r.op = "keyAt" /\ r.pos \in 1 .. MaxSize
      BY <1>2, <2>2, CallFacts DEF KeyAt, In
    <3>2. Dictionary!Answer(Dict, r) = NameOf(index, r.pos)
      BY <1>1, <3>1, Works DEF Dictionary!Answer
    <3>3. QED
      BY <2>2, <3>2 DEF KeyAt
  <2>3. CASE GetElementAs(t)
    <3>1. r.op = "get" /\ r.name \in Names /\ phase[t] = "locked" /\ ClientInv(t)
      BY <1>1, <1>2, <2>3, CallFacts, Acting DEF GetElementAs, In
    <3>2. found[t] = index[r.name]
      BY <3>1 DEF ClientInv
    <3>3. Dictionary!Answer(Dict, r) = ElementAt(found[t])
      BY <1>1, <3>1, <3>2, Works DEF Dictionary!Answer
    <3>4. found[t] = 0 => ElementAt(found[t]) = Null
      BY <1>1, Works DEF ElementAt
    <3>5. QED
      BY <2>3, <3>3, <3>4 DEF GetElementAs
  <2>4. CASE CloneObject(t)
    <3>1. r.op = "clone"
      BY <2>4 DEF CloneObject, In
    <3>2. Dictionary!Answer(Dict, r) = Entries(array, index)
      BY <1>1, <3>1, Works DEF Dictionary!Answer
    <3>3. QED
      BY <2>4, <3>2 DEF CloneObject
  <2>5. CASE GetElementAt(t)
    <3>1. r.op = "getAt"
      BY <2>5 DEF GetElementAt, In
    <3>2. Dictionary!Answer(Dict, r) = ElementAt(r.pos)
      BY <1>1, <3>1, Works DEF Dictionary!Answer
    <3>3. QED
      BY <2>5, <3>2 DEF GetElementAt
  <2>6. CASE Size(t)
    <3>1. r.op = "size"
      BY <2>6 DEF Size, In
    <3>2. Dictionary!Answer(Dict, r) = Len(array)
      BY <1>1, <3>1, Works DEF Dictionary!Answer
    <3>3. QED
      BY <2>6, <3>2 DEF Size
  <2>7. QED
    BY <2>1, <2>2, <2>3, <2>4, <2>5, <2>6
<1>5. QED
  BY <1>1, <1>3, <1>4, ReturnTakes

(* SetElementAs: the entry of the name is changed, or added behind the others. *)
LEMMA SetElementAsTakes ==
    ASSUME Orderly, MapInv, NEW t \in Clients, SetElementAs(t)
    PROVE  Dictionary!TakeEffect(t)
<1>  DEFINE r == request[t]
<1>1. In(t, "locked", {"set"}) /\ Gives(t, Null)
  BY DEF SetElementAs
<1>2. /\ r.op = "set" /\ r.name \in Names /\ r.value \in Values
      /\ found[t] = index[r.name] /\ MapTypeOK
  BY <1>1, Acting, CallFacts DEF ClientInv
<1>3. /\ Dict = Entries(array, index) /\ array \in Seq(Values) /\ Match(index, Len(array))
      /\ DOMAIN array = 1 .. Len(array) /\ Len(array) \in Nat
      /\ Dictionary!Position(Dict, r.name) = found[t] /\ found[t] \in 0 .. Len(array)
  BY <1>1, <1>2, Works DEF Match
<1>4. Dictionary!Answer(Dict, r) = Null
  BY <1>2 DEF Dictionary!Answer
<1>5. CASE found[t] # 0
  <2>1. array' = [array EXCEPT ![found[t]] = r.value] /\ index' = index
    BY <1>2, <1>3, <1>5 DEF SetElementAs
  <2>2. Entries(array', index') = Changed(Dict, found[t], r.value)
    <3>1. found[t] \in 1 .. Len(array)
      BY <1>3, <1>5
    <3>2. /\ array' \in Seq(Values) /\ Len(array') = Len(array)
          /\ array'[found[t]] = r.value
          /\ \A j \in 1 .. Len(array) \ {found[t]} : array'[j] = array[j]
      BY <1>2, <1>3, <2>1, <3>1, SeqChanged
    <3>3. /\ Dict = Entries(array, index) /\ array \in Seq(Values)
          /\ Match(index, Len(array)) /\ index' = index
      BY <1>3, <2>1
    <3>4. Entries(array', index) = Changed(Entries(array, index), found[t], array'[found[t]])
      BY <3>1, <3>2, <3>3, EntriesChanged
    <3>5. QED
      BY <3>2, <3>3, <3>4
  <2>3. Dictionary!After(Dict, r) = Changed(Dict, found[t], r.value)
    BY <1>2, <1>3, <1>5 DEF Dictionary!After, Changed
  <2>4. QED
    BY <1>1, <1>4, <2>2, <2>3, ReturnTakes
<1>6. CASE found[t] = 0
  <2>1. /\ array' = Append(array, r.value)
        /\ index' = [index EXCEPT ![r.name] = Len(array) + 1]
    BY <1>2, <1>3, <1>6 DEF SetElementAs, MapTypeOK
  <2>2. Entries(array', index') = Append(Dict, [name |-> r.name, value |-> r.value])
    BY <1>2, <1>3, <1>6, <2>1, EntriesAppended
  <2>3. Dictionary!After(Dict, r) = Append(Dict, [name |-> r.name, value |-> r.value])
    BY <1>2, <1>3, <1>6 DEF Dictionary!After
  <2>4. QED
    BY <1>1, <1>4, <2>2, <2>3, ReturnTakes
<1>7. QED
  BY <1>5, <1>6

(* SetElementAt: the entry at the position is changed, if there is one. *)
LEMMA SetElementAtTakes ==
    ASSUME Orderly, MapInv, NEW t \in Clients, SetElementAt(t)
    PROVE  Dictionary!TakeEffect(t)
<1>  DEFINE r == request[t]
<1>1. In(t, "start", {"setAt"}) /\ Gives(t, Null) /\ index' = index
  BY DEF SetElementAt
<1>2. r.op = "setAt" /\ r.value \in Values
  BY <1>1, Acting, CallFacts
<1>3. /\ Dict = Entries(array, index) /\ array \in Seq(Values) /\ Match(index, Len(array))
      /\ DOMAIN array = 1 .. Len(array) /\ DOMAIN Dict = DOMAIN array
  BY <1>1, Works
<1>4. Dictionary!Answer(Dict, r) = Null
  BY <1>2 DEF Dictionary!Answer
<1>5. Entries(array', index') = Dictionary!After(Dict, r)
  <2>1. CASE r.pos \in DOMAIN array
    <3>1. Entries(array', index') = Changed(Dict, r.pos, r.value)
      <4>1. array' = [array EXCEPT ![r.pos] = r.value]
        BY <2>1 DEF SetElementAt
      <4>2. /\ array' \in Seq(Values) /\ Len(array') = Len(array)
            /\ array'[r.pos] = r.value
            /\ \A j \in 1 .. Len(array) \ {r.pos} : array'[j] = array[j]
        BY <1>2, <1>3, <2>1, <4>1, SeqChanged
      <4>3. QED
        BY <1>1, <1>3, <2>1, <4>2, EntriesChanged
    <3>2. QED
      BY <1>2, <1>3, <2>1, <3>1 DEF Dictionary!After, Changed
  <2>2. CASE r.pos \notin DOMAIN array
    <3>1. Dictionary!After(Dict, r) = Dict
      BY <1>2, <1>3, <2>2 DEF Dictionary!After
    <3>2. QED
      BY <1>1, <1>3, <2>2, <3>1 DEF SetElementAt
  <2>3. QED
    BY <2>1, <2>2
<1>6. QED
  BY <1>1, <1>4, <1>5, ReturnTakes

(* Removing: nothing is there to be removed, or the position is noted. *)
LEMMA FindToRemoveMaps ==
    ASSUME Orderly, MapInv, NEW t \in Clients, FindToRemove(t) \/ CheckToRemove(t)
    PROVE  Dictionary!TakeEffect(t) \/ UNCHANGED Dictionary!dictVars
<1>  DEFINE r == request[t]
<1>1. PICK op \in Removing : In(t, "start", {op}) /\ UNCHANGED <<array, index>>
  BY DEF FindToRemove, CheckToRemove, Removing
<1>2. /\ r.op = op /\ phase[t] = "start" /\ request[t] # Idle
      /\ op = "removeAs" => r.name \in Names
  BY <1>1, Acting, CallFacts DEF Removing
<1>3. Dict = Entries(array, index) /\ ~Busy(t)
  BY <1>1, Works
<1>4. CASE Gives(t, Null)
  <2>1. CASE op = "removeAs"
    <3>1. index[r.name] = 0
      BY <1>1, <1>2, <1>4, <2>1, Returns
         DEF FindToRemove, CheckToRemove, In, Goes, MapInv, MapTypeOK
    <3>2. Dictionary!Position(Dict, r.name) = 0 /\ Dictionary!ValueAt(Dict, 0) = Null
      BY <1>1, <1>2, <2>1, <3>1, Works DEF ElementAt
    <3>3. Dictionary!After(Dict, r) = Dict /\ Dictionary!Answer(Dict, r) = Null
      BY <1>2, <2>1, <3>2 DEF Dictionary!After, Dictionary!Answer
    <3>4. QED
      BY <1>1, <1>3, <1>4, <3>3, ReturnTakes
  <2>2. CASE op = "removeAt"
    <3>1. r.pos \notin DOMAIN array
      BY <1>1, <1>2, <1>4, <2>2, Returns
         DEF FindToRemove, CheckToRemove, In, Goes, MapInv, MapTypeOK
    <3>2. r.pos \notin DOMAIN Dict /\ Dictionary!ValueAt(Dict, r.pos) = Null
      BY <1>1, <3>1, Works DEF ElementAt
    <3>3. Dictionary!After(Dict, r) = Dict /\ Dictionary!Answer(Dict, r) = Null
      BY <1>2, <2>2, <3>2 DEF Dictionary!After, Dictionary!Answer
    <3>4. QED
      BY <1>1, <1>3, <1>4, <3>3, ReturnTakes
  <2>3. QED
    BY <2>1, <2>2 DEF Removing
<1>5. CASE ~Gives(t, Null)
  <2>1. PICK i : Goes(t, "take", i)
    BY <1>5 DEF FindToRemove, CheckToRemove
  <2>2. Dict' = Dict
    BY <1>1, <1>2, <1>3, <2>1, GoesOn, DictNext
  <2>3. QED
    BY <1>2, <1>3, <2>1, <2>2, GoesOn, Stutters
<1>6. QED
  BY <1>4, <1>5

(* The steps that only prepare one: the name is looked up, the element read. *)
LEMMA PreparesMaps ==
    ASSUME Orderly, MapInv, NEW t \in Clients, LookUp(t) \/ TakeOut(t)
    PROVE  UNCHANGED Dictionary!dictVars
<1>1. CASE LookUp(t)
  <2>1. PICK i : Goes(t, "locked", i)
    BY <1>1 DEF LookUp
  <2>2. /\ request[t] # Idle /\ phase[t] = "start" /\ ~Busy(t) /\ Dict = Entries(array, index)
        /\ UNCHANGED <<array, index>>
    BY <1>1, Acting, Works DEF LookUp
  <2>3. Dict' = Dict
    BY <2>1, <2>2, GoesOn, DictNext
  <2>4. QED
    BY <2>1, <2>2, <2>3, GoesOn, Stutters
<1>2. CASE TakeOut(t)
  <2>1. /\ request[t] # Idle /\ phase[t] = "take" /\ ~Busy(t) /\ Dict = Entries(array, index)
        /\ UNCHANGED <<array, index, request>> /\ MapTypeOK /\ ClientInv(t)
    BY <1>2, Acting, Works DEF TakeOut
  <2>2. /\ phase'[t] = "erase" /\ ~Busy(t)' /\ out[t] = Null
        /\ phase' = [phase EXCEPT ![t] = phase'[t]]
        /\ out' = [out EXCEPT ![t] = out'[t]]
        /\ request' = [request EXCEPT ![t] = request'[t]]
    BY <1>2, <2>1 DEF TakeOut, MapTypeOK, Busy, ClientInv
  <2>3. Dict' = Dict
    BY <2>1, <2>2, DictNext
  <2>4. QED
    BY <2>1, <2>2, <2>3, Stutters
<1>3. QED
  BY <1>1, <1>2

(* Erase: the entry is removed from the dictionary. *)
LEMMA EraseTakes ==
    ASSUME Orderly, MapInv, NEW t \in Clients, Erase(t)
    PROVE  Dictionary!TakeEffect(t)
<1>  DEFINE r == request[t]
            i == found[t]
<1>1. /\ In(t, "erase", Removing) /\ Goes(t, "renumber", i) /\ index' = index
      /\ array' = [j \in 1 .. Len(array) - 1 |-> IF j < i THEN array[j] ELSE array[j + 1]]
  BY DEF Erase, Removing
<1>2. /\ r \in Calls /\ r # Idle /\ r.op \in Removing /\ phase[t] = "erase" /\ ClientInv(t)
      /\ r.op = "removeAs" => r.name \in Names
      /\ i = Sought(t) /\ i \in 1 .. Len(array) /\ out[t] = array[i]
  BY <1>1, Acting, CallFacts DEF ClientInv
<1>3. /\ Dict = Entries(array, index) /\ array \in Seq(Values) /\ Match(index, Len(array))
      /\ ~Busy(t) /\ DOMAIN array = 1 .. Len(array) /\ DOMAIN Dict = DOMAIN array
      /\ r.op = "removeAs" => Dictionary!Position(Dict, r.name) = i
      /\ Dictionary!ValueAt(Dict, i) = array[i]
  BY <1>1, <1>2, Works DEF Sought, ElementAt
<1>4. Dict' = Entries(array', Renumbered(index', i))
  BY <1>1, <1>2, GoesOn, DictNext
<1>5. Dict' = Dictionary!Without(Dict, i)
  BY <1>1, <1>2, <1>3, <1>4, EntriesRemoved
<1>6. i # 0 /\ (r.op = "removeAt" => r.pos = i)
  BY <1>2 DEF Sought
<1>7. Dictionary!After(Dict, r) = Dictionary!Without(Dict, i)
  BY <1>2, <1>3, <1>6 DEF Dictionary!After, Removing
<1>8. Dictionary!Answer(Dict, r) = out[t]
  BY <1>2, <1>3, <1>6 DEF Dictionary!Answer, Removing
<1>9. QED
  BY <1>1, <1>2, <1>3, <1>5, <1>7, <1>8, GoesOn, Takes

(* RemoveElementAt: the index catches up. *)
LEMMA RemoveElementAtMaps ==
    ASSUME Orderly, MapInv, NEW t \in Clients, RemoveElementAt(t)
    PROVE  UNCHANGED Dictionary!dictVars
<1>1. /\ In(t, "renumber", Removing) /\ Gives(t, out[t]) /\ array' = array
      /\ index' = Renumbered(index, found[t])
  BY DEF RemoveElementAt, Removing
<1>2. request[t] # Idle /\ phase[t] = "renumber" /\ Busy(t)
  BY <1>1, Acting DEF Busy
<1>3. Dict = Entries(array, Renumbered(index, found[t]))
  BY <1>2, DictNow
<1>4. Dict' = Dict
  BY <1>1, <1>2, <1>3, Returns, DictNext
<1>5. QED
  BY <1>1, <1>2, <1>4, Returns, Stutters

(* The parts of an assignment: it takes effect when the array is cleared. *)
LEMMA AssignMaps ==
    ASSUME Orderly, MapInv, NEW t \in Clients,
           ClearArray(t) \/ ClearMap(t) \/ CloneMap(t) \/ CloneArray(t)
    PROVE  Dictionary!TakeEffect(t) \/ UNCHANGED Dictionary!dictVars
<1>  DEFINE r == request[t]
<1>1. \E s : In(t, s, {"assign"})
  BY DEF ClearArray, ClearMap, CloneMap, CloneArray
<1>2. r # Idle /\ r.op = "assign" /\ r.to \in Contents /\ ClientInv(t) /\ MapTypeOK
  BY <1>1, Acting, CallFacts
<1>3. CASE ClearArray(t)
  <2>1. Goes(t, "clear", 0) /\ phase[t] = "start" /\ ~Busy(t) /\ out[t] = Null
    BY <1>2, <1>3 DEF ClearArray, In, Busy, ClientInv
  <2>2. request'[t] = r /\ Dict' = r.to
    BY <1>2, <2>1, GoesOn, DictNext
  <2>3. Dictionary!After(Dict, r) = r.to /\ Dictionary!Answer(Dict, r) = Null
    BY <1>2 DEF Dictionary!After, Dictionary!Answer
  <2>4. QED
    BY <1>2, <2>1, <2>2, <2>3, GoesOn, Takes
<1>4. CASE ClearMap(t) \/ CloneMap(t)
  <2>1. /\ phase[t] \in {"clear", "names"} /\ Busy(t)
        /\ Goes(t, "names", 0) \/ Goes(t, "elements", 0)
    BY <1>4 DEF ClearMap, CloneMap, In, Busy
  <2>2. PICK s \in {"names", "elements"} : Goes(t, s, 0)
    BY <2>1
  <2>3. Dict = r.to
    BY <1>2, <2>1, DictNow
  <2>4. request'[t] = r /\ Dict' = r.to /\ Busy(t)' /\ phase'[t] # "erase"
    BY <1>2, <2>2, GoesOn, DictNext
  <2>5. QED
    BY <2>1, <2>2, <2>3, <2>4, GoesOn, Stutters
<1>5. CASE CloneArray(t)
  <2>1. /\ Gives(t, Null) /\ phase[t] = "elements" /\ Busy(t) /\ out[t] = Null
        /\ index' = Indexes(r.to) /\ array' = [i \in DOMAIN r.to |-> r.to[i].value]
    BY <1>2, <1>5 DEF CloneArray, In, Busy, ClientInv
  <2>2. Dict = r.to
    BY <1>2, <2>1, DictNow
  <2>3. Dict' = Entries(array', index')
    BY <1>2, <2>1, Returns, DictNext
  <2>4. Dict' = r.to
    BY <1>2, <2>1, <2>3, EntriesCloned
  <2>5. QED
    BY <2>1, <2>2, <2>4, Returns, Stutters
<1>6. QED
  BY <1>3, <1>4, <1>5

(* A call asks the dictionary. *)
LEMMA InvokeAsks ==
    ASSUME Orderly, MapInv, NEW t \in Clients, NEW r \in Calls, Invoke(t, r)
    PROVE  Dictionary!Ask(t)
<1>1. /\ MapTypeOK /\ request[t] = Idle /\ phase[t] = "start"
      /\ UNCHANGED <<array, index, phase, found>>
  BY DEF MapInv, Invoke, ClientInv
<1>2. /\ request'[t] = r /\ out'[t] = Null
      /\ request' = [request EXCEPT ![t] = request'[t]]
      /\ phase' = [phase EXCEPT ![t] = phase'[t]]
      /\ out' = [out EXCEPT ![t] = out'[t]]
      /\ \A u \in Clients \ {t} : request'[u] = request[u]
  BY <1>1 DEF Invoke, MapTypeOK
<1>3. /\ Asked' = [Asked EXCEPT ![t] = r]
      /\ Answered' = [Answered EXCEPT ![t] = Null]
  BY <1>1, <1>2, AskedNext DEF Busy
<1>4. Asked[t] = Idle /\ Asked'[t] = r
  BY <1>1, <1>2 DEF Asked, Busy
<1>5. r \in Dictionary!Requests
  BY DEF Calls, Dictionary!Requests
<1>6. Dict' = Dict
  <2>1. \A u \in Clients : (phase'[u] = phase[u]) /\ (Busy(u)' <=> Busy(u))
    BY <1>1 DEF Busy
  <2>2. ~Busy(t)
    BY <1>1 DEF Busy
  <2>3. \A u \in Clients : Busy(u) => request'[u] = request[u]
    BY <1>2, <2>2
  <2>4. (CHOOSE u \in Clients : Busy(u)') = (CHOOSE u \in Clients : Busy(u))
    BY <1>1 DEF Busy
  <2>5. CASE \E u \in Clients : phase[u] = "renumber"
    BY <1>1, <2>5 DEF Dict, Entries, Renumbered
  <2>6. CASE ~ \E u \in Clients : phase[u] = "renumber"
    <3>1. CASE \E u \in Clients : Busy(u)
      <4>1. request'[CHOOSE u \in Clients : Busy(u)] = request[CHOOSE u \in Clients : Busy(u)]
        BY <2>3, <3>1
      <4>2. QED
        BY <1>1, <2>1, <2>4, <2>6, <3>1, <4>1 DEF Dict
    <3>2. CASE ~ \E u \in Clients : Busy(u)
      BY <1>1, <2>1, <2>6, <3>2 DEF Dict, Entries
    <3>3. QED
      BY <3>1, <3>2
  <2>7. QED
    BY <2>5, <2>6
<1>7. QED
  BY <1>3, <1>4, <1>5, <1>6 DEF Dictionary!Ask

LEMMA DictInitMaps == MapInit => Dictionary!DictInit
<1>  SUFFICES ASSUME MapInit PROVE Dictionary!DictInit
  OBVIOUS
<1>1. \A t \in Clients : ~Busy(t) /\ phase[t] = "start" /\ request[t] = Idle /\ out[t] = Null
  BY DEF MapInit, Busy
<1>2. Dict = Entries(array, index)
  BY <1>1 DEF Dict
<1>3. Dict = <<>>
  BY <1>2 DEF MapInit, Entries
<1>4. QED
  BY <1>1, <1>3 DEF Dictionary!DictInit, Asked, Answered

LEMMA DictNextMaps ==
    Orderly /\ MapInv /\ [MapNext]_mapVars => [Dictionary!DictNext]_(Dictionary!dictVars)
<1>  SUFFICES ASSUME Orderly, MapInv, [MapNext]_mapVars
              PROVE  Dictionary!DictNext \/ UNCHANGED Dictionary!dictVars
  OBVIOUS
<1>1. ASSUME NEW t \in Clients, MapStep(t)
      PROVE  Dictionary!TakeEffect(t) \/ UNCHANGED Dictionary!dictVars
  BY <1>1, ReadsTake, SetElementAsTakes, SetElementAtTakes, FindToRemoveMaps, PreparesMaps,
     EraseTakes, RemoveElementAtMaps, AssignMaps DEF MapStep
<1>2. ASSUME NEW t \in Clients, NEW r \in Calls, Invoke(t, r) PROVE Dictionary!Ask(t)
  BY <1>2, InvokeAsks
<1>3. CASE UNCHANGED mapVars
  BY <1>3 DEF mapVars, Dictionary!dictVars, Dict, Asked, Answered, Busy, Entries, Renumbered
<1>4. QED
  BY <1>1, <1>2, <1>3 DEF MapNext, Dictionary!DictNext

(* A map that scripts share is an ordered dictionary, each operation of which takes   *)
(* effect at one moment between its call and its return.                              *)
THEOREM MapIsDictionary == ASSUME Orderly PROVE MapSpec => IsDictionary
  BY DictInitMaps, DictNextMaps, MapInvariant, PTL DEF MapSpec, IsDictionary, Dictionary!DictSpec

-----------------------------------------------------------------------------
(* Dates.  A year less one is 400 a + 100 b + 4 c + e; the number of a day *)
(* is then 146097 a + 36524 b + 1461 c + 365 e + k, whose divisions return *)
(* a, b, c, e and k, except for k = 365.                                   *)

(* The day a leap year has more. *)
Leap(y) == IF IsLeapYear(y) THEN 1 ELSE 0

(* The days before a month, month by month. *)
Table(y, m) ==
    IF m = 1 THEN 0 ELSE IF m = 2 THEN 31 ELSE Leap(y) +
    (IF m = 3 THEN 59 ELSE IF m = 4 THEN 90 ELSE IF m = 5 THEN 120 ELSE IF m = 6 THEN 151
     ELSE IF m = 7 THEN 181 ELSE IF m = 8 THEN 212 ELSE IF m = 9 THEN 243
     ELSE IF m = 10 THEN 273 ELSE IF m = 11 THEN 304 ELSE 334)

(* The table is the sum of the months. *)
LEMMA TableGrows ==
    ASSUME NEW y \in Nat, NEW m \in 1 .. 12
    PROVE  /\ Table(y, m) \in Nat /\ DaysOfMonth(y, m) \in 28 .. 31
           /\ m < 12 => Table(y, m + 1) = Table(y, m) + DaysOfMonth(y, m)
           /\ m = 12 => Table(y, m) + DaysOfMonth(y, m) = 365 + Leap(y)
<1>1. Leap(y) \in 0 .. 1 /\ (Leap(y) = 1 <=> IsLeapYear(y))
  BY DEF Leap
<1>2. QED
  BY <1>1 DEF Table, DaysOfMonth

(* So it is the function that DaysBefore defines, which has twelve values. *)
LEMMA DaysBeforeIs ==
    ASSUME NEW y \in Nat, NEW m \in 1 .. 12
    PROVE  DaysBefore(y, m) = Table(y, m)
<1>  DEFINE R(f) == f = [k \in 1 .. m |-> IF k = 1 THEN 0 ELSE f[k - 1] + DaysOfMonth(y, k - 1)]
<1>1. R([k \in 1 .. m |-> Table(y, k)])
  <2>  DEFINE F == [k \in 1 .. m |-> Table(y, k)]
  <2>1. ASSUME NEW k \in 1 .. m
        PROVE  F[k] = IF k = 1 THEN 0 ELSE F[k - 1] + DaysOfMonth(y, k - 1)
    <3>1. CASE k = 1
      BY <3>1 DEF Table
    <3>2. CASE k # 1
      <4>1. PICK j \in 1 .. 11 : k = j + 1
        <5>1. k - 1 \in 1 .. 11 /\ k = (k - 1) + 1
          BY <3>2
        <5>2. QED
          BY <5>1
      <4>2. Table(y, j + 1) = Table(y, j) + DaysOfMonth(y, j)
        <5>1. j \in 1 .. 12 /\ j < 12
          OBVIOUS
        <5>2. QED
          BY <5>1, TableGrows
      <4>3. k - 1 = j /\ j \in 1 .. m
        BY <4>1
      <4>4. QED
        BY <3>2, <4>1, <4>2, <4>3
    <3>3. QED
      BY <3>1, <3>2
  <2>2. F = [k \in 1 .. m |-> F[k]]
    OBVIOUS
  <2>  HIDE DEF F
  <2>3. R(F)
    BY <2>1, <2>2
  <2>4. QED
    BY <2>3 DEF F
<1>2. DaysBefore(y, m) = (CHOOSE f : R(f))[m]
  BY DEF DaysBefore
<1>3. PICK g : g = (CHOOSE f : R(f)) /\ R(g)
  BY <1>1
<1>  DEFINE S(k) == k <= m => g[k] = Table(y, k)
<1>4. S(1)
  <2>1. 1 \in 1 .. m
    OBVIOUS
  <2>2. g[1] = 0 /\ Table(y, 1) = 0
    BY <1>3, <2>1 DEF Table
  <2>3. QED
    BY <2>2
<1>5. ASSUME NEW k \in 1 .. 11, S(k) PROVE S(k + 1)
  <2>  SUFFICES ASSUME k + 1 <= m PROVE g[k + 1] = Table(y, k + 1)
    OBVIOUS
  <2>1. k + 1 \in 1 .. m /\ k + 1 # 1 /\ (k + 1) - 1 = k /\ k < 12 /\ k \in 1 .. 12
    OBVIOUS
  <2>2. g[k + 1] = g[k] + DaysOfMonth(y, k)
    BY <1>3, <2>1
  <2>3. Table(y, k + 1) = Table(y, k) + DaysOfMonth(y, k)
    BY <2>1, TableGrows
  <2>4. QED
    BY <1>5, <2>1, <2>2, <2>3
<1>  HIDE DEF S
<1>6. S(2) /\ S(3) /\ S(4) /\ S(5) /\ S(6) /\ S(7)
  <2>1. S(2)
    BY <1>4, <1>5, 1 + 1 = 2
  <2>2. S(3)
    BY <1>5, <2>1, 2 + 1 = 3
  <2>3. S(4)
    BY <1>5, <2>2, 3 + 1 = 4
  <2>4. S(5)
    BY <1>5, <2>3, 4 + 1 = 5
  <2>5. S(6)
    BY <1>5, <2>4, 5 + 1 = 6
  <2>6. S(7)
    BY <1>5, <2>5, 6 + 1 = 7
  <2>7. QED
    BY <2>1, <2>2, <2>3, <2>4, <2>5, <2>6
<1>7. S(8) /\ S(9) /\ S(10) /\ S(11) /\ S(12)
  <2>1. S(8)
    BY <1>5, <1>6, 7 + 1 = 8
  <2>2. S(9)
    BY <1>5, <2>1, 8 + 1 = 9
  <2>3. S(10)
    BY <1>5, <2>2, 9 + 1 = 10
  <2>4. S(11)
    BY <1>5, <2>3, 10 + 1 = 11
  <2>5. S(12)
    BY <1>5, <2>4, 11 + 1 = 12
  <2>6. QED
    BY <2>1, <2>2, <2>3, <2>4, <2>5
<1>8. S(m)
  BY <1>4, <1>6, <1>7
<1>9. m <= m
  OBVIOUS
<1>10. QED
  BY <1>2, <1>3, <1>8, <1>9 DEF S

(* The days before the year y. *)
Start(y) == (y - 1) * 365 + (y - 1) \div 4 - (y - 1) \div 100 + (y - 1) \div 400

(* The position of a year in its 400, 100 and 4 years. *)
Parts(y, a, b, c, e) ==
    /\ y = 400 * a + 100 * b + 4 * c + e + 1
    /\ Start(y) = 146097 * a + 36524 * b + 1461 * c + 365 * e
    /\ Leap(y) = IF e = 3 /\ (c # 24 \/ b = 3) THEN 1 ELSE 0

(* Every year has one. *)
LEMMA YearParts ==
    ASSUME NEW y \in Nat \ {0}
    PROVE  \E a \in Nat, b \in 0 .. 3, c \in 0 .. 24, e \in 0 .. 3 : Parts(y, a, b, c, e)
<1>  DEFINE a == (y - 1) \div 400
            u == (y - 1) % 400
            b == u \div 100
            v == u % 100
            c == v \div 4
            e == v % 4
<1>1. a \in Nat /\ u \in 0 .. 399 /\ y - 1 = 400 * a + u
  OBVIOUS
<1>  HIDE DEF a, u
<1>2. b \in 0 .. 3 /\ v \in 0 .. 99 /\ u = 100 * b + v
  BY <1>1
<1>  HIDE DEF b, v
<1>3. c \in 0 .. 24 /\ e \in 0 .. 3 /\ v = 4 * c + e
  BY <1>2
<1>  HIDE DEF c, e
<1>4. y = 400 * a + 100 * b + 4 * c + e + 1
  BY <1>1, <1>2, <1>3
<1>5. (y - 1) \div 4 = 100 * a + 25 * b + c
  BY <1>1, <1>2, <1>3
<1>6. (y - 1) \div 100 = 4 * a + b
  BY <1>1, <1>2, <1>3
<1>7. (y - 1) \div 400 = a
  BY DEF a
<1>8. Start(y) = 146097 * a + 36524 * b + 1461 * c + 365 * e
  BY <1>1, <1>2, <1>3, <1>4, <1>5, <1>6, <1>7 DEF Start
<1>9. y % 4 = 0 <=> e = 3
  BY <1>1, <1>2, <1>3, <1>4
<1>10. y % 100 = 0 <=> e = 3 /\ c = 24
  BY <1>1, <1>2, <1>3, <1>4
<1>11. y % 400 = 0 <=> e = 3 /\ c = 24 /\ b = 3
  BY <1>1, <1>2, <1>3, <1>4
<1>12. Leap(y) = IF e = 3 /\ (c # 24 \/ b = 3) THEN 1 ELSE 0
  BY <1>9, <1>10, <1>11 DEF Leap, IsLeapYear
<1>13. Parts(y, a, b, c, e)
  BY <1>4, <1>8, <1>12 DEF Parts
<1>14. QED
  BY <1>1, <1>2, <1>3, <1>13

(* A leap year has a day more. *)
LEMMA NextYear ==
    ASSUME NEW y \in Nat \ {0}
    PROVE  Start(y) \in Nat /\ Leap(y) \in 0 .. 1 /\ Start(y + 1) = Start(y) + 365 + Leap(y)
<1>1. Start(y) \in Nat
  <2>1. PICK a \in Nat, b \in 0 .. 3, c \in 0 .. 24, e \in 0 .. 3 : Parts(y, a, b, c, e)
    BY YearParts
  <2>2. 146097 * a \in Nat /\ 36524 * b \in Nat /\ 1461 * c \in Nat /\ 365 * e \in Nat
    OBVIOUS
  <2>3. QED
    BY <2>1, <2>2 DEF Parts
<1>2. /\ y \div 4 = (y - 1) \div 4 + (IF y % 4 = 0 THEN 1 ELSE 0)
      /\ y \div 100 = (y - 1) \div 100 + (IF y % 100 = 0 THEN 1 ELSE 0)
      /\ y \div 400 = (y - 1) \div 400 + (IF y % 400 = 0 THEN 1 ELSE 0)
  OBVIOUS
<1>3. /\ y % 400 = 0 => y % 100 = 0
      /\ y % 100 = 0 => y % 4 = 0
  OBVIOUS
<1>4. (y + 1) - 1 = y /\ y * 365 = (y - 1) * 365 + 365
  OBVIOUS
<1>  DEFINE Q(n) == (y - 1) \div n
<1>5. Q(4) \in Nat /\ Q(100) \in Nat /\ Q(400) \in Nat
  OBVIOUS
<1>6. Start(y + 1) = Start(y) + 365 + Leap(y)
  BY <1>2, <1>3, <1>4, <1>5 DEF Start, Leap, IsLeapYear
<1>7. QED
  BY <1>1, <1>6 DEF Leap

(* The first day of a year. *)
LEMMA NewYear ==
    ASSUME NEW y \in Nat \ {0}
    PROVE  NumberOfDays(y, 1, 1) = Start(y)
<1>1. DaysBefore(y, 1) = 0
  BY DaysBeforeIs DEF Table
<1>2. Start(y) \in Nat
  BY NextYear
<1>3. QED
  BY <1>1, <1>2 DEF NumberOfDays, Start

(* The divisions of SetNumberOfDays find the year and the day in the year. *)
LEMMA CountBack ==
    ASSUME NEW y \in Nat \ {0}, NEW k \in 0 .. 364 + Leap(y)
    PROVE  SetNumberOfDays(Start(y) + k) = DayOfYear(y, k)
<1>  DEFINE n == Start(y) + k
            in400 == n % 146097
            in100 == in400 % 36524
            in4 == in100 % 1461
            z == (n \div 146097) * 400 + (in400 \div 36524) * 100 + (in100 \div 1461) * 4
                     + in4 \div 365 + 1
<1>0. PICK a \in Nat, b \in 0 .. 3, c \in 0 .. 24, e \in 0 .. 3 : Parts(y, a, b, c, e)
  BY YearParts
<1>1. /\ y = 400 * a + 100 * b + 4 * c + e + 1
      /\ Start(y) = 146097 * a + 36524 * b + 1461 * c + 365 * e
      /\ Leap(y) = IF e = 3 /\ (c # 24 \/ b = 3) THEN 1 ELSE 0
  BY <1>0 DEF Parts
<1>2. SetNumberOfDays(n) =
          IF in4 % 365 = 0 /\ n + 1 = NumberOfDays(z, 1, 1) THEN DayOfYear(z - 1, 365)
          ELSE DayOfYear(z, in4 % 365)
  BY DEF SetNumberOfDays
<1>3. n \div 146097 = a /\ in400 = 36524 * b + 1461 * c + 365 * e + k
  BY <1>1
<1>4. n \in Nat
  BY NextYear
<1>  HIDE DEF n, in400
<1>5. CASE k < 365
  <2>1. in400 \div 36524 = b /\ in100 = 1461 * c + 365 * e + k
    BY <1>1, <1>3, <1>5
  <2>  HIDE DEF in100
  <2>2. in100 \div 1461 = c /\ in4 = 365 * e + k
    BY <2>1, <1>5
  <2>  HIDE DEF in4
  <2>3. in4 \div 365 = e /\ in4 % 365 = k
    BY <2>2, <1>5
  <2>4. z = y
    BY <1>1, <1>3, <2>1, <2>2, <2>3
  <2>5. k = 0 => n + 1 # NumberOfDays(y, 1, 1)
    BY NewYear, NextYear DEF n
  <2>  HIDE DEF z
  <2>6. QED
    BY <1>2, <2>3, <2>4, <2>5 DEF n
<1>6. CASE k = 365
  <2>1. Leap(y) = 1 /\ e = 3
    BY <1>1, <1>6, NextYear
  <2>2. z = y + 1 /\ in4 % 365 = 0
    <3>1. CASE b = 3 /\ c = 24
      <4>1. in400 \div 36524 = 4 /\ in100 = 0
        BY <1>3, <1>6, <2>1, <3>1
      <4>  HIDE DEF in100
      <4>2. in100 \div 1461 = 0 /\ in4 = 0
        BY <4>1
      <4>  HIDE DEF in4
      <4>3. in4 \div 365 = 0 /\ in4 % 365 = 0
        BY <4>2
      <4>4. QED
        BY <1>1, <1>3, <2>1, <3>1, <4>1, <4>2, <4>3
    <3>2. CASE ~(b = 3 /\ c = 24)
      <4>1. in400 \div 36524 = b /\ in100 = 1461 * c + 1460
        BY <1>1, <1>3, <1>6, <2>1, <3>2
      <4>  HIDE DEF in100
      <4>2. in100 \div 1461 = c /\ in4 = 1460
        BY <4>1
      <4>  HIDE DEF in4
      <4>3. in4 \div 365 = 4 /\ in4 % 365 = 0
        BY <4>2
      <4>4. QED
        BY <1>1, <1>3, <2>1, <3>2, <4>1, <4>2, <4>3
    <3>3. QED
      BY <3>1, <3>2
  <2>3. n + 1 = NumberOfDays(y + 1, 1, 1)
    <3>1. y + 1 \in Nat \ {0}
      OBVIOUS
    <3>2. NumberOfDays(y + 1, 1, 1) = Start(y) + 365 + 1
      BY <2>1, <3>1, NewYear, NextYear
    <3>3. Start(y) \in Nat
      BY NextYear
    <3>4. QED
      BY <1>6, <3>2, <3>3 DEF n
  <2>  HIDE DEF z, in4
  <2>4. (y + 1) - 1 = y
    OBVIOUS
  <2>5. QED
    BY <1>2, <1>6, <2>2, <2>3, <2>4 DEF n
<1>7. k < 365 \/ k = 365
  BY NextYear
<1>8. QED
  BY <1>5, <1>6, <1>7

(* A date with its week. *)
DateOf(y, m, d) ==
    [year |-> y, month |-> m, day |-> d, week |-> (NumberOfDays(y, m, d) + 1) % 7]

IsDate(y, m, d) == y \in Nat \ {0} /\ m \in 1 .. 12 /\ d \in 1 .. DaysOfMonth(y, m)

(* Months do not overlap. *)
LEMMA MonthsApart ==
    ASSUME NEW y \in Nat, NEW j \in 1 .. 12, NEW m \in 1 .. 12, j < m
    PROVE  Table(y, j) + DaysOfMonth(y, j) <= Table(y, m)
<1>1. Leap(y) \in 0 .. 1 /\ (Leap(y) = 1 <=> IsLeapYear(y))
  BY DEF Leap
<1>2. QED
  BY <1>1 DEF Table, DaysOfMonth

(* The month and the day are found. *)
LEMMA MonthFound ==
    ASSUME NEW y, NEW m, NEW d, IsDate(y, m, d)
    PROVE  DayOfYear(y, Table(y, m) + d - 1) = DateOf(y, m, d)
<1>  DEFINE n == Table(y, m) + d - 1
            P(k) == DaysBefore(y, k) <= n /\ n < DaysBefore(y, k) + DaysOfMonth(y, k)
<1>1. y \in Nat /\ m \in 1 .. 12 /\ d \in 1 .. DaysOfMonth(y, m)
  BY DEF IsDate
<1>2. ASSUME NEW k \in 1 .. 12
      PROVE  DaysBefore(y, k) = Table(y, k) /\ Table(y, k) \in Nat /\ DaysOfMonth(y, k) \in Nat
  <2>1. Table(y, k) \in Nat /\ DaysOfMonth(y, k) \in 28 .. 31
    BY <1>1, TableGrows
  <2>2. QED
    BY <1>1, <2>1, DaysBeforeIs
<1>3. P(m)
  BY <1>1, <1>2
<1>4. ASSUME NEW k \in 1 .. 12, P(k) PROVE k = m
  <2>1. ~(k < m)
    <3>  SUFFICES ASSUME k < m PROVE FALSE
      OBVIOUS
    <3>1. Table(y, k) + DaysOfMonth(y, k) <= Table(y, m)
      BY <1>1, MonthsApart
    <3>2. QED
      BY <1>1, <1>2, <1>4, <3>1
  <2>2. ~(m < k)
    <3>  SUFFICES ASSUME m < k PROVE FALSE
      OBVIOUS
    <3>1. Table(y, m) + DaysOfMonth(y, m) <= Table(y, k)
      BY <1>1, MonthsApart
    <3>2. QED
      BY <1>1, <1>2, <1>4, <3>1
  <2>3. QED
    BY <1>1, <2>1, <2>2
<1>5. n \in Nat /\ n - Table(y, m) + 1 = d
  BY <1>1, <1>2
<1>  HIDE DEF n
<1>6. (CHOOSE k \in 1 .. 12 : P(k)) = m
  BY <1>1, <1>3, <1>4
<1>7. DaysBefore(y, m) = Table(y, m)
  BY <1>1, <1>2
<1>8. DayOfYear(y, n) =
          [year |-> y, month |-> m, day |-> n - DaysBefore(y, m) + 1,
           week |-> (NumberOfDays(y, m, n - DaysBefore(y, m) + 1) + 1) % 7]
  BY <1>6 DEF DayOfYear
<1>9. QED
  BY <1>5, <1>7, <1>8 DEF DateOf, n

(* The number of a day, in its year. *)
LEMMA NumberIs ==
    ASSUME NEW y, NEW m, NEW d, IsDate(y, m, d)
    PROVE  /\ Table(y, m) + d - 1 \in 0 .. 364 + Leap(y)
           /\ NumberOfDays(y, m, d) = Start(y) + (Table(y, m) + d - 1)
           /\ NumberOfDays(y, m, d) \in Nat
<1>1. y \in Nat \ {0} /\ y \in Nat /\ m \in 1 .. 12 /\ d \in 1 .. DaysOfMonth(y, m)
  BY DEF IsDate
<1>2. /\ Table(y, m) \in Nat /\ DaysOfMonth(y, m) \in 28 .. 31
      /\ Table(y, 12) \in Nat /\ DaysOfMonth(y, 12) \in 28 .. 31
      /\ Table(y, 12) + DaysOfMonth(y, 12) = 365 + Leap(y)
  <2>1. 12 \in 1 .. 12
    OBVIOUS
  <2>2. QED
    BY <1>1, <2>1, TableGrows
<1>3. Table(y, m) + DaysOfMonth(y, m) <= 365 + Leap(y)
  <2>1. CASE m = 12
    BY <1>2, <2>1
  <2>2. CASE m < 12
    <3>1. Table(y, m) + DaysOfMonth(y, m) <= Table(y, 12)
      BY <1>1, <2>2, MonthsApart
    <3>2. QED
      BY <1>2, <3>1
  <2>3. QED
    BY <1>1, <2>1, <2>2
<1>4. Start(y) \in Nat /\ Leap(y) \in 0 .. 1
  BY <1>1, NextYear
<1>5. Table(y, m) + d - 1 \in 0 .. 364 + Leap(y)
  BY <1>1, <1>2, <1>3, <1>4
<1>6. NumberOfDays(y, m, d) = Start(y) + DaysBefore(y, m) + d - 1
  BY DEF NumberOfDays, Start
<1>7. DaysBefore(y, m) = Table(y, m)
  BY <1>1, DaysBeforeIs
<1>8. NumberOfDays(y, m, d) = Start(y) + (Table(y, m) + d - 1)
  BY <1>1, <1>2, <1>4, <1>6, <1>7
<1>9. QED
  BY <1>4, <1>5, <1>8

(* SetNumberOfDays turns the number that NumberOfDays returns back into the date, for   *)
(* every date, the last day of a leap year included.                                   *)
THEOREM DaysAreDates ==
    ASSUME NEW y, NEW m, NEW d, IsDate(y, m, d)
    PROVE  SetNumberOfDays(NumberOfDays(y, m, d)) = DateOf(y, m, d)
<1>1. y \in Nat \ {0}
  BY DEF IsDate
<1>2. SetNumberOfDays(Start(y) + (Table(y, m) + d - 1)) = DayOfYear(y, Table(y, m) + d - 1)
  BY <1>1, NumberIs, CountBack
<1>3. QED
  BY <1>2, NumberIs, MonthFound

(* The day after a date. *)
LEMMA NextDay ==
    ASSUME NEW y, NEW m, NEW d, IsDate(y, m, d)
    PROVE  \E y2, m2, d2 :
              /\ IsDate(y2, m2, d2) /\ NumberOfDays(y2, m2, d2) = NumberOfDays(y, m, d) + 1
              /\ Successor(DateOf(y, m, d)) = DateOf(y2, m2, d2)
<1>  DEFINE n == NumberOfDays(y, m, d)
            w == (n + 1) % 7
            t == DateOf(y, m, d)
<1>1. y \in Nat \ {0} /\ y \in Nat /\ m \in 1 .. 12 /\ d \in 1 .. DaysOfMonth(y, m)
  BY DEF IsDate
<1>2. /\ n \in Nat /\ n = Start(y) + (Table(y, m) + d - 1) /\ Start(y) \in Nat
      /\ Leap(y) \in 0 .. 1
  BY <1>1, NumberIs, NextYear
<1>3. /\ Table(y, m) \in Nat /\ DaysOfMonth(y, m) \in 28 .. 31
      /\ m < 12 => Table(y, m + 1) = Table(y, m) + DaysOfMonth(y, m)
      /\ m = 12 => Table(y, m) + DaysOfMonth(y, m) = 365 + Leap(y)
  BY <1>1, TableGrows
<1>4. t = [year |-> y, month |-> m, day |-> d, week |-> w]
  BY DEF DateOf
<1>5. (w + 1) % 7 = ((n + 1) + 1) % 7
  BY <1>2
<1>  HIDE DEF n, w, t
<1>6. CASE d < DaysOfMonth(y, m)
  <2>1. IsDate(y, m, d + 1)
    BY <1>1, <1>3, <1>6 DEF IsDate
  <2>2. NumberOfDays(y, m, d + 1) = n + 1
    BY <1>1, <1>2, <1>3, <2>1, NumberIs
  <2>3. Successor(t) = [year |-> y, month |-> m, day |-> d + 1, week |-> (w + 1) % 7]
    BY <1>4, <1>6 DEF Successor
  <2>4. Successor(t) = DateOf(y, m, d + 1)
    BY <1>5, <2>2, <2>3 DEF DateOf
  <2>5. QED
    BY <2>1, <2>2, <2>4 DEF n, t
<1>7. CASE d = DaysOfMonth(y, m) /\ m < 12
  <2>1. m + 1 \in 1 .. 12
    BY <1>1, <1>7
  <2>2. DaysOfMonth(y, m + 1) \in 28 .. 31
    BY <1>1, <2>1, TableGrows
  <2>3. IsDate(y, m + 1, 1)
    BY <1>1, <2>1, <2>2 DEF IsDate
  <2>4. NumberOfDays(y, m + 1, 1) = n + 1
    BY <1>2, <1>3, <1>7, <2>3, NumberIs
  <2>5. Successor(t) = [year |-> y, month |-> m + 1, day |-> 1, week |-> (w + 1) % 7]
    <3>1. t.year = y /\ t.month = m /\ t.day = d /\ t.week = w
      BY <1>4
    <3>2. ~(d < DaysOfMonth(y, m)) /\ m < 12
      BY <1>3, <1>7
    <3>3. Successor(t) = [t EXCEPT !.day = 1, !.month = @ + 1, !.week = (w + 1) % 7]
      BY <3>1, <3>2 DEF Successor
    <3>4. QED
      BY <1>4, <3>3
  <2>6. Successor(t) = DateOf(y, m + 1, 1)
    BY <1>5, <2>4, <2>5 DEF DateOf
  <2>7. QED
    BY <2>3, <2>4, <2>6 DEF n, t
<1>8. CASE d = DaysOfMonth(y, m) /\ m = 12
  <2>1. y + 1 \in Nat \ {0} /\ y + 1 \in Nat /\ 1 \in 1 .. 12
    BY <1>1
  <2>2. DaysOfMonth(y + 1, 1) \in 28 .. 31
    BY <2>1, TableGrows
  <2>3. IsDate(y + 1, 1, 1)
    BY <2>1, <2>2 DEF IsDate
  <2>4. NumberOfDays(y + 1, 1, 1) = n + 1
    <3>1. NumberOfDays(y + 1, 1, 1) = Start(y) + 365 + Leap(y)
      BY <1>1, <2>1, NewYear, NextYear
    <3>2. QED
      BY <1>2, <1>3, <1>8, <3>1
  <2>5. Successor(t) = [year |-> y + 1, month |-> 1, day |-> 1, week |-> (w + 1) % 7]
    BY <1>1, <1>4, <1>8 DEF Successor
  <2>6. Successor(t) = DateOf(y + 1, 1, 1)
    BY <1>5, <2>4, <2>5 DEF DateOf
  <2>7. QED
    BY <2>3, <2>4, <2>6 DEF n, t
<1>9. QED
  BY <1>1, <1>3, <1>6, <1>7, <1>8

(* The clock is at a date. *)
AtDate == \E y, m, d : IsDate(y, m, d) /\ date = DateOf(y, m, d)

(* A step takes the clock to the successor. *)
LEMMA ClockMoves ==
    ASSUME AtDate, CalendarNext
    PROVE  AtDate' /\ date' = Successor(date)
<1>1. PICK y, m, d : IsDate(y, m, d) /\ date = DateOf(y, m, d)
  BY DEF AtDate
<1>2. date.year = y /\ date.month = m /\ date.day = d
  BY <1>1 DEF DateOf
<1>3. date' = SetNumberOfDays(NumberOfDays(y, m, d) + 1)
  BY <1>2 DEF CalendarNext
<1>4. PICK y2, m2, d2 :
          /\ IsDate(y2, m2, d2) /\ NumberOfDays(y2, m2, d2) = NumberOfDays(y, m, d) + 1
          /\ Successor(DateOf(y, m, d)) = DateOf(y2, m2, d2)
  BY <1>1, NextDay
<1>5. date' = DateOf(y2, m2, d2)
  BY <1>3, <1>4, DaysAreDates
<1>6. QED
  BY <1>1, <1>4, <1>5 DEF AtDate

(* The clock starts at the first day of a month. *)
LEMMA ClockStarts ==
    ASSUME CalendarInit
    PROVE  AtDate
<1>1. PICK y \in Years, m \in 1 .. 12 : date = DayOfYear(y, DaysBefore(y, m))
  BY DEF CalendarInit
<1>2. y \in Nat \ {0} /\ y \in Nat
  BY CalendarAssumption
<1>3. Table(y, m) \in Nat /\ DaysOfMonth(y, m) \in 28 .. 31
  BY <1>2, TableGrows
<1>4. IsDate(y, m, 1)
  BY <1>2, <1>3 DEF IsDate
<1>5. Table(y, m) + 1 - 1 = DaysBefore(y, m)
  BY <1>2, <1>3, DaysBeforeIs
<1>6. QED
  BY <1>1, <1>4, <1>5, MonthFound DEF AtDate

(* The day after each date is its successor, for every year: no day is lost or repeated. *)
THEOREM EveryDayFollows == CalendarSpec => DaysFollow
<1>1. CalendarInit => AtDate
  BY ClockStarts
<1>2. AtDate /\ [CalendarNext]_date => AtDate'
  <2>1. ASSUME AtDate, UNCHANGED date PROVE AtDate'
    BY <2>1 DEF AtDate
  <2>2. QED
    BY <2>1, ClockMoves
<1>3. AtDate /\ [CalendarNext]_date => [date' = Successor(date)]_date
  BY ClockMoves
<1>4. QED
  BY <1>1, <1>2, <1>3, PTL DEF CalendarSpec, DaysFollow
=============================================================================
