-------------------------------- MODULE Maps --------------------------------
(***************************************************************************)
(* A Map object (LMapObj) that several threads share: an array of elements,   *)
(* under the spin lock m_mtxArray, and the index of each name, under          *)
(* m_mtxMap.  A name is looked up and used under m_mtxMap; removing and        *)
(* assigning give the locks up between their parts, so that scripts that share *)
(* a map have to do them under synchronized (Exclusive).                       *)
(*                                                                         *)
(* Positions count from 1, 0 is "none".                                       *)
(***************************************************************************)
EXTENDS Integers, Sequences

CONSTANTS Clients,   \* the threads that use the map
          Names,     \* the keys
          Values,    \* the elements
          Null,      \* nullptr
          Contents,  \* the maps that scripts assign to this one
          Idle,      \* no call
          Exclusive, \* the operations scripts call under synchronized
          MaxSize    \* bound: the entries of the map

Ops == {"set", "get", "find", "keyAt", "getAt", "setAt", "size", "clone",
        "removeAt", "removeAs", "assign"}

Calls ==
    [op : {"set"}, name : Names, value : Values]
    \cup [op : {"get", "find", "removeAs"}, name : Names]
    \cup [op : {"keyAt", "getAt", "removeAt"}, pos : 1 .. MaxSize]
    \cup [op : {"setAt"}, pos : 1 .. MaxSize, value : Values]
    \cup [op : {"size", "clone"}]
    \cup [op : {"assign"}, to : Contents]

ASSUME MapsAssumption ==
    /\ Exclusive \subseteq Ops
    /\ MaxSize \in Nat
    /\ Null \notin Clients /\ Idle \notin Calls
    /\ \A d \in Contents :
        /\ d \in Seq([name : Names, value : Values])
        /\ \A i, j \in DOMAIN d : d[i].name = d[j].name => i = j

VARIABLES array,    \* m_array
          index,    \* m_map
          mtxMap,   \* the thread that holds m_mtxMap
          request,  \* the operation each thread is in
          phase,    \* where in it
          found,    \* the position it works on
          out       \* what its last operation returned, Null within one

mapVars == <<array, index, mtxMap, request, phase, found, out>>

MapInit ==
    /\ array = <<>>
    /\ index = [n \in Names |-> 0]
    /\ mtxMap = Null
    /\ request = [t \in Clients |-> Idle]
    /\ phase = [t \in Clients |-> "start"]
    /\ found = [t \in Clients |-> 0]
    /\ out = [t \in Clients |-> Null]

-----------------------------------------------------------------------------
In(t, s, ops) == request[t] # Idle /\ phase[t] = s /\ request[t].op \in ops

(* GetElementAt, without the lock: nullptr out of the bounds. *)
ElementAt(i) == IF i \in DOMAIN array THEN array[i] ELSE Null

(* The names and values, as AsExpression and CloneObject find them. *)
NameOf(x, i) == IF \E n \in Names : x[n] = i THEN CHOOSE n \in Names : x[n] = i ELSE Null
Entries(a, x) == [i \in DOMAIN a |-> [name |-> NameOf(x, i), value |-> a[i]]]

(* t returns v. *)
Gives(t, v) ==
    /\ out' = [out EXCEPT ![t] = v]
    /\ request' = [request EXCEPT ![t] = Idle]
    /\ phase' = [phase EXCEPT ![t] = "start"]
    /\ found' = [found EXCEPT ![t] = 0]

Goes(t, s, i) ==
    /\ phase' = [phase EXCEPT ![t] = s]
    /\ found' = [found EXCEPT ![t] = i]
    /\ UNCHANGED <<request, out>>

(* A script calls an operation; those in Exclusive keep the others out. *)
Invoke(t, r) ==
    /\ request[t] = Idle
    /\ \A u \in Clients : request[u] # Idle =>
            r.op \notin Exclusive /\ request[u].op \notin Exclusive
    /\ request' = [request EXCEPT ![t] = r]
    /\ out' = [out EXCEPT ![t] = Null]
    /\ UNCHANGED <<array, index, mtxMap, phase, found>>

-----------------------------------------------------------------------------
(* FindElementAs and GetElementNameAt: one section of m_mtxMap. *)
Find(t) ==
    /\ In(t, "start", {"find"}) /\ mtxMap = Null
    /\ Gives(t, index[request[t].name])
    /\ UNCHANGED <<array, index, mtxMap>>

KeyAt(t) ==
    /\ In(t, "start", {"keyAt"}) /\ mtxMap = Null
    /\ Gives(t, NameOf(index, request[t].pos))
    /\ UNCHANGED <<array, index, mtxMap>>

(* Mutant: the position is looked up in a section of its own. *)
LookUpAndUnlock(t) ==
    /\ In(t, "start", {"set", "get", "clone"}) /\ mtxMap = Null
    /\ Goes(t, "locked", IF request[t].op = "clone" THEN 0 ELSE index[request[t].name])
    /\ UNCHANGED <<array, index, mtxMap>>

(* GetElementAs, SetElementAs, CloneObject: m_mtxMap is kept. *)
LookUp(t) ==
    /\ In(t, "start", {"set", "get", "clone"}) /\ mtxMap = Null
    /\ mtxMap' = t
    /\ Goes(t, "locked", IF request[t].op = "clone" THEN 0 ELSE index[request[t].name])
    /\ UNCHANGED <<array, index>>

(* The section of m_mtxArray within it. *)
GetElementAs(t) ==
    /\ In(t, "locked", {"get"})
    /\ Gives(t, IF found[t] = 0 THEN Null ELSE ElementAt(found[t]))
    /\ mtxMap' = Null
    /\ UNCHANGED <<array, index>>

SetElementAs(t) ==
    /\ In(t, "locked", {"set"})
    /\ IF found[t] # 0
       THEN /\ array' = IF found[t] \in DOMAIN array
                        THEN [array EXCEPT ![found[t]] = request[t].value] ELSE array
            /\ UNCHANGED index
       ELSE /\ array' = Append(array, request[t].value)
            /\ index' = [index EXCEPT ![request[t].name] =
                                IF @ = 0 THEN Len(array) + 1 ELSE @]
    /\ Gives(t, Null)
    /\ mtxMap' = Null

CloneObject(t) ==
    /\ In(t, "locked", {"clone"})
    /\ Gives(t, Entries(array, index))
    /\ mtxMap' = Null
    /\ UNCHANGED <<array, index>>

(* By position, under m_mtxArray alone (method_size takes no lock). *)
GetElementAt(t) ==
    /\ In(t, "start", {"getAt"})
    /\ Gives(t, ElementAt(request[t].pos))
    /\ UNCHANGED <<array, index, mtxMap>>

SetElementAt(t) ==
    /\ In(t, "start", {"setAt"})
    /\ array' = IF request[t].pos \in DOMAIN array
                THEN [array EXCEPT ![request[t].pos] = request[t].value] ELSE array
    /\ Gives(t, Null)
    /\ UNCHANGED <<index, mtxMap>>

Size(t) ==
    /\ In(t, "start", {"size"})
    /\ Gives(t, Len(array))
    /\ UNCHANGED <<array, index, mtxMap>>

-----------------------------------------------------------------------------
(* method_removeAs: FindElementAs. *)
FindToRemove(t) ==
    /\ In(t, "start", {"removeAs"}) /\ mtxMap = Null
    /\ IF index[request[t].name] = 0 THEN Gives(t, Null)
       ELSE Goes(t, "take", index[request[t].name])
    /\ UNCHANGED <<array, index, mtxMap>>

(* method_removeAt: the bounds are checked without a lock. *)
CheckToRemove(t) ==
    /\ In(t, "start", {"removeAt"})
    /\ IF request[t].pos \in DOMAIN array THEN Goes(t, "take", request[t].pos)
       ELSE Gives(t, Null)
    /\ UNCHANGED <<array, index, mtxMap>>

(* The element is read, without a lock. *)
TakeOut(t) ==
    /\ In(t, "take", {"removeAs", "removeAt"})
    /\ out' = [out EXCEPT ![t] = ElementAt(found[t])]
    /\ phase' = [phase EXCEPT ![t] = "erase"]
    /\ UNCHANGED <<array, index, mtxMap, request, found>>

(* LArrayObj::RemoveElementAt *)
Erase(t) ==
    /\ In(t, "erase", {"removeAs", "removeAt"})
    /\ array' = [j \in 1 .. Len(array) - 1 |-> IF j < found[t] THEN array[j] ELSE array[j + 1]]
    /\ Goes(t, "renumber", found[t])
    /\ UNCHANGED <<index, mtxMap>>

(* Mutant: the names behind the removed one keep their positions. *)
OnlyErased(x, i) == [n \in Names |-> IF x[n] = i THEN 0 ELSE x[n]]

(* The index of each name when the i-th is removed. *)
Renumbered(x, i) == [n \in Names |->
    IF x[n] = i THEN 0 ELSE IF x[n] > i THEN x[n] - 1 ELSE x[n]]

(* LMapObj::RemoveElementAt *)
RemoveElementAt(t) ==
    /\ In(t, "renumber", {"removeAs", "removeAt"}) /\ mtxMap = Null
    /\ index' = Renumbered(index, found[t])
    /\ Gives(t, out[t])
    /\ UNCHANGED <<array, mtxMap>>

-----------------------------------------------------------------------------
(* operator_smov (:=), from another map: RemoveAll and CloneFrom, which lock each *)
(* part of this map by itself.                                                  *)
ClearArray(t) ==
    /\ In(t, "start", {"assign"})
    /\ array' = <<>>
    /\ Goes(t, "clear", 0)
    /\ UNCHANGED <<index, mtxMap>>

ClearMap(t) ==
    /\ In(t, "clear", {"assign"}) /\ mtxMap = Null
    /\ index' = [n \in Names |-> 0]
    /\ Goes(t, "names", 0)
    /\ UNCHANGED <<array, mtxMap>>

Indexes(d) == [n \in Names |-> IF \E i \in DOMAIN d : d[i].name = n
                               THEN CHOOSE i \in DOMAIN d : d[i].name = n ELSE 0]

CloneMap(t) ==
    /\ In(t, "names", {"assign"}) /\ mtxMap = Null
    /\ index' = Indexes(request[t].to)
    /\ Goes(t, "elements", 0)
    /\ UNCHANGED <<array, mtxMap>>

CloneArray(t) ==
    /\ In(t, "elements", {"assign"})
    /\ array' = [i \in DOMAIN request[t].to |-> request[t].to[i].value]
    /\ Gives(t, Null)
    /\ UNCHANGED <<index, mtxMap>>

-----------------------------------------------------------------------------
MapStep(t) ==
    \/ Find(t) \/ KeyAt(t) \/ LookUp(t) \/ GetElementAs(t) \/ SetElementAs(t)
    \/ CloneObject(t) \/ GetElementAt(t) \/ SetElementAt(t) \/ Size(t)
    \/ FindToRemove(t) \/ CheckToRemove(t) \/ TakeOut(t) \/ Erase(t) \/ RemoveElementAt(t)
    \/ ClearArray(t) \/ ClearMap(t) \/ CloneMap(t) \/ CloneArray(t)

MapNext == \E t \in Clients : MapStep(t) \/ \E r \in Calls : Invoke(t, r)

MapSpec == MapInit /\ [][MapNext]_mapVars

-----------------------------------------------------------------------------
Busy(t) == phase[t] \in {"renumber", "clear", "names", "elements"}

(* Every element has one name and every name one element, except within removing  *)
(* and assigning, which give the locks up half-way.                              *)
NamesMatchElements == (\A t \in Clients : ~Busy(t)) =>
    /\ \A n \in Names : index[n] \in 0 .. Len(array)
    /\ \A i \in DOMAIN array : \E n \in Names : {m \in Names : index[m] = i} = {n}

(* The dictionary that the map stands for: a removal has taken effect once the      *)
(* element is erased, an assignment once the elements are cleared.                  *)
Dict ==
    IF \E t \in Clients : phase[t] = "renumber"
    THEN LET t == CHOOSE u \in Clients : phase[u] = "renumber"
         IN  Entries(array, Renumbered(index, found[t]))
    ELSE IF \E t \in Clients : Busy(t)
    THEN request[CHOOSE u \in Clients : Busy(u)].to
    ELSE Entries(array, index)

Asked == [t \in Clients |-> IF Busy(t) THEN Idle ELSE request[t]]
Answered == [t \in Clients |-> IF phase[t] = "erase" THEN Null ELSE out[t]]

(* A shared map behaves as a dictionary: each operation takes effect at once,      *)
(* between its call and its return.                                              *)
Dictionary == INSTANCE Dictionary WITH dict <- Dict, asked <- Asked, answer <- Answered
IsDictionary == Dictionary!DictSpec
=============================================================================
