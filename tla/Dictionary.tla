----------------------------- MODULE Dictionary -----------------------------
(***************************************************************************)
(* What a Map promises to the scripts that share it: an ordered dictionary,   *)
(* each operation of which takes effect at one moment between its call and    *)
(* its return.                                                              *)
(***************************************************************************)
EXTENDS Integers, Sequences

CONSTANTS Clients,  \* the threads that use the map
          Names,    \* the keys
          Values,   \* the elements
          Null,     \* nullptr
          Contents, \* the maps that scripts assign to this one
          Idle,     \* no operation
          MaxSize   \* bound: the positions asked for

VARIABLES dict,   \* the entries, in order
          asked,  \* the operation each thread has called, but which has not taken effect
          answer  \* what its last operation has returned

dictVars == <<dict, asked, answer>>

Entry == [name : Names, value : Values]

Requests ==
    [op : {"set"}, name : Names, value : Values]
    \cup [op : {"get", "find", "removeAs"}, name : Names]
    \cup [op : {"keyAt", "getAt", "removeAt"}, pos : 1 .. MaxSize]
    \cup [op : {"setAt"}, pos : 1 .. MaxSize, value : Values]
    \cup [op : {"size", "clone"}]
    \cup [op : {"assign"}, to : Contents]

(* The position of a name, 0 if there is none. *)
Position(d, n) == IF \E i \in DOMAIN d : d[i].name = n
                  THEN CHOOSE i \in DOMAIN d : d[i].name = n ELSE 0

ValueAt(d, i) == IF i \in DOMAIN d THEN d[i].value ELSE Null
NameAt(d, i) == IF i \in DOMAIN d THEN d[i].name ELSE Null
Without(d, i) == [j \in 1 .. Len(d) - 1 |-> IF j < i THEN d[j] ELSE d[j + 1]]

(* The dictionary after the operation r, and its answer. *)
After(d, r) ==
    CASE r.op = "set" /\ Position(d, r.name) = 0 ->
                Append(d, [name |-> r.name, value |-> r.value])
      [] r.op = "set" /\ Position(d, r.name) # 0 ->
                [d EXCEPT ![Position(d, r.name)].value = r.value]
      [] r.op = "setAt" /\ r.pos \in DOMAIN d -> [d EXCEPT ![r.pos].value = r.value]
      [] r.op = "removeAt" /\ r.pos \in DOMAIN d -> Without(d, r.pos)
      [] r.op = "removeAs" /\ Position(d, r.name) # 0 -> Without(d, Position(d, r.name))
      [] r.op = "assign" -> r.to
      [] OTHER -> d

Answer(d, r) ==
    CASE r.op = "get" -> ValueAt(d, Position(d, r.name))
      [] r.op = "find" -> Position(d, r.name)
      [] r.op = "keyAt" -> NameAt(d, r.pos)
      [] r.op \in {"getAt", "removeAt"} -> ValueAt(d, r.pos)
      [] r.op = "removeAs" -> ValueAt(d, Position(d, r.name))
      [] r.op = "size" -> Len(d)
      [] r.op = "clone" -> d
      [] OTHER -> Null

DictInit ==
    /\ dict = <<>>
    /\ asked = [t \in Clients |-> Idle]
    /\ answer = [t \in Clients |-> Null]

Ask(t) ==
    /\ asked[t] = Idle /\ asked'[t] \in Requests
    /\ asked' = [asked EXCEPT ![t] = asked'[t]]
    /\ answer' = [answer EXCEPT ![t] = Null]
    /\ UNCHANGED dict

TakeEffect(t) ==
    /\ asked[t] # Idle
    /\ dict' = After(dict, asked[t])
    /\ answer' = [answer EXCEPT ![t] = Answer(dict, asked[t])]
    /\ asked' = [asked EXCEPT ![t] = Idle]

DictNext == \E t \in Clients : Ask(t) \/ TakeEffect(t)

DictSpec == DictInit /\ [][DictNext]_dictVars
=============================================================================
