---------------------------- MODULE UnwindProof ----------------------------
(***************************************************************************)
(* Code that fits the machine runs as it is meant to: what is taken off    *)
(* the stack of Unwind is what was put there, whatever instructions the    *)
(* compiler wrote, as long as the stack maps of StackMaps describe them.   *)
(***************************************************************************)
EXTENDS StackMaps, FiniteSetTheorems, NaturalsInduction, WellFoundedInduction, TLAPS

-----------------------------------------------------------------------------
(* Chains.                                                                 *)

(* A set of natural numbers has a smallest one. *)
LEMMA SmallestOf ==
  ASSUME NEW S \in SUBSET Nat, S # {}
  PROVE  \E k \in S : \A n \in S : k <= n
  <1>1. PICK k \in S : \A y \in S : ~(<<y, k>> \in OpToRel(<, Nat))
    BY WFMin, NatLessThanWellFounded
  <1>2. \A y \in S : ~(y < k)
    BY <1>1 DEF OpToRel
  <1> QED BY <1>2

(* The lowest of a set of positions is one of them.                        *)
LEMMA LowestIs ==
  ASSUME NEW S \in SUBSET Nat, S # {}
  PROVE  Lowest(S) \in S /\ \A n \in S : Lowest(S) <= n
  BY SmallestOf DEF Lowest

(* One of the positions below a bound is the greatest. *)
LEMMA GreatestOf ==
  ASSUME NEW S \in SUBSET Nat, S # {}, NEW n \in Nat, \A k \in S : k <= n
  PROVE  \E k \in S : \A l \in S : l <= k
  <1> DEFINE below == {d \in Nat : \E k \in S : d = n - k}
  <1>1. below \in SUBSET Nat /\ below # {}
    <2>1. PICK k \in S : TRUE
      OBVIOUS
    <2>2. n - k \in below
      <3>1. k \in Nat /\ k <= n
        OBVIOUS
      <3> QED BY <3>1
    <2> QED BY <2>2
  <1>2. PICK d \in below : \A e \in below : d <= e
    BY <1>1, SmallestOf
  <1>3. PICK k \in S : d = n - k
    BY <1>2
  <1>4. \A l \in S : l <= k
    <2> TAKE l \in S
    <2>1. n - l \in below
      OBVIOUS
    <2>2. n - k <= n - l
      BY <1>2, <1>3, <2>1
    <2> QED BY <2>2
  <1> QED BY <1>4

(* The highest of a bounded set of positions is one of them.               *)
LEMMA HighestIs ==
  ASSUME NEW S \in SUBSET Nat, S # {}, NEW n \in Nat, \A k \in S : k <= n
  PROVE  Highest(S) \in S /\ \A k \in S : k <= Highest(S)
  BY GreatestOf DEF Highest

(* From y the chain leads to next[y]. *)
Leads(next, y) == next[y] \in DOMAIN next /\ next[y] < y

(* The sets that the chain does not leave, and what is in all of them.     *)
Closed(next, C) == \A c \in C : Leads(next, c) => next[c] \in C
Reach(next, y) ==
    {z \in DOMAIN next : \A C \in SUBSET DOMAIN next : y \in C /\ Closed(next, C) => z \in C}

(* What is reached from y is y and what is reached from next[y].           *)
LEMMA ReachIs ==
  ASSUME NEW next, NEW y \in DOMAIN next
  PROVE  Reach(next, y) = {y} \cup IF Leads(next, y) THEN Reach(next, next[y]) ELSE {}
  <1> DEFINE Rest == IF Leads(next, y) THEN Reach(next, next[y]) ELSE {}
             C == {y} \cup Rest
  <1>1. C \in SUBSET DOMAIN next /\ y \in C
    BY DEF Reach
  <1>2. Closed(next, C)
    <2> SUFFICES ASSUME NEW c \in C, Leads(next, c) PROVE next[c] \in C
      BY DEF Closed
    <2>1. CASE c = y
      <3>1. next[y] \in Reach(next, next[y])
        BY <2>1 DEF Reach, Leads
      <3> QED BY <2>1, <3>1
    <2>2. CASE c # y
      <3>1. Leads(next, y) /\ c \in Reach(next, next[y])
        BY <2>2
      <3>2. next[c] \in Reach(next, next[y])
        BY <3>1 DEF Reach, Closed, Leads
      <3> QED BY <3>1, <3>2
    <2> QED BY <2>1, <2>2
  <1>3. Reach(next, y) \subseteq C
    BY <1>1, <1>2 DEF Reach
  <1>4. y \in Reach(next, y)
    BY DEF Reach
  <1>5. ASSUME Leads(next, y) PROVE Reach(next, next[y]) \subseteq Reach(next, y)
    BY <1>5 DEF Reach, Closed
  <1> QED BY <1>3, <1>4, <1>5

IsChain(next, g) ==
    g = [y \in DOMAIN next |->
            {y} \cup IF next[y] \in DOMAIN next /\ next[y] < y THEN g[next[y]] ELSE {}]

(* The recursive function that Chain defines exists.                       *)
LEMMA ChainExists ==
  ASSUME NEW next
  PROVE  \E g : IsChain(next, g)
  <1> DEFINE g == [y \in DOMAIN next |-> Reach(next, y)]
  <1>1. ASSUME NEW y \in DOMAIN next
        PROVE  g[y] = {y} \cup IF next[y] \in DOMAIN next /\ next[y] < y THEN g[next[y]] ELSE {}
    BY ReachIs DEF Leads
  <1>2. g = [y \in DOMAIN next |-> g[y]]
    OBVIOUS
  <1> HIDE DEF g
  <1>3. IsChain(next, g)
    BY <1>1, <1>2 DEF IsChain
  <1> QED BY <1>3

(* v is the greatest of the positions S below n, if there is one. *)
Tops(S, n, v) ==
    \/ v = InvalidPtr /\ \A d \in S : d >= n
    \/ v \in S /\ v < n /\ \A d \in S : d < n => d <= v

(* A chain that leads from each position of S to the next one below leads  *)
(* to all of them.                                                         *)
LEMMA ChainIs ==
  ASSUME NEW next, DOMAIN next \in SUBSET Nat, NEW S \in SUBSET DOMAIN next,
         \A y \in S : Tops(S, y, next[y]),
         NEW n \in Int, \A y \in S : y < n, NEW top, Tops(S, n, top)
  PROVE  Chain(next, top) = S
  <1> DEFINE R(g) == g = [y \in DOMAIN next |->
                {y} \cup IF next[y] \in DOMAIN next /\ next[y] < y THEN g[next[y]] ELSE {}]
  <1>1. \E g : R(g)
    BY ChainExists DEF IsChain
  <1>2. PICK g : g = (CHOOSE h : R(h)) /\ R(g)
    BY Zenon, <1>1
  <1>3. Chain(next, top) = IF top \in DOMAIN next THEN g[top] ELSE {}
    BY Zenon, <1>2 DEF Chain
  <1>4. \A y \in DOMAIN next : g[y] = {y} \cup IF next[y] \in DOMAIN next /\ next[y] < y
                                              THEN g[next[y]] ELSE {}
    <2> TAKE y \in DOMAIN next
    <2> QED BY <1>2
  <1>5. \A y \in S : g[y] = {z \in S : z <= y}
    <2> DEFINE wrong == {y \in S : g[y] # {z \in S : z <= y}}
    <2> SUFFICES ASSUME wrong # {} PROVE FALSE
      OBVIOUS
    <2>1. PICK y \in wrong : \A z \in wrong : y <= z
      <3>1. wrong \in SUBSET Nat
        OBVIOUS
      <3> QED BY <3>1, SmallestOf
    <2>2. y \in S /\ y \in Nat /\ y \in DOMAIN next
      OBVIOUS
    <2>3. Tops(S, y, next[y])
      BY <2>2
    <2>4. CASE next[y] = InvalidPtr
      <3>1. ~ (next[y] \in DOMAIN next)
        BY <2>4 DEF InvalidPtr
      <3>2. g[y] = {y}
        BY <1>4, <2>2, <3>1
      <3>3. \A d \in S : d >= y
        BY <2>3, <2>4, <3>1 DEF Tops
      <3>4. {z \in S : z <= y} = {y}
        BY <2>2, <3>3
      <3> QED BY <3>2, <3>4
    <2>5. CASE next[y] # InvalidPtr
      <3>1. next[y] \in S /\ next[y] < y /\ \A d \in S : d < y => d <= next[y]
        BY <2>3, <2>5 DEF Tops
      <3>2. g[y] = {y} \cup g[next[y]]
        BY <1>4, <2>2, <3>1
      <3>3. next[y] \notin wrong
        BY <2>1, <2>2, <3>1
      <3>4. g[next[y]] = {z \in S : z <= next[y]}
        BY <3>1, <3>3
      <3>5. {z \in S : z <= y} = {y} \cup {z \in S : z <= next[y]}
        BY <2>2, <3>1
      <3> QED BY <3>2, <3>4, <3>5
    <2> QED BY <2>4, <2>5
  <1>6. CASE top = InvalidPtr
    <2>1. S = {}
      BY <1>6 DEF Tops, InvalidPtr
    <2>2. top \notin DOMAIN next
      BY <1>6 DEF InvalidPtr
    <2> QED BY <1>3, <2>1, <2>2
  <1>7. CASE top # InvalidPtr
    <2>1. top \in S /\ \A d \in S : d <= top
      BY <1>7 DEF Tops
    <2>2. S = {z \in S : z <= top}
      BY <2>1
    <2> QED BY <1>3, <1>5, <2>1, <2>2
  <1> QED BY <1>6, <1>7

-----------------------------------------------------------------------------
(* What the stack means.  T is a stack beside the stack: for each word the *)
(* word of the stack map that it stands for, and whose frame it is in: s   *)
(* words are below the frame, f is its function.                           *)

Returned == {"none", "native", "value"}
Values(p) == Int \cup Returned \cup Thrown \cup CaseValues \cup DOMAIN Code[p]
StackWords(p) == [is : Kinds, v : Values(p)]
Slots(p) == [is : Kinds, v : Int, s : Nat, f : DOMAIN Code[p]]

Map(p, f, q) == Shape[p][f][q].words
Caught(p, f, q) == Shape[p][f][q].caught

Matches(t, w, s, f) ==
    /\ t.is = w.is /\ t.s = s /\ t.f = f
    /\ t.v = w.v \/ (w.is = "chain" /\ w.v = Either /\ t.v \in {Linked, Unlinked})

(* The words of T behind s, up to the n-th, are those of the map W.        *)
Mapped(T, s, n, f, W) ==
    /\ s \in Nat /\ n \in Nat /\ W \in Seq(MapWords) /\ s + Len(W) = n /\ n <= Len(T)
    /\ \A j \in 1 .. Len(W) : Matches(T[s + j], W[j], s, f)

(* They are those of the instruction q of f.                               *)
AtPlace(p, T, s, n, f, q) ==
    /\ f \in DOMAIN Code[p] /\ q \in DOMAIN Shape[p][f]
    /\ Mapped(T, s, n, f, Map(p, f, q))

(* They are those of the finally handler g, before CallFinally saves.      *)
AtFinally(p, T, s, n, f, g) ==
    /\ f \in DOMAIN Code[p] /\ g \in DOMAIN Shape[p][f] /\ ~Caught(p, f, g)
    /\ \E W \in Seq(MapWords) : Map(p, f, g) = W \o SavedWords /\ Mapped(T, s, n, f, W)

(* v is the uppermost descriptor of the first n words, the uppermost       *)
(* object on the release chain.                                            *)
LinkX(T, n, v) ==
    \/ v = InvalidPtr /\ \A j \in 1 .. n : T[j].is # "xp"
    \/ /\ v \in Nat /\ v + 5 <= n /\ T[v + 5].is = "xp"
       /\ \A j \in v + 6 .. n : T[j].is # "xp"

IsLinked(t) == t.is = "chain" /\ t.v = Linked

LinkY(T, n, v) ==
    \/ v = InvalidPtr /\ \A j \in 1 .. n : ~IsLinked(T[j])
    \/ /\ v \in Nat /\ v + 2 <= n /\ IsLinked(T[v + 2])
       /\ \A j \in v + 3 .. n : ~IsLinked(T[j])

(* fp of the function whose frame ends with the s-th word.                 *)
CallerFp(T, s) == IF s = 0 THEN 0 ELSE T[s].s + 4

(* The i-th word is a return address.                                      *)
ReturnOK(p, st, T, i) ==
    LET s == T[i].s
    IN IF s = 0 THEN st[i].v = NoCode
       ELSE /\ T[i - 1].is = "ip" /\ s - T[s].s >= 4
            /\ AtPlace(p, T, T[s].s, s, st[i].v, st[i - 1].v)
            /\ ~Caught(p, st[i].v, st[i - 1].v)

(* It is the last one that CallFinally has saved: the descriptor below has *)
(* no handlers, and without an exception execution comes back.             *)
SavedOK(p, st, T, i) ==
    /\ i - 10 >= T[i].s + 4
    /\ T[i - 4].is = "thrown" /\ T[i - 5].is = "xp" /\ T[i - 5].s = T[i].s
    /\ T[i - 9].is = "handler" /\ T[i - 8].is = "finally"
    /\ st[i - 9].v = NoHandler /\ st[i - 8].v = NoHandler
    /\ st[i - 4].v \in Thrown \cup {NoException}
    /\ st[i - 4].v = NoException =>
        /\ st[i].v = T[i].f
        /\ AtPlace(p, T, T[i].s, i - 10, T[i].f, st[i - 1].v)
        /\ ~Caught(p, T[i].f, st[i - 1].v)

(* It is the last one of an exception descriptor.                          *)
TryOK(p, st, T, i) ==
    /\ i - 5 >= T[i].s + 4
    /\ T[i - 4].is = "handler" /\ T[i - 3].is = "finally"
    /\ T[i - 2].is = "code" /\ T[i - 1].is = "fp"
    /\ st[i - 2].v = T[i].f /\ st[i - 1].v = T[i].s + 4
    /\ LinkX(T, i - 5, st[i].v)
    /\ T[i - 4].v # NoHandler => AtPlace(p, T, T[i].s, i, T[i].f, T[i - 4].v)
    /\ T[i - 3].v # NoHandler => AtFinally(p, T, T[i].s, i, T[i].f, T[i - 3].v)

(* It is the chain word of an object.                                      *)
ChainOK(st, T, i) ==
    /\ i > 1 /\ T[i - 1].is = "object"
    /\ \/ T[i].v = Linked /\ LinkY(T, i - 1, st[i].v)
       \/ T[i].v = Unlinked /\ st[i - 1].v = 0

(* The i-th word of the stack st is what T says.                           *)
SlotOK(p, st, T, i) ==
    /\ st[i].is = T[i].is /\ T[i].s < i
    /\ T[i].is \in {"handler", "finally"} => st[i].v \in {T[i].v, NoHandler}
    /\ T[i].is = "object" => st[i].v \in {0, 1}
    /\ T[i].is = "thrown" /\ T[i].v = Held => st[i].v \in Thrown
    /\ T[i].is = "ip" => st[i].v \in Int
    /\ T[i].is = "fp" /\ i = T[i].s + 4 => st[i].v = CallerFp(T, T[i].s)
    /\ i > 1 /\ T[i - 1].is = "object" => T[i].is = "chain"
    /\ T[i].is = "chain" => ChainOK(st, T, i)
    /\ T[i].is = "code" /\ i = T[i].s + 2 => ReturnOK(p, st, T, i)
    /\ T[i].is = "code" /\ i # T[i].s + 2 /\ i > 1 /\ T[i - 1].is = "ip" => SavedOK(p, st, T, i)
    /\ T[i].is = "xp" => TryOK(p, st, T, i)

(* The objects not null among the first n words.                           *)
AliveSet(st, n) == {y \in 0 .. n - 1 : st[y + 1].is = "object" /\ st[y + 1].v = 1}
Alive(st, n) == Cardinality(AliveSet(st, n))

Machines(p) ==
    [code : Values(p), ip : Int, fp : Int, xp : Int, yp : Int,
     stack : Seq(StackWords(p)), ret : Values(p), exception : Values(p), live : Int,
     status : {"running", "halt", "finished", "undefined"}]

(* The stack of the machine x is the one that T describes, and so are the  *)
(* release chain and the number of objects.                                *)
Balanced(p, x, T) ==
    /\ x \in Machines(p) /\ T \in Seq(Slots(p)) /\ Len(T) = Len(x.stack)
    /\ \A i \in 1 .. Len(T) : SlotOK(p, x.stack, T, i)
    /\ LinkY(T, Len(T), x.yp)
    /\ x.live = Alive(x.stack, Len(T))

(* The machine is about to execute an instruction, its frame behind s.     *)
Runs(p, x, T, s) ==
    /\ x.status = "running"
    /\ AtPlace(p, T, s, Len(T), x.code, x.ip)
    /\ x.fp = IF Len(T) - s >= 4 THEN s + 4 ELSE CallerFp(T, s)
    /\ LinkX(T, Len(T), x.xp)
    /\ Caught(p, x.code, x.ip) => x.exception \in Thrown

(* The run is over, or about to be.                                        *)
Stands(x, T) ==
    \/ x.status = "running" /\ x.code = NoCode /\ T = <<>> /\ x.xp = InvalidPtr
    \/ x.status = "halt" /\ (Len(T) > 0 => T[Len(T)].is # "object")
    \/ x.status = "finished"

Good(p, x, T) ==
    /\ Balanced(p, x, T)
    /\ (\E s \in Nat : Runs(p, x, T, s)) \/ Stands(x, T)

(* The descriptors that are in T but no longer in U have no finally handler. *)
IsTry(T, d) == d \in Nat /\ d + 5 <= Len(T) /\ T[d + 5].is = "xp"
Passed(x, T, U) ==
    \A d \in Nat : IsTry(T, d) /\ ~IsTry(U, d) => x.stack[d + 2].v = NoHandler

(* A step from x may lead to y.                                            *)
Steps(p, x, T, y) ==
    \E U : Good(p, y, U) /\ (y.status = "running" => Passed(x, T, U))

-----------------------------------------------------------------------------
(* Words that stay.                                                        *)

SameTo(T, U, n) == n <= Len(T) /\ n <= Len(U) /\ \A j \in 1 .. n : U[j] = T[j]

(* The first n words of st are those of su, or a handler has been cleared, *)
(* an object on the chain been stored.                                     *)
KeptTo(st, su, T, n) ==
    \A j \in 1 .. n :
        \/ su[j] = st[j]
        \/ st[j].is \in {"handler", "finally"} /\ su[j] = Word(st[j].is, NoHandler)
        \/ st[j].is = "object" /\ su[j] = Word("object", 1) /\ (j < n => IsLinked(T[j + 1]))

(* Words below k stay those of their map.                                  *)
LEMMA MappedKept ==
  ASSUME NEW T, NEW U, NEW s, NEW n, NEW f, NEW W, NEW k \in Nat,
         Mapped(T, s, n, f, W), n <= k, SameTo(T, U, k)
  PROVE  Mapped(U, s, n, f, W)
  <1>1. \A j \in 1 .. Len(W) : s + j \in 1 .. k
    BY DEF Mapped
  <1> QED BY <1>1 DEF Mapped, SameTo

(* Words below k stay those of their place.                                *)
LEMMA AtPlaceKept ==
  ASSUME NEW p, NEW T, NEW U, NEW s, NEW n, NEW f, NEW q, NEW k \in Nat,
         AtPlace(p, T, s, n, f, q), n <= k, SameTo(T, U, k)
  PROVE  AtPlace(p, U, s, n, f, q)
  BY MappedKept DEF AtPlace

(* They stay those of their finally handler.                               *)
LEMMA AtFinallyKept ==
  ASSUME NEW p, NEW T, NEW U, NEW s, NEW n, NEW f, NEW g, NEW k \in Nat,
         AtFinally(p, T, s, n, f, g), n <= k, SameTo(T, U, k)
  PROVE  AtFinally(p, U, s, n, f, g)
  BY MappedKept DEF AtFinally

(* Links below k stay.                                                     *)
LEMMA LinkKept ==
  ASSUME NEW T, NEW U, NEW n \in Nat, NEW v, NEW k \in Nat, n <= k, SameTo(T, U, k)
  PROVE  /\ LinkX(T, n, v) => LinkX(U, n, v)
         /\ LinkY(T, n, v) => LinkY(U, n, v)
  BY SMTT(30) DEF LinkX, LinkY, SameTo

(* What is kept when the stack is T up to the k-th word and U has the same. *)
Keeps(p, st, su, T, U, k) ==
    /\ k \in Nat /\ T \in Seq(Slots(p)) /\ U \in Seq(Slots(p)) /\ SameTo(T, U, k)
    /\ KeptTo(st, su, T, k)
    /\ \A j \in 1 .. k : st[j].is = T[j].is

(* What a step that keeps the first k words may do to one of them.         *)
LEMMA WordsKept ==
  ASSUME NEW p, NEW st, NEW su, NEW T, NEW U, NEW k, Keeps(p, st, su, T, U, k), NEW i \in 1 .. k
  PROVE  /\ U[i] = T[i] /\ su[i].is = st[i].is /\ T[i].s \in Nat
         /\ T[i].is \notin {"handler", "finally", "object"} => su[i] = st[i]
         /\ T[i].is \in {"handler", "finally"} => su[i].v \in {st[i].v, NoHandler}
         /\ T[i].is = "object" => su[i].v \in {st[i].v, 1}
         /\ T[i].is = "object" /\ su[i].v # st[i].v /\ i < k => IsLinked(T[i + 1])
  <1>1. U[i] = T[i] /\ st[i].is = T[i].is
    BY DEF Keeps, SameTo
  <1>2. T[i] \in Slots(p)
    <2>1. i \in 1 .. Len(T) /\ T \in Seq(Slots(p))
      BY DEF Keeps, SameTo
    <2> QED BY <2>1
  <1>3. \/ su[i] = st[i]
        \/ st[i].is \in {"handler", "finally"} /\ su[i] = Word(st[i].is, NoHandler)
        \/ st[i].is = "object" /\ su[i] = Word("object", 1) /\ (i < k => IsLinked(T[i + 1]))
    BY DEF Keeps, KeptTo
  <1>4. T[i].s \in Nat
    BY <1>2 DEF Slots
  <1> QED BY <1>1, <1>3, <1>4 DEF Word

(* A return address below k stays one.                                     *)
LEMMA ReturnKept ==
  ASSUME NEW p, NEW st, NEW su, NEW T, NEW U, NEW k, Keeps(p, st, su, T, U, k),
         NEW i \in 1 .. k, T[i].is = "code", T[i].s < i, ReturnOK(p, st, T, i)
  PROVE  ReturnOK(p, su, U, i)
  <1> DEFINE s == T[i].s
  <1>1. U[i] = T[i] /\ su[i] = st[i] /\ s \in Nat
    BY WordsKept
  <1>a. k \in Nat /\ SameTo(T, U, k)
    BY DEF Keeps
  <1>2. CASE s = 0
    BY <1>1, <1>a, <1>2 DEF ReturnOK
  <1>3. CASE s # 0
    <2>1. /\ T[i - 1].is = "ip" /\ s - T[s].s >= 4
          /\ AtPlace(p, T, T[s].s, s, st[i].v, st[i - 1].v)
          /\ ~Caught(p, st[i].v, st[i - 1].v)
      BY <1>3 DEF ReturnOK
    <2>2. s \in 1 .. k /\ i - 1 \in 1 .. k /\ s <= k
      BY <1>1, <1>a, <1>3
    <2>3. U[s] = T[s] /\ su[i - 1] = st[i - 1] /\ U[i - 1] = T[i - 1]
      BY <2>1, <2>2, WordsKept
    <2>4. AtPlace(p, U, T[s].s, s, st[i].v, st[i - 1].v)
      BY <1>1, <1>a, <2>1, <2>2, AtPlaceKept
    <2> QED BY <1>1, <1>a, <1>3, <2>1, <2>3, <2>4 DEF ReturnOK
  <1> QED BY <1>2, <1>3

(* What CallFinally saved below k stays so.                                *)
LEMMA SavedKept ==
  ASSUME NEW p, NEW st, NEW su, NEW T, NEW U, NEW k, Keeps(p, st, su, T, U, k),
         NEW i \in 1 .. k, T[i].is = "code", T[i - 1].is = "ip", i > 1, SavedOK(p, st, T, i)
  PROVE  SavedOK(p, su, U, i)
  <1>1. U[i] = T[i] /\ su[i] = st[i] /\ T[i].s \in Nat
    BY WordsKept
  <1>a. k \in Nat /\ SameTo(T, U, k)
    BY DEF Keeps
  <1>2. i - 10 >= T[i].s + 4
    BY DEF SavedOK
  <1>3. i - 1 \in 1 .. k /\ i - 4 \in 1 .. k /\ i - 5 \in 1 .. k /\ i - 8 \in 1 .. k /\ i - 9 \in 1 .. k
        /\ i - 10 <= k
    BY <1>1, <1>a, <1>2
  <1>4. /\ U[i - 4] = T[i - 4] /\ U[i - 5] = T[i - 5] /\ U[i - 8] = T[i - 8] /\ U[i - 9] = T[i - 9]
    BY <1>3, WordsKept
  <1>5. su[i - 1] = st[i - 1] /\ su[i - 4] = st[i - 4]
    BY <1>3, WordsKept DEF SavedOK
  <1>6. su[i - 9].v = NoHandler /\ su[i - 8].v = NoHandler
    <2>1. su[i - 9].v \in {st[i - 9].v, NoHandler} /\ su[i - 8].v \in {st[i - 8].v, NoHandler}
      BY <1>3, WordsKept DEF SavedOK
    <2> QED BY <2>1 DEF SavedOK
  <1>7. ASSUME AtPlace(p, T, T[i].s, i - 10, T[i].f, st[i - 1].v)
        PROVE  AtPlace(p, U, T[i].s, i - 10, T[i].f, st[i - 1].v)
    BY <1>1, <1>a, <1>3, <1>7, AtPlaceKept
  <1> QED BY <1>1, <1>a, <1>4, <1>5, <1>6, <1>7 DEF SavedOK

(* An exception descriptor below k stays one.                              *)
LEMMA TryKept ==
  ASSUME NEW p, NEW st, NEW su, NEW T, NEW U, NEW k, Keeps(p, st, su, T, U, k),
         NEW i \in 1 .. k, T[i].is = "xp", TryOK(p, st, T, i)
  PROVE  TryOK(p, su, U, i)
  <1>1. U[i] = T[i] /\ su[i] = st[i] /\ T[i].s \in Nat
    BY WordsKept
  <1>a. k \in Nat /\ SameTo(T, U, k)
    BY DEF Keeps
  <1>2. i - 5 >= T[i].s + 4
    BY DEF TryOK
  <1>3. i - 1 \in 1 .. k /\ i - 2 \in 1 .. k /\ i - 3 \in 1 .. k /\ i - 4 \in 1 .. k
        /\ i - 5 \in Nat /\ i - 5 <= k /\ i <= k
    BY <1>1, <1>a, <1>2
  <1>4. U[i - 1] = T[i - 1] /\ U[i - 2] = T[i - 2] /\ U[i - 3] = T[i - 3] /\ U[i - 4] = T[i - 4]
    BY <1>3, WordsKept
  <1>5. su[i - 1] = st[i - 1] /\ su[i - 2] = st[i - 2]
    BY <1>3, WordsKept DEF TryOK
  <1>6. LinkX(U, i - 5, st[i].v)
    BY <1>1, <1>a, <1>3, LinkKept DEF TryOK
  <1>7. ASSUME AtPlace(p, T, T[i].s, i, T[i].f, T[i - 4].v)
        PROVE  AtPlace(p, U, T[i].s, i, T[i].f, T[i - 4].v)
    BY <1>1, <1>a, <1>3, <1>7, AtPlaceKept
  <1>8. ASSUME AtFinally(p, T, T[i].s, i, T[i].f, T[i - 3].v)
        PROVE  AtFinally(p, U, T[i].s, i, T[i].f, T[i - 3].v)
    BY <1>1, <1>a, <1>3, <1>8, AtFinallyKept
  <1> QED BY <1>1, <1>a, <1>4, <1>5, <1>6, <1>7, <1>8 DEF TryOK

(* A chain word below k stays one.                                         *)
LEMMA ChainKept ==
  ASSUME NEW p, NEW st, NEW su, NEW T, NEW U, NEW k, Keeps(p, st, su, T, U, k),
         NEW i \in 1 .. k, T[i].is = "chain", ChainOK(st, T, i)
  PROVE  ChainOK(su, U, i)
  <1>1. U[i] = T[i] /\ su[i] = st[i]
    BY WordsKept
  <1>a. k \in Nat /\ SameTo(T, U, k)
    BY DEF Keeps
  <1>2. i - 1 \in 1 .. k /\ i > 1 /\ i - 1 \in Nat /\ i - 1 <= k /\ T[i - 1].is = "object"
    BY <1>1, <1>a DEF ChainOK
  <1>3. U[i - 1] = T[i - 1]
    BY <1>2, WordsKept
  <1>4. CASE T[i].v = Linked /\ LinkY(T, i - 1, st[i].v)
    <2>1. LinkY(U, i - 1, su[i].v)
      BY <1>1, <1>a, <1>2, <1>4, LinkKept
    <2> QED BY <1>1, <1>a, <1>2, <1>3, <1>4, <2>1 DEF ChainOK
  <1>5. CASE T[i].v = Unlinked /\ st[i - 1].v = 0
    <2>1. ~IsLinked(T[(i - 1) + 1])
      BY <1>5 DEF IsLinked, Linked, Unlinked
    <2>2. su[i - 1].v = 0
      BY <1>1, <1>a, <1>2, <1>5, <2>1, WordsKept
    <2> QED BY <1>1, <1>a, <1>2, <1>3, <1>5, <2>2 DEF ChainOK
  <1> QED BY <1>4, <1>5 DEF ChainOK

(* Each word below k stays what its slot says.                             *)
LEMMA SlotKept ==
  ASSUME NEW p, NEW st, NEW su, NEW T, NEW U, NEW k, Keeps(p, st, su, T, U, k),
         NEW i \in 1 .. k, SlotOK(p, st, T, i)
  PROVE  SlotOK(p, su, U, i)
  <1>1. U[i] = T[i] /\ T[i].s \in Nat /\ T[i].s < i
    BY WordsKept DEF SlotOK
  <1>a. k \in Nat
    BY DEF Keeps
  <1>2. su[i].is = U[i].is /\ U[i].s < i
    BY <1>1, WordsKept DEF SlotOK
  <1>3. /\ T[i].is \in {"handler", "finally"} => su[i].v \in {T[i].v, NoHandler}
        /\ T[i].is = "object" => su[i].v \in {0, 1}
        /\ T[i].is = "thrown" /\ T[i].v = Held => su[i].v \in Thrown
        /\ T[i].is = "ip" => su[i].v \in Int
    BY <1>1, WordsKept DEF SlotOK
  <1>4. T[i].is = "fp" /\ i = T[i].s + 4 => su[i].v = CallerFp(U, T[i].s)
    <2> SUFFICES ASSUME T[i].is = "fp", i = T[i].s + 4 PROVE su[i].v = CallerFp(U, T[i].s)
      OBVIOUS
    <2>1. su[i] = st[i] /\ st[i].v = CallerFp(T, T[i].s)
      BY WordsKept DEF SlotOK
    <2>2. CASE T[i].s = 0
      BY <2>1, <2>2 DEF CallerFp
    <2>3. CASE T[i].s # 0
      <3>1. T[i].s \in 1 .. k
        BY <1>1, <1>a, <2>3
      <3>2. U[T[i].s] = T[T[i].s]
        BY <3>1, WordsKept
      <3> QED BY <2>1, <2>3, <3>2 DEF CallerFp
    <2> QED BY <2>2, <2>3
  <1>5. i > 1 => U[i - 1] = T[i - 1]
    <2> SUFFICES ASSUME i > 1 PROVE U[i - 1] = T[i - 1]
      OBVIOUS
    <2>1. i - 1 \in 1 .. k
      BY <1>a
    <2> QED BY <2>1, WordsKept
  <1>6. T[i].is = "chain" => ChainOK(su, U, i)
    BY ChainKept DEF SlotOK
  <1>7. T[i].is = "code" /\ i = T[i].s + 2 => ReturnOK(p, su, U, i)
    BY <1>1, ReturnKept DEF SlotOK
  <1>8. T[i].is = "code" /\ i # T[i].s + 2 /\ i > 1 /\ T[i - 1].is = "ip" => SavedOK(p, su, U, i)
    BY SavedKept DEF SlotOK
  <1>9. T[i].is = "xp" => TryOK(p, su, U, i)
    BY TryKept DEF SlotOK
  <1>10. i > 1 /\ T[i - 1].is = "object" => T[i].is = "chain"
    BY DEF SlotOK
  <1> QED BY <1>1, <1>2, <1>3, <1>4, <1>5, <1>6, <1>7, <1>8, <1>9, <1>10 DEF SlotOK

-----------------------------------------------------------------------------
(* Sequences.                                                              *)

(* The first k elements of a sequence.                                     *)
LEMMA CutIs ==
  ASSUME NEW S, NEW T \in Seq(S), NEW k \in 0 .. Len(T)
  PROVE  /\ SubSeq(T, 1, k) \in Seq(S) /\ Len(SubSeq(T, 1, k)) = k
         /\ \A i \in 1 .. k : SubSeq(T, 1, k)[i] = T[i]
  OBVIOUS

(* The elements of a concatenation.                                        *)
LEMMA GrownIs ==
  ASSUME NEW S, NEW T \in Seq(S), NEW U \in Seq(S)
  PROVE  /\ T \o U \in Seq(S) /\ Len(T \o U) = Len(T) + Len(U)
         /\ \A i \in 1 .. Len(T) : (T \o U)[i] = T[i]
         /\ \A i \in 1 .. Len(U) : (T \o U)[Len(T) + i] = U[i]
  OBVIOUS

-----------------------------------------------------------------------------
(* The machine and the stack T beside it.                                  *)

(* The words of a stack that T describes, one by one.                      *)
LEMMA BalancedIs ==
  ASSUME NEW p, NEW x, NEW T, Balanced(p, x, T)
  PROVE  /\ Len(T) \in Nat /\ Len(x.stack) = Len(T) /\ Sp(x) = Len(T)
         /\ \A i \in 1 .. Len(T) :
                /\ x.stack[i] \in StackWords(p) /\ T[i] \in Slots(p)
                /\ x.stack[i].is = T[i].is /\ T[i].s \in Nat /\ T[i].v \in Int
                /\ SlotOK(p, x.stack, T, i)
  <1>1. x.stack \in Seq(StackWords(p)) /\ T \in Seq(Slots(p)) /\ Len(T) = Len(x.stack)
        /\ \A i \in 1 .. Len(T) : SlotOK(p, x.stack, T, i)
    BY DEF Balanced, Machines
  <1>2. Len(T) \in Nat /\ Sp(x) = Len(T)
    BY <1>1 DEF Sp
  <1>3. ASSUME NEW i \in 1 .. Len(T)
        PROVE  /\ x.stack[i] \in StackWords(p) /\ T[i] \in Slots(p)
               /\ x.stack[i].is = T[i].is /\ T[i].s \in Nat /\ T[i].v \in Int
    <2>1. x.stack[i] \in StackWords(p) /\ T[i] \in Slots(p)
      BY <1>1
    <2> QED BY <1>1, <2>1 DEF SlotOK, Slots
  <1> QED BY <1>1, <1>2, <1>3

(* The words above k do not matter to a link when none of them is one.     *)
LEMMA LinkDown ==
  ASSUME NEW T, NEW n \in Nat, NEW k \in 0 .. n, NEW v
  PROVE  /\ LinkX(T, n, v) /\ (\A j \in k + 1 .. n : T[j].is # "xp") => LinkX(T, k, v)
         /\ LinkY(T, n, v) /\ (\A j \in k + 1 .. n : ~IsLinked(T[j])) => LinkY(T, k, v)
         /\ LinkX(T, k, v) /\ (\A j \in k + 1 .. n : T[j].is # "xp") => LinkX(T, n, v)
         /\ LinkY(T, k, v) /\ (\A j \in k + 1 .. n : ~IsLinked(T[j])) => LinkY(T, n, v)
  BY DEF LinkX, LinkY

IsObject(T, y) == y \in Nat /\ y + 2 <= Len(T) /\ IsLinked(T[y + 2])

(* A link is the uppermost object, or descriptor, below it.                *)
LEMMA LinkTops ==
  ASSUME NEW T, Len(T) \in Nat, NEW n \in 0 .. Len(T), NEW v
  PROVE  /\ LinkY(T, n, v) => Tops({y \in Nat : IsObject(T, y)}, n - 1, v)
         /\ LinkX(T, n, v) => Tops({d \in Nat : IsTry(T, d)}, n - 4, v)
  <1>1. ASSUME LinkY(T, n, v) PROVE Tops({y \in Nat : IsObject(T, y)}, n - 1, v)
    <2>1. CASE v = InvalidPtr
      <3>1. \A j \in 1 .. n : ~IsLinked(T[j])
        BY <1>1, <2>1 DEF LinkY, InvalidPtr
      <3>2. ASSUME NEW d \in Nat, IsObject(T, d) PROVE d >= n - 1
        BY <3>1, <3>2 DEF IsObject
      <3> QED BY <2>1, <3>2 DEF Tops
    <2>2. CASE v # InvalidPtr
      <3>1. v \in Nat /\ v + 2 <= n /\ IsLinked(T[v + 2]) /\ \A j \in v + 3 .. n : ~IsLinked(T[j])
        BY <1>1, <2>2 DEF LinkY
      <3>2. ASSUME NEW d \in Nat, IsObject(T, d), d < n - 1 PROVE d <= v
        BY <3>1, <3>2 DEF IsObject
      <3> QED BY <3>1, <3>2 DEF Tops, IsObject
    <2> QED BY <2>1, <2>2
  <1>2. ASSUME LinkX(T, n, v) PROVE Tops({d \in Nat : IsTry(T, d)}, n - 4, v)
    <2>1. CASE v = InvalidPtr
      <3>1. \A j \in 1 .. n : T[j].is # "xp"
        BY <1>2, <2>1 DEF LinkX, InvalidPtr
      <3>2. ASSUME NEW d \in Nat, IsTry(T, d) PROVE d >= n - 4
        BY <3>1, <3>2 DEF IsTry
      <3> QED BY <2>1, <3>2 DEF Tops
    <2>2. CASE v # InvalidPtr
      <3>1. v \in Nat /\ v + 5 <= n /\ T[v + 5].is = "xp" /\ \A j \in v + 6 .. n : T[j].is # "xp"
        BY <1>2, <2>2 DEF LinkX
      <3>2. ASSUME NEW d \in Nat, IsTry(T, d), d < n - 4 PROVE d <= v
        BY <3>1, <3>2 DEF IsTry
      <3> QED BY <3>1, <3>2 DEF Tops, IsTry
    <2> QED BY <2>1, <2>2
  <1> QED BY <1>1, <1>2

(* The release chain has all the objects that are linked.                  *)
LEMMA ChainedIs ==
  ASSUME NEW p, NEW x, NEW T, Balanced(p, x, T)
  PROVE  Chained(x) = {y \in Nat : IsObject(T, y)}
  <1> DEFINE D == {y \in 0 .. Sp(x) - 1 : Holds(x, y, ReleaserDesc)}
             next == [y \in D |-> At(x, y + 1).v]
             S == {y \in Nat : IsObject(T, y)}
             n == Len(T)
  <1>1. n \in Nat /\ Sp(x) = n
    BY BalancedIs
  <1>2. DOMAIN next \in SUBSET Nat
    BY <1>1
  <1>3. ASSUME NEW y \in S
        PROVE  y \in D /\ Tops(S, y, x.stack[y + 2].v)
    <2>1. y \in Nat /\ y + 2 \in 1 .. n /\ y + 1 \in 1 .. n /\ IsLinked(T[y + 2])
      BY <1>1, <1>3 DEF IsObject
    <2>2. ChainOK(x.stack, T, y + 2) /\ x.stack[y + 2].is = "chain"
      BY <2>1, BalancedIs DEF SlotOK, IsLinked
    <2>3. T[y + 1].is = "object" /\ LinkY(T, y + 1, x.stack[y + 2].v)
      BY <2>1, <2>2 DEF ChainOK, IsLinked, Linked, Unlinked
    <2>4. x.stack[y + 1].is = "object"
      BY <2>1, <2>3, BalancedIs
    <2>5. Holds(x, y, ReleaserDesc)
      BY <1>1, <2>1, <2>2, <2>4 DEF Holds, ReleaserDesc, At
    <2>6. Tops(S, (y + 1) - 1, x.stack[y + 2].v)
      <3>1. y + 1 \in 0 .. Len(T)
        BY <1>1, <2>1
      <3> QED BY <1>1, <2>3, <3>1, LinkTops
    <2> QED BY <1>1, <2>1, <2>5, <2>6
  <1>4. \A y \in S : Tops(S, y, next[y])
    <2> TAKE y \in S
    <2>1. y \in D /\ y \in Nat /\ next[y] = x.stack[(y + 1) + 1].v
      BY <1>3 DEF At
    <2>2. (y + 1) + 1 = y + 2
      BY <2>1
    <2> QED BY <1>3, <2>1, <2>2
  <1>5. \A y \in S : y < n - 1
    BY <1>1 DEF IsObject
  <1>6. Tops(S, n - 1, x.yp)
    <2>1. LinkY(T, n, x.yp)
      BY DEF Balanced
    <2>2. n \in 0 .. Len(T)
      BY <1>1
    <2> QED BY <1>1, <2>1, <2>2, LinkTops
  <1>7. S \in SUBSET DOMAIN next
    BY <1>3
  <1>8. Chained(x) = Chain(next, x.yp)
    BY DEF Chained
  <1> HIDE DEF next, S, n
  <1>9. n - 1 \in Int
    BY <1>1
  <1> QED BY <1>2, <1>4, <1>5, <1>6, <1>7, <1>8, <1>9, ChainIs DEF S

(* The chain xp has all the exception descriptors on the stack.            *)
LEMMA DescriptorsAre ==
  ASSUME NEW p, NEW x, NEW T, Balanced(p, x, T), LinkX(T, Len(T), x.xp)
  PROVE  Descriptors(x) = {d \in Nat : IsTry(T, d)}
  <1> DEFINE D == {y \in 0 .. Sp(x) - 1 : Holds(x, y, ExceptionDesc)}
             next == [y \in D |-> At(x, y + 4).v]
             S == {d \in Nat : IsTry(T, d)}
             n == Len(T)
  <1>1. n \in Nat /\ Sp(x) = n
    BY BalancedIs
  <1>2. DOMAIN next \in SUBSET Nat
    BY <1>1
  <1>3. ASSUME NEW d \in S
        PROVE  d \in D /\ Tops(S, d, x.stack[d + 5].v)
    <2>1. d \in Nat /\ d + 5 \in 1 .. n /\ T[d + 5].is = "xp"
      BY <1>1, <1>3 DEF IsTry
    <2>2. TryOK(p, x.stack, T, d + 5) /\ x.stack[d + 5].is = "xp"
      BY <2>1, BalancedIs DEF SlotOK
    <2>3. /\ T[d + 1].is = "handler" /\ T[d + 2].is = "finally"
          /\ T[d + 3].is = "code" /\ T[d + 4].is = "fp" /\ LinkX(T, d, x.stack[d + 5].v)
      <3>1. (d + 5) - 4 = d + 1 /\ (d + 5) - 3 = d + 2 /\ (d + 5) - 2 = d + 3 /\ (d + 5) - 1 = d + 4
            /\ (d + 5) - 5 = d
        BY <2>1
      <3> QED BY <2>2, <3>1 DEF TryOK
    <2>4. /\ x.stack[d + 1].is = "handler" /\ x.stack[d + 2].is = "finally"
          /\ x.stack[d + 3].is = "code" /\ x.stack[d + 4].is = "fp"
      <3>1. d + 1 \in 1 .. n /\ d + 2 \in 1 .. n /\ d + 3 \in 1 .. n /\ d + 4 \in 1 .. n
        BY <1>1, <2>1
      <3> QED BY <2>3, <3>1, BalancedIs
    <2>5. Holds(x, d, ExceptionDesc)
      BY SMTT(30), <1>1, <2>1, <2>2, <2>4 DEF Holds, ExceptionDesc, At
    <2>6. LinkX(T, d + 4, x.stack[d + 5].v)
      <3>1. d \in 0 .. d + 4 /\ d + 4 \in Nat
        BY <2>1
      <3>2. \A j \in d + 1 .. d + 4 : T[j].is # "xp"
        <4> TAKE j \in d + 1 .. d + 4
        <4>1. j = d + 1 \/ j = d + 2 \/ j = d + 3 \/ j = d + 4
          BY <2>1
        <4> QED BY <2>3, <4>1
      <3> QED BY <2>3, <3>1, <3>2, LinkDown
    <2>7. Tops(S, (d + 4) - 4, x.stack[d + 5].v)
      <3>1. d + 4 \in 0 .. Len(T)
        BY <1>1, <2>1
      <3> QED BY <1>1, <2>6, <3>1, LinkTops
    <2> QED BY <1>1, <2>1, <2>5, <2>7
  <1>4. \A d \in S : Tops(S, d, next[d])
    <2> TAKE d \in S
    <2>1. d \in D /\ d \in Nat /\ next[d] = x.stack[(d + 4) + 1].v
      BY <1>3 DEF At
    <2>2. (d + 4) + 1 = d + 5
      BY <2>1
    <2> QED BY <1>3, <2>1, <2>2
  <1>5. \A d \in S : d < n - 4
    BY <1>1 DEF IsTry
  <1>6. Tops(S, n - 4, x.xp)
    <2>1. n \in 0 .. Len(T)
      BY <1>1
    <2> QED BY <1>1, <2>1, LinkTops
  <1>7. S \in SUBSET DOMAIN next
    BY <1>3
  <1>8. Descriptors(x) = Chain(next, x.xp)
    BY DEF Descriptors
  <1> HIDE DEF next, S, n
  <1>9. n - 4 \in Int
    BY <1>1
  <1> QED BY <1>2, <1>4, <1>5, <1>6, <1>7, <1>8, <1>9, ChainIs DEF S

-----------------------------------------------------------------------------
(* The objects on the stack.                                               *)

(* The objects not null are finitely many.                                 *)
LEMMA AliveFinite ==
  ASSUME NEW st, NEW n \in Nat
  PROVE  IsFiniteSet(AliveSet(st, n)) /\ Alive(st, n) \in Nat
  <1>1. IsFiniteSet(0 .. n - 1)
    BY FS_Interval
  <1>2. IsFiniteSet(AliveSet(st, n))
    BY <1>1, FS_Subset DEF AliveSet
  <1> QED BY <1>2, FS_CardinalityType DEF Alive

(* Words that stay null or not are as many as before.                      *)
LEMMA AliveSame ==
  ASSUME NEW st, NEW su, NEW n \in Nat,
         \A j \in 1 .. n : (su[j].is = "object" /\ su[j].v = 1) <=> (st[j].is = "object" /\ st[j].v = 1)
  PROVE  AliveSet(su, n) = AliveSet(st, n) /\ Alive(su, n) = Alive(st, n)
  <1>1. \A y \in 0 .. n - 1 : y + 1 \in 1 .. n
    OBVIOUS
  <1>2. AliveSet(su, n) = AliveSet(st, n)
    BY <1>1 DEF AliveSet
  <1> QED BY <1>2 DEF Alive

(* One word more has one object more, or none.                             *)
LEMMA AliveNext ==
  ASSUME NEW st, NEW n \in Nat
  PROVE  Alive(st, n + 1) = Alive(st, n) + IF st[n + 1].is = "object" /\ st[n + 1].v = 1 THEN 1 ELSE 0
  <1>1. IsFiniteSet(AliveSet(st, n)) /\ Alive(st, n) \in Nat
    BY AliveFinite
  <1>2. CASE st[n + 1].is = "object" /\ st[n + 1].v = 1
    <2>1. AliveSet(st, n + 1) = AliveSet(st, n) \cup {n} /\ n \notin AliveSet(st, n)
      BY <1>2 DEF AliveSet
    <2> QED BY <1>1, <1>2, <2>1, FS_AddElement DEF Alive
  <1>3. CASE ~ (st[n + 1].is = "object" /\ st[n + 1].v = 1)
    <2>1. AliveSet(st, n + 1) = AliveSet(st, n)
      BY <1>3 DEF AliveSet
    <2> QED BY <1>1, <1>3, <2>1 DEF Alive
  <1> QED BY <1>2, <1>3

(* An object or null is stored at the j-th word.                           *)
LEMMA AliveStored ==
  ASSUME NEW st, NEW su, NEW n \in Nat, NEW j \in 1 .. n,
         st[j].is = "object", st[j].v \in {0, 1}, su[j].is = "object", su[j].v = 1,
         \A i \in 1 .. n : i # j => su[i] = st[i]
  PROVE  Alive(su, n) = Alive(st, n) + 1 - st[j].v
  <1>1. IsFiniteSet(AliveSet(st, n)) /\ Alive(st, n) \in Nat
    BY AliveFinite
  <1>2. \A y \in 0 .. n - 1 : y + 1 \in 1 .. n
    OBVIOUS
  <1>3. CASE st[j].v = 1
    <2>1. Alive(su, n) = Alive(st, n)
      <3>1. \A i \in 1 .. n : (su[i].is = "object" /\ su[i].v = 1) <=> (st[i].is = "object" /\ st[i].v = 1)
        BY <1>3
      <3> QED BY <3>1, AliveSame
    <2> QED BY <1>1, <1>3, <2>1
  <1>4. CASE st[j].v = 0
    <2>1. AliveSet(su, n) = AliveSet(st, n) \cup {j - 1}
      BY <1>2, <1>4 DEF AliveSet
    <2>2. j - 1 \notin AliveSet(st, n)
      BY <1>4 DEF AliveSet
    <2> QED BY <1>1, <1>4, <2>1, <2>2, FS_AddElement DEF Alive
  <1> QED BY <1>3, <1>4

-----------------------------------------------------------------------------
(* Releasing.                                                              *)

(* The top of the stack is not an object without its chain word.           *)
Settles(T) == Len(T) > 0 => T[Len(T)].is # "object"

(* The objects above si are released, the release chain ends there.        *)
LEMMA FreeForIs ==
  ASSUME NEW p, NEW x, NEW T, Balanced(p, x, T), Settles(T), NEW si \in 0 .. Len(T),
         si < Len(T) => T[si + 1].is # "chain"
  PROVE  \E yp \in Int :
            /\ FreeFor(x, si) = [x EXCEPT !.yp = yp, !.live = Alive(x.stack, si)]
            /\ LinkY(T, si, yp)
  <1> DEFINE n == Len(T)
             st == x.stack
             freed == {y \in Chained(x) : y >= si}
             yp == IF freed = {} THEN x.yp ELSE At(x, Lowest(freed) + 1).v
  <1>1. n \in Nat /\ si \in Nat /\ si <= n
    BY BalancedIs
  <1>2. \A y : y \in freed <=> y \in Nat /\ y >= si /\ IsObject(T, y)
    BY ChainedIs
  <1>3. LinkY(T, si, yp)
    <2>1. CASE freed = {}
      <3>1. \A j \in si + 1 .. n : ~IsLinked(T[j])
        <4> SUFFICES ASSUME NEW j \in si + 1 .. n, IsLinked(T[j]) PROVE FALSE
          OBVIOUS
        <4>1. j # si + 1
          BY <1>1 DEF IsLinked
        <4>2. j - 2 \in Nat /\ j - 2 >= si /\ (j - 2) + 2 = j
          BY <1>1, <4>1
        <4>3. j - 2 \in freed
          BY <1>1, <1>2, <4>2 DEF IsObject
        <4> QED BY <2>1, <4>3
      <3>2. LinkY(T, n, x.yp)
        BY DEF Balanced
      <3> QED BY <1>1, <2>1, <3>1, <3>2, LinkDown
    <2>2. CASE freed # {}
      <3> DEFINE low == Lowest(freed)
      <3>1. low \in freed /\ \A y \in freed : low <= y
        <4>1. freed \in SUBSET Nat
          BY <1>2
        <4> QED BY <2>2, <4>1, LowestIs
      <3> HIDE DEF low
      <3>2. low \in Nat /\ low >= si /\ low + 2 \in 1 .. n /\ IsLinked(T[low + 2])
        BY <1>1, <1>2, <3>1 DEF IsObject
      <3>3. ChainOK(st, T, low + 2)
        BY <3>2, BalancedIs DEF SlotOK, IsLinked
      <3>4. LinkY(T, low + 1, st[low + 2].v)
        <4>1. (low + 2) - 1 = low + 1
          BY <3>2
        <4> QED BY <3>2, <3>3, <4>1 DEF ChainOK, IsLinked, Linked, Unlinked
      <3>5. \A j \in si + 1 .. low + 1 : ~IsLinked(T[j])
        <4> SUFFICES ASSUME NEW j \in si + 1 .. low + 1, IsLinked(T[j]) PROVE FALSE
          OBVIOUS
        <4>1. j # si + 1
          BY <1>1, <3>2 DEF IsLinked
        <4>2. j - 2 \in Nat /\ j - 2 >= si /\ (j - 2) + 2 = j /\ j - 2 < low /\ j <= n
          BY <1>1, <3>2, <4>1
        <4>3. j - 2 \in freed
          BY <1>1, <1>2, <4>2 DEF IsObject
        <4> QED BY <3>1, <3>2, <4>2, <4>3
      <3>6. LinkY(T, si, st[low + 2].v)
        <4>1. si \in 0 .. low + 1 /\ low + 1 \in Nat
          BY <1>1, <3>2
        <4> QED BY <3>4, <3>5, <4>1, LinkDown
      <3>7. yp = st[low + 2].v
        <4>1. (low + 1) + 1 = low + 2
          BY <3>2
        <4> QED BY <2>2, <4>1 DEF At, low
      <3> QED BY <3>6, <3>7
    <2> QED BY <2>1, <2>2
  <1>4. yp \in Int /\ ~ (yp >= si)
    BY <1>1, <1>3 DEF LinkY, InvalidPtr
  <1>5. Alive(st, si) = x.live - Cardinality({y \in freed : At(x, y).v = 1})
    <2> DEFINE gone == {y \in freed : At(x, y).v = 1}
    <2>1. gone = AliveSet(st, n) \ AliveSet(st, si)
      <3>1. ASSUME NEW y \in gone PROVE y \in AliveSet(st, n) /\ y \notin AliveSet(st, si)
        <4>1. y \in Nat /\ y >= si /\ y + 2 \in 1 .. n /\ y + 1 \in 1 .. n /\ IsLinked(T[y + 2])
          BY <1>1, <1>2, <3>1 DEF IsObject
        <4>2. ChainOK(st, T, y + 2)
          BY <4>1, BalancedIs DEF SlotOK, IsLinked
        <4>3. T[y + 1].is = "object"
          <5>1. (y + 2) - 1 = y + 1
            BY <4>1
          <5> QED BY <4>2, <5>1 DEF ChainOK
        <4>4. st[y + 1].is = "object" /\ st[y + 1].v = 1
          BY <3>1, <4>1, <4>3, BalancedIs DEF At
        <4> QED BY <1>1, <4>1, <4>4 DEF AliveSet
      <3>2. ASSUME NEW y \in AliveSet(st, n), y \notin AliveSet(st, si) PROVE y \in gone
        <4>1. y \in Nat /\ y + 1 \in 1 .. n /\ st[y + 1].is = "object" /\ st[y + 1].v = 1 /\ y >= si
          BY <1>1, <3>2 DEF AliveSet
        <4>2. T[y + 1].is = "object"
          BY <4>1, BalancedIs
        <4>3. y + 1 # n
          BY <1>1, <4>1, <4>2 DEF Settles
        <4>4. y + 2 \in 1 .. n /\ (y + 2) - 1 = y + 1 /\ y + 2 > 1
          BY <1>1, <4>1, <4>3
        <4>5. T[y + 2].is = "chain" /\ ChainOK(st, T, y + 2)
          BY <4>2, <4>4, BalancedIs DEF SlotOK
        <4>6. IsLinked(T[y + 2])
          BY <4>1, <4>4, <4>5 DEF ChainOK, IsLinked
        <4>7. y \in freed
          BY <1>1, <1>2, <4>1, <4>4, <4>6 DEF IsObject
        <4> QED BY <4>1, <4>7 DEF At
      <3> QED BY <3>1, <3>2
    <2>2. AliveSet(st, n) \cap AliveSet(st, si) = AliveSet(st, si)
      BY <1>1 DEF AliveSet
    <2>3. IsFiniteSet(AliveSet(st, n)) /\ Alive(st, n) \in Nat /\ Alive(st, si) \in Nat
      BY <1>1, AliveFinite
    <2>4. Cardinality(AliveSet(st, n) \ AliveSet(st, si))
            = Cardinality(AliveSet(st, n)) - Cardinality(AliveSet(st, n) \cap AliveSet(st, si))
      BY <2>3, FS_Difference
    <2>5. x.live = Alive(st, n)
      BY DEF Balanced
    <2> HIDE DEF gone
    <2>6. Cardinality(gone) = Alive(st, n) - Alive(st, si)
      BY <2>1, <2>2, <2>4 DEF Alive
    <2>7. Alive(st, si) = x.live - Cardinality(gone)
      BY <2>3, <2>5, <2>6
    <2> QED BY <2>7 DEF gone
  <1>6. FreeFor(x, si) = [x EXCEPT !.yp = yp, !.live = x.live - Cardinality({y \in freed : At(x, y).v = 1})]
    <2>1. FreeFor(x, si) = IF yp >= si THEN Undefined(x)
                           ELSE [x EXCEPT !.yp = yp, !.live = @ - Cardinality({y \in freed : At(x, y).v = 1})]
      BY DEF FreeFor
    <2> HIDE DEF yp, freed
    <2> QED BY <1>4, <2>1
  <1> HIDE DEF yp, freed
  <1>7. FreeFor(x, si) = [x EXCEPT !.yp = yp, !.live = Alive(st, si)]
    BY <1>5, <1>6
  <1> QED BY <1>3, <1>4, <1>7

-----------------------------------------------------------------------------
(* Stacks that change.                                                     *)

(* U is T up to the k-th word, and what is above is what U says.           *)
LEMMA Rebalanced ==
  ASSUME NEW p, NEW x, NEW T, Balanced(p, x, T), NEW y \in Machines(p),
         NEW U \in Seq(Slots(p)), Len(U) = Len(y.stack),
         NEW k \in Nat, SameTo(T, U, k), KeptTo(x.stack, y.stack, T, k),
         \A i \in k + 1 .. Len(U) : SlotOK(p, y.stack, U, i),
         LinkY(U, Len(U), y.yp), y.live = Alive(y.stack, Len(U))
  PROVE  Balanced(p, y, U)
  <1>1. Len(T) \in Nat /\ Len(U) \in Nat /\ k <= Len(T) /\ k <= Len(U)
    BY BalancedIs DEF SameTo
  <1>2. Keeps(p, x.stack, y.stack, T, U, k)
    <2>1. \A j \in 1 .. k : x.stack[j].is = T[j].is
      BY <1>1, BalancedIs
    <2>2. T \in Seq(Slots(p))
      BY DEF Balanced
    <2> QED BY <2>1, <2>2 DEF Keeps
  <1>3. ASSUME NEW i \in 1 .. Len(U) PROVE SlotOK(p, y.stack, U, i)
    <2>1. CASE i <= k
      <3>1. i \in 1 .. k /\ i \in 1 .. Len(T)
        BY <1>1, <2>1
      <3>2. SlotOK(p, x.stack, T, i)
        BY <3>1, BalancedIs
      <3> QED BY <1>2, <3>1, <3>2, SlotKept
    <2>2. CASE i > k
      <3>1. i \in k + 1 .. Len(U)
        BY <1>1, <2>2
      <3> QED BY <3>1
    <2> QED BY <1>1, <2>1, <2>2
  <1> QED BY <1>3 DEF Balanced

(* The registers besides the stack, yp and live do not matter to it.       *)
LEMMA RebalancedOther ==
  ASSUME NEW p, NEW x, NEW T, Balanced(p, x, T), NEW y \in Machines(p),
         y.stack = x.stack, y.yp = x.yp, y.live = x.live
  PROVE  Balanced(p, y, T)
  BY DEF Balanced

(* The words above the k-th are freed.                                     *)
Freed(x, k, yp) ==
    [x EXCEPT !.stack = SubSeq(x.stack, 1, k), !.yp = yp, !.live = Alive(x.stack, k)]

(* The machine after FreeDownTo, register by register.                     *)
LEMMA FreedIs ==
  ASSUME NEW p, NEW x \in Machines(p), NEW k \in 0 .. Len(x.stack), NEW yp \in Int
  PROVE  /\ Freed(x, k, yp) \in Machines(p)
         /\ Freed(x, k, yp).stack = SubSeq(x.stack, 1, k)
         /\ Freed(x, k, yp).code = x.code /\ Freed(x, k, yp).ip = x.ip
         /\ Freed(x, k, yp).fp = x.fp /\ Freed(x, k, yp).xp = x.xp
         /\ Freed(x, k, yp).ret = x.ret /\ Freed(x, k, yp).exception = x.exception
         /\ Freed(x, k, yp).status = x.status /\ Freed(x, k, yp).yp = yp
         /\ Freed(x, k, yp).live = Alive(x.stack, k)
  <1> DEFINE st == SubSeq(x.stack, 1, k)
             live == Alive(x.stack, k)
  <1>1. x.stack \in Seq(StackWords(p))
    BY DEF Machines
  <1>2. k \in Nat /\ st \in Seq(StackWords(p))
    BY <1>1, CutIs
  <1>3. live \in Int
    BY <1>2, AliveFinite
  <1>4. Freed(x, k, yp) = [x EXCEPT !.stack = st, !.yp = yp, !.live = live]
    BY DEF Freed
  <1> HIDE DEF st, live
  <1>5. /\ Freed(x, k, yp) \in Machines(p)
        /\ Freed(x, k, yp).stack = st
        /\ Freed(x, k, yp).code = x.code /\ Freed(x, k, yp).ip = x.ip
        /\ Freed(x, k, yp).fp = x.fp /\ Freed(x, k, yp).xp = x.xp
        /\ Freed(x, k, yp).ret = x.ret /\ Freed(x, k, yp).exception = x.exception
        /\ Freed(x, k, yp).status = x.status /\ Freed(x, k, yp).yp = yp
        /\ Freed(x, k, yp).live = live
    BY <1>2, <1>3, <1>4 DEF Machines
  <1> QED BY <1>5 DEF st, live

(* It is described by the slots that are left.                             *)
LEMMA FreedBalanced ==
  ASSUME NEW p, NEW x, NEW T, Balanced(p, x, T), NEW k \in 0 .. Len(T), NEW yp,
         LinkY(T, k, yp)
  PROVE  Balanced(p, Freed(x, k, yp), SubSeq(T, 1, k))
  <1> DEFINE y == Freed(x, k, yp)
             U == SubSeq(T, 1, k)
  <1>1. x \in Machines(p) /\ x.stack \in Seq(StackWords(p)) /\ T \in Seq(Slots(p)) /\ Len(T) = Len(x.stack)
    BY DEF Balanced, Machines
  <1>a. yp \in Int
    BY DEF LinkY, InvalidPtr
  <1>2. y \in Machines(p) /\ y.stack = SubSeq(x.stack, 1, k) /\ y.yp = yp /\ y.live = Alive(x.stack, k)
    BY <1>1, <1>a, FreedIs
  <1>3. /\ U \in Seq(Slots(p)) /\ Len(U) = k /\ \A i \in 1 .. k : U[i] = T[i]
        /\ y.stack \in Seq(StackWords(p)) /\ Len(y.stack) = k
        /\ \A i \in 1 .. k : y.stack[i] = x.stack[i]
    BY <1>1, <1>2, CutIs
  <1>4. k \in Nat /\ k <= Len(T) /\ Len(T) \in Nat
    BY <1>1
  <1>5. SameTo(T, U, k) /\ KeptTo(x.stack, y.stack, T, k)
    BY <1>3, <1>4 DEF SameTo, KeptTo
  <1> HIDE DEF y, U
  <1>6. Alive(y.stack, k) = Alive(x.stack, k)
    <2>1. k \in Nat /\ \A i \in 1 .. k : y.stack[i] = x.stack[i]
      BY <1>3, <1>4
    <2> QED BY <2>1, AliveSame
  <1>7. LinkY(U, k, yp)
    BY <1>4, <1>5, LinkKept
  <1>8. \A i \in k + 1 .. Len(U) : SlotOK(p, y.stack, U, i)
    BY <1>3, <1>4
  <1>9. Balanced(p, y, U)
    BY <1>2, <1>3, <1>4, <1>5, <1>6, <1>7, <1>8, Rebalanced
  <1> QED BY <1>9 DEF y, U

(* FreeDownTo releases the objects of the words it takes off.              *)
LEMMA FreeDownToIs ==
  ASSUME NEW p, NEW x, NEW T, Balanced(p, x, T), Settles(T), NEW k \in 0 .. Len(T),
         k < Len(T) => T[k + 1].is # "chain"
  PROVE  \E yp \in Int : /\ FreeDownTo(x, k) = Freed(x, k, yp)
                         /\ Balanced(p, Freed(x, k, yp), SubSeq(T, 1, k))
  <1>1. PICK yp \in Int :
            /\ FreeFor(x, k) = [x EXCEPT !.yp = yp, !.live = Alive(x.stack, k)]
            /\ LinkY(T, k, yp)
    BY FreeForIs
  <1>2. x \in Machines(p) /\ k \in Nat
    BY BalancedIs DEF Balanced
  <1>3. Truncate(FreeFor(x, k), k) = Freed(x, k, yp)
    <2>1. (IF k < 0 THEN 0 ELSE k) = k
      BY <1>2
    <2> QED BY <1>1, <1>2, <2>1 DEF Truncate, Freed, Machines
  <1>4. Balanced(p, Freed(x, k, yp), SubSeq(T, 1, k))
    BY <1>1, FreedBalanced
  <1> QED BY <1>3, <1>4 DEF FreeDownTo

(* Truncate to a length the stack has.                                     *)
LEMMA TruncateIs ==
  ASSUME NEW p, NEW x, NEW T, Balanced(p, x, T), NEW k \in 0 .. Len(T)
  PROVE  Truncate(x, k) = [x EXCEPT !.stack = SubSeq(x.stack, 1, k)]
  <1>1. k \in Nat
    BY BalancedIs
  <1>2. (IF k < 0 THEN 0 ELSE k) = k
    BY <1>1
  <1>3. x \in Machines(p)
    BY DEF Balanced
  <1> QED BY <1>2, <1>3 DEF Truncate, Machines

-----------------------------------------------------------------------------
(* Frames.                                                                 *)

(* The words left are those of the map that is left.                       *)
LEMMA MappedCut ==
  ASSUME NEW p, NEW T \in Seq(Slots(p)), NEW s, NEW n, NEW f, NEW W, Mapped(T, s, n, f, W),
         NEW k \in 0 .. Len(W)
  PROVE  Mapped(SubSeq(T, 1, s + k), s, s + k, f, SubSeq(W, 1, k))
  <1> DEFINE U == SubSeq(T, 1, s + k)
             V == SubSeq(W, 1, k)
  <1>1. /\ s \in Nat /\ W \in Seq(MapWords) /\ s + Len(W) = n /\ n <= Len(T)
        /\ \A j \in 1 .. Len(W) : Matches(T[s + j], W[j], s, f)
    BY DEF Mapped
  <1>2. Len(W) \in Nat /\ Len(T) \in Nat /\ k \in Nat /\ k <= Len(W) /\ s + k \in 0 .. Len(T)
    BY <1>1
  <1>3. Len(U) = s + k /\ \A i \in 1 .. s + k : U[i] = T[i]
    BY <1>2, CutIs
  <1>4. V \in Seq(MapWords) /\ Len(V) = k /\ \A i \in 1 .. k : V[i] = W[i]
    BY <1>1, CutIs
  <1> HIDE DEF U, V
  <1>5. \A j \in 1 .. Len(V) : Matches(U[s + j], V[j], s, f)
    <2> TAKE j \in 1 .. Len(V)
    <2>1. j \in 1 .. k /\ j \in 1 .. Len(W) /\ s + j \in 1 .. s + k
      BY <1>1, <1>2, <1>4
    <2> QED BY <1>1, <1>3, <1>4, <2>1
  <1>6. Mapped(U, s, s + k, f, V)
    BY <1>1, <1>2, <1>3, <1>4, <1>5 DEF Mapped
  <1> QED BY <1>6 DEF U, V

(* The words V are pushed in the frame of f behind s.                      *)
SlotsOf(V, s, f) == [j \in 1 .. Len(V) |-> [is |-> V[j].is, v |-> V[j].v, s |-> s, f |-> f]]
Grown(T, V, s, f) == T \o SlotsOf(V, s, f)

GrownBy(p, T, U, V, s, f) ==
    /\ U \in Seq(Slots(p)) /\ Len(U) = Len(T) + Len(V) /\ SameTo(T, U, Len(T))
    /\ \A j \in 1 .. Len(V) : U[Len(T) + j] = [is |-> V[j].is, v |-> V[j].v, s |-> s, f |-> f]

(* Words pushed in the frame get the slots that say so.                    *)
LEMMA SlotsGrown ==
  ASSUME NEW p, NEW T \in Seq(Slots(p)), NEW V \in Seq(MapWords), NEW s \in Nat,
         NEW f \in DOMAIN Code[p]
  PROVE  GrownBy(p, T, Grown(T, V, s, f), V, s, f)
  <1> DEFINE X == SlotsOf(V, s, f)
  <1>1. Len(V) \in Nat /\ \A j \in 1 .. Len(V) : V[j] \in MapWords
    OBVIOUS
  <1>2. \A j \in 1 .. Len(V) : X[j] = [is |-> V[j].is, v |-> V[j].v, s |-> s, f |-> f] /\ X[j] \in Slots(p)
    BY <1>1 DEF SlotsOf, MapWords, Slots
  <1>3. X \in Seq(Slots(p)) /\ Len(X) = Len(V)
    BY <1>1, <1>2 DEF SlotsOf
  <1> HIDE DEF X
  <1>4. /\ T \o X \in Seq(Slots(p)) /\ Len(T \o X) = Len(T) + Len(X)
        /\ \A i \in 1 .. Len(T) : (T \o X)[i] = T[i]
        /\ \A i \in 1 .. Len(X) : (T \o X)[Len(T) + i] = X[i]
    BY <1>3, GrownIs
  <1>5. Len(T) \in Nat
    OBVIOUS
  <1>6. Grown(T, V, s, f) = T \o X
    BY DEF Grown, X
  <1> QED BY <1>1, <1>2, <1>3, <1>4, <1>5, <1>6 DEF SameTo, GrownBy

(* The same words, or words where the map leaves open whether the object   *)
(* is on the chain.                                                        *)
Fills(X, V) ==
    /\ X \in Seq(MapWords) /\ V \in Seq(MapWords) /\ Len(X) = Len(V)
    /\ \A j \in 1 .. Len(V) :
        \/ X[j] = V[j]
        \/ V[j] = Word("chain", Either) /\ X[j].is = "chain" /\ X[j].v \in {Linked, Unlinked}

(* The words and those pushed on them are those of the longer map.         *)
LEMMA MappedGrown ==
  ASSUME NEW p, NEW T \in Seq(Slots(p)), NEW s, NEW f \in DOMAIN Code[p], NEW W,
         Mapped(T, s, Len(T), f, W), NEW V, NEW X, Fills(X, V)
  PROVE  Mapped(Grown(T, X, s, f), s, Len(T) + Len(V), f, W \o V)
  <1> DEFINE U == Grown(T, X, s, f)
             Y == W \o V
  <1>1. s \in Nat /\ W \in Seq(MapWords) /\ s + Len(W) = Len(T)
    BY DEF Mapped
  <1>2. \A j \in 1 .. Len(W) : Matches(T[s + j], W[j], s, f)
    BY DEF Mapped
  <1>a. X \in Seq(MapWords) /\ V \in Seq(MapWords) /\ Len(X) = Len(V)
    BY DEF Fills
  <1>3. Len(W) \in Nat /\ Len(T) \in Nat /\ Len(V) \in Nat
    BY <1>1, <1>a
  <1>4. Y \in Seq(MapWords) /\ Len(Y) = Len(W) + Len(V)
    BY <1>1, <1>a, GrownIs
  <1>5. /\ \A i \in 1 .. Len(W) : Y[i] = W[i]
        /\ \A i \in 1 .. Len(V) : Y[Len(W) + i] = V[i]
    BY <1>1, <1>a, GrownIs
  <1>6. GrownBy(p, T, U, X, s, f)
    BY <1>1, <1>a, SlotsGrown
  <1>7. Len(U) = Len(T) + Len(V) /\ SameTo(T, U, Len(T))
    BY <1>6, <1>a DEF GrownBy
  <1>8. \A j \in 1 .. Len(V) : U[Len(T) + j] = [is |-> X[j].is, v |-> X[j].v, s |-> s, f |-> f]
    BY <1>6, <1>a DEF GrownBy
  <1> HIDE DEF U, Y
  <1>9. ASSUME NEW j \in 1 .. Len(Y) PROVE Matches(U[s + j], Y[j], s, f)
    <2>1. CASE j <= Len(W)
      <3>1. j \in 1 .. Len(W) /\ s + j \in 1 .. Len(T)
        BY <1>1, <1>3, <2>1
      <3>2. U[s + j] = T[s + j] /\ Y[j] = W[j] /\ Matches(T[s + j], W[j], s, f)
        BY <1>2, <1>5, <1>7, <3>1 DEF SameTo
      <3> QED BY <3>2
    <2>2. CASE j > Len(W)
      <3> DEFINE k == j - Len(W)
      <3>1. k \in 1 .. Len(V) /\ Len(W) + k = j /\ s + j = Len(T) + k
        BY SMTT(30), <1>1, <1>3, <1>4, <2>2
      <3> HIDE DEF k
      <3>2. U[s + j] = [is |-> X[k].is, v |-> X[k].v, s |-> s, f |-> f] /\ Y[j] = V[k]
        BY <1>5, <1>8, <3>1
      <3>3. \/ X[k] = V[k]
            \/ V[k] = Word("chain", Either) /\ X[k].is = "chain" /\ X[k].v \in {Linked, Unlinked}
        BY <3>1 DEF Fills
      <3> QED BY <3>2, <3>3 DEF Matches, Word
    <2> QED BY <1>3, <1>4, <2>1, <2>2
  <1>10. Len(T) + Len(V) \in Nat /\ s + Len(Y) = Len(T) + Len(V) /\ Len(T) + Len(V) <= Len(U)
    BY <1>1, <1>3, <1>4, <1>7
  <1>11. Mapped(U, s, Len(T) + Len(V), f, Y)
    BY <1>1, <1>4, <1>9, <1>10 DEF Mapped
  <1> QED BY <1>11 DEF U, Y

(* A frame begins with a return address and then its head.                 *)
LEMMA FramedIs ==
  ASSUME NEW W \in Seq(MapWords), Framed(W)
  PROVE  /\ Len(W) \in Nat /\ Len(W) >= 2 /\ W[1].is = "ip" /\ W[2].is = "code"
         /\ Len(W) = 2 \/ (Len(W) >= 4 /\ W[3].is = "dp" /\ W[4].is = "fp")
  <1>1. CASE W = ReturnAddress
    BY <1>1 DEF ReturnAddress, Plain, Word
  <1>2. CASE Len(W) >= 4 /\ SubSeq(W, 1, 4) = FrameHead
    <2>1. Len(W) \in Nat /\ 4 \in 0 .. Len(W)
      BY <1>2
    <2>2. \A i \in 1 .. 4 : SubSeq(W, 1, 4)[i] = W[i]
      BY <2>1, CutIs
    <2>3. W[1] = FrameHead[1] /\ W[2] = FrameHead[2] /\ W[3] = FrameHead[3] /\ W[4] = FrameHead[4]
      BY <1>2, <2>2
    <2> QED BY <1>2, <2>1, <2>3 DEF FrameHead, Plain, Word
  <1> QED BY <1>1, <1>2 DEF Framed

(* The machine is about to execute an instruction of a program that fits.  *)
Ready(p, x, T, s) ==
    /\ p \in DOMAIN Code /\ FitsMachine(p)
    /\ s \in Nat /\ Balanced(p, x, T) /\ Runs(p, x, T, s)

(* What is known of a machine about to execute an instruction.             *)
LEMMA ReadyIs ==
  ASSUME NEW p, NEW x, NEW T, NEW s, Ready(p, x, T, s)
  PROVE  LET f == x.code
             W == Map(p, f, x.ip)
         IN /\ x \in Machines(p) /\ T \in Seq(Slots(p)) /\ s \in Nat /\ Len(T) \in Nat
            /\ x.stack \in Seq(StackWords(p)) /\ Len(x.stack) = Len(T) /\ Sp(x) = Len(T)
            /\ x.status = "running" /\ f # NoCode
            /\ f \in DOMAIN Code[p] /\ x.ip \in DOMAIN Shape[p][f] /\ x.ip \in DOMAIN Code[p][f]
            /\ x.ip \in Nat /\ Code[p][f][x.ip].n \in Nat
            /\ W \in Seq(MapWords) /\ Len(W) \in Nat /\ s + Len(W) = Len(T)
            /\ Mapped(T, s, Len(T), f, W)
            /\ \A j \in 1 .. Len(W) : Matches(T[s + j], W[j], s, f) /\ s + j \in 1 .. Len(T)
            /\ Fits(p, f, x.ip) /\ Framed(W)
            /\ Len(W) >= 4 => x.fp = s + 4
            /\ LinkX(T, Len(T), x.xp) /\ LinkY(T, Len(T), x.yp)
            /\ Caught(p, f, x.ip) => x.exception \in Thrown
  <1> DEFINE f == x.code
             W == Map(p, f, x.ip)
  <1>1. Balanced(p, x, T) /\ Runs(p, x, T, s) /\ FitsMachine(p) /\ s \in Nat /\ p \in DOMAIN Code
    BY DEF Ready
  <1>2. x \in Machines(p) /\ T \in Seq(Slots(p)) /\ LinkY(T, Len(T), x.yp)
    BY <1>1 DEF Balanced
  <1>3. x.stack \in Seq(StackWords(p)) /\ Len(x.stack) = Len(T) /\ Len(T) \in Nat /\ Sp(x) = Len(T)
    BY <1>1, <1>2, BalancedIs DEF Machines
  <1>4. AtPlace(p, T, s, Len(T), f, x.ip)
    BY <1>1 DEF Runs
  <1>5. f \in DOMAIN Code[p] /\ x.ip \in DOMAIN Shape[p][f] /\ Mapped(T, s, Len(T), f, W)
    BY <1>4 DEF AtPlace
  <1>6. /\ NoCode \notin DOMAIN Code[p]
        /\ x.ip \in DOMAIN Code[p][f] /\ x.ip \in Nat /\ Code[p][f][x.ip].n \in Nat
        /\ Fits(p, f, x.ip) /\ Framed(W)
    BY <1>1, <1>5 DEF FitsMachine, Map
  <1>7. /\ W \in Seq(MapWords) /\ s + Len(W) = Len(T)
        /\ \A j \in 1 .. Len(W) : Matches(T[s + j], W[j], s, f)
    BY <1>5 DEF Mapped
  <1>8. Len(W) \in Nat
    BY <1>7
  <1>9. /\ x.status = "running" /\ LinkX(T, Len(T), x.xp)
        /\ Caught(p, f, x.ip) => x.exception \in Thrown
        /\ Len(T) - s >= 4 => x.fp = s + 4
    BY <1>1 DEF Runs
  <1>10. \A j \in 1 .. Len(W) : s + j \in 1 .. Len(T)
    BY <1>1, <1>3, <1>7, <1>8
  <1>11. Len(T) - s = Len(W)
    BY <1>1, <1>3, <1>7, <1>8
  <1> HIDE DEF f, W
  <1>12. f # NoCode
    BY <1>5, <1>6
  <1>13. /\ x \in Machines(p) /\ T \in Seq(Slots(p)) /\ s \in Nat /\ Len(T) \in Nat
         /\ x.stack \in Seq(StackWords(p)) /\ Len(x.stack) = Len(T) /\ Sp(x) = Len(T)
         /\ x.status = "running" /\ f # NoCode
         /\ f \in DOMAIN Code[p] /\ x.ip \in DOMAIN Shape[p][f] /\ x.ip \in DOMAIN Code[p][f]
         /\ x.ip \in Nat /\ Code[p][f][x.ip].n \in Nat
         /\ W \in Seq(MapWords) /\ Len(W) \in Nat /\ s + Len(W) = Len(T)
         /\ Mapped(T, s, Len(T), f, W)
         /\ \A j \in 1 .. Len(W) : Matches(T[s + j], W[j], s, f) /\ s + j \in 1 .. Len(T)
         /\ Fits(p, f, x.ip) /\ Framed(W)
         /\ Len(W) >= 4 => x.fp = s + 4
         /\ LinkX(T, Len(T), x.xp) /\ LinkY(T, Len(T), x.yp)
         /\ Caught(p, f, x.ip) => x.exception \in Thrown
    BY <1>1, <1>2, <1>3, <1>5, <1>6, <1>7, <1>8, <1>9, <1>10, <1>11, <1>12
  <1> QED BY <1>13 DEF f, W

(* Execution goes on in the same frame.                                    *)
LEMMA RunsOn ==
  ASSUME NEW p, NEW f, NEW q, NEW V, NEW c, Goes(p, f, q, V, c), f \in DOMAIN Code[p],
         NEW s, NEW y, NEW U, y.status = "running", y.code = f, y.ip = q,
         Mapped(U, s, Len(U), f, V), Len(V) >= 4, y.fp = s + 4, LinkX(U, Len(U), y.xp),
         c => y.exception \in Thrown
  PROVE  Runs(p, y, U, s)
  <1>1. q \in DOMAIN Shape[p][f] /\ Map(p, f, q) = V /\ (Caught(p, f, q) => c)
    BY DEF Goes, Map, Caught
  <1>2. AtPlace(p, U, s, Len(U), f, q)
    BY <1>1 DEF AtPlace
  <1>3. Len(U) - s >= 4
    <2>1. s \in Nat /\ V \in Seq(MapWords) /\ s + Len(V) = Len(U)
      BY DEF Mapped
    <2>2. Len(V) \in Nat
      BY <2>1
    <2> QED BY <2>1, <2>2
  <1> QED BY <1>1, <1>2, <1>3 DEF Runs

(* Words that are added leave no descriptor behind.                        *)
LEMMA PassedAbove ==
  ASSUME NEW x, NEW T, NEW U, Len(T) \in Nat, Len(U) \in Nat, SameTo(T, U, Len(T))
  PROVE  Passed(x, T, U)
  <1>1. ASSUME NEW d \in Nat, IsTry(T, d) PROVE IsTry(U, d)
    <2>1. d + 5 \in 1 .. Len(T) /\ T[d + 5].is = "xp"
      BY <1>1 DEF IsTry
    <2> QED BY <2>1 DEF IsTry, SameTo
  <1> QED BY <1>1 DEF Passed

-----------------------------------------------------------------------------
(* Pushing words.                                                          *)

(* y is the machine x but for ip, stack, fp, xp, yp and live.              *)
Continues(p, x, y) ==
    /\ y \in Machines(p) /\ y.status = "running" /\ y.code = x.code /\ y.ip = x.ip + 1
    /\ y.exception = x.exception

(* The machine after the fetch, register by register.                      *)
LEMMA FetchIs ==
  ASSUME NEW p, NEW x \in Machines(p), x.status = "running", x.ip \in Nat, NEW y, y = [x EXCEPT !.ip = @ + 1]
  PROVE  /\ Continues(p, x, y) /\ y.ip \in Nat
         /\ y.stack = x.stack /\ y.fp = x.fp /\ y.xp = x.xp /\ y.yp = x.yp /\ y.live = x.live
         /\ y.ret = x.ret
  BY DEF Machines, Continues

(* The machine after Push, register by register.                           *)
LEMMA PushIs ==
  ASSUME NEW p, NEW x \in Machines(p), NEW words \in Seq(StackWords(p))
  PROVE  /\ Push(x, words) \in Machines(p) /\ Push(x, words).stack = x.stack \o words
         /\ Push(x, words).code = x.code /\ Push(x, words).ip = x.ip
         /\ Push(x, words).fp = x.fp /\ Push(x, words).xp = x.xp
         /\ Push(x, words).ret = x.ret /\ Push(x, words).exception = x.exception
         /\ Push(x, words).status = x.status /\ Push(x, words).yp = x.yp
         /\ Push(x, words).live = x.live
  <1> DEFINE st == x.stack \o words
  <1>1. x.stack \in Seq(StackWords(p))
    BY DEF Machines
  <1>2. st \in Seq(StackWords(p))
    BY <1>1, GrownIs
  <1>3. Push(x, words) = [x EXCEPT !.stack = st]
    BY DEF Push, Machines
  <1> HIDE DEF st
  <1>4. /\ Push(x, words) \in Machines(p) /\ Push(x, words).stack = st
        /\ Push(x, words).code = x.code /\ Push(x, words).ip = x.ip
        /\ Push(x, words).fp = x.fp /\ Push(x, words).xp = x.xp
        /\ Push(x, words).ret = x.ret /\ Push(x, words).exception = x.exception
        /\ Push(x, words).status = x.status /\ Push(x, words).yp = x.yp
        /\ Push(x, words).live = x.live
    BY <1>2, <1>3 DEF Machines
  <1> QED BY <1>4 DEF st

(* The words are pushed, the slots X beside them, the map says V of them.  *)
Pushes(p, x, T, s, y, words, X, V, c) ==
    /\ Ready(p, x, T, s) /\ Continues(p, x, y) /\ Fills(X, V)
    /\ words \in Seq(StackWords(p)) /\ Len(words) = Len(V) /\ y.stack = x.stack \o words
    /\ Goes(p, x.code, x.ip + 1, Map(p, x.code, x.ip) \o V, c) /\ (c => y.exception \in Thrown)
    /\ y.fp = s + 4 /\ Len(Map(p, x.code, x.ip)) + Len(V) >= 4

(* What is known of stack and slots then.                                  *)
Pushed(p, x, T, s, y, words, X, U) ==
    /\ Len(T) \in Nat /\ Len(words) \in Nat /\ s \in Nat /\ s < Len(T)
    /\ Len(U) = Len(T) + Len(words) /\ Len(X) = Len(words) /\ SameTo(T, U, Len(T))
    /\ \A i \in 1 .. Len(T) : y.stack[i] = x.stack[i] /\ U[i] = T[i]
    /\ \A j \in 1 .. Len(words) :
        /\ y.stack[Len(T) + j] = words[j]
        /\ U[Len(T) + j] = [is |-> X[j].is, v |-> X[j].v, s |-> s, f |-> x.code]

(* After words were pushed, all is well below them.                        *)
LEMMA PushedIs ==
  ASSUME NEW p, NEW x, NEW T, NEW s, NEW y, NEW words, NEW X, NEW V, NEW c,
         Pushes(p, x, T, s, y, words, X, V, c)
  PROVE  Pushed(p, x, T, s, y, words, X, Grown(T, X, s, x.code))
  <1> DEFINE U == Grown(T, X, s, x.code)
             f == x.code
  <1>1. Ready(p, x, T, s) /\ words \in Seq(StackWords(p)) /\ y.stack = x.stack \o words
        /\ X \in Seq(MapWords) /\ Len(X) = Len(words)
    BY DEF Pushes, Fills
  <1>2. /\ T \in Seq(Slots(p)) /\ s \in Nat /\ Len(T) \in Nat /\ f \in DOMAIN Code[p]
        /\ x.stack \in Seq(StackWords(p)) /\ Len(x.stack) = Len(T)
    BY <1>1, ReadyIs
  <1>3. s < Len(T)
    <2>1. /\ Map(p, f, x.ip) \in Seq(MapWords) /\ Len(Map(p, f, x.ip)) \in Nat
          /\ s + Len(Map(p, f, x.ip)) = Len(T) /\ Framed(Map(p, f, x.ip))
      BY <1>1, ReadyIs
    <2>2. Len(Map(p, f, x.ip)) >= 2
      BY <2>1, FramedIs
    <2> QED BY <1>2, <2>1, <2>2
  <1>4. GrownBy(p, T, U, X, s, f)
    BY <1>1, <1>2, SlotsGrown
  <1>5. /\ Len(y.stack) = Len(T) + Len(words)
        /\ \A i \in 1 .. Len(T) : y.stack[i] = x.stack[i]
        /\ \A j \in 1 .. Len(words) : y.stack[Len(T) + j] = words[j]
    <2>1. /\ Len(x.stack \o words) = Len(x.stack) + Len(words)
          /\ \A i \in 1 .. Len(x.stack) : (x.stack \o words)[i] = x.stack[i]
          /\ \A j \in 1 .. Len(words) : (x.stack \o words)[Len(x.stack) + j] = words[j]
      <3>1. x.stack \in Seq(StackWords(p)) /\ words \in Seq(StackWords(p))
        BY <1>1, <1>2
      <3> QED BY <3>1, GrownIs
    <2>2. Len(x.stack) = Len(T) /\ y.stack = x.stack \o words
      BY <1>1, <1>2
    <2> QED BY <2>1, <2>2, Zenon
  <1>6. Len(words) \in Nat
    BY <1>1
  <1> HIDE DEF U, f
  <1>7. Pushed(p, x, T, s, y, words, X, U)
    BY <1>1, <1>2, <1>3, <1>4, <1>5, <1>6 DEF Pushed, GrownBy, SameTo, f
  <1> QED BY <1>7 DEF U

(* After words were pushed that are well, all is well.                     *)
LEMMA PushSteps ==
  ASSUME NEW p, NEW x, NEW T, NEW s, NEW y, NEW words, NEW X, NEW V, NEW c,
         Pushes(p, x, T, s, y, words, X, V, c), NEW U, U = Grown(T, X, s, x.code),
         \A i \in Len(T) + 1 .. Len(T) + Len(words) : SlotOK(p, y.stack, U, i),
         LinkX(U, Len(U), y.xp), LinkY(U, Len(U), y.yp), y.live = Alive(y.stack, Len(U))
  PROVE  Steps(p, x, T, y)
  <1>1. /\ Ready(p, x, T, s) /\ Continues(p, x, y) /\ Fills(X, V)
        /\ words \in Seq(StackWords(p)) /\ Len(words) = Len(V) /\ y.stack = x.stack \o words
        /\ Goes(p, x.code, x.ip + 1, Map(p, x.code, x.ip) \o V, c) /\ (c => y.exception \in Thrown)
        /\ y.fp = s + 4 /\ Len(Map(p, x.code, x.ip)) + Len(V) >= 4
    BY DEF Pushes
  <1>2. /\ T \in Seq(Slots(p)) /\ s \in Nat /\ Len(T) \in Nat /\ x.code \in DOMAIN Code[p]
        /\ x.stack \in Seq(StackWords(p)) /\ Len(x.stack) = Len(T)
        /\ Mapped(T, s, Len(T), x.code, Map(p, x.code, x.ip)) /\ Balanced(p, x, T)
        /\ Map(p, x.code, x.ip) \in Seq(MapWords) /\ Len(Map(p, x.code, x.ip)) \in Nat
    BY <1>1, ReadyIs DEF Ready
  <1>3. Pushed(p, x, T, s, y, words, X, U)
    BY PushedIs
  <1>4. GrownBy(p, T, U, X, s, x.code)
    BY <1>1, <1>2, SlotsGrown DEF Fills
  <1>5. Balanced(p, y, U)
    <2>1. U \in Seq(Slots(p)) /\ SameTo(T, U, Len(T)) /\ Len(U) = Len(T) + Len(words)
      BY <1>3, <1>4 DEF GrownBy, Pushed
    <2>2. Len(y.stack) = Len(U)
      BY <1>1, <1>2, <2>1, GrownIs
    <2>3. KeptTo(x.stack, y.stack, T, Len(T))
      BY <1>3 DEF KeptTo, Pushed
    <2>4. y \in Machines(p)
      BY <1>1 DEF Continues
    <2> QED BY <1>2, <2>1, <2>2, <2>3, <2>4, Rebalanced
  <1>6. Runs(p, y, U, s)
    <2>1. Mapped(U, s, Len(T) + Len(V), x.code, Map(p, x.code, x.ip) \o V)
      BY <1>1, <1>2, MappedGrown
    <2>2. Len(U) = Len(T) + Len(V)
      BY <1>1, <1>3 DEF Pushed
    <2>3. Len(Map(p, x.code, x.ip) \o V) >= 4
      <3>1. V \in Seq(MapWords)
        BY <1>1 DEF Fills
      <3>2. Len(Map(p, x.code, x.ip) \o V) = Len(Map(p, x.code, x.ip)) + Len(V)
        BY <1>2, <3>1, GrownIs
      <3> QED BY <1>1, <3>2
    <2>4. y.status = "running" /\ y.code = x.code /\ y.ip = x.ip + 1
      BY <1>1 DEF Continues
    <2> QED BY <1>1, <1>2, <2>1, <2>2, <2>3, <2>4, RunsOn
  <1>7. Passed(x, T, U)
    <2>1. Len(U) \in Nat /\ SameTo(T, U, Len(T))
      BY <1>3 DEF Pushed
    <2> QED BY <1>2, <2>1, PassedAbove
  <1> QED BY <1>2, <1>5, <1>6, <1>7 DEF Steps, Good

(* Where an instruction may free words, the frame has its head.            *)
LEMMA SettledIs ==
  ASSUME NEW p, NEW x, NEW T, NEW s, Ready(p, x, T, s), Settled(Map(p, x.code, x.ip))
  PROVE  /\ Len(Map(p, x.code, x.ip)) >= 4 /\ x.fp = s + 4
         /\ Len(T) >= 4 /\ T[Len(T)].is # "object" /\ Settles(T)
  <1> DEFINE W == Map(p, x.code, x.ip)
  <1>1. /\ W \in Seq(MapWords) /\ Len(W) \in Nat /\ s + Len(W) = Len(T) /\ s \in Nat /\ Len(T) \in Nat
        /\ \A j \in 1 .. Len(W) : Matches(T[s + j], W[j], s, x.code) /\ s + j \in 1 .. Len(T)
        /\ Len(W) >= 4 => x.fp = s + 4
    BY ReadyIs
  <1>2. Len(W) >= 4 /\ W[Len(W)].is # "object"
    BY DEF Settled
  <1> HIDE DEF W
  <1>3. Len(W) \in 1 .. Len(W)
    BY <1>1, <1>2
  <1>4. T[s + Len(W)].is = W[Len(W)].is
    BY <1>1, <1>3 DEF Matches
  <1>6. s + Len(W) = Len(T)
    BY <1>1
  <1>7. T[Len(T)].is # "object"
    BY <1>2, <1>4, <1>6
  <1>8. Len(W) \in Nat /\ s \in Nat /\ Len(T) \in Nat
    BY <1>1
  <1>5. T[Len(T)].is # "object" /\ Len(T) >= 4
    BY <1>2, <1>6, <1>7, <1>8
  <1> QED BY <1>1, <1>2, <1>5 DEF Settles, W

(* A word that is no link, no address and no chain word is well.           *)
LEMMA PlainSlot ==
  ASSUME NEW p, NEW st, NEW U, NEW i \in Nat, i > 1, U[i].s \in Nat, U[i].s < i,
         st[i].is = U[i].is, U[i - 1].is # "object",
         \/ U[i].is \in {"number", "dp", "value", "type"}
         \/ U[i].is \in {"handler", "finally"} /\ st[i].v \in {U[i].v, NoHandler}
         \/ U[i].is = "thrown" /\ (U[i].v = Held => st[i].v \in Thrown)
         \/ U[i].is = "object" /\ st[i].v \in {0, 1}
         \/ U[i].is = "fp" /\ (i = U[i].s + 4 => st[i].v = CallerFp(U, U[i].s))
         \/ U[i].is = "ip" /\ st[i].v \in Int
         \/ U[i].is = "code" /\ i # U[i].s + 2 /\ U[i - 1].is # "ip"
  PROVE  SlotOK(p, st, U, i)
  BY DEF SlotOK

(* Append adds a word.                                                     *)
LEMMA AppendIs ==
  ASSUME NEW S, NEW W \in Seq(S), NEW v \in S
  PROVE  Append(W, v) = W \o <<v>>
  <1>1. Append(W, v) \in Seq(S) /\ W \o <<v>> \in Seq(S)
    OBVIOUS
  <1>2. Len(Append(W, v)) = Len(W \o <<v>>)
    OBVIOUS
  <1>3. \A i \in 1 .. Len(W) + 1 : Append(W, v)[i] = (W \o <<v>>)[i]
    OBVIOUS
  <1> QED BY <1>1, <1>2, <1>3

OneWord(words, w) == words = <<w>>

(* One word is pushed that is neither an object nor a link.                *)
PushesOne(p, x, T, s, y, words, w, v, c) ==
    /\ Ready(p, x, T, s) /\ Settled(Map(p, x.code, x.ip)) /\ Continues(p, x, y)
    /\ w \in StackWords(p) /\ v \in MapWords /\ OneWord(words, w) /\ y.stack = x.stack \o words
    /\ y.fp = x.fp /\ y.xp = x.xp /\ y.yp = x.yp /\ y.live = x.live
    /\ Goes(p, x.code, x.ip + 1, Append(Map(p, x.code, x.ip), v), c) /\ (c => y.exception \in Thrown)
    /\ w.is = v.is
    /\ \/ v.is = "number"
       \/ v.is \in {"handler", "finally"} /\ w.v = v.v
       \/ v.is = "thrown" /\ (v.v = Held => w.v \in Thrown)

(* One word is pushed.                                                     *)
LEMMA PushOneSteps ==
  ASSUME NEW p, NEW x, NEW T, NEW s, NEW y, NEW words, NEW w, NEW v, NEW c,
         PushesOne(p, x, T, s, y, words, w, v, c)
  PROVE  Steps(p, x, T, y)
  <1> DEFINE X == <<v>>
             U == Grown(T, X, s, x.code)
             n == Len(T)
  <1>1. /\ Ready(p, x, T, s) /\ Settled(Map(p, x.code, x.ip)) /\ Continues(p, x, y)
        /\ w \in StackWords(p) /\ v \in MapWords /\ OneWord(words, w) /\ y.stack = x.stack \o words
        /\ y.fp = x.fp /\ y.xp = x.xp /\ y.yp = x.yp /\ y.live = x.live
        /\ Goes(p, x.code, x.ip + 1, Append(Map(p, x.code, x.ip), v), c) /\ (c => y.exception \in Thrown)
        /\ w.is = v.is
        /\ \/ v.is = "number"
           \/ v.is \in {"handler", "finally"} /\ w.v = v.v
           \/ v.is = "thrown" /\ (v.v = Held => w.v \in Thrown)
    BY DEF PushesOne
  <1>2. /\ Len(Map(p, x.code, x.ip)) >= 4 /\ x.fp = s + 4
        /\ n >= 4 /\ T[n].is # "object"
    BY <1>1, SettledIs
  <1>3. /\ Map(p, x.code, x.ip) \in Seq(MapWords) /\ Len(Map(p, x.code, x.ip)) \in Nat
        /\ n \in Nat /\ LinkX(T, n, x.xp) /\ LinkY(T, n, x.yp) /\ Balanced(p, x, T)
    BY <1>1, ReadyIs DEF Ready
  <1>4. Fills(X, X)
    BY <1>1 DEF Fills
  <1>5. words \in Seq(StackWords(p)) /\ Len(words) = 1 /\ words[1] = w /\ Len(X) = 1 /\ X[1] = v
    BY <1>1 DEF OneWord
  <1>6. Append(Map(p, x.code, x.ip), v) = Map(p, x.code, x.ip) \o X
    BY <1>1, <1>3, AppendIs
  <1> HIDE DEF X, U, n
  <1>7. Len(Map(p, x.code, x.ip)) + Len(X) >= 4
    BY <1>2, <1>3, <1>5
  <1>8. Pushes(p, x, T, s, y, words, X, X, c)
    BY <1>1, <1>2, <1>4, <1>5, <1>6, <1>7 DEF Pushes
  <1>9. Pushed(p, x, T, s, y, words, X, U)
    BY <1>8, PushedIs DEF U
  <1>10. /\ Len(U) = n + 1 /\ s < n /\ s \in Nat /\ SameTo(T, U, n)
         /\ \A i \in 1 .. n : y.stack[i] = x.stack[i] /\ U[i] = T[i]
         /\ y.stack[n + 1] = w /\ U[n + 1] = [is |-> v.is, v |-> v.v, s |-> s, f |-> x.code]
    BY <1>5, <1>9 DEF Pushed, n
  <1>11. SlotOK(p, y.stack, U, n + 1)
    <2> DEFINE i == n + 1
    <2>1. i - 1 = n /\ i > 1 /\ i \in Nat /\ n \in 1 .. n /\ s < i
      BY <1>2, <1>3, <1>10
    <2>2. U[i].is = v.is /\ U[i].v = v.v /\ U[i].s = s /\ y.stack[i] = w /\ U[n] = T[n] /\ s \in Nat
      BY <1>10, <2>1
    <2> HIDE DEF i
    <2>3. /\ U[i].s \in Nat /\ U[i].s < i /\ y.stack[i].is = U[i].is /\ U[i - 1].is # "object"
          /\ \/ U[i].is = "number"
             \/ U[i].is \in {"handler", "finally"} /\ y.stack[i].v = U[i].v
             \/ U[i].is = "thrown" /\ (U[i].v = Held => y.stack[i].v \in Thrown)
      BY <1>1, <1>2, <2>1, <2>2
    <2>4. SlotOK(p, y.stack, U, i)
      BY <2>1, <2>3, PlainSlot
    <2> QED BY <2>4 DEF i
  <1>12. \A i \in n + 1 .. n + Len(words) : SlotOK(p, y.stack, U, i)
    BY <1>3, <1>5, <1>11
  <1>13. U[n + 1].is # "xp" /\ ~IsLinked(U[n + 1]) /\ y.stack[n + 1].is # "object"
    <2>1. w.is = v.is /\ v.is \in {"number", "handler", "finally", "thrown"}
      BY <1>1
    <2>2. U[n + 1].is = v.is /\ y.stack[n + 1] = w
      BY <1>10
    <2> QED BY <2>1, <2>2 DEF IsLinked
  <1>14. LinkX(U, n, x.xp) /\ LinkY(U, n, x.yp)
    <2>1. n \in Nat /\ LinkX(T, n, x.xp) /\ LinkY(T, n, x.yp) /\ SameTo(T, U, n) /\ n <= n
      BY <1>3, <1>10
    <2> QED BY <2>1, LinkKept
  <1>15. LinkX(U, Len(U), y.xp) /\ LinkY(U, Len(U), y.yp)
    <2>1. \A j \in n + 1 .. n + 1 : U[j].is # "xp" /\ ~IsLinked(U[j])
      BY <1>3, <1>13
    <2>2. n + 1 \in Nat /\ n \in 0 .. n + 1
      BY <1>3
    <2> QED BY <1>1, <1>10, <1>14, <2>1, <2>2, LinkDown
  <1>16. y.live = Alive(y.stack, Len(U))
    <2>1. Alive(y.stack, n + 1) = Alive(y.stack, n)
      <3>1. n \in Nat /\ y.stack[n + 1].is # "object"
        BY <1>3, <1>13
      <3>2. Alive(y.stack, n) \in Nat
        BY <3>1, AliveFinite
      <3> QED BY <3>1, <3>2, AliveNext
    <2>2. Alive(y.stack, n) = Alive(x.stack, n)
      <3>1. n \in Nat /\ \A i \in 1 .. n : y.stack[i] = x.stack[i]
        BY <1>3, <1>10
      <3> QED BY <3>1, AliveSame
    <2>3. x.live = Alive(x.stack, n)
      BY <1>3 DEF Balanced, n
    <2> QED BY <1>1, <1>10, <2>1, <2>2, <2>3
  <1> QED BY <1>8, <1>12, <1>15, <1>16, PushSteps DEF U, n

(* The machine after the fetch.                                            *)
Advance(x) == [x EXCEPT !.ip = @ + 1]

(* The machine after a fetch and Push, register by register.               *)
LEMMA FetchPushIs ==
  ASSUME NEW p, NEW x, NEW T, NEW s, Ready(p, x, T, s), NEW words, words \in Seq(StackWords(p)),
         NEW y, y = Push(Advance(x), words)
  PROVE  /\ Continues(p, x, y) /\ y.stack = x.stack \o words
         /\ y.fp = x.fp /\ y.xp = x.xp /\ y.yp = x.yp /\ y.live = x.live /\ y.ret = x.ret
  <1>1. x \in Machines(p) /\ x.status = "running" /\ x.ip \in Nat
    BY ReadyIs
  <1>2. PICK z : z = Advance(x)
    OBVIOUS
  <1>3. /\ Continues(p, x, z) /\ z.stack = x.stack /\ z.fp = x.fp /\ z.xp = x.xp /\ z.yp = x.yp
        /\ z.live = x.live /\ z.ret = x.ret
    BY <1>1, <1>2, FetchIs DEF Advance
  <1>4. z \in Machines(p) /\ y = Push(z, words)
    BY <1>2, <1>3 DEF Continues
  <1>5. PICK v : v = Push(z, words)
    OBVIOUS
  <1>6. /\ v \in Machines(p) /\ v.stack = z.stack \o words /\ v.code = z.code /\ v.ip = z.ip
        /\ v.fp = z.fp /\ v.xp = z.xp /\ v.ret = z.ret /\ v.exception = z.exception
        /\ v.status = z.status /\ v.yp = z.yp /\ v.live = z.live
    BY <1>4, <1>5, PushIs
  <1>7. y = v
    BY <1>4, <1>5
  <1> QED BY <1>3, <1>6, <1>7 DEF Continues

(* A word of the stack, a word of a map.                                   *)
LEMMA WordTyped ==
  ASSUME NEW p, NEW is \in Kinds, NEW v
  PROVE  /\ v \in Values(p) => Word(is, v) \in StackWords(p)
         /\ v \in Int => Word(is, v) \in StackWords(p) /\ Word(is, v) \in MapWords
  BY DEF Word, StackWords, MapWords, Values

(* What a map says of a word that has just been appended.                  *)
LEMMA AppendedTyped ==
  ASSUME NEW p, NEW T, NEW s, NEW x, Ready(p, x, T, s), NEW f \in DOMAIN Code[p], NEW q, NEW W, NEW v, NEW c,
         W \in Seq(MapWords), Goes(p, f, q, Append(W, v), c)
  PROVE  v \in MapWords
  <1>1. Append(W, v) \in Seq(MapWords)
    BY DEF Goes, Ready, FitsMachine
  <1>2. Len(W) \in Nat
    OBVIOUS
  <1>3. Append(W, v)[Len(W) + 1] = v /\ Len(Append(W, v)) = Len(W) + 1
    OBVIOUS
  <1>4. Len(W) + 1 \in 1 .. Len(Append(W, v))
    BY <1>2, <1>3
  <1> QED BY <1>1, <1>3, <1>4

(* The instruction that x is about to execute.                             *)
Instr(p, x) == Code[p][x.code][x.ip]

(* The instruction about to be executed fits.                              *)
LEMMA InstrFits ==
  ASSUME NEW p, NEW x, NEW T, NEW s, Ready(p, x, T, s)
  PROVE  Fits(p, x.code, x.ip) /\ Instr(p, x) = Code[p][x.code][x.ip]
  BY ReadyIs DEF Instr

(* An instruction that does nothing else.                                  *)
PlacesOne(p, x, T, s, w, v, c) ==
    /\ Ready(p, x, T, s) /\ Settled(Map(p, x.code, x.ip))
    /\ Goes(p, x.code, x.ip + 1, Append(Map(p, x.code, x.ip), v), c) /\ (c => x.exception \in Thrown)
    /\ w \in StackWords(p) /\ w.is = v.is
    /\ \/ v.is = "number"
       \/ v.is \in {"handler", "finally"} /\ w.v = v.v
       \/ v.is = "thrown" /\ (v.v = Held => w.v \in Thrown)

(* An instruction that pushes one plain word.                              *)
LEMMA PlaceOneSteps ==
  ASSUME NEW p, NEW x, NEW T, NEW s, NEW w, NEW v, NEW c, PlacesOne(p, x, T, s, w, v, c),
         NEW words, OneWord(words, w), NEW y, y = Push(Advance(x), words)
  PROVE  Steps(p, x, T, y)
  <1>1. Ready(p, x, T, s) /\ Goes(p, x.code, x.ip + 1, Append(Map(p, x.code, x.ip), v), c)
        /\ w \in StackWords(p) /\ (c => x.exception \in Thrown)
    BY DEF PlacesOne
  <1>2. Map(p, x.code, x.ip) \in Seq(MapWords) /\ x.code \in DOMAIN Code[p]
    BY <1>1, ReadyIs
  <1>3. v \in MapWords
    BY <1>1, <1>2, AppendedTyped
  <1>4. words \in Seq(StackWords(p))
    BY <1>1 DEF OneWord
  <1>5. /\ Continues(p, x, y) /\ y.stack = x.stack \o words
        /\ y.fp = x.fp /\ y.xp = x.xp /\ y.yp = x.yp /\ y.live = x.live
    BY <1>1, <1>4, FetchPushIs
  <1>6. c => y.exception \in Thrown
    BY <1>1, <1>5 DEF Continues
  <1>7. PushesOne(p, x, T, s, y, words, w, v, c)
    BY <1>3, <1>5, <1>6 DEF PushesOne, PlacesOne
  <1> QED BY <1>7, PushOneSteps

(* instruction_LoadImm of a handler.                                       *)
LEMMA LoadHandlerSteps ==
  ASSUME NEW p, NEW x, NEW T, NEW s, Ready(p, x, T, s), Instr(p, x).op \in {"LoadHandler", "LoadFinally"},
         NEW w, w = Word(IF Instr(p, x).op = "LoadHandler" THEN "handler" ELSE "finally", Instr(p, x).to),
         NEW words, OneWord(words, w), NEW y, y = Push(Advance(x), words)
  PROVE  Steps(p, x, T, y)
  <1> DEFINE W == Map(p, x.code, x.ip)
  <1>1. Fits(p, x.code, x.ip) /\ W = Shape[p][x.code][x.ip].words
    BY InstrFits DEF Map
  <1>2. Settled(W) /\ Goes(p, x.code, x.ip + 1, Append(W, w), FALSE)
    BY <1>1 DEF Fits, Instr
  <1>3. W \in Seq(MapWords) /\ x.code \in DOMAIN Code[p]
    BY ReadyIs
  <1> HIDE DEF W
  <1>4. w \in MapWords
    BY <1>2, <1>3, AppendedTyped
  <1>5. w \in StackWords(p) /\ w.is \in {"handler", "finally"}
    BY <1>4 DEF MapWords, StackWords, Values, Word
  <1>6. PlacesOne(p, x, T, s, w, w, FALSE)
    BY <1>2, <1>5 DEF PlacesOne, W
  <1> QED BY <1>6, PlaceOneSteps

(* The object of a throw statement is pushed.                              *)
LEMMA LoadThrownSteps ==
  ASSUME NEW p, NEW x, NEW T, NEW s, Ready(p, x, T, s), Instr(p, x).op = "LoadThrown",
         NEW kind \in Thrown, NEW w, w = Word("thrown", kind), NEW words, OneWord(words, w),
         NEW y, y = Push(Advance(x), words)
  PROVE  Steps(p, x, T, y)
  <1>1. Fits(p, x.code, x.ip) /\ Map(p, x.code, x.ip) = Shape[p][x.code][x.ip].words
    BY InstrFits DEF Map
  <1>2. /\ Settled(Map(p, x.code, x.ip))
        /\ Goes(p, x.code, x.ip + 1, Append(Map(p, x.code, x.ip), Exception), FALSE)
    BY <1>1 DEF Fits, Instr
  <1>3. w \in StackWords(p) /\ w.is = "thrown" /\ w.v = kind
    <2>1. kind \in Values(p)
      BY DEF Values
    <2>2. w \in StackWords(p)
      <3>1. "thrown" \in Kinds
        BY DEF Kinds
      <3> QED BY <2>1, <3>1, WordTyped
    <2>3. w.is = "thrown" /\ w.v = kind
      BY DEF Word
    <2> QED BY <2>2, <2>3
  <1>4. Exception.is = "thrown"
    BY DEF Exception, Word
  <1>5. PlacesOne(p, x, T, s, w, Exception, FALSE)
    BY <1>2, <1>3, <1>4 DEF PlacesOne
  <1> QED BY <1>5, PlaceOneSteps

(* instruction_LoadException                                               *)
LEMMA LoadExceptionSteps ==
  ASSUME NEW p, NEW x, NEW T, NEW s, Ready(p, x, T, s), Instr(p, x).op = "LoadException",
         NEW w, w = Word("thrown", x.exception), NEW words, OneWord(words, w),
         NEW y, y = Push(Advance(x), words)
  PROVE  Steps(p, x, T, y)
  <1>1. Fits(p, x.code, x.ip) /\ Map(p, x.code, x.ip) = Shape[p][x.code][x.ip].words
        /\ Caught(p, x.code, x.ip) = Shape[p][x.code][x.ip].caught
    BY InstrFits DEF Map, Caught
  <1>2. /\ Settled(Map(p, x.code, x.ip)) /\ Caught(p, x.code, x.ip)
        /\ Goes(p, x.code, x.ip + 1, Append(Map(p, x.code, x.ip), Exception), TRUE)
    BY <1>1 DEF Fits, Instr
  <1>a. x.exception \in Thrown
    BY <1>2, ReadyIs
  <1>3. w \in StackWords(p) /\ w.is = "thrown" /\ w.v = x.exception
    <2>1. x.exception \in Values(p)
      BY <1>a DEF Values
    <2>2. w \in StackWords(p)
      <3>1. "thrown" \in Kinds
        BY DEF Kinds
      <3> QED BY <2>1, <3>1, WordTyped
    <2>3. w.is = "thrown" /\ w.v = x.exception
      BY DEF Word
    <2> QED BY <2>2, <2>3
  <1>4. Exception.is = "thrown"
    BY DEF Exception, Word
  <1>5. PlacesOne(p, x, T, s, w, Exception, TRUE)
    BY <1>2, <1>3, <1>4, <1>a DEF PlacesOne
  <1> QED BY <1>5, PlaceOneSteps

(* The value of a switch is pushed.                                        *)
LEMMA LoadValueSteps ==
  ASSUME NEW p, NEW x, NEW T, NEW s, Ready(p, x, T, s), Instr(p, x).op = "LoadValue",
         NEW v \in CaseValues, NEW w, w = Word("number", v), NEW words, OneWord(words, w),
         NEW y, y = Push(Advance(x), words)
  PROVE  Steps(p, x, T, y)
  <1>1. Fits(p, x.code, x.ip) /\ Map(p, x.code, x.ip) = Shape[p][x.code][x.ip].words
    BY InstrFits DEF Map
  <1>2. /\ Settled(Map(p, x.code, x.ip))
        /\ Goes(p, x.code, x.ip + 1, Append(Map(p, x.code, x.ip), Plain("number")), FALSE)
    BY <1>1 DEF Fits, Instr
  <1>3. w \in StackWords(p) /\ w.is = "number"
    <2>1. v \in Values(p)
      BY DEF Values
    <2>2. w \in StackWords(p)
      <3>1. "number" \in Kinds
        BY DEF Kinds
      <3> QED BY <2>1, <3>1, WordTyped
    <2>3. w.is = "number" /\ w.v = v
      BY DEF Word
    <2> QED BY <2>2, <2>3
  <1>4. Plain("number").is = "number"
    BY DEF Plain, Word
  <1>5. PlacesOne(p, x, T, s, w, Plain("number"), FALSE)
    BY <1>2, <1>3, <1>4 DEF PlacesOne
  <1> QED BY <1>5, PlaceOneSteps

(* An object and its chain word are pushed; l says whether the object is   *)
(* on the release chain then.                                              *)
TwoWords(words, a, b) == words = <<a, b>>

PushesPair(p, x, T, s, y, words, r, v, l, k) ==
    /\ Ready(p, x, T, s) /\ Settled(Map(p, x.code, x.ip)) /\ Continues(p, x, y)
    /\ r \in {0, 1} /\ v \in Int /\ l \in {Linked, Unlinked} /\ k \in {l, Either}
    /\ TwoWords(words, Word("object", r), Word("chain", v)) /\ y.stack = x.stack \o words
    /\ y.fp = x.fp /\ y.xp = x.xp /\ y.live = x.live + r
    /\ Goes(p, x.code, x.ip + 1, Map(p, x.code, x.ip) \o Pair(k), FALSE)
    /\ \/ l = Linked /\ v = x.yp /\ y.yp = Len(T)
       \/ l = Unlinked /\ r = 0 /\ y.yp = x.yp

(* The two words of an object and its chain.                               *)
LEMMA PairIs ==
  ASSUME NEW l \in Int
  PROVE  /\ Pair(l) \in Seq(MapWords) /\ Len(Pair(l)) = 2
         /\ Pair(l)[1].is = "object" /\ Pair(l)[2] = Word("chain", l)
  <1>1. Plain("object") \in MapWords /\ Word("chain", l) \in MapWords /\ Plain("object").is = "object"
    BY DEF Plain, Word, MapWords, Kinds
  <1>2. Pair(l) = <<Plain("object"), Word("chain", l)>>
    BY DEF Pair
  <1> QED BY <1>1, <1>2

(* An object may be on the chain where the map leaves it open.             *)
LEMMA PairFills ==
  ASSUME NEW l \in {Linked, Unlinked}, NEW k \in {l, Either}
  PROVE  Fills(Pair(l), Pair(k))
  <1>1. l \in Int /\ k \in Int
    BY DEF Linked, Unlinked, Either
  <1>2. /\ Pair(l) \in Seq(MapWords) /\ Len(Pair(l)) = 2 /\ Pair(l)[2] = Word("chain", l)
        /\ Pair(k) \in Seq(MapWords) /\ Len(Pair(k)) = 2 /\ Pair(k)[2] = Word("chain", k)
    BY <1>1, PairIs
  <1>3. Pair(l)[1] = Pair(k)[1]
    BY DEF Pair
  <1>4. Word("chain", l).is = "chain" /\ Word("chain", l).v = l
    BY DEF Word
  <1>5. k = l \/ k = Either
    OBVIOUS
  <1> QED BY <1>2, <1>3, <1>4, <1>5 DEF Fills

(* An object and its chain word are pushed.                                *)
LEMMA PushPairSteps ==
  ASSUME NEW p, NEW x, NEW T, NEW s, NEW y, NEW words, NEW r, NEW v, NEW l, NEW k,
         PushesPair(p, x, T, s, y, words, r, v, l, k)
  PROVE  Steps(p, x, T, y)
  <1> DEFINE X == Pair(l)
             U == Grown(T, X, s, x.code)
             n == Len(T)
  <1>1. /\ Ready(p, x, T, s) /\ Settled(Map(p, x.code, x.ip)) /\ Continues(p, x, y)
        /\ r \in {0, 1} /\ v \in Int /\ l \in {Linked, Unlinked} /\ k \in {l, Either}
        /\ TwoWords(words, Word("object", r), Word("chain", v)) /\ y.stack = x.stack \o words
        /\ y.fp = x.fp /\ y.xp = x.xp /\ y.live = x.live + r
        /\ Goes(p, x.code, x.ip + 1, Map(p, x.code, x.ip) \o Pair(k), FALSE)
    BY DEF PushesPair
  <1>a. \/ l = Linked /\ v = x.yp /\ y.yp = n
        \/ l = Unlinked /\ r = 0 /\ y.yp = x.yp
    BY DEF PushesPair
  <1>2. /\ Len(Map(p, x.code, x.ip)) >= 4 /\ x.fp = s + 4
        /\ n >= 4 /\ T[n].is # "object"
    BY <1>1, SettledIs
  <1>3. /\ Map(p, x.code, x.ip) \in Seq(MapWords) /\ Len(Map(p, x.code, x.ip)) \in Nat
        /\ n \in Nat /\ LinkX(T, n, x.xp) /\ LinkY(T, n, x.yp) /\ Balanced(p, x, T)
    BY <1>1, ReadyIs DEF Ready
  <1>4. Fills(X, Pair(k))
    BY <1>1, PairFills
  <1>b. l \in Int /\ k \in Int
    BY <1>1 DEF Linked, Unlinked, Either
  <1>5. /\ Word("object", r) \in StackWords(p) /\ Word("chain", v) \in StackWords(p)
    <2>1. "object" \in Kinds /\ "chain" \in Kinds /\ r \in Int
      BY <1>1 DEF Kinds
    <2> QED BY <1>1, <2>1, WordTyped
  <1>6. /\ words \in Seq(StackWords(p)) /\ Len(words) = 2
        /\ words[1] = Word("object", r) /\ words[2] = Word("chain", v)
    BY <1>1, <1>5 DEF TwoWords
  <1>7. Len(X) = 2 /\ X[1].is = "object" /\ X[2] = Word("chain", l) /\ Len(Pair(k)) = 2
    BY <1>b, PairIs
  <1> HIDE DEF X, U, n
  <1>8. Len(Map(p, x.code, x.ip)) + Len(Pair(k)) >= 4
    BY <1>2, <1>3, <1>7
  <1>9. Pushes(p, x, T, s, y, words, X, Pair(k), FALSE)
    BY <1>1, <1>2, <1>4, <1>6, <1>7, <1>8 DEF Pushes
  <1>10. Pushed(p, x, T, s, y, words, X, U)
    BY <1>9, PushedIs DEF U
  <1>11. /\ Len(U) = n + 2 /\ s < n /\ s \in Nat /\ SameTo(T, U, n)
         /\ \A i \in 1 .. n : y.stack[i] = x.stack[i] /\ U[i] = T[i]
    BY <1>6, <1>10 DEF Pushed, n
  <1>12. \A j \in 1 .. 2 :
            /\ y.stack[n + j] = words[j]
            /\ U[n + j] = [is |-> X[j].is, v |-> X[j].v, s |-> s, f |-> x.code]
    BY <1>6, <1>10 DEF Pushed, n
  <1>13. /\ y.stack[n + 1].is = "object" /\ y.stack[n + 1].v = r
         /\ U[n + 1].is = "object" /\ U[n + 1].s = s
    BY <1>6, <1>7, <1>12 DEF Word
  <1>14. /\ y.stack[n + 2].is = "chain" /\ y.stack[n + 2].v = v
         /\ U[n + 2].is = "chain" /\ U[n + 2].v = l /\ U[n + 2].s = s
    BY <1>6, <1>7, <1>12 DEF Word
  <1>15. LinkX(U, n, x.xp) /\ LinkY(U, n, x.yp)
    <2>1. n \in Nat /\ LinkX(T, n, x.xp) /\ LinkY(T, n, x.yp) /\ SameTo(T, U, n) /\ n <= n
      BY <1>3, <1>11
    <2> QED BY <2>1, LinkKept
  <1>16. LinkY(U, n + 1, x.yp)
    <2>1. n + 1 \in Nat /\ n \in 0 .. n + 1 /\ \A j \in n + 1 .. n + 1 : ~IsLinked(U[j])
      BY <1>3, <1>13 DEF IsLinked
    <2> QED BY <1>15, <2>1, LinkDown
  <1>17. SlotOK(p, y.stack, U, n + 1)
    <2> DEFINE i == n + 1
    <2>1. i - 1 = n /\ i > 1 /\ i \in Nat /\ n \in 1 .. n /\ s < i
      BY <1>2, <1>3, <1>11
    <2>2. /\ U[i].is = "object" /\ U[i].s = s /\ y.stack[i].is = "object" /\ y.stack[i].v \in {0, 1}
          /\ U[n] = T[n] /\ s \in Nat
      BY <1>1, <1>11, <1>13, <2>1
    <2> HIDE DEF i
    <2>3. SlotOK(p, y.stack, U, i)
      BY <1>2, <2>1, <2>2, PlainSlot
    <2> QED BY <2>3 DEF i
  <1>18. SlotOK(p, y.stack, U, n + 2)
    <2> DEFINE i == n + 2
    <2>1. i - 1 = n + 1 /\ i > 1 /\ i \in Nat /\ s < i
      BY <1>2, <1>3, <1>11
    <2>2. /\ U[i].is = "chain" /\ U[i].s = s /\ y.stack[i].is = "chain" /\ y.stack[i].v = v
          /\ U[i - 1].is = "object" /\ y.stack[i - 1].v = r /\ U[i].v = l
      BY <1>13, <1>14, <2>1
    <2>3. LinkY(U, i - 1, x.yp)
      BY <1>16, <2>1
    <2> HIDE DEF i
    <2>4. ChainOK(y.stack, U, i)
      BY <1>a, <2>1, <2>2, <2>3 DEF ChainOK
    <2>5. SlotOK(p, y.stack, U, i)
      BY <2>1, <2>2, <2>4 DEF SlotOK
    <2> QED BY <2>5 DEF i
  <1>19. \A i \in n + 1 .. n + Len(words) : SlotOK(p, y.stack, U, i)
    BY <1>3, <1>6, <1>17, <1>18
  <1>20. LinkX(U, Len(U), y.xp)
    <2>1. \A j \in n + 1 .. n + 2 : U[j].is # "xp"
      BY <1>3, <1>13, <1>14
    <2>2. n + 2 \in Nat /\ n \in 0 .. n + 2
      BY <1>3
    <2> QED BY <1>1, <1>11, <1>15, <2>1, <2>2, LinkDown
  <1>21. LinkY(U, Len(U), y.yp)
    <2>1. CASE l = Linked
      <3>1. IsLinked(U[n + 2]) /\ y.yp = n /\ n \in Nat
        BY <1>3, <1>14, <1>a, <2>1 DEF IsLinked, Linked, Unlinked
      <3>2. Len(U) = n + 2 /\ \A j \in n + 3 .. n + 2 : FALSE
        BY <1>3, <1>11
      <3> QED BY <3>1, <3>2 DEF LinkY
    <2>2. CASE l = Unlinked
      <3>1. \A j \in n + 1 .. n + 2 : ~IsLinked(U[j])
        BY <1>3, <1>13, <1>14, <2>2 DEF IsLinked, Linked, Unlinked
      <3>2. n + 2 \in Nat /\ n \in 0 .. n + 2 /\ y.yp = x.yp /\ Len(U) = n + 2
        BY <1>3, <1>11, <1>a, <2>2 DEF Linked, Unlinked
      <3> QED BY <1>15, <3>1, <3>2, LinkDown
    <2> QED BY <1>1, <2>1, <2>2
  <1>22. y.live = Alive(y.stack, Len(U))
    <2>1. Alive(y.stack, n + 1) = Alive(y.stack, n) + r
      BY <1>1, <1>3, <1>13, AliveNext, AliveFinite
    <2>2. Alive(y.stack, n) = Alive(x.stack, n)
      BY <1>3, <1>11, AliveSame
    <2>3. x.live = Alive(x.stack, n)
      BY <1>3 DEF Balanced, n
    <2>4. Alive(y.stack, (n + 1) + 1) = Alive(y.stack, n + 1)
      <3>1. n + 1 \in Nat /\ y.stack[(n + 1) + 1].is # "object"
        BY <1>3, <1>14
      <3>2. Alive(y.stack, n + 1) \in Nat
        BY <3>1, AliveFinite
      <3> QED BY <3>1, <3>2, AliveNext
    <2>5. Len(U) = (n + 1) + 1
      BY <1>3, <1>11
    <2> QED BY <1>1, <2>1, <2>2, <2>3, <2>4, <2>5
  <1> QED BY <1>9, <1>19, <1>20, <1>21, <1>22, PushSteps DEF U, n

(* The words the map says a local variable has are on the stack.           *)
LEMMA LocalHolds ==
  ASSUME NEW p, NEW x, NEW T, NEW s, Ready(p, x, T, s), NEW n \in Nat, NEW kinds \in Seq(Kinds),
         Local(Map(p, x.code, x.ip), n, kinds)
  PROVE  /\ Holds(x, x.fp + n, kinds) /\ x.fp = s + 4
         /\ \A j \in 1 .. Len(kinds) : /\ x.fp + n + j \in 1 .. Len(T)
                                       /\ T[x.fp + n + j].is = kinds[j]
                                       /\ x.stack[x.fp + n + j].is = kinds[j]
  <1> DEFINE W == Map(p, x.code, x.ip)
  <1>1. /\ W \in Seq(MapWords) /\ Len(W) \in Nat /\ s + Len(W) = Len(T) /\ s \in Nat /\ Len(T) \in Nat
        /\ \A j \in 1 .. Len(W) : Matches(T[s + j], W[j], s, x.code) /\ s + j \in 1 .. Len(T)
        /\ Len(W) >= 4 => x.fp = s + 4
        /\ Sp(x) = Len(T)
    BY ReadyIs
  <1>2. /\ n + 4 + Len(kinds) <= Len(W) /\ DOMAIN kinds = 1 .. Len(kinds) /\ Len(kinds) \in Nat
        /\ \A k \in 1 .. Len(kinds) : W[n + 4 + k].is = kinds[k]
    BY DEF Local
  <1> HIDE DEF W
  <1>3. x.fp = s + 4
    BY <1>1, <1>2
  <1>4. ASSUME NEW j \in 1 .. Len(kinds)
        PROVE  /\ x.fp + n + j \in 1 .. Len(T) /\ T[x.fp + n + j].is = kinds[j]
               /\ x.stack[x.fp + n + j].is = kinds[j]
    <2>1. n + 4 + j \in 1 .. Len(W) /\ s + (n + 4 + j) = x.fp + n + j
      BY <1>1, <1>2, <1>3
    <2>2. T[s + (n + 4 + j)].is = W[n + 4 + j].is /\ s + (n + 4 + j) \in 1 .. Len(T)
      BY <1>1, <2>1 DEF Matches
    <2>3. x.stack[s + (n + 4 + j)].is = T[s + (n + 4 + j)].is
      BY <2>2, BalancedIs DEF Ready
    <2>4. W[n + 4 + j].is = kinds[j]
      BY <1>2
    <2> QED BY <2>1, <2>2, <2>3, <2>4
  <1>5. Holds(x, x.fp + n, kinds)
    <2>1. x.fp + n >= 0 /\ x.fp + n + Len(kinds) <= Sp(x)
      BY <1>1, <1>2, <1>3
    <2>2. \A i \in DOMAIN kinds : At(x, x.fp + n + i - 1).is = kinds[i]
      <3> TAKE i \in DOMAIN kinds
      <3>1. i \in 1 .. Len(kinds) /\ x.fp + n + i - 1 + 1 = x.fp + n + i
        BY <1>1, <1>2, <1>3
      <3> QED BY <1>4, <3>1 DEF At
    <2> QED BY <2>1, <2>2 DEF Holds
  <1> QED BY <1>3, <1>4, <1>5

(* The top of the release chain and the number of objects are set.         *)
Owning(z, yp, r) == [z EXCEPT !.yp = yp, !.live = @ + r]

(* The machine after an object was put on the chain.                       *)
LEMMA OwningIs ==
  ASSUME NEW p, NEW z \in Machines(p), NEW yp \in Int, NEW r \in Int
  PROVE  /\ Owning(z, yp, r) \in Machines(p)
         /\ Owning(z, yp, r).code = z.code /\ Owning(z, yp, r).ip = z.ip
         /\ Owning(z, yp, r).fp = z.fp /\ Owning(z, yp, r).xp = z.xp
         /\ Owning(z, yp, r).stack = z.stack /\ Owning(z, yp, r).ret = z.ret
         /\ Owning(z, yp, r).exception = z.exception /\ Owning(z, yp, r).status = z.status
         /\ Owning(z, yp, r).yp = yp /\ Owning(z, yp, r).live = z.live + r
  <1> DEFINE l == z.live + r
  <1>1. l \in Int
    BY DEF Machines
  <1>2. Owning(z, yp, r) = [z EXCEPT !.yp = yp, !.live = l]
    BY DEF Owning
  <1> HIDE DEF l
  <1>3. /\ Owning(z, yp, r) \in Machines(p)
        /\ Owning(z, yp, r).code = z.code /\ Owning(z, yp, r).ip = z.ip
        /\ Owning(z, yp, r).fp = z.fp /\ Owning(z, yp, r).xp = z.xp
        /\ Owning(z, yp, r).stack = z.stack /\ Owning(z, yp, r).ret = z.ret
        /\ Owning(z, yp, r).exception = z.exception /\ Owning(z, yp, r).status = z.status
        /\ Owning(z, yp, r).yp = yp /\ Owning(z, yp, r).live = l
    BY <1>1, <1>2 DEF Machines
  <1> QED BY <1>3 DEF l

(* An instruction pushes a pair, and the object may go on the chain.       *)
LEMMA PlacePairSteps ==
  ASSUME NEW p, NEW x, NEW T, NEW s, Ready(p, x, T, s), Settled(Map(p, x.code, x.ip)),
         NEW r \in {0, 1}, NEW v \in Int, NEW words, TwoWords(words, Word("object", r), Word("chain", v)),
         NEW l \in {Linked, Unlinked}, NEW k \in {l, Either},
         Goes(p, x.code, x.ip + 1, Map(p, x.code, x.ip) \o Pair(k), FALSE),
         NEW z, z = Push(Advance(x), words), NEW y,
         \/ l = Linked /\ v = x.yp /\ y = Owning(z, Len(T), r)
         \/ l = Unlinked /\ r = 0 /\ y = z
  PROVE  Steps(p, x, T, y)
  <1>1. words \in Seq(StackWords(p))
    <2>1. "object" \in Kinds /\ "chain" \in Kinds /\ r \in Int
      BY DEF Kinds
    <2>2. Word("object", r) \in StackWords(p) /\ Word("chain", v) \in StackWords(p)
      BY <2>1, WordTyped
    <2> QED BY <2>2 DEF TwoWords
  <1>2. /\ Continues(p, x, z) /\ z.stack = x.stack \o words /\ z.fp = x.fp /\ z.xp = x.xp
        /\ z.yp = x.yp /\ z.live = x.live
    BY <1>1, FetchPushIs
  <1>3. x \in Machines(p) /\ Len(T) \in Nat
    BY ReadyIs
  <1>4. x.live \in Int
    BY <1>3 DEF Machines
  <1>5. CASE l = Linked /\ v = x.yp /\ y = Owning(z, Len(T), r)
    <2>1. z \in Machines(p) /\ r \in Int /\ Len(T) \in Int
      BY <1>2, <1>3 DEF Continues
    <2>2. /\ y \in Machines(p) /\ y.code = z.code /\ y.ip = z.ip /\ y.fp = z.fp /\ y.xp = z.xp
          /\ y.stack = z.stack /\ y.exception = z.exception /\ y.status = z.status
          /\ y.yp = Len(T) /\ y.live = z.live + r
      BY <1>5, <2>1, OwningIs
    <2>3. Continues(p, x, y)
      BY <1>2, <2>2 DEF Continues
    <2>4. PushesPair(p, x, T, s, y, words, r, v, l, k)
      BY <1>2, <1>5, <2>2, <2>3 DEF PushesPair
    <2> QED BY <2>4, PushPairSteps
  <1>6. CASE l = Unlinked /\ r = 0 /\ y = z
    <2>1. x.live = x.live + r
      BY <1>4, <1>6
    <2>2. PushesPair(p, x, T, s, y, words, r, v, l, k)
      BY <1>2, <1>6, <2>1 DEF PushesPair
    <2> QED BY <2>2, PushPairSteps
  <1> QED BY <1>5, <1>6

(* instruction_NewObject                                                   *)
LEMMA NewObjectSteps ==
  ASSUME NEW p, NEW x, NEW T, NEW s, Ready(p, x, T, s), Instr(p, x).op = "NewObject",
         NEW r \in {0, 1}, NEW words, TwoWords(words, Word("object", r), Word("chain", x.yp)),
         NEW y, y = Owning(Push(Advance(x), words), Sp(x), r)
  PROVE  Steps(p, x, T, y)
  <1>1. Fits(p, x.code, x.ip) /\ Map(p, x.code, x.ip) = Shape[p][x.code][x.ip].words
    BY InstrFits DEF Map
  <1>2. /\ Settled(Map(p, x.code, x.ip))
        /\ Goes(p, x.code, x.ip + 1, Map(p, x.code, x.ip) \o Pair(Linked), FALSE)
    BY <1>1 DEF Fits, Instr
  <1>3. x \in Machines(p) /\ Sp(x) = Len(T)
    BY ReadyIs
  <1>4. x.yp \in Int
    BY <1>3 DEF Machines
  <1>5. PICK z : z = Push(Advance(x), words)
    OBVIOUS
  <1>6. y = Owning(z, Len(T), r)
    BY <1>3, <1>5
  <1>7. Linked \in {Linked, Unlinked} /\ Linked \in {Linked, Either}
    OBVIOUS
  <1> QED BY <1>2, <1>4, <1>5, <1>6, <1>7, PlacePairSteps

(* instruction_AllocStack: a local variable, null.                         *)
LEMMA AllocStackSteps ==
  ASSUME NEW p, NEW x, NEW T, NEW s, Ready(p, x, T, s), Instr(p, x).op = "AllocStack",
         NEW words, IF Instr(p, x).n = 1 THEN OneWord(words, Word("number", 0))
                    ELSE TwoWords(words, Word("object", 0), Word("chain", 0)),
         NEW y, y = Push(Advance(x), words)
  PROVE  Steps(p, x, T, y)
  <1>1. Fits(p, x.code, x.ip) /\ Map(p, x.code, x.ip) = Shape[p][x.code][x.ip].words
    BY InstrFits DEF Map
  <1>2. /\ Settled(Map(p, x.code, x.ip))
        /\ Goes(p, x.code, x.ip + 1,
                Map(p, x.code, x.ip) \o IF Instr(p, x).n = 1 THEN <<Plain("number")>> ELSE Pair(Unlinked),
                FALSE)
    BY <1>1 DEF Fits, Instr
  <1>3. CASE Instr(p, x).n = 1
    <2>1. Plain("number") = Word("number", 0) /\ Plain("number").is = "number"
      BY DEF Plain, Word
    <2>2. Map(p, x.code, x.ip) \in Seq(MapWords)
      BY ReadyIs
    <2>3. Plain("number") \in StackWords(p) /\ Plain("number") \in MapWords
      <3>1. "number" \in Kinds /\ 0 \in Int
        BY DEF Kinds
      <3> QED BY <2>1, <3>1, WordTyped
    <2>4. Append(Map(p, x.code, x.ip), Plain("number")) = Map(p, x.code, x.ip) \o <<Plain("number")>>
      BY <2>2, <2>3, AppendIs
    <2>5. Goes(p, x.code, x.ip + 1, Append(Map(p, x.code, x.ip), Plain("number")), FALSE)
      BY <1>2, <1>3, <2>4
    <2>6. PlacesOne(p, x, T, s, Plain("number"), Plain("number"), FALSE)
      BY <1>2, <2>1, <2>3, <2>5 DEF PlacesOne
    <2>7. OneWord(words, Plain("number"))
      BY <1>3, <2>1
    <2> QED BY <2>6, <2>7, PlaceOneSteps
  <1>4. CASE Instr(p, x).n # 1
    <2>1. Goes(p, x.code, x.ip + 1, Map(p, x.code, x.ip) \o Pair(Unlinked), FALSE)
      BY <1>2, <1>4
    <2>2. TwoWords(words, Word("object", 0), Word("chain", 0))
      BY <1>4
    <2>3. Unlinked \in {Linked, Unlinked} /\ Unlinked \in {Unlinked, Either} /\ 0 \in {0, 1} /\ 0 \in Int
      OBVIOUS
    <2> QED BY <1>2, <2>1, <2>2, <2>3, PlacePairSteps
  <1> QED BY <1>3, <1>4

(* instruction_Synchronize: a locker is on the chain, or null.             *)
LEMMA SynchronizeSteps ==
  ASSUME NEW p, NEW x, NEW T, NEW s, Ready(p, x, T, s), Instr(p, x).op = "Synchronize",
         NEW r, r = At(x, x.fp + Instr(p, x).n).v, NEW words,
         IF r = 0 THEN TwoWords(words, Word("object", 0), Word("chain", 0))
         ELSE TwoWords(words, Word("object", 1), Word("chain", x.yp)),
         NEW y, y = IF r = 0 THEN Push(Advance(x), words) ELSE Owning(Push(Advance(x), words), Sp(x), 1)
  PROVE  Holds(x, x.fp + Instr(p, x).n, <<"object">>) /\ Steps(p, x, T, y)
  <1>1. Fits(p, x.code, x.ip) /\ Map(p, x.code, x.ip) = Shape[p][x.code][x.ip].words
    BY InstrFits DEF Map
  <1>2. /\ Settled(Map(p, x.code, x.ip)) /\ Local(Map(p, x.code, x.ip), Instr(p, x).n, <<"object">>)
        /\ Goes(p, x.code, x.ip + 1, Map(p, x.code, x.ip) \o Pair(Either), FALSE)
    BY <1>1 DEF Fits, Instr
  <1>3. x \in Machines(p) /\ Sp(x) = Len(T) /\ Instr(p, x).n \in Nat
    BY ReadyIs DEF Instr
  <1>4. x.yp \in Int
    BY <1>3 DEF Machines
  <1>5. Holds(x, x.fp + Instr(p, x).n, <<"object">>)
    <2>1. <<"object">> \in Seq(Kinds)
      BY DEF Kinds
    <2> QED BY <1>2, <1>3, <2>1, LocalHolds
  <1>6. PICK z : z = Push(Advance(x), words)
    OBVIOUS
  <1>7. /\ Linked \in {Linked, Unlinked} /\ Unlinked \in {Linked, Unlinked}
        /\ Either \in {Linked, Either} /\ Either \in {Unlinked, Either}
        /\ 0 \in {0, 1} /\ 1 \in {0, 1} /\ 0 \in Int
    OBVIOUS
  <1>8. CASE r = 0
    <2>1. TwoWords(words, Word("object", 0), Word("chain", 0)) /\ y = z
      BY <1>6, <1>8
    <2> QED BY <1>2, <1>5, <1>6, <1>7, <2>1, PlacePairSteps
  <1>9. CASE r # 0
    <2>1. TwoWords(words, Word("object", 1), Word("chain", x.yp)) /\ y = Owning(z, Len(T), 1)
      BY <1>3, <1>6, <1>9
    <2> QED BY <1>2, <1>4, <1>5, <1>6, <1>7, <2>1, PlacePairSteps
  <1> QED BY <1>8, <1>9

-----------------------------------------------------------------------------
(* The other instructions that push.                                       *)

(* The chain word behind an object that is on top of the stack.            *)
Rechained(z, yp) == [z EXCEPT !.yp = yp]

(* The machine after yp was set.                                           *)
LEMMA RechainedIs ==
  ASSUME NEW p, NEW z \in Machines(p), NEW yp \in Int
  PROVE  /\ Rechained(z, yp) \in Machines(p)
         /\ Rechained(z, yp).code = z.code /\ Rechained(z, yp).ip = z.ip
         /\ Rechained(z, yp).fp = z.fp /\ Rechained(z, yp).xp = z.xp
         /\ Rechained(z, yp).stack = z.stack /\ Rechained(z, yp).ret = z.ret
         /\ Rechained(z, yp).exception = z.exception /\ Rechained(z, yp).status = z.status
         /\ Rechained(z, yp).yp = yp /\ Rechained(z, yp).live = z.live
  BY DEF Rechained, Machines

(* The last word of the map is that of the stack.                          *)
LEMMA TopMapped ==
  ASSUME NEW p, NEW x, NEW T, NEW s, Ready(p, x, T, s), NEW k \in Nat, k < Len(Map(p, x.code, x.ip))
  PROVE  /\ Len(T) - k \in 1 .. Len(T) /\ Len(Map(p, x.code, x.ip)) - k \in 1 .. Len(Map(p, x.code, x.ip))
         /\ Matches(T[Len(T) - k], Map(p, x.code, x.ip)[Len(Map(p, x.code, x.ip)) - k], s, x.code)
         /\ x.stack[Len(T) - k].is = T[Len(T) - k].is
  <1> DEFINE W == Map(p, x.code, x.ip)
             j == Len(W) - k
  <1>1. /\ W \in Seq(MapWords) /\ Len(W) \in Nat /\ s + Len(W) = Len(T) /\ s \in Nat /\ Len(T) \in Nat
        /\ \A i \in 1 .. Len(W) : Matches(T[s + i], W[i], s, x.code) /\ s + i \in 1 .. Len(T)
    BY ReadyIs
  <1>a. k < Len(W)
    OBVIOUS
  <1> HIDE DEF W
  <1>2. j \in 1 .. Len(W) /\ s + j = Len(T) - k
    BY <1>1, <1>a
  <1> HIDE DEF j
  <1>3. Matches(T[s + j], W[j], s, x.code) /\ s + j \in 1 .. Len(T)
    BY <1>1, <1>2
  <1>4. x.stack[s + j].is = T[s + j].is
    BY <1>3, BalancedIs DEF Ready
  <1>5. Matches(T[Len(T) - k], W[j], s, x.code) /\ Len(T) - k \in 1 .. Len(T)
        /\ x.stack[Len(T) - k].is = T[Len(T) - k].is
    BY <1>2, <1>3, <1>4
  <1> QED BY <1>2, <1>5 DEF W, j

(* instruction_PushObjChain                                                *)
LEMMA PushObjChainSteps ==
  ASSUME NEW p, NEW x, NEW T, NEW s, Ready(p, x, T, s), Instr(p, x).op = "PushObjChain",
         NEW words, OneWord(words, Word("chain", x.yp)),
         NEW y, y = Rechained(Push(Advance(x), words), Sp(x) - 1)
  PROVE  Steps(p, x, T, y)
  <1> DEFINE W == Map(p, x.code, x.ip)
             v == Word("chain", Linked)
             X == <<v>>
             U == Grown(T, X, s, x.code)
             n == Len(T)
  <1>1. Fits(p, x.code, x.ip) /\ W = Shape[p][x.code][x.ip].words
    BY InstrFits DEF Map
  <1>2. Len(W) >= 5 /\ W[Len(W)].is = "object" /\ Goes(p, x.code, x.ip + 1, Append(W, v), FALSE)
    BY <1>1 DEF Fits, Instr
  <1>3. /\ x \in Machines(p) /\ Sp(x) = n /\ n \in Nat /\ W \in Seq(MapWords) /\ Len(W) \in Nat
        /\ LinkX(T, n, x.xp) /\ LinkY(T, n, x.yp) /\ Balanced(p, x, T)
        /\ Len(W) >= 4 => x.fp = s + 4
    BY ReadyIs DEF Ready
  <1>4. v \in MapWords /\ Word("chain", x.yp) \in StackWords(p)
    <2>1. "chain" \in Kinds /\ Linked \in Int
      BY DEF Kinds, Linked
    <2>2. x.yp \in Int
      BY <1>3 DEF Machines
    <2> QED BY <2>1, <2>2, WordTyped
  <1>5. words \in Seq(StackWords(p)) /\ Len(words) = 1 /\ words[1] = Word("chain", x.yp)
    BY <1>4 DEF OneWord
  <1>6. Fills(X, X) /\ Len(X) = 1 /\ X[1] = v
    BY <1>4 DEF Fills
  <1>7. Append(W, v) = W \o X
    BY <1>3, <1>4, AppendIs
  <1>8. v.is = "chain" /\ v.v = Linked /\ Word("chain", x.yp).is = "chain" /\ Word("chain", x.yp).v = x.yp
    BY DEF Word
  <1>9. PICK z : z = Push(Advance(x), words)
    OBVIOUS
  <1>10. /\ Continues(p, x, z) /\ z.stack = x.stack \o words /\ z.fp = x.fp /\ z.xp = x.xp
         /\ z.yp = x.yp /\ z.live = x.live
    BY <1>5, <1>9, FetchPushIs
  <1>11. /\ y \in Machines(p) /\ y.code = z.code /\ y.ip = z.ip /\ y.fp = z.fp /\ y.xp = z.xp
         /\ y.stack = z.stack /\ y.exception = z.exception /\ y.status = z.status
         /\ y.yp = n - 1 /\ y.live = z.live
    <2>1. n - 1 \in Int /\ z \in Machines(p) /\ y = Rechained(z, n - 1)
      BY <1>3, <1>9, <1>10 DEF Continues
    <2> QED BY <2>1, RechainedIs
  <1>12. T[n].is = "object" /\ n >= 5 /\ n \in 1 .. n
    <2>1. 0 \in Nat /\ 0 < Len(W) /\ Len(W) - 0 = Len(W) /\ n - 0 = n
      BY <1>2, <1>3
    <2>2. Matches(T[n - 0], W[Len(W) - 0], s, x.code) /\ n - 0 \in 1 .. n
      BY <2>1, TopMapped
    <2>3. Matches(T[n], W[Len(W)], s, x.code)
      BY <2>1, <2>2
    <2>4. s \in Nat /\ s + Len(W) = n
      BY ReadyIs
    <2> QED BY <1>2, <1>3, <2>2, <2>3, <2>4 DEF Matches
  <1> HIDE DEF W, X, U, n, v
  <1>13. Continues(p, x, y)
    BY <1>10, <1>11 DEF Continues
  <1>14. Pushes(p, x, T, s, y, words, X, X, FALSE)
    <2>1. Len(W) + Len(X) >= 4 /\ y.fp = s + 4
      BY <1>2, <1>3, <1>6, <1>10, <1>11
    <2>2. Goes(p, x.code, x.ip + 1, W \o X, FALSE) /\ y.stack = x.stack \o words
      BY <1>2, <1>7, <1>10, <1>11
    <2> QED BY <1>5, <1>6, <1>13, <2>1, <2>2 DEF Pushes, W
  <1>15. Pushed(p, x, T, s, y, words, X, U)
    BY <1>14, PushedIs DEF U
  <1>16. /\ Len(U) = n + 1 /\ s < n /\ s \in Nat /\ SameTo(T, U, n)
         /\ \A i \in 1 .. n : y.stack[i] = x.stack[i] /\ U[i] = T[i]
         /\ y.stack[n + 1] = Word("chain", x.yp)
         /\ U[n + 1] = [is |-> X[1].is, v |-> X[1].v, s |-> s, f |-> x.code]
    BY <1>5, <1>15 DEF Pushed, n
  <1>17. /\ y.stack[n + 1].is = "chain" /\ y.stack[n + 1].v = x.yp
         /\ U[n + 1].is = "chain" /\ U[n + 1].v = Linked /\ U[n + 1].s = s
    BY <1>6, <1>8, <1>16
  <1>18. LinkX(U, n, x.xp) /\ LinkY(U, n, x.yp)
    <2>1. n \in Nat /\ LinkX(T, n, x.xp) /\ LinkY(T, n, x.yp) /\ SameTo(T, U, n) /\ n <= n
      BY <1>3, <1>16
    <2> QED BY <2>1, LinkKept
  <1>19. SlotOK(p, y.stack, U, n + 1)
    <2> DEFINE i == n + 1
    <2>1. i - 1 = n /\ i > 1 /\ s < i
      BY <1>3, <1>12, <1>16
    <2>2. /\ U[i].is = "chain" /\ U[i].s = s /\ y.stack[i].is = "chain" /\ y.stack[i].v = x.yp
          /\ U[i - 1].is = "object" /\ U[i].v = Linked /\ LinkY(U, i - 1, x.yp)
      BY <1>12, <1>16, <1>17, <1>18, <2>1
    <2> HIDE DEF i
    <2>3. ChainOK(y.stack, U, i)
      BY <2>1, <2>2 DEF ChainOK
    <2>4. SlotOK(p, y.stack, U, i)
      BY <2>1, <2>2, <2>3 DEF SlotOK
    <2> QED BY <2>4 DEF i
  <1>20. \A i \in n + 1 .. n + Len(words) : SlotOK(p, y.stack, U, i)
    BY <1>3, <1>5, <1>19
  <1>21. LinkX(U, Len(U), y.xp)
    <2>1. \A j \in n + 1 .. n + 1 : U[j].is # "xp"
      BY <1>3, <1>17
    <2>2. n + 1 \in Nat /\ n \in 0 .. n + 1 /\ y.xp = x.xp
      BY <1>3, <1>10, <1>11
    <2> QED BY <1>16, <1>18, <2>1, <2>2, LinkDown
  <1>22. LinkY(U, Len(U), y.yp)
    <2>1. IsLinked(U[n + 1]) /\ y.yp = n - 1 /\ n - 1 \in Nat /\ (n - 1) + 2 = n + 1 /\ (n - 1) + 3 = n + 2
      BY <1>3, <1>11, <1>12, <1>17 DEF IsLinked
    <2>2. \A j \in n + 2 .. n + 1 : FALSE
      BY <1>3
    <2> QED BY <1>3, <1>16, <2>1, <2>2 DEF LinkY
  <1>23. y.live = Alive(y.stack, Len(U))
    <2>1. Alive(y.stack, n + 1) = Alive(y.stack, n)
      <3>1. n \in Nat /\ y.stack[n + 1].is # "object"
        BY <1>3, <1>17
      <3>2. Alive(y.stack, n) \in Nat
        BY <3>1, AliveFinite
      <3> QED BY <3>1, <3>2, AliveNext
    <2>2. Alive(y.stack, n) = Alive(x.stack, n)
      <3>1. n \in Nat /\ \A i \in 1 .. n : y.stack[i] = x.stack[i]
        BY <1>3, <1>16
      <3> QED BY <3>1, AliveSame
    <2>3. x.live = Alive(x.stack, n)
      BY <1>3 DEF Balanced, n
    <2> QED BY <1>10, <1>11, <1>16, <2>1, <2>2, <2>3
  <1> QED BY <1>14, <1>20, <1>21, <1>22, <1>23, PushSteps DEF U, n

(* fp or xp is set.                                                        *)
WithFp(z, fp) == [z EXCEPT !.fp = fp]
WithXp(z, xp) == [z EXCEPT !.xp = xp]

(* The machine after fp was set.                                           *)
LEMMA WithFpIs ==
  ASSUME NEW p, NEW z \in Machines(p), NEW fp \in Int
  PROVE  /\ WithFp(z, fp) \in Machines(p)
         /\ WithFp(z, fp).code = z.code /\ WithFp(z, fp).ip = z.ip
         /\ WithFp(z, fp).fp = fp /\ WithFp(z, fp).xp = z.xp
         /\ WithFp(z, fp).stack = z.stack /\ WithFp(z, fp).ret = z.ret
         /\ WithFp(z, fp).exception = z.exception /\ WithFp(z, fp).status = z.status
         /\ WithFp(z, fp).yp = z.yp /\ WithFp(z, fp).live = z.live
  BY DEF WithFp, Machines

(* The machine after xp was set.                                           *)
LEMMA WithXpIs ==
  ASSUME NEW p, NEW z \in Machines(p), NEW xp \in Int
  PROVE  /\ WithXp(z, xp) \in Machines(p)
         /\ WithXp(z, xp).code = z.code /\ WithXp(z, xp).ip = z.ip
         /\ WithXp(z, xp).fp = z.fp /\ WithXp(z, xp).xp = xp
         /\ WithXp(z, xp).stack = z.stack /\ WithXp(z, xp).ret = z.ret
         /\ WithXp(z, xp).exception = z.exception /\ WithXp(z, xp).status = z.status
         /\ WithXp(z, xp).yp = z.yp /\ WithXp(z, xp).live = z.live
  BY DEF WithXp, Machines

(* instruction_EnterFunc                                                   *)
LEMMA EnterFuncSteps ==
  ASSUME NEW p, NEW x, NEW T, NEW s, Ready(p, x, T, s), Instr(p, x).op = "EnterFunc",
         NEW words, TwoWords(words, Word("dp", 0), Word("fp", x.fp)),
         NEW z, z = Push(Advance(x), words), NEW y, y = WithFp(z, Sp(x) + 2)
  PROVE  Steps(p, x, T, y)
  <1> DEFINE W == Map(p, x.code, x.ip)
             X == <<Plain("dp"), Plain("fp")>>
             U == Grown(T, X, s, x.code)
             n == Len(T)
  <1>1. Fits(p, x.code, x.ip) /\ W = Shape[p][x.code][x.ip].words
    BY InstrFits DEF Map
  <1>2. W = ReturnAddress /\ Goes(p, x.code, x.ip + 1, FrameHead, FALSE)
    BY <1>1 DEF Fits, Instr
  <1>3. /\ x \in Machines(p) /\ Sp(x) = n /\ n \in Nat /\ W \in Seq(MapWords) /\ Len(W) \in Nat
        /\ LinkX(T, n, x.xp) /\ LinkY(T, n, x.yp) /\ Balanced(p, x, T) /\ s + Len(W) = n /\ s \in Nat
    BY ReadyIs DEF Ready
  <1>a. Len(W) = 2
    BY <1>2 DEF ReturnAddress
  <1>b. n = s + 2 /\ n \in 1 .. n /\ n >= 2
    BY <1>3, <1>a
  <1>c. T[n].is = "code"
    <2>1. Matches(T[n - 0], W[Len(W) - 0], s, x.code) /\ n - 0 = n /\ Len(W) - 0 = 2
      <3>1. 0 \in Nat /\ 0 < Len(W) /\ n - 0 = n /\ Len(W) - 0 = 2
        BY <1>3, <1>a
      <3> QED BY <3>1, TopMapped
    <2>2. W[2].is = "code"
      BY <1>2 DEF ReturnAddress, Plain, Word
    <2> QED BY <2>1, <2>2 DEF Matches
  <1>d. x.fp = CallerFp(T, s)
    <2>1. Runs(p, x, T, s)
      BY DEF Ready
    <2>2. ~(n - s >= 4)
      BY <1>3, <1>b
    <2> QED BY <2>1, <2>2 DEF Runs
  <1>4. x.fp \in Int
    BY <1>3 DEF Machines
  <1>5. Word("dp", 0) \in StackWords(p) /\ Word("fp", x.fp) \in StackWords(p)
        /\ Plain("dp") \in MapWords /\ Plain("fp") \in MapWords
    <2>1. "dp" \in Kinds /\ "fp" \in Kinds
      BY DEF Kinds
    <2> QED BY <1>4, <2>1, WordTyped DEF Plain
  <1>6. /\ words \in Seq(StackWords(p)) /\ Len(words) = 2
        /\ words[1] = Word("dp", 0) /\ words[2] = Word("fp", x.fp)
    BY <1>5 DEF TwoWords
  <1>7. Fills(X, X) /\ Len(X) = 2 /\ X[1] = Plain("dp") /\ X[2] = Plain("fp")
    BY <1>5 DEF Fills
  <1>8. FrameHead = W \o X
    BY <1>2 DEF FrameHead, ReturnAddress
  <1>9. /\ Plain("dp").is = "dp" /\ Plain("fp").is = "fp" /\ Word("dp", 0).is = "dp"
        /\ Word("fp", x.fp).is = "fp" /\ Word("fp", x.fp).v = x.fp
    BY DEF Plain, Word
  <1>10. /\ Continues(p, x, z) /\ z.stack = x.stack \o words /\ z.fp = x.fp /\ z.xp = x.xp
         /\ z.yp = x.yp /\ z.live = x.live
    <2>1. words \in Seq(StackWords(p))
      BY <1>6
    <2> QED BY <2>1, FetchPushIs
  <1>11. /\ y \in Machines(p) /\ y.code = z.code /\ y.ip = z.ip /\ y.fp = s + 4 /\ y.xp = z.xp
         /\ y.stack = z.stack /\ y.exception = z.exception /\ y.status = z.status
         /\ y.yp = z.yp /\ y.live = z.live
    <2>1. s + 4 \in Int /\ z \in Machines(p) /\ Sp(x) + 2 = s + 4
      BY <1>3, <1>b, <1>10 DEF Continues
    <2>2. PICK u : u = WithFp(z, s + 4)
      OBVIOUS
    <2>3. y = u
      BY <2>1, <2>2
    <2>4. /\ u \in Machines(p) /\ u.code = z.code /\ u.ip = z.ip /\ u.fp = s + 4 /\ u.xp = z.xp
          /\ u.stack = z.stack /\ u.exception = z.exception /\ u.status = z.status
          /\ u.yp = z.yp /\ u.live = z.live
      BY <2>1, <2>2, WithFpIs
    <2> QED BY <2>3, <2>4
  <1> HIDE DEF W, X, U, n
  <1>13. Continues(p, x, y)
    BY <1>10, <1>11 DEF Continues
  <1>14. Pushes(p, x, T, s, y, words, X, X, FALSE)
    <2>1. Len(W) + Len(X) >= 4
      BY <1>a, <1>7
    <2>2. Goes(p, x.code, x.ip + 1, W \o X, FALSE) /\ y.stack = x.stack \o words /\ y.fp = s + 4
      BY <1>2, <1>8, <1>10, <1>11
    <2> QED BY <1>6, <1>7, <1>13, <2>1, <2>2 DEF Pushes, W
  <1>15. Pushed(p, x, T, s, y, words, X, U)
    BY <1>14, PushedIs DEF U
  <1>16. /\ Len(U) = n + 2 /\ s < n /\ SameTo(T, U, n)
         /\ \A i \in 1 .. n : y.stack[i] = x.stack[i] /\ U[i] = T[i]
    BY <1>6, <1>15 DEF Pushed, n
  <1>e. \A j \in 1 .. 2 :
            /\ y.stack[n + j] = words[j]
            /\ U[n + j] = [is |-> X[j].is, v |-> X[j].v, s |-> s, f |-> x.code]
    BY <1>6, <1>15 DEF Pushed, n
  <1>17. /\ y.stack[n + 1].is = "dp" /\ U[n + 1].is = "dp" /\ U[n + 1].s = s
         /\ y.stack[n + 2].is = "fp" /\ y.stack[n + 2].v = x.fp
         /\ U[n + 2].is = "fp" /\ U[n + 2].s = s
    BY <1>6, <1>7, <1>9, <1>e
  <1>18. LinkX(U, n, x.xp) /\ LinkY(U, n, x.yp)
    <2>1. n \in Nat /\ LinkX(T, n, x.xp) /\ LinkY(T, n, x.yp) /\ SameTo(T, U, n) /\ n <= n
      BY <1>3, <1>16
    <2> QED BY <2>1, LinkKept
  <1>19. SlotOK(p, y.stack, U, n + 1)
    <2> DEFINE i == n + 1
    <2>1. i - 1 = n /\ i > 1 /\ s < i /\ i \in Nat
      BY <1>3, <1>b, <1>16
    <2>2. U[i].is = "dp" /\ U[i].s = s /\ y.stack[i].is = "dp" /\ U[n].is = "code" /\ s \in Nat
      BY <1>3, <1>16, <1>17, <1>b, <1>c
    <2> HIDE DEF i
    <2>4. SlotOK(p, y.stack, U, i)
      BY <2>1, <2>2, PlainSlot
    <2> QED BY <2>4 DEF i
  <1>f. CallerFp(U, s) = CallerFp(T, s)
    <2>1. CASE s = 0
      BY <2>1 DEF CallerFp
    <2>2. CASE s # 0
      <3>1. s \in 1 .. n
        BY <1>3, <1>b, <2>2
      <3> QED BY <1>16, <3>1 DEF CallerFp
    <2> QED BY <2>1, <2>2
  <1>20. SlotOK(p, y.stack, U, n + 2)
    <2> DEFINE i == n + 2
    <2>1. i - 1 = n + 1 /\ i > 1 /\ s < i /\ i \in Nat
      BY <1>3, <1>b, <1>16
    <2>2. /\ U[i].is = "fp" /\ U[i].s = s /\ y.stack[i].is = "fp" /\ U[i - 1].is = "dp" /\ s \in Nat
          /\ y.stack[i].v = CallerFp(U, U[i].s)
      BY <1>3, <1>17, <1>d, <1>f, <2>1
    <2> HIDE DEF i
    <2>4. SlotOK(p, y.stack, U, i)
      BY <2>1, <2>2, PlainSlot
    <2> QED BY <2>4 DEF i
  <1>21. \A i \in n + 1 .. n + Len(words) : SlotOK(p, y.stack, U, i)
    BY <1>3, <1>6, <1>19, <1>20
  <1>22. LinkX(U, Len(U), y.xp) /\ LinkY(U, Len(U), y.yp)
    <2>1. \A j \in n + 1 .. n + 2 : U[j].is # "xp" /\ ~IsLinked(U[j])
      BY <1>3, <1>17 DEF IsLinked
    <2>2. n + 2 \in Nat /\ n \in 0 .. n + 2 /\ y.xp = x.xp /\ y.yp = x.yp
      BY <1>3, <1>10, <1>11
    <2> QED BY <1>16, <1>18, <2>1, <2>2, LinkDown
  <1>23. y.live = Alive(y.stack, Len(U))
    <2>1. Alive(y.stack, n + 1) = Alive(y.stack, n)
      <3>1. n \in Nat /\ y.stack[n + 1].is # "object"
        BY <1>3, <1>17
      <3>2. Alive(y.stack, n) \in Nat
        BY <3>1, AliveFinite
      <3> QED BY <3>1, <3>2, AliveNext
    <2>2. Alive(y.stack, n) = Alive(x.stack, n)
      <3>1. n \in Nat /\ \A i \in 1 .. n : y.stack[i] = x.stack[i]
        BY <1>3, <1>16
      <3> QED BY <3>1, AliveSame
    <2>3. x.live = Alive(x.stack, n)
      BY <1>3 DEF Balanced, n
    <2>4. Alive(y.stack, (n + 1) + 1) = Alive(y.stack, n + 1)
      <3>1. n + 1 \in Nat /\ y.stack[(n + 1) + 1].is # "object"
        BY <1>3, <1>17
      <3>2. Alive(y.stack, n + 1) \in Nat
        BY <3>1, AliveFinite
      <3> QED BY <3>1, <3>2, AliveNext
    <2>5. Len(U) = (n + 1) + 1
      BY <1>3, <1>16
    <2> QED BY <1>10, <1>11, <2>1, <2>2, <2>3, <2>4, <2>5
  <1> QED BY <1>14, <1>21, <1>22, <1>23, PushSteps DEF U, n

ThreeWords(words, a, b, c) == words = <<a, b, c>>

(* instruction_EnterTry                                                    *)
LEMMA EnterTrySteps ==
  ASSUME NEW p, NEW x, NEW T, NEW s, Ready(p, x, T, s), Instr(p, x).op = "EnterTry",
         NEW words, ThreeWords(words, Word("code", x.code), Word("fp", x.fp), Word("xp", x.xp)),
         NEW z, z = Push(Advance(x), words), NEW y, y = WithXp(z, Sp(x) + 3 - ExceptDescSize)
  PROVE  Steps(p, x, T, y)
  <1> DEFINE W == Map(p, x.code, x.ip)
             X == <<Plain("code"), Plain("fp"), Plain("xp")>>
             U == Grown(T, X, s, x.code)
             n == Len(T)
             f == x.code
             N == Len(W)
  <1>1. Fits(p, x.code, x.ip) /\ W = Shape[p][x.code][x.ip].words
    BY InstrFits DEF Map
  <1>2. /\ N >= 6 /\ W[N - 1].is = "handler" /\ W[N].is = "finally"
        /\ Goes(p, f, x.ip + 1, W \o X, FALSE) /\ Handles(p, f, W \o X, W[N - 1].v, W[N].v)
    BY <1>1 DEF Fits, Instr
  <1>3. /\ x \in Machines(p) /\ Sp(x) = n /\ n \in Nat /\ W \in Seq(MapWords) /\ N \in Nat
        /\ LinkX(T, n, x.xp) /\ LinkY(T, n, x.yp) /\ Balanced(p, x, T) /\ s + N = n /\ s \in Nat
        /\ (N >= 4 => x.fp = s + 4) /\ f \in DOMAIN Code[p] /\ Mapped(T, s, n, f, W)
        /\ T \in Seq(Slots(p))
    BY ReadyIs DEF Ready
  <1>b. n >= s + 6 /\ n \in 1 .. n /\ n - 1 \in 1 .. n /\ n - 0 = n /\ N - 0 = N /\ x.fp = s + 4
    BY <1>2, <1>3
  <1>c. /\ T[n].is = "finally" /\ T[n - 1].is = "handler"
        /\ T[n].v = W[N].v /\ T[n - 1].v = W[N - 1].v
    <2>1. 0 \in Nat /\ 0 < N /\ 1 \in Nat /\ 1 < N
      BY <1>2, <1>3
    <2>2. Matches(T[n - 0], W[N - 0], s, f)
      BY <2>1, TopMapped
    <2>3. Matches(T[n - 1], W[N - 1], s, f)
      BY <2>1, TopMapped
    <2>4. Matches(T[n], W[N], s, f)
      BY <1>b, <2>2
    <2>5. W[N - 1].is = "handler" /\ W[N].is = "finally"
      BY <1>2
    <2> QED BY <2>3, <2>4, <2>5 DEF Matches
  <1>4. x.fp \in Int /\ x.xp \in Int /\ x.code \in Values(p)
    BY <1>3 DEF Machines
  <1>5. /\ Word("code", x.code) \in StackWords(p) /\ Word("fp", x.fp) \in StackWords(p)
        /\ Word("xp", x.xp) \in StackWords(p)
        /\ Plain("code") \in MapWords /\ Plain("fp") \in MapWords /\ Plain("xp") \in MapWords
    <2>1. "code" \in Kinds /\ "fp" \in Kinds /\ "xp" \in Kinds
      BY DEF Kinds
    <2> QED BY <1>4, <2>1, WordTyped DEF Plain
  <1>6. /\ words \in Seq(StackWords(p)) /\ Len(words) = 3
        /\ words[1] = Word("code", x.code) /\ words[2] = Word("fp", x.fp) /\ words[3] = Word("xp", x.xp)
    BY <1>5 DEF ThreeWords
  <1>7. Fills(X, X) /\ Len(X) = 3 /\ X[1] = Plain("code") /\ X[2] = Plain("fp") /\ X[3] = Plain("xp")
        /\ X \in Seq(MapWords)
    BY <1>5 DEF Fills
  <1>9. /\ Plain("code").is = "code" /\ Plain("fp").is = "fp" /\ Plain("xp").is = "xp"
        /\ Word("code", x.code).is = "code" /\ Word("code", x.code).v = x.code
        /\ Word("fp", x.fp).is = "fp" /\ Word("fp", x.fp).v = x.fp
        /\ Word("xp", x.xp).is = "xp" /\ Word("xp", x.xp).v = x.xp
    BY DEF Plain, Word
  <1>10. /\ Continues(p, x, z) /\ z.stack = x.stack \o words /\ z.fp = x.fp /\ z.xp = x.xp
         /\ z.yp = x.yp /\ z.live = x.live
    <2>1. words \in Seq(StackWords(p))
      BY <1>6
    <2> QED BY <2>1, FetchPushIs
  <1>11. /\ y \in Machines(p) /\ y.code = z.code /\ y.ip = z.ip /\ y.fp = z.fp /\ y.xp = n - 2
         /\ y.stack = z.stack /\ y.exception = z.exception /\ y.status = z.status
         /\ y.yp = z.yp /\ y.live = z.live
    <2>1. n - 2 \in Int /\ z \in Machines(p) /\ Sp(x) + 3 - ExceptDescSize = n - 2
      BY <1>3, <1>b, <1>10 DEF Continues, ExceptDescSize, ExceptionDesc
    <2>2. y = WithXp(z, n - 2)
      BY <2>1
    <2> QED BY <2>1, <2>2, WithXpIs
  <1> HIDE DEF W, X, U, n, f, N
  <1>13. Continues(p, x, y)
    BY <1>10, <1>11 DEF Continues
  <1>14. Pushes(p, x, T, s, y, words, X, X, FALSE)
    <2>1. N + Len(X) >= 4
      BY <1>2, <1>3, <1>7
    <2>2. Goes(p, x.code, x.ip + 1, W \o X, FALSE) /\ y.stack = x.stack \o words /\ y.fp = s + 4
      BY <1>2, <1>10, <1>11, <1>b DEF f
    <2> QED BY <1>6, <1>7, <1>13, <2>1, <2>2 DEF Pushes, W, N
  <1>15. Pushed(p, x, T, s, y, words, X, U)
    BY <1>14, PushedIs DEF U
  <1>16. /\ Len(U) = n + 3 /\ s < n /\ SameTo(T, U, n)
         /\ \A i \in 1 .. n : y.stack[i] = x.stack[i] /\ U[i] = T[i]
    BY <1>6, <1>15 DEF Pushed, n
  <1>e. \A j \in 1 .. 3 :
            /\ y.stack[n + j] = words[j]
            /\ U[n + j] = [is |-> X[j].is, v |-> X[j].v, s |-> s, f |-> x.code]
    BY <1>6, <1>15 DEF Pushed, n
  <1>17. /\ y.stack[n + 1].is = "code" /\ y.stack[n + 1].v = f /\ U[n + 1].is = "code" /\ U[n + 1].s = s
         /\ y.stack[n + 2].is = "fp" /\ y.stack[n + 2].v = x.fp
         /\ U[n + 2].is = "fp" /\ U[n + 2].s = s
         /\ y.stack[n + 3].is = "xp" /\ y.stack[n + 3].v = x.xp
         /\ U[n + 3].is = "xp" /\ U[n + 3].s = s /\ U[n + 3].f = f
    BY <1>6, <1>7, <1>9, <1>e DEF f
  <1>18. LinkX(U, n, x.xp) /\ LinkY(U, n, x.yp)
    <2>1. n \in Nat /\ LinkX(T, n, x.xp) /\ LinkY(T, n, x.yp) /\ SameTo(T, U, n) /\ n <= n
      BY <1>3, <1>16
    <2> QED BY <2>1, LinkKept
  <1>19. SlotOK(p, y.stack, U, n + 1)
    <2> DEFINE i == n + 1
    <2>1. i - 1 = n /\ i > 1 /\ s < i /\ i \in Nat /\ i # s + 2
      BY SMTT(30), <1>3, <1>b, <1>16
    <2>2. U[i].is = "code" /\ U[i].s = s /\ y.stack[i].is = "code" /\ U[n].is = "finally" /\ s \in Nat
      BY <1>3, <1>16, <1>17, <1>b, <1>c
    <2> HIDE DEF i
    <2>4. SlotOK(p, y.stack, U, i)
      BY <2>1, <2>2, PlainSlot
    <2> QED BY <2>4 DEF i
  <1>20. SlotOK(p, y.stack, U, n + 2)
    <2> DEFINE i == n + 2
    <2>1. i - 1 = n + 1 /\ i > 1 /\ s < i /\ i \in Nat /\ i # s + 4
      BY <1>3, <1>b, <1>16
    <2>2. U[i].is = "fp" /\ U[i].s = s /\ y.stack[i].is = "fp" /\ U[i - 1].is = "code" /\ s \in Nat
      BY <1>3, <1>17, <2>1
    <2> HIDE DEF i
    <2>4. SlotOK(p, y.stack, U, i)
      BY <2>1, <2>2, PlainSlot
    <2> QED BY <2>4 DEF i
  <1>g. Mapped(U, s, n + 3, f, W \o X)
    <2>1. Mapped(Grown(T, X, s, f), s, Len(T) + Len(X), f, W \o X)
      BY <1>3, <1>7, MappedGrown DEF n
    <2> QED BY <1>7, <2>1 DEF U, f, n
  <1>h. /\ U[n - 1].is = "handler" /\ U[n].is = "finally"
        /\ U[n - 1].v = W[N - 1].v /\ U[n].v = W[N].v
    BY <1>16, <1>b, <1>c
  <1>i. LinkX(U, n - 2, x.xp)
    <2>1. n - 2 \in 0 .. n
      BY <1>3, <1>b
    <2>2. \A j \in (n - 2) + 1 .. n : U[j].is # "xp"
      <3>1. \A j \in (n - 2) + 1 .. n : j = n - 1 \/ j = n
        BY <1>3
      <3> QED BY <1>h, <3>1
    <2> QED BY <1>3, <1>18, <2>1, <2>2, LinkDown
  <1>j. W[N - 1].v # NoHandler => AtPlace(p, U, s, n + 3, f, W[N - 1].v)
    BY <1>2, <1>3, <1>g DEF Handles, AtPlace, Map
  <1>k. W[N].v # NoHandler => AtFinally(p, U, s, n + 3, f, W[N].v)
    <2> SUFFICES ASSUME W[N].v # NoHandler PROVE AtFinally(p, U, s, n + 3, f, W[N].v)
      OBVIOUS
    <2>1. Goes(p, f, W[N].v, (W \o X) \o SavedWords, FALSE)
      BY <1>2 DEF Handles
    <2>2. W \o X \in Seq(MapWords)
      BY <1>g DEF Mapped
    <2>3. /\ W[N].v \in DOMAIN Shape[p][f] /\ ~Caught(p, f, W[N].v)
          /\ Map(p, f, W[N].v) = (W \o X) \o SavedWords
      BY <2>1 DEF Goes, Map, Caught
    <2> QED BY <1>3, <1>g, <2>2, <2>3 DEF AtFinally
  <1>l. SlotOK(p, y.stack, U, n + 3)
    <2> DEFINE i == n + 3
    <2>1. /\ i - 1 = n + 2 /\ i - 2 = n + 1 /\ i - 3 = n /\ i - 4 = n - 1 /\ i - 5 = n - 2
          /\ i > 1 /\ s < i /\ i \in Nat /\ i - 5 >= s + 4
      BY <1>3, <1>b, <1>16
    <2>2. U[i].is = "xp" /\ U[i].s = s /\ U[i].f = f /\ y.stack[i].is = "xp" /\ y.stack[i].v = x.xp
      BY <1>17
    <2>3. /\ U[i - 1].is = "fp" /\ U[i - 2].is = "code" /\ U[i - 3].is = "finally" /\ U[i - 4].is = "handler"
          /\ y.stack[i - 2].v = f /\ y.stack[i - 1].v = s + 4
      BY <1>17, <1>b, <1>h, <2>1
    <2>4. /\ LinkX(U, i - 5, x.xp)
          /\ U[i - 4].v # NoHandler => AtPlace(p, U, s, i, f, U[i - 4].v)
          /\ U[i - 3].v # NoHandler => AtFinally(p, U, s, i, f, U[i - 3].v)
      BY <1>h, <1>i, <1>j, <1>k, <2>1
    <2> HIDE DEF i
    <2>5. TryOK(p, y.stack, U, i)
      BY <2>1, <2>2, <2>3, <2>4 DEF TryOK
    <2>6. SlotOK(p, y.stack, U, i)
      BY <2>1, <2>2, <2>3, <2>5 DEF SlotOK
    <2> QED BY <2>6 DEF i
  <1>21. \A i \in n + 1 .. n + Len(words) : SlotOK(p, y.stack, U, i)
    <2>1. \A i \in n + 1 .. n + 3 : i = n + 1 \/ i = n + 2 \/ i = n + 3
      BY <1>3
    <2> QED BY <1>6, <1>19, <1>20, <1>l, <2>1
  <1>22. LinkY(U, Len(U), y.yp)
    <2>1. \A j \in n + 1 .. n + 3 : ~IsLinked(U[j])
      <3>1. \A i \in n + 1 .. n + 3 : i = n + 1 \/ i = n + 2 \/ i = n + 3
        BY <1>3
      <3> QED BY <1>17, <3>1 DEF IsLinked
    <2>2. n + 3 \in Nat /\ n \in 0 .. n + 3 /\ y.yp = x.yp
      BY <1>3, <1>10, <1>11
    <2> QED BY <1>16, <1>18, <2>1, <2>2, LinkDown
  <1>m. LinkX(U, Len(U), y.xp)
    <2>1. n - 2 \in Nat /\ (n - 2) + 5 = n + 3 /\ (n - 2) + 6 = n + 4 /\ \A j \in n + 4 .. n + 3 : FALSE
      BY <1>3, <1>b
    <2>2. y.xp = n - 2 /\ Len(U) = n + 3 /\ U[n + 3].is = "xp"
      BY <1>11, <1>16, <1>17
    <2> QED BY SMTT(30), <1>3, <2>1, <2>2 DEF LinkX
  <1>23. y.live = Alive(y.stack, Len(U))
    <2>1. Alive(y.stack, n + 1) = Alive(y.stack, n)
      <3>1. n \in Nat /\ y.stack[n + 1].is # "object"
        BY <1>3, <1>17
      <3>2. Alive(y.stack, n) \in Nat
        BY <3>1, AliveFinite
      <3> QED BY <3>1, <3>2, AliveNext
    <2>2. Alive(y.stack, n) = Alive(x.stack, n)
      <3>1. n \in Nat /\ \A i \in 1 .. n : y.stack[i] = x.stack[i]
        BY <1>3, <1>16
      <3> QED BY <3>1, AliveSame
    <2>3. x.live = Alive(x.stack, n)
      BY <1>3 DEF Balanced, n
    <2>4. Alive(y.stack, (n + 1) + 1) = Alive(y.stack, n + 1)
      <3>1. n + 1 \in Nat /\ y.stack[(n + 1) + 1].is # "object"
        BY <1>3, <1>17
      <3>2. Alive(y.stack, n + 1) \in Nat
        BY <3>1, AliveFinite
      <3> QED BY <3>1, <3>2, AliveNext
    <2>5. Alive(y.stack, ((n + 1) + 1) + 1) = Alive(y.stack, (n + 1) + 1)
      <3>1. (n + 1) + 1 \in Nat /\ y.stack[((n + 1) + 1) + 1].is # "object"
        BY <1>3, <1>17
      <3>2. Alive(y.stack, (n + 1) + 1) \in Nat
        BY <3>1, AliveFinite
      <3> QED BY <3>1, <3>2, AliveNext
    <2>6. Len(U) = ((n + 1) + 1) + 1
      BY <1>3, <1>16
    <2> QED BY <1>10, <1>11, <2>1, <2>2, <2>3, <2>4, <2>5, <2>6
  <1> QED BY <1>14, <1>21, <1>22, <1>m, <1>23, PushSteps DEF U, n

(* Execution goes on elsewhere.                                            *)
GoingTo(z, f, q) == [z EXCEPT !.code = f, !.ip = q]

(* The machine after a jump to another function.                           *)
LEMMA GoingToIs ==
  ASSUME NEW p, NEW z \in Machines(p), NEW f \in Values(p), NEW q \in Int
  PROVE  /\ GoingTo(z, f, q) \in Machines(p)
         /\ GoingTo(z, f, q).code = f /\ GoingTo(z, f, q).ip = q
         /\ GoingTo(z, f, q).fp = z.fp /\ GoingTo(z, f, q).xp = z.xp
         /\ GoingTo(z, f, q).stack = z.stack /\ GoingTo(z, f, q).ret = z.ret
         /\ GoingTo(z, f, q).exception = z.exception /\ GoingTo(z, f, q).status = z.status
         /\ GoingTo(z, f, q).yp = z.yp /\ GoingTo(z, f, q).live = z.live
  BY DEF GoingTo, Machines

(* A new frame begins with its return address.                             *)
LEMMA CallSteps ==
  ASSUME NEW p, NEW x, NEW T, NEW s, Ready(p, x, T, s), Instr(p, x).op = "Call",
         NEW words, TwoWords(words, Word("ip", x.ip + 1), Word("code", x.code)),
         NEW z, z = Push(x, words), NEW y, y = GoingTo(z, Instr(p, x).to, 1)
  PROVE  Steps(p, x, T, y)
  <1> DEFINE W == Map(p, x.code, x.ip)
             X == ReturnAddress
             f == Instr(p, x).to
             n == Len(T)
             U == Grown(T, X, n, f)
             N == Len(W)
  <1>1. Fits(p, x.code, x.ip) /\ W = Shape[p][x.code][x.ip].words
    BY InstrFits DEF Map
  <1>2. /\ Settled(W) /\ Goes(p, x.code, x.ip + 1, W, FALSE)
        /\ f \in DOMAIN Code[p] /\ Goes(p, f, 1, X, FALSE)
    BY <1>1 DEF Fits, Instr
  <1>3. /\ x \in Machines(p) /\ n \in Nat /\ W \in Seq(MapWords) /\ N \in Nat
        /\ LinkX(T, n, x.xp) /\ LinkY(T, n, x.yp) /\ Balanced(p, x, T) /\ s + N = n /\ s \in Nat
        /\ x.code \in DOMAIN Code[p] /\ Mapped(T, s, n, x.code, W)
        /\ T \in Seq(Slots(p)) /\ x.ip \in Nat /\ x.status = "running"
        /\ x.stack \in Seq(StackWords(p)) /\ Len(x.stack) = n
    BY ReadyIs DEF Ready
  <1>b. N >= 4 /\ x.fp = s + 4 /\ n >= 4 /\ T[n].is # "object"
    BY <1>2, SettledIs
  <1>c. n \in 1 .. n /\ n - s >= 4
    BY <1>3, <1>b
  <1>d. T[n].s = s
    <2>1. 0 \in Nat /\ 0 < N /\ n - 0 = n
      BY <1>3, <1>b
    <2>2. Matches(T[n - 0], W[N - 0], s, x.code)
      BY <2>1, TopMapped
    <2> QED BY <2>1, <2>2 DEF Matches
  <1>4. x.code \in Values(p) /\ f \in Values(p) /\ x.ip + 1 \in Int
    <2>1. x.code \in Values(p)
      BY <1>3 DEF Machines
    <2>2. f \in Values(p)
      BY <1>2 DEF Values
    <2> QED BY <1>3, <2>1, <2>2
  <1>5. /\ Word("ip", x.ip + 1) \in StackWords(p) /\ Word("code", x.code) \in StackWords(p)
        /\ Plain("ip") \in MapWords /\ Plain("code") \in MapWords
    <2>1. "ip" \in Kinds /\ "code" \in Kinds
      BY DEF Kinds
    <2> QED BY <1>4, <2>1, WordTyped DEF Plain
  <1>6. /\ words \in Seq(StackWords(p)) /\ Len(words) = 2
        /\ words[1] = Word("ip", x.ip + 1) /\ words[2] = Word("code", x.code)
    BY <1>5 DEF TwoWords
  <1>7. X \in Seq(MapWords) /\ Len(X) = 2 /\ X[1].is = "ip" /\ X[2].is = "code"
    <2>1. X \in Seq(MapWords) /\ Len(X) = 2 /\ X[1] = Plain("ip") /\ X[2] = Plain("code")
      BY <1>5 DEF ReturnAddress
    <2> QED BY <2>1 DEF Plain, Word
  <1>9. /\ Word("ip", x.ip + 1).is = "ip" /\ Word("ip", x.ip + 1).v = x.ip + 1
        /\ Word("code", x.code).is = "code" /\ Word("code", x.code).v = x.code
    BY DEF Word
  <1>10. /\ z \in Machines(p) /\ z.stack = x.stack \o words /\ z.fp = x.fp /\ z.xp = x.xp
         /\ z.yp = x.yp /\ z.live = x.live /\ z.status = x.status
    <2>1. words \in Seq(StackWords(p)) /\ x \in Machines(p)
      BY <1>3, <1>6
    <2>2. PICK u : u = Push(x, words)
      OBVIOUS
    <2>3. /\ u \in Machines(p) /\ u.stack = x.stack \o words /\ u.fp = x.fp /\ u.xp = x.xp
          /\ u.yp = x.yp /\ u.live = x.live /\ u.status = x.status
      BY <2>1, <2>2, PushIs
    <2>4. z = u
      BY <2>2
    <2> QED BY <2>3, <2>4
  <1>11. /\ y \in Machines(p) /\ y.code = f /\ y.ip = 1 /\ y.fp = z.fp /\ y.xp = z.xp
         /\ y.stack = z.stack /\ y.status = z.status /\ y.yp = z.yp /\ y.live = z.live
    <2>1. PICK u : u = GoingTo(z, f, 1)
      OBVIOUS
    <2>2. /\ u \in Machines(p) /\ u.code = f /\ u.ip = 1 /\ u.fp = z.fp /\ u.xp = z.xp
          /\ u.stack = z.stack /\ u.status = z.status /\ u.yp = z.yp /\ u.live = z.live
      <3>1. z \in Machines(p) /\ f \in Values(p) /\ 1 \in Int
        BY <1>4, <1>10
      <3> HIDE DEF f
      <3> QED BY <2>1, <3>1, GoingToIs
    <2>3. y = u
      BY <2>1
    <2> QED BY <2>2, <2>3
  <1> HIDE DEF W, X, U, n, f, N
  <1>14. GrownBy(p, T, U, X, n, f)
    BY <1>2, <1>3, <1>7, SlotsGrown DEF U
  <1>15. /\ U \in Seq(Slots(p)) /\ Len(U) = n + 2 /\ SameTo(T, U, n)
         /\ \A j \in 1 .. 2 : U[n + j] = [is |-> X[j].is, v |-> X[j].v, s |-> n, f |-> f]
    BY <1>7, <1>14 DEF GrownBy, n
  <1>e. /\ Len(y.stack) = n + 2
        /\ \A i \in 1 .. n : y.stack[i] = x.stack[i]
        /\ \A j \in 1 .. 2 : y.stack[n + j] = words[j]
    <2>1. /\ Len(x.stack \o words) = Len(x.stack) + Len(words)
          /\ \A i \in 1 .. Len(x.stack) : (x.stack \o words)[i] = x.stack[i]
          /\ \A j \in 1 .. Len(words) : (x.stack \o words)[Len(x.stack) + j] = words[j]
      <3>1. x.stack \in Seq(StackWords(p)) /\ words \in Seq(StackWords(p))
        BY <1>3, <1>6
      <3> QED BY <3>1, GrownIs
    <2>2. Len(x.stack) = n /\ y.stack = x.stack \o words /\ Len(words) = 2
      BY <1>3, <1>6, <1>10, <1>11
    <2> QED BY <2>1, <2>2, Zenon
  <1>16. \A i \in 1 .. n : U[i] = T[i]
    BY <1>15 DEF SameTo
  <1>17. /\ y.stack[n + 1].is = "ip" /\ y.stack[n + 1].v = x.ip + 1
         /\ U[n + 1].is = "ip" /\ U[n + 1].s = n
         /\ y.stack[n + 2].is = "code" /\ y.stack[n + 2].v = x.code
         /\ U[n + 2].is = "code" /\ U[n + 2].s = n
    BY <1>6, <1>7, <1>9, <1>15, <1>e
  <1>18. LinkX(U, n, x.xp) /\ LinkY(U, n, x.yp)
    <2>1. n \in Nat /\ LinkX(T, n, x.xp) /\ LinkY(T, n, x.yp) /\ SameTo(T, U, n) /\ n <= n
      BY <1>3, <1>15
    <2> QED BY <2>1, LinkKept
  <1>19. SlotOK(p, y.stack, U, n + 1)
    <2> DEFINE i == n + 1
    <2>1. i - 1 = n /\ i > 1 /\ n < i /\ i \in Nat
      BY <1>3, <1>b
    <2>2. /\ U[i].is = "ip" /\ U[i].s = n /\ y.stack[i].is = "ip" /\ y.stack[i].v \in Int
          /\ U[n].is # "object" /\ n \in Nat
      BY <1>3, <1>4, <1>16, <1>17, <1>b, <1>c
    <2> HIDE DEF i
    <2>4. SlotOK(p, y.stack, U, i)
      BY <2>1, <2>2, PlainSlot
    <2> QED BY <2>4 DEF i
  <1>f. AtPlace(p, U, s, n, x.code, x.ip + 1) /\ ~Caught(p, x.code, x.ip + 1)
    <2>1. /\ x.ip + 1 \in DOMAIN Shape[p][x.code] /\ Map(p, x.code, x.ip + 1) = W
          /\ ~Caught(p, x.code, x.ip + 1)
      BY <1>2 DEF Goes, Map, Caught
    <2>2. AtPlace(p, T, s, n, x.code, x.ip + 1)
      BY <1>3, <2>1 DEF AtPlace
    <2>3. n \in Nat /\ n <= n /\ SameTo(T, U, n)
      BY <1>3, <1>15
    <2> QED BY <2>1, <2>2, <2>3, AtPlaceKept
  <1>20. SlotOK(p, y.stack, U, n + 2)
    <2> DEFINE i == n + 2
    <2>1. i - 1 = n + 1 /\ i > 1 /\ n < i /\ i = n + 2 /\ n # 0
      BY <1>3, <1>b
    <2>2. /\ U[i].is = "code" /\ U[i].s = n /\ y.stack[i].is = "code" /\ U[i - 1].is = "ip"
          /\ y.stack[i].v = x.code /\ y.stack[i - 1].v = x.ip + 1 /\ U[n].s = s
      BY <1>16, <1>17, <1>c, <1>d, <2>1
    <2> HIDE DEF i
    <2>3. ReturnOK(p, y.stack, U, i)
      BY <1>c, <1>f, <2>1, <2>2 DEF ReturnOK
    <2>4. SlotOK(p, y.stack, U, i)
      BY <2>1, <2>2, <2>3 DEF SlotOK
    <2> QED BY <2>4 DEF i
  <1>21. LinkX(U, Len(U), y.xp) /\ LinkY(U, Len(U), y.yp)
    <2>1. \A j \in n + 1 .. n + 2 : U[j].is # "xp" /\ ~IsLinked(U[j])
      BY <1>3, <1>17 DEF IsLinked
    <2>2. n + 2 \in Nat /\ n \in 0 .. n + 2 /\ y.xp = x.xp /\ y.yp = x.yp
      BY <1>3, <1>10, <1>11
    <2> QED BY <1>15, <1>18, <2>1, <2>2, LinkDown
  <1>22. y.live = Alive(y.stack, Len(U))
    <2>1. Alive(y.stack, n + 1) = Alive(y.stack, n)
      <3>1. n \in Nat /\ y.stack[n + 1].is # "object"
        BY <1>3, <1>17
      <3>2. Alive(y.stack, n) \in Nat
        BY <3>1, AliveFinite
      <3> QED BY <3>1, <3>2, AliveNext
    <2>2. Alive(y.stack, n) = Alive(x.stack, n)
      <3>1. n \in Nat /\ \A i \in 1 .. n : y.stack[i] = x.stack[i]
        BY <1>3, <1>e
      <3> QED BY <3>1, AliveSame
    <2>3. x.live = Alive(x.stack, n)
      BY <1>3 DEF Balanced, n
    <2>4. Alive(y.stack, (n + 1) + 1) = Alive(y.stack, n + 1)
      <3>1. n + 1 \in Nat /\ y.stack[(n + 1) + 1].is # "object"
        BY <1>3, <1>17
      <3>2. Alive(y.stack, n + 1) \in Nat
        BY <3>1, AliveFinite
      <3> QED BY <3>1, <3>2, AliveNext
    <2>5. Len(U) = (n + 1) + 1
      BY <1>3, <1>15
    <2> QED BY <1>10, <1>11, <2>1, <2>2, <2>3, <2>4, <2>5
  <1>23. Balanced(p, y, U)
    <2>1. KeptTo(x.stack, y.stack, T, n)
      BY <1>e DEF KeptTo
    <2>2. \A i \in n + 1 .. Len(U) : SlotOK(p, y.stack, U, i)
      <3>1. n \in Nat
        BY <1>3
      <3>2. \A i \in n + 1 .. n + 2 : i = n + 1 \/ i = n + 2
        BY <3>1
      <3> QED BY <1>15, <1>19, <1>20, <3>2
    <2>3. Len(U) = Len(y.stack)
      BY <1>15, <1>e
    <2> QED BY <1>3, <1>11, <1>15, <1>21, <1>22, <2>1, <2>2, <2>3, Rebalanced
  <1>24. Runs(p, y, U, n)
    <2>1. AtPlace(p, U, n, n + 2, f, 1)
      <3>1. 1 \in DOMAIN Shape[p][f] /\ Map(p, f, 1) = X
        BY <1>2 DEF Goes, Map
      <3>2. \A j \in 1 .. 2 : Matches(U[n + j], X[j], n, f)
        BY <1>15 DEF Matches
      <3>3. n + 2 \in Nat /\ n + 2 <= Len(U)
        BY <1>3, <1>15
      <3>4. Mapped(U, n, n + 2, f, X)
        BY <1>3, <1>7, <3>2, <3>3 DEF Mapped
      <3> QED BY <1>2, <3>1, <3>4 DEF AtPlace
    <2>2. y.fp = CallerFp(U, n)
      <3>1. U[n].s = s /\ n # 0
        BY <1>3, <1>16, <1>b, <1>c, <1>d
      <3> QED BY <1>10, <1>11, <1>b, <3>1 DEF CallerFp
    <2>3. ~(Len(U) - n >= 4)
      BY <1>3, <1>15
    <2>4. ~Caught(p, f, 1)
      BY <1>2 DEF Goes, Caught
    <2> QED BY <1>3, <1>10, <1>11, <1>15, <1>21, <2>1, <2>2, <2>3, <2>4 DEF Runs
  <1>25. Passed(x, T, U)
    BY <1>3, <1>15, PassedAbove DEF n
  <1> QED BY <1>3, <1>23, <1>24, <1>25 DEF Steps, Good

-----------------------------------------------------------------------------
(* Instructions that leave the stack alone.                                *)

Stays(p, x, y) ==
    /\ y \in Machines(p) /\ y.status = "running" /\ y.code = x.code /\ y.ip = x.ip + 1
    /\ y.fp = x.fp /\ y.xp = x.xp /\ y.yp = x.yp /\ y.stack = x.stack /\ y.live = x.live

(* An instruction that leaves the stack as it is.                          *)
LEMMA StaySteps ==
  ASSUME NEW p, NEW x, NEW T, NEW s, Ready(p, x, T, s), NEW y, Stays(p, x, y),
         Len(Map(p, x.code, x.ip)) >= 4, Goes(p, x.code, x.ip + 1, Map(p, x.code, x.ip), FALSE)
  PROVE  Steps(p, x, T, y)
  <1>1. /\ y \in Machines(p) /\ y.status = "running" /\ y.code = x.code /\ y.ip = x.ip + 1
        /\ y.fp = x.fp /\ y.xp = x.xp /\ y.yp = x.yp /\ y.stack = x.stack /\ y.live = x.live
    BY DEF Stays
  <1>2. /\ Balanced(p, x, T) /\ Mapped(T, s, Len(T), x.code, Map(p, x.code, x.ip)) /\ s \in Nat
        /\ x.code \in DOMAIN Code[p] /\ LinkX(T, Len(T), x.xp) /\ x.fp = s + 4 /\ Len(T) \in Nat
    BY ReadyIs DEF Ready
  <1>3. Balanced(p, y, T)
    BY <1>1, <1>2, RebalancedOther
  <1>4. y.fp = s + 4 /\ LinkX(T, Len(T), y.xp)
    BY <1>1, <1>2
  <1>5. Runs(p, y, T, s)
    BY <1>1, <1>2, <1>4, RunsOn
  <1>6. Passed(x, T, T)
    BY DEF Passed
  <1> QED BY <1>2, <1>3, <1>5, <1>6 DEF Steps, Good

(* The exception is cleared, a return value is set.                        *)
WithRet(z, ret) == [z EXCEPT !.ret = ret]
WithException(z, e) == [z EXCEPT !.exception = e]

(* Those that only set ret or exception, or nothing.                       *)
LEMMA AdvanceStays ==
  ASSUME NEW p, NEW x, NEW T, NEW s, Ready(p, x, T, s)
  PROVE  /\ Stays(p, x, Advance(x))
         /\ \A v \in Values(p) : Stays(p, x, WithRet(Advance(x), v))
         /\ \A v \in Values(p) : Stays(p, x, WithException(Advance(x), v))
  <1>1. x \in Machines(p) /\ x.status = "running" /\ x.ip \in Nat
    BY ReadyIs
  <1>2. PICK z : z = Advance(x)
    OBVIOUS
  <1>3. /\ z \in Machines(p) /\ z.status = "running" /\ z.code = x.code /\ z.ip = x.ip + 1
        /\ z.stack = x.stack /\ z.fp = x.fp /\ z.xp = x.xp /\ z.yp = x.yp /\ z.live = x.live
    BY <1>1, <1>2, FetchIs DEF Advance, Continues
  <1>4. ASSUME NEW v \in Values(p), NEW u, u = WithRet(z, v) \/ u = WithException(z, v)
        PROVE  /\ u \in Machines(p) /\ u.status = z.status /\ u.code = z.code /\ u.ip = z.ip
               /\ u.stack = z.stack /\ u.fp = z.fp /\ u.xp = z.xp /\ u.yp = z.yp /\ u.live = z.live
    <2>1. CASE u = WithRet(z, v)
      BY <1>3, <2>1 DEF WithRet, Machines
    <2>2. CASE u = WithException(z, v)
      BY <1>3, <2>2 DEF WithException, Machines
    <2> QED BY <1>4, <2>1, <2>2
  <1>5. Stays(p, x, z)
    BY <1>3 DEF Stays
  <1>6. ASSUME NEW v \in Values(p) PROVE Stays(p, x, WithRet(z, v)) /\ Stays(p, x, WithException(z, v))
    <2>1. PICK u : u = WithRet(z, v)
      OBVIOUS
    <2>2. Stays(p, x, u)
      BY <1>3, <1>4, <2>1 DEF Stays
    <2>3. PICK w : w = WithException(z, v)
      OBVIOUS
    <2>4. Stays(p, x, w)
      BY <1>3, <1>4, <2>3 DEF Stays
    <2> QED BY <2>1, <2>2, <2>3, <2>4
  <1> QED BY <1>2, <1>5, <1>6

(* A condition that does not hold, and the other instructions like it.     *)
LEMMA AdvanceSteps ==
  ASSUME NEW p, NEW x, NEW T, NEW s, Ready(p, x, T, s), NEW y,
         \/ /\ Instr(p, x).op \in {"JumpNonConditional", "JumpConditional", "JumpNonEqual"}
            /\ y = Advance(x)
         \/ Instr(p, x).op = "ClearException" /\ y = WithException(Advance(x), NoException)
         \/ Instr(p, x).op = "SetRetValue" /\ y = WithRet(Advance(x), "value")
         \/ Instr(p, x).op = "CallNative" /\ y = WithRet(Advance(x), "native")
  PROVE  Steps(p, x, T, y)
  <1>1. Fits(p, x.code, x.ip) /\ Map(p, x.code, x.ip) = Shape[p][x.code][x.ip].words
    BY InstrFits DEF Map
  <1>2. /\ Len(Map(p, x.code, x.ip)) >= 4
        /\ Goes(p, x.code, x.ip + 1, Map(p, x.code, x.ip), FALSE)
    BY <1>1 DEF Fits, Instr, Settled
  <1>3. NoException \in Values(p) /\ "value" \in Values(p) /\ "native" \in Values(p)
    <2>1. NoException \in Returned /\ "value" \in Returned /\ "native" \in Returned
      BY DEF NoException, Returned
    <2> QED BY <2>1 DEF Values
  <1>4. Stays(p, x, y)
    BY <1>3, AdvanceStays
  <1> QED BY <1>2, <1>4, StaySteps

(* A word is written.                                                      *)
Writing(z, i, w, yp, live) == [z EXCEPT !.stack[i] = w, !.yp = yp, !.live = live]

(* The machine after a word of its stack was written.                      *)
LEMMA WritingIs ==
  ASSUME NEW p, NEW z \in Machines(p), NEW i \in 1 .. Len(z.stack), NEW w \in StackWords(p),
         NEW yp \in Int, NEW live \in Int, NEW y, y = Writing(z, i, w, yp, live)
  PROVE  /\ y \in Machines(p) /\ y.code = z.code /\ y.ip = z.ip /\ y.fp = z.fp /\ y.xp = z.xp
         /\ y.ret = z.ret /\ y.exception = z.exception /\ y.status = z.status
         /\ y.yp = yp /\ y.live = live
         /\ Len(y.stack) = Len(z.stack) /\ y.stack[i] = w
         /\ \A j \in 1 .. Len(z.stack) : j # i => y.stack[j] = z.stack[j]
  <1> DEFINE st == [z.stack EXCEPT ![i] = w]
  <1>1. z.stack \in Seq(StackWords(p))
    BY DEF Machines
  <1>2. /\ st \in Seq(StackWords(p)) /\ Len(st) = Len(z.stack) /\ st[i] = w
        /\ \A j \in 1 .. Len(z.stack) : j # i => st[j] = z.stack[j]
    BY <1>1
  <1>3. y = [z EXCEPT !.stack = st, !.yp = yp, !.live = live]
    BY DEF Writing
  <1> HIDE DEF st
  <1>4. /\ y \in Machines(p) /\ y.code = z.code /\ y.ip = z.ip /\ y.fp = z.fp /\ y.xp = z.xp
        /\ y.ret = z.ret /\ y.exception = z.exception /\ y.status = z.status
        /\ y.yp = yp /\ y.live = live /\ y.stack = st
    BY <1>2, <1>3 DEF Machines
  <1> QED BY <1>2, <1>4

(* The words of T and U have the same kinds.                               *)
LEMMA PassedSame ==
  ASSUME NEW x, NEW T, NEW U, Len(T) \in Nat, Len(U) = Len(T), \A i \in 1 .. Len(T) : U[i].is = T[i].is
  PROVE  Passed(x, T, U)
  <1>1. ASSUME NEW d \in Nat, IsTry(T, d) PROVE IsTry(U, d)
    <2>1. d + 5 \in 1 .. Len(T) /\ T[d + 5].is = "xp"
      BY <1>1 DEF IsTry
    <2> QED BY <2>1 DEF IsTry
  <1> QED BY <1>1 DEF Passed

(* Links depend on the kinds of the words only.                            *)
LEMMA LinkXSame ==
  ASSUME NEW T, NEW U, NEW n \in Nat, \A i \in 1 .. n : U[i].is = T[i].is, NEW v, LinkX(T, n, v)
  PROVE  LinkX(U, n, v)
  <1>1. CASE v = InvalidPtr /\ \A j \in 1 .. n : T[j].is # "xp"
    BY <1>1 DEF LinkX
  <1>2. CASE v \in Nat /\ v + 5 <= n /\ T[v + 5].is = "xp" /\ \A j \in v + 6 .. n : T[j].is # "xp"
    <2>1. v + 5 \in 1 .. n /\ \A j \in v + 6 .. n : j \in 1 .. n
      BY <1>2
    <2>2. U[v + 5].is = "xp" /\ \A j \in v + 6 .. n : U[j].is # "xp"
      BY <1>2, <2>1
    <2> QED BY <1>2, <2>2 DEF LinkX
  <1> QED BY <1>1, <1>2 DEF LinkX

(* A null object that was not on the release chain is put on it.           *)
LEMMA MakeObjChainSteps ==
  ASSUME NEW p, NEW x, NEW T, NEW s, Ready(p, x, T, s), Instr(p, x).op = "MakeObjChain",
         NEW chain, chain = x.fp + Instr(p, x).n,
         NEW y, y = Writing(Advance(x), chain + 1, Word("chain", x.yp), chain - 1, x.live)
  PROVE  Holds(x, chain - 1, ReleaserDesc) /\ Steps(p, x, T, y)
  <1> DEFINE W == Map(p, x.code, x.ip)
             n == Len(T)
             N == Len(W)
             V == [W EXCEPT ![N] = Word("chain", Linked)]
             t == [T[n] EXCEPT !.v = Linked]
             U == [T EXCEPT ![n] = t]
  <1>1. Fits(p, x.code, x.ip) /\ W = Shape[p][x.code][x.ip].words
    BY InstrFits DEF Map
  <1>2. /\ N >= 6 /\ W[N] = Word("chain", Unlinked) /\ Instr(p, x).n + 5 = N
        /\ Goes(p, x.code, x.ip + 1, V, FALSE)
    BY <1>1 DEF Fits, Instr
  <1>3. /\ x \in Machines(p) /\ n \in Nat /\ W \in Seq(MapWords) /\ N \in Nat
        /\ LinkX(T, n, x.xp) /\ LinkY(T, n, x.yp) /\ Balanced(p, x, T) /\ s + N = n /\ s \in Nat
        /\ x.code \in DOMAIN Code[p] /\ Mapped(T, s, n, x.code, W)
        /\ T \in Seq(Slots(p)) /\ x.ip \in Nat /\ x.status = "running"
        /\ x.stack \in Seq(StackWords(p)) /\ Len(x.stack) = n /\ Sp(x) = n
        /\ (N >= 4 => x.fp = s + 4)
    BY ReadyIs DEF Ready
  <1>i. Instr(p, x).n \in Nat
    BY ReadyIs DEF Instr
  <1>4. x.fp = s + 4 /\ chain = n - 1 /\ n >= 6 /\ n \in 1 .. n /\ n - 1 \in 1 .. n /\ n - 0 = n /\ N - 0 = N
    <2>1. /\ N >= 6 /\ Instr(p, x).n + 5 = N /\ N \in Nat /\ n \in Nat /\ s \in Nat /\ s + N = n
          /\ x.fp = s + 4 /\ Instr(p, x).n \in Nat
      BY <1>2, <1>3, <1>i
    <2> HIDE DEF N, n
    <2> QED BY <2>1
  <1>5. T[n].is = "chain" /\ T[n].v = Unlinked /\ T[n].s = s /\ T[n].f = x.code
    <2>1. 0 \in Nat /\ 0 < N
      BY <1>2, <1>3
    <2>2. Matches(T[n - 0], W[N - 0], s, x.code)
      BY <2>1, TopMapped
    <2>3. W[N].is = "chain" /\ W[N].v = Unlinked /\ Unlinked # Either
      BY <1>2 DEF Word, Unlinked, Either
    <2> QED BY <1>4, <2>2, <2>3 DEF Matches
  <1>6. /\ x.stack[n].is = "chain" /\ T[n - 1].is = "object" /\ x.stack[n - 1].is = "object"
        /\ T[n] \in Slots(p)
    <2>1. /\ SlotOK(p, x.stack, T, n) /\ x.stack[n].is = T[n].is /\ x.stack[n - 1].is = T[n - 1].is
          /\ T[n] \in Slots(p)
      <3>1. n \in 1 .. Len(T) /\ n - 1 \in 1 .. Len(T) /\ Balanced(p, x, T)
        BY <1>3, <1>4
      <3> HIDE DEF n
      <3> QED BY <3>1, BalancedIs
    <2>2. ChainOK(x.stack, T, n)
      BY <1>5, <2>1 DEF SlotOK
    <2> QED BY <1>5, <2>1, <2>2 DEF ChainOK
  <1>7. Holds(x, chain - 1, ReleaserDesc)
    <2>1. chain - 1 >= 0 /\ chain - 1 + 2 <= Sp(x) /\ chain - 1 = n - 2
      BY <1>3, <1>4
    <2>2. n - 2 + 1 - 1 + 1 = n - 1 /\ n - 2 + 2 - 1 + 1 = n
      BY <1>3
    <2>3. At(x, n - 2 + 1 - 1).is = "object" /\ At(x, n - 2 + 2 - 1).is = "chain"
      BY <1>6, <2>2 DEF At
    <2> QED BY <2>1, <2>3 DEF Holds, ReleaserDesc
  <1>8. t \in Slots(p) /\ t.is = "chain" /\ t.v = Linked /\ t.s = s /\ t.f = x.code
    BY <1>5, <1>6 DEF Slots, Linked
  <1>9. V \in Seq(MapWords) /\ Len(V) = N /\ V[N] = Word("chain", Linked) /\ \A j \in 1 .. N : j # N => V[j] = W[j]
    <2>1. "chain" \in Kinds /\ Linked \in Int
      BY DEF Kinds, Linked
    <2>2. Word("chain", Linked) \in MapWords
      BY <2>1, WordTyped
    <2>3. PICK w \in MapWords : w = Word("chain", Linked)
      BY <2>2
    <2>4. N \in 1 .. N
      BY <1>2, <1>3
    <2>5. /\ [W EXCEPT ![N] = w] \in Seq(MapWords) /\ Len([W EXCEPT ![N] = w]) = N
          /\ [W EXCEPT ![N] = w][N] = w /\ \A j \in 1 .. N : j # N => [W EXCEPT ![N] = w][j] = W[j]
      BY <1>3, <2>4
    <2> QED BY <2>3, <2>5
  <1> HIDE DEF t
  <1>10. U \in Seq(Slots(p)) /\ Len(U) = n /\ U[n] = t /\ \A j \in 1 .. n : j # n => U[j] = T[j]
    BY <1>3, <1>4, <1>8
  <1>11. PICK z : z = Advance(x)
    OBVIOUS
  <1>12. /\ z \in Machines(p) /\ z.status = "running" /\ z.code = x.code /\ z.ip = x.ip + 1
         /\ z.stack = x.stack /\ z.fp = x.fp /\ z.xp = x.xp
    BY <1>3, <1>11, FetchIs DEF Advance, Continues
  <1>13. x.yp \in Int /\ x.live \in Int /\ Word("chain", x.yp) \in StackWords(p)
         /\ Word("chain", x.yp).is = "chain" /\ Word("chain", x.yp).v = x.yp
    <2>1. x.yp \in Int /\ x.live \in Int /\ "chain" \in Kinds
      BY <1>3 DEF Machines, Kinds
    <2>2. Word("chain", x.yp) \in StackWords(p)
      BY <2>1, WordTyped
    <2> QED BY <2>1, <2>2 DEF Word
  <1>14. /\ y \in Machines(p) /\ y.code = x.code /\ y.ip = x.ip + 1 /\ y.fp = x.fp /\ y.xp = x.xp
         /\ y.status = "running" /\ y.yp = n - 2 /\ y.live = x.live
         /\ Len(y.stack) = n /\ y.stack[n] = Word("chain", x.yp)
         /\ \A j \in 1 .. n : j # n => y.stack[j] = x.stack[j]
    <2>1. /\ chain + 1 = n /\ chain - 1 = n - 2 /\ n - 2 \in Int
      BY <1>3, <1>4
    <2>2. PICK u : u = Writing(z, n, Word("chain", x.yp), n - 2, x.live)
      OBVIOUS
    <2>3. y = u
      BY <1>11, <2>1, <2>2
    <2>4. n \in 1 .. Len(z.stack)
      BY <1>3, <1>4, <1>12
    <2>5. /\ u \in Machines(p) /\ u.code = z.code /\ u.ip = z.ip /\ u.fp = z.fp /\ u.xp = z.xp
          /\ u.status = z.status /\ u.yp = n - 2 /\ u.live = x.live
          /\ Len(u.stack) = Len(z.stack) /\ u.stack[n] = Word("chain", x.yp)
          /\ \A j \in 1 .. Len(z.stack) : j # n => u.stack[j] = z.stack[j]
      BY <1>12, <1>13, <2>1, <2>2, <2>4, WritingIs
    <2> QED BY <1>3, <1>12, <2>3, <2>5
  <1> HIDE DEF W, U, n, N, V
  <1>15. SameTo(T, U, n - 1) /\ KeptTo(x.stack, y.stack, T, n - 1) /\ n - 1 \in Nat
    <2>1. n - 1 \in Nat /\ n - 1 <= Len(T) /\ n - 1 <= Len(U)
      BY <1>3, <1>4, <1>10 DEF n
    <2>2. \A j \in 1 .. n - 1 : j \in 1 .. n /\ j # n
      BY <1>3
    <2>3. \A j \in 1 .. n - 1 : U[j] = T[j] /\ y.stack[j] = x.stack[j]
      BY <1>10, <1>14, <2>2
    <2> QED BY <2>1, <2>3 DEF SameTo, KeptTo
  <1>16. LinkY(U, n - 1, x.yp)
    <2>1. n - 1 \in 0 .. n /\ \A j \in (n - 1) + 1 .. n : ~IsLinked(T[j])
      <3>1. \A j \in (n - 1) + 1 .. n : j = n
        BY <1>3
      <3>2. ~IsLinked(T[n])
        BY <1>5 DEF IsLinked, Linked, Unlinked
      <3> QED BY <1>3, <1>4, <3>1, <3>2
    <2>2. LinkY(T, n - 1, x.yp)
      BY <1>3, <2>1, LinkDown
    <2>3. n - 1 <= n - 1
      BY <1>3
    <2> QED BY <1>15, <2>2, <2>3, LinkKept
  <1>17. SlotOK(p, y.stack, U, n)
    <2>1. /\ U[n].is = "chain" /\ U[n].v = Linked /\ U[n].s = s /\ y.stack[n].is = "chain"
          /\ y.stack[n].v = x.yp
      BY <1>8, <1>10, <1>13, <1>14
    <2>2. U[n - 1].is = "object" /\ n > 1 /\ s < n
      BY <1>2, <1>3, <1>4, <1>6, <1>10
    <2>3. ChainOK(y.stack, U, n)
      BY <1>16, <2>1, <2>2 DEF ChainOK
    <2> QED BY <2>1, <2>2, <2>3 DEF SlotOK
  <1>18. LinkY(U, n, y.yp)
    <2>1. IsLinked(U[n])
      BY <1>8, <1>10 DEF IsLinked
    <2>2. y.yp = n - 2 /\ n - 2 \in Nat /\ n - 2 + 2 = n /\ n - 2 + 3 = n + 1 /\ \A j \in n + 1 .. n : FALSE
      BY SMTT(30), <1>3, <1>4, <1>14
    <2> QED BY <1>3, <2>1, <2>2 DEF LinkY
  <1>19. y.live = Alive(y.stack, n)
    <2>1. \A j \in 1 .. n : (y.stack[j].is = "object" /\ y.stack[j].v = 1)
                             <=> (x.stack[j].is = "object" /\ x.stack[j].v = 1)
      <3> TAKE j \in 1 .. n
      <3>1. CASE j = n
        BY <1>6, <1>13, <1>14, <3>1
      <3>2. CASE j # n
        BY <1>14, <3>2
      <3> QED BY <3>1, <3>2
    <2>2. Alive(y.stack, n) = Alive(x.stack, n)
      BY <1>3, <2>1, AliveSame
    <2>3. x.live = Alive(x.stack, n)
      BY <1>3 DEF Balanced, n
    <2> QED BY <1>14, <2>2, <2>3
  <1>20. Balanced(p, y, U)
    <2>1. \A i \in (n - 1) + 1 .. Len(U) : SlotOK(p, y.stack, U, i)
      <3>1. \A i \in (n - 1) + 1 .. n : i = n
        BY <1>3
      <3> QED BY <1>10, <1>17, <3>1
    <2>2. Len(U) = Len(y.stack) /\ LinkY(U, Len(U), y.yp) /\ y.live = Alive(y.stack, Len(U))
      BY <1>10, <1>14, <1>18, <1>19
    <2> QED BY <1>3, <1>10, <1>14, <1>15, <2>1, <2>2, Rebalanced
  <1>21. \A j \in 1 .. n : U[j].is = T[j].is
    BY <1>5, <1>8, <1>10
  <1>22. LinkX(U, n, x.xp)
    BY <1>3, <1>21, LinkXSame
  <1>23. Mapped(U, s, n, x.code, V)
    <2>1. \A j \in 1 .. N : Matches(U[s + j], V[j], s, x.code)
      <3> TAKE j \in 1 .. N
      <3>1. CASE j = N
        <4>1. U[s + j] = t /\ V[j] = Word("chain", Linked)
          BY <1>3, <1>9, <1>10, <3>1
        <4> QED BY <1>8, <4>1 DEF Matches, Word
      <3>2. CASE j # N
        <4>1. s + j \in 1 .. n /\ s + j # n
          BY <1>3, <3>2
        <4>2. U[s + j] = T[s + j] /\ V[j] = W[j]
          BY <1>9, <1>10, <3>2, <4>1
        <4>3. Matches(T[s + j], W[j], s, x.code)
          BY <1>3 DEF Mapped, N
        <4> QED BY <4>2, <4>3
      <3> QED BY <3>1, <3>2
    <2> QED BY <1>3, <1>9, <1>10, <2>1 DEF Mapped
  <1>24. Runs(p, y, U, s)
    <2>1. Len(V) >= 4 /\ y.fp = s + 4 /\ LinkX(U, Len(U), y.xp) /\ Mapped(U, s, Len(U), x.code, V)
      BY <1>2, <1>3, <1>4, <1>9, <1>10, <1>14, <1>22, <1>23
    <2> QED BY <1>2, <1>3, <1>14, <2>1, RunsOn
  <1>25. Passed(x, T, U)
    BY <1>3, <1>10, <1>21, PassedSame DEF n
  <1> QED BY <1>3, <1>7, <1>20, <1>24, <1>25 DEF Steps, Good

(* An object is stored in a variable that is on the release chain.         *)
LEMMA StoreLocalSteps ==
  ASSUME NEW p, NEW x, NEW T, NEW s, Ready(p, x, T, s), Instr(p, x).op = "StoreLocal",
         NEW local, local = x.fp + Instr(p, x).n,
         NEW y, y = Writing(Advance(x), local + 1, Word("object", 1), x.yp, x.live + 1 - At(x, local).v)
  PROVE  Holds(x, local, ReleaserDesc) /\ Steps(p, x, T, y)
  <1> DEFINE W == Map(p, x.code, x.ip)
             n == Len(T)
             N == Len(W)
             l == local + 1
  <1>1. Fits(p, x.code, x.ip) /\ W = Shape[p][x.code][x.ip].words
    BY InstrFits DEF Map
  <1>2. /\ Local(W, Instr(p, x).n, ReleaserDesc) /\ W[Instr(p, x).n + 6].v = Linked
        /\ Goes(p, x.code, x.ip + 1, W, FALSE)
    BY <1>1 DEF Fits, Instr
  <1>3. /\ x \in Machines(p) /\ n \in Nat /\ W \in Seq(MapWords) /\ N \in Nat
        /\ LinkX(T, n, x.xp) /\ LinkY(T, n, x.yp) /\ Balanced(p, x, T) /\ s + N = n /\ s \in Nat
        /\ x.code \in DOMAIN Code[p] /\ Mapped(T, s, n, x.code, W)
        /\ T \in Seq(Slots(p)) /\ x.ip \in Nat /\ x.status = "running"
        /\ x.stack \in Seq(StackWords(p)) /\ Len(x.stack) = n
    BY ReadyIs DEF Ready
  <1>i. Instr(p, x).n \in Nat
    BY ReadyIs DEF Instr
  <1>4. ReleaserDesc \in Seq(Kinds) /\ Len(ReleaserDesc) = 2 /\ ReleaserDesc[1] = "object" /\ ReleaserDesc[2] = "chain"
    BY DEF ReleaserDesc, Kinds
  <1>5. /\ Holds(x, local, ReleaserDesc) /\ x.fp = s + 4
        /\ \A j \in 1 .. 2 : /\ local + j \in 1 .. n /\ T[local + j].is = ReleaserDesc[j]
                             /\ x.stack[local + j].is = ReleaserDesc[j]
    <2>1. /\ Holds(x, x.fp + Instr(p, x).n, ReleaserDesc) /\ x.fp = s + 4
          /\ \A j \in 1 .. Len(ReleaserDesc) : /\ x.fp + Instr(p, x).n + j \in 1 .. Len(T)
                                               /\ T[x.fp + Instr(p, x).n + j].is = ReleaserDesc[j]
                                               /\ x.stack[x.fp + Instr(p, x).n + j].is = ReleaserDesc[j]
      <3>1. PICK k : k = Instr(p, x).n
        OBVIOUS
      <3>2. /\ ReleaserDesc \in Seq(Kinds) /\ k \in Nat
            /\ Local(Map(p, x.code, x.ip), k, ReleaserDesc)
        BY <1>2, <1>4, <1>i, <3>1
      <3>3. /\ Holds(x, x.fp + k, ReleaserDesc) /\ x.fp = s + 4
            /\ \A j \in 1 .. Len(ReleaserDesc) : /\ x.fp + k + j \in 1 .. Len(T)
                                                 /\ T[x.fp + k + j].is = ReleaserDesc[j]
                                                 /\ x.stack[x.fp + k + j].is = ReleaserDesc[j]
        BY <3>2, LocalHolds
      <3> QED BY <3>1, <3>3
    <2> QED BY <1>4, <2>1
  <1>6. /\ local = s + 4 + Instr(p, x).n /\ local \in Nat /\ l \in 1 .. n /\ l + 1 \in 1 .. n /\ local + 2 = l + 1
        /\ T[l].is = "object" /\ x.stack[l].is = "object" /\ T[l + 1].is = "chain"
    <2>1. x.fp = s + 4 /\ local + 1 \in 1 .. n /\ local + 2 \in 1 .. n
      BY <1>5
    <2>2. local = s + 4 + Instr(p, x).n /\ local \in Nat /\ local + 2 = l + 1
      BY SMTT(30), <1>3, <1>i, <2>1
    <2> QED BY <1>4, <1>5, <2>1, <2>2
  <1>7. T[l + 1].v = Linked /\ x.stack[l].v \in {0, 1}
    <2>1. Instr(p, x).n + 6 \in 1 .. N /\ s + (Instr(p, x).n + 6) = l + 1
      <3>1. l + 1 <= n /\ l = s + 4 + Instr(p, x).n + 1
        BY <1>6
      <3>2. s + N = n /\ s \in Nat /\ N \in Nat /\ n \in Nat
        BY <1>3
      <3> HIDE DEF n, N, l
      <3> QED BY <1>i, <3>1, <3>2
    <2>2. Matches(T[s + (Instr(p, x).n + 6)], W[Instr(p, x).n + 6], s, x.code)
      BY <1>3, <2>1 DEF Mapped
    <2>3. Linked # Either
      BY DEF Linked, Either
    <2>4. T[l + 1].v = Linked
      BY <1>2, <2>1, <2>2, <2>3 DEF Matches
    <2>5. SlotOK(p, x.stack, T, l)
      BY <1>3, <1>6, BalancedIs
    <2> QED BY <1>6, <2>4, <2>5 DEF SlotOK
  <1>8. At(x, local).v = x.stack[l].v
    BY DEF At
  <1>9. IsLinked(T[l + 1])
    BY <1>6, <1>7 DEF IsLinked
  <1>11. PICK z : z = Advance(x)
    OBVIOUS
  <1>12. /\ z \in Machines(p) /\ z.status = "running" /\ z.code = x.code /\ z.ip = x.ip + 1
         /\ z.stack = x.stack /\ z.fp = x.fp /\ z.xp = x.xp
    BY <1>3, <1>11, FetchIs DEF Advance, Continues
  <1>13. x.yp \in Int /\ x.live + 1 - x.stack[l].v \in Int /\ Word("object", 1) \in StackWords(p)
    <2>1. x.yp \in Int /\ x.live \in Int
      BY <1>3 DEF Machines
    <2>2. "object" \in Kinds /\ 1 \in Int
      BY DEF Kinds
    <2>3. Word("object", 1) \in StackWords(p)
      BY <2>2, WordTyped
    <2> QED BY <1>7, <2>1, <2>3
  <1>a. Word("object", 1).is = "object" /\ Word("object", 1).v = 1
    BY DEF Word
  <1>14. /\ y \in Machines(p) /\ y.code = x.code /\ y.ip = x.ip + 1 /\ y.fp = x.fp /\ y.xp = x.xp
         /\ y.status = "running" /\ y.yp = x.yp /\ y.live = x.live + 1 - x.stack[l].v
         /\ Len(y.stack) = n /\ y.stack[l] = Word("object", 1)
         /\ \A j \in 1 .. n : j # l => y.stack[j] = x.stack[j]
    <2>2. PICK u : u = Writing(z, l, Word("object", 1), x.yp, x.live + 1 - x.stack[l].v)
      OBVIOUS
    <2>3. y = u
      BY <1>8, <1>11, <2>2
    <2>4. l \in 1 .. Len(z.stack)
      BY <1>3, <1>6, <1>12
    <2> HIDE DEF l
    <2>5. /\ u \in Machines(p) /\ u.code = z.code /\ u.ip = z.ip /\ u.fp = z.fp /\ u.xp = z.xp
          /\ u.status = z.status /\ u.yp = x.yp /\ u.live = x.live + 1 - x.stack[l].v
          /\ Len(u.stack) = Len(z.stack) /\ u.stack[l] = Word("object", 1)
          /\ \A j \in 1 .. Len(z.stack) : j # l => u.stack[j] = z.stack[j]
      BY <1>12, <1>13, <2>2, <2>4, WritingIs
    <2> QED BY <1>3, <1>12, <2>3, <2>5
  <1> HIDE DEF W, n, N, l
  <1>15. SameTo(T, T, n) /\ KeptTo(x.stack, y.stack, T, n)
    <2>1. KeptTo(x.stack, y.stack, T, n)
      <3> SUFFICES ASSUME NEW j \in 1 .. n
                   PROVE  \/ y.stack[j] = x.stack[j]
                          \/ /\ x.stack[j].is = "object" /\ y.stack[j] = Word("object", 1)
                             /\ j < n => IsLinked(T[j + 1])
        BY DEF KeptTo
      <3>1. CASE j = l
        BY <1>6, <1>9, <1>14, <3>1
      <3>2. CASE j # l
        BY <1>14, <3>2
      <3> QED BY <3>1, <3>2
    <2> QED BY <1>3, <2>1 DEF SameTo, n
  <1>16. y.live = Alive(y.stack, n)
    <2>1. Alive(y.stack, n) = Alive(x.stack, n) + 1 - x.stack[l].v
      <3>1. /\ n \in Nat /\ l \in 1 .. n /\ x.stack[l].is = "object" /\ x.stack[l].v \in {0, 1}
            /\ y.stack[l].is = "object" /\ y.stack[l].v = 1
            /\ \A j \in 1 .. n : j # l => y.stack[j] = x.stack[j]
        BY <1>3, <1>6, <1>7, <1>14, <1>a
      <3> QED BY <3>1, AliveStored
    <2>2. x.live = Alive(x.stack, n)
      BY <1>3 DEF Balanced, n
    <2> QED BY <1>14, <2>1, <2>2
  <1>17. Balanced(p, y, T)
    <2>1. \A i \in n + 1 .. Len(T) : SlotOK(p, y.stack, T, i)
      BY <1>3 DEF n
    <2>2. Len(T) = Len(y.stack) /\ LinkY(T, Len(T), y.yp) /\ y.live = Alive(y.stack, Len(T))
      BY <1>3, <1>14, <1>16 DEF n
    <2> QED BY <1>3, <1>14, <1>15, <2>1, <2>2, Rebalanced
  <1>18. Runs(p, y, T, s)
    <2>1. Len(W) >= 4 /\ y.fp = s + 4 /\ LinkX(T, Len(T), y.xp) /\ Mapped(T, s, Len(T), x.code, W)
      <3>1. Len(W) >= 4
        <4>1. l + 1 <= n /\ l = s + 4 + Instr(p, x).n + 1
          BY <1>6 DEF l
        <4> QED BY <1>3, <1>i, <4>1 DEF N
      <3> QED BY <1>3, <1>5, <1>14, <3>1 DEF n
    <2> QED BY <1>2, <1>3, <1>14, <2>1, RunsOn
  <1>19. Passed(x, T, T)
    BY DEF Passed
  <1> QED BY <1>3, <1>5, <1>17, <1>18, <1>19 DEF Steps, Good

-----------------------------------------------------------------------------
(* Instructions that free the top of the stack.                            *)

Landing(x, q) == [x EXCEPT !.ip = q]

(* The machine after a jump.                                               *)
LEMMA LandingIs ==
  ASSUME NEW p, NEW x \in Machines(p), NEW q \in Int, NEW z, z = Landing(x, q)
  PROVE  /\ z \in Machines(p) /\ z.code = x.code /\ z.ip = q /\ z.fp = x.fp /\ z.xp = x.xp
         /\ z.stack = x.stack /\ z.ret = x.ret /\ z.exception = x.exception
         /\ z.status = x.status /\ z.yp = x.yp /\ z.live = x.live
  BY DEF Landing, Machines

(* The words above k are freed and execution goes on at q.                 *)
Dropping(p, x, T, s, q, k, c) ==
    /\ Ready(p, x, T, s) /\ Settles(T) /\ q \in Int /\ k \in Nat
    /\ Frees(p, x.code, q, Map(p, x.code, x.ip), k, c) /\ (c => x.exception \in Thrown)

(* The words that a jump frees have no handler among them.                 *)
LEMMA DroppingIs ==
  ASSUME NEW p, NEW x, NEW T, NEW s, NEW q, NEW k, NEW c, Dropping(p, x, T, s, q, k, c)
  PROVE  /\ s + k \in 0 .. Len(T) /\ k >= 4 /\ k <= Len(Map(p, x.code, x.ip))
         /\ \A j \in s + k + 1 .. Len(T) : T[j].is # "xp"
         /\ s + k < Len(T) => T[s + k + 1].is # "chain"
         /\ Goes(p, x.code, q, SubSeq(Map(p, x.code, x.ip), 1, k), c)
  <1> DEFINE W == Map(p, x.code, x.ip)
             N == Len(W)
             n == Len(T)
  <1>1. /\ k \in 4 .. N /\ Goes(p, x.code, q, SubSeq(W, 1, k), c)
        /\ \A j \in k + 1 .. N : W[j].is \in {"number", "object", "chain", "thrown"}
        /\ k < N => W[k + 1].is # "chain"
    BY DEF Dropping, Frees
  <1>2. /\ W \in Seq(MapWords) /\ N \in Nat /\ s + N = n /\ s \in Nat /\ n \in Nat
        /\ \A j \in 1 .. N : Matches(T[s + j], W[j], s, x.code)
    BY ReadyIs DEF Dropping
  <1>3. N \in Nat /\ s + N = n /\ s \in Nat /\ n \in Nat /\ k \in 4 .. N
    BY <1>1, <1>2
  <1> HIDE DEF W, N, n
  <1>4. s + k \in 0 .. n /\ k >= 4 /\ k <= N
    BY <1>3
  <1>5. ASSUME NEW j \in s + k + 1 .. n PROVE T[j].is # "xp"
    <2>1. j - s \in k + 1 .. N /\ j - s \in 1 .. N /\ s + (j - s) = j
      BY <1>3
    <2>2. T[s + (j - s)].is = W[j - s].is /\ W[j - s].is \in {"number", "object", "chain", "thrown"}
      BY <1>1, <1>2, <2>1 DEF Matches
    <2> QED BY <2>1, <2>2
  <1>6. ASSUME s + k < n PROVE T[s + k + 1].is # "chain"
    <2>1. k < N /\ k + 1 \in 1 .. N /\ s + (k + 1) = s + k + 1
      BY <1>3, <1>6
    <2>2. T[s + (k + 1)].is = W[k + 1].is /\ W[k + 1].is # "chain"
      BY <1>1, <1>2, <2>1 DEF Matches
    <2> QED BY <2>1, <2>2
  <1> QED BY <1>1, <1>4, <1>5, <1>6 DEF W, N, n

(* The machine after such a jump.                                          *)
LEMMA DroppingTo ==
  ASSUME NEW p, NEW x, NEW T, NEW s, NEW q, NEW k, NEW c, Dropping(p, x, T, s, q, k, c),
         NEW z, z = Landing(x, q)
  PROVE  /\ z \in Machines(p) /\ z.code = x.code /\ z.ip = q /\ z.fp = x.fp /\ z.xp = x.xp
         /\ z.stack = x.stack /\ z.exception = x.exception
         /\ z.status = x.status /\ z.yp = x.yp /\ z.live = x.live
  <1>1. Ready(p, x, T, s) /\ q \in Int
    BY DEF Dropping
  <1>2. x \in Machines(p)
    BY <1>1, ReadyIs
  <1> QED BY <1>1, <1>2, LandingIs

(* Words without handlers leave no descriptor behind.                      *)
LEMMA PassedCut ==
  ASSUME NEW x, NEW T, NEW U, NEW k \in 0 .. Len(T), Len(U) = k, SameTo(T, U, k),
         \A j \in k + 1 .. Len(T) : T[j].is # "xp"
  PROVE  Passed(x, T, U)
  <1>1. ASSUME NEW d \in Nat, IsTry(T, d) PROVE IsTry(U, d)
    <2>1. d + 5 \in 1 .. k
      <3>1. d + 5 <= Len(T) /\ T[d + 5].is = "xp" /\ k \in Nat
        BY <1>1 DEF IsTry
      <3>2. ~(d + 5 \in k + 1 .. Len(T))
        BY <3>1
      <3> QED BY <3>1, <3>2
    <2>2. U[d + 5].is = "xp"
      BY <1>1, <2>1 DEF IsTry, SameTo
    <2> QED BY <2>1, <2>2 DEF IsTry
  <1> QED BY <1>1 DEF Passed

(* The stack T cut.                                                        *)
IsCut(T, k, U) == U = SubSeq(T, 1, k)

(* Cut slots are the same as before.                                       *)
LEMMA CutSame ==
  ASSUME NEW p, NEW T \in Seq(Slots(p)), NEW k \in 0 .. Len(T), NEW U, IsCut(T, k, U)
  PROVE  U \in Seq(Slots(p)) /\ Len(U) = k /\ SameTo(T, U, k) /\ k \in Nat /\ \A i \in 1 .. k : U[i] = T[i]
  <1>1. U \in Seq(Slots(p)) /\ Len(U) = k /\ \A i \in 1 .. k : U[i] = T[i]
    BY CutIs DEF IsCut
  <1>2. k \in Nat /\ k <= Len(T) /\ k <= k
    OBVIOUS
  <1> QED BY <1>1, <1>2 DEF SameTo

(* A machine that goes on in the same frame, cut.                          *)
LEMMA CutRuns ==
  ASSUME NEW p, NEW T \in Seq(Slots(p)), NEW s \in Nat, NEW f \in DOMAIN Code[p], NEW W, NEW k \in Nat,
         NEW K, K = s + k, K \in 0 .. Len(T),
         NEW n, Mapped(T, s, n, f, W), k >= 4, k <= Len(W), NEW q, NEW c, Goes(p, f, q, SubSeq(W, 1, k), c),
         NEW U, IsCut(T, K, U),
         NEW y, y.status = "running", y.code = f, y.ip = q, y.fp = s + 4,
         LinkX(T, K, y.xp), c => y.exception \in Thrown
  PROVE  Runs(p, y, U, s)
  <1>1. Len(U) = K /\ SameTo(T, U, K) /\ K \in Nat
    BY CutSame
  <1>2. W \in Seq(MapWords)
    BY DEF Mapped
  <1>3. k \in 0 .. Len(W)
    OBVIOUS
  <1>4. Mapped(SubSeq(T, 1, s + k), s, s + k, f, SubSeq(W, 1, k))
    BY <1>3, MappedCut
  <1>5. Len(SubSeq(W, 1, k)) = k
    BY <1>2, <1>3, CutIs
  <1>6. Mapped(U, s, Len(U), f, SubSeq(W, 1, k)) /\ Len(SubSeq(W, 1, k)) >= 4
    <2>1. U = SubSeq(T, 1, s + k) /\ Len(U) = s + k
      BY <1>1 DEF IsCut
    <2> QED BY <1>4, <1>5, <2>1
  <1>7. LinkX(U, Len(U), y.xp)
    <2>1. K <= K
      BY <1>1
    <2> QED BY <1>1, <2>1, LinkKept
  <1> QED BY <1>6, <1>7, RunsOn

(* A jump and FreeDownTo.                                                  *)
LEMMA FreeDownSteps ==
  ASSUME NEW p, NEW x, NEW T, NEW s, NEW q, NEW k, NEW c, Dropping(p, x, T, s, q, k, c),
         NEW z, z = Landing(x, q), NEW y, y = FreeDownTo(z, s + k)
  PROVE  Steps(p, x, T, y)
  <1> DEFINE W == Map(p, x.code, x.ip)
             K == s + k
             U == SubSeq(T, 1, K)
  <1>1. /\ Ready(p, x, T, s) /\ Settles(T) /\ q \in Int /\ k \in Nat /\ (c => x.exception \in Thrown)
    BY DEF Dropping
  <1>2. /\ K \in 0 .. Len(T) /\ k >= 4 /\ k <= Len(W)
        /\ \A j \in K + 1 .. Len(T) : T[j].is # "xp"
        /\ K < Len(T) => T[K + 1].is # "chain"
        /\ Goes(p, x.code, q, SubSeq(W, 1, k), c)
    BY DroppingIs
  <1>3. /\ x \in Machines(p) /\ Len(T) \in Nat /\ W \in Seq(MapWords) /\ Len(W) \in Nat
        /\ LinkX(T, Len(T), x.xp) /\ Balanced(p, x, T) /\ s \in Nat
        /\ x.code \in DOMAIN Code[p] /\ Mapped(T, s, Len(T), x.code, W)
        /\ T \in Seq(Slots(p)) /\ x.status = "running" /\ (Len(W) >= 4 => x.fp = s + 4)
    BY <1>1, ReadyIs DEF Ready
  <1>4. /\ z \in Machines(p) /\ z.code = x.code /\ z.ip = q /\ z.fp = x.fp /\ z.xp = x.xp
        /\ z.stack = x.stack /\ z.exception = x.exception
        /\ z.status = x.status /\ z.yp = x.yp /\ z.live = x.live
    BY DroppingTo
  <1>a. IsCut(T, K, U)
    BY DEF IsCut
  <1> HIDE DEF W, K, U
  <1>5. Balanced(p, z, T)
    BY <1>3, <1>4, RebalancedOther
  <1>6. PICK yp \in Int : FreeDownTo(z, K) = Freed(z, K, yp) /\ Balanced(p, Freed(z, K, yp), U)
    BY <1>1, <1>2, <1>5, FreeDownToIs DEF U
  <1>7. K \in 0 .. Len(z.stack)
    BY <1>2, <1>5, BalancedIs
  <1>8. PICK u : u = Freed(z, K, yp)
    OBVIOUS
  <1>9. /\ u.code = z.code /\ u.ip = z.ip /\ u.fp = z.fp /\ u.xp = z.xp /\ u.exception = z.exception
        /\ u.status = z.status
    BY <1>4, <1>7, <1>8, FreedIs
  <1>10. y = u /\ Balanced(p, u, U)
    BY <1>6, <1>8 DEF K
  <1>11. LinkX(T, K, u.xp)
    BY <1>2, <1>3, <1>4, <1>9, LinkDown
  <1>12. Runs(p, u, U, s)
    <2>1. /\ u.status = "running" /\ u.code = x.code /\ u.ip = q /\ u.fp = s + 4
          /\ c => u.exception \in Thrown
      BY <1>1, <1>2, <1>3, <1>4, <1>9
    <2> QED BY <1>1, <1>2, <1>3, <1>11, <1>a, <2>1, CutRuns DEF K
  <1>13. Passed(x, T, U)
    <2>1. Len(U) = K /\ SameTo(T, U, K)
      BY <1>2, <1>3, <1>a, CutSame
    <2> QED BY <1>2, <2>1, PassedCut
  <1> QED BY <1>3, <1>10, <1>12, <1>13 DEF Steps, Good

(* A jump and micro_instruction_FreeCount.                                 *)
LEMMA FreeCountSteps ==
  ASSUME NEW p, NEW x, NEW T, NEW s, NEW q, NEW n \in Nat, NEW c, NEW k,
         k = Len(Map(p, x.code, x.ip)) - n, Dropping(p, x, T, s, q, k, c),
         NEW z, z = Landing(x, q), NEW y, y = FreeCount(z, n)
  PROVE  Steps(p, x, T, y)
  <1> DEFINE W == Map(p, x.code, x.ip)
  <1>1. /\ Ready(p, x, T, s) /\ q \in Int /\ (c => x.exception \in Thrown)
    BY DEF Dropping
  <1>2. k >= 4 /\ k <= Len(W) /\ Goes(p, x.code, q, SubSeq(W, 1, k), c)
    BY DroppingIs
  <1>3. /\ x \in Machines(p) /\ Len(T) \in Nat /\ W \in Seq(MapWords) /\ Len(W) \in Nat
        /\ LinkX(T, Len(T), x.xp) /\ Balanced(p, x, T) /\ s \in Nat /\ s + Len(W) = Len(T)
        /\ x.code \in DOMAIN Code[p] /\ Mapped(T, s, Len(T), x.code, W)
        /\ x.status = "running" /\ (Len(W) >= 4 => x.fp = s + 4) /\ Sp(x) = Len(T)
    BY <1>1, ReadyIs DEF Ready
  <1>4. /\ z \in Machines(p) /\ z.code = x.code /\ z.ip = q /\ z.fp = x.fp /\ z.xp = x.xp
        /\ z.stack = x.stack /\ z.exception = x.exception
        /\ z.status = x.status /\ z.yp = x.yp /\ z.live = x.live
    BY DroppingTo
  <1>5. CASE n > 0
    <2>1. Sp(z) - n = s + k
      <3>1. Sp(z) = Len(T)
        BY <1>3, <1>4 DEF Sp
      <3> HIDE DEF W
      <3> QED BY <1>3, <3>1 DEF W
    <2>2. y = FreeDownTo(z, s + k)
      BY <1>5, <2>1 DEF FreeCount
    <2> QED BY <2>2, FreeDownSteps
  <1>6. CASE n = 0
    <2>1. y = z
      BY <1>6 DEF FreeCount
    <2>2. k = Len(W)
      BY <1>3, <1>6
    <2>3. SubSeq(W, 1, Len(W)) = W
      BY <1>3
    <2>4. Goes(p, x.code, q, W, c)
      BY <1>2, <2>2, <2>3
    <2>5. Balanced(p, z, T)
      BY <1>3, <1>4, RebalancedOther
    <2>6. Runs(p, z, T, s)
      <3>1. /\ z.status = "running" /\ z.code = x.code /\ z.ip = q /\ z.fp = s + 4
            /\ LinkX(T, Len(T), z.xp) /\ (c => z.exception \in Thrown) /\ Len(W) >= 4
        BY <1>1, <1>2, <1>3, <1>4, <2>2
      <3> QED BY <1>3, <2>4, <3>1, RunsOn
    <2>7. Passed(x, T, T)
      BY DEF Passed
    <2> QED BY <1>3, <2>1, <2>5, <2>6, <2>7 DEF Steps, Good
  <1> QED BY <1>5, <1>6

(* What Frees asks of a jump is what FreeDownTo needs.                     *)
LEMMA FreesTo ==
  ASSUME NEW p, NEW x, NEW T, NEW s, Ready(p, x, T, s), Settles(T), NEW q, NEW k, NEW c,
         Frees(p, x.code, q, Map(p, x.code, x.ip), k, c), c => x.exception \in Thrown
  PROVE  Dropping(p, x, T, s, q, k, c)
  <1>1. x.code \in DOMAIN Code[p] /\ Len(Map(p, x.code, x.ip)) \in Nat
    BY ReadyIs
  <1>2. q \in DOMAIN Shape[p][x.code] /\ k \in 4 .. Len(Map(p, x.code, x.ip))
    BY DEF Frees, Goes
  <1>3. q \in Nat
    BY <1>1, <1>2 DEF Ready, FitsMachine
  <1> QED BY <1>1, <1>2, <1>3 DEF Dropping

(* The fetch is a jump to the next instruction.                            *)
LEMMA AdvanceLands ==
  ASSUME NEW x
  PROVE  Advance(x) = Landing(x, x.ip + 1)
  BY DEF Advance, Landing

(* instruction_Jump, and a conditional jump that is taken.                 *)
LEMMA JumpSteps ==
  ASSUME NEW p, NEW x, NEW T, NEW s, Ready(p, x, T, s),
         Instr(p, x).op \in {"Jump", "JumpNonConditional", "JumpConditional", "JumpNonEqual"},
         NEW z, z = Landing(x, Instr(p, x).to), NEW y, y = FreeCount(z, Instr(p, x).n)
  PROVE  Steps(p, x, T, y)
  <1>1. Fits(p, x.code, x.ip) /\ Map(p, x.code, x.ip) = Shape[p][x.code][x.ip].words
        /\ Instr(p, x) = Code[p][x.code][x.ip]
    BY InstrFits DEF Map
  <1>2. PICK k : k = Len(Map(p, x.code, x.ip)) - Instr(p, x).n
    OBVIOUS
  <1>3. /\ Settled(Map(p, x.code, x.ip))
        /\ Frees(p, x.code, Instr(p, x).to, Map(p, x.code, x.ip), k, FALSE)
    BY <1>1, <1>2 DEF Fits
  <1>4. Settles(T)
    BY <1>3, SettledIs
  <1>5. Dropping(p, x, T, s, Instr(p, x).to, k, FALSE)
    BY <1>3, <1>4, FreesTo
  <1>6. Instr(p, x).n \in Nat
    BY ReadyIs DEF Instr
  <1> QED BY <1>2, <1>5, <1>6, FreeCountSteps

(* instruction_FreeStack and instruction_FreeStackLocal                    *)
LEMMA FreeStackSteps ==
  ASSUME NEW p, NEW x, NEW T, NEW s, Ready(p, x, T, s), NEW y,
         \/ Instr(p, x).op = "FreeStack" /\ y = FreeCount(Advance(x), Instr(p, x).n)
         \/ Instr(p, x).op = "FreeStackLocal" /\ y = FreeDownTo(Advance(x), x.fp + Instr(p, x).n)
  PROVE  Steps(p, x, T, y)
  <1>1. Fits(p, x.code, x.ip) /\ Map(p, x.code, x.ip) = Shape[p][x.code][x.ip].words
        /\ Instr(p, x) = Code[p][x.code][x.ip]
    BY InstrFits DEF Map
  <1>2. Settled(Map(p, x.code, x.ip))
    BY <1>1 DEF Fits
  <1>3. Settles(T) /\ x.fp = s + 4
    BY <1>2, SettledIs
  <1>4. Instr(p, x).n \in Nat /\ s \in Nat
    BY ReadyIs DEF Instr
  <1>5. PICK z : z = Landing(x, x.ip + 1)
    OBVIOUS
  <1>6. CASE Instr(p, x).op = "FreeStack" /\ y = FreeCount(Advance(x), Instr(p, x).n)
    <2>1. PICK k : k = Len(Map(p, x.code, x.ip)) - Instr(p, x).n
      OBVIOUS
    <2>2. Frees(p, x.code, x.ip + 1, Map(p, x.code, x.ip), k, FALSE)
      BY <1>1, <1>6, <2>1 DEF Fits
    <2>3. Dropping(p, x, T, s, x.ip + 1, k, FALSE)
      BY <1>3, <2>2, FreesTo
    <2>4. y = FreeCount(z, Instr(p, x).n)
      BY <1>5, <1>6, AdvanceLands
    <2> QED BY <1>4, <1>5, <2>1, <2>3, <2>4, FreeCountSteps
  <1>7. CASE Instr(p, x).op = "FreeStackLocal" /\ y = FreeDownTo(Advance(x), x.fp + Instr(p, x).n)
    <2>1. PICK k : k = 4 + Instr(p, x).n
      OBVIOUS
    <2>2. Frees(p, x.code, x.ip + 1, Map(p, x.code, x.ip), k, FALSE)
      BY <1>1, <1>7, <2>1 DEF Fits
    <2>3. Dropping(p, x, T, s, x.ip + 1, k, FALSE)
      BY <1>3, <2>2, FreesTo
    <2>4. x.fp + Instr(p, x).n = s + k
      BY <1>3, <1>4, <2>1
    <2>5. y = FreeDownTo(z, s + k)
      BY <1>5, <1>7, <2>4, AdvanceLands
    <2> QED BY <1>5, <2>3, <2>5, FreeDownSteps
  <1> QED BY <1>6, <1>7

(* The value of a switch is on the stack.                                  *)
LEMMA SwitchHolds ==
  ASSUME NEW p, NEW x, NEW T, NEW s, Ready(p, x, T, s), Instr(p, x).op = "JumpNonEqual"
  PROVE  Holds(x, x.fp + Instr(p, x).at[2], <<"number">>)
  <1>1. Fits(p, x.code, x.ip) /\ Map(p, x.code, x.ip) = Shape[p][x.code][x.ip].words
        /\ Instr(p, x) = Code[p][x.code][x.ip]
    BY InstrFits DEF Map
  <1>2. Instr(p, x).at[2] \in Nat /\ Local(Map(p, x.code, x.ip), Instr(p, x).at[2], <<"number">>)
    BY <1>1 DEF Fits
  <1>3. <<"number">> \in Seq(Kinds)
    BY DEF Kinds
  <1> QED BY <1>2, <1>3, LocalHolds

(* The exception on top of the stack becomes an object, or is freed with   *)
(* the words of the catch clause.                                          *)
LEMMA CastMissSteps ==
  ASSUME NEW p, NEW x, NEW T, NEW s, Ready(p, x, T, s), Instr(p, x).op = "CastObject",
         NEW z, z = Landing(x, Instr(p, x).to), NEW y, y = FreeCount(z, Instr(p, x).n)
  PROVE  Steps(p, x, T, y)
  <1> DEFINE W == Map(p, x.code, x.ip)
  <1>1. Fits(p, x.code, x.ip) /\ W = Shape[p][x.code][x.ip].words
        /\ Instr(p, x) = Code[p][x.code][x.ip] /\ Caught(p, x.code, x.ip) = Shape[p][x.code][x.ip].caught
    BY InstrFits DEF Map, Caught
  <1>2. PICK k : k = Len(W) - Instr(p, x).n
    OBVIOUS
  <1>3. /\ Len(W) >= 5 /\ W[Len(W)] = Exception
        /\ Frees(p, x.code, Instr(p, x).to, W, k, Caught(p, x.code, x.ip))
    BY <1>1, <1>2 DEF Fits
  <1>4. Settles(T)
    <2>1. 0 \in Nat /\ 0 < Len(W) /\ Len(T) - 0 = Len(T) /\ Len(W) - 0 = Len(W)
      <3>1. Len(W) \in Nat /\ Len(T) \in Nat
        BY ReadyIs
      <3> HIDE DEF W
      <3> QED BY <1>3, <3>1
    <2>2. Matches(T[Len(T) - 0], W[Len(W) - 0], s, x.code)
      BY <2>1, TopMapped
    <2>3. Exception.is = "thrown"
      BY DEF Exception, Word
    <2> QED BY <1>3, <2>1, <2>2, <2>3 DEF Settles, Matches
  <1>5. Caught(p, x.code, x.ip) => x.exception \in Thrown
    BY ReadyIs
  <1>6. Dropping(p, x, T, s, Instr(p, x).to, k, Caught(p, x.code, x.ip))
    BY <1>3, <1>4, <1>5, FreesTo
  <1>7. Instr(p, x).n \in Nat
    BY ReadyIs DEF Instr
  <1> QED BY <1>2, <1>6, <1>7, FreeCountSteps

(* A stack that is cut and grown again, with the same descriptors.         *)
LEMMA PassedBelow ==
  ASSUME NEW x, NEW T, NEW U, NEW k \in Nat, SameTo(T, U, k),
         \A j \in k + 1 .. Len(T) : T[j].is # "xp", Len(T) \in Nat
  PROVE  Passed(x, T, U)
  <1>1. ASSUME NEW d \in Nat, IsTry(T, d) PROVE IsTry(U, d)
    <2>1. d + 5 <= Len(T) /\ T[d + 5].is = "xp"
      BY <1>1 DEF IsTry
    <2>2. ~(d + 5 \in k + 1 .. Len(T))
      BY <2>1
    <2>3. d + 5 \in 1 .. k
      BY <2>1, <2>2
    <2> QED BY <2>1, <2>3 DEF IsTry, SameTo
  <1> QED BY <1>1 DEF Passed

(* Words are popped that are neither an object nor its chain word.         *)
LEMMA AliveCut ==
  ASSUME NEW st, NEW n \in Nat, NEW k \in 0 .. n, \A j \in k + 1 .. n : st[j].is # "object"
  PROVE  Alive(st, n) = Alive(st, k)
  <1>1. \A y \in 0 .. n - 1 : y \notin 0 .. k - 1 => y + 1 \in k + 1 .. n
    OBVIOUS
  <1>2. \A y \in 0 .. k - 1 : y \in 0 .. n - 1
    OBVIOUS
  <1>3. AliveSet(st, n) = AliveSet(st, k)
    BY <1>1, <1>2 DEF AliveSet
  <1> QED BY <1>3 DEF Alive

Pops(p, x, T, k) ==
    /\ Balanced(p, x, T) /\ k \in 0 .. Len(T)
    /\ \A j \in k + 1 .. Len(T) : T[j].is \notin {"object", "chain"}

(* The machine after words that are no objects were popped.                *)
LEMMA PoppedIs ==
  ASSUME NEW p, NEW x, NEW T, NEW k, Pops(p, x, T, k),
         NEW U, IsCut(T, k, U), NEW y, y = Truncate(x, k)
  PROVE  /\ Balanced(p, y, U) /\ y.code = x.code /\ y.ip = x.ip /\ y.fp = x.fp /\ y.xp = x.xp
         /\ y.ret = x.ret /\ y.exception = x.exception /\ y.status = x.status /\ y.yp = x.yp
         /\ y.live = x.live /\ \A i \in 1 .. k : y.stack[i] = x.stack[i]
  <1>1. /\ Balanced(p, x, T) /\ k \in 0 .. Len(T)
        /\ \A j \in k + 1 .. Len(T) : T[j].is \notin {"object", "chain"}
    BY DEF Pops
  <1>2. /\ Len(T) \in Nat /\ Len(x.stack) = Len(T) /\ x \in Machines(p) /\ LinkY(T, Len(T), x.yp)
        /\ x.live = Alive(x.stack, Len(T)) /\ x.stack \in Seq(StackWords(p))
    BY <1>1, BalancedIs DEF Balanced, Machines
  <1>3. k \in Nat /\ k <= Len(T)
    BY <1>1, <1>2
  <1>4. \A j \in k + 1 .. Len(T) : x.stack[j].is # "object"
    <2> TAKE j \in k + 1 .. Len(T)
    <2>1. j \in 1 .. Len(T)
      BY <1>2, <1>3
    <2>2. x.stack[j].is = T[j].is
      BY <1>1, <2>1, BalancedIs
    <2> QED BY <1>1, <2>2
  <1>5. x.live = Alive(x.stack, k)
    BY <1>1, <1>2, <1>4, AliveCut
  <1>6. LinkY(T, k, x.yp)
    BY <1>1, <1>2, LinkDown DEF IsLinked
  <1>7. x.yp \in Int /\ x.live \in Int
    BY <1>2 DEF Machines
  <1>8. y = [x EXCEPT !.stack = SubSeq(x.stack, 1, k)]
    BY <1>1, TruncateIs
  <1>9. PICK u : u = Freed(x, k, x.yp)
    OBVIOUS
  <1>10. y = u
    <2> DEFINE st == SubSeq(x.stack, 1, k)
    <2>1. u = [x EXCEPT !.stack = st, !.yp = x.yp, !.live = x.live]
      BY <1>5, <1>9 DEF Freed
    <2>2. y = [x EXCEPT !.stack = st]
      BY <1>8
    <2> HIDE DEF st
    <2> QED BY <1>2, <2>1, <2>2 DEF Machines
  <1>11. /\ u.stack = SubSeq(x.stack, 1, k)
         /\ u.code = x.code /\ u.ip = x.ip /\ u.fp = x.fp /\ u.xp = x.xp
         /\ u.ret = x.ret /\ u.exception = x.exception /\ u.status = x.status /\ u.yp = x.yp
         /\ u.live = Alive(x.stack, k)
    BY <1>1, <1>2, <1>7, <1>9, FreedIs
  <1>12. Balanced(p, u, U)
    BY <1>1, <1>6, <1>9, FreedBalanced DEF IsCut
  <1>13. \A i \in 1 .. k : u.stack[i] = x.stack[i]
    BY <1>1, <1>2, <1>11, CutIs
  <1> QED BY <1>5, <1>10, <1>11, <1>12, <1>13

(* The exception is replaced by an object of the type of the clause.       *)
Counting(z) == [z EXCEPT !.live = @ + 1]

(* The machine after an object more was counted.                           *)
LEMMA CountingIs ==
  ASSUME NEW p, NEW z \in Machines(p), NEW y, y = Counting(z)
  PROVE  /\ y \in Machines(p) /\ y.code = z.code /\ y.ip = z.ip /\ y.fp = z.fp /\ y.xp = z.xp
         /\ y.stack = z.stack /\ y.ret = z.ret /\ y.exception = z.exception
         /\ y.status = z.status /\ y.yp = z.yp /\ y.live = z.live + 1
  BY DEF Counting, Machines

(* instruction_CastObject of an exception of the type.                     *)
LEMMA CastHitSteps ==
  ASSUME NEW p, NEW x, NEW T, NEW s, Ready(p, x, T, s), Instr(p, x).op = "CastObject",
         NEW words, OneWord(words, Word("object", 1)),
         NEW z, z = Truncate(Advance(x), Sp(x) - 1), NEW y, y = Counting(Push(z, words))
  PROVE  Steps(p, x, T, y)
  <1> DEFINE W == Map(p, x.code, x.ip)
             N == Len(W)
             n == Len(T)
             K == n - 1
             V == SubSeq(W, 1, N - 1)
             C == SubSeq(T, 1, K)
             X == <<Plain("object")>>
             U == Grown(C, X, s, x.code)
  <1>1. Fits(p, x.code, x.ip) /\ W = Shape[p][x.code][x.ip].words
        /\ Instr(p, x) = Code[p][x.code][x.ip]
    BY InstrFits DEF Map
  <1>2. /\ N >= 5 /\ W[N] = Exception /\ Settled(V)
        /\ Goes(p, x.code, x.ip + 1, Append(V, Plain("object")), FALSE)
    BY <1>1 DEF Fits
  <1>3. /\ x \in Machines(p) /\ n \in Nat /\ W \in Seq(MapWords) /\ N \in Nat
        /\ LinkX(T, n, x.xp) /\ LinkY(T, n, x.yp) /\ Balanced(p, x, T) /\ s + N = n /\ s \in Nat
        /\ x.code \in DOMAIN Code[p] /\ Mapped(T, s, n, x.code, W)
        /\ T \in Seq(Slots(p)) /\ x.ip \in Nat /\ x.status = "running"
        /\ x.stack \in Seq(StackWords(p)) /\ Len(x.stack) = n /\ Sp(x) = n
        /\ (N >= 4 => x.fp = s + 4)
    BY ReadyIs DEF Ready
  <1>4. T[n].is = "thrown"
    <2>1. 0 \in Nat /\ 0 < N /\ n - 0 = n /\ N - 0 = N
      BY <1>2, <1>3
    <2>2. Matches(T[n - 0], W[N - 0], s, x.code)
      BY <2>1, TopMapped
    <2>3. Exception.is = "thrown"
      BY DEF Exception, Word
    <2> QED BY <1>2, <2>1, <2>2, <2>3 DEF Matches
  <1>5. PICK a : a = Advance(x)
    OBVIOUS
  <1>6. /\ a \in Machines(p) /\ a.code = x.code /\ a.ip = x.ip + 1 /\ a.fp = x.fp /\ a.xp = x.xp
        /\ a.stack = x.stack /\ a.exception = x.exception
        /\ a.status = x.status /\ a.yp = x.yp /\ a.live = x.live
    <2>1. x.ip + 1 \in Int /\ x \in Machines(p)
      BY <1>3
    <2>2. a = Landing(x, x.ip + 1)
      BY <1>5, AdvanceLands
    <2> HIDE DEF W, N, n, K, V, C, X, U
    <2> QED BY <2>1, <2>2, LandingIs
  <1>7. Balanced(p, a, T)
    BY <1>3, <1>6, RebalancedOther
  <1>8. IsCut(T, K, C)
    BY DEF IsCut
  <1>9. Plain("object") \in MapWords /\ Plain("object").is = "object" /\ Plain("object").v = 0
        /\ Word("object", 1) \in StackWords(p) /\ Word("object", 1).is = "object" /\ Word("object", 1).v = 1
    <2>1. "object" \in Kinds
      BY DEF Kinds
    <2>2. Plain("object") \in MapWords /\ Word("object", 1) \in StackWords(p)
      BY <2>1, WordTyped DEF Plain
    <2> QED BY <2>2 DEF Plain, Word
  <1>10. Fills(X, X) /\ X \in Seq(MapWords) /\ Len(X) = 1 /\ X[1] = Plain("object")
    BY <1>9 DEF Fills
  <1>11. words \in Seq(StackWords(p)) /\ Len(words) = 1 /\ words[1] = Word("object", 1)
    BY <1>9 DEF OneWord
  <1>12. N - 1 \in 0 .. N /\ V \in Seq(MapWords) /\ Len(V) = N - 1
    <2>1. N - 1 \in 0 .. Len(W)
      BY <1>2, <1>3
    <2>2. W \in Seq(MapWords)
      BY <1>3
    <2> HIDE DEF W
    <2>3. Len(SubSeq(W, 1, N - 1)) = N - 1 /\ SubSeq(W, 1, N - 1) \in Seq(MapWords)
      BY <2>1, <2>2, CutIs
    <2> QED BY <2>1, <2>3
  <1>13. Append(V, Plain("object")) = V \o X
    BY <1>9, <1>12, AppendIs
  <1>14. Mapped(C, s, K, x.code, V)
    <2>1. s + (N - 1) = K
      BY <1>3
    <2>2. Mapped(SubSeq(T, 1, s + (N - 1)), s, s + (N - 1), x.code, SubSeq(W, 1, N - 1))
      <3>1. N - 1 \in 0 .. Len(W)
        BY <1>12
      <3> QED BY <1>3, <3>1, MappedCut
    <2> QED BY <2>1, <2>2
  <1>15. V[N - 1].is # "object"
    BY <1>2, <1>12 DEF Settled
  <1> HIDE DEF W, X, U, V, C, N, n, K
  <1>16. K \in Nat /\ K + 1 = n /\ K \in 0 .. n /\ K = s + (N - 1) /\ N - 1 \in 1 .. N - 1 /\ K >= 4
         /\ N - 1 + 1 >= 4
    BY <1>2, <1>3 DEF K
  <1>17. /\ C \in Seq(Slots(p)) /\ Len(C) = K /\ SameTo(T, C, K) /\ \A i \in 1 .. K : C[i] = T[i]
    <2>1. K \in 0 .. Len(T)
      BY <1>16 DEF n
    <2> QED BY <1>3, <1>8, <2>1, CutSame
  <1>18. /\ Balanced(p, z, C) /\ z.code = x.code /\ z.ip = x.ip + 1 /\ z.fp = x.fp /\ z.xp = x.xp
         /\ z.exception = x.exception /\ z.status = x.status /\ z.yp = x.yp
         /\ z.live = x.live /\ \A i \in 1 .. K : z.stack[i] = x.stack[i]
    <2>1. \A j \in K + 1 .. n : T[j].is \notin {"object", "chain"}
      BY <1>4, <1>16
    <2>2. Pops(p, a, T, K)
      BY <1>7, <1>16, <2>1 DEF Pops, n
    <2>3. z = Truncate(a, K)
      BY <1>3, <1>5 DEF K
    <2> QED BY <1>6, <1>8, <2>2, <2>3, PoppedIs
  <1>19. C[K].is # "object"
    <2>1. N - 1 \in 1 .. Len(V)
      BY <1>12, <1>16
    <2>2. Matches(C[s + (N - 1)], V[N - 1], s, x.code)
      BY <1>14, <2>1 DEF Mapped
    <2> QED BY <1>15, <1>16, <2>2 DEF Matches
  <1>20. z \in Machines(p) /\ z.stack \in Seq(StackWords(p)) /\ Len(z.stack) = K
    BY <1>17, <1>18, BalancedIs DEF Balanced, Machines
  <1>21. PICK w : w = Push(z, words)
    OBVIOUS
  <1>22. /\ w \in Machines(p) /\ w.stack = z.stack \o words /\ w.code = z.code /\ w.ip = z.ip
         /\ w.fp = z.fp /\ w.xp = z.xp /\ w.exception = z.exception
         /\ w.status = z.status /\ w.yp = z.yp /\ w.live = z.live
    <2>1. z \in Machines(p) /\ words \in Seq(StackWords(p))
      BY <1>11, <1>20
    <2>2. /\ Push(z, words) \in Machines(p) /\ Push(z, words).stack = z.stack \o words
          /\ Push(z, words).code = z.code /\ Push(z, words).ip = z.ip
          /\ Push(z, words).fp = z.fp /\ Push(z, words).xp = z.xp
          /\ Push(z, words).exception = z.exception /\ Push(z, words).status = z.status
          /\ Push(z, words).yp = z.yp /\ Push(z, words).live = z.live
      BY ZenonT(30), <2>1, PushIs
    <2> QED BY <1>21, <2>2
  <1>23. /\ y \in Machines(p) /\ y.stack = w.stack /\ y.code = x.code /\ y.ip = x.ip + 1
         /\ y.fp = x.fp /\ y.xp = x.xp /\ y.exception = x.exception
         /\ y.status = "running" /\ y.yp = x.yp /\ y.live = x.live + 1
    <2>1. y = Counting(w)
      BY <1>21
    <2>2. /\ y \in Machines(p) /\ y.code = w.code /\ y.ip = w.ip /\ y.fp = w.fp /\ y.xp = w.xp
          /\ y.stack = w.stack /\ y.exception = w.exception
          /\ y.status = w.status /\ y.yp = w.yp /\ y.live = w.live + 1
      BY <1>22, <2>1, CountingIs
    <2> QED BY <1>3, <1>18, <1>22, <2>2
  <1>24. GrownBy(p, C, U, X, s, x.code)
    BY <1>3, <1>10, <1>17, SlotsGrown DEF U
  <1>25. /\ U \in Seq(Slots(p)) /\ Len(U) = n /\ SameTo(C, U, K) /\ U[n].is = "object" /\ U[n].s = s
    <2>1. /\ U \in Seq(Slots(p)) /\ Len(U) = K + 1 /\ SameTo(C, U, K)
          /\ \A j \in 1 .. 1 : U[K + j] = [is |-> X[j].is, v |-> X[j].v, s |-> s, f |-> x.code]
      BY <1>10, <1>17, <1>24 DEF GrownBy
    <2>2. U[K + 1] = [is |-> X[1].is, v |-> X[1].v, s |-> s, f |-> x.code]
      BY <2>1
    <2> QED BY <1>9, <1>10, <1>16, <2>1, <2>2
  <1>26. \A i \in 1 .. K : U[i] = C[i]
    BY <1>25 DEF SameTo
  <1>27. /\ Len(y.stack) = n /\ y.stack[n] = Word("object", 1)
         /\ \A i \in 1 .. K : y.stack[i] = z.stack[i]
    <2>1. /\ Len(z.stack \o words) = Len(z.stack) + Len(words)
          /\ \A i \in 1 .. Len(z.stack) : (z.stack \o words)[i] = z.stack[i]
          /\ \A j \in 1 .. Len(words) : (z.stack \o words)[Len(z.stack) + j] = words[j]
      BY <1>11, <1>20, GrownIs
    <2>2. y.stack = z.stack \o words
      BY <1>22, <1>23
    <2>3. 1 \in 1 .. Len(words)
      BY <1>11
    <2> QED BY <1>11, <1>16, <1>20, <2>1, <2>2, <2>3
  <1>28. SlotOK(p, y.stack, U, n)
    <2>1. n \in Nat /\ n > 1 /\ n - 1 = K /\ K \in 1 .. K /\ s < n
      BY <1>3, <1>16
    <2>2. U[n - 1].is # "object"
      BY <1>19, <1>26, <2>1
    <2>3. U[n].s \in Nat /\ U[n].s < n /\ y.stack[n].is = U[n].is /\ y.stack[n].v \in {0, 1}
      BY <1>3, <1>9, <1>25, <1>27, <2>1
    <2> QED BY <1>25, <2>1, <2>2, <2>3, PlainSlot
  <1>29. LinkX(U, n, y.xp) /\ LinkY(U, n, y.yp)
    <2>1. LinkX(T, K, x.xp) /\ LinkY(T, K, x.yp)
      <3>1. \A j \in K + 1 .. n : T[j].is # "xp" /\ ~IsLinked(T[j])
        BY <1>4, <1>16 DEF IsLinked
      <3> QED BY <1>3, <1>16, <3>1, LinkDown
    <2>2. SameTo(T, U, K)
      BY <1>17, <1>25, <1>26 DEF SameTo
    <2>3. LinkX(U, K, x.xp) /\ LinkY(U, K, x.yp)
      <3>1. K <= K
        BY <1>16
      <3> QED BY <1>16, <2>1, <2>2, <3>1, LinkKept
    <2>4. \A j \in K + 1 .. n : U[j].is # "xp" /\ ~IsLinked(U[j])
      BY <1>16, <1>25 DEF IsLinked
    <2> QED BY <1>3, <1>16, <1>23, <2>3, <2>4, LinkDown
  <1>30. y.live = Alive(y.stack, n)
    <2>1. Alive(y.stack, K + 1) = Alive(y.stack, K) + 1
      <3>1. y.stack[K + 1].is = "object" /\ y.stack[K + 1].v = 1 /\ K \in Nat
        BY <1>9, <1>16, <1>27
      <3> QED BY <3>1, AliveNext
    <2>2. Alive(y.stack, K) = Alive(z.stack, K)
      <3>1. K \in Nat /\ \A i \in 1 .. K : y.stack[i] = z.stack[i]
        BY <1>16, <1>27
      <3> QED BY <3>1, AliveSame
    <2>3. z.live = Alive(z.stack, K)
      BY <1>17, <1>18 DEF Balanced
    <2> QED BY <1>16, <1>18, <1>23, <2>1, <2>2, <2>3
  <1>31. Balanced(p, y, U)
    <2>1. KeptTo(z.stack, y.stack, C, K)
      BY <1>27 DEF KeptTo
    <2>2. \A i \in K + 1 .. Len(U) : SlotOK(p, y.stack, U, i)
      BY <1>16, <1>25, <1>28
    <2> QED BY <1>16, <1>18, <1>23, <1>25, <1>27, <1>29, <1>30, <2>1, <2>2, Rebalanced
  <1>32. Runs(p, y, U, s)
    <2>1. Mapped(U, s, Len(C) + Len(X), x.code, V \o X)
      <3>1. Mapped(C, s, Len(C), x.code, V)
        BY <1>14, <1>17
      <3> QED BY <1>3, <1>10, <1>17, <3>1, MappedGrown DEF U
    <2>2. Len(C) + Len(X) = Len(U)
      BY <1>10, <1>16, <1>17, <1>25
    <2>3. Len(V \o X) >= 4
      <3>1. Len(V \o X) = Len(V) + Len(X)
        BY <1>10, <1>12, GrownIs
      <3> QED BY <1>10, <1>12, <1>16, <3>1
    <2>4. Goes(p, x.code, x.ip + 1, V \o X, FALSE)
      BY <1>2, <1>13
    <2>5. LinkX(U, Len(U), y.xp) /\ y.fp = s + 4
      BY <1>2, <1>3, <1>23, <1>25, <1>29
    <2>6. Mapped(U, s, Len(U), x.code, V \o X)
      BY <2>1, <2>2
    <2> QED BY <1>3, <1>23, <2>3, <2>4, <2>5, <2>6, RunsOn
  <1>33. Passed(x, T, U)
    <2>1. SameTo(T, U, K)
      BY <1>17, <1>25, <1>26 DEF SameTo
    <2>2. \A j \in K + 1 .. Len(T) : T[j].is # "xp"
      BY <1>4, <1>16 DEF n
    <2> QED BY <1>3, <1>16, <2>1, <2>2, PassedBelow DEF n
  <1> QED BY <1>3, <1>31, <1>32, <1>33 DEF Steps, Good

-----------------------------------------------------------------------------
(* Leaving a function.                                                     *)

(* The words of the head of a frame.                                       *)
LEMMA HeadIs ==
  ASSUME NEW p, NEW x, NEW T, NEW s, Ready(p, x, T, s), Len(Map(p, x.code, x.ip)) >= 4
  PROVE  /\ s + 4 <= Len(T) /\ T[s + 1].is = "ip" /\ T[s + 2].is = "code" /\ T[s + 3].is = "dp"
         /\ T[s + 4].is = "fp" /\ T[s + 4].s = s
         /\ x.stack[s + 3].is = "dp" /\ x.stack[s + 4].is = "fp"
         /\ x.stack[s + 4].v = CallerFp(T, s)
  <1> DEFINE W == Map(p, x.code, x.ip)
  <1>1. /\ W \in Seq(MapWords) /\ Len(W) \in Nat /\ s + Len(W) = Len(T) /\ s \in Nat /\ Len(T) \in Nat
        /\ \A j \in 1 .. Len(W) : Matches(T[s + j], W[j], s, x.code) /\ s + j \in 1 .. Len(T)
        /\ Framed(W) /\ Balanced(p, x, T)
    BY ReadyIs DEF Ready
  <1>2. Len(W) >= 4
    OBVIOUS
  <1>3. W[1].is = "ip" /\ W[2].is = "code" /\ W[3].is = "dp" /\ W[4].is = "fp"
    BY <1>1, <1>2, FramedIs
  <1> HIDE DEF W
  <1>4. 1 \in 1 .. Len(W) /\ 2 \in 1 .. Len(W) /\ 3 \in 1 .. Len(W) /\ 4 \in 1 .. Len(W)
    BY <1>1, <1>2
  <1>5. /\ T[s + 1].is = "ip" /\ T[s + 2].is = "code" /\ T[s + 3].is = "dp"
        /\ T[s + 4].is = "fp" /\ T[s + 4].s = s
    BY <1>1, <1>3, <1>4 DEF Matches
  <1>6. s + 3 \in 1 .. Len(T) /\ s + 4 \in 1 .. Len(T) /\ s + 4 <= Len(T)
    BY <1>1, <1>2
  <1>7. x.stack[s + 3].is = "dp" /\ x.stack[s + 4].is = "fp" /\ SlotOK(p, x.stack, T, s + 4)
    BY <1>1, <1>5, <1>6, BalancedIs
  <1>8. x.stack[s + 4].v = CallerFp(T, s)
    BY <1>5, <1>7 DEF SlotOK
  <1> QED BY <1>5, <1>6, <1>7, <1>8

(* instruction_LeaveFunc finds the head of the frame.                      *)
LEMMA LeaveFuncSteps ==
  ASSUME NEW p, NEW x, NEW T, NEW s, Ready(p, x, T, s), Instr(p, x).op = "LeaveFunc",
         NEW z, z = Truncate(FreeFor(Advance(x), x.fp), x.fp - 2),
         NEW y, y = WithFp(z, At(x, x.fp - 1).v)
  PROVE  Holds(x, x.fp - 2, <<"dp", "fp">>) /\ Steps(p, x, T, y)
  <1> DEFINE W == Map(p, x.code, x.ip)
             N == Len(W)
             n == Len(T)
             K == s + 2
             U == SubSeq(T, 1, K)
  <1>1. Fits(p, x.code, x.ip) /\ W = Shape[p][x.code][x.ip].words
        /\ Instr(p, x) = Code[p][x.code][x.ip]
    BY InstrFits DEF Map
  <1>2. /\ N >= 4 /\ \A j \in 5 .. N : W[j].is \in {"number", "object", "chain", "thrown"}
        /\ Settled(W) /\ Goes(p, x.code, x.ip + 1, ReturnAddress, FALSE)
    BY <1>1 DEF Fits
  <1>3. /\ x \in Machines(p) /\ n \in Nat /\ W \in Seq(MapWords) /\ N \in Nat
        /\ LinkX(T, n, x.xp) /\ LinkY(T, n, x.yp) /\ Balanced(p, x, T) /\ s + N = n /\ s \in Nat
        /\ x.code \in DOMAIN Code[p] /\ Framed(W)
        /\ \A j \in 1 .. N : Matches(T[s + j], W[j], s, x.code) /\ s + j \in 1 .. n
        /\ T \in Seq(Slots(p)) /\ x.ip \in Nat /\ x.status = "running"
        /\ x.stack \in Seq(StackWords(p)) /\ Len(x.stack) = n /\ Sp(x) = n
    BY ReadyIs DEF Ready
  <1>4. Settles(T) /\ x.fp = s + 4
    BY <1>2, SettledIs
  <1>5. /\ s + 4 <= n /\ T[s + 1].is = "ip" /\ T[s + 2].is = "code" /\ T[s + 3].is = "dp"
        /\ T[s + 4].is = "fp" /\ T[s + 4].s = s
        /\ x.stack[s + 3].is = "dp" /\ x.stack[s + 4].is = "fp"
        /\ x.stack[s + 4].v = CallerFp(T, s)
    BY <1>2, HeadIs
  <1>6. PICK a : a = Advance(x)
    OBVIOUS
  <1>7. IsCut(T, K, U)
    BY DEF IsCut
  <1>a. W[1] = Plain("ip") /\ W[2] = Plain("code")
    <2>1. CASE W = ReturnAddress
      BY <2>1 DEF ReturnAddress
    <2>2. CASE Len(W) >= 4 /\ SubSeq(W, 1, 4) = FrameHead
      <3>1. 4 \in 0 .. Len(W) /\ W \in Seq(MapWords)
        BY <1>3, <2>2
      <3> HIDE DEF W
      <3>2. \A i \in 1 .. 4 : SubSeq(W, 1, 4)[i] = W[i]
        BY <3>1, CutIs
      <3>3. W[1] = FrameHead[1] /\ W[2] = FrameHead[2]
        BY <2>2, <3>2
      <3> QED BY <3>3 DEF FrameHead
    <2> QED BY <1>3, <2>1, <2>2 DEF Framed
  <1> HIDE DEF W, N, n, K, U
  <1>8. /\ a \in Machines(p) /\ a.code = x.code /\ a.ip = x.ip + 1 /\ a.fp = x.fp /\ a.xp = x.xp
        /\ a.stack = x.stack /\ a.exception = x.exception
        /\ a.status = x.status /\ a.yp = x.yp /\ a.live = x.live
    <2>1. x.ip + 1 \in Int /\ x \in Machines(p)
      BY <1>3
    <2>2. a = Landing(x, x.ip + 1)
      BY <1>6, AdvanceLands
    <2> QED BY SMTT(30), <2>1, <2>2, LandingIs
  <1>9. Balanced(p, a, T)
    BY <1>3, <1>8, RebalancedOther
  <1>10. /\ s + 4 \in 0 .. n /\ K \in 0 .. n /\ K = s + 2 /\ K \in Nat /\ s + 4 \in Nat /\ K <= s + 4
         /\ K \in 0 .. s + 4
    BY <1>3, <1>5 DEF K
  <1>11. s + 4 < n => T[s + 4 + 1].is # "chain"
    <2> SUFFICES ASSUME s + 4 < n, T[s + 5].is = "chain" PROVE FALSE
      BY <1>3
    <2>1. s + 5 \in 1 .. Len(T) /\ (s + 5) - 1 = s + 4
      BY <1>3 DEF n
    <2>2. SlotOK(p, x.stack, T, s + 5)
      BY <1>3, <2>1, BalancedIs
    <2>3. ChainOK(x.stack, T, s + 5)
      BY <2>2 DEF SlotOK
    <2>4. T[s + 4].is = "object"
      BY <2>1, <2>3 DEF ChainOK
    <2> QED BY <1>5, <2>4
  <1>12. PICK yp \in Int :
            /\ FreeFor(a, s + 4) = [a EXCEPT !.yp = yp, !.live = Alive(a.stack, s + 4)]
            /\ LinkY(T, s + 4, yp)
    <2>1. s + 4 \in 0 .. Len(T) /\ (s + 4 < Len(T) => T[s + 4 + 1].is # "chain")
      BY <1>10, <1>11 DEF n
    <2> QED BY <1>4, <1>9, <2>1, FreeForIs
  <1>13. LinkY(T, K, yp)
    <2>1. \A j \in K + 1 .. s + 4 : ~IsLinked(T[j])
      BY <1>3, <1>5 DEF IsLinked, K
    <2> QED BY <1>10, <1>12, <2>1, LinkDown
  <1>14. Alive(a.stack, s + 4) = Alive(a.stack, K)
    <2>1. \A j \in K + 1 .. s + 4 : a.stack[j].is # "object"
      <3>1. \A j \in K + 1 .. s + 4 : j = s + 3 \/ j = s + 4
        BY <1>3 DEF K
      <3>2. a.stack[s + 3].is = "dp" /\ a.stack[s + 4].is = "fp"
        BY <1>5, <1>8
      <3> QED BY <3>1, <3>2
    <2> QED BY <1>10, <2>1, AliveCut
  <1>15. PICK u : u = Freed(a, K, yp)
    OBVIOUS
  <1>16. z = u
    <2>1. z = Truncate(FreeFor(a, s + 4), K)
      <3>1. x.fp = s + 4 /\ x.fp - 2 = K
        BY <1>3, <1>4, <1>10
      <3> QED BY <1>6, <3>1
    <2>2. (IF K < 0 THEN 0 ELSE K) = K
      BY <1>10
    <2> DEFINE live == Alive(a.stack, K)
               st == SubSeq(a.stack, 1, K)
    <2>3. FreeFor(a, s + 4) = [a EXCEPT !.yp = yp, !.live = live]
      BY <1>12, <1>14
    <2>4. u = [a EXCEPT !.stack = st, !.yp = yp, !.live = live]
      BY <1>15 DEF Freed
    <2>5. Truncate([a EXCEPT !.yp = yp, !.live = live], K) = [a EXCEPT !.stack = st, !.yp = yp, !.live = live]
      <3> HIDE DEF live
      <3> QED BY <1>8, <2>2 DEF Truncate, Machines
    <2> QED BY <2>1, <2>3, <2>4, <2>5
  <1>17. Balanced(p, u, U)
    BY <1>9, <1>10, <1>13, <1>15, FreedBalanced DEF U, n
  <1>18. /\ u \in Machines(p) /\ u.code = x.code /\ u.ip = x.ip + 1 /\ u.xp = x.xp
         /\ u.exception = x.exception /\ u.status = "running"
    <2>1. K \in 0 .. Len(a.stack)
      BY <1>3, <1>8, <1>10
    <2>2. /\ u \in Machines(p) /\ u.code = a.code /\ u.ip = a.ip /\ u.xp = a.xp
          /\ u.exception = a.exception /\ u.status = a.status
      BY <1>8, <1>15, <2>1, FreedIs
    <2> QED BY <1>3, <1>8, <2>2
  <1>19. PICK fp : fp = CallerFp(T, s)
    OBVIOUS
  <1>20. y = WithFp(u, fp)
    <2>1. At(x, x.fp - 1).v = fp
      <3>1. x.fp - 1 + 1 = s + 4
        BY <1>3, <1>4
      <3> QED BY <1>5, <1>19, <3>1 DEF At
    <2> QED BY <1>16, <2>1
  <1>21. fp \in Int
    <2>1. CASE s = 0
      BY <1>19, <2>1 DEF CallerFp
    <2>2. CASE s # 0
      <3>1. s \in 1 .. Len(T)
        BY <1>3, <1>5, <2>2 DEF n
      <3>2. T[s].s \in Nat
        BY <1>3, <3>1, BalancedIs
      <3> QED BY <1>19, <2>2, <3>2 DEF CallerFp
    <2> QED BY <2>1, <2>2
  <1>22. /\ y \in Machines(p) /\ y.code = x.code /\ y.ip = x.ip + 1 /\ y.fp = fp /\ y.xp = x.xp
         /\ y.stack = u.stack /\ y.status = "running" /\ y.yp = u.yp /\ y.live = u.live
    <2>1. PICK v : v = WithFp(u, fp)
      OBVIOUS
    <2>2. /\ v \in Machines(p) /\ v.code = u.code /\ v.ip = u.ip /\ v.fp = fp /\ v.xp = u.xp
          /\ v.stack = u.stack /\ v.status = u.status /\ v.yp = u.yp /\ v.live = u.live
      BY <1>18, <1>21, <2>1, WithFpIs
    <2> QED BY <1>18, <1>20, <2>1, <2>2
  <1>23. Balanced(p, y, U)
    BY <1>17, <1>22, RebalancedOther
  <1>24. Len(U) = K /\ SameTo(T, U, K) /\ \A i \in 1 .. K : U[i] = T[i]
    <2>1. K \in 0 .. Len(T)
      BY <1>10 DEF n
    <2> QED BY <1>3, <1>7, <2>1, CutSame
  <1>25. \A j \in K + 1 .. n : T[j].is # "xp"
    <2> TAKE j \in K + 1 .. n
    <2>1. CASE j <= s + 4
      <3>1. j = s + 3 \/ j = s + 4
        BY <1>3, <1>10, <2>1
      <3> QED BY <1>5, <3>1
    <2>2. CASE j > s + 4
      <3>1. j - s \in 5 .. N /\ j - s \in 1 .. N /\ s + (j - s) = j
        BY <1>3, <1>10, <2>2
      <3>2. T[s + (j - s)].is = W[j - s].is
        BY <1>3, <3>1 DEF Matches
      <3>3. W[j - s].is \in {"number", "object", "chain", "thrown"}
        BY <1>2, <3>1
      <3> QED BY <3>1, <3>2, <3>3
    <2> QED BY <1>3, <1>10, <2>1, <2>2
  <1>26. LinkX(U, K, y.xp)
    <2>1. LinkX(T, K, x.xp)
      BY <1>3, <1>10, <1>25, LinkDown
    <2>2. K <= K
      BY <1>10
    <2> QED BY <1>10, <1>22, <1>24, <2>1, <2>2, LinkKept
  <1>27. Runs(p, y, U, s)
    <2>1. x.ip + 1 \in DOMAIN Shape[p][x.code] /\ Map(p, x.code, x.ip + 1) = ReturnAddress
          /\ ~Caught(p, x.code, x.ip + 1)
      BY <1>2 DEF Goes, Map, Caught
    <2>2. Mapped(U, s, K, x.code, ReturnAddress)
      <3>1. ReturnAddress \in Seq(MapWords) /\ Len(ReturnAddress) = 2
            /\ ReturnAddress[1] = Plain("ip") /\ ReturnAddress[2] = Plain("code")
        <4>1. "ip" \in Kinds /\ "code" \in Kinds
          BY DEF Kinds
        <4>2. Plain("ip") \in MapWords /\ Plain("code") \in MapWords
          BY <4>1, WordTyped DEF Plain
        <4> QED BY <4>2 DEF ReturnAddress
      <3>2. Matches(U[s + 1], Plain("ip"), s, x.code) /\ Matches(U[s + 2], Plain("code"), s, x.code)
        <4>1. 1 \in 1 .. N /\ 2 \in 1 .. N /\ s + 1 \in 1 .. K /\ s + 2 \in 1 .. K
          BY <1>2, <1>3 DEF K
        <4>2. U[s + 1] = T[s + 1] /\ U[s + 2] = T[s + 2]
          BY <1>24, <4>1
        <4> QED BY <1>3, <1>a, <4>1, <4>2
      <3>3. \A j \in 1 .. 2 : Matches(U[s + j], ReturnAddress[j], s, x.code)
        BY <3>1, <3>2
      <3> QED BY <1>3, <1>10, <1>24, <3>1, <3>3 DEF Mapped
    <2>3. AtPlace(p, U, s, Len(U), x.code, x.ip + 1)
      BY <1>3, <1>24, <2>1, <2>2 DEF AtPlace
    <2>4. ~(Len(U) - s >= 4)
      BY <1>3, <1>24 DEF K
    <2>5. y.fp = CallerFp(U, s)
      <3>1. CASE s = 0
        BY <1>19, <1>22, <3>1 DEF CallerFp
      <3>2. CASE s # 0
        <4>1. s \in 1 .. K
          BY <1>3, <3>2 DEF K
        <4> QED BY <1>19, <1>22, <1>24, <3>2, <4>1 DEF CallerFp
      <3> QED BY <3>1, <3>2
    <2> QED BY <1>22, <1>24, <1>26, <2>1, <2>3, <2>4, <2>5 DEF Runs
  <1>28. Passed(x, T, U)
    <2>1. \A j \in K + 1 .. Len(T) : T[j].is # "xp"
      BY <1>25 DEF n
    <2> QED BY <1>3, <1>10, <1>24, <2>1, PassedBelow DEF n
  <1>29. Holds(x, x.fp - 2, <<"dp", "fp">>)
    <2>1. x.fp - 2 >= 0 /\ x.fp - 2 + 2 <= Sp(x) /\ x.fp - 2 + 1 - 1 + 1 = s + 3
          /\ x.fp - 2 + 2 - 1 + 1 = s + 4
      BY <1>3, <1>4, <1>5
    <2>2. At(x, x.fp - 2 + 1 - 1).is = "dp" /\ At(x, x.fp - 2 + 2 - 1).is = "fp"
      BY <1>5, <2>1 DEF At
    <2> QED BY <2>1, <2>2 DEF Holds
  <1> QED BY <1>3, <1>23, <1>27, <1>28, <1>29 DEF Steps, Good

(* instruction_Return finds the return address and goes back to its place. *)
LEMMA ReturnSteps ==
  ASSUME NEW p, NEW x, NEW T, NEW s, Ready(p, x, T, s), Instr(p, x).op = "Return",
         NEW z, z = Truncate(x, Sp(x) - 2),
         NEW y, y = GoingTo(z, At(x, Sp(x) - 1).v, At(x, Sp(x) - 2).v)
  PROVE  TopIs(x, <<"ip", "code">>) /\ Steps(p, x, T, y)
  <1> DEFINE W == Map(p, x.code, x.ip)
             N == Len(W)
             n == Len(T)
             st == x.stack
             U == SubSeq(T, 1, s)
  <1>1. Fits(p, x.code, x.ip) /\ W = Shape[p][x.code][x.ip].words
        /\ Instr(p, x) = Code[p][x.code][x.ip]
    BY InstrFits DEF Map
  <1>2. W = ReturnAddress
    BY <1>1 DEF Fits
  <1>3. /\ x \in Machines(p) /\ n \in Nat /\ W \in Seq(MapWords) /\ N \in Nat
        /\ LinkX(T, n, x.xp) /\ LinkY(T, n, x.yp) /\ Balanced(p, x, T) /\ s + N = n /\ s \in Nat
        /\ x.code \in DOMAIN Code[p]
        /\ \A j \in 1 .. N : Matches(T[s + j], W[j], s, x.code) /\ s + j \in 1 .. n
        /\ T \in Seq(Slots(p)) /\ x.ip \in Nat /\ x.status = "running"
        /\ x.stack \in Seq(StackWords(p)) /\ Len(x.stack) = n /\ Sp(x) = n
    BY ReadyIs DEF Ready
  <1>4. N = 2 /\ W[1].is = "ip" /\ W[2].is = "code"
    BY <1>2 DEF ReturnAddress, Plain, Word
  <1>5. x.fp = CallerFp(T, s)
    <2>1. Runs(p, x, T, s)
      BY DEF Ready
    <2>2. ~(n - s >= 4)
      BY <1>3, <1>4
    <2> QED BY <2>1, <2>2 DEF Runs
  <1>6. IsCut(T, s, U)
    BY DEF IsCut
  <1> HIDE DEF W, N, n, U
  <1>7. n = s + 2 /\ s + 1 \in 1 .. n /\ s + 2 \in 1 .. n /\ s \in 0 .. n
    BY <1>3, <1>4
  <1>8. T[s + 1].is = "ip" /\ T[s + 2].is = "code" /\ T[s + 2].s = s
    <2>1. 1 \in 1 .. N /\ 2 \in 1 .. N
      BY <1>4
    <2> QED BY <1>3, <1>4, <2>1 DEF Matches
  <1>9. st[s + 1].is = "ip" /\ st[s + 2].is = "code" /\ st[s + 1].v \in Int
        /\ ReturnOK(p, st, T, s + 2) /\ st[s + 2].v \in Values(p)
    <2>1. SlotOK(p, st, T, s + 1) /\ SlotOK(p, st, T, s + 2)
          /\ st[s + 1].is = T[s + 1].is /\ st[s + 2].is = T[s + 2].is /\ st[s + 2] \in StackWords(p)
      BY <1>3, <1>7, BalancedIs DEF n
    <2> QED BY <1>8, <2>1 DEF SlotOK, StackWords
  <1>10. /\ Balanced(p, z, U) /\ z.code = x.code /\ z.ip = x.ip /\ z.fp = x.fp /\ z.xp = x.xp
         /\ z.exception = x.exception /\ z.status = x.status
    <2>1. \A j \in s + 1 .. n : j = s + 1 \/ j = s + 2
      BY <1>3, <1>7
    <2>2. Pops(p, x, T, s)
      BY <1>3, <1>7, <1>8, <2>1 DEF Pops, n
    <2>3. z = Truncate(x, s)
      <3>1. Sp(x) - 2 = s
        BY <1>3, <1>7
      <3> QED BY <3>1
    <2> QED BY <1>6, <2>2, <2>3, PoppedIs
  <1>11. z \in Machines(p)
    BY <1>10 DEF Balanced
  <1>12. PICK f, q : f = st[s + 2].v /\ q = st[s + 1].v
    OBVIOUS
  <1>13. y = GoingTo(z, f, q)
    <2>1. Sp(x) - 1 + 1 = s + 2 /\ Sp(x) - 2 + 1 = s + 1
      BY <1>3, <1>7
    <2>2. At(x, Sp(x) - 1).v = f /\ At(x, Sp(x) - 2).v = q
      BY <1>12, <2>1 DEF At
    <2> QED BY <2>2
  <1>14. /\ y \in Machines(p) /\ y.code = f /\ y.ip = q /\ y.fp = x.fp /\ y.xp = x.xp
         /\ y.stack = z.stack /\ y.status = "running" /\ y.yp = z.yp /\ y.live = z.live
    <2>1. PICK v : v = GoingTo(z, f, q)
      OBVIOUS
    <2>2. /\ v \in Machines(p) /\ v.code = f /\ v.ip = q /\ v.fp = z.fp /\ v.xp = z.xp
          /\ v.stack = z.stack /\ v.status = z.status /\ v.yp = z.yp /\ v.live = z.live
      BY <1>9, <1>11, <1>12, <2>1, GoingToIs
    <2> QED BY <1>3, <1>10, <1>13, <2>1, <2>2
  <1>15. Balanced(p, y, U)
    BY <1>10, <1>14, RebalancedOther
  <1>16. Len(U) = s /\ SameTo(T, U, s) /\ \A i \in 1 .. s : U[i] = T[i]
    <2>1. s \in 0 .. Len(T)
      BY <1>7 DEF n
    <2> QED BY <1>3, <1>6, <2>1, CutSame
  <1>17. \A j \in s + 1 .. n : T[j].is # "xp"
    <2>1. \A j \in s + 1 .. n : j = s + 1 \/ j = s + 2
      BY <1>3, <1>7
    <2> QED BY <1>8, <2>1
  <1>18. LinkX(U, s, y.xp)
    <2>1. LinkX(T, s, x.xp)
      BY <1>3, <1>7, <1>17, LinkDown
    <2>2. s <= s
      BY <1>3
    <2> QED BY <1>3, <1>14, <1>16, <2>1, <2>2, LinkKept
  <1>19. Passed(x, T, U)
    <2>1. \A j \in s + 1 .. Len(T) : T[j].is # "xp"
      BY <1>17 DEF n
    <2> QED BY <1>3, <1>16, <2>1, PassedBelow DEF n
  <1>a. TopIs(x, <<"ip", "code">>)
    <2>1. Sp(x) >= 2 /\ Sp(x) - 2 + 1 - 1 + 1 = s + 1 /\ Sp(x) - 2 + 2 - 1 + 1 = s + 2
      BY <1>3, <1>7
    <2>2. At(x, Sp(x) - 2 + 1 - 1).is = "ip" /\ At(x, Sp(x) - 2 + 2 - 1).is = "code"
      BY <1>9, <2>1 DEF At
    <2> QED BY <2>1, <2>2 DEF TopIs
  <1>20. CASE s = 0
    <2>1. y.code = NoCode
      BY <1>8, <1>9, <1>12, <1>14, <1>20 DEF ReturnOK
    <2>2. y.xp = InvalidPtr
      BY <1>18, <1>20 DEF LinkX
    <2>3. U = <<>>
      <3>1. U \in Seq(Slots(p)) /\ Len(U) = 0
        BY <1>15, <1>16, <1>20 DEF Balanced
      <3> QED BY <3>1
    <2>4. Stands(y, U)
      BY <1>14, <2>1, <2>2, <2>3 DEF Stands
    <2> QED BY <1>15, <1>19, <1>a, <2>4 DEF Steps, Good
  <1>21. CASE s # 0
    <2> DEFINE r == T[s].s
    <2>1. /\ s - r >= 4 /\ AtPlace(p, T, r, s, f, q) /\ ~Caught(p, f, q)
      <3>1. (s + 2) - 1 = s + 1
        BY <1>3
      <3> QED BY <1>8, <1>9, <1>12, <1>21, <3>1 DEF ReturnOK
    <2>2. s \in 1 .. Len(T)
      BY <1>3, <1>7, <1>21 DEF n
    <2>3. r \in Nat
      BY <1>3, <2>2, BalancedIs
    <2>4. x.fp = r + 4
      BY <1>5, <1>21 DEF CallerFp
    <2> HIDE DEF r
    <2>5. AtPlace(p, U, r, Len(U), f, q)
      <3>1. s <= s
        BY <1>3
      <3>2. AtPlace(p, U, r, s, f, q)
        BY <1>3, <1>16, <2>1, <3>1, AtPlaceKept
      <3> QED BY <1>16, <3>2
    <2>6. Len(U) - r >= 4
      BY <1>16, <2>1
    <2>7. Runs(p, y, U, r)
      BY <1>14, <1>16, <1>18, <2>1, <2>4, <2>5, <2>6 DEF Runs
    <2> QED BY <1>15, <1>19, <1>a, <2>3, <2>7 DEF Steps, Good
  <1> QED BY <1>3, <1>20, <1>21

-----------------------------------------------------------------------------
(* Exceptions.                                                             *)

(* The descriptor d on the stack.                                          *)
Descriptor(p, x, T, d) ==
    /\ d \in Nat /\ d + 5 \in 1 .. Len(T) /\ d + 1 \in 1 .. Len(T) /\ d + 2 \in 1 .. Len(T)
    /\ T[d + 1].is = "handler" /\ T[d + 2].is = "finally" /\ T[d + 3].is = "code"
    /\ T[d + 4].is = "fp" /\ T[d + 5].is = "xp"
    /\ x.stack[d + 1].is = "handler" /\ x.stack[d + 2].is = "finally"
    /\ x.stack[d + 1].v \in {T[d + 1].v, NoHandler} /\ x.stack[d + 2].v \in {T[d + 2].v, NoHandler}
    /\ x.stack[d + 3].v = T[d + 5].f /\ x.stack[d + 4].v = T[d + 5].s + 4
    /\ LinkX(T, d, x.stack[d + 5].v) /\ x.stack[d + 5].v \in Int
    /\ T[d + 1].v \in Int /\ T[d + 2].v \in Int
    /\ T[d + 1].v # NoHandler => AtPlace(p, T, T[d + 5].s, d + 5, T[d + 5].f, T[d + 1].v)
    /\ T[d + 2].v # NoHandler => AtFinally(p, T, T[d + 5].s, d + 5, T[d + 5].f, T[d + 2].v)
    /\ d >= T[d + 5].s + 4 /\ T[d + 5].s \in Nat /\ T[d + 5].f \in DOMAIN Code[p]
    /\ T[d].is # "object" /\ Holds(x, d, ExceptionDesc)

(* The five words of an exception descriptor.                              *)
LEMMA DescriptorIs ==
  ASSUME NEW p, NEW x, NEW T, Balanced(p, x, T), NEW d, IsTry(T, d)
  PROVE  Descriptor(p, x, T, d)
  <1> DEFINE n == Len(T)
             st == x.stack
             i == d + 5
  <1>1. n \in Nat /\ Sp(x) = n
    BY BalancedIs
  <1>2. d \in Nat /\ i \in 1 .. n /\ T[i].is = "xp"
    BY <1>1 DEF IsTry
  <1>3. /\ d + 1 \in 1 .. n /\ d + 2 \in 1 .. n /\ d + 3 \in 1 .. n /\ d + 4 \in 1 .. n
        /\ i - 4 = d + 1 /\ i - 3 = d + 2 /\ i - 2 = d + 3 /\ i - 1 = d + 4 /\ i - 5 = d
    BY <1>1, <1>2
  <1>4. TryOK(p, st, T, i) /\ st[i].is = "xp" /\ T[i] \in Slots(p) /\ T[i].s \in Nat
    BY <1>2, BalancedIs DEF SlotOK
  <1>5. T[i].f \in DOMAIN Code[p]
    BY <1>4 DEF Slots
  <1>6. /\ i - 5 >= T[i].s + 4
        /\ T[i - 4].is = "handler" /\ T[i - 3].is = "finally"
        /\ T[i - 2].is = "code" /\ T[i - 1].is = "fp"
        /\ st[i - 2].v = T[i].f /\ st[i - 1].v = T[i].s + 4
        /\ LinkX(T, i - 5, st[i].v)
        /\ T[i - 4].v # NoHandler => AtPlace(p, T, T[i].s, i, T[i].f, T[i - 4].v)
        /\ T[i - 3].v # NoHandler => AtFinally(p, T, T[i].s, i, T[i].f, T[i - 3].v)
    BY <1>4 DEF TryOK
  <1> HIDE DEF i
  <1>7. /\ d >= T[i].s + 4
        /\ T[d + 1].is = "handler" /\ T[d + 2].is = "finally"
        /\ T[d + 3].is = "code" /\ T[d + 4].is = "fp"
        /\ st[d + 3].v = T[i].f /\ st[d + 4].v = T[i].s + 4
        /\ LinkX(T, d, st[i].v)
        /\ T[d + 1].v # NoHandler => AtPlace(p, T, T[i].s, i, T[i].f, T[d + 1].v)
        /\ T[d + 2].v # NoHandler => AtFinally(p, T, T[i].s, i, T[i].f, T[d + 2].v)
    BY <1>3, <1>6
  <1>8. /\ st[d + 1].is = "handler" /\ st[d + 2].is = "finally" /\ st[d + 3].is = "code"
        /\ st[d + 4].is = "fp" /\ SlotOK(p, st, T, d + 1) /\ SlotOK(p, st, T, d + 2)
        /\ T[d + 1].v \in Int /\ T[d + 2].v \in Int
    <2>1. \A j \in 1 .. n : st[j].is = T[j].is /\ SlotOK(p, st, T, j) /\ T[j].v \in Int
      BY BalancedIs
    <2> HIDE DEF st, n
    <2>2. st[d + 1].is = T[d + 1].is /\ SlotOK(p, st, T, d + 1) /\ T[d + 1].v \in Int
      BY <1>3, <2>1
    <2>3. st[d + 2].is = T[d + 2].is /\ SlotOK(p, st, T, d + 2) /\ T[d + 2].v \in Int
      BY <1>3, <2>1
    <2>4. st[d + 3].is = T[d + 3].is /\ st[d + 4].is = T[d + 4].is
      BY <1>3, <2>1
    <2> QED BY <1>7, <2>2, <2>3, <2>4
  <1>9. st[d + 1].v \in {T[d + 1].v, NoHandler} /\ st[d + 2].v \in {T[d + 2].v, NoHandler}
    BY <1>7, <1>8 DEF SlotOK
  <1>10. T[d].is # "object"
    <2>1. d + 1 > 1 /\ (d + 1) - 1 = d
      BY <1>2, <1>4, <1>7
    <2>2. T[(d + 1) - 1].is = "object" => T[d + 1].is = "chain"
      BY <1>8, <2>1 DEF SlotOK
    <2> QED BY <1>7, <2>1, <2>2
  <1>11. Holds(x, d, ExceptionDesc)
    <2>1. st[d + 5].is = "xp"
      BY <1>4 DEF i
    <2> QED BY SMTT(30), <1>1, <1>2, <1>8, <2>1 DEF Holds, ExceptionDesc, At, i
  <1>12. st[i].v \in Int
    BY <1>7 DEF LinkX, InvalidPtr
  <1> QED BY <1>2, <1>3, <1>4, <1>5, <1>7, <1>8, <1>9, <1>10, <1>11, <1>12 DEF Descriptor, i

(* The uppermost descriptor and those below it.                            *)
LEMMA UpperIs ==
  ASSUME NEW p, NEW x, NEW T, Balanced(p, x, T), NEW d, IsTry(T, d), NEW e \in Nat, IsTry(T, e)
  PROVE  /\ e + 5 > d => e >= d
         /\ LinkX(T, Len(T), d) => e <= d
  <1>1. Descriptor(p, x, T, d)
    BY DescriptorIs
  <1>2. /\ d \in Nat /\ T[d + 1].is = "handler" /\ T[d + 2].is = "finally" /\ T[d + 3].is = "code"
        /\ T[d + 4].is = "fp" /\ T[e + 5].is = "xp" /\ e + 5 <= Len(T) /\ Len(T) \in Nat
    BY <1>1, BalancedIs DEF Descriptor, IsTry
  <1>3. ASSUME e + 5 > d PROVE e >= d
    <2>1. e + 5 # d + 1 /\ e + 5 # d + 2 /\ e + 5 # d + 3 /\ e + 5 # d + 4
      BY <1>2
    <2> QED BY <1>2, <1>3, <2>1
  <1>4. ASSUME LinkX(T, Len(T), d) PROVE e <= d
    <2>1. \A j \in d + 6 .. Len(T) : T[j].is # "xp"
      BY <1>2, <1>4 DEF LinkX, InvalidPtr
    <2>2. ~(e + 5 \in d + 6 .. Len(T))
      BY <1>2, <2>1
    <2> QED BY <1>2, <2>2
  <1> QED BY <1>3, <1>4

(* The words from the descriptor d on, or those behind it, are cut; the    *)
(* descriptors above had no finally handler.                               *)
LEMMA PassedTry ==
  ASSUME NEW p, NEW x, NEW T, Balanced(p, x, T), NEW d, IsTry(T, d),
         NEW U, NEW k \in {d, d + 5}, SameTo(T, U, k),
         k = d => x.stack[d + 2].v = NoHandler,
         \A e \in Nat : IsTry(T, e) /\ e > d => x.stack[e + 2].v = NoHandler
  PROVE  Passed(x, T, U)
  <1>1. d \in Nat
    BY DEF IsTry
  <1>2. ASSUME NEW e \in Nat, IsTry(T, e), ~IsTry(U, e) PROVE x.stack[e + 2].v = NoHandler
    <2>1. ~(e + 5 \in 1 .. k)
      <3> SUFFICES ASSUME e + 5 \in 1 .. k PROVE FALSE
        OBVIOUS
      <3>1. U[e + 5] = T[e + 5] /\ k <= Len(U) /\ k \in Nat
        BY <1>1 DEF SameTo
      <3>2. IsTry(U, e)
        <4>1. e + 5 <= k
          OBVIOUS
        <4>2. Len(U) >= k /\ T[e + 5].is = "xp"
          BY <1>2, <3>1 DEF IsTry
        <4>3. e + 5 <= Len(U)
          BY <3>1, <4>1, <4>2 DEF SameTo
        <4> QED BY <1>2, <3>1, <4>2, <4>3 DEF IsTry
      <3> QED BY <1>2, <3>2
    <2>2. e + 5 > k
      BY <1>1, <2>1
    <2>3. e >= d
      <3>1. e + 5 > d
        BY <1>1, <2>2
      <3> QED BY <1>2, <3>1, UpperIs
    <2>4. CASE e = d
      <3>1. k = d
        BY <1>1, <2>2, <2>4
      <3> QED BY <2>4, <3>1
    <2>5. CASE e > d
      BY <1>2, <2>5
    <2> QED BY <1>1, <2>3, <2>4, <2>5
  <1> QED BY <1>2 DEF Passed

(* A machine that may leave a try: the stack is what T says, and xp is its *)
(* uppermost descriptor.                                                   *)
Loose(p, x, T) ==
    Balanced(p, x, T) /\ LinkX(T, Len(T), x.xp) /\ Settles(T) /\ x.status = "running"

(* xp is the uppermost descriptor, if there is one.                        *)
LEMMA LooseTry ==
  ASSUME NEW p, NEW x, NEW T, Loose(p, x, T)
  PROVE  x.xp # InvalidPtr <=> IsTry(T, x.xp)
  <1>1. Len(T) \in Nat
    BY BalancedIs DEF Loose
  <1> QED BY <1>1 DEF Loose, LinkX, IsTry, InvalidPtr

(* The try is left: U is the stack below its descriptor.                   *)
Leaving(p, x, T, d, U, y) ==
    Loose(p, x, T) /\ d = x.xp /\ IsTry(T, d) /\ IsCut(T, d, U) /\ y = LeaveTry(x)

Left(p, x, T, d, U, y) ==
    /\ Loose(p, y, U) /\ y.fp = T[d + 5].s + 4 /\ y.code = x.code /\ y.ip = x.ip
    /\ \A i \in 1 .. d : y.stack[i] = x.stack[i]

(* micro_instruction_LeaveTry goes back to the frame that has the try.     *)
LEMMA LeaveTryIs ==
  ASSUME NEW p, NEW x, NEW T, NEW d, NEW U, NEW y, Leaving(p, x, T, d, U, y)
  PROVE  Left(p, x, T, d, U, y)
  <1>a. Loose(p, x, T) /\ d = x.xp /\ IsTry(T, d) /\ IsCut(T, d, U) /\ y = LeaveTry(x)
    BY DEF Leaving
  <1> USE <1>a
  <1>1. Balanced(p, x, T) /\ LinkX(T, Len(T), x.xp) /\ Settles(T) /\ x.status = "running"
    BY DEF Loose
  <1>2. Descriptor(p, x, T, d)
    BY <1>1, DescriptorIs
  <1>3. /\ d \in Nat /\ d + 5 <= Len(T) /\ T[d + 1].is = "handler" /\ Holds(x, d, ExceptionDesc)
        /\ x.stack[d + 4].v = T[d + 5].s + 4 /\ LinkX(T, d, x.stack[d + 5].v)
        /\ T[d].is # "object" /\ T[d + 5].s \in Nat /\ x.stack[d + 5].v \in Int
    BY <1>2 DEF Descriptor
  <1>4. Len(T) \in Nat /\ d \in 0 .. Len(T) /\ x \in Machines(p) /\ Len(x.stack) = Len(T)
        /\ T \in Seq(Slots(p)) /\ x.stack \in Seq(StackWords(p))
    BY <1>1, <1>3, BalancedIs DEF Balanced, Machines
  <1>5. PICK yp \in Int : FreeDownTo(x, d) = Freed(x, d, yp) /\ Balanced(p, Freed(x, d, yp), SubSeq(T, 1, d))
    <2>1. d < Len(T) => T[d + 1].is # "chain"
      BY <1>3
    <2> QED BY <1>1, <1>4, <2>1, FreeDownToIs
  <1>6. PICK u : u = Freed(x, d, yp)
    OBVIOUS
  <1>7. /\ u \in Machines(p) /\ u.stack = SubSeq(x.stack, 1, d)
        /\ u.code = x.code /\ u.ip = x.ip /\ u.ret = x.ret /\ u.exception = x.exception
        /\ u.status = x.status
    <2>1. d \in 0 .. Len(x.stack)
      BY <1>4
    <2> QED BY <1>4, <1>6, <2>1, FreedIs
  <1>8. Balanced(p, u, U)
    BY <1>5, <1>6 DEF IsCut
  <1>9. PICK fp, xp : fp = x.stack[d + 4].v /\ xp = x.stack[d + 5].v
    OBVIOUS
  <1>10. fp \in Int /\ xp \in Int
    BY <1>3, <1>9
  <1>11. y = [u EXCEPT !.fp = fp, !.xp = xp]
    <2>1. d + 3 + 1 = d + 4 /\ d + 4 + 1 = d + 5
      BY <1>3
    <2>2. At(x, d + 3).v = fp /\ At(x, d + 4).v = xp
      BY <1>9, <2>1 DEF At
    <2>3. y = [FreeDownTo(x, d) EXCEPT !.fp = At(x, d + 3).v, !.xp = At(x, d + 4).v]
      BY <1>3 DEF LeaveTry
    <2> QED BY <1>5, <1>6, <2>2, <2>3
  <1>12. /\ y \in Machines(p) /\ y.code = u.code /\ y.ip = u.ip /\ y.fp = fp /\ y.xp = xp
         /\ y.stack = u.stack /\ y.ret = u.ret /\ y.exception = u.exception /\ y.status = u.status
         /\ y.yp = u.yp /\ y.live = u.live
    BY <1>7, <1>10, <1>11 DEF Machines
  <1>13. Balanced(p, y, U)
    BY <1>8, <1>12, RebalancedOther
  <1>14. Len(U) = d /\ SameTo(T, U, d) /\ \A i \in 1 .. d : U[i] = T[i]
    BY <1>4, CutSame
  <1>15. LinkX(U, Len(U), y.xp)
    <2>1. d <= d
      BY <1>3
    <2> QED BY <1>3, <1>9, <1>12, <1>14, <2>1, LinkKept
  <1>16. Settles(U)
    <2>1. d > 0 => U[d] = T[d]
      BY SMTT(30), <1>3, <1>14
    <2> QED BY <1>3, <1>14, <2>1 DEF Settles
  <1>17. \A i \in 1 .. d : u.stack[i] = x.stack[i]
    <2>1. d \in 0 .. Len(x.stack)
      BY <1>4
    <2> QED BY <1>4, <1>7, <2>1, CutIs
  <1>18. Loose(p, y, U)
    BY <1>1, <1>7, <1>12, <1>13, <1>15, <1>16 DEF Loose
  <1> QED BY <1>3, <1>7, <1>9, <1>12, <1>17, <1>18 DEF Left

(* The words above the descriptor d are freed.                             *)
LEMMA KeepTryIs ==
  ASSUME NEW p, NEW x, NEW T, Balanced(p, x, T), Settles(T), NEW d, IsTry(T, d),
         NEW U, IsCut(T, d + 5, U), NEW y, y = Truncate(FreeFor(x, d), d + ExceptDescSize)
  PROVE  /\ Balanced(p, y, U) /\ y.code = x.code /\ y.ip = x.ip /\ y.fp = x.fp /\ y.xp = x.xp
         /\ y.ret = x.ret /\ y.exception = x.exception /\ y.status = x.status
         /\ \A i \in 1 .. d + 5 : y.stack[i] = x.stack[i]
         /\ Len(U) = d + 5 /\ SameTo(T, U, d + 5) /\ LinkX(U, d + 5, d)
  <1> DEFINE K == d + 5
  <1>1. Descriptor(p, x, T, d)
    BY DescriptorIs
  <1>2. /\ d \in Nat /\ K \in 1 .. Len(T) /\ T[d + 1].is = "handler" /\ T[d + 2].is = "finally"
        /\ T[d + 3].is = "code" /\ T[d + 4].is = "fp" /\ T[d + 5].is = "xp"
    BY <1>1 DEF Descriptor
  <1>3. Len(T) \in Nat /\ x \in Machines(p) /\ Len(x.stack) = Len(T)
        /\ T \in Seq(Slots(p)) /\ x.stack \in Seq(StackWords(p))
    BY <1>2, BalancedIs DEF Balanced, Machines
  <1> HIDE DEF K
  <1>4. K = d + 5 /\ K \in Nat /\ d \in 0 .. K /\ K \in 0 .. Len(T) /\ d \in 0 .. Len(T) /\ K <= Len(T)
    BY <1>2, <1>3 DEF K
  <1>5. \A j \in d + 1 .. K : j = d + 1 \/ j = d + 2 \/ j = d + 3 \/ j = d + 4 \/ j = d + 5
    BY <1>2, <1>4
  <1>6. \A j \in d + 1 .. K : T[j].is \notin {"object", "chain"}
    BY <1>2, <1>5
  <1>7. PICK yp \in Int :
            /\ FreeFor(x, d) = [x EXCEPT !.yp = yp, !.live = Alive(x.stack, d)]
            /\ LinkY(T, d, yp)
    <2>1. d < Len(T) => T[d + 1].is # "chain"
      BY <1>2
    <2> QED BY <1>4, <2>1, FreeForIs
  <1>8. LinkY(T, K, yp)
    <2>1. \A j \in d + 1 .. K : ~IsLinked(T[j])
      BY <1>6 DEF IsLinked
    <2> QED BY <1>4, <1>7, <2>1, LinkDown
  <1>9. Alive(x.stack, K) = Alive(x.stack, d)
    <2>1. \A j \in d + 1 .. K : x.stack[j].is # "object"
      <3> TAKE j \in d + 1 .. K
      <3>1. j \in 1 .. Len(T)
        BY <1>4
      <3>2. x.stack[j].is = T[j].is
        BY <3>1, BalancedIs
      <3> QED BY <1>6, <3>2
    <2> QED BY <1>4, <2>1, AliveCut
  <1>10. PICK u : u = Freed(x, K, yp)
    OBVIOUS
  <1>11. y = u
    <2> DEFINE live == Alive(x.stack, d)
               st == SubSeq(x.stack, 1, K)
    <2>1. y = Truncate(FreeFor(x, d), K)
      BY <1>4 DEF ExceptDescSize, ExceptionDesc
    <2>2. (IF K < 0 THEN 0 ELSE K) = K
      BY <1>4
    <2>3. u = [x EXCEPT !.stack = st, !.yp = yp, !.live = live]
      BY <1>9, <1>10 DEF Freed
    <2>4. FreeFor(x, d) = [x EXCEPT !.yp = yp, !.live = live]
      BY <1>7
    <2>5. Truncate([x EXCEPT !.yp = yp, !.live = live], K) = [x EXCEPT !.stack = st, !.yp = yp, !.live = live]
      <3> HIDE DEF live
      <3> QED BY <1>3, <2>2 DEF Truncate, Machines
    <2> QED BY <2>1, <2>3, <2>4, <2>5
  <1>12. Balanced(p, u, U)
    BY <1>4, <1>8, <1>10, FreedBalanced DEF IsCut
  <1>13. /\ u.stack = SubSeq(x.stack, 1, K) /\ u.code = x.code /\ u.ip = x.ip /\ u.fp = x.fp
         /\ u.xp = x.xp /\ u.ret = x.ret /\ u.exception = x.exception /\ u.status = x.status
    <2>1. K \in 0 .. Len(x.stack)
      BY <1>3, <1>4
    <2> QED BY <1>3, <1>10, <2>1, FreedIs
  <1>14. \A i \in 1 .. K : u.stack[i] = x.stack[i]
    <2>1. K \in 0 .. Len(x.stack)
      BY <1>3, <1>4
    <2> QED BY <1>3, <1>13, <2>1, CutIs
  <1>15. Len(U) = K /\ SameTo(T, U, K) /\ \A i \in 1 .. K : U[i] = T[i]
    <2>1. IsCut(T, K, U)
      BY <1>4
    <2> QED BY <1>3, <1>4, <2>1, CutSame
  <1>16. LinkX(U, K, d)
    <2>1. U[d + 5].is = "xp"
      <3>1. d + 5 \in 1 .. K
        BY <1>2, <1>4
      <3> QED BY <1>2, <1>15, <3>1
    <2>2. \A j \in d + 6 .. K : U[j].is # "xp"
      BY <1>2, <1>4
    <2> QED BY <1>2, <1>4, <2>1, <2>2 DEF LinkX
  <1> QED BY <1>11, <1>12, <1>13, <1>14, <1>15, <1>16 DEF K

(* A handler is cleared.                                                   *)
Cleared(z, i) == [z EXCEPT !.stack[i].v = NoHandler]

(* A handler that is taken off its descriptor.                             *)
LEMMA ClearedIs ==
  ASSUME NEW p, NEW z, NEW U, Balanced(p, z, U), NEW i \in 1 .. Len(U),
         U[i].is \in {"handler", "finally"}, NEW y, y = Cleared(z, i)
  PROVE  /\ Balanced(p, y, U) /\ y.code = z.code /\ y.ip = z.ip /\ y.fp = z.fp /\ y.xp = z.xp
         /\ y.ret = z.ret /\ y.exception = z.exception /\ y.status = z.status
         /\ y.stack[i] = Word(U[i].is, NoHandler)
         /\ \A j \in 1 .. Len(U) : j # i => y.stack[j] = z.stack[j]
  <1>1. z \in Machines(p) /\ z.stack \in Seq(StackWords(p)) /\ Len(z.stack) = Len(U) /\ Len(U) \in Nat
        /\ U \in Seq(Slots(p)) /\ LinkY(U, Len(U), z.yp) /\ z.live = Alive(z.stack, Len(U))
        /\ \A j \in 1 .. Len(U) : z.stack[j].is = U[j].is /\ z.stack[j] \in StackWords(p)
    BY BalancedIs DEF Balanced, Machines
  <1> DEFINE w == [z.stack[i] EXCEPT !.v = NoHandler]
             st == [z.stack EXCEPT ![i] = w]
  <1>2. w = Word(U[i].is, NoHandler) /\ w \in StackWords(p)
    BY <1>1 DEF StackWords, Word, NoHandler, Values
  <1>3. y = [z EXCEPT !.stack = st]
    BY <1>1 DEF Cleared, Machines
  <1> HIDE DEF w
  <1>4. /\ st \in Seq(StackWords(p)) /\ Len(st) = Len(U) /\ st[i] = w
        /\ \A j \in 1 .. Len(U) : j # i => st[j] = z.stack[j]
    BY <1>1, <1>2
  <1> HIDE DEF st
  <1>5. /\ y \in Machines(p) /\ y.code = z.code /\ y.ip = z.ip /\ y.fp = z.fp /\ y.xp = z.xp
        /\ y.ret = z.ret /\ y.exception = z.exception /\ y.status = z.status /\ y.stack = st
        /\ y.yp = z.yp /\ y.live = z.live
    BY <1>1, <1>3, <1>4 DEF Machines
  <1>6. KeptTo(z.stack, y.stack, U, Len(U))
    <2>1. z.stack[i].is = U[i].is /\ y.stack[i] = Word(z.stack[i].is, NoHandler)
      BY <1>1, <1>2, <1>4, <1>5
    <2> QED BY <1>4, <1>5, <2>1 DEF KeptTo
  <1>7. Alive(y.stack, Len(U)) = Alive(z.stack, Len(U))
    <2>1. \A j \in 1 .. Len(U) : (y.stack[j].is = "object" /\ y.stack[j].v = 1)
                                    <=> (z.stack[j].is = "object" /\ z.stack[j].v = 1)
      <3> TAKE j \in 1 .. Len(U)
      <3>1. CASE j = i
        <4>1. z.stack[j].is # "object" /\ y.stack[j].is # "object"
          BY <1>1, <1>2, <1>4, <1>5, <3>1 DEF Word
        <4> QED BY <4>1
      <3>2. CASE j # i
        BY <1>4, <1>5, <3>2
      <3> QED BY <3>1, <3>2
    <2> QED BY <1>1, <2>1, AliveSame
  <1>8. Balanced(p, y, U)
    <2>1. SameTo(U, U, Len(U))
      BY <1>1 DEF SameTo
    <2>2. Len(U) = Len(y.stack) /\ \A j \in Len(U) + 1 .. Len(U) : SlotOK(p, y.stack, U, j)
      BY <1>1, <1>4, <1>5
    <2>3. LinkY(U, Len(U), y.yp) /\ y.live = Alive(y.stack, Len(U))
      BY <1>1, <1>5, <1>7
    <2> QED BY <1>1, <1>5, <1>6, <2>1, <2>2, <2>3, Rebalanced
  <1> QED BY <1>2, <1>4, <1>5, <1>8

(* The catch handler of the descriptor d takes over.                       *)
Catching(z, f, q, fp, e) == [z EXCEPT !.exception = e, !.code = f, !.ip = q, !.fp = fp]

(* The machine about to execute a catch handler, register by register.     *)
LEMMA CatchingIs ==
  ASSUME NEW p, NEW z \in Machines(p), NEW f \in Values(p), NEW q \in Int, NEW fp \in Int,
         NEW e \in Values(p), NEW y, y = Catching(z, f, q, fp, e)
  PROVE  /\ y \in Machines(p) /\ y.code = f /\ y.ip = q /\ y.fp = fp /\ y.xp = z.xp /\ y.exception = e
         /\ y.stack = z.stack /\ y.status = z.status /\ y.yp = z.yp /\ y.live = z.live
  BY DEF Catching, Machines

(* A catch handler is where execution goes.                                *)
LEMMA CatchSteps ==
  ASSUME NEW p, NEW x, NEW T, Balanced(p, x, T), Settles(T), x.status = "running",
         NEW d, IsTry(T, d), x.xp = d, x.stack[d + 1].v # NoHandler, NEW thrown \in Thrown,
         \A e \in Nat : IsTry(T, e) /\ e > d => x.stack[e + 2].v = NoHandler,
         NEW z, z = Truncate(FreeFor(x, d), d + ExceptDescSize), NEW y,
         y = Catching(Cleared(z, d + 1), At(x, d + 2).v, At(x, d).v, At(x, d + 3).v, thrown)
  PROVE  Steps(p, x, T, y)
  <1> DEFINE K == d + 5
             U == SubSeq(T, 1, K)
             f == T[K].f
             s == T[K].s
             q == T[d + 1].v
  <1>1. Descriptor(p, x, T, d)
    BY DescriptorIs
  <1>2. /\ d \in Nat /\ K \in 1 .. Len(T) /\ T[d + 1].is = "handler"
        /\ x.stack[d + 1].v \in {T[d + 1].v, NoHandler}
        /\ x.stack[d + 3].v = f /\ x.stack[d + 4].v = s + 4 /\ q \in Int
        /\ T[d + 1].v # NoHandler => AtPlace(p, T, s, K, f, q)
        /\ d >= s + 4 /\ s \in Nat /\ f \in DOMAIN Code[p]
    BY <1>1 DEF Descriptor
  <1>3. x.stack[d + 1].v = q /\ AtPlace(p, T, s, K, f, q)
    BY <1>2
  <1>4. IsCut(T, K, U)
    BY DEF IsCut
  <1> HIDE DEF U, f, s, q, K
  <1>5. K = d + 5 /\ K \in Nat /\ d + 1 \in 1 .. K /\ K <= K /\ K - s >= 4 /\ s + 4 \in Int /\ K > d
    BY <1>2 DEF K
  <1>6. /\ Balanced(p, z, U) /\ z.xp = d /\ z.status = "running"
        /\ \A i \in 1 .. K : z.stack[i] = x.stack[i]
        /\ Len(U) = K /\ SameTo(T, U, K) /\ LinkX(U, K, d)
    <2>1. IsCut(T, d + 5, U)
      BY <1>4, <1>5
    <2> QED BY <1>5, <2>1, KeepTryIs
  <1>7. U[d + 1].is = "handler"
    BY <1>2, <1>5, <1>6 DEF SameTo
  <1>8. PICK w : w = Cleared(z, d + 1)
    OBVIOUS
  <1>9. Balanced(p, w, U) /\ w.xp = d /\ w.status = "running"
    <2>1. d + 1 \in 1 .. Len(U)
      BY <1>5, <1>6
    <2> QED BY <1>6, <1>7, <1>8, <2>1, ClearedIs
  <1>10. y = Catching(w, f, q, s + 4, thrown)
    <2>1. d + 2 + 1 = d + 3 /\ d + 3 + 1 = d + 4
      BY <1>2
    <2>2. At(x, d + 2).v = f /\ At(x, d).v = q /\ At(x, d + 3).v = s + 4
      BY <1>2, <1>3, <2>1 DEF At
    <2> QED BY <1>8, <2>2
  <1>11. /\ y \in Machines(p) /\ y.code = f /\ y.ip = q /\ y.fp = s + 4 /\ y.xp = d /\ y.exception = thrown
         /\ y.stack = w.stack /\ y.status = "running" /\ y.yp = w.yp /\ y.live = w.live
    <2>1. f \in Values(p) /\ thrown \in Values(p) /\ w \in Machines(p)
      BY <1>2, <1>9 DEF Values, Balanced
    <2> QED BY <1>2, <1>5, <1>9, <1>10, <2>1, CatchingIs
  <1>12. Balanced(p, y, U)
    BY <1>9, <1>11, RebalancedOther
  <1>13. Runs(p, y, U, s)
    <2>1. AtPlace(p, U, s, K, f, q)
      BY <1>3, <1>5, <1>6, AtPlaceKept
    <2> QED BY <1>5, <1>6, <1>11, <2>1 DEF Runs
  <1>14. Passed(x, T, U)
    <2>1. SameTo(T, U, K) /\ K \in {d, d + 5} /\ K # d
      BY <1>5, <1>6
    <2> QED BY <2>1, PassedTry
  <1> QED BY <1>2, <1>12, <1>13, <1>14 DEF Steps, Good

(* The words that CallFinally saves.                                       *)
SavesWords(words, x, thrown) ==
    words = <<Word("thrown", thrown), Word("value", x.ret), Word("type", 0), Word("ip", x.ip),
              Word("code", x.code)>>

(* The five words that CallFinally saves.                                  *)
LEMMA SavesIs ==
  ASSUME NEW p, NEW x \in Machines(p), NEW thrown \in Thrown \cup {NoException}, NEW words,
         SavesWords(words, x, thrown)
  PROVE  /\ words \in Seq(StackWords(p)) /\ Len(words) = 5
         /\ words[1].is = "thrown" /\ words[1].v = thrown /\ words[2].is = "value"
         /\ words[3].is = "type" /\ words[4].is = "ip" /\ words[4].v = x.ip
         /\ words[5].is = "code" /\ words[5].v = x.code /\ words[2].v = x.ret
  <1>1. thrown \in Values(p) /\ x.ret \in Values(p) /\ x.ip \in Int /\ x.code \in Values(p)
    <2>1. x.ret \in Values(p) /\ x.ip \in Int /\ x.code \in Values(p)
      BY DEF Machines
    <2>2. thrown \in Values(p)
      BY DEF Values, Returned, NoException
    <2> QED BY <2>1, <2>2
  <1>2. /\ "thrown" \in Kinds /\ "value" \in Kinds /\ "type" \in Kinds /\ "ip" \in Kinds
        /\ "code" \in Kinds
    BY DEF Kinds
  <1>3. Word("thrown", thrown) \in StackWords(p) /\ Word("value", x.ret) \in StackWords(p)
    BY <1>1, <1>2, WordTyped
  <1>4. Word("type", 0) \in StackWords(p) /\ Word("ip", x.ip) \in StackWords(p)
    BY <1>1, <1>2, WordTyped
  <1>5. Word("code", x.code) \in StackWords(p)
    BY <1>1, <1>2, WordTyped
  <1>6. /\ words \in Seq(StackWords(p)) /\ Len(words) = 5
        /\ words[1] = Word("thrown", thrown) /\ words[2] = Word("value", x.ret)
        /\ words[3] = Word("type", 0) /\ words[4] = Word("ip", x.ip) /\ words[5] = Word("code", x.code)
    BY <1>3, <1>4, <1>5 DEF SavesWords
  <1> QED BY <1>6 DEF Word

(* They are those of the map.                                              *)
LEMMA SavedWordsAre ==
  /\ SavedWords \in Seq(MapWords) /\ Len(SavedWords) = 5 /\ Fills(SavedWords, SavedWords)
  /\ SavedWords[1].is = "thrown" /\ SavedWords[1].v # Held /\ SavedWords[2].is = "value"
  /\ SavedWords[3].is = "type" /\ SavedWords[4].is = "ip" /\ SavedWords[5].is = "code"
  <1>1. \A i \in 1 .. 5 : FinallyRetStack[i] \in Kinds
    BY DEF FinallyRetStack, Kinds
  <1>2. \A i \in 1 .. 5 : SavedWords[i] = Plain(FinallyRetStack[i]) /\ SavedWords[i] \in MapWords
    BY <1>1, WordTyped DEF SavedWords, Plain
  <1>3. SavedWords \in Seq(MapWords) /\ Len(SavedWords) = 5
    <2>1. SavedWords = [i \in 1 .. 5 |-> SavedWords[i]]
      BY DEF SavedWords
    <2>2. SavedWords \in [1 .. 5 -> MapWords]
      BY <1>2, <2>1
    <2> QED BY <2>1, <2>2
  <1>4. Fills(SavedWords, SavedWords)
    BY <1>3 DEF Fills
  <1>5. /\ SavedWords[1] = Plain("thrown") /\ SavedWords[2] = Plain("value")
        /\ SavedWords[3] = Plain("type") /\ SavedWords[4] = Plain("ip") /\ SavedWords[5] = Plain("code")
    BY <1>2 DEF FinallyRetStack
  <1> QED BY <1>3, <1>4, <1>5 DEF Plain, Word, Held

(* The machine after CallFinally.                                          *)
Calling(z, f, q, fp) == [z EXCEPT !.code = f, !.ip = q, !.fp = fp]

(* The machine about to execute a finally handler, register by register.   *)
LEMMA CallingIs ==
  ASSUME NEW p, NEW z \in Machines(p), NEW f \in Values(p), NEW q \in Int, NEW fp \in Int,
         NEW y, y = Calling(z, f, q, fp)
  PROVE  /\ y \in Machines(p) /\ y.code = f /\ y.ip = q /\ y.fp = fp /\ y.xp = z.xp
         /\ y.stack = z.stack /\ y.status = z.status /\ y.yp = z.yp /\ y.live = z.live
  BY DEF Calling, Machines

(* The slots that go with the words that CallFinally saves.                *)
LEMMA SavedSlots ==
  ASSUME NEW p, NEW st, NEW V, NEW d \in Nat, NEW s \in Nat, NEW f, d >= s + 4,
         V[d + 1].is = "handler", V[d + 2].is = "finally", V[d + 5].is = "xp", V[d + 5].s = s,
         \A j \in 6 .. 10 : V[d + j].s = s /\ V[d + j].f = f /\ st[d + j].is = V[d + j].is,
         V[d + 6].is = "thrown", V[d + 6].v # Held, V[d + 7].is = "value", V[d + 8].is = "type",
         V[d + 9].is = "ip", V[d + 10].is = "code",
         st[d + 1].v = NoHandler, st[d + 2].v = NoHandler, st[d + 9].v \in Int,
         st[d + 6].v \in Thrown \cup {NoException},
         st[d + 6].v = NoException => /\ st[d + 10].v = f
                                      /\ AtPlace(p, V, s, d, f, st[d + 9].v)
                                      /\ ~Caught(p, f, st[d + 9].v)
  PROVE  \A i \in d + 6 .. d + 10 : SlotOK(p, st, V, i)
  <1>1. /\ V[d + 6].s = s /\ V[d + 7].s = s /\ V[d + 8].s = s /\ V[d + 9].s = s /\ V[d + 10].s = s
        /\ V[d + 10].f = f
        /\ st[d + 6].is = V[d + 6].is /\ st[d + 7].is = V[d + 7].is /\ st[d + 8].is = V[d + 8].is
        /\ st[d + 9].is = V[d + 9].is /\ st[d + 10].is = V[d + 10].is
    OBVIOUS
  <1>2. SlotOK(p, st, V, d + 6)
    <2> DEFINE i == d + 6
    <2>1. i \in Nat /\ i > 1 /\ i - 1 = d + 5 /\ s < i
      OBVIOUS
    <2>2. V[i].is = "thrown" /\ V[i].v # Held /\ V[i].s = s /\ st[i].is = V[i].is /\ V[i - 1].is = "xp"
      BY <1>1, <2>1
    <2> HIDE DEF i
    <2>3. SlotOK(p, st, V, i)
      BY <2>1, <2>2, PlainSlot
    <2> QED BY <2>3 DEF i
  <1>3. SlotOK(p, st, V, d + 7)
    <2> DEFINE i == d + 7
    <2>1. i \in Nat /\ i > 1 /\ i - 1 = d + 6 /\ s < i
      OBVIOUS
    <2>2. V[i].is = "value" /\ V[i].s = s /\ st[i].is = V[i].is /\ V[i - 1].is = "thrown"
      BY <1>1, <2>1
    <2> HIDE DEF i
    <2>3. SlotOK(p, st, V, i)
      BY <2>1, <2>2, PlainSlot
    <2> QED BY <2>3 DEF i
  <1>4. SlotOK(p, st, V, d + 8)
    <2> DEFINE i == d + 8
    <2>1. i \in Nat /\ i > 1 /\ i - 1 = d + 7 /\ s < i
      OBVIOUS
    <2>2. V[i].is = "type" /\ V[i].s = s /\ st[i].is = V[i].is /\ V[i - 1].is = "value"
      BY <1>1, <2>1
    <2> HIDE DEF i
    <2>3. SlotOK(p, st, V, i)
      BY <2>1, <2>2, PlainSlot
    <2> QED BY <2>3 DEF i
  <1>5. SlotOK(p, st, V, d + 9)
    <2> DEFINE i == d + 9
    <2>1. i \in Nat /\ i > 1 /\ i - 1 = d + 8 /\ s < i
      OBVIOUS
    <2>2. V[i].is = "ip" /\ V[i].s = s /\ st[i].is = V[i].is /\ V[i - 1].is = "type" /\ st[i].v \in Int
      BY <1>1, <2>1
    <2> HIDE DEF i
    <2>3. SlotOK(p, st, V, i)
      BY <2>1, <2>2, PlainSlot
    <2> QED BY <2>3 DEF i
  <1>6. SlotOK(p, st, V, d + 10)
    <2> DEFINE i == d + 10
    <2>1. /\ i \in Nat /\ i > 1 /\ i - 1 = d + 9 /\ s < i /\ i # s + 2 /\ i - 10 = d /\ i - 4 = d + 6
          /\ i - 5 = d + 5 /\ i - 9 = d + 1 /\ i - 8 = d + 2
      OBVIOUS
    <2>2. V[i].is = "code" /\ V[i].s = s /\ V[i].f = f /\ st[i].is = V[i].is /\ V[i - 1].is = "ip"
      BY <1>1, <2>1
    <2>3. st[i - 4].v = NoException => /\ st[i].v = f
                                       /\ AtPlace(p, V, s, d, f, st[i - 1].v)
                                       /\ ~Caught(p, f, st[i - 1].v)
      BY <2>1
    <2>4. /\ V[i - 4].is = "thrown" /\ V[i - 5].is = "xp" /\ V[i - 5].s = s
          /\ V[i - 9].is = "handler" /\ V[i - 8].is = "finally"
          /\ st[i - 9].v = NoHandler /\ st[i - 8].v = NoHandler
          /\ st[i - 4].v \in Thrown \cup {NoException}
      BY <2>1
    <2> HIDE DEF i
    <2>5. SavedOK(p, st, V, i)
      BY <2>1, <2>2, <2>3, <2>4 DEF SavedOK
    <2>6. SlotOK(p, st, V, i)
      BY <2>1, <2>2, <2>5 DEF SlotOK
    <2> QED BY <2>6 DEF i
  <1>7. \A i \in d + 6 .. d + 10 : i = d + 6 \/ i = d + 7 \/ i = d + 8 \/ i = d + 9 \/ i = d + 10
    OBVIOUS
  <1> QED BY <1>2, <1>3, <1>4, <1>5, <1>6, <1>7

(* The finally handler g of the uppermost descriptor d, where its handlers *)
(* are cleared, nothing is above it and words have been saved.             *)
Saving(p, z, U, d, s, f, g, thrown) ==
    /\ Balanced(p, z, U) /\ z.status = "running" /\ d \in Nat /\ s \in Nat /\ d >= s + 4
    /\ Len(U) = d + 5 /\ LinkX(U, d + 5, d) /\ z.xp = d
    /\ z.stack[d + 1].v = NoHandler /\ z.stack[d + 2].v = NoHandler
    /\ U[d + 1].is = "handler" /\ U[d + 2].is = "finally" /\ U[d + 5].is = "xp" /\ U[d + 5].s = s
    /\ f \in DOMAIN Code[p] /\ g \in Int /\ AtFinally(p, U, s, d + 5, f, g)
    /\ thrown \in Thrown \cup {NoException}
    /\ thrown = NoException =>
        z.code = f /\ AtPlace(p, U, s, d, f, z.ip) /\ ~Caught(p, f, z.ip)

(* A finally handler finds its frame as it was counted, and what was saved. *)
LEMMA SavingIs ==
  ASSUME NEW p, NEW z, NEW U, NEW d, NEW s, NEW f, NEW g, NEW thrown,
         Saving(p, z, U, d, s, f, g, thrown), NEW words, SavesWords(words, z, thrown),
         NEW y, y = Calling(Push(z, words), f, g, s + 4)
  PROVE  \E V : Balanced(p, y, V) /\ Runs(p, y, V, s) /\ SameTo(U, V, d + 5)
  <1>1. /\ Balanced(p, z, U) /\ z.status = "running" /\ d \in Nat /\ s \in Nat /\ d >= s + 4
        /\ Len(U) = d + 5 /\ LinkX(U, d + 5, d) /\ z.xp = d
        /\ z.stack[d + 1].v = NoHandler /\ z.stack[d + 2].v = NoHandler
        /\ U[d + 1].is = "handler" /\ U[d + 2].is = "finally" /\ U[d + 5].is = "xp" /\ U[d + 5].s = s
        /\ f \in DOMAIN Code[p] /\ g \in Int /\ AtFinally(p, U, s, d + 5, f, g)
        /\ thrown \in Thrown \cup {NoException}
    BY DEF Saving
  <1>2. thrown = NoException =>
            z.code = f /\ AtPlace(p, U, s, d, f, z.ip) /\ ~Caught(p, f, z.ip)
    BY DEF Saving
  <1>3. /\ z \in Machines(p) /\ U \in Seq(Slots(p)) /\ z.stack \in Seq(StackWords(p))
        /\ Len(z.stack) = d + 5 /\ LinkY(U, d + 5, z.yp) /\ z.live = Alive(z.stack, d + 5)
    BY <1>1 DEF Balanced, Machines
  <1>4. /\ words \in Seq(StackWords(p)) /\ Len(words) = 5
        /\ words[1].is = "thrown" /\ words[1].v = thrown /\ words[2].is = "value"
        /\ words[3].is = "type" /\ words[4].is = "ip" /\ words[4].v = z.ip
        /\ words[5].is = "code" /\ words[5].v = z.code
    <2>1. z \in Machines(p) /\ thrown \in Thrown \cup {NoException}
      BY <1>1, <1>3
    <2> QED BY <2>1, SavesIs
  <1>5. PICK w : w = Push(z, words)
    OBVIOUS
  <1>6. /\ w \in Machines(p) /\ w.stack = z.stack \o words /\ w.status = "running" /\ w.xp = d
        /\ w.yp = z.yp /\ w.live = z.live /\ w.exception = z.exception
    <2>1. z \in Machines(p) /\ words \in Seq(StackWords(p)) /\ z.status = "running" /\ z.xp = d
      BY <1>1, <1>3, <1>4
    <2> QED BY <2>1, <1>5, PushIs
  <1>7. /\ y \in Machines(p) /\ y.code = f /\ y.ip = g /\ y.fp = s + 4 /\ y.xp = d
        /\ y.stack = w.stack /\ y.status = "running" /\ y.yp = z.yp /\ y.live = z.live
    <2>1. f \in Values(p) /\ s + 4 \in Int /\ g \in Int
      BY <1>1 DEF Values
    <2>2. y = Calling(w, f, g, s + 4)
      BY <1>5
    <2>3. /\ y \in Machines(p) /\ y.code = f /\ y.ip = g /\ y.fp = s + 4 /\ y.xp = w.xp
          /\ y.stack = w.stack /\ y.status = w.status /\ y.yp = w.yp /\ y.live = w.live
      BY <1>6, <2>1, <2>2, CallingIs
    <2> QED BY <1>6, <2>3
  <1> DEFINE n == d + 5
             V == Grown(U, SavedWords, s, f)
  <1>8. GrownBy(p, U, V, SavedWords, s, f) /\ Len(SavedWords) = 5
    BY <1>1, <1>3, SavedWordsAre, SlotsGrown
  <1>9. /\ V \in Seq(Slots(p)) /\ Len(V) = n + 5 /\ SameTo(U, V, n)
        /\ \A j \in 1 .. 5 : V[n + j] = [is |-> SavedWords[j].is, v |-> SavedWords[j].v, s |-> s, f |-> f]
    BY <1>1, <1>8 DEF GrownBy
  <1>10. /\ Len(y.stack) = n + 5 /\ \A i \in 1 .. n : y.stack[i] = z.stack[i]
         /\ \A j \in 1 .. 5 : y.stack[n + j] = words[j]
    <2>1. /\ Len(z.stack \o words) = Len(z.stack) + Len(words)
          /\ \A i \in 1 .. Len(z.stack) : (z.stack \o words)[i] = z.stack[i]
          /\ \A j \in 1 .. Len(words) : (z.stack \o words)[Len(z.stack) + j] = words[j]
      <3>1. z.stack \in Seq(StackWords(p)) /\ words \in Seq(StackWords(p))
        BY <1>3, <1>4
      <3> QED BY <3>1, GrownIs
    <2>2. Len(z.stack) = n /\ Len(words) = 5 /\ y.stack = z.stack \o words
      BY <1>3, <1>4, <1>6, <1>7
    <2> HIDE DEF n
    <2> QED BY <2>1, <2>2
  <1>11. Mapped(V, s, n + 5, f, Map(p, f, g)) /\ g \in DOMAIN Shape[p][f] /\ ~Caught(p, f, g)
    <2>1. PICK W \in Seq(MapWords) : Map(p, f, g) = W \o SavedWords /\ Mapped(U, s, n, f, W)
      BY <1>1 DEF AtFinally
    <2>2. Mapped(U, s, Len(U), f, W)
      BY <1>1, <2>1
    <2>3. Mapped(V, s, Len(U) + Len(SavedWords), f, W \o SavedWords)
      BY <1>1, <1>3, <2>2, SavedWordsAre, MappedGrown
    <2>4. Len(U) + Len(SavedWords) = n + 5
      BY <1>1, <1>8
    <2>5. Mapped(V, s, n + 5, f, Map(p, f, g))
      BY <2>1, <2>3, <2>4
    <2> QED BY <1>1, <2>5 DEF AtFinally
  <1> HIDE DEF V, n
  <1>12. n = d + 5 /\ n \in Nat /\ n + 5 \in Nat /\ n \in 0 .. n + 5
    BY <1>1 DEF n
  <1>13. /\ \A j \in 1 .. 5 : V[n + j].is = SavedWords[j].is /\ V[n + j].v = SavedWords[j].v
                              /\ V[n + j].s = s /\ V[n + j].f = f
    BY <1>9
  <1>14. /\ V[n + 1].is = "thrown" /\ V[n + 1].v # Held /\ V[n + 2].is = "value" /\ V[n + 3].is = "type"
         /\ V[n + 4].is = "ip" /\ V[n + 5].is = "code"
    BY <1>13, SavedWordsAre
  <1>15. /\ y.stack[n + 1].is = "thrown" /\ y.stack[n + 1].v = thrown /\ y.stack[n + 2].is = "value"
         /\ y.stack[n + 3].is = "type" /\ y.stack[n + 4].is = "ip" /\ y.stack[n + 4].v = z.ip
         /\ y.stack[n + 5].is = "code" /\ y.stack[n + 5].v = z.code
    BY <1>4, <1>10
  <1>16. /\ n + 1 = d + 6 /\ n + 2 = d + 7 /\ n + 3 = d + 8 /\ n + 4 = d + 9 /\ n + 5 = d + 10
         /\ n + 5 >= d /\ d <= n
    BY <1>1, <1>12
  <1>17. \A i \in n + 1 .. n + 5 : i = n + 1 \/ i = n + 2 \/ i = n + 3 \/ i = n + 4 \/ i = n + 5
    BY <1>12
  <1>18. \A i \in n + 1 .. n + 5 : SlotOK(p, y.stack, V, i)
    <2>1. /\ V[d + 1] = U[d + 1] /\ V[d + 2] = U[d + 2] /\ V[d + 5] = U[d + 5]
          /\ y.stack[d + 1] = z.stack[d + 1] /\ y.stack[d + 2] = z.stack[d + 2]
      <3>1. d + 1 \in 1 .. n /\ d + 2 \in 1 .. n /\ d + 5 \in 1 .. n
        BY <1>1, <1>12
      <3> QED BY <1>9, <1>10, <3>1 DEF SameTo
    <2>2. \A j \in 6 .. 10 : V[d + j].s = s /\ V[d + j].f = f /\ y.stack[d + j].is = V[d + j].is
      <3> TAKE j \in 6 .. 10
      <3>1. j - 5 \in 1 .. 5 /\ n + (j - 5) = d + j
        BY <1>12, <1>1
      <3>2. V[d + j].s = s /\ V[d + j].f = f
        BY <1>13, <3>1
      <3>3. j - 5 = 1 \/ j - 5 = 2 \/ j - 5 = 3 \/ j - 5 = 4 \/ j - 5 = 5
        BY <3>1
      <3>4. y.stack[n + (j - 5)].is = V[n + (j - 5)].is
        BY <1>14, <1>15, <3>3
      <3> QED BY <3>1, <3>2, <3>4
    <2>3. thrown = NoException => AtPlace(p, V, s, d, f, z.ip)
      BY <1>2, <1>9, <1>12, <1>16, AtPlaceKept
    <2>4. z.ip \in Int
      BY <1>3 DEF Machines
    <2>5. \A i \in d + 6 .. d + 10 : SlotOK(p, y.stack, V, i)
      <3>1. /\ V[d + 6].is = "thrown" /\ V[d + 6].v # Held /\ V[d + 7].is = "value" /\ V[d + 8].is = "type"
            /\ V[d + 9].is = "ip" /\ V[d + 10].is = "code"
        BY <1>14, <1>16
      <3>2. /\ y.stack[d + 6].v = thrown /\ y.stack[d + 9].v = z.ip /\ y.stack[d + 10].v = z.code
        BY <1>15, <1>16
      <3>3. V[d + 1].is = "handler" /\ V[d + 2].is = "finally" /\ V[d + 5].is = "xp" /\ V[d + 5].s = s
        BY <1>1, <2>1
      <3>4. y.stack[d + 1].v = NoHandler /\ y.stack[d + 2].v = NoHandler
        BY <1>1, <2>1
      <3>5. y.stack[d + 6].v = NoException =>
                /\ y.stack[d + 10].v = f /\ AtPlace(p, V, s, d, f, y.stack[d + 9].v)
                /\ ~Caught(p, f, y.stack[d + 9].v)
        BY <1>2, <2>3, <3>2
      <3>6. y.stack[d + 6].v \in Thrown \cup {NoException} /\ y.stack[d + 9].v \in Int
        BY <1>1, <2>4, <3>2
      <3>7. d \in Nat /\ s \in Nat /\ d >= s + 4
        BY <1>1
      <3> QED BY <2>2, <3>1, <3>3, <3>4, <3>5, <3>6, <3>7, SavedSlots
    <2> QED BY <1>16, <2>5
  <1>19. LinkX(V, n + 5, d) /\ LinkY(V, n + 5, y.yp)
    <2>1. LinkX(U, n, d) /\ LinkY(U, n, y.yp)
      BY <1>1, <1>3, <1>7, <1>12
    <2>2. LinkX(V, n, d) /\ LinkY(V, n, y.yp)
      <3>1. n <= n /\ n \in Nat /\ SameTo(U, V, n)
        BY <1>9, <1>12
      <3> QED BY <2>1, <3>1, LinkKept
    <2>3. \A j \in n + 1 .. n + 5 : V[j].is # "xp" /\ V[j].is # "chain"
      <3> TAKE j \in n + 1 .. n + 5
      <3>1. j = n + 1 \/ j = n + 2 \/ j = n + 3 \/ j = n + 4 \/ j = n + 5
        BY <1>17
      <3> QED BY <1>14, <3>1
    <2>4. \A j \in n + 1 .. n + 5 : ~IsLinked(V[j])
      BY <2>3 DEF IsLinked
    <2> QED BY <1>12, <2>2, <2>3, <2>4, LinkDown
  <1>20. y.live = Alive(y.stack, n + 5)
    <2>1. \A j \in n + 1 .. n + 5 : y.stack[j].is # "object"
      <3> TAKE j \in n + 1 .. n + 5
      <3>1. j = n + 1 \/ j = n + 2 \/ j = n + 3 \/ j = n + 4 \/ j = n + 5
        BY <1>17
      <3> QED BY <1>15, <3>1
    <2>2. Alive(y.stack, n + 5) = Alive(y.stack, n)
      BY <1>12, <2>1, AliveCut
    <2>3. \A j \in 1 .. n : (y.stack[j].is = "object" /\ y.stack[j].v = 1)
                             <=> (z.stack[j].is = "object" /\ z.stack[j].v = 1)
      BY <1>10
    <2>4. Alive(y.stack, n) = Alive(z.stack, n)
      BY <1>12, <2>3, AliveSame
    <2> QED BY <1>3, <1>7, <1>12, <2>2, <2>4
  <1>21. Balanced(p, y, V)
    <2>1. KeptTo(z.stack, y.stack, U, n)
      BY <1>10 DEF KeptTo
    <2>2. Len(V) = Len(y.stack) /\ \A i \in n + 1 .. Len(V) : SlotOK(p, y.stack, V, i)
      BY <1>9, <1>10, <1>18
    <2>3. LinkY(V, Len(V), y.yp) /\ y.live = Alive(y.stack, Len(V))
      BY <1>9, <1>19, <1>20
    <2> QED BY <1>1, <1>7, <1>9, <1>12, <2>1, <2>2, <2>3, Rebalanced
  <1>22. Runs(p, y, V, s)
    <2>1. AtPlace(p, V, s, Len(V), y.code, y.ip)
      BY <1>1, <1>7, <1>9, <1>11 DEF AtPlace
    <2>2. Len(V) - s >= 4
      BY <1>1, <1>9, <1>12
    <2> QED BY <1>7, <1>9, <1>11, <1>19, <2>1, <2>2 DEF Runs
  <1> QED BY <1>9, <1>12, <1>21, <1>22

(* Both handlers of a descriptor are cleared.                              *)
BothCleared(z, d) == [z EXCEPT !.stack[d + 1].v = NoHandler, !.stack[d + 2].v = NoHandler]

(* Both handlers are taken off.                                            *)
LEMMA ClearedBoth ==
  ASSUME NEW z, NEW d, NEW a, a = Cleared(z, d + 1), NEW b, b = Cleared(a, d + 2)
  PROVE  b = BothCleared(z, d)
  BY DEF Cleared, BothCleared

(* The machine x may leave the descriptor d: none above it has a finally.  *)
Innermost(x, T, d) == \A e \in Nat : IsTry(T, e) /\ e > d => x.stack[e + 2].v = NoHandler

(* CallFinally calls the finally handler of the descriptor d.              *)
LEMMA FinallySteps ==
  ASSUME NEW p, NEW x, NEW T, Balanced(p, x, T), Settles(T), x.status = "running",
         NEW d, IsTry(T, d), x.xp = d, x.stack[d + 2].v # NoHandler, Innermost(x, T, d),
         NEW thrown \in Thrown \cup {NoException},
         thrown = NoException =>
            /\ x.code = T[d + 5].f /\ AtPlace(p, T, T[d + 5].s, d, T[d + 5].f, x.ip)
            /\ ~Caught(p, T[d + 5].f, x.ip),
         NEW y, y = CallFinally(x, thrown)
  PROVE  Steps(p, x, T, y)
  <1> DEFINE K == d + 5
             U == SubSeq(T, 1, K)
             f == T[K].f
             s == T[K].s
             g == T[d + 2].v
  <1>1. Descriptor(p, x, T, d)
    BY DescriptorIs
  <1>2. /\ d \in Nat /\ K \in 1 .. Len(T) /\ T[d + 1].is = "handler" /\ T[d + 2].is = "finally"
        /\ T[d + 5].is = "xp"
        /\ x.stack[d + 2].v \in {T[d + 2].v, NoHandler}
        /\ x.stack[d + 3].v = f /\ x.stack[d + 4].v = s + 4 /\ g \in Int
        /\ T[d + 2].v # NoHandler => AtFinally(p, T, s, K, f, g)
        /\ d >= s + 4 /\ s \in Nat /\ f \in DOMAIN Code[p] /\ Holds(x, d, ExceptionDesc)
    BY <1>1 DEF Descriptor
  <1>3. x.stack[d + 2].v = g /\ AtFinally(p, T, s, K, f, g)
    BY <1>2
  <1>4. IsCut(T, K, U)
    BY DEF IsCut
  <1>a. thrown = NoException => x.code = f /\ AtPlace(p, T, s, d, f, x.ip) /\ ~Caught(p, f, x.ip)
    OBVIOUS
  <1>b. s = T[d + 5].s
    OBVIOUS
  <1> HIDE DEF U, f, s, g, K
  <1>5. /\ K = d + 5 /\ K \in Nat /\ d + 1 \in 1 .. K /\ d + 2 \in 1 .. K /\ d + 5 \in 1 .. K /\ K <= K
        /\ K > d /\ d <= K /\ d + 1 # d + 2
    BY <1>2 DEF K
  <1>6. PICK z : z = Truncate(FreeFor(x, d), d + ExceptDescSize)
    OBVIOUS
  <1>7. /\ Balanced(p, z, U) /\ z.xp = d /\ z.status = "running" /\ z.code = x.code /\ z.ip = x.ip
        /\ z.ret = x.ret /\ \A i \in 1 .. K : z.stack[i] = x.stack[i]
        /\ Len(U) = K /\ SameTo(T, U, K) /\ LinkX(U, K, d)
    <2>1. IsCut(T, d + 5, U)
      BY <1>4, <1>5
    <2> QED BY <1>5, <1>6, <2>1, KeepTryIs
  <1>8. U[d + 1].is = "handler" /\ U[d + 2].is = "finally" /\ U[d + 5].is = "xp" /\ U[d + 5].s = s
    BY <1>2, <1>5, <1>7, <1>b DEF SameTo
  <1>9. PICK a : a = Cleared(z, d + 1)
    OBVIOUS
  <1>10. /\ Balanced(p, a, U) /\ a.xp = d /\ a.status = "running" /\ a.code = x.code /\ a.ip = x.ip
         /\ a.ret = x.ret /\ a.stack[d + 1].v = NoHandler
    <2>1. d + 1 \in 1 .. Len(U)
      BY <1>5, <1>7
    <2>2. a.stack[d + 1] = Word(U[d + 1].is, NoHandler)
      BY <1>7, <1>8, <1>9, <2>1, ClearedIs
    <2>3. Balanced(p, a, U) /\ a.xp = z.xp /\ a.status = z.status /\ a.code = z.code /\ a.ip = z.ip
          /\ a.ret = z.ret
      BY <1>7, <1>8, <1>9, <2>1, ClearedIs
    <2> QED BY <1>7, <2>2, <2>3 DEF Word
  <1>11. PICK b : b = Cleared(a, d + 2)
    OBVIOUS
  <1>12. /\ Balanced(p, b, U) /\ b.xp = d /\ b.status = "running" /\ b.code = x.code /\ b.ip = x.ip
         /\ b.ret = x.ret /\ b.stack[d + 1].v = NoHandler /\ b.stack[d + 2].v = NoHandler
    <2>1. d + 1 \in 1 .. Len(U) /\ d + 2 \in 1 .. Len(U) /\ d + 1 # d + 2
      BY <1>5, <1>7
    <2>2. b.stack[d + 2] = Word(U[d + 2].is, NoHandler) /\ b.stack[d + 1] = a.stack[d + 1]
      BY <1>8, <1>10, <1>11, <2>1, ClearedIs
    <2>3. Balanced(p, b, U) /\ b.xp = a.xp /\ b.status = a.status /\ b.code = a.code /\ b.ip = a.ip
          /\ b.ret = a.ret
      BY <1>8, <1>10, <1>11, <2>1, ClearedIs
    <2> QED BY <1>10, <2>2, <2>3 DEF Word
  <1>13. PICK words : SavesWords(words, b, thrown)
    BY DEF SavesWords
  <1>14. y = Calling(Push(b, words), f, g, s + 4)
    <2>1. d + 1 + 1 = d + 2 /\ d + 2 + 1 = d + 3 /\ d + 3 + 1 = d + 4
      BY <1>2
    <2>2. At(x, d + 2).v = f /\ At(x, d + 1).v = g /\ At(x, d + 3).v = s + 4
      BY <1>2, <1>3, <2>1 DEF At
    <2>3. HasFinally(x)
      BY <1>3, <2>2 DEF HasFinally
    <2>4. b = [z EXCEPT !.stack[d + 1].v = NoHandler, !.stack[d + 2].v = NoHandler]
      <3>1. b = BothCleared(z, d)
        BY <1>9, <1>11, ClearedBoth
      <3> QED BY <3>1 DEF BothCleared
    <2>5. words = <<Word("thrown", thrown), Word("value", x.ret), Word("type", 0), Word("ip", x.ip),
                    Word("code", x.code)>>
      BY <1>12, <1>13 DEF SavesWords
    <2>6. y = [Push(b, words) EXCEPT !.code = At(x, d + 2).v, !.ip = At(x, d + 1).v, !.fp = At(x, d + 3).v]
      BY <1>2, <1>6, <2>3, <2>4, <2>5 DEF CallFinally
    <2> QED BY <2>2, <2>6 DEF Calling
  <1>15. Saving(p, b, U, d, s, f, g, thrown)
    <2>1. AtFinally(p, U, s, d + 5, f, g)
      BY <1>3, <1>5, <1>7, AtFinallyKept
    <2>2. thrown = NoException => AtPlace(p, U, s, d, f, x.ip)
      BY <1>5, <1>7, <1>a, AtPlaceKept
    <2>3. thrown = NoException => b.code = f /\ AtPlace(p, U, s, d, f, b.ip) /\ ~Caught(p, f, b.ip)
      BY <1>12, <1>a, <2>2
    <2> QED BY <1>2, <1>5, <1>7, <1>8, <1>12, <2>1, <2>3 DEF Saving
  <1>16. PICK V : Balanced(p, y, V) /\ Runs(p, y, V, s) /\ SameTo(U, V, d + 5)
    BY <1>13, <1>14, <1>15, SavingIs
  <1>17. Passed(x, T, V)
    <2>1. SameTo(T, V, K)
      BY <1>5, <1>7, <1>16 DEF SameTo
    <2>2. SameTo(T, V, K) /\ K \in {d, d + 5} /\ K # d
      BY <1>5, <2>1
    <2>3. \A e \in Nat : IsTry(T, e) /\ e > d => x.stack[e + 2].v = NoHandler
      BY DEF Innermost
    <2> QED BY <2>2, <2>3, PassedTry
  <1> QED BY <1>2, <1>16, <1>17 DEF Steps, Good

(* The steps of a machine with the same stack.                             *)
LEMMA StepsLike ==
  ASSUME NEW p, NEW x, NEW z, NEW T, NEW y, Steps(p, z, T, y), z.stack = x.stack
  PROVE  Steps(p, x, T, y)
  BY DEF Steps, Passed

(* First the words of T are cut to U, then the step goes on.               *)
LEMMA StepsVia ==
  ASSUME NEW p, NEW x, NEW z, NEW T, NEW U, NEW y, Passed(x, T, U), Steps(p, z, U, y),
         Len(U) \in Nat, \A i \in 1 .. Len(U) : z.stack[i] = x.stack[i]
  PROVE  Steps(p, x, T, y)
  <1>1. PICK V : Good(p, y, V) /\ (y.status = "running" => Passed(z, U, V))
    BY DEF Steps
  <1>2. ASSUME Passed(z, U, V) PROVE Passed(x, T, V)
    <2>1. ASSUME NEW d \in Nat, IsTry(T, d), ~IsTry(V, d) PROVE x.stack[d + 2].v = NoHandler
      <3>1. CASE ~IsTry(U, d)
        BY <2>1, <3>1 DEF Passed
      <3>2. CASE IsTry(U, d)
        <4>1. z.stack[d + 2].v = NoHandler
          BY <1>2, <2>1, <3>2 DEF Passed
        <4>2. d + 2 \in 1 .. Len(U)
          BY <3>2 DEF IsTry
        <4> QED BY <4>1, <4>2
      <3> QED BY <3>1, <3>2
    <2> QED BY <2>1 DEF Passed
  <1> QED BY <1>1, <1>2 DEF Steps

(* The handler of a catch, in the order the code stores.                   *)
CaughtBy(z, d, f, q, fp, e) ==
    [z EXCEPT !.exception = e, !.stack[d + 1].v = NoHandler, !.code = f, !.ip = q, !.fp = fp]

(* The catch of micro_instruction_Throw, one assignment after another.     *)
LEMMA CaughtByIs ==
  ASSUME NEW p, NEW z \in Machines(p), NEW d, NEW f, NEW q, NEW fp, NEW e
  PROVE  CaughtBy(z, d, f, q, fp, e) = Catching(Cleared(z, d + 1), f, q, fp, e)
  BY DEF CaughtBy, Catching, Cleared, Machines

(* No descriptor has a handler left: the run ends with the exception.      *)
Ending(x, thrown) == [x EXCEPT !.xp = InvalidPtr, !.exception = thrown, !.status = "halt"]

(* No handler is left: the run ends with the exception.                    *)
LEMMA EndingSteps ==
  ASSUME NEW p, NEW x, NEW T, Loose(p, x, T), NEW thrown \in Thrown, NEW y, y = Ending(x, thrown)
  PROVE  Steps(p, x, T, y)
  <1>1. Balanced(p, x, T) /\ Settles(T) /\ x \in Machines(p)
    BY DEF Loose, Balanced
  <1>2. thrown \in Values(p) /\ InvalidPtr \in Int
    BY DEF Values, InvalidPtr
  <1>3. /\ y \in Machines(p) /\ y.stack = x.stack /\ y.yp = x.yp /\ y.live = x.live
        /\ y.status = "halt"
    BY <1>1, <1>2 DEF Ending, Machines
  <1>4. Balanced(p, y, T)
    BY <1>1, <1>3, RebalancedOther
  <1>5. Stands(y, T)
    BY <1>1, <1>3 DEF Stands, Settles
  <1> QED BY <1>3, <1>4, <1>5 DEF Steps, Good

(* The end of the chain of descriptors is InvalidPtr.                      *)
LEMMA EndIs ==
  ASSUME NEW p, NEW x, NEW T, Loose(p, x, T), NEW D, D = {d \in Nat : IsTry(T, d)}
  PROVE  (IF D = {} THEN x.xp ELSE At(x, Lowest(D) + 4).v) = InvalidPtr
  <1>1. CASE D = {}
    <2>1. ~IsTry(T, x.xp)
      <3>1. IsTry(T, x.xp) => x.xp \in D
        BY DEF IsTry
      <3> QED BY <1>1, <3>1
    <2> QED BY <1>1, <2>1, LooseTry
  <1>2. CASE D # {}
    <2>1. PICK e : e = Lowest(D)
      OBVIOUS
    <2>2. e \in D /\ \A n \in D : e <= n
      BY <1>2, <2>1, LowestIs
    <2>3. e \in Nat /\ IsTry(T, e)
      BY <2>2
    <2>4. Descriptor(p, x, T, e)
      BY <2>3, DescriptorIs DEF Loose
    <2>5. PICK v : v = x.stack[e + 5].v
      OBVIOUS
    <2>6. LinkX(T, e, v) /\ e + 5 <= Len(T) /\ Len(T) \in Nat
      BY <2>4, <2>5, BalancedIs DEF Descriptor, Loose
    <2>7. v = InvalidPtr
      <3> SUFFICES ASSUME v # InvalidPtr PROVE FALSE
        OBVIOUS
      <3>1. v \in Nat /\ v + 5 <= e /\ T[v + 5].is = "xp"
        BY <2>6 DEF LinkX
      <3>2. v \in D
        BY <2>3, <2>6, <3>1 DEF IsTry
      <3>3. e <= v
        BY <2>2, <3>2
      <3> QED BY <2>3, <3>1, <3>3
    <2>8. At(x, e + 4).v = v
      <3>1. e + 4 + 1 = e + 5
        BY <2>3
      <3> QED BY <2>5, <3>1 DEF At
    <2> QED BY <1>2, <2>1, <2>7, <2>8
  <1> QED BY <1>1, <1>2

(* The exception goes to the innermost handler.                            *)
Unwinding(x, d) == [x EXCEPT !.xp = d]
Backed(x) == [x EXCEPT !.ip = @ - 1]

(* xp is set to the descriptor that has a handler.                         *)
LEMMA UnwindingIs ==
  ASSUME NEW p, NEW x, NEW T, Loose(p, x, T), NEW d \in Nat, NEW z, z = Unwinding(x, d), NEW b, b = Backed(z)
  PROVE  /\ Balanced(p, z, T) /\ z.stack = x.stack /\ z.xp = d /\ z.status = "running"
         /\ Balanced(p, b, T) /\ b.stack = x.stack /\ b.xp = d /\ b.status = "running"
  <1>1. Balanced(p, x, T) /\ x \in Machines(p) /\ x.status = "running"
    BY DEF Loose, Balanced
  <1>2. /\ z \in Machines(p) /\ z.stack = x.stack /\ z.yp = x.yp /\ z.live = x.live
        /\ z.xp = d /\ z.status = "running"
    BY <1>1 DEF Unwinding, Machines
  <1>3. /\ b \in Machines(p) /\ b.stack = x.stack /\ b.yp = x.yp /\ b.live = x.live
        /\ b.xp = d /\ b.status = "running"
    BY <1>2 DEF Backed, Machines
  <1> QED BY <1>1, <1>2, <1>3, RebalancedOther

(* micro_instruction_Throw, to the end, to a catch or to a finally.        *)
LEMMA ThrowSteps ==
  ASSUME NEW p, NEW x, NEW T, Loose(p, x, T), NEW thrown \in Thrown, NoException \notin Thrown,
         NEW y, y = Throw(x, thrown)
  PROVE  Steps(p, x, T, y)
  <1>1. Balanced(p, x, T) /\ LinkX(T, Len(T), x.xp) /\ Settles(T) /\ x.status = "running"
    BY DEF Loose
  <1>2. PICK D : D = Descriptors(x)
    OBVIOUS
  <1>3. D = {d \in Nat : IsTry(T, d)}
    BY <1>1, <1>2, DescriptorsAre
  <1>4. PICK H : H = {d \in D : At(x, d).v # NoHandler \/ At(x, d + 1).v # NoHandler}
    OBVIOUS
  <1>5. H \in SUBSET Nat
    BY <1>3, <1>4
  <1>6. (IF D = {} THEN x.xp ELSE At(x, Lowest(D) + 4).v) = InvalidPtr
    BY <1>3, EndIs
  <1>7. CASE H = {}
    <2>1. y = Ending(x, thrown)
      BY <1>2, <1>4, <1>6, <1>7 DEF Throw, Ending
    <2> QED BY <2>1, EndingSteps
  <1>8. CASE H # {}
    <2>1. PICK d : d = Highest(H)
      OBVIOUS
    <2>2. d \in H /\ \A k \in H : k <= d
      <3>1. \A k \in H : k <= Len(T) /\ Len(T) \in Nat
        <4>1. Len(T) \in Nat
          BY <1>1, BalancedIs
        <4> QED BY <1>3, <1>4, <4>1 DEF IsTry
      <3> QED BY <1>5, <1>8, <2>1, <3>1, HighestIs
    <2>3. d \in Nat /\ IsTry(T, d) /\ (At(x, d).v # NoHandler \/ At(x, d + 1).v # NoHandler)
      BY <1>3, <1>4, <2>2
    <2>4. d + 1 + 1 = d + 2 /\ At(x, d).v = x.stack[d + 1].v /\ At(x, d + 1).v = x.stack[d + 2].v
      BY <2>3 DEF At
    <2>5. Innermost(x, T, d)
      <3>1. ASSUME NEW e \in Nat, IsTry(T, e), e > d PROVE x.stack[e + 2].v = NoHandler
        <4>1. ~(e <= d)
          BY <2>3, <3>1
        <4>2. e \in D /\ e \notin H
          BY <1>3, <2>2, <3>1, <4>1
        <4>3. At(x, e + 1).v = NoHandler
          BY <1>4, <4>2
        <4>4. e + 1 + 1 = e + 2
          OBVIOUS
        <4> QED BY <4>3, <4>4 DEF At
      <3> QED BY <3>1 DEF Innermost
    <2>6. PICK z : z = Unwinding(x, d)
      OBVIOUS
    <2>7. PICK b : b = Backed(z)
      OBVIOUS
    <2>8. /\ Balanced(p, z, T) /\ z.stack = x.stack /\ z.xp = d /\ z.status = "running"
          /\ Balanced(p, b, T) /\ b.stack = x.stack /\ b.xp = d /\ b.status = "running"
      BY <2>3, <2>6, <2>7, UnwindingIs
    <2>9. CASE At(x, d).v = NoHandler
      <3>1. y = CallFinally(b, thrown)
        BY <1>2, <1>4, <1>8, <2>1, <2>6, <2>7, <2>9 DEF Throw, Unwinding, Backed
      <3>2. b.stack[d + 2].v # NoHandler
        BY <2>3, <2>4, <2>8, <2>9
      <3>3. Innermost(b, T, d)
        BY <2>5, <2>8 DEF Innermost
      <3>4. thrown \in Thrown \cup {NoException} /\ thrown # NoException
        OBVIOUS
      <3>5. Steps(p, b, T, y)
        BY <1>1, <2>3, <2>8, <3>1, <3>2, <3>3, <3>4, FinallySteps
      <3> QED BY <2>8, <3>5, StepsLike
    <2>10. CASE At(x, d).v # NoHandler
      <3>1. PICK w : w = Truncate(FreeFor(z, d), d + ExceptDescSize)
        OBVIOUS
      <3>2. y = CaughtBy(w, d, At(x, d + 2).v, At(x, d).v, At(x, d + 3).v, thrown)
        BY <1>2, <1>4, <1>8, <2>1, <2>6, <2>10, <3>1 DEF Throw, Unwinding, CaughtBy
      <3>3. w \in Machines(p)
        <4>1. PICK U : IsCut(T, d + 5, U)
          BY DEF IsCut
        <4>2. Balanced(p, w, U)
          BY <1>1, <2>3, <2>8, <3>1, <4>1, KeepTryIs
        <4> QED BY <4>2 DEF Balanced
      <3>4. At(z, d).v = At(x, d).v /\ At(z, d + 2).v = At(x, d + 2).v /\ At(z, d + 3).v = At(x, d + 3).v
        BY <2>8 DEF At
      <3>5. y = Catching(Cleared(w, d + 1), At(z, d + 2).v, At(z, d).v, At(z, d + 3).v, thrown)
        BY <3>2, <3>3, <3>4, CaughtByIs
      <3>6. z.stack[d + 1].v # NoHandler
        BY <2>4, <2>8, <2>10
      <3>7. \A e \in Nat : IsTry(T, e) /\ e > d => z.stack[e + 2].v = NoHandler
        BY <2>5, <2>8 DEF Innermost
      <3>8. Steps(p, z, T, y)
        BY <1>1, <2>3, <2>8, <3>1, <3>5, <3>6, <3>7, CatchSteps
      <3> QED BY <2>8, <3>8, StepsLike
    <2> QED BY <2>9, <2>10
  <1> QED BY <1>7, <1>8

(* The machine after the fetch of an instruction.                          *)
LEMMA AdvanceIs ==
  ASSUME NEW p, NEW x, NEW T, NEW s, Ready(p, x, T, s), NEW z, z = Advance(x)
  PROVE  /\ Balanced(p, z, T) /\ LinkX(T, Len(T), z.xp) /\ z.status = "running"
         /\ z.stack = x.stack /\ z.fp = x.fp /\ z.xp = x.xp /\ z.code = x.code /\ z.ip = x.ip + 1
         /\ Settles(T) => Loose(p, z, T)
  <1>1. x \in Machines(p) /\ x.status = "running" /\ x.ip \in Nat /\ Balanced(p, x, T)
        /\ LinkX(T, Len(T), x.xp)
    BY ReadyIs DEF Ready
  <1>2. /\ z \in Machines(p) /\ z.status = "running" /\ z.code = x.code /\ z.ip = x.ip + 1
        /\ z.stack = x.stack /\ z.fp = x.fp /\ z.xp = x.xp /\ z.yp = x.yp /\ z.live = x.live
    BY <1>1, FetchIs DEF Advance, Continues
  <1>3. Balanced(p, z, T)
    BY <1>1, <1>2, RebalancedOther
  <1> QED BY <1>1, <1>2, <1>3 DEF Loose

(* The uppermost descriptor that the map says is that of the machine.      *)
LEMMA UppermostIs ==
  ASSUME NEW p, NEW x, NEW T, NEW s, Ready(p, x, T, s),
         NEW j \in DOMAIN Map(p, x.code, x.ip), Uppermost(Map(p, x.code, x.ip), j),
         NEW d, d = s + j - 5
  PROVE  /\ x.xp = d /\ IsTry(T, d) /\ d + 5 = s + j /\ T[d + 5].s = s /\ T[d + 5].f = x.code
         /\ d = s + (j - 5) /\ j - 5 \in 4 .. Len(Map(p, x.code, x.ip)) /\ d \in 0 .. Len(T)
         /\ Innermost(x, T, d)
  <1> DEFINE W == Map(p, x.code, x.ip)
             N == Len(W)
             n == Len(T)
  <1>1. /\ n \in Nat /\ W \in Seq(MapWords) /\ N \in Nat /\ LinkX(T, n, x.xp) /\ Balanced(p, x, T)
        /\ s + N = n /\ s \in Nat /\ \A i \in 1 .. N : Matches(T[s + i], W[i], s, x.code) /\ s + i \in 1 .. n
    BY ReadyIs DEF Ready
  <1>2. j \in 1 .. N /\ DOMAIN W = 1 .. N
    BY <1>1
  <1>3. W[j].is = "xp" /\ \A k \in 1 .. N : W[k].is = "xp" => k <= j
    BY <1>2 DEF Uppermost, Tries
  <1> HIDE DEF W, N, n
  <1>4. /\ T[s + j].is = "xp" /\ s + j \in 1 .. n /\ T[s + j].s = s /\ T[s + j].f = x.code
    BY <1>1, <1>2, <1>3 DEF Matches
  <1>5. x.xp = d
    <2>1. x.xp # InvalidPtr
      <3> SUFFICES ASSUME x.xp = InvalidPtr PROVE FALSE
        OBVIOUS
      <3>1. \A i \in 1 .. n : T[i].is # "xp"
        BY <1>1 DEF LinkX, InvalidPtr
      <3> QED BY <1>4, <3>1
    <2>2. /\ x.xp \in Nat /\ x.xp + 5 <= n /\ T[x.xp + 5].is = "xp"
          /\ \A i \in x.xp + 6 .. n : T[i].is # "xp"
      BY <1>1, <2>1 DEF LinkX
    <2>3. s + j <= x.xp + 5
      <3>1. ~(s + j \in x.xp + 6 .. n)
        BY <1>4, <2>2
      <3> QED BY <1>1, <1>2, <1>4, <2>2, <3>1
    <2>4. x.xp + 5 <= s + j
      <3> DEFINE k == x.xp + 5 - s
      <3>1. k \in 1 .. N /\ s + k = x.xp + 5
        BY SMTT(30), <1>1, <1>2, <2>2, <2>3
      <3> HIDE DEF k
      <3>2. W[k].is = "xp"
        BY <1>1, <2>2, <3>1 DEF Matches
      <3>3. k <= j
        BY <1>3, <3>1, <3>2
      <3> QED BY <1>1, <1>2, <3>1, <3>3
    <2> QED BY <1>1, <1>2, <2>2, <2>3, <2>4
  <1>6. d + 5 = s + j /\ d = s + (j - 5) /\ d \in Int
    BY <1>1, <1>2
  <1>7. IsTry(T, d)
    <2>1. d \in Nat
      BY <1>1, <1>4, <1>5 DEF LinkX
    <2> QED BY <1>4, <1>6, <2>1 DEF IsTry, n
  <1>8. Descriptor(p, x, T, d)
    BY <1>1, <1>7, DescriptorIs
  <1>9. d >= T[d + 5].s + 4
    BY <1>8 DEF Descriptor
  <1>10. d >= s + 4
    BY <1>4, <1>6, <1>9
  <1>11. j - 5 \in 4 .. N
    BY <1>1, <1>2, <1>6, <1>10
  <1>12. Innermost(x, T, d)
    <2>1. LinkX(T, Len(T), d)
      BY <1>1, <1>5 DEF n
    <2>2. ASSUME NEW e \in Nat, IsTry(T, e) PROVE e <= d
      BY <1>1, <1>7, <2>1, <2>2, UpperIs
    <2>3. d \in Int
      BY <1>6
    <2> QED BY <2>2, <2>3 DEF Innermost
  <1>13. d \in 0 .. n
    BY <1>1, <1>2, <1>4, <1>6, <1>10
  <1> QED BY <1>4, <1>5, <1>6, <1>7, <1>11, <1>12, <1>13 DEF n, N, W

(* The finally handler of the innermost try is called, or the try is left. *)
LEMMA CallFinallySteps ==
  ASSUME NEW p, NEW x, NEW T, NEW s, Ready(p, x, T, s), Instr(p, x).op = "CallFinally",
         NEW y, y = CallFinally(Advance(x), NoException)
  PROVE  Steps(p, x, T, y)
  <1> DEFINE W == Map(p, x.code, x.ip)
             f == x.code
             q == x.ip + 1
  <1>1. Fits(p, x.code, x.ip) /\ W = Shape[p][x.code][x.ip].words
        /\ Instr(p, x) = Code[p][x.code][x.ip]
    BY InstrFits DEF Map
  <1>2. Settled(W) /\ \E j \in DOMAIN W : Uppermost(W, j) /\ Goes(p, f, q, SubSeq(W, 1, j - 5), FALSE)
    BY <1>1 DEF Fits
  <1>3. PICK j \in DOMAIN W : Uppermost(W, j) /\ Goes(p, f, q, SubSeq(W, 1, j - 5), FALSE)
    BY <1>2
  <1>4. PICK d : d = s + j - 5
    OBVIOUS
  <1>5. /\ x.xp = d /\ IsTry(T, d) /\ T[d + 5].s = s /\ T[d + 5].f = f
        /\ d = s + (j - 5) /\ j - 5 \in 4 .. Len(W) /\ d \in 0 .. Len(T) /\ Innermost(x, T, d)
    BY <1>3, <1>4, UppermostIs
  <1>6. Settles(T)
    BY <1>2, SettledIs
  <1>7. PICK z : z = Advance(x)
    OBVIOUS
  <1>8. /\ Balanced(p, z, T) /\ z.status = "running" /\ z.stack = x.stack /\ z.xp = d /\ z.code = f
        /\ z.ip = q /\ Loose(p, z, T)
    BY <1>5, <1>6, <1>7, AdvanceIs
  <1>9. /\ T \in Seq(Slots(p)) /\ s \in Nat /\ Mapped(T, s, Len(T), f, W) /\ f \in DOMAIN Code[p]
        /\ d \in Nat /\ W \in Seq(MapWords) /\ Len(W) \in Nat
    BY <1>5, ReadyIs
  <1>10. PICK k : k = j - 5
    OBVIOUS
  <1>11. /\ k \in 4 .. Len(W) /\ k \in Nat /\ k >= 4 /\ k <= Len(W) /\ k \in 0 .. Len(W) /\ d = s + k
         /\ Goes(p, f, q, SubSeq(W, 1, k), FALSE)
    <2>1. Goes(p, f, q, SubSeq(W, 1, k), FALSE)
      BY <1>3, <1>10
    <2>2. k \in 4 .. Len(W) /\ d = s + k /\ Len(W) \in Nat
      BY <1>5, <1>9, <1>10
    <2> HIDE DEF W
    <2>3. k \in Nat /\ k >= 4 /\ k <= Len(W) /\ k \in 0 .. Len(W)
      BY <2>2
    <2> QED BY <2>1, <2>2, <2>3, Zenon
  <1>12. Descriptor(p, z, T, d)
    BY <1>5, <1>8, DescriptorIs
  <1>13. Holds(z, z.xp, ExceptionDesc) /\ At(z, z.xp + 1).v = z.stack[d + 2].v
    <2>1. d + 1 + 1 = d + 2
      BY <1>9
    <2> QED BY <1>8, <1>12, <2>1 DEF Descriptor, At
  <1> HIDE DEF W, f, q
  <1>14. CASE z.stack[d + 2].v # NoHandler
    <2>1. Goes(p, f, q, SubSeq(W, 1, k), FALSE)
      BY <1>11
    <2>2. q \in DOMAIN Shape[p][f] /\ Map(p, f, q) = SubSeq(W, 1, k) /\ ~Caught(p, f, q)
      BY <2>1 DEF Goes, Map, Caught
    <2>3. Mapped(T, s, d, f, SubSeq(W, 1, k))
      <3>1. Mapped(SubSeq(T, 1, s + k), s, s + k, f, SubSeq(W, 1, k))
        BY <1>9, <1>11, MappedCut
      <3>2. PICK U : U = SubSeq(T, 1, d)
        OBVIOUS
      <3>3. SameTo(U, T, d)
        <4>1. IsCut(T, d, U)
          BY <3>2 DEF IsCut
        <4>2. SameTo(T, U, d)
          BY <1>5, <1>9, <4>1, CutSame
        <4> QED BY <4>2 DEF SameTo
      <3>4. Mapped(U, s, d, f, SubSeq(W, 1, k)) /\ d <= d
        BY <1>9, <1>11, <3>1, <3>2
      <3> QED BY <1>9, <3>3, <3>4, MappedKept
    <2>4. AtPlace(p, T, s, d, f, q)
      BY <1>9, <2>2, <2>3 DEF AtPlace
    <2>5. z.code = T[d + 5].f /\ AtPlace(p, T, T[d + 5].s, d, T[d + 5].f, z.ip) /\ ~Caught(p, T[d + 5].f, z.ip)
      BY <1>5, <1>8, <2>2, <2>4
    <2>6. Innermost(z, T, d)
      BY <1>5, <1>8 DEF Innermost
    <2>7. NoException \in Thrown \cup {NoException}
      OBVIOUS
    <2>8. Steps(p, z, T, y)
      BY <1>5, <1>6, <1>7, <1>8, <1>14, <2>5, <2>6, <2>7, FinallySteps
    <2> QED BY <1>8, <2>8, StepsLike
  <1>15. CASE z.stack[d + 2].v = NoHandler
    <2>1. y = LeaveTry(z)
      BY <1>7, <1>13, <1>15 DEF CallFinally, HasFinally
    <2>2. PICK U : IsCut(T, d, U)
      BY DEF IsCut
    <2>3. /\ Loose(p, y, U) /\ y.fp = T[d + 5].s + 4 /\ y.code = z.code /\ y.ip = z.ip
      <3>1. Leaving(p, z, T, d, U, y)
        BY <1>5, <1>8, <2>1, <2>2 DEF Leaving
      <3> QED BY <3>1, LeaveTryIs DEF Left
    <2>4. Len(U) = d /\ SameTo(T, U, d) /\ SameTo(U, T, d) /\ d <= d
      <3>1. Len(U) = d /\ SameTo(T, U, d)
        BY <1>5, <1>9, <2>2, CutSame
      <3> QED BY <1>9, <3>1 DEF SameTo
    <2>5. Balanced(p, y, U) /\ LinkX(U, d, y.xp) /\ y.status = "running"
      BY <2>3, <2>4 DEF Loose
    <2>6. LinkX(T, d, y.xp)
      BY <1>9, <2>4, <2>5, LinkKept
    <2>7. y.fp = s + 4 /\ y.code = f /\ y.ip = q
      BY <1>5, <1>8, <2>3
    <2>8. Runs(p, y, U, s)
      BY <1>5, <1>9, <1>11, <2>2, <2>5, <2>6, <2>7, CutRuns
    <2>9. Passed(x, T, U)
      <3>1. x.stack[d + 2].v = NoHandler /\ Balanced(p, x, T)
        BY <1>8, <1>15 DEF Ready
      <3>2. \A e \in Nat : IsTry(T, e) /\ e > d => x.stack[e + 2].v = NoHandler
        BY <1>5 DEF Innermost
      <3>3. d \in {d, d + 5}
        OBVIOUS
      <3> QED BY <1>5, <2>4, <3>1, <3>2, <3>3, PassedTry
    <2> QED BY <1>9, <2>5, <2>8, <2>9 DEF Steps, Good
  <1> QED BY <1>14, <1>15

(* The words that CallFinally saved are on top, behind their descriptor d. *)
FinallyTop(T, d, s, f) ==
    /\ d \in Nat /\ s \in Nat /\ d >= s + 4 /\ Len(T) = d + 10
    /\ T[d + 5].is = "xp" /\ T[d + 6].is = "thrown" /\ T[d + 7].is = "value" /\ T[d + 8].is = "type"
    /\ T[d + 9].is = "ip" /\ T[d + 10].is = "code"
    /\ T[d + 10].s = s /\ T[d + 10].f = f /\ T[d + 5].s = s

(* The descriptor and the words saved, on top where a finally block ends.  *)
LEMMA FinallyTopIs ==
  ASSUME NEW p, NEW x, NEW T, NEW s, Ready(p, x, T, s), FinallyOnTop(Map(p, x.code, x.ip)),
         NEW d, d = Len(T) - 10
  PROVE  FinallyTop(T, d, s, x.code)
  <1> DEFINE W == Map(p, x.code, x.ip)
             N == Len(W)
             n == Len(T)
  <1>1. /\ n \in Nat /\ W \in Seq(MapWords) /\ N \in Nat
        /\ s + N = n /\ s \in Nat /\ \A i \in 1 .. N : Matches(T[s + i], W[i], s, x.code) /\ s + i \in 1 .. n
    BY ReadyIs
  <1>2. N >= 14 /\ W[N - 5].is = "xp" /\ \A i \in 1 .. 5 : W[N - 5 + i] = SavedWords[i]
    BY DEF FinallyOnTop
  <1>3. /\ W[N - 5 + 1].is = "thrown" /\ W[N - 5 + 2].is = "value" /\ W[N - 5 + 3].is = "type"
        /\ W[N - 5 + 4].is = "ip" /\ W[N - 5 + 5].is = "code"
    BY SMTT(30), <1>2, SavedWordsAre
  <1> HIDE DEF W, N, n
  <1>4. /\ N - 5 + 1 = N - 4 /\ N - 5 + 2 = N - 3 /\ N - 5 + 3 = N - 2 /\ N - 5 + 4 = N - 1 /\ N - 5 + 5 = N
    BY <1>1
  <1>5. /\ N - 5 \in 1 .. N /\ N - 4 \in 1 .. N /\ N - 3 \in 1 .. N /\ N - 2 \in 1 .. N /\ N - 1 \in 1 .. N
        /\ N \in 1 .. N
    BY <1>1, <1>2
  <1>6. /\ s + (N - 5) = d + 5 /\ s + (N - 4) = d + 6 /\ s + (N - 3) = d + 7 /\ s + (N - 2) = d + 8
        /\ s + (N - 1) = d + 9 /\ s + N = d + 10
    BY <1>1 DEF n
  <1>7. T[s + (N - 5)].is = "xp" /\ T[s + (N - 5)].s = s /\ T[s + (N - 4)].is = "thrown"
    BY <1>1, <1>2, <1>3, <1>4, <1>5 DEF Matches
  <1>8. T[s + (N - 3)].is = "value" /\ T[s + (N - 2)].is = "type"
    BY <1>1, <1>3, <1>4, <1>5 DEF Matches
  <1>9. T[s + (N - 1)].is = "ip" /\ T[s + N].is = "code" /\ T[s + N].s = s /\ T[s + N].f = x.code
    BY <1>1, <1>3, <1>4, <1>5 DEF Matches
  <1>10. d \in Nat /\ d >= s + 4 /\ Len(T) = d + 10
    <2>1. n \in Nat /\ N \in Nat /\ s \in Nat /\ s + N = n
      BY <1>1
    <2>2. N >= 14
      BY <1>2
    <2>3. d = n - 10
      BY DEF n
    <2>4. d \in Nat /\ d >= s + 4 /\ n = d + 10
      BY <2>1, <2>2, <2>3
    <2> QED BY <2>4 DEF n
  <1> QED BY <1>1, <1>6, <1>7, <1>8, <1>9, <1>10 DEF FinallyTop

(* What they say: the place to come back to.                               *)
LEMMA SavedIs ==
  ASSUME NEW p, NEW x, NEW T, Balanced(p, x, T), NEW d, NEW s, NEW f, FinallyTop(T, d, s, f)
  PROVE  /\ Sp(x) = d + 10 /\ IsTry(T, d) /\ TopIs(x, FinallyRetStack)
         /\ x.stack[d + 1].v = NoHandler /\ x.stack[d + 2].v = NoHandler
         /\ x.stack[d + 6].v \in Thrown \cup {NoException} /\ x.stack[d + 7].v \in Values(p)
         /\ x.stack[d + 9].v \in Int /\ x.stack[d + 10].v \in Values(p)
         /\ x.stack[d + 6].v = NoException =>
                /\ x.stack[d + 10].v = f /\ AtPlace(p, T, s, d, f, x.stack[d + 9].v)
                /\ ~Caught(p, f, x.stack[d + 9].v)
  <1> DEFINE st == x.stack
             n == d + 10
  <1>1. /\ d \in Nat /\ s \in Nat /\ d >= s + 4 /\ Len(T) = n
        /\ T[d + 5].is = "xp" /\ T[d + 6].is = "thrown" /\ T[d + 7].is = "value" /\ T[d + 8].is = "type"
        /\ T[d + 9].is = "ip" /\ T[n].is = "code"
        /\ T[n].s = s /\ T[n].f = f /\ T[d + 5].s = s
    BY DEF FinallyTop
  <1>2. /\ n \in Nat /\ n \in 1 .. n /\ n > 1 /\ n # s + 2 /\ n - 1 = d + 9 /\ n - 10 = d /\ n - 4 = d + 6
        /\ n - 9 = d + 1 /\ n - 8 = d + 2 /\ d + 6 \in 1 .. n /\ d + 7 \in 1 .. n /\ d + 8 \in 1 .. n
        /\ d + 9 \in 1 .. n
    BY <1>1
  <1>3. Sp(x) = n
    BY <1>1, BalancedIs
  <1>a. \A j \in 1 .. n : st[j].is = T[j].is /\ SlotOK(p, st, T, j) /\ st[j] \in StackWords(p)
    BY <1>1, BalancedIs
  <1> HIDE DEF n, st
  <1>4. SlotOK(p, st, T, n) /\ st[n].is = "code" /\ st[n] \in StackWords(p)
    BY <1>1, <1>2, <1>a
  <1>5. T[n - 1].is = "ip"
    BY <1>1, <1>2
  <1>6. SavedOK(p, st, T, n)
    BY <1>1, <1>2, <1>4, <1>5 DEF SlotOK
  <1>7. /\ st[n - 9].v = NoHandler /\ st[n - 8].v = NoHandler
        /\ st[n - 4].v \in Thrown \cup {NoException}
        /\ st[n - 4].v = NoException =>
            /\ st[n].v = T[n].f
            /\ AtPlace(p, T, T[n].s, n - 10, T[n].f, st[n - 1].v)
            /\ ~Caught(p, T[n].f, st[n - 1].v)
    BY <1>6 DEF SavedOK
  <1>8. /\ st[d + 1].v = NoHandler /\ st[d + 2].v = NoHandler
        /\ st[d + 6].v \in Thrown \cup {NoException}
        /\ st[d + 6].v = NoException =>
                /\ st[n].v = f /\ AtPlace(p, T, s, d, f, st[d + 9].v) /\ ~Caught(p, f, st[d + 9].v)
    BY <1>1, <1>2, <1>7
  <1>9. st[d + 7].is = "value" /\ st[d + 7].v \in Values(p) /\ st[n].v \in Values(p)
    <2>1. st[d + 7] \in StackWords(p) /\ st[d + 7].is = "value"
      BY <1>1, <1>2, <1>a
    <2> QED BY <1>4, <2>1 DEF StackWords
  <1>10. st[d + 6].is = "thrown" /\ st[d + 8].is = "type"
    BY <1>1, <1>2, <1>a
  <1>11. st[d + 9].is = "ip" /\ st[d + 9].v \in Int
    <2>1. SlotOK(p, st, T, d + 9) /\ st[d + 9].is = T[d + 9].is
      BY <1>2, <1>a
    <2> QED BY <1>1, <2>1 DEF SlotOK
  <1>12. TopIs(x, FinallyRetStack)
    <2>1. /\ At(x, d + 5).is = "thrown" /\ At(x, d + 6).is = "value" /\ At(x, d + 7).is = "type"
          /\ At(x, d + 8).is = "ip" /\ At(x, d + 9).is = "code"
      <3>1. d + 5 + 1 = d + 6 /\ d + 6 + 1 = d + 7 /\ d + 7 + 1 = d + 8 /\ d + 8 + 1 = d + 9 /\ d + 9 + 1 = n
        BY <1>1 DEF n
      <3> QED BY <1>4, <1>9, <1>10, <1>11, <3>1 DEF At, st
    <2>2. \A i \in 1 .. 5 : i = 1 \/ i = 2 \/ i = 3 \/ i = 4 \/ i = 5
      OBVIOUS
    <2>3. /\ Sp(x) - 5 + 1 - 1 = d + 5 /\ Sp(x) - 5 + 2 - 1 = d + 6 /\ Sp(x) - 5 + 3 - 1 = d + 7
          /\ Sp(x) - 5 + 4 - 1 = d + 8 /\ Sp(x) - 5 + 5 - 1 = d + 9
      BY <1>1, <1>3 DEF n
    <2>4. \A i \in 1 .. 5 : At(x, Sp(x) - 5 + i - 1).is = FinallyRetStack[i]
      <3> TAKE i \in 1 .. 5
      <3>1. /\ FinallyRetStack[1] = "thrown" /\ FinallyRetStack[2] = "value" /\ FinallyRetStack[3] = "type"
            /\ FinallyRetStack[4] = "ip" /\ FinallyRetStack[5] = "code"
        BY DEF FinallyRetStack
      <3>2. i = 1 \/ i = 2 \/ i = 3 \/ i = 4 \/ i = 5
        BY <2>2
      <3> QED BY <2>1, <2>3, <3>1, <3>2
    <2>5. Len(FinallyRetStack) = 5 /\ DOMAIN FinallyRetStack = 1 .. 5
      BY DEF FinallyRetStack
    <2>6. Sp(x) >= 5
      BY <1>1, <1>3 DEF n
    <2> QED BY <2>4, <2>5, <2>6 DEF TopIs
  <1>13. IsTry(T, d)
    <2>1. d + 5 <= n
      BY <1>1 DEF n
    <2> QED BY <1>1, <2>1 DEF IsTry
  <1> QED BY <1>3, <1>8, <1>9, <1>11, <1>12, <1>13 DEF n, st

(* They are popped and their try is left.                                  *)
LEMMA PopFinallyIs ==
  ASSUME NEW p, NEW x, NEW T, Balanced(p, x, T), LinkX(T, Len(T), x.xp), x.status = "running",
         NEW d, NEW s, NEW f, FinallyTop(T, d, s, f), NEW U, IsCut(T, d, U), NEW y, y = PopFinally(x)
  PROVE  /\ Loose(p, y, U) /\ y.fp = s + 4 /\ y.code = x.code /\ y.ip = x.ip /\ Len(U) = d
         /\ SameTo(T, U, d) /\ Passed(x, T, U)
         /\ \A i \in 1 .. d : y.stack[i] = x.stack[i]
  <1> DEFINE K == d + 5
  <1>1. /\ d \in Nat /\ s \in Nat /\ d >= s + 4 /\ Len(T) = d + 10
        /\ T[d + 5].is = "xp" /\ T[d + 6].is = "thrown" /\ T[d + 7].is = "value" /\ T[d + 8].is = "type"
        /\ T[d + 9].is = "ip" /\ T[d + 10].is = "code" /\ T[d + 5].s = s
    BY DEF FinallyTop
  <1>2. /\ Sp(x) = d + 10 /\ IsTry(T, d) /\ TopIs(x, FinallyRetStack)
        /\ x.stack[d + 1].v = NoHandler /\ x.stack[d + 2].v = NoHandler /\ x.stack[d + 7].v \in Values(p)
    BY SavedIs
  <1>3. PICK V : IsCut(T, K, V)
    BY DEF IsCut
  <1>4. /\ K = d + 5 /\ K \in Nat /\ K \in 0 .. Len(T) /\ K <= K /\ d \in 0 .. K /\ d \in 0 .. Len(T)
        /\ Len(T) \in Nat /\ K + 5 = Len(T) /\ K + 1 = d + 6
    BY <1>1
  <1>5. T \in Seq(Slots(p)) /\ x \in Machines(p)
    BY DEF Balanced
  <1> HIDE DEF K
  <1>6. PICK v : v = x.stack[d + 7].v
    OBVIOUS
  <1>7. PICK a : a = WithRet(x, v)
    OBVIOUS
  <1>8. /\ a \in Machines(p) /\ a.stack = x.stack /\ a.code = x.code /\ a.ip = x.ip /\ a.fp = x.fp
        /\ a.xp = x.xp /\ a.yp = x.yp /\ a.live = x.live /\ a.status = x.status
    BY <1>2, <1>5, <1>6, <1>7 DEF WithRet, Machines
  <1>9. Balanced(p, a, T)
    BY <1>8, RebalancedOther
  <1>10. \A j \in K + 1 .. Len(T) : T[j].is \notin {"object", "chain", "xp"}
    <2> TAKE j \in K + 1 .. Len(T)
    <2>1. j = d + 6 \/ j = d + 7 \/ j = d + 8 \/ j = d + 9 \/ j = d + 10
      BY <1>1, <1>4
    <2> QED BY <1>1, <2>1
  <1>11. PICK b : b = Truncate(a, K)
    OBVIOUS
  <1>12. /\ Balanced(p, b, V) /\ b.code = a.code /\ b.ip = a.ip /\ b.xp = a.xp
         /\ b.status = a.status /\ \A i \in 1 .. K : b.stack[i] = a.stack[i]
    <2>1. Pops(p, a, T, K)
      BY <1>4, <1>9, <1>10 DEF Pops
    <2> QED BY <1>3, <1>11, <2>1, PoppedIs
  <1>13. Len(V) = K /\ SameTo(T, V, K) /\ \A i \in 1 .. K : V[i] = T[i]
    BY <1>3, <1>4, <1>5, CutSame
  <1>14. LinkX(V, K, x.xp) /\ LinkX(T, K, x.xp)
    <2>1. \A j \in K + 1 .. Len(T) : T[j].is # "xp"
      BY <1>10
    <2>2. LinkX(T, K, x.xp)
      BY <1>4, <2>1, LinkDown
    <2> QED BY <1>4, <1>13, <2>2, LinkKept
  <1>15. x.xp = d
    <2>1. T[K].is = "xp" /\ K \in 1 .. K
      BY <1>1, <1>4
    <2>2. x.xp # InvalidPtr
      <3> SUFFICES ASSUME x.xp = InvalidPtr PROVE FALSE
        OBVIOUS
      <3>1. \A i \in 1 .. K : T[i].is # "xp"
        BY <1>14 DEF LinkX, InvalidPtr
      <3> QED BY <2>1, <3>1
    <2>3. x.xp \in Nat /\ x.xp + 5 <= K /\ \A j \in x.xp + 6 .. K : T[j].is # "xp"
      BY <1>14, <2>2 DEF LinkX
    <2>4. ~(K \in x.xp + 6 .. K)
      BY <2>1, <2>3
    <2> QED BY SMTT(30), <1>1, <1>4, <2>3, <2>4
  <1>16. V[K].is = "xp" /\ V[K].s = s
    <2>1. K \in 1 .. K
      BY <1>1, <1>4
    <2> QED BY <1>1, <1>4, <1>13, <2>1
  <1>17. Loose(p, b, V)
    <2>1. Settles(V)
      BY <1>13, <1>16 DEF Settles
    <2> QED BY <1>8, <1>12, <1>13, <1>14, <2>1 DEF Loose
  <1>18. y = LeaveTry(b)
    <2>1. Sp(x) - 4 = d + 6 /\ d + 6 + 1 = d + 7 /\ Sp(x) - 5 = K
      BY SMTT(30), <1>1, <1>2, <1>4
    <2>2. At(x, Sp(x) - 4).v = v
      BY <1>6, <2>1 DEF At
    <2>3. y = LeaveTry(Truncate([x EXCEPT !.ret = At(x, Sp(x) - 4).v], Sp(x) - 5))
      BY <1>2 DEF PopFinally
    <2> QED BY <1>7, <1>11, <2>1, <2>2, <2>3 DEF WithRet
  <1>19. IsCut(V, d, U)
    <2>1. U = SubSeq(T, 1, d)
      BY DEF IsCut
    <2>2. SubSeq(V, 1, d) = SubSeq(T, 1, d)
      <3>1. \A i \in 1 .. d : V[i] = T[i]
        BY <1>1, <1>4, <1>13 DEF IsCut
      <3>2. V \in Seq(Slots(p))
        BY <1>3, <1>4, <1>5, CutSame
      <3>3. d <= Len(V) /\ d <= Len(T)
        BY <1>1, <1>4, <1>13
      <3> QED BY <1>1, <1>5, <3>1, <3>2, <3>3
    <2> QED BY <2>1, <2>2 DEF IsCut
  <1>20. /\ Loose(p, y, U) /\ y.fp = V[d + 5].s + 4 /\ y.code = b.code /\ y.ip = b.ip
         /\ \A i \in 1 .. d : y.stack[i] = b.stack[i]
    <2>1. IsTry(V, d)
      BY <1>1, <1>4, <1>13, <1>16 DEF IsTry
    <2>2. d = b.xp
      BY <1>8, <1>12, <1>15
    <2>3. PICK u : u = LeaveTry(b)
      OBVIOUS
    <2>4. Leaving(p, b, V, d, U, u)
      BY <1>17, <1>19, <2>1, <2>2, <2>3 DEF Leaving
    <2>5. Left(p, b, V, d, U, u)
      BY <2>4, LeaveTryIs
    <2>6. y = u
      BY <1>18, <2>3
    <2> QED BY <2>5, <2>6 DEF Left
  <1>21. V[d + 5].s = s
    BY <1>4, <1>16
  <1>22. Len(U) = d /\ SameTo(T, U, d)
    BY <1>4, <1>5, CutSame
  <1>23. Passed(x, T, U)
    <2>1. ASSUME NEW e \in Nat, IsTry(T, e), e > d PROVE x.stack[e + 2].v = NoHandler
      <3>1. e <= d
        <4>1. LinkX(T, Len(T), d)
          BY <1>15
        <4> QED BY <1>2, <2>1, <4>1, UpperIs
      <3> QED BY <1>1, <2>1, <3>1
    <2>2. d \in {d, d + 5}
      OBVIOUS
    <2> QED BY <1>2, <1>22, <2>1, <2>2, PassedTry
  <1>24. \A i \in 1 .. d : y.stack[i] = x.stack[i]
    <2> TAKE i \in 1 .. d
    <2>1. i \in 1 .. K
      BY <1>1, <1>4
    <2> QED BY <1>8, <1>12, <1>20, <2>1
  <1> QED BY <1>8, <1>12, <1>20, <1>21, <1>22, <1>23, <1>24

(* The finally block is left by a jump: it goes on behind the try.         *)
LEMMA LeaveFinallySteps ==
  ASSUME NEW p, NEW x, NEW T, NEW s, Ready(p, x, T, s), Instr(p, x).op = "LeaveFinally",
         NEW y, y = PopFinally(Advance(x))
  PROVE  Steps(p, x, T, y)
  <1> DEFINE W == Map(p, x.code, x.ip)
             f == x.code
             q == x.ip + 1
  <1>1. Fits(p, x.code, x.ip) /\ W = Shape[p][x.code][x.ip].words
        /\ Instr(p, x) = Code[p][x.code][x.ip]
    BY InstrFits DEF Map
  <1>2. FinallyOnTop(W) /\ Goes(p, f, q, SubSeq(W, 1, Len(W) - 10), FALSE)
    BY <1>1 DEF Fits
  <1>3. PICK d : d = Len(T) - 10
    OBVIOUS
  <1>4. FinallyTop(T, d, s, f)
    BY <1>2, <1>3, FinallyTopIs
  <1>5. PICK z : z = Advance(x)
    OBVIOUS
  <1>6. /\ Balanced(p, z, T) /\ LinkX(T, Len(T), z.xp) /\ z.status = "running" /\ z.stack = x.stack
        /\ z.code = f /\ z.ip = q
    BY <1>5, AdvanceIs
  <1>7. PICK U : IsCut(T, d, U)
    BY DEF IsCut
  <1>8. /\ Loose(p, y, U) /\ y.fp = s + 4 /\ y.code = z.code /\ y.ip = z.ip /\ Len(U) = d
        /\ SameTo(T, U, d) /\ Passed(z, T, U)
    BY <1>4, <1>5, <1>6, <1>7, PopFinallyIs
  <1>9. /\ T \in Seq(Slots(p)) /\ s \in Nat /\ Mapped(T, s, Len(T), f, W) /\ f \in DOMAIN Code[p]
        /\ W \in Seq(MapWords) /\ Len(W) \in Nat /\ s + Len(W) = Len(T)
    BY ReadyIs
  <1>10. PICK k : k = Len(W) - 10
    OBVIOUS
  <1>11. Goes(p, f, q, SubSeq(W, 1, k), FALSE)
    BY <1>2, <1>10
  <1> HIDE DEF W, f, q
  <1>12. k \in Nat /\ k >= 4 /\ k <= Len(W) /\ d = s + k /\ d \in 0 .. Len(T) /\ d \in Nat /\ d <= d
    <2>1. Len(W) \in Nat /\ s + Len(W) = Len(T) /\ s \in Nat
      BY <1>9
    <2>2. d \in Nat /\ d >= s + 4
      BY <1>4 DEF FinallyTop
    <2> QED BY <1>3, <1>10, <2>1, <2>2
  <1>13. Balanced(p, y, U) /\ LinkX(U, d, y.xp) /\ y.status = "running" /\ SameTo(U, T, d)
    BY <1>8 DEF Loose, SameTo
  <1>14. LinkX(T, d, y.xp)
    BY <1>12, <1>13, LinkKept
  <1>15. y.code = f /\ y.ip = q /\ y.fp = s + 4
    BY <1>6, <1>8
  <1>16. Runs(p, y, U, s)
    BY <1>7, <1>9, <1>11, <1>12, <1>13, <1>14, <1>15, CutRuns
  <1>17. Passed(x, T, U)
    BY <1>6, <1>8 DEF Passed
  <1> QED BY <1>9, <1>13, <1>16, <1>17 DEF Steps, Good

(* A machine goes elsewhere.                                               *)
LEMMA LooseGoing ==
  ASSUME NEW p, NEW z, NEW U, Loose(p, z, U), NEW f \in Values(p), NEW q \in Int,
         NEW y, y = GoingTo(z, f, q), NEW v, v = Advance(y)
  PROVE  /\ Loose(p, y, U) /\ y.code = f /\ y.ip = q /\ y.fp = z.fp /\ y.stack = z.stack
         /\ Loose(p, v, U) /\ v.stack = z.stack
  <1>1. Balanced(p, z, U) /\ LinkX(U, Len(U), z.xp) /\ Settles(U) /\ z.status = "running"
        /\ z \in Machines(p)
    BY DEF Loose, Balanced
  <1>2. /\ y \in Machines(p) /\ y.stack = z.stack /\ y.yp = z.yp /\ y.live = z.live /\ y.xp = z.xp
        /\ y.status = "running" /\ y.code = f /\ y.ip = q /\ y.fp = z.fp
    BY <1>1 DEF GoingTo, Machines
  <1>3. /\ v \in Machines(p) /\ v.stack = y.stack /\ v.yp = y.yp /\ v.live = y.live /\ v.xp = y.xp
        /\ v.status = "running"
    BY <1>2 DEF Advance, Machines
  <1>4. Balanced(p, y, U)
    BY <1>1, <1>2, RebalancedOther
  <1>5. Balanced(p, v, U)
    BY <1>2, <1>3, <1>4, RebalancedOther
  <1> QED BY <1>1, <1>2, <1>3, <1>4, <1>5 DEF Loose

(* The end of the finally block: execution comes back, or the exception    *)
(* goes on.                                                                *)
LEMMA RetFinallySteps ==
  ASSUME NEW p, NEW x, NEW T, NEW s, Ready(p, x, T, s), Instr(p, x).op = "RetFinally",
         NoException \notin Thrown, NEW y, y = RetFinally(Advance(x))
  PROVE  Steps(p, x, T, y)
  <1> DEFINE f == x.code
  <1>1. Fits(p, x.code, x.ip) /\ Map(p, x.code, x.ip) = Shape[p][x.code][x.ip].words
        /\ Instr(p, x) = Code[p][x.code][x.ip]
    BY InstrFits DEF Map
  <1>2. FinallyOnTop(Map(p, x.code, x.ip))
    BY <1>1 DEF Fits
  <1>3. PICK d : d = Len(T) - 10
    OBVIOUS
  <1>4. FinallyTop(T, d, s, f)
    BY <1>2, <1>3, FinallyTopIs
  <1>5. PICK z : z = Advance(x)
    OBVIOUS
  <1>6. /\ Balanced(p, z, T) /\ LinkX(T, Len(T), z.xp) /\ z.status = "running" /\ z.stack = x.stack
    BY <1>5, AdvanceIs
  <1>7. PICK U : IsCut(T, d, U)
    BY DEF IsCut
  <1>8. PICK u : u = PopFinally(z)
    OBVIOUS
  <1>9. /\ Loose(p, u, U) /\ u.fp = s + 4 /\ Len(U) = d
        /\ SameTo(T, U, d) /\ Passed(z, T, U)
    BY <1>4, <1>6, <1>7, <1>8, PopFinallyIs
  <1>10. \A i \in 1 .. d : u.stack[i] = z.stack[i]
    BY <1>4, <1>6, <1>7, <1>8, PopFinallyIs
  <1>11. /\ Sp(z) = d + 10 /\ TopIs(z, FinallyRetStack)
         /\ z.stack[d + 6].v \in Thrown \cup {NoException}
         /\ z.stack[d + 9].v \in Int /\ z.stack[d + 10].v \in Values(p)
         /\ z.stack[d + 6].v = NoException =>
                /\ z.stack[d + 10].v = f /\ AtPlace(p, T, s, d, f, z.stack[d + 9].v)
                /\ ~Caught(p, f, z.stack[d + 9].v)
    BY <1>4, <1>6, SavedIs
  <1>12. d \in Nat /\ s \in Nat /\ d >= s + 4 /\ d <= d
    BY <1>4 DEF FinallyTop
  <1>13. PICK thrown, g, q : thrown = z.stack[d + 6].v /\ q = z.stack[d + 9].v /\ g = z.stack[d + 10].v
    OBVIOUS
  <1>14. At(z, Sp(z) - 1).v = g /\ At(z, Sp(z) - 2).v = q /\ At(z, Sp(z) - 5).v = thrown
    <2>1. Sp(z) - 1 + 1 = d + 10 /\ Sp(z) - 2 + 1 = d + 9 /\ Sp(z) - 5 + 1 = d + 6
      BY <1>11, <1>12
    <2> QED BY <1>13, <2>1 DEF At
  <1>15. PICK back : back = GoingTo(u, g, q)
    OBVIOUS
  <1>16. PICK v : v = Advance(back)
    OBVIOUS
  <1>17. /\ Loose(p, back, U) /\ back.code = g /\ back.ip = q /\ back.fp = u.fp /\ back.stack = u.stack
         /\ Loose(p, v, U) /\ v.stack = u.stack
    <2>1. g \in Values(p) /\ q \in Int
      BY <1>11, <1>13
    <2>2. Loose(p, u, U)
      BY <1>9
    <2> QED BY <1>15, <1>16, <2>1, <2>2, LooseGoing
  <1>18. back.status = "running" /\ back.status # "undefined"
    BY <1>17 DEF Loose
  <1>19. y = IF thrown = NoException \/ back.status = "undefined" THEN back ELSE Throw(v, thrown)
    <2>1. back = [PopFinally(z) EXCEPT !.code = At(z, Sp(z) - 1).v, !.ip = At(z, Sp(z) - 2).v]
      BY <1>8, <1>14, <1>15 DEF GoingTo
    <2>2. v = [back EXCEPT !.ip = @ + 1]
      BY <1>16 DEF Advance
    <2>3. y = RetFinally(z)
      BY <1>5
    <2> QED BY <1>11, <1>14, <2>1, <2>2, <2>3 DEF RetFinally
  <1>20. Passed(x, T, U)
    BY <1>6, <1>9 DEF Passed
  <1> HIDE DEF f
  <1>21. CASE thrown = NoException
    <2>1. y = back
      BY <1>19, <1>21
    <2>2. g = f /\ AtPlace(p, T, s, d, f, q) /\ ~Caught(p, f, q)
      BY <1>11, <1>13, <1>21
    <2>3. AtPlace(p, U, s, d, f, q)
      BY <1>9, <1>12, <2>2, AtPlaceKept
    <2>4. Runs(p, y, U, s)
      <3>1. LinkX(U, Len(U), y.xp) /\ y.status = "running" /\ y.code = f /\ y.ip = q /\ y.fp = s + 4
        BY <1>9, <1>17, <2>1, <2>2 DEF Loose
      <3>2. Len(U) - s >= 4 /\ Len(U) = d
        BY <1>9, <1>12
      <3> QED BY <2>2, <2>3, <3>1, <3>2 DEF Runs
    <2>5. Balanced(p, y, U)
      BY <1>17, <2>1 DEF Loose
    <2> QED BY <1>12, <1>20, <2>4, <2>5 DEF Steps, Good
  <1>22. CASE thrown # NoException
    <2>1. y = Throw(v, thrown)
      BY <1>18, <1>19, <1>22
    <2>2. thrown \in Thrown
      BY <1>11, <1>13, <1>22
    <2>3. Steps(p, v, U, y)
      BY <1>17, <2>1, <2>2, ThrowSteps
    <2>4. Len(U) \in Nat /\ \A i \in 1 .. Len(U) : v.stack[i] = x.stack[i]
      BY <1>6, <1>9, <1>10, <1>12, <1>17
    <2> QED BY <1>20, <2>3, <2>4, StepsVia
  <1> QED BY <1>21, <1>22

(* A native function throws.                                               *)
LEMMA NativeThrows ==
  ASSUME NEW p, NEW x, NEW T, NEW s, Ready(p, x, T, s), Instr(p, x).op = "CallNative",
         NoException \notin Thrown, NEW kind \in Thrown, NEW y, y = Throw(Advance(x), kind)
  PROVE  Steps(p, x, T, y)
  <1>1. Fits(p, x.code, x.ip) /\ Map(p, x.code, x.ip) = Shape[p][x.code][x.ip].words
        /\ Instr(p, x) = Code[p][x.code][x.ip]
    BY InstrFits DEF Map
  <1>2. Settled(Map(p, x.code, x.ip))
    BY <1>1 DEF Fits
  <1>3. Settles(T)
    BY <1>2, SettledIs
  <1>4. PICK z : z = Advance(x)
    OBVIOUS
  <1>5. Loose(p, z, T) /\ z.stack = x.stack
    BY <1>3, <1>4, AdvanceIs
  <1>6. Steps(p, z, T, y)
    BY <1>4, <1>5, ThrowSteps
  <1> QED BY <1>5, <1>6, StepsLike

(* throw: the exception is popped and goes to its handler.                 *)
LEMMA DoThrowSteps ==
  ASSUME NEW p, NEW x, NEW T, NEW s, Ready(p, x, T, s), Instr(p, x).op = "Throw",
         NoException \notin Thrown, NEW z, z = Truncate(Advance(x), Sp(x) - 1),
         NEW y, y = Throw(z, At(x, Sp(x) - 1).v)
  PROVE  Steps(p, x, T, y)
  <1> DEFINE W == Map(p, x.code, x.ip)
             N == Len(W)
             n == Len(T)
  <1>1. Fits(p, x.code, x.ip) /\ W = Shape[p][x.code][x.ip].words
        /\ Instr(p, x) = Code[p][x.code][x.ip]
    BY InstrFits DEF Map
  <1>2. N >= 5 /\ W[N] = Exception /\ Settled(SubSeq(W, 1, N - 1))
    BY <1>1 DEF Fits
  <1>3. /\ n \in Nat /\ W \in Seq(MapWords) /\ N \in Nat /\ Sp(x) = n /\ T \in Seq(Slots(p))
        /\ s + N = n /\ s \in Nat /\ \A i \in 1 .. N : Matches(T[s + i], W[i], s, x.code) /\ s + i \in 1 .. n
        /\ Balanced(p, x, T) /\ x.stack \in Seq(StackWords(p)) /\ Len(x.stack) = n
    BY ReadyIs DEF Ready
  <1>4. PICK k : k = n - 1
    OBVIOUS
  <1>a. PICK M : M = N - 1
    OBVIOUS
  <1>5. M \in 0 .. N /\ M >= 4 /\ W[M].is # "object"
    <2>1. Len(SubSeq(W, 1, M)) = M /\ M \in 0 .. N /\ \A i \in 1 .. M : SubSeq(W, 1, M)[i] = W[i]
      <3>1. M \in 0 .. N
        BY <1>2, <1>3, <1>a
      <3> QED BY <1>3, <3>1, CutIs
    <2>2. M >= 4 /\ SubSeq(W, 1, M)[M].is # "object"
      BY <1>2, <1>a, <2>1 DEF Settled
    <2> QED BY <2>1, <2>2
  <1>6. W[N].is = "thrown" /\ W[N].v = Held
    BY <1>2 DEF Exception, Word
  <1> HIDE DEF W, N, n
  <1>b. N \in Nat /\ N >= 5
    BY <1>2, <1>3
  <1>7. /\ k \in 0 .. n /\ k + 1 = n /\ n \in 1 .. n /\ s + M = k /\ s + N = n /\ N \in 1 .. N /\ M \in 1 .. N
        /\ k \in 1 .. n /\ k > 0
    BY <1>3, <1>4, <1>5, <1>a, <1>b
  <1>8. T[n].is = "thrown" /\ T[n].v = Held /\ T[k].is # "object"
    <2>1. Matches(T[n], W[N], s, x.code) /\ Matches(T[k], W[M], s, x.code)
      BY <1>3, <1>7
    <2> QED BY <1>5, <1>6, <2>1 DEF Matches
  <1>9. x.stack[n].v \in Thrown /\ x.stack[n].is = "thrown"
    <2>1. SlotOK(p, x.stack, T, n) /\ x.stack[n].is = T[n].is
      BY <1>3, <1>7, BalancedIs DEF n
    <2> QED BY <1>8, <2>1 DEF SlotOK
  <1>10. At(x, Sp(x) - 1) = x.stack[n]
    <2>1. Sp(x) - 1 + 1 = n
      BY <1>3
    <2> QED BY <2>1 DEF At
  <1>12. PICK a : a = Advance(x)
    OBVIOUS
  <1>13. /\ Balanced(p, a, T) /\ LinkX(T, n, a.xp) /\ a.status = "running" /\ a.stack = x.stack
    BY <1>12, AdvanceIs DEF n
  <1>14. PICK U : IsCut(T, k, U)
    BY DEF IsCut
  <1>15. z = Truncate(a, k)
    BY <1>3, <1>4, <1>12
  <1>16. /\ Balanced(p, z, U) /\ z.xp = a.xp /\ z.status = a.status
         /\ \A i \in 1 .. k : z.stack[i] = a.stack[i]
    <2>1. \A j \in k + 1 .. n : j = n
      BY <1>3, <1>7
    <2>2. \A j \in k + 1 .. n : T[j].is \notin {"object", "chain"}
      BY <1>8, <2>1
    <2>3. Pops(p, a, T, k)
      BY <1>7, <1>13, <2>2 DEF Pops, n
    <2> QED BY <1>14, <1>15, <2>3, PoppedIs
  <1>17. Len(U) = k /\ SameTo(T, U, k) /\ \A i \in 1 .. k : U[i] = T[i]
    BY <1>3, <1>7, <1>14, CutSame DEF n
  <1>18. \A j \in k + 1 .. n : T[j].is # "xp"
    <2>1. \A j \in k + 1 .. n : j = n
      BY <1>3, <1>7
    <2> QED BY <1>8, <2>1
  <1>19. LinkX(U, k, z.xp)
    <2>1. LinkX(T, k, a.xp)
      BY <1>3, <1>7, <1>13, <1>18, LinkDown
    <2>2. k <= k /\ k \in Nat
      BY <1>7
    <2> QED BY <1>16, <1>17, <2>1, <2>2, LinkKept
  <1>20. Loose(p, z, U)
    <2>1. Settles(U)
      BY <1>7, <1>8, <1>17 DEF Settles
    <2> QED BY <1>13, <1>16, <1>17, <1>19, <2>1 DEF Loose
  <1>21. Steps(p, z, U, y)
    <2>1. PICK thrown \in Thrown : thrown = x.stack[n].v
      BY <1>9
    <2>2. y = Throw(z, thrown)
      BY <1>10, <2>1
    <2> QED BY <1>20, <2>2, ThrowSteps
  <1>22. Passed(x, T, U)
    <2>1. k \in 0 .. Len(T) /\ \A j \in k + 1 .. Len(T) : T[j].is # "xp"
      BY <1>7, <1>18 DEF n
    <2> QED BY <1>17, <2>1, PassedCut
  <1>23. Len(U) \in Nat /\ \A i \in 1 .. Len(U) : z.stack[i] = x.stack[i]
    BY <1>7, <1>13, <1>16, <1>17
  <1> QED BY <1>21, <1>22, <1>23, StepsVia

(* The exception is on top of the stack.                                   *)
LEMMA ThrownOnTop ==
  ASSUME NEW p, NEW x, NEW T, NEW s, Ready(p, x, T, s), Instr(p, x).op \in {"Throw", "CastObject"}
  PROVE  TopIs(x, <<"thrown">>)
  <1> DEFINE W == Map(p, x.code, x.ip)
             N == Len(W)
  <1>1. Fits(p, x.code, x.ip) /\ W = Shape[p][x.code][x.ip].words
        /\ Instr(p, x) = Code[p][x.code][x.ip]
    BY InstrFits DEF Map
  <1>2. N >= 5 /\ W[N] = Exception
    BY <1>1 DEF Fits
  <1>3. W[N].is = "thrown" /\ N \in Nat /\ N - 0 = N
    BY <1>2, ReadyIs DEF Exception, Word
  <1>4. 0 < N /\ 0 \in Nat
    BY <1>2, <1>3
  <1>5. /\ Len(T) - 0 \in 1 .. Len(T) /\ Matches(T[Len(T) - 0], W[N - 0], s, x.code)
        /\ x.stack[Len(T) - 0].is = T[Len(T) - 0].is
    BY <1>4, TopMapped
  <1>6. Len(T) - 0 = Len(T) /\ Len(T) \in Nat /\ Sp(x) = Len(T) /\ Len(T) >= 1
    <2>1. Len(T) \in Nat /\ Sp(x) = Len(T)
      BY ReadyIs
    <2> QED BY <1>5, <2>1
  <1>7. x.stack[Len(T)].is = "thrown"
    BY <1>3, <1>5, <1>6 DEF Matches
  <1>8. Sp(x) - 1 + 1 - 1 + 1 = Len(T)
    BY <1>6
  <1> HIDE DEF N, W
  <1>9. At(x, Sp(x) - 1 + 1 - 1).is = "thrown"
    BY <1>7, <1>8 DEF At
  <1> QED BY <1>6, <1>9 DEF TopIs

-----------------------------------------------------------------------------
(* The steps of the machine.                                               *)

(* The stores of MakeObjChain and StoreLocal.                              *)
LEMMA StoresAre ==
  ASSUME NEW p, NEW z \in Machines(p), NEW i, NEW v, NEW yp, NEW n
  PROVE  /\ [z EXCEPT !.stack[i] = v, !.yp = yp] = Writing(z, i, v, yp, z.live)
         /\ [z EXCEPT !.stack[i] = v, !.live = n] = Writing(z, i, v, z.yp, n)
  BY DEF Writing, Machines

(* The instruction that is executed.                                       *)
LEMMA FetchedIs ==
  ASSUME NEW op, Executes(op)
  PROVE  Instr(prog, m) = Fetched /\ Instr(prog, m).op = op /\ Fetch = Advance(m)
  BY DEF Executes, Fetched, Instr, Fetch, Advance


(* Every instruction.                                                      *)
LEMMA InstructionSteps ==
  ASSUME NEW T, NEW s, Ready(prog, m, T, s), NoException \notin Thrown,
         Next, ~EndRun, ~FinishFunctionResult, ~Finished
  PROVE  Steps(prog, m, T, m')

  <1>1. ASSUME EnterFunc PROVE Steps(prog, m, T, m')
    <2>1. Instr(prog, m) = Fetched /\ Instr(prog, m).op = "EnterFunc" /\ Fetch = Advance(m)
      BY <1>1, FetchedIs DEF EnterFunc
    <2>2. PICK words : TwoWords(words, Word("dp", 0), Word("fp", m.fp))
      BY DEF TwoWords
    <2>3. PICK z : z = Push(Advance(m), words)
      OBVIOUS
    <2>4. m' = WithFp(z, Sp(m) + 2)
      BY <1>1, <2>1, <2>2, <2>3 DEF EnterFunc, WithFp, TwoWords
    <2> QED BY <2>1, <2>2, <2>3, <2>4, EnterFuncSteps
  <1>2. ASSUME LeaveFunc PROVE Steps(prog, m, T, m')
    <2>1. Instr(prog, m) = Fetched /\ Instr(prog, m).op = "LeaveFunc" /\ Fetch = Advance(m)
      BY <1>2, FetchedIs DEF LeaveFunc
    <2>2. PICK z : z = Truncate(FreeFor(Advance(m), m.fp), m.fp - 2)
      OBVIOUS
    <2>3. PICK y : y = WithFp(z, At(m, m.fp - 1).v)
      OBVIOUS
    <2>4. Holds(m, m.fp - 2, <<"dp", "fp">>) /\ Steps(prog, m, T, y)
      BY <2>1, <2>2, <2>3, LeaveFuncSteps
    <2>5. m' = y
      BY <1>2, <2>1, <2>2, <2>3, <2>4 DEF LeaveFunc, WithFp
    <2> QED BY <2>4, <2>5
  <1>3. ASSUME Return PROVE Steps(prog, m, T, m')
    <2>1. Instr(prog, m) = Fetched /\ Instr(prog, m).op = "Return" /\ Fetch = Advance(m)
      BY <1>3, FetchedIs DEF Return
    <2>2. PICK z : z = Truncate(m, Sp(m) - 2)
      OBVIOUS
    <2>3. PICK y : y = GoingTo(z, At(m, Sp(m) - 1).v, At(m, Sp(m) - 2).v)
      OBVIOUS
    <2>4. TopIs(m, <<"ip", "code">>) /\ Steps(prog, m, T, y)
      BY <2>1, <2>2, <2>3, ReturnSteps
    <2>5. z \in Machines(prog)
      <3>1. m \in Machines(prog)
        BY ReadyIs
      <3>2. PICK k : k = IF Sp(m) - 2 < 0 THEN 0 ELSE Sp(m) - 2
        OBVIOUS
      <3>3. z = [m EXCEPT !.stack = SubSeq(m.stack, 1, k)]
        BY <2>2, <3>1, <3>2 DEF Truncate, Machines
      <3>4. k \in 0 .. Len(m.stack)
        BY <3>1, <3>2 DEF Sp, Machines
      <3>5. SubSeq(m.stack, 1, k) \in Seq(StackWords(prog))
        BY <3>1, <3>4 DEF Machines
      <3> QED BY <3>1, <3>3, <3>5 DEF Machines
    <2>6. [z EXCEPT !.ip = At(m, Sp(m) - 2).v, !.code = At(m, Sp(m) - 1).v] = y
      BY <2>3, <2>5 DEF GoingTo, Machines
    <2>7. m' = [z EXCEPT !.ip = At(m, Sp(m) - 2).v, !.code = At(m, Sp(m) - 1).v]
      BY <1>3, <2>2, <2>4 DEF Return
    <2> QED BY <2>4, <2>6, <2>7
  <1>4. ASSUME Call PROVE Steps(prog, m, T, m')
    <2>1. Instr(prog, m) = Fetched /\ Instr(prog, m).op = "Call" /\ Fetch = Advance(m)
      BY <1>4, FetchedIs DEF Call
    <2>2. PICK words : TwoWords(words, Word("ip", m.ip + 1), Word("code", m.code))
      BY DEF TwoWords
    <2>3. PICK z : z = Push(m, words)
      OBVIOUS
    <2>4. m' = GoingTo(z, Instr(prog, m).to, 1)
      BY <1>4, <2>1, <2>2, <2>3 DEF Call, GoingTo, TwoWords
    <2> QED BY <2>1, <2>2, <2>3, <2>4, CallSteps
  <1>5. ASSUME LoadHandler PROVE Steps(prog, m, T, m')
    <2>1. Instr(prog, m) = Fetched /\ Instr(prog, m).op = "LoadHandler" /\ Fetch = Advance(m)
      BY <1>5, FetchedIs DEF LoadHandler
    <2>2. PICK w : w = Word("handler", Fetched.to)
      OBVIOUS
    <2>3. PICK words : OneWord(words, w)
      BY DEF OneWord
    <2>4. m' = Push(Advance(m), words)
      BY <1>5, <2>1, <2>2, <2>3 DEF LoadHandler, OneWord
    <2> QED BY <2>1, <2>2, <2>3, <2>4, LoadHandlerSteps
  <1>6. ASSUME LoadFinally PROVE Steps(prog, m, T, m')
    <2>1. Instr(prog, m) = Fetched /\ Instr(prog, m).op = "LoadFinally" /\ Fetch = Advance(m)
      BY <1>6, FetchedIs DEF LoadFinally
    <2>2. PICK w : w = Word("finally", Fetched.to)
      OBVIOUS
    <2>3. PICK words : OneWord(words, w)
      BY DEF OneWord
    <2>4. m' = Push(Advance(m), words)
      BY <1>6, <2>1, <2>2, <2>3 DEF LoadFinally, OneWord
    <2> QED BY <2>1, <2>2, <2>3, <2>4, LoadHandlerSteps
  <1>7. ASSUME EnterTry PROVE Steps(prog, m, T, m')
    <2>1. Instr(prog, m) = Fetched /\ Instr(prog, m).op = "EnterTry" /\ Fetch = Advance(m)
      BY <1>7, FetchedIs DEF EnterTry
    <2>2. PICK words : ThreeWords(words, Word("code", m.code), Word("fp", m.fp), Word("xp", m.xp))
      BY DEF ThreeWords
    <2>3. PICK z : z = Push(Advance(m), words)
      OBVIOUS
    <2>4. m' = WithXp(z, Sp(m) + 3 - ExceptDescSize)
      BY <1>7, <2>1, <2>2, <2>3 DEF EnterTry, WithXp, ThreeWords
    <2> QED BY <2>1, <2>2, <2>3, <2>4, EnterTrySteps
  <1>8. ASSUME DoCallFinally PROVE Steps(prog, m, T, m')
    <2>1. Instr(prog, m) = Fetched /\ Instr(prog, m).op = "CallFinally" /\ Fetch = Advance(m)
      BY <1>8, FetchedIs DEF DoCallFinally
    <2> QED BY <1>8, <2>1, CallFinallySteps DEF DoCallFinally
  <1>9. ASSUME DoRetFinally PROVE Steps(prog, m, T, m')
    <2>1. Instr(prog, m) = Fetched /\ Instr(prog, m).op = "RetFinally" /\ Fetch = Advance(m)
      BY <1>9, FetchedIs DEF DoRetFinally
    <2> QED BY <1>9, <2>1, RetFinallySteps DEF DoRetFinally
  <1>10. ASSUME LeaveFinally PROVE Steps(prog, m, T, m')
    <2>1. Instr(prog, m) = Fetched /\ Instr(prog, m).op = "LeaveFinally" /\ Fetch = Advance(m)
      BY <1>10, FetchedIs DEF LeaveFinally
    <2> QED BY <1>10, <2>1, LeaveFinallySteps DEF LeaveFinally
  <1>11. ASSUME LoadThrown PROVE Steps(prog, m, T, m')
    <2>1. Instr(prog, m) = Fetched /\ Instr(prog, m).op = "LoadThrown" /\ Fetch = Advance(m)
      BY <1>11, FetchedIs DEF LoadThrown
    <2>2. PICK kind \in Thrown : m' = Push(Fetch, <<Word("thrown", kind)>>)
      BY <1>11 DEF LoadThrown
    <2>3. PICK w : w = Word("thrown", kind)
      OBVIOUS
    <2>4. PICK words : OneWord(words, w)
      BY DEF OneWord
    <2>5. m' = Push(Advance(m), words)
      BY <2>1, <2>2, <2>3, <2>4 DEF OneWord
    <2> QED BY <2>1, <2>3, <2>4, <2>5, LoadThrownSteps
  <1>12. ASSUME DoThrow PROVE Steps(prog, m, T, m')
    <2>1. Instr(prog, m) = Fetched /\ Instr(prog, m).op = "Throw" /\ Fetch = Advance(m)
      BY <1>12, FetchedIs DEF DoThrow
    <2>2. TopIs(m, <<"thrown">>)
      BY <2>1, ThrownOnTop
    <2>3. PICK z : z = Truncate(Advance(m), Sp(m) - 1)
      OBVIOUS
    <2>4. m' = Throw(z, At(m, Sp(m) - 1).v)
      BY <1>12, <2>1, <2>2, <2>3 DEF DoThrow
    <2> QED BY <2>1, <2>3, <2>4, DoThrowSteps
  <1>13. ASSUME LoadException PROVE Steps(prog, m, T, m')
    <2>1. Instr(prog, m) = Fetched /\ Instr(prog, m).op = "LoadException" /\ Fetch = Advance(m)
      BY <1>13, FetchedIs DEF LoadException
    <2>2. PICK w : w = Word("thrown", m.exception)
      OBVIOUS
    <2>3. PICK words : OneWord(words, w)
      BY DEF OneWord
    <2>4. m' = Push(Advance(m), words)
      BY <1>13, <2>1, <2>2, <2>3 DEF LoadException, OneWord
    <2> QED BY <2>1, <2>2, <2>3, <2>4, LoadExceptionSteps
  <1>14. ASSUME CastObject PROVE Steps(prog, m, T, m')
    <2>1. Instr(prog, m) = Fetched /\ Instr(prog, m).op = "CastObject" /\ Fetch = Advance(m)
      BY <1>14, FetchedIs DEF CastObject
    <2>2. TopIs(m, <<"thrown">>)
      BY <2>1, ThrownOnTop
    <2>3. CASE At(m, Sp(m) - 1).v = Fetched.at
      <3>1. PICK words : OneWord(words, Word("object", 1))
        BY DEF OneWord
      <3>2. PICK z : z = Truncate(Advance(m), Sp(m) - 1)
        OBVIOUS
      <3>3. m' = Counting(Push(z, words))
        BY <1>14, <2>1, <2>2, <2>3, <3>1, <3>2 DEF CastObject, OneWord, Counting
      <3> QED BY <2>1, <3>1, <3>2, <3>3, CastHitSteps
    <2>4. CASE At(m, Sp(m) - 1).v # Fetched.at
      <3>1. PICK z : z = Landing(m, Instr(prog, m).to)
        OBVIOUS
      <3>2. m' = FreeCount(z, Instr(prog, m).n)
        BY <1>14, <2>1, <2>2, <2>4, <3>1 DEF CastObject, Landing
      <3> QED BY <2>1, <3>1, <3>2, CastMissSteps
    <2> QED BY <2>3, <2>4
  <1>15. ASSUME ClearException PROVE Steps(prog, m, T, m')
    <2>1. Instr(prog, m) = Fetched /\ Instr(prog, m).op = "ClearException" /\ Fetch = Advance(m)
      BY <1>15, FetchedIs DEF ClearException
    <2>2. m' = WithException(Advance(m), NoException)
      BY <1>15, <2>1 DEF ClearException, WithException
    <2> QED BY <2>1, <2>2, AdvanceSteps
  <1>16. ASSUME NewObject PROVE Steps(prog, m, T, m')
    <2>1. Instr(prog, m) = Fetched /\ Instr(prog, m).op = "NewObject" /\ Fetch = Advance(m)
      BY <1>16, FetchedIs DEF NewObject
    <2>2. PICK r \in {0, 1} : m' = [Push(Fetch, <<Word("object", r), Word("chain", m.yp)>>)
                                       EXCEPT !.yp = Sp(m), !.live = @ + r]
      BY <1>16 DEF NewObject
    <2>3. PICK words : TwoWords(words, Word("object", r), Word("chain", m.yp))
      BY DEF TwoWords
    <2>4. m' = Owning(Push(Advance(m), words), Sp(m), r)
      BY <2>1, <2>2, <2>3 DEF Owning, TwoWords
    <2> QED BY <2>1, <2>3, <2>4, NewObjectSteps
  <1>17. ASSUME PushObjChain PROVE Steps(prog, m, T, m')
    <2>1. Instr(prog, m) = Fetched /\ Instr(prog, m).op = "PushObjChain" /\ Fetch = Advance(m)
      BY <1>17, FetchedIs DEF PushObjChain
    <2>2. PICK words : OneWord(words, Word("chain", m.yp))
      BY DEF OneWord
    <2>3. m' = Rechained(Push(Advance(m), words), Sp(m) - 1)
      BY <1>17, <2>1, <2>2 DEF PushObjChain, Rechained, OneWord
    <2> QED BY <2>1, <2>2, <2>3, PushObjChainSteps
  <1>18. ASSUME AllocStack PROVE Steps(prog, m, T, m')
    <2>1. Instr(prog, m) = Fetched /\ Instr(prog, m).op = "AllocStack" /\ Fetch = Advance(m)
      BY <1>18, FetchedIs DEF AllocStack
    <2>2. PICK words : words = IF Fetched.n = 1 THEN <<Word("number", 0)>>
                               ELSE <<Word("object", 0), Word("chain", 0)>>
      OBVIOUS
    <2>3. IF Instr(prog, m).n = 1 THEN OneWord(words, Word("number", 0))
          ELSE TwoWords(words, Word("object", 0), Word("chain", 0))
      BY <2>1, <2>2 DEF OneWord, TwoWords
    <2>4. m' = Push(Advance(m), words)
      BY <1>18, <2>1, <2>2 DEF AllocStack
    <2> QED BY <2>1, <2>3, <2>4, AllocStackSteps
  <1>19. ASSUME MakeObjChain PROVE Steps(prog, m, T, m')
    <2>1. Instr(prog, m) = Fetched /\ Instr(prog, m).op = "MakeObjChain" /\ Fetch = Advance(m)
      BY <1>19, FetchedIs DEF MakeObjChain
    <2>2. PICK chain : chain = m.fp + Instr(prog, m).n
      OBVIOUS
    <2>3. PICK y : y = Writing(Advance(m), chain + 1, Word("chain", m.yp), chain - 1, m.live)
      OBVIOUS
    <2>4. Holds(m, chain - 1, ReleaserDesc) /\ Steps(prog, m, T, y)
      BY <2>1, <2>2, <2>3, MakeObjChainSteps
    <2>5. Fetch \in Machines(prog) /\ Fetch.live = m.live
      <3>1. m \in Machines(prog) /\ m.ip \in Nat /\ m.status = "running"
        BY ReadyIs
      <3> QED BY <3>1, FetchIs DEF Fetch, Continues
    <2>6. m' = [Fetch EXCEPT !.stack[chain + 1] = Word("chain", m.yp), !.yp = chain - 1]
      BY <1>19, <2>1, <2>2, <2>4 DEF MakeObjChain
    <2>7. m' = Writing(Fetch, chain + 1, Word("chain", m.yp), chain - 1, Fetch.live)
      BY <2>5, <2>6, StoresAre
    <2> QED BY <2>1, <2>3, <2>4, <2>5, <2>7
  <1>20. ASSUME StoreLocal PROVE Steps(prog, m, T, m')
    <2>1. Instr(prog, m) = Fetched /\ Instr(prog, m).op = "StoreLocal" /\ Fetch = Advance(m)
      BY <1>20, FetchedIs DEF StoreLocal
    <2>2. PICK local : local = m.fp + Instr(prog, m).n
      OBVIOUS
    <2>3. PICK y : y = Writing(Advance(m), local + 1, Word("object", 1), m.yp, m.live + 1 - At(m, local).v)
      OBVIOUS
    <2>4. Holds(m, local, ReleaserDesc) /\ Steps(prog, m, T, y)
      BY <2>1, <2>2, <2>3, StoreLocalSteps
    <2>5. Fetch \in Machines(prog) /\ Fetch.live = m.live /\ Fetch.yp = m.yp
      <3>1. m \in Machines(prog) /\ m.ip \in Nat /\ m.status = "running"
        BY ReadyIs
      <3> QED BY <3>1, FetchIs DEF Fetch, Continues
    <2>6. m' = [Fetch EXCEPT !.stack[local + 1] = Word("object", 1), !.live = @ + 1 - At(m, local).v]
      BY <1>20, <2>1, <2>2, <2>4 DEF StoreLocal
    <2>7. PICK live : live = Fetch.live + 1 - At(m, local).v
      OBVIOUS
    <2>8. m' = [Fetch EXCEPT !.stack[local + 1] = Word("object", 1), !.live = live]
      BY <2>5, <2>6, <2>7
    <2>9. m' = Writing(Fetch, local + 1, Word("object", 1), Fetch.yp, live)
      <3>1. PICK z, i, v : z = Fetch /\ i = local + 1 /\ v = Word("object", 1)
        OBVIOUS
      <3>2. [z EXCEPT !.stack[i] = v, !.live = live] = Writing(z, i, v, z.yp, live)
        <4>1. z \in Machines(prog)
          BY <2>5, <3>1
        <4> QED BY <4>1 DEF Writing, Machines
      <3> QED BY <2>8, <3>1, <3>2
    <2> QED BY <2>1, <2>3, <2>4, <2>5, <2>7, <2>9
  <1>21. ASSUME Synchronize PROVE Steps(prog, m, T, m')
    <2>1. Instr(prog, m) = Fetched /\ Instr(prog, m).op = "Synchronize" /\ Fetch = Advance(m)
      BY <1>21, FetchedIs DEF Synchronize
    <2>2. PICK r : r = At(m, m.fp + Instr(prog, m).n).v
      OBVIOUS
    <2>3. PICK words : words = IF r = 0 THEN <<Word("object", 0), Word("chain", 0)>>
                               ELSE <<Word("object", 1), Word("chain", m.yp)>>
      OBVIOUS
    <2>4. IF r = 0 THEN TwoWords(words, Word("object", 0), Word("chain", 0))
          ELSE TwoWords(words, Word("object", 1), Word("chain", m.yp))
      BY <2>3 DEF TwoWords
    <2>5. PICK y : y = IF r = 0 THEN Push(Advance(m), words) ELSE Owning(Push(Advance(m), words), Sp(m), 1)
      OBVIOUS
    <2>6. Holds(m, m.fp + Instr(prog, m).n, <<"object">>) /\ Steps(prog, m, T, y)
      BY <2>1, <2>2, <2>4, <2>5, SynchronizeSteps
    <2>7. m' = y
      BY <1>21, <2>1, <2>2, <2>3, <2>5, <2>6 DEF Synchronize, Owning
    <2> QED BY <2>6, <2>7
  <1>22. ASSUME FreeStack PROVE Steps(prog, m, T, m')
    <2>1. Instr(prog, m) = Fetched /\ Instr(prog, m).op = "FreeStack" /\ Fetch = Advance(m)
      BY <1>22, FetchedIs DEF FreeStack
    <2>2. m' = FreeCount(Advance(m), Instr(prog, m).n)
      BY <1>22, <2>1 DEF FreeStack
    <2> QED BY <2>1, <2>2, FreeStackSteps
  <1>23. ASSUME FreeStackLocal PROVE Steps(prog, m, T, m')
    <2>1. Instr(prog, m) = Fetched /\ Instr(prog, m).op = "FreeStackLocal" /\ Fetch = Advance(m)
      BY <1>23, FetchedIs DEF FreeStackLocal
    <2>2. m' = FreeDownTo(Advance(m), m.fp + Instr(prog, m).n)
      BY <1>23, <2>1 DEF FreeStackLocal
    <2> QED BY <2>1, <2>2, FreeStackSteps
  <1>24. ASSUME Jump PROVE Steps(prog, m, T, m')
    <2>1. Instr(prog, m) = Fetched /\ Instr(prog, m).op = "Jump" /\ Fetch = Advance(m)
      BY <1>24, FetchedIs DEF Jump
    <2>2. PICK z : z = Landing(m, Instr(prog, m).to)
      OBVIOUS
    <2>3. m' = FreeCount(z, Instr(prog, m).n)
      BY <1>24, <2>1, <2>2 DEF Jump, Landing
    <2> QED BY <2>1, <2>2, <2>3, JumpSteps
  <1>25. ASSUME JumpNonConditional PROVE Steps(prog, m, T, m')
    <2>1. Instr(prog, m) = Fetched /\ Instr(prog, m).op = "JumpNonConditional" /\ Fetch = Advance(m)
      BY <1>25, FetchedIs DEF JumpNonConditional
    <2>2. PICK z : z = Landing(m, Instr(prog, m).to)
      OBVIOUS
    <2>3. m' = FreeCount(z, Instr(prog, m).n) \/ m' = Advance(m)
      BY <1>25, <2>1, <2>2 DEF JumpNonConditional, Landing
    <2> QED BY <2>1, <2>2, <2>3, JumpSteps, AdvanceSteps
  <1>26. ASSUME JumpConditional PROVE Steps(prog, m, T, m')
    <2>1. Instr(prog, m) = Fetched /\ Instr(prog, m).op = "JumpConditional" /\ Fetch = Advance(m)
      BY <1>26, FetchedIs DEF JumpConditional
    <2>2. PICK z : z = Landing(m, Instr(prog, m).to)
      OBVIOUS
    <2>3. m' = FreeCount(z, Instr(prog, m).n) \/ m' = Advance(m)
      BY <1>26, <2>1, <2>2 DEF JumpConditional, Landing
    <2> QED BY <2>1, <2>2, <2>3, JumpSteps, AdvanceSteps
  <1>27. ASSUME LoadValue PROVE Steps(prog, m, T, m')
    <2>1. Instr(prog, m) = Fetched /\ Instr(prog, m).op = "LoadValue" /\ Fetch = Advance(m)
      BY <1>27, FetchedIs DEF LoadValue
    <2>2. PICK v \in CaseValues : m' = Push(Fetch, <<Word("number", v)>>)
      BY <1>27 DEF LoadValue
    <2>3. PICK w : w = Word("number", v)
      OBVIOUS
    <2>4. PICK words : OneWord(words, w)
      BY DEF OneWord
    <2>5. m' = Push(Advance(m), words)
      BY <2>1, <2>2, <2>3, <2>4 DEF OneWord
    <2> QED BY <2>1, <2>3, <2>4, <2>5, LoadValueSteps
  <1>28. ASSUME JumpNonEqual PROVE Steps(prog, m, T, m')
    <2>1. Instr(prog, m) = Fetched /\ Instr(prog, m).op = "JumpNonEqual" /\ Fetch = Advance(m)
      BY <1>28, FetchedIs DEF JumpNonEqual
    <2>2. PICK z : z = Landing(m, Instr(prog, m).to)
      OBVIOUS
    <2>3. Holds(m, m.fp + Fetched.at[2], <<"number">>)
      BY <2>1, SwitchHolds
    <2>4. m' = FreeCount(z, Instr(prog, m).n) \/ m' = Advance(m)
      BY <1>28, <2>1, <2>2, <2>3 DEF JumpNonEqual, Landing
    <2> QED BY <2>1, <2>2, <2>4, JumpSteps, AdvanceSteps
  <1>29. ASSUME SetRetValue PROVE Steps(prog, m, T, m')
    <2>1. Instr(prog, m) = Fetched /\ Instr(prog, m).op = "SetRetValue" /\ Fetch = Advance(m)
      BY <1>29, FetchedIs DEF SetRetValue
    <2>2. m' = WithRet(Advance(m), "value")
      BY <1>29, <2>1 DEF SetRetValue, WithRet
    <2> QED BY <2>1, <2>2, AdvanceSteps
  <1>30. ASSUME CallNative PROVE Steps(prog, m, T, m')
    <2>1. Instr(prog, m) = Fetched /\ Instr(prog, m).op = "CallNative" /\ Fetch = Advance(m)
      BY <1>30, FetchedIs DEF CallNative
    <2>2. CASE m' = [Fetch EXCEPT !.ret = "native"]
      <3>1. m' = WithRet(Advance(m), "native")
        BY <2>1, <2>2 DEF WithRet
      <3> QED BY <2>1, <3>1, AdvanceSteps
    <2>3. CASE \E kind \in Thrown : m' = Throw(Fetch, kind)
      <3>1. PICK kind \in Thrown : m' = Throw(Advance(m), kind)
        BY <2>1, <2>3
      <3> QED BY <2>1, <3>1, NativeThrows
    <2> QED BY <1>30, <2>2, <2>3 DEF CallNative
  <1> QED BY <1>1, <1>2, <1>3, <1>4, <1>5, <1>6, <1>7, <1>8, <1>9, <1>10, <1>11, <1>12, <1>13, <1>14, <1>15, <1>16, <1>17, <1>18, <1>19, <1>20, <1>21, <1>22, <1>23, <1>24, <1>25, <1>26, <1>27, <1>28, <1>29, <1>30 DEF Next

(* The run ends: there is no code to return to.                            *)
LEMMA EndRunSteps ==
  ASSUME NEW T, Good(prog, m, T), prog \in DOMAIN Code, FitsMachine(prog), EndRun
  PROVE  Steps(prog, m, T, m')
  <1>1. m.status = "running" /\ m.code = NoCode /\ m' = [m EXCEPT !.status = "halt"]
    BY DEF EndRun
  <1>2. Balanced(prog, m, T) /\ m \in Machines(prog)
    BY DEF Good, Balanced
  <1>3. T = <<>>
    <2>1. ASSUME NEW s \in Nat, Runs(prog, m, T, s) PROVE FALSE
      <3>1. Ready(prog, m, T, s)
        BY <1>2, <2>1 DEF Ready
      <3>2. m.code # NoCode
        BY <3>1, ReadyIs
      <3> QED BY <1>1, <3>2
    <2> QED BY <1>1, <2>1 DEF Good, Stands
  <1>4. /\ m' \in Machines(prog) /\ m'.stack = m.stack /\ m'.yp = m.yp /\ m'.live = m.live
        /\ m'.status = "halt"
    BY <1>1, <1>2 DEF Machines
  <1>5. Balanced(prog, m', T)
    BY <1>2, <1>4, RebalancedOther
  <1>6. Stands(m', T)
    BY <1>3, <1>4 DEF Stands
  <1> QED BY <1>4, <1>5, <1>6 DEF Steps, Good

Over(u) == [u EXCEPT !.status = "finished", !.xp = InvalidPtr, !.fp = 0]

(* The machine after FinishFunctionResult, register by register.           *)
LEMMA OverIs ==
  ASSUME NEW p, NEW u \in Machines(p)
  PROVE  /\ Over(u) \in Machines(p) /\ Over(u).stack = u.stack /\ Over(u).yp = u.yp
         /\ Over(u).live = u.live /\ Over(u).status = "finished"
  <1>1. PICK v : v = [u EXCEPT !.status = "finished"]
    OBVIOUS
  <1>2. v \in Machines(p) /\ v.stack = u.stack /\ v.yp = u.yp /\ v.live = u.live /\ v.status = "finished"
    BY <1>1 DEF Machines
  <1>3. PICK w : w = [v EXCEPT !.xp = InvalidPtr]
    OBVIOUS
  <1>4. w \in Machines(p) /\ w.stack = v.stack /\ w.yp = v.yp /\ w.live = v.live /\ w.status = v.status
    BY <1>2, <1>3 DEF Machines, InvalidPtr
  <1>5. Over(u) = [w EXCEPT !.fp = 0]
    BY <1>1, <1>3 DEF Over, Machines
  <1> QED BY SMTT(30), <1>2, <1>4, <1>5 DEF Machines

(* The stack and the release chain are freed.                              *)
LEMMA FinishSteps ==
  ASSUME NEW T, Good(prog, m, T), FinishFunctionResult
  PROVE  Steps(prog, m, T, m')
  <1>1. /\ m.status = "halt"
        /\ m' = [FreeDownTo(m, 0) EXCEPT !.status = "finished", !.xp = InvalidPtr, !.fp = 0]
    BY DEF FinishFunctionResult
  <1>2. Balanced(prog, m, T) /\ m \in Machines(prog) /\ Len(T) \in Nat /\ Len(m.stack) = Len(T)
    BY BalancedIs DEF Good, Balanced
  <1>3. Settles(T)
    BY <1>1 DEF Good, Runs, Stands, Settles
  <1>4. 0 < Len(T) => T[0 + 1].is # "chain"
    <2> SUFFICES ASSUME 0 < Len(T) PROVE T[1].is # "chain"
      OBVIOUS
    <2>1. 1 \in 1 .. Len(T)
      BY <1>2
    <2>2. \A i \in 1 .. Len(T) : SlotOK(prog, m.stack, T, i)
      BY <1>2 DEF Balanced
    <2>3. SlotOK(prog, m.stack, T, 1)
      BY <2>1, <2>2
    <2> QED BY <2>3 DEF SlotOK, ChainOK
  <1>5. PICK yp \in Int : FreeDownTo(m, 0) = Freed(m, 0, yp) /\ Balanced(prog, Freed(m, 0, yp), SubSeq(T, 1, 0))
    <2>1. 0 \in 0 .. Len(T)
      BY <1>2
    <2> QED BY <1>2, <1>3, <1>4, <2>1, FreeDownToIs
  <1>6. PICK u : u = Freed(m, 0, yp)
    OBVIOUS
  <1>7. PICK U : U = SubSeq(T, 1, 0)
    OBVIOUS
  <1>8. Balanced(prog, u, U) /\ u \in Machines(prog)
    BY <1>5, <1>6, <1>7 DEF Balanced
  <1>9. m' = [u EXCEPT !.status = "finished", !.xp = InvalidPtr, !.fp = 0]
    BY <1>1, <1>5, <1>6
  <1>10. /\ m' \in Machines(prog) /\ m'.stack = u.stack /\ m'.yp = u.yp /\ m'.live = u.live
         /\ m'.status = "finished"
    BY <1>8, <1>9, OverIs DEF Over
  <1>11. Balanced(prog, m', U)
    BY <1>8, <1>10, RebalancedOther
  <1> QED BY <1>10, <1>11 DEF Steps, Good, Stands

(* Every step from a machine that is well goes to one that is.             *)
LEMMA NextSteps ==
  ASSUME NEW T, Good(prog, m, T), prog \in DOMAIN Code, FitsMachine(prog), Next
  PROVE  Steps(prog, m, T, m')
  <1>1. CASE EndRun
    BY <1>1, EndRunSteps
  <1>2. CASE FinishFunctionResult
    BY <1>2, FinishSteps
  <1>3. CASE Finished
    <2>1. m' = m /\ m.status = "finished"
      BY <1>3 DEF Finished, vars
    <2> QED BY <2>1 DEF Steps
  <1>4. CASE ~EndRun /\ ~FinishFunctionResult /\ ~Finished
    <2>1. m.status = "running" /\ m.code # NoCode
      BY <1>4 DEF Next, Executes, EnterFunc, LeaveFunc, Return, Call, LoadHandler, LoadFinally, EnterTry,
         DoCallFinally, DoRetFinally, LeaveFinally, LoadThrown, DoThrow, LoadException, CastObject,
         ClearException, NewObject, PushObjChain, AllocStack, MakeObjChain, StoreLocal, Synchronize,
         FreeStack, FreeStackLocal, Jump, JumpNonConditional, JumpConditional, LoadValue, JumpNonEqual,
         SetRetValue, CallNative
    <2>2. PICK s \in Nat : Runs(prog, m, T, s)
      BY <2>1 DEF Good, Stands
    <2>3. Ready(prog, m, T, s)
      BY <2>2 DEF Ready, Good
    <2>4. NoException \notin Thrown
      BY DEF FitsMachine
    <2> QED BY <1>4, <2>3, <2>4, InstructionSteps
  <1> QED BY <1>1, <1>2, <1>3, <1>4

(* The slots of a machine that begins to run.                              *)
Begun == <<[is |-> "ip", v |-> 0, s |-> 0, f |-> 1], [is |-> "code", v |-> 0, s |-> 0, f |-> 1]>>

(* AsyncCallFunction: the function finds a return address to no code.      *)
LEMMA InitGood ==
  ASSUME Init, FitsMachine(prog)
  PROVE  Good(prog, m, Begun)
  <1> DEFINE p == prog
             T == Begun
             st == <<Word("ip", InvalidCodePos), Word("code", NoCode)>>
  <1>1. /\ p \in DOMAIN Code
        /\ m = [code |-> 1, ip |-> 1, fp |-> 0, xp |-> InvalidPtr, yp |-> InvalidPtr,
                stack |-> st, ret |-> "none", exception |-> NoException, live |-> 0,
                status |-> "running"]
    BY DEF Init
  <1>2. 1 \in DOMAIN Code[p] /\ Goes(p, 1, 1, ReturnAddress, FALSE)
    BY DEF FitsMachine
  <1>3. /\ 1 \in DOMAIN Shape[p][1] /\ Map(p, 1, 1) = ReturnAddress /\ ~Caught(p, 1, 1)
    BY <1>2 DEF Goes, Map, Caught
  <1>4. "ip" \in Kinds /\ "code" \in Kinds
    BY DEF Kinds
  <1>5. st \in Seq(StackWords(p)) /\ Len(st) = 2 /\ st[1] = Word("ip", InvalidCodePos) /\ st[2] = Word("code", NoCode)
    <2>1. InvalidCodePos \in Values(p) /\ NoCode \in Values(p)
      BY DEF Values, InvalidCodePos, NoCode
    <2>2. Word("ip", InvalidCodePos) \in StackWords(p) /\ Word("code", NoCode) \in StackWords(p)
      BY <1>4, <2>1, WordTyped
    <2> QED BY <2>2
  <1>6. T \in Seq(Slots(p)) /\ Len(T) = 2 /\ T[1] = [is |-> "ip", v |-> 0, s |-> 0, f |-> 1]
        /\ T[2] = [is |-> "code", v |-> 0, s |-> 0, f |-> 1]
    <2>1. /\ [is |-> "ip", v |-> 0, s |-> 0, f |-> 1] \in Slots(p)
          /\ [is |-> "code", v |-> 0, s |-> 0, f |-> 1] \in Slots(p)
      BY <1>2, <1>4 DEF Slots
    <2> QED BY <2>1 DEF Begun
  <1> HIDE DEF st, T
  <1>7. /\ st[1].is = "ip" /\ st[1].v = InvalidCodePos /\ st[2].is = "code" /\ st[2].v = NoCode
        /\ T[1].is = "ip" /\ T[1].s = 0 /\ T[1].v = 0 /\ T[1].f = 1
        /\ T[2].is = "code" /\ T[2].s = 0 /\ T[2].v = 0 /\ T[2].f = 1
    BY <1>5, <1>6 DEF Word
  <1>8. /\ m \in Machines(p) /\ m.stack = st /\ m.yp = InvalidPtr /\ m.xp = InvalidPtr /\ m.live = 0 /\ m.fp = 0
        /\ m.code = 1 /\ m.ip = 1 /\ m.status = "running"
    <2>1. 1 \in Values(p) /\ "none" \in Values(p) /\ NoException \in Values(p) /\ InvalidPtr \in Int
      BY DEF Values, Returned, NoException, InvalidPtr
    <2> QED BY <1>1, <1>5, <2>1 DEF Machines
  <1>9. SlotOK(p, st, T, 1)
    <2>1. InvalidCodePos \in Int
      BY DEF InvalidCodePos
    <2> QED BY <1>7, <2>1 DEF SlotOK
  <1>10. SlotOK(p, st, T, 2)
    <2>1. ReturnOK(p, st, T, 2)
      BY <1>7 DEF ReturnOK
    <2> QED BY <1>7, <2>1 DEF SlotOK
  <1>11. \A i \in 1 .. 2 : i = 1 \/ i = 2
    OBVIOUS
  <1>12. \A i \in 1 .. 2 : T[i].is # "xp" /\ ~IsLinked(T[i]) /\ st[i].is # "object"
    BY <1>7, <1>11 DEF IsLinked
  <1>13. LinkX(T, 2, InvalidPtr) /\ LinkY(T, 2, InvalidPtr)
    BY <1>12 DEF LinkX, LinkY
  <1>14. Alive(st, 2) = 0
    <2>1. AliveSet(st, 2) = {}
      <3>1. ASSUME NEW y \in 0 .. 2 - 1, st[y + 1].is = "object" PROVE FALSE
        <4>1. y + 1 \in 1 .. 2
          OBVIOUS
        <4> QED BY <1>12, <3>1, <4>1
      <3> QED BY <3>1 DEF AliveSet
    <2> QED BY <2>1, FS_EmptySet DEF Alive
  <1>15. Balanced(p, m, T)
    <2>1. \A i \in 1 .. Len(T) : SlotOK(p, m.stack, T, i)
      BY <1>6, <1>8, <1>9, <1>10, <1>11
    <2>2. Len(T) = 2 /\ Len(m.stack) = 2 /\ T \in Seq(Slots(p))
      BY <1>5, <1>6, <1>8
    <2> QED BY <1>8, <1>13, <1>14, <2>1, <2>2 DEF Balanced
  <1>16. Mapped(T, 0, 2, 1, ReturnAddress)
    <2>1. ReturnAddress = <<Plain("ip"), Plain("code")>>
      BY DEF ReturnAddress
    <2>2. Plain("ip") \in MapWords /\ Plain("code") \in MapWords
      BY <1>4 DEF Plain, Word, MapWords
    <2>3. /\ ReturnAddress \in Seq(MapWords) /\ Len(ReturnAddress) = 2
          /\ ReturnAddress[1] = Plain("ip") /\ ReturnAddress[2] = Plain("code")
      BY <2>1, <2>2
    <2>4. Matches(T[1], ReturnAddress[1], 0, 1) /\ Matches(T[2], ReturnAddress[2], 0, 1)
      BY <1>7, <2>3 DEF Matches, Plain, Word
    <2>5. \A j \in 1 .. Len(ReturnAddress) : Matches(T[0 + j], ReturnAddress[j], 0, 1)
      BY <1>11, <2>3, <2>4
    <2>6. Len(T) = 2
      BY <1>6
    <2> QED BY <2>3, <2>5, <2>6 DEF Mapped
  <1>17. Runs(p, m, T, 0)
    <2>1. AtPlace(p, T, 0, 2, 1, 1)
      BY <1>2, <1>3, <1>16 DEF AtPlace
    <2>2. Len(T) = 2 /\ CallerFp(T, 0) = 0
      BY <1>6 DEF CallerFp
    <2> QED BY <1>3, <1>8, <1>13, <2>1, <2>2 DEF Runs
  <1>18. 0 \in Nat
    OBVIOUS
  <1>19. Good(p, m, T)
    BY <1>15, <1>17, <1>18 DEF Good
  <1> QED BY <1>19 DEF T

-----------------------------------------------------------------------------
(* What is well has the properties.                                        *)

(* The objects not null are on the release chain, which has an end.        *)
LEMMA GoodLive ==
  ASSUME NEW p, NEW x, NEW T, Balanced(p, x, T), Settles(T)
  PROVE  /\ x.live = Cardinality({yp \in Chained(x) : At(x, yp).v = 1})
         /\ FreeFor(x, 0).status = x.status
  <1> DEFINE n == Len(T)
             st == x.stack
  <1>1. /\ n \in Nat /\ x.live = Alive(st, n) /\ x \in Machines(p)
        /\ \A i \in 1 .. n : st[i].is = T[i].is /\ SlotOK(p, st, T, i)
    BY BalancedIs DEF Balanced
  <1>2. Chained(x) = {y \in Nat : IsObject(T, y)}
    BY ChainedIs
  <1>3. ASSUME NEW y \in AliveSet(st, n)
        PROVE  IsObject(T, y) /\ At(x, y).v = 1 /\ y \in Nat
    <2>1. y \in 0 .. n - 1 /\ st[y + 1].is = "object" /\ st[y + 1].v = 1
      BY DEF AliveSet
    <2>2. y + 1 \in 1 .. n /\ y \in Nat
      BY <1>1, <2>1
    <2>3. T[y + 1].is = "object"
      BY <1>1, <2>1, <2>2
    <2>4. y + 1 # n
      BY <1>1, <2>2, <2>3 DEF Settles
    <2>5. y + 2 \in 1 .. n
      BY <1>1, <2>2, <2>4
    <2>6. SlotOK(p, st, T, y + 2) /\ (y + 2) - 1 = y + 1 /\ y + 2 > 1
      BY <1>1, <2>2, <2>5
    <2>7. T[y + 2].is = "chain" /\ ChainOK(st, T, y + 2)
      BY <2>3, <2>6 DEF SlotOK
    <2>8. T[y + 2].v = Linked
      BY <2>1, <2>6, <2>7 DEF ChainOK
    <2>9. y + 2 <= Len(T)
      BY <2>5
    <2> QED BY <2>1, <2>2, <2>7, <2>8, <2>9 DEF IsObject, IsLinked, At
  <1>4. ASSUME NEW y \in Nat, IsObject(T, y), At(x, y).v = 1
        PROVE  y \in AliveSet(st, n)
    <2>1. y + 2 <= n /\ T[y + 2].is = "chain"
      BY <1>4 DEF IsObject, IsLinked
    <2>2. y + 2 \in 1 .. n /\ y + 1 \in 1 .. n /\ y \in 0 .. n - 1
      BY <1>1, <2>1
    <2>3. SlotOK(p, st, T, y + 2) /\ (y + 2) - 1 = y + 1
      BY <1>1, <2>2
    <2>4. T[y + 1].is = "object"
      BY <2>1, <2>3 DEF SlotOK, ChainOK
    <2>5. st[y + 1].is = "object"
      BY <1>1, <2>2, <2>4
    <2> QED BY <1>4, <2>2, <2>5 DEF AliveSet, At
  <1>5. AliveSet(st, n) = {yp \in Chained(x) : At(x, yp).v = 1}
    BY <1>2, <1>3, <1>4
  <1>6. x.live = Cardinality({yp \in Chained(x) : At(x, yp).v = 1})
    BY <1>1, <1>5 DEF Alive
  <1>7. 0 < n => T[0 + 1].is # "chain"
    <2> SUFFICES ASSUME 0 < n PROVE T[1].is # "chain"
      OBVIOUS
    <2>1. 1 \in 1 .. n
      BY <1>1
    <2>2. SlotOK(p, st, T, 1)
      BY <1>1, <2>1
    <2> QED BY <2>2 DEF SlotOK, ChainOK
  <1>8. 0 \in 0 .. n
    BY <1>1
  <1>9. PICK yp \in Int : FreeFor(x, 0) = [x EXCEPT !.yp = yp, !.live = Alive(x.stack, 0)]
    <2>1. \E yp \in Int :
            /\ FreeFor(x, 0) = [x EXCEPT !.yp = yp, !.live = Alive(x.stack, 0)]
            /\ LinkY(T, 0, yp)
      BY <1>7, <1>8, FreeForIs
    <2> QED BY <2>1
  <1>10. FreeFor(x, 0).status = x.status
    BY <1>1, <1>9 DEF Machines
  <1> QED BY <1>6, <1>10

(* A statement finds the words and the handlers that were counted.         *)
LEMMA GoodFrame ==
  ASSUME NEW T, NEW s, Ready(prog, m, T, s), Fetched.op = "CallNative"
  PROVE  /\ Settles(T) /\ Sp(m) = m.fp + Fetched.n
         /\ {xp \in Descriptors(m) : xp >= m.fp} = {m.fp + offset : offset \in Fetched.nest}
  <1> DEFINE W == Map(prog, m.code, m.ip)
  <1>1. /\ Settled(W) /\ Fetched.n = Len(W) - 4 /\ Fetched.nest = {j - 9 : j \in Tries(W)}
    <2>1. Fits(prog, m.code, m.ip)
      BY InstrFits
    <2> QED BY <2>1 DEF Fits, Fetched, Map
  <1>2. m.fp = s + 4 /\ Settles(T)
    BY <1>1, SettledIs
  <1>3. /\ s \in Nat /\ Len(T) \in Nat /\ Sp(m) = Len(T) /\ Len(W) \in Nat /\ W \in Seq(MapWords)
        /\ s + Len(W) = Len(T) /\ LinkX(T, Len(T), m.xp)
        /\ \A j \in 1 .. Len(W) : Matches(T[s + j], W[j], s, m.code) /\ s + j \in 1 .. Len(T)
    BY ReadyIs
  <1>4. Balanced(prog, m, T)
    BY DEF Ready
  <1>5. Descriptors(m) = {d \in Nat : IsTry(T, d)}
    BY <1>3, <1>4, DescriptorsAre
  <1>6. Sp(m) = m.fp + Fetched.n
    BY <1>1, <1>2, <1>3
  <1>7. ASSUME NEW d \in Nat, IsTry(T, d), d >= m.fp
        PROVE  \E offset \in Fetched.nest : d = m.fp + offset
    <2>1. d + 5 <= Len(T) /\ T[d + 5].is = "xp"
      BY <1>7 DEF IsTry
    <2>2. PICK j : j = d + 5 - s
      OBVIOUS
    <2>3. j \in 1 .. Len(W) /\ s + j = d + 5
      BY <1>2, <1>3, <1>7, <2>1, <2>2
    <2>4. Matches(T[d + 5], W[j], s, m.code)
      BY <1>3, <2>3
    <2>5. W[j].is = "xp"
      BY <2>1, <2>4 DEF Matches
    <2>6. DOMAIN W = 1 .. Len(W)
      BY <1>3
    <2>7. j \in Tries(W)
      BY <2>3, <2>5, <2>6 DEF Tries
    <2>8. j - 9 \in Fetched.nest
      BY <1>1, <2>7
    <2>9. d = m.fp + (j - 9)
      BY <1>2, <1>3, <2>2
    <2> QED BY <2>8, <2>9
  <1>8. ASSUME NEW offset \in Fetched.nest
        PROVE  m.fp + offset \in Nat /\ IsTry(T, m.fp + offset) /\ m.fp + offset >= m.fp
    <2>1. PICK j \in Tries(W) : offset = j - 9
      BY <1>1
    <2>2. j \in DOMAIN W /\ W[j].is = "xp"
      BY <2>1 DEF Tries
    <2>3. j \in 1 .. Len(W)
      BY <1>3, <2>2
    <2>4. Matches(T[s + j], W[j], s, m.code) /\ s + j \in 1 .. Len(T)
      BY <1>3, <2>3
    <2>5. T[s + j].is = "xp" /\ T[s + j].s = s
      BY <2>2, <2>4 DEF Matches
    <2>6. SlotOK(prog, m.stack, T, s + j)
      BY <1>4, <2>4 DEF Balanced
    <2>7. TryOK(prog, m.stack, T, s + j)
      BY <2>5, <2>6 DEF SlotOK
    <2>8. (s + j) - 5 >= s + 4
      BY <2>5, <2>7 DEF TryOK
    <2>9. PICK d : d = m.fp + offset
      OBVIOUS
    <2>10. d \in Nat /\ d + 5 = s + j /\ d >= m.fp
      BY <1>2, <1>3, <2>1, <2>3, <2>8, <2>9
    <2>11. d + 5 <= Len(T)
      BY <1>3, <2>4, <2>10
    <2>12. IsTry(T, d)
      BY <2>5, <2>10, <2>11 DEF IsTry
    <2> QED BY <2>9, <2>10, <2>12
  <1>9. {xp \in Descriptors(m) : xp >= m.fp} = {m.fp + offset : offset \in Fetched.nest}
    BY <1>5, <1>7, <1>8
  <1> QED BY <1>2, <1>6, <1>9

(* What is well has the three invariants.                                  *)
LEMMA GoodProperties ==
  ASSUME NEW T, Good(prog, m, T), prog \in DOMAIN Code, FitsMachine(prog)
  PROVE  WordsReadAsWritten /\ FrameAsCompiled /\ LiveIsChained
  <1>1. Balanced(prog, m, T)
    BY DEF Good
  <1>2. WordsReadAsWritten
    BY DEF Good, Runs, Stands, WordsReadAsWritten
  <1>3. ASSUME AtCall
        PROVE  /\ Settles(T) /\ Sp(m) = m.fp + Fetched.n
               /\ {xp \in Descriptors(m) : xp >= m.fp} = {m.fp + offset : offset \in Fetched.nest}
    <2>1. m.status = "running" /\ m.code # NoCode /\ Fetched.op = "CallNative"
      BY <1>3 DEF AtCall
    <2>2. PICK s \in Nat : Runs(prog, m, T, s)
      BY <2>1 DEF Good, Stands
    <2>3. Ready(prog, m, T, s)
      BY <1>1, <2>2 DEF Ready
    <2> QED BY <2>1, <2>3, GoodFrame
  <1>4. ASSUME m.status = "halt" PROVE Settles(T)
    BY <1>4 DEF Good, Runs, Stands, Settles
  <1>5. FrameAsCompiled
    BY <1>3 DEF FrameAsCompiled
  <1>6. LiveIsChained
    <2> SUFFICES ASSUME AtCall \/ m.status = "halt"
                 PROVE  /\ m.live = Cardinality({yp \in Chained(m) : At(m, yp).v = 1})
                        /\ FreeFor(m, 0).status # "undefined"
      BY DEF LiveIsChained
    <2>1. Settles(T)
      BY <1>3, <1>4
    <2>2. m.status # "undefined"
      BY <1>2 DEF WordsReadAsWritten
    <2> QED BY <1>1, <2>1, <2>2, GoodLive
  <1> QED BY <1>2, <1>5, <1>6

(* A descriptor with a finally handler is not left by a step.              *)
LEMMA GoodEntered ==
  ASSUME NEW T, Good(prog, m, T), prog' = prog, Steps(prog, m, T, m'),
         m.status = "running", m'.status = "running"
  PROVE  \A xp \in Descriptors(m) \ Descriptors(m') : At(m, xp + 1).v = NoHandler
  <1>1. ASSUME NEW x, NEW U, Good(prog, x, U), x.status = "running"
        PROVE  Descriptors(x) = {d \in Nat : IsTry(U, d)}
    <2>1. Balanced(prog, x, U) /\ Len(U) \in Nat
      BY <1>1, BalancedIs DEF Good
    <2>2. LinkX(U, Len(U), x.xp)
      <3>1. CASE \E s \in Nat : Runs(prog, x, U, s)
        BY <3>1 DEF Runs
      <3>2. CASE Stands(x, U)
        <4>1. U = <<>> /\ x.xp = InvalidPtr
          BY <1>1, <3>2 DEF Stands
        <4>2. Len(U) = 0
          BY <4>1
        <4> QED BY <4>1, <4>2 DEF LinkX
      <3> QED BY <1>1, <3>1, <3>2 DEF Good
    <2> QED BY <2>1, <2>2, DescriptorsAre
  <1>2. PICK y : y = m'
    OBVIOUS
  <1>3. PICK U : Good(prog, y, U) /\ Passed(m, T, U)
    BY <1>2 DEF Steps
  <1>4. /\ Descriptors(m) = {d \in Nat : IsTry(T, d)}
        /\ Descriptors(y) = {d \in Nat : IsTry(U, d)}
    BY <1>1, <1>2, <1>3
  <1>5. \A xp \in Descriptors(m) \ Descriptors(y) : At(m, xp + 1).v = NoHandler
    <2> SUFFICES ASSUME NEW d \in Nat, IsTry(T, d), ~IsTry(U, d)
                 PROVE  At(m, d + 1).v = NoHandler
      BY <1>4
    <2>1. m.stack[d + 2].v = NoHandler
      BY <1>3 DEF Passed
    <2>2. (d + 1) + 1 = d + 2
      OBVIOUS
    <2> QED BY <2>1, <2>2 DEF At
  <1> QED BY <1>2, <1>5

-----------------------------------------------------------------------------
(* Theorems.                                                               *)

(* The assumption: the code of every program fits the machine, which       *)
(* CodeFits of Compiled checks of what the compiler emits.                 *)
Verified == \A p \in DOMAIN Code : FitsMachine(p)

(* The inductive invariant: what T says of each word is true of it.        *)
Well == prog \in DOMAIN Code /\ \E T : Good(prog, m, T)

(* The machine is well when it begins to run.                              *)
LEMMA WellInit ==
  ASSUME Verified, Init
  PROVE  Well
  <1>1. prog \in DOMAIN Code
    BY DEF Init
  <1>2. FitsMachine(prog)
    BY <1>1 DEF Verified
  <1> QED BY <1>1, <1>2, InitGood DEF Well

(* It stays well, and leaves no finally handler behind.                    *)
LEMMA WellStep ==
  ASSUME Verified, Well, [Next]_vars
  PROVE  /\ Well'
         /\ m.status = "running" /\ m'.status = "running" =>
                \A xp \in Descriptors(m) \ Descriptors(m') : At(m, xp + 1).v = NoHandler
  <1>1. PICK T : Good(prog, m, T)
    BY DEF Well
  <1>2. prog \in DOMAIN Code /\ FitsMachine(prog)
    BY DEF Well, Verified
  <1>3. CASE Next
    <2>1. prog' = prog
      BY <1>3 DEF Next, Silent, Happens, vars, Finished, EndRun, FinishFunctionResult,
         EnterFunc, LeaveFunc, Return, Call, LoadHandler, LoadFinally, EnterTry,
         DoCallFinally, DoRetFinally, LeaveFinally, LoadThrown, DoThrow, LoadException, CastObject,
         ClearException, NewObject, PushObjChain, AllocStack, MakeObjChain, StoreLocal, Synchronize,
         FreeStack, FreeStackLocal, Jump, JumpNonConditional, JumpConditional, LoadValue, JumpNonEqual,
         SetRetValue, CallNative
    <2>2. Steps(prog, m, T, m')
      BY <1>1, <1>2, <1>3, NextSteps
    <2>3. Well'
      <3>1. PICK U : Good(prog, m', U)
        BY <2>2 DEF Steps
      <3> QED BY <1>2, <2>1, <3>1 DEF Well
    <2>4. m.status = "running" /\ m'.status = "running" =>
                \A xp \in Descriptors(m) \ Descriptors(m') : At(m, xp + 1).v = NoHandler
      BY <1>1, <2>1, <2>2, GoodEntered
    <2> QED BY <2>3, <2>4
  <1>4. CASE UNCHANGED vars
    <2>1. prog' = prog /\ m' = m
      BY <1>4 DEF vars
    <2>2. Well'
      BY <2>1 DEF Well
    <2>3. Descriptors(m') = Descriptors(m)
      BY <2>1
    <2> QED BY <2>2, <2>3
  <1> QED BY <1>3, <1>4

(* The invariants follow.                                                  *)
LEMMA WellProperties ==
  ASSUME Verified, Well
  PROVE  WordsReadAsWritten /\ FrameAsCompiled /\ LiveIsChained
  <1>1. FitsMachine(prog) /\ prog \in DOMAIN Code
    BY DEF Well, Verified
  <1>2. PICK T : Good(prog, m, T)
    BY DEF Well
  <1> QED BY <1>1, <1>2, GoodProperties

(* In every reachable state the words of the stack are what the places of  *)
(* the code say: the invariant of LContext::RunCoreLoopNoDebug.            *)
THEOREM MachineStaysWell ==
  ASSUME Verified
  PROVE  Spec => []Well
  <1>1. Init => Well
    BY WellInit
  <1>2. Well /\ [Next]_vars => Well'
    BY WellStep
  <1> QED BY <1>1, <1>2, PTL DEF Spec

(* Whatever program runs and whatever it throws, the machine never takes   *)
(* one word of its stack for another: micro_instruction_LeaveTry, Throw,   *)
(* CallFinally, RetFinally, LeaveFunc, Return and FreeFor find the         *)
(* structure that was pushed.                                              *)
THEOREM UnwindWords ==
  ASSUME Verified
  PROVE  Spec => []WordsReadAsWritten
  <1>1. Well => WordsReadAsWritten
    BY WellProperties
  <1> QED BY <1>1, MachineStaysWell, PTL

(* Where a statement runs, the frame has the words, and of the handlers    *)
(* those, that the compiler counted for the place, whatever jump, handler  *)
(* or finally block led there.                                             *)
THEOREM UnwindFrame ==
  ASSUME Verified
  PROVE  Spec => []FrameAsCompiled
  <1>1. Well => FrameAsCompiled
    BY WellProperties
  <1> QED BY <1>1, MachineStaysWell, PTL

(* No object and no lock is lost on the way: each one not yet released is  *)
(* on the release chain that micro_instruction_FreeFor walks.              *)
THEOREM UnwindLive ==
  ASSUME Verified
  PROVE  Spec => []LiveIsChained
  <1>1. Well => LiveIsChained
    BY WellProperties
  <1> QED BY <1>1, MachineStaysWell, PTL

(* No step takes a descriptor off the chain of micro_instruction_EnterTry  *)
(* while its finally handler was not entered.                              *)
THEOREM UnwindFinally ==
  ASSUME Verified
  PROVE  Spec => FinallyEntered
  <1>1. ASSUME Well, [Next]_vars
        PROVE  [m.status = "running" /\ m'.status = "running" =>
                  \A xp \in Descriptors(m) \ Descriptors(m') : At(m, xp + 1).v = NoHandler]_vars
    BY <1>1, WellStep
  <1>2. Spec => [][Next]_vars
    BY PTL DEF Spec
  <1> QED BY <1>1, <1>2, MachineStaysWell, PTL DEF FinallyEntered
=============================================================================
