---------------------------- MODULE PointersProof ----------------------------
(***************************************************************************)
(* The properties of Pointers, for every number of pointer objects and buffers, *)
(* every depth of calls and every size.                                        *)
(***************************************************************************)
EXTENDS Pointers, TLAPS

(* Every pointer object is in the chain of its buffer, and only there: this is what *)
(* lets a reallocation find it.                                                    *)
ChainsComplete == \A p \in Pointers, b \in Buffers : p \in chain[b] <=> ptr[p].buf = b

(* A pointer object f that has missed no reallocation. *)
Current(f, pl, w) == f.buf # NoBuffer => f.addr = pl[f.buf] /\ f.end <= w[f.buf]

StackFits ==
    /\ words \in [Buffers -> 0 .. Modulus - 1]
    /\ words[Stack] \in Lengths
    /\ sp <= words[Stack]
    /\ \A i \in 1 .. Len(frames) : frames[i] <= sp
    /\ \A i, j \in 1 .. Len(frames) : i <= j => frames[i] <= frames[j]

(* A pointer to a local variable begins above its call; after the call it is empty. *)
LocalsBounded == \A p \in Pointers :
    /\ local[p] \in -1 .. Len(frames)
    /\ local[p] # 0 => ptr[p].buf = Stack
    /\ local[p] > 0 => ptr[p].first >= frames[local[p]]
    /\ local[p] = Returned => ptr[p].end <= ptr[p].first

PtrInv ==
    /\ PtrTypeOK
    /\ ChainsComplete
    /\ \A p \in Pointers : Current(ptr[p], place, words)
    /\ StackFits
    /\ LocalsBounded

-----------------------------------------------------------------------------
LEMMA BufferFacts == Stack \in Buffers /\ Heaps \subseteq Buffers /\ NoBuffer \notin Buffers
  BY PointersAssumption DEF Buffers

(* Sums of offsets and distances stay in size_t. *)
LEMMA WrapType ==
  ASSUME NEW n \in Int, -Modulus < n, n < 2 * Modulus
  PROVE  Wrap(n) \in 0 .. Modulus - 1
  BY PointersAssumption DEF Wrap

(* Telling the pointers of a chain changes the address and lowers the end. *)
LEMMA NotifiedFields ==
  ASSUME NEW ps \in [Pointers -> Fields], NEW c, NEW a \in Places, NEW n \in Nat
  PROVE  /\ Notified(ps, c, a, n) \in [Pointers -> Fields]
         /\ \A p \in Pointers :
              /\ Notified(ps, c, a, n)[p].buf = ps[p].buf
              /\ Notified(ps, c, a, n)[p].first = ps[p].first
              /\ Notified(ps, c, a, n)[p].end <= ps[p].end
              /\ p \in c => /\ Notified(ps, c, a, n)[p].addr = a
                            /\ Notified(ps, c, a, n)[p].end <= n
              /\ p \notin c => Notified(ps, c, a, n)[p] = ps[p]
  <1>1. ASSUME NEW p \in Pointers
        PROVE  /\ OnBufferReallocated(ps[p], a, n) \in Fields
               /\ OnBufferReallocated(ps[p], a, n).buf = ps[p].buf
               /\ OnBufferReallocated(ps[p], a, n).first = ps[p].first
               /\ OnBufferReallocated(ps[p], a, n).end <= ps[p].end
               /\ OnBufferReallocated(ps[p], a, n).end <= n
               /\ OnBufferReallocated(ps[p], a, n).addr = a
    <2>1. PICK f \in Fields : f = ps[p]
      OBVIOUS
    <2>2. Least(f.end, n) \in Nat /\ Least(f.end, n) <= n /\ Least(f.end, n) <= f.end
      BY DEF Fields, Least
    <2>3. OnBufferReallocated(f, a, n) \in Fields
      BY <2>2 DEF OnBufferReallocated, Fields
    <2>4. /\ OnBufferReallocated(f, a, n).buf = f.buf
          /\ OnBufferReallocated(f, a, n).first = f.first
          /\ OnBufferReallocated(f, a, n).addr = a
          /\ OnBufferReallocated(f, a, n).end = Least(f.end, n)
      BY DEF OnBufferReallocated, Fields
    <2> QED BY <2>1, <2>2, <2>3, <2>4
  <1>2. ASSUME NEW p \in Pointers PROVE ps[p].end <= ps[p].end
    <2>1. ps[p] \in Fields
      OBVIOUS
    <2> QED BY <2>1 DEF Fields
  <1> QED BY <1>1, <1>2 DEF Notified

(* What a push keeps, whether the stack moves or not. *)
LEMMA AddPointerKeeps ==
  ASSUME NEW k \in Nat, NEW ps \in [Pointers -> Fields], NEW c, AddPointer(k, ps, c),
         place \in [Buffers -> Places], words \in [Buffers -> 0 .. Modulus - 1],
         words[Stack] \in Lengths, sp \in Nat, sp <= words[Stack],
         \A p \in Pointers : p \in c <=> ps[p].buf = Stack,
         \A p \in Pointers : Current(ps[p], place, words)
  PROVE  /\ place' \in [Buffers -> Places]
         /\ words' \in [Buffers -> 0 .. Modulus - 1]
         /\ words'[Stack] \in Lengths
         /\ sp' = sp + k
         /\ sp' <= words'[Stack]
         /\ ptr' \in [Pointers -> Fields]
         /\ \A p \in Pointers : /\ ptr'[p].buf = ps[p].buf
                                /\ ptr'[p].first = ps[p].first
                                /\ ptr'[p].end <= ps[p].end
                                /\ Current(ptr'[p], place', words')
  <1>1. CASE sp + k <= words[Stack]
    <2>1. sp' = sp + k /\ ptr' = ps /\ place' = place /\ words' = words
      BY <1>1 DEF AddPointer
    <2>2. ASSUME NEW p \in Pointers PROVE ps[p].end <= ps[p].end
      <3>1. ps[p] \in Fields
        OBVIOUS
      <3> QED BY <3>1 DEF Fields
    <2> QED BY <1>1, <2>1, <2>2
  <1>2. CASE ~(sp + k <= words[Stack])
    <2>1. sp' = sp + k /\ ExpandBuffer(k, ps, c)
      BY <1>2 DEF AddPointer
    <2>2. PICK a \in Places, n \in Lengths :
            /\ sp + k <= n
            /\ place' = [place EXCEPT ![Stack] = a]
            /\ words' = [words EXCEPT ![Stack] = n]
            /\ ptr' = Notified(ps, c, a, sp)
      BY <2>1 DEF ExpandBuffer
    <2>3. n \in 0 .. Modulus - 1 /\ Lengths \subseteq Nat
      BY <2>2, PointersAssumption
    <2>4. /\ place' \in [Buffers -> Places] /\ place'[Stack] = a
          /\ words' \in [Buffers -> 0 .. Modulus - 1] /\ words'[Stack] = n
          /\ \A b \in Buffers : b # Stack => place'[b] = place[b] /\ words'[b] = words[b]
      BY <2>2, <2>3, BufferFacts
    <2>6. /\ ptr' \in [Pointers -> Fields]
          /\ \A p \in Pointers :
               /\ ptr'[p].buf = ps[p].buf
               /\ ptr'[p].first = ps[p].first
               /\ ptr'[p].end <= ps[p].end
               /\ p \in c => ptr'[p].addr = a /\ ptr'[p].end <= sp
               /\ p \notin c => ptr'[p] = ps[p]
      <3>1. PICK q : q = Notified(ps, c, a, sp)
        OBVIOUS
      <3>2. /\ q \in [Pointers -> Fields]
            /\ \A p \in Pointers :
                 /\ q[p].buf = ps[p].buf
                 /\ q[p].first = ps[p].first
                 /\ q[p].end <= ps[p].end
                 /\ p \in c => q[p].addr = a /\ q[p].end <= sp
                 /\ p \notin c => q[p] = ps[p]
        BY ONLY a \in Places, sp \in Nat, ps \in [Pointers -> Fields], <3>1, NotifiedFields
      <3> QED BY <2>2, <3>1, <3>2
    <2>5. ASSUME NEW p \in Pointers PROVE Current(ptr'[p], place', words')
      <3>1. CASE p \in c
        <4>1. ptr'[p].buf = Stack /\ ptr'[p].addr = a /\ ptr'[p].end <= sp /\ ptr'[p].end \in Nat
          BY <2>6, <3>1 DEF Fields
        <4> QED BY <4>1, <2>2, <2>3, <2>4 DEF Current
      <3>2. CASE p \notin c
        <4>1. ptr'[p] = ps[p] /\ ps[p].buf # Stack
          BY <2>6, <3>2
        <4>2. ps[p].buf # NoBuffer => ps[p].buf \in Buffers
          BY DEF Fields
        <4> QED BY <4>1, <4>2, <2>4 DEF Current
      <3> QED BY <3>1, <3>2
    <2> QED BY <2>1, <2>2, <2>3, <2>4, <2>5, <2>6
  <1> QED BY <1>1, <1>2

-----------------------------------------------------------------------------
LEMMA InitPtrInv == PtrInit => PtrInv
  <1> SUFFICES ASSUME PtrInit PROVE PtrInv
    OBVIOUS
  <1>1. Nowhere \in Places
    BY PointersAssumption DEF Nowhere
  <1>2. InitWords \in Lengths /\ InitWords \in 0 .. Modulus - 1
    <2>1. InitWords \in Lengths
      BY PointersAssumption DEF InitWords
    <2> QED BY <2>1, PointersAssumption
  <1>3. NullPtr \in Fields /\ NullPtr.buf = NoBuffer
    BY <1>1, PointersAssumption DEF NullPtr, Fields
  <1>4. PtrTypeOK
    BY <1>1, <1>2, <1>3 DEF PtrInit, PtrTypeOK
  <1>5. ChainsComplete
    BY <1>3, BufferFacts DEF PtrInit, ChainsComplete
  <1>6. \A p \in Pointers : Current(ptr[p], place, words)
    BY <1>3 DEF PtrInit, Current
  <1>7. StackFits
    <2>1. words \in [Buffers -> 0 .. Modulus - 1] /\ words[Stack] = InitWords
      BY <1>2, BufferFacts, PointersAssumption DEF PtrInit
    <2> QED BY <1>2, <2>1 DEF PtrInit, StackFits
  <1>8. LocalsBounded
    <2>1. Len(frames) = 0 /\ \A p \in Pointers : local[p] = 0
      BY DEF PtrInit
    <2>2. 0 \in -1 .. 0 /\ ~(0 > 0) /\ 0 # Returned
      BY DEF Returned
    <2> QED BY <2>1, <2>2 DEF LocalsBounded
  <1> QED BY <1>4, <1>5, <1>6, <1>7, <1>8 DEF PtrInv

-----------------------------------------------------------------------------
(* A step after which every pointer object has the buffer and the first word it had, *)
(* an end that is not higher, and misses nothing.                                  *)
PointersStay ==
    /\ chain' = chain
    /\ ptr' \in [Pointers -> Fields]
    /\ \A p \in Pointers : /\ ptr'[p].buf = ptr[p].buf
                           /\ ptr'[p].first = ptr[p].first
                           /\ ptr'[p].end <= ptr[p].end
                           /\ Current(ptr'[p], place', words')

LEMMA StayKeeps ==
  ASSUME PtrInv, PointersStay,
         place' \in [Buffers -> Places], sp' \in Nat, frames' \in Seq(Nat), StackFits',
         \A p \in Pointers :
            \/ local'[p] = local[p] /\ local[p] <= Len(frames')
                /\ (local[p] > 0 => frames'[local[p]] = frames[local[p]])
            \/ local'[p] = 0
            \/ local'[p] = Returned /\ local[p] # 0 /\ ptr'[p].end <= ptr'[p].first,
         local' \in [Pointers -> Int]
  PROVE  PtrInv'
  <1>1. PtrTypeOK'
    BY PointersAssumption DEF PtrInv, PtrTypeOK, StackFits, PointersStay
  <1>2. ChainsComplete'
    BY DEF PtrInv, ChainsComplete, PointersStay
  <1>3. LocalsBounded'
    <2> SUFFICES ASSUME NEW p \in Pointers
                 PROVE  /\ local'[p] \in -1 .. Len(frames')
                        /\ local'[p] # 0 => ptr'[p].buf = Stack
                        /\ local'[p] > 0 => ptr'[p].first >= frames'[local'[p]]
                        /\ local'[p] = Returned => ptr'[p].end <= ptr'[p].first
      BY DEF LocalsBounded
    <2>1. /\ local[p] \in -1 .. Len(frames)
          /\ local[p] # 0 => ptr[p].buf = Stack
          /\ local[p] > 0 => ptr[p].first >= frames[local[p]]
          /\ local[p] = Returned => ptr[p].end <= ptr[p].first
      BY DEF PtrInv, LocalsBounded
    <2>2. /\ ptr'[p].buf = ptr[p].buf /\ ptr'[p].first = ptr[p].first
          /\ ptr'[p].end <= ptr[p].end
      BY DEF PointersStay
    <2>3. /\ ptr[p].end \in Nat /\ ptr'[p].end \in Nat /\ ptr[p].first \in Nat
          /\ Len(frames) \in Nat /\ Len(frames') \in Nat
      BY DEF PtrInv, PtrTypeOK, PointersStay, Fields
    <2>4. CASE local'[p] = local[p] /\ local[p] <= Len(frames')
                /\ (local[p] > 0 => frames'[local[p]] = frames[local[p]])
      BY <2>1, <2>2, <2>3, <2>4
    <2>5. CASE local'[p] = 0
      <3>1. 0 \in -1 .. Len(frames') /\ 0 # Returned /\ ~(0 > 0)
        BY <2>3 DEF Returned
      <3> QED BY <2>5, <3>1
    <2>6. CASE local'[p] = Returned /\ local[p] # 0 /\ ptr'[p].end <= ptr'[p].first
      <3>1. Returned \in -1 .. Len(frames') /\ ~(Returned > 0)
        BY <2>3 DEF Returned
      <3> QED BY <2>1, <2>2, <2>6, <3>1
    <2> QED BY <2>4, <2>5, <2>6
  <1> QED BY <1>1, <1>2, <1>3 DEF PtrInv, PointersStay

(* A step that gives one pointer object, q, the fields f and the mark l. *)
LEMMA GivenKeeps ==
  ASSUME PtrInv, NEW q \in Pointers, NEW f \in Fields, NEW l \in Int,
         place' \in [Buffers -> Places], sp' \in Nat, frames' = frames, StackFits',
         chain' \in [Buffers -> SUBSET Pointers], ChainsComplete',
         ptr' \in [Pointers -> Fields],
         \A p \in Pointers : Current(ptr'[p], place', words'),
         \A p \in Pointers \ {q} : /\ ptr'[p].buf = ptr[p].buf
                                  /\ ptr'[p].first = ptr[p].first
                                  /\ ptr'[p].end <= ptr[p].end,
         ptr'[q].buf = f.buf, ptr'[q].first = f.first, ptr'[q].end <= f.end,
         local' = [local EXCEPT ![q] = l], l \in -1 .. Len(frames),
         l # 0 => f.buf = Stack, l > 0 => f.first >= frames[l],
         l = Returned => f.end <= f.first
  PROVE  PtrInv'
  <1>1. PtrTypeOK'
    BY PointersAssumption DEF PtrInv, PtrTypeOK, StackFits
  <1>2. LocalsBounded'
    <2> SUFFICES ASSUME NEW p \in Pointers
                 PROVE  /\ local'[p] \in -1 .. Len(frames)
                        /\ local'[p] # 0 => ptr'[p].buf = Stack
                        /\ local'[p] > 0 => ptr'[p].first >= frames[local'[p]]
                        /\ local'[p] = Returned => ptr'[p].end <= ptr'[p].first
      BY DEF LocalsBounded
    <2>1. /\ ptr[p].end \in Nat /\ ptr'[p].end \in Nat /\ ptr[p].first \in Nat
          /\ f.end \in Nat /\ f.first \in Nat
      <3>1. ptr[p] \in Fields /\ ptr'[p] \in Fields /\ f \in Fields
        BY DEF PtrInv, PtrTypeOK
      <3> QED BY <3>1 DEF Fields
    <2>2. CASE p = q
      <3>1. local'[p] = l
        BY <2>2 DEF PtrInv, PtrTypeOK
      <3> QED BY <2>1, <2>2, <3>1
    <2>3. CASE p # q
      <3>1. local'[p] = local[p]
        BY <2>3 DEF PtrInv, PtrTypeOK
      <3>2. /\ local[p] \in -1 .. Len(frames)
            /\ local[p] # 0 => ptr[p].buf = Stack
            /\ local[p] > 0 => ptr[p].first >= frames[local[p]]
            /\ local[p] = Returned => ptr[p].end <= ptr[p].first
        BY DEF PtrInv, LocalsBounded
      <3>3. /\ ptr'[p].buf = ptr[p].buf /\ ptr'[p].first = ptr[p].first
            /\ ptr'[p].end <= ptr[p].end
        BY <2>3
      <3> QED BY <2>1, <3>1, <3>2, <3>3
    <2> QED BY <2>2, <2>3
  <1> QED BY <1>1, <1>2 DEF PtrInv

LEMMA AttachedComplete ==
  ASSUME PtrInv, NEW q \in Pointers, IsNew(q), NEW b \in Buffers, chain' = Attached(q, b),
         ptr'[q].buf = b, \A p \in Pointers \ {q} : ptr'[p].buf = ptr[p].buf
  PROVE  ChainsComplete' /\ chain' \in [Buffers -> SUBSET Pointers]
  <1>1. \A d \in Buffers : chain'[d] = IF d = b THEN chain[d] \cup {q} ELSE chain[d]
    BY DEF Attached, PtrInv, PtrTypeOK
  <1>2. \A d \in Buffers : q \notin chain[d]
    BY BufferFacts DEF IsNew, PtrInv, ChainsComplete
  <1>3. ASSUME NEW p \in Pointers, NEW d \in Buffers PROVE p \in chain'[d] <=> ptr'[p].buf = d
    <2>1. p \in chain[d] <=> ptr[p].buf = d
      BY DEF PtrInv, ChainsComplete
    <2>2. CASE p = q
      BY <1>1, <1>2, <2>2
    <2>3. CASE p # q
      BY <1>1, <2>1, <2>3
    <2> QED BY <2>2, <2>3
  <1>4. chain' \in [Buffers -> SUBSET Pointers]
    BY DEF Attached, PtrInv, PtrTypeOK
  <1> QED BY <1>3, <1>4 DEF ChainsComplete

(* What SetPointer makes is a pointer object that has missed nothing, and ends in its *)
(* buffer.                                                                         *)
LEMMA SetPointerFields ==
  ASSUME PtrInv, NEW b \in Buffers, NEW i \in 0 .. Modulus - 1, NEW n \in Sizes
  PROVE  /\ SetPointer(b, i, n) \in Fields
         /\ SetPointer(b, i, n).buf = b
         /\ SetPointer(b, i, n).first = i
         /\ Current(SetPointer(b, i, n), place, words)
  <1>1. n \in 1 .. Modulus - 1 /\ Modulus \in Nat
    BY PointersAssumption
  <1>2. Wrap(i + n) \in 0 .. Modulus - 1
    BY <1>1, WrapType
  <1>3. GetBytes(b) \in Nat /\ GetBytes(b) <= words[b]
    BY PointersAssumption DEF GetBytes, PtrInv, PtrTypeOK, StackFits
  <1>4. Least(Wrap(i + n), GetBytes(b)) \in Nat /\ Least(Wrap(i + n), GetBytes(b)) <= GetBytes(b)
    BY <1>2, <1>3 DEF Least
  <1>5. words[b] \in Nat /\ place[b] \in Places
    BY DEF PtrInv, PtrTypeOK
  <1> QED BY <1>3, <1>4, <1>5 DEF SetPointer, Fields, Current

-----------------------------------------------------------------------------
(* AllocStack, Call and LoadLocalPtr push words: what AddPointer asks for holds. *)
LEMMA PushStays ==
  ASSUME PtrInv, NEW k \in Nat, AddPointer(k, ptr, chain[Stack]), chain' = chain
  PROVE  /\ PointersStay
         /\ place' \in [Buffers -> Places]
         /\ words' \in [Buffers -> 0 .. Modulus - 1] /\ words'[Stack] \in Lengths
         /\ sp' = sp + k /\ sp' \in Nat /\ sp' <= words'[Stack]
  <1>1. /\ ptr \in [Pointers -> Fields] /\ place \in [Buffers -> Places]
        /\ words \in [Buffers -> 0 .. Modulus - 1] /\ words[Stack] \in Lengths
        /\ sp \in Nat /\ sp <= words[Stack]
        /\ \A p \in Pointers : Current(ptr[p], place, words)
    BY DEF PtrInv, PtrTypeOK, StackFits
  <1>2. \A p \in Pointers : p \in chain[Stack] <=> ptr[p].buf = Stack
    BY BufferFacts DEF PtrInv, ChainsComplete
  <1> QED BY <1>1, <1>2, AddPointerKeeps DEF PointersStay

LEMMA FramesFacts ==
  ASSUME PtrInv
  PROVE  /\ frames \in Seq(Nat) /\ Len(frames) \in Nat
         /\ \A i \in 1 .. Len(frames) : frames[i] \in Nat /\ frames[i] <= sp
         /\ Base \in Nat /\ Base <= sp
         /\ \A p \in Pointers : local[p] \in -1 .. Len(frames)
  <1>1. /\ frames \in Seq(Nat) /\ Len(frames) \in Nat /\ sp \in Nat
        /\ \A i \in 1 .. Len(frames) : frames[i] \in Nat /\ frames[i] <= sp
    BY DEF PtrInv, PtrTypeOK, StackFits
  <1>2. CASE frames = <<>>
    BY <1>1, <1>2 DEF Base, PtrInv, LocalsBounded
  <1>3. CASE frames # <<>>
    <2>1. Len(frames) \in 1 .. Len(frames)
      BY <1>1, <1>3
    <2> QED BY <1>1, <1>3, <2>1 DEF Base, PtrInv, LocalsBounded
  <1> QED BY <1>2, <1>3

LEMMA AllocStackInv == ASSUME PtrInv, NEW k \in Sizes, AllocStack(k) PROVE PtrInv'
  <1>1. k \in Nat
    BY PointersAssumption
  <1>2. /\ PointersStay /\ place' \in [Buffers -> Places]
        /\ words' \in [Buffers -> 0 .. Modulus - 1] /\ words'[Stack] \in Lengths
        /\ sp' = sp + k /\ sp' \in Nat /\ sp' <= words'[Stack]
    BY <1>1, PushStays DEF AllocStack
  <1>3. StackFits'
    <2>1. \A i \in 1 .. Len(frames) : frames[i] <= sp'
      BY <1>1, <1>2, FramesFacts DEF PtrInv, PtrTypeOK
    <2> QED BY <1>2, <2>1 DEF PtrInv, StackFits, AllocStack
  <1>4. local' \in [Pointers -> Int] /\ frames' \in Seq(Nat)
    BY DEF PtrInv, PtrTypeOK, AllocStack
  <1>5. \A p \in Pointers : local'[p] = local[p] /\ local[p] <= Len(frames')
            /\ (local[p] > 0 => frames'[local[p]] = frames[local[p]])
    BY FramesFacts DEF AllocStack
  <1> QED BY <1>2, <1>3, <1>4, <1>5, StayKeeps

LEMMA FreeStackInv == ASSUME PtrInv, NEW k \in Sizes, FreeStack(k) PROVE PtrInv'
  <1>1. k \in Nat /\ sp \in Nat
    BY PointersAssumption DEF PtrInv, PtrTypeOK
  <1>2. sp' = sp - k /\ sp' >= Base /\ sp' \in Nat
    BY <1>1, FramesFacts DEF FreeStack
  <1>3. StackFits'
    <2>1. ASSUME NEW i \in 1 .. Len(frames) PROVE frames[i] <= sp'
      <3>1. Len(frames) \in 1 .. Len(frames) /\ frames # <<>> /\ i <= Len(frames)
        BY <2>1, FramesFacts
      <3>2. frames[i] <= Base
        BY <3>1 DEF Base, PtrInv, StackFits
      <3> QED BY <1>2, <3>2, FramesFacts
    <2>2. sp' <= words[Stack]
      <3>1. words[Stack] \in Nat
        BY BufferFacts DEF PtrInv, PtrTypeOK
      <3> QED BY <1>1, <1>2, <3>1 DEF PtrInv, StackFits
    <2> QED BY <2>1, <2>2 DEF PtrInv, StackFits, FreeStack
  <1>4. PointersStay
    <2>1. ASSUME NEW p \in Pointers PROVE ptr[p].end <= ptr[p].end
      <3>1. ptr[p] \in Fields
        BY DEF PtrInv, PtrTypeOK
      <3> QED BY <3>1 DEF Fields
    <2> QED BY <2>1 DEF PointersStay, FreeStack, PtrInv, PtrTypeOK
  <1>5. local' \in [Pointers -> Int] /\ frames' \in Seq(Nat) /\ place' \in [Buffers -> Places]
    BY DEF PtrInv, PtrTypeOK, FreeStack
  <1>6. \A p \in Pointers : local'[p] = local[p] /\ local[p] <= Len(frames')
            /\ (local[p] > 0 => frames'[local[p]] = frames[local[p]])
    BY FramesFacts DEF FreeStack
  <1> QED BY <1>2, <1>3, <1>4, <1>5, <1>6, StayKeeps

LEMMA CallInv == ASSUME PtrInv, Call PROVE PtrInv'
  <1>1. frames' = Append(frames, sp) /\ AddPointer(1, ptr, chain[Stack]) /\ chain' = chain
        /\ local' = local
    BY DEF Call
  <1>2. /\ PointersStay /\ place' \in [Buffers -> Places]
        /\ words' \in [Buffers -> 0 .. Modulus - 1] /\ words'[Stack] \in Lengths
        /\ sp' = sp + 1 /\ sp' \in Nat /\ sp' <= words'[Stack]
    BY <1>1, PushStays
  <1>3. sp \in Nat
    BY DEF PtrInv, PtrTypeOK
  <1>4. /\ frames' \in Seq(Nat) /\ Len(frames') = Len(frames) + 1
        /\ \A i \in 1 .. Len(frames) : frames'[i] = frames[i]
        /\ frames'[Len(frames) + 1] = sp
    BY <1>1, <1>3, FramesFacts
  <1>5. StackFits'
    <2>1. \A i \in 1 .. Len(frames') : frames'[i] <= sp /\ frames'[i] <= sp'
      BY SMTT(20), <1>2, <1>3, <1>4, FramesFacts
    <2>2. ASSUME NEW i \in 1 .. Len(frames'), NEW j \in 1 .. Len(frames'), i <= j
          PROVE  frames'[i] <= frames'[j]
      <3>1. CASE j = Len(frames) + 1
        BY <1>4, <2>1, <3>1
      <3>2. CASE j # Len(frames) + 1
        <4>1. i \in 1 .. Len(frames) /\ j \in 1 .. Len(frames)
          BY <1>4, <2>2, <3>2, FramesFacts
        <4> QED BY <1>4, <2>2, <4>1 DEF PtrInv, StackFits
      <3> QED BY <3>1, <3>2
    <2> QED BY <1>2, <2>1, <2>2 DEF StackFits
  <1>6. local' \in [Pointers -> Int]
    BY <1>1 DEF PtrInv, PtrTypeOK
  <1>7. ASSUME NEW p \in Pointers
        PROVE  local'[p] = local[p] /\ local[p] <= Len(frames')
               /\ (local[p] > 0 => frames'[local[p]] = frames[local[p]])
    <2>1. local[p] \in -1 .. Len(frames)
      BY FramesFacts
    <2> QED BY <1>1, <1>4, <2>1, FramesFacts
  <1> QED BY <1>2, <1>4, <1>5, <1>6, <1>7, StayKeeps

(* Calls above the j-th one are left. *)
LEMMA LeftFrames ==
  ASSUME PtrInv, NEW j \in 0 .. Len(frames), NEW s \in Nat, s <= sp,
         frames' = SubSeq(frames, 1, j), sp' = s, words' = words,
         j > 0 => frames[j] <= s
  PROVE  /\ frames' \in Seq(Nat) /\ Len(frames') = j /\ StackFits'
         /\ \A i \in 1 .. j : frames'[i] = frames[i]
  <1>1. Len(frames) \in Nat /\ frames \in Seq(Nat)
    BY FramesFacts
  <1>2. /\ frames' \in Seq(Nat) /\ Len(frames') = j
        /\ \A i \in 1 .. j : frames'[i] = frames[i]
    BY <1>1
  <1>3. ASSUME NEW i \in 1 .. j PROVE frames'[i] <= sp'
    <2>1. i \in 1 .. Len(frames) /\ j \in 1 .. Len(frames) /\ i <= j /\ j > 0
      BY <1>1, <1>3
    <2>2. frames[i] <= frames[j] /\ frames[i] \in Nat /\ frames[j] \in Nat
      BY <2>1, FramesFacts DEF PtrInv, StackFits
    <2> QED BY <1>2, <2>1, <2>2
  <1>4. ASSUME NEW i \in 1 .. j, NEW k \in 1 .. j, i <= k PROVE frames'[i] <= frames'[k]
    <2>1. i \in 1 .. Len(frames) /\ k \in 1 .. Len(frames)
      BY <1>1, <1>4
    <2> QED BY <1>2, <1>4, <2>1 DEF PtrInv, StackFits
  <1>5. sp' <= words'[Stack]
    <2>1. words[Stack] \in Nat /\ sp \in Nat /\ sp <= words[Stack]
      BY BufferFacts DEF PtrInv, PtrTypeOK, StackFits
    <2> QED BY <2>1
  <1> QED BY <1>2, <1>3, <1>4, <1>5 DEF PtrInv, StackFits

LEMMA ReturnInv == ASSUME PtrInv, Return PROVE PtrInv'
  <1> DEFINE n == Len(frames)
             s == frames[n]
  <1>1. /\ frames # <<>> /\ sp' = s /\ frames' = SubSeq(frames, 1, n - 1)
        /\ ptr' = Notified(ptr, chain[Stack], place[Stack], s)
        /\ local' = [p \in Pointers |-> IF local[p] = n THEN Returned ELSE local[p]]
        /\ place' = place /\ words' = words /\ chain' = chain
    BY DEF Return
  <1>2. n \in Nat \ {0} /\ n \in 1 .. n /\ s \in Nat /\ s <= sp /\ frames \in Seq(Nat)
    BY <1>1, FramesFacts
  <1>3. /\ frames' \in Seq(Nat) /\ Len(frames') = n - 1 /\ StackFits'
        /\ \A i \in 1 .. n - 1 : frames'[i] = frames[i]
    <2>1. n - 1 > 0 => frames[n - 1] <= s
      BY <1>2 DEF PtrInv, StackFits
    <2>2. n - 1 \in 0 .. Len(frames)
      BY <1>2
    <2> QED BY <1>1, <1>2, <2>1, <2>2, LeftFrames
  <1>4. /\ ptr' \in [Pointers -> Fields]
        /\ \A p \in Pointers : /\ ptr'[p].buf = ptr[p].buf
                               /\ ptr'[p].first = ptr[p].first
                               /\ ptr'[p].end <= ptr[p].end
                               /\ p \in chain[Stack] => ptr'[p].addr = place[Stack] /\ ptr'[p].end <= s
                               /\ p \notin chain[Stack] => ptr'[p] = ptr[p]
    <2> DEFINE c == chain[Stack]
               a == place[Stack]
    <2>1. ptr \in [Pointers -> Fields] /\ a \in Places /\ s \in Nat
      BY <1>2, BufferFacts DEF PtrInv, PtrTypeOK
    <2>2. ptr' = Notified(ptr, c, a, s)
      BY <1>1
    <2> HIDE DEF s, c, a
    <2>3. /\ ptr' \in [Pointers -> Fields]
          /\ \A p \in Pointers : /\ ptr'[p].buf = ptr[p].buf
                                 /\ ptr'[p].first = ptr[p].first
                                 /\ ptr'[p].end <= ptr[p].end
                                 /\ p \in c => ptr'[p].addr = a /\ ptr'[p].end <= s
                                 /\ p \notin c => ptr'[p] = ptr[p]
      BY <2>1, <2>2, NotifiedFields
    <2> QED BY <2>3 DEF c, a
  <1>5. ASSUME NEW p \in Pointers PROVE Current(ptr'[p], place', words')
    <2>1. p \in chain[Stack] <=> ptr[p].buf = Stack
      BY BufferFacts DEF PtrInv, ChainsComplete
    <2>2. CASE ptr[p].buf = Stack
      <3>1. ptr'[p].buf = Stack /\ ptr'[p].addr = place[Stack] /\ ptr'[p].end <= s /\ ptr'[p] \in Fields
        BY <1>4, <2>1, <2>2
      <3>2. ptr'[p].end \in Nat /\ words[Stack] \in Nat /\ sp \in Nat /\ sp <= words[Stack]
        BY <3>1, BufferFacts DEF Fields, PtrInv, PtrTypeOK, StackFits
      <3> QED BY <1>1, <1>2, <3>1, <3>2 DEF Current
    <2>3. CASE ptr[p].buf # Stack
      BY <1>1, <1>4, <2>1, <2>3 DEF PtrInv
    <2> QED BY <2>2, <2>3
  <1>6. PointersStay
    BY <1>1, <1>4, <1>5 DEF PointersStay
  <1>7. local' \in [Pointers -> Int]
    BY <1>1 DEF PtrInv, PtrTypeOK, Returned
  <1>8. ASSUME NEW p \in Pointers
        PROVE  \/ local'[p] = local[p] /\ local[p] <= Len(frames')
                   /\ (local[p] > 0 => frames'[local[p]] = frames[local[p]])
               \/ local'[p] = Returned /\ local[p] # 0 /\ ptr'[p].end <= ptr'[p].first
    <2>1. local[p] \in -1 .. n
      BY FramesFacts
    <2>2. CASE local[p] = n
      <3>1. local'[p] = Returned /\ local[p] # 0 /\ local[p] > 0
        BY <1>1, <1>2, <2>2
      <3>2. ptr[p].buf = Stack /\ ptr[p].first >= s
        BY <2>2, <3>1 DEF PtrInv, LocalsBounded
      <3>3. p \in chain[Stack]
        BY <3>2, BufferFacts DEF PtrInv, ChainsComplete
      <3>4. ptr'[p].end <= s /\ ptr'[p].first = ptr[p].first
        BY <1>4, <3>3
      <3>5. ptr'[p] \in Fields
        BY <1>4
      <3>6. ptr'[p].end \in Nat /\ ptr'[p].first \in Nat
        BY <3>5 DEF Fields
      <3> QED BY <1>2, <3>1, <3>2, <3>4, <3>6
    <2>3. CASE local[p] # n
      <3>1. local'[p] = local[p] /\ local[p] <= n - 1
        BY <1>1, <1>2, <2>1, <2>3
      <3>2. local[p] > 0 => local[p] \in 1 .. n - 1
        BY <1>2, <2>1, <3>1
      <3> QED BY <1>3, <3>1, <3>2
    <2> QED BY <2>2, <2>3
  <1>9. place' \in [Buffers -> Places] /\ sp' \in Nat
    BY <1>1, <1>2 DEF PtrInv, PtrTypeOK
  <1> HIDE DEF n, s
  <1> QED BY <1>3, <1>6, <1>7, <1>8, <1>9, StayKeeps

LEMMA ThrowInv ==
  ASSUME PtrInv, NEW j \in 0 .. Len(frames), NEW s \in 0 .. sp, Throw(j, s)
  PROVE  PtrInv'
  <1>1. /\ sp' = s /\ frames' = SubSeq(frames, 1, j) /\ (j > 0 => s >= frames[j])
        /\ local' = [p \in Pointers |-> IF local[p] > j THEN 0 ELSE local[p]]
        /\ place' = place /\ words' = words /\ ptr' = ptr /\ chain' = chain
    BY DEF Throw
  <1>2. s \in Nat /\ s <= sp /\ (j > 0 => frames[j] <= s) /\ j \in Nat
    <2>1. sp \in Nat
      BY DEF PtrInv, PtrTypeOK
    <2>2. j > 0 => frames[j] \in Nat
      BY FramesFacts
    <2> QED BY <1>1, <2>1, <2>2, FramesFacts
  <1>3. /\ frames' \in Seq(Nat) /\ Len(frames') = j /\ StackFits'
        /\ \A i \in 1 .. j : frames'[i] = frames[i]
    BY <1>1, <1>2, LeftFrames
  <1>4. PointersStay
    <2>1. ASSUME NEW p \in Pointers PROVE ptr[p].end <= ptr[p].end
      <3>1. ptr[p] \in Fields
        BY DEF PtrInv, PtrTypeOK
      <3> QED BY <3>1 DEF Fields
    <2> QED BY <1>1, <2>1 DEF PointersStay, PtrInv, PtrTypeOK
  <1>5. local' \in [Pointers -> Int]
    BY <1>1 DEF PtrInv, PtrTypeOK
  <1>6. ASSUME NEW p \in Pointers
        PROVE  \/ local'[p] = local[p] /\ local[p] <= Len(frames')
                   /\ (local[p] > 0 => frames'[local[p]] = frames[local[p]])
               \/ local'[p] = 0
    <2>1. local[p] \in -1 .. Len(frames)
      BY FramesFacts
    <2>2. CASE local[p] > j
      BY <1>1, <2>2
    <2>3. CASE ~(local[p] > j)
      <3>1. local'[p] = local[p] /\ local[p] <= j
        BY <1>1, <1>2, <2>1, <2>3, FramesFacts
      <3>2. local[p] > 0 => local[p] \in 1 .. j
        BY <1>2, <2>1, <3>1, FramesFacts
      <3> QED BY <1>3, <3>1, <3>2
    <2> QED BY <2>2, <2>3
  <1>7. place' \in [Buffers -> Places] /\ sp' \in Nat
    BY <1>1, <1>2 DEF PtrInv, PtrTypeOK
  <1> QED BY <1>3, <1>4, <1>5, <1>6, <1>7, StayKeeps

LEMMA LoadLocalPtrInv ==
  ASSUME PtrInv, NEW q \in Pointers, NEW i \in 0 .. sp, NEW n \in Sizes, LoadLocalPtr(q, i, n)
  PROVE  PtrInv'
  <1> DEFINE f == SetPointer(Stack, i, n)
             ps == [ptr EXCEPT ![q] = f]
             c == chain'[Stack]
  <1>1. /\ IsNew(q) /\ i >= Base /\ chain' = Attached(q, Stack) /\ AddPointer(1, ps, c)
        /\ local' = [local EXCEPT ![q] = Len(frames)] /\ frames' = frames
    BY DEF LoadLocalPtr
  <1>2. /\ ptr \in [Pointers -> Fields] /\ place \in [Buffers -> Places]
        /\ words \in [Buffers -> 0 .. Modulus - 1] /\ words[Stack] \in Lengths
        /\ sp \in Nat /\ sp <= words[Stack]
        /\ \A p \in Pointers : Current(ptr[p], place, words)
        /\ chain \in [Buffers -> SUBSET Pointers]
    BY DEF PtrInv, PtrTypeOK, StackFits
  <1>3. i \in 0 .. Modulus - 1
    <2>1. words[Stack] \in 0 .. Modulus - 1
      BY <1>2, BufferFacts
    <2> QED BY <1>2, <2>1, PointersAssumption
  <1>4. f \in Fields /\ f.buf = Stack /\ f.first = i /\ Current(f, place, words)
    BY <1>3, BufferFacts, SetPointerFields
  <1> HIDE DEF f
  <1>5. /\ ps \in [Pointers -> Fields] /\ ps[q] = f
        /\ \A p \in Pointers \ {q} : ps[p] = ptr[p]
    BY <1>2, <1>4
  <1>6. \A p \in Pointers : p \in c <=> ps[p].buf = Stack
    <2>1. c = chain[Stack] \cup {q}
      BY <1>1, <1>2, BufferFacts DEF Attached
    <2>2. \A p \in Pointers : p \in chain[Stack] <=> ptr[p].buf = Stack
      BY BufferFacts DEF PtrInv, ChainsComplete
    <2> QED BY <1>4, <1>5, <2>1, <2>2
  <1>7. \A p \in Pointers : Current(ps[p], place, words)
    BY <1>2, <1>4, <1>5
  <1> HIDE DEF ps, c
  <1>8. /\ place' \in [Buffers -> Places]
        /\ words' \in [Buffers -> 0 .. Modulus - 1] /\ words'[Stack] \in Lengths
        /\ sp' = sp + 1 /\ sp' <= words'[Stack]
        /\ ptr' \in [Pointers -> Fields]
        /\ \A p \in Pointers : /\ ptr'[p].buf = ps[p].buf
                               /\ ptr'[p].first = ps[p].first
                               /\ ptr'[p].end <= ps[p].end
                               /\ Current(ptr'[p], place', words')
    BY <1>1, <1>2, <1>5, <1>6, <1>7, AddPointerKeeps
  <1>9. StackFits'
    <2>1. \A k \in 1 .. Len(frames) : frames[k] <= sp'
      BY <1>2, <1>8, FramesFacts
    <2> QED BY <1>1, <1>8, <2>1 DEF PtrInv, StackFits
  <1>10. ChainsComplete' /\ chain' \in [Buffers -> SUBSET Pointers]
    BY <1>1, <1>4, <1>5, <1>8, BufferFacts, AttachedComplete
  <1>11. /\ Len(frames) \in -1 .. Len(frames) /\ Len(frames) \in Int
         /\ (Len(frames) > 0 => f.first >= frames[Len(frames)])
         /\ Len(frames) # Returned
    <2>1. Len(frames) > 0 => frames # <<>>
      BY FramesFacts
    <2> QED BY <1>1, <1>4, <2>1, FramesFacts DEF Base, Returned
  <1>12. sp' \in Nat
    BY <1>2, <1>8
  <1> QED BY ZenonT(30), <1>1, <1>4, <1>5, <1>8, <1>9, <1>10, <1>11, <1>12, GivenKeeps

-----------------------------------------------------------------------------
LEMMA EndReflexive == ASSUME PtrInv, NEW p \in Pointers PROVE ptr[p].end <= ptr[p].end
  <1>1. ptr[p] \in Fields
    BY DEF PtrInv, PtrTypeOK
  <1> QED BY <1>1 DEF Fields

LEMMA AllocBufInv ==
  ASSUME PtrInv, NEW h \in Heaps, NEW q \in Pointers, NEW n \in Sizes, AllocBuf(q, h, n)
  PROVE  PtrInv'
  <1>1. PICK a \in Places :
            /\ place' = [place EXCEPT ![h] = a]
            /\ words' = [words EXCEPT ![h] = n]
            /\ ptr' = [ptr EXCEPT ![q] = [buf |-> h, addr |-> a, bytes |-> n,
                                          offset |-> 0, first |-> 0, end |-> n]]
    BY DEF AllocBuf
  <1> DEFINE f == [buf |-> h, addr |-> a, bytes |-> n, offset |-> 0, first |-> 0, end |-> n]
  <1>2. /\ IsNew(q) /\ chain[h] = {} /\ chain' = Attached(q, h)
        /\ sp' = sp /\ frames' = frames /\ local' = local
    BY DEF AllocBuf
  <1>3. n \in 1 .. Modulus - 1 /\ Modulus \in Nat \ {0} /\ h \in Buffers /\ h # Stack
    BY PointersAssumption, BufferFacts
  <1>4. f \in Fields /\ f.buf = h /\ f.first = 0 /\ f.end = n /\ f.addr = a
    BY <1>3 DEF Fields
  <1>5. ptr' = [ptr EXCEPT ![q] = f]
    BY <1>1
  <1> HIDE DEF f
  <1>6. /\ ptr' \in [Pointers -> Fields] /\ ptr'[q] = f
        /\ \A p \in Pointers \ {q} : ptr'[p] = ptr[p]
    BY <1>4, <1>5 DEF PtrInv, PtrTypeOK
  <1>7. /\ place' \in [Buffers -> Places] /\ place'[h] = a
        /\ words' \in [Buffers -> 0 .. Modulus - 1] /\ words'[h] = n
        /\ \A b \in Buffers \ {h} : place'[b] = place[b] /\ words'[b] = words[b]
    BY <1>1, <1>3 DEF PtrInv, PtrTypeOK, StackFits
  <1>8. ASSUME NEW p \in Pointers PROVE Current(ptr'[p], place', words')
    <2>1. CASE p = q
      BY <1>3, <1>4, <1>6, <1>7, <2>1 DEF Current
    <2>2. CASE p # q
      <3>1. ptr'[p] = ptr[p] /\ ptr[p].buf # h
        BY <1>2, <1>3, <1>6, <2>2 DEF PtrInv, ChainsComplete
      <3>2. ptr[p].buf # NoBuffer => ptr[p].buf \in Buffers
        BY DEF PtrInv, PtrTypeOK, Fields
      <3> QED BY <1>7, <3>1, <3>2 DEF PtrInv, Current
    <2> QED BY <2>1, <2>2
  <1>9. StackFits'
    <2>1. words'[Stack] = words[Stack]
      BY <1>3, <1>7, BufferFacts
    <2> QED BY <1>2, <1>7, <2>1 DEF PtrInv, StackFits
  <1>10. ChainsComplete' /\ chain' \in [Buffers -> SUBSET Pointers]
    BY <1>2, <1>3, <1>4, <1>6, AttachedComplete
  <1>11. local[q] = 0 /\ local' = [local EXCEPT ![q] = 0]
    <2>1. local[q] = 0
      BY <1>2, BufferFacts DEF PtrInv, LocalsBounded, IsNew
    <2> QED BY <1>2, <2>1 DEF PtrInv, PtrTypeOK
  <1> DEFINE l == 0
  <1>12. /\ l \in Int /\ l \in -1 .. Len(frames) /\ local' = [local EXCEPT ![q] = l]
         /\ (l # 0 => f.buf = Stack) /\ (l > 0 => f.first >= frames[l])
         /\ (l = Returned => f.end <= f.first)
    BY <1>11, FramesFacts DEF Returned
  <1>13. sp' \in Nat
    BY <1>2 DEF PtrInv, PtrTypeOK
  <1>14. \A p \in Pointers \ {q} : ptr'[p].end <= ptr[p].end
    BY <1>6, EndReflexive
  <1>15. ptr'[q].end <= f.end
    BY <1>3, <1>4, <1>6
  <1>16. ptr'[q].buf = f.buf /\ ptr'[q].first = f.first
         /\ \A p \in Pointers \ {q} : ptr'[p].buf = ptr[p].buf /\ ptr'[p].first = ptr[p].first
    BY <1>6
  <1> HIDE DEF l
  <1> QED BY <1>2, <1>4, <1>6, <1>7, <1>8, <1>9, <1>10, <1>12, <1>14, <1>15, <1>13, <1>16, GivenKeeps

(* A heap buffer gets another place, or another size, and tells its pointers. *)
LEMMA HeapMoves ==
  ASSUME PtrInv, NEW h \in Heaps, NEW a \in Places, NEW n \in 0 .. Modulus - 1,
         place' = [place EXCEPT ![h] = a], words' = [words EXCEPT ![h] = n],
         ptr' = Notified(ptr, chain[h], a, n),
         sp' = sp, frames' = frames, chain' = chain, local' = local
  PROVE  PtrInv'
  <1>1. h \in Buffers /\ h # Stack /\ n \in Nat
    BY PointersAssumption, BufferFacts
  <1>2. /\ place' \in [Buffers -> Places] /\ place'[h] = a
        /\ words' \in [Buffers -> 0 .. Modulus - 1] /\ words'[h] = n
        /\ \A b \in Buffers \ {h} : place'[b] = place[b] /\ words'[b] = words[b]
    BY <1>1 DEF PtrInv, PtrTypeOK, StackFits
  <1>3. /\ ptr' \in [Pointers -> Fields]
        /\ \A p \in Pointers : /\ ptr'[p].buf = ptr[p].buf
                               /\ ptr'[p].first = ptr[p].first
                               /\ ptr'[p].end <= ptr[p].end
                               /\ p \in chain[h] => ptr'[p].addr = a /\ ptr'[p].end <= n
                               /\ p \notin chain[h] => ptr'[p] = ptr[p]
    <2> DEFINE c == chain[h]
    <2>1. ptr \in [Pointers -> Fields] /\ ptr' = Notified(ptr, c, a, n)
      BY DEF PtrInv, PtrTypeOK
    <2> HIDE DEF c
    <2>2. /\ ptr' \in [Pointers -> Fields]
          /\ \A p \in Pointers : /\ ptr'[p].buf = ptr[p].buf
                                 /\ ptr'[p].first = ptr[p].first
                                 /\ ptr'[p].end <= ptr[p].end
                                 /\ p \in c => ptr'[p].addr = a /\ ptr'[p].end <= n
                                 /\ p \notin c => ptr'[p] = ptr[p]
      BY <1>1, <2>1, NotifiedFields
    <2> QED BY <2>2 DEF c
  <1>4. ASSUME NEW p \in Pointers PROVE Current(ptr'[p], place', words')
    <2>1. p \in chain[h] <=> ptr[p].buf = h
      BY <1>1 DEF PtrInv, ChainsComplete
    <2>2. CASE ptr[p].buf = h
      BY <1>2, <1>3, <2>1, <2>2 DEF Current
    <2>3. CASE ptr[p].buf # h
      <3>1. ptr[p].buf # NoBuffer => ptr[p].buf \in Buffers
        BY DEF PtrInv, PtrTypeOK, Fields
      <3> QED BY <1>2, <1>3, <2>1, <2>3, <3>1 DEF PtrInv, Current
    <2> QED BY <2>2, <2>3
  <1>5. PointersStay
    BY <1>3, <1>4 DEF PointersStay
  <1>6. StackFits'
    <2>1. words'[Stack] = words[Stack]
      BY <1>1, <1>2, BufferFacts
    <2> QED BY <1>2, <2>1 DEF PtrInv, StackFits
  <1>7. /\ local' \in [Pointers -> Int] /\ frames' \in Seq(Nat) /\ sp' \in Nat
        /\ \A p \in Pointers : local'[p] = local[p] /\ local[p] <= Len(frames')
                /\ (local[p] > 0 => frames'[local[p]] = frames[local[p]])
    BY FramesFacts DEF PtrInv, PtrTypeOK
  <1> QED BY <1>2, <1>5, <1>6, <1>7, StayKeeps

LEMMA ResizeBufferInv ==
  ASSUME PtrInv, NEW h \in Heaps, NEW n \in Sizes, ResizeBuffer(h, n) PROVE PtrInv'
  <1>1. n \in 0 .. Modulus - 1 /\ h \in Buffers
    BY PointersAssumption, BufferFacts
  <1>2. PICK a \in IF n > words[h] THEN Places ELSE {place[h]} :
            /\ place' = [place EXCEPT ![h] = a]
            /\ ptr' = Notified(ptr, chain[h], a, n)
    BY DEF ResizeBuffer
  <1>3. a \in Places
    BY <1>1, <1>2 DEF PtrInv, PtrTypeOK
  <1> QED BY <1>1, <1>2, <1>3, HeapMoves DEF ResizeBuffer

LEMMA ReserveBufferInv ==
  ASSUME PtrInv, NEW h \in Heaps, NEW a \in Places, ReserveBuffer(h, a) PROVE PtrInv'
  <1>1. h \in Buffers /\ words \in [Buffers -> 0 .. Modulus - 1]
    BY BufferFacts DEF PtrInv, StackFits
  <1>2. words[h] \in 0 .. Modulus - 1 /\ words' = [words EXCEPT ![h] = words[h]]
    BY <1>1 DEF ReserveBuffer
  <1> DEFINE n == words[h]
  <1>3. n \in 0 .. Modulus - 1 /\ words' = [words EXCEPT ![h] = n]
        /\ ptr' = Notified(ptr, chain[h], a, n)
    BY <1>2 DEF ReserveBuffer
  <1>4. place' = [place EXCEPT ![h] = a]
        /\ sp' = sp /\ frames' = frames /\ chain' = chain /\ local' = local
    BY DEF ReserveBuffer
  <1> HIDE DEF n
  <1> QED BY <1>3, <1>4, HeapMoves

-----------------------------------------------------------------------------
(* Copy, Element and Destroy give one pointer object the fields f and the mark l. *)
LEMMA SetFields ==
  ASSUME PtrInv, NEW q \in Pointers, NEW f \in Fields, NEW l \in -1 .. Len(frames),
         ptr' = [ptr EXCEPT ![q] = f], local' = [local EXCEPT ![q] = l],
         place' = place, words' = words, sp' = sp, frames' = frames,
         ChainsComplete', chain' \in [Buffers -> SUBSET Pointers],
         Current(f, place, words),
         l # 0 => f.buf = Stack, l > 0 => f.first >= frames[l],
         l = Returned => f.end <= f.first
  PROVE  PtrInv'
  <1>1. /\ ptr' \in [Pointers -> Fields] /\ ptr'[q] = f
        /\ \A p \in Pointers \ {q} : ptr'[p] = ptr[p]
    BY DEF PtrInv, PtrTypeOK
  <1>2. f.end <= f.end
    BY DEF Fields
  <1>3. \A p \in Pointers : Current(ptr'[p], place', words')
    BY <1>1 DEF PtrInv
  <1>4. \A p \in Pointers \ {q} : ptr'[p].end <= ptr[p].end
    BY <1>1, EndReflexive
  <1>5. StackFits' /\ place' \in [Buffers -> Places] /\ sp' \in Nat
    BY DEF PtrInv, PtrTypeOK, StackFits
  <1>6. l \in Int
    BY FramesFacts
  <1> QED BY <1>1, <1>2, <1>3, <1>4, <1>5, <1>6, GivenKeeps

LEMMA CopyInv ==
  ASSUME PtrInv, NEW p \in Pointers, NEW q \in Pointers, NEW d \in Steps, Copy(p, q, d)
  PROVE  PtrInv'
  <1> DEFINE f == [ptr[p] EXCEPT !.offset = Wrap(@ + d)]
             l == local[p]
             b == ptr[p].buf
  <1>1. /\ IsNew(q) /\ ~IsNew(p) /\ ptr' = [ptr EXCEPT ![q] = f] /\ chain' = Attached(q, b)
        /\ local' = [local EXCEPT ![q] = l]
        /\ place' = place /\ words' = words /\ sp' = sp /\ frames' = frames
    BY DEF Copy
  <1>2. ptr[p] \in Fields
    BY DEF PtrInv, PtrTypeOK
  <1>3. Wrap(ptr[p].offset + d) \in 0 .. Modulus - 1
    BY <1>2, WrapType, PointersAssumption DEF Fields
  <1>4. /\ f \in Fields /\ f.buf = ptr[p].buf /\ f.addr = ptr[p].addr
        /\ f.first = ptr[p].first /\ f.end = ptr[p].end
    BY <1>2, <1>3 DEF Fields
  <1>5. b \in Buffers
    BY <1>1, <1>2 DEF IsNew, Fields
  <1>6. Current(f, place, words)
    BY <1>4 DEF PtrInv, Current
  <1>7. /\ l \in -1 .. Len(frames) /\ (l # 0 => f.buf = Stack)
        /\ (l > 0 => f.first >= frames[l]) /\ (l = Returned => f.end <= f.first)
    BY <1>4 DEF PtrInv, LocalsBounded
  <1> HIDE DEF f, l
  <1>8. ptr'[q].buf = b /\ \A r \in Pointers \ {q} : ptr'[r].buf = ptr[r].buf
    BY <1>1, <1>4 DEF PtrInv, PtrTypeOK
  <1> HIDE DEF b
  <1>9. ChainsComplete' /\ chain' \in [Buffers -> SUBSET Pointers]
    BY <1>1, <1>5, <1>8, AttachedComplete
  <1> QED BY <1>1, <1>4, <1>6, <1>7, <1>9, SetFields

LEMMA ElementInv ==
  ASSUME PtrInv, NEW p \in Pointers, NEW q \in Pointers, NEW i \in Steps, NEW n \in Sizes,
         Element(p, q, i, n)
  PROVE  PtrInv'
  <1> DEFINE f == SetPointer(ptr[p].buf, At(p, i), n)
             b == ptr[p].buf
  <1>1. /\ IsNew(q) /\ ~IsNew(p) /\ ptr' = [ptr EXCEPT ![q] = f] /\ chain' = Attached(q, b)
        /\ local' = [local EXCEPT ![q] = 0]
        /\ place' = place /\ words' = words /\ sp' = sp /\ frames' = frames
    BY DEF Element
  <1>2. ptr[p] \in Fields
    BY DEF PtrInv, PtrTypeOK
  <1>3. At(p, i) \in 0 .. Modulus - 1
    BY <1>2, WrapType, PointersAssumption DEF Fields, At
  <1>4. b \in Buffers
    BY <1>1, <1>2 DEF IsNew, Fields
  <1>5. f \in Fields /\ f.buf = b /\ Current(f, place, words)
    BY <1>3, <1>4, SetPointerFields
  <1>6. 0 \in -1 .. Len(frames) /\ 0 # Returned /\ ~(0 > 0)
    BY FramesFacts DEF Returned
  <1> HIDE DEF f
  <1>7. ptr'[q].buf = b /\ \A r \in Pointers \ {q} : ptr'[r].buf = ptr[r].buf
    BY <1>1, <1>5 DEF PtrInv, PtrTypeOK
  <1> HIDE DEF b
  <1>8. ChainsComplete' /\ chain' \in [Buffers -> SUBSET Pointers]
    BY <1>1, <1>4, <1>7, AttachedComplete
  <1> QED BY <1>1, <1>5, <1>6, <1>8, SetFields

LEMMA DestroyInv == ASSUME PtrInv, NEW q \in Pointers, Destroy(q) PROVE PtrInv'
  <1>1. /\ ptr' = [ptr EXCEPT ![q] = NullPtr] /\ chain' = [b \in Buffers |-> chain[b] \ {q}]
        /\ local' = [local EXCEPT ![q] = 0]
        /\ place' = place /\ words' = words /\ sp' = sp /\ frames' = frames
    BY DEF Destroy, Detached
  <1>2. NullPtr \in Fields /\ NullPtr.buf = NoBuffer
    <2>1. Nowhere \in Places
      BY PointersAssumption DEF Nowhere
    <2> QED BY <2>1, PointersAssumption DEF NullPtr, Fields
  <1>3. chain' \in [Buffers -> SUBSET Pointers]
    BY <1>1 DEF PtrInv, PtrTypeOK
  <1>4. ChainsComplete'
    <2> SUFFICES ASSUME NEW p \in Pointers, NEW b \in Buffers
                 PROVE  p \in chain'[b] <=> ptr'[p].buf = b
      BY DEF ChainsComplete
    <2>1. p \in chain[b] <=> ptr[p].buf = b
      BY DEF PtrInv, ChainsComplete
    <2>2. ptr'[p] = IF p = q THEN NullPtr ELSE ptr[p]
      BY <1>1 DEF PtrInv, PtrTypeOK
    <2> QED BY <1>1, <1>2, <2>1, <2>2, BufferFacts
  <1>5. Current(NullPtr, place, words)
    BY <1>2 DEF Current
  <1>6. 0 \in -1 .. Len(frames) /\ 0 # Returned /\ ~(0 > 0)
    BY FramesFacts DEF Returned
  <1> QED BY <1>1, <1>2, <1>3, <1>4, <1>5, <1>6, SetFields

-----------------------------------------------------------------------------
LEMMA NextPtrInv == PtrInv /\ [PtrNext]_ptrVars => PtrInv'
  <1> SUFFICES ASSUME PtrInv, [PtrNext]_ptrVars PROVE PtrInv'
    OBVIOUS
  <1>1. CASE \E k \in Sizes : AllocStack(k) \/ FreeStack(k)
    BY <1>1, AllocStackInv, FreeStackInv
  <1>2. CASE Call \/ Return
    BY <1>2, CallInv, ReturnInv
  <1>3. CASE \E j \in 0 .. Len(frames), s \in 0 .. sp : Throw(j, s)
    BY <1>3, ThrowInv
  <1>4. CASE \E p \in Pointers, i \in 0 .. sp, n \in Sizes : LoadLocalPtr(p, i, n)
    BY <1>4, LoadLocalPtrInv
  <1>5. CASE HeapNext
    BY <1>5, AllocBufInv, ResizeBufferInv, ReserveBufferInv DEF HeapNext
  <1>6. CASE \E p, q \in Pointers, d \in Steps : Copy(p, q, d)
    BY <1>6, CopyInv
  <1>7. CASE \E p, q \in Pointers, i \in Steps, n \in Sizes : Element(p, q, i, n)
    BY <1>7, ElementInv
  <1>8. CASE \E p \in Pointers : Destroy(p)
    BY <1>8, DestroyInv
  <1>9. CASE UNCHANGED ptrVars
    BY <1>9 DEF ptrVars, PtrInv, PtrTypeOK, ChainsComplete, StackFits, LocalsBounded, Current
  <1> QED BY <1>1, <1>2, <1>3, <1>4, <1>5, <1>6, <1>7, <1>8, <1>9 DEF PtrNext, StackNext

THEOREM PtrSpecInv == PtrSpec => []PtrInv
  BY InitPtrInv, NextPtrInv, PTL DEF PtrSpec

(* All values stay in their types: no offset leaves size_t. *)
THEOREM PtrTypesKept == PtrSpec => []PtrTypeOK
  <1>1. PtrInv => PtrTypeOK
    BY DEF PtrInv
  <1> QED BY <1>1, PtrSpecInv, PTL

(* No reallocation is missed: an access goes where the buffer is. *)
THEOREM NoStaleAddress == PtrSpec => []PointersFresh
  <1>1. PtrInv => PointersFresh
    BY DEF PtrInv, PointersFresh, Current
  <1> QED BY <1>1, PtrSpecInv, PTL

(* An access that is granted ends in the memory of the vector: it lies there, or it *)
(* begins before the buffer and its end wraps around into it.                      *)
THEOREM AccessesAllocated == PtrSpec => []AccessIsAllocated
  <1>1. ASSUME PtrInv, NEW p \in Pointers, NEW off \in Steps, NEW n \in Sizes,
               Granted(p, off, n)
        PROVE  LET end == At(p, off) + n
               IN  \/ end <= words[ptr[p].buf]
                   \/ end >= Modulus /\ end - Modulus <= words[ptr[p].buf]
    <2>1. ptr[p] \in Fields
      BY <1>1 DEF PtrInv, PtrTypeOK
    <2>2. At(p, off) \in 0 .. Modulus - 1 /\ n \in Nat /\ Modulus \in Nat
      BY <2>1, WrapType, PointersAssumption DEF Fields, At
    <2>3. ptr[p].buf \in Buffers /\ ptr[p].end \in Nat
      BY <1>1, <2>1 DEF Fields, Granted
    <2>4. ptr[p].end <= words[ptr[p].buf] /\ words[ptr[p].buf] \in Nat
      BY <1>1, <2>3, BufferFacts DEF PtrInv, PtrTypeOK, Current
    <2>5. CASE At(p, off) + n < Modulus
      <3>1. Wrap(At(p, off) + n) = At(p, off) + n
        BY <2>2, <2>5 DEF Wrap
      <3> QED BY <1>1, <2>2, <2>3, <2>4, <3>1 DEF Granted
    <2>6. CASE At(p, off) + n >= Modulus
      <3>1. Wrap(At(p, off) + n) = At(p, off) + n - Modulus
        BY <2>2, <2>6 DEF Wrap
      <3> QED BY <1>1, <2>2, <2>3, <2>4, <2>6, <3>1 DEF Granted
    <2> QED BY <2>2, <2>5, <2>6
  <1>2. PtrInv => AccessIsAllocated
    BY <1>1 DEF AccessIsAllocated
  <1> QED BY <1>2, PtrSpecInv, PTL

(* A pointer to a local variable is refused once its function has returned, unless  *)
(* the end of the access wraps around.                                             *)
THEOREM DeadLocalsRefused == PtrSpec => []DeadLocalRefused
  <1>1. ASSUME PtrInv, NEW p \in Pointers, NEW off \in Steps, NEW n \in Sizes,
               local[p] = Returned, At(p, off) + n < Modulus
        PROVE  ~Granted(p, off, n)
    <2>1. ptr[p] \in Fields
      BY <1>1 DEF PtrInv, PtrTypeOK
    <2>2. At(p, off) \in 0 .. Modulus - 1 /\ n \in 1 .. Modulus - 1
      BY <2>1, WrapType, PointersAssumption DEF Fields, At
    <2>3. Wrap(At(p, off) + n) = At(p, off) + n
      BY <1>1, <2>2, PointersAssumption DEF Wrap
    <2>4. ptr[p].end \in Nat /\ ptr[p].first \in Nat
      BY <2>1 DEF Fields
    <2>5. ptr[p].end <= ptr[p].first
      BY <1>1 DEF PtrInv, LocalsBounded
    <2> QED BY <2>2, <2>3, <2>4, <2>5 DEF Granted
  <1>2. PtrInv => DeadLocalRefused
    BY <1>1 DEF DeadLocalRefused
  <1> QED BY <1>2, PtrSpecInv, PTL
=============================================================================
