------------------------------ MODULE Pointers ------------------------------
(***************************************************************************)
(* Pointer objects of scripts (LPointerObj) into buffers that move: the      *)
(* stack of a context, where the local variables are, and the buffers that    *)
(* "new" allocates.  A pointer object caches the address and the size of its  *)
(* buffer; a buffer keeps the pointer objects that refer to it in a chain and  *)
(* tells them when it has been reallocated.                                   *)
(*                                                                         *)
(* The unit of every offset and size is one word of the stack, and the chain   *)
(* is a set (its order matters to nothing).  One context runs: a thread that   *)
(* copies a pointer to the stack of another one while that stack grows is      *)
(* outside of this module.                                                    *)
(***************************************************************************)
EXTENDS Integers, Sequences

CONSTANTS Pointers,   \* the LPointerObjs
          Heaps,      \* the LArrayBufStorages of "new" and of files
          Stack,      \* the LStackBuffer
          NoBuffer,   \* nullptr
          Places,     \* the addresses the allocator returns
          Lengths,    \* the lengths of the stack: 0x100 words and its doublings
          Modulus,    \* size_t counts modulo this number (2^64)
          Sizes,      \* bound: the sizes of buffers, variables and accesses
          Steps,      \* bound: the distances pointers are moved by
          MaxFrames   \* bound: nested calls

ASSUME PointersAssumption ==
    /\ Stack \notin Heaps
    /\ NoBuffer \notin Heaps \cup {Stack}
    /\ Places # {}
    /\ Lengths \subseteq Nat \ {0}
    /\ \E n \in Lengths : \A k \in Lengths : n <= k
    /\ Modulus \in Nat \ {0}
    /\ \A n \in Lengths : n < Modulus
    /\ Sizes \subseteq 1 .. Modulus - 1
    /\ Steps \subseteq -Modulus + 1 .. Modulus - 1
    /\ MaxFrames \in Nat

Buffers == Heaps \cup {Stack}

VARIABLES
    place,   \* GetBuffer() of each buffer
    words,   \* the size of each std::vector (m_length for the stack)
    sp,      \* m_sp
    frames,  \* for each call: the m_sp to which its Return goes back
    ptr,     \* the fields of the pointer objects
    chain,   \* the pointer objects in the chain of each buffer
    local    \* history: the call whose local variable a pointer was taken of

ptrVars == <<place, words, sp, frames, ptr, chain, local>>

(* m_pBuf, m_pBufPtr, m_nBufSize, m_iOffset, m_iBoundFirst, m_iBoundEnd *)
Fields == [buf : Buffers \cup {NoBuffer}, addr : Places, bytes : Nat,
           offset : 0 .. Modulus - 1, first : 0 .. Modulus - 1, end : Nat]

Nowhere == CHOOSE a \in Places : TRUE
NullPtr == [buf |-> NoBuffer, addr |-> Nowhere, bytes |-> 0, offset |-> 0, first |-> 0, end |-> 0]
InitWords == CHOOSE n \in Lengths : \A k \in Lengths : n <= k

(* history: a pointer to a local variable of a call that has returned.  0 stands *)
(* for every other pointer, those of calls that an exception has left included.  *)
Returned == -1

PtrInit ==
    /\ place = [b \in Buffers |-> Nowhere]
    /\ words = [b \in Buffers |-> IF b = Stack THEN InitWords ELSE 0]
    /\ sp = 0
    /\ frames = <<>>
    /\ ptr = [p \in Pointers |-> NullPtr]
    /\ chain = [b \in Buffers |-> {}]
    /\ local = [p \in Pointers |-> 0]

-----------------------------------------------------------------------------
Least(m, n) == IF m <= n THEN m ELSE n

(* The sum of two numbers in size_t. *)
Wrap(n) == IF n < 0 THEN n + Modulus ELSE IF n >= Modulus THEN n - Modulus ELSE n

(* GetBytes() *)
GetBytes(b) == IF b = Stack THEN sp ELSE words[b]

(* Mutant: the bounds stay what they were. *)
OnlyAddress(f, a, n) == [f EXCEPT !.addr = a, !.bytes = n]

(* OnBufferReallocated: the buffer is at a, and has n words. *)
OnBufferReallocated(f, a, n) ==
    [f EXCEPT !.addr = a, !.bytes = n, !.end = Least(f.end, n)]

(* NotifyBufferReallocation, when the pointers are ps and those in the chain are c. *)
Notified(ps, c, a, n) ==
    [p \in Pointers |-> IF p \in c THEN OnBufferReallocated(ps[p], a, n) ELSE ps[p]]

(* SetPointer( b, i, n ) *)
SetPointer(b, i, n) ==
    [buf |-> b, addr |-> place[b], bytes |-> GetBytes(b),
     offset |-> i, first |-> i, end |-> Least(Wrap(i + n), GetBytes(b))]

(* AttachRefChain of p, DetachRefChain of p *)
Attached(p, b) == [chain EXCEPT ![b] = @ \cup {p}]
Detached(p) == [b \in Buffers |-> chain[b] \ {p}]

(* GetPointer( off, n ) of p: is an address returned? *)
At(p, off) == Wrap(ptr[p].offset + off)
Granted(p, off, n) ==
    /\ ptr[p].buf # NoBuffer
    /\ At(p, off) >= ptr[p].first
    /\ Wrap(At(p, off) + n) <= ptr[p].end

IsNew(p) == ptr[p].buf = NoBuffer

-----------------------------------------------------------------------------
(* The stack. *)

(* Where the words of the current call begin. *)
Base == IF frames = <<>> THEN 0 ELSE frames[Len(frames)]

(* Mutant: the pointers are not told. *)
ExpandQuietly(k, ps, c) ==
    \E a \in Places, n \in Lengths :
        /\ sp + k <= n /\ \A m \in Lengths : sp + k <= m => n <= m
        /\ place' = [place EXCEPT ![Stack] = a]
        /\ words' = [words EXCEPT ![Stack] = n]
        /\ ptr' = ps

(* ExpandBuffer( m_sp + k ), before m_sp moves. *)
ExpandBuffer(k, ps, c) ==
    \E a \in Places, n \in Lengths :
        /\ sp + k <= n /\ \A m \in Lengths : sp + k <= m => n <= m
        /\ place' = [place EXCEPT ![Stack] = a]
        /\ words' = [words EXCEPT ![Stack] = n]
        /\ ptr' = Notified(ps, c, a, sp)

(* Push and AddPointer: k words more, when the pointers are ps and the chain of the *)
(* stack is c.                                                                    *)
AddPointer(k, ps, c) ==
    /\ sp' = sp + k
    /\ IF sp + k <= words[Stack]
       THEN ptr' = ps /\ UNCHANGED <<place, words>>
       ELSE ExpandBuffer(k, ps, c)

(* AllocStack, Push: variables and temporaries of the current call. *)
AllocStack(k) ==
    /\ AddPointer(k, ptr, chain[Stack])
    /\ UNCHANGED <<frames, chain, local>>

(* FreeStack, FreeStackLocal, Pop: the pointers are not told. *)
FreeStack(k) ==
    /\ sp - k >= Base
    /\ sp' = sp - k
    /\ UNCHANGED <<place, words, frames, ptr, chain, local>>

(* Call and EnterFunc: the words of a call are pushed at once. *)
Call ==
    /\ Len(frames) < MaxFrames
    /\ frames' = Append(frames, sp)
    /\ AddPointer(1, ptr, chain[Stack])
    /\ UNCHANGED <<chain, local>>

(* Mutant: Return does not tell the pointers. *)
ReturnQuietly ==
    /\ frames # <<>>
    /\ sp' = frames[Len(frames)]
    /\ frames' = SubSeq(frames, 1, Len(frames) - 1)
    /\ local' = [p \in Pointers |-> IF local[p] = Len(frames) THEN Returned ELSE local[p]]
    /\ UNCHANGED <<place, words, ptr, chain>>

(* LeaveFunc and Return. *)
Return ==
    /\ frames # <<>>
    /\ sp' = frames[Len(frames)]
    /\ frames' = SubSeq(frames, 1, Len(frames) - 1)
    /\ ptr' = Notified(ptr, chain[Stack], place[Stack], frames[Len(frames)])
    /\ local' = [p \in Pointers |-> IF local[p] = Len(frames) THEN Returned ELSE local[p]]
    /\ UNCHANGED <<place, words, chain>>

(* An exception is handled in the j-th call, below m_sp: the calls above it are *)
(* dropped, and the pointers are not told.                                      *)
Throw(j, s) ==
    /\ j < Len(frames)
    /\ s <= frames[j + 1] /\ (j > 0 => s >= frames[j])
    /\ sp' = s
    /\ frames' = SubSeq(frames, 1, j)
    /\ local' = [p \in Pointers |-> IF local[p] > j THEN 0 ELSE local[p]]
    /\ UNCHANGED <<place, words, ptr, chain>>

(* LoadLocalPtr: a pointer to n words from the i-th one, pushed onto the stack. *)
LoadLocalPtr(p, i, n) ==
    /\ IsNew(p)
    /\ i >= Base /\ i + n <= sp
    /\ chain' = Attached(p, Stack)
    /\ AddPointer(1, [ptr EXCEPT ![p] = SetPointer(Stack, i, n)], chain'[Stack])
    /\ local' = [local EXCEPT ![p] = Len(frames)]
    /\ UNCHANGED frames

-----------------------------------------------------------------------------
(* The heap. *)

(* new: AllocBuf. *)
AllocBuf(p, h, n) ==
    /\ IsNew(p) /\ chain[h] = {}
    /\ \E a \in Places :
        /\ place' = [place EXCEPT ![h] = a]
        /\ words' = [words EXCEPT ![h] = n]
        /\ ptr' = [ptr EXCEPT ![p] = [buf |-> h, addr |-> a, bytes |-> n,
                                      offset |-> 0, first |-> 0, end |-> n]]
    /\ chain' = Attached(p, h)
    /\ UNCHANGED <<sp, frames, local>>

(* ResizeBuffer: a vector that grows may move. *)
ResizeBuffer(h, n) ==
    /\ \E a \in IF n > words[h] THEN Places ELSE {place[h]} :
        /\ place' = [place EXCEPT ![h] = a]
        /\ ptr' = Notified(ptr, chain[h], a, n)
    /\ words' = [words EXCEPT ![h] = n]
    /\ UNCHANGED <<sp, frames, chain, local>>

(* ReserveBuffer, when the vector moves. *)
ReserveBuffer(h, a) ==
    /\ a # place[h]
    /\ place' = [place EXCEPT ![h] = a]
    /\ ptr' = Notified(ptr, chain[h], a, words[h])
    /\ UNCHANGED <<words, sp, frames, chain, local>>

-----------------------------------------------------------------------------
(* Pointer arithmetic, assignments to another pointer type, clones: a copy, which is *)
(* then moved.                                                                    *)
Copy(p, q, d) ==
    /\ IsNew(q) /\ ~IsNew(p)
    /\ ptr' = [ptr EXCEPT ![q] = [ptr[p] EXCEPT !.offset = Wrap(@ + d)]]
    /\ chain' = Attached(q, ptr[p].buf)
    /\ local' = [local EXCEPT ![q] = local[p]]
    /\ UNCHANGED <<place, words, sp, frames>>

(* A reference to an element or a member: a pointer with bounds of its own. *)
Element(p, q, i, n) ==
    /\ IsNew(q) /\ ~IsNew(p)
    /\ ptr' = [ptr EXCEPT ![q] = SetPointer(ptr[p].buf, At(p, i), n)]
    /\ chain' = Attached(q, ptr[p].buf)
    /\ local' = [local EXCEPT ![q] = 0]
    /\ UNCHANGED <<place, words, sp, frames>>

(* The destructor. *)
Destroy(p) ==
    /\ ~IsNew(p)
    /\ ptr' = [ptr EXCEPT ![p] = NullPtr]
    /\ chain' = Detached(p)
    /\ local' = [local EXCEPT ![p] = 0]
    /\ UNCHANGED <<place, words, sp, frames>>

-----------------------------------------------------------------------------
StackNext ==
    \/ \E k \in Sizes : AllocStack(k) \/ FreeStack(k)
    \/ Call \/ Return
    \/ \E j \in 0 .. Len(frames), s \in 0 .. sp : Throw(j, s)
    \/ \E p \in Pointers, i \in 0 .. sp, n \in Sizes : LoadLocalPtr(p, i, n)

HeapNext == \E h \in Heaps :
    \/ \E p \in Pointers, n \in Sizes : AllocBuf(p, h, n)
    \/ \E n \in Sizes : ResizeBuffer(h, n)
    \/ \E a \in Places : ReserveBuffer(h, a)

PtrNext ==
    \/ StackNext
    \/ HeapNext
    \/ \E p, q \in Pointers, d \in Steps : Copy(p, q, d)
    \/ \E p, q \in Pointers, i \in Steps, n \in Sizes : Element(p, q, i, n)
    \/ \E p \in Pointers : Destroy(p)

PtrSpec == PtrInit /\ [][PtrNext]_ptrVars

-----------------------------------------------------------------------------
PtrTypeOK ==
    /\ place \in [Buffers -> Places]
    /\ words \in [Buffers -> Nat]
    /\ sp \in Nat
    /\ frames \in Seq(Nat)
    /\ ptr \in [Pointers -> Fields]
    /\ chain \in [Buffers -> SUBSET Pointers]
    /\ local \in [Pointers -> Int]

(* An access is refused, or it goes where the buffer is now: no pointer object     *)
(* misses a reallocation ("assert( m_pBufPtr == m_pBuf->GetBuffer() )").            *)
PointersFresh == \A p \in Pointers :
    ptr[p].buf # NoBuffer => ptr[p].addr = place[ptr[p].buf]

(* An access that is granted ends within the vector as it is now, however its       *)
(* buffer has shrunk, grown and moved, and wherever the stack pointer is now.  Only  *)
(* an access that begins before the buffer, by no more than its own length, ends    *)
(* there because the sum wraps around.                                             *)
AccessIsAllocated == \A p \in Pointers, off \in Steps, n \in Sizes :
    Granted(p, off, n) =>
        LET end == At(p, off) + n
        IN  \/ end <= words[ptr[p].buf]
            \/ end >= Modulus /\ end - Modulus <= words[ptr[p].buf]

(* manual.xhtml:994: an access out of the range is refused, and destroys no memory.  *)
(* It fails: the end of the element just before a buffer wraps around to 0.         *)
OutOfRangeRefused == \A p \in Pointers, off \in Steps, n \in Sizes :
    Granted(p, off, n) => At(p, off) + n <= words[ptr[p].buf]

(* A pointer to a local variable of a function that has returned is refused for     *)
(* ever, even when later calls have raised the stack pointer over it again, unless   *)
(* the end of the access wraps around, as that of the word before the stack does.   *)
DeadLocalRefused == \A p \in Pointers, off \in Steps, n \in Sizes :
    local[p] = Returned /\ At(p, off) + n < Modulus => ~Granted(p, off, n)

=============================================================================
