---------------------------- MODULE MonitorSpec ----------------------------
(***************************************************************************)
(* What the monitors of LObject promise to a script, without mutex, lists,  *)
(* polls or condition variables: a reentrant lock for each object, given up  *)
(* as a whole by wait() and taken back as a whole when wait() returns.       *)
(***************************************************************************)
EXTENDS Naturals

CONSTANTS Contexts, Objects, NoContext, NoObject

VARIABLES
    holder,  \* holder[o]   : the context that has the lock of o
    blocks,  \* blocks[c][o]: how many synchronized blocks on o the context c is in
    parked   \* parked[c]   : the object whose wait() c is in

svars == <<holder, blocks, parked>>

Init ==
    /\ holder = [o \in Objects |-> NoContext]
    /\ blocks = [c \in Contexts |-> [o \in Objects |-> 0]]
    /\ parked = [c \in Contexts |-> NoObject]

(* A block begins when the lock is free or its own. *)
Enter(c, o) ==
    /\ parked[c] = NoObject
    /\ holder[o] \in {NoContext, c}
    /\ holder' = [holder EXCEPT ![o] = c]
    /\ blocks' = [blocks EXCEPT ![c][o] = @ + 1]
    /\ UNCHANGED parked

(* A block ends; the last one frees the lock. *)
Exit(c, o) ==
    /\ parked[c] = NoObject
    /\ holder[o] = c
    /\ blocks' = [blocks EXCEPT ![c][o] = @ - 1]
    /\ holder' = IF blocks[c][o] = 1 THEN [holder EXCEPT ![o] = NoContext] ELSE holder
    /\ UNCHANGED parked

(* wait() frees the lock, whatever the nesting. *)
Park(c, o) ==
    /\ parked[c] = NoObject
    /\ holder[o] = c
    /\ holder' = [holder EXCEPT ![o] = NoContext]
    /\ parked' = [parked EXCEPT ![c] = o]
    /\ UNCHANGED blocks

(* wait() returns with the lock, the nesting unchanged. *)
Unpark(c) ==
    /\ parked[c] # NoObject
    /\ holder[parked[c]] = NoContext
    /\ holder' = [holder EXCEPT ![parked[c]] = c]
    /\ parked' = [parked EXCEPT ![c] = NoObject]
    /\ UNCHANGED blocks

(* wait() ends by an exception or by finish(): the blocks are left without lock. *)
Abandon(c) ==
    /\ parked[c] # NoObject
    /\ blocks' = [blocks EXCEPT ![c][parked[c]] = 0]
    /\ parked' = [parked EXCEPT ![c] = NoObject]
    /\ UNCHANGED holder

Next == \E c \in Contexts :
    \/ \E o \in Objects : Enter(c, o) \/ Exit(c, o) \/ Park(c, o)
    \/ Unpark(c)
    \/ Abandon(c)

Spec == Init /\ [][Next]_svars
=============================================================================
