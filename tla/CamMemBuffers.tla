---------------------------- MODULE CamMemBuffers ----------------------------
(***************************************************************************)
(* What the camera memory manager promises its users, without the table:   *)
(* a handle names a live buffer from its creation until its last reference *)
(* is dropped; the creator holds one reference until it releases it, and  *)
(* a kernel thread can take a reference only on a live buffer.  CamMemMgr  *)
(* is checked to implement this specification.                             *)
(***************************************************************************)
EXTENDS Naturals, FiniteSets

CONSTANTS Handles, Holders, NoHandle

VARIABLES
    live,    \* handles naming a buffer
    refs,    \* references on each handle's buffer
    owners,  \* handles whose creator has not released its reference
    held     \* the handle each kernel thread holds a reference on

vars == <<live, refs, owners, held>>

Init ==
    /\ live = {}
    /\ refs = [h \in Handles |-> 0]
    /\ owners = {}
    /\ held = [k \in Holders |-> NoHandle]

\* dropping one reference; the last one ends the buffer
Drop(h) ==
    IF refs[h] = 1
    THEN /\ live' = live \ {h}
         /\ refs' = [refs EXCEPT ![h] = 0]
    ELSE /\ refs' = [refs EXCEPT ![h] = @ - 1]
         /\ UNCHANGED live

Create(h) ==
    /\ h \notin live
    /\ live' = live \cup {h}
    /\ refs' = [refs EXCEPT ![h] = 1]
    /\ owners' = owners \cup {h}
    /\ UNCHANGED held

Give(h) ==
    /\ h \in owners
    /\ owners' = owners \ {h}
    /\ Drop(h)
    /\ UNCHANGED held

Take(k, h) ==
    /\ held[k] = NoHandle
    /\ h \in live
    /\ refs' = [refs EXCEPT ![h] = @ + 1]
    /\ held' = [held EXCEPT ![k] = h]
    /\ UNCHANGED <<live, owners>>

Put(k) ==
    /\ held[k] # NoHandle
    /\ held' = [held EXCEPT ![k] = NoHandle]
    /\ Drop(held[k])
    /\ UNCHANGED owners

\* the whole table dropped at once, while no thread holds a buffer
Reset ==
    /\ \A k \in Holders : held[k] = NoHandle
    /\ live' = {}
    /\ refs' = [h \in Handles |-> 0]
    /\ owners' = {}
    /\ UNCHANGED held

Next ==
    \/ \E h \in Handles : Create(h) \/ Give(h)
    \/ \E k \in Holders : Put(k) \/ \E h \in Handles : Take(k, h)
    \/ Reset

Spec == Init /\ [][Next]_vars
==============================================================================
