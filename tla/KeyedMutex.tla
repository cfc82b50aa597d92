----------------------------- MODULE KeyedMutex -----------------------------
(* What acquireRenderLock promises: a lock per key, held by one at a time. *)
CONSTANTS Clients, Keys, NoKey

VARIABLE holds   \* the key a client holds, or NoKey

Init == holds = [c \in Clients |-> NoKey]

Acquire(c, k) ==
  /\ holds[c] = NoKey
  /\ \A d \in Clients : holds[d] # k
  /\ holds' = [holds EXCEPT ![c] = k]

Release(c) ==
  /\ holds[c] # NoKey
  /\ holds' = [holds EXCEPT ![c] = NoKey]

Next == \E c \in Clients : Release(c) \/ \E k \in Keys : Acquire(c, k)

Spec == Init /\ [][Next]_holds
=============================================================================
