--------------------------------- MODULE KVMap --------------------------------
(***************************************************************************)
(* What the hash index promises its callers: a linearizable map from keys  *)
(* to records.  A Put takes effect in the step that returns TRUE; a Put    *)
(* may be refused only if the key is absent.  A Get returns a binding its  *)
(* key had at some moment between call and return; candidates[t] collects  *)
(* those bindings while the Get of thread t is open.                       *)
(***************************************************************************)
CONSTANTS Threads, Keys, Addrs, KeyAt, NoAddr

VARIABLES map, call, candidates, ret

vars == <<map, call, candidates, ret>>

Idle == [op |-> "none"]
PutCall(a) == [op |-> "put", addr |-> a]
GetCall(k) == [op |-> "get", key |-> k]

Result(ok, a) == [ok |-> ok, addr |-> a]

Init ==
    /\ map = [k \in Keys |-> NoAddr]
    /\ call = [t \in Threads |-> Idle]
    /\ candidates = [t \in Threads |-> {}]
    /\ ret = [t \in Threads |-> Result(FALSE, NoAddr)]

PutInvoke(t, a) ==
    /\ call[t] = Idle
    /\ call' = [call EXCEPT ![t] = PutCall(a)]
    /\ UNCHANGED <<map, candidates, ret>>

PutDone(t, a) ==
    /\ call[t] = PutCall(a)
    /\ call' = [call EXCEPT ![t] = Idle]
    /\ map' = [map EXCEPT ![KeyAt[a]] = a]
    /\ candidates' = [u \in Threads |->
                        IF call[u] = GetCall(KeyAt[a])
                        THEN candidates[u] \cup {a} ELSE candidates[u]]
    /\ ret' = [ret EXCEPT ![t] = Result(TRUE, a)]

PutRefused(t, a) ==
    /\ call[t] = PutCall(a)
    /\ map[KeyAt[a]] = NoAddr
    /\ call' = [call EXCEPT ![t] = Idle]
    /\ ret' = [ret EXCEPT ![t] = Result(FALSE, NoAddr)]
    /\ UNCHANGED <<map, candidates>>

GetInvoke(t, k) ==
    /\ call[t] = Idle
    /\ call' = [call EXCEPT ![t] = GetCall(k)]
    /\ candidates' = [candidates EXCEPT ![t] = {map[k]}]
    /\ UNCHANGED <<map, ret>>

GetDone(t, k) ==
    /\ call[t] = GetCall(k)
    /\ call' = [call EXCEPT ![t] = Idle]
    /\ candidates' = [candidates EXCEPT ![t] = {}]
    /\ \E a \in candidates[t] : ret' = [ret EXCEPT ![t] = Result(a # NoAddr, a)]
    /\ UNCHANGED map

Next ==
    \E t \in Threads :
        \/ \E a \in Addrs : PutInvoke(t, a) \/ PutDone(t, a) \/ PutRefused(t, a)
        \/ \E k \in Keys : GetInvoke(t, k) \/ GetDone(t, k)

Spec == Init /\ [][Next]_vars

=============================================================================
