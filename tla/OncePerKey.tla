------------------------------ MODULE OncePerKey ------------------------------
(***************************************************************************)
(* What an idempotency key promises: the operation behind a key takes      *)
(* effect at most once; from then on every request with that key and       *)
(* payload is answered with the result of that one effect, and nobody is   *)
(* answered with a success before it.                                      *)
(***************************************************************************)
CONSTANTS Keys, Payloads, Calls, NoRequest, NoCall, NoReply, Refused

VARIABLES
    request,   \* call -> its key and payload, or NoRequest
    effect,    \* key -> the call that took effect, or NoCall
    reply      \* call -> the call whose result it got, Refused, or NoReply

vars == <<request, effect, reply>>

Of(c) == effect[request[c].key]

Init ==
    /\ request = [c \in Calls |-> NoRequest]
    /\ effect = [k \in Keys |-> NoCall]
    /\ reply = [c \in Calls |-> NoReply]

Ask(c, k, p) ==
    /\ request[c] = NoRequest
    /\ request' = [request EXCEPT ![c] = [key |-> k, payload |-> p]]
    /\ UNCHANGED <<effect, reply>>

Pending(c) == request[c] # NoRequest /\ reply[c] = NoReply

TakeEffect(c) ==
    /\ Pending(c)
    /\ Of(c) = NoCall
    /\ effect' = [effect EXCEPT ![request[c].key] = c]
    /\ UNCHANGED <<request, reply>>

Matches(c) == Of(c) # NoCall /\ request[Of(c)] = request[c]

Succeed(c) ==
    /\ Pending(c)
    /\ Matches(c)
    /\ reply' = [reply EXCEPT ![c] = Of(c)]
    /\ UNCHANGED <<request, effect>>

Refuse(c) ==
    /\ Pending(c)
    /\ ~Matches(c)
    /\ reply' = [reply EXCEPT ![c] = Refused]
    /\ UNCHANGED <<request, effect>>

Next ==
    \/ \E c \in Calls, k \in Keys, p \in Payloads : Ask(c, k, p)
    \/ \E c \in Calls : TakeEffect(c) \/ Succeed(c) \/ Refuse(c)

Spec == Init /\ [][Next]_vars
=============================================================================
