------------------------------- MODULE Browser -------------------------------
(***************************************************************************)
(* One tab of the web application, as far as its panels share it: the      *)
(* React state of the mounted component, and the fetches in flight.        *)
(*                                                                         *)
(* JavaScript runs one callback at a time, so what follows an await up to  *)
(* the next one is a single action.  A fetch is a record of `calls`: who   *)
(* sent it (`by`, a mount), the code that waits for it (`then`), the       *)
(* endpoint (`op`) with its argument, the token sent along (`as`), what    *)
(* the waiting closure has captured (`kept`), and how it stands.  Fetches  *)
(* are answered, and their continuations run, in any order.                *)
(***************************************************************************)
EXTENDS Integers, Sequences, FiniteSets

CONSTANTS
    None,      \* null; a model value
    MaxCalls,  \* bound on the fetches in flight
    Faulty     \* do requests fail, for a reason of their own?

ASSUME BrowserAssumption == MaxCalls \in Nat \ {0} /\ Faulty \in BOOLEAN

VARIABLES
    ui,     \* state of the mounted component; `view` says which it is
    mount,  \* how many components have been mounted: the identity of this one
    calls,  \* fetches in flight, oldest first
    token   \* the access token in sessionStorage

client == <<ui, mount, calls, token>>

Call(by, then, op, arg, kept) ==
    [by |-> by, then |-> then, op |-> op, arg |-> arg, kept |-> kept,
     as |-> token, state |-> "sent", data |-> None]

\* A handler of the mounted component sends a request.
Fetch(then, op, arg, kept) ==
    /\ Len(calls) < MaxCalls
    /\ calls' = Append(calls, Call(mount, then, op, arg, kept))

\* The code that waited for call i sends its next request.
ThenFetch(i, then, op, arg, kept) ==
    calls' = [calls EXCEPT ![i] = Call(calls[i].by, then, op, arg, kept)]

\* The sequence s without its i-th element.
Without(s, i) == [k \in 1 .. Len(s) - 1 |-> IF k < i THEN s[k] ELSE s[k + 1]]

\* The code that waited for call i ends.
Return(i) == calls' = Without(calls, i)

\* A box is ticked or cleared: a set of React state with or without x.
Toggle(S, x) == IF x \in S THEN S \ {x} ELSE S \cup {x}

SetState_Unmounted(i, new) == ui' = new

\* Code that waited for call i sets the state of its component: nothing happens
\* when that component is no longer mounted.
SetState(i, new) == ui' = IF calls[i].by = mount THEN new ELSE ui

Sent(i, op)   == calls[i].state = "sent" /\ calls[i].op = op
Awaited(i, then) == calls[i].state # "sent" /\ calls[i].then = then
IsOk(i)       == calls[i].state = "ok"

\* The server answers call i; what it answers to.
Reply(i, state, data) ==
    /\ calls' = [calls EXCEPT ![i].state = state, ![i].data = data]
    /\ UNCHANGED <<ui, mount, token>>

\* An error status with no effect on the server: an expired token, a suspended
\* organization, a provider that failed.
Refuse(i) == Faulty /\ calls[i].state = "sent" /\ Reply(i, "refused", None)

\* The request or its answer is lost: fetch throws.
Lose(i) == Faulty /\ calls[i].state # "lost" /\ Reply(i, "lost", None)

\* The mounted component has code waiting at `then`.
Own == {i \in DOMAIN calls : calls[i].by = mount}

Waiting(then) == \E i \in Own : calls[i].then = then
=============================================================================
