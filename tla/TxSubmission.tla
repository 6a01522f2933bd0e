----------------------------- MODULE TxSubmission ----------------------------
(***************************************************************************)
(* What submitting a transaction promises its caller, abstracted from how *)
(* the account is read, the transaction signed and the request carried.   *)
(*                                                                         *)
(* A call runs one or more attempts; each attempt may submit one          *)
(* transaction, the submission <<call, attempt>>.  A submission in flight *)
(* may be committed by the chain, once, or dropped.  A call finishes with *)
(* "ok" only if its current submission is committed, with "rejected" only *)
(* if it is neither committed nor in flight any more (it never will be),  *)
(* and with "network" or "sign_error" whatever happened.  A caller may    *)
(* start a new attempt after a network error.                             *)
(***************************************************************************)
EXTENDS Naturals

CONSTANTS Calls, MaxRetries

VARIABLES
    status,     \* status[c]: idle, pending, done
    attempt,    \* attempt[c]: the call's current attempt
    result,     \* result[c]: what the call reported
    inflight,   \* submissions sent and not yet committed or dropped
    committed   \* submissions the chain committed

vars == <<status, attempt, result, inflight, committed>>

Submissions == Calls \X (0..MaxRetries)

Init ==
    /\ status = [c \in Calls |-> "idle"]
    /\ attempt = [c \in Calls |-> 0]
    /\ result = [c \in Calls |-> "none"]
    /\ inflight = {}
    /\ committed = {}

Start(c) ==
    /\ status[c] = "idle"
    /\ status' = [status EXCEPT ![c] = "pending"]
    /\ UNCHANGED <<attempt, result, inflight, committed>>

Submit(c) ==
    /\ status[c] = "pending"
    /\ <<c, attempt[c]>> \notin inflight \cup committed
    /\ inflight' = inflight \cup {<<c, attempt[c]>>}
    /\ UNCHANGED <<status, attempt, result, committed>>

Commit(s) ==
    /\ s \in inflight
    /\ inflight' = inflight \ {s}
    /\ committed' = committed \cup {s}
    /\ UNCHANGED <<status, attempt, result>>

Drop(s) ==
    /\ s \in inflight
    /\ inflight' = inflight \ {s}
    /\ UNCHANGED <<status, attempt, result, committed>>

\* The outcomes the caller may be told, given what became of its submission.
Truthful(c, r) ==
    LET s == <<c, attempt[c]>> IN
    \/ r \in {"network", "sign_error"}
    \/ r = "ok" /\ s \in committed
    \/ r = "rejected" /\ s \notin committed \cup inflight

Finish(c) ==
    /\ status[c] = "pending"
    /\ \E r \in {"ok", "rejected", "network", "sign_error"} :
         /\ Truthful(c, r)
         /\ result' = [result EXCEPT ![c] = r]
    /\ status' = [status EXCEPT ![c] = "done"]
    /\ UNCHANGED <<attempt, inflight, committed>>

Retry(c) ==
    /\ status[c] = "done"
    /\ result[c] = "network"
    /\ attempt[c] < MaxRetries
    /\ status' = [status EXCEPT ![c] = "pending"]
    /\ attempt' = [attempt EXCEPT ![c] = @ + 1]
    /\ result' = [result EXCEPT ![c] = "none"]
    /\ UNCHANGED <<inflight, committed>>

Next ==
    \/ \E c \in Calls : Start(c) \/ Submit(c) \/ Finish(c) \/ Retry(c)
    \/ \E s \in Submissions : Commit(s) \/ Drop(s)

\* Every pending call is eventually told something.
Spec == Init /\ [][Next]_vars /\ \A c \in Calls : WF_vars(Finish(c))

=============================================================================
