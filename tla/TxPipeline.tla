----------------------------- MODULE TxPipeline -----------------------------
(***************************************************************************)
(* The transaction pipeline of AkashAsyncClient (async_client.py) driving  *)
(* AkashTransactionSigner (transaction.py) against one funded-or-not       *)
(* account on the chain.                                                   *)
(*                                                                         *)
(* Each call c is one coroutine running create_deployment, create_bid or   *)
(* create_lease.  A coroutine yields only at its two awaits: the REST GET  *)
(* of /cosmos/auth/v1beta1/accounts/{address} in _get_account_info, and   *)
(* the POST of broadcast_tx_commit in broadcast_transaction.  Everything   *)
(* between the two awaits (message, TransactionInfo, create_transaction,   *)
(* sign_transaction, the JSON-RPC request) runs without interruption, so   *)
(* it is one step.  Several calls for the same wallet interleave at the    *)
(* awaits: the client has no per-account queue.                            *)
(*                                                                         *)
(* The environment: the chain (account existence, sequence, committed      *)
(* transactions), a REST node whose view of the account may lag behind    *)
(* the chain, an RPC node that checks and commits transactions, and a      *)
(* network that may lose a request or a response.  A caller may call      *)
(* again after a network error (the spec calls NetworkError retryable).    *)
(***************************************************************************)
EXTENDS Naturals, Sequences, FiniteSets, SequencesExt

CONSTANTS
    Calls,          \* coroutines, each running one create_* call
    AccNum,         \* the account_number the chain assigned to the wallet
    MaxRetries,     \* how many times a caller re-issues a call after a network error
    SignDocEncodes  \* FALSE: json.dumps of the sign doc fails, as in the code

ASSUME AccNum \in Nat \ {0}
ASSUME MaxRetries \in Nat
ASSUME SignDocEncodes \in BOOLEAN

VARIABLES
    pc,         \* pc[c]: where coroutine c is: idle, account (awaiting REST), broadcast (awaiting RPC), done
    attempt,    \* attempt[c]: how many times the caller has re-issued c
    result,     \* result[c]: what the last run of c returned or raised
    tx,         \* tx[c]: the signed transaction of the last run of c, or NoTx
    accExists,  \* the wallet's account exists on chain
    chainSeq,   \* the account's next expected sequence on chain
    committed,  \* the transactions the chain committed, in order
    restView,   \* the REST node's view of the account: [exists, seq]
    rpcReq,     \* broadcast requests sent and not yet processed by the RPC node
    rpcResp     \* RPC responses produced and not yet read by their coroutine

vars == <<pc, attempt, result, tx, accExists, chainSeq, committed, restView,
          rpcReq, rpcResp>>

MaxSeq == Cardinality(Calls) * (MaxRetries + 1)

NoTx == [call |-> "none"]

\* A signed transaction, abstracted to what the chain checks and what
\* identifies it: whose run produced it, and the account fields it signs.
Tx == [call : Calls, attempt : 0..MaxRetries, accNum : {0, AccNum},
       seq : 0..MaxSeq, resolved : BOOLEAN]

Results == {"none", "ok", "rejected", "network", "sign_error"}

Responses == [tx : Tx, kind : {"result", "error"}]

-----------------------------------------------------------------------------
(* Helpers translated from the code.                                       *)

\* Mutant: the sequence is read from the account_number field.
AccountInfoSwapped(view) ==
    IF view.exists
    THEN [accNum |-> AccNum, seq |-> AccNum, resolved |-> TRUE]
    ELSE [accNum |-> 0, seq |-> 0, resolved |-> FALSE]

\* _get_account_info: int(account.get('account_number', 0)) and
\* int(account.get('sequence', 0)).  When the REST node has no account the
\* response carries no 'account' and both fields silently become 0.
AccountInfo(view) ==
    IF view.exists
    THEN [accNum |-> AccNum, seq |-> view.seq, resolved |-> TRUE]
    ELSE [accNum |-> 0, seq |-> 0, resolved |-> FALSE]

\* create_transaction puts tx_info.sequence into signer_infos; then
\* sign_transaction signs {body, auth_info, chain_id, account_number}.  The
\* signed transaction is identified by its run and the signed account fields.
SignedTx(c, info) ==
    [call |-> c, attempt |-> attempt[c], accNum |-> info.accNum,
     seq |-> info.seq, resolved |-> info.resolved]

\* The chain accepts a transaction when the account exists, the signature
\* verifies (it covers account_number) and the sequence is the next one.
Accepts(t) ==
    /\ accExists
    /\ t.accNum = AccNum
    /\ t.seq = chainSeq

-----------------------------------------------------------------------------
(* The client's operations.                                                *)

\* The three create_* coroutines start alike: they call _get_account_info,
\* which sends the GET and awaits it.
Invoke(c) ==
    /\ pc[c] = "idle"
    /\ pc' = [pc EXCEPT ![c] = "account"]
    /\ UNCHANGED <<attempt, result, tx, accExists, chainSeq, committed,
                   restView, rpcReq, rpcResp>>

CreateDeployment(c) == Invoke(c)
CreateBid(c) == Invoke(c)
CreateLease(c) == Invoke(c)

\* The account GET fails: connection error, ClientTimeout, or an HTTP
\* error status (404 for an unknown account) from raise_for_status.  No
\* transaction has been signed, so the call ends with nothing sent.
AccountInfoFails(c) ==
    /\ pc[c] = "account"
    /\ pc' = [pc EXCEPT ![c] = "done"]
    /\ result' = [result EXCEPT ![c] = "network"]
    /\ UNCHANGED <<attempt, tx, accExists, chainSeq, committed, restView,
                   rpcReq, rpcResp>>

\* The account GET returns.  Without a further await the coroutine builds
\* the message, the TransactionInfo, the transaction, signs it and posts
\* the broadcast_tx_commit request.  sign_transaction serialises a sign doc
\* whose body_bytes and auth_info_bytes are bytes; when that json.dumps
\* fails the TypeError escapes and nothing is sent.
AccountInfoReturns(c) ==
    LET t == SignedTx(c, AccountInfo(restView)) IN
    /\ pc[c] = "account"
    /\ tx' = [tx EXCEPT ![c] = t]
    /\ IF SignDocEncodes
       THEN /\ pc' = [pc EXCEPT ![c] = "broadcast"]
            /\ rpcReq' = rpcReq \cup {t}
            /\ UNCHANGED result
       ELSE /\ pc' = [pc EXCEPT ![c] = "done"]
            /\ result' = [result EXCEPT ![c] = "sign_error"]
            /\ UNCHANGED rpcReq
    /\ UNCHANGED <<attempt, accExists, chainSeq, committed, restView, rpcResp>>

\* Mutant: the response is matched by its call, not by its request, as if
\* the JSON-RPC "id" (always 1) identified it.
BroadcastReturnsAnyResponse(c) ==
    /\ pc[c] = "broadcast"
    /\ \E r \in rpcResp :
        /\ r.tx.call = c
        /\ rpcResp' = rpcResp \ {r}
        /\ result' = [result EXCEPT ![c] = IF r.kind = "error" THEN "rejected" ELSE "ok"]
    /\ pc' = [pc EXCEPT ![c] = "done"]
    /\ UNCHANGED <<attempt, tx, accExists, chainSeq, committed, restView, rpcReq>>

\* broadcast_transaction reads the JSON-RPC response for its own request:
\* an "error" member raises AkashTransactionError, otherwise "result" is
\* returned.
BroadcastReturns(c) ==
    /\ pc[c] = "broadcast"
    /\ \E r \in rpcResp :
        /\ r.tx = tx[c]
        /\ rpcResp' = rpcResp \ {r}
        /\ result' = [result EXCEPT ![c] = IF r.kind = "error" THEN "rejected" ELSE "ok"]
    /\ pc' = [pc EXCEPT ![c] = "done"]
    /\ UNCHANGED <<attempt, tx, accExists, chainSeq, committed, restView, rpcReq>>

\* The broadcast session was created with aiohttp's default ClientTimeout
\* (total 300s): the wait can end with a timeout whatever the RPC node is
\* doing.  The request may still be processed, and its response is dropped.
BroadcastTimeout(c) ==
    /\ pc[c] = "broadcast"
    /\ pc' = [pc EXCEPT ![c] = "done"]
    /\ result' = [result EXCEPT ![c] = "network"]
    /\ UNCHANGED <<attempt, tx, accExists, chainSeq, committed, restView,
                   rpcReq, rpcResp>>

\* The caller treats a network error as retryable and calls create_* again;
\* the new run re-reads the account and signs a fresh transaction.
CallerRetry(c) ==
    /\ pc[c] = "done"
    /\ result[c] = "network"
    /\ attempt[c] < MaxRetries
    /\ attempt' = [attempt EXCEPT ![c] = @ + 1]
    /\ pc' = [pc EXCEPT ![c] = "account"]
    /\ result' = [result EXCEPT ![c] = "none"]
    /\ UNCHANGED <<tx, accExists, chainSeq, committed, restView, rpcReq, rpcResp>>

-----------------------------------------------------------------------------
(* The environment.                                                        *)

\* The RPC node runs CheckTx/DeliverTx on a received transaction and answers.
NodeProcess ==
    \E t \in rpcReq :
        /\ rpcReq' = rpcReq \ {t}
        /\ IF Accepts(t)
           THEN /\ committed' = Append(committed, t)
                /\ chainSeq' = chainSeq + 1
                /\ rpcResp' = rpcResp \cup {[tx |-> t, kind |-> "result"]}
           ELSE /\ rpcResp' = rpcResp \cup {[tx |-> t, kind |-> "error"]}
                /\ UNCHANGED <<committed, chainSeq>>
        /\ UNCHANGED <<pc, attempt, result, tx, accExists, restView>>

\* The network drops a request before the node sees it, or a response.
LoseRequest ==
    \E t \in rpcReq :
        /\ rpcReq' = rpcReq \ {t}
        /\ UNCHANGED <<pc, attempt, result, tx, accExists, chainSeq, committed,
                       restView, rpcResp>>

LoseResponse ==
    \E r \in rpcResp :
        /\ rpcResp' = rpcResp \ {r}
        /\ UNCHANGED <<pc, attempt, result, tx, accExists, chainSeq, committed,
                       restView, rpcReq>>

\* Someone funds the wallet's address: the account comes into existence.
FundAccount ==
    /\ ~accExists
    /\ accExists' = TRUE
    /\ UNCHANGED <<pc, attempt, result, tx, chainSeq, committed, restView,
                   rpcReq, rpcResp>>

\* The REST node catches up with the chain.
RestSync ==
    /\ restView # [exists |-> accExists, seq |-> chainSeq]
    /\ restView' = [exists |-> accExists, seq |-> chainSeq]
    /\ UNCHANGED <<pc, attempt, result, tx, accExists, chainSeq, committed,
                   rpcReq, rpcResp>>

-----------------------------------------------------------------------------

Init ==
    /\ pc = [c \in Calls |-> "idle"]
    /\ attempt = [c \in Calls |-> 0]
    /\ result = [c \in Calls |-> "none"]
    /\ tx = [c \in Calls |-> NoTx]
    /\ accExists \in BOOLEAN
    /\ chainSeq = 0
    /\ committed = <<>>
    /\ restView = [exists |-> accExists, seq |-> 0]
    /\ rpcReq = {}
    /\ rpcResp = {}

Next ==
    \/ \E c \in Calls :
        \/ CreateDeployment(c) \/ CreateBid(c) \/ CreateLease(c)
        \/ AccountInfoFails(c) \/ AccountInfoReturns(c)
        \/ BroadcastReturns(c) \/ BroadcastTimeout(c)
        \/ CallerRetry(c)
    \/ NodeProcess \/ LoseRequest \/ LoseResponse
    \/ FundAccount \/ RestSync

\* asyncio runs every ready coroutine; the REST session has a ClientTimeout
\* and the broadcast session aiohttp's default one, so each await ends with
\* an answer or a timeout.  Nothing is assumed of the network or the node.
Fairness ==
    \A c \in Calls :
        /\ WF_vars(AccountInfoReturns(c) \/ AccountInfoFails(c))
        /\ WF_vars(BroadcastReturns(c) \/ BroadcastTimeout(c))

Spec == Init /\ [][Next]_vars /\ Fairness

-----------------------------------------------------------------------------
(* Properties.                                                             *)

TypeOK ==
    /\ pc \in [Calls -> {"idle", "account", "broadcast", "done"}]
    /\ attempt \in [Calls -> 0..MaxRetries]
    /\ result \in [Calls -> Results]
    /\ tx \in [Calls -> Tx \cup {NoTx}]
    /\ accExists \in BOOLEAN
    /\ chainSeq \in 0..MaxSeq
    /\ committed \in Seq(Tx)
    /\ restView \in [exists : BOOLEAN, seq : 0..MaxSeq]
    /\ rpcReq \subseteq Tx
    /\ rpcResp \subseteq Responses

\* The spec (4.5) promises that a retry after a partial success cannot
\* commit an intent twice: every call has at most one committed transaction.
AtMostOnceEffect ==
    \A c \in Calls :
        Cardinality({i \in DOMAIN committed : committed[i].call = c}) <= 1

\* The spec (4.6, 6) requires that an account the REST node does not know is
\* surfaced to the caller, never signed with as account 0, sequence 0.
SignedWithResolvedAccount ==
    \A c \in Calls : tx[c] # NoTx => tx[c].resolved

-----------------------------------------------------------------------------
(* Refinement.                                                             *)

\* A call is pending while either of its awaits is outstanding; a
\* submission is the run of a call that put a transaction on the wire.
Submission(t) == <<t.call, t.attempt>>

Status(c) == IF pc[c] \in {"account", "broadcast"} THEN "pending" ELSE pc[c]

Submission_ == INSTANCE TxSubmission WITH
    status <- [c \in Calls |-> Status(c)],
    inflight <- {Submission(t) : t \in rpcReq},
    committed <- {Submission(t) : t \in ToSet(committed)}

\* The pipeline implements TxSubmission: over every interleaving of calls,
\* retries, lost messages and late commits, each run submits at most one
\* transaction, which the chain commits at most once, and every call is
\* eventually told an outcome that is true of its own submission (a
\* rejection only once that submission can no longer be committed).
ImplementsSubmission == Submission_!Spec

=============================================================================
