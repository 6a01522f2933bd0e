--------------------------- MODULE ClientLifecycle ---------------------------
(***************************************************************************)
(* The lifecycle of AkashAsyncClient (async_client.py): __aenter__ builds  *)
(* an AsyncExitStack, enters an aiohttp session into it, constructs and    *)
(* enters an AkashGrpcClient, constructs an AkashTransactionSigner;        *)
(* __aexit__ closes the stack; every public method first checks the field *)
(* it needs.                                                               *)
(*                                                                         *)
(* The caller is one task that uses the client through 'async with',      *)
(* possibly several times in a row, and calls its methods.  The k-th      *)
(* __aenter__ creates exit stack k, session k and gRPC client k.  A gRPC   *)
(* client's channel is created lazily by its first call and closed by its *)
(* close() (modelled in detail in GrpcChannel).                           *)
(***************************************************************************)
EXTENDS Naturals

CONSTANTS
    MaxEnters,          \* how many times the caller enters the client
    ProtobufAvailable,  \* AkashGrpcClient's constructor finds its services
    CryptoAvailable,    \* AkashTransactionSigner's constructor finds its libraries
    CallsAfterExit      \* the caller may call methods outside 'async with'

ASSUME MaxEnters \in Nat \ {0}
ASSUME {ProtobufAvailable, CryptoAvailable, CallsAfterExit} \subseteq BOOLEAN

VARIABLES
    conf,         \* fixed at construction: [aiohttp (AIOHTTP_AVAILABLE), grpc, rpc (endpoints given)]
    phase,        \* the caller: "out" of or "inside" an 'async with client'
    entered,      \* how many times __aenter__ has been called
    exitStack,    \* self._exit_stack: 0 for None, else k
    restSession,  \* self._rest_session: 0 for None, else k
    grpcClient,   \* self._grpc_client: 0 for None, else k
    signer,       \* self._transaction_signer is set
    session,      \* session[k]: none, open or closed
    grpcInStack,  \* grpcInStack[k]: gRPC client k was entered into stack k
    chan,         \* chan[k]: gRPC client k's channel: none or open
    last          \* what the caller's last call returned or raised

vars == <<conf, phase, entered, exitStack, restSession, grpcClient, signer, session,
          grpcInStack, chan, last>>

Ids == 1..MaxEnters

Outcomes == {"none", "ok", "not_initialized", "not_configured",
             "session_closed", "enter_failed"}

-----------------------------------------------------------------------------

\* AkashGrpcClient.__init__ raises AkashGrpcClientError when grpcio or the
\* generated services are missing.
GrpcConstructorRaises == ~ProtobufAvailable

\* AkashTransactionSigner.__init__ raises AkashTransactionError when the
\* cryptography libraries are missing.
SignerConstructorRaises == ~CryptoAvailable

\* AkashGrpcClient.__aenter__ returns the client; its __aexit__ awaits
\* close(), which closes the channel and drops it.
GrpcClientExit(k) == [chan EXCEPT ![k] = "none"]

\* __aenter__: each constructor that raises ends the enter there, with the
\* fields assigned so far kept and __aexit__ never called.
AEnter ==
    LET k == entered + 1
        AiohttpAvailable == conf.aiohttp
        GrpcEndpoint == conf.grpc
        RpcEndpoint == conf.rpc
        grpcFails == GrpcEndpoint /\ GrpcConstructorRaises
        signerFails == ~grpcFails /\ RpcEndpoint /\ SignerConstructorRaises
        fails == grpcFails \/ signerFails
    IN
    /\ phase = "out"
    /\ entered < MaxEnters
    /\ entered' = k
    /\ exitStack' = k
    /\ restSession' = IF AiohttpAvailable THEN k ELSE restSession
    /\ session' = IF AiohttpAvailable THEN [session EXCEPT ![k] = "open"]
                  ELSE session
    /\ grpcClient' = IF GrpcEndpoint /\ ~grpcFails THEN k ELSE grpcClient
    /\ grpcInStack' = [grpcInStack EXCEPT ![k] = GrpcEndpoint /\ ~grpcFails]
    /\ signer' = (signer \/ (RpcEndpoint /\ ~fails))
    /\ phase' = IF fails THEN "out" ELSE "inside"
    /\ last' = IF fails THEN "enter_failed" ELSE "ok"
    /\ UNCHANGED <<conf, chan>>

\* Mutant: the gRPC client is constructed but not entered into the stack.
AExitSkipsGrpc ==
    /\ phase = "inside"
    /\ IF exitStack # 0
       THEN /\ session' = [session EXCEPT ![exitStack] =
                             IF @ = "open" THEN "closed" ELSE @]
            /\ UNCHANGED chan
       ELSE UNCHANGED <<session, chan>>
    /\ phase' = "out"
    /\ last' = "ok"
    /\ UNCHANGED <<conf, entered, exitStack, restSession, grpcClient, signer, grpcInStack>>

\* __aexit__: 'if self._exit_stack: await self._exit_stack.aclose()' closes
\* the session and calls the gRPC client's close(); the fields keep their
\* values.
AExit ==
    /\ phase = "inside"
    /\ IF exitStack # 0
       THEN /\ session' = [session EXCEPT ![exitStack] =
                             IF @ = "open" THEN "closed" ELSE @]
            /\ chan' = IF grpcInStack[exitStack]
                       THEN GrpcClientExit(exitStack) ELSE chan
       ELSE UNCHANGED <<session, chan>>
    /\ phase' = "out"
    /\ last' = "ok"
    /\ UNCHANGED <<conf, entered, exitStack, restSession, grpcClient, signer, grpcInStack>>

\* Where the caller may call a method.
MayCall == phase = "inside" \/ CallsAfterExit

\* A request on self._rest_session after the 'if not self._rest_session'
\* guard: aiohttp raises RuntimeError on a closed session.
RestOutcome ==
    IF restSession = 0 THEN "not_initialized"
    ELSE IF session[restSession] = "closed" THEN "session_closed"
    ELSE "ok"

\* get_deployments, get_providers, get_bids, get_leases.
RestQuery ==
    /\ MayCall
    /\ last' = RestOutcome
    /\ UNCHANGED <<conf, phase, entered, exitStack, restSession, grpcClient, signer,
                   session, grpcInStack, chan>>

\* grpc_query_* and stream_deployment_events: 'if not self._grpc_client'
\* raises, else the call goes through _get_channel, which creates a channel
\* when the client has none.
GrpcQuery ==
    /\ MayCall
    /\ IF grpcClient = 0
       THEN /\ last' = "not_configured"
            /\ UNCHANGED chan
       ELSE /\ last' = "ok"
            /\ chan' = [chan EXCEPT ![grpcClient] = "open"]
    /\ UNCHANGED <<conf, phase, entered, exitStack, restSession, grpcClient, signer,
                   session, grpcInStack>>

\* create_deployment, create_bid, create_lease up to the account GET: the
\* signer guard, then _get_account_info's session guard and request.
CreateTx ==
    /\ MayCall
    /\ last' = IF ~signer THEN "not_configured" ELSE RestOutcome
    /\ UNCHANGED <<conf, phase, entered, exitStack, restSession, grpcClient, signer,
                   session, grpcInStack, chan>>

\* health_check: a REST GET whose failure is caught, then the gRPC client's
\* health_check, which creates a channel when the client has none.
HealthCheck ==
    /\ MayCall
    /\ chan' = IF grpcClient = 0 THEN chan ELSE [chan EXCEPT ![grpcClient] = "open"]
    /\ last' = "ok"
    /\ UNCHANGED <<conf, phase, entered, exitStack, restSession, grpcClient, signer,
                   session, grpcInStack>>

-----------------------------------------------------------------------------

\* AkashAsyncClient.__init__: the endpoints given, every client field None.
Init ==
    /\ conf \in [aiohttp : BOOLEAN, grpc : BOOLEAN, rpc : BOOLEAN]
    /\ phase = "out"
    /\ entered = 0
    /\ exitStack = 0
    /\ restSession = 0
    /\ grpcClient = 0
    /\ signer = FALSE
    /\ session = [k \in Ids |-> "none"]
    /\ grpcInStack = [k \in Ids |-> FALSE]
    /\ chan = [k \in Ids |-> "none"]
    /\ last = "none"

Next ==
    \/ AEnter \/ AExit
    \/ RestQuery \/ GrpcQuery \/ CreateTx \/ HealthCheck

Spec == Init /\ [][Next]_vars

-----------------------------------------------------------------------------
(* Properties.                                                             *)

\* Whenever the caller is outside 'async with client', every aiohttp session
\* and every gRPC channel the client opened is closed: the async context
\* manager releases what it acquired, also when __aenter__ fails and also
\* over repeated enters.
ScopeReleasesResources ==
    phase = "out" =>
        \A k \in Ids : session[k] # "open" /\ chan[k] # "open"

=============================================================================
