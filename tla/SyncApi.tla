------------------------------- MODULE SyncApi -------------------------------
(***************************************************************************)
(* The package's synchronous API, used by one blocking thread:            *)
(* AkashClient (client.py), whose methods are one requests.get each, and   *)
(* SyncGrpcWrapper (grpc_client.py), which runs each coroutine of its      *)
(* AkashGrpcClient to completion on an event loop of its own.              *)
(*                                                                         *)
(* The wrapped AkashGrpcClient is GrpcChannel, instantiated with one      *)
(* worker per wrapper call.  While run_until_complete runs a coroutine the *)
(* thread does nothing else, and the loop runs only that coroutine, so     *)
(* only its steps are taken.  A requests call blocks until an answer or   *)
(* its timeout, so it is one step.                                        *)
(***************************************************************************)
EXTENDS Naturals

CONSTANTS
    Calls,              \* the wrapper calls the thread makes, each one coroutine
    NoCall,             \* run_until_complete is not running anything
    MaxRetries,         \* the wrapped AkashGrpcClient's max_retries
    StreamLen,          \* events of stream_deployment_events (not wrapped)
    ServerReachable,    \* the gRPC endpoint accepts connections
    RequestsAvailable   \* client.py imported the requests package

ASSUME NoCall \notin Calls
ASSUME RequestsAvailable \in BOOLEAN

VARIABLES
    channel, chanState, stub, pc, waitCh, left, result,  \* the AkashGrpcClient
    loop,       \* SyncGrpcWrapper.loop: "none" or "open"
    running,    \* the call run_until_complete is running, or NoCall
    rest        \* what the thread's last AkashClient call returned or raised

G == INSTANCE GrpcChannel WITH Workers <- Calls

grpcVars == <<channel, chanState, stub, pc, waitCh, left, result>>

vars == <<channel, chanState, stub, pc, waitCh, left, result, loop, running, rest>>

-----------------------------------------------------------------------------
(* AkashClient.                                                            *)

\* Without requests, the module's stand-in answers every GET with a
\* MockResponse whose json() is a message dict and whose raise_for_status()
\* does nothing.
MockAnswer == "placeholder"

\* _make_rest_request: requests.get, raise_for_status(), json(); any
\* RequestException (transport error, timeout, HTTP error status) is
\* re-raised as AkashClientError.
RestAnswers ==
    IF RequestsAvailable THEN {"data", "client_error"} ELSE {MockAnswer}

\* get_deployments, get_deployment, get_bids, get_leases, get_providers,
\* get_provider: the path and the query parameters, then one request.
RestQuery ==
    /\ running = NoCall
    /\ rest' \in RestAnswers
    /\ UNCHANGED <<grpcVars, loop, running>>

\* health_check: the request with {'limit': '1'}; True if it returned,
\* False on any exception.
RestHealthCheck ==
    /\ running = NoCall
    /\ \E a \in RestAnswers : rest' = IF a = "client_error" THEN "false" ELSE "true"
    /\ UNCHANGED <<grpcVars, loop, running>>

-----------------------------------------------------------------------------
(* SyncGrpcWrapper.                                                        *)

\* _run_async: 'if self.loop is None' a new event loop is created and set,
\* then run_until_complete(coro) runs the coroutine up to its first await
\* or its end.
RunAsync(w, firstStep) ==
    /\ running = NoCall
    /\ firstStep
    /\ loop' = "open"
    /\ running' = w
    /\ UNCHANGED rest

QueryDeployments(w) == RunAsync(w, G!QueryDeployments(w))
QueryBids(w) == RunAsync(w, G!QueryBids(w))
QueryLeases(w) == RunAsync(w, G!QueryLeases(w))
QueryProviders(w) == RunAsync(w, G!QueryProviders(w))
HealthCheck(w) == RunAsync(w, G!HealthStart(w))

\* close(): 'if self.loop:' the client's close() is run on it.  With no
\* loop, close() does nothing.
Close(w) ==
    /\ running = NoCall
    /\ loop = "open"
    /\ G!Close(w)
    /\ running' = w
    /\ UNCHANGED <<loop, rest>>

\* run_until_complete resumes the coroutine when its await completes.
Resume(w) ==
    /\ running = w
    /\ G!HealthReady(w) \/ G!HealthAborted(w)
    /\ UNCHANGED <<loop, running, rest>>

\* run_until_complete returns; after the client's close() the wrapper
\* closes the loop and sets self.loop = None.
Return(w) ==
    /\ running = w
    /\ pc[w] = "done"
    /\ running' = NoCall
    /\ loop' = IF result[w] = "closed" THEN "none" ELSE loop
    /\ UNCHANGED <<grpcVars, rest>>

-----------------------------------------------------------------------------

\* SyncGrpcWrapper.__init__: a new AkashGrpcClient and no loop; no
\* AkashClient call made yet.
Init ==
    /\ G!Init
    /\ loop = "none"
    /\ running = NoCall
    /\ rest = "none"

Next ==
    \/ RestQuery \/ RestHealthCheck
    \/ \E w \in Calls :
        \/ QueryDeployments(w) \/ QueryBids(w) \/ QueryLeases(w)
        \/ QueryProviders(w) \/ HealthCheck(w) \/ Close(w)
        \/ Resume(w) \/ Return(w)

\* run_until_complete keeps the loop running until its coroutine returns:
\* an await that can complete does, and a finished coroutine returns.
Fairness ==
    \A w \in Calls : WF_vars(Resume(w)) /\ WF_vars(Return(w))

Spec == Init /\ [][Next]_vars /\ Fairness

-----------------------------------------------------------------------------
(* Properties.                                                             *)

\* Every call of the synchronous API returns to its thread.  The spec (5)
\* asks for a timeout on every network call; SyncGrpcWrapper.health_check
\* runs AkashGrpcClient.health_check, which awaits channel_ready() with
\* none, so the thread waits for as long as the endpoint is unreachable.
SyncCallsReturn == \A w \in Calls : running = w ~> running # w

=============================================================================
