----------------------------- MODULE GrpcChannel ----------------------------
(***************************************************************************)
(* AkashGrpcClient (grpc_client.py): one lazily created grpc.aio channel   *)
(* shared by every coroutine, four service stubs cached on first use, and  *)
(* close() that awaits the channel's close before clearing the reference.  *)
(*                                                                         *)
(* Each worker w is a coroutine making one call on the client.  The query  *)
(* methods never suspend (the channel context manager has no await before  *)
(* its yield and the body returns a placeholder), so each is one step.    *)
(* close() does not suspend either (see Close).  health_check() and the  *)
(* event stream suspend, so they are split at their awaits.               *)
(***************************************************************************)
EXTENDS Integers, FiniteSets

CONSTANTS
    Workers,          \* coroutines using one AkashGrpcClient
    MaxRetries,       \* the client's max_retries
    StreamLen,        \* events stream_deployment_events yields (5 in the code)
    ServerReachable   \* the endpoint accepts connections

ASSUME MaxRetries \in Int
ASSUME StreamLen \in Nat \ {0}
ASSUME ServerReachable \in BOOLEAN

VARIABLES
    channel,     \* self._channel: 0 for None, else the channel's number
    chanState,   \* chanState[ch]: unused, open or closed
    stub,        \* stub[s]: the channel the cached stub s was built on, 0 for None
    pc,          \* pc[w]: idle, health_wait, streaming, done
    waitCh,      \* waitCh[w]: the channel w's pending await is on
    left,        \* left[w]: events the stream of w has still to yield
    result       \* result[w]: what w's call returned

vars == <<channel, chanState, stub, pc, waitCh, left, result>>

\* At most one channel is created per call, so one per worker suffices.
Channels == 1..Cardinality(Workers)

Stubs == {"deployment", "market", "provider", "cert"}

Results == {"none", "response", "None", "true", "false", "closed"}

-----------------------------------------------------------------------------

\* _get_channel: if self._channel is None, a new channel is created and
\* stored; the channel handed out is self._channel.
NewChannel == CHOOSE ch \in Channels : chanState[ch] = "unused"

HandedChannel == IF channel = 0 THEN NewChannel ELSE channel

GetChannel ==
    /\ channel' = HandedChannel
    /\ chanState' = IF channel = 0
                    THEN [chanState EXCEPT ![NewChannel] = "open"]
                    ELSE chanState

\* 'if self._x_stub is None: self._x_stub = x_grpc.QueryStub(channel)'
CacheStub(s) ==
    stub' = IF stub[s] = 0 THEN [stub EXCEPT ![s] = HandedChannel] ELSE stub

\* A query method: open the channel context, build the stub if missing,
\* return the placeholder response.
Query(w, s, r) ==
    /\ pc[w] = "idle"
    /\ GetChannel
    /\ CacheStub(s)
    /\ pc' = [pc EXCEPT ![w] = "done"]
    /\ result' = [result EXCEPT ![w] = r]
    /\ UNCHANGED <<waitCh, left>>

\* 'for attempt in range(self.max_retries)' returns on the first attempt,
\* or never runs and the method falls off its end, returning None.
QueryDeployments(w) ==
    Query(w, "deployment", IF MaxRetries > 0 THEN "response" ELSE "None")

QueryBids(w) == Query(w, "market", "response")
QueryLeases(w) == Query(w, "market", "response")
QueryProviders(w) == Query(w, "provider", "response")
QueryCertificates(w) == Query(w, "cert", "response")

\* stream_deployment_events enters the channel context, builds the stub and
\* then alternates 'yield' and 'await asyncio.sleep(1)' StreamLen times.
StreamStart(w) ==
    /\ pc[w] = "idle"
    /\ GetChannel
    /\ CacheStub("deployment")
    /\ pc' = [pc EXCEPT ![w] = "streaming"]
    /\ left' = [left EXCEPT ![w] = StreamLen]
    /\ waitCh' = [waitCh EXCEPT ![w] = HandedChannel]
    /\ UNCHANGED result

\* Mutant: the stream stops one event late.
StreamYieldOffByOne(w) ==
    /\ pc[w] = "streaming"
    /\ left' = [left EXCEPT ![w] = @ - 1]
    /\ pc' = [pc EXCEPT ![w] = IF left[w] = 0 THEN "done" ELSE "streaming"]
    /\ result' = [result EXCEPT ![w] = "response"]
    /\ UNCHANGED <<channel, chanState, stub, waitCh>>

StreamYield(w) ==
    /\ pc[w] = "streaming"
    /\ left' = [left EXCEPT ![w] = @ - 1]
    /\ pc' = [pc EXCEPT ![w] = IF left[w] = 1 THEN "done" ELSE "streaming"]
    /\ result' = [result EXCEPT ![w] = "response"]
    /\ UNCHANGED <<channel, chanState, stub, waitCh>>

\* health_check enters the channel context and awaits channel_ready(),
\* with no timeout.
HealthStart(w) ==
    /\ pc[w] = "idle"
    /\ GetChannel
    /\ pc' = [pc EXCEPT ![w] = "health_wait"]
    /\ waitCh' = [waitCh EXCEPT ![w] = HandedChannel]
    /\ UNCHANGED <<stub, left, result>>

\* The channel connects: 'return True'.
HealthReady(w) ==
    /\ pc[w] = "health_wait"
    /\ ServerReachable
    /\ chanState[waitCh[w]] = "open"
    /\ pc' = [pc EXCEPT ![w] = "done"]
    /\ result' = [result EXCEPT ![w] = "true"]
    /\ UNCHANGED <<channel, chanState, stub, waitCh, left>>

\* Closing the channel cancels the pending wait; the exception is caught
\* by 'except Exception: return False'.
HealthAborted(w) ==
    /\ pc[w] = "health_wait"
    /\ chanState[waitCh[w]] = "closed"
    /\ pc' = [pc EXCEPT ![w] = "done"]
    /\ result' = [result EXCEPT ![w] = "false"]
    /\ UNCHANGED <<channel, chanState, stub, waitCh, left>>

\* close(): 'if self._channel:' await self._channel.close(), then
\* 'self._channel = None'.  grpc.aio's Channel.close() with no grace
\* cancels the channel's calls and closes it without suspending, so no other
\* coroutine runs between the close and the reset: close() is one step.
Close(w) ==
    /\ pc[w] = "idle"
    /\ IF channel # 0
       THEN /\ chanState' = [chanState EXCEPT ![channel] = "closed"]
            /\ channel' = 0
       ELSE UNCHANGED <<chanState, channel>>
    /\ pc' = [pc EXCEPT ![w] = "done"]
    /\ result' = [result EXCEPT ![w] = "closed"]
    /\ UNCHANGED <<stub, waitCh, left>>

-----------------------------------------------------------------------------

\* AkashGrpcClient.__init__: no channel and no stub yet.
Init ==
    /\ channel = 0
    /\ chanState = [ch \in Channels |-> "unused"]
    /\ stub = [s \in Stubs |-> 0]
    /\ pc = [w \in Workers |-> "idle"]
    /\ waitCh = [w \in Workers |-> 0]
    /\ left = [w \in Workers |-> 0]
    /\ result = [w \in Workers |-> "none"]

Next ==
    \E w \in Workers :
        \/ QueryDeployments(w) \/ QueryBids(w) \/ QueryLeases(w)
        \/ QueryProviders(w) \/ QueryCertificates(w)
        \/ StreamStart(w) \/ StreamYield(w)
        \/ HealthStart(w) \/ HealthReady(w) \/ HealthAborted(w)
        \/ Close(w)

\* asyncio resumes a coroutine whose await has completed: a sleep ends, a
\* reachable channel becomes ready, a closed channel cancels its waiters.
\* Starting a call is up to the caller.
Fairness ==
    \A w \in Workers :
        /\ WF_vars(StreamYield(w))
        /\ WF_vars(HealthReady(w))
        /\ WF_vars(HealthAborted(w))

Spec == Init /\ [][Next]_vars /\ Fairness

-----------------------------------------------------------------------------
(* Properties.                                                             *)

TypeOK ==
    /\ channel \in Channels \cup {0}
    /\ chanState \in [Channels -> {"unused", "open", "closed"}]
    /\ stub \in [Stubs -> Channels \cup {0}]
    /\ pc \in [Workers -> {"idle", "health_wait", "streaming", "done"}]
    /\ waitCh \in [Workers -> Channels \cup {0}]
    /\ left \in [Workers -> 0..StreamLen]
    /\ result \in [Workers -> Results]

=============================================================================
