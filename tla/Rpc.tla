-------------------------------- MODULE Rpc ---------------------------------
(***************************************************************************)
(* The rpc layer (rpc.rs): callers that make requests through a client,    *)
(* the guards they wait on, the server whose next_request drives the io    *)
(* core, and the requests of the peer that it hands out.                   *)
(*                                                                         *)
(* The io core belongs to the server and moves only while next_request     *)
(* waits in select!.  It appears here by what it promises of a request: it *)
(* holds it (queued with its permit, then mapped), reports at most one     *)
(* answer for it, and drops everything when it injects an error or is      *)
(* dropped.  IoCore and IoPeers model it in full.                          *)
(*                                                                         *)
(* A request is identified with its IoId, which is unique: it is taken     *)
(* from a counter together with the ticket.  All requests use one channel; *)
(* channels share no permits.                                              *)
(***************************************************************************)
EXTENDS Integers, Sequences, FiniteSets

CONSTANTS
    Requests,       \* the requests made through the clients
    Incoming,       \* the requests of the peer
    BufferSize,     \* IoCoreBuilder::buffer_size of the channel
    Timeouts,       \* durations used with with_timeout or as default timeout
    MaxInstant,     \* the last instant the clock can represent
    IdleSleep,      \* how long select! sleeps if there are no timeouts
    ErrorLen        \* bytes in the payload of a custom error

ASSUME RpcAssumption ==
    /\ IsFiniteSet(Requests)
    /\ BufferSize \in Nat \ {0}
    /\ Timeouts \subseteq Nat
    /\ MaxInstant \in Nat
    /\ IdleSleep \in Nat \ {0}
    /\ ErrorLen \in Nat \ {0}

VARIABLES
    \* the callers
    clients,        \* whether a JulietRpcClient exists
    stage,          \* per request: how far its maker is
    permits,        \* IoShared::buffered_requests, the free ones
    \* NewOutgoingRequest and RequestGuardInner, per request
    expires, outcome, ready,
    \* the channel from the clients to the server
    new_requests, accepting,
    \* the server
    server,         \* where its owner or next_request or drop is
    pending, timeouts,
    bubble_timeouts,
    deadline,       \* when the sleep in select! ends; 0 outside of it
    shutting_down,  \* inside send_custom_error_and_shutdown
    incoming,       \* per request of the peer: the IncomingRequest
    \* the io core
    io,             \* per request: where the core has it
    cancelled,      \* the requests it was told to cancel
    core_open,      \* whether its receiver accepts items
    error,          \* the error to be sent
    \* time
    now

callers   == <<clients, stage, permits>>
guards    == <<expires, outcome, ready>>
requested == <<new_requests, accepting>>
position  == <<server, deadline>>
tracked   == <<pending, timeouts>>
session   == <<bubble_timeouts, shutting_down, incoming>>
serving   == <<position, tracked, session>>
core      == <<io, cancelled, core_open, error>>
vars      == <<callers, guards, requested, serving, core, now>>

Never   == -1       \* a request without a timeout
NoData  == -1       \* an error without a payload
Empty   == "Empty"  \* an outcome that was not set

Init ==
    /\ clients = TRUE
    /\ stage = [r \in Requests |-> "Unmade"]
    /\ permits = BufferSize
    /\ expires = [r \in Requests |-> Never]
    /\ outcome = [r \in Requests |-> Empty]
    /\ ready = [r \in Requests |-> "Absent"]
    /\ new_requests = <<>>
    /\ accepting = TRUE
    /\ server = "Idle"
    /\ pending = {}
    /\ timeouts = {}
    /\ bubble_timeouts \in BOOLEAN
    /\ deadline = 0
    /\ shutting_down = FALSE
    /\ incoming = [i \in Incoming |-> "None"]
    /\ io = [r \in Requests |-> "Absent"]
    /\ cancelled = {}
    /\ core_open = TRUE
    /\ error = [state |-> "None", left |-> 0, data |-> NoData]
    /\ now = 0

-----------------------------------------------------------------------------
(* The callers.                                                             *)

\* queue_for_sending, up to the wait for a permit.
QueueForSending(r) ==
    /\ clients
    /\ stage[r] = "Unmade"
    /\ stage' = [stage EXCEPT ![r] = "Reserving"]
    /\ UNCHANGED <<clients, permits, guards, requested, serving, core, now>>

\* Mutant: a permit is taken whether or not there is one.
ReserveUnchecked(r) ==
    /\ \/ stage[r] = "Reserving"
       \/ stage[r] = "Unmade" /\ clients
    /\ permits' = permits - 1
    /\ stage' = [stage EXCEPT ![r] = "Reserved"]
    /\ UNCHANGED <<clients, guards, requested, serving, core, now>>

\* The end of that wait (reserve_request), or try_queue_for_sending.  The latter
\* hands the builder back if there is no permit.  Nothing closes the semaphore,
\* so that neither finds it closed.
Reserve(r) ==
    /\ \/ stage[r] = "Reserving"
       \/ stage[r] = "Unmade" /\ clients
    /\ permits > 0
    /\ permits' = permits - 1
    /\ stage' = [stage EXCEPT ![r] = "Reserved"]
    /\ UNCHANGED <<clients, guards, requested, serving, core, now>>

\* Mutant: the ticket of a refused request is lost.
RefuseRequestLeak(r, o) ==
    /\ outcome' = [outcome EXCEPT ![r] = o]
    /\ UNCHANGED <<permits, expires, ready, new_requests>>

\* RequestGuard::new_error; the ticket is dropped.
RefuseRequest(r, o) ==
    /\ outcome' = [outcome EXCEPT ![r] = o]
    /\ permits' = permits + 1
    /\ UNCHANGED <<expires, ready, new_requests>>

\* do_enqueue_request
DoEnqueueRequest(r, timeout) ==
    /\ stage[r] = "Reserved"
    /\ stage' = [stage EXCEPT ![r] = "Made"]
    /\ \/ /\ timeout # Never /\ now + timeout > MaxInstant
          /\ RefuseRequest(r, "TimeoutOverflow")
       \/ /\ timeout = Never \/ now + timeout <= MaxInstant
          /\ ~accepting
          /\ RefuseRequest(r, "RemoteClosed")
       \/ /\ timeout = Never \/ now + timeout <= MaxInstant
          /\ accepting
          /\ expires' = [expires EXCEPT ![r] =
                             IF timeout = Never THEN Never ELSE now + timeout]
          /\ ready' = [ready EXCEPT ![r] = "Unnotified"]
          /\ new_requests' = Append(new_requests, r)
          /\ UNCHANGED <<permits, outcome>>
    /\ UNCHANGED <<clients, accepting, serving, core, now>>

\* What the holder of a guard does with it reaches nobody else: cancel, forget and
\* drop end in do_cancel, which does nothing, and so a guard that is dropped leaves the
\* state of a guard that is held.  The others look at it: wait_for_response returns
\* once it is notified, or at once if there is nothing to wait for (new_error);
\* try_get_response once there is an outcome.
WaitForResponseReturns(r) == stage[r] = "Made" /\ ready[r] # "Unnotified"
TryGetResponseReturns(r)  == stage[r] = "Made" /\ outcome[r] # Empty

\* A request builder borrows the client it was made from.
DropClient ==
    /\ clients
    /\ \A r \in Requests : stage[r] \notin {"Reserving", "Reserved"}
    /\ clients' = FALSE
    /\ UNCHANGED <<stage, permits, guards, requested, serving, core, now>>

\* Handle::enqueue_error; a core has use for one error only.
EnqueueError ==
    /\ core_open
    /\ error' = [error EXCEPT !.state = IF @ = "None" THEN "Queued" ELSE @]
    /\ UNCHANGED <<io, cancelled, core_open>>

\* JulietRpcClient::send_custom_error, or that of the server between two calls
\* of next_request; it returns false if the core is closed.
SendCustomError ==
    /\ clients \/ server = "Idle"
    /\ EnqueueError
    /\ UNCHANGED <<callers, guards, requested, serving, now>>

\* IncomingRequest: respond, cancel or drop.  Each takes the handle, so that a
\* request is answered once; the answer is discarded if the core is closed.
AnswerIncoming(i) ==
    /\ incoming[i] = "Held"
    /\ incoming' = [incoming EXCEPT ![i] =
                        IF core_open THEN "Answered" ELSE "Discarded"]
    /\ UNCHANGED <<callers, guards, requested, position, tracked, bubble_timeouts,
                   shutting_down, core, now>>

-----------------------------------------------------------------------------
(* next_request: one turn of its loop takes the timeouts, then one branch   *)
(* of select!.  The owner must keep calling it until it returns None or an  *)
(* error ("Returned"), and then drops the server.                           *)

\* Mutant: the outcome is set, but nobody is woken.
SetWithoutNotify(requests, o) ==
    LET first == {r \in requests : outcome[r] = Empty} IN
    /\ outcome' = [r \in Requests |-> IF r \in first THEN o ELSE outcome[r]]
    /\ UNCHANGED <<expires, ready>>

\* RequestGuardInner::set_and_notify, for the guards of several requests.
SetAndNotify(requests, o) ==
    LET first == {r \in requests : outcome[r] = Empty} IN
    /\ outcome' = [r \in Requests |-> IF r \in first THEN o ELSE outcome[r]]
    /\ ready' = [r \in Requests |-> IF r \in first THEN "Notified" ELSE ready[r]]
    /\ UNCHANGED expires

\* A turn of the loop ends, and with it the sleep.
Leave(next) == server' = next /\ deadline' = 0

NextRequest ==
    /\ server = "Idle"
    /\ server' = "Loop"
    /\ UNCHANGED <<callers, guards, requested, tracked, session, deadline, core,
                   now>>

\* Mutant: the sleep does not look at the heap.
SleepIdle(heap) == now + IdleSleep

\* The time the next timeout check is due: the top of the heap, if there is one.
NextDeadline(heap) ==
    IF heap = {} THEN now + IdleSleep
    ELSE CHOOSE t \in {expires[r] : r \in heap} : \A r \in heap : t <= expires[r]

\* next_event, called anew in each turn, clones what is left of the payload of an
\* error whose sending was interrupted.
CloneErrorData ==
    IF error.state = "Pending" /\ error.data # NoData
    THEN [error EXCEPT !.data = error.left] ELSE error

\* Mutant: no timeouts are taken once the core is closed.
ExpiredWhileOpen == IF core_open THEN {r \in timeouts : expires[r] <= now} ELSE {}

\* drain_heap_while: the requests at the top of the heap that are due.
Expired == {r \in timeouts : expires[r] <= now}

\* process_timeouts, and the way into select!.  A request that was answered in time
\* is in the heap still, but no longer pending.
ProcessTimeouts ==
    LET timed_out == Expired \cap pending IN
    /\ server = "Loop"
    /\ timeouts' = timeouts \ Expired
    /\ pending' = pending \ timed_out
    /\ SetAndNotify(timed_out, "TimedOut")
    /\ cancelled' = IF core_open THEN cancelled \cup timed_out ELSE cancelled
    /\ \/ /\ bubble_timeouts /\ timed_out # {}
          /\ Leave("Returned")
          /\ UNCHANGED error
       \/ /\ ~bubble_timeouts \/ timed_out = {}
          /\ server' = "Select"
          /\ deadline' = NextDeadline(timeouts')
          /\ error' = CloneErrorData
    /\ UNCHANGED <<callers, requested, session, io, core_open, now>>

\* The branches of select! are biased: the first that is ready is taken.
TimeoutCheck ==
    /\ server = "Select"
    /\ now >= deadline
    /\ Leave("Loop")
    /\ UNCHANGED <<callers, guards, requested, tracked, session, core, now>>

ReceiveNewRequest ==
    /\ server = "Select"
    /\ now < deadline
    /\ new_requests # <<>>
    /\ Leave("Loop")
    /\ new_requests' = Tail(new_requests)
    /\ LET r == Head(new_requests) IN
       \/ /\ core_open
          /\ io' = [io EXCEPT ![r] = "Queued"]
          /\ pending' = pending \cup {r}
          /\ timeouts' = IF expires[r] = Never THEN timeouts ELSE timeouts \cup {r}
          /\ UNCHANGED <<permits, guards>>
       \/ /\ ~core_open
          /\ SetAndNotify({r}, "RemoteClosed")
          /\ permits' = permits + 1
          /\ UNCHANGED <<io, tracked>>
    /\ UNCHANGED <<clients, stage, accepting, session, cancelled, core_open, error,
                   now>>

LastClientDropped ==
    /\ server = "Select"
    /\ now < deadline
    /\ ~clients /\ new_requests = <<>>
    /\ Leave("Returned")
    /\ UNCHANGED <<callers, guards, requested, tracked, session, core, now>>

\* The core is polled only if neither of the other branches is ready.
CorePolled == server = "Select" /\ now < deadline /\ clients /\ new_requests = <<>>

-----------------------------------------------------------------------------
(* The core's next_event: the events it returns, and what it does before.   *)

\* IoEvent::ReceivedResponse and ReceivedCancellationResponse.  The request may
\* have timed out.
ReceivedAnswer(r, o) ==
    /\ CorePolled /\ core_open
    /\ io[r] = "Mapped"
    /\ io' = [io EXCEPT ![r] = "Done"]
    /\ SetAndNotify({r} \cap pending, o)
    /\ pending' = pending \ {r}
    /\ Leave("Loop")
    /\ UNCHANGED <<callers, requested, timeouts, session, cancelled, core_open,
                   error, now>>

\* IoEvent::NewRequest.  send_custom_error_and_shutdown drops the request, which
\* cancels it, and calls next_request again.
NewIncomingRequest(i) ==
    /\ CorePolled /\ core_open
    /\ incoming[i] = "None"
    /\ incoming' = [incoming EXCEPT ![i] = IF shutting_down THEN "Answered" ELSE "Held"]
    /\ Leave(IF shutting_down THEN "Loop" ELSE "Idle")
    /\ UNCHANGED <<callers, guards, requested, tracked, bubble_timeouts,
                   shutting_down, core, now>>

\* IoEvent::RequestCancelled is ignored.
RequestCancelled(i) ==
    /\ CorePolled /\ core_open
    /\ incoming[i] \in {"Held", "Answered"}
    /\ Leave("Loop")
    /\ UNCHANGED <<callers, guards, requested, tracked, session, core, now>>

\* The connection is closed or fails, the peer reports an error, or the error
\* cannot be written in time.
CoreEnds ==
    /\ CorePolled
    /\ Leave("Returned")
    /\ UNCHANGED <<callers, guards, requested, tracked, session, core, now>>

\* send_to_ready_queue drops the permit of the request.
CoreSendsRequest(r) ==
    /\ CorePolled /\ core_open
    /\ io[r] = "Queued"
    /\ io' = [io EXCEPT ![r] = "Mapped"]
    /\ permits' = permits + 1
    /\ UNCHANGED <<clients, stage, guards, requested, serving, cancelled,
                   core_open, error, now>>

\* inject_error, for a custom error or for a violation of the peer.  It forgets the
\* requests it mapped and the ones in its wait queues, but not the ones it has yet to
\* receive: these it keeps until it is dropped.
CoreInjectsError(custom, dropped) ==
    /\ CorePolled /\ core_open
    /\ custom => error.state = "Queued"
    /\ dropped \subseteq {r \in Requests : io[r] = "Queued"}
    /\ core_open' = FALSE
    /\ error' = [state |-> "Pending",
                 left  |-> IF custom THEN ErrorLen ELSE 0,
                 data  |-> IF custom THEN ErrorLen ELSE NoData]
    /\ io' = [r \in Requests |->
                  IF r \in dropped \/ io[r] = "Mapped" THEN "Done" ELSE io[r]]
    /\ permits' = permits + Cardinality(dropped)
    /\ UNCHANGED <<clients, stage, guards, requested, serving, cancelled, now>>

\* The transport takes some of the payload and then makes the core wait.
CoreWritesError ==
    /\ CorePolled
    /\ error.state = "Pending" /\ error.left > 1
    /\ error' = [error EXCEPT !.left = @ - 1]
    /\ UNCHANGED <<callers, guards, requested, serving, io, cancelled, core_open,
                   now>>

\* It takes the rest: next_event returns the error with its data.
CoreErrorSent ==
    /\ CorePolled
    /\ error.state = "Pending"
    /\ error' = [error EXCEPT !.state = "Sent", !.left = 0]
    /\ Leave("Returned")
    /\ UNCHANGED <<callers, guards, requested, tracked, session, io, cancelled,
                   core_open, now>>

-----------------------------------------------------------------------------
(* The end of the server.                                                   *)

\* send_custom_error_and_shutdown takes the server: it calls next_request until it
\* is done, or drops the server at once if the error cannot be queued.
SendCustomErrorAndShutdown ==
    /\ server = "Idle" /\ core_open
    /\ EnqueueError
    /\ shutting_down' = TRUE
    /\ server' = "Loop"
    /\ UNCHANGED <<callers, guards, requested, tracked, bubble_timeouts, deadline,
                   incoming, now>>

\* Mutant: requests are drained, but the channel is not closed before.
CloseNothing ==
    /\ server \in {"Idle", "Select", "Returned"}
    /\ Leave("Closing")
    /\ UNCHANGED <<callers, guards, requested, tracked, session, core, now>>

\* Drop for JulietRpcServer, at the await point of next_request (by whoever drops
\* its future, the error timeout of the shutdown included) or between two calls.
CloseRequests ==
    /\ server \in {"Idle", "Select", "Returned"}
    /\ Leave("Closing")
    /\ accepting' = FALSE
    /\ UNCHANGED <<callers, guards, new_requests, tracked, session, core, now>>

\* Mutant: pending requests are reported as never sent.
DrainPendingAsClosed ==
    /\ server = "Closing"
    /\ server' = "Draining"
    /\ pending' = {}
    /\ SetAndNotify(pending, "RemoteClosed")
    /\ UNCHANGED <<callers, requested, timeouts, session, deadline, core, now>>

DrainPending ==
    /\ server = "Closing"
    /\ server' = "Draining"
    /\ pending' = {}
    /\ SetAndNotify(pending, "Shutdown")
    /\ UNCHANGED <<callers, requested, timeouts, session, deadline, core, now>>

DrainRequest ==
    /\ server = "Draining"
    /\ new_requests # <<>>
    /\ new_requests' = Tail(new_requests)
    /\ SetAndNotify({Head(new_requests)}, "RemoteClosed")
    /\ permits' = permits + 1
    /\ UNCHANGED <<clients, stage, accepting, serving, core, now>>

\* Mutant: something keeps the core, and with it the permits of its queues.
DropFieldsButCore ==
    /\ server = "Draining"
    /\ new_requests = <<>>
    /\ server' = "Dropped"
    /\ core_open' = FALSE
    /\ UNCHANGED <<callers, guards, requested, tracked, session, deadline, io,
                   cancelled, error, now>>

\* The fields are dropped after that, the core with its queues among them.
DropFields ==
    /\ server = "Draining"
    /\ new_requests = <<>>
    /\ server' = "Dropped"
    /\ core_open' = FALSE
    /\ permits' = permits + Cardinality({r \in Requests : io[r] = "Queued"})
    /\ io' = [r \in Requests |-> IF io[r] = "Absent" THEN "Absent" ELSE "Done"]
    /\ UNCHANGED <<clients, stage, guards, requested, tracked, session, deadline,
                   cancelled, error, now>>

Tick ==
    /\ now < MaxInstant
    /\ now' = now + 1
    /\ UNCHANGED <<callers, guards, requested, serving, core>>

-----------------------------------------------------------------------------

Enqueue(r) == \E timeout \in Timeouts \cup {Never} : DoEnqueueRequest(r, timeout)

Caller ==
    \/ \E r \in Requests :
          \/ QueueForSending(r) \/ Reserve(r) \/ Enqueue(r)
    \/ DropClient
    \/ SendCustomError
    \/ \E i \in Incoming : AnswerIncoming(i)

Core ==
    \/ \E r \in Requests, o \in {"Response", "RemoteCancelled"} : ReceivedAnswer(r, o)
    \/ \E i \in Incoming : NewIncomingRequest(i) \/ RequestCancelled(i)
    \/ \E r \in Requests : CoreSendsRequest(r)
    \/ \E custom \in BOOLEAN, dropped \in SUBSET Requests :
          CoreInjectsError(custom, dropped)
    \/ CoreWritesError \/ CoreErrorSent \/ CoreEnds

Server ==
    \/ NextRequest \/ ProcessTimeouts \/ TimeoutCheck \/ ReceiveNewRequest
    \/ LastClientDropped \/ SendCustomErrorAndShutdown

Drop == CloseRequests \/ DrainPending \/ DrainRequest \/ DropFields

Next == Caller \/ Core \/ Server \/ Drop \/ Tick

Spec == Init /\ [][Next]_vars

(***************************************************************************)
(* The owner keeps calling next_request and drops the server once that     *)
(* returned for good, as its documentation demands; the server runs while  *)
(* it has something to do; callers that wait for a permit get the free     *)
(* ones, and then go on; time passes.  Nothing is assumed of the peer, so  *)
(* nothing of what the core reports.                                       *)
(***************************************************************************)
Fairness ==
    /\ WF_vars(Server)
    /\ WF_vars(server = "Returned" /\ CloseRequests)
    /\ WF_vars(DrainPending \/ DrainRequest \/ DropFields)
    /\ \A r \in Requests :
         WF_vars(stage[r] = "Reserving" /\ Reserve(r)) /\ WF_vars(Enqueue(r))
    /\ WF_vars(Tick)

FairSpec == Spec /\ Fairness

-----------------------------------------------------------------------------
(* What holds.                                                              *)

Outcomes == {"RemoteClosed", "TimeoutOverflow", "Response", "RemoteCancelled",
             "TimedOut", "Shutdown"}

\* The values the fields of the client, the server and the guards may take.
TypeOK ==
    /\ clients \in BOOLEAN
    /\ stage \in [Requests -> {"Unmade", "Reserving", "Reserved", "Made"}]
    /\ permits \in Nat
    /\ expires \in [Requests -> Nat \cup {Never}]
    /\ outcome \in [Requests -> Outcomes \cup {Empty}]
    /\ ready \in [Requests -> {"Absent", "Unnotified", "Notified"}]
    /\ new_requests \in Seq(Requests)
    /\ accepting \in BOOLEAN
    /\ server \in {"Idle", "Loop", "Select", "Returned", "Closing", "Draining",
                   "Dropped"}
    /\ pending \subseteq Requests /\ timeouts \subseteq Requests
    /\ bubble_timeouts \in BOOLEAN
    /\ deadline \in Nat
    /\ shutting_down \in BOOLEAN
    /\ incoming \in [Incoming -> {"None", "Held", "Answered", "Discarded"}]
    /\ io \in [Requests -> {"Absent", "Queued", "Mapped", "Done"}]
    /\ cancelled \subseteq Requests
    /\ core_open \in BOOLEAN
    /\ error \in [state : {"None", "Queued", "Pending", "Sent"}, left : 0 .. ErrorLen,
                  data : {NoData} \cup 0 .. ErrorLen]
    /\ now \in 0 .. MaxInstant

InChannel(r) == \E k \in DOMAIN new_requests : new_requests[k] = r
Unresolved   == {r \in Requests : stage[r] = "Made" /\ outcome[r] = Empty}

\* A request that was made and has no outcome is on its way to the server or in
\* its pending map, never in both and never lost between them; while the core is
\* open it still has every pending request, so that an answer can find it.  Whoever
\* is woken finds an outcome (take_inner expects one), and whoever could find one is.
WaitersTracked ==
    /\ \A r \in Unresolved : InChannel(r) # (r \in pending)
    /\ \A r \in pending : core_open => io[r] \in {"Queued", "Mapped"}
    /\ \A r \in Requests : WaitForResponseReturns(r) = TryGetResponseReturns(r)

\* Once the server is gone no guard is left without an outcome, whichever step of
\* the drop the request was made at: wait_for_response returns.
NoWaiterStranded ==
    server = "Dropped" =>
        \A r \in Requests : stage[r] = "Made" => WaitForResponseReturns(r)

\* While the server sleeps in select!, it will wake in time for the timeout of
\* every pending request, the ones that arrived since the sleep began included.
DeadlineCovers ==
    server = "Select" =>
        \A r \in pending :
            expires[r] # Never => r \in timeouts /\ deadline <= expires[r]

\* Each permit is free, in a ticket, or with a request that the core has not
\* started to send; no path loses or doubles one.
PermitsConserved ==
    permits + Cardinality({r \in Requests : stage[r] = "Reserved"}) + Len(new_requests)
            + Cardinality({r \in Requests : io[r] = "Queued"}) = BufferSize

\* Callers see the lifecycle that the docs of RequestGuard and RequestError
\* describe: one outcome, which never changes; RemoteClosed and TimeoutOverflow
\* only for a request that never reached the core, the others only for one that did.
Lifecycle == INSTANCE RequestLifecycle WITH
    made <- {r \in Requests : stage[r] = "Made"},
    sent <- {r \in Requests : io[r] # "Absent"}

ImplementsLifecycle == Lifecycle!Spec

\* A request with a timeout is resolved, whatever the peer and the core do.
TimedRequestsResolve ==
    \A r \in Requests : expires[r] # Never ~> WaitForResponseReturns(r)

\* When the server goes away, callers that wait for a permit in queue_for_sending
\* get one: nothing closes the semaphore, so the drop has to release the permits.
ShutdownReleasesCallers ==
    \A r \in Requests :
        (server = "Dropped" /\ stage[r] = "Reserving") ~> stage[r] = "Made"

\* The payload that as_local_other_err returns is that of the error that was sent.
LocalErrorIsWhole ==
    error.state = "Sent" /\ error.data # NoData => error.data = ErrorLen

=============================================================================
