----------------------------- MODULE RpcProofs ------------------------------
(***************************************************************************)
(* Proofs about Rpc, for any number of requests and permits, any timeouts, *)
(* any clock and any peer: no guard is lost, none is left waiting when the *)
(* server is gone, no permit is lost, and the layer implements             *)
(* RequestLifecycle.                                                       *)
(***************************************************************************)
EXTENDS Rpc, FiniteSetTheorems, SequenceTheorems, WellFoundedInduction, TLAPS

-----------------------------------------------------------------------------
(* Facts about the operators.                                               *)

Has(q, x)   == \E k \in DOMAIN q : q[k] = x
Distinct(q) == \A j, k \in DOMAIN q : q[j] = q[k] => j = k

\* Sending into the channel adds one request at its end.
LEMMA AppendFacts ==
  ASSUME NEW S, NEW q \in Seq(S), NEW x \in S
  PROVE  /\ Append(q, x) \in Seq(S)
         /\ Len(Append(q, x)) = Len(q) + 1
         /\ \A y : Has(Append(q, x), y) <=> Has(q, y) \/ y = x
         /\ Distinct(q) /\ ~Has(q, x) => Distinct(Append(q, x))
  <1> DEFINE a == Append(q, x)
  <1>1. /\ a \in Seq(S) /\ Len(a) = Len(q) + 1 /\ a[Len(q) + 1] = x
        /\ \A i \in 1 .. Len(q) : a[i] = q[i]
    BY AppendProperties
  <1>2. Len(q) \in Nat /\ DOMAIN q = 1 .. Len(q) /\ DOMAIN a = 1 .. (Len(q) + 1)
    BY <1>1, LenProperties
  <1> HIDE DEF a
  <1>3. \A y : Has(a, y) <=> Has(q, y) \/ y = x
    BY <1>1, <1>2 DEF Has
  <1>4. Distinct(q) /\ ~Has(q, x) => Distinct(a)
    BY <1>1, <1>2 DEF Has, Distinct
  <1> QED
    BY <1>1, <1>3, <1>4 DEF a

\* Receiving from the channel takes the first request out of it.
LEMMA TailFacts ==
  ASSUME NEW S, NEW q \in Seq(S), q # <<>>, Distinct(q)
  PROVE  /\ Head(q) \in S
         /\ Has(q, Head(q))
         /\ Tail(q) \in Seq(S)
         /\ Len(Tail(q)) = Len(q) - 1
         /\ \A y : Has(Tail(q), y) <=> Has(q, y) /\ y # Head(q)
         /\ Distinct(Tail(q))
  <1> DEFINE t == Tail(q)
  <1>1. /\ Head(q) \in S /\ t \in Seq(S) /\ Len(t) = Len(q) - 1
        /\ \A i \in 1 .. Len(t) : t[i] = q[i + 1]
    BY HeadTailProperties
  <1>2. Len(q) \in Nat /\ DOMAIN q = 1 .. Len(q) /\ DOMAIN t = 1 .. Len(t)
    BY <1>1, LenProperties
  <1>3. Len(q) # 0 /\ Head(q) = q[1]
    BY EmptySeq
  <1> HIDE DEF t
  <1>4. \A i \in 2 .. Len(q) : i - 1 \in 1 .. Len(t) /\ t[i - 1] = q[i]
    BY <1>1, <1>2, <1>3
  <1>5. \A y : Has(t, y) => Has(q, y) /\ y # q[1]
    BY <1>1, <1>2, <1>3 DEF Has, Distinct
  <1>6. \A y : Has(q, y) /\ y # q[1] => Has(t, y)
    <2> SUFFICES ASSUME NEW k \in 1 .. Len(q), q[k] # q[1] PROVE Has(t, q[k])
      BY <1>2 DEF Has
    <2>1. k \in 2 .. Len(q)
      BY <1>2
    <2> QED
      BY <2>1, <1>2, <1>4 DEF Has
  <1>7. Distinct(t)
    BY <1>1, <1>2, <1>3 DEF Distinct
  <1>8. Has(q, Head(q))
    BY <1>2, <1>3 DEF Has
  <1> QED
    BY <1>1, <1>3, <1>5, <1>6, <1>7, <1>8 DEF t

\* A set of instants has an earliest one.
LEMMA EarliestExists ==
  ASSUME NEW T \in SUBSET Nat, T # {}
  PROVE  \E t \in T : \A u \in T : t <= u
  <1> DEFINE R == {ss \in Nat \X Nat : ss[1] < ss[2]}
  <1>1. IsWellFoundedOn(R, Nat)
    BY NatLessThanWellFounded DEF OpToRel
  <1> HIDE DEF R
  <1>2. PICK t \in T : \A u \in T : ~(<<u, t>> \in R)
    BY <1>1, WFMin
  <1>3. ASSUME NEW u \in Nat, NEW v \in Nat, u < v PROVE <<u, v>> \in R
    <2>1. <<u, v>> \in Nat \X Nat /\ <<u, v>>[1] = u /\ <<u, v>>[2] = v
      OBVIOUS
    <2> QED
      BY <1>3, <2>1, Zenon DEF R
  <1>4. \A u \in T : ~(u < t)
    BY <1>2, <1>3
  <1> QED
    BY <1>4

-----------------------------------------------------------------------------
(* The inductive invariant.                                                 *)

\* Where one request can be, and what its guard shows there.
RequestInv(r) ==
    /\ stage[r] # "Made" =>
          /\ outcome[r] = Empty /\ ready[r] = "Absent" /\ io[r] = "Absent"
          /\ r \notin pending /\ r \notin timeouts /\ ~Has(new_requests, r)
    /\ Has(new_requests, r) =>
          /\ outcome[r] = Empty /\ io[r] = "Absent"
          /\ r \notin pending /\ r \notin timeouts
    /\ r \in pending =>
          /\ outcome[r] = Empty /\ io[r] # "Absent"
          /\ core_open => io[r] \in {"Queued", "Mapped"}
          /\ expires[r] # Never => r \in timeouts
    /\ stage[r] = "Made" =>
          /\ outcome[r] = Empty => Has(new_requests, r) \/ r \in pending
          /\ ready[r] = "Unnotified" <=> outcome[r] = Empty
    /\ r \in timeouts => expires[r] # Never
    /\ server = "Select" /\ r \in timeouts => deadline <= expires[r]

\* What is left at each stage of the drop.
ServerInv ==
    /\ Distinct(new_requests)
    /\ server \in {"Closing", "Draining", "Dropped"} => ~accepting
    /\ server \in {"Draining", "Dropped"} => pending = {}
    /\ server = "Dropped" => new_requests = <<>>

IInv ==
    /\ TypeOK
    /\ ServerInv
    /\ \A r \in Requests : RequestInv(r)
    /\ PermitsConserved


\* The sleep ends with the earliest timeout of the heap.
LEMMA NextDeadlineFacts ==
  ASSUME TypeOK, NEW heap \in SUBSET timeouts,
         \A r \in timeouts : expires[r] # Never
  PROVE  /\ NextDeadline(heap) \in Nat
         /\ \A r \in heap : NextDeadline(heap) <= expires[r]
  <1>1. CASE heap = {}
    BY <1>1, RpcAssumption DEF NextDeadline, TypeOK
  <1>2. CASE heap # {}
    <2> DEFINE T == {expires[r] : r \in heap}
               Earliest(t) == \A r \in heap : t <= expires[r]
    <2>1. T \subseteq Nat /\ T # {}
      BY <1>2 DEF TypeOK
    <2>2. \E t \in T : \A u \in T : t <= u
      BY <2>1, EarliestExists
    <2>3. \E t \in T : Earliest(t)
      BY <2>2
    <2>4. NextDeadline(heap) = CHOOSE t \in T : Earliest(t)
      BY <1>2 DEF NextDeadline
    <2> HIDE DEF T, Earliest
    <2>5. NextDeadline(heap) \in T /\ Earliest(NextDeadline(heap))
      BY <2>3, <2>4
    <2> QED
      BY <2>1, <2>5 DEF Earliest
  <1> QED
    BY <1>1, <1>2

\* Setting an outcome and waking its waiters keeps the types of both.
LEMMA SetAndNotifyType ==
  ASSUME TypeOK, NEW requests \in SUBSET Requests, NEW o \in Outcomes,
         SetAndNotify(requests, o)
  PROVE  /\ outcome' \in [Requests -> Outcomes \cup {Empty}]
         /\ ready' \in [Requests -> {"Absent", "Unnotified", "Notified"}]
         /\ expires' \in [Requests -> Nat \cup {Never}]
  BY DEF TypeOK, SetAndNotify

-----------------------------------------------------------------------------
(* Every step keeps the types.                                              *)

\* A step of any actor keeps every field in its type; the deadline needs that the
\* heap holds only requests that expire.
LEMMA TypeStep ==
  ASSUME IInv, [Next]_vars
  PROVE  TypeOK'
  <1> USE RpcAssumption DEF Leave
  <1>0. TypeOK /\ \A r \in timeouts : expires[r] # Never
    BY DEF IInv, RequestInv, TypeOK
  <1>1. ASSUME NEW r \in Requests, QueueForSending(r) PROVE TypeOK'
    BY <1>0, <1>1 DEF QueueForSending, TypeOK, callers, guards, requested,
       serving, position, tracked, session, core
  <1>2. ASSUME NEW r \in Requests, Reserve(r) PROVE TypeOK'
    BY <1>0, <1>2 DEF Reserve, TypeOK, callers, guards, requested, serving,
       position, tracked, session, core
  <1>3. ASSUME NEW r \in Requests, NEW d \in Timeouts \cup {Never}, DoEnqueueRequest(r, d)
        PROVE  TypeOK'
    <2>1. CASE \E o \in {"TimeoutOverflow", "RemoteClosed"} : RefuseRequest(r, o)
      BY <1>0, <1>3, <2>1 DEF DoEnqueueRequest, RefuseRequest, TypeOK,
         Outcomes, callers, guards, requested, serving, position, tracked,
         session, core
    <2>2. CASE UNCHANGED <<permits, outcome>>
      <3>1. Append(new_requests, r) \in Seq(Requests)
        BY <1>0, AppendFacts DEF TypeOK
      <3>2. new_requests' \in Seq(Requests)
        BY <1>0, <1>3, <2>2, <3>1 DEF DoEnqueueRequest, RefuseRequest, TypeOK
      <3>3. /\ expires' \in [Requests -> Nat \cup {Never}]
            /\ ready' \in [Requests -> {"Absent", "Unnotified", "Notified"}]
        BY <1>0, <1>3, <2>2 DEF DoEnqueueRequest, RefuseRequest, TypeOK
      <3>4. stage' \in [Requests -> {"Unmade", "Reserving", "Reserved", "Made"}]
        BY <1>0, <1>3 DEF DoEnqueueRequest, TypeOK
      <3>5. UNCHANGED <<clients, accepting, serving, core, now>>
        BY <1>3 DEF DoEnqueueRequest
      <3> QED
        BY <1>0, <2>2, <3>2, <3>3, <3>4, <3>5 DEF TypeOK, callers, guards,
           requested, serving, position, tracked, session, core
    <2> QED
      BY <1>3, <2>1, <2>2 DEF DoEnqueueRequest
  <1>4. CASE DropClient
    BY <1>0, <1>4 DEF DropClient, TypeOK, callers, guards, requested, serving,
       position, tracked, session, core
  <1>5. CASE SendCustomError
    BY <1>0, <1>5 DEF SendCustomError, EnqueueError, TypeOK, callers, guards,
       requested, serving, position, tracked, session, core
  <1>6. ASSUME NEW i \in Incoming, AnswerIncoming(i) PROVE TypeOK'
    BY <1>0, <1>6 DEF AnswerIncoming, TypeOK, callers, guards, requested,
       serving, position, tracked, session, core
  <1>7. CASE NextRequest
    BY <1>0, <1>7 DEF NextRequest, TypeOK, callers, guards, requested, serving,
       position, tracked, session, core
  <1>8. CASE ProcessTimeouts
    <2> DEFINE timed_out == Expired \cap pending
    <2>1. SetAndNotify(timed_out, "TimedOut")
      BY <1>8 DEF ProcessTimeouts
    <2>2. /\ outcome' \in [Requests -> Outcomes \cup {Empty}]
          /\ ready' \in [Requests -> {"Absent", "Unnotified", "Notified"}]
          /\ expires' \in [Requests -> Nat \cup {Never}]
      BY <1>0, <2>1, SetAndNotifyType DEF TypeOK, Outcomes
    <2>3. timeouts' \in SUBSET timeouts
      BY <1>8 DEF ProcessTimeouts
    <2>4. NextDeadline(timeouts') \in Nat
      BY <1>0, <2>3, NextDeadlineFacts
    <2>5. deadline' \in Nat /\ server' \in {"Returned", "Select"}
      BY <1>8, <2>4 DEF ProcessTimeouts
    <2>6. error' \in [state : {"None", "Queued", "Pending", "Sent"}, left : 0 .. ErrorLen,
                      data : {NoData} \cup 0 .. ErrorLen]
      BY <1>0, <1>8 DEF ProcessTimeouts, CloneErrorData, TypeOK
    <2> QED
      BY <1>0, <1>8, <2>2, <2>3, <2>5, <2>6 DEF ProcessTimeouts, TypeOK,
         callers, guards, requested, serving, position, tracked, session, core
  <1>9. CASE TimeoutCheck
    BY <1>0, <1>9 DEF TimeoutCheck, TypeOK, callers, guards, requested,
       serving, position, tracked, session, core
  <1>10. CASE ReceiveNewRequest
    <2>1. Head(new_requests) \in Requests /\ Tail(new_requests) \in Seq(Requests)
      BY <1>0, <1>10, TailFacts DEF ReceiveNewRequest, IInv, ServerInv, TypeOK
    <2>2. CASE core_open
      BY <1>0, <1>10, <2>1, <2>2 DEF ReceiveNewRequest, TypeOK, callers,
         guards, requested, serving, position, tracked, session, core
    <2>3. CASE ~core_open
      <3>1. SetAndNotify({Head(new_requests)}, "RemoteClosed")
        BY <1>10, <2>3 DEF ReceiveNewRequest
      <3>2. /\ outcome' \in [Requests -> Outcomes \cup {Empty}]
            /\ ready' \in [Requests -> {"Absent", "Unnotified", "Notified"}]
            /\ expires' \in [Requests -> Nat \cup {Never}]
        BY <1>0, <2>1, <3>1, SetAndNotifyType DEF Outcomes
      <3> QED
        BY <1>0, <1>10, <2>1, <2>3, <3>2 DEF ReceiveNewRequest, TypeOK,
           callers, guards, requested, serving, position, tracked, session,
           core
    <2> QED
      BY <2>2, <2>3
  <1>11. CASE LastClientDropped
    BY <1>0, <1>11 DEF LastClientDropped, TypeOK, callers, guards, requested,
       serving, position, tracked, session, core
  <1>12. ASSUME NEW r \in Requests, NEW o \in {"Response", "RemoteCancelled"},
               ReceivedAnswer(r, o)
        PROVE  TypeOK'
    <2>1. SetAndNotify({r} \cap pending, o)
      BY <1>12 DEF ReceivedAnswer
    <2>2. /\ outcome' \in [Requests -> Outcomes \cup {Empty}]
          /\ ready' \in [Requests -> {"Absent", "Unnotified", "Notified"}]
          /\ expires' \in [Requests -> Nat \cup {Never}]
      BY <1>0, <2>1, SetAndNotifyType DEF Outcomes
    <2> QED
      BY <1>0, <1>12, <2>2 DEF ReceivedAnswer, TypeOK, callers, guards,
         requested, serving, position, tracked, session, core
  <1>13. ASSUME NEW i \in Incoming, NewIncomingRequest(i) PROVE TypeOK'
    BY <1>0, <1>13 DEF NewIncomingRequest, TypeOK, callers, guards, requested,
       serving, position, tracked, session, core
  <1>14. ASSUME NEW i \in Incoming, RequestCancelled(i) PROVE TypeOK'
    BY <1>0, <1>14 DEF RequestCancelled, TypeOK, callers, guards, requested,
       serving, position, tracked, session, core
  <1>15. CASE CoreEnds
    BY <1>0, <1>15 DEF CoreEnds, TypeOK, callers, guards, requested, serving,
       position, tracked, session, core
  <1>16. ASSUME NEW r \in Requests, CoreSendsRequest(r) PROVE TypeOK'
    BY <1>0, <1>16 DEF CoreSendsRequest, TypeOK, callers, guards, requested,
       serving, position, tracked, session, core
  <1>17. ASSUME NEW custom \in BOOLEAN, NEW dropped \in SUBSET Requests,
               CoreInjectsError(custom, dropped)
        PROVE  TypeOK'
    <2>1. Cardinality(dropped) \in Nat
      BY FS_Subset, FS_CardinalityType
    <2>2. permits' \in Nat
      BY <1>0, <1>17, <2>1 DEF CoreInjectsError, TypeOK
    <2>3. error' \in [state : {"None", "Queued", "Pending", "Sent"}, left : 0 .. ErrorLen,
                      data : {NoData} \cup 0 .. ErrorLen]
      BY <1>17 DEF CoreInjectsError
    <2> QED
      BY <1>0, <1>17, <2>2, <2>3 DEF CoreInjectsError, TypeOK, callers, guards,
         requested, serving, position, tracked, session, core
  <1>18. CASE CoreWritesError
    <2>1. error' \in [state : {"None", "Queued", "Pending", "Sent"}, left : 0 .. ErrorLen,
                      data : {NoData} \cup 0 .. ErrorLen]
      <3>1. error \in [state : {"None", "Queued", "Pending", "Sent"}, left : 0 .. ErrorLen,
                       data : {NoData} \cup 0 .. ErrorLen]
        BY <1>0 DEF TypeOK
      <3> QED
        BY <1>18, <3>1 DEF CoreWritesError
    <2> QED
      BY <1>0, <1>18, <2>1 DEF CoreWritesError, TypeOK, callers, guards,
         requested, serving, position, tracked, session, core
  <1>19. CASE CoreErrorSent
    <2>1. error' \in [state : {"None", "Queued", "Pending", "Sent"}, left : 0 .. ErrorLen,
                      data : {NoData} \cup 0 .. ErrorLen]
      <3>1. error \in [state : {"None", "Queued", "Pending", "Sent"}, left : 0 .. ErrorLen,
                       data : {NoData} \cup 0 .. ErrorLen]
        BY <1>0 DEF TypeOK
      <3>2. error' = [state |-> "Sent", left |-> 0, data |-> error.data]
        BY <1>19, <3>1 DEF CoreErrorSent
      <3>3. error.data \in {NoData} \cup 0 .. ErrorLen
        BY <3>1
      <3> QED
        BY <3>2, <3>3
    <2> QED
      BY <1>0, <1>19, <2>1 DEF CoreErrorSent, TypeOK, callers, guards,
         requested, serving, position, tracked, session, core
  <1>20. CASE SendCustomErrorAndShutdown
    BY <1>0, <1>20 DEF SendCustomErrorAndShutdown, EnqueueError, TypeOK,
       callers, guards, requested, serving, position, tracked, session, core
  <1>21. CASE CloseRequests
    BY <1>0, <1>21 DEF CloseRequests, TypeOK, callers, guards, requested,
       serving, position, tracked, session, core
  <1>22. CASE DrainPending
    <2>1. SetAndNotify(pending, "Shutdown")
      BY <1>22 DEF DrainPending
    <2>2. /\ outcome' \in [Requests -> Outcomes \cup {Empty}]
          /\ ready' \in [Requests -> {"Absent", "Unnotified", "Notified"}]
          /\ expires' \in [Requests -> Nat \cup {Never}]
      BY <1>0, <2>1, SetAndNotifyType DEF TypeOK, Outcomes
    <2> QED
      BY <1>0, <1>22, <2>2 DEF DrainPending, TypeOK, callers, guards,
         requested, serving, position, tracked, session, core
  <1>23. CASE DrainRequest
    <2>1. Head(new_requests) \in Requests /\ Tail(new_requests) \in Seq(Requests)
      BY <1>0, <1>23, TailFacts DEF DrainRequest, IInv, ServerInv, TypeOK
    <2>2. SetAndNotify({Head(new_requests)}, "RemoteClosed")
      BY <1>23 DEF DrainRequest
    <2>3. /\ outcome' \in [Requests -> Outcomes \cup {Empty}]
          /\ ready' \in [Requests -> {"Absent", "Unnotified", "Notified"}]
          /\ expires' \in [Requests -> Nat \cup {Never}]
      BY <1>0, <2>1, <2>2, SetAndNotifyType DEF Outcomes
    <2> QED
      BY <1>0, <1>23, <2>1, <2>3 DEF DrainRequest, TypeOK, callers, guards,
         requested, serving, position, tracked, session, core
  <1>24. CASE DropFields
    <2>1. Cardinality({r \in Requests : io[r] = "Queued"}) \in Nat
      BY FS_Subset, FS_CardinalityType
    <2>2. permits' \in Nat
      BY <1>0, <1>24, <2>1 DEF DropFields, TypeOK
    <2> QED
      BY <1>0, <1>24, <2>2 DEF DropFields, TypeOK, callers, guards, requested,
         serving, position, tracked, session, core
  <1>25. CASE Tick
    BY <1>0, <1>25 DEF Tick, TypeOK, callers, guards, requested, serving,
       position, tracked, session, core
  <1>26. CASE UNCHANGED vars
    BY <1>0, <1>26 DEF TypeOK, vars, callers, guards, requested, serving,
       position, tracked, session, core
  <1> QED
    BY <1>1, <1>2, <1>3, <1>4, <1>5, <1>6, <1>7, <1>8, <1>9, <1>10, <1>11,
       <1>12, <1>13, <1>14, <1>15, <1>16, <1>17, <1>18, <1>19, <1>20, <1>21,
       <1>22, <1>23, <1>24, <1>25, <1>26 DEF Next, Caller, Core, Server, Drop,
       Enqueue

-----------------------------------------------------------------------------
(* The steps that matter to a request, and all the others.                  *)

\* A step that moves the server at most, and not into select! or past the drop.
Quiet ==
    /\ UNCHANGED <<stage, permits, guards, new_requests, tracked, io, core_open>>
    /\ \/ UNCHANGED <<server, deadline, accepting>>
       \/ server' \in {"Idle", "Loop", "Returned"} /\ UNCHANGED accepting
       \/ server' = "Closing" /\ ~accepting'

Relevant ==
    \/ \E r \in Requests :
          \/ QueueForSending(r) \/ Reserve(r) \/ CoreSendsRequest(r)
          \/ \E d \in Timeouts \cup {Never} : DoEnqueueRequest(r, d)
          \/ \E o \in {"Response", "RemoteCancelled"} : ReceivedAnswer(r, o)
    \/ \E custom \in BOOLEAN, dropped \in SUBSET Requests :
          CoreInjectsError(custom, dropped)
    \/ ProcessTimeouts \/ ReceiveNewRequest
    \/ DrainPending \/ DrainRequest \/ DropFields

\* Every step is one that leaves all requests where they are, or one of the others.
LEMMA QuietOrRelevant ==
  ASSUME [Next]_vars
  PROVE  Quiet \/ Relevant
  <1> USE DEF Quiet, Leave, callers, guards, requested, serving, position, tracked,
              session, core
  <1>1. DropClient \/ Tick \/ CoreWritesError \/ UNCHANGED vars => Quiet
    BY DEF DropClient, Tick, CoreWritesError, vars
  <1>2. SendCustomError \/ SendCustomErrorAndShutdown => Quiet
    BY DEF SendCustomError, SendCustomErrorAndShutdown, EnqueueError
  <1>3. ASSUME NEW i \in Incoming,
               AnswerIncoming(i) \/ NewIncomingRequest(i) \/ RequestCancelled(i)
        PROVE  Quiet
    BY <1>3 DEF AnswerIncoming, NewIncomingRequest, RequestCancelled
  <1>4. NextRequest \/ TimeoutCheck \/ LastClientDropped => Quiet
    BY DEF NextRequest, TimeoutCheck, LastClientDropped
  <1>5. CoreEnds \/ CoreErrorSent \/ CloseRequests => Quiet
    BY DEF CoreEnds, CoreErrorSent, CloseRequests
  <1> QED
    BY <1>1, <1>2, <1>3, <1>4, <1>5
       DEF Relevant, Next, Caller, Core, Server, Drop, Enqueue

\* set_and_notify, for guards that have no outcome yet.
LEMMA SetAndNotifyFacts ==
  ASSUME TypeOK, NEW requests \in SUBSET Requests, NEW o,
         \A r \in requests : outcome[r] = Empty,
         SetAndNotify(requests, o)
  PROVE  /\ outcome' = [r \in Requests |-> IF r \in requests THEN o ELSE outcome[r]]
         /\ \A r \in Requests :
               ready'[r] = IF r \in requests THEN "Notified" ELSE ready[r]
         /\ expires' = expires
  BY DEF SetAndNotify

-----------------------------------------------------------------------------
(* The channel and the drop.                                                *)

\* Every request is in the channel at most once, the channel is closed before it
\* is drained, and what was drained stays empty.
LEMMA ServerStep ==
  ASSUME IInv, [Next]_vars
  PROVE  ServerInv'
  <1> USE DEF ServerInv, Leave, callers, guards, requested, serving, position,
              tracked, session, core
  <1>0. ServerInv /\ new_requests \in Seq(Requests)
    BY DEF IInv, TypeOK
  <1>1. CASE Quiet
    BY <1>0, <1>1 DEF Quiet
  <1>2. ASSUME NEW r \in Requests,
               QueueForSending(r) \/ Reserve(r) \/ CoreSendsRequest(r)
        PROVE  ServerInv'
    BY <1>0, <1>2 DEF QueueForSending, Reserve, CoreSendsRequest
  <1>3. ASSUME NEW r \in Requests, NEW d \in Timeouts \cup {Never}, DoEnqueueRequest(r, d)
        PROVE  ServerInv'
    <2>1. Distinct(Append(new_requests, r))
      BY <1>0, <1>3, AppendFacts DEF IInv, RequestInv, DoEnqueueRequest
    <2> QED
      BY <1>0, <1>3, <2>1 DEF DoEnqueueRequest, RefuseRequest
  <1>4. ASSUME NEW r \in Requests, NEW o, ReceivedAnswer(r, o) PROVE ServerInv'
    BY <1>0, <1>4 DEF ReceivedAnswer
  <1>5. ASSUME NEW custom, NEW dropped, CoreInjectsError(custom, dropped)
        PROVE  ServerInv'
    BY <1>0, <1>5 DEF CoreInjectsError
  <1>6. CASE ProcessTimeouts
    BY <1>0, <1>6 DEF ProcessTimeouts
  <1>7. CASE ReceiveNewRequest \/ DrainRequest
    <2>1. Distinct(Tail(new_requests)) /\ new_requests # <<>>
      BY <1>0, <1>7, TailFacts DEF ReceiveNewRequest, DrainRequest
    <2>2. CASE ReceiveNewRequest
      BY <1>0, <2>1, <2>2 DEF ReceiveNewRequest
    <2>3. CASE DrainRequest
      BY <1>0, <2>1, <2>3 DEF DrainRequest
    <2> QED
      BY <1>7, <2>2, <2>3
  <1>8. CASE DrainPending \/ DropFields
    BY <1>0, <1>8 DEF DrainPending, DropFields
  <1> QED
    BY <1>1, <1>2, <1>3, <1>4, <1>5, <1>6, <1>7, <1>8, QuietOrRelevant DEF Relevant

-----------------------------------------------------------------------------
(* The requests.                                                            *)

\* Wherever a step finds a request, it leaves it where RequestInv says it can be.
LEMMA RequestStep ==
  ASSUME IInv, [Next]_vars, NEW s \in Requests
  PROVE  RequestInv(s)'
  <1> USE DEF Leave, callers, guards, requested, serving, position, tracked, session,
              core
  <1>0. TypeOK /\ ServerInv /\ \A r \in Requests : RequestInv(r)
    BY DEF IInv
  <1>1. CASE Quiet
    BY <1>0, <1>1 DEF Quiet, RequestInv
  <1>2. ASSUME NEW r \in Requests, QueueForSending(r) \/ Reserve(r)
        PROVE  RequestInv(s)'
    BY <1>0, <1>2 DEF QueueForSending, Reserve, RequestInv, TypeOK
  <1>3. ASSUME NEW r \in Requests, CoreSendsRequest(r)
        PROVE  RequestInv(s)'
    BY <1>0, <1>3 DEF CoreSendsRequest, RequestInv, TypeOK
  <1>4. ASSUME NEW r \in Requests, NEW d \in Timeouts \cup {Never}, DoEnqueueRequest(r, d)
        PROVE  RequestInv(s)'
    <2>1. Has(Append(new_requests, r), s) <=> Has(new_requests, s) \/ s = r
      BY <1>0, AppendFacts DEF TypeOK
    <2>2. ~Has(new_requests, r) /\ r \notin pending /\ r \notin timeouts
      BY <1>0, <1>4 DEF DoEnqueueRequest, RequestInv
    <2>3. CASE \E o \in Outcomes : RefuseRequest(r, o)
      BY <1>0, <1>4, <2>2, <2>3 DEF DoEnqueueRequest, RefuseRequest, RequestInv,
         TypeOK, Outcomes, Empty
    <2>4. CASE new_requests' = Append(new_requests, r)
      BY <1>0, <1>4, <2>1, <2>2, <2>4 DEF DoEnqueueRequest, RefuseRequest, RequestInv,
         TypeOK
    <2> QED
      BY <1>4, <2>3, <2>4 DEF DoEnqueueRequest, Outcomes
  <1>5. ASSUME NEW r \in Requests, NEW o \in {"Response", "RemoteCancelled"},
               ReceivedAnswer(r, o)
        PROVE  RequestInv(s)'
    <2>1. \A q \in {r} \cap pending : outcome[q] = Empty
      BY <1>0 DEF RequestInv
    <2>2. /\ outcome'[s] = IF s \in {r} \cap pending THEN o ELSE outcome[s]
          /\ ready'[s] = IF s \in {r} \cap pending THEN "Notified" ELSE ready[s]
          /\ expires' = expires
      BY <1>0, <1>5, <2>1, SetAndNotifyFacts DEF ReceivedAnswer
    <2> QED
      BY <1>0, <1>5, <2>2 DEF ReceivedAnswer, RequestInv, TypeOK, Empty
  <1>6. ASSUME NEW custom \in BOOLEAN, NEW dropped \in SUBSET Requests,
               CoreInjectsError(custom, dropped)
        PROVE  RequestInv(s)'
    BY <1>0, <1>6 DEF CoreInjectsError, RequestInv, TypeOK
  <1>7. CASE ProcessTimeouts
    <2> DEFINE timed_out == Expired \cap pending
    <2>1. timed_out \in SUBSET Requests /\ \A q \in timed_out : outcome[q] = Empty
      BY <1>0 DEF RequestInv, TypeOK
    <2>2. SetAndNotify(timed_out, "TimedOut")
      BY <1>7 DEF ProcessTimeouts
    <2>3. /\ outcome'[s] = IF s \in timed_out THEN "TimedOut" ELSE outcome[s]
          /\ ready'[s] = IF s \in timed_out THEN "Notified" ELSE ready[s]
          /\ expires' = expires
      BY <1>0, <2>1, <2>2, SetAndNotifyFacts
    <2>4. /\ timeouts' \in SUBSET timeouts
          /\ timeouts' = timeouts \ Expired /\ pending' = pending \ timed_out
          /\ UNCHANGED <<stage, new_requests, io, core_open>>
      BY <1>7 DEF ProcessTimeouts
    <2>5. \A r \in timeouts : expires[r] # Never
      BY <1>0 DEF RequestInv, TypeOK
    <2>6. \A r \in timeouts' : NextDeadline(timeouts') <= expires[r]
      BY <1>0, <2>4, <2>5, NextDeadlineFacts
    <2>7. server' = "Select" => deadline' = NextDeadline(timeouts')
      BY <1>7 DEF ProcessTimeouts
    <2> HIDE DEF timed_out
    <2>8. s \in pending /\ s \in Expired => s \in timed_out
      BY DEF timed_out
    <2>9. s \in timed_out => s \in pending
      BY DEF timed_out
    <2> QED
      BY <1>0, <2>3, <2>4, <2>6, <2>7, <2>8, <2>9 DEF RequestInv, Empty
  <1>8. CASE ReceiveNewRequest
    <2> DEFINE h == Head(new_requests)
    <2>1. /\ h \in Requests /\ Has(new_requests, h)
          /\ Has(Tail(new_requests), s) <=> Has(new_requests, s) /\ s # h
      BY <1>0, <1>8, TailFacts DEF ReceiveNewRequest, ServerInv, TypeOK
    <2>2. outcome[h] = Empty /\ io[h] = "Absent" /\ h \notin pending /\ stage[h] = "Made"
      BY <1>0, <2>1 DEF RequestInv
    <2>3. CASE core_open
      BY <1>0, <1>8, <2>1, <2>2, <2>3 DEF ReceiveNewRequest, RequestInv, TypeOK
    <2>4. CASE ~core_open
      <3>1. SetAndNotify({h}, "RemoteClosed") /\ UNCHANGED <<io, tracked>>
        BY <1>8, <2>4 DEF ReceiveNewRequest
      <3>2. /\ outcome'[s] = IF s \in {h} THEN "RemoteClosed" ELSE outcome[s]
            /\ ready'[s] = IF s \in {h} THEN "Notified" ELSE ready[s]
            /\ expires' = expires
        BY <1>0, <2>1, <2>2, <3>1, SetAndNotifyFacts
      <3> QED
        BY <1>0, <1>8, <2>1, <2>2, <3>1, <3>2
           DEF ReceiveNewRequest, RequestInv, Empty
    <2> QED
      BY <2>3, <2>4
  <1>9. CASE DrainPending
    <2>1. pending \in SUBSET Requests /\ \A q \in pending : outcome[q] = Empty
      BY <1>0 DEF RequestInv, TypeOK
    <2>2. /\ outcome'[s] = IF s \in pending THEN "Shutdown" ELSE outcome[s]
          /\ ready'[s] = IF s \in pending THEN "Notified" ELSE ready[s]
          /\ expires' = expires
      BY <1>0, <1>9, <2>1, SetAndNotifyFacts DEF DrainPending
    <2> QED
      BY <1>0, <1>9, <2>2 DEF DrainPending, RequestInv, Empty
  <1>10. CASE DrainRequest
    <2> DEFINE h == Head(new_requests)
    <2>1. /\ h \in Requests /\ Has(new_requests, h)
          /\ Has(Tail(new_requests), s) <=> Has(new_requests, s) /\ s # h
      BY <1>0, <1>10, TailFacts DEF DrainRequest, ServerInv, TypeOK
    <2>2. outcome[h] = Empty /\ io[h] = "Absent" /\ h \notin pending /\ stage[h] = "Made"
      BY <1>0, <2>1 DEF RequestInv
    <2>3. SetAndNotify({h}, "RemoteClosed")
      BY <1>10 DEF DrainRequest
    <2>4. /\ outcome'[s] = IF s \in {h} THEN "RemoteClosed" ELSE outcome[s]
          /\ ready'[s] = IF s \in {h} THEN "Notified" ELSE ready[s]
          /\ expires' = expires
      BY <1>0, <2>1, <2>2, <2>3, SetAndNotifyFacts
    <2> QED
      BY <1>0, <1>10, <2>1, <2>2, <2>4 DEF DrainRequest, RequestInv, Empty
  <1>11. CASE DropFields
    <2>1. pending = {}
      BY <1>0, <1>11 DEF DropFields, ServerInv
    <2> QED
      BY <1>0, <1>11, <2>1 DEF DropFields, RequestInv, TypeOK
  <1> QED
    BY <1>1, <1>2, <1>3, <1>4, <1>5, <1>6, <1>7, <1>8, <1>9, <1>10, <1>11,
       QuietOrRelevant DEF Relevant

-----------------------------------------------------------------------------
(* The permits.                                                             *)

Reserved == {r \in Requests : stage[r] = "Reserved"}
Queued   == {r \in Requests : io[r] = "Queued"}

\* What counting requests gives when some are added or removed.
LEMMA CountFacts ==
  ASSUME NEW S \in SUBSET Requests, NEW D \in SUBSET S, NEW x \in Requests
  PROVE  /\ Cardinality(S) \in Nat /\ Cardinality(D) \in Nat
         /\ Cardinality({}) = 0
         /\ x \notin S => Cardinality(S \cup {x}) = Cardinality(S) + 1
         /\ x \in S => Cardinality(S \ {x}) = Cardinality(S) - 1
         /\ Cardinality(S \ D) = Cardinality(S) - Cardinality(D)
  <1>1. IsFiniteSet(S) /\ IsFiniteSet(D)
    BY RpcAssumption, FS_Subset
  <1>2. S \cap D = D
    OBVIOUS
  <1>3. Cardinality(S \ D) = Cardinality(S) - Cardinality(D)
    BY <1>1, <1>2, FS_Difference
  <1> QED
    BY <1>1, <1>3, FS_CardinalityType, FS_AddElement, FS_RemoveElement, FS_EmptySet

\* Every step that takes a permit out of one place puts it into another.
LEMMA PermitsStep ==
  ASSUME IInv, [Next]_vars
  PROVE  PermitsConserved'
  <1> USE DEF callers, guards, requested, serving, position, tracked, session, core
  <1> DEFINE Conserved(p, S, n, Q) == p + Cardinality(S) + n + Cardinality(Q) = BufferSize
  <1>0. /\ TypeOK /\ ServerInv /\ \A r \in Requests : RequestInv(r)
        /\ Conserved(permits, Reserved, Len(new_requests), Queued)
    BY DEF IInv, PermitsConserved, Reserved, Queued
  <1>a. /\ Reserved \in SUBSET Requests /\ Queued \in SUBSET Requests
        /\ Cardinality(Reserved) \in Nat /\ Cardinality(Queued) \in Nat
    <2>1. Reserved \in SUBSET Requests /\ Queued \in SUBSET Requests
      BY DEF Reserved, Queued
    <2>2. IsFiniteSet(Reserved) /\ IsFiniteSet(Queued)
      BY <2>1, RpcAssumption, FS_Subset
    <2> QED
      BY <2>1, <2>2, FS_CardinalityType
  <1>b. permits \in Nat /\ Len(new_requests) \in Nat /\ BufferSize \in Nat
    BY <1>0, RpcAssumption, LenProperties DEF TypeOK
  <1> SUFFICES Conserved(permits', Reserved', Len(new_requests'), Queued')
    BY DEF PermitsConserved, Reserved, Queued
  <1>1. CASE UNCHANGED <<permits, stage, new_requests, io>>
    <2>1. Reserved' = Reserved /\ Queued' = Queued
      BY <1>1 DEF Reserved, Queued
    <2> QED
      BY <1>0, <1>1, <2>1
  <1>2. CASE Quiet \/ ProcessTimeouts \/ DrainPending
    BY <1>1, <1>2 DEF Quiet, ProcessTimeouts, DrainPending
  <1>3. ASSUME NEW r \in Requests, QueueForSending(r)
        PROVE  Conserved(permits', Reserved', Len(new_requests'), Queued')
    <2>1. Reserved' = Reserved /\ Queued' = Queued
      BY <1>0, <1>3 DEF QueueForSending, Reserved, Queued, TypeOK
    <2> QED
      BY <1>0, <1>3, <2>1 DEF QueueForSending
  <1>4. ASSUME NEW r \in Requests, Reserve(r)
        PROVE  Conserved(permits', Reserved', Len(new_requests'), Queued')
    <2>1. r \notin Reserved /\ Reserved' = Reserved \cup {r} /\ Queued' = Queued
      BY <1>0, <1>4 DEF Reserve, Reserved, Queued, TypeOK
    <2>2. Cardinality(Reserved') = Cardinality(Reserved) + 1
      BY <1>a, <2>1, CountFacts
    <2>3. permits' = permits - 1 /\ new_requests' = new_requests
      BY <1>4 DEF Reserve
    <2> QED
      BY <1>0, <1>a, <1>b, <2>1, <2>2, <2>3
  <1>5. ASSUME NEW r \in Requests, NEW d \in Timeouts \cup {Never}, DoEnqueueRequest(r, d)
        PROVE  Conserved(permits', Reserved', Len(new_requests'), Queued')
    <2>1. r \in Reserved /\ Reserved' = Reserved \ {r} /\ Queued' = Queued
      BY <1>0, <1>5 DEF DoEnqueueRequest, Reserved, Queued, TypeOK
    <2>2. Cardinality(Reserved') = Cardinality(Reserved) - 1
      BY <1>a, <2>1, CountFacts
    <2>3. Len(Append(new_requests, r)) = Len(new_requests) + 1
      BY <1>0, AppendFacts DEF TypeOK
    <2>4. \/ permits' = permits + 1 /\ new_requests' = new_requests
          \/ permits' = permits /\ new_requests' = Append(new_requests, r)
      BY <1>5 DEF DoEnqueueRequest, RefuseRequest
    <2>5. \/ permits' = permits + 1 /\ Len(new_requests') = Len(new_requests)
          \/ permits' = permits /\ Len(new_requests') = Len(new_requests) + 1
      BY <2>3, <2>4
    <2> QED
      BY <1>0, <1>a, <1>b, <2>1, <2>2, <2>5
  <1>6. ASSUME NEW r \in Requests, NEW o, ReceivedAnswer(r, o)
        PROVE  Conserved(permits', Reserved', Len(new_requests'), Queued')
    <2>1. Reserved' = Reserved /\ Queued' = Queued
      BY <1>0, <1>6 DEF ReceivedAnswer, Reserved, Queued, TypeOK
    <2> QED
      BY <1>0, <1>6, <2>1 DEF ReceivedAnswer
  <1>7. ASSUME NEW r \in Requests, CoreSendsRequest(r)
        PROVE  Conserved(permits', Reserved', Len(new_requests'), Queued')
    <2>1. r \in Queued /\ Queued' = Queued \ {r} /\ Reserved' = Reserved
      BY <1>0, <1>7 DEF CoreSendsRequest, Reserved, Queued, TypeOK
    <2>2. Cardinality(Queued') = Cardinality(Queued) - 1
      BY <1>a, <2>1, CountFacts
    <2>3. permits' = permits + 1 /\ new_requests' = new_requests
      BY <1>7 DEF CoreSendsRequest
    <2> QED
      BY <1>0, <1>a, <1>b, <2>1, <2>2, <2>3
  <1>8. ASSUME NEW custom, NEW dropped, CoreInjectsError(custom, dropped)
        PROVE  Conserved(permits', Reserved', Len(new_requests'), Queued')
    <2>1. /\ dropped \in SUBSET Queued /\ Queued' = Queued \ dropped
          /\ Reserved' = Reserved
      BY <1>0, <1>8 DEF CoreInjectsError, Reserved, Queued, TypeOK
    <2>2. CASE Requests = {}
      <3>1. dropped = {} /\ Queued' = Queued
        BY <1>a, <2>1, <2>2
      <3>2. Cardinality(dropped) = 0
        BY <3>1, FS_EmptySet
      <3> QED
        BY <1>0, <1>a, <1>b, <1>8, <2>1, <3>1, <3>2 DEF CoreInjectsError
    <2>3. ASSUME NEW x \in Requests
          PROVE  Conserved(permits', Reserved', Len(new_requests'), Queued')
      <3>1. /\ Cardinality(Queued') = Cardinality(Queued) - Cardinality(dropped)
            /\ Cardinality(dropped) \in Nat
        BY <1>a, <2>1, CountFacts
      <3>2. permits' = permits + Cardinality(dropped) /\ new_requests' = new_requests
        BY <1>8 DEF CoreInjectsError
      <3> QED
        BY <1>0, <1>a, <1>b, <2>1, <3>1, <3>2
    <2> QED
      BY <2>2, <2>3
  <1>9. CASE ReceiveNewRequest \/ DrainRequest
    <2> DEFINE h == Head(new_requests)
    <2>1. /\ h \in Requests /\ Has(new_requests, h)
          /\ Len(Tail(new_requests)) = Len(new_requests) - 1
      BY <1>0, <1>9, TailFacts DEF ReceiveNewRequest, DrainRequest, ServerInv, TypeOK
    <2>2. h \notin Queued
      BY <1>0, <2>1 DEF RequestInv, Queued
    <2>3. Reserved' = Reserved /\ new_requests' = Tail(new_requests)
      BY <1>9 DEF ReceiveNewRequest, DrainRequest, Reserved
    <2>4. CASE permits' = permits /\ io' = [io EXCEPT ![h] = "Queued"]
      <3>1. Queued' = Queued \cup {h}
        BY <1>0, <2>1, <2>4 DEF Queued, TypeOK
      <3>2. Cardinality(Queued') = Cardinality(Queued) + 1
        BY <1>a, <2>1, <2>2, <3>1, CountFacts
      <3>3. /\ permits' = permits /\ Len(new_requests') = Len(new_requests) - 1
            /\ Reserved' = Reserved
        BY <2>1, <2>3, <2>4
      <3> QED
        BY <1>0, <1>a, <1>b, <3>2, <3>3
    <2>5. CASE permits' = permits + 1 /\ io' = io
      <3>1. Queued' = Queued
        BY <2>5 DEF Queued
      <3> QED
        BY <1>0, <1>a, <1>b, <2>1, <2>3, <2>5, <3>1
    <2> QED
      BY <1>9, <2>4, <2>5 DEF ReceiveNewRequest, DrainRequest
  <1>10. CASE DropFields
    <2>1. Queued' = {} /\ Reserved' = Reserved
      BY <1>10 DEF DropFields, Reserved, Queued
    <2>2. permits' = permits + Cardinality(Queued) /\ new_requests' = new_requests
      BY <1>10 DEF DropFields, Queued
    <2>3. Cardinality(Queued') = 0
      BY <2>1, FS_EmptySet
    <2> QED
      BY <1>0, <1>a, <1>b, <2>1, <2>2, <2>3
  <1> QED
    BY <1>2, <1>3, <1>4, <1>5, <1>6, <1>7, <1>8, <1>9, <1>10, QuietOrRelevant
       DEF Relevant

-----------------------------------------------------------------------------
(* The theorems.                                                            *)

\* A server that has just been built, with no request made.
LEMMA InitInv == Init => IInv
  <1> SUFFICES ASSUME Init PROVE IInv
    OBVIOUS
  <1>1. TypeOK
    <2>1. error \in [state : {"None", "Queued", "Pending", "Sent"}, left : 0 .. ErrorLen,
                     data : {NoData} \cup 0 .. ErrorLen]
      BY RpcAssumption DEF Init
    <2>2. new_requests \in Seq(Requests)
      BY EmptySeq DEF Init
    <2>3. permits \in Nat /\ now \in 0 .. MaxInstant /\ deadline \in Nat
      BY RpcAssumption DEF Init
    <2>4. /\ stage \in [Requests -> {"Unmade", "Reserving", "Reserved", "Made"}]
          /\ expires \in [Requests -> Nat \cup {Never}]
          /\ outcome \in [Requests -> Outcomes \cup {Empty}]
          /\ ready \in [Requests -> {"Absent", "Unnotified", "Notified"}]
          /\ incoming \in [Incoming -> {"None", "Held", "Answered", "Discarded"}]
          /\ io \in [Requests -> {"Absent", "Queued", "Mapped", "Done"}]
      BY DEF Init
    <2> QED
      BY <2>1, <2>2, <2>3, <2>4 DEF TypeOK, Init
  <1>2. DOMAIN new_requests = {}
    BY DEF Init
  <1>3. ServerInv
    BY <1>2 DEF ServerInv, Distinct, Init
  <1>4. ASSUME NEW r \in Requests PROVE RequestInv(r)
    BY <1>2 DEF RequestInv, Has, Init
  <1>5. PermitsConserved
    <2>1. Reserved = {} /\ Queued = {}
      BY DEF Init, Reserved, Queued
    <2>2. Len(new_requests) = 0 /\ Cardinality({}) = 0
      BY EmptySeq, FS_EmptySet DEF Init
    <2>3. permits = BufferSize /\ BufferSize \in Nat
      BY RpcAssumption DEF Init
    <2>4. permits + Cardinality(Reserved) + Len(new_requests) + Cardinality(Queued)
             = BufferSize
      BY <2>1, <2>2, <2>3
    <2> QED
      BY <2>4 DEF PermitsConserved, Reserved, Queued
  <1> QED
    BY <1>1, <1>3, <1>4, <1>5 DEF IInv

\* The invariant is inductive.
LEMMA Inductive == Spec => []IInv
  <1>1. IInv /\ [Next]_vars => IInv'
    BY TypeStep, ServerStep, RequestStep, PermitsStep DEF IInv
  <1> QED
    BY <1>1, InitInv, PTL DEF Spec

\* The fields of clients, guards, server and core keep their types, whatever the
\* clock and the number of requests; the deadline of select! is always defined.
THEOREM TypeCorrect == Spec => []TypeOK
  <1>1. IInv => TypeOK
    BY DEF IInv
  <1> QED
    BY <1>1, Inductive, PTL

\* No step of do_enqueue_request, next_request, process_timeouts or drop loses or
\* doubles a guard, and none wakes a waiter that has no outcome.
THEOREM NoWaiterLost == Spec => []WaitersTracked
  <1>1. IInv => WaitersTracked
    <2> SUFFICES ASSUME IInv PROVE WaitersTracked
      OBVIOUS
    <2>1. \A r \in Requests : RequestInv(r) /\ pending \subseteq Requests
      BY DEF IInv, TypeOK
    <2>2. \A r \in Unresolved : InChannel(r) # (r \in pending)
      BY <2>1 DEF RequestInv, Unresolved, InChannel, Has
    <2>3. \A r \in pending : core_open => io[r] \in {"Queued", "Mapped"}
      BY <2>1 DEF RequestInv, IInv, TypeOK
    <2>4. \A r \in Requests : WaitForResponseReturns(r) = TryGetResponseReturns(r)
      BY <2>1 DEF RequestInv, WaitForResponseReturns, TryGetResponseReturns
    <2> QED
      BY <2>2, <2>3, <2>4 DEF WaitersTracked
  <1> QED
    BY <1>1, Inductive, PTL

\* When the drop of the server has ended, every guard has an outcome, those of the
\* requests that were made while it ran included.
THEOREM DropStrandsNobody == Spec => []NoWaiterStranded
  <1>1. IInv => NoWaiterStranded
    <2> SUFFICES ASSUME IInv, server = "Dropped", NEW r \in Requests, stage[r] = "Made"
                 PROVE  ready[r] # "Unnotified"
      BY DEF NoWaiterStranded, WaitForResponseReturns
    <2>1. pending = {} /\ new_requests = <<>>
      BY DEF IInv, ServerInv
    <2>2. ~Has(new_requests, r)
      BY <2>1 DEF Has
    <2> QED
      BY <2>1, <2>2 DEF IInv, RequestInv
  <1> QED
    BY <1>1, Inductive, PTL

\* select! never sleeps past the timeout of a pending request.
THEOREM WakesInTime == Spec => []DeadlineCovers
  <1>1. IInv => DeadlineCovers
    BY DEF IInv, RequestInv, DeadlineCovers, TypeOK
  <1> QED
    BY <1>1, Inductive, PTL

\* For any buffer size, the permits of a channel are neither lost nor doubled, on
\* any path of a request, its refusal and the drop of core and server included.
THEOREM PermitsKept == Spec => []PermitsConserved
  <1>1. IInv => PermitsConserved
    BY DEF IInv
  <1> QED
    BY <1>1, Inductive, PTL

-----------------------------------------------------------------------------
(* The refinement.                                                          *)

Made == {r \in Requests : stage[r] = "Made"}
Sent == {r \in Requests : io[r] # "Absent"}

\* A step either leaves what RequestLifecycle sees alone or is a step of it.
LEMMA LifecycleStep ==
  ASSUME IInv, [Next]_vars
  PROVE  Lifecycle!Next \/ (Made' = Made /\ Sent' = Sent /\ outcome' = outcome)
  <1> USE DEF callers, guards, requested, serving, position, tracked, session, core
  <1> DEFINE Waiting == {r \in Made : outcome[r] = Empty}
             Resolved(requests, o) ==
                 outcome' = [r \in Requests |-> IF r \in requests THEN o ELSE outcome[r]]
             Stutter == Made' = Made /\ Sent' = Sent /\ outcome' = outcome
  <1>0. TypeOK /\ ServerInv /\ \A r \in Requests : RequestInv(r)
    BY DEF IInv
  <1>a. \A r \in pending : r \in Waiting \cap Sent
    BY <1>0 DEF RequestInv, TypeOK, Made, Sent
  <1>b. \A r \in Requests : Has(new_requests, r) => r \in Waiting \ Sent
    BY <1>0 DEF RequestInv, Made, Sent
  <1>c. ASSUME NEW requests, requests \subseteq Waiting \cap Sent,
               NEW o \in {"TimedOut", "Shutdown"}, Resolved(requests, o),
               Made' = Made, Sent' = Sent
        PROVE  Lifecycle!Next
    <2>1. Lifecycle!GiveUp(requests, o)
      BY <1>c DEF Lifecycle!GiveUp, Lifecycle!Waiting, Lifecycle!GivenUp,
         Lifecycle!Resolved, Lifecycle!Empty, Empty, Made, Sent
    <2>2. requests \in SUBSET Requests /\ o \in Lifecycle!GivenUp
      BY <1>c DEF Lifecycle!GivenUp, Made, Sent
    <2> QED
      BY <2>1, <2>2 DEF Lifecycle!Next
  <1>d. \A r \in Requests : r \in Waiting \ Sent /\ Resolved({r}, "RemoteClosed")
            /\ Made' = Made /\ Sent' = Sent => Lifecycle!Next
    <2> SUFFICES ASSUME NEW r \in Requests, r \in Waiting \ Sent,
                        Resolved({r}, "RemoteClosed"), Made' = Made, Sent' = Sent
                 PROVE  Lifecycle!Close(r)
      BY DEF Lifecycle!Next
    <2> QED
      BY DEF Lifecycle!Close, Lifecycle!Waiting, Lifecycle!Resolved, Lifecycle!Empty,
             Empty, Made, Sent
  <1>1. CASE Quiet
    BY <1>1 DEF Quiet, Made, Sent
  <1>2. ASSUME NEW r \in Requests, QueueForSending(r) \/ Reserve(r) PROVE Stutter
    BY <1>0, <1>2 DEF QueueForSending, Reserve, Made, Sent, TypeOK
  <1>3. ASSUME NEW r \in Requests, CoreSendsRequest(r) PROVE Stutter
    BY <1>0, <1>3 DEF CoreSendsRequest, Made, Sent, TypeOK
  <1>4. ASSUME NEW r \in Requests, NEW d \in Timeouts \cup {Never}, DoEnqueueRequest(r, d)
        PROVE  Lifecycle!Next
    <2>1. r \notin Made /\ Made' = Made \cup {r}
      BY <1>0, <1>4 DEF DoEnqueueRequest, Made, TypeOK
    <2>2. r \notin Sent /\ Sent' = Sent
      BY <1>0, <1>4 DEF DoEnqueueRequest, RequestInv, Sent
    <2>3. CASE \E o \in {"TimeoutOverflow", "RemoteClosed"} : RefuseRequest(r, o)
      <3>1. PICK o \in {"TimeoutOverflow", "RemoteClosed"} : RefuseRequest(r, o)
        BY <2>3
      <3>2. Resolved({r}, o)
        BY <1>0, <3>1 DEF RefuseRequest, TypeOK
      <3>3. Lifecycle!Refuse(r, o) /\ o \in Lifecycle!NotSent
        BY <2>1, <2>2, <3>2 DEF Lifecycle!Refuse, Lifecycle!NotSent,
           Lifecycle!Resolved, Made, Sent
      <3> QED
        BY <3>3 DEF Lifecycle!Next
    <2>4. CASE outcome' = outcome
      <3>1. Lifecycle!Make(r)
        BY <2>1, <2>2, <2>4 DEF Lifecycle!Make, Made, Sent
      <3> QED
        BY <3>1 DEF Lifecycle!Next
    <2> QED
      BY <1>4, <2>3, <2>4 DEF DoEnqueueRequest
  <1>5. ASSUME NEW r \in Requests, NEW o \in {"Response", "RemoteCancelled"},
               ReceivedAnswer(r, o)
        PROVE  Lifecycle!Next \/ Stutter
    <2>1. Made' = Made /\ Sent' = Sent
      BY <1>0, <1>5 DEF ReceivedAnswer, Made, Sent, TypeOK
    <2>2. Resolved({r} \cap pending, o)
      BY <1>0, <1>5, SetAndNotifyFacts DEF ReceivedAnswer, RequestInv
    <2>3. CASE r \in pending
      <3>1. Resolved({r}, o) /\ r \in Waiting \cap Sent
        BY <1>a, <2>2, <2>3
      <3>2. Lifecycle!Answer(r, o) /\ o \in Lifecycle!Answers
        BY <2>1, <3>1 DEF Lifecycle!Answer, Lifecycle!Answers, Lifecycle!Waiting,
           Lifecycle!Resolved, Lifecycle!Empty, Empty, Made, Sent
      <3> QED
        BY <3>2 DEF Lifecycle!Next
    <2>4. CASE r \notin pending
      <3>1. outcome' = outcome
        BY <1>0, <2>2, <2>4 DEF TypeOK
      <3> QED
        BY <2>1, <3>1
    <2> QED
      BY <2>3, <2>4
  <1>6. ASSUME NEW custom, NEW dropped, CoreInjectsError(custom, dropped) PROVE Stutter
    BY <1>0, <1>6 DEF CoreInjectsError, Made, Sent, TypeOK
  <1>7. CASE ProcessTimeouts
    <2> DEFINE timed_out == Expired \cap pending
    <2>1. Made' = Made /\ Sent' = Sent
      BY <1>7 DEF ProcessTimeouts, Made, Sent
    <2>2. timed_out \in SUBSET Requests /\ \A q \in timed_out : outcome[q] = Empty
      BY <1>0 DEF RequestInv, TypeOK
    <2>3. SetAndNotify(timed_out, "TimedOut")
      BY <1>7 DEF ProcessTimeouts
    <2>4. Resolved(timed_out, "TimedOut")
      BY <1>0, <2>2, <2>3, SetAndNotifyFacts
    <2> QED
      BY <1>a, <1>c, <2>1, <2>4
  <1>8. CASE ReceiveNewRequest \/ DrainRequest
    <2> DEFINE h == Head(new_requests)
    <2>1. h \in Requests /\ Has(new_requests, h)
      BY <1>0, <1>8, TailFacts DEF ReceiveNewRequest, DrainRequest, ServerInv, TypeOK
    <2>2. h \in Waiting \ Sent
      BY <1>b, <2>1
    <2>3. Made' = Made
      BY <1>8 DEF ReceiveNewRequest, DrainRequest, Made
    <2>4. CASE outcome' = outcome /\ io' = [io EXCEPT ![h] = "Queued"]
      <3>1. Sent' = Sent \cup {h}
        BY <1>0, <2>1, <2>4 DEF Sent, TypeOK
      <3>2. PICK r \in Requests : r = h
        BY <2>1
      <3>3. Lifecycle!Send(r)
        BY <2>2, <2>3, <2>4, <3>1, <3>2 DEF Lifecycle!Send, Lifecycle!Waiting,
           Lifecycle!Empty, Empty, Made, Sent
      <3> QED
        BY <3>3 DEF Lifecycle!Next
    <2>5. CASE SetAndNotify({h}, "RemoteClosed") /\ io' = io
      <3>1. Resolved({h}, "RemoteClosed")
        BY <1>0, <2>1, <2>2, <2>5, SetAndNotifyFacts
      <3>2. Sent' = Sent
        BY <2>5 DEF Sent
      <3> QED
        BY <1>d, <2>1, <2>2, <2>3, <3>1, <3>2
    <2> QED
      BY <1>8, <2>4, <2>5 DEF ReceiveNewRequest, DrainRequest
  <1>9. CASE DrainPending
    <2>1. Made' = Made /\ Sent' = Sent
      BY <1>9 DEF DrainPending, Made, Sent
    <2>2. Resolved(pending, "Shutdown")
      BY <1>0, <1>9, SetAndNotifyFacts DEF DrainPending, RequestInv, TypeOK
    <2> QED
      BY <1>a, <1>c, <2>1, <2>2
  <1>10. CASE DropFields
    BY <1>0, <1>10 DEF DropFields, Made, Sent, TypeOK
  <1> QED
    BY <1>1, <1>2, <1>3, <1>4, <1>5, <1>6, <1>7, <1>8, <1>9, <1>10, QuietOrRelevant
       DEF Relevant

\* The rpc layer implements RequestLifecycle: one final outcome for every request
\* made, and one that tells truly whether the request was handed to the core.
THEOREM Refinement == Spec => ImplementsLifecycle
  <1>1. Init => Lifecycle!Init
    BY DEF Init, Lifecycle!Init, Lifecycle!Empty, Empty
  <1>2. IInv /\ [Next]_vars =>
          [Lifecycle!Next]_<<Made, Sent, outcome>>
    BY LifecycleStep
  <1>3. IInv /\ [Next]_vars =>
          [Lifecycle!Next]_<<{r \in Requests : stage[r] = "Made"},
                             {r \in Requests : io[r] # "Absent"}, outcome>>
    BY <1>2 DEF Made, Sent
  <1> QED
    BY <1>1, <1>3, Inductive, PTL DEF Spec, ImplementsLifecycle, Lifecycle!Spec

=============================================================================
