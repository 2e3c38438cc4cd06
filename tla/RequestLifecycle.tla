-------------------------- MODULE RequestLifecycle --------------------------
(***************************************************************************)
(* What the rpc layer promises the maker of a request, as the docs of      *)
(* RequestGuard and RequestError state it: whoever makes a request holds a *)
(* guard whose outcome is set once and for all.  The outcome tells what    *)
(* became of the request.  "RemoteClosed" and "TimeoutOverflow" mean that  *)
(* it was never handed to the io layer, so that making it again is safe;   *)
(* the others are given only to a request that was.                        *)
(***************************************************************************)
CONSTANT Requests

VARIABLES
    made,       \* requests whose makers were given a guard
    sent,       \* requests that were handed to the io layer
    outcome     \* RequestGuardInner::outcome

NotSent   == {"RemoteClosed", "TimeoutOverflow"}
Answers   == {"Response", "RemoteCancelled"}
GivenUp   == {"TimedOut", "Shutdown"}
Outcomes  == NotSent \cup Answers \cup GivenUp
Empty     == "Empty"

Waiting == {r \in made : outcome[r] = Empty}

Resolved(requests, o) ==
    outcome' = [r \in Requests |-> IF r \in requests THEN o ELSE outcome[r]]

Init ==
    /\ made = {}
    /\ sent = {}
    /\ outcome = [r \in Requests |-> Empty]

Make(r) ==
    /\ r \notin made
    /\ made' = made \cup {r}
    /\ UNCHANGED <<sent, outcome>>

Refuse(r, o) ==
    /\ r \notin made /\ r \notin sent
    /\ o \in NotSent
    /\ made' = made \cup {r}
    /\ Resolved({r}, o)
    /\ UNCHANGED sent

Send(r) ==
    /\ r \in Waiting \ sent
    /\ sent' = sent \cup {r}
    /\ UNCHANGED <<made, outcome>>

Close(r) ==
    /\ r \in Waiting \ sent
    /\ Resolved({r}, "RemoteClosed")
    /\ UNCHANGED <<made, sent>>

Answer(r, o) ==
    /\ r \in Waiting \cap sent
    /\ o \in Answers
    /\ Resolved({r}, o)
    /\ UNCHANGED <<made, sent>>

\* Several requests may time out, or be given up by a shutdown, at once.
GiveUp(requests, o) ==
    /\ requests \subseteq Waiting \cap sent
    /\ o \in GivenUp
    /\ Resolved(requests, o)
    /\ UNCHANGED <<made, sent>>

Next ==
    \/ \E r \in Requests :
          \/ Make(r) \/ Send(r) \/ Close(r)
          \/ \E o \in NotSent : Refuse(r, o)
          \/ \E o \in Answers : Answer(r, o)
    \/ \E requests \in SUBSET Requests, o \in GivenUp : GiveUp(requests, o)

Spec == Init /\ [][Next]_<<made, sent, outcome>>

=============================================================================
