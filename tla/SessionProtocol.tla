--------------------------- MODULE SessionProtocol ---------------------------
(* What a session promises to those who send requests over it.  Requests are     *)
(* taken in the order they were sent, one at a time; a request leaves the session *)
(* once, with one answer, or with none if its caller is gone by then.  Success is *)
(* the answer of a request that was taken.  A closed session takes no request.    *)
(* KServerSession implements this specification.                                  *)
EXTENDS Sequences

CONSTANT Requests

VARIABLES
    queue,      \* the requests sent and not yet taken
    serving,    \* the request that is being served, if any
    refused,    \* the requests that are being refused
    answer,     \* what each request was answered with
    gone,       \* the requests whose caller is gone
    closed

vars == <<queue, serving, refused, answer, gone, closed>>

Answers == {"Success", "Error", "Closed"}

InPlay == {queue[i] : i \in DOMAIN queue} \cup serving \cup refused

Init ==
    /\ queue = <<>> /\ serving = {} /\ refused = {}
    /\ answer = [r \in Requests |-> "None"]
    /\ gone = {} /\ closed = FALSE

Send(r) ==
    /\ ~closed /\ r \notin InPlay
    /\ queue' = Append(queue, r)
    /\ answer' = [answer EXCEPT ![r] = "None"]
    /\ UNCHANGED <<serving, refused, gone, closed>>

Take ==
    /\ ~closed /\ serving = {} /\ queue # <<>>
    /\ serving' = {Head(queue)} /\ queue' = Tail(queue)
    /\ UNCHANGED <<refused, answer, gone, closed>>

Refuse ==
    /\ closed /\ queue # <<>>
    /\ refused' = refused \cup {Head(queue)} /\ queue' = Tail(queue)
    /\ UNCHANGED <<serving, answer, gone, closed>>

\* A request leaves, answered with a, or unanswered.
Leave(r, a) ==
    /\ r \in serving \cup refused
    /\ serving' = serving \ {r} /\ refused' = refused \ {r}
    /\ \/ /\ a \in Answers
          /\ a = "Success" => r \in serving
          /\ a = "Closed" => closed
          /\ answer' = [answer EXCEPT ![r] = a]
       \/ a = "None" /\ r \in gone /\ UNCHANGED answer
    /\ gone' = gone \ {r}
    /\ UNCHANGED <<queue, closed>>

\* The caller of some requests is terminated.
CallerGone(R) ==
    /\ R \subseteq InPlay
    /\ gone' = gone \cup R
    /\ UNCHANGED <<queue, serving, refused, answer, closed>>

Close ==
    /\ ~closed /\ closed' = TRUE
    /\ UNCHANGED <<queue, serving, refused, answer, gone>>

Next ==
    \/ \E r \in Requests : Send(r) \/ \E a \in Answers \cup {"None"} : Leave(r, a)
    \/ \E R \in SUBSET Requests : CallerGone(R)
    \/ Take \/ Refuse \/ Close

Spec == Init /\ [][Next]_vars
==============================================================================
