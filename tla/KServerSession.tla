---------------------------- MODULE KServerSession ----------------------------
(* A session: KSession with its KClientSession and KServerSession ends, and the    *)
(* KSessionRequest objects that pass between them.  Client threads send            *)
(* synchronous and asynchronous requests, server threads wait, receive and reply,   *)
(* either end is closed at any time, client threads are terminated.  One step per   *)
(* section under the scheduler lock; m_lock is the atomic lock that KLightLock is   *)
(* shown to implement, and is taken with the first section that needs it.           *)
EXTENDS Integers, Sequences, FiniteSets, FiniteSetsExt, SequencesExt

CONSTANTS Clients, Servers, Requests, NoRequest, NoThread,
          Modes,     \* whether a client thread sends asynchronous requests
          Doomed     \* the client threads that are terminated

ASSUME SessionAssumption ==
    /\ IsFiniteSet(Requests) /\ Requests \subseteq Nat /\ NoRequest \notin Requests
    /\ NoThread \notin Clients
    /\ Modes \in [Clients -> SUBSET BOOLEAN] /\ Doomed \subseteq Clients
    /\ Servers \cap {"client", "server"} = {}

Ends == {"client", "server"}

VARIABLES
    state,        \* m_atomic_state of KSession
    list,         \* m_request_list
    current,      \* m_current_request
    lock,         \* who holds m_lock: a server thread, or the Destroy of an end
    heap,         \* the requests, and the references they hold to threads and events
    cpc, call,    \* where a client thread is, and the request it has created
    terminating,  \* the client threads whose termination was requested
    spc, hand, sawClosed,   \* where a server thread is, its request, its "closed"
    handles,      \* the ends that a handle still refers to
    epc, ehand, prev,       \* where the Destroy of an end is, its request, prev_request
    answer        \* what each request was answered with

sessionVars == <<state, list, current, lock>>
clientVars  == <<cpc, call, terminating>>
serverVars  == <<spc, hand, sawClosed>>
endVars     == <<handles, epc, ehand, prev>>
vars == <<sessionVars, heap, clientVars, serverVars, endVars, answer>>

Request == [refs : Nat, thread : Clients \cup {NoThread}, event : BOOLEAN]
Free    == [refs |-> 0, thread |-> NoThread, event |-> FALSE]
\* The request a Destroy works on; cleared: it has taken thread and event from it.
Handful == [req : Requests \cup {NoRequest}, isCurrent : BOOLEAN,
            cleared : Clients \cup {NoThread}, clearedEvent : BOOLEAN]
Nothing == [req |-> NoRequest, isCurrent |-> FALSE, cleared |-> NoThread, clearedEvent |-> FALSE]

TypeOK ==
    /\ state \in {"Normal", "ClientClosed", "ServerClosed"}
    /\ list \in Seq(Requests)
    /\ current \in Requests \cup {NoRequest}
    /\ lock \in Servers \cup Ends \cup {NoThread}
    /\ heap.req \in [Requests -> Request]
    /\ heap.threads \in [Clients -> Nat] /\ heap.events \in [Requests -> Nat]
    /\ cpc \in [Clients -> {"user", "sending", "waiting", "returning"}]
    /\ call \in [Clients -> Requests \cup {NoRequest}]
    /\ terminating \subseteq Clients
    /\ spc \in [Servers -> {"user", "asleep", "signaled", "popped", "receiving", "failed",
                            "replying", "sending"}]
    /\ hand \in [Servers -> Requests \cup {NoRequest}]
    /\ sawClosed \in [Servers -> BOOLEAN]
    /\ handles \subseteq Ends
    /\ epc \in [Ends -> {"open", "normal", "lock", "loop", "request", "notify", "closed"}]
    /\ ehand \in [Ends -> Handful]
    /\ prev \in Requests \cup {NoRequest}
    /\ answer \in [Requests -> {"None", "Success", "Error", "Closed"}]

Init ==
    /\ state = "Normal" /\ list = <<>> /\ current = NoRequest /\ lock = NoThread
    /\ heap = [req |-> [r \in Requests |-> Free], threads |-> [c \in Clients |-> 0],
               events |-> [r \in Requests |-> 0]]
    /\ cpc = [c \in Clients |-> "user"] /\ call = [c \in Clients |-> NoRequest]
    /\ terminating = {}
    /\ spc = [s \in Servers |-> "user"] /\ hand = [s \in Servers |-> NoRequest]
    /\ sawClosed = [s \in Servers |-> FALSE]
    /\ handles = Ends
    /\ epc = [e \in Ends |-> "open"] /\ ehand = [e \in Ends |-> Nothing] /\ prev = NoRequest
    /\ answer = [r \in Requests |-> "None"]

-----------------------------------------------------------------------------
(* Reference counts.                                                         *)

OpenThread(h, c)   == [h EXCEPT !.threads[c] = @ + 1]
CloseThread(h, c)  == [h EXCEPT !.threads[c] = @ - 1]
CloseEvent(h, r)   == [h EXCEPT !.events[r] = @ - 1]
OpenRequest(h, r)  == [h EXCEPT !.req[r].refs = @ + 1]

\* KSessionRequest::Create and Initialize.
NewRequest(h, r, c, async) ==
    [h EXCEPT !.req[r] = [refs |-> 1, thread |-> c, event |-> async],
              !.threads[c] = @ + 1,
              !.events[r] = IF async THEN @ + 1 ELSE @]

\* KSessionRequest::Finalize: what is still set is given back.
Finalize(h, r) ==
    LET q == h.req[r]
        t == IF q.thread # NoThread THEN CloseThread(h, q.thread) ELSE h
        e == IF q.event THEN CloseEvent(t, r) ELSE t
    IN  [e EXCEPT !.req[r] = Free]

CloseRequest(h, r) ==
    IF h.req[r].refs = 1 THEN Finalize(h, r) ELSE [h EXCEPT !.req[r].refs = @ - 1]

-----------------------------------------------------------------------------
(* Signals and answers.                                                      *)

\* IsSignaled, of the given values.
IsSignaled(st, l, cur) == st # "Normal" \/ (l # <<>> /\ cur = NoRequest)

\* NotifyAvailable: the server threads that sleep on the session go to "to".
Notified(pcs, signaled, to) ==
    [s \in Servers |-> IF signaled /\ pcs[s] = "asleep" THEN to ELSE pcs[s]]

\* The client is told: through the event, or by the end of its wait.  A thread that is
\* terminating is not told, nor one that was taken from the request.
Deliver(h, r, a) ==
    LET q == h.req[r] IN
    IF q.thread = NoThread \/ (~q.event /\ q.thread \in terminating)
    THEN UNCHANGED <<cpc, answer>>
    ELSE /\ answer' = [answer EXCEPT ![r] = a]
         /\ cpc' = IF ~q.event /\ cpc[q.thread] = "waiting"
                   THEN [cpc EXCEPT ![q.thread] = "returning"] ELSE cpc

-----------------------------------------------------------------------------
(* Client threads.                                                           *)

\* SendSyncRequest and SendAsyncRequest, up to OnRequest.  A thread in the call keeps
\* the client end open.  Which free request it gets makes no difference.
Send(c, async) ==
    LET free == {r \in Requests : heap.req[r].refs = 0}
        r    == Min(free)
    IN
    /\ cpc[c] = "user" /\ "client" \in handles
    /\ free # {}
    /\ heap' = NewRequest(heap, r, c, async)
    /\ cpc' = [cpc EXCEPT ![c] = "sending"]
    /\ call' = [call EXCEPT ![c] = r]
    /\ UNCHANGED <<sessionVars, terminating, serverVars, endVars, answer>>

\* KServerSession::OnRequest: refused, or queued; a synchronous request waits.
OnRequest(c) ==
    /\ cpc[c] = "sending"
    /\ IF state # "Normal" \/ c \in terminating
       THEN /\ cpc' = [cpc EXCEPT ![c] = "returning"]
            /\ UNCHANGED <<heap, list, spc, answer>>
       ELSE /\ heap' = OpenRequest(heap, call[c])
            /\ list' = Append(list, call[c])
            /\ spc' = Notified(spc, list = <<>> /\ IsSignaled(state, list', current), "signaled")
            /\ cpc' = [cpc EXCEPT ![c] = IF heap.req[call[c]].event THEN "returning" ELSE "waiting"]
            /\ answer' = [answer EXCEPT ![call[c]] = "None"]
    /\ UNCHANGED <<state, current, lock, call, terminating, hand, sawClosed, endVars>>

\* The return from the call, which gives back the request.
Return(c) ==
    /\ cpc[c] = "returning"
    /\ heap' = CloseRequest(heap, call[c])
    /\ cpc' = [cpc EXCEPT ![c] = "user"]
    /\ call' = [call EXCEPT ![c] = NoRequest]
    /\ UNCHANGED <<sessionVars, terminating, serverVars, endVars, answer>>

\* KThread::RequestTerminate; the wait is cancelled.
RequestTerminate(c) ==
    /\ c \notin terminating
    /\ terminating' = terminating \cup {c}
    /\ cpc' = IF cpc[c] = "waiting" THEN [cpc EXCEPT ![c] = "returning"] ELSE cpc
    /\ UNCHANGED <<sessionVars, heap, call, serverVars, endVars, answer>>

-----------------------------------------------------------------------------
(* Server threads.                                                           *)

\* The wait before ReceiveRequest.  A thread in a call keeps the server end open.
Wait(s) ==
    /\ spc[s] = "user" /\ "server" \in handles
    /\ spc' = [spc EXCEPT ![s] = IF IsSignaled(state, list, current) THEN "signaled" ELSE "asleep"]
    /\ UNCHANGED <<sessionVars, heap, clientVars, hand, sawClosed, endVars, answer>>

\* ReceiveRequest: nothing to receive, or the first request is popped.
ReceiveNothing(s) ==
    /\ spc[s] = "signaled" /\ lock = NoThread
    /\ state # "Normal" \/ current # NoRequest \/ list = <<>>
    /\ spc' = [spc EXCEPT ![s] = "user"]
    /\ UNCHANGED <<sessionVars, heap, clientVars, hand, sawClosed, endVars, answer>>

\* Mutant: a request that is being handled is not looked at.
PopWhileServing(s) ==
    /\ spc[s] = "signaled" /\ lock = NoThread
    /\ state = "Normal" /\ list # <<>>
    /\ lock' = s
    /\ list' = Tail(list)
    /\ hand' = [hand EXCEPT ![s] = Head(list)]
    /\ heap' = OpenThread(heap, heap.req[Head(list)].thread)
    /\ spc' = [spc EXCEPT ![s] = "popped"]
    /\ UNCHANGED <<state, current, clientVars, sawClosed, endVars, answer>>
Pop(s) ==
    /\ spc[s] = "signaled" /\ lock = NoThread
    /\ state = "Normal" /\ current = NoRequest /\ list # <<>>
    /\ lock' = s
    /\ list' = Tail(list)
    /\ hand' = [hand EXCEPT ![s] = Head(list)]
    /\ heap' = OpenThread(heap, heap.req[Head(list)].thread)
    /\ spc' = [spc EXCEPT ![s] = "popped"]
    /\ UNCHANGED <<state, current, clientVars, sawClosed, endVars, answer>>

\* m_current_request is set without the scheduler lock; then the message is received,
\* which succeeds, as it always does for an HLE service, or fails.
ReceiveMessage(s) ==
    /\ spc[s] = "popped"
    /\ current' = hand[s]
    /\ lock' = NoThread
    /\ heap' = CloseThread(heap, heap.req[hand[s]].thread)
    /\ hand' = [hand EXCEPT ![s] = NoRequest]
    /\ spc' = [spc EXCEPT ![s] = "user"]
    /\ UNCHANGED <<state, list, clientVars, sawClosed, endVars, answer>>

ReceiveFails(s) ==
    /\ spc[s] = "popped"
    /\ current' = hand[s]
    /\ spc' = [spc EXCEPT ![s] = "receiving"]
    /\ UNCHANGED <<state, list, lock, heap, clientVars, hand, sawClosed, endVars, answer>>

\* Mutant: the next request is not announced.
ClearFailedQuietly(s) ==
    /\ spc[s] = "receiving"
    /\ current' = NoRequest
    /\ spc' = [spc EXCEPT ![s] = "failed"]
    /\ UNCHANGED <<state, list, lock, heap, clientVars, hand, sawClosed, endVars, answer>>
ClearFailed(s) ==
    /\ spc[s] = "receiving"
    /\ current' = NoRequest
    /\ spc' = [Notified(spc, list # <<>>, "signaled") EXCEPT ![s] = "failed"]
    /\ UNCHANGED <<state, list, lock, heap, clientVars, hand, sawClosed, endVars, answer>>

ReplyFailed(s) ==
    /\ spc[s] = "failed"
    /\ Deliver(heap, hand[s], "Error")
    /\ heap' = CloseRequest(CloseThread(heap, heap.req[hand[s]].thread), hand[s])
    /\ lock' = NoThread
    /\ hand' = [hand EXCEPT ![s] = NoRequest]
    /\ spc' = [spc EXCEPT ![s] = "user"]
    /\ UNCHANGED <<state, list, current, call, terminating, sawClosed, endVars>>

\* SendReply: the current request is taken, the state is read, and the client is told.
SendReply(s) ==
    /\ spc[s] = "user" /\ "server" \in handles /\ lock = NoThread
    /\ current # NoRequest
    /\ lock' = s
    /\ hand' = [hand EXCEPT ![s] = current]
    /\ current' = NoRequest
    /\ spc' = [Notified(spc, list # <<>>, "signaled") EXCEPT ![s] = "replying"]
    /\ UNCHANGED <<state, list, heap, clientVars, sawClosed, endVars, answer>>

ReadClosed(s) ==
    /\ spc[s] = "replying"
    /\ sawClosed' = [sawClosed EXCEPT ![s] = heap.req[hand[s]].thread = NoThread \/ state # "Normal"]
    /\ spc' = [spc EXCEPT ![s] = "sending"]
    /\ UNCHANGED <<sessionVars, heap, clientVars, hand, endVars, answer>>

\* SendMessage, or the clean-up if the session is closed, may fail.
FinishReply(s) ==
    /\ spc[s] = "sending"
    /\ \E a \in {IF sawClosed[s] THEN "Closed" ELSE "Success", "Error"} : Deliver(heap, hand[s], a)
    /\ heap' = CloseRequest(heap, hand[s])
    /\ lock' = NoThread
    /\ hand' = [hand EXCEPT ![s] = NoRequest]
    /\ sawClosed' = [sawClosed EXCEPT ![s] = FALSE]
    /\ spc' = [spc EXCEPT ![s] = "user"]
    /\ UNCHANGED <<state, list, current, call, terminating, endVars>>

-----------------------------------------------------------------------------
(* Closing.                                                                  *)

CloseHandle(e) ==
    /\ e \in handles
    /\ handles' = handles \ {e}
    /\ UNCHANGED <<sessionVars, heap, clientVars, serverVars, epc, ehand, prev, answer>>

\* The last reference to an end is gone: its Destroy calls OnClientClosed or
\* OnServerClosed of KSession, which do nothing if the other end came first.
Unreferenced(e) ==
    /\ e \notin handles
    /\ e = "client" => \A c \in Clients : cpc[c] = "user"
    /\ e = "server" => \A s \in Servers : spc[s] = "user"

Destroy(e) ==
    /\ epc[e] = "open" /\ Unreferenced(e)
    /\ epc' = [epc EXCEPT ![e] = IF state = "Normal" THEN "normal"
                                 ELSE IF e = "client" THEN "closed" ELSE "lock"]
    /\ UNCHANGED <<sessionVars, heap, clientVars, serverVars, handles, ehand, prev, answer>>

SetState(e) ==
    /\ epc[e] = "normal"
    /\ state' = IF e = "client" THEN "ClientClosed" ELSE "ServerClosed"
    /\ epc' = [epc EXCEPT ![e] = "lock"]
    /\ UNCHANGED <<list, current, lock, heap, clientVars, serverVars, handles, ehand, prev, answer>>

TakeLock(e) ==
    /\ epc[e] = "lock" /\ lock = NoThread
    /\ lock' = e
    /\ epc' = [epc EXCEPT ![e] = "loop"]
    /\ UNCHANGED <<state, list, current, heap, clientVars, serverVars, handles, ehand, prev, answer>>

InHand(e, r, isCurrent, t, hasEvent) ==
    /\ ehand' = [ehand EXCEPT ![e] = [req |-> r, isCurrent |-> isCurrent, cleared |-> t,
                                      clearedEvent |-> hasEvent]]
    /\ epc' = [epc EXCEPT ![e] = "request"]

\* CleanupRequests, of the server end: the current request, then the queued ones.
\* Mutant: only the queued ones.
CleanupNextQueued ==
    /\ epc["server"] = "loop"
    /\ list # <<>>
    /\ list' = Tail(list) /\ UNCHANGED current
    /\ InHand("server", Head(list), FALSE, NoThread, FALSE)
    /\ UNCHANGED <<state, lock, heap, clientVars, serverVars, handles, prev, answer>>
CleanupNext ==
    /\ epc["server"] = "loop"
    /\ \/ /\ current # NoRequest
          /\ current' = NoRequest /\ UNCHANGED list
          /\ InHand("server", current, TRUE, NoThread, FALSE)
       \/ /\ current = NoRequest /\ list # <<>>
          /\ list' = Tail(list) /\ UNCHANGED current
          /\ InHand("server", Head(list), FALSE, NoThread, FALSE)
    /\ UNCHANGED <<state, lock, heap, clientVars, serverVars, handles, prev, answer>>

\* An asynchronous request may be told the error of CleanupMap instead.
CleanupRequest ==
    LET r == ehand["server"].req IN
    /\ epc["server"] = "request"
    /\ \E a \in {"Closed"} \cup {x \in {"Error"} : heap.req[r].event} : Deliver(heap, r, a)
    /\ heap' = CloseRequest(heap, r)
    /\ ehand' = [ehand EXCEPT !["server"] = Nothing]
    /\ epc' = [epc EXCEPT !["server"] = "loop"]
    /\ UNCHANGED <<sessionVars, call, terminating, serverVars, handles, prev>>

\* Nothing is left; the reference to KSession is closed.
\* Mutant: it ends with the current request.
CleanupDoneEarly ==
    /\ epc["server"] = "loop" /\ current = NoRequest
    /\ lock' = NoThread
    /\ epc' = [epc EXCEPT !["server"] = "closed"]
    /\ UNCHANGED <<state, list, current, heap, clientVars, serverVars, handles, ehand, prev, answer>>
CleanupDone ==
    /\ epc["server"] = "loop" /\ current = NoRequest /\ list = <<>>
    /\ lock' = NoThread
    /\ epc' = [epc EXCEPT !["server"] = "closed"]
    /\ UNCHANGED <<state, list, current, heap, clientVars, serverVars, handles, ehand, prev, answer>>

\* OnClientClosed, of the server end: the current request stays, but thread and event
\* are taken from it if the thread is terminating; the queued ones are refused.
ClientClosedCurrent ==
    /\ epc["client"] = "loop"
    /\ current \notin {NoRequest, prev}
    /\ LET q == heap.req[current]
           t == IF q.thread \in terminating THEN q.thread ELSE NoThread
       IN  /\ InHand("client", current, TRUE, t, t # NoThread /\ q.event)
           /\ heap' = [OpenRequest(heap, current) EXCEPT
                           !.req[current].thread = IF t # NoThread THEN NoThread ELSE @,
                           !.req[current].event  = @ /\ t = NoThread]
    /\ prev' = current
    /\ UNCHANGED <<sessionVars, clientVars, serverVars, handles, answer>>

ClientClosedNext ==
    /\ epc["client"] = "loop"
    /\ current \in {NoRequest, prev} /\ list # <<>>
    /\ list' = Tail(list)
    /\ InHand("client", Head(list), FALSE, NoThread, FALSE)
    /\ UNCHANGED <<state, current, lock, heap, clientVars, serverVars, handles, prev, answer>>

\* A queued synchronous request is dropped without a word.
ClientClosedRequest ==
    LET h == ehand["client"]
        t == IF h.cleared # NoThread THEN CloseThread(heap, h.cleared) ELSE heap
        e == IF h.clearedEvent THEN CloseEvent(t, h.req) ELSE t
    IN
    /\ epc["client"] = "request"
    /\ IF ~h.isCurrent /\ heap.req[h.req].event THEN Deliver(heap, h.req, "Closed")
       ELSE UNCHANGED <<cpc, answer>>
    /\ heap' = CloseRequest(e, h.req)
    /\ ehand' = [ehand EXCEPT !["client"] = Nothing]
    /\ epc' = [epc EXCEPT !["client"] = "loop"]
    /\ UNCHANGED <<sessionVars, call, terminating, serverVars, handles, prev>>

ClientClosedEmpty ==
    /\ epc["client"] = "loop" /\ current \in {NoRequest, prev} /\ list = <<>>
    /\ epc' = [epc EXCEPT !["client"] = "notify"]
    /\ UNCHANGED <<sessionVars, heap, clientVars, serverVars, handles, ehand, prev, answer>>

\* The threads that sleep on the session return to the user with SessionClosed.
ClientClosedNotify ==
    /\ epc["client"] = "notify"
    /\ spc' = Notified(spc, IsSignaled(state, list, current), "user")
    /\ lock' = NoThread
    /\ prev' = NoRequest
    /\ epc' = [epc EXCEPT !["client"] = "closed"]
    /\ UNCHANGED <<state, list, current, heap, clientVars, hand, sawClosed, handles, ehand, answer>>

DestroyStep ==
    \/ \E e \in Ends : Destroy(e) \/ SetState(e) \/ TakeLock(e)
    \/ CleanupNext \/ CleanupRequest \/ CleanupDone
    \/ ClientClosedCurrent \/ ClientClosedNext \/ ClientClosedRequest
    \/ ClientClosedEmpty \/ ClientClosedNotify

\* What a server thread does once it is awake, up to the end of its call.
ServerStep(s) ==
    \/ ReceiveNothing(s) \/ Pop(s) \/ ReceiveMessage(s) \/ ReceiveFails(s)
    \/ ClearFailed(s) \/ ReplyFailed(s) \/ ReadClosed(s) \/ FinishReply(s)

Next ==
    \/ \E c \in Clients :
           \/ \E async \in Modes[c] : Send(c, async)
           \/ OnRequest(c) \/ Return(c)
           \/ c \in Doomed /\ RequestTerminate(c)
    \/ \E s \in Servers : Wait(s) \/ SendReply(s) \/ ServerStep(s)
    \/ \E e \in Ends : CloseHandle(e)
    \/ DestroyStep

Spec == Init /\ [][Next]_vars

\* The end of a Destroy, and of a call that holds m_lock, is not put off for ever.
FairSpec ==
    /\ Spec
    /\ WF_vars(DestroyStep)
    /\ \A s \in Servers : WF_vars(ServerStep(s))
    /\ \A c \in Clients : WF_vars(OnRequest(c)) /\ WF_vars(Return(c))

-----------------------------------------------------------------------------

Held    == {hand[s] : s \in Servers} \ {NoRequest}
Serving == ({current} \cup Held \cup {ehand[e].req : e \in {x \in Ends : ehand[x].isCurrent}})
               \ {NoRequest}
Refused == {ehand[e].req : e \in {x \in Ends : ~ehand[x].isCurrent}} \ {NoRequest}
InPlay  == Range(list) \cup Serving \cup Refused

\* The session keeps its promise: requests are taken in the order they were sent, one
\* at a time; each is answered once, unless its caller was terminated, and with
\* Success only by SendReply; all of it with both ends closing at the same time.
Protocol == INSTANCE SessionProtocol WITH
    queue   <- list,
    serving <- Serving,
    refused <- Refused,
    gone    <- {r \in InPlay : heap.req[r].thread \in terminating \cup {NoThread}},
    closed  <- state # "Normal"
ProtocolSpec == Protocol!Spec

\* No request is freed while somebody uses it, and none is leaked; the same for the
\* references a request holds to its thread and its event, which OnClientClosed takes
\* away from a request that a server is still working on.
ReferencesBalance ==
    /\ \A r \in Requests :
           LET q == heap.req[r]
               borrowed == ehand["client"].req = r /\ ehand["client"].isCurrent
           IN  /\ q.refs = Cardinality({c \in Clients : call[c] = r})
                           + (IF r \in InPlay THEN 1 ELSE 0) + (IF borrowed THEN 1 ELSE 0)
               /\ heap.events[r] = (IF q.event THEN 1 ELSE 0)
                           + (IF borrowed /\ ehand["client"].clearedEvent THEN 1 ELSE 0)
    /\ \A c \in Clients :
           heap.threads[c] = Cardinality({r \in Requests : heap.req[r].thread = c})
               + Cardinality({s \in Servers : /\ spc[s] \in {"popped", "receiving", "failed"}
                                              /\ heap.req[hand[s]].thread = c})
               + (IF ehand["client"].cleared = c THEN 1 ELSE 0)
\* No lost wake-up: a server thread sleeps on a session with something to receive, or
\* that is closed, only until OnClientClosed gets to its notification.
SleepingServerHasNoWork ==
    (\E s \in Servers : spc[s] = "asleep") =>
        \/ ~IsSignaled(state, list, current)
        \/ epc["client"] \in {"lock", "loop", "request", "notify"}

\* A caller that waits is waiting for a request that is in play, and a synchronous
\* request in play is that of a thread that waits for it, or is terminating: no reply
\* ends another wait of the thread, and no request that comes while the server end
\* goes is left behind in it.
CallersAndRequestsMatch ==
    /\ \A c \in Clients : cpc[c] = "waiting" => call[c] \in InPlay
    /\ \A r \in InPlay :
           LET t == heap.req[r].thread IN
           \/ heap.req[r].event \/ t \in terminating \cup {NoThread}
           \/ cpc[t] = "waiting" /\ call[t] = r
    /\ epc["server"] = "closed" => list = <<>> /\ current = NoRequest

\* The types, the references, and the pairing of callers and requests.
WellFormed == TypeOK /\ ReferencesBalance /\ CallersAndRequestsMatch

\* Every caller returns once the server end is being destroyed.
CallersAreReleased ==
    \A c \in Clients : cpc[c] # "user" /\ epc["server"] # "open" ~> cpc[c] = "user"
=============================================================================
