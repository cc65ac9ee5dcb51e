----------------------------- MODULE IPCServer -----------------------------
(***************************************************************************)
(* The driver's control pipe (IPCServer): a server thread that accepts     *)
(* connections on a listener, and serves each with one asynchronous read   *)
(* or write at a time, whose completion routines run on that thread in its *)
(* alertable waits.  The main thread starts and stops it.                  *)
(*                                                                         *)
(* What the kernel still owns is the point: an OVERLAPPED must not be      *)
(* freed or reused before its operation has completed, cancelled or not,   *)
(* and a thread that waits for completions must have one to wait for.      *)
(***************************************************************************)
EXTENDS FiniteSets, Integers

CONSTANTS
  Instances,                 \* the PipeInstances there can be at a time
  MaxConcurrentConnections,
  Versions                   \* peers speak, against protocol::Version

ASSUME CapAssumption == MaxConcurrentConnections \in Nat \ {0}
ASSUME VersionsAssumption == "same" \in Versions /\ Versions \subseteq {"same", "other"}

\* How a read can end: with a request, or broken, which is an error or a frame
\* of another size.  (A version probe and an unknown request are answered
\* without any effect, like a state request of another version.)  A write ends
\* written or broken.
Requests == [type : {"handshake", "state"}, version : Versions]
Broken == [type |-> "broken", version |-> "same"]
Written == [type |-> "written", version |-> "same"]
Completions == Requests \cup {Broken}

VARIABLES
  phase,              \* the main thread: "out", "running" or in Stop ("stopping")
  thread,             \* the server thread
  stop, stopEvent,
  listener,           \* listenerPipe: "none" or "open"
  listenerConnectPending,
  connectOwned,       \* the kernel owns connectOverlap
  connectEvent,       \* signalled
  connectFailed,      \* how the listener's connect, when it was pending, ended
  retryLater,         \* nextListenerAttempt is in the future
  pipes,              \* the instances that exist
  closing,            \* those with closing set
  idle,               \* those past ConnectionIdleDeadlineMs
  cancelled,          \* those whose operation CancelIoEx was called on
  io,                 \* the operation each instance's OVERLAPPED is in: the kernel's
                      \* ("reading", "writing"), or ended and its routine queued
                      \* ("read", "written")
  result,             \* and how it completed
  handshakeComplete,
  said,               \* history: the version the peer last shook hands with
  dispatched          \* history: the last request a setter or reader got

mainVars == <<phase, stopEvent>>
connectVars == <<listener, listenerConnectPending, connectOwned, connectEvent, connectFailed>>
listenerVars == <<connectVars, retryLater>>
pipeVars == <<pipes, closing, idle, cancelled, io, result, handshakeComplete, said>>
vars == <<mainVars, thread, stop, listenerVars, pipeVars, dispatched>>

Init ==
  /\ phase = "out" /\ thread = "none" /\ stop = FALSE /\ stopEvent = FALSE
  /\ listener = "none" /\ listenerConnectPending = FALSE /\ connectOwned = FALSE
  /\ connectEvent = FALSE /\ connectFailed = FALSE /\ retryLater = FALSE
  /\ pipes = {} /\ closing = {} /\ idle = {} /\ cancelled = {}
  /\ io = [i \in Instances |-> "none"] /\ result = [i \in Instances |-> Broken]
  /\ handshakeComplete = [i \in Instances |-> FALSE]
  /\ said = [i \in Instances |-> "nothing"]
  /\ dispatched = [said |-> "same", request |-> [type |-> "state", version |-> "same"]]

-----------------------------------------------------------------------------
(* The listener.                                                           *)

\* The connect is left with the kernel, or a client is there at once.
CreateAndConnectInstance ==
  /\ listener' = "open" /\ connectFailed' = FALSE
  /\ \E pending \in BOOLEAN :
       /\ listenerConnectPending' = pending /\ connectOwned' = pending
       /\ connectEvent' = ~pending

\* No pipe, or its connect refused: the OVERLAPPED has been reset all the same.
CreateAndConnectFails ==
  /\ listener' = "none" /\ listenerConnectPending' = FALSE
  /\ connectEvent' = FALSE /\ connectFailed' = FALSE /\ UNCHANGED connectOwned

\* Where a connect is pending, it is cancelled and waited for until the kernel
\* lets go of it; by the flag, which is all the code knows.
CloseListenerInstance(pending) ==
  /\ listener' = "none" /\ listenerConnectPending' = FALSE
  /\ IF listener = "open" /\ pending
       THEN connectOwned' = FALSE /\ connectEvent' = TRUE
       ELSE UNCHANGED <<connectOwned, connectEvent>>
  /\ connectFailed' = FALSE

-----------------------------------------------------------------------------
(* Run and Stop, on the main thread.                                       *)

\* The first listener is made before the thread.  What fails, an event, the
\* listener or the thread, leaves nothing: Stop closes what there is.
Run ==
  /\ phase = "out"
  /\ \/ /\ CreateAndConnectInstance
        /\ phase' = "running" /\ thread' = "top" /\ stop' = FALSE
     \/ /\ CreateAndConnectFails /\ UNCHANGED <<phase, thread>>
        /\ stop' = TRUE
  /\ retryLater' = FALSE
  /\ UNCHANGED <<stopEvent, pipeVars, dispatched>>

SetStop ==
  /\ phase = "running"
  /\ phase' = "stopping" /\ stop' = TRUE
  /\ UNCHANGED <<stopEvent, thread, listenerVars, pipeVars, dispatched>>

SetStopEvent ==
  /\ phase = "stopping" /\ ~stopEvent
  /\ stopEvent' = TRUE
  /\ UNCHANGED <<phase, thread, stop, listenerVars, pipeVars, dispatched>>

Join ==
  /\ phase = "stopping" /\ stopEvent /\ thread = "done"
  /\ phase' = "out" /\ thread' = "none" /\ stopEvent' = FALSE
  /\ CloseListenerInstance(listenerConnectPending)
  /\ UNCHANGED <<stop, retryLater, pipeVars, dispatched>>

-----------------------------------------------------------------------------
(* Instances.                                                              *)

\* The instance is deleted, whatever its OVERLAPPED is in.
ClosePipeInstance(i) ==
  /\ pipes' = pipes \ {i} /\ idle' = idle \ {i} /\ closing' = closing \ {i}
  /\ UNCHANGED cancelled
  /\ handshakeComplete' = [handshakeComplete EXCEPT ![i] = FALSE]
  /\ said' = [said EXCEPT ![i] = "nothing"]

\* The operation that i's routine was called for is over, and i is in `next'.
Begin(i, next) ==
  io' = [io EXCEPT ![i] = next] /\ result' = [result EXCEPT ![i] = Broken]

EndAndClose(i) == Begin(i, "none") /\ ClosePipeInstance(i)

\* i's next operation; starting it may fail, and then i is closed.
StartOrClose(i, operation) ==
  \/ /\ Begin(i, operation) /\ idle' = idle \ {i}
     /\ UNCHANGED <<pipes, closing, cancelled, handshakeComplete, said>>
  \/ EndAndClose(i)

ActiveUnlessClosing(i) == i \notin closing

ActivePipeInstance(i) == i \notin closing /\ ~stop

Alertable == thread \in {"wait", "apc", "drain"}
RunRoutine == Alertable /\ thread' = IF thread = "drain" THEN "drain" ELSE "apc"

\* Any routine that finds its connection closing, or the server stopping.
CompletedInactive(i) ==
  /\ RunRoutine /\ io[i] \in {"read", "written"} /\ ~ActivePipeInstance(i)
  /\ EndAndClose(i)
  /\ UNCHANGED <<mainVars, stop, listenerVars, dispatched>>

CompletedWrite(i) ==
  /\ RunRoutine /\ io[i] = "written" /\ ActivePipeInstance(i)
  /\ \/ result[i] = Written /\ StartOrClose(i, "reading")
     \/ result[i] # Written /\ EndAndClose(i)
  /\ UNCHANGED <<mainVars, stop, listenerVars, dispatched>>

CompletedWithError(i) ==
  /\ RunRoutine /\ io[i] = "read" /\ ActivePipeInstance(i) /\ result[i] = Broken
  /\ EndAndClose(i)
  /\ UNCHANGED <<mainVars, stop, listenerVars, dispatched>>

HandshakeAfter(i) == result[i].version = "same"

\* A handshake, of whatever version, is answered and replaces the last one.
CompletedHandshake(i) ==
  /\ RunRoutine /\ io[i] = "read" /\ ActivePipeInstance(i) /\ result[i].type = "handshake"
  /\ \/ /\ Begin(i, "writing") /\ idle' = idle \ {i}
        /\ handshakeComplete' = [handshakeComplete EXCEPT ![i] = HandshakeAfter(i)]
        /\ said' = [said EXCEPT ![i] = result[i].version]
        /\ UNCHANGED <<pipes, closing, cancelled>>
     \/ EndAndClose(i)
  /\ UNCHANGED <<mainVars, stop, listenerVars, dispatched>>

\* PrepareRequest: what may reach the sink.
Dispatchable(i) ==
  handshakeComplete[i] /\ result[i].version = "same"

\* Dispatched or refused, the request is answered.
CompletedRequest(i) ==
  /\ RunRoutine /\ io[i] = "read" /\ ActivePipeInstance(i)
  /\ result[i].type = "state"
  /\ dispatched' = IF Dispatchable(i) THEN [said |-> said[i], request |-> result[i]]
                                      ELSE dispatched
  /\ StartOrClose(i, "writing")
  /\ UNCHANGED <<mainVars, stop, listenerVars>>

CompletionRoutine(i) ==
  \/ CompletedInactive(i) \/ CompletedWrite(i) \/ CompletedWithError(i)
  \/ CompletedHandshake(i) \/ CompletedRequest(i)

-----------------------------------------------------------------------------
(* RunThread.                                                              *)

\* CancelIoEx finds nothing to cancel where the operation has completed.
CancelIo(who) == cancelled' = cancelled \cup {i \in who : io[i] \in {"reading", "writing"}}

\* Once stop is seen: no new connection, every operation cancelled.
ShutDown ==
  /\ stop' = TRUE /\ thread' = "drain"
  /\ CloseListenerInstance(listenerConnectPending)
  /\ CancelIo(pipes)
  /\ UNCHANGED <<mainVars, retryLater, pipes, closing, idle, io, result, handshakeComplete, said,
                 dispatched>>

SeeStop == thread = "top" /\ stop /\ ShutDown

CreateListener ==
  /\ thread = "top" /\ ~stop /\ listener = "none" /\ ~retryLater
  /\ CreateAndConnectInstance /\ thread' = "wait"
  /\ UNCHANGED <<mainVars, stop, retryLater, pipeVars, dispatched>>

CreateListenerFails ==
  /\ thread = "top" /\ ~stop /\ listener = "none" /\ ~retryLater
  /\ CreateAndConnectFails /\ retryLater' = TRUE /\ thread' = "wait"
  /\ UNCHANGED <<mainVars, stop, pipeVars, dispatched>>

EnterWait ==
  /\ thread = "top" /\ ~stop /\ (listener # "none" \/ retryLater)
  /\ thread' = "wait"
  /\ UNCHANGED <<mainVars, stop, listenerVars, pipeVars, dispatched>>

StopWakes == thread = "wait" /\ stopEvent /\ ShutDown

\* The wait itself fails: the server ends without a Stop.
WaitFails == thread = "wait" /\ ShutDown

CloseIdleDeleting ==
  /\ pipes' = pipes \ idle /\ closing' = closing \ idle /\ idle' = {}
  /\ UNCHANGED <<cancelled, io, result, handshakeComplete, said>>

\* CloseIdleConnections only cancels: the routine that sees the cancelled
\* operation closes.
CloseIdleConnections ==
  /\ closing' = closing \cup idle
  /\ CancelIo(idle \ closing)
  /\ UNCHANGED <<pipes, idle, io, result, handshakeComplete, said>>

Sweep ==
  /\ CloseIdleConnections /\ thread' = "top"
  /\ UNCHANGED <<mainVars, stop, listenerVars, dispatched>>

\* The deadlines of the wait: NextIdleTimeoutMs, and the listener's retry.
IdleDue == idle \ closing # {}

ListenerDueNever == FALSE

ListenerDue == listener = "none" /\ ~retryLater

WaitTimesOut ==
  /\ thread = "wait"
  /\ IdleDue \/ ListenerDue
  /\ Sweep

\* WAIT_IO_COMPLETION: the routines that were queued have run.
RoutinesRan ==
  /\ thread = "apc" /\ \A i \in Instances : io[i] \notin {"read", "written"}
  /\ Sweep

\* The wait returns for connectEvent, unless stopEvent is signalled too.
ListenerWakes == thread = "wait" /\ listener = "open" /\ connectEvent /\ ~stopEvent

\* GetOverlappedResult of the pending connect.
ConnectSucceeded == listenerConnectPending => ~connectOwned /\ ~connectFailed

\* Failed, or ERROR_IO_INCOMPLETE: then it is still pending, and drained.
ConnectFailed ==
  /\ ListenerWakes /\ ~ConnectSucceeded
  /\ CloseListenerInstance(connectOwned)
  /\ retryLater' = IF stop THEN retryLater ELSE TRUE
  /\ thread' = "top"
  /\ UNCHANGED <<mainVars, stop, pipeVars, dispatched>>

TakeConnection ==
  /\ ListenerWakes /\ ConnectSucceeded
  /\ listener' = "none" /\ listenerConnectPending' = FALSE /\ connectFailed' = FALSE
  /\ thread' = "top"
  /\ UNCHANGED <<mainVars, stop, connectOwned, connectEvent, retryLater, dispatched>>

\* Reaped first, then counted: those that only wait for their cancelled
\* operation are not.
OpenWithReaped == Cardinality(pipes)

Open == Cardinality(pipes \ (closing \cup idle))

\* A new instance begins with its first read.
Accept(i) ==
  /\ TakeConnection
  /\ i \notin pipes /\ Open < MaxConcurrentConnections /\ ~stop
  /\ closing' = closing \cup idle /\ CancelIo(idle \ closing)
  /\ pipes' = pipes \cup {i} /\ io' = [io EXCEPT ![i] = "reading"]
  /\ UNCHANGED <<idle, result, handshakeComplete, said>>

\* There is no memory for it, its read does not start, or the server stops: what
\* was made is deleted again.
AcceptFails ==
  /\ TakeConnection /\ Open < MaxConcurrentConnections /\ CloseIdleConnections

\* The peer is turned away: as many as may be are open.
RefuseConnection ==
  /\ TakeConnection /\ Open >= MaxConcurrentConnections /\ CloseIdleConnections

\* Every connection closed: RunThread returns.
Drained ==
  /\ thread = "drain" /\ pipes = {}
  /\ thread' = "done"
  /\ UNCHANGED <<mainVars, stop, listenerVars, pipeVars, dispatched>>

ThreadStep ==
  \/ \E i \in Instances : CompletionRoutine(i) \/ Accept(i)
  \/ SeeStop \/ CreateListener \/ CreateListenerFails \/ EnterWait \/ StopWakes
  \/ WaitTimesOut \/ RoutinesRan \/ ConnectFailed \/ AcceptFails \/ RefuseConnection
  \/ Drained

-----------------------------------------------------------------------------
(* The kernel and the peers.                                               *)

\* A peer connects, or the pending connect fails.
ConnectCompletes ==
  /\ connectOwned
  /\ connectOwned' = FALSE /\ connectEvent' = TRUE /\ connectFailed' \in BOOLEAN
  /\ UNCHANGED <<mainVars, thread, stop, listener, listenerConnectPending, retryLater, pipeVars,
                 dispatched>>

\* The event may be seen before the storage is given back: RunThread provides
\* for ERROR_IO_INCOMPLETE.
ConnectSignals ==
  /\ connectOwned /\ ~connectEvent /\ connectEvent' = TRUE
  /\ UNCHANGED <<mainVars, thread, stop, listener, listenerConnectPending, connectOwned,
                 connectFailed, retryLater, pipeVars, dispatched>>

Completes(i, from, to, c) ==
  /\ io[i] = from
  /\ io' = [io EXCEPT ![i] = to] /\ result' = [result EXCEPT ![i] = c]
  /\ cancelled' = cancelled \ {i}
  /\ UNCHANGED <<mainVars, thread, stop, listenerVars, pipes, closing, idle, handshakeComplete,
                 said, dispatched>>

ReadCompletes(i) == \E c \in Completions : Completes(i, "reading", "read", c)
WriteCompletes(i) == \E c \in {Written, Broken} : Completes(i, "writing", "written", c)

\* A cancellation takes effect: asynchronously, so the operation may still
\* complete first.
Cancelled(i) ==
  /\ i \in cancelled
  /\ Completes(i, "reading", "read", Broken) \/ Completes(i, "writing", "written", Broken)

\* Time.
GoIdle(i) ==
  /\ i \in pipes \ (closing \cup idle)
  /\ idle' = idle \cup {i}
  /\ UNCHANGED <<mainVars, thread, stop, listenerVars, pipes, closing, cancelled, io, result,
                 handshakeComplete, said, dispatched>>

RetryDue ==
  /\ retryLater /\ retryLater' = FALSE
  /\ UNCHANGED <<mainVars, thread, stop, connectVars, pipeVars, dispatched>>

-----------------------------------------------------------------------------

Next ==
  \/ Run \/ SetStop \/ SetStopEvent \/ Join \/ ThreadStep \/ WaitFails
  \/ ConnectCompletes \/ ConnectSignals \/ RetryDue
  \/ \E i \in Instances : ReadCompletes(i) \/ WriteCompletes(i) \/ Cancelled(i) \/ GoIdle(i)

Spec == Init /\ [][Next]_vars

\* The threads run, cancelled operations complete, time passes.  Strong
\* fairness says what a flood could prevent: that connections do not come in so
\* fast that the wait never runs a queued routine or times out, that peers do
\* not keep the queue of routines non-empty for ever, and that making a
\* listener does not fail for ever.  Nothing else is assumed of the peers.
FairSpec ==
  /\ Spec
  /\ WF_vars(ThreadStep) /\ WF_vars(SetStopEvent) /\ WF_vars(Join) /\ WF_vars(RetryDue)
  /\ \A i \in Instances : WF_vars(Cancelled(i)) /\ SF_vars(CompletionRoutine(i))
  /\ SF_vars(WaitTimesOut) /\ SF_vars(RoutinesRan) /\ SF_vars(CreateListener)

-----------------------------------------------------------------------------
(* Properties.                                                             *)

\* Every variable has its type; only instances that exist are idle or
\* closing, and only their operations under way are cancelled.
TypeOK ==
  /\ phase \in {"out", "running", "stopping"}
  /\ thread \in {"none", "top", "wait", "apc", "drain", "done"}
  /\ stop \in BOOLEAN /\ stopEvent \in BOOLEAN /\ retryLater \in BOOLEAN
  /\ listener \in {"none", "open"} /\ listenerConnectPending \in BOOLEAN
  /\ connectOwned \in BOOLEAN /\ connectEvent \in BOOLEAN /\ connectFailed \in BOOLEAN
  /\ pipes \subseteq Instances /\ closing \subseteq pipes /\ idle \subseteq pipes
  /\ cancelled \subseteq {i \in pipes : io[i] \in {"reading", "writing"}}
  /\ io \in [Instances -> {"none", "reading", "read", "writing", "written"}]
  /\ result \in [Instances -> Completions \cup {Written}]
  /\ handshakeComplete \in [Instances -> BOOLEAN]
  /\ said \in [Instances -> Versions \cup {"nothing"}]
  /\ dispatched \in [said : Versions \cup {"nothing"}, request : Requests]

\* An OVERLAPPED the kernel has, or whose routine is queued, belongs to an instance
\* that exists: closing never frees one before its routine ran, and every instance
\* has the operation whose completion can close it ("exactly one APC-style read/write
\* outstanding", RunThread).  And while the kernel has connectOverlap the listener is
\* open and known to be pending, so the next accept, Stop and the thread's end drain
\* it before they reuse or leave it.
OverlappedOwned ==
  /\ \A i \in Instances : io[i] # "none" <=> i \in pipes
  /\ connectOwned => listener = "open" /\ listenerConnectPending

\* At most MaxConcurrentConnections are open, however many still wait for
\* their cancelled operation.
OpenWithinCap == Cardinality(pipes \ closing) <= MaxConcurrentConnections

\* A request reaches the driver's state only from a peer whose latest
\* handshake, and whose request, carry the driver's version.
DispatchGated == dispatched.said = "same" /\ dispatched.request.version = "same"

\* With the thread joined, nothing of it is left, and nothing is the kernel's.
StoppedIsClean ==
  thread \in {"none", "done"} =>
    /\ pipes = {} /\ listener = "none" /\ ~connectOwned
    /\ \A i \in Instances : io[i] = "none"

\* "A stale connection can never be what refuses the real client" (RunThread): a
\* peer is turned away only while exactly MaxConcurrentConnections are in use,
\* where one past its idle deadline is in use no more, whether it has been reaped,
\* waits for its cancelled operation or was not noticed yet.
StaleNeverRefuses ==
  [][RefuseConnection => Cardinality(pipes \ idle) = MaxConcurrentConnections]_vars

\* Stop returns, whatever the peers do with their connections.
StopReturns == []<>(phase # "stopping")

\* Two things no event ends, only a deadline of the wait: a running server that lost
\* its listener does not wait for ever without one (nextListenerAttempt), and a peer that
\* connected and fell silent does not keep its connection (NextIdleTimeoutMs).
DeadlinesKept ==
  /\ []<>(~(thread = "wait" /\ listener = "none") \/ stop)
  /\ \A i \in Instances : []<>(i \notin idle)

=============================================================================
