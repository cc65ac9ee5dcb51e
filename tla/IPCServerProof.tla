--------------------------- MODULE IPCServerProof ---------------------------
(***************************************************************************)
(* The safety of IPCServer for any number of instances and any cap.        *)
(***************************************************************************)
EXTENDS IPCServer, FiniteSetTheorems, TLAPS

\* Who has a thread; and past the loop there is no listener.
ThreadInv ==
  /\ phase = "out" <=> thread = "none"
  /\ thread \in {"none", "drain", "done"} => listener = "none"
  /\ thread \in {"none", "done"} => pipes = {}

\* What the gate remembers of a peer is what the peer last said.
GateInv == \A i \in Instances : handshakeComplete[i] => said[i] = "same"

CapInv == IsFiniteSet(pipes) /\ OpenWithinCap

\* Only a connection past its deadline is dropped, and a dropped one stays so.
DroppedInv == closing \subseteq idle

-----------------------------------------------------------------------------

LEMMA NextCases ==
  ASSUME Next
  PROVE  \/ Run \/ SetStop \/ SetStopEvent \/ Join
         \/ ShutDown /\ thread \in {"top", "wait"}
         \/ CreateListener \/ CreateListenerFails \/ EnterWait
         \/ Sweep /\ thread \in {"wait", "apc"}
         \/ ConnectFailed \/ AcceptFails \/ RefuseConnection \/ Drained
         \/ ConnectCompletes \/ ConnectSignals \/ RetryDue
         \/ \E i \in Instances :
              \/ CompletedInactive(i) \/ CompletedWrite(i) \/ CompletedWithError(i)
              \/ CompletedHandshake(i) \/ CompletedRequest(i) \/ Accept(i) \/ GoIdle(i)
         \/ \E i \in Instances, c \in Completions \cup {Written} :
              Completes(i, "reading", "read", c) \/ Completes(i, "writing", "written", c)
  BY DEF Next, ThreadStep, CompletionRoutine, SeeStop, StopWakes, WaitFails, WaitTimesOut, RoutinesRan,
     ReadCompletes, WriteCompletes, Cancelled, Completions

\* A routine closes its connection, or starts its next operation.
LEMMA RoutineOutcomes ==
  ASSUME NEW i \in Instances,
         \/ CompletedInactive(i) \/ CompletedWrite(i) \/ CompletedWithError(i)
         \/ CompletedHandshake(i) \/ CompletedRequest(i)
  PROVE  /\ io[i] \in {"read", "written"}
         /\ thread \in {"wait", "apc", "drain"}
         /\ thread' = IF thread = "drain" THEN "drain" ELSE "apc"
         /\ UNCHANGED <<mainVars, stop, listenerVars>>
         /\ \/ EndAndClose(i)
            \/ /\ Begin(i, "reading") \/ Begin(i, "writing")
               /\ idle' = idle \ {i} /\ i \notin closing
               /\ UNCHANGED <<pipes, closing, cancelled>>
               /\ \/ UNCHANGED <<handshakeComplete, said>>
                  \/ /\ result[i].type = "handshake"
                     /\ handshakeComplete' = [handshakeComplete EXCEPT ![i] = HandshakeAfter(i)]
                     /\ said' = [said EXCEPT ![i] = result[i].version]
         /\ dispatched' = dispatched \/
            (/\ Dispatchable(i) /\ result[i].type = "state"
             /\ dispatched' = [said |-> said[i], request |-> result[i]])
  BY DEF CompletedInactive, CompletedWrite, CompletedWithError, CompletedHandshake, CompletedRequest,
     StartOrClose, RunRoutine, Alertable, ActivePipeInstance

\* What the listener's OVERLAPPED goes through: it is left alone, connected anew
\* where the kernel does not have it, or given back.
LEMMA ListenerOutcomes ==
  ASSUME TypeOK, OverlappedOwned, ThreadInv, Next
  PROVE  /\ listener' \in {"none", "open"} /\ listenerConnectPending' \in BOOLEAN
         /\ connectOwned' \in BOOLEAN /\ connectEvent' \in BOOLEAN /\ connectFailed' \in BOOLEAN
         /\ connectOwned' => listener' = "open" /\ listenerConnectPending'
<1> USE DEF connectVars, listenerVars
<1> DEFINE Good == /\ listener' \in {"none", "open"} /\ listenerConnectPending' \in BOOLEAN
                   /\ connectOwned' \in BOOLEAN /\ connectEvent' \in BOOLEAN
                   /\ connectFailed' \in BOOLEAN
                   /\ connectOwned' => listener' = "open" /\ listenerConnectPending'
<1>1. /\ listener \in {"none", "open"} /\ listenerConnectPending \in BOOLEAN
      /\ connectOwned \in BOOLEAN /\ connectEvent \in BOOLEAN /\ connectFailed \in BOOLEAN
      /\ connectOwned => listener = "open" /\ listenerConnectPending
  BY DEF TypeOK, OverlappedOwned
<1>2. CASE UNCHANGED connectVars
  BY <1>1, <1>2, Zenon
<1>3. CASE CreateAndConnectInstance
  <2>1. PICK pending \in BOOLEAN :
          /\ listenerConnectPending' = pending /\ connectOwned' = pending
          /\ connectEvent' = ~pending
    BY <1>3 DEF CreateAndConnectInstance
  <2>2. listener' = "open" /\ connectFailed' = FALSE
    BY <1>3 DEF CreateAndConnectInstance
  <2>3. connectOwned' \in BOOLEAN /\ connectEvent' \in BOOLEAN /\ listenerConnectPending' \in BOOLEAN
    <3>1. CASE pending = TRUE
      BY <2>1, <3>1, Zenon
    <3>2. CASE pending = FALSE
      BY <2>1, <3>2, Zenon
    <3> QED
      BY <3>1, <3>2
  <2>4. connectOwned' => listenerConnectPending'
    BY <2>1, Zenon
  <2> QED
    BY <2>2, <2>3, <2>4, Zenon
<1>4. CASE CreateAndConnectFails /\ listener = "none"
  <2>1. /\ listener' = "none" /\ listenerConnectPending' = FALSE /\ connectEvent' = FALSE
        /\ connectFailed' = FALSE /\ connectOwned' = connectOwned
    BY <1>4 DEF CreateAndConnectFails
  <2>2. ~connectOwned
    BY <1>1, <1>4
  <2>3. connectOwned' = FALSE
    BY <1>1, <2>1, <2>2
  <2> QED
    BY <2>1, <2>3, Zenon
<1>5. ASSUME NEW pending \in BOOLEAN, CloseListenerInstance(pending), connectOwned => pending
      PROVE  Good
  <2>1. /\ listener' = "none" /\ listenerConnectPending' = FALSE /\ connectFailed' = FALSE
        /\ IF listener = "open" /\ pending
             THEN connectOwned' = FALSE /\ connectEvent' = TRUE
             ELSE connectOwned' = connectOwned /\ connectEvent' = connectEvent
    BY <1>5 DEF CloseListenerInstance
  <2>2. connectOwned' = FALSE /\ connectEvent' \in BOOLEAN
    <3>1. CASE listener = "open" /\ pending
      BY <2>1, <3>1, Zenon
    <3>2. CASE ~(listener = "open" /\ pending)
      <4>1. connectOwned' = connectOwned /\ connectEvent' = connectEvent
        BY <2>1, <3>2, Zenon
      <4>2. ~connectOwned
        BY <1>1, <1>5, <3>2
      <4> QED
        BY <1>1, <4>1, <4>2, Zenon
    <3> QED
      BY <3>1, <3>2
  <2> QED
    BY <2>1, <2>2, Zenon
<1>6. CASE ConnectFailed
  BY <1>1, <1>5, <1>6 DEF ConnectFailed
<1>7. CASE CloseListenerInstance(listenerConnectPending)
  BY <1>1, <1>5, <1>7
<1>8. CASE TakeConnection
  <2>1. /\ listener' = "none" /\ listenerConnectPending' = FALSE /\ connectFailed' = FALSE
        /\ connectOwned' = connectOwned /\ connectEvent' = connectEvent
        /\ listenerConnectPending => ~connectOwned
    BY <1>8 DEF TakeConnection, ConnectSucceeded
  <2>2. ~connectOwned
    BY <1>1, <2>1
  <2> QED
    BY <1>1, <2>1, <2>2, Zenon
<1>9. CASE ConnectCompletes \/ ConnectSignals
  <2>1. /\ UNCHANGED <<listener, listenerConnectPending>> /\ connectEvent' = TRUE
        /\ \/ connectOwned' = FALSE /\ connectFailed' \in BOOLEAN
           \/ UNCHANGED <<connectOwned, connectFailed>>
    BY <1>9 DEF ConnectCompletes, ConnectSignals
  <2>2. CASE connectOwned' = FALSE /\ connectFailed' \in BOOLEAN
    BY <1>1, <2>1, <2>2, Zenon
  <2>3. CASE UNCHANGED <<connectOwned, connectFailed>>
    <3>1. connectOwned' = connectOwned /\ connectFailed' = connectFailed
      BY <2>3
    <3>2. listener' = listener /\ listenerConnectPending' = listenerConnectPending
      BY <2>1
    <3>3. connectEvent' \in BOOLEAN
      BY <2>1, Zenon
    <3>4. connectOwned' \in BOOLEAN /\ connectFailed' \in BOOLEAN
          /\ listenerConnectPending' \in BOOLEAN
      BY <1>1, <3>1, <3>2, Zenon
    <3>5. connectOwned' => connectOwned
      BY <3>1, Zenon
    <3>6. connectOwned' => listener' = "open" /\ listenerConnectPending'
      BY <1>1, <3>2, <3>5, Zenon
    <3> QED
      BY <1>1, <3>2, <3>3, <3>4, <3>6, Zenon
  <2> QED
    BY <2>1, <2>2, <2>3, Zenon
<1>10. \/ UNCHANGED connectVars \/ CreateAndConnectInstance
       \/ (CreateAndConnectFails /\ listener = "none") \/ ConnectFailed
       \/ CloseListenerInstance(listenerConnectPending) \/ TakeConnection
       \/ ConnectCompletes \/ ConnectSignals
  BY NextCases DEF ThreadInv, Run, SetStop, SetStopEvent, Join, ShutDown, CreateListener,
     CreateListenerFails, EnterWait, Sweep, AcceptFails, RefuseConnection, Drained, RetryDue, Accept, GoIdle, Completes,
     CompletedInactive, CompletedWrite, CompletedWithError, CompletedHandshake, CompletedRequest
<1> QED
  BY <1>2, <1>3, <1>4, <1>6, <1>7, <1>8, <1>9, <1>10

LEMMA TypeInit == Init => TypeOK
  <1> SUFFICES ASSUME Init PROVE TypeOK
    OBVIOUS
  <1>1. /\ handshakeComplete \in [Instances -> BOOLEAN]
        /\ stop \in BOOLEAN /\ stopEvent \in BOOLEAN /\ retryLater \in BOOLEAN
        /\ listenerConnectPending \in BOOLEAN /\ connectOwned \in BOOLEAN
        /\ connectEvent \in BOOLEAN /\ connectFailed \in BOOLEAN
    BY ZenonT(20) DEF Init
  <1>2. dispatched \in [said : Versions \cup {"nothing"}, request : Requests]
    BY VersionsAssumption DEF Init, Requests
  <1> QED
    BY <1>1, <1>2 DEF Init, TypeOK, Completions, Broken

LEMMA TypeStep == TypeOK /\ OverlappedOwned /\ ThreadInv /\ [Next]_vars => TypeOK'
  <1> SUFFICES ASSUME TypeOK, OverlappedOwned, ThreadInv, [Next]_vars PROVE TypeOK'
    OBVIOUS
  <1> USE DEF mainVars, pipeVars
  <1> DEFINE Connects ==
               /\ listener' \in {"none", "open"} /\ listenerConnectPending' \in BOOLEAN
               /\ connectOwned' \in BOOLEAN /\ connectEvent' \in BOOLEAN
               /\ connectFailed' \in BOOLEAN
             Places == /\ phase' \in {"out", "running", "stopping"}
                       /\ thread' \in {"none", "top", "wait", "apc", "drain", "done"}
             Flags == stop' \in BOOLEAN /\ stopEvent' \in BOOLEAN /\ retryLater' \in BOOLEAN
             Pipes == /\ pipes' \subseteq Instances /\ closing' \subseteq pipes' /\ idle' \subseteq pipes'
                      /\ cancelled' \subseteq {i \in pipes' : io'[i] \in {"reading", "writing"}}
             Operations == /\ io' \in [Instances -> {"none", "reading", "read", "writing", "written"}]
                           /\ result' \in [Instances -> Completions \cup {Written}]
             Peers == /\ handshakeComplete' \in [Instances -> BOOLEAN]
                      /\ said' \in [Instances -> Versions \cup {"nothing"}]
                      /\ dispatched' \in [said : Versions \cup {"nothing"}, request : Requests]
  <1>0. ASSUME Connects, Places, Flags, Pipes, Operations, Peers PROVE TypeOK'
    BY <1>0, Zenon DEF TypeOK
  <1>1. CASE UNCHANGED vars
    BY <1>1 DEF vars, listenerVars, connectVars, TypeOK
  <1>2. CASE Next
    <2>1. Connects
      BY <1>2, ListenerOutcomes
    <2>2. Places
      BY <1>2, NextCases, RoutineOutcomes DEF TypeOK, Run, SetStop, SetStopEvent, Join, ShutDown, CreateListener,
         CreateListenerFails, EnterWait, Sweep, ConnectFailed, AcceptFails, RefuseConnection,
         TakeConnection, Drained, ConnectCompletes, ConnectSignals, RetryDue, Accept, GoIdle, Completes
    <2>3. Flags
      <3>1. /\ stop' \in {stop, TRUE, FALSE} /\ stopEvent' \in {stopEvent, TRUE, FALSE}
            /\ retryLater' \in {retryLater, TRUE, FALSE}
        BY <1>2, NextCases, RoutineOutcomes DEF Run, SetStop, SetStopEvent, Join, ShutDown, CreateListener,
           CreateListenerFails, EnterWait, Sweep, ConnectFailed, AcceptFails, RefuseConnection,
           TakeConnection, Drained, ConnectCompletes, ConnectSignals, RetryDue, Accept, GoIdle,
           Completes, listenerVars
      <3> QED
        BY <3>1, Zenon DEF TypeOK
    <2>4. CASE \/ Run \/ SetStop \/ SetStopEvent \/ Join \/ CreateListener \/ CreateListenerFails
               \/ EnterWait \/ ConnectFailed \/ Drained \/ ConnectCompletes \/ ConnectSignals \/ RetryDue
      <3>1. UNCHANGED <<pipeVars, dispatched>>
        BY <2>4 DEF Run, SetStop, SetStopEvent, Join, CreateListener, CreateListenerFails, EnterWait,
           ConnectFailed, Drained, ConnectCompletes, ConnectSignals, RetryDue
      <3> QED
        BY <1>0, <2>1, <2>2, <2>3, <3>1 DEF TypeOK
    <2>5. CASE ShutDown \/ Sweep \/ AcceptFails \/ RefuseConnection
      <3>1. /\ closing' \in {closing, closing \cup idle}
            /\ \E who \in {pipes, idle \ closing} : CancelIo(who)
            /\ UNCHANGED <<pipes, idle, io, result, handshakeComplete, said, dispatched>>
        BY <2>5 DEF ShutDown, Sweep, AcceptFails, RefuseConnection, TakeConnection,
           CloseIdleConnections
      <3>2. Pipes
        BY <3>1 DEF TypeOK, CancelIo
      <3>3. Operations /\ Peers
        BY <3>1 DEF TypeOK
      <3> QED
        BY <1>0, <2>1, <2>2, <2>3, <3>2, <3>3
    <2>6. ASSUME NEW i \in Instances, Accept(i) PROVE TypeOK'
      <3>1. /\ closing' = closing \cup idle /\ CancelIo(idle \ closing)
            /\ pipes' = pipes \cup {i} /\ io' = [io EXCEPT ![i] = "reading"]
            /\ UNCHANGED <<idle, result, handshakeComplete, said, dispatched>>
            /\ i \notin pipes
        BY <2>6 DEF Accept, TakeConnection
      <3>2. Pipes
        BY <3>1 DEF TypeOK, CancelIo
      <3>3. Operations /\ Peers
        BY <3>1 DEF TypeOK
      <3> QED
        BY <1>0, <2>1, <2>2, <2>3, <3>2, <3>3
    <2>7. ASSUME NEW i \in Instances, GoIdle(i) PROVE TypeOK'
      <3>1. /\ idle' = idle \cup {i} /\ i \in pipes
            /\ UNCHANGED <<pipes, closing, cancelled, io, result, handshakeComplete, said, dispatched>>
        BY <2>7 DEF GoIdle
      <3>2. Pipes /\ Operations /\ Peers
        BY <3>1 DEF TypeOK
      <3> QED
        BY <1>0, <2>1, <2>2, <2>3, <3>2
    <2>8. ASSUME NEW i \in Instances, NEW c \in Completions \cup {Written},
                 Completes(i, "reading", "read", c) \/ Completes(i, "writing", "written", c)
          PROVE  TypeOK'
      <3>1. /\ io' \in {[io EXCEPT ![i] = "read"], [io EXCEPT ![i] = "written"]}
            /\ result' = [result EXCEPT ![i] = c] /\ cancelled' = cancelled \ {i}
            /\ UNCHANGED <<pipes, closing, idle, handshakeComplete, said, dispatched>>
        BY <2>8 DEF Completes
      <3>2. Pipes
        BY <3>1 DEF TypeOK
      <3>3. Operations /\ Peers
        BY <3>1 DEF TypeOK
      <3> QED
        BY <1>0, <2>1, <2>2, <2>3, <3>2, <3>3
    <2>9. ASSUME NEW i \in Instances,
                 \/ CompletedInactive(i) \/ CompletedWrite(i) \/ CompletedWithError(i)
                 \/ CompletedHandshake(i) \/ CompletedRequest(i)
          PROVE  TypeOK'
      <3>1. Pipes
        <4>1. i \notin cancelled /\ cancelled' = cancelled
          BY <2>9, RoutineOutcomes DEF TypeOK, EndAndClose, ClosePipeInstance
        <4>2. \A j \in Instances \ {i} : io'[j] = io[j] /\ (j \in pipes => j \in pipes')
          BY <2>9, RoutineOutcomes DEF TypeOK, EndAndClose, Begin, ClosePipeInstance
        <4>3. pipes' \subseteq Instances /\ closing' \subseteq pipes' /\ idle' \subseteq pipes'
          BY <2>9, RoutineOutcomes DEF TypeOK, EndAndClose, ClosePipeInstance
        <4> QED
          BY <4>1, <4>2, <4>3 DEF TypeOK
      <3>2. Operations
        BY <2>9, RoutineOutcomes DEF TypeOK, EndAndClose, Begin, Completions
      <3>3. Peers
        <4>1. HandshakeAfter(i) \in BOOLEAN
          BY DEF HandshakeAfter
        <4>2. handshakeComplete' \in [Instances -> BOOLEAN]
          <5>1. /\ handshakeComplete \in [Instances -> BOOLEAN]
                /\ \/ handshakeComplete' = handshakeComplete
                   \/ handshakeComplete' = [handshakeComplete EXCEPT ![i] = FALSE]
                   \/ handshakeComplete' = [handshakeComplete EXCEPT ![i] = HandshakeAfter(i)]
            BY <2>9, RoutineOutcomes DEF TypeOK, EndAndClose, ClosePipeInstance
          <5> QED
            BY ONLY <4>1, <5>1, Zenon
        <4>3. result[i].type = "handshake" => result[i].version \in Versions
          BY DEF TypeOK, Completions, Requests, Broken, Written
        <4>4. said' \in [Instances -> Versions \cup {"nothing"}]
          BY <2>9, <4>3, RoutineOutcomes DEF TypeOK, EndAndClose, ClosePipeInstance
        <4>5. result[i].type = "state" => result[i] \in Requests
          BY DEF TypeOK, Completions, Requests, Broken, Written
        <4>6. dispatched' \in [said : Versions \cup {"nothing"}, request : Requests]
          BY <2>9, <4>5, RoutineOutcomes DEF TypeOK
        <4> QED
          BY <4>2, <4>4, <4>6
      <3> QED
        BY <1>0, <2>1, <2>2, <2>3, <3>1, <3>2, <3>3
    <2> QED
      BY <1>2, <2>4, <2>5, <2>6, <2>7, <2>8, <2>9, NextCases
  <1> QED
    BY <1>1, <1>2

-----------------------------------------------------------------------------
(* Ownership, and the order of the thread's life.                          *)

LEMMA OwnedStep == TypeOK /\ OverlappedOwned /\ ThreadInv /\ [Next]_vars
                     => OverlappedOwned' /\ ThreadInv'
  <1> SUFFICES ASSUME TypeOK, OverlappedOwned, ThreadInv, [Next]_vars
               PROVE  OverlappedOwned' /\ ThreadInv'
    OBVIOUS
  <1> USE DEF mainVars, pipeVars
  <1>1. CASE UNCHANGED vars
    BY <1>1 DEF vars, listenerVars, connectVars, OverlappedOwned, ThreadInv
  <1>2. CASE Next
    <2>1. connectOwned' => listener' = "open" /\ listenerConnectPending'
      BY <1>2, ListenerOutcomes
    <2>2. \A i \in Instances : io'[i] # "none" <=> i \in pipes'
      <3>1. CASE UNCHANGED <<pipes, io>>
        BY <3>1 DEF OverlappedOwned
      <3>2. ASSUME NEW i \in Instances, Accept(i)
            PROVE  \A j \in Instances : io'[j] # "none" <=> j \in pipes'
        BY <3>2 DEF Accept, TypeOK, OverlappedOwned
      <3>3. ASSUME NEW i \in Instances, NEW c \in Completions \cup {Written},
                   Completes(i, "reading", "read", c) \/ Completes(i, "writing", "written", c)
            PROVE  \A j \in Instances : io'[j] # "none" <=> j \in pipes'
        BY <3>3 DEF Completes, TypeOK, OverlappedOwned
      <3>4. ASSUME NEW i \in Instances,
                   \/ CompletedInactive(i) \/ CompletedWrite(i) \/ CompletedWithError(i)
                   \/ CompletedHandshake(i) \/ CompletedRequest(i)
            PROVE  \A j \in Instances : io'[j] # "none" <=> j \in pipes'
        <4>1. \/ pipes' = pipes \ {i} /\ io' = [io EXCEPT ![i] = "none"]
              \/ /\ pipes' = pipes
                 /\ io' \in {[io EXCEPT ![i] = "reading"], [io EXCEPT ![i] = "writing"]}
          BY <3>4, RoutineOutcomes DEF EndAndClose, Begin, ClosePipeInstance
        <4>2. i \in pipes
          BY <3>4, RoutineOutcomes DEF OverlappedOwned
        <4> QED
          BY <4>1, <4>2 DEF TypeOK, OverlappedOwned
      <3>5. CASE \/ Run \/ SetStop \/ SetStopEvent \/ Join \/ ShutDown \/ CreateListener
                 \/ CreateListenerFails \/ EnterWait \/ Sweep \/ ConnectFailed \/ AcceptFails
                 \/ RefuseConnection \/ Drained \/ ConnectCompletes \/ ConnectSignals \/ RetryDue
                 \/ \E i \in Instances : GoIdle(i)
        <4>1. UNCHANGED <<pipes, io>>
          BY <3>5 DEF Run, SetStop, SetStopEvent, Join, ShutDown, CreateListener,
             CreateListenerFails, EnterWait, Sweep, ConnectFailed, AcceptFails, RefuseConnection,
             CloseIdleConnections, Drained, ConnectCompletes, ConnectSignals, RetryDue, GoIdle
        <4> QED
          BY <3>1, <4>1
      <3> QED
        BY <1>2, <3>2, <3>3, <3>4, <3>5, NextCases
    <2>3. ThreadInv'
      <3>1. CASE Run \/ SetStop \/ SetStopEvent \/ Join
        BY <3>1 DEF ThreadInv, TypeOK, Run, SetStop, SetStopEvent, Join, CreateAndConnectInstance,
           CreateAndConnectFails, CloseListenerInstance, listenerVars, connectVars
      <3>2. CASE ShutDown /\ thread \in {"top", "wait"}
        BY <3>2 DEF ThreadInv, ShutDown, CloseListenerInstance
      <3>3. CASE \/ CreateListener \/ CreateListenerFails \/ EnterWait
                 \/ (Sweep /\ thread \in {"wait", "apc"}) \/ ConnectFailed \/ AcceptFails
                 \/ RefuseConnection \/ \E i \in Instances : Accept(i)
        <4>1. /\ thread \in {"top", "wait", "apc"} /\ thread' \in {"top", "wait"} /\ phase' = phase
          BY <3>3 DEF CreateListener, CreateListenerFails, EnterWait, Sweep, ConnectFailed,
             AcceptFails, RefuseConnection, TakeConnection, ListenerWakes, Accept
        <4> QED
          BY <4>1 DEF ThreadInv
      <3>4. CASE Drained
        BY <3>4 DEF ThreadInv, Drained, listenerVars, connectVars
      <3>5. CASE ConnectCompletes \/ ConnectSignals \/ RetryDue
        BY <3>5 DEF ThreadInv, ConnectCompletes, ConnectSignals, RetryDue, connectVars
      <3>6. ASSUME NEW i \in Instances,
                   \/ CompletedInactive(i) \/ CompletedWrite(i) \/ CompletedWithError(i)
                   \/ CompletedHandshake(i) \/ CompletedRequest(i)
            PROVE  ThreadInv'
        <4>1. /\ thread \in {"wait", "apc", "drain"}
              /\ thread' = IF thread = "drain" THEN "drain" ELSE "apc"
              /\ UNCHANGED <<phase, listener>>
          BY <3>6, RoutineOutcomes DEF listenerVars, connectVars
        <4> QED
          BY <4>1 DEF ThreadInv
      <3>7. ASSUME NEW i \in Instances, GoIdle(i) PROVE ThreadInv'
        BY <3>7 DEF ThreadInv, GoIdle, listenerVars, connectVars
      <3>8. ASSUME NEW i \in Instances, NEW c \in Completions \cup {Written},
                   Completes(i, "reading", "read", c) \/ Completes(i, "writing", "written", c)
            PROVE  ThreadInv'
        BY <3>8 DEF ThreadInv, Completes, listenerVars, connectVars
      <3> QED
        BY <1>2, <3>1, <3>2, <3>3, <3>4, <3>5, <3>6, <3>7, <3>8, NextCases
    <2> QED
      BY <2>1, <2>2, <2>3 DEF OverlappedOwned
  <1> QED
    BY <1>1, <1>2

LEMMA OwnedInit == Init => OverlappedOwned /\ ThreadInv
  BY DEF Init, OverlappedOwned, ThreadInv

-----------------------------------------------------------------------------
(* The gate.                                                               *)

LEMMA GateStep == TypeOK /\ GateInv /\ DispatchGated /\ [Next]_vars => GateInv' /\ DispatchGated'
  <1> SUFFICES ASSUME TypeOK, GateInv, DispatchGated, [Next]_vars PROVE GateInv' /\ DispatchGated'
    OBVIOUS
  <1>1. CASE UNCHANGED <<handshakeComplete, said, dispatched>>
    BY <1>1 DEF GateInv, DispatchGated
  <1>2. ASSUME NEW i \in Instances,
               \/ CompletedInactive(i) \/ CompletedWrite(i) \/ CompletedWithError(i)
               \/ CompletedHandshake(i) \/ CompletedRequest(i)
        PROVE  GateInv' /\ DispatchGated'
    <2>1. GateInv'
      <3>0. handshakeComplete \in [Instances -> BOOLEAN] /\ DOMAIN said = Instances
        BY Zenon DEF TypeOK
      <3>1. CASE UNCHANGED <<handshakeComplete, said>>
        BY <3>1 DEF GateInv
      <3>2. CASE EndAndClose(i)
        <4>1. handshakeComplete' = [handshakeComplete EXCEPT ![i] = FALSE]
          BY <3>2 DEF EndAndClose, ClosePipeInstance
        <4>2. ~handshakeComplete'[i] /\ \A j \in Instances : j # i => handshakeComplete'[j] = handshakeComplete[j]
          BY <3>0, <4>1, Zenon
        <4>3. said' = [said EXCEPT ![i] = "nothing"]
          BY <3>2 DEF EndAndClose, ClosePipeInstance
        <4>4. \A j \in Instances : j # i => said'[j] = said[j]
          BY <4>3, Zenon DEF TypeOK
        <4> QED
          BY <4>2, <4>4, Zenon DEF GateInv
      <3>3. CASE /\ handshakeComplete' = [handshakeComplete EXCEPT ![i] = HandshakeAfter(i)]
                 /\ said' = [said EXCEPT ![i] = result[i].version]
        <4>1. /\ handshakeComplete'[i] = (result[i].version = "same")
              /\ \A j \in Instances : j # i => handshakeComplete'[j] = handshakeComplete[j]
          BY <3>0, <3>3, Zenon DEF HandshakeAfter
        <4>2. said'[i] = result[i].version /\ \A j \in Instances : j # i => said'[j] = said[j]
          BY <3>0, <3>3, Zenon
        <4> QED
          BY <4>1, <4>2, Zenon DEF GateInv
      <3> QED
        BY <1>2, <3>1, <3>2, <3>3, RoutineOutcomes
    <2>2. DispatchGated'
      <3>1. CASE dispatched' = dispatched
        BY <3>1 DEF DispatchGated
      <3>2. CASE Dispatchable(i) /\ dispatched' = [said |-> said[i], request |-> result[i]]
        BY <3>2 DEF DispatchGated, Dispatchable, GateInv
      <3> QED
        BY <1>2, <3>1, <3>2, RoutineOutcomes
    <2> QED
      BY <2>1, <2>2
  <1>3. \/ UNCHANGED <<handshakeComplete, said, dispatched>>
        \/ \E i \in Instances : \/ CompletedInactive(i) \/ CompletedWrite(i) \/ CompletedWithError(i)
                               \/ CompletedHandshake(i) \/ CompletedRequest(i)
    BY NextCases DEF vars, pipeVars, Run, SetStop, SetStopEvent, Join, ShutDown, CreateListener,
       CreateListenerFails, EnterWait, Sweep, CloseIdleConnections, ConnectFailed, AcceptFails,
       RefuseConnection, TakeConnection, Drained, ConnectCompletes, ConnectSignals, RetryDue, Accept,
       GoIdle, Completes
  <1> QED
    BY <1>1, <1>2, <1>3

LEMMA GateInit == Init => GateInv /\ DispatchGated
  <1> SUFFICES ASSUME Init PROVE GateInv /\ DispatchGated
    OBVIOUS
  <1>1. \A i \in Instances : ~handshakeComplete[i]
    BY ZenonT(20) DEF Init
  <1>2. DispatchGated
    BY DEF Init, DispatchGated
  <1> QED
    BY <1>1, <1>2, Zenon DEF GateInv

-----------------------------------------------------------------------------
(* The cap.                                                                *)

LEMMA CapStep == TypeOK /\ CapInv /\ DroppedInv /\ [Next]_vars => CapInv' /\ DroppedInv'
  <1> SUFFICES ASSUME TypeOK, CapInv, DroppedInv, [Next]_vars PROVE CapInv' /\ DroppedInv'
    OBVIOUS
  <1>1. \/ /\ pipes' \ closing' \subseteq pipes \ closing /\ pipes' \subseteq pipes
           /\ closing' \subseteq idle'
        \/ \E i \in Instances : Accept(i)
    <2>1. ASSUME NEW i \in Instances,
                 \/ CompletedInactive(i) \/ CompletedWrite(i) \/ CompletedWithError(i)
                 \/ CompletedHandshake(i) \/ CompletedRequest(i)
          PROVE  /\ pipes' \ closing' \subseteq pipes \ closing /\ pipes' \subseteq pipes
                 /\ closing' \subseteq idle'
      BY <2>1, RoutineOutcomes DEF EndAndClose, ClosePipeInstance, DroppedInv
    <2>2. CASE UNCHANGED <<pipes, closing>> /\ idle \subseteq idle'
      BY <2>2 DEF DroppedInv
    <2>3. CASE Sweep \/ AcceptFails \/ RefuseConnection
      BY <2>3 DEF Sweep, AcceptFails, RefuseConnection, CloseIdleConnections, DroppedInv
    <2> QED
      BY <2>1, <2>2, <2>3, NextCases DEF vars, pipeVars, Run, SetStop, SetStopEvent, Join, ShutDown,
         CreateListener, CreateListenerFails, EnterWait, ConnectFailed, Drained,
         ConnectCompletes, ConnectSignals, RetryDue, GoIdle, Completes
  <1>2. CASE /\ pipes' \ closing' \subseteq pipes \ closing /\ pipes' \subseteq pipes
             /\ closing' \subseteq idle'
    <2>1. IsFiniteSet(pipes) /\ IsFiniteSet(pipes \ closing) /\ IsFiniteSet(pipes')
          /\ IsFiniteSet(pipes' \ closing')
      BY <1>2, FS_Subset DEF CapInv
    <2>2. /\ Cardinality(pipes' \ closing') <= Cardinality(pipes \ closing)
          /\ Cardinality(pipes' \ closing') \in Nat /\ Cardinality(pipes \ closing) \in Nat
      BY <1>2, <2>1, FS_Subset, FS_CardinalityType
    <2> QED
      BY <1>2, <2>1, <2>2, CapAssumption DEF CapInv, DroppedInv, OpenWithinCap
  <1>3. ASSUME NEW i \in Instances, Accept(i) PROVE CapInv' /\ DroppedInv'
    <2>1. /\ pipes' \ closing' = (pipes \ (closing \cup idle)) \cup ({i} \ closing')
          /\ pipes' = pipes \cup {i} /\ i \notin pipes
          /\ Cardinality(pipes \ (closing \cup idle)) < MaxConcurrentConnections
      BY <1>3 DEF Accept, Open
    <2>2. i \notin closing'
      BY <1>3 DEF Accept, TypeOK
    <2>3. pipes' \ closing' = (pipes \ (closing \cup idle)) \cup {i}
      BY <2>1, <2>2
    <2>4. IsFiniteSet(pipes \ (closing \cup idle)) /\ IsFiniteSet(pipes')
      BY <2>1, FS_Subset, FS_AddElement DEF CapInv
    <2>5. Cardinality(pipes' \ closing') = Cardinality(pipes \ (closing \cup idle)) + 1
          /\ Cardinality(pipes \ (closing \cup idle)) \in Nat
      BY <2>1, <2>3, <2>4, FS_AddElement, FS_CardinalityType
    <2>6. DroppedInv'
      BY <1>3 DEF Accept, DroppedInv
    <2> QED
      BY <2>1, <2>4, <2>5, <2>6, CapAssumption DEF CapInv, OpenWithinCap
  <1> QED
    BY <1>1, <1>2, <1>3

LEMMA CapInit == Init => CapInv /\ DroppedInv
  <1> SUFFICES ASSUME Init PROVE CapInv /\ DroppedInv
    OBVIOUS
  <1>1. pipes = {} /\ pipes \ closing = {} /\ closing = {}
    BY DEF Init
  <1> QED
    BY <1>1, FS_EmptySet, CapAssumption DEF CapInv, DroppedInv, OpenWithinCap

-----------------------------------------------------------------------------

Inv ==
  /\ TypeOK /\ OverlappedOwned /\ ThreadInv /\ GateInv /\ DispatchGated
  /\ CapInv /\ DroppedInv

LEMMA Invariance == Spec => []Inv
  <1>1. Init => Inv
    BY TypeInit, OwnedInit, GateInit, CapInit DEF Inv
  <1>2. Inv /\ [Next]_vars => Inv'
    BY TypeStep, OwnedStep, GateStep, CapStep DEF Inv
  <1> QED
    BY <1>1, <1>2, PTL DEF Spec

\* Every variable of the server keeps its type, and only an operation under
\* way is ever cancelled.
THEOREM ServerTypes == Spec => []TypeOK
  <1>1. Inv => TypeOK
    BY DEF Inv
  <1> QED
    BY <1>1, Invariance, PTL

\* No connection is freed before its operation is over and its routine has run, none is
\* left without the operation that will close it, and the listener's OVERLAPPED is
\* never reused or left while a connect has it, for any number of connections.
THEOREM Ownership == Spec => []OverlappedOwned
  <1>1. Inv => OverlappedOwned
    BY DEF Inv
  <1> QED
    BY <1>1, Invariance, PTL

\* MaxConcurrentConnections bounds the open connections, whatever its value.
THEOREM Cap == Spec => []OpenWithinCap
  <1>1. Inv => OpenWithinCap
    BY DEF Inv, CapInv
  <1> QED
    BY <1>1, Invariance, PTL

\* Only same-version peers reach the driver's state (PrepareRequest).
THEOREM Gate == Spec => []DispatchGated
  <1>1. Inv => DispatchGated
    BY DEF Inv
  <1> QED
    BY <1>1, Invariance, PTL

\* Stop leaves no connection, no listener and nothing to the kernel.
THEOREM CleanStop == Spec => []StoppedIsClean
  <1>1. Inv => StoppedIsClean
    BY DEF Inv, ThreadInv, OverlappedOwned, StoppedIsClean, TypeOK
  <1> QED
    BY <1>1, Invariance, PTL

\* A peer is turned away only while exactly the cap's number of connections are within
\* their deadline ("A stale connection can never be what refuses the real client",
\* RunThread), for any cap and any number of stale connections.
THEOREM StaleIgnored == Spec => StaleNeverRefuses
  <1> DEFINE Full == Cardinality(pipes \ idle) = MaxConcurrentConnections
  <1>1. ASSUME Inv, RefuseConnection PROVE Full
    <2>1. pipes \ idle = pipes \ (closing \cup idle) /\ pipes \ idle \subseteq pipes \ closing
      BY <1>1 DEF Inv, DroppedInv
    <2>2. /\ IsFiniteSet(pipes \ closing) /\ Cardinality(pipes \ closing) <= MaxConcurrentConnections
          /\ Cardinality(pipes \ closing) \in Nat
      BY <1>1, FS_Subset, FS_CardinalityType DEF Inv, CapInv, OpenWithinCap
    <2>3. /\ Cardinality(pipes \ idle) <= Cardinality(pipes \ closing)
          /\ Cardinality(pipes \ idle) \in Nat
      BY <2>1, <2>2, FS_Subset, FS_CardinalityType
    <2>4. Cardinality(pipes \ idle) >= MaxConcurrentConnections
      BY <1>1, <2>1 DEF RefuseConnection, Open
    <2> QED
      BY <2>2, <2>3, <2>4, CapAssumption
  <1>2. Inv /\ [Next]_vars => [RefuseConnection => Full]_vars
    BY <1>1
  <1> QED
    BY <1>2, Invariance, PTL DEF Spec, StaleNeverRefuses

=============================================================================
