--------------------------- MODULE PythondHarness ---------------------------
(***************************************************************************)
(* The integration test of plugins/inputs/pythond: caseSpec.run starts an  *)
(* HTTP server in a goroutine, starts the container, and waits in a select *)
(* for the channel done or for a ticker.  The server runs caseSpec.handler *)
(* in a goroutine of its own for every request of the container; a handler *)
(* counts the request, compares its body with the one expected, and sends  *)
(* on done when it finds the counter at Expected.                          *)
(*                                                                         *)
(* The goroutines share the package variables done, errorMsgs and count.   *)
(* count is only touched by atomic operations.  done is written by the     *)
(* server goroutine and read by run and by the handlers with nothing in    *)
(* between; errorMsgs is appended to under a read lock, which two handlers *)
(* can hold together.  The model takes each such access as a step of its   *)
(* own, so that a read sees the value before or after a write.             *)
(***************************************************************************)
EXTENDS Integers, FiniteSets

CONSTANTS
    Handlers,  \* the goroutines of the requests the container sends
    Kinds,     \* the requests it may send (see Request)
    Expected   \* the count at which a handler signals: 7 in the test

\* A request: whether its path is one the handler counts, and how the
\* handler leaves its switch: "ok", "mismatch" (addErrorMsgs), or "return"
\* (a request that cannot be read, before the switch; a keyevent body that
\* cannot be parsed, after the count).
Request(counted, exit) == [counted |-> counted, exit |-> exit]

NoRequest == Request(FALSE, "none")

\* done before make: the nil channel.
NilChan == 0

VARIABLES
    runPC,      \* where run stands
    runRet,     \* what run returned
    srv,        \* where the server goroutine stands
    done,       \* the package variable done: NilChan or a channel
    waitOn,     \* the channel run's select waits on
    container,  \* the container runs, and sends requests
    count,      \* the package variable count
    errorMsgs,  \* the package variable errorMsgs: the handlers that appended
    hpc,        \* where each handler stands
    hreq,       \* the request of each handler
    hval,       \* val of each handler
    hmsgs,      \* the errorMsgs each handler's append read
    adds,       \* history: atomic.AddUint32 calls made
    wanted,     \* history: the handlers that called addErrorMsgs
    signalled   \* history: run received from done

vars ==
    <<runPC, runRet, srv, done, waitOn, container, count, errorMsgs, hpc,
      hreq, hval, hmsgs, adds, wanted, signalled>>

runVars == <<runPC, runRet, waitOn, container, signalled>>
hVars   == <<hpc, hreq, hval, hmsgs>>
shared  == <<count, errorMsgs, adds, wanted>>

TypeOK ==
    /\ runPC \in {"start", "prepare", "container", "ports", "enter", "select",
                 "check", "returned"}
    /\ container \in BOOLEAN
    /\ container => runPC \notin {"start", "prepare", "container"}
    /\ runRet \in {"none", "nil", "setupError", "errorMsgs"}
    /\ (runPC = "returned") = (runRet # "none")
    /\ srv \in {"none", "spawned", "nilled", "made", "listening", "closed",
               "panicked"}
    /\ done \in {NilChan, 1} /\ waitOn \in {NilChan, 1}
    /\ (done = NilChan) = (srv \in {"none", "spawned", "nilled"})
    /\ count \in 0..Cardinality(Handlers)
    /\ errorMsgs \subseteq wanted /\ wanted \subseteq Handlers
    /\ hpc \in [Handlers ->
                 {"idle", "switch", "append", "write", "load", "check", "send",
                  "end"}]
    /\ hreq \in [Handlers -> Kinds \cup {NoRequest}]
    /\ hval \in [Handlers -> 0..Cardinality(Handlers)]
    /\ hmsgs \in [Handlers -> SUBSET Handlers]
    /\ adds \in 0..Cardinality(Handlers)
    /\ signalled \in BOOLEAN

Init ==
    /\ runPC = "start" /\ runRet = "none"
    /\ srv = "none"
    /\ done = NilChan /\ waitOn = NilChan
    /\ container = FALSE
    /\ count = 0
    /\ errorMsgs = {}
    /\ hpc = [h \in Handlers |-> "idle"]
    /\ hreq = [h \in Handlers |-> NoRequest]
    /\ hval = [h \in Handlers |-> 0]
    /\ hmsgs = [h \in Handlers |-> {}]
    /\ adds = 0 /\ wanted = {} /\ signalled = FALSE

-----------------------------------------------------------------------------
(* The server goroutine. *)

\* done = nil
ServerNil ==
    /\ srv = "spawned"
    /\ done' = NilChan /\ srv' = "nilled"
    /\ UNCHANGED <<runVars, shared, hVars>>

\* Mutant: the server goroutine without its make.
ServerMakeNothing ==
    /\ srv = "nilled"
    /\ srv' = "made"
    /\ UNCHANGED <<runVars, done, shared, hVars>>

\* done = make(chan struct{})
ServerMake ==
    /\ srv = "nilled"
    /\ done' = 1 /\ srv' = "made"
    /\ UNCHANGED <<runVars, shared, hVars>>

\* srv.ListenAndServe() has the port and serves; or it returns an error
\* that is not http.ErrServerClosed, and the goroutine panics.
ServerListen ==
    /\ srv = "made"
    /\ srv' \in {"listening", "panicked"}
    /\ UNCHANGED <<runVars, done, shared, hVars>>

\* A panic of the server goroutine ends the process, run and the handlers
\* with it.
Alive == srv # "panicked"

-----------------------------------------------------------------------------
(* run. *)

\* run builds the router and starts the server goroutine.
RunStart ==
    /\ runPC = "start"
    /\ runPC' = "prepare" /\ srv' = "spawned"
    /\ UNCHANGED <<runRet, waitOn, container, signalled, done, shared, hVars>>

\* A step of the setup ends in an error, and run returns it: the server is
\* left as it is, and so is the container if it was started.
SetupFails ==
    runPC' = "returned" /\ runRet' = "setupError" /\ UNCHANGED container

\* The steps of the setup, each of which may fail: the pool, the removal
\* of an old container, the docker file and the address of this host; then
\* p.RunWithOptions or p.BuildAndRunWithOptions, which starts the
\* container; then cs.portsOK(r).
SetupNext == [prepare |-> "container", container |-> "ports", ports |-> "enter"]

RunSetup ==
    /\ runPC \in DOMAIN SetupNext
    /\ \/ /\ runPC' = SetupNext[runPC]
          /\ container' = (container \/ runPC = "container")
          /\ UNCHANGED runRet
       \/ SetupFails
    /\ UNCHANGED <<waitOn, signalled, srv, done, shared, hVars>>

\* run enters the select: the channel of case <-done is the value done has
\* now.
RunSelect ==
    /\ runPC = "enter"
    /\ waitOn' = done /\ runPC' = "select"
    /\ UNCHANGED <<runRet, container, signalled, srv, done, shared, hVars>>

\* Mutant: the select without the case of the ticker.
NoTicker == FALSE

\* The select has a case for tick.C, and the ticker fires after 30 seconds.
HasTicker == TRUE

\* case <-tick.C
Tick ==
    /\ runPC = "select" /\ HasTicker
    /\ runPC' = "check"
    /\ UNCHANGED <<runRet, waitOn, container, signalled, srv, done, shared, hVars>>

\* case <-done, and the done <- struct{}{} of handler h on the same channel:
\* the channel has no buffer, so the two are one step.  Nothing is ever
\* received from the nil channel.
Signal(h) ==
    /\ runPC = "select" /\ hpc[h] = "send"
    /\ waitOn # NilChan /\ waitOn = done
    /\ runPC' = "check" /\ signalled' = TRUE
    /\ hpc' = [hpc EXCEPT ![h] = "end"]
    /\ UNCHANGED <<runRet, waitOn, container, srv, done, shared, hreq, hval, hmsgs>>

\* After the select: with error messages run returns them, and neither
\* empties errorMsgs nor shuts the server down; without, it does both and
\* returns nil.
RunCheck ==
    /\ runPC = "check"
    /\ runPC' = "returned"
    /\ IF errorMsgs # {}
       THEN runRet' = "errorMsgs" /\ UNCHANGED <<srv, errorMsgs>>
       ELSE runRet' = "nil" /\ errorMsgs' = {}
            /\ srv' = IF srv = "listening" THEN "closed" ELSE srv
    /\ UNCHANGED <<waitOn, container, signalled, done, count, hVars, adds,
                   wanted>>

-----------------------------------------------------------------------------
(* handler. *)

\* A request of the container arrives at the listening server.  One whose
\* URI or body cannot be read is logged, and the handler returns.
Arrive(h) ==
    /\ hpc[h] = "idle" /\ container /\ srv = "listening"
    /\ \E k \in Kinds :
         /\ hreq' = [hreq EXCEPT ![h] = k]
         /\ hpc' = [hpc EXCEPT ![h] =
                IF ~k.counted /\ k.exit = "return" THEN "end" ELSE "switch"]
    /\ UNCHANGED <<runVars, srv, done, shared, hval, hmsgs>>

\* The switch on the path: a counted path adds one to count, then the body
\* is compared.
Switch(h) ==
    /\ hpc[h] = "switch"
    /\ IF hreq[h].counted
       THEN count' = count + 1 /\ adds' = adds + 1
       ELSE UNCHANGED <<count, adds>>
    /\ hpc' = [hpc EXCEPT ![h] =
           CASE hreq[h].exit = "return"   -> "end"
             [] hreq[h].exit = "mismatch" -> "append"
             [] hreq[h].exit = "ok"       -> "load"]
    /\ wanted' = IF hreq[h].exit = "mismatch" THEN wanted \cup {h} ELSE wanted
    /\ UNCHANGED <<runVars, srv, done, errorMsgs, hreq, hval, hmsgs>>

\* addErrorMsgs under lock.RLock(): append reads the slice ...
AppendRead(h) ==
    /\ hpc[h] = "append"
    /\ hmsgs' = [hmsgs EXCEPT ![h] = errorMsgs]
    /\ hpc' = [hpc EXCEPT ![h] = "write"]
    /\ UNCHANGED <<runVars, srv, done, shared, hreq, hval>>

\* Mutant: append without the assignment of its result.
AppendWriteDiscarded(h) ==
    /\ hpc[h] = "write"
    /\ errorMsgs' = hmsgs[h]
    /\ hpc' = [hpc EXCEPT ![h] = "load"]
    /\ UNCHANGED <<runVars, srv, done, count, hreq, hval, hmsgs, adds, wanted>>

\* ... and errorMsgs is assigned the longer one.
AppendWrite(h) ==
    /\ hpc[h] = "write"
    /\ errorMsgs' = hmsgs[h] \cup {h}
    /\ hpc' = [hpc EXCEPT ![h] = "load"]
    /\ UNCHANGED <<runVars, srv, done, count, hreq, hval, hmsgs, adds, wanted>>

\* val := atomic.LoadUint32(&count)
Load(h) ==
    /\ hpc[h] = "load"
    /\ hval' = [hval EXCEPT ![h] = count]
    /\ hpc' = [hpc EXCEPT ![h] = "check"]
    /\ UNCHANGED <<runVars, srv, done, shared, hreq, hmsgs>>

\* Mutant: the signal one request early.
IsExpectedEarly(val) == val = Expected - 1

\* if val == 7
IsExpected(val) == val = Expected

\* The handler found the counter at Expected: it swaps in 0 and goes on to
\* send on done.  Otherwise it returns.
Check(h) ==
    /\ hpc[h] = "check"
    /\ IF IsExpected(hval[h])
       THEN count' = 0 /\ hpc' = [hpc EXCEPT ![h] = "send"]
       ELSE UNCHANGED count /\ hpc' = [hpc EXCEPT ![h] = "end"]
    /\ UNCHANGED <<runVars, srv, done, errorMsgs, hreq, hval, hmsgs, adds, wanted>>

-----------------------------------------------------------------------------

Server == ServerNil \/ ServerMake \/ ServerListen

Run == Alive /\ (RunStart \/ RunSetup \/ RunSelect \/ Tick \/ RunCheck)

Handler(h) ==
    /\ Alive
    /\ \/ Arrive(h) \/ Switch(h) \/ AppendRead(h) \/ AppendWrite(h)
       \/ Load(h) \/ Check(h) \/ Signal(h)

Next == Server \/ Run \/ \E h \in Handlers : Handler(h)

Spec == Init /\ [][Next]_vars

\* The scheduler runs run whenever it can run, and the ticker's time comes.
FairSpec == Spec /\ WF_vars(Run)

-----------------------------------------------------------------------------
(* Properties. *)

\* run receives from done only after Expected requests were counted, in
\* whatever order the handlers took their steps (the count, the load and
\* the comparison with 7 in handler).
SignalAfterExpected == signalled => adds >= Expected

\* Unless the server goroutine panics, run returns, whatever the container
\* sends and whether or not a handler ever signals: the ticker of the
\* select ends the wait.
RunReturns == <>(runPC = "returned" \/ srv = "panicked")

\* run returns the error messages whenever a handler had finished its
\* addErrorMsgs before run looked: two handlers appending together can lose
\* one message of the two and never both, and nothing empties a slice that
\* holds one (the append under lock.RLock() and the len(errorMsgs) of run).
RunSeesAppended ==
    [][(/\ runPC = "check" /\ runPC' = "returned"
        /\ \E h \in wanted : hpc[h] \notin {"append", "write"})
            => runRet' = "errorMsgs"]_vars

=============================================================================
