----------------------------- MODULE HTTPTrace -----------------------------
(***************************************************************************)
(* One call of sendReq (io/dataway/endpoint.go) and the httpTraceStat it   *)
(* fills and logs when ep.httpTrace is set.                                *)
(*                                                                         *)
(* sendReq runs in the caller's goroutine.  The callbacks it registers     *)
(* with httptrace run where the transport calls them: GotConn and          *)
(* GotFirstResponseByte before the attempt they belong to ends, the Start  *)
(* and Done callbacks of a dial in the goroutine of that dial.  A dial is  *)
(* started for an attempt that finds no idle connection; it goes on when   *)
(* the attempt has ended or has taken another connection, and its          *)
(* connection then goes to the pool.  All callbacks of one call write the  *)
(* same httpTraceStat, which sendReq reads after Do returned.              *)
(***************************************************************************)
EXTENDS Integers, Sequences, FiniteSets

CONSTANTS
    Endpoints,  \* the endpoints sendReq may be called on
    Dials,      \* bound: the dials the transport may start for one call
    MaxTime,    \* bound: time.Now() runs from 0 to MaxTime
    MaxIdle,    \* bound: idle connections the pool keeps
    RetryMax    \* retries of the retrying client after the first attempt

\* The phases of a dial, in order, and the fields of httpTraceStat their
\* Start and Done callbacks write.
Phases  == <<"dns", "conn", "tlsHS">>
StartOf == [dns |-> "dnsStart", conn |-> "connStart", tlsHS |-> "tlsHSStart"]
DoneOf  == [dns |-> "dnsResolve", conn |-> "connDone", tlsHS |-> "tlsHSDone"]

\* &httpTraceStat{}, without idleTime, which nothing here depends on.
ZeroStat ==
    [reuseConn |-> FALSE, idle |-> FALSE, dnsStart |-> 0, dnsResolve |-> 0,
     tlsHSStart |-> 0, tlsHSDone |-> 0, connStart |-> 0, connDone |-> 0,
     ttfbTime |-> 0, cost |-> 0]

NoDial == "none"
NoRet  == [got |-> "none", httpCodeStr |-> "none"]

VARIABLES
    ep,         \* the endpoint of the call
    pc,         \* where sendReq stands
    now,        \* time.Now()
    start,      \* sendReq's local start
    ts,         \* the httpTraceStat of the call
    attempts,   \* retries the client has made
    dial,       \* the dials: [st, ph, t0], t0 the time the phase began
    real,       \* history: how long each phase of each dial took
    used,       \* history: the dial whose connection the attempt got
    idleConns,  \* idle connections in the pool of the transport
    logged,     \* what ts.String() was logged as, with used at that time
    ret         \* what sendReq returned, and the status label it counted

vars ==
    <<ep, pc, now, start, ts, attempts, dial, real, used, idleConns, logged, ret>>

Time == 0..MaxTime

\* Mutant: the trace allocated and logged whatever ep.httpTrace says.
TracedAlways == TRUE

\* if ep.httpTrace, and later if ts != nil
Traced == ep.httpTrace

TypeOK ==
    /\ ep \in Endpoints
    /\ pc \in {"idle", "getConn", "waitConn", "roundTrip", "log", "returned"}
    /\ now \in Time /\ start \in Time
    /\ \A f \in DOMAIN ZeroStat :
         ts[f] \in (IF f \in {"reuseConn", "idle"} THEN BOOLEAN ELSE Time)
    /\ attempts \in 0..RetryMax
    /\ \A d \in Dials :
         /\ dial[d].st \in {"free", "before", "in", "ready", "used", "pooled"}
         /\ dial[d].ph \in DOMAIN Phases /\ dial[d].t0 \in Time
         /\ real[d] \in [DOMAIN Phases -> Time]
    /\ used \in Dials \cup {NoDial}
    /\ idleConns \in 0..MaxIdle
    /\ \A l \in logged : l.used \in Dials \cup {NoDial} /\ l.stat.cost \in Time
    /\ (logged # {}) = (ep.httpTrace /\ pc = "returned")
    /\ ret \in [got : {"none", "resp", "err"},
                httpCodeStr : {"none", "status", "unknown"}]

Init ==
    /\ ep \in Endpoints
    /\ pc = "idle"
    /\ now = 0 /\ start = 0
    /\ ts = ZeroStat
    /\ attempts = 0
    /\ dial = [d \in Dials |-> [st |-> "free", ph |-> 1, t0 |-> 0]]
    /\ real = [d \in Dials |-> [p \in DOMAIN Phases |-> 0]]
    /\ used = NoDial
    /\ idleConns \in 0..MaxIdle
    /\ logged = {}
    /\ ret = NoRet

\* What a callback does to ts; without the trace there is no callback.
Written(stat) == IF Traced THEN stat ELSE ts

-----------------------------------------------------------------------------
(* sendReq and the attempts of the client, in the caller's goroutine.      *)

\* sendReq up to ep.httpCli.Do: start is taken, the trace is registered.
\* The error of rhttp.FromRequest is not reached: the body is a byte slice.
SendReq ==
    /\ pc = "idle"
    /\ start' = now
    /\ pc' = "getConn"
    /\ UNCHANGED <<ep, now, ts, attempts, dial, real, used, idleConns, logged, ret>>

\* The GotConn callback.
GotConn(reused) == Written([ts EXCEPT !.reuseConn = reused, !.idle = reused])

\* The attempt gets an idle connection, at once or while it waits for a dial.
TakeIdle ==
    /\ pc \in {"getConn", "waitConn"}
    /\ idleConns > 0
    /\ idleConns' = idleConns - 1
    /\ ts' = GotConn(TRUE)
    /\ pc' = "roundTrip"
    /\ UNCHANGED <<ep, now, start, attempts, dial, real, used, logged, ret>>

\* Without an idle connection the transport starts a dial for the attempt.
StartDial(d) ==
    /\ pc = "getConn"
    /\ idleConns = 0
    /\ dial[d].st = "free"
    /\ dial' = [dial EXCEPT ![d].st = "before"]
    /\ pc' = "waitConn"
    /\ UNCHANGED <<ep, now, start, ts, attempts, real, used, idleConns, logged, ret>>

\* The attempt gets the connection of a dial that is through.
TakeDial(d) ==
    /\ pc = "waitConn"
    /\ dial[d].st = "ready"
    /\ dial' = [dial EXCEPT ![d].st = "used"]
    /\ used' = d
    /\ ts' = GotConn(FALSE)
    /\ pc' = "roundTrip"
    /\ UNCHANGED <<ep, now, start, attempts, real, idleConns, logged, ret>>

\* The attempt is over.  One the client may repeat is repeated while
\* retries are left, and then Do returns the error of giving up; an answer
\* it does not repeat is what Do returns.
EndAttempt(again) ==
    IF again /\ attempts < RetryMax
    THEN /\ attempts' = attempts + 1
         /\ used' = NoDial
         /\ pc' = "getConn"
         /\ UNCHANGED ret
    ELSE /\ ret' = [ret EXCEPT !.got = IF again THEN "err" ELSE "resp"]
         /\ pc' = "log"
         /\ UNCHANGED <<attempts, used>>

\* The GotFirstResponseByte callback: the answer of the attempt arrives,
\* one the client retries or one it returns, and the connection goes back
\* to the pool.
FirstByte ==
    /\ pc = "roundTrip"
    /\ ts' = Written([ts EXCEPT !.ttfbTime = now - start])
    /\ idleConns' = IF idleConns < MaxIdle THEN idleConns + 1 ELSE idleConns
    /\ \E again \in BOOLEAN : EndAttempt(again)
    /\ UNCHANGED <<ep, now, start, dial, real, logged>>

\* The attempt ends without an answer: no connection in time, or no
\* answer on the connection it had.
AttemptFails ==
    /\ pc \in {"getConn", "waitConn", "roundTrip"}
    /\ EndAttempt(TRUE)
    /\ UNCHANGED <<ep, now, start, ts, dial, real, idleConns, logged>>

\* Do has returned: ts.cost is set and ts.String() logged, and sendReq
\* returns the response or the error.  The deferred function counts the
\* call under the status text of the response, or under "unknown".
Return ==
    /\ pc = "log"
    /\ ts' = Written([ts EXCEPT !.cost = now - start])
    /\ logged' = IF Traced THEN {[stat |-> ts', used |-> used]} ELSE {}
    /\ ret' = [ret EXCEPT !.httpCodeStr =
                  IF ret.got = "resp" THEN "status" ELSE "unknown"]
    /\ pc' = "returned"
    /\ UNCHANGED <<ep, now, start, attempts, dial, real, used, idleConns>>

-----------------------------------------------------------------------------
(* The goroutine of a dial. *)

\* Mutant: the Done callbacks measuring from sendReq's start, as
\* GotFirstResponseByte does.
PhaseTookSinceStart(p) == now - start

\* time.Since of the field the Start callback of the phase wrote.
PhaseTook(p) == now - ts[StartOf[p]]

\* DNSStart, ConnectStart, TLSHandshakeStart
PhaseStart(d) ==
    /\ dial[d].st = "before"
    /\ ts' = Written([ts EXCEPT ![StartOf[Phases[dial[d].ph]]] = now])
    /\ dial' = [dial EXCEPT ![d].st = "in", ![d].t0 = now]
    /\ UNCHANGED <<ep, pc, now, start, attempts, real, used, idleConns, logged, ret>>

\* DNSDone, ConnectDone, TLSHandshakeDone; after the last the connection
\* is there.
PhaseDone(d) ==
    /\ dial[d].st = "in"
    /\ LET p == Phases[dial[d].ph]
       IN  ts' = Written([ts EXCEPT ![DoneOf[p]] = PhaseTook(p)])
    /\ real' = [real EXCEPT ![d][dial[d].ph] = now - dial[d].t0]
    /\ dial' = [dial EXCEPT ![d] =
           IF @.ph = Len(Phases) THEN [@ EXCEPT !.st = "ready"]
           ELSE [@ EXCEPT !.st = "before", !.ph = @ + 1]]
    /\ UNCHANGED <<ep, pc, now, start, attempts, used, idleConns, logged, ret>>

\* A connection nobody waits for goes to the pool, or is closed when the
\* pool is full.
DialToPool(d) ==
    /\ dial[d].st = "ready"
    /\ pc # "waitConn"
    /\ dial' = [dial EXCEPT ![d].st = "pooled"]
    /\ idleConns' = IF idleConns < MaxIdle THEN idleConns + 1 ELSE idleConns
    /\ UNCHANGED <<ep, pc, now, start, ts, attempts, real, used, logged, ret>>

\* Time passes.
Tick ==
    /\ now < MaxTime
    /\ now' = now + 1
    /\ UNCHANGED <<ep, pc, start, ts, attempts, dial, real, used, idleConns,
                   logged, ret>>

Caller == SendReq \/ TakeIdle \/ FirstByte \/ AttemptFails \/ Return

Dialer(d) == StartDial(d) \/ TakeDial(d) \/ PhaseStart(d) \/ PhaseDone(d) \/ DialToPool(d)

Next == Caller \/ Tick \/ \E d \in Dials : Dialer(d)

Spec == Init /\ [][Next]_vars

-----------------------------------------------------------------------------
(* Properties. *)

\* The log line tells the phases of dial d as they were.
TellsDial(l, d) ==
    \A i \in DOMAIN Phases : l.stat[DoneOf[Phases[i]]] = real[d][i]

\* When the transport made one dial for the call and the call used its
\* connection, the DNS, connect and TLS times sendReq logs are the times
\* that dial took, at whatever time the dial began and however long Do
\* went on after it (the Start and Done callbacks registered in sendReq).
LoggedStatIsOfOnlyDial ==
    Cardinality({d \in Dials : dial[d].st # "free"}) <= 1 =>
        \A l \in logged : l.used \in Dials => TellsDial(l, l.used)

\* When the last attempt of a call got a new connection, the DNS, connect
\* and TLS times sendReq logs are those of the dial that made this
\* connection (ts.String() after Do, fed by the callbacks of sendReq).
LoggedStatIsOfUsedConn ==
    \A l \in logged : l.used \in Dials => TellsDial(l, l.used)

=============================================================================
