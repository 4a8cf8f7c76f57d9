------------------------------- MODULE Daemon -------------------------------
(***************************************************************************)
(* The loop around the passes (internal/reviewd/daemon.go, health.go,      *)
(* notify.go): a ticker that fires while a pass runs, the gate that probes *)
(* the model endpoint before each pass, the heartbeat goroutine, and the   *)
(* service manager's watchdog.                                             *)
(*                                                                         *)
(* Time is counted down or up in units, by Advance; the clock never passes *)
(* a timer that is due.  Elapsed times are only counted as far as they     *)
(* matter.  How passes work is in ReviewPipeline; here one takes any time. *)
(***************************************************************************)
EXTENDS Integers

CONSTANTS
    Interval,     \* delay between passes
    WatchdogUsec, \* the service manager's watchdog budget
    MinPeriod,    \* smallest heartbeat period
    PingTimeout,  \* longest time one ping takes, the deadlines of notify
    MaxSkips      \* bound on the skips counted

\* watchdogPeriodFromEnv: half the budget, but no less than the minimum.
Period == IF WatchdogUsec \div 2 > MinPeriod THEN WatchdogUsec \div 2 ELSE MinPeriod

ASSUME DaemonAssumption ==
    /\ Interval \in Nat \ {0}
    /\ MinPeriod \in Nat \ {0} /\ WatchdogUsec \in Nat /\ PingTimeout \in Nat
    /\ PingTimeout <= Period /\ Period + PingTimeout < WatchdogUsec
    /\ MaxSkips \in Nat

VARIABLES
    pc,        \* Run: "off", "probe", "inner" (the gated
               \* pass), "ended", "select", "returned"
    ctxDone,   \* the context of Run is done
    tickIn,    \* time to the next tick; NoTicker before the first pass ended
    pending,   \* ticks that wait in the ticker's channel
    dropped,   \* a tick was dropped since the last pass started
    overran,   \* the last pass was reported to have overrun the interval
    last,      \* time since the last pass started
    prev,      \* time since the pass before it started
    skips,     \* HealthGate.consecutiveSkips
    beatIn,    \* time to the next heartbeat
    pinging,   \* time left for the ping under way, or NoPing
    sincePing, \* time since a ping last reached the service manager
    missed,    \* a ping failed since then
    endpoint,  \* the model endpoint is healthy
    frozen,    \* no goroutine of the process makes progress
    stalled    \* ... or did not, at some time since a ping last arrived

loopVars == <<ctxDone, tickIn, pending, dropped, overran, last, prev>>
beatVars == <<beatIn, pinging, sincePing, missed>>
envVars == <<endpoint, frozen, stalled>>
vars == <<pc, loopVars, skips, beatVars, envVars>>

NoTicker == Interval + 1
\* elapsed times are counted up to here
Long == Interval + 1

NoPing == PingTimeout + 1

SmallerOf(a, b) == IF a < b THEN a ELSE b

Init ==
    /\ pc = "off" /\ ctxDone = FALSE
    /\ tickIn = NoTicker /\ pending = 0 /\ dropped = FALSE /\ overran = FALSE
    /\ last = Long /\ prev = Long
    /\ skips = 0
    /\ beatIn = Period /\ pinging = NoPing /\ sincePing = 0 /\ missed = FALSE
    /\ endpoint \in BOOLEAN
    /\ frozen = FALSE /\ stalled = FALSE

Alive == pc \notin {"off", "returned"}
Runs == Alive /\ ~frozen

-----------------------------------------------------------------------------
(* Daemon.Run, one goroutine. *)

\* runPass begins: HealthGate.Pass bypasses its probe when the context is done.
BeginPass ==
    /\ pc' = IF ctxDone THEN "inner" ELSE "probe"
    /\ last' = 0 /\ prev' = last /\ dropped' = FALSE

FreshHeartbeat ==
    /\ beatIn' = Period /\ pinging' = NoPing /\ sincePing' = 0
    /\ missed' = FALSE /\ stalled' = FALSE

\* The service manager starts the process: READY, the heartbeat, the first pass.
StartDaemon ==
    /\ pc = "off"
    /\ BeginPass
    /\ FreshHeartbeat
    /\ UNCHANGED <<ctxDone, tickIn, pending, overran, skips, endpoint, frozen>>

\* (mutant) the error of a skipped pass ends the loop
ProbeFailureReturns ==
    /\ Runs /\ pc = "probe"
    /\ ~endpoint \/ ctxDone
    /\ skips' = SmallerOf(skips + 1, MaxSkips)
    /\ pc' = "returned"
    /\ UNCHANGED <<loopVars, beatVars, envVars>>

\* The endpoint is unhealthy, or the context ends during the probe: the pass is
\* skipped.
ProbeFails ==
    /\ Runs /\ pc = "probe"
    /\ ~endpoint \/ ctxDone
    /\ skips' = SmallerOf(skips + 1, MaxSkips)
    /\ pc' = "ended"
    /\ UNCHANGED <<loopVars, beatVars, envVars>>

ProbeSucceeds ==
    /\ Runs /\ pc = "probe"
    /\ endpoint
    /\ skips' = 0
    /\ pc' = "inner"
    /\ UNCHANGED <<loopVars, beatVars, envVars>>

InnerPassEnds ==
    /\ Runs /\ pc = "inner"
    /\ pc' = "ended"
    /\ UNCHANGED <<loopVars, skips, beatVars, envVars>>

\* runPass reports an overrun; the ticker is created after the first pass.
EndRunPass ==
    /\ Runs /\ pc = "ended"
    /\ overran' = (last > Interval)
    /\ tickIn' = IF tickIn = NoTicker THEN Interval ELSE tickIn
    /\ pc' = "select"
    /\ UNCHANGED <<ctxDone, pending, dropped, last, prev, skips, beatVars, envVars>>

\* (mutant) a skipped pass is retried at once
TakeTickOrRetry ==
    /\ Runs /\ pc = "select" /\ (pending > 0 \/ skips > 0)
    /\ pending' = 0
    /\ BeginPass
    /\ UNCHANGED <<ctxDone, tickIn, overran, skips, beatVars, envVars>>

\* select: a waiting tick starts the next pass, also when the context is done.
TakeTick ==
    /\ Runs /\ pc = "select" /\ pending > 0
    /\ pending' = pending - 1
    /\ BeginPass
    /\ UNCHANGED <<ctxDone, tickIn, overran, skips, beatVars, envVars>>

\* (mutant) deferred captures are reviewed first
ReturnAfterRecovery ==
    /\ Runs /\ pc = "select" /\ ctxDone /\ skips = 0
    /\ pc' = "returned"
    /\ tickIn' = NoTicker /\ pending' = 0 /\ pinging' = NoPing
    /\ UNCHANGED <<ctxDone, dropped, overran, last, prev, skips, beatIn, sincePing, missed,
                   envVars>>

\* Run returns, and the process ends with the ping that may be under way.
Return ==
    /\ Runs /\ pc = "select" /\ ctxDone
    /\ pc' = "returned"
    /\ tickIn' = NoTicker /\ pending' = 0 /\ pinging' = NoPing
    /\ UNCHANGED <<ctxDone, dropped, overran, last, prev, skips, beatIn, sincePing, missed,
                   envVars>>

-----------------------------------------------------------------------------
(* The timers, the heartbeat goroutine and the service manager. *)

\* The ticker's channel holds one tick; more are dropped.
TickerFires ==
    /\ tickIn = 0
    /\ tickIn' = Interval
    /\ pending' = 1
    /\ dropped' = (dropped \/ pending = 1)
    /\ UNCHANGED <<pc, ctxDone, overran, last, prev, skips, beatVars, envVars>>

\* (mutant) the heartbeat pings between passes only
HeartbeatBetweenPasses ==
    /\ Runs /\ ~ctxDone
    /\ beatIn = 0 /\ pinging = NoPing
    /\ beatIn' = Period
    /\ pinging' = IF pc = "select" THEN PingTimeout ELSE NoPing
    /\ UNCHANGED <<pc, loopVars, skips, sincePing, missed, envVars>>

\* startLiveness: begins a ping at its own pace, whatever the pass is doing,
\* until the context is done.
Heartbeat ==
    /\ Runs /\ ~ctxDone
    /\ beatIn = 0 /\ pinging = NoPing
    /\ beatIn' = Period
    /\ pinging' = PingTimeout
    /\ UNCHANGED <<pc, loopVars, skips, sincePing, missed, envVars>>

\* WatchdogPing: the datagram is written.
PingArrives ==
    /\ Runs /\ pinging # NoPing
    /\ pinging' = NoPing /\ sincePing' = 0
    /\ missed' = FALSE /\ stalled' = FALSE
    /\ UNCHANGED <<pc, loopVars, skips, beatIn, endpoint, frozen>>

\* The socket refuses it, or does not take it in time: a warning, and no retry
\* before the next beat.
PingFails ==
    /\ Runs /\ pinging # NoPing
    /\ pinging' = NoPing
    /\ missed' = TRUE
    /\ UNCHANGED <<pc, loopVars, skips, beatIn, sincePing, envVars>>

Down ==
    /\ pc' = "off" /\ ctxDone' = FALSE
    /\ tickIn' = NoTicker /\ pending' = 0 /\ dropped' = FALSE /\ overran' = FALSE
    /\ last' = Long /\ prev' = Long /\ skips' = 0
    /\ FreshHeartbeat
    /\ frozen' = FALSE

\* The watchdog kills a service that missed its budget, to start it again; it
\* does not watch one that is being stopped.
WatchdogDue == Alive /\ ~ctxDone /\ sincePing >= WatchdogUsec
WatchdogKill == WatchdogDue /\ Down /\ UNCHANGED endpoint

Advance ==
    /\ tickIn # 0
    /\ ~(Runs /\ ~ctxDone /\ beatIn = 0 /\ pinging = NoPing)
    /\ ~(Runs /\ pinging = 0)
    /\ ~WatchdogDue
    /\ tickIn' = IF tickIn = NoTicker THEN NoTicker ELSE tickIn - 1
    /\ last' = SmallerOf(last + 1, Long)
    /\ prev' = SmallerOf(prev + 1, Long)
    /\ IF Alive /\ ~ctxDone
       THEN /\ beatIn' = IF beatIn = 0 THEN 0 ELSE beatIn - 1
            /\ sincePing' = sincePing + 1
       ELSE UNCHANGED <<beatIn, sincePing>>
    /\ pinging' = IF pinging \in {0, NoPing} THEN pinging ELSE pinging - 1
    /\ UNCHANGED missed
    /\ UNCHANGED <<pc, ctxDone, pending, dropped, overran, skips, envVars>>

-----------------------------------------------------------------------------
(* What happens to the service. *)

Cancel == Alive /\ ~ctxDone /\ ctxDone' = TRUE
    /\ UNCHANGED <<pc, tickIn, pending, dropped, overran, last, prev, skips, beatVars, envVars>>

EndpointChanges == endpoint' = ~endpoint
    /\ UNCHANGED <<pc, loopVars, skips, beatVars, frozen, stalled>>

Freeze == Alive /\ frozen' = ~frozen /\ stalled' = TRUE
    /\ UNCHANGED <<pc, loopVars, skips, beatVars, endpoint>>

PassStep == ProbeFails \/ ProbeSucceeds \/ InnerPassEnds \/ EndRunPass
Clock == TickerFires \/ Heartbeat \/ PingArrives \/ PingFails \/ WatchdogKill \/ Advance

Next ==
    \/ StartDaemon \/ PassStep \/ TakeTick \/ Return
    \/ Clock
    \/ Cancel \/ EndpointChanges \/ Freeze

Spec == Init /\ [][Next]_vars

\* The goroutine of the loop runs, and every pass ends as all its calls have
\* timeouts; time goes on; the manager starts the service; a select whose
\* context is done does not choose its ticks forever.
FairSpec ==
    /\ Spec
    /\ WF_vars(StartDaemon) /\ WF_vars(PassStep) /\ WF_vars(TakeTick) /\ WF_vars(Clock)
    /\ SF_vars(Return)

-----------------------------------------------------------------------------
\* Passes do not pile up: of three passes in a row the last starts at least an
\* interval after the first, however long the passes take and however many
\* ticks they overrun.
PassesAreSpaced ==
    [][pc = "select" /\ pc' \in {"probe", "inner"} => prev >= Interval]_vars

\* A service that makes progress is killed only if a ping failed since one last
\* arrived: a long pass, a dead endpoint, a pending cancellation or a slow socket
\* never bring the heartbeat behind the watchdog's budget.
OnlyStalledIsKilled == [][pc' = "off" /\ pc # "off" => stalled \/ missed]_vars

\* An outage heals by itself: with the endpoint and the notify socket back for
\* good, passes are run again and again.
PassesResume ==
    <>[](endpoint /\ ~ctxDone /\ ~frozen /\ ~missed) => []<>(pc = "inner")

\* A cancelled service returns, unless it stands still: a tick that is ready at the
\* same time only delays it.
CancelReturns == <>[]~frozen => (ctxDone ~> pc = "returned")
=============================================================================
