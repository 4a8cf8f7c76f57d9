---------------------------- MODULE Daemon_proofs ----------------------------
(***************************************************************************)
(* The loop and its heartbeat, for any interval, any watchdog budget and   *)
(* any deadline of a ping that fit together.                               *)
(***************************************************************************)
EXTENDS Daemon, TLAPS

TypeInv ==
    /\ pc \in {"off", "probe", "inner", "ended", "select", "returned"}
    /\ tickIn \in 0..NoTicker /\ pending \in {0, 1}
    /\ last \in 0..Long /\ prev \in 0..Long
    /\ beatIn \in 0..Period /\ pinging \in 0..NoPing /\ sincePing \in Nat

\* The ticker exists when the loop waits for it, and only while the process lives.  A tick
\* in its channel fired after the last pass had taken the one before: the pass before that
\* one started an interval ago.  As long as none is there, that pass started before the
\* ticker fired last.
TickInv ==
    /\ pc = "select" => tickIn # NoTicker
    /\ ~Alive => tickIn = NoTicker
    /\ tickIn = NoTicker => pending = 0
    /\ tickIn # NoTicker /\ pending = 0 => prev + tickIn >= Interval
    /\ tickIn # NoTicker /\ pending = 1 => prev >= Interval /\ last + tickIn >= Interval

\* Of a process that has not stood still and whose pings did not fail since one arrived,
\* the next heartbeat is due within a period of that arrival, and the ping under way ends
\* within its deadline after that.
BeatInv ==
    /\ pc = "off" => ~frozen
    /\ Alive /\ ~ctxDone /\ ~stalled /\ ~missed =>
          /\ ~frozen
          /\ IF pinging = NoPing THEN sincePing + beatIn <= Period
                                 ELSE sincePing + pinging <= Period + PingTimeout

Inv == TypeInv /\ TickInv /\ BeatInv

LEMMA PeriodInBudget ==
    /\ Period \in Nat \ {0} /\ PingTimeout \in Nat
    /\ PingTimeout <= Period /\ Period + PingTimeout < WatchdogUsec
<1>1. /\ WatchdogUsec \in Nat /\ MinPeriod \in Nat /\ MinPeriod >= 1 /\ PingTimeout \in Nat
      /\ PingTimeout <= Period /\ Period + PingTimeout < WatchdogUsec
  BY DaemonAssumption DEF DaemonAssumption
<1>2. WatchdogUsec \div 2 \in Nat
  BY <1>1
<1> QED BY <1>1, <1>2 DEF Period

LEMMA InvInit == Init => Inv
<1> SUFFICES ASSUME Init PROVE Inv
  OBVIOUS
<1>0. Interval \in Nat /\ Period \in Nat /\ PingTimeout \in Nat
  BY DaemonAssumption, PeriodInBudget DEF DaemonAssumption
<1>1. TypeInv BY <1>0 DEF Init, TypeInv, NoTicker, NoPing, Long
<1>2. TickInv BY DEF Init, TickInv, Alive
<1>3. BeatInv BY <1>0 DEF Init, BeatInv, Alive, NoPing
<1> QED BY <1>1, <1>2, <1>3 DEF Inv

LEMMA InvStep == Inv /\ [Next]_vars => Inv'
<1> SUFFICES ASSUME Inv, [Next]_vars PROVE Inv'
  OBVIOUS
<1>0. Interval \in Nat /\ Interval >= 1 /\ Period \in Nat /\ Period >= 1 /\ PingTimeout \in Nat
  BY DaemonAssumption, PeriodInBudget DEF DaemonAssumption
<1>12. Period' = Period
  BY DEF Period
<1> USE <1>0, <1>12 DEF Inv, TypeInv, TickInv, BeatInv, NoTicker, NoPing, Long, Alive, Runs, SmallerOf,
                 loopVars, beatVars, envVars, vars, BeginPass, FreshHeartbeat
<1>1. CASE UNCHANGED vars BY <1>1
<1>2. CASE StartDaemon BY <1>2 DEF StartDaemon
<1>3. CASE ProbeFails \/ ProbeSucceeds \/ InnerPassEnds
  BY <1>3 DEF ProbeFails, ProbeSucceeds, InnerPassEnds
<1>4. CASE EndRunPass BY <1>4 DEF EndRunPass
<1>5. CASE TakeTick BY <1>5 DEF TakeTick
<1>6. CASE Return BY <1>6 DEF Return
<1>7. CASE TickerFires BY <1>7 DEF TickerFires
<1>8. CASE Heartbeat \/ PingArrives \/ PingFails
  BY <1>8 DEF Heartbeat, PingArrives, PingFails
<1>9. CASE WatchdogKill BY <1>9 DEF WatchdogKill, Down
<1>10. CASE Advance BY <1>10 DEF Advance
<1>11. CASE Cancel \/ EndpointChanges \/ Freeze
  BY <1>11 DEF Cancel, EndpointChanges, Freeze
<1> QED BY <1>1, <1>2, <1>3, <1>4, <1>5, <1>6, <1>7, <1>8, <1>9, <1>10, <1>11
        DEF Next, PassStep, Clock

\* The timers, the ticks that wait and the heartbeat stay together, whatever the loop,
\* the endpoint, the watchdog and the operator do.
THEOREM TimersHold == Spec => []Inv
  BY InvInit, InvStep, PTL DEF Spec

\* Of three passes in a row the last starts at least an interval after the first, for any
\* interval, however long the passes take and however many ticks they overrun.
THEOREM PassesAlwaysSpaced == Spec => PassesAreSpaced
<1>1. Inv /\ [Next]_vars => [pc = "select" /\ pc' \in {"probe", "inner"} => prev >= Interval]_vars
  <2> SUFFICES ASSUME Inv, Next, pc = "select", pc' \in {"probe", "inner"} PROVE prev >= Interval
    OBVIOUS
  <2>1. TakeTick
    BY DEF Next, PassStep, Clock, StartDaemon, ProbeFails, ProbeSucceeds, InnerPassEnds, EndRunPass,
           Return, TickerFires, Heartbeat, PingArrives, PingFails, WatchdogKill, Down, Advance, Cancel, EndpointChanges,
           Freeze, loopVars
  <2> QED BY <2>1 DEF TakeTick, Inv, TypeInv, TickInv
<1> QED BY <1>1, TimersHold, PTL DEF Spec, PassesAreSpaced

\* The watchdog kills only a process that stood still, or had a ping fail, since one last
\* arrived, for any budget that a period and the deadline of a ping fit in.
THEOREM OnlyStalledKilled == Spec => OnlyStalledIsKilled
<1>1. Inv /\ [Next]_vars => [pc' = "off" /\ pc # "off" => stalled \/ missed]_vars
  <2> SUFFICES ASSUME Inv, Next, pc' = "off", pc # "off" PROVE stalled \/ missed
    OBVIOUS
  <2>1. WatchdogKill
    BY DEF Next, PassStep, Clock, StartDaemon, BeginPass, ProbeFails, ProbeSucceeds, InnerPassEnds,
           EndRunPass, TakeTick, Return, TickerFires, Heartbeat, PingArrives, PingFails, Advance,
           Cancel, EndpointChanges, Freeze
  <2>2. Alive /\ ~ctxDone /\ sincePing >= WatchdogUsec BY <2>1 DEF WatchdogKill, WatchdogDue
  <2>3. /\ beatIn \in Nat /\ pinging \in Nat /\ sincePing \in Nat /\ WatchdogUsec \in Nat
        /\ Period \in Nat /\ PingTimeout \in Nat
    BY DaemonAssumption, PeriodInBudget DEF DaemonAssumption, Inv, TypeInv, NoPing
  <2> QED BY <2>2, <2>3, PeriodInBudget DEF Inv, BeatInv
<1> QED BY <1>1, TimersHold, PTL DEF Spec, OnlyStalledIsKilled
=============================================================================
