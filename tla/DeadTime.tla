------------------------------- MODULE DeadTime -------------------------------
(***************************************************************************)
(* The ledger of dead time: what the branch showed of a run (liveness/     *)
(* git-liveness.service.ts), what a watchdog sweep saw of it (watchdog/    *)
(* watchdog.service.ts, silent-detection.ts) and the intervals             *)
(* DeadTimeService.record makes of that (dead-time/dead-time.service.ts).  *)
(*                                                                         *)
(* Runs do not meet in the ledger, so there is one.  A tick reads the live *)
(* runs, writes what git shows of them, reads the live and the blocked     *)
(* runs in two queries, does the rest of its work, and only then comes to  *)
(* the ledger's own read; every close and every open is a write of its     *)
(* own.  The run moves on all the while.                                   *)
(***************************************************************************)
EXTENDS Naturals, Sequences, FiniteSets, SequencesExt

CONSTANTS
  MaxDeadClock,      \* bound: the clock
  MaxIntervals,      \* bound: intervals ever opened
  MaxDeadFaults,     \* bound: writes of the ledger that fail
  SilenceThreshold   \* SILENCE_THRESHOLDS_MS of the run's runner

ASSUME DeadConstants == /\ MaxDeadClock \in Nat /\ MaxIntervals \in Nat
                        /\ MaxDeadFaults \in Nat /\ SilenceThreshold \in Nat

VARIABLES
  deadClock,
  deadRun,      \* the Run row: status, lastEventAt, the newest block, endedAt
  intervals,    \* the dead_intervals rows
  sweep,        \* the tick: what it observed and the writes it has yet to make
  deadFaults

deadVars == <<deadClock, deadRun, intervals, sweep, deadFaults>>

Times    == 0..MaxDeadClock
StillOpen == MaxDeadClock + 1    \* endedAt = null
Live     == {"running", "stalled", "blocked"}
Kinds    == {"stalled", "parked"}
NoTick   == [step |-> "idle", seen |-> <<>>, judged |-> FALSE, writes |-> <<>>]

DeadOK ==
  /\ deadClock \in Times
  /\ deadRun.status \in Live \cup {"ended"}
  /\ deadRun.lastEventAt \in 0..deadClock /\ deadRun.blockedSince \in 0..deadClock
  /\ deadRun.endedAt \in Times
  /\ \A i \in DOMAIN intervals :
       /\ intervals[i].kind \in Kinds /\ intervals[i].startedAt \in Times
       /\ intervals[i].endedAt \in Times \cup {StillOpen}
  /\ sweep.step \in {"idle", "git", "watchdog", "live", "tick", "record"} /\ Len(sweep.seen) <= 2
  /\ deadFaults \in 0..MaxDeadFaults

DeadInit ==
  /\ deadClock = 0
  /\ deadRun = [status |-> "running", lastEventAt |-> 0, blockedSince |-> 0, endedAt |-> 0]
  /\ intervals = <<>> /\ sweep = NoTick /\ deadFaults = 0

-----------------------------------------------------------------------------
(* The run *)

TimePasses ==
  /\ deadClock < MaxDeadClock /\ deadClock' = deadClock + 1
  /\ UNCHANGED <<deadRun, intervals, sweep, deadFaults>>

\* An event that is news: a block parks the run, any other returns it to running.
RunReports(block) ==
  /\ deadRun.status \in Live /\ deadRun.lastEventAt < deadClock
  /\ deadRun' = [deadRun EXCEPT !.status = IF block THEN "blocked" ELSE "running",
                                !.lastEventAt = deadClock,
                                !.blockedSince = IF block THEN deadClock ELSE @]
  /\ UNCHANGED <<deadClock, intervals, sweep, deadFaults>>

\* resumeParkedRun: running again, and nothing reported yet.
RunResumed ==
  /\ deadRun.status = "blocked" /\ deadRun' = [deadRun EXCEPT !.status = "running"]
  /\ UNCHANGED <<deadClock, intervals, sweep, deadFaults>>

\* markLost: nobody polls it.
RunLost ==
  /\ deadRun.status \in {"running", "blocked"}
  /\ deadRun' = [deadRun EXCEPT !.status = "stalled"]
  /\ UNCHANGED <<deadClock, intervals, sweep, deadFaults>>

\* concludeRun: endedAt is what the runner's clock said.
RunConcludes(at) ==
  /\ deadRun.status \in Live /\ at \in 0..deadClock
  /\ deadRun' = [deadRun EXCEPT !.status = "ended", !.endedAt = at]
  /\ UNCHANGED <<deadClock, intervals, sweep, deadFaults>>

-----------------------------------------------------------------------------
(* Git liveness *)

\* loadWatchedRuns: live, stalled and parked runs.  `judged` says whether this
\* tick took the run to be one of its own; the watchdog sets it anew.
loadWatchedRuns ==
  /\ sweep.step = "idle"
  /\ sweep' = [NoTick EXCEPT !.step = "git", !.judged = deadRun.status \in Live]
  /\ UNCHANGED <<deadClock, deadRun, intervals, deadFaults>>

\* updateRun, by id: the latest activity git shows (latestActivity: a commit, the
\* pull request or CI) if it is later than the start of the run; nothing, if
\* git shows nothing or cannot be read.
updateRun ==
  /\ sweep.step = "git"
  /\ \/ sweep.judged /\ \E at \in 1..deadClock : deadRun' = [deadRun EXCEPT !.lastEventAt = at]
     \/ UNCHANGED deadRun
  /\ sweep' = [NoTick EXCEPT !.step = "watchdog"]
  /\ UNCHANGED <<deadClock, intervals, deadFaults>>

-----------------------------------------------------------------------------
(* The watchdog *)

Observation(kind, since) == [kind |-> kind, since |-> since]

detectSilentRuns ==
  /\ sweep.step = "watchdog"
  /\ LET live   == deadRun.status \in {"running", "stalled"}
         silent == live /\ deadClock - deadRun.lastEventAt > SilenceThreshold
     IN sweep' = [NoTick EXCEPT !.step = "live", !.judged = live,
          !.seen = IF silent THEN <<Observation("stalled", deadRun.lastEventAt)>> ELSE <<>>]
  /\ UNCHANGED <<deadClock, deadRun, intervals, deadFaults>>

sweepBlocked ==
  /\ sweep.step = "live"
  /\ sweep' = IF deadRun.status = "blocked"
              THEN [sweep EXCEPT !.step = "tick", !.judged = TRUE,
                      !.seen = Append(@, Observation("parked", deadRun.blockedSince))]
              ELSE [sweep EXCEPT !.step = "tick"]
  /\ UNCHANGED <<deadClock, deadRun, intervals, deadFaults>>

-----------------------------------------------------------------------------
(* The ledger *)

latest(a, b) == IF a >= b THEN a ELSE b

Close(i, at)   == [op |-> "close", interval |-> i, at |-> at, kind |-> "stalled"]
Open(o)        == [op |-> "open", interval |-> 0, at |-> o.since, kind |-> o.kind]
OpenIntervals  == {i \in DOMAIN intervals : intervals[i].endedAt = StillOpen}

\* A mutant of WritesFor: only what the sweep judged is closed.
WritesForJudged(i) ==
  LET v == intervals[i]  o == Last(sweep.seen) IN
  CASE sweep.seen # <<>> ->
         IF o.kind = v.kind /\ o.since <= v.startedAt THEN <<>>
         ELSE <<Close(i, o.since), Open(o)>>
    [] sweep.seen = <<>> /\ sweep.judged -> <<Close(i, latest(deadRun.lastEventAt, v.startedAt))>>
    [] OTHER -> <<>>

\* What record does about one open interval.  Of two observations of the run
\* the map keeps the later.
WritesFor(i) ==
  LET v == intervals[i]  o == Last(sweep.seen) IN
  CASE deadRun.status \notin Live -> <<Close(i, latest(deadRun.endedAt, v.startedAt))>>
    [] deadRun.status \in Live /\ sweep.seen # <<>> ->
         IF o.kind = v.kind /\ o.since <= v.startedAt THEN <<>>
         ELSE <<Close(i, o.since), Open(o)>>
    [] deadRun.status \in Live /\ sweep.seen = <<>> ->
         IF sweep.judged THEN <<Close(i, latest(deadRun.lastEventAt, v.startedAt))>> ELSE <<>>

\* The ledger's read, and with it every write of the pass: for every open
\* interval what becomes of it, or, if there is none, one interval for every
\* observation.
RecordRead ==
  /\ sweep.step = "tick"
  /\ sweep' = [sweep EXCEPT !.step = "record",
       !.writes = IF OpenIntervals = {}
                  THEN [i \in {0} |-> [k \in DOMAIN sweep.seen |-> Open(sweep.seen[k])]]
                  ELSE [i \in OpenIntervals |-> WritesFor(i)]]
  /\ UNCHANGED <<deadClock, deadRun, intervals, deadFaults>>

Unwritten == {i \in DOMAIN sweep.writes : sweep.writes[i] # <<>>}
Opening   == {i \in Unwritten : Head(sweep.writes[i]).op = "open"}

\* The intervals are taken as the query returned them, in no order it asked
\* for, each to its end.  close is guarded on the interval still being open.
RecordWrite(i) ==
  LET w == Head(sweep.writes[i]) IN
  /\ sweep.step = "record" /\ i \in Unwritten
  /\ Opening \subseteq {i}
  /\ \/ /\ w.op = "close"
        /\ intervals' = IF intervals[w.interval].endedAt = StillOpen
                        THEN [intervals EXCEPT ![w.interval].endedAt = w.at] ELSE intervals
     \/ /\ w.op = "open" /\ Len(intervals) < MaxIntervals
        /\ intervals' = Append(intervals,
             [kind |-> w.kind, startedAt |-> w.at, endedAt |-> StillOpen])
  /\ sweep' = [sweep EXCEPT !.writes = [sweep.writes EXCEPT ![i] = Tail(sweep.writes[i])]]
  /\ UNCHANGED <<deadClock, deadRun, deadFaults>>

\* A write throws and the rest of the pass is abandoned (recordDeadTime), or the
\* bound of the model is reached.
RecordFails ==
  /\ sweep.step = "record" /\ Unwritten # {}
  /\ \/ deadFaults < MaxDeadFaults /\ deadFaults' = deadFaults + 1
     \/ Opening # {} /\ Len(intervals) = MaxIntervals /\ UNCHANGED deadFaults
  /\ sweep' = NoTick
  /\ UNCHANGED <<deadClock, deadRun, intervals>>

RecordEnds ==
  /\ sweep.step = "record" /\ Unwritten = {}
  /\ sweep' = NoTick
  /\ UNCHANGED <<deadClock, deadRun, intervals, deadFaults>>

SweepStep ==
  \/ loadWatchedRuns \/ updateRun \/ detectSilentRuns \/ sweepBlocked
  \/ RecordRead \/ RecordFails \/ RecordEnds
  \/ \E i \in DOMAIN sweep.writes : RecordWrite(i)

DeadNext ==
  \/ SweepStep \/ TimePasses \/ RunResumed \/ RunLost
  \/ \E block \in BOOLEAN : RunReports(block)
  \/ \E at \in Times : RunConcludes(at)

\* The reconciler's timer keeps firing and a tick that has begun goes on.
DeadSpec == DeadInit /\ [][DeadNext]_deadVars /\ WF_deadVars(SweepStep)

-----------------------------------------------------------------------------
(* Properties *)

\* A run that is over has no open interval for good: the next pass closes what
\* a failed write, or a sweep that saw the run alive, left open (record).
DeadTimeEnds ==
  [](deadRun.status = "ended" => <>[](OpenIntervals = {}))

\* "Every close runs through this so an interval can never end before it began.
\* A negative duration ... would SUBTRACT from the window's dead time" (latest,
\* dead-time.service.ts:262).  The code does not keep it: the close that makes
\* way for a new period of silence or parking is written at the new start as it
\* is, and that start may be the older one.  git-liveness.service.ts:236 says
\* lastEventAt is "only ever moved FORWARD", but updateRun compares what git shows
\* with the start of the run and not with lastEventAt.
IntervalsEndAfterTheyBegin ==
  \A i \in DOMAIN intervals : intervals[i].endedAt >= intervals[i].startedAt

=============================================================================
