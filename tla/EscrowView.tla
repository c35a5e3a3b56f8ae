------------------------------- MODULE EscrowView -------------------------------
(* The React package (packages/escrow-react/src): one component that shows       *)
(* escrow 0 with useEscrow and useEscrowTimeline, and settles it with            *)
(* useEscrowActions while others do the same.  The query cache polls, and when    *)
(* it is invalidated it drops the read under way and starts another, except that  *)
(* a first read, with nothing to show yet, is left to end and waited for instead. *)
(* A read is here the last of its attempts; the browser is online.  The countdown *)
(* runs on the local clock plus an offset, which is off by what ClockErrors says. *)
EXTENDS EscrowEvents

CONSTANTS
  Viewer,              \* whose wallet signs the actions
  ClockErrors,         \* how far the local clock, offset included, is ahead of the ledger
  PollIntervals,       \* pollIntervalMs: 0 turns polling off
  MaxReads,            \* reads that fail
  MaxActs              \* actions asked for

VARIABLES
  interval,            \* the poll interval in force
  reading,             \* the read under way: none, asked, or read from the ledger
  seen,                \* the escrow it read, if it exists
  data,                \* what the query holds
  failed,              \* whether the last read failed
  clock,               \* the local clock as last sampled, plus the offset
  action, act,         \* the mutation and what it does
  joined,              \* whether it waits for a read that had taken its answer before
  readsFailed, acts

ASSUME ViewAssumption == Viewer \in Addr /\ ClockErrors \subseteq Int

viewVars == <<interval, reading, seen, data, failed, clock, action, act, joined, readsFailed, acts>>
queryVars == <<interval, reading, seen, data, failed>>
actionVars == <<action, act, joined, acts>>

isTerminalStatus(s) == s \in {"Released", "Refunded"}
Shown == {e.status : e \in data}
-----------------------------------------------------------------------------
(* useEscrow.                                                                   *)

\* Fault: polling ends with the first failing read.
RefetchUnlessFailed == interval > 0 /\ ~failed /\ \A s \in Shown : ~isTerminalStatus(s)
RefetchInterval == interval > 0 /\ \A s \in Shown : ~isTerminalStatus(s)

Poll ==
  /\ reading = "none" /\ RefetchInterval
  /\ reading' = "asked"
  /\ UNCHANGED <<chain, interval, seen, data, failed, clock, actionVars, readsFailed>>
ReadLedger ==
  /\ reading = "asked"
  /\ reading' = "read" /\ seen' = IF Exists(0) THEN {escrow[0]} ELSE {}
  /\ UNCHANGED <<chain, interval, data, failed, clock, actionVars, readsFailed>>

\* A read that ends lets the action that waits for it return.
Refreshed == action' = IF action = "refreshing" THEN "resolved" ELSE action
ReadAnswered ==
  /\ reading = "read"
  /\ reading' = "none" /\ failed' = (seen = {})
  /\ data' = IF seen = {} THEN data ELSE seen
  /\ Refreshed
  /\ UNCHANGED <<chain, interval, seen, clock, act, joined, acts, readsFailed>>
ReadFails ==
  /\ reading # "none" /\ readsFailed < MaxReads /\ readsFailed' = readsFailed + 1
  /\ reading' = "none" /\ failed' = TRUE
  /\ Refreshed
  /\ UNCHANGED <<chain, interval, seen, data, clock, act, joined, acts>>
-----------------------------------------------------------------------------
(* useEscrowTimeline over what the query holds.                                 *)

Deadline == UNION {e.refund_after : e \in data}
expired == \E deadline \in Deadline : clock >= deadline
remaining == {IF deadline > clock THEN deadline - clock ELSE 0 : deadline \in Deadline}
LocalClock == {now + error : error \in ClockErrors}
TimerTick ==
  /\ Deadline # {} /\ (\A s \in Shown : ~isTerminalStatus(s)) /\ ~expired
  /\ clock' \in LocalClock /\ clock' # clock
  /\ UNCHANGED <<chain, queryVars, actionVars, readsFailed>>
-----------------------------------------------------------------------------
(* useEscrowActions.                                                            *)

Act(kind) ==
  /\ action \in {"idle", "resolved", "rejected", "failed"} /\ acts < MaxActs
  /\ action' = "asked" /\ act' = kind /\ joined' = FALSE /\ acts' = acts + 1
  /\ UNCHANGED <<chain, queryVars, clock, readsFailed>>

\* The wallet declines, which is an outcome; or the call fails, which is an error.
Decline ==
  /\ action = "asked" /\ action' = "rejected"
  /\ UNCHANGED <<chain, queryVars, clock, act, joined, acts, readsFailed>>
ActFails ==
  /\ action = "asked" /\ action' = "failed"
  /\ UNCHANGED <<chain, queryVars, clock, act, joined, acts, readsFailed>>

\* The call succeeds on the ledger; its answer comes later.
Perform ==
  /\ action = "asked"
  /\ \/ act = "release" /\ PublishingRelease(0, Viewer)
     \/ act = "refund" /\ PublishingRefund(0, Viewer)
     \/ act = "create" /\ \E req \in Requests :
          req.payer = Viewer /\ CreateEscrow(req) /\ PublishStates({nextId})
  /\ action' = "performed"
  /\ UNCHANGED <<queryVars, clock, act, joined, acts, readsFailed>>

\* invalidateQueries reads once more, and is waited for; with nothing to show yet
\* a read under way is the one waited for.  Fault: nothing is.
InvalidatedUnawaited == action' = "resolved"
Invalidated == action' = "refreshing"
FirstReadUnderWay == reading # "none" /\ data = {}
OnSuccess ==
  /\ action = "performed" /\ Invalidated
  /\ reading' = (IF FirstReadUnderWay THEN reading ELSE "asked")
  /\ joined' = (FirstReadUnderWay /\ reading = "read")
  /\ UNCHANGED <<chain, interval, seen, data, failed, clock, act, acts, readsFailed>>
-----------------------------------------------------------------------------
ViewInit ==
  /\ interval \in PollIntervals /\ reading = "asked" /\ seen = {} /\ data = {} /\ failed = FALSE
  /\ clock \in LocalClock
  /\ action = "idle" /\ act = "none" /\ joined = FALSE /\ readsFailed = 0 /\ acts = 0

ReadStep == ReadLedger \/ ReadAnswered
ViewNext ==
  \/ Poll
  \/ ReadStep
  \/ ReadFails
  \/ TimerTick
  \/ \E kind \in {"release", "refund", "create"} : Act(kind)
  \/ Decline
  \/ ActFails
  \/ Perform
  \/ OnSuccess
  \/ ChainStep /\ UNCHANGED viewVars

\* A view beside a contract that anybody may call.
ViewSpec == ChainInit /\ ViewInit /\ [][ViewNext]_<<chain, viewVars>>
=============================================================================
