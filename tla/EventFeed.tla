------------------------------- MODULE EventFeed -------------------------------
(* getEvents and subscribe of the TypeScript SDK (sdk/src/index.ts): a loop    *)
(* that reads the contract's events page by page and hands them to a handler   *)
(* one at a time.  The RPC server keeps a limited history and may fail; the    *)
(* handler may throw; the process may be killed and subscribe again from the   *)
(* last event its handler finished, or afresh.                                *)
EXTENDS EscrowEvents

CONSTANTS
  Filters,             \* what a subscription may ask for
  Limit,               \* events of a page
  MaxFailures, MaxSubscriptions

VARIABLES
  oldest,              \* events up to this position are no longer kept by the RPC
  filter, at,          \* the subscription's filter and the place its loop is at
  cursor,              \* its cursor, if it has one
  from, page, next,    \* the position asked about, the matching events left, nextCursor
  stopped,             \* whether stop was called
  origin,              \* the position the deliveries are counted from, if known
  handled,             \* the events the handler finished, in order
  failures, subscriptions

feedVars == <<oldest, filter, at, cursor, from, page, next, stopped, origin, handled,
              failures, subscriptions>>
loopVars == <<oldest, filter, origin, failures, subscriptions>>

\* Events are known by their positions in the log, and an event's cursor is its own.
EscrowEventType == {"created", "released", "refunded", "cancelled"}
SubscribeOptions == [types : Option(SUBSET EscrowEventType), escrowId : Option(Nat)]
ASSUME FeedAssumption == Filters \subseteq SubscribeOptions /\ Limit \in Nat \ {0}

\* An event of another type is "unknown", which no list of types leaves out.
Matches(p) ==
  LET ev == log[p] IN
  /\ \A types \in filter.types : ev.topic \in EscrowEventType => ev.topic \in types
  /\ \A id \in filter.escrowId : ev.id = {id}

Before(ledger) == Cardinality({p \in DOMAIN log : log[p].ledger < ledger})
PageEnd(start) == Min({start + Limit, Len(log)})
getEvents(start) ==
  LET matching == {p \in start + 1..PageEnd(start) : Matches(p)} IN
  InOrder(matching, [p \in matching |-> p])

\* Where a subscription that starts over resumes.
LastHandled == IF handled = <<>> THEN {} ELSE {handled[Len(handled)]}
-----------------------------------------------------------------------------
(* A subscription; one that takes over from another asks for the same events.  *)

Subscribe(resumed) ==
  /\ at \in {"none", "ended"} /\ subscriptions < MaxSubscriptions
  /\ cursor' = resumed
  /\ at' = IF resumed = {} THEN "latest" ELSE "poll"
  /\ from' = IF resumed = {} THEN 0 ELSE The(resumed)
  /\ IF resumed = {} THEN origin' = {} /\ handled' = <<>> ELSE UNCHANGED <<origin, handled>>
  /\ page' = <<>> /\ next' = 0 /\ stopped' = FALSE
  /\ subscriptions' = subscriptions + 1
  /\ UNCHANGED <<chain, oldest, filter, failures>>

\* getLatestLedger answers, and the events are asked for from that ledger on.
GotLatestLedger ==
  /\ at = "latest"
  /\ at' = "poll" /\ from' = Before(now)
  /\ origin' = IF origin = {} THEN {Before(now)} ELSE origin
  /\ UNCHANGED <<chain, oldest, filter, cursor, page, next, stopped, handled,
                 failures, subscriptions>>

GotPage ==
  /\ at = "poll" /\ from >= oldest
  /\ at' = "page" /\ page' = getEvents(from) /\ next' = PageEnd(from)
  /\ UNCHANGED <<chain, loopVars, cursor, from, stopped, handled>>

\* The loop is left and does not come back: a poll that fails, a history that was
\* trimmed past the cursor, a handler that throws, the death of the process.
Leave ==
  /\ at' = "ended" /\ cursor' = {} /\ from' = 0 /\ page' = <<>> /\ next' = 0
  /\ UNCHANGED <<chain, oldest, filter, stopped, origin, handled, subscriptions>>
Fails(places) ==
  at \in places /\ failures < MaxFailures /\ failures' = failures + 1 /\ Leave
CursorExpired == at = "poll" /\ from < oldest /\ Leave /\ UNCHANGED failures
RequestFails == Fails({"latest", "poll"})
HandlerThrows == Fails({"handler"})
Crash == Fails({"page", "sleep"})

Deliver ==
  /\ at = "page" /\ page # <<>> /\ ~stopped
  /\ at' = "handler"
  /\ UNCHANGED <<chain, loopVars, cursor, from, page, next, stopped, handled>>
HandlerReturns ==
  /\ at = "handler"
  /\ at' = "page" /\ handled' = Append(handled, Head(page))
  /\ cursor' = {Head(page)} /\ page' = Tail(page)
  /\ UNCHANGED <<chain, loopVars, from, next, stopped>>

\* Where the next poll starts.  Fault: from the newest event there is.
CursorOfNewest == {Len(log)}
NextCursor == {next}

PageDone ==
  /\ at = "page" /\ (page = <<>> \/ stopped)
  /\ cursor' = NextCursor /\ page' = <<>> /\ from' = 0 /\ next' = 0
  /\ at' = IF stopped THEN "ended" ELSE "sleep"
  /\ UNCHANGED <<chain, loopVars, stopped, handled>>
Wake ==
  /\ at = "sleep"
  /\ at' = IF stopped THEN "ended" ELSE IF cursor = {} THEN "latest" ELSE "poll"
  /\ from' = IF cursor = {} THEN 0 ELSE The(cursor)
  /\ UNCHANGED <<chain, loopVars, cursor, page, next, stopped, handled>>
Stop ==
  /\ at \notin {"none", "ended"} /\ ~stopped /\ stopped' = TRUE
  /\ UNCHANGED <<chain, loopVars, at, cursor, from, page, next, handled>>

\* The RPC server drops its oldest event.
Trim ==
  /\ oldest < Len(log) /\ oldest' = oldest + 1
  /\ UNCHANGED <<chain, filter, at, cursor, from, page, next, stopped, origin, handled,
                 failures, subscriptions>>
-----------------------------------------------------------------------------
FeedInit ==
  /\ oldest = 0 /\ filter \in Filters /\ at = "none" /\ cursor = {} /\ from = 0 /\ page = <<>>
  /\ next = 0 /\ stopped = FALSE /\ origin = {} /\ handled = <<>>
  /\ failures = 0 /\ subscriptions = 0

\* The steps the loop takes by itself.
FeedLoop ==
  GotLatestLedger \/ GotPage \/ CursorExpired \/ Deliver \/ HandlerReturns \/ PageDone \/ Wake
FeedNext ==
  \/ \E resumed \in {{}, LastHandled} : Subscribe(resumed)
  \/ FeedLoop
  \/ RequestFails
  \/ HandlerThrows
  \/ Crash
  \/ Stop
  \/ Trim
  \/ ChainStep /\ UNCHANGED feedVars

\* A subscription beside a contract that anybody may call.
FeedSpec == ChainInit /\ FeedInit /\ [][FeedNext]_<<chain, feedVars>>
=============================================================================
