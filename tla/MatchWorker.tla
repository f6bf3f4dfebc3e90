---------------------------- MODULE MatchWorker ----------------------------
(***************************************************************************)
(* The matching worker's loop, the requests that wake it, and the life of  *)
(* the process around them: start, graceful shutdown, crash, restart.      *)
(*                                                                         *)
(* A change is the commit of a new or an edited listing or want; changes   *)
(* are numbered in the order of their commits.  A request commits first    *)
(* and calls Trigger afterwards, so a process may die in between.  What a  *)
(* pass does with the changes it sees is the subject of Exchange, what it  *)
(* finds that of Discovery.  Proofs extend this module beside Discovery,   *)
(* hence the names WorkerInit, WorkerNext and WorkerSpec.                  *)
(***************************************************************************)
EXTENDS Naturals

CONSTANTS
  Callers,     \* requests that may be served at the same time
  MaxChanges,   \* bound: changes in a behaviour
  MaxStops      \* bound: shutdowns and crashes in a behaviour

ASSUME WorkerAssumption == MaxChanges \in Nat /\ MaxStops \in Nat

VARIABLES
  changes,   \* how many changes have been committed
  seen,      \* the last change that a completed pass took into account
  tried,     \* the last change that a pass, failed or not, has been due to see
  request,   \* [Callers -> RequestState]
  trigger,   \* Worker.trigger, a channel of capacity 1, is full
  tick,      \* ticker.C, a channel of capacity 1, is full
  worker,    \* where Worker.Run is: "starting" a pass, in a "pass", at its
             \* "select", or "done"
  snapshot,  \* the last change the running pass can see
  ctx,       \* the context of main: "live" or "cancelled"
  main,      \* "serving", "draining", "waiting" for the worker, "closing" the
             \* pool, or "exited"
  stops

procVars == <<request, trigger, tick, worker, snapshot, ctx, main, tried>>
workerVars == <<changes, seen, stops, procVars>>

\* A request that works "holds" a connection of the pool during its statements.
RequestState == {"idle", "working", "holding", "committed"}

\* What a process starts with.
Boot ==
  [request  |-> [r \in Callers |-> "idle"],
   trigger  |-> FALSE, tick |-> FALSE,
   worker   |-> "starting", snapshot |-> 0,
   ctx      |-> "live", main |-> "serving"]

WorkerInit ==
  /\ changes = 0 /\ seen = 0 /\ stops = 0 /\ tried = 0
  /\ request = Boot.request /\ trigger = Boot.trigger /\ tick = Boot.tick
  /\ worker = Boot.worker /\ snapshot = Boot.snapshot
  /\ ctx = Boot.ctx /\ main = Boot.main
-----------------------------------------------------------------------------
(* Create and Update of listings and wants *)

\* After Shutdown has been called no request is accepted any more.
Accept(r) ==
  /\ main = "serving" /\ request[r] = "idle"
  /\ request' = [request EXCEPT ![r] = "working"]
  /\ UNCHANGED <<changes, seen, stops, tried, trigger, tick, worker, snapshot, ctx, main>>

\* A closed pool gives out no connection.
Acquire(r) ==
  /\ main \notin {"closing", "exited"} /\ request[r] = "working"
  /\ request' = [request EXCEPT ![r] = "holding"]
  /\ UNCHANGED <<changes, seen, stops, tried, trigger, tick, worker, snapshot, ctx, main>>

\* A statement is answered, and another one follows.
Release(r) ==
  /\ main # "exited" /\ request[r] = "holding"
  /\ request' = [request EXCEPT ![r] = "working"]
  /\ UNCHANGED <<changes, seen, stops, tried, trigger, tick, worker, snapshot, ctx, main>>

CommitChange(r) ==
  /\ main # "exited" /\ request[r] = "holding"
  /\ changes < MaxChanges
  /\ changes' = changes + 1
  /\ request' = [request EXCEPT ![r] = "committed"]
  /\ UNCHANGED <<seen, stops, tried, trigger, tick, worker, snapshot, ctx, main>>

\* Invalid input, a row that is not editable, an error of the database or of
\* the pool.
Refuse(r) ==
  /\ main # "exited" /\ request[r] = "working"
  /\ request' = [request EXCEPT ![r] = "idle"]
  /\ UNCHANGED <<changes, seen, stops, tried, trigger, tick, worker, snapshot, ctx, main>>

\* onChange: never blocks; on a full channel the send is dropped.
Trigger(r) ==
  /\ main # "exited" /\ request[r] = "committed"
  /\ trigger' = TRUE
  /\ request' = [request EXCEPT ![r] = "idle"]
  /\ UNCHANGED <<changes, seen, stops, tried, tick, worker, snapshot, ctx, main>>
-----------------------------------------------------------------------------
(* Worker.Run *)

Tick ==
  /\ main # "exited" /\ ~tick
  /\ tick' = TRUE
  /\ UNCHANGED <<changes, seen, stops, tried, request, trigger, worker, snapshot, ctx, main>>

\* The statement takes its snapshot a moment after the pass has begun.
TakeSnapshot ==
  /\ main # "exited" /\ worker = "starting" /\ ctx = "live"
  /\ worker' = "pass"
  /\ snapshot' = changes
  /\ tried' = changes
  /\ UNCHANGED <<changes, seen, stops, request, trigger, tick, ctx, main>>

\* Mutant: what was triggered during the pass is thrown away with its end.
PassSucceedsDraining ==
  /\ main # "exited" /\ worker = "pass"
  /\ seen' = snapshot
  /\ worker' = "select"
  /\ trigger' = FALSE
  /\ UNCHANGED <<changes, stops, tried, request, tick, snapshot, ctx, main>>

PassSucceeds ==
  /\ main # "exited" /\ worker = "pass"
  /\ seen' = snapshot
  /\ worker' = "select"
  /\ UNCHANGED <<changes, stops, tried, request, trigger, tick, snapshot, ctx, main>>

\* An error of the database, the limit of a minute, or the end of ctx; before
\* or after the snapshot.  The pass is not repeated until something wakes it.
PassFails ==
  /\ main # "exited" /\ worker \in {"starting", "pass"}
  /\ worker' = "select"
  /\ tried' = IF worker = "starting" THEN changes ELSE tried
  /\ UNCHANGED <<changes, seen, stops, request, trigger, tick, snapshot, ctx, main>>

\* Mutant: there is no ticker.
WakeByTriggerOnly ==
  /\ main # "exited" /\ worker = "select"
  /\ trigger /\ trigger' = FALSE /\ UNCHANGED tick
  /\ worker' = "starting"
  /\ UNCHANGED <<changes, seen, stops, tried, request, snapshot, ctx, main>>

\* The select takes any case that is ready.
Wake ==
  /\ main # "exited" /\ worker = "select"
  /\ \/ trigger /\ trigger' = FALSE /\ UNCHANGED tick
     \/ tick /\ tick' = FALSE /\ UNCHANGED trigger
  /\ worker' = "starting"
  /\ UNCHANGED <<changes, seen, stops, tried, request, snapshot, ctx, main>>

StopWorker ==
  /\ main # "exited" /\ worker = "select" /\ ctx = "cancelled"
  /\ worker' = "done"
  /\ UNCHANGED <<changes, seen, stops, tried, request, trigger, tick, snapshot, ctx, main>>
-----------------------------------------------------------------------------
(* The process *)

\* SIGINT or SIGTERM.
Signal ==
  /\ main = "serving" /\ ctx = "live" /\ stops < MaxStops
  /\ ctx' = "cancelled"
  /\ stops' = stops + 1
  /\ UNCHANGED <<changes, seen, tried, request, trigger, tick, worker, snapshot, main>>

Shutdown ==
  /\ main = "serving" /\ ctx = "cancelled"
  /\ main' = "draining"
  /\ UNCHANGED <<changes, seen, stops, tried, request, trigger, tick, worker, snapshot, ctx>>

\* Mutant: main waits for every request, without a limit.
DrainedUnlimited ==
  /\ main = "draining"
  /\ \A r \in Callers : request[r] = "idle"
  /\ main' = "waiting"
  /\ UNCHANGED <<changes, seen, stops, tried, request, trigger, tick, worker, snapshot, ctx>>

\* srv.Shutdown returns when every request is answered, or after ten seconds.
Drained ==
  /\ main = "draining"
  /\ main' = "waiting"
  /\ UNCHANGED <<changes, seen, stops, tried, request, trigger, tick, worker, snapshot, ctx>>

\* wg.Wait has returned, and main returns: the deferred pool.Close begins.
ClosePool ==
  /\ main = "waiting" /\ worker = "done"
  /\ main' = "closing"
  /\ UNCHANGED <<changes, seen, stops, tried, request, trigger, tick, worker, snapshot, ctx>>

\* pool.Close waits, without a limit, for the connections that are in use; then
\* the process ends, with any request that is still at work.
Exit ==
  /\ main = "closing"
  /\ \A r \in Callers : request[r] # "holding"
  /\ main' = "exited"
  /\ UNCHANGED <<changes, seen, stops, tried, request, trigger, tick, worker, snapshot, ctx>>

Crash ==
  /\ main # "exited" /\ stops < MaxStops
  /\ main' = "exited"
  /\ stops' = stops + 1
  /\ UNCHANGED <<changes, seen, tried, request, trigger, tick, worker, snapshot, ctx>>

Restart ==
  /\ main = "exited"
  /\ request' = Boot.request /\ trigger' = Boot.trigger /\ tick' = Boot.tick
  /\ worker' = Boot.worker /\ snapshot' = Boot.snapshot
  /\ ctx' = Boot.ctx /\ main' = Boot.main
  /\ UNCHANGED <<changes, seen, stops, tried>>
-----------------------------------------------------------------------------
Step(r) ==
  Accept(r) \/ Acquire(r) \/ Release(r) \/ CommitChange(r) \/ Refuse(r) \/ Trigger(r)

WorkerNext ==
  \/ \E r \in Callers : Step(r)
  \/ Tick \/ TakeSnapshot \/ PassSucceeds \/ PassFails \/ Wake \/ StopWorker
  \/ Signal \/ Shutdown \/ Drained \/ ClosePool \/ Exit \/ Crash \/ Restart

\* The ticker ticks and goroutines that can run do; a pass that is tried again
\* and again is not refused for ever; the select, which picks a ready case at
\* random, does not pass over the cancelled context for ever; whoever runs the
\* service starts it again.  The database answers the statements of requests:
\* that is an assumption on it, for no statement has a limit in the code.
Fairness ==
  /\ WF_workerVars(Tick) /\ WF_workerVars(Wake)
  /\ WF_workerVars(TakeSnapshot \/ PassSucceeds \/ PassFails)
  /\ SF_workerVars(TakeSnapshot) /\ SF_workerVars(PassSucceeds) /\ SF_workerVars(StopWorker)
  /\ WF_workerVars(Shutdown) /\ WF_workerVars(Drained) /\ WF_workerVars(ClosePool)
  /\ WF_workerVars(Exit) /\ WF_workerVars(Restart)
  /\ \A r \in Callers : WF_workerVars(Release(r) \/ CommitChange(r))

WorkerSpec == WorkerInit /\ [][WorkerNext]_workerVars
FairSpec == WorkerSpec /\ Fairness
-----------------------------------------------------------------------------
TypeOK ==
  /\ changes \in 0..MaxChanges /\ seen \in 0..MaxChanges /\ tried \in 0..MaxChanges
  /\ snapshot \in 0..MaxChanges /\ stops \in 0..MaxStops
  /\ request \in [Callers -> RequestState]
  /\ trigger \in BOOLEAN /\ tick \in BOOLEAN
  /\ worker \in {"starting", "pass", "select", "done"}
  /\ ctx \in {"live", "cancelled"}
  /\ main \in {"serving", "draining", "waiting", "closing", "exited"}

\* No wake-up is lost: while the process serves, a change no pass has looked at
\* yet has a pass about to start, a trigger in the channel, or its own request
\* on the way to Trigger.  A full channel may drop a trigger because the pass
\* it stands for has not started yet.
NoLostWakeup ==
  (main # "exited" /\ worker # "done" /\ tried < changes) =>
     \/ trigger
     \/ worker = "starting"
     \/ \E r \in Callers : request[r] = "committed"

\* Every change is taken into account by a pass in the end, whatever fails or
\* dies on the way: a failed pass, a lost trigger, a crash before Trigger.
EveryChangeSeen == \A n \in 1..MaxChanges : changes >= n ~> seen >= n

\* A signal brings the process to an end, with passes being triggered and with
\* requests that never finish: main waits for requests ten seconds, and then only
\* for the connections they hold.
ShutdownEnds == ctx = "cancelled" ~> main = "exited"
=============================================================================
