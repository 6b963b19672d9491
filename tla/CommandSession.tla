--------------------------- MODULE CommandSession ---------------------------
(***************************************************************************)
(* The life of a command in the window: the main loop that starts, cancels *)
(* and ends it (gui/main.py), the worker thread that runs its service      *)
(* calls one after the other, and for each call the SSH tunnels and the    *)
(* connections it opens and closes (connection.py, _command_runtime of     *)
(* application/service.py).                                                *)
(*                                                                         *)
(* The main loop takes posted events before clicks, and is busy while a    *)
(* handler runs.  The worker thread runs at any time, and Qt's terminate   *)
(* ends it wherever it is.                                                 *)
(***************************************************************************)
EXTENDS Naturals, Sequences, FiniteSets

CONSTANTS
  Operations,    \* the buttons the operator uses
  Tunnelled,     \* the sides whose tunnel is enabled
  FixedPort,     \* those with a local_port of their own; others get a free one
  MaxOperations, \* bound: operations over the whole behaviour
  MaxTroubles    \* bound: failing checks, tunnels and calls, and hanging calls

Sides == {"source", "target"}
Tests == {"test-source", "test-target"}

ASSUME SessionAssumption ==
  /\ Operations \subseteq Tests \cup {"scan-tables", "dry-run", "apply-ddl", "resume",
                                      "full", "data", "incremental"}
  /\ FixedPort \subseteq Tunnelled /\ Tunnelled \subseteq Sides
  /\ MaxOperations \in Nat
  /\ MaxTroubles \in Nat

VARIABLES
  window,     \* what the main window holds of the command
  posted,     \* events that the worker posted to the main loop
  worker,     \* the worker thread
  tunnels,    \* the tunnels its current service call has opened
  connected,  \* the sides its adapters are connected to
  leaked,     \* tunnels that run with no one left to stop them
  routes,     \* history: how the current operation connected
  causes,     \* history: terminated threads, and the sides of failed tunnels
  operations, \* the operations so far
  troubles    \* the troubles so far

sessionVars == <<window, posted, worker, tunnels, connected, leaked, routes, causes,
                 operations, troubles>>

-----------------------------------------------------------------------------
(* The service calls: the tunnels they open, whether they scan the target  *)
(* through a reader of its own, and whether they publish events, which is  *)
(* the only place where a cancel is noticed.                               *)

Call(name, sides, scans, publishes) ==
  [name |-> name, sides |-> sides, scans |-> scans, publishes |-> publishes]

TestSource       == Call("test-source", Sides, FALSE, FALSE)
TestTarget       == Call("test-target", {"target"}, FALSE, FALSE)
ScanTables       == Call("scan-tables", {"source"}, TRUE, FALSE)
DryRun           == Call("dry-run", Sides, TRUE, FALSE)
ApplyDdl         == Call("apply-ddl", Sides, TRUE, FALSE)
ApplyIndexCall   == Call("apply-indexes", Sides, TRUE, FALSE)
ApplyForeignCall == Call("apply-foreign-keys", Sides, TRUE, FALSE)
MigrateData      == Call("migrate-data", Sides, TRUE, TRUE)
RunIncremental   == Call("migrate-incremental", Sides, FALSE, FALSE)
Validate         == Call("validate", Sides, TRUE, FALSE)

FullSequence ==
  <<ApplyDdl, ApplyIndexCall, MigrateData, ApplyForeignCall, ApplyIndexCall, Validate>>
DataSequence        == <<MigrateData, ApplyIndexCall, Validate>>
IncrementalSequence == <<ApplyIndexCall, RunIncremental, ApplyIndexCall, Validate>>

Calls(operation) ==
  CASE operation = "test-source" -> <<TestSource>>
    [] operation = "test-target" -> <<TestTarget>>
    [] operation = "scan-tables" -> <<ScanTables>>
    [] operation = "dry-run"     -> <<DryRun>>
    [] operation = "apply-ddl"   -> <<ApplyDdl>>
    [] operation = "resume"      -> <<MigrateData>>
    [] operation = "full"        -> FullSequence
    [] operation = "data"        -> DataSequence
    [] operation = "incremental" -> IncrementalSequence

-----------------------------------------------------------------------------
(* The main loop.                                                          *)

NoWorker == [at |-> "none", calls |-> << >>, cancelled |-> FALSE, ok |-> TRUE]
Idle     == [thread |-> FALSE, operation |-> "none", enabled |-> TRUE, cancellable |-> FALSE,
             terminating |-> FALSE]

Listening == posted = << >> /\ ~window.terminating

(* _run: refused, with a warning, while a thread is there.                 *)
Click(operation) ==
  /\ Listening /\ window.enabled /\ ~window.thread
  /\ operations < MaxOperations
  /\ operations' = operations + 1
  /\ window' = [thread |-> TRUE, operation |-> operation, enabled |-> FALSE,
                cancellable |-> TRUE, terminating |-> FALSE]
  /\ worker' = [NoWorker EXCEPT !.at = "starting", !.calls = Calls(operation)]
  /\ routes' = {}
  /\ UNCHANGED <<posted, tunnels, connected, leaked, causes, troubles>>

(* The flag is on the publisher, which the worker makes when it begins: a  *)
(* cancel before that is lost.  Tests are ended by force.                  *)
Cancel ==
  /\ Listening /\ window.thread /\ window.cancellable
  /\ window' = [window EXCEPT !.cancellable = FALSE,
                              !.terminating = window.operation \in Tests]
  /\ worker' = [worker EXCEPT !.cancelled = worker.at # "starting"]
  /\ UNCHANGED <<posted, tunnels, connected, leaked, routes, causes, operations, troubles>>

(* What the thread had open stays open; a completed that it posted before  *)
(* is still delivered.  The window waits three seconds and does not look   *)
(* whether that was enough: a thread that outlives them is deleted while   *)
(* it runs, which Qt answers by ending the program; that is left out.      *)
Terminate ==
  /\ window.terminating
  /\ window' = Idle
  /\ worker' = NoWorker
  /\ leaked' = leaked \cup tunnels
  /\ causes' = causes \cup {"terminated"}
  /\ tunnels' = {} /\ connected' = {}
  /\ UNCHANGED <<posted, routes, operations, troubles>>

Handles(event) == ~window.terminating /\ posted # << >> /\ Head(posted) = event

(* Mutant: the window forgets its thread when the result arrives.          *)
CommandCompletedForgets ==
  /\ Handles("completed")
  /\ posted' = Tail(posted)
  /\ window' = Idle
  /\ worker' = IF window.thread THEN [worker EXCEPT !.at = "quitting"] ELSE worker
  /\ UNCHANGED <<tunnels, connected, leaked, routes, causes, operations, troubles>>

(* The buttons are back before the thread has ended.                       *)
CommandCompleted ==
  /\ Handles("completed")
  /\ posted' = Tail(posted)
  /\ window' = [window EXCEPT !.enabled = TRUE, !.cancellable = FALSE]
  /\ worker' = IF window.thread THEN [worker EXCEPT !.at = "quitting"] ELSE worker
  /\ UNCHANGED <<tunnels, connected, leaked, routes, causes, operations, troubles>>

(* Mutant: the end of the thread does not reach the window.                *)
ClearWorkerKeepsThread ==
  /\ Handles("finished")
  /\ posted' = Tail(posted)
  /\ UNCHANGED <<window, worker, tunnels, connected, leaked, routes, causes, operations, troubles>>

ClearWorker ==
  /\ Handles("finished")
  /\ posted' = Tail(posted)
  /\ window' = [window EXCEPT !.thread = FALSE, !.operation = "none"]
  /\ worker' = NoWorker
  /\ UNCHANGED <<tunnels, connected, leaked, routes, causes, operations, troubles>>

-----------------------------------------------------------------------------
(* The worker thread.                                                      *)

Trouble == troubles < MaxTroubles /\ troubles' = troubles + 1

CurrentCall == Head(worker.calls)

Emit(ok) ==
  /\ worker' = [worker EXCEPT !.at = "emitted", !.ok = ok]
  /\ posted' = Append(posted, "completed")

(* Tests need no preflight.                                                *)
Begin ==
  /\ worker.at = "starting"
  /\ worker' = [worker EXCEPT !.at = IF window.operation \in Tests THEN "source tunnel" ELSE "doctor"]
  /\ UNCHANGED <<window, posted, tunnels, connected, leaked, routes, causes, operations, troubles>>

Preflight ==
  /\ worker.at = "doctor"
  /\ \/ worker' = [worker EXCEPT !.at = "source tunnel"] /\ UNCHANGED <<posted, troubles>>
     \/ Trouble /\ Emit(FALSE)
  /\ UNCHANGED <<window, tunnels, connected, leaked, routes, causes, operations>>

AtTunnel(side)    == worker.at = IF side = "source" THEN "source tunnel" ELSE "target tunnel"
AfterTunnel(side) == IF side = "source" THEN "target tunnel" ELSE "body"

Needs(side) == side \in CurrentCall.sides \cap Tunnelled

(* A tunnel needs a valid configuration, a host key, the SSH server and,   *)
(* when its local port is fixed, that port.                                *)
OpenTunnel(side) ==
  /\ AtTunnel(side)
  /\ Needs(side) => ~(side \in FixedPort \cap leaked)
  /\ tunnels' = IF Needs(side) THEN tunnels \cup {side} ELSE tunnels
  /\ worker' = [worker EXCEPT !.at = AfterTunnel(side)]
  /\ UNCHANGED <<window, posted, connected, leaked, routes, causes, operations, troubles>>

(* Mutant: a tunnel that does not start is done without.                   *)
TunnelFailsQuietly(side) ==
  /\ AtTunnel(side)
  /\ Needs(side)
  /\ IF side \in FixedPort \cap leaked THEN UNCHANGED troubles ELSE Trouble
  /\ worker' = [worker EXCEPT !.at = AfterTunnel(side)]
  /\ UNCHANGED <<window, posted, tunnels, connected, leaked, routes, causes, operations>>

(* TunnelSession fails in __enter__, so that __exit__ never stops the      *)
(* source tunnel it has opened.                                            *)
TunnelFails(side) ==
  /\ AtTunnel(side)
  /\ Needs(side)
  /\ IF side \in FixedPort \cap leaked THEN UNCHANGED troubles ELSE Trouble
  /\ leaked' = leaked \cup tunnels
  /\ causes' = causes \cup {side}
  /\ tunnels' = {}
  /\ Emit(FALSE)
  /\ UNCHANGED <<window, connected, routes, operations>>

Through(side) == <<CurrentCall.name, side, IF side \in tunnels THEN "tunnel" ELSE "direct">>

(* Adapters connect when they are first used.  A publishing call stops at  *)
(* its first event after a cancel.                                         *)
Body ==
  /\ worker.at = "body"
  /\ connected' = CurrentCall.sides
  /\ routes' = routes \cup {Through(side) :
                            side \in CurrentCall.sides \cup (IF CurrentCall.scans THEN {"target"} ELSE {})}
  /\ \/ worker' = [worker EXCEPT !.at = IF CurrentCall.publishes THEN "publish" ELSE "close"]
        /\ UNCHANGED troubles
     \/ Trouble /\ worker' = [worker EXCEPT !.at = "close", !.ok = FALSE]
     \/ Trouble /\ worker' = [worker EXCEPT !.at = "hung"]
  /\ UNCHANGED <<window, posted, tunnels, leaked, causes, operations>>

Publish ==
  /\ worker.at = "publish"
  /\ worker' = [worker EXCEPT !.at = "close", !.ok = ~worker.cancelled]
  /\ UNCHANGED <<window, posted, tunnels, connected, leaked, routes, causes, operations, troubles>>

CloseAdapters ==
  /\ worker.at = "close"
  /\ connected' = {}
  /\ worker' = [worker EXCEPT !.at = "stop"]
  /\ UNCHANGED <<window, posted, tunnels, leaked, routes, causes, operations, troubles>>

(* Mutant: the first callback alone is run.                                *)
StopTunnelsOnce ==
  /\ worker.at = "stop"
  /\ tunnels' = IF "target" \in tunnels THEN tunnels \ {"target"} ELSE {}
  /\ IF ~worker.ok \/ Len(worker.calls) = 1
     THEN Emit(worker.ok)
     ELSE worker' = [worker EXCEPT !.calls = Tail(@), !.at = "source tunnel"] /\ UNCHANGED posted
  /\ UNCHANGED <<window, connected, leaked, routes, causes, operations, troubles>>

(* The tunnels are stopped last first; then comes the next call of the     *)
(* sequence, or the result.                                                *)
StopTunnels ==
  /\ worker.at = "stop"
  /\ tunnels' = IF "target" \in tunnels THEN tunnels \ {"target"} ELSE {}
  /\ IF tunnels' # {} THEN UNCHANGED <<worker, posted>>
     ELSE IF ~worker.ok \/ Len(worker.calls) = 1
     THEN Emit(worker.ok)
     ELSE worker' = [worker EXCEPT !.calls = Tail(@), !.at = "source tunnel"] /\ UNCHANGED posted
  /\ UNCHANGED <<window, connected, leaked, routes, causes, operations, troubles>>

ThreadEnds ==
  /\ worker.at = "quitting"
  /\ posted' = Append(posted, "finished")
  /\ worker' = [worker EXCEPT !.at = "ended"]
  /\ UNCHANGED <<window, tunnels, connected, leaked, routes, causes, operations, troubles>>

SessionInit ==
  /\ window = Idle
  /\ posted = << >>
  /\ worker = NoWorker
  /\ tunnels = {} /\ connected = {} /\ leaked = {}
  /\ routes = {} /\ causes = {}
  /\ operations = 0 /\ troubles = 0

MainLoop == Terminate \/ CommandCompleted \/ ClearWorker

WorkerSteps ==
  \/ Begin \/ Preflight \/ Body \/ Publish \/ CloseAdapters \/ StopTunnels \/ ThreadEnds
  \/ \E side \in Sides : OpenTunnel(side) \/ TunnelFails(side)

SessionNext == Cancel \/ MainLoop \/ WorkerSteps \/ \E operation \in Operations : Click(operation)

(* Both threads are scheduled; a hanging call never returns.               *)
SessionFairness == WF_sessionVars(MainLoop) /\ WF_sessionVars(WorkerSteps)

SessionSpec == SessionInit /\ [][SessionNext]_sessionVars /\ SessionFairness

-----------------------------------------------------------------------------
Places == {"none", "starting", "doctor", "source tunnel", "target tunnel", "body", "publish",
           "hung", "close", "stop", "emitted", "quitting", "ended"}

SessionTypeOK ==
  /\ window \in [thread : BOOLEAN, operation : Operations \cup {"none"}, enabled : BOOLEAN,
                 cancellable : BOOLEAN, terminating : BOOLEAN]
  /\ worker.at \in Places
  /\ tunnels \subseteq Tunnelled /\ connected \subseteq Sides /\ leaked \subseteq Tunnelled
  /\ Len(posted) <= 1
  /\ troubles \in 0 .. MaxTroubles

(* A tunnel is left running only by a target tunnel that failed after the  *)
(* source tunnel was open (TunnelSession.__enter__) or by a test that was  *)
(* terminated; every other end of a call closes what it opened, before the *)
(* window hears of it.                                                     *)
ResourcesAreReleased ==
  /\ worker.at \in {"none", "emitted", "quitting", "ended", "source tunnel"} =>
       tunnels = {} /\ connected = {}
  /\ "terminated" \notin causes => leaked \subseteq {"source"}
  /\ causes \subseteq {"source"} => leaked = {}

(* A database whose tunnel is enabled is reached through it, whatever      *)
(* fails or is cancelled, except by scan-tables, which scans the target    *)
(* without opening its tunnel (service.py run_scan_tables).                *)
TunnelsAreUsed ==
  \A route \in routes :
    route[3] = "direct" /\ route[2] \in Tunnelled => route[1] = "scan-tables" /\ route[2] = "target"

(* One worker at a time: no thread is there without the window knowing it, *)
(* and the buttons are enabled only when the worker has nothing left to do *)
(* with the databases, also when a terminated test still delivers its      *)
(* result (_run, _terminate_running_thread, _command_completed).           *)
OneWorker ==
  /\ worker.at # "none" => window.thread
  /\ window.thread /\ window.enabled => worker.at \in {"quitting", "ended"}
  /\ window.thread /\ ~window.enabled /\ ~window.terminating => worker.at \notin {"none", "ended"}

(* Every operation ends, unless a call hangs; a test that is cancelled     *)
(* ends even then.                                                         *)
OperationsEnd ==
  /\ window.thread ~> ~window.thread \/ worker.at = "hung"
  /\ window.terminating ~> ~window.thread
=============================================================================
