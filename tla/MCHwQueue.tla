----------------------------- MODULE MCHwQueue -----------------------------
(* Instances of HwQueue for TLC.                                           *)
EXTENDS HwQueue

MCTasks == {"a", "b"}
MCThreads == MCTasks \union Workers

Base == [requests |-> 2, tags |-> 2, budgets |-> 2, shared |-> FALSE, elevator |-> FALSE,
         trouble |-> 0, losses |-> 0, retries |-> 0, resets |-> 0, steals |-> 0, clock |-> 0,
         stops |-> FALSE, dontprep |-> FALSE, nr_ios |-> 1, batch |-> FALSE,
         ops |-> [t \in MCTasks |-> <<>>]]

Ops(x, y) == [t \in MCTasks |-> IF t = "a" THEN x ELSE y]

bio == <<"bio">>
two == <<"bio", "bio">>
plugged == <<"plug", "bio", "bio", "unplug">>
freeze == <<"freeze", "unfreeze">>
quiesce == <<"quiesce", "unquiesce">>

(* No elevator: a request is tried at once; the device refuses, fails and  *)
(* sends back, budgets run out.                                            *)
Direct ==
  { [Base EXCEPT !.ops = Ops(bio, bio), !.retries = 1],
    [Base EXCEPT !.ops = Ops(bio, bio), !.batch = TRUE],
    [Base EXCEPT !.ops = Ops(bio, bio), !.trouble = 1, !.stops = TRUE],
    [Base EXCEPT !.ops = Ops(two, <<>>), !.trouble = 1],
    [Base EXCEPT !.ops = Ops(bio, <<"nowait">>), !.budgets = 1],
    [Base EXCEPT !.ops = Ops(<<"nowait">>, bio), !.requests = 1],
    [Base EXCEPT !.ops = Ops(<<"exec">>, bio)],
    [Base EXCEPT !.ops = Ops(<<"exec">>, <<>>), !.retries = 1, !.dontprep = TRUE],
    [Base EXCEPT !.ops = Ops(<<"exec">>, <<>>), !.retries = 1],
    [Base EXCEPT !.ops = Ops(bio, <<"stop", "start">>), !.retries = 1] }

(* An elevator with fewer tags of the driver, its own or shared.           *)
Elevator ==
  { [Base EXCEPT !.ops = Ops(bio, bio), !.elevator = TRUE, !.tags = 1],
    [Base EXCEPT !.ops = Ops(bio, bio), !.elevator = TRUE, !.budgets = 1],
    [Base EXCEPT !.ops = Ops(two, <<>>), !.elevator = TRUE, !.trouble = 1],
    [Base EXCEPT !.ops = Ops(two, <<>>), !.elevator = TRUE, !.tags = 1, !.shared = TRUE, !.steals = 1],
    [Base EXCEPT !.ops = Ops(bio, bio), !.elevator = TRUE, !.tags = 1, !.shared = TRUE] }

(* Plugs with batches of requests.                                         *)
Plugs ==
  { [Base EXCEPT !.ops = Ops(<<"plug", "bio", "nowait", "unplug">>, <<>>), !.trouble = 2, !.nr_ios = 2],
    [Base EXCEPT !.ops = Ops(plugged, <<>>), !.budgets = 1],
    [Base EXCEPT !.ops = Ops(plugged, freeze), !.elevator = TRUE, !.nr_ios = 2],
    [Base EXCEPT !.ops = Ops(plugged, freeze), !.nr_ios = 2],
    [Base EXCEPT !.ops = Ops(plugged, quiesce), !.nr_ios = 3, !.requests = 3],
    [Base EXCEPT !.ops = Ops(<<"plug", "bio", "sleep", "unplug">>, freeze), !.nr_ios = 2],
    [Base EXCEPT !.ops = Ops(<<"plug", "merged", "bio", "merged", "unplug">>, freeze), !.nr_ios = 2],
    [Base EXCEPT !.ops = Ops(<<"plug", "nowait", "nowait", "bio", "unplug">>, freeze), !.requests = 1],
    [Base EXCEPT !.ops = Ops(plugged, quiesce), !.trouble = 1],
    [Base EXCEPT !.ops = Ops(<<"plug", "bio", "unplug">>, two), !.nr_ios = 2] }

(* Freezes and quiesces of two tasks.                                      *)
Gates ==
  { [Base EXCEPT !.ops = Ops(two, quiesce)],
    [Base EXCEPT !.ops = Ops(freeze, freeze \o bio)],
    [Base EXCEPT !.ops = Ops(quiesce, quiesce \o bio)],
    [Base EXCEPT !.ops = Ops(bio \o quiesce, freeze)],
    [Base EXCEPT !.ops = Ops(bio, <<"freeze", "quiesce", "unquiesce", "unfreeze">>), !.elevator = TRUE] }

(* Timeouts: of a request the device has lost, and racing a late answer.   *)
Timeouts ==
  { [Base EXCEPT !.ops = Ops(bio, freeze), !.clock = 4, !.losses = 1, !.resets = 1],
    [Base EXCEPT !.ops = Ops(two, <<>>), !.clock = 3, !.requests = 1],
    [Base EXCEPT !.ops = Ops(bio, <<>>), !.clock = 3, !.batch = TRUE, !.retries = 1] }

(* A second request starts when the timer of the first goes off.           *)
MCLateStart == { [Base EXCEPT !.ops = Ops(two, <<>>), !.clock = 2] }

MCScenarios == Direct \union Elevator \union Plugs \union Gates \union Timeouts
=============================================================================
