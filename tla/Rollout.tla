------------------------------- MODULE Rollout -------------------------------
(***************************************************************************)
(* scripts/deploy.sh: a new app container is started beside the old one,   *)
(* nginx finds it by DNS, the old one is stopped, the worker is restarted  *)
(* and what was rendered meanwhile is evicted.  Every command may fail and *)
(* end the script, and what such a script left is there when the next one  *)
(* begins.  Every running process may render responses into Valkey at any  *)
(* time, with its own code.                                                *)
(***************************************************************************)
EXTENDS Naturals

Version == {"old", "new"}
OldApp == {"old1", "old2"}       \* one, and one an ended rollout left
Container == OldApp \cup {"new"}

VARIABLES
  app,       \* container -> "none", "starting", "serving", "exited" (not removed)
  worker,    \* the version the worker runs, "none" while it restarts
  rendered,  \* the versions that rendered what is in the api-cache
  resolved,  \* the app containers nginx's last DNS answer held
  deploy,    \* where the script is
  oldApp,    \* OLD_APP, "none" without one that runs
  newApp,    \* NEW_APP, "unknown" until the script looks, "none" when it finds none
  warned     \* whether the last eviction failed

rolloutVars == <<app, worker, rendered, resolved, deploy, oldApp, newApp, warned>>
scriptVars == <<deploy, oldApp, newApp, warned>>

Running == {c \in Container : app[c] \in {"starting", "serving"}}
Serving == {c \in Container : app[c] = "serving"}
VersionOf(c) == IF c = "new" THEN "new" ELSE "old"

RolloutInit ==
  /\ \E leftBy \in [OldApp -> {"none", "starting", "serving", "exited"}] :
       app = [c \in Container |-> IF c = "new" THEN "none" ELSE leftBy[c]]
  /\ Running = {} \/ Serving # {}
  /\ worker = "old" /\ rendered = {"old"} /\ resolved = Running
  /\ deploy = "begin" /\ oldApp = "none" /\ newApp = "unknown" /\ warned = FALSE

-----------------------------------------------------------------------------
(* nginx and the processes *)

\* resolver ... valid=1s; Docker names every running container, healthy or not.
Resolve ==
  /\ resolved' = Running
  /\ UNCHANGED <<app, worker, rendered, scriptVars>>

Render(v) ==
  /\ worker = v \/ \E c \in Serving : VersionOf(c) = v
  /\ rendered' = rendered \cup {v}
  /\ UNCHANGED <<app, worker, resolved, scriptVars>>

\* evict_volatile_data; an error of Valkey is swallowed.
Evict == rendered' \in {{}, rendered}

\* lifespan: the app evicts before it serves, and again when it stops in time.
BeginServing(c) ==
  /\ app[c] = "starting" /\ app' = [app EXCEPT ![c] = "serving"]
  /\ Evict
  /\ UNCHANGED <<worker, resolved, scriptVars>>

Stopped(c) ==
  /\ app' = [app EXCEPT ![c] = "exited"]
  /\ Evict

-----------------------------------------------------------------------------
(* The script *)

At(from, to) == deploy = from /\ deploy' = to

\* Under set -e a command that fails ends the script where it is.
Abort ==
  /\ deploy \notin {"done", "failed"} /\ deploy' = "failed"
  /\ UNCHANGED <<app, worker, rendered, resolved, oldApp, newApp, warned>>

\* up --no-recreate --scale app=2: a container that exists counts, and is started.
ScaledToTwo ==
  IF \A c \in OldApp : app[c] # "none"
  THEN [c \in Container |-> IF app[c] = "exited" THEN "starting" ELSE app[c]]
  ELSE [app EXCEPT !["new"] = "starting"]

\* head -1 takes any of the containers that run.
Launch ==
  /\ At("begin", "launched")
  /\ oldApp' \in Running /\ app' = ScaledToTwo
  /\ UNCHANGED <<worker, rendered, resolved, newApp, warned>>

\* up without an app that runs: one container, recreated from the new image.
StartFresh ==
  /\ At("begin", "swapped") /\ Running = {}
  /\ app' = [c \in Container |-> IF c = "new" THEN "starting" ELSE "none"]
  /\ UNCHANGED <<worker, rendered, resolved, oldApp, newApp, warned>>

\* The first container listed that is not OLD_APP; docker compose ps may list none.
FindNew ==
  /\ \/ /\ newApp' \in Running \ {oldApp}
        /\ At("launched", IF app[newApp'] = "serving" THEN "healthy" ELSE "starting")
     \/ newApp' = "none" /\ At("launched", "scaling")
  /\ UNCHANGED <<app, worker, rendered, resolved, oldApp, warned>>

NewHealthy ==
  /\ At("starting", "healthy") /\ app[newApp] = "serving"
  /\ UNCHANGED <<app, worker, rendered, resolved, oldApp, newApp, warned>>

\* Not healthy within 90 s, though it may serve by now: the old one stays.
NewNeverHealthy ==
  /\ At("starting", "givenUp") /\ Stopped(newApp)
  /\ UNCHANGED <<worker, resolved, oldApp, newApp, warned>>

RemoveNew ==
  /\ At("givenUp", "failed") /\ app' = [app EXCEPT ![newApp] = "none"]
  /\ UNCHANGED <<worker, rendered, resolved, oldApp, newApp, warned>>

\* The sleep of 6 s is longer than nginx keeps a DNS answer.
StopOld ==
  /\ newApp \in resolved
  /\ At("healthy", "stopped") /\ Stopped(oldApp)
  /\ UNCHANGED <<worker, resolved, oldApp, newApp, warned>>

RemoveOld ==
  /\ At("stopped", "scaling") /\ app' = [app EXCEPT ![oldApp] = "none"]
  /\ UNCHANGED <<worker, rendered, resolved, oldApp, newApp, warned>>

\* up --scale app=1: one of the containers stays, compose says which.
ScaleToOne ==
  /\ At("scaling", "swapped")
  /\ \E kept \in Running :
       app' = [c \in Container |-> IF c = kept THEN app[c] ELSE "none"]
  /\ IF app' = app THEN UNCHANGED rendered ELSE Evict
  /\ UNCHANGED <<worker, resolved, oldApp, newApp, warned>>

\* The worker is recreated in place: stopped, then started.
StopWorker ==
  /\ At("swapped", "restarting") /\ worker' = "none"
  /\ UNCHANGED <<app, rendered, resolved, oldApp, newApp, warned>>

StartWorker ==
  /\ At("restarting", "waiting") /\ worker' = "new"
  /\ UNCHANGED <<app, rendered, resolved, oldApp, newApp, warned>>

\* wait_healthy of app and scheduler; nginx is reloaded or replaced.
Reconcile ==
  /\ At("waiting", "reconciled") /\ Serving # {}
  /\ resolved' \in {resolved, Running}
  /\ UNCHANGED <<app, worker, rendered, oldApp, newApp, warned>>

\* Mutated form of EvictRendered: what was rendered during the rollout stays.
EvictNothing ==
  /\ At("reconciled", "evicted")
  /\ UNCHANGED <<app, worker, rendered, resolved, oldApp, newApp, warned>>

\* evict-rendered-cache.sh: a failure is a warning.
EvictRendered ==
  /\ At("reconciled", "evicted")
  /\ \/ rendered' = {} /\ warned' = FALSE
     \/ UNCHANGED rendered /\ warned' = TRUE
  /\ UNCHANGED <<app, worker, resolved, oldApp, newApp>>

Verify ==
  /\ At("evicted", "done")
  /\ UNCHANGED <<app, worker, rendered, resolved, oldApp, newApp, warned>>

RolloutNext ==
  \/ Resolve \/ Launch \/ StartFresh \/ FindNew \/ NewHealthy \/ NewNeverHealthy \/ RemoveNew
  \/ StopOld \/ RemoveOld \/ ScaleToOne \/ StopWorker \/ StartWorker
  \/ Reconcile \/ EvictRendered \/ Verify \/ Abort
  \/ \E v \in Version : Render(v)
  \/ \E c \in Container : BeginServing(c)

-----------------------------------------------------------------------------
(* Properties *)

\* A rollout neither interrupts nor outlives itself.  While one app replaces another,
\* nginx knows one that serves, wherever the script ends; only a script that does not
\* see the container it started has compose choose which to keep.  A finished rollout
\* has an app that serves, and once that is the new one no old app runs on, and nothing
\* that old code rendered is served.
RolloutServesTheNew ==
  /\ oldApp # "none" /\ newApp # "none" => resolved \cap Serving # {}
  /\ deploy = "done" =>
       /\ worker = "new" /\ Serving # {}
       /\ app["new"] # "none" =>
            /\ Running = {"new"}
            /\ ~warned => "old" \notin rendered
=============================================================================
