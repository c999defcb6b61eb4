--------------------------- MODULE DynamicWebhook ---------------------------
(***************************************************************************)
(* How syncers get intercepted: the two syncer controllers keep one entry  *)
(* per syncer in the shared ValidatingWebhookConfiguration (reconcileWebhook*)
(* and upsert, internal/controller) and one handler per syncer in the      *)
(* interception server (internal/interceptor/dynamic_webhook_handlers.go), *)
(* which registers a syncer itself when it is called for an unknown one.   *)
(*                                                                         *)
(* Each controller has one worker and a queue without duplicates.  All     *)
(* reads go to the manager's informer cache, which lags behind the API     *)
(* server; writes carry the version read and may conflict.  The API server *)
(* and controller-runtime are outside.                                     *)
(***************************************************************************)
EXTENDS Integers, FiniteSets

CONSTANTS Syncers,          \* identities: [kind, namespace, name]
          SyncerSpecs,      \* [compared, selector]: the fields that
                            \* webhookEntryEqual compares, and whether there
                            \* is an object selector
          MaxAttempts,      \* retry.DefaultRetry.Steps
          MaxChanges,       \* bound: changes made by users
          MaxRestarts,      \* bound: restarts of the manager
          Calls,            \* concurrent calls to unregistered paths
          MayFail,          \* whether reads and writes may fail
          MayBeMissing,     \* whether the shared configuration is missing at
                            \* first and may be deleted as a whole
          Gone, NoEntry, NoHandler, NoJob, NoCall

Controllers == {"RemoteSyncer", "ClusterWideRemoteSyncer"}

ASSUME ConstantsAssumption ==
    /\ \A s \in Syncers : s.kind \in Controllers
    /\ MaxAttempts \in Nat \ {0} /\ MaxChanges \in Nat /\ MaxRestarts \in Nat
    /\ MayFail \in BOOLEAN /\ MayBeMissing \in BOOLEAN
    /\ Gone \notin SyncerSpecs /\ NoHandler \notin SyncerSpecs

(* "<name>.<namespace>.syngit.io" or "<name>.clusterwide.syngit.io".       *)
EntryName(s) ==
    <<s.name, IF s.kind = "RemoteSyncer" THEN s.namespace ELSE "clusterwide">>

EntryNames == {EntryName(s) : s \in Syncers}

Entry(s, spec) == [path |-> s, spec |-> spec]

VARIABLES syncer,       \* syncer[s]: its spec in the API server, or Gone
          config,       \* the shared configuration: [exists, version,
                        \* webhooks, order]: its entries by name, and the
                        \* pairs of names of which one is before the other
                        \* in the list of entries
          seenSyncer,   \* the informer cache's copy of syncer
          seenConfig,   \* the informer cache's copy of config
          queue,        \* reconcile requests waiting for their controller
          job,          \* what each controller's worker is doing
          pathHandlers, \* the interception server's handlers
          call,         \* calls that found no handler
          changes, restarts

apiVars == <<syncer, config>>
cacheVars == <<seenSyncer, seenConfig>>
bounds == <<changes, restarts>>
vars == <<apiVars, cacheVars, queue, job, pathHandlers, call, bounds>>

NoWebhooks == [n \in EntryNames |-> NoEntry]

Existing(view) == {s \in Syncers : view[s] # Gone}

Init ==
    /\ syncer = [s \in Syncers |-> Gone]
    /\ config = [exists |-> ~MayBeMissing, version |-> 0, webhooks |-> NoWebhooks, order |-> {}]
    /\ seenSyncer = syncer /\ seenConfig = config
    /\ queue = {}
    /\ job = [c \in Controllers |-> NoJob]
    /\ pathHandlers = [s \in Syncers |-> NoHandler]
    /\ call = [k \in Calls |-> NoCall]
    /\ changes = 0 /\ restarts = 0

---------------------------------------------------------------------------
(* Users and the API server (external).                                    *)

\* Versions are opaque: all that matters is that a new one differs from
\* those of the copies that are around, at most two caches' and two workers'.
Versions == 0 .. 4

UsedVersions ==
    {config.version, seenConfig.version}
        \cup {job[c].found.version : c \in {d \in Controllers : job[d] # NoJob}}

NewVersion == CHOOSE v \in Versions : v \notin UsedVersions

Config(webhooks, order) ==
    [exists |-> TRUE, version |-> NewVersion, webhooks |-> webhooks, order |-> order]

\* A syncer is created, changed or deleted.
ChangeSyncer(s) ==
    /\ changes < MaxChanges
    /\ changes' = changes + 1
    /\ \E new \in (SyncerSpecs \cup {Gone}) \ {syncer[s]} : syncer' = [syncer EXCEPT ![s] = new]
    /\ UNCHANGED <<config, cacheVars, queue, job, pathHandlers, call, restarts>>

\* The whole configuration is deleted, or one of its entries removed.
TamperConfig ==
    /\ changes < MaxChanges /\ config.exists
    /\ changes' = changes + 1
    /\ \/ /\ MayBeMissing
          /\ config' = [exists |-> FALSE, version |-> NewVersion, webhooks |-> NoWebhooks, order |-> {}]
       \/ \E n \in EntryNames :
             /\ config.webhooks[n] # NoEntry
             /\ config' = Config([config.webhooks EXCEPT ![n] = NoEntry],
                                 {p \in config.order : n \notin {p[1], p[2]}})
    /\ UNCHANGED <<syncer, cacheVars, queue, job, pathHandlers, call, restarts>>

(* Watch events: the cache catches up and the event is mapped to reconcile *)
(* requests (SetupWithManager, findObjectsForDynamicWebhook).              *)
ObserveSyncer(s) ==
    /\ seenSyncer[s] # syncer[s]
    /\ seenSyncer' = [seenSyncer EXCEPT ![s] = syncer[s]]
    /\ queue' = queue \cup {s}
    /\ UNCHANGED <<apiVars, seenConfig, job, pathHandlers, call, bounds>>

\* Mutant of ObserveConfig: the configuration is not watched.
ObserveConfigOnly ==
    /\ seenConfig # config
    /\ seenConfig' = config
    /\ UNCHANGED <<apiVars, seenSyncer, queue, job, pathHandlers, call, bounds>>

ObserveConfig ==
    /\ seenConfig # config
    /\ seenConfig' = config
    /\ queue' = queue \cup Existing(seenSyncer)
    /\ UNCHANGED <<apiVars, seenSyncer, job, pathHandlers, call, bounds>>

(* The manager stops and starts again: handlers, queues and whatever was   *)
(* going on are lost; the syncers that exist are listed and enqueued.      *)
Restart ==
    /\ restarts < MaxRestarts
    /\ restarts' = restarts + 1
    /\ seenSyncer' = syncer /\ seenConfig' = config
    /\ queue' = Existing(syncer)
    /\ job' = [c \in Controllers |-> NoJob]
    /\ pathHandlers' = [s \in Syncers |-> NoHandler]
    /\ call' = [k \in Calls |-> NoCall]
    /\ UNCHANGED <<apiVars, changes>>

---------------------------------------------------------------------------
(* reconcileWebhook, run by the worker of controller c.                    *)

Job(s, spec, step, found, attempts) ==
    [syncer |-> s, spec |-> spec, step |-> step, found |-> found, attempts |-> attempts]

At(c, step) == job[c] # NoJob /\ job[c].step = step

Step(c, step, found, attempts) ==
    job' = [job EXCEPT ![c] = Job(@.syncer, @.spec, step, found, attempts)]

\* The worker takes a request and reads the syncer; not found means deleted.
Take(c) ==
    /\ job[c] = NoJob
    /\ \E s \in queue :
          /\ s.kind = c
          /\ queue' = queue \ {s}
          /\ job' = [job EXCEPT ![c] = Job(s, seenSyncer[s], "register", seenConfig, MaxAttempts)]
    /\ UNCHANGED <<apiVars, cacheVars, pathHandlers, call, bounds>>

\* Mutant of RegisterHandler: it only registers.
RegisterOnly(c) ==
    /\ At(c, "register")
    /\ pathHandlers' = [pathHandlers EXCEPT ![job[c].syncer] =
                            IF job[c].spec = Gone THEN @ ELSE job[c].spec]
    /\ Step(c, "read", seenConfig, MaxAttempts)
    /\ UNCHANGED <<apiVars, cacheVars, queue, call, bounds>>

\* Register or Unregister its handler.
RegisterHandler(c) ==
    /\ At(c, "register")
    /\ pathHandlers' = [pathHandlers EXCEPT ![job[c].syncer] =
                            IF job[c].spec = Gone THEN NoHandler ELSE job[c].spec]
    /\ Step(c, "read", seenConfig, MaxAttempts)
    /\ UNCHANGED <<apiVars, cacheVars, queue, call, bounds>>

\* Mutant of Requeue: the error is swallowed.
Forget(c) ==
    /\ job' = [job EXCEPT ![c] = NoJob]
    /\ UNCHANGED queue

\* The error is returned: the request is queued again.
Requeue(c) ==
    /\ queue' = queue \cup {job[c].syncer}
    /\ job' = [job EXCEPT ![c] = NoJob]


\* A missing object selector is stored as an empty one, which is not equal
\* to it.
webhookEntryEqual(a, b) ==
    a # NoEntry /\ a.spec.compared = b.spec.compared /\ b.spec.selector

\* What upsert would leave of the configuration it found.
Upserted(c, webhooks) ==
    [webhooks EXCEPT ![EntryName(job[c].syncer)] =
        IF job[c].spec = Gone THEN NoEntry ELSE Entry(job[c].syncer, job[c].spec)]

\* The list is rebuilt without the entry, which is appended at its end.
Rebuilt(c, found) ==
    LET n == EntryName(job[c].syncer)
        others == {m \in EntryNames \ {n} : found.webhooks[m] # NoEntry}
    IN  {p \in found.order : p[1] \in others /\ p[2] \in others}
            \cup {p \in others \X {n} : job[c].spec # Gone}

NothingToDo(c, found) ==
    IF job[c].spec = Gone THEN ~found.exists
    ELSE /\ found.exists
         /\ webhookEntryEqual(found.webhooks[EntryName(job[c].syncer)],
                              Entry(job[c].syncer, job[c].spec))

\* upsert, one attempt: read the shared configuration.
ReadConfig(c) ==
    /\ At(c, "read")
    /\ Step(c, IF NothingToDo(c, seenConfig) THEN "done" ELSE "write", seenConfig, job[c].attempts)
    /\ UNCHANGED <<apiVars, cacheVars, queue, pathHandlers, call, bounds>>

\* The API server refuses a write based on another version.
Conflict(c) == job[c].found.exists /\ config.exists /\ job[c].found.version # config.version

\* The configuration was created or deleted since it was read.
Vanished(c) == job[c].found.exists # config.exists

\* upsert, one attempt: Create or Update; writing the very list that is
\* there is no change.
WriteConfig(c) ==
    /\ At(c, "write")
    /\ ~Conflict(c) /\ ~Vanished(c)
    /\ LET webhooks == Upserted(c, job[c].found.webhooks)
           order == Rebuilt(c, job[c].found)
       IN  config' = IF config.exists /\ webhooks = config.webhooks /\ order = config.order
                     THEN config ELSE Config(webhooks, order)
    /\ Step(c, "done", job[c].found, job[c].attempts)
    /\ UNCHANGED <<syncer, cacheVars, queue, pathHandlers, call, bounds>>

\* Mutant of RetryWrite: the next attempt writes what the last one read.
RetryWithoutReading(c) ==
    /\ At(c, "write")
    /\ Conflict(c)
    /\ Step(c, "write", [job[c].found EXCEPT !.version = config.version], job[c].attempts)
    /\ UNCHANGED <<apiVars, cacheVars, queue, pathHandlers, call, bounds>>

\* Mutant of RetryWrite: the attempts do not run out.
RetryAlways(c) ==
    /\ At(c, "write")
    /\ Conflict(c)
    /\ Step(c, "read", job[c].found, job[c].attempts - 1)
    /\ UNCHANGED <<apiVars, cacheVars, queue, pathHandlers, call, bounds>>

\* RetryOnConflict: read again, until the attempts are used up.
RetryWrite(c) ==
    /\ At(c, "write")
    /\ Conflict(c)
    /\ \/ /\ job[c].attempts > 1
          /\ Step(c, "read", job[c].found, job[c].attempts - 1)
          /\ UNCHANGED queue
       \/ /\ job[c].attempts <= 1
          /\ Requeue(c)
    /\ UNCHANGED <<apiVars, cacheVars, pathHandlers, call, bounds>>

\* Any other error of the certificate, the read or the write.
UpsertFails(c) ==
    /\ \/ At(c, "write") /\ Vanished(c)
       \/ MayFail /\ (At(c, "read") \/ At(c, "write"))
    /\ Requeue(c)
    /\ UNCHANGED <<apiVars, cacheVars, pathHandlers, call, bounds>>

\* The condition is written to the syncer's status, whose change, if it is
\* one, comes back as an event.
Finish(c) ==
    /\ At(c, "done")
    /\ \/ UNCHANGED queue
       \/ job[c].spec # Gone /\ queue' = queue \cup {job[c].syncer}
    /\ job' = [job EXCEPT ![c] = NoJob]
    /\ UNCHANGED <<apiVars, cacheVars, pathHandlers, call, bounds>>

---------------------------------------------------------------------------
(* The interception server is called on the path of s, whose entry is in   *)
(* the configuration, and has no handler: it looks for the syncer.         *)
MissHandler(k, s) ==
    /\ call[k] = NoCall
    /\ config.webhooks[EntryName(s)] # NoEntry /\ config.webhooks[EntryName(s)].path = s
    /\ pathHandlers[s] = NoHandler
    /\ seenSyncer[s] # Gone                 \* else 404
    /\ call' = [call EXCEPT ![k] = [syncer |-> s, spec |-> seenSyncer[s]]]
    /\ UNCHANGED <<apiVars, cacheVars, queue, job, pathHandlers, bounds>>

\* It registers what it found, and handles the call with it.
RegisterFound(k) ==
    /\ call[k] # NoCall
    /\ pathHandlers' = [pathHandlers EXCEPT ![call[k].syncer] = call[k].spec]
    /\ call' = [call EXCEPT ![k] = NoCall]
    /\ UNCHANGED <<apiVars, cacheVars, queue, job, bounds>>

---------------------------------------------------------------------------
Work(c) ==
    \/ Take(c) \/ RegisterHandler(c) \/ ReadConfig(c)
    \/ WriteConfig(c) \/ RetryWrite(c) \/ UpsertFails(c) \/ Finish(c)

Quiet ==
    /\ queue = {} /\ job = [c \in Controllers |-> NoJob] /\ call = [k \in Calls |-> NoCall]
    /\ seenSyncer = syncer /\ seenConfig = config

Next ==
    \/ \E s \in Syncers : ChangeSyncer(s) \/ ObserveSyncer(s)
    \/ TamperConfig \/ ObserveConfig \/ Restart
    \/ \E c \in Controllers : Work(c)
    \/ \E k \in Calls : RegisterFound(k) \/ \E s \in Syncers : MissHandler(k, s)
    \/ Quiet /\ UNCHANGED vars          \* nothing left to do

Spec == Init /\ [][Next]_vars

(* Informers deliver, workers work and calls return; a read or a write     *)
(* that keeps being tried does not fail every time.                        *)
Fairness ==
    /\ \A s \in Syncers : WF_vars(ObserveSyncer(s))
    /\ WF_vars(ObserveConfig)
    /\ \A c \in Controllers : WF_vars(Work(c)) /\ SF_vars(ReadConfig(c)) /\ SF_vars(WriteConfig(c))
    /\ \A k \in Calls : WF_vars(RegisterFound(k))

FairSpec == Spec /\ Fairness

---------------------------------------------------------------------------
Specs == SyncerSpecs \cup {Gone}

Entries == [path : Syncers, spec : SyncerSpecs]

Configs == [exists : BOOLEAN, version : Versions, webhooks : [EntryNames -> Entries \cup {NoEntry}],
            order : SUBSET (EntryNames \X EntryNames)]

Jobs == [syncer : Syncers, spec : Specs, step : {"register", "read", "write", "done"},
         found : Configs, attempts : 0 .. MaxAttempts]

ASSUME NothingAssumption == NoEntry \notin Entries /\ NoJob \notin Jobs

TypeOK ==
    /\ syncer \in [Syncers -> Specs] /\ seenSyncer \in [Syncers -> Specs]
    /\ config \in Configs /\ seenConfig \in Configs
    /\ queue \subseteq Syncers
    /\ job \in [Controllers -> Jobs \cup {NoJob}]
    /\ pathHandlers \in [Syncers -> SyncerSpecs \cup {NoHandler}]
    /\ call \in [Calls -> [syncer : Syncers, spec : SyncerSpecs] \cup {NoCall}]
    /\ changes \in 0 .. MaxChanges /\ restarts \in 0 .. MaxRestarts

(* dynamic_webhook.go:111, without the retry on conflict "a concurrent     *)
(* reconcile would silently drop the other's entry", and                   *)
(* clusterwideremotesyncer_controller.go:110, names are "Kept distinct     *)
(* [...] so the two controllers can never claim the same entry": a worker  *)
(* changes the entry of the syncer it reconciles and no other syncer's, as *)
(* long as no namespace is called clusterwide.                             *)
OwnEntryOnly ==
    [][\A c \in Controllers : WriteConfig(c) =>
          \A n \in EntryNames : config'.webhooks[n] # config.webhooks[n] =>
              \A e \in {config.webhooks[n], config'.webhooks[n]} \ {NoEntry} :
                  e.path = job[c].syncer]_vars

\* The entry of s in the configuration, as far as webhookEntryEqual looks.
Intercepted(s) ==
    LET e == config.webhooks[EntryName(s)]
    IN  e # NoEntry /\ e.path = s /\ e.spec.compared = syncer[s].compared

(* Once everything is processed, every syncer that exists has its entry    *)
(* with its current spec, however the changes, the events, the conflicts,  *)
(* the retries and the restarts interleaved (reconcileWebhook, upsert).    *)
ExistingAreIntercepted ==
    Quiet => \A s \in Existing(syncer) : Intercepted(s)

(* Once everything is processed, calls are handled with the current specs: *)
(* the handlers registered by reconcileWebhook are those of the syncers    *)
(* that exist.                                                             *)
HandlersAreCurrent ==
    Quiet => \A s \in Syncers :
        pathHandlers[s] = IF syncer[s] = Gone THEN NoHandler ELSE syncer[s]

(* remotesyncer_controller.go:97, reconcileWebhook "removes its entry when *)
(* the object no longer exists".                                           *)
GoneAreNotIntercepted ==
    Quiet => \A s \in Syncers \ Existing(syncer) :
        LET e == config.webhooks[EntryName(s)] IN e = NoEntry \/ e.path # s

(* When users stop changing things, every syncer comes to have its entry   *)
(* with its current spec, and deleted ones none, and it stays so: the two  *)
(* controllers, each woken up by the other's writes, do not undo or starve *)
(* each other.  The order of the entries may keep changing, see below.     *)
EventuallyIntercepted ==
    <>[](\A s \in Syncers : IF syncer[s] # Gone THEN Intercepted(s)
                            ELSE config.webhooks[EntryName(s)] = NoEntry)

=============================================================================
