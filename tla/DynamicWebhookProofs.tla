------------------------ MODULE DynamicWebhookProofs ------------------------
(***************************************************************************)
(* The shared configuration and the handlers, for any set of syncers and   *)
(* specs, any number of changes, retries, failures and calls.              *)
(***************************************************************************)
EXTENDS DynamicWebhook, TLAPS

\* Names are distinct unless a namespace is called clusterwide.
DistinctNames == \A s, t \in Syncers : EntryName(s) = EntryName(t) => s = t

\* The worker of a controller reconciles syncers of its kind, and with the
\* spec that the cache has now, or the syncer is queued again.
JobInv ==
    \A c \in Controllers : job[c] # NoJob =>
        /\ job[c].syncer.kind = c
        /\ job[c].syncer \notin queue => job[c].spec = seenSyncer[job[c].syncer]

\* A copy of the configuration that has its version is the current one:
\* every change makes a new version.
Known(x) == x.version = config.version => x = config

\* An entry has the name of the syncer it calls for.
WellNamed(x) ==
    /\ \A n \in EntryNames : x.webhooks[n] # NoEntry => EntryName(x.webhooks[n].path) = n
    /\ ~x.exists => x.webhooks = NoWebhooks

ConfigInv ==
    /\ WellNamed(config)
    /\ WellNamed(seenConfig) /\ Known(seenConfig)
    /\ \A c \in Controllers : job[c] # NoJob => WellNamed(job[c].found) /\ Known(job[c].found)

IInv == TypeOK /\ JobInv /\ ConfigInv

\* The worker of s has it in hand, at one of steps.
InHand(s, steps) ==
    job[s.kind] # NoJob /\ job[s.kind].syncer = s /\ job[s.kind].step \in steps

\* A syncer that is neither queued nor about to be registered has the
\* handler of its spec.
HandlerInv ==
    \A s \in Syncers \ queue : ~InHand(s, {"register"}) =>
        pathHandlers[s] = IF seenSyncer[s] = Gone THEN NoHandler ELSE seenSyncer[s]

\* A syncer that is neither queued nor in hand has its entry, or the cache
\* has yet to see the configuration, which queues every syncer.
InterceptInv ==
    \A s \in Syncers \ queue :
        \/ seenSyncer[s] = Gone
        \/ InHand(s, {"register", "read", "write"})
        \/ seenConfig # config
        \/ /\ config.webhooks[EntryName(s)] # NoEntry
           /\ config.webhooks[EntryName(s)].path = s
           /\ config.webhooks[EntryName(s)].spec.compared = seenSyncer[s].compared

\* A deleted syncer that is neither queued nor in hand has no entry.
GoneInv ==
    /\ config.exists /\ seenConfig.exists
    /\ \A c \in Controllers : job[c] # NoJob => job[c].found.exists
    /\ \A s \in Syncers \ queue :
          \/ seenSyncer[s] # Gone
          \/ InHand(s, {"register", "read", "write"})
          \/ config.webhooks[EntryName(s)] = NoEntry

---------------------------------------------------------------------------
(* Facts about the helpers of the actions.                                 *)

\* What is assumed of the bounds.
LEMMA Bounds == MaxAttempts \in Nat \ {0} /\ MaxChanges \in Nat /\ MaxRestarts \in Nat
  BY ConstantsAssumption

\* The constructor builds jobs.
LEMMA JobFacts ==
    ASSUME NEW s \in Syncers, NEW spec \in Specs, NEW step \in {"register", "read", "write", "done"},
           NEW found \in Configs, NEW attempts \in 0 .. MaxAttempts
    PROVE  /\ Job(s, spec, step, found, attempts) \in Jobs
           /\ Job(s, spec, step, found, attempts) # NoJob
           /\ Job(s, spec, step, found, attempts).syncer = s
           /\ Job(s, spec, step, found, attempts).spec = spec
           /\ Job(s, spec, step, found, attempts).step = step
           /\ Job(s, spec, step, found, attempts).found = found
  <1>1. Job(s, spec, step, found, attempts) \in Jobs
    BY DEF Job, Jobs
  <1> QED
    BY <1>1, NothingAssumption DEF Job

\* A worker's job has the fields of a job.
LEMMA JobFields ==
    ASSUME TypeOK, NEW c \in Controllers, job[c] # NoJob
    PROVE  /\ job[c] \in Jobs
           /\ job[c].syncer \in Syncers /\ job[c].spec \in Specs
           /\ job[c].found \in Configs /\ job[c].attempts \in 0 .. MaxAttempts
           /\ EntryName(job[c].syncer) \in EntryNames
  BY DEF TypeOK, Jobs, EntryNames

\* A step of a worker changes where its job is, and nobody else's.
LEMMA StepFacts ==
    ASSUME TypeOK, NEW c \in Controllers, job[c] # NoJob,
           NEW step \in {"register", "read", "write", "done"},
           NEW found \in Configs, NEW attempts \in 0 .. MaxAttempts,
           Step(c, step, found, attempts)
    PROVE  /\ job' \in [Controllers -> Jobs \cup {NoJob}]
           /\ job'[c] # NoJob /\ job'[c].syncer = job[c].syncer /\ job'[c].spec = job[c].spec
           /\ job'[c].step = step /\ job'[c].found = found
           /\ \A d \in Controllers : d # c => job'[d] = job[d]
  <1>1. job \in [Controllers -> Jobs \cup {NoJob}]
    BY DEF TypeOK
  <1>2. PICK j : j = Job(job[c].syncer, job[c].spec, step, found, attempts)
    OBVIOUS
  <1>3. /\ j \in Jobs /\ j # NoJob /\ j.syncer = job[c].syncer /\ j.spec = job[c].spec
        /\ j.step = step /\ j.found = found
    BY <1>2, JobFields, JobFacts
  <1>4. job' = [job EXCEPT ![c] = j]
    BY <1>2 DEF Step
  <1> QED
    BY <1>1, <1>3, <1>4

\* What upsert writes is a set of entries; it differs from what it found in
\* the entry of the reconciled syncer only.
LEMMA UpsertedFacts ==
    ASSUME TypeOK, NEW c \in Controllers, job[c] # NoJob,
           NEW webhooks \in [EntryNames -> Entries \cup {NoEntry}]
    PROVE  /\ Upserted(c, webhooks) \in [EntryNames -> Entries \cup {NoEntry}]
           /\ \A n \in EntryNames : n # EntryName(job[c].syncer) => Upserted(c, webhooks)[n] = webhooks[n]
           /\ job[c].spec = Gone => Upserted(c, webhooks)[EntryName(job[c].syncer)] = NoEntry
           /\ job[c].spec # Gone =>
                 /\ Upserted(c, webhooks)[EntryName(job[c].syncer)] # NoEntry
                 /\ Upserted(c, webhooks)[EntryName(job[c].syncer)].path = job[c].syncer
                 /\ Upserted(c, webhooks)[EntryName(job[c].syncer)].spec = job[c].spec
  <1>1. job[c].syncer \in Syncers /\ job[c].spec \in Specs /\ EntryName(job[c].syncer) \in EntryNames
    BY JobFields
  <1>2. PICK e : e = IF job[c].spec = Gone THEN NoEntry ELSE Entry(job[c].syncer, job[c].spec)
    OBVIOUS
  <1>3. /\ job[c].spec = Gone => e = NoEntry
        /\ job[c].spec # Gone => e \in Entries /\ e.path = job[c].syncer /\ e.spec = job[c].spec
    BY <1>1, <1>2 DEF Entry, Entries, Specs
  <1>4. Upserted(c, webhooks) = [webhooks EXCEPT ![EntryName(job[c].syncer)] = e]
    BY <1>2 DEF Upserted
  <1> HIDE DEF Entries
  <1> QED
    BY <1>1, <1>3, <1>4, NothingAssumption

\* A configuration is made of its fields.
LEMMA ConfigFields ==
    ASSUME NEW x \in Configs
    PROVE  /\ x.exists \in BOOLEAN /\ x.version \in Versions
           /\ x.webhooks \in [EntryNames -> Entries \cup {NoEntry}]
           /\ x.order \in SUBSET (EntryNames \X EntryNames)
  BY DEF Configs

\* The configuration of a cluster without syncers is one.
LEMMA NoWebhooksType == NoWebhooks \in [EntryNames -> Entries \cup {NoEntry}]
  BY DEF NoWebhooks

\* A new version is one that no copy has.
LEMMA NewVersionFacts ==
    ASSUME TypeOK
    PROVE  NewVersion \in Versions /\ NewVersion \notin UsedVersions
  <1>1. PICK a, b : /\ job["RemoteSyncer"] # NoJob => job["RemoteSyncer"].found.version = a
                    /\ job["ClusterWideRemoteSyncer"] # NoJob =>
                          job["ClusterWideRemoteSyncer"].found.version = b
    OBVIOUS
  <1>2. UsedVersions \subseteq {config.version, seenConfig.version, a, b}
    BY <1>1 DEF UsedVersions, Controllers
  <1>3. ASSUME NEW x, NEW y, NEW z, NEW w
        PROVE  \E v \in 0 .. 4 : v \notin {x, y, z, w}
    <2>1. \/ 0 \notin {x, y, z, w} \/ 1 \notin {x, y, z, w} \/ 2 \notin {x, y, z, w}
          \/ 3 \notin {x, y, z, w} \/ 4 \notin {x, y, z, w}
      OBVIOUS
    <2> QED
      BY <2>1
  <1>4. \E v \in Versions : v \notin UsedVersions
    BY <1>2, <1>3 DEF Versions
  <1> QED
    BY <1>4 DEF NewVersion

\* Copies have versions that are used.
LEMMA CopiesAreUsed ==
    /\ config.version \in UsedVersions /\ seenConfig.version \in UsedVersions
    /\ \A c \in Controllers : job[c] # NoJob => job[c].found.version \in UsedVersions
  BY DEF UsedVersions

\* What the API server stores.
LEMMA StoredFacts ==
    ASSUME TypeOK, NEW w \in [EntryNames -> Entries \cup {NoEntry}],
           NEW o \in SUBSET (EntryNames \X EntryNames)
    PROVE  /\ Config(w, o) \in Configs /\ Config(w, o).version \notin UsedVersions
           /\ Config(w, o).exists = TRUE /\ Config(w, o).webhooks = w
  BY NewVersionFacts DEF Config, Configs

\* The rebuilt list has entry names.
LEMMA RebuiltType ==
    ASSUME TypeOK, NEW c \in Controllers, job[c] # NoJob
    PROVE  Rebuilt(c, job[c].found) \in SUBSET (EntryNames \X EntryNames)
  <1>1. job[c].found.order \in SUBSET (EntryNames \X EntryNames) /\ EntryName(job[c].syncer) \in EntryNames
    BY JobFields, ConfigFields
  <1> QED
    BY <1>1 DEF Rebuilt

\* An entry is taken out by hand.
LEMMA TamperFacts ==
    ASSUME TypeOK, NEW n \in EntryNames
    PROVE  /\ [config.webhooks EXCEPT ![n] = NoEntry] \in [EntryNames -> Entries \cup {NoEntry}]
           /\ {p \in config.order : n \notin {p[1], p[2]}} \in SUBSET (EntryNames \X EntryNames)
  BY ConfigFields DEF TypeOK

\* What a write leaves.
LEMMA Written ==
    ASSUME TypeOK, NEW c \in Controllers, WriteConfig(c)
    PROVE  /\ config' \in Configs
           /\ config' = config \/ config'.version \notin UsedVersions
           /\ config'.exists
           /\ config'.webhooks = Upserted(c, job[c].found.webhooks)
  <1>1. job[c] # NoJob
    BY DEF WriteConfig, At
  <1>2. PICK w, o : w = Upserted(c, job[c].found.webhooks) /\ o = Rebuilt(c, job[c].found)
    OBVIOUS
  <1>3. w \in [EntryNames -> Entries \cup {NoEntry}] /\ o \in SUBSET (EntryNames \X EntryNames)
    BY <1>1, <1>2, UpsertedFacts, JobFields, ConfigFields, RebuiltType
  <1>4. config' = IF config.exists /\ w = config.webhooks /\ o = config.order THEN config
                  ELSE Config(w, o)
    BY <1>2 DEF WriteConfig
  <1>5. config \in Configs
    BY DEF TypeOK
  <1>6. CASE config.exists /\ w = config.webhooks /\ o = config.order
    BY <1>2, <1>4, <1>5, <1>6
  <1>7. CASE config' = Config(w, o)
    BY <1>2, <1>3, <1>7, StoredFacts
  <1> QED
    BY <1>4, <1>6, <1>7

\* What a step does to the configuration: nothing, or a new version.
LEMMA ConfigStep ==
    ASSUME TypeOK, [Next]_vars
    PROVE  config' \in Configs /\ (config' = config \/ config'.version \notin UsedVersions)
  <1>0. config \in Configs
    BY DEF TypeOK
  <1>1. ASSUME TamperConfig
        PROVE  config' \in Configs /\ config'.version \notin UsedVersions
    <2>1. CASE config' = [exists |-> FALSE, version |-> NewVersion, webhooks |-> NoWebhooks, order |-> {}]
      BY <2>1, NewVersionFacts, NoWebhooksType DEF Configs
    <2>2. ASSUME NEW n \in EntryNames,
                 config' = Config([config.webhooks EXCEPT ![n] = NoEntry],
                                  {p \in config.order : n \notin {p[1], p[2]}})
          PROVE  config' \in Configs /\ config'.version \notin UsedVersions
      BY <2>2, TamperFacts, StoredFacts
    <2> QED
      BY <1>1, <2>1, <2>2 DEF TamperConfig
  <1>2. UNCHANGED config \/ TamperConfig \/ \E c \in Controllers : WriteConfig(c)
    BY DEF Next, vars, apiVars, cacheVars, bounds, ChangeSyncer, ObserveSyncer, ObserveConfig, Restart, Work,
           Take, RegisterHandler, ReadConfig, RetryWrite, UpsertFails, Finish, RegisterFound, MissHandler
  <1> QED
    BY <1>0, <1>1, <1>2, Written

\* The worker goes on with the syncer and the spec it has, and with the
\* configuration it read before or the cached one.
GoesOn(c) ==
    /\ job[c] # NoJob /\ job'[c].syncer = job[c].syncer /\ job'[c].spec = job[c].spec
    /\ job'[c].found \in {job[c].found, seenConfig}
    /\ UNCHANGED <<queue, seenSyncer>>

\* The worker takes a queued syncer of its kind, as the cache has it.
Takes(c) ==
    \E s \in queue :
        /\ s.kind = c /\ queue' = queue \ {s}
        /\ job'[c].syncer = s /\ job'[c].spec = seenSyncer[s] /\ job'[c].step = "register"
        /\ job'[c].found = seenConfig
        /\ UNCHANGED <<config, seenSyncer, seenConfig, pathHandlers>>

\* What a step does to the workers.
LEMMA JobStep ==
    ASSUME TypeOK, [Next]_vars
    PROVE  /\ job' \in [Controllers -> Jobs \cup {NoJob}]
           /\ \A c \in Controllers : job'[c] \in {NoJob, job[c]} \/ GoesOn(c) \/ Takes(c)
  <1>0. /\ job \in [Controllers -> Jobs \cup {NoJob}] /\ seenConfig \in Configs
        /\ seenSyncer \in [Syncers -> Specs] /\ queue \subseteq Syncers
    BY DEF TypeOK
  <1> DEFINE Good == /\ job' \in [Controllers -> Jobs \cup {NoJob}]
                     /\ \A c \in Controllers : job'[c] \in {NoJob, job[c]} \/ GoesOn(c) \/ Takes(c)
  <1>a. MaxAttempts \in 0 .. MaxAttempts
    BY Bounds
  <1>1. ASSUME NEW c \in Controllers, job[c] # NoJob,
               NEW step \in {"register", "read", "write", "done"},
               NEW found \in {job[c].found, seenConfig}, NEW attempts \in 0 .. MaxAttempts,
               Step(c, step, found, attempts), UNCHANGED <<queue, seenSyncer>>
        PROVE  Good
    <2>1. found \in Configs
      BY <1>0, <1>1, JobFields
    <2>2. /\ job' \in [Controllers -> Jobs \cup {NoJob}]
          /\ job'[c] # NoJob /\ job'[c].syncer = job[c].syncer /\ job'[c].spec = job[c].spec
          /\ job'[c].found = found
          /\ \A d \in Controllers : d # c => job'[d] = job[d]
      BY <1>1, <2>1, StepFacts
    <2> QED
      BY <1>1, <2>2 DEF GoesOn
  <1>2. ASSUME NEW c \in Controllers, job' = [job EXCEPT ![c] = NoJob] PROVE Good
    BY <1>0, <1>2
  <1>3. ASSUME UNCHANGED job PROVE Good
    BY <1>0, <1>3
  <1>4. ASSUME NEW c \in Controllers, Take(c) PROVE Good
    <2>1. PICK s \in queue : /\ s.kind = c /\ queue' = queue \ {s}
                             /\ job' = [job EXCEPT ![c] = Job(s, seenSyncer[s], "register", seenConfig, MaxAttempts)]
      BY <1>4 DEF Take
    <2>2. PICK j : j = Job(s, seenSyncer[s], "register", seenConfig, MaxAttempts)
      OBVIOUS
    <2>3. s \in Syncers /\ seenSyncer[s] \in Specs
      BY <1>0
    <2>4. j \in Jobs /\ j.syncer = s /\ j.spec = seenSyncer[s] /\ j.step = "register" /\ j.found = seenConfig
      BY <1>0, <1>a, <2>2, <2>3, JobFacts
    <2>5. job' = [job EXCEPT ![c] = j]
      BY <2>1, <2>2
    <2>6. UNCHANGED <<config, seenSyncer, seenConfig, pathHandlers>>
      BY <1>4 DEF Take, apiVars, cacheVars
    <2>7. job' \in [Controllers -> Jobs \cup {NoJob}] /\ \A d \in Controllers : d # c => job'[d] = job[d]
      BY <1>0, <2>4, <2>5
    <2>8. job'[c] = j
      BY <1>0, <2>5
    <2>9. Takes(c)
      BY <2>1, <2>4, <2>6, <2>8 DEF Takes
    <2> QED
      BY <2>7, <2>9
  <1>5. ASSUME NEW c \in Controllers, RegisterHandler(c) PROVE Good
    <2>1. job[c] # NoJob /\ Step(c, "read", seenConfig, MaxAttempts) /\ UNCHANGED <<queue, seenSyncer>>
      BY <1>5 DEF RegisterHandler, At, cacheVars
    <2> HIDE DEF Good
    <2> QED
      BY <1>1, <1>a, <2>1
  <1>6. ASSUME NEW c \in Controllers, ReadConfig(c) PROVE Good
    <2>1. PICK step \in {"done", "write"} : Step(c, step, seenConfig, job[c].attempts)
      BY <1>6 DEF ReadConfig
    <2>2. job[c] # NoJob /\ job[c].attempts \in 0 .. MaxAttempts /\ UNCHANGED <<queue, seenSyncer>>
      BY <1>6, JobFields DEF ReadConfig, At, cacheVars
    <2> HIDE DEF Good
    <2> QED
      BY <1>1, <2>1, <2>2
  <1>7. ASSUME NEW c \in Controllers, WriteConfig(c) PROVE Good
    <2>1. Step(c, "done", job[c].found, job[c].attempts)
      BY <1>7 DEF WriteConfig
    <2>2. job[c] # NoJob /\ job[c].attempts \in 0 .. MaxAttempts /\ UNCHANGED <<queue, seenSyncer>>
      BY <1>7, JobFields DEF WriteConfig, At, cacheVars
    <2> HIDE DEF Good
    <2> QED
      BY <1>1, <2>1, <2>2
  <1>8. ASSUME NEW c \in Controllers, RetryWrite(c) PROVE Good
    <2>1. CASE job' = [job EXCEPT ![c] = NoJob]
      BY <1>2, <2>1
    <2>2. CASE job[c].attempts > 1 /\ Step(c, "read", job[c].found, job[c].attempts - 1) /\ UNCHANGED queue
      <3>1. job[c] # NoJob /\ job[c].attempts \in 0 .. MaxAttempts /\ UNCHANGED seenSyncer
        BY <1>8, JobFields DEF RetryWrite, At, cacheVars
      <3>2. job[c].attempts - 1 \in 0 .. MaxAttempts
        BY <2>2, <3>1, Bounds
      <3> HIDE DEF Good
      <3> QED
        BY <1>1, <2>2, <3>1, <3>2
    <2> QED
      BY <1>8, <2>1, <2>2 DEF RetryWrite, Requeue
  <1>9. ASSUME NEW c \in Controllers, UpsertFails(c) \/ Finish(c) PROVE Good
    <2>1. job' = [job EXCEPT ![c] = NoJob]
      BY <1>9 DEF UpsertFails, Requeue, Finish
    <2> QED
      BY <1>2, <2>1
  <1>10. ASSUME Restart PROVE Good
    BY <1>0, <1>10 DEF Restart
  <1>11. \/ UNCHANGED job \/ Restart
         \/ \E c \in Controllers : Work(c)
    BY DEF Next, vars, ChangeSyncer, ObserveSyncer, TamperConfig, ObserveConfig, RegisterFound, MissHandler
  <1> HIDE DEF Good
  <1>12. Good
    BY <1>3, <1>4, <1>5, <1>6, <1>7, <1>8, <1>9, <1>10, <1>11 DEF Work
  <1> QED
    BY <1>12 DEF Good

\* Every step keeps the state well typed.
LEMMA TypeStep == ASSUME TypeOK, [Next]_vars PROVE TypeOK'
  <1>1. config' \in Configs /\ job' \in [Controllers -> Jobs \cup {NoJob}]
    BY ConfigStep, JobStep
  <1>2. syncer' \in [Syncers -> Specs] /\ seenSyncer' \in [Syncers -> Specs] /\ seenConfig' \in Configs
    <2>1. syncer' = syncer \/ \E s \in Syncers, new \in Specs : syncer' = [syncer EXCEPT ![s] = new]
      BY DEF Next, vars, apiVars, ChangeSyncer, ObserveSyncer, TamperConfig, ObserveConfig, Restart, Work, Take,
             RegisterHandler, ReadConfig, WriteConfig, RetryWrite, UpsertFails, Finish, RegisterFound,
             MissHandler, Specs
    <2>2. \/ UNCHANGED cacheVars
          \/ UNCHANGED seenConfig /\ \E s \in Syncers : seenSyncer' = [seenSyncer EXCEPT ![s] = syncer[s]]
          \/ UNCHANGED seenSyncer /\ seenConfig' = config
          \/ seenSyncer' = syncer /\ seenConfig' = config
      BY DEF Next, vars, ChangeSyncer, ObserveSyncer, TamperConfig, ObserveConfig, Restart, Work, Take,
             RegisterHandler, ReadConfig, WriteConfig, RetryWrite, UpsertFails, Finish, RegisterFound,
             MissHandler
    <2> QED
      BY <2>1, <2>2 DEF TypeOK, cacheVars
  <1>3. queue' \subseteq Syncers
    <2>1. ASSUME NEW c \in Controllers, Work(c) PROVE queue' \subseteq Syncers
      BY <2>1, JobFields DEF Work, Take, RegisterHandler, ReadConfig, WriteConfig, RetryWrite,
           UpsertFails, Finish, Requeue, At, TypeOK
    <2>2. ASSUME NEW s \in Syncers, ObserveSyncer(s) PROVE queue' \subseteq Syncers
      BY <2>2 DEF ObserveSyncer, TypeOK
    <2>3. ASSUME ObserveConfig \/ Restart PROVE queue' \subseteq Syncers
      BY <2>3 DEF ObserveConfig, Restart, Existing, TypeOK
    <2>4. ASSUME UNCHANGED queue PROVE queue' \subseteq Syncers
      BY <2>4 DEF TypeOK
    <2> QED
      BY <2>1, <2>2, <2>3, <2>4 DEF Next, vars, ChangeSyncer, TamperConfig, RegisterFound, MissHandler
  <1>4. /\ pathHandlers' \in [Syncers -> SyncerSpecs \cup {NoHandler}]
        /\ call' \in [Calls -> [syncer : Syncers, spec : SyncerSpecs] \cup {NoCall}]
    <2> DEFINE Good == /\ pathHandlers' \in [Syncers -> SyncerSpecs \cup {NoHandler}]
                       /\ call' \in [Calls -> [syncer : Syncers, spec : SyncerSpecs] \cup {NoCall}]
    <2>1. ASSUME NEW k \in Calls, NEW s \in Syncers, MissHandler(k, s) PROVE Good
      <3>1. [syncer |-> s, spec |-> seenSyncer[s]] \in [syncer : Syncers, spec : SyncerSpecs]
        BY <2>1 DEF MissHandler, TypeOK, Specs
      <3> QED
        BY <2>1, <3>1 DEF MissHandler, TypeOK
    <2>2. ASSUME NEW k \in Calls, RegisterFound(k) PROVE Good
      <3>1. call[k].syncer \in Syncers /\ call[k].spec \in SyncerSpecs
        BY <2>2 DEF RegisterFound, TypeOK
      <3> QED
        BY <2>2, <3>1 DEF RegisterFound, TypeOK
    <2>3. ASSUME Restart PROVE Good
      BY <2>3 DEF Restart
    <2>4. ASSUME NEW c \in Controllers, RegisterHandler(c) PROVE Good
      <3>1. job[c].syncer \in Syncers /\ job[c].spec \in Specs
        BY <2>4, JobFields DEF RegisterHandler, At
      <3> QED
        BY <2>4, <3>1 DEF RegisterHandler, TypeOK, Specs
    <2>5. ASSUME UNCHANGED <<pathHandlers, call>> PROVE Good
      BY <2>5 DEF TypeOK
    <2>6. \/ UNCHANGED <<pathHandlers, call>> \/ Restart
          \/ \E k \in Calls : RegisterFound(k) \/ \E s \in Syncers : MissHandler(k, s)
          \/ \E c \in Controllers : RegisterHandler(c)
      BY DEF Next, vars, ChangeSyncer, ObserveSyncer, TamperConfig, ObserveConfig, Work, Take, ReadConfig,
             WriteConfig, RetryWrite, UpsertFails, Finish
    <2> QED
      BY <2>1, <2>2, <2>3, <2>4, <2>5, <2>6
  <1>5. changes' \in 0 .. MaxChanges /\ restarts' \in 0 .. MaxRestarts
    <2>1. \/ UNCHANGED bounds
          \/ changes < MaxChanges /\ changes' = changes + 1 /\ UNCHANGED restarts
          \/ restarts < MaxRestarts /\ restarts' = restarts + 1 /\ UNCHANGED changes
      BY DEF Next, vars, bounds, ChangeSyncer, ObserveSyncer, TamperConfig, ObserveConfig, Restart, Work, Take,
             RegisterHandler, ReadConfig, WriteConfig, RetryWrite, UpsertFails, Finish, RegisterFound,
             MissHandler
    <2> QED
      BY <2>1, Bounds DEF TypeOK, bounds
  <1> QED
    BY <1>1, <1>2, <1>3, <1>4, <1>5 DEF TypeOK

---------------------------------------------------------------------------
(* The invariant.                                                          *)

\* A syncer leaves the queue in the hands of its worker, and a syncer that
\* the cache sees changed is queued; a restart does both at once.
LEMMA QueueStep ==
    ASSUME TypeOK, [Next]_vars, ~Restart, NEW s \in Syncers
    PROVE  /\ s \in queue /\ s \notin queue' =>
                 job[s.kind] = NoJob /\ job'[s.kind] # NoJob /\ Takes(s.kind) /\ job'[s.kind].syncer = s
           /\ seenSyncer'[s] # seenSyncer[s] => s \in queue'
  <1>0. /\ job \in [Controllers -> Jobs \cup {NoJob}] /\ seenConfig \in Configs
        /\ seenSyncer \in [Syncers -> Specs] /\ queue \subseteq Syncers
    BY DEF TypeOK
  <1>1. seenSyncer'[s] # seenSyncer[s] => s \in queue'
    <2>1. UNCHANGED seenSyncer \/ \E t \in Syncers : ObserveSyncer(t)
      BY DEF Next, vars, cacheVars, ChangeSyncer, TamperConfig, ObserveConfig, Work, Take,
             RegisterHandler, ReadConfig, WriteConfig, RetryWrite, UpsertFails, Finish, RegisterFound,
             MissHandler
    <2> QED
      BY <1>0, <2>1 DEF ObserveSyncer
  <1>2. ASSUME s \in queue, s \notin queue'
        PROVE  job[s.kind] = NoJob /\ job'[s.kind] # NoJob /\ Takes(s.kind) /\ job'[s.kind].syncer = s
    <2>1. PICK c \in Controllers : Take(c)
      BY <1>2 DEF Next, vars, ChangeSyncer, ObserveSyncer, TamperConfig, ObserveConfig, Work,
             RegisterHandler, ReadConfig, WriteConfig, RetryWrite, UpsertFails, Finish, RegisterFound,
             MissHandler, Requeue
    <2>2. s.kind = c /\ queue' = queue \ {s} /\ job[c] = NoJob
          /\ job' = [job EXCEPT ![c] = Job(s, seenSyncer[s], "register", seenConfig, MaxAttempts)]
      BY <1>2, <2>1 DEF Take
    <2>3. MaxAttempts \in 0 .. MaxAttempts /\ seenSyncer[s] \in Specs
      BY <1>0, Bounds
    <2>4. PICK j : j = Job(s, seenSyncer[s], "register", seenConfig, MaxAttempts)
      OBVIOUS
    <2>5. j # NoJob /\ j.syncer = s /\ j.spec = seenSyncer[s] /\ j.step = "register" /\ j.found = seenConfig
      BY <1>0, <2>3, <2>4, JobFacts
    <2>6. job'[c] = j
      BY <1>0, <2>2, <2>4
    <2>7. UNCHANGED <<config, seenSyncer, seenConfig, pathHandlers>>
      BY <2>1 DEF Take, apiVars, cacheVars
    <2>8. Takes(c)
      BY <1>2, <2>2, <2>5, <2>6, <2>7 DEF Takes
    <2> QED
      BY <2>2, <2>5, <2>6, <2>8
  <1> QED
    BY <1>1, <1>2

\* Every step keeps the workers on syncers of their kind, with current specs.
LEMMA JobInvStep == ASSUME TypeOK, JobInv, [Next]_vars PROVE JobInv'
  <1>1. CASE Restart
    BY <1>1 DEF Restart, JobInv
  <1>2. CASE ~Restart
    <2> SUFFICES ASSUME NEW c \in Controllers, job'[c] # NoJob
                 PROVE  /\ job'[c].syncer.kind = c
                        /\ job'[c].syncer \notin queue' => job'[c].spec = seenSyncer'[job'[c].syncer]
      BY DEF JobInv
    <2>1. CASE Takes(c)
      BY <2>1 DEF Takes
    <2>2. CASE GoesOn(c)
      BY <2>2 DEF GoesOn, JobInv
    <2>3. CASE job'[c] = job[c] /\ ~Takes(c)
      <3>1. PICK s \in Syncers : s = job[c].syncer
        BY <2>3, JobFields
      <3>2. s.kind = c /\ (s \notin queue => job[c].spec = seenSyncer[s])
        BY <2>3, <3>1 DEF JobInv
      <3>3. s \in queue /\ s \notin queue' => Takes(c)
        BY <1>2, <3>2, QueueStep
      <3>4. seenSyncer'[s] # seenSyncer[s] => s \in queue'
        BY <1>2, QueueStep
      <3> QED
        BY <2>3, <3>1, <3>2, <3>3, <3>4
    <2> QED
      BY <2>1, <2>2, <2>3, JobStep
  <1> QED
    BY <1>1, <1>2

\* A write keeps the names of the entries.
LEMMA WriteNames ==
    ASSUME IInv, NEW c \in Controllers, WriteConfig(c) PROVE WellNamed(config')
  <1>1. job[c] # NoJob
    BY DEF WriteConfig, At
  <1>2. PICK w : w = Upserted(c, job[c].found.webhooks)
    OBVIOUS
  <1>3. job[c].found.webhooks \in [EntryNames -> Entries \cup {NoEntry}]
    BY <1>1, JobFields, ConfigFields DEF IInv
  <1>4. /\ \A n \in EntryNames : n # EntryName(job[c].syncer) => w[n] = job[c].found.webhooks[n]
        /\ w[EntryName(job[c].syncer)] # NoEntry => w[EntryName(job[c].syncer)].path = job[c].syncer
    BY <1>1, <1>2, <1>3, UpsertedFacts DEF IInv
  <1>5. \A n \in EntryNames : w[n] # NoEntry => EntryName(w[n].path) = n
    BY <1>1, <1>4 DEF IInv, ConfigInv, WellNamed
  <1>6. config'.webhooks = w /\ config'.exists
    BY <1>2, Written DEF IInv
  <1> QED
    BY <1>5, <1>6 DEF WellNamed

\* Every step keeps the configuration and its copies well named, and the
\* copies old or current.
LEMMA ConfigInvStep == ASSUME IInv, [Next]_vars PROVE ConfigInv'
  <1>0. TypeOK /\ config \in Configs /\ ConfigInv /\ seenConfig \in Configs
    BY DEF IInv, TypeOK
  <1>1. WellNamed(config')
    <2>1. ASSUME TamperConfig PROVE WellNamed(config')
      <3>1. CASE config' = [exists |-> FALSE, version |-> NewVersion, webhooks |-> NoWebhooks, order |-> {}]
        BY <3>1 DEF WellNamed, NoWebhooks
      <3>2. ASSUME NEW n \in EntryNames,
                   config' = Config([config.webhooks EXCEPT ![n] = NoEntry],
                                    {p \in config.order : n \notin {p[1], p[2]}})
            PROVE  WellNamed(config')
        <4>1. config'.exists = TRUE /\ config'.webhooks = [config.webhooks EXCEPT ![n] = NoEntry]
          BY <1>0, <3>2, TamperFacts, StoredFacts
        <4>2. config.webhooks \in [EntryNames -> Entries \cup {NoEntry}]
          BY <1>0, ConfigFields
        <4> QED
          BY <1>0, <4>1, <4>2 DEF WellNamed, ConfigInv
      <3> QED
        BY <2>1, <3>1, <3>2 DEF TamperConfig
    <2>2. UNCHANGED config \/ TamperConfig \/ \E c \in Controllers : WriteConfig(c)
      BY DEF Next, vars, apiVars, cacheVars, bounds, ChangeSyncer, ObserveSyncer, ObserveConfig, Restart, Work,
             Take, RegisterHandler, ReadConfig, RetryWrite, UpsertFails, Finish, RegisterFound, MissHandler
    <2> QED
      BY <1>0, <2>1, <2>2, WriteNames DEF ConfigInv
  <1>2. ASSUME NEW x, x.version \in UsedVersions, Known(x) PROVE Known(x)'
    <2>1. config' = config \/ config'.version \notin UsedVersions
      BY <1>0, ConfigStep
    <2> QED
      BY <1>2, <2>1 DEF Known
  <1>3. seenConfig' \in {seenConfig, config} /\ (seenConfig' # seenConfig => UNCHANGED config)
    BY DEF Next, vars, apiVars, cacheVars, ChangeSyncer, ObserveSyncer, TamperConfig, ObserveConfig, Restart, Work,
           Take, RegisterHandler, ReadConfig, WriteConfig, RetryWrite, UpsertFails, Finish, RegisterFound,
           MissHandler
  <1>4. WellNamed(seenConfig') /\ Known(seenConfig)'
    <2>1. CASE seenConfig' = seenConfig
      <3>1. PICK x : x = seenConfig
        OBVIOUS
      <3>2. Known(x)' /\ WellNamed(x)
        BY <1>0, <1>2, <3>1, CopiesAreUsed DEF ConfigInv
      <3> QED
        BY <2>1, <3>1, <3>2 DEF Known
    <2>2. CASE seenConfig' = config /\ UNCHANGED config
      BY <1>0, <2>2 DEF Known, ConfigInv
    <2> QED
      BY <1>3, <2>1, <2>2
  <1>5. ASSUME NEW c \in Controllers, job'[c] # NoJob
        PROVE  WellNamed(job'[c].found) /\ Known(job[c].found)'
    <2>1. job'[c].found = seenConfig \/ (job[c] # NoJob /\ job'[c].found = job[c].found)
      BY <1>0, <1>5, JobStep DEF GoesOn, Takes
    <2>2. PICK x : x = job'[c].found /\ x.version \in UsedVersions /\ Known(x) /\ WellNamed(x)
      BY <1>0, <2>1, CopiesAreUsed DEF ConfigInv
    <2>3. Known(x)'
      BY <1>2, <2>2
    <2> QED
      BY <2>2, <2>3 DEF Known
  <1> QED
    BY <1>1, <1>4, <1>5 DEF ConfigInv, WellNamed

\* The initial state satisfies the invariant.
LEMMA InitIInv == Init => IInv
  <1> SUFFICES ASSUME Init PROVE IInv
    OBVIOUS
  <1>1. MayBeMissing \in BOOLEAN /\ NoWebhooks \in [EntryNames -> Entries \cup {NoEntry}]
    BY ConstantsAssumption, NoWebhooksType
  <1>2. config \in Configs /\ config.webhooks = NoWebhooks
    BY <1>1 DEF Init, Configs, Versions
  <1>3. TypeOK
    BY <1>2, Bounds DEF Init, TypeOK, Specs
  <1>4. ConfigInv
    BY <1>2 DEF Init, ConfigInv, WellNamed, Known, NoWebhooks
  <1> QED
    BY <1>3, <1>4 DEF Init, IInv, JobInv

\* The invariant is inductive.
LEMMA NextIInv == IInv /\ [Next]_vars => IInv'
  BY TypeStep, JobInvStep, ConfigInvStep DEF IInv

---------------------------------------------------------------------------
(* What a write does, and who goes on.                                     *)

\* A write that is not refused was based on the current entries, so it
\* changes the entry of the reconciled syncer only.
LEMMA WriteFacts ==
    ASSUME IInv, NEW c \in Controllers, WriteConfig(c)
    PROVE  /\ \A n \in EntryNames : n # EntryName(job[c].syncer) => config'.webhooks[n] = config.webhooks[n]
           /\ job[c].spec = Gone => config'.webhooks[EntryName(job[c].syncer)] = NoEntry
           /\ job[c].spec # Gone =>
                 /\ config'.webhooks[EntryName(job[c].syncer)] # NoEntry
                 /\ config'.webhooks[EntryName(job[c].syncer)].path = job[c].syncer
                 /\ config'.webhooks[EntryName(job[c].syncer)].spec = job[c].spec
           /\ config'.exists
  <1>1. job[c] # NoJob /\ TypeOK /\ WellNamed(job[c].found) /\ Known(job[c].found) /\ WellNamed(config)
    BY DEF WriteConfig, At, IInv, ConfigInv
  <1>2. job[c].found.webhooks = config.webhooks
    <2>1. job[c].found.exists \in BOOLEAN /\ config.exists \in BOOLEAN
      BY <1>1, JobFields, ConfigFields DEF TypeOK
    <2>2. CASE config.exists
      BY <1>1, <2>1, <2>2 DEF WriteConfig, Conflict, Vanished, Known
    <2>3. CASE ~config.exists
      BY <1>1, <2>1, <2>3 DEF WriteConfig, Vanished, WellNamed
    <2> QED
      BY <2>2, <2>3
  <1>3. PICK w : w = Upserted(c, config.webhooks)
    OBVIOUS
  <1>5. config'.webhooks = w /\ config'.exists
    BY <1>1, <1>2, <1>3, Written
  <1>6. config.webhooks \in [EntryNames -> Entries \cup {NoEntry}]
    BY <1>1, ConfigFields DEF TypeOK
  <1> QED
    BY <1>1, <1>3, <1>5, <1>6, UpsertedFacts

\* The worker of s leaves it at the end, with an error, or where it is.
LEMMA HandStep ==
    ASSUME IInv, [Next]_vars, ~Restart, NEW s \in Syncers, NEW steps, InHand(s, steps)
    PROVE  LET c == s.kind IN
              \/ job'[c] = job[c]
              \/ job'[c] # NoJob /\ job'[c].syncer = s /\ job'[c].step = "read"
                 /\ (RegisterHandler(c) \/ job[c].step = "write")
              \/ job'[c] # NoJob /\ job'[c].syncer = s /\ ReadConfig(c)
                 /\ job'[c].step = IF NothingToDo(c, seenConfig) THEN "done" ELSE "write"
              \/ WriteConfig(c) /\ job[c].step = "write"
              \/ s \in queue'
              \/ job[c].step = "done"
  <1> DEFINE c == s.kind
  <1>0. c \in Controllers /\ job[c] # NoJob /\ job[c].syncer = s /\ TypeOK
    BY ConstantsAssumption DEF InHand, IInv
  <1>00. job \in [Controllers -> Jobs \cup {NoJob}] /\ seenConfig \in Configs
    BY <1>0 DEF TypeOK
  <1> DEFINE Good == \/ job'[c] = job[c]
                     \/ job'[c] # NoJob /\ job'[c].syncer = s /\ job'[c].step = "read"
                        /\ (RegisterHandler(c) \/ job[c].step = "write")
                     \/ job'[c] # NoJob /\ job'[c].syncer = s /\ ReadConfig(c)
                        /\ job'[c].step = IF NothingToDo(c, seenConfig) THEN "done" ELSE "write"
                     \/ WriteConfig(c) /\ job[c].step = "write"
                     \/ s \in queue'
                     \/ job[c].step = "done"
  <1> HIDE DEF c
  <1>a. job[c].attempts \in 0 .. MaxAttempts /\ job[c].found \in Configs /\ MaxAttempts \in 0 .. MaxAttempts
    BY <1>0, JobFields, Bounds
  <1>1. ASSUME NEW d \in Controllers, Work(d), d # c PROVE Good
    <2>1. \E x : job' = [job EXCEPT ![d] = x]
      BY <1>1 DEF Work, Take, RegisterHandler, ReadConfig, WriteConfig, RetryWrite, UpsertFails, Finish, Requeue, Step
    <2> QED
      BY <1>0, <1>00, <1>1, <2>1
  <1>2. ASSUME UNCHANGED job PROVE Good
    BY <1>2
  <1>3. ASSUME RegisterHandler(c) PROVE Good
    <2>1. Step(c, "read", seenConfig, MaxAttempts)
      BY <1>3 DEF RegisterHandler
    <2>2. job'[c] # NoJob /\ job'[c].syncer = s /\ job'[c].step = "read"
      BY <1>0, <1>00, <1>a, <2>1, StepFacts
    <2> QED
      BY <1>3, <2>2
  <1>4. ASSUME ReadConfig(c) PROVE Good
    <2>1. PICK step \in {"done", "write"} : /\ step = IF NothingToDo(c, seenConfig) THEN "done" ELSE "write"
                                            /\ Step(c, step, seenConfig, job[c].attempts)
      BY <1>4 DEF ReadConfig
    <2>2. job'[c] # NoJob /\ job'[c].syncer = s /\ job'[c].step = step
      BY <1>0, <1>00, <1>a, <2>1, StepFacts
    <2> QED
      BY <1>4, <2>1, <2>2
  <1>5. ASSUME RetryWrite(c) PROVE Good
    <2>1. CASE job[c].attempts > 1 /\ Step(c, "read", job[c].found, job[c].attempts - 1)
      <3>1. job[c].attempts - 1 \in 0 .. MaxAttempts
        BY <1>a, <2>1, Bounds
      <3>2. job'[c] # NoJob /\ job'[c].syncer = s /\ job'[c].step = "read"
        BY <1>0, <1>a, <2>1, <3>1, StepFacts
      <3> QED
        BY <1>5, <3>2 DEF RetryWrite, At
    <2>2. CASE Requeue(c)
      BY <1>0, <2>2 DEF Requeue
    <2> QED
      BY <1>5, <2>1, <2>2 DEF RetryWrite
  <1>6. ASSUME UpsertFails(c) PROVE Good
    BY <1>0, <1>6 DEF UpsertFails, Requeue
  <1>7. ASSUME Take(c) \/ WriteConfig(c) \/ Finish(c) PROVE Good
    BY <1>0, <1>7 DEF Take, WriteConfig, Finish, At
  <1>8. UNCHANGED job \/ \E d \in Controllers : Work(d)
    BY DEF Next, vars, ChangeSyncer, ObserveSyncer, TamperConfig, ObserveConfig, RegisterFound, MissHandler
  <1>9. Good
    <2> HIDE DEF Good
    <2> QED
      BY <1>0, <1>1, <1>2, <1>3, <1>4, <1>5, <1>6, <1>7, <1>8 DEF Work
  <1> QED
    BY <1>9 DEF c

---------------------------------------------------------------------------
(* Handlers.                                                               *)

\* Every step keeps the handlers, if no call registers what it found.
LEMMA HandlerStep ==
    ASSUME Calls = {}, IInv, HandlerInv, [Next]_vars PROVE HandlerInv'
  <1>0. TypeOK
    BY DEF IInv
  <1>1. CASE Restart
    BY <1>1 DEF Restart, Existing, HandlerInv
  <1>2. CASE ~Restart
    <2> SUFFICES ASSUME NEW s \in Syncers, s \notin queue', ~InHand(s, {"register"})'
                 PROVE  pathHandlers'[s] = IF seenSyncer'[s] = Gone THEN NoHandler ELSE seenSyncer'[s]
      BY DEF HandlerInv
    <2>1. s.kind \in Controllers
      BY ConstantsAssumption
    <2>2. s \notin queue
      BY <1>0, <1>2, QueueStep DEF InHand, Takes
    <2>3. seenSyncer'[s] = seenSyncer[s]
      BY <1>0, <1>2, QueueStep
    <2>4. ASSUME NEW c \in Controllers, RegisterHandler(c), job[c].syncer = s
          PROVE  pathHandlers'[s] = IF seenSyncer[s] = Gone THEN NoHandler ELSE seenSyncer[s]
      <3>1. job[c] # NoJob /\ job[c].spec = seenSyncer[s]
        BY <2>2, <2>4 DEF RegisterHandler, At, IInv, JobInv
      <3> QED
        BY <1>0, <2>4, <3>1 DEF RegisterHandler, TypeOK
    <2>5. ASSUME pathHandlers'[s] = pathHandlers[s], ~InHand(s, {"register"})
          PROVE  pathHandlers'[s] = IF seenSyncer[s] = Gone THEN NoHandler ELSE seenSyncer[s]
      BY <2>2, <2>5 DEF HandlerInv
    <2>6. UNCHANGED pathHandlers \/ \E c \in Controllers : RegisterHandler(c)
      BY <1>2 DEF Next, vars, ChangeSyncer, ObserveSyncer, TamperConfig, ObserveConfig, Work, Take, ReadConfig,
             WriteConfig, RetryWrite, UpsertFails, Finish
    <2>7. ASSUME \A c \in Controllers : RegisterHandler(c) => job[c].syncer # s
          PROVE  pathHandlers'[s] = pathHandlers[s] /\ ~InHand(s, {"register"})
      <3>1. pathHandlers'[s] = pathHandlers[s]
        <4>1. ASSUME NEW c \in Controllers, RegisterHandler(c) PROVE pathHandlers'[s] = pathHandlers[s]
          BY <1>0, <2>7, <4>1 DEF RegisterHandler, TypeOK
        <4> QED
          BY <2>6, <4>1
      <3>2. ASSUME InHand(s, {"register"}) PROVE FALSE
        <4>1. job[s.kind].step = "register" /\ job[s.kind].syncer = s
          BY <3>2 DEF InHand
        <4>2. ~RegisterHandler(s.kind)
          BY <2>1, <2>7, <4>1
        <4>3. job'[s.kind] # job[s.kind]
          BY <3>2 DEF InHand
        <4>4. ~ReadConfig(s.kind)
          BY <4>1 DEF ReadConfig, At
        <4> QED
          BY <1>2, <3>2, <4>1, <4>2, <4>3, <4>4, HandStep
      <3> QED
        BY <3>1, <3>2
    <2> QED
      BY <2>3, <2>4, <2>5, <2>7
  <1> QED
    BY <1>1, <1>2

---------------------------------------------------------------------------
(* Entries.                                                                *)

\* The cached configuration changes when it catches up, which queues the
\* syncers that exist.
LEMMA CatchUp ==
    ASSUME [Next]_vars, ~Restart
    PROVE  UNCHANGED seenConfig \/ (UNCHANGED <<config, seenSyncer>> /\ Existing(seenSyncer) \subseteq queue')
  BY DEF Next, vars, apiVars, cacheVars, ChangeSyncer, ObserveSyncer, TamperConfig, ObserveConfig, Work,
         Take, RegisterHandler, ReadConfig, WriteConfig, RetryWrite, UpsertFails, Finish, RegisterFound,
         MissHandler

\* Every step keeps the entries of the syncers that exist.
LEMMA InterceptStep ==
    ASSUME DistinctNames, IInv, InterceptInv, [Next]_vars PROVE InterceptInv'
  <1>0. TypeOK /\ config \in Configs /\ seenConfig \in Configs /\ ConfigInv
    BY DEF IInv, TypeOK
  <1>1. CASE Restart
    BY <1>1 DEF Restart, Existing, InterceptInv
  <1>2. CASE ~Restart
    <2> DEFINE Has(x, s) == /\ x.webhooks[EntryName(s)] # NoEntry
                            /\ x.webhooks[EntryName(s)].path = s
                            /\ x.webhooks[EntryName(s)].spec.compared = seenSyncer[s].compared
    <2> SUFFICES ASSUME NEW s \in Syncers, s \notin queue', seenSyncer'[s] # Gone,
                        ~InHand(s, {"register", "read", "write"})', seenConfig' = config'
                 PROVE  /\ config'.webhooks[EntryName(s)] # NoEntry
                        /\ config'.webhooks[EntryName(s)].path = s
                        /\ config'.webhooks[EntryName(s)].spec.compared = seenSyncer'[s].compared
      BY DEF InterceptInv
    <2>1. s.kind \in Controllers /\ EntryName(s) \in EntryNames
      BY ConstantsAssumption DEF EntryNames
    <2>2. s \notin queue
      BY <1>0, <1>2, QueueStep DEF InHand, Takes
    <2>3. seenSyncer'[s] = seenSyncer[s] /\ seenSyncer[s] # Gone
      BY <1>0, <1>2, QueueStep
    <2>4. UNCHANGED seenConfig
      <3>1. s \in Existing(seenSyncer)
        BY <2>3 DEF Existing
      <3> QED
        BY <1>2, <3>1, CatchUp
    <2>5. config' = config /\ seenConfig = config
      <3>1. config' = config \/ config'.version \notin UsedVersions
        BY <1>0, ConfigStep
      <3> QED
        BY <2>4, <3>1, CopiesAreUsed
    <2>6. CASE InHand(s, {"register", "read", "write"})
      <3>1. job[s.kind] # NoJob /\ job[s.kind].syncer = s /\ job[s.kind].spec = seenSyncer[s]
        BY <2>1, <2>2, <2>6 DEF InHand, IInv, JobInv
      <3>2. job'[s.kind] # job[s.kind] /\ job[s.kind].step # "done"
        BY <2>6 DEF InHand
      <3>3. CASE WriteConfig(s.kind)
        BY <2>1, <2>3, <3>1, <3>3, WriteFacts
      <3>4. CASE NothingToDo(s.kind, seenConfig)
        <4>1. /\ config.webhooks[EntryName(s)] # NoEntry
              /\ config.webhooks[EntryName(s)].spec.compared = seenSyncer[s].compared
          BY <2>3, <2>5, <3>1, <3>4 DEF NothingToDo, webhookEntryEqual, Entry
        <4>2. EntryName(config.webhooks[EntryName(s)].path) = EntryName(s)
          BY <1>0, <2>1, <4>1 DEF ConfigInv, WellNamed
        <4>3. config.webhooks[EntryName(s)].path \in Syncers
          <5>1. config.webhooks[EntryName(s)] \in Entries
            BY <1>0, <2>1, <4>1, ConfigFields
          <5> QED
            BY <5>1 DEF Entries
        <4> QED
          BY <2>3, <2>5, <4>1, <4>2, <4>3 DEF DistinctNames
      <3> QED
        BY <1>2, <2>6, <3>2, <3>3, <3>4, HandStep DEF InHand
    <2>7. CASE ~InHand(s, {"register", "read", "write"})
      BY <2>2, <2>3, <2>5, <2>7 DEF InterceptInv
    <2> QED
      BY <2>6, <2>7
  <1> QED
    BY <1>1, <1>2

\* Every step keeps deleted syncers out of the configuration, as long as
\* the manager runs and the configuration stays.
LEMMA GoneStep ==
    ASSUME DistinctNames, ~MayBeMissing, MaxRestarts = 0, IInv, GoneInv, [Next]_vars PROVE GoneInv'
  <1>0. TypeOK /\ config \in Configs /\ config.webhooks \in [EntryNames -> Entries \cup {NoEntry}]
    BY ConfigFields DEF IInv, TypeOK
  <1>1. ~Restart
    BY <1>0 DEF Restart, TypeOK
  <1>2. UNCHANGED config \/ TamperConfig \/ \E c \in Controllers : WriteConfig(c)
    BY DEF Next, vars, apiVars, cacheVars, bounds, ChangeSyncer, ObserveSyncer, ObserveConfig, Restart, Work,
           Take, RegisterHandler, ReadConfig, RetryWrite, UpsertFails, Finish, RegisterFound, MissHandler
  <1>3. ASSUME TamperConfig
        PROVE  config'.exists /\ \A n \in EntryNames : config'.webhooks[n] \in {config.webhooks[n], NoEntry}
    <2>1. PICK n \in EntryNames :
             config' = Config([config.webhooks EXCEPT ![n] = NoEntry],
                              {p \in config.order : n \notin {p[1], p[2]}})
      BY <1>3 DEF TamperConfig
    <2>2. config'.exists = TRUE /\ config'.webhooks = [config.webhooks EXCEPT ![n] = NoEntry]
      BY <1>0, <2>1, TamperFacts, StoredFacts
    <2> QED
      BY <1>0, <2>2
  <1>4. config'.exists /\ seenConfig'.exists
    <2>1. config'.exists
      BY <1>2, <1>3, WriteFacts DEF GoneInv
    <2>2. seenConfig' \in {seenConfig, config}
      BY DEF Next, vars, apiVars, cacheVars, ChangeSyncer, ObserveSyncer, TamperConfig, ObserveConfig, Restart,
             Work, Take, RegisterHandler, ReadConfig, WriteConfig, RetryWrite, UpsertFails, Finish,
             RegisterFound, MissHandler
    <2> QED
      BY <2>1, <2>2 DEF GoneInv
  <1>5. ASSUME NEW c \in Controllers, job'[c] # NoJob PROVE job'[c].found.exists
    <2>1. job'[c].found = seenConfig \/ (job[c] # NoJob /\ job'[c].found = job[c].found)
      BY <1>0, <1>5, JobStep DEF GoesOn, Takes
    <2> QED
      BY <2>1 DEF GoneInv
  <1>6. ASSUME NEW s \in Syncers, s \notin queue', seenSyncer'[s] = Gone,
               ~InHand(s, {"register", "read", "write"})'
        PROVE  config'.webhooks[EntryName(s)] = NoEntry
    <2>1. s.kind \in Controllers /\ EntryName(s) \in EntryNames
      BY ConstantsAssumption DEF EntryNames
    <2>2. s \notin queue
      BY <1>0, <1>1, <1>6, QueueStep DEF InHand, Takes
    <2>3. seenSyncer[s] = Gone
      BY <1>0, <1>1, <1>6, QueueStep
    <2>4. ASSUME NEW c \in Controllers, WriteConfig(c), job[c].syncer = s
          PROVE  config'.webhooks[EntryName(s)] = NoEntry
      <3>1. job[c].spec = Gone
        BY <2>2, <2>3, <2>4 DEF WriteConfig, At, IInv, JobInv
      <3> QED
        BY <2>4, <3>1, WriteFacts
    <2>5. CASE config.webhooks[EntryName(s)] = NoEntry
      <3>1. ASSUME NEW c \in Controllers, WriteConfig(c), job[c].syncer # s
            PROVE  config'.webhooks[EntryName(s)] = NoEntry
        <4>1. EntryName(s) # EntryName(job[c].syncer)
          BY <1>0, <3>1, JobFields DEF DistinctNames, WriteConfig, At
        <4> QED
          BY <2>1, <2>5, <3>1, <4>1, WriteFacts
      <3> QED
        BY <1>2, <1>3, <2>1, <2>4, <2>5, <3>1
    <2>6. CASE InHand(s, {"register", "read", "write"})
      <3>1. job[s.kind] # NoJob /\ job[s.kind].syncer = s /\ job[s.kind].spec = seenSyncer[s]
        BY <2>1, <2>2, <2>6 DEF InHand, IInv, JobInv
      <3>2. job'[s.kind] # job[s.kind] /\ job[s.kind].step # "done"
        BY <1>6, <2>6 DEF InHand
      <3>3. CASE WriteConfig(s.kind)
        BY <2>1, <2>4, <3>1, <3>3
      <3>4. ~NothingToDo(s.kind, seenConfig)
        BY <2>3, <3>1 DEF NothingToDo, GoneInv
      <3> QED
        BY <1>1, <1>6, <2>6, <3>2, <3>3, <3>4, HandStep DEF InHand
    <2> QED
      BY <2>2, <2>3, <2>5, <2>6 DEF GoneInv
  <1> QED
    BY <1>4, <1>5, <1>6 DEF GoneInv

\* When nothing is left to do, no syncer is queued or in hand.
LEMMA QuietIsIdle ==
    ASSUME Quiet, NEW s \in Syncers, NEW steps
    PROVE  s \notin queue /\ ~InHand(s, steps) /\ seenSyncer = syncer /\ seenConfig = config
  BY ConstantsAssumption DEF Quiet, InHand

---------------------------------------------------------------------------
(* The state is well typed in every reachable state.                       *)
THEOREM WebhookTypes == Spec => []TypeOK
  <1>1. IInv => TypeOK
    BY DEF IInv
  <1> QED
    BY <1>1, InitIInv, NextIInv, PTL DEF Spec

(* A worker that updates the shared configuration never touches another    *)
(* syncer's entry, whatever it had read before: what is stale is refused   *)
(* (upsert).  Names must be distinct.                                      *)
THEOREM WritesOwnEntry == ASSUME DistinctNames PROVE Spec => OwnEntryOnly
  <1> DEFINE Own == \A c \in Controllers : WriteConfig(c) =>
                        \A n \in EntryNames : config'.webhooks[n] # config.webhooks[n] =>
                            \A e \in {config.webhooks[n], config'.webhooks[n]} \ {NoEntry} :
                                e.path = job[c].syncer
  <1>1. ASSUME IInv, IInv', NEW c \in Controllers, WriteConfig(c), NEW n \in EntryNames,
               config'.webhooks[n] # config.webhooks[n],
               NEW e \in {config.webhooks[n], config'.webhooks[n]} \ {NoEntry}
        PROVE  e.path = job[c].syncer
    <2>1. n = EntryName(job[c].syncer) /\ job[c].syncer \in Syncers
      BY <1>1, WriteFacts, JobFields DEF IInv, WriteConfig, At
    <2>2. EntryName(e.path) = n
      BY <1>1 DEF IInv, ConfigInv, WellNamed
    <2>3. e \in Entries
      BY <1>1, ConfigFields DEF IInv, TypeOK
    <2> QED
      BY <2>1, <2>2, <2>3 DEF DistinctNames, Entries
  <1>2. IInv /\ IInv' => [Own]_vars
    BY <1>1
  <1> HIDE DEF Own
  <1>3. Spec => [][Own]_vars
    BY <1>2, InitIInv, NextIInv, PTL DEF Spec
  <1> QED
    BY <1>3 DEF OwnEntryOnly, Own

(* When nothing is left to do, every syncer that exists is intercepted,    *)
(* through conflicts, failures, restarts, deletions of the configuration   *)
(* and any number of calls (reconcileWebhook, upsert).                     *)
THEOREM QuietIntercepts == ASSUME DistinctNames PROVE Spec => []ExistingAreIntercepted
  <1>1. Init => InterceptInv
    BY DEF Init, InterceptInv
  <1>2. IInv /\ InterceptInv => ExistingAreIntercepted
    BY QuietIsIdle DEF InterceptInv, ExistingAreIntercepted, Intercepted, Existing
  <1> QED
    BY <1>1, <1>2, InitIInv, NextIInv, InterceptStep, PTL DEF Spec

(* When nothing is left to do, the handlers are those of the current       *)
(* syncers, restarts included, if no call has registered one on its own    *)
(* (Register, Unregister).                                                 *)
THEOREM QuietHandlers == ASSUME Calls = {} PROVE Spec => []HandlersAreCurrent
  <1>1. Init => HandlerInv
    BY DEF Init, HandlerInv
  <1>2. IInv /\ HandlerInv => HandlersAreCurrent
    BY QuietIsIdle DEF HandlerInv, HandlersAreCurrent
  <1> QED
    BY <1>1, <1>2, InitIInv, NextIInv, HandlerStep, PTL DEF Spec

(* When nothing is left to do, deleted syncers are no longer intercepted,  *)
(* provided that the manager did not restart and the configuration was not *)
(* deleted as a whole meanwhile (reconcileWebhook on a missing object).    *)
THEOREM QuietForgetsGone ==
    ASSUME DistinctNames, ~MayBeMissing, MaxRestarts = 0 PROVE Spec => []GoneAreNotIntercepted
  <1>1. Init => GoneInv
    <2> SUFFICES ASSUME Init PROVE GoneInv
      OBVIOUS
    <2>1. config.exists = TRUE /\ config.webhooks = NoWebhooks /\ seenConfig = config /\ job = [c \in Controllers |-> NoJob]
      BY DEF Init
    <2>2. \A s \in Syncers : EntryName(s) \in EntryNames
      BY DEF EntryNames
    <2> QED
      BY <2>1, <2>2 DEF GoneInv, NoWebhooks
  <1>2. IInv /\ GoneInv => GoneAreNotIntercepted
    BY QuietIsIdle DEF GoneInv, GoneAreNotIntercepted, Existing
  <1> QED
    BY <1>1, <1>2, InitIInv, NextIInv, GoneStep, PTL DEF Spec
=============================================================================
