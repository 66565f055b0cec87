---------------------------- MODULE RuntimeLoad -----------------------------
(***************************************************************************)
(* Loading the components of an app and following changes of its files.    *)
(* load_components loads what the spicepod names; start_pods_watcher       *)
(* compares every new version of the app with the current one and loads,   *)
(* updates or removes what differs. Both hold the lock of `Runtime::app`   *)
(* meanwhile: the loaders a read guard, the watcher the write guard. HTTP  *)
(* handlers and the tools of an LLM read under the same lock.              *)
(*                                                                         *)
(* An app is [datasets, catalogs, models, embeddings, tools : functions    *)
(* from names to definitions, views : a set of names, parallel : BOOLEAN]. *)
(* A definition of a dataset is [engine, valid, fault, retry, ver], of a   *)
(* catalog [valid, ver], of a model, an embedding or a tool                *)
(* [type, tools, outcomes, ver], outcomes being those its load may have.   *)
(*                                                                         *)
(* Source: lib.rs, datafusion.rs, podswatcher.rs, builder.rs,              *)
(* datasets_health_monitor.rs and http/v1 of crates/runtime/src.           *)
(***************************************************************************)
EXTENDS Naturals, SequencesExt, FiniteSetsExt

CONSTANTS
    Datasets, Catalogs, Models, Views, \* names
    DependsOn,  \* the datasets each view selects from
    Apps,       \* the versions of the app that the files may hold
    Starts,     \* what the files may hold when the runtime starts
    NoApp,      \* no app: the files are missing or cannot be parsed
    None,       \* no table, no catalog, no model
    Readers,    \* HTTP handlers that read the app
    MaxEdits,   \* bound: changes of the files
    MaxOutages  \* bound: failures of the sources

ASSUME LoadAssumption ==
    /\ NoApp \notin Apps
    /\ Starts \subseteq Apps \cup {NoApp}
    /\ DependsOn \in [Views -> SUBSET Datasets]
    /\ MaxEdits \in Nat /\ MaxOutages \in Nat

\* A spicepod lists finitely many components, by their names.
ASSUME NamesAssumption ==
    /\ IsFiniteSet(Datasets) /\ IsFiniteSet(Catalogs) /\ IsFiniteSet(Models)
    /\ \A a \in Apps :
          /\ DOMAIN a.datasets \subseteq Datasets /\ DOMAIN a.catalogs \subseteq Catalogs
          /\ DOMAIN a.models \cup DOMAIN a.embeddings \cup DOMAIN a.tools \subseteq Models

VARIABLES
    app,      \* Runtime::app
    file,     \* what the files hold
    events,   \* notifications of the file system not yet handled
    updates,  \* the channel of PodsWatcher::watch
    edits,    \* changes of the files so far
    guards,   \* who holds a guard of the app's lock
    queue,    \* who waits for one, in order
    loader,   \* where the futures of load_components stand
    complete, \* initial_load_complete
    next,     \* the app that the pods watcher is applying
    jobs,     \* what the holders of a guard still have to load or remove
    prompting,\* whose LLM awaits the app to write its system prompt
    table,    \* the definition under which a dataset is registered
    catalog,  \* the same of a catalog
    deployed, \* the same of a model, in the map of each type
    status,   \* what loading made of the status of a dataset
    mstatus,  \* the status of a model
    view,     \* the task that creates a view, and the tables it has seen
    monitored,\* datasets of the health monitor
    adopted,  \* history: an app was taken over when there was none
    stranded, \* history: registered when a definition was not valid
    down,     \* datasets whose source cannot be reached
    outages   \* failures of the sources so far

fileVars == <<file, events, updates, edits>>
lockVars == <<guards, queue>>
tableVars == <<table, status>>
modelVars == <<deployed, mstatus, prompting>>
historyVars == <<adopted, stranded>>
sourceVars == <<down, outages>>
vars == <<app, fileVars, lockVars, loader, complete, next, jobs, catalog,
          tableVars, modelVars, view, monitored, historyVars, sourceVars>>

First == {"embeddings"}
Second == {"tools"}
Joined == {"cache", "datasets", "catalogs", "models"}
Loaders == First \cup Second \cup Joined
Watcher == "watcher"
Prompt == "prompt"
Workers == Loaders \cup {Watcher}
Types == {"llm", "ml", "embedding", "tool"}

\* A handler is none of those that load.
ASSUME ReadersAssumption == Readers \cap (Workers \cup {Prompt}) = {}

NoView == [at |-> "none", seen |-> {}]

\* RuntimeBuilder::build and run: nothing is loaded, the watcher and the
\* health monitor have started, load_components is about to.
Init ==
    /\ app \in Starts /\ file = app /\ events = 0 /\ updates = <<>> /\ edits = 0
    /\ guards = {} /\ queue = <<>>
    /\ loader = [l \in Loaders |-> "todo"] /\ complete = FALSE
    /\ next = NoApp /\ jobs = [w \in Workers |-> {}] /\ prompting = None
    /\ table = [d \in Datasets |-> None]
    /\ catalog = [c \in Catalogs |-> None]
    /\ deployed = [m \in Models \X Types |-> None]
    /\ status = [d \in Datasets |-> "none"]
    /\ mstatus = [m \in Models |-> "none"]
    /\ view = [v \in Views |-> NoView]
    /\ monitored = {}
    /\ adopted = FALSE /\ stranded = {}
    /\ down = {} /\ outages = 0

(***************************************************************************)
(* The lock of the app: first come, first served, as tokio's RwLock.       *)
(***************************************************************************)

\* Mutant: a reader that asks while the watcher waits goes first.
ReadersFirst(p) ==
    IF p \in Readers THEN <<p>> \o queue ELSE Append(queue, p)

\* Whoever asks for a guard waits behind those that asked before.
Enqueued(p) == Append(queue, p)

CanRead(p) == queue # <<>> /\ Head(queue) = p /\ Watcher \notin guards
CanWrite == queue # <<>> /\ Head(queue) = Watcher /\ guards = {}

(***************************************************************************)
(* The files.                                                              *)
(***************************************************************************)
Edit(a) ==
    /\ edits < MaxEdits /\ a # file
    /\ file' = a /\ edits' = edits + 1 /\ events' = events + 1
    /\ UNCHANGED <<app, updates, lockVars, loader, complete, next, jobs,
                   catalog, tableVars, modelVars, view, monitored, historyVars,
                   sourceVars>>

\* AppBuilder::build_from_filesystem_path reads the files as they are when
\* the event is handled.
Built == file

\* The callback of the file system's watcher. Files that cannot be parsed are
\* only logged.
HandleEvent ==
    /\ events > 0 /\ events' = events - 1
    /\ updates' = IF Built = NoApp THEN updates ELSE Append(updates, Built)
    /\ UNCHANGED <<app, file, edits, lockVars, loader, complete, next, jobs,
                   catalog, tableVars, modelVars, view, monitored, historyVars,
                   sourceVars>>

(***************************************************************************)
(* What differs between two versions of the app.                           *)
(***************************************************************************)
Job(op, n, def) == [op |-> op, name |-> n, def |-> def]

\* get_valid_datasets: those whose definition can be parsed.
ValidDatasets(a) == {d \in DOMAIN a.datasets : a.datasets[d].valid}

\* get_valid_catalogs.
ValidCatalogs(a) == {c \in DOMAIN a.catalogs : a.catalogs[c].valid}

\* get_valid_views: a dataset of that name is preferred.
ValidViews(a) == a.views \ ValidDatasets(a)

\* Mutant: what the new app does not name is kept.
KeepRemoved(old, new) == {}

CatalogJobs(old, new) ==
    {Job("catalog", c, new.catalogs[c]) : c \in
        {c \in ValidCatalogs(new) :
            c \in ValidCatalogs(old) => new.catalogs[c] # old.catalogs[c]}}

DatasetJobs(old, new) ==
    {Job("update", d, new.datasets[d]) : d \in
        {d \in ValidDatasets(new) \cap ValidDatasets(old) :
            new.datasets[d] # old.datasets[d]}}
    \cup {Job("new", d, new.datasets[d]) :
            d \in ValidDatasets(new) \ ValidDatasets(old)}

\* A dataset whose last definition could not be parsed cannot be removed.
RemovalJobs(old, new) ==
    {Job("remove", d, old.datasets[d]) :
        d \in ValidDatasets(old) \ DOMAIN new.datasets}

ModelJobs(old, new) ==
    {Job(IF m \in DOMAIN old.models THEN "updateModel" ELSE "newModel", m,
         new.models[m]) : m \in
        {m \in DOMAIN new.models :
            m \in DOMAIN old.models => new.models[m] # old.models[m]}}

ModelRemovals(old, new) ==
    {Job("removeModel", m, old.models[m]) :
        m \in DOMAIN old.models \ DOMAIN new.models}

\* One after the other: catalogs, datasets, removed datasets, models, removed
\* models.
Plan(old, new) ==
    LET steps == SetToSeq(CatalogJobs(old, new))
                    \o SetToSeq(DatasetJobs(old, new))
                    \o SetToSeq(RemovalJobs(old, new))
                    \o SetToSeq(ModelJobs(old, new))
                    \o SetToSeq(ModelRemovals(old, new))
    IN  {[stage |-> i, job |-> steps[i]] : i \in DOMAIN steps}

\* The jobs a worker may be at: the earliest ones.
Due(w) == {s \in jobs[w] : \A t \in jobs[w] : s.stage <= t.stage}

Done(w, s) == [jobs EXCEPT ![w] = @ \ {s}]
Becomes(w, s, op) ==
    [jobs EXCEPT ![w] = (@ \ {s}) \cup {[s EXCEPT !.job.op = op]}]

\* Those whose definition cannot be parsed are given the status Error.
InvalidAreErrors(a) ==
    [d \in Datasets |->
        IF d \in DOMAIN a.datasets \ ValidDatasets(a) THEN "error" ELSE status[d]]

(***************************************************************************)
(* load_components.                                                        *)
(***************************************************************************)

\* Embeddings, then tools, then the others together, the results cache first.
MayStart(l) ==
    /\ loader[l] = "todo"
    /\ l \in Second => \A f \in First : loader[f] = "done"
    /\ l \in Joined => \A f \in Second : loader[f] = "done"
    /\ l \in Joined \ {"cache"} => loader["cache"] # "todo"

\* A loader asks for a read guard of the app.
AskToLoad(l) ==
    /\ MayStart(l)
    /\ loader' = [loader EXCEPT ![l] = "busy"]
    /\ queue' = Enqueued(l)
    /\ UNCHANGED <<app, fileVars, guards, complete, next, jobs, catalog,
                   tableVars, modelVars, view, monitored, historyVars, sourceVars>>

\* init_results_cache only reads its settings, and no loader has anything to
\* do when there is no app: the guard is dropped at once.
LoadsNothing(l) ==
    /\ CanRead(l)
    /\ l = "cache" \/ app = NoApp
    /\ queue' = Tail(queue)
    /\ loader' = [loader EXCEPT ![l] = "done"]
    /\ UNCHANGED <<app, fileVars, guards, complete, next, jobs, catalog,
                   tableVars, modelVars, view, monitored, historyVars, sourceVars>>

Accelerated(def) == def.engine # "none"

\* initialize_accelerators: the accelerator of some datasets may not be
\* initialised, and they are not loaded.
InitializesAccelerators(failed) ==
    failed \subseteq {d \in ValidDatasets(app) : Accelerated(app.datasets[d])}

\* load_datasets: all that are valid and initialised are loaded together.
LoadDatasets(failed) ==
    /\ CanRead("datasets") /\ app # NoApp
    /\ InitializesAccelerators(failed)
    /\ queue' = Tail(queue) /\ guards' = guards \cup {"datasets"}
    /\ jobs' = [jobs EXCEPT !["datasets"] =
                   {[stage |-> 1, job |-> Job("load", d, app.datasets[d])] :
                       d \in ValidDatasets(app) \ failed}]
    /\ status' = [d \in Datasets |->
                    CASE d \in failed -> "error"
                      [] d \in ValidDatasets(app) \ failed -> "initializing"
                      [] OTHER -> InvalidAreErrors(app)[d]]
    /\ UNCHANGED <<app, fileVars, loader, complete, next, catalog, table,
                   modelVars, view, monitored, historyVars, sourceVars>>

Together(defs, names) ==
    {[stage |-> 1, job |-> Job("catalog", n, defs[n])] : n \in names}

OneByOne(defs) ==
    LET ns == SetToSeq(DOMAIN defs)
    IN  {[stage |-> i, job |-> Job("newModel", ns[i], defs[ns[i]])] : i \in DOMAIN ns}

\* load_catalogs loads the catalogs together; load_embeddings, load_tools and
\* load_models load one component after the other.
LoadOthers(l) ==
    /\ l \in {"embeddings", "tools", "catalogs", "models"}
    /\ CanRead(l) /\ app # NoApp
    /\ queue' = Tail(queue) /\ guards' = guards \cup {l}
    /\ jobs' = [jobs EXCEPT ![l] =
          CASE l = "catalogs" -> Together(app.catalogs, ValidCatalogs(app))
            [] l = "embeddings" -> OneByOne(app.embeddings)
            [] l = "tools" -> OneByOne(app.tools)
            [] OTHER -> OneByOne(app.models)]
    /\ UNCHANGED <<app, fileVars, loader, complete, next, catalog, tableVars,
                   modelVars, view, monitored, historyVars, sourceVars>>

\* load_views, once all datasets have loaded: register_view starts a task for
\* each. With num_of_parallel_loading_at_start_up there are none.
ViewsAfter(l) ==
    IF l = "datasets" /\ ~app.parallel
    THEN [v \in Views |-> IF v \in ValidViews(app)
                          THEN [at |-> "waiting", seen |-> {}] ELSE view[v]]
    ELSE view

\* Mutant: the guard lives as long as the runtime.
KeepGuard(l) == guards

DropGuard(l) == guards \ {l}

\* All that a loader had to load is loaded: its guard is dropped.
Loaded(l) ==
    /\ l \in guards /\ jobs[l] = {}
    /\ guards' = DropGuard(l)
    /\ loader' = [loader EXCEPT ![l] = "done"]
    /\ view' = ViewsAfter(l)
    /\ UNCHANGED <<app, fileVars, queue, complete, next, jobs, catalog, tableVars,
                   modelVars, monitored, historyVars, sourceVars>>

\* Mutant: the runtime is ready when the datasets have loaded.
DatasetsJoined == loader["datasets"] = "done"

\* join_all.
AllJoined == \A l \in Joined : loader[l] = "done"

\* mark_initial_load_complete, after which /v1/ready answers Ready.
MarkInitialLoadComplete ==
    /\ AllJoined /\ ~complete
    /\ complete' = TRUE
    /\ UNCHANGED <<app, fileVars, lockVars, loader, next, jobs, catalog,
                   tableVars, modelVars, view, monitored, historyVars, sourceVars>>

(***************************************************************************)
(* start_pods_watcher.                                                     *)
(***************************************************************************)
Watching == next # NoApp

\* The next version of the app arrives and the write guard is asked for.
ReceiveUpdate ==
    /\ ~Watching /\ updates # <<>>
    /\ next' = Head(updates) /\ updates' = Tail(updates)
    /\ queue' = Enqueued(Watcher)
    /\ UNCHANGED <<app, file, events, edits, guards, loader, complete, jobs,
                   catalog, tableVars, modelVars, view, monitored, historyVars,
                   sourceVars>>

\* The same app, or the first one: nothing is loaded.
AdoptApp ==
    /\ Watching /\ CanWrite /\ app \in {NoApp, next}
    /\ queue' = Tail(queue) /\ app' = next /\ next' = NoApp
    /\ adopted' = (adopted \/ app = NoApp) /\ UNCHANGED stranded
    /\ UNCHANGED <<fileVars, guards, loader, complete, jobs, catalog, tableVars,
                   modelVars, view, monitored, sourceVars>>

\* What differs is found; the write guard is kept until it is applied.
CompareApps ==
    /\ Watching /\ CanWrite /\ app \notin {NoApp, next}
    /\ queue' = Tail(queue) /\ guards' = {Watcher}
    /\ jobs' = [jobs EXCEPT ![Watcher] = Plan(app, next)]
    /\ status' = InvalidAreErrors(next)
    /\ stranded' = stranded \cup {d \in Datasets :
                      /\ table[d] # None
                      /\ d \in DOMAIN next.datasets \ ValidDatasets(next)}
    /\ UNCHANGED <<app, adopted, fileVars, loader, complete, next, catalog, table,
                   modelVars, view, monitored, sourceVars>>

\* `*current_app = new_app`, and the guard is dropped.
UpdateApplied ==
    /\ Watcher \in guards /\ jobs[Watcher] = {}
    /\ app' = next /\ next' = NoApp
    /\ guards' = {}
    /\ UNCHANGED <<fileVars, queue, loader, complete, jobs, catalog, tableVars,
                   modelVars, view, monitored, historyVars, sourceVars>>

(***************************************************************************)
(* Catalogs and datasets.                                                  *)
(***************************************************************************)
Connected(d) == d \notin down

\* load_catalog is retried until the catalog is registered, over the old one.
LoadCatalog(w, s) ==
    /\ s.job.op = "catalog"
    /\ catalog' = [catalog EXCEPT ![s.job.name] = s.job.def]
    /\ jobs' = Done(w, s)
    /\ UNCHANGED <<app, fileVars, lockVars, loader, complete, next, tableVars,
                   modelVars, view, monitored, historyVars, sourceVars>>

\* The watcher loads a dataset that it did not know.
NewDataset(w, s) ==
    /\ s.job.op = "new"
    /\ status' = [status EXCEPT ![s.job.name] = "initializing"]
    /\ jobs' = Becomes(w, s, "load")
    /\ UNCHANGED <<app, fileVars, lockVars, loader, complete, next, catalog,
                   table, modelVars, view, monitored, historyVars, sourceVars>>

\* create_accelerated_table refuses settings that are not valid: a refresh SQL,
\* a time column, a mode `append` without a time column or a stream.
CreatesAccelerated(def) == def.fault # "settings"

\* register_federated_table refuses a name that is taken.
NameIsFree(d) == table[d] = None

\* register_table: an accelerated table replaces whatever has the name.
RegistersTable(d, def) ==
    IF Accelerated(def) THEN CreatesAccelerated(def) ELSE NameIsFree(d)

\* register_loaded_dataset reads from the source, register_dataset refuses a
\* dataset that is read_write and not replicated.
Registers(d, def) ==
    /\ def.fault # "changes" /\ Connected(d)
    /\ def.fault # "read_write" /\ RegistersTable(d, def)

\* DatasetsHealthMonitor::register_dataset: federated datasets only.
MonitoredWith(d, def) ==
    IF Accelerated(def) THEN monitored ELSE monitored \cup {d}

\* register_loaded_dataset succeeds.
Register(d, def) ==
    /\ table' = [table EXCEPT ![d] = def]
    /\ status' = [status EXCEPT ![d] = "ready"]
    /\ monitored' = MonitoredWith(d, def)

\* load_dataset: connect, read and register, and all of it again until it
\* succeeds. A refresh mode `changes` that the connector lacks is refused
\* without a change of the status.
LoadDataset(w, s) ==
    LET d == s.job.name  def == s.job.def
    IN  /\ s.job.op = "load"
        /\ IF Registers(d, def)
           THEN Register(d, def) /\ jobs' = Done(w, s)
           ELSE /\ status' = [status EXCEPT ![d] =
                       IF def.fault = "changes" /\ Connected(d) THEN @ ELSE "error"]
                /\ UNCHANGED <<jobs, table, monitored>>
        /\ UNCHANGED <<app, fileVars, lockVars, loader, complete, next, catalog,
                       modelVars, view, historyVars, sourceVars>>

\* accelerated_dataset_supports_hot_reload.
SupportsHotReload(def) == def.engine = "memory"

\* update_dataset: a dataset in memory is loaded beside the one registered;
\* any other, or one that cannot be created, is removed and registered again.
UpdateDataset(w, s) ==
    LET d == s.job.name  def == s.job.def
    IN  /\ s.job.op = "update"
        /\ IF Connected(d)
           THEN /\ status' = [status EXCEPT ![d] = "refreshing"]
                /\ jobs' = Becomes(w, s,
                      IF SupportsHotReload(def) /\ CreatesAccelerated(def)
                      THEN "await" ELSE "replace")
           ELSE status' = [status EXCEPT ![d] = "error"] /\ jobs' = Done(w, s)
        /\ UNCHANGED <<app, fileVars, lockVars, loader, complete, next, catalog,
                       table, modelVars, view, monitored, historyVars, sourceVars>>

\* reload_accelerated_dataset: the new table is ready when its first refresh
\* has succeeded, and replaces the old one unless it is refused.
TableIsReady(w, s) ==
    LET d == s.job.name  def == s.job.def
    IN  /\ s.job.op = "await" /\ Connected(d)
        /\ IF Registers(d, def)
           THEN Register(d, def) /\ jobs' = Done(w, s)
           ELSE jobs' = Becomes(w, s, "replace") /\ UNCHANGED <<tableVars, monitored>>
        /\ UNCHANGED <<app, fileVars, lockVars, loader, complete, next, catalog,
                       modelVars, view, historyVars, sourceVars>>

\* The first refresh fails and is not retried: is_ready is never sent.
RefreshGivesUp(w, s) ==
    /\ s.job.op = "await" /\ ~Connected(s.job.name) /\ ~s.job.def.retry
    /\ jobs' = Becomes(w, s, "given up")
    /\ UNCHANGED <<app, fileVars, lockVars, loader, complete, next, catalog,
                   tableVars, modelVars, view, monitored, historyVars, sourceVars>>

Deregistered(d) == monitored \ {d}

\* remove_dataset: the health monitor forgets the dataset, then the table is
\* removed. Nothing is done if there is no table.
Unload(d) ==
    /\ table' = [table EXCEPT ![d] = None]
    /\ monitored' = IF table[d] = None THEN monitored ELSE Deregistered(d)

\* The rest of update_dataset: the dataset is removed...
ReplaceDataset(w, s) ==
    /\ s.job.op = "replace"
    /\ Unload(s.job.name)
    /\ jobs' = Becomes(w, s, "register")
    /\ UNCHANGED <<app, fileVars, lockVars, loader, complete, next, catalog,
                   status, modelVars, view, historyVars, sourceVars>>

\* ... and registered. There is no second attempt.
RegisterOnce(w, s) ==
    LET d == s.job.name  def == s.job.def
    IN  /\ s.job.op = "register"
        /\ jobs' = Done(w, s)
        /\ IF Registers(d, def)
           THEN Register(d, def)
           ELSE /\ status' = [status EXCEPT ![d] = "error"]
                /\ UNCHANGED <<table, monitored>>
        /\ UNCHANGED <<app, fileVars, lockVars, loader, complete, next, catalog,
                       modelVars, view, historyVars, sourceVars>>

RemoveDataset(w, s) ==
    /\ s.job.op = "remove"
    /\ Unload(s.job.name)
    /\ status' = [status EXCEPT ![s.job.name] = "disabled"]
    /\ jobs' = Done(w, s)
    /\ UNCHANGED <<app, fileVars, lockVars, loader, complete, next, catalog,
                   modelVars, view, historyVars, sourceVars>>

(***************************************************************************)
(* Models. `deployed` has a map for each type, as Runtime has.             *)
(***************************************************************************)
DatasetJob(w, s) ==
    \/ LoadCatalog(w, s) \/ NewDataset(w, s) \/ LoadDataset(w, s)
    \/ UpdateDataset(w, s) \/ TableIsReady(w, s) \/ RefreshGivesUp(w, s)
    \/ ReplaceDataset(w, s) \/ RegisterOnce(w, s) \/ RemoveDataset(w, s)

modelUnchanged == <<app, fileVars, loader, complete, next, catalog, tableVars,
                    view, monitored, historyVars, sourceVars>>

\* remove_model looks in the map of the type it is given.
Undeployed(m, def) == [deployed EXCEPT ![<<m, def.type>>] = None]

\* A model that is new is loaded; update_model removes the model first, by
\* the type of its new definition.
BeginModel(w, s) ==
    /\ s.job.op \in {"newModel", "updateModel"}
    /\ mstatus' = [mstatus EXCEPT ![s.job.name] =
          IF s.job.op = "newModel" THEN "initializing" ELSE "refreshing"]
    /\ deployed' = IF s.job.op = "newModel" THEN deployed
                   ELSE Undeployed(s.job.name, s.job.def)
    /\ jobs' = Becomes(w, s, "model")
    /\ UNCHANGED <<modelUnchanged, lockVars, prompting>>

\* ToolUsingChat writes the names of the datasets into its system prompt.
NeedsPrompt(def) == def.type = "llm" /\ def.tools

\* load_llm ends with a health check, a request to the model, for which
\* prepare_req asks for a read guard of the app.
AskForPrompt(w, s) ==
    /\ s.job.op = "model" /\ NeedsPrompt(s.job.def) /\ prompting = None
    /\ prompting' = w /\ queue' = Enqueued(Prompt)
    /\ UNCHANGED <<modelUnchanged, guards, jobs, deployed, mstatus>>

\* load_model ends: deployed, or an error, which is not retried. Embeddings
\* and tools are loaded in the same way, into maps of their own.
EndModel(w, s, ok) ==
    /\ mstatus' = [mstatus EXCEPT ![s.job.name] = IF ok THEN "ready" ELSE "error"]
    /\ deployed' = IF ok
          THEN [deployed EXCEPT ![<<s.job.name, s.job.def.type>>] = s.job.def]
          ELSE deployed
    /\ jobs' = Done(w, s)

LoadModel(w, s, ok) ==
    /\ IF NeedsPrompt(s.job.def)
       THEN /\ prompting = w /\ CanRead(Prompt)
            /\ queue' = Tail(queue) /\ prompting' = None
       ELSE UNCHANGED <<queue, prompting>>
    /\ EndModel(w, s, ok)
    /\ UNCHANGED <<modelUnchanged, guards>>

RemoveModel(w, s) ==
    /\ s.job.op = "removeModel"
    /\ deployed' = Undeployed(s.job.name, s.job.def)
    /\ mstatus' = [mstatus EXCEPT ![s.job.name] = "disabled"]
    /\ jobs' = Done(w, s)
    /\ UNCHANGED <<modelUnchanged, lockVars, prompting>>

(***************************************************************************)
(* Views: the task that register_view starts looks for the tables one      *)
(* after the other, for a minute, and plans the query when it has seen     *)
(* them all.                                                               *)
(***************************************************************************)
viewUnchanged == <<app, fileVars, lockVars, loader, complete, next, jobs,
                   catalog, tableVars, modelVars, monitored, historyVars,
                   sourceVars>>

SeeTable(v, d) ==
    /\ view[v].at = "waiting" /\ d \in DependsOn[v] \ view[v].seen
    /\ table[d] # None
    /\ view' = [view EXCEPT ![v].seen = @ \cup {d}]
    /\ UNCHANGED viewUnchanged

\* The deadline passes before a table exists: the view is given up.
ViewTimesOut(v) ==
    /\ view[v].at = "waiting"
    /\ \E d \in DependsOn[v] \ view[v].seen : table[d] = None
    /\ view' = [view EXCEPT ![v] = [at |-> "failed", seen |-> {}]]
    /\ UNCHANGED viewUnchanged

\* The plan is made of the tables as they are now; it fails if one is gone.
CreateView(v) ==
    /\ view[v].at = "waiting" /\ view[v].seen = DependsOn[v]
    /\ view' = [view EXCEPT ![v] =
          [at |-> IF \A d \in DependsOn[v] : table[d] # None
                  THEN "created" ELSE "failed",
           seen |-> {}]]
    /\ UNCHANGED viewUnchanged

(***************************************************************************)
(* The handlers and the sources.                                           *)
(***************************************************************************)
readerUnchanged == <<app, fileVars, loader, complete, next, jobs, catalog,
                     tableVars, modelVars, view, monitored, historyVars,
                     sourceVars>>

\* A handler of http/v1 (datasets, catalogs, models, spicepods) asks for a
\* read guard...
AskToRead(r) ==
    /\ r \notin guards /\ r \notin ToSet(queue)
    /\ queue' = Enqueued(r)
    /\ UNCHANGED <<readerUnchanged, guards>>

StartReading(r) ==
    /\ CanRead(r)
    /\ queue' = Tail(queue) /\ guards' = guards \cup {r}
    /\ UNCHANGED readerUnchanged

\* ... and keeps it until it has answered.
Answer(r) ==
    /\ r \in guards
    /\ guards' = guards \ {r}
    /\ UNCHANGED <<readerUnchanged, queue>>

sourceUnchanged == <<app, fileVars, lockVars, loader, complete, next, jobs,
                     catalog, tableVars, modelVars, view, monitored, historyVars>>

SourceFails(d) ==
    /\ outages < MaxOutages /\ d \notin down
    /\ down' = down \cup {d} /\ outages' = outages + 1
    /\ UNCHANGED sourceUnchanged

SourceRecovers(d) ==
    /\ d \in down
    /\ down' = down \ {d}
    /\ UNCHANGED <<sourceUnchanged, outages>>

(***************************************************************************)
(* The specification.                                                      *)
(***************************************************************************)
LoaderStep(l) ==
    \/ AskToLoad(l) \/ LoadsNothing(l) \/ LoadOthers(l) \/ Loaded(l)
    \/ l = "datasets" /\ \E failed \in SUBSET Datasets : LoadDatasets(failed)

WatcherStep == ReceiveUpdate \/ AdoptApp \/ CompareApps \/ UpdateApplied

\* A step of whoever works on the component n.
JobStep(n) ==
    \E w \in Workers : \E s \in Due(w) :
        /\ s.job.name = n
        /\ \/ DatasetJob(w, s) \/ BeginModel(w, s) \/ AskForPrompt(w, s)
           \/ RemoveModel(w, s)
           \/ /\ s.job.op = "model"
              /\ \E ok \in s.job.def.outcomes : LoadModel(w, s, ok)

ViewStep(v) == CreateView(v) \/ \E d \in Datasets : SeeTable(v, d)

Next ==
    \/ \E a \in Apps \cup {NoApp} : Edit(a)
    \/ HandleEvent
    \/ \E l \in Loaders : LoaderStep(l)
    \/ MarkInitialLoadComplete
    \/ WatcherStep
    \/ \E n \in Datasets \cup Catalogs \cup Models : JobStep(n)
    \/ \E v \in Views : ViewStep(v) \/ ViewTimesOut(v)
    \/ \E d \in Datasets : SourceFails(d) \/ SourceRecovers(d)
    \/ \E r \in Readers : AskToRead(r) \/ StartReading(r) \/ Answer(r)

\* Tasks that can run do run; sources recover.
Fairness ==
    /\ WF_vars(HandleEvent) /\ WF_vars(WatcherStep)
    /\ WF_vars(MarkInitialLoadComplete)
    /\ \A l \in Loaders : WF_vars(LoaderStep(l))
    /\ \A n \in Datasets \cup Catalogs \cup Models : WF_vars(JobStep(n))
    /\ \A v \in Views : WF_vars(ViewStep(v))
    /\ \A d \in Datasets : WF_vars(SourceRecovers(d))
    /\ \A r \in Readers : WF_vars(StartReading(r)) /\ WF_vars(Answer(r))

Spec == Init /\ [][Next]_vars /\ Fairness

(***************************************************************************)
(* Properties.                                                             *)
(***************************************************************************)
Settled == guards \cap (Loaders \cup {Watcher}) = {} /\ ~adopted
           /\ \A l \in Loaders : loader[l] = "done"

\* When nothing is being loaded, what is registered is what the app defines:
\* a dataset or catalog stands under its latest definition, unless its last
\* attempt ended in Error, and what the app no longer names is gone, unless
\* its last definition could not be parsed (start_pods_watcher's comparison).
AppIsApplied ==
    Settled /\ app # NoApp =>
        /\ \A d \in ValidDatasets(app) :
              table[d] = app.datasets[d] \/ status[d] = "error"
        /\ \A d \in Datasets \ DOMAIN app.datasets :
              table[d] = None \/ d \in stranded
        /\ \A c \in ValidCatalogs(app) : catalog[c] = app.catalogs[c]

\* /v1/ready: once the initial load is complete every valid dataset has been
\* tried and every model has its final status, whatever the watcher did
\* meanwhile.
ReadyMeansLoaded ==
    complete /\ Watcher \notin guards /\ ~adopted /\ app # NoApp =>
        /\ \A d \in ValidDatasets(app) : status[d] \in {"ready", "error"}
        /\ \A m \in DOMAIN app.models : mstatus[m] \in {"ready", "error"}

\* What keeps a guard of the app for ever: an LLM that waits for the lock
\* that its own loader holds, a reload whose first refresh was given up.
Blocked ==
    \/ prompting # None
    \/ \E s \in jobs[Watcher] : s.job.op = "given up"

\* A handler that waits for the app is served, although loaders and the pods
\* watcher keep their guards across loads that are retried.
ReadersAreServed ==
    <>[]Blocked \/ \A r \in Readers : r \in ToSet(queue) ~> r \in guards

\* The last version of the files, if it can be parsed, becomes the app.
ConfigArrives ==
    <>[]Blocked \/ (file # NoApp /\ edits = MaxEdits ~> app = file)

=============================================================================
