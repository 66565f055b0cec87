------------------------- MODULE RuntimeLoadProofs --------------------------
(***************************************************************************)
(* Theorems about RuntimeLoad, for every set of components and every app:  *)
(* the lock of the app keeps the pods watcher apart from all others, what  *)
(* is registered follows the app, and a runtime that says it is ready has  *)
(* tried to load all that its app defines.                                 *)
(***************************************************************************)
EXTENDS RuntimeLoad, FiniteSetTheorems, SequenceTheorems, TLAPS

(***************************************************************************)
(* The inductive invariant.                                                *)
(***************************************************************************)
AppsOrNone == Apps \cup {NoApp}
Askers == Workers \cup {Prompt} \cup Readers

TypeInv ==
    /\ app \in AppsOrNone /\ file \in AppsOrNone /\ next \in AppsOrNone
    /\ updates \in Seq(Apps)
    /\ queue \in Seq(Askers) /\ guards \subseteq Workers \cup Readers
    /\ loader \in [Loaders -> {"todo", "busy", "done"}]
    /\ complete \in BOOLEAN /\ adopted \in BOOLEAN
    /\ DOMAIN jobs = Workers
    /\ DOMAIN table = Datasets /\ DOMAIN status = Datasets
    /\ DOMAIN catalog = Catalogs /\ DOMAIN mstatus = Models

\* Who holds the write guard is alone, and whoever has work holds a guard.
LockInv ==
    /\ Watcher \in guards => guards = {Watcher} /\ next # NoApp /\ app # NoApp
    /\ \A l \in Loaders : l \in guards => loader[l] = "busy" /\ app # NoApp
    /\ \A w \in Workers : w \notin guards => jobs[w] = {}

\* A loader waits for a guard once, while it is busy and has none.
QueueInv ==
    /\ \A i \in DOMAIN queue : queue[i] \in Loaders =>
          loader[queue[i]] = "busy" /\ queue[i] \notin guards
    /\ \A i, j \in DOMAIN queue :
          queue[i] \in Loaders /\ queue[i] = queue[j] => i = j

\* load_components awaits the embeddings, then the tools, then the others.
OrderInv ==
    /\ loader["tools"] # "todo" => loader["embeddings"] = "done"
    /\ \A l \in Joined : loader[l] # "todo" => loader["tools"] = "done"
    /\ complete => AllJoined

\* The app that is being loaded or applied.
Target == IF Watcher \in guards THEN next ELSE app

DatasetOps == {"load", "new", "update", "await", "given up", "replace", "register"}
ModelOps == {"newModel", "updateModel", "model"}

IsStep(s) ==
    s = [stage |-> s.stage, job |-> Job(s.job.op, s.job.name, s.job.def)]

\* A job is about a component of the target, under its definition, or about
\* one that the target no longer has.
JobOf(a, j) ==
    /\ j.op \in DatasetOps \cup ModelOps \cup {"catalog", "remove", "removeModel"}
    /\ j.op \in DatasetOps =>
          j.name \in ValidDatasets(a) /\ j.def = a.datasets[j.name]
    /\ j.op = "remove" => j.name \in Datasets \ DOMAIN a.datasets
    /\ j.op = "catalog" =>
          j.name \in ValidCatalogs(a) /\ j.def = a.catalogs[j.name]
    /\ j.op \in ModelOps => j.name \in Models
    /\ j.op = "removeModel" => j.name \in Models \ DOMAIN a.models

JobsInv == \A w \in Workers : \A s \in jobs[w] : IsStep(s) /\ JobOf(Target, s.job)

\* Somebody still has something to do to n.
Pending(ops, n) ==
    \E w \in Workers : \E s \in jobs[w] : s.job.op \in ops /\ s.job.name = n

\* The app is there since the start.
Kept == ~adopted /\ app # NoApp
Begun(l) == loader[l] = "done" \/ l \in guards

\* What load_datasets has begun with is registered, failed or still to do.
DatasetsInv ==
    Kept /\ Begun("datasets") =>
        \A d \in ValidDatasets(Target) :
            \/ Pending(DatasetOps, d)
            \/ /\ status[d] \in {"ready", "error"}
               /\ table[d] = Target.datasets[d] \/ status[d] = "error"

\* A table stands for a dataset of the target, or is about to be removed.
TablesInv ==
    Kept => \A d \in Datasets :
        \/ table[d] = None
        \/ d \in ValidDatasets(Target) \cup stranded
        \/ Pending({"remove"}, d)

CatalogsInv ==
    Kept /\ Begun("catalogs") =>
        \A c \in ValidCatalogs(Target) :
            Pending({"catalog"}, c) \/ catalog[c] = Target.catalogs[c]

ModelsInv ==
    Kept /\ Begun("models") =>
        \A m \in DOMAIN Target.models :
            Pending(ModelOps, m) \/ mstatus[m] \in {"ready", "error"}

IInv == TypeInv /\ LockInv /\ QueueInv /\ OrderInv /\ JobsInv
        /\ DatasetsInv /\ TablesInv /\ CatalogsInv /\ ModelsInv

(***************************************************************************)
(* What the watcher plans.                                                 *)
(***************************************************************************)

\* A sequence made of a finite set has exactly the elements of the set.
LEMMA SetToSeqRange ==
    ASSUME NEW S, IsFiniteSet(S)
    PROVE  SetToSeq(S) \in Seq(S) /\ Range(SetToSeq(S)) = S
<1> DEFINE n == Cardinality(S)
           f == SetToSeq(S)
<1>1. n \in Nat /\ ExistsBijection(1..n, S)
  BY FS_CardinalityType
<1>2. \E g \in [1..n -> S] : IsInjective(g)
  BY <1>1 DEF ExistsBijection, Bijection, Injection
<1>3. f \in [1..n -> S] /\ IsInjective(f)
  BY <1>2 DEF SetToSeq
<1>4. f \in Injection(1..n, S)
  BY <1>3 DEF Injection
<1>5. Cardinality(1..n) = n
  BY <1>1, FS_Interval
<1>6. f \in Surjection(1..n, S)
  BY <1>4, <1>5, FS_Injection
<1>7. Range(f) = S
  BY <1>3, <1>6 DEF Surjection, Range
<1>8. f \in Seq(S)
  BY <1>1, <1>3, IsASeq
<1> QED
  BY <1>7, <1>8

\* The image of a finite set under a function is finite.
LEMMA ImageIsFinite ==
    ASSUME NEW S, IsFiniteSet(S), NEW f, DOMAIN f = S
    PROVE  IsFiniteSet({f[x] : x \in S})
<1> DEFINE T == {f[x] : x \in S}
           g == [x \in S |-> f[x]]
<1>1. g \in Surjection(S, T)
  BY DEF Surjection
<1> QED
  BY <1>1, FS_Surjection

PlanJobs(old, new) ==
    CatalogJobs(old, new) \cup DatasetJobs(old, new) \cup RemovalJobs(old, new)
        \cup ModelJobs(old, new) \cup ModelRemovals(old, new)

\* What differs between two apps is a finite set of jobs.
LEMMA JobsAreFinite ==
    ASSUME NEW old \in Apps, NEW new \in Apps
    PROVE  /\ IsFiniteSet(CatalogJobs(old, new)) /\ IsFiniteSet(DatasetJobs(old, new))
           /\ IsFiniteSet(RemovalJobs(old, new)) /\ IsFiniteSet(ModelJobs(old, new))
           /\ IsFiniteSet(ModelRemovals(old, new))
<1> USE NamesAssumption
<1>1. IsFiniteSet(CatalogJobs(old, new))
  <2> DEFINE C == {c \in ValidCatalogs(new) :
                      c \in ValidCatalogs(old) => new.catalogs[c] # old.catalogs[c]}
             f == [c \in C |-> Job("catalog", c, new.catalogs[c])]
  <2>1. IsFiniteSet(C)
    BY C \subseteq Catalogs, FS_Subset DEF ValidCatalogs
  <2>2. DOMAIN f = C
    OBVIOUS
  <2>3. CatalogJobs(old, new) = {f[c] : c \in C}
    BY DEF CatalogJobs
  <2> HIDE DEF C, f
  <2> QED
    BY <2>1, <2>2, <2>3, ImageIsFinite
<1>2. IsFiniteSet(DatasetJobs(old, new))
  <2> DEFINE U == {d \in ValidDatasets(new) \cap ValidDatasets(old) :
                      new.datasets[d] # old.datasets[d]}
             N == ValidDatasets(new) \ ValidDatasets(old)
             f == [d \in U |-> Job("update", d, new.datasets[d])]
             g == [d \in N |-> Job("new", d, new.datasets[d])]
  <2>1. IsFiniteSet(U) /\ IsFiniteSet(N)
    BY U \subseteq Datasets, N \subseteq Datasets, FS_Subset DEF ValidDatasets
  <2>2. DOMAIN f = U /\ DOMAIN g = N
    OBVIOUS
  <2>3. DatasetJobs(old, new) = {f[d] : d \in U} \cup {g[d] : d \in N}
    BY DEF DatasetJobs
  <2> HIDE DEF U, N, f, g
  <2>4. IsFiniteSet({f[d] : d \in U}) /\ IsFiniteSet({g[d] : d \in N})
    BY <2>1, <2>2, ImageIsFinite
  <2>5. IsFiniteSet({f[d] : d \in U} \cup {g[d] : d \in N})
    BY <2>4, FS_Union, Zenon
  <2> QED
    BY <2>3, <2>5
<1>3. IsFiniteSet(RemovalJobs(old, new))
  <2> DEFINE R == ValidDatasets(old) \ DOMAIN new.datasets
             f == [d \in R |-> Job("remove", d, old.datasets[d])]
  <2>1. IsFiniteSet(R)
    BY R \subseteq Datasets, FS_Subset DEF ValidDatasets
  <2>2. DOMAIN f = R
    OBVIOUS
  <2>3. RemovalJobs(old, new) = {f[d] : d \in R}
    BY DEF RemovalJobs
  <2> HIDE DEF R, f
  <2> QED
    BY <2>1, <2>2, <2>3, ImageIsFinite
<1>4. IsFiniteSet(ModelJobs(old, new))
  <2> DEFINE M == {m \in DOMAIN new.models :
                      m \in DOMAIN old.models => new.models[m] # old.models[m]}
             f == [m \in M |->
                     Job(IF m \in DOMAIN old.models THEN "updateModel" ELSE "newModel", m,
                         new.models[m])]
  <2>1. IsFiniteSet(M)
    BY M \subseteq Models, FS_Subset
  <2>2. DOMAIN f = M
    OBVIOUS
  <2>3. ModelJobs(old, new) = {f[m] : m \in M}
    BY DEF ModelJobs
  <2> HIDE DEF M, f
  <2> QED
    BY <2>1, <2>2, <2>3, ImageIsFinite
<1>5. IsFiniteSet(ModelRemovals(old, new))
  <2> DEFINE R == DOMAIN old.models \ DOMAIN new.models
             f == [m \in R |-> Job("removeModel", m, old.models[m])]
  <2>1. IsFiniteSet(R)
    BY R \subseteq Models, FS_Subset
  <2>2. DOMAIN f = R
    OBVIOUS
  <2>3. ModelRemovals(old, new) = {f[m] : m \in R}
    BY DEF ModelRemovals
  <2> HIDE DEF R, f
  <2> QED
    BY <2>1, <2>2, <2>3, ImageIsFinite
<1> QED
  BY <1>1, <1>2, <1>3, <1>4, <1>5

\* The watcher's plan has every job that the comparison of two apps finds,
\* and no other (the loops of start_pods_watcher).
LEMMA PlanIsExact ==
    ASSUME NEW old \in Apps, NEW new \in Apps
    PROVE  /\ \A s \in Plan(old, new) : IsStep(s) /\ s.job \in PlanJobs(old, new)
           /\ \A j \in PlanJobs(old, new) : \E s \in Plan(old, new) : s.job = j
<1> DEFINE J == PlanJobs(old, new)
           a == SetToSeq(CatalogJobs(old, new))
           b == SetToSeq(DatasetJobs(old, new))
           c == SetToSeq(RemovalJobs(old, new))
           d == SetToSeq(ModelJobs(old, new))
           e == SetToSeq(ModelRemovals(old, new))
           steps == a \o b \o c \o d \o e
<1>1. /\ a \in Seq(CatalogJobs(old, new)) /\ Range(a) = CatalogJobs(old, new)
      /\ b \in Seq(DatasetJobs(old, new)) /\ Range(b) = DatasetJobs(old, new)
      /\ c \in Seq(RemovalJobs(old, new)) /\ Range(c) = RemovalJobs(old, new)
      /\ d \in Seq(ModelJobs(old, new)) /\ Range(d) = ModelJobs(old, new)
      /\ e \in Seq(ModelRemovals(old, new)) /\ Range(e) = ModelRemovals(old, new)
  BY JobsAreFinite, SetToSeqRange
<1>2. a \in Seq(J) /\ b \in Seq(J) /\ c \in Seq(J) /\ d \in Seq(J) /\ e \in Seq(J)
  <2>1. /\ CatalogJobs(old, new) \subseteq J /\ DatasetJobs(old, new) \subseteq J
        /\ RemovalJobs(old, new) \subseteq J /\ ModelJobs(old, new) \subseteq J
        /\ ModelRemovals(old, new) \subseteq J
    BY DEF PlanJobs
  <2> QED
    BY <1>1, <2>1, SeqMonotonic
<1> HIDE DEF a, b, c, d, e, J
<1>3. /\ a \o b \in Seq(J) /\ a \o b \o c \in Seq(J) /\ a \o b \o c \o d \in Seq(J)
      /\ steps \in Seq(J)
  BY <1>2, ConcatProperties
<1>4. Range(steps) = Range(a) \cup Range(b) \cup Range(c) \cup Range(d) \cup Range(e)
  <2>1. Range(steps) = Range(a \o b \o c \o d) \cup Range(e)
    BY <1>2, <1>3, RangeConcatenation
  <2>2. Range(a \o b \o c \o d) = Range(a \o b \o c) \cup Range(d)
    BY <1>2, <1>3, RangeConcatenation
  <2>3. Range(a \o b \o c) = Range(a \o b) \cup Range(c)
    BY <1>2, <1>3, RangeConcatenation
  <2>4. Range(a \o b) = Range(a) \cup Range(b)
    BY <1>2, RangeConcatenation
  <2> QED
    BY <2>1, <2>2, <2>3, <2>4
<1>5. Range(steps) = J
  BY <1>1, <1>4 DEF J, PlanJobs
<1>6. Plan(old, new) = {[stage |-> i, job |-> steps[i]] : i \in DOMAIN steps}
  BY DEF Plan, a, b, c, d, e
<1>7. \A j \in J : j = Job(j.op, j.name, j.def)
  BY DEF J, PlanJobs, CatalogJobs, DatasetJobs, RemovalJobs, ModelJobs, ModelRemovals, Job
<1>8. \A i \in DOMAIN steps : steps[i] \in J
  BY <1>5 DEF Range
<1> HIDE DEF steps
<1>9. ASSUME NEW s \in Plan(old, new)
      PROVE  IsStep(s) /\ s.job \in J
  <2>1. PICK i \in DOMAIN steps : s = [stage |-> i, job |-> steps[i]]
    BY <1>6
  <2> QED
    BY <1>7, <1>8, <2>1 DEF IsStep
<1>10. ASSUME NEW j \in J
       PROVE  \E s \in Plan(old, new) : s.job = j
  <2>1. PICK i \in DOMAIN steps : steps[i] = j
    BY <1>5 DEF Range
  <2> QED
    BY <1>6, <2>1, [stage |-> i, job |-> steps[i]].job = j
<1> QED
  BY <1>9, <1>10 DEF J

\* The same of the loaders that load one component after the other.
LEMMA OneByOneIsExact ==
    ASSUME NEW defs, IsFiniteSet(DOMAIN defs)
    PROVE  /\ \A s \in OneByOne(defs) :
                 IsStep(s) /\ s.job.op = "newModel" /\ s.job.name \in DOMAIN defs
           /\ \A n \in DOMAIN defs :
                 \E s \in OneByOne(defs) : s.job.op = "newModel" /\ s.job.name = n
<1> DEFINE ns == SetToSeq(DOMAIN defs)
<1>1. Range(ns) = DOMAIN defs
  BY SetToSeqRange
<1>2. OneByOne(defs) =
        {[stage |-> i, job |-> Job("newModel", ns[i], defs[ns[i]])] : i \in DOMAIN ns}
  BY DEF OneByOne
<1> HIDE DEF ns
<1>3. ASSUME NEW s \in OneByOne(defs)
      PROVE  IsStep(s) /\ s.job.op = "newModel" /\ s.job.name \in DOMAIN defs
  <2>1. PICK i \in DOMAIN ns :
            s = [stage |-> i, job |-> Job("newModel", ns[i], defs[ns[i]])]
    BY <1>2
  <2>2. ns[i] \in DOMAIN defs
    BY <1>1 DEF Range
  <2> QED
    BY <2>1, <2>2 DEF IsStep, Job
<1>4. ASSUME NEW n \in DOMAIN defs
      PROVE  \E s \in OneByOne(defs) : s.job.op = "newModel" /\ s.job.name = n
  <2>1. PICK i \in DOMAIN ns : ns[i] = n
    BY <1>1 DEF Range
  <2> DEFINE s == [stage |-> i, job |-> Job("newModel", ns[i], defs[ns[i]])]
  <2>2. s \in OneByOne(defs) /\ s.job.op = "newModel" /\ s.job.name = n
    BY <1>2, <2>1 DEF Job
  <2> QED
    BY <2>2
<1> QED
  BY <1>3, <1>4

(***************************************************************************)
(* What the steps do to the queue of the lock and to the jobs.             *)
(***************************************************************************)

\* Whoever is no loader may join the queue or leave its head.
LEMMA QueueMoves ==
    ASSUME TypeInv, QueueInv, UNCHANGED loader,
           \A l \in Loaders : l \in guards' => l \in guards,
           \/ queue' = queue
           \/ \E p \in Askers \ Loaders : queue' = Append(queue, p)
           \/ queue # <<>> /\ queue' = Tail(queue)
    PROVE  queue' \in Seq(Askers) /\ QueueInv'
<1>1. CASE queue' = queue
  BY <1>1 DEF TypeInv, QueueInv
<1>2. ASSUME NEW p \in Askers \ Loaders, queue' = Append(queue, p)
      PROVE  queue' \in Seq(Askers) /\ QueueInv'
  BY <1>2 DEF TypeInv, QueueInv
<1>3. CASE queue # <<>> /\ queue' = Tail(queue)
  BY <1>3 DEF TypeInv, QueueInv
<1> QED
  BY <1>1, <1>2, <1>3

\* A job that is done is dropped, the others stay.
LEMMA DoneProperties ==
    ASSUME DOMAIN jobs = Workers, NEW w \in Workers, NEW s \in jobs[w], jobs' = Done(w, s)
    PROVE  /\ DOMAIN jobs' = Workers
           /\ \A v \in Workers : jobs'[v] \subseteq jobs[v]
           /\ \A v \in Workers : \A t \in jobs[v] : t \in jobs'[v] \/ t = s
BY DEF Done

\* A job that goes on keeps its component and its definition.
LEMMA BecomesProperties ==
    ASSUME DOMAIN jobs = Workers, NEW w \in Workers, NEW s \in jobs[w], IsStep(s), NEW op,
           jobs' = Becomes(w, s, op)
    PROVE  /\ DOMAIN jobs' = Workers
           /\ jobs[w] # {}
           /\ \A v \in Workers : v # w => jobs'[v] = jobs[v]
           /\ \E u \in jobs'[w] :
                 /\ IsStep(u) /\ u.job = Job(op, s.job.name, s.job.def)
                 /\ \A t \in jobs'[w] : t \in jobs[w] \/ t = u
                 /\ \A t \in jobs[w] : t \in jobs'[w] \/ t = s
<1> DEFINE u == [s EXCEPT !.job.op = op]
<1>1. u = [stage |-> s.stage, job |-> Job(op, s.job.name, s.job.def)]
  BY DEF IsStep, Job
<1>2. IsStep(u) /\ u.job = Job(op, s.job.name, s.job.def)
  BY <1>1 DEF IsStep, Job
<1>3. jobs'[w] = (jobs[w] \ {s}) \cup {u}
  BY DEF Becomes
<1>4. DOMAIN jobs' = Workers /\ \A v \in Workers : v # w => jobs'[v] = jobs[v]
  BY DEF Becomes
<1> QED
  BY <1>2, <1>3, <1>4

(***************************************************************************)
(* The steps of JobStep.                                                   *)
(***************************************************************************)
ModelJob(w, s) ==
    \/ BeginModel(w, s) \/ AskForPrompt(w, s) \/ RemoveModel(w, s)
    \/ /\ s.job.op = "model"
       /\ \E ok \in s.job.def.outcomes : LoadModel(w, s, ok)

JobFrame ==
    UNCHANGED <<app, file, updates, guards, loader, complete, next, adopted, stranded>>

\* Work on a component leaves the app, the guards and the loaders alone.
LEMMA JobStepFrame ==
    ASSUME NEW w, NEW s, DatasetJob(w, s) \/ ModelJob(w, s)
    PROVE  /\ JobFrame
           /\ \/ queue' = queue
              \/ queue' = Append(queue, Prompt)
              \/ queue # <<>> /\ queue' = Tail(queue)
<1>1. CASE DatasetJob(w, s)
  BY <1>1 DEF DatasetJob, JobFrame, LoadCatalog, NewDataset, LoadDataset, UpdateDataset,
     TableIsReady, RefreshGivesUp, ReplaceDataset, RegisterOnce, RemoveDataset,
     fileVars, lockVars, historyVars
<1>2. CASE ModelJob(w, s)
  BY <1>2 DEF ModelJob, JobFrame, BeginModel, AskForPrompt, RemoveModel, LoadModel, CanRead,
     Enqueued, modelUnchanged, fileVars, lockVars, historyVars
<1> QED
  BY <1>1, <1>2

\* A job on a dataset is dropped only when the dataset stands under its
\* definition or has the status Error; until then it stays a job on it.
DatasetEnds(s) ==
    \/ /\ status'[s.job.name] = "ready" /\ table'[s.job.name] = s.job.def
    \/ status'[s.job.name] = "error"

\* The tables and the statuses of the other datasets.
Others(s) ==
    /\ DOMAIN table' = Datasets /\ DOMAIN status' = Datasets
    /\ \A d \in Datasets \ {s.job.name} : table'[d] = table[d] /\ status'[d] = status[d]

\* What the steps on a dataset that the app has come to.
LEMMA LiveDatasetStep ==
    ASSUME TypeInv, NEW w \in Workers, NEW s, DatasetJob(w, s), s.job.op \in DatasetOps,
           s.job.name \in Datasets
    PROVE  /\ \/ jobs' = jobs
              \/ \E op \in DatasetOps : jobs' = Becomes(w, s, op)
              \/ jobs' = Done(w, s) /\ DatasetEnds(s)
           /\ Others(s) /\ UNCHANGED <<catalog, mstatus>>
<1> USE DEF TypeInv, DatasetOps, DatasetEnds, Others, tableVars, modelVars
<1>1. CASE NewDataset(w, s)
  BY <1>1 DEF NewDataset
<1>2. CASE LoadDataset(w, s)
  BY <1>2 DEF LoadDataset, Register
<1>3. CASE UpdateDataset(w, s)
  BY <1>3 DEF UpdateDataset
<1>4. CASE TableIsReady(w, s)
  BY <1>4 DEF TableIsReady, Register
<1>5. CASE RefreshGivesUp(w, s)
  BY <1>5 DEF RefreshGivesUp
<1>6. CASE ReplaceDataset(w, s)
  BY <1>6 DEF ReplaceDataset, Unload
<1>7. CASE RegisterOnce(w, s)
  BY <1>7 DEF RegisterOnce, Register
<1> QED
  BY <1>1, <1>2, <1>3, <1>4, <1>5, <1>6, <1>7
  DEF DatasetJob, LoadCatalog, RemoveDataset

\* A catalog is registered under the definition of the job.
LEMMA CatalogStep ==
    ASSUME TypeInv, NEW w \in Workers, NEW s, DatasetJob(w, s), s.job.op = "catalog",
           s.job.name \in Catalogs
    PROVE  /\ jobs' = Done(w, s) /\ UNCHANGED <<table, status, mstatus>>
           /\ DOMAIN catalog' = Catalogs /\ catalog'[s.job.name] = s.job.def
           /\ \A c \in Catalogs \ {s.job.name} : catalog'[c] = catalog[c]
BY DEF TypeInv, DatasetJob, LoadCatalog, NewDataset, LoadDataset, UpdateDataset, TableIsReady,
   RefreshGivesUp, ReplaceDataset, RegisterOnce, RemoveDataset, tableVars, modelVars

\* A removed dataset has no table.
LEMMA RemovalStep ==
    ASSUME TypeInv, NEW w \in Workers, NEW s, DatasetJob(w, s), s.job.op = "remove",
           s.job.name \in Datasets
    PROVE  /\ jobs' = Done(w, s) /\ UNCHANGED <<catalog, mstatus>>
           /\ Others(s) /\ table'[s.job.name] = None
BY DEF TypeInv, DatasetJob, LoadCatalog, NewDataset, LoadDataset, UpdateDataset, TableIsReady,
   RefreshGivesUp, ReplaceDataset, RegisterOnce, RemoveDataset, Unload, Others, modelVars

\* A job on a model is dropped when the model has its final status.
LEMMA LiveModelStep ==
    ASSUME TypeInv, NEW w \in Workers, NEW s, ModelJob(w, s), s.job.op \in ModelOps,
           s.job.name \in Models
    PROVE  /\ UNCHANGED <<table, status, catalog>> /\ DOMAIN mstatus' = Models
           /\ \A m \in Models \ {s.job.name} : mstatus'[m] = mstatus[m]
           /\ \/ UNCHANGED <<jobs, mstatus>>
              \/ \E op \in ModelOps : jobs' = Becomes(w, s, op)
              \/ jobs' = Done(w, s) /\ mstatus'[s.job.name] \in {"ready", "error"}
<1> USE DEF TypeInv, ModelOps, modelUnchanged, tableVars
<1>1. CASE BeginModel(w, s)
  BY <1>1 DEF BeginModel
<1>2. CASE AskForPrompt(w, s)
  BY <1>2 DEF AskForPrompt
<1>3. CASE \E ok \in s.job.def.outcomes : LoadModel(w, s, ok)
  BY <1>3 DEF LoadModel, EndModel
<1> QED
  BY <1>1, <1>2, <1>3 DEF ModelJob, RemoveModel

\* Removing a model leaves the status of the others.
LEMMA ModelRemovalStep ==
    ASSUME TypeInv, NEW w \in Workers, NEW s, ModelJob(w, s), s.job.op = "removeModel",
           s.job.name \in Models
    PROVE  /\ UNCHANGED <<table, status, catalog>> /\ DOMAIN mstatus' = Models
           /\ \A m \in Models \ {s.job.name} : mstatus'[m] = mstatus[m]
           /\ jobs' = Done(w, s)
BY DEF TypeInv, ModelJob, BeginModel, AskForPrompt, RemoveModel, modelUnchanged, tableVars

\* The target is an app whenever somebody has a job.
LEMMA TargetIsApp ==
    ASSUME TypeInv, LockInv, NEW w \in Workers, jobs[w] # {}
    PROVE  w \in guards /\ Target \in Apps /\ app \in Apps
BY DEF TypeInv, LockInv, Target, AppsOrNone, Workers

\* One of the kinds of jobs: a job that goes on stays of its kind.
Kinds == {DatasetOps, ModelOps, {"catalog"}, {"remove"}, {"removeModel"}}

GoesOn(w, s, ops) == jobs' = jobs \/ \E op \in ops : jobs' = Becomes(w, s, op)
JobMoves(w, s, ops) == GoesOn(w, s, ops) \/ jobs' = Done(w, s)

\* The kinds have nothing in common.
LEMMA KindsAreDisjoint ==
    ASSUME NEW j \in Kinds, NEW k \in Kinds, j \cap k # {}
    PROVE  j = k
BY DEF Kinds, DatasetOps, ModelOps

\* What is to do stays to do, except for the job that is done.
LEMMA PendingKept ==
    ASSUME TypeInv, NEW w \in Workers, NEW s \in jobs[w], IsStep(s),
           NEW ops \in Kinds, s.job.op \in ops, JobMoves(w, s, ops),
           NEW k \in Kinds, NEW n, Pending(k, n)
    PROVE  \/ Pending(k, n)'
           \/ k = ops /\ n = s.job.name /\ ~GoesOn(w, s, ops)
<1>1. DOMAIN jobs = Workers
  BY DEF TypeInv
<1>2. PICK v \in Workers : \E t \in jobs[v] : t.job.op \in k /\ t.job.name = n
  BY DEF Pending
<1>3. PICK t \in jobs[v] : t.job.op \in k /\ t.job.name = n
  BY <1>2
<1>4. CASE jobs' = jobs
  BY <1>3, <1>4 DEF Pending
<1>5. CASE jobs' = Done(w, s) /\ ~GoesOn(w, s, ops)
  <2>1. t \in jobs'[v] \/ t = s
    BY <1>1, <1>5, DoneProperties
  <2>2. CASE t = s
    BY <1>3, <1>5, <2>2, KindsAreDisjoint
  <2> QED
    BY <1>3, <2>1, <2>2 DEF Pending
<1>6. ASSUME NEW op \in ops, jobs' = Becomes(w, s, op)
      PROVE  Pending(k, n)'
  <2>1. PICK u \in jobs'[w] :
           /\ IsStep(u) /\ u.job = Job(op, s.job.name, s.job.def)
           /\ \A r \in jobs[w] : r \in jobs'[w] \/ r = s
    BY <1>1, <1>6, BecomesProperties
  <2>2. CASE v = w /\ t = s
    <3>1. k = ops
      BY <1>3, <2>2, KindsAreDisjoint
    <3> QED
      BY <1>3, <2>1, <2>2, <3>1 DEF Pending, Job
  <2>3. CASE ~(v = w /\ t = s)
    <3>1. t \in jobs'[v]
      BY <1>1, <1>6, <2>1, <2>3, BecomesProperties
    <3> QED
      BY <1>3, <3>1 DEF Pending
  <2> QED
    BY <2>2, <2>3
<1> QED
  BY <1>4, <1>5, <1>6 DEF JobMoves, GoesOn

\* The jobs stay jobs of the target.
LEMMA JobsKept ==
    ASSUME TypeInv, LockInv, JobsInv, NEW w \in Workers, NEW s \in jobs[w],
           NEW ops \in Kinds, s.job.op \in ops, JobMoves(w, s, ops), JobFrame
    PROVE  JobsInv' /\ LockInv' /\ DOMAIN jobs' = Workers /\ Target' = Target
<1>1. DOMAIN jobs = Workers /\ w \in guards /\ Target \in Apps
  BY TargetIsApp DEF TypeInv
<1>2. IsStep(s) /\ JobOf(Target, s.job)
  BY DEF JobsInv
<1>3. Target' = Target
  BY DEF JobFrame, Target
<1>4. CASE jobs' = jobs
  BY <1>1, <1>3, <1>4 DEF JobsInv, LockInv, JobFrame
<1>5. CASE jobs' = Done(w, s)
  <2>1. DOMAIN jobs' = Workers /\ \A v \in Workers : jobs'[v] \subseteq jobs[v]
    BY <1>1, <1>5, DoneProperties
  <2>2. JobsInv'
    BY <1>3, <2>1 DEF JobsInv
  <2>3. LockInv'
    BY <2>1 DEF LockInv, JobFrame
  <2> QED
    BY <1>3, <2>1, <2>2, <2>3
<1>6. ASSUME NEW op \in ops, jobs' = Becomes(w, s, op)
      PROVE  JobsInv' /\ LockInv' /\ DOMAIN jobs' = Workers
  <2>1. DOMAIN jobs' = Workers /\ \A v \in Workers : v # w => jobs'[v] = jobs[v]
    BY <1>1, <1>2, <1>6, BecomesProperties
  <2>2. PICK u \in jobs'[w] :
           /\ IsStep(u) /\ u.job = Job(op, s.job.name, s.job.def)
           /\ \A t \in jobs'[w] : t \in jobs[w] \/ t = u
    BY <1>1, <1>2, <1>6, BecomesProperties
  <2>3. JobOf(Target, u.job)
    <3>1. u.job.op = op /\ u.job.name = s.job.name /\ u.job.def = s.job.def
      BY <2>2 DEF Job
    <3>2. ops = DatasetOps \/ ops = ModelOps \/ op = s.job.op
      BY DEF Kinds
    <3>3. CASE ops = DatasetOps
      BY <1>2, <3>1, <3>3 DEF JobOf, DatasetOps, ModelOps
    <3>4. CASE ops = ModelOps
      BY <1>2, <3>1, <3>4 DEF JobOf, DatasetOps, ModelOps
    <3>5. CASE op = s.job.op
      BY <1>2, <3>1, <3>5 DEF JobOf
    <3> QED
      BY <3>2, <3>3, <3>4, <3>5
  <2>4. JobsInv'
    BY <1>3, <2>1, <2>2, <2>3 DEF JobsInv
  <2>5. LockInv'
    BY <1>1, <2>1 DEF LockInv, JobFrame
  <2> QED
    BY <2>1, <2>4, <2>5
<1> QED
  BY <1>1, <1>3, <1>4, <1>5, <1>6 DEF JobMoves, GoesOn

\* A step of a job is of one of five kinds.
LEMMA JobKinds ==
    ASSUME IInv, NEW w \in Workers, NEW s \in Due(w), DatasetJob(w, s) \/ ModelJob(w, s)
    PROVE  /\ s \in jobs[w] /\ IsStep(s) /\ Target \in Apps /\ JobOf(Target, s.job)
           /\ \/ DatasetJob(w, s) /\ s.job.op \in DatasetOps /\ s.job.name \in Datasets
              \/ DatasetJob(w, s) /\ s.job.op = "catalog" /\ s.job.name \in Catalogs
              \/ DatasetJob(w, s) /\ s.job.op = "remove" /\ s.job.name \in Datasets
              \/ ModelJob(w, s) /\ s.job.op \in ModelOps /\ s.job.name \in Models
              \/ ModelJob(w, s) /\ s.job.op = "removeModel" /\ s.job.name \in Models
<1>1. s \in jobs[w]
  BY DEF Due
<1>2. Target \in Apps
  BY <1>1, TargetIsApp DEF IInv
<1>3. IsStep(s) /\ JobOf(Target, s.job)
  BY <1>1 DEF IInv, JobsInv
<1>4. ValidDatasets(Target) \subseteq Datasets /\ ValidCatalogs(Target) \subseteq Catalogs
  BY <1>2, NamesAssumption DEF ValidDatasets, ValidCatalogs
<1>5. CASE DatasetJob(w, s)
  <2>1. s.job.op \in DatasetOps \cup {"catalog", "remove"}
    BY <1>5 DEF DatasetJob, DatasetOps, LoadCatalog, NewDataset, LoadDataset, UpdateDataset,
       TableIsReady, RefreshGivesUp, ReplaceDataset, RegisterOnce, RemoveDataset
  <2> QED
    BY <1>1, <1>2, <1>3, <1>4, <1>5, <2>1 DEF JobOf
<1>6. CASE ModelJob(w, s)
  <2>1. s.job.op \in ModelOps \cup {"removeModel"}
    BY <1>6 DEF ModelJob, ModelOps, BeginModel, AskForPrompt, RemoveModel
  <2> QED
    BY <1>1, <1>2, <1>3, <1>6, <2>1 DEF JobOf
<1> QED
  BY <1>5, <1>6

\* What any step of a job leaves true of the types, the lock and the order.
LEMMA JobControl ==
    ASSUME IInv, JobFrame, JobsInv', LockInv', DOMAIN jobs' = Workers,
           \/ queue' = queue
           \/ queue' = Append(queue, Prompt)
           \/ queue # <<>> /\ queue' = Tail(queue),
           DOMAIN table' = Datasets, DOMAIN status' = Datasets,
           DOMAIN catalog' = Catalogs, DOMAIN mstatus' = Models
    PROVE  TypeInv' /\ LockInv' /\ QueueInv' /\ OrderInv' /\ JobsInv'
<1>1. Prompt \in Askers \ Loaders
  BY DEF Askers, Prompt, Loaders, First, Second, Joined
<1>2. queue' \in Seq(Askers) /\ QueueInv'
  BY <1>1, QueueMoves DEF IInv, JobFrame
<1>3. TypeInv'
  BY <1>2 DEF IInv, TypeInv, JobFrame
<1>4. OrderInv'
  BY DEF IInv, OrderInv, AllJoined, JobFrame
<1> QED
  BY <1>2, <1>3, <1>4

\* A step of a job keeps the invariant.
LEMMA JobStepInv ==
    ASSUME IInv, NEW w \in Workers, NEW s \in Due(w), DatasetJob(w, s) \/ ModelJob(w, s)
    PROVE  IInv'
<1>1. /\ s \in jobs[w] /\ IsStep(s) /\ Target \in Apps /\ JobOf(Target, s.job)
      /\ TypeInv /\ LockInv /\ JobsInv /\ JobFrame
      /\ \/ queue' = queue
         \/ queue' = Append(queue, Prompt)
         \/ queue # <<>> /\ queue' = Tail(queue)
  BY JobKinds, JobStepFrame DEF IInv
<1> DEFINE n == s.job.name
<1>2. ASSUME NEW ops \in Kinds, s.job.op \in ops, JobMoves(w, s, ops),
             DOMAIN table' = Datasets, DOMAIN status' = Datasets,
             DOMAIN catalog' = Catalogs, DOMAIN mstatus' = Models
      PROVE  /\ TypeInv' /\ LockInv' /\ QueueInv' /\ OrderInv' /\ JobsInv'
             /\ Target' = Target /\ Kept' = Kept
             /\ \A l \in Loaders : Begun(l)' = Begun(l)
             /\ \A k \in Kinds : \A m : Pending(k, m) =>
                   Pending(k, m)' \/ (k = ops /\ m = n /\ ~GoesOn(w, s, ops))
  <2>1. JobsInv' /\ LockInv' /\ DOMAIN jobs' = Workers /\ Target' = Target
    BY <1>1, <1>2, JobsKept
  <2>2. TypeInv' /\ LockInv' /\ QueueInv' /\ OrderInv' /\ JobsInv'
    BY <1>1, <1>2, <2>1, JobControl
  <2>3. \A k \in Kinds : \A m : Pending(k, m) =>
           Pending(k, m)' \/ (k = ops /\ m = n /\ ~GoesOn(w, s, ops))
    BY <1>1, <1>2, PendingKept
  <2>4. Kept' = Kept /\ \A l \in Loaders : Begun(l)' = Begun(l)
    BY <1>1 DEF JobFrame, Kept, Begun
  <2> QED
    BY <2>1, <2>2, <2>3, <2>4
<1>3. /\ DatasetOps \in Kinds /\ ModelOps \in Kinds /\ {"catalog"} \in Kinds
      /\ {"remove"} \in Kinds /\ {"removeModel"} \in Kinds
      /\ {"datasets", "catalogs", "models"} \subseteq Loaders
  BY DEF Kinds, Loaders, Joined
<1>4. /\ ValidDatasets(Target) \subseteq Datasets /\ ValidCatalogs(Target) \subseteq Catalogs
      /\ DOMAIN Target.models \subseteq Models
  BY <1>1, NamesAssumption DEF ValidDatasets, ValidCatalogs
<1>5. DatasetsInv /\ TablesInv /\ CatalogsInv /\ ModelsInv /\ UNCHANGED stranded
  BY <1>1 DEF IInv, JobFrame
<1>6. CASE DatasetJob(w, s) /\ s.job.op \in DatasetOps /\ n \in Datasets
  <2>1. /\ \/ jobs' = jobs
           \/ \E op \in DatasetOps : jobs' = Becomes(w, s, op)
           \/ jobs' = Done(w, s) /\ DatasetEnds(s)
        /\ Others(s) /\ UNCHANGED <<catalog, mstatus>>
    BY <1>1, <1>6, LiveDatasetStep
  <2>2. n \in ValidDatasets(Target) /\ s.job.def = Target.datasets[n]
    BY <1>1, <1>6 DEF JobOf
  <2>3. /\ TypeInv' /\ LockInv' /\ QueueInv' /\ OrderInv' /\ JobsInv'
        /\ Target' = Target /\ Kept' = Kept
        /\ \A l \in Loaders : Begun(l)' = Begun(l)
        /\ \A k \in Kinds : \A m : Pending(k, m) =>
              Pending(k, m)' \/ (k = DatasetOps /\ m = n /\ ~GoesOn(w, s, DatasetOps))
    BY <1>1, <1>2, <1>3, <1>6, <2>1 DEF JobMoves, GoesOn, Others, TypeInv
  <2>4. DatasetsInv'
    <3> SUFFICES ASSUME Kept, Begun("datasets"), NEW d \in ValidDatasets(Target)
                 PROVE  \/ Pending(DatasetOps, d)'
                        \/ /\ status'[d] \in {"ready", "error"}
                           /\ table'[d] = Target.datasets[d] \/ status'[d] = "error"
      BY <1>3, <2>3 DEF DatasetsInv
    <3>1. CASE d # n
      BY <1>3, <1>4, <1>5, <2>1, <2>3, <3>1 DEF DatasetsInv, Others
    <3>2. CASE d = n
      <4>1. Pending(DatasetOps, n)
        BY <1>1, <1>6 DEF Pending
      <4>2. CASE GoesOn(w, s, DatasetOps)
        BY <1>3, <2>3, <3>2, <4>1, <4>2
      <4>3. CASE jobs' = Done(w, s) /\ DatasetEnds(s)
        BY <2>2, <3>2, <4>3 DEF DatasetEnds
      <4> QED
        BY <2>1, <4>2, <4>3 DEF GoesOn
    <3> QED
      BY <3>1, <3>2
  <2>5. TablesInv'
    BY <1>3, <1>5, <2>1, <2>2, <2>3 DEF TablesInv, Others, Kinds, DatasetOps
  <2>6. CatalogsInv' /\ ModelsInv'
    BY <1>3, <1>5, <2>1, <2>3 DEF CatalogsInv, ModelsInv, DatasetOps, ModelOps
  <2> QED
    BY <2>3, <2>4, <2>5, <2>6 DEF IInv
<1>7. CASE DatasetJob(w, s) /\ s.job.op = "catalog" /\ n \in Catalogs
  <2>1. /\ jobs' = Done(w, s) /\ UNCHANGED <<table, status, mstatus>>
        /\ DOMAIN catalog' = Catalogs /\ catalog'[n] = s.job.def
        /\ \A c \in Catalogs \ {n} : catalog'[c] = catalog[c]
    BY <1>1, <1>7, CatalogStep
  <2>2. n \in ValidCatalogs(Target) /\ s.job.def = Target.catalogs[n]
    BY <1>1, <1>7 DEF JobOf
  <2>3. /\ TypeInv' /\ LockInv' /\ QueueInv' /\ OrderInv' /\ JobsInv'
        /\ Target' = Target /\ Kept' = Kept
        /\ \A l \in Loaders : Begun(l)' = Begun(l)
        /\ \A k \in Kinds : \A m : Pending(k, m) =>
              Pending(k, m)' \/ (k = {"catalog"} /\ m = n)
    BY <1>1, <1>2, <1>3, <1>7, <2>1 DEF JobMoves, TypeInv
  <2>4. CatalogsInv'
    BY <1>3, <1>4, <1>5, <2>1, <2>2, <2>3 DEF CatalogsInv
  <2>5. DatasetsInv' /\ TablesInv' /\ ModelsInv'
    BY <1>3, <1>5, <2>1, <2>3 DEF DatasetsInv, TablesInv, ModelsInv, DatasetOps, ModelOps
  <2> QED
    BY <2>3, <2>4, <2>5 DEF IInv
<1>8. CASE DatasetJob(w, s) /\ s.job.op = "remove" /\ n \in Datasets
  <2>1. /\ jobs' = Done(w, s) /\ UNCHANGED <<catalog, mstatus>>
        /\ Others(s) /\ table'[n] = None
    BY <1>1, <1>8, RemovalStep
  <2>2. n \notin ValidDatasets(Target)
    BY <1>1, <1>8 DEF JobOf, ValidDatasets
  <2>3. /\ TypeInv' /\ LockInv' /\ QueueInv' /\ OrderInv' /\ JobsInv'
        /\ Target' = Target /\ Kept' = Kept
        /\ \A l \in Loaders : Begun(l)' = Begun(l)
        /\ \A k \in Kinds : \A m : Pending(k, m) =>
              Pending(k, m)' \/ (k = {"remove"} /\ m = n)
    BY <1>1, <1>2, <1>3, <1>8, <2>1 DEF JobMoves, Others, TypeInv
  <2>4. DatasetsInv'
    BY <1>3, <1>4, <1>5, <2>1, <2>2, <2>3 DEF DatasetsInv, Others
  <2>5. TablesInv'
    BY <1>3, <1>5, <2>1, <2>3 DEF TablesInv, Others
  <2>6. CatalogsInv' /\ ModelsInv'
    BY <1>3, <1>5, <2>1, <2>3 DEF CatalogsInv, ModelsInv, ModelOps
  <2> QED
    BY <2>3, <2>4, <2>5, <2>6 DEF IInv
<1>9. CASE ModelJob(w, s) /\ s.job.op \in ModelOps /\ n \in Models
  <2>1. /\ UNCHANGED <<table, status, catalog>> /\ DOMAIN mstatus' = Models
        /\ \A m \in Models \ {n} : mstatus'[m] = mstatus[m]
        /\ \/ UNCHANGED <<jobs, mstatus>>
           \/ \E op \in ModelOps : jobs' = Becomes(w, s, op)
           \/ jobs' = Done(w, s) /\ mstatus'[n] \in {"ready", "error"}
    BY <1>1, <1>9, LiveModelStep
  <2>2. /\ TypeInv' /\ LockInv' /\ QueueInv' /\ OrderInv' /\ JobsInv'
        /\ Target' = Target /\ Kept' = Kept
        /\ \A l \in Loaders : Begun(l)' = Begun(l)
        /\ \A k \in Kinds : \A m : Pending(k, m) =>
              Pending(k, m)' \/ (k = ModelOps /\ m = n /\ ~GoesOn(w, s, ModelOps))
    BY <1>1, <1>2, <1>3, <1>9, <2>1 DEF JobMoves, GoesOn, TypeInv
  <2>3. ModelsInv'
    <3> SUFFICES ASSUME Kept, Begun("models"), NEW m \in DOMAIN Target.models
                 PROVE  Pending(ModelOps, m)' \/ mstatus'[m] \in {"ready", "error"}
      BY <1>3, <2>2 DEF ModelsInv
    <3>1. CASE m # n
      BY <1>3, <1>4, <1>5, <2>1, <2>2, <3>1 DEF ModelsInv
    <3>2. CASE m = n
      <4>1. Pending(ModelOps, n)
        BY <1>1, <1>9 DEF Pending
      <4>2. CASE GoesOn(w, s, ModelOps)
        BY <1>3, <2>2, <3>2, <4>1, <4>2
      <4> QED
        BY <2>1, <3>2, <4>2 DEF GoesOn
    <3> QED
      BY <3>1, <3>2
  <2>4. DatasetsInv' /\ TablesInv' /\ CatalogsInv'
    BY <1>3, <1>5, <2>1, <2>2 DEF DatasetsInv, TablesInv, CatalogsInv, DatasetOps, ModelOps
  <2> QED
    BY <2>2, <2>3, <2>4 DEF IInv
<1>10. CASE ModelJob(w, s) /\ s.job.op = "removeModel" /\ n \in Models
  <2>1. /\ UNCHANGED <<table, status, catalog>> /\ DOMAIN mstatus' = Models
        /\ \A m \in Models \ {n} : mstatus'[m] = mstatus[m]
        /\ jobs' = Done(w, s)
    BY <1>1, <1>10, ModelRemovalStep
  <2>2. n \notin DOMAIN Target.models
    BY <1>1, <1>10 DEF JobOf
  <2>3. /\ TypeInv' /\ LockInv' /\ QueueInv' /\ OrderInv' /\ JobsInv'
        /\ Target' = Target /\ Kept' = Kept
        /\ \A l \in Loaders : Begun(l)' = Begun(l)
        /\ \A k \in Kinds : \A m : Pending(k, m) =>
              Pending(k, m)' \/ (k = {"removeModel"} /\ m = n)
    BY <1>1, <1>2, <1>3, <1>10, <2>1 DEF JobMoves, TypeInv
  <2>4. ModelsInv'
    BY <1>3, <1>4, <1>5, <2>1, <2>2, <2>3 DEF ModelsInv, ModelOps
  <2>5. DatasetsInv' /\ TablesInv' /\ CatalogsInv'
    BY <1>3, <1>5, <2>1, <2>3 DEF DatasetsInv, TablesInv, CatalogsInv, DatasetOps
  <2> QED
    BY <2>3, <2>4, <2>5 DEF IInv
<1> QED
  BY <1>6, <1>7, <1>8, <1>9, <1>10, JobKinds

(***************************************************************************)
(* The steps that ask for guards, take them and drop them.                 *)
(***************************************************************************)
dataVars == <<jobs, table, status, catalog, mstatus, stranded>>

DataInv == DatasetsInv /\ TablesInv /\ CatalogsInv /\ ModelsInv

\* As long as the target and what has begun are the same, so is what is to do.
LEMMA DataKept ==
    ASSUME DataInv, UNCHANGED dataVars, Target' = Target, Kept' => Kept,
           \A l \in {"datasets", "catalogs", "models"} : Kept' /\ Begun(l)' => Begun(l)
    PROVE  DataInv'
<1>1. \A k, n : Pending(k, n)' = Pending(k, n)
  BY DEF Pending, dataVars
<1>2. DatasetsInv'
  BY <1>1 DEF DataInv, DatasetsInv, dataVars
<1>3. TablesInv'
  BY <1>1 DEF DataInv, TablesInv, dataVars
<1>4. CatalogsInv'
  BY <1>1 DEF DataInv, CatalogsInv, dataVars
<1>5. ModelsInv'
  BY <1>1 DEF DataInv, ModelsInv, dataVars
<1> QED
  BY <1>2, <1>3, <1>4, <1>5 DEF DataInv

coreVars == <<dataVars, app, guards, queue, loader, complete, next, adopted>>

\* Steps of the file system, the views and the sources.
LEMMA CoreKept ==
    ASSUME IInv, UNCHANGED coreVars, file' \in AppsOrNone, updates' \in Seq(Apps)
    PROVE  IInv'
<1>1. TypeInv' /\ LockInv' /\ QueueInv'
  BY DEF IInv, TypeInv, LockInv, QueueInv, coreVars, dataVars
<1>2. OrderInv'
  BY DEF IInv, OrderInv, AllJoined, coreVars
<1>3. Target' = Target /\ Kept' = Kept /\ \A l : Begun(l)' = Begun(l)
  BY DEF Target, Kept, Begun, coreVars
<1>4. JobsInv'
  BY <1>3 DEF IInv, JobsInv, coreVars, dataVars
<1>5. DataInv'
  BY <1>3, DataKept DEF IInv, DataInv, coreVars
<1> QED
  BY <1>1, <1>2, <1>4, <1>5 DEF IInv, DataInv

\* The watcher and the loaders are different, and no handler is one of them.
LEMMA WhoIsWho ==
    /\ Watcher \notin Loaders /\ Workers = Loaders \cup {Watcher}
    /\ Watcher \notin Readers /\ Readers \cap Loaders = {} /\ Prompt \notin Loaders
    /\ {"datasets", "catalogs", "models", "cache", "tools", "embeddings"} = Loaders
BY ReadersAssumption DEF Watcher, Loaders, First, Second, Joined, Workers, Prompt

\* Steps of the handlers.
LEMMA ReaderInv ==
    ASSUME IInv, NEW r \in Readers, AskToRead(r) \/ StartReading(r) \/ Answer(r)
    PROVE  IInv'
<1> USE WhoIsWho
<1>1. /\ UNCHANGED <<dataVars, app, file, updates, loader, complete, next, adopted>>
      /\ guards' \in {guards, guards \cup {r}, guards \ {r}}
      /\ guards' # guards /\ guards' = guards \cup {r} => Watcher \notin guards
      /\ \/ queue' = queue
         \/ queue' = Append(queue, r)
         \/ queue # <<>> /\ queue' = Tail(queue)
  BY DEF AskToRead, StartReading, Answer, CanRead, Enqueued, readerUnchanged, dataVars,
     fileVars, tableVars, modelVars, historyVars
<1>2. /\ \A l \in Workers : l \in guards' <=> l \in guards
      /\ guards' \subseteq Workers \cup Readers
  BY <1>1 DEF IInv, TypeInv
<1>3. queue' \in Seq(Askers) /\ QueueInv'
  BY <1>1, <1>2, QueueMoves DEF IInv, Askers
<1>4. TypeInv'
  BY <1>1, <1>2, <1>3 DEF IInv, TypeInv, dataVars
<1>5. LockInv'
  BY <1>1, <1>2 DEF IInv, LockInv, dataVars
<1>6. OrderInv'
  BY <1>1 DEF IInv, OrderInv, AllJoined
<1>7. Target' = Target /\ Kept' = Kept /\ \A l \in Loaders : Begun(l)' = Begun(l)
  BY <1>1, <1>2 DEF Target, Kept, Begun
<1>8. JobsInv'
  BY <1>1, <1>7 DEF IInv, JobsInv, dataVars
<1>9. DataInv'
  BY <1>1, <1>7, DataKept DEF IInv, DataInv
<1> QED
  BY <1>3, <1>4, <1>5, <1>6, <1>8, <1>9 DEF IInv, DataInv

\* A loader asks for a guard.
LEMMA AskToLoadInv ==
    ASSUME IInv, NEW l \in Loaders, AskToLoad(l)
    PROVE  IInv'
<1> USE WhoIsWho
<1>1. /\ UNCHANGED <<dataVars, app, file, updates, guards, complete, next, adopted>>
      /\ loader[l] = "todo" /\ loader' = [loader EXCEPT ![l] = "busy"]
      /\ queue' = Append(queue, l)
  BY DEF AskToLoad, MayStart, Enqueued, dataVars, fileVars, tableVars, modelVars, historyVars
<1>2. loader \in [Loaders -> {"todo", "busy", "done"}] /\ queue \in Seq(Askers)
  BY DEF IInv, TypeInv
<1>3. l \notin guards /\ \A i \in DOMAIN queue : queue[i] # l
  BY <1>1 DEF IInv, LockInv, QueueInv
<1>4. TypeInv'
  BY <1>1, <1>2 DEF IInv, TypeInv, dataVars, Askers
<1>5. LockInv'
  BY <1>1, <1>2, <1>3 DEF IInv, LockInv, dataVars
<1>6. QueueInv'
  BY <1>1, <1>2, <1>3 DEF IInv, QueueInv
<1>7. OrderInv'
  BY <1>1, <1>2 DEF IInv, OrderInv, AllJoined, AskToLoad, MayStart, First, Second, Joined
<1>8. Target' = Target /\ Kept' = Kept /\ \A k \in Loaders : Begun(k)' = Begun(k)
  BY <1>1, <1>2 DEF Target, Kept, Begun
<1>9. JobsInv'
  BY <1>1, <1>8 DEF IInv, JobsInv, dataVars
<1>10. DataInv'
  BY <1>1, <1>8, DataKept DEF IInv, DataInv
<1> QED
  BY <1>4, <1>5, <1>6, <1>7, <1>9, <1>10 DEF IInv, DataInv

\* Whoever is served leaves the queue, and a loader does not wait twice.
LEMMA Served ==
    ASSUME TypeInv, QueueInv, NEW l \in Loaders, CanRead(l), queue' = Tail(queue)
    PROVE  /\ loader[l] = "busy" /\ l \notin guards /\ Watcher \notin guards
           /\ queue' \in Seq(Askers)
           /\ \A i \in DOMAIN queue' : i + 1 \in DOMAIN queue /\ queue'[i] = queue[i + 1]
           /\ \A i \in DOMAIN queue' : queue'[i] # l
<1>1. queue \in Seq(Askers) /\ queue # <<>> /\ queue[1] = l /\ Watcher \notin guards
      /\ 1 \in DOMAIN queue
  BY DEF TypeInv, CanRead
<1>2. /\ queue' \in Seq(Askers)
      /\ \A i \in DOMAIN queue' : i \in Nat /\ i # 0 /\ i + 1 \in DOMAIN queue
                                  /\ queue'[i] = queue[i + 1]
  BY <1>1
<1>3. loader[l] = "busy" /\ l \notin guards
  BY <1>1 DEF QueueInv
<1>4. ASSUME NEW i \in DOMAIN queue', queue'[i] = l
      PROVE  FALSE
  <2>1. i + 1 # 1 /\ i + 1 \in DOMAIN queue /\ queue[i + 1] = l
    BY <1>2, <1>4
  <2> QED
    BY <1>1, <2>1 DEF QueueInv
<1> QED
  BY <1>1, <1>2, <1>3, <1>4

\* A loader that finds nothing to do is done.
LEMMA LoadsNothingInv ==
    ASSUME IInv, NEW l \in Loaders, LoadsNothing(l)
    PROVE  IInv'
<1> USE WhoIsWho
<1>1. /\ UNCHANGED <<dataVars, app, file, updates, guards, complete, next, adopted>>
      /\ loader' = [loader EXCEPT ![l] = "done"]
      /\ queue' = Tail(queue) /\ CanRead(l) /\ (l = "cache" \/ app = NoApp)
  BY DEF LoadsNothing, dataVars, fileVars, tableVars, modelVars, historyVars
<1>2. loader \in [Loaders -> {"todo", "busy", "done"}]
  BY DEF IInv, TypeInv
<1>3. /\ loader[l] = "busy" /\ l \notin guards /\ Watcher \notin guards
      /\ queue' \in Seq(Askers)
      /\ \A i \in DOMAIN queue' : i + 1 \in DOMAIN queue /\ queue'[i] = queue[i + 1]
      /\ \A i \in DOMAIN queue' : queue'[i] # l
  BY <1>1, Served DEF IInv
<1>4. TypeInv'
  BY <1>1, <1>2, <1>3 DEF IInv, TypeInv, dataVars
<1>5. LockInv'
  BY <1>1, <1>2, <1>3 DEF IInv, LockInv, dataVars
<1>6. QueueInv'
  BY <1>1, <1>2, <1>3 DEF IInv, QueueInv, TypeInv
<1>7. OrderInv'
  BY <1>1, <1>2, <1>3 DEF IInv, OrderInv, AllJoined, Joined
<1>8. /\ Target' = Target /\ Kept' = Kept
      /\ \A k \in {"datasets", "catalogs", "models"} : Kept' /\ Begun(k)' => Begun(k)
  BY <1>1, <1>2 DEF Target, Kept, Begun
<1>9. JobsInv'
  BY <1>1, <1>8 DEF IInv, JobsInv, dataVars
<1>10. DataInv'
  BY <1>1, <1>8, DataKept DEF IInv, DataInv
<1> QED
  BY <1>4, <1>5, <1>6, <1>7, <1>9, <1>10 DEF IInv, DataInv

\* A loader takes its guard and has jobs on components of the app.
TakesGuard(l) ==
    /\ UNCHANGED <<app, file, updates, loader, complete, next, adopted, stranded>>
    /\ UNCHANGED <<table, catalog, mstatus>> /\ DOMAIN status' = Datasets
    /\ queue' = Tail(queue) /\ CanRead(l) /\ app # NoApp
    /\ guards' = guards \cup {l}
    /\ DOMAIN jobs' = Workers /\ \A w \in Workers \ {l} : jobs'[w] = jobs[w]
    /\ \A s \in jobs'[l] : IsStep(s) /\ JobOf(app, s.job)

\* What a loader that takes its guard leaves true, and what its jobs add.
LEMMA TakesGuardInv ==
    ASSUME IInv, NEW l \in Loaders, TakesGuard(l)
    PROVE  /\ TypeInv' /\ LockInv' /\ QueueInv' /\ OrderInv' /\ JobsInv'
           /\ Target = app /\ Target' = app /\ app \in Apps /\ Kept' = Kept
           /\ \A k \in Loaders \ {l} : Begun(k)' = Begun(k)
           /\ \A k, n : Pending(k, n) => Pending(k, n)'
<1> USE WhoIsWho
<1>1. /\ loader[l] = "busy" /\ l \notin guards /\ Watcher \notin guards
      /\ queue' \in Seq(Askers)
      /\ \A i \in DOMAIN queue' : i + 1 \in DOMAIN queue /\ queue'[i] = queue[i + 1]
      /\ \A i \in DOMAIN queue' : queue'[i] # l
  BY Served DEF TakesGuard, IInv
<1>2. Target = app /\ Target' = app /\ app \in Apps /\ Kept' = Kept
  BY <1>1 DEF Target, Kept, TakesGuard, IInv, TypeInv, AppsOrNone
<1>3. jobs[l] = {}
  BY <1>1 DEF IInv, LockInv
<1>4. TypeInv'
  BY <1>1 DEF IInv, TypeInv, TakesGuard
<1>5. LockInv'
  BY <1>1 DEF IInv, LockInv, TakesGuard
<1>6. QueueInv'
  BY <1>1 DEF IInv, QueueInv, TypeInv, TakesGuard
<1>7. OrderInv'
  BY DEF IInv, OrderInv, AllJoined, TakesGuard
<1>8. JobsInv'
  BY <1>2 DEF IInv, JobsInv, TakesGuard
<1>9. \A k \in Loaders \ {l} : Begun(k)' = Begun(k)
  BY DEF Begun, TakesGuard
<1>10. \A k, n : Pending(k, n) => Pending(k, n)'
  BY <1>3 DEF Pending, TakesGuard
<1> QED
  BY <1>2, <1>4, <1>5, <1>6, <1>7, <1>8, <1>9, <1>10

\* load_datasets has a job for each dataset that it does not give up.
LEMMA LoadDatasetsInv ==
    ASSUME IInv, NEW failed \in SUBSET Datasets, LoadDatasets(failed)
    PROVE  IInv'
<1> USE WhoIsWho
<1>1. DOMAIN jobs = Workers /\ app \in Apps
  BY DEF IInv, TypeInv, AppsOrNone, LoadDatasets
<1>2. jobs'["datasets"] =
         {[stage |-> 1, job |-> Job("load", d, app.datasets[d])] :
             d \in ValidDatasets(app) \ failed}
  BY <1>1 DEF LoadDatasets
<1>3. ASSUME NEW s \in jobs'["datasets"]
      PROVE  IsStep(s) /\ JobOf(app, s.job)
  <2>1. PICK d \in ValidDatasets(app) :
            s = [stage |-> 1, job |-> Job("load", d, app.datasets[d])]
    BY <1>2
  <2> QED
    BY <2>1 DEF IsStep, JobOf, Job, DatasetOps, ModelOps
<1>4. TakesGuard("datasets")
  BY <1>1, <1>3 DEF LoadDatasets, TakesGuard, fileVars, historyVars, modelVars
<1>5. /\ TypeInv' /\ LockInv' /\ QueueInv' /\ OrderInv' /\ JobsInv'
      /\ Target = app /\ Target' = app /\ Kept' = Kept
      /\ \A k \in Loaders \ {"datasets"} : Begun(k)' = Begun(k)
      /\ \A k, n : Pending(k, n) => Pending(k, n)'
  BY <1>4, TakesGuardInv
<1>6. DatasetsInv'
  <2> SUFFICES ASSUME NEW d \in ValidDatasets(app)
               PROVE  Pending(DatasetOps, d)' \/ status'[d] = "error"
    BY <1>5 DEF DatasetsInv
  <2>1. CASE d \in failed
    BY <2>1 DEF LoadDatasets
  <2>2. CASE d \notin failed
    <3> DEFINE s == [stage |-> 1, job |-> Job("load", d, app.datasets[d])]
    <3>1. s \in jobs'["datasets"] /\ s.job.op \in DatasetOps /\ s.job.name = d
      BY <1>2, <2>2 DEF Job, DatasetOps
    <3> QED
      BY <3>1 DEF Pending
  <2> QED
    BY <2>1, <2>2
<1>7. TablesInv'
  BY <1>4, <1>5 DEF IInv, TablesInv, TakesGuard
<1>8. CatalogsInv'
  BY <1>4, <1>5 DEF IInv, CatalogsInv, TakesGuard
<1>9. ModelsInv'
  BY <1>4, <1>5 DEF IInv, ModelsInv, TakesGuard
<1> QED
  BY <1>5, <1>6, <1>7, <1>8, <1>9 DEF IInv

\* load_catalogs, load_models, load_embeddings and load_tools have a job for
\* each of their components.
LEMMA LoadOthersInv ==
    ASSUME IInv, NEW l \in Loaders, LoadOthers(l)
    PROVE  IInv'
<1> USE WhoIsWho
<1>1. DOMAIN jobs = Workers /\ app \in Apps /\ l # "datasets" /\ l \in Workers
  BY DEF IInv, TypeInv, AppsOrNone, LoadOthers
<1>2. /\ IsFiniteSet(DOMAIN app.models) /\ DOMAIN app.models \subseteq Models
      /\ IsFiniteSet(DOMAIN app.embeddings) /\ DOMAIN app.embeddings \subseteq Models
      /\ IsFiniteSet(DOMAIN app.tools) /\ DOMAIN app.tools \subseteq Models
  <2>1. /\ DOMAIN app.models \subseteq Models /\ DOMAIN app.embeddings \subseteq Models
        /\ DOMAIN app.tools \subseteq Models /\ IsFiniteSet(Models)
    BY <1>1, NamesAssumption
  <2> QED
    BY <2>1, FS_Subset
<1>3. /\ l = "catalogs" => jobs'[l] = Together(app.catalogs, ValidCatalogs(app))
      /\ l = "models" => jobs'[l] = OneByOne(app.models)
      /\ l = "embeddings" => jobs'[l] = OneByOne(app.embeddings)
      /\ l = "tools" => jobs'[l] = OneByOne(app.tools)
      /\ l \in {"catalogs", "models", "embeddings", "tools"}
  BY <1>1 DEF LoadOthers
<1>4. ASSUME NEW defs, IsFiniteSet(DOMAIN defs), DOMAIN defs \subseteq Models,
             NEW s \in OneByOne(defs)
      PROVE  IsStep(s) /\ JobOf(app, s.job)
  <2>1. IsStep(s) /\ s.job.op = "newModel" /\ s.job.name \in Models
    BY <1>4, OneByOneIsExact
  <2> QED
    BY <2>1 DEF JobOf, ModelOps, DatasetOps
<1>5. ASSUME NEW s \in Together(app.catalogs, ValidCatalogs(app))
      PROVE  IsStep(s) /\ JobOf(app, s.job)
  <2>1. PICK c \in ValidCatalogs(app) :
            s = [stage |-> 1, job |-> Job("catalog", c, app.catalogs[c])]
    BY DEF Together
  <2> QED
    BY <2>1 DEF IsStep, JobOf, Job, DatasetOps, ModelOps
<1>6. \A s \in jobs'[l] : IsStep(s) /\ JobOf(app, s.job)
  BY <1>2, <1>3, <1>4, <1>5
<1>7. TakesGuard(l)
  BY <1>1, <1>6 DEF IInv, TypeInv, LoadOthers, TakesGuard, fileVars, historyVars, modelVars,
     tableVars
<1>8. /\ TypeInv' /\ LockInv' /\ QueueInv' /\ OrderInv' /\ JobsInv'
      /\ Target = app /\ Target' = app /\ Kept' = Kept
      /\ \A k \in Loaders \ {l} : Begun(k)' = Begun(k)
      /\ \A k, n : Pending(k, n) => Pending(k, n)'
  BY <1>7, TakesGuardInv
<1>9. DatasetsInv' /\ TablesInv'
  BY <1>1, <1>7, <1>8 DEF IInv, DatasetsInv, TablesInv, TakesGuard, LoadOthers, tableVars
<1>10. CatalogsInv'
  <2>1. CASE l # "catalogs"
    BY <1>7, <1>8, <2>1 DEF IInv, CatalogsInv, TakesGuard
  <2>2. CASE l = "catalogs"
    <3> SUFFICES ASSUME NEW c \in ValidCatalogs(app)
                 PROVE  Pending({"catalog"}, c)'
      BY <1>8 DEF CatalogsInv
    <3> DEFINE s == [stage |-> 1, job |-> Job("catalog", c, app.catalogs[c])]
    <3>1. s \in jobs'[l] /\ s.job.op = "catalog" /\ s.job.name = c
      BY <1>3, <2>2 DEF Job, Together
    <3> QED
      BY <1>1, <3>1 DEF Pending
  <2> QED
    BY <2>1, <2>2
<1>11. ModelsInv'
  <2>1. CASE l # "models"
    BY <1>7, <1>8, <2>1 DEF IInv, ModelsInv, TakesGuard
  <2>2. CASE l = "models"
    <3> SUFFICES ASSUME NEW m \in DOMAIN app.models
                 PROVE  Pending(ModelOps, m)'
      BY <1>8 DEF ModelsInv
    <3>1. \E s \in jobs'[l] : s.job.op = "newModel" /\ s.job.name = m
      BY <1>2, <1>3, <2>2, OneByOneIsExact
    <3> QED
      BY <1>1, <3>1 DEF Pending, ModelOps
  <2> QED
    BY <2>1, <2>2
<1> QED
  BY <1>8, <1>9, <1>10, <1>11 DEF IInv

\* A loader that has loaded everything drops its guard.
LEMMA LoadedInv ==
    ASSUME IInv, NEW l \in Loaders, Loaded(l)
    PROVE  IInv'
<1> USE WhoIsWho
<1>1. /\ UNCHANGED <<dataVars, app, file, updates, queue, complete, next, adopted>>
      /\ loader' = [loader EXCEPT ![l] = "done"]
      /\ l \in guards /\ jobs[l] = {} /\ guards' = guards \ {l}
  BY DEF Loaded, DropGuard, dataVars, fileVars, tableVars, modelVars, historyVars
<1>2. loader \in [Loaders -> {"todo", "busy", "done"}] /\ loader[l] = "busy"
  BY <1>1 DEF IInv, TypeInv, LockInv
<1>3. TypeInv'
  BY <1>1, <1>2 DEF IInv, TypeInv, dataVars
<1>4. LockInv'
  BY <1>1, <1>2 DEF IInv, LockInv, dataVars
<1>5. QueueInv'
  BY <1>1, <1>2 DEF IInv, QueueInv
<1>6. OrderInv'
  BY <1>1, <1>2 DEF IInv, OrderInv, AllJoined, Joined
<1>7. Target' = Target /\ Kept' = Kept /\ \A k \in Loaders : Begun(k)' => Begun(k)
  BY <1>1, <1>2 DEF Target, Kept, Begun
<1>8. JobsInv'
  BY <1>1, <1>7 DEF IInv, JobsInv, dataVars
<1>9. DataInv'
  BY <1>1, <1>7, DataKept DEF IInv, DataInv
<1> QED
  BY <1>3, <1>4, <1>5, <1>6, <1>8, <1>9 DEF IInv, DataInv

\* The initial load is complete.
LEMMA MarkInitialLoadCompleteInv ==
    ASSUME IInv, MarkInitialLoadComplete
    PROVE  IInv'
<1>1. /\ UNCHANGED <<dataVars, app, file, updates, guards, queue, loader, next, adopted>>
      /\ complete' = TRUE /\ AllJoined
  BY DEF MarkInitialLoadComplete, dataVars, fileVars, lockVars, tableVars, modelVars,
     historyVars
<1>2. TypeInv' /\ LockInv' /\ QueueInv' /\ OrderInv'
  BY <1>1 DEF IInv, TypeInv, LockInv, QueueInv, OrderInv, AllJoined, dataVars
<1>3. Target' = Target /\ Kept' = Kept /\ \A k \in Loaders : Begun(k)' = Begun(k)
  BY <1>1 DEF Target, Kept, Begun
<1>4. JobsInv'
  BY <1>1, <1>3 DEF IInv, JobsInv, dataVars
<1>5. DataInv'
  BY <1>1, <1>3, DataKept, WhoIsWho DEF IInv, DataInv
<1> QED
  BY <1>2, <1>4, <1>5 DEF IInv, DataInv

(***************************************************************************)
(* The pods watcher.                                                       *)
(***************************************************************************)

\* The watcher receives a new app and asks for the write guard.
LEMMA ReceiveUpdateInv ==
    ASSUME IInv, ReceiveUpdate
    PROVE  IInv'
<1> USE WhoIsWho
<1>1. /\ UNCHANGED <<dataVars, app, file, guards, loader, complete, adopted>>
      /\ next = NoApp /\ updates # <<>> /\ next' = Head(updates) /\ updates' = Tail(updates)
      /\ queue' = Append(queue, Watcher)
  BY DEF ReceiveUpdate, Watching, Enqueued, dataVars, tableVars, modelVars, historyVars
<1>2. next' \in Apps /\ updates' \in Seq(Apps) /\ Watcher \notin guards
  BY <1>1 DEF IInv, TypeInv, LockInv
<1>3. queue' \in Seq(Askers) /\ QueueInv'
  BY <1>1, QueueMoves DEF IInv, Askers
<1>4. TypeInv'
  BY <1>1, <1>2, <1>3 DEF IInv, TypeInv, AppsOrNone, dataVars
<1>5. LockInv'
  BY <1>1, <1>2 DEF IInv, LockInv, dataVars
<1>6. OrderInv'
  BY <1>1 DEF IInv, OrderInv, AllJoined
<1>7. Target' = Target /\ Kept' = Kept /\ \A k \in Loaders : Begun(k)' = Begun(k)
  BY <1>1, <1>2 DEF Target, Kept, Begun
<1>8. JobsInv'
  BY <1>1, <1>7 DEF IInv, JobsInv, dataVars
<1>9. DataInv'
  BY <1>1, <1>7, DataKept DEF IInv, DataInv
<1> QED
  BY <1>3, <1>4, <1>5, <1>6, <1>8, <1>9 DEF IInv, DataInv

\* An app that changes nothing, or the first one, takes its place.
LEMMA AdoptAppInv ==
    ASSUME IInv, AdoptApp
    PROVE  IInv'
<1> USE WhoIsWho
<1>1. /\ UNCHANGED <<dataVars, file, updates, guards, loader, complete>>
      /\ next # NoApp /\ app \in {NoApp, next} /\ app' = next /\ next' = NoApp
      /\ adopted' = (adopted \/ app = NoApp)
      /\ queue # <<>> /\ queue' = Tail(queue) /\ guards = {}
  BY DEF AdoptApp, Watching, CanWrite, dataVars, fileVars, tableVars, modelVars
<1>2. queue' \in Seq(Askers) /\ QueueInv'
  BY <1>1, QueueMoves DEF IInv
<1>3. TypeInv'
  BY <1>1, <1>2 DEF IInv, TypeInv, AppsOrNone, dataVars
<1>4. LockInv'
  BY <1>1 DEF IInv, LockInv, dataVars
<1>5. OrderInv'
  BY <1>1 DEF IInv, OrderInv, AllJoined
<1>6. JobsInv'
  BY <1>1 DEF IInv, LockInv, JobsInv, dataVars
<1>7. CASE app = NoApp
  <2>1. ~Kept'
    BY <1>1, <1>7 DEF Kept
  <2>2. DataInv'
    BY <2>1 DEF DataInv, DatasetsInv, TablesInv, CatalogsInv, ModelsInv
  <2> QED
    BY <1>2, <1>3, <1>4, <1>5, <1>6, <2>2 DEF IInv, DataInv
<1>8. CASE app = next
  <2>1. Target' = Target /\ Kept' = Kept /\ \A k \in Loaders : Begun(k)' = Begun(k)
    BY <1>1, <1>8 DEF Target, Kept, Begun, IInv, TypeInv
  <2>2. DataInv'
    BY <1>1, <2>1, DataKept DEF IInv, DataInv
  <2> QED
    BY <1>2, <1>3, <1>4, <1>5, <1>6, <2>2 DEF IInv, DataInv
<1> QED
  BY <1>1, <1>7, <1>8

\* A job of the comparison is a job of the new app.
LEMMA PlannedJobs ==
    ASSUME NEW old \in Apps, NEW new \in Apps, NEW j \in PlanJobs(old, new)
    PROVE  JobOf(new, j)
<1> USE NamesAssumption DEF JobOf, DatasetOps, ModelOps, Job
<1>1. CASE j \in CatalogJobs(old, new)
  <2>1. PICK c \in ValidCatalogs(new) : j = Job("catalog", c, new.catalogs[c])
    BY <1>1 DEF CatalogJobs
  <2> QED
    BY <2>1
<1>2. CASE j \in DatasetJobs(old, new)
  <2>1. PICK d \in ValidDatasets(new) :
           \/ j = Job("update", d, new.datasets[d])
           \/ j = Job("new", d, new.datasets[d])
    BY <1>2 DEF DatasetJobs
  <2>2. CASE j = Job("update", d, new.datasets[d])
    BY <2>2
  <2>3. CASE j = Job("new", d, new.datasets[d])
    BY <2>3
  <2> QED
    BY <2>1, <2>2, <2>3
<1>3. CASE j \in RemovalJobs(old, new)
  <2>1. PICK d \in ValidDatasets(old) \ DOMAIN new.datasets :
           j = Job("remove", d, old.datasets[d])
    BY <1>3 DEF RemovalJobs
  <2>2. d \in Datasets
    BY DEF ValidDatasets
  <2> QED
    BY <2>1, <2>2
<1>4. CASE j \in ModelJobs(old, new)
  <2>1. PICK m \in DOMAIN new.models :
           j = Job(IF m \in DOMAIN old.models THEN "updateModel" ELSE "newModel", m,
                   new.models[m])
    BY <1>4 DEF ModelJobs
  <2>2. m \in Models
    OBVIOUS
  <2> QED
    BY <2>1, <2>2
<1>5. CASE j \in ModelRemovals(old, new)
  <2>1. PICK m \in DOMAIN old.models \ DOMAIN new.models :
           j = Job("removeModel", m, old.models[m])
    BY <1>5 DEF ModelRemovals
  <2>2. m \in Models
    OBVIOUS
  <2> QED
    BY <2>1, <2>2
<1> QED
  BY <1>1, <1>2, <1>3, <1>4, <1>5 DEF PlanJobs

\* The watcher compares the apps. What it has to do covers all that differs.
LEMMA CompareAppsInv ==
    ASSUME IInv, CompareApps
    PROVE  IInv'
<1> USE WhoIsWho
<1>1. /\ UNCHANGED <<app, file, updates, loader, complete, next, adopted, table, catalog, mstatus>>
      /\ next # NoApp /\ app # NoApp /\ next \in Apps /\ app \in Apps
      /\ queue # <<>> /\ queue' = Tail(queue) /\ guards = {} /\ guards' = {Watcher}
      /\ DOMAIN jobs = Workers /\ jobs' = [jobs EXCEPT ![Watcher] = Plan(app, next)]
      /\ status' = InvalidAreErrors(next) /\ stranded \subseteq stranded'
      /\ \A d \in Datasets : table[d] # None /\ d \in DOMAIN next.datasets \ ValidDatasets(next)
                                => d \in stranded'
  BY DEF CompareApps, Watching, CanWrite, IInv, TypeInv, AppsOrNone, fileVars, modelVars
<1>2. /\ \A w \in Workers : jobs[w] = {}
      /\ DOMAIN jobs' = Workers /\ jobs'[Watcher] = Plan(app, next)
      /\ \A w \in Loaders : jobs'[w] = {}
  BY <1>1 DEF IInv, LockInv
<1>3. Target = app /\ Target' = next /\ Kept' = Kept
      /\ \A k \in Loaders : Begun(k)' => Begun(k)
  BY <1>1 DEF Target, Kept, Begun
<1>4. \A k, n : ~Pending(k, n)
  BY <1>2 DEF Pending
<1>5. \A j \in PlanJobs(app, next) : \A k : j.op \in k => Pending(k, j.name)'
  <2> SUFFICES ASSUME NEW j \in PlanJobs(app, next), NEW k, j.op \in k
               PROVE  Pending(k, j.name)'
    OBVIOUS
  <2>1. PICK s \in jobs'[Watcher] : s.job = j
    BY <1>1, <1>2, PlanIsExact
  <2> QED
    BY <2>1 DEF Pending
<1>6. queue' \in Seq(Askers) /\ QueueInv'
  BY <1>1, QueueMoves DEF IInv
<1>7. TypeInv'
  BY <1>1, <1>2, <1>6 DEF IInv, TypeInv, InvalidAreErrors
<1>8. LockInv'
  BY <1>1, <1>2 DEF LockInv
<1>9. OrderInv'
  BY <1>1 DEF IInv, OrderInv, AllJoined
<1>10. JobsInv'
  <2>1. \A s \in Plan(app, next) : IsStep(s) /\ JobOf(next, s.job)
    BY <1>1, PlanIsExact, PlannedJobs
  <2> QED
    BY <1>2, <1>3, <2>1 DEF JobsInv
<1>11. DatasetsInv'
  <2> SUFFICES ASSUME Kept, Begun("datasets"), NEW d \in ValidDatasets(next)
               PROVE  \/ Pending(DatasetOps, d)'
                      \/ /\ status'[d] \in {"ready", "error"}
                         /\ table[d] = next.datasets[d] \/ status'[d] = "error"
    BY <1>1, <1>3 DEF DatasetsInv
  <2>1. CASE d \in ValidDatasets(app) /\ next.datasets[d] = app.datasets[d]
    <3>1. d \in Datasets /\ status'[d] = status[d]
      BY <1>1, NamesAssumption DEF InvalidAreErrors, ValidDatasets
    <3> QED
      BY <1>3, <1>4, <2>1, <3>1 DEF IInv, DatasetsInv
  <2>2. CASE d \in ValidDatasets(app) /\ next.datasets[d] # app.datasets[d]
    <3> DEFINE j == Job("update", d, next.datasets[d])
    <3>1. j \in PlanJobs(app, next)
      BY <2>2 DEF PlanJobs, DatasetJobs
    <3>2. j.op \in DatasetOps /\ j.name = d
      BY DEF Job, DatasetOps
    <3> QED
      BY <1>5, <3>1, <3>2
  <2>3. CASE d \notin ValidDatasets(app)
    <3> DEFINE j == Job("new", d, next.datasets[d])
    <3>1. j \in PlanJobs(app, next)
      BY <2>3 DEF PlanJobs, DatasetJobs
    <3>2. j.op \in DatasetOps /\ j.name = d
      BY DEF Job, DatasetOps
    <3> QED
      BY <1>5, <3>1, <3>2
  <2> QED
    BY <2>1, <2>2, <2>3
<1>12. TablesInv'
  <2> SUFFICES ASSUME Kept, NEW d \in Datasets, table[d] # None,
                      d \notin ValidDatasets(next) \cup stranded'
               PROVE  Pending({"remove"}, d)'
    BY <1>1, <1>3 DEF TablesInv
  <2>1. d \in ValidDatasets(app)
    BY <1>1, <1>3, <1>4 DEF IInv, TablesInv
  <2>2. d \notin DOMAIN next.datasets
    BY <1>1
  <2> DEFINE j == Job("remove", d, app.datasets[d])
  <2>3. j \in PlanJobs(app, next)
    BY <2>1, <2>2 DEF PlanJobs, RemovalJobs
  <2>4. j.op \in {"remove"} /\ j.name = d
    BY DEF Job
  <2> QED
    BY <1>5, <2>3, <2>4
<1>13. CatalogsInv'
  <2> SUFFICES ASSUME Kept, Begun("catalogs"), NEW c \in ValidCatalogs(next)
               PROVE  Pending({"catalog"}, c)' \/ catalog[c] = next.catalogs[c]
    BY <1>1, <1>3 DEF CatalogsInv
  <2>1. CASE c \in ValidCatalogs(app) /\ next.catalogs[c] = app.catalogs[c]
    BY <1>3, <1>4, <2>1 DEF IInv, CatalogsInv
  <2>2. CASE ~(c \in ValidCatalogs(app) /\ next.catalogs[c] = app.catalogs[c])
    <3> DEFINE j == Job("catalog", c, next.catalogs[c])
    <3>1. j \in PlanJobs(app, next)
      BY <2>2 DEF PlanJobs, CatalogJobs
    <3>2. j.op \in {"catalog"} /\ j.name = c
      BY DEF Job
    <3> QED
      BY <1>5, <3>1, <3>2
  <2> QED
    BY <2>1, <2>2
<1>14. ModelsInv'
  <2> SUFFICES ASSUME Kept, Begun("models"), NEW m \in DOMAIN next.models
               PROVE  Pending(ModelOps, m)' \/ mstatus[m] \in {"ready", "error"}
    BY <1>1, <1>3 DEF ModelsInv
  <2>1. CASE m \in DOMAIN app.models /\ next.models[m] = app.models[m]
    BY <1>3, <1>4, <2>1 DEF IInv, ModelsInv
  <2>2. CASE ~(m \in DOMAIN app.models /\ next.models[m] = app.models[m])
    <3> DEFINE j == Job(IF m \in DOMAIN app.models THEN "updateModel" ELSE "newModel", m,
                        next.models[m])
    <3>1. j \in PlanJobs(app, next)
      BY <2>2 DEF PlanJobs, ModelJobs
    <3>2. j.op \in ModelOps /\ j.name = m
      BY DEF Job, ModelOps
    <3> QED
      BY <1>5, <3>1, <3>2
  <2> QED
    BY <2>1, <2>2
<1> QED
  BY <1>6, <1>7, <1>8, <1>9, <1>10, <1>11, <1>12, <1>13, <1>14 DEF IInv

\* The new app takes the place of the old one.
LEMMA UpdateAppliedInv ==
    ASSUME IInv, UpdateApplied
    PROVE  IInv'
<1> USE WhoIsWho
<1>1. /\ UNCHANGED <<dataVars, file, updates, queue, loader, complete, adopted>>
      /\ Watcher \in guards /\ jobs[Watcher] = {} /\ app' = next /\ next' = NoApp
      /\ guards' = {}
  BY DEF UpdateApplied, dataVars, fileVars, tableVars, modelVars, historyVars
<1>2. guards = {Watcher} /\ next \in Apps /\ next # NoApp /\ app # NoApp
  BY <1>1 DEF IInv, TypeInv, LockInv, AppsOrNone
<1>3. TypeInv'
  BY <1>1, <1>2 DEF IInv, TypeInv, AppsOrNone, dataVars
<1>4. LockInv'
  BY <1>1, <1>2 DEF IInv, LockInv, dataVars
<1>5. QueueInv'
  BY <1>1 DEF IInv, QueueInv
<1>6. OrderInv'
  BY <1>1 DEF IInv, OrderInv, AllJoined
<1>7. Target' = Target /\ Kept' = Kept /\ \A k \in Loaders : Begun(k)' = Begun(k)
  BY <1>1, <1>2 DEF Target, Kept, Begun
<1>8. JobsInv'
  BY <1>1, <1>7 DEF IInv, JobsInv, dataVars
<1>9. DataInv'
  BY <1>1, <1>7, DataKept DEF IInv, DataInv
<1> QED
  BY <1>3, <1>4, <1>5, <1>6, <1>8, <1>9 DEF IInv, DataInv

(***************************************************************************)
(* The theorems.                                                           *)
(***************************************************************************)
LEMMA InitInv == Init => IInv
<1> SUFFICES ASSUME Init PROVE IInv
  OBVIOUS
<1> USE WhoIsWho DEF Init
<1>1. TypeInv
  <2>1. app \in AppsOrNone /\ file \in AppsOrNone /\ next \in AppsOrNone
    BY LoadAssumption DEF AppsOrNone
  <2>2. updates \in Seq(Apps) /\ queue \in Seq(Askers) /\ guards = {}
    OBVIOUS
  <2>3. loader \in [Loaders -> {"todo", "busy", "done"}]
    OBVIOUS
  <2>4. /\ DOMAIN jobs = Workers /\ DOMAIN table = Datasets /\ DOMAIN status = Datasets
        /\ DOMAIN catalog = Catalogs /\ DOMAIN mstatus = Models
    OBVIOUS
  <2> QED
    BY <2>1, <2>2, <2>3, <2>4 DEF TypeInv
<1>2. LockInv /\ QueueInv /\ JobsInv
  BY DEF LockInv, QueueInv, JobsInv
<1>3. OrderInv
  BY DEF OrderInv, Joined
<1>4. DataInv
  BY DEF DataInv, DatasetsInv, TablesInv, CatalogsInv, ModelsInv, Begun
<1> QED
  BY <1>1, <1>2, <1>3, <1>4 DEF IInv, DataInv

\* Every step of the loaders, the watcher, the handlers and the user keeps it.
LEMMA NextInv == IInv /\ [Next]_vars => IInv'
<1> SUFFICES ASSUME IInv, [Next]_vars PROVE IInv'
  OBVIOUS
<1> USE DEF coreVars, dataVars, lockVars, tableVars, modelVars, historyVars
<1>1. ASSUME NEW a \in Apps \cup {NoApp}, Edit(a) PROVE IInv'
  BY <1>1, CoreKept DEF Edit, IInv, TypeInv, AppsOrNone
<1>2. CASE HandleEvent
  <2>1. updates' \in Seq(Apps) /\ file' \in AppsOrNone
    BY <1>2 DEF HandleEvent, Built, IInv, TypeInv, AppsOrNone
  <2> QED
    BY <1>2, <2>1, CoreKept DEF HandleEvent
<1>3. ASSUME NEW l \in Loaders, LoaderStep(l) PROVE IInv'
  BY <1>3, AskToLoadInv, LoadsNothingInv, LoadOthersInv, LoadedInv, LoadDatasetsInv
  DEF LoaderStep
<1>4. CASE MarkInitialLoadComplete
  BY <1>4, MarkInitialLoadCompleteInv
<1>5. CASE WatcherStep
  BY <1>5, ReceiveUpdateInv, AdoptAppInv, CompareAppsInv, UpdateAppliedInv DEF WatcherStep
<1>6. ASSUME NEW n, JobStep(n) PROVE IInv'
  BY <1>6, JobStepInv DEF JobStep, ModelJob
<1>7. ASSUME NEW v \in Views, ViewStep(v) \/ ViewTimesOut(v) PROVE IInv'
  <2>1. UNCHANGED <<coreVars, file, updates>>
    BY <1>7 DEF ViewStep, CreateView, SeeTable, ViewTimesOut, viewUnchanged, fileVars
  <2> QED
    BY <2>1, CoreKept DEF IInv, TypeInv
<1>8. ASSUME NEW d \in Datasets, SourceFails(d) \/ SourceRecovers(d) PROVE IInv'
  <2>1. UNCHANGED <<coreVars, file, updates>>
    BY <1>8 DEF SourceFails, SourceRecovers, sourceUnchanged, fileVars
  <2> QED
    BY <2>1, CoreKept DEF IInv, TypeInv
<1>9. ASSUME NEW r \in Readers, AskToRead(r) \/ StartReading(r) \/ Answer(r) PROVE IInv'
  BY <1>9, ReaderInv
<1>10. CASE UNCHANGED vars
  BY <1>10, CoreKept DEF vars, fileVars, IInv, TypeInv
<1> QED
  BY <1>1, <1>2, <1>3, <1>4, <1>5, <1>6, <1>7, <1>8, <1>9, <1>10 DEF Next

\* The invariant: types, the lock of the app, the order of load_components,
\* and that what differs from the app is still to do.
THEOREM LoadInvariance == Spec => []IInv
BY InitInv, NextInv, PTL DEF Spec

\* Nothing that the runtime promised to load is missing: AppIsApplied
\* follows when nobody has a job left.
THEOREM AppIsAppliedHolds == Spec => []AppIsApplied
<1>1. IInv => AppIsApplied
  <2> SUFFICES ASSUME IInv, Settled, app # NoApp
               PROVE  /\ \A d \in ValidDatasets(app) :
                            table[d] = app.datasets[d] \/ status[d] = "error"
                      /\ \A d \in Datasets \ DOMAIN app.datasets :
                            table[d] = None \/ d \in stranded
                      /\ \A c \in ValidCatalogs(app) : catalog[c] = app.catalogs[c]
    BY DEF AppIsApplied
  <2>1. \A k, n : ~Pending(k, n)
    BY DEF Settled, IInv, LockInv, Pending, Workers
  <2>2. Target = app /\ Kept /\ Begun("datasets") /\ Begun("catalogs")
    BY WhoIsWho DEF Settled, Target, Kept, Begun
  <2>3. \A d \in Datasets \ DOMAIN app.datasets : d \notin ValidDatasets(app)
    BY DEF ValidDatasets
  <2> QED
    BY <2>1, <2>2, <2>3 DEF IInv, DatasetsInv, TablesInv, CatalogsInv
<1> QED
  BY <1>1, LoadInvariance, PTL

\* A runtime that answers Ready has tried all that its app defines, whatever
\* the pods watcher did meanwhile.
THEOREM ReadyMeansLoadedHolds == Spec => []ReadyMeansLoaded
<1>1. IInv => ReadyMeansLoaded
  <2> SUFFICES ASSUME IInv, complete, Watcher \notin guards, ~adopted, app # NoApp
               PROVE  /\ \A d \in ValidDatasets(app) : status[d] \in {"ready", "error"}
                      /\ \A m \in DOMAIN app.models : mstatus[m] \in {"ready", "error"}
    BY DEF ReadyMeansLoaded
  <2>1. \A l \in Loaders : loader[l] = "done"
    BY WhoIsWho DEF IInv, OrderInv, AllJoined, Joined
  <2>2. \A w \in Workers : w \notin guards
    BY <2>1, WhoIsWho DEF IInv, LockInv
  <2>3. \A k, n : ~Pending(k, n)
    BY <2>2 DEF IInv, LockInv, Pending
  <2>4. Target = app /\ Kept /\ Begun("datasets") /\ Begun("models")
    BY <2>1, WhoIsWho DEF Target, Kept, Begun
  <2> QED
    BY <2>3, <2>4 DEF IInv, DatasetsInv, ModelsInv
<1> QED
  BY <1>1, LoadInvariance, PTL

\* The write guard of the pods watcher excludes every loader and every
\* handler (RwLock of Runtime::app).
THEOREM WatcherIsAlone == Spec => [](Watcher \in guards => guards = {Watcher})
<1>1. IInv => (Watcher \in guards => guards = {Watcher})
  BY DEF IInv, LockInv
<1> QED
  BY <1>1, LoadInvariance, PTL

\* The app does not change under a loader or a handler that holds a guard:
\* what load_components compares and loads is one version of the app.
THEOREM AppIsStable == Spec => [][guards \ {Watcher} # {} => app' = app]_vars
<1>1. IInv /\ [Next]_vars => [guards \ {Watcher} # {} => app' = app]_vars
  <2> SUFFICES ASSUME IInv, Next, guards \ {Watcher} # {} PROVE app' = app
    OBVIOUS
  <2>1. ASSUME NEW l \in Loaders, LoaderStep(l) PROVE app' = app
    BY <2>1 DEF LoaderStep, AskToLoad, LoadsNothing, LoadOthers, Loaded, LoadDatasets
  <2>2. CASE WatcherStep
    BY <2>2 DEF WatcherStep, ReceiveUpdate, AdoptApp, CompareApps, UpdateApplied, CanWrite,
       IInv, LockInv
  <2>3. ASSUME NEW n, JobStep(n) PROVE app' = app
    BY <2>3, JobStepFrame DEF JobStep, ModelJob, JobFrame
  <2> QED
    BY <2>1, <2>2, <2>3 DEF Next, Edit, HandleEvent, MarkInitialLoadComplete, ViewStep,
       CreateView, SeeTable, ViewTimesOut, viewUnchanged, SourceFails, SourceRecovers,
       sourceUnchanged, AskToRead, StartReading, Answer, readerUnchanged
<1> QED
  BY <1>1, LoadInvariance, PTL DEF Spec
=============================================================================
