------------------------------- MODULE MCLoad -------------------------------
(* Model-checking instance of RuntimeLoad: the versions of an app with a     *)
(* dataset, a dataset kept in memory, a catalog, a model and a view.         *)
EXTENDS RuntimeLoad, TLC

Dataset(engine, fault, ver) ==
    [engine |-> engine, valid |-> TRUE, fault |-> fault, retry |-> FALSE, ver |-> ver]
Model(type, tools, ver) ==
    [type |-> type, tools |-> tools, outcomes |-> BOOLEAN, ver |-> ver]
Embedding == [Model("embedding", FALSE, 1) EXCEPT !.outcomes = {TRUE}]
Catalog(valid, ver) == [valid |-> valid, ver |-> ver]
App(datasets, catalogs, models, views) ==
    [datasets |-> datasets, catalogs |-> catalogs, models |-> models,
     embeddings |-> "e" :> Embedding, tools |-> <<>>, views |-> views, parallel |-> FALSE]

FirstApp == App("d1" :> Dataset("none", "none", 1) @@ "d2" :> Dataset("memory", "none", 1),
                "c" :> Catalog(TRUE, 1), "m" :> Model("ml", FALSE, 1), {"v"})
\* d1 gets a definition that cannot be registered, d2 is reloaded in memory
\* and the model becomes an LLM that uses tools.
SecondApp == App("d1" :> Dataset("file", "settings", 2) @@ "d2" :> Dataset("memory", "none", 2),
                 "c" :> Catalog(TRUE, 2), "m" :> Model("llm", TRUE, 2), {"v"})
\* d2 and the model are removed, d1 cannot be parsed.
ThirdApp == App("d1" :> [Dataset("none", "none", 3) EXCEPT !.valid = FALSE],
                "c" :> Catalog(FALSE, 3), <<>>, {})
MCApps == {FirstApp, SecondApp, ThirdApp}
MCStarts == {FirstApp, NoApp}
MCDependsOn == "v" :> {"d1"}
=============================================================================
