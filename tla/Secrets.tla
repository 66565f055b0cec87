------------------------------- MODULE Secrets ------------------------------
(***************************************************************************)
(* Secret stores, the references to secrets in the parameters of a         *)
(* component, and the parameters that a connector or an accelerator gets.  *)
(*                                                                         *)
(* The value of a parameter is a sequence of words as the lexer sees it:   *)
(* Opening, Colon, Closing, Junk for no token, Bad for a text that a typed *)
(* parameter cannot be parsed from, any other string for an identifier.    *)
(* The name of a parameter is a sequence of words too, as file_format is   *)
(* <<"file", "format">>: the prefix of a connector is its first word.      *)
(* A store is [name, provider, selector, init, vars, fault, parses]: vars  *)
(* maps pairs <<prefixed with spice_, key>> to values, fault is an error   *)
(* of the store itself.                                                    *)
(*                                                                         *)
(* Source: secrets.rs, secrets/ and parameters.rs of crates/runtime/src.   *)
(***************************************************************************)
EXTENDS Naturals, SequencesExt, FiniteSetsExt

Opening == "${"
Colon == ":"
Closing == "}"
Slash == "/"
Junk == "%"
Bad == "bad"
Ident(w) == w \notin {Opening, Colon, Closing, Slash, Junk}
\* A value as its user meant it: no reference left in it, and not empty.
Whole(v) == v # <<>> /\ \A i \in DOMAIN v : Ident(v[i]) /\ v[i] # Bad
Empty == <<>>

Absent == [is |-> "absent"]
Failure == [is |-> "error"]
Found(v) == [is |-> "found", value |-> v]
IsFound(r) == r.is = "found"

(***************************************************************************)
(* The stores                                                              *)
(***************************************************************************)

InVars(vars, key) ==
    IF <<TRUE, key>> \in DOMAIN vars THEN Found(vars[<<TRUE, key>>])
    ELSE IF <<FALSE, key>> \in DOMAIN vars THEN Found(vars[<<FALSE, key>>]) ELSE Absent

\* EnvSecretStore::get_secret: SPICE_KEY, then KEY; a variable that is not
\* unicode is an error.
EnvLookup(s, key) == IF s.fault THEN Failure ELSE InVars(s.vars, key)

\* KubernetesSecretStore::get_secret: the whole secret is fetched from the API
\* for every key; what is not base64 of UTF-8 is left out of it.
KubernetesLookup(s, key) ==
    IF s.fault THEN Failure ELSE IF ~s.parses THEN Absent ELSE InVars(s.vars, key)

\* AwsSecretsManager::get_secret: a secret that does not exist is no error, one
\* that is no JSON object is.
AwsLookup(s, key) ==
    IF s.fault THEN Failure
    ELSE IF s.vars = <<>> THEN Absent
    ELSE IF ~s.parses THEN Failure ELSE InVars(s.vars, key)

\* KeyringSecretStore::get_secret: an entry is made for the prefixed key without
\* a look at the keyring, so that the other key is never tried.
KeyringLookup(s, key) ==
    IF s.fault THEN Failure
    ELSE IF <<TRUE, key>> \in DOMAIN s.vars THEN Found(s.vars[<<TRUE, key>>]) ELSE Absent

Lookup(s, key) ==
    CASE s.provider = "env" -> EnvLookup(s, key)
      [] s.provider = "keyring" -> KeyringLookup(s, key)
      [] s.provider = "kubernetes" -> KubernetesLookup(s, key)
      [] s.provider = "aws_secrets_manager" -> AwsLookup(s, key)

\* spicepod_secret_store_type: whether the declaration of a store names one.
ValidStore(s) ==
    \/ s.provider \in {"env", "keyring"} /\ ~s.selector
    \/ s.provider \in {"kubernetes", "aws_secrets_manager"} /\ s.selector

\* load_secret_store: the stores of this machine always load, the others reach
\* for credentials.
StoreLoads(s) == s.provider \in {"env", "keyring"} \/ s.init

EnvDefault ==
    [name |-> "env", provider |-> "env", selector |-> FALSE, init |-> TRUE,
     vars |-> <<>>, fault |-> FALSE, parses |-> TRUE]

\* IndexMap::insert: a name that is there keeps its place.
Inserted(stores, s) ==
    IF \E i \in DOMAIN stores : stores[i].name = s.name
    THEN [i \in DOMAIN stores |-> IF stores[i].name = s.name THEN s ELSE stores[i]]
    ELSE Append(stores, s)

LoadStore(stores, s) == IF StoreLoads(s) THEN Inserted(stores, s) ELSE stores

\* Secrets::load_from: a declaration that names no store ends the load with the
\* stores so far, in the order of their declaration and without a default; a
\* store that does not load is left out.
load_from(decls, default) ==
    LET wrong == {i \in DOMAIN decls : ~ValidStore(decls[i])}
        read == IF wrong = {} THEN decls ELSE SubSeq(decls, 1, Min(wrong) - 1)
        kept == FoldLeft(LoadStore, <<>>, read)
    IN  IF wrong # {} THEN kept
        ELSE IF kept = <<>> THEN <<default>> ELSE Reverse(kept)

\* Secrets::get_secret: the first store that has the key or fails answers.
get_secret(stores, key) ==
    LET hits == {i \in DOMAIN stores : Lookup(stores[i], key) # Absent}
    IN  IF hits = {} THEN Absent ELSE Lookup(stores[Min(hits)], key)

\* get_store_secret and the unwrap_or_default of its caller: what cannot be
\* had is the empty text.
get_store_secret(stores, store, key) ==
    LET named == {i \in DOMAIN stores : stores[i].name = store}
        r == IF store = "secrets" THEN get_secret(stores, key)
             ELSE IF named = {} THEN Absent
             ELSE Lookup(stores[CHOOSE i \in named : TRUE], key)
    IN  IF IsFound(r) THEN r.value ELSE Empty

(***************************************************************************)
(* References                                                              *)
(***************************************************************************)

\* What may stand at each place of a reference.
Fits(w, k) == CASE k = 1 -> w = Opening [] k = 2 -> Ident(w) [] k = 3 -> w = Colon
                [] k = 4 -> Ident(w) [] k = 5 -> w = Closing

\* SecretReplacementMatcher::next, over the whole text: the places at which a
\* reference starts. A token that does not fit is passed over with those
\* before it; no token, or one that cannot be lexed, ends the search.
Matches(t) ==
    LET n == Len(t)
        scan[i \in 1..(n + 6)] ==
            IF i > n THEN {}
            ELSE IF t[i] # Opening THEN scan[i + 1]
            ELSE LET off == {k \in 2..5 : i + k - 1 > n \/ ~Fits(t[i + k - 1], k)}
                 IN  IF off = {} THEN {i} \cup scan[i + 5]
                     ELSE LET at == i + Min(off) - 1
                          IN  IF at > n \/ t[at] \in {Junk, Slash} THEN {} ELSE scan[at + 1]
    IN  scan[1]

\* Secrets::inject_secrets
inject_secrets(stores, t) ==
    LET ms == Matches(t)
        part(i) == IF i \in ms THEN get_store_secret(stores, t[i + 1], <<t[i + 3]>>)
                   ELSE IF \E m \in ms : i \in (m + 1)..(m + 4) THEN <<>> ELSE <<t[i]>>
    IN  FlattenSeq([i \in DOMAIN t |-> part(i)])

\* Every reference that is written out in a text.
References(t) ==
    {i \in DOMAIN t : i + 4 <= Len(t) /\ \A k \in 1..5 : Fits(t[i + k - 1], k)}

\* Runtime::get_params_with_secrets
get_params_with_secrets(stores, user) ==
    [k \in DOMAIN user |-> inject_secrets(stores, user[k])]

(***************************************************************************)
(* Parameters                                                              *)
(***************************************************************************)

\* ParameterSpec and its builders
Spec0(name, prefixed) ==
    [name |-> name, prefixed |-> prefixed, secret |-> FALSE,
     required |-> FALSE, default |-> Empty]
connector(w) == Spec0(<<w>>, TRUE)
runtime(name) == Spec0(name, FALSE)
secret(s) == [s EXCEPT !.secret = TRUE]
required(s) == [s EXCEPT !.required = TRUE]
default(s, v) == [s EXCEPT !.default = v]

\* The parameter that a key of the user names: a key that starts with the
\* prefix is looked up without it, and must be one that takes a prefix.
accepted(prefix, specs, key) ==
    LET has == Len(key) > 1 /\ key[1] = prefix
        name == IF has THEN Tail(key) ELSE key
    IN  {s \in specs : s.name = name /\ s.prefixed = has}

MissingParameter == "InvalidConfigurationNoSource"

\* Parameters::try_new: what the user gave under an accepted name, then the
\* secrets of the stores, then the defaults; a store that fails is as one
\* without the key. [ok, params].
try_new(prefix, specs, user, stores) ==
    LET resolved(s) ==
            IF \E k \in DOMAIN user : s \in accepted(prefix, specs, k)
            THEN Found(user[CHOOSE k \in DOMAIN user : s \in accepted(prefix, specs, k)])
            ELSE IF s.secret /\ IsFound(get_secret(stores, <<prefix>> \o s.name))
            THEN get_secret(stores, <<prefix>> \o s.name)
            ELSE IF s.default # Empty THEN Found(s.default) ELSE Absent
        have == {s \in specs : IsFound(resolved(s))}
    IN  [ok |-> \A s \in specs : s.required => s \in have,
         params |-> [n \in {s.name : s \in have} |->
                        resolved(CHOOSE s \in specs : s.name = n).value]]
=============================================================================
