---------------------------- MODULE ProviderCatalog ----------------------------
(***************************************************************************)
(* Provider accounts, the file of their API keys, and the options of the   *)
(* models they offer: threads that serve requests at the same time.        *)
(*                                                                         *)
(* The file is loaded, changed and written back without a lock, and is     *)
(* empty while it is being written; a file that cannot be parsed reads as  *)
(* empty.  A commit writes the columns whose value differs from the one    *)
(* the request has loaded, and a key of an option is unique.               *)
(***************************************************************************)
EXTENDS Naturals, FiniteSets

CONSTANTS
    Accounts, Models,
    KeyOf,          \* [Accounts -> [Models -> keys]]: _model_key, a slug that may collide
    Keyless,        \* accounts with a base URL and a local preset
    Secrets,        \* API keys
    Refs,           \* bound on the references of secrets ever made
    Workers,        \* threads of the server
    Mixes,          \* bounds on the requests explored, by kind
    Offers,         \* what a provider may offer: [some models -> what each supports]
    ManualSupports, \* what an option entered by hand may support
    None, Torn, Absent  \* NULL; a file that does not parse; a row that is not there

Keys == UNION {{KeyOf[a][m] : m \in Models} : a \in Accounts}
Capabilities == {"chat", "compression"}
Kinds == {"account", "option", "setting"}

ASSUME CatalogAssumption ==
    /\ Keyless \subseteq Accounts
    /\ KeyOf \in [Accounts -> [Models -> Keys]]
    /\ Mixes \subseteq [Kinds -> Nat]
    /\ \A offer \in Offers : DOMAIN offer \subseteq Models /\ \A m \in DOMAIN offer : offer[m] \subseteq Capabilities
    /\ ManualSupports \subseteq SUBSET Capabilities
    \* What is not there is told from what is.
    /\ None \notin Refs /\ Torn \notin [Refs -> Secrets \union {None}]
    /\ Absent \notin [enabled : BOOLEAN, ref : Refs \union {None}]
    /\ Absent \notin [account : Accounts, model : Models, manual : BOOLEAN, enabled : BOOLEAN,
                     supports : SUBSET Capabilities]

VARIABLES
    accounts,   \* ModelProviderAccount rows: [enabled, ref] or Absent
    options,    \* ModelOption rows by key: [account, model, manual, enabled, supports] or Absent
    file,       \* provider_secrets.json: reference -> secret
    jobs,       \* the request of each worker
    left,       \* requests left of each kind
    given,      \* the secret of the last committed request that set or cleared one
    spoiled,    \* has a write of the file been based on anything but its content?
    crossed,    \* accounts on which two such requests have overlapped, or one was cut off
    chosen      \* keys that a user has enabled since they were last withdrawn or switched off

catalog == <<accounts, options, file, given, spoiled, crossed, chosen>>

NoSecrets == [r \in Refs |-> None]
Read(content) == IF content = Torn THEN NoSecrets ELSE content
\* get_secret
SecretOf(ref) == IF ref = None THEN None ELSE Read(file)[ref]

Configured(a, row) == row.enabled /\ (a \in Keyless \/ SecretOf(row.ref) # None)

\* option_is_active_for_capability
Active(key, capability) ==
    /\ options[key] # Absent
    /\ Configured(options[key].account, accounts[options[key].account])
    /\ options[key].enabled
    /\ capability \in options[key].supports

Owned(a) == {k \in Keys : options[k] # Absent /\ options[k].account = a}

\* A request: what it does, its next step, the account, the row and the options it has
\* loaded, the secret and the reference it writes, its copy of the file, what the provider
\* has offered, and the options that others have enabled meanwhile.
Idle == [op |-> "none", step |-> "done", account |-> None, row |-> None, rows |-> None,
         secret |-> None, ref |-> None, copy |-> None, offer |-> None, again |-> {}]
Job(op, step, a) ==
    [Idle EXCEPT !.op = op, !.step = step, !.account = a, !.row = accounts[a]]
Goes(w, step) == jobs' = [jobs EXCEPT ![w].step = step]
Done(w) == jobs' = [jobs EXCEPT ![w] = Idle]

Spend(kind) == left[kind] > 0 /\ left' = [left EXCEPT ![kind] = @ - 1]
Free(w) == jobs[w] = Idle
Begin(w, kind, job) == jobs' = [jobs EXCEPT ![w] = job] /\ Spend(kind)
SetsSecret(job) == job.op \in {"create", "rekey", "clear"}
Cross(a) ==
    crossed' = crossed \union (IF \E w \in Workers : SetsSecret(jobs[w]) /\ jobs[w].account = a THEN {a} ELSE {})

Fresh == {r \in Refs :
    /\ Read(file)[r] = None
    /\ \A a \in Accounts : accounts[a] = Absent \/ accounts[a].ref # r
    /\ \A w \in Workers : jobs[w].ref # r}

TypeOK ==
    /\ \A a \in Accounts : accounts[a] = Absent \/ accounts[a] \in [enabled : BOOLEAN, ref : Refs \union {None}]
    /\ \A k \in Keys :
          \/ options[k] = Absent
          \/ /\ options[k] \in [account : Accounts, model : Models, manual : BOOLEAN,
                                enabled : BOOLEAN, supports : SUBSET Capabilities]
             /\ KeyOf[options[k].account][options[k].model] = k
             /\ accounts[options[k].account] # Absent
    /\ file = Torn \/ file \in [Refs -> Secrets \union {None}]
    /\ left \in [Kinds -> Nat]

-----------------------------------------------------------------------------
(* The file of secrets: load, truncate, write.                             *)

\* save_secret, update_secret and delete_secret read the file; there is nothing to write
\* when the secret to be deleted is not in it.
Load(w) ==
    /\ jobs[w].step = "load"
    /\ LET content == Read(file)
           nothing == jobs[w].op = "clear" /\ (jobs[w].ref = None \/ content[jobs[w].ref] = None)
       IN  jobs' = [jobs EXCEPT ![w].copy = IF nothing THEN None ELSE content,
                                ![w].step = IF nothing THEN "commit" ELSE "save"]
    /\ spoiled' = (spoiled \/ file = Torn)
    /\ UNCHANGED <<accounts, options, file, left, given, crossed, chosen>>

\* _save opens the file for writing, which empties it.
Truncate(w) ==
    /\ jobs[w].step = "save"
    /\ spoiled' = (spoiled \/ file # jobs[w].copy)
    /\ file' = Torn
    /\ Goes(w, "put")
    /\ UNCHANGED <<accounts, options, left, given, crossed, chosen>>

\* Faulty variant of Changed: a new file for every secret.
ChangedAlone(job) == [NoSecrets EXCEPT ![job.ref] = IF job.op = "clear" THEN None ELSE job.secret]
Changed(job) == [job.copy EXCEPT ![job.ref] = IF job.op = "clear" THEN None ELSE job.secret]

\* Two writers at once may leave a mixture that does not parse.
Put(w) ==
    /\ jobs[w].step = "put"
    /\ file' \in {Changed(jobs[w])} \union (IF file = Torn THEN {} ELSE {Torn})
    /\ spoiled' = (spoiled \/ file # Torn)
    /\ jobs' = [jobs EXCEPT ![w].copy = None, ![w].step = "commit"]
    /\ UNCHANGED <<accounts, options, left, given, crossed, chosen>>

-----------------------------------------------------------------------------
(* Accounts.                                                               *)

\* create_account
Create(w, a, secret) ==
    /\ Free(w) /\ accounts[a] = Absent
    /\ \A v \in Workers : jobs[v].account # a
    /\ IF secret = None THEN Begin(w, "account", [Job("create", "commit", a) EXCEPT !.row = [enabled |-> TRUE, ref |-> None]])
       ELSE \E r \in Fresh :
                Begin(w, "account", [Job("create", "load", a) EXCEPT !.secret = secret, !.ref = r,
                                                          !.row = [enabled |-> TRUE, ref |-> r]])
    /\ UNCHANGED catalog

\* A configured account that needs a key goes on to sync its models.
CommitCreate(w) ==
    /\ jobs[w].op = "create" /\ jobs[w].step = "commit"
    /\ LET a == jobs[w].account  row == jobs[w].row IN
       /\ accounts' = [accounts EXCEPT ![a] = row]
       /\ given' = [given EXCEPT ![a] = jobs[w].secret]
       /\ jobs' = [jobs EXCEPT ![w] =
              IF Configured(a, row) /\ (a \notin Keyless \/ jobs[w].secret # None)
              THEN [Idle EXCEPT !.op = "sync", !.step = "fetch", !.account = a, !.row = row]
              ELSE Idle]
    /\ UNCHANGED <<options, file, left, spoiled, crossed, chosen>>

\* update_account with api_key
Rekey(w, a, secret) ==
    /\ Free(w) /\ accounts[a] # Absent
    /\ \E r \in (IF accounts[a].ref = None THEN Fresh ELSE {accounts[a].ref}) :
          Begin(w, "account", [Job("rekey", "load", a) EXCEPT !.secret = secret, !.ref = r])
    /\ Cross(a)
    /\ UNCHANGED <<accounts, options, file, given, spoiled, chosen>>

\* update_account with clear_api_key
Clear(w, a) ==
    /\ Free(w) /\ accounts[a] # Absent
    /\ Begin(w, "account", [Job("clear", "load", a) EXCEPT !.ref = accounts[a].ref])
    /\ Cross(a)
    /\ UNCHANGED <<accounts, options, file, given, spoiled, chosen>>

\* update_account with enabled; no other column depends on the one it has loaded.
Enable(a, enabled) ==
    /\ accounts[a] # Absent /\ accounts[a].enabled # enabled
    /\ accounts' = [accounts EXCEPT ![a].enabled = enabled]
    /\ Spend("account")
    /\ UNCHANGED <<options, file, jobs, given, spoiled, crossed, chosen>>

CommitRekey(w) ==
    /\ jobs[w].op = "rekey" /\ jobs[w].step = "commit"
    /\ LET a == jobs[w].account IN
       /\ accounts' = IF jobs[w].ref = jobs[w].row.ref THEN accounts
                      ELSE [accounts EXCEPT ![a].ref = jobs[w].ref]
       /\ given' = [given EXCEPT ![a] = jobs[w].secret]
    /\ Done(w)
    /\ UNCHANGED <<options, file, left, spoiled, crossed, chosen>>

\* The options of the account are loaded after the secret is gone.
LoadCleared(w) ==
    /\ jobs[w].op = "clear" /\ jobs[w].step = "commit" /\ jobs[w].rows = None
    /\ jobs' = [jobs EXCEPT ![w].rows = {k \in Owned(jobs[w].account) : options[k].enabled}]
    /\ UNCHANGED <<accounts, options, file, left, given, spoiled, crossed, chosen>>

Cleared(row) == [row EXCEPT !.ref = None]

CommitClear(w) ==
    /\ jobs[w].op = "clear" /\ jobs[w].step = "commit" /\ jobs[w].rows # None
    /\ LET a == jobs[w].account IN
       /\ accounts' = IF jobs[w].row.ref = None THEN accounts ELSE [accounts EXCEPT ![a] = Cleared(@)]
       /\ options' = [k \in Keys |-> IF k \in jobs[w].rows THEN [options[k] EXCEPT !.enabled = FALSE]
                                     ELSE options[k]]
       /\ given' = [given EXCEPT ![a] = None]
       /\ chosen' = chosen \ (Owned(a) \ jobs[w].again)
    /\ Done(w)
    /\ UNCHANGED <<file, left, spoiled, crossed>>

-----------------------------------------------------------------------------
(* The catalog of models.                                                  *)

\* sync_models: the account is read and checked, then the provider is asked.
Sync(w, a) ==
    /\ Free(w) /\ accounts[a] # Absent /\ Configured(a, accounts[a])
    /\ Begin(w, "option", Job("sync", "fetch", a))
    /\ UNCHANGED catalog

\* What the provider offers: what each of its models supports.  The rows are read after.
\* A request that fails, an empty list or a key that is gone end the sync.
Fetch(w, offer) ==
    /\ jobs[w].step = "fetch"
    /\ IF offer # <<>> /\ (jobs[w].account \in Keyless \/ SecretOf(jobs[w].row.ref) # None)
       THEN jobs' = [jobs EXCEPT ![w].offer = offer, ![w].step = "commit",
                                 ![w].rows = [k \in Owned(jobs[w].account) |-> options[k]]]
       ELSE Done(w)
    /\ UNCHANGED <<catalog, left>>

Offered(job, model) == model \in DOMAIN job.offer
Supported(job, model) == IF Offered(job, model) THEN job.offer[model] ELSE {}

Fetchable(row) == ~row.manual

\* An option that is offered takes what the provider says; one that is not offered any more,
\* or supports nothing, is withdrawn.  Only what differs from the loaded row is written.
FromOffer(job, key) ==
    LET loaded == job.rows[key]
        supports == Supported(job, loaded.model)
    IN  [options[key] EXCEPT
            !.supports = IF supports = loaded.supports THEN @ ELSE supports,
            !.enabled = IF loaded.enabled /\ supports = {} THEN FALSE ELSE @]

\* Faulty variant of Refreshed: what is not offered any more is withdrawn whoever entered it.
RefreshedGone(job, key) ==
    IF Fetchable(job.rows[key]) \/ ~Offered(job, job.rows[key].model) THEN FromOffer(job, key)
    ELSE options[key]
Refreshed(job, key) == IF Fetchable(job.rows[key]) THEN FromOffer(job, key) ELSE options[key]

NewOption(job, model) ==
    [account |-> job.account, model |-> model, manual |-> FALSE, enabled |-> FALSE,
     supports |-> job.offer[model]]

CommitSync(w) ==
    /\ jobs[w].op = "sync" /\ jobs[w].step = "commit"
    /\ LET job == jobs[w]
           new == {m \in DOMAIN job.offer : \A k \in DOMAIN job.rows : job.rows[k].model # m}
           KeyOfNew(m) == KeyOf[job.account][m]
           withdrawn == {k \in DOMAIN job.rows :
                            Fetchable(job.rows[k]) /\ Supported(job, job.rows[k].model) = {}}
           unique == /\ \A m \in new : options[KeyOfNew(m)] = Absent
                     /\ \A m, n \in new : KeyOfNew(m) = KeyOfNew(n) => m = n
       IN  IF unique
           THEN /\ options' = [k \in Keys |->
                       IF k \in DOMAIN job.rows THEN Refreshed(job, k)
                       ELSE IF \E m \in new : KeyOfNew(m) = k
                            THEN NewOption(job, CHOOSE m \in new : KeyOfNew(m) = k)
                       ELSE options[k]]
                /\ chosen' = chosen \ (withdrawn \ job.again)
           ELSE UNCHANGED <<options, chosen>>   \* an IntegrityError: nothing is written
    /\ Done(w)
    /\ UNCHANGED <<accounts, file, left, given, spoiled, crossed>>

Meanwhile(key) == [v \in Workers |-> IF jobs[v] = Idle THEN Idle ELSE [jobs[v] EXCEPT !.again = @ \union {key}]]

\* create_manual_option; a key that is taken is an IntegrityError.
AddManual(a, model, enabled, supports) ==
    /\ accounts[a] # Absent
    /\ LET key == KeyOf[a][model] IN
       /\ options[key] = Absent
       /\ options' = [options EXCEPT ![key] = [account |-> a, model |-> model, manual |-> TRUE,
                                               enabled |-> enabled, supports |-> supports]]
       /\ chosen' = IF enabled THEN chosen \union {key} ELSE chosen \ {key}
       /\ jobs' = Meanwhile(key)
    /\ Spend("option")
    /\ UNCHANGED <<accounts, file, given, spoiled, crossed>>

\* update_option with enabled: loaded, then written if it differs.
Edit(w, key, enabled) ==
    /\ Free(w) /\ options[key] # Absent
    /\ Begin(w, "option", [Idle EXCEPT !.op = IF enabled THEN "on" ELSE "off", !.step = "commit",
                             !.ref = key, !.row = options[key].enabled])
    /\ UNCHANGED catalog

CommitEdit(w) ==
    /\ jobs[w].op \in {"on", "off"} /\ jobs[w].step = "commit"
    /\ LET key == jobs[w].ref  enabled == jobs[w].op = "on" IN
       /\ options' = IF jobs[w].row = enabled THEN options ELSE [options EXCEPT ![key].enabled = enabled]
       /\ chosen' = IF enabled THEN chosen \union {key}
                    ELSE IF jobs[w].row THEN chosen \ {key} ELSE chosen
       /\ jobs' = [(IF enabled THEN Meanwhile(key) ELSE jobs) EXCEPT ![w] = Idle]
    /\ UNCHANGED <<accounts, file, left, given, spoiled, crossed>>

\* The process stops and starts again; what was being written to the file is lost.
Crash ==
    /\ \E w \in Workers : jobs[w] # Idle
    /\ jobs' = [w \in Workers |-> Idle]
    /\ spoiled' = (spoiled \/ file = Torn)
    /\ crossed' = crossed \union
           {jobs[w].account : w \in {v \in Workers : SetsSecret(jobs[v]) /\ jobs[v].step = "commit"}}
    /\ UNCHANGED <<accounts, options, file, left, given, chosen>>

Serve(w) ==
    \/ \E a \in Accounts, secret \in Secrets \union {None} : Create(w, a, secret)
    \/ \E a \in Accounts, secret \in Secrets : Rekey(w, a, secret)
    \/ \E a \in Accounts : Clear(w, a) \/ Sync(w, a)
    \/ \E key \in Keys, enabled \in BOOLEAN : Edit(w, key, enabled)
    \/ Load(w) \/ Truncate(w) \/ Put(w)
    \/ CommitCreate(w) \/ CommitRekey(w) \/ LoadCleared(w) \/ CommitClear(w)
    \/ \E offer \in Offers : Fetch(w, offer)
    \/ CommitSync(w) \/ CommitEdit(w)

CatalogNext ==
    \/ \E w \in Workers : Serve(w)
    \/ \E a \in Accounts, enabled \in BOOLEAN : Enable(a, enabled)
    \/ \E a \in Accounts, m \in Models, enabled \in BOOLEAN, supports \in ManualSupports :
          AddManual(a, m, enabled, supports)
    \/ Crash

-----------------------------------------------------------------------------
(* Properties.                                                             *)

\* Except while the file is being written, when no account has a key, the key an account uses
\* is the one it was last given, as long as no two writes of the file have met and no two
\* requests have changed the key of the account at once: the rows and the file are written
\* apart, and each may be ahead of the other only in between.
KeyStands ==
    ~spoiled /\ file # Torn => \A a \in Accounts :
        accounts[a] # Absent /\ a \notin crossed
            /\ (\A w \in Workers : jobs[w].account = a => ~SetsSecret(jobs[w]))
        => SecretOf(accounts[a].ref) = given[a]

\* Whatever meets whatever: an option that is enabled was enabled by a user, and neither
\* switched off since nor enabled only before a sync or a clearing began that has withdrawn it.
EnabledByChoice == \A k \in Keys : options[k] # Absent /\ options[k].enabled => k \in chosen

\* The request that is done with this step switches the option, or takes the key of its account.
SwitchedBy(w, k) ==
    /\ jobs[w].step = "commit" /\ jobs[w].op # "none" /\ jobs'[w] = Idle
    /\ \/ jobs[w].op \in {"on", "off"} /\ jobs[w].ref = k
       \/ jobs[w].op = "clear" /\ jobs[w].account = options[k].account
    /\ options'[k] = [options[k] EXCEPT !.enabled = jobs[w].op = "on"]

\* A step may never touch an option entered by hand, except that a user switches it or clears
\* the key of its account: no sync refreshes or withdraws it, whether the provider offers the
\* model or not, and whenever the option was entered.
ManualIsTheUsers ==
    \A k \in Keys : options[k] # Absent /\ options[k].manual
        => options'[k] = options[k] \/ \E w \in Workers : SwitchedBy(w, k)

\* What the options are is what the users have made of them, beside what a provider offers.
OptionsAreTheUsers == []EnabledByChoice /\ [][ManualIsTheUsers]_options

=============================================================================
