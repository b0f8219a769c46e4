------------------------ MODULE RuntimeSettingsProofs ------------------------
(***************************************************************************)
(* Keys, options and settings for any number of accounts, models, threads, *)
(* requests and crashes: the key an account uses is the one it was last    *)
(* given, an option is enabled by choice, and a fallback is another model. *)
(***************************************************************************)
EXTENDS RuntimeSettings, TLAPS

AccountRow == [enabled : BOOLEAN, ref : Refs \union {None}]
OptionRow == [account : Accounts, model : Models, manual : BOOLEAN, enabled : BOOLEAN,
              supports : SUBSET Capabilities]
Content == [Refs -> Secrets \union {None}]
Setters == {"create", "rekey", "clear"}
Writing == {"load", "save", "put"}

JobShape(j) == j = [op |-> j.op, step |-> j.step, account |-> j.account, row |-> j.row, rows |-> j.rows,
                    secret |-> j.secret, ref |-> j.ref, copy |-> j.copy, offer |-> j.offer, again |-> j.again]

\* What a request has loaded and is about to write, by what it does: nothing it has loaded has
\* gone since, and the account it makes is not there yet.
JobOK(w) ==
    LET j == jobs[w] IN
    /\ JobShape(j)
    /\ j.op \in {"none", "create", "rekey", "clear", "sync", "on", "off"}
    /\ j.step \in Writing => j.op \in Setters /\ j.rows = None
    /\ j.step = "fetch" => j.op = "sync"
    /\ j.op \in Setters => /\ j.account \in Accounts
                           /\ j.secret \in Secrets \union {None} /\ j.ref \in Refs \union {None}
                           /\ j.step \in Writing \union {"commit"}
    /\ j.step \in {"save", "put"} => j.ref \in Refs /\ j.copy \in Content
    /\ j.op = "create" => /\ accounts[j.account] = Absent
                          /\ j.row \in AccountRow /\ j.row.ref = j.ref
                          /\ j.step = "load" => j.ref \in Refs
                          /\ j.ref = None => j.secret = None
    /\ j.op = "rekey" => j.ref \in Refs
    /\ j.op \in {"rekey", "clear", "sync"} => j.account \in Accounts /\ accounts[j.account] # Absent
    /\ j.op \in {"rekey", "clear"} =>
          /\ j.row \in AccountRow /\ (j.row.ref = j.ref \/ j.row.ref = None)
          /\ j.op = "clear" => j.row.ref = j.ref
    /\ j.op = "clear" /\ j.rows # None => \A k \in j.rows : k \in Keys /\ options[k] # Absent
    /\ j.op = "sync" => j.step \in {"fetch", "commit"}
    /\ j.op = "sync" /\ j.step = "commit" =>
          /\ j.offer \in Offers /\ DOMAIN j.rows \subseteq Keys
          /\ \A k \in DOMAIN j.rows : j.rows[k] \in OptionRow /\ options[k] # Absent
    /\ j.op \in {"on", "off"} => j.ref \in Keys /\ options[j.ref] # Absent /\ j.step = "commit"

\* The rows and the requests of the catalog.
CatalogOK ==
    /\ TypeOK
    /\ accounts = [a \in Accounts |-> accounts[a]] /\ options = [k \in Keys |-> options[k]]
    /\ given = [a \in Accounts |-> given[a]] /\ jobs = [w \in Workers |-> jobs[w]]
    /\ spoiled \in BOOLEAN
    /\ \A w \in Workers : JobOK(w)
    /\ \A v, w \in Workers :
          jobs[v].op = "create" /\ jobs[w].op = "create" /\ jobs[v].account = jobs[w].account => v = w

\* A request that withdraws options knows those that are enabled: they are among the rows it
\* has loaded, or it has been told of them; and it knows whose they are.
Told(w) ==
    LET j == jobs[w] IN
    /\ j.op = "clear" /\ j.step = "commit" /\ j.rows # None =>
          \A k \in Keys : options[k] # Absent /\ options[k].account = j.account /\ options[k].enabled
                             => k \in j.rows \/ k \in j.again
    /\ j.op = "clear" /\ j.step = "commit" /\ j.rows # None =>
          \A k \in j.rows : options[k].account = j.account
    /\ j.op = "sync" /\ j.step = "commit" =>
          \A k \in DOMAIN j.rows :
              /\ options[k].enabled => j.rows[k].enabled \/ k \in j.again
              /\ j.rows[k].manual = options[k].manual
Informed == EnabledByChoice /\ \A w \in Workers : Told(w)

\* Two requests that set or clear a secret work on one account only where it is crossed.
Sets(w) == jobs[w].op \in Setters
Alone == \A v, w \in Workers :
    Sets(v) /\ Sets(w) /\ jobs[v].account = jobs[w].account /\ jobs[v].account \notin crossed => v = w

\* A reference belongs to one account: that of the row, or of the request, that holds it.
Holds(a, r) ==
    \/ accounts[a] # Absent /\ accounts[a].ref = r
    \/ \E w \in Workers : Sets(w) /\ jobs[w].account = a /\ jobs[w].ref = r
OneHolder == \A a, b \in Accounts, r \in Refs : Holds(a, r) /\ Holds(b, r) => a = b

\* A request that has no other beside it has loaded the reference its account still has.
Loaded == \A w \in Workers :
    jobs[w].op \in {"rekey", "clear"} /\ jobs[w].account \notin crossed
        => jobs[w].row.ref = accounts[jobs[w].account].ref

\* While the file is being written, one request writes it, on the basis of what was in it.
OneWriter ==
    /\ file = Torn => \E w \in Workers : jobs[w].step = "put"
    /\ \A v, w \in Workers : jobs[v].step = "put" /\ jobs[w].step = "put" => v = w /\ file = Torn

\* What the file holds, or held before it was emptied.
Stands(content) ==
    /\ \A a \in Accounts :
          accounts[a] # Absent /\ a \notin crossed
              /\ (\A w \in Workers : jobs[w].account = a /\ Sets(w) => jobs[w].step # "commit")
          => given[a] = IF accounts[a].ref = None THEN None ELSE content[accounts[a].ref]
    /\ \A w \in Workers :
          jobs[w].op \in {"create", "rekey"} /\ jobs[w].step = "commit" /\ jobs[w].account \notin crossed
          => jobs[w].secret = IF jobs[w].ref = None THEN None ELSE content[jobs[w].ref]
Kept ==
    /\ file # Torn => Stands(file)
    /\ \A w \in Workers : jobs[w].step = "put" => Stands(jobs[w].copy)

FileInv == Alone /\ OneHolder /\ Loaded /\ (~spoiled => OneWriter /\ Kept)

\* The settings: an update that no other overlaps has loaded the row that is still there.
EditShape(e) == e = [scope |-> e.scope, new |-> e.new, row |-> e.row, payload |-> e.payload]
SettingsInv ==
    /\ settings = [s \in Scopes |-> settings[s]] /\ edits = [w \in Workers |-> edits[w]]
    /\ \A s \in Scopes \ met : settings[s] # Absent => Apart(settings[s])
    /\ \A w \in Workers : edits[w] # Absent =>
          /\ EditShape(edits[w]) /\ edits[w].scope \in Scopes /\ edits[w].payload \in Payloads
          /\ edits[w].row \in [Fields -> Keys \union {None}]
          /\ ~edits[w].new => settings[edits[w].scope] # Absent
          /\ edits[w].scope \notin met =>
                /\ ~edits[w].new => edits[w].row = settings[edits[w].scope]
                /\ \A v \in Workers : edits[v] # Absent /\ edits[v].scope = edits[w].scope => v = w

-----------------------------------------------------------------------------
(* A request changes its own job, and no row goes away.                    *)

JobSame(i, j) ==
    /\ JobShape(j)
    /\ j.op = i.op /\ j.step = i.step /\ j.account = i.account /\ j.row = i.row /\ j.rows = i.rows
    /\ j.secret = i.secret /\ j.ref = i.ref /\ j.copy = i.copy /\ j.offer = i.offer
    /\ i.again \subseteq j.again

RowsStay ==
    /\ \A a \in Accounts : accounts[a] # Absent => accounts'[a] # Absent
    /\ \A k \in Keys : options[k] # Absent => options'[k] # Absent

\* Nobody's job but that of w is touched.
Alters(w) ==
    /\ jobs' = [v \in Workers |-> jobs'[v]]
    /\ \A v \in Workers : v # w => jobs'[v] = jobs[v] /\ JobSame(jobs[v], jobs'[v])

\* A request that has just begun.
Begun(j, op, step, a, row, secret, ref) ==
    /\ JobShape(j)
    /\ j.op = op /\ j.step = step /\ j.account = a /\ j.row = row /\ j.rows = None
    /\ j.secret = secret /\ j.ref = ref /\ j.again = {}

LEMMA OneJob ==
  ASSUME CatalogOK, NEW w \in Workers, NEW j, jobs' = [jobs EXCEPT ![w] = j]
  PROVE  Alters(w) /\ jobs'[w] = j
<1>1. jobs = [v \in Workers |-> jobs[v]] /\ \A v \in Workers : JobShape(jobs[v])
  BY DEF CatalogOK, JobOK
<1>2. jobs' = [v \in Workers |-> jobs'[v]] /\ jobs'[w] = j
      /\ \A v \in Workers : v # w => jobs'[v] = jobs[v]
  BY <1>1
<1>3. QED
  BY <1>1, <1>2 DEF JobSame, Alters

\* A job that is left alone stays as sound as it was.
LEMMA OthersStay ==
  ASSUME NEW v \in Workers, JobOK(v), JobSame(jobs[v], jobs'[v]), RowsStay,
         jobs[v].op = "create" => accounts'[jobs[v].account] = Absent
  PROVE  JobOK(v)'
BY DEF JobOK, JobSame, RowsStay

\* The rows are as they were.
LEMMA JobsOnly ==
  ASSUME CatalogOK, NEW w \in Workers, Alters(w), UNCHANGED <<accounts, options>>
  PROVE  \A v \in Workers : v # w => JobOK(v)'
<1>1. \A v \in Workers : v # w => JobSame(jobs[v], jobs'[v]) /\ JobOK(v)
  BY DEF CatalogOK, Alters
<1>2. RowsStay /\ \A v \in Workers : JobOK(v) /\ jobs[v].op = "create" => accounts'[jobs[v].account] = Absent
  BY DEF RowsStay, JobOK
<1>3. QED
  BY <1>1, <1>2, OthersStay

-----------------------------------------------------------------------------
(* What each step does to the job of its request.                          *)

LEMMA CreateEffect ==
  ASSUME CatalogOK, NEW w \in Workers, NEW a \in Accounts, NEW secret \in Secrets \union {None},
         Create(w, a, secret)
  PROVE  /\ Alters(w) /\ jobs[w] = Idle
         /\ accounts[a] = Absent /\ \A v \in Workers : jobs[v].account # a
         /\ \E r \in Refs \union {None}, step \in {"load", "commit"}, row \in AccountRow :
               /\ r \in Fresh \/ (r = None /\ secret = None)
               /\ r = None <=> step = "commit"
               /\ row.ref = r /\ Begun(jobs'[w], "create", step, a, row, secret, r)
         /\ Spend("account") /\ UNCHANGED catalog
<1>1. /\ accounts[a] = Absent /\ \A v \in Workers : jobs[v].account # a
      /\ Spend("account") /\ UNCHANGED catalog /\ jobs[w] = Idle
  BY DEF Create, Begin, Free
<1>2. CASE secret = None
  <2> DEFINE row == [enabled |-> TRUE, ref |-> None]
  <2>1. PICK j : j = [Job("create", "commit", a) EXCEPT !.row = row] /\ jobs' = [jobs EXCEPT ![w] = j]
    BY <1>2 DEF Create, Begin
  <2>2. Begun(j, "create", "commit", a, row, secret, None)
    BY <1>2, <2>1 DEF Job, Idle, Begun, JobShape
  <2>3. Alters(w) /\ jobs'[w] = j /\ row \in AccountRow /\ row.ref = None
    BY <2>1, OneJob DEF AccountRow
  <2>4. QED
    BY <1>1, <1>2, <2>2, <2>3
<1>3. CASE secret # None
  <2>0. PICK r \in Fresh :
           jobs' = [jobs EXCEPT ![w] = [Job("create", "load", a) EXCEPT !.secret = secret, !.ref = r,
                                                       !.row = [enabled |-> TRUE, ref |-> r]]]
    BY <1>3 DEF Create, Begin
  <2>1. PICK j : /\ j = [Job("create", "load", a) EXCEPT !.secret = secret, !.ref = r,
                                          !.row = [enabled |-> TRUE, ref |-> r]]
                 /\ jobs' = [jobs EXCEPT ![w] = j]
    BY <2>0
  <2> DEFINE row == [enabled |-> TRUE, ref |-> r]
  <2>2. r \in Refs /\ r # None
    BY <2>0, CatalogAssumption DEF Fresh
  <2>3. Begun(j, "create", "load", a, row, secret, r)
    BY <2>1 DEF Job, Idle, Begun, JobShape
  <2>4. Alters(w) /\ jobs'[w] = j /\ row \in AccountRow /\ row.ref = r
    BY <2>1, <2>2, OneJob DEF AccountRow
  <2>5. QED
    BY <1>1, <2>0, <2>2, <2>3, <2>4
<1>4. QED
  BY <1>2, <1>3

LEMMA RekeyEffect ==
  ASSUME CatalogOK, NEW w \in Workers, NEW a \in Accounts, NEW secret \in Secrets, Rekey(w, a, secret)
  PROVE  /\ Alters(w) /\ jobs[w] = Idle
         /\ accounts[a] # Absent
         /\ \E r \in Refs :
               /\ (r \in Fresh /\ accounts[a].ref = None) \/ r = accounts[a].ref
               /\ Begun(jobs'[w], "rekey", "load", a, accounts[a], secret, r)
         /\ Cross(a) /\ Spend("account") /\ UNCHANGED <<accounts, options, file, given, spoiled, chosen>>
<1>1. /\ accounts[a] # Absent /\ Cross(a) /\ jobs[w] = Idle
      /\ Spend("account") /\ UNCHANGED <<accounts, options, file, given, spoiled, chosen>>
  BY DEF Rekey, Begin, Free
<1>0. PICK r \in (IF accounts[a].ref = None THEN Fresh ELSE {accounts[a].ref}) :
         jobs' = [jobs EXCEPT ![w] = [Job("rekey", "load", a) EXCEPT !.secret = secret, !.ref = r]]
  BY DEF Rekey, Begin
<1>2. PICK j : /\ j = [Job("rekey", "load", a) EXCEPT !.secret = secret, !.ref = r]
               /\ jobs' = [jobs EXCEPT ![w] = j]
  BY <1>0
<1>3. accounts[a] \in AccountRow
  BY <1>1 DEF CatalogOK, TypeOK, AccountRow
<1>4. r \in Refs
  BY <1>0, <1>3 DEF Fresh, AccountRow
<1>5. Begun(j, "rekey", "load", a, accounts[a], secret, r)
  BY <1>2 DEF Job, Idle, Begun, JobShape
<1>6. Alters(w) /\ jobs'[w] = j
  BY <1>2, OneJob
<1>7. QED
  BY <1>0, <1>1, <1>4, <1>5, <1>6

LEMMA ClearEffect ==
  ASSUME CatalogOK, NEW w \in Workers, NEW a \in Accounts, Clear(w, a)
  PROVE  /\ Alters(w) /\ jobs[w] = Idle
         /\ accounts[a] # Absent
         /\ Begun(jobs'[w], "clear", "load", a, accounts[a], None, accounts[a].ref)
         /\ Cross(a) /\ Spend("account") /\ UNCHANGED <<accounts, options, file, given, spoiled, chosen>>
<1>1. PICK j : j = [Job("clear", "load", a) EXCEPT !.ref = accounts[a].ref] /\ jobs' = [jobs EXCEPT ![w] = j]
  BY DEF Clear, Begin
<1>2. Begun(j, "clear", "load", a, accounts[a], None, accounts[a].ref)
  BY <1>1 DEF Job, Idle, Begun, JobShape
<1>3. QED
  BY <1>1, <1>2, OneJob DEF Clear, Begin, Free

LEMMA SyncEffect ==
  ASSUME CatalogOK, NEW w \in Workers, NEW a \in Accounts, Sync(w, a)
  PROVE  /\ Alters(w) /\ jobs[w] = Idle
         /\ accounts[a] # Absent
         /\ Begun(jobs'[w], "sync", "fetch", a, accounts[a], None, None)
         /\ Spend("option") /\ UNCHANGED catalog
<1>1. PICK j : j = Job("sync", "fetch", a) /\ jobs' = [jobs EXCEPT ![w] = j]
  BY DEF Sync, Begin
<1>2. Begun(j, "sync", "fetch", a, accounts[a], None, None)
  BY <1>1 DEF Job, Idle, Begun, JobShape
<1>3. QED
  BY <1>1, <1>2, OneJob DEF Sync, Begin, Free

LEMMA EditEffect ==
  ASSUME CatalogOK, NEW w \in Workers, NEW key \in Keys, NEW enabled \in BOOLEAN, Edit(w, key, enabled)
  PROVE  /\ Alters(w) /\ jobs[w] = Idle
         /\ options[key] # Absent
         /\ \E op \in {"on", "off"} : Begun(jobs'[w], op, "commit", None, options[key].enabled, None, key)
         /\ Spend("option") /\ UNCHANGED catalog
<1>0. PICK op \in {"on", "off"} :
         jobs' = [jobs EXCEPT ![w] =
                    [Idle EXCEPT !.op = op, !.step = "commit", !.ref = key, !.row = options[key].enabled]]
  BY DEF Edit, Begin
<1>1. PICK j : /\ j = [Idle EXCEPT !.op = op, !.step = "commit", !.ref = key, !.row = options[key].enabled]
               /\ jobs' = [jobs EXCEPT ![w] = j]
  BY <1>0
<1>2. Begun(j, op, "commit", None, options[key].enabled, None, key)
  BY <1>1 DEF Idle, Begun, JobShape
<1>3. QED
  BY <1>1, <1>2, OneJob DEF Edit, Begin, Free

\* A request that has gone on to its next step.
Moves(i, j) ==
    /\ JobShape(j)
    /\ j.op = i.op /\ j.account = i.account /\ j.row = i.row
    /\ j.secret = i.secret /\ j.ref = i.ref /\ j.again = i.again

LEMMA LoadEffect ==
  ASSUME CatalogOK, NEW w \in Workers, Load(w)
  PROVE  /\ Alters(w) /\ Moves(jobs[w], jobs'[w]) /\ jobs[w].step = "load"
         /\ jobs'[w].rows = jobs[w].rows
         /\ \/ jobs'[w].step = "commit" /\ jobs[w].op = "clear"
            \/ /\ jobs'[w].step = "save" /\ jobs'[w].copy = Read(file)
               /\ jobs[w].op = "clear" => jobs[w].ref # None
         /\ spoiled' = (spoiled \/ file = Torn)
         /\ UNCHANGED <<accounts, options, file, left, given, crossed, chosen>>
<1> DEFINE nothing == jobs[w].op = "clear" /\ (jobs[w].ref = None \/ Read(file)[jobs[w].ref] = None)
<1>1. PICK j : /\ j = [jobs[w] EXCEPT !.copy = IF nothing THEN None ELSE Read(file),
                                      !.step = IF nothing THEN "commit" ELSE "save"]
               /\ jobs' = [jobs EXCEPT ![w] = j]
  BY DEF Load, CatalogOK
<1>2. JobShape(jobs[w])
  BY DEF CatalogOK, JobOK
<1>3. Alters(w) /\ jobs'[w] = j
  BY <1>1, OneJob
<1>4. Moves(jobs[w], j) /\ j.rows = jobs[w].rows
      /\ j.copy = (IF nothing THEN None ELSE Read(file)) /\ j.step = IF nothing THEN "commit" ELSE "save"
  BY <1>1, <1>2 DEF Moves, JobShape
<1>5. QED
  BY <1>3, <1>4 DEF Load

LEMMA TruncateEffect ==
  ASSUME CatalogOK, NEW w \in Workers, Truncate(w)
  PROVE  /\ Alters(w) /\ Moves(jobs[w], jobs'[w]) /\ jobs[w].step = "save" /\ jobs'[w].step = "put"
         /\ jobs'[w].rows = jobs[w].rows /\ jobs'[w].copy = jobs[w].copy
         /\ spoiled' = (spoiled \/ file # jobs[w].copy) /\ file' = Torn
         /\ UNCHANGED <<accounts, options, left, given, crossed, chosen>>
<1>1. PICK j : j = [jobs[w] EXCEPT !.step = "put"] /\ jobs' = [jobs EXCEPT ![w] = j]
  BY DEF Truncate, Goes, CatalogOK
<1>2. JobShape(jobs[w])
  BY DEF CatalogOK, JobOK
<1>3. Alters(w) /\ jobs'[w] = j
  BY <1>1, OneJob
<1>4. Moves(jobs[w], j) /\ j.rows = jobs[w].rows /\ j.copy = jobs[w].copy /\ j.step = "put"
  BY <1>1, <1>2 DEF Moves, JobShape
<1>5. QED
  BY <1>3, <1>4 DEF Truncate

LEMMA PutEffect ==
  ASSUME CatalogOK, NEW w \in Workers, Put(w)
  PROVE  /\ Alters(w) /\ Moves(jobs[w], jobs'[w]) /\ jobs[w].step = "put" /\ jobs'[w].step = "commit"
         /\ jobs'[w].rows = jobs[w].rows
         /\ spoiled' = (spoiled \/ file # Torn)
         /\ file' = Changed(jobs[w]) \/ (file # Torn /\ file' = Torn)
         /\ UNCHANGED <<accounts, options, left, given, crossed, chosen>>
<1>1. PICK j : j = [jobs[w] EXCEPT !.copy = None, !.step = "commit"] /\ jobs' = [jobs EXCEPT ![w] = j]
  BY DEF Put, CatalogOK
<1>2. JobShape(jobs[w])
  BY DEF CatalogOK, JobOK
<1>3. Alters(w) /\ jobs'[w] = j
  BY <1>1, OneJob
<1>4. Moves(jobs[w], j) /\ j.rows = jobs[w].rows /\ j.step = "commit"
  BY <1>1, <1>2 DEF Moves, JobShape
<1>5. QED
  BY <1>3, <1>4 DEF Put

LEMMA LoadClearedEffect ==
  ASSUME CatalogOK, NEW w \in Workers, LoadCleared(w)
  PROVE  /\ Alters(w) /\ Moves(jobs[w], jobs'[w])
         /\ jobs[w].op = "clear" /\ jobs[w].step = "commit" /\ jobs'[w].step = "commit"
         /\ jobs'[w].rows = {k \in Owned(jobs[w].account) : options[k].enabled}
         /\ UNCHANGED <<accounts, options, file, left, given, spoiled, crossed, chosen>>
<1>1. PICK j : /\ j = [jobs[w] EXCEPT !.rows = {k \in Owned(jobs[w].account) : options[k].enabled}]
               /\ jobs' = [jobs EXCEPT ![w] = j]
  BY DEF LoadCleared, CatalogOK
<1>2. JobShape(jobs[w])
  BY DEF CatalogOK, JobOK
<1>3. Alters(w) /\ jobs'[w] = j
  BY <1>1, OneJob
<1>4. Moves(jobs[w], j) /\ j.step = jobs[w].step
      /\ j.rows = {k \in Owned(jobs[w].account) : options[k].enabled}
  BY <1>1, <1>2 DEF Moves, JobShape
<1>5. QED
  BY <1>3, <1>4 DEF LoadCleared

LEMMA FetchEffect ==
  ASSUME CatalogOK, NEW w \in Workers, NEW offer \in Offers, Fetch(w, offer)
  PROVE  /\ Alters(w) /\ jobs[w].step = "fetch"
         /\ \/ jobs'[w] = Idle
            \/ /\ Moves(jobs[w], jobs'[w]) /\ jobs'[w].step = "commit" /\ jobs'[w].offer = offer
               /\ jobs'[w].rows = [k \in Owned(jobs[w].account) |-> options[k]]
         /\ UNCHANGED <<catalog, left>>
<1>1. JobShape(jobs[w]) /\ jobs[w].step = "fetch" /\ UNCHANGED <<catalog, left>>
  BY DEF CatalogOK, JobOK, Fetch
<1>2. CASE Done(w)
  BY <1>1, <1>2, OneJob DEF Done
<1>3. CASE jobs' = [jobs EXCEPT ![w].offer = offer, ![w].step = "commit",
                                ![w].rows = [k \in Owned(jobs[w].account) |-> options[k]]]
  <2> DEFINE loaded == [k \in Owned(jobs[w].account) |-> options[k]]
  <2> HIDE DEF loaded
  <2>1. PICK j : /\ j = [jobs[w] EXCEPT !.offer = offer, !.step = "commit", !.rows = loaded]
                 /\ jobs' = [jobs EXCEPT ![w] = j]
    BY <1>3 DEF CatalogOK, loaded
  <2>2. Alters(w) /\ jobs'[w] = j
    BY <2>1, OneJob
  <2>3. Moves(jobs[w], j) /\ j.step = "commit" /\ j.rows = loaded /\ j.offer = offer
    BY <1>1, <2>1 DEF Moves, JobShape
  <2>4. QED
    BY <1>1, <2>2, <2>3 DEF loaded
<1>4. QED
  BY <1>2, <1>3 DEF Fetch

\* Whoever is at work hears of an option that has been enabled.
LEMMA MeanwhileEffect ==
  ASSUME CatalogOK, NEW key
  PROVE  LET heard == Meanwhile(key) IN
         /\ heard = [v \in Workers |-> heard[v]]
         /\ \A v \in Workers : JobSame(jobs[v], heard[v]) /\ (jobs[v] # Idle => key \in heard[v].again)
<1> DEFINE heard == Meanwhile(key)
<1>1. \A v \in Workers : JobShape(jobs[v])
  BY DEF CatalogOK, JobOK
<1>2. heard = [v \in Workers |-> heard[v]]
  BY DEF Meanwhile
<1>3. ASSUME NEW v \in Workers
      PROVE  JobSame(jobs[v], heard[v]) /\ (jobs[v] # Idle => key \in heard[v].again)
  <2>1. CASE jobs[v] = Idle
    BY <1>1, <2>1 DEF Meanwhile, JobSame
  <2>2. CASE jobs[v] # Idle
    <3>1. heard[v] = [jobs[v] EXCEPT !.again = @ \union {key}]
      BY <2>2 DEF Meanwhile
    <3> HIDE DEF heard
    <3>2. QED
      BY <1>1, <3>1 DEF JobSame, JobShape
  <2>3. QED
    BY <2>1, <2>2
<1>4. QED
  BY <1>2, <1>3

LEMMA CommitEditEffect ==
  ASSUME CatalogOK, NEW w \in Workers, CommitEdit(w)
  PROVE  /\ jobs[w].op \in {"on", "off"} /\ jobs'[w] = Idle
         /\ jobs' = [v \in Workers |-> jobs'[v]]
         /\ \A v \in Workers : v # w => JobSame(jobs[v], jobs'[v])
         /\ jobs[w].op = "on" =>
               \A v \in Workers : v # w /\ jobs[v] # Idle => jobs[w].ref \in jobs'[v].again
         /\ options' = IF jobs[w].row = (jobs[w].op = "on") THEN options
                       ELSE [options EXCEPT ![jobs[w].ref].enabled = jobs[w].op = "on"]
         /\ chosen' = IF jobs[w].op = "on" THEN chosen \union {jobs[w].ref}
                      ELSE IF jobs[w].row THEN chosen \ {jobs[w].ref} ELSE chosen
         /\ UNCHANGED <<accounts, file, left, given, spoiled, crossed>>
<1>1. jobs = [v \in Workers |-> jobs[v]] /\ \A v \in Workers : JobSame(jobs[v], jobs[v])
  BY DEF CatalogOK, JobOK, JobSame
<1> DEFINE heard == IF jobs[w].op = "on" THEN Meanwhile(jobs[w].ref) ELSE jobs
<1>2. /\ heard = [v \in Workers |-> heard[v]]
      /\ \A v \in Workers : /\ JobSame(jobs[v], heard[v])
                            /\ jobs[w].op = "on" /\ jobs[v] # Idle => jobs[w].ref \in heard[v].again
  BY <1>1, MeanwhileEffect
<1>3. jobs' = [heard EXCEPT ![w] = Idle]
  BY DEF CommitEdit
<1> HIDE DEF heard
<1>4. /\ jobs'[w] = Idle /\ jobs' = [v \in Workers |-> jobs'[v]]
      /\ \A v \in Workers : v # w => jobs'[v] = heard[v]
  BY <1>2, <1>3
<1>5. QED
  BY <1>2, <1>4 DEF CommitEdit

-----------------------------------------------------------------------------
(* The rows and the requests of the catalog: steps that change no row.     *)

LEMMA SpendType ==
  ASSUME CatalogOK, NEW kind \in Kinds, Spend(kind)
  PROVE  left' \in [Kinds -> Nat]
BY DEF CatalogOK, TypeOK, Spend

LEMMA RowsAreKept ==
  ASSUME CatalogOK, NEW w \in Workers, Alters(w), UNCHANGED <<accounts, options, given>>,
         file' = Torn \/ file' \in Content, left' \in [Kinds -> Nat], spoiled' \in BOOLEAN,
         JobOK(w)',
         \A v \in Workers : v # w /\ jobs[v].op = "create" /\ jobs'[w].op = "create"
                               => jobs[v].account # jobs'[w].account
  PROVE  CatalogOK'
<1>1. TypeOK'
  BY DEF CatalogOK, TypeOK, Content
<1>2. \A v \in Workers : JobOK(v)'
  BY JobsOnly
<1>3. \A v, u \in Workers :
         jobs'[v].op = "create" /\ jobs'[u].op = "create" /\ jobs'[v].account = jobs'[u].account => v = u
  BY DEF CatalogOK, Alters
<1>4. QED
  BY <1>1, <1>2, <1>3 DEF CatalogOK, Alters

LEMMA BegunOK ==
  ASSUME NEW w \in Workers, NEW a, NEW secret \in Secrets \union {None}, NEW r, NEW row,
         NEW op \in {"create", "rekey", "clear"}, NEW step \in {"load", "commit"},
         a \in Accounts, r \in Refs \union {None}, row \in AccountRow,
         Begun(jobs'[w], op, step, a, row, secret, r),
         op = "create" => accounts'[a] = Absent /\ row.ref = r /\ (r = None <=> step = "commit")
                          /\ (r = None => secret = None),
         op = "rekey" => r \in Refs /\ (row.ref = r \/ row.ref = None),
         op = "clear" => row.ref = r,
         op # "create" => accounts'[a] # Absent /\ step = "load"
  PROVE  JobOK(w)'
BY DEF JobOK, Begun, Setters, Writing

LEMMA IdleOK ==
  ASSUME NEW w \in Workers, jobs'[w] = Idle
  PROVE  JobOK(w)'
BY DEF JobOK, Idle, JobShape, Setters, Writing

LEMMA BeginningOK ==
  ASSUME CatalogOK, NEW w \in Workers,
         \/ \E a \in Accounts, secret \in Secrets \union {None} : Create(w, a, secret)
         \/ \E a \in Accounts, secret \in Secrets : Rekey(w, a, secret)
         \/ \E a \in Accounts : Clear(w, a) \/ Sync(w, a)
         \/ \E key \in Keys, enabled \in BOOLEAN : Edit(w, key, enabled)
  PROVE  CatalogOK'
<1>0. /\ file = Torn \/ file \in Content
      /\ left \in [Kinds -> Nat] /\ spoiled \in BOOLEAN
      /\ \A a \in Accounts : accounts[a] = Absent \/ accounts[a] \in AccountRow
  BY DEF CatalogOK, TypeOK, AccountRow, Content
<1>1. ASSUME NEW a \in Accounts, NEW secret \in Secrets \union {None}, Create(w, a, secret)
      PROVE  CatalogOK'
  <2>1. /\ Alters(w) /\ accounts[a] = Absent /\ \A v \in Workers : jobs[v].account # a
        /\ Spend("account") /\ UNCHANGED catalog
    BY <1>1, CreateEffect
  <2>2. PICK r \in Refs \union {None}, step \in {"load", "commit"}, row \in AccountRow :
           /\ r \in Fresh \/ (r = None /\ secret = None)
           /\ r = None <=> step = "commit"
           /\ row.ref = r /\ Begun(jobs'[w], "create", step, a, row, secret, r)
    BY <1>1, CreateEffect
  <2>3. r = None => secret = None
    BY <2>2, CatalogAssumption DEF Fresh
  <2>4. JobOK(w)'
    BY <2>1, <2>2, <2>3, BegunOK DEF catalog
  <2>5. jobs'[w].account = a
    BY <2>2 DEF Begun
  <2>6. QED
    BY <1>0, <2>1, <2>4, <2>5, SpendType, RowsAreKept DEF catalog, Kinds
<1>2. ASSUME NEW a \in Accounts, NEW secret \in Secrets, Rekey(w, a, secret)
      PROVE  CatalogOK'
  <2>1. /\ Alters(w) /\ accounts[a] # Absent
        /\ Spend("account") /\ UNCHANGED <<accounts, options, file, given, spoiled, chosen>>
    BY <1>2, RekeyEffect
  <2>2. PICK r \in Refs : /\ (r \in Fresh /\ accounts[a].ref = None) \/ r = accounts[a].ref
                          /\ Begun(jobs'[w], "rekey", "load", a, accounts[a], secret, r)
    BY <1>2, RekeyEffect
  <2>3. JobOK(w)'
    BY <1>0, <2>1, <2>2, BegunOK
  <2>4. jobs'[w].op = "rekey"
    BY <2>2 DEF Begun
  <2>5. QED
    BY <1>0, <2>1, <2>3, <2>4, SpendType, RowsAreKept DEF Kinds
<1>3. ASSUME NEW a \in Accounts, Clear(w, a)
      PROVE  CatalogOK'
  <2>1. /\ Alters(w) /\ accounts[a] # Absent
        /\ Spend("account") /\ UNCHANGED <<accounts, options, file, given, spoiled, chosen>>
        /\ Begun(jobs'[w], "clear", "load", a, accounts[a], None, accounts[a].ref)
    BY <1>3, ClearEffect
  <2>2. accounts[a].ref \in Refs \union {None} /\ accounts[a] \in AccountRow
    BY <1>0, <2>1 DEF AccountRow
  <2>3. JobOK(w)'
    BY <2>1, <2>2, BegunOK
  <2>4. jobs'[w].op = "clear"
    BY <2>1 DEF Begun
  <2>5. QED
    BY <1>0, <2>1, <2>3, <2>4, SpendType, RowsAreKept DEF Kinds
<1>4. ASSUME NEW a \in Accounts, Sync(w, a)
      PROVE  CatalogOK'
  <2>1. /\ Alters(w) /\ accounts[a] # Absent /\ Begun(jobs'[w], "sync", "fetch", a, accounts[a], None, None)
        /\ Spend("option") /\ UNCHANGED catalog
    BY <1>4, SyncEffect
  <2>2. JobOK(w)'
    BY <2>1 DEF JobOK, Begun, Setters, Writing, catalog
  <2>3. jobs'[w].op = "sync"
    BY <2>1 DEF Begun
  <2>4. QED
    BY <1>0, <2>1, <2>2, <2>3, SpendType, RowsAreKept DEF Kinds, catalog
<1>5. ASSUME NEW key \in Keys, NEW enabled \in BOOLEAN, Edit(w, key, enabled)
      PROVE  CatalogOK'
  <2>1. Alters(w) /\ options[key] # Absent /\ Spend("option") /\ UNCHANGED catalog
    BY <1>5, EditEffect
  <2>2. PICK op \in {"on", "off"} : Begun(jobs'[w], op, "commit", None, options[key].enabled, None, key)
    BY <1>5, EditEffect
  <2>3. JobOK(w)'
    BY <2>1, <2>2 DEF JobOK, Begun, Setters, Writing, catalog
  <2>4. jobs'[w].op \in {"on", "off"}
    BY <2>2 DEF Begun
  <2>5. QED
    BY <1>0, <2>1, <2>3, <2>4, SpendType, RowsAreKept DEF Kinds, catalog
<1>6. QED
  BY <1>1, <1>2, <1>3, <1>4, <1>5

LEMMA WritingOK ==
  ASSUME CatalogOK, NEW w \in Workers,
         \/ Load(w) \/ Truncate(w) \/ Put(w) \/ LoadCleared(w)
         \/ \E offer \in Offers : Fetch(w, offer)
  PROVE  CatalogOK'
<1>0. /\ file = Torn \/ file \in Content
      /\ left \in [Kinds -> Nat] /\ spoiled \in BOOLEAN /\ JobOK(w)
      /\ NoSecrets \in Content
      /\ \A k \in Keys : options[k] = Absent \/ options[k] \in OptionRow
      /\ \A v \in Workers : v # w /\ jobs[v].op = "create" /\ jobs[w].op = "create"
                               => jobs[v].account # jobs[w].account
  BY DEF CatalogOK, TypeOK, Content, NoSecrets, OptionRow
<1>1. CASE Load(w)
  <2>1. Read(file) \in Content
    BY <1>0 DEF Read
  <2>2. JobOK(w)'
    BY <1>0, <1>1, <2>1, LoadEffect DEF JobOK, Moves, Setters, Writing
  <2>3. Alters(w) /\ Moves(jobs[w], jobs'[w]) /\ spoiled' = (spoiled \/ file = Torn)
        /\ UNCHANGED <<accounts, options, file, left, given>>
    BY <1>1, LoadEffect
  <2>4. spoiled' \in BOOLEAN
    BY <2>3
  <2>5. QED
    BY <1>0, <2>2, <2>3, <2>4, RowsAreKept DEF Moves
<1>2. CASE Truncate(w)
  <2>1. JobOK(w)'
    BY <1>0, <1>2, TruncateEffect DEF JobOK, Moves, Setters, Writing
  <2>2. /\ Alters(w) /\ Moves(jobs[w], jobs'[w]) /\ spoiled' = (spoiled \/ file # jobs[w].copy)
        /\ UNCHANGED <<accounts, options, left, given>> /\ file' = Torn
    BY <1>2, TruncateEffect
  <2>3. spoiled' \in BOOLEAN
    BY <2>2
  <2>4. QED
    BY <1>0, <2>1, <2>2, <2>3, RowsAreKept DEF Moves
<1>3. CASE Put(w)
  <2>1. JobOK(w)'
    BY <1>0, <1>3, PutEffect DEF JobOK, Moves, Setters, Writing
  <2>2. Changed(jobs[w]) \in Content
    BY <1>0, <1>3, PutEffect DEF JobOK, Changed, Content, Setters, Writing
  <2>3. /\ Alters(w) /\ Moves(jobs[w], jobs'[w]) /\ spoiled' = (spoiled \/ file # Torn)
        /\ UNCHANGED <<accounts, options, left, given>>
        /\ file' = Changed(jobs[w]) \/ file' = Torn
    BY <1>3, PutEffect
  <2>4. spoiled' \in BOOLEAN
    BY <2>3
  <2>5. QED
    BY <1>0, <2>1, <2>2, <2>3, <2>4, RowsAreKept DEF Moves
<1>4. CASE LoadCleared(w)
  <2>1. \A k \in jobs'[w].rows : k \in Keys /\ options'[k] # Absent
    BY <1>4, LoadClearedEffect DEF Owned
  <2>2. JobOK(w)'
    BY <1>0, <1>4, <2>1, LoadClearedEffect DEF JobOK, Moves, Setters, Writing
  <2>3. QED
    BY <1>0, <1>4, <2>2, LoadClearedEffect, RowsAreKept DEF Moves
<1>5. ASSUME NEW offer \in Offers, Fetch(w, offer)
      PROVE  CatalogOK'
  <2>1. Alters(w) /\ jobs[w].step = "fetch" /\ UNCHANGED <<catalog, left>>
    BY <1>5, FetchEffect
  <2>2. CASE jobs'[w] = Idle
    <3>1. jobs'[w].op = "none" /\ JobOK(w)'
      BY <2>2, IdleOK DEF Idle
    <3>2. QED
      BY <1>0, <2>1, <3>1, RowsAreKept DEF catalog
  <2>3. CASE /\ Moves(jobs[w], jobs'[w]) /\ jobs'[w].step = "commit" /\ jobs'[w].offer = offer
             /\ jobs'[w].rows = [k \in Owned(jobs[w].account) |-> options[k]]
    <3>1. /\ DOMAIN jobs'[w].rows \subseteq Keys
          /\ \A k \in DOMAIN jobs'[w].rows : jobs'[w].rows[k] \in OptionRow /\ options[k] # Absent
      BY <1>0, <2>3 DEF Owned
    <3>2. jobs'[w].op = "sync" /\ UNCHANGED <<accounts, options>>
      BY <1>0, <2>1, <2>3 DEF JobOK, Moves, catalog
    <3>3. JobOK(w)'
      BY <1>0, <2>1, <2>3, <3>1, <3>2 DEF JobOK, Moves, Setters, Writing
    <3>4. QED
      BY <1>0, <2>1, <3>2, <3>3, RowsAreKept DEF catalog
  <2>4. QED
    BY <1>5, <2>2, <2>3, FetchEffect
<1>6. QED
  BY <1>1, <1>2, <1>3, <1>4, <1>5

-----------------------------------------------------------------------------
(* The rows and the requests of the catalog: steps that change rows.       *)

LEMMA RowsGrow ==
  ASSUME CatalogOK, NEW w \in Workers, jobs' = [v \in Workers |-> jobs'[v]],
         \A v \in Workers : v # w => JobSame(jobs[v], jobs'[v]),
         \A v \in Workers : v # w /\ jobs[v].op = "create" => accounts'[jobs[v].account] = Absent,
         RowsStay, TypeOK', JobOK(w)', jobs'[w].op # "create",
         accounts' = [a \in Accounts |-> accounts'[a]], options' = [k \in Keys |-> options'[k]],
         given' = [a \in Accounts |-> given'[a]], spoiled' = spoiled
  PROVE  CatalogOK'
<1>1. \A v \in Workers : JobOK(v)'
  BY OthersStay DEF CatalogOK
<1>2. \A v, u \in Workers :
         jobs'[v].op = "create" /\ jobs'[u].op = "create" /\ jobs'[v].account = jobs'[u].account => v = u
  BY DEF CatalogOK, JobSame
<1>3. QED
  BY <1>1, <1>2 DEF CatalogOK

\* A row is put in the place of that of an account.
LEMMA AccountSet ==
  ASSUME CatalogOK, NEW a \in Accounts, NEW row \in AccountRow,
         accounts' = [accounts EXCEPT ![a] = row], UNCHANGED options
  PROVE  /\ accounts' = [b \in Accounts |-> accounts'[b]] /\ accounts'[a] = row
         /\ \A b \in Accounts : b # a => accounts'[b] = accounts[b]
         /\ RowsStay
         /\ (file' = Torn \/ file' \in Content) /\ left' \in [Kinds -> Nat] => TypeOK'
<1>1. row # Absent
  BY CatalogAssumption DEF AccountRow
<1>2. /\ accounts' = [b \in Accounts |-> accounts'[b]] /\ accounts'[a] = row
      /\ \A b \in Accounts : b # a => accounts'[b] = accounts[b]
  BY DEF CatalogOK
<1>3. RowsStay
  BY <1>1, <1>2 DEF RowsStay
<1>4. (file' = Torn \/ file' \in Content) /\ left' \in [Kinds -> Nat] => TypeOK'
  BY <1>1, <1>2 DEF CatalogOK, TypeOK, AccountRow, Content
<1>5. QED
  BY <1>2, <1>3, <1>4

LEMMA CommitCreateEffect ==
  ASSUME CatalogOK, NEW w \in Workers, CommitCreate(w)
  PROVE  /\ Alters(w) /\ jobs[w].op = "create" /\ jobs[w].step = "commit"
         /\ accounts' = [accounts EXCEPT ![jobs[w].account] = jobs[w].row]
         /\ given' = [given EXCEPT ![jobs[w].account] = jobs[w].secret]
         /\ \/ jobs'[w] = Idle
            \/ Begun(jobs'[w], "sync", "fetch", jobs[w].account, jobs[w].row, None, None)
         /\ UNCHANGED <<options, file, left, spoiled, crossed, chosen>>
<1> DEFINE a == jobs[w].account
           row == jobs[w].row
<1>1. PICK j : /\ j = Idle \/ j = [Idle EXCEPT !.op = "sync", !.step = "fetch", !.account = a, !.row = row]
               /\ jobs' = [jobs EXCEPT ![w] = j]
  BY DEF CommitCreate
<1>2. j = Idle \/ Begun(j, "sync", "fetch", a, row, None, None)
  BY <1>1 DEF Idle, Begun, JobShape
<1>3. Alters(w) /\ jobs'[w] = j
  BY <1>1, OneJob
<1>4. QED
  BY <1>2, <1>3 DEF CommitCreate

LEMMA IdleEffect ==
  ASSUME CatalogOK, NEW w \in Workers, Done(w)
  PROVE  Alters(w) /\ jobs'[w] = Idle
BY OneJob DEF Done

LEMMA CommitCreateOK ==
  ASSUME CatalogOK, NEW w \in Workers, CommitCreate(w)
  PROVE  CatalogOK'
<1> DEFINE a == jobs[w].account
           row == jobs[w].row
<1>1. /\ JobOK(w)
      /\ \A v \in Workers : v # w /\ jobs[v].op = "create"
             => /\ jobs[v].account # jobs[w].account \/ jobs[w].op # "create"
                /\ jobs[v].account \in Accounts /\ accounts[jobs[v].account] = Absent
  BY DEF CatalogOK, JobOK, Setters
<1>2. a \in Accounts /\ row \in AccountRow /\ jobs[w].op = "create"
  BY <1>1, CommitCreateEffect DEF JobOK, Setters
<1>3. /\ Alters(w) /\ accounts' = [accounts EXCEPT ![a] = row]
      /\ given' = [given EXCEPT ![a] = jobs[w].secret]
      /\ jobs'[w] = Idle \/ Begun(jobs'[w], "sync", "fetch", a, row, None, None)
      /\ UNCHANGED <<options, file, left, spoiled>>
  BY CommitCreateEffect
<1> HIDE DEF a, row
<1>4. /\ accounts' = [b \in Accounts |-> accounts'[b]] /\ accounts'[a] = row /\ RowsStay
      /\ \A b \in Accounts : b # a => accounts'[b] = accounts[b]
  BY <1>2, <1>3, AccountSet
<1>5. (file' = Torn \/ file' \in Content) /\ left' \in [Kinds -> Nat] => TypeOK'
  BY <1>2, <1>3, AccountSet
<1>6. TypeOK'
  <2>1. file = Torn \/ file \in Content
    BY DEF CatalogOK, TypeOK, Content
  <2>2. left \in [Kinds -> Nat]
    BY DEF CatalogOK, TypeOK
  <2>3. QED
    BY <1>3, <1>5, <2>1, <2>2
<1>7. row # Absent
  BY <1>2, CatalogAssumption DEF AccountRow
<1>8. JobOK(w)' /\ jobs'[w].op # "create"
  <2>1. CASE jobs'[w] = Idle
    BY <2>1, IdleOK DEF Idle
  <2>2. CASE Begun(jobs'[w], "sync", "fetch", a, row, None, None)
    BY <1>2, <1>4, <1>7, <2>2 DEF JobOK, Begun, Setters, Writing
  <2>3. QED
    BY <1>3, <2>1, <2>2
<1>9. \A v \in Workers : v # w /\ jobs[v].op = "create" => accounts'[jobs[v].account] = Absent
  BY <1>1, <1>2, <1>4 DEF a
<1>10. given' = [b \in Accounts |-> given'[b]]
  <2>1. given = [b \in Accounts |-> given[b]]
    BY DEF CatalogOK
  <2>2. QED
    BY <1>3, <2>1
<1>11. options' = [k \in Keys |-> options'[k]]
  BY <1>3 DEF CatalogOK
<1>12. QED
  BY <1>3, <1>4, <1>6, <1>8, <1>9, <1>10, <1>11, RowsGrow DEF Alters

LEMMA EnableOK ==
  ASSUME CatalogOK, NEW b \in Accounts, NEW enabled \in BOOLEAN, Enable(b, enabled)
  PROVE  CatalogOK' /\ RowsStay
<1> DEFINE row == [accounts[b] EXCEPT !.enabled = enabled]
<1>1. /\ accounts[b] \in AccountRow /\ accounts = [a \in Accounts |-> accounts[a]]
      /\ accounts' = [accounts EXCEPT ![b] = row] /\ UNCHANGED <<options, file, jobs, given, spoiled>>
      /\ Spend("account")
  BY DEF Enable, CatalogOK, TypeOK, AccountRow
<1>2. row \in AccountRow /\ row.ref = accounts[b].ref
  BY <1>1 DEF AccountRow
<1> HIDE DEF row
<1>3. left' \in [Kinds -> Nat] /\ (file' = Torn \/ file' \in Content)
  BY <1>1, SpendType DEF Kinds, CatalogOK, TypeOK, Content
<1>4. TypeOK' /\ RowsStay /\ accounts' = [a \in Accounts |-> accounts'[a]]
      /\ \A a \in Accounts : a # b => accounts'[a] = accounts[a]
  BY <1>1, <1>2, <1>3, AccountSet
<1>5. ASSUME NEW v \in Workers
      PROVE  JobOK(v)'
  <2>1. JobOK(v) /\ JobSame(jobs[v], jobs'[v])
    BY <1>1 DEF CatalogOK, JobSame, JobOK
  <2>2. jobs[v].op = "create" => accounts'[jobs[v].account] = Absent
    BY <1>4, <2>1 DEF JobOK, Setters, Enable
  <2>3. QED
    BY <1>4, <2>1, <2>2, OthersStay
<1>6. QED
  BY <1>1, <1>4, <1>5 DEF CatalogOK

\* What a request that is done with its account leaves behind.
LEMMA LeavingOK ==
  ASSUME CatalogOK, NEW w \in Workers, Alters(w), jobs'[w] = Idle, RowsStay, TypeOK',
         jobs[w].op # "create",
         \A a \in Accounts : accounts[a] = Absent => accounts'[a] = Absent,
         accounts' = [a \in Accounts |-> accounts'[a]], options' = [k \in Keys |-> options'[k]],
         given' = [a \in Accounts |-> given'[a]], spoiled' = spoiled
  PROVE  CatalogOK'
<1>1. JobOK(w)' /\ jobs'[w].op # "create"
  BY IdleOK DEF Idle
<1>2. \A v \in Workers : v # w /\ jobs[v].op = "create" => accounts'[jobs[v].account] = Absent
  BY DEF CatalogOK, JobOK, Setters
<1>3. QED
  BY <1>1, <1>2, RowsGrow DEF Alters

LEMMA CommitRekeyEffect ==
  ASSUME CatalogOK, NEW w \in Workers, CommitRekey(w)
  PROVE  /\ Alters(w) /\ jobs'[w] = Idle
         /\ jobs[w].op = "rekey" /\ jobs[w].step = "commit"
         /\ jobs[w].account \in Accounts /\ accounts[jobs[w].account] # Absent
         /\ accounts' = [a \in Accounts |-> accounts'[a]]
         /\ \A b \in Accounts : b # jobs[w].account => accounts'[b] = accounts[b]
         /\ accounts'[jobs[w].account].ref =
               IF jobs[w].ref = jobs[w].row.ref THEN accounts[jobs[w].account].ref ELSE jobs[w].ref
         /\ given' = [given EXCEPT ![jobs[w].account] = jobs[w].secret]
         /\ TypeOK' /\ RowsStay
         /\ UNCHANGED <<options, file, left, spoiled, crossed, chosen>>
<1> DEFINE a == jobs[w].account
           row == [accounts[a] EXCEPT !.ref = jobs[w].ref]
<1>1. /\ jobs[w].op = "rekey" /\ jobs[w].step = "commit" /\ Done(w)
      /\ given' = [given EXCEPT ![a] = jobs[w].secret]
      /\ accounts' = IF jobs[w].ref = jobs[w].row.ref THEN accounts ELSE [accounts EXCEPT ![a].ref = jobs[w].ref]
      /\ UNCHANGED <<options, file, left, spoiled, crossed, chosen>>
  BY DEF CommitRekey
<1>2. a \in Accounts /\ accounts[a] # Absent /\ jobs[w].ref \in Refs
  BY <1>1 DEF CatalogOK, JobOK
<1>3. accounts[a] \in AccountRow /\ accounts = [b \in Accounts |-> accounts[b]]
  BY <1>2 DEF CatalogOK, TypeOK, AccountRow
<1>4. (file' = Torn \/ file' \in Content) /\ left' \in [Kinds -> Nat]
  BY <1>1 DEF CatalogOK, TypeOK, Content
<1>5. CASE jobs[w].ref = jobs[w].row.ref
  <2>1. UNCHANGED <<accounts, options, file, left>>
    BY <1>1, <1>5
  <2>2. TypeOK' /\ RowsStay
    BY <2>1 DEF CatalogOK, TypeOK, RowsStay
  <2>3. QED
    BY <1>1, <1>2, <1>3, <1>5, <2>1, <2>2, IdleEffect
<1>6. CASE jobs[w].ref # jobs[w].row.ref
  <2>1. accounts' = [accounts EXCEPT ![a] = row]
    BY <1>1, <1>3, <1>6
  <2>2. row \in AccountRow /\ row.ref = jobs[w].ref
    BY <1>2, <1>3 DEF AccountRow
  <2> HIDE DEF row
  <2>3. /\ accounts' = [b \in Accounts |-> accounts'[b]] /\ accounts'[a] = row /\ RowsStay /\ TypeOK'
        /\ \A b \in Accounts : b # a => accounts'[b] = accounts[b]
    BY <1>1, <1>2, <1>4, <2>1, <2>2, AccountSet
  <2>4. QED
    BY <1>1, <1>2, <1>6, <2>2, <2>3, IdleEffect
<1>7. QED
  BY <1>5, <1>6

LEMMA CommitRekeyOK ==
  ASSUME CatalogOK, NEW w \in Workers, CommitRekey(w)
  PROVE  CatalogOK'
<1>1. \A a \in Accounts : accounts[a] = Absent => accounts'[a] = Absent
  BY CommitRekeyEffect
<1>2. options' = [k \in Keys |-> options'[k]] /\ given' = [a \in Accounts |-> given'[a]]
  BY CommitRekeyEffect DEF CatalogOK
<1>3. QED
  BY <1>1, <1>2, LeavingOK, CommitRekeyEffect

\* Options are put in the place of others of the same account and model, or are new.
LEMMA OptionsSet ==
  ASSUME CatalogOK, options' = [k \in Keys |-> options'[k]],
         \A a \in Accounts : /\ accounts[a] # Absent => accounts'[a] # Absent
                             /\ accounts'[a] = Absent \/ accounts'[a] \in AccountRow,
         \A k \in Keys : \/ options'[k] = options[k]
                         \/ /\ options'[k] \in OptionRow
                            /\ KeyOf[options'[k].account][options'[k].model] = k
                            /\ accounts[options'[k].account] # Absent,
         file' = Torn \/ file' \in Content, left' \in [Kinds -> Nat]
  PROVE  TypeOK' /\ RowsStay
<1>1. Absent \notin OptionRow
  BY CatalogAssumption DEF OptionRow
<1>2. RowsStay
  BY <1>1 DEF RowsStay
<1>3. \A k \in Keys : \/ options'[k] = Absent
                      \/ /\ options'[k] \in OptionRow
                         /\ KeyOf[options'[k].account][options'[k].model] = k
                         /\ accounts'[options'[k].account] # Absent
  BY DEF CatalogOK, TypeOK, OptionRow
<1>4. QED
  BY <1>2, <1>3 DEF TypeOK, AccountRow, OptionRow, Content

LEMMA CommitClearEffect ==
  ASSUME CatalogOK, NEW w \in Workers, CommitClear(w)
  PROVE  /\ Alters(w) /\ jobs'[w] = Idle
         /\ jobs[w].op = "clear" /\ jobs[w].step = "commit" /\ jobs[w].rows # None
         /\ jobs[w].account \in Accounts /\ accounts[jobs[w].account] # Absent
         /\ accounts' = [a \in Accounts |-> accounts'[a]]
         /\ \A b \in Accounts : b # jobs[w].account => accounts'[b] = accounts[b]
         /\ accounts'[jobs[w].account].ref =
               IF jobs[w].row.ref = None THEN accounts[jobs[w].account].ref ELSE None
         /\ \A a \in Accounts : accounts[a] # Absent => accounts'[a] \in AccountRow
         /\ given' = [given EXCEPT ![jobs[w].account] = None]
         /\ options' = [k \in Keys |-> options'[k]]
         /\ \A k \in Keys : IF k \in jobs[w].rows
                            THEN options[k] # Absent /\ options'[k] = [options[k] EXCEPT !.enabled = FALSE]
                            ELSE options'[k] = options[k]
         /\ chosen' = chosen \ (Owned(jobs[w].account) \ jobs[w].again)
         /\ UNCHANGED <<file, left, spoiled, crossed>>
<1> DEFINE a == jobs[w].account
           row == [accounts[a] EXCEPT !.ref = None]
<1>1. /\ jobs[w].op = "clear" /\ jobs[w].step = "commit" /\ jobs[w].rows # None /\ Done(w)
      /\ given' = [given EXCEPT ![a] = None]
      /\ accounts' = IF jobs[w].row.ref = None THEN accounts ELSE [accounts EXCEPT ![a] = Cleared(@)]
      /\ options' = [k \in Keys |-> IF k \in jobs[w].rows THEN [options[k] EXCEPT !.enabled = FALSE] ELSE options[k]]
      /\ chosen' = chosen \ (Owned(a) \ jobs[w].again)
      /\ UNCHANGED <<file, left, spoiled, crossed>>
  BY DEF CommitClear
<1>2. /\ a \in Accounts /\ accounts[a] # Absent
      /\ \A k \in jobs[w].rows : k \in Keys /\ options[k] # Absent
  BY <1>1 DEF CatalogOK, JobOK
<1>3. /\ accounts[a] \in AccountRow /\ accounts = [b \in Accounts |-> accounts[b]]
      /\ \A b \in Accounts : accounts[b] = Absent \/ accounts[b] \in AccountRow
  BY <1>2 DEF CatalogOK, TypeOK, AccountRow
<1>4. row \in AccountRow /\ row.ref = None
  BY <1>3 DEF AccountRow
<1>5. accounts' = IF jobs[w].row.ref = None THEN accounts ELSE [accounts EXCEPT ![a] = row]
  BY <1>1, <1>3 DEF Cleared
<1> HIDE DEF row
<1>6. /\ accounts' = [b \in Accounts |-> accounts'[b]]
      /\ \A b \in Accounts : b # a => accounts'[b] = accounts[b]
      /\ accounts'[a] = IF jobs[w].row.ref = None THEN accounts[a] ELSE row
  BY <1>2, <1>3, <1>5
<1>7. \A k \in Keys : options'[k] = IF k \in jobs[w].rows THEN [options[k] EXCEPT !.enabled = FALSE] ELSE options[k]
  BY <1>1
<1>8. options' = [k \in Keys |-> options'[k]]
  BY <1>1
<1>9. QED
  BY <1>1, <1>2, <1>3, <1>4, <1>6, <1>7, <1>8, IdleEffect

\* An option that has been switched on or off is that of the same model.
LEMMA Switched ==
  ASSUME CatalogOK, NEW k \in Keys, options[k] # Absent, NEW enabled \in BOOLEAN
  PROVE  LET row == [options[k] EXCEPT !.enabled = enabled] IN
         /\ row \in OptionRow /\ row.enabled = enabled /\ row.account = options[k].account
         /\ KeyOf[row.account][row.model] = k /\ accounts[row.account] # Absent
<1>1. /\ options[k] \in OptionRow
      /\ KeyOf[options[k].account][options[k].model] = k /\ accounts[options[k].account] # Absent
  BY DEF CatalogOK, TypeOK, OptionRow
<1>2. QED
  BY <1>1 DEF OptionRow

LEMMA CommitClearOK ==
  ASSUME CatalogOK, NEW w \in Workers, CommitClear(w)
  PROVE  CatalogOK' /\ RowsStay
<1>1. /\ Alters(w) /\ jobs'[w] = Idle /\ jobs[w].op = "clear"
      /\ jobs[w].account \in Accounts /\ accounts[jobs[w].account] # Absent
      /\ accounts' = [a \in Accounts |-> accounts'[a]] /\ options' = [k \in Keys |-> options'[k]]
      /\ \A b \in Accounts : b # jobs[w].account => accounts'[b] = accounts[b]
      /\ \A a \in Accounts : accounts[a] # Absent => accounts'[a] \in AccountRow
      /\ given' = [given EXCEPT ![jobs[w].account] = None]
      /\ \A k \in Keys : IF k \in jobs[w].rows
                         THEN options[k] # Absent /\ options'[k] = [options[k] EXCEPT !.enabled = FALSE]
                         ELSE options'[k] = options[k]
      /\ UNCHANGED <<file, left, spoiled>>
  BY CommitClearEffect
<1>2. /\ file' = Torn \/ file' \in Content
      /\ left' \in [Kinds -> Nat] /\ given' = [a \in Accounts |-> given'[a]]
  BY <1>1 DEF CatalogOK, TypeOK, Content
<1>3. \A a \in Accounts : /\ accounts[a] # Absent => accounts'[a] # Absent
                          /\ accounts[a] = Absent => accounts'[a] = Absent
                          /\ accounts'[a] = Absent \/ accounts'[a] \in AccountRow
  BY <1>1, CatalogAssumption DEF AccountRow
<1>4. \A k \in Keys : \/ options'[k] = options[k]
                      \/ /\ options'[k] \in OptionRow
                         /\ KeyOf[options'[k].account][options'[k].model] = k
                         /\ accounts[options'[k].account] # Absent
  <2>1. ASSUME NEW k \in Keys, options[k] # Absent, options'[k] = [options[k] EXCEPT !.enabled = FALSE]
        PROVE  /\ options'[k] \in OptionRow
               /\ KeyOf[options'[k].account][options'[k].model] = k
               /\ accounts[options'[k].account] # Absent
    BY <2>1, Switched
  <2>2. QED
    BY <1>1, <2>1
<1>5. TypeOK' /\ RowsStay
  BY <1>1, <1>2, <1>3, <1>4, OptionsSet
<1>6. QED
  BY <1>1, <1>2, <1>3, <1>5, LeavingOK

LEMMA CommitSyncEffect ==
  ASSUME CatalogOK, NEW w \in Workers, CommitSync(w)
  PROVE  /\ Alters(w) /\ jobs'[w] = Idle /\ jobs[w].op = "sync" /\ jobs[w].step = "commit"
         /\ options' = [k \in Keys |-> options'[k]]
         /\ \/ UNCHANGED <<options, chosen>>
            \/ /\ \A k \in Keys :
                     \/ k \in DOMAIN jobs[w].rows /\ options'[k] = Refreshed(jobs[w], k)
                     \/ /\ k \notin DOMAIN jobs[w].rows /\ options[k] = Absent
                        /\ \E m \in DOMAIN jobs[w].offer :
                              KeyOf[jobs[w].account][m] = k /\ options'[k] = NewOption(jobs[w], m)
                     \/ k \notin DOMAIN jobs[w].rows /\ options'[k] = options[k]
               /\ chosen' = chosen \ ({k \in DOMAIN jobs[w].rows :
                      /\ Fetchable(jobs[w].rows[k])
                      /\ Supported(jobs[w], jobs[w].rows[k].model) = {}} \ jobs[w].again)
         /\ UNCHANGED <<accounts, file, left, given, spoiled, crossed>>
<1> DEFINE job == jobs[w]
           new == {m \in DOMAIN job.offer : \A k \in DOMAIN job.rows : job.rows[k].model # m}
           Made(k) == IF k \in DOMAIN job.rows THEN Refreshed(job, k)
                      ELSE IF \E m \in new : KeyOf[job.account][m] = k
                           THEN NewOption(job, CHOOSE m \in new : KeyOf[job.account][m] = k)
                      ELSE options[k]
           withdrawn == {k \in DOMAIN job.rows :
                            Fetchable(job.rows[k]) /\ Supported(job, job.rows[k].model) = {}}
<1>1. /\ job.op = "sync" /\ job.step = "commit" /\ Done(w)
      /\ UNCHANGED <<accounts, file, left, given, spoiled, crossed>>
  BY DEF CommitSync
<1>2. Alters(w) /\ jobs'[w] = Idle
  BY <1>1, IdleEffect
<1>3. CASE UNCHANGED <<options, chosen>>
  BY <1>1, <1>2, <1>3 DEF CatalogOK
<1>4. CASE /\ \A m \in new : options[KeyOf[job.account][m]] = Absent
           /\ options' = [k \in Keys |-> Made(k)]
           /\ chosen' = chosen \ (withdrawn \ job.again)
  <2>1. ASSUME NEW k \in Keys
        PROVE  \/ k \in DOMAIN job.rows /\ options'[k] = Refreshed(job, k)
               \/ /\ k \notin DOMAIN job.rows /\ options[k] = Absent
                  /\ \E m \in DOMAIN job.offer :
                        KeyOf[job.account][m] = k /\ options'[k] = NewOption(job, m)
               \/ k \notin DOMAIN job.rows /\ options'[k] = options[k]
    <3>1. options'[k] = Made(k)
      BY <1>4
    <3>2. CASE k \notin DOMAIN job.rows /\ \E m \in new : KeyOf[job.account][m] = k
      <4> DEFINE n == CHOOSE m \in new : KeyOf[job.account][m] = k
      <4>1. n \in new /\ KeyOf[job.account][n] = k
        BY <3>2
      <4>2. options'[k] = NewOption(job, n)
        BY <3>1, <3>2
      <4> HIDE DEF n
      <4>3. n \in DOMAIN job.offer /\ options[k] = Absent
        BY <1>4, <4>1
      <4>4. QED
        BY <3>2, <4>1, <4>2, <4>3
    <3>3. QED
      BY <3>1, <3>2
  <2>2. options' = [k \in Keys |-> options'[k]]
    BY <1>4
  <2>3. QED
    BY <1>1, <1>2, <1>4, <2>1, <2>2
<1>5. QED
  BY <1>3, <1>4 DEF CommitSync

\* What a sync makes of a row it has loaded.
LEMMA RefreshedRow ==
  ASSUME CatalogOK, NEW w \in Workers, jobs[w].op = "sync", jobs[w].step = "commit",
         NEW k \in DOMAIN jobs[w].rows
  PROVE  /\ k \in Keys /\ options[k] # Absent /\ jobs[w].rows[k] \in OptionRow
         /\ \A m : Supported(jobs[w], m) \subseteq Capabilities
         /\ Refreshed(jobs[w], k) \in OptionRow
         /\ Refreshed(jobs[w], k).account = options[k].account
         /\ KeyOf[Refreshed(jobs[w], k).account][Refreshed(jobs[w], k).model] = k
         /\ accounts[Refreshed(jobs[w], k).account] # Absent
         /\ Refreshed(jobs[w], k).enabled =>
               /\ options[k].enabled
               /\ Fetchable(jobs[w].rows[k]) /\ Supported(jobs[w], jobs[w].rows[k].model) = {}
                     => ~jobs[w].rows[k].enabled
<1>1. k \in Keys /\ options[k] # Absent /\ jobs[w].rows[k] \in OptionRow /\ jobs[w].offer \in Offers
  BY DEF CatalogOK, JobOK
<1>2. \A m : Supported(jobs[w], m) \subseteq Capabilities
  BY <1>1, CatalogAssumption DEF Supported, Offered
<1>3. /\ options[k] \in OptionRow
      /\ KeyOf[options[k].account][options[k].model] = k /\ accounts[options[k].account] # Absent
  BY <1>1 DEF CatalogOK, TypeOK, OptionRow
<1> DEFINE loaded == jobs[w].rows[k]
           supports == Supported(jobs[w], loaded.model)
           now == IF supports = loaded.supports THEN options[k].supports ELSE supports
           on == IF loaded.enabled /\ supports = {} THEN FALSE ELSE options[k].enabled
<1>4. CASE ~Fetchable(loaded)
  BY <1>1, <1>2, <1>3, <1>4 DEF Refreshed, OptionRow
<1>5. CASE Fetchable(loaded)
  <2>1. Refreshed(jobs[w], k) = [options[k] EXCEPT !.supports = now, !.enabled = on]
    BY <1>3, <1>5 DEF Refreshed, FromOffer, OptionRow
  <2>2. now \in SUBSET Capabilities /\ on \in BOOLEAN
    BY <1>2, <1>3 DEF OptionRow
  <2>3. on => options[k].enabled /\ (supports = {} => ~loaded.enabled)
    BY <1>1, <1>3 DEF OptionRow
  <2> HIDE DEF now, on
  <2>4. QED
    BY <1>1, <1>2, <1>3, <1>5, <2>1, <2>2, <2>3 DEF OptionRow
<1>6. QED
  BY <1>4, <1>5

\* Every row of an option after a sync has come from a row of that key, or is new and off.
LEMMA SyncedRows ==
  ASSUME CatalogOK, NEW w \in Workers, CommitSync(w), NEW k \in Keys
  PROVE  \/ options'[k] = options[k]
         \/ /\ options'[k] \in OptionRow
            /\ KeyOf[options'[k].account][options'[k].model] = k
            /\ accounts[options'[k].account] # Absent
            /\ \/ ~options'[k].enabled
               \/ /\ options[k] # Absent /\ options[k].enabled
                  /\ options'[k].account = options[k].account
<1>1. jobs[w].op = "sync" /\ jobs[w].step = "commit"
  BY CommitSyncEffect
<1>2. CASE k \in DOMAIN jobs[w].rows /\ options'[k] = Refreshed(jobs[w], k)
  BY <1>1, <1>2, RefreshedRow
<1>3. ASSUME NEW m \in DOMAIN jobs[w].offer,
             KeyOf[jobs[w].account][m] = k, options'[k] = NewOption(jobs[w], m)
      PROVE  /\ options'[k] \in OptionRow
             /\ KeyOf[options'[k].account][options'[k].model] = k
             /\ accounts[options'[k].account] # Absent /\ ~options'[k].enabled
  <2>1. /\ jobs[w].account \in Accounts /\ accounts[jobs[w].account] # Absent
        /\ jobs[w].offer \in Offers
    BY <1>1 DEF CatalogOK, JobOK
  <2>2. m \in Models /\ jobs[w].offer[m] \in SUBSET Capabilities
    BY <2>1, CatalogAssumption
  <2>3. QED
    BY <1>3, <2>1, <2>2 DEF NewOption, OptionRow
<1>4. QED
  BY <1>2, <1>3, CommitSyncEffect

LEMMA CommitSyncOK ==
  ASSUME CatalogOK, NEW w \in Workers, CommitSync(w)
  PROVE  CatalogOK' /\ RowsStay
<1>1. /\ Alters(w) /\ jobs'[w] = Idle /\ jobs[w].op = "sync"
      /\ options' = [k \in Keys |-> options'[k]]
      /\ UNCHANGED <<accounts, file, left, given, spoiled>>
  BY CommitSyncEffect
<1>2. /\ file' = Torn \/ file' \in Content
      /\ left' \in [Kinds -> Nat] /\ given' = [a \in Accounts |-> given'[a]]
      /\ accounts' = [a \in Accounts |-> accounts'[a]]
      /\ \A a \in Accounts : accounts'[a] = Absent \/ accounts'[a] \in AccountRow
  BY <1>1 DEF CatalogOK, TypeOK, Content, AccountRow
<1>3. TypeOK' /\ RowsStay
  BY <1>1, <1>2, SyncedRows, OptionsSet
<1>4. QED
  BY <1>1, <1>2, <1>3, LeavingOK

LEMMA CommitEditOK ==
  ASSUME CatalogOK, NEW w \in Workers, CommitEdit(w)
  PROVE  /\ CatalogOK' /\ RowsStay
         /\ \A k \in Keys : \/ options'[k] = options[k]
                            \/ /\ k = jobs[w].ref /\ options[k] # Absent /\ options'[k] # Absent
                               /\ options'[k].account = options[k].account
                               /\ options'[k].enabled = (jobs[w].op = "on")
<1> DEFINE key == jobs[w].ref
           on == jobs[w].op = "on"
           row == [options[key] EXCEPT !.enabled = on]
<1>1. /\ jobs[w].op \in {"on", "off"} /\ jobs'[w] = Idle
      /\ jobs' = [v \in Workers |-> jobs'[v]]
      /\ \A v \in Workers : v # w => JobSame(jobs[v], jobs'[v])
      /\ options' = IF jobs[w].row = on THEN options ELSE [options EXCEPT ![key].enabled = on]
      /\ UNCHANGED <<accounts, file, left, given, spoiled>>
  BY CommitEditEffect
<1>2. key \in Keys /\ options[key] # Absent /\ options = [k \in Keys |-> options[k]]
  BY <1>1 DEF CatalogOK, JobOK
<1>3. /\ row \in OptionRow /\ row.enabled = on /\ row.account = options[key].account
      /\ KeyOf[row.account][row.model] = key /\ accounts[row.account] # Absent
  BY <1>2, Switched, ZenonT(60)
<1>4. options' = options \/ options' = [options EXCEPT ![key] = row]
  BY <1>1, <1>2
<1> HIDE DEF row
<1>5. /\ options' = [k \in Keys |-> options'[k]]
      /\ \A k \in Keys : options'[k] = options[k] \/ (k = key /\ options'[k] = row)
  BY <1>2, <1>4
<1>6. /\ file' = Torn \/ file' \in Content
      /\ left' \in [Kinds -> Nat] /\ given' = [a \in Accounts |-> given'[a]]
      /\ accounts' = [a \in Accounts |-> accounts'[a]]
      /\ \A a \in Accounts : accounts'[a] = Absent \/ accounts'[a] \in AccountRow
  BY <1>1 DEF CatalogOK, TypeOK, Content, AccountRow
<1>7. TypeOK' /\ RowsStay
  BY <1>1, <1>3, <1>5, <1>6, OptionsSet
<1>8. JobOK(w)' /\ jobs'[w].op # "create"
  BY <1>1, IdleOK DEF Idle
<1>9. \A v \in Workers : v # w /\ jobs[v].op = "create" => accounts'[jobs[v].account] = Absent
  BY <1>1 DEF CatalogOK, JobOK, Setters
<1>10. CatalogOK'
  BY <1>1, <1>5, <1>6, <1>7, <1>8, <1>9, RowsGrow
<1>11. row # Absent
  BY <1>3, CatalogAssumption DEF OptionRow
<1>12. QED
  BY <1>2, <1>3, <1>5, <1>7, <1>10, <1>11

LEMMA AddManualOK ==
  ASSUME CatalogOK, NEW a \in Accounts, NEW m \in Models, NEW enabled \in BOOLEAN,
         NEW supports \in ManualSupports, AddManual(a, m, enabled, supports)
  PROVE  /\ CatalogOK' /\ RowsStay
         /\ KeyOf[a][m] \in Keys /\ options[KeyOf[a][m]] = Absent
         /\ options'[KeyOf[a][m]].enabled = enabled
         /\ \A k \in Keys : k # KeyOf[a][m] => options'[k] = options[k]
         /\ \A v \in Workers : /\ JobSame(jobs[v], jobs'[v])
                               /\ jobs[v] # Idle => KeyOf[a][m] \in jobs'[v].again
<1> DEFINE key == KeyOf[a][m]
           row == [account |-> a, model |-> m, manual |-> TRUE, enabled |-> enabled, supports |-> supports]
<1>1. /\ accounts[a] # Absent /\ options[key] = Absent
      /\ options' = [options EXCEPT ![key] = row] /\ jobs' = Meanwhile(key) /\ Spend("option")
      /\ UNCHANGED <<accounts, file, given, spoiled>>
  BY DEF AddManual
<1>2. key \in Keys /\ supports \in SUBSET Capabilities
  BY CatalogAssumption
<1>3. row \in OptionRow /\ row.account = a /\ row.model = m /\ row.enabled = enabled
  BY <1>2 DEF OptionRow
<1> HIDE DEF row, key
<1>4. /\ options' = [k \in Keys |-> options'[k]] /\ options'[key] = row
      /\ \A k \in Keys : k # key => options'[k] = options[k]
  BY <1>1, <1>2 DEF CatalogOK
<1>5. /\ jobs' = [v \in Workers |-> jobs'[v]]
      /\ \A v \in Workers : JobSame(jobs[v], jobs'[v]) /\ (jobs[v] # Idle => key \in jobs'[v].again)
  BY <1>1, MeanwhileEffect
<1>6. /\ file' = Torn \/ file' \in Content
      /\ left' \in [Kinds -> Nat] /\ given' = [b \in Accounts |-> given'[b]]
      /\ accounts' = [b \in Accounts |-> accounts'[b]]
      /\ \A b \in Accounts : accounts'[b] = Absent \/ accounts'[b] \in AccountRow
  BY <1>1, SpendType DEF CatalogOK, TypeOK, Content, AccountRow, Kinds
<1>7. KeyOf[row.account][row.model] = key /\ accounts[row.account] # Absent
  BY <1>1, <1>3 DEF key
<1>8. TypeOK' /\ RowsStay
  BY <1>1, <1>3, <1>4, <1>6, <1>7, OptionsSet
<1>9. \A v \in Workers : JobOK(v)'
  <2>0. \A v \in Workers : JobOK(v)
    BY DEF CatalogOK
  <2>1. \A v \in Workers : JobOK(v) /\ (jobs[v].op = "create" => accounts'[jobs[v].account] = Absent)
    BY <1>1, <2>0 DEF JobOK
  <2>2. QED
    BY <1>5, <1>8, <2>1, OthersStay
<1>10. \A v, u \in Workers :
         jobs'[v].op = "create" /\ jobs'[u].op = "create" /\ jobs'[v].account = jobs'[u].account => v = u
  BY <1>5 DEF CatalogOK, JobSame
<1>11. CatalogOK'
  BY <1>1, <1>4, <1>5, <1>6, <1>8, <1>9, <1>10 DEF CatalogOK
<1>12. QED
  BY <1>1, <1>2, <1>3, <1>4, <1>5, <1>8, <1>11 DEF key

LEMMA CrashEffect ==
  ASSUME CatalogOK, Crash
  PROVE  /\ CatalogOK' /\ \A v \in Workers : jobs'[v] = Idle
         /\ spoiled' = (spoiled \/ file = Torn)
         /\ \A v \in Workers : jobs[v].op \in Setters /\ jobs[v].step = "commit" => jobs[v].account \in crossed'
         /\ crossed \subseteq crossed'
         /\ UNCHANGED <<accounts, options, file, left, given, chosen>>
<1>1. /\ jobs' = [v \in Workers |-> Idle] /\ spoiled' = (spoiled \/ file = Torn)
      /\ UNCHANGED <<accounts, options, file, left, given, chosen>>
  BY DEF Crash
<1>2. \A v \in Workers : JobOK(v)' /\ jobs'[v] = Idle /\ jobs'[v].op = "none"
  BY <1>1, IdleOK DEF Idle
<1>3. jobs' = [v \in Workers |-> jobs'[v]] /\ spoiled' \in BOOLEAN
  BY <1>1
<1>4. CatalogOK'
  BY <1>1, <1>2, <1>3 DEF CatalogOK, TypeOK
<1>5. /\ \A v \in Workers : jobs[v].op \in Setters /\ jobs[v].step = "commit" => jobs[v].account \in crossed'
      /\ crossed \subseteq crossed'
  BY DEF Crash, SetsSecret, Setters
<1>6. QED
  BY <1>1, <1>2, <1>4, <1>5

-----------------------------------------------------------------------------
(* The invariant of the rows and the requests.                             *)

\* Settings come and go beside the catalog.
LEMMA CatalogRests ==
  ASSUME CatalogOK, UNCHANGED <<catalog, jobs>>, left' \in [Kinds -> Nat]
  PROVE  CatalogOK'
<1>1. UNCHANGED <<accounts, options, file, given, spoiled, jobs>>
  BY DEF catalog
<1>2. TypeOK'
  BY <1>1 DEF CatalogOK, TypeOK
<1>3. \A w \in Workers : JobOK(w)'
  BY <1>1, SMTT(40) DEF CatalogOK, JobOK
<1>4. QED
  BY <1>1, <1>2, <1>3 DEF CatalogOK

LEMMA UpdatingRests ==
  ASSUME CatalogOK, Updating \/ UNCHANGED vars
  PROVE  UNCHANGED <<catalog, jobs>> /\ left' \in [Kinds -> Nat]
<1>1. left \in [Kinds -> Nat]
  BY DEF CatalogOK, TypeOK
<1>2. ASSUME NEW w \in Workers, NEW scope \in Scopes, NEW payload \in Payloads,
             StartUpdate(w, scope, payload)
      PROVE  UNCHANGED <<catalog, jobs>> /\ left' \in [Kinds -> Nat]
  BY <1>2, SpendType DEF StartUpdate, Kinds
<1>3. ASSUME NEW w \in Workers, CommitUpdate(w)
      PROVE  UNCHANGED <<catalog, jobs>> /\ left' \in [Kinds -> Nat]
  BY <1>1, <1>3 DEF CommitUpdate
<1>4. CASE UNCHANGED vars
  BY <1>1, <1>4 DEF vars, catalog
<1>5. QED
  BY <1>2, <1>3, <1>4 DEF Updating

LEMMA CatalogStep ==
  ASSUME CatalogOK, [Next]_vars
  PROVE  CatalogOK'
<1>1. ASSUME NEW w \in Workers, Serve(w)
      PROVE  CatalogOK'
  BY <1>1, BeginningOK, WritingOK, CommitCreateOK, CommitRekeyOK, CommitClearOK, CommitSyncOK,
     CommitEditOK DEF Serve
<1>2. CASE CatalogNext
  BY <1>1, <1>2, EnableOK, AddManualOK, CrashEffect DEF CatalogNext
<1>3. CASE Updating \/ UNCHANGED vars
  BY <1>3, UpdatingRests, CatalogRests
<1>4. QED
  BY <1>2, <1>3 DEF Next

\* An installation as it is found.
LEMMA InitThere ==
  ASSUME Init
  PROVE  \E there \in SUBSET Accounts :
            /\ accounts = [a \in Accounts |-> IF a \in there THEN [enabled |-> TRUE, ref |-> FirstRef[a]] ELSE Absent]
            /\ options = [k \in Keys |-> options[k]]
            /\ \A k \in Keys : options[k] # Absent =>
                  /\ k \in chosen /\ options[k] \in OptionRow /\ options[k].account \in there
                  /\ KeyOf[options[k].account][options[k].model] = k
            /\ given = [a \in Accounts |-> IF a \in there THEN FirstSecret ELSE None]
            /\ file = [r \in Refs |-> IF \E a \in there : FirstRef[a] = r THEN FirstSecret ELSE None]
            /\ jobs = [w \in Workers |-> Idle] /\ left \in Mixes /\ spoiled = FALSE /\ crossed = {}
            /\ \E row \in FirstRows : settings = [s \in Scopes |-> IF s = "default" THEN row ELSE Absent]
            /\ edits = [w \in Workers |-> Absent] /\ met = {}
<1>1. PICK there \in SUBSET Accounts :
         /\ accounts = [a \in Accounts |-> IF a \in there THEN [enabled |-> TRUE, ref |-> FirstRef[a]] ELSE Absent]
         /\ options = [k \in Keys |-> IF k \in KeysOf(there) THEN FirstOption(there, k) ELSE Absent]
         /\ given = [a \in Accounts |-> IF a \in there THEN FirstSecret ELSE None]
         /\ file = [r \in Refs |-> IF \E a \in there : FirstRef[a] = r THEN FirstSecret ELSE None]
         /\ jobs = [w \in Workers |-> Idle] /\ left \in Mixes /\ spoiled = FALSE /\ crossed = {}
         /\ chosen = KeysOf(there)
         /\ \E row \in FirstRows : settings = [s \in Scopes |-> IF s = "default" THEN row ELSE Absent]
         /\ edits = [w \in Workers |-> Absent] /\ met = {}
  BY DEF Init
<1>2. ASSUME NEW k \in Keys, options[k] # Absent
      PROVE  /\ k \in chosen /\ options[k] \in OptionRow /\ options[k].account \in there
             /\ KeyOf[options[k].account][options[k].model] = k
  <2>1. k \in KeysOf(there) /\ options[k] = FirstOption(there, k)
    BY <1>1, <1>2
  <2>2. \E a \in there : \E m \in Models : KeyOf[a][m] = k
    BY <2>1 DEF KeysOf
  <2> DEFINE own == CHOOSE a \in there : \E m \in Models : KeyOf[a][m] = k
             mod == CHOOSE m \in Models : KeyOf[own][m] = k
  <2>3. own \in there /\ \E m \in Models : KeyOf[own][m] = k
    BY <2>2
  <2> HIDE DEF own
  <2>4. mod \in Models /\ KeyOf[own][mod] = k
    BY <2>3
  <2>5. options[k] = [account |-> own, model |-> mod, manual |-> FALSE, enabled |-> TRUE, supports |-> Capabilities]
    BY <2>1 DEF own, FirstOption
  <2> HIDE DEF mod
  <2>6. own \in Accounts
    BY <2>3
  <2>7. options[k] \in OptionRow /\ options[k].account = own /\ options[k].model = mod
    BY <2>4, <2>5, <2>6 DEF OptionRow
  <2>8. QED
    BY <1>1, <2>1, <2>3, <2>4, <2>7
<1>3. options = [k \in Keys |-> options[k]]
  BY <1>1
<1>4. QED
  BY <1>1, <1>2, <1>3

LEMMA CatalogInit ==
  ASSUME Init
  PROVE  CatalogOK
<1>1. PICK there \in SUBSET Accounts :
            /\ accounts = [a \in Accounts |-> IF a \in there THEN [enabled |-> TRUE, ref |-> FirstRef[a]] ELSE Absent]
            /\ options = [k \in Keys |-> options[k]]
            /\ \A k \in Keys : options[k] # Absent =>
                  /\ k \in chosen /\ options[k] \in OptionRow /\ options[k].account \in there
                  /\ KeyOf[options[k].account][options[k].model] = k
            /\ given = [a \in Accounts |-> IF a \in there THEN FirstSecret ELSE None]
            /\ file = [r \in Refs |-> IF \E a \in there : FirstRef[a] = r THEN FirstSecret ELSE None]
            /\ jobs = [w \in Workers |-> Idle] /\ left \in Mixes /\ spoiled = FALSE
  BY InitThere
<1>2. ASSUME NEW a \in there
      PROVE  accounts[a] \in AccountRow /\ accounts[a] # Absent
  <2>1. accounts[a] = [enabled |-> TRUE, ref |-> FirstRef[a]] /\ FirstRef[a] \in Refs
    BY <1>1, SettingsAssumption
  <2>2. accounts[a] \in AccountRow
    BY <2>1 DEF AccountRow
  <2>3. QED
    BY <2>2, CatalogAssumption DEF AccountRow
<1>3. \A a \in Accounts : accounts[a] = Absent \/ accounts[a] \in AccountRow
  BY <1>1, <1>2
<1>4. \A k \in Keys : options[k] = Absent \/
         (/\ options[k] \in OptionRow /\ KeyOf[options[k].account][options[k].model] = k
          /\ accounts[options[k].account] # Absent)
  BY <1>1, <1>2
<1>5. file \in Content
  BY <1>1, SettingsAssumption DEF Content
<1>6. left \in [Kinds -> Nat]
  BY <1>1, CatalogAssumption
<1>7. TypeOK
  BY <1>3, <1>4, <1>5, <1>6 DEF TypeOK, AccountRow, OptionRow, Content
<1>8. \A w \in Workers : jobs[w] = Idle /\ JobShape(jobs[w]) /\ jobs[w].op = "none" /\ jobs[w].step = "done"
  BY <1>1 DEF Idle, JobShape
<1>9. \A w \in Workers : JobOK(w)
  BY <1>8 DEF JobOK, Setters, Writing
<1>10. accounts = [a \in Accounts |-> accounts[a]] /\ given = [a \in Accounts |-> given[a]]
       /\ jobs = [w \in Workers |-> jobs[w]]
  BY <1>1
<1>11. QED
  BY <1>1, <1>7, <1>8, <1>9, <1>10 DEF CatalogOK

\* The rows of accounts and options keep their form, every option belongs to an account, and a
\* request that is under way has lost nothing of what it has loaded.
THEOREM CatalogTyped == Spec => []CatalogOK
<1>1. CatalogOK /\ [Next]_vars => CatalogOK'
  BY CatalogStep
<1>2. QED
  BY <1>1, CatalogInit, PTL DEF Spec

-----------------------------------------------------------------------------
(* Options are enabled by choice.                                          *)

\* An option that is enabled after a step was so before, and belongs to the same account.
WasOn(k) == /\ options[k] # Absent /\ options[k].enabled /\ options'[k].account = options[k].account

\* An option goes on to belong to whom it belongs.
OptionsStay ==
    \A k \in Keys : options[k] # Absent =>
        options'[k].account = options[k].account /\ options'[k].manual = options[k].manual

LEMMA ToldStays ==
  ASSUME CatalogOK, NEW v \in Workers, Told(v), JobSame(jobs[v], jobs'[v]), RowsStay, OptionsStay,
         \A k \in Keys : options'[k] # Absent /\ options'[k].enabled => WasOn(k) \/ k \in jobs'[v].again
  PROVE  Told(v)'
<1>1. JobOK(v)
  BY DEF CatalogOK
<1>2. ASSUME jobs'[v].op = "clear", jobs'[v].step = "commit", jobs'[v].rows # None,
             NEW k \in Keys, options'[k] # Absent, options'[k].account = jobs'[v].account, options'[k].enabled
      PROVE  k \in jobs'[v].rows \/ k \in jobs'[v].again
  BY <1>2 DEF Told, JobSame, WasOn
<1>3. ASSUME jobs'[v].op = "sync", jobs'[v].step = "commit", NEW k \in DOMAIN jobs'[v].rows
      PROVE  /\ options'[k].enabled => jobs'[v].rows[k].enabled \/ k \in jobs'[v].again
             /\ jobs'[v].rows[k].manual = options'[k].manual
  <2>1. /\ jobs[v].op = "sync" /\ jobs[v].step = "commit" /\ k \in DOMAIN jobs[v].rows
        /\ jobs'[v].rows = jobs[v].rows /\ jobs[v].again \subseteq jobs'[v].again
    BY <1>3 DEF JobSame
  <2>2. k \in Keys /\ options[k] # Absent
    BY <1>1, <2>1 DEF JobOK
  <2>3. options'[k] # Absent
    BY <2>2 DEF RowsStay
  <2>4. QED
    BY <1>3, <2>1, <2>2, <2>3 DEF Told, WasOn, OptionsStay
<1>4. ASSUME jobs'[v].op = "clear", jobs'[v].step = "commit", jobs'[v].rows # None, NEW k \in jobs'[v].rows
      PROVE  options'[k].account = jobs'[v].account
  <2>1. k \in Keys /\ options[k] # Absent
    BY <1>1, <1>4 DEF JobOK, JobSame
  <2>2. QED
    BY <1>4, <2>1 DEF Told, JobSame, OptionsStay
<1>5. QED
  BY <1>2, <1>3, <1>4 DEF Told

\* A step of a request that changes no option.
LEMMA InformedRests ==
  ASSUME CatalogOK, Informed, NEW w \in Workers, Alters(w), UNCHANGED <<options, chosen>>, RowsStay,
         Told(w)'
  PROVE  Informed'
<1>1. EnabledByChoice'
  BY DEF Informed, EnabledByChoice
<1>2. OptionsStay /\ \A k \in Keys : options'[k] # Absent /\ options'[k].enabled => WasOn(k)
  BY DEF WasOn, OptionsStay
<1>3. \A v \in Workers : v # w => Told(v)'
  BY <1>2, ToldStays DEF Informed, Alters
<1>4. QED
  BY <1>1, <1>3 DEF Informed

LEMMA ToldOther ==
  ASSUME NEW w \in Workers,
         jobs'[w].op \notin {"clear", "sync"} \/ jobs'[w].step # "commit"
         \/ (jobs'[w].op = "clear" /\ jobs'[w].rows = None)
  PROVE  Told(w)'
BY DEF Told

LEMMA BeginningInformed ==
  ASSUME CatalogOK, Informed, NEW w \in Workers,
         \/ \E a \in Accounts, secret \in Secrets \union {None} : Create(w, a, secret)
         \/ \E a \in Accounts, secret \in Secrets : Rekey(w, a, secret)
         \/ \E a \in Accounts : Clear(w, a) \/ Sync(w, a)
         \/ \E key \in Keys, enabled \in BOOLEAN : Edit(w, key, enabled)
  PROVE  Informed'
<1>1. Alters(w) /\ UNCHANGED <<accounts, options, chosen>>
  BY CreateEffect, RekeyEffect, ClearEffect, SyncEffect, EditEffect DEF catalog
<1>2. jobs'[w].op \notin {"clear", "sync"} \/ jobs'[w].step # "commit"
  BY CreateEffect, RekeyEffect, ClearEffect, SyncEffect, EditEffect DEF Begun
<1>3. RowsStay
  BY <1>1 DEF RowsStay
<1>4. QED
  BY <1>1, <1>2, <1>3, ToldOther, InformedRests

LEMMA WritingInformed ==
  ASSUME CatalogOK, Informed, NEW w \in Workers,
         \/ Load(w) \/ Truncate(w) \/ Put(w) \/ LoadCleared(w)
         \/ \E offer \in Offers : Fetch(w, offer)
  PROVE  Informed'
<1>1. Alters(w) /\ UNCHANGED <<accounts, options, chosen>>
  BY LoadEffect, TruncateEffect, PutEffect, LoadClearedEffect, FetchEffect DEF catalog
<1>2. RowsStay
  BY <1>1 DEF RowsStay
<1>3. Told(w)'
  <2>1. JobOK(w)
    BY DEF CatalogOK
  <2>2. CASE LoadCleared(w)
    BY <1>1, <2>2, LoadClearedEffect DEF Told, Owned, Moves
  <2>3. CASE Truncate(w) \/ Put(w) \/ Load(w)
    <3>1. /\ jobs'[w].op = jobs[w].op /\ jobs[w].op \in Setters
          /\ jobs'[w].rows = jobs[w].rows /\ jobs[w].rows = None
      BY <2>1, <2>3, TruncateEffect, PutEffect, LoadEffect DEF JobOK, Writing, Moves
    <3>2. QED
      BY <3>1, ToldOther DEF Setters
  <2>4. ASSUME NEW offer \in Offers, Fetch(w, offer)
        PROVE  Told(w)'
    <3>1. CASE jobs'[w] = Idle
      BY <3>1, ToldOther DEF Idle
    <3>2. CASE jobs'[w] # Idle
      <4>1. /\ Moves(jobs[w], jobs'[w]) /\ jobs[w].op = "sync"
            /\ jobs'[w].rows = [k \in Owned(jobs[w].account) |-> options[k]]
        BY <2>1, <2>4, <3>2, FetchEffect DEF JobOK
      <4>2. \A k \in DOMAIN jobs'[w].rows : jobs'[w].rows[k] = options'[k]
        BY <1>1, <4>1
      <4>3. QED
        BY <4>1, <4>2 DEF Told, Moves
    <3>3. QED
      BY <3>1, <3>2
  <2>5. QED
    BY <2>2, <2>3, <2>4
<1>4. QED
  BY <1>1, <1>2, <1>3, InformedRests

LEMMA CommitInformed ==
  ASSUME CatalogOK, Informed, NEW w \in Workers, CommitCreate(w) \/ CommitRekey(w)
  PROVE  Informed'
<1>1. Alters(w) /\ UNCHANGED <<options, chosen>>
  BY CommitCreateEffect, CommitRekeyEffect
<1>2. CatalogOK'
  BY CommitCreateOK, CommitRekeyOK
<1>3. \A v \in Workers : v # w => Told(v)'
  BY <1>1 DEF Informed, Told, Alters
<1>4. Told(w)'
  <2>1. jobs'[w].op = "none" \/ jobs'[w].step = "fetch"
    BY CommitCreateEffect, CommitRekeyEffect DEF Idle, Begun
  <2>2. QED
    BY <2>1, ToldOther
<1>5. QED
  BY <1>1, <1>3, <1>4 DEF Informed, EnabledByChoice

\* What withdraws an option, or refreshes it, writes no other column.
LEMMA WithdrawnStay ==
  ASSUME CatalogOK, NEW w \in Workers, CommitClear(w) \/ CommitSync(w)
  PROVE  OptionsStay
<1>1. ASSUME NEW k \in Keys, options[k] # Absent
      PROVE  options'[k].account = options[k].account /\ options'[k].manual = options[k].manual
  <2>1. options[k] \in OptionRow
    BY <1>1 DEF CatalogOK, TypeOK, OptionRow
  <2>2. CASE CommitClear(w)
    <3>1. options'[k] = options[k] \/ options'[k] = [options[k] EXCEPT !.enabled = FALSE]
      BY <2>2, CommitClearEffect
    <3>2. QED
      BY <2>1, <3>1 DEF OptionRow
  <2>3. CASE CommitSync(w)
    <3>1. options'[k] = options[k] \/ options'[k] = FromOffer(jobs[w], k)
      BY <1>1, <2>3, CommitSyncEffect DEF Refreshed
    <3>2. QED
      BY <2>1, <3>1 DEF FromOffer, OptionRow
  <2>4. QED
    BY <2>2, <2>3
<1>2. QED
  BY <1>1 DEF OptionsStay

\* What has withdrawn options knows them all: those that stay enabled were enabled meanwhile.
LEMMA WithdrawnInformed ==
  ASSUME CatalogOK, Informed, NEW w \in Workers, CommitClear(w) \/ CommitSync(w)
  PROVE  Informed'
<1>1. Alters(w) /\ jobs'[w] = Idle /\ RowsStay /\ Told(w)
  BY CommitClearEffect, CommitClearOK, CommitSyncEffect, CommitSyncOK DEF Informed
<1>2. ASSUME NEW k \in Keys, options'[k] # Absent, options'[k].enabled
      PROVE  WasOn(k)
  <2>1. CASE CommitClear(w)
    <3>1. k \notin jobs[w].rows
      <4>1. SUFFICES ASSUME k \in jobs[w].rows PROVE FALSE
        OBVIOUS
      <4>2. options[k] # Absent /\ options'[k] = [options[k] EXCEPT !.enabled = FALSE]
        BY <2>1, <4>1, CommitClearEffect
      <4>3. ~options'[k].enabled
        BY <4>2, Switched
      <4>4. QED
        BY <1>2, <4>3
    <3>2. options'[k] = options[k]
      BY <2>1, <3>1, CommitClearEffect
    <3>3. QED
      BY <1>2, <3>2 DEF WasOn
  <2>2. CASE CommitSync(w)
    BY <1>2, <2>2, SyncedRows DEF WasOn
  <2>3. QED
    BY <2>1, <2>2
<1>3. \A v \in Workers : v # w => Told(v)'
  BY <1>1, <1>2, WithdrawnStay, ToldStays DEF Informed, Alters
<1>4. ASSUME NEW k \in Keys, options'[k] # Absent, options'[k].enabled
      PROVE  k \in chosen'
  <2>1. k \in chosen /\ options[k] # Absent /\ options[k].enabled
    BY <1>2, <1>4 DEF Informed, EnabledByChoice, WasOn
  <2>2. CASE CommitClear(w)
    <3>1. /\ jobs[w].op = "clear" /\ jobs[w].step = "commit" /\ jobs[w].rows # None
          /\ chosen' = chosen \ (Owned(jobs[w].account) \ jobs[w].again)
      BY <2>2, CommitClearEffect
    <3>2. k \notin jobs[w].rows
      <4>1. SUFFICES ASSUME k \in jobs[w].rows PROVE FALSE
        OBVIOUS
      <4>2. options[k] # Absent /\ options'[k] = [options[k] EXCEPT !.enabled = FALSE]
        BY <2>2, <4>1, CommitClearEffect
      <4>3. ~options'[k].enabled
        BY <4>2, Switched
      <4>4. QED
        BY <1>4, <4>3
    <3>3. k \in Owned(jobs[w].account) => k \in jobs[w].again
      BY <1>1, <2>1, <3>1, <3>2 DEF Told, Owned
    <3>4. QED
      BY <2>1, <3>1, <3>3
  <2>3. CASE CommitSync(w) /\ ~UNCHANGED <<options, chosen>>
    <3> DEFINE withdrawn == {x \in DOMAIN jobs[w].rows :
                   Fetchable(jobs[w].rows[x]) /\ Supported(jobs[w], jobs[w].rows[x].model) = {}}
    <3>1. /\ jobs[w].op = "sync" /\ jobs[w].step = "commit"
          /\ chosen' = chosen \ (withdrawn \ jobs[w].again)
      BY <2>3, CommitSyncEffect
    <3>2. ASSUME k \in withdrawn
          PROVE  k \in jobs[w].again
      <4>1. options'[k] = Refreshed(jobs[w], k)
        BY <2>3, <3>2, CommitSyncEffect
      <4>2. ~jobs[w].rows[k].enabled
        BY <1>4, <3>1, <3>2, <4>1, RefreshedRow
      <4>3. QED
        BY <1>1, <2>1, <3>1, <3>2, <4>2 DEF Told
    <3> HIDE DEF withdrawn
    <3>3. QED
      BY <2>1, <3>1, <3>2
  <2>4. QED
    BY <2>1, <2>2, <2>3
<1>5. Told(w)'
  BY <1>1, ToldOther DEF Idle
<1>6. QED
  BY <1>3, <1>4, <1>5 DEF Informed, EnabledByChoice

\* A switch writes one column of one option.
LEMMA EditRows ==
  ASSUME CatalogOK, NEW w \in Workers, CommitEdit(w)
  PROVE  /\ \A k \in Keys : \/ options'[k] = options[k]
                            \/ /\ k = jobs[w].ref
                               /\ options'[k] = [options[k] EXCEPT !.enabled = jobs[w].op = "on"]
         /\ jobs[w].op # "on" /\ jobs[w].row => options'[jobs[w].ref].enabled = FALSE
         /\ OptionsStay
<1> DEFINE key == jobs[w].ref
           row == [options[key] EXCEPT !.enabled = jobs[w].op = "on"]
<1>1. /\ options' = IF jobs[w].row = (jobs[w].op = "on") THEN options
                    ELSE [options EXCEPT ![key].enabled = jobs[w].op = "on"]
      /\ key \in Keys /\ options[key] # Absent /\ options = [k \in Keys |-> options[k]]
  BY CommitEditEffect DEF CatalogOK, JobOK
<1>2. options[key] \in OptionRow
  BY <1>1 DEF CatalogOK, TypeOK, OptionRow
<1>3. /\ row.account = options[key].account /\ row.manual = options[key].manual
      /\ jobs[w].op # "on" => row.enabled = FALSE
  BY <1>2 DEF OptionRow
<1>4. /\ options' = options \/ options' = [options EXCEPT ![key] = row]
      /\ jobs[w].op # "on" /\ jobs[w].row => options' = [options EXCEPT ![key] = row]
  BY <1>1
<1> HIDE DEF row
<1>5. /\ \A k \in Keys : options'[k] = options[k] \/ (k = key /\ options'[k] = row)
      /\ jobs[w].op # "on" /\ jobs[w].row => options'[key] = row
  BY <1>1, <1>4
<1>6. QED
  BY <1>3, <1>5 DEF OptionsStay, row

LEMMA EditInformed ==
  ASSUME CatalogOK, Informed, NEW w \in Workers, CommitEdit(w)
  PROVE  Informed'
<1>1. RowsStay /\ \A k \in Keys : \/ options'[k] = options[k]
                            \/ /\ k = jobs[w].ref /\ options[k] # Absent /\ options'[k] # Absent
                               /\ options'[k].account = options[k].account
                               /\ options'[k].enabled = (jobs[w].op = "on")
  BY CommitEditOK
<1>2. /\ jobs'[w] = Idle /\ \A v \in Workers : v # w => JobSame(jobs[v], jobs'[v])
      /\ jobs[w].op = "on" => \A v \in Workers : v # w /\ jobs[v] # Idle => jobs[w].ref \in jobs'[v].again
      /\ chosen' = IF jobs[w].op = "on" THEN chosen \union {jobs[w].ref}
                   ELSE IF jobs[w].row THEN chosen \ {jobs[w].ref} ELSE chosen
  BY CommitEditEffect
<1>3. EnabledByChoice'
  BY <1>1, <1>2, EditRows DEF Informed, EnabledByChoice
<1>4. ASSUME NEW v \in Workers, v # w
      PROVE  Told(v)'
  <2>1. CASE jobs[v] = Idle
    <3>1. jobs'[v].op = "none"
      BY <1>2, <1>4, <2>1 DEF JobSame, Idle
    <3>2. QED
      BY <3>1, ToldOther
  <2>2. CASE jobs[v] # Idle
    <3>1. ASSUME NEW k \in Keys, options'[k] # Absent, options'[k].enabled
          PROVE  WasOn(k) \/ k \in jobs'[v].again
      BY <1>1, <1>2, <1>4, <2>2, <3>1 DEF WasOn
    <3>2. QED
      BY <1>1, <1>2, <1>4, <3>1, EditRows, ToldStays DEF Informed
  <2>3. QED
    BY <2>1, <2>2
<1>5. Told(w)'
  BY <1>2, ToldOther DEF Idle
<1>6. QED
  BY <1>3, <1>4, <1>5 DEF Informed

LEMMA AddInformed ==
  ASSUME CatalogOK, Informed, NEW a \in Accounts, NEW m \in Models, NEW enabled \in BOOLEAN,
         NEW supports \in ManualSupports, AddManual(a, m, enabled, supports)
  PROVE  Informed'
<1> DEFINE key == KeyOf[a][m]
<1>1. /\ RowsStay /\ options'[key].enabled = enabled /\ options[key] = Absent
      /\ \A k \in Keys : k # key => options'[k] = options[k]
      /\ \A v \in Workers : JobSame(jobs[v], jobs'[v]) /\ (jobs[v] # Idle => key \in jobs'[v].again)
  BY AddManualOK
<1>2. chosen' = IF enabled THEN chosen \union {key} ELSE chosen \ {key}
  BY DEF AddManual
<1> HIDE DEF key
<1>3. EnabledByChoice'
  BY <1>1, <1>2 DEF Informed, EnabledByChoice
<1>4. ASSUME NEW v \in Workers
      PROVE  Told(v)'
  <2>1. CASE jobs[v] = Idle
    <3>1. jobs'[v].op = "none"
      BY <1>1, <2>1 DEF JobSame, Idle
    <3>2. QED
      BY <3>1, ToldOther
  <2>2. CASE jobs[v] # Idle
    <3>1. ASSUME NEW k \in Keys, options'[k] # Absent, options'[k].enabled
          PROVE  WasOn(k) \/ k \in jobs'[v].again
      BY <1>1, <2>2, <3>1 DEF WasOn
    <3>2. QED
      <4>1. OptionsStay
        BY <1>1 DEF OptionsStay
      <4>2. QED
        BY <1>1, <3>1, <4>1, ToldStays DEF Informed
  <2>3. QED
    BY <2>1, <2>2
<1>5. QED
  BY <1>3, <1>4 DEF Informed

\* Steps that touch neither options nor the jobs of requests.
LEMMA OptionsRest ==
  ASSUME Informed, UNCHANGED <<options, chosen, jobs>>
  PROVE  Informed'
BY DEF Informed, EnabledByChoice, Told

LEMMA InformedStep ==
  ASSUME CatalogOK, Informed, [Next]_vars
  PROVE  Informed'
<1>1. ASSUME NEW w \in Workers, Serve(w)
      PROVE  Informed'
  BY <1>1, BeginningInformed, WritingInformed, CommitInformed, WithdrawnInformed, EditInformed DEF Serve
<1>2. CASE Crash
  <2>1. \A v \in Workers : Told(v)'
    BY <1>2, CrashEffect, ToldOther DEF Idle
  <2>2. EnabledByChoice'
    BY <1>2, CrashEffect DEF Informed, EnabledByChoice
  <2>3. QED
    BY <2>1, <2>2 DEF Informed
<1>3. ASSUME NEW a \in Accounts, NEW enabled \in BOOLEAN, Enable(a, enabled)
      PROVE  Informed'
  BY <1>3, OptionsRest DEF Enable
<1>4. CASE Updating \/ UNCHANGED vars
  BY <1>4, UpdatingRests, OptionsRest DEF catalog
<1>5. QED
  BY <1>1, <1>2, <1>3, <1>4, AddInformed DEF Next, CatalogNext

LEMMA InformedInit ==
  ASSUME Init
  PROVE  Informed
<1>1. jobs = [w \in Workers |-> Idle] /\ \A k \in Keys : options[k] # Absent => k \in chosen
  BY InitThere
<1>2. \A w \in Workers : jobs[w].op = "none"
  BY <1>1 DEF Idle
<1>3. QED
  BY <1>1, <1>2 DEF Informed, EnabledByChoice, Told

\* An option entered by hand changes by a switch or a clearing only.
LEMMA ManualStep ==
  ASSUME CatalogOK, Informed, [Next]_vars
  PROVE  [ManualIsTheUsers]_options
<1>1. CASE UNCHANGED options
  BY <1>1
<1>2. ASSUME NEW w \in Workers, CommitClear(w)
      PROVE  ManualIsTheUsers
  <2>1. /\ jobs[w].op = "clear" /\ jobs[w].step = "commit" /\ jobs'[w] = Idle
        /\ \A k \in Keys : k \in jobs[w].rows \/ options'[k] = options[k]
        /\ \A k \in Keys \intersect jobs[w].rows :
              /\ options'[k] = [options[k] EXCEPT !.enabled = FALSE]
              /\ options[k].account = jobs[w].account
    BY <1>2, CommitClearEffect DEF Informed, Told
  <2>2. (jobs[w].op = "on") = FALSE
    BY <2>1
  <2>3. QED
    BY <2>1, <2>2 DEF ManualIsTheUsers, SwitchedBy
<1>3. ASSUME NEW w \in Workers, CommitEdit(w)
      PROVE  ManualIsTheUsers
  <2>1. /\ jobs[w].op \in {"on", "off"} /\ jobs'[w] = Idle /\ jobs[w].step = "commit"
    BY <1>3, CommitEditEffect DEF CommitEdit
  <2>2. QED
    BY <1>3, <2>1, EditRows DEF ManualIsTheUsers, SwitchedBy
<1>4. ASSUME NEW w \in Workers, CommitSync(w)
      PROVE  ManualIsTheUsers
  <2>1. ASSUME NEW k \in Keys, options[k] # Absent, options[k].manual
        PROVE  options'[k] = options[k]
    <3>1. jobs[w].op = "sync" /\ jobs[w].step = "commit"
      BY <1>4, CommitSyncEffect
    <3>2. k \in DOMAIN jobs[w].rows => ~Fetchable(jobs[w].rows[k])
      BY <2>1, <3>1 DEF Informed, Told, Fetchable
    <3>3. QED
      BY <1>4, <2>1, <3>2, CommitSyncEffect DEF Refreshed
  <2>2. QED
    BY <2>1 DEF ManualIsTheUsers
<1>5. ASSUME NEW a \in Accounts, NEW m \in Models, NEW enabled \in BOOLEAN, NEW supports \in ManualSupports,
             AddManual(a, m, enabled, supports)
      PROVE  ManualIsTheUsers
  BY <1>5, AddManualOK DEF ManualIsTheUsers
<1>6. ASSUME NEW w \in Workers, Serve(w), ~CommitClear(w), ~CommitEdit(w), ~CommitSync(w)
      PROVE  UNCHANGED options
  BY <1>6, CreateEffect, RekeyEffect, ClearEffect, SyncEffect, EditEffect, LoadEffect, TruncateEffect, PutEffect,
     LoadClearedEffect, FetchEffect, CommitCreateEffect, CommitRekeyEffect DEF Serve, catalog
<1>7. CASE Crash \/ Updating \/ \E a \in Accounts, enabled \in BOOLEAN : Enable(a, enabled)
  BY <1>1, <1>7, UpdatingRests DEF Crash, Enable, catalog
<1>8. QED
  BY <1>1, <1>2, <1>3, <1>4, <1>5, <1>6, <1>7 DEF Next, CatalogNext, vars

\* However syncs, switches, clearings and additions of models overlap, and however often the
\* process is replaced: an option that is enabled was enabled by a user and not switched off or
\* withdrawn since, and no sync touches an option entered by hand.
THEOREM OptionsEnabledByChoice == Spec => OptionsAreTheUsers
<1>1. CatalogOK /\ Informed /\ [Next]_vars => CatalogOK' /\ Informed' /\ [ManualIsTheUsers]_options
  BY CatalogStep, InformedStep, ManualStep
<1>2. Informed => EnabledByChoice
  BY DEF Informed
<1>3. QED
  BY <1>1, <1>2, CatalogInit, InformedInit, PTL DEF Spec, OptionsAreTheUsers

-----------------------------------------------------------------------------
(* The file of secrets and the rows that refer to it.                      *)

\* What a request holds as one that sets a secret.
SetterSame(v) ==
    /\ Sets(v)' <=> Sets(v)
    /\ jobs'[v].step = "put" <=> jobs[v].step = "put"
    /\ Sets(v) => /\ jobs'[v].op = jobs[v].op /\ jobs'[v].account = jobs[v].account
                  /\ jobs'[v].row = jobs[v].row /\ jobs'[v].secret = jobs[v].secret
                  /\ jobs'[v].ref = jobs[v].ref
                  /\ jobs'[v].step = jobs[v].step /\ jobs'[v].copy = jobs[v].copy

LEMMA JobSameSetter ==
  ASSUME NEW v \in Workers, JobSame(jobs[v], jobs'[v])
  PROVE  SetterSame(v)
BY DEF JobSame, SetterSame, Sets

\* A request that is none of those, before and after.
LEMMA NoSetter ==
  ASSUME CatalogOK, NEW w \in Workers, ~Sets(w), jobs'[w].op \notin Setters, jobs'[w].step # "put"
  PROVE  SetterSame(w)
<1>1. jobs[w].step # "put"
  BY DEF CatalogOK, JobOK, Sets, Writing
<1>2. QED
  BY <1>1 DEF SetterSame, Sets

\* What the file holds stands if it stands as the value that it is.
LEMMA KeptNext ==
  ASSUME file' # Torn => \E c : c = file' /\ Stands(c)',
         \A w \in Workers : jobs'[w].step = "put" => \E c : c = jobs'[w].copy /\ Stands(c)'
  PROVE  Kept'
<1>1. ASSUME file' # Torn PROVE Stands(file)'
  <2>1. PICK c : c = file' /\ Stands(c)'
    BY <1>1
  <2>2. QED
    BY <2>1 DEF Stands
<1>2. ASSUME NEW w \in Workers, jobs'[w].step = "put"
      PROVE  Stands(jobs[w].copy)'
  <2>1. PICK c : c = jobs'[w].copy /\ Stands(c)'
    BY <1>2
  <2>2. QED
    BY <2>1 DEF Stands
<1>3. QED
  BY <1>1, <1>2 DEF Kept

\* Neither a reference nor the file has changed.
LEMMA FileRests ==
  ASSUME CatalogOK, FileInv, \A v \in Workers : SetterSame(v),
         \A a \in Accounts : /\ accounts'[a] # Absent <=> accounts[a] # Absent
                             /\ accounts[a] # Absent => accounts'[a].ref = accounts[a].ref,
         UNCHANGED <<file, given, spoiled, crossed>>
  PROVE  FileInv'
<1>0. \A w \in Workers : /\ Sets(w) => jobs[w].account \in Accounts
                         /\ jobs[w].op \in {"rekey", "clear"} => accounts[jobs[w].account] # Absent
                         /\ jobs[w].step = "put" => Sets(w)
  BY DEF CatalogOK, JobOK, Sets, Setters, Writing
<1>1. Alone'
  BY DEF FileInv, Alone, SetterSame
<1>2. OneHolder'
  <2>1. \A b \in Accounts, r \in Refs : Holds(b, r)' => Holds(b, r)
    BY DEF Holds, SetterSame
  <2>2. QED
    BY <2>1 DEF FileInv, OneHolder
<1>3. Loaded'
  BY <1>0 DEF FileInv, Loaded, SetterSame, Sets, Setters
<1>4. ASSUME ~spoiled' PROVE OneWriter'
  BY <1>0, <1>4 DEF FileInv, OneWriter, SetterSame
<1>5. ASSUME ~spoiled' PROVE Kept'
  <2>1. ASSUME NEW content, Stands(content)
        PROVE  Stands(content)'
    <3>1. ASSUME NEW a \in Accounts, accounts'[a] # Absent, a \notin crossed',
                 \A w \in Workers : jobs'[w].account = a /\ Sets(w)' => jobs'[w].step # "commit"
          PROVE  given'[a] = IF accounts'[a].ref = None THEN None ELSE content[accounts'[a].ref]
      <4>1. \A w \in Workers : jobs[w].account = a /\ Sets(w) => jobs[w].step # "commit"
        BY <3>1 DEF SetterSame
      <4>2. QED
        BY <2>1, <3>1, <4>1 DEF Stands
    <3>2. ASSUME NEW w \in Workers, jobs'[w].op \in {"create", "rekey"}, jobs'[w].step = "commit",
                 jobs'[w].account \notin crossed'
          PROVE  jobs'[w].secret = IF jobs'[w].ref = None THEN None ELSE content[jobs'[w].ref]
      BY <2>1, <3>2 DEF Stands, SetterSame, Sets, Setters
    <3>3. QED
      BY <3>1, <3>2 DEF Stands
  <2>2. Kept
    BY <1>5 DEF FileInv
  <2>3. ASSUME NEW w \in Workers, jobs'[w].step = "put"
        PROVE  \E c : c = jobs'[w].copy /\ Stands(c)'
    <3>1. jobs[w].step = "put" /\ jobs'[w].copy = jobs[w].copy
      BY <1>0, <2>3 DEF SetterSame
    <3>2. PICK c : c = jobs[w].copy
      OBVIOUS
    <3>3. Stands(c)
      BY <2>2, <3>1, <3>2 DEF Kept
    <3>4. Stands(c)'
      BY <2>1, <3>3
    <3>5. QED
      BY <3>1, <3>2, <3>4
  <2>4. ASSUME file' # Torn
        PROVE  \E c : c = file' /\ Stands(c)'
    <3>1. PICK c : c = file
      OBVIOUS
    <3>2. Stands(c)
      BY <2>2, <2>4, <3>1 DEF Kept
    <3>3. QED
      BY <2>1, <3>1, <3>2
  <2>5. QED
    BY <2>3, <2>4, KeptNext
<1>6. QED
  BY <1>1, <1>2, <1>3, <1>4, <1>5 DEF FileInv

\* A request begins to set a secret, under a reference that is new or that of its account.
LEMMA BeginFile ==
  ASSUME CatalogOK, FileInv, NEW w \in Workers, Alters(w), ~Sets(w),
         NEW op \in Setters, NEW step \in {"load", "commit"}, NEW a \in Accounts, NEW row, NEW secret,
         NEW r \in Refs \union {None}, Begun(jobs'[w], op, step, a, row, secret, r),
         UNCHANGED <<accounts, file, given, spoiled>>, crossed \subseteq crossed',
         \A v \in Workers : v # w /\ Sets(v) /\ jobs[v].account = a => a \in crossed',
         r \in Fresh \/ r = None \/ (accounts[a] # Absent /\ accounts[a].ref = r),
         op \in {"rekey", "clear"} => row.ref = accounts[a].ref,
         step = "commit" => accounts[a] = Absent /\ r = None /\ secret = None
  PROVE  FileInv'
<1>0. /\ jobs'[w].op = op /\ jobs'[w].step = step /\ jobs'[w].account = a /\ jobs'[w].row = row
      /\ jobs'[w].secret = secret /\ jobs'[w].ref = r
      /\ \A v \in Workers : v # w => jobs'[v] = jobs[v]
      /\ jobs[w].step # "put" /\ Sets(w)'
      /\ None \notin Refs
  BY CatalogAssumption DEF Begun, Alters, CatalogOK, JobOK, Sets, Writing
<1>1. Alone'
  BY <1>0 DEF FileInv, Alone, Sets
<1>2. OneHolder'
  <2>1. ASSUME NEW b \in Accounts, NEW q \in Refs, Holds(b, q)'
        PROVE  Holds(b, q) \/ (b = a /\ q = r /\ r \in Fresh)
    BY <1>0, <2>1 DEF Holds, Sets
  <2>2. r \in Fresh => \A b \in Accounts : ~Holds(b, r)
    BY DEF Fresh, Holds
  <2>3. QED
    BY <2>1, <2>2 DEF FileInv, OneHolder
<1>3. Loaded'
  BY <1>0 DEF FileInv, Loaded
<1>4. ASSUME ~spoiled' PROVE OneWriter'
  BY <1>0, <1>4 DEF FileInv, OneWriter
<1>5. ASSUME NEW c, Stands(c)
      PROVE  Stands(c)'
  <2>1. ASSUME NEW b \in Accounts, accounts'[b] # Absent, b \notin crossed',
               \A v \in Workers : jobs'[v].account = b /\ Sets(v)' => jobs'[v].step # "commit"
        PROVE  given'[b] = IF accounts'[b].ref = None THEN None ELSE c[accounts'[b].ref]
    <3>1. \A v \in Workers : jobs[v].account = b /\ Sets(v) => jobs[v].step # "commit"
      BY <1>0, <2>1 DEF Sets
    <3>2. QED
      BY <1>5, <2>1, <3>1 DEF Stands
  <2>2. ASSUME NEW v \in Workers, jobs'[v].op \in {"create", "rekey"}, jobs'[v].step = "commit",
               jobs'[v].account \notin crossed'
        PROVE  jobs'[v].secret = IF jobs'[v].ref = None THEN None ELSE c[jobs'[v].ref]
    BY <1>0, <1>5, <2>2 DEF Stands
  <2>3. QED
    BY <2>1, <2>2 DEF Stands
<1>6. ASSUME ~spoiled' PROVE Kept'
  <2>1. Kept
    BY <1>6 DEF FileInv
  <2>2. ASSUME file' # Torn PROVE \E c : c = file' /\ Stands(c)'
    <3>1. PICK c : c = file
      OBVIOUS
    <3>2. QED
      BY <1>5, <2>1, <2>2, <3>1 DEF Kept
  <2>3. ASSUME NEW v \in Workers, jobs'[v].step = "put"
        PROVE  \E c : c = jobs'[v].copy /\ Stands(c)'
    <3>1. v # w /\ jobs[v].step = "put" /\ jobs'[v].copy = jobs[v].copy
      BY <1>0, <2>3
    <3>2. PICK c : c = jobs[v].copy
      OBVIOUS
    <3>3. QED
      BY <1>5, <2>1, <3>1, <3>2 DEF Kept
  <2>4. QED
    BY <2>2, <2>3, KeptNext
<1>7. QED
  BY <1>1, <1>2, <1>3, <1>4, <1>6 DEF FileInv

\* A request that goes on holds what it held.
LEMMA MovesHold ==
  ASSUME CatalogOK, FileInv, NEW w \in Workers, Alters(w), Moves(jobs[w], jobs'[w]),
         UNCHANGED <<accounts, crossed>>
  PROVE  Alone' /\ OneHolder' /\ Loaded'
<1>1. \A v \in Workers : /\ jobs'[v].op = jobs[v].op /\ jobs'[v].account = jobs[v].account
                         /\ jobs'[v].row = jobs[v].row /\ jobs'[v].ref = jobs[v].ref
  BY DEF Alters, Moves
<1>2. \A v \in Workers : Sets(v)' <=> Sets(v)
  BY <1>1 DEF Sets
<1>3. \A b \in Accounts, r \in Refs : Holds(b, r)' => Holds(b, r)
  BY <1>1, <1>2 DEF Holds
<1>4. QED
  BY <1>1, <1>2, <1>3 DEF FileInv, Alone, OneHolder, Loaded

LEMMA MovesStand ==
  ASSUME CatalogOK, NEW w \in Workers, Alters(w), Moves(jobs[w], jobs'[w]),
         jobs[w].step # "commit", jobs'[w].step # "commit" \/ jobs[w].op = "clear",
         UNCHANGED <<accounts, given, crossed>>, NEW c, Stands(c)
  PROVE  Stands(c)'
<1>1. \A v \in Workers : /\ jobs'[v].op = jobs[v].op /\ jobs'[v].account = jobs[v].account
                         /\ jobs'[v].secret = jobs[v].secret /\ jobs'[v].ref = jobs[v].ref
                         /\ v # w => jobs'[v].step = jobs[v].step
  BY DEF Alters, Moves
<1>2. \A v \in Workers : Sets(v)' <=> Sets(v)
  BY <1>1 DEF Sets
<1>3. ASSUME NEW b \in Accounts, accounts'[b] # Absent, b \notin crossed',
             \A v \in Workers : jobs'[v].account = b /\ Sets(v)' => jobs'[v].step # "commit"
      PROVE  given'[b] = IF accounts'[b].ref = None THEN None ELSE c[accounts'[b].ref]
  <2>1. \A v \in Workers : jobs[v].account = b /\ Sets(v) => jobs[v].step # "commit"
    BY <1>1, <1>2, <1>3
  <2>2. QED
    BY <1>3, <2>1 DEF Stands
<1>4. ASSUME NEW v \in Workers, jobs'[v].op \in {"create", "rekey"}, jobs'[v].step = "commit",
             jobs'[v].account \notin crossed'
      PROVE  jobs'[v].secret = IF jobs'[v].ref = None THEN None ELSE c[jobs'[v].ref]
  BY <1>1, <1>4 DEF Stands
<1>5. QED
  BY <1>3, <1>4 DEF Stands

LEMMA LoadFile ==
  ASSUME CatalogOK, FileInv, NEW w \in Workers, Load(w)
  PROVE  FileInv'
<1>1. /\ Alters(w) /\ Moves(jobs[w], jobs'[w]) /\ jobs[w].step = "load"
      /\ jobs'[w].step = "save" \/ (jobs'[w].step = "commit" /\ jobs[w].op = "clear")
      /\ spoiled' = (spoiled \/ file = Torn) /\ UNCHANGED <<accounts, file, given, crossed>>
  BY LoadEffect
<1>2. \A v \in Workers : v # w => jobs'[v] = jobs[v]
  BY <1>1 DEF Alters
<1>3. ASSUME ~spoiled' PROVE OneWriter'
  BY <1>1, <1>2, <1>3 DEF FileInv, OneWriter
<1>4. ASSUME ~spoiled' PROVE Kept'
  <2>1. Kept /\ file # Torn /\ OneWriter
    BY <1>1, <1>4 DEF FileInv
  <2>2. PICK c : c = file
    OBVIOUS
  <2>3. Stands(c)'
    BY <1>1, <2>1, <2>2, MovesStand DEF Kept
  <2>4. \A v \in Workers : jobs'[v].step # "put"
    BY <1>1, <1>2, <2>1 DEF OneWriter
  <2>5. QED
    BY <1>1, <2>2, <2>3, <2>4, KeptNext
<1>5. QED
  BY <1>1, <1>3, <1>4, MovesHold DEF FileInv

LEMMA TruncateFile ==
  ASSUME CatalogOK, FileInv, NEW w \in Workers, Truncate(w)
  PROVE  FileInv'
<1>1. /\ Alters(w) /\ Moves(jobs[w], jobs'[w]) /\ jobs[w].step = "save" /\ jobs'[w].step = "put"
      /\ jobs'[w].copy = jobs[w].copy /\ file' = Torn
      /\ spoiled' = (spoiled \/ file # jobs[w].copy) /\ UNCHANGED <<accounts, given, crossed>>
  BY TruncateEffect
<1>2. \A v \in Workers : v # w => jobs'[v] = jobs[v]
  BY <1>1 DEF Alters
<1>3. jobs[w].copy \in Content
  BY <1>1 DEF CatalogOK, JobOK
<1>4. jobs[w].copy # Torn
  BY <1>3, CatalogAssumption DEF Content
<1>5. ASSUME ~spoiled' PROVE OneWriter' /\ Kept'
  <2>1. Kept /\ file = jobs[w].copy /\ OneWriter
    BY <1>1, <1>5 DEF FileInv
  <2>2. \A v \in Workers : jobs[v].step # "put"
    BY <1>4, <2>1 DEF OneWriter
  <2>3. PICK c : c = file
    OBVIOUS
  <2>4. Stands(c)'
    BY <1>1, <1>4, <2>1, <2>3, MovesStand DEF Kept
  <2>5. Kept'
    BY <1>1, <1>2, <2>1, <2>2, <2>3, <2>4, KeptNext
  <2>6. QED
    BY <1>1, <1>2, <2>2, <2>5 DEF OneWriter
<1>6. QED
  BY <1>1, <1>5, MovesHold DEF FileInv

\* The new content of the file stands with the request that has put it there.
LEMMA PutStands ==
  ASSUME CatalogOK, Alone, OneHolder, NEW w \in Workers, Put(w), Stands(jobs[w].copy),
         NEW c, c = Changed(jobs[w])
  PROVE  Stands(c)'
<1>1. /\ Alters(w) /\ Moves(jobs[w], jobs'[w]) /\ jobs[w].step = "put" /\ jobs'[w].step = "commit"
      /\ UNCHANGED <<accounts, given, crossed>>
  BY PutEffect
<1>2. \A v \in Workers : /\ jobs'[v].op = jobs[v].op /\ jobs'[v].account = jobs[v].account
                         /\ jobs'[v].secret = jobs[v].secret /\ jobs'[v].ref = jobs[v].ref
                         /\ v # w => jobs'[v].step = jobs[v].step
  BY <1>1 DEF Alters, Moves
<1>3. \A v \in Workers : Sets(v)' <=> Sets(v)
  BY <1>2 DEF Sets
<1> DEFINE copy == jobs[w].copy
           ref == jobs[w].ref
           own == jobs[w].account
<1>4. ref \in Refs /\ copy \in Content /\ Sets(w) /\ own \in Accounts
  BY <1>1 DEF CatalogOK, JobOK, Sets, Writing
<1>5. /\ jobs[w].op # "clear" => c[ref] = jobs[w].secret
      /\ \A r \in Refs : r # ref => c[r] = copy[r]
  BY <1>4 DEF Changed, Content
<1>6. /\ \A a \in Accounts : accounts[a] = Absent \/ accounts[a].ref \in Refs \union {None}
      /\ \A v \in Workers : Sets(v) => jobs[v].ref \in Refs \union {None} /\ jobs[v].account \in Accounts
  BY DEF CatalogOK, TypeOK, JobOK, Sets, Setters
<1>7. Holds(own, ref)
  BY <1>4 DEF Holds
<1>8. ASSUME NEW b \in Accounts, accounts'[b] # Absent, b \notin crossed',
             \A v \in Workers : jobs'[v].account = b /\ Sets(v)' => jobs'[v].step # "commit"
      PROVE  given'[b] = IF accounts'[b].ref = None THEN None ELSE c[accounts'[b].ref]
  <2>1. b # own
    BY <1>1, <1>2, <1>3, <1>4, <1>8
  <2>2. accounts[b].ref # ref
    BY <1>1, <1>4, <1>7, <1>8, <2>1 DEF Holds, OneHolder
  <2>3. \A v \in Workers : jobs[v].account = b /\ Sets(v) => jobs[v].step # "commit"
    BY <1>1, <1>2, <1>3, <1>8
  <2>4. given[b] = IF accounts[b].ref = None THEN None ELSE copy[accounts[b].ref]
    BY <1>1, <1>8, <2>3 DEF Stands
  <2>5. QED
    BY <1>1, <1>5, <1>6, <1>8, <2>2, <2>4
<1>9. ASSUME NEW v \in Workers, jobs'[v].op \in {"create", "rekey"}, jobs'[v].step = "commit",
             jobs'[v].account \notin crossed'
      PROVE  jobs'[v].secret = IF jobs'[v].ref = None THEN None ELSE c[jobs'[v].ref]
  <2>1. CASE v = w
    BY <1>2, <1>4, <1>5, <1>9, <2>1, CatalogAssumption
  <2>2. CASE v # w
    <3>1. Sets(v) /\ jobs[v].account \in Accounts /\ jobs[v].account \notin crossed
      BY <1>1, <1>2, <1>6, <1>9 DEF Sets, Setters
    <3>2. jobs[v].account # own
      BY <1>4, <2>2, <3>1 DEF Alone
    <3>3. jobs[v].ref # ref
      BY <1>4, <1>7, <3>1, <3>2 DEF Holds, OneHolder
    <3>4. jobs[v].secret = IF jobs[v].ref = None THEN None ELSE copy[jobs[v].ref]
      BY <1>2, <1>9, <2>2, <3>1 DEF Stands
    <3>5. QED
      BY <1>2, <1>5, <1>6, <3>1, <3>3, <3>4
  <2>3. QED
    BY <2>1, <2>2
<1>10. QED
  BY <1>8, <1>9 DEF Stands

LEMMA PutFile ==
  ASSUME CatalogOK, FileInv, NEW w \in Workers, Put(w)
  PROVE  FileInv'
<1>1. /\ Alters(w) /\ Moves(jobs[w], jobs'[w]) /\ jobs[w].step = "put" /\ jobs'[w].step = "commit"
      /\ spoiled' = (spoiled \/ file # Torn)
      /\ file' = Changed(jobs[w]) \/ (file # Torn /\ file' = Torn)
      /\ UNCHANGED <<accounts, given, crossed>>
  BY PutEffect
<1>2. \A v \in Workers : v # w => jobs'[v] = jobs[v]
  BY <1>1 DEF Alters
<1>3. Changed(jobs[w]) # Torn
  <2>1. Changed(jobs[w]) \in Content
    BY <1>1 DEF CatalogOK, JobOK, Changed, Content, Setters, Writing
  <2>2. QED
    BY <2>1, CatalogAssumption DEF Content
<1>4. ASSUME ~spoiled' PROVE OneWriter' /\ Kept'
  <2>1. Kept /\ file = Torn /\ OneWriter /\ file' = Changed(jobs[w])
    BY <1>1, <1>4 DEF FileInv
  <2>2. \A v \in Workers : jobs'[v].step # "put"
    BY <1>1, <1>2, <2>1 DEF OneWriter
  <2>3. PICK c : c = Changed(jobs[w])
    OBVIOUS
  <2>4. Stands(c)'
    BY <1>1, <2>1, <2>3, PutStands DEF Kept, FileInv
  <2>5. Kept'
    BY <2>1, <2>2, <2>3, <2>4, KeptNext
  <2>6. QED
    BY <1>3, <2>1, <2>2, <2>5 DEF OneWriter
<1>5. QED
  BY <1>1, <1>4, MovesHold DEF FileInv

\* A request writes its row: what the account has been given is what the file holds.
LEMMA CommitFile ==
  ASSUME CatalogOK, FileInv, NEW w \in Workers, NEW own, own = jobs[w].account,
         Alters(w), Sets(w), jobs[w].step = "commit",
         jobs'[w].op \notin Setters, jobs'[w].step # "put", UNCHANGED <<file, spoiled, crossed>>,
         \A b \in Accounts : b # own => accounts'[b] = accounts[b] /\ given'[b] = given[b],
         \A r \in Refs : Holds(own, r)' => Holds(own, r),
         \A c : own \notin crossed /\ Stands(c) =>
            given'[own] = IF accounts'[own].ref = None THEN None ELSE c[accounts'[own].ref]
  PROVE  FileInv'
<1>1. /\ \A v \in Workers : v # w => jobs'[v] = jobs[v]
      /\ ~Sets(w)'
      /\ \A v \in Workers : Sets(v) => jobs[v].account \in Accounts
      /\ \A v \in Workers : v # w => (Sets(v)' <=> Sets(v))
  BY DEF Alters, Sets, CatalogOK, JobOK
<1>2. Alone'
  BY <1>1 DEF FileInv, Alone
<1>3. OneHolder'
  <2>1. ASSUME NEW b \in Accounts, NEW r \in Refs, Holds(b, r)'
        PROVE  Holds(b, r)
    <3>1. CASE b = own
      BY <2>1, <3>1
    <3>2. CASE b # own
      BY <1>1, <2>1, <3>2 DEF Holds
    <3>3. QED
      BY <3>1, <3>2
  <2>2. QED
    BY <2>1 DEF FileInv, OneHolder
<1>4. Loaded'
  <2>1. ASSUME NEW v \in Workers, jobs'[v].op \in {"rekey", "clear"}, jobs'[v].account \notin crossed'
        PROVE  jobs'[v].row.ref = accounts'[jobs'[v].account].ref
    <3>1. v # w /\ Sets(v) /\ jobs'[v] = jobs[v]
      BY <1>1, <2>1 DEF Sets, Setters
    <3>2. jobs[v].account # own
      BY <2>1, <3>1 DEF FileInv, Alone
    <3>3. QED
      BY <1>1, <2>1, <3>1, <3>2 DEF FileInv, Loaded
  <2>2. QED
    BY <2>1 DEF Loaded
<1>5. ASSUME ~spoiled' PROVE OneWriter'
  BY <1>1, <1>5 DEF FileInv, OneWriter
<1>6. ASSUME NEW c, Stands(c)
      PROVE  Stands(c)'
  <2>1. ASSUME NEW b \in Accounts, accounts'[b] # Absent, b \notin crossed',
               \A v \in Workers : jobs'[v].account = b /\ Sets(v)' => jobs'[v].step # "commit"
        PROVE  given'[b] = IF accounts'[b].ref = None THEN None ELSE c[accounts'[b].ref]
    <3>1. CASE b = own
      BY <1>6, <2>1, <3>1
    <3>2. CASE b # own
      <4>1. \A v \in Workers : jobs[v].account = b /\ Sets(v) => jobs[v].step # "commit"
        BY <1>1, <2>1, <3>2
      <4>2. accounts'[b] = accounts[b] /\ given'[b] = given[b]
        BY <3>2
      <4>3. given[b] = IF accounts[b].ref = None THEN None ELSE c[accounts[b].ref]
        BY <1>6, <2>1, <4>1, <4>2 DEF Stands
      <4>4. QED
        BY <4>2, <4>3
    <3>3. QED
      BY <3>1, <3>2
  <2>2. ASSUME NEW v \in Workers, jobs'[v].op \in {"create", "rekey"}, jobs'[v].step = "commit",
               jobs'[v].account \notin crossed'
        PROVE  jobs'[v].secret = IF jobs'[v].ref = None THEN None ELSE c[jobs'[v].ref]
    <3>1. v # w /\ jobs'[v] = jobs[v]
      BY <1>1, <2>2 DEF Setters
    <3>2. QED
      BY <1>6, <2>2, <3>1 DEF Stands
  <2>3. QED
    BY <2>1, <2>2 DEF Stands
<1>7. ASSUME ~spoiled' PROVE Kept'
  <2>1. Kept
    BY <1>7 DEF FileInv
  <2>2. ASSUME file' # Torn PROVE \E c : c = file' /\ Stands(c)'
    <3>1. PICK c : c = file
      OBVIOUS
    <3>2. QED
      BY <1>6, <2>1, <2>2, <3>1 DEF Kept
  <2>3. ASSUME NEW v \in Workers, jobs'[v].step = "put"
        PROVE  \E c : c = jobs'[v].copy /\ Stands(c)'
    <3>1. v # w /\ jobs[v].step = "put" /\ jobs'[v].copy = jobs[v].copy
      BY <1>1, <2>3
    <3>2. PICK c : c = jobs[v].copy
      OBVIOUS
    <3>3. QED
      BY <1>6, <2>1, <3>1, <3>2 DEF Kept
  <2>4. QED
    BY <2>2, <2>3, KeptNext
<1>8. QED
  BY <1>2, <1>3, <1>4, <1>5, <1>7 DEF FileInv

LEMMA CommitCreateFile ==
  ASSUME CatalogOK, FileInv, NEW w \in Workers, CommitCreate(w)
  PROVE  FileInv'
<1>0. PICK own : own = jobs[w].account
  OBVIOUS
<1>1. /\ Alters(w) /\ jobs[w].op = "create" /\ jobs[w].step = "commit"
      /\ accounts' = [accounts EXCEPT ![own] = jobs[w].row]
      /\ given' = [given EXCEPT ![own] = jobs[w].secret]
      /\ UNCHANGED <<file, spoiled, crossed>>
  BY <1>0, CommitCreateEffect
<1>2. jobs'[w].op \notin Setters /\ jobs'[w].step # "put"
  BY <1>0, CommitCreateEffect DEF Idle, Begun, Setters
<1>3. Sets(w) /\ own \in Accounts /\ jobs[w].row.ref = jobs[w].ref
  BY <1>0, <1>1 DEF CatalogOK, JobOK, Sets, Setters
<1>4. /\ accounts = [a \in Accounts |-> accounts[a]] /\ given = [a \in Accounts |-> given[a]]
  BY DEF CatalogOK
<1>5. /\ \A b \in Accounts : b # own => accounts'[b] = accounts[b] /\ given'[b] = given[b]
      /\ accounts'[own] = jobs[w].row /\ given'[own] = jobs[w].secret
  BY <1>0, <1>1, <1>3, <1>4
<1>6. \A r \in Refs : Holds(own, r)' => Holds(own, r)
  BY <1>0, <1>1, <1>2, <1>3, <1>5 DEF Holds, Alters, Sets
<1>7. \A c : own \notin crossed /\ Stands(c) =>
            given'[own] = IF accounts'[own].ref = None THEN None ELSE c[accounts'[own].ref]
  BY <1>0, <1>1, <1>3, <1>5 DEF Stands
<1>8. QED
  BY <1>0, <1>1, <1>2, <1>3, <1>5, <1>6, <1>7, CommitFile

LEMMA CommitRekeyFile ==
  ASSUME CatalogOK, FileInv, NEW w \in Workers, CommitRekey(w)
  PROVE  FileInv'
<1>0. PICK own : own = jobs[w].account
  OBVIOUS
<1>1. /\ Alters(w) /\ jobs'[w] = Idle /\ jobs[w].op = "rekey" /\ jobs[w].step = "commit"
      /\ own \in Accounts /\ accounts[own] # Absent
      /\ \A b \in Accounts : b # own => accounts'[b] = accounts[b]
      /\ accounts'[own].ref = IF jobs[w].ref = jobs[w].row.ref THEN accounts[own].ref ELSE jobs[w].ref
      /\ given' = [given EXCEPT ![own] = jobs[w].secret]
      /\ UNCHANGED <<file, spoiled, crossed>>
  BY <1>0, CommitRekeyEffect
<1>2. jobs'[w].op \notin Setters /\ jobs'[w].step # "put"
  BY <1>0, <1>1 DEF Idle, Setters
<1>3. Sets(w)
  BY <1>0, <1>1 DEF Sets, Setters
<1>4. given = [a \in Accounts |-> given[a]]
  BY DEF CatalogOK
<1>5. /\ \A b \in Accounts : b # own => accounts'[b] = accounts[b] /\ given'[b] = given[b]
      /\ given'[own] = jobs[w].secret
  BY <1>0, <1>1, <1>4
<1>6. \A r \in Refs : Holds(own, r)' => Holds(own, r)
  BY <1>0, <1>1, <1>2, <1>3, <1>5 DEF Holds, Alters, Sets
<1>7. ASSUME NEW c, own \notin crossed, Stands(c)
      PROVE  given'[own] = IF accounts'[own].ref = None THEN None ELSE c[accounts'[own].ref]
  <2>1. jobs[w].row.ref = accounts[own].ref
    BY <1>0, <1>1, <1>7 DEF FileInv, Loaded
  <2>2. accounts'[own].ref = jobs[w].ref
    BY <1>0, <1>1, <2>1
  <2>3. jobs[w].secret = IF jobs[w].ref = None THEN None ELSE c[jobs[w].ref]
    BY <1>0, <1>1, <1>7 DEF Stands
  <2>4. QED
    BY <1>0, <1>5, <2>2, <2>3
<1>8. QED
  BY <1>0, <1>1, <1>2, <1>3, <1>5, <1>6, <1>7, CommitFile

LEMMA CommitClearFile ==
  ASSUME CatalogOK, FileInv, NEW w \in Workers, CommitClear(w)
  PROVE  FileInv'
<1>0. PICK own : own = jobs[w].account
  OBVIOUS
<1>1. /\ Alters(w) /\ jobs'[w] = Idle /\ jobs[w].op = "clear" /\ jobs[w].step = "commit"
      /\ own \in Accounts /\ accounts[own] # Absent
      /\ \A b \in Accounts : b # own => accounts'[b] = accounts[b]
      /\ accounts'[own].ref = IF jobs[w].row.ref = None THEN accounts[own].ref ELSE None
      /\ given' = [given EXCEPT ![own] = None]
      /\ UNCHANGED <<file, spoiled, crossed>>
  BY <1>0, CommitClearEffect
<1>2. jobs'[w].op \notin Setters /\ jobs'[w].step # "put" /\ None \notin Refs
  BY <1>0, <1>1, CatalogAssumption DEF Idle, Setters
<1>3. Sets(w)
  BY <1>0, <1>1 DEF Sets, Setters
<1>4. given = [a \in Accounts |-> given[a]]
  BY DEF CatalogOK
<1>5. /\ \A b \in Accounts : b # own => accounts'[b] = accounts[b] /\ given'[b] = given[b]
      /\ given'[own] = None
  BY <1>0, <1>1, <1>4
<1>6. \A r \in Refs : Holds(own, r)' => Holds(own, r)
  BY <1>0, <1>1, <1>2, <1>3, <1>5 DEF Holds, Alters, Sets
<1>7. ASSUME NEW c, own \notin crossed, Stands(c)
      PROVE  given'[own] = IF accounts'[own].ref = None THEN None ELSE c[accounts'[own].ref]
  <2>1. jobs[w].row.ref = accounts[own].ref
    BY <1>0, <1>1, <1>7 DEF FileInv, Loaded
  <2>2. accounts'[own].ref = None
    BY <1>0, <1>1, <2>1
  <2>3. QED
    BY <1>0, <1>5, <2>2
<1>8. QED
  BY <1>0, <1>1, <1>2, <1>3, <1>5, <1>6, <1>7, CommitFile

LEMMA CrashFile ==
  ASSUME CatalogOK, FileInv, Crash
  PROVE  FileInv'
<1>1. /\ \A v \in Workers : jobs'[v] = Idle
      /\ spoiled' = (spoiled \/ file = Torn)
      /\ \A v \in Workers : jobs[v].op \in Setters /\ jobs[v].step = "commit" => jobs[v].account \in crossed'
      /\ crossed \subseteq crossed' /\ UNCHANGED <<accounts, file, given>>
  BY CrashEffect
<1>2. \A v \in Workers : ~Sets(v)' /\ jobs'[v].op \notin Setters /\ jobs'[v].step # "put"
  BY <1>1 DEF Idle, Sets, Setters
<1>3. Alone' /\ Loaded'
  BY <1>2 DEF Alone, Loaded, Setters
<1>4. OneHolder'
  BY <1>1, <1>2 DEF FileInv, OneHolder, Holds
<1>5. ASSUME ~spoiled' PROVE OneWriter' /\ Kept'
  <2>1. Kept /\ file # Torn
    BY <1>1, <1>5 DEF FileInv
  <2>2. PICK c : c = file
    OBVIOUS
  <2>3. Stands(c)
    BY <2>1, <2>2 DEF Kept
  <2>4. ASSUME NEW b \in Accounts, accounts'[b] # Absent, b \notin crossed'
        PROVE  given'[b] = IF accounts'[b].ref = None THEN None ELSE c[accounts'[b].ref]
    <3>1. \A v \in Workers : jobs[v].account = b /\ Sets(v) => jobs[v].step # "commit"
      BY <1>1, <2>4 DEF Sets
    <3>2. QED
      BY <1>1, <2>3, <2>4, <3>1 DEF Stands
  <2>5. Stands(c)'
    BY <1>2, <2>4 DEF Stands, Setters
  <2>6. QED
    BY <1>1, <1>2, <2>1, <2>2, <2>5, KeptNext DEF OneWriter
<1>6. QED
  BY <1>3, <1>4, <1>5 DEF FileInv

LEMMA BeginningFile ==
  ASSUME CatalogOK, FileInv, NEW w \in Workers,
         \/ \E a \in Accounts, secret \in Secrets \union {None} : Create(w, a, secret)
         \/ \E a \in Accounts, secret \in Secrets : Rekey(w, a, secret)
         \/ \E a \in Accounts : Clear(w, a)
  PROVE  FileInv'
<1>0. jobs[w] = Idle => ~Sets(w)
  BY DEF Idle, Sets, Setters
<1>1. ASSUME NEW a \in Accounts, NEW secret \in Secrets \union {None}, Create(w, a, secret)
      PROVE  FileInv'
  <2>1. /\ Alters(w) /\ ~Sets(w) /\ accounts[a] = Absent /\ \A v \in Workers : jobs[v].account # a
        /\ UNCHANGED <<accounts, file, given, spoiled, crossed>>
    BY <1>0, <1>1, CreateEffect DEF catalog
  <2>2. PICK r \in Refs \union {None}, step \in {"load", "commit"}, row \in AccountRow :
           /\ r \in Fresh \/ (r = None /\ secret = None)
           /\ r = None <=> step = "commit"
           /\ row.ref = r /\ Begun(jobs'[w], "create", step, a, row, secret, r)
    BY <1>1, CreateEffect
  <2>3. step = "commit" => r = None /\ secret = None
    BY <2>2, CatalogAssumption DEF Fresh
  <2>4. /\ Begun(jobs'[w], "create", step, a, row, secret, r) /\ r \in Fresh \union {None}
        /\ crossed \subseteq crossed' /\ "create" \in Setters /\ "create" \notin {"rekey", "clear"}
        /\ \A v \in Workers : v # w /\ Sets(v) /\ jobs[v].account = a => a \in crossed'
    BY <2>1, <2>2 DEF Setters
  <2>5. QED
    BY <2>1, <2>3, <2>4, BeginFile
<1>2. ASSUME NEW a \in Accounts, Cross(a)
      PROVE  crossed \subseteq crossed'
             /\ \A v \in Workers : v # w /\ Sets(v) /\ jobs[v].account = a => a \in crossed'
  BY <1>2 DEF Cross, SetsSecret, Sets, Setters
<1>3. ASSUME NEW a \in Accounts, NEW secret \in Secrets, Rekey(w, a, secret)
      PROVE  FileInv'
  <2>1. /\ Alters(w) /\ ~Sets(w) /\ accounts[a] # Absent /\ Cross(a)
        /\ UNCHANGED <<accounts, file, given, spoiled>>
    BY <1>0, <1>3, RekeyEffect
  <2>2. PICK r \in Refs : /\ (r \in Fresh /\ accounts[a].ref = None) \/ r = accounts[a].ref
                          /\ Begun(jobs'[w], "rekey", "load", a, accounts[a], secret, r)
    BY <1>3, RekeyEffect
  <2>3. QED
    BY <1>2, <2>1, <2>2, BeginFile DEF Setters
<1>4. ASSUME NEW a \in Accounts, Clear(w, a)
      PROVE  FileInv'
  <2>1. /\ Alters(w) /\ ~Sets(w) /\ accounts[a] # Absent /\ Cross(a)
        /\ UNCHANGED <<accounts, file, given, spoiled>>
        /\ Begun(jobs'[w], "clear", "load", a, accounts[a], None, accounts[a].ref)
    BY <1>0, <1>4, ClearEffect
  <2>2. accounts[a].ref \in Refs \union {None}
    BY <2>1 DEF CatalogOK, TypeOK
  <2>3. QED
    BY <1>2, <2>1, <2>2, BeginFile DEF Setters
<1>5. QED
  BY <1>1, <1>3, <1>4

\* The requests that set no secret.
LEMMA OtherRequestsFile ==
  ASSUME CatalogOK, FileInv, NEW w \in Workers,
         \/ \E a \in Accounts : Sync(w, a)
         \/ \E key \in Keys, enabled \in BOOLEAN : Edit(w, key, enabled)
         \/ LoadCleared(w) \/ CommitSync(w) \/ CommitEdit(w)
         \/ \E offer \in Offers : Fetch(w, offer)
  PROVE  FileInv'
<1>0. /\ \A v \in Workers : JobOK(v)
      /\ jobs[w] = Idle => ~Sets(w)
      /\ jobs'[w] = Idle => jobs'[w].op \notin Setters /\ jobs'[w].step # "put"
  BY DEF CatalogOK, Idle, Sets, Setters
<1>1. UNCHANGED <<accounts, file, given, spoiled, crossed>>
  BY SyncEffect, EditEffect, LoadClearedEffect, CommitSyncEffect, CommitEditEffect, FetchEffect DEF catalog
<1>2. \A v \in Workers : v # w => JobSame(jobs[v], jobs'[v])
  <2>1. CASE CommitEdit(w)
    BY <2>1, CommitEditEffect
  <2>2. CASE ~CommitEdit(w)
    <3>1. Alters(w)
      BY <2>2, SyncEffect, EditEffect, LoadClearedEffect, CommitSyncEffect, FetchEffect, ZenonT(60)
    <3>2. QED
      BY <3>1 DEF Alters
  <2>3. QED
    BY <2>1, <2>2
<1>3. SetterSame(w)
  <2>1. CASE \E a \in Accounts : Sync(w, a)
    BY <1>0, <2>1, SyncEffect, NoSetter DEF Begun, Setters
  <2>2. CASE \E key \in Keys, enabled \in BOOLEAN : Edit(w, key, enabled)
    BY <1>0, <2>2, EditEffect, NoSetter DEF Begun, Setters
  <2>3. CASE LoadCleared(w)
    <3>1. JobOK(w) /\ Moves(jobs[w], jobs'[w]) /\ jobs[w].op = "clear" /\ jobs[w].step = "commit"
          /\ jobs'[w].step = "commit"
      BY <1>0, <2>3, LoadClearedEffect
    <3>2. jobs'[w].copy = jobs[w].copy
      <4>1. JobShape(jobs[w]) /\ jobs = [v \in Workers |-> jobs[v]]
        BY <1>0 DEF JobOK, CatalogOK
      <4>2. jobs'[w] = [jobs[w] EXCEPT !.rows = {k \in Owned(jobs[w].account) : options[k].enabled}]
        BY <2>3, <4>1 DEF LoadCleared
      <4>3. QED
        BY <4>1, <4>2 DEF JobShape
    <3>3. QED
      BY <3>1, <3>2 DEF SetterSame, Sets, Setters, Moves
  <2>4. CASE CommitSync(w)
    BY <1>0, <2>4, CommitSyncEffect, NoSetter DEF Sets, Setters
  <2>5. CASE CommitEdit(w)
    BY <1>0, <2>5, CommitEditEffect, NoSetter DEF Sets, Setters
  <2>6. ASSUME NEW offer \in Offers, Fetch(w, offer)
        PROVE  SetterSame(w)
    <3>1. jobs[w].op = "sync" /\ (jobs'[w] = Idle \/ (jobs'[w].op = "sync" /\ jobs'[w].step = "commit"))
      BY <1>0, <2>6, FetchEffect, ZenonT(60) DEF JobOK, Moves
    <3>2. QED
      BY <1>0, <3>1, NoSetter DEF Sets, Setters
  <2>7. QED
    BY <2>1, <2>2, <2>3, <2>4, <2>5, <2>6
<1>4. \A v \in Workers : SetterSame(v)
  BY <1>2, <1>3, JobSameSetter
<1>5. QED
  BY <1>1, <1>4, FileRests

LEMMA FileStep ==
  ASSUME CatalogOK, FileInv, [Next]_vars
  PROVE  FileInv'
<1>0. \A v \in Workers : JobSame(jobs[v], jobs[v])
  BY DEF CatalogOK, JobOK, JobSame
<1>1. ASSUME NEW w \in Workers, Serve(w)
      PROVE  FileInv'
  BY <1>1, BeginningFile, LoadFile, TruncateFile, PutFile, CommitCreateFile, CommitRekeyFile,
     CommitClearFile, OtherRequestsFile DEF Serve
<1>2. ASSUME NEW a \in Accounts, NEW enabled \in BOOLEAN, Enable(a, enabled)
      PROVE  FileInv'
  <2> DEFINE row == [accounts[a] EXCEPT !.enabled = enabled]
  <2>1. /\ accounts[a] # Absent /\ accounts[a] \in AccountRow /\ accounts = [b \in Accounts |-> accounts[b]]
        /\ accounts' = [accounts EXCEPT ![a] = row] /\ UNCHANGED <<file, jobs, given, spoiled, crossed>>
    BY <1>2 DEF Enable, CatalogOK, TypeOK, AccountRow
  <2>2. row \in AccountRow /\ row.ref = accounts[a].ref /\ row # Absent
    BY <2>1, CatalogAssumption DEF AccountRow
  <2> HIDE DEF row
  <2>3. \A b \in Accounts : /\ accounts'[b] # Absent <=> accounts[b] # Absent
                            /\ accounts[b] # Absent => accounts'[b].ref = accounts[b].ref
    BY <2>1, <2>2
  <2>4. \A v \in Workers : SetterSame(v)
    BY <1>0, <2>1, JobSameSetter
  <2>5. QED
    BY <2>1, <2>3, <2>4, FileRests
<1>3. ASSUME NEW a \in Accounts, NEW m \in Models, NEW enabled \in BOOLEAN,
             NEW supports \in ManualSupports, AddManual(a, m, enabled, supports)
      PROVE  FileInv'
  <2>1. UNCHANGED <<accounts, file, given, spoiled, crossed>>
    BY <1>3 DEF AddManual
  <2>2. \A v \in Workers : SetterSame(v)
    BY <1>3, AddManualOK, JobSameSetter
  <2>3. QED
    BY <2>1, <2>2, FileRests
<1>4. CASE Updating \/ UNCHANGED vars
  <2>1. UNCHANGED <<accounts, file, given, spoiled, crossed, jobs>>
    BY <1>4, UpdatingRests DEF catalog
  <2>2. \A v \in Workers : SetterSame(v)
    BY <1>0, <2>1, JobSameSetter
  <2>3. QED
    BY <2>1, <2>2, FileRests
<1>5. QED
  BY <1>1, <1>2, <1>3, <1>4, CrashFile DEF Next, CatalogNext

LEMMA FileInit ==
  ASSUME Init
  PROVE  FileInv
<1>1. PICK there \in SUBSET Accounts :
         /\ accounts = [a \in Accounts |-> IF a \in there THEN [enabled |-> TRUE, ref |-> FirstRef[a]] ELSE Absent]
         /\ given = [a \in Accounts |-> IF a \in there THEN FirstSecret ELSE None]
         /\ file = [r \in Refs |-> IF \E a \in there : FirstRef[a] = r THEN FirstSecret ELSE None]
         /\ jobs = [w \in Workers |-> Idle]
  BY InitThere
<1>2. \A w \in Workers : jobs[w].op \notin Setters /\ ~Sets(w) /\ jobs[w].step # "put"
  BY <1>1 DEF Idle, Setters, Sets
<1>3. \A a \in Accounts : accounts[a] # Absent =>
         /\ a \in there /\ accounts[a].ref = FirstRef[a] /\ FirstRef[a] \in Refs /\ FirstRef[a] # None
  BY <1>1, SettingsAssumption, CatalogAssumption
<1>4. OneHolder
  <2>1. \A a \in Accounts, r \in Refs : Holds(a, r) => FirstRef[a] = r
    BY <1>2, <1>3 DEF Holds
  <2>2. QED
    BY <2>1, SettingsAssumption DEF OneHolder
<1>5. file # Torn
  <2>1. file \in Content
    BY <1>1, SettingsAssumption DEF Content
  <2>2. QED
    BY <2>1, CatalogAssumption DEF Content
<1>6. Stands(file)
  <2>1. \A a \in Accounts : accounts[a] # Absent =>
           given[a] = IF accounts[a].ref = None THEN None ELSE file[accounts[a].ref]
    BY <1>1, <1>3
  <2>2. QED
    BY <1>2, <2>1 DEF Stands, Setters
<1>7. QED
  BY <1>2, <1>4, <1>5, <1>6 DEF FileInv, Alone, Loaded, OneWriter, Kept, Setters

\* The key an account uses is the one it was last given, except while the file is being written
\* and as long as no two requests have written it, or changed this key, at once.
THEOREM KeysStand == Spec => []KeyStands
<1>1. CatalogOK /\ FileInv /\ [Next]_vars => CatalogOK' /\ FileInv'
  BY CatalogStep, FileStep
<1>2. CatalogOK /\ FileInv => KeyStands
  <2>1. SUFFICES ASSUME CatalogOK, FileInv, ~spoiled, file # Torn, NEW a \in Accounts,
                        accounts[a] # Absent, a \notin crossed,
                        \A w \in Workers : jobs[w].account = a => ~SetsSecret(jobs[w])
                 PROVE  SecretOf(accounts[a].ref) = given[a]
    BY DEF KeyStands
  <2>2. \A w \in Workers : jobs[w].account = a => ~Sets(w)
    BY <2>1 DEF SetsSecret, Sets, Setters
  <2>3. given[a] = IF accounts[a].ref = None THEN None ELSE file[accounts[a].ref]
    BY <2>1, <2>2 DEF FileInv, Kept, Stands
  <2>4. QED
    BY <2>1, <2>3 DEF SecretOf, Read
<1>3. QED
  BY <1>1, <1>2, CatalogInit, FileInit, PTL DEF Spec

-----------------------------------------------------------------------------
(* The settings.                                                           *)

SettingRow == [Fields -> Keys \union {None}]
RowsTyped ==
    /\ settings["default"] \in SettingRow
    /\ settings["room"] = Absent \/ settings["room"] \in SettingRow
    /\ met \subseteq Scopes

\* An update makes a row of a row.
LEMMA UpdatedTyped ==
  ASSUME NEW edit, edit.payload \in Payloads, edit.row \in SettingRow
  PROVE  Updated(edit) \in SettingRow
BY SettingsAssumption DEF Updated, SettingRow

\* What is written over the row that has been loaded is the updated row.
LEMMA Overwritten ==
  ASSUME NEW row \in SettingRow, NEW old \in SettingRow, NEW now \in SettingRow
  PROVE  LET mix == [f \in Fields |-> IF row[f] = old[f] THEN now[f] ELSE row[f]] IN
         mix \in SettingRow /\ (now = old /\ Apart(row) => Apart(mix))
<1> DEFINE mix == [f \in Fields |-> IF row[f] = old[f] THEN now[f] ELSE row[f]]
<1>1. mix \in SettingRow
  BY DEF SettingRow
<1>2. ASSUME now = old
      PROVE  \A f \in Fields : mix[f] = row[f]
  BY <1>2
<1> HIDE DEF mix
<1>3. ASSUME now = old, Apart(row)
      PROVE  Apart(mix)
  <2>1. /\ mix["fallback"] = row["fallback"] /\ mix["model"] = row["model"]
        /\ mix["compression"] = row["compression"]
        /\ mix["compression_fallback"] = row["compression_fallback"]
    BY <1>2, <1>3 DEF Fields
  <2>2. QED
    BY <1>3, <2>1 DEF Apart, Inherited
<1>4. QED
  BY <1>1, <1>3 DEF mix

LEMMA StartUpdateOK ==
  ASSUME SettingsInv, RowsTyped, NEW w \in Workers, NEW scope \in Scopes, NEW payload \in Payloads,
         StartUpdate(w, scope, payload)
  PROVE  SettingsInv' /\ RowsTyped'
<1> DEFINE new == settings[scope] = Absent
<1>1. PICK e : /\ e = [scope |-> scope, new |-> new, row |-> Effective(scope), payload |-> payload]
               /\ edits' = [edits EXCEPT ![w] = e]
  BY DEF StartUpdate
<1>2. /\ met' = met \union {scope : v \in {v \in Workers : edits[v] # Absent /\ edits[v].scope = scope}}
      /\ edits[w] = Absent /\ UNCHANGED settings
  BY DEF StartUpdate
<1>3. /\ edits' = [v \in Workers |-> edits'[v]] /\ edits'[w] = e
      /\ \A v \in Workers : v # w => edits'[v] = edits[v]
  BY <1>1 DEF SettingsInv
<1>4. EditShape(e) /\ e.scope = scope /\ e.row = Effective(scope) /\ e.payload = payload /\ e.new = new
  BY <1>1 DEF EditShape
<1>5. Effective(scope) \in SettingRow /\ (~new => Effective(scope) = settings[scope])
  BY DEF RowsTyped, Effective, Scopes
<1>6. /\ met \subseteq met' /\ met' \subseteq Scopes
      /\ \A v \in Workers : edits[v] # Absent /\ edits[v].scope = scope => scope \in met'
  BY <1>2 DEF RowsTyped
<1> HIDE DEF new
<1>7. ASSUME NEW v \in Workers, edits'[v] # Absent
      PROVE  /\ EditShape(edits'[v]) /\ edits'[v].scope \in Scopes /\ edits'[v].payload \in Payloads
             /\ edits'[v].row \in SettingRow
             /\ ~edits'[v].new => settings'[edits'[v].scope] # Absent
             /\ edits'[v].scope \notin met' =>
                   /\ ~edits'[v].new => edits'[v].row = settings'[edits'[v].scope]
                   /\ \A u \in Workers : edits'[u] # Absent /\ edits'[u].scope = edits'[v].scope => u = v
  <2>1. CASE v = w
    <3>1. edits'[v] = e
      BY <1>3, <2>1
    <3>2. e.row \in SettingRow /\ (~e.new => settings'[e.scope] # Absent /\ e.row = settings'[e.scope])
      BY <1>2, <1>4, <1>5 DEF new
    <3>3. ASSUME scope \notin met', NEW u \in Workers, edits'[u] # Absent, edits'[u].scope = scope
          PROVE  u = w
      BY <1>3, <1>6, <3>3
    <3>4. QED
      BY <1>4, <2>1, <3>1, <3>2, <3>3
  <2>2. CASE v # w
    <3>1. edits'[v] = edits[v] /\ edits[v] # Absent
      BY <1>3, <1>7, <2>2
    <3>2. /\ EditShape(edits[v]) /\ edits[v].scope \in Scopes /\ edits[v].payload \in Payloads
          /\ edits[v].row \in SettingRow
          /\ ~edits[v].new => settings[edits[v].scope] # Absent
          /\ edits[v].scope \notin met =>
                /\ ~edits[v].new => edits[v].row = settings[edits[v].scope]
                /\ \A u \in Workers : edits[u] # Absent /\ edits[u].scope = edits[v].scope => u = v
      BY <3>1 DEF SettingsInv, SettingRow
    <3>3. QED
      BY <1>2, <1>3, <1>4, <1>6, <3>1, <3>2
  <2>3. QED
    BY <2>1, <2>2
<1>8. \A s \in Scopes \ met' : settings'[s] # Absent => Apart(settings[s])'
  BY <1>2, <1>6 DEF SettingsInv, Apart, Inherited
<1>9. settings' = [s \in Scopes |-> settings'[s]]
  BY <1>2 DEF SettingsInv
<1>10. QED
  BY <1>2, <1>3, <1>6, <1>7, <1>8, <1>9 DEF SettingsInv, RowsTyped, SettingRow

LEMMA CommitUpdateOK ==
  ASSUME SettingsInv, RowsTyped, NEW w \in Workers, CommitUpdate(w)
  PROVE  SettingsInv' /\ RowsTyped'
<1> DEFINE edit == edits[w]
           row == Updated(edit)
           now == settings[edit.scope]
           mix == [f \in Fields |-> IF row[f] = edit.row[f] THEN now[f] ELSE row[f]]
           next == IF edit.new THEN row ELSE mix
<1>1. /\ edit # Absent /\ edits' = [edits EXCEPT ![w] = Absent] /\ UNCHANGED met
      /\ IF ~Acceptable(edit) \/ (edit.new /\ now # Absent) THEN UNCHANGED settings
         ELSE settings' = [settings EXCEPT ![edit.scope] = next]
  BY DEF CommitUpdate
<1>2. /\ edit.scope \in Scopes /\ edit.payload \in Payloads /\ edit.row \in SettingRow
      /\ ~edit.new => now # Absent
      /\ edit.scope \notin met =>
            /\ ~edit.new => edit.row = now
            /\ \A v \in Workers : edits[v] # Absent /\ edits[v].scope = edit.scope => v = w
  BY <1>1 DEF SettingsInv, SettingRow
<1>3. row \in SettingRow
  BY <1>2, UpdatedTyped
<1>4. /\ edits' = [v \in Workers |-> edits'[v]] /\ edits'[w] = Absent
      /\ \A v \in Workers : v # w => edits'[v] = edits[v]
  BY <1>1 DEF SettingsInv
<1>5. \A v \in Workers : edits[v] # Absent =>
         /\ EditShape(edits[v]) /\ edits[v].scope \in Scopes /\ edits[v].payload \in Payloads
         /\ edits[v].row \in SettingRow
         /\ ~edits[v].new => settings[edits[v].scope] # Absent
         /\ edits[v].scope \notin met =>
               /\ ~edits[v].new => edits[v].row = settings[edits[v].scope]
               /\ \A u \in Workers : edits[u] # Absent /\ edits[u].scope = edits[v].scope => u = v
  BY DEF SettingsInv, SettingRow
<1>6. CASE UNCHANGED settings
  <2>1. \A s \in Scopes \ met' : settings'[s] # Absent => Apart(settings[s])'
    BY <1>1, <1>6 DEF SettingsInv, Apart, Inherited
  <2>2. settings' = [s \in Scopes |-> settings'[s]]
    BY <1>6 DEF SettingsInv
  <2>3. RowsTyped'
    BY <1>1, <1>6 DEF RowsTyped
  <2>4. \A v \in Workers : edits'[v] # Absent => v # w /\ edits'[v] = edits[v]
    BY <1>4
  <2>5. QED
    BY <1>1, <1>4, <1>5, <1>6, <2>1, <2>2, <2>3, <2>4 DEF SettingsInv, SettingRow
<1>7. CASE /\ Acceptable(edit) /\ (edit.new => now = Absent)
           /\ settings' = [settings EXCEPT ![edit.scope] = next]
  <2>1. Apart(row)
    BY <1>7 DEF Acceptable
  <2>2. ~edit.new => now \in SettingRow
    BY <1>2 DEF RowsTyped, Scopes
  <2>3. PICK scope : scope = edit.scope
    OBVIOUS
  <2>4. /\ settings' = [s \in Scopes |-> settings'[s]] /\ settings'[scope] = next
        /\ \A s \in Scopes : s # scope => settings'[s] = settings[s]
    BY <1>2, <1>7, <2>3 DEF SettingsInv
  <2>5. next \in SettingRow /\ (scope \notin met => Apart(next))
    <3>1. CASE edit.new
      BY <1>3, <2>1, <3>1
    <3>2. CASE ~edit.new
      <4>1. mix \in SettingRow /\ (now = edit.row /\ Apart(row) => Apart(mix))
        BY <1>2, <1>3, <2>2, <3>2, Overwritten
      <4>2. scope \notin met => now = edit.row
        BY <1>2, <2>3, <3>2
      <4> HIDE DEF mix, now, row
      <4>3. QED
        BY <2>1, <3>2, <4>1, <4>2
    <3>3. QED
      BY <3>1, <3>2
  <2>6. next # Absent
    BY <2>5, SettingsAssumption DEF SettingRow
  <2> HIDE DEF next, row, now, mix
  <2>7. RowsTyped'
    BY <1>1, <1>2, <2>3, <2>4, <2>5 DEF RowsTyped, Scopes
  <2>8. ASSUME NEW s \in Scopes \ met', settings'[s] # Absent
        PROVE  Apart(settings[s])'
    <3>1. CASE s = scope
      <4>1. Apart(next) /\ settings'[s] = next
        BY <1>1, <2>4, <2>5, <2>8, <3>1
      <4>2. QED
        BY <4>1 DEF Apart, Inherited
    <3>2. CASE s # scope
      <4>1. Apart(settings[s]) /\ settings'[s] = settings[s]
        BY <1>1, <2>4, <2>8, <3>2 DEF SettingsInv
      <4>2. QED
        BY <4>1 DEF Apart, Inherited
    <3>3. QED
      BY <3>1, <3>2
  <2>9. ASSUME NEW v \in Workers, edits'[v] # Absent
        PROVE  /\ EditShape(edits'[v]) /\ edits'[v].scope \in Scopes /\ edits'[v].payload \in Payloads
               /\ edits'[v].row \in SettingRow
               /\ ~edits'[v].new => settings'[edits'[v].scope] # Absent
               /\ edits'[v].scope \notin met' =>
                     /\ ~edits'[v].new => edits'[v].row = settings'[edits'[v].scope]
                     /\ \A u \in Workers : edits'[u] # Absent /\ edits'[u].scope = edits'[v].scope => u = v
    <3>1. v # w /\ edits'[v] = edits[v] /\ edits[v] # Absent
      BY <1>4, <2>9
    <3>2. edits[v].scope \notin met => edits[v].scope # scope
      BY <1>1, <1>2, <1>5, <2>3, <3>1
    <3>3. QED
      BY <1>1, <1>4, <1>5, <2>4, <2>6, <3>1, <3>2
  <2>10. /\ settings' = [s \in Scopes |-> settings'[s]]
         /\ edits' = [v \in Workers |-> edits'[v]]
    BY <1>4, <2>4
  <2> HIDE DEF edit
  <2>11. QED
    BY <2>7, <2>8, <2>9, <2>10 DEF SettingsInv, SettingRow
<1>8. QED
  BY <1>1, <1>6, <1>7

LEMMA SettingsRest ==
  ASSUME SettingsInv, RowsTyped, UNCHANGED <<settings, edits, met>>
  PROVE  SettingsInv' /\ RowsTyped'
<1>1. \A s \in Scopes \ met' : settings'[s] # Absent => Apart(settings[s])'
  BY DEF SettingsInv, Apart, Inherited
<1>2. RowsTyped'
  BY DEF RowsTyped
<1>3. \A w \in Workers : edits'[w] # Absent => EditShape(edits'[w])
  BY DEF SettingsInv
<1>4. QED
  BY <1>1, <1>2, <1>3 DEF SettingsInv

LEMMA SettingsInit ==
  ASSUME Init
  PROVE  SettingsInv /\ RowsTyped
<1>1. /\ edits = [w \in Workers |-> Absent] /\ met = {}
      /\ \E row \in FirstRows : settings = [s \in Scopes |-> IF s = "default" THEN row ELSE Absent]
  BY InitThere
<1>2. PICK row \in FirstRows : settings = [s \in Scopes |-> IF s = "default" THEN row ELSE Absent]
  BY <1>1
<1>3. row \in SettingRow /\ Apart(row)
  BY SettingsAssumption DEF SettingRow
<1>4. RowsTyped /\ settings = [s \in Scopes |-> settings[s]]
  BY <1>1, <1>2, <1>3 DEF RowsTyped, Scopes
<1>5. \A s \in Scopes : settings[s] # Absent => Apart(settings[s])
  BY <1>2, <1>3
<1>6. QED
  BY <1>1, <1>4, <1>5 DEF SettingsInv

LEMMA SettingsStep ==
  ASSUME SettingsInv, RowsTyped, [Next]_vars
  PROVE  SettingsInv' /\ RowsTyped'
<1>1. CASE Updating
  BY <1>1, StartUpdateOK, CommitUpdateOK DEF Updating
<1>2. CASE UNCHANGED <<settings, edits, met>>
  BY <1>2, SettingsRest
<1>3. QED
  BY <1>1, <1>2 DEF Next, vars

\* Of a row whose fallbacks are other models, the settings page shows the one that is used,
\* except that a dedicated one that is inactive is an error where it is used.
LEMMA ApartShown ==
  ASSUME NEW row, Apart(row)
  PROVE  \/ row["compression_fallback"] # None /\ ~Active(row["compression_fallback"], "compression")
         \/ ShownCompressionFallback(row) = UsedCompressionFallback(row)
<1> DEFINE dedicated == row["compression_fallback"]
           chat == row["fallback"]
           on(k) == Active(k, "compression")
<1>1. Inherited(row) = None \/ Inherited(row) # row["compression"]
  BY DEF Apart
<1>2. CASE dedicated # None
  BY <1>1, <1>2 DEF Inherited, ShownCompressionFallback, UsedCompressionFallback
<1>3. CASE dedicated = None
  BY <1>1, <1>3 DEF Inherited, ShownCompressionFallback, UsedCompressionFallback
<1>4. QED
  BY <1>2, <1>3

\* A room that has a fallback has another model to fall back to, and it is the one it shows,
\* whatever updates of the default setting, first updates of the room and losses of models come
\* in between, as long as no two updates of one setting overlap.
THEOREM FallbacksSound == Spec => []FallbackIsSound
<1>1. CatalogOK /\ SettingsInv /\ RowsTyped /\ [Next]_vars => CatalogOK' /\ SettingsInv' /\ RowsTyped'
  BY CatalogStep, SettingsStep
<1>2. CatalogOK /\ SettingsInv /\ RowsTyped => FallbackIsSound
  <2>1. CatalogOK /\ RowsTyped => SettingsTypeOK
    BY DEF CatalogOK, RowsTyped, SettingsTypeOK, SettingRow
  <2>2. SettingsInv => FallbackDiffers
    BY DEF SettingsInv, FallbackDiffers, Apart
  <2>3. SettingsInv => ShownIsUsed
    BY ApartShown DEF SettingsInv, ShownIsUsed
  <2>4. QED
    BY <2>1, <2>2, <2>3 DEF FallbackIsSound
<1>3. QED
  BY <1>1, <1>2, CatalogInit, SettingsInit, PTL DEF Spec
=============================================================================
