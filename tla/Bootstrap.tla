------------------------------- MODULE Bootstrap -------------------------------
(***************************************************************************)
(* The bootstrap command: one run after another that looks up, creates and *)
(* links named objects at the provider, changes its settings, then writes  *)
(* the credentials of the applications to a file the operator copies into  *)
(* .env.  A run may die between any two calls, or with a call already done *)
(* at the provider; the operator then starts another one.  Others work at  *)
(* the same provider.                                                      *)
(***************************************************************************)
EXTENDS Integers, FiniteSets, Sequences

CONSTANTS
    MaxRuns,    \* runs of the command
    MaxDeleted, \* applications the operator deletes, by name
    MaxCrowded, \* collections that outgrow a page
    MaxEdits    \* edits of the settings in the console

ASSUME BootstrapAssumption == {MaxRuns, MaxDeleted, MaxCrowded, MaxEdits} \subseteq Nat

\* What run() ensures, in its order: each object is looked up in the collection
\* that belongs to the objects "of", created with links to "with", and linked to
\* "to" afterwards whether it was found or created.  The graph and learn
\* resources repeat the first two, the learn application repeats webApp.
Step(name, of, with, to) == [name |-> name, of |-> of, with |-> with, to |-> to]
Steps == <<
    Step("resource",     {}, {}, {}),
    Step("scope",        {"resource"}, {}, {}),
    Step("adminRole",    {}, {"scope"}, {}),
    Step("tenantRole",   {}, {"scope"}, {"scope"}),
    Step("organization", {}, {}, {}),
    Step("user",         {}, {}, {"adminRole"}),
    Step("member",       {"organization", "user"}, {}, {"tenantRole"}),
    Step("webApp",       {}, {}, {}),
    Step("m2mApp",       {}, {}, {}),
    Step("grant",        {"m2mApp"}, {}, {}) >>  \* the app gets the built-in role

Names == {Steps[i].name : i \in DOMAIN Steps}
AdminSteps == {"user", "member"}    \* skipped without an email and a password
Apps == {"webApp", "m2mApp"}        \* applications with a secret

\* The provider refuses a second object of these names in the same collection.
Unique == Names \ (Apps \cup {"organization"})

\* The settings a run reads, changes and writes back, in its order; before them
\* it replaces the script of the claims, whatever it was.
Settings == <<"signInExp", "accountCenter">>
SettingNames == {Settings[i] : i \in DOMAIN Settings}

VARIABLES
    objects,    \* the provider's objects, with the ids each belongs and links to
    lastId,     \* ids are given out in order
    crowded,    \* names whose collection has outgrown a page
    deleted,    \* names of the applications the operator deleted
    settings,   \* the provider's settings: ours, and what others set
    edits,      \* the number of edits so far
    run,        \* the run in progress
    runs,       \* the number of runs so far
    output,     \* the output file: id and secret of each application, 0 for none
    env         \* the same values in .env

provider == <<objects, lastId, crowded, deleted>>
console == <<settings, edits>>
vars == <<provider, console, run, runs, output, env>>

\* A run is off, or at step pc: looking up, creating, linking; then, with all
\* objects there, replacing the claims, reading or patching setting pc, and
\* about to write its output.
Configuring == {"claims", "read", "patch", "write"}
Off == [stage |-> "off", pc |-> 1, admin |-> FALSE,
        copy |-> [s \in SettingNames |-> 0],    \* what it read of the others' edits
        found |-> [n \in Names |-> 0],  \* ids, by name
        made |-> {}]                    \* of them, what this run created
Nothing == [a \in Apps |-> [id |-> 0, secret |-> 0]]

Init ==
    /\ objects = {}
    /\ lastId = 0
    /\ crowded = {}
    /\ deleted = {}
    /\ settings = [s \in SettingNames |->
                     [theirs |-> 0, edited |-> 0, between |-> FALSE]]
    /\ edits = 0
    /\ run = Off
    /\ runs = 0
    /\ output = Nothing
    /\ env = Nothing

step == Steps[run.pc]
Ids(names) == {run.found[n] : n \in names}

\* The objects of the step's name where run would look for them.
Existing == {o \in objects : o.name = step.name /\ o.of = Ids(step.of)}

\* A collection larger than the page may show any part of what we look for.
Pages == IF step.name \in crowded THEN SUBSET Existing ELSE {Existing}

-----------------------------------------------------------------------------
(* One run.                                                                *)

\* r goes on after the step it is at.
After(r) ==
    LET later == {i \in r.pc + 1 .. Len(Steps) :
                     r.admin \/ Steps[i].name \notin AdminSteps}
    IN  IF later = {} THEN [r EXCEPT !.stage = "claims"]
        ELSE [r EXCEPT !.stage = "find", !.pc = CHOOSE i \in later : \A j \in later : i <= j]

\* r has the object of its step, and links it if that is part of the step.
Has(r, id) ==
    LET q == [r EXCEPT !.found[step.name] = id]
    IN  IF step.to = {} THEN After(q) ELSE [q EXCEPT !.stage = "link"]

\* A call was answered, or the run died with it.
Goes(r) == run' = r \/ run' = Off

\* Without seed credentials, or those of the M2M application in their place, it
\* dies before its first call.
Start(admin) ==
    /\ run.stage = "off"
    /\ runs < MaxRuns
    /\ runs' = runs + 1
    /\ run' = [Off EXCEPT !.stage = "find", !.admin = admin]
    /\ UNCHANGED <<provider, console, output, env>>

\* Mutant of Find: an application is not looked up before it is created.
FindBlind ==
    /\ run.stage = "find"
    /\ \E page \in IF step.name \in Apps THEN {{}} ELSE Pages :
         IF page = {} THEN Goes([run EXCEPT !.stage = "create"])
         ELSE \E o \in page : Goes(Has(run, o.id))
    /\ UNCHANGED <<provider, console, runs, output, env>>

\* Mutant of Find: a user who is there keeps the roles there are.
FindReturns ==
    /\ run.stage = "find"
    /\ \E page \in Pages :
         IF page = {} THEN Goes([run EXCEPT !.stage = "create"])
         ELSE \E o \in page : Goes(After([run EXCEPT !.found[step.name] = o.id]))
    /\ UNCHANGED <<provider, console, runs, output, env>>

\* list_all and the search for the name.
Find ==
    /\ run.stage = "find"
    /\ \E page \in Pages :
         IF page = {} THEN Goes([run EXCEPT !.stage = "create"])
         ELSE \E o \in page : Goes(Has(run, o.id))
    /\ UNCHANGED <<provider, console, runs, output, env>>

Create ==
    LET id == lastId + 1
    IN  /\ run.stage = "create"
        /\ step.name \in Unique => Existing = {}
        /\ objects' = objects \cup {[id |-> id, name |-> step.name,
                                     of |-> Ids(step.of), links |-> Ids(step.with)]}
        /\ lastId' = id
        /\ Goes(Has([run EXCEPT !.made = @ \cup {id}], id))
        /\ UNCHANGED <<crowded, deleted, console, runs, output, env>>

\* The roles of the user or of the member are replaced; the scopes added to the
\* tenant's role are those it was created with.
Link ==
    LET Linked(o) == IF o.id = run.found[step.name]
                     THEN [o EXCEPT !.links = Ids(step.to)] ELSE o
    IN  /\ run.stage = "link"
        /\ objects' = {Linked(o) : o \in objects}
        /\ Goes(After(run))
        /\ UNCHANGED <<lastId, crowded, deleted, console, runs, output, env>>

\* configure_claims replaces the script: what it was makes no difference.
ConfigureClaims ==
    /\ run.stage = "claims"
    /\ Goes([run EXCEPT !.stage = "read", !.pc = 1])
    /\ UNCHANGED <<provider, console, runs, output, env>>

\* Mutant of Read: both settings are read at once, before either is written.
ReadAhead ==
    /\ run.stage = "read"
    /\ Goes([run EXCEPT !.stage = "patch",
                        !.copy = IF run.pc = 1 THEN [s \in SettingNames |-> settings[s].theirs] ELSE @])
    /\ UNCHANGED <<provider, console, runs, output, env>>

\* configure_branding and configure_account_center: GET ...
Read ==
    LET s == Settings[run.pc]
    IN  /\ run.stage = "read"
        /\ Goes([run EXCEPT !.stage = "patch", !.copy[s] = settings[s].theirs])
        /\ UNCHANGED <<provider, console, runs, output, env>>

\* ... and PATCH with all that was read, and our values set.
Patch ==
    LET s == Settings[run.pc]
    IN  /\ run.stage = "patch"
        /\ settings' = [settings EXCEPT ![s].theirs = run.copy[s]]
        /\ Goes(IF run.pc = Len(Settings) THEN [run EXCEPT !.stage = "write"]
                ELSE [run EXCEPT !.stage = "read", !.pc = @ + 1])
        /\ UNCHANGED <<provider, edits, runs, output, env>>

\* A call fails without an effect: the provider refuses it or is away, or the
\* built-in role is not found.
Die ==
    /\ run.stage # "off"
    /\ run' = Off
    /\ UNCHANGED <<provider, console, runs, output, env>>

\* What is known of application a when run has found it: .env first, then the
\* provider, which tells a secret only in its answer to the creation.
Or(x, y) == IF x # 0 THEN x ELSE y

New(a) == run.found[a] \in run.made

\* Mutant of Result: both secrets are read from the answer for webApp.
ResultCrossed(a) ==
    [id |-> Or(env[a].id, run.found[a]),
     secret |-> Or(env[a].secret, IF New("webApp") THEN run.found["webApp"] ELSE 0)]

Result(a) ==
    [id |-> Or(env[a].id, run.found[a]),
     secret |-> Or(env[a].secret, IF New(a) THEN run.found[a] ELSE 0)]

\* provision writes the file anew; a run that dies meanwhile leaves it empty.
Write ==
    /\ run.stage = "write"
    /\ output' \in {[a \in Apps |-> Result(a)], Nothing}
    /\ run' = Off
    /\ UNCHANGED <<provider, console, runs, env>>

-----------------------------------------------------------------------------
(* The operator and the provider.                                          *)

\* The operator puts the values of the file into .env and keeps the others.
Save ==
    /\ run.stage = "off"
    /\ output # Nothing
    /\ env' = [a \in Apps |-> [id |-> Or(output[a].id, env[a].id),
                               secret |-> Or(output[a].secret, env[a].secret)]]
    /\ UNCHANGED <<provider, console, run, runs, output>>

\* An application is deleted, for instance because its secret was lost.
Delete(o) ==
    /\ run.stage = "off"
    /\ o.name \in Apps
    /\ Cardinality(deleted) < MaxDeleted
    /\ objects' = {p \in objects : p # o /\ o.id \notin p.of}
    /\ deleted' = deleted \cup {o.name}
    /\ UNCHANGED <<lastId, crowded, console, run, runs, output, env>>

\* Somebody sets another part of setting s in the console.
Edit(s) ==
    /\ edits < MaxEdits
    /\ edits' = edits + 1
    /\ settings' = [settings EXCEPT ![s] =
                      [theirs |-> edits', edited |-> edits',
                       between |-> run.stage = "patch" /\ Settings[run.pc] = s]]
    /\ UNCHANGED <<provider, run, runs, output, env>>

\* Others fill the collection of n beyond a page.
Crowd(n) ==
    /\ n \notin crowded
    /\ Cardinality(crowded) < MaxCrowded
    /\ crowded' = crowded \cup {n}
    /\ UNCHANGED <<objects, lastId, deleted, console, run, runs, output, env>>

Next ==
    \/ \E admin \in BOOLEAN : Start(admin)
    \/ Find
    \/ Create
    \/ Link
    \/ ConfigureClaims
    \/ Read
    \/ Patch
    \/ Die
    \/ Write
    \/ Save
    \/ \E o \in objects : Delete(o)
    \/ \E n \in Names : Crowd(n)
    \/ \E s \in SettingNames : Edit(s)

Spec == Init /\ [][Next]_vars

-----------------------------------------------------------------------------
(* Properties.                                                             *)

\* "Idempotently provision": however often runs die and are repeated, nothing
\* is created twice as long as its collection fits on the page a run reads.
OneEach ==
    \A o, p \in objects :
        o.name = p.name /\ o.of = p.of /\ o.name \notin crowded => o = p

\* A run that gets as far as the configuration leaves everything linked: the
\* role carries the scope, the user has the role, the member has the tenant's
\* role, whichever runs created the parts and whatever other objects there are.
WiredUp ==
    run.stage \in Configuring =>
        \A i \in DOMAIN Steps : LET s == Steps[i] IN
            run.admin \/ s.name \notin AdminSteps =>
                \E o \in objects : /\ o.id = run.found[s.name]
                                   /\ o.name = s.name
                                   /\ Ids(s.of) = o.of
                                   /\ Ids(s.with \cup s.to) \subseteq o.links

\* The id and the secret of an application, in the file and in .env, belong to
\* one application, although each may come from another run, unless runs cannot
\* see it for the crowd.  A secret with another application's id is what is left
\* of a deletion: that id is of no object, so the pair opens nothing.
CredentialsMatch ==
    \A a \in Apps \ crowded : \A c \in {output[a], env[a]} :
        c.secret # 0 /\ c.id # c.secret => \A o \in objects : o.id # c.id

\* A first run that ends well delivers: the file has the id and the secret of
\* each application, however large the provider's collections are.  Of
\* later runs this is not true: DeliversCredentials.
FirstRunDelivers ==
    runs = 1 /\ output # Nothing =>
        \A a \in Apps : output[a].id # 0 /\ output[a].secret = output[a].id

\* Settings are read, changed and written back whole: what somebody set in the
\* console last is there, however many runs came and died since, unless it was
\* set between the read and the write of one (configure_branding,
\* configure_account_center).
EditsSurvive ==
    \A s \in SettingNames : ~settings[s].between => settings[s].theirs = settings[s].edited

\* "... writes the generated credentials to the file given by
\* BOOTSTRAP_OUTPUT_FILE": a run that ended well has left the id and the secret
\* of each application in the file.
DeliversCredentials ==
    output # Nothing =>
        \A a \in Apps : output[a].id # 0 /\ output[a].secret = output[a].id
=============================================================================
