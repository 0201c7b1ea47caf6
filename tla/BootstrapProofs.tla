--------------------------- MODULE BootstrapProofs ---------------------------
(***************************************************************************)
(* What runs of the command leave behind, for any number of runs, deleted  *)
(* applications, crowded collections and edits.                            *)
(***************************************************************************)
EXTENDS Bootstrap, TLAPS

\* What Steps says, step by step.
Table ==
    /\ DOMAIN Steps = 1..10
    /\ Steps[1] = Step("resource", {}, {}, {})
    /\ Steps[2] = Step("scope", {"resource"}, {}, {})
    /\ Steps[3] = Step("adminRole", {}, {"scope"}, {})
    /\ Steps[4] = Step("tenantRole", {}, {"scope"}, {"scope"})
    /\ Steps[5] = Step("organization", {}, {}, {})
    /\ Steps[6] = Step("user", {}, {}, {"adminRole"})
    /\ Steps[7] = Step("member", {"organization", "user"}, {}, {"tenantRole"})
    /\ Steps[8] = Step("webApp", {}, {}, {})
    /\ Steps[9] = Step("m2mApp", {}, {}, {})
    /\ Steps[10] = Step("grant", {"m2mApp"}, {}, {})

LEMMA TableHolds == Table
  BY DEF Table, Steps

LEMMA Numbers == \A i \in 1..10 : i = 1 \/ i = 2 \/ i = 3 \/ i = 4 \/ i = 5
                                   \/ i = 6 \/ i = 7 \/ i = 8 \/ i = 9 \/ i = 10
  OBVIOUS

\* Names are given once, and a step refers to earlier ones only.
LEMMA NameOf ==
    /\ \A i, j \in 1..10 : Steps[i].name = Steps[j].name => i = j
    /\ \A i \in 1..10 : Steps[i].name \in Names
    /\ \A n \in Names : \E i \in 1..10 : n = Steps[i].name
  <1>1. \A i, j \in 1..10 : Steps[i].name = Steps[j].name => i = j
    BY TableHolds, Numbers DEF Table, Step
  <1>2. DOMAIN Steps = 1..10
    BY TableHolds DEF Table
  <1> QED
    BY <1>1, <1>2 DEF Names

Refs(s) == s.of \cup s.with \cup s.to

LEMMA RefsEarlier ==
    \A i \in 1..10 : \A n \in Refs(Steps[i]) : \E j \in 1..i-1 : n = Steps[j].name
  <1> SUFFICES ASSUME NEW i \in 1..10, NEW n \in Refs(Steps[i])
               PROVE  \E j \in 1..i-1 : n = Steps[j].name
    OBVIOUS
  <1>1. i \in {2, 3, 4, 6, 7, 10}
    BY TableHolds, Numbers DEF Table, Step, Refs
  <1>2. CASE i = 2
    BY <1>2, TableHolds DEF Table, Step, Refs
  <1>3. CASE i = 3
    BY <1>3, TableHolds DEF Table, Step, Refs
  <1>4. CASE i = 4
    BY <1>4, TableHolds DEF Table, Step, Refs
  <1>5. CASE i = 6
    BY <1>5, TableHolds DEF Table, Step, Refs
  <1>6. CASE i = 7
    BY <1>6, TableHolds DEF Table, Step, Refs
  <1>7. CASE i = 10
    BY <1>7, TableHolds DEF Table, Step, Refs
  <1> QED
    BY <1>1, <1>2, <1>3, <1>4, <1>5, <1>6, <1>7

-----------------------------------------------------------------------------
(* The inductive invariant.                                                *)

Objects == [id : Nat \ {0}, name : Names, of : SUBSET Nat, links : SUBSET Nat]
Runs == [stage : {"off", "find", "create", "link"} \cup Configuring, pc : 1..10,
         admin : BOOLEAN, copy : [SettingNames -> Nat], found : [Names -> Nat],
         made : SUBSET Nat]
Results == [Apps -> [id : Nat, secret : Nat]]

TypeOK ==
    /\ objects \subseteq Objects
    /\ lastId \in Nat
    /\ crowded \subseteq Names
    /\ deleted \subseteq Apps
    /\ settings \in [SettingNames -> [theirs : Nat, edited : Nat, between : BOOLEAN]]
    /\ edits \in Nat
    /\ run \in Runs
    /\ run.stage \in {"read", "patch"} => run.pc \in DOMAIN Settings
    /\ run.stage = "link" => step.to # {}
    /\ output \in Results
    /\ env \in Results

\* Ids are given out once.
IdInv ==
    /\ \A o \in objects : o.id <= lastId
    /\ \A o, p \in objects : o.id = p.id => o = p

\* What a run is about to create is not there, as far as it can see; the provider
\* sees the rest.
OnceInv ==
    /\ \A o, p \in objects : /\ o.name = p.name
                             /\ o.of = p.of
                             /\ o.name \notin crowded \/ o.name \in Unique
                             => o = p
    /\ run.stage = "create" /\ step.name \notin crowded => Existing = {}

\* There is one resource, one scope in it, and a role that carries it.
TreeInv ==
    /\ \A o \in objects : o.name \in {"resource", "adminRole"} \cup Apps => o.of = {}
    /\ \A o \in objects : o.name = "scope" =>
          \E r \in objects : r.name = "resource" /\ o.of = {r.id}
    /\ \A o \in objects : o.name = "adminRole" =>
          \E c \in objects : c.name = "scope" /\ c.id \in o.links

IdsOf(r, names) == {r.found[n] : n \in names}

\* Object o is what run r has found for step i.
Found(r, i, o) ==
    /\ o.id = r.found[Steps[i].name]
    /\ o.name = Steps[i].name
    /\ o.of = IdsOf(r, Steps[i].of)

Wired(r, S, i) ==
    \E o \in S : Found(r, i, o) /\ IdsOf(r, Steps[i].with \cup Steps[i].to) \subseteq o.links

Skipped(r, i) == ~r.admin /\ Steps[i].name \in AdminSteps

Done(r, S, i) == Skipped(r, i) \/ Wired(r, S, i)

\* The steps run r has behind it.
Behind(r) ==
    CASE r.stage = "off" -> {}
      [] r.stage \in Configuring -> 1..10
      [] OTHER -> 1..r.pc - 1

WiringOf(r, S) ==
    /\ \A i \in Behind(r) : Done(r, S, i)
    /\ r.stage = "link" => \E o \in S : Found(r, r.pc, o)

WiringInv == WiringOf(run, objects)

\* What is known of an application are ids of objects of its name, if they are of
\* any; a run has found its application among the objects.  What has a secret has
\* an id, and .env gets a secret with the id it was written with.
Known(a) == {output[a].id, output[a].secret, env[a].id, env[a].secret, run.found[a]}

Mine(a, v) == v <= lastId /\ \A o \in objects : o.id = v => o.name = a
Here(a) ==
    run.found[a] # 0 => /\ run.stage # "off"
                        /\ \E o \in objects : o.name = a /\ o.id = run.found[a]
Whole(c) == c.secret # 0 => c.id # 0
Fits(a) == output[a].id # 0 /\ output[a].secret = 0 => env[a].secret = 0
Matches(c) == c.secret # 0 /\ c.id # c.secret => \A o \in objects : o.id # c.id

CredentialInv ==
    /\ \A a \in Apps : \A v \in Known(a) \ {0} : Mine(a, v)
    /\ \A a \in Apps : Here(a)
    /\ \A a \in Apps : Whole(output[a]) /\ Whole(env[a]) /\ Fits(a)
    /\ \A a \in Apps \ crowded : Matches(output[a]) /\ Matches(env[a])

\* A run about to write has read the last edit, or one came between.
EditInv ==
    /\ EditsSurvive
    /\ run.stage = "patch" => LET s == Settings[run.pc] IN
          ~settings[s].between => run.copy[s] = settings[s].edited

IInv == /\ TypeOK /\ IdInv /\ OnceInv /\ TreeInv
        /\ WiringInv /\ CredentialInv /\ EditInv

-----------------------------------------------------------------------------
(* What a run does next.                                                   *)

LEMMA Least == ASSUME NEW S \in SUBSET (1..10), S # {}
               PROVE  \E i \in S : \A j \in S : i <= j
  <1>1. \E n \in 1..10 : n \in S /\ \A j \in 1..n-1 : j \notin S
    <2> SUFFICES ASSUME \A n \in 1..10 : n \in S => \E j \in 1..n-1 : j \in S
                 PROVE  FALSE
      OBVIOUS
    <2>1. 1 \notin S
      OBVIOUS
    <2>2. 2 \notin S
      BY <2>1
    <2>3. 3 \notin S
      BY <2>1, <2>2
    <2>4. 4 \notin S
      BY <2>1, <2>2, <2>3
    <2>5. 5 \notin S
      BY <2>1, <2>2, <2>3, <2>4
    <2>6. 6 \notin S
      BY <2>1, <2>2, <2>3, <2>4, <2>5
    <2>7. 7 \notin S
      BY <2>1, <2>2, <2>3, <2>4, <2>5, <2>6
    <2>8. 8 \notin S
      BY <2>1, <2>2, <2>3, <2>4, <2>5, <2>6, <2>7
    <2>9. 9 \notin S
      BY <2>1, <2>2, <2>3, <2>4, <2>5, <2>6, <2>7, <2>8
    <2>10. 10 \notin S
      BY <2>1, <2>2, <2>3, <2>4, <2>5, <2>6, <2>7, <2>8, <2>9
    <2>11. PICK x \in 1..10 : x \in S
      OBVIOUS
    <2> QED
      BY <2>1, <2>2, <2>3, <2>4, <2>5, <2>6, <2>7, <2>8, <2>9, <2>10, <2>11, Numbers
  <1>2. PICK n \in 1..10 : n \in S /\ \A j \in 1..n-1 : j \notin S
    BY <1>1
  <1>3. ASSUME NEW j \in S, j < n PROVE FALSE
    <2>1. j \in 1..n-1
      BY <1>3
    <2> QED
      BY <1>2, <2>1
  <1> QED
    BY <1>2, <1>3

\* After a step a run is through, or looks up the next one that is not skipped.
LEMMA AfterIs ==
    ASSUME NEW r \in Runs
    PROVE  \/ /\ After(r) = [r EXCEPT !.stage = "claims"]
              /\ \A j \in r.pc + 1 .. 10 : Skipped(r, j)
           \/ \E i \in r.pc + 1 .. 10 :
              /\ After(r) = [r EXCEPT !.stage = "find", !.pc = i]
              /\ \A j \in r.pc + 1 .. i - 1 : Skipped(r, j)
  <1> DEFINE later == {i \in r.pc + 1 .. Len(Steps) :
                          r.admin \/ Steps[i].name \notin AdminSteps}
             least == CHOOSE i \in later : \A j \in later : i <= j
  <1>0. Len(Steps) = 10
    BY DEF Steps
  <1>1. r.pc \in 1..10
    BY DEF Runs
  <1>2. CASE later = {}
    BY <1>0, <1>2 DEF After, Skipped
  <1>3. CASE later # {}
    <2>1. later \in SUBSET (1..10)
      BY <1>0, <1>1
    <2>2. \E i \in later : \A j \in later : i <= j
      <3> HIDE DEF later
      <3> QED BY <1>3, <2>1, Least
    <2>3. least \in later /\ \A j \in later : least <= j
      <3> HIDE DEF later
      <3> QED BY <2>2
    <2>4. After(r) = [r EXCEPT !.stage = "find", !.pc = least]
      BY <1>3 DEF After
    <2>5. \A j \in r.pc + 1 .. least - 1 : Skipped(r, j)
      <3>1. ASSUME NEW j \in r.pc + 1 .. least - 1 PROVE j \in r.pc + 1 .. 10 /\ j \notin later
        <4> HIDE DEF least, later
        <4> QED BY <1>1, <2>1, <2>3
      <3>2. ASSUME NEW j \in r.pc + 1 .. 10, j \notin later PROVE Skipped(r, j)
        BY <1>0, <3>2 DEF Skipped
      <3> HIDE DEF least, later
      <3> QED BY <3>1, <3>2, Zenon
    <2>6. least \in r.pc + 1 .. 10
      BY <1>0, <2>3
    <2> QED
      BY <2>4, <2>5, <2>6
  <1> QED
    BY <1>2, <1>3

LEMMA AfterType ==
    ASSUME NEW r \in Runs
    PROVE  /\ After(r) \in Runs
           /\ After(r).stage \in {"find", "claims"}
           /\ After(r).found = r.found
           /\ After(r).made = r.made
  <1>1. CASE After(r) = [r EXCEPT !.stage = "claims"]
    BY <1>1 DEF Runs, Configuring
  <1>2. ASSUME NEW i \in r.pc + 1 .. 10, After(r) = [r EXCEPT !.stage = "find", !.pc = i]
        PROVE  /\ After(r) \in Runs /\ After(r).stage = "find"
               /\ After(r).found = r.found /\ After(r).made = r.made
    <2>1. i \in 1..10
      BY DEF Runs
    <2> QED
      BY <1>2, <2>1 DEF Runs
  <1> QED
    BY <1>1, <1>2, AfterIs

\* A run that has the object of its step, found[n] being the id.
LEMMA HasType ==
    ASSUME NEW r \in Runs, step.name \in Names, NEW id \in Nat
    PROVE  /\ Has(r, id) \in Runs
           /\ Has(r, id).stage \in {"find", "claims", "link"}
           /\ Has(r, id).stage = "link" => step.to # {} /\ Has(r, id).pc = r.pc
           /\ Has(r, id).found = [r.found EXCEPT ![step.name] = id]
           /\ Has(r, id).made = r.made
  <1> DEFINE q == [r EXCEPT !.found[step.name] = id]
  <1>1. /\ q \in Runs /\ q.found = [r.found EXCEPT ![step.name] = id] /\ q.pc = r.pc
        /\ q.made = r.made
    BY DEF Runs
  <1>2. CASE step.to = {}
    <2>1. Has(r, id) = After(q)
      BY <1>2 DEF Has
    <2> HIDE DEF q
    <2> QED BY <1>1, <2>1, AfterType
  <1>3. CASE step.to # {}
    <2>1. Has(r, id) = [q EXCEPT !.stage = "link"]
      BY <1>3 DEF Has
    <2> HIDE DEF q
    <2> QED BY <1>1, <1>3, <2>1 DEF Runs
  <1> QED
    BY <1>2, <1>3

\* Objects a run adds, or that it finds for a later step, disturb no step done.
LEMMA DoneMore ==
    ASSUME NEW S, NEW T, S \subseteq T, NEW r, NEW i, Done(r, S, i)
    PROVE  Done(r, T, i)
  BY DEF Done, Skipped, Wired

LEMMA DoneSame ==
    ASSUME NEW r, NEW q, q.found = r.found, q.admin = r.admin, NEW S, NEW i
    PROVE  /\ Done(q, S, i) <=> Done(r, S, i)
           /\ \A o : Found(q, i, o) <=> Found(r, i, o)
  BY DEF Done, Skipped, Wired, Found, IdsOf

LEMMA IdsLater ==
    ASSUME NEW r, NEW q, NEW k \in 1..10,
           \A n \in Names \ {Steps[k].name} : q.found[n] = r.found[n],
           NEW i \in 1..k
    PROVE  /\ \A names \in SUBSET Refs(Steps[i]) : IdsOf(q, names) = IdsOf(r, names)
           /\ i < k => q.found[Steps[i].name] = r.found[Steps[i].name]
  <1>1. \A n \in Refs(Steps[i]) : n \in Names /\ n # Steps[k].name
    <2> SUFFICES ASSUME NEW n \in Refs(Steps[i]) PROVE n \in Names /\ n # Steps[k].name
      OBVIOUS
    <2>1. PICK j \in 1..i-1 : n = Steps[j].name
      BY RefsEarlier
    <2> QED
      BY <2>1, NameOf
  <1>3. \A names \in SUBSET Refs(Steps[i]) : IdsOf(q, names) = IdsOf(r, names)
    BY <1>1 DEF IdsOf
  <1> QED
    BY <1>3, NameOf

LEMMA DoneLater ==
    ASSUME NEW r, NEW q, NEW k \in 1..10,
           \A n \in Names \ {Steps[k].name} : q.found[n] = r.found[n], q.admin = r.admin,
           NEW S, NEW i \in 1..k-1, Done(r, S, i)
    PROVE  Done(q, S, i)
  <1>0. i \in 1..k /\ i < k
    OBVIOUS
  <1>1. /\ \A names \in SUBSET Refs(Steps[i]) : IdsOf(q, names) = IdsOf(r, names)
        /\ q.found[Steps[i].name] = r.found[Steps[i].name]
    BY <1>0, IdsLater
  <1>2. /\ IdsOf(q, Steps[i].of) = IdsOf(r, Steps[i].of)
        /\ IdsOf(q, Steps[i].with \cup Steps[i].to) = IdsOf(r, Steps[i].with \cup Steps[i].to)
    BY <1>1 DEF Refs
  <1> QED
    BY <1>1, <1>2 DEF Done, Skipped, Wired, Found

\* With its own step done, too, a run goes on well.
LEMMA AfterWired ==
    ASSUME NEW r \in Runs, NEW S, \A i \in 1..r.pc : Done(r, S, i)
    PROVE  WiringOf(After(r), S)
  <1>1. r.pc \in 1..10
    BY DEF Runs
  <1>2. CASE /\ After(r) = [r EXCEPT !.stage = "claims"]
             /\ \A j \in r.pc + 1 .. 10 : Skipped(r, j)
    <2>1. \A i \in 1..10 : i \in 1..r.pc \/ i \in r.pc + 1 .. 10
      BY <1>1
    <2>2. \A i \in 1..10 : Done(r, S, i)
      BY <1>2, <2>1 DEF Done
    <2>3. After(r).found = r.found /\ After(r).admin = r.admin /\ After(r).stage = "claims"
      BY <1>2 DEF Runs
    <2>4. \A i \in 1..10 : Done(After(r), S, i)
      BY <2>2, <2>3, DoneSame
    <2> QED
      BY <2>3, <2>4 DEF WiringOf, Behind, Configuring
  <1>3. ASSUME NEW n \in r.pc + 1 .. 10,
               After(r) = [r EXCEPT !.stage = "find", !.pc = n],
               \A j \in r.pc + 1 .. n - 1 : Skipped(r, j)
        PROVE  WiringOf(After(r), S)
    <2>1. \A i \in 1..n-1 : i \in 1..r.pc \/ i \in r.pc + 1 .. n - 1
      BY <1>1
    <2>2. \A i \in 1..n-1 : Done(r, S, i)
      BY <1>3, <2>1 DEF Done
    <2>3. /\ After(r).found = r.found /\ After(r).admin = r.admin
          /\ After(r).stage = "find" /\ After(r).pc = n
      BY <1>3 DEF Runs
    <2>4. \A i \in 1..n-1 : Done(After(r), S, i)
      BY <2>2, <2>3, DoneSame
    <2> QED
      BY <2>3, <2>4 DEF WiringOf, Behind, Configuring
  <1> QED
    BY <1>2, <1>3, AfterIs

LEMMA OffWired == ASSUME NEW r, r.stage = "off", NEW S PROVE WiringOf(r, S)
  <1>1. Behind(r) = {}
    BY DEF Behind, Configuring
  <1> QED
    BY <1>1 DEF WiringOf

LEMMA HasWired ==
    ASSUME NEW r \in Runs, r.pc = run.pc, NEW S,
           \A i \in 1..r.pc-1 : Done(r, S, i),
           NEW o \in S, o.id \in Nat, o.name = step.name, o.of = IdsOf(r, step.of),
           step.to = {} => IdsOf(r, step.with) \subseteq o.links
    PROVE  WiringOf(Has(r, o.id), S)
  <1> DEFINE q == [r EXCEPT !.found[step.name] = o.id]
  <1>0. r.pc \in 1..10 /\ step = Steps[r.pc]
    BY DEF Runs, step
  <1>1. /\ q \in Runs /\ q.found = [r.found EXCEPT ![step.name] = o.id]
        /\ q.pc = r.pc /\ q.admin = r.admin
    BY DEF Runs
  <1> HIDE DEF q
  <1>a. \A n \in Names \ {Steps[r.pc].name} : q.found[n] = r.found[n]
    BY <1>0, <1>1 DEF Runs
  <1>2. \A i \in 1..r.pc-1 : Done(q, S, i)
    BY <1>0, <1>1, <1>a, DoneLater
  <1>3. \A names \in SUBSET Refs(step) : IdsOf(q, names) = IdsOf(r, names)
    <2>1. PICK k \in 1..10 : k = r.pc
      BY <1>0
    <2>2. \A n \in Names \ {Steps[k].name} : q.found[n] = r.found[n]
      BY <1>a, <2>1
    <2>3. k \in 1..k
      OBVIOUS
    <2>4. \A names \in SUBSET Refs(Steps[k]) : IdsOf(q, names) = IdsOf(r, names)
      BY <2>2, <2>3, IdsLater
    <2> QED
      BY <1>0, <2>1, <2>4
  <1>4. Found(q, r.pc, o)
    <2>1. q.found[step.name] = o.id
      BY <1>0, <1>1, NameOf DEF Runs
    <2>2. IdsOf(q, step.of) = o.of
      BY <1>3 DEF Refs
    <2> QED
      BY <1>0, <2>1, <2>2 DEF Found
  <1>5. CASE step.to = {}
    <2>1. IdsOf(q, step.with \cup step.to) \subseteq o.links
      BY <1>3, <1>5 DEF Refs
    <2>2. Done(q, S, r.pc)
      <3>1. Found(q, r.pc, o) /\ IdsOf(q, Steps[r.pc].with \cup Steps[r.pc].to) \subseteq o.links
        BY <1>0, <1>4, <2>1
      <3> QED BY <3>1 DEF Done, Wired
    <2>3. \A i \in 1..q.pc : i \in 1..r.pc-1 \/ i = r.pc
      BY <1>0, <1>1
    <2>4. Has(r, o.id) = After(q)
      BY <1>5 DEF Has, q
    <2> QED
      BY <1>1, <1>2, <2>2, <2>3, <2>4, AfterWired
  <1>6. CASE step.to # {}
    <2>1. Has(r, o.id) = [q EXCEPT !.stage = "link"]
      BY <1>6 DEF Has, q
    <2>2. /\ Has(r, o.id).found = q.found /\ Has(r, o.id).admin = q.admin
          /\ Has(r, o.id).stage = "link" /\ Has(r, o.id).pc = r.pc
      BY <1>1, <2>1 DEF Runs
    <2>3. \A i \in 1..r.pc-1 : Done(Has(r, o.id), S, i)
      BY <1>2, <2>2, DoneSame
    <2>4. Found(Has(r, o.id), r.pc, o)
      BY <1>4, <2>2, DoneSame
    <2> QED
      BY <2>2, <2>3, <2>4 DEF WiringOf, Behind, Configuring
  <1> QED
    BY <1>5, <1>6
-----------------------------------------------------------------------------
(* What the actions do, for the conjuncts that follow.                     *)

LEMMA OffIs ==
    /\ Off \in Runs
    /\ Off.stage = "off"
    /\ Off.found = [n \in Names |-> 0]
  BY DEF Off, Runs

LEMMA StepIs ==
    ASSUME run \in Runs
    PROVE  /\ run.pc \in 1..10
           /\ step = Steps[run.pc]
           /\ step.name \in Names
           /\ \A n \in Refs(step) : n \in Names
           /\ Ids(step.of) \in SUBSET Nat
           /\ Ids(step.with) \in SUBSET Nat
           /\ Ids(step.to) \in SUBSET Nat
  <1>1. run.pc \in 1..10 /\ step = Steps[run.pc]
    BY DEF Runs, step
  <1>2. \A n \in Refs(Steps[run.pc]) : n \in Names
    <2> SUFFICES ASSUME NEW n \in Refs(Steps[run.pc]) PROVE n \in Names
      OBVIOUS
    <2>1. PICK j \in 1..run.pc-1 : n = Steps[j].name
      BY <1>1, RefsEarlier
    <2>2. j \in 1..10
      BY <1>1
    <2> QED
      BY <2>1, <2>2, NameOf
  <1>3. \A n \in Names : run.found[n] \in Nat
    BY DEF Runs
  <1>4. \A names : (\A n \in names : n \in Names) => Ids(names) \in SUBSET Nat
    BY <1>3 DEF Ids
  <1> QED
    BY <1>1, <1>2, <1>4, NameOf DEF Refs

LEMMA FindIs ==
    ASSUME TypeOK, Find
    PROVE  /\ UNCHANGED <<provider, console, runs, output, env>>
           /\ run.stage = "find"
           /\ \/ run' = Off
              \/ /\ run' = [run EXCEPT !.stage = "create"]
                 /\ step.name \notin crowded => Existing = {}
              \/ \E o \in Existing : run' = Has(run, o.id)
  <1>1. PICK page \in Pages :
          IF page = {} THEN Goes([run EXCEPT !.stage = "create"])
          ELSE \E o \in page : Goes(Has(run, o.id))
    BY DEF Find
  <1>2. \A o \in page : o \in Existing
    BY <1>1 DEF Pages
  <1>3. step.name \notin crowded => page = Existing
    BY <1>1 DEF Pages
  <1>4. CASE page = {}
    BY <1>1, <1>3, <1>4 DEF Goes, Find
  <1>5. CASE page # {}
    BY <1>1, <1>2, <1>5 DEF Goes, Find
  <1> QED
    BY <1>4, <1>5

New1 == [id |-> lastId + 1, name |-> step.name, of |-> Ids(step.of), links |-> Ids(step.with)]
Making == [run EXCEPT !.made = @ \cup {lastId + 1}]

LEMMA CreateIs ==
    ASSUME TypeOK, Create
    PROVE  /\ UNCHANGED <<crowded, deleted, console, runs, output, env>>
           /\ run.stage = "create"
           /\ step.name \in Unique => Existing = {}
           /\ objects' = objects \cup {New1}
           /\ New1 \in Objects
           /\ lastId' = New1.id
           /\ Making \in Runs /\ Making.pc = run.pc
           /\ Making.found = run.found /\ Making.admin = run.admin
           /\ run' = Off \/ run' = Has(Making, New1.id)
  <1>1. lastId + 1 \in Nat \ {0}
    BY DEF TypeOK
  <1>2. run \in Runs
    BY DEF TypeOK
  <1>3. New1 \in Objects
    BY <1>1, <1>2, StepIs DEF Objects, New1
  <1>4. /\ Making \in Runs /\ Making.pc = run.pc
        /\ Making.found = run.found /\ Making.admin = run.admin
    BY <1>1, <1>2 DEF Making, Runs
  <1> QED
    BY <1>3, <1>4 DEF Create, Goes, New1, Making

LEMMA LinkIs ==
    ASSUME TypeOK, Link
    PROVE  /\ UNCHANGED <<lastId, crowded, deleted, console, runs, output, env>>
           /\ run.stage = "link"
           /\ run' = Off \/ run' = After(run)
           /\ \A p \in objects' : \E o \in objects :
                 /\ p.id = o.id /\ p.name = o.name /\ p.of = o.of
                 /\ IF o.id = run.found[step.name] THEN p.links = Ids(step.to)
                                                   ELSE p = o
           /\ \A o \in objects : \E p \in objects' :
                 /\ p.id = o.id /\ p.name = o.name /\ p.of = o.of
                 /\ IF o.id = run.found[step.name] THEN p.links = Ids(step.to)
                                                   ELSE p = o
           /\ objects' \subseteq Objects
  <1> DEFINE Linked(o) == IF o.id = run.found[step.name]
                          THEN [o EXCEPT !.links = Ids(step.to)] ELSE o
  <1>1. objects' = {Linked(o) : o \in objects}
    BY DEF Link
  <1>2. ASSUME NEW o \in objects
        PROVE  /\ Linked(o).id = o.id /\ Linked(o).name = o.name /\ Linked(o).of = o.of
               /\ IF o.id = run.found[step.name] THEN Linked(o).links = Ids(step.to)
                                                 ELSE Linked(o) = o
               /\ Linked(o) \in Objects
    <2>1. o \in Objects /\ run \in Runs
      BY DEF TypeOK
    <2>2. Ids(step.to) \in SUBSET Nat
      BY <2>1, StepIs
    <2> QED
      BY <2>1, <2>2 DEF Objects
  <1> HIDE DEF Linked
  <1>3. \A p \in objects' : \E o \in objects : p = Linked(o)
    BY <1>1
  <1>4. \A o \in objects : Linked(o) \in objects'
    BY <1>1
  <1>5. \A p \in objects' : \E o \in objects :
                 /\ p.id = o.id /\ p.name = o.name /\ p.of = o.of
                 /\ IF o.id = run.found[step.name] THEN p.links = Ids(step.to)
                                                   ELSE p = o
    BY <1>2, <1>3
  <1>6. \A o \in objects : \E p \in objects' :
                 /\ p.id = o.id /\ p.name = o.name /\ p.of = o.of
                 /\ IF o.id = run.found[step.name] THEN p.links = Ids(step.to)
                                                   ELSE p = o
    BY <1>2, <1>4
  <1>7. objects' \subseteq Objects
    BY <1>2, <1>3
  <1> QED
    BY <1>5, <1>6, <1>7 DEF Link, Goes

\* The actions that leave the objects and a run's place among them alone.
Aside == Start(TRUE) \/ Start(FALSE) \/ ConfigureClaims \/ Read \/ Patch \/ Die
             \/ Write \/ Save \/ (\E s \in SettingNames : Edit(s))

LEMMA NextIs ==
    ASSUME [Next]_vars
    PROVE  \/ Find \/ Create \/ Link \/ Aside
           \/ \E o \in objects : Delete(o)
           \/ \E n \in Names : Crowd(n)
           \/ UNCHANGED vars
  BY DEF Next, Aside

LEMMA AsideIs ==
    ASSUME TypeOK, Aside
    PROVE  /\ UNCHANGED provider
           /\ run' \in Runs
           /\ \/ run' = Off \/ run' = run
              \/ /\ run'.stage = "find" /\ run'.pc = 1
                 /\ run'.found = Off.found
              \/ /\ run.stage \in Configuring /\ run'.stage \in Configuring
                 /\ run'.found = run.found /\ run'.admin = run.admin
  <1>0. run \in Runs
    BY DEF TypeOK
  <1>1. ASSUME NEW admin \in BOOLEAN, Start(admin)
        PROVE  /\ UNCHANGED provider /\ run' \in Runs
               /\ run'.stage = "find" /\ run'.pc = 1 /\ run'.found = Off.found
    BY <1>1, OffIs DEF Start, Runs, Off
  <1>2. CASE ConfigureClaims
    <2>1. CASE run' = Off
      BY <1>2, <2>1, OffIs DEF ConfigureClaims
    <2>2. CASE run' = [run EXCEPT !.stage = "read", !.pc = 1]
      <3>0. PICK k \in 1..10 : k = 1
        OBVIOUS
      <3>1. run' = [run EXCEPT !.stage = "read", !.pc = k]
        BY <2>2, <3>0
      <3>2. run' \in Runs /\ run'.stage = "read" /\ run'.found = run.found /\ run'.admin = run.admin
        BY <1>0, <3>1 DEF Runs, Configuring
      <3> QED BY <1>2, <3>2 DEF ConfigureClaims, Configuring
    <2> QED
      BY <1>2, <2>1, <2>2 DEF ConfigureClaims, Goes
  <1>3. CASE Read
    <2> DEFINE s == Settings[run.pc]
    <2>1. CASE run' = Off
      BY <1>3, <2>1, OffIs DEF Read
    <2>2. CASE run' = [run EXCEPT !.stage = "patch", !.copy[s] = settings[s].theirs]
      <3>1. s \in SettingNames /\ settings[s].theirs \in Nat
        BY <1>3 DEF TypeOK, Read, SettingNames
      <3> HIDE DEF s
      <3> QED BY <1>0, <1>3, <2>2, <3>1 DEF Read, Configuring, Runs
    <2> QED
      BY <1>3, <2>1, <2>2 DEF Read, Goes
  <1>4. CASE Patch
    <2>1. CASE run' = Off
      BY <1>4, <2>1, OffIs DEF Patch
    <2>2. CASE run' = [run EXCEPT !.stage = "write"]
      BY <1>0, <1>4, <2>2 DEF Patch, Configuring, Runs
    <2>3. CASE run' = [run EXCEPT !.stage = "read", !.pc = @ + 1]
      <3>1. run.pc + 1 \in 1..10
        BY <1>4 DEF TypeOK, Patch, Settings
      <3> QED BY <1>0, <1>4, <2>3, <3>1 DEF Patch, Configuring, Runs
    <2> QED
      BY <1>4, <2>1, <2>2, <2>3 DEF Patch, Goes
  <1>5. CASE Die
    BY <1>5, OffIs DEF Die
  <1>6. CASE Write
    BY <1>6, OffIs DEF Write, provider
  <1>7. CASE Save
    BY <1>0, <1>7 DEF Save
  <1>8. ASSUME NEW s \in SettingNames, Edit(s)
        PROVE  UNCHANGED provider /\ run' = run
    BY <1>8 DEF Edit
  <1> QED
    BY <1>0, <1>1, <1>2, <1>3, <1>4, <1>5, <1>6, <1>7, <1>8 DEF Aside

-----------------------------------------------------------------------------
(* Each conjunct is kept.                                                  *)

LEMMA TypeInit == Init => TypeOK
  BY OffIs DEF Init, TypeOK, Results, Nothing

LEMMA RunNext ==
    ASSUME TypeOK, [Next]_vars
    PROVE  /\ run' \in Runs
           /\ run'.stage \in {"read", "patch"} => run'.pc \in DOMAIN Settings
           /\ run'.stage = "link" => Steps[run'.pc].to # {}
  <1> DEFINE Good(r) == /\ r \in Runs
                        /\ r.stage \in {"read", "patch"} => r.pc \in DOMAIN Settings
                        /\ r.stage = "link" => Steps[r.pc].to # {}
  <1>0. Good(run) /\ run \in Runs /\ step.name \in Names /\ step = Steps[run.pc]
    BY StepIs DEF TypeOK
  <1>1. Good(Off)
    BY OffIs
  <1>2. CASE Find
    <2>1. Good([run EXCEPT !.stage = "create"])
      BY <1>0 DEF Runs
    <2>2. ASSUME NEW o \in Existing PROVE Good(Has(run, o.id))
      <3>1. o.id \in Nat
        BY DEF Existing, TypeOK, Objects
      <3> QED BY <1>0, <3>1, HasType
    <2> QED
      BY <1>1, <1>2, <2>1, <2>2, FindIs
  <1>3. CASE Create
    <2>1. Making \in Runs /\ Making.pc = run.pc /\ New1.id \in Nat
      BY <1>3, CreateIs DEF Objects
    <2>2. Good(Has(Making, New1.id))
      BY <1>0, <2>1, HasType
    <2> QED
      BY <1>1, <1>3, <2>2, CreateIs
  <1>4. CASE Link
    <2>1. Good(After(run))
      BY <1>0, AfterType
    <2> QED
      BY <1>1, <1>4, <2>1, LinkIs
  <1>5. CASE Aside
    <2>0. DOMAIN Settings = 1..2 /\ Len(Settings) = 2
      BY DEF Settings
    <2>1. CASE ConfigureClaims
      <3>1. ASSUME run' = [run EXCEPT !.stage = "read", !.pc = 1]
            PROVE  Good(run')
        <4>1. PICK k \in 1..10 : k = 1
          OBVIOUS
        <4>2. run' = [run EXCEPT !.stage = "read", !.pc = k]
          BY <3>1, <4>1
        <4>3. run' \in Runs /\ run'.stage = "read" /\ run'.pc = k
          BY <1>0, <4>2 DEF Runs, Configuring
        <4> QED BY <2>0, <4>1, <4>3
      <3> QED BY <1>1, <2>1, <3>1 DEF ConfigureClaims, Goes
    <2>2. CASE Read
      BY <1>1, <1>0, <2>2, <1>5, AsideIs DEF Read, Goes, Runs
    <2>3. CASE Patch
      <3>1. Good([run EXCEPT !.stage = "write"])
        BY <1>0 DEF Runs, Configuring
      <3>2. ASSUME run.pc # Len(Settings), run' = [run EXCEPT !.stage = "read", !.pc = @ + 1]
            PROVE  Good(run')
        <4>1. run.stage = "patch" /\ run.pc = 1
          BY <1>0, <2>0, <2>3, <3>2 DEF Patch
        <4>2. PICK k \in 1..10 : k = 2
          OBVIOUS
        <4>3. run' = [run EXCEPT !.stage = "read", !.pc = k]
          BY <3>2, <4>1, <4>2
        <4>4. run' \in Runs /\ run'.stage = "read" /\ run'.pc = k
          BY <1>0, <4>3 DEF Runs, Configuring
        <4> QED BY <2>0, <4>2, <4>4
      <3> QED BY <1>1, <2>3, <3>1, <3>2 DEF Patch, Goes
    <2>4. CASE Start(TRUE) \/ Start(FALSE)
      <3>1. run' \in Runs /\ run'.stage = "find"
        BY <2>4, <1>5, AsideIs DEF Start, Off
      <3> QED BY <3>1
    <2>5. CASE Die \/ Write \/ Save \/ \E s \in SettingNames : Edit(s)
      BY <1>0, <1>1, <2>5 DEF Die, Write, Save, Edit
    <2> QED
      BY <1>5, <2>1, <2>2, <2>3, <2>4, <2>5 DEF Aside
  <1>6. CASE \/ \E o \in objects : Delete(o)
             \/ \E n \in Names : Crowd(n)
             \/ UNCHANGED vars
    BY <1>0, <1>6 DEF Delete, Crowd, vars
  <1> QED
    BY <1>2, <1>3, <1>4, <1>5, <1>6, NextIs

LEMMA TypeNext == TypeOK /\ [Next]_vars => TypeOK'
  <1> SUFFICES ASSUME TypeOK, [Next]_vars PROVE TypeOK'
    OBVIOUS
  <1>1. objects' \subseteq Objects /\ lastId' \in Nat
    <2>1. CASE Create
      BY <2>1, CreateIs DEF TypeOK, Objects
    <2>2. CASE Link
      BY <2>2, LinkIs DEF TypeOK
    <2>3. CASE Find \/ Aside \/ UNCHANGED vars
      BY <2>3, FindIs, AsideIs DEF TypeOK, provider, vars
    <2>4. CASE (\E o \in objects : Delete(o)) \/ \E n \in Names : Crowd(n)
      BY <2>4 DEF TypeOK, Delete, Crowd
    <2> QED
      BY <2>1, <2>2, <2>3, <2>4, NextIs
  <1>2. crowded' \subseteq Names /\ deleted' \subseteq Apps
    <2>1. CASE Create \/ Link \/ Find \/ Aside \/ UNCHANGED vars
      BY <2>1, CreateIs, LinkIs, FindIs, AsideIs DEF TypeOK, provider, vars
    <2>2. CASE (\E o \in objects : Delete(o)) \/ \E n \in Names : Crowd(n)
      BY <2>2 DEF TypeOK, Delete, Crowd
    <2> QED
      BY <2>1, <2>2, NextIs
  <1>3. /\ settings' \in [SettingNames -> [theirs : Nat, edited : Nat, between : BOOLEAN]]
        /\ edits' \in Nat
    <2>1. ASSUME NEW s \in SettingNames, Edit(s)
          PROVE  /\ settings' \in [SettingNames -> [theirs : Nat, edited : Nat, between : BOOLEAN]]
                 /\ edits' \in Nat
      <3>1. edits' \in Nat
        BY <2>1 DEF TypeOK, Edit
      <3>2. (run.stage = "patch" /\ Settings[run.pc] = s) \in BOOLEAN
        OBVIOUS
      <3>3. PICK b \in BOOLEAN : settings' =
               [settings EXCEPT ![s] = [theirs |-> edits', edited |-> edits', between |-> b]]
        BY <2>1, <3>2 DEF Edit
      <3> QED BY <3>1, <3>3 DEF TypeOK
    <2>2. CASE Patch
      <3>1. /\ run.copy \in [SettingNames -> Nat] /\ Settings[run.pc] \in SettingNames
        BY <2>2 DEF TypeOK, Runs, Patch, SettingNames
      <3> QED BY <2>2, <3>1 DEF TypeOK, Patch, console
    <2>3. CASE UNCHANGED console
      BY <2>3 DEF TypeOK, console
    <2>4. CASE ~Patch /\ \A s \in SettingNames : ~Edit(s)
      <3>1. UNCHANGED console
        BY <2>4 DEF Next, Start, Find, Create, Link, ConfigureClaims, Read, Die, Write,
                    Save, Delete, Crowd, vars
      <3> QED BY <2>3, <3>1
    <2> QED
      BY <2>1, <2>2, <2>4
  <1>4. output' \in Results /\ env' \in Results
    <2>1. CASE Write
      <3>1. \A a \in Apps : Result(a) \in [id : Nat, secret : Nat]
        <4> SUFFICES ASSUME NEW a \in Apps PROVE Result(a) \in [id : Nat, secret : Nat]
          OBVIOUS
        <4>1. a \in Names
          BY NameOf, TableHolds DEF Apps, Table, Step
        <4>2. run.found[a] \in Nat /\ env[a].id \in Nat /\ env[a].secret \in Nat
          BY <4>1 DEF TypeOK, Runs, Results
        <4> QED BY <4>2 DEF Result, Or
      <3>2. Nothing \in Results
        BY DEF Nothing, Results
      <3> QED BY <2>1, <3>1, <3>2 DEF Write, TypeOK, Results
    <2>2. CASE Save
      BY <2>2 DEF Save, TypeOK, Results, Or
    <2>3. CASE ~Write /\ ~Save
      <3>1. UNCHANGED <<output, env>>
        BY <2>3 DEF Next, Start, Find, Create, Link, ConfigureClaims, Read, Patch, Die,
                    Delete, Crowd, Edit, vars
      <3> QED BY <3>1 DEF TypeOK
    <2> QED
      BY <2>1, <2>2, <2>3
  <1> QED
    BY <1>1, <1>2, <1>3, <1>4, RunNext DEF TypeOK, step

LEMMA IdNext == TypeOK /\ IdInv /\ [Next]_vars => IdInv'
  <1> SUFFICES ASSUME TypeOK, IdInv, [Next]_vars PROVE IdInv'
    OBVIOUS
  <1>1. CASE Create
    <2>1. objects' = objects \cup {New1} /\ lastId' = lastId + 1 /\ New1.id = lastId + 1
      BY <1>1, CreateIs DEF New1
    <2>2. \A o \in objects : o.id \in Nat /\ o.id <= lastId
      BY DEF IdInv, TypeOK, Objects
    <2>3. lastId \in Nat
      BY DEF TypeOK
    <2>4. ASSUME NEW o \in objects', NEW p \in objects', o.id = p.id PROVE o = p
      BY <2>1, <2>2, <2>3, <2>4 DEF IdInv
    <2>5. ASSUME NEW o \in objects' PROVE o.id <= lastId'
      BY <2>1, <2>2, <2>3
    <2> QED
      BY <2>4, <2>5 DEF IdInv
  <1>2. CASE Link
    <2>1. ASSUME NEW o \in objects' PROVE o.id <= lastId'
      BY <1>2, LinkIs DEF IdInv
    <2>2. ASSUME NEW o \in objects', NEW p \in objects', o.id = p.id PROVE o = p
      <3> DEFINE Linked(q) == IF q.id = run.found[step.name]
                              THEN [q EXCEPT !.links = Ids(step.to)] ELSE q
      <3>1. PICK o1 \in objects : o = Linked(o1)
        BY <1>2 DEF Link
      <3>2. PICK p1 \in objects : p = Linked(p1)
        BY <1>2 DEF Link
      <3>3. o.id = o1.id /\ p.id = p1.id
        BY <3>1, <3>2 DEF TypeOK, Objects
      <3> QED BY <2>2, <3>1, <3>2, <3>3 DEF IdInv
    <2> QED
      BY <2>1, <2>2 DEF IdInv
  <1>3. CASE objects' \subseteq objects /\ lastId' = lastId
    BY <1>3 DEF IdInv
  <1>4. CASE Find \/ Aside \/ UNCHANGED vars
    BY <1>3, <1>4, FindIs, AsideIs DEF provider, vars
  <1>5. CASE (\E o \in objects : Delete(o)) \/ \E n \in Names : Crowd(n)
    BY <1>3, <1>5 DEF Delete, Crowd
  <1> QED
    BY <1>1, <1>2, <1>4, <1>5, NextIs

LEMMA OnceNext == TypeOK /\ IdInv /\ OnceInv /\ [Next]_vars => OnceInv'
  <1> SUFFICES ASSUME TypeOK, IdInv, OnceInv, [Next]_vars PROVE OnceInv'
    OBVIOUS
  <1> USE DEF OnceInv
  <1>0. run \in Runs /\ step.name \in Names
    BY StepIs DEF TypeOK
  <1>1. CASE Find
    <2>1. UNCHANGED <<objects, crowded>>
      BY <1>1, FindIs DEF provider
    <2>2. CASE run' = Off
      BY <2>1, <2>2, OffIs
    <2>3. CASE run' = [run EXCEPT !.stage = "create"] /\ (step.name \notin crowded => Existing = {})
      <3>1. run'.pc = run.pc /\ run'.found = run.found
        BY <1>0, <2>3 DEF Runs
      <3>2. step' = step /\ Existing' = Existing
        BY <2>1, <3>1 DEF Existing, step, Ids
      <3> QED BY <2>1, <2>3, <3>2
    <2>4. ASSUME NEW o \in Existing, run' = Has(run, o.id) PROVE OnceInv'
      <3>1. o.id \in Nat
        BY DEF Existing, TypeOK, Objects
      <3>2. run'.stage # "create"
        BY <1>0, <2>4, <3>1, HasType
      <3> QED BY <2>1, <3>2
    <2> QED
      BY <1>1, <2>2, <2>3, <2>4, FindIs
  <1>2. CASE Create
    <2>1. /\ objects' = objects \cup {New1} /\ crowded' = crowded
          /\ New1.name = step.name /\ New1.of = Ids(step.of) /\ New1.id \in Nat
      BY <1>2, CreateIs DEF New1, Objects
    <2>2. \A o \in objects : o.name = New1.name /\ o.of = New1.of => o \in Existing
      BY <2>1 DEF Existing
    <2>3. step.name \notin crowded \/ step.name \in Unique => Existing = {}
      BY <1>2, CreateIs
    <2>4. ASSUME NEW o \in objects', NEW p \in objects', o.name = p.name, o.of = p.of,
                 o.name \notin crowded' \/ o.name \in Unique
          PROVE  o = p
      BY <2>1, <2>2, <2>3, <2>4
    <2>5. run'.stage # "create"
      BY <1>0, <1>2, <2>1, CreateIs, HasType, OffIs
    <2> QED
      BY <2>4, <2>5
  <1>3. CASE Link
    <2>1. ASSUME NEW o \in objects', NEW p \in objects', o.name = p.name, o.of = p.of,
                 o.name \notin crowded' \/ o.name \in Unique
          PROVE  o = p
      <3>1. PICK o1 \in objects : o.id = o1.id /\ o.name = o1.name /\ o.of = o1.of
        BY <1>3, LinkIs
      <3>2. PICK p1 \in objects : p.id = p1.id /\ p.name = p1.name /\ p.of = p1.of
        BY <1>3, LinkIs
      <3>3. o1 = p1
        <4>1. crowded' = crowded
          BY <1>3, LinkIs
        <4>2. o1.name = p1.name /\ o1.of = p1.of /\ (o1.name \notin crowded \/ o1.name \in Unique)
          BY <2>1, <3>1, <3>2, <4>1
        <4> QED BY <4>2
      <3>4. o.id = p.id
        BY <3>1, <3>2, <3>3
      <3> QED BY <3>4, IdNext DEF IdInv
    <2>2. run'.stage # "create"
      BY <1>0, <1>3, LinkIs, AfterType, OffIs
    <2> QED
      BY <2>1, <2>2
  <1>4. CASE Aside
    <2>1. UNCHANGED <<objects, crowded>>
      BY <1>4, AsideIs DEF provider
    <2>2. CASE run' = run
      <3>1. step' = step /\ Existing' = Existing
        BY <2>1, <2>2 DEF Existing, step, Ids
      <3> QED BY <2>1, <2>2, <3>1
    <2>3. CASE run' # run
      <3>1. run'.stage # "create"
        BY <1>4, <2>3, AsideIs, OffIs DEF Configuring
      <3> QED BY <2>1, <3>1
    <2> QED
      BY <2>2, <2>3
  <1>5. CASE \E o \in objects : Delete(o)
    BY <1>5 DEF Delete
  <1>6. CASE \E n \in Names : Crowd(n)
    <2>1. step' = step /\ Existing' = Existing /\ run' = run /\ objects' = objects
      BY <1>6 DEF Crowd, Existing, step, Ids
    <2>2. crowded \subseteq crowded'
      BY <1>6 DEF Crowd
    <2> QED
      BY <2>1, <2>2
  <1>7. CASE UNCHANGED vars
    <2>1. step' = step /\ Existing' = Existing
      BY <1>7 DEF Existing, step, Ids, vars, provider
    <2> QED
      BY <1>7, <2>1 DEF vars, provider
  <1> QED
    BY <1>1, <1>2, <1>3, <1>4, <1>5, <1>6, <1>7, NextIs

\* What one step of a run finds, it finds under the name of that step.
LEMMA Named ==
    ASSUME TypeOK, IdInv, WiringInv, run.stage = "link"
    PROVE  \A o \in objects : o.id = run.found[step.name] => Found(run, run.pc, o)
  BY DEF TypeOK, IdInv, WiringInv, WiringOf, Found, step

LEMMA TreeNext == IInv /\ [Next]_vars => TreeInv'
  <1> SUFFICES ASSUME IInv, [Next]_vars PROVE TreeInv'
    OBVIOUS
  <1> USE DEF TreeInv
  <1>a. TypeOK /\ IdInv /\ OnceInv /\ TreeInv /\ WiringInv /\ run \in Runs
    BY DEF IInv, TypeOK
  <1>b. step = Steps[run.pc] /\ run.pc \in 1..10 /\ step.name \in Names
    BY <1>a, StepIs
  <1>1. CASE Create
    <2>1. /\ objects' = objects \cup {New1} /\ run.stage = "create"
          /\ New1.name = step.name /\ New1.of = Ids(step.of) /\ New1.links = Ids(step.with)
      BY <1>1, <1>a, CreateIs DEF New1
    <2>2. New1.name \in {"resource", "adminRole"} \cup Apps => New1.of = {}
      <3>1. step.name \in {"resource", "adminRole"} \cup Apps => step.of = {}
        BY <1>b, TableHolds, Numbers DEF Table, Step, Apps
      <3> QED BY <2>1, <3>1 DEF Ids
    <2>3. \A i \in 1..run.pc-1 : Done(run, objects, i)
      BY <1>a, <2>1 DEF WiringInv, WiringOf, Behind, Configuring
    <2>4. \A i \in {1, 2} : ~Skipped(run, i)
      BY TableHolds DEF Table, Step, Skipped, AdminSteps
    <2>5. ASSUME New1.name = "scope"
          PROVE  \E r \in objects : r.name = "resource" /\ New1.of = {r.id}
      <3>1. run.pc = 2 /\ step.of = {"resource"}
        <4>1. step.name = "scope"
          BY <2>1, <2>5
        <4>2. Steps[2].name = "scope" /\ Steps[2].of = {"resource"}
          BY TableHolds DEF Table, Step
        <4>3. run.pc = 2
          BY <1>b, <4>1, <4>2, NameOf
        <4> QED BY <1>b, <4>2, <4>3
      <3>2. Wired(run, objects, 1)
        BY <2>3, <2>4, <3>1 DEF Done
      <3>3. PICK r \in objects : Found(run, 1, r)
        BY <3>2 DEF Wired
      <3>4. r.name = "resource" /\ r.id = run.found["resource"]
        BY <3>3, TableHolds DEF Found, Table, Step
      <3>5. New1.of = {run.found["resource"]}
        BY <2>1, <3>1 DEF Ids
      <3> QED BY <3>4, <3>5
    <2>6. ASSUME New1.name = "adminRole"
          PROVE  \E c \in objects : c.name = "scope" /\ c.id \in New1.links
      <3>1. run.pc = 3 /\ step.with = {"scope"}
        <4>1. step.name = "adminRole"
          BY <2>1, <2>6
        <4>2. Steps[3].name = "adminRole" /\ Steps[3].with = {"scope"}
          BY TableHolds DEF Table, Step
        <4>3. run.pc = 3
          BY <1>b, <4>1, <4>2, NameOf
        <4> QED BY <1>b, <4>2, <4>3
      <3>2. Wired(run, objects, 2)
        BY <2>3, <2>4, <3>1 DEF Done
      <3>3. PICK c \in objects : Found(run, 2, c)
        BY <3>2 DEF Wired
      <3>4. c.name = "scope" /\ c.id = run.found["scope"]
        BY <3>3, TableHolds DEF Found, Table, Step
      <3>5. New1.links = {run.found["scope"]}
        BY <2>1, <3>1 DEF Ids
      <3> QED BY <3>4, <3>5
    <2>7. objects \subseteq objects' /\ \A o \in objects' : o \in objects \/ o = New1
      BY <2>1
    <2> HIDE DEF TreeInv
    <2>8. \A o \in objects' : o.name \in {"resource", "adminRole"} \cup Apps => o.of = {}
      BY <1>a, <2>2, <2>7 DEF TreeInv
    <2>9. \A o \in objects' : o.name = "scope" =>
             \E r \in objects' : r.name = "resource" /\ o.of = {r.id}
      BY <1>a, <2>5, <2>7 DEF TreeInv
    <2>10. \A o \in objects' : o.name = "adminRole" =>
             \E c \in objects' : c.name = "scope" /\ c.id \in o.links
      BY <1>a, <2>6, <2>7 DEF TreeInv
    <2> QED
      BY <2>8, <2>9, <2>10 DEF TreeInv
  <1>2. CASE Link
    <2>1. step.name # "adminRole"
      <3>1. step.to # {}
        BY <1>2, <1>a, LinkIs DEF TypeOK
      <3> QED BY <1>b, <3>1, TableHolds, Numbers DEF Table, Step
    <2>2. \A o \in objects : o.id = run.found[step.name] => o.name = step.name
      BY <1>2, <1>a, <1>b, LinkIs, Named DEF Found
    <2>3. \A p \in objects' : \E o \in objects :
             /\ p.id = o.id /\ p.name = o.name /\ p.of = o.of
             /\ o.name = "adminRole" => p = o
      BY <1>2, <1>a, <2>1, <2>2, LinkIs
    <2>4. \A o \in objects : \E p \in objects' : p.id = o.id /\ p.name = o.name
      BY <1>2, <1>a, LinkIs
    <2> HIDE DEF TreeInv
    <2>5. \A p \in objects' : p.name \in {"resource", "adminRole"} \cup Apps => p.of = {}
      BY <1>a, <2>3 DEF TreeInv
    <2>6. \A p \in objects' : p.name = "scope" =>
             \E r \in objects' : r.name = "resource" /\ p.of = {r.id}
      BY <1>a, <2>3, <2>4 DEF TreeInv
    <2>7. \A p \in objects' : p.name = "adminRole" =>
             \E c \in objects' : c.name = "scope" /\ c.id \in p.links
      BY <1>a, <2>3, <2>4 DEF TreeInv
    <2> QED
      BY <2>5, <2>6, <2>7 DEF TreeInv
  <1>3. ASSUME NEW d \in objects, Delete(d) PROVE TreeInv'
    <2>1. d.name \in Apps /\ objects' = {p \in objects : p # d /\ d.id \notin p.of}
      BY <1>3 DEF Delete
    <2>2. \A o \in objects : o.name = "resource" => o \in objects'
      BY <1>a, <2>1 DEF Apps
    <2>3. \A o \in objects : o.name = "scope" => o \in objects'
      <3> SUFFICES ASSUME NEW o \in objects, o.name = "scope" PROVE o \in objects'
        OBVIOUS
      <3>1. PICK r \in objects : r.name = "resource" /\ o.of = {r.id}
        BY <1>a
      <3>2. r.id # d.id
        BY <1>a, <2>1, <3>1 DEF IdInv, Apps
      <3> QED BY <2>1, <3>1, <3>2 DEF Apps
    <2>4. objects' \subseteq objects
      BY <2>1
    <2> QED
      BY <1>a, <2>2, <2>3, <2>4
  <1>4. CASE UNCHANGED objects
    BY <1>4, <1>a
  <1>5. CASE Find \/ Aside \/ UNCHANGED vars
    BY <1>a, <1>4, <1>5, FindIs, AsideIs DEF provider, vars
  <1>6. CASE \E n \in Names : Crowd(n)
    BY <1>4, <1>6 DEF Crowd
  <1> QED
    BY <1>1, <1>2, <1>3, <1>5, <1>6, NextIs

\* A role found, not created, carries the scope the run has found: there is one.
LEMMA FoundLinked ==
    ASSUME IInv, run.stage = "find", NEW o \in Existing, step.to = {}
    PROVE  IdsOf(run, step.with) \subseteq o.links
  <1>a. TypeOK /\ OnceInv /\ TreeInv /\ WiringInv /\ run \in Runs
    BY DEF IInv, TypeOK
  <1>b. step = Steps[run.pc] /\ run.pc \in 1..10
    BY <1>a, StepIs
  <1>1. step.with = {} \/ run.pc = 3
    BY <1>b, TableHolds, Numbers DEF Table, Step
  <1>2. CASE step.with = {}
    BY <1>2 DEF IdsOf
  <1>3. CASE run.pc = 3
    <2>1. /\ Steps[1].name = "resource" /\ Steps[1].of = {}
          /\ Steps[2].name = "scope" /\ Steps[2].of = {"resource"}
          /\ Steps[3].name = "adminRole" /\ Steps[3].with = {"scope"}
      BY TableHolds DEF Table, Step
    <2>2. Done(run, objects, 1) /\ Done(run, objects, 2)
      BY <1>a, <1>3 DEF WiringInv, WiringOf, Behind, Configuring
    <2>3. Wired(run, objects, 1) /\ Wired(run, objects, 2)
      BY <2>1, <2>2 DEF Done, Skipped, AdminSteps
    <2>4. PICK r \in objects : Found(run, 1, r)
      BY <2>3 DEF Wired
    <2>5. PICK c \in objects : Found(run, 2, c)
      BY <2>3 DEF Wired
    <2>6. r.name = "resource" /\ r.of = {} /\ r.id = run.found["resource"]
      BY <2>1, <2>4 DEF Found, IdsOf
    <2>7. c.name = "scope" /\ c.of = {r.id} /\ c.id = run.found["scope"]
      BY <2>1, <2>5, <2>6 DEF Found, IdsOf
    <2>8. o \in objects /\ o.name = "adminRole"
      BY <1>b, <1>3, <2>1 DEF Existing
    <2>9. PICK d \in objects : d.name = "scope" /\ d.id \in o.links
      BY <1>a, <2>8 DEF TreeInv
    <2>10. PICK q \in objects : q.name = "resource" /\ d.of = {q.id}
      BY <1>a, <2>9 DEF TreeInv
    <2>11. {"resource", "scope"} \subseteq Unique
      <3>1. {"resource", "scope"} \subseteq Names
        BY <2>1, NameOf
      <3> QED BY <3>1 DEF Unique, Apps
    <2>12. q.of = {}
      BY <1>a, <2>10 DEF TreeInv
    <2>13. q = r
      BY <1>a, <2>6, <2>10, <2>11, <2>12 DEF OnceInv
    <2>14. d = c
      BY <1>a, <2>7, <2>9, <2>10, <2>11, <2>13 DEF OnceInv
    <2> QED
      BY <1>b, <1>3, <2>1, <2>7, <2>9, <2>14 DEF IdsOf
  <1> QED
    BY <1>1, <1>2, <1>3

LEMMA WiringNext == IInv /\ [Next]_vars => WiringInv'
  <1> SUFFICES ASSUME IInv, [Next]_vars PROVE WiringInv'
    OBVIOUS
  <1>a. TypeOK /\ IdInv /\ WiringInv /\ run \in Runs
    BY DEF IInv, TypeOK
  <1>b. step = Steps[run.pc] /\ run.pc \in 1..10 /\ step.name \in Names
    BY <1>a, StepIs
  <1>0. ASSUME run.stage \in {"find", "create", "link"}
        PROVE  \A i \in 1..run.pc-1 : Done(run, objects, i)
    BY <1>0, <1>a DEF WiringInv, WiringOf, Behind, Configuring
  <1>1. CASE run' = Off
    BY <1>1, OffIs, OffWired DEF WiringInv
  <1>2. CASE Find
    <2>1. objects' = objects /\ run.stage = "find"
      BY <1>2, <1>a, FindIs DEF provider
    <2>2. CASE run' = [run EXCEPT !.stage = "create"]
      <3>1. /\ run'.stage = "create" /\ run'.pc = run.pc
            /\ run'.found = run.found /\ run'.admin = run.admin
        BY <1>a, <2>2 DEF Runs
      <3>2. \A i \in 1..run.pc-1 : Done(run', objects, i)
        BY <1>0, <2>1, <3>1, DoneSame
      <3> QED BY <2>1, <3>1, <3>2 DEF WiringInv, WiringOf, Behind, Configuring
    <2>3. ASSUME NEW o \in Existing, run' = Has(run, o.id) PROVE WiringInv'
      <3>1. /\ o \in objects /\ o.id \in Nat /\ o.name = step.name
            /\ o.of = IdsOf(run, step.of)
        BY <1>a DEF Existing, Ids, IdsOf, TypeOK, Objects
      <3>2. step.to = {} => IdsOf(run, step.with) \subseteq o.links
        BY <2>1, FoundLinked
      <3>3. \A i \in 1..run.pc-1 : Done(run, objects, i)
        BY <1>0, <2>1
      <3>4. WiringOf(Has(run, o.id), objects)
        BY <1>a, <3>1, <3>2, <3>3, HasWired
      <3> QED BY <2>1, <2>3, <3>4 DEF WiringInv
    <2> QED
      BY <1>1, <1>2, <1>a, <2>2, <2>3, FindIs
  <1>3. CASE Create
    <2>1. /\ objects' = objects \cup {New1} /\ run.stage = "create"
          /\ Making \in Runs /\ Making.pc = run.pc
          /\ Making.found = run.found /\ Making.admin = run.admin
          /\ New1 \in Objects
          /\ run' = Off \/ run' = Has(Making, New1.id)
      BY <1>3, <1>a, CreateIs
    <2>2. \A names : IdsOf(Making, names) = Ids(names)
      BY <2>1 DEF IdsOf, Ids
    <2>3. /\ New1 \in objects' /\ New1.id \in Nat /\ New1.name = step.name
          /\ New1.of = IdsOf(Making, step.of)
          /\ IdsOf(Making, step.with) \subseteq New1.links
      <3>1. New1.id \in Nat
        BY <2>1 DEF Objects
      <3> QED BY <2>1, <2>2, <3>1 DEF New1
    <2>4. \A i \in 1..run.pc-1 : Done(Making, objects, i)
      BY <1>0, <2>1, DoneSame
    <2>5. \A i \in 1..Making.pc-1 : Done(Making, objects', i)
      <3>1. objects \subseteq objects'
        BY <2>1
      <3> QED BY <2>1, <2>4, <3>1, DoneMore
    <2>6. WiringOf(Has(Making, New1.id), objects')
      BY <2>1, <2>3, <2>5, HasWired
    <2> QED
      BY <1>1, <2>1, <2>6 DEF WiringInv
  <1>4. CASE Link
    <2>1. run.stage = "link"
      BY <1>4, <1>a, LinkIs
    <2>2. PICK own \in objects : Found(run, run.pc, own)
      BY <1>a, <2>1 DEF WiringInv, WiringOf
    <2>3. own.id = run.found[step.name] /\ own.name = step.name
      BY <1>b, <2>2 DEF Found
    <2>4. ASSUME NEW i \in 1..run.pc-1, Wired(run, objects, i) PROVE Wired(run, objects', i)
      <3>1. PICK o \in objects :
               Found(run, i, o) /\ IdsOf(run, Steps[i].with \cup Steps[i].to) \subseteq o.links
        BY <2>4 DEF Wired
      <3>2. i \in 1..10 /\ i # run.pc
        BY <1>b
      <3>3. o.name # own.name
        BY <1>b, <2>3, <3>1, <3>2, NameOf DEF Found
      <3>4. o.id # run.found[step.name]
        BY <1>a, <2>3, <3>3 DEF IdInv
      <3>5. PICK p \in objects' : p = o
        BY <1>4, <1>a, <3>4, LinkIs
      <3> QED BY <3>1, <3>5 DEF Wired
    <2>5. Wired(run, objects', run.pc)
      <3>1. PICK p \in objects' : /\ p.id = own.id /\ p.name = own.name /\ p.of = own.of
                                  /\ p.links = Ids(step.to)
        BY <1>4, <1>a, <2>3, LinkIs
      <3>2. Found(run, run.pc, p)
        BY <2>2, <3>1 DEF Found
      <3>3. step.to # {}
        BY <1>a, <2>1 DEF TypeOK
      <3>4. step.with \subseteq step.to
        BY <1>b, <3>3, TableHolds, Numbers DEF Table, Step
      <3>5. IdsOf(run, Steps[run.pc].with \cup Steps[run.pc].to) \subseteq p.links
        BY <1>b, <3>1, <3>4 DEF IdsOf, Ids
      <3> QED BY <3>2, <3>5 DEF Wired
    <2>6. \A i \in 1..run.pc-1 : Done(run, objects', i)
      BY <1>0, <2>1, <2>4 DEF Done
    <2>7. \A i \in 1..run.pc : i \in 1..run.pc-1 \/ i = run.pc
      BY <1>b
    <2>8. \A i \in 1..run.pc : Done(run, objects', i)
      BY <2>5, <2>6, <2>7 DEF Done
    <2>9. WiringOf(After(run), objects')
      BY <1>a, <2>8, AfterWired
    <2> QED
      BY <1>1, <1>4, <1>a, <2>9, LinkIs DEF WiringInv
  <1>5. CASE UNCHANGED <<objects, run>>
    BY <1>5, <1>a DEF WiringInv
  <1>6. CASE Aside
    <2>1. objects' = objects
      BY <1>6, <1>a, AsideIs DEF provider
    <2>2. CASE run'.stage = "find" /\ run'.pc = 1
      BY <2>2 DEF WiringInv, WiringOf, Behind, Configuring
    <2>3. CASE /\ run.stage \in Configuring /\ run'.stage \in Configuring
               /\ run'.found = run.found /\ run'.admin = run.admin
      <3>1. \A i \in 1..10 : Done(run, objects, i)
        BY <1>a, <2>3 DEF WiringInv, WiringOf, Behind, Configuring
      <3>2. \A i \in 1..10 : Done(run', objects, i)
        BY <2>3, <3>1, DoneSame
      <3> QED BY <2>1, <2>3, <3>2 DEF WiringInv, WiringOf, Behind, Configuring
    <2> QED
      BY <1>1, <1>5, <1>6, <1>a, <2>1, <2>2, <2>3, AsideIs
  <1>7. CASE \E o \in objects : Delete(o)
    <2>1. run' = run /\ run.stage = "off"
      BY <1>7 DEF Delete
    <2> QED
      BY <2>1, OffWired DEF WiringInv
  <1>8. CASE (\E n \in Names : Crowd(n)) \/ UNCHANGED vars
    BY <1>5, <1>8 DEF Crowd, vars, provider
  <1> QED
    BY <1>2, <1>3, <1>4, <1>6, <1>7, <1>8, NextIs

\* No id becomes that of an object, or of an object of another name, later.
LEMMA IdsStay ==
    ASSUME IInv, [Next]_vars, NEW a, NEW v \in Nat
    PROVE  /\ Mine(a, v) => Mine(a, v)'
           /\ v <= lastId /\ (\A o \in objects : o.id # v) => \A o \in objects' : o.id # v
  <1>a. TypeOK /\ lastId \in Nat
    BY DEF IInv, TypeOK
  <1>1. CASE Create
    <2>1. objects' = objects \cup {New1} /\ lastId' = lastId + 1 /\ New1.id = lastId + 1
      BY <1>1, <1>a, CreateIs DEF New1
    <2> QED
      BY <1>a, <2>1 DEF Mine
  <1>2. CASE Link
    <2>1. \A p \in objects' : \E o \in objects : p.id = o.id /\ p.name = o.name
      BY <1>2, <1>a, LinkIs
    <2>2. lastId' = lastId
      BY <1>2, <1>a, LinkIs
    <2> QED
      BY <2>1, <2>2 DEF Mine
  <1>3. CASE objects' \subseteq objects /\ lastId' = lastId
    BY <1>3 DEF Mine
  <1>4. CASE Find \/ Aside \/ UNCHANGED vars
    BY <1>3, <1>4, <1>a, FindIs, AsideIs DEF provider, vars
  <1>5. CASE (\E o \in objects : Delete(o)) \/ \E n \in Names : Crowd(n)
    BY <1>3, <1>5 DEF Delete, Crowd
  <1> QED
    BY <1>1, <1>2, <1>4, <1>5, NextIs

\* The id a run has of an application is one it knew, or that of an object there.
LEMMA FoundNext ==
    ASSUME IInv, [Next]_vars, NEW a \in Apps, run'.found[a] # 0
    PROVE  \/ run'.found[a] = run.found[a] /\ objects' = objects
           \/ run'.found[a] = run.found[a] /\ (Create \/ Link)
           \/ \E o \in objects' : o.name = a /\ o.id = run'.found[a]
  <1> DEFINE There == \E o \in objects' : o.name = a /\ o.id = run'.found[a]
  <1>a. TypeOK /\ run \in Runs
    BY DEF IInv, TypeOK
  <1>b. step.name \in Names
    BY <1>a, StepIs
  <1>c. a \in Names
    BY NameOf, TableHolds DEF Apps, Table, Step
  <1>0. run' # Off
    BY <1>c, OffIs
  <1>1. CASE Find
    <2>0. objects' = objects /\ run.found \in [Names -> Nat]
      BY <1>1, <1>a, FindIs DEF provider, Runs
    <2>1. CASE run' = [run EXCEPT !.stage = "create"]
      BY <1>a, <2>0, <2>1 DEF Runs
    <2>2. ASSUME NEW o \in Existing, run' = Has(run, o.id)
          PROVE  run'.found[a] = run.found[a] \/ There
      <3>1. o \in objects /\ o.id \in Nat /\ o.name = step.name
        BY <1>a DEF Existing, TypeOK, Objects
      <3>2. run'.found = [run.found EXCEPT ![step.name] = o.id]
        BY <1>a, <1>b, <2>2, <3>1, HasType
      <3> QED BY <1>b, <1>c, <2>0, <3>1, <3>2
    <2> QED
      BY <1>0, <1>1, <1>a, <2>0, <2>1, <2>2, FindIs
  <1>2. CASE Create
    <2>1. /\ Making \in Runs /\ Making.found = run.found /\ New1 \in objects'
          /\ New1.id \in Nat /\ New1.name = step.name /\ run' = Has(Making, New1.id)
      <3>1. New1 \in Objects /\ New1.name = step.name
        BY <1>2, <1>a, CreateIs DEF New1
      <3> QED BY <1>0, <1>2, <1>a, <3>1, CreateIs DEF Objects
    <2>2. run'.found = [run.found EXCEPT ![step.name] = New1.id]
      BY <1>b, <2>1, HasType
    <2>3. run.found \in [Names -> Nat]
      BY <1>a DEF Runs
    <2> QED
      BY <1>2, <1>b, <1>c, <2>1, <2>2, <2>3
  <1>3. CASE Link
    BY <1>0, <1>3, <1>a, LinkIs, AfterType
  <1>4. CASE Aside
    BY <1>0, <1>4, <1>a, <1>c, AsideIs, OffIs DEF provider
  <1>5. CASE \E o \in objects : Delete(o)
    <2>1. run.found[a] = run'.found[a] /\ run.stage = "off"
      BY <1>5 DEF Delete
    <2> QED
      BY <2>1 DEF IInv, CredentialInv, Here
  <1>6. CASE (\E n \in Names : Crowd(n)) \/ UNCHANGED vars
    BY <1>6 DEF Crowd, vars, provider
  <1> QED
    BY <1>1, <1>2, <1>3, <1>4, <1>5, <1>6, NextIs

\* A run keeps what it has found.
LEMMA HereNext ==
    ASSUME IInv, [Next]_vars, NEW a \in Apps, run'.found[a] # 0
    PROVE  \E o \in objects' : o.name = a /\ o.id = run'.found[a]
  <1>a. TypeOK /\ Here(a)
    BY DEF IInv, CredentialInv
  <1>1. CASE run'.found[a] = run.found[a] /\ objects' = objects
    BY <1>1, <1>a DEF Here
  <1>2. CASE run'.found[a] = run.found[a] /\ (Create \/ Link)
    <2>1. PICK o \in objects : o.name = a /\ o.id = run'.found[a]
      BY <1>2, <1>a DEF Here
    <2>2. CASE Create
      BY <1>a, <2>1, <2>2, CreateIs
    <2>3. CASE Link
      <3>1. PICK p \in objects' : p.id = o.id /\ p.name = o.name
        BY <1>a, <2>3, LinkIs
      <3> QED BY <2>1, <3>1
    <2> QED
      BY <1>2, <2>2, <2>3
  <1> QED
    BY <1>1, <1>2, FoundNext

\* A run that is off has found nothing.
LEMMA FoundOff ==
    ASSUME TypeOK, CredentialInv, [Next]_vars, NEW a \in Apps, run'.found[a] # 0
    PROVE  run'.stage # "off"
  <1>a. run \in Runs /\ a \in Names /\ Here(a) /\ step.name \in Names
    BY NameOf, TableHolds, StepIs DEF TypeOK, CredentialInv, Apps, Table, Step
  <1>0. run' # Off
    BY <1>a, OffIs
  <1>1. CASE Find
    <2>1. CASE run' = [run EXCEPT !.stage = "create"]
      BY <1>a, <2>1 DEF Runs
    <2>2. ASSUME NEW o \in Existing, run' = Has(run, o.id) PROVE run'.stage # "off"
      <3>1. o.id \in Nat
        BY DEF Existing, TypeOK, Objects
      <3> QED BY <1>a, <2>2, <3>1, HasType
    <2> QED
      BY <1>0, <1>1, <2>1, <2>2, FindIs
  <1>2. CASE Create
    <2>1. Making \in Runs /\ New1.id \in Nat /\ run' = Has(Making, New1.id)
      BY <1>0, <1>2, CreateIs DEF Objects
    <2> QED
      BY <1>a, <2>1, HasType
  <1>3. CASE Link
    BY <1>0, <1>3, <1>a, LinkIs, AfterType
  <1>4. CASE Aside
    BY <1>0, <1>4, <1>a, AsideIs DEF Configuring, Here
  <1>5. CASE \/ \E o \in objects : Delete(o)
             \/ \E n \in Names : Crowd(n)
             \/ UNCHANGED vars
    BY <1>5, <1>a DEF Delete, Crowd, vars, Here
  <1> QED
    BY <1>1, <1>2, <1>3, <1>4, <1>5, NextIs

\* What the file and .env say comes from them and from the run.
LEMMA FileNext ==
    ASSUME TypeOK, [Next]_vars, NEW a \in Apps
    PROVE  /\ {output'[a].id, output'[a].secret, env'[a].id, env'[a].secret}
                 \subseteq Known(a) \cup {0}
           /\ Whole(output[a]) /\ Whole(env[a]) => Whole(output[a])' /\ Whole(env[a])'
           /\ Fits(a) => Fits(a)'
  <1>1. CASE Write
    <2>1. CASE output' = Nothing
      BY <1>1, <2>1 DEF Write, Nothing, Known, Whole, Fits
    <2>2. CASE output' # Nothing
      BY <1>1, <2>2 DEF Write, Result, Or, Known, Whole, Fits
    <2> QED
      BY <2>1, <2>2
  <1>2. CASE Save
    BY <1>2 DEF Save, Or, Known, Whole, Fits
  <1>3. CASE ~Write /\ ~Save
    <2>1. UNCHANGED <<output, env>>
      BY <1>3 DEF Next, Start, Find, Create, Link, ConfigureClaims, Read, Patch, Die,
                  Delete, Crowd, Edit, vars
    <2> QED
      BY <2>1 DEF Known, Whole, Fits
  <1> QED
    BY <1>1, <1>2, <1>3

\* What is written keeps the id and the secret of .env together; what .env lacks
\* comes from one application, or the id in .env is of none that run could see.
LEMMA ResultMatches ==
    ASSUME IInv, run.stage = "write", NEW a \in Apps \ crowded
    PROVE  Matches(Result(a))
  <1>a. /\ Whole(env[a]) /\ Matches(env[a]) /\ Here(a)
        /\ \A v \in Known(a) \ {0} : Mine(a, v)
    BY DEF IInv, CredentialInv
  <1>1. CASE env[a].secret # 0
    <2>1. Result(a).id = env[a].id /\ Result(a).secret = env[a].secret
      BY <1>1, <1>a DEF Result, Or, Whole
    <2> QED
      BY <1>a, <2>1 DEF Matches
  <1>2. CASE env[a].secret = 0 /\ env[a].id = 0
    BY <1>2 DEF Result, Or, Matches
  <1>3. CASE env[a].secret = 0 /\ env[a].id # 0
    <2> SUFFICES ASSUME Result(a).secret # 0, NEW o \in objects, o.id = env[a].id
                 PROVE  Result(a).id = Result(a).secret
      BY <1>3 DEF Matches, Result, Or
    <2>1. Result(a).id = env[a].id /\ Result(a).secret = run.found[a] /\ run.found[a] # 0
      BY <1>3 DEF Result, Or
    <2>2. o.name = a
      BY <1>3, <1>a DEF Known, Mine
    <2>3. PICK p \in objects : p.name = a /\ p.id = run.found[a]
      BY <1>a, <2>1 DEF Here
    <2>4. o.of = {} /\ p.of = {}
      BY <2>2, <2>3 DEF IInv, TreeInv
    <2>5. o = p
      BY <2>2, <2>3, <2>4 DEF IInv, OnceInv
    <2> QED
      BY <2>1, <2>3, <2>5
  <1> QED
    BY <1>1, <1>2, <1>3

\* What the next file and .env say, before the objects change.
LEMMA FileMatches ==
    ASSUME IInv, [Next]_vars, NEW a \in Apps \ crowded
    PROVE  Matches(output'[a]) /\ Matches(env'[a])
  <1>a. Matches(output[a]) /\ Matches(env[a]) /\ Fits(a) /\ Whole(output[a]) /\ Whole(env[a])
    BY DEF IInv, CredentialInv
  <1>1. CASE Write
    <2>1. env' = env /\ run.stage = "write"
      BY <1>1 DEF Write
    <2>2. CASE output' = Nothing
      BY <1>a, <2>1, <2>2 DEF Nothing, Matches
    <2>3. CASE output' # Nothing
      <3>1. output'[a] = Result(a)
        BY <1>1, <2>3 DEF Write
      <3> QED
        BY <1>a, <2>1, <3>1, ResultMatches
    <2> QED
      BY <2>2, <2>3
  <1>2. CASE Save
    <2>1. output' = output /\ env'[a] = [id |-> Or(output[a].id, env[a].id),
                                         secret |-> Or(output[a].secret, env[a].secret)]
      BY <1>2 DEF Save
    <2>2. CASE output[a].secret # 0
      <3>1. env'[a].id = output[a].id /\ env'[a].secret = output[a].secret
        BY <1>a, <2>1, <2>2 DEF Or, Whole
      <3> QED
        BY <1>a, <2>1, <3>1 DEF Matches
    <2>3. CASE output[a].secret = 0
      <3>1. env'[a].secret = env[a].secret
        BY <2>1, <2>3 DEF Or
      <3>2. env[a].secret # 0 => env'[a].id = env[a].id
        BY <1>a, <2>1, <2>3 DEF Or, Fits
      <3> QED
        BY <1>a, <2>1, <3>1, <3>2 DEF Matches
    <2> QED
      BY <2>2, <2>3
  <1>3. CASE ~Write /\ ~Save
    <2>1. UNCHANGED <<output, env>>
      BY <1>3 DEF Next, Start, Find, Create, Link, ConfigureClaims, Read, Patch, Die,
                  Delete, Crowd, Edit, vars
    <2> QED
      BY <1>a, <2>1
  <1> QED
    BY <1>1, <1>2, <1>3

LEMMA CredentialNext == IInv /\ [Next]_vars => CredentialInv'
  <1> SUFFICES ASSUME IInv, [Next]_vars PROVE CredentialInv'
    OBVIOUS
  <1>a. TypeOK /\ TypeOK' /\ IdInv' /\ CredentialInv
    BY TypeNext, IdNext DEF IInv
  <1>b. \A a \in Apps : a \in Names
    BY NameOf, TableHolds DEF Apps, Table, Step
  <1>1. ASSUME NEW a \in Apps, run'.found[a] # 0
        PROVE  /\ run'.stage # "off"
               /\ \E o \in objects' : o.name = a /\ o.id = run'.found[a]
    <2>1. run'.stage # "off"
      BY <1>1, <1>a, <1>b, FoundOff
    <2> QED
      BY <1>1, <2>1, HereNext
  <1>2. ASSUME NEW a \in Apps, NEW v \in Known(a)' \ {0}
        PROVE  Mine(a, v)'
    <2>0. v \in Nat
      BY <1>a, <1>b, <1>2 DEF Known, TypeOK, Results, Runs
    <2>1. CASE v = run'.found[a]
      <3>1. PICK o \in objects' : o.name = a /\ o.id = v
        BY <1>1, <1>2, <2>1
      <3> QED
        BY <1>a, <3>1 DEF IdInv, Mine
    <2>2. CASE v \in {output'[a].id, output'[a].secret, env'[a].id, env'[a].secret}
      <3>1. v \in Known(a) \ {0}
        BY <1>2, <1>a, <2>2, FileNext
      <3>2. Mine(a, v)
        BY <1>a, <3>1 DEF CredentialInv
      <3> QED
        BY <2>0, <3>2, IdsStay
    <2> QED
      BY <1>2, <2>1, <2>2 DEF Known
  <1>3. ASSUME NEW a \in Apps PROVE Whole(output[a])' /\ Whole(env[a])' /\ Fits(a)'
    BY <1>a, FileNext DEF CredentialInv
  <1>4. ASSUME NEW a \in Apps \ crowded', NEW c \in {output'[a], env'[a]},
               c.secret # 0, c.id # c.secret
        PROVE  \A o \in objects' : o.id # c.id
    <2>1. a \notin crowded
      <3>1. crowded \subseteq crowded'
        <4>1. CASE Find \/ Create \/ Link \/ Aside \/ UNCHANGED vars
          BY <1>a, <4>1, FindIs, CreateIs, LinkIs, AsideIs DEF provider, vars
        <4>2. CASE (\E o \in objects : Delete(o)) \/ \E n \in Names : Crowd(n)
          BY <4>2 DEF Delete, Crowd
        <4> QED BY <4>1, <4>2, NextIs
      <3> QED BY <1>4, <3>1
    <2>2. Matches(c)
      BY <1>4, <2>1, FileMatches
    <2>3. c.id \in Nat /\ c.id # 0
      BY <1>4, <1>3, <1>a DEF TypeOK, Results, Whole
    <2>4. c.id <= lastId
      <3>1. c.id \in Known(a) \ {0}
        BY <1>4, <1>a, <2>3, FileNext
      <3> QED
        BY <1>a, <3>1 DEF CredentialInv, Mine
    <2> QED
      BY <1>4, <2>2, <2>3, <2>4, IdsStay DEF Matches
  <1>5. \A a \in Apps : Here(a)'
    BY <1>1 DEF Here
  <1>6. \A a \in Apps \ crowded' : Matches(output[a])' /\ Matches(env[a])'
    BY <1>4 DEF Matches
  <1> QED
    BY <1>2, <1>3, <1>5, <1>6 DEF CredentialInv

LEMMA EditNext == TypeOK /\ EditInv /\ [Next]_vars => EditInv'
  <1> SUFFICES ASSUME TypeOK, EditInv, [Next]_vars PROVE EditInv'
    OBVIOUS
  <1> USE DEF EditInv
  <1>a. /\ run \in Runs
        /\ settings \in [SettingNames -> [theirs : Nat, edited : Nat, between : BOOLEAN]]
    BY DEF TypeOK
  <1>b. /\ Settings[1] \in SettingNames /\ Settings[2] \in SettingNames
        /\ DOMAIN Settings = 1..2
    BY DEF Settings, SettingNames
  <1>1. CASE Read
    <2> DEFINE s == Settings[run.pc]
    <2>1. s \in SettingNames /\ UNCHANGED settings
      BY <1>1, <1>b DEF Read, TypeOK, console
    <2>2. CASE run' = Off
      BY <2>1, <2>2, OffIs DEF EditsSurvive
    <2>3. CASE run' = [run EXCEPT !.stage = "patch", !.copy[s] = settings[s].theirs]
      <3>1. run'.pc = run.pc /\ run'.copy[s] = settings[s].theirs
        BY <1>a, <2>1, <2>3 DEF Runs
      <3> QED BY <2>1, <3>1 DEF EditsSurvive
    <2> QED
      BY <1>1, <2>2, <2>3 DEF Read, Goes
  <1>2. CASE Patch
    <2> DEFINE s == Settings[run.pc]
    <2>1. /\ s \in SettingNames /\ run.stage = "patch"
          /\ settings' = [settings EXCEPT ![s].theirs = run.copy[s]]
      BY <1>2, <1>b DEF Patch, TypeOK
    <2>2. run'.stage # "patch"
      <3>1. [run EXCEPT !.stage = "write"].stage = "write"
        BY <1>a DEF Runs
      <3>2. [run EXCEPT !.stage = "read", !.pc = @ + 1].stage = "read"
        BY <1>a DEF Runs
      <3> QED BY <1>2, <3>1, <3>2, OffIs DEF Patch, Goes
    <2>3. ASSUME NEW t \in SettingNames, ~settings'[t].between
          PROVE  settings'[t].theirs = settings'[t].edited
      <3>1. CASE t = s
        <4>1. /\ settings'[t].theirs = run.copy[s]
              /\ settings'[t].edited = settings[s].edited
              /\ settings'[t].between = settings[s].between
          BY <1>a, <2>1, <3>1
        <4> QED BY <2>1, <2>3, <4>1
      <3>2. CASE t # s
        BY <1>a, <2>1, <2>3, <3>2 DEF EditsSurvive
      <3> QED BY <3>1, <3>2
    <2> QED
      BY <2>2, <2>3 DEF EditsSurvive
  <1>3. ASSUME NEW s \in SettingNames, Edit(s) PROVE EditInv'
    <2>1. /\ run' = run
          /\ settings'[s].theirs = settings'[s].edited
          /\ settings'[s].between = (run.stage = "patch" /\ Settings[run.pc] = s)
          /\ \A t \in SettingNames \ {s} : settings'[t] = settings[t]
      BY <1>3, <1>a DEF Edit
    <2>2. ASSUME NEW t \in SettingNames, ~settings'[t].between
          PROVE  settings'[t].theirs = settings'[t].edited
      BY <2>1, <2>2 DEF EditsSurvive
    <2>3. ASSUME run'.stage = "patch", ~settings'[Settings[run'.pc]].between
          PROVE  run'.copy[Settings[run'.pc]] = settings'[Settings[run'.pc]].edited
      <3>1. Settings[run.pc] \in SettingNames
        BY <1>b, <2>1, <2>3 DEF TypeOK
      <3> QED BY <2>1, <2>3, <3>1
    <2> QED
      BY <2>2, <2>3 DEF EditsSurvive
  <1>4. CASE UNCHANGED settings /\ (run' = run \/ run'.stage # "patch")
    BY <1>4 DEF EditsSurvive
  <1>5. CASE Find \/ Create \/ Link
    <2>1. UNCHANGED settings
      BY <1>5, FindIs, CreateIs, LinkIs DEF console
    <2>2. run'.stage # "patch"
      <3>0. step.name \in Names
        BY <1>a, StepIs
      <3>1. [run EXCEPT !.stage = "create"].stage = "create"
        BY <1>a DEF Runs
      <3>2. \A o \in Existing : Has(run, o.id).stage # "patch"
        <4>1. \A o \in Existing : o.id \in Nat
          BY DEF TypeOK, Existing, Objects
        <4> QED BY <1>a, <3>0, <4>1, HasType
      <3>3. Create => Has(Making, New1.id).stage # "patch"
        <4>1. Create => New1.id \in Nat /\ Making \in Runs
          BY CreateIs DEF Objects
        <4> QED BY <3>0, <4>1, HasType
      <3>4. After(run).stage # "patch"
        BY <1>a, AfterType
      <3> QED BY <1>5, <3>1, <3>2, <3>3, <3>4, OffIs, FindIs, CreateIs, LinkIs
    <2> QED
      BY <1>4, <2>1, <2>2
  <1>6. ASSUME NEW admin \in BOOLEAN, Start(admin) PROVE EditInv'
    BY <1>4, <1>6 DEF Start, console, Off
  <1>7. CASE ConfigureClaims
    <2>1. [run EXCEPT !.stage = "read", !.pc = 1].stage = "read"
      BY <1>a DEF Runs
    <2> QED
      BY <1>4, <1>7, <2>1, OffIs DEF ConfigureClaims, Goes, console
  <1>8. CASE Die \/ Write
    BY <1>4, <1>8, OffIs DEF Die, Write, console
  <1>9. CASE \/ Save \/ (\E o \in objects : Delete(o))
             \/ (\E n \in Names : Crowd(n)) \/ UNCHANGED vars
    BY <1>4, <1>9 DEF Save, Delete, Crowd, vars, console
  <1> QED
    BY <1>1, <1>2, <1>3, <1>5, <1>6, <1>7, <1>8, <1>9 DEF Next

-----------------------------------------------------------------------------
(* What follows of every run.                                              *)

LEMMA InvInit == Init => IInv
  <1> SUFFICES ASSUME Init PROVE IInv
    OBVIOUS
  <1>1. TypeOK
    BY TypeInit
  <1>2. objects = {} /\ run.stage = "off"
    BY OffIs DEF Init
  <1>3. IdInv /\ OnceInv /\ TreeInv /\ WiringInv
    BY <1>2, OffWired DEF IdInv, OnceInv, TreeInv, WiringInv
  <1>4. CredentialInv
    <2>1. \A a \in Apps : a \in Names
      BY NameOf, TableHolds DEF Apps, Table, Step
    <2>2. \A a \in Apps : Known(a) = {0}
      BY <2>1, OffIs DEF Init, Known, Nothing
    <2>3. \A a \in Apps : Whole(output[a]) /\ Whole(env[a]) /\ Fits(a)
      BY DEF Init, Whole, Nothing, Fits
    <2>4. \A a \in Apps : Here(a)
      BY <2>1, OffIs DEF Init, Here
    <2>5. \A a \in Apps : Matches(output[a]) /\ Matches(env[a])
      BY <1>2 DEF Matches
    <2> QED
      BY <2>2, <2>3, <2>4, <2>5 DEF CredentialInv
  <1>5. EditInv
    BY <1>2 DEF Init, EditInv, EditsSurvive
  <1> QED
    BY <1>1, <1>3, <1>4, <1>5 DEF IInv

LEMMA InvNext == IInv /\ [Next]_vars => IInv'
  BY TypeNext, IdNext, OnceNext, TreeNext, WiringNext, CredentialNext, EditNext DEF IInv

LEMMA Invariance == Spec => []IInv
  BY InvInit, InvNext, PTL DEF Spec

\* Every reachable state is well formed: what runs know are ids the provider gave
\* or none.
THEOREM BootstrapTypeCorrect == Spec => []TypeOK
  <1>1. IInv => TypeOK
    BY DEF IInv
  <1> QED
    BY <1>1, Invariance, PTL

\* However often runs die and are repeated, an object whose collection fits on
\* the page a run reads (cli.py, list_all and the search for the name) is there
\* once.
THEOREM OnceTheorem == Spec => []OneEach
  <1>1. IInv => OneEach
    BY DEF IInv, OnceInv, OneEach
  <1> QED
    BY <1>1, Invariance, PTL

\* A run that gets as far as the configuration leaves every object linked,
\* whichever runs created the parts (cli.py, run).
THEOREM WiringTheorem == Spec => []WiredUp
  <1>1. IInv => WiredUp
    <2> SUFFICES ASSUME IInv, run.stage \in Configuring, NEW i \in DOMAIN Steps,
                        run.admin \/ Steps[i].name \notin AdminSteps
                 PROVE  Wired(run, objects, i)
      BY DEF WiredUp, Wired, Found, Ids, IdsOf
    <2>1. Behind(run) = 1..10 /\ DOMAIN Steps = 1..10
      BY TableHolds DEF Behind, Configuring, Table
    <2> QED
      BY <2>1 DEF IInv, WiringInv, WiringOf, Done, Skipped
  <1> QED
    BY <1>1, Invariance, PTL

\* The id and the secret of an application whose collection fits on a page, in the
\* file and in .env, are those of one application, or the id is of an application
\* that was deleted and opens nothing with any secret (cli.py, run and provision).
THEOREM CredentialTheorem == Spec => []CredentialsMatch
  <1>1. IInv => CredentialsMatch
    BY DEF IInv, CredentialInv, CredentialsMatch, Matches
  <1> QED
    BY <1>1, Invariance, PTL

\* What somebody set in the console last is still there, unless it was set
\* between a run's read and its write of that setting (cli.py,
\* configure_branding and configure_account_center).
THEOREM EditTheorem == Spec => []EditsSurvive
  <1>1. IInv => EditsSurvive
    BY DEF IInv, EditInv
  <1> QED
    BY <1>1, Invariance, PTL

-----------------------------------------------------------------------------
(* The first run finds nothing that it did not make itself, so it is told    *)
(* every secret.                                                             *)

OwnOnly == \A o \in objects : o.id \in run.made

FirstInv ==
    /\ runs \in Nat
    /\ runs = 0 => objects = {} /\ run = Off /\ output = Nothing /\ env = Nothing
    /\ runs = 1 /\ run.stage # "off" => output = Nothing /\ env = Nothing /\ OwnOnly
    /\ FirstRunDelivers

LEMMA FirstInit == Init => FirstInv
  BY DEF Init, FirstInv, FirstRunDelivers

\* While the first run makes progress, the objects remain its own.
LEMMA OwnNext ==
    ASSUME TypeOK, OwnOnly, [Next]_vars, run.stage # "off", run'.stage # "off"
    PROVE  OwnOnly'
  <1>0. /\ run \in Runs /\ step.name \in Names /\ Off.stage = "off"
        /\ \A o \in objects : o.id \in Nat
    BY StepIs, OffIs DEF TypeOK, Objects
  <1>1. CASE Find
    <2>1. CASE run' = [run EXCEPT !.stage = "create"]
      BY <1>0, <1>1, <2>1, FindIs DEF Runs, OwnOnly, provider
    <2>2. ASSUME NEW o \in Existing, run' = Has(run, o.id) PROVE OwnOnly'
      <3>1. o.id \in Nat
        BY <1>0 DEF Existing
      <3>2. run'.made = run.made
        BY <1>0, <2>2, <3>1, HasType
      <3> QED
        BY <1>1, <3>2, FindIs DEF OwnOnly, provider
    <2> QED
      BY <1>0, <1>1, <2>1, <2>2, FindIs
  <1>2. CASE Create
    <2>1. run' = Has(Making, New1.id) /\ Making \in Runs /\ New1 \in Objects
          /\ objects' = objects \cup {New1}
      BY <1>0, <1>2, CreateIs
    <2>2. New1.id \in Nat
      BY <2>1 DEF Objects
    <2>3. run'.made = Making.made
      BY <1>0, <2>1, <2>2, HasType
    <2>4. Making.made = run.made \cup {New1.id}
      BY <1>0 DEF Making, New1, Runs
    <2> QED
      BY <2>1, <2>3, <2>4 DEF OwnOnly
  <1>3. CASE Link
    <2>1. run'.made = run.made
      BY <1>0, <1>3, LinkIs, AfterType
    <2> QED
      BY <1>3, <2>1, LinkIs DEF OwnOnly
  <1>4. CASE Aside
    <2>1. run'.made = run.made
      BY <1>0, <1>4 DEF Aside, Start, ConfigureClaims, Read, Patch, Die, Write, Save, Edit,
                        Goes, Runs
    <2> QED
      BY <1>4, <2>1, AsideIs DEF OwnOnly, provider
  <1>5. CASE \/ \E o \in objects : Delete(o)
             \/ \E n \in Names : Crowd(n)
             \/ UNCHANGED vars
    <2>1. run' = run /\ \A o \in objects' : o \in objects
      BY <1>5 DEF Delete, Crowd, vars, provider
    <2> QED
      BY <2>1 DEF OwnOnly
  <1> QED
    BY <1>1, <1>2, <1>3, <1>4, <1>5, NextIs

LEMMA FirstNext == IInv /\ FirstInv /\ [Next]_vars => FirstInv'
  <1> SUFFICES ASSUME IInv, FirstInv, [Next]_vars PROVE FirstInv'
    OBVIOUS
  <1>0. TypeOK /\ runs \in Nat /\ Off.stage = "off"
    BY OffIs DEF IInv, FirstInv
  <1>1. ASSUME NEW admin \in BOOLEAN, Start(admin) PROVE FirstInv'
    <2>1. runs' = runs + 1 /\ UNCHANGED <<objects, output, env>>
      BY <1>1 DEF Start, provider
    <2>2. CASE runs = 0
      BY <1>0, <2>1, <2>2 DEF FirstInv, FirstRunDelivers, OwnOnly
    <2>3. CASE runs # 0
      BY <1>0, <2>1, <2>3 DEF FirstInv, FirstRunDelivers
    <2> QED
      BY <2>2, <2>3
  <1>2. CASE Write
    <2>1. /\ run.stage = "write" /\ runs' = runs /\ run' = Off /\ env' = env /\ runs # 0
          /\ output' # Nothing => output' = [a \in Apps |-> Result(a)]
      BY <1>0, <1>2 DEF Write, FirstInv
    <2>2. ASSUME runs = 1, output' # Nothing, NEW a \in Apps
          PROVE  output'[a].id # 0 /\ output'[a].secret = output'[a].id
      <3>1. env = Nothing /\ OwnOnly
        BY <2>1, <2>2 DEF FirstInv
      <3>2. PICK i \in 1..10 : Steps[i].name = a
        BY TableHolds DEF Apps, Table, Step
      <3>3. Wired(run, objects, i)
        <4>1. Behind(run) = 1..10
          BY <2>1 DEF Behind, Configuring
        <4>2. a \notin AdminSteps
          BY DEF Apps, AdminSteps
        <4> QED
          BY <3>2, <4>1, <4>2 DEF IInv, WiringInv, WiringOf, Done, Skipped
      <3>4. PICK o \in objects : o.id = run.found[a]
        BY <3>2, <3>3 DEF Wired, Found
      <3>5. New(a) /\ run.found[a] # 0
        BY <1>0, <3>1, <3>4 DEF New, OwnOnly, TypeOK, Objects
      <3>6. env[a].id = 0 /\ env[a].secret = 0
        BY <3>1 DEF Nothing
      <3> QED
        BY <2>1, <2>2, <3>5, <3>6 DEF Result, Or
    <2> QED
      BY <1>0, <2>1, <2>2 DEF FirstInv, FirstRunDelivers
  <1>3. CASE Save
    <2>1. UNCHANGED <<objects, runs, run, output>> /\ run.stage = "off" /\ output # Nothing
      BY <1>3 DEF Save, provider
    <2> QED
      BY <1>0, <2>1 DEF FirstInv, FirstRunDelivers
  <1>4. CASE \E o \in objects : Delete(o)
    <2>1. UNCHANGED <<runs, run, output, env>> /\ run.stage = "off" /\ objects # {}
      BY <1>4 DEF Delete
    <2> QED
      BY <1>0, <2>1 DEF FirstInv, FirstRunDelivers
  <1>5. CASE UNCHANGED vars \/ (\E s \in SettingNames : Edit(s)) \/ (\E n \in Names : Crowd(n))
    <2>1. UNCHANGED <<objects, runs, run, output, env>>
      BY <1>5 DEF vars, provider, Edit, Crowd
    <2> QED
      BY <2>1 DEF FirstInv, FirstRunDelivers, OwnOnly
  <1>6. CASE Find \/ Create \/ Link \/ ConfigureClaims \/ Read \/ Patch \/ Die
    <2>1. UNCHANGED <<runs, output, env>> /\ run.stage # "off"
      BY <1>6 DEF Find, Create, Link, ConfigureClaims, Read, Patch, Die
    <2>2. runs # 0
      BY <1>0, <2>1 DEF FirstInv
    <2>3. runs = 1 /\ run'.stage # "off" => OwnOnly'
      BY <1>0, <2>1, OwnNext DEF FirstInv
    <2> QED
      BY <2>1, <2>2, <2>3 DEF FirstInv, FirstRunDelivers
  <1> QED
    BY <1>1, <1>2, <1>3, <1>4, <1>5, <1>6, NextIs DEF Aside

\* The first run, if it ends well, has written the id and the secret of each
\* application (cli.py, provision), at a provider that had none of these
\* objects before, in any crowd, with any edits meanwhile and deletions after.
THEOREM FirstRunTheorem == Spec => []FirstRunDelivers
  <1>1. FirstInv => FirstRunDelivers
    BY DEF FirstInv
  <1> QED
    BY <1>1, FirstInit, FirstNext, Invariance, PTL DEF Spec
=============================================================================
