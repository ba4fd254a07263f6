------------------------- MODULE PublicationProofs -------------------------
(***************************************************************************)
(* Theorems about Publication for any generations, descriptors, runners    *)
(* and tokens, every lease and retry time, any number of faults and of     *)
(* abandoned calls.                                                        *)
(***************************************************************************)
EXTENDS Publication, TLAPS

-----------------------------------------------------------------------------
(* Types.                                                                  *)

FinalStates == {"retiring", "retired", "blocked"}

Pcs == {"idle", "claim", "preflight", "inspect", "recheck", "publish", "read", "put", "putCheck",
        "commit", "remove", "delete", "deleteCheck", "record"}

Results == {"uncertain"} \cup FinalStates

Intents ==
  [state : {"none", "pending", "uncertain", "ready"} \cup FinalStates, hash : Descriptors \cup {"none"},
   token : Tokens \cup {NoToken}, lease : Nat, next : Nat]

Runs ==
  [pc : Pcs, gen : Gens \cup {NoGen}, token : Tokens \cup {NoToken}, action : {"publish", "retire"},
   result : Results \cup {"none"}, intact : {TRUE}, age : 0 .. LeaseMs]

LateCalls ==
  [op : Effects, gen : Gens, token : Tokens, result : Results \cup {"none"}, intact : {TRUE}, left : Nat]

\* Intents, objects, runs and abandoned calls have their shapes; no object and
\* no write under way has bytes other than its descriptor's.
TypeOK ==
  /\ current \in Gens \cup {NoGen}
  /\ row \in [Gens -> Intents]
  /\ object \in [Gens -> [hash : Hashes, intact : {TRUE}]]
  /\ run \in [Runners -> Runs]
  /\ late \subseteq LateCalls

-----------------------------------------------------------------------------
(* The inductive invariant.  ProjectedIsPublished is not inductive: it     *)
(* needs that whoever may still commit has seen its rendition stored       *)
(* (Stored), that nobody deletes before the retirement is durable          *)
(* (Retiring), that the retirement is never undone (Owns), and all of      *)
(* this only for the owner of a lease, whose token is its own (Distinct).  *)

\* The intent will never be published again.
Final(w) == w.state \in FinalStates

\* An intent has a descriptor exactly when it is staged.
Described(w) == w.state = "none" <=> w.hash = "none"

RetirePcs == {"inspect", "remove", "delete", "deleteCheck", "record"}

PublishPcs == {"preflight", "inspect", "recheck", "publish", "read", "put", "putCheck", "commit", "record"}

\* The rendition is stored, or nothing will show it.
Stored(g) == Published(g) \/ Final(row[g])

\* A run that retires works on an intent that is final, one that publishes owns
\* its lease only until the intent is.
Owns(v) ==
  LET w == row[v.gen]
  IN /\ v.pc # "idle" => v.gen \in Gens /\ v.token \in Tokens /\ w.state # "none"
     /\ v.pc \notin {"idle", "claim"} =>
          \/ /\ v.action = "retire" /\ v.pc \in RetirePcs /\ Final(w)
             /\ v.pc = "record" => v.result \in FinalStates
          \/ /\ v.action = "publish" /\ v.pc \in PublishPcs
             /\ Fenced(w, v.token) => ~Final(w)
             /\ v.pc = "record" => v.result \in Results
             /\ v.pc = "commit" => Stored(v.gen)

\* The same for a call that was abandoned.
Abandoned(c) ==
  LET w == row[c.gen]
  IN /\ w.state # "none"
     /\ c.op = "delete" => Final(w)
     /\ c.op = "commit" => Stored(c.gen) /\ (Fenced(w, c.token) => ~Final(w))
     /\ c.op = "record" => /\ c.result \in Results
                           /\ Final(w) /\ Fenced(w, c.token) => c.result \in FinalStates

Distinct ==
  /\ \A r, s \in Runners : run[r].pc # "idle" /\ run[r].token = run[s].token => r = s
  /\ \A r \in Runners, c \in late : run[r].token # c.token
  /\ \A c, d \in late : c.token = d.token => c = d

Inv ==
  /\ TypeOK
  /\ \A g \in Gens : Described(row[g]) /\ (row[g].state = "ready" => Published(g))
  /\ \A r \in Runners : Owns(run[r])
  /\ \A c \in late : Abandoned(c)
  /\ Distinct

-----------------------------------------------------------------------------
(* What a step may do to one generation.                                   *)

\* The row keeps its descriptor and its finality, its token is changed only to
\* one of T or cleared, what is stored stays stored and what is foreign untouched.
Effect(g, T) ==
  /\ row[g].state # "none" => row'[g].state # "none" /\ row'[g].hash = row[g].hash
  /\ Final(row[g]) => Final(row'[g])
  /\ \/ row'[g].token = row[g].token /\ (Final(row'[g]) => Final(row[g]))
     \/ row'[g].token = NoToken
     \/ row'[g].token \in T
  /\ row[g].state # "none" /\ Stored(g) => Stored(g)'
  /\ Described(row'[g])
  /\ row'[g].state = "ready" => Published(g)'
  /\ object[g].hash = OtherHash => object'[g] = object[g]

\* A record keeps the shape of an intent.
LEMMA SettleType ==
  ASSUME ConstantsOK, NEW w \in Intents, NEW t \in Tokens, NEW s \in Results
  PROVE  Settle(w, t, s) \in Intents
  BY DEF Intents, Settle, Recorded, ConstantsOK, Results, FinalStates

\* What a claim does to the state, the token and the descriptor.
LEMMA ClaimUpdate ==
  ASSUME NEW w \in Intents, NEW t \in Tokens, NEW n \in Nat, Due(w)
  PROVE  /\ Claimed(w, t, n).hash = w.hash /\ Claimed(w, t, n).token = t
         /\ Final(Claimed(w, t, n)) <=> Final(w)
         /\ Claimed(w, t, n).state \notin {"none", "ready"}
         /\ Action(w) = "retire" <=> Final(w)
  BY DEF Intents, Claimed, Action, Final, Due, FinalStates

\* What a record of the lease's owner does to them.
LEMMA SettleUpdate ==
  ASSUME NEW w \in Intents, NEW t \in Tokens, NEW s \in Results, Fenced(w, t)
  PROVE  Settle(w, t, s).state = s /\ Settle(w, t, s).hash = w.hash /\ Settle(w, t, s).token = NoToken
  BY DEF Intents, Settle, Recorded, Fenced

\* A step that leaves the intent and the object alone.
LEMMA QuietEffect ==
  ASSUME Inv, NEW g \in Gens, NEW T, row'[g] = row[g], object'[g] = object[g]
  PROVE  Effect(g, T)
  BY DEF Inv, Effect, Stored, Published

\* A step that updates the intent only.
LEMMA UpdateEffect ==
  ASSUME ConstantsOK, Inv, NEW g \in Gens, NEW T, object'[g] = object[g],
         \/ row'[g] = retireRow(row[g])
         \/ \E n \in Nat, t \in T : t \in Tokens /\ Due(row[g]) /\ row'[g] = Claimed(row[g], t, n)
         \/ \E t \in Tokens, s \in Results :
              /\ row'[g] = Settle(row[g], t, s)
              /\ row[g].state # "none"
              /\ Fenced(row[g], t) /\ Final(row[g]) => s \in FinalStates
         \/ row'[g] = Committed(row[g]) /\ Published(g) /\ ~Final(row[g]) /\ row[g].state # "none"
  PROVE  Effect(g, T)
<1>0. row[g] \in Intents /\ Described(row[g]) /\ (row[g].state = "ready" => Published(g))
  BY DEF Inv, TypeOK
<1>1. CASE row'[g] = retireRow(row[g])
  BY <1>0, <1>1 DEF Effect, Stored, Published, Final, FinalStates, retireRow, Described, Intents
<1>2. CASE \E n \in Nat, t \in T : t \in Tokens /\ Due(row[g]) /\ row'[g] = Claimed(row[g], t, n)
  <2>1. PICK n \in Nat, t \in T : t \in Tokens /\ Due(row[g]) /\ row'[g] = Claimed(row[g], t, n)
    BY <1>2
  <2>2. /\ row'[g].hash = row[g].hash /\ row'[g].token = t
        /\ Final(row'[g]) <=> Final(row[g])
        /\ row'[g].state \notin {"none", "ready"}
    BY <1>0, <2>1, ClaimUpdate
  <2>3. row[g].state # "none"
    BY <2>1 DEF Due
  <2> QED
    BY <1>0, <2>1, <2>2, <2>3 DEF Effect, Stored, Published, Described
<1>3. CASE \E t \in Tokens, s \in Results :
              /\ row'[g] = Settle(row[g], t, s)
              /\ row[g].state # "none"
              /\ Fenced(row[g], t) /\ Final(row[g]) => s \in FinalStates
  <2>1. PICK t \in Tokens, s \in Results :
              /\ row'[g] = Settle(row[g], t, s)
              /\ row[g].state # "none"
              /\ Fenced(row[g], t) /\ Final(row[g]) => s \in FinalStates
    BY <1>3
  <2>2. CASE Fenced(row[g], t)
    <3>1. row'[g].state = s /\ row'[g].hash = row[g].hash /\ row'[g].token = NoToken
      BY <1>0, <2>1, <2>2, SettleUpdate
    <3> QED
      BY <1>0, <2>1, <2>2, <3>1 DEF Effect, Stored, Published, Described, Final, Results, FinalStates
  <2>3. CASE ~Fenced(row[g], t)
    BY <1>0, <2>1, <2>3, QuietEffect DEF Settle
  <2> QED
    BY <2>2, <2>3
<1>4. CASE row'[g] = Committed(row[g]) /\ Published(g) /\ ~Final(row[g]) /\ row[g].state # "none"
  BY <1>0, <1>4 DEF Committed, Intents, Effect, Stored, Published, Described, Final, FinalStates
<1> QED
  BY <1>1, <1>2, <1>3, <1>4

\* A step that writes, deletes or finds an object, and no row.
LEMMA ObjectEffect ==
  ASSUME ConstantsOK, Inv, NEW g \in Gens, NEW T, row'[g] = row[g],
         \/ object'[g] = putImmutable(object[g], row[g].hash, TRUE) /\ row[g].state # "none"
         \/ object'[g] = deleteExact(object[g], row[g].hash) /\ Final(row[g])
         \/ object[g] = Absent
  PROVE  Effect(g, T)
<1>1. /\ row[g] \in Intents /\ Described(row[g]) /\ (row[g].state = "ready" => Published(g))
      /\ object[g] \in [hash : Hashes, intact : {TRUE}]
  BY DEF Inv, TypeOK
<1>2. row[g].state # "none" => row[g].hash \in Descriptors
  BY <1>1 DEF Described, Intents
<1>3. row[g].state # "none" /\ Published(g) /\ ~Final(row[g]) => Published(g)'
  BY <1>1, <1>2 DEF Published, Rendition, Absent, putImmutable, ConstantsOK
<1>4. object[g].hash = OtherHash => object'[g] = object[g]
  <2>1. Absent.hash = "none" /\ OtherHash # "none"
    BY DEF Absent, OtherHash
  <2>2. Final(row[g]) => row[g].hash # OtherHash
    BY <1>2 DEF Final, FinalStates, OtherHash, ConstantsOK
  <2> QED
    BY <2>1, <2>2 DEF putImmutable, deleteExact
<1> QED
  BY <1>1, <1>3, <1>4 DEF Effect, Stored, Final, FinalStates

-----------------------------------------------------------------------------
(* Steps.                                                                  *)

\* Effects undo no retirement and touch no foreign object.
LEMMA EffectKeeps ==
  ASSUME NEW T, \A g \in Gens : Effect(g, T)
  PROVE  GenerationStep
  BY DEF Effect, Final, FinalStates, GenerationStep, RetirementIsFinal, ForeignUntouched

\* A step that leaves intents and objects alone.
LEMMA QuietKeeps ==
  ASSUME row' = row, object' = object
  PROVE  GenerationStep
  BY DEF GenerationStep, RetirementIsFinal, ForeignUntouched

\* Whoever does not take the step is still in the right place.
LEMMA Bystander ==
  ASSUME ConstantsOK, Inv, NEW T, \A g \in Gens : Effect(g, T),
         NEW r \in Runners, run[r].pc = "idle" \/ run[r].token \notin T,
         run'[r].pc = run[r].pc, run'[r].gen = run[r].gen, run'[r].token = run[r].token,
         run'[r].action = run[r].action, run'[r].result = run[r].result
  PROVE  Owns(run[r])'
<1>1. CASE run[r].pc = "idle"
  BY <1>1 DEF Owns
<1>2. CASE run[r].pc # "idle"
  <2>1. Owns(run[r]) /\ run[r].gen \in Gens /\ run[r].token \in Tokens /\ row[run[r].gen].state # "none"
    BY <1>2 DEF Inv, Owns
  <2>2. Effect(run[r].gen, T)
    BY <2>1
  <2>3. row'[run[r].gen].token = run[r].token =>
          /\ row[run[r].gen].token = run[r].token
          /\ Final(row'[run[r].gen]) => Final(row[run[r].gen])
    BY <1>2, <2>1, <2>2 DEF Effect, ConstantsOK
  <2>4. /\ row'[run[r].gen].state # "none"
        /\ Final(row[run[r].gen]) => Final(row'[run[r].gen])
        /\ Stored(run[r].gen) => Stored(run[r].gen)'
    BY <2>1, <2>2 DEF Effect
  <2> QED
    BY <2>1, <2>3, <2>4 DEF Owns, Fenced, Stored, Published
<1> QED
  BY <1>1, <1>2

\* So are the abandoned calls.
LEMMA LateBystander ==
  ASSUME ConstantsOK, Inv, NEW T, \A g \in Gens : Effect(g, T), NEW c \in late, c.token \notin T
  PROVE  Abandoned(c)'
<1>1. Abandoned(c) /\ c.gen \in Gens /\ c.token \in Tokens /\ row[c.gen].state # "none"
  BY DEF Inv, TypeOK, LateCalls, Abandoned
<1>2. Effect(c.gen, T)
  BY <1>1
<1>3. row'[c.gen].token = c.token => row[c.gen].token = c.token /\ (Final(row'[c.gen]) => Final(row[c.gen]))
  BY <1>1, <1>2 DEF Effect, ConstantsOK
<1>4. /\ row'[c.gen].state # "none"
      /\ Final(row[c.gen]) => Final(row'[c.gen])
      /\ Stored(c.gen) => Stored(c.gen)'
  BY <1>1, <1>2 DEF Effect
<1> QED
  BY <1>1, <1>3, <1>4 DEF Abandoned, Fenced

\* A step of run r that keeps the invariant of r itself keeps everybody's.
LEMMA RunnerStep ==
  ASSUME ConstantsOK, Inv, NEW r \in Runners, NEW v \in Runs,
         run[r].pc # "idle",
         run' = [run EXCEPT ![r] = v],
         v.token = run[r].token \/ v = Idle,
         row' \in [Gens -> Intents], object' \in [Gens -> [hash : Hashes, intact : {TRUE}]],
         UNCHANGED << current, late >>,
         \A g \in Gens : Effect(g, {run[r].token}),
         Owns(v)'
  PROVE  Inv' /\ GenerationStep
<1>1. TypeOK'
  BY DEF Inv, TypeOK
<1>2. \A s \in Runners : Owns(run[s])'
  <2>1. SUFFICES ASSUME NEW s \in Runners PROVE Owns(run[s])'
    OBVIOUS
  <2>2. CASE s = r
    BY <2>2 DEF Inv, TypeOK, Owns, Stored, Published
  <2>3. CASE s # r
    <3>1. run[s].token # run[r].token
      BY <2>3 DEF Inv, Distinct
    <3>2. run'[s] = run[s]
      BY <2>3 DEF Inv, TypeOK
    <3>3. run[s].token \notin {run[r].token}
      BY <3>1
    <3> QED
      BY <3>2, <3>3, Bystander
  <2> QED
    BY <2>2, <2>3
<1>3. \A c \in late' : Abandoned(c)'
  <2>1. \A c \in late : c.token \notin {run[r].token}
    BY DEF Inv, Distinct
  <2> QED
    BY <2>1, LateBystander
<1>4. Distinct'
  <2>1. run[r].token \in Tokens
    BY DEF Inv, Owns
  <2>2. \A s \in Runners : run'[s] = IF s = r THEN v ELSE run[s]
    BY DEF Inv, TypeOK
  <2>3. v.pc # "idle" => v.token = run[r].token
    BY DEF Idle
  <2>4. v.token \in {run[r].token, NoToken}
    BY DEF Idle
  <2>5. \A c \in late : c.token \in Tokens
    BY DEF Inv, TypeOK, LateCalls
  <2>6. \A x \in Runners : run[x].pc # "idle" => run[x].token \in Tokens
    BY DEF Inv, Owns
  <2> QED
    BY <2>1, <2>2, <2>3, <2>4, <2>5, <2>6 DEF Inv, Distinct, ConstantsOK
<1>5. \A g \in Gens : Described(row[g])' /\ (row[g].state = "ready" => Published(g))'
  BY DEF Effect
<1>6. GenerationStep
  BY EffectKeeps
<1> QED
  BY <1>1, <1>2, <1>3, <1>4, <1>5, <1>6 DEF Inv

\* The effect of a step of run r on rows and objects.
Affects(r) ==
  /\ row' \in [Gens -> Intents]
  /\ object' \in [Gens -> [hash : Hashes, intact : {TRUE}]]
  /\ UNCHANGED << current, late >>
  /\ \A g \in Gens : Effect(g, {run[r].token})

\* A call that changes neither rows nor objects has none.
LEMMA QuietAffects ==
  ASSUME Inv, NEW r \in Runners, UNCHANGED << current, row, object, late >>
  PROVE  Affects(r)
<1>1. \A g \in Gens : Effect(g, {run[r].token})
  BY QuietEffect
<1> QED
  BY <1>1 DEF Affects, Inv, TypeOK

\* A run ends.
LEMMA ReturnStep ==
  ASSUME ConstantsOK, Inv, NEW r \in Runners, run[r].pc # "idle", Return(r), Affects(r)
  PROVE  Inv' /\ GenerationStep
<1>1. Idle \in Runs
  BY DEF Idle, Runs, Pcs, ConstantsOK
<1>2. Owns(Idle)'
  BY DEF Owns, Idle
<1> QED
  BY <1>1, <1>2, RunnerStep DEF Return, Affects

\* The run goes on with another call on the same intent.
LEMMA GotoStep ==
  ASSUME ConstantsOK, Inv, NEW r \in Runners, run[r].pc \notin {"idle", "claim"},
         NEW s \in Pcs \ {"idle", "claim", "record"},
         run[r].action = "retire" => s \in RetirePcs,
         run[r].action = "publish" => s \in PublishPcs,
         NEW g, g = run[r].gen, s = "commit" => Stored(g)',
         Goto(r, s), Affects(r), row' = row
  PROVE  Inv' /\ GenerationStep
<1>1. run[r] \in Runs /\ Owns(run[r])
  BY DEF Inv, TypeOK
<1>0. PICK v : v = [run[r] EXCEPT !.pc = s]
  OBVIOUS
<1>2. /\ v \in Runs /\ v.pc = s /\ v.gen = run[r].gen /\ v.token = run[r].token
      /\ v.action = run[r].action /\ v.result = run[r].result
  BY <1>0, <1>1 DEF Runs
<1>3. run' = [run EXCEPT ![r] = v]
  BY <1>0 DEF Goto
<1>4. v.gen \in Gens /\ v.token \in Tokens /\ row'[v.gen].state # "none"
  BY <1>1, <1>2 DEF Owns
<1>5. CASE v.action = "retire"
  <2>1. Owns(v)'
    BY <1>1, <1>2, <1>4, <1>5 DEF Owns
  <2> QED
    BY <1>2, <1>3, <2>1, RunnerStep DEF Affects
<1>6. CASE v.action = "publish"
  <2>1. Fenced(row'[v.gen], v.token) => ~Final(row'[v.gen])
    BY <1>1, <1>2, <1>6 DEF Owns
  <2>2. Owns(v)'
    <3>1. s = "commit" => Stored(v.gen)'
      BY <1>2
    <3> QED
      BY <1>2, <1>4, <1>6, <2>1, <3>1 DEF Owns
  <2> QED
    BY <1>2, <1>3, <2>2, RunnerStep DEF Affects
<1> QED
  BY <1>1, <1>2, <1>5, <1>6 DEF Runs

\* The run saves what it knows.
LEMMA RecordStep ==
  ASSUME ConstantsOK, Inv, NEW r \in Runners, run[r].pc \notin {"idle", "claim"}, NEW s \in Results,
         run[r].action = "retire" => s \in FinalStates,
         Record(r, s), Affects(r),
         row'[run[r].gen] = row[run[r].gen] \/ row'[run[r].gen].token = NoToken
  PROVE  Inv' /\ GenerationStep
<1>1. run[r] \in Runs /\ Owns(run[r])
  BY DEF Inv, TypeOK
<1>0. PICK v : v = [run[r] EXCEPT !.pc = "record", !.result = s]
  OBVIOUS
<1>2. /\ v \in Runs /\ v.pc = "record" /\ v.gen = run[r].gen /\ v.token = run[r].token
      /\ v.action = run[r].action /\ v.result = s
  BY <1>0, <1>1 DEF Runs, Pcs
<1>3. run' = [run EXCEPT ![r] = v]
  BY <1>0 DEF Record
<1>4. v.gen \in Gens /\ v.token \in Tokens /\ row[v.gen].state # "none" /\ Effect(v.gen, {v.token})
  BY <1>1, <1>2 DEF Owns, Affects
<1>5. row'[v.gen].state # "none" /\ (Final(row[v.gen]) => Final(row'[v.gen]))
  BY <1>4 DEF Effect
<1>6. Owns(v)'
  <2>1. CASE v.action = "retire"
    BY <1>1, <1>2, <1>4, <1>5, <2>1 DEF Owns, RetirePcs
  <2>2. CASE v.action = "publish"
    <3>1. Fenced(row'[v.gen], v.token) => ~Final(row'[v.gen])
      BY <1>1, <1>2, <1>4, <2>2 DEF Owns, Fenced, ConstantsOK
    <3> QED
      BY <1>2, <1>4, <1>5, <2>2, <3>1 DEF Owns, PublishPcs
  <2> QED
    BY <1>1, <1>2, <2>1, <2>2 DEF Runs
<1> QED
  BY <1>2, <1>3, <1>6, RunnerStep DEF Affects

-----------------------------------------------------------------------------
(* The calls of a run.                                                     *)

\* Metadata that match belong to the bytes of the descriptor.
LEMMA MatchingIsPublished ==
  ASSUME Inv, NEW g \in Gens, inspect(g) = "matching"
  PROVE  Published(g)
  BY DEF Inv, TypeOK, inspect, Published, Rendition

\* A run is where its action takes it.
LEMMA RunPlace ==
  ASSUME Inv, NEW r \in Runners, run[r].pc \notin {"idle", "claim"}
  PROVE  /\ run[r].gen \in Gens /\ run[r].token \in Tokens /\ row[run[r].gen].state # "none"
         /\ \/ run[r].action = "retire" /\ run[r].pc \in RetirePcs /\ Final(row[run[r].gen])
            \/ run[r].action = "publish" /\ run[r].pc \in PublishPcs
  BY DEF Inv, Owns

\* The preflight and the recheck before the provider is called.
LEMMA PreflightStep ==
  ASSUME ConstantsOK, Inv, NEW r \in Runners, preflight(r)
  PROVE  Inv' /\ GenerationStep
<1>1. PICK s \in {"preflight", "recheck"} :
        /\ Awaits(r, s)
        /\ IF isCurrent(r)
           THEN Goto(r, IF s = "preflight" THEN "inspect" ELSE "publish")
           ELSE Record(r, "retiring")
  BY DEF preflight
<1>2. run[r].pc = s /\ UNCHANGED << current, row, object, late >> /\ Affects(r)
  BY <1>1, QuietAffects DEF Awaits
<1>3. run[r].action = "publish"
  BY <1>2, RunPlace DEF RetirePcs
<1>4. CASE isCurrent(r)
  <2>1. CASE s = "preflight"
    <3>1. Goto(r, "inspect")
      BY <1>1, <1>4, <2>1
    <3> QED
      BY <1>2, <1>3, <2>1, <3>1, GotoStep DEF Pcs, PublishPcs
  <2>2. CASE s = "recheck"
    <3>1. Goto(r, "publish")
      BY <1>1, <1>4, <2>2
    <3> QED
      BY <1>2, <1>3, <2>2, <3>1, GotoStep DEF Pcs, PublishPcs
  <2> QED
    BY <2>1, <2>2
<1>5. CASE ~isCurrent(r)
  BY <1>1, <1>2, <1>3, <1>5, RecordStep DEF Results, FinalStates
<1> QED
  BY <1>4, <1>5

\* The provider is asked what the object is (inspectObject).
LEMMA InspectStep ==
  ASSUME ConstantsOK, Inv, NEW r \in Runners, inspectObject(r)
  PROVE  Inv' /\ GenerationStep
<1>1. run[r].pc = "inspect" /\ UNCHANGED << current, row, object, late >> /\ Affects(r)
  BY QuietAffects DEF inspectObject, Awaits
<1>2. run[r].gen \in Gens /\ run[r].action \in {"retire", "publish"}
  BY <1>1, RunPlace
<1>3. CASE Record(r, Uncertain(r)) \/ Record(r, "blocked") \/ (run[r].action = "retire" /\ Record(r, "retired"))
  BY <1>1, <1>3, RecordStep DEF Uncertain, Results, FinalStates
<1>4. CASE inspect(run[r].gen) = "matching" /\ Reconcile(r)
  <2>1. Stored(run[r].gen)
    BY <1>2, <1>4, MatchingIsPublished DEF Stored
  <2>2. PICK g \in Gens : g = run[r].gen
    BY <1>2
  <2>3. Stored(g)'
    BY <1>1, <2>1, <2>2 DEF Stored, Published
  <2>4. CASE run[r].action = "retire"
    <3>1. Goto(r, "remove")
      BY <1>4, <2>4 DEF Reconcile
    <3> QED
      BY <1>1, <2>2, <2>4, <3>1, GotoStep DEF Pcs, RetirePcs
  <2>5. CASE run[r].action = "publish"
    <3>1. Goto(r, "commit")
      BY <1>4, <2>5 DEF Reconcile
    <3> QED
      BY <1>1, <2>2, <2>3, <2>5, <3>1, GotoStep DEF Pcs, PublishPcs
  <2> QED
    BY <1>2, <2>4, <2>5
<1>5. CASE run[r].action # "retire" /\ Goto(r, "recheck")
  BY <1>1, <1>2, <1>5, GotoStep DEF Pcs, PublishPcs
<1> QED
  BY <1>3, <1>4, <1>5 DEF inspectObject

\* The publishing run up to its put.
LEMMA PublishStep ==
  ASSUME ConstantsOK, Inv, NEW r \in Runners, publish(r) \/ putCheck(r) \/ readSource(r)
  PROVE  Inv' /\ GenerationStep
<1>1. /\ run[r].pc \in {"publish", "putCheck", "read"}
      /\ UNCHANGED << current, row, object, late >> /\ Affects(r)
  BY QuietAffects DEF publish, putCheck, readSource, Awaits
<1>2. run[r].gen \in Gens /\ run[r].action = "publish"
  BY <1>1, RunPlace DEF RetirePcs
<1>3. CASE Record(r, "uncertain")
  BY <1>1, <1>2, <1>3, RecordStep DEF Results
<1>4. CASE inspect(run[r].gen) = "matching" /\ Goto(r, "commit")
  <2>1. Stored(run[r].gen)
    BY <1>2, <1>4, MatchingIsPublished DEF Stored
  <2>2. PICK g \in Gens : g = run[r].gen
    BY <1>2
  <2>3. Stored(g)'
    BY <1>1, <2>1, <2>2 DEF Stored, Published
  <2> QED
    BY <1>1, <1>2, <1>4, <2>2, <2>3, GotoStep DEF Pcs, PublishPcs
<1>5. CASE Goto(r, "read")
  BY <1>1, <1>2, <1>5, GotoStep DEF Pcs, PublishPcs
<1>6. CASE Goto(r, "put")
  BY <1>1, <1>2, <1>6, GotoStep DEF Pcs, PublishPcs
<1>7. Throw(r) => Record(r, "uncertain")
  BY <1>1, <1>2 DEF Throw, Uncertain
<1> QED
  BY <1>3, <1>4, <1>5, <1>6, <1>7 DEF publish, putCheck, readSource

\* The retiring run up to its delete.
LEMMA RemoveStep ==
  ASSUME ConstantsOK, Inv, NEW r \in Runners, remove(r) \/ deleteCheck(r)
  PROVE  Inv' /\ GenerationStep
<1>1. /\ run[r].pc \in {"remove", "deleteCheck"}
      /\ UNCHANGED << current, row, object, late >> /\ Affects(r)
  BY QuietAffects DEF remove, deleteCheck, Awaits
<1>2. run[r].gen \in Gens /\ run[r].action = "retire"
  BY <1>1, RunPlace DEF PublishPcs
<1>3. CASE Record(r, "retiring") \/ Record(r, "retired")
  BY <1>1, <1>2, <1>3, RecordStep DEF Results, FinalStates
<1>4. CASE Goto(r, "delete")
  BY <1>1, <1>2, <1>4, GotoStep DEF Pcs, RetirePcs
<1> QED
  BY <1>3, <1>4 DEF remove, deleteCheck

\* A call of the store or the preflight fails.
LEMMA CallFailsStep ==
  ASSUME ConstantsOK, Inv, NEW r \in Runners, callFails(r)
  PROVE  Inv' /\ GenerationStep
<1>1. /\ run[r].pc \in {"claim", "preflight", "recheck"} /\ Throw(r)
      /\ UNCHANGED << current, row, object, late >> /\ Affects(r)
  BY QuietAffects DEF callFails, Awaits
<1>2. CASE run[r].pc = "claim"
  BY <1>1, <1>2, ReturnStep DEF Throw
<1>3. CASE run[r].pc # "claim"
  <2>1. run[r].action = "publish"
    BY <1>1, <1>3, RunPlace DEF RetirePcs
  <2>2. Record(r, "uncertain")
    BY <1>1, <1>3, <2>1 DEF Throw, Uncertain
  <2> QED
    BY <1>1, <1>3, <2>1, <2>2, RecordStep DEF Results
<1> QED
  BY <1>2, <1>3

\* Writing and deleting keep the objects' shape.
LEMMA ObjectTypes ==
  ASSUME Inv, NEW g \in Gens, row[g].state # "none"
  PROVE  /\ putImmutable(object[g], row[g].hash, TRUE) \in [hash : Hashes, intact : {TRUE}]
         /\ deleteExact(object[g], row[g].hash) \in [hash : Hashes, intact : {TRUE}]
<1>1. object[g] \in [hash : Hashes, intact : {TRUE}] /\ row[g].hash \in Hashes
  BY DEF Inv, TypeOK, Intents, Hashes
<1> QED
  BY <1>1 DEF putImmutable, deleteExact, Rendition, Absent, Hashes

\* putImmutable, answered, lost or executed later.
LEMMA PutStep ==
  ASSUME ConstantsOK, Inv, NEW r \in Runners, put(r)
  PROVE  Inv' /\ GenerationStep
<1>1. run[r].pc = "put" /\ UNCHANGED << current, row, late >>
  BY DEF put
<1>2. run[r].gen \in Gens /\ run[r].action = "publish" /\ row[run[r].gen].state # "none" /\ run[r].intact = TRUE
  BY <1>1, RunPlace DEF RetirePcs, Inv, TypeOK, Runs
<1>3. PICK g \in Gens : g = run[r].gen
  BY <1>2
<1>4. Affects(r)
  <2>1. CASE object' = object
    BY <1>1, <2>1, QuietAffects
  <2>2. CASE object' = [object EXCEPT ![g] = putImmutable(@, row[g].hash, TRUE)]
    <3>1. object' \in [Gens -> [hash : Hashes, intact : {TRUE}]]
      BY <1>2, <1>3, <2>2, ObjectTypes DEF Inv, TypeOK
    <3>2. ASSUME NEW h \in Gens PROVE Effect(h, {run[r].token})
      <4>1. CASE h = g
        <5>1. object'[h] = putImmutable(object[h], row[h].hash, TRUE) /\ row[h].state # "none" /\ row'[h] = row[h]
          BY <1>1, <1>2, <1>3, <2>2, <4>1 DEF Inv, TypeOK
        <5> QED
          BY <5>1, ObjectEffect
      <4>2. CASE h # g
        <5>1. object'[h] = object[h] /\ row'[h] = row[h]
          BY <1>1, <2>2, <4>2 DEF Inv, TypeOK
        <5> QED
          BY <5>1, QuietEffect
      <4> QED
        BY <4>1, <4>2
    <3> QED
      BY <1>1, <3>1, <3>2 DEF Affects, Inv, TypeOK
  <2> QED
    BY <1>2, <1>3, <2>1, <2>2 DEF put
<1>5. CASE Goto(r, "putCheck")
  BY <1>1, <1>2, <1>4, <1>5, GotoStep DEF Pcs, PublishPcs
<1>6. CASE Record(r, "uncertain")
  BY <1>1, <1>2, <1>4, <1>6, RecordStep DEF Results
<1> QED
  BY <1>5, <1>6 DEF put

\* deleteExact, answered, lost or executed later.
LEMMA DeleteStep ==
  ASSUME ConstantsOK, Inv, NEW r \in Runners, delete(r)
  PROVE  Inv' /\ GenerationStep
<1>1. run[r].pc = "delete" /\ UNCHANGED << current, row, late >>
  BY DEF delete
<1>2. run[r].gen \in Gens /\ run[r].action = "retire" /\ row[run[r].gen].state # "none" /\ Final(row[run[r].gen])
  BY <1>1, RunPlace DEF PublishPcs
<1>3. PICK g \in Gens : g = run[r].gen
  BY <1>2
<1>4. Affects(r)
  <2>1. CASE object' = object
    BY <1>1, <2>1, QuietAffects
  <2>2. CASE object' = [object EXCEPT ![g] = deleteExact(@, row[g].hash)]
    <3>1. object' \in [Gens -> [hash : Hashes, intact : {TRUE}]]
      BY <1>2, <1>3, <2>2, ObjectTypes DEF Inv, TypeOK
    <3>2. ASSUME NEW h \in Gens PROVE Effect(h, {run[r].token})
      <4>1. CASE h = g
        <5>1. object'[h] = deleteExact(object[h], row[h].hash) /\ Final(row[h]) /\ row'[h] = row[h]
          BY <1>1, <1>2, <1>3, <2>2, <4>1 DEF Inv, TypeOK
        <5> QED
          BY <5>1, ObjectEffect
      <4>2. CASE h # g
        <5>1. object'[h] = object[h] /\ row'[h] = row[h]
          BY <1>1, <2>2, <4>2 DEF Inv, TypeOK
        <5> QED
          BY <5>1, QuietEffect
      <4> QED
        BY <4>1, <4>2
    <3> QED
      BY <1>1, <3>1, <3>2 DEF Affects, Inv, TypeOK
  <2> QED
    BY <1>2, <1>3, <2>1, <2>2 DEF delete
<1>5. CASE Goto(r, "deleteCheck")
  BY <1>1, <1>2, <1>4, <1>5, GotoStep DEF Pcs, RetirePcs
<1>6. CASE Record(r, "retiring")
  BY <1>1, <1>2, <1>4, <1>6, RecordStep DEF Results, FinalStates
<1> QED
  BY <1>5, <1>6 DEF delete

\* A step that updates one row.
LEMMA RowAffects ==
  ASSUME ConstantsOK, Inv, NEW r \in Runners, NEW g \in Gens, NEW w \in Intents,
         row' = [row EXCEPT ![g] = w], UNCHANGED << current, object, late >>,
         Effect(g, {run[r].token})
  PROVE  Affects(r)
<1>1. row' \in [Gens -> Intents]
  BY DEF Inv, TypeOK
<1>2. ASSUME NEW h \in Gens, h # g PROVE Effect(h, {run[r].token})
  <2>1. row'[h] = row[h] /\ object'[h] = object[h]
    BY <1>2 DEF Inv, TypeOK
  <2> QED
    BY <2>1, QuietEffect
<1> QED
  BY <1>1, <1>2 DEF Affects, Inv, TypeOK

\* The publication is committed under its claim (commitReady).
LEMMA CommitStep ==
  ASSUME ConstantsOK, Inv, NEW r \in Runners, commitReady(r)
  PROVE  Inv' /\ GenerationStep
<1>1. run[r].pc = "commit" /\ UNCHANGED << current, object, late >>
  BY DEF commitReady
<1>2. run[r].gen \in Gens /\ run[r].action = "publish" /\ row[run[r].gen].state # "none"
  BY <1>1, RunPlace DEF RetirePcs
<1>3. PICK g \in Gens : g = run[r].gen
  BY <1>2
<1>4. CASE row' = row /\ (Return(r) \/ Throw(r) \/ Record(r, "retiring"))
  <2>1. Affects(r)
    BY <1>1, <1>4, QuietAffects
  <2>2. Throw(r) => Record(r, "uncertain")
    BY <1>1, <1>2 DEF Throw, Uncertain
  <2> QED
    BY <1>1, <1>2, <1>4, <2>1, <2>2, ReturnStep, RecordStep DEF Results, FinalStates
<1>5. CASE /\ CanCommit(row[g], run[r].token)
           /\ row' = [row EXCEPT ![g] = Committed(@)]
           /\ Return(r) \/ Throw(r)
  <2>1. Stored(g) /\ ~Final(row[g]) /\ row[g] \in Intents
    BY <1>1, <1>2, <1>3, <1>5 DEF Inv, Owns, CanCommit, TypeOK
  <2>2. row'[g] = Committed(row[g]) /\ object'[g] = object[g]
    BY <1>1, <1>5 DEF Inv, TypeOK
  <2>3. Committed(row[g]) \in Intents /\ Committed(row[g]).token = NoToken
    BY <2>1 DEF Committed, Intents
  <2>4. Effect(g, {run[r].token})
    BY <1>2, <1>3, <2>1, <2>2, UpdateEffect DEF Stored
  <2>5. Affects(r)
    BY <1>1, <1>5, <2>3, <2>4, RowAffects
  <2>6. Throw(r) => Record(r, "uncertain")
    BY <1>1, <1>2 DEF Throw, Uncertain
  <2>7. row'[run[r].gen].token = NoToken
    BY <1>3, <2>2, <2>3
  <2>8. CASE Return(r)
    BY <1>1, <2>5, <2>8, ReturnStep
  <2>9. CASE Record(r, "uncertain")
    BY <1>1, <1>2, <2>5, <2>7, <2>9, RecordStep DEF Results
  <2> QED
    BY <1>5, <2>6, <2>8, <2>9
<1> QED
  BY <1>3, <1>4, <1>5 DEF commitReady

\* A failure or a retirement is recorded under its claim.
LEMMA RecordedStep ==
  ASSUME ConstantsOK, Inv, NEW r \in Runners, record(r)
  PROVE  Inv' /\ GenerationStep
<1>1. run[r].pc = "record" /\ UNCHANGED << current, object, late >> /\ Return(r)
  BY DEF record
<1>2. PICK g \in Gens : g = run[r].gen
  BY <1>1, RunPlace
<1>3. CASE row' = row
  BY <1>1, <1>3, QuietAffects, ReturnStep
<1>4. CASE row' = [row EXCEPT ![g] = Settle(@, run[r].token, run[r].result)]
  <2>1. /\ run[r].token \in Tokens /\ run[r].result \in Results /\ row[g] \in Intents /\ row[g].state # "none"
        /\ Fenced(row[g], run[r].token) /\ Final(row[g]) => run[r].result \in FinalStates
    BY <1>1, <1>2 DEF Inv, Owns, TypeOK, Results
  <2>2. row'[g] = Settle(row[g], run[r].token, run[r].result) /\ object'[g] = object[g]
    BY <1>1, <1>4 DEF Inv, TypeOK
  <2>3. row'[g] \in Intents
    BY <2>1, <2>2, SettleType
  <2>4. Effect(g, {run[r].token})
    BY <2>1, <2>2, UpdateEffect
  <2>5. Affects(r)
    BY <1>1, <1>4, <2>2, <2>3, <2>4, RowAffects
  <2> QED
    BY <1>1, <2>5, ReturnStep
<1> QED
  BY <1>2, <1>3, <1>4 DEF record

\* An intent is claimed.
LEMMA ClaimStep ==
  ASSUME ConstantsOK, Inv, NEW r \in Runners, claim(r)
  PROVE  Inv' /\ GenerationStep
<1>1. run[r].pc = "claim" /\ UNCHANGED << current, object, late >>
  BY DEF claim
<1>2. /\ run[r].gen \in Gens /\ run[r].token \in Tokens /\ row[run[r].gen].state # "none"
      /\ run[r] \in Runs
  BY <1>1 DEF Inv, Owns, TypeOK
<1>3. PICK g \in Gens : g = run[r].gen
  BY <1>2
<1>4. PICK left \in Nat : left = LeaseMs - run[r].age
  <2>1. run[r].age \in 0 .. LeaseMs
    BY <1>2 DEF Runs
  <2>2. LeaseMs - run[r].age \in Nat
    BY <2>1 DEF ConstantsOK
  <2> QED
    BY <2>2
<1>5. CASE row' = row /\ Return(r)
  BY <1>1, <1>5, QuietAffects, ReturnStep
<1>6. CASE Due(row[g]) /\ row' = [row EXCEPT ![g] = Claimed(@, run[r].token, left)]
  <2>1. /\ row'[g] = Claimed(row[g], run[r].token, left) /\ object'[g] = object[g]
        /\ row[g] \in Intents
    BY <1>1, <1>6 DEF Inv, TypeOK
  <2>2. row'[g] \in Intents
    BY <1>2, <2>1 DEF Claimed, Intents
  <2>3. Effect(g, {run[r].token})
    BY <1>2, <1>6, <2>1, UpdateEffect
  <2>4. Affects(r)
    BY <1>1, <1>6, <2>1, <2>2, <2>3, RowAffects
  <2>5. CASE Return(r)
    BY <1>1, <2>4, <2>5, ReturnStep
  <2>6. CASE run' = [run EXCEPT ![r].action = Action(row[g]),
                                ![r].pc = IF Action(row[g]) = "publish" THEN "preflight" ELSE "inspect"]
    <3>1. PICK v : v = [run[r] EXCEPT !.action = Action(row[g]),
                          !.pc = IF Action(row[g]) = "publish" THEN "preflight" ELSE "inspect"]
      OBVIOUS
    <3>2. run' = [run EXCEPT ![r] = v]
      BY <2>6, <3>1
    <3>3. /\ v \in Runs /\ v.gen = g /\ v.token = run[r].token /\ v.action = Action(row[g])
          /\ v.pc = IF Action(row[g]) = "publish" THEN "preflight" ELSE "inspect"
      BY <1>2, <1>3, <3>1 DEF Runs, Action, Pcs
    <3>4. /\ Final(row'[g]) <=> Final(row[g])
          /\ Final(row[g]) <=> Action(row[g]) = "retire"
          /\ row'[g].state # "none"
      BY <1>2, <1>6, <2>1, ClaimUpdate
    <3>5. Owns(v)'
      BY <1>2, <1>3, <3>3, <3>4 DEF Owns, RetirePcs, PublishPcs, Action
    <3> QED
      BY <1>1, <2>4, <3>2, <3>3, <3>5, RunnerStep DEF Affects
  <2> QED
    BY <1>3, <1>4, <1>6, <2>5, <2>6 DEF claim, Return
<1> QED
  BY <1>3, <1>4, <1>5, <1>6 DEF claim

-----------------------------------------------------------------------------
(* Everything else: the domain, abandoned calls, other writers and time.   *)

\* A step that no run takes; T holds the tokens of the call it executes.
LEMMA WorldStep ==
  ASSUME ConstantsOK, Inv, NEW T,
         current' \in Gens \cup {NoGen},
         row' \in [Gens -> Intents], object' \in [Gens -> [hash : Hashes, intact : {TRUE}]],
         run' \in [Runners -> Runs],
         \A r \in Runners : /\ run'[r].pc = run[r].pc /\ run'[r].gen = run[r].gen
                            /\ run'[r].token = run[r].token /\ run'[r].action = run[r].action
                            /\ run'[r].result = run[r].result,
         late' \subseteq late,
         \A g \in Gens : Effect(g, T),
         \A r \in Runners : run[r].token \notin T,
         \A c \in late' : c.token \notin T
  PROVE  Inv' /\ GenerationStep
<1>1. TypeOK'
  BY DEF Inv, TypeOK
<1>2. \A r \in Runners : Owns(run[r])'
  BY Bystander
<1>3. \A c \in late' : Abandoned(c)'
  BY LateBystander
<1>4. Distinct'
  BY DEF Inv, Distinct
<1>5. \A g \in Gens : Described(row[g])' /\ (row[g].state = "ready" => Published(g))'
  BY DEF Effect
<1>6. GenerationStep
  BY EffectKeeps
<1> QED
  BY <1>1, <1>2, <1>3, <1>4, <1>5, <1>6 DEF Inv

\* A step that no run takes and that executes no call.
LEMMA CalmStep ==
  ASSUME ConstantsOK, Inv,
         current' \in Gens \cup {NoGen},
         row' \in [Gens -> Intents], object' \in [Gens -> [hash : Hashes, intact : {TRUE}]],
         run' = run, late' \subseteq late,
         \A g \in Gens : Effect(g, {})
  PROVE  Inv' /\ GenerationStep
<1>1. run' \in [Runners -> Runs]
  BY DEF Inv, TypeOK
<1>2. \A T : T = {} => (\A r \in Runners : run[r].token \notin T) /\ (\A c \in late' : c.token \notin T)
  OBVIOUS
<1> QED
  BY <1>1, <1>2, WorldStep

\* The domain stages, replaces and retires assignments.
LEMMA DomainStep ==
  ASSUME ConstantsOK, Inv, Domain
  PROVE  Inv' /\ GenerationStep
<1>1. current' \in Gens \cup {NoGen} /\ UNCHANGED << object, run, late >>
  BY DEF Domain, stage, stagePrivate, replace, retire, Assign
<1>2. ASSUME NEW h \in Gens
      PROVE  /\ row[h] \in Intents
             /\ retireRow(row[h]) \in Intents
             /\ object'[h] = object[h]
  BY <1>1 DEF Inv, TypeOK, Intents, retireRow, FinalStates
<1>3. row' \in [Gens -> Intents] /\ \A h \in Gens : Effect(h, {})
  <2>1. CASE row' = row
    BY <1>1, <2>1, QuietEffect DEF Inv, TypeOK
  <2>2. CASE row' = [h \in Gens |-> retireRow(row[h])]
    BY <1>2, <2>2, UpdateEffect
  <2>3. CASE retire
    <3>1. current \in Gens /\ row' = [row EXCEPT ![current] = retireRow(@)]
      BY <2>3 DEF retire, Inv, TypeOK
    <3>2. \A h \in Gens : row'[h] = row[h] \/ row'[h] = retireRow(row[h])
      BY <3>1 DEF Inv, TypeOK
    <3>3. row' \in [Gens -> Intents]
      BY <1>2, <3>1 DEF Inv, TypeOK
    <3> QED
      BY <1>2, <3>2, <3>3, QuietEffect, UpdateEffect
  <2>4. ASSUME NEW g \in Gens, NEW d \in Descriptors, row[g].state = "none",
               row' = [h \in Gens |-> IF h = g THEN Staged(d) ELSE retireRow(row[h])]
        PROVE  row' \in [Gens -> Intents] /\ \A h \in Gens : Effect(h, {})
    <3>1. Staged(d) \in Intents /\ Staged(d).state = "pending" /\ Staged(d).hash = d /\ Staged(d).token = NoToken
      BY DEF Staged, NoIntent, Intents, ConstantsOK
    <3>2. row' \in [Gens -> Intents]
      BY <1>2, <2>4, <3>1
    <3>3. row'[g] = Staged(d)
      BY <2>4
    <3>4. Effect(g, {})
      BY <1>1, <2>4, <3>1, <3>3 DEF Effect, Described, Final, FinalStates, ConstantsOK
    <3>5. \A h \in Gens : h # g => row'[h] = retireRow(row[h])
      BY <2>4
    <3> QED
      BY <1>2, <3>2, <3>4, <3>5, UpdateEffect
  <2> QED
    BY <2>1, <2>2, <2>3, <2>4 DEF Domain, stage, stagePrivate, replace, verify
<1> QED
  <2>1. object' \in [Gens -> [hash : Hashes, intact : {TRUE}]]
    BY <1>1 DEF Inv, TypeOK
  <2> QED
    BY <1>1, <1>3, <2>1, CalmStep

\* Somebody else's object appears under a key.
LEMMA ForeignStep ==
  ASSUME ConstantsOK, Inv, NEW g \in Gens, foreignPut(g)
  PROVE  Inv' /\ GenerationStep
<1>1. /\ object[g] = Absent /\ object' = [object EXCEPT ![g] = Rendition(OtherHash, TRUE)]
      /\ UNCHANGED << current, row, run, late >>
  BY DEF foreignPut
<1>2. object' \in [Gens -> [hash : Hashes, intact : {TRUE}]]
  BY <1>1 DEF Inv, TypeOK, Rendition, Hashes
<1>3. ASSUME NEW h \in Gens PROVE Effect(h, {})
  <2>1. row'[h] = row[h] /\ (h # g => object'[h] = object[h])
    BY <1>1 DEF Inv, TypeOK
  <2> QED
    BY <1>1, <2>1, QuietEffect, ObjectEffect
<1>4. row' \in [Gens -> Intents] /\ current' \in Gens \cup {NoGen}
  BY <1>1 DEF Inv, TypeOK
<1> QED
  BY <1>1, <1>2, <1>3, <1>4, CalmStep

\* Time passes: leases and retry delays run down.
LEMMA TickStep ==
  ASSUME ConstantsOK, Inv, tick
  PROVE  Inv' /\ GenerationStep
<1>1. /\ row' = [g \in Gens |-> [row[g] EXCEPT !.lease = Less(@), !.next = Less(@)]]
      /\ run' = [r \in Runners |->
           [run[r] EXCEPT !.age = IF run[r].pc = "idle" \/ @ = LeaseMs THEN @ ELSE @ + 1]]
      /\ UNCHANGED << current, object, late >>
  BY DEF tick
<1>2. ASSUME NEW g \in Gens
      PROVE  /\ row'[g] \in Intents /\ row'[g].state = row[g].state /\ row'[g].hash = row[g].hash
             /\ row'[g].token = row[g].token
  <2>1. row[g] \in Intents
    BY DEF Inv, TypeOK
  <2>2. Less(row[g].lease) \in Nat /\ Less(row[g].next) \in Nat
    BY <2>1 DEF Intents, Less
  <2>3. row'[g] = [row[g] EXCEPT !.lease = Less(row[g].lease), !.next = Less(row[g].next)]
    BY <1>1
  <2> QED
    BY <2>1, <2>2, <2>3 DEF Intents
<1>3. ASSUME NEW r \in Runners
      PROVE  /\ run'[r] \in Runs /\ run'[r].pc = run[r].pc /\ run'[r].gen = run[r].gen
             /\ run'[r].token = run[r].token /\ run'[r].action = run[r].action
             /\ run'[r].result = run[r].result
  <2>1. run[r] \in Runs
    BY DEF Inv, TypeOK
  <2>2. PICK n : n = IF run[r].pc = "idle" \/ run[r].age = LeaseMs THEN run[r].age ELSE run[r].age + 1
    OBVIOUS
  <2>3. run[r].age \in 0 .. LeaseMs
    BY <2>1 DEF Runs
  <2>4. n \in 0 .. LeaseMs
    BY <2>2, <2>3 DEF ConstantsOK
  <2>5. run'[r] = [run[r] EXCEPT !.age = n]
    BY <1>1, <2>2
  <2> QED
    BY <2>1, <2>4, <2>5 DEF Runs
<1>4. run' \in [Runners -> Runs] /\ row' \in [Gens -> Intents]
  <2>1. \A r \in Runners : run'[r] \in Runs
    BY <1>3
  <2>2. \A g \in Gens : row'[g] \in Intents
    BY <1>2
  <2> QED
    BY <1>1, <2>1, <2>2
<1>5. ASSUME NEW g \in Gens PROVE Effect(g, {})
  BY <1>1, <1>2 DEF Effect, Final, Stored, Published, Described, Inv
<1>6. current' \in Gens \cup {NoGen} /\ object' \in [Gens -> [hash : Hashes, intact : {TRUE}]]
  BY <1>1 DEF Inv, TypeOK
<1>7. PICK T : T = {}
  OBVIOUS
<1>8. late' \subseteq late /\ (\A g \in Gens : Effect(g, T))
  BY <1>1, <1>5, <1>7
<1>9. (\A r \in Runners : run[r].token \notin T) /\ (\A c \in late' : c.token \notin T)
  BY <1>7
<1> QED
  BY <1>3, <1>4, <1>6, <1>8, <1>9, WorldStep

\* A late call never executes.
LEMMA VanishStep ==
  ASSUME ConstantsOK, Inv, NEW c \in late, vanish(c)
  PROVE  Inv' /\ GenerationStep
<1>1. \A g \in Gens : Effect(g, {})
  BY QuietEffect DEF vanish
<1>2. /\ row' \in [Gens -> Intents] /\ current' \in Gens \cup {NoGen}
      /\ object' \in [Gens -> [hash : Hashes, intact : {TRUE}]]
  BY DEF Inv, TypeOK, vanish
<1> QED
  BY <1>1, <1>2, CalmStep DEF vanish

\* A run begins with a token that nobody has.
LEMMA StartStep ==
  ASSUME ConstantsOK, Inv, NEW r \in Runners, NEW g \in Gens, start(r, g)
  PROVE  Inv' /\ GenerationStep
<1>1. Due(row[g]) /\ run[r].pc = "idle" /\ UNCHANGED << current, row, object, late >>
  BY DEF start
<1>2. PICK t \in Tokens :
        /\ Fresh(t)
        /\ run' = [run EXCEPT ![r] = [Idle EXCEPT !.pc = "claim", !.gen = g, !.token = t]]
  BY DEF start
<1>3. PICK v : v = [Idle EXCEPT !.pc = "claim", !.gen = g, !.token = t]
  OBVIOUS
<1>4. v \in Runs /\ v.pc = "claim" /\ v.gen = g /\ v.token = t
  <2>1. Idle \in Runs
    BY DEF Idle, Runs, Pcs, ConstantsOK
  <2> QED
    BY <1>3, <2>1 DEF Runs, Pcs
<1>5. /\ run' = [run EXCEPT ![r] = v]
      /\ \A s \in Runners : run'[s] = IF s = r THEN v ELSE run[s]
  BY <1>2, <1>3 DEF Inv, TypeOK
<1>6. TypeOK'
  BY <1>1, <1>4, <1>5 DEF Inv, TypeOK
<1>7. ASSUME NEW s \in Runners PROVE Owns(run[s])'
  <2>1. CASE s = r
    BY <1>1, <1>4, <1>5, <2>1 DEF Owns, Due
  <2>2. CASE s # r
    BY <1>1, <1>5, <2>2 DEF Inv, Owns, Stored, Published
  <2> QED
    BY <2>1, <2>2
<1>8. \A c \in late' : Abandoned(c)'
  BY <1>1 DEF Inv, Abandoned, Stored, Published
<1>9. Distinct'
  <2>1. \A s \in Runners : run[s].token # t
    BY <1>2 DEF Fresh
  <2>2. \A s, x \in Runners : run'[s].pc # "idle" /\ run'[s].token = run'[x].token => s = x
    BY <1>4, <1>5, <2>1 DEF Inv, Distinct
  <2>3. \A s \in Runners, c \in late' : run'[s].token # c.token
    BY <1>1, <1>2, <1>4, <1>5 DEF Inv, Distinct, Fresh
  <2> QED
    BY <1>1, <2>2, <2>3 DEF Inv, Distinct
<1>10. \A h \in Gens : Described(row[h])' /\ (row[h].state = "ready" => Published(h))'
  BY <1>1 DEF Inv, Published
<1> QED
  BY <1>1, <1>6, <1>7, <1>8, <1>9, <1>10, QuietKeeps DEF Inv

\* A run that is over leaves its call behind.
LEMMA AbandonStep ==
  ASSUME ConstantsOK, Inv, NEW r \in Runners, run[r].pc # "idle", Abandon(r)
  PROVE  Inv' /\ GenerationStep
<1>1. Return(r) /\ UNCHANGED << current, row, object >>
  BY DEF Abandon
<1>2. CASE late' = late
  BY <1>1, <1>2, QuietAffects, ReturnStep
<1>3. CASE run[r].pc \in Effects /\ late' = late \cup {Call(r)}
  <2>1. run[r] \in Runs /\ Owns(run[r])
    BY DEF Inv, TypeOK
  <2>2. run[r].gen \in Gens /\ run[r].token \in Tokens /\ row[run[r].gen].state # "none"
    BY <2>1 DEF Owns
  <2>3. PICK c : c = Call(r)
    OBVIOUS
  <2>4. /\ c.op = run[r].pc /\ c.gen = run[r].gen /\ c.token = run[r].token /\ c.result = run[r].result
        /\ late' = late \cup {c}
    BY <1>3, <2>3 DEF Call
  <2>5. c \in LateCalls
    <3>1. run[r].age \in 0 .. LeaseMs
      BY <2>1 DEF Runs
    <3>2. LeaseMs - run[r].age \in Nat
      BY <3>1 DEF ConstantsOK
    <3> QED
      BY <1>3, <2>1, <2>2, <2>3, <3>2 DEF Call, LateCalls, Runs
  <2>6. Idle \in Runs /\ Idle.token = NoToken /\ Idle.pc = "idle"
    BY DEF Idle, Runs, Pcs, ConstantsOK
  <2>7. /\ run' \in [Runners -> Runs]
        /\ \A s \in Runners : run'[s] = IF s = r THEN Idle ELSE run[s]
    BY <1>1, <2>6 DEF Inv, TypeOK, Return
  <2>8. TypeOK'
    BY <1>1, <2>4, <2>5, <2>7 DEF Inv, TypeOK
  <2>9. ASSUME NEW s \in Runners PROVE Owns(run[s])'
    <3>1. CASE s = r
      BY <2>6, <2>7, <3>1 DEF Owns
    <3>2. CASE s # r
      BY <1>1, <2>7, <3>2 DEF Inv, Owns, Stored, Published
    <3> QED
      BY <3>1, <3>2
  <2>10. Abandoned(c)
    BY <1>3, <2>1, <2>2, <2>4 DEF Owns, Abandoned, Effects, RetirePcs, PublishPcs, Results
  <2>11. \A d \in late' : Abandoned(d)'
    BY <1>1, <2>4, <2>10 DEF Inv, Abandoned, Stored, Published
  <2>12. Distinct'
    <3>1. \A d \in late : d.token \in Tokens /\ d.token # c.token
      BY <2>4 DEF Inv, TypeOK, LateCalls, Distinct
    <3>2. \A s \in Runners : run'[s].token # c.token /\ \A d \in late : run'[s].token # d.token
      BY <2>2, <2>4, <2>6, <2>7, <3>1 DEF Inv, Distinct, ConstantsOK
    <3>3. \A s, x \in Runners : run'[s].pc # "idle" /\ run'[s].token = run'[x].token => s = x
      BY <2>2, <2>6, <2>7 DEF Inv, Distinct, Owns, ConstantsOK
    <3>4. \A x, d \in late' : x.token = d.token => x = d
      BY <2>4, <3>1 DEF Inv, Distinct
    <3> QED
      BY <2>4, <3>2, <3>3, <3>4 DEF Distinct
  <2>13. \A h \in Gens : Described(row[h])' /\ (row[h].state = "ready" => Published(h))'
    BY <1>1 DEF Inv, Published
  <2> QED
    BY <1>1, <2>8, <2>9, <2>11, <2>12, <2>13, QuietKeeps DEF Inv
<1> QED
  BY <1>2, <1>3 DEF Abandon

\* An abandoned call does no more than the run's own call could have done.
LEMMA ArriveStep ==
  ASSUME ConstantsOK, Inv, NEW c \in late, arrive(c)
  PROVE  Inv' /\ GenerationStep
<1>1. late' = late \ {c} /\ UNCHANGED << current, run >>
  BY DEF arrive
<1>2. c \in LateCalls /\ Abandoned(c)
  BY DEF Inv, TypeOK
<1>3. /\ c.gen \in Gens /\ c.token \in Tokens /\ c.op \in Effects /\ c.intact = TRUE
      /\ row[c.gen].state # "none" /\ row[c.gen] \in Intents
  BY <1>2 DEF LateCalls, Abandoned, Inv, TypeOK
<1>4. PICK g \in Gens : g = c.gen
  BY <1>3
<1>5. PICK T : T = {c.token}
  OBVIOUS
<1>6. SUFFICES /\ row' \in [Gens -> Intents]
               /\ object' \in [Gens -> [hash : Hashes, intact : {TRUE}]]
               /\ \A h \in Gens : Effect(h, T)
  <2>1. (\A r \in Runners : run[r].token \notin T) /\ (\A d \in late' : d.token \notin T) /\ late' \subseteq late
    BY <1>1, <1>5 DEF Inv, Distinct
  <2>2. current' \in Gens \cup {NoGen} /\ run' \in [Runners -> Runs]
    BY <1>1 DEF Inv, TypeOK
  <2> QED
    BY <1>1, <1>6, <2>1, <2>2, WorldStep
<1>7. ASSUME NEW w \in Intents, row' = [row EXCEPT ![g] = w], object' = object, Effect(g, T)
      PROVE  /\ row' \in [Gens -> Intents]
             /\ object' \in [Gens -> [hash : Hashes, intact : {TRUE}]]
             /\ \A h \in Gens : Effect(h, T)
  <2>1. row' \in [Gens -> Intents] /\ object' \in [Gens -> [hash : Hashes, intact : {TRUE}]]
    BY <1>7 DEF Inv, TypeOK
  <2>2. \A h \in Gens : h # g => row'[h] = row[h] /\ object'[h] = object[h]
    BY <1>7 DEF Inv, TypeOK
  <2> QED
    BY <1>7, <2>1, <2>2, QuietEffect
<1>8. ASSUME NEW o \in [hash : Hashes, intact : {TRUE}], object' = [object EXCEPT ![g] = o], row' = row, Effect(g, T)
      PROVE  /\ row' \in [Gens -> Intents]
             /\ object' \in [Gens -> [hash : Hashes, intact : {TRUE}]]
             /\ \A h \in Gens : Effect(h, T)
  <2>1. row' \in [Gens -> Intents] /\ object' \in [Gens -> [hash : Hashes, intact : {TRUE}]]
    BY <1>8 DEF Inv, TypeOK
  <2>2. \A h \in Gens : h # g => row'[h] = row[h] /\ object'[h] = object[h]
    BY <1>8 DEF Inv, TypeOK
  <2> QED
    BY <1>8, <2>1, <2>2, QuietEffect
<1>9. CASE row' = row /\ object' = object
  BY <1>9, QuietEffect DEF Inv, TypeOK
<1>10. CASE c.op = "claim"
  <2>1. PICK left \in 0 .. c.left :
          row' = [row EXCEPT ![c.gen] = IF Due(@) THEN Claimed(@, c.token, left) ELSE @] /\ object' = object
    BY <1>10 DEF arrive
  <2>2. left \in Nat
    BY <1>2, <2>1 DEF LateCalls
  <2>3. CASE Due(row[g])
    <3>1. row' = [row EXCEPT ![g] = Claimed(row[g], c.token, left)]
      BY <1>4, <2>1, <2>3 DEF Inv, TypeOK
    <3>2. Claimed(row[g], c.token, left) \in Intents
      BY <1>3, <1>4, <2>2 DEF Claimed, Intents
    <3>3. row'[g] = Claimed(row[g], c.token, left) /\ object'[g] = object[g]
      BY <2>1, <3>1 DEF Inv, TypeOK
    <3>4. Effect(g, T)
      BY <1>3, <1>5, <2>2, <2>3, <3>3, UpdateEffect
    <3> QED
      BY <1>7, <2>1, <3>1, <3>2, <3>4
  <2>4. CASE ~Due(row[g])
    <3>1. row' = row
      BY <1>4, <2>1, <2>4 DEF Inv, TypeOK
    <3> QED
      BY <1>9, <2>1, <3>1
  <2> QED
    BY <2>3, <2>4
<1>11. CASE c.op = "put"
  <2>1. row' = row /\ object' = [object EXCEPT ![g] = putImmutable(object[g], row[g].hash, TRUE)]
    BY <1>3, <1>4, <1>11 DEF arrive
  <2>2. object'[g] = putImmutable(object[g], row[g].hash, TRUE) /\ row'[g] = row[g]
    BY <2>1 DEF Inv, TypeOK
  <2>3. Effect(g, T) /\ putImmutable(object[g], row[g].hash, TRUE) \in [hash : Hashes, intact : {TRUE}]
    BY <1>3, <1>4, <2>2, ObjectEffect, ObjectTypes
  <2> QED
    BY <1>8, <2>1, <2>3
<1>12. CASE c.op = "delete"
  <2>1. row' = row /\ object' = [object EXCEPT ![g] = deleteExact(object[g], row[g].hash)] /\ Final(row[g])
    BY <1>2, <1>4, <1>12 DEF arrive, Abandoned
  <2>2. object'[g] = deleteExact(object[g], row[g].hash) /\ row'[g] = row[g]
    BY <2>1 DEF Inv, TypeOK
  <2>3. Effect(g, T) /\ deleteExact(object[g], row[g].hash) \in [hash : Hashes, intact : {TRUE}]
    BY <1>3, <1>4, <2>1, <2>2, ObjectEffect, ObjectTypes
  <2> QED
    BY <1>8, <2>1, <2>3
<1>13. CASE c.op = "commit"
  <2>1. /\ row' = [row EXCEPT ![g] = IF CanCommit(row[g], c.token) /\ current = g THEN Committed(row[g]) ELSE row[g]]
        /\ object' = object
    BY <1>4, <1>13 DEF arrive
  <2>2. CASE CanCommit(row[g], c.token) /\ current = g
    <3>1. Stored(g) /\ ~Final(row[g])
      BY <1>2, <1>4, <1>13, <2>2 DEF Abandoned, CanCommit
    <3>2. row' = [row EXCEPT ![g] = Committed(row[g])] /\ row'[g] = Committed(row[g]) /\ object'[g] = object[g]
      BY <2>1, <2>2 DEF Inv, TypeOK
    <3>3. Committed(row[g]) \in Intents
      BY <1>3, <1>4 DEF Committed, Intents
    <3>4. Effect(g, T)
      BY <1>3, <1>4, <3>1, <3>2, UpdateEffect DEF Stored
    <3> QED
      BY <1>7, <2>1, <3>2, <3>3, <3>4
  <2>3. CASE ~(CanCommit(row[g], c.token) /\ current = g)
    <3>1. row' = row
      BY <2>1, <2>3 DEF Inv, TypeOK
    <3> QED
      BY <1>9, <2>1, <3>1
  <2> QED
    BY <2>2, <2>3
<1>14. CASE c.op = "record"
  <2>1. row' = [row EXCEPT ![g] = Settle(row[g], c.token, c.result)] /\ object' = object
    BY <1>4, <1>14 DEF arrive
  <2>2. row'[g] = Settle(row[g], c.token, c.result) /\ object'[g] = object[g]
    BY <2>1 DEF Inv, TypeOK
  <2>3. /\ c.result \in Results
        /\ Fenced(row[g], c.token) /\ Final(row[g]) => c.result \in FinalStates
    BY <1>2, <1>4, <1>14 DEF Abandoned
  <2>4. Effect(g, T)
    BY <1>3, <1>4, <2>2, <2>3, UpdateEffect
  <2>5. Settle(row[g], c.token, c.result) \in Intents
    BY <1>3, <1>4, <2>3, SettleType
  <2> QED
    BY <1>7, <2>1, <2>4, <2>5
<1> QED
  BY <1>3, <1>10, <1>11, <1>12, <1>13, <1>14 DEF Effects

-----------------------------------------------------------------------------
(* The theorems.                                                           *)

\* The invariant holds initially.
LEMMA InitInv ==
  ASSUME ConstantsOK, Init
  PROVE  Inv
<1>1. NoIntent \in Intents /\ Idle \in Runs
  BY DEF NoIntent, Intents, Idle, Runs, Pcs, ConstantsOK
<1>2. object \in [Gens -> [hash : Hashes, intact : {TRUE}]]
  <2>1. {Absent, Rendition(OtherHash, TRUE)} \subseteq [hash : Hashes, intact : {TRUE}]
    BY DEF Absent, Rendition, Hashes, OtherHash
  <2> QED
    BY <2>1 DEF Init
<1>3. TypeOK
  BY <1>1, <1>2 DEF Init, TypeOK
<1> QED
  BY <1>3 DEF Init, Inv, NoIntent, Idle, Described, Owns, Distinct

\* Every step keeps the invariant and the generations.
LEMMA NextInv ==
  ASSUME ConstantsOK, Inv, [Next]_vars
  PROVE  Inv' /\ GenerationStep
<1>1. CASE UNCHANGED vars
  <2>1. current' = current /\ row' = row /\ object' = object /\ run' = run /\ late' = late
    BY <1>1 DEF vars
  <2>2. \A g \in Gens : Effect(g, {})
    BY <2>1, QuietEffect
  <2>3. /\ current' \in Gens \cup {NoGen} /\ row' \in [Gens -> Intents]
        /\ object' \in [Gens -> [hash : Hashes, intact : {TRUE}]]
    BY <2>1 DEF Inv, TypeOK
  <2> QED
    BY <2>1, <2>2, <2>3, CalmStep
<1>2. ASSUME NEW r \in Runners, Answer(r) PROVE Inv' /\ GenerationStep
  BY <1>2, ClaimStep, PreflightStep, InspectStep, PublishStep, PutStep, RemoveStep, DeleteStep,
     CommitStep, RecordedStep DEF Answer
<1>3. ASSUME NEW r \in Runners, deadline(r) \/ crash(r) PROVE Inv' /\ GenerationStep
  BY <1>3, AbandonStep DEF deadline, crash
<1> QED
  BY <1>1, <1>2, <1>3, DomainStep, StartStep, CallFailsStep, ArriveStep, VanishStep, ForeignStep, TickStep
     DEF Next

\* Intents, objects, runs and abandoned calls keep their shapes, and no write
\* under way has other bytes than its descriptor's (the checks of readSource).
THEOREM TypeCorrect == ConstantsOK => (Spec => []TypeOK)
<1> SUFFICES ASSUME ConstantsOK PROVE Spec => []TypeOK
  OBVIOUS
<1>1. Inv => TypeOK
  BY DEF Inv
<1> QED
  BY InitInv, NextInv, <1>1, PTL DEF Spec

\* A URL is exposed only for an object that exists and holds exactly the bytes
\* of the assignment's descriptor, however many runners lose their leases, crash
\* or leave calls behind that execute later (project, run).
THEOREM Projection == ConstantsOK => (Spec => []ProjectedIsPublished)
<1> SUFFICES ASSUME ConstantsOK PROVE Spec => []ProjectedIsPublished
  OBVIOUS
<1>1. Inv => ProjectedIsPublished
  BY DEF Inv, ProjectedIsPublished, project
<1> QED
  BY InitInv, NextInv, <1>1, PTL DEF Spec

\* No late worker makes a generation that is to be retired publishable again,
\* and no run removes or overwrites an object of another descriptor.
THEOREM Generations == ConstantsOK => (Spec => GenerationsKept)
<1> SUFFICES ASSUME ConstantsOK PROVE Spec => GenerationsKept
  OBVIOUS
<1>1. Inv /\ [Next]_vars => Inv' /\ [GenerationStep]_vars
  BY NextInv
<1> QED
  BY InitInv, <1>1, PTL DEF Spec, GenerationsKept
=============================================================================
