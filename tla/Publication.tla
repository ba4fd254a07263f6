---------------------------- MODULE Publication ----------------------------
(***************************************************************************)
(* The publication coordinator: public renditions of one logical binding,  *)
(* whose assignments are the generations Gens.  The durable repository and *)
(* the object port belong to the consumer and are modelled from their      *)
(* contract (types.ts) and the ports of the conformance suite: every call  *)
(* is atomic and fenced by the lease token, expiry is judged by the        *)
(* database clock.  A call may fail, its answer may be lost, and a runner  *)
(* that reaches its deadline or crashes abandons its call, which then      *)
(* executes at any later time or not at all (late).  Times are kept as the *)
(* time left, so that only the differences between clocks count.           *)
(***************************************************************************)
EXTENDS Integers, FiniteSets

CONSTANTS
  Gens,         \* generations, one object key each
  NoGen,        \* the binding is not assigned
  Descriptors,  \* descriptor hashes
  Runners,      \* processes that call run()
  Tokens, NoToken,
  LeaseMs, RetryMs,
  Foreign,      \* generations whose key may hold a foreign object
  Prompt,       \* whether a run that reaches its deadline counts as a fault
  MaxFaults,    \* bound: failed calls, lost answers, crashes, bad sources
  MaxLate       \* bound: abandoned calls on their way

VARIABLES
  current,  \* the generation the domain record is assigned
  used,     \* generations assigned so far (each replacement is a fresh one)
  row,      \* the durable intent of every generation
  object,   \* what is stored under every generation's key
  run,      \* the runners
  late,     \* abandoned calls that may still execute
  faults

vars == << current, used, row, object, run, late, faults >>

\* What the values of the constants are taken to satisfy: the tokens are not the
\* absent one, the digests are neither the absent one nor a foreign one.
ConstantsOK ==
  /\ NoToken \notin Tokens
  /\ NoGen \notin Gens
  /\ Foreign \subseteq Gens
  /\ Descriptors \cap {"none", "other"} = {}
  /\ LeaseMs \in Nat /\ RetryMs \in Nat

-----------------------------------------------------------------------------
(* Intents and objects.                                                    *)

\* The digest of a foreign object's descriptor.
OtherHash == "other"

Hashes == Descriptors \cup {"none", OtherHash}

Absent == [hash |-> "none", intact |-> TRUE]

\* An immutable rendition: its recorded descriptor, and whether its bytes
\* are the ones the descriptor was computed from.
Rendition(d, intact) == [hash |-> d, intact |-> intact]

NoIntent == [state |-> "none", hash |-> "none", token |-> NoToken, lease |-> 0, next |-> 0]

Staged(d) == [NoIntent EXCEPT !.state = "pending", !.hash = d]

\* Hide the projection and leave a tombstone that is due at once.
retireRow(w) ==
  IF w.state = "none" THEN w
  ELSE [w EXCEPT !.state = "retiring", !.token = NoToken, !.lease = 0, !.next = 0]

\* Mutant of Due: a retired record is done with.
DueUnretired(w) ==
  /\ w.state \notin {"none", "ready", "blocked", "retired"}
  /\ w.next = 0
  /\ w.token # NoToken => w.lease = 0

Due(w) ==
  /\ w.state \notin {"none", "ready", "blocked"}
  /\ w.next = 0
  /\ w.token # NoToken => w.lease = 0

Action(w) == IF w.state \in {"retiring", "retired"} THEN "retire" ELSE "publish"

Claimed(w, t, left) ==
  [w EXCEPT !.token = t, !.lease = left,
            !.state = IF Action(w) = "publish" THEN "uncertain" ELSE @]

Fenced(w, t) == w.token = t

Recorded(w, s) == [w EXCEPT !.state = s, !.token = NoToken, !.lease = 0, !.next = RetryMs]

Committed(w) == [w EXCEPT !.state = "ready", !.token = NoToken, !.lease = 0]

\* Conditional creation and conditional deletion of the object port.
putImmutable(o, d, intact) == IF o = Absent THEN Rendition(d, intact) ELSE o

deleteExact(o, d) == IF o.hash = d THEN Absent ELSE o

\* storage.inspect: metadata only, the bytes are not read back.
inspect(g) ==
  IF object[g] = Absent THEN "absent"
  ELSE IF object[g].hash = row[g].hash THEN "matching" ELSE "conflict"

\* project: the URL of the current binding, exposed in the ready state only.
project(g) == current = g /\ row[g].state = "ready"

-----------------------------------------------------------------------------
(* Runners.                                                                *)

Idle == [pc |-> "idle", gen |-> NoGen, token |-> NoToken, action |-> "publish",
         result |-> "none", intact |-> TRUE, age |-> 0]

\* The call a runner waits for, as an abandoned call.
Call(r) == [op |-> run[r].pc, gen |-> run[r].gen, token |-> run[r].token,
            result |-> run[r].result, intact |-> run[r].intact,
            left |-> LeaseMs - run[r].age]

Effects == {"claim", "put", "delete", "commit", "record"}

Fresh(t) ==
  /\ \A g \in Gens : row[g].token # t
  /\ \A r \in Runners : run[r].token # t
  /\ \A c \in late : c.token # t

Goto(r, s) == run' = [run EXCEPT ![r].pc = s]
Return(r) == run' = [run EXCEPT ![r] = Idle]

\* save(): the state to persist before run() returns.
Record(r, s) == run' = [run EXCEPT ![r].pc = "record", ![r].result = s]

\* Mutant of Uncertain: the retire work's outcome is forgotten.
UncertainAlways(r) == "uncertain"

\* What is known after an ambiguous outcome.
Uncertain(r) == IF run[r].action = "retire" THEN "retiring" ELSE "uncertain"

Keep == faults' = faults
Fault == faults < MaxFaults /\ faults' = faults + 1

\* The catch block: a run that owns its lease records the uncertainty, a
\* failure of that record is swallowed.
Throw(r) ==
  IF run[r].pc \in {"claim", "record"} THEN Return(r) ELSE Record(r, Uncertain(r))

Init ==
  /\ current = NoGen
  /\ used = {}
  /\ row = [g \in Gens |-> NoIntent]
  /\ object \in [Gens -> {Absent, Rendition(OtherHash, TRUE)}]
  /\ \A g \in Gens \ Foreign : object[g] = Absent
  /\ run = [r \in Runners |-> Idle]
  /\ late = {}
  /\ faults = 0

-----------------------------------------------------------------------------
(* The domain transactions: assignment and staging are one.                *)

Assign(g) ==
  /\ g \notin used \/ g = current
  /\ current' = g
  /\ used' = used \cup {g}
  /\ UNCHANGED << object, run, late, faults >>

\* The text of binding, source and target is well formed and the digest is
\* theirs; the digest of any other text is not a descriptor.
verify(d) == d \in Descriptors

\* stage() of a public assignment.  A retry finds its first intent; another
\* descriptor for the same generation fails and rolls the transaction back.
stage(g, d) ==
  /\ verify(d)
  /\ Assign(g)
  /\ \/ /\ row[g].state = "none"
        /\ row' = [h \in Gens |-> IF h = g THEN Staged(d) ELSE retireRow(row[h])]
     \/ row[g].hash = d /\ row' = row

\* stage() of a private assignment retires the whole logical binding.
stagePrivate(g) ==
  /\ Assign(g)
  /\ row' = [h \in Gens |-> retireRow(row[h])]

\* The assignment changes and publication is not told.
replace(g) ==
  /\ Assign(g)
  /\ current # NoGen /\ row[current].state # "ready"
  /\ row' = row

\* retire() of the exact generation, with the unlink.
retire ==
  /\ current # NoGen
  /\ current' = NoGen
  /\ row' = [row EXCEPT ![current] = retireRow(@)]
  /\ UNCHANGED << used, object, run, late, faults >>

-----------------------------------------------------------------------------
(* run().  Every step is one call the run awaits.                          *)

\* A run of an intent that is not due answers idle and changes nothing.
start(r, g) ==
  /\ run[r].pc = "idle"
  /\ Due(row[g])
  /\ \E t \in Tokens :
       /\ Fresh(t)
       /\ run' = [run EXCEPT ![r] = [Idle EXCEPT !.pc = "claim", !.gen = g, !.token = t]]
  /\ UNCHANGED << current, used, row, object, late, faults >>

\* A call of run r that neither changes the row nor the object.
Awaits(r, s) ==
  /\ run[r].pc = s
  /\ UNCHANGED << current, used, row, object, late >>

\* repository.claim.  A lease that is over on arrival is lost; a lost answer,
\* or an intent that the runner's configuration does not derive, ends the run
\* with the lease left behind.
claim(r) ==
  LET g == run[r].gen
      left == LeaseMs - run[r].age
  IN /\ run[r].pc = "claim"
     /\ IF Due(row[g])
        THEN /\ row' = [row EXCEPT ![g] = Claimed(@, run[r].token, left)]
             /\ \/ /\ Keep
                   /\ IF left = 0
                      THEN Return(r)
                      ELSE run' = [run EXCEPT ![r].action = Action(row[g]),
                                     ![r].pc = IF Action(row[g]) = "publish" THEN "preflight" ELSE "inspect"]
                \/ Fault /\ Return(r)
        ELSE Keep /\ Return(r) /\ row' = row
     /\ UNCHANGED << current, used, object, late >>

isCurrent(r) == Fenced(row[run[r].gen], run[r].token) /\ current = run[r].gen

\* The preflights before the inspection and before the PUT.
preflight(r) ==
  \E s \in {"preflight", "recheck"} :
    /\ Awaits(r, s)
    /\ Keep
    /\ IF isCurrent(r)
       THEN Goto(r, IF s = "preflight" THEN "inspect" ELSE "publish")
       ELSE Record(r, "retiring")

\* The rendition is there already.
Reconcile(r) == IF run[r].action = "retire" THEN Goto(r, "remove") ELSE Goto(r, "commit")

\* The coordinator's inspection; unknown is never read as absence.
inspectObject(r) ==
  /\ Awaits(r, "inspect")
  /\ LET seen == inspect(run[r].gen)
         retiring == run[r].action = "retire"
     IN \/ Fault /\ Record(r, Uncertain(r))
        \/ /\ Keep
           /\ \/ seen = "conflict" /\ Record(r, "blocked")
              \/ seen = "matching" /\ Reconcile(r)
              \/ seen = "absent" /\ retiring /\ Record(r, "retired")
              \/ seen = "absent" /\ ~retiring /\ Goto(r, "recheck")

\* storage.publish, the HEAD before the write.
publish(r) ==
  /\ Awaits(r, "publish")
  /\ LET seen == inspect(run[r].gen)
     IN \/ Fault /\ Record(r, "uncertain")
        \/ /\ Keep
           /\ \/ seen = "matching" /\ Goto(r, "commit")
              \/ seen = "conflict" /\ Record(r, "uncertain")
              \/ seen = "absent" /\ Goto(r, "read")

\* Mutant of readSource: what is read is written, whatever its digest.
readSourceUnverified(r) ==
  /\ Awaits(r, "read")
  /\ \/ Keep /\ Goto(r, "put")
     \/ Fault /\ run' = [run EXCEPT ![r].pc = "put", ![r].intact = FALSE]

\* The source is read and its version, size and digest are compared.
readSource(r) ==
  /\ Awaits(r, "read")
  /\ \/ Keep /\ Goto(r, "put")
     \/ Fault /\ Throw(r)

\* putImmutable; a refused creation is an unknown outcome.
put(r) ==
  LET g == run[r].gen
  IN /\ run[r].pc = "put"
     /\ \/ /\ object' = [object EXCEPT ![g] = putImmutable(@, row[g].hash, run[r].intact)]
           /\ \/ Keep /\ (IF object[g] = Absent THEN Goto(r, "putCheck") ELSE Record(r, "uncertain"))
              \/ Fault /\ Record(r, "uncertain")
        \/ Fault /\ object' = object /\ Record(r, "uncertain")
     /\ UNCHANGED << current, used, row, late >>

\* The HEAD after the write.
putCheck(r) ==
  /\ Awaits(r, "putCheck")
  /\ \/ Keep /\ (IF inspect(run[r].gen) = "matching" THEN Goto(r, "commit") ELSE Record(r, "uncertain"))
     \/ Fault /\ Record(r, "uncertain")

\* storage.removeExact: HEAD, conditional delete, HEAD.
remove(r) ==
  /\ Awaits(r, "remove")
  /\ LET seen == inspect(run[r].gen)
     IN \/ Fault /\ Record(r, "retiring")
        \/ /\ Keep
           /\ \/ seen = "absent" /\ Record(r, "retired")
              \/ seen = "conflict" /\ Record(r, "retiring")
              \/ seen = "matching" /\ Goto(r, "delete")

delete(r) ==
  LET g == run[r].gen
  IN /\ run[r].pc = "delete"
     /\ \/ /\ object' = [object EXCEPT ![g] = deleteExact(@, row[g].hash)]
           /\ \/ Keep /\ Goto(r, "deleteCheck")
              \/ Fault /\ Record(r, "retiring")
        \/ Fault /\ object' = object /\ Record(r, "retiring")
     /\ UNCHANGED << current, used, row, late >>

deleteCheck(r) ==
  /\ Awaits(r, "deleteCheck")
  /\ \/ Keep /\ Record(r, IF inspect(run[r].gen) = "absent" THEN "retired" ELSE "retiring")
     \/ Fault /\ Record(r, "retiring")

\* repository.commitReady: ready only for the current assignment and with an
\* unexpired lease; stale keeps the lease for the retirement.
CanCommit(w, t) == Fenced(w, t) /\ w.lease > 0

commitReady(r) ==
  LET g == run[r].gen
      ok == CanCommit(row[g], run[r].token)
  IN /\ run[r].pc = "commit"
     /\ \/ /\ ok /\ current = g
           /\ row' = [row EXCEPT ![g] = Committed(@)]
           /\ \/ Keep /\ Return(r)
              \/ Fault /\ Throw(r)
        \/ ok /\ current # g /\ row' = row /\ Keep /\ Record(r, "retiring")
        \/ ~ok /\ row' = row /\ Keep /\ Return(r)
        \/ row' = row /\ Fault /\ Throw(r)
     /\ UNCHANGED << current, used, object, late >>

\* repository.record; whatever its answer, run() returns.
Settle(w, t, s) == IF Fenced(w, t) THEN Recorded(w, s) ELSE w

record(r) ==
  /\ run[r].pc = "record"
  /\ \/ Keep /\ row' = [row EXCEPT ![run[r].gen] = Settle(@, run[r].token, run[r].result)]
     \/ Fault /\ row' = row
  /\ Return(r)
  /\ UNCHANGED << current, used, object, late >>

\* A read fails: the catch block.
callFails(r) ==
  /\ run[r].pc \in {"claim", "preflight", "recheck"}
  /\ Awaits(r, run[r].pc)
  /\ Fault
  /\ Throw(r)

\* A run is over at its deadline (or by a crash); nothing is recorded.
Abandon(r) ==
  /\ late' = IF run[r].pc \in Effects THEN late \cup {Call(r)} ELSE late
  /\ Cardinality(late') <= MaxLate
  /\ Return(r)
  /\ UNCHANGED << current, used, row, object >>

deadline(r) ==
  /\ run[r].pc # "idle"
  /\ run[r].age = LeaseMs
  /\ Abandon(r)
  /\ Keep

crash(r) ==
  /\ run[r].pc # "idle"
  /\ Abandon(r)
  /\ Fault

-----------------------------------------------------------------------------
(* Abandoned calls, and time.                                              *)

arrive(c) ==
  /\ late' = late \ {c}
  /\ CASE c.op = "claim" ->
            /\ \E left \in 0..c.left :
                 row' = [row EXCEPT ![c.gen] = IF Due(@) THEN Claimed(@, c.token, left) ELSE @]
            /\ object' = object
       [] c.op = "put" ->
            /\ object' = [object EXCEPT ![c.gen] = putImmutable(@, row[c.gen].hash, c.intact)]
            /\ row' = row
       [] c.op = "delete" ->
            /\ object' = [object EXCEPT ![c.gen] = deleteExact(@, row[c.gen].hash)]
            /\ row' = row
       [] c.op = "commit" ->
            /\ row' = [row EXCEPT ![c.gen] =
                 IF CanCommit(@, c.token) /\ current = c.gen THEN Committed(@) ELSE @]
            /\ object' = object
       [] c.op = "record" ->
            /\ row' = [row EXCEPT ![c.gen] = Settle(@, c.token, c.result)]
            /\ object' = object
  /\ UNCHANGED << current, used, run, faults >>

\* Another deployment writes an object of its own under the same key.
foreignPut(g) ==
  /\ g \in Foreign /\ object[g] = Absent
  /\ object' = [object EXCEPT ![g] = Rendition(OtherHash, TRUE)]
  /\ Fault
  /\ UNCHANGED << current, used, row, run, late >>

vanish(c) ==
  /\ late' = late \ {c}
  /\ UNCHANGED << current, used, row, object, run, faults >>

Less(n) == IF n = 0 THEN 0 ELSE n - 1

Overdue == \E r \in Runners : run[r].pc # "idle" /\ run[r].age + 1 = LeaseMs

tick ==
  /\ IF Prompt /\ Overdue THEN Fault ELSE Keep
  /\ row' = [g \in Gens |-> [row[g] EXCEPT !.lease = Less(@), !.next = Less(@)]]
  /\ run' = [r \in Runners |->
       [run[r] EXCEPT !.age = IF run[r].pc = "idle" \/ @ = LeaseMs THEN @ ELSE @ + 1]]
  /\ << row', run' >> # << row, run >>
  /\ UNCHANGED << current, used, object, late >>

Answer(r) ==
  \/ claim(r) \/ preflight(r) \/ inspectObject(r)
  \/ publish(r) \/ readSource(r) \/ put(r) \/ putCheck(r)
  \/ remove(r) \/ delete(r) \/ deleteCheck(r)
  \/ commitReady(r) \/ record(r)

Domain ==
  \/ \E g \in Gens :
       \/ \E d \in Hashes : stage(g, d)
       \/ stagePrivate(g)
       \/ replace(g)
  \/ retire

Next ==
  \/ Domain
  \/ \E r \in Runners :
       \/ \E g \in Gens : start(r, g)
       \/ Answer(r) \/ callFails(r) \/ deadline(r) \/ crash(r)
  \/ \E c \in late : arrive(c) \/ vanish(c)
  \/ \E g \in Gens : foreignPut(g)
  \/ tick

Spec == Init /\ [][Next]_vars

Lateness == \E c \in late : arrive(c) \/ vanish(c)

\* A run of the generation's intent gets its lease, without a fault.
claimed(g) == \E r \in Runners : run[r].gen = g /\ claim(r) /\ Keep

-----------------------------------------------------------------------------
(* Properties.                                                             *)

Published(g) == object[g] = Rendition(row[g].hash, TRUE)

\* A URL is exposed only for an object that exists and holds exactly the bytes
\* the assignment's descriptor was computed from, whatever abandoned writes
\* and deletions of earlier runs are still on their way (project).
ProjectedIsPublished == \A g \in Gens : project(g) => Published(g)

\* Once a generation is to be retired no late worker, record or commit makes
\* it publishable again (record and commitReady of run).
RetirementIsFinal ==
  \A g \in Gens : row[g].state \in {"retiring", "retired"}
                    => row'[g].state \in {"retiring", "retired", "blocked"}

\* No run ever removes an object of another descriptor, and no run writes
\* over one (storage.publish, storage.removeExact).
ForeignUntouched ==
  \A g \in Gens : object[g].hash = OtherHash => object'[g] = object[g]

\* The two together: no late worker makes a retired generation publishable
\* again, and no run removes or overwrites an object of another descriptor.
GenerationStep == RetirementIsFinal /\ ForeignUntouched

\* No step of a behaviour brings a retired generation back or touches a foreign
\* object.
GenerationsKept == [][GenerationStep]_vars

Unassigned(g) == current # g /\ row[g].state # "ready"

Withdrawn(g) == object[g].hash # row[g].hash \/ row[g].state = "none"

Assigned(g) == current = g /\ row[g].state \notin {"none", "retiring", "retired"}

\* Published, or blocked by a foreign object.
Exposed(g) == project(g) \/ (row[g].state = "blocked" /\ object[g].hash = OtherHash)
=============================================================================
