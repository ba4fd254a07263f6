--------------------------- MODULE MCPublication ---------------------------
(***************************************************************************)
(* Publication and the batches of the sweep.  The components share no      *)
(* state, so that a behaviour is one of a single part, while the other one *)
(* rests in an initial state.                                              *)
(***************************************************************************)
EXTENDS Publication, SweepBatch, TLC

CONSTANTS Parts,   \* the parts of a run
          p1, p2, g1, g2, d1, d2

VARIABLE part

-----------------------------------------------------------------------------
(* Publication, along two planes of its behaviours.                        *)

\* Two runners of one generation's intent, whose leases expire under them, with
\* a foreign object that may be there or come in.
Leases ==
  /\ Cardinality(used') <= 1 /\ Cardinality({row'[g].hash : g \in Gens} \ {"none"}) <= 1
  /\ {g \in Gens \ used' : used' # {} /\ object'[g] # Absent} = {}

\* Replacement, by stage, private assignment or unlink, under one run at a time
\* and no foreign object.
Replaced ==
  /\ Cardinality({r \in Runners : run'[r].pc # "idle"}) <= 1
  /\ OtherHash \notin {object'[g].hash : g \in Gens}

-----------------------------------------------------------------------------

ASSUME PublicationAssumption == ConstantsOK

ASSUME SweepAssumption == SweepConstants

\* At most one foreign object, and none but for two runners.
PublicationInit ==
  /\ Init
  /\ Cardinality({g \in Gens : object[g] # Absent}) <= IF part = "leases" THEN 1 ELSE 0

\* A sweep that does not run rests over settled deletions.
BatchesInit ==
  /\ SweepInit
  /\ part # "batches" => \A r \in Poison : kind[r] = "settled"

PartsInit == part \in Parts /\ PublicationInit /\ BatchesInit

PartsNext ==
  /\ UNCHANGED part
  /\ \/ part = "leases" /\ Next /\ Leases /\ UNCHANGED sweepVars
     \/ part = "replaced" /\ Next /\ Replaced /\ UNCHANGED sweepVars
     \/ part = "batches" /\ SweepNext /\ UNCHANGED vars

PartsSpec == PartsInit /\ [][PartsNext]_<< part, vars, sweepVars >>

PublicationSymmetry ==
  Permutations({p1, p2}) \cup Permutations(Tokens) \cup Permutations({g1, g2}) \cup Permutations({d1, d2})
=============================================================================
