---------------------------- MODULE DSENTResult ----------------------------
(***************************************************************************)
(* The result trees of the DSENT power model                               *)
(* (src/src/intersim2/dsent/util/Result.cc).                               *)
(*                                                                         *)
(* A Result is either atomic (AtomicResult: a value) or a list of          *)
(* SubResults, each a pointer to another Result, the name of its producer  *)
(* and a multiplier num_results.  Results are shared: the same event       *)
(* result of a sub-model may be added to several parents.  calculateSum    *)
(* and print walk the tree recursively; getResults groups the direct       *)
(* sub-results by producer for the energy report; clone copies a result.   *)
(*                                                                         *)
(* Values and multipliers are doubles in the code; the model keeps small   *)
(* naturals, which is enough to tell a missing or misplaced multiplier    *)
(* from a right one.  Result names and printed text are abstracted to the *)
(* result ids and the printed numbers.                                     *)
(***************************************************************************)
EXTENDS Integers, Sequences, FiniteSets
LOCAL INSTANCE SequencesExt
LOCAL INSTANCE FiniteSetsExt

CONSTANTS
  Atomics,     \* AtomicResults created by the models
  Composites,  \* non-atomic Results (event, area and power results)
  Fresh,       \* ids for the results clone() may create
  Producers,   \* producer names passed to addSubResult
  Values,      \* values setValue may store
  Nums,        \* multipliers passed to addSubResult
  MaxSubs,     \* bound on the sub-results of one Result
  MaxValue     \* bound on a value grown by addValue

Ids == Atomics \cup Composites \cup Fresh

None == "none"

VARIABLES
  atomic,   \* id -> is an AtomicResult
  value,    \* id -> AtomicResult::m_value_
  subs,     \* id -> m_sub_results_: <<[result, producer, num]>>
  live,     \* ids constructed so far
  cloneOf,  \* id -> the result it was cloned from, or None
  meshFlit  \* id -> "sym"/"asym" once it is a mesh's Flit event, else None

vars == <<atomic, value, subs, live, cloneOf, meshFlit>>

(* Result::calculateSum: the sum over the sub-results of their sums times *)
(* their multipliers; AtomicResult::calculateSum returns the value.       *)
RECURSIVE CalculateSumNoMultiplier(_)
CalculateSumNoMultiplier(r) ==
  IF atomic[r] THEN value[r]
  ELSE MapThenSumSet(LAMBDA i : CalculateSumNoMultiplier(subs[r][i].result),
                     DOMAIN subs[r])

(* AtomicResult::calculateSum and AtomicResult::print override the       *)
(* composite versions: the value, and the value times num_results.       *)
AtomicCalculateSum(r) == value[r]
AtomicPrint(r, mult) == <<value[r] * mult>>

RECURSIVE CalculateSum(_)
CalculateSum(r) ==
  IF atomic[r] THEN AtomicCalculateSum(r)
  ELSE MapThenSumSet(LAMBDA i : CalculateSum(subs[r][i].result) * subs[r][i].num,
                     DOMAIN subs[r])

(* Result::print(prepend, num_results, detail_level): the numbers printed, *)
(* one per line.  Below the detail level a Result prints its sum times    *)
(* num_results; above it, its sub-results with num_results multiplied in. *)
(* AtomicResult::print prints its value times num_results at any level.   *)
RECURSIVE PrintedNoProduct(_, _, _)
PrintedNoProduct(r, mult, d) ==
  IF atomic[r] THEN AtomicPrint(r, mult)
  ELSE IF d > 0
       THEN FlattenSeq([i \in DOMAIN subs[r] |->
                          PrintedNoProduct(subs[r][i].result, subs[r][i].num, d - 1)])
       ELSE <<CalculateSum(r) * mult>>

RECURSIVE Printed(_, _, _)
Printed(r, mult, d) ==
  IF atomic[r] THEN AtomicPrint(r, mult)
  ELSE IF d > 0
       THEN FlattenSeq([i \in DOMAIN subs[r] |->
                          Printed(subs[r][i].result, mult * subs[r][i].num, d - 1)])
       ELSE <<CalculateSum(r) * mult>>

(* Result::getResults(asymmetric): for each producer category, the       *)
(* direct sub-results of that producer with their calculateSum.  The asym *)
(* categories are filled only when asymmetric; other producers are only   *)
(* reported on stderr.                                                    *)
CategoriesNoAsym(asym) == {"Link", "MeshRouter", "VerticalLink"}

Categories(asym) ==
  {"Link", "MeshRouter", "VerticalLink"}
    \cup (IF asym THEN {"AsymLink", "AsymMeshRouter", "AsymVerticalLink"} ELSE {})

GetResults(r, asym) ==
  [cat \in Categories(asym) |->
     LET mine == SelectSeq(subs[r], LAMBDA e : e.producer = cat)
     IN [i \in DOMAIN mine |-> [name |-> mine[i].result,
                                energy |-> CalculateSum(mine[i].result)]]]

(* The results reachable from r through sub-results, r included. *)
Reach(r) ==
  LET Step(S) == S \cup UNION {{subs[x][i].result : i \in DOMAIN subs[x]} : x \in S}
  IN FoldLeft(LAMBDA S, j : Step(S), {r}, [j \in 1 .. Cardinality(Ids) |-> j])

Init ==
  /\ atomic = [r \in Ids |-> r \in Atomics]
  /\ value \in [Ids -> {0}]
  /\ subs = [r \in Ids |-> <<>>]
  /\ live = Atomics \cup Composites
  /\ cloneOf = [r \in Ids |-> None]
  /\ meshFlit = [r \in Ids |-> None]

(* AtomicResult::setValue. *)
SetValue(r, v) ==
  /\ r \in live /\ atomic[r]
  /\ value' = [value EXCEPT ![r] = v]
  /\ UNCHANGED <<atomic, subs, live, cloneOf, meshFlit>>

(* AtomicResult::addValue. *)
AddValue(r, v) ==
  /\ r \in live /\ atomic[r]
  /\ value[r] + v <= MaxValue
  /\ value' = [value EXCEPT ![r] = @ + v]
  /\ UNCHANGED <<atomic, subs, live, cloneOf, meshFlit>>

(* The SubResult constructor: a result, its producer and its count,      *)
(* which the constructor asserts is not negative.                         *)
NewSubResult(sub, producer, num) ==
  [result |-> sub, producer |-> producer, num |-> num]

(* Result::addSubResult, with the SubResult constructor's asserts.  The  *)
(* models add a sub-model's result to a parent, never a result that      *)
(* already contains the parent; a mesh's Flit event result is filled by  *)
(* constructModel only.                                                   *)
AddSubResult(r, sub, producer, num) ==
  /\ r \in live /\ ~atomic[r] /\ sub \in live /\ meshFlit[r] = None
  /\ Len(subs[r]) < MaxSubs
  /\ num >= 0
  /\ r \notin Reach(sub)
  /\ subs' = [subs EXCEPT ![r] = Append(@, NewSubResult(sub, producer, num))]
  /\ UNCHANGED <<atomic, value, live, cloneOf, meshFlit>>

(* Fault model: the sub-results' results are deleted with the list,  *)
(* though other parents may still point to them.                       *)
RemoveAllSubResultsDeep(r) ==
  /\ r \in live /\ ~atomic[r] /\ meshFlit[r] = None
  /\ subs' = [subs EXCEPT ![r] = <<>>]
  /\ live' = live \ {subs[r][i].result : i \in DOMAIN subs[r]}
  /\ UNCHANGED <<atomic, value, cloneOf, meshFlit>>

(* Result::removeAllSubResults: deletes the SubResult records only. *)
RemoveAllSubResults(r) ==
  /\ r \in live /\ ~atomic[r] /\ meshFlit[r] = None
  /\ subs' = [subs EXCEPT ![r] = <<>>]
  /\ UNCHANGED <<atomic, value, live, cloneOf, meshFlit>>

(* Result::clone / AtomicResult::clone: the copy constructor copies the  *)
(* name (and an atomic value) and then clones the sub-results of the new *)
(* object, whose list is still empty.                                     *)
Clone(r, c) ==
  /\ r \in live /\ c \in Fresh \ live
  /\ atomic' = [atomic EXCEPT ![c] = atomic[r]]
  /\ value' = [value EXCEPT ![c] = value[r]]
  /\ subs' = [subs EXCEPT ![c] = <<>>]
  /\ live' = live \cup {c}
  /\ cloneOf' = [cloneOf EXCEPT ![c] = r]
  /\ UNCHANGED meshFlit

(* The producers of the sub-results BSElectricalMesh::constructModel    *)
(* adds to its Flit event: the Send events of the link and the vertical  *)
(* link, then the router's WriteBuffer, ReadBuffer,                      *)
(* TraverseCrossbar->Multicast1 and the two ArbitrateSwitch stages.      *)
MeshFlitProducers ==
  <<"Link", "VerticalLink", "MeshRouter", "MeshRouter", "MeshRouter", "MeshRouter",
    "MeshRouter">>

(* The same events of the asymmetric network's second link, vertical    *)
(* link and router.                                                     *)
AsymFlitProducers ==
  <<"AsymLink", "AsymVerticalLink", "AsymMeshRouter", "AsymMeshRouter",
    "AsymMeshRouter", "AsymMeshRouter", "AsymMeshRouter">>

(* BSElectricalMesh::constructModel: createElectricalEventResult("Flit")  *)
(* gives an empty result r, one of the models' own results; each         *)
(* sub-model's event result is added with its instance name as producer  *)
(* and multiplier 1, and the asymmetric sub-models' events after them    *)
(* when isAsymmetric().  The event results are atomic results of the    *)
(* sub-models; the construction of the routers and links, their nets     *)
(* and port connections, which the report does not read, is abstracted.  *)
ConstructModel(r, asym) ==
  LET producers == MeshFlitProducers \o (IF asym THEN AsymFlitProducers ELSE <<>>)
  IN /\ r \in Composites /\ subs[r] = <<>> /\ meshFlit[r] = None
     /\ \E ev \in [DOMAIN producers -> Atomics] :
          subs' = [subs EXCEPT ![r] = [i \in DOMAIN producers |->
                     [result |-> ev[i], producer |-> producers[i], num |-> 1]]]
     /\ meshFlit' = [meshFlit EXCEPT ![r] = IF asym THEN "asym" ELSE "sym"]
     /\ UNCHANGED <<atomic, value, live, cloneOf>>

Next ==
  \/ \E r \in Ids, v \in Values : SetValue(r, v) \/ AddValue(r, v)
  \/ \E r, sub \in Ids, p \in Producers, num \in Nums : AddSubResult(r, sub, p, num)
  \/ \E r \in Ids : RemoveAllSubResults(r)
  \/ \E r, c \in Ids : Clone(r, c)
  \/ \E r \in Ids, asym \in BOOLEAN : ConstructModel(r, asym)

Spec == Init /\ [][Next]_vars

-----------------------------------------------------------------------------
(* Reference definitions *)

Depth == Cardinality(Ids)

(* The paths of sub-result indices from r down to an atomic result. *)
RECURSIVE LeafPaths(_)
LeafPaths(r) ==
  IF atomic[r] THEN {<<>>}
  ELSE UNION {{<<i>> \o p : p \in LeafPaths(subs[r][i].result)} : i \in DOMAIN subs[r]}

(* The result reached from r along path p. *)
Walk(r, p) == FoldLeft(LAMBDA x, i : subs[x][i].result, r, p)

(* The product of the multipliers along path p from r. *)
Weight(r, p) ==
  FoldLeft(LAMBDA acc, j : acc * subs[Walk(r, SubSeq(p, 1, j - 1))][p[j]].num,
           1, [j \in 1 .. Len(p) |-> j])

(* The sum over every path from r to an atomic result of its value times *)
(* the product of the multipliers on the path.                           *)
PathSum(r) ==
  MapThenSumSet(LAMBDA p : Weight(r, p) * value[Walk(r, p)], LeafPaths(r))

-----------------------------------------------------------------------------
(* Properties *)

TypeOK ==
  /\ atomic \in [Ids -> BOOLEAN]
  /\ value \in [Ids -> 0 .. MaxValue]
  /\ live \subseteq Ids
  /\ meshFlit \in [Ids -> {None, "sym", "asym"}]
  /\ \A r \in Ids : \A i \in DOMAIN subs[r] :
       subs[r][i] \in [result : live,
                       producer : Producers \cup Range(MeshFlitProducers \o AsymFlitProducers),
                       num : Nums \cup {1}]
  /\ \A r \in Ids : meshFlit[r] = None => Len(subs[r]) <= MaxSubs

(* calculateSum of every result equals the sum over its atomic leaves of *)
(* their value times the product of the multipliers on the path, also    *)
(* when results are shared by several parents.                           *)
SumMatchesPaths == \A r \in live : CalculateSum(r) = PathSum(r)

(* At every detail level the numbers print() reports add up to          *)
(* calculateSum(): print passes num_results multiplied down the tree.    *)
PrintPreservesTotal ==
  \A r \in live, d \in 0 .. Depth :
    LET lines == Printed(r, 1, d)
    IN MapThenSumSet(LAMBDA i : lines[i], DOMAIN lines) = CalculateSum(r)

(* The energy report of a mesh's Flit event adds up to its energy:       *)
(* getResults, called with the mesh's AsymmetricNetwork flag, files every *)
(* sub-result constructModel added under one of its categories.           *)
EnergyReportComplete ==
  \A r \in live :
    meshFlit[r] # None =>
      LET asym == meshFlit[r] = "asym"
          g == GetResults(r, asym)
      IN MapThenSumSet(LAMBDA cat : MapThenSumSet(LAMBDA i : g[cat][i].energy,
                                                  DOMAIN g[cat]),
                       Categories(asym))
           = CalculateSum(r)

(* A clone has the sum of the result it was cloned from when it is made *)
(* (Result::clone, used when a model is copied).                        *)
CloneKeepsSum ==
  [][\A c \in Fresh : c \notin live /\ c \in live' =>
                        (CalculateSum(c) = CalculateSum(cloneOf[c]))']_vars

=============================================================================
