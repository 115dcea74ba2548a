---------------------------- MODULE OperatorOrder ----------------------------
(***************************************************************************)
(* _topo_sort() of OperatorManager (operators/__init__.py): the order in    *)
(* which operators are started and ticked, from the types each one provides *)
(* and depends on.  The run starts from every configuration.                *)
(***************************************************************************)
EXTENDS Integers, Sequences, SequencesExt

CONSTANTS MaxSlots, Types

ASSUME OrderAssumption == MaxSlots \in Nat \ {0} /\ IsFiniteSet(Types) /\ Types # {}

Slots == 1..MaxSlots  \* in the order of the configuration

VARIABLES
  type,     \* operator_type of each slot
  depends,  \* depends_on of each slot
  inDegree, \* idx
  ready, result,
  sorted    \* the function has returned

orderVars == <<type, depends, inDegree, ready, result, sorted>>

OrderTypeOK ==
  /\ type \in [Slots -> Types] /\ depends \in [Slots -> SUBSET Types]
  /\ inDegree \in [Slots -> Int]
  /\ ready \in Seq(Slots) /\ result \in Seq(Slots) /\ sorted \in BOOLEAN

\* The slots of a set, in the order of the configuration.
InOrder(slots) ==
  CHOOSE q \in [1..Cardinality(slots) -> slots] : \A i, j \in DOMAIN q : i < j => q[i] < q[j]

StartSort(types, deps) ==
  /\ type = types /\ depends = deps
  /\ inDegree = [s \in Slots |-> Cardinality(deps[s])]
  /\ ready = InOrder({s \in Slots : deps[s] = {}})
  /\ result = <<>> /\ sorted = FALSE

OrderInit ==
  \E types \in [Slots -> Types], deps \in [Slots -> SUBSET Types] : StartSort(types, deps)

\* Mutant of Released: any provider releases its dependents.
ReleasedByAny(provided) == {s \in Slots : provided \in depends[s]}

\* The slots whose count reaches zero when a provider of the type is placed.
Released(provided) == {s \in Slots : provided \in depends[s] /\ inDegree[s] = 1}

Place ==
  /\ ready # <<>>
  /\ LET provided == type[Head(ready)]
     IN /\ inDegree' = [s \in Slots |->
              IF provided \in depends[s] THEN inDegree[s] - 1 ELSE inDegree[s]]
        /\ ready' = Tail(ready) \o InOrder(Released(provided))
  /\ result' = Append(result, Head(ready))
  /\ UNCHANGED <<type, depends, sorted>>

\* What is left depends on a cycle or on a type nobody provides.
AppendRemaining ==
  /\ ready = <<>> /\ ~sorted
  /\ result' = result \o InOrder({s \in Slots : ~Contains(result, s)})
  /\ sorted' = TRUE
  /\ UNCHANGED <<type, depends, inDegree, ready>>

OrderNext == Place \/ AppendRemaining
OrderSpec == OrderInit /\ [][OrderNext]_orderVars

----------------------------------------------------------------------------
(* Properties                                                              *)

\* The largest set of slots each of which needs a type that nobody, or only
\* the set itself, provides: those that no order can satisfy.
Stuck == UNION {S \in SUBSET Slots :
  \A s \in S : \E t \in depends[s] : \A p \in Slots : type[p] = t => p \in S}

\* Every operator is kept, once; and where types have one provider each, an
\* operator that can have its dependencies before it has them there.
DependenciesFirst ==
  sorted =>
    /\ Len(result) = MaxSlots /\ ToSet(result) = Slots
    /\ IsInjective(type) =>
         \A i, j \in Slots :
           type[result[j]] \in depends[result[i]] /\ result[i] \notin Stuck => j < i
=============================================================================
