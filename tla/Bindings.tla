------------------------------ MODULE Bindings ------------------------------
(***************************************************************************)
(* Operators bound to one another (operators/__init__.py): bindings created *)
(* and removed by REST requests under the manager's lock, the check that    *)
(* refuses a circular one, and the tick thread that carries values along    *)
(* them.                                                                    *)
(*                                                                         *)
(* Parameters are numbered in the order of their operators' slots; signal 0 *)
(* is a sensor.  A binding copies its source: scaling is left out.          *)
(***************************************************************************)
EXTENDS Integers

CONSTANTS Params,      \* 1..n
          Values,      \* values of signals
          MaxEdits     \* bound: requests and sensor readings

Unbound == 0 - 1
Signal == Params \union {0}

ASSUME BindingsAssumption == Params \subseteq Nat \ {0} /\ 1 \in Params /\ MaxEdits \in Nat

VARIABLES
  bound,   \* _bindings: the source of each parameter, or Unbound
  value,   \* the bus
  turn,    \* the slot resolve_bindings() comes to
  edits
bindingVars == <<bound, value, turn, edits>>

BindingsTypeOK ==
  /\ bound \in [Params -> Signal \union {Unbound}]
  /\ value \in [Signal -> Values]
  /\ turn \in Params /\ edits \in 0..MaxEdits

BindingsInit ==
  /\ bound = [p \in Params |-> Unbound]
  /\ value \in [Signal -> Values]
  /\ turn = 1 /\ edits = 0

\* Mutant of Circular: only the source's own binding is looked at.
CircularNext(target, source) ==
  source = target \/ (source \in Params /\ bound[source] = target)

\* The signals the loop of check_circular_binding() comes to: the source, and
\* from each that is bound its own source.
Chain(source) ==
  {s \in Signal :
     \A visited \in SUBSET Signal :
       (/\ source \in visited
        /\ \A p \in visited \intersect Params : bound[p] # Unbound => bound[p] \in visited)
       => s \in visited}

\* check_circular_binding(): it comes to the target or, when the chain has no
\* end, to a signal it has been to.
Circular(target, source) ==
  \/ target \in Chain(source)
  \/ \A s \in Chain(source) : s \in Params /\ bound[s] # Unbound

Edit == edits < MaxEdits /\ edits' = edits + 1

CreateBinding(target, source) ==
  /\ Edit /\ ~Circular(target, source)
  /\ bound' = [bound EXCEPT ![target] = source]
  /\ UNCHANGED <<value, turn>>

RemoveBinding(target) ==
  /\ Edit /\ bound[target] # Unbound
  /\ bound' = [bound EXCEPT ![target] = Unbound]
  /\ UNCHANGED <<value, turn>>

\* set_params() of an operator, or a sensor's reading.
Write(signal, v) ==
  /\ Edit
  /\ value' = [value EXCEPT ![signal] = v]
  /\ UNCHANGED <<bound, turn>>

\* Mutant of Carried: the parameter's attribute is set, its signal is not written.
CarriedNowhere(p) == value

\* The bus after resolve_bindings() of a parameter.
Carried(p) ==
  IF bound[p] = Unbound THEN value ELSE [value EXCEPT ![p] = value[bound[p]]]

ResolveBindings ==
  /\ value' = Carried(turn)
  /\ turn' = IF turn + 1 \in Params THEN turn + 1 ELSE 1
  /\ UNCHANGED <<bound, edits>>

BindingsNext ==
  \/ \E p \in Params : RemoveBinding(p) \/ \E s \in Signal : CreateBinding(p, s)
  \/ \E s \in Signal, v \in Values : Write(s, v)
  \/ ResolveBindings

\* The tick thread runs.
BindingsFairness == WF_bindingVars(ResolveBindings)
BindingsSpec == BindingsInit /\ [][BindingsNext]_bindingVars /\ BindingsFairness

\* However bindings are created, replaced and removed, no parameter comes to
\* depend on itself.
NoBindingCycle ==
  ~\E cycle \in SUBSET Params :
     cycle # {} /\ \A p \in cycle : bound[p] \in cycle

\* Once edits end, every bound parameter takes its source's value for good:
\* values pass along chains of bindings in spite of the slots' order, and no
\* cycle keeps them chasing one another.
ValuesSettle ==
  <>[](\A p \in Params : bound[p] # Unbound => value[p] = value[bound[p]])
=============================================================================
