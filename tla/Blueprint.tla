------------------------------ MODULE Blueprint ------------------------------
(***************************************************************************)
(* Blueprints: functions that build a configuration together.  They share  *)
(* state that is exposed at the nodes of a tree, which any of them may     *)
(* read, write or alias, in whatever order they happen to run.  A builder  *)
(* therefore runs all of them again and again, each time with what the     *)
(* time before wrote, until nothing changes any more.                      *)
(*                                                                         *)
(* A blueprint is any function: each of its operations is a step here, and *)
(* the next one may depend on nothing or on everything that was read.  A   *)
(* node has one state structure with one member; it goes by its node.      *)
(***************************************************************************)
EXTENDS Integers, Sequences, FiniteSets, SequencesExt

CONSTANTS
    Nodes,         \* namespace nodes
    Up,            \* each node and its ancestors, the nearest first
    Vals, Unset,   \* values of the member, and its default
    None,          \* no binding
    Assigns,       \* what blueprints write: nodes, priorities and values
    Aliases,       \* pairs of a state and the one it may be made an alias of
    PresetChoices, \* what the presets of an expansion may be
    MaxIterations, \* max_iterations
    MaxBlueprints, \* bound on the blueprints that run in an iteration
    MaxEffects,    \* bound on the writes and the bindings of an iteration
    MaxReads       \* bound on the reads of an iteration that are remembered

DEFAULT == -100
NORMAL == 0
OVERRIDE == 100
ALIAS == 200

ASSUME BlueprintAssumption ==
    /\ Up \in [Nodes -> Seq(Nodes)]
    /\ Nodes \cap Vals = {} /\ Unset \notin Nodes \cup Vals /\ None \notin Nodes
    /\ Assigns \subseteq Nodes \X {DEFAULT, NORMAL, OVERRIDE} \X Vals
    /\ Aliases \subseteq Nodes \X Nodes
    /\ \A p, q \in Aliases : p[2] # q[1] \* no alias of an alias
    /\ PresetChoices \subseteq [Nodes -> Seq(Vals)]
    /\ MaxIterations \in Nat \ {0} /\ MaxBlueprints \in Nat /\ MaxEffects \in Nat /\ MaxReads \in Nat

VARIABLES
    presets,   \* _presets: the values for each node
    vals,      \* _vals: what the iteration before has written to each node
    newVals,   \* _new_vals: what this one has written, in order
    binds,     \* _binds: the state that was exposed at each node, if any
    newBinds,  \* _new_binds
    waiting,   \* how many blueprints of _comps wait for their turn
    seq,       \* _seq: which one is running
    errors,    \* _errors: their kinds
    iteration, \* how many iterations have started
    result,    \* how the expansion ended, or "running"
    reads,     \* history: members that this iteration has read, with the value found
    lookups    \* history: nodes where it has looked for a state, with what it found

given == <<presets>>
stateVars == <<vals, newVals, binds, newBinds>>
runVars == <<waiting, seq, errors, iteration, result>>
vars == <<given, stateVars, runVars, reads, lookups>>

(* A value is a member's, or a node that it is an alias of. *)
Value == [prio : {DEFAULT, NORMAL, OVERRIDE, ALIAS}, seq : Nat, val : Vals \cup Nodes]

TypeOK ==
    /\ presets \in PresetChoices
    /\ vals \in [Nodes -> Seq(Value)] /\ newVals \in [Nodes -> Seq(Value)]
    /\ binds \in [Nodes -> Nodes \cup {None}] /\ newBinds \in [Nodes -> Nodes \cup {None}]
    /\ waiting \in 0..MaxBlueprints /\ seq \in 1..MaxBlueprints + 1
    /\ errors \subseteq {"multiple write", "not provided"}
    /\ iteration \in 1..MaxIterations
    /\ result \in {"running", "built", "refused", "too many iterations"}
    /\ reads \subseteq Nodes \X (Vals \cup {Unset})
    /\ lookups \subseteq Nodes \X (Nodes \cup {None})

PresetDefaults(p) == \* mutant: presets do not override
    [n \in Nodes |-> [i \in DOMAIN p[n] |-> [prio |-> DEFAULT, seq |-> 0, val |-> p[n][i]]]]

PresetWrites(p) ==
    [n \in Nodes |-> [i \in DOMAIN p[n] |-> [prio |-> OVERRIDE, seq |-> 0, val |-> p[n][i]]]]

Unbound == [n \in Nodes |-> None]

Init ==
    /\ presets \in PresetChoices
    /\ vals = [n \in Nodes |-> <<>>] /\ newVals = PresetWrites(presets)
    /\ binds = Unbound /\ newBinds = Unbound
    /\ waiting = 0 /\ seq = 1 /\ errors = {}
    /\ iteration = 1 /\ result = "running"
    /\ reads = {} /\ lookups = {}
-----------------------------------------------------------------------------
(* max() of values: the highest priority, then the earliest blueprint. *)
Best(ws) ==
    CHOOSE w \in ToSet(ws) : \A u \in ToSet(ws) : w.prio > u.prio \/ (w.prio = u.prio /\ w.seq <= u.seq)

IsAlias(vs, n) == vs[n] # <<>> /\ Best(vs[n]).val \in Nodes

(* The state that stands behind an alias, and the value of a member. *)
Target(vs, n) == IF IsAlias(vs, n) THEN Best(vs[n]).val ELSE n

ValueOf(vs, n) == IF vs[Target(vs, n)] = <<>> THEN Unset ELSE Best(vs[Target(vs, n)]).val

(* _lookup: what the node, or else its nearest ancestor, has been bound to. *)
Lookup(bs, n) ==
    LET bound == {i \in DOMAIN Up[n] : bs[Up[n][i]] # None} IN
    IF bound = {} THEN None ELSE bs[Up[n][Min(bound)]]

Writes(vs) == FoldFunction(LAMBDA ws, k : Len(ws) + k, 0, vs)
Effects == Writes(newVals) - Writes(presets) + Cardinality({n \in Nodes : newBinds[n] # None})
MayAct == result = "running" /\ Effects < MaxEffects
MayRead == result = "running" /\ Cardinality(reads) + Cardinality(lookups) < MaxReads

(* What is written to a state, and a report if it contradicts what has     *)
(* been written there with the same priority.  Presets are not looked at   *)
(* until then.                                                             *)
AppendTo(m, w) ==
    /\ newVals' = [newVals EXCEPT ![m] = Append(@, w)]
    /\ errors' = IF \E i, j \in DOMAIN newVals'[m] :
                       newVals'[m][i].prio = newVals'[m][j].prio /\ newVals'[m][i].val # newVals'[m][j].val
                 THEN errors \cup {"multiple write"} ELSE errors
    /\ UNCHANGED <<given, vals, binds, newBinds, waiting, seq, iteration, result, reads, lookups>>

(* _set_value.  What goes through an alias is written to its target, and   *)
(* with normal priority, whatever priority it was given.  Whether a state  *)
(* is an alias is what the iteration before has written.                   *)
WriteEarly(n, prio, v) == \* mutant: whether a state is an alias is what this iteration has written
    /\ MayAct
    /\ LET m == Target(newVals, n) IN
       AppendTo(m, [prio |-> IF m = n THEN prio ELSE NORMAL, seq |-> seq, val |-> v])

Write(n, prio, v) ==
    /\ MayAct
    /\ LET m == Target(vals, n) IN
       AppendTo(m, [prio |-> IF m = n THEN prio ELSE NORMAL, seq |-> seq, val |-> v])

(* Making a state an alias of another. *)
WriteAlias(n, m) ==
    /\ MayAct
    /\ AppendTo(n, [prio |-> ALIAS, seq |-> seq, val |-> m])

(* _get_value *)
ReadValue(n) ==
    /\ MayRead
    /\ reads' = reads \cup {<<n, ValueOf(vals, n)>>}
    /\ UNCHANGED <<given, stateVars, runVars, lookups>>

(* expose_state with a type *)
ExposeState(n) ==
    /\ MayAct
    /\ newBinds' = [newBinds EXCEPT ![n] = n]
    /\ UNCHANGED <<given, vals, newVals, binds, runVars, reads, lookups>>

(* read_state and get_config: a local state if there is none to be found.  *)
Found(n, allowLocal) ==
    /\ lookups' = lookups \cup {<<n, Lookup(binds, n)>>}
    /\ errors' = IF Lookup(binds, n) = None /\ ~allowLocal THEN errors \cup {"not provided"} ELSE errors

ReadState(n, allowLocal) ==
    /\ MayRead
    /\ Found(n, allowLocal)
    /\ UNCHANGED <<given, stateVars, waiting, seq, iteration, result, reads>>

(* alias_state and establish_binding *)
AliasState(src, dst) ==
    /\ MayAct /\ MayRead
    /\ Found(src, FALSE)
    /\ newBinds' = [newBinds EXCEPT ![dst] = IF Lookup(binds, src) = None THEN src ELSE Lookup(binds, src)]
    /\ UNCHANGED <<given, vals, newVals, binds, waiting, seq, iteration, result, reads>>

(* Builder.expand *)
Expand ==
    /\ result = "running"
    /\ seq + waiting < MaxBlueprints
    /\ waiting' = waiting + 1
    /\ UNCHANGED <<given, stateVars, seq, errors, iteration, result, reads, lookups>>
-----------------------------------------------------------------------------
NextBlueprintKept == \* mutant: a blueprint that runs still waits
    /\ result = "running" /\ waiting > 0
    /\ waiting' = waiting /\ seq' = seq + 1
    /\ UNCHANGED <<given, stateVars, errors, iteration, result, reads, lookups>>

(* The blueprint returns, and the next one runs. *)
NextBlueprint ==
    /\ result = "running"
    /\ waiting > 0
    /\ waiting' = waiting - 1 /\ seq' = seq + 1
    /\ UNCHANGED <<given, stateVars, errors, iteration, result, reads, lookups>>

StableValues == vals = newVals   \* mutant: bindings are not compared
StableBinds == binds = newBinds  \* mutant: values are not compared
Stable == binds = newBinds /\ vals = newVals

(* The last blueprint returns: the next iteration starts... *)
NextIteration ==
    /\ result = "running" /\ waiting = 0
    /\ ~Stable
    /\ iteration < MaxIterations
    /\ iteration' = iteration + 1
    /\ vals' = newVals /\ newVals' = PresetWrites(presets)
    /\ binds' = newBinds /\ newBinds' = Unbound
    /\ seq' = 1 /\ errors' = {}
    /\ reads' = {} /\ lookups' = {}
    /\ UNCHANGED <<given, waiting, result>>

(* ... or the expansion has come to an end.  Blueprints may have reported  *)
(* errors of their own.                                                    *)
Finish(reported, ignoreErrors) ==
    /\ result = "running" /\ waiting = 0
    /\ Stable
    /\ result' = IF (errors = {} /\ ~reported) \/ ignoreErrors THEN "built" ELSE "refused"
    /\ UNCHANGED <<given, stateVars, waiting, seq, errors, iteration, reads, lookups>>

GiveUp ==
    /\ result = "running" /\ waiting = 0
    /\ ~Stable
    /\ iteration = MaxIterations
    /\ result' = "too many iterations"
    /\ UNCHANGED <<given, stateVars, waiting, seq, errors, iteration, reads, lookups>>

Next ==
    \/ \E n \in Nodes :
         \/ ReadValue(n) \/ ExposeState(n)
         \/ \E allowLocal \in BOOLEAN : ReadState(n, allowLocal)
         \/ \E m \in Nodes : AliasState(n, m)
    \/ \E w \in Assigns : Write(w[1], w[2], w[3])
    \/ \E pair \in Aliases : WriteAlias(pair[1], pair[2])
    \/ Expand
    \/ NextBlueprint \/ NextIteration \/ GiveUp
    \/ \E reported, ignoreErrors \in BOOLEAN : Finish(reported, ignoreErrors)

Spec == Init /\ [][Next]_vars
-----------------------------------------------------------------------------
Settles == result \in {"built", "refused"}
Written(n) == ToSet(newVals[Target(newVals, n)])
Topmost(n) == {w \in Written(n) : \A u \in Written(n) : u.prio <= w.prio}

(* What a blueprint has read is what all blueprints have written in the    *)
(* same iteration, those that ran after it included: the value on which    *)
(* all writes of the highest priority agree, unless that was reported.     *)
Settled ==
    Settles =>
      \A r \in reads :
        /\ Written(r[1]) = {} => r[2] = Unset
        /\ "multiple write" \notin errors /\ Len(presets[Target(newVals, r[1])]) <= 1 =>
             \A w \in Topmost(r[1]) : w.val = r[2]

(* A state that was looked for is the one exposed nearest, whichever       *)
(* blueprint exposes it and when, and it is missed only where there is none. *)
BoundAsExposed == Settles => \A l \in lookups : l[2] = Lookup(newBinds, l[1])

(* Presets decide what is read, whatever blueprints write, with whatever   *)
(* priority, and wherever aliases lead: the presets of the state at the    *)
(* end of the alias count.                                                 *)
PresetsWin ==
    Settles =>
      \A r \in reads :
        LET p == presets[Target(newVals, r[1])] IN
        p # <<>> => r[2] \in ToSet(p)

(* Everything that is written through an alias reaches its target, whether *)
(* the alias was made before or after it.                                  *)
AliasReaches ==
    Settles =>
      \A n \in Nodes : IsAlias(newVals, n) => \A w \in ToSet(newVals[n]) : w.prio = ALIAS \/ w.seq = 0
=============================================================================
