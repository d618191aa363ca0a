-------------------------- MODULE BlueprintProofs --------------------------
(***************************************************************************)
(* What an expansion that settles has read is what it has written: for any *)
(* number of nodes, blueprints, values and iterations, and whatever order  *)
(* the blueprints read and write in.                                       *)
(***************************************************************************)
EXTENDS Blueprint, SequenceTheorems, WellFoundedInduction, TLAPS

Outranks(w, u) == w.prio > u.prio \/ (w.prio = u.prio /\ w.seq <= u.seq)

Typed ==
    /\ presets \in [Nodes -> Seq(Vals)]
    /\ vals \in [Nodes -> Seq(Value)] /\ newVals \in [Nodes -> Seq(Value)]
    /\ seq \in Nat \ {0}

(* There is a best value, which max() of a list relies on. *)
HaveBest(vs) ==
    \A n \in Nodes : vs[n] # <<>> =>
      \E i \in 1..Len(vs[n]) : \A j \in 1..Len(vs[n]) : Outranks(vs[n][i], vs[n][j])

(* Aliases are made where they may be, and have a priority of their own. *)
KnowAliases(vs) ==
    \A n \in Nodes : \A i \in 1..Len(vs[n]) :
      /\ vs[n][i].prio = ALIAS <=> vs[n][i].val \in Nodes
      /\ vs[n][i].prio = ALIAS => <<n, vs[n][i].val>> \in Aliases

(* The presets come first, and then what the blueprints write. *)
PresetsFirst ==
    \A n \in Nodes :
      /\ Len(presets[n]) <= Len(newVals[n])
      /\ \A i \in 1..Len(presets[n]) : newVals[n][i].prio = OVERRIDE /\ newVals[n][i].seq = 0 /\ newVals[n][i].val = presets[n][i]
      /\ \A i \in 1..Len(newVals[n]) :
           /\ newVals[n][i].seq <= seq
           /\ i > Len(presets[n]) => newVals[n][i].seq >= 1

Agreed ==
    "multiple write" \notin errors =>
      \A n \in Nodes : Len(presets[n]) <= 1 =>
        \A i, j \in 1..Len(newVals[n]) :
          newVals[n][i].prio = newVals[n][j].prio => newVals[n][i].val = newVals[n][j].val

Forwarded ==
    \A n \in Nodes : IsAlias(vals, n) =>
      \A i \in 1..Len(newVals[n]) : newVals[n][i].prio = ALIAS \/ newVals[n][i].seq = 0

History ==
    /\ \A r \in reads : r[1] \in Nodes /\ r[2] = ValueOf(vals, r[1])
    /\ \A l \in lookups : l[2] = Lookup(binds, l[1])

AtEnd == Settles => Stable

IInv ==
    /\ Typed /\ HaveBest(vals) /\ HaveBest(newVals) /\ KnowAliases(vals) /\ KnowAliases(newVals)
    /\ PresetsFirst /\ Agreed /\ Forwarded /\ History /\ AtEnd

LEMMA Elements ==
    ASSUME NEW s \in Seq(Value)
    PROVE  /\ DOMAIN s = 1..Len(s) /\ Len(s) \in Nat
           /\ \A i \in 1..Len(s) : s[i] \in Value
           /\ s = <<>> <=> Len(s) = 0
           /\ ToSet(s) = {s[i] : i \in 1..Len(s)}
<1>1. DOMAIN s = 1..Len(s) /\ Len(s) \in Nat /\ (\A i \in 1..Len(s) : s[i] \in Value)
  BY LenProperties, ElementOfSeq
<1>2. s = <<>> <=> Len(s) = 0
  BY EmptySeq
<1> QED BY <1>1, <1>2 DEF ToSet

LEMMA IsSequence ==
    ASSUME NEW S, NEW k \in Nat, NEW f \in [1..k -> S]
    PROVE  f \in Seq(S) /\ Len(f) = k
OBVIOUS

(* The best value of a list is in it, and outranks all others. *)
LEMMA BestOutranks ==
    ASSUME NEW s \in Seq(Value), s # <<>>,
           \E i \in 1..Len(s) : \A j \in 1..Len(s) : Outranks(s[i], s[j])
    PROVE  /\ \E i \in 1..Len(s) : Best(s) = s[i]
           /\ \A j \in 1..Len(s) : Outranks(Best(s), s[j])
<1>1. PICK i \in 1..Len(s) : \A j \in 1..Len(s) : Outranks(s[i], s[j])
  OBVIOUS
<1>2. ToSet(s) = {s[j] : j \in 1..Len(s)}
  BY Elements
<1>3. \E w \in ToSet(s) : \A u \in ToSet(s) : Outranks(w, u)
  BY <1>1, <1>2
<1>4. Best(s) \in ToSet(s) /\ \A u \in ToSet(s) : Outranks(Best(s), u)
  <2>1. Best(s) = CHOOSE w \in ToSet(s) : \A u \in ToSet(s) : Outranks(w, u)
    BY DEF Best, Outranks
  <2> QED BY <1>3, <2>1
<1> QED BY <1>2, <1>4

(* An alias stands for a state that is none itself. *)
LEMMA AliasTarget ==
    ASSUME NEW vs, vs \in [Nodes -> Seq(Value)], HaveBest(vs), KnowAliases(vs),
           NEW n \in Nodes
    PROVE  /\ Target(vs, n) \in Nodes /\ ~IsAlias(vs, Target(vs, n))
           /\ ~IsAlias(vs, n) => Target(vs, n) = n
<1>1. \A m \in Nodes : IsAlias(vs, m) => Best(vs[m]).val \in Nodes /\ <<m, Best(vs[m]).val>> \in Aliases
  <2> SUFFICES ASSUME NEW m \in Nodes, IsAlias(vs, m)
               PROVE  Best(vs[m]).val \in Nodes /\ <<m, Best(vs[m]).val>> \in Aliases
    OBVIOUS
  <2>1. PICK i \in 1..Len(vs[m]) : Best(vs[m]) = vs[m][i]
    BY BestOutranks DEF IsAlias, HaveBest
  <2> QED BY <2>1 DEF IsAlias, KnowAliases
<1>2. CASE IsAlias(vs, n)
  <2>1. Target(vs, n) = Best(vs[n]).val
    BY <1>2 DEF Target
  <2>2. Target(vs, n) \in Nodes /\ <<n, Target(vs, n)>> \in Aliases
    BY <1>1, <1>2, <2>1
  <2>3. ASSUME IsAlias(vs, Target(vs, n)) PROVE FALSE
    <3>1. <<Target(vs, n), Best(vs[Target(vs, n)]).val>> \in Aliases
      BY <1>1, <2>2, <2>3
    <3> QED BY <2>2, <3>1, BlueprintAssumption DEF BlueprintAssumption
  <2> QED BY <1>2, <2>2, <2>3
<1>3. CASE ~IsAlias(vs, n)
  BY <1>3 DEF Target
<1> QED BY <1>2, <1>3

(* The presets that an iteration starts with. *)
LEMMA PresetWritesAre ==
    ASSUME presets \in [Nodes -> Seq(Vals)]
    PROVE  /\ PresetWrites(presets) \in [Nodes -> Seq(Value)]
           /\ \A n \in Nodes :
                /\ Len(PresetWrites(presets)[n]) = Len(presets[n])
                /\ \A i \in 1..Len(presets[n]) :
                     PresetWrites(presets)[n][i].prio = OVERRIDE /\ PresetWrites(presets)[n][i].seq = 0 /\ PresetWrites(presets)[n][i].val = presets[n][i]
           /\ HaveBest(PresetWrites(presets)) /\ KnowAliases(PresetWrites(presets))
<1> DEFINE P == PresetWrites(presets)
<1>1. ASSUME NEW n \in Nodes
      PROVE  /\ P[n] \in Seq(Value) /\ Len(P[n]) = Len(presets[n]) /\ Len(presets[n]) \in Nat
             /\ \A i \in 1..Len(presets[n]) :
                  /\ presets[n][i] \in Vals
                  /\ P[n][i].prio = OVERRIDE /\ P[n][i].seq = 0 /\ P[n][i].val = presets[n][i]
  <2>1. presets[n] \in Seq(Vals) /\ Len(presets[n]) \in Nat /\ DOMAIN presets[n] = 1..Len(presets[n])
        /\ \A i \in 1..Len(presets[n]) : presets[n][i] \in Vals
    BY <1>1, LenProperties, ElementOfSeq
  <2>2. P[n] = [i \in 1..Len(presets[n]) |-> [prio |-> OVERRIDE, seq |-> 0, val |-> presets[n][i]]]
    BY <1>1, <2>1 DEF PresetWrites
  <2>3. P[n] \in [1..Len(presets[n]) -> Value]
    BY <2>1, <2>2 DEF Value
  <2> HIDE DEF P
  <2>4. P[n] \in Seq(Value) /\ Len(P[n]) = Len(presets[n])
    BY <2>1, <2>3, IsSequence
  <2>5. \A i \in 1..Len(presets[n]) : P[n][i] = [prio |-> OVERRIDE, seq |-> 0, val |-> presets[n][i]]
    BY <2>1, <2>2
  <2>6. \A i \in 1..Len(presets[n]) : P[n][i].prio = OVERRIDE /\ P[n][i].seq = 0 /\ P[n][i].val = presets[n][i]
    <3> SUFFICES ASSUME NEW i \in 1..Len(presets[n])
                 PROVE  P[n][i].prio = OVERRIDE /\ P[n][i].seq = 0 /\ P[n][i].val = presets[n][i]
      OBVIOUS
    <3>1. P[n][i] = [prio |-> OVERRIDE, seq |-> 0, val |-> presets[n][i]]
      BY <2>5
    <3> QED BY <3>1
  <2> QED BY <2>1, <2>4, <2>6
<1>2. P \in [Nodes -> Seq(Value)]
  <2>1. P = [n \in Nodes |-> P[n]]
    BY DEF PresetWrites
  <2> HIDE DEF P
  <2> QED BY <1>1, <2>1
<1> HIDE DEF P
<1>3. HaveBest(P)
  <2> SUFFICES ASSUME NEW n \in Nodes, P[n] # <<>>
               PROVE  \E i \in 1..Len(P[n]) : \A j \in 1..Len(P[n]) : Outranks(P[n][i], P[n][j])
    BY DEF HaveBest
  <2>1. 1 \in 1..Len(P[n])
    BY <1>1, Elements
  <2>2. \A j \in 1..Len(P[n]) : P[n][j].prio = OVERRIDE /\ P[n][j].seq = 0
    BY <1>1
  <2>3. \A j \in 1..Len(P[n]) : Outranks(P[n][1], P[n][j])
    BY <2>1, <2>2 DEF Outranks
  <2> QED BY <2>1, <2>3
<1>4. KnowAliases(P)
  <2>1. \A n \in Nodes : \A i \in 1..Len(P[n]) : P[n][i].prio = OVERRIDE /\ P[n][i].val \in Vals
    BY <1>1
  <2>2. OVERRIDE # ALIAS /\ Vals \cap Nodes = {}
    BY BlueprintAssumption DEF OVERRIDE, ALIAS, BlueprintAssumption
  <2> QED BY <2>1, <2>2 DEF KnowAliases
<1> QED BY <1>1, <1>2, <1>3, <1>4 DEF P

LEMMA InitIInv == Init => IInv
<1> SUFFICES ASSUME Init PROVE IInv
  OBVIOUS
<1>1. Typed
  <2>1. presets \in [Nodes -> Seq(Vals)]
    BY BlueprintAssumption DEF Init, BlueprintAssumption
  <2>2. vals \in [Nodes -> Seq(Value)]
    BY DEF Init
  <2> QED BY <2>1, <2>2, PresetWritesAre DEF Init, Typed
<1>2. HaveBest(vals) /\ KnowAliases(vals)
  BY DEF Init, HaveBest, KnowAliases
<1>3. HaveBest(newVals) /\ KnowAliases(newVals)
  BY <1>1, PresetWritesAre DEF Init, Typed
<1>4. PresetsFirst
  <2> SUFFICES ASSUME NEW n \in Nodes
               PROVE  /\ Len(presets[n]) <= Len(newVals[n])
                      /\ \A i \in 1..Len(presets[n]) :
                           newVals[n][i].prio = OVERRIDE /\ newVals[n][i].seq = 0 /\ newVals[n][i].val = presets[n][i]
                      /\ \A i \in 1..Len(newVals[n]) :
                           /\ newVals[n][i].seq <= seq
                           /\ i > Len(presets[n]) => newVals[n][i].seq >= 1
    BY DEF PresetsFirst
  <2>1. /\ Len(newVals[n]) = Len(presets[n]) /\ Len(presets[n]) \in Nat /\ seq = 1
        /\ \A i \in 1..Len(presets[n]) :
             newVals[n][i].prio = OVERRIDE /\ newVals[n][i].seq = 0 /\ newVals[n][i].val = presets[n][i]
    BY <1>1, PresetWritesAre, LenProperties DEF Init, Typed
  <2>2. \A i \in 1..Len(newVals[n]) : newVals[n][i].seq = 0 /\ ~(i > Len(presets[n]))
    BY <2>1
  <2> QED BY <2>1, <2>2
<1>5. Agreed
  BY <1>1, PresetWritesAre DEF Init, Typed, Agreed
<1>6. Forwarded /\ History /\ AtEnd
  BY DEF Init, Forwarded, History, AtEnd, Settles, IsAlias
<1> QED BY <1>1, <1>2, <1>3, <1>4, <1>5, <1>6 DEF IInv

LEMMA Appended ==
    ASSUME NEW s \in Seq(Value), NEW w \in Value
    PROVE  /\ Append(s, w) \in Seq(Value) /\ Len(Append(s, w)) = Len(s) + 1 /\ Append(s, w) # <<>>
           /\ \A i \in 1..Len(s) : Append(s, w)[i] = s[i]
           /\ Append(s, w)[Len(s) + 1] = w
BY AppendProperties

(* A write keeps a best value: the new one, or the one that there was. *)
LEMMA BestAppended ==
    ASSUME NEW s \in Seq(Value), NEW w \in Value,
           s # <<>> => \E i \in 1..Len(s) : \A j \in 1..Len(s) : Outranks(s[i], s[j]),
           \A i \in 1..Len(s) : s[i].seq <= w.seq
    PROVE  \E i \in 1..Len(Append(s, w)) : \A j \in 1..Len(Append(s, w)) :
             Outranks(Append(s, w)[i], Append(s, w)[j])
<1> DEFINE a == Append(s, w)
<1>1. /\ Len(a) = Len(s) + 1 /\ Len(s) \in Nat /\ a[Len(s) + 1] = w
      /\ \A i \in 1..Len(s) : a[i] = s[i] /\ s[i] \in Value
  BY Appended, Elements
<1> HIDE DEF a
<1>2. ALIAS \in Int /\ DEFAULT \in Int /\ NORMAL \in Int /\ OVERRIDE \in Int
  BY DEF ALIAS, DEFAULT, NORMAL, OVERRIDE
<1>3. \A u \in Value : u.prio \in Int /\ u.seq \in Nat
  BY <1>2 DEF Value
<1>4. Outranks(w, w)
  BY <1>3 DEF Outranks
<1>5. CASE s = <<>>
  <2>1. Len(s) = 0
    BY <1>5
  <2>2. \A j \in 1..Len(a) : a[j] = w
    BY <1>1, <2>1
  <2>3. 1 \in 1..Len(a)
    BY <1>1, <2>1
  <2> QED BY <1>4, <2>2, <2>3 DEF a
<1>6. CASE s # <<>>
  <2>1. PICK i \in 1..Len(s) : \A j \in 1..Len(s) : Outranks(s[i], s[j])
    BY <1>6
  <2>2. CASE w.prio > s[i].prio
    <3>1. ASSUME NEW j \in 1..Len(s)
          PROVE  Outranks(w, s[j])
      <4>1. s[i] \in Value /\ s[j] \in Value /\ Outranks(s[i], s[j])
        BY <1>1, <2>1
      <4>2. w.prio \in Int /\ s[i].prio \in Int /\ s[j].prio \in Int
        BY <1>3, <4>1
      <4>3. w.prio > s[j].prio
        BY <2>2, <4>1, <4>2 DEF Outranks
      <4> QED BY <4>3 DEF Outranks
    <3>2. \A j \in 1..Len(a) : Outranks(w, a[j])
      BY <1>1, <1>4, <3>1
    <3>3. Len(s) + 1 \in 1..Len(a)
      BY <1>1
    <3> QED BY <1>1, <3>2, <3>3 DEF a
  <2>3. CASE ~(w.prio > s[i].prio)
    <3>1. Outranks(s[i], w)
      BY <1>1, <1>3, <2>1, <2>3 DEF Outranks
    <3>2. \A j \in 1..Len(a) : Outranks(a[i], a[j])
      BY <1>1, <2>1, <3>1
    <3>3. i \in 1..Len(a)
      BY <1>1, <2>1
    <3> QED BY <3>2, <3>3 DEF a
  <2> QED BY <2>2, <2>3
<1> QED BY <1>5, <1>6

(* A blueprint writes a value or an alias. *)
LEMMA AppendKeeps ==
    ASSUME IInv, NEW m \in Nodes, NEW w \in Value, AppendTo(m, w),
           result = "running", w.seq = seq,
           w.prio = ALIAS <=> w.val \in Nodes,
           w.prio = ALIAS => <<m, w.val>> \in Aliases,
           w.prio = ALIAS \/ ~IsAlias(vals, m)
    PROVE  IInv'
<1> DEFINE s == newVals[m]
<1>1. /\ Typed /\ HaveBest(vals) /\ HaveBest(newVals) /\ KnowAliases(vals) /\ KnowAliases(newVals)
      /\ PresetsFirst /\ Agreed /\ Forwarded /\ History
  BY DEF IInv
<1>2. /\ UNCHANGED <<presets, vals, binds, seq, result, reads, lookups>>
      /\ newVals' = [newVals EXCEPT ![m] = Append(s, w)]
  BY DEF AppendTo, given
<1>3. s \in Seq(Value) /\ Len(s) \in Nat /\ \A i \in 1..Len(s) : s[i] \in Value
  BY <1>1, Elements DEF Typed
<1>4. /\ newVals'[m] = Append(s, w)
      /\ \A n \in Nodes \ {m} : newVals'[n] = newVals[n]
  BY <1>1, <1>2 DEF Typed
<1> HIDE DEF s
<1>5. /\ newVals'[m] \in Seq(Value) /\ Len(newVals'[m]) = Len(s) + 1 /\ newVals'[m] # <<>>
      /\ \A i \in 1..Len(s) : newVals'[m][i] = s[i]
      /\ newVals'[m][Len(s) + 1] = w
  BY <1>3, <1>4, Appended
<1>6. Typed'
  <2>1. newVals' \in [Nodes -> Seq(Value)]
    BY <1>1, <1>2, <1>4, <1>5 DEF Typed
  <2> QED BY <1>1, <1>2, <2>1 DEF Typed
<1>7. HaveBest(newVals)'
  <2> SUFFICES ASSUME NEW n \in Nodes, newVals'[n] # <<>>
               PROVE  \E i \in 1..Len(newVals'[n]) : \A j \in 1..Len(newVals'[n]) :
                        Outranks(newVals'[n][i], newVals'[n][j])
    BY DEF HaveBest
  <2>1. CASE n = m
    <3>1. \A i \in 1..Len(s) : s[i].seq <= w.seq
      BY <1>1 DEF PresetsFirst, s
    <3>2. s # <<>> => \E i \in 1..Len(s) : \A j \in 1..Len(s) : Outranks(s[i], s[j])
      BY <1>1 DEF HaveBest, s
    <3> QED BY <1>3, <1>4, <2>1, <3>1, <3>2, BestAppended
  <2>2. CASE n # m
    BY <1>1, <1>4, <2>2 DEF HaveBest
  <2> QED BY <2>1, <2>2
<1>8. KnowAliases(newVals)'
  <2> SUFFICES ASSUME NEW n \in Nodes, NEW i \in 1..Len(newVals'[n])
               PROVE  /\ newVals'[n][i].prio = ALIAS <=> newVals'[n][i].val \in Nodes
                      /\ newVals'[n][i].prio = ALIAS => <<n, newVals'[n][i].val>> \in Aliases
    BY DEF KnowAliases
  <2>1. CASE n # m
    BY <1>1, <1>4, <2>1 DEF KnowAliases
  <2>2. CASE n = m /\ i <= Len(s)
    <3>1. i \in 1..Len(s) /\ newVals'[n][i] = newVals[m][i]
      BY <1>3, <1>5, <2>2 DEF s
    <3> QED BY <1>1, <2>2, <3>1 DEF KnowAliases, s
  <2>3. CASE n = m /\ i = Len(s) + 1
    BY <1>5, <2>3
  <2> QED BY <1>3, <1>5, <2>1, <2>2, <2>3
<1>9. PresetsFirst'
  <2> SUFFICES ASSUME NEW n \in Nodes
               PROVE  /\ Len(presets[n]) <= Len(newVals'[n])
                      /\ \A i \in 1..Len(presets[n]) :
                           newVals'[n][i].prio = OVERRIDE /\ newVals'[n][i].seq = 0 /\ newVals'[n][i].val = presets[n][i]
                      /\ \A i \in 1..Len(newVals'[n]) :
                           /\ newVals'[n][i].seq <= seq
                           /\ i > Len(presets[n]) => newVals'[n][i].seq >= 1
    BY <1>2 DEF PresetsFirst
  <2>1. CASE n # m
    BY <1>1, <1>4, <2>1 DEF PresetsFirst
  <2>2. CASE n = m
    <3>1. Len(presets[m]) \in Nat /\ Len(presets[m]) <= Len(s) /\ seq \in Nat \ {0}
      BY <1>1, LenProperties DEF PresetsFirst, Typed, s
    <3>2. \A i \in 1..Len(presets[m]) :
            newVals'[m][i].prio = OVERRIDE /\ newVals'[m][i].seq = 0 /\ newVals'[m][i].val = presets[m][i]
      <4> SUFFICES ASSUME NEW i \in 1..Len(presets[m])
                   PROVE  newVals'[m][i].prio = OVERRIDE /\ newVals'[m][i].seq = 0 /\ newVals'[m][i].val = presets[m][i]
        OBVIOUS
      <4>1. newVals'[m][i] = newVals[m][i]
        BY <1>3, <1>5, <3>1 DEF s
      <4> QED BY <1>1, <4>1 DEF PresetsFirst
    <3>3. \A i \in 1..Len(s) : newVals'[m][i].seq <= seq /\ (i > Len(presets[m]) => newVals'[m][i].seq >= 1)
      BY <1>1, <1>5 DEF PresetsFirst, s
    <3>4. \A i \in 1..Len(newVals'[m]) :
            newVals'[m][i].seq <= seq /\ (i > Len(presets[m]) => newVals'[m][i].seq >= 1)
      BY <1>3, <1>5, <3>1, <3>3
    <3> QED BY <1>3, <1>5, <2>2, <3>1, <3>2, <3>4
  <2> QED BY <2>1, <2>2
<1>10. Agreed'
  <2> SUFFICES ASSUME "multiple write" \notin errors', NEW n \in Nodes, Len(presets[n]) <= 1,
                      NEW i \in 1..Len(newVals'[n]), NEW j \in 1..Len(newVals'[n]),
                      newVals'[n][i].prio = newVals'[n][j].prio
               PROVE  newVals'[n][i].val = newVals'[n][j].val
    BY <1>2 DEF Agreed
  <2>1. /\ "multiple write" \notin errors
        /\ \A k, l \in DOMAIN newVals'[m] :
             newVals'[m][k].prio = newVals'[m][l].prio => newVals'[m][k].val = newVals'[m][l].val
    BY DEF AppendTo
  <2>2. DOMAIN newVals'[m] = 1..Len(newVals'[m])
    BY <1>5, Elements
  <2>3. CASE n = m
    BY <2>1, <2>2, <2>3
  <2>4. CASE n # m
    <3>1. newVals'[n] = newVals[n]
      BY <1>4, <2>4
    <3>2. i \in 1..Len(newVals[n]) /\ j \in 1..Len(newVals[n]) /\ newVals[n][i].prio = newVals[n][j].prio
      BY <3>1
    <3>3. newVals[n][i].val = newVals[n][j].val
      BY <1>1, <2>1, <3>2 DEF Agreed
    <3> QED BY <3>1, <3>3
  <2> QED BY <2>3, <2>4
<1>11. Forwarded'
  <2> SUFFICES ASSUME NEW n \in Nodes, IsAlias(vals, n), NEW i \in 1..Len(newVals'[n])
               PROVE  newVals'[n][i].prio = ALIAS \/ newVals'[n][i].seq = 0
    BY <1>2 DEF Forwarded
  <2>1. CASE n # m
    BY <1>1, <1>4, <2>1 DEF Forwarded
  <2>2. CASE n = m
    <3>1. \A k \in 1..Len(s) : newVals'[m][k].prio = ALIAS \/ newVals'[m][k].seq = 0
      BY <1>1, <1>5, <2>2 DEF Forwarded, s
    <3>2. newVals'[m][Len(s) + 1].prio = ALIAS
      BY <1>5, <2>2
    <3> QED BY <1>3, <1>5, <2>2, <3>1, <3>2
  <2> QED BY <2>1, <2>2
<1>12. HaveBest(vals)' /\ KnowAliases(vals)' /\ History'
  BY <1>1, <1>2 DEF HaveBest, KnowAliases, History
<1>13. AtEnd'
  BY <1>2 DEF AtEnd, Settles
<1> QED BY <1>6, <1>7, <1>8, <1>9, <1>10, <1>11, <1>12, <1>13 DEF IInv

LEMMA WriteKeeps ==
    ASSUME IInv, NEW n \in Nodes, NEW prio \in {DEFAULT, NORMAL, OVERRIDE}, NEW v \in Vals, Write(n, prio, v)
    PROVE  IInv'
<1> DEFINE m == Target(vals, n)
           w == [prio |-> IF m = n THEN prio ELSE NORMAL, seq |-> seq, val |-> v]
<1>1. result = "running" /\ AppendTo(m, w)
  BY DEF Write, MayAct
<1>2. m \in Nodes /\ ~IsAlias(vals, m)
  BY AliasTarget DEF IInv, Typed
<1>3. /\ w \in Value /\ w.seq = seq /\ w.val = v /\ w.prio \in {DEFAULT, NORMAL, OVERRIDE}
  BY DEF IInv, Typed, Value
<1>4. w.prio # ALIAS /\ w.val \notin Nodes
  BY <1>3, BlueprintAssumption DEF BlueprintAssumption, DEFAULT, NORMAL, OVERRIDE, ALIAS
<1> HIDE DEF m, w
<1> QED BY <1>1, <1>2, <1>3, <1>4, AppendKeeps

LEMMA WriteAliasKeeps ==
    ASSUME IInv, NEW n \in Nodes, NEW m \in Nodes, <<n, m>> \in Aliases, WriteAlias(n, m)
    PROVE  IInv'
<1> DEFINE w == [prio |-> ALIAS, seq |-> seq, val |-> m]
<1>1. result = "running" /\ AppendTo(n, w)
  BY DEF WriteAlias, MayAct
<1>2. w \in Value /\ w.seq = seq /\ w.val = m /\ w.prio = ALIAS
  BY DEF IInv, Typed, Value
<1> HIDE DEF w
<1> QED BY <1>1, <1>2, AppendKeeps

LEMMA AtMost == \A i, j, k \in Nat : i <= j /\ j <= k => i <= k
OBVIOUS

(* Steps that write nothing. *)
LEMMA AgreedKept ==
    ASSUME Agreed, presets' = presets, newVals' = newVals,
           "multiple write" \in errors => "multiple write" \in errors'
    PROVE  Agreed'
<1> SUFFICES ASSUME "multiple write" \notin errors',
                    NEW n \in Nodes, Len(presets'[n]) <= 1,
                    NEW i \in 1..Len(newVals'[n]), NEW j \in 1..Len(newVals'[n]),
                    newVals'[n][i].prio = newVals'[n][j].prio
             PROVE  newVals'[n][i].val = newVals'[n][j].val
  BY DEF Agreed
<1>1. "multiple write" \notin errors
  OBVIOUS
<1>2. i \in 1..Len(newVals[n]) /\ j \in 1..Len(newVals[n]) /\ Len(presets[n]) <= 1
  OBVIOUS
<1>3. newVals[n][i].prio = newVals[n][j].prio
  OBVIOUS
<1>4. newVals[n][i].val = newVals[n][j].val
  BY <1>1, <1>2, <1>3, Zenon DEF Agreed
<1> QED BY <1>4

LEMMA OthersKeep ==
    ASSUME IInv, UNCHANGED <<presets, vals, newVals, binds>>,
           seq' \in Nat \ {0}, seq <= seq',
           "multiple write" \in errors => "multiple write" \in errors',
           History', AtEnd'
    PROVE  IInv'
<1>0. seq' \in Nat /\ seq <= seq'
  OBVIOUS
<1>1. /\ Typed /\ HaveBest(vals) /\ HaveBest(newVals) /\ KnowAliases(vals) /\ KnowAliases(newVals)
      /\ PresetsFirst /\ Agreed /\ Forwarded
  BY DEF IInv
<1>2. Typed' /\ HaveBest(vals)' /\ HaveBest(newVals)' /\ KnowAliases(vals)' /\ KnowAliases(newVals)'
  BY <1>1 DEF Typed, HaveBest, KnowAliases
<1>3. PresetsFirst'
  <2>1. \A n \in Nodes : \A i \in 1..Len(newVals[n]) : newVals[n][i].seq <= seq'
    <3> SUFFICES ASSUME NEW n \in Nodes, NEW i \in 1..Len(newVals[n])
                 PROVE  newVals[n][i].seq <= seq'
      OBVIOUS
    <3>1. newVals[n][i] \in Value
      BY <1>1, Elements DEF Typed
    <3>2. newVals[n][i].seq \in Nat /\ newVals[n][i].seq <= seq /\ seq \in Nat
      BY <1>1, <3>1 DEF PresetsFirst, Value, Typed
    <3> QED BY <1>0, <3>2, AtMost, Zenon
  <2> QED BY <1>1, <2>1 DEF PresetsFirst
<1>4. Forwarded'
  BY <1>1 DEF Forwarded, IsAlias
<1>5. Agreed'
  BY <1>1, AgreedKept
<1> QED BY <1>2, <1>3, <1>4, <1>5 DEF IInv

LEMMA FoundKeeps ==
    ASSUME IInv, NEW n, lookups' = lookups \cup {<<n, Lookup(binds, n)>>},
           UNCHANGED <<vals, binds, reads>>
    PROVE  History'
<1>1. History
  BY DEF IInv
<1>2. \A r \in reads' : r[1] \in Nodes /\ r[2] = ValueOf(vals', r[1])
  BY <1>1 DEF History
<1>3. ASSUME NEW l \in lookups'
      PROVE  l[2] = Lookup(binds', l[1])
  <2>1. CASE l \in lookups
    BY <1>1, <2>1 DEF History
  <2>2. CASE l = <<n, Lookup(binds, n)>>
    BY <2>2
  <2> QED BY <2>1, <2>2
<1> QED BY <1>2, <1>3 DEF History

LEMMA ReadsKeep ==
    ASSUME IInv, NEW n \in Nodes, ReadValue(n) \/ (\E allowLocal : ReadState(n, allowLocal))
    PROVE  IInv'
<1>1. /\ result = "running" /\ UNCHANGED <<presets, vals, newVals, binds, newBinds, seq, result>>
      /\ errors \subseteq errors'
  BY DEF ReadValue, ReadState, Found, MayRead, given, stateVars, runVars
<1>2. History'
  <2>1. CASE ReadValue(n)
    BY <1>1, <2>1 DEF IInv, History, ReadValue
  <2>2. ASSUME NEW allowLocal, ReadState(n, allowLocal)
        PROVE  History'
    <3>1. lookups' = lookups \cup {<<n, Lookup(binds, n)>>} /\ reads' = reads
      BY <2>2 DEF ReadState, Found
    <3> QED BY <1>1, <3>1, FoundKeeps
  <2> QED BY <2>1, <2>2
<1>3. AtEnd'
  BY <1>1 DEF AtEnd, Settles
<1>4. seq' \in Nat \ {0} /\ seq <= seq'
  BY <1>1 DEF IInv, Typed
<1> QED BY <1>1, <1>2, <1>3, <1>4, OthersKeep

LEMMA BindingsKeep ==
    ASSUME IInv, NEW n \in Nodes, NEW m \in Nodes, ExposeState(n) \/ AliasState(n, m)
    PROVE  IInv'
<1>1. /\ result = "running" /\ UNCHANGED <<presets, vals, newVals, binds, seq, result, reads>>
      /\ errors \subseteq errors'
  BY DEF ExposeState, AliasState, Found, MayAct, given, runVars
<1>2. History'
  <2>1. CASE ExposeState(n)
    BY <1>1, <2>1 DEF IInv, History, ExposeState
  <2>2. CASE AliasState(n, m)
    <3>1. lookups' = lookups \cup {<<n, Lookup(binds, n)>>}
      BY <2>2 DEF AliasState, Found
    <3> QED BY <1>1, <3>1, FoundKeeps
  <2> QED BY <2>1, <2>2
<1>3. AtEnd'
  BY <1>1 DEF AtEnd, Settles
<1>4. seq' \in Nat \ {0} /\ seq <= seq'
  BY <1>1 DEF IInv, Typed
<1> QED BY <1>1, <1>2, <1>3, <1>4, OthersKeep

LEMMA RunKeeps ==
    ASSUME IInv, \/ Expand \/ NextBlueprint \/ GiveUp
                 \/ \E reported, ignoreErrors : Finish(reported, ignoreErrors)
                 \/ UNCHANGED vars
    PROVE  IInv'
<1>1. UNCHANGED <<presets, vals, newVals, binds, newBinds, errors, reads, lookups>>
  BY DEF Expand, NextBlueprint, GiveUp, Finish, vars, given, stateVars, runVars
<1>2. History'
  BY <1>1 DEF IInv, History
<1>3. AtEnd'
  <2>1. CASE Expand \/ NextBlueprint \/ GiveUp
    BY <2>1 DEF Expand, NextBlueprint, GiveUp, AtEnd, Settles
  <2>2. CASE \E reported, ignoreErrors : Finish(reported, ignoreErrors)
    BY <1>1, <2>2 DEF Finish, AtEnd, Stable
  <2>3. CASE UNCHANGED vars
    BY <1>1, <2>3 DEF IInv, AtEnd, Settles, Stable, vars, runVars
  <2> QED BY <2>1, <2>2, <2>3
<1>4. seq' \in Nat \ {0} /\ seq <= seq'
  <2>1. seq \in Nat \ {0}
    BY DEF IInv, Typed
  <2>2. seq' = seq \/ seq' = seq + 1
    BY DEF Expand, NextBlueprint, GiveUp, Finish, vars, runVars
  <2> QED BY <2>1, <2>2
<1> QED BY <1>1, <1>2, <1>3, <1>4, OthersKeep

LEMMA NextIterationKeeps ==
    ASSUME IInv, NextIteration
    PROVE  IInv'
<1>1. /\ Typed /\ HaveBest(newVals) /\ KnowAliases(newVals)
  BY DEF IInv
<1>2. /\ vals' = newVals /\ newVals' = PresetWrites(presets) /\ presets' = presets /\ seq' = 1
      /\ reads' = {} /\ lookups' = {} /\ result' = "running"
  BY DEF NextIteration, given
<1>3. presets \in [Nodes -> Seq(Vals)]
  BY <1>1 DEF Typed
<1>4. Typed' /\ HaveBest(newVals)' /\ KnowAliases(newVals)'
  <2>1. /\ PresetWrites(presets) \in [Nodes -> Seq(Value)]
        /\ HaveBest(PresetWrites(presets)) /\ KnowAliases(PresetWrites(presets))
    BY <1>3, PresetWritesAre
  <2> QED BY <1>1, <1>2, <2>1 DEF Typed, HaveBest, KnowAliases
<1>5. HaveBest(vals)' /\ KnowAliases(vals)'
  BY <1>1, <1>2 DEF HaveBest, KnowAliases
<1>6. \A n \in Nodes :
        /\ Len(newVals'[n]) = Len(presets[n]) /\ Len(presets[n]) \in Nat
        /\ \A i \in 1..Len(presets[n]) :
             newVals'[n][i].prio = OVERRIDE /\ newVals'[n][i].seq = 0 /\ newVals'[n][i].val = presets[n][i]
  BY <1>2, <1>3, PresetWritesAre, LenProperties
<1>7. PresetsFirst'
  <2> SUFFICES ASSUME NEW n \in Nodes
               PROVE  /\ Len(presets[n]) <= Len(newVals'[n])
                      /\ \A i \in 1..Len(presets[n]) :
                           newVals'[n][i].prio = OVERRIDE /\ newVals'[n][i].seq = 0 /\ newVals'[n][i].val = presets[n][i]
                      /\ \A i \in 1..Len(newVals'[n]) :
                           /\ newVals'[n][i].seq <= 1
                           /\ i > Len(presets[n]) => newVals'[n][i].seq >= 1
    BY <1>2 DEF PresetsFirst
  <2>1. \A i \in 1..Len(newVals'[n]) : newVals'[n][i].seq = 0 /\ ~(i > Len(presets[n]))
    BY <1>6
  <2> QED BY <1>6, <2>1
<1>8. Agreed'
  <2>1. ASSUME NEW n \in Nodes, Len(presets[n]) <= 1
        PROVE  \A i, j \in 1..Len(newVals'[n]) : i = j
    BY <1>6, <2>1
  <2>2. presets' = presets
    BY <1>2
  <2> QED BY <2>1, <2>2, Zenon DEF Agreed
<1>9. Forwarded' /\ History' /\ AtEnd'
  <2>1. \A n \in Nodes : \A i \in 1..Len(newVals'[n]) : newVals'[n][i].seq = 0
    BY <1>6
  <2> QED BY <1>2, <2>1 DEF Forwarded, History, AtEnd, Settles
<1> QED BY <1>4, <1>5, <1>7, <1>8, <1>9 DEF IInv

LEMMA NextKeepsIInv == IInv /\ [Next]_vars => IInv'
<1> SUFFICES ASSUME IInv, [Next]_vars
             PROVE  IInv'
  OBVIOUS
<1>1. CASE \E n \in Nodes : \/ ReadValue(n) \/ ExposeState(n)
                           \/ \E allowLocal \in BOOLEAN : ReadState(n, allowLocal)
                           \/ \E m \in Nodes : AliasState(n, m)
  BY <1>1, ReadsKeep, BindingsKeep
<1>2. CASE \E pair \in Aliases : WriteAlias(pair[1], pair[2])
  <2>1. PICK pair \in Aliases : WriteAlias(pair[1], pair[2])
    BY <1>2
  <2>2. pair \in Nodes \X Nodes
    BY BlueprintAssumption DEF BlueprintAssumption
  <2>3. pair[1] \in Nodes /\ pair[2] \in Nodes /\ pair = <<pair[1], pair[2]>>
    BY <2>2
  <2> QED BY <2>1, <2>3, WriteAliasKeeps
<1>3. CASE \E w \in Assigns : Write(w[1], w[2], w[3])
  <2>1. PICK w \in Assigns : Write(w[1], w[2], w[3])
    BY <1>3
  <2>2. w \in Nodes \X {DEFAULT, NORMAL, OVERRIDE} \X Vals
    BY BlueprintAssumption DEF BlueprintAssumption
  <2>3. w[1] \in Nodes /\ w[2] \in {DEFAULT, NORMAL, OVERRIDE} /\ w[3] \in Vals
    BY <2>2
  <2> QED BY <2>1, <2>3, WriteKeeps
<1>4. CASE NextIteration
  BY <1>4, NextIterationKeeps
<1>5. CASE \/ Expand \/ NextBlueprint \/ GiveUp
           \/ \E reported, ignoreErrors \in BOOLEAN : Finish(reported, ignoreErrors)
           \/ UNCHANGED vars
  BY <1>5, RunKeeps
<1> QED BY <1>1, <1>2, <1>3, <1>4, <1>5 DEF Next

(* A state that a blueprint has looked for (Builder.read_state, alias_state) *)
(* is the one that is exposed nearest when the expansion is over, whichever  *)
(* blueprint exposed it, and before or after (BoundAsExposed).               *)
THEOREM BindingsSettle == Spec => []BoundAsExposed
<1>1. IInv => BoundAsExposed
  BY DEF IInv, History, AtEnd, Stable, BoundAsExposed
<1> QED BY InitIInv, NextKeepsIInv, <1>1, PTL DEF Spec

LEMMA SettledReads ==
    ASSUME IInv, Settles, NEW r \in reads
    PROVE  /\ r[1] \in Nodes /\ Target(newVals, r[1]) \in Nodes
           /\ r[2] = ValueOf(newVals, r[1])
           /\ newVals \in [Nodes -> Seq(Value)]
BY AliasTarget DEF IInv, Typed, History, AtEnd, Stable

(* What a blueprint has read in the iteration that settles (_get_value) is  *)
(* what that iteration writes, before or after (Settled).                   *)
THEOREM ValuesSettle == Spec => []Settled
<1>1. IInv => Settled
  <2> SUFFICES ASSUME IInv, Settles, NEW r \in reads
               PROVE  /\ Written(r[1]) = {} => r[2] = Unset
                      /\ "multiple write" \notin errors /\ Len(presets[Target(newVals, r[1])]) <= 1 =>
                           \A w \in Topmost(r[1]) : w.val = r[2]
    BY DEF Settled
  <2> DEFINE t == Target(newVals, r[1])
             s == newVals[t]
  <2>1. /\ t \in Nodes /\ s \in Seq(Value) /\ Written(r[1]) = ToSet(s)
        /\ r[2] = IF s = <<>> THEN Unset ELSE Best(s).val
    BY SettledReads DEF Written, ValueOf
  <2>2. s # <<>> => \E i \in 1..Len(s) : \A j \in 1..Len(s) : Outranks(s[i], s[j])
    BY <2>1 DEF IInv, HaveBest
  <2>3. "multiple write" \notin errors /\ Len(presets[t]) <= 1 =>
          \A i, j \in 1..Len(s) : s[i].prio = s[j].prio => s[i].val = s[j].val
    BY <2>1 DEF IInv, Agreed
  <2>4. Topmost(r[1]) = {w \in ToSet(s) : \A u \in ToSet(s) : u.prio <= w.prio}
    BY <2>1 DEF Topmost
  <2> HIDE DEF s, t
  <2>5. ToSet(s) = {s[i] : i \in 1..Len(s)} /\ (s = <<>> <=> Len(s) = 0) /\ Len(s) \in Nat
        /\ \A i \in 1..Len(s) : s[i] \in Value
    BY <2>1, Elements
  <2>6. CASE s = <<>>
    BY <2>1, <2>4, <2>5, <2>6
  <2>7. CASE s # <<>>
    <3>1. /\ \E i \in 1..Len(s) : Best(s) = s[i]
          /\ \A j \in 1..Len(s) : Outranks(Best(s), s[j])
      BY <2>1, <2>2, <2>7, BestOutranks
    <3>2. PICK b \in 1..Len(s) : Best(s) = s[b]
      BY <3>1
    <3>3. Written(r[1]) # {}
      BY <2>1, <2>5, <3>2
    <3>4. ASSUME NEW w \in Topmost(r[1]), "multiple write" \notin errors, Len(presets[t]) <= 1
          PROVE  w.val = r[2]
      <4>1. PICK i \in 1..Len(s) : w = s[i]
        BY <2>4, <2>5, <3>4
      <4>2. s[b].prio <= s[i].prio
        BY <2>4, <2>5, <3>2, <3>4, <4>1
      <4>3. s[b].prio >= s[i].prio
        BY <3>1, <3>2, <4>1, <2>5 DEF Outranks, Value, DEFAULT, NORMAL, OVERRIDE, ALIAS
      <4>4. s[b].prio = s[i].prio
        BY <2>5, <4>1, <4>2, <4>3, <3>2 DEF Value, DEFAULT, NORMAL, OVERRIDE, ALIAS
      <4>5. s[b].val = s[i].val
        BY <2>3, <3>4, <4>4
      <4> QED BY <2>1, <2>7, <3>2, <4>1, <4>5
    <3> QED BY <3>3, <3>4 DEF t
  <2> QED BY <2>6, <2>7
<1> QED BY InitIInv, NextKeepsIInv, <1>1, PTL DEF Spec

(* A preset decides what is read, whatever is written and reported and      *)
(* wherever an alias leads (PresetsWin).                                    *)
THEOREM PresetsDecide == Spec => []PresetsWin
<1>1. IInv => PresetsWin
  <2> SUFFICES ASSUME IInv, Settles, NEW r \in reads, presets[Target(newVals, r[1])] # <<>>
               PROVE  r[2] \in ToSet(presets[Target(newVals, r[1])])
    BY DEF PresetsWin
  <2> DEFINE n == Target(newVals, r[1])
             s == newVals[n]
  <2>1. /\ n \in Nodes /\ s \in Seq(Value)
        /\ r[2] = IF s = <<>> THEN Unset ELSE Best(s).val
    BY SettledReads DEF ValueOf
  <2>2. s # <<>> => Best(s).val \notin Nodes
    BY SettledReads, AliasTarget DEF IInv, Typed, IsAlias
  <2>3. presets[n] # <<>>
    OBVIOUS
  <2> HIDE DEF n
  <2>4. presets[n] \in Seq(Vals) /\ Len(presets[n]) \in Nat /\ Len(presets[n]) # 0
        /\ DOMAIN presets[n] = 1..Len(presets[n])
    BY <2>3, <2>1, LenProperties, EmptySeq DEF IInv, Typed
  <2>5. /\ Len(presets[n]) <= Len(s)
        /\ \A i \in 1..Len(presets[n]) : s[i].prio = OVERRIDE /\ s[i].seq = 0 /\ s[i].val = presets[n][i]
        /\ \A i \in 1..Len(s) : i > Len(presets[n]) => s[i].seq >= 1
    BY <2>1 DEF IInv, PresetsFirst
  <2>6. \A i \in 1..Len(s) : s[i].val \in Nodes => s[i].prio = ALIAS
    BY <2>1 DEF IInv, KnowAliases
  <2>7. s # <<>> => \E i \in 1..Len(s) : \A j \in 1..Len(s) : Outranks(s[i], s[j])
    BY <2>1 DEF IInv, HaveBest
  <2>8. ToSet(s) = {s[i] : i \in 1..Len(s)} /\ (s = <<>> <=> Len(s) = 0) /\ Len(s) \in Nat
        /\ \A i \in 1..Len(s) : s[i] \in Value
    BY <2>1, Elements
  <2>9. s # <<>> /\ Len(s) >= 1
    BY <2>4, <2>5, <2>8
  <2>10. /\ \E i \in 1..Len(s) : Best(s) = s[i]
        /\ \A j \in 1..Len(s) : Outranks(Best(s), s[j])
    BY <2>1, <2>7, <2>9, BestOutranks
  <2>11. PICK b \in 1..Len(s) : Best(s) = s[b]
    BY <2>10
  <2>12. \A i \in 1..Len(s) : s[i].prio # ALIAS
    <3>1. s[b].prio # ALIAS
      BY <2>1, <2>9, <2>11, <2>2 DEF IInv, KnowAliases
    <3>2. \A i \in 1..Len(s) : s[i].prio \in {DEFAULT, NORMAL, OVERRIDE, ALIAS}
      BY <2>8 DEF Value
    <3>3. \A i \in 1..Len(s) : Outranks(s[b], s[i])
      BY <2>10, <2>11
    <3> HIDE DEF s
    <3>4. ASSUME NEW i \in 1..Len(s), s[i].prio = ALIAS PROVE FALSE
      <4>1. s[b].prio > ALIAS \/ s[b].prio = ALIAS
        BY <3>3, <3>4 DEF Outranks
      <4> QED BY <3>1, <3>2, <4>1 DEF DEFAULT, NORMAL, OVERRIDE, ALIAS
    <3> QED BY <3>4
  <2>13. b <= Len(presets[n])
    <3>1. Outranks(s[b], s[1]) /\ s[1].prio = OVERRIDE /\ s[1].seq = 0
      BY <2>4, <2>5, <2>9, <2>10, <2>11, <2>8
    <3>2. s[b].prio \in {DEFAULT, NORMAL, OVERRIDE} /\ s[b].seq \in Nat
      BY <2>8, <2>12 DEF Value
    <3>3. s[b].seq = 0
      BY <3>1, <3>2 DEF Outranks, DEFAULT, NORMAL, OVERRIDE
    <3> QED BY <2>4, <2>5, <2>8, <3>3
  <2>14. r[2] = s[b].val
    BY <2>1, <2>9, <2>11
  <2>15. r[2] = presets[n][b] /\ b \in 1..Len(presets[n])
    BY <2>4, <2>5, <2>13, <2>14
  <2> QED BY <2>4, <2>15 DEF n, ToSet
<1> QED BY InitIInv, NextKeepsIInv, <1>1, PTL DEF Spec

(* No write to a state that is an alias stays with it, be it made before or *)
(* after the alias (_set_value), and AliasReaches holds.                    *)
THEOREM AliasesReach == Spec => []AliasReaches
<1>1. IInv => AliasReaches
  <2> SUFFICES ASSUME IInv, Settles, NEW n \in Nodes, IsAlias(newVals, n), NEW w \in ToSet(newVals[n])
               PROVE  w.prio = ALIAS \/ w.seq = 0
    BY DEF AliasReaches
  <2>1. vals = newVals
    BY DEF IInv, AtEnd, Stable
  <2>2. \A i \in 1..Len(newVals[n]) : newVals[n][i].prio = ALIAS \/ newVals[n][i].seq = 0
    BY <2>1 DEF IInv, Forwarded
  <2>3. ToSet(newVals[n]) = {newVals[n][i] : i \in 1..Len(newVals[n])}
    BY Elements DEF IInv, Typed
  <2> QED BY <2>2, <2>3
<1> QED BY InitIInv, NextKeepsIInv, <1>1, PTL DEF Spec

-----------------------------------------------------------------------------
(* The types.  The blueprints that run and that wait are no more than may  *)
(* be: each one that is added waits for its turn, and has it once.         *)

Types ==
    /\ presets \in PresetChoices
    /\ binds \in [Nodes -> Nodes \cup {None}] /\ newBinds \in [Nodes -> Nodes \cup {None}]
    /\ waiting \in Nat /\ seq \in Nat \ {0} /\ seq + waiting <= MaxBlueprints + 1
    /\ errors \subseteq {"multiple write", "not provided"}
    /\ iteration \in 1..MaxIterations
    /\ result \in {"running", "built", "refused", "too many iterations"}
    /\ reads \subseteq Nodes \X (Vals \cup {Unset})
    /\ lookups \subseteq Nodes \X (Nodes \cup {None})

LEMMA LeastNumber ==
    ASSUME NEW I, I \subseteq Nat, I # {}
    PROVE  \E i \in I : \A j \in I : i <= j
<1>1. PICK i \in I : \A j \in I : ~(<<j, i>> \in OpToRel(<, Nat))
  BY NatLessThanWellFounded, WFMin
<1>2. \A j \in I : ~(j < i)
  BY <1>1 DEF OpToRel
<1> QED BY <1>2

(* The turns that are taken, and those that are waited for. *)
LEMMA Turns ==
    \A m, w \in Nat, s \in Nat \ {0} : s + w <= m + 1 => w \in 0..m /\ s \in 1..m + 1
OBVIOUS

LEMMA Taken ==
    \A m, w \in Nat, s \in Nat \ {0} :
      /\ s + w < m => w + 1 \in Nat /\ s + (w + 1) <= m + 1
      /\ s + w <= m + 1 /\ w > 0 => w - 1 \in Nat /\ s + 1 \in Nat \ {0} /\ (s + 1) + (w - 1) <= m + 1
OBVIOUS

(* What is found is a state, or nothing. *)
LEMMA LookupType ==
    ASSUME NEW bs \in [Nodes -> Nodes \cup {None}], NEW n \in Nodes
    PROVE  Lookup(bs, n) \in Nodes \cup {None}
<1> DEFINE bound == {i \in DOMAIN Up[n] : bs[Up[n][i]] # None}
<1>1. DOMAIN Up[n] = 1..Len(Up[n]) /\ Len(Up[n]) \in Nat /\ \A i \in DOMAIN Up[n] : Up[n][i] \in Nodes
  <2>1. Up[n] \in Seq(Nodes)
    BY BlueprintAssumption DEF BlueprintAssumption
  <2> QED BY <2>1, LenProperties, ElementOfSeq
<1>2. CASE bound = {}
  BY <1>2 DEF Lookup
<1>3. CASE bound # {}
  <2>1. bound \subseteq Nat
    BY <1>1
  <2>2. \E i \in bound : \A j \in bound : i <= j
    <3> HIDE DEF bound
    <3> QED BY <1>3, <2>1, LeastNumber
  <2>3. PICK k : k = Min(bound)
    OBVIOUS
  <2>4. k \in bound
    <3> HIDE DEF bound
    <3> QED BY <2>2, <2>3 DEF Min
  <2>5. Lookup(bs, n) = bs[Up[n][k]]
    BY <1>3, <2>3 DEF Lookup
  <2> QED BY <1>1, <2>4, <2>5
<1> QED BY <1>2, <1>3

(* What is read is a value of a member, never the node an alias stands for. *)
LEMMA ValueType ==
    ASSUME NEW vs \in [Nodes -> Seq(Value)], HaveBest(vs), KnowAliases(vs), NEW n \in Nodes
    PROVE  ValueOf(vs, n) \in Vals \cup {Unset}
<1>1. PICK t : t = Target(vs, n)
  OBVIOUS
<1>2. t \in Nodes /\ ~IsAlias(vs, t)
  BY <1>1, AliasTarget
<1>3. CASE vs[t] = <<>>
  BY <1>1, <1>3 DEF ValueOf
<1>4. CASE vs[t] # <<>>
  <2>1. PICK i \in 1..Len(vs[t]) : Best(vs[t]) = vs[t][i]
    BY <1>2, <1>4, BestOutranks DEF HaveBest
  <2>2. vs[t][i] \in Value
    BY <1>2, Elements
  <2>3. Best(vs[t]).val \in Vals
    BY <1>2, <1>4, <2>1, <2>2 DEF IsAlias, Value
  <2> QED BY <1>1, <1>4, <2>3 DEF ValueOf
<1> QED BY <1>3, <1>4

LEMMA InitTypes == Init => Types
<1> SUFFICES ASSUME Init PROVE Types
  OBVIOUS
<1>1. Unbound \in [Nodes -> Nodes \cup {None}]
  BY DEF Unbound
<1>2. MaxBlueprints \in Nat /\ MaxIterations \in Nat \ {0}
  BY BlueprintAssumption DEF BlueprintAssumption
<1> QED BY <1>1, <1>2 DEF Init, Types

LEMMA FoundTypes ==
    ASSUME Types, NEW n \in Nodes, NEW allowLocal, Found(n, allowLocal)
    PROVE  /\ lookups' \subseteq Nodes \X (Nodes \cup {None})
           /\ errors' \subseteq {"multiple write", "not provided"}
<1>1. Lookup(binds, n) \in Nodes \cup {None}
  BY LookupType DEF Types
<1>2. PICK l : l = Lookup(binds, n)
  OBVIOUS
<1>3. <<n, l>> \in Nodes \X (Nodes \cup {None})
  BY <1>1, <1>2
<1> QED BY <1>2, <1>3 DEF Found, Types

LEMMA NextKeepsTypes == IInv /\ Types /\ [Next]_vars => Types'
<1> SUFFICES ASSUME IInv, Types, [Next]_vars
             PROVE  Types'
  OBVIOUS
<1>1. /\ MaxBlueprints \in Nat /\ MaxIterations \in Nat \ {0}
      /\ vals \in [Nodes -> Seq(Value)] /\ HaveBest(vals) /\ KnowAliases(vals)
  BY BlueprintAssumption DEF BlueprintAssumption, IInv, Typed
<1>2. ASSUME NEW n \in Nodes, ReadValue(n)
      PROVE  Types'
  <2>1. ValueOf(vals, n) \in Vals \cup {Unset}
    BY <1>1, ValueType
  <2>2. PICK v : v = ValueOf(vals, n)
    OBVIOUS
  <2>3. reads' \subseteq Nodes \X (Vals \cup {Unset})
    <3>1. <<n, v>> \in Nodes \X (Vals \cup {Unset})
      BY <2>1, <2>2
    <3>2. reads' = reads \cup {<<n, v>>}
      BY <1>2, <2>2 DEF ReadValue
    <3>3. reads \subseteq Nodes \X (Vals \cup {Unset})
      BY DEF Types
    <3> QED BY <3>1, <3>2, <3>3, Zenon
  <2> QED BY <1>2, <2>3 DEF ReadValue, Types, given, stateVars, runVars
<1>3. ASSUME NEW n \in Nodes, ExposeState(n)
      PROVE  Types'
  BY <1>3 DEF ExposeState, Types, given, runVars
<1>4. ASSUME NEW n \in Nodes, NEW allowLocal, ReadState(n, allowLocal)
      PROVE  Types'
  <2>1. /\ lookups' \subseteq Nodes \X (Nodes \cup {None})
        /\ errors' \subseteq {"multiple write", "not provided"}
    BY <1>4, FoundTypes DEF ReadState
  <2> QED BY <1>4, <2>1 DEF ReadState, Types, given, stateVars
<1>5. ASSUME NEW n \in Nodes, NEW m \in Nodes, AliasState(n, m)
      PROVE  Types'
  <2>1. /\ lookups' \subseteq Nodes \X (Nodes \cup {None})
        /\ errors' \subseteq {"multiple write", "not provided"}
    BY <1>5, FoundTypes DEF AliasState
  <2>2. (IF Lookup(binds, n) = None THEN n ELSE Lookup(binds, n)) \in Nodes
    BY LookupType DEF Types
  <2>3. newBinds' \in [Nodes -> Nodes \cup {None}]
    BY <1>5, <2>2 DEF AliasState, Types
  <2> QED BY <1>5, <2>1, <2>3 DEF AliasState, Types, given
<1>6. ASSUME NEW m, NEW w, AppendTo(m, w)
      PROVE  Types'
  BY <1>6 DEF AppendTo, Types, given
<1>7. CASE \/ \E w \in Assigns : Write(w[1], w[2], w[3])
           \/ \E pair \in Aliases : WriteAlias(pair[1], pair[2])
  BY <1>6, <1>7 DEF Write, WriteAlias
<1>8. CASE Expand \/ NextBlueprint
  <2>1. waiting \in Nat /\ seq \in Nat \ {0} /\ seq + waiting <= MaxBlueprints + 1
    BY DEF Types
  <2>2. waiting' \in Nat /\ seq' \in Nat \ {0} /\ seq' + waiting' <= MaxBlueprints + 1
    <3>1. CASE Expand
      <4>1. waiting' = waiting + 1 /\ seq' = seq /\ seq + waiting < MaxBlueprints
        BY <3>1 DEF Expand
      <4> QED BY <1>1, <2>1, <4>1, Taken
    <3>2. CASE NextBlueprint
      <4>1. waiting' = waiting - 1 /\ seq' = seq + 1 /\ waiting > 0
        BY <3>2 DEF NextBlueprint
      <4> QED BY <1>1, <2>1, <4>1, Taken
    <3> QED BY <1>8, <3>1, <3>2
  <2>3. UNCHANGED <<presets, binds, newBinds, errors, iteration, result, reads, lookups>>
    BY <1>8 DEF Expand, NextBlueprint, given, stateVars
  <2> QED BY <2>2, <2>3 DEF Types
<1>9. CASE NextIteration
  <2>1. Unbound \in [Nodes -> Nodes \cup {None}]
    BY DEF Unbound
  <2>2. waiting' \in Nat /\ seq' \in Nat \ {0} /\ seq' + waiting' <= MaxBlueprints + 1
    <3>1. waiting' = 0 /\ seq' = 1
      BY <1>9 DEF NextIteration
    <3> QED BY <1>1, <3>1
  <2>3. iteration' \in 1..MaxIterations
    <3>1. iteration \in 1..MaxIterations /\ iteration < MaxIterations /\ iteration' = iteration + 1
      BY <1>9 DEF NextIteration, Types
    <3> QED BY <1>1, <3>1
  <2>4. /\ presets' = presets /\ binds' = newBinds /\ newBinds' = Unbound /\ result' = result
        /\ errors' = {} /\ reads' = {} /\ lookups' = {}
    BY <1>9 DEF NextIteration, given
  <2> QED BY <2>1, <2>2, <2>3, <2>4 DEF Types
<1>10. CASE GiveUp \/ \E reported, ignoreErrors \in BOOLEAN : Finish(reported, ignoreErrors)
  BY <1>10 DEF GiveUp, Finish, Types, given, stateVars
<1>11. CASE UNCHANGED vars
  BY <1>11 DEF vars, given, stateVars, runVars, Types
<1> QED BY <1>2, <1>3, <1>4, <1>5, <1>7, <1>8, <1>9, <1>10, <1>11 DEF Next

(* The variables keep their types; above all, what is read is the value of *)
(* a member even where aliases are made (_get_value follows one alias),    *)
(* and no more blueprints take their turn than were added (TypeOK).        *)
THEOREM TypesAlways == Spec => []TypeOK
<1>1. IInv /\ Types => TypeOK
  <2> SUFFICES ASSUME IInv, Types PROVE TypeOK
    OBVIOUS
  <2>1. MaxBlueprints \in Nat
    BY BlueprintAssumption DEF BlueprintAssumption
  <2>2. waiting \in 0..MaxBlueprints /\ seq \in 1..MaxBlueprints + 1
    <3>1. waiting \in Nat /\ seq \in Nat \ {0} /\ seq + waiting <= MaxBlueprints + 1
      BY DEF Types
    <3> QED BY <2>1, <3>1, Turns
  <2> QED BY <2>2 DEF IInv, Typed, Types, TypeOK
<1> QED BY InitIInv, NextKeepsIInv, InitTypes, NextKeepsTypes, <1>1, PTL DEF Spec
=============================================================================
