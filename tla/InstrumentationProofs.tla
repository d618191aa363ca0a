----------------------- MODULE InstrumentationProofs -----------------------
(***************************************************************************)
(* A registered connection is whole, only the deletion of an object leaves *)
(* anything of a connection behind, and filters and connections agree: for *)
(* any number of tools, providers, filters and groups, and whatever is     *)
(* deleted when.                                                           *)
(***************************************************************************)
EXTENDS Instrumentation, SequenceTheorems, FiniteSetTheorems, WellFoundedInduction, TLAPS

About == [tool : Tools, prov : Providers, group : 0..MaxGroups]

(* What the proofs need of the types: they leave out the lists of filters. *)
Numbers ==
    /\ about \in Seq(About) /\ conns \subseteq 1..Len(about)
    /\ providers \subseteq Providers
    /\ groups \in [Names -> 0..MaxGroups] /\ groups[NoGroup] = 0
    /\ nextGroup \in 0..MaxGroups

IInv == Numbers /\ RegisteredWhole /\ NothingLeft

(* Connections that are there already are not touched by a new one.        *)
LEMMA ConnectKeeps ==
    ASSUME Numbers, NEW t \in Tools, NEW n \in Names, NEW ps \in Lists, Connect(t, ps, n)
    PROVE  /\ about' \in Seq(About)
           /\ Len(about') = Len(about) + Len(ps)
           /\ \A c \in 1..Len(about) : about'[c] = about[c]
           /\ \A c \in (Len(about) + 1)..(Len(about) + Len(ps)) :
                about'[c].tool = t /\ about'[c].prov \in providers /\ about'[c].group = groups[n]
<1> DEFINE new == [i \in DOMAIN ps |-> [tool |-> t, prov |-> ps[i], group |-> groups[n]]]
<1>1. PICK k \in 0..MaxConns : ps \in [1..k -> providers]
  BY DEF Lists
<1>2. /\ ps \in Seq(providers) /\ Len(ps) = k /\ DOMAIN ps = 1..k
  BY <1>1, InstrumentationAssumption DEF InstrumentationAssumption
<1>3. /\ new \in Seq(About) /\ Len(new) = k
      /\ \A i \in 1..k : new[i].tool = t /\ new[i].prov \in providers /\ new[i].group = groups[n]
  <2>1. \A i \in 1..k : ps[i] \in providers /\ ps[i] \in Providers
    BY <1>1 DEF Numbers
  <2>2. new \in [1..k -> About]
    BY <1>2, <2>1 DEF Numbers, About
  <2>3. k \in Nat
    BY <1>1, InstrumentationAssumption DEF InstrumentationAssumption
  <2> QED BY <1>2, <2>1, <2>2, <2>3
<1>4. about' = about \o new
  BY DEF Connect
<1>5. about \in Seq(About)
  BY DEF Numbers
<1> HIDE DEF new
<1>6. /\ about \o new \in Seq(About) /\ Len(about \o new) = Len(about) + Len(new)
      /\ \A i \in 1..(Len(about) + Len(new)) :
           (about \o new)[i] = IF i <= Len(about) THEN about[i] ELSE new[i - Len(about)]
  BY <1>3, <1>5, ConcatProperties
<1>7. Len(about) \in Nat /\ k \in Nat
  BY <1>1, <1>5, LenProperties, InstrumentationAssumption DEF InstrumentationAssumption
<1>8. \A c \in 1..Len(about) : about'[c] = about[c]
  BY <1>3, <1>4, <1>6, <1>7
<1>9. \A c \in (Len(about) + 1)..(Len(about) + Len(ps)) :
         c - Len(about) \in 1..k /\ about'[c] = new[c - Len(about)]
  BY <1>2, <1>3, <1>4, <1>6, <1>7
<1> QED BY <1>2, <1>3, <1>4, <1>6, <1>8, <1>9

LEMMA InitIInv == Init => IInv
BY InstrumentationAssumption DEF Init, IInv, Numbers, RegisteredWhole, NothingLeft, Names, InstrumentationAssumption

(* Removing connections, as commands and deletions do. *)
LEMMA RemoveKeeps ==
    ASSUME IInv, NEW S,
           conns' = conns \ S, UNCHANGED <<about, groupVars>>,
           providers' \subseteq providers,
           \A c \in conns \ S : about[c].tool \in tools' /\ about[c].prov \in providers',
           (aggs \ S) \cap conns \subseteq aggs', aggs' \subseteq aggs,
           (served \ S) \cap conns \subseteq served', served' \subseteq served,
           (aggs' \cup served') \cap S \cap conns \subseteq lost', lost \subseteq lost'
    PROVE  IInv'
<1>1. Numbers'
  BY DEF IInv, Numbers, groupVars
<1>2. RegisteredWhole'
  BY DEF IInv, RegisteredWhole, InGroup, Names, groupVars
<1>3. NothingLeft'
  BY DEF IInv, NothingLeft
<1> QED BY <1>1, <1>2, <1>3 DEF IInv

(* Connecting a tool to providers. *)
LEMMA ConnectKeepsIInv ==
    ASSUME IInv, NEW t \in Tools, NEW n \in Names, NEW ps \in Lists, Connect(t, ps, n),
           t \in tools', tools \subseteq tools', UNCHANGED <<providers, groupVars>>
    PROVE  IInv'
<1> DEFINE new == (Len(about) + 1)..(Len(about) + Len(ps))
<1>1. Numbers
  BY DEF IInv
<1>2. /\ about' \in Seq(About)
      /\ Len(about') = Len(about) + Len(ps)
      /\ \A c \in 1..Len(about) : about'[c] = about[c]
      /\ \A c \in new : about'[c].tool = t /\ about'[c].prov \in providers /\ about'[c].group = groups[n]
  BY <1>1, ConnectKeeps
<1>3. /\ conns' = conns \cup new /\ aggs' = aggs \cup new /\ served' = served \cup new
      /\ lost' = lost
  BY DEF Connect
<1>4. Len(about) \in Nat /\ Len(about') \in Nat /\ Len(ps) \in Nat
  <2>1. Len(about) \in Nat /\ Len(about') \in Nat
    BY <1>1, <1>2, LenProperties DEF Numbers
  <2>2. Len(ps) \in Nat
    <3>1. PICK k \in 0..MaxConns : ps \in [1..k -> providers]
      BY DEF Lists
    <3> QED BY <3>1, InstrumentationAssumption DEF InstrumentationAssumption
  <2> QED BY <2>1, <2>2
<1>5. Numbers'
  <2>1. conns' \subseteq 1..Len(about')
    <3>1. conns \subseteq 1..Len(about)
      BY <1>1 DEF Numbers
    <3>2. 1..Len(about) \subseteq 1..Len(about') /\ new \subseteq 1..Len(about')
      BY <1>2, <1>4
    <3> QED BY <1>3, <3>1, <3>2
  <2> QED BY <1>1, <1>2, <2>1 DEF Numbers, groupVars
<1>6. RegisteredWhole'
  <2> SUFFICES ASSUME NEW c \in conns'
               PROVE  /\ about'[c].tool \in tools' /\ about'[c].prov \in providers'
                      /\ c \in aggs' /\ c \in served'
                      /\ \E m \in Names : about'[c].group = groups'[m]
    BY DEF RegisteredWhole, InGroup, Names
  <2>1. CASE c \in conns
    <3>1. about'[c] = about[c]
      BY <1>1, <1>2, <2>1 DEF Numbers
    <3> QED BY <1>3, <2>1, <3>1 DEF IInv, RegisteredWhole, InGroup, groupVars
  <2>2. CASE c \in new
    BY <1>2, <1>3, <2>2 DEF groupVars
  <2> QED BY <1>3, <2>1, <2>2
<1>7. NothingLeft'
  BY <1>3 DEF IInv, NothingLeft
<1> QED BY <1>5, <1>6, <1>7 DEF IInv

LEMMA GroupsKeepIInv ==
    ASSUME IInv, NEW n \in Names, AddGroup(n) \/ RemoveGroup(n)
    PROVE  IInv'
<1>1. /\ groups \in [Names -> 0..MaxGroups] /\ groups[NoGroup] = 0 /\ nextGroup \in 0..MaxGroups
      /\ NoGroup \in Names /\ MaxGroups \in Nat
  BY InstrumentationAssumption DEF IInv, Numbers, Names, InstrumentationAssumption
<1>2. n # NoGroup
  BY <1>1 DEF AddGroup, RemoveGroup
<1>3. /\ groups' \in [Names -> 0..MaxGroups] /\ groups'[NoGroup] = 0 /\ nextGroup' \in 0..MaxGroups
      /\ \A m \in Names \ {n} : groups'[m] = groups[m]
  <2>1. CASE AddGroup(n)
    BY <1>1, <1>2, <2>1 DEF AddGroup
  <2>2. CASE RemoveGroup(n)
    BY <1>1, <1>2, <2>2 DEF RemoveGroup
  <2> QED BY <2>1, <2>2
<1>4. UNCHANGED <<objVars, connVars>>
  BY DEF AddGroup, RemoveGroup
<1>5. \A c \in conns : \E m \in Names : about[c].group = groups'[m]
  <2> SUFFICES ASSUME NEW c \in conns
               PROVE  \E m \in Names : about[c].group = groups'[m]
    OBVIOUS
  <2>1. PICK m \in Names : about[c].group = groups[m]
    BY DEF IInv, RegisteredWhole, InGroup
  <2>2. CASE m # n
    BY <1>3, <2>1, <2>2
  <2>3. CASE m = n
    <3>1. CASE AddGroup(n)
      <4>1. about[c].group = 0
        BY <2>1, <2>3, <3>1 DEF AddGroup
      <4> QED BY <1>1, <1>3, <4>1
    <3>2. CASE RemoveGroup(n)
      BY <2>1, <2>3, <3>2 DEF RemoveGroup, InGroup
    <3> QED BY <3>1, <3>2
  <2> QED BY <2>2, <2>3
<1>6. Numbers'
  BY <1>3, <1>4 DEF IInv, Numbers, objVars, connVars
<1>7. RegisteredWhole'
  BY <1>4, <1>5 DEF IInv, RegisteredWhole, InGroup, objVars, connVars
<1>8. NothingLeft'
  BY <1>4 DEF IInv, NothingLeft, connVars
<1> QED BY <1>6, <1>7, <1>8 DEF IInv

(* The commands that remove connections. *)
LEMMA RemoveAllKeeps ==
    ASSUME IInv, NEW S, RemoveAll(S),
           UNCHANGED <<about, lost, providers, groupVars>>,
           served' \subseteq served \ (S \cap conns), (served \ S) \cap conns \subseteq served',
           \A c \in conns \ S : about[c].tool \in tools'
    PROVE  IInv'
<1>1. conns' = conns \ S /\ aggs' = aggs \ S
  BY DEF RemoveAll
<1>2. \A c \in conns \ S : about[c].tool \in tools' /\ about[c].prov \in providers'
  BY DEF IInv, RegisteredWhole
<1>3. /\ (aggs \ S) \cap conns \subseteq aggs' /\ aggs' \subseteq aggs
      /\ (aggs' \cup served') \cap S \cap conns \subseteq lost'
  BY <1>1
<1>4. UNCHANGED <<about, groupVars>> /\ providers' \subseteq providers /\ lost \subseteq lost'
  OBVIOUS
<1> QED BY <1>1, <1>2, <1>3, <1>4, RemoveKeeps

LEMMA RemoveInstrumentationKeeps ==
    ASSUME IInv, NEW S, RemoveInstrumentation(S)
    PROVE  IInv'
<1>1. \A c \in conns \ S : about[c].tool \in tools'
  BY DEF IInv, RegisteredWhole, RemoveInstrumentation, objVars
<1> QED BY <1>1, RemoveAllKeeps DEF RemoveInstrumentation, objVars

LEMMA DeleteToolKeeps ==
    ASSUME IInv, NEW t \in Tools, DeleteTool(t)
    PROVE  IInv'
<1>1. \A c \in conns \ ConnsOf(t) : about[c].tool \in tools'
  BY DEF IInv, RegisteredWhole, DeleteTool, ConnsOf
<1>2. /\ served' \subseteq served \ (ConnsOf(t) \cap conns)
      /\ (served \ ConnsOf(t)) \cap conns \subseteq served'
  BY DEF DeleteTool, ConnsOf
<1> QED BY <1>1, <1>2, RemoveAllKeeps DEF DeleteTool

(* Objects that are deleted. *)
LEMMA LoseToolKeeps ==
    ASSUME IInv, NEW t \in Tools, LoseTool(t), UNCHANGED <<providers, groupVars, about, aggs>>
    PROVE  IInv'
<1> DEFINE S == ConnsOf(t)
<1>1. conns' = conns \ S /\ lost' = lost \cup S /\ served' = {c \in served : about[c].tool # t}
  BY DEF LoseTool, Lose
<1>2. \A c \in conns \ S : about[c].tool \in tools' /\ about[c].prov \in providers'
  BY DEF IInv, RegisteredWhole, LoseTool, ConnsOf
<1>3. (served \ S) \cap conns \subseteq served' /\ served' \subseteq served
  BY <1>1 DEF ConnsOf
<1> HIDE DEF S
<1>4. /\ (aggs \ S) \cap conns \subseteq aggs' /\ aggs' \subseteq aggs /\ providers' \subseteq providers
      /\ (aggs' \cup served') \cap S \cap conns \subseteq lost' /\ lost \subseteq lost'
  BY <1>1
<1> QED BY <1>1, <1>2, <1>3, <1>4, RemoveKeeps

LEMMA DeleteProviderKeeps ==
    ASSUME IInv, NEW p \in Providers, DeleteProvider(p)
    PROVE  IInv'
<1> DEFINE S == {c \in conns : about[c].prov = p}
<1>1. conns' = conns \ S /\ lost' = lost \cup S /\ providers' = providers \ {p}
  BY DEF DeleteProvider, Lose
<1>2. UNCHANGED <<about, groupVars, tools, aggs, served>>
  BY DEF DeleteProvider
<1>3. \A c \in conns \ S : about[c].tool \in tools' /\ about[c].prov \in providers'
  BY <1>1, <1>2 DEF IInv, RegisteredWhole
<1> HIDE DEF S
<1>4. /\ (aggs \ S) \cap conns \subseteq aggs' /\ aggs' \subseteq aggs /\ providers' \subseteq providers
      /\ (served \ S) \cap conns \subseteq served' /\ served' \subseteq served
      /\ (aggs' \cup served') \cap S \cap conns \subseteq lost' /\ lost \subseteq lost'
  BY <1>1, <1>2
<1> QED BY <1>1, <1>2, <1>3, <1>4, RemoveKeeps

LEMMA DeleteConnectionKeeps ==
    ASSUME IInv, NEW k, DeleteConnection(k)
    PROVE  IInv'
<1> DEFINE S == conns \cap {k}
<1>1. conns' = conns \ S /\ lost' = lost \cup S /\ served' = served \ {k}
  BY DEF DeleteConnection, Lose
<1>2. UNCHANGED <<about, groupVars, tools, providers, aggs>>
  BY DEF DeleteConnection, objVars
<1>3. \A c \in conns \ S : about[c].tool \in tools' /\ about[c].prov \in providers'
  BY <1>2 DEF IInv, RegisteredWhole
<1>4. (served \ S) \cap conns \subseteq served' /\ served' \subseteq served
  BY <1>1
<1> HIDE DEF S
<1>5. /\ (aggs \ S) \cap conns \subseteq aggs' /\ aggs' \subseteq aggs /\ providers' \subseteq providers
      /\ (aggs' \cup served') \cap S \cap conns \subseteq lost' /\ lost \subseteq lost'
  BY <1>1, <1>2
<1> QED BY <1>1, <1>2, <1>3, <1>4, <1>5, RemoveKeeps

(* Filters do not touch the registry. *)
LEMMA FiltersKeep ==
    ASSUME IInv, UNCHANGED <<tools, providers, groupVars, conns, about, aggs, served, lost>>
    PROVE  IInv'
BY DEF IInv, Numbers, RegisteredWhole, NothingLeft, InGroup, groupVars

LEMMA NextKeepsIInv == IInv /\ [Next]_vars => IInv'
<1> SUFFICES ASSUME IInv, [Next]_vars
             PROVE  IInv'
  OBVIOUS
<1>1. ASSUME NEW t \in Tools, NEW ps \in Lists, NEW n \in Names, NewTool(t, ps, n)
      PROVE  IInv'
  BY <1>1, ConnectKeepsIInv DEF NewTool
<1>2. ASSUME NEW t \in Tools, NEW ps \in Lists, NEW n \in Names, AddInstrumentation(t, ps, n)
      PROVE  IInv'
  BY <1>2, ConnectKeepsIInv DEF AddInstrumentation, objVars
<1>3. ASSUME NEW t \in Tools, NEW n \in Names, AddInstrumentationToUnknownGroup(t, n)
      PROVE  IInv'
  BY <1>3, LoseToolKeeps DEF AddInstrumentationToUnknownGroup
<1>4. ASSUME NEW t \in Tools, NEW P, NEW n \in Names, RemoveByTool(t, P, n)
      PROVE  IInv'
  BY <1>4, RemoveInstrumentationKeeps DEF RemoveByTool
<1>5. ASSUME NEW t \in Tools, NEW p, RemoveByProviderTwice(t, p)
      PROVE  IInv'
  BY <1>5, RemoveInstrumentationKeeps DEF RemoveByProviderTwice
<1>6. ASSUME NEW t \in Tools, DeleteTool(t)
      PROVE  IInv'
  BY <1>6, DeleteToolKeeps
<1>7. ASSUME NEW t \in Tools, NEW f \in Filters, NEW n \in Names, AddFilter(t, f, n)
      PROVE  IInv'
  BY <1>7, FiltersKeep DEF AddFilter, objVars
<1>8. ASSUME NEW t \in Tools, NEW F, NEW all, NEW n, RemoveFilters(t, F, all, n)
      PROVE  IInv'
  BY <1>8, FiltersKeep DEF RemoveFilters, objVars
<1>9. ASSUME NEW t \in Tools, DeleteToolObject(t)
      PROVE  IInv'
  BY <1>9, LoseToolKeeps DEF DeleteToolObject
<1>10. ASSUME NEW c, RemoveInstrumentation({c})
       PROVE  IInv'
  BY <1>10, RemoveInstrumentationKeeps
<1>11. ASSUME NEW n, RemoveByGroup(n)
       PROVE  IInv'
  BY <1>11, RemoveInstrumentationKeeps DEF RemoveByGroup
<1>12. ASSUME NEW n \in Names, AddGroup(n) \/ RemoveGroup(n)
       PROVE  IInv'
  BY <1>12, GroupsKeepIInv
<1>13. ASSUME NEW f \in Filters, DeleteFilter(f)
       PROVE  IInv'
  BY <1>13, FiltersKeep DEF DeleteFilter
<1>14. ASSUME NEW p \in Providers, DeleteProvider(p)
       PROVE  IInv'
  BY <1>14, DeleteProviderKeeps
<1>15. ASSUME NEW c, DeleteConnection(c)
       PROVE  IInv'
  BY <1>15, DeleteConnectionKeeps
<1>16. CASE UNCHANGED vars
  BY <1>16, FiltersKeep DEF vars, objVars, connVars
<1>17. CASE Next
  <2>1. CASE \E t \in Tools :
               \/ \E ps \in Lists, n \in Names : NewTool(t, ps, n) \/ AddInstrumentation(t, ps, n)
               \/ \E n \in Names : AddInstrumentationToUnknownGroup(t, n)
               \/ \E P \in SUBSET providers, n \in Names : RemoveByTool(t, P, n)
               \/ \E p \in providers : RemoveByProviderTwice(t, p)
               \/ DeleteTool(t)
               \/ DeleteToolObject(t)
    BY <2>1, <1>1, <1>2, <1>3, <1>4, <1>5, <1>6, <1>9
  <2>2. CASE \E t \in Tools :
               \/ \E f \in Filters, n \in Names : AddFilter(t, f, n) \/ RemoveFilterOfGroup(t, f, n)
               \/ \E f \in Filters, all \in BOOLEAN : RemoveFilter(t, f, all)
               \/ \E n \in Names : RemoveEveryFilterOfGroup(t, n)
               \/ RemoveEveryFilter(t)
    BY <2>2, <1>7, <1>8 DEF RemoveFilter, RemoveFilterOfGroup, RemoveEveryFilter, RemoveEveryFilterOfGroup
  <2>3. CASE \/ \E c \in conns : RemoveInstrumentation({c})
             \/ \E n \in Names : RemoveByGroup(n) \/ AddGroup(n) \/ RemoveGroup(n)
             \/ \E f \in Filters : DeleteFilter(f)
             \/ \E p \in Providers : DeleteProvider(p)
             \/ \E c \in Conn : DeleteConnection(c)
    BY <2>3, <1>10, <1>11, <1>12, <1>13, <1>14, <1>15
  <2> QED BY <1>17, <2>1, <2>2, <2>3 DEF Next
<1> QED BY <1>16, <1>17

(* The registry never names what is gone: whatever is removed or deleted   *)
(* behind its back (_object_deleted), and in whatever order, a registered  *)
(* connection has its tool, its provider, its aggregator and a group that  *)
(* exists (RegisteredWhole).                                               *)
THEOREM AlwaysWhole == Spec => []RegisteredWhole
<1>1. IInv => RegisteredWhole
  BY DEF IInv
<1> QED BY InitIInv, NextKeepsIInv, <1>1, PTL DEF Spec

(* A connection that a command has removed leaves neither an aggregator    *)
(* nor a tool that still serves it; only deleted objects do (NothingLeft). *)
THEOREM OnlyTheLostLeaveAnything == Spec => []NothingLeft
<1>1. IInv => NothingLeft
  BY DEF IInv
<1> QED BY InitIInv, NextKeepsIInv, <1>1, PTL DEF Spec

-----------------------------------------------------------------------------
(* Lists and loops. *)

LEMMA LeastNumber ==
    ASSUME NEW I, I \subseteq Nat, I # {}
    PROVE  \E i \in I : \A j \in I : i <= j
<1>1. PICK i \in I : \A j \in I : ~(<<j, i>> \in OpToRel(<, Nat))
  BY NatLessThanWellFounded, WFMin
<1>2. \A j \in I : ~(j < i)
  BY <1>1 DEF OpToRel
<1> QED BY <1>2

Distinct(q) == \A i, j \in 1..Len(q) : q[i] = q[j] => i = j

LEMMA Members ==
    ASSUME NEW S, NEW q \in Seq(S)
    PROVE  /\ Len(q) \in Nat /\ DOMAIN q = 1..Len(q)
           /\ \A x : x \in ToSet(q) <=> \E i \in 1..Len(q) : q[i] = x
BY LenProperties DEF ToSet

(* list.remove of Python, for a list that has nothing twice. *)
LEMMA WithoutFirst ==
    ASSUME NEW S, NEW q \in Seq(S), NEW x, Distinct(q), NEW r, r = RemoveFirst(q, x)
    PROVE  /\ r \in Seq(S) /\ Distinct(r)
           /\ \A y : y \in ToSet(r) <=> y \in ToSet(q) /\ y # x
<1>1. Len(q) \in Nat /\ \A y : y \in ToSet(q) <=> \E i \in 1..Len(q) : q[i] = y
  BY Members
<1> DEFINE I == {i \in 1..Len(q) : q[i] = x}
<1>2. CASE I = {}
  <2>1. r = q /\ x \notin ToSet(q)
    BY <1>1, <1>2 DEF RemoveFirst
  <2> QED BY <2>1
<1>3. CASE I # {}
  <2>1. PICK i \in I : \A j \in I : i <= j
    <3>1. I \subseteq Nat
      BY <1>1
    <3> HIDE DEF I
    <3> QED BY <1>3, <3>1, LeastNumber
  <2>2. PICK k : k = Min(I)
    OBVIOUS
  <2>3. k \in 1..Len(q) /\ q[k] = x
    BY <2>1, <2>2 DEF Min
  <2>4. SelectInSeq(q, LAMBDA v : v = x) = k
    BY <1>3, <2>2 DEF SelectInSeq
  <2> DEFINE f == SubSeq(q, 1, k - 1)
             t == SubSeq(q, k + 1, Len(q))
  <2>6. /\ f \in Seq(S) /\ Len(f) = k - 1 /\ \A j \in 1..(k - 1) : f[j] = q[j]
    BY <1>1, <2>3, SubSeqProperties, ElementOfSeq
  <2>7. /\ t \in Seq(S) /\ Len(t) = Len(q) - k /\ \A j \in 1..(Len(q) - k) : t[j] = q[j + k]
    BY <1>1, <2>3, SubSeqProperties, ElementOfSeq
  <2>8. r = f \o t
    BY <2>3, <2>4 DEF RemoveFirst, RemoveAt
  <2> HIDE DEF f, t
  <2>5. /\ f \o t \in Seq(S) /\ Len(f \o t) = Len(f) + Len(t)
        /\ \A j \in 1..(Len(f) + Len(t)) : (f \o t)[j] = IF j <= Len(f) THEN f[j] ELSE t[j - Len(f)]
    BY <2>6, <2>7, ConcatProperties
  <2>9. /\ r \in Seq(S) /\ Len(r) = Len(f) + Len(t)
        /\ \A j \in 1..(Len(f) + Len(t)) : r[j] = IF j <= Len(f) THEN f[j] ELSE t[j - Len(f)]
    BY <2>5, <2>8
  <2>10. Len(r) = Len(q) - 1
    BY <1>1, <2>3, <2>6, <2>7, <2>9
  (* The place in q of what is at a place in r. *)
  <2> DEFINE Old(j) == IF j < k THEN j ELSE j + 1
  <2>11. \A j \in 1..Len(r) : Old(j) \in 1..Len(q) /\ Old(j) # k /\ r[j] = q[Old(j)]
    <3> SUFFICES ASSUME NEW j \in 1..Len(r)
                 PROVE  Old(j) \in 1..Len(q) /\ Old(j) # k /\ r[j] = q[Old(j)]
      OBVIOUS
    <3>1. Old(j) \in 1..Len(q) /\ Old(j) # k
      BY <1>1, <2>3, <2>10
    <3>2. CASE j < k
      BY <2>3, <2>6, <2>7, <2>9, <2>10, <3>1, <3>2
    <3>3. CASE ~(j < k)
      <4>1. /\ r[j] = t[j - Len(f)] /\ j - Len(f) \in 1..(Len(q) - k)
            /\ (j - Len(f)) + k = j + 1
        BY <1>1, <2>3, <2>6, <2>7, <2>9, <2>10, <3>3
      <4>2. t[j - Len(f)] = q[(j - Len(f)) + k]
        BY <2>7, <4>1
      <4> QED BY <3>1, <3>3, <4>1, <4>2
    <3> QED BY <3>2, <3>3
  <2>12. \A n \in 1..Len(q) : n # k => \E j \in 1..Len(r) : Old(j) = n
    <3> SUFFICES ASSUME NEW n \in 1..Len(q), n # k
                 PROVE  \E j \in 1..Len(r) : Old(j) = n
      OBVIOUS
    <3>1. CASE n < k
      <4>1. n \in 1..Len(r) /\ Old(n) = n
        BY <1>1, <2>3, <2>10, <3>1
      <4> QED BY <4>1
    <3>2. CASE n > k
      <4>1. n - 1 \in 1..Len(r) /\ Old(n - 1) = n
        BY <1>1, <2>3, <2>10, <3>2
      <4> QED BY <4>1
    <3> QED BY <2>3, <3>1, <3>2
  <2>13. \A i1, j1 \in 1..Len(r) : Old(i1) = Old(j1) => i1 = j1
    BY <1>1, <2>3, <2>10
  <2> HIDE DEF Old
  <2>14. Distinct(r)
    BY <2>11, <2>13 DEF Distinct
  <2>15. \A y : y \in ToSet(r) <=> \E i1 \in 1..Len(r) : r[i1] = y
    BY <2>9, Members
  <2>16. ASSUME NEW y PROVE y \in ToSet(r) <=> y \in ToSet(q) /\ y # x
    <3>1. ASSUME y \in ToSet(r) PROVE y \in ToSet(q) /\ y # x
      <4>1. PICK j \in 1..Len(r) : q[Old(j)] = y /\ Old(j) \in 1..Len(q) /\ Old(j) # k
        BY <2>11, <2>15, <3>1
      <4>2. y # x
        BY <2>3, <4>1 DEF Distinct
      <4> QED BY <1>1, <4>1, <4>2
    <3>2. ASSUME y \in ToSet(q), y # x PROVE y \in ToSet(r)
      <4>1. PICK n \in 1..Len(q) : q[n] = y /\ n # k
        BY <1>1, <2>3, <3>2
      <4>2. PICK j \in 1..Len(r) : Old(j) = n
        BY <2>12, <4>1
      <4> QED BY <2>11, <2>15, <4>1, <4>2
    <3> QED BY <3>1, <3>2
  <2> QED BY <2>9, <2>14, <2>16
<1> QED BY <1>2, <1>3

(* A loop that goes from one state to the next exists. *)
Loop(S, n, b, step) == n \in Nat /\ b \in S /\ step \in [S \X (1..n) -> S]
Runs(S, n, b, step) == \E f \in [0..n -> S] : f[0] = b /\ \A i \in 1..n : f[i] = step[<<f[i - 1], i>>]

LEMMA Iterates ==
    ASSUME NEW S, NEW n, NEW b, NEW step, Loop(S, n, b, step)
    PROVE  Runs(S, n, b, step)
<1>0. n \in Nat /\ b \in S /\ step \in [S \X (1..n) -> S]
  BY DEF Loop
<1> DEFINE Good(k) == \E f \in [0..k -> S] : f[0] = b /\ \A i \in 1..k : f[i] = step[<<f[i - 1], i>>]
           Bad == {k \in 0..n : ~Good(k)}
<1>1. Good(0)
  <2>1. PICK g : g = [i \in 0..0 |-> b]
    OBVIOUS
  <2>2. g \in [0..0 -> S] /\ g[0] = b
    BY <1>0, <2>1
  <2>3. \A i \in 1..0 : g[i] = step[<<g[i - 1], i>>]
    OBVIOUS
  <2> QED BY <2>2, <2>3
<1>2. ASSUME NEW k \in 1..n, Good(k - 1) PROVE Good(k)
  <2>1. PICK f \in [0..(k - 1) -> S] : f[0] = b /\ \A i \in 1..(k - 1) : f[i] = step[<<f[i - 1], i>>]
    BY <1>2
  <2>2. PICK g : g = [i \in 0..k |-> IF i = k THEN step[<<f[k - 1], k>>] ELSE f[i]]
    OBVIOUS
  <2>3. f[k - 1] \in S /\ step[<<f[k - 1], k>>] \in S
    BY <1>0, <2>1
  <2>4. g \in [0..k -> S]
    <3>1. \A i \in 0..k : i # k => i \in 0..(k - 1)
      BY <1>0
    <3> QED BY <2>1, <2>2, <2>3, <3>1
  <2>5. g[0] = b
    BY <1>0, <2>1, <2>2
  <2>6. ASSUME NEW i \in 1..k PROVE g[i] = step[<<g[i - 1], i>>]
    <3>1. g[i - 1] = f[i - 1]
      BY <1>0, <2>2
    <3>2. CASE i = k
      <4>1. g[k] = step[<<f[k - 1], k>>]
        BY <1>0, <2>2
      <4> QED BY <3>1, <3>2, <4>1
    <3>3. CASE i # k
      <4>1. i \in 1..(k - 1) /\ g[i] = f[i]
        BY <1>0, <2>2, <3>3
      <4> QED BY <2>1, <3>1, <4>1
    <3> QED BY <3>2, <3>3
  <2> QED BY <2>4, <2>5, <2>6
<1>3. Bad = {}
  <2> SUFFICES ASSUME Bad # {} PROVE FALSE
    OBVIOUS
  <2>1. Bad \subseteq Nat
    BY <1>0
  <2>2. PICK k \in Bad : \A j \in Bad : k <= j
    <3> HIDE DEF Bad
    <3> QED BY <2>1, LeastNumber
  <2>3. k # 0 /\ k \in 1..n /\ k - 1 \in 0..n /\ ~(k <= k - 1)
    <3>1. k # 0
      BY <1>1, <2>2
    <3> QED BY <1>0, <2>2, <3>1
  <2>4. k - 1 \notin Bad
    BY <2>2, <2>3
  <2>5. Good(k - 1)
    BY <2>3, <2>4
  <2> QED BY <1>2, <2>2, <2>3, <2>5
<1>4. Good(n)
  BY <1>0, <1>3
<1> QED BY <1>4 DEF Runs

(* What a loop keeps from one round to the next holds when it ends. *)
LEMMA LoopStays ==
    ASSUME NEW S, NEW n \in Nat, NEW w, w[0] \in S, \A i \in 1..n : w[i - 1] \in S => w[i] \in S
    PROVE  w[n] \in S
<1> DEFINE Bad == {k \in 0..n : w[k] \notin S}
<1>1. Bad = {}
  <2> SUFFICES ASSUME Bad # {} PROVE FALSE
    OBVIOUS
  <2>1. Bad \subseteq Nat
    OBVIOUS
  <2>2. PICK k \in Bad : \A j \in Bad : k <= j
    <3> HIDE DEF Bad
    <3> QED BY <2>1, LeastNumber
  <2>3. k # 0 /\ k \in 1..n /\ k - 1 \in 0..n /\ ~(k <= k - 1)
    BY <2>2
  <2>4. k - 1 \notin Bad
    BY <2>2, <2>3
  <2> QED BY <2>2, <2>3, <2>4
<1> QED BY <1>1

-----------------------------------------------------------------------------
(* Detaching filters. *)

States == [applied : [Conn -> Seq(Filters)], slaves : [Filters -> SUBSET Conn], failed : BOOLEAN]

Agrees(st, c) ==
    /\ ToSet(st.applied[c]) \subseteq filters
    /\ \A f \in Filters : f \in ToSet(st.applied[c]) <=> c \in st.slaves[f]
    /\ Distinct(st.applied[c])

(* A state of remove-filter: what it has changed so far agrees, and the    *)
(* rest is as before.                                                      *)
Fine ==
    {st \in States :
       /\ \A c \in conns : Agrees(st, c)
       /\ \A f \in Filters : st.slaves[f] \subseteq slaves[f]
       /\ \A c \in Conn \ conns : st.applied[c] = applied[c]}

LEMMA OrdersAreLists ==
    ASSUME NEW S, S \subseteq Conn, NEW order \in Orders(S)
    PROVE  /\ IsFiniteSet(S) /\ Cardinality(S) \in Nat
           /\ Len(order) = Cardinality(S) /\ DOMAIN order = 1..Len(order)
           /\ \A i \in 1..Len(order) : order[i] \in S
<1>1. IsFiniteSet(S) /\ Cardinality(S) \in Nat
  <2>1. IsFiniteSet(Conn)
    BY InstrumentationAssumption, FS_Interval DEF Conn, InstrumentationAssumption
  <2> QED BY <2>1, FS_Subset, FS_CardinalityType
<1>2. order \in [1..Cardinality(S) -> S]
  BY DEF Orders
<1>3. order \in Seq(S) /\ Len(order) = Cardinality(S)
  BY <1>1, <1>2
<1> QED BY <1>1, <1>2, <1>3

LEMMA DetachKeeps ==
    ASSUME conns \subseteq Conn, NEW S, S \subseteq conns, NEW order \in Orders(S),
           NEW st \in Fine, NEW f \in Filters
    PROVE  Detach(st, order, f) \in Fine
<1> DEFINE without == {i \in DOMAIN order : f \notin ToSet(st.applied[order[i]])}
           done == {order[i] : i \in {k \in DOMAIN order : \A j \in without : k < j}}
<1>1. /\ DOMAIN order = 1..Len(order) /\ Len(order) \in Nat
      /\ \A i \in 1..Len(order) : order[i] \in S
  BY OrdersAreLists
<1>2. \A c \in done : c \in conns /\ f \in ToSet(st.applied[c])
  <2> SUFFICES ASSUME NEW c \in done
               PROVE  c \in conns /\ f \in ToSet(st.applied[c])
    OBVIOUS
  <2>1. PICK i \in 1..Len(order) : c = order[i] /\ \A j \in without : i < j
    BY <1>1
  <2>2. i \notin without
    BY <1>1, <2>1
  <2> QED BY <1>1, <2>1, <2>2
<1> HIDE DEF without
<1>3. done \subseteq Conn
  BY <1>2
<1> DEFINE next == [applied |-> [c \in Conn |-> IF c \in done THEN RemoveFirst(st.applied[c], f) ELSE st.applied[c]],
                    slaves |-> [st.slaves EXCEPT ![f] = @ \ done],
                    failed |-> without # {}]
<1>4. Detach(st, order, f) = next
  BY DEF Detach, without
<1> HIDE DEF done
<1>5. /\ st.applied \in [Conn -> Seq(Filters)] /\ st.slaves \in [Filters -> SUBSET Conn]
      /\ \A c \in conns : Agrees(st, c)
      /\ \A g \in Filters : st.slaves[g] \subseteq slaves[g]
      /\ \A c \in Conn \ conns : st.applied[c] = applied[c]
  BY DEF Fine, States
<1>6. ASSUME NEW c \in done
      PROVE  /\ next.applied[c] \in Seq(Filters) /\ Distinct(next.applied[c])
             /\ \A g : g \in ToSet(next.applied[c]) <=> g \in ToSet(st.applied[c]) /\ g # f
  <2>1. c \in Conn /\ st.applied[c] \in Seq(Filters) /\ Distinct(st.applied[c])
    BY <1>2, <1>3, <1>5 DEF Agrees
  <2>2. next.applied[c] = RemoveFirst(st.applied[c], f)
    BY <2>1, <1>6
  <2> HIDE DEF next
  <2> QED BY <2>1, <2>2, WithoutFirst
<1>7. \A c \in Conn \ done : next.applied[c] = st.applied[c]
  OBVIOUS
<1>8. /\ next.slaves \in [Filters -> SUBSET Conn] /\ next.slaves[f] = st.slaves[f] \ done
      /\ \A g \in Filters \ {f} : next.slaves[g] = st.slaves[g]
  BY <1>5
<1>9. next \in States
  <2>1. next.applied \in [Conn -> Seq(Filters)]
    <3>1. \A c \in Conn : next.applied[c] \in Seq(Filters)
      BY <1>5, <1>6, <1>7
    <3> QED BY <3>1
  <2> QED BY <1>8, <2>1 DEF States
<1> HIDE DEF next
<1>10. ASSUME NEW c \in conns PROVE Agrees(next, c)
  <2>1. CASE c \in done
    <3>1. Agrees(st, c)
      BY <1>5
    <3>2. ToSet(next.applied[c]) \subseteq filters
      BY <1>6, <2>1, <3>1 DEF Agrees
    <3>3. ASSUME NEW g \in Filters PROVE g \in ToSet(next.applied[c]) <=> c \in next.slaves[g]
      <4>1. g \in ToSet(next.applied[c]) <=> g \in ToSet(st.applied[c]) /\ g # f
        BY <1>6, <2>1
      <4>2. g \in ToSet(st.applied[c]) <=> c \in st.slaves[g]
        BY <3>1 DEF Agrees
      <4> QED BY <1>8, <2>1, <4>1, <4>2
    <3> QED BY <1>6, <2>1, <3>2, <3>3 DEF Agrees
  <2>2. CASE c \notin done
    <3>1. Agrees(st, c) /\ next.applied[c] = st.applied[c]
      BY <1>5, <1>7, <2>2
    <3>2. \A g \in Filters : c \in next.slaves[g] <=> c \in st.slaves[g]
      BY <1>8, <2>2
    <3> QED BY <3>1, <3>2 DEF Agrees
  <2> QED BY <2>1, <2>2
<1>11. \A g \in Filters : next.slaves[g] \subseteq slaves[g]
  BY <1>5, <1>8
<1>12. \A c \in Conn \ conns : next.applied[c] = applied[c]
  BY <1>2, <1>5, <1>7
<1> QED BY <1>4, <1>9, <1>10, <1>11, <1>12 DEF Fine

(* The filters that are found at a connection. *)
LEMMA DetachFoundKeeps ==
    ASSUME conns \subseteq Conn, NEW S, S \subseteq conns, NEW order \in Orders(S),
           NEW st \in Fine, NEW c \in Conn, NEW F
    PROVE  DetachFound(st, order, c, F) \in Fine
<1> DEFINE found == st.applied[c]
           n == Len(found)
           step == [p \in Fine \X (1..n) |-> IF found[p[2]] \notin F \/ p[1].failed THEN p[1]
                                             ELSE Detach(p[1], order, found[p[2]])]
<1>1. n \in Nat /\ \A i \in 1..n : found[i] \in Filters
  <2>1. found \in Seq(Filters)
    BY DEF Fine, States
  <2> QED BY <2>1, LenProperties, ElementOfSeq
<1> HIDE DEF found, n
<1>2. ASSUME NEW x \in Fine, NEW i \in 1..n
      PROVE  (IF found[i] \notin F \/ x.failed THEN x ELSE Detach(x, order, found[i])) \in Fine
  <2>1. found[i] \in Filters
    BY <1>1
  <2>2. Detach(x, order, found[i]) \in Fine
    BY <2>1, DetachKeeps
  <2> QED BY <2>2
<1>3. step \in [Fine \X (1..n) -> Fine]
  BY <1>2
<1>4. \A x \in Fine, i \in 1..n :
         step[<<x, i>>] = IF found[i] \notin F \/ x.failed THEN x ELSE Detach(x, order, found[i])
  OBVIOUS
<1> HIDE DEF step
<1>5. PICK v \in [0..n -> Fine] : v[0] = st /\ \A i \in 1..n : v[i] = step[<<v[i - 1], i>>]
  <2>1. Loop(Fine, n, st, step)
    BY <1>1, <1>3 DEF Loop
  <2>2. Runs(Fine, n, st, step)
    BY <2>1, Iterates
  <2> QED BY <2>2 DEF Runs
<1> DEFINE Is(w) == w = [i \in 0..n |-> IF i = 0 THEN st
                                        ELSE IF found[i] \notin F \/ w[i - 1].failed THEN w[i - 1]
                                        ELSE Detach(w[i - 1], order, found[i])]
<1>6. Is(v)
  <2>1. ASSUME NEW i \in 1..n
        PROVE  v[i] = IF found[i] \notin F \/ v[i - 1].failed THEN v[i - 1] ELSE Detach(v[i - 1], order, found[i])
    <3>1. i - 1 \in 0..n /\ v[i - 1] \in Fine
      BY <1>1, <1>5
    <3> QED BY <1>4, <1>5, <3>1
  <2>2. \A i \in 0..n : i # 0 => i \in 1..n
    BY <1>1
  <2> QED BY <1>5, <2>1, <2>2
<1>7. PICK w : w = CHOOSE u : Is(u)
  OBVIOUS
<1>8. Is(w)
  BY <1>6, <1>7
<1>9. w[n] \in Fine
  <2>1. w[0] \in Fine
    BY <1>1, <1>8
  <2>2. ASSUME NEW i \in 1..n, w[i - 1] \in Fine PROVE w[i] \in Fine
    <3>1. w[i] = IF found[i] \notin F \/ w[i - 1].failed THEN w[i - 1] ELSE Detach(w[i - 1], order, found[i])
      BY <1>1, <1>8
    <3> QED BY <1>2, <2>2, <3>1
  <2> HIDE DEF Is
  <2> QED BY <1>1, <2>1, <2>2, LoopStays
<1>10. DetachFound(st, order, c, F) = w[n]
  BY <1>7 DEF DetachFound, found, n
<1> QED BY <1>9, <1>10

(* What remove-filter leaves. *)
LEMMA RemoveFiltersFine ==
    ASSUME conns \subseteq Conn, NEW t \in Tools, NEW F, NEW all, NEW n, RemoveFilters(t, F, all, n),
           [applied |-> applied, slaves |-> slaves, failed |-> FALSE] \in Fine
    PROVE  \E st \in Fine : applied' = st.applied /\ slaves' = st.slaves
<1> DEFINE S == ConnsOf(t)
           now == [applied |-> applied, slaves |-> slaves, failed |-> FALSE]
<1>1. S \subseteq conns
  BY DEF ConnsOf
<1> DEFINE Is(w, order) == w = [i \in 0..Len(order) |->
                                  IF i = 0 THEN now
                                  ELSE IF all \/ InGroup(order[i], n) THEN DetachFound(w[i - 1], order, order[i], F)
                                  ELSE w[i - 1]]
<1>2. PICK order \in Orders(S) :
         LET sweep == CHOOSE w : Is(w, order)
         IN applied' = sweep[Len(order)].applied /\ slaves' = sweep[Len(order)].slaves
  BY DEF RemoveFilters
<1>3. /\ Len(order) \in Nat
      /\ \A i \in 1..Len(order) : order[i] \in Conn
  BY <1>1, OrdersAreLists
<1> HIDE DEF S, now
<1> DEFINE k == Len(order)
           step == [p \in Fine \X (1..k) |-> IF all \/ InGroup(order[p[2]], n)
                                             THEN DetachFound(p[1], order, order[p[2]], F) ELSE p[1]]
<1> HIDE DEF k
<1>4. ASSUME NEW x \in Fine, NEW i \in 1..k
      PROVE  (IF all \/ InGroup(order[i], n) THEN DetachFound(x, order, order[i], F) ELSE x) \in Fine
  <2>1. order[i] \in Conn
    BY <1>3 DEF k
  <2>2. DetachFound(x, order, order[i], F) \in Fine
    BY <1>1, <2>1, DetachFoundKeeps
  <2> QED BY <2>2
<1>5. step \in [Fine \X (1..k) -> Fine]
  BY <1>4
<1>6. \A x \in Fine, i \in 1..k :
         step[<<x, i>>] = IF all \/ InGroup(order[i], n) THEN DetachFound(x, order, order[i], F) ELSE x
  OBVIOUS
<1> HIDE DEF step
<1>7. PICK v \in [0..k -> Fine] : v[0] = now /\ \A i \in 1..k : v[i] = step[<<v[i - 1], i>>]
  <2>1. Loop(Fine, k, now, step)
    BY <1>3, <1>5 DEF Loop, k, now
  <2>2. Runs(Fine, k, now, step)
    BY <2>1, Iterates
  <2> QED BY <2>2 DEF Runs
<1>8. Is(v, order)
  <2>1. ASSUME NEW i \in 1..k
        PROVE  v[i] = IF all \/ InGroup(order[i], n) THEN DetachFound(v[i - 1], order, order[i], F) ELSE v[i - 1]
    <3>1. i - 1 \in 0..k /\ v[i - 1] \in Fine
      BY <1>3, <1>7 DEF k
    <3> QED BY <1>6, <1>7, <3>1
  <2>2. \A i \in 0..k : i # 0 => i \in 1..k
    BY <1>3 DEF k
  <2>3. v = [i \in 0..k |-> IF i = 0 THEN now
                            ELSE IF all \/ InGroup(order[i], n) THEN DetachFound(v[i - 1], order, order[i], F)
                            ELSE v[i - 1]]
    BY <1>7, <2>1, <2>2
  <2> QED BY <2>3 DEF k
<1>9. PICK w : w = CHOOSE u : Is(u, order)
  OBVIOUS
<1>10. Is(w, order)
  BY <1>8, <1>9
<1>11. w[k] \in Fine
  <2>1. w[0] \in Fine
    BY <1>3, <1>10 DEF now
  <2>2. ASSUME NEW i \in 1..k, w[i - 1] \in Fine PROVE w[i] \in Fine
    <3>1. w[i] = IF all \/ InGroup(order[i], n) THEN DetachFound(w[i - 1], order, order[i], F) ELSE w[i - 1]
      <4>1. i \in 0..Len(order) /\ i # 0
        BY <1>3 DEF k
      <4> QED BY <1>10, <4>1
    <3> QED BY <1>4, <2>2, <3>1
  <2> HIDE DEF Is
  <2> QED BY <1>3, <2>1, <2>2, LoopStays DEF k
<1>12. applied' = w[k].applied /\ slaves' = w[k].slaves
  BY <1>2, <1>9 DEF k
<1> QED BY <1>11, <1>12

-----------------------------------------------------------------------------
(* The filters of connections. *)

Types ==
    /\ tools \subseteq Tools /\ filters \subseteq Filters /\ Len(about) <= MaxConns
    /\ applied \in [Conn -> Seq(Filters)] /\ slaves \in [Filters -> SUBSET Conn]
    /\ aggs \subseteq Conn /\ served \subseteq Conn /\ lost \subseteq Conn /\ crowded \subseteq Conn

(* A connection that has not been made has no filter. *)
Fresh ==
    \A c \in Conn \ (1..Len(about)) : applied[c] = <<>> /\ \A f \in Filters : c \notin slaves[f]

FInv == Types /\ Fresh /\ FiltersAgree /\ FiltersForget

LEMMA ConnsAreNumbers ==
    ASSUME Numbers, Types
    PROVE  /\ Len(about) \in Nat /\ MaxConns \in Nat /\ conns \subseteq Conn
           /\ 1..Len(about) \subseteq Conn
<1>1. Len(about) \in Nat /\ MaxConns \in Nat
  BY LenProperties, InstrumentationAssumption DEF Numbers, InstrumentationAssumption
<1>2. 1..Len(about) \subseteq Conn
  BY <1>1 DEF Types, Conn
<1> QED BY <1>1, <1>2 DEF Numbers

(* What the lists of filters mean. *)
LEMMA ListsOfFilters ==
    ASSUME Types, NEW c \in Conn
    PROVE  /\ applied[c] \in Seq(Filters) /\ Len(applied[c]) \in Nat
           /\ DOMAIN applied[c] = 1..Len(applied[c])
           /\ \A f : HasFilter(c, f) <=> \E i \in 1..Len(applied[c]) : applied[c][i] = f
           /\ ToSet(applied[c]) \subseteq Filters
<1>1. applied[c] \in Seq(Filters)
  BY DEF Types
<1> QED BY <1>1, Members, ElementOfSeq DEF HasFilter

LEMMA InitFInv == Init => FInv
<1> SUFFICES ASSUME Init PROVE FInv
  OBVIOUS
<1>1. applied = [c \in Conn |-> <<>>] /\ slaves = [f \in Filters |-> {}] /\ about = <<>> /\ conns = {}
  BY DEF Init
<1>2. Types
  <2>1. Len(about) = 0 /\ MaxConns \in Nat
    BY <1>1, InstrumentationAssumption DEF InstrumentationAssumption
  <2>2. applied \in [Conn -> Seq(Filters)]
    BY <1>1
  <2> QED BY <1>1, <2>1, <2>2 DEF Types, Init
<1> QED BY <1>1, <1>2 DEF FInv, Fresh, FiltersAgree, FiltersForget

LEMMA ConnectKeepsFInv ==
    ASSUME Numbers, FInv, NEW t \in Tools, NEW n \in Names, NEW ps \in Lists, Connect(t, ps, n),
           tools' \subseteq Tools, UNCHANGED filters
    PROVE  FInv'
<1> DEFINE new == (Len(about) + 1)..(Len(about) + Len(ps))
<1>1. /\ Len(about') = Len(about) + Len(ps) /\ Len(about') <= MaxConns
      /\ conns' = conns \cup new /\ aggs' = aggs \cup new /\ served' = served \cup new
      /\ UNCHANGED <<applied, slaves, lost, crowded>>
  BY ConnectKeeps DEF Connect
<1>2. Len(about) \in Nat /\ Len(ps) \in Nat /\ MaxConns \in Nat /\ conns \subseteq Conn
  <2>1. PICK k \in 0..MaxConns : ps \in [1..k -> providers]
    BY DEF Lists
  <2> QED BY <2>1, ConnsAreNumbers DEF FInv
<1>3. new \subseteq Conn /\ new \cap (1..Len(about)) = {}
  BY <1>1, <1>2 DEF Conn
<1>4. Types'
  BY <1>1, <1>3 DEF FInv, Types
<1>5. Fresh'
  <2>1. 1..Len(about) \subseteq 1..Len(about')
    BY <1>1, <1>2
  <2> QED BY <1>1, <2>1 DEF FInv, Fresh
<1>6. \A c \in new : applied[c] = <<>> /\ \A f \in Filters : c \notin slaves[f]
  BY <1>3 DEF FInv, Fresh
<1> HIDE DEF new
<1>7. FiltersAgree'
  <2> SUFFICES ASSUME NEW c \in conns'
               PROVE  /\ ToSet(applied[c]) \subseteq filters
                      /\ \A f \in Filters : f \in ToSet(applied[c]) <=> c \in slaves[f]
                      /\ \A i, j \in DOMAIN applied[c] : applied[c][i] = applied[c][j] => i = j
    BY <1>1 DEF FiltersAgree, HasFilter
  <2>1. CASE c \in conns
    BY <2>1 DEF FInv, FiltersAgree, HasFilter
  <2>2. CASE c \in new
    <3>1. applied[c] = <<>> /\ \A f \in Filters : c \notin slaves[f]
      BY <1>6, <2>2
    <3>2. ToSet(<<>>) = {} /\ DOMAIN <<>> = {}
      BY DEF ToSet
    <3> QED BY <3>1, <3>2
  <2> QED BY <1>1, <2>1, <2>2
<1>8. FiltersForget'
  BY <1>1 DEF FInv, FiltersForget
<1> QED BY <1>4, <1>5, <1>7, <1>8 DEF FInv

(* Objects that are deleted. *)
LEMMA LoseKeepsFInv ==
    ASSUME Numbers, FInv, NEW L, L \subseteq conns, Lose(L),
           tools' \subseteq tools, served' \subseteq served,
           UNCHANGED <<filters, about, applied, aggs, slaves, crowded>>
    PROVE  FInv'
<1>1. conns' = conns \ L /\ lost' = lost \cup L /\ L \subseteq Conn
  BY ConnsAreNumbers DEF Lose, FInv
<1>2. Types'
  BY <1>1 DEF FInv, Types
<1>3. Fresh'
  BY DEF FInv, Fresh
<1>4. FiltersAgree'
  BY <1>1 DEF FInv, FiltersAgree, HasFilter
<1>5. FiltersForget'
  BY <1>1 DEF FInv, FiltersForget
<1> QED BY <1>2, <1>3, <1>4, <1>5 DEF FInv

(* Connections that are removed.  A filter that was not told is not the    *)
(* first of a list.                                                        *)
LEMMA UntoldIsLate ==
    ASSUME Types, NEW c \in Conn, NEW f, HasFilter(c, f), f \notin Told(c)
    PROVE  Len(applied[c]) > 1
<1>1. PICK i \in 1..Len(applied[c]) : applied[c][i] = f /\ Len(applied[c]) \in Nat
  BY ListsOfFilters
<1>2. i # 1
  <2>1. DOMAIN applied[c] = 1..Len(applied[c])
    BY ListsOfFilters
  <2>2. ASSUME i = 1 PROVE FALSE
    <3>1. 1 % 2 = 1
      OBVIOUS
    <3> QED BY <1>1, <2>1, <2>2, <3>1 DEF Told
  <2> QED BY <2>2
<1> QED BY <1>1, <1>2

LEMMA Half == \A k \in Nat : k \div 2 \in Nat /\ 2 * (k \div 2) <= k
OBVIOUS

LEMMA UntoldType ==
    ASSUME Types, NEW c \in Conn
    PROVE  Untold(c) \in Seq(Filters)
<1>1. Len(applied[c]) \in Nat /\ \A i \in 1..Len(applied[c]) : applied[c][i] \in Filters
  BY ListsOfFilters, ElementOfSeq
<1>2. PICK k : k = Len(applied[c]) \div 2
  OBVIOUS
<1>3. k \in Nat /\ 2 * k <= Len(applied[c])
  BY <1>1, <1>2, Half
<1>4. \A i \in 1..k : 2 * i \in 1..Len(applied[c])
  BY <1>1, <1>3
<1>5. Untold(c) \in [1..k -> Filters]
  BY <1>1, <1>2, <1>4 DEF Untold
<1> QED BY <1>3, <1>5

LEMMA RemoveAllKeepsFInv ==
    ASSUME Numbers, FInv, NEW S, S \subseteq conns, RemoveAll(S),
           tools' \subseteq tools, served' \subseteq served, UNCHANGED <<filters, about, lost>>
    PROVE  FInv'
<1>1. S \subseteq Conn /\ conns \subseteq Conn /\ 1..Len(about) \subseteq Conn /\ S \subseteq 1..Len(about)
  BY ConnsAreNumbers DEF FInv, Numbers
<1>2. /\ conns' = conns \ S /\ aggs' = aggs \ S
      /\ crowded' = crowded \cup {c \in S : Len(applied[c]) > 1}
      /\ applied' = [c \in Conn |-> IF c \in S THEN Untold(c) ELSE applied[c]]
      /\ slaves' = [f \in Filters |-> slaves[f] \ {c \in S : f \in Told(c)}]
  BY DEF RemoveAll
<1>3. \A c \in Conn \ S : applied'[c] = applied[c] /\ \A f \in Filters : c \in slaves'[f] <=> c \in slaves[f]
  BY <1>2
<1>4. Types /\ \A f \in Filters : slaves'[f] \subseteq slaves[f]
  BY <1>2 DEF FInv
<1>5. Types'
  <2>1. applied' \in [Conn -> Seq(Filters)]
    <3>1. \A c \in Conn : applied[c] \in Seq(Filters) /\ Untold(c) \in Seq(Filters)
      BY <1>4, UntoldType, ListsOfFilters
    <3> QED BY <1>2, <3>1
  <2>2. slaves' \in [Filters -> SUBSET Conn]
    BY <1>2, <1>4 DEF Types
  <2> QED BY <1>1, <1>2, <1>4, <2>1, <2>2 DEF Types
<1>6. Fresh'
  BY <1>1, <1>3 DEF FInv, Fresh
<1>7. FiltersAgree'
  <2> SUFFICES ASSUME NEW c \in conns'
               PROVE  /\ ToSet(applied'[c]) \subseteq filters
                      /\ \A f \in Filters : f \in ToSet(applied'[c]) <=> c \in slaves'[f]
                      /\ \A i, j \in DOMAIN applied'[c] : applied'[c][i] = applied'[c][j] => i = j
    BY DEF FiltersAgree, HasFilter
  <2>1. c \in conns /\ c \in Conn \ S
    BY <1>1, <1>2
  <2>2. applied'[c] = applied[c] /\ \A f \in Filters : c \in slaves'[f] <=> c \in slaves[f]
    BY <1>3, <2>1
  <2>3. /\ ToSet(applied[c]) \subseteq filters
        /\ \A f \in Filters : f \in ToSet(applied[c]) <=> c \in slaves[f]
        /\ \A i, j \in DOMAIN applied[c] : applied[c][i] = applied[c][j] => i = j
    BY <2>1 DEF FInv, FiltersAgree, HasFilter
  <2> QED BY <2>2, <2>3
<1>8. FiltersForget'
  <2> SUFFICES ASSUME NEW f \in Filters, NEW c \in slaves'[f] \ conns'
               PROVE  c \in lost \cup crowded'
    BY DEF FiltersForget
  <2>1. c \in slaves[f] /\ (c \in S => f \notin Told(c))
    BY <1>2
  <2>2. CASE c \notin conns
    BY <1>2, <2>1, <2>2 DEF FInv, FiltersForget
  <2>3. CASE c \in conns
    <3>1. c \in S /\ c \in Conn
      BY <1>1, <1>2, <2>3
    <3>2. HasFilter(c, f)
      BY <2>1, <2>3 DEF FInv, FiltersAgree
    <3>3. Len(applied[c]) > 1
      BY <1>4, <2>1, <3>1, <3>2, UntoldIsLate
    <3> QED BY <1>2, <3>1, <3>3
  <2> QED BY <2>2, <2>3
<1> QED BY <1>5, <1>6, <1>7, <1>8 DEF FInv

(* A filter that is attached to connections that do not have it. *)
LEMMA AddFilterKeepsFInv ==
    ASSUME Numbers, FInv, NEW t \in Tools, NEW f \in Filters, NEW n \in Names, AddFilter(t, f, n)
    PROVE  FInv'
<1> DEFINE S == Targets(t, f, n)
<1>1. conns \subseteq Conn /\ conns \subseteq 1..Len(about)
  BY ConnsAreNumbers DEF FInv, Numbers
<1>2. S \subseteq conns /\ \A c \in S : ~HasFilter(c, f)
  BY DEF Targets, ConnsOf
<1>3. /\ f \in filters /\ UNCHANGED <<objVars, groupVars, conns, about, aggs, served, lost, crowded>>
      /\ applied' = [c \in Conn |-> IF c \in S THEN Append(applied[c], f) ELSE applied[c]]
      /\ slaves' = [slaves EXCEPT ![f] = @ \cup S]
  BY DEF AddFilter
<1> HIDE DEF S
<1>4. Types
  BY DEF FInv
<1>5. /\ slaves'[f] = slaves[f] \cup S
      /\ \A g \in Filters \ {f} : slaves'[g] = slaves[g]
  BY <1>3, <1>4 DEF Types
<1>6. \A c \in Conn \ S : applied'[c] = applied[c] /\ \A g \in Filters : c \in slaves'[g] <=> c \in slaves[g]
  BY <1>3, <1>5
<1>7. ASSUME NEW c \in S
      PROVE  /\ applied'[c] \in Seq(Filters)
             /\ ToSet(applied'[c]) = ToSet(applied[c]) \cup {f}
             /\ \A i, j \in DOMAIN applied'[c] : applied'[c][i] = applied'[c][j] => i = j
  <2> DEFINE q == applied[c]
             r == Append(q, f)
  <2>1. /\ q \in Seq(Filters) /\ Len(q) \in Nat /\ DOMAIN q = 1..Len(q)
        /\ \A g : g \in ToSet(q) <=> \E i \in 1..Len(q) : q[i] = g
    BY <1>1, <1>2, <1>4, ListsOfFilters DEF HasFilter
  <2>2. f \notin ToSet(q)
    BY <1>2 DEF HasFilter
  <2>3. \A i, j \in 1..Len(q) : q[i] = q[j] => i = j
    <3>1. DOMAIN applied[c] = 1..Len(applied[c])
      BY <2>1
    <3>2. \A i, j \in DOMAIN applied[c] : applied[c][i] = applied[c][j] => i = j
      BY <1>2 DEF FInv, FiltersAgree
    <3> QED BY <3>1, <3>2
  <2>4. applied'[c] = r
    BY <1>1, <1>2, <1>3
  <2> HIDE DEF q
  <2>5. /\ r \in Seq(Filters) /\ Len(r) = Len(q) + 1 /\ r[Len(q) + 1] = f
        /\ \A i \in 1..Len(q) : r[i] = q[i]
    BY <2>1, AppendProperties
  <2> HIDE DEF r
  <2>6. DOMAIN r = 1..Len(r) /\ \A g : g \in ToSet(r) <=> \E i \in 1..Len(r) : r[i] = g
    BY <2>5, Members
  <2>7. \A i \in 1..Len(r) : i \in 1..Len(q) \/ i = Len(q) + 1
    BY <2>1, <2>5
  <2>8. 1..Len(q) \subseteq 1..Len(r) /\ Len(q) + 1 \in 1..Len(r)
    BY <2>1, <2>5
  <2>9. ToSet(r) = ToSet(q) \cup {f}
    BY <2>1, <2>5, <2>6, <2>7, <2>8
  <2>10. \A i, j \in 1..Len(r) : r[i] = r[j] => i = j
    BY <2>1, <2>2, <2>3, <2>5, <2>7
  <2> QED BY <2>4, <2>5, <2>6, <2>9, <2>10 DEF q
<1>8. Types'
  <2>1. applied' \in [Conn -> Seq(Filters)]
    <3>1. \A c \in Conn : applied'[c] \in Seq(Filters)
      BY <1>4, <1>6, <1>7 DEF Types
    <3> QED BY <1>3, <3>1
  <2>2. slaves' \in [Filters -> SUBSET Conn]
    BY <1>1, <1>2, <1>3, <1>4 DEF Types
  <2> QED BY <1>3, <1>4, <2>1, <2>2 DEF Types, objVars
<1>9. Fresh'
  BY <1>1, <1>2, <1>3, <1>6 DEF FInv, Fresh
<1>10. FiltersAgree'
  <2> SUFFICES ASSUME NEW c \in conns
               PROVE  /\ ToSet(applied'[c]) \subseteq filters
                      /\ \A g \in Filters : g \in ToSet(applied'[c]) <=> c \in slaves'[g]
                      /\ \A i, j \in DOMAIN applied'[c] : applied'[c][i] = applied'[c][j] => i = j
    BY <1>3 DEF FiltersAgree, HasFilter, objVars
  <2>1. /\ ToSet(applied[c]) \subseteq filters
        /\ \A g \in Filters : g \in ToSet(applied[c]) <=> c \in slaves[g]
        /\ \A i, j \in DOMAIN applied[c] : applied[c][i] = applied[c][j] => i = j
    BY DEF FInv, FiltersAgree, HasFilter
  <2>2. CASE c \in S
    <3>1. ToSet(applied'[c]) \subseteq filters
      <4>1. ToSet(applied'[c]) = ToSet(applied[c]) \cup {f}
        BY <1>7, <2>2
      <4>2. f \in filters /\ ToSet(applied[c]) \subseteq filters
        BY <1>3, <2>1
      <4> QED BY <4>1, <4>2
    <3>2. \A g \in Filters : g \in ToSet(applied'[c]) <=> c \in slaves'[g]
      BY <1>5, <1>7, <2>1, <2>2
    <3> QED BY <1>7, <2>2, <3>1, <3>2
  <2>3. CASE c \notin S
    <3>1. applied'[c] = applied[c] /\ \A g \in Filters : c \in slaves'[g] <=> c \in slaves[g]
      BY <1>1, <1>6, <2>3
    <3> QED BY <2>1, <3>1
  <2> QED BY <2>2, <2>3
<1>11. FiltersForget'
  BY <1>2, <1>3, <1>5 DEF FInv, FiltersForget
<1> QED BY <1>8, <1>9, <1>10, <1>11 DEF FInv

(* What remove-filter did is right, also when it failed half way. *)
LEMMA RemoveFiltersKeepsFInv ==
    ASSUME Numbers, FInv, NEW t \in Tools, NEW F, NEW all, NEW n, RemoveFilters(t, F, all, n)
    PROVE  FInv'
<1> DEFINE now == [applied |-> applied, slaves |-> slaves, failed |-> FALSE]
<1>1. /\ conns \subseteq Conn /\ conns \subseteq 1..Len(about) /\ Types
      /\ UNCHANGED <<tools, filters, conns, about, aggs, served, lost, crowded>>
  BY ConnsAreNumbers DEF FInv, Numbers, RemoveFilters, objVars
<1>2. now \in Fine
  <2>1. now \in States
    BY <1>1 DEF States, Types
  <2>2. ASSUME NEW c \in conns PROVE Agrees(now, c)
    <3>1. c \in Conn /\ DOMAIN applied[c] = 1..Len(applied[c])
      BY <1>1, ListsOfFilters
    <3>2. Distinct(applied[c])
      BY <3>1 DEF FInv, FiltersAgree, Distinct
    <3> QED BY <3>2 DEF FInv, FiltersAgree, HasFilter, Agrees
  <2> QED BY <2>1, <2>2 DEF Fine
<1>3. PICK st \in Fine : applied' = st.applied /\ slaves' = st.slaves
  BY <1>1, <1>2, RemoveFiltersFine
<1>4. /\ applied' \in [Conn -> Seq(Filters)] /\ slaves' \in [Filters -> SUBSET Conn]
      /\ \A c \in conns : Agrees(st, c)
      /\ \A f \in Filters : slaves'[f] \subseteq slaves[f]
      /\ \A c \in Conn \ conns : applied'[c] = applied[c]
  BY <1>3 DEF Fine, States
<1>5. Types'
  BY <1>1, <1>4 DEF Types
<1>6. Fresh'
  BY <1>1, <1>4 DEF FInv, Fresh
<1>7. FiltersAgree'
  <2> SUFFICES ASSUME NEW c \in conns
               PROVE  /\ ToSet(applied'[c]) \subseteq filters
                      /\ \A f \in Filters : f \in ToSet(applied'[c]) <=> c \in slaves'[f]
                      /\ \A i, j \in DOMAIN applied'[c] : applied'[c][i] = applied'[c][j] => i = j
    BY <1>1 DEF FiltersAgree, HasFilter
  <2>1. applied'[c] \in Seq(Filters)
    BY <1>1, <1>4
  <2>2. DOMAIN applied'[c] = 1..Len(applied'[c])
    BY <2>1, Members
  <2>3. Agrees(st, c) /\ st.applied[c] = applied'[c] /\ \A f \in Filters : st.slaves[f] = slaves'[f]
    BY <1>3, <1>4
  <2> QED BY <2>2, <2>3 DEF Agrees, Distinct
<1>8. FiltersForget'
  BY <1>1, <1>4 DEF FInv, FiltersForget
<1> QED BY <1>5, <1>6, <1>7, <1>8 DEF FInv

LEMMA DeleteFilterKeepsFInv ==
    ASSUME Numbers, FInv, NEW f \in Filters, DeleteFilter(f)
    PROVE  FInv'
<1>1. /\ conns \subseteq Conn /\ conns \subseteq 1..Len(about) /\ Types
      /\ filters' = filters \ {f}
      /\ UNCHANGED <<tools, conns, about, aggs, served, lost, crowded>>
      /\ applied' = [c \in Conn |-> IF c \in conns THEN RemoveFirst(applied[c], f) ELSE applied[c]]
      /\ slaves' = [slaves EXCEPT ![f] = {}]
  BY ConnsAreNumbers DEF FInv, Numbers, DeleteFilter
<1>2. \A c \in Conn \ conns : applied'[c] = applied[c]
  BY <1>1
<1>3. slaves'[f] = {} /\ \A g \in Filters \ {f} : slaves'[g] = slaves[g]
  BY <1>1 DEF Types
<1>4. ASSUME NEW c \in conns
      PROVE  /\ applied'[c] \in Seq(Filters)
             /\ \A g : g \in ToSet(applied'[c]) <=> g \in ToSet(applied[c]) /\ g # f
             /\ \A i, j \in DOMAIN applied'[c] : applied'[c][i] = applied'[c][j] => i = j
  <2>1. applied[c] \in Seq(Filters) /\ DOMAIN applied[c] = 1..Len(applied[c])
    BY <1>1, ListsOfFilters
  <2>2. Distinct(applied[c])
    BY <2>1 DEF FInv, FiltersAgree, Distinct
  <2>3. PICK q : q = applied[c]
    OBVIOUS
  <2>4. PICK r : r = RemoveFirst(q, f)
    OBVIOUS
  <2>5. r \in Seq(Filters) /\ Distinct(r) /\ \A g : g \in ToSet(r) <=> g \in ToSet(q) /\ g # f
    BY <2>1, <2>2, <2>3, <2>4, WithoutFirst
  <2>6. applied'[c] = r
    BY <1>1, <2>3, <2>4
  <2>7. DOMAIN r = 1..Len(r)
    BY <2>5, Members
  <2> QED BY <2>3, <2>5, <2>6, <2>7 DEF Distinct
<1>5. Types'
  <2>1. applied' \in [Conn -> Seq(Filters)]
    <3>1. \A c \in Conn : applied'[c] \in Seq(Filters)
      BY <1>1, <1>2, <1>4 DEF Types
    <3> QED BY <1>1, <3>1
  <2>2. slaves' \in [Filters -> SUBSET Conn]
    BY <1>1 DEF Types
  <2> QED BY <1>1, <2>1, <2>2 DEF Types
<1>6. \A g \in Filters : slaves'[g] \subseteq slaves[g]
  BY <1>3
<1>7. Fresh'
  BY <1>1, <1>2, <1>6 DEF FInv, Fresh
<1>8. FiltersAgree'
  <2> SUFFICES ASSUME NEW c \in conns
               PROVE  /\ ToSet(applied'[c]) \subseteq filters'
                      /\ \A g \in Filters : g \in ToSet(applied'[c]) <=> c \in slaves'[g]
                      /\ \A i, j \in DOMAIN applied'[c] : applied'[c][i] = applied'[c][j] => i = j
    BY <1>1 DEF FiltersAgree, HasFilter
  <2>1. /\ ToSet(applied[c]) \subseteq filters
        /\ \A g \in Filters : g \in ToSet(applied[c]) <=> c \in slaves[g]
    BY DEF FInv, FiltersAgree, HasFilter
  <2>2. ToSet(applied'[c]) \subseteq filters'
    <3>1. filters' = filters \ {f}
      BY <1>1
    <3> QED BY <1>4, <2>1, <3>1
  <2>3. \A g \in Filters : g \in ToSet(applied'[c]) <=> c \in slaves'[g]
    BY <1>3, <1>4, <2>1
  <2> QED BY <1>4, <2>2, <2>3
<1>9. FiltersForget'
  BY <1>1, <1>6 DEF FInv, FiltersForget
<1> QED BY <1>5, <1>7, <1>8, <1>9 DEF FInv

LEMMA NextKeepsFInv == IInv /\ FInv /\ [Next]_vars => FInv'
<1> SUFFICES ASSUME Numbers, FInv, [Next]_vars
             PROVE  FInv'
  BY DEF IInv
<1>1. ASSUME NEW t \in Tools, NEW ps \in Lists, NEW n \in Names, NewTool(t, ps, n)
      PROVE  FInv'
  <2>1. tools' \subseteq Tools
    BY <1>1 DEF NewTool, FInv, Types
  <2> QED BY <1>1, <2>1, ConnectKeepsFInv DEF NewTool
<1>2. ASSUME NEW t \in Tools, NEW ps \in Lists, NEW n \in Names, AddInstrumentation(t, ps, n)
      PROVE  FInv'
  <2>1. tools' \subseteq Tools
    BY <1>2 DEF AddInstrumentation, objVars, FInv, Types
  <2> QED BY <1>2, <2>1, ConnectKeepsFInv DEF AddInstrumentation, objVars
<1>3. ASSUME NEW t \in Tools, LoseTool(t), UNCHANGED <<filters, about, applied, aggs, slaves, crowded>>
      PROVE  FInv'
  <2>1. /\ ConnsOf(t) \subseteq conns /\ Lose(ConnsOf(t))
        /\ tools' \subseteq tools /\ served' \subseteq served
    BY <1>3 DEF ConnsOf, LoseTool
  <2> QED BY <1>3, <2>1, LoseKeepsFInv
<1>4. ASSUME NEW S, S \subseteq conns, RemoveInstrumentation(S)
      PROVE  FInv'
  BY <1>4, RemoveAllKeepsFInv DEF RemoveInstrumentation, objVars
<1>5. ASSUME NEW t \in Tools, DeleteTool(t)
      PROVE  FInv'
  <2>1. /\ ConnsOf(t) \subseteq conns /\ RemoveAll(ConnsOf(t)) /\ UNCHANGED <<filters, about, lost>>
        /\ tools' \subseteq tools /\ served' \subseteq served
    BY <1>5 DEF ConnsOf, DeleteTool
  <2> QED BY <2>1, RemoveAllKeepsFInv
<1>6. ASSUME NEW t \in Tools, NEW f \in Filters, NEW n \in Names, AddFilter(t, f, n)
      PROVE  FInv'
  BY <1>6, AddFilterKeepsFInv
<1>7. ASSUME NEW t \in Tools, NEW F, NEW all, NEW n, RemoveFilters(t, F, all, n)
      PROVE  FInv'
  BY <1>7, RemoveFiltersKeepsFInv
<1>8. ASSUME NEW f \in Filters, DeleteFilter(f)
      PROVE  FInv'
  BY <1>8, DeleteFilterKeepsFInv
<1>9. ASSUME NEW p \in Providers, DeleteProvider(p)
      PROVE  FInv'
  <2>1. {c \in conns : about[c].prov = p} \subseteq conns
    OBVIOUS
  <2>2. /\ Lose({c \in conns : about[c].prov = p})
        /\ tools' \subseteq tools /\ served' \subseteq served
        /\ UNCHANGED <<filters, about, applied, aggs, slaves, crowded>>
    BY <1>9 DEF DeleteProvider
  <2> QED BY <2>1, <2>2, LoseKeepsFInv
<1>10. ASSUME NEW c, DeleteConnection(c)
       PROVE  FInv'
  <2>1. /\ conns \cap {c} \subseteq conns /\ Lose(conns \cap {c})
        /\ tools' \subseteq tools /\ served' \subseteq served
        /\ UNCHANGED <<filters, about, applied, aggs, slaves, crowded>>
    BY <1>10 DEF DeleteConnection, objVars
  <2> QED BY <2>1, LoseKeepsFInv
<1>11. ASSUME UNCHANGED <<objVars, connVars>>
       PROVE  FInv'
  <2>1. UNCHANGED <<tools, filters, conns, about, applied, aggs, served, slaves, lost, crowded>>
    BY <1>11 DEF objVars, connVars
  <2>2. Types' /\ Fresh'
    BY <2>1 DEF FInv, Types, Fresh
  <2>3. FiltersAgree' /\ FiltersForget'
    BY <2>1 DEF FInv, FiltersAgree, FiltersForget, HasFilter
  <2> QED BY <2>2, <2>3 DEF FInv
<1>12. CASE UNCHANGED vars
  BY <1>11, <1>12 DEF vars
<1>13. CASE Next
  <2>1. CASE \E t \in Tools :
               \/ \E ps \in Lists, n \in Names : NewTool(t, ps, n) \/ AddInstrumentation(t, ps, n)
               \/ \E n \in Names : AddInstrumentationToUnknownGroup(t, n)
               \/ \E P \in SUBSET providers, n \in Names : RemoveByTool(t, P, n)
               \/ \E p \in providers : RemoveByProviderTwice(t, p)
               \/ DeleteTool(t)
               \/ DeleteToolObject(t)
    <3>1. ASSUME NEW t \in Tools, NEW n \in Names, AddInstrumentationToUnknownGroup(t, n) PROVE FInv'
      BY <1>3, <3>1 DEF AddInstrumentationToUnknownGroup
    <3>2. ASSUME NEW t \in Tools, DeleteToolObject(t) PROVE FInv'
      BY <1>3, <3>2 DEF DeleteToolObject
    <3>3. ASSUME NEW t \in Tools, NEW P, NEW n \in Names, RemoveByTool(t, P, n) PROVE FInv'
      <4>1. Matching(t, P, n) \subseteq conns
        BY DEF Matching, ConnsOf
      <4> QED BY <1>4, <3>3, <4>1 DEF RemoveByTool
    <3>4. ASSUME NEW t \in Tools, NEW p, RemoveByProviderTwice(t, p) PROVE FInv'
      <4>1. PICK c \in Matching(t, {p}, NoGroup) : RemoveInstrumentation({c})
        BY <3>4 DEF RemoveByProviderTwice
      <4>2. {c} \subseteq conns
        BY <4>1 DEF Matching, ConnsOf
      <4> QED BY <1>4, <4>1, <4>2
    <3> QED BY <2>1, <1>1, <1>2, <1>5, <3>1, <3>2, <3>3, <3>4
  <2>2. CASE \E t \in Tools :
               \/ \E f \in Filters, n \in Names : AddFilter(t, f, n) \/ RemoveFilterOfGroup(t, f, n)
               \/ \E f \in Filters, all \in BOOLEAN : RemoveFilter(t, f, all)
               \/ \E n \in Names : RemoveEveryFilterOfGroup(t, n)
               \/ RemoveEveryFilter(t)
    BY <2>2, <1>6, <1>7 DEF RemoveFilter, RemoveFilterOfGroup, RemoveEveryFilter, RemoveEveryFilterOfGroup
  <2>3. CASE \/ \E c \in conns : RemoveInstrumentation({c})
             \/ \E n \in Names : RemoveByGroup(n) \/ AddGroup(n) \/ RemoveGroup(n)
    <3>1. ASSUME NEW c \in conns, RemoveInstrumentation({c}) PROVE FInv'
      <4>1. {c} \subseteq conns
        OBVIOUS
      <4> QED BY <1>4, <3>1, <4>1
    <3>2. ASSUME NEW n \in Names, RemoveByGroup(n) PROVE FInv'
      <4>1. {c \in conns : InGroup(c, n)} \subseteq conns
        OBVIOUS
      <4> QED BY <1>4, <3>2, <4>1 DEF RemoveByGroup
    <3>3. ASSUME NEW n \in Names, AddGroup(n) \/ RemoveGroup(n) PROVE FInv'
      BY <1>11, <3>3 DEF AddGroup, RemoveGroup
    <3> QED BY <2>3, <3>1, <3>2, <3>3
  <2>4. CASE \/ \E f \in Filters : DeleteFilter(f)
             \/ \E p \in Providers : DeleteProvider(p)
             \/ \E c \in Conn : DeleteConnection(c)
    BY <2>4, <1>8, <1>9, <1>10
  <2> QED BY <1>13, <2>1, <2>2, <2>3, <2>4 DEF Next
<1> QED BY <1>12, <1>13

(* The filters and the connections agree on who filters whom, once each,   *)
(* and no filter is gone (FiltersAgree): also after a remove-filter that   *)
(* has failed half way, having changed the lists that it runs over.        *)
THEOREM FiltersAlwaysAgree == Spec => []FiltersAgree
<1>1. FInv => FiltersAgree
  BY DEF FInv
<1> QED BY InitIInv, NextKeepsIInv, InitFInv, NextKeepsFInv, <1>1, PTL DEF Spec

(* A filter still knows a connection that is gone only if that went with   *)
(* a deleted object, or was removed with two filters or more, one of which *)
(* tool_connection.delete does not tell (FiltersForget).                   *)
THEOREM OnlyTheCrowdedAreRemembered == Spec => []FiltersForget
<1>1. FInv => FiltersForget
  BY DEF FInv
<1> QED BY InitIInv, NextKeepsIInv, InitFInv, NextKeepsFInv, <1>1, PTL DEF Spec

(* The variables keep their types: the registered connections are of those *)
(* made, and lists of filters hold filters.                                *)
THEOREM TypesAlways == Spec => []TypeOK
<1>1. IInv /\ FInv => TypeOK
  BY DEF IInv, FInv, Numbers, Types, TypeOK, About
<1> QED BY InitIInv, NextKeepsIInv, InitFInv, NextKeepsFInv, <1>1, PTL DEF Spec
=============================================================================
