--------------------------- MODULE Instrumentation ---------------------------
(***************************************************************************)
(* The instrumentation framework of the command line: tools that are       *)
(* connected to providers, filters that are applied to the connections of  *)
(* a tool, and groups that connections are put in.  The framework keeps    *)
(* the registry of connections; tools, providers and filters are objects   *)
(* that keep their own side, and that may be deleted at any time.          *)
(*                                                                         *)
(* Each connection has an aggregator object, which its filters know as     *)
(* their slave; it goes by the number of the connection here.              *)
(***************************************************************************)
EXTENDS Integers, Sequences, FiniteSets, SequencesExt

CONSTANTS Tools, Providers, Filters,  \* objects that may exist
          GroupNames, NoGroup,        \* names of groups, and None
          Accepts,    \* the filters and providers for which add_slave succeeds
          MaxConns,   \* bound on the connections that are made
          MaxGroups,  \* bound on the groups that are created
          Deleting    \* objects are deleted behind the back of the framework

ASSUME InstrumentationAssumption ==
    /\ MaxConns \in Nat /\ MaxGroups \in Nat /\ Deleting \in BOOLEAN
    /\ NoGroup \notin GroupNames
    /\ Accepts \subseteq Filters \X Providers

VARIABLES
    tools, providers, filters, \* the objects that exist
    groups,   \* instrumentation_groups: the number of each group, 0 if there is none
    nextGroup,\* instrumentation_group_id
    conns,    \* the registered connections, by number
    about,    \* tool, provider and group of each connection ever made, in order
    applied,  \* _filter_objects of each connection
    aggs,     \* the connections whose aggregator exists
    served,   \* those that their tool was asked to connect, and not to disconnect
    slaves,   \* those that each filter object has as slaves
    lost,     \* history: connections that went with one of their objects
    crowded   \* history: connections that were removed with two filters or more

objVars   == <<tools, providers, filters>>
groupVars == <<groups, nextGroup>>
connVars  == <<conns, about, applied, aggs, served, slaves, lost, crowded>>
vars == <<objVars, groupVars, connVars>>

Conn == 1..MaxConns
Names == GroupNames \cup {NoGroup}

TypeOK ==
    /\ tools \subseteq Tools /\ providers \subseteq Providers /\ filters \subseteq Filters
    /\ groups \in [Names -> 0..MaxGroups] /\ groups[NoGroup] = 0
    /\ nextGroup \in 0..MaxGroups
    /\ about \in Seq([tool : Tools, prov : Providers, group : 0..MaxGroups])
    /\ Len(about) <= MaxConns
    /\ conns \subseteq 1..Len(about)
    /\ applied \in [Conn -> Seq(Filters)]
    /\ aggs \subseteq Conn /\ served \subseteq Conn
    /\ slaves \in [Filters -> SUBSET Conn]
    /\ lost \subseteq Conn /\ crowded \subseteq Conn

Init ==
    /\ tools = {} /\ providers = Providers /\ filters = Filters
    /\ groups = [n \in Names |-> 0] /\ nextGroup = 0
    /\ conns = {} /\ about = <<>>
    /\ applied = [c \in Conn |-> <<>>]
    /\ aggs = {} /\ served = {}
    /\ slaves = [f \in Filters |-> {}]
    /\ lost = {} /\ crowded = {}
-----------------------------------------------------------------------------
(* Looking connections up.  Iterating over a set of connections takes any  *)
(* order, the same one each time as long as the set is not changed.        *)
ConnsOf(t) == {c \in conns : about[c].tool = t}
KnownGroup(n) == n = NoGroup \/ groups[n] # 0
InGroup(c, n) == about[c].group = groups[n]
Orders(S) == {s \in [1..Cardinality(S) -> S] : \A i, j \in DOMAIN s : s[i] = s[j] => i = j}
HasFilter(c, f) == f \in ToSet(applied[c])

(* Deletes objects: their connections leave the registry, and that is all. *)
Lose(L) ==
    /\ conns' = conns \ L
    /\ lost' = lost \cup L

LoseTool(t) ==
    /\ tools' = tools \ {t}
    /\ served' = {c \in served : about[c].tool # t}
    /\ Lose(ConnsOf(t))
-----------------------------------------------------------------------------
(* connect_providers, for those of its providers that the tool accepts.    *)
Lists == UNION {[1..k -> providers] : k \in 0..MaxConns}

ConnectEarly(t, ps, n) == \* mutant: the number is taken before it is increased
    LET ids == Len(about)..(Len(about) + Len(ps) - 1) IN
    /\ Len(about) + Len(ps) <= MaxConns
    /\ about' = about \o [i \in DOMAIN ps |-> [tool |-> t, prov |-> ps[i], group |-> groups[n]]]
    /\ conns' = conns \cup ids /\ aggs' = aggs \cup ids /\ served' = served \cup ids
    /\ UNCHANGED <<applied, slaves, lost, crowded>>

Connect(t, ps, n) ==
    LET ids == (Len(about) + 1)..(Len(about) + Len(ps)) IN
    /\ Len(about) + Len(ps) <= MaxConns
    /\ about' = about \o [i \in DOMAIN ps |-> [tool |-> t, prov |-> ps[i], group |-> groups[n]]]
    /\ conns' = conns \cup ids /\ aggs' = aggs \cup ids /\ served' = served \cup ids
    /\ UNCHANGED <<applied, slaves, lost, crowded>>

(* new-<tool>, with or without providers.  With an unknown group, the tool *)
(* is deleted again.                                                       *)
NewTool(t, ps, n) ==
    /\ t \notin tools
    /\ KnownGroup(n) \/ ps = <<>>
    /\ tools' = tools \cup {t}
    /\ Connect(t, ps, n)
    /\ UNCHANGED <<providers, filters, groupVars>>

AddInstrumentation(t, ps, n) ==
    /\ t \in tools
    /\ KnownGroup(n)
    /\ ps # <<>>
    /\ Connect(t, ps, n)
    /\ UNCHANGED <<objVars, groupVars>>

(* An unknown group deletes the tool here, too, whatever it has been       *)
(* connected to before.                                                    *)
AddInstrumentationToUnknownGroup(t, n) ==
    /\ t \in tools
    /\ ~KnownGroup(n) /\ providers # {}
    /\ LoseTool(t)
    /\ UNCHANGED <<providers, filters, groupVars, about, applied, aggs, slaves, crowded>>

(* What tool_connection.delete tells the filters: remove_filter takes the  *)
(* filter out of the list that the loop runs over, which then skips one.   *)
ToldNothing(c) == {} \* mutant: the filters are not informed

Told(c) == {applied[c][i] : i \in {k \in DOMAIN applied[c] : k % 2 = 1}}
Untold(c) == [i \in 1..(Len(applied[c]) \div 2) |-> applied[c][2 * i]]

RemoveAll(S) ==
    /\ conns' = conns \ S
    /\ slaves' = [f \in Filters |-> slaves[f] \ {c \in S : f \in Told(c)}]
    /\ applied' = [c \in Conn |-> IF c \in S THEN Untold(c) ELSE applied[c]]
    /\ aggs' = aggs \ S
    /\ crowded' = crowded \cup {c \in S : Len(applied[c]) > 1}

(* <tool>.remove-instrumentation and remove-instrumentation: by number, by *)
(* providers and group, by tool, or by group.                              *)
Matching(t, P, n) == {c \in ConnsOf(t) : (P = {} \/ about[c].prov \in P) /\ (n = NoGroup \/ InGroup(c, n))}

RemoveInstrumentationQuietly(S) == \* mutant: the tool is not asked to disconnect
    S # {} /\ RemoveAll(S) /\ UNCHANGED <<objVars, groupVars, about, lost, served>>

RemoveInstrumentation(S) ==
    /\ S # {}
    /\ RemoveAll(S)
    /\ served' = served \ S
    /\ UNCHANGED <<objVars, groupVars, about, lost>>

RemoveByTool(t, P, n) ==
    /\ t \in tools
    /\ KnownGroup(n)
    /\ P \subseteq {about[c].prov : c \in ConnsOf(t)}
    /\ n # NoGroup => \E c \in ConnsOf(t) : InGroup(c, n)
    /\ RemoveInstrumentation(Matching(t, P, n))

RemoveByGroup(n) ==
    /\ n # NoGroup /\ KnownGroup(n)
    /\ RemoveInstrumentation({c \in conns : InGroup(c, n)})

(* A provider that is named twice: the second removal of its first         *)
(* connection fails, and the others stay.                                  *)
RemoveByProviderTwice(t, p) ==
    /\ t \in tools
    /\ \E c \in Matching(t, {p}, NoGroup) : RemoveInstrumentation({c})

(* <tool>.delete *)
DeleteTool(t) ==
    /\ t \in tools
    /\ tools' = tools \ {t}
    /\ RemoveAll(ConnsOf(t))
    /\ served' = {c \in served : about[c].tool # t}
    /\ UNCHANGED <<providers, filters, groupVars, about, lost>>
-----------------------------------------------------------------------------
(* attach_filter: for all connections it is meant for, or for none.        *)
Targets(t, f, n) == {c \in ConnsOf(t) : (groups[n] = 0 \/ InGroup(c, n)) /\ ~HasFilter(c, f)}

AddFilter(t, f, n) ==
    /\ t \in tools /\ f \in filters
    /\ KnownGroup(n)
    /\ \A c \in Targets(t, f, n) : <<f, about[c].prov>> \in Accepts
    /\ applied' = [c \in Conn |-> IF c \in Targets(t, f, n) THEN Append(applied[c], f) ELSE applied[c]]
    /\ slaves' = [slaves EXCEPT ![f] = @ \cup Targets(t, f, n)]
    /\ UNCHANGED <<objVars, groupVars, conns, about, aggs, served, lost, crowded>>

(* detach_filter takes the filter from one connection of the tool after    *)
(* the other, until it comes to one that does not have it, and fails.      *)
DetachSlaves(st, order, f) == \* mutant: the filter is told of all connections at once
    LET without == {i \in DOMAIN order : f \notin ToSet(st.applied[order[i]])}
        done == {order[i] : i \in {k \in DOMAIN order : \A j \in without : k < j}} IN
    [applied |-> [c \in Conn |-> IF c \in done THEN RemoveFirst(st.applied[c], f) ELSE st.applied[c]],
     slaves |-> [st.slaves EXCEPT ![f] = @ \ ToSet(order)],
     failed |-> without # {}]

Detach(st, order, f) ==
    LET without == {i \in DOMAIN order : f \notin ToSet(st.applied[order[i]])}
        done == {order[i] : i \in {k \in DOMAIN order : \A j \in without : k < j}} IN
    [applied |-> [c \in Conn |-> IF c \in done THEN RemoveFirst(st.applied[c], f) ELSE st.applied[c]],
     slaves |-> [st.slaves EXCEPT ![f] = @ \ done],
     failed |-> without # {}]

(* remove-filter goes through the connections that match, and detaches     *)
(* what it finds in a copy of the list there from the whole tool.          *)
DetachFound(st, order, c, F) ==
    LET found == st.applied[c]
        walk[i \in 0..Len(found)] ==
          IF i = 0 THEN st
          ELSE IF found[i] \notin F \/ walk[i - 1].failed THEN walk[i - 1]
          ELSE Detach(walk[i - 1], order, found[i]) IN
    walk[Len(found)]

RemoveFilters(t, F, all, n) ==
    /\ t \in tools
    /\ KnownGroup(n)
    /\ \E order \in Orders(ConnsOf(t)) :
         LET sweep[i \in 0..Len(order)] ==
               IF i = 0 THEN [applied |-> applied, slaves |-> slaves, failed |-> FALSE]
               ELSE IF all \/ InGroup(order[i], n) THEN DetachFound(sweep[i - 1], order, order[i], F)
               ELSE sweep[i - 1] IN
         /\ applied' = sweep[Len(order)].applied
         /\ slaves' = sweep[Len(order)].slaves
    /\ UNCHANGED <<objVars, groupVars, conns, about, aggs, served, lost, crowded>>

RemoveFilter(t, f, all) == RemoveFilters(t, {f}, all, NoGroup)
RemoveFilterOfGroup(t, f, n) == n # NoGroup /\ RemoveFilters(t, {f}, FALSE, n)
RemoveEveryFilter(t) == RemoveFilters(t, Filters, TRUE, NoGroup)

(* Without a group it is not refused: the check that a filter, a group or  *)
(* -all was given tests the function filter of Python, which is true.      *)
RemoveEveryFilterOfGroup(t, n) == RemoveFilters(t, Filters, FALSE, n)

(* A filter object that is deleted calls delete_filter. *)
DeleteFilter(f) ==
    /\ f \in filters
    /\ filters' = filters \ {f}
    /\ applied' = [c \in Conn |-> IF c \in conns THEN RemoveFirst(applied[c], f) ELSE applied[c]]
    /\ slaves' = [slaves EXCEPT ![f] = {}]
    /\ UNCHANGED <<tools, providers, groupVars, conns, about, aggs, served, lost, crowded>>
-----------------------------------------------------------------------------
(* add-instrumentation-group and remove-instrumentation-group *)
AddGroup(n) ==
    /\ n # NoGroup
    /\ groups[n] = 0
    /\ nextGroup < MaxGroups
    /\ nextGroup' = nextGroup + 1
    /\ groups' = [groups EXCEPT ![n] = nextGroup']
    /\ UNCHANGED <<objVars, connVars>>

RemoveGroup(n) ==
    /\ groups[n] # 0
    /\ \A c \in conns : ~InGroup(c, n)
    /\ groups' = [groups EXCEPT ![n] = 0]
    /\ UNCHANGED <<objVars, nextGroup, connVars>>

DeleteProviderUnnoticed(p) == \* mutant: only tools and connections are looked at
    /\ Deleting
    /\ p \in providers
    /\ providers' = providers \ {p}
    /\ UNCHANGED <<tools, filters, groupVars, connVars>>

(* _object_deleted *)
DeleteToolObject(t) ==
    /\ Deleting
    /\ t \in tools
    /\ LoseTool(t)
    /\ UNCHANGED <<providers, filters, groupVars, about, applied, aggs, slaves, crowded>>

DeleteProvider(p) ==
    /\ Deleting
    /\ p \in providers
    /\ providers' = providers \ {p}
    /\ Lose({c \in conns : about[c].prov = p})
    /\ UNCHANGED <<tools, filters, groupVars, about, applied, aggs, served, slaves, crowded>>

DeleteConnection(c) ==
    /\ Deleting
    /\ c \in served
    /\ served' = served \ {c}
    /\ Lose(conns \cap {c})
    /\ UNCHANGED <<objVars, groupVars, about, applied, aggs, slaves, crowded>>
-----------------------------------------------------------------------------
Next ==
    \/ \E t \in Tools :
         \/ \E ps \in Lists, n \in Names : NewTool(t, ps, n) \/ AddInstrumentation(t, ps, n)
         \/ \E n \in Names : AddInstrumentationToUnknownGroup(t, n)
         \/ \E P \in SUBSET providers, n \in Names : RemoveByTool(t, P, n)
         \/ \E p \in providers : RemoveByProviderTwice(t, p)
         \/ DeleteTool(t)
         \/ \E f \in Filters, n \in Names : AddFilter(t, f, n) \/ RemoveFilterOfGroup(t, f, n)
         \/ \E f \in Filters, all \in BOOLEAN : RemoveFilter(t, f, all)
         \/ \E n \in Names : RemoveEveryFilterOfGroup(t, n)
         \/ RemoveEveryFilter(t)
         \/ DeleteToolObject(t)
    \/ \E c \in conns : RemoveInstrumentation({c})
    \/ \E n \in Names : RemoveByGroup(n) \/ AddGroup(n) \/ RemoveGroup(n)
    \/ \E f \in Filters : DeleteFilter(f)
    \/ \E p \in Providers : DeleteProvider(p)
    \/ \E c \in Conn : DeleteConnection(c)

Spec == Init /\ [][Next]_vars
-----------------------------------------------------------------------------
(* A registered connection is whole: its tool, provider and aggregator     *)
(* exist, its tool has connected it, and its group has a name.  Whatever   *)
(* is deleted or removed first, no later command meets what is gone.       *)
RegisteredWhole ==
    \A c \in conns :
      /\ about[c].tool \in tools /\ about[c].prov \in providers
      /\ c \in aggs /\ c \in served
      /\ \E n \in Names : InGroup(c, n)

(* Filters and connections agree on who filters whom, once each, also      *)
(* after commands that failed half way, and no filter is gone.             *)
FiltersAgree ==
    \A c \in conns :
      /\ ToSet(applied[c]) \subseteq filters
      /\ \A f \in Filters : HasFilter(c, f) <=> c \in slaves[f]
      /\ \A i, j \in DOMAIN applied[c] : applied[c][i] = applied[c][j] => i = j

(* Only the deletion of an object leaves the rest of a connection behind.  *)
NothingLeft == (aggs \cup served) \ conns \subseteq lost

(* A filter keeps a connection that is gone only if that went with one of  *)
(* its objects, or was removed with several filters.                       *)
FiltersForget == \A f \in Filters : slaves[f] \ conns \subseteq lost \cup crowded

(* All filters are informed that a connection is being removed: none keeps *)
(* an aggregator that has been deleted.                                    *)
NoDeadSlave == \A f \in Filters : slaves[f] \subseteq aggs
=============================================================================
