------------------------------ MODULE ConfigModel ------------------------------
(***************************************************************************)
(* What a configuration must satisfy to be accepted, and which plugins are *)
(* built from it.  A configuration is a record of sequences of named       *)
(* items; a plugin name is a pair, module and suffix, with suffix 1 for    *)
(* the plain module name and n for "module-n".                             *)
(***************************************************************************)
EXTENDS Integers, FiniteSets, SequencesExt, Lists

NamesOf(items) == {items[i].name : i \in DOMAIN items}

\* _unique_names
UniqueNames(items) == \A i, j \in DOMAIN items : items[i].name = items[j].name => i = j

\* _validate_group_cycles: what the search has found, the groups visited or that
\* there is a cycle, and a call of it for a group while others are being visited.
Findings(names) == [visited : SUBSET names, cycle : BOOLEAN]
Calls(names) == [group : names, visiting : SUBSET names, found : Findings(names)]

\* One call; nested stands for the calls it makes.  Finding a cycle ends them all.
Visit(adjacency, nested, call) ==
  LET names == DOMAIN adjacency
      step == [x \in Findings(names) \X names |->
                 nested[[group |-> x[2], visiting |-> call.visiting \cup {call.group}, found |-> x[1]]]]
  IN  IF call.found.cycle THEN call.found
      ELSE IF call.group \in call.visiting THEN [call.found EXCEPT !.cycle = TRUE]
      ELSE IF call.group \in call.found.visited THEN call.found
      ELSE [Folded(step, call.found, adjacency[call.group]) EXCEPT !.visited = @ \cup {call.group}]

\* The depth-first search; depth is the number of groups that are not being
\* visited.  Where it is 0 the call's own group is one of those that are.
Dfs(adjacency) ==
  LET names == DOMAIN adjacency
      dfs[depth \in 0 .. Cardinality(names)] ==
        [call \in Calls(names) |->
           IF depth = 0 THEN [call.found EXCEPT !.cycle = TRUE]
           ELSE Visit(adjacency, dfs[depth - 1], call)]
  IN  dfs[Cardinality(names)]

\* The groups a group refers to; the last one counts where a name is used twice.
Adjacency(groups) ==
  LET names == NamesOf(groups)
      Targets(name) == groups[SelectLastInSeq(groups, LAMBDA g : g.name = name)].targets
  IN  [name \in names |-> Kept(Targets(name), {i \in DOMAIN Targets(name) : Targets(name)[i] \in names})]

Searched(groups) ==
  LET names == NamesOf(groups)
      dfs == Dfs(Adjacency(groups))
      step == [x \in Findings(names) \X Range(groups) |->
                 dfs[[group |-> x[2].name, visiting |-> {}, found |-> x[1]]]]
  IN  Folded(step, [visited |-> {}, cycle |-> FALSE], groups)

\* Mutant of HasCycle: only the first group's references are followed.
HasCycleFromFirst(groups) ==
  Dfs(Adjacency(groups))[[group |-> groups[1].name, visiting |-> {},
                          found |-> [visited |-> {}, cycle |-> FALSE]]].cycle

HasCycle(groups) == Searched(groups).cycle

\* AppConfig.validate_references, for the parts that refer to each other; the names
\* of plugins are checked the same way.
Accepted(cfg) ==
  /\ UniqueNames(cfg.nameservers) /\ UniqueNames(cfg.upstreams)
  /\ UniqueNames(cfg.groups) /\ UniqueNames(cfg.rules)
  /\ cfg.nameservers # <<>> /\ cfg.upstreams # <<>> /\ cfg.groups # <<>>
  /\ cfg.default \in NamesOf(cfg.groups)
  /\ NamesOf(cfg.upstreams) \cap NamesOf(cfg.groups) = {}
  /\ \A u \in Range(cfg.upstreams) : Range(u.nameservers) \subseteq NamesOf(cfg.nameservers)
  /\ \A g \in Range(cfg.groups) :
       Range(g.targets) \subseteq NamesOf(cfg.upstreams) \cup NamesOf(cfg.groups)
  /\ ~HasCycle(cfg.groups)
  /\ \A r \in Range(cfg.rules) : r.group # "" => r.group \in NamesOf(cfg.groups)

\* What it is for: the references between groups are well founded, so that
\* resolving a group ends, and every group comes down to upstreams that exist.
WellFounded(groups) ==
  \A S \in (SUBSET NamesOf(groups)) \ {{}} :
    \E n \in S : \A g \in Range(groups) : g.name = n => Range(g.targets) \cap S = {}
-----------------------------------------------------------------------------
(***************************************************************************)
(* plugin_api                                                              *)
(***************************************************************************)
\* _build_unique_name
FreeName(module, used) ==
  <<module, CHOOSE n \in 1 .. Cardinality(used) + 1 :
      /\ <<module, n>> \notin used
      /\ \A k \in 1 .. n - 1 : <<module, k>> \in used>>

\* materialize_plugin_configs: every shipped module that is not configured is
\* added, switched off, under a name nobody uses.
Materialize(plugins, modules) ==
  LET list[n \in 0 .. Len(modules)] ==
        IF n = 0 THEN plugins
        ELSE IF \E p \in Range(list[n - 1]) : p.module = modules[n] THEN list[n - 1]
        ELSE Append(list[n - 1],
               [name |-> FreeName(modules[n], {p.name : p \in Range(list[n - 1])}),
                module |-> modules[n], enabled |-> FALSE])
  IN  list[Len(modules)]

\* PluginManager.build: the enabled plugins are set up in order; registering an
\* object twice raises.  Registers says what a module's setup registers.
CanBuild(plugins, Registers) ==
  \A i, j \in DOMAIN plugins :
    i # j /\ plugins[i].enabled /\ plugins[j].enabled =>
      Registers[plugins[i].module] \cap Registers[plugins[j].module] = {}
=============================================================================
