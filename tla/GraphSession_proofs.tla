------------------------- MODULE GraphSession_proofs -------------------------
(***************************************************************************)
(* Theorems about the two models of core/graph/monitor.py and its callers: *)
(* GraphSession, for any graph files, classes, worker processes and number *)
(* of runs, and MemoryWatch, for any usages, thresholds and threads.       *)
(***************************************************************************)
EXTENDS GraphSession, MemoryWatch, Orders_proofs, SequenceTheorems

\* The nodes and the writer of a run are those of its graph file, and the pool
\* of a parallel run was made for them, or for equal ones.
NodesInv ==
  phase # "idle" =>
    /\ \A i \in DOMAIN config.order : Known(config.order[i])
    /\ graph = NodesOf(config.order).graph /\ wnode = NodesOf(config.order).wnode
    /\ parallel => pool.args = Serialized(graph) /\ (pool.broken => died)

\* A worker process holds the chain its pool was made for.
ChainInv ==
  \A w \in Workers : chain[w] = None \/ chain[w] = InitWorker(pool.args)

SessionInv == TypeOK /\ NodesInv /\ ChainInv

-----------------------------------------------------------------------------
(* The nodes of a graph file.                                              *)

LEMMA CfgFacts ==
  ASSUME NEW cfg \in Cfgs
  PROVE  /\ Serializable(BuildCfg(cfg)) = cfg
         /\ BuildCfg(Serializable(BuildCfg(cfg))) = BuildCfg(cfg)
  BY ConfigsAssumption DEF Serializable, BuildCfg, Build

LEMMA KnownFacts ==
  ASSUME NEW cfg \in Cfgs, Known(cfg)
  PROVE  /\ BuildCfg(cfg) \in Nodes
         /\ IsWriter(BuildCfg(cfg)) <=> WritesByClass(cfg)
         /\ LayeredParams(BuildCfg(cfg))
<1> DEFINE node == BuildCfg(cfg)
           c == cfg[1]
<1>1. c \in Classes
  BY DEF Known, CanBuild, Registered
<1>2. /\ node.p = Params(c, cfg[2]) /\ node.type = c /\ node.params = cfg[2]
  BY DEF BuildCfg, Build
<1>3. /\ DOMAIN RootPairs = DOMAIN RootOwn
      /\ \A k \in DOMAIN RootOwn : RootPairs[k] = RootOwn[k]
  BY DEF RootPairs, Derive, Update, NoParams
<1>4. /\ DOMAIN Pairs(c) = DOMAIN RootOwn \cup DOMAIN Own[c]
      /\ \A k \in DOMAIN Pairs(c) :
           Pairs(c)[k] = IF k \in DOMAIN Own[c] THEN Own[c][k] ELSE RootOwn[k]
  BY <1>3 DEF Pairs, Derive, Update
<1>5. /\ DOMAIN node.p = DOMAIN Pairs(c)
      /\ \A k \in DOMAIN node.p :
           node.p[k] = IF k \in DOMAIN cfg[2] THEN cfg[2][k] ELSE Pairs(c)[k]
  BY <1>2 DEF Params
<1> HIDE DEF node, c
<1>6. LayeredParams(node)
  BY <1>2, <1>4, <1>5 DEF LayeredParams
<1>7. IsWriter(node) <=> WritesByClass(cfg)
  <2>1. "is_writer" \in DOMAIN node.p /\ "is_writer" \notin DOMAIN cfg[2]
    BY <1>4, <1>5, ConfigsAssumption, WritersAssumption
  <2>2. node.p["is_writer"] =
          IF "is_writer" \in DOMAIN Own[c] THEN Own[c]["is_writer"]
                                           ELSE RootOwn["is_writer"]
    BY <1>4, <1>5, <2>1
  <2> QED  BY <1>1, <2>2, WritersAssumption DEF IsWriter, WritesByClass, c
<1>8. node \in Nodes
  BY DEF Nodes, node
<1> QED  BY <1>6, <1>7, <1>8 DEF node

\* The elements of a sequence at the places of I, in order, and their images.
LEMMA PickedFacts ==
  ASSUME NEW S, NEW s \in Seq(S), NEW I \in SUBSET DOMAIN s
  PROVE  LET picked == [k \in DOMAIN Ascending(I) |-> s[Ascending(I)[k]]] IN
         /\ picked \in Seq(S) /\ DOMAIN picked = DOMAIN Ascending(I)
         /\ \A k \in DOMAIN picked : Ascending(I)[k] \in I
<1>1. DOMAIN s = 1 .. Len(s) /\ Len(s) \in Nat
  OBVIOUS
<1>2. I \in SUBSET (1 .. Len(s))
  BY <1>1
<1>3. Cardinality(I) \in Nat /\ Ascending(I) \in [1 .. Cardinality(I) -> I]
  BY <1>1, <1>2, AscendingFacts
<1>4. DOMAIN Ascending(I) = 1 .. Cardinality(I)
  BY <1>3
<1> DEFINE picked == [k \in 1 .. Cardinality(I) |-> s[Ascending(I)[k]]]
<1>5. \A k \in 1 .. Cardinality(I) : Ascending(I)[k] \in I /\ s[Ascending(I)[k]] \in S
  BY <1>1, <1>3
<1>6. picked \in [1 .. Cardinality(I) -> S]
  BY <1>5
<1> HIDE DEF picked
<1>7. picked \in Seq(S)
  BY ONLY <1>3, <1>6, FunctionIsSeq
<1> QED  BY <1>4, <1>5, <1>7 DEF picked

\* The nodes _build_graph makes of an order whose nodes are all known.
LEMMA NodesOfFacts ==
  ASSUME NEW order \in Seq(Cfgs), \A i \in DOMAIN order : Known(order[i])
  PROVE  LET nodes == NodesOf(order).graph
             writer == NodesOf(order).wnode
             written == Select(order, WritesByClass)
         IN  /\ nodes \in Seq(Nodes)
             /\ Serialized(nodes) = Select(order, ReadsByClass)
             /\ Serialized(nodes) \in Seq(Cfgs)
             /\ \A i \in DOMAIN nodes : LayeredParams(nodes[i])
             /\ \A i \in DOMAIN nodes :
                  /\ Known(Serializable(nodes[i]))
                  /\ BuildCfg(Serializable(nodes[i])) = nodes[i]
             /\ IF written = <<>> THEN writer = None
                ELSE /\ writer \in Nodes
                     /\ Serializable(writer) = Last(written) /\ LayeredParams(writer)
<1> DEFINE built == [i \in DOMAIN order |-> BuildCfg(order[i])]
           R == {i \in DOMAIN order : ReadsByClass(order[i])}
           W == {i \in DOMAIN order : WritesByClass(order[i])}
           r == Ascending(R)
           w == Ascending(W)
           nodes == [k \in DOMAIN r |-> built[r[k]]]
           writers == [k \in DOMAIN w |-> built[w[k]]]
<1>1. DOMAIN order = 1 .. Len(order) /\ Len(order) \in Nat
  OBVIOUS
<1>2. \A i \in DOMAIN order :
        /\ order[i] \in Cfgs /\ Known(order[i])
        /\ built[i] = BuildCfg(order[i]) /\ built[i] \in Nodes
        /\ IsWriter(built[i]) <=> WritesByClass(order[i])
        /\ LayeredParams(built[i]) /\ Serializable(built[i]) = order[i]
        /\ BuildCfg(Serializable(built[i])) = built[i]
  <2> SUFFICES ASSUME NEW i \in DOMAIN order
               PROVE  /\ order[i] \in Cfgs /\ BuildCfg(order[i]) \in Nodes
                      /\ IsWriter(BuildCfg(order[i])) <=> WritesByClass(order[i])
                      /\ LayeredParams(BuildCfg(order[i]))
                      /\ Serializable(BuildCfg(order[i])) = order[i]
                      /\ BuildCfg(Serializable(BuildCfg(order[i]))) = BuildCfg(order[i])
    OBVIOUS
  <2>1. order[i] \in Cfgs /\ Known(order[i])
    BY <1>1
  <2> QED  BY <2>1, CfgFacts, KnownFacts
<1>3. built \in Seq(Nodes) /\ DOMAIN built = DOMAIN order
  <2>1. built \in [1 .. Len(order) -> Nodes]
    BY <1>1, <1>2
  <2> QED  BY <1>1, <2>1
<1>4. {i \in DOMAIN built : Plain(built[i])} = R
  BY <1>2, <1>3 DEF Plain, ReadsByClass
<1>5. {i \in DOMAIN built : IsWriter(built[i])} = W
  BY <1>2, <1>3
<1> HIDE DEF built
<1>6. Select(built, Plain) = nodes /\ Select(built, IsWriter) = writers
  BY <1>4, <1>5 DEF Select
<1>7. /\ Select(order, ReadsByClass) = [k \in DOMAIN r |-> order[r[k]]]
      /\ Select(order, WritesByClass) = [k \in DOMAIN w |-> order[w[k]]]
  BY DEF Select
<1>8. /\ nodes \in Seq(Nodes) /\ DOMAIN nodes = DOMAIN r
      /\ \A k \in DOMAIN r : r[k] \in R
  <2>1. R \in SUBSET DOMAIN built
    BY <1>3
  <2> QED  BY <1>3, <2>1, PickedFacts
<1>9. /\ writers \in Seq(Nodes) /\ DOMAIN writers = DOMAIN w
      /\ \A k \in DOMAIN w : w[k] \in W
  <2>1. W \in SUBSET DOMAIN built
    BY <1>3
  <2> QED  BY <1>3, <2>1, PickedFacts
<1>10. /\ [k \in DOMAIN r |-> order[r[k]]] \in Seq(Cfgs)
       /\ [k \in DOMAIN w |-> order[w[k]]] \in Seq(Cfgs)
  BY PickedFacts
<1>11. \A k \in DOMAIN r : nodes[k] = built[r[k]] /\ r[k] \in DOMAIN order
  BY <1>8
<1>12. \A k \in DOMAIN w : writers[k] = built[w[k]] /\ w[k] \in DOMAIN order
  BY <1>9
<1> HIDE DEF nodes, writers, r, w
<1>13. NodesOf(order).graph = nodes
  <2>1. NodesOf(order).graph = <<>> \o Select(built, Plain)
    BY DEF NodesOf, ResetNodes, built
  <2> QED  BY <1>6, <1>8, <2>1, ConcatEmptySeq
<1>14. NodesOf(order).wnode = IF writers = <<>> THEN None ELSE Last(writers)
  BY <1>6 DEF NodesOf, ResetNodes, built
<1>15. Serialized(nodes) = Select(order, ReadsByClass)
  <2>1. \A k \in DOMAIN r : Serializable(nodes[k]) = order[r[k]]
    BY <1>2, <1>11
  <2>2. Serialized(nodes) = [k \in DOMAIN r |-> Serializable(nodes[k])]
    BY <1>8 DEF Serialized
  <2>3. Serialized(nodes) = [k \in DOMAIN r |-> order[r[k]]]
    BY <2>1, <2>2
  <2> QED  BY <1>7, <2>3
<1>16. Serialized(nodes) \in Seq(Cfgs)
  BY <1>7, <1>10, <1>15
<1>17. \A i \in DOMAIN nodes :
         /\ LayeredParams(nodes[i]) /\ Known(Serializable(nodes[i]))
         /\ BuildCfg(Serializable(nodes[i])) = nodes[i]
  BY <1>2, <1>8, <1>11
<1>18. IF Select(order, WritesByClass) = <<>> THEN NodesOf(order).wnode = None
       ELSE /\ NodesOf(order).wnode \in Nodes
            /\ Serializable(NodesOf(order).wnode) = Last(Select(order, WritesByClass))
            /\ LayeredParams(NodesOf(order).wnode)
  <2> DEFINE written == [k \in DOMAIN w |-> order[w[k]]]
  <2>1. Len(written) = Len(writers) /\ DOMAIN written = DOMAIN w /\ Len(writers) \in Nat
    BY <1>9, <1>10
  <2>2. CASE DOMAIN w = {}
    <3>1. writers = <<>> /\ written = <<>>
      BY <1>9, <1>10, <2>2
    <3> QED  BY <1>7, <1>14, <3>1
  <2>3. CASE DOMAIN w # {}
    <3>1. writers # <<>> /\ written # <<>>
      BY <1>9, <2>1, <2>3
    <3>2. Len(writers) \in DOMAIN w
      BY <1>9, <3>1, EmptySeq
    <3>3. Last(writers) = writers[Len(writers)] /\ Last(written) = written[Len(writers)]
      BY <2>1 DEF Last
    <3>4. written[Len(writers)] = order[w[Len(writers)]]
      BY <3>2
    <3>5. NodesOf(order).wnode = built[w[Len(writers)]]
      BY <1>12, <1>14, <3>1, <3>2, <3>3
    <3> QED  BY <1>2, <1>7, <1>12, <3>1, <3>2, <3>3, <3>4, <3>5
  <2> QED  BY <2>2, <2>3
<1> QED  BY <1>8, <1>13, <1>15, <1>16, <1>17, <1>18

\* A worker process rebuilds exactly the nodes that were sent to it.
LEMMA WorkerHasNodes ==
  ASSUME NEW nodes \in Seq(Nodes),
         \A i \in DOMAIN nodes : /\ Known(Serializable(nodes[i]))
                                 /\ BuildCfg(Serializable(nodes[i])) = nodes[i]
  PROVE  InitWorker(Serialized(nodes)) = nodes
<1> DEFINE n == Len(nodes)
           cfgs == Serialized(nodes)
           all == {i \in DOMAIN cfgs : Known(cfgs[i])}
<1>1. n \in Nat /\ DOMAIN nodes = 1 .. n
  OBVIOUS
<1>2. DOMAIN cfgs = 1 .. n /\ \A i \in 1 .. n : cfgs[i] = Serializable(nodes[i])
  BY <1>1 DEF Serialized
<1> HIDE DEF cfgs
<1>3. all = 1 .. n
  BY <1>1, <1>2
<1>4. Ascending(all) = [i \in 1 .. n |-> i]
  BY <1>1, <1>3, IdentityAscending
<1>5. Select(cfgs, Known) = [k \in 1 .. n |-> cfgs[k]]
  BY <1>4 DEF Select
<1>6. InitWorker(cfgs) = [i \in 1 .. n |-> BuildCfg(cfgs[i])]
  BY <1>5 DEF InitWorker
<1>7. InitWorker(cfgs) = [i \in 1 .. n |-> nodes[i]]
  BY <1>1, <1>2, <1>6
<1> QED  BY <1>1, <1>7 DEF cfgs

\* _build_graph goes through only when it can build every node.
LEMMA BuiltFacts ==
  ASSUME NEW g \in Configs
  PROVE  /\ g.order \in Seq(Cfgs) /\ Built(g) \in Seq(Cfgs)
         /\ \A i \in DOMAIN Built(g) : Known(Built(g)[i])
<1>1. g.order \in Seq(Cfgs) /\ g.dag \in BOOLEAN
  BY ConfigsAssumption
<1> DEFINE s == g.order
           I == {i \in 1 .. Len(s) : Unknown(s[i])}
<1>2. Len(s) \in Nat /\ DOMAIN s = 1 .. Len(s)
  BY <1>1
<1>3. CASE ~ g.dag
  BY <1>1, <1>3 DEF Built
<1>4. CASE g.dag /\ I = {}
  <2>1. SelectInSeq(s, Unknown) = 0
    BY <1>4 DEF SelectInSeq
  <2> QED  BY <1>1, <1>2, <1>4, <2>1 DEF Built, Unknown
<1>5. CASE g.dag /\ I # {}
  <2>1. PICK m \in I : \A k \in I : m <= k
    <3>1. I \in SUBSET Nat
      BY <1>2
    <3> QED  BY <1>5, <3>1, LeastExists
  <2>2. Min(I) \in I /\ \A k \in I : Min(I) <= k
    BY <2>1 DEF Min
  <2>3. SelectInSeq(s, Unknown) = Min(I)
    BY <1>5 DEF SelectInSeq
  <2>4. PICK b \in 1 .. Len(s) : b = Min(I)
    BY <2>2
  <2>5. \A k \in 1 .. b - 1 : k \in 1 .. Len(s) /\ k \notin I
    BY <1>2, <2>2, <2>4
  <2>6. Built(g) = SubSeq(s, 1, b - 1)
    <3>1. g.dag /\ b # 0
      BY <1>2, <1>5, <2>4
    <3>2. SelectInSeq(g.order, Unknown) = b
      BY <2>3, <2>4
    <3> QED  BY <3>1, <3>2, Zenon DEF Built
  <2>7. \A k \in 1 .. b - 1 : s[k] \in Cfgs
    BY <1>1, <2>5
  <2>8. /\ SubSeq(s, 1, b - 1) \in Seq(Cfgs) /\ b - 1 \in Nat
        /\ Len(SubSeq(s, 1, b - 1)) = b - 1
        /\ \A k \in 1 .. b - 1 : SubSeq(s, 1, b - 1)[k] = s[k]
    BY <1>1, <1>2, <2>7
  <2>9. DOMAIN SubSeq(s, 1, b - 1) = 1 .. b - 1
    BY <2>8
  <2> QED  BY <1>1, <2>5, <2>6, <2>8, <2>9 DEF Unknown
<1> QED  BY <1>1, <1>3, <1>4, <1>5

-----------------------------------------------------------------------------
(* The invariant of the session.                                           *)

LEMMA SessionInit == Init => SessionInv
<1> SUFFICES ASSUME Init PROVE SessionInv
  OBVIOUS
<1>1. /\ phase \in {"idle", "running", "stopping"} /\ runs \in 0 .. MaxRuns
      /\ config \in Configs /\ parallel \in BOOLEAN /\ graph \in Seq(Nodes)
      /\ wnode \in Nodes \cup {None} /\ died \in BOOLEAN /\ gcEvent \in BOOLEAN
  <2>1. runs \in 0 .. MaxRuns
    BY RunsAssumption DEF Init
  <2>2. graph = <<>>
    BY DEF Init
  <2>3. graph \in Seq(Nodes)
    BY <2>2
  <2> QED  BY <2>1, <2>3 DEF Init
<1>2. pool \in [args : Seq(Cfgs) \cup {None}, broken : BOOLEAN]
  BY DEF Init, NewPool
<1>3. chain \in [Workers -> Seq(Nodes) \cup {None}] /\ mon \in MonState
  BY DEF Init, NoChains, MonState
<1>4. gcThreads \in Seq(BOOLEAN) /\ Len(gcThreads) <= MaxThreads
  <2>1. gcThreads = <<>>
    BY DEF Init
  <2>2. Len(gcThreads) = 0 /\ gcThreads \in Seq(BOOLEAN)
    BY <2>1
  <2> QED  BY <2>2, RunsAssumption
<1>5. TypeOK
  BY <1>1, <1>2, <1>3, <1>4 DEF TypeOK
<1> QED  BY <1>5 DEF Init, SessionInv, NodesInv, ChainInv, NoChains

LEMMA ExecuteStep ==
  ASSUME SessionInv, NEW g \in Configs, NEW p \in BOOLEAN, Execute(g, p)
  PROVE  SessionInv'
<1> DEFINE new == NodesOf(Built(g))
<1>1. /\ phase = "idle" /\ runs < MaxRuns /\ runs' = runs + 1
      /\ config' = g /\ parallel' = p /\ graph' = new.graph /\ wnode' = new.wnode
      /\ died' = FALSE /\ UNCHANGED <<gcEvent, gcThreads>>
  BY DEF Execute
<1>2. /\ g.order \in Seq(Cfgs) /\ Built(g) \in Seq(Cfgs)
      /\ \A i \in DOMAIN Built(g) : Known(Built(g)[i])
  BY BuiltFacts
<1>3. /\ new.graph \in Seq(Nodes) /\ Serialized(new.graph) \in Seq(Cfgs)
      /\ new.wnode \in Nodes \cup {None}
  BY <1>2, NodesOfFacts
<1> HIDE DEF new
<1>4. TypeOK /\ ChainInv
  BY DEF SessionInv
<1>5. /\ runs' \in 0 .. MaxRuns /\ config' \in Configs /\ parallel' \in BOOLEAN
      /\ graph' \in Seq(Nodes) /\ wnode' \in Nodes \cup {None} /\ died' \in BOOLEAN
      /\ gcEvent' \in BOOLEAN /\ gcThreads' \in Seq(BOOLEAN)
      /\ Len(gcThreads') <= MaxThreads
  <2>1. runs' \in 0 .. MaxRuns
    BY <1>1, <1>4, RunsAssumption DEF TypeOK
  <2>2. config' \in Configs /\ parallel' \in BOOLEAN /\ died' \in BOOLEAN
    BY <1>1
  <2>3. graph' \in Seq(Nodes) /\ wnode' \in Nodes \cup {None}
    BY <1>1, <1>3
  <2>4. /\ gcEvent' \in BOOLEAN /\ gcThreads' \in Seq(BOOLEAN)
        /\ Len(gcThreads') <= MaxThreads
    BY <1>1, <1>4 DEF TypeOK
  <2> QED  BY <2>1, <2>2, <2>3, <2>4
<1>6. CASE BuildRaises(g)
  <2>1. UNCHANGED <<phase, mon, pool, chain>>
    BY <1>6 DEF Execute
  <2> QED  BY <1>1, <1>4, <1>5, <2>1 DEF SessionInv, TypeOK, NodesInv, ChainInv
<1>7. CASE ~ BuildRaises(g)
  <2>1. /\ phase' = "running" /\ mon' = "start"
        /\ p => TakePool(Serialized(new.graph))
        /\ ~p => UNCHANGED <<pool, chain>>
    BY <1>7 DEF Execute, new
  <2>2. Built(g) = g.order
    BY <1>7 DEF BuildRaises
  <2>3. /\ pool' \in [args : Seq(Cfgs) \cup {None}, broken : BOOLEAN]
        /\ chain' \in [Workers -> Seq(Nodes) \cup {None}]
        /\ ChainInv'
        /\ p => pool'.args = Serialized(new.graph) /\ ~ pool'.broken
    <3>1. CASE p /\ ~ Reusable(Serialized(new.graph))
      <4>1. pool' = NewPool(Serialized(new.graph)) /\ chain' = NoChains
        BY <2>1, <3>1 DEF TakePool
      <4>2. pool'.args = Serialized(new.graph) /\ pool'.broken = FALSE
        BY <4>1 DEF NewPool
      <4>3. pool' \in [args : Seq(Cfgs) \cup {None}, broken : BOOLEAN]
        BY <1>3, <4>1 DEF NewPool
      <4>4. chain' \in [Workers -> Seq(Nodes) \cup {None}] /\ ChainInv'
        BY <4>1 DEF NoChains, ChainInv
      <4> QED  BY <4>2, <4>3, <4>4
    <3>2. CASE p /\ Reusable(Serialized(new.graph))
      BY <1>4, <2>1, <3>2 DEF TakePool, Reusable, TypeOK, ChainInv
    <3>3. CASE ~p
      BY <1>4, <2>1, <3>3 DEF TypeOK, ChainInv
    <3> QED  BY <3>1, <3>2, <3>3
  <2>4. TypeOK'
    BY <1>5, <2>1, <2>3 DEF TypeOK, MonState
  <2>5. NodesInv'
    BY <1>1, <1>2, <2>1, <2>2, <2>3 DEF NodesInv, new
  <2> QED  BY <2>3, <2>4, <2>5 DEF SessionInv
<1> QED  BY <1>6, <1>7

LEMMA StartWorkerStep ==
  ASSUME SessionInv, NEW w \in Workers, StartWorker(w)
  PROVE  SessionInv'
<1>1. /\ pool.args # None /\ chain' = [chain EXCEPT ![w] = InitWorker(pool.args)]
      /\ UNCHANGED <<phase, runs, config, parallel, graph, wnode, pool, died>>
      /\ UNCHANGED <<gcEvent, mon, gcThreads>>
  BY DEF StartWorker, nodeVars, gcVars
<1>2. TypeOK /\ NodesInv /\ ChainInv
  BY DEF SessionInv
<1>3. InitWorker(pool.args) \in Seq(Nodes)
  <2> DEFINE cfgs == pool.args
             I == {i \in DOMAIN cfgs : Known(cfgs[i])}
             known == [k \in DOMAIN Ascending(I) |-> cfgs[Ascending(I)[k]]]
  <2>1. cfgs \in Seq(Cfgs)
    BY <1>1, <1>2 DEF TypeOK
  <2>2. I \in SUBSET DOMAIN cfgs
    OBVIOUS
  <2>3. known \in Seq(Cfgs) /\ \A k \in DOMAIN known : Known(known[k])
    <3> HIDE DEF cfgs
    <3>1. /\ known \in Seq(Cfgs) /\ DOMAIN known = DOMAIN Ascending(I)
          /\ \A k \in DOMAIN known : Ascending(I)[k] \in I
      <4> HIDE DEF I
      <4> QED  BY <2>1, <2>2, PickedFacts
    <3>2. \A k \in DOMAIN Ascending(I) : known[k] = cfgs[Ascending(I)[k]]
      OBVIOUS
    <3>3. \A x \in I : Known(cfgs[x])
      OBVIOUS
    <3> HIDE DEF I, known
    <3> QED  BY <3>1, <3>2, <3>3
  <2>4. InitWorker(cfgs) = [i \in DOMAIN known |-> BuildCfg(known[i])]
    BY DEF InitWorker, Select
  <2> HIDE DEF known, cfgs
  <2>5. DOMAIN known = 1 .. Len(known) /\ Len(known) \in Nat
    BY <2>3
  <2>6. \A i \in 1 .. Len(known) : BuildCfg(known[i]) \in Nodes
    BY <2>3, <2>5, KnownFacts
  <2>7. [i \in 1 .. Len(known) |-> BuildCfg(known[i])] \in [1 .. Len(known) -> Nodes]
    BY <2>6
  <2>8. InitWorker(cfgs) \in Seq(Nodes)
    BY <2>4, <2>5, <2>7
  <2> QED  BY <2>8 DEF cfgs
<1>4. TypeOK'
  BY <1>1, <1>2, <1>3 DEF TypeOK
<1>5. ChainInv'
  BY <1>1, <1>2 DEF ChainInv, TypeOK
<1>6. NodesInv'
  BY <1>1, <1>2 DEF NodesInv
<1> QED  BY <1>4, <1>5, <1>6 DEF SessionInv

LEMMA WorkerDiesStep ==
  ASSUME SessionInv, WorkerDies
  PROVE  SessionInv'
<1>1. /\ pool' = [pool EXCEPT !.broken = TRUE] /\ chain' = NoChains /\ died' = TRUE
      /\ UNCHANGED <<phase, runs, config, parallel, graph, wnode>>
      /\ UNCHANGED <<gcEvent, mon, gcThreads>>
  BY DEF WorkerDies, nodeVars, gcVars
<1>2. pool'.args = pool.args
  BY <1>1 DEF SessionInv, TypeOK
<1>3. TypeOK'
  BY <1>1 DEF SessionInv, TypeOK, NoChains
<1> QED  BY <1>1, <1>2, <1>3 DEF SessionInv, NodesInv, ChainInv, NoChains

LEMMA OtherSessionStep ==
  ASSUME SessionInv,
         \/ StopMonitor \/ Return \/ CancelAll
         \/ MonitorLooks \/ MonitorChecks \/ Collected \/ UNCHANGED vars
  PROVE  SessionInv'
<1>1. /\ UNCHANGED <<runs, config, parallel, graph, wnode, pool, chain, died>>
      /\ phase' # "idle" => phase # "idle"
      /\ phase' \in {"idle", "running", "stopping"}
  BY DEF StopMonitor, Return, CancelAll, MonitorLooks, MonitorChecks, Collected,
         vars, nodeVars, poolVars, SessionInv, TypeOK
<1>2. gcEvent' \in BOOLEAN /\ mon' \in MonState
  BY DEF StopMonitor, Return, CancelAll, MonitorLooks, MonitorChecks, Collected,
         vars, gcVars, SessionInv, TypeOK, MonState, MonitorOver
<1>3. gcThreads' \in Seq(BOOLEAN) /\ Len(gcThreads') <= MaxThreads
  <2>1. gcThreads \in Seq(BOOLEAN) /\ Len(gcThreads) <= MaxThreads
    BY DEF SessionInv, TypeOK
  <2>2. CASE UNCHANGED gcThreads
    BY <2>1, <2>2
  <2>3. CASE gcThreads' = <<>>
    BY <2>3, RunsAssumption
  <2>4. CASE Len(gcThreads) < MaxThreads /\ gcThreads' = Append(gcThreads, TRUE)
    BY <2>1, <2>4, RunsAssumption
  <2>5. CASE \E k \in DOMAIN gcThreads : gcThreads' = [gcThreads EXCEPT ![k] = FALSE]
    BY <2>1, <2>5
  <2> QED
    BY <2>2, <2>3, <2>4, <2>5
    DEF StopMonitor, Return, CancelAll, MonitorLooks, MonitorChecks, Collected,
        vars, gcVars
<1>4. TypeOK'
  BY <1>1, <1>2, <1>3 DEF SessionInv, TypeOK
<1> QED  BY <1>1, <1>4 DEF SessionInv, NodesInv, ChainInv

LEMMA SessionInductive == Spec => []SessionInv
<1>1. SessionInv /\ [Next]_vars => SessionInv'
  BY ExecuteStep, StartWorkerStep, WorkerDiesStep, OtherSessionStep DEF Next, AllDone
<1> QED  BY <1>1, SessionInit, PTL DEF Spec

-----------------------------------------------------------------------------
(* The theorems about the session.                                         *)

(* The list of collecting threads stays within its bound, and the graph,   *)
(* the pool and the chains hold nodes that can be built (to_graph.py:33).  *)
THEOREM TypeCorrect == Spec => []TypeOK
<1>1. SessionInv => TypeOK
  BY DEF SessionInv
<1> QED  BY <1>1, SessionInductive, PTL

(* A run uses the nodes of its own graph file, all of them and in its      *)
(* order, with parameters from the file, the class or Node, whatever ran   *)
(* before it in the singleton (to_graph.py:64-98, meta.py:100-297).        *)
THEOREM RunsOwnNodes == Spec => []OnlyItsOwnNodes
<1>1. SessionInv => OnlyItsOwnNodes
  <2> SUFFICES ASSUME SessionInv, phase # "idle"
               PROVE  /\ Serialized(graph) = Select(config.order, ReadsByClass)
                      /\ \A i \in DOMAIN graph : LayeredParams(graph[i])
                      /\ LET written == Select(config.order, WritesByClass)
                         IN  IF written = <<>> THEN wnode = None
                             ELSE /\ Serializable(wnode) = Last(written)
                                  /\ LayeredParams(wnode)
    BY DEF OnlyItsOwnNodes
  <2>1. /\ config.order \in Seq(Cfgs)
        /\ \A i \in DOMAIN config.order : Known(config.order[i])
        /\ graph = NodesOf(config.order).graph /\ wnode = NodesOf(config.order).wnode
    BY ConfigsAssumption DEF SessionInv, TypeOK, NodesInv
  <2> QED  BY <2>1, NodesOfFacts
<1> QED  BY <1>1, SessionInductive, PTL

(* A parallel run finds in the pool only processes with its own chain, and *)
(* no damage but what was done since it began (to_graph.py:129-136,        *)
(* serialize.py:30-43).                                                    *)
THEOREM PoolOfTheRun == Spec => []PoolFitsRun
<1>1. SessionInv => PoolFitsRun
  <2> SUFFICES ASSUME SessionInv, phase # "idle", parallel
               PROVE  /\ \A w \in Workers : chain[w] \in {None, graph}
                      /\ pool.broken => died
    BY DEF PoolFitsRun
  <2>1. /\ config.order \in Seq(Cfgs)
        /\ \A i \in DOMAIN config.order : Known(config.order[i])
        /\ graph = NodesOf(config.order).graph
        /\ pool.args = Serialized(graph) /\ (pool.broken => died)
    BY ConfigsAssumption DEF SessionInv, TypeOK, NodesInv
  <2>2. /\ graph \in Seq(Nodes)
        /\ \A i \in DOMAIN graph : /\ Known(Serializable(graph[i]))
                                   /\ BuildCfg(Serializable(graph[i])) = graph[i]
    BY <2>1, NodesOfFacts
  <2>3. InitWorker(pool.args) = graph
    BY <2>1, <2>2, WorkerHasNodes
  <2> QED  BY <2>1, <2>3 DEF SessionInv, ChainInv
<1> QED  BY <1>1, SessionInductive, PTL

-----------------------------------------------------------------------------
(* MemoryWatch: the invariant.                                             *)

Trimming == {l \in Loops : loop[l] = "trim"}
Sending(k) == IF k = "warning" THEN "warning!" ELSE "critical!"

\* A snapshot beyond those kept belongs to a loop that is about to trim.
SnapInv == snapshots \in Nat /\ snapshots <= Keep + Cardinality(Trimming)

\* Threads are numbered as they start, and joined when there is one.
StartInv ==
  /\ \A l \in Loops : l > thread => loop[l] = "none"
  /\ owner = "joining" => ~monitoring /\ thread # 0

\* While every stop has seen its loop end, only the last one started lives,
\* and none once the owner is done stopping.
OneInv ==
  ~timedOut =>
    /\ \A l \in Live : l = thread
    /\ ~monitoring /\ owner = "idle" => Live = {}

\* An alert that was sent is noted, and one about to be sent is not.
AlertInv ==
  ~timedOut =>
    /\ \A k \in Kinds : sent[k] = 0 \/ (sent[k] = 1 /\ k \in alerts)
    /\ \A l \in Loops : \A k \in Kinds : loop[l] = Sending(k) => k \notin alerts

WatchInv == WatchOK /\ SnapInv /\ StartInv /\ OneInv /\ AlertInv

-----------------------------------------------------------------------------
(* Sets of loops.                                                          *)

LEMMA LoopsFinite ==
  ASSUME NEW S \in SUBSET Loops
  PROVE  IsFiniteSet(S) /\ Cardinality(S) \in Nat
<1>1. IsFiniteSet(Loops)
  BY BoundsAssumption, FS_Interval DEF Loops
<1> QED  BY <1>1, FS_Subset, FS_CardinalityType

LEMMA SubsetSmaller ==
  ASSUME NEW S \in SUBSET Loops, NEW T \in SUBSET S
  PROVE  Cardinality(T) <= Cardinality(S)
  BY LoopsFinite, FS_Subset

(* Every loop that trims is alive, so SnapInv bounds the snapshots.        *)
LEMMA SnapshotsBounded ==
  ASSUME SnapInv
  PROVE  snapshots \in 0 .. Keep + Cardinality(Live)
<1>1. Live \in SUBSET Loops /\ Trimming \in SUBSET Live
  BY DEF Live, Trimming
<1>2. /\ Cardinality(Trimming) <= Cardinality(Live)
      /\ Cardinality(Trimming) \in Nat /\ Cardinality(Live) \in Nat
  BY <1>1, SubsetSmaller, LoopsFinite
<1> QED  BY <1>2, BoundsAssumption DEF SnapInv

(* The types, the bound on the snapshots aside.                            *)
Typed ==
  /\ usage \in Usages
  /\ monitoring \in BOOLEAN /\ timedOut \in BOOLEAN
  /\ thread \in 0 .. MaxStarts
  /\ owner \in {"idle", "joining"}
  /\ loop \in [Loops -> LoopState]
  /\ seen \in [Loops -> Usages]
  /\ alerts \subseteq Kinds
  /\ sent \in [Kinds -> 0 .. 2]

LEMMA TypedIsEnough ==
  (Typed /\ SnapInv => WatchOK) /\ (Typed' /\ SnapInv' => WatchOK')
<1>1. Typed /\ SnapInv => WatchOK
  BY SnapshotsBounded DEF Typed, WatchOK
<1>2. (Typed /\ SnapInv => WatchOK)'
  BY <1>1, PTL
<1> QED  BY <1>1, <1>2

-----------------------------------------------------------------------------
LEMMA WatchInitInv == WatchInit => WatchInv
<1> SUFFICES ASSUME WatchInit PROVE WatchInv
  OBVIOUS
<1>1. Live = {} /\ Trimming = {} /\ Cardinality(Trimming) = 0
  BY FS_EmptySet DEF WatchInit, Live, Trimming
<1>2. SnapInv
  BY <1>1, BoundsAssumption DEF WatchInit, SnapInv
<1>3. Typed
  <2>1. thread \in 0 .. MaxStarts /\ sent \in [Kinds -> 0 .. 2]
    BY BoundsAssumption DEF WatchInit
  <2>2. loop \in [Loops -> LoopState] /\ seen \in [Loops -> Usages]
    BY DEF WatchInit, LoopState
  <2> QED  BY <2>1, <2>2 DEF WatchInit, Typed
<1>4. StartInv /\ OneInv
  BY <1>1 DEF WatchInit, StartInv, OneInv
<1>5. \A l \in Loops : \A k \in Kinds : loop[l] # Sending(k)
  BY DEF WatchInit, Sending
<1>6. AlertInv
  BY <1>5 DEF WatchInit, AlertInv
<1> QED  BY <1>2, <1>3, <1>4, <1>6, TypedIsEnough DEF WatchInv

LEMMA OwnerStep ==
  ASSUME WatchInv, StartMonitoring \/ StopMonitoring \/ Joined \/ JoinTimesOut
  PROVE  WatchInv'
<1> USE DEF ownerVars, alertVars
<1>0. WatchOK /\ SnapInv /\ StartInv /\ OneInv /\ AlertInv
  BY DEF WatchInv
<1>1. UNCHANGED <<usage, seen, snapshots, alerts, sent>>
  BY DEF StartMonitoring, StopMonitoring, Joined, JoinTimesOut
<1>2. CASE StartMonitoring
  <2> DEFINE l == thread + 1
  <2>1. /\ l \in Loops /\ owner = "idle" /\ ~monitoring /\ thread' = l
        /\ monitoring' /\ owner' = owner /\ timedOut' = timedOut
        /\ loop' = [loop EXCEPT ![l] = "test"] /\ loop[l] = "none"
    BY <1>0, <1>2, BoundsAssumption
    DEF StartMonitoring, MayStart, WatchOK, Loops, StartInv
  <2>2. Trimming' = Trimming /\ Live' = Live \cup {l}
    BY <1>0, <2>1 DEF Trimming, Live, WatchOK
  <2>3. SnapInv'
    BY <1>0, <1>1, <2>2 DEF SnapInv
  <2>4. Typed'
    BY <1>0, <1>1, <2>1 DEF Typed, WatchOK, LoopState, Loops
  <2>5. StartInv'
    BY <1>0, <2>1 DEF StartInv, WatchOK, Loops
  <2>6. OneInv'
    BY <1>0, <2>1, <2>2 DEF OneInv
  <2>7. AlertInv'
    BY <1>0, <1>1, <2>1 DEF AlertInv, WatchOK, Sending
  <2> QED  BY <2>3, <2>4, <2>5, <2>6, <2>7, TypedIsEnough DEF WatchInv
<1>3. CASE StopMonitoring \/ Joined \/ JoinTimesOut
  <2>1. UNCHANGED <<loop, thread>>
    BY <1>3 DEF StopMonitoring, Joined, JoinTimesOut
  <2>2. Live' = Live /\ WatchOK' /\ SnapInv'
    BY <1>0, <1>1, <1>3, <2>1
    DEF StopMonitoring, Joined, JoinTimesOut, Live, WatchOK, SnapInv, Trimming
  <2>3. StartInv'
    BY <1>0, <1>3, <2>1
    DEF StopMonitoring, Joined, JoinTimesOut, StartInv, WatchOK
  <2>4. AlertInv'
    BY <1>0, <1>1, <1>3, <2>1
    DEF StopMonitoring, Joined, JoinTimesOut, AlertInv, WatchOK
  <2>5. OneInv'
    <3>1. CASE StopMonitoring
      <4>1. thread = 0 /\ ~timedOut => Live = {}
        BY <1>0 DEF OneInv, Live, Loops
      <4> QED  BY <1>0, <2>1, <2>2, <3>1, <4>1 DEF StopMonitoring, OneInv
    <3>2. CASE Joined
      BY <1>0, <2>1, <2>2, <3>2 DEF Joined, OneInv, Live
    <3>3. CASE JoinTimesOut
      BY <3>3 DEF JoinTimesOut, OneInv
    <3> QED  BY <1>3, <3>1, <3>2, <3>3
  <2> QED  BY <2>2, <2>3, <2>4, <2>5 DEF WatchInv
<1> QED  BY <1>2, <1>3

(* A step of a loop, or of the process around it, that ends no alert.      *)
LEMMA LoopStep ==
  ASSUME WatchInv, NEW l \in Loops,
         Test(l) \/ Sample(l) \/ NoSample(l) \/ Trim(l) \/ Wake(l)
           \/ \E k \in Kinds : AlertTest(l, k)
  PROVE  WatchInv'
<1> USE DEF ownerVars, alertVars
<1>0. WatchOK /\ SnapInv /\ StartInv /\ OneInv /\ AlertInv
  BY DEF WatchInv
<1>1. UNCHANGED <<usage, monitoring, thread, owner, timedOut, alerts, sent>>
  BY DEF Test, Sample, NoSample, Trim, Wake, AlertTest
<1>2. PICK s \in LoopState : /\ loop' = [loop EXCEPT ![l] = s]
                             /\ loop[l] \notin {"none", "ended"} /\ s # "none"
  BY DEF Test, Sample, NoSample, Trim, Wake, AlertTest, After, LoopState
<1>3. Live' \subseteq Live
  BY <1>0, <1>2 DEF Live, WatchOK
<1>4. StartInv'
  BY <1>0, <1>1, <1>2 DEF StartInv, WatchOK
<1>5. OneInv'
  BY <1>0, <1>1, <1>3 DEF OneInv
<1>6. Typed'
  <2>1. seen' \in [Loops -> Usages]
    BY <1>0 DEF Test, Sample, NoSample, Trim, Wake, AlertTest, WatchOK
  <2> QED  BY <1>0, <1>1, <1>2, <2>1 DEF Typed, WatchOK
<1>7. SnapInv'
  <2>1. /\ Trimming \in SUBSET Loops /\ IsFiniteSet(Trimming)
        /\ Cardinality(Trimming) \in Nat
    BY LoopsFinite DEF Trimming
  <2>2. CASE Sample(l)
    <3>1. Trimming' = Trimming \cup {l} /\ l \notin Trimming
          /\ snapshots' = snapshots + 1
      BY <1>0, <2>2 DEF Sample, Trimming, WatchOK
    <3>2. Cardinality(Trimming \cup {l}) = Cardinality(Trimming) + 1
      BY <2>1, <3>1, FS_AddElement
    <3> QED  BY <1>0, <2>1, <3>1, <3>2, BoundsAssumption DEF SnapInv
  <2>3. CASE Trim(l)
    <3>1. snapshots' = IF snapshots > Keep THEN Keep ELSE snapshots
      BY <2>3 DEF Trim, Trimmed
    <3>2. Trimming' \in SUBSET Loops
      BY DEF Trimming
    <3>3. Cardinality(Trimming') \in Nat
      BY <3>2, LoopsFinite
    <3> QED  BY <1>0, <3>1, <3>3, BoundsAssumption DEF SnapInv
  <2>4. CASE Test(l) \/ NoSample(l) \/ Wake(l) \/ \E k \in Kinds : AlertTest(l, k)
    <3>1. snapshots' = snapshots /\ loop[l] # "trim" /\ loop'[l] # "trim"
      BY <1>0, <2>4 DEF Test, NoSample, Wake, AlertTest, After, WatchOK
    <3>2. Trimming' = Trimming
      BY <1>0, <1>2, <3>1 DEF Trimming, WatchOK
    <3> QED  BY <1>0, <3>1, <3>2 DEF SnapInv
  <2> QED  BY <2>2, <2>3, <2>4
<1>8. AlertInv'
  <2>1. ASSUME NEW k \in Kinds, loop'[l] = Sending(k) PROVE k \notin alerts
    <3>1. CASE \E j \in Kinds : AlertTest(l, j)
      <4>1. PICK j \in Kinds : AlertTest(l, j)
        BY <3>1
      <4>2. loop'[l] = IF j \in Raised(seen[l]) \ alerts
                       THEN IF j = "warning" THEN "warning!" ELSE "critical!"
                       ELSE After(j)
        BY <1>0, <4>1 DEF AlertTest, WatchOK
      <4>3. k = j /\ j \notin alerts
        BY <2>1, <4>2 DEF Sending, After, Kinds
      <4> QED  BY <4>3
    <3>2. CASE Test(l) \/ Sample(l) \/ NoSample(l) \/ Trim(l) \/ Wake(l)
      BY <1>0, <2>1, <3>2
      DEF Test, Sample, NoSample, Trim, Wake, WatchOK, Sending, Kinds
    <3> QED  BY <3>1, <3>2
  <2>2. ASSUME NEW m \in Loops, m # l PROVE loop'[m] = loop[m]
    BY <1>0, <1>2, <2>2 DEF WatchOK
  <2> QED  BY <1>0, <1>1, <2>1, <2>2 DEF AlertInv
<1> QED  BY <1>4, <1>5, <1>6, <1>7, <1>8, TypedIsEnough DEF WatchInv

(* An alert is sent, or forgotten: with one loop alive no other is about   *)
(* to send one.                                                            *)
LEMMA AlertStep ==
  ASSUME WatchInv, NEW l \in Loops, Reset(l) \/ \E k \in Kinds : Alert(l, k)
  PROVE  WatchInv'
<1> USE DEF ownerVars, alertVars
<1>0. WatchOK /\ SnapInv /\ StartInv /\ OneInv /\ AlertInv
  BY DEF WatchInv
<1>1. UNCHANGED <<usage, monitoring, thread, owner, timedOut, seen, snapshots>>
  BY DEF Reset, Alert
<1>2. PICK s \in LoopState :
        /\ loop' = [loop EXCEPT ![l] = s] /\ s \notin {"none", "trim"}
        /\ loop[l] \in {"reset", "warning!", "critical!"}
        /\ \A k \in Kinds : s # Sending(k)
  BY DEF Reset, Alert, After, LoopState, Sending
<1>3. Live' \subseteq Live /\ l \in Live /\ Trimming' = Trimming
  BY <1>0, <1>2 DEF Live, Trimming, WatchOK
<1>4. StartInv' /\ OneInv' /\ SnapInv'
  BY <1>0, <1>1, <1>2, <1>3 DEF StartInv, OneInv, SnapInv, WatchOK
<1>5. ASSUME ~timedOut, NEW m \in Loops, NEW k \in Kinds
      PROVE  loop'[m] # Sending(k)
  <2>1. CASE m = l
    BY <1>0, <1>2, <2>1 DEF WatchOK
  <2>2. CASE m # l
    <3>1. loop'[m] = loop[m] /\ m \notin Live
      BY <1>0, <1>2, <1>3, <1>5, <2>2 DEF WatchOK, OneInv
    <3> QED  BY <3>1 DEF Live, Sending
  <2> QED  BY <2>1, <2>2
<1>6. CASE Reset(l)
  <2>1. /\ alerts' = alerts \cap Raised(seen[l])
        /\ sent' = [k \in Kinds |-> IF k \in Raised(seen[l]) THEN sent[k] ELSE 0]
    BY <1>6 DEF Reset, Remembers
  <2>2. Typed'
    BY <1>0, <1>1, <1>2, <2>1 DEF Typed, WatchOK
  <2>3. AlertInv'
    BY <1>0, <1>1, <1>5, <2>1 DEF AlertInv
  <2> QED  BY <1>4, <2>2, <2>3, TypedIsEnough DEF WatchInv
<1>7. ASSUME NEW k \in Kinds, Alert(l, k) PROVE WatchInv'
  <2>1. /\ alerts' = alerts \cup {k} /\ loop[l] = Sending(k)
        /\ sent' = [sent EXCEPT ![k] = IF @ < 2 THEN @ + 1 ELSE 2]
    BY <1>7 DEF Alert, Noted, Sending
  <2>2. Typed'
    BY <1>0, <1>1, <1>2, <2>1 DEF Typed, WatchOK
  <2>3. AlertInv'
    <3> SUFFICES ASSUME ~timedOut, NEW j \in Kinds
                 PROVE  sent'[j] = 0 \/ (sent'[j] = 1 /\ j \in alerts')
      BY <1>1, <1>5 DEF AlertInv
    <3>1. CASE j = k
      <4>1. sent[k] = 0
        BY <1>0, <2>1 DEF AlertInv
      <4>2. sent'[k] = 1
        BY <1>0, <2>1, <4>1 DEF WatchOK
      <4> QED  BY <2>1, <3>1, <4>2
    <3>2. CASE j # k
      BY <1>0, <2>1, <3>2 DEF AlertInv, WatchOK
    <3> QED  BY <3>1, <3>2
  <2> QED  BY <1>4, <2>2, <2>3, TypedIsEnough DEF WatchInv
<1> QED  BY <1>6, <1>7

LEMMA OtherStep ==
  ASSUME WatchInv, UsageChanges \/ UNCHANGED watchVars
  PROVE  WatchInv'
<1>0. WatchOK /\ SnapInv /\ StartInv /\ OneInv /\ AlertInv
  BY DEF WatchInv
<1>1. /\ UNCHANGED <<monitoring, thread, owner, timedOut, loop, seen, snapshots,
                     alerts, sent>>
      /\ usage' \in Usages
  BY <1>0 DEF UsageChanges, watchVars, ownerVars, alertVars, WatchOK
<1>2. Typed' /\ Live' = Live /\ Trimming' = Trimming
  BY <1>0, <1>1 DEF Typed, WatchOK, Live, Trimming
<1>3. SnapInv' /\ StartInv' /\ OneInv' /\ AlertInv'
  BY <1>0, <1>1, <1>2 DEF SnapInv, StartInv, OneInv, AlertInv
<1> QED  BY <1>2, <1>3, TypedIsEnough DEF WatchInv

LEMMA WatchInductive == WatchSpec => []WatchInv
<1>1. WatchInv /\ [WatchNext]_watchVars => WatchInv'
  BY OwnerStep, LoopStep, AlertStep, OtherStep DEF WatchNext, Look
<1> QED  BY <1>1, WatchInitInv, PTL DEF WatchSpec
-----------------------------------------------------------------------------
(* The list of snapshots stays within one of the bound for each live loop  *)
(* (monitor.py:194-200).                                                   *)
THEOREM WatchTypeCorrect == WatchSpec => []WatchOK
<1>1. WatchInv => WatchOK
  BY DEF WatchInv
<1> QED  BY <1>1, WatchInductive, PTL

(* The flag is enough to keep a second loop from starting, except after a  *)
(* stop that gave up waiting (monitor.py:172-188).                         *)
THEOREM OneLoopWatches == WatchSpec => []OneLoop
<1>1. WatchInv => OneLoop
  <2> SUFFICES ASSUME WatchInv, ~timedOut PROVE ~(Cardinality(Live) > 1)
    BY DEF OneLoop
  <2>1. Live \in SUBSET {thread}
    BY DEF WatchInv, OneInv
  <2>2. IsFiniteSet({thread}) /\ Cardinality({thread}) = 1
    BY FS_Singleton
  <2>3. Live \in SUBSET Loops
    BY DEF Live
  <2>4. Cardinality(Live) <= 1 /\ Cardinality(Live) \in Nat
    BY <2>1, <2>2, <2>3, FS_Subset, LoopsFinite
  <2> QED  BY <2>4
<1> QED  BY <1>1, WatchInductive, PTL

(* One alert of each kind for each excursion, whatever the callbacks raise *)
(* (monitor.py:203-225).                                                   *)
THEOREM NoAlertTwice == WatchSpec => []AlertedOnce
<1>1. WatchInv => AlertedOnce
  BY DEF WatchInv, AlertInv, AlertedOnce
<1> QED  BY <1>1, WatchInductive, PTL
=============================================================================
