----------------------------- MODULE GraphNodes -----------------------------
(***************************************************************************)
(* How a node of a graph file becomes an object: the registry of the node  *)
(* classes and the metaclasses of core/graph/meta.py and node/node.py,     *)
(* which turn the params of a class body into defaults and the keyword     *)
(* arguments of a call into the parameters p of the instance.              *)
(***************************************************************************)
EXTENDS Orders

CONSTANTS
  Classes,  \* the names the registry holds
  Own,      \* params of each class body: parameter -> default
  RootOwn,  \* params of the body of Node
  Inits     \* the classes with an __init__ of their own

ASSUME ClassesAssumption == DOMAIN Own = Classes /\ Inits \subseteq Classes
(* Node is no writer; a class body with an "is_writer" sets it.            *)
ASSUME WritersAssumption ==
  /\ "is_writer" \in DOMAIN RootOwn /\ RootOwn["is_writer"] # "true"
  /\ \A c \in Classes :
       "is_writer" \in DOMAIN Own[c] => Own[c]["is_writer"] = "true"

(* AutoInfoClass._derive: the defaults of the base, updated with those of  *)
(* the class.  And with the update the wrong way round.                    *)
Update(f, g) ==
  [k \in DOMAIN f \cup DOMAIN g |-> IF k \in DOMAIN g THEN g[k] ELSE f[k]]
DeriveBack(base, own) == Update(own, base)
Derive(base, own) == Update(base, own)

(* MetaParams.__new__, first for Node, then for a class derived from it:   *)
(* no node class has a second base.                                        *)
NoParams == [k \in {} |-> k]
RootPairs == Derive(NoParams, RootOwn)
Pairs(c) == Derive(RootPairs, Own[c])

(* MetaParams.donew: every parameter from the call or else its default;    *)
(* what is left over goes on to __new__ and __init__.                      *)
Params(c, kwargs) ==
  [k \in DOMAIN Pairs(c) |-> IF k \in DOMAIN kwargs THEN kwargs[k]
                                                    ELSE Pairs(c)[k]]
Leftover(c, kwargs) == DOMAIN kwargs \ DOMAIN Pairs(c)

(* object.__new__ refuses what is left over, unless the class has its own  *)
(* __init__; then MetaNode takes "alias" out and __init__ refuses the rest. *)
Accepts(c, kwargs) ==
  Leftover(c, kwargs) \subseteq (IF c \in Inits THEN {"alias"} ELSE {})

(* build_from_cfg: KeyError for a name the registry does not know,         *)
(* TypeError for an argument the class does not take.                      *)
Registered(type) == type \in Classes
CanBuild(type, params) == Registered(type) /\ Accepts(type, params)
Build(type, params) ==
  [type |-> type, params |-> params, p |-> Params(type, params)]

(* convert_node_to_serializable, and init_worker, which leaves out what it *)
(* cannot build.                                                           *)
Serializable(node) == <<node.type, node.params>>
Known(cfg) == CanBuild(cfg[1], cfg[2])
BuildCfg(cfg) == Build(cfg[1], cfg[2])
InitWorker(cfgs) ==
  LET known == Select(cfgs, Known)
  IN  [i \in DOMAIN known |-> BuildCfg(known[i])]
=============================================================================
