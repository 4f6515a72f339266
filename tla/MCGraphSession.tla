--------------------------- MODULE MCGraphSession ---------------------------
(* Small instances of GraphSession for TLC.  The classes are those of the  *)
(* shipped graph files, with the parameters that tell their runs apart; a  *)
(* value is the text a graph file would give it.                           *)
EXTENDS GraphSession

NodeBody == [is_writer |-> "false", refname |-> "null"]
ClassBodies ==
  [Unpacker |-> [path |-> ""], Multiply |-> [multiply |-> "1000"],
   ParquetWriter |-> [is_writer |-> "true", root_path |-> ""],
   PgWriter |-> [is_writer |-> "true", table |-> ""]]
ClassNames == DOMAIN ClassBodies
WithInit == {"ParquetWriter"}

tick  == [root_path |-> "stock"]
fund  == [root_path |-> "fund"]
cents == [multiply |-> "100000"]
wrong == [factor |-> "1000"]

(* tick, fund (the same chain, another writer), the csv variant of tick,   *)
(* one without a writer, one with two, one with a cycle, one with a        *)
(* parameter no class has, one with a class nobody registered.             *)
GraphFiles ==
  { [dag |-> TRUE, order |-> <<<<"Unpacker", NoParams>>,
                     <<"Multiply", NoParams>>, <<"ParquetWriter", tick>>>>],
    [dag |-> TRUE, order |-> <<<<"Unpacker", NoParams>>,
                     <<"Multiply", NoParams>>, <<"ParquetWriter", fund>>>>],
    [dag |-> TRUE, order |-> <<<<"Unpacker", NoParams>>,
                     <<"Multiply", cents>>, <<"ParquetWriter", tick>>>>],
    [dag |-> TRUE, order |-> <<<<"Unpacker", NoParams>>>>],
    [dag |-> TRUE, order |-> <<<<"PgWriter", NoParams>>,
                     <<"Unpacker", NoParams>>, <<"ParquetWriter", tick>>>>],
    [dag |-> FALSE, order |-> <<<<"Unpacker", NoParams>>,
                     <<"ParquetWriter", tick>>>>],
    [dag |-> TRUE, order |-> <<<<"Unpacker", NoParams>>,
                     <<"Multiply", wrong>>, <<"ParquetWriter", tick>>>>],
    [dag |-> TRUE, order |-> <<<<"ParquetWriter", tick>>,
                     <<"Scale", NoParams>>>>] }
=============================================================================
