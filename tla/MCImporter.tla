----------------------------- MODULE MCImporter -----------------------------
(* One or two imports of short files, in chunks of two rows.               *)
EXTENDS Importer

(* A name, the same name in letters that normalizeName unifies and lower() *)
(* does not, and a name like it.                                           *)
MCNames == {"tea", "arabicTea", "teas"}
MCNormalOf == [n \in MCNames |-> IF n = "arabicTea" THEN "tea" ELSE n]
MCRank == [n \in MCNames |-> CASE n = "tea" -> 1 [] n = "teas" -> 2 [] OTHER -> 3]
MCClose == {<<"teas", "tea">>, <<"tea", "teas">>}

R(name) == [name |-> name, good |-> TRUE]
Bad == [name |-> "tea", good |-> FALSE]

MCFiles ==
  {<<R("tea"), Bad, R("teas"), R("arabicTea")>>, <<R("teas"), R("tea"), R("teas"), R("")>>,
   <<R("tea"), R("tea"), R("tea"), R("tea"), R("tea")>>}
=============================================================================
