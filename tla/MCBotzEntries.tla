--------------------------- MODULE MCBotzEntries ---------------------------
(***************************************************************************)
(* Two clusters, two servers and a filesystem; all paths of up to two      *)
(* names, known, unknown, special and dots, and those of three names that  *)
(* go through a directory.                                                 *)
(***************************************************************************)
EXTENDS BotzEntries

NodeNames == {"h1", "j1", "j2", "c1", "c2", "s1", "s2", "f1", "nobody"}
Special == {"_info", "_hash", "_status", "_child_list", ".", ".."}
Names == Dirs \cup {"top"} \cup NodeNames \cup Special

MCPaths ==
  {<<>>} \cup {<<a>> : a \in Names} \cup {<<a, b>> : a \in Names, b \in Names}
    \cup {<<d, n, s>> : d \in Dirs, n \in NodeNames \cup {".", ".."}, s \in Special \cup NodeNames}
=============================================================================
