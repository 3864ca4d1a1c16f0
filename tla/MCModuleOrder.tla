--------------------------- MODULE MCModuleOrder ---------------------------
(* Three modules with up to MaxImports imports each, over four names, the  *)
(* fourth of which is a module compiled earlier or nobody's module.        *)
EXTENDS ModuleOrder, SequencesExt

CONSTANTS a, b, c, d, MaxImports

MCName == {a, b, c, d}
ImportLists == BoundedSeq({a, b, c, d}, MaxImports)
NameLists == {<<a, b, c>>, <<a, b, a>>}
MCAsts == {<<>>} \union
  {[i \in 1..3 |-> [name |-> names[i], imports |-> imports[i]]] :
     names \in NameLists, imports \in [1..3 -> ImportLists]}
MCCompiled == {<<>>, <<d>>, <<d, d>>}
=============================================================================
