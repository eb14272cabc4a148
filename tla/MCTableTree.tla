---------------------------- MODULE MCTableTree ----------------------------
(***************************************************************************)
(* Small instances of TableTree for TLC.                                   *)
(***************************************************************************)
EXTENDS TableTree, TLC

CONSTANTS a, b, c, suffixB, suffixC, suffixMaster

\* As a pattern, b has a wildcard that a matches too; c is named like the
\* text a virtual a shows.
WildLike == a :> {a} @@ b :> {a, b} @@ c :> {c} @@ Master :> {}
ExactLike == [t \in AllNames |-> {t} \cap Names]
Ordinary == Names \X {FALSE}
OneVirtual == {<<a, TRUE>>, <<a, FALSE>>, <<b, FALSE>>, <<c, FALSE>>}
SuffixTexts == a :> c @@ b :> suffixB @@ c :> suffixC @@ Master :> suffixMaster
=============================================================================
