-------------------------- MODULE MCBuildPipeline --------------------------
(***************************************************************************)
(* Two job descriptions, imported from files of which one has a line that  *)
(* is not usable and both have jd1.  jd1 mentions an alias with what it is *)
(* an alias of and once more in another section; jd2 has a version variant *)
(* and a candidate that is blocked.                                        *)
(***************************************************************************)
EXTENDS BuildPipeline, TLC

CONSTANTS jd1, jd2, c1, c2

MCTexts == {"k8s", "kubernetes", "kubernetes 2"}
MCTextOrder == <<"k8s", "kubernetes", "kubernetes 2">>
MCAliases == <<<<"k8s", "kubernetes">>>>
MCVersions == <<<<"kubernetes 2", "kubernetes">>>>
MCQuerySafe == {"k8s", "kubernetes"}

MCJdOrder == <<jd1, jd2>>

SectionOf(type, candidates) == [type |-> type, candidates |-> candidates]

MCSectionsOf ==
  [jd \in {jd1, jd2} |->
     IF jd = jd1
     THEN <<SectionOf("title", <<"kubernetes">>),
            SectionOf("requirements", <<"k8s", "kubernetes">>)>>
     ELSE <<SectionOf("company", <<"kubernetes 2", Blocked>>)>>]

MCFiles == {<<jd1, BadLine, jd1, jd2>>, <<jd2>>}

Symmetric == Permutations({c1, c2})
=============================================================================
