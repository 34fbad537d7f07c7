--------------------------- MODULE MCBundleStore ---------------------------
(* Two texts, of which t2 signs but does not compile, and two versions.     *)
EXTENDS BundleStore, TLC

CONSTANTS t1, t2, v1, v2, s1, s2, o1, o2

MCTexts == {t1, t2}
MCCompiles == {t1}
MCVersions == {v1, v2}
MCStems == {s1, s2}
MCSafeStem == (v1 :> s1 @@ v2 :> s2)
MCReleases == {<<t1, v1>>, <<t2, v2>>}
MCOperators == {o1, o2}
=============================================================================
