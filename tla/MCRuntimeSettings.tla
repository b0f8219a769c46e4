--------------------------- MODULE MCRuntimeSettings ---------------------------
\* Instances of RuntimeSettings for TLC.
EXTENDS RuntimeSettings, TLC

CONSTANTS a1, a2, m1, m2, k1, k2, k3, r1, r2, r3, s1, s2

\* Two models of the second account have one key: their names differ in punctuation only.
MCKeyOf == a1 :> (m1 :> k1 @@ m2 :> k2) @@ a2 :> (m1 :> k3 @@ m2 :> k3)
MCFirstRef == a1 :> r1 @@ a2 :> r2
MCOffers == {<<>>, m1 :> Capabilities, m1 :> {} @@ m2 :> Capabilities}
Row(m, f, c, d) == [NoModels EXCEPT !["model"] = m, !["fallback"] = f, !["compression"] = c,
                                    !["compression_fallback"] = d]
MCRows == {NoModels, Row(k1, k2, k1, None), Row(k1, k3, k2, k1)}
MCPayloads == [{"model"} -> {k1, k2}] \union [{"fallback"} -> {k2, None}] \union
              [{"compression"} -> {k2}] \union [{"compression_fallback"} -> {k1, None}] \union
              [{"model", "fallback"} -> {k1, k2}]
Mix(a, o, s) == "account" :> a @@ "option" :> o @@ "setting" :> s
MCMixes == {Mix(2, 1, 0), Mix(1, 2, 0), Mix(0, 1, 2), Mix(1, 0, 2)}
=============================================================================
