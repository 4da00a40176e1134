----------------------------- MODULE MCServices -----------------------------
EXTENDS Services

CONSTANTS u1, u2, u3, k1, k2, c1, c2

ThreeUploads == {u1, u2, u3}
TwoKeys == {k1, k2}
TwoContents == {c1, c2}
\* One key is used for two contents, and one content for two keys.
Crossed == {[u \in ThreeUploads |->
               IF u = u1 THEN <<k1, c1>> ELSE IF u = u2 THEN <<k1, c2>> ELSE <<k2, c1>>]}
=============================================================================
