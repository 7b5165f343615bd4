---------------------------- MODULE MCTableStore ----------------------------
EXTENDS TableStore

\* "a", "ab", "a9", "b", "b1", in ASCII.
MCNames == {<<97>>, <<97, 98>>, <<97, 57>>, <<98>>, <<98, 49>>}

Col(k, n) == [key |-> k, nullable |-> n]

\* Key, value; and for the table "a" also: value, key; key, key; key,
\* nullable; nullable key, value.
OneLayout == {<<Col(TRUE, FALSE), Col(FALSE, FALSE)>>}
MCAttrs ==
  [n \in MCNames |->
     IF n # <<97>> THEN OneLayout
     ELSE OneLayout \cup {<<Col(FALSE, FALSE), Col(TRUE, FALSE)>>,
                          <<Col(TRUE, FALSE), Col(TRUE, FALSE)>>,
                          <<Col(TRUE, FALSE), Col(FALSE, TRUE)>>,
                          <<Col(TRUE, TRUE), Col(FALSE, FALSE)>>}]

\* 1, and an integer all of whose bytes are ':'.
MCWords == {<<1, 0, 0, 0, 0, 0, 0, 0>>, <<58, 58, 58, 58, 58, 58, 58, 58>>}

MCGarbage == {0, 7}
=============================================================================
