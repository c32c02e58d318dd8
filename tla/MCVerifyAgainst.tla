--------------------------- MODULE MCVerifyAgainst ---------------------------
(* A small instance of VerifyAgainst: a decision with every combination of *)
(* copies beside one that only shares its segment.                         *)
EXTENDS VerifyAgainst, TLC

CONSTANTS i1, i2, s1, accepted, retired, edited

MCIds == {i1, i2}
MCBodies == {accepted, retired, edited}
MCFollows == {<<b, b>> : b \in MCBodies}
    \cup {<<accepted, retired>>}
MCTerminal == {retired, edited}
MCBucket == (i1 :> 0) @@ (i2 :> 1)
MCSegments == {s1}
MCSegmentLines == (s1 :> {[id |-> i1, body |-> retired], [id |-> i2, body |-> retired]})

Lines(i, b) == IF b = None THEN {} ELSE {[id |-> i, body |-> b]}
Optional == MCBodies \cup {None}

\* Record i1 with any file and any line in its bucket; record i2 in its file, its
\* bucket, a wrong one, or the segment alone; and a line of i1 in a stray file, or
\* no segment.
MCStores ==
    {[file |-> (i1 :> b) @@ (i2 :> c[1]),
      shard |-> (0 :> (Lines(i1, own) \cup Lines(i2, c[2]))) @@ (1 :> Lines(i2, c[3]))
                @@ (2 :> Lines(i1, c[4])),
      segs |-> c[5]] :
        b \in Optional, own \in Optional,
        c \in {<<None, None, None, None, {s1}>>, <<retired, None, None, None, {s1}>>,
               <<None, retired, None, None, {s1}>>, <<None, None, accepted, None, {s1}>>,
               <<None, None, None, accepted, {s1}>>, <<retired, None, None, None, {}>>}}

=============================================================================
