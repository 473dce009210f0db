------------------------------ MODULE MCCaches ------------------------------
EXTENDS Caches

Answer(valid, known, len, maxAge) ==
    [valid |-> valid, known |-> known, len |-> len, maxAge |-> maxAge]

\* A length that is known, one that is not (it may be cut short), one that is 0,
\* an error.
MCResponses ==
    { Answer(TRUE, TRUE, 2, 0), Answer(TRUE, FALSE, 1, 2), Answer(TRUE, TRUE, 0, 1),
      Answer(FALSE, TRUE, 1, 0) }
=============================================================================
