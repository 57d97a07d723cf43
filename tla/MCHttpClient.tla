---------------------------- MODULE MCHttpClient ----------------------------
\* Instances of HttpClient for TLC.
EXTENDS HttpClient

\* Every text of up to five characters.
ShortTexts == UNION {[1..n -> Chars] : n \in 1..5}

=============================================================================
