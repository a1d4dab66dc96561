----------------------------- MODULE MCCsvStore -----------------------------
(* Finite instances of CsvStore for TLC. *)
EXTENDS CsvStore, TLC

CONSTANTS a, b  \* ids of the rows in the files

Line1(id, val, cols) == [cols |-> cols, row |-> [id |-> id, val |-> val]]

\* A file as writeAll leaves it, and one of the older, narrower format that
\* readAll still accepts.
Seeds(f) ==
  {[header |-> n, lines |-> <<Line1(a, 2, n)>>] : n \in {Format[f].least, Format[f].width}}
MCSeedFiles == [f \in Files |-> Seeds(f)]

\* The same with a line somebody shortened by hand.
ShortLine(f) ==
  {[header |-> Format[f].width,
    lines |-> <<Line1(a, 2, Format[f].width), Line1(b, 1, Format[f].least - 1)>>]}
MCShortLines == [f \in Files |-> Seeds(f) \cup ShortLine(f)]
=============================================================================
