------------------------------- MODULE Totals -------------------------------
(***************************************************************************)
(* The sum of the quantities of a finite table of rows.  The services      *)
(* compute it with a loop over the rows of a CSV file; here it is the      *)
(* number of single units the rows stand for, which is the same number and *)
(* needs no recursion.                                                     *)
(***************************************************************************)
EXTENDS Naturals, FiniteSets

\* One element per unit of quantity: row x contributes f[x] of them.
Units(f) == UNION {{x} \X (1 .. f[x]) : x \in DOMAIN f}

\* The sum of f[x] over the domain of f, f being Nat-valued.
Total(f) == Cardinality(Units(f))

\* A set of rows as the table of their quantities.
QtyOf(rows) == [row \in rows |-> row.qty]
=============================================================================
