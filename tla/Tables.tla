------------------------------- MODULE Tables -------------------------------
(***************************************************************************)
(* The six CSV files of the store and what the repository methods do to    *)
(* the rows of one: pure operators, shared by the abstract repository and  *)
(* the one that reads and writes files.                                    *)
(*                                                                         *)
(* A row is its id and one value: the quantity in items.csv, the email (as *)
(* a number) in accounts.csv, anything elsewhere.                          *)
(***************************************************************************)
EXTENDS Integers, Sequences

\* Columns writeAll writes, and the fewest readAll keeps a row with.
ItemsFormat        == [width |-> 6, least |-> 4]
UsersFormat        == [width |-> 5, least |-> 4]
DepartmentsFormat  == [width |-> 2, least |-> 2]
TransactionsFormat == [width |-> 8, least |-> 8]
ReturnsFormat      == [width |-> 8, least |-> 8]
AccountsFormat     == [width |-> 10, least |-> 10]

Format == [items |-> ItemsFormat, users |-> UsersFormat,
           departments |-> DepartmentsFormat, transactions |-> TransactionsFormat,
           returns |-> ReturnsFormat, accounts |-> AccountsFormat]

\* The methods of each repository: "read" is List, GetByID and the like.
ItemsMethods        == {"read", "add", "decrease", "increase"}
UsersMethods        == {"read", "add"}
DepartmentsMethods  == {"read", "add"}
TransactionsMethods == {"read", "add"}
ReturnsMethods      == {"read", "add"}
AccountsMethods     == {"read", "add", "update"}

Methods == [items |-> ItemsMethods, users |-> UsersMethods,
            departments |-> DepartmentsMethods, transactions |-> TransactionsMethods,
            returns |-> ReturnsMethods, accounts |-> AccountsMethods]

Rows(table) == {table[k] : k \in DOMAIN table}
HasId(table, id) == \E row \in Rows(table) : row.id = id

\* Emails are unique in accounts.csv; ids are unique in every file.
EmailTaken(file, table, row) ==
  /\ file = "accounts"
  /\ \E other \in Rows(table) : other.id # row.id /\ other.val = row.val

\* Accounts are replaced wherever the id matches, quantities are changed in
\* the first row that does.
Replace(table, row) ==
  [k \in DOMAIN table |-> IF table[k].id = row.id THEN row ELSE table[k]]

First(table, id) ==
  CHOOSE k \in DOMAIN table : table[k].id = id /\ \A j \in 1 .. k - 1 : table[j].id # id
Changed(table, id, delta) == [table EXCEPT ![First(table, id)].val = @ + delta]

\* Whether a method goes on to write, and what it then writes.  "row" is the
\* row to add or to put in place, or names the item whose quantity changes.
Accepts(file, method, table, row) ==
  \/ /\ method = "add"
     /\ ~HasId(table, row.id)
     /\ ~EmailTaken(file, table, row)
  \/ /\ method = "update"
     /\ HasId(table, row.id)
     /\ ~EmailTaken(file, table, row)
  \/ /\ method = "decrease"
     /\ HasId(table, row.id)
     /\ row.val >= 0
     /\ table[First(table, row.id)].val - row.val >= 0
  \/ /\ method = "increase"
     /\ HasId(table, row.id)
     /\ row.val >= 0

Result(method, table, row) ==
  CASE method = "add"      -> Append(table, row)
    [] method = "update"   -> Replace(table, row)
    [] method = "decrease" -> Changed(table, row.id, -row.val)
    [] method = "increase" -> Changed(table, row.id, row.val)
=============================================================================
