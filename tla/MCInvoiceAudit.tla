--------------------------- MODULE MCInvoiceAudit ---------------------------
(***************************************************************************)
(* Two transports of one booking and week, their invoices of one or two    *)
(* lines, and what happens to both.  Half of a price is EK; an operator    *)
(* may clear a container, and a line then finds its transport on the day   *)
(* and the booking alone.                                                  *)
(***************************************************************************)
EXTENDS InvoiceAudit

CONSTANTS t1, t2, b1, b2, c1, c2, e1, r1, r2

MCConfirmed == [cc \in Ccs |-> {t1}]

MCConfirms == [cc \in Ccs |-> 1]

MCPrice == [total |-> 2, ek |-> 1, waiting |-> FALSE]

MCPrices == {MCPrice}

MCTrip(ordered, container) ==
  [status |-> "CLOSED", date |-> 1, ordered |-> ordered, booking |-> b1,
   container |-> container, paid |-> FALSE, price |-> MCPrice]

MCInitially == {[t \in Trips |-> IF t = t1 THEN MCTrip(1, c1) ELSE MCTrip(0, c2)]}

MCLine(date, booking, container, charges, amount) ==
  [stated |-> [date |-> date, booking |-> booking, container |-> container],
   charges |-> charges, amount |-> amount, mark |-> Null]

MCFirst == MCLine(1, b1, c1, Null, 1)

MCSecond ==
  {MCLine(0, b1, c1, Null, 3), MCLine(1, b2, c1, Null, Null),
   MCLine(1, b1, Null, {e1}, 1), MCLine(1, b1, c2, {}, 1)}

MCWorkbook(lines, incomplete, sound) ==
  [lines |-> lines, incomplete |-> incomplete, sound |-> sound]

MCInvoices ==
  {MCWorkbook(<<MCFirst>>, {c2}, TRUE), MCWorkbook(<<MCFirst>>, {}, FALSE),
   MCWorkbook(<<MCLine(Null, b1, c2, Null, 0)>>, {}, TRUE),
   MCWorkbook(<<MCLine(1, b2, c2, Null, 0)>>, {}, TRUE)}
    \cup {MCWorkbook(<<MCFirst, l>>, {}, TRUE) : l \in MCSecond}

MCSymmetry == Permutations(Requests)
=============================================================================
