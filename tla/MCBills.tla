------------------------------- MODULE MCBills --------------------------------
(* A dollar invoice of two devices on one line, submitted twice; b2 declares a *)
(* total that its line does not add up to.                                    *)
EXTENDS Bills, TLC

CONSTANTS q1, q2, b1, b2, i1, i2

InvoiceHeader(declared) ==
  [mode |-> "per_line", rate |-> 125, declared |-> declared, units |-> 2,
   type |-> "purchase", invoice |-> 1]
InvoiceRow(sku, price, qty, imei) == [sku |-> sku, price |-> price, qty |-> qty, imei |-> imei]

InvoiceHeaders == (b1 :> InvoiceHeader(500)) @@ (b2 :> InvoiceHeader(1000))
InvoiceRows ==
  [b \in {b1, b2} |-> <<InvoiceRow(TRUE, 500, 2, i1), InvoiceRow(FALSE, Blank, Blank, i2)>>]

Staff == Permutations({q1, q2})
=============================================================================
