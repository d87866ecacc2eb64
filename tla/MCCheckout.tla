----------------------------- MODULE MCCheckout -----------------------------
(* Instances of Checkout for TLC: one order per rail, two orders competing    *)
(* for one note, and fairness on a small instance.                            *)
EXTENDS Checkout, TLC

CONSTANTS o1, o2

TwoRails == o1 :> "lightning" @@ o2 :> "lnurlcash"
LnurlcashOnly == [o \in Orders |-> "lnurlcash"]
Interchangeable == Permutations(Hashes) \cup Permutations(Secrets)
                    \cup Permutations(RefundInvoices)
=============================================================================
