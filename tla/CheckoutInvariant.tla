-------------------------- MODULE CheckoutInvariant -------------------------
(***************************************************************************)
(* The inductive invariant of Checkout, part by part.                      *)
(*                                                                         *)
(* No safety property of Checkout is inductive alone: each one relates the *)
(* ledger to a party the ledger cannot see.  IInv adds what ties them: the *)
(* ledger state each place of a handler implies, the columns each state    *)
(* implies, and which order every message in flight belongs to.            *)
(***************************************************************************)
EXTENDS Checkout

Invoiced == {"invoice_pending", "awaiting_payment"} \cup Paid
Rotated == {"lnurl_pending"} \cup Paid

\* What the place of the handler in flight implies for its order.
OpInv ==
    op # Idle =>
        /\ op.order \in Orders
        /\ op.at \in {"reserve", "reserved"} => State(op.order) = "reserving"
        /\ op.at \in {"invoicing", "requested"} => State(op.order) = "invoice_pending"
        /\ op.at = "noteInfo" => State(op.order) = "quoted"
        /\ op.at \in {"recovering", "rotating", "rotateSent"} =>
             State(op.order) = "lnurl_pending"
        /\ op.at \in {"fulfil", "activated"} => State(op.order) = "settled"
        /\ op.at \in {"verify", "melt", "melting", "confirm"} =>
             State(op.order) = "refund_required" /\ ledger[op.order].refund # None
        /\ op.at = "reserved" => hold[op.order] # "none"
        /\ op.at = "activated" => hold[op.order] = "active"
        /\ op.at = "noteInfo" => op.note \in Notes /\ Rail[op.order] = "lnurlcash"
        /\ op.at = "invoicing" =>
             /\ \A q \in invoiceSent : q[1] # op.order
             /\ \A i \in invoices : i.order # op.order

\* The store and the ledger.
HoldInv ==
    \A o \in Orders :
        /\ State(o) = "none" => hold[o] = "none"
        /\ State(o) \in Pending \cup {"quoted", "settled"} => hold[o] # "none"
        /\ State(o) = "active" => hold[o] = "active"
        /\ hold[o] = "active" => State(o) \in {"settled", "active"}

\* The columns of a row.
RowInv ==
    \A o \in Orders :
        /\ State(o) \in Invoiced /\ Rail[o] = "lightning" /\ State(o) # "invoice_pending"
            <=> ledger[o].hash # None
        /\ State(o) \in Rotated /\ Rail[o] = "lnurlcash" <=> ledger[o].secret # None
        /\ ledger[o].secret # None <=> ledger[o].note # None
        /\ State(o) \in Paid <=> ledger[o].settlement # None
        /\ ledger[o].settlement # None =>
             ledger[o].settlement =
                IF Rail[o] = "lightning" THEN ledger[o].hash ELSE ledger[o].secret
        /\ ledger[o].refund # None =>
             State(o) \in {"refund_required", "refunded"} /\ Rail[o] = "lnurlcash"
        /\ State(o) \in {"invoice_pending", "awaiting_payment"} => Rail[o] = "lightning"
        /\ State(o) = "lnurl_pending" => Rail[o] = "lnurlcash"

\* No identity belongs to two rows.
UniqueInv ==
    \A o, p \in Orders :
        o # p =>
            /\ ledger[o].hash # None => ledger[p].hash # ledger[o].hash
            /\ ledger[o].note # None => ledger[p].note # ledger[o].note
            /\ ledger[o].secret # None => ledger[p].secret # ledger[o].secret

\* The Lightning backend: a request, an invoice and a row of one order.
SentInv ==
    \A q \in invoiceSent :
        /\ State(q[1]) \in Invoiced /\ Rail[q[1]] = "lightning"
        /\ \A i \in invoices : i.order # q[1]
        /\ \A q2 \in invoiceSent : q2[1] = q[1] => q2 = q
InvoiceInv ==
    \A i \in invoices :
        /\ State(i.order) \in Invoiced /\ Rail[i.order] = "lightning"
        /\ \A j \in invoices : j.order = i.order \/ j.hash = i.hash => j = i
HashInv ==
    \A o \in Orders :
        /\ ledger[o].hash # None =>
            \E i \in invoices :
                i.order = o /\ i.hash = ledger[o].hash /\ i.expiry <= ledger[o].expires
        /\ State(o) \in Paid /\ Rail[o] = "lightning" => ledger[o].hash \in paid
PaidInv ==
    \A h \in paid : \E o \in Orders : ledger[o].hash = h

\* Replacement s was bought with the note of order o.
Bought(o, s) ==
    /\ ledger[o].secret = s
    /\ <<ledger[o].note, s>> \in rotateSent
    /\ ledger[o].note \notin live

\* The mint: whose rotation, whose replacement, whose melt.
RotationInv ==
    /\ \A o \in Orders : ledger[o].secret # None => ledger[o].secret \in drawn
    /\ \A q \in rotateSent :
        \E o \in Orders : ledger[o].note = q[1] /\ ledger[o].secret = q[2]
ReplacementInv ==
    /\ \A s \in live \cap Secrets : \E o \in Orders : Bought(o, s)
    /\ \A o \in Orders :
        State(o) \in Paid /\ Rail[o] = "lnurlcash" => Bought(o, ledger[o].secret)
MeltInv ==
    /\ \A q \in meltSent :
        \E o \in Orders :
            /\ ledger[o].secret = q[1] /\ ledger[o].refund = q[2]
            /\ State(o) \in {"refund_required", "refunded"}
    /\ \A m \in melted : m \in meltSent /\ m[1] \notin live
    /\ \A o \in Orders :
        State(o) = "refunded" => <<ledger[o].secret, ledger[o].refund>> \in melted
KeptInv ==
    \A o \in Orders :
        State(o) \in Paid /\ Rail[o] = "lnurlcash" =>
            ledger[o].secret \in live \/ \E m \in melted : m[1] = ledger[o].secret

IInv ==
    /\ TypeOK
    /\ OpInv
    /\ HoldInv
    /\ RowInv
    /\ UniqueInv
    /\ SentInv
    /\ InvoiceInv
    /\ HashInv
    /\ PaidInv
    /\ RotationInv
    /\ ReplacementInv
    /\ MeltInv
    /\ KeptInv

-----------------------------------------------------------------------------
(* What a step can write.                                                    *)

LedgerWrite(o) ==
    \/ Quote(o) \/ ReserveExpired(o) \/ ReserveCommit(o) \/ Lightning(o)
    \/ \E i \in invoices : InvoiceAnswer(o, i) \/ RecoverInvoice(o, i)
    \/ CheckInvoice(o) \/ Certify(o) \/ FulfilCommit(o) \/ FulfilUnavailable(o)
    \/ \E n \in Notes, s \in Secrets : AcceptNote(o, n, s)
    \/ \E r \in RefundInvoices, v \in BOOLEAN : RefundPrepare(o, r, v)
    \/ \E v \in BOOLEAN : MeltAnswer(o, v)
    \/ RefundConfirmed(o)

StoreWrite == \E o \in Orders : ReserveHold(o) \/ FulfilActivate(o)

BackendWrite ==
    \/ \E o \in Orders : InvoiceRequest(o) \/ \E i \in invoices : BuyerPays(o, i)
    \/ \E request \in invoiceSent, h \in Hashes : BackendCreate(request, h)

MintWrite ==
    \/ \E o \in Orders : RotateSend(o) \/ MeltSend(o)
    \/ \E n \in Notes, s \in Secrets : MintRotate(n, s)
    \/ \E n \in Notes : BuyerSpends(n)
    \/ \E s \in Secrets, r \in RefundInvoices : MintMelt(s, r)

\* Every step writes the ledger, or the state of one of the other parties, or
\* only the clock, the handler in flight and the configuration.
StepKind ==
    \/ UNCHANGED <<ledger, hold, invoiceSent, invoices, paid, live, drawn, rotateSent,
                   meltSent, melted>>
    \/ /\ \E o \in Orders : LedgerWrite(o)
       /\ UNCHANGED <<hold, invoiceSent, invoices, paid, live, rotateSent, meltSent,
                      melted>>
       /\ drawn \subseteq drawn'
    \/ /\ StoreWrite
       /\ UNCHANGED <<ledger, invoiceSent, invoices, paid, live, drawn, rotateSent,
                      meltSent, melted>>
    \/ /\ BackendWrite
       /\ UNCHANGED <<ledger, hold, live, drawn, rotateSent, meltSent, melted>>
    \/ /\ MintWrite
       /\ UNCHANGED <<ledger, hold, invoiceSent, invoices, paid, drawn>>
=============================================================================
