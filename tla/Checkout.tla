------------------------------ MODULE Checkout ------------------------------
(***************************************************************************)
(* The paid storage checkout of crates/wildbloom-checkout: the durable     *)
(* order ledger (ledger.rs), the handlers that drive it (service.rs), the  *)
(* phoenixd adapter (phoenixd.rs), and the three parties outside the       *)
(* repository they talk to: the Shelter store that holds capacity and      *)
(* activates allowances, the Lightning backend, and the LNURLcash mint.    *)
(*                                                                         *)
(* Checkout::receiving is one mutex taken with try_lock by every handler   *)
(* and held across its awaits, so at most one handler is in flight.  Its   *)
(* volatile position is `op`; everything in `ledger` survives a crash.  A  *)
(* handler is cut at every durable write and at every await, and a crash   *)
(* may fall at each cut.  Requests to the backend and the mint stay in     *)
(* flight after the handler gives up or the process dies: a timeout never  *)
(* proves that nothing happened.                                           *)
(*                                                                         *)
(* A request from the wrong signer, with the wrong commitment or with a    *)
(* malformed body changes nothing and is a stuttering step.                *)
(***************************************************************************)
EXTENDS Naturals, FiniteSets

CONSTANTS
    Orders,         \* order ids, digest(pubkey:request_id)
    Rail,           \* the payment rail each order's quote names
    RefundTo,       \* the orders whose quote carries a refund address
    Notes,          \* bearer notes buyers hold at the mint
    Secrets,        \* replacement note secrets the node can draw
    Hashes,         \* payment hashes of invoices the backend can create
    RefundInvoices, \* invoices a refund address can issue
    QuoteSeconds,   \* Config::quote_seconds
    Transit,        \* the 15 seconds phoenixd.rs leaves for transit
    MaxOrders,      \* ledger row limit (10000 in the code)
    Capacity,       \* paid sales the store has room for
    MaxNow,         \* bound on the clock
    MaxCrashes,     \* bound on process crashes
    None            \* the absent value

ASSUME RailAssumption == Rail \in [Orders -> {"lightning", "lnurlcash"}]
ASSUME RefundToAssumption == RefundTo \subseteq Orders
ASSUME TimeAssumption ==
    QuoteSeconds \in Nat /\ Transit \in Nat /\ MaxNow \in Nat
ASSUME BoundAssumption ==
    MaxOrders \in Nat /\ Capacity \in Nat /\ MaxCrashes \in Nat
\* Distinct kinds of identifier never coincide: a hash is not a note secret.
ASSUME NoneAssumption ==
    None \notin Orders \cup Notes \cup Secrets \cup Hashes \cup RefundInvoices
ASSUME DisjointAssumption ==
    Notes \cap Secrets = {} /\ Hashes \cap Secrets = {}

VARIABLES
    now,         \* the node's clock
    ledger,      \* checkout.sqlite3, one row per order
    hold,        \* the store's paid sale for each order
    issuer,      \* is the quoted mint still in the configuration?
    op,          \* the handler in flight, lost in a crash
    crashes,
    invoiceSent, \* createinvoice requests still on their way
    invoices,    \* invoices the backend has created
    paid,        \* payment hashes the backend has been paid
    live,        \* notes and replacement secrets unspent at the mint
    drawn,       \* replacement secrets generated so far
    rotateSent,  \* rotation requests sent: input note, replacement
    meltSent,    \* melt requests sent: replacement, refund invoice
    melted       \* melts the mint performed: replacement, refund invoice

vars == <<now, ledger, hold, issuer, op, crashes, invoiceSent, invoices, paid,
          live, drawn, rotateSent, meltSent, melted>>
lightningVars == <<invoiceSent, invoices, paid>>
mintVars == <<live, drawn, rotateSent, meltSent, melted>>

States == {"none", "reserving", "quoted", "expired", "invoice_pending",
           "awaiting_payment", "lnurl_pending", "settled", "active",
           "refund_required", "refunded"}
Places == {"idle", "reserve", "reserved", "invoicing", "requested", "noteInfo",
           "recovering", "rotating", "rotateSent", "fulfil", "activated",
           "verify", "melt", "melting", "confirm"}
Idle == [at |-> "idle", order |-> None, note |-> None]
At(place, o) == [at |-> place, order |-> o, note |-> None]
Row == [state: States, expires: Nat, hash: Hashes \cup {None},
        note: Notes \cup {None}, secret: Secrets \cup {None}, certificate: BOOLEAN,
        settlement: Hashes \cup Secrets \cup {None},
        refund: RefundInvoices \cup {None}, verify: BOOLEAN]
Invoice == [order: Orders, hash: Hashes, expiry: Nat]
NoRow == [state |-> "none", expires |-> 0, hash |-> None, note |-> None,
          secret |-> None, certificate |-> FALSE, settlement |-> None,
          refund |-> None, verify |-> FALSE]

State(o) == ledger[o].state
Rows == {o \in Orders : State(o) # "none"}
Fresh(o) == now < ledger[o].expires

TypeOK ==
    /\ now \in Nat
    /\ ledger \in [Orders -> Row]
    /\ hold \in [Orders -> {"none", "held", "active"}]
    /\ issuer \in BOOLEAN
    /\ op \in [at: Places, order: Orders \cup {None}, note: Notes \cup {None}]
    /\ crashes \in Nat
    /\ invoiceSent \subseteq Orders \X Nat
    /\ invoices \subseteq Invoice
    /\ paid \subseteq Hashes
    /\ live \subseteq Notes \cup Secrets
    /\ drawn \subseteq Secrets
    /\ rotateSent \subseteq Notes \X Secrets
    /\ meltSent \subseteq Secrets \X RefundInvoices
    /\ melted \subseteq Secrets \X RefundInvoices

Init ==
    /\ now = 0
    /\ ledger = [o \in Orders |-> NoRow]
    /\ hold = [o \in Orders |-> "none"]
    /\ issuer = TRUE
    /\ op = Idle
    /\ crashes = 0
    /\ invoiceSent = {} /\ invoices = {} /\ paid = {}
    /\ live = Notes /\ drawn = {}
    /\ rotateSent = {} /\ meltSent = {} /\ melted = {}

-----------------------------------------------------------------------------
(* Ledger writes.  Each is one conditional UPDATE that names the state it    *)
(* leaves; a row in any other state fails with Conflict and is unchanged.    *)

LedgerState(o, from, to) ==
    /\ State(o) = from
    /\ ledger' = [ledger EXCEPT ![o].state = to]

LedgerInsert(o) ==
    /\ State(o) = "none"
    /\ Cardinality(Rows) < MaxOrders
    /\ ledger' = [ledger EXCEPT ![o] =
                    [NoRow EXCEPT !.state = "reserving", !.expires = now + QuoteSeconds]]

LedgerInvoice(o, h) ==
    /\ State(o) = "invoice_pending"
    /\ \A p \in Orders \ {o} : ledger[p].hash # h
    /\ ledger' = [ledger EXCEPT ![o].state = "awaiting_payment", ![o].hash = h]

\* Mutant: the note is not looked up among the other orders.
LedgerRotateShared(o, n, s) ==
    /\ State(o) = "quoted"
    /\ ledger' = [ledger EXCEPT ![o].state = "lnurl_pending", ![o].note = n,
                                ![o].secret = s]

LedgerRotate(o, n, s) ==
    /\ State(o) = "quoted"
    /\ \A p \in Orders : ledger[p].note # n
    /\ ledger' = [ledger EXCEPT ![o].state = "lnurl_pending", ![o].note = n,
                                ![o].secret = s]

LedgerSettle(o, from, reference, certified) ==
    /\ State(o) = from
    /\ \A p \in Orders \ {o} : ledger[p].settlement # reference
    /\ ledger' = [ledger EXCEPT ![o].state = "settled",
                                ![o].settlement = reference,
                                ![o].certificate = @ \/ certified]

LedgerStartRefund(o, r, verify) ==
    /\ State(o) = "refund_required"
    /\ ledger[o].refund = None
    /\ ledger' = [ledger EXCEPT ![o].refund = r, ![o].verify = verify]

LedgerUpdateRefund(o, verify) ==
    /\ State(o) = "refund_required"
    /\ ledger[o].refund # None
    /\ ledger' = [ledger EXCEPT ![o].verify = @ \/ verify]

-----------------------------------------------------------------------------
(* Quote and reservation.                                                    *)

\* quote() of a new request: the row is written before capacity is held.
Quote(o) ==
    /\ op = Idle
    /\ LedgerInsert(o)
    /\ op' = At("reserve", o)
    /\ UNCHANGED <<now, hold, issuer, crashes, lightningVars, mintVars>>

\* quote() repeated, or check(), on a row whose reservation was interrupted.
RetryReserve(o) ==
    /\ op = Idle
    /\ State(o) = "reserving"
    /\ op' = At("reserve", o)
    /\ UNCHANGED <<now, ledger, hold, issuer, crashes, lightningVars, mintVars>>

ReserveExpired(o) ==
    /\ op = At("reserve", o)
    /\ ~Fresh(o)
    /\ LedgerState(o, "reserving", "expired")
    /\ op' = Idle
    /\ UNCHANGED <<now, hold, issuer, crashes, lightningVars, mintVars>>

\* The store's live sales: activated ones and holds not yet past their expiry.
LiveSales == {o \in Orders : hold[o] = "active" \/ (hold[o] = "held" /\ Fresh(o))}

\* Store::reserve_paid_sale is idempotent for one order id.
StoreReserve(o) ==
    /\ hold[o] # "none" \/ Cardinality(LiveSales) < Capacity
    /\ hold' = [hold EXCEPT ![o] = IF @ = "none" THEN "held" ELSE @]

ReserveHold(o) ==
    /\ op = At("reserve", o)
    /\ Fresh(o)
    /\ StoreReserve(o)
    /\ op' = At("reserved", o)
    /\ UNCHANGED <<now, ledger, issuer, crashes, lightningVars, mintVars>>

\* The store refuses the sale: the row stays reserving and can be retried.
ReserveRefused(o) ==
    /\ op = At("reserve", o)
    /\ Fresh(o)
    /\ op' = Idle
    /\ UNCHANGED <<now, ledger, hold, issuer, crashes, lightningVars, mintVars>>

ReserveCommit(o) ==
    /\ op = At("reserved", o)
    /\ LedgerState(o, "reserving", "quoted")
    /\ op' = Idle
    /\ UNCHANGED <<now, hold, issuer, crashes, lightningVars, mintVars>>

-----------------------------------------------------------------------------
(* Lightning.                                                                *)

\* Mutant: an interrupted invoice creation is repeated.
LightningRepeated(o) ==
    /\ op = Idle
    /\ Rail[o] = "lightning"
    /\ Fresh(o)
    /\ State(o) \in {"quoted", "invoice_pending"}
    /\ ledger' = [ledger EXCEPT ![o].state = "invoice_pending"]
    /\ op' = At("invoicing", o)
    /\ UNCHANGED <<now, hold, issuer, crashes, lightningVars, mintVars>>

\* lightning(): the intent is durable before the backend hears of it.
Lightning(o) ==
    /\ op = Idle
    /\ Rail[o] = "lightning"
    /\ Fresh(o)
    /\ LedgerState(o, "quoted", "invoice_pending")
    /\ op' = At("invoicing", o)
    /\ UNCHANGED <<now, hold, issuer, crashes, lightningVars, mintVars>>

\* Phoenixd::create_invoice asks for an invoice that ends before the quote.
InvoiceRequest(o) ==
    /\ op = At("invoicing", o)
    /\ State(o) = "invoice_pending"
    /\ IF ledger[o].expires > now + Transit
       THEN /\ invoiceSent' = invoiceSent \cup {<<o, ledger[o].expires - (now + Transit)>>}
            /\ op' = At("requested", o)
       ELSE invoiceSent' = invoiceSent /\ op' = Idle
    /\ UNCHANGED <<now, ledger, hold, issuer, crashes, invoices, paid, mintVars>>

\* The backend handles the request, now or long after the handler gave up.
BackendCreate(request, h) ==
    /\ request \in invoiceSent
    /\ h \notin {i.hash : i \in invoices}
    /\ invoices' = invoices \cup {[order |-> request[1], hash |-> h,
                                   expiry |-> now + request[2]]}
    /\ invoiceSent' = invoiceSent \ {request}
    /\ UNCHANGED <<now, ledger, hold, issuer, op, crashes, paid, mintVars>>

\* Mutant: an invoice may outlive the quote.
ValidInvoiceAnyExpiry(o, i, allowExpired) ==
    /\ i.order = o
    /\ allowExpired \/ i.expiry > now

\* The description is the order id, the amount and network are the quote's.
ValidInvoice(o, i, allowExpired) ==
    /\ i.order = o
    /\ allowExpired \/ i.expiry > now
    /\ i.expiry <= ledger[o].expires

InvoiceAnswer(o, i) ==
    /\ op = At("requested", o)
    /\ i \in invoices
    /\ ValidInvoice(o, i, FALSE)
    /\ LedgerInvoice(o, i.hash)
    /\ op' = Idle
    /\ UNCHANGED <<now, hold, issuer, crashes, lightningVars, mintVars>>

\* No answer within 15 seconds, or one that fails validation: the row stays
\* invoice_pending and creation is never repeated.
InvoiceUncertain(o) ==
    /\ op = At("requested", o)
    /\ op' = Idle
    /\ UNCHANGED <<now, ledger, hold, issuer, crashes, lightningVars, mintVars>>

\* checkout-operator recover-invoice: the one invoice the backend lists.
RecoverInvoice(o, i) ==
    /\ op = Idle
    /\ Rail[o] = "lightning"
    /\ {j \in invoices : j.order = o} = {i}
    /\ ValidInvoice(o, i, TRUE)
    /\ LedgerInvoice(o, i.hash)
    /\ UNCHANGED <<now, hold, issuer, op, crashes, lightningVars, mintVars>>

\* A buyer learns an invoice only from the order row.
BuyerPays(o, i) ==
    /\ i \in invoices
    /\ ledger[o].hash = i.hash
    /\ now < i.expiry
    /\ paid' = paid \cup {i.hash}
    /\ UNCHANGED <<now, ledger, hold, issuer, op, crashes, invoiceSent, invoices, mintVars>>

\* check() of an order awaiting payment: the preimage matches the hash.
CheckInvoice(o) ==
    /\ op = Idle
    /\ ledger[o].hash \in paid
    /\ LedgerSettle(o, "awaiting_payment", ledger[o].hash, FALSE)
    /\ op' = At("fulfil", o)
    /\ UNCHANGED <<now, hold, issuer, crashes, lightningVars, mintVars>>

-----------------------------------------------------------------------------
(* LNURLcash.                                                                *)

\* lnurlcash(): the mint describes the offered note.
NoteInfo(o, n) ==
    /\ op = Idle
    /\ Rail[o] = "lnurlcash"
    /\ State(o) = "quoted"
    /\ Fresh(o)
    /\ issuer
    /\ n \in live
    /\ op' = [at |-> "noteInfo", order |-> o, note |-> n]
    /\ UNCHANGED <<now, ledger, hold, issuer, crashes, lightningVars, mintVars>>

\* The quote is checked again after the lookup, and the replacement secret is
\* journalled before the note is touched.
AcceptNote(o, n, s) ==
    /\ op = [at |-> "noteInfo", order |-> o, note |-> n]
    /\ Fresh(o)
    /\ s \notin drawn
    /\ drawn' = drawn \cup {s}
    /\ LedgerRotate(o, n, s)
    /\ op' = At("rotating", o)
    /\ UNCHANGED <<now, hold, issuer, crashes, lightningVars, live, rotateSent,
                   meltSent, melted>>

RefuseNote(o) ==
    /\ op.at = "noteInfo" /\ op.order = o
    /\ ~Fresh(o) \/ \E p \in Orders : ledger[p].note = op.note
    /\ op' = Idle
    /\ UNCHANGED <<now, ledger, hold, issuer, crashes, lightningVars, mintVars>>

\* check() of a pending rotation first asks about the saved replacement.
CheckRotation(o) ==
    /\ op = Idle
    /\ State(o) = "lnurl_pending"
    /\ issuer
    /\ op' = At("recovering", o)
    /\ UNCHANGED <<now, ledger, hold, issuer, crashes, lightningVars, mintVars>>

\* recover_rotation(): no certified replacement is visible, so the exact
\* journalled mutation is replayed.
NotRecovered(o) ==
    /\ op = At("recovering", o)
    /\ op' = At("rotating", o)
    /\ UNCHANGED <<now, ledger, hold, issuer, crashes, lightningVars, mintVars>>

\* Mutant: a replay draws a new replacement instead of the journalled one.
RotateSendFresh(o) ==
    /\ op = At("rotating", o)
    /\ \E s \in (Secrets \ drawn) \cup {ledger[o].secret} :
        /\ rotateSent' = rotateSent \cup {<<ledger[o].note, s>>}
        /\ drawn' = drawn \cup {s}
    /\ op' = At("rotateSent", o)
    /\ UNCHANGED <<now, ledger, hold, issuer, crashes, lightningVars, live, meltSent,
                   melted>>

RotateSend(o) ==
    /\ op = At("rotating", o)
    /\ IF issuer
       THEN /\ rotateSent' = rotateSent \cup {<<ledger[o].note, ledger[o].secret>>}
            /\ op' = At("rotateSent", o)
       ELSE rotateSent' = rotateSent /\ op' = Idle
    /\ UNCHANGED <<now, ledger, hold, issuer, crashes, lightningVars, live, drawn,
                   meltSent, melted>>

\* The mint swaps an unspent note for its replacement, whenever the request
\* arrives and however often it was sent.
MintRotate(n, s) ==
    /\ <<n, s>> \in rotateSent
    /\ n \in live
    /\ live' = (live \ {n}) \cup {s}
    /\ UNCHANGED <<now, ledger, hold, issuer, op, crashes, lightningVars, drawn,
                   rotateSent, meltSent, melted>>

\* The buyer spends an offered note elsewhere.
BuyerSpends(n) ==
    /\ n \in live \cap Notes
    /\ live' = live \ {n}
    /\ UNCHANGED <<now, ledger, hold, issuer, op, crashes, lightningVars, drawn,
                   rotateSent, meltSent, melted>>

\* Mutant: any answer to the rotation is taken as its certificate.
CertifyUnverified(o) ==
    /\ op \in {At("recovering", o), At("rotateSent", o)}
    /\ LedgerSettle(o, "lnurl_pending", ledger[o].secret, TRUE)
    /\ op' = At("fulfil", o)
    /\ UNCHANGED <<now, hold, issuer, crashes, lightningVars, mintVars>>

\* rotate() or recover_rotation() sees the mint's signature over the saved
\* replacement: the certificate and the settlement are one write.
Certify(o) ==
    /\ op \in {At("recovering", o), At("rotateSent", o)}
    /\ ledger[o].secret \in live
    /\ LedgerSettle(o, "lnurl_pending", ledger[o].secret, TRUE)
    /\ op' = At("fulfil", o)
    /\ UNCHANGED <<now, hold, issuer, crashes, lightningVars, mintVars>>

\* Lost, late or invalid answer to the rotation.
RotateUncertain(o) ==
    /\ op = At("rotateSent", o)
    /\ op' = Idle
    /\ UNCHANGED <<now, ledger, hold, issuer, crashes, lightningVars, mintVars>>

-----------------------------------------------------------------------------
(* Fulfilment and refund.                                                    *)

\* Mutant: check() treats a settled order as finished.
CheckSettledSkipped(o) ==
    /\ op = Idle
    /\ State(o) = "settled"
    /\ UNCHANGED vars

\* check() of a settled order whose fulfilment was interrupted.
CheckSettled(o) ==
    /\ op = Idle
    /\ State(o) = "settled"
    /\ op' = At("fulfil", o)
    /\ UNCHANGED <<now, ledger, hold, issuer, crashes, lightningVars, mintVars>>

\* Store::activate_paid_sale: idempotent, and refused once the hold lapsed.
CanActivate(o) == hold[o] = "active" \/ (hold[o] = "held" /\ Fresh(o))

FulfilActivate(o) ==
    /\ op = At("fulfil", o)
    /\ CanActivate(o)
    /\ hold' = [hold EXCEPT ![o] = "active"]
    /\ op' = At("activated", o)
    /\ UNCHANGED <<now, ledger, issuer, crashes, lightningVars, mintVars>>

FulfilCommit(o) ==
    /\ op = At("activated", o)
    /\ LedgerState(o, "settled", "active")
    /\ op' = Idle
    /\ UNCHANGED <<now, hold, issuer, crashes, lightningVars, mintVars>>

\* Mutant: an order whose hold has lapsed is refunded without asking the store.
FulfilUnavailableLapsed(o) ==
    /\ op = At("fulfil", o)
    /\ ~Fresh(o)
    /\ LedgerState(o, "settled", "refund_required")
    /\ op' = Idle
    /\ UNCHANGED <<now, hold, issuer, crashes, lightningVars, mintVars>>

FulfilUnavailable(o) ==
    /\ op = At("fulfil", o)
    /\ ~CanActivate(o)
    /\ LedgerState(o, "settled", "refund_required")
    /\ op' = Idle
    /\ UNCHANGED <<now, hold, issuer, crashes, lightningVars, mintVars>>

\* Any other store failure leaves the order settled, to be checked again.
FulfilError(o) ==
    /\ op = At("fulfil", o)
    /\ op' = Idle
    /\ UNCHANGED <<now, ledger, hold, issuer, crashes, lightningVars, mintVars>>

Refundable(o) ==
    /\ State(o) = "refund_required"
    /\ Rail[o] = "lnurlcash"
    /\ o \in RefundTo
    /\ ledger[o].certificate

\* refund(): the exact invoice, which no other order was given, is journalled
\* before the note is melted.
RefundPrepare(o, r, verify) ==
    /\ op = Idle
    /\ Refundable(o)
    /\ \A p \in Orders : ledger[p].refund # r
    /\ LedgerStartRefund(o, r, verify)
    /\ op' = At("melt", o)
    /\ UNCHANGED <<now, hold, issuer, crashes, lightningVars, mintVars>>

\* refund() again: a prepared refund is first looked up, then resumed.
RefundResume(o) ==
    /\ op = Idle
    /\ Refundable(o)
    /\ ledger[o].refund # None
    /\ op' = At("verify", o)
    /\ UNCHANGED <<now, ledger, hold, issuer, crashes, lightningVars, mintVars>>

NotVerified(o) ==
    /\ op = At("verify", o)
    /\ op' = At("melt", o)
    /\ UNCHANGED <<now, ledger, hold, issuer, crashes, lightningVars, mintVars>>

MeltSend(o) ==
    /\ op = At("melt", o)
    /\ meltSent' = meltSent \cup {<<ledger[o].secret, ledger[o].refund>>}
    /\ op' = At("melting", o)
    /\ UNCHANGED <<now, ledger, hold, issuer, crashes, lightningVars, live, drawn,
                   rotateSent, melted>>

\* The mint pays the invoice out of an unspent replacement.
MintMelt(s, r) ==
    /\ <<s, r>> \in meltSent
    /\ s \in live
    /\ live' = live \ {s}
    /\ melted' = melted \cup {<<s, r>>}
    /\ UNCHANGED <<now, ledger, hold, issuer, op, crashes, lightningVars, drawn,
                   rotateSent, meltSent>>

\* A valid melt answer may carry a verification address to journal.
MeltAnswer(o, verify) ==
    /\ op = At("melting", o)
    /\ LedgerUpdateRefund(o, verify)
    /\ op' = At("confirm", o)
    /\ UNCHANGED <<now, hold, issuer, crashes, lightningVars, mintVars>>

\* refund_settled() with a verification address to ask.
RefundConfirmed(o) ==
    /\ op \in {At("verify", o), At("confirm", o)}
    /\ ledger[o].verify
    /\ <<ledger[o].secret, ledger[o].refund>> \in melted
    /\ LedgerState(o, "refund_required", "refunded")
    /\ op' = Idle
    /\ UNCHANGED <<now, hold, issuer, crashes, lightningVars, mintVars>>

\* No melt answer, contradicting evidence, or no settlement seen yet.
RefundUncertain(o) ==
    /\ op \in {At("verify", o), At("melting", o), At("confirm", o)}
    /\ op' = Idle
    /\ UNCHANGED <<now, ledger, hold, issuer, crashes, lightningVars, mintVars>>

-----------------------------------------------------------------------------

Tick ==
    /\ now < MaxNow
    /\ now' = now + 1
    /\ UNCHANGED <<ledger, hold, issuer, op, crashes, lightningVars, mintVars>>

\* The process dies and is started again, perhaps with another configuration.
Crash ==
    /\ crashes < MaxCrashes
    /\ crashes' = crashes + 1
    /\ op' = Idle
    /\ issuer' \in BOOLEAN
    /\ UNCHANGED <<now, ledger, hold, lightningVars, mintVars>>

\* The next step of the handler in flight for order o.
Progress(o) ==
    \/ ReserveExpired(o) \/ ReserveHold(o) \/ ReserveRefused(o) \/ ReserveCommit(o)
    \/ InvoiceRequest(o) \/ InvoiceUncertain(o)
    \/ \E i \in invoices : InvoiceAnswer(o, i)
    \/ \E n \in Notes, s \in Secrets : AcceptNote(o, n, s)
    \/ RefuseNote(o) \/ NotRecovered(o) \/ RotateSend(o) \/ Certify(o)
    \/ RotateUncertain(o)
    \/ FulfilActivate(o) \/ FulfilCommit(o) \/ FulfilUnavailable(o)
    \/ FulfilError(o)
    \/ NotVerified(o) \/ MeltSend(o) \/ RefundConfirmed(o) \/ RefundUncertain(o)
    \/ \E verify \in BOOLEAN : MeltAnswer(o, verify)

\* A buyer or operator request that starts a handler on an existing row.
Check(o) == RetryReserve(o) \/ CheckInvoice(o) \/ CheckRotation(o) \/ CheckSettled(o)
Start(o) ==
    \/ Quote(o) \/ Lightning(o) \/ Check(o) \/ RefundResume(o)
    \/ \E i \in invoices : RecoverInvoice(o, i)
    \/ \E n \in Notes : NoteInfo(o, n)
    \/ \E r \in RefundInvoices, verify \in BOOLEAN : RefundPrepare(o, r, verify)

Environment ==
    \/ Tick \/ Crash
    \/ \E request \in invoiceSent, h \in Hashes : BackendCreate(request, h)
    \/ \E o \in Orders, i \in invoices : BuyerPays(o, i)
    \/ \E n \in Notes, s \in Secrets : MintRotate(n, s)
    \/ \E n \in Notes : BuyerSpends(n)
    \/ \E s \in Secrets, r \in RefundInvoices : MintMelt(s, r)

Next == Environment \/ \E o \in Orders : Start(o) \/ Progress(o)

Spec == Init /\ [][Next]_vars

-----------------------------------------------------------------------------
(* Safety.                                                                   *)

Pending == {"invoice_pending", "awaiting_payment", "lnurl_pending"}
Paid == {"settled", "active", "refund_required", "refunded"}

\* lightning() persists its intent before asking the backend and never asks
\* twice: through timeouts, late answers, crashes and recovery the backend
\* creates at most one invoice for an order.
OneInvoice == \A i, j \in invoices : i.order = j.order => i = j

\* lnurlcash() journals the replacement secret before it touches the note: an
\* unspent replacement at the mint is always recorded by the one order whose
\* note bought it, and that order can still settle, deliver or refund it.
AssetJournalled ==
    \A s \in live \cap Secrets :
        \E o \in Orders :
            /\ ledger[o].secret = s
            /\ State(o) \in {"lnurl_pending"} \cup (Paid \ {"refunded"})
            /\ \A p \in Orders \ {o} : ledger[p].secret # s

\* An offered note is journalled by at most one order, so no order is left
\* waiting for a note that another order's rotation consumed.
OneClaimPerNote ==
    \A o, p \in Orders :
        o # p /\ ledger[o].note # None => ledger[o].note # ledger[p].note

\* An order is settled only by money received for that very order, and one
\* payment never settles two orders.
SettledByOwnPayment ==
    \A o \in Orders :
        State(o) \in Paid =>
            /\ \/ /\ Rail[o] = "lightning"
                  /\ ledger[o].settlement \in paid
                  /\ \E i \in invoices : i.order = o /\ i.hash = ledger[o].settlement
               \/ /\ Rail[o] = "lnurlcash"
                  /\ <<ledger[o].note, ledger[o].settlement>> \in rotateSent
                  /\ ledger[o].note \notin live
            /\ \A p \in Orders \ {o} : ledger[p].settlement # ledger[o].settlement

\* The store's activation and the ledger agree across every crash between
\* them: an allowance is active only for a paid order, an active order has its
\* allowance, and an order owed a refund never also has the allowance.
DeliveredXorRefunded ==
    \A o \in Orders :
        /\ hold[o] = "active" => State(o) \in {"settled", "active"}
        /\ State(o) = "active" => hold[o] = "active"

\* A buyer is asked for money only while the store holds the capacity, and a
\* recorded invoice ends no later than the hold behind it.
SolicitedUnderHold ==
    \A o \in Orders :
        /\ State(o) \in Pending \cup {"quoted"} => hold[o] = "held"
        /\ \A i \in invoices : i.hash = ledger[o].hash => i.expiry <= ledger[o].expires

\* refund() pays one journalled invoice out of the order's own note, only for
\* an order that is owed a refund; it reports refunded only after that.
RefundExact ==
    /\ \A m \in melted :
        \E o \in Orders :
            /\ <<ledger[o].secret, ledger[o].refund>> = m
            /\ State(o) \in {"refund_required", "refunded"}
    /\ \A m1, m2 \in melted : m1[1] = m2[1] => m1 = m2
    /\ \A o \in Orders :
        State(o) = "refunded" => <<ledger[o].secret, ledger[o].refund>> \in melted

Successors == [
    none |-> {"reserving"}, reserving |-> {"quoted", "expired"},
    quoted |-> {"invoice_pending", "lnurl_pending"}, expired |-> {},
    invoice_pending |-> {"awaiting_payment"}, awaiting_payment |-> {"settled"},
    lnurl_pending |-> {"settled"}, settled |-> {"active", "refund_required"},
    active |-> {}, refund_required |-> {"refunded"}, refunded |-> {}]
WrittenOnce(old, new) == old # None => new = old

\* Whatever handlers, retries and crashes interleave, an order only moves
\* forward, and the identities it has journalled are never overwritten.
Forward ==
    \A o \in Orders :
        /\ State(o)' # State(o) => State(o)' \in Successors[State(o)]
        /\ WrittenOnce(ledger[o].hash, ledger'[o].hash)
        /\ WrittenOnce(ledger[o].note, ledger'[o].note)
        /\ WrittenOnce(ledger[o].secret, ledger'[o].secret)
        /\ WrittenOnce(ledger[o].settlement, ledger'[o].settlement)
        /\ WrittenOnce(ledger[o].refund, ledger'[o].refund)
ForwardOnly == [][Forward]_vars

-----------------------------------------------------------------------------
(* The sale as the buyer sees it, read off the money and the allowance       *)
(* themselves and not off the ledger's own account of them.                  *)

Received(o) == ledger[o].hash \in paid \/ ledger[o].secret \in live
Returned(o) == \E m \in melted : m[1] = ledger[o].secret
SaleStage(o) ==
    IF Returned(o) THEN "returned"
    ELSE IF State(o) = "refund_required" THEN "owed"
    ELSE IF hold[o] = "active" THEN "delivered"
    ELSE IF Received(o) THEN "paid"
    ELSE "open"
Promise == INSTANCE Sale WITH stage <- [o \in Orders |-> SaleStage(o)]

\* The checkout implements Sale: through crashes, lost answers and replays
\* every accepted payment is delivered or owed, never both, and paid back once.
ImplementsSale == Promise!Spec

-----------------------------------------------------------------------------
(* Liveness.  A handler that started runs on; buyers and operators repeat    *)
(* check(); the mint, the backend and the store do not fail for ever.        *)

Fairness ==
    /\ WF_vars(\E o \in Orders : Progress(o))
    /\ \A o \in Orders :
        /\ SF_vars(Check(o))
        /\ SF_vars(Certify(o))
        /\ SF_vars(FulfilActivate(o) \/ FulfilUnavailable(o))
        /\ SF_vars(FulfilCommit(o))
FairSpec == Spec /\ Fairness

\* Money that reached the node ends in an active allowance or in a recorded
\* obligation to refund, as long as the mint stays configured.
PaymentResolved ==
    \A o \in Orders :
        Received(o) ~> (State(o) \in {"active", "refund_required", "refunded"} \/ ~issuer)
=============================================================================
