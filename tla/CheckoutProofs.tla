--------------------------- MODULE CheckoutProofs ---------------------------
(***************************************************************************)
(* Safety of Checkout for any number of orders, notes and crashes, and its *)
(* refinement of Sale.  Every step writes the ledger or the state of one   *)
(* other party; the relations of CheckoutInvariant are shown to be kept by *)
(* what each of them may write, then the types and the handler in flight,  *)
(* and the theorems follow.                                                *)
(***************************************************************************)
EXTENDS CheckoutInvariant, TLAPS

\* The classification is exhaustive: Next has no other step.
LEMMA StepKinds ==
    ASSUME Next
    PROVE  StepKind
<1> USE DEF lightningVars, mintVars, StepKind
<1>1. CASE Environment
  BY Zenon, <1>1 DEF Environment, BackendWrite, MintWrite, Tick, Crash, BackendCreate,
              BuyerPays, MintRotate, BuyerSpends, MintMelt
<1>2. ASSUME NEW o \in Orders, Start(o)
      PROVE  StepKind
  BY Zenon, <1>2 DEF Start, Check, LedgerWrite, Quote, Lightning, RetryReserve, CheckInvoice,
              CheckRotation, CheckSettled, RefundResume, RecoverInvoice, NoteInfo,
              RefundPrepare
<1>3. ASSUME NEW o \in Orders, Progress(o)
      PROVE  StepKind
  BY Zenon, <1>3 DEF Progress, LedgerWrite, StoreWrite, BackendWrite, MintWrite,
              ReserveExpired, ReserveHold, ReserveRefused, ReserveCommit, InvoiceRequest,
              InvoiceUncertain, InvoiceAnswer, AcceptNote, RefuseNote, NotRecovered,
              RotateSend, Certify, RotateUncertain, FulfilActivate, FulfilCommit,
              FulfilUnavailable, FulfilError, NotVerified, MeltSend, RefundConfirmed,
              RefundUncertain, MeltAnswer
<1> QED
  BY Zenon, <1>1, <1>2, <1>3 DEF Next

Owed == {"refund_required", "refunded"}

\* A row as the backend sees it: same hash and expiry, no invoice state left,
\* no payment state entered.
LightningKept ==
    \A p \in Orders :
        /\ ledger'[p].hash = ledger[p].hash
        /\ ledger[p].hash # None => ledger'[p].expires = ledger[p].expires
        /\ State(p) \in Invoiced => State(p)' \in Invoiced
        /\ State(p)' \in Paid /\ Rail[p] = "lightning" => State(p) \in Paid

\* A row as a rotation sees it: same note and replacement, not newly settled.
NotesKept ==
    \A p \in Orders :
        /\ ledger'[p].note = ledger[p].note
        /\ ledger'[p].secret = ledger[p].secret
        /\ State(p)' \in Paid /\ Rail[p] = "lnurlcash" => State(p) \in Paid

\* A row as a melt sees it: same refund invoice, owed for as long as it was
\* owed, not newly refunded, and the same replacement if it is owed.
RefundsKept ==
    \A p \in Orders :
        /\ State(p) \in Owed => ledger'[p].refund = ledger[p].refund
        /\ State(p) \in Owed => ledger'[p].secret = ledger[p].secret
        /\ State(p) \in Owed => State(p)' \in Owed
        /\ State(p)' = "refunded" => State(p) = "refunded"

\* Only three ledger writes matter to the backend's invariants.
LEMMA LightningWrites ==
    ASSUME IInv, NEW o \in Orders, LedgerWrite(o)
    PROVE  \/ LightningKept
           \/ \E i \in invoices : InvoiceAnswer(o, i)
           \/ \E i \in invoices : RecoverInvoice(o, i)
           \/ CheckInvoice(o)
<1> USE RailAssumption, NoneAssumption
    DEF IInv, TypeOK, Row, State, Paid, Invoiced, LightningKept
<1>1. CASE Quote(o)
  BY <1>1 DEF Quote, LedgerInsert, NoRow, RowInv
<1>2. CASE ReserveExpired(o)
  BY <1>2 DEF ReserveExpired, LedgerState
<1>3. CASE ReserveCommit(o)
  BY <1>3 DEF ReserveCommit, LedgerState
<1>4. CASE Lightning(o)
  BY <1>4 DEF Lightning, LedgerState
<1>5. ASSUME NEW n \in Notes, NEW s \in Secrets, AcceptNote(o, n, s)
      PROVE  LightningKept
  BY <1>5 DEF AcceptNote, LedgerRotate
<1>6. CASE Certify(o)
  BY <1>6 DEF Certify, LedgerSettle, RowInv
<1>7. CASE FulfilCommit(o)
  BY <1>7 DEF FulfilCommit, LedgerState
<1>8. CASE FulfilUnavailable(o)
  BY <1>8 DEF FulfilUnavailable, LedgerState, CanActivate
<1>9. ASSUME NEW r \in RefundInvoices, NEW v \in BOOLEAN, RefundPrepare(o, r, v)
      PROVE  LightningKept
  BY <1>9 DEF RefundPrepare, LedgerStartRefund, Refundable
<1>10. ASSUME NEW v \in BOOLEAN, MeltAnswer(o, v)
      PROVE  LightningKept
  BY <1>10 DEF MeltAnswer, LedgerUpdateRefund
<1>11. CASE RefundConfirmed(o)
  BY <1>11 DEF RefundConfirmed, LedgerState
<1> HIDE DEF IInv, TypeOK, Row, State, Paid, Invoiced, LightningKept
<1> QED
  BY Zenon, <1>1, <1>2, <1>3, <1>4, <1>5, <1>6, <1>7, <1>8, <1>9, <1>10, <1>11 DEF LedgerWrite

\* Only two ledger writes matter to rotations.
LEMMA NotesWrites ==
    ASSUME IInv, NEW o \in Orders, LedgerWrite(o)
    PROVE  \/ NotesKept
           \/ \E n \in Notes, s \in Secrets : AcceptNote(o, n, s)
           \/ Certify(o)
<1> USE RailAssumption, NoneAssumption
    DEF IInv, TypeOK, Row, State, Paid, NotesKept
<1>1. CASE Quote(o)
  BY <1>1 DEF Quote, LedgerInsert, NoRow, RowInv, Rotated
<1>2. CASE ReserveExpired(o)
  BY <1>2 DEF ReserveExpired, LedgerState
<1>3. CASE ReserveCommit(o)
  BY <1>3 DEF ReserveCommit, LedgerState
<1>4. CASE Lightning(o)
  BY <1>4 DEF Lightning, LedgerState
<1>5. ASSUME NEW i \in invoices, InvoiceAnswer(o, i)
      PROVE  NotesKept
  BY <1>5 DEF InvoiceAnswer, LedgerInvoice, ValidInvoice
<1>6. ASSUME NEW i \in invoices, RecoverInvoice(o, i)
      PROVE  NotesKept
  BY <1>6 DEF RecoverInvoice, LedgerInvoice, ValidInvoice
<1>7. CASE CheckInvoice(o)
  BY <1>7 DEF CheckInvoice, LedgerSettle, RowInv
<1>8. CASE FulfilCommit(o)
  BY <1>8 DEF FulfilCommit, LedgerState
<1>9. CASE FulfilUnavailable(o)
  BY <1>9 DEF FulfilUnavailable, LedgerState, CanActivate
<1>10. ASSUME NEW r \in RefundInvoices, NEW v \in BOOLEAN, RefundPrepare(o, r, v)
      PROVE  NotesKept
  BY <1>10 DEF RefundPrepare, LedgerStartRefund, Refundable
<1>11. ASSUME NEW v \in BOOLEAN, MeltAnswer(o, v)
      PROVE  NotesKept
  BY <1>11 DEF MeltAnswer, LedgerUpdateRefund
<1>12. CASE RefundConfirmed(o)
  BY <1>12 DEF RefundConfirmed, LedgerState
<1> HIDE DEF IInv, TypeOK, Row, State, Paid, NotesKept
<1> QED
  BY Zenon, <1>1, <1>2, <1>3, <1>4, <1>5, <1>6, <1>7, <1>8, <1>9, <1>10, <1>11,
     <1>12 DEF LedgerWrite

\* Only two ledger writes matter to melts.
LEMMA RefundsWrites ==
    ASSUME IInv, NEW o \in Orders, LedgerWrite(o)
    PROVE  \/ RefundsKept
           \/ \E r \in RefundInvoices, v \in BOOLEAN : RefundPrepare(o, r, v)
           \/ RefundConfirmed(o)
<1> USE RailAssumption, NoneAssumption
    DEF IInv, TypeOK, Row, State, Owed, RefundsKept
<1>1. CASE Quote(o)
  BY Zenon, <1>1 DEF Quote, LedgerInsert, NoRow
<1>2. CASE ReserveExpired(o)
  BY <1>2 DEF ReserveExpired, LedgerState
<1>3. CASE ReserveCommit(o)
  BY <1>3 DEF ReserveCommit, LedgerState
<1>4. CASE Lightning(o)
  BY <1>4 DEF Lightning, LedgerState
<1>5. ASSUME NEW i \in invoices, InvoiceAnswer(o, i)
      PROVE  RefundsKept
  BY <1>5 DEF InvoiceAnswer, LedgerInvoice, ValidInvoice
<1>6. ASSUME NEW i \in invoices, RecoverInvoice(o, i)
      PROVE  RefundsKept
  BY <1>6 DEF RecoverInvoice, LedgerInvoice, ValidInvoice
<1>7. CASE CheckInvoice(o)
  BY <1>7 DEF CheckInvoice, LedgerSettle
<1>8. ASSUME NEW n \in Notes, NEW s \in Secrets, AcceptNote(o, n, s)
      PROVE  RefundsKept
  BY <1>8 DEF AcceptNote, LedgerRotate
<1>9. CASE Certify(o)
  BY <1>9 DEF Certify, LedgerSettle
<1>10. CASE FulfilCommit(o)
  BY <1>10 DEF FulfilCommit, LedgerState
<1>11. CASE FulfilUnavailable(o)
  BY <1>11 DEF FulfilUnavailable, LedgerState, CanActivate
<1>12. ASSUME NEW v \in BOOLEAN, MeltAnswer(o, v)
      PROVE  RefundsKept
  BY <1>12 DEF MeltAnswer, LedgerUpdateRefund
<1> HIDE DEF IInv, TypeOK, Row, State, Owed, RefundsKept
<1> QED
  BY Zenon, <1>1, <1>2, <1>3, <1>4, <1>5, <1>6, <1>7, <1>8, <1>9, <1>10, <1>11,
     <1>12 DEF LedgerWrite

-----------------------------------------------------------------------------
(* Each part of IInv is preserved.                                           *)

\* The store and the ledger stay in step.
LEMMA HoldInductive ==
    ASSUME IInv, Next
    PROVE  HoldInv'
<1> USE RailAssumption, NoneAssumption
    DEF IInv, TypeOK, Row, State, HoldInv, Pending
<1>1. CASE UNCHANGED <<ledger, hold>>
  BY Zenon, <1>1
<1>2. ASSUME NEW o \in Orders, Quote(o)
      PROVE  HoldInv'
  BY Zenon, <1>2 DEF Quote, LedgerInsert, NoRow
<1>3. ASSUME NEW o \in Orders, ReserveExpired(o)
      PROVE  HoldInv'
  BY <1>3 DEF ReserveExpired, LedgerState
<1>4. ASSUME NEW o \in Orders, ReserveCommit(o)
      PROVE  HoldInv'
  BY <1>4 DEF ReserveCommit, LedgerState, OpInv, Idle, At
<1>5. ASSUME NEW o \in Orders, Lightning(o)
      PROVE  HoldInv'
  BY <1>5 DEF Lightning, LedgerState
<1>6. ASSUME NEW o \in Orders, NEW i \in invoices, InvoiceAnswer(o, i)
      PROVE  HoldInv'
  BY <1>6 DEF InvoiceAnswer, LedgerInvoice, ValidInvoice
<1>7. ASSUME NEW o \in Orders, NEW i \in invoices, RecoverInvoice(o, i)
      PROVE  HoldInv'
  BY <1>7 DEF RecoverInvoice, LedgerInvoice, ValidInvoice
<1>8. ASSUME NEW o \in Orders, CheckInvoice(o)
      PROVE  HoldInv'
  BY <1>8 DEF CheckInvoice, LedgerSettle
<1>9. ASSUME NEW o \in Orders, NEW n \in Notes, NEW s \in Secrets, AcceptNote(o, n, s)
      PROVE  HoldInv'
  BY <1>9 DEF AcceptNote, LedgerRotate
<1>10. ASSUME NEW o \in Orders, Certify(o)
      PROVE  HoldInv'
  BY <1>10 DEF Certify, LedgerSettle
<1>11. ASSUME NEW o \in Orders, FulfilCommit(o)
      PROVE  HoldInv'
  BY <1>11 DEF FulfilCommit, LedgerState, OpInv, Idle, At
<1>12. ASSUME NEW o \in Orders, FulfilUnavailable(o)
      PROVE  HoldInv'
  BY <1>12 DEF FulfilUnavailable, LedgerState, CanActivate
<1>13. ASSUME NEW o \in Orders, NEW r \in RefundInvoices, NEW v \in BOOLEAN,
             RefundPrepare(o, r, v)
      PROVE  HoldInv'
  BY <1>13 DEF RefundPrepare, LedgerStartRefund, Refundable
<1>14. ASSUME NEW o \in Orders, NEW v \in BOOLEAN, MeltAnswer(o, v)
      PROVE  HoldInv'
  BY <1>14 DEF MeltAnswer, LedgerUpdateRefund
<1>15. ASSUME NEW o \in Orders, RefundConfirmed(o)
      PROVE  HoldInv'
  BY <1>15 DEF RefundConfirmed, LedgerState
<1>16. ASSUME NEW o \in Orders, ReserveHold(o)
      PROVE  HoldInv'
  BY Zenon, <1>16 DEF ReserveHold, StoreReserve, OpInv, Idle, At
<1>17. ASSUME NEW o \in Orders, FulfilActivate(o)
      PROVE  HoldInv'
  BY <1>17 DEF FulfilActivate, CanActivate, OpInv, Idle, At
<1> HIDE DEF IInv, TypeOK, Row, State, HoldInv, Pending
<1> QED
  BY Zenon, <1>1, <1>2, <1>3, <1>4, <1>5, <1>6, <1>7, <1>8, <1>9, <1>10, <1>11, <1>12, <1>13,
     <1>14, <1>15, <1>16, <1>17, StepKinds DEF StepKind, LedgerWrite, StoreWrite

\* The columns of a row stay those its state implies.
LEMMA RowInductive ==
    ASSUME IInv, Next
    PROVE  RowInv'
<1> USE RailAssumption, NoneAssumption, DisjointAssumption
    DEF IInv, TypeOK, Row, State, RowInv, Paid, Invoiced, Rotated
<1>1. CASE UNCHANGED ledger
  BY Zenon, <1>1
<1>2. ASSUME NEW o \in Orders, Quote(o)
      PROVE  RowInv'
  BY <1>2 DEF Quote, LedgerInsert, NoRow
<1>3. ASSUME NEW o \in Orders, ReserveExpired(o)
      PROVE  RowInv'
  BY <1>3 DEF ReserveExpired, LedgerState
<1>4. ASSUME NEW o \in Orders, ReserveCommit(o)
      PROVE  RowInv'
  BY <1>4 DEF ReserveCommit, LedgerState
<1>5. ASSUME NEW o \in Orders, Lightning(o)
      PROVE  RowInv'
  BY <1>5 DEF Lightning, LedgerState
<1>6. ASSUME NEW o \in Orders, NEW i \in invoices, InvoiceAnswer(o, i)
      PROVE  RowInv'
  BY <1>6 DEF InvoiceAnswer, LedgerInvoice, ValidInvoice, Invoice
<1>7. ASSUME NEW o \in Orders, NEW i \in invoices, RecoverInvoice(o, i)
      PROVE  RowInv'
  BY <1>7 DEF RecoverInvoice, LedgerInvoice, ValidInvoice, Invoice
<1>8. ASSUME NEW o \in Orders, CheckInvoice(o)
      PROVE  RowInv'
  BY <1>8 DEF CheckInvoice, LedgerSettle
<1>9. ASSUME NEW o \in Orders, NEW n \in Notes, NEW s \in Secrets, AcceptNote(o, n, s)
      PROVE  RowInv'
  BY <1>9 DEF AcceptNote, LedgerRotate, OpInv, Idle, At
<1>10. ASSUME NEW o \in Orders, Certify(o)
      PROVE  RowInv'
  BY <1>10 DEF Certify, LedgerSettle
<1>11. ASSUME NEW o \in Orders, FulfilCommit(o)
      PROVE  RowInv'
  BY <1>11 DEF FulfilCommit, LedgerState
<1>12. ASSUME NEW o \in Orders, FulfilUnavailable(o)
      PROVE  RowInv'
  BY <1>12 DEF FulfilUnavailable, LedgerState, CanActivate
<1>13. ASSUME NEW o \in Orders, NEW r \in RefundInvoices, NEW v \in BOOLEAN,
             RefundPrepare(o, r, v)
      PROVE  RowInv'
  BY <1>13 DEF RefundPrepare, LedgerStartRefund, Refundable
<1>14. ASSUME NEW o \in Orders, NEW v \in BOOLEAN, MeltAnswer(o, v)
      PROVE  RowInv'
  BY <1>14 DEF MeltAnswer, LedgerUpdateRefund
<1>15. ASSUME NEW o \in Orders, RefundConfirmed(o)
      PROVE  RowInv'
  BY <1>15 DEF RefundConfirmed, LedgerState
<1> HIDE DEF IInv, TypeOK, Row, State, RowInv, Paid, Invoiced, Rotated
<1> QED
  BY <1>1, <1>2, <1>3, <1>4, <1>5, <1>6, <1>7, <1>8, <1>9, <1>10, <1>11, <1>12, <1>13,
     <1>14, <1>15, StepKinds DEF StepKind, LedgerWrite

\* Identities stay unique.
LEMMA UniqueInductive ==
    ASSUME IInv, Next
    PROVE  UniqueInv'
<1> USE RailAssumption, NoneAssumption
    DEF IInv, TypeOK, Row, State, UniqueInv
<1>1. CASE UNCHANGED ledger
  BY Zenon, <1>1
<1>2. CASE LightningKept /\ NotesKept
  BY <1>2 DEF LightningKept, NotesKept
<1>3. ASSUME NEW o \in Orders, NEW i \in invoices, InvoiceAnswer(o, i)
      PROVE  UniqueInv'
  BY <1>3 DEF InvoiceAnswer, LedgerInvoice, ValidInvoice
<1>4. ASSUME NEW o \in Orders, NEW i \in invoices, RecoverInvoice(o, i)
      PROVE  UniqueInv'
  BY <1>4 DEF RecoverInvoice, LedgerInvoice, ValidInvoice
<1>5. ASSUME NEW o \in Orders, CheckInvoice(o)
      PROVE  UniqueInv'
  BY <1>5 DEF CheckInvoice, LedgerSettle
<1>6. ASSUME NEW o \in Orders, NEW n \in Notes, NEW s \in Secrets, AcceptNote(o, n, s)
      PROVE  UniqueInv'
  BY <1>6 DEF AcceptNote, LedgerRotate, RotationInv
<1>7. ASSUME NEW o \in Orders, Certify(o)
      PROVE  UniqueInv'
  BY <1>7 DEF Certify, LedgerSettle
<1> HIDE DEF IInv, TypeOK, Row, State, UniqueInv
<1> QED
  BY Zenon, <1>1, <1>2, <1>3, <1>4, <1>5, <1>6, <1>7, StepKinds, LightningWrites,
     NotesWrites DEF StepKind, LedgerWrite

\* Invoice requests in flight keep their order.
LEMMA SentInductive ==
    ASSUME IInv, Next
    PROVE  SentInv'
<1> USE RailAssumption, NoneAssumption
    DEF IInv, TypeOK, Row, State, SentInv, Paid, Invoiced, lightningVars
<1>1. CASE UNCHANGED <<ledger, invoiceSent, invoices>>
  BY Zenon, <1>1
<1>2. CASE LightningKept /\ UNCHANGED <<invoiceSent, invoices>>
  BY <1>2 DEF LightningKept
<1>3. ASSUME NEW o \in Orders, NEW i \in invoices, InvoiceAnswer(o, i)
      PROVE  SentInv'
  BY Zenon, <1>3 DEF InvoiceAnswer, LedgerInvoice, ValidInvoice
<1>4. ASSUME NEW o \in Orders, NEW i \in invoices, RecoverInvoice(o, i)
      PROVE  SentInv'
  BY <1>4 DEF RecoverInvoice, LedgerInvoice, ValidInvoice
<1>5. ASSUME NEW o \in Orders, CheckInvoice(o)
      PROVE  SentInv'
  BY <1>5 DEF CheckInvoice, LedgerSettle
<1>6. ASSUME NEW o \in Orders, InvoiceRequest(o)
      PROVE  SentInv'
  BY <1>6 DEF InvoiceRequest, OpInv, Idle, At, RowInv
<1>7. ASSUME NEW request \in invoiceSent, NEW h \in Hashes, BackendCreate(request, h)
      PROVE  SentInv'
  BY <1>7 DEF BackendCreate
<1>8. ASSUME NEW o \in Orders, NEW i \in invoices, BuyerPays(o, i)
      PROVE  SentInv'
  BY Zenon, <1>8 DEF BuyerPays
<1> HIDE DEF IInv, TypeOK, Row, State, SentInv, Paid, Invoiced, lightningVars
<1> QED
  BY Zenon, <1>1, <1>2, <1>3, <1>4, <1>5, <1>6, <1>7, <1>8, StepKinds,
     LightningWrites DEF StepKind, LedgerWrite, BackendWrite

\* Invoices keep their order, and stay one to an order.
LEMMA InvoiceInductive ==
    ASSUME IInv, Next
    PROVE  InvoiceInv'
<1> USE RailAssumption, NoneAssumption
    DEF IInv, TypeOK, Row, State, InvoiceInv, Invoice, Paid, Invoiced, lightningVars
<1>1. CASE UNCHANGED <<ledger, invoices>>
  BY Zenon, <1>1
<1>2. CASE LightningKept /\ UNCHANGED invoices
  BY <1>2 DEF LightningKept
<1>3. ASSUME NEW o \in Orders, NEW i \in invoices, InvoiceAnswer(o, i)
      PROVE  InvoiceInv'
  BY <1>3 DEF InvoiceAnswer, LedgerInvoice, ValidInvoice
<1>4. ASSUME NEW o \in Orders, NEW i \in invoices, RecoverInvoice(o, i)
      PROVE  InvoiceInv'
  BY <1>4 DEF RecoverInvoice, LedgerInvoice, ValidInvoice
<1>5. ASSUME NEW o \in Orders, CheckInvoice(o)
      PROVE  InvoiceInv'
  BY <1>5 DEF CheckInvoice, LedgerSettle
<1>6. ASSUME NEW o \in Orders, InvoiceRequest(o)
      PROVE  InvoiceInv'
  BY Zenon, <1>6 DEF InvoiceRequest
<1>7. ASSUME NEW request \in invoiceSent, NEW h \in Hashes, BackendCreate(request, h)
      PROVE  InvoiceInv'
  BY <1>7 DEF BackendCreate, SentInv
<1>8. ASSUME NEW o \in Orders, NEW i \in invoices, BuyerPays(o, i)
      PROVE  InvoiceInv'
  BY Zenon, <1>8 DEF BuyerPays
<1> HIDE DEF IInv, TypeOK, Row, State, InvoiceInv, Invoice, Paid, Invoiced,
             lightningVars
<1> QED
  BY Zenon, <1>1, <1>2, <1>3, <1>4, <1>5, <1>6, <1>7, <1>8, StepKinds,
     LightningWrites DEF StepKind, LedgerWrite, BackendWrite

\* A recorded invoice exists, and a settled one was paid.
LEMMA HashInductive ==
    ASSUME IInv, Next
    PROVE  HashInv'
<1> USE RailAssumption, NoneAssumption
    DEF IInv, TypeOK, Row, State, HashInv, Invoice, Paid, lightningVars
<1>1. CASE UNCHANGED <<ledger, invoices, paid>>
  BY Zenon, <1>1
<1>2. CASE LightningKept /\ UNCHANGED <<invoices, paid>>
  BY <1>2 DEF LightningKept
<1>3. ASSUME NEW o \in Orders, NEW i \in invoices, InvoiceAnswer(o, i)
      PROVE  HashInv'
  <2>1. /\ i.order = o /\ i.expiry <= ledger[o].expires /\ UNCHANGED <<invoices, paid>>
        /\ \A p \in Orders \ {o} : ledger'[p] = ledger[p]
        /\ ledger'[o].hash = i.hash /\ ledger'[o].expires = ledger[o].expires
        /\ State(o)' = "awaiting_payment"
    BY <1>3 DEF InvoiceAnswer, LedgerInvoice, ValidInvoice
  <2> QED
    BY <2>1
<1>4. ASSUME NEW o \in Orders, NEW i \in invoices, RecoverInvoice(o, i)
      PROVE  HashInv'
  BY <1>4 DEF RecoverInvoice, LedgerInvoice, ValidInvoice
<1>5. ASSUME NEW o \in Orders, CheckInvoice(o)
      PROVE  HashInv'
  BY <1>5 DEF CheckInvoice, LedgerSettle
<1>6. ASSUME NEW o \in Orders, InvoiceRequest(o)
      PROVE  HashInv'
  BY Zenon, <1>6 DEF InvoiceRequest
<1>7. ASSUME NEW request \in invoiceSent, NEW h \in Hashes, BackendCreate(request, h)
      PROVE  HashInv'
  BY Zenon, <1>7 DEF BackendCreate
<1>8. ASSUME NEW o \in Orders, NEW i \in invoices, BuyerPays(o, i)
      PROVE  HashInv'
  BY Zenon, <1>8 DEF BuyerPays
<1> HIDE DEF IInv, TypeOK, Row, State, HashInv, Invoice, Paid, lightningVars
<1> QED
  BY Zenon, <1>1, <1>2, <1>3, <1>4, <1>5, <1>6, <1>7, <1>8, StepKinds,
     LightningWrites DEF StepKind, LedgerWrite, BackendWrite

\* A payment always belongs to a recorded invoice.
LEMMA PaidInductive ==
    ASSUME IInv, Next
    PROVE  PaidInv'
<1> USE RailAssumption, NoneAssumption
    DEF IInv, TypeOK, Row, State, PaidInv, lightningVars
<1>1. CASE UNCHANGED <<ledger, paid>>
  BY Zenon, <1>1
<1>2. CASE LightningKept /\ UNCHANGED paid
  BY Zenon, <1>2 DEF LightningKept
<1>3. ASSUME NEW o \in Orders, NEW i \in invoices, InvoiceAnswer(o, i)
      PROVE  PaidInv'
  BY <1>3 DEF InvoiceAnswer, LedgerInvoice, ValidInvoice, RowInv, Invoiced, Paid
<1>4. ASSUME NEW o \in Orders, NEW i \in invoices, RecoverInvoice(o, i)
      PROVE  PaidInv'
  BY <1>4 DEF RecoverInvoice, LedgerInvoice, ValidInvoice, RowInv, Invoiced, Paid
<1>5. ASSUME NEW o \in Orders, CheckInvoice(o)
      PROVE  PaidInv'
  BY <1>5 DEF CheckInvoice, LedgerSettle
<1>6. ASSUME NEW o \in Orders, InvoiceRequest(o)
      PROVE  PaidInv'
  BY Zenon, <1>6 DEF InvoiceRequest
<1>7. ASSUME NEW request \in invoiceSent, NEW h \in Hashes, BackendCreate(request, h)
      PROVE  PaidInv'
  BY Zenon, <1>7 DEF BackendCreate
<1>8. ASSUME NEW o \in Orders, NEW i \in invoices, BuyerPays(o, i)
      PROVE  PaidInv'
  BY Zenon, <1>8 DEF BuyerPays
<1> HIDE DEF IInv, TypeOK, Row, State, PaidInv, lightningVars
<1> QED
  BY Zenon, <1>1, <1>2, <1>3, <1>4, <1>5, <1>6, <1>7, <1>8, StepKinds,
     LightningWrites DEF StepKind, LedgerWrite, BackendWrite

\* Rotations in flight keep their order.
LEMMA RotationInductive ==
    ASSUME IInv, Next
    PROVE  RotationInv'
<1> USE RailAssumption, NoneAssumption
    DEF IInv, TypeOK, Row, State, RotationInv, mintVars
<1>1. CASE UNCHANGED <<ledger, drawn, rotateSent>>
  BY Zenon, <1>1
<1>2. CASE NotesKept /\ drawn \subseteq drawn' /\ UNCHANGED rotateSent
  BY <1>2 DEF NotesKept
<1>3. ASSUME NEW o \in Orders, NEW n \in Notes, NEW s \in Secrets, AcceptNote(o, n, s)
      PROVE  RotationInv'
  BY <1>3 DEF AcceptNote, LedgerRotate, RowInv, Rotated, Paid
<1>4. ASSUME NEW o \in Orders, Certify(o)
      PROVE  RotationInv'
  BY <1>4 DEF Certify, LedgerSettle
<1>5. ASSUME NEW o \in Orders, RotateSend(o)
      PROVE  RotationInv'
  BY <1>5 DEF RotateSend
<1>6. ASSUME NEW o \in Orders, MeltSend(o)
      PROVE  RotationInv'
  BY Zenon, <1>6 DEF MeltSend
<1>7. ASSUME NEW n \in Notes, NEW s \in Secrets, MintRotate(n, s)
      PROVE  RotationInv'
  BY Zenon, <1>7 DEF MintRotate
<1>8. ASSUME NEW n \in Notes, BuyerSpends(n)
      PROVE  RotationInv'
  BY Zenon, <1>8 DEF BuyerSpends
<1>9. ASSUME NEW s \in Secrets, NEW r \in RefundInvoices, MintMelt(s, r)
      PROVE  RotationInv'
  BY Zenon, <1>9 DEF MintMelt
<1> HIDE DEF IInv, TypeOK, Row, State, RotationInv, mintVars
<1> QED
  BY Zenon, <1>1, <1>2, <1>3, <1>4, <1>5, <1>6, <1>7, <1>8, <1>9, StepKinds,
     NotesWrites DEF StepKind, LedgerWrite, MintWrite

\* Replacements at the mint keep their order.
LEMMA ReplacementInductive ==
    ASSUME IInv, Next
    PROVE  ReplacementInv'
<1> USE RailAssumption, NoneAssumption, DisjointAssumption
    DEF IInv, TypeOK, Row, State, ReplacementInv, Bought, Paid, mintVars
<1>1. CASE UNCHANGED <<ledger, live, rotateSent>>
  BY Zenon, <1>1
<1>2. CASE NotesKept /\ UNCHANGED <<live, rotateSent>>
  <2>1. ASSUME NEW o \in Orders, NEW s \in Secrets, Bought(o, s)
        PROVE  Bought(o, s)'
    BY Zenon, <1>2, <2>1 DEF NotesKept
  <2>2. \A o \in Orders : Bought(o, ledger[o].secret) => Bought(o, ledger[o].secret)'
    BY Zenon, <1>2 DEF NotesKept
  <2> HIDE DEF Bought
  <2> QED
    BY Zenon, <1>2, <2>1, <2>2 DEF NotesKept
<1>3. ASSUME NEW o \in Orders, NEW n \in Notes, NEW s \in Secrets, AcceptNote(o, n, s)
      PROVE  ReplacementInv'
  BY <1>3 DEF AcceptNote, LedgerRotate, RowInv, RotationInv, Rotated
<1>4. ASSUME NEW o \in Orders, Certify(o)
      PROVE  ReplacementInv'
  <2>1. /\ UNCHANGED <<live, rotateSent>> /\ ledger[o].secret \in live
        /\ State(o) = "lnurl_pending"
        /\ \A p \in Orders : /\ ledger'[p].note = ledger[p].note
                             /\ ledger'[p].secret = ledger[p].secret
                             /\ p # o => State(p)' = State(p)
    BY <1>4 DEF Certify, LedgerSettle
  <2>2. ASSUME NEW p \in Orders, NEW s
        PROVE  Bought(p, s)' <=> Bought(p, s)
    BY Zenon, <2>1
  <2>3. ledger[o].secret \in Secrets
    BY <2>1 DEF RowInv, Rotated
  <2>4. PICK p \in Orders : Bought(p, ledger[o].secret)
    BY Zenon, <2>1, <2>3
  <2>5. p = o
    BY Zenon, <2>3, <2>4 DEF UniqueInv
  <2> HIDE DEF Bought
  <2> QED
    BY <2>1, <2>2, <2>4, <2>5
<1>5. ASSUME NEW o \in Orders, RotateSend(o)
      PROVE  ReplacementInv'
  <2>1. UNCHANGED <<ledger, live>> /\ rotateSent \subseteq rotateSent'
    BY <1>5 DEF RotateSend
  <2>2. ASSUME NEW p \in Orders, NEW s, Bought(p, s)
        PROVE  Bought(p, s)'
    BY Zenon, <2>1, <2>2
  <2> HIDE DEF Bought
  <2> QED
    BY Zenon, <2>1, <2>2
<1>6. ASSUME NEW o \in Orders, MeltSend(o)
      PROVE  ReplacementInv'
  BY Zenon, <1>1, <1>6 DEF MeltSend
<1>7. ASSUME NEW n \in Notes, NEW s \in Secrets, MintRotate(n, s)
      PROVE  ReplacementInv'
  <2>1. /\ UNCHANGED <<ledger, rotateSent>> /\ <<n, s>> \in rotateSent
        /\ live' = (live \ {n}) \cup {s} /\ n # s
    BY Zenon, <1>7 DEF MintRotate
  <2>2. PICK o \in Orders : ledger[o].note = n /\ ledger[o].secret = s
    BY <2>1 DEF RotationInv
  <2>3. Bought(o, s)'
    BY Zenon, <2>1, <2>2
  <2>4. ASSUME NEW p \in Orders, NEW t \in Secrets, Bought(p, t)
        PROVE  Bought(p, t)'
    <3>1. ledger[p].note \in Notes
      BY <2>4 DEF RowInv
    <3> QED
      BY Zenon, <2>1, <2>4, <3>1
  <2>5. \A p \in Orders : State(p) \in Paid /\ Rail[p] = "lnurlcash" =>
            ledger[p].secret \in Secrets
    BY DEF RowInv, Rotated
  <2> HIDE DEF Bought
  <2> QED
    BY <2>1, <2>3, <2>4, <2>5
<1>8. ASSUME NEW n \in Notes, BuyerSpends(n)
      PROVE  ReplacementInv'
  BY Zenon, <1>8 DEF BuyerSpends
<1>9. ASSUME NEW s \in Secrets, NEW r \in RefundInvoices, MintMelt(s, r)
      PROVE  ReplacementInv'
  BY Zenon, <1>9 DEF MintMelt
<1> HIDE DEF IInv, TypeOK, Row, State, ReplacementInv, Bought, Paid, mintVars
<1> QED
  BY Zenon, <1>1, <1>2, <1>3, <1>4, <1>5, <1>6, <1>7, <1>8, <1>9, StepKinds,
     NotesWrites DEF StepKind, LedgerWrite, MintWrite

\* Melts keep their order, and a replacement is melted once.
LEMMA MeltInductive ==
    ASSUME IInv, Next
    PROVE  MeltInv'
<1> USE RailAssumption, NoneAssumption, DisjointAssumption
    DEF IInv, TypeOK, Row, State, MeltInv, Owed, mintVars
<1>1. CASE UNCHANGED <<ledger, live, meltSent, melted>>
  BY Zenon, <1>1
<1>2. CASE RefundsKept /\ UNCHANGED <<live, meltSent, melted>>
  BY <1>2 DEF RefundsKept
<1>3. ASSUME NEW o \in Orders, NEW r \in RefundInvoices, NEW v \in BOOLEAN,
             RefundPrepare(o, r, v)
      PROVE  MeltInv'
  <2>1. /\ UNCHANGED <<live, meltSent, melted>>
        /\ State(o) = "refund_required" /\ ledger[o].refund = None
        /\ \A p \in Orders : /\ ledger'[p].secret = ledger[p].secret
                             /\ State(p)' = State(p)
                             /\ p # o => ledger'[p].refund = ledger[p].refund
    BY <1>3 DEF RefundPrepare, LedgerStartRefund, Refundable, mintVars
  <2>2. ASSUME NEW q \in meltSent
        PROVE  \E p \in Orders : /\ ledger'[p].secret = q[1] /\ ledger'[p].refund = q[2]
                                 /\ State(p)' \in Owed
    <3>1. PICK p \in Orders : /\ ledger[p].secret = q[1] /\ ledger[p].refund = q[2]
                              /\ State(p) \in Owed
      BY Zenon
    <3>2. p # o
      BY <2>1, <3>1
    <3>3. /\ ledger'[p].secret = ledger[p].secret /\ ledger'[p].refund = ledger[p].refund
          /\ State(p)' = State(p)
      BY Zenon, <2>1, <3>2
    <3> QED
      BY Zenon, <3>1, <3>3
  <2>3. ASSUME NEW p \in Orders, State(p)' = "refunded"
        PROVE  <<ledger'[p].secret, ledger'[p].refund>> \in melted'
    <3>1. State(p) = "refunded"
      BY Zenon, <2>1, <2>3
    <3>2. p # o
      BY Zenon, <2>1, <3>1
    <3>3. ledger'[p].secret = ledger[p].secret /\ ledger'[p].refund = ledger[p].refund
      BY Zenon, <2>1, <3>2
    <3> QED
      BY Zenon, <2>1, <3>1, <3>3
  <2> QED
    BY Zenon, <2>1, <2>2, <2>3
<1>4. ASSUME NEW o \in Orders, RefundConfirmed(o)
      PROVE  MeltInv'
  <2>1. /\ UNCHANGED <<live, meltSent, melted>>
        /\ <<ledger[o].secret, ledger[o].refund>> \in melted
        /\ \A p \in Orders : /\ ledger'[p].secret = ledger[p].secret
                             /\ ledger'[p].refund = ledger[p].refund
                             /\ State(p) \in Owed => State(p)' \in Owed
                             /\ p # o => State(p)' = State(p)
    BY <1>4 DEF RefundConfirmed, LedgerState, mintVars
  <2>2. ASSUME NEW p \in Orders, State(p)' = "refunded"
        PROVE  <<ledger'[p].secret, ledger'[p].refund>> \in melted'
    BY Zenon, <2>1, <2>2
  <2>3. ASSUME NEW q \in meltSent
        PROVE  \E p \in Orders : /\ ledger'[p].secret = q[1] /\ ledger'[p].refund = q[2]
                                 /\ State(p)' \in Owed
    BY <2>1
  <2> QED
    BY Zenon, <2>1, <2>2, <2>3
<1>5. ASSUME NEW o \in Orders, RotateSend(o)
      PROVE  MeltInv'
  BY Zenon, <1>5 DEF RotateSend
<1>6. ASSUME NEW o \in Orders, MeltSend(o)
      PROVE  MeltInv'
  <2>1. op.order = o /\ op.at = "melt" /\ UNCHANGED <<ledger, live, melted>>
    BY Zenon, <1>6 DEF MeltSend, At
  <2>2. meltSent' = meltSent \cup {<<ledger[o].secret, ledger[o].refund>>}
    BY Zenon, <1>6 DEF MeltSend
  <2>3. State(o) = "refund_required"
    BY <2>1 DEF OpInv, Idle
  <2> QED
    BY <2>1, <2>2, <2>3
<1>7. ASSUME NEW n \in Notes, NEW s \in Secrets, MintRotate(n, s)
      PROVE  MeltInv'
  BY <1>7 DEF MintRotate,
          RotationInv, ReplacementInv, Bought, UniqueInv, RowInv, Paid, Rotated
<1>8. ASSUME NEW n \in Notes, BuyerSpends(n)
      PROVE  MeltInv'
  BY Zenon, <1>8 DEF BuyerSpends
<1>9. ASSUME NEW s \in Secrets, NEW r \in RefundInvoices, MintMelt(s, r)
      PROVE  MeltInv'
  <2>1. /\ UNCHANGED <<ledger, meltSent>> /\ <<s, r>> \in meltSent
        /\ live' = live \ {s} /\ melted' = melted \cup {<<s, r>>}
    BY Zenon, <1>9 DEF MintMelt
  <2>2. ASSUME NEW m \in melted'
        PROVE  m \in meltSent' /\ m[1] \notin live'
    BY Zenon, <2>1
  <2>3. \A q \in meltSent' :
          \E p \in Orders : /\ ledger'[p].secret = q[1] /\ ledger'[p].refund = q[2]
                            /\ State(p)' \in Owed
    BY Zenon, <2>1
  <2>4. ASSUME NEW p \in Orders, State(p)' = "refunded"
        PROVE  <<ledger'[p].secret, ledger'[p].refund>> \in melted'
    BY Zenon, <2>1, <2>4
  <2> QED
    BY Zenon, <2>2, <2>3, <2>4
<1> HIDE DEF IInv, TypeOK, Row, State, MeltInv, Owed, mintVars
<1> QED
  BY <1>1, <1>2, <1>3, <1>4, <1>5, <1>6, <1>7, <1>8, <1>9, StepKinds,
     RefundsWrites DEF StepKind, LedgerWrite, MintWrite

\* A settled order keeps its replacement until that is melted.
LEMMA KeptInductive ==
    ASSUME IInv, Next
    PROVE  KeptInv'
<1> USE RailAssumption, NoneAssumption, DisjointAssumption
    DEF IInv, TypeOK, Row, State, KeptInv, Paid, mintVars
<1>1. CASE UNCHANGED <<ledger, live, melted>>
  BY Zenon, <1>1
<1>2. CASE NotesKept /\ UNCHANGED <<live, melted>>
  BY <1>2 DEF NotesKept
<1>3. ASSUME NEW o \in Orders, NEW n \in Notes, NEW s \in Secrets, AcceptNote(o, n, s)
      PROVE  KeptInv'
  BY <1>3 DEF AcceptNote, LedgerRotate
<1>4. ASSUME NEW o \in Orders, Certify(o)
      PROVE  KeptInv'
  BY <1>4 DEF Certify, LedgerSettle
<1>5. ASSUME NEW o \in Orders, RotateSend(o)
      PROVE  KeptInv'
  BY Zenon, <1>5 DEF RotateSend
<1>6. ASSUME NEW o \in Orders, MeltSend(o)
      PROVE  KeptInv'
  BY Zenon, <1>6 DEF MeltSend
<1>7. ASSUME NEW n \in Notes, NEW s \in Secrets, MintRotate(n, s)
      PROVE  KeptInv'
  BY Zenon, <1>7 DEF MintRotate
<1>8. ASSUME NEW n \in Notes, BuyerSpends(n)
      PROVE  KeptInv'
  BY <1>8 DEF BuyerSpends
<1>9. ASSUME NEW s \in Secrets, NEW r \in RefundInvoices, MintMelt(s, r)
      PROVE  KeptInv'
  BY <1>9 DEF MintMelt
<1> HIDE DEF IInv, TypeOK, Row, State, KeptInv, Paid, mintVars
<1> QED
  BY Zenon, <1>1, <1>2, <1>3, <1>4, <1>5, <1>6, <1>7, <1>8, <1>9, StepKinds,
     NotesWrites DEF StepKind, LedgerWrite, MintWrite

\* Each ledger write leaves rows of the declared type.
LEMMA StateType ==
    ASSUME ledger \in [Orders -> Row], NEW o \in Orders, NEW from, NEW to \in States,
           LedgerState(o, from, to)
    PROVE  ledger' \in [Orders -> Row]
<1>1. [ledger[o] EXCEPT !.state = to] \in Row
  BY Zenon DEF Row
<1> QED
  BY Zenon, <1>1 DEF LedgerState

LEMMA InsertType ==
    ASSUME ledger \in [Orders -> Row], now \in Nat, NEW o \in Orders, LedgerInsert(o)
    PROVE  ledger' \in [Orders -> Row]
<1>1. now + QuoteSeconds \in Nat
  BY TimeAssumption
<1>2. NoRow \in Row
  BY Zenon DEF NoRow, Row, States
<1>3. [NoRow EXCEPT !.state = "reserving", !.expires = now + QuoteSeconds] \in Row
  BY Zenon, <1>1, <1>2 DEF Row, States
<1> QED
  BY Zenon, <1>3 DEF LedgerInsert

LEMMA InvoiceType ==
    ASSUME ledger \in [Orders -> Row], NEW o \in Orders, NEW h \in Hashes, LedgerInvoice(o, h)
    PROVE  ledger' \in [Orders -> Row]
<1> DEFINE row == [ledger[o] EXCEPT !.state = "awaiting_payment", !.hash = h]
<1>1. row \in Row
  BY Zenon DEF Row, States
<1>2. ledger' = [ledger EXCEPT ![o] = row]
  BY Zenon DEF LedgerInvoice
<1> QED
  BY Zenon, <1>1, <1>2

LEMMA RotateType ==
    ASSUME ledger \in [Orders -> Row], NEW o \in Orders, NEW n \in Notes, NEW s \in Secrets,
           LedgerRotate(o, n, s)
    PROVE  ledger' \in [Orders -> Row]
<1> DEFINE row == [ledger[o] EXCEPT !.state = "lnurl_pending", !.note = n, !.secret = s]
<1>1. row \in Row
  BY Zenon DEF Row, States
<1>2. ledger' = [ledger EXCEPT ![o] = row]
  BY Zenon DEF LedgerRotate
<1> QED
  BY Zenon, <1>1, <1>2

LEMMA SettleType ==
    ASSUME ledger \in [Orders -> Row], NEW o \in Orders, NEW from, NEW c \in BOOLEAN,
           NEW reference \in Hashes \cup Secrets \cup {None}, LedgerSettle(o, from,
           reference, c)
    PROVE  ledger' \in [Orders -> Row]
<1> DEFINE row == [ledger[o] EXCEPT !.state = "settled", !.settlement = reference,
                                    !.certificate = @ \/ c]
<1>1. row \in Row
  BY Zenon DEF Row, States
<1>2. ledger' = [ledger EXCEPT ![o] = row]
  BY Zenon DEF LedgerSettle
<1> QED
  BY Zenon, <1>1, <1>2

LEMMA RefundType ==
    ASSUME ledger \in [Orders -> Row], NEW o \in Orders, NEW v \in BOOLEAN,
           \/ \E r \in RefundInvoices : LedgerStartRefund(o, r, v)
           \/ LedgerUpdateRefund(o, v)
    PROVE  ledger' \in [Orders -> Row]
<1>1. ASSUME NEW r \in RefundInvoices, LedgerStartRefund(o, r, v)
      PROVE  ledger' \in [Orders -> Row]
  <2> DEFINE row == [ledger[o] EXCEPT !.refund = r, !.verify = v]
  <2>1. row \in Row
    BY Zenon DEF Row
  <2>2. ledger' = [ledger EXCEPT ![o] = row]
    BY Zenon, <1>1 DEF LedgerStartRefund
  <2> QED
    BY Zenon, <2>1, <2>2
<1>2. CASE LedgerUpdateRefund(o, v)
  <2>1. [ledger[o] EXCEPT !.verify = @ \/ v] \in Row
    BY Zenon DEF Row
  <2> QED
    BY Zenon, <1>2, <2>1 DEF LedgerUpdateRefund
<1> QED
  BY Zenon, <1>1, <1>2

\* Rows keep their type under every ledger write.
LEMMA LedgerType ==
    ASSUME IInv, NEW o \in Orders, LedgerWrite(o)
    PROVE  ledger' \in [Orders -> Row]
<1>1. /\ ledger \in [Orders -> Row] /\ now \in Nat
      /\ invoices \subseteq Invoice /\ paid \subseteq Hashes
  BY Zenon DEF IInv, TypeOK
<1>2. CASE Quote(o)
  BY Zenon, <1>1, <1>2, InsertType DEF Quote
<1>3. CASE \/ ReserveExpired(o) \/ ReserveCommit(o) \/ Lightning(o) \/ FulfilCommit(o)
           \/ FulfilUnavailable(o) \/ RefundConfirmed(o)
  <2>1. \E from, to \in States : LedgerState(o, from, to)
    BY Zenon, <1>3 DEF States, ReserveExpired, ReserveCommit, Lightning, FulfilCommit,
                FulfilUnavailable, RefundConfirmed
  <2> QED
    BY Zenon, <1>1, <2>1, StateType
<1>4. ASSUME NEW i \in invoices, InvoiceAnswer(o, i) \/ RecoverInvoice(o, i)
      PROVE  ledger' \in [Orders -> Row]
  <2>1. i.hash \in Hashes
    BY Zenon, <1>1 DEF Invoice
  <2> QED
    BY Zenon, <1>1, <1>4, <2>1, InvoiceType DEF InvoiceAnswer, RecoverInvoice
<1>5. CASE CheckInvoice(o)
  BY Zenon, <1>1, <1>5, SettleType DEF CheckInvoice
<1>6. CASE Certify(o)
  <2>1. ledger[o].secret \in Secrets \cup {None}
    BY Zenon, <1>1 DEF Row
  <2> QED
    BY Zenon, <1>1, <1>6, <2>1, SettleType DEF Certify
<1>7. ASSUME NEW n \in Notes, NEW s \in Secrets, AcceptNote(o, n, s)
      PROVE  ledger' \in [Orders -> Row]
  BY Zenon, <1>1, <1>7, RotateType DEF AcceptNote
<1>8. ASSUME NEW r \in RefundInvoices, NEW v \in BOOLEAN, RefundPrepare(o, r, v)
      PROVE  ledger' \in [Orders -> Row]
  BY Zenon, <1>1, <1>8, RefundType DEF RefundPrepare
<1>9. ASSUME NEW v \in BOOLEAN, MeltAnswer(o, v)
      PROVE  ledger' \in [Orders -> Row]
  BY Zenon, <1>1, <1>9, RefundType DEF MeltAnswer
<1> QED
  BY Zenon, <1>2, <1>3, <1>4, <1>5, <1>6, <1>7, <1>8, <1>9 DEF LedgerWrite

\* Every variable keeps its type.
LEMMA TypeInductive ==
    ASSUME IInv, Next
    PROVE  TypeOK'
<1>1. ledger' \in [Orders -> Row]
  BY Zenon, StepKinds, LedgerType DEF StepKind, IInv, TypeOK
<1> HIDE DEF Row
<1> USE <1>1, TimeAssumption DEF TypeOK, Places, Idle, At, lightningVars, mintVars
<1>2. CASE Environment
  <2>1. CASE Tick
    BY <2>1 DEF IInv, Tick
  <2>2. CASE Crash
    BY <2>2 DEF IInv, Crash
  <2>3. ASSUME NEW request \in invoiceSent, NEW h \in Hashes, BackendCreate(request, h)
        PROVE  TypeOK'
    BY <2>3 DEF IInv, BackendCreate, Invoice
  <2>4. ASSUME NEW o \in Orders, NEW i \in invoices, BuyerPays(o, i)
        PROVE  TypeOK'
    BY Zenon, <2>4 DEF IInv, BuyerPays, Invoice
  <2>5. ASSUME NEW n \in Notes, NEW s \in Secrets, MintRotate(n, s)
        PROVE  TypeOK'
    BY Zenon, <2>5 DEF IInv, MintRotate
  <2>6. ASSUME NEW n \in Notes, BuyerSpends(n)
        PROVE  TypeOK'
    BY Zenon, <2>6 DEF IInv, BuyerSpends
  <2>7. ASSUME NEW s \in Secrets, NEW r \in RefundInvoices, MintMelt(s, r)
        PROVE  TypeOK'
    BY Zenon, <2>7 DEF IInv, MintMelt
  <2> HIDE DEF TypeOK
  <2> QED
    BY Zenon, <1>2, <2>1, <2>2, <2>3, <2>4, <2>5, <2>6, <2>7 DEF Environment
<1>3. ASSUME NEW o \in Orders, Start(o)
      PROVE  TypeOK'
  <2>1. UNCHANGED <<now, hold, issuer, crashes, lightningVars, mintVars>>
    BY Zenon, <1>3 DEF Start, Check, Quote, Lightning, RetryReserve, CheckInvoice,
              CheckRotation, CheckSettled, RefundResume, RecoverInvoice, NoteInfo,
              RefundPrepare
  <2>2. \/ \E place \in Places : op' = At(place, o)
        \/ op' = op \/ \E n \in Notes : op' = [at |-> "noteInfo", order |-> o, note |-> n]
    BY Zenon, <1>3 DEF Start, Check, Quote, Lightning, RetryReserve, CheckInvoice,
              CheckRotation, CheckSettled, RefundResume, RecoverInvoice, NoteInfo,
              RefundPrepare
  <2> QED
    BY <2>1, <2>2 DEF IInv
<1>4. ASSUME NEW o \in Orders, Progress(o)
      PROVE  TypeOK'
  <2>1. CASE InvoiceRequest(o)
    BY <2>1 DEF IInv, InvoiceRequest, Row
  <2>2. CASE RotateSend(o)
    <3>1. State(o) = "lnurl_pending"
      BY Zenon, <2>2 DEF IInv, OpInv, RotateSend
    <3>2. ledger[o].note \in Notes /\ ledger[o].secret \in Secrets
      BY <3>1, NoneAssumption DEF IInv, RowInv, Rotated, Row
    <3> QED
      BY <2>2, <3>2 DEF IInv, RotateSend
  <2>3. CASE MeltSend(o)
    <3>1. State(o) = "refund_required" /\ ledger[o].refund # None
      BY Zenon, <2>3 DEF IInv, OpInv, MeltSend
    <3>2. ledger[o].refund \in RefundInvoices /\ ledger[o].secret \in Secrets
      BY <3>1, NoneAssumption DEF IInv, RowInv, Rotated, Paid, Row
    <3> QED
      BY <2>3, <3>2 DEF IInv, MeltSend
  <2>4. ASSUME NEW n \in Notes, NEW s \in Secrets, AcceptNote(o, n, s)
        PROVE  TypeOK'
    BY Zenon, <2>4 DEF IInv, AcceptNote
  <2>5. CASE ReserveHold(o) \/ FulfilActivate(o)
    BY <2>5 DEF IInv, ReserveHold, StoreReserve, FulfilActivate
  <2>6. CASE /\ UNCHANGED <<now, hold, issuer, crashes, lightningVars, mintVars>>
             /\ \E place \in Places : op' = At(place, o) \/ op' = Idle
    BY <2>6 DEF IInv
  <2> HIDE DEF TypeOK, At, Idle, lightningVars, mintVars
  <2> QED
    BY Zenon, <1>4, <2>1, <2>2, <2>3, <2>4, <2>5, <2>6 DEF Progress, ReserveExpired,
       ReserveRefused, ReserveCommit, InvoiceUncertain, InvoiceAnswer, RefuseNote,
       NotRecovered, Certify, RotateUncertain, FulfilCommit, FulfilUnavailable,
       FulfilError, NotVerified, RefundConfirmed, RefundUncertain, MeltAnswer
<1> HIDE DEF TypeOK
<1> QED
  BY Zenon, <1>2, <1>3, <1>4 DEF Next

\* A handler in flight stays at a place its order's row allows.
LEMMA OpInductive ==
    ASSUME IInv, Next
    PROVE  OpInv'
<1> USE RailAssumption, NoneAssumption
    DEF IInv, TypeOK, Row, State, OpInv, Idle, At, Places, lightningVars, mintVars
<1>1. CASE op' = Idle
  BY Zenon, <1>1
<1>2. CASE Tick \/ \E n \in Notes : BuyerSpends(n)
  BY Zenon, <1>2 DEF Tick, BuyerSpends
<1>3. ASSUME NEW request \in invoiceSent, NEW h \in Hashes, BackendCreate(request, h)
      PROVE  OpInv'
  <2>1. /\ UNCHANGED <<op, ledger, hold>> /\ invoiceSent' \subseteq invoiceSent
        /\ \A i \in invoices' : i \in invoices \/ i.order = request[1]
    BY <1>3 DEF BackendCreate
  <2> HIDE DEF TypeOK, Row
  <2> QED
    BY Zenon, <2>1
<1>4. ASSUME NEW o \in Orders, NEW i \in invoices, BuyerPays(o, i)
      PROVE  OpInv'
  BY Zenon, <1>4 DEF BuyerPays
<1>5. ASSUME NEW n \in Notes, NEW s \in Secrets, MintRotate(n, s)
      PROVE  OpInv'
  BY Zenon, <1>5 DEF MintRotate
<1>6. ASSUME NEW s \in Secrets, NEW r \in RefundInvoices, MintMelt(s, r)
      PROVE  OpInv'
  BY Zenon, <1>6 DEF MintMelt
<1>7. ASSUME NEW o \in Orders, Quote(o)
      PROVE  OpInv'
  BY Zenon, <1>7 DEF Quote, LedgerInsert, NoRow, RowInv
<1>8. ASSUME NEW o \in Orders, ReserveHold(o)
      PROVE  OpInv'
  BY Zenon, <1>8 DEF ReserveHold, StoreReserve
<1>9. ASSUME NEW o \in Orders, Lightning(o)
      PROVE  OpInv'
  BY <1>9 DEF Lightning, LedgerState, SentInv, InvoiceInv, RowInv, Invoiced, Paid
<1>10. ASSUME NEW o \in Orders, InvoiceRequest(o)
      PROVE  OpInv'
  <2>1. op' = Idle \/ op' = At("requested", o)
    BY Zenon, <1>10 DEF InvoiceRequest
  <2>2. State(o)' = "invoice_pending"
    BY Zenon, <1>10 DEF InvoiceRequest
  <2> HIDE DEF IInv, TypeOK, Row, State
  <2> QED
    BY <2>1, <2>2
<1>11. ASSUME NEW o \in Orders, NEW n \in Notes, NEW s \in Secrets, AcceptNote(o, n, s)
      PROVE  OpInv'
  BY <1>11 DEF AcceptNote, LedgerRotate
<1>12. ASSUME NEW o \in Orders, CheckInvoice(o)
      PROVE  OpInv'
  BY <1>12 DEF CheckInvoice, LedgerSettle
<1>13. ASSUME NEW o \in Orders, RotateSend(o)
      PROVE  OpInv'
  <2>1. op' = Idle \/ op' = At("rotateSent", o)
    BY Zenon, <1>13 DEF RotateSend
  <2>2. State(o)' = "lnurl_pending"
    <3>1. op = At("rotating", o) /\ UNCHANGED ledger
      BY Zenon, <1>13 DEF RotateSend
    <3> HIDE DEF TypeOK, Row
    <3> QED
      BY Zenon, <3>1
  <2> HIDE DEF IInv, TypeOK, Row, State
  <2> QED
    BY <2>1, <2>2
<1>14. ASSUME NEW o \in Orders, Certify(o)
      PROVE  OpInv'
  BY <1>14 DEF Certify, LedgerSettle
<1>15. ASSUME NEW o \in Orders, FulfilActivate(o)
      PROVE  OpInv'
  BY Zenon, <1>15 DEF FulfilActivate, CanActivate
<1>16. ASSUME NEW o \in Orders, NEW r \in RefundInvoices, NEW v \in BOOLEAN,
             RefundPrepare(o, r, v)
      PROVE  OpInv'
  BY <1>16 DEF RefundPrepare, LedgerStartRefund, Refundable
<1>17. ASSUME NEW o \in Orders, MeltSend(o)
      PROVE  OpInv'
  BY Zenon, <1>17 DEF MeltSend
<1>18. ASSUME NEW o \in Orders, NEW v \in BOOLEAN, MeltAnswer(o, v)
      PROVE  OpInv'
  BY <1>18 DEF MeltAnswer, LedgerUpdateRefund
<1>19. ASSUME NEW o \in Orders, RetryReserve(o)
      PROVE  OpInv'
  BY Zenon, <1>19 DEF RetryReserve
<1>20. ASSUME NEW o \in Orders, NEW n \in Notes, NoteInfo(o, n)
      PROVE  OpInv'
  BY Zenon, <1>20 DEF NoteInfo
<1>21. ASSUME NEW o \in Orders, CheckRotation(o)
      PROVE  OpInv'
  BY Zenon, <1>21 DEF CheckRotation
<1>22. ASSUME NEW o \in Orders, NotRecovered(o)
      PROVE  OpInv'
  BY Zenon, <1>22 DEF NotRecovered
<1>23. ASSUME NEW o \in Orders, CheckSettled(o)
      PROVE  OpInv'
  BY Zenon, <1>23 DEF CheckSettled
<1>24. ASSUME NEW o \in Orders, RefundResume(o)
      PROVE  OpInv'
  BY Zenon, <1>24 DEF RefundResume, Refundable
<1>25. ASSUME NEW o \in Orders, NotVerified(o)
      PROVE  OpInv'
  BY Zenon, <1>25 DEF NotVerified
<1> HIDE DEF IInv, TypeOK, Row, State, OpInv, Idle, At, Places, lightningVars,
             mintVars
<1>26. CASE Environment
  BY Zenon, <1>26, <1>1, <1>2, <1>3, <1>4, <1>5, <1>6, <1>7, <1>8, <1>9, <1>10, <1>11, <1>12,
     <1>13, <1>14, <1>15, <1>16, <1>17, <1>18, <1>19, <1>20, <1>21, <1>22, <1>23, <1>24, <1>25
  DEF Environment, Crash
<1>27. ASSUME NEW o \in Orders, Start(o)
      PROVE  OpInv'
  BY Zenon, <1>27, <1>1, <1>2, <1>3, <1>4, <1>5, <1>6, <1>7, <1>8, <1>9, <1>10, <1>11, <1>12,
     <1>13, <1>14, <1>15, <1>16, <1>17, <1>18, <1>19, <1>20, <1>21, <1>22, <1>23, <1>24, <1>25
  DEF Start, Check, RecoverInvoice
<1>28. ASSUME NEW o \in Orders, Progress(o)
      PROVE  OpInv'
  BY Zenon, <1>28, <1>1, <1>2, <1>3, <1>4, <1>5, <1>6, <1>7, <1>8, <1>9, <1>10, <1>11, <1>12,
     <1>13, <1>14, <1>15, <1>16, <1>17, <1>18, <1>19, <1>20, <1>21, <1>22, <1>23, <1>24, <1>25
  DEF Progress, ReserveExpired, ReserveRefused,
     ReserveCommit, InvoiceUncertain, InvoiceAnswer, RefuseNote, RotateUncertain,
     FulfilCommit, FulfilUnavailable, FulfilError, RefundConfirmed, RefundUncertain
<1> QED
  BY Zenon, <1>26, <1>27, <1>28 DEF Next

-----------------------------------------------------------------------------
(* Theorems.                                                                 *)

\* Nothing has happened yet: the empty ledger satisfies the invariant.
LEMMA InitInv == Init => IInv
<1> SUFFICES ASSUME Init PROVE IInv
  BY Zenon
<1>1. \A o \in Orders : ledger[o] = NoRow
  BY Zenon DEF Init
<1>2. TypeOK
  <2>1. NoRow \in Row
    BY Zenon DEF NoRow, Row, States
  <2> QED
    BY Zenon, <2>1 DEF Init, TypeOK, Idle, Places
<1>3. OpInv
  BY Zenon DEF Init, OpInv
<1>4. HoldInv
  BY Zenon, <1>1 DEF Init, HoldInv, State, NoRow, Pending
<1>5. RowInv
  BY <1>1 DEF RowInv, State, NoRow, Invoiced, Rotated, Paid
<1>6. UniqueInv
  BY <1>1 DEF UniqueInv, NoRow
<1>7. SentInv /\ InvoiceInv
  BY Zenon DEF Init, SentInv, InvoiceInv
<1>8. HashInv /\ PaidInv
  BY Zenon, <1>1 DEF Init, HashInv, PaidInv, State, NoRow, Paid
<1>9. RotationInv
  BY Zenon, <1>1 DEF Init, RotationInv, NoRow
<1>10. ReplacementInv
  BY Zenon, <1>1, DisjointAssumption DEF Init, ReplacementInv, State, NoRow, Paid
<1>11. MeltInv /\ KeptInv
  BY Zenon, <1>1 DEF Init, MeltInv, KeptInv, State, NoRow, Paid
<1> QED
  BY Zenon, <1>2, <1>3, <1>4, <1>5, <1>6, <1>7, <1>8, <1>9, <1>10, <1>11 DEF IInv

\* A step of Checkout, or none, preserves the invariant.
LEMMA StepInv == IInv /\ [Next]_vars => IInv'
<1> SUFFICES ASSUME IInv, [Next]_vars PROVE IInv'
  BY Zenon
<1>1. CASE Next
  BY Zenon, <1>1, TypeInductive, OpInductive, HoldInductive, RowInductive, UniqueInductive,
     SentInductive, InvoiceInductive, HashInductive, PaidInductive, RotationInductive,
     ReplacementInductive, MeltInductive, KeptInductive DEF IInv
<1>2. CASE UNCHANGED vars
  <2>1. UNCHANGED <<now, ledger, hold, issuer, op, crashes, invoiceSent, invoices, paid,
                    live, drawn, rotateSent, meltSent, melted>>
    BY Zenon, <1>2 DEF vars
  <2>2. TypeOK'
    BY Zenon, <2>1 DEF IInv, TypeOK
  <2>3. OpInv'
    BY Zenon, <2>1 DEF IInv, OpInv, State
  <2>4. HoldInv' /\ RowInv' /\ UniqueInv'
    BY <2>1 DEF IInv, HoldInv, RowInv, UniqueInv, State
  <2>5. SentInv' /\ InvoiceInv' /\ HashInv' /\ PaidInv'
    BY Zenon, <2>1 DEF IInv, SentInv, InvoiceInv, HashInv, PaidInv, State
  <2>6. RotationInv' /\ ReplacementInv' /\ MeltInv' /\ KeptInv'
    BY Zenon, <2>1 DEF IInv, RotationInv, ReplacementInv, MeltInv, KeptInv, Bought, State
  <2> QED
    BY Zenon, <2>2, <2>3, <2>4, <2>5, <2>6 DEF IInv
<1> QED
  BY Zenon, <1>1, <1>2

\* The invariant holds in every reachable state of the checkout.
THEOREM Invariance == Spec => []IInv
  BY InitInv, StepInv, PTL DEF Spec

\* Every variable of the checkout keeps its type.
THEOREM TypeCorrect == Spec => []TypeOK
<1>1. IInv => TypeOK
  BY Zenon DEF IInv
<1> QED
  BY <1>1, Invariance, PTL

\* lightning(): at most one invoice is ever created for an order.
THEOREM AtMostOneInvoice == Spec => []OneInvoice
<1>1. IInv => OneInvoice
  BY Zenon DEF IInv, InvoiceInv, OneInvoice
<1> QED
  BY <1>1, Invariance, PTL

\* lnurlcash(): no unspent replacement note is ever unknown to the ledger.
THEOREM NoAssetLost == Spec => []AssetJournalled
<1>1. ASSUME IInv
      PROVE  AssetJournalled
  <2>1. ASSUME NEW s \in live \cap Secrets
        PROVE  \E o \in Orders :
                 /\ ledger[o].secret = s
                 /\ State(o) \in {"lnurl_pending"} \cup (Paid \ {"refunded"})
                 /\ \A p \in Orders \ {o} : ledger[p].secret # s
    <3>1. PICK o \in Orders : ledger[o].secret = s
      BY Zenon, <1>1 DEF IInv, ReplacementInv, Bought
    <3>2. ledger[o].secret # None
      BY Zenon, <3>1, NoneAssumption
    <3>3. State(o) \in Rotated
      BY Zenon, <1>1, <3>2 DEF IInv, RowInv
    <3>4. State(o) # "refunded"
      BY Zenon, <1>1, <3>1 DEF IInv, MeltInv
    <3>5. \A p \in Orders \ {o} : ledger[p].secret # s
      BY Zenon, <1>1, <3>1, <3>2 DEF IInv, UniqueInv
    <3> QED
      BY Zenon, <3>1, <3>3, <3>4, <3>5 DEF Rotated
  <2> QED
    BY Zenon, <2>1 DEF AssetJournalled
<1> QED
  BY <1>1, Invariance, PTL

\* lnurlcash(): a note is journalled by at most one order.
THEOREM ExclusiveNotes == Spec => []OneClaimPerNote
<1>1. IInv => OneClaimPerNote
  BY Zenon DEF IInv, UniqueInv, OneClaimPerNote
<1> QED
  BY <1>1, Invariance, PTL

\* check(): an order is settled only by its own payment, and only that order.
THEOREM OwnPayment == Spec => []SettledByOwnPayment
<1>1. ASSUME IInv
      PROVE  SettledByOwnPayment
  <2> SUFFICES ASSUME NEW o \in Orders, State(o) \in Paid
               PROVE  /\ \/ /\ Rail[o] = "lightning"
                            /\ ledger[o].settlement \in paid
                            /\ \E i \in invoices : i.order = o /\ i.hash = ledger[o].settlement
                         \/ /\ Rail[o] = "lnurlcash"
                            /\ <<ledger[o].note, ledger[o].settlement>> \in rotateSent
                            /\ ledger[o].note \notin live
                      /\ \A p \in Orders \ {o} : ledger[p].settlement # ledger[o].settlement
    BY Zenon DEF SettledByOwnPayment
  <2>1. Rail[o] = "lightning" \/ Rail[o] = "lnurlcash"
    BY Zenon, RailAssumption
  <2>2. /\ ledger[o].settlement # None
        /\ ledger[o].settlement =
              IF Rail[o] = "lightning" THEN ledger[o].hash ELSE ledger[o].secret
    BY Zenon, <1>1 DEF IInv, RowInv
  <2>3. Rail[o] = "lightning" =>
          /\ ledger[o].settlement \in paid
          /\ \E i \in invoices : i.order = o /\ i.hash = ledger[o].settlement
    BY <1>1, <2>2 DEF IInv, HashInv
  <2>4. Rail[o] = "lnurlcash" =>
          /\ <<ledger[o].note, ledger[o].settlement>> \in rotateSent
          /\ ledger[o].note \notin live
    BY Zenon, <1>1, <2>2 DEF IInv, ReplacementInv, Bought
  <2>5. ASSUME NEW p \in Orders \ {o}, ledger[p].settlement = ledger[o].settlement
        PROVE  FALSE
    <3>1. ledger[p].settlement =
            IF Rail[p] = "lightning" THEN ledger[p].hash ELSE ledger[p].secret
      BY Zenon, <1>1, <2>2, <2>5 DEF IInv, RowInv
    <3>2. /\ ledger[o].hash \in Hashes \cup {None} /\ ledger[o].secret \in Secrets \cup {None}
          /\ ledger[p].hash \in Hashes \cup {None} /\ ledger[p].secret \in Secrets \cup {None}
      BY Zenon, <1>1 DEF IInv, TypeOK, Row
    <3>3. /\ ledger[o].hash # None => ledger[p].hash # ledger[o].hash
          /\ ledger[o].secret # None => ledger[p].secret # ledger[o].secret
      BY Zenon, <1>1, <2>5 DEF IInv, UniqueInv
    <3> QED
      BY Zenon, <2>2, <2>5, <3>1, <3>2, <3>3, DisjointAssumption
  <2> QED
    BY Zenon, <2>1, <2>3, <2>4, <2>5
<1> QED
  BY <1>1, Invariance, PTL

\* fulfil(): an allowance for paid orders only, never beside a refund.
THEOREM ExclusiveDelivery == Spec => []DeliveredXorRefunded
<1>1. IInv => DeliveredXorRefunded
  BY Zenon DEF IInv, HoldInv, DeliveredXorRefunded
<1> QED
  BY <1>1, Invariance, PTL

\* reserve() and validate_invoice(): money is asked for only under a hold.
THEOREM HeldBeforePayment == Spec => []SolicitedUnderHold
<1>1. ASSUME IInv
      PROVE  SolicitedUnderHold
  <2>1. ASSUME NEW o \in Orders, State(o) \in Pending \cup {"quoted"}
        PROVE  hold[o] = "held"
    BY Zenon, <1>1, <2>1 DEF IInv, TypeOK, HoldInv, Pending
  <2>2. ASSUME NEW o \in Orders, NEW i \in invoices, i.hash = ledger[o].hash
        PROVE  i.expiry <= ledger[o].expires
    <3>1. ledger[o].hash # None
      BY <1>1, <2>2, NoneAssumption DEF IInv, TypeOK, Invoice
    <3> QED
      BY <1>1, <2>2, <3>1 DEF IInv, HashInv, InvoiceInv
  <2> QED
    BY Zenon, <2>1, <2>2 DEF SolicitedUnderHold
<1> QED
  BY <1>1, Invariance, PTL

\* refund(): one journalled invoice is paid once, and only for an owed order.
THEOREM ExactRefund == Spec => []RefundExact
<1>1. ASSUME IInv
      PROVE  RefundExact
  <2>1. ASSUME NEW m \in melted
        PROVE  \E o \in Orders : /\ ledger[o].secret = m[1] /\ ledger[o].refund = m[2]
                                 /\ State(o) \in Owed
    BY Zenon, <1>1 DEF IInv, MeltInv, Owed
  <2>2. \A m \in melted : m[1] \in Secrets /\ m = <<m[1], m[2]>>
    BY <1>1 DEF IInv, TypeOK
  <2>3. \A m \in melted :
          \E o \in Orders : /\ <<ledger[o].secret, ledger[o].refund>> = m
                            /\ State(o) \in {"refund_required", "refunded"}
    BY Zenon, <2>1, <2>2 DEF Owed
  <2>4. ASSUME NEW m1 \in melted, NEW m2 \in melted, m1[1] = m2[1]
        PROVE  m1 = m2
    <3>1. PICK o \in Orders : ledger[o].secret = m1[1] /\ ledger[o].refund = m1[2]
      BY Zenon, <2>1
    <3>2. PICK p \in Orders : ledger[p].secret = m2[1] /\ ledger[p].refund = m2[2]
      BY Zenon, <2>1
    <3>3. o = p
      BY Zenon, <1>1, <2>2, <2>4, <3>1, <3>2, NoneAssumption DEF IInv, UniqueInv
    <3> QED
      BY Zenon, <2>2, <2>4, <3>1, <3>2, <3>3
  <2>5. \A o \in Orders :
          State(o) = "refunded" => <<ledger[o].secret, ledger[o].refund>> \in melted
    BY Zenon, <1>1 DEF IInv, MeltInv
  <2> QED
    BY Zenon, <2>3, <2>4, <2>5 DEF RefundExact
<1> QED
  BY <1>1, Invariance, PTL

\* Every handler moves its order forward and overwrites no journalled identity.
LEMMA ForwardStep ==
    ASSUME IInv, NEW o \in Orders, LedgerWrite(o)
    PROVE  Forward
<1> USE NoneAssumption
    DEF IInv, TypeOK, Row, State, OpInv, Idle, At, RowInv, Paid, Invoiced, Rotated,
        Forward, Successors, WrittenOnce
<1>1. CASE Quote(o)
  BY <1>1 DEF Quote, LedgerInsert, NoRow
<1>2. CASE ReserveExpired(o)
  BY <1>2 DEF ReserveExpired, LedgerState
<1>3. CASE ReserveCommit(o)
  BY <1>3 DEF ReserveCommit, LedgerState
<1>4. CASE Lightning(o)
  BY <1>4 DEF Lightning, LedgerState
<1>5. ASSUME NEW i \in invoices, InvoiceAnswer(o, i)
      PROVE  Forward
  BY <1>5 DEF InvoiceAnswer, LedgerInvoice, ValidInvoice
<1>6. ASSUME NEW i \in invoices, RecoverInvoice(o, i)
      PROVE  Forward
  BY <1>6 DEF RecoverInvoice, LedgerInvoice, ValidInvoice
<1>7. CASE CheckInvoice(o)
  BY <1>7 DEF CheckInvoice, LedgerSettle
<1>8. ASSUME NEW n \in Notes, NEW s \in Secrets, AcceptNote(o, n, s)
      PROVE  Forward
  BY <1>8 DEF AcceptNote, LedgerRotate
<1>9. CASE Certify(o)
  BY <1>9 DEF Certify, LedgerSettle
<1>10. CASE FulfilCommit(o)
  BY <1>10 DEF FulfilCommit, LedgerState
<1>11. CASE FulfilUnavailable(o)
  BY <1>11 DEF FulfilUnavailable, LedgerState, CanActivate
<1>12. ASSUME NEW r \in RefundInvoices, NEW v \in BOOLEAN, RefundPrepare(o, r, v)
      PROVE  Forward
  BY <1>12 DEF RefundPrepare, LedgerStartRefund, Refundable
<1>13. ASSUME NEW v \in BOOLEAN, MeltAnswer(o, v)
      PROVE  Forward
  BY <1>13 DEF MeltAnswer, LedgerUpdateRefund
<1>14. CASE RefundConfirmed(o)
  BY <1>14 DEF RefundConfirmed, LedgerState
<1> HIDE DEF IInv, Forward
<1> QED
  BY Zenon, <1>1, <1>2, <1>3, <1>4, <1>5, <1>6, <1>7, <1>8, <1>9, <1>10, <1>11, <1>12, <1>13,
     <1>14 DEF LedgerWrite

\* Whatever interleaves, an order's row only ever moves forward.
THEOREM MovesForward == Spec => ForwardOnly
<1>1. ASSUME IInv, [Next]_vars
      PROVE  [Forward]_vars
  <2>1. CASE UNCHANGED ledger
    BY Zenon, <2>1 DEF Forward, WrittenOnce, State
  <2>2. CASE Next
    BY Zenon, <1>1, <2>1, <2>2, StepKinds, ForwardStep DEF StepKind
  <2> QED
    BY Zenon, <1>1, <2>2
<1> QED
  BY <1>1, Invariance, PTL DEF Spec, ForwardOnly

-----------------------------------------------------------------------------
(* Checkout implements Sale.  The stage of an order is read off the money    *)
(* (paid, live, melted) and the allowance (hold).  Four kinds of step move   *)
(* it; every other step, ledger bookkeeping included, is a stutter of Sale.  *)

\* Order o goes from one stage to the next, every other order stays.
StageMove(o, from, to) ==
    /\ SaleStage(o) = from /\ SaleStage(o)' = to
    /\ \A p \in Orders \ {o} : SaleStage(p)' = SaleStage(p)

StagesKept == \A p \in Orders : SaleStage(p)' = SaleStage(p)

\* A stage move of one order along a transition of Sale is a step of Sale.
LEMMA MoveIsSaleStep ==
    ASSUME NEW o \in Orders,
           \/ StageMove(o, "open", "paid") \/ StageMove(o, "paid", "delivered")
           \/ StageMove(o, "paid", "owed") \/ StageMove(o, "owed", "returned")
    PROVE  Promise!Next
<1>1. ASSUME NEW from, NEW to, StageMove(o, from, to)
      PROVE  Promise!Move(o, from, to)
  <2>1. [p \in Orders |-> SaleStage(p)]' = [[p \in Orders |-> SaleStage(p)] EXCEPT ![o] = to]
    BY Zenon, <1>1 DEF StageMove
  <2> QED
    BY Zenon, <1>1, <2>1 DEF StageMove, Promise!Move
<1> QED
  BY Zenon, <1>1 DEF Promise!Next, Promise!Pay, Promise!Deliver, Promise!Owe, Promise!Return

\* What the invariant says of a settled order: its money is here, and no
\* refund of it has been paid.
LEMMA SettledStage ==
    ASSUME IInv, NEW o \in Orders, State(o) = "settled"
    PROVE  Received(o) /\ ~Returned(o)
<1>1. ASSUME NEW m \in melted, m[1] = ledger[o].secret
      PROVE  FALSE
  <2>1. m[1] \in Secrets
    BY Zenon DEF IInv, TypeOK
  <2>2. PICK p \in Orders : ledger[p].secret = m[1] /\ State(p) \in Owed
    BY Zenon DEF IInv, MeltInv, Owed
  <2>3. p = o
    BY Zenon, <1>1, <2>1, <2>2, NoneAssumption DEF IInv, UniqueInv
  <2> QED
    BY Zenon, <2>2, <2>3 DEF Owed
<1>2. Rail[o] = "lightning" \/ Rail[o] = "lnurlcash"
  BY Zenon, RailAssumption
<1>3. State(o) \in Paid
  BY Zenon DEF Paid
<1>4. Received(o)
  BY Zenon, <1>1, <1>2, <1>3 DEF IInv, HashInv, KeptInv, Received
<1> QED
  BY Zenon, <1>1, <1>4 DEF Returned

\* A ledger write moves a stage only when it records a debt.
LEMMA LedgerStage ==
    ASSUME IInv, NEW o \in Orders, LedgerWrite(o),
           UNCHANGED <<hold, invoiceSent, invoices, paid, live, rotateSent, meltSent, melted>>
    PROVE  StagesKept \/ StageMove(o, "paid", "owed")
<1>1. \A p \in Orders : /\ ledger[p].secret \in Secrets \cup {None}
                        /\ ledger[p].hash \in Hashes \cup {None}
  BY Zenon DEF IInv, TypeOK, Row
<1>2. paid \subseteq Hashes /\ live \subseteq Notes \cup Secrets
      /\ \A m \in melted : m[1] \in Secrets
  BY Zenon DEF IInv, TypeOK
<1>3. ASSUME \A p \in Orders :
                /\ ledger'[p].hash = ledger[p].hash /\ ledger'[p].secret = ledger[p].secret
                /\ State(p)' = "refund_required" <=> State(p) = "refund_required"
      PROVE  StagesKept
  BY Zenon, <1>3 DEF StagesKept, SaleStage, Received, Returned
<1>4. CASE Quote(o)
  <2>1. ledger[o].hash = None /\ ledger[o].secret = None
    BY Zenon, <1>4 DEF IInv, RowInv, Quote, LedgerInsert, Invoiced, Rotated, Paid
  <2> QED
    BY Zenon, <1>3, <1>4, <2>1 DEF IInv, TypeOK, Row, Quote, LedgerInsert, NoRow, State
<1>5. CASE \/ ReserveExpired(o) \/ ReserveCommit(o) \/ Lightning(o) \/ FulfilCommit(o)
  BY <1>3, <1>5 DEF IInv, TypeOK, Row, State, ReserveExpired, ReserveCommit, Lightning,
                    FulfilCommit, LedgerState
<1>6. CASE CheckInvoice(o) \/ Certify(o)
  BY <1>3, <1>6 DEF IInv, TypeOK, Row, State, CheckInvoice, Certify, LedgerSettle
<1>7. ASSUME NEW v \in BOOLEAN,
             MeltAnswer(o, v) \/ \E r \in RefundInvoices : RefundPrepare(o, r, v)
      PROVE  StagesKept
  <2>1. CASE MeltAnswer(o, v)
    BY <1>3, <2>1 DEF IInv, TypeOK, Row, State, MeltAnswer, LedgerUpdateRefund
  <2>2. ASSUME NEW r \in RefundInvoices, RefundPrepare(o, r, v)
        PROVE  StagesKept
    BY <1>3, <2>2 DEF IInv, TypeOK, Row, State, RefundPrepare, LedgerStartRefund
  <2> QED
    BY Zenon, <1>7, <2>1, <2>2
<1>8. ASSUME NEW i \in invoices, InvoiceAnswer(o, i) \/ RecoverInvoice(o, i)
      PROVE  StagesKept
  <2>1. /\ State(o) = "invoice_pending" /\ i.hash \in Hashes
        /\ \A p \in Orders \ {o} : ledger[p].hash # i.hash
    BY Zenon, <1>8 DEF IInv, TypeOK, Invoice, InvoiceAnswer, RecoverInvoice, LedgerInvoice
  <2>2. ledger[o].hash = None
    BY Zenon, <2>1 DEF IInv, RowInv
  <2>3. i.hash \notin paid /\ None \notin paid
    BY Zenon, <1>2, <2>1, <2>2, NoneAssumption DEF IInv, PaidInv
  <2>4. /\ ledger'[o].hash = i.hash /\ ledger'[o].secret = ledger[o].secret
        /\ State(o)' = "awaiting_payment"
        /\ \A p \in Orders \ {o} : ledger'[p] = ledger[p]
    <3>1. LedgerInvoice(o, i.hash)
      BY Zenon, <1>8 DEF InvoiceAnswer, RecoverInvoice
    <3>2. ledger \in [Orders -> Row]
      BY Zenon DEF IInv, TypeOK
    <3> QED
      BY Zenon, <3>1, <3>2 DEF Row, State, LedgerInvoice
  <2> QED
    BY Zenon, <2>1, <2>2, <2>3, <2>4 DEF StagesKept, SaleStage, Received, Returned, State
<1>9. ASSUME NEW n \in Notes, NEW s \in Secrets, AcceptNote(o, n, s)
      PROVE  StagesKept
  <2>1. State(o) = "quoted" /\ s \notin drawn
    BY Zenon, <1>9 DEF AcceptNote, LedgerRotate
  <2>2. ledger[o].secret = None
    BY Zenon, <2>1 DEF IInv, RowInv, Rotated, Paid
  <2>3. s # None /\ \A p \in Orders : ledger[p].secret # s
    BY Zenon, <2>1, NoneAssumption DEF IInv, RotationInv
  <2>4. s \notin live /\ None \notin live
    BY Zenon, <1>2, <2>3, NoneAssumption DEF IInv, ReplacementInv, Bought
  <2>5. \A m \in melted : m[1] # s /\ m[1] # None
    BY Zenon, <1>2, <2>3, NoneAssumption DEF IInv, MeltInv, Owed
  <2>6. /\ ledger'[o].secret = s /\ ledger'[o].hash = ledger[o].hash
        /\ State(o)' = "lnurl_pending"
        /\ \A p \in Orders \ {o} : ledger'[p] = ledger[p]
    BY <1>9 DEF IInv, TypeOK, Row, State, AcceptNote, LedgerRotate
  <2> QED
    BY <2>1, <2>2, <2>4, <2>5, <2>6 DEF StagesKept, SaleStage, Received, Returned, State
<1>10. CASE FulfilUnavailable(o)
  <2>1. State(o) = "settled" /\ hold[o] # "active"
    BY Zenon, <1>10 DEF FulfilUnavailable, LedgerState, CanActivate
  <2>2. Received(o) /\ ~Returned(o)
    BY Zenon, <2>1, SettledStage
  <2>3. /\ ledger'[o].secret = ledger[o].secret /\ State(o)' = "refund_required"
        /\ \A p \in Orders \ {o} : ledger'[p] = ledger[p]
    BY <1>10 DEF IInv, TypeOK, Row, State, FulfilUnavailable, LedgerState
  <2> QED
    BY Zenon, <2>1, <2>2, <2>3 DEF StageMove, SaleStage, Received, Returned, State
<1>11. CASE RefundConfirmed(o)
  <2>1. /\ State(o) = "refund_required"
        /\ <<ledger[o].secret, ledger[o].refund>> \in melted
    BY Zenon, <1>11 DEF RefundConfirmed, LedgerState
  <2>2. Returned(o)
    BY Zenon, <2>1 DEF Returned
  <2>3. /\ ledger'[o].secret = ledger[o].secret
        /\ \A p \in Orders \ {o} : ledger'[p] = ledger[p]
    BY Zenon, <1>11 DEF IInv, TypeOK, Row, State, RefundConfirmed, LedgerState
  <2> QED
    BY Zenon, <2>2, <2>3 DEF StagesKept, SaleStage, Received, Returned, State
<1> QED
  BY Zenon, <1>4, <1>5, <1>6, <1>7, <1>8, <1>9, <1>10, <1>11 DEF LedgerWrite

\* The store delivers exactly when it first activates a settled order.
LEMMA StoreStage ==
    ASSUME IInv, StoreWrite, UNCHANGED <<ledger, paid, live, melted>>
    PROVE  StagesKept \/ \E o \in Orders : StageMove(o, "paid", "delivered")
<1>1. ASSUME NEW o \in Orders, ReserveHold(o)
      PROVE  StagesKept
  <2>1. \A p \in Orders : hold'[p] = "active" <=> hold[p] = "active"
    BY Zenon, <1>1 DEF IInv, TypeOK, ReserveHold, StoreReserve
  <2> QED
    BY Zenon, <2>1 DEF StagesKept, SaleStage, Received, Returned, State
<1>2. ASSUME NEW o \in Orders, FulfilActivate(o)
      PROVE  StagesKept \/ StageMove(o, "paid", "delivered")
  <2>1. /\ hold'[o] = "active"
        /\ \A p \in Orders \ {o} : hold'[p] = hold[p]
    BY Zenon, <1>2 DEF IInv, TypeOK, FulfilActivate
  <2>2. State(o) = "settled"
    BY Zenon, <1>2 DEF IInv, OpInv, FulfilActivate, At, Idle
  <2>3. Received(o) /\ ~Returned(o)
    BY Zenon, <2>2, SettledStage
  <2>4. \A p \in Orders \ {o} : SaleStage(p)' = SaleStage(p)
    BY Zenon, <2>1 DEF SaleStage, Received, Returned, State
  <2>5. SaleStage(o)' = "delivered"
    BY Zenon, <2>1, <2>2, <2>3 DEF SaleStage, Received, Returned, State
  <2>6. SaleStage(o) = "delivered" \/ SaleStage(o) = "paid"
    BY Zenon, <2>2, <2>3 DEF SaleStage
  <2> QED
    BY Zenon, <2>4, <2>5, <2>6 DEF StageMove, StagesKept
<1> QED
  BY Zenon, <1>1, <1>2 DEF StoreWrite

\* The backend moves a stage only by receiving a payment.
LEMMA BackendStage ==
    ASSUME IInv, BackendWrite, UNCHANGED <<ledger, hold, live, melted>>
    PROVE  StagesKept \/ \E o \in Orders : StageMove(o, "open", "paid")
<1>1. CASE UNCHANGED paid
  BY Zenon, <1>1 DEF StagesKept, SaleStage, Received, Returned, State
<1>2. ASSUME NEW o \in Orders, NEW i \in invoices, BuyerPays(o, i)
      PROVE  StagesKept \/ StageMove(o, "open", "paid")
  <2>1. ledger[o].hash = i.hash /\ i.hash \in Hashes /\ paid' = paid \cup {i.hash}
    BY Zenon, <1>2 DEF IInv, TypeOK, Invoice, BuyerPays
  <2>2. \A p \in Orders \ {o} : ledger[p].hash # i.hash
    BY Zenon, <2>1, NoneAssumption DEF IInv, UniqueInv
  <2>3. \A p \in Orders \ {o} : SaleStage(p)' = SaleStage(p)
    BY Zenon, <2>1, <2>2 DEF SaleStage, Received, Returned, State
  <2>4. CASE Received(o)
    <3>1. SaleStage(o)' = SaleStage(o)
      BY Zenon, <2>1, <2>4 DEF SaleStage, Received, Returned, State
    <3> QED
      BY Zenon, <2>3, <3>1 DEF StagesKept
  <2>5. CASE ~Received(o)
    <3>1. State(o) \in Invoiced /\ Rail[o] = "lightning" /\ ledger[o].secret = None
      BY Zenon, <2>1, NoneAssumption DEF IInv, RowInv
    <3>2. State(o) \notin Paid
      BY Zenon, <2>5, <3>1 DEF IInv, HashInv, Received
    <3>3. hold[o] # "active" /\ State(o) # "refund_required"
      BY Zenon, <3>2 DEF IInv, HoldInv, Paid
    <3>4. ~Returned(o)
      BY Zenon, <3>1, NoneAssumption DEF IInv, TypeOK, Returned
    <3>5. SaleStage(o) = "open" /\ SaleStage(o)' = "paid"
      BY Zenon, <2>1, <2>5, <3>3, <3>4 DEF SaleStage, Received, Returned, State
    <3> QED
      BY Zenon, <2>3, <3>5 DEF StageMove
  <2> QED
    BY Zenon, <2>4, <2>5
<1> QED
  BY Zenon, <1>1, <1>2 DEF BackendWrite, InvoiceRequest, BackendCreate

\* The mint moves a stage by taking a note in, or by paying a refund out.
LEMMA MintStage ==
    ASSUME IInv, MintWrite, UNCHANGED <<ledger, hold, paid>>
    PROVE  \/ StagesKept
           \/ \E o \in Orders : \/ StageMove(o, "open", "paid")
                               \/ StageMove(o, "owed", "returned")
<1>1. /\ \A p \in Orders : ledger[p].secret \in Secrets \cup {None}
      /\ live \subseteq Notes \cup Secrets /\ \A m \in melted : m[1] \in Secrets
  BY Zenon DEF IInv, TypeOK, Row
<1>2. CASE UNCHANGED <<live, melted>>
  BY Zenon, <1>2 DEF StagesKept, SaleStage, Received, Returned, State
<1>3. ASSUME NEW n \in Notes, BuyerSpends(n)
      PROVE  StagesKept
  <2>1. live' = live \ {n} /\ UNCHANGED melted
    BY Zenon, <1>3 DEF BuyerSpends
  <2>2. \A p \in Orders : ledger[p].secret \in live' <=> ledger[p].secret \in live
    BY Zenon, <1>1, <2>1, DisjointAssumption, NoneAssumption
  <2> QED
    BY Zenon, <2>1, <2>2 DEF StagesKept, SaleStage, Received, Returned, State
<1>4. ASSUME NEW n \in Notes, NEW s \in Secrets, MintRotate(n, s)
      PROVE  \E o \in Orders : StageMove(o, "open", "paid")
  <2>1. /\ <<n, s>> \in rotateSent /\ n \in live
        /\ live' = (live \ {n}) \cup {s} /\ UNCHANGED melted
    BY Zenon, <1>4 DEF MintRotate
  <2>2. PICK o \in Orders : ledger[o].note = n /\ ledger[o].secret = s
    BY Zenon, <2>1 DEF IInv, RotationInv
  <2>3. \A p \in Orders \ {o} : ledger[p].secret # s
    BY Zenon, <2>2, NoneAssumption DEF IInv, UniqueInv
  <2>4. \A p \in Orders \ {o} : ledger[p].secret \in live' <=> ledger[p].secret \in live
    BY Zenon, <1>1, <2>1, <2>3, DisjointAssumption, NoneAssumption
  <2>5. \A p \in Orders \ {o} : SaleStage(p)' = SaleStage(p)
    BY Zenon, <2>1, <2>4 DEF SaleStage, Received, Returned, State
  <2>6. Rail[o] = "lnurlcash"
    BY Zenon, <2>2, NoneAssumption DEF IInv, RowInv
  <2>7. State(o) \notin Paid
    BY Zenon, <2>1, <2>2, <2>6 DEF IInv, ReplacementInv, Bought
  <2>8. hold[o] # "active" /\ State(o) # "refund_required"
    BY Zenon, <2>7 DEF IInv, HoldInv, Paid
  <2>9. ~Returned(o)
    <3>1. ASSUME NEW m \in melted, m[1] = s
          PROVE  FALSE
      <4>1. PICK p \in Orders : ledger[p].secret = s /\ State(p) \in Owed
        BY Zenon, <3>1 DEF IInv, MeltInv, Owed
      <4> QED
        BY Zenon, <2>3, <2>7, <4>1 DEF Paid, Owed
    <3> QED
      BY Zenon, <2>2, <3>1 DEF Returned
  <2>10. s \notin live
    <3>1. ASSUME s \in live
          PROVE  FALSE
      <4>1. PICK p \in Orders : Bought(p, s)
        BY Zenon, <3>1 DEF IInv, ReplacementInv
      <4> QED
        BY Zenon, <2>1, <2>2, <2>3, <4>1 DEF Bought
    <3> QED
      BY Zenon, <3>1
  <2>11. ledger[o].hash = None
    BY Zenon, <2>6 DEF IInv, RowInv
  <2>12. None \notin paid
    BY Zenon, NoneAssumption DEF IInv, TypeOK
  <2>13. SaleStage(o) = "open" /\ SaleStage(o)' = "paid"
    BY Zenon, <2>1, <2>2, <2>8, <2>9, <2>10, <2>11, <2>12 DEF SaleStage, Received, Returned, State
  <2> QED
    BY Zenon, <2>5, <2>13 DEF StageMove
<1>5. ASSUME NEW s \in Secrets, NEW r \in RefundInvoices, MintMelt(s, r)
      PROVE  \E o \in Orders : StageMove(o, "owed", "returned")
  <2>1. /\ <<s, r>> \in meltSent /\ s \in live
        /\ live' = live \ {s} /\ melted' = melted \cup {<<s, r>>}
    BY Zenon, <1>5 DEF MintMelt
  <2>2. PICK o \in Orders : ledger[o].secret = s /\ State(o) \in Owed
    BY Zenon, <2>1 DEF IInv, MeltInv, Owed
  <2>3. \A p \in Orders \ {o} : ledger[p].secret # s
    BY Zenon, <2>2, NoneAssumption DEF IInv, UniqueInv
  <2>4. \A p \in Orders \ {o} : /\ ledger[p].secret \in live' <=> ledger[p].secret \in live
                                /\ Returned(p)' <=> Returned(p)
    BY <2>1, <2>3 DEF Returned
  <2>5. \A p \in Orders \ {o} : SaleStage(p)' = SaleStage(p)
    BY Zenon, <2>4 DEF SaleStage, Received, State
  <2>6. ~Returned(o)
    BY Zenon, <2>1, <2>2 DEF IInv, MeltInv, Returned
  <2>7. State(o) = "refund_required"
    BY Zenon, <2>1, <2>2 DEF IInv, MeltInv, Owed
  <2>8. hold[o] # "active"
    BY Zenon, <2>7 DEF IInv, HoldInv
  <2>9. Returned(o)'
    BY <2>1, <2>2 DEF Returned
  <2>10. SaleStage(o) = "owed" /\ SaleStage(o)' = "returned"
    BY Zenon, <2>6, <2>7, <2>8, <2>9 DEF SaleStage
  <2> QED
    BY Zenon, <2>5, <2>10 DEF StageMove
<1> QED
  BY Zenon, <1>2, <1>3, <1>4, <1>5 DEF MintWrite, RotateSend, MeltSend

\* The checkout implements the sale it promises: lightning(), lnurlcash(),
\* check(), fulfil() and refund() together take each order's money to the
\* allowance or to one refund, through any crashes, replays and lost answers.
THEOREM CheckoutImplementsSale == Spec => ImplementsSale
<1>1. Init => Promise!Init
  <2> SUFFICES ASSUME Init PROVE Promise!Init
    OBVIOUS
  <2>1. \A o \in Orders : SaleStage(o) = "open"
    BY Zenon, NoneAssumption DEF Init, SaleStage, Received, Returned, State, NoRow
  <2> QED
    BY Zenon, <2>1 DEF Promise!Init
<1>2. ASSUME IInv, [Next]_vars
      PROVE  [Promise!Next]_([o \in Orders |-> SaleStage(o)])
  <2>1. ASSUME StagesKept
        PROVE  UNCHANGED [o \in Orders |-> SaleStage(o)]
    BY Zenon, <2>1 DEF StagesKept
  <2>2. CASE UNCHANGED <<ledger, hold, paid, live, melted>>
    BY Zenon, <2>1, <2>2 DEF StagesKept, SaleStage, Received, Returned, State
  <2>3. CASE Next
    <3>1. StepKind
      BY Zenon, <2>3, StepKinds
    <3>2. CASE /\ \E o \in Orders : LedgerWrite(o)
               /\ UNCHANGED <<hold, invoiceSent, invoices, paid, live, rotateSent, meltSent,
                              melted>>
      BY Zenon, <1>2, <2>1, <3>2, LedgerStage, MoveIsSaleStep
    <3>3. CASE StoreWrite /\ UNCHANGED <<ledger, paid, live, melted>>
      BY Zenon, <1>2, <2>1, <3>3, StoreStage, MoveIsSaleStep
    <3>4. CASE BackendWrite /\ UNCHANGED <<ledger, hold, live, melted>>
      BY Zenon, <1>2, <2>1, <3>4, BackendStage, MoveIsSaleStep
    <3>5. CASE MintWrite /\ UNCHANGED <<ledger, hold, paid>>
      BY Zenon, <1>2, <2>1, <3>5, MintStage, MoveIsSaleStep
    <3> QED
      BY Zenon, <2>2, <3>1, <3>2, <3>3, <3>4, <3>5 DEF StepKind
  <2> QED
    BY Zenon, <1>2, <2>2, <2>3 DEF vars
<1> QED
  BY <1>1, <1>2, Invariance, PTL DEF Spec, ImplementsSale, Promise!Spec
=============================================================================
