---------------------------- MODULE ClaimsProofs ----------------------------
(***************************************************************************)
(* Proofs of the safety properties of Claims, for any keys, owners,        *)
(* delegations and number of crashes.  IInv says where a pass stands and   *)
(* what that rules out; OwnerInv and StakeInv are built on it and carry    *)
(* the owners' and the keys' writes.                                       *)
(***************************************************************************)
EXTENDS Claims, TLAPS

Restoring == {"restore", "mirror", "drop", "forget"}
Transferring == {"record", "claim", "unclaim", "skip"}
Places == {"idle", "pass"} \cup Restoring \cup Transferring
Quiet == {"none", "counted"}

\* The delegations the members and the recorded moves stem from.
Delegated ==
    \A k \in Keys :
        /\ member[k] # None => <<k, member[k]>> \in delegations
        /\ moves[k] # None => <<k, moves[k].owner>> \in delegations

\* No grant is applied inside a pass, so a key the pass found ended stays ended
\* and trusted until the pass is over, and wait_idle's answer stays true.
PassSound ==
    /\ sweep.at = "idle" => sweep = NoPass
    /\ \A k \in sweep.ended \cup sweep.moved : k \notin active /\ member[k] # None
    /\ \A k \in sweep.moved : k \notin claims /\ request[k] \in Quiet
    /\ (sweep.due # {} \/ sweep.at \in Restoring) => sweep.moved = {}
    /\ sweep.at \in Restoring =>
        /\ member[sweep.key] # None
        /\ moves[sweep.key] # None => moves[sweep.key].owner = member[sweep.key]
    /\ sweep.at \in Transferring =>
        /\ sweep.due = {}
        /\ sweep.key \notin active /\ member[sweep.key] # None
        /\ request[sweep.key] \in Quiet
        /\ sweep.at \in {"claim", "unclaim"} => moves[sweep.key] # None
        /\ sweep.at = "skip" => sweep.key \notin claims

IInv == TypeOK /\ Delegated /\ PassSound /\ NoDemotion

\* While an owner's upload is past the gate, or kept, no move to that owner is
\* on record as the one that made the owner's claim.
OwnerInv ==
    /\ own \subseteq claims
    /\ upload \subseteq recent
    /\ \A k \in Keys : moves[k] # None /\ moves[k].owner \in own \cup upload
                            => ~OwnerClaimIsOurs(moves[k])

\* A key's upload is claimed by the key or by the owner its move is recorded for,
\* and no step of a pass is about to drop the one that still protects it.
StakeInv ==
    /\ \A k \in stake :
        k \in claims \/ (moves[k] # None /\ moves[k].owner \in claims)
    /\ sweep.at \in {"drop", "forget"} /\ sweep.key \in stake => sweep.key \in claims
    /\ sweep.at = "unclaim" /\ sweep.key \in stake => moves[sweep.key].owner \in claims
    /\ sweep.at = "skip" => sweep.key \notin stake

\* No key is delegated to by two owners in the course of its life.
OneOwnerPerKey ==
    \A d \in Delegating : \A k \in Keys : \A o, p \in Owners :
        <<k, o>> \in d /\ <<k, p>> \in d => o = p
\* What TransferRecord writes: a record of a move to the owner it is called with.
LEMMA RecordOf ==
    ASSUME NEW k \in Keys, NEW o \in Owners
    PROVE  MoveRecord(k, o) \in Record /\ MoveRecord(k, o).owner = o
BY Zenon DEF MoveRecord, Record

\* A row that OwnerMark adopts keeps its owner.
LEMMA AdoptedRow ==
    ASSUME NEW row \in Record
    PROVE  /\ [row EXCEPT !.adopted = TRUE] \in Record
           /\ [row EXCEPT !.adopted = TRUE].owner = row.owner
           /\ ~OwnerClaimIsOurs([row EXCEPT !.adopted = TRUE])
BY Zenon DEF Record, OwnerClaimIsOurs

\* No record of a move is the value that stands for none.
LEMMA NoneIsNoRecord == None \notin Record
BY Zenon, RecordAssumption

\* Keys are no owners: an owner's claim is not a key's.
LEMMA Parties ==
    ASSUME NEW k \in Keys, NEW o \in Owners
    PROVE  k # o /\ k # None /\ o # None
BY Zenon, PartyAssumption

\* A grant is applied between passes, so it cannot revive a key that a pass has
\* found ended (apply_grant).
LEMMA GrantSteps ==
    ASSUME IInv, NEW k \in Keys, NEW o \in Owners,
           Grant(k, o)
    PROVE  IInv'
<1> USE DEF IInv
<1>1. ASSUME Grant(k, o) PROVE IInv'
  <2>1. TypeOK'
    BY <1>1 DEF TypeOK, Record, Grant, store, history, NoPass
  <2>2. Delegated'
    <3>1. /\ member' = [member EXCEPT ![k] = o] /\ member \in [Keys -> Owners \cup {None}]
          /\ UNCHANGED <<moves, delegations>> /\ <<k, o>> \in delegations
      BY Zenon, <1>1 DEF Grant, TypeOK, store
    <3>2. \A j \in Keys : member'[j] = IF j = k THEN o ELSE member[j]
      BY Zenon, <3>1
    <3> QED
      BY Zenon, <3>1, <3>2 DEF Delegated
  <2>3. PassSound'
    BY <1>1, PartyAssumption DEF PassSound, TypeOK, Restoring, Transferring, Quiet, Grant, store, history, NoPass
  <2>4. NoDemotion'
    BY Zenon, <1>1
      DEF NoDemotion, PassSound, TypeOK, Restoring, Transferring, Quiet, Grant, store, history, NoPass
  <2> QED
    BY Zenon, <2>1, <2>2, <2>3, <2>4
<1> QED
  BY Zenon, <1>1

\* A revocation or an expiry ends the key, wherever a pass stands.
LEMMA RevokeSteps ==
    ASSUME IInv, NEW k \in Keys, Revoke(k) \/ Expire(k)
    PROVE  IInv'
<1> USE DEF IInv
<1>1. ASSUME Revoke(k) PROVE IInv'
  <2>1. TypeOK'
    BY Zenon, <1>1 DEF TypeOK, Record, Revoke, store, history
  <2>2. Delegated'
    BY Zenon, <1>1 DEF Delegated, TypeOK, Revoke, store, history
  <2>3. PassSound'
    BY Zenon, <1>1, PartyAssumption
      DEF PassSound, TypeOK, Restoring, Transferring, Quiet, Revoke, store, history
  <2>4. NoDemotion'
    BY Zenon, <1>1
      DEF NoDemotion, PassSound, TypeOK, Restoring, Transferring, Quiet, Revoke, store, history
  <2> QED
    BY Zenon, <2>1, <2>2, <2>3, <2>4
<1>2. ASSUME Expire(k) PROVE IInv'
  <2>1. TypeOK'
    BY Zenon, <1>2 DEF TypeOK, Record, Expire, store, history
  <2>2. Delegated'
    BY Zenon, <1>2 DEF Delegated, TypeOK, Expire, store, history
  <2>3. PassSound'
    BY Zenon, <1>2, PartyAssumption
      DEF PassSound, TypeOK, Restoring, Transferring, Quiet, Expire, store, history
  <2>4. NoDemotion'
    BY Zenon, <1>2
      DEF NoDemotion, PassSound, TypeOK, Restoring, Transferring, Quiet, Expire, store, history
  <2> QED
    BY <2>1, <2>2, <2>3, <2>4
<1> QED
  BY Zenon, <1>1, <1>2

\* What a key does at the gate: only a key admitted while active uploads, and a key
\* the pass is moving is neither (begin_write, release_delete).
LEMMA KeySteps ==
    ASSUME IInv, NEW k \in Keys, BeginWrite(k) \/ KeyStep(k)
    PROVE  IInv'
<1> USE DEF IInv
<1>1. ASSUME BeginWrite(k) PROVE IInv'
  <2>1. TypeOK'
    BY Zenon, <1>1 DEF TypeOK, Record, BeginWrite, store, policy, history
  <2>2. Delegated'
    BY Zenon, <1>1 DEF Delegated, TypeOK, BeginWrite, store, policy, history
  <2>3. PassSound'
    BY <1>1, PartyAssumption DEF PassSound, TypeOK, Restoring, Transferring, Quiet, BeginWrite, store, policy, history
  <2>4. NoDemotion'
    BY Zenon, <1>1
      DEF NoDemotion, PassSound, TypeOK, Restoring, Transferring, Quiet, BeginWrite, store, policy, history
  <2> QED
    BY <2>1, <2>2, <2>3, <2>4
<1>2. ASSUME CheckActive(k) PROVE IInv'
  <2>1. TypeOK'
    BY Zenon, <1>2 DEF TypeOK, Record, CheckActive, store, policy, history
  <2>2. Delegated'
    BY Zenon, <1>2 DEF Delegated, TypeOK, CheckActive, store, policy, history
  <2>3. PassSound'
    BY <1>2, PartyAssumption DEF PassSound, TypeOK, Restoring, Transferring, Quiet, CheckActive, store, policy, history
  <2>4. NoDemotion'
    BY Zenon, <1>2
      DEF NoDemotion, PassSound, TypeOK, Restoring, Transferring, Quiet, CheckActive, store, policy, history
  <2> QED
    BY <2>1, <2>2, <2>3, <2>4
<1>3. ASSUME KeyUpload(k) PROVE IInv'
  <2>1. TypeOK'
    BY Zenon, <1>3 DEF TypeOK, Record, KeyUpload, policy
  <2>2. Delegated'
    BY Zenon, <1>3 DEF Delegated, TypeOK, KeyUpload, policy
  <2>3. PassSound'
    BY <1>3, PartyAssumption DEF PassSound, TypeOK, Restoring, Transferring, Quiet, KeyUpload, policy
  <2>4. NoDemotion'
    BY Zenon, <1>3
      DEF NoDemotion, PassSound, TypeOK, Restoring, Transferring, Quiet, KeyUpload, policy
  <2> QED
    BY <2>1, <2>2, <2>3, <2>4
<1>4. ASSUME KeyGivesUp(k) PROVE IInv'
  <2>1. TypeOK'
    BY Zenon, <1>4 DEF TypeOK, Record, KeyGivesUp, store, policy, history
  <2>2. Delegated'
    BY Zenon, <1>4 DEF Delegated, TypeOK, KeyGivesUp, store, policy, history
  <2>3. PassSound'
    BY <1>4, PartyAssumption DEF PassSound, TypeOK, Restoring, Transferring, Quiet, KeyGivesUp, store, policy, history
  <2>4. NoDemotion'
    BY Zenon, <1>4
      DEF NoDemotion, PassSound, TypeOK, Restoring, Transferring, Quiet, KeyGivesUp, store, policy, history
  <2> QED
    BY <2>1, <2>2, <2>3, <2>4
<1>5. ASSUME Release(k) PROVE IInv'
  <2>1. TypeOK'
    BY Zenon, <1>5 DEF TypeOK, Record, Release, DropOwnerClaimIfOurs, HasMove
  <2>2. Delegated'
    BY Zenon, <1>5 DEF Delegated, TypeOK, Release, DropOwnerClaimIfOurs, HasMove
  <2>3. PassSound'
    BY <1>5, PartyAssumption DEF PassSound, TypeOK, Restoring, Transferring, Quiet, Release, DropOwnerClaimIfOurs, HasMove
  <2>4. NoDemotion'
    BY Zenon, <1>5
      DEF NoDemotion, PassSound, TypeOK, Restoring, Transferring, Quiet, Release, DropOwnerClaimIfOurs, HasMove
  <2> QED
    BY <2>1, <2>2, <2>3, <2>4
<1>6. ASSUME NothingToRelease(k) PROVE IInv'
  <2>1. TypeOK'
    BY Zenon, <1>6 DEF TypeOK, Record, NothingToRelease, store, policy, history
  <2>2. Delegated'
    BY Zenon, <1>6 DEF Delegated, TypeOK, NothingToRelease, store, policy, history
  <2>3. PassSound'
    BY <1>6, PartyAssumption DEF PassSound, TypeOK, Restoring, Transferring, Quiet, NothingToRelease, store, policy, history
  <2>4. NoDemotion'
    BY Zenon, <1>6
      DEF NoDemotion, PassSound, TypeOK, Restoring, Transferring, Quiet, NothingToRelease, store, policy, history
  <2> QED
    BY <2>1, <2>2, <2>3, <2>4
<1>7. ASSUME AnswerDelete(k) PROVE IInv'
  <2>1. TypeOK'
    BY Zenon, <1>7 DEF TypeOK, Record, AnswerDelete, store, policy
  <2>2. Delegated'
    BY Zenon, <1>7 DEF Delegated, TypeOK, AnswerDelete, store, policy
  <2>3. PassSound'
    BY <1>7, PartyAssumption DEF PassSound, TypeOK, Restoring, Transferring, Quiet, AnswerDelete, store, policy
  <2>4. NoDemotion'
    BY Zenon, <1>7
      DEF NoDemotion, PassSound, TypeOK, Restoring, Transferring, Quiet, AnswerDelete, store, policy
  <2> QED
    BY <2>1, <2>2, <2>3, <2>4
<1>8. ASSUME PassDelete(k) PROVE IInv'
  <2>1. TypeOK'
    BY Zenon, <1>8 DEF TypeOK, Record, PassDelete, store, policy, history
  <2>2. Delegated'
    BY Zenon, <1>8 DEF Delegated, TypeOK, PassDelete, store, policy, history
  <2>3. PassSound'
    BY <1>8, PartyAssumption DEF PassSound, TypeOK, Restoring, Transferring, Quiet, PassDelete, store, policy, history
  <2>4. NoDemotion'
    BY Zenon, <1>8
      DEF NoDemotion, PassSound, TypeOK, Restoring, Transferring, Quiet, PassDelete, store, policy, history
  <2> QED
    BY <2>1, <2>2, <2>3, <2>4
<1>9. ASSUME CoreDelete(k) PROVE IInv'
  <2>1. TypeOK'
    BY Zenon, <1>9 DEF TypeOK, Record, CoreDelete
  <2>2. Delegated'
    BY Zenon, <1>9 DEF Delegated, TypeOK, CoreDelete
  <2>3. PassSound'
    BY <1>9, PartyAssumption DEF PassSound, TypeOK, Restoring, Transferring, Quiet, CoreDelete
  <2>4. NoDemotion'
    BY Zenon, <1>9 DEF NoDemotion, PassSound, TypeOK, Restoring, Transferring, Quiet, CoreDelete
  <2> QED
    BY <2>1, <2>2, <2>3, <2>4
<1> QED
  BY Zenon, <1>1, <1>2, <1>3, <1>4, <1>5, <1>6, <1>7, <1>8, <1>9 DEF KeyStep

\* What an owner or the operator does with the blob (mark_owner_writes).
LEMMA OwnerSteps ==
    ASSUME IInv, NEW o \in Owners,
           \/ OwnerMark(o) \/ OwnerUpload(o) \/ OwnerGivesUp(o) \/ MarkExpires(o)
           \/ OwnerDelete(o)
    PROVE  IInv'
<1> USE DEF IInv
<1>1. ASSUME OwnerMark(o) PROVE IInv'
  <2>0. \A k \in Keys : /\ moves'[k] \in Record \cup {None}
                        /\ moves'[k] = None <=> moves[k] = None
                        /\ moves[k] # None => moves'[k].owner = moves[k].owner
    BY <1>1, NoneIsNoRecord, AdoptedRow DEF TypeOK, OwnerMark
  <2>1. TypeOK'
    <3>1. moves' \in [Keys -> Record \cup {None}]
      BY Zenon, <1>1, <2>0 DEF OwnerMark
    <3> QED
      BY Zenon, <1>1, <3>1 DEF TypeOK, OwnerMark, policy, history
  <2>2. Delegated'
    BY <1>1 DEF Delegated, TypeOK, OwnerMark, policy, history
  <2>3. PassSound'
    <3>1. UNCHANGED <<claims, member, active, request, sweep>>
      BY Zenon, <1>1 DEF OwnerMark, policy
    <3>2. sweep.key \in Keys \cup {None} /\ (sweep.at \in Restoring \cup Transferring => sweep.key # None)
      BY Zenon DEF TypeOK, Restoring, Transferring
    <3> QED
      BY Zenon, <2>0, <3>1, <3>2 DEF PassSound, Transferring
  <2>4. NoDemotion'
    BY Zenon, <1>1, Parties
      DEF NoDemotion, PassSound, TypeOK, Restoring, Transferring, Quiet, OwnerMark, policy, history
  <2> QED
    BY Zenon, <2>1, <2>2, <2>3, <2>4
<1>2. ASSUME OwnerUpload(o) PROVE IInv'
  <2>1. TypeOK'
    BY Zenon, <1>2 DEF TypeOK, Record, OwnerUpload, policy
  <2>2. Delegated'
    BY Zenon, <1>2 DEF Delegated, TypeOK, OwnerUpload, policy
  <2>3. PassSound'
    <3>1. /\ UNCHANGED <<moves, member, active, request, sweep>>
          /\ \A k \in Keys : k \in claims' <=> k \in claims
      BY Zenon, <1>2, Parties DEF OwnerUpload, policy
    <3>2. /\ sweep.moved \subseteq Keys /\ sweep.key \in Keys \cup {None}
          /\ sweep.at \in Transferring => sweep.key # None
      BY Zenon DEF TypeOK, Transferring
    <3> QED
      BY Zenon, <3>1, <3>2 DEF PassSound
  <2>4. NoDemotion'
    BY Zenon, <1>2, Parties
      DEF NoDemotion, PassSound, TypeOK, Restoring, Transferring, Quiet, OwnerUpload, policy
  <2> QED
    BY <2>1, <2>2, <2>3, <2>4
<1>3. ASSUME OwnerGivesUp(o) PROVE IInv'
  <2>1. TypeOK'
    BY Zenon, <1>3 DEF TypeOK, Record, OwnerGivesUp, store, policy, history
  <2>2. Delegated'
    BY Zenon, <1>3 DEF Delegated, TypeOK, OwnerGivesUp, store, policy, history
  <2>3. PassSound'
    BY Zenon, <1>3, PartyAssumption
      DEF PassSound, TypeOK, Restoring, Transferring, Quiet, OwnerGivesUp, store, policy, history
  <2>4. NoDemotion'
    BY Zenon, <1>3
      DEF NoDemotion, PassSound, TypeOK, Restoring, Transferring, Quiet, OwnerGivesUp, store, policy, history
  <2> QED
    BY <2>1, <2>2, <2>3, <2>4
<1>4. ASSUME MarkExpires(o) PROVE IInv'
  <2>1. TypeOK'
    BY Zenon, <1>4 DEF TypeOK, Record, MarkExpires, policy, history
  <2>2. Delegated'
    BY Zenon, <1>4 DEF Delegated, TypeOK, MarkExpires, policy, history
  <2>3. PassSound'
    BY Zenon, <1>4, PartyAssumption
      DEF PassSound, TypeOK, Restoring, Transferring, Quiet, MarkExpires, policy, history
  <2>4. NoDemotion'
    BY Zenon, <1>4
      DEF NoDemotion, PassSound, TypeOK, Restoring, Transferring, Quiet, MarkExpires, policy, history
  <2> QED
    BY <2>1, <2>2, <2>3, <2>4
<1>5. ASSUME OwnerDelete(o) PROVE IInv'
  <2>1. TypeOK'
    BY Zenon, <1>5 DEF TypeOK, Record, OwnerDelete, policy
  <2>2. Delegated'
    BY Zenon, <1>5 DEF Delegated, TypeOK, OwnerDelete, policy
  <2>3. PassSound'
    BY Zenon, <1>5, PartyAssumption
      DEF PassSound, TypeOK, Restoring, Transferring, Quiet, OwnerDelete, policy
  <2>4. NoDemotion'
    BY Zenon, <1>5
      DEF NoDemotion, PassSound, TypeOK, Restoring, Transferring, Quiet, OwnerDelete, policy
  <2> QED
    BY <2>1, <2>2, <2>3, <2>4
<1> QED
  BY Zenon, <1>1, <1>2, <1>3, <1>4, <1>5

\* The operator removes the blob.
LEMMA TombstoneStep ==
    ASSUME IInv, Tombstone
    PROVE  IInv'
<1> USE DEF IInv
<1>1. ASSUME Tombstone PROVE IInv'
  <2>1. TypeOK'
    BY Zenon, <1>1 DEF TypeOK, Record, Tombstone, policy
  <2>2. Delegated'
    BY <1>1 DEF Delegated, TypeOK, Tombstone, policy
  <2>3. PassSound'
    BY Zenon, <1>1, PartyAssumption
      DEF PassSound, TypeOK, Restoring, Transferring, Quiet, Tombstone, policy
  <2>4. NoDemotion'
    BY Zenon, <1>1
      DEF NoDemotion, PassSound, TypeOK, Restoring, Transferring, Quiet, Tombstone, policy
  <2> QED
    BY Zenon, <2>1, <2>2, <2>3, <2>4
<1> QED
  BY Zenon, <1>1

\* The hand-backs of a pass (restore): the key stays a member, and no key has been
\* moved yet.
LEMMA RestoreSteps ==
    ASSUME IInv, 
           \/ \E k \in Keys : RestoreBegin(k)
           \/ RestoreCheck \/ RestoreMirror \/ RestoreKept
           \/ RestoreDrop \/ RestoreForget
    PROVE  IInv'
<1> USE DEF IInv
<1>1. ASSUME NEW k \in Keys, RestoreBegin(k) PROVE IInv'
  <2>1. TypeOK'
    <3>1. CASE HasMove(k) /\ k \notin sweep.ended
      BY Zenon, <1>1, <3>1, PartyAssumption
      DEF TypeOK, RestoreBegin, store, policy, history, Between
    <3>2. CASE ~(HasMove(k) /\ k \notin sweep.ended)
      BY Zenon, <1>1, <3>2 DEF TypeOK, RestoreBegin, store, policy, history, Between
    <3> QED
      BY Zenon, <3>1, <3>2
  <2>2. Delegated'
    BY Zenon, <1>1 DEF Delegated, TypeOK, RestoreBegin, store, policy, history, HasMove, Between
  <2>3. PassSound'
    BY Zenon, <1>1, PartyAssumption
      DEF PassSound, TypeOK, Restoring, Transferring, Quiet, RestoreBegin, store, policy, history, HasMove, Between
  <2>4. NoDemotion'
    BY Zenon, <1>1
      DEF NoDemotion, PassSound, TypeOK, Restoring, Transferring, Quiet, RestoreBegin, store, policy, history, HasMove, Between
  <2> QED
    BY Zenon, <2>1, <2>2, <2>3, <2>4
<1>2. ASSUME RestoreCheck PROVE IInv'
  <2>1. TypeOK'
    BY Zenon, <1>2 DEF TypeOK, Record, RestoreCheck, store, policy, history
  <2>2. Delegated'
    BY Zenon, <1>2 DEF Delegated, TypeOK, RestoreCheck, store, policy, history
  <2>3. PassSound'
    BY Zenon, <1>2, PartyAssumption
      DEF PassSound, TypeOK, Restoring, Transferring, Quiet, RestoreCheck, store, policy, history
  <2>4. NoDemotion'
    BY Zenon, <1>2
      DEF NoDemotion, PassSound, TypeOK, Restoring, Transferring, Quiet, RestoreCheck, store, policy, history
  <2> QED
    BY Zenon, <2>1, <2>2, <2>3, <2>4
<1>3. ASSUME RestoreMirror PROVE IInv'
  <2>1. TypeOK'
    BY Zenon, <1>3 DEF TypeOK, Record, RestoreMirror, policy, history
  <2>2. Delegated'
    BY Zenon, <1>3 DEF Delegated, TypeOK, RestoreMirror, policy, history
  <2>3. PassSound'
    BY Zenon, <1>3, PartyAssumption
      DEF PassSound, TypeOK, Restoring, Transferring, Quiet, RestoreMirror, policy, history
  <2>4. NoDemotion'
    BY Zenon, <1>3
      DEF NoDemotion, PassSound, TypeOK, Restoring, Transferring, Quiet, RestoreMirror, policy, history
  <2> QED
    BY <2>1, <2>2, <2>3, <2>4
<1>4. ASSUME RestoreKept PROVE IInv'
  <2>1. TypeOK'
    BY Zenon, <1>4 DEF TypeOK, Record, RestoreKept, store, history, At, Between
  <2>2. Delegated'
    BY Zenon, <1>4 DEF Delegated, TypeOK, RestoreKept, store, history, At, Between
  <2>3. PassSound'
    BY Zenon, <1>4, PartyAssumption
      DEF PassSound, TypeOK, Restoring, Transferring, Quiet, RestoreKept, store, history, At, Between
  <2>4. NoDemotion'
    BY Zenon, <1>4
      DEF NoDemotion, PassSound, TypeOK, Restoring, Transferring, Quiet, RestoreKept, store, history, At, Between
  <2> QED
    BY <2>1, <2>2, <2>3, <2>4
<1>5. ASSUME RestoreDrop PROVE IInv'
  <2>1. TypeOK'
    BY Zenon, <1>5
      DEF TypeOK, Record, RestoreDrop, DropOwnerClaimIfOurs, policy, history, At, Between
  <2>2. Delegated'
    BY Zenon, <1>5
      DEF Delegated, TypeOK, RestoreDrop, DropOwnerClaimIfOurs, policy, history, At, Between
  <2>3. PassSound'
    BY Zenon, <1>5, PartyAssumption
      DEF PassSound, TypeOK, Restoring, Transferring, Quiet, RestoreDrop, DropOwnerClaimIfOurs, policy, history, At, Between
  <2>4. NoDemotion'
    BY Zenon, <1>5
      DEF NoDemotion, PassSound, TypeOK, Restoring, Transferring, Quiet, RestoreDrop, DropOwnerClaimIfOurs, policy, history, At, Between
  <2> QED
    BY <2>1, <2>2, <2>3, <2>4
<1>6. ASSUME RestoreForget PROVE IInv'
  <2>1. TypeOK'
    BY Zenon, <1>6 DEF TypeOK, Record, RestoreForget, policy, history, At, Between
  <2>2. Delegated'
    BY Zenon, <1>6 DEF Delegated, TypeOK, RestoreForget, policy, history, At, Between
  <2>3. PassSound'
    BY Zenon, <1>6, PartyAssumption
      DEF PassSound, TypeOK, Restoring, Transferring, Quiet, RestoreForget, policy, history, At, Between
  <2>4. NoDemotion'
    BY Zenon, <1>6
      DEF NoDemotion, PassSound, TypeOK, Restoring, Transferring, Quiet, RestoreForget, policy, history, At, Between
  <2> QED
    BY <2>1, <2>2, <2>3, <2>4
<1> QED
  BY Zenon, <1>1, <1>2, <1>3, <1>4, <1>5, <1>6

\* The moves of a pass (transfer): wait_idle found the key idle, and begin_write turns
\* an ended key away, so no claim of the key appears behind the move.
LEMMA TransferSteps ==
    ASSUME IInv, 
           \/ \E k \in Keys : TransferBegin(k) \/ TransferBusy(k)
           \/ TransferRecord \/ TransferClaim
           \/ TransferUnclaim \/ TransferSkip \/ TransferFails
    PROVE  IInv'
<1> USE DEF IInv
<1>1. ASSUME NEW k \in Keys, TransferBegin(k) PROVE IInv'
  <2>1. TypeOK'
    <3>1. CASE k \in claims
      BY Zenon, <1>1, <3>1, PartyAssumption
      DEF TypeOK, TransferBegin, store, policy, history, At, Between
    <3>2. CASE k \notin claims
      BY Zenon, <1>1, <3>2 DEF TypeOK, TransferBegin, store, policy, history, Between
    <3> QED
      BY Zenon, <3>1, <3>2
  <2>2. Delegated'
    BY Zenon, <1>1 DEF Delegated, TypeOK, TransferBegin, store, policy, history, At, Between
  <2>3. PassSound'
    <3>1. CASE k \in claims
      BY Zenon, <1>1, <3>1, PartyAssumption
      DEF PassSound, TypeOK, Restoring, Transferring, Quiet, TransferBegin, store, policy, At, Between
    <3>2. CASE k \notin claims
      BY Zenon, <1>1, <3>2
      DEF PassSound, TypeOK, Restoring, Transferring, Quiet, TransferBegin, store, policy, Between
    <3> QED
      BY Zenon, <3>1, <3>2
  <2>4. NoDemotion'
    BY Zenon, <1>1
      DEF NoDemotion, PassSound, TypeOK, Restoring, Transferring, Quiet, TransferBegin, store, policy, history, At, Between
  <2> QED
    BY Zenon, <2>1, <2>2, <2>3, <2>4
<1>2. ASSUME NEW k \in Keys, TransferBusy(k) PROVE IInv'
  <2>1. TypeOK'
    BY Zenon, <1>2 DEF TypeOK, Record, TransferBusy, store, policy, history, Between
  <2>2. Delegated'
    BY Zenon, <1>2 DEF Delegated, TypeOK, TransferBusy, store, policy, history, Between
  <2>3. PassSound'
    BY Zenon, <1>2, PartyAssumption
      DEF PassSound, TypeOK, Restoring, Transferring, Quiet, TransferBusy, store, policy, history, Between
  <2>4. NoDemotion'
    BY Zenon, <1>2
      DEF NoDemotion, PassSound, TypeOK, Restoring, Transferring, Quiet, TransferBusy, store, policy, history, Between
  <2> QED
    BY <2>1, <2>2, <2>3, <2>4
<1>3. ASSUME TransferRecord PROVE IInv'
  <2> DEFINE j == sweep.key
             row == IF moves[j] = None THEN MoveRecord(j, member[j]) ELSE moves[j]
  <2>0. /\ j \in Keys /\ member[j] \in Owners /\ row \in Record /\ row # None
        /\ moves[j] # None => row = moves[j]
        /\ moves[j] = None => row.owner = member[j]
    <3>1. j \in Keys /\ member[j] \in Owners
      BY Zenon, <1>3 DEF TypeOK, PassSound, Transferring, TransferRecord
    <3>2. MoveRecord(j, member[j]) \in Record /\ MoveRecord(j, member[j]).owner = member[j]
      BY Zenon, <3>1, RecordOf
    <3>3. moves[j] \in Record \cup {None} /\ None \notin Record
      BY Zenon, <3>1, NoneIsNoRecord DEF TypeOK
    <3> QED
      BY Zenon, <3>1, <3>2, <3>3
  <2>a. /\ moves' = [moves EXCEPT ![j] = row] /\ sweep' = [sweep EXCEPT !.at = "claim"]
        /\ UNCHANGED <<delegations, claims, recent, member, active, due, request, upload,
                       stake, own, crashes>>
        /\ sweep.at = "record"
    BY Zenon, <1>3, <2>0 DEF TransferRecord, TypeOK, policy, history
  <2> HIDE DEF row
  <2>1. TypeOK'
    BY Zenon, <2>0, <2>a DEF TypeOK
  <2>2. Delegated'
    BY Zenon, <2>0, <2>a, PartyAssumption DEF Delegated, TypeOK
  <2>3. PassSound'
    BY Zenon, <2>0, <2>a DEF PassSound, TypeOK, Restoring, Transferring, Quiet
  <2>4. NoDemotion'
    BY Zenon, <1>3
      DEF NoDemotion, PassSound, TypeOK, Restoring, Transferring, Quiet, TransferRecord, policy, history
  <2> QED
    BY Zenon, <2>1, <2>2, <2>3, <2>4
<1>4. ASSUME TransferClaim PROVE IInv'
  <2>1. TypeOK'
    BY <1>4 DEF TypeOK, Record, PassSound, Transferring, TransferClaim, policy, history
  <2>2. Delegated'
    BY Zenon, <1>4 DEF Delegated, TypeOK, TransferClaim, policy, history
  <2>3. PassSound'
    BY <1>4, Parties, PartyAssumption DEF PassSound, TypeOK, Restoring, Transferring, Quiet, TransferClaim, policy, history
  <2>4. NoDemotion'
    BY Zenon, <1>4, Parties
      DEF NoDemotion, PassSound, TypeOK, Restoring, Transferring, Quiet, TransferClaim, policy, history
  <2> QED
    BY <2>1, <2>2, <2>3, <2>4
<1>5. ASSUME TransferUnclaim PROVE IInv'
  <2>1. TypeOK'
    BY Zenon, <1>5 DEF TypeOK, Record, TransferUnclaim, policy, history, At, Between
  <2>2. Delegated'
    BY Zenon, <1>5 DEF Delegated, TypeOK, TransferUnclaim, policy, history, At, Between
  <2>3. PassSound'
    BY <1>5, PartyAssumption DEF PassSound, TypeOK, Restoring, Transferring, Quiet, TransferUnclaim, policy, history, At, Between
  <2>4. NoDemotion'
    BY Zenon, <1>5
      DEF NoDemotion, PassSound, TypeOK, Restoring, Transferring, Quiet, TransferUnclaim, policy, history, At, Between
  <2> QED
    BY <2>1, <2>2, <2>3, <2>4
<1>6. ASSUME TransferSkip PROVE IInv'
  <2>1. TypeOK'
    BY Zenon, <1>6 DEF TypeOK, Record, TransferSkip, policy, history, At, Between
  <2>2. Delegated'
    BY Zenon, <1>6 DEF Delegated, TypeOK, TransferSkip, policy, history, At, Between
  <2>3. PassSound'
    BY <1>6, PartyAssumption DEF PassSound, TypeOK, Restoring, Transferring, Quiet, TransferSkip, policy, history, At, Between
  <2>4. NoDemotion'
    BY Zenon, <1>6
      DEF NoDemotion, PassSound, TypeOK, Restoring, Transferring, Quiet, TransferSkip, policy, history, At, Between
  <2> QED
    BY <2>1, <2>2, <2>3, <2>4
<1>7. ASSUME TransferFails PROVE IInv'
  <2>1. TypeOK'
    BY Zenon, <1>7 DEF TypeOK, Record, TransferFails, store, policy, history, At, Between
  <2>2. Delegated'
    BY Zenon, <1>7 DEF Delegated, TypeOK, TransferFails, store, policy, history, At, Between
  <2>3. PassSound'
    BY Zenon, <1>7, PartyAssumption
      DEF PassSound, TypeOK, Restoring, Transferring, Quiet, TransferFails, store, policy, history, At, Between
  <2>4. NoDemotion'
    BY Zenon, <1>7
      DEF NoDemotion, PassSound, TypeOK, Restoring, Transferring, Quiet, TransferFails, store, policy, history, At, Between
  <2> QED
    BY <2>1, <2>2, <2>3, <2>4
<1> QED
  BY Zenon, <1>1, <1>2, <1>3, <1>4, <1>5, <1>6, <1>7

\* The ends of a pass (sweep_locked), and a crash.
LEMMA PassSteps ==
    ASSUME IInv, SweepBegin \/ SweepEnd \/ Crash
    PROVE  IInv'
<1> USE DEF IInv
<1>1. ASSUME SweepBegin PROVE IInv'
  <2>1. TypeOK'
    BY Zenon, <1>1 DEF TypeOK, Record, SweepBegin, store, history, NoPass, Between
  <2>2. Delegated'
    BY Zenon, <1>1 DEF Delegated, TypeOK, SweepBegin, store, history, NoPass, Between
  <2>3. PassSound'
    BY Zenon, <1>1, PartyAssumption
      DEF PassSound, TypeOK, Restoring, Transferring, Quiet, SweepBegin, store, history, NoPass, Between
  <2>4. NoDemotion'
    BY Zenon, <1>1
      DEF NoDemotion, PassSound, TypeOK, Restoring, Transferring, Quiet, SweepBegin, store, history, NoPass, Between
  <2> QED
    BY Zenon, <2>1, <2>2, <2>3, <2>4
<1>2. ASSUME SweepEnd PROVE IInv'
  <2>1. TypeOK'
    BY Zenon, <1>2 DEF TypeOK, Record, SweepEnd, store, history, NoPass, Between
  <2>2. Delegated'
    BY Zenon, <1>2 DEF Delegated, TypeOK, SweepEnd, store, history, NoPass, Between
  <2>3. PassSound'
    BY Zenon, <1>2, PartyAssumption
      DEF PassSound, TypeOK, Restoring, Transferring, Quiet, SweepEnd, store, history, NoPass, Between
  <2>4. NoDemotion'
    BY Zenon, <1>2
      DEF NoDemotion, PassSound, TypeOK, Restoring, Transferring, Quiet, SweepEnd, store, history, NoPass, Between
  <2> QED
    BY <2>1, <2>2, <2>3, <2>4
<1>3. ASSUME Crash PROVE IInv'
  <2>1. TypeOK'
    BY <1>3 DEF TypeOK, Record, Crash, store, history, NoPass
  <2>2. Delegated'
    BY Zenon, <1>3 DEF Delegated, TypeOK, Crash, store, history, NoPass
  <2>3. PassSound'
    BY Zenon, <1>3, PartyAssumption
      DEF PassSound, TypeOK, Restoring, Transferring, Quiet, Crash, store, history, NoPass
  <2>4. NoDemotion'
    BY Zenon, <1>3
      DEF NoDemotion, PassSound, TypeOK, Restoring, Transferring, Quiet, Crash, store, history, NoPass
  <2> QED
    BY <2>1, <2>2, <2>3, <2>4
<1> QED
  BY Zenon, <1>1, <1>2, <1>3

\* Every initial state is sound: nothing is claimed, recorded or under way.
LEMMA InitIInv == Init => IInv
BY DEF Init, IInv, TypeOK, Delegated, PassSound, NoDemotion, NoPass, Restoring, Transferring

\* Every step keeps IInv.
LEMMA NextIInv == IInv /\ [Next]_vars => IInv'
<1> SUFFICES ASSUME IInv, [Next]_vars PROVE IInv'
  BY Zenon
<1>1. CASE UNCHANGED vars
  BY Zenon, <1>1 DEF vars, IInv, TypeOK, Delegated, PassSound, NoDemotion
<1>2. ASSUME NEW k \in Keys,
             \/ \E o \in Owners : Grant(k, o)
             \/ Revoke(k) \/ Expire(k) \/ BeginWrite(k) \/ KeyStep(k)
             \/ RestoreBegin(k) \/ TransferBegin(k) \/ TransferBusy(k)
      PROVE  IInv'
  <2>1. CASE Revoke(k) \/ Expire(k)
    BY Zenon, <2>1, RevokeSteps
  <2> QED
    BY Zenon, <1>2, <2>1, GrantSteps, KeySteps, RestoreSteps, TransferSteps
<1>3. ASSUME NEW o \in Owners,
             \/ OwnerMark(o) \/ OwnerUpload(o) \/ OwnerGivesUp(o) \/ MarkExpires(o)
             \/ OwnerDelete(o)
      PROVE  IInv'
  BY Zenon, <1>3, OwnerSteps
<1>4. CASE Tombstone
  BY Zenon, <1>4, TombstoneStep
<1>5. CASE SweepStep \/ RestoreKept \/ TransferFails \/ Crash
  BY Zenon, <1>5, RestoreSteps, TransferSteps, PassSteps DEF SweepStep
<1> QED
  BY Zenon, <1>1, <1>2, <1>3, <1>4, <1>5 DEF Next

\* Where a pass stands, and what that rules out, holds throughout.
THEOREM Invariance == Spec => []IInv
<1> QED
  BY InitIInv, NextIInv, PTL DEF Spec

\* "Expiry and revocation do not demote stored claims" (sweep_locked, begin_write):
\* a key leaves the trusted set only when it has no claim left.
THEOREM NeverDemoted == Spec => []NoDemotion
<1>1. IInv => NoDemotion
  BY Zenon DEF IInv
<1> QED
  BY <1>1, Invariance, PTL

\* The state of Claims is always well typed.
THEOREM Typed == Spec => []TypeOK
<1>1. IInv => TypeOK
  BY Zenon DEF IInv
<1> QED
  BY <1>1, Invariance, PTL

\* The record of a first move is never taken for the maker of a claim that the owner
\* has uploaded, or is uploading within the window (transfer, "independent is exact").
LEMMA RecordNotOurs ==
    ASSUME IInv, OwnerInv, NEW k \in Keys, NEW o \in own \cup upload
    PROVE  ~OwnerClaimIsOurs(MoveRecord(k, o))
<1> DEFINE others == {moves[j] : j \in OtherMoves(o, k)}
           row == MoveRecord(k, o)
<1>1. /\ row.independent = (o \in claims /\ (others = {} \/ \E r \in others : r.independent))
      /\ row.adopted = (o \in recent \/ \E r \in others : r.adopted)
  BY Zenon DEF MoveRecord
<1>2. CASE o \in upload
  BY Zenon, <1>1, <1>2 DEF OwnerInv, OwnerClaimIsOurs
<1>3. CASE o \in own
  <2>1. o \in claims
    BY Zenon, <1>3 DEF OwnerInv
  <2>2. CASE others = {}
    BY Zenon, <1>1, <2>1, <2>2 DEF OwnerClaimIsOurs
  <2>3. CASE others # {}
    <3>1. PICK j \in OtherMoves(o, k) : TRUE
      BY Zenon, <2>3
    <3>2. moves[j] \in others /\ j \in Keys /\ moves[j] # None /\ moves[j].owner = o
      BY Zenon, <3>1 DEF OtherMoves
    <3>3. moves[j].independent \/ moves[j].adopted
      BY Zenon, <1>3, <3>2 DEF OwnerInv, OwnerClaimIsOurs
    <3> QED
      BY Zenon, <1>1, <2>1, <3>2, <3>3 DEF OwnerClaimIsOurs
  <2> QED
    BY Zenon, <2>2, <2>3
<1> QED
  BY Zenon, <1>2, <1>3

\* drop_owner_claim_if_ours drops no claim that the owner's own upload stands behind.
LEMMA DropKeepsOwn ==
    ASSUME IInv, OwnerInv, NEW k \in Keys, DropOwnerClaimIfOurs(k),
           UNCHANGED <<recent, upload, own>>
    PROVE  OwnerInv'
<1>1. moves' = [moves EXCEPT ![k] = None] /\ moves \in [Keys -> Record \cup {None}]
  BY Zenon DEF DropOwnerClaimIfOurs, IInv, TypeOK
<1>2. own \subseteq claims'
  BY Zenon DEF DropOwnerClaimIfOurs, OwnerInv
<1> QED
  BY Zenon, <1>1, <1>2 DEF OwnerInv

\* Every step keeps OwnerInv, when no upload outlasts OWNER_WRITE_WINDOW.
LEMMA NextOwnerInv ==
    ASSUME IInv, OwnerInv, ~SlowWrites, [Next]_vars
    PROVE  OwnerInv'
<1>1. CASE UNCHANGED <<claims, moves, recent, upload, own>>
  BY Zenon, <1>1 DEF OwnerInv
<1>2. ASSUME NEW k \in Keys, KeyUpload(k) \/ CoreDelete(k) PROVE OwnerInv'
  BY Zenon, <1>2, Parties DEF OwnerInv, IInv, TypeOK, KeyUpload, CoreDelete
<1>3. ASSUME NEW k \in Keys, Release(k) PROVE OwnerInv'
  BY Zenon, <1>3, DropKeepsOwn DEF Release
<1>4. ASSUME NEW o \in Owners, OwnerMark(o) PROVE OwnerInv'
  <2>1. \A k \in Keys : moves[k] # None /\ moves[k].owner = o => ~OwnerClaimIsOurs(moves'[k])
    BY Zenon, <1>4, AdoptedRow DEF OwnerMark, IInv, TypeOK
  <2>2. \A k \in Keys : moves[k] = None \/ moves[k].owner # o => moves'[k] = moves[k]
    BY Zenon, <1>4 DEF OwnerMark
  <2>3. \A k \in Keys : moves'[k] # None => moves[k] # None /\ moves'[k].owner = moves[k].owner
    BY Zenon, <1>4, AdoptedRow DEF OwnerMark, IInv, TypeOK
  <2>4. /\ own' = own /\ claims' = claims
        /\ upload' = upload \cup {o} /\ recent' = recent \cup {o}
    BY Zenon, <1>4 DEF OwnerMark, history
  <2> QED
    BY Zenon, <2>1, <2>2, <2>3, <2>4 DEF OwnerInv
<1>5. ASSUME NEW o \in Owners,
             OwnerUpload(o) \/ OwnerGivesUp(o) \/ MarkExpires(o) \/ OwnerDelete(o)
      PROVE  OwnerInv'
  BY Zenon, <1>5 DEF OwnerInv, OwnerUpload, OwnerGivesUp, MarkExpires, OwnerDelete, store, history
<1>6. CASE Tombstone \/ Crash
  BY Zenon, <1>6 DEF OwnerInv, Tombstone, Crash, store, history
<1>7. CASE RestoreMirror \/ TransferClaim
  BY Zenon, <1>7 DEF OwnerInv, RestoreMirror, TransferClaim, history
<1>8. CASE RestoreDrop
  <2>1. sweep.key \in Keys
    BY Zenon, <1>8 DEF RestoreDrop, IInv, TypeOK
  <2> QED
    BY Zenon, <1>8, <2>1, DropKeepsOwn DEF RestoreDrop, history
<1>9. CASE RestoreForget \/ TransferSkip
  BY Zenon, <1>9 DEF OwnerInv, RestoreForget, TransferSkip, IInv, TypeOK, history
<1>10. CASE TransferUnclaim
  <2>1. sweep.key \in Keys /\ own \subseteq Owners
    BY Zenon, <1>10 DEF TransferUnclaim, IInv, TypeOK
  <2> QED
    BY Zenon, <1>10, <2>1, Parties DEF OwnerInv, TransferUnclaim, history
<1>11. CASE TransferRecord
  <2> DEFINE k == sweep.key
             row == IF moves[k] = None THEN MoveRecord(k, member[k]) ELSE moves[k]
  <2>1. k \in Keys /\ member[k] \in Owners
    BY Zenon, <1>11 DEF TransferRecord, IInv, TypeOK, PassSound, Transferring
  <2>2. row.owner \in own \cup upload => ~OwnerClaimIsOurs(row)
    <3>1. CASE moves[k] = None
      BY Zenon, <2>1, <3>1, RecordOf, RecordNotOurs
    <3>2. CASE moves[k] # None
      BY Zenon, <2>1, <3>2 DEF OwnerInv
    <3> QED
      BY Zenon, <3>1, <3>2
  <2>3. /\ moves' = [moves EXCEPT ![k] = row] /\ moves \in [Keys -> Record \cup {None}]
        /\ UNCHANGED <<claims, recent, upload, own>>
    BY Zenon, <1>11, <2>1 DEF TransferRecord, IInv, TypeOK, history
  <2> HIDE DEF row
  <2> QED
    BY Zenon, <2>1, <2>2, <2>3 DEF OwnerInv
<1>12. ASSUME NEW k \in Keys,
              \/ \E o \in Owners : Grant(k, o)
              \/ Revoke(k) \/ Expire(k) \/ BeginWrite(k) \/ CheckActive(k) \/ KeyGivesUp(k)
              \/ NothingToRelease(k) \/ AnswerDelete(k) \/ PassDelete(k)
              \/ RestoreBegin(k) \/ TransferBegin(k) \/ TransferBusy(k)
       PROVE  UNCHANGED <<claims, moves, recent, upload, own>>
  BY Zenon, <1>12 DEF Grant, Revoke, Expire, BeginWrite, CheckActive, KeyGivesUp, NothingToRelease,
               AnswerDelete, PassDelete, RestoreBegin, TransferBegin, TransferBusy, store, history
<1>13. ASSUME SweepBegin \/ SweepEnd \/ RestoreCheck \/ RestoreKept \/ TransferFails
       PROVE  UNCHANGED <<claims, moves, recent, upload, own>>
  BY Zenon, <1>13 DEF SweepBegin, SweepEnd, RestoreCheck, RestoreKept, TransferFails, store, history
<1>14. CASE UNCHANGED vars
  BY Zenon, <1>1, <1>14 DEF vars
<1>15. CASE SweepStep
  BY Zenon, <1>15, <1>1, <1>7, <1>8, <1>9, <1>10, <1>11, <1>13 DEF SweepStep
<1>16. ASSUME NEW k \in Keys, KeyStep(k) PROVE OwnerInv'
  BY Zenon, <1>16, <1>1, <1>2, <1>3, <1>12 DEF KeyStep
<1> QED
  BY Zenon, <1>1, <1>4, <1>5, <1>6, <1>12, <1>13, <1>14, <1>15, <1>16 DEF Next

\* "no move hand-back ever drops that owner claim" (mark_owner_writes, transfer,
\* drop_owner_claim_if_ours): what an owner uploaded itself stays claimed by it until
\* it deletes it, provided no upload outlasts OWNER_WRITE_WINDOW.
THEOREM OwnerWrites ==
    ASSUME ~SlowWrites
    PROVE  Spec => []OwnerWritesKept
<1>1. Init => OwnerInv
  BY Zenon DEF Init, OwnerInv
<1>2. IInv /\ OwnerInv /\ [Next]_vars => OwnerInv'
  BY Zenon, NextOwnerInv
<1>3. OwnerInv => OwnerWritesKept
  BY Zenon DEF OwnerInv, OwnerWritesKept
<1> QED
  BY <1>1, <1>2, <1>3, Invariance, PTL DEF Spec

\* drop_owner_claim_if_ours drops no owner claim that another key's upload relies on.
LEMMA DropKeepsStakes ==
    ASSUME IInv, StakeInv, NEW k \in Keys, DropOwnerClaimIfOurs(k)
    PROVE  \A j \in stake \ {k} :
               j \in claims' \/ (moves'[j] # None /\ moves'[j].owner \in claims')
<1> SUFFICES ASSUME NEW j \in stake \ {k}
             PROVE  j \in claims' \/ (moves'[j] # None /\ moves'[j].owner \in claims')
  BY Zenon
<1>1. /\ j \in Keys /\ moves'[j] = moves[j] /\ moves \in [Keys -> Record \cup {None}]
      /\ moves[k] # None => moves[k].owner \in Owners
  BY Zenon DEF DropOwnerClaimIfOurs, IInv, TypeOK, Record
<1>2. CASE claims' = claims
  BY Zenon, <1>1, <1>2 DEF StakeInv
<1>3. CASE claims' # claims
  <2>1. /\ moves[k] # None /\ OtherMoves(moves[k].owner, k) = {}
        /\ claims' = claims \ {moves[k].owner}
    BY Zenon, <1>3 DEF DropOwnerClaimIfOurs
  <2>2. moves[j] # None => moves[j].owner # moves[k].owner
    BY Zenon, <1>1, <2>1 DEF OtherMoves
  <2> QED
    BY Zenon, <1>1, <2>1, <2>2, Parties DEF StakeInv
<1> QED
  BY Zenon, <1>2, <1>3

\* With one owner to a key, the key that transfer moves is recorded for its member.
LEMMA MovedToMember ==
    ASSUME IInv, OneOwnerPerKey, NEW k \in Keys, moves[k] # None, member[k] # None
    PROVE  moves[k].owner = member[k]
<1>1. /\ <<k, member[k]>> \in delegations /\ <<k, moves[k].owner>> \in delegations
      /\ delegations \in Delegating /\ member[k] \in Owners /\ moves[k].owner \in Owners
  BY Zenon DEF IInv, Delegated, TypeOK, Record
<1> QED
  BY Zenon, <1>1 DEF OneOwnerPerKey

\* Every step keeps StakeInv, when no key is delegated to by two owners.
LEMMA NextStakeInv ==
    ASSUME IInv, StakeInv, OneOwnerPerKey, [Next]_vars
    PROVE  StakeInv'
<1>0. /\ sweep.key \in Keys \cup {None} /\ moves \in [Keys -> Record \cup {None}]
      /\ sweep.at \in Restoring \cup Transferring => sweep.key \in Keys
      /\ stake \subseteq Keys /\ own \subseteq Owners
  BY Zenon DEF IInv, TypeOK, Restoring, Transferring
<1>1. CASE UNCHANGED <<claims, moves, sweep, stake>>
  BY Zenon, <1>1 DEF StakeInv
<1>2. ASSUME NEW k \in Keys, KeyUpload(k) PROVE StakeInv'
  <2>1. sweep.at \in Transferring => sweep.key # k
    BY Zenon, <1>2 DEF KeyUpload, IInv, PassSound, Quiet
  <2> QED
    BY Zenon, <1>0, <1>2, <2>1 DEF StakeInv, KeyUpload, Transferring
<1>3. ASSUME NEW k \in Keys, CoreDelete(k) PROVE StakeInv'
  <2>1. \A j \in Keys : moves[j] # None => moves[j].owner # k
    BY Zenon, <1>0, Parties DEF Record
  <2>2. /\ claims' = claims \ {k} /\ UNCHANGED <<moves, sweep>>
        /\ stake' = IF k \in claims THEN stake \ {k} ELSE stake
    BY Zenon, <1>3 DEF CoreDelete
  <2>3. sweep.at = "unclaim" => sweep.key \in Keys /\ moves[sweep.key] # None
    BY Zenon, <1>0 DEF IInv, PassSound, Transferring
  <2> QED
    BY Zenon, <1>0, <2>1, <2>2, <2>3 DEF StakeInv
<1>4. ASSUME NEW k \in Keys, Release(k) PROVE StakeInv'
  <2>1. sweep.at \in Transferring => sweep.key # k
    BY Zenon, <1>4 DEF Release, IInv, PassSound, Quiet
  <2>2. /\ stake' = stake \ {k} /\ sweep' = sweep /\ DropOwnerClaimIfOurs(k)
        /\ moves' = [moves EXCEPT ![k] = None]
    BY Zenon, <1>4 DEF Release, DropOwnerClaimIfOurs
  <2>3. \A j \in stake' : j \in claims' \/ (moves'[j] # None /\ moves'[j].owner \in claims')
    BY Zenon, <2>2, DropKeepsStakes
  <2>4. \A j \in Keys : j \in claims => j \in claims'
    BY Zenon, <1>0, <2>2, Parties DEF DropOwnerClaimIfOurs, Record
  <2>5. ASSUME sweep.at = "unclaim", sweep.key \in stake'
        PROVE  moves'[sweep.key].owner \in claims'
    <3>1. /\ sweep.key \in Keys /\ sweep.key # k /\ moves[sweep.key] # None
          /\ moves'[sweep.key] = moves[sweep.key] /\ moves[sweep.key].owner \in claims
      BY Zenon, <1>0, <2>1, <2>2, <2>5 DEF StakeInv, IInv, PassSound, Transferring
    <3> QED
      BY Zenon, <2>2, <3>1 DEF DropOwnerClaimIfOurs, OtherMoves
  <2> QED
    BY Zenon, <1>0, <2>1, <2>2, <2>3, <2>4, <2>5 DEF StakeInv, Restoring, Transferring
<1>5. ASSUME NEW o \in Owners, OwnerMark(o) PROVE StakeInv'
  <2>1. \A k \in Keys : /\ moves[k] # None => moves'[k] # None /\ moves'[k].owner = moves[k].owner
    BY Zenon, <1>0, <1>5, AdoptedRow, NoneIsNoRecord DEF OwnerMark
  <2>2. UNCHANGED <<claims, sweep, stake>>
    BY Zenon, <1>5 DEF OwnerMark, history
  <2>3. sweep.at = "unclaim" => sweep.key \in Keys /\ moves[sweep.key] # None
    BY Zenon, <1>0 DEF IInv, PassSound, Transferring
  <2> QED
    BY Zenon, <1>0, <2>1, <2>2, <2>3 DEF StakeInv
<1>6. ASSUME NEW o \in Owners, OwnerUpload(o) PROVE StakeInv'
  BY Zenon, <1>0, <1>6, Parties DEF StakeInv, OwnerUpload
<1>7. ASSUME NEW o \in Owners, OwnerDelete(o) PROVE StakeInv'
  <2>1. /\ \A k \in stake' : k \in stake /\ k \in claims /\ k # sweep.key /\ k \in Keys
        /\ claims' = claims \ {o} /\ UNCHANGED <<moves, sweep>>
    BY Zenon, <1>0, <1>7 DEF OwnerDelete
  <2> QED
    BY Zenon, <2>1, Parties DEF StakeInv
<1>8. CASE Tombstone
  BY Zenon, <1>8 DEF StakeInv, Tombstone
<1>9. ASSUME NEW k \in Keys, RestoreBegin(k) PROVE StakeInv'
  BY Zenon, <1>0, <1>9 DEF StakeInv, RestoreBegin, store, history, Between, IInv, TypeOK
<1>10. CASE RestoreCheck
  <2>1. /\ sweep.key \in Keys
        /\ moves[sweep.key] # None => moves[sweep.key].owner = member[sweep.key]
    BY Zenon, <1>0, <1>10 DEF RestoreCheck, IInv, PassSound, Restoring
  <2>2. /\ UNCHANGED <<claims, moves, stake>> /\ sweep'.key = sweep.key
        /\ sweep'.at = IF member[sweep.key] \in claims THEN "mirror" ELSE "forget"
    BY Zenon, <1>10 DEF RestoreCheck, store, history, IInv, TypeOK
  <2> QED
    BY Zenon, <2>1, <2>2 DEF StakeInv
<1>11. CASE RestoreMirror
  <2>1. /\ UNCHANGED <<moves, stake>> /\ sweep'.key = sweep.key
        /\ sweep'.at = IF claims = {} THEN "forget" ELSE "drop"
        /\ claims' = IF claims = {} THEN claims ELSE claims \cup {sweep.key}
    BY Zenon, <1>11 DEF RestoreMirror, history, IInv, TypeOK
  <2> QED
    BY Zenon, <2>1 DEF StakeInv
<1>12. CASE RestoreDrop
  <2>1. sweep.key \in Keys /\ (sweep.key \in stake => sweep.key \in claims)
    BY Zenon, <1>0, <1>12 DEF RestoreDrop, StakeInv, Restoring
  <2>2. DropOwnerClaimIfOurs(sweep.key) /\ stake' = stake /\ sweep'.at = "pass"
    BY Zenon, <1>12 DEF RestoreDrop, history, At, Between, IInv, TypeOK
  <2>3. sweep.key \in claims => sweep.key \in claims'
    BY Zenon, <1>0, <2>1, <2>2, Parties DEF DropOwnerClaimIfOurs, Record
  <2> QED
    BY Zenon, <2>1, <2>2, <2>3, DropKeepsStakes DEF StakeInv
<1>13. CASE RestoreForget \/ TransferSkip
  <2>1. /\ sweep.key \in Keys /\ (sweep.key \in stake => sweep.key \in claims)
    BY Zenon, <1>0, <1>13 DEF RestoreForget, TransferSkip, StakeInv, Restoring, Transferring
  <2>2. /\ moves' = [moves EXCEPT ![sweep.key] = None]
        /\ UNCHANGED <<claims, stake>> /\ sweep'.at = "pass"
    BY Zenon, <1>13 DEF RestoreForget, TransferSkip, history, At, Between, IInv, TypeOK
  <2> QED
    BY Zenon, <1>0, <2>1, <2>2 DEF StakeInv
<1>14. CASE TransferRecord
  <2> DEFINE k == sweep.key
             row == IF moves[k] = None THEN MoveRecord(k, member[k]) ELSE moves[k]
  <2>1. /\ k \in Keys /\ moves' = [moves EXCEPT ![k] = row] /\ UNCHANGED <<claims, stake>>
        /\ sweep'.at = "claim" /\ sweep'.key = k
    BY Zenon, <1>0, <1>14 DEF TransferRecord, history, Transferring, IInv, TypeOK
  <2>2. moves[k] # None => row = moves[k]
    BY Zenon
  <2> HIDE DEF row
  <2> QED
    BY Zenon, <1>0, <2>1, <2>2 DEF StakeInv
<1>15. CASE TransferClaim
  <2>1. /\ sweep.key \in Keys /\ member[sweep.key] # None /\ moves[sweep.key] # None
    BY Zenon, <1>0, <1>15 DEF TransferClaim, IInv, PassSound, Transferring
  <2>2. moves[sweep.key].owner = member[sweep.key]
    BY Zenon, <2>1, MovedToMember
  <2>3. /\ UNCHANGED <<moves, stake>> /\ sweep'.key = sweep.key
        /\ sweep'.at = IF claims = {} THEN "skip" ELSE "unclaim"
        /\ claims' = IF claims = {} THEN claims ELSE claims \cup {member[sweep.key]}
    BY Zenon, <1>15 DEF TransferClaim, history, IInv, TypeOK
  <2> QED
    BY Zenon, <2>1, <2>2, <2>3 DEF StakeInv
<1>16. CASE TransferUnclaim
  <2>1. /\ sweep.key \in Keys /\ moves[sweep.key] # None
        /\ sweep.key \in stake => moves[sweep.key].owner \in claims
    BY Zenon, <1>0, <1>16 DEF TransferUnclaim, StakeInv, IInv, PassSound, Transferring
  <2>2. /\ UNCHANGED <<moves, stake>> /\ sweep'.at = "pass"
        /\ claims' = claims \ {sweep.key}
    BY Zenon, <1>16 DEF TransferUnclaim, history, At, Between, IInv, TypeOK
  <2>3. \A j \in Keys : moves[j] # None => moves[j].owner # sweep.key
    BY Zenon, <1>0, <2>1, Parties DEF Record
  <2> QED
    BY Zenon, <1>0, <2>1, <2>2, <2>3 DEF StakeInv
<1>17. ASSUME NEW k \in Keys, TransferBegin(k) \/ TransferBusy(k) PROVE StakeInv'
  <2>1. UNCHANGED <<claims, moves, stake>>
    BY Zenon, <1>17 DEF TransferBegin, TransferBusy, store, history
  <2>2. CASE TransferBegin(k) /\ k \in claims
    <3>1. sweep' = [At("record", k) EXCEPT !.ended = @ \ {k}]
      BY Zenon, <2>2 DEF TransferBegin
    <3>2. sweep'.at = "record"
      BY Zenon, <3>1 DEF At, IInv, TypeOK
    <3> QED
      BY Zenon, <2>1, <3>2 DEF StakeInv
  <2>3. CASE TransferBusy(k) \/ (TransferBegin(k) /\ k \notin claims)
    <3>1. /\ sweep.at = "pass"
          /\ \/ sweep' = [sweep EXCEPT !.ended = @ \ {k}]
             \/ sweep' = [sweep EXCEPT !.ended = @ \ {k}, !.moved = @ \cup {k}]
      BY Zenon, <2>3 DEF TransferBegin, TransferBusy, Between
    <3>2. sweep'.at = "pass"
      BY Zenon, <3>1 DEF IInv, TypeOK
    <3> QED
      BY Zenon, <2>1, <3>2 DEF StakeInv
  <2> QED
    BY Zenon, <1>17, <2>2, <2>3
<1>18. CASE SweepBegin \/ SweepEnd \/ RestoreKept \/ TransferFails \/ Crash
  <2>1. UNCHANGED <<claims, moves, stake>>
    BY Zenon, <1>18 DEF SweepBegin, SweepEnd, RestoreKept, TransferFails, Crash, store, history
  <2>2. CASE SweepEnd \/ Crash
    <3>1. sweep'.at = "idle"
      BY <2>2 DEF SweepEnd, Crash, NoPass
    <3> QED
      BY Zenon, <2>1, <3>1 DEF StakeInv
  <2>3. CASE SweepBegin \/ RestoreKept \/ TransferFails
    <3>1. sweep'.at = "pass"
      BY Zenon, <2>3 DEF SweepBegin, RestoreKept, TransferFails, At, NoPass, Between, IInv, TypeOK
    <3> QED
      BY Zenon, <2>1, <3>1 DEF StakeInv
  <2> QED
    BY Zenon, <1>18, <2>2, <2>3
<1>19. ASSUME NEW k \in Keys,
              \/ \E o \in Owners : Grant(k, o)
              \/ Revoke(k) \/ Expire(k) \/ BeginWrite(k) \/ CheckActive(k) \/ KeyGivesUp(k)
              \/ NothingToRelease(k) \/ AnswerDelete(k) \/ PassDelete(k)
       PROVE  UNCHANGED <<claims, moves, sweep, stake>>
  BY Zenon, <1>19 DEF Grant, Revoke, Expire, BeginWrite, CheckActive, KeyGivesUp, NothingToRelease,
               AnswerDelete, PassDelete, store, history
<1>20. ASSUME NEW o \in Owners, OwnerGivesUp(o) \/ MarkExpires(o)
       PROVE  UNCHANGED <<claims, moves, sweep, stake>>
  BY Zenon, <1>20 DEF OwnerGivesUp, MarkExpires, store, history
<1>21. CASE UNCHANGED vars
  BY Zenon, <1>1, <1>21 DEF vars
<1>22. ASSUME NEW k \in Keys, KeyStep(k) PROVE StakeInv'
  BY Zenon, <1>22, <1>1, <1>2, <1>3, <1>4, <1>19 DEF KeyStep
<1>23. CASE SweepStep
  BY Zenon, <1>23, <1>10, <1>11, <1>12, <1>13, <1>14, <1>15, <1>16, <1>18 DEF SweepStep
<1>24. ASSUME NEW o \in Owners,
              OwnerMark(o) \/ OwnerUpload(o) \/ OwnerGivesUp(o) \/ MarkExpires(o) \/ OwnerDelete(o)
       PROVE  StakeInv'
  BY Zenon, <1>24, <1>1, <1>5, <1>6, <1>7, <1>20
<1> QED
  BY Zenon, <1>1, <1>8, <1>9, <1>17, <1>18, <1>19, <1>21, <1>22, <1>23, <1>24 DEF Next

\* "The owner claim now protects the blob, so this cannot orphan it" (transfer,
\* restore, release): what a key uploaded stays claimed by it or by an owner until it
\* or an owner deletes it, provided no key is delegated to by two owners in turn.
THEOREM KeyWrites ==
    ASSUME OneOwnerPerKey
    PROVE  Spec => []KeyWritesKept
<1>1. Init => StakeInv
  BY Zenon DEF Init, StakeInv, NoPass
<1>2. IInv /\ StakeInv /\ [Next]_vars => StakeInv'
  BY Zenon, NextStakeInv
<1>3. IInv /\ StakeInv => KeyWritesKept
  BY Zenon DEF IInv, TypeOK, Record, StakeInv, KeyWritesKept
<1> QED
  BY <1>1, <1>2, <1>3, Invariance, PTL DEF Spec
=============================================================================
