------------------------------ MODULE Envelope ------------------------------
(***************************************************************************)
(* The encrypted envelope (crates/envelope/src/stream.rs, temp.rs): a file *)
(* is padded and sealed record by record into a private temporary file,    *)
(* stored somewhere, and opened record by record into another.             *)
(*                                                                         *)
(* An envelope's body is a sequence of units.  A unit knows the record it  *)
(* was sealed in and its place there, which is what the authentication of  *)
(* a record compares: AES-GCM is taken to accept exactly the records that  *)
(* were sealed with the same header, under the same counter.               *)
(***************************************************************************)
EXTENDS Naturals, Sequences, FiniteSets, SequencesExt

CONSTANTS
    None,
    CHUNK_BYTES, TAG_BYTES, HEADER_BYTES, MIN_PADDING_BUCKET, MAX_PREFIX_BYTES,
    MaxSource,  \* limits.max_source_bytes
    MaxSize     \* bound on the sizes of sources

VARIABLES
    source,   \* the file, which may change while it is read: a sequence
    size,     \* its length when it was opened
    prefix,   \* the length of its metadata
    at,       \* what runs, and its outcome
    counter,  \* the record it is at
    cursor,   \* how much of the source is read
    body,     \* the envelope's units
    count,    \* the record count of its header
    other,    \* another envelope under the same key, as stored
    damaged,  \* what was stored is not what was sealed
    length,   \* envelope_len: its length when it was opened
    out,      \* what the opening has written so far
    temp,     \* an unfinished temporary file is there
    locked,   \* the process holds the TempDirLock
    given     \* the file handed to the caller

vars == <<source, size, prefix, at, counter, cursor, body, count, other, damaged, length, out, temp, locked, given>>

-----------------------------------------------------------------------------
(* Lengths *)

div_ceil(a, b) == (a + b - 1) \div b

next_power_of_two(n) ==
    LET up[p \in Nat] == IF p >= n THEN p ELSE up[2 * p] IN up[1]

padded_length(n) ==
    IF n <= MIN_PADDING_BUCKET THEN MIN_PADDING_BUCKET
    ELSE IF n <= CHUNK_BYTES THEN next_power_of_two(n)
    ELSE div_ceil(n, CHUNK_BYTES) * CHUNK_BYTES

\* Mutant: the metadata is not counted.
max_records_Bare == div_ceil(MaxSource, CHUNK_BYTES)

max_records == div_ceil(MaxSource + MAX_PREFIX_BYTES, CHUNK_BYTES)

\* layout: the padded length and the record count of a source.
plaintext_len(p, n) == padded_length(p + n)
record_count(p, n) == div_ceil(plaintext_len(p, n), CHUNK_BYTES)
Fits(p, n) == n <= MaxSource /\ record_count(p, n) <= max_records

RECORD_BYTES == CHUNK_BYTES + TAG_BYTES

\* What encrypt will produce, told beforehand.
envelope_bytes(p, n) == HEADER_BYTES + plaintext_len(p, n) + record_count(p, n) * TAG_BYTES

-----------------------------------------------------------------------------
(* Records *)

\* The unit at a place of the plaintext: metadata, source or padding.
Value(place, p, bytes) ==
    IF place <= p THEN [kind |-> "meta", n |-> p]
    ELSE IF place - p <= Len(bytes) THEN [kind |-> "byte", n |-> bytes[place - p]]
    ELSE [kind |-> "pad", n |-> 0]

\* header_bytes and aad_bytes: what a record is bound to.
aad_bytes(salt, c, i) == [salt |-> salt, count |-> c, counter |-> i]

\* The record: its units and its tag, each bound to the record and its place.
Record(salt, c, i, p, n, bytes) ==
    LET offset == i * CHUNK_BYTES
        len == Min({plaintext_len(p, n) - offset, CHUNK_BYTES})
    IN [k \in 1..(len + TAG_BYTES) |->
          [seal |-> aad_bytes(salt, c, i), len |-> len, place |-> k, size |-> n,
           value |-> IF k <= len THEN Value(offset + k, p, bytes) ELSE [kind |-> "tag", n |-> 0]]]

\* Mutant: the counter is not bound.
Authentic_AnyCounter(slice, salt, c, i) ==
    /\ \A k \in DOMAIN slice :
          /\ slice[k].seal = [slice[1].seal EXCEPT !.salt = salt, !.count = c]
          /\ slice[k].place = k /\ slice[k].len = Len(slice) - TAG_BYTES

\* decrypt_in_place_detached: the slice is one whole record of this header
\* and counter.
Authentic(slice, salt, c, i) ==
    \A k \in DOMAIN slice :
        /\ slice[k].seal = aad_bytes(salt, c, i)
        /\ slice[k].place = k /\ slice[k].len = Len(slice) - TAG_BYTES

Sealed(salt, p, n, bytes) ==
    LET c == record_count(p, n)
    IN FlattenSeq([i \in 1..c |-> Record(salt, c, i - 1, p, n, bytes)])

-----------------------------------------------------------------------------
(* Sealing *)

\* The range of a record that holds a range of the plaintext; it is empty
\* unless its end is after its start.
overlap(offset, len, start, n) ==
    [from |-> Max({start, offset}) - offset, to |-> Max({Min({start + n, offset + len}), offset}) - offset]

Span(range) == IF range.to > range.from THEN range.to - range.from ELSE 0

encrypt ==
    /\ at = "open"
    /\ at' = IF Fits(prefix, size) THEN "sealing" ELSE "refused"
    /\ temp' = Fits(prefix, size)
    /\ count' = IF Fits(prefix, size) THEN record_count(prefix, size) ELSE 0
    /\ UNCHANGED <<source, size, prefix, counter, cursor, body, other, damaged, length, out, locked, given>>

\* The file grows or shrinks meanwhile.
source_changes ==
    /\ at = "sealing" /\ Len(source) = size
    /\ source' \in {Append(source, size + 1)} \cup (IF size > 0 THEN {Front(source)} ELSE {})
    /\ UNCHANGED <<size, prefix, at, counter, cursor, body, count, other, damaged, length, out, temp, locked, given>>

Fails(why) == at' = why /\ temp' = FALSE /\ UNCHANGED <<source, size, prefix, counter, cursor, body, count, other, damaged, length, out, locked, given>>

\* read_exact, and the record.
encrypt_record ==
    /\ at = "sealing" /\ counter < count
    /\ LET offset == counter * CHUNK_BYTES
           len == Min({plaintext_len(prefix, size) - offset, CHUNK_BYTES})
           reads == Span(overlap(offset, len, prefix, size))
       IN IF cursor + reads > Len(source) THEN Fails("changed")
          ELSE /\ cursor' = cursor + reads
               /\ body' = body \o Record("s", count, counter, prefix, size, SubSeq(source, 1, cursor + reads))
               /\ counter' = counter + 1
               /\ UNCHANGED <<source, size, prefix, at, count, other, damaged, length, out, temp, locked, given>>

\* Mutant: the source is not asked for more.
Longer_Not == FALSE

\* The probe after the last record.
Longer == Len(source) > cursor

encrypt_end ==
    /\ at = "sealing" /\ counter = count
    /\ IF Longer THEN Fails("changed")
       ELSE /\ at' = "sealed" /\ counter' = 0 /\ cursor' = 0 /\ temp' = FALSE
            /\ UNCHANGED <<source, size, prefix, body, count, other, damaged, length, out, locked, given>>

\* The progress callback breaks; the temporary file goes with the handle.
cancel == at \in {"sealing", "opening"} /\ Fails("cancelled")

-----------------------------------------------------------------------------
(* What may happen to a stored envelope *)

Part(i) == SubSeq(body, i * RECORD_BYTES + 1, Min({(i + 1) * RECORD_BYTES, Len(body)}))

\* Cut short, grown, a unit lost, records out of order, repeated or taken from
\* another envelope, a record count that is not the one.
Damage ==
    \/ body' \in {SubSeq(body, 1, k) : k \in 0..(Len(body) - 1)} \cup {Append(body, Last(body))} /\ UNCHANGED count
    \/ body' \in {RemoveAt(body, k) : k \in DOMAIN body} /\ UNCHANGED count
    \/ count > 1 /\ body' \in {Part(1) \o Part(0) \o SubSeq(body, 2 * RECORD_BYTES + 1, Len(body)),
                               Part(0) \o Part(0) \o SubSeq(body, 2 * RECORD_BYTES + 1, Len(body))} /\ UNCHANGED count
    \/ body' = other \o SubSeq(body, Len(other) + 1, Len(body)) /\ UNCHANGED count
    \/ \E c \in 0..(count + 1) \ {count} :
          count' = c /\ body' \in {body, SubSeq(body, 1, Min({c * RECORD_BYTES, Len(body)}))}

store ==
    /\ at = "sealed" /\ at' = "stored"
    /\ UNCHANGED <<body, count>> \/ Damage
    /\ damaged' = (body' # body \/ count' # count)
    /\ UNCHANGED <<source, size, prefix, counter, cursor, other, length, out, temp, locked, given>>

-----------------------------------------------------------------------------
(* Opening *)

envelope_len == HEADER_BYTES + Len(body)

\* The header and the length agree.
Consistent ==
    /\ count > 0 /\ count <= max_records
    /\ envelope_len >= HEADER_BYTES + (count - 1) * RECORD_BYTES + 1 + TAG_BYTES
    /\ envelope_len <= HEADER_BYTES + count * RECORD_BYTES

decrypt ==
    /\ at = "stored"
    /\ at' = IF Consistent THEN "opening" ELSE "rejected"
    /\ temp' = Consistent /\ length' = Len(body)
    /\ UNCHANGED <<source, size, prefix, counter, cursor, body, count, other, damaged, out, locked, given>>

\* The envelope changes while it is read: it grows, or loses its end.
stored_changes ==
    /\ at = "opening" /\ Len(body) = length
    /\ body' \in {Append(body, Last(body)), Front(body)} /\ damaged' = TRUE
    /\ UNCHANGED <<source, size, prefix, at, counter, cursor, count, other, length, out, temp, locked, given>>

\* read_exact of the record: its end is that of the length at the opening.
Slice ==
    LET from == counter * RECORD_BYTES
        to == IF counter + 1 = count THEN length ELSE from + RECORD_BYTES
    IN IF to <= Len(body) THEN SubSeq(body, from + 1, to) ELSE <<>>

\* parse_metadata, and the padding that its size calls for.
parse_metadata(data) ==
    /\ data[1].value.kind = "meta" /\ data[1].value.n <= Len(data)
    /\ plaintext_len(data[1].value.n, data[1].size) = length - count * TAG_BYTES
    /\ data[1].size <= MaxSource

\* A record is authenticated before any of it is written.
decrypt_record ==
    /\ at = "opening" /\ counter < count
    /\ LET data == SubSeq(Slice, 1, Len(Slice) - TAG_BYTES)
           good == /\ Len(Slice) > TAG_BYTES /\ Authentic(Slice, "s", count, counter)
                   /\ counter = 0 => parse_metadata(data)
           range == overlap(counter * CHUNK_BYTES, Len(data), prefix, data[1].size)
       IN IF ~good THEN Fails("rejected")
          ELSE /\ out' = out \o [k \in 1..Span(range) |-> data[range.from + k].value.n]
               /\ counter' = counter + 1
               /\ UNCHANGED <<source, size, prefix, at, cursor, body, count, other, damaged, length, temp, locked, given>>

\* The probe after the last record; the file is handed over only now.
decrypt_end ==
    /\ at = "opening" /\ counter = count
    /\ IF Len(body) > length THEN Fails("rejected")
       ELSE /\ at' = "opened" /\ given' = out /\ temp' = FALSE
            /\ UNCHANGED <<source, size, prefix, counter, cursor, body, count, other, damaged, length, out, locked>>

\* The process is killed: its temporary file stays, its lock goes.
crash ==
    /\ at \in {"sealing", "opening"} /\ at' = "killed" /\ locked' = FALSE
    /\ UNCHANGED <<source, size, prefix, counter, cursor, body, count, other, damaged, length, out, temp, given>>

\* Mutant: the lock is shared.
acquire_Shared == TRUE

\* TempDirLock::acquire succeeds.
acquire == ~locked

\* Every removal is taken to succeed.
sweep_stale_temp_files == temp' = FALSE

\* The program is started, again or a second time.
start ==
    /\ at \in {"sealing", "opening", "killed"}
    /\ IF acquire THEN locked' = TRUE /\ sweep_stale_temp_files ELSE UNCHANGED <<locked, temp>>
    /\ at' = IF at = "killed" THEN "started" ELSE at
    /\ UNCHANGED <<source, size, prefix, counter, cursor, body, count, other, damaged, length, out, given>>

Init ==
    /\ size \in 0..MaxSize /\ prefix \in 1..MAX_PREFIX_BYTES
    /\ source = [i \in 1..size |-> i]
    /\ at = "open" /\ counter = 0 /\ cursor = 0 /\ body = <<>> /\ count = 0
    /\ other = Sealed("t", prefix, size, source)
    /\ damaged = FALSE /\ length = 0 /\ out = <<>> /\ temp = FALSE /\ locked = TRUE /\ given = None

Next ==
    \/ encrypt \/ source_changes \/ encrypt_record \/ encrypt_end \/ cancel \/ store
    \/ decrypt \/ stored_changes \/ decrypt_record \/ decrypt_end \/ crash \/ start

Spec == Init /\ [][Next]_vars

-----------------------------------------------------------------------------
(* Properties *)

\* A source within the limit is never refused: the record ceiling leaves room
\* for the largest metadata, whatever the padding.
LimitEnough == at = "refused" => size > MaxSource

\* A sealed envelope holds the source as it was when it was opened, no less and
\* no more, and is as long as envelope_bytes says: a source that grew or lost
\* its end before that end was read is never sealed.
SealsWhole ==
    at = "sealed" =>
        /\ body = Sealed("s", prefix, size, [i \in 1..size |-> i])
        /\ Len(source) <= size
        /\ HEADER_BYTES + Len(body) = envelope_bytes(prefix, size)

\* decrypt_file_to_private_temp hands over the sealed file to the last unit or
\* nothing: an envelope cut, grown, reordered, spliced or with another record
\* count, before the opening or during it, is refused.
OpensWhole ==
    /\ given # None => given = [i \in 1..size |-> i]
    /\ (given # None /\ damaged) => length > Len(body)

\* Nothing of an unfinished sealing or opening stays on the disk once the
\* program runs again, and a second instance never removes what the first uses.
NothingLeft == at # "killed" => (temp <=> at \in {"sealing", "opening"})
=============================================================================
