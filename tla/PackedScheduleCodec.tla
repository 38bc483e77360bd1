--------------------------- MODULE PackedScheduleCodec ---------------------------
(***************************************************************************)
(* How schedules get from the worker processes to the database and back:   *)
(* each exam as the index of its day among the candidate days of its slot, *)
(* the exams of a batch as one sequence of numbers behind a header.        *)
(*                                                                         *)
(* A schedule that was found is the sequence of its assignments in the     *)
(* order of placing.  A slot is an assignment without its day and with its *)
(* candidate days, "dates", instead.  Compression is left out.             *)
(***************************************************************************)
EXTENDS Integers, SequencesExt, FiniteSetsExt, Functions

Identity(x) == <<x.course, x.semester, x.moed>>

\* The slots and the days by which a worker looks up an assignment.
assignment_to_slot(slots) ==
    [key \in {Identity(slots[i]) : i \in DOMAIN slots} |-> Max({i \in DOMAIN slots : Identity(slots[i]) = key})]
date_index_by_slot(slots) ==
    [i \in DOMAIN slots |-> [d \in Range(slots[i].dates) |-> Max({j \in DOMAIN slots[i].dates : slots[i].dates[j] = d}) - 1]]

\* A slot that no assignment belongs to has index 0.
encode_schedule(schedule, slots) ==
    [i \in DOMAIN slots |->
        LET here == {j \in DOMAIN schedule : assignment_to_slot(slots)[Identity(schedule[j])] = i}
        IN IF here = {} THEN 0 ELSE date_index_by_slot(slots)[i][schedule[Max(here)].day]]

\* Numbers have 16 bits; what does not fit is refused.
Fits(rows, slot_count) ==
    slot_count < 2 ^ 16 /\ Len(rows) < 2 ^ 16 /\ \A row \in Range(rows) : Range(row) \subseteq 0 .. 2 ^ 16 - 1
pack_rows(rows, slot_count) ==
    [slot_count |-> slot_count, row_count |-> Len(rows), words |-> FlattenSeq(rows)]

\* The selected rows, counted from 0; there are none beyond row_count.
unpack_rows_at(blob, indices) ==
    [r \in indices |->
        SubSeq(blob.words, r * blob.slot_count + 1, (r + 1) * blob.slot_count)]

\* What the screens and the features see: the exams in the order of the slots.
row_to_dto(row, slots) ==
    [i \in DOMAIN slots |-> [field \in DOMAIN slots[i] \ {"dates"} |-> slots[i][field]] @@ ("day" :> slots[i].dates[row[i] + 1])]
=============================================================================
