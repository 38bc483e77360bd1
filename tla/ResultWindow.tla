----------------------------- MODULE ResultWindow -----------------------------
(***************************************************************************)
(* HybridScheduleResultState: one page of the repository, in the order of  *)
(* the generation or in the order of a sort, with the schedules of the     *)
(* page that were looked at.  Its methods run on the GUI thread, except    *)
(* compute_sort_data; each is an operator from the state w of the window   *)
(* to the next one.                                                        *)
(*                                                                         *)
(* A schedule stands for its scores: Score[s][c] is what schedule s gets   *)
(* for criterion c, the higher the better.                                 *)
(***************************************************************************)
EXTENDS ScheduleRepository, Integers

CONSTANTS
    Criteria,     \* what the user can sort by
    Score,        \* [Schedules -> [Criteria -> Int]]
    WindowSize    \* schedules per page

ASSUME WindowAssumption ==
    /\ WindowSize \in Nat \ {0} /\ Orders \subseteq Seq(Criteria)
    /\ Score \in [Schedules -> [Criteria -> Int]]

VARIABLE win
    \* page      _current_page_idx
    \* priority  _sort_priority
    \* sorted    whether _sorted_ids is truthy
    \* ids       _page_ids
    \* cache     _dto_cache with the _raw_map it is decoded from: index in the page to schedule

FirstWindow == [page |-> 0, priority |-> <<>>, sorted |-> FALSE, ids |-> <<>>, cache |-> Empty]

-----------------------------------------------------------------------------
(***************************************************************************)
(* get_sorted_ids_page: ORDER BY every criterion of the order, descending, *)
(* LIMIT and OFFSET.  Rows that tie come in the order of their ids, as in  *)
(* the index they are read from.                                           *)
(***************************************************************************)
Beats(s, t, order) ==
    \E i \in DOMAIN order :
        /\ Score[s][order[i]] > Score[t][order[i]]
        /\ \A j \in 1 .. i - 1 : Score[s][order[j]] = Score[t][order[j]]

Before(order, g, h) ==
    \/ Beats(scored[g], scored[h], order)
    \/ ~Beats(scored[h], scored[g], order) /\ g < h

SortedIds(order) ==
    CHOOSE ids \in [1 .. Cardinality(DOMAIN scored) -> DOMAIN scored] :
        \A i, j \in DOMAIN ids : i < j => Before(order, ids[i], ids[j])

Slice(ids, page) ==
    LET last == IF Len(ids) < (page + 1) * WindowSize THEN Len(ids) ELSE (page + 1) * WindowSize
    IN SubSeq(ids, page * WindowSize + 1, last)

get_sorted_ids_page(order, page) == Slice(SortedIds(order), page)

-----------------------------------------------------------------------------
total_pages == (count + WindowSize - 1) \div WindowSize

current_window_size(w) ==
    IF w.sorted THEN Len(w.ids)
    ELSE IF count <= w.page * WindowSize THEN 0
    ELSE IF count < (w.page + 1) * WindowSize THEN count - w.page * WindowSize
    ELSE WindowSize

\* Mutant: what was looked at on the last page is kept.
LoadCurrentPage_Keeps(w) ==
    IF w.priority = <<>> THEN [w EXCEPT !.ids = <<>>]
    ELSE LET ids == get_sorted_ids_page(w.priority, w.page)
         IN [w EXCEPT !.ids = ids, !.sorted = ids # <<>>]

\* _load_current_page.
LoadCurrentPage(w) ==
    IF w.priority = <<>> THEN [w EXCEPT !.ids = <<>>, !.cache = Empty]
    ELSE LET ids == get_sorted_ids_page(w.priority, w.page)
         IN [w EXCEPT !.ids = ids, !.sorted = ids # <<>>, !.cache = Empty]

\* load_page raises when the page is not there.
HasPage(page) == page >= 0 /\ (total_pages > 0 => page < total_pages)
load_page(w, page) == LoadCurrentPage([w EXCEPT !.page = page])

\* compute_sort_data, the ORDER BY alone: it runs on the sort worker's thread.
compute_sort_data(order) == IF order = <<>> THEN <<>> ELSE get_sorted_ids_page(order, 0)

\* apply_sort_data: the ids are used as they are, not read again.
apply_sort_data(w, order, ids) ==
    IF order = <<>>
    THEN LoadCurrentPage([w EXCEPT !.page = 0, !.priority = <<>>, !.sorted = FALSE])
    ELSE [page |-> 0, priority |-> order, sorted |-> TRUE, ids |-> ids, cache |-> Empty]

(***************************************************************************)
(* get_schedule: what was looked at before is answered from the cache, the *)
(* rest is read from the repository, one schedule at a time.               *)
(***************************************************************************)
GlobalId(w, i) == IF w.sorted THEN w.ids[i + 1] ELSE w.page * WindowSize + i

CanGet(w, i) ==
    /\ 0 <= i /\ i < current_window_size(w)
    /\ i \in DOMAIN w.cache \/ HasRow(GlobalId(w, i))

get_schedule(w, i) == IF i \in DOMAIN w.cache THEN w.cache[i] ELSE RowAt(GlobalId(w, i))

Looked(w, i) ==
    LET s == get_schedule(w, i)
    IN [w EXCEPT !.cache = [j \in DOMAIN w.cache \cup {i} |-> IF j = i THEN s ELSE w.cache[j]]]
=============================================================================
