---------------------------- MODULE SolutionPaging ----------------------------
(***************************************************************************)
(* SolutionPagingPresenter and PeriodNavigator: where the user is in the   *)
(* results, and the schedule the output screen shows.  The numbers are     *)
(* copied from the window when a page is entered, not read again for every *)
(* click; the buttons of the solution bar follow from them.                *)
(***************************************************************************)
EXTENDS ResultWindow

CONSTANT NumPeriods    \* exam periods that are loaded

ASSUME PagingAssumption == NumPeriods \in Nat \ {0}

VARIABLES
    pag,     \* [idx, total, page, pages, disk, period]: the copied numbers
    shown    \* [what, period]: the schedule on the calendar

Nothing == "nothing"
Failed == "error"

NoPaging == [idx |-> 0, total |-> 0, page |-> 0, pages |-> 0, disk |-> 0, period |-> 1]
NothingShown == [what |-> Nothing, period |-> 1]

pagingVars == <<win, pag, shown>>

\* show_current, for the window w and the numbers p.
ShowCurrent(w, p) ==
    /\ pag' = p
    /\ IF p.total = 0 THEN win' = w /\ UNCHANGED shown
       ELSE IF CanGet(w, p.idx)
       THEN /\ win' = Looked(w, p.idx)
            /\ shown' = [what |-> get_schedule(w, p.idx), period |-> p.period]
       ELSE win' = w /\ shown' = [what |-> Failed, period |-> p.period]

\* _sync_page_info.
SyncPageInfo(w, p) ==
    [p EXCEPT !.page = w.page, !.pages = total_pages,
              !.total = current_window_size(w), !.disk = count]

\* reset_to_first.
ResetToFirst(w, p) == ShowCurrent(w, [SyncPageInfo(w, p) EXCEPT !.idx = 0])

\* enter: the periods start over as well.
Enter(w, p) == ResetToFirst(w, [p EXCEPT !.period = 1])

\* on_total_count_updated: only on the first page is the size of the page refreshed.
TotalCountUpdated(p) ==
    [p EXCEPT !.pages = total_pages, !.disk = count,
              !.total = IF p.page = 0 THEN current_window_size(win) ELSE p.total]

\* on_next_solution, on_prev_solution, on_jump_to_solution.
MoveTo(i) ==
    /\ 0 <= i /\ i < pag.total /\ i # pag.idx
    /\ ShowCurrent(win, [pag EXCEPT !.idx = i])

\* The page bar is there when there is more than one page; the buttons forward need the page
\* that is shown to be full on the disk.
NextPageReady ==
    pag.page < pag.pages - 1 /\ pag.disk >= (pag.page + 1) * WindowSize

\* on_first_page, on_prev_page, on_next_page, on_last_page.
TargetPages ==
    IF pag.pages <= 1 THEN {}
    ELSE (IF pag.page > 0 THEN {0, pag.page - 1} ELSE {})
         \cup (IF NextPageReady THEN {pag.page + 1, pag.pages - 1} ELSE {})

\* _load_page; load_page raises before anything changed if the page is gone.
LoadPage(page) ==
    /\ 0 <= page /\ page < pag.pages
    /\ HasPage(page)
    /\ LET w == load_page(win, page)
       IN ResetToFirst(w, pag)

\* on_prev_period, on_next_period.
MovePeriod(i) ==
    /\ i \in {pag.period - 1, pag.period + 1} \cap 1 .. NumPeriods
    /\ ShowCurrent(win, [pag EXCEPT !.period = i])
=============================================================================
