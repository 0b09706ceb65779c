--------------------------------- MODULE Pages ---------------------------------
(***************************************************************************)
(* The pagination every listing of the API returns, as functions of the    *)
(* number of rows, the page and its size.                                  *)
(***************************************************************************)
EXTENDS Integers

TotalPages(total, perPage) == (total + perPage - 1) \div perPage

\* Mutants: the last page is cut off when it is not full; one page too many.
FullPagesOnly(total, page, perPage) == page < total \div perPage
OnePageMore(total, page, perPage) == page <= TotalPages(total, perPage)

HasNext(total, page, perPage) == page < TotalPages(total, perPage)

HasPrev(total, page, perPage) == page > 1 /\ TotalPages(total, perPage) > 0

\* The forms list_schedules uses.
HasNextSchedules(total, page, perPage) == page * perPage < total
HasPrevSchedules(page) == page > 1

\* The positions, from 0, of OFFSET (page - 1) * per_page LIMIT per_page.
Page(page, perPage) == (page - 1) * perPage .. page * perPage - 1

=============================================================================
