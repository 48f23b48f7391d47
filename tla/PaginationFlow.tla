--------------------------- MODULE PaginationFlow ---------------------------
(***************************************************************************)
(* Paginate implements Flow: the items are the lines of the text, a box is *)
(* a page, and no line is ever placed where it has no room.                *)
(***************************************************************************)
EXTENDS Pagination

\* The pages that have line n.
PagesWith(n) ==
    {k \in DOMAIN Layout : \E j \in DOMAIN LinesOf(k) : LinesOf(k)[j] = n}

\* The page of every line placed so far.
PageOf == [n \in 1..lineIndex |-> CHOOSE k \in PagesWith(n) : TRUE]

\* The room left on the page of the line last placed: the page being filled, or
\* the one before it if a page has just been turned.
RoomLeft ==
    IF lineIndex = 0 THEN 0 ELSE RemainingHeight(Layout[PageOf[lineIndex]])

Flow == INSTANCE Flow WITH
    Capacity <- AvailableHeight,
    Gap      <- 0,
    Overflow <- FALSE,
    items    <- LineHeights,
    boxOf    <- PageOf,
    room     <- RoomLeft,
    ended    <- pc = "returned"

\* Every step of Paginate puts the next line on the page of the last one or on the
\* page after it, where it has room, or leaves what is placed as it is; and the
\* method ends when all lines are placed, which it does.
PaginateFlows == Flow!Spec

\* The same without the promise that the method ends.
PaginateFlowsSafely == Flow!Init /\ [][Flow!Next]_(Flow!flowVars)

------------------------------------------------------------------------------
\* What has to be known of a round for the next one to flow: the line last placed
\* is on one page.
PlacedInv == lineIndex > 0 => PagesWith(lineIndex) = {PageOf[lineIndex]}

=============================================================================
