---------------------------- MODULE WordWrapFlow ----------------------------
(***************************************************************************)
(* WrapText implements Flow: the items are the words of the text, a box is *)
(* a line, a blank stands between two words of a line, and a word longer   *)
(* than a line has one to itself.                                          *)
(***************************************************************************)
EXTENDS WordWrap

\* The lines so far, the one being filled included.
LinesSoFar == IF wrapping = "words" THEN Append(lines, currentLine) ELSE lines

\* The lines that have word n.
LinesWith(n) ==
    {k \in DOMAIN LinesSoFar :
        \E j \in DOMAIN LinesSoFar[k].words : LinesSoFar[k].words[j] = n}

\* The line of every word taken so far.
LineOf == [n \in 1..taken |-> CHOOSE k \in LinesWith(n) : TRUE]

\* The characters that still fit the line of the word last taken.
RoomOnLine == IF taken = 0 THEN 0 ELSE MaxCharsPerLine - currentLine.length

Flow == INSTANCE Flow WITH
    Capacity <- MaxCharsPerLine,
    Gap      <- 1,
    Overflow <- TRUE,
    items    <- words,
    boxOf    <- LineOf,
    room     <- RoomOnLine,
    ended    <- wrapping = "wrapped"

\* Every round puts the next word on the line being filled, if it fits with the
\* blank before it, or on a new line; and WrapText ends when all words are on
\* lines.
WrapTextFlows == Flow!Init /\ [][Flow!Next]_Flow!flowVars

------------------------------------------------------------------------------
\* What has to be known of a round for the next one to flow: words on lines have
\* been taken, and the one last taken is on the line being filled.
PlacedInv ==
    /\ \A k \in DOMAIN LinesSoFar : \A j \in DOMAIN LinesSoFar[k].words :
           LinesSoFar[k].words[j] \in 1..taken
    /\ wrapping = "words" /\ taken > 0 => LineOf[taken] = Len(LinesSoFar)

=============================================================================
