------------------------------- MODULE Whiteboard -------------------------------
(***************************************************************************)
(* What a room's board promises, whoever edits it and however the server   *)
(* is built: edits take effect one at a time, each in a place after all    *)
(* earlier ones, and a cell shows what the last edit of it left there.     *)
(* The board may be wiped, which starts a new order of edits.              *)
(***************************************************************************)
EXTENDS Edits

VARIABLES
    board,     \* what each cell shows
    order      \* the place of an edit since the last wipe, 0 if it has none

Blank    == [x \in Cells |-> NoColor]
Unplaced == [a \in Actions |-> 0]

Init == board = Blank /\ order = Unplaced

\* An edit takes a place after all others; when it is repeated it moves there.
Edit(a) ==
    /\ order' \in [Actions -> Nat]
    /\ order' = [order EXCEPT ![a] = order'[a]]
    /\ \A b \in Actions : order'[a] > order[b]
    /\ board' = [board EXCEPT ![CellOf[a]] = ColorOf[a]]

Wipe == board' = Blank /\ order' = Unplaced

Next == Wipe \/ \E a \in Actions : Edit(a)

Spec == Init /\ [][Next]_<<board, order>>

\* The types of the variables.
TypeOK == /\ board \in [Cells -> Colors \cup {NoColor}]
          /\ order \in [Actions -> Nat]

EditsOf(x) == {a \in Actions : CellOf[a] = x /\ order[a] > 0}

\* Every cell shows what the last edit of it left, and is blank if it has none.
LastWriterWins ==
    \A x \in Cells :
        \/ EditsOf(x) = {} /\ board[x] = NoColor
        \/ \E a \in EditsOf(x) : /\ \A b \in EditsOf(x) : order[b] <= order[a]
                                 /\ board[x] = ColorOf[a]

\* No two edits have the same place.
OrderIsStrict ==
    \A a, b \in Actions : a # b /\ order[a] > 0 => order[a] # order[b]
================================================================================
