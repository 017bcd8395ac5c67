--------------------------- MODULE Whiteboard_proofs ---------------------------
(***************************************************************************)
(* What a Whiteboard promises follows from its steps, for any number of    *)
(* edits and cells.                                                        *)
(***************************************************************************)
EXTENDS Whiteboard, TLAPS

Inv == TypeOK /\ OrderIsStrict /\ LastWriterWins

\* A blank board with no edit placed satisfies the invariant.
LEMMA InitInv == Init => Inv
  BY DEF Init, Inv, TypeOK, OrderIsStrict, LastWriterWins, EditsOf, Blank, Unplaced

\* An edit takes the last place, so its cell shows it; other cells are as before.
LEMMA EditInv == ASSUME Inv, NEW a \in Actions, Edit(a) PROVE Inv'
<1> USE CellOfAssumption, ColorOfAssumption
<1> USE DEF Inv
<1>1. TypeOK'
  BY DEF Edit, TypeOK
<1>2. /\ order'[a] \in Nat /\ order'[a] > 0
      /\ \A b \in Actions : b # a => order'[b] = order[b] /\ order'[b] < order'[a]
  BY DEF Edit, TypeOK
<1>3. OrderIsStrict'
  BY <1>1, <1>2 DEF OrderIsStrict, TypeOK
<1>4. LastWriterWins'
  <2> SUFFICES ASSUME NEW x \in Cells
               PROVE  \/ EditsOf(x)' = {} /\ board'[x] = NoColor
                      \/ \E c \in EditsOf(x)' :
                            /\ \A b \in EditsOf(x)' : order'[b] <= order'[c]
                            /\ board'[x] = ColorOf[c]
    BY DEF LastWriterWins
  <2>1. CASE x = CellOf[a]
    <3>1. a \in EditsOf(x)'
      BY <1>2, <2>1 DEF EditsOf
    <3>2. \A b \in EditsOf(x)' : order'[b] <= order'[a]
      BY <1>1, <1>2 DEF EditsOf, TypeOK
    <3>3. board'[x] = ColorOf[a]
      BY <2>1 DEF Edit, TypeOK
    <3> QED BY <3>1, <3>2, <3>3
  <2>2. CASE x # CellOf[a]
    <3>1. EditsOf(x)' = EditsOf(x) /\ \A b \in EditsOf(x) : order'[b] = order[b]
      BY <1>2, <2>2 DEF EditsOf
    <3>2. board'[x] = board[x]
      BY <2>2 DEF Edit, TypeOK
    <3>3. \/ EditsOf(x) = {} /\ board[x] = NoColor
          \/ \E c \in EditsOf(x) : /\ \A b \in EditsOf(x) : order[b] <= order[c]
                                   /\ board[x] = ColorOf[c]
      BY DEF LastWriterWins
    <3> QED BY <3>1, <3>2, <3>3
  <2> QED BY <2>1, <2>2
<1> QED BY <1>1, <1>3, <1>4

LEMMA NextInv == Inv /\ [Next]_<<board, order>> => Inv'
<1> SUFFICES ASSUME Inv, [Next]_<<board, order>> PROVE Inv'
  OBVIOUS
<1>1. CASE Wipe
  BY <1>1 DEF Wipe, Inv, TypeOK, OrderIsStrict, LastWriterWins, EditsOf, Blank, Unplaced
<1>2. ASSUME NEW a \in Actions, Edit(a) PROVE Inv'
  BY <1>2, EditInv
<1>3. CASE UNCHANGED <<board, order>>
  BY <1>3 DEF Inv, TypeOK, OrderIsStrict, LastWriterWins, EditsOf
<1> QED BY <1>1, <1>2, <1>3 DEF Next

\* On every Whiteboard, each cell shows what the last edit of it left.
THEOREM WhiteboardCorrect == Spec => []Inv
  BY InitInv, NextInv, PTL DEF Spec
================================================================================
