---------------------------------- MODULE Edits ---------------------------------
(***************************************************************************)
(* The edits of one board: what dto.IncomingAction says of an action, as   *)
(* far as the board can tell.                                              *)
(***************************************************************************)
EXTENDS Naturals

CONSTANTS
    Actions,   \* edits
    Cells,     \* coordinates, the fields "x:y" of the Redis hash
    Colors,
    NoColor,   \* the empty colour: the field is deleted, the cell is blank
    CellOf,    \* the cell an edit is about
    ColorOf    \* the colour it carries

ASSUME CellOfAssumption  == CellOf \in [Actions -> Cells]
ASSUME ColorOfAssumption == ColorOf \in [Actions -> Colors \cup {NoColor}]
================================================================================
