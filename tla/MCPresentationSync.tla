------------------------- MODULE MCPresentationSync -------------------------
(* Small instances of PresentationSync: a title and a piece of a layout of    *)
(* two values each, the badge, three steps of the owner, one save of another  *)
(* tab, one lost message.                                                     *)
EXTENDS PresentationSync, TLC

CONSTANTS title, width, verified, plain, changed, granted

FieldDef == {title, width}
LayoutDef == {width}
ValueDef == {plain, changed}
=============================================================================
