--------------------------- MODULE MCInlineEdit ---------------------------
(* An instance of InlineEdit for TLC: a page with one node, a control that *)
(* adds a value and one without a property.                                *)
EXTENDS InlineEdit

CONSTANTS v1, v2, v3

MCPage0 == <<v1>>
=============================================================================
