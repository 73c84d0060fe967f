------------------------------ MODULE MCAudio ------------------------------
(* Audio for TLC.                                                          *)
EXTENDS Audio

CONSTANTS x, y      \* insert instances

\* Sources without inserts, a chain of shared ones, the first and the last
\* sharing one, and a single source.
MCRoutings == {<<{}, {}, {}>>, <<{x}, {x, y}, {y}>>, <<{x}, {}, {x}>>, <<{x}>>}

ASSUME
  /\ PreviewAssumption /\ N!NotesAssumption /\ A!AudioPoolAssumption
  /\ M!PatchbayAssumption
=============================================================================
