----------------------------- MODULE MCCompiler -----------------------------
(***************************************************************************)
(* A small instance of the compiler: three files for the language server.  *)
(* One uses the two others, the third also through the second; there are   *)
(* texts without an AST, a file that declares the library's module, and a  *)
(* cycle of uses.                                                          *)
(***************************************************************************)
EXTENDS Compiler

LsText(n, ast, uses, mods) == [n |-> n, ast |-> ast, uses |-> uses, mods |-> mods]
Parsed == {"editor", "session"}
LsInitial == <<LsText(1, Parsed, <<2, 3>>, << >>), LsText(1, Parsed, <<3>>, << >>),
               LsText(1, Parsed, << >>, << >>)>>
LsContents ==
  <<{LsInitial[1], LsText(2, {}, << >>, << >>), LsText(3, {"session"}, <<3>>, << >>)},
    {LsInitial[2], LsText(2, Parsed, << >>, <<3>>)},
    {LsInitial[3], LsText(2, Parsed, <<2>>, << >>)}>>

ASSUME L!LanguageServerAssumption
=============================================================================
