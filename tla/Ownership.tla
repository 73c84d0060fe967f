------------------------------ MODULE Ownership ------------------------------
(***************************************************************************)
(* Moves and automatic cleanup in the code generator (src/src/ir: moves,   *)
(* ownership, lifecycle, lvalues, declarations, dispatch, control_flow).   *)
(* A function body over move-only values with a cleanup method is          *)
(* generated statement by statement, in one pass: the generator keeps the  *)
(* set of moved names, which decides what it accepts, and the stack of     *)
(* cleanup scopes, from which it emits code.  Every statement it accepts   *)
(* is also executed, if it lies on the path the run takes through the      *)
(* function, on the values, the storage and the drop flags.                *)
(*                                                                         *)
(* The programs are all those of at most MaxSize statements, delimiters    *)
(* included; the bodies of loops are straight-line code.                   *)
(***************************************************************************)
EXTENDS Integers, SequencesExt

CONSTANTS Names,      \* names of local variables
          MaxSize,    \* bound on the statements of a function
          MaxRounds,  \* bound on the iterations of a loop
          Forms       \* constructs used: "block", "if", "while", "loopMove"
                      \* (a loop body moves an outer variable), "leaveLocals"
                      \* (break or continue with local variables declared)

Slots == 1 .. MaxSize          \* allocas, numbered by declaration
Fresh == 0                     \* in place of a slot or name: a new value

ASSUME OwnershipAssumption ==
  MaxSize \in Nat /\ MaxRounds \in Nat /\ Fresh \notin Names

VARIABLES
  moved,    \* movedVariables
  scopes,   \* cleanupScopes with the shadowed entries of each
  frames,   \* the constructs being generated, innermost last
  term,     \* the current basic block has its terminator
  size,     \* statements so far
  lets,     \* declarations so far
  on,       \* the run reaches the current point
  over,     \* the run has returned
  rt        \* the run: storage, drop flags, fates of the values, misuse

comp == <<moved, scopes, frames, term, size, lets>>
vars == <<comp, on, over, rt>>

\* The variables a scope cleans up, and the shadowed names that were moved.
EmptyScope == [vars |-> {}, before |-> {}]

Init ==
  /\ moved = {} /\ scopes = <<EmptyScope>> /\ frames = << >>
  /\ term = FALSE /\ size = 0 /\ lets = 0
  /\ on = TRUE /\ over = FALSE
  /\ rt = [val |-> [s \in Slots |-> 0], flag |-> [s \in Slots |-> FALSE],
           fate |-> << >>, misused |-> FALSE]

-----------------------------------------------------------------------------
\* The emitted code, executed.  The cleanup of a set of slots drops each value
\* whose flag is set; cleaning up what is not live is a misuse.
Dropped(r, slots) ==
  LET due == {s \in slots : r.flag[s]}
  IN  [r EXCEPT
         !.flag = [s \in Slots |-> r.flag[s] /\ s \notin slots],
         !.fate = [v \in 1 .. Len(r.fate) |->
                     IF \E s \in due : r.val[s] = v THEN "dropped" ELSE r.fate[v]],
         !.misused = @ \/ \E s \in due : \/ r.fate[r.val[s]] # "live"
                                        \/ \E u \in due \ {s} : r.val[u] = r.val[s]]

\* The value of `from', or a new one, leaves its place.
Taken(r, from) ==
  IF from = Fresh
  THEN [r EXCEPT !.fate = Append(@, "live")]
  ELSE [r EXCEPT !.flag[from] = FALSE,
                 !.misused = @ \/ r.fate[r.val[from]] # "live"]
ValueOf(r, from) == IF from = Fresh THEN Len(r.fate) + 1 ELSE r.val[from]

\* Mutant: an assignment does not clean up the value it replaces.
StoredOver(r, i) ==
  LET t == Taken(r, i.from)
  IN  [t EXCEPT !.val[i.to] = ValueOf(r, i.from), !.flag[i.to] = TRUE]

\* A store into `to': an assignment first drops what is there.
Stored(r, i) ==
  LET t == Taken(r, i.from)
      d == IF i.op = "assign" THEN Dropped(t, {i.to}) ELSE t
  IN  [d EXCEPT !.val[i.to] = ValueOf(r, i.from), !.flag[i.to] = TRUE]

\* An instruction [op, to, from] over slots.
Run(r, i) ==
  CASE i.op = "use"  -> [r EXCEPT !.misused = @ \/ r.fate[r.val[i.from]] # "live"]
    [] i.op = "give" -> LET t == Taken(r, i.from)
                        IN  [t EXCEPT !.fate[ValueOf(r, i.from)] = "given"]
    [] OTHER         -> Stored(r, i)

I(op, to, from) == [op |-> op, to |-> to, from |-> from]

-----------------------------------------------------------------------------
\* What is registered in the outermost d of the scopes ss, and the innermost
\* registration of a name there, which is the latest; 0 for none.
Registered(ss, d) == UNION {ss[e].vars : e \in 1 .. d}
SlotAt(ss, d, n) ==
  LET own == {v.slot : v \in {u \in Registered(ss, d) : u.name = n}}
  IN  IF own = {} THEN 0 ELSE Max(own)

\* findActiveDropFlag
ActiveSlot(n) == SlotAt(scopes, Len(scopes), n)

InLoop == frames # << >> /\ Last(frames).kind = "while"
MayNest == ~InLoop

\* validateVariableAccessible.
Accessible(n) == ActiveSlot(n) # 0 /\ n \notin moved

\* Programs without "loopMove" move only a loop's own variables inside it.
MayMove(n) ==
  "loopMove" \in Forms \/ ~InLoop \/ \E v \in Last(scopes).vars : v.name = n

\* What may stand on the right of = : Fresh, or a name that is moved.
Sources == {Fresh} \cup {n \in Names : Accessible(n) /\ MayMove(n)}
SlotOf(src) == IF src = Fresh THEN Fresh ELSE ActiveSlot(src)
Consumed(src) == IF src = Fresh THEN moved ELSE moved \cup {src}

Statement == ~term /\ size < MaxSize /\ size' = size + 1

\* The code of one statement is emitted; a loop keeps that of its body.
Emit(i) ==
  /\ rt' = IF on THEN Run(rt, i) ELSE rt
  /\ frames' = IF InLoop THEN [frames EXCEPT ![Len(frames)].code = Append(@, i)] ELSE frames

\* let n = src: consumed first, then the name is shadowed and registered.
Let(n, src) ==
  LET now == Consumed(src)
      top == Last(scopes)
      again == \E v \in top.vars : v.name = n
  IN  /\ Statement
      /\ lets' = lets + 1
      /\ moved' = now \ {n}
      /\ scopes' = [scopes EXCEPT ![Len(scopes)] =
                      [vars |-> top.vars \cup {[name |-> n, slot |-> lets + 1]},
                       before |-> IF again THEN top.before ELSE top.before \cup ({n} \cap now)]]
      /\ Emit(I("let", lets + 1, SlotOf(src)))
      /\ UNCHANGED <<term, on, over>>

\* n = src
Assign(n, src) ==
  /\ Statement /\ ActiveSlot(n) # 0
  /\ moved' = Consumed(src) \ {n}
  /\ Emit(I("assign", ActiveSlot(n), SlotOf(src)))
  /\ UNCHANGED <<scopes, term, lets, on, over>>

\* A use that does not move: a method call, a field, a borrow.
Use(n) ==
  /\ Statement /\ Accessible(n)
  /\ Emit(I("use", 0, ActiveSlot(n)))
  /\ UNCHANGED <<moved, scopes, term, lets, on, over>>

\* n is passed by value to a function, which owns it from there on.
Give(n) ==
  /\ Statement /\ n \in Sources
  /\ moved' = Consumed(n)
  /\ Emit(I("give", 0, ActiveSlot(n)))
  /\ UNCHANGED <<scopes, term, lets, on, over>>

-----------------------------------------------------------------------------
\* emitScopeCleanup and emitAllActiveCleanups: the slots of one scope, of all.
CleanupOf(scope) == {v.slot : v \in scope.vars}
Active == {v.slot : v \in Registered(scopes, Len(scopes))}

\* exitCleanupScope: what the shadowed names were comes back; the cleanups are
\* emitted unless the block has ended.
ExitScope == LET top == Last(scopes)
             IN  (moved \ {v.name : v \in top.vars}) \cup top.before
Exited == IF on /\ ~term THEN Dropped(rt, CleanupOf(Last(scopes))) ELSE rt

Frame(kind, taken) ==
  [kind |-> kind, incoming |-> moved, wasOn |-> on, taken |-> taken,
   thenMoved |-> {}, falls |-> FALSE, code |-> << >>, exits |-> {}, at |-> 1]
Open(kind, taken) ==
  /\ Statement /\ MayNest
  /\ frames' = Append(frames, Frame(kind, taken))
  /\ scopes' = Append(scopes, EmptyScope)
  /\ UNCHANGED <<moved, term, lets, over, rt>>
Closing(kind) ==
  /\ frames # << >> /\ Last(frames).kind = kind
  /\ rt' = Exited
  /\ UNCHANGED <<size, lets, over>>

\* { ... }
Block == "block" \in Forms /\ Open("block", "") /\ UNCHANGED on
EndBlock ==
  /\ Closing("block")
  /\ moved' = ExitScope /\ scopes' = Front(scopes) /\ frames' = Front(frames)
  /\ UNCHANGED <<term, on>>

\* if c { ... } else { ... }: the run takes one branch, the generator
\* both, each from the state before.
If(taken) ==
  /\ "if" \in Forms /\ Open("then", taken)
  /\ on' = (on /\ taken = "then")
Else ==
  LET f == Last(frames)
  IN  /\ Closing("then")
      /\ frames' = Append(Front(frames), [f EXCEPT !.kind = "else",
                             !.thenMoved = ExitScope, !.falls = ~term])
      /\ moved' = f.incoming /\ term' = FALSE
      /\ scopes' = Append(Front(scopes), EmptyScope)
      /\ on' = (f.wasOn /\ f.taken = "else" /\ ~over)

\* Mutant: only the names moved on both branches stay moved.
MergedBoth(then, thenFalls, else, elseFalls, incoming) ==
  IF thenFalls /\ elseFalls THEN then \cap else
  ELSE IF thenFalls THEN then ELSE IF elseFalls THEN else ELSE incoming

\* The names moved on some branch that falls through.
Merged(then, thenFalls, else, elseFalls, incoming) ==
  IF ~thenFalls /\ ~elseFalls THEN incoming
  ELSE (IF thenFalls THEN then ELSE {}) \cup (IF elseFalls THEN else ELSE {})

EndElse ==
  LET f == Last(frames)
  IN  /\ Closing("else")
      /\ moved' = Merged(f.thenMoved, f.falls, ExitScope, ~term, f.incoming)
      /\ term' = (term /\ ~f.falls)
      /\ scopes' = Front(scopes) /\ frames' = Front(frames)
      /\ on' = (f.wasOn /\ ~over)
EndThen ==
  LET f == Last(frames)
  IN  /\ Closing("then")
      /\ moved' = Merged(ExitScope, ~term, f.incoming, TRUE, f.incoming)
      /\ term' = FALSE
      /\ scopes' = Front(scopes) /\ frames' = Front(frames)
      /\ on' = (f.wasOn /\ ~over)

\* return src; the run is over when it is on the path.
Return(src) ==
  LET given == IF src = Fresh THEN rt ELSE Run(rt, I("give", 0, SlotOf(src)))
  IN  /\ Statement /\ MayNest
      /\ moved' = Consumed(src)
      /\ rt' = IF on THEN Dropped(given, Active) ELSE rt
      /\ term' = TRUE
      /\ on' = FALSE /\ over' = (over \/ on)
      /\ UNCHANGED <<scopes, frames, lets>>

\* while c { ... }: the first of the run's iterations goes along with the
\* generation of the body.
While(rounds) ==
  /\ "while" \in Forms /\ Open("while", rounds)
  /\ on' = (on /\ rounds > 0)

\* break and continue leave the body's scope without emitting its cleanups.
Leave(how) ==
  LET n == Len(frames)
  IN  /\ InLoop /\ Statement
      /\ "leaveLocals" \in Forms \/ Last(scopes).vars = {}
      /\ frames' = [frames EXCEPT ![n].exits = moved,
                                  ![n].taken = IF how = "break" /\ @ > 1 THEN 1 ELSE @]
      /\ term' = TRUE
      /\ UNCHANGED <<moved, scopes, lets, on, over, rt>>

\* The end of the body, whose block now ends with the jump back.
EndBody ==
  /\ Closing("while")
  /\ frames' = [frames EXCEPT ![Len(frames)].kind = "again", ![Len(frames)].falls = ~term]
  /\ term' = TRUE
  /\ UNCHANGED <<moved, scopes, on>>

\* The body was generated once; a further iteration runs the same code, one
\* instruction after the other, and then the same cleanups.
Again ==
  LET f == Last(frames)
      end == f.at > Len(f.code)
  IN  /\ frames # << >> /\ f.kind = "again" /\ on /\ f.taken > 1
      /\ rt' = IF ~end THEN Run(rt, f.code[f.at])
               ELSE IF f.falls THEN Dropped(rt, CleanupOf(Last(scopes))) ELSE rt
      /\ frames' = [frames EXCEPT ![Len(frames)].at = IF end THEN 1 ELSE @ + 1,
                                  ![Len(frames)].taken = IF end THEN @ - 1 ELSE @]
      /\ UNCHANGED <<moved, scopes, term, size, lets, on, over>>

\* Afterwards the moves before the loop, those of a body that falls through
\* and those at each break and continue are in force.
EndWhile ==
  LET f == Last(frames)
  IN  /\ frames # << >> /\ f.kind = "again" /\ (on => f.taken = 1)
      /\ moved' = f.incoming \cup f.exits \cup (IF f.falls THEN ExitScope ELSE {})
      /\ term' = FALSE
      /\ scopes' = Front(scopes) /\ frames' = Front(frames)
      /\ on' = f.wasOn
      /\ UNCHANGED <<size, lets, over, rt>>

\* The end of the function.
EndFunction ==
  /\ frames = << >> /\ scopes # << >>
  /\ rt' = Exited
  /\ moved' = {} /\ scopes' = << >> /\ term' = TRUE
  /\ on' = FALSE /\ over' = TRUE
  /\ UNCHANGED <<frames, size, lets>>

Next ==
  \/ \E n \in Names, src \in Sources : Let(n, src) \/ Assign(n, src)
  \/ \E n \in Names : Use(n) \/ Give(n)
  \/ \E src \in Sources : Return(src)
  \/ Block \/ EndBlock
  \/ If("then") \/ If("else") \/ Else \/ EndThen \/ EndElse
  \/ \E rounds \in 0 .. MaxRounds : While(rounds)
  \/ Leave("break") \/ Leave("continue") \/ EndBody \/ Again \/ EndWhile
  \/ EndFunction

Spec == Init /\ [][Next]_vars

\* The names play the same part.
NameSymmetry == Permutations(Names)

-----------------------------------------------------------------------------
\* A name the generator accepts holds, on every path that leads here, a live
\* value whose drop flag is set; and nothing accepted before has used, moved
\* or dropped a dead value.
AcceptedIsLive ==
  /\ ~rt.misused
  /\ (on /\ ~term) => \A n \in Names : Accessible(n) =>
       rt.flag[ActiveSlot(n)] /\ rt.fate[rt.val[ActiveSlot(n)]] = "live"

\* Every value is cleaned up or handed over exactly once: while the function
\* runs each live value belongs to one variable in scope with its flag set,
\* and none is left when it has returned, along whatever branches.
CleanedUpOnce ==
  \A v \in 1 .. Len(rt.fate) : rt.fate[v] = "live" =>
    /\ ~over
    /\ (on /\ ~term) => \E s \in Active : rt.flag[s] /\ rt.val[s] = v /\
                           \A u \in Active : rt.flag[u] /\ rt.val[u] = v => u = s
=============================================================================
