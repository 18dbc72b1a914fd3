----------------------------- MODULE LineCounts ------------------------------
(***************************************************************************)
(* The lines of code, comment and nothing of metrics/loc.rs, as metrics()  *)
(* of spaces.rs counts them space by space: a node is counted when it is   *)
(* met, in source order, into the space it belongs to, and a space is      *)
(* merged into the one around it when it is left.                          *)
(*                                                                         *)
(* A file is the sequence of its nodes, from the row each starts on to the *)
(* row it ends on:                                                         *)
(*   code     counts for the row it starts on, as does every node a        *)
(*            language has no rule for                                     *)
(*   text     the same, but with more rows: a literal of several lines     *)
(*   macro    a C++ replacement list, which counts for all its rows        *)
(*   comment  (in Python, a string that is a statement)                    *)
(*   open     the first node of a function, which is a space               *)
(*   close    the last one                                                 *)
(* The file begins on row 0 and ends with a newline (remove_blank_lines).  *)
(***************************************************************************)
EXTENDS Integers, FiniteSets, FiniteSetsExt, SequencesExt

CONSTANTS MaxRow,    \* bound: the last row
          MaxTokens  \* bound: nodes of the file

VARIABLES file,     \* the nodes met so far
          spaces,   \* the open spaces, the file first
          counted,  \* those that are left, with what was counted
          returned

vars == <<file, spaces, counted, returned>>

Rows == 0..MaxRow
NoRow == -1
Kinds == {"code", "text", "macro", "comment", "open", "close"}
ManyRows == {"text", "macro"}

Tokens == {t \in [kind : Kinds, start : Rows, end : Rows] :
             /\ t.start <= t.end
             /\ t.kind \in ManyRows => t.start < t.end
             /\ t.kind \notin ManyRows \cup {"comment"} => t.start = t.end}

(* What may come next: the file begins on row 0, and what is closed is open.*)
Follows(t) ==
    /\ Len(file) < MaxTokens
    /\ IF file = <<>> THEN t.start = 0 ELSE t.start >= Last(file).end
    /\ t.kind = "close" => Len(spaces) > 1

(* A space: the node it begins with, and its statistics.                   *)
NewSpace(i, row) ==
    [first |-> i, start |-> row, lines |-> {}, only |-> 0, beside |-> 0, commentEnd |-> NoRow]

Init ==
    /\ file = <<>>
    /\ spaces = <<NewSpace(0, 0)>>
    /\ counted = {}
    /\ returned = FALSE

-----------------------------------------------------------------------------

(* add_cloc_lines(): a comment next to code, on rows of its own, or both.   *)
AddComment(s, t) ==
    IF t.start \in s.lines
    THEN [s EXCEPT !.beside = @ + 1, !.only = @ + (t.end - t.start)]
    ELSE [s EXCEPT !.only = @ + (t.end - t.start) + 1, !.commentEnd = t.end]

(* Mutant of CommentBeforeCode: every node of the row takes the comment back.*)
EveryNodeOfRow(s, row) ==
    IF s.commentEnd = row THEN [s EXCEPT !.only = @ - 1, !.beside = @ + 1] ELSE s

(* check_comment_ends_on_code_line(): the comment before the first code of  *)
(* a row was not on a row of its own.                                       *)
CommentBeforeCode(s, row) ==
    IF s.commentEnd = row /\ row \notin s.lines
    THEN [s EXCEPT !.only = @ - 1, !.beside = @ + 1]
    ELSE s

AddCode(s, t) ==
    [CommentBeforeCode(s, t.start) EXCEPT
        !.lines = @ \cup IF t.kind = "macro" THEN t.start..t.end ELSE {t.start}]

Compute(s, t) == IF t.kind = "comment" THEN AddComment(s, t) ELSE AddCode(s, t)

(* Stats::merge                                                             *)
Merge(outer, inner) ==
    [outer EXCEPT !.lines = @ \cup inner.lines,
                  !.only = @ + inner.only, !.beside = @ + inner.beside]

(* Sloc::sloc(), and what it leaves.                                        *)
Sloc(s, end) == IF s.first = 0 THEN (end + 1) - s.start ELSE (end - s.start) + 1
Blank(s, end) == Sloc(s, end) - Cardinality(s.lines) - s.only

(* The next node is met, and counted in the innermost space.                *)
Count(t) ==
    LET i == Len(file) + 1
        inner == IF t.kind = "open" THEN Append(spaces, NewSpace(i, t.start)) ELSE spaces
        here == Compute(Last(inner), t)
        around == Front(inner)
    IN  /\ ~returned
        /\ Follows(t)
        /\ file' = Append(file, t)
        /\ IF t.kind = "close"
           THEN /\ spaces' = Append(Front(around), Merge(Last(around), here))
                /\ counted' = counted \cup {[space |-> here, last |-> i]}
           ELSE /\ spaces' = Append(around, here)
                /\ UNCHANGED counted
        /\ UNCHANGED returned

(* The file ends.                                                           *)
Return ==
    /\ ~returned
    /\ file # <<>>
    /\ Len(spaces) = 1
    /\ counted' = counted \cup {[space |-> spaces[1], last |-> Len(file)]}
    /\ returned' = TRUE
    /\ UNCHANGED <<file, spaces>>

Next == (\E t \in Tokens : Count(t)) \/ Return
Spec == Init /\ [][Next]_vars

-----------------------------------------------------------------------------
(* The reference: what is on the rows of a space.                           *)

From(c) == IF c.space.first = 0 THEN 1 ELSE c.space.first
Within(c) == {file[i] : i \in From(c)..c.last}
End(c) == file[c.last].end
RowsOf(tokens) == UNION {t.start..t.end : t \in tokens}
Comments(c) == {t \in Within(c) : t.kind = "comment"}
CodeRows(c) == {t.start : t \in Within(c) \ Comments(c)}
                 \cup RowsOf({t \in Within(c) : t.kind = "macro"})
BlankRows(c) == (file[From(c)].start..End(c)) \ RowsOf(Within(c))

CommentsOnRow(row) ==
    {i \in DOMAIN file : file[i].kind = "comment" /\ row \in file[i].start..file[i].end}

(* One comment to a row, no literal of several rows, and none of the two    *)
(* cases in which the row a comment shares is forgotten: code after a       *)
(* comment that began beside code rows above, and a function after a        *)
(* comment on its first row.                                                *)
Ordinary ==
    /\ \A i \in DOMAIN file : file[i].kind # "text"
    /\ \A row \in Rows : Cardinality(CommentsOnRow(row)) <= 1
    /\ \A i, j \in DOMAIN file :
         file[i].kind = "comment" /\ i < j /\ file[j].start = file[i].end =>
             /\ file[j].kind # "open"
             /\ file[i].start = file[i].end
                  \/ \A h \in 1..(i - 1) : file[h].end < file[i].start

(* In every space, code is counted once for a row, however many spaces and  *)
(* nodes share the row; no comment is taken back twice (the count is        *)
(* unsigned); and in an ordinary file a row is counted as code, as comment  *)
(* or as blank, once.                                                       *)
RowsAreSorted ==
    returned =>
        \A c \in counted :
            /\ c.space.lines = CodeRows(c)
            /\ c.space.only >= 0
            /\ Ordinary =>
                 /\ c.space.only = Cardinality(RowsOf(Comments(c)) \ CodeRows(c))
                 /\ Blank(c.space, End(c)) = Cardinality(BlankRows(c))

=============================================================================
