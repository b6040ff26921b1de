--------------------------- MODULE CommittedRows ---------------------------
(***************************************************************************)
(* What the file of one sub-job promises whoever reads it by its manifest,  *)
(* whatever the downloads and compactions behind it go through: the rows in *)
(* view only ever grow at the end, lose their oldest, or disappear as a     *)
(* whole until a complete file takes their place.  No row inside them is    *)
(* lost, repeated or moved.                                                 *)
(***************************************************************************)
EXTENDS Naturals, Sequences

CONSTANTS Chunks, Rows

\* The chunks accounted for, those of them that could not be read, and the rows.
VARIABLE view

Hidden == [names |-> {}, skipped |-> {}, rows |-> <<>>]

RangeOf(s) == {s[i] : i \in 1..Len(s)}

\* rows are those of S, each once and in stage order.
RowsInOrder(rows, S) ==
    /\ \A i, j \in 1..Len(rows) : i < j => rows[i] < rows[j]
    /\ RangeOf(rows) = UNION {RangeOf(Rows[c]) : c \in S}

Init == view = Hidden

\* Chunks after those accounted for are appended, or skipped.
Extend ==
    /\ view # Hidden
    /\ view.names \subseteq view'.names
    /\ \A c \in view'.names \ view.names, d \in view.names : d < c
    /\ view'.skipped \cap view.names = view.skipped
    /\ Len(view'.rows) >= Len(view.rows)
    /\ SubSeq(view'.rows, 1, Len(view.rows)) = view.rows
    /\ RowsInOrder(SubSeq(view'.rows, Len(view.rows) + 1, Len(view'.rows)),
                   (view'.names \ view.names) \ view'.skipped)

\* The oldest rows are dropped, never the newest, and their chunks stay accounted for.
Trim ==
    /\ view'.names = view.names
    /\ view'.skipped = view.skipped
    /\ \E cut \in 1..(Len(view.rows) - 1) :
           view'.rows = SubSeq(view.rows, cut + 1, Len(view.rows))

Hide == view' = Hidden

\* A complete file appears.
Show ==
    /\ view = Hidden
    /\ view'.names \subseteq Chunks
    /\ view'.names # {}
    /\ view'.skipped \subseteq view'.names
    /\ RowsInOrder(view'.rows, view'.names \ view'.skipped)

Next == Extend \/ Trim \/ Hide \/ Show

Spec == Init /\ [][Next]_view
=============================================================================
