---------------------------- MODULE MCPageAssembly ----------------------------
(* Pages that put each part of the assembly to the test. *)
EXTENDS PageAssembly

At(l, t, r, b) == [left |-> l, top |-> t, right |-> r, bottom |-> b]
Mark(kind, value) == [kind |-> kind, value |-> value, roman |-> 0]
Row(id, box, mark) ==
  [id |-> id, box |-> box, mark |-> mark, digits |-> FALSE, vertical |-> Height(box) > 2 * Width(box),
   closed |-> FALSE, bold |-> FALSE]
Region(label, box, lines, order, confidence) ==
  [label |-> label, box |-> box, lines |-> lines, order |-> order, confidence |-> confidence,
   path |-> 0, figure |-> NoBox, image |-> FALSE, sparse |-> FALSE]
Residual(box, lines, path) == [Region("text", box, lines, 0, 0) EXCEPT !.path = path]

-----------------------------------------------------------------------------
(* Reading order: four blocks in two columns, below them, or in the margin. *)
Cells == {At(0, 0, 40, 10), At(50, 0, 90, 10), At(0, 20, 40, 30), At(50, 18, 90, 34),
          At(0, 64, 98, 74), At(94, 4, 98, 60)}
Casts == {<<"residual", "residual", "text", "text">>, <<"residual", "caption", "image", "text">>,
          <<"aside", "text", "table", "caption">>}
Placed4(cast, cells, upward) ==
  [i \in 1..4 |->
     LET rows == IF cast[i] \in {"image", "table"} THEN <<>> ELSE <<Row(i, cells[i], NoMark)>>
     IN IF cast[i] = "residual" THEN Residual(cells[i], rows, 3 - i)
        ELSE Region(cast[i], cells[i], rows, IF upward THEN 5 - i ELSE i,
                    <<95, 50, 90, 70>>[i])]
OrderPages ==
  {Placed4(cast, <<a, b, c, d>>, upward) :
     cast \in Casts, a \in {At(0, 20, 40, 30), At(94, 4, 98, 60)}, b \in Cells, c \in Cells, d \in Cells, upward \in BOOLEAN}

-----------------------------------------------------------------------------
(* Merging: an algorithm detected twice, line numbers or an empty strip at its left edge, *)
(* and a block that straddles the edge, in every order of their ids. *)
Strips == {Region("aside", At(48, 0, 76, 80), <<>>, 1, 60),
           Region("aside", At(40, 0, 52, 80),
                  <<[Row(1, At(40, 0, 52, 10), NoMark) EXCEPT !.digits = TRUE],
                    [Row(5, At(40, 70, 52, 80), NoMark) EXCEPT !.digits = TRUE]>>, 1, 60)}
Repeats == {Region("algorithm", At(52, 0, 400, 100), <<>>, 2, 70),
            Region("text", At(60, 20, 390, 80), <<Row(2, At(60, 20, 390, 80), NoMark)>>, 2, 70)}
Straddlers == {Region("text", At(56, 30, 100, 40), <<Row(3, At(56, 30, 100, 40), NoMark)>>, 3, 80),
               [Region("image", At(45, 30, 100, 40), <<>>, 3, 80)
                  EXCEPT !.figure = At(30, 0, 410, 105), !.image = TRUE],
               Region("text", At(10, 110, 100, 120), <<Row(3, At(10, 110, 100, 120), NoMark)>>, 3, 80)}
Code == Region("algorithm", At(60, 0, 400, 100), <<Row(4, At(60, 0, 400, 100), NoMark)>>, 4, 90)
MergePages ==
  {LET roles == <<Code, strip, repeat, other>> IN [i \in 1..4 |-> roles[ids[i]]] :
     strip \in Strips, repeat \in Repeats, other \in Straddlers,
     ids \in {p \in [1..4 -> 1..4] : {p[i] : i \in 1..4} = 1..4}}

-----------------------------------------------------------------------------
(* Lists: rows of body text in one block or split into two, with a figure beside them. *)
Shape(x, mark, gap) == [left |-> x, mark |-> mark, gap |-> gap, closed |-> FALSE, bold |-> FALSE]
Bullet == Mark("bullet", 0)
NestedShapes == {Shape(x, m, 2) : x \in {0, 10, 20}, m \in {NoMark, Bullet, Mark("decimal", 1)}}
NumberShapes ==
  {Shape(0, m, 2) : m \in {Mark("bare", 1), Mark("bare", 2), Mark("bare", 3),
                           [Mark("alpha", 9) EXCEPT !.roman = 1], Mark("roman", 2)}}
FlowShapes == {Shape(0, Bullet, 2), Shape(0, Bullet, 40), Shape(0, Mark("decimal", 2), 2),
               [Shape(0, NoMark, 2) EXCEPT !.closed = TRUE], Shape(0, NoMark, 2),
               [Shape(10, NoMark, 2) EXCEPT !.bold = TRUE]}
Top(shapes, i) == IF i = 1 THEN 0 ELSE 10 * (i - 1) + FoldLeft(LAMBDA s, k : s + shapes[k].gap, 0,
                                                             [k \in 1..(i - 1) |-> k + 1])
RowOf(shapes, i) ==
  LET s == shapes[i]
      line == Row(i, At(s.left, Top(shapes, i), IF i < 3 THEN 90 ELSE 80, Top(shapes, i) + 10), s.mark)
  IN [line EXCEPT !.closed = s.closed, !.bold = s.bold]
BodyOf(shapes, from, to) ==
  LET rows == [i \in 1..(to - from + 1) |-> RowOf(shapes, from + i - 1)]
  IN Region("text", Envelope({rows[i].box : i \in DOMAIN rows}), rows, from, 80)
Beside == Region("image", At(82, 28, 86, 34), <<>>, 9, 80)
ListPage(shapes, split) ==
  IF split = 0 THEN <<BodyOf(shapes, 1, 4)>>
  ELSE <<BodyOf(shapes, 1, split), BodyOf(shapes, split + 1, 4), Beside>>
ListPages ==
  {ListPage(<<a, b, c, d>>, 2) : a \in {Shape(0, NoMark, 2), Shape(0, Bullet, 2)},
                                 b \in NestedShapes, c \in NestedShapes, d \in NestedShapes}
  \cup {ListPage(<<a, b, c, d>>, 0) : a \in NumberShapes, b \in NumberShapes,
                                     c \in NumberShapes, d \in NumberShapes}
  \cup {ListPage(<<a, b, c, d>>, 1) : a \in {Shape(0, Bullet, 2), Shape(0, Mark("decimal", 2), 2)},
                                     b \in FlowShapes, c \in FlowShapes, d \in FlowShapes}

-----------------------------------------------------------------------------
(* Aligned rows: five symbols beside their definitions, the first one aside by some *)
(* points, the last two further below, and another block between, in or around them. *)
RowText(id, box) == Region("text", box, <<Row(id, box, NoMark)>>, id, 80)
Symbol(i, aside, below) ==
  LET top == IF i > 3 THEN 12 * i + below ELSE 12 * i
      x == IF i = 1 THEN aside ELSE 0
  IN RowText(i, At(x, top, x + 10, top + 10))
Definition(i, below) ==
  LET top == IF i > 3 THEN 12 * i + below ELSE 12 * i
  IN RowText(5 + i, At(40, top, 90, top + 10))
Fused == RowText(11, At(0, 47, 90, 80))
Guests == {Fused, Region("text", At(20, 26, 35, 34), <<>>, 11, 80),
           Region("table", At(0, 10, 98, 120), <<>>, 11, 90)}
RowPages ==
  {[i \in 1..11 |-> IF i <= 5 THEN Symbol(i, aside, 38)
                    ELSE IF i <= 10 THEN Definition(i - 5, 38) ELSE guest] :
     aside \in {0, 2}, guest \in Guests}
  \cup {[i \in 1..10 |-> IF i <= 5 THEN Symbol(i, p[1], p[2]) ELSE Definition(i - 5, p[2])] :
          p \in {<<3, 0>>, <<0, 60>>}}

AllPages == OrderPages \cup MergePages \cup ListPages \cup RowPages \cup {<<>>}
Bibliography == {At(0, 38, 90, 52)}
=============================================================================
