------------------------------ MODULE Matches ------------------------------
(* The boxes a look at the screen comes to (AutoScriptor/core/box.py and     *)
(* recognition/locate.py): the raw matches of a template or a text are made  *)
(* boxes of the frame, those that say the same twice are merged, those       *)
(* outside the target's own region or of the wrong colour are dropped; and   *)
(* a box that is left is shifted and resized, and tapped near its centre.    *)
(* A box is <<left, top, width, height>>, in pixels.                         *)
EXTENDS Integers, SequencesExt

CONSTANTS
    Raw,            \* the boxes a match may have within the region that was searched
    Region,         \* the target's region, which is also what was searched
    Frame,          \* the size of the frame: <<width, height>>
    Deltas,         \* the offsets and sizes asked for: [offset |-> <<x, y>>, resize |-> <<w, h>>]
    Painted,        \* the boxes of the frame that have the colour asked for
    MaxMatches      \* bound: raw matches of one look

VARIABLES
    raw,            \* the matches of the look so far, as they were appended
    boxes           \* what the look came to, once it is over

vars == <<raw, boxes>>

Left(b) == b[1]
Top(b) == b[2]
Width(b) == b[3]
Height(b) == b[4]
Right(b) == Left(b) + Width(b)
Bottom(b) == Top(b) + Height(b)
Area(b) == Width(b) * Height(b)

Greater(x, y) == IF x > y THEN x ELSE y
Smaller(x, y) == IF x < y THEN x ELSE y

\* A width or a height that is not given is -1, which is made one more than the frame's.
MakeBox(l, t, w, h) ==
    <<l, t, IF w >= 0 THEN w ELSE Frame[1] - w, IF h >= 0 THEN h ELSE Frame[2] - h>>

Center(b) == <<Left(b) + Width(b) \div 2, Top(b) + Height(b) \div 2>>

Inside(b, c) ==
    Left(b) >= Left(c) /\ Top(b) >= Top(c) /\ Right(b) <= Right(c) /\ Bottom(b) <= Bottom(c)

Intersection(b, c) ==
    LET l == Greater(Left(b), Left(c))
        t == Greater(Top(b), Top(c))
        r == Smaller(Right(b), Right(c))
        u == Smaller(Bottom(b), Bottom(c))
    IN  IF l >= r \/ t >= u THEN <<0, 0, 0, 0>> ELSE <<l, t, r - l, u - t>>

\* The overlap is more than so many percent of the smaller of the two.
Overlaps(b, c, percent) ==
    LET common == Intersection(b, c)
    IN  Area(common) > 0 /\ 100 * Area(common) > percent * Smaller(Area(b), Area(c))

\* The centres are less than so many pixels apart.
Near(b, c, pixels) ==
    LET x == Center(b)[1] - Center(c)[1]
        y == Center(b)[2] - Center(c)[2]
    IN  x * x + y * y < pixels * pixels

\* Two looks saw the same box: what they share is more than three quarters of what they cover.
Similar(b, c) ==
    LET common == Area(Intersection(b, c))
        union == Area(b) + Area(c) - common
    IN  union # 0 /\ 4 * common > 3 * union

-----------------------------------------------------------------------------
\* imgOnScreen: what overlaps by 30 percent, or is within 3 pixels, says the same twice.
Same(b, c) == Overlaps(b, c, 30) \/ Near(b, c, 3)

Above(b, c) == Top(b) < Top(c) \/ (Top(b) = Top(c) /\ Left(b) <= Left(c))

\* Mutant: a match is compared with the one before it only.
MergeNeighbours(found) ==
    FoldLeft(LAMBDA kept, b : IF kept # <<>> /\ Same(b, Last(kept)) THEN kept ELSE Append(kept, b),
             <<>>, SortSeq(found, Above))

\* From the top, and from the left in a row, a box is kept that repeats none of those kept.
Merge(found) ==
    FoldLeft(LAMBDA kept, b : IF \E i \in DOMAIN kept : Same(b, kept[i]) THEN kept ELSE Append(kept, b),
             <<>>, SortSeq(found, Above))

\* locate_on_screen: the boxes of the region searched are moved to the frame, those that stick out
\* of the region are dropped, and of the rest, if a colour is asked for, those of another.
ToFullFrame(b, region) == MakeBox(Left(b) + Left(region), Top(b) + Top(region), Width(b), Height(b))
InRegion(b) == Inside(b, Region)
OnScreen(found) ==
    LET full == [i \in DOMAIN found |-> ToFullFrame(found[i], Region)]
    IN  SelectSeq(SelectSeq(full, InRegion), LAMBDA b : b \in Painted)

-----------------------------------------------------------------------------
\* A box moved by an offset and, where a size is asked for, resized; and the delta between two.
With(b, d) ==
    MakeBox(Left(b) + d.offset[1], Top(b) + d.offset[2],
            IF d.resize[1] > 0 THEN d.resize[1] ELSE Width(b),
            IF d.resize[2] > 0 THEN d.resize[2] ELSE Height(b))
Minus(b, c) ==
    [offset |-> <<Left(b) - Left(c), Top(b) - Top(c)>>,
     resize |-> <<IF Width(b) # Width(c) THEN Width(b) ELSE -1,
                  IF Height(b) # Height(c) THEN Height(b) ELSE -1>>]

\* Where a tap may land: a random sixth of the box to either side of the centre.  Rounded down,
\* the sixth to the left is the longer.
Reach(size) == ((-size) \div 6)..(size \div 6)
Taps(b) == {<<Center(b)[1] + x, Center(b)[2] + y>> : x \in Reach(Width(b)), y \in Reach(Height(b))}

\* A margin around a box, as far as the frame goes.
Margin(b, pixels) ==
    LET l == Greater(0, Left(b) - pixels)
        t == Greater(0, Top(b) - pixels)
        r == Smaller(Frame[1], Right(b) + pixels)
        u == Smaller(Frame[2], Bottom(b) + pixels)
    IN  MakeBox(l, t, Greater(0, r - l), Greater(0, u - t))

\* The cell of a row in which a box has its centre: the first there is, 0 if there is none.
Holds(c, b) ==
    /\ Left(c) <= Center(b)[1] /\ Center(b)[1] < Right(c)
    /\ Top(c) <= Center(b)[2] /\ Center(b)[2] < Bottom(c)
CellOf(b, row) == SelectInSeq(row, LAMBDA c : Holds(c, b))

\* The part of the frame a box covers, none if it lies outside.
Crop(b) ==
    LET l == Greater(0, Left(b))
        t == Greater(0, Top(b))
        r == Smaller(Frame[1], Right(b))
        u == Smaller(Frame[2], Bottom(b))
    IN  IF r <= l \/ u <= t THEN <<>> ELSE <<l, t, r - l, u - t>>

\* The part of a line of text that a word of it takes, from its s-th letter of n up to its e-th.
Span(b, n, s, e) ==
    LET from == Left(b) + (Width(b) * s) \div n
        to == Left(b) + (Width(b) * e) \div n
    IN  MakeBox(from, Top(b), Greater(1, to - from), Height(b))

\* Rows of boxes are read as one list and given back as rows of the same lengths.
Restore(values, rows) ==
    [r \in DOMAIN rows |->
        LET before == FoldLeft(LAMBDA n, row : n + Len(row), 0, SubSeq(rows, 1, r - 1))
        IN  SubSeq(values, before + 1, before + Len(rows[r]))]

-----------------------------------------------------------------------------
Init == raw = <<>> /\ boxes = <<>>

\* The template, at one of its scales, matches once more.
Match(b) ==
    /\ boxes = <<>> /\ Len(raw) < MaxMatches
    /\ raw' = Append(raw, b)
    /\ UNCHANGED boxes

\* All scales have been tried.
Come ==
    /\ boxes = <<>> /\ boxes' = OnScreen(Merge(raw))
    /\ UNCHANGED raw

\* The next look; and a task goes on from a box it has found, by an offset or a size.
Again == boxes # <<>> /\ raw' = <<>> /\ boxes' = <<>>
Shift(d) ==
    /\ Len(boxes) = 1 /\ boxes' = <<With(boxes[1], d)>> /\ boxes' # boxes
    /\ \A i \in 1..2 : boxes'[1][i] \in 0..Frame[i]
    /\ UNCHANGED raw

Next == (\E b \in Raw : Match(b)) \/ Come \/ Again \/ (\E d \in Deltas : Shift(d))

Spec == Init /\ [][Next]_vars

-----------------------------------------------------------------------------
Found == ToSet(boxes)
Matched == ToSet(raw)

\* The matches are boxes of the region searched, and a look comes to boxes.
TypeOK == raw \in Seq(Raw) /\ \A b \in Found : Len(b) = 4

\* Merging loses no match and repeats none: every raw match is kept or says the same as one
\* that was kept, no two that are kept say the same, and the order is from the top.
MergeIsSound ==
    LET kept == Merge(raw) IN
    /\ ToSet(kept) \subseteq Matched
    /\ \A b \in Matched : \E i \in DOMAIN kept : b = kept[i] \/ Same(b, kept[i])
    /\ \A i, j \in DOMAIN kept : i < j => ~Same(kept[j], kept[i]) /\ Above(kept[i], kept[j])

\* A tap lands in its box, if that is two pixels wide and high at least, and a look that saw a
\* similar box taps, at the centre, what the first look saw.
TapsLand ==
    \A b \in Found :
        /\ Width(b) > 1 /\ Height(b) > 1 =>
              \A p \in Taps(b) : /\ Left(b) <= p[1] /\ p[1] < Right(b)
                                 /\ Top(b) <= p[2] /\ p[2] < Bottom(b)
        /\ \A c \in Matched : Similar(b, c) => Similar(c, b) /\ Holds(b, c)
        /\ \A c \in Found : CellOf(c, boxes) # 0 <=> \E i \in DOMAIN boxes : Holds(boxes[i], c)

\* The difference of two boxes takes the one to the other, if none is empty; a margin neither
\* leaves the frame nor loses what of the box is in it; and the parts the two have in common are
\* in both.
DeltasAgree ==
    \A b, c \in Found \cup Matched :
        /\ Area(b) > 0 => With(c, Minus(b, c)) = b
        /\ Area(Intersection(b, c)) > 0 =>
              Inside(Intersection(b, c), b) /\ Inside(Intersection(b, c), c)
        /\ Crop(b) # <<>> => /\ Inside(Crop(b), Margin(b, 1)) /\ Inside(Crop(b), b)
                             /\ Inside(Margin(b, 1), <<0, 0, Frame[1], Frame[2]>>)

\* A word lies in its line, and apart from the word that follows it if the line has a pixel for
\* each letter; what was read comes back in the rows it was asked for in, and in order.
PartsFit ==
    \A b \in Found :
        /\ \A n \in 1..3 : \A s \in 0..n - 1 : \A e \in s + 1..n : Width(b) > 0 =>
              /\ Inside(Span(b, n, s, e), b)
              /\ e < n /\ Width(b) >= n => Right(Span(b, n, s, e)) <= Left(Span(b, n, e, n))
        /\ \A cut \in 0..Len(raw) :
              LET rows == <<SubSeq(raw, 1, cut), <<>>, SubSeq(raw, cut + 1, Len(raw))>>
              IN  Restore(FlattenSeq(rows), rows) = rows

\* What a look comes to, and what is made of it.
MatchesAreSound == TypeOK /\ MergeIsSound /\ TapsLand /\ DeltasAgree /\ PartsFit
=============================================================================
