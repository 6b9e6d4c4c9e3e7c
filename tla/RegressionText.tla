--------------------------- MODULE RegressionText ---------------------------
(***************************************************************************)
(* The text cells of the regression tools' box-drawn tables.  A text is the *)
(* sequence of its bytes, and of a byte only its role in UTF-8 is kept: n  *)
(* in 1..4 leads a code point of n bytes, 0 continues one.  The colours,   *)
(* which take no column, are left out.  Times are whole nanoseconds.       *)
(***************************************************************************)
LOCAL INSTANCE Integers
LOCAL INSTANCE Sequences
LOCAL INSTANCE SequencesExt

ITER_W == 11
VAL_W == 24
DELTA_W == 14
BAR_W == 10
DUR_W == 10

\* A text of n ASCII characters, and a box or block glyph of three bytes.
Ascii(n) == [i \in 1..n |-> 1]
Glyph == <<3, 0, 0>>

\* The columns of a text: its bytes that continue no code point.
displayWidth(text) == Len(SelectSeq(text, LAMBDA b : b # 0))

repeat(token, n) == FlattenSeq([i \in 1..n |-> token])

\* Spaces up to the width; a text that is too wide is left as it is.
padCell(text, width) ==
    IF displayWidth(text) >= width THEN text
    ELSE text \o Ascii(width - displayWidth(text))

\* The bytes that the walk over code points copies before it has cols of them.
Copied(text, cols) ==
    LET length(i) == IF text[i + 1] = 0 THEN 4 ELSE text[i + 1]
        step(i, k) == IF i >= Len(text) THEN i ELSE i + length(i)
        end == FoldLeft(step, 0, [k \in 1..cols |-> k])
    IN  IF end > Len(text) THEN Len(text) ELSE end

\* The bug to compare with: the cut leaves no column for the ellipsis.
truncateCellFull(text, width) ==
    IF width <= 0 THEN <<>>
    ELSE IF displayWidth(text) <= width THEN text
    ELSE SubSeq(text, 1, Copied(text, width)) \o Glyph

\* At most width columns: a text that is too wide ends in an ellipsis.
truncateCell(text, width) ==
    IF width <= 0 THEN <<>>
    ELSE IF displayWidth(text) <= width THEN text
    ELSE SubSeq(text, 1, Copied(text, width - 1)) \o Glyph

\* The cell of a name: a blank and the name, cut and padded to its column's width.
NameCell(text, width) == padCell(Ascii(1) \o truncateCell(text, width - 1), width)

-----------------------------------------------------------------------------
Digits(n) == CHOOSE d \in 1..9 : n < 10 ^ d /\ (d = 1 \/ n >= 10 ^ (d - 1))

Rounded(n, d) == (2 * n + d) \div (2 * d)

\* The characters of ns in a unit: two decimals, fewer from four digits on, and
\* from five digits on none and the last digits rounded away.
formatMagnitude(ns, unit) ==
    LET digits == Digits(ns \div unit)
        decimals == IF digits >= 5 THEN 0 ELSE IF digits = 4 THEN 1 ELSE 2
        factor == IF digits > 5 THEN 10 ^ (digits - 5) ELSE 1
        shown == Rounded(ns * 10 ^ decimals, unit * factor) * factor
    IN  Digits(shown \div 10 ^ decimals) + (IF decimals = 0 THEN 0 ELSE 1 + decimals)

formatDuration(ns) ==
    Ascii(CASE ns < 1000 -> Digits(ns) + 3
            [] ns >= 1000 /\ ns < 1000000 -> formatMagnitude(ns, 1000) + 3
            [] ns >= 1000000 /\ ns < 1000000000 -> formatMagnitude(ns, 1000000) + 3
            [] OTHER -> formatMagnitude(ns, 1000000000) + 2)

\* The bar of a value next to the larger of the two: full and light blocks.
bar(ns, maxNs) ==
    LET share == IF maxNs <= 0 THEN 0 ELSE Rounded(ns * BAR_W, maxNs)
        filled == IF share > BAR_W THEN BAR_W ELSE share
    IN  repeat(Glyph, filled) \o repeat(Glyph, BAR_W - filled)

ValueCell(ns, maxNs) ==
    padCell(Ascii(1) \o padCell(formatDuration(ns), DUR_W) \o Ascii(1) \o bar(ns, maxNs), VAL_W)

-----------------------------------------------------------------------------
\* pct = (bNs - cNs) / cNs * 100, and 0 when the baseline is 0; a current time
\* of 0 makes it infinite.

\* |pct| < NOISE_THRESHOLD
Noise(bNs, cNs) ==
    bNs = 0 \/ (cNs # 0 /\ 100 * (IF bNs > cNs THEN bNs - cNs ELSE cNs - bNs) < cNs)

Faster(bNs, cNs) == ~Noise(bNs, cNs) /\ bNs > cNs
Slower(bNs, cNs) == ~Noise(bNs, cNs) /\ bNs < cNs

\* A blank, the arrow, and the signed percentage with one decimal ("+inf%").
DeltaCell(bNs, cNs) ==
    LET tenths == Rounded(1000 * (IF bNs > cNs THEN bNs - cNs ELSE cNs - bNs), cNs)
        percent == IF bNs = 0 \/ cNs = 0 THEN 5 ELSE Digits(tenths \div 10) + 4
    IN  padCell(Ascii(1) \o Glyph \o Ascii(1) \o Ascii(percent), DELTA_W)

\* The label of an iteration tier.
convertIter(iter) == CASE iter = 10000 -> Ascii(3)
                       [] iter = 100000 -> Ascii(4)
                       [] OTHER -> Ascii(2)
=============================================================================
