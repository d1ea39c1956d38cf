---------------------------- MODULE PixelsProofs ----------------------------
(* Where SetDIBits finds the colours of a picture, for every size.         *)
EXTENDS Pixels, TLAPS

-----------------------------------------------------------------------------
(* Quotients and remainders.                                               *)

(* An offset y * s + r lies in row y, r bytes behind its beginning.        *)
LEMMA RowOf ==
  ASSUME NEW s \in Nat \ {0}, NEW y \in Nat, NEW r \in 0 .. s - 1
  PROVE  (y * s + r) \div s = y /\ (y * s + r) % s = r
<1>1. (y * s + r) \div s = y
  BY Z3
<1>2. (y * s + r) % s = r
  BY Z3
<1> QED
  BY <1>1, <1>2

(* Every number is a row and a column.                                     *)
LEMMA Split ==
  ASSUME NEW s \in Nat \ {0}, NEW n \in Nat
  PROVE  \E y \in Nat, r \in 0 .. s - 1 : n = y * s + r
<1>1. n \div s \in Nat /\ n % s \in 0 .. s - 1
  BY Z3
<1>2. n = s * (n \div s) + (n % s)
  BY Z3
<1>3. s * (n \div s) = (n \div s) * s
  BY <1>1, Z3
<1> QED
  BY <1>1, <1>2, <1>3

(* Ceil rounds up to the next multiple.                                    *)
LEMMA CeilBounds ==
  ASSUME NEW a \in Nat \ {0}, NEW n \in Nat
  PROVE  /\ Ceil(n, a) \in Nat
         /\ n <= a * Ceil(n, a) /\ a * Ceil(n, a) <= n + a - 1
<1>1. PICK y \in Nat, r \in 0 .. a - 1 : n + a - 1 = y * a + r
  <2>1. n + a - 1 \in Nat
    OBVIOUS
  <2> QED
    BY <2>1, Split
<1>2. Ceil(n, a) = y
  BY <1>1, RowOf DEF Ceil
<1>3. y * a \in Nat /\ a * y = y * a
  BY Z3
<1> QED
  BY <1>1, <1>2, <1>3

(* The rows of a DIB: the least multiple of four that holds a row.         *)
LEMMA DibBounds ==
  ASSUME NEW w \in Nat
  PROVE  /\ DibStride(w) \in Nat /\ DibStride(w) % 4 = 0
         /\ 3 * w <= DibStride(w) /\ DibStride(w) <= 3 * w + 3
<1>1. /\ Ceil(3 * w, 4) \in Nat
      /\ 3 * w <= 4 * Ceil(3 * w, 4) /\ 4 * Ceil(3 * w, 4) <= 3 * w + 4 - 1
  BY CeilBounds
<1> QED
  BY <1>1 DEF DibStride

(* A multiple of a multiple of four is one too.                            *)
LEMMA FourDivides ==
  ASSUME NEW a \in Nat, NEW q \in Nat, a % 4 = 0
  PROVE  a * q \in Nat /\ (a * q) % 4 = 0
<1>1. PICK b \in Nat : a = 4 * b
  <2>1. a \div 4 \in Nat /\ a = 4 * (a \div 4)
    BY Z3
  <2> QED
    BY <2>1
<1>2. a * q = 4 * (b * q) /\ b * q \in Nat
  BY <1>1, Z3
<1>3. PICK t \in Nat, u \in Nat : t = b * q /\ u = a * q
  BY <1>2
<1>4. u = 4 * t
  BY <1>2, <1>3
<1>5. u % 4 = 0
  BY <1>4
<1> QED
  BY <1>3, <1>5

(* The padded rows of a frame, counted in pixels.                          *)
LEMMA FrameBounds ==
  ASSUME NEW w \in Nat
  PROVE  \E p \in Nat : /\ FrameStride(w) = 3 * p /\ p % 4 = 0
                        /\ w <= p /\ p <= w + Align - 1
                        /\ \E q \in Nat : p = q * Align
<1>1. Align \in Nat \ {0} /\ Align % 4 = 0
  BY AlignAssumption
<1>2. PICK q \in Nat : q = Ceil(w, Align) /\ w <= Align * q /\ Align * q <= w + Align - 1
  BY <1>1, CeilBounds
<1>3. Align * q \in Nat /\ (Align * q) % 4 = 0
  BY <1>1, FourDivides
<1>4. Align * q = q * Align
  BY <1>1, Z3
<1>5. FrameStride(w) = 3 * (Align * q)
  BY <1>2 DEF FrameStride
<1> QED
  BY <1>2, <1>3, <1>4, <1>5

-----------------------------------------------------------------------------
(* The two strides.                                                        *)

SizeOK ==
  kind \in {"image", "video", "end"} /\ width \in Nat \ {0} /\ height \in Nat \ {0}

(* The rows begin at the same offsets exactly for the widths of Agreed.    *)
LEMMA StridesAgree ==
  ASSUME SizeOK
  PROVE  /\ Stride \in Nat /\ 3 * width <= Stride
         /\ Agreed <=> DibStride(width) = Stride
         /\ kind # "image" => DibStride(width) <= Stride
<1>1. /\ DibStride(width) \in Nat /\ DibStride(width) % 4 = 0
      /\ 3 * width <= DibStride(width) /\ DibStride(width) <= 3 * width + 3
  BY DibBounds DEF SizeOK
<1>2. CASE kind = "image"
  <2>1. Stride = 3 * width
    BY <1>2 DEF Stride, ImageStride
  <2>2. width % 4 = 0 <=> DibStride(width) = 3 * width
    BY <1>1 DEF SizeOK
  <2> QED
    BY <1>2, <2>1, <2>2 DEF SizeOK, Agreed
<1>3. CASE kind # "image"
  <2>1. PICK p \in Nat : /\ FrameStride(width) = 3 * p /\ p % 4 = 0
                         /\ width <= p /\ p <= width + Align - 1
                         /\ \E q \in Nat : p = q * Align
    BY FrameBounds DEF SizeOK
  <2>2. PICK q \in Nat : p = q * Align
    BY <2>1
  <2>3. Stride = 3 * p
    BY <1>3, <2>1 DEF Stride
  <2>4. DibStride(width) <= 3 * p
    BY <1>1, <2>1 DEF SizeOK
  <2>5. DibStride(width) = 3 * p <=> p \in {width, width + 1}
    BY <1>1, <2>1 DEF SizeOK
  <2>6. p \in {width, width + 1} <=> width % Align \in {0, Align - 1}
    <3>1. Align \in Nat /\ Align > 1
      BY AlignAssumption
    <3>2. CASE p = width
      <4>1. width % Align = 0
        <5>1. width = q * Align + 0
          BY <2>2, <3>1, <3>2 DEF SizeOK
        <5> QED
          BY <3>1, <5>1, RowOf
      <4> QED
        BY <3>2, <4>1
    <3>3. CASE p > width
      <4>1. PICK k \in Nat : k = q - 1
        <5>1. q # 0
          BY <2>2, <3>1, <3>3 DEF SizeOK
        <5> QED
          BY <5>1
      <4>2. q * Align = k * Align + Align /\ k * Align \in Nat
        BY <3>1, <4>1, Z3
      <4>3. PICK r \in Nat : r = width - k * Align
        BY <2>1, <2>2, <3>1, <4>2 DEF SizeOK
      <4>4. r \in 1 .. Align - 1 /\ width = k * Align + r /\ p = width + (Align - r)
        BY <2>1, <2>2, <3>1, <3>3, <4>2, <4>3 DEF SizeOK
      <4>5. width % Align = r
        BY <3>1, <4>4, RowOf
      <4> QED
        BY <3>1, <3>3, <4>4, <4>5 DEF SizeOK
    <3> QED
      BY <2>1, <3>2, <3>3 DEF SizeOK
  <2> QED
    BY <1>3, <2>1, <2>3, <2>4, <2>5, <2>6 DEF SizeOK, Agreed
<1> QED
  BY <1>2, <1>3 DEF SizeOK

-----------------------------------------------------------------------------
(* What is found at an offset.                                             *)

(* The bytes of a colour, of padding and of nothing are told apart.        *)
LEMMA BytesDiffer ==
  /\ Padding # Beyond
  /\ \A x, y, ch : Colour(x, y, ch) # Beyond /\ Colour(x, y, ch) # Padding
<1>1. Padding[1] # Beyond[1]
  BY DEF Padding, Beyond
<1>2. \A x, y, ch : Len(Colour(x, y, ch)) = 3
  BY DEF Colour
<1>3. Len(Padding) = 1 /\ Len(Beyond) = 1
  BY DEF Padding, Beyond
<1> QED
  BY <1>1, <1>2, <1>3

(* r bytes behind the beginning of row y the client stored a colour.       *)
LEMMA ColourFound ==
  ASSUME SizeOK, NEW y \in Nat, y < DataRows,
         NEW x \in 0 .. width - 1, NEW ch \in 0 .. 2,
         NEW o, o = y * Stride + (3 * x + ch)
  PROVE  DataAt(o) = Colour(x, y, ch)
<1>1. Stride \in Nat /\ 3 * width <= Stride
  BY StridesAgree
<1>2. PICK r \in Nat : r = 3 * x + ch
  BY DEF SizeOK
<1>3. r < 3 * width /\ r \div 3 = x /\ r % 3 = ch
  BY <1>2 DEF SizeOK
<1>4. Stride \in Nat \ {0} /\ r \in 0 .. Stride - 1
  BY <1>1, <1>2, <1>3 DEF SizeOK
<1>5. o = y * Stride + r
  BY <1>2
<1>6. o \div Stride = y /\ o % Stride = r
  BY <1>4, <1>5, RowOf
<1>7. DataRows \in Nat
  BY DEF DataRows, SizeOK
<1> QED
  BY <1>3, <1>6, <1>7 DEF DataAt, SizeOK

(* Before the end of the last row of the data there is always something.   *)
LEMMA SomethingFound ==
  ASSUME SizeOK, NEW y \in Nat, y < DataRows,
         NEW o \in Nat, o < (y + 1) * Stride
  PROVE  DataAt(o) # Beyond
<1>1. Stride \in Nat \ {0}
  BY StridesAgree DEF SizeOK
<1>2. PICK q \in Nat, r \in 0 .. Stride - 1 : o = q * Stride + r
  BY <1>1, Split
<1>3. o \div Stride = q
  BY <1>1, <1>2, RowOf
<1>4. q < y + 1
  <2>1. SUFFICES ASSUME q >= y + 1 PROVE FALSE
    OBVIOUS
  <2>2. PICK k \in Nat : q = (y + 1) + k
    BY <2>1
  <2>3. q * Stride = (y + 1) * Stride + k * Stride
    BY <1>1, <2>2, Z3
  <2>4. k * Stride \in Nat /\ (y + 1) * Stride \in Nat /\ q * Stride \in Nat
    BY <1>1, Z3
  <2> QED
    BY <1>1, <1>2, <2>3, <2>4
<1>5. DataRows \in Nat /\ ~(q >= DataRows)
  BY <1>4 DEF DataRows, SizeOK
<1> QED
  BY <1>3, <1>5, BytesDiffer DEF DataAt

-----------------------------------------------------------------------------
(* What SetDIBits has copied.                                              *)

CopiedRow(y) ==
  [x \in 1 .. width |-> BgrAt(TopDown(y) * DibStride(width) + 3 * (x - 1))]

CopyInv ==
  /\ SizeOK
  /\ row \in Nat /\ row <= height
  /\ bitmap \in Seq({ CopiedRow(y) : y \in Nat }) /\ Len(bitmap) = row
  /\ \A y \in 1 .. row : bitmap[y] = CopiedRow(y - 1)

(* The rows of the bitmap are those SetDIBits looked up, in their order.   *)
LEMMA CopySafe == Spec => []CopyInv
<1>1. Init => CopyInv
  <2> SUFFICES ASSUME Init PROVE CopyInv
    OBVIOUS
  <2>1. SizeOK /\ height \in Nat
    <3>1. PICK s \in Sizes : width = s[1] /\ height = s[2]
      BY DEF Init
    <3>2. s[1] \in Nat \ {0} /\ s[2] \in Nat \ {0}
      BY SizesAssumption
    <3> QED
      BY <3>1, <3>2 DEF Init, SizeOK
  <2>2. bitmap \in Seq({ CopiedRow(y) : y \in Nat }) /\ Len(bitmap) = 0
    BY DEF Init
  <2> QED
    BY <2>1, <2>2 DEF Init, CopyInv
<1>2. CopyInv /\ [Next]_vars => CopyInv'
  <2> SUFFICES ASSUME CopyInv, CopyRow \/ UNCHANGED vars PROVE CopyInv'
    BY DEF Next, Drawn
  <2>1. kind' = kind /\ width' = width /\ height' = height
    BY DEF CopyRow, vars
  <2>2. SizeOK'
    BY <2>1 DEF CopyInv, SizeOK
  <2>3. ASSUME NEW y PROVE CopiedRow(y)' = CopiedRow(y)
    BY <2>1 DEF CopiedRow, BgrAt, DataAt, DataRows, Stride
  <2>4. { CopiedRow(y) : y \in Nat }' = { CopiedRow(y) : y \in Nat }
    BY <2>3
  <2>5. CASE UNCHANGED vars
    BY <2>2, <2>3, <2>4, <2>5 DEF CopyInv, vars
  <2>6. CASE CopyRow
    <3> DEFINE S == { CopiedRow(y) : y \in Nat }
               e == CopiedRow(row)
    <3>1. row < height /\ bitmap' = Append(bitmap, e) /\ row' = row + 1
      BY <2>6 DEF CopyRow, CopiedRow
    <3>2. bitmap \in Seq(S) /\ Len(bitmap) = row /\ row \in Nat
      BY DEF CopyInv
    <3>3. e \in S
      BY <3>2
    <3>4. \A y \in 1 .. row : bitmap[y] = CopiedRow(y - 1)
      BY DEF CopyInv
    <3> HIDE DEF S, e
    <3>5. /\ bitmap' \in Seq(S) /\ Len(bitmap') = row + 1
          /\ \A y \in 1 .. row : bitmap'[y] = bitmap[y]
          /\ bitmap'[row + 1] = e
      BY <3>1, <3>2, <3>3
    <3>6. ASSUME NEW y \in 1 .. row + 1 PROVE bitmap'[y] = CopiedRow(y - 1)
      <4>1. CASE y \in 1 .. row
        BY <3>4, <3>5, <4>1
      <4>2. CASE y = row + 1
        BY <3>2, <3>5, <4>2 DEF e
      <4> QED
        BY <3>2, <4>1, <4>2
    <3>7. row' \in Nat /\ row' <= height'
      BY <2>1, <2>2, <3>1, <3>2 DEF SizeOK
    <3>8. bitmap' \in Seq({ CopiedRow(y) : y \in Nat })'
      BY <2>4, <3>5 DEF S
    <3>9. \A y \in 1 .. row' : bitmap'[y] = CopiedRow(y - 1)'
      BY <2>3, <3>1, <3>6
    <3> QED
      BY <2>2, <3>1, <3>5, <3>7, <3>8, <3>9 DEF CopyInv
  <2> QED
    BY <2>5, <2>6
<1> QED
  BY <1>1, <1>2, PTL DEF Spec

(* Where SetDIBits looks for the bytes of a pixel.                         *)
LEMMA CopiedPixel ==
  ASSUME CopyInv, NEW y \in 1 .. row, NEW x \in 1 .. width
  PROVE  /\ bitmap[y][x] = BgrAt((y - 1) * DibStride(width) + 3 * (x - 1))
         /\ y - 1 \in Nat /\ y - 1 < height /\ x - 1 \in 0 .. width - 1
<1>1. bitmap[y] = CopiedRow(y - 1)
  BY DEF CopyInv
<1>2. y - 1 \in Nat /\ y - 1 < height /\ x - 1 \in 0 .. width - 1
  BY DEF CopyInv, SizeOK
<1> QED
  BY <1>1, <1>2 DEF CopiedRow, TopDown

-----------------------------------------------------------------------------
(* In pictures of the widths for which both programs begin rows alike, and *)
(* in the first row of all others, each pixel SetDIBits draws is made of   *)
(* its own three bytes.                                                    *)
THEOREM RowsPlacedSafe == Spec => []RowsPlaced
<1>1. CopyInv => RowsPlaced
  <2> SUFFICES ASSUME CopyInv, kind # "end",
                      NEW y \in 1 .. row, NEW x \in 1 .. width,
                      Agreed \/ y = 1
               PROVE  { bitmap[y][x][i] : i \in 1 .. 3 } =
                      { Colour(x - 1, y - 1, channel) : channel \in {Red, Green, Blue} }
    BY DEF RowsPlaced
  <2>1. SizeOK /\ DataRows = height
    BY DEF CopyInv, DataRows
  <2>2. PICK b \in Nat : b = (y - 1) * Stride /\ b = (y - 1) * DibStride(width)
    <3>1. Stride \in Nat /\ DibStride(width) \in Nat
      BY <2>1, StridesAgree, DibBounds DEF SizeOK
    <3>2. CASE y = 1
      BY <3>1, <3>2
    <3>3. CASE Agreed
      <4>1. DibStride(width) = Stride
        BY <2>1, <3>3, StridesAgree
      <4>2. y - 1 \in Nat
        BY CopiedPixel
      <4>3. (y - 1) * Stride \in Nat
        BY <3>1, <4>2
      <4> QED
        BY <4>1, <4>3
    <3> QED
      BY <3>2, <3>3
  <2>3. /\ bitmap[y][x] = BgrAt(b + 3 * (x - 1))
        /\ y - 1 \in Nat /\ y - 1 < DataRows /\ x - 1 \in 0 .. width - 1
    BY <2>1, <2>2, CopiedPixel
  <2>4. ASSUME NEW ch \in 0 .. 2
        PROVE  DataAt(b + 3 * (x - 1) + ch) = Colour(x - 1, y - 1, ch)
    <3>1. b + 3 * (x - 1) + ch = (y - 1) * Stride + (3 * (x - 1) + ch)
      BY <2>2, <2>3
    <3> QED
      BY <2>1, <2>3, <3>1, ColourFound
  <2>5. /\ DataAt(b + 3 * (x - 1) + 2) = Colour(x - 1, y - 1, 2)
        /\ DataAt(b + 3 * (x - 1) + 1) = Colour(x - 1, y - 1, 1)
        /\ DataAt(b + 3 * (x - 1) + 0) = Colour(x - 1, y - 1, 0)
    BY <2>4
  <2>6. b + 3 * (x - 1) + 0 = b + 3 * (x - 1)
    BY <2>2, <2>3
  <2>7. /\ bitmap[y][x][1] = Colour(x - 1, y - 1, 2)
        /\ bitmap[y][x][2] = Colour(x - 1, y - 1, 1)
        /\ bitmap[y][x][3] = Colour(x - 1, y - 1, 0)
    BY <2>3, <2>5, <2>6 DEF BgrAt
  <2>8. { bitmap[y][x][i] : i \in 1 .. 3 } =
        { bitmap[y][x][1], bitmap[y][x][2], bitmap[y][x][3] }
    <3>1. 1 .. 3 = {1, 2, 3}
      OBVIOUS
    <3> QED
      BY <3>1
  <2> QED
    BY <2>7, <2>8 DEF Red, Green, Blue
<1> QED
  BY <1>1, CopySafe, PTL

(* SetDIBits stays inside the data of every frame but the final one, and   *)
(* of every image of a width both sides agree on.                          *)
THEOREM NothingBeyondSafe == Spec => []NothingBeyond
<1>1. CopyInv => NothingBeyond
  <2> SUFFICES ASSUME CopyInv, kind = "video" \/ (kind = "image" /\ Agreed),
                      NEW y \in 1 .. row, NEW x \in 1 .. width,
                      NEW i \in 1 .. 3
               PROVE  bitmap[y][x][i] # Beyond
    BY DEF NothingBeyond
  <2>1. SizeOK /\ DataRows = height
    BY DEF CopyInv, DataRows
  <2>2. /\ Stride \in Nat /\ DibStride(width) \in Nat
        /\ 3 * width <= Stride /\ DibStride(width) <= Stride
    BY <2>1, StridesAgree, DibBounds DEF SizeOK
  <2>3. PICK n \in Nat : n = y - 1 /\ n < DataRows
    BY <2>1, CopiedPixel
  <2>4. PICK b \in Nat : b = n * DibStride(width) /\ b <= n * Stride
    <3>1. n * DibStride(width) \in Nat
      BY <2>2
    <3>2. PICK d \in Nat : Stride = DibStride(width) + d
      <4>1. Stride - DibStride(width) \in Nat
        BY <2>2
      <4>2. Stride = DibStride(width) + (Stride - DibStride(width))
        BY <2>2
      <4> QED
        BY <4>1, <4>2
    <3>3. n * Stride = n * DibStride(width) + n * d /\ n * d \in Nat
      BY <2>2, <3>2, Z3
    <3> QED
      BY <3>1, <3>3
  <2>5. /\ bitmap[y][x] = BgrAt(b + 3 * (x - 1))
        /\ x - 1 \in 0 .. width - 1
    BY <2>3, <2>4, CopiedPixel
  <2>6. ASSUME NEW ch \in 0 .. 2
        PROVE  DataAt(b + 3 * (x - 1) + ch) # Beyond
    <3>1. (n + 1) * Stride = n * Stride + Stride /\ n * Stride \in Nat
      BY <2>2, Z3
    <3>2. b + 3 * (x - 1) + ch \in Nat /\ b + 3 * (x - 1) + ch < (n + 1) * Stride
      BY <2>1, <2>2, <2>4, <2>5, <3>1 DEF SizeOK
    <3> QED
      BY <2>1, <2>3, <3>2, SomethingFound
  <2>7. /\ DataAt(b + 3 * (x - 1) + 2) # Beyond
        /\ DataAt(b + 3 * (x - 1) + 1) # Beyond
        /\ DataAt(b + 3 * (x - 1) + 0) # Beyond
    BY <2>6
  <2>8. b + 3 * (x - 1) + 0 = b + 3 * (x - 1)
    BY <2>4, <2>5
  <2> QED
    BY <2>5, <2>7, <2>8 DEF BgrAt
<1> QED
  BY <1>1, CopySafe, PTL
=============================================================================
