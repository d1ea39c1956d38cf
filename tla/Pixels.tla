------------------------------- MODULE Pixels -------------------------------
(***************************************************************************)
(* Where the colours of a picture are in the bytes the client sends        *)
(* (proto.rs for an image, video.rs for a frame), and where SetDIBits, as  *)
(* renderer.cpp calls it, looks for them.  The copy is taken a row at a    *)
(* time.  The sizes are what the client's message says.                    *)
(***************************************************************************)
EXTENDS Integers, Sequences

CONSTANTS
  Align,  (* the pixels FFmpeg pads the rows of a frame to: 32             *)
  Sizes   (* bound: the widths and heights of pictures, as pairs           *)

ASSUME AlignAssumption == Align \in Nat \ {0} /\ Align % 4 = 0
ASSUME SizesAssumption == Sizes \subseteq (Nat \ {0}) \X (Nat \ {0})

VARIABLES
  kind,           (* image, video (a frame), end (the final frame)         *)
  width, height,  (* the picture's size                                    *)
  row,            (* how many rows SetDIBits has copied                    *)
  bitmap          (* the bitmap: for each pixel copied its red, green, blue *)

vars == << kind, width, height, row, bitmap >>

(* A byte is named after what the client stored in it: the colour of a     *)
(* pixel of the picture, padding behind a row, or nothing, because the     *)
(* data ends before it.                                                    *)
Red == 0
Green == 1
Blue == 2
Colour(x, y, channel) == << x, y, channel >>
Padding == << "padding" >>
Beyond == << "beyond" >>

Ceil(a, b) == (a + b - 1) \div b

(* to_rgb8 and into_raw leave nothing between the rows of an image.  A     *)
(* frame that FFmpeg allocated is sent with its padding (data(0) is the    *)
(* whole plane).  Mutant: only the pixels of a frame are sent.             *)
ImageStride(w) == 3 * w
TightStride(w) == 3 * w
FrameStride(w) == 3 * (Align * Ceil(w, Align))

Stride == IF kind = "image" THEN ImageStride(width) ELSE FrameStride(width)

(* The final frame has the video's size and no data.                       *)
DataRows == IF kind = "end" THEN 0 ELSE height

(* The rows of a 24-bit DIB begin at multiples of four bytes.              *)
DibStride(w) == 4 * Ceil(3 * w, 4)

(* What the client stored at an offset.                                    *)
DataAt(o) ==
  LET y == o \div Stride
      r == o % Stride
  IN  IF y >= DataRows THEN Beyond
      ELSE IF r >= 3 * width THEN Padding
      ELSE Colour(r \div 3, y, r % 3)

(* A pixel of a DIB is blue, green, red.                                   *)
BgrAt(o) == << DataAt(o + 2), DataAt(o + 1), DataAt(o) >>

Init ==
  /\ kind \in {"image", "video", "end"}
  /\ \E s \in Sizes : width = s[1] /\ height = s[2]
  /\ row = 0 /\ bitmap = <<>>

(* Mutant: the rows are those of a bottom-up DIB.                          *)
LastRowFirst(y) == height - 1 - y
TopDown(y) == y

(* SetDIBits copies a row.                                                 *)
CopyRow ==
  /\ row < height
  /\ bitmap' = Append(bitmap, [x \in 1 .. width |->
                 BgrAt(TopDown(row) * DibStride(width) + 3 * (x - 1))])
  /\ row' = row + 1
  /\ UNCHANGED << kind, width, height >>

Drawn == row = height /\ UNCHANGED vars

Next == CopyRow \/ Drawn

Spec == Init /\ [][Next]_vars

-----------------------------------------------------------------------------
(***************************************************************************)
(* Properties.                                                             *)
(***************************************************************************)

(* The widths for which the two programs agree where a row begins: every   *)
(* fourth for an image; for a frame every one FFmpeg does not pad by more  *)
(* than a DIB does.                                                        *)
Agreed ==
  IF kind = "image" THEN width % 4 = 0 ELSE width % Align \in {0, Align - 1}

(* Refuted: the bitmap shows the picture that was sent, of whatever size,  *)
(* each pixel in its place and in its colours (renderer.cpp takes the data *)
(* for RGB24 in rows of its own; cli.rs promises that the image is         *)
(* rendered).                                                              *)
PictureDrawn ==
  kind # "end" /\ row = height =>
    \A y \in 1 .. height : \A x \in 1 .. width :
      bitmap[y][x] = [i \in 1 .. 3 |-> Colour(x - 1, y - 1, i - 1)]

(* Rows that begin at the same offset on both sides are not mixed up: each *)
(* pixel is made of its own three bytes, whatever their order.  So is the  *)
(* first row of every picture.                                             *)
RowsPlaced ==
  kind # "end" =>
    \A y \in 1 .. row : \A x \in 1 .. width :
      Agreed \/ y = 1 =>
        { bitmap[y][x][i] : i \in 1 .. 3 } =
        { Colour(x - 1, y - 1, channel) : channel \in {Red, Green, Blue} }

(* Whoever draws a frame with data, or an image of a width both sides      *)
(* agree on, does not make SetDIBits look behind the end of the data.  It  *)
(* does in images of other widths, and in the final frame of a video.      *)
NothingBeyond ==
  kind = "video" \/ (kind = "image" /\ Agreed) =>
    \A y \in 1 .. row : \A x \in 1 .. width : \A i \in 1 .. 3 :
      bitmap[y][x][i] # Beyond
=============================================================================
