-------------------------------- MODULE Nv21 --------------------------------
(***************************************************************************)
(* The pictures between camera and encoder: CameraFormat's rotation, the   *)
(* conversion of NV21Convertor, and what they should come to.              *)
(*                                                                         *)
(* A picture is the array of its bytes, a function from 0; width and       *)
(* height are even.  A byte is named by where it stands in the scene as    *)
(* the camera holds it: plane, row, column.                                *)
(*                                                                         *)
(* Every convertor of the program has the slice height and stride of its   *)
(* picture, no padding, and panes not reversed: nothing ever sets them     *)
(* otherwise, and what convert() has for other values is never reached.    *)
(***************************************************************************)
EXTENDS Integers

Bytes(w, h) == 0 .. ((3 * w * h) \div 2) - 1

\* The byte at (row, col) of a plane that was w by h before the quarter turn
\* clockwise, if there was one.
Seen(plane, row, col, w, h, turned) ==
  IF turned THEN <<plane, h - 1 - col, row>> ELSE <<plane, row, col>>

Across(w, h, turned) == IF turned THEN h ELSE w

\* Luma by rows, then chroma by rows, in pairs of a byte of each plane ...
Interleaved(w, h, turned, first, second) ==
  [i \in Bytes(w, h) |->
     LET a == Across(w, h, turned)
         n == (i - w * h) \div 2
     IN  IF i < w * h THEN Seen("y", i \div a, i % a, w, h, turned)
         ELSE Seen(IF i % 2 = 0 THEN first ELSE second,
                   n \div (a \div 2), n % (a \div 2), w \div 2, h \div 2, turned)]

\* ... or one plane after the other.
Apart(w, h, turned) ==
  [i \in Bytes(w, h) |->
     LET a == Across(w, h, turned)
         n == (i - w * h) % ((w * h) \div 4)
     IN  IF i < w * h THEN Seen("y", i \div a, i % a, w, h, turned)
         ELSE Seen(IF i - w * h < (w * h) \div 4 THEN "u" ELSE "v",
                   n \div (a \div 2), n % (a \div 2), w \div 2, h \div 2, turned)]

\* What the camera delivers.
Taken(w, h) == Interleaved(w, h, FALSE, "v", "u")

\* What an encoder of a planar or a semi-planar format takes.
Wanted(w, h, turned, planar) ==
  IF planar THEN Apart(w, h, turned) ELSE Interleaved(w, h, turned, "u", "v")
-----------------------------------------------------------------------------
\* Both loops of the rotation, by the byte they write: the second goes backwards.
MutRotate(data, w, h) ==      \* mutant: the second loop forwards
  [i \in Bytes(w, h) |->
     IF i < w * h THEN data[(h - 1 - (i % h)) * w + i \div h]
     ELSE LET k == i - w * h
          IN  data[w * h + ((k \div 2) % (h \div 2)) * w
                   + w - 1 - 2 * ((k \div 2) \div (h \div 2)) - (k % 2)]]
rotateNV21Degree90(data, w, h) ==
  [i \in Bytes(w, h) |->
     IF i < w * h THEN data[(h - 1 - (i % h)) * w + i \div h]
     ELSE LET k == (3 * w * h) \div 2 - 1 - i
          IN  data[w * h + ((k \div 2) % (h \div 2)) * w
                   + w - 1 - 2 * ((k \div 2) \div (h \div 2)) - (k % 2)]]

\* convert(): U and V change places, or go apart, the U's first.
convert(data, size, planar) ==
  [i \in DOMAIN data |->
     LET k == i - size IN
     IF k < 0 THEN data[i]
     ELSE IF ~planar THEN data[IF k % 2 = 0 THEN i + 1 ELSE i - 1]
     ELSE IF k < size \div 4 THEN data[size + 2 * k + 1]
     ELSE data[size + 2 * (k - size \div 4)]]
=============================================================================
