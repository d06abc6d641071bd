------------------------------ MODULE RleImage ------------------------------
(***************************************************************************)
(* locDecompressRLE of misc/texture.c: the unpacking of an image into      *)
(* video memory, byte by byte as the code does it.  The input is a list of *)
(* packets (what the image tool wrote); the code sees the bytes of their   *)
(* encoding and the bytes that follow it in flash.                         *)
(***************************************************************************)
EXTENDS Integers, Sequences, SequencesExt

CONSTANTS
  Bpp,            \* bytes per pixel
  Byte,           \* the pixel bytes to try
  PacketLengths,  \* the lengths of raw and of repeat packets to try
  RepeatLengths,
  MaxPackets,
  After           \* the bytes that follow the file in flash

ASSUME RleOK ==
  /\ Bpp \in 1 .. 4 /\ MaxPackets \in Nat
  /\ PacketLengths \subseteq 1 .. 128 /\ RepeatLengths \subseteq 1 .. 128
  /\ Byte \subseteq 0 .. 255 /\ After \in Seq(0 .. 255)

Pixel == [1 .. Bpp -> Byte]
Packet ==
  (UNION {[rle : {0}, px : [1 .. n -> Pixel]] : n \in PacketLengths}) \cup
  {[rle |-> 1, px |-> [j \in 1 .. n |-> p]] : n \in RepeatLengths, p \in Pixel}

(* The format: a byte with the repeat flag and the length less one, then   *)
(* one pixel, or as many as the length says.                               *)
Encode(p) ==
  <<128 * p.rle + Len(p.px) - 1>> \o
    (IF p.rle = 1 THEN p.px[1] ELSE FlattenSeq(p.px))
Encoding(ps) == FlattenSeq([j \in DOMAIN ps |-> Encode(ps[j])])
(* What it stands for.                                                     *)
Decoding(ps) == FlattenSeq([j \in DOMAIN ps |-> FlattenSeq(ps[j].px)])

VARIABLES
  packets,               \* the image
  flash,                 \* the bytes at the address eeRomFs_MMap returned
  Src, Size, out,        \* out: the bytes written from Dst on
  pixelcounter, nextpixelrle, rlestart, pc

vars == <<packets, flash, Src, Size, out, pixelcounter, nextpixelrle,
          rlestart, pc>>

Init ==
  /\ packets \in UNION {[1 .. n -> Packet] : n \in 0 .. MaxPackets}
  /\ flash = Encoding(packets) \o After
  /\ Src = 1 /\ Size = Len(Encoding(packets)) /\ out = <<>>
  /\ pixelcounter = 0 /\ nextpixelrle = 0 /\ rlestart = 1
  /\ pc = "packet"

(* The outer loop reads the byte in front of a packet.                     *)
ReadHeader ==
  /\ pc = "packet" /\ Size > 0
  /\ pixelcounter' = (flash[Src] % 128) + 1
  /\ nextpixelrle' = flash[Src] \div 128
  /\ Src' = Src + 1 /\ rlestart' = Src + 1
  /\ Size' = Size - 1
  /\ pc' = IF Size = 1 THEN "done" ELSE "pixel"
  /\ UNCHANGED <<packets, flash, out>>

(* The inner loop writes a pixel.  The bytes of a repeated pixel are       *)
(* counted once, when one repetition is left.                              *)
MutCountAll == nextpixelrle = 0 \/ pixelcounter >= 1
Counted == nextpixelrle = 0 \/ pixelcounter = 2
PixelAt == IF nextpixelrle # 0 THEN rlestart ELSE Src
WritePixel ==
  /\ pc = "pixel"
  /\ out' = out \o SubSeq(flash, PixelAt, PixelAt + Bpp - 1)
  /\ Src' = PixelAt + Bpp
  /\ pixelcounter' = pixelcounter - 1
  /\ Size' = IF ~Counted THEN Size ELSE IF Size >= Bpp THEN Size - Bpp ELSE 0
  /\ pc' = IF pixelcounter = 1 THEN "packet" ELSE "pixel"
  /\ UNCHANGED <<packets, flash, nextpixelrle, rlestart>>

Return ==
  /\ pc = "packet" /\ Size = 0 /\ pc' = "done"
  /\ UNCHANGED <<packets, flash, Src, Size, out, pixelcounter, nextpixelrle,
                 rlestart>>

Next == ReadHeader \/ WritePixel \/ Return
Spec == Init /\ [][Next]_vars

-----------------------------------------------------------------------------
(* At the end video memory holds the pixels that the packets stand for,    *)
(* no fewer and no more, and the file has been read to its end and not     *)
(* into what follows it in flash (locDecompressRLE).                       *)
DecodesImage ==
  pc = "done" => /\ out = Decoding(packets)
                 /\ Src = Len(Encoding(packets)) + 1
=============================================================================
